-------------------------- MODULE AudioStore_proofs --------------------------
(***************************************************************************)
(* Proofs about AudioStore, for every set of sources, attempt size, record   *)
(* contents, retention and sweep budget.  RowOK is what every row of the     *)
(* database satisfies between two transactions; the rest of the invariant    *)
(* says which rows the salvage pass and an undecided commit rely on, while   *)
(* the writer, maintenance and the publication take their steps in any order. *)
(***************************************************************************)
EXTENDS AudioStore, SequenceTheorems, WellFoundedInduction, TLAPS

TailType == [at: Nat, v: Values \cup {"none"}, len: Nat]
Time == Nat \cup {Never}

Row == [type: {"none", "attempt", "quarantine"}, phase: M!Phases \cup {"none"},
        leg: Nat \X Nat, begin: Nat \X Nat,
        sum: Seq(Values), recs: Seq(Values), tail: TailType, conf: Nat, evid: Nat,
        opaque: BOOLEAN, disp: M!Dispositions \cup {"none"}, held: BOOLEAN,
        term: Time, due: Time, cert: BOOLEAN]

(* An attempt is capture's own: nothing was rejected, classified or held yet.  *)
AttemptOK(r) ==
    r.type = "attempt" =>
        /\ r.phase \in M!Active \cup {"sealed_waiting", "retiring"}
        /\ r.conf = 0 /\ r.evid = 0 /\ ~r.held /\ r.disp = "none"
        /\ ~r.cert /\ ~r.opaque /\ r.due = Never

(* Quarantined evidence leaves "blocked" only as a certified prefix.          *)
QuarantineOK(r) ==
    /\ r.type = "quarantine" =>
           /\ r.phase \in {"blocked", "retiring"} /\ r.disp # "none"
           /\ r.phase = "retiring" => r.disp = "published_prefix"
    /\ r.cert => r.disp = "published_prefix"
    /\ r.opaque \/ r.disp = "unprocessable" => r.sum = <<>> /\ r.recs = <<>>

(* A finished source is whole, a tail follows the last certified record, and    *)
(* a retention clock runs from the classification.                            *)
BytesOK(r) ==
    /\ r.phase = "sealed_waiting" => r.tail = NoTail /\ r.sum # <<>>
    /\ r.tail # NoTail => r.tail.at = Len(r.sum)
    /\ r.due # Never => r.term # Never /\ r.due >= r.term + Retention

RowOK(r) ==
    /\ r \in Row
    /\ r.type = "none" => r = NoRow
    /\ AttemptOK(r) /\ QuarantineOK(r) /\ BytesOK(r)

(* The rows and the answers given for them.                                  *)
RowsOK ==
    /\ db \in [Sources -> Row]
    /\ \A s \in Sources : RowOK(db[s])
    /\ acked \in [Sources -> Seq(Values)] /\ altered \subseteq Sources /\ now \in Nat
    /\ writer \in [src: Sources \cup {0}, pos: Nat, cache: SUBSET Seq(Values)]

(* The salvage pass works on sources that nobody else can change meanwhile.    *)
PassOK ==
    /\ salvage \in [todo: SUBSET Sources, src: Sources \cup {0}, snap: Row]
    /\ salvage.todo \subseteq Salvageable
    /\ salvage.src # 0 => salvage.todo # {} /\ salvage.src = Min(salvage.todo)

(* An undecided commit: the attempt of the writer is in the state before it or  *)
(* in the state it proposed, unless storage altered it.                       *)
DoubtOK ==
    doubt # NoDoubt =>
        /\ doubt.src \in Sources /\ doubt.src = writer.src
        /\ doubt.kind = "create" => doubt.old = NoRow
        /\ doubt.kind = "drain" => db[doubt.src].phase = "receiving"
        /\ db[doubt.src].type \in {"none", "attempt"}
        /\ doubt.src \in altered \/ db[doubt.src] \in {doubt.new, doubt.old}

IndInv == RowsOK /\ PassOK /\ DoubtOK /\ StoredAsAnswered /\ FailStopIsWarranted

-----------------------------------------------------------------------------
(* What the operations leave in a row.                                       *)

(* The constants that appear in rows.                                        *)
LEMMA RowConstants ==
    /\ NoLeg \in Nat \X Nat /\ NoTail \in TailType /\ Never \in Time /\ Never \notin Nat
    /\ NoRow \in Row /\ RowOK(NoRow)
    /\ now \in Nat => now \in Time /\ now + Retention \in Time /\ now + Retention # Never /\ now # Never
    /\ Retention \in Nat /\ ChunkLimit \in Nat /\ ChunkLimit > 0 /\ Size \in Nat /\ Size > 0
<1>1. NoLeg \in Nat \X Nat /\ NoTail \in TailType /\ Never \in Time /\ Never \notin Nat
  BY DEF NoLeg, NoTail, TailType, Never, Time
<1>2. <<>> \in Seq(Values) /\ "none" \in M!Phases \cup {"none"} /\ "none" \in M!Dispositions \cup {"none"}
  OBVIOUS
<1>3. NoRow \in Row
  BY <1>1, <1>2 DEF NoRow, Row
<1>4. RowOK(NoRow)
  BY <1>3 DEF RowOK, AttemptOK, QuarantineOK, BytesOK, NoRow
<1>5. now \in Nat => now \in Time /\ now + Retention \in Time /\ now + Retention # Never /\ now # Never
  BY RetentionAssumption DEF Time, Never
<1> QED
  BY <1>1, <1>3, <1>4, <1>5, RetentionAssumption, SizeAssumption

(* A new attempt.                                                            *)
LEMMA CreatedOK == RowOK(Created) /\ Created.type = "attempt" /\ Created.sum = <<>> /\ Created.recs = <<>>
                   /\ Created.tail = NoTail /\ Created.conf = 0 /\ Created.evid = 0
<1>1. Created = [NoRow EXCEPT !.type = "attempt", !.phase = "prepared"]
  BY DEF Created, M!Create, M!To
<1>2. "prepared" \in M!Active /\ "prepared" \in M!Phases
  BY DEF M!Active, M!Phases
<1>3. Created \in Row
  BY <1>1, <1>2, RowConstants DEF Row
<1> QED
  BY <1>1, <1>2, <1>3, RowConstants DEF NoRow, RowOK, AttemptOK, QuarantineOK, BytesOK

(* The life cycle of an open attempt: its phase, leg and READ_BEGIN move, its   *)
(* bytes stay.                                                               *)
SameBytes(r, q) ==
    /\ q.sum = r.sum /\ q.recs = r.recs /\ q.tail = r.tail /\ q.evid = r.evid
    /\ q.conf >= r.conf

(* The rows differ in their phase, leg and READ_BEGIN only.                  *)
Moved(r, q) ==
    /\ q.type = r.type /\ q.sum = r.sum /\ q.recs = r.recs /\ q.tail = r.tail
    /\ q.conf = r.conf /\ q.evid = r.evid /\ q.opaque = r.opaque /\ q.disp = r.disp
    /\ q.held = r.held /\ q.term = r.term /\ q.due = r.due /\ q.cert = r.cert

LEMMA PhaseMove ==
    ASSUME NEW r, RowOK(r), r.phase \in M!Active,
           NEW q \in Row, Moved(r, q), q.phase \in M!Active
    PROVE  RowOK(q) /\ SameBytes(r, q) /\ q.type = "attempt"
<1>1. r \in Row /\ r.type = "attempt"
  BY SMTT(30) DEF RowOK, AttemptOK, QuarantineOK, NoRow, M!Active, Row
<1>2. r.conf \in Nat
  BY <1>1 DEF Row
<1>3. RowOK(q)
  BY <1>1 DEF Moved, RowOK, AttemptOK, QuarantineOK, BytesOK, M!Active
<1> QED
  BY <1>1, <1>2, <1>3 DEF SameBytes, Moved

(* A change of a row that keeps every answer given for it: once a source is     *)
(* covered or gone it does not come back, and the records only grow.           *)
Gone == {"none", "covered", "retiring"}
Continues(r, q) ==
    q.phase \notin Gone =>
        /\ r.phase \notin Gone
        /\ \E more \in Seq(Values) : q.sum = r.sum \o more
        /\ Authentic(r) => Authentic(q)

(* A change of a row that deletes nothing before its term.                    *)
Lawful(r, q, referenced) ==
    /\ Replaced(r.tail, q) \/ Spent(r)
    /\ q.conf < r.conf \/ q.evid < r.evid => Spent(r)
    /\ Len(q.recs) < Len(r.recs) =>
           \/ r.phase = "retiring"
           \/ Spent(r) /\ r.disp = "unprocessable" /\ ~referenced

Change(r, q, referenced) == RowOK(q) /\ Continues(r, q) /\ Lawful(r, q, referenced)

(* A change that keeps the bytes keeps the answers and the terms.             *)
LEMMA SameBytesChange ==
    ASSUME NEW r, RowOK(r), NEW q, RowOK(q), SameBytes(r, q), NEW referenced,
           r.phase \notin Gone \/ q.phase \in Gone
    PROVE  Change(r, q, referenced)
<1>1. /\ r.sum \in Seq(Values) /\ r.recs \in Seq(Values) /\ r.conf \in Nat /\ q.conf \in Nat
      /\ r.evid \in Nat /\ r.tail.len \in Nat
  BY DEF RowOK, Row, TailType
<1>2. r.sum = r.sum \o <<>> /\ <<>> \in Seq(Values)
  BY <1>1
<1>3. Continues(r, q)
  BY <1>2 DEF SameBytes, Continues, Authentic
<1>4. Lawful(r, q, referenced)
  <2>1. Replaced(r.tail, q)
    BY <1>1 DEF SameBytes, Replaced
  <2>2. Len(r.recs) \in Nat
    BY <1>1
  <2> QED
    BY <1>1, <2>1, <2>2 DEF SameBytes, Lawful
<1> QED
  BY <1>3, <1>4 DEF Change

(* A row that stays as it is.                                                *)
LEMMA NoChange ==
    ASSUME NEW r, RowOK(r), NEW referenced
    PROVE  Change(r, r, referenced)
<1>1. r.conf \in Nat
  BY DEF RowOK, Row
<1> QED
  BY <1>1, SameBytesChange DEF SameBytes

(* An open attempt is an attempt row.                                        *)
LEMMA OpenAttempt ==
    ASSUME NEW r, RowOK(r), r.phase \in M!Active
    PROVE  /\ r.type = "attempt" /\ r \in Row /\ r.conf = 0 /\ r.evid = 0 /\ ~r.held
           /\ r.disp = "none" /\ ~r.cert /\ ~r.opaque /\ r.due = Never /\ r.phase \notin Gone
  BY DEF RowOK, AttemptOK, QuarantineOK, NoRow, M!Active, Row, Gone

(* prepare_leg, record_read_begin, interrupt.                                *)
LEMMA LifecycleChange ==
    ASSUME NEW r, RowOK(r), r.phase \in M!Active, NEW l \in Nat \X Nat, NEW referenced,
           NEW q \in {LegPrepared(r, l), ReadBegun(r), Interrupted(r)}
    PROVE  Change(r, q, referenced) /\ q.type = "attempt"
<1>1. r \in Row /\ r.leg \in Nat \X Nat /\ r.begin \in Nat \X Nat /\ r.phase \notin Gone
  BY OpenAttempt DEF Row
<1>2. M!Interruption(r.phase).next \in M!Active
  BY DEF M!Interruption, M!To, M!Active
<1>3. q \in Row /\ Moved(r, q) /\ q.phase \in M!Active
  <2>0. M!Active \subseteq M!Phases
    BY DEF M!Phases
  <2>1. CASE q = LegPrepared(r, l)
    BY <1>1, <2>0, <2>1, RowConstants DEF LegPrepared, M!Active, Row, Moved
  <2>2. CASE q = ReadBegun(r)
    BY <1>1, <2>0, <2>2 DEF ReadBegun, M!Active, Row, Moved
  <2>3. CASE q = Interrupted(r)
    <3> DEFINE p == M!Interruption(r.phase).next
    <3>1. q = [r EXCEPT !.phase = p] /\ p \in M!Active
      BY <1>2, <2>3 DEF Interrupted
    <3> HIDE DEF p
    <3> QED
      BY <1>1, <2>0, <3>1 DEF Row, Moved
  <2> QED
    BY <2>1, <2>2, <2>3
<1>4. RowOK(q) /\ SameBytes(r, q) /\ q.type = "attempt"
  BY <1>3, PhaseMove
<1> QED
  BY <1>1, <1>4, SameBytesChange

(* seal_source: a complete attempt without a tail.                           *)
LEMMA SealedChange ==
    ASSUME NEW r, RowOK(r), M!Done(r.phase).action = "persist", Len(r.sum) = Size, r.tail = NoTail,
           NEW referenced
    PROVE  Change(r, Sealed(r), referenced) /\ Sealed(r).type = "attempt"
<1>1. r.phase \in M!Active /\ M!Done(r.phase).next = "sealed_waiting"
  BY DEF M!Done, M!To, M!Refuse, M!Active
<1>2. /\ r \in Row /\ r.type = "attempt" /\ r.conf = 0 /\ r.evid = 0 /\ ~r.held
      /\ r.disp = "none" /\ ~r.cert /\ ~r.opaque /\ r.due = Never /\ r.phase \notin Gone
  BY <1>1, OpenAttempt
<1> DEFINE q == [r EXCEPT !.phase = "sealed_waiting"]
<1>3. q \in Row
  BY <1>2 DEF Row, M!Phases
<1>4. /\ q.phase = "sealed_waiting" /\ q.type = r.type /\ q.sum = r.sum /\ q.recs = r.recs
      /\ q.tail = r.tail /\ q.conf = r.conf /\ q.evid = r.evid /\ q.opaque = r.opaque
      /\ q.disp = r.disp /\ q.held = r.held /\ q.term = r.term /\ q.due = r.due /\ q.cert = r.cert
  BY <1>2 DEF Row
<1>5. Sealed(r) = q
  BY <1>1 DEF Sealed
<1> HIDE DEF q
<1>6. r.sum # <<>>
  BY <1>2, RowConstants DEF Row
<1>7. RowOK(q)
  BY <1>2, <1>3, <1>4, <1>6 DEF RowOK, AttemptOK, QuarantineOK, BytesOK
<1>8. SameBytes(r, q)
  BY <1>2, <1>4 DEF SameBytes
<1> QED
  BY <1>2, <1>4, <1>5, <1>7, <1>8, SameBytesChange

(* An open attempt that enters quarantine keeps its bytes; it is terminal only  *)
(* when it has none.                                                         *)
LEMMA QuarantinedFields ==
    ASSUME NEW r, RowOK(r), r.phase \in M!Active, now \in Nat
    PROVE  LET q == Quarantined(r)
               none == r.sum = <<>> /\ r.recs = <<>>
           IN  /\ q \in Row /\ q.type = "quarantine" /\ q.phase = "blocked"
               /\ q.sum = r.sum /\ q.recs = r.recs /\ q.tail = r.tail
               /\ q.conf = r.conf /\ q.evid = r.evid /\ ~q.opaque /\ ~q.cert
               /\ q.disp = IF none THEN "unprocessable" ELSE "unclassified"
               /\ q.term = IF none THEN now ELSE Never
               /\ q.due = IF none THEN now + Retention ELSE Never
<1>1. /\ r \in Row /\ r.sum \in Seq(Values) /\ r.recs \in Seq(Values) /\ Len(r.sum) \in Nat
      /\ Len(r.sum) = 0 <=> r.sum = <<>>
  BY OpenAttempt DEF Row
<1> DEFINE none == r.sum = <<>> /\ r.recs = <<>>
           d == IF none THEN "unprocessable" ELSE "unclassified"
           h == Len(r.sum) = 0 /\ r.recs # <<>>
           t == IF none THEN now ELSE Never
           u == IF none THEN now + Retention ELSE Never
<1>2. /\ M!ClassifyConflict(Len(r.sum), r.recs # <<>>).disp = d
      /\ M!ClassifyConflict(Len(r.sum), r.recs # <<>>).held = h
  BY <1>1 DEF M!ClassifyConflict, M!QuarantineOpened, M!Refuse, M!To
<1>3. M!Conflict(r.phase).next = "blocked"
  BY DEF M!Conflict, M!To
<1>4. Quarantined(r) = [r EXCEPT !.type = "quarantine", !.phase = "blocked",
                 !.held = h, !.disp = d, !.opaque = FALSE, !.cert = FALSE, !.term = t, !.due = u]
  <2>1. d = "unprocessable" <=> none
    OBVIOUS
  <2> QED
    BY <1>2, <1>3, <2>1 DEF Quarantined
<1>5. d \in M!Dispositions /\ h \in BOOLEAN /\ t \in Time /\ u \in Time /\ "blocked" \in M!Phases
  BY RowConstants DEF M!Dispositions, M!Phases
<1> HIDE DEF d, h, t, u
<1> DEFINE q == Quarantined(r)
<1>6. q \in Row
  BY ZenonT(30), <1>1, <1>4, <1>5 DEF Row
<1>7. /\ q.type = "quarantine" /\ q.phase = "blocked"
      /\ q.sum = r.sum /\ q.recs = r.recs /\ q.tail = r.tail
      /\ q.conf = r.conf /\ q.evid = r.evid
      /\ q.disp = d /\ q.term = t /\ q.due = u
  BY <1>1, <1>4 DEF Row
<1>8. q.opaque = FALSE /\ q.cert = FALSE
  BY <1>1, <1>4 DEF Row
<1> QED
  BY <1>6, <1>7, <1>8 DEF d, t, u

LEMMA QuarantinedChange ==
    ASSUME NEW r, RowOK(r), r.phase \in M!Active, now \in Nat, NEW referenced,
           NEW q \in {Quarantined(r), Rejected(r)}
    PROVE  Change(r, q, referenced) /\ q.type = "quarantine"
<1> DEFINE z == Quarantined(r)
           none == r.sum = <<>> /\ r.recs = <<>>
<1>1. /\ z \in Row /\ z.type = "quarantine" /\ z.phase = "blocked"
      /\ z.sum = r.sum /\ z.recs = r.recs /\ z.tail = r.tail
      /\ z.conf = r.conf /\ z.evid = r.evid /\ ~z.opaque /\ ~z.cert
      /\ z.disp = IF none THEN "unprocessable" ELSE "unclassified"
      /\ z.term = IF none THEN now ELSE Never
      /\ z.due = IF none THEN now + Retention ELSE Never
  BY QuarantinedFields
<1>2. Rejected(r) = [z EXCEPT !.conf = z.conf + 1]
  BY DEF Rejected
<1>3. r.conf \in Nat /\ r.phase \notin Gone
  BY OpenAttempt DEF Row
<1> HIDE DEF z
<1>4. /\ q \in Row /\ q.type = "quarantine" /\ q.phase = "blocked"
      /\ q.sum = r.sum /\ q.recs = r.recs /\ q.tail = r.tail
      /\ q.conf >= r.conf /\ q.evid = r.evid /\ ~q.opaque /\ ~q.cert
      /\ q.disp = z.disp /\ q.term = z.term /\ q.due = z.due
  <2>1. CASE q = Quarantined(r)
    BY <1>1, <1>3, <2>1 DEF z
  <2>2. CASE q = Rejected(r)
    <3>0. z.conf + 1 \in Nat /\ z.conf + 1 >= r.conf
      BY <1>1, <1>3
    <3>1. q \in Row
      BY <1>1, <1>2, <2>2, <3>0 DEF Row
    <3>2. /\ q.type = z.type /\ q.phase = z.phase /\ q.sum = z.sum /\ q.recs = z.recs /\ q.tail = z.tail
          /\ q.evid = z.evid /\ q.disp = z.disp /\ q.term = z.term /\ q.due = z.due
          /\ q.conf = z.conf + 1
      BY <1>1, <1>2, <2>2 DEF Row
    <3>3. q.opaque = z.opaque /\ q.cert = z.cert
      BY <1>1, <1>2, <2>2 DEF Row
    <3> QED
      BY <1>1, <3>0, <3>1, <3>2, <3>3
  <2> QED
    BY <2>1, <2>2
<1>5. RowOK(q)
  <2>1. AttemptOK(q) /\ (q.type = "none" => q = NoRow)
    BY <1>4 DEF AttemptOK
  <2>2. QuarantineOK(q)
    BY <1>1, <1>4 DEF QuarantineOK
  <2>3. BytesOK(q)
    BY <1>1, <1>4, RowConstants DEF BytesOK, RowOK
  <2> QED
    BY <1>4, <2>1, <2>2, <2>3 DEF RowOK
<1> QED
  BY <1>3, <1>4, <1>5, SameBytesChange DEF SameBytes

(* publish_prefix: a prefix is final as it is, or it goes to quarantine.      *)
LEMMA TerminalizedChange ==
    ASSUME NEW r, RowOK(r), r.phase \in M!Active, now \in Nat, NEW referenced
    PROVE  Change(r, Terminalized(r), referenced) /\ Terminalized(r).type \in {"attempt", "quarantine"}
<1>1. CASE r.sum = <<>> \/ r.tail # NoTail \/ r.conf > 0 \/ r.evid > 0
  BY <1>1, QuarantinedChange DEF Terminalized
<1>2. CASE ~(r.sum = <<>> \/ r.tail # NoTail \/ r.conf > 0 \/ r.evid > 0)
  <2>1. M!TerminalPrefix(r.phase).next = "sealed_waiting"
    BY DEF M!TerminalPrefix, M!To
  <2> DEFINE q == [r EXCEPT !.phase = "sealed_waiting", !.term = now]
  <2>2. Terminalized(r) = q
    BY <1>2, <2>1 DEF Terminalized
  <2>3. /\ r \in Row /\ r.type = "attempt" /\ r.conf = 0 /\ r.evid = 0 /\ ~r.held
        /\ r.disp = "none" /\ ~r.cert /\ ~r.opaque /\ r.due = Never /\ r.phase \notin Gone
    BY OpenAttempt
  <2>4. q \in Row
    BY <2>3, RowConstants DEF Row, M!Phases
  <2>5. /\ q.phase = "sealed_waiting" /\ q.type = r.type /\ q.sum = r.sum /\ q.recs = r.recs
        /\ q.tail = r.tail /\ q.conf = r.conf /\ q.evid = r.evid /\ q.opaque = r.opaque
        /\ q.disp = r.disp /\ q.held = r.held /\ q.due = r.due /\ q.cert = r.cert
    BY <2>3 DEF Row
  <2> HIDE DEF q
  <2>6. RowOK(q)
    BY <1>2, <2>3, <2>4, <2>5 DEF RowOK, AttemptOK, QuarantineOK, BytesOK
  <2>7. SameBytes(r, q)
    BY <2>3, <2>5 DEF SameBytes
  <2> QED
    BY <2>2, <2>3, <2>5, <2>6, <2>7, SameBytesChange
<1> QED
  BY <1>1, <1>2

(* The rows behind a prefix are what was appended to it.                     *)
LEMMA AppendedSuffix ==
    ASSUME NEW a \in Seq(Values), NEW b \in Seq(Values)
    PROVE  /\ a \o b \in Seq(Values) /\ Len(a \o b) = Len(a) + Len(b)
           /\ SubSeq(a \o b, Len(a) + 1, Len(a \o b)) = b
           /\ \A i \in 1..Len(a) : (a \o b)[i] = a[i]
<1>1. /\ a \o b \in Seq(Values) /\ Len(a \o b) = Len(a) + Len(b)
      /\ \A i \in 1..Len(a) : (a \o b)[i] = a[i]
      /\ \A i \in 1..Len(b) : (a \o b)[Len(a) + i] = b[i]
      /\ Len(a) \in Nat /\ Len(b) \in Nat
  OBVIOUS
<1> DEFINE c == a \o b
           d == SubSeq(c, Len(a) + 1, Len(c))
<1> HIDE DEF c
<1>2. Len(a) + 1 \in 1..(Len(c) + 1) /\ Len(c) \in (Len(a))..Len(c)
  BY <1>1 DEF c
<1>3. d \in Seq(Values) /\ Len(d) = Len(b)
  BY <1>1, <1>2 DEF c
<1>4. \A i \in 1..Len(b) : d[i] = b[i]
  <2> TAKE i \in 1..Len(b)
  <2>1. d[i] = c[Len(a) + 1 + i - 1]
    BY <1>1, <1>2, <1>3 DEF c
  <2>2. Len(a) + 1 + i - 1 = Len(a) + i
    BY <1>1
  <2> QED
    BY <1>1, <2>1, <2>2 DEF c
<1> HIDE DEF d
<1>5. d = b
  BY <1>3, <1>4, SeqEqual
<1> QED
  BY <1>1, <1>5 DEF d, c

(* commit_drain: the certified records grow by what is new of the drain, the    *)
(* rows by the same, and the tail that is kept follows them and continues the   *)
(* one before.                                                               *)
LEMMA ExtendedSum ==
    ASSUME NEW r, RowOK(r), NEW at \in Nat, at <= Len(r.sum), NEW vals \in Seq(Values)
    PROVE  LET new == Extended(r, at, vals)
           IN  /\ new \in Seq(Values)
               /\ \E more \in Seq(Values) : new = r.sum \o more
               /\ Len(new) = IF at + Len(vals) > Len(r.sum) THEN at + Len(vals) ELSE Len(r.sum)
<1>1. r.sum \in Seq(Values) /\ Len(r.sum) \in Nat /\ Len(vals) \in Nat
  BY DEF RowOK, Row
<1> DEFINE k == Len(r.sum) - at
           more == SubSeq(vals, k + 1, Len(vals))
           n == IF k < Len(vals) THEN Len(vals) - k ELSE 0
<1>2. k \in Nat
  BY <1>1
<1>3. more \in Seq(Values) /\ Len(more) = n
  <2> HIDE DEF k
  <2>1. CASE k < Len(vals)
    <3>1. k + 1 \in 1..(Len(vals) + 1) /\ Len(vals) \in ((k + 1) - 1)..Len(vals)
      BY <1>1, <1>2, <2>1
    <3> QED
      BY <1>1, <1>2, <2>1, <3>1, SubSeqProperties
  <2>2. CASE ~(k < Len(vals))
    <3>1. more = <<>>
      BY <1>1, <1>2, <2>2, SubSeqEmpty
    <3>2. n = 0
      BY <2>2
    <3> HIDE DEF more, n
    <3> QED
      BY <3>1, <3>2
  <2> QED
    BY <2>1, <2>2
<1>4. Extended(r, at, vals) = r.sum \o more
  BY DEF Extended
<1> HIDE DEF more
<1>5. r.sum \o more \in Seq(Values) /\ Len(r.sum \o more) = Len(r.sum) + Len(more)
  BY <1>1, <1>3, AppendedSuffix
<1>6. Len(r.sum) + n = IF at + Len(vals) > Len(r.sum) THEN at + Len(vals) ELSE Len(r.sum)
  <2>1. \A x, y, a \in Nat : a <= x =>
          x + (IF x - a < y THEN y - (x - a) ELSE 0) = IF a + y > x THEN a + y ELSE x
    OBVIOUS
  <2> QED
    BY <1>1, <2>1
<1> HIDE DEF n
<1> QED
  BY <1>3, <1>4, <1>5, <1>6

(* The tail with which a drain of whole records ends, if any.                *)
DrainTailOK(in, end) == in \in TailType /\ (in # NoTail => in.at = end)

LEMMA KeptTailFollows ==
    ASSUME NEW r, RowOK(r), NEW at \in Nat, at <= Len(r.sum), NEW vals \in Seq(Values),
           NEW in, DrainTailOK(in, at + Len(vals)),
           NEW new, new = Extended(r, at, vals), ~TailConflict(r, in, new),
           NEW kept, kept = KeptTail(r, in, new)
    PROVE  /\ kept \in TailType /\ (kept # NoTail => kept.at = Len(new))
           /\ \/ r.tail = NoTail
              \/ kept.v = r.tail.v /\ kept.at = r.tail.at /\ kept.len >= r.tail.len
              \/ Len(new) > r.tail.at /\ new[r.tail.at + 1] = r.tail.v
<1>1. /\ r.tail \in TailType /\ in \in TailType /\ NoTail \in TailType
      /\ r.tail.len \in Nat /\ in.len \in Nat /\ r.tail.at \in Nat /\ in.at \in Nat
      /\ r.tail # NoTail => r.tail.at = Len(r.sum)
  BY RowConstants DEF DrainTailOK, RowOK, Row, BytesOK, TailType
<1>2. Len(r.sum) \in Nat /\ Len(vals) \in Nat /\ Len(new) \in Nat
  BY ExtendedSum DEF RowOK, Row
<1>3. Len(new) = IF at + Len(vals) > Len(r.sum) THEN at + Len(vals) ELSE Len(r.sum)
  BY ExtendedSum
<1>4. in # NoTail => in.at <= Len(new) /\ in.at = at + Len(vals)
  BY <1>2, <1>3 DEF DrainTailOK
<1>5. r.tail # NoTail /\ Len(new) > Len(r.sum) => new[r.tail.at + 1] = r.tail.v
  BY <1>1 DEF TailConflict
<1>6. in # NoTail /\ r.tail # NoTail /\ in.at = r.tail.at => in.v = r.tail.v
  BY DEF TailConflict
<1>7. CASE in = NoTail \/ in.at < Len(new)
  <2>1. kept = IF Len(new) = Len(r.sum) THEN r.tail ELSE NoTail
    BY <1>7 DEF KeptTail
  <2> QED
    BY <1>1, <1>2, <1>3, <1>5, <2>1
<1>8. CASE ~(in = NoTail \/ in.at < Len(new))
  <2>1. in.at = Len(new)
    BY <1>1, <1>2, <1>4, <1>8
  <2>2. kept = IF r.tail = NoTail \/ in.at > r.tail.at THEN in
               ELSE IF in.len > r.tail.len THEN in ELSE r.tail
    BY <1>8 DEF KeptTail
  <2>3. CASE r.tail = NoTail \/ in.at > r.tail.at
    BY <1>1, <1>2, <1>3, <1>5, <2>1, <2>2, <2>3
  <2>4. CASE ~(r.tail = NoTail \/ in.at > r.tail.at)
    <3>1. in.at = r.tail.at /\ in.v = r.tail.v
      BY <1>1, <1>2, <1>3, <1>6, <1>8, <2>1, <2>4
    <3> QED
      BY <1>1, <1>2, <2>1, <2>2, <2>4, <3>1
  <2> QED
    BY <2>3, <2>4
<1> QED
  BY <1>7, <1>8

LEMMA DrainedChange ==
    ASSUME NEW r, RowOK(r), r.phase = "receiving", NEW at \in Nat, at <= Len(r.sum),
           NEW vals \in Seq(Values), NEW in, DrainTailOK(in, at + Len(vals)),
           NEW new, new = Extended(r, at, vals), ~TailConflict(r, in, new), NEW referenced
    PROVE  /\ Change(r, Drained(r, new, in), referenced) /\ Drained(r, new, in).type = "attempt"
           /\ Drained(r, new, in).sum = new /\ Drained(r, new, in).phase = "receiving"
<1> DEFINE kept == KeptTail(r, in, new)
           rows == r.recs \o SubSeq(new, Len(r.sum) + 1, Len(new))
           q == Drained(r, new, in)
<1>1. /\ r \in Row /\ r.type = "attempt" /\ r.conf = 0 /\ r.evid = 0 /\ ~r.held
      /\ r.disp = "none" /\ ~r.cert /\ ~r.opaque /\ r.due = Never /\ r.phase \notin Gone
  BY OpenAttempt DEF M!Active
<1>2. PICK more \in Seq(Values) : new = r.sum \o more
  BY ExtendedSum
<1>3. new \in Seq(Values) /\ SubSeq(new, Len(r.sum) + 1, Len(new)) = more
  BY <1>1, <1>2, AppendedSuffix DEF Row
<1>4. rows = r.recs \o more /\ r.recs \in Seq(Values)
  BY <1>1, <1>3 DEF Row
<1>5. rows \in Seq(Values) /\ Len(rows) >= Len(r.recs)
  <2>1. r.recs \o more \in Seq(Values) /\ Len(r.recs \o more) = Len(r.recs) + Len(more)
    BY <1>4, AppendedSuffix
  <2>2. Len(more) \in Nat /\ Len(r.recs) \in Nat
    BY <1>4
  <2> HIDE DEF rows
  <2> QED
    BY <1>4, <2>1, <2>2
<1>6. /\ kept \in TailType /\ (kept # NoTail => kept.at = Len(new))
      /\ \/ r.tail = NoTail
         \/ kept.v = r.tail.v /\ kept.at = r.tail.at /\ kept.len >= r.tail.len
         \/ Len(new) > r.tail.at /\ new[r.tail.at + 1] = r.tail.v
  BY KeptTailFollows
<1>7. q = [r EXCEPT !.sum = new, !.tail = kept, !.recs = rows]
  BY DEF Drained
<1> HIDE DEF q, kept, rows
<1>8. q \in Row
  BY <1>1, <1>3, <1>5, <1>6, <1>7 DEF Row
<1>9. /\ q.phase = r.phase /\ q.type = r.type /\ q.sum = new /\ q.recs = rows
      /\ q.tail = kept /\ q.conf = r.conf /\ q.evid = r.evid /\ q.disp = r.disp
      /\ q.term = r.term /\ q.due = r.due
  BY <1>1, <1>7 DEF Row
<1>10. q.opaque = r.opaque /\ q.held = r.held /\ q.cert = r.cert
  BY <1>1, <1>7 DEF Row
<1>11. RowOK(q)
  BY <1>1, <1>6, <1>8, <1>9, <1>10 DEF RowOK, AttemptOK, QuarantineOK, BytesOK
<1>12. Continues(r, q)
  BY <1>1, <1>2, <1>4, <1>9 DEF Continues, Authentic
<1>13. Lawful(r, q, referenced)
  <2>1. Replaced(r.tail, q)
    BY <1>6, <1>9 DEF Replaced
  <2>2. Len(rows) \in Nat /\ Len(r.recs) \in Nat
    BY <1>4, <1>5
  <2> QED
    BY <1>1, <1>5, <1>9, <2>1, <2>2 DEF Lawful
<1> QED
  BY <1>1, <1>9, <1>11, <1>12, <1>13 DEF Change, q

(* The operations on quarantined evidence.                                   *)
LEMMA QuarantineRow ==
    ASSUME NEW r, RowOK(r), r.type = "quarantine"
    PROVE  /\ r \in Row /\ r.phase \in {"blocked", "retiring"} /\ r.disp # "none"
           /\ r.disp \in M!Dispositions /\ (r.phase = "retiring" => r.disp = "published_prefix")
  BY DEF RowOK, QuarantineOK, Row

(* admit_certified_prefix: an unclassified source becomes a certified prefix;  *)
(* a clock that runs goes on.                                                *)
LEMMA CertifiedChange ==
    ASSUME NEW r, RowOK(r), r.type = "quarantine", ~Classified(r), now \in Nat, NEW referenced
    PROVE  /\ Change(r, Certified(r), referenced)
           /\ Certified(r).type = "quarantine"
<1>1. r \in Row /\ r.phase = "blocked" /\ r.disp = "unclassified"
  BY QuarantineRow DEF Classified, M!Dispositions
<1> DEFINE runs == r.term # Never /\ r.term <= r.due
           t == IF runs THEN r.term ELSE now
           u == IF runs THEN r.due ELSE now + Retention
           q == Certified(r)
<1>2. q = [r EXCEPT !.disp = "published_prefix", !.cert = TRUE, !.term = t, !.due = u]
  BY <1>1 DEF Certified, M!CertifiedPrefix, M!To
<1>3. r.term \in Time /\ r.due \in Time /\ r.term # Never => r.term \in Nat
  BY <1>1 DEF Row, Time
<1>4. t \in Time /\ u \in Time /\ u # Never /\ t # Never /\ u >= t + Retention
  <2>1. CASE runs
    <3>1. r.term \in Nat /\ r.due # Never
      BY <1>1, <2>1 DEF Row, Time, Never
    <3> QED
      BY <1>1, <2>1, <3>1 DEF RowOK, BytesOK, Row
  <2>2. CASE ~runs
    BY <2>2, RowConstants
  <2> QED
    BY <2>1, <2>2
<1> HIDE DEF q, t, u
<1>5. q \in Row
  BY <1>1, <1>2, <1>4 DEF Row, M!Dispositions
<1>6. /\ q.phase = r.phase /\ q.type = r.type /\ q.sum = r.sum /\ q.recs = r.recs
      /\ q.tail = r.tail /\ q.conf = r.conf /\ q.evid = r.evid /\ q.disp = "published_prefix"
      /\ q.term = t /\ q.due = u
  BY <1>1, <1>2 DEF Row
<1>7. q.opaque = r.opaque /\ q.held = r.held
  BY <1>1, <1>2 DEF Row
<1>8. RowOK(q)
  BY <1>1, <1>4, <1>5, <1>6, <1>7 DEF RowOK, AttemptOK, QuarantineOK, BytesOK
<1>9. SameBytes(r, q) /\ r.phase \notin Gone
  BY <1>1, <1>6 DEF SameBytes, Row, Gone
<1> QED
  BY <1>6, <1>8, <1>9, SameBytesChange DEF q

(* Records that contradict their checkpoint, and a source whose bytes contradict *)
(* published audio, are held whole.                                          *)
LEMMA HeldFields ==
    ASSUME NEW r, RowOK(r)
    PROVE  LET q == HeldForReview(r)
           IN  /\ q \in Row /\ q.type = r.type /\ q.phase = M!SourceIntegrityHold(r.phase).next
               /\ q.disp = "unclassified" /\ q.due = Never /\ q.opaque = FALSE /\ q.cert = FALSE
               /\ q.sum = r.sum /\ q.recs = r.recs /\ q.tail = r.tail /\ q.conf = r.conf
               /\ q.evid = r.evid
<1> DEFINE q == HeldForReview(r)
           p == M!SourceIntegrityHold(r.phase).next
<1>1. r \in Row /\ r.phase \in M!Phases \cup {"none"}
  BY DEF RowOK, Row
<1>2. p \in M!Phases \cup {"none"}
  BY <1>1 DEF M!SourceIntegrityHold, M!Refuse, M!To, M!Phases
<1>3. q = [r EXCEPT !.phase = p, !.held = TRUE, !.disp = "unclassified", !.opaque = FALSE,
                    !.cert = FALSE, !.term = Never, !.due = Never]
  BY DEF HeldForReview
<1> HIDE DEF q, p
<1>4. q \in Row
  <2>1. Never \in Time /\ "unclassified" \in M!Dispositions \cup {"none"}
    BY RowConstants DEF M!Dispositions
  <2> QED BY ZenonT(30), <1>1, <1>2, <1>3, <2>1 DEF Row
<1>5. /\ q.type = r.type /\ q.phase = p /\ q.disp = "unclassified" /\ q.due = Never
      /\ q.sum = r.sum /\ q.recs = r.recs /\ q.tail = r.tail /\ q.conf = r.conf /\ q.evid = r.evid
  BY <1>1, <1>3 DEF Row
<1>6. q.opaque = FALSE /\ q.cert = FALSE
  BY <1>1, <1>3 DEF Row
<1> QED
  BY <1>4, <1>5, <1>6 DEF q, p

LEMMA HeldChange ==
    ASSUME NEW r, RowOK(r), r.phase \notin Gone, NEW referenced,
           NEW q \in Row, q.type = "quarantine", q.phase = "blocked",
           q.disp = "unclassified", q.due = Never, q.opaque = FALSE, q.cert = FALSE,
           q.sum = r.sum, q.recs = r.recs, q.tail = r.tail, q.conf = r.conf, q.evid = r.evid
    PROVE  Change(r, q, referenced)
<1>1. r.conf \in Nat
  BY DEF RowOK, Row
<1>2. RowOK(q)
  BY DEF RowOK, AttemptOK, QuarantineOK, BytesOK
<1> QED
  BY <1>1, <1>2, SameBytesChange DEF SameBytes

LEMMA HeldForReviewChange ==
    ASSUME NEW r, RowOK(r), r.type = "quarantine", ~Classified(r), NEW referenced
    PROVE  Change(r, HeldForReview(r), referenced) /\ HeldForReview(r).type = "quarantine"
<1>1. r.phase = "blocked" /\ r.phase \notin Gone
  BY QuarantineRow DEF Classified, Gone
<1>2. M!SourceIntegrityHold(r.phase).next = "blocked"
  BY <1>1 DEF M!SourceIntegrityHold, M!To
<1> DEFINE q == HeldForReview(r)
<1>3. /\ q \in Row /\ q.type = "quarantine" /\ q.phase = "blocked"
      /\ q.disp = "unclassified" /\ q.due = Never /\ q.opaque = FALSE /\ q.cert = FALSE
      /\ q.sum = r.sum /\ q.recs = r.recs /\ q.tail = r.tail /\ q.conf = r.conf /\ q.evid = r.evid
  BY <1>2, HeldFields
<1> HIDE DEF q
<1>4. Change(r, q, referenced)
  BY <1>1, <1>3, HeldChange
<1> QED
  BY <1>3, <1>4 DEF q

LEMMA OverlapChange ==
    ASSUME NEW r, RowOK(r), Admissible(r), NEW referenced,
           NEW q, q = [HeldForReview(r) EXCEPT !.type = "quarantine", !.phase = M!Conflict(r.phase).next]
    PROVE  Change(r, q, referenced) /\ q.type = "quarantine"
<1>1. r.phase \in {"sealed_waiting", "blocked"} /\ r.phase \notin Gone
  BY DEF Admissible, Gone
<1>2. M!Conflict(r.phase).next = "blocked"
  BY <1>1 DEF M!Conflict, M!To
<1> DEFINE h == HeldForReview(r)
<1>3. /\ h \in Row /\ h.disp = "unclassified" /\ h.due = Never /\ h.opaque = FALSE /\ h.cert = FALSE
      /\ h.sum = r.sum /\ h.recs = r.recs /\ h.tail = r.tail /\ h.conf = r.conf /\ h.evid = r.evid
  BY HeldFields
<1>4. q = [h EXCEPT !.type = "quarantine", !.phase = "blocked"] /\ "blocked" \in M!Phases
  BY <1>2 DEF M!Phases
<1> HIDE DEF h
<1>5. /\ q \in Row /\ q.type = "quarantine" /\ q.phase = "blocked"
      /\ q.disp = "unclassified" /\ q.due = Never
      /\ q.sum = r.sum /\ q.recs = r.recs /\ q.tail = r.tail /\ q.conf = r.conf /\ q.evid = r.evid
  BY ZenonT(30), <1>3, <1>4 DEF Row
<1>6. q.opaque = h.opaque /\ q.cert = h.cert
  BY <1>3, <1>4 DEF Row
<1> QED
  BY <1>1, <1>3, <1>5, <1>6, HeldChange

(* Evidence that nobody can parse is classified and its clock started.        *)
LEMMA UnprocessableChange ==
    ASSUME NEW r, RowOK(r), r.type = "quarantine", r.opaque, r.disp = "unclassified", now \in Nat,
           NEW referenced
    PROVE  Change(r, Unprocessable(r), referenced) /\ Unprocessable(r).type = "quarantine"
<1>1. r \in Row /\ r.phase = "blocked" /\ r.sum = <<>> /\ r.recs = <<>> /\ r.conf \in Nat
  BY QuarantineRow DEF RowOK, QuarantineOK, Row
<1> DEFINE q == Unprocessable(r)
           u == now + Retention
<1>2. q = [r EXCEPT !.disp = "unprocessable", !.cert = FALSE, !.term = now, !.due = u]
  BY DEF Unprocessable, M!MarkUnprocessable, M!To
<1>3. u \in Time /\ u # Never /\ now \in Time /\ now # Never /\ u >= now + Retention
  BY RowConstants
<1> HIDE DEF q, u
<1>4. q \in Row
  BY <1>1, <1>2, <1>3 DEF Row, M!Dispositions
<1>5. /\ q.phase = r.phase /\ q.type = r.type /\ q.sum = r.sum /\ q.recs = r.recs
      /\ q.tail = r.tail /\ q.conf = r.conf /\ q.evid = r.evid /\ q.disp = "unprocessable"
      /\ q.term = now /\ q.due = u
  BY <1>1, <1>2 DEF Row
<1>6. q.opaque = r.opaque /\ q.held = r.held /\ q.cert = FALSE
  BY <1>1, <1>2 DEF Row
<1>7. RowOK(q)
  BY <1>1, <1>3, <1>4, <1>5, <1>6 DEF RowOK, AttemptOK, QuarantineOK, BytesOK
<1>8. SameBytes(r, q) /\ r.phase \notin Gone
  BY <1>1, <1>5 DEF SameBytes, Gone
<1> QED
  BY <1>5, <1>7, <1>8, SameBytesChange DEF q

(* What has expired has stood out its term.                                  *)
LEMMA ExpiredIsSpent ==
    ASSUME NEW r, RowOK(r), Expired(r), now \in Nat
    PROVE  Spent(r)
<1>1. r.due \in Time /\ r.term \in Time /\ r.due # Never /\ now >= r.due
      /\ r.term # Never /\ r.due >= r.term + Retention /\ Retention \in Nat
  BY RowConstants DEF RowOK, Row, BytesOK, Expired
<1>2. now >= r.term + Retention
  BY <1>1 DEF Time, Never
<1> QED
  BY <1>1, <1>2 DEF Expired, Spent

(* A sweep deletes at most what there is.                                    *)
LEMMA ReachedBounds ==
    ASSUME NEW n \in Nat, NEW after \in Nat
    PROVE  Reached(n, after) \in Nat /\ Reached(n, after) <= n
  BY RowConstants DEF Reached, Least

(* sweep_terminal_quarantine on one expired source: its residue goes, page by   *)
(* page; its records go only with an unprocessable source, which has none left  *)
(* to lose.                                                                  *)
LEMMA SweptChange ==
    ASSUME NEW r, RowOK(r), Expired(r), now \in Nat, NEW canonical \in BOOLEAN,
           canonical => r.disp = "unprocessable", NEW referenced
    PROVE  Change(r, Swept(r, canonical), referenced)
<1>0. /\ r \in Row /\ r.type = "quarantine" /\ r.conf \in Nat /\ r.evid \in Nat
      /\ r.recs \in Seq(Values) /\ r.sum \in Seq(Values) /\ Spent(r) /\ r.tail \in TailType
  BY ExpiredIsSpent DEF Expired, RowOK, Row
<1>1. CASE canonical /\ Rows(r, canonical) <= ChunkLimit
  <2>1. Swept(r, canonical) = NoRow
    BY <1>1 DEF Swept
  <2>2. r.recs = <<>> /\ NoRow.phase = "none" /\ NoRow.recs = <<>>
    BY <1>1 DEF RowOK, QuarantineOK, NoRow
  <2>3. Continues(r, NoRow) /\ Lawful(r, NoRow, referenced)
    BY <1>0, <2>2 DEF Continues, Gone, Lawful
  <2> QED
    BY <2>1, <2>3, RowConstants DEF Change
<1>2. CASE ~(canonical /\ Rows(r, canonical) <= ChunkLimit)
  <2>1. Records(r, canonical) = 0
    BY DEF Records, RowOK, QuarantineOK
  <2>2. Chunked(r) \in Nat /\ Tailed(r) \in Nat /\ r.evid - Chunked(r) \in Nat
    BY <1>0 DEF Chunked, Tailed
  <2> DEFINE tail == IF Reached(Tailed(r), 0 + Chunked(r)) = 1 THEN NoTail ELSE r.tail
             conf == r.conf - Reached(r.conf, 0 + Chunked(r) + Tailed(r))
             evid == r.evid - Reached(Chunked(r), 0)
                        - Reached(r.evid - Chunked(r), 0 + Chunked(r) + Tailed(r) + r.conf)
             q == Swept(r, canonical)
  <2>3. tail \in TailType /\ tail \in {NoTail, r.tail}
    BY <1>0, RowConstants
  <2>4. conf \in Nat
    <3> DEFINE after == 0 + Chunked(r) + Tailed(r)
    <3>1. after \in Nat
      BY <2>2
    <3> HIDE DEF after
    <3>2. Reached(r.conf, after) \in Nat /\ Reached(r.conf, after) <= r.conf
      BY <1>0, <3>1, ReachedBounds
    <3>3. r.conf - Reached(r.conf, after) \in Nat
      BY <1>0, <3>2
    <3> QED
      BY <3>3 DEF after
  <2>5. evid \in Nat
    <3> DEFINE after == 0 + Chunked(r) + Tailed(r) + r.conf
               rest == r.evid - Chunked(r)
               a == Reached(Chunked(r), 0)
               b == Reached(rest, after)
    <3>1. after \in Nat /\ rest \in Nat
      BY <1>0, <2>2
    <3>2. a \in Nat /\ a <= Chunked(r)
      BY <2>2, ReachedBounds
    <3>3. b \in Nat /\ b <= rest
      <4> HIDE DEF after, rest
      <4> QED
        BY <3>1, ReachedBounds
    <3> HIDE DEF a, b
    <3>4. r.evid - a - b \in Nat
      BY <1>0, <2>2, <3>2, <3>3, SMTT(30)
    <3> QED
      BY <3>4 DEF a, b
  <2>6. SubSeq(r.recs, Reached(0, 0) + 1, Len(r.recs)) = r.recs
    <3>1. Reached(0, 0) = 0
      BY ReachedBounds
    <3> QED
      BY <1>0, <3>1, SubSeqFull
  <2>7. q = [r EXCEPT !.recs = r.recs, !.tail = tail, !.conf = conf, !.evid = evid]
    BY <1>2, <2>1, <2>6 DEF Swept, Left
  <2> HIDE DEF tail, conf, evid, q
  <2>8. q \in Row
    BY <1>0, <2>3, <2>4, <2>5, <2>7 DEF Row
  <2>9. /\ q.phase = r.phase /\ q.type = r.type /\ q.sum = r.sum /\ q.recs = r.recs
        /\ q.tail = tail /\ q.disp = r.disp /\ q.term = r.term /\ q.due = r.due
    BY <1>0, <2>7 DEF Row
  <2>10. q.opaque = r.opaque /\ q.held = r.held /\ q.cert = r.cert
    BY <1>0, <2>7 DEF Row
  <2>11. RowOK(q)
    <3>1. AttemptOK(q) /\ QuarantineOK(q)
      BY <1>0, <2>9, <2>10 DEF RowOK, AttemptOK, QuarantineOK
    <3>2. BytesOK(q)
      BY <1>0, <2>3, <2>9 DEF RowOK, BytesOK
    <3> QED
      BY <1>0, <2>8, <2>9, <3>1, <3>2 DEF RowOK
  <2>12. Continues(r, q)
    <3>1. r.sum = r.sum \o <<>> /\ <<>> \in Seq(Values)
      BY <1>0
    <3> QED
      BY <2>9, <3>1 DEF Continues, Authentic
  <2>13. Lawful(r, q, referenced)
    <3>1. Len(r.recs) \in Nat
      BY <1>0
    <3> QED
      BY <1>0, <2>9, <3>1 DEF Lawful
  <2> QED
    BY <2>11, <2>12, <2>13 DEF Change, q
<1> QED
  BY <1>1, <1>2

(* The publication covers a source and begins to retire it.                  *)
LEMMA CoverChange ==
    ASSUME NEW r, RowOK(r), NEW referenced,
           NEW p, p = M!BeginRetirement(M!ReadyCustody(r.phase, r.cert).next).next,
           NEW q, q = [r EXCEPT !.phase = p]
    PROVE  /\ Change(r, q, referenced)
           /\ p # r.phase => r.phase = "sealed_waiting" \/ r.cert
<1>1. r \in Row /\ r.phase # "covered" /\ r.phase \in M!Phases \cup {"none"}
  <2>1. r \in Row /\ (r.type = "none" => r.phase = "none")
    BY DEF RowOK, NoRow
  <2> QED
    BY <2>1 DEF RowOK, AttemptOK, QuarantineOK, M!Active, Row
<1>2. \/ p = r.phase
      \/ p = "retiring" /\ (r.phase = "sealed_waiting" \/ (r.phase = "blocked" /\ r.cert))
  BY <1>1 DEF M!BeginRetirement, M!ReadyCustody, M!To, M!Refuse
<1>3. p \in M!Phases \cup {"none"}
  BY <1>1, <1>2 DEF M!Phases
<1>4. q \in Row
  BY <1>1, <1>3 DEF Row
<1>5. /\ q.phase = p /\ q.type = r.type /\ q.sum = r.sum /\ q.recs = r.recs
      /\ q.tail = r.tail /\ q.conf = r.conf /\ q.evid = r.evid /\ q.disp = r.disp
      /\ q.term = r.term /\ q.due = r.due
  BY <1>1 DEF Row
<1>6. q.opaque = r.opaque /\ q.held = r.held /\ q.cert = r.cert
  BY <1>1 DEF Row
<1>7. CASE p = r.phase
  <2>1. q = r
    BY <1>1, <1>7 DEF Row
  <2> QED
    BY <1>7, <2>1, NoChange
<1>8. CASE p = "retiring" /\ (r.phase = "sealed_waiting" \/ (r.phase = "blocked" /\ r.cert))
  <2>1. r.type # "none" /\ r.conf \in Nat
    BY <1>1, <1>8 DEF RowOK, NoRow, Row
  <2>2. RowOK(q)
    BY <1>4, <1>5, <1>6, <1>8, <2>1 DEF RowOK, AttemptOK, QuarantineOK, BytesOK
  <2>3. SameBytes(r, q)
    BY <1>5, <2>1 DEF SameBytes
  <2>4. q.phase \in Gone
    BY <1>5, <1>8 DEF Gone
  <2>5. Change(r, q, referenced)
    BY <2>2, <2>3, <2>4, SameBytesChange
  <2> QED
    BY <1>8, <2>5
<1> QED
  BY <1>2, <1>7, <1>8

(* Retiring deletes the raw records page by page, and the row last.           *)
LEMMA RetireChange ==
    ASSUME NEW r, RowOK(r), r.phase = "retiring", NEW referenced, r.recs # <<>>,
           NEW q, q = [r EXCEPT !.recs = SubSeq(r.recs, ChunkLimit + 1, Len(r.recs))]
    PROVE  Change(r, q, referenced)
<1>1. r \in Row /\ r.recs \in Seq(Values) /\ r.conf \in Nat /\ r.evid \in Nat /\ r.tail.len \in Nat
  BY DEF RowOK, Row, TailType
<1> DEFINE left == SubSeq(r.recs, ChunkLimit + 1, Len(r.recs))
<1>2. left \in Seq(Values)
  BY SMTT(30), <1>1, RowConstants
<1>3. q = [r EXCEPT !.recs = left]
  OBVIOUS
<1> HIDE DEF left
<1>4. q \in Row
  BY <1>1, <1>2, <1>3 DEF Row
<1>5. /\ q.phase = r.phase /\ q.type = r.type /\ q.sum = r.sum
      /\ q.tail = r.tail /\ q.conf = r.conf /\ q.evid = r.evid /\ q.disp = r.disp
      /\ q.term = r.term /\ q.due = r.due
  BY <1>1, <1>3 DEF Row
<1>6. q.opaque = r.opaque /\ q.held = r.held /\ q.cert = r.cert
  BY <1>1, <1>3 DEF Row
<1>7. r.type # "none"
  BY DEF RowOK, NoRow
<1>8. RowOK(q)
  BY <1>4, <1>5, <1>6, <1>7 DEF RowOK, AttemptOK, QuarantineOK, BytesOK
<1>9. Continues(r, q)
  BY <1>5 DEF Continues, Gone
<1>10. Lawful(r, q, referenced)
  <2>1. Replaced(r.tail, q)
    BY <1>1, <1>5 DEF Replaced
  <2> QED
    BY <1>1, <1>5, <2>1 DEF Lawful
<1> QED
  BY <1>8, <1>9, <1>10 DEF Change

LEMMA RetiredChange ==
    ASSUME NEW r, RowOK(r), r.recs = <<>>, ~Residue(r), NEW referenced
    PROVE  Change(r, NoRow, referenced)
<1>1. r.conf \in Nat /\ r.evid \in Nat
  BY DEF RowOK, Row
<1>2. r.conf = 0 /\ r.evid = 0 /\ r.tail = NoTail
  BY <1>1 DEF Residue
<1>3. NoRow.phase = "none" /\ NoRow.conf = 0 /\ NoRow.evid = 0 /\ NoRow.recs = <<>>
  BY DEF NoRow
<1> QED
  BY <1>2, <1>3, RowConstants DEF Change, Continues, Gone, Lawful, Replaced

(* Storage that alters a record changes no row, no count and no digest.       *)
LEMMA AlteredRow ==
    ASSUME NEW r, RowOK(r), NEW i \in DOMAIN r.recs, NEW v \in Values, NEW referenced,
           NEW q, q = [r EXCEPT !.recs = [r.recs EXCEPT ![i] = v]]
    PROVE  /\ RowOK(q) /\ Lawful(r, q, referenced)
           /\ q.sum = r.sum /\ q.phase = r.phase /\ q.type = r.type
           /\ q.disp = r.disp /\ q.held = r.held /\ q.opaque = r.opaque
<1>1. r \in Row /\ r.recs \in Seq(Values) /\ r.conf \in Nat /\ r.evid \in Nat /\ r.tail.len \in Nat
  BY DEF RowOK, Row, TailType
<1> DEFINE new == [r.recs EXCEPT ![i] = v]
<1>2. new \in Seq(Values) /\ Len(new) = Len(r.recs) /\ r.recs # <<>>
  BY <1>1, ExceptSeq
<1>3. q = [r EXCEPT !.recs = new]
  OBVIOUS
<1> HIDE DEF new
<1>4. q \in Row
  BY <1>1, <1>2, <1>3 DEF Row
<1>5. /\ q.phase = r.phase /\ q.type = r.type /\ q.sum = r.sum /\ q.recs = new
      /\ q.tail = r.tail /\ q.conf = r.conf /\ q.evid = r.evid /\ q.disp = r.disp
      /\ q.term = r.term /\ q.due = r.due
  BY <1>1, <1>3 DEF Row
<1>6. q.opaque = r.opaque /\ q.held = r.held /\ q.cert = r.cert
  BY <1>1, <1>3 DEF Row
<1>7. r.type # "none"
  BY <1>2 DEF RowOK, NoRow
<1>8. RowOK(q)
  BY <1>2, <1>4, <1>5, <1>6, <1>7 DEF RowOK, AttemptOK, QuarantineOK, BytesOK
<1>9. Lawful(r, q, referenced)
  <2>1. Replaced(r.tail, q)
    BY <1>1, <1>5 DEF Replaced
  <2>2. Len(r.recs) \in Nat
    BY <1>1
  <2> QED
    BY <1>1, <1>2, <1>5, <2>1, <2>2 DEF Lawful
<1> QED
  BY <1>5, <1>6, <1>8, <1>9

-----------------------------------------------------------------------------
(* What a step does to the rows, the pass and the undecided commit.          *)

(* Every deletion of the step is lawful.                                     *)
Kept == \A s \in Sources : Lawful(db[s], db'[s], s \in refs)

(* The pass takes the sources in their order, so the next one is in it.       *)
LEMMA MinInTodo ==
    ASSUME NEW T, T \subseteq Sources, T # {}
    PROVE  Min(T) \in T
<1>1. T \subseteq Nat
  BY SourcesAssumption
<1> DEFINE less == {ss \in Nat \X Nat : ss[1] < ss[2]}
<1>2. IsWellFoundedOn(less, Nat)
  BY NatLessThanWellFounded DEF OpToRel
<1> HIDE DEF less
<1>3. PICK x \in T : \A y \in T : ~(<<y, x>> \in less)
  BY <1>1, <1>2, WFMin
<1>4. \A y \in T : x <= y
  <2> TAKE y \in T
  <2>1. x \in Nat /\ y \in Nat /\ <<y, x>> \notin less
    BY <1>1, <1>3
  <2>2. y < x => <<y, x>> \in less
    BY <2>1 DEF less
  <2> QED
    BY <2>1, <2>2
<1> QED
  BY <1>4 DEF Min

(* An answered prefix stays a prefix of the records that grow.               *)
LEMMA PrefixGrows ==
    ASSUME NEW a \in Seq(Values), NEW b \in Seq(Values), NEW c \in Seq(Values),
           Len(a) <= Len(b), SubSeq(b, 1, Len(a)) = a
    PROVE  Len(a) <= Len(b \o c) /\ SubSeq(b \o c, 1, Len(a)) = a
<1>1. /\ b \o c \in Seq(Values) /\ Len(b \o c) = Len(b) + Len(c)
      /\ \A i \in 1..Len(b) : (b \o c)[i] = b[i]
  BY AppendedSuffix
<1>2. Len(a) \in Nat /\ Len(b) \in Nat /\ Len(c) \in Nat
  OBVIOUS
<1> DEFINE d == b \o c
           e == SubSeq(d, 1, Len(a))
<1> HIDE DEF d
<1>3. Len(a) <= Len(d) /\ d \in Seq(Values)
  BY <1>1, <1>2 DEF d
<1>4. e \in Seq(Values) /\ Len(e) = Len(a) /\ \A i \in 1..Len(a) : e[i] = d[i]
  BY <1>2, <1>3
<1>5. \A i \in 1..Len(a) : a[i] = b[i]
  BY <1>2
<1>6. \A i \in 1..Len(a) : e[i] = a[i]
  BY <1>1, <1>2, <1>4, <1>5 DEF d
<1> HIDE DEF e
<1>7. e = a
  BY <1>4, <1>6, SeqEqual
<1> QED
  BY <1>3, <1>7 DEF e, d

(* Rows that change lawfully keep every answer; a new answer is what the row    *)
(* has now.                                                                  *)
LEMMA AnswersKept ==
    ASSUME RowsOK, StoredAsAnswered,
           db' \in [Sources -> Row], acked' \in [Sources -> Seq(Values)], altered \subseteq altered',
           \A s \in Sources : RowOK(db'[s]) /\ Continues(db[s], db'[s]),
           \A s \in Sources : acked'[s] \in {acked[s], db'[s].sum, <<>>}
    PROVE  StoredAsAnswered'
<1> SUFFICES ASSUME NEW s \in Sources, db'[s].phase \notin {"none", "covered", "retiring"}
             PROVE  /\ Len(acked'[s]) <= Len(db'[s].sum)
                    /\ SubSeq(db'[s].sum, 1, Len(acked'[s])) = acked'[s]
                    /\ s \notin altered' => Authentic(db[s])'
  BY DEF StoredAsAnswered
<1> DEFINE r == db[s]
           q == db'[s]
<1>1. /\ r.phase \notin Gone /\ (Authentic(r) => Authentic(q))
      /\ \E more \in Seq(Values) : q.sum = r.sum \o more
  BY DEF Continues, Gone
<1>2. /\ Len(acked[s]) <= Len(r.sum) /\ SubSeq(r.sum, 1, Len(acked[s])) = acked[s]
      /\ s \notin altered => Authentic(r)
  BY <1>1 DEF StoredAsAnswered, Gone
<1>3. r.sum \in Seq(Values) /\ q.sum \in Seq(Values) /\ acked[s] \in Seq(Values)
  BY DEF RowsOK, Row
<1>4. s \notin altered' => Authentic(db[s])'
  BY <1>1, <1>2 DEF Authentic
<1> HIDE DEF r, q
<1>5. /\ Len(acked[s]) <= Len(q.sum) /\ SubSeq(q.sum, 1, Len(acked[s])) = acked[s]
  BY <1>1, <1>2, <1>3, PrefixGrows
<1>6. Len(q.sum) <= Len(q.sum) /\ SubSeq(q.sum, 1, Len(q.sum)) = q.sum
  BY <1>3, SubSeqFull
<1>7. Len(<<>>) <= Len(q.sum) /\ SubSeq(q.sum, 1, Len(<<>>)) = <<>>
  BY <1>3, SubSeqEmpty
<1>8. acked'[s] \in {acked[s], q.sum, <<>>}
  BY DEF q
<1>9. Len(acked'[s]) <= Len(q.sum) /\ SubSeq(q.sum, 1, Len(acked'[s])) = acked'[s]
  BY <1>5, <1>6, <1>7, <1>8
<1> QED
  BY <1>4, <1>9 DEF q

(* A transaction on one row, applied or not.                                 *)
LEMMA RowStep ==
    ASSUME RowsOK, NEW s \in Sources, NEW q, Change(db[s], q, s \in refs),
           db' \in {db, [db EXCEPT ![s] = q]}
    PROVE  /\ db' \in [Sources -> Row] /\ db'[s] \in {db[s], q}
           /\ \A t \in Sources : Change(db[t], db'[t], t \in refs)
           /\ \A t \in Sources : t # s => db'[t] = db[t]
<1>1. q \in Row /\ db \in [Sources -> Row] /\ \A t \in Sources : RowOK(db[t])
  BY DEF Change, RowOK, RowsOK
<1>2. db' \in [Sources -> Row] /\ db'[s] \in {db[s], q} /\ \A t \in Sources : t # s => db'[t] = db[t]
  BY <1>1
<1>3. \A t \in Sources : Change(db[t], db[t], t \in refs)
  BY <1>1, NoChange
<1>4. \A t \in Sources : Change(db[t], db'[t], t \in refs)
  BY <1>2, <1>3
<1> QED
  BY <1>2, <1>4

(* The rows after a step whose changes are all lawful.                        *)
LEMMA RowsStep ==
    ASSUME RowsOK, StoredAsAnswered, db' \in [Sources -> Row],
           \A s \in Sources : Change(db[s], db'[s], s \in refs),
           acked' = acked, altered' = altered, now' \in Nat,
           writer' \in [src: Sources \cup {0}, pos: Nat, cache: SUBSET Seq(Values)]
    PROVE  RowsOK' /\ StoredAsAnswered' /\ Kept
<1>1. \A s \in Sources : RowOK(db'[s]) /\ Continues(db[s], db'[s]) /\ Lawful(db[s], db'[s], s \in refs)
  BY DEF Change
<1>2. acked' \in [Sources -> Seq(Values)] /\ altered' \subseteq Sources
  BY DEF RowsOK
<1>3. RowsOK'
  <2>1. (\A s \in Sources : RowOK(db[s]))'
    BY <1>1 DEF RowOK, AttemptOK, QuarantineOK, BytesOK
  <2> QED
    BY <1>2, <2>1 DEF RowsOK
<1>4. StoredAsAnswered'
  BY <1>1, <1>2, AnswersKept
<1> QED
  BY <1>1, <1>3, <1>4 DEF Kept

(* The pass goes on while its sources stay as they are.                      *)
LEMMA PassKept ==
    ASSUME PassOK, salvage' = salvage, \A s \in Sources : s \in salvage.todo => db'[s] = db[s]
    PROVE  PassOK'
<1>1. salvage.todo \subseteq Sources
  BY DEF PassOK
<1>2. \A s \in salvage.todo : s \in Salvageable'
  BY <1>1 DEF PassOK, Salvageable, Classified
<1> QED
  BY <1>2 DEF PassOK

(* A transaction of the writer, or of the publication, on a source that is not  *)
(* in the pass.                                                              *)
LEMMA WriterStep ==
    ASSUME IndInv, NEW s \in Sources, NEW q, Change(db[s], q, s \in refs), s \notin salvage.todo,
           db' \in {db, [db EXCEPT ![s] = q]},
           acked' = acked, altered' = altered, now' = now, salvage' = salvage,
           writer' \in [src: Sources \cup {0}, pos: Nat, cache: SUBSET Seq(Values)]
    PROVE  RowsOK' /\ PassOK' /\ StoredAsAnswered' /\ Kept
<1>1. /\ db' \in [Sources -> Row]
      /\ \A t \in Sources : Change(db[t], db'[t], t \in refs)
      /\ \A t \in Sources : t # s => db'[t] = db[t]
  BY RowStep DEF IndInv
<1>2. now' \in Nat
  BY DEF IndInv, RowsOK
<1>3. RowsOK' /\ StoredAsAnswered' /\ Kept
  BY <1>1, <1>2, RowsStep DEF IndInv
<1>4. PassOK'
  BY <1>1, PassKept DEF IndInv
<1> QED
  BY <1>3, <1>4

(* The same for an attempt: the pass has no attempts.                        *)
LEMMA AttemptStep ==
    ASSUME IndInv, NEW s \in Sources, NEW q, Change(db[s], q, s \in refs), db[s].type # "quarantine",
           db' \in {db, [db EXCEPT ![s] = q]},
           acked' = acked, altered' = altered, now' = now, salvage' = salvage,
           writer' \in [src: Sources \cup {0}, pos: Nat, cache: SUBSET Seq(Values)]
    PROVE  RowsOK' /\ PassOK' /\ StoredAsAnswered' /\ Kept
<1>1. s \notin salvage.todo
  BY DEF IndInv, PassOK, Salvageable
<1> QED
  BY <1>1, WriterStep

(* No commit is undecided, before and after.                                 *)
LEMMA DecidedStep ==
    ASSUME doubt' = NoDoubt, failed = "no", failed' = failed
    PROVE  DoubtOK' /\ FailStopIsWarranted'
  BY DEF DoubtOK, FailStopIsWarranted

-----------------------------------------------------------------------------
(* The attempt that holds the lease, action by action.                        *)

LEMMA WriterTypes ==
    ASSUME RowsOK
    PROVE  /\ NoWriter \in [src: Sources \cup {0}, pos: Nat, cache: SUBSET Seq(Values)]
           /\ \A s \in Sources : [NoWriter EXCEPT !.src = s]
                                   \in [src: Sources \cup {0}, pos: Nat, cache: SUBSET Seq(Values)]
           /\ \A s \in Sources : [NoWriter EXCEPT !.src = s].src = s
           /\ writer \in [src: Sources \cup {0}, pos: Nat, cache: SUBSET Seq(Values)]
           /\ \A s \in Sources : s # 0
  BY SourcesAssumption DEF RowsOK, NoWriter

(* A transaction on an attempt that is confirmed, or reported as unconfirmed.   *)
LEMMA ConfirmedStep ==
    ASSUME IndInv, NEW s \in Sources, NEW q, Change(db[s], q, s \in refs), db[s].type # "quarantine",
           db' \in {db, [db EXCEPT ![s] = q]}, Ready, Reported,
           writer' \in [src: Sources \cup {0}, pos: Nat, cache: SUBSET Seq(Values)]
    PROVE  IndInv' /\ Kept
<1>1. RowsOK' /\ PassOK' /\ StoredAsAnswered' /\ Kept
  BY AttemptStep DEF Reported
<1>2. DoubtOK' /\ FailStopIsWarranted'
  BY DEF Ready, Reported, DoubtOK, FailStopIsWarranted
<1> QED
  BY <1>1, <1>2 DEF IndInv

(* A transaction whose commit raised and is looked up next.                  *)
LEMMA InDoubtStep ==
    ASSUME IndInv, NEW s \in Sources, NEW q, Change(db[s], q, s \in refs), db[s].type \in {"none", "attempt"},
           q.type = "attempt", NEW kind \in {"create", "drain", "seal"},
           kind = "create" => db[s] = NoRow,
           kind = "drain" => db[s].phase = "receiving" /\ q.phase = "receiving",
           db' \in {db, [db EXCEPT ![s] = q]}, failed = "no", Others, acked' = acked,
           doubt' = [kind |-> kind, src |-> s, old |-> db[s], new |-> q],
           writer' \in [src: Sources \cup {0}, pos: Nat, cache: SUBSET Seq(Values)], writer'.src = s
    PROVE  IndInv' /\ Kept
<1>1. RowsOK' /\ PassOK' /\ StoredAsAnswered' /\ Kept
  BY AttemptStep DEF Others
<1>2. db'[s] \in {db[s], q}
  BY RowStep DEF IndInv
<1>3. doubt'.src = s /\ doubt'.kind = kind /\ doubt'.old = db[s] /\ doubt'.new = q
  OBVIOUS
<1>4. DoubtOK'
  BY <1>2, <1>3 DEF DoubtOK
<1>5. FailStopIsWarranted'
  BY DEF FailStopIsWarranted, Others
<1> QED
  BY <1>1, <1>4, <1>5 DEF IndInv

LEMMA CreateSourceStep ==
    ASSUME IndInv, NEW s \in Sources, CreateSource(s)
    PROVE  IndInv' /\ Kept
<1>1. /\ Ready /\ db[s] = NoRow /\ acked[s] = <<>> /\ db' \in {db, [db EXCEPT ![s] = Created]}
      /\ writer' = [NoWriter EXCEPT !.src = s] /\ Others /\ acked' = acked
      /\ \/ doubt' = doubt
         \/ doubt' = [kind |-> "create", src |-> s, old |-> NoRow, new |-> Created]
  BY DEF CreateSource, Visiting, Idle, Committed, Raised, Quiet
<1>2. /\ RowOK(Created) /\ Created \in Row /\ Created.sum = <<>> /\ Created.recs = <<>>
      /\ Created.tail = NoTail /\ Created.conf = 0 /\ Created.evid = 0 /\ Created.type = "attempt"
  BY CreatedOK DEF RowOK
<1>3. /\ db \in [Sources -> Row] /\ acked \in [Sources -> Seq(Values)] /\ now \in Nat
      /\ altered \subseteq Sources /\ \A t \in Sources : RowOK(db[t])
  BY DEF IndInv, RowsOK
<1>4. db' \in [Sources -> Row] /\ db'[s] \in {NoRow, Created} /\ \A t \in Sources : t # s => db'[t] = db[t]
  BY <1>1, <1>2, <1>3
<1>5. \A t \in Sources : RowOK(db'[t])
  BY <1>2, <1>3, <1>4, RowConstants
<1>6. RowsOK'
  <2>1. (\A t \in Sources : RowOK(db[t]))'
    BY <1>5 DEF RowOK, AttemptOK, QuarantineOK, BytesOK
  <2>2. writer' \in [src: Sources \cup {0}, pos: Nat, cache: SUBSET Seq(Values)]
    BY <1>1, WriterTypes DEF IndInv
  <2> QED
    BY <1>1, <1>3, <1>4, <2>1, <2>2 DEF RowsOK, Others
<1>7. PassOK'
  <2>1. s \notin salvage.todo
    BY <1>1 DEF IndInv, PassOK, Salvageable, NoRow
  <2> QED
    BY <1>1, <1>4, <2>1, PassKept DEF IndInv, Others
<1>8. StoredAsAnswered'
  <2> SUFFICES ASSUME NEW t \in Sources, db'[t].phase \notin {"none", "covered", "retiring"}
               PROVE  /\ Len(acked'[t]) <= Len(db'[t].sum)
                      /\ SubSeq(db'[t].sum, 1, Len(acked'[t])) = acked'[t]
                      /\ t \notin altered' => Authentic(db[t])'
    BY DEF StoredAsAnswered
  <2>1. CASE t # s
    <3>1. db'[t] = db[t] /\ acked'[t] = acked[t] /\ altered' = altered
      BY <1>1, <1>4, <2>1 DEF Others
    <3> QED
      BY <3>1 DEF IndInv, StoredAsAnswered, Authentic
  <2>2. CASE t = s
    <3>1. acked'[s] = <<>> /\ db'[s].sum = <<>> /\ db'[s].recs = <<>>
      BY <1>1, <1>2, <1>4 DEF NoRow
    <3>2. Len(<<>>) <= Len(<<>>) /\ SubSeq(<<>>, 1, Len(<<>>)) = <<>>
      BY SubSeqEmpty
    <3> QED
      BY <2>2, <3>1, <3>2 DEF Authentic
  <2> QED
    BY <2>1, <2>2
<1>9. DoubtOK'
  <2>1. CASE doubt' = doubt
    BY <1>1, <2>1 DEF Ready, DoubtOK
  <2>2. CASE doubt' = [kind |-> "create", src |-> s, old |-> NoRow, new |-> Created]
    <3>1. doubt'.src = s /\ doubt'.kind = "create" /\ doubt'.old = NoRow /\ doubt'.new = Created
      BY <2>2
    <3>2. writer'.src = s
      BY <1>1, WriterTypes DEF IndInv
    <3> QED
      BY <1>2, <1>4, <3>1, <3>2 DEF DoubtOK, NoRow
  <2> QED
    BY <1>1, <2>1, <2>2
<1>10. FailStopIsWarranted'
  BY <1>1 DEF Ready, Others, FailStopIsWarranted
<1>11. Kept
  <2>1. Lawful(NoRow, Created, s \in refs)
    BY <1>2 DEF Lawful, Replaced, NoRow
  <2>2. \A t \in Sources : Lawful(db[t], db[t], t \in refs)
    BY <1>3, NoChange DEF Change
  <2> QED
    BY <1>1, <1>4, <2>1, <2>2 DEF Kept
<1> QED
  BY <1>6, <1>7, <1>8, <1>9, <1>10, <1>11 DEF IndInv

LEMMA ResumeAttemptStep ==
    ASSUME IndInv, NEW s \in Sources, ResumeAttempt(s)
    PROVE  IndInv' /\ Kept
<1> DEFINE r == IF db[s].phase = "receiving" THEN Interrupted(db[s]) ELSE db[s]
<1>1. /\ Ready /\ db[s].phase \in M!Active /\ RowOK(db[s]) /\ Reported
      /\ db' \in {db, [db EXCEPT ![s] = r]} /\ writer' \in {NoWriter, [NoWriter EXCEPT !.src = s]}
  BY DEF ResumeAttempt, Visiting, Idle, Pending, Committed, Unconfirmed, Raised, Reported, Quiet, Others, Abandon, IndInv, RowsOK
<1>2. NoLeg \in Nat \X Nat
  BY RowConstants
<1>3. db[s].type = "attempt"
  BY <1>1, OpenAttempt
<1>4. Change(db[s], r, s \in refs)
  BY <1>1, <1>2, LifecycleChange, NoChange
<1>5. writer' \in [src: Sources \cup {0}, pos: Nat, cache: SUBSET Seq(Values)]
  BY <1>1, WriterTypes DEF IndInv
<1> HIDE DEF r
<1> QED
  BY <1>1, <1>3, <1>4, <1>5, ConfirmedStep

LEMMA PrepareLegStep ==
    ASSUME IndInv, NEW s \in Sources, NEW start \in Nat, NEW count \in Nat, PrepareLeg(s, start, count)
    PROVE  IndInv' /\ Kept
<1> DEFINE l == <<start, count>>
           q == IF db[s].phase = "leg_prepared" THEN db[s] ELSE LegPrepared(db[s], l)
<1>1. /\ Ready /\ M!PrepareLeg(db[s].phase, db[s].leg = l).action # "refuse" /\ RowOK(db[s]) /\ Reported
      /\ db' \in {db, [db EXCEPT ![s] = q]} /\ writer' \in {NoWriter, [writer EXCEPT !.pos = start]}
  BY DEF PrepareLeg, Holding, Committed, Unconfirmed, Raised, Reported, Quiet, Others, Abandon, IndInv, RowsOK
<1>2. db[s].phase \in M!Active
  BY <1>1 DEF M!PrepareLeg, M!Refuse, M!To, M!Active
<1>3. db[s].type = "attempt" /\ l \in Nat \X Nat
  BY <1>1, <1>2, OpenAttempt
<1>4. Change(db[s], q, s \in refs)
  <2> HIDE DEF l
  <2> QED
    BY <1>1, <1>2, <1>3, LifecycleChange, NoChange
<1>5. writer' \in [src: Sources \cup {0}, pos: Nat, cache: SUBSET Seq(Values)]
  BY <1>1, WriterTypes DEF IndInv
<1> HIDE DEF q
<1> QED
  BY <1>1, <1>3, <1>4, <1>5, ConfirmedStep

LEMMA RecordReadBeginStep ==
    ASSUME IndInv, NEW s \in Sources, RecordReadBegin(s)
    PROVE  IndInv' /\ Kept
<1>1. /\ Ready /\ M!ReadBegin(db[s].phase, TRUE, db[s].begin = db[s].leg).action # "refuse"
      /\ RowOK(db[s]) /\ Reported
      /\ db' \in {db, [db EXCEPT ![s] = ReadBegun(db[s])]} /\ writer' \in {NoWriter, writer}
  BY DEF RecordReadBegin, Holding, Committed, Unconfirmed, Raised, Reported, Quiet, Others, Abandon, IndInv, RowsOK
<1>2. db[s].phase \in M!Active
  BY <1>1 DEF M!ReadBegin, M!Refuse, M!To, M!Active
<1>3. db[s].type = "attempt" /\ NoLeg \in Nat \X Nat
  BY <1>1, <1>2, OpenAttempt, RowConstants
<1>4. Change(db[s], ReadBegun(db[s]), s \in refs)
  BY <1>1, <1>2, <1>3, LifecycleChange
<1>5. writer' \in [src: Sources \cup {0}, pos: Nat, cache: SUBSET Seq(Values)]
  BY <1>1, WriterTypes DEF IndInv
<1> QED
  BY <1>1, <1>3, <1>4, <1>5, ConfirmedStep

LEMMA InterruptStep ==
    ASSUME IndInv, NEW s \in Sources, Interrupt(s)
    PROVE  IndInv' /\ Kept
<1>1. /\ Ready /\ db[s].phase \in M!Active /\ RowOK(db[s]) /\ Reported
      /\ db' \in {db, [db EXCEPT ![s] = Interrupted(db[s])]} /\ writer' \in {NoWriter, writer}
  BY DEF Interrupt, Holding, Committed, Unconfirmed, Raised, Reported, Quiet, Others, Abandon, M!Active, IndInv, RowsOK
<1>2. db[s].type = "attempt" /\ NoLeg \in Nat \X Nat
  BY <1>1, OpenAttempt, RowConstants
<1>3. Change(db[s], Interrupted(db[s]), s \in refs)
  BY <1>1, <1>2, LifecycleChange
<1>4. writer' \in [src: Sources \cup {0}, pos: Nat, cache: SUBSET Seq(Values)]
  BY <1>1, WriterTypes DEF IndInv
<1> QED
  BY <1>1, <1>2, <1>3, <1>4, ConfirmedStep

(* publish_prefix and the quarantine of a pending attempt.                   *)
LEMMA FinishAttemptStep ==
    ASSUME IndInv, NEW s \in Sources, PublishPrefix(s) \/ QuarantinePending(s)
    PROVE  IndInv' /\ Kept
<1>1. PICK q \in {Terminalized(db[s]), Quarantined(db[s])} :
          /\ Ready /\ db[s].phase \in M!Active /\ RowOK(db[s]) /\ Reported /\ now \in Nat
          /\ db' \in {db, [db EXCEPT ![s] = q]} /\ writer' \in {NoWriter, writer}
  BY DEF PublishPrefix, QuarantinePending, Holding, Idle, Pending, Committed, Unconfirmed, Raised, Reported, Quiet, Others,
         Abandon, IndInv, RowsOK
<1>2. db[s].type = "attempt"
  BY <1>1, OpenAttempt
<1>3. Change(db[s], q, s \in refs)
  BY <1>1, TerminalizedChange, QuarantinedChange
<1>4. writer' \in [src: Sources \cup {0}, pos: Nat, cache: SUBSET Seq(Values)]
  BY <1>1, WriterTypes DEF IndInv
<1> QED
  BY <1>1, <1>2, <1>3, <1>4, ConfirmedStep

(* A step of the writer that leaves the database as it is.                   *)
LEMMA AbandonStep ==
    ASSUME IndInv, Ready, Abandon, UNCHANGED db, Quiet
    PROVE  IndInv' /\ Kept
<1>1. db' \in [Sources -> Row] /\ \A t \in Sources : db'[t] = db[t] /\ RowOK(db[t])
  BY DEF IndInv, RowsOK
<1>2. \A t \in Sources : Change(db[t], db'[t], t \in refs)
  BY <1>1, NoChange
<1>3. writer' \in [src: Sources \cup {0}, pos: Nat, cache: SUBSET Seq(Values)] /\ now' \in Nat
  BY WriterTypes DEF Abandon, IndInv, RowsOK, Quiet, Others
<1>4. RowsOK' /\ StoredAsAnswered' /\ Kept
  BY <1>1, <1>2, <1>3, RowsStep DEF IndInv, Quiet, Others
<1>5. PassOK'
  BY <1>1, PassKept DEF IndInv, Quiet, Others
<1>6. DoubtOK' /\ FailStopIsWarranted'
  BY DecidedStep DEF Ready, Quiet, Others
<1> QED
  BY <1>4, <1>5, <1>6 DEF IndInv

LEMMA SealSourceStep ==
    ASSUME IndInv, NEW s \in Sources, SealSource(s)
    PROVE  IndInv' /\ Kept
<1> DEFINE q == Sealed(db[s])
<1>1. /\ Ready /\ writer.src = s /\ M!Done(db[s].phase).action = "persist" /\ Len(db[s].sum) = Size
      /\ db[s].tail = NoTail /\ RowOK(db[s])
      /\ \/ Abandon /\ UNCHANGED db /\ Quiet
         \/ Committed(s, q) /\ Abandon /\ Quiet
         \/ InDoubt("seal", s, q)
  BY DEF SealSource, Holding, IndInv, RowsOK
<1>2. Change(db[s], q, s \in refs) /\ q.type = "attempt"
  BY <1>1, SealedChange
<1>3. db[s].type = "attempt"
  <2>1. db[s].phase \in M!Active
    BY <1>1 DEF M!Done, M!To, M!Refuse, M!Active
  <2> QED
    BY <1>1, <2>1, OpenAttempt
<1>4. /\ NoWriter \in [src: Sources \cup {0}, pos: Nat, cache: SUBSET Seq(Values)]
      /\ writer \in [src: Sources \cup {0}, pos: Nat, cache: SUBSET Seq(Values)]
  BY WriterTypes DEF IndInv
<1> HIDE DEF q
<1>5. CASE Abandon /\ UNCHANGED db /\ Quiet
  BY <1>1, <1>5, AbandonStep
<1>6. CASE Committed(s, q) /\ Abandon /\ Quiet
  <2>1. db' \in {db, [db EXCEPT ![s] = q]} /\ writer' = NoWriter
    BY <1>6 DEF Committed, Abandon
  <2>2. Reported
    BY <1>6 DEF Reported, Quiet, Others
  <2> QED
    BY <1>1, <1>2, <1>3, <1>4, <2>1, <2>2, ConfirmedStep
<1>7. CASE InDoubt("seal", s, q)
  <2>1. /\ db' \in {db, [db EXCEPT ![s] = q]} /\ writer' = writer /\ Others /\ acked' = acked
        /\ doubt' = [kind |-> "seal", src |-> s, old |-> db[s], new |-> q] /\ failed = "no"
    BY <1>1, <1>7 DEF InDoubt, Raised, Ready
  <2>2. writer'.src = s
    BY <1>1, <2>1
  <2> QED
    BY <1>2, <1>3, <1>4, <2>1, <2>2, InDoubtStep
<1> QED
  BY <1>1, <1>5, <1>6, <1>7

(* The answer to a confirmed drain is what the row has now.                  *)
LEMMA AnswerStep ==
    ASSUME IndInv, NEW s \in Sources, NEW q, Change(db[s], q, s \in refs), db[s].type # "quarantine",
           db' = [db EXCEPT ![s] = q], acked' = [acked EXCEPT ![s] = q.sum],
           Ready, Others, doubt' = doubt,
           writer' \in [src: Sources \cup {0}, pos: Nat, cache: SUBSET Seq(Values)]
    PROVE  IndInv' /\ Kept
<1>1. /\ db' \in [Sources -> Row] /\ \A t \in Sources : Change(db[t], db'[t], t \in refs)
      /\ \A t \in Sources : t # s => db'[t] = db[t]
  BY RowStep DEF IndInv
<1>2. \A t \in Sources : RowOK(db'[t]) /\ Continues(db[t], db'[t]) /\ Lawful(db[t], db'[t], t \in refs)
  BY <1>1 DEF Change
<1>3. q.sum \in Seq(Values) /\ db'[s] = q
  BY DEF Change, RowOK, Row, IndInv, RowsOK
<1>4. /\ acked' \in [Sources -> Seq(Values)]
      /\ \A t \in Sources : acked'[t] \in {acked[t], db'[t].sum, <<>>}
  BY <1>3 DEF IndInv, RowsOK
<1>5. altered' = altered /\ now' = now /\ salvage' = salvage
  BY DEF Others
<1>6. StoredAsAnswered'
  BY <1>1, <1>2, <1>4, <1>5, AnswersKept DEF IndInv
<1>7. RowsOK'
  <2>1. (\A t \in Sources : RowOK(db[t]))'
    BY <1>2 DEF RowOK, AttemptOK, QuarantineOK, BytesOK
  <2> QED
    BY <1>1, <1>4, <1>5, <2>1 DEF RowsOK, IndInv
<1>8. PassOK'
  <2>1. s \notin salvage.todo
    BY DEF IndInv, PassOK, Salvageable
  <2> QED
    BY <1>1, <1>5, <2>1, PassKept DEF IndInv
<1>9. DoubtOK' /\ FailStopIsWarranted'
  BY DecidedStep DEF Ready, Others
<1> QED
  BY <1>2, <1>6, <1>7, <1>8, <1>9 DEF IndInv, Kept

LEMMA CommitDrainStep ==
    ASSUME IndInv, NEW s \in Sources, NEW vals \in Chunks, NEW in \in Tails(writer.pos + Len(vals)),
           CommitDrain(s, vals, in)
    PROVE  IndInv' /\ Kept
<1> DEFINE r == db[s]
           at == writer.pos
           new == Extended(r, at, vals)
           next == Drained(r, new, in)
<1>1. vals \in Seq(Values) /\ Len(vals) \in Nat
  BY SizeAssumption DEF Chunks
<1>2. at \in Nat
  BY DEF IndInv, RowsOK
<1>3. DrainTailOK(in, at + Len(vals))
  <2>1. at + Len(vals) \in Nat
    BY <1>1, <1>2
  <2>2. CASE in = NoTail
    BY <2>2, RowConstants DEF DrainTailOK
  <2>3. CASE in \in [at: {at + Len(vals)}, v: Values, len: 1..TailLen]
    BY <2>1, <2>3, SizeAssumption DEF DrainTailOK, TailType
  <2> QED
    BY <2>2, <2>3 DEF Tails
<1>4. /\ Ready /\ writer.src = s /\ r.phase = "receiving" /\ at <= Len(r.sum) /\ RowOK(r)
  <2>1. Receiving(r) => r.phase = "receiving"
    BY DEF Receiving, M!Data, M!Refuse, M!To
  <2> QED
    BY <2>1 DEF CommitDrain, Holding, IndInv, RowsOK
<1>5. \/ BlockReplayConflict(s)
      \/ Abandon /\ UNCHANGED <<db, faults>> /\ Quiet
      \/ ~TailConflict(r, in, new) /\ AppendDrain(s, at + Len(vals), new, next)
  BY DEF CommitDrain
<1>6. r.phase \in M!Active /\ now \in Nat /\ r.type = "attempt"
  BY <1>4, OpenAttempt DEF M!Active, IndInv, RowsOK
<1>7. /\ NoWriter \in [src: Sources \cup {0}, pos: Nat, cache: SUBSET Seq(Values)]
      /\ writer \in [src: Sources \cup {0}, pos: Nat, cache: SUBSET Seq(Values)]
  BY WriterTypes DEF IndInv
<1>8. CASE BlockReplayConflict(s)
  <2>1. /\ db' \in {db, [db EXCEPT ![s] = Rejected(r)]} /\ Reported /\ writer' = NoWriter
    BY <1>8 DEF BlockReplayConflict, Committed, Unconfirmed, Raised, Reported, Quiet, Others, Abandon
  <2>2. Change(r, Rejected(r), s \in refs)
    BY <1>4, <1>6, QuarantinedChange
  <2> QED
    BY <1>4, <1>6, <1>7, <2>1, <2>2, ConfirmedStep
<1>9. CASE Abandon /\ UNCHANGED <<db, faults>> /\ Quiet
  BY <1>4, <1>9, AbandonStep
<1>10. CASE ~TailConflict(r, in, new) /\ AppendDrain(s, at + Len(vals), new, next)
  <2>1. /\ Change(r, next, s \in refs) /\ next.type = "attempt" /\ next.sum = new
        /\ next.phase = "receiving"
    <3>1. new = Extended(r, at, vals) /\ next = Drained(r, new, in)
      OBVIOUS
    <3>2. RowOK(r) /\ r.phase = "receiving" /\ at <= Len(r.sum) /\ ~TailConflict(r, in, new)
      BY <1>4, <1>10
    <3> DEFINE b == s \in refs
    <3> HIDE DEF r, at, new, next, b
    <3>3. /\ Change(r, Drained(r, new, in), b)
          /\ Drained(r, new, in).type = "attempt" /\ Drained(r, new, in).sum = new
          /\ Drained(r, new, in).phase = "receiving"
      BY <1>1, <1>2, <1>3, <3>1, <3>2, DrainedChange
    <3> QED
      BY <3>1, <3>3 DEF b
  <2>2. new \in Seq(Values)
    BY <1>1, <1>2, <1>4, ExtendedSum
  <2>3. at + Len(vals) \in Nat
    BY <1>1, <1>2
  <2> DEFINE pos == at + Len(vals)
  <2> HIDE DEF r, at, new, next, pos
  <2>4. CASE /\ Committed(s, next)
             /\ writer' = [writer EXCEPT !.pos = pos, !.cache = IF new = db[s].sum THEN @ ELSE {new}]
             /\ acked' = [acked EXCEPT ![s] = new]
             /\ Others /\ UNCHANGED doubt
    <3>1. db' = [db EXCEPT ![s] = next] /\ acked' = [acked EXCEPT ![s] = next.sum] /\ doubt' = doubt
      BY <2>1, <2>4 DEF Committed
    <3>2. writer' \in [src: Sources \cup {0}, pos: Nat, cache: SUBSET Seq(Values)]
      BY <1>7, <2>2, <2>3, <2>4 DEF pos
    <3>3. db[s].type # "quarantine" /\ Change(db[s], next, s \in refs)
      BY <1>6, <2>1 DEF r
    <3> QED
      BY <1>4, <2>4, <3>1, <3>2, <3>3, AnswerStep
  <2>5. CASE InDoubt("drain", s, next)
    <3>1. /\ db' \in {db, [db EXCEPT ![s] = next]} /\ writer' = writer /\ Others /\ acked' = acked
          /\ doubt' = [kind |-> "drain", src |-> s, old |-> db[s], new |-> next] /\ failed = "no"
      BY <1>4, <2>5 DEF InDoubt, Raised, Ready
    <3>2. /\ db[s].type \in {"none", "attempt"} /\ Change(db[s], next, s \in refs)
          /\ db[s].phase = "receiving" /\ next.phase = "receiving" /\ writer'.src = s
      BY <1>4, <1>6, <2>1, <3>1 DEF r
    <3> QED
      BY <1>7, <2>1, <3>1, <3>2, InDoubtStep
  <2> QED
    BY <1>10, <2>4, <2>5 DEF AppendDrain, pos
<1> QED
  BY <1>5, <1>8, <1>9, <1>10

(* Every step of the attempt that holds the lease.                           *)
LEMMA CaptureStep ==
    ASSUME IndInv, Capture
    PROVE  IndInv' /\ Kept
<1>1. PICK s \in Sources :
        \/ CreateSource(s) \/ ResumeAttempt(s) \/ RecordReadBegin(s) \/ Interrupt(s)
        \/ SealSource(s) \/ CloseAttempt(s) \/ PublishPrefix(s) \/ QuarantinePending(s)
        \/ \E start \in 0..(Size - 1) : \E count \in 1..(Size - start) : PrepareLeg(s, start, count)
        \/ \E vals \in Chunks : \E in \in Tails(writer.pos + Len(vals)) : CommitDrain(s, vals, in)
  BY DEF Capture
<1>2. CASE CloseAttempt(s)
  BY <1>2, AbandonStep DEF CloseAttempt, Holding
<1>3. CASE \E start \in 0..(Size - 1) : \E count \in 1..(Size - start) : PrepareLeg(s, start, count)
  <2>1. PICK start \in 0..(Size - 1) : \E count \in 1..(Size - start) : PrepareLeg(s, start, count)
    BY <1>3
  <2>2. PICK count \in 1..(Size - start) : PrepareLeg(s, start, count)
    BY <2>1
  <2>3. start \in Nat /\ count \in Nat
    BY SizeAssumption
  <2> QED
    BY <2>2, <2>3, PrepareLegStep
<1>4. CASE \E vals \in Chunks : \E in \in Tails(writer.pos + Len(vals)) : CommitDrain(s, vals, in)
  BY <1>4, CommitDrainStep
<1> QED
  BY <1>1, <1>2, <1>3, <1>4, CreateSourceStep, ResumeAttemptStep, RecordReadBeginStep, InterruptStep,
     SealSourceStep, FinishAttemptStep

-----------------------------------------------------------------------------
(* The look at the database after a commit that raised.                      *)

(* A step that writes no row.                                                *)
LEMMA ReadingStep ==
    ASSUME IndInv, UNCHANGED <<db, altered>>, now' \in Nat,
           acked' \in [Sources -> Seq(Values)],
           \A s \in Sources : acked'[s] \in {acked[s], db[s].sum, <<>>},
           writer' \in [src: Sources \cup {0}, pos: Nat, cache: SUBSET Seq(Values)]
    PROVE  RowsOK' /\ StoredAsAnswered' /\ Kept /\ (salvage' = salvage => PassOK')
<1>1. /\ db' \in [Sources -> Row] /\ altered' \subseteq Sources /\ altered \subseteq altered'
      /\ \A t \in Sources : db'[t] = db[t] /\ RowOK(db[t])
  BY DEF IndInv, RowsOK
<1>2. \A t \in Sources : RowOK(db'[t]) /\ Continues(db[t], db'[t]) /\ Lawful(db[t], db'[t], t \in refs)
  BY <1>1, NoChange DEF Change
<1>3. \A t \in Sources : acked'[t] \in {acked[t], db'[t].sum, <<>>}
  BY <1>1
<1>4. StoredAsAnswered'
  BY <1>1, <1>2, <1>3, AnswersKept DEF IndInv
<1>5. RowsOK'
  <2>1. (\A t \in Sources : RowOK(db[t]))'
    BY <1>2 DEF RowOK, AttemptOK, QuarantineOK, BytesOK
  <2> QED
    BY <1>1, <2>1 DEF RowsOK
<1>6. salvage' = salvage => PassOK'
  BY <1>1, PassKept DEF IndInv
<1> QED
  BY <1>2, <1>4, <1>5, <1>6 DEF Kept

(* The store fail-stops: the undecided commit stays as it is.                *)
LEMMA FailStopStep ==
    ASSUME IndInv, NEW why, FailStop(why), why = "third" => doubt.src \in altered
    PROVE  IndInv' /\ Kept
<1>1. /\ UNCHANGED <<db, altered, acked, salvage, writer, doubt>> /\ now' \in Nat /\ failed' = why
      /\ acked' \in [Sources -> Seq(Values)]
      /\ writer' \in [src: Sources \cup {0}, pos: Nat, cache: SUBSET Seq(Values)]
  BY DEF FailStop, IndInv, RowsOK
<1>2. RowsOK' /\ StoredAsAnswered' /\ Kept /\ PassOK'
  BY <1>1, ReadingStep
<1>3. DoubtOK'
  BY <1>1 DEF IndInv, DoubtOK
<1>4. FailStopIsWarranted'
  BY <1>1 DEF FailStopIsWarranted
<1> QED
  BY <1>2, <1>3, <1>4 DEF IndInv

(* The commit is found not to have happened.                                 *)
LEMMA RolledBackStep ==
    ASSUME IndInv, RolledBack, failed = "no"
    PROVE  IndInv' /\ Kept
<1>1. /\ UNCHANGED <<db, altered, acked, salvage>> /\ now' \in Nat /\ failed' = failed
      /\ acked' \in [Sources -> Seq(Values)] /\ doubt' = NoDoubt /\ writer' = NoWriter
  BY DEF RolledBack, Abandon, IndInv, RowsOK
<1>2. writer' \in [src: Sources \cup {0}, pos: Nat, cache: SUBSET Seq(Values)]
  BY <1>1, WriterTypes DEF IndInv
<1>3. RowsOK' /\ StoredAsAnswered' /\ Kept /\ PassOK'
  BY <1>1, <1>2, ReadingStep
<1>4. DoubtOK' /\ FailStopIsWarranted'
  BY <1>1, DecidedStep
<1> QED
  BY <1>3, <1>4 DEF IndInv

(* The commit is found to have happened, and is answered.                    *)
LEMMA AnsweredStep ==
    ASSUME IndInv, NEW s \in Sources, NEW n, n \in {acked[s], db[s].sum, <<>>}, Answered(s, n), failed = "no",
           writer' \in [src: Sources \cup {0}, pos: Nat, cache: SUBSET Seq(Values)]
    PROVE  IndInv' /\ Kept
<1>1. /\ UNCHANGED <<db, altered, salvage>> /\ now' \in Nat /\ failed' = failed /\ doubt' = NoDoubt
      /\ acked' = [acked EXCEPT ![s] = n] /\ acked \in [Sources -> Seq(Values)] /\ db[s] \in Row
  BY DEF Answered, IndInv, RowsOK
<1>2. n \in Seq(Values)
  <2>1. acked[s] \in Seq(Values) /\ db[s].sum \in Seq(Values) /\ <<>> \in Seq(Values)
    BY <1>1 DEF Row
  <2> QED
    BY <2>1
<1>3. /\ acked' \in [Sources -> Seq(Values)]
      /\ \A t \in Sources : acked'[t] \in {acked[t], db[t].sum, <<>>}
  BY <1>1, <1>2
<1>4. RowsOK' /\ StoredAsAnswered' /\ Kept /\ PassOK'
  BY <1>1, <1>3, ReadingStep
<1>5. DoubtOK' /\ FailStopIsWarranted'
  BY <1>1, DecidedStep
<1> QED
  BY <1>4, <1>5 DEF IndInv

LEMMA RecoverStep ==
    ASSUME IndInv, Recover
    PROVE  IndInv' /\ Kept
<1>0. NoDoubt.kind = "none"
  BY DEF NoDoubt
<1>1. CASE InspectUnreadable
  <2>1. FailStop("unreadable")
    BY <1>1 DEF InspectUnreadable
  <2> QED
    BY <2>1, FailStopStep
<1>2. ASSUME doubt # NoDoubt
      PROVE  /\ doubt.src \in Sources /\ db[doubt.src] \in Row /\ db[doubt.src].sum \in Seq(Values)
             /\ doubt.kind = "create" => doubt.old = NoRow
             /\ doubt.kind = "drain" => db[doubt.src].phase = "receiving"
             /\ doubt.src \in altered \/ db[doubt.src] \in {doubt.new, doubt.old}
  <2>1. doubt.src \in Sources
    BY <1>2 DEF IndInv, DoubtOK
  <2>2. db[doubt.src] \in Row
    BY <2>1 DEF IndInv, RowsOK
  <2>3. db[doubt.src].sum \in Seq(Values)
    BY <2>2 DEF Row
  <2> QED
    BY <1>2, <2>1, <2>2, <2>3 DEF IndInv, DoubtOK
<1>3. /\ NoWriter \in [src: Sources \cup {0}, pos: Nat, cache: SUBSET Seq(Values)]
      /\ writer \in [src: Sources \cup {0}, pos: Nat, cache: SUBSET Seq(Values)]
  BY WriterTypes DEF IndInv
<1>4. CASE RecoverCreate
  <2>1. doubt # NoDoubt /\ doubt.kind = "create" /\ failed = "no"
    BY <1>0, <1>4 DEF RecoverCreate
  <2>2. CASE Answered(doubt.src, <<>>) /\ UNCHANGED writer
    BY <1>2, <1>3, <2>1, <2>2, AnsweredStep
  <2>3. CASE RolledBack
    BY <2>1, <2>3, RolledBackStep
  <2>4. CASE FailStop("third") /\ db[doubt.src] # doubt.new /\ db[doubt.src] # NoRow
    <3>1. doubt.src \in altered
      BY <1>2, <2>1, <2>4
    <3> QED
      BY <2>4, <3>1, FailStopStep
  <2> QED
    BY <1>4, <2>2, <2>3, <2>4 DEF RecoverCreate
<1>5. CASE RecoverDrain
  <2> DEFINE cur == db[doubt.src]
  <2>1. doubt # NoDoubt /\ doubt.kind = "drain" /\ failed = "no"
    BY <1>0, <1>5 DEF RecoverDrain
  <2>2. CASE /\ Answered(doubt.src, cur.sum)
             /\ writer' = [writer EXCEPT !.pos = Len(cur.sum), !.cache = {cur.sum}]
    <3>1. cur.sum \in Seq(Values) /\ doubt.src \in Sources
      BY <1>2, <2>1
    <3>2. writer' \in [src: Sources \cup {0}, pos: Nat, cache: SUBSET Seq(Values)]
      <4> HIDE DEF cur
      <4>1. Len(cur.sum) \in Nat /\ {cur.sum} \in SUBSET Seq(Values)
        BY <3>1
      <4> QED
        BY <1>3, <2>2, <4>1
    <3> QED
      BY <2>1, <2>2, <3>1, <3>2, AnsweredStep
  <2>3. CASE RolledBack
    BY <2>1, <2>3, RolledBackStep
  <2>4. CASE FailStop("third") /\ (~Authentic(cur) \/ cur \notin {doubt.new, doubt.old})
    <3>1. cur.phase = "receiving" /\ doubt.src \in Sources
      BY <1>2, <2>1
    <3>2. ~Authentic(cur) => doubt.src \in altered
      BY <3>1 DEF IndInv, StoredAsAnswered
    <3>3. doubt.src \in altered
      BY <1>2, <2>1, <2>4, <3>2
    <3> QED
      BY <2>4, <3>3, FailStopStep
  <2> QED
    BY <1>5, <2>2, <2>3, <2>4 DEF RecoverDrain
<1>6. CASE RecoverSeal
  <2>1. doubt # NoDoubt /\ failed = "no"
    BY <1>0, <1>6 DEF RecoverSeal
  <2>2. CASE Answered(doubt.src, acked[doubt.src]) /\ Abandon
    BY <1>2, <1>3, <2>1, <2>2, AnsweredStep DEF Abandon
  <2>3. CASE RolledBack
    BY <2>1, <2>3, RolledBackStep
  <2>4. CASE FailStop("third") /\ ~SameRow(db[doubt.src], doubt.new) /\ ~SameRow(db[doubt.src], doubt.old)
    <3>1. doubt.src \in altered
      BY <1>2, <2>1, <2>4 DEF SameRow
    <3> QED
      BY <2>4, <3>1, FailStopStep
  <2> QED
    BY <1>6, <2>2, <2>3, <2>4 DEF RecoverSeal
<1> QED
  BY <1>1, <1>4, <1>5, <1>6 DEF Recover

-----------------------------------------------------------------------------
(* Maintenance: it works on quarantined rows, while an attempt may be open and   *)
(* its commit undecided.                                                     *)

LEMMA MaintenanceStep ==
    ASSUME IndInv, db' \in [Sources -> Row],
           \A s \in Sources : Change(db[s], db'[s], s \in refs),
           \A s \in Sources : db[s].type # "quarantine" => db'[s] = db[s],
           UNCHANGED <<writer, doubt, now, acked, altered>>,
           failed = "no", failed' # "third", PassOK'
    PROVE  IndInv' /\ Kept
<1>1. now' \in Nat /\ writer' \in [src: Sources \cup {0}, pos: Nat, cache: SUBSET Seq(Values)]
  BY DEF IndInv, RowsOK
<1>2. RowsOK' /\ StoredAsAnswered' /\ Kept
  BY <1>1, RowsStep DEF IndInv
<1>3. DoubtOK'
  <2> SUFFICES ASSUME doubt # NoDoubt
               PROVE  DoubtOK'
    BY DEF DoubtOK
  <2>1. doubt.src \in Sources /\ db[doubt.src].type \in {"none", "attempt"}
    BY DEF IndInv, DoubtOK
  <2>2. db'[doubt.src] = db[doubt.src]
    BY <2>1
  <2> QED
    BY <2>1, <2>2 DEF IndInv, DoubtOK
<1>4. FailStopIsWarranted'
  BY DEF FailStopIsWarranted
<1> QED
  BY <1>2, <1>3, <1>4 DEF IndInv

LEMMA RestingFields ==
    /\ Resting \in [todo: SUBSET Sources, src: Sources \cup {0}, snap: Row]
    /\ Resting.todo = {} /\ Resting.src = 0
    /\ \A T \in SUBSET Sources :
           /\ [Resting EXCEPT !.todo = T] \in [todo: SUBSET Sources, src: Sources \cup {0}, snap: Row]
           /\ [Resting EXCEPT !.todo = T].todo = T /\ [Resting EXCEPT !.todo = T].src = 0
  BY RowConstants DEF Resting

LEMMA PassEnds ==
    ASSUME SalvageEnds
    PROVE  PassOK'
  BY RestingFields DEF SalvageEnds, PassOK

LEMMA PassGoesOn ==
    ASSUME PassOK, SalvageNext, \A s \in Sources : s # Min(salvage.todo) => db'[s] = db[s]
    PROVE  PassOK'
<1> DEFINE T == salvage.todo \ {Min(salvage.todo)}
<1>1. T \in SUBSET Sources /\ T \subseteq Salvageable
  BY DEF PassOK
<1>2. salvage' = [Resting EXCEPT !.todo = T] /\ \A s \in T : db'[s] = db[s]
  BY <1>1 DEF SalvageNext
<1> HIDE DEF T
<1>3. /\ salvage' \in [todo: SUBSET Sources, src: Sources \cup {0}, snap: Row]
      /\ salvage'.todo = T /\ salvage'.src = 0
  BY <1>1, <1>2, RestingFields
<1>4. \A s \in T : s \in Salvageable'
  BY <1>1, <1>2 DEF Salvageable, Classified
<1> QED
  BY <1>3, <1>4 DEF PassOK

LEMMA PassAfterError ==
    ASSUME NEW event, AfterError(event)
    PROVE  SalvageEnds \/ SalvageNext
  BY DEF AfterError

LEMMA DeferEnds ==
    ASSUME AfterError("defer")
    PROVE  SalvageEnds
<1>1. M!Salvage("recovering", "recovered_retryable").next = "retryable"
  BY DEF M!Salvage, M!To
<1>2. M!Salvage("retryable", "defer").action = "wait"
  BY DEF M!Salvage, M!To, M!Undecided
<1> QED
  BY <1>1, <1>2 DEF AfterError

(* The rows stay as they are.                                                *)
LEMMA SameRows ==
    ASSUME IndInv, db' = db
    PROVE  /\ db' \in [Sources -> Row] /\ \A s \in Sources : Change(db[s], db'[s], s \in refs)
           /\ \A s \in Sources : db'[s] = db[s]
  BY NoChange DEF IndInv, RowsOK

(* The source that the pass has reached.                                     *)
LEMMA PassSource ==
    ASSUME IndInv, salvage.todo # {}
    PROVE  LET s == Min(salvage.todo)
           IN  /\ s \in Sources /\ s \in salvage.todo /\ RowOK(db[s]) /\ db[s].type = "quarantine"
               /\ ~Classified(db[s]) /\ now \in Nat
<1>1. salvage.todo \subseteq Sources /\ salvage.todo \subseteq Salvageable
  BY DEF IndInv, PassOK
<1>2. Min(salvage.todo) \in salvage.todo
  BY <1>1, MinInTodo
<1> QED
  BY <1>1, <1>2 DEF IndInv, RowsOK, Salvageable

LEMMA StartSalvageStep ==
    ASSUME IndInv, StartSalvage
    PROVE  IndInv' /\ Kept
<1>1. /\ failed = "no" /\ failed' = failed /\ db' = db /\ Maintaining
      /\ salvage' = [Resting EXCEPT !.todo = Salvageable] /\ Salvageable \in SUBSET Sources
  BY DEF StartSalvage, Salvageable
<1>2. PassOK'
  <2>1. salvage'.todo = Salvageable /\ salvage'.src = 0
        /\ salvage' \in [todo: SUBSET Sources, src: Sources \cup {0}, snap: Row]
    BY <1>1, RestingFields
  <2>2. Salvageable' = Salvageable
    BY <1>1 DEF Salvageable, Classified
  <2> QED
    BY <2>1, <2>2 DEF PassOK
<1> QED
  BY <1>1, <1>2, SameRows, MaintenanceStep DEF Maintaining

LEMMA InspectPrefixStep ==
    ASSUME IndInv, InspectPrefix \/ DeferSalvage
    PROVE  IndInv' /\ Kept
<1> DEFINE s == Min(salvage.todo)
<1>1. /\ failed = "no" /\ failed' = failed /\ db' = db /\ Maintaining
      /\ \/ SalvageNext \/ SalvageEnds
         \/ salvage.todo # {} /\ salvage' = [salvage EXCEPT !.src = s, !.snap = db[s]]
  BY PassAfterError DEF InspectPrefix, DeferSalvage
<1>2. /\ db' \in [Sources -> Row] /\ \A t \in Sources : Change(db[t], db'[t], t \in refs)
      /\ \A t \in Sources : db'[t] = db[t]
  BY <1>1, SameRows
<1>3. CASE SalvageNext
  BY <1>1, <1>2, <1>3, PassGoesOn, MaintenanceStep DEF IndInv, Maintaining
<1>4. CASE SalvageEnds
  BY <1>1, <1>2, <1>4, PassEnds, MaintenanceStep DEF Maintaining
<1>5. CASE salvage.todo # {} /\ salvage' = [salvage EXCEPT !.src = s, !.snap = db[s]]
  <2>1. s \in Sources /\ db[s] \in Row
    BY <1>5, PassSource DEF RowOK
  <2>2. salvage \in [todo: SUBSET Sources, src: Sources \cup {0}, snap: Row]
    BY DEF IndInv, PassOK
  <2>3. /\ salvage' \in [todo: SUBSET Sources, src: Sources \cup {0}, snap: Row]
        /\ salvage'.todo = salvage.todo /\ salvage'.src = s
    <3> HIDE DEF s
    <3> QED
      BY <1>5, <2>1, <2>2
  <2>4. Salvageable' = Salvageable
    BY <1>1 DEF Salvageable, Classified
  <2>5. PassOK'
    BY <1>5, <2>3, <2>4 DEF PassOK, IndInv
  <2> QED
    BY <1>1, <1>2, <2>5, MaintenanceStep DEF Maintaining
<1> QED
  BY <1>1, <1>3, <1>4, <1>5

LEMMA HoldSourceStep ==
    ASSUME IndInv, HoldSource
    PROVE  IndInv' /\ Kept
<1> DEFINE s == Min(salvage.todo)
           q == HeldForReview(db[s])
<1>1. /\ failed = "no" /\ failed' # "third" /\ salvage.todo # {} /\ Maintaining /\ SalvageEnds
      /\ db' \in {db, [db EXCEPT ![s] = q]}
  BY DeferEnds DEF HoldSource, Committed, Raised
<1>2. /\ s \in Sources /\ RowOK(db[s]) /\ db[s].type = "quarantine" /\ ~Classified(db[s])
  BY <1>1, PassSource
<1>3. Change(db[s], q, s \in refs)
  BY <1>2, HeldForReviewChange
<1> HIDE DEF s, q
<1>4. /\ db' \in [Sources -> Row] /\ \A t \in Sources : Change(db[t], db'[t], t \in refs)
      /\ \A t \in Sources : t # s => db'[t] = db[t]
  BY <1>1, <1>2, <1>3, RowStep DEF IndInv
<1>5. PassOK'
  BY <1>1, PassEnds
<1> QED
  BY <1>1, <1>2, <1>4, <1>5, MaintenanceStep DEF Maintaining

LEMMA AdmitPrefixStep ==
    ASSUME IndInv, AdmitPrefix
    PROVE  IndInv' /\ Kept
<1> DEFINE s == Min(salvage.todo)
           q == Certified(db[s])
<1>1. /\ failed = "no" /\ failed' # "third" /\ salvage.todo # {} /\ Maintaining
      /\ db' \in {db, [db EXCEPT ![s] = q]} /\ (SalvageEnds \/ SalvageNext)
  <2>1. salvage.src = s /\ salvage.todo # {}
    BY DEF AdmitPrefix, IndInv, PassOK
  <2> QED
    BY <2>1, DeferEnds DEF AdmitPrefix, Committed, Raised
<1>2. /\ s \in Sources /\ RowOK(db[s]) /\ db[s].type = "quarantine" /\ ~Classified(db[s]) /\ now \in Nat
  BY <1>1, PassSource
<1>3. Change(db[s], q, s \in refs)
  BY <1>2, CertifiedChange
<1> HIDE DEF q
<1>4. /\ db' \in [Sources -> Row] /\ \A t \in Sources : Change(db[t], db'[t], t \in refs)
      /\ \A t \in Sources : t # s => db'[t] = db[t]
  BY <1>1, <1>2, <1>3, RowStep DEF IndInv
<1>5. PassOK'
  BY <1>1, <1>4, PassEnds, PassGoesOn DEF IndInv
<1> QED
  BY <1>1, <1>2, <1>4, <1>5, MaintenanceStep DEF Maintaining

(* One transaction of the retention sweep: what nobody can parse is classified, *)
(* and rows of one expired source go.                                        *)
LEMMA SweptRows ==
    ASSUME IndInv, NEW rows,
           \/ rows = ClassifiedOpaque
           \/ \E s \in NextExpired : rows = SweptSources(s)
    PROVE  /\ rows \in [Sources -> Row]
           /\ \A t \in Sources : Change(db[t], rows[t], t \in refs)
           /\ \A t \in Sources : db[t].type # "quarantine" => rows[t] = db[t]
<1>1. now \in Nat /\ db \in [Sources -> Row] /\ \A t \in Sources : RowOK(db[t])
  BY DEF IndInv, RowsOK
<1>2. ASSUME NEW t \in Sources
      PROVE  /\ Change(db[t], ClassifiedOpaque[t], t \in refs) /\ ClassifiedOpaque[t] \in Row
             /\ db[t].type # "quarantine" => ClassifiedOpaque[t] = db[t]
  <2>1. CASE t \in First(OpaqueUnclassified)
    <3>1. ClassifiedOpaque[t] = Unprocessable(db[t])
      BY <2>1 DEF ClassifiedOpaque
    <3>2. db[t].type = "quarantine" /\ db[t].opaque /\ db[t].disp = "unclassified"
      BY <2>1 DEF First, OpaqueUnclassified
    <3>3. Change(db[t], Unprocessable(db[t]), t \in refs)
      BY <1>1, <3>2, UnprocessableChange
    <3> QED
      BY <3>1, <3>2, <3>3 DEF Change, RowOK
  <2>2. CASE t \notin First(OpaqueUnclassified)
    <3>1. ClassifiedOpaque[t] = db[t]
      BY <2>2 DEF ClassifiedOpaque
    <3>2. Change(db[t], db[t], t \in refs)
      BY <1>1, NoChange
    <3> QED
      BY <1>1, <3>1, <3>2
  <2> QED
    BY <2>1, <2>2
<1>3. ClassifiedOpaque \in [Sources -> Row]
  <2>1. \A t \in Sources :
          (IF t \in First(OpaqueUnclassified) THEN Unprocessable(db[t]) ELSE db[t]) \in Row
    BY <1>2 DEF ClassifiedOpaque
  <2> QED
    BY <2>1 DEF ClassifiedOpaque
<1>4. CASE rows = ClassifiedOpaque
  BY <1>2, <1>3, <1>4
<1>5. CASE \E s \in NextExpired : rows = SweptSources(s)
  <2>1. PICK s \in NextExpired : rows = SweptSources(s)
    BY <1>5
  <2>2. s \in Sources /\ Expired(db[s]) /\ db[s].type = "quarantine"
    BY DEF NextExpired, Expired
  <2> DEFINE c == CanonicalEligible(s)
             q == Swept(db[s], c)
  <2>3. c \in BOOLEAN /\ (c => db[s].disp = "unprocessable")
    BY DEF CanonicalEligible, M!CanonicalExpiry, M!Refuse, M!To
  <2>4. Change(db[s], q, s \in refs)
    <3> HIDE DEF c
    <3> QED
      BY <1>1, <2>2, <2>3, SweptChange
  <2>5. rows = [ClassifiedOpaque EXCEPT ![s] = q]
    BY <2>1 DEF SweptSources
  <2>6. q \in Row
    BY <2>4 DEF Change, RowOK
  <2> HIDE DEF q
  <2>7. /\ rows \in [Sources -> Row] /\ rows[s] = q
        /\ \A t \in Sources : t # s => rows[t] = ClassifiedOpaque[t]
    BY <1>3, <2>2, <2>5, <2>6
  <2> QED
    BY <1>2, <2>2, <2>4, <2>7
<1> QED
  BY <1>4, <1>5

LEMMA SweepStep ==
    ASSUME IndInv, NEW rows, NEW standalone, SweepTo(rows, standalone),
           \/ rows = ClassifiedOpaque
           \/ \E s \in NextExpired : rows = SweptSources(s)
    PROVE  IndInv' /\ Kept
<1>1. /\ failed = "no" /\ failed' = failed /\ SalvageEnds /\ db' \in {db, rows}
      /\ UNCHANGED <<writer, doubt, now, acked, altered>>
  <2>1. <<rows, standalone>>[1] = rows
    OBVIOUS
  <2> QED
    BY <2>1 DEF SweepTo, SalvageEnds
<1>2. /\ db' \in [Sources -> Row]
      /\ \A t \in Sources : Change(db[t], db'[t], t \in refs)
      /\ \A t \in Sources : db[t].type # "quarantine" => db'[t] = db[t]
  <2>1. CASE db' = db
    BY <2>1, SameRows
  <2>2. CASE db' = rows
    BY <2>2, SweptRows
  <2> QED
    BY <1>1, <2>1, <2>2
<1>3. PassOK'
  BY <1>1, PassEnds
<1> QED
  BY <1>1, <1>2, <1>3, MaintenanceStep

LEMMA MaintainStep ==
    ASSUME IndInv, Maintain
    PROVE  IndInv' /\ Kept
<1>1. CASE Sweep
  <2>1. CASE NextExpired = {} /\ SweepTo(ClassifiedOpaque, SweptStandalone(ChunkLimit))
    BY <2>1, SweepStep
  <2>2. CASE \E s \in First(NextExpired) :
           SweepTo(SweptSources(s), SweptStandalone(Remaining(db[s], CanonicalEligible(s))))
    <3>1. PICK s \in First(NextExpired) :
           SweepTo(SweptSources(s), SweptStandalone(Remaining(db[s], CanonicalEligible(s))))
      BY <2>2
    <3>2. s \in NextExpired
      BY DEF First
    <3> QED
      BY <3>1, <3>2, SweepStep
  <2> QED
    BY <1>1, <2>1, <2>2 DEF Sweep
<1>2. CASE DeferSweep
  BY <1>2, SweepStep DEF DeferSweep
<1>3. CASE EndWindow \/ OpenWindow \/ DeferWindow
  <2>1. /\ UNCHANGED <<db, writer, doubt, failed, salvage, now, acked, altered>> /\ failed = "no"
    BY <1>3 DEF EndWindow, OpenWindow, DeferWindow, TurnWindow
  <2>2. PassOK'
    BY <2>1 DEF IndInv, PassOK, Salvageable
  <2> QED
    BY <2>1, <2>2, SameRows, MaintenanceStep
<1> QED
  BY <1>1, <1>2, <1>3, StartSalvageStep, InspectPrefixStep, HoldSourceStep, AdmitPrefixStep
  DEF Maintain, Maintenance
-----------------------------------------------------------------------------
(* The publication holds the device lease: no attempt is open.                *)

LEMMA PublishingStep ==
    ASSUME IndInv, Publishing, NEW s \in Sources, NEW q, Change(db[s], q, s \in refs),
           s \notin salvage.todo, db' \in {db, [db EXCEPT ![s] = q]}
    PROVE  IndInv' /\ Kept
<1>1. /\ UNCHANGED <<writer, doubt, failed, salvage, now, acked, altered>> /\ failed = "no"
      /\ writer.src = 0
  BY DEF Publishing
<1>2. doubt = NoDoubt
  BY <1>1, WriterTypes DEF IndInv, DoubtOK
<1>3. writer' \in [src: Sources \cup {0}, pos: Nat, cache: SUBSET Seq(Values)]
  BY <1>1 DEF IndInv, RowsOK
<1>4. RowsOK' /\ PassOK' /\ StoredAsAnswered' /\ Kept
  BY <1>1, <1>3, WriterStep
<1>5. DoubtOK' /\ FailStopIsWarranted'
  BY <1>1, <1>2, DecidedStep
<1> QED
  BY <1>4, <1>5 DEF IndInv

LEMMA PublishStep ==
    ASSUME IndInv, Publish
    PROVE  IndInv' /\ Kept
<1>1. PICK s \in Sources : AcceptSource(s) \/ CoverSource(s) \/ BlockOverlap(s) \/ RetirePage(s)
  BY DEF Publish
<1> DEFINE r == db[s]
<1>2. RowOK(r) /\ Change(r, r, s \in refs) /\ db \in [Sources -> Row]
  BY NoChange DEF IndInv, RowsOK
<1>3. s \in salvage.todo => r.type = "quarantine" /\ ~Classified(r)
  BY DEF IndInv, PassOK, Salvageable
<1>4. r.phase = "sealed_waiting" => r.type = "attempt"
  BY <1>2 DEF RowOK, QuarantineOK, NoRow, Row
<1>5. r.cert \/ r.phase = "retiring" => r.type # "quarantine" \/ r.disp = "published_prefix"
  BY <1>2 DEF RowOK, QuarantineOK
<1>6. r.cert \/ r.phase \in {"sealed_waiting", "retiring"} => s \notin salvage.todo
  BY <1>3, <1>4, <1>5 DEF Classified
<1>7. CASE AcceptSource(s)
  <2>1. Publishing /\ db' = db
    BY <1>7 DEF AcceptSource
  <2>2. db' \in [Sources -> Row] /\ \A t \in Sources : Change(db[t], db'[t], t \in refs)
    BY <2>1, SameRows
  <2>3. /\ UNCHANGED <<writer, doubt, failed, salvage, now, acked, altered>> /\ failed = "no"
    BY <2>1 DEF Publishing
  <2>4. PassOK'
    BY <2>1, <2>3, PassKept DEF IndInv
  <2> QED
    BY <2>1, <2>2, <2>3, <2>4, MaintenanceStep
<1>8. CASE CoverSource(s)
  <2> DEFINE p == M!BeginRetirement(M!ReadyCustody(r.phase, r.cert).next).next
             q == [r EXCEPT !.phase = p]
  <2>1. Publishing /\ db' = [db EXCEPT ![s] = q]
    BY <1>8 DEF CoverSource
  <2>2. Change(r, q, s \in refs) /\ (p # r.phase => r.phase = "sealed_waiting" \/ r.cert)
    BY <1>2, CoverChange
  <2>3. CASE p # r.phase
    <3> HIDE DEF q, p
    <3> QED
      BY <1>6, <2>1, <2>2, <2>3, PublishingStep
  <2>4. CASE p = r.phase
    <3>1. q = r
      BY <1>2, <2>4 DEF RowOK, Row
    <3>2. db' = db
      BY <1>2, <2>1, <3>1
    <3>3. /\ db' \in [Sources -> Row] /\ \A t \in Sources : Change(db[t], db'[t], t \in refs)
          /\ \A t \in Sources : db'[t] = db[t]
      BY <3>2, SameRows
    <3>4. /\ UNCHANGED <<writer, doubt, failed, salvage, now, acked, altered>> /\ failed = "no"
      BY <2>1 DEF Publishing
    <3>5. PassOK'
      BY <3>3, <3>4, PassKept DEF IndInv
    <3> QED
      BY <3>3, <3>4, <3>5, MaintenanceStep
  <2> QED
    BY <2>3, <2>4
<1>9. CASE BlockOverlap(s)
  <2> DEFINE q == [HeldForReview(r) EXCEPT !.type = "quarantine", !.phase = M!Conflict(r.phase).next]
  <2>1. Publishing /\ db' = [db EXCEPT ![s] = q] /\ Admissible(r)
    BY <1>9 DEF BlockOverlap
  <2>2. Change(r, q, s \in refs)
    BY <1>2, <2>1, OverlapChange
  <2>3. r.phase = "sealed_waiting" \/ r.cert
    BY <2>1 DEF Admissible
  <2> HIDE DEF q
  <2> QED
    BY <1>6, <2>1, <2>2, <2>3, PublishingStep
<1>10. CASE RetirePage(s)
  <2> DEFINE left == [r EXCEPT !.recs = SubSeq(r.recs, ChunkLimit + 1, Len(r.recs))]
  <2>1. /\ Publishing /\ r.phase = "retiring"
        /\ \/ r.recs # <<>> /\ db' = [db EXCEPT ![s] = left]
           \/ r.recs = <<>> /\ ~Residue(r) /\ db' = [db EXCEPT ![s] = NoRow]
    BY <1>10 DEF RetirePage
  <2>2. r.recs # <<>> => Change(r, left, s \in refs)
    BY <1>2, <2>1, RetireChange
  <2>3. r.recs = <<>> /\ ~Residue(r) => Change(r, NoRow, s \in refs)
    BY <1>2, RetiredChange
  <2> HIDE DEF left
  <2>4. s \notin salvage.todo
    BY <1>6, <2>1
  <2>5. PICK q : Change(r, q, s \in refs) /\ db' = [db EXCEPT ![s] = q]
    BY <2>1, <2>2, <2>3
  <2> QED
    BY <2>1, <2>4, <2>5, PublishingStep
<1> QED
  BY <1>1, <1>7, <1>8, <1>9, <1>10

-----------------------------------------------------------------------------
(* The environment.                                                          *)

LEMMA TickStep ==
    ASSUME IndInv, Tick
    PROVE  IndInv' /\ Kept
<1>1. /\ UNCHANGED <<db, writer, doubt, failed, salvage, acked, altered>> /\ now' \in Nat
      /\ acked' \in [Sources -> Seq(Values)]
      /\ writer' \in [src: Sources \cup {0}, pos: Nat, cache: SUBSET Seq(Values)]
  BY DEF Tick, IndInv, RowsOK
<1>2. RowsOK' /\ StoredAsAnswered' /\ Kept /\ PassOK'
  BY <1>1, ReadingStep
<1>3. DoubtOK' /\ FailStopIsWarranted'
  BY <1>1 DEF IndInv, DoubtOK, FailStopIsWarranted
<1> QED
  BY <1>2, <1>3 DEF IndInv

LEMMA RestartStep ==
    ASSUME IndInv, Restart
    PROVE  IndInv' /\ Kept
<1>1. /\ UNCHANGED <<db, acked, altered>> /\ now' \in Nat /\ acked' \in [Sources -> Seq(Values)]
      /\ writer' = NoWriter /\ doubt' = NoDoubt /\ SalvageEnds /\ failed' = "no"
  BY DEF Restart, SalvageEnds, IndInv, RowsOK
<1>2. writer' \in [src: Sources \cup {0}, pos: Nat, cache: SUBSET Seq(Values)]
  BY <1>1, WriterTypes DEF IndInv
<1>3. RowsOK' /\ StoredAsAnswered' /\ Kept
  BY <1>1, <1>2, ReadingStep
<1>4. PassOK' /\ DoubtOK' /\ FailStopIsWarranted'
  BY <1>1, PassEnds DEF DoubtOK, FailStopIsWarranted
<1> QED
  BY <1>3, <1>4 DEF IndInv

(* Altered bytes are what the invariant excuses, and nothing else.            *)
LEMMA AlterStep ==
    ASSUME IndInv, NEW s \in Sources, Alter(s)
    PROVE  IndInv' /\ Kept
<1>1. PICK i \in DOMAIN db[s].recs, v \in Values :
          db' = [db EXCEPT ![s] = [db[s] EXCEPT !.recs = [db[s].recs EXCEPT ![i] = v]]]
  BY DEF Alter
<1>2. /\ altered' = altered \cup {s}
      /\ UNCHANGED <<loose, refs, writer, doubt, failed, salvage, now, acked>>
  BY DEF Alter
<1> DEFINE r == db[s]
           q == [r EXCEPT !.recs = [r.recs EXCEPT ![i] = v]]
<1>3. /\ db \in [Sources -> Row] /\ acked \in [Sources -> Seq(Values)] /\ now \in Nat
      /\ altered \subseteq Sources /\ \A t \in Sources : RowOK(db[t])
      /\ writer \in [src: Sources \cup {0}, pos: Nat, cache: SUBSET Seq(Values)]
  BY DEF IndInv, RowsOK
<1>4. /\ RowOK(q) /\ Lawful(r, q, s \in refs) /\ q.sum = r.sum /\ q.phase = r.phase /\ q.type = r.type
      /\ q.disp = r.disp /\ q.held = r.held /\ q.opaque = r.opaque
  <2>1. q = [r EXCEPT !.recs = [r.recs EXCEPT ![i] = v]] /\ RowOK(r) /\ i \in DOMAIN r.recs
    BY <1>3
  <2> DEFINE b == s \in refs
  <2> HIDE DEF r, q, b
  <2>2. /\ RowOK(q) /\ Lawful(r, q, b) /\ q.sum = r.sum /\ q.phase = r.phase /\ q.type = r.type
        /\ q.disp = r.disp /\ q.held = r.held /\ q.opaque = r.opaque
    BY <2>1, AlteredRow
  <2> QED
    BY <2>2 DEF b
<1>5. q \in Row /\ db' = [db EXCEPT ![s] = q]
  BY <1>1, <1>4 DEF RowOK
<1> HIDE DEF q
<1>6. db' \in [Sources -> Row] /\ db'[s] = q /\ \A t \in Sources : t # s => db'[t] = db[t]
  BY <1>3, <1>5
<1>7. \A t \in Sources : /\ db'[t].sum = db[t].sum /\ db'[t].phase = db[t].phase
                         /\ db'[t].type = db[t].type /\ db'[t].disp = db[t].disp
                         /\ db'[t].held = db[t].held /\ db'[t].opaque = db[t].opaque
  BY <1>4, <1>6
<1>8. RowsOK'
  <2>1. \A t \in Sources : RowOK(db'[t])
    BY <1>3, <1>4, <1>6
  <2>2. (\A t \in Sources : RowOK(db[t]))'
    BY <2>1 DEF RowOK, AttemptOK, QuarantineOK, BytesOK
  <2> QED
    BY <1>2, <1>3, <1>6, <2>2 DEF RowsOK
<1>9. StoredAsAnswered'
  <2> SUFFICES ASSUME NEW t \in Sources, db'[t].phase \notin {"none", "covered", "retiring"}
               PROVE  /\ Len(acked'[t]) <= Len(db'[t].sum)
                      /\ SubSeq(db'[t].sum, 1, Len(acked'[t])) = acked'[t]
                      /\ t \notin altered' => Authentic(db[t])'
    BY DEF StoredAsAnswered
  <2>1. /\ Len(acked[t]) <= Len(db[t].sum) /\ SubSeq(db[t].sum, 1, Len(acked[t])) = acked[t]
        /\ t \notin altered => Authentic(db[t])
    BY <1>7 DEF IndInv, StoredAsAnswered
  <2>2. t \notin altered' => t # s /\ t \notin altered
    BY <1>2
  <2>3. t \notin altered' => Authentic(db[t])'
    BY <1>6, <2>1, <2>2 DEF Authentic
  <2> QED
    BY <1>2, <1>7, <2>1, <2>3
<1>10. PassOK'
  <2>1. Salvageable' = Salvageable
    BY <1>7 DEF Salvageable, Classified
  <2> QED
    BY <1>2, <2>1 DEF IndInv, PassOK
<1>11. DoubtOK'
  <2> SUFFICES ASSUME doubt # NoDoubt
               PROVE  DoubtOK'
    BY <1>2 DEF DoubtOK
  <2>1. /\ doubt.src \in Sources /\ doubt.src = writer.src
        /\ doubt.kind = "create" => doubt.old = NoRow
        /\ doubt.kind = "drain" => db[doubt.src].phase = "receiving"
        /\ db[doubt.src].type \in {"none", "attempt"}
        /\ doubt.src \in altered \/ db[doubt.src] \in {doubt.new, doubt.old}
    BY DEF IndInv, DoubtOK
  <2>2. doubt.src \in altered' \/ db'[doubt.src] \in {doubt.new, doubt.old}
    BY <1>2, <1>6, <2>1
  <2>3. db'[doubt.src].phase = db[doubt.src].phase /\ db'[doubt.src].type = db[doubt.src].type
    BY <1>7, <2>1
  <2> QED
    BY <1>2, <2>1, <2>2, <2>3 DEF DoubtOK
<1>12. FailStopIsWarranted'
  BY <1>2 DEF IndInv, FailStopIsWarranted
<1>13. Kept
  <2>1. \A t \in Sources : Lawful(db[t], db[t], t \in refs)
    BY <1>3, NoChange DEF Change
  <2> QED
    BY <1>4, <1>6, <2>1 DEF Kept
<1> QED
  BY <1>8, <1>9, <1>10, <1>11, <1>12, <1>13 DEF IndInv
-----------------------------------------------------------------------------
(* The database as an older version left it.                                 *)
LEMMA InitRows ==
    ASSUME Init
    PROVE  IndInv
<1>1. \A s \in Sources : RowOK(Imported(s)) /\ Imported(s).sum = <<>> /\ Imported(s).recs = <<>>
  <2> TAKE s \in Sources
  <2>1. /\ Imported(s) = [NoRow EXCEPT !.type = "quarantine", !.phase = "blocked", !.opaque = TRUE,
                              !.disp = "unclassified", !.evid = 2]
        /\ "blocked" \in M!Phases /\ "unclassified" \in M!Dispositions
    BY DEF Imported, M!Phases, M!Dispositions
  <2>2. Imported(s) \in Row
    <3>1. "quarantine" \in {"none", "attempt", "quarantine"} /\ 2 \in Nat /\ TRUE \in BOOLEAN
      OBVIOUS
    <3>2. NoRow \in Row
      BY RowConstants
    <3> QED
      BY ZenonT(30), <2>1, <3>1, <3>2 DEF Row
  <2> QED
    BY <2>1, <2>2, RowConstants DEF NoRow, RowOK, AttemptOK, QuarantineOK, BytesOK
<1>2. \A s \in Sources : /\ db[s] \in {NoRow, Imported(s)} /\ RowOK(db[s])
                         /\ db[s].sum = <<>> /\ db[s].recs = <<>>
  BY <1>1, RowConstants DEF Init, NoRow
<1>3. db \in [Sources -> Row]
  <2>1. \A s \in Sources : (IF s \in Legacy THEN Imported(s) ELSE NoRow) \in Row
    BY <1>1, RowConstants DEF RowOK
  <2> QED
    BY <2>1 DEF Init
<1>4. RowsOK
  <2>1. writer \in [src: Sources \cup {0}, pos: Nat, cache: SUBSET Seq(Values)]
    BY DEF Init, NoWriter
  <2> QED
    BY <1>2, <1>3, <2>1 DEF Init, RowsOK
<1>5. PassOK /\ DoubtOK /\ FailStopIsWarranted
  BY RestingFields DEF Init, PassOK, DoubtOK, FailStopIsWarranted
<1>6. StoredAsAnswered
  <2> SUFFICES ASSUME NEW s \in Sources
               PROVE  /\ Len(acked[s]) <= Len(db[s].sum)
                      /\ SubSeq(db[s].sum, 1, Len(acked[s])) = acked[s]
                      /\ Authentic(db[s])
    BY DEF StoredAsAnswered
  <2>1. acked[s] = <<>> /\ db[s].sum = <<>> /\ db[s].recs = <<>>
    BY <1>2 DEF Init
  <2>2. Len(<<>>) <= Len(<<>>) /\ SubSeq(<<>>, 1, Len(<<>>)) = <<>>
    BY SubSeqEmpty
  <2> QED
    BY <2>1, <2>2 DEF Authentic
<1> QED
  BY <1>4, <1>5, <1>6 DEF IndInv

LEMMA NextStep ==
    ASSUME IndInv, [Next]_vars
    PROVE  IndInv' /\ (UNCHANGED vars \/ Kept)
<1>1. CASE Next
  BY <1>1, CaptureStep, RecoverStep, MaintainStep, PublishStep, TickStep, RestartStep, AlterStep DEF Next
<1>2. CASE UNCHANGED vars
  <2>1. UNCHANGED <<db, writer, doubt, failed, salvage, now, acked, altered>>
    BY <1>2 DEF vars
  <2>2. /\ now' \in Nat /\ acked' \in [Sources -> Seq(Values)]
        /\ writer' \in [src: Sources \cup {0}, pos: Nat, cache: SUBSET Seq(Values)]
    BY <2>1 DEF IndInv, RowsOK
  <2>3. RowsOK' /\ StoredAsAnswered' /\ PassOK'
    BY <2>1, <2>2, ReadingStep
  <2>4. DoubtOK' /\ FailStopIsWarranted'
    BY <2>1 DEF IndInv, DoubtOK, FailStopIsWarranted
  <2> QED
    BY <1>2, <2>3, <2>4 DEF IndInv
<1> QED
  BY <1>1, <1>2

(* The rows, the salvage pass and an undecided commit stay consistent whatever  *)
(* order the writer, maintenance, the publication, storage and a crash take     *)
(* their steps in.                                                           *)
THEOREM Inductive == Spec => []IndInv
<1>1. Init => IndInv
  BY InitRows
<1>2. IndInv /\ [Next]_vars => IndInv'
  BY NextStep
<1> QED
  BY <1>1, <1>2, PTL DEF Spec

(* commit_drain's answers are true: every record it has answered for is stored  *)
(* with the answered bytes until it is published or storage alters it           *)
(* (internal_audio_store.py commit_drain, _recover_ambiguous).                *)
THEOREM AnswersAreStored == Spec => []StoredAsAnswered
<1>1. IndInv => StoredAsAnswered
  BY DEF IndInv
<1> QED
  BY <1>1, Inductive, PTL

(* The store fail-stops over a third state only when storage altered the source *)
(* (_recover_ambiguous, _recover_create, _recover_seal).                     *)
THEOREM FailStopWarranted == Spec => []FailStopIsWarranted
<1>1. IndInv => FailStopIsWarranted
  BY DEF IndInv
<1> QED
  BY <1>1, Inductive, PTL

(* What waits for the publication as finished has no tail, no rejected bytes and *)
(* no hold (seal_source, _typed_terminalize_prefix).                         *)
THEOREM SealedClean == Spec => []SealedIsClean
<1>1. IndInv => SealedIsClean
  <2> SUFFICES ASSUME IndInv, NEW s \in Sources, db[s].phase = "sealed_waiting"
               PROVE  ~Residue(db[s]) /\ db[s].sum # <<>> /\ ~db[s].held /\ db[s].disp = "none"
    BY DEF SealedIsClean
  <2>1. RowOK(db[s]) /\ db[s] \in Row
    BY DEF IndInv, RowsOK, RowOK
  <2>2. db[s].type = "attempt"
    BY <2>1 DEF RowOK, QuarantineOK, NoRow, Row
  <2>3. /\ db[s].conf = 0 /\ db[s].evid = 0 /\ ~db[s].held /\ db[s].disp = "none"
        /\ db[s].tail = NoTail /\ db[s].sum # <<>>
    BY <2>1, <2>2 DEF RowOK, AttemptOK, BytesOK
  <2> QED
    BY <2>3 DEF Residue
<1> QED
  BY <1>1, Inductive, PTL

(* No step deletes a partial record, a rejected chunk, evidence or a record     *)
(* before its term, unless it is replaced or published (quarantine.py           *)
(* sweep_terminal_quarantine and the retention guards of each delete).        *)
THEOREM TermIsKept == Spec => EvidenceKeepsItsTerm
<1> DEFINE Step == \A s \in Sources :
          /\ Replaced(db[s].tail, db'[s]) \/ Spent(db[s])
          /\ db'[s].conf < db[s].conf \/ db'[s].evid < db[s].evid => Spent(db[s])
          /\ Len(db'[s].recs) < Len(db[s].recs) =>
                 \/ db[s].phase = "retiring"
                 \/ Spent(db[s]) /\ db[s].disp = "unprocessable" /\ s \notin refs
<1>1. Kept => Step
  BY DEF Kept, Lawful
<1>2. IndInv /\ [Next]_vars => [Step]_vars
  BY <1>1, NextStep
<1> QED
  BY <1>2, Inductive, PTL DEF Spec, EvidenceKeepsItsTerm
=============================================================================
