------------------------- MODULE RingCapture_proofs -------------------------
(***************************************************************************)
(* Proofs about RingCapture, for rings and batches of every size and any    *)
(* number of faults.  The inductive invariant follows what the coordinator   *)
(* believes (batch, pending source, visit frontier, INFO in hand) back to     *)
(* the rows that survive a crash.                                            *)
(***************************************************************************)
EXTENDS RingCapture, FiniteSetTheorems, SequenceTheorems, WellFoundedInduction, TLAPS

Row == [start: Nat, limit: Nat, count: Nat, life: Lives, tail: BOOLEAN]
BatchType == [src: Nat, start: Int, end: Int, prefix: Int, sealed: BOOLEAN]
PendingType == [src: Nat, next: Int]
ClosureType == [next: Int, reason: {"none", "collecting", "drained", "absence",
                                    "recovery_exhausted", "restart_interrupted"}]
InfoType == [read: Int, write: Int]
VisitNames == {"Idle", "Waiting", "Recovering", "Attempting", "Closing"}
VisitReasons == {"none", "drained", "absence", "recovery_exhausted", "restart_interrupted"}
VisitType == [st: VisitNames, origin: VisitNames, reason: VisitReasons, cursor: Int, next: Int]

Ids == DOMAIN sources
IsOpen(i) == Open(sources[i])
End(i) == Frontier(sources[i])

(* A source lies within what the device has written, and never past its range. *)
RowOK(s) ==
    /\ s.start < s.limit /\ Frontier(s) <= s.limit /\ s.limit <= dev.write
    /\ s.life \in {"sealed_waiting", "published"} => s.count > 0
RowsOK ==
    /\ sources \in Seq(Row)
    /\ \A i \in Ids : RowOK(sources[i])

Shapes ==
    /\ dev \in [read: Nat, write: Nat] /\ dev.read <= dev.write /\ dev.write <= MaxSequence
    /\ info \in InfoType /\ info.write <= dev.write
    /\ info # NoInfo => info.read \in Nat /\ info.read <= info.write
    /\ batch \in BatchType /\ pending \in PendingType
    /\ closure \in ClosureType /\ (closure # NoClosure => closure.next \in Nat)
    /\ frontier \in Int /\ recv \in Sequence
    /\ link \in BOOLEAN /\ faults \in 0..MaxFaults /\ visit \in VisitType
    /\ batch.src <= Len(sources) /\ pending.src <= Len(sources)
    /\ \A l \in losses : l.src \in Ids /\ l.from \in Sequence /\ l.to \in Sequence

OneOpen == \A i, j \in Ids : IsOpen(i) /\ IsOpen(j) => i = j

(* Where the coordinator is, and what it holds there.                         *)
Places ==
    /\ pc \in {"recover", "down", "merge", "append", "info", "drained"} => batch = NoBatch
    /\ pc \in {"reading", "seal", "retire"} => batch # NoBatch /\ ~batch.sealed
    /\ pc \in {"advance_info", "advance", "ack_info"} => batch # NoBatch /\ batch.sealed
    /\ pc \in {"recover", "down", "append", "info", "drained"} => pending = NoPending
    /\ pc \in {"recover", "down"} => frontier = None
    /\ pc = "step" => info # NoInfo
    /\ pc = "close" /\ visit.reason \in {"drained", "restart_interrupted"} =>
          batch = NoBatch /\ pending = NoPending
    /\ pc = "append" => visit.reason \notin {"drained", "restart_interrupted"}
    /\ pc \in {"close", "merge", "append"} =>
          visit.reason \in {"drained", "absence", "recovery_exhausted", "restart_interrupted"}
    /\ pc \notin {"recover", "wait", "down"} => closure.reason # "drained"

(* The batch in hand: its source, how much of it is stored, and that a source   *)
(* that begins after the batch cannot be read or sealed.                        *)
BatchOK ==
    batch # NoBatch =>
        /\ batch.src \in Ids
        /\ recv <= batch.end /\ batch.end <= dev.write
        /\ ~batch.sealed =>
              /\ IsOpen(batch.src)
              /\ pc # "reading" => batch.prefix = End(batch.src)
              /\ \/ BatchSource.start <= batch.start
                 \/ BatchSource.count = 0 /\ recv < BatchSource.start /\ pc # "reading"
        /\ pc = "reading" =>
              /\ batch.prefix <= End(batch.src) /\ End(batch.src) <= recv
              /\ batch.end <= BatchSource.limit
              /\ BatchSource.life \in {"leg_prepared", "receiving"}
        /\ batch.sealed =>
              /\ \A i \in Ids : ~IsOpen(i)
              /\ BatchSource.life \in {"sealed_waiting", "published"}
              /\ End(batch.src) = batch.end /\ BatchSource.start <= batch.start
              /\ batch.prefix <= batch.end
        /\ pc = "advance" /\ link => batch.start <= dev.read

PendingOK ==
    pending # NoPending /\ batch = NoBatch /\ pc # "merge" =>
        pending.src \in Ids /\ IsOpen(pending.src) /\ pending.next = End(pending.src)

(* An open source nobody holds is empty, but for a process that has not yet     *)
(* looked for it.                                                              *)
Unseen == pc \in {"recover", "down"}
          \/ (pc \in {"close", "merge"} /\ visit.reason = "restart_interrupted")
LeftoverOK ==
    batch = NoBatch /\ pending = NoPending /\ ~Unseen =>
        \A i \in Ids : IsOpen(i) => sources[i].count = 0

(* The visit frontier is the end of a source, or lies in the one being read.   *)
Growing == batch # NoBatch /\ (pc \in {"reading", "seal"} \/ batch.sealed)
FrontierAt(i) ==
    /\ sources[i].count > 0
    /\ \/ End(i) = frontier
       \/ Growing /\ i = batch.src /\ sources[i].start < frontier /\ frontier <= End(i)
FrontierOK == frontier # None => \E i \in Ids : FrontierAt(i)

ClosedAt(n) == \E i \in Ids : ~IsOpen(i) /\ End(i) = n
MergeOK ==
    pc = "merge" =>
        /\ visit.next # None => visit.next \in Nat /\ ClosedAt(visit.next)
        /\ visit.reason # "restart_interrupted" => \A i \in Ids : ~IsOpen(i)
        /\ visit.reason = "drained" =>
              \A i \in Ids : sources[i].life = "sealed_waiting" =>
                                visit.next # None /\ End(i) <= visit.next

(* What the device passed while a source waits for it, it passed by itself.     *)
SkipOK ==
    /\ \A i \in Ids : IsOpen(i) => \A r \in Int : End(i) <= r /\ r < dev.read => r \in skipped
    /\ pc = "step" =>
          /\ \A r \in Int : info.read <= r /\ r < dev.read => r \in skipped
          /\ \A i \in Ids : IsOpen(i) => \A r \in Int : End(i) <= r /\ r < info.read => r \in skipped

DrainOK ==
    closure.reason = "drained" =>
        \A i \in Ids : ~IsOpen(i) /\ (sources[i].life = "sealed_waiting" => End(i) <= closure.next)
BackedOK == closure # NoClosure => ClosedAt(closure.next)

IndInv ==
    /\ RowsOK /\ Shapes /\ OneOpen /\ Places /\ BatchOK /\ PendingOK /\ LeftoverOK
    /\ FrontierOK /\ MergeOK /\ SkipOK /\ DrainOK /\ BackedOK /\ HostAdvanceIsCustodied
-----------------------------------------------------------------------------
(* Sets of sequence numbers.                                                  *)

LEMMA Greatest ==
    ASSUME NEW N \in Nat, NEW T \in SUBSET (0 .. N), T # {}
    PROVE  \E x \in T : \A y \in T : y <= x
<1> DEFINE D == {N - x : x \in T}
<1> DEFINE R == OpToRel(<, Nat)
<1>1. IsWellFoundedOn(R, Nat)
  BY NatLessThanWellFounded
<1>2. \A a, b \in Nat : a < b => <<a, b>> \in R
  BY DEF OpToRel
<1> HIDE DEF R
<1>3. D \subseteq Nat /\ D # {}
  <2>1. ASSUME NEW x \in T PROVE N - x \in Nat
    BY x \in 0 .. N
  <2>2. PICK x \in T : TRUE
    OBVIOUS
  <2>3. N - x \in D
    OBVIOUS
  <2> QED BY <2>1, <2>3
<1>4. \A y \in T : N - y \in D /\ N - y \in Nat /\ y \in Int
  OBVIOUS
<1>5. \A e \in D : \E x \in T : e = N - x
  OBVIOUS
<1> HIDE DEF D
<1>6. PICK d \in D : \A e \in D : ~(<<e, d>> \in R)
  BY <1>1, <1>3, WFMin
<1>7. PICK x \in T : d = N - x
  BY <1>5
<1>8. ASSUME NEW y \in T PROVE y <= x
  <2>1. ~(N - y < N - x)
    BY <1>2, <1>4, <1>6, <1>7
  <2> QED BY <1>4, <2>1
<1> QED BY <1>8

-----------------------------------------------------------------------------
(* What an action does to the rows.                                            *)

Full == {"sealed_waiting", "published"}

(* Lives move on, and nothing else.                                            *)
Keeps ==
    /\ sources' \in Seq(Row) /\ Ids' = Ids
    /\ \A i \in Ids :
          /\ sources'[i].start = sources[i].start /\ sources'[i].limit = sources[i].limit
          /\ sources'[i].count = sources[i].count
          /\ Open(sources'[i]) => Open(sources[i])
          /\ \/ Open(sources[i]) \/ sources'[i].life = sources[i].life
             \/ sources[i].life = "sealed_waiting" /\ sources'[i].life = "published"
          /\ sources'[i].life \in Full => sources[i].count > 0

(* The open source of the batch takes records.                                 *)
Grows ==
    /\ sources' \in Seq(Row) /\ Ids' = Ids /\ batch.src \in Ids
    /\ \A i \in Ids : /\ sources'[i].start = sources[i].start /\ sources'[i].limit = sources[i].limit
                      /\ i # batch.src => sources'[i] = sources[i]
    /\ Open(BatchSource) /\ Open(sources'[batch.src])
    /\ BatchSource.count <= sources'[batch.src].count
    /\ Frontier(sources'[batch.src]) <= BatchSource.limit

(* A new source, when none is open.                                            *)
Adds ==
    /\ \A i \in Ids : ~IsOpen(i)
    /\ \E start, limit \in Nat :
          /\ sources' = Append(sources, NewSource(start, limit))
          /\ start < limit /\ limit <= dev.write

LEMMA RowEdit ==
    ASSUME sources \in Seq(Row), NEW k \in Ids, NEW row \in Row,
           sources' = [sources EXCEPT ![k] = row]
    PROVE  /\ sources' \in Seq(Row) /\ Ids' = Ids /\ Len(sources') = Len(sources)
           /\ sources'[k] = row /\ \A i \in Ids : i # k => sources'[i] = sources[i]
BY DEF Ids

LEMMA RowMap ==
    ASSUME sources \in Seq(Row), NEW rows, rows = [i \in Ids |-> rows[i]],
           \A i \in Ids : rows[i] \in Row
    PROVE  rows \in Seq(Row) /\ DOMAIN rows = Ids
<1>1. Ids = 1 .. Len(sources) /\ Len(sources) \in Nat
  BY DEF Ids
<1> QED BY <1>1

LEMMA RowLives ==
    ASSUME NEW s \in Row, NEW life \in Lives
    PROVE  LET t == [s EXCEPT !.life = life]
           IN t \in Row /\ t.start = s.start /\ t.limit = s.limit /\ t.count = s.count /\ t.life = life
BY DEF Row

LEMMA RowFields ==
    ASSUME NEW s \in Row
    PROVE  /\ s.start \in Nat /\ s.limit \in Nat /\ s.count \in Nat /\ s.life \in Lives
           /\ Frontier(s) = s.start + s.count
BY DEF Row, Frontier

(* One source moves on to another life.                                        *)
LEMMA LifeKeeps ==
    ASSUME sources \in Seq(Row), NEW k \in Ids, NEW life \in Lives,
           sources' = [sources EXCEPT ![k] = [sources[k] EXCEPT !.life = life]],
           Open(sources[k]), life \in Full => sources[k].count > 0,
           \A i \in Ids : sources[i].life \in Full => sources[i].count > 0
    PROVE  /\ Keeps /\ sources'[k].life = life
           /\ \A i \in Ids : i # k => sources'[i] = sources[i]
<1> DEFINE t == [sources[k] EXCEPT !.life = life]
<1>1. sources[k] \in Row
  BY DEF Ids
<1>2. t \in Row /\ t.start = sources[k].start /\ t.limit = sources[k].limit
      /\ t.count = sources[k].count /\ t.life = life
  BY <1>1, RowLives
<1>3. sources' = [sources EXCEPT ![k] = t]
  OBVIOUS
<1> HIDE DEF t
<1>4. /\ sources' \in Seq(Row) /\ Ids' = Ids
      /\ sources'[k] = t /\ \A i \in Ids : i # k => sources'[i] = sources[i]
  BY ZenonT(30), <1>2, <1>3, RowEdit
<1> QED BY <1>2, <1>4 DEF Keeps

LEMMA RowFacts ==
    ASSUME RowsOK
    PROVE  /\ sources \in Seq(Row) /\ \A i \in Ids : sources[i].life \in Full => sources[i].count > 0
           /\ \A i \in Ids : /\ sources[i] \in Row
                             /\ sources[i].start \in Nat /\ sources[i].limit \in Nat
                             /\ sources[i].count \in Nat /\ sources[i].life \in Lives
                             /\ End(i) = sources[i].start + sources[i].count
                             /\ sources[i].start < sources[i].limit /\ End(i) <= sources[i].limit
                             /\ sources[i].limit <= dev.write
           /\ Ids = 1 .. Len(sources) /\ Len(sources) \in Nat
<1>1. sources \in Seq(Row)
  BY DEF RowsOK
<1>2. \A i \in Ids : sources[i] \in Row
  BY <1>1 DEF Ids
<1>3. Ids = 1 .. Len(sources) /\ Len(sources) \in Nat
  BY <1>1 DEF Ids
<1> QED BY <1>1, <1>2, <1>3, RowFields DEF RowsOK, RowOK, End, Full

LEMMA SameKeeps == ASSUME RowsOK, UNCHANGED sources PROVE Keeps
BY RowFacts DEF Keeps, Ids

LEMMA TerminalizedRow ==
    ASSUME NEW s \in Row
    PROVE  /\ Terminalized(s) \in Row /\ Terminalized(s).start = s.start /\ Terminalized(s).limit = s.limit
           /\ Terminalized(s).count = s.count
           /\ ~Open(Terminalized(s)) /\ (~Open(s) => Terminalized(s) = s)
           /\ Open(s) /\ Terminalized(s).life \in Full => s.count > 0
<1>1. CASE ~Open(s)
  BY <1>1 DEF Terminalized
<1>2. CASE Open(s)
  <2> DEFINE life == IF s.count = 0 \/ s.tail THEN "quarantined" ELSE "sealed_waiting"
  <2>1. life \in {"quarantined", "sealed_waiting"} /\ (s.count = 0 => life = "quarantined")
    OBVIOUS
  <2>2. Terminalized(s) = [s EXCEPT !.life = life]
    BY <1>2 DEF Terminalized
  <2> HIDE DEF life
  <2>3. life \in Lives
    BY <2>1 DEF Lives
  <2>4. s.count \in Nat
    BY DEF Row
  <2>5. LET t == Terminalized(s)
        IN t \in Row /\ t.start = s.start /\ t.limit = s.limit /\ t.count = s.count /\ t.life = life
    BY <2>2, <2>3, RowLives
  <2> QED BY <1>2, <2>1, <2>4, <2>5 DEF Open, OpenLives, Full
<1> QED BY <1>1, <1>2

LEMMA QuarantinedRow ==
    ASSUME NEW s \in Row
    PROVE  /\ Quarantined(s) \in Row /\ Quarantined(s).start = s.start /\ Quarantined(s).limit = s.limit
           /\ Quarantined(s).count = s.count /\ Quarantined(s).life = "quarantined"
           /\ ~Open(Quarantined(s))
<1>1. "quarantined" \in Lives
  BY DEF Lives
<1> QED BY <1>1, RowLives DEF Quarantined, Open, OpenLives

(* One row becomes another one of the same records.                           *)
LEMMA EditKeeps ==
    ASSUME RowsOK, NEW k \in Ids, NEW row \in Row, sources' = [sources EXCEPT ![k] = row],
           row.start = sources[k].start, row.limit = sources[k].limit, row.count = sources[k].count,
           Open(row) => Open(sources[k]), Open(sources[k]) \/ row = sources[k],
           row.life \in Full => sources[k].count > 0
    PROVE  /\ Keeps /\ sources'[k] = row /\ \A i \in Ids : i # k => sources'[i] = sources[i]
<1>1. /\ sources' \in Seq(Row) /\ Ids' = Ids
      /\ sources'[k] = row /\ \A i \in Ids : i # k => sources'[i] = sources[i]
  BY RowFacts, RowEdit
<1> QED BY <1>1, RowFacts DEF Keeps

(* Every row is settled, or some are.                                          *)
LEMMA MapKeeps ==
    ASSUME RowsOK, NEW ids \in SUBSET Ids,
           sources' = [i \in DOMAIN sources |-> IF i \in ids THEN Terminalized(sources[i]) ELSE sources[i]]
    PROVE  /\ Keeps
           /\ \A i \in ids : ~Open(sources'[i])
           /\ \A i \in Ids : sources'[i] = sources[i] \/ i \in ids
           /\ \A i \in Ids : ~IsOpen(i) => sources'[i] = sources[i]
<1>1. \A i \in Ids : sources'[i] = (IF i \in ids THEN Terminalized(sources[i]) ELSE sources[i])
  BY DEF Ids
<1>2. \A i \in Ids : sources'[i] \in Row
  BY <1>1, RowFacts, TerminalizedRow
<1>3. sources' = [i \in Ids |-> sources'[i]]
  BY <1>1 DEF Ids
<1>4. sources' \in Seq(Row) /\ DOMAIN sources' = Ids
  BY <1>2, <1>3, RowFacts, RowMap
<1>5. Ids' = Ids
  BY <1>4 DEF Ids
<1>6. ASSUME NEW i \in Ids
      PROVE  /\ sources'[i].start = sources[i].start /\ sources'[i].limit = sources[i].limit
             /\ sources'[i].count = sources[i].count
             /\ Open(sources'[i]) => Open(sources[i])
             /\ Open(sources[i]) \/ sources'[i] = sources[i]
             /\ sources'[i].life \in Full => sources[i].count > 0
             /\ i \in ids => ~Open(sources'[i])
  BY <1>1, RowFacts, TerminalizedRow
<1> QED BY <1>1, <1>4, <1>5, <1>6 DEF Keeps, IsOpen

LEMMA QuarantineAllKeeps ==
    ASSUME RowsOK,
           sources' = [i \in DOMAIN sources |->
                         IF i \in OpenSources THEN Quarantined(sources[i]) ELSE sources[i]]
    PROVE  Keeps /\ \A i \in Ids : ~Open(sources'[i])
<1>0. \A i \in Ids : i \in OpenSources <=> Open(sources[i])
  BY DEF OpenSources, Ids
<1>1. \A i \in Ids : sources'[i] = (IF i \in OpenSources THEN Quarantined(sources[i]) ELSE sources[i])
  BY DEF Ids
<1>2. \A i \in Ids : sources'[i] \in Row
  BY <1>1, RowFacts, QuarantinedRow
<1>3. sources' = [i \in Ids |-> sources'[i]]
  BY <1>1 DEF Ids
<1>4. sources' \in Seq(Row) /\ DOMAIN sources' = Ids
  BY <1>2, <1>3, RowFacts, RowMap
<1>5. Ids' = Ids
  BY <1>4 DEF Ids
<1>6. ASSUME NEW i \in Ids
      PROVE  /\ sources'[i].start = sources[i].start /\ sources'[i].limit = sources[i].limit
             /\ sources'[i].count = sources[i].count
             /\ ~Open(sources'[i])
             /\ Open(sources[i]) \/ sources'[i] = sources[i]
             /\ sources'[i].life \in Full => sources[i].count > 0
  BY <1>0, <1>1, RowFacts, QuarantinedRow DEF Full
<1> QED BY <1>1, <1>4, <1>5, <1>6 DEF Keeps

LEMMA PublishKeeps ==
    ASSUME RowsOK, PublishCohort
    PROVE  Keeps /\ \A i \in Ids : Open(sources[i]) => sources'[i] = sources[i]
<1>0. \A i \in Ids : i \in SealedSources <=> sources[i].life = "sealed_waiting"
  BY DEF SealedSources, Ids
<1>1. \A i \in Ids : sources'[i] = (IF i \in SealedSources /\ Frontier(sources[i]) <= closure.next
                     THEN [sources[i] EXCEPT !.life = "published"] ELSE sources[i])
  BY DEF Ids, PublishCohort
<1>2. "published" \in Lives
  BY DEF Lives
<1>3. ASSUME NEW i \in Ids
      PROVE  /\ sources'[i] \in Row
             /\ sources'[i].start = sources[i].start /\ sources'[i].limit = sources[i].limit
             /\ sources'[i].count = sources[i].count
             /\ \/ sources'[i] = sources[i]
                \/ sources[i].life = "sealed_waiting" /\ sources'[i].life = "published"
  <2>1. CASE i \in SealedSources /\ Frontier(sources[i]) <= closure.next
    <3>1. sources'[i] = [sources[i] EXCEPT !.life = "published"] /\ sources[i].life = "sealed_waiting"
      BY <1>0, <1>1, <2>1
    <3>2. sources[i] \in Row
      BY RowFacts
    <3> QED BY <1>2, <3>1, <3>2, RowLives
  <2>2. CASE ~(i \in SealedSources /\ Frontier(sources[i]) <= closure.next)
    BY <1>1, <2>2, RowFacts
  <2> QED BY <2>1, <2>2
<1>4. sources' = [i \in Ids |-> sources'[i]]
  BY <1>1 DEF Ids, PublishCohort
<1>5. sources' \in Seq(Row) /\ DOMAIN sources' = Ids
  BY <1>3, <1>4, RowFacts, RowMap
<1>6. Ids' = Ids
  BY <1>5 DEF Ids
<1> QED BY <1>3, <1>5, <1>6, RowFacts DEF Keeps, Full, Open, OpenLives

(* The source that is being read.                                              *)
LEMMA ReadingFacts ==
    ASSUME RowsOK, Shapes, Places, BatchOK, pc = "reading"
    PROVE  /\ batch.src \in Ids /\ Open(BatchSource) /\ BatchSource \in Row
           /\ BatchSource.start \in Nat /\ BatchSource.limit \in Nat /\ BatchSource.count \in Nat
           /\ Frontier(BatchSource) = BatchSource.start + BatchSource.count
           /\ Frontier(BatchSource) <= recv /\ recv \in Nat /\ recv <= batch.end
           /\ batch.end \in Int /\ batch.end <= BatchSource.limit
           /\ batch.prefix \in Int /\ batch.prefix <= Frontier(BatchSource)
           /\ BatchSource.life \in {"leg_prepared", "receiving"}
<1>1. batch # NoBatch /\ ~batch.sealed
  BY DEF Places
<1>2. batch.src \in Ids /\ Open(BatchSource)
  BY <1>1 DEF BatchOK, IsOpen, BatchSource
<1>3. recv \in Nat /\ batch.end \in Int /\ batch.prefix \in Int
  BY MaxSequenceAssumption DEF Shapes, BatchType, Sequence
<1> QED BY <1>1, <1>2, <1>3, RowFacts DEF BatchOK, BatchSource, End

LEMMA GrowRow ==
    ASSUME NEW s \in Row, NEW n \in Nat, NEW t \in BOOLEAN, NEW life \in Lives
    PROVE  LET q == [s EXCEPT !.count = n, !.tail = t]
               r == [s EXCEPT !.life = life, !.count = n, !.tail = t]
           IN /\ q \in Row /\ q.start = s.start /\ q.limit = s.limit /\ q.count = n /\ q.life = s.life
              /\ r \in Row /\ r.start = s.start /\ r.limit = s.limit /\ r.count = n /\ r.life = life
BY DEF Row

LEMMA EditGrows ==
    ASSUME RowsOK, batch.src \in Ids, NEW row \in Row,
           sources' = [sources EXCEPT ![batch.src] = row],
           row.start = BatchSource.start, row.limit = BatchSource.limit,
           BatchSource.count <= row.count, Frontier(row) <= row.limit,
           Open(BatchSource), Open(row)
    PROVE  Grows /\ sources'[batch.src] = row
<1>1. /\ sources' \in Seq(Row) /\ Ids' = Ids
      /\ sources'[batch.src] = row /\ \A i \in Ids : i # batch.src => sources'[i] = sources[i]
  BY RowFacts, RowEdit
<1> QED BY <1>1 DEF Grows, BatchSource

LEMMA StoreGrows ==
    ASSUME RowsOK, Shapes, Places, BatchOK, StoreRecord
    PROVE  /\ Grows /\ sources'[batch.src].count = BatchSource.count + 1
           /\ sources'[batch.src].life = "receiving"
<1> DEFINE row == [BatchSource EXCEPT !.count = BatchSource.count + 1, !.tail = FALSE]
<1>1. pc = "reading" /\ BatchSource.life = "receiving" /\ Frontier(BatchSource) < recv
      /\ sources' = [sources EXCEPT ![batch.src] = row]
  BY DEF StoreRecord, BatchSource
<1>2. BatchSource \in Row /\ BatchSource.count + 1 \in Nat /\ FALSE \in BOOLEAN
  BY <1>1, ReadingFacts
<1>3. row \in Row /\ row.start = BatchSource.start /\ row.limit = BatchSource.limit
      /\ row.count = BatchSource.count + 1 /\ row.life = BatchSource.life
  BY <1>2, GrowRow DEF Row
<1> HIDE DEF row
<1>4. Frontier(row) <= row.limit /\ Open(row) /\ BatchSource.count <= row.count
  BY <1>1, <1>3, ReadingFacts DEF Frontier, Open
<1>5. Grows /\ sources'[batch.src] = row
  BY <1>1, <1>3, <1>4, ReadingFacts, EditGrows
<1> QED BY <1>1, <1>3, <1>5

LEMMA DoneGrows ==
    ASSUME RowsOK, Shapes, Places, BatchOK, ReadDone
    PROVE  /\ Grows /\ Frontier(sources'[batch.src]) = recv
           /\ sources'[batch.src].life = "receiving"
<1> DEFINE n == recv - BatchSource.start
<1> DEFINE row == [BatchSource EXCEPT !.count = n, !.tail = FALSE]
<1>1. pc = "reading" /\ BatchSource.life = "receiving"
      /\ sources' = [sources EXCEPT ![batch.src] = row]
  BY DEF ReadDone, BatchSource
<1>2. BatchSource \in Row /\ n \in Nat /\ FALSE \in BOOLEAN /\ BatchSource.count <= n
  BY <1>1, ReadingFacts
<1>3. row \in Row /\ row.start = BatchSource.start /\ row.limit = BatchSource.limit
      /\ row.count = n /\ row.life = BatchSource.life
  BY <1>2, GrowRow DEF Row
<1>4. Frontier(row) = recv
  BY <1>1, <1>3, ReadingFacts DEF Frontier
<1> HIDE DEF row
<1>5. Frontier(row) <= row.limit /\ Open(row)
  BY <1>1, <1>3, <1>4, ReadingFacts DEF Open
<1> HIDE DEF n
<1> QED BY <1>1, <1>2, <1>3, <1>4, <1>5, ReadingFacts, EditGrows

(* An interruption, of a session or of the process.                            *)
LEMMA InterruptGrows ==
    ASSUME RowsOK, Shapes, Places, BatchOK, pc = "reading", NEW tail \in BOOLEAN,
           sources' = [sources EXCEPT ![batch.src] = Interrupted(BatchSource, recv, tail)]
    PROVE  /\ Grows /\ sources'[batch.src] = Interrupted(BatchSource, recv, tail)
           /\ BatchSource.count <= sources'[batch.src].count
<1> DEFINE row == Interrupted(BatchSource, recv, tail)
<1>1. CASE BatchSource.life # "receiving"
  <2>1. row = BatchSource
    BY <1>1 DEF Interrupted
  <2>2. Frontier(row) <= row.limit
    BY <2>1, ReadingFacts, RowFacts DEF End, BatchSource
  <2> HIDE DEF row
  <2>3. BatchSource.count <= row.count
    BY <2>1, ReadingFacts
  <2>4. row \in Row /\ sources' = [sources EXCEPT ![batch.src] = row]
    BY <2>1, ReadingFacts DEF row
  <2>5. Grows /\ sources'[batch.src] = row
    BY <2>1, <2>2, <2>3, <2>4, ReadingFacts, EditGrows
  <2> QED BY <2>3, <2>5 DEF row
<1>2. CASE BatchSource.life = "receiving"
  <2> DEFINE n == recv - BatchSource.start
  <2> DEFINE t == (tail /\ recv < BatchSource.limit)
  <2>1. row = [BatchSource EXCEPT !.life = "interrupted", !.count = n, !.tail = t]
    BY <1>2 DEF Interrupted
  <2>2. BatchSource \in Row /\ n \in Nat /\ t \in BOOLEAN /\ BatchSource.count <= n
    BY ReadingFacts
  <2>3. "interrupted" \in Lives /\ "interrupted" \in OpenLives
    BY DEF Lives, OpenLives
  <2> HIDE DEF t, row, n
  <2>4. row \in Row /\ row.start = BatchSource.start /\ row.limit = BatchSource.limit
        /\ row.count = n /\ row.life = "interrupted"
    BY <2>1, <2>2, <2>3 DEF Row
  <2>5. Frontier(row) = recv
    BY <2>4, ReadingFacts DEF Frontier, n
  <2>6. Frontier(row) <= row.limit /\ Open(row)
    BY <2>3, <2>4, <2>5, ReadingFacts DEF Open
  <2>7. sources' = [sources EXCEPT ![batch.src] = row]
    BY DEF row
  <2>8. Grows /\ sources'[batch.src] = row
    BY <2>2, <2>4, <2>6, <2>7, ReadingFacts, EditGrows
  <2> QED BY <2>2, <2>4, <2>8 DEF row
<1> QED BY <1>1, <1>2

-----------------------------------------------------------------------------
(* A batch is admitted: the open source is taken up, or a new one is made.       *)

AdmitStart == IF pending = NoPending THEN info.read ELSE sources[pending.src].start
AdmitEnd == IF pending = NoPending THEN BatchEnd ELSE PendingEnd

LEMMA ResumedRow ==
    ASSUME NEW s \in Row, Open(s)
    PROVE  /\ Resumed(s) \in Row /\ Resumed(s).start = s.start /\ Resumed(s).limit = s.limit
           /\ Resumed(s).count = s.count /\ Open(Resumed(s)) /\ Resumed(s).life \notin Full
<1>1. "interrupted" \in Lives /\ "interrupted" \in OpenLives
  BY DEF Lives, OpenLives
<1>2. s.life \in OpenLives
  BY DEF Open
<1>3. CASE s.life = "receiving"
  BY <1>1, <1>3, RowLives DEF Resumed, Open, Full
<1>4. CASE s.life # "receiving"
  BY <1>2, <1>4 DEF Resumed, Open, OpenLives, Full
<1> QED BY <1>3, <1>4

LEMMA AdmitBounds ==
    ASSUME RowsOK, Shapes, Places, PendingOK, AdmitBatch
    PROVE  /\ AdmitStart \in Nat /\ AdmitEnd \in Nat
           /\ AdmitStart < AdmitEnd /\ AdmitEnd <= dev.write
           /\ info.read \in Nat /\ (pending = NoPending => info.read = AdmitStart)
           /\ pending # NoPending => /\ pending.src \in Ids /\ IsOpen(pending.src)
                                     /\ pending.next = End(pending.src)
<1>1. pc = "step" /\ batch = NoBatch /\ info # NoInfo
  BY DEF AdmitBatch, Places
<1>2. info.read \in Nat /\ info.write \in Int /\ info.read <= info.write /\ info.write <= dev.write
      /\ dev.write \in Nat
  BY <1>1 DEF Shapes, InfoType
<1>3. CASE pending = NoPending
  <2>1. info.read < info.write /\ AdmitStart = info.read /\ AdmitEnd = BatchEnd
    BY <1>3 DEF AdmitBatch, AdmitStart, AdmitEnd
  <2>2. BatchEnd \in Nat /\ info.read < BatchEnd /\ BatchEnd <= info.write
    BY <1>2, <2>1, BatchRecordsAssumption DEF BatchEnd
  <2> QED BY <1>2, <1>3, <2>1, <2>2
<1>4. CASE pending # NoPending
  <2>1. pending.src \in Ids /\ IsOpen(pending.src) /\ pending.next = End(pending.src)
    BY <1>1, <1>4 DEF PendingOK
  <2>2. AdmitStart = sources[pending.src].start /\ AdmitEnd = sources[pending.src].limit
    BY <1>4 DEF AdmitStart, AdmitEnd, PendingEnd
  <2> QED BY <1>2, <1>4, <2>1, <2>2, RowFacts
<1> QED BY <1>3, <1>4

(* The two outcomes, with the source k of the batch.                           *)
Admits(k) ==
    /\ batch' = [src |-> k, start |-> AdmitStart, end |-> AdmitEnd,
                 prefix |-> Frontier(sources'[k]), sealed |-> FALSE]
    /\ recv' = ArenaStart(AdmitEnd)
    /\ pending # NoPending => Frontier(sources'[k]) = pending.next

LEMMA AdmitCases ==
    ASSUME RowsOK, Shapes, OneOpen, Places, PendingOK, AdmitBatch
    PROVE  \E k \in Ids' :
              /\ Admits(k) /\ Open(sources'[k])
              /\ \/ /\ Keeps /\ k \in Ids /\ Open(sources[k])
                    /\ sources'[k].count = sources[k].count
                    /\ pending # NoPending => k = pending.src
                 \/ /\ Adds /\ k = Len(sources) + 1 /\ pending = NoPending
                    /\ sources' = Append(sources, NewSource(AdmitStart, AdmitEnd))
<1>1. CASE OpenSources = {}
  <2>1. ResumedSource = 0
    BY <1>1 DEF ResumedSource
  <2>2. \A i \in Ids : ~IsOpen(i)
    BY <1>1 DEF OpenSources, Ids, IsOpen
  <2>3. pending = NoPending
    BY <2>2, AdmitBounds
  <2> DEFINE rows == Append(sources, NewSource(AdmitStart, AdmitEnd))
  <2> DEFINE k == Len(rows)
  <2>4. sources' = rows /\ Admits(k)
    BY <2>1 DEF AdmitBatch, Admits, AdmitStart, AdmitEnd
  <2>5. NewSource(AdmitStart, AdmitEnd) \in Row /\ Open(NewSource(AdmitStart, AdmitEnd))
    <3>1. "prepared" \in Lives /\ "prepared" \in OpenLives
      BY DEF Lives, OpenLives
    <3> QED BY <3>1, AdmitBounds DEF NewSource, Row, Open
  <2>6. k = Len(sources) + 1 /\ rows[k] = NewSource(AdmitStart, AdmitEnd) /\ k \in DOMAIN rows
    BY <2>5, RowFacts
  <2>7. Adds
    BY <2>2, <2>4, AdmitBounds DEF Adds
  <2>8. k \in Ids' /\ Open(sources'[k])
    BY <2>4, <2>5, <2>6 DEF Ids
  <2> QED BY <2>3, <2>4, <2>6, <2>7, <2>8
<1>2. CASE OpenSources # {}
  <2> DEFINE k == ResumedSource
  <2>1. k \in OpenSources
    BY <1>2 DEF ResumedSource
  <2>2. k \in Ids /\ Open(sources[k]) /\ k # 0
    BY <2>1, RowFacts DEF OpenSources, Ids
  <2> DEFINE row == Resumed(sources[k])
  <2>3. sources' = [sources EXCEPT ![k] = row]
    BY <2>2 DEF AdmitBatch
  <2>4. batch' = [src |-> k, start |-> AdmitStart, end |-> AdmitEnd,
                  prefix |-> Frontier(sources'[k]), sealed |-> FALSE]
        /\ recv' = ArenaStart(AdmitEnd)
        /\ (pending # NoPending => Frontier(sources'[k]) = pending.next)
    BY <2>2 DEF AdmitBatch, AdmitStart, AdmitEnd
  <2>5. Admits(k)
    BY <2>4 DEF Admits
  <2> HIDE DEF k
  <2>6. row \in Row /\ row.start = sources[k].start /\ row.limit = sources[k].limit
        /\ row.count = sources[k].count /\ Open(row) /\ row.life \notin Full
    BY <2>2, RowFacts, ResumedRow
  <2> HIDE DEF row
  <2>7. Keeps /\ sources'[k] = row
    BY <2>2, <2>3, <2>6, EditKeeps
  <2>8. k \in Ids'
    BY <2>2, <2>7 DEF Keeps
  <2>9. pending # NoPending => k = pending.src
    BY <2>2, AdmitBounds DEF OneOpen, IsOpen
  <2> QED BY <2>2, <2>5, <2>6, <2>7, <2>8, <2>9
<1> QED BY <1>1, <1>2

-----------------------------------------------------------------------------
(* The actions that settle the open source.                                    *)

ClosesAll == Keeps /\ \A i \in Ids : ~Open(sources'[i])

LEMMA EditCloses ==
    ASSUME RowsOK, OneOpen, NEW k \in Ids, NEW row \in Row, sources' = [sources EXCEPT ![k] = row],
           row.start = sources[k].start, row.limit = sources[k].limit, row.count = sources[k].count,
           ~Open(row), Open(sources[k]), row.life \in Full => sources[k].count > 0
    PROVE  ClosesAll /\ sources'[k] = row
<1>1. Keeps /\ sources'[k] = row /\ \A i \in Ids : i # k => sources'[i] = sources[i]
  BY EditKeeps
<1> QED BY <1>1 DEF ClosesAll, OneOpen, IsOpen

LEMMA QuarantineCloses ==
    ASSUME RowsOK, OneOpen, NEW k \in Ids, Open(sources[k]),
           sources' = [sources EXCEPT ![k] = Quarantined(sources[k])]
    PROVE  ClosesAll
<1> DEFINE row == Quarantined(sources[k])
<1>1. row \in Row /\ row.start = sources[k].start /\ row.limit = sources[k].limit
      /\ row.count = sources[k].count /\ ~Open(row) /\ row.life \notin Full
  BY RowFacts, QuarantinedRow DEF Full
<1>2. sources' = [sources EXCEPT ![k] = row]
  OBVIOUS
<1> HIDE DEF row
<1> QED BY <1>1, <1>2, EditCloses

LEMMA TerminalizeCloses ==
    ASSUME RowsOK, OneOpen, NEW k \in Ids, Open(sources[k]),
           sources' = [sources EXCEPT ![k] = Terminalized(sources[k])]
    PROVE  ClosesAll
<1> DEFINE row == Terminalized(sources[k])
<1>1. row \in Row /\ row.start = sources[k].start /\ row.limit = sources[k].limit
      /\ row.count = sources[k].count /\ ~Open(row) /\ (row.life \in Full => sources[k].count > 0)
  BY RowFacts, TerminalizedRow
<1>2. sources' = [sources EXCEPT ![k] = row]
  OBVIOUS
<1> HIDE DEF row
<1> QED BY <1>1, <1>2, EditCloses

(* The source of a batch that is not sealed.                                   *)
LEMMA UnsealedFacts ==
    ASSUME RowsOK, BatchOK, batch # NoBatch, ~batch.sealed
    PROVE  batch.src \in Ids /\ Open(BatchSource) /\ BatchSource \in Row /\ BatchSource = sources[batch.src]
BY RowFacts DEF BatchOK, IsOpen, BatchSource

LEMMA PendingCloses ==
    ASSUME RowsOK, OneOpen, PendingOK, QuarantinePending
    PROVE  ClosesAll
<1>1. pending.src \in Ids /\ Open(sources[pending.src])
      /\ sources' = [sources EXCEPT ![pending.src] = Quarantined(sources[pending.src])]
  BY DEF QuarantinePending, PendingOK, IsOpen
<1> QED BY <1>1, QuarantineCloses

LEMMA DiscontinuousCloses ==
    ASSUME RowsOK, OneOpen, BatchOK, QuarantineDiscontinuous
    PROVE  ClosesAll
<1>1. batch # NoBatch /\ ~batch.sealed
      /\ sources' = [sources EXCEPT ![batch.src] = Quarantined(sources[batch.src])]
  BY DEF QuarantineDiscontinuous, Reconciling
<1> QED BY <1>1, UnsealedFacts, QuarantineCloses

LEMMA RetireCloses ==
    ASSUME RowsOK, OneOpen, Places, BatchOK, RetirePrefix
    PROVE  ClosesAll
<1>1. batch # NoBatch /\ ~batch.sealed
      /\ sources' = [sources EXCEPT ![batch.src] = Terminalized(sources[batch.src])]
  BY DEF RetirePrefix, Places
<1> QED BY <1>1, UnsealedFacts, TerminalizeCloses

LEMMA SealCloses ==
    ASSUME RowsOK, OneOpen, Places, BatchOK, SealBatch
    PROVE  ClosesAll /\ sources'[batch.src].life = "sealed_waiting"
<1> DEFINE row == [sources[batch.src] EXCEPT !.life = "sealed_waiting"]
<1>1. batch # NoBatch /\ ~batch.sealed /\ sources' = [sources EXCEPT ![batch.src] = row]
      /\ Frontier(BatchSource) = BatchSource.limit
  BY DEF SealBatch, Places, CanSeal
<1>2. batch.src \in Ids /\ Open(BatchSource) /\ BatchSource \in Row /\ BatchSource = sources[batch.src]
  BY <1>1, UnsealedFacts
<1>3. BatchSource.count > 0
  BY <1>1, <1>2, RowFacts DEF End, BatchSource
<1>4. "sealed_waiting" \in Lives /\ "sealed_waiting" \notin OpenLives
  BY DEF Lives, OpenLives
<1>5. row \in Row /\ row.start = sources[batch.src].start /\ row.limit = sources[batch.src].limit
      /\ row.count = sources[batch.src].count /\ row.life = "sealed_waiting"
  BY <1>2, <1>4, RowLives
<1> HIDE DEF row
<1>6. ClosesAll /\ sources'[batch.src] = row
  BY <1>1, <1>2, <1>3, <1>4, <1>5, EditCloses DEF Open
<1> QED BY <1>5, <1>6

LEMMA LiveCloses ==
    ASSUME RowsOK, OneOpen, BatchOK, CloseLive
    PROVE  \/ ClosesAll /\ ~batch.sealed /\ BatchSource.count > 0
           \/ UNCHANGED sources /\ (batch.sealed \/ BatchSource.count = 0)
<1>1. batch # NoBatch
  BY DEF CloseLive
<1>2. CASE ~batch.sealed /\ BatchSource.count > 0
  <2>1. sources' = [sources EXCEPT ![batch.src] = Terminalized(sources[batch.src])]
    BY <1>2 DEF CloseLive
  <2> QED BY <1>1, <1>2, <2>1, UnsealedFacts, TerminalizeCloses
<1>3. CASE ~(~batch.sealed /\ BatchSource.count > 0)
  <2>1. UNCHANGED sources
    BY <1>3 DEF CloseLive
  <2>2. batch.sealed \/ BatchSource.count = 0
    <3>1. batch.src \in Ids
      BY <1>1 DEF BatchOK
    <3> QED BY <1>3, <3>1, RowFacts DEF BatchSource
  <2> QED BY <2>1, <2>2
<1> QED BY <1>2, <1>3

(* close_pending_prefix settles every source it takes into account.             *)
LEMMA StoredCloses ==
    ASSUME RowsOK, Shapes, CloseStored
    PROVE  /\ Keeps
           /\ visit.reason # "restart_interrupted" => \A i \in Ids : ~Open(sources'[i])
           /\ visit' = [visit EXCEPT !.next = visit'.next]
           /\ \/ visit'.next = None /\ \A i \in Ids : sources[i].life # "sealed_waiting"
                                                      /\ sources'[i].life # "sealed_waiting"
              \/ /\ visit'.next \in Nat
                 /\ \E i \in Ids : ~Open(sources'[i]) /\ End(i) = visit'.next
                 /\ \A i \in Ids : sources'[i].life = "sealed_waiting" => End(i) <= visit'.next
<1> DEFINE ids == SealedSources \cup (IF visit.reason = "restart_interrupted" THEN {} ELSE OpenSources)
<1>1. /\ sources' = [i \in DOMAIN sources |->
                       IF i \in ids THEN Terminalized(sources[i]) ELSE sources[i]]
      /\ visit' = [visit EXCEPT !.next = IF ids = {} THEN None ELSE MaxFrontier(ids)]
  BY DEF CloseStored
<1>2. ids \subseteq Ids /\ (\A i \in Ids : sources[i].life = "sealed_waiting" => i \in ids)
      /\ (visit.reason # "restart_interrupted" => \A i \in Ids : Open(sources[i]) => i \in ids)
  BY DEF Ids, SealedSources, OpenSources
<1> HIDE DEF ids
<1>3. /\ Keeps /\ \A i \in ids : ~Open(sources'[i])
      /\ \A i \in Ids : sources'[i] = sources[i] \/ i \in ids
      /\ \A i \in Ids : ~IsOpen(i) => sources'[i] = sources[i]
  BY <1>1, <1>2, MapKeeps
<1>4. visit.reason # "restart_interrupted" => \A i \in Ids : ~Open(sources'[i])
  BY <1>2, <1>3 DEF IsOpen
<1>5. \A i \in Ids : sources'[i].life = "sealed_waiting" => i \in ids
  BY <1>2, <1>3
<1>6. CASE ids = {}
  BY <1>1, <1>2, <1>3, <1>4, <1>5, <1>6 DEF Shapes, VisitType
<1>7. CASE ids # {}
  <2> DEFINE T == {Frontier(sources[i]) : i \in ids}
  <2>1. T \in SUBSET (0 .. MaxSequence) /\ T # {}
    <3>1. ASSUME NEW i \in ids PROVE Frontier(sources[i]) \in 0 .. MaxSequence
      BY SMTT(30), <1>2, RowFacts, MaxSequenceAssumption DEF End, Shapes
    <3> QED BY <1>7, <3>1
  <2>2. PICK n \in T : \A m \in T : m <= n
    BY <2>1, Greatest, MaxSequenceAssumption
  <2>3. n \in T /\ \A i \in ids : Frontier(sources[i]) <= n
    BY <2>2
  <2>4. /\ MaxFrontier(ids) \in T
        /\ \A i \in ids : Frontier(sources[i]) <= MaxFrontier(ids)
    BY <2>3 DEF MaxFrontier
  <2>5. PICK k \in ids : MaxFrontier(ids) = Frontier(sources[k])
    BY <2>4
  <2>6. MaxFrontier(ids) \in Nat
    BY <2>1, <2>4
  <2>7. visit' = [visit EXCEPT !.next = MaxFrontier(ids)]
    BY <1>1, <1>7
  <2> QED BY <1>2, <1>3, <1>4, <1>5, <2>4, <2>5, <2>6, <2>7 DEF End, Shapes, VisitType
<1> QED BY <1>6, <1>7

-----------------------------------------------------------------------------
(* What every step does to the rows.                                           *)

Base == RowsOK /\ Shapes /\ OneOpen /\ Places /\ BatchOK /\ PendingOK

(* Steps that leave the rows alone.                                            *)
Still ==
    \/ Environment \/ AttemptGranted \/ Connect \/ FreshInfo \/ RingEmpty \/ RecordLoss
    \/ AlreadyComplete \/ LegRefused \/ ReceiveRecord \/ SealRefused \/ ResumeSealed
    \/ CursorInfo \/ CursorRejected \/ SendAdvance \/ ConfirmDrain \/ MergeClosure
    \/ AppendClosure \/ ClosureRefused \/ Restart \/ RecoveryEnded \/ CandidateUnavailable
    \/ ConnectFails \/ AdvanceIgnored \/ Crash

LEMMA StillRows == ASSUME Still PROVE UNCHANGED sources
<1>1. CASE Environment
  BY <1>1 DEF Environment, DeviceRecords, DeviceMovesAhead, DeviceReboots, LinkLost, durable
<1>2. CASE AttemptGranted \/ Connect \/ FreshInfo \/ RingEmpty \/ RecordLoss \/ AlreadyComplete
  BY <1>2 DEF AttemptGranted, Connect, FreshInfo, RingEmpty, RecordLoss, AlreadyComplete, durable
<1>3. CASE LegRefused \/ ReceiveRecord \/ SealRefused \/ ResumeSealed \/ CursorInfo \/ CursorRejected
  BY <1>3 DEF LegRefused, ReceiveRecord, SealRefused, ResumeSealed, CursorInfo, CursorRejected, durable
<1>4. CASE SendAdvance \/ ConfirmDrain \/ MergeClosure \/ AppendClosure \/ ClosureRefused \/ Restart
  BY <1>4 DEF SendAdvance, ConfirmDrain, MergeClosure, AppendClosure, ClosureRefused, Restart, durable
<1>5. CASE RecoveryEnded \/ CandidateUnavailable \/ ConnectFails \/ AdvanceIgnored \/ Crash
  BY <1>5 DEF RecoveryEnded, CandidateUnavailable, ConnectFails, AdvanceIgnored, Crash, durable
<1> QED BY <1>1, <1>2, <1>3, <1>4, <1>5 DEF Still

LEMMA LegKeeps ==
    ASSUME Base, PrepareLeg \/ ReadBegin
    PROVE  /\ Keeps /\ batch.src \in Ids /\ Open(sources'[batch.src])
           /\ sources'[batch.src].life \in {"leg_prepared", "receiving"}
           /\ \A i \in Ids : i # batch.src => sources'[i] = sources[i]
<1>1. batch # NoBatch /\ ~batch.sealed
  BY DEF PrepareLeg, ReadBegin, ReadyToRead, Reconciling, Base, Places
<1>2. batch.src \in Ids /\ Open(sources[batch.src]) /\ sources[batch.src] \in Row
  BY <1>1, UnsealedFacts DEF Base
<1>3. PICK life \in {"leg_prepared", "receiving"} :
          sources' = [sources EXCEPT ![batch.src] = [sources[batch.src] EXCEPT !.life = life]]
  BY DEF PrepareLeg, ReadBegin
<1>4. life \in Lives /\ life \in OpenLives /\ life \notin Full
  BY DEF Lives, OpenLives, Full
<1>5. /\ Keeps /\ sources'[batch.src].life = life
      /\ \A i \in Ids : i # batch.src => sources'[i] = sources[i]
  BY <1>2, <1>3, <1>4, RowFacts, LifeKeeps DEF Base
<1> QED BY <1>2, <1>4, <1>5 DEF Open

LEMMA SessionRows ==
    ASSUME Base, SessionInterrupted
    PROVE  \/ /\ pc = "reading" /\ Grows
              /\ sources'[batch.src].count >= BatchSource.count
              /\ batch' = [batch EXCEPT !.prefix = Frontier(sources'[batch.src])]
              /\ frontier' = IF sources'[batch.src].count > 0
                             THEN Retain(Frontier(sources'[batch.src])) ELSE frontier
           \/ pc # "reading" /\ (batch = NoBatch \/ batch.sealed) /\ UNCHANGED <<sources, batch, frontier>>
<1>1. CASE pc = "reading"
  <2>1. batch # NoBatch /\ ~batch.sealed
    BY <1>1 DEF Base, Places
  <2>2. PICK tail \in BOOLEAN :
          LET s == Interrupted(BatchSource, recv, tail) IN
              /\ sources' = [sources EXCEPT ![batch.src] = s]
              /\ batch' = [batch EXCEPT !.prefix = Frontier(s)]
              /\ frontier' = IF s.count > 0 THEN Retain(Frontier(s)) ELSE frontier
    BY <2>1 DEF SessionInterrupted
  <2>3. /\ Grows /\ sources'[batch.src] = Interrupted(BatchSource, recv, tail)
        /\ BatchSource.count <= sources'[batch.src].count
    BY <1>1, <2>2, InterruptGrows DEF Base
  <2>4. BatchSource.count \in Nat /\ sources'[batch.src].count \in Nat
    <3>1. batch.src \in Ids /\ BatchSource.count \in Nat
      BY <1>1, ReadingFacts DEF Base
    <3>2. sources' \in Seq(Row) /\ batch.src \in DOMAIN sources'
      BY <2>3, <3>1 DEF Grows, Ids
    <3>3. sources'[batch.src] \in Row
      BY <3>2
    <3> QED BY <3>1, <3>3 DEF Row
  <2> QED BY <1>1, <2>2, <2>3, <2>4
<1>2. CASE pc # "reading"
  <2>1. batch = NoBatch \/ batch.sealed
    BY <1>2 DEF SessionInterrupted, Base, Places
  <2> QED BY <1>2, <2>1 DEF SessionInterrupted
<1> QED BY <1>1, <1>2

LEMMA ShutdownRows ==
    ASSUME Base, Shutdown
    PROVE  (Grows /\ pc = "reading") \/ UNCHANGED sources
<1>1. CASE pc = "reading"
  <2>1. PICK tail \in BOOLEAN :
          sources' = [sources EXCEPT ![batch.src] = Interrupted(BatchSource, recv, tail)]
    BY <1>1 DEF Shutdown, BatchSource
  <2> QED BY <1>1, <2>1, InterruptGrows DEF Base
<1>2. CASE pc # "reading"
  BY <1>2 DEF Shutdown
<1> QED BY <1>1, <1>2

LEMMA RecoveryRows ==
    ASSUME Base, LoadRecovery
    PROVE  \/ UNCHANGED sources
           \/ Keeps /\ (\A i \in Ids : ~Open(sources'[i])) /\ UNCHANGED closure /\ pc' = "wait"
<1>1. \/ UNCHANGED sources
      \/ /\ sources' = [i \in DOMAIN sources |->
                         IF i \in OpenSources THEN Quarantined(sources[i]) ELSE sources[i]]
         /\ UNCHANGED closure /\ pc' = "wait"
  BY DEF LoadRecovery
<1> QED BY <1>1, QuarantineAllKeeps DEF Base

(* Every step keeps the records of every source, extends the source that is    *)
(* being read, or adds an empty one.                                           *)
LEMMA Effects ==
    ASSUME Base, [Next]_vars
    PROVE  Keeps \/ (Grows /\ pc = "reading") \/ (Adds /\ AdmitBatch)
<1>1. CASE UNCHANGED sources
  BY <1>1, SameKeeps DEF Base
<1>2. CASE UNCHANGED vars
  BY <1>1, <1>2 DEF vars, durable
<1>3. CASE Still
  BY <1>1, <1>3, StillRows
<1>4. CASE LoadRecovery
  BY <1>1, <1>4, RecoveryRows
<1>5. CASE QuarantinePending \/ QuarantineDiscontinuous \/ RetirePrefix \/ SealBatch
  BY <1>5, PendingCloses, DiscontinuousCloses, RetireCloses, SealCloses DEF Base, ClosesAll
<1>6. CASE AdmitBatch
  BY <1>6, AdmitCases DEF Base
<1>7. CASE PrepareLeg \/ ReadBegin
  BY <1>7, LegKeeps
<1>8. CASE ReadDone \/ StoreRecord
  <2>1. pc = "reading"
    BY <1>8 DEF ReadDone, StoreRecord
  <2> QED BY <1>8, <2>1, DoneGrows, StoreGrows DEF Base
<1>9. CASE SessionInterrupted
  BY <1>1, <1>9, SessionRows
<1>10. CASE Shutdown
  BY <1>1, <1>10, ShutdownRows
<1>11. CASE CloseStored
  BY <1>11, StoredCloses DEF Base
<1>12. CASE CloseLive
  BY <1>1, <1>12, LiveCloses DEF Base, ClosesAll
<1>13. CASE PublishCohort
  BY <1>13, PublishKeeps DEF Base
<1> QED BY <1>2, <1>3, <1>4, <1>5, <1>6, <1>7, <1>8, <1>9, <1>10, <1>11, <1>12, <1>13
      DEF Next, Host, Other, Still

(* What a step leaves alone, variable by variable.                             *)
Frames ==
    /\ UNCHANGED dev \/ DeviceRecords \/ DeviceMovesAhead \/ DeviceReboots \/ SendAdvance
    /\ closure' \in {closure, Fenced(closure)} \/ PublishCohort \/ MergeClosure \/ AppendClosure
    /\ info' \in {info, NoInfo, dev}
    /\ UNCHANGED consumed \/ SendAdvance
    /\ UNCHANGED skipped \/ DeviceMovesAhead
    /\ UNCHANGED losses \/ RecordLoss
    /\ pending' \in {pending, NoPending} \/ LoadRecovery
    /\ link' \in {link, TRUE, FALSE}
    /\ faults' = faults \/ Fault
    /\ batch' \in {batch, NoBatch} \/ AdmitBatch \/ SessionInterrupted \/ ReadDone \/ SealBatch
    /\ recv' \in {recv, 0} \/ AdmitBatch \/ ReceiveRecord
    /\ \/ frontier' \in {frontier, None} \/ LoadRecovery \/ RetirePrefix
       \/ CursorInfo \/ SessionInterrupted \/ CloseLive
    /\ \/ visit' \in {visit, Idle, Waiting, Recovering} \/ ConfirmDrain \/ CloseStored
       \/ MergeClosure \/ AppendClosure
       \/ LoadRecovery \/ AttemptGranted \/ RecoveryEnded \/ CandidateUnavailable \/ ConnectFails

LEMMA FramesHold == ASSUME [Next]_vars PROVE Frames
<1> USE DEF Frames, device, durable, volatile, Fatal, RetireBatch, CompleteBatch, Committed
<1>1. CASE UNCHANGED vars
  BY <1>1 DEF vars
<1>2. CASE Environment
  BY <1>2 DEF Environment, DeviceRecords, DeviceMovesAhead, DeviceReboots, LinkLost
<1>3. CASE LoadRecovery \/ AttemptGranted \/ Connect \/ FreshInfo \/ QuarantinePending \/ AdmitBatch
  BY <1>3 DEF LoadRecovery, AttemptGranted, Connect, FreshInfo, QuarantinePending, AdmitBatch
<1>4. CASE RingEmpty \/ QuarantineDiscontinuous \/ RecordLoss \/ RetirePrefix \/ AlreadyComplete
  BY <1>4 DEF RingEmpty, QuarantineDiscontinuous, RecordLoss, RetirePrefix, AlreadyComplete
<1>5. CASE PrepareLeg \/ LegRefused \/ ReadBegin \/ ReceiveRecord \/ ReadDone \/ SealBatch \/ SealRefused
  BY <1>5 DEF PrepareLeg, LegRefused, ReadBegin, ReceiveRecord, ReadDone, SealBatch, SealRefused
<1>6. CASE ResumeSealed \/ CursorInfo \/ CursorRejected \/ SendAdvance \/ ConfirmDrain
  BY <1>6 DEF ResumeSealed, CursorInfo, CursorRejected, SendAdvance, ConfirmDrain
<1>7. CASE SessionInterrupted \/ CloseStored \/ MergeClosure \/ CloseLive \/ AppendClosure
  BY <1>7 DEF SessionInterrupted, CloseStored, MergeClosure, CloseLive, AppendClosure
<1>8. CASE ClosureRefused \/ Restart \/ StoreRecord \/ PublishCohort \/ RecoveryEnded
  BY <1>8 DEF ClosureRefused, Restart, StoreRecord, PublishCohort, RecoveryEnded
<1>9. CASE CandidateUnavailable \/ ConnectFails \/ AdvanceIgnored \/ Crash \/ Shutdown
  BY <1>9 DEF CandidateUnavailable, ConnectFails, AdvanceIgnored, Crash, Shutdown
<1> QED BY <1>1, <1>2, <1>3, <1>4, <1>5, <1>6, <1>7, <1>8, <1>9 DEF Next, Host, Other

(* The ring keeps its shape, and what it has written.                          *)
DeviceOK == dev \in [read: Nat, write: Nat] /\ dev.read <= dev.write /\ dev.write <= MaxSequence

LEMMA DeviceStep ==
    ASSUME Base, Frames
    PROVE  DeviceOK' /\ dev.write <= dev'.write
<1>0. DeviceOK /\ dev.read \in Nat /\ dev.write \in Nat
  BY DEF DeviceOK, Base, Shapes
<1>1. CASE UNCHANGED dev
  BY <1>0, <1>1 DEF DeviceOK
<1>2. CASE DeviceRecords
  BY <1>0, <1>2, MaxSequenceAssumption DEF DeviceOK, DeviceRecords
<1>3. CASE DeviceMovesAhead
  <2>1. PICK to \in (dev.read + 1) .. dev.write : dev' = [dev EXCEPT !.read = to]
    BY <1>3 DEF DeviceMovesAhead
  <2> QED BY <1>0, <2>1 DEF DeviceOK
<1>4. CASE DeviceReboots
  <2>1. PICK to \in 0 .. (dev.read - 1) : dev' = [dev EXCEPT !.read = to]
    BY <1>4 DEF DeviceReboots
  <2> QED BY <1>0, <2>1 DEF DeviceOK
<1>5. CASE SendAdvance
  <2>1. batch # NoBatch
    BY <1>5 DEF Base, Places, SendAdvance
  <2>2. batch.end \in Int /\ batch.end <= dev.write
    BY <2>1 DEF Base, Shapes, BatchOK, BatchType
  <2> DEFINE to == IF batch.end > dev.read THEN batch.end ELSE dev.read
  <2>3. to \in Nat /\ to <= dev.write
    BY <1>0, <2>2 DEF DeviceOK
  <2>4. dev' = [dev EXCEPT !.read = to]
    BY <1>5 DEF SendAdvance, AdvanceTarget
  <2> HIDE DEF to
  <2> QED BY <1>0, <2>3, <2>4 DEF DeviceOK
<1> QED BY <1>1, <1>2, <1>3, <1>4, <1>5 DEF Frames

LEMMA AddedRow ==
    ASSUME RowsOK, Adds
    PROVE  \E start, limit \in Nat :
              /\ sources' \in Seq(Row) /\ Ids' = Ids \cup {Len(sources) + 1} /\ Len(sources) + 1 \notin Ids
              /\ sources'[Len(sources) + 1] = NewSource(start, limit)
              /\ Open(NewSource(start, limit))
              /\ start < limit /\ limit <= dev.write
              /\ \A i \in Ids : sources'[i] = sources[i] /\ ~Open(sources[i])
<1>1. PICK start, limit \in Nat :
          /\ sources' = Append(sources, NewSource(start, limit))
          /\ start < limit /\ limit <= dev.write
  BY DEF Adds
<1>2. "prepared" \in Lives /\ "prepared" \in OpenLives
  BY DEF Lives, OpenLives
<1>3. NewSource(start, limit) \in Row /\ Open(NewSource(start, limit))
  BY <1>2 DEF NewSource, Row, Open
<1>4. sources' \in Seq(Row) /\ Ids' = Ids \cup {Len(sources) + 1} /\ Len(sources) + 1 \notin Ids
      /\ sources'[Len(sources) + 1] = NewSource(start, limit)
      /\ \A i \in Ids : sources'[i] = sources[i]
  BY <1>1, <1>3, RowFacts DEF Ids
<1> QED BY <1>1, <1>3, <1>4 DEF Adds, IsOpen

LEMMA RowsStep ==
    ASSUME Base, [Next]_vars
    PROVE  RowsOK' /\ OneOpen'
<1>0. DeviceOK' /\ dev.write <= dev'.write /\ dev.write \in Nat /\ dev'.write \in Nat
  BY FramesHold, DeviceStep DEF Base, Shapes, DeviceOK
<1>2. CASE Keeps
  <2>1. ASSUME NEW i \in Ids' PROVE RowOK(sources[i])'
    <3>1. i \in Ids /\ sources'[i] \in Row /\ sources[i] \in Row /\ RowOK(sources[i])
      BY <1>2, <2>1, RowFacts DEF Keeps, Ids, Base, RowsOK
    <3>2. sources'[i].start = sources[i].start /\ sources'[i].limit = sources[i].limit
          /\ sources'[i].count = sources[i].count /\ (sources'[i].life \in Full => sources[i].count > 0)
      BY <1>2, <3>1 DEF Keeps
    <3> QED BY <1>0, <3>1, <3>2 DEF RowOK, Full, Row, Frontier
  <2>2. OneOpen'
    BY <1>2 DEF OneOpen, Keeps, Base, IsOpen
  <2> QED BY <1>2, <2>1, <2>2 DEF RowsOK, Keeps
<1>3. CASE Grows
  <2>1. ASSUME NEW i \in Ids' PROVE RowOK(sources[i])'
    <3>1. i \in Ids /\ sources'[i] \in Row /\ sources[i] \in Row /\ RowOK(sources[i])
      BY <1>3, <2>1, RowFacts DEF Grows, Ids, Base, RowsOK
    <3>2. CASE i # batch.src
      <4>1. sources'[i] = sources[i]
        BY <1>3, <3>1, <3>2 DEF Grows
      <4> QED BY <1>0, <3>1, <4>1 DEF RowOK, Row
    <3>3. CASE i = batch.src
      <4>1. Open(sources'[i]) /\ Frontier(sources'[i]) <= sources[i].limit
            /\ sources'[i].start = sources[i].start /\ sources'[i].limit = sources[i].limit
        BY <1>3, <3>1, <3>3 DEF Grows, BatchSource
      <4>2. sources'[i].life \notin Full
        BY <4>1 DEF Open, OpenLives, Full
      <4> QED BY <1>0, <3>1, <4>1, <4>2 DEF RowOK, Row, Full
    <3> QED BY <3>2, <3>3
  <2>2. \A i \in Ids : Open(sources'[i]) => Open(sources[i])
    BY <1>3 DEF Grows, BatchSource
  <2>3. OneOpen'
    BY <1>3, <2>2 DEF OneOpen, Grows, Base, IsOpen
  <2> QED BY <1>3, <2>1, <2>3 DEF RowsOK, Grows
<1>4. CASE Adds
  <2>1. PICK start, limit \in Nat :
              /\ sources' \in Seq(Row) /\ Ids' = Ids \cup {Len(sources) + 1} /\ Len(sources) + 1 \notin Ids
              /\ sources'[Len(sources) + 1] = NewSource(start, limit)
              /\ Open(NewSource(start, limit))
              /\ start < limit /\ limit <= dev.write
              /\ \A i \in Ids : sources'[i] = sources[i] /\ ~Open(sources[i])
    BY <1>4, AddedRow DEF Base
  <2>2. ASSUME NEW i \in Ids' PROVE RowOK(sources[i])'
    <3>1. CASE i \in Ids
      <4>1. sources'[i] = sources[i] /\ sources[i] \in Row /\ RowOK(sources[i])
        BY <2>1, <3>1, RowFacts DEF Base, RowsOK
      <4> QED BY <1>0, <4>1 DEF RowOK, Row
    <3>2. CASE i = Len(sources) + 1
      BY <1>0, <2>1, <3>2 DEF RowOK, NewSource, Frontier
    <3> QED BY <2>1, <2>2, <3>1, <3>2
  <2>3. OneOpen'
    BY <2>1 DEF OneOpen, IsOpen
  <2> QED BY <2>1, <2>2, <2>3 DEF RowsOK
<1> QED BY <1>2, <1>3, <1>4, Effects

-----------------------------------------------------------------------------
(* The shape of every variable.                                                *)

LEMMA ClosureShape ==
    ASSUME NEW c \in ClosureType, c # NoClosure => c.next \in Nat
    PROVE  /\ Fenced(c) \in ClosureType /\ (Fenced(c) # NoClosure => Fenced(c).next \in Nat)
           /\ Fenced(c).next = c.next /\ Fenced(c).reason # "drained"
           /\ Fenced(c) = NoClosure => c = NoClosure
BY DEF ClosureType, Fenced, NoClosure, None

LEMMA ClosureStep ==
    ASSUME Base, MergeOK, [Next]_vars, frontier # None => frontier \in Nat
    PROVE  closure' \in ClosureType /\ (closure' # NoClosure => closure'.next \in Nat)
<1>0. closure \in ClosureType /\ (closure # NoClosure => closure.next \in Nat)
  BY DEF Base, Shapes
<1>1. CASE closure' \in {closure, Fenced(closure)}
  BY <1>0, <1>1, ClosureShape
<1>2. CASE PublishCohort
  BY <1>2 DEF PublishCohort, NoClosure, ClosureType, None
<1>3. CASE MergeClosure
  <2>1. pc = "merge" /\ visit.reason \in {"drained", "absence", "recovery_exhausted", "restart_interrupted"}
    BY <1>3 DEF MergeClosure, Base, Places
  <2>2. visit.next \in Int /\ (visit.next # None => visit.next \in Nat)
    BY <2>1 DEF MergeOK, Base, Shapes, VisitType
  <2>3. closure' = IF visit.next = None THEN closure
                   ELSE RecoveredClosure(closure, visit.next, visit.reason)
    BY <1>3 DEF MergeClosure
  <2> QED BY <1>0, <2>1, <2>2, <2>3 DEF RecoveredClosure, ClosureType, NoClosure, None
<1>4. CASE AppendClosure
  <2>1. visit.reason \in {"drained", "absence", "recovery_exhausted", "restart_interrupted"}
    BY <1>4 DEF AppendClosure, Base, Places
  <2> QED BY <1>0, <1>4, <2>1 DEF AppendClosure, AppendedClosure, ClosureType, NoClosure, None
<1> QED BY <1>1, <1>2, <1>3, <1>4, FramesHold DEF Frames

LEMMA FrontierNat ==
    ASSUME Base, FrontierOK
    PROVE  frontier # None => frontier \in Nat /\ frontier <= MaxSequence
<1> SUFFICES ASSUME frontier # None PROVE frontier \in Nat /\ frontier <= MaxSequence
  OBVIOUS
<1>1. PICK i \in Ids : FrontierAt(i)
  BY DEF FrontierOK
<1>2. sources[i].start \in Nat /\ End(i) \in Nat /\ End(i) <= MaxSequence
  BY SMTT(30), RowFacts, MaxSequenceAssumption DEF Base, Shapes
<1>3. frontier \in Int
  BY DEF Base, Shapes
<1> QED BY <1>1, <1>2, <1>3, MaxSequenceAssumption DEF FrontierAt

(* The places in a batch where a number may be read from.                      *)
LEMMA BatchNumbers ==
    ASSUME Base, batch # NoBatch
    PROVE  /\ batch.src \in Ids /\ batch.start \in Int /\ batch.end \in Int /\ batch.prefix \in Int
           /\ batch.sealed \in BOOLEAN /\ batch.end <= dev.write /\ recv <= batch.end
           /\ BatchSource = sources[batch.src] /\ BatchSource \in Row
           /\ BatchSource.start \in Nat /\ BatchSource.count \in Nat /\ BatchSource.limit \in Nat
           /\ End(batch.src) = Frontier(BatchSource)
           /\ Frontier(BatchSource) = BatchSource.start + BatchSource.count
           /\ BatchSource.start < BatchSource.limit /\ Frontier(BatchSource) <= BatchSource.limit
           /\ batch.end \in Nat /\ recv \in Nat /\ dev.read \in Nat /\ dev.write \in Nat
<1>1. recv \in Nat /\ dev.read \in Nat /\ dev.write \in Nat
  BY MaxSequenceAssumption DEF Base, Shapes, Sequence
<1> QED BY <1>1, RowFacts DEF Base, BatchOK, Shapes, BatchType, BatchSource, End

LEMMA RetainInt ==
    ASSUME frontier \in Int, NEW n \in Int
    PROVE  Retain(n) \in Int /\ Retain(n) \in {n, frontier}
BY DEF Retain, None

(* The arena of an admitted batch.                                             *)
LEMMA ArenaBounds ==
    ASSUME Base, AdmitBatch
    PROVE  /\ ArenaStart(AdmitEnd) \in Nat /\ ArenaStart(AdmitEnd) <= AdmitEnd
           /\ pending = NoPending => ArenaStart(AdmitEnd) = AdmitStart
<1>1. AdmitStart \in Nat /\ AdmitEnd \in Nat /\ AdmitStart < AdmitEnd
  BY AdmitBounds DEF Base
<1>2. info.read \in Nat
  <2>1. pc = "step"
    BY DEF AdmitBatch
  <2> QED BY <2>1 DEF Base, Shapes, Places
<1>3. CASE pending = NoPending
  <2>1. AdmitStart = info.read
    BY <1>3 DEF AdmitStart
  <2> QED BY <1>1, <1>2, <1>3, <2>1 DEF ArenaStart
<1>4. CASE pending # NoPending
  <2>1. pending.src \in Ids /\ pending.next = End(pending.src)
    BY <1>4, AdmitBounds DEF Base
  <2>2. AdmitEnd = sources[pending.src].limit
    BY <1>4 DEF AdmitEnd, PendingEnd
  <2>3. pending.next \in Nat /\ pending.next <= AdmitEnd
    BY <2>1, <2>2, RowFacts DEF Base
  <2> QED BY <1>1, <1>2, <1>4, <2>3 DEF ArenaStart
<1> QED BY <1>3, <1>4

LEMMA IdsGrow ==
    ASSUME Base, [Next]_vars
    PROVE  /\ sources' \in Seq(Row) /\ Ids \subseteq Ids'
           /\ Len(sources) \in Nat /\ Len(sources') \in Nat /\ Len(sources) <= Len(sources')
           /\ Ids' = 1 .. Len(sources') /\ Ids = 1 .. Len(sources)
<1>1. RowsOK' /\ RowsOK
  BY RowsStep DEF Base
<1>2. sources' \in Seq(Row) /\ sources \in Seq(Row)
  BY <1>1 DEF RowsOK
<1>3. Ids' = 1 .. Len(sources') /\ Ids = 1 .. Len(sources) /\ Len(sources) \in Nat /\ Len(sources') \in Nat
  BY <1>2 DEF Ids
<1>4. Ids \subseteq Ids'
  BY Effects, AddedRow DEF Keeps, Grows, Base
<1>5. Len(sources) <= Len(sources')
  <2>1. CASE Len(sources) = 0
    BY <1>3, <2>1
  <2>2. CASE Len(sources) # 0
    <3>1. Len(sources) \in Ids
      BY <1>3, <2>2
    <3> QED BY <1>3, <1>4, <3>1
  <2> QED BY <2>1, <2>2
<1> QED BY <1>2, <1>3, <1>4, <1>5

BatchShape == batch \in BatchType /\ batch.src <= Len(sources)
LEMMA BatchShapeStep ==
    ASSUME Base, [Next]_vars
    PROVE  BatchShape'
<1>0. batch \in BatchType /\ batch.src \in Nat /\ batch.src <= Len(sources')
  BY IdsGrow DEF Base, Shapes, BatchType
<1>1. CASE UNCHANGED batch
  BY <1>0, <1>1 DEF BatchShape
<1>2. CASE batch' = NoBatch
  BY <1>2, IdsGrow DEF BatchShape, NoBatch, BatchType
<1>3. CASE AdmitBatch
  <2>1. PICK k \in Ids' : Admits(k)
    BY <1>3, AdmitCases DEF Base
  <2>2. k \in Nat /\ k <= Len(sources') /\ sources'[k] \in Row
    BY <2>1, IdsGrow
  <2>3. Frontier(sources'[k]) \in Int
    BY <2>2 DEF Frontier, Row
  <2>4. AdmitStart \in Int /\ AdmitEnd \in Int
    BY <1>3, AdmitBounds DEF Base
  <2>5. batch' = [src |-> k, start |-> AdmitStart, end |-> AdmitEnd,
                  prefix |-> Frontier(sources'[k]), sealed |-> FALSE]
    BY <2>1 DEF Admits
  <2> QED BY <2>2, <2>3, <2>4, <2>5 DEF BatchShape, BatchType
<1>4. CASE SessionInterrupted /\ batch' # batch
  <2>1. Grows /\ batch' = [batch EXCEPT !.prefix = Frontier(sources'[batch.src])]
    BY <1>4, SessionRows
  <2>2. sources'[batch.src] \in Row
    BY <2>1, IdsGrow DEF Grows
  <2>3. Frontier(sources'[batch.src]) \in Int
    BY <2>2 DEF Row, Frontier
  <2> QED BY <1>0, <2>1, <2>3 DEF BatchShape, BatchType
<1>5. CASE ReadDone
  <2>1. batch' = [batch EXCEPT !.prefix = recv] /\ recv \in Int
    BY <1>5, MaxSequenceAssumption DEF ReadDone, Base, Shapes, Sequence
  <2> QED BY <1>0, <2>1 DEF BatchShape, BatchType
<1>6. CASE SealBatch
  <2>1. batch' = [batch EXCEPT !.sealed = TRUE]
    BY <1>6 DEF SealBatch
  <2> QED BY <1>0, <2>1 DEF BatchShape, BatchType
<1> QED BY <1>1, <1>2, <1>3, <1>4, <1>5, <1>6, FramesHold DEF Frames

PendingShape == pending \in PendingType /\ pending.src <= Len(sources)
LEMMA PendingShapeStep ==
    ASSUME Base, [Next]_vars
    PROVE  PendingShape'
<1>1. CASE UNCHANGED pending
  BY <1>1, IdsGrow DEF PendingShape, Base, Shapes, PendingType
<1>2. CASE pending' = NoPending
  BY <1>2, IdsGrow DEF PendingShape, NoPending, PendingType, None
<1>3. CASE LoadRecovery /\ pending' # NoPending
  <2>1. PICK i \in OpenSources : pending' = [src |-> i, next |-> DurableNext(sources[i])]
    BY <1>3 DEF LoadRecovery
  <2>2. i \in Ids /\ sources[i] \in Row
    BY <2>1, RowFacts DEF OpenSources, Ids, Base
  <2>3. DurableNext(sources[i]) \in Int
    BY <2>2 DEF DurableNext, Frontier, Row
  <2>4. i \in Nat /\ i <= Len(sources')
    BY <2>2, IdsGrow
  <2> QED BY <2>1, <2>3, <2>4 DEF PendingShape, PendingType
<1> QED BY <1>1, <1>2, <1>3, FramesHold DEF Frames

LEMMA CounterStep ==
    ASSUME Base, [Next]_vars
    PROVE  frontier' \in Int /\ recv' \in Sequence
<1>0. frontier \in Int /\ None \in Int /\ recv \in Sequence /\ 0 \in Sequence
  BY MaxSequenceAssumption DEF Base, Shapes, None, Sequence
<1>1. frontier' \in Int
  <2>1. CASE LoadRecovery
    <3>1. CASE frontier' = frontier
      BY <1>0, <3>1
    <3>2. CASE frontier' # frontier
      <4>1. PICK i \in OpenSources :
              frontier' = IF DurableNext(sources[i]) > sources[i].start
                          THEN Retain(DurableNext(sources[i])) ELSE frontier
        BY <2>1, <3>2 DEF LoadRecovery
      <4>2. i \in Ids
        BY <4>1 DEF OpenSources, Ids
      <4>3. DurableNext(sources[i]) \in Int
        BY <4>2, RowFacts DEF DurableNext, End, Base
      <4> QED BY <1>0, <4>1, <4>3, RetainInt
    <3> QED BY <3>1, <3>2
  <2>2. CASE RetirePrefix
    <3>1. batch.prefix \in Int
      BY DEF Base, Shapes, BatchType
    <3> QED BY <1>0, <2>2, <3>1, RetainInt DEF RetirePrefix
  <2>3. CASE CursorInfo
    <3>1. batch.end \in Int
      BY DEF Base, Shapes, BatchType
    <3> QED BY <1>0, <2>3, <3>1, RetainInt DEF CursorInfo, CompleteBatch
  <2>4. CASE SessionInterrupted /\ frontier' # frontier
    <3>1. Grows /\ frontier' = Retain(Frontier(sources'[batch.src]))
      BY <2>4, SessionRows
    <3>2. sources'[batch.src] \in Row
      BY <3>1, IdsGrow DEF Grows
    <3>3. Frontier(sources'[batch.src]) \in Int
      BY <3>2 DEF Row, Frontier
    <3> QED BY <1>0, <3>1, <3>3, RetainInt
  <2>5. CASE CloseLive
    <3>1. ClosingFrontier \in Int
      BY <2>5, BatchNumbers DEF CloseLive, ClosingFrontier
    <3> QED BY <1>0, <2>5, <3>1, RetainInt DEF CloseLive
  <2> QED BY <1>0, <2>1, <2>2, <2>3, <2>4, <2>5, FramesHold DEF Frames
<1>2. recv' \in Sequence
  <2>1. CASE AdmitBatch
    <3>1. recv' = ArenaStart(AdmitEnd)
      BY <2>1, AdmitCases DEF Base, Admits
    <3>2. dev.write \in Nat /\ dev.write <= MaxSequence /\ AdmitEnd \in Nat /\ AdmitEnd <= dev.write
      BY <2>1, AdmitBounds DEF Base, Shapes
    <3> QED BY <2>1, <3>1, <3>2, ArenaBounds, MaxSequenceAssumption DEF Sequence
  <2>2. CASE ReceiveRecord
    <3>1. pc = "reading" /\ recv < batch.end /\ recv' = recv + 1
      BY <2>2 DEF ReceiveRecord
    <3>2. batch # NoBatch
      BY <3>1 DEF Base, Places
    <3>3. dev.write <= MaxSequence
      BY DEF Base, Shapes
    <3> QED BY <3>1, <3>2, <3>3, BatchNumbers, MaxSequenceAssumption DEF Sequence
  <2> QED BY <1>0, <2>1, <2>2, FramesHold DEF Frames
<1> QED BY <1>1, <1>2

(* A charged loss names a source and a range of the ring.                      *)
LEMMA LossShape ==
    ASSUME Base, RecordLoss
    PROVE  /\ batch # NoBatch /\ batch.src \in Ids /\ batch.prefix = End(batch.src) /\ IsOpen(batch.src)
           /\ pc = "step" /\ batch.prefix \in Sequence /\ info.read \in Sequence
<1>1. pc = "step" /\ batch # NoBatch /\ ~batch.sealed
  BY DEF RecordLoss, Reconciling
<1>2. batch.src \in Ids /\ batch.prefix = End(batch.src) /\ IsOpen(batch.src)
  BY <1>1 DEF Base, BatchOK
<1>3. dev.write \in Nat /\ dev.write <= MaxSequence /\ info.read \in Nat /\ info.read <= dev.write
  BY <1>1 DEF Base, Shapes, Places, InfoType
<1> QED BY SMTT(30), <1>1, <1>2, <1>3, RowFacts, MaxSequenceAssumption DEF Base, Sequence

LEMMA LossesStep ==
    ASSUME Base, [Next]_vars
    PROVE  (\A l \in losses : l.src \in Ids /\ l.from \in Sequence /\ l.to \in Sequence)'
<1>0. \A l \in losses : l.src \in Ids' /\ l.from \in Sequence /\ l.to \in Sequence
  BY IdsGrow DEF Base, Shapes
<1>1. CASE UNCHANGED losses
  BY <1>0, <1>1 DEF Sequence
<1>2. CASE RecordLoss
  <2>1. losses' = losses \cup {[src |-> batch.src, from |-> batch.prefix, to |-> info.read]}
    BY <1>2 DEF RecordLoss, LossStart
  <2>2. batch.src \in Ids' /\ batch.prefix \in Sequence /\ info.read \in Sequence
    BY <1>2, LossShape, IdsGrow
  <2> QED BY <1>0, <2>1, <2>2 DEF Sequence
<1> QED BY <1>1, <1>2, FramesHold DEF Frames

LEMMA VisitStates ==
    ASSUME NEW st \in VisitNames, NEW origin \in VisitNames, NEW reason \in VisitReasons,
           NEW cursor \in Int
    PROVE  /\ VisitState(st) \in VisitType
           /\ [VisitState(st) EXCEPT !.origin = origin] \in VisitType
           /\ [VisitState(st) EXCEPT !.reason = reason, !.cursor = cursor] \in VisitType
<1>1. "Idle" \in VisitNames /\ "none" \in VisitReasons /\ None \in Int
  BY DEF VisitNames, VisitReasons, None
<1>2. VisitState(st) \in VisitType
  BY <1>1 DEF VisitState, VisitType
<1> QED BY <1>2 DEF VisitType

LEMMA VisitStep ==
    ASSUME Base, [Next]_vars
    PROVE  visit' \in VisitType
<1>0. visit \in VisitType /\ visit.st \in VisitNames /\ visit.origin \in VisitNames
  BY DEF Base, Shapes, VisitType
<1>1. \A st \in VisitNames, reason \in VisitReasons, cursor \in Int :
         /\ VisitState(st) \in VisitType /\ Attempting(visit) \in VisitType
         /\ Closing(reason, cursor) \in VisitType
  BY <1>0, VisitStates DEF Attempting, Closing, VisitNames
<1>2. Idle \in VisitType /\ Waiting \in VisitType /\ Recovering \in VisitType
  BY <1>1 DEF Idle, Waiting, Recovering, VisitNames, VisitReasons
<1>3. CASE UNCHANGED visit
  BY <1>0, <1>3
<1>4. CASE LoadRecovery \/ AttemptGranted \/ RecoveryEnded \/ CandidateUnavailable \/ ConnectFails
  <2>1. None \in Int /\ \A r \in {"absence", "recovery_exhausted", "restart_interrupted"} : r \in VisitReasons
    <3>1. \A r \in {"absence", "recovery_exhausted", "restart_interrupted"} : r \in VisitReasons
      BY DEF VisitReasons
    <3> QED BY <3>1 DEF None
  <2>2. \A r \in {"absence", "recovery_exhausted", "restart_interrupted"} : Closing(r, None) \in VisitType
    BY <1>0, <1>1, <2>1
  <2>3. VisitState(visit.origin) \in VisitType /\ Attempting(visit) \in VisitType
    BY <1>0, <1>1, <2>1
  <2> QED BY <1>2, <1>4, <2>2, <2>3
        DEF LoadRecovery, AttemptGranted, RecoveryEnded, CandidateUnavailable, ConnectFails
<1>5. CASE visit' \in {Idle, Waiting, Recovering}
  BY <1>2, <1>5
<1>6. CASE ConfirmDrain
  <2>1. dev.read \in Int /\ "drained" \in VisitReasons
    BY DEF Base, Shapes, VisitReasons
  <2>2. visit' \in {visit, Closing("drained", dev.read)}
    BY <1>6 DEF ConfirmDrain
  <2> QED BY <1>0, <1>1, <2>1, <2>2 DEF VisitNames
<1>7. CASE CloseStored
  <2>1. visit' = [visit EXCEPT !.next = visit'.next] /\ visit'.next \in Int
    BY <1>7, StoredCloses DEF Base, None
  <2> QED BY <1>0, <2>1 DEF VisitType
<1>8. CASE MergeClosure \/ AppendClosure
  BY <1>5, <1>8 DEF MergeClosure, AppendClosure, Committed, OnClosureCommitted
<1>9. \/ UNCHANGED visit \/ visit' \in {Idle, Waiting, Recovering} \/ ConfirmDrain \/ CloseStored
      \/ MergeClosure \/ AppendClosure
      \/ LoadRecovery \/ AttemptGranted \/ RecoveryEnded \/ CandidateUnavailable \/ ConnectFails
  BY FramesHold DEF Frames
<1> QED BY <1>3, <1>4, <1>5, <1>6, <1>7, <1>8, <1>9

LEMMA ShapesStep ==
    ASSUME Base, MergeOK, FrontierOK, [Next]_vars
    PROVE  Shapes'
<1>1. DeviceOK' /\ dev.write <= dev'.write
  BY FramesHold, DeviceStep
<1>2. (info \in InfoType /\ info.write <= dev.write
       /\ (info # NoInfo => info.read \in Nat /\ info.read <= info.write))'
  <2>1. dev \in [read: Nat, write: Nat] /\ dev.read <= dev.write /\ dev'.write \in Nat
    BY <1>1 DEF Base, Shapes, DeviceOK
  <2>2. info \in InfoType /\ info.write <= dev.write
        /\ (info # NoInfo => info.read \in Nat /\ info.read <= info.write)
    BY DEF Base, Shapes
  <2>3. info' \in {info, NoInfo, dev}
    BY FramesHold DEF Frames
  <2> QED BY <1>1, <2>1, <2>2, <2>3 DEF InfoType, NoInfo, None
<1>3. link' \in BOOLEAN /\ faults' \in 0 .. MaxFaults
  <2>1. link' \in BOOLEAN
    <3>1. link \in BOOLEAN
      BY DEF Base, Shapes
    <3> QED BY <3>1, FramesHold, Zenon DEF Frames
  <2>2. faults' \in 0 .. MaxFaults
    <3>1. faults' = faults \/ (faults < MaxFaults /\ faults' = faults + 1)
      BY FramesHold DEF Frames, Fault
    <3>2. faults \in 0 .. MaxFaults
      BY DEF Base, Shapes
    <3> QED BY <3>1, <3>2, MaxFaultsAssumption
  <2> QED BY <2>1, <2>2
<1>4. closure' \in ClosureType /\ (closure' # NoClosure => closure'.next \in Nat)
  BY FrontierNat, ClosureStep
<1> QED BY <1>1, <1>2, <1>3, <1>4, BatchShapeStep, PendingShapeStep, CounterStep, LossesStep, VisitStep
      DEF Shapes, DeviceOK, BatchShape, PendingShape, Sequence

LEMMA PlacesStep ==
    ASSUME Base, [Next]_vars
    PROVE  Places'
<1>0. Places /\ dev # NoInfo /\ Fenced(closure).reason # "drained"
      /\ batch \in BatchType /\ (batch # NoBatch => batch.src # 0)
  <2>1. dev # NoInfo
    BY DEF Base, Shapes, NoInfo, None
  <2>2. Fenced(closure).reason # "drained"
    BY ClosureShape DEF Base, Shapes
  <2>3. batch # NoBatch => batch.src # 0
    BY RowFacts DEF Base, BatchOK
  <2> QED BY <2>1, <2>2, <2>3 DEF Base, Shapes
<1> USE DEF Places, device, durable, volatile, Fatal, RetireBatch
<1>1. CASE UNCHANGED vars \/ Environment
  BY <1>0, <1>1 DEF vars, Environment, DeviceRecords, DeviceMovesAhead, DeviceReboots, LinkLost
<1>2. CASE LoadRecovery
  BY <1>0, <1>2 DEF LoadRecovery, Closing, VisitState
<1>3. CASE AttemptGranted \/ RecoveryEnded
  BY <1>0, <1>3 DEF AttemptGranted, RecoveryEnded, Closing, VisitState
<1>4. CASE CandidateUnavailable \/ ConnectFails
  BY <1>0, <1>4 DEF CandidateUnavailable, ConnectFails
<1>5. CASE Connect \/ FreshInfo
  BY <1>0, <1>5 DEF Connect, FreshInfo
<1>6. CASE QuarantinePending \/ AdmitBatch \/ RingEmpty
  BY <1>0, <1>6 DEF QuarantinePending, AdmitBatch, RingEmpty
<1>7. CASE QuarantineDiscontinuous \/ RecordLoss \/ RetirePrefix
  BY <1>0, <1>7 DEF QuarantineDiscontinuous, RecordLoss, Reconciling, RetirePrefix
<1>8. CASE AlreadyComplete \/ PrepareLeg
  BY <1>0, <1>8 DEF AlreadyComplete, ReadyToRead, Reconciling, PrepareLeg
<1>9. CASE LegRefused \/ SealRefused \/ CursorRejected
  BY <1>0, <1>9 DEF LegRefused, SealRefused, CursorRejected
<1>10. CASE ClosureRefused \/ Crash \/ Shutdown
  BY <1>0, <1>10 DEF ClosureRefused, Crash, Shutdown
<1>11. CASE ReadBegin \/ ReceiveRecord \/ StoreRecord
  BY <1>0, <1>11 DEF ReadBegin, ReceiveRecord, StoreRecord
<1>12. CASE ReadDone
  BY <1>0, <1>12 DEF ReadDone, BatchType, NoBatch
<1>13. CASE SealBatch \/ ResumeSealed
  BY <1>0, <1>13 DEF SealBatch, BatchType, NoBatch, ResumeSealed
<1>14. CASE CursorInfo
  BY <1>0, <1>14 DEF CursorInfo, CompleteBatch
<1>15. CASE SendAdvance \/ AdvanceIgnored
  BY <1>0, <1>15 DEF SendAdvance, AdvanceIgnored
<1>16. CASE ConfirmDrain \/ SessionInterrupted
  BY <1>0, <1>16 DEF ConfirmDrain, Closing, VisitState, SessionInterrupted
<1>17. CASE CloseStored
  BY <1>0, <1>17 DEF CloseStored, Base, Shapes, VisitType
<1>18. CASE MergeClosure
  BY <1>0, <1>18 DEF MergeClosure, Committed
<1>19. CASE CloseLive \/ AppendClosure
  BY <1>0, <1>19 DEF CloseLive, AppendClosure, Committed
<1>20. CASE Restart \/ PublishCohort
  BY <1>0, <1>20 DEF Restart, PublishCohort, NoClosure
<1> QED BY <1>1, <1>2, <1>3, <1>4, <1>5, <1>6, <1>7, <1>8, <1>9, <1>10, <1>11, <1>12, <1>13, <1>14, <1>15, <1>16, <1>17, <1>18, <1>19, <1>20
      DEF Next, Host, Other

-----------------------------------------------------------------------------
(* The batch in hand.                                                          *)

BatchSame ==
    /\ UNCHANGED <<batch, recv, sources>>
    /\ pc' = "reading" <=> pc = "reading"
    /\ pc' = "advance" /\ link' => batch.start <= dev'.read

LEMMA BatchCases ==
    ASSUME Base, [Next]_vars
    PROVE  \/ batch' = NoBatch \/ BatchSame
           \/ AdmitBatch \/ PrepareLeg \/ ReadBegin \/ ReceiveRecord \/ ReadDone \/ SealBatch
           \/ StoreRecord \/ PublishCohort \/ (SessionInterrupted /\ pc = "reading")
<1> USE DEF BatchSame, device, durable, volatile, Fatal, RetireBatch, CompleteBatch
<1>0. /\ batch # NoBatch /\ pc = "advance" /\ link => batch.start <= dev.read
      /\ pc \in {"recover", "merge", "append", "info", "drained", "down"} => batch = NoBatch
      /\ pc \in {"advance_info", "advance", "ack_info"} => batch # NoBatch
      /\ dev.read \in Int /\ batch.start \in Int
  BY DEF Base, BatchOK, Places, Shapes, BatchType
<1>1. CASE UNCHANGED vars
  BY <1>0, <1>1 DEF vars
<1>2. CASE DeviceRecords \/ LinkLost
  BY <1>0, <1>2, FramesHold DEF DeviceRecords, LinkLost, Base, Shapes
<1>3. CASE DeviceMovesAhead
  <2>1. PICK to \in (dev.read + 1) .. dev.write : dev' = [dev EXCEPT !.read = to]
    BY <1>3 DEF DeviceMovesAhead
  <2>2. dev'.read > dev.read
    BY <1>0, <2>1 DEF Base, Shapes
  <2> QED BY <1>0, <1>3, <2>1, <2>2 DEF DeviceMovesAhead
<1>4. CASE DeviceReboots
  BY <1>4 DEF DeviceReboots
<1>5. CASE LoadRecovery \/ AttemptGranted \/ Connect \/ FreshInfo \/ QuarantinePending \/ RingEmpty
  BY <1>0, <1>5 DEF LoadRecovery, AttemptGranted, Connect, FreshInfo, QuarantinePending, RingEmpty
<1>6. CASE QuarantineDiscontinuous \/ RecordLoss \/ RetirePrefix \/ AlreadyComplete
  BY <1>6 DEF QuarantineDiscontinuous, RecordLoss, RetirePrefix, AlreadyComplete,
              ReadyToRead, Reconciling
<1>7. CASE LegRefused \/ SealRefused \/ CursorRejected \/ ClosureRefused \/ Crash \/ Shutdown
  BY <1>7 DEF LegRefused, SealRefused, CursorRejected, ClosureRefused, Crash, Shutdown
<1>8. CASE ResumeSealed \/ SendAdvance \/ ConfirmDrain \/ AdvanceIgnored
  BY <1>8 DEF ResumeSealed, SendAdvance, ConfirmDrain, AdvanceIgnored
<1>9. CASE CursorInfo
  <2>1. CASE CompleteBatch
    BY <2>1
  <2>2. CASE AdvanceAction(dev) = "repeat" /\ UNCHANGED <<batch, recv>>
    <3>1. batch.start <= dev.read
      BY <1>0, <2>2 DEF AdvanceAction
    <3> QED BY <1>9, <2>2, <3>1 DEF CursorInfo
  <2> QED BY <1>9, <2>1, <2>2 DEF CursorInfo
<1>10. CASE SessionInterrupted
  <2>1. CASE pc # "reading"
    BY <1>10, <2>1, SessionRows DEF SessionInterrupted
  <2> QED BY <1>10, <2>1
<1>11. CASE CloseStored \/ MergeClosure \/ CloseLive \/ AppendClosure \/ Restart
  BY <1>0, <1>11 DEF CloseStored, MergeClosure, CloseLive, AppendClosure, Restart
<1>12. CASE RecoveryEnded \/ CandidateUnavailable \/ ConnectFails
  BY <1>12 DEF RecoveryEnded, CandidateUnavailable, ConnectFails
<1> QED BY <1>1, <1>2, <1>3, <1>4, <1>5, <1>6, <1>7, <1>8, <1>9, <1>10, <1>11, <1>12
      DEF Next, Environment, Host, Other

LEMMA AdmitStep ==
    ASSUME Base, LeftoverOK, AdmitBatch, [Next]_vars
    PROVE  BatchOK'
<1>1. PICK k \in Ids' :
              /\ Admits(k) /\ Open(sources'[k])
              /\ \/ /\ Keeps /\ k \in Ids /\ Open(sources[k])
                    /\ sources'[k].count = sources[k].count
                    /\ pending # NoPending => k = pending.src
                 \/ /\ Adds /\ k = Len(sources) + 1 /\ pending = NoPending
                    /\ sources' = Append(sources, NewSource(AdmitStart, AdmitEnd))
  BY AdmitCases DEF Base
<1>2. batch' = [src |-> k, start |-> AdmitStart, end |-> AdmitEnd,
                prefix |-> Frontier(sources'[k]), sealed |-> FALSE]
      /\ recv' = ArenaStart(AdmitEnd)
  BY <1>1 DEF Admits
<1>3. pc = "step" /\ pc' = "step" /\ batch = NoBatch /\ dev' = dev
  BY DEF AdmitBatch, device
<1>4. AdmitEnd <= dev.write /\ recv' <= AdmitEnd /\ AdmitStart \in Nat /\ recv' \in Nat
  BY <1>2, AdmitBounds, ArenaBounds DEF Base
<1>5. sources'[k].start \in Nat
  BY IdsGrow, RowFields
<1>6. sources'[k].start <= AdmitStart \/ (sources'[k].count = 0 /\ recv' < sources'[k].start)
  <2>1. CASE Keeps /\ k \in Ids /\ Open(sources[k]) /\ pending # NoPending
    <3>1. k = pending.src
      BY <1>1, <2>1
    <3>2. sources'[k].start = AdmitStart
      BY <2>1, <3>1 DEF AdmitStart, Keeps
    <3> QED BY <1>4, <3>2
  <2>2. CASE Keeps /\ k \in Ids /\ Open(sources[k]) /\ pending = NoPending
    <3>1. sources[k].count = 0 /\ sources'[k].count = 0
      BY <1>3, <2>2 DEF LeftoverOK, Unseen, IsOpen, Keeps
    <3>2. recv' = AdmitStart
      BY <1>2, <2>2, ArenaBounds
    <3> QED BY <1>4, <1>5, <3>1, <3>2
  <2>3. CASE k = Len(sources) + 1 /\ sources' = Append(sources, NewSource(AdmitStart, AdmitEnd))
    <3>1. sources'[k] = NewSource(AdmitStart, AdmitEnd)
      BY <2>3, RowFacts DEF Base
    <3> QED BY <1>4, <3>1 DEF NewSource
  <2> QED BY <1>1, <2>1, <2>2, <2>3
<1>7. batch'.src = k /\ batch'.start = AdmitStart /\ batch'.end = AdmitEnd
      /\ batch'.prefix = Frontier(sources'[k]) /\ batch'.sealed = FALSE
  BY <1>2
<1> QED BY <1>1, <1>3, <1>4, <1>6, <1>7 DEF BatchOK, BatchSource, IsOpen, End

LEMMA BatchStep ==
    ASSUME Base, LeftoverOK, [Next]_vars
    PROVE  BatchOK'
<1>0. dev.write <= dev'.write /\ dev.write \in Nat /\ dev'.write \in Nat
  BY FramesHold, DeviceStep DEF Base, Shapes, DeviceOK
<1>1. CASE batch' = NoBatch
  BY <1>1 DEF BatchOK, NoBatch
<1>2. CASE BatchSame /\ batch' # NoBatch
  <2>1. batch # NoBatch /\ batch.end \in Int /\ batch.end <= dev'.write
    BY <1>0, <1>2, BatchNumbers DEF BatchSame
  <2> QED BY <1>2, <2>1 DEF BatchSame, BatchOK, Base, BatchSource, IsOpen, End, Ids, NoBatch
<1>3. CASE AdmitBatch
  BY <1>3, AdmitStep
<1>4. CASE PrepareLeg
  <2>1. /\ batch # NoBatch /\ ~batch.sealed /\ pc = "step" /\ LegFits /\ pc' = "reading"
        /\ UNCHANGED <<batch, recv, dev>>
    BY <1>4 DEF PrepareLeg, ReadyToRead, Reconciling, device
  <2>2. /\ Keeps /\ batch.src \in Ids /\ Open(sources'[batch.src])
        /\ sources'[batch.src].life = "leg_prepared"
    <3>1. sources' = [sources EXCEPT ![batch.src] = [sources[batch.src] EXCEPT !.life = "leg_prepared"]]
      BY <1>4 DEF PrepareLeg
    <3>2. batch.src \in Ids /\ sources[batch.src] \in Row /\ sources \in Seq(Row)
      BY <2>1, BatchNumbers, RowFacts DEF Base
    <3>3. sources'[batch.src] = [sources[batch.src] EXCEPT !.life = "leg_prepared"]
      BY <3>1, <3>2 DEF Ids
    <3> QED BY <1>4, <3>2, <3>3, LegKeeps DEF Row
  <2>3. sources'[batch.src].start = BatchSource.start /\ sources'[batch.src].limit = BatchSource.limit
        /\ sources'[batch.src].count = BatchSource.count /\ batch.src \in Ids'
    BY <2>2 DEF Keeps, BatchSource
  <2>4. /\ batch.prefix <= recv /\ batch.prefix < batch.end
        /\ batch.prefix >= BatchSource.start /\ batch.end <= BatchSource.limit
    BY <2>1, BatchNumbers DEF LegFits, ArenaAllows, LegAllowed
  <2>5. batch.prefix = Frontier(BatchSource)
    BY <2>1, BatchNumbers DEF Base, BatchOK
  <2>6. BatchSource.start <= batch.start
    BY <2>1, <2>4, <2>5, BatchNumbers DEF Base, BatchOK
  <2>7. Frontier(sources'[batch.src]) = Frontier(BatchSource)
    BY <2>3 DEF Frontier
  <2> QED BY <2>1, <2>2, <2>3, <2>4, <2>5, <2>6, <2>7, BatchNumbers DEF BatchOK, BatchSource, IsOpen, End
<1>5. CASE ReadBegin
  <2>1. pc = "reading" /\ pc' = "reading" /\ UNCHANGED <<batch, recv, dev>>
        /\ batch # NoBatch /\ ~batch.sealed
    BY <1>5 DEF ReadBegin, device, volatile, Base, Places
  <2>2. /\ Keeps /\ batch.src \in Ids /\ Open(sources'[batch.src])
        /\ sources'[batch.src].life \in {"leg_prepared", "receiving"}
    BY <1>5, LegKeeps
  <2>3. sources'[batch.src].start = BatchSource.start /\ sources'[batch.src].limit = BatchSource.limit
        /\ sources'[batch.src].count = BatchSource.count /\ batch.src \in Ids'
    BY <2>2 DEF Keeps, BatchSource
  <2>4. Frontier(sources'[batch.src]) = Frontier(BatchSource)
    BY <2>3 DEF Frontier
  <2>5. BatchSource.start <= batch.start
    BY <2>1 DEF Base, BatchOK
  <2> QED BY <2>1, <2>2, <2>3, <2>4, <2>5, BatchNumbers, ReadingFacts
        DEF Base, BatchOK, BatchSource, IsOpen, End
<1>6. CASE ReceiveRecord
  <2>1. pc = "reading" /\ pc' = "reading" /\ UNCHANGED <<batch, sources, dev>> /\ recv' = recv + 1
        /\ recv < batch.end /\ batch # NoBatch /\ ~batch.sealed
    BY <1>6 DEF ReceiveRecord, device, durable, Base, Places
  <2>2. recv' <= batch.end /\ Frontier(BatchSource) <= recv'
    BY <2>1, BatchNumbers, ReadingFacts DEF Base
  <2>3. BatchSource.start <= batch.start
    BY <2>1 DEF Base, BatchOK
  <2> QED BY <2>1, <2>2, <2>3, BatchNumbers, ReadingFacts DEF Base, BatchOK, BatchSource, IsOpen, End, Ids
<1>7. CASE ReadDone \/ StoreRecord \/ (SessionInterrupted /\ pc = "reading")
  <2>1. /\ pc = "reading" /\ batch # NoBatch /\ ~batch.sealed /\ UNCHANGED <<recv, dev>>
        /\ BatchSource.start <= batch.start
    BY <1>7 DEF ReadDone, StoreRecord, SessionInterrupted, device, volatile, Base, Places, BatchOK
  <2>2. Grows
    BY <1>7, DoneGrows, StoreGrows, SessionRows DEF Base
  <2>3. /\ batch.src \in Ids' /\ Open(sources'[batch.src])
        /\ sources'[batch.src].start = BatchSource.start /\ sources'[batch.src].limit = BatchSource.limit
        /\ sources'[batch.src] \in Row
    BY <2>2, IdsGrow DEF Grows, BatchSource
  <2>4. CASE StoreRecord
    <3>1. pc' = "reading" /\ batch' = batch /\ Frontier(BatchSource) < recv
      BY <2>4 DEF StoreRecord, volatile
    <3>2. Frontier(sources'[batch.src]) = Frontier(BatchSource) + 1
          /\ sources'[batch.src].life = "receiving"
      BY <2>1, <2>3, <2>4, StoreGrows, BatchNumbers DEF Frontier, Base
    <3> QED BY <2>1, <2>3, <3>1, <3>2, BatchNumbers, ReadingFacts DEF Base, BatchOK, BatchSource, IsOpen, End
  <2>5. CASE ~StoreRecord
    <3>1. pc' \in {"seal", "wait"} /\ batch' = [batch EXCEPT !.prefix = Frontier(sources'[batch.src])]
      BY <1>7, <2>5, DoneGrows, SessionRows DEF ReadDone, SessionInterrupted, Base
    <3>2. batch'.src = batch.src /\ batch'.start = batch.start /\ batch'.end = batch.end
          /\ batch'.sealed = batch.sealed /\ batch'.prefix = Frontier(sources'[batch.src])
      BY <3>1 DEF Base, Shapes, BatchType
    <3> QED BY <2>1, <2>3, <3>1, <3>2, BatchNumbers DEF BatchOK, BatchSource, IsOpen, End
  <2> QED BY <2>4, <2>5
<1>8. CASE SealBatch
  <2>1. /\ pc = "seal" /\ batch # NoBatch /\ ~batch.sealed /\ CanSeal /\ UNCHANGED <<recv, dev>>
        /\ batch' = [batch EXCEPT !.sealed = TRUE] /\ pc' = "advance_info"
    BY <1>8 DEF SealBatch, device, Base, Places
  <2>2. ClosesAll /\ sources'[batch.src].life = "sealed_waiting"
    BY <1>8, SealCloses DEF Base
  <2>3. /\ batch'.src = batch.src /\ batch'.start = batch.start /\ batch'.end = batch.end
        /\ batch'.sealed = TRUE /\ batch'.prefix = batch.prefix
    BY <2>1 DEF Base, Shapes, BatchType
  <2>4. /\ batch.src \in Ids' /\ Ids' = Ids
        /\ sources'[batch.src].start = BatchSource.start /\ sources'[batch.src].count = BatchSource.count
    BY <2>1, <2>2, BatchNumbers DEF ClosesAll, Keeps
  <2>5. batch.prefix = Frontier(BatchSource) /\ Frontier(BatchSource) = batch.end
        /\ BatchSource.start <= batch.start
    BY <2>1, BatchNumbers DEF CanSeal, Base, BatchOK
  <2>6. Frontier(sources'[batch.src]) = batch.end
    BY <2>4, <2>5 DEF Frontier
  <2> QED BY <2>1, <2>2, <2>3, <2>4, <2>5, <2>6, BatchNumbers
        DEF BatchOK, BatchSource, IsOpen, End, ClosesAll
<1>9. CASE PublishCohort /\ batch' # NoBatch
  <2>1. UNCHANGED <<batch, recv, dev, pc>> /\ pc \in {"wait", "recover"} /\ batch # NoBatch
    BY <1>9 DEF PublishCohort, device, volatile
  <2>2. Keeps /\ \A i \in Ids : Open(sources[i]) => sources'[i] = sources[i]
    BY <1>9, PublishKeeps DEF Base
  <2>3. \A i \in Ids : End(i)' = End(i)
    BY <2>2 DEF Keeps, End, Frontier
  <2>4. batch.src \in Ids /\ Ids' = Ids /\ sources'[batch.src].start = BatchSource.start
    BY <2>1, <2>2, BatchNumbers DEF Keeps
  <2>5. CASE batch.sealed
    <3>1. (\A i \in Ids : ~IsOpen(i)) /\ BatchSource.life \in Full
          /\ End(batch.src) = batch.end /\ BatchSource.start <= batch.start /\ batch.prefix <= batch.end
          /\ recv <= batch.end /\ batch.end <= dev.write
      BY <2>1, <2>5 DEF Base, BatchOK, Full
    <3>2. sources'[batch.src].life \in Full
      BY <2>2, <2>4, <3>1 DEF Keeps, Full, Open, IsOpen, BatchSource, OpenLives
    <3>3. \A i \in Ids : ~Open(sources'[i])
      BY <2>2, <3>1 DEF Keeps, IsOpen
    <3> QED BY <2>1, <2>3, <2>4, <2>5, <3>1, <3>2, <3>3 DEF BatchOK, BatchSource, IsOpen, End, Full
  <2>6. CASE ~batch.sealed
    <3>1. Open(BatchSource) /\ sources'[batch.src] = BatchSource
      BY <2>1, <2>2, <2>4, <2>6, UnsealedFacts DEF Base
    <3> QED BY <2>1, <2>4, <2>6, <3>1 DEF Base, BatchOK, BatchSource, IsOpen, End
  <2> QED BY <2>5, <2>6
<1> QED BY <1>1, <1>2, <1>3, <1>4, <1>5, <1>6, <1>7, <1>8, <1>9, BatchCases

-----------------------------------------------------------------------------
(* The pending source, and sources that nobody holds.                          *)

LEMMA AdmittedBatch ==
    ASSUME Base, [Next]_vars, AdmitBatch
    PROVE  batch' # NoBatch
<1>1. PICK k \in Ids' : Admits(k)
  BY AdmitCases DEF Base
<1>2. k # 0
  BY <1>1, IdsGrow
<1> QED BY <1>1, <1>2 DEF Admits, NoBatch

LEMMA HoldingCases ==
    ASSUME Base, [Next]_vars
    PROVE  \/ batch' # NoBatch \/ pc' = "merge" \/ LoadRecovery
           \/ pending' = NoPending
           \/ UNCHANGED pending /\ batch = NoBatch /\ pc # "merge" /\ (UNCHANGED sources \/ PublishCohort)
<1> USE DEF device, durable, volatile, Fatal, RetireBatch, CompleteBatch
<1>0. /\ pc \in {"recover", "down", "append", "info", "drained"} => pending = NoPending
      /\ pc \in {"reading", "seal", "retire", "advance_info", "advance", "ack_info"} => batch # NoBatch
      /\ batch \in BatchType /\ (batch # NoBatch => batch.src # 0)
  BY RowFacts DEF Base, BatchOK, Places, Shapes
<1>1. CASE UNCHANGED vars \/ Environment
  BY <1>1 DEF vars, Environment, DeviceRecords, DeviceMovesAhead, DeviceReboots, LinkLost
<1>2. CASE AttemptGranted \/ Connect \/ FreshInfo \/ QuarantinePending \/ RingEmpty
  BY <1>2 DEF AttemptGranted, Connect, FreshInfo, QuarantinePending, RingEmpty
<1>3. CASE AdmitBatch
  BY <1>3, AdmittedBatch
<1>4. CASE QuarantineDiscontinuous \/ RecordLoss \/ RetirePrefix \/ AlreadyComplete
  BY <1>4 DEF QuarantineDiscontinuous, RecordLoss, RetirePrefix, AlreadyComplete,
              ReadyToRead, Reconciling
<1>5. CASE LegRefused \/ SealRefused \/ CursorRejected \/ ClosureRefused \/ Crash \/ Shutdown
  BY <1>5 DEF LegRefused, SealRefused, CursorRejected, ClosureRefused, Crash, Shutdown
<1>6. CASE PrepareLeg \/ ReadBegin \/ ReceiveRecord \/ StoreRecord
  BY <1>0, <1>6 DEF PrepareLeg, ReadBegin, ReceiveRecord, StoreRecord, ReadyToRead, Reconciling
<1>7. CASE ReadDone \/ SealBatch
  <2>1. batch # NoBatch /\ (batch' = [batch EXCEPT !.prefix = recv] \/ batch' = [batch EXCEPT !.sealed = TRUE])
    BY <1>0, <1>7 DEF ReadDone, SealBatch
  <2>2. batch'.src = batch.src
    BY <1>0, <2>1 DEF BatchType
  <2> QED BY <1>0, <2>1, <2>2 DEF NoBatch
<1>8. CASE ResumeSealed \/ CursorInfo \/ SendAdvance \/ ConfirmDrain \/ AdvanceIgnored
  BY <1>0, <1>8 DEF ResumeSealed, CursorInfo, SendAdvance, ConfirmDrain, AdvanceIgnored
<1>9. CASE SessionInterrupted
  <2>1. CASE pc = "reading"
    <3>1. batch # NoBatch /\ batch' = [batch EXCEPT !.prefix = Frontier(sources'[batch.src])]
      BY <1>0, <1>9, <2>1, SessionRows
    <3>2. batch'.src = batch.src
      BY <1>0, <3>1 DEF BatchType
    <3> QED BY <1>0, <3>1, <3>2 DEF NoBatch
  <2>2. CASE pc # "reading"
    BY <1>9, <2>2, SessionRows DEF SessionInterrupted
  <2> QED BY <2>1, <2>2
<1>10. CASE CloseStored \/ MergeClosure \/ CloseLive \/ AppendClosure \/ Restart
  BY <1>0, <1>10 DEF CloseStored, MergeClosure, CloseLive, AppendClosure, Restart
<1>11. CASE RecoveryEnded \/ CandidateUnavailable \/ ConnectFails \/ PublishCohort
  BY <1>11 DEF RecoveryEnded, CandidateUnavailable, ConnectFails, PublishCohort
<1> QED BY <1>1, <1>2, <1>3, <1>4, <1>5, <1>6, <1>7, <1>8, <1>9, <1>10, <1>11 DEF Next, Host, Other

LEMMA PendingStep ==
    ASSUME Base, [Next]_vars
    PROVE  PendingOK'
<1> SUFFICES ASSUME pending' # NoPending, batch' = NoBatch, pc' # "merge"
             PROVE  /\ pending'.src \in Ids' /\ Open(sources'[pending'.src])
                    /\ pending'.next = Frontier(sources'[pending'.src])
  BY DEF PendingOK, IsOpen, End, NoPending, NoBatch
<1>1. CASE LoadRecovery
  <2>1. PICK i \in OpenSources : pending' = [src |-> i, next |-> DurableNext(sources[i])]
                                 /\ UNCHANGED sources
    BY <1>1 DEF LoadRecovery
  <2> QED BY <2>1 DEF OpenSources, Ids, DurableNext
<1>2. CASE UNCHANGED pending /\ batch = NoBatch /\ pc # "merge" /\ (UNCHANGED sources \/ PublishCohort)
  <2>1. pending.src \in Ids /\ Open(sources[pending.src]) /\ pending.next = Frontier(sources[pending.src])
    BY <1>2 DEF Base, PendingOK, IsOpen, End
  <2>2. sources'[pending.src] = sources[pending.src] /\ Ids' = Ids
    BY <1>2, <2>1, PublishKeeps DEF Base, Keeps, Ids
  <2> QED BY <1>2, <2>1, <2>2
<1> QED BY <1>1, <1>2, HoldingCases

LEMMA LeftoverCases ==
    ASSUME Base, [Next]_vars, batch' = NoBatch, pending' = NoPending
    PROVE  \/ Unseen' \/ (batch = NoBatch /\ pending = NoPending /\ ~Unseen)
           \/ LoadRecovery \/ QuarantinePending \/ QuarantineDiscontinuous \/ RetirePrefix
           \/ CursorInfo \/ CloseLive \/ CloseStored \/ MergeClosure
<1> USE DEF device, durable, volatile, Fatal, Unseen
<1>0. /\ pc \in {"recover", "down", "append", "info", "drained"} => pending = NoPending
      /\ pc \in {"recover", "down", "merge", "append", "info", "drained"} => batch = NoBatch
      /\ batch \in BatchType /\ (batch # NoBatch => batch.src # 0)
      /\ pc \in {"reading", "seal", "retire", "advance_info", "advance", "ack_info"} => batch # NoBatch
  BY RowFacts DEF Base, BatchOK, Places, Shapes
<1>1. CASE UNCHANGED vars \/ Environment
  BY <1>1 DEF vars, Environment, DeviceRecords, DeviceMovesAhead, DeviceReboots, LinkLost
<1>2. CASE AttemptGranted \/ Connect \/ FreshInfo \/ RingEmpty
  BY <1>2 DEF AttemptGranted, Connect, FreshInfo, RingEmpty
<1>3. CASE AdmitBatch
  BY <1>3, AdmittedBatch
<1>4. CASE RecordLoss \/ AlreadyComplete
  BY <1>4 DEF RecordLoss, AlreadyComplete, ReadyToRead, Reconciling
<1>5. CASE LegRefused \/ SealRefused \/ CursorRejected \/ ClosureRefused \/ Crash \/ Shutdown
  BY <1>5 DEF LegRefused, SealRefused, CursorRejected, ClosureRefused, Crash, Shutdown
<1>6. CASE PrepareLeg \/ ReadBegin \/ ReceiveRecord \/ StoreRecord
  BY <1>0, <1>6 DEF PrepareLeg, ReadBegin, ReceiveRecord, StoreRecord, ReadyToRead, Reconciling
<1>7. CASE ReadDone \/ SealBatch
  <2>1. batch # NoBatch /\ (batch' = [batch EXCEPT !.prefix = recv] \/ batch' = [batch EXCEPT !.sealed = TRUE])
    BY <1>0, <1>7 DEF ReadDone, SealBatch
  <2>2. batch'.src = batch.src
    BY <1>0, <2>1 DEF BatchType
  <2> QED BY <1>0, <2>1, <2>2 DEF NoBatch
<1>8. CASE ResumeSealed \/ SendAdvance \/ ConfirmDrain \/ AdvanceIgnored
  BY <1>0, <1>8 DEF ResumeSealed, SendAdvance, ConfirmDrain, AdvanceIgnored
<1>9. CASE SessionInterrupted
  <2>1. CASE pc = "reading"
    <3>1. batch # NoBatch /\ batch' = [batch EXCEPT !.prefix = Frontier(sources'[batch.src])]
      BY <1>0, <1>9, <2>1, SessionRows
    <3>2. batch'.src = batch.src
      BY <1>0, <3>1 DEF BatchType
    <3> QED BY <1>0, <3>1, <3>2 DEF NoBatch
  <2>2. CASE pc # "reading"
    BY <1>0, <1>9, <2>2, SessionRows DEF SessionInterrupted
  <2> QED BY <2>1, <2>2
<1>10. CASE AppendClosure \/ Restart
  BY <1>0, <1>10 DEF AppendClosure, Restart
<1>11. CASE RecoveryEnded \/ CandidateUnavailable \/ ConnectFails \/ PublishCohort
  BY <1>11 DEF RecoveryEnded, CandidateUnavailable, ConnectFails, PublishCohort
<1> QED BY <1>1, <1>2, <1>3, <1>4, <1>5, <1>6, <1>7, <1>8, <1>9, <1>10, <1>11 DEF Next, Host, Other

LEMMA LeftoverStep ==
    ASSUME Base, LeftoverOK, MergeOK, [Next]_vars
    PROVE  LeftoverOK'
<1> SUFFICES ASSUME batch' = NoBatch, pending' = NoPending, ~Unseen', NEW i \in Ids', Open(sources'[i])
             PROVE  sources'[i].count = 0
  BY DEF LeftoverOK, IsOpen, NoBatch, NoPending
<1>1. CASE batch = NoBatch /\ pending = NoPending /\ ~Unseen
  <2>1. Keeps
    BY <1>1, Effects, AdmittedBatch DEF Base, Places
  <2> QED BY <1>1, <2>1 DEF Keeps, LeftoverOK, IsOpen
<1>2. CASE QuarantinePending \/ QuarantineDiscontinuous \/ RetirePrefix
  <2>1. ClosesAll
    BY <1>2, PendingCloses, DiscontinuousCloses, RetireCloses DEF Base
  <2> QED BY <2>1 DEF ClosesAll, Keeps
<1>3. CASE LoadRecovery
  <2>1. CASE Keeps /\ \A j \in Ids : ~Open(sources'[j])
    BY <2>1 DEF Keeps
  <2>2. CASE UNCHANGED sources /\ ~(\A j \in Ids : ~Open(sources'[j]))
    <3>1. pc' # "close" \/ visit'.reason # "restart_interrupted"
      BY DEF Unseen
    <3>2. ~UnclosedPrefix
      BY <1>3, <3>1 DEF LoadRecovery, Closing, VisitState
    <3>3. Cardinality(OpenSources) # 1
      <4>1. SUFFICES ASSUME Cardinality(OpenSources) = 1 PROVE FALSE
        OBVIOUS
      <4>2. PICK j \in OpenSources : pending' = [src |-> j, next |-> DurableNext(sources[j])]
        BY <1>3, <3>2, <4>1 DEF LoadRecovery
      <4>3. j # 0
        BY <4>2, RowFacts DEF OpenSources, Ids, Base
      <4> QED BY <4>2, <4>3 DEF NoPending
    <3>4. sources' = [j \in DOMAIN sources |->
                         IF j \in OpenSources THEN Quarantined(sources[j]) ELSE sources[j]]
      BY <1>3, <3>2, <3>3 DEF LoadRecovery
    <3> QED BY <2>2, <3>4, QuarantineAllKeeps DEF Base
  <2> QED BY <1>3, <2>1, <2>2, RecoveryRows DEF Ids
<1>4. CASE CursorInfo
  <2>1. batch # NoBatch /\ batch.sealed /\ UNCHANGED sources
    BY <1>4 DEF CursorInfo, Base, Places, durable
  <2> QED BY <2>1 DEF Base, BatchOK, Ids, IsOpen
<1>5. CASE CloseLive
  <2>0. batch # NoBatch
    BY <1>5 DEF CloseLive
  <2>1. CASE ClosesAll
    BY <2>1 DEF ClosesAll, Keeps
  <2>2. CASE UNCHANGED sources /\ batch.sealed
    BY <2>0, <2>2 DEF Base, BatchOK, Ids, IsOpen
  <2>3. CASE UNCHANGED sources /\ ~batch.sealed /\ BatchSource.count = 0
    <3>1. batch.src \in Ids /\ Open(sources[batch.src]) /\ BatchSource = sources[batch.src]
      BY <2>0, <2>3, UnsealedFacts DEF Base
    <3>2. i = batch.src
      BY <2>3, <3>1 DEF Base, OneOpen, IsOpen, Ids
    <3> QED BY <2>3, <3>1, <3>2
  <2> QED BY <1>5, <2>1, <2>2, <2>3, LiveCloses DEF Base
<1>6. CASE CloseStored
  <2>1. pc' = "merge" /\ visit' = [visit EXCEPT !.next = visit'.next]
    BY <1>6, StoredCloses DEF CloseStored, Base
  <2>2. visit'.reason = visit.reason
    BY <2>1 DEF Base, Shapes, VisitType
  <2>3. visit.reason # "restart_interrupted"
    BY <2>1, <2>2 DEF Unseen
  <2> QED BY <1>6, <2>3, StoredCloses DEF Base, Keeps
<1>7. CASE MergeClosure
  <2>1. pc = "merge" /\ visit.reason # "restart_interrupted" /\ UNCHANGED sources
    BY <1>7 DEF MergeClosure, Committed, Unseen
  <2> QED BY <2>1 DEF MergeOK, Ids, IsOpen
<1> QED BY <1>1, <1>2, <1>3, <1>4, <1>5, <1>6, <1>7, LeftoverCases

-----------------------------------------------------------------------------
(* The frontier of the visit.                                                  *)

LEMMA GrowingStays ==
    ASSUME Base, [Next]_vars, Growing
    PROVE  \/ Growing' /\ batch'.src = batch.src
           \/ frontier' = None \/ CursorInfo \/ CloseLive
           \/ SessionInterrupted /\ pc = "reading"
<1> USE DEF device, durable, volatile, Fatal, RetireBatch
<1>0. /\ batch # NoBatch /\ (pc \in {"reading", "seal"} \/ batch.sealed)
      /\ pc \in {"reading", "seal", "retire"} => ~batch.sealed
      /\ batch \in BatchType /\ batch.src # 0
  BY RowFacts DEF Base, BatchOK, Places, Shapes, Growing
<1>1. CASE UNCHANGED vars \/ Environment
  BY <1>0, <1>1 DEF vars, Environment, DeviceRecords, DeviceMovesAhead, DeviceReboots, LinkLost,
                    Growing, NoBatch
<1>2. CASE AttemptGranted \/ Connect \/ FreshInfo \/ QuarantinePending \/ RingEmpty \/ AdmitBatch
           \/ LoadRecovery
  BY <1>0, <1>2 DEF AttemptGranted, Connect, FreshInfo, QuarantinePending, RingEmpty, AdmitBatch,
                    LoadRecovery, Growing, Base, Places, NoBatch
<1>3. CASE QuarantineDiscontinuous \/ RecordLoss \/ RetirePrefix \/ AlreadyComplete \/ PrepareLeg
  BY <1>0, <1>3 DEF QuarantineDiscontinuous, RecordLoss, RetirePrefix, AlreadyComplete, PrepareLeg,
                    ReadyToRead, Reconciling
<1>4. CASE LegRefused \/ SealRefused \/ CursorRejected \/ ClosureRefused \/ Crash \/ Shutdown
  BY <1>4 DEF LegRefused, SealRefused, CursorRejected, ClosureRefused, Crash, Shutdown
<1>5. CASE ReadBegin \/ ReceiveRecord \/ StoreRecord
  BY <1>0, <1>5 DEF ReadBegin, ReceiveRecord, StoreRecord, Growing, NoBatch
<1>6. CASE ReadDone \/ SealBatch
  <2>1. \/ batch' = [batch EXCEPT !.prefix = recv] /\ pc' = "seal"
        \/ batch' = [batch EXCEPT !.sealed = TRUE]
    BY <1>6 DEF ReadDone, SealBatch
  <2>2. batch'.src = batch.src /\ (pc' = "seal" \/ batch'.sealed)
    BY <1>0, <2>1 DEF BatchType
  <2> QED BY <1>0, <2>2 DEF NoBatch, Growing
<1>7. CASE ResumeSealed \/ SendAdvance \/ ConfirmDrain \/ AdvanceIgnored
  BY <1>0, <1>7 DEF ResumeSealed, SendAdvance, ConfirmDrain, AdvanceIgnored, Growing, NoBatch
<1>8. CASE SessionInterrupted
  <2>1. CASE pc # "reading"
    BY <1>0, <1>8, <2>1, SessionRows DEF Growing, NoBatch
  <2> QED BY <1>8, <2>1
<1>9. CASE CloseStored \/ MergeClosure \/ AppendClosure \/ Restart
  BY <1>0, <1>9 DEF CloseStored, MergeClosure, AppendClosure, Restart, Base, Places
<1>10. CASE RecoveryEnded \/ CandidateUnavailable \/ ConnectFails \/ PublishCohort
  BY <1>0, <1>10 DEF RecoveryEnded, CandidateUnavailable, ConnectFails, PublishCohort, Growing, NoBatch
<1> QED BY <1>1, <1>2, <1>3, <1>4, <1>5, <1>6, <1>7, <1>8, <1>9, <1>10 DEF Next, Host, Other

(* A frontier that stands.                                                     *)
LEMMA FrontierSame ==
    ASSUME Base, FrontierOK, [Next]_vars, UNCHANGED frontier,
           Growing => Growing' /\ batch'.src = batch.src
    PROVE  FrontierOK'
<1> SUFFICES ASSUME frontier # None PROVE \E i \in Ids' : FrontierAt(i)'
  BY DEF FrontierOK, None
<1>1. PICK i \in Ids : FrontierAt(i)
  BY DEF FrontierOK
<1>2. i \in Ids' /\ sources[i].start \in Nat /\ sources[i].count \in Nat /\ frontier \in Int
      /\ End(i) = sources[i].start + sources[i].count /\ sources'[i] \in Row
      /\ sources[i].count > 0
  BY <1>1, IdsGrow, RowFacts DEF Base, Shapes, FrontierAt
<1>3. CASE sources'[i].start = sources[i].start /\ sources'[i].count = sources[i].count
  <2>1. End(i)' = End(i)
    BY <1>3 DEF End, Frontier
  <2> QED BY <1>1, <1>2, <1>3, <2>1 DEF FrontierAt
<1>4. CASE Grows /\ pc = "reading" /\ i = batch.src
  <2>1. Growing
    BY <1>4 DEF Growing, Base, Places
  <2>2. sources'[i].start = sources[i].start /\ sources[i].count <= sources'[i].count
    BY <1>2, <1>4 DEF Grows, BatchSource
  <2>3. sources'[i].start \in Nat /\ sources'[i].count \in Nat
        /\ Frontier(sources'[i]) = sources'[i].start + sources'[i].count
    BY <1>2, RowFields
  <2>4. sources[i].start < frontier /\ frontier <= End(i)
    BY <1>1, <1>2 DEF FrontierAt
  <2> QED BY <1>2, <1>4, <2>1, <2>2, <2>3, <2>4 DEF FrontierAt, End
<1>5. CASE Adds
  BY <1>3, <1>5, AddedRow DEF Base
<1> QED BY <1>2, <1>3, <1>4, <1>5, Effects DEF Keeps, Grows

(* A frontier raised to the end of a source that holds records.                *)
LEMMA FrontierRaised ==
    ASSUME Base, FrontierOK, [Next]_vars, Keeps, NEW k \in Ids, sources[k].count > 0,
           frontier' = Retain(End(k)), Growing => k = batch.src
    PROVE  FrontierOK'
<1>0. frontier \in Int /\ End(k) \in Nat /\ Ids' = Ids
  BY RowFacts DEF Base, Shapes, Keeps
<1>1. \A i \in Ids : sources'[i].count = sources[i].count /\ End(i)' = End(i)
  BY DEF Keeps, End, Frontier
<1>2. CASE frontier' = End(k)
  BY <1>0, <1>1, <1>2 DEF FrontierOK, FrontierAt
<1>3. CASE frontier' = frontier /\ frontier # None /\ frontier >= End(k)
  <2>1. PICK i \in Ids : FrontierAt(i)
    BY <1>3 DEF FrontierOK
  <2>2. End(i) = frontier
    BY <1>0, <1>3, <2>1, RowFacts DEF FrontierAt, Base
  <2> QED BY <1>0, <1>1, <1>3, <2>1, <2>2 DEF FrontierOK, FrontierAt
<1> QED BY <1>0, <1>2, <1>3 DEF Retain

LEMMA FrontierStep ==
    ASSUME Base, FrontierOK, [Next]_vars
    PROVE  FrontierOK'
<1>1. CASE frontier' = None
  BY <1>1 DEF FrontierOK, None
<1>2. CASE UNCHANGED frontier /\ (Growing => Growing' /\ batch'.src = batch.src)
  BY <1>2, FrontierSame
<1>3. CASE LoadRecovery
  <2>1. CASE UNCHANGED frontier
    <3>1. frontier = None
      BY <1>3 DEF LoadRecovery, Base, Places
    <3> QED BY <1>1, <2>1, <3>1
  <2>2. CASE frontier' # frontier
    <3>1. PICK i \in OpenSources :
            /\ frontier' = IF DurableNext(sources[i]) > sources[i].start
                           THEN Retain(DurableNext(sources[i])) ELSE frontier
            /\ UNCHANGED sources
      BY <1>3, <2>2 DEF LoadRecovery
    <3>2. i \in Ids /\ DurableNext(sources[i]) = End(i)
      BY <3>1 DEF OpenSources, Ids, DurableNext, End
    <3>3. frontier' = Retain(End(i)) /\ sources[i].count > 0
      BY <2>2, <3>1, <3>2, RowFacts DEF Base
    <3>4. Keeps /\ ~Growing
      BY <1>3, <3>1, SameKeeps DEF Base, Growing, LoadRecovery, Places
    <3> QED BY <3>2, <3>3, <3>4, FrontierRaised
  <2> QED BY <2>1, <2>2
<1>4. CASE RetirePrefix
  <2>1. pc = "retire" /\ batch # NoBatch /\ ~batch.sealed
        /\ frontier' = IF BatchSource.count > 0 THEN Retain(batch.prefix) ELSE frontier
    BY <1>4 DEF RetirePrefix, Base, Places
  <2>2. Keeps /\ batch.src \in Ids /\ batch.prefix = End(batch.src) /\ ~Growing
    BY <1>4, <2>1, RetireCloses DEF Base, BatchOK, Growing, ClosesAll
  <2>3. CASE BatchSource.count > 0
    BY <2>1, <2>2, <2>3, FrontierRaised DEF BatchSource
  <2>4. CASE ~(BatchSource.count > 0)
    BY <1>2, <2>1, <2>2, <2>4
  <2> QED BY <2>3, <2>4
<1>5. CASE CursorInfo
  <2>1. pc \in {"advance_info", "ack_info"} /\ batch # NoBatch /\ batch.sealed /\ UNCHANGED sources
    BY <1>5 DEF CursorInfo, durable, Base, Places
  <2>2. batch.src \in Ids /\ End(batch.src) = batch.end /\ BatchSource.life \in Full
    BY <2>1 DEF Base, BatchOK, Full
  <2>3. sources[batch.src].count > 0
    BY <2>2, RowFacts DEF Base, BatchSource
  <2>4. CASE CompleteBatch
    <3>1. frontier' = Retain(End(batch.src)) /\ Keeps
      BY <2>1, <2>2, <2>4, SameKeeps DEF CompleteBatch, Base
    <3> QED BY <2>2, <2>3, <3>1, FrontierRaised
  <2>5. CASE UNCHANGED <<batch, frontier>>
    <3>1. Growing => Growing' /\ batch'.src = batch.src
      BY <2>1, <2>5 DEF Growing, NoBatch
    <3> QED BY <1>2, <2>5, <3>1
  <2> QED BY <1>5, <2>4, <2>5 DEF CursorInfo
<1>6. CASE CloseLive
  <2>1. pc = "close" /\ batch # NoBatch
        /\ frontier' = IF batch.sealed \/ BatchSource.count > 0 THEN Retain(ClosingFrontier) ELSE frontier
    BY <1>6 DEF CloseLive
  <2>2. batch.src \in Ids /\ ClosingFrontier = End(batch.src) /\ BatchSource = sources[batch.src]
    BY <2>1, BatchNumbers DEF ClosingFrontier
  <2>3. Keeps
    BY <1>6, LiveCloses, SameKeeps DEF Base, ClosesAll
  <2>4. CASE batch.sealed \/ BatchSource.count > 0
    <3>1. batch.sealed => sources[batch.src].life \in Full
      BY <2>1, <2>2 DEF Base, BatchOK, Full
    <3>2. sources[batch.src].count > 0
      BY <2>2, <2>4, <3>1, RowFacts DEF Base
    <3> QED BY <2>1, <2>2, <2>3, <2>4, <3>2, FrontierRaised
  <2>5. CASE ~(batch.sealed \/ BatchSource.count > 0)
    <3>1. ~Growing /\ UNCHANGED frontier
      BY <2>1, <2>5 DEF Growing
    <3> QED BY <1>2, <3>1
  <2> QED BY <2>4, <2>5
<1>7. CASE SessionInterrupted /\ pc = "reading"
  <2>1. /\ Grows /\ BatchSource.count <= sources'[batch.src].count
        /\ frontier' = IF sources'[batch.src].count > 0
                             THEN Retain(Frontier(sources'[batch.src])) ELSE frontier
    BY <1>7, SessionRows DEF Grows
  <2>2. batch # NoBatch /\ batch.src \in Ids /\ batch.src \in Ids' /\ sources'[batch.src] \in Row
        /\ BatchSource \in Row /\ sources'[batch.src].start = BatchSource.start
        /\ BatchSource = sources[batch.src]
    BY <1>7, <2>1, IdsGrow, ReadingFacts DEF Grows, Base, Places, BatchSource
  <2>3. /\ sources'[batch.src].count \in Nat /\ BatchSource.count \in Nat /\ BatchSource.start \in Nat
        /\ Frontier(sources'[batch.src]) = BatchSource.start + sources'[batch.src].count
        /\ End(batch.src) = BatchSource.start + BatchSource.count
    BY <2>2, RowFields DEF End
  <2>4. CASE frontier' = Frontier(sources'[batch.src]) /\ sources'[batch.src].count > 0
    BY <2>2, <2>4 DEF FrontierOK, FrontierAt, End
  <2>5. CASE frontier' = frontier /\ frontier # None
             /\ (sources'[batch.src].count > 0 => frontier >= Frontier(sources'[batch.src]))
    <3>1. PICK i \in Ids : FrontierAt(i)
      BY <2>5 DEF FrontierOK
    <3>2. frontier \in Int
      BY DEF Base, Shapes
    <3>3. CASE i # batch.src
      <4>1. i \in Ids' /\ sources'[i] = sources[i] /\ End(i) = frontier /\ sources[i].count > 0
        BY <2>1, <3>1, <3>3 DEF Grows, FrontierAt
      <4> QED BY <2>5, <4>1 DEF FrontierOK, FrontierAt, End
    <3>4. CASE i = batch.src
      <4>1. frontier <= End(i) /\ sources[i].count > 0
        BY <2>2, <2>3, <3>1, <3>2, <3>4 DEF FrontierAt
      <4>2. frontier' = Frontier(sources'[batch.src]) /\ sources'[batch.src].count > 0
        BY <2>1, <2>2, <2>3, <2>5, <3>2, <3>4, <4>1
      <4> QED BY <2>4, <4>2
    <3> QED BY <3>3, <3>4
  <2>6. frontier \in Int /\ Frontier(sources'[batch.src]) \in Int
    BY <2>3 DEF Base, Shapes
  <2> QED BY <1>1, <2>1, <2>4, <2>5, <2>6 DEF Retain
<1>8. CASE SessionInterrupted /\ pc # "reading"
  <2>1. UNCHANGED <<batch, frontier>> /\ (batch = NoBatch \/ batch.sealed)
    BY <1>8, SessionRows
  <2>2. Growing => Growing' /\ batch'.src = batch.src
    BY <2>1 DEF Growing, NoBatch
  <2> QED BY <1>2, <2>1, <2>2
<1> QED BY <1>1, <1>2, <1>3, <1>4, <1>5, <1>6, <1>7, <1>8, GrowingStays, FramesHold DEF Frames

-----------------------------------------------------------------------------
(* The closure that close_pending_prefix decided.                              *)

LEMMA MergeCases ==
    ASSUME Base, [Next]_vars
    PROVE  pc' # "merge" \/ CloseStored \/ (pc = "merge" /\ UNCHANGED <<visit, sources>>)
<1> USE DEF device, durable, volatile, Fatal, CompleteBatch, Committed
<1>1. CASE UNCHANGED vars \/ Environment
  BY <1>1 DEF vars, Environment, DeviceRecords, DeviceMovesAhead, DeviceReboots, LinkLost
<1>2. CASE LoadRecovery \/ AttemptGranted \/ Connect \/ FreshInfo \/ QuarantinePending \/ AdmitBatch
  BY <1>2 DEF LoadRecovery, AttemptGranted, Connect, FreshInfo, QuarantinePending, AdmitBatch
<1>3. CASE RingEmpty \/ QuarantineDiscontinuous \/ RecordLoss \/ RetirePrefix \/ AlreadyComplete
  BY <1>3 DEF RingEmpty, QuarantineDiscontinuous, RecordLoss, RetirePrefix, AlreadyComplete
<1>4. CASE PrepareLeg \/ LegRefused \/ ReadBegin \/ ReceiveRecord \/ ReadDone \/ SealBatch \/ SealRefused
  BY <1>4 DEF PrepareLeg, LegRefused, ReadBegin, ReceiveRecord, ReadDone, SealBatch, SealRefused
<1>5. CASE ResumeSealed \/ CursorInfo \/ CursorRejected \/ SendAdvance \/ ConfirmDrain
  BY <1>5 DEF ResumeSealed, CursorInfo, CursorRejected, SendAdvance, ConfirmDrain
<1>6. CASE SessionInterrupted \/ MergeClosure \/ CloseLive \/ AppendClosure \/ ClosureRefused
  BY <1>6 DEF SessionInterrupted, MergeClosure, CloseLive, AppendClosure, ClosureRefused
<1>7. CASE Restart \/ StoreRecord \/ PublishCohort \/ RecoveryEnded
  BY <1>7 DEF Restart, StoreRecord, PublishCohort, RecoveryEnded
<1>8. CASE CandidateUnavailable \/ ConnectFails \/ AdvanceIgnored \/ Crash \/ Shutdown
  BY <1>8 DEF CandidateUnavailable, ConnectFails, AdvanceIgnored, Crash, Shutdown
<1> QED BY <1>1, <1>2, <1>3, <1>4, <1>5, <1>6, <1>7, <1>8 DEF Next, Host, Other

LEMMA MergeStep ==
    ASSUME Base, MergeOK, [Next]_vars
    PROVE  MergeOK'
<1>1. CASE pc' # "merge"
  BY <1>1 DEF MergeOK
<1>2. CASE pc = "merge" /\ UNCHANGED <<visit, sources>>
  BY <1>2 DEF MergeOK, ClosedAt, Ids, IsOpen, End, None
<1>3. CASE CloseStored
  <2>1. visit' = [visit EXCEPT !.next = visit'.next]
    BY <1>3, StoredCloses DEF Base
  <2>2. visit'.reason = visit.reason
    BY <2>1 DEF Base, Shapes, VisitType
  <2>3. Ids' = Ids /\ \A i \in Ids : End(i)' = End(i)
    BY <1>3, StoredCloses DEF Base, Keeps, End, Frontier
  <2>4. visit.reason # "restart_interrupted" => \A i \in Ids : ~Open(sources'[i])
    BY <1>3, StoredCloses DEF Base
  <2>5. \/ visit'.next = None /\ \A i \in Ids : sources'[i].life # "sealed_waiting"
        \/ /\ visit'.next \in Nat
           /\ \E i \in Ids : ~Open(sources'[i]) /\ End(i) = visit'.next
           /\ \A i \in Ids : sources'[i].life = "sealed_waiting" => End(i) <= visit'.next
    BY <1>3, StoredCloses DEF Base
  <2> QED BY <2>2, <2>3, <2>4, <2>5 DEF MergeOK, ClosedAt, IsOpen, None
<1> QED BY <1>1, <1>2, <1>3, MergeCases

-----------------------------------------------------------------------------
(* What the device passed by itself.                                           *)

(* Every record below the cursor, at or above n, was passed by the device.     *)
PassedFrom(n) == \A r \in Int : n <= r /\ r < dev.read => r \in skipped

LEMMA PassedStep ==
    ASSUME Base, [Next]_vars, NEW n \in Int, PassedFrom(n), ~SendAdvance
    PROVE  PassedFrom(n)'
<1>0. dev.read \in Int /\ dev.write \in Int
  BY DEF Base, Shapes
<1>1. CASE DeviceMovesAhead
  <2>1. PICK to \in (dev.read + 1) .. dev.write :
           dev' = [dev EXCEPT !.read = to] /\ skipped' = skipped \cup Records(dev.read, to)
    BY <1>1 DEF DeviceMovesAhead
  <2>2. dev'.read = to
    BY <2>1 DEF Base, Shapes
  <2> QED BY <1>0, <2>1, <2>2 DEF PassedFrom, Records
<1>2. CASE DeviceReboots
  <2>1. PICK to \in 0 .. (dev.read - 1) : dev' = [dev EXCEPT !.read = to]
    BY <1>2 DEF DeviceReboots
  <2>2. dev'.read = to /\ UNCHANGED skipped
    BY <1>2, <2>1 DEF Base, Shapes, DeviceReboots
  <2> QED BY <1>0, <2>1, <2>2 DEF PassedFrom
<1>3. CASE DeviceRecords
  <2>1. dev'.read = dev.read /\ UNCHANGED skipped
    BY <1>3 DEF DeviceRecords, Base, Shapes
  <2> QED BY <2>1 DEF PassedFrom
<1>4. CASE UNCHANGED dev /\ UNCHANGED skipped
  BY <1>4 DEF PassedFrom
<1> QED BY <1>1, <1>2, <1>3, <1>4, FramesHold DEF Frames

LEMMA InfoCases ==
    ASSUME Base, [Next]_vars
    PROVE  \/ pc' # "step" \/ (pc = "step" /\ UNCHANGED info)
           \/ info' = dev /\ UNCHANGED <<dev, skipped, sources>>
<1> USE DEF device, durable, volatile, Fatal, CompleteBatch, Committed
<1>1. CASE UNCHANGED vars \/ Environment
  BY <1>1 DEF vars, Environment, DeviceRecords, DeviceMovesAhead, DeviceReboots, LinkLost
<1>2. CASE LoadRecovery \/ AttemptGranted \/ Connect \/ FreshInfo \/ QuarantinePending \/ AdmitBatch
  BY <1>2 DEF LoadRecovery, AttemptGranted, Connect, FreshInfo, QuarantinePending, AdmitBatch
<1>3. CASE RingEmpty \/ QuarantineDiscontinuous \/ RecordLoss \/ RetirePrefix \/ AlreadyComplete
  BY <1>3 DEF RingEmpty, QuarantineDiscontinuous, RecordLoss, RetirePrefix, AlreadyComplete
<1>4. CASE PrepareLeg \/ LegRefused \/ ReadBegin \/ ReceiveRecord \/ ReadDone \/ SealBatch \/ SealRefused
  BY <1>4 DEF PrepareLeg, LegRefused, ReadBegin, ReceiveRecord, ReadDone, SealBatch, SealRefused
<1>5. CASE ResumeSealed \/ CursorInfo \/ CursorRejected \/ SendAdvance \/ ConfirmDrain
  BY <1>5 DEF ResumeSealed, CursorInfo, CursorRejected, SendAdvance, ConfirmDrain
<1>6. CASE SessionInterrupted \/ CloseStored \/ MergeClosure \/ CloseLive \/ AppendClosure \/ ClosureRefused
  BY <1>6 DEF SessionInterrupted, CloseStored, MergeClosure, CloseLive, AppendClosure, ClosureRefused
<1>7. CASE Restart \/ StoreRecord \/ PublishCohort \/ RecoveryEnded
  BY <1>7 DEF Restart, StoreRecord, PublishCohort, RecoveryEnded
<1>8. CASE CandidateUnavailable \/ ConnectFails \/ AdvanceIgnored \/ Crash \/ Shutdown
  BY <1>8 DEF CandidateUnavailable, ConnectFails, AdvanceIgnored, Crash, Shutdown
<1> QED BY <1>1, <1>2, <1>3, <1>4, <1>5, <1>6, <1>7, <1>8 DEF Next, Host, Other

(* An open source was open, and ended no later, or begins at the INFO in hand. *)
LEMMA OpenOrigin ==
    ASSUME Base, [Next]_vars, NEW i \in Ids', Open(sources'[i])
    PROVE  /\ End(i)' \in Int
           /\ \/ i \in Ids /\ IsOpen(i) /\ End(i) \in Int /\ End(i) <= End(i)'
              \/ AdmitBatch /\ pc = "step" /\ pc' = "step" /\ End(i)' = info.read /\ UNCHANGED <<info, dev>>
<1>0. sources'[i] \in Row
  BY IdsGrow
<1>1. /\ End(i)' \in Int /\ sources'[i].start \in Nat /\ sources'[i].count \in Nat
      /\ End(i)' = sources'[i].start + sources'[i].count
  BY <1>0, RowFields DEF End
<1>2. CASE Keeps
  <2>1. i \in Ids /\ IsOpen(i) /\ sources'[i].start = sources[i].start /\ sources'[i].count = sources[i].count
    BY <1>2 DEF Keeps, IsOpen
  <2> QED BY <1>1, <2>1, RowFacts DEF Base
<1>3. CASE Grows
  <2>1. i \in Ids /\ IsOpen(i) /\ sources'[i].start = sources[i].start
    BY <1>3 DEF Grows, IsOpen, BatchSource
  <2>2. sources[i].count <= sources'[i].count
    <3>1. CASE i = batch.src
      BY <1>3, <3>1 DEF Grows, BatchSource
    <3>2. CASE i # batch.src
      <4>1. sources'[i] = sources[i] /\ sources[i].count \in Nat
        BY <1>3, <2>1, <3>2, RowFacts DEF Grows, Base
      <4> QED BY <4>1
    <3> QED BY <3>1, <3>2
  <2> QED BY <1>1, <2>1, <2>2, RowFacts DEF Base
<1>4. CASE Adds /\ AdmitBatch
  <2>1. PICK k \in Ids' :
              \/ Keeps
              \/ /\ Adds /\ k = Len(sources) + 1 /\ pending = NoPending
                 /\ sources' = Append(sources, NewSource(AdmitStart, AdmitEnd))
    BY <1>4, AdmitCases DEF Base
  <2>2. CASE /\ pending = NoPending
             /\ sources' = Append(sources, NewSource(AdmitStart, AdmitEnd))
    <3>1. \A j \in Ids : sources'[j] = sources[j] /\ ~Open(sources[j])
      BY <1>4, AddedRow DEF Base
    <3>2. i = Len(sources) + 1
      BY <1>4, <3>1, AddedRow DEF Base
    <3>3. sources'[i] = NewSource(AdmitStart, AdmitEnd)
      BY <2>2, <3>2, RowFacts DEF Base
    <3>4. AdmitStart = info.read /\ AdmitStart \in Nat
      BY <1>4, <2>2, AdmitBounds DEF Base
    <3>5. End(i)' = info.read
      BY <1>1, <3>3, <3>4 DEF NewSource
    <3> QED BY <1>1, <1>4, <3>5 DEF AdmitBatch, device
  <2> QED BY <1>2, <2>1, <2>2
<1> QED BY <1>2, <1>3, <1>4, Effects

LEMMA SkipStep ==
    ASSUME Base, SkipOK, [Next]_vars
    PROVE  SkipOK'
<1>0. /\ \A i \in Ids : IsOpen(i) => PassedFrom(End(i))
      /\ pc = "step" => PassedFrom(info.read)
  BY DEF SkipOK, PassedFrom
<1>1. CASE SendAdvance
  <2>1. batch # NoBatch /\ batch.sealed /\ UNCHANGED sources /\ pc' = "ack_info"
    BY <1>1 DEF SendAdvance, durable, Base, Places
  <2>2. \A i \in Ids' : ~Open(sources'[i])
    BY <2>1 DEF Base, BatchOK, Ids, IsOpen
  <2> QED BY <2>1, <2>2 DEF SkipOK, IsOpen
<1>2. CASE ~SendAdvance
  <2>1. ASSUME NEW i \in Ids', Open(sources'[i]), NEW r \in Int, End(i)' <= r, r < dev'.read
        PROVE  r \in skipped'
    <3>1. CASE i \in Ids /\ IsOpen(i) /\ End(i) \in Int /\ End(i) <= End(i)'
      <4>1. PassedFrom(End(i))'
        <5>1. PassedFrom(End(i))
          BY <1>0, <3>1
        <5> DEFINE n == End(i)
        <5>2. n \in Int /\ PassedFrom(n)
          BY <3>1, <5>1
        <5>3. \A m \in Int : PassedFrom(m) => \A q \in Int : m <= q /\ q < dev'.read => q \in skipped'
          BY <1>2, PassedStep DEF PassedFrom
        <5>4. \A q \in Int : n <= q /\ q < dev'.read => q \in skipped'
          BY <5>2, <5>3
        <5>5. End(i)' \in Int /\ n <= End(i)'
          BY <2>1, <3>1, OpenOrigin
        <5> HIDE DEF n
        <5>6. \A q \in Int : End(i)' <= q /\ q < dev'.read => q \in skipped'
          <6>1. dev'.read \in Int
            BY FramesHold, DeviceStep DEF DeviceOK
          <6> QED BY <5>2, <5>4, <5>5, <6>1
        <5> QED BY <5>6 DEF PassedFrom
      <4> QED BY <2>1, <4>1 DEF PassedFrom
    <3>2. CASE pc = "step" /\ End(i)' = info.read /\ UNCHANGED <<info, dev>> /\ AdmitBatch
      <4>1. UNCHANGED skipped
        BY <3>2 DEF AdmitBatch
      <4> QED BY <1>0, <2>1, <3>2, <4>1 DEF PassedFrom
    <3> QED BY <2>1, <3>1, <3>2, OpenOrigin
  <2>2. CASE pc = "step" /\ UNCHANGED info /\ pc' = "step"
    <3>1. info.read \in Int /\ PassedFrom(info.read)
      BY <1>0, <2>2 DEF Base, Shapes, InfoType
    <3>2. \A r \in Int : info'.read <= r /\ r < dev'.read => r \in skipped'
      <4> DEFINE n == info.read
      <4>1. \A m \in Int : PassedFrom(m) => \A q \in Int : m <= q /\ q < dev'.read => q \in skipped'
        BY <1>2, PassedStep DEF PassedFrom
      <4>2. \A q \in Int : n <= q /\ q < dev'.read => q \in skipped'
        BY <3>1, <4>1
      <4> QED BY <2>2, <4>2
    <3>3. ASSUME NEW i \in Ids', Open(sources'[i]), NEW r \in Int, End(i)' <= r, r < info'.read
          PROVE  r \in skipped'
      <4>1. CASE i \in Ids /\ IsOpen(i) /\ End(i) \in Int /\ End(i) <= End(i)'
        <5>1. End(i)' \in Int
          BY <3>3, OpenOrigin
        <5>2. End(i) <= r /\ r < info.read
          BY <2>2, <3>1, <3>3, <4>1, <5>1
        <5>3. r \in skipped
          BY <2>2, <4>1, <5>2 DEF SkipOK
        <5>4. skipped \subseteq skipped'
          BY FramesHold DEF Frames, DeviceMovesAhead
        <5> QED BY <5>3, <5>4
      <4>2. CASE End(i)' = info.read
        BY <2>2, <3>1, <3>3, <4>2
      <4> QED BY <3>3, <4>1, <4>2, OpenOrigin
    <3> QED BY <2>1, <3>2, <3>3 DEF SkipOK, IsOpen
  <2>3. CASE info' = dev /\ UNCHANGED <<dev, skipped, sources>>
    <3>1. dev.read \in Int
      BY DEF Base, Shapes
    <3>2. \A r \in Int : info'.read <= r /\ r < dev'.read => r \in skipped'
      BY <2>3, <3>1
    <3> QED BY <2>1, <2>3, <3>2 DEF SkipOK, IsOpen
  <2>4. CASE pc' # "step"
    BY <2>1, <2>4 DEF SkipOK, IsOpen
  <2> QED BY <2>2, <2>3, <2>4, InfoCases
<1> QED BY <1>1, <1>2

-----------------------------------------------------------------------------
(* Closures and the records that ADVANCE gave up.                              *)

(* A source that is not open keeps its records, and stays out of capture.      *)
LEMMA ClosedStays ==
    ASSUME Base, [Next]_vars, NEW i \in Ids, ~IsOpen(i)
    PROVE  /\ i \in Ids' /\ ~Open(sources'[i]) /\ End(i)' = End(i)
           /\ sources'[i].start = sources[i].start
           /\ sources[i].life \in Full => sources'[i].life \in Full
           /\ sources'[i].life = "sealed_waiting" => sources[i].life = "sealed_waiting"
<1>1. i \in Ids'
  BY IdsGrow
<1>2. CASE Keeps
  BY <1>1, <1>2 DEF Keeps, IsOpen, End, Frontier, Full
<1>3. CASE Grows
  <2>1. i # batch.src
    BY <1>3 DEF Grows, IsOpen, BatchSource
  <2> QED BY <1>1, <1>3, <2>1 DEF Grows, IsOpen, End
<1>4. CASE Adds
  BY <1>1, <1>4, AddedRow DEF IsOpen, End, Base
<1> QED BY <1>2, <1>3, <1>4, Effects

LEMMA DrainStep ==
    ASSUME Base, DrainOK, MergeOK, [Next]_vars
    PROVE  DrainOK'
<1>0. closure \in ClosureType /\ (closure # NoClosure => closure.next \in Nat)
  BY DEF Base, Shapes
<1>1. CASE closure' = closure
  <2>1. SUFFICES ASSUME closure.reason = "drained"
                 PROVE  \A i \in Ids' : ~Open(sources'[i]) /\ (sources'[i].life = "sealed_waiting"
                                                               => End(i)' <= closure.next)
    BY <1>1 DEF DrainOK, IsOpen
  <2>2. pc \in {"recover", "wait", "down"} /\ \A i \in Ids : ~IsOpen(i)
    BY <2>1 DEF Base, Places, DrainOK
  <2>3. Ids' = Ids
    BY <2>2, Effects DEF Keeps, Grows, AdmitBatch
  <2> QED BY <2>1, <2>2, <2>3, ClosedStays DEF DrainOK
<1>2. CASE closure' = Fenced(closure)
  BY <1>0, <1>2, ClosureShape DEF DrainOK
<1>3. CASE PublishCohort
  BY <1>3 DEF PublishCohort, NoClosure, DrainOK
<1>4. CASE MergeClosure
  <2>1. /\ pc = "merge" /\ UNCHANGED sources
        /\ closure' = IF visit.next = None THEN closure
                      ELSE RecoveredClosure(closure, visit.next, visit.reason)
    BY <1>4 DEF MergeClosure
  <2>2. closure.reason # "drained" /\ (visit.next # None => visit.next \in Nat)
    BY <2>1 DEF Base, Places, MergeOK
  <2>3. SUFFICES ASSUME closure'.reason = "drained", NEW i \in Ids
                 PROVE  ~IsOpen(i) /\ (sources[i].life = "sealed_waiting" => End(i) <= closure'.next)
    BY <2>1 DEF DrainOK, IsOpen, End, Ids
  <2>4. visit.next # None /\ visit.reason = "drained"
        /\ (closure'.next = visit.next \/ (closure'.next \in Nat /\ visit.next <= closure'.next))
    BY <1>0, <2>1, <2>2, <2>3 DEF RecoveredClosure, ClosureType
  <2>5. ~IsOpen(i) /\ (sources[i].life = "sealed_waiting" => End(i) <= visit.next)
    BY <2>1, <2>4 DEF MergeOK
  <2>6. End(i) \in Nat
    BY RowFacts DEF Base
  <2> QED BY <2>2, <2>4, <2>5, <2>6
<1>5. CASE AppendClosure
  <2>1. closure.reason # "drained" /\ visit.reason # "drained"
    BY <1>5 DEF AppendClosure, Base, Places
  <2>2. closure'.reason # "drained"
    BY <1>5, <2>1 DEF AppendClosure, AppendedClosure
  <2> QED BY <2>2 DEF DrainOK
<1> QED BY <1>1, <1>2, <1>3, <1>4, <1>5, FramesHold DEF Frames

LEMMA BackedStep ==
    ASSUME Base, BackedOK, MergeOK, FrontierOK, LeftoverOK, [Next]_vars
    PROVE  BackedOK'
<1>0. closure \in ClosureType /\ (closure # NoClosure => closure.next \in Nat)
  BY DEF Base, Shapes
<1>1. \A n : ClosedAt(n) => \E i \in Ids' : ~Open(sources'[i]) /\ End(i)' = n
  BY ClosedStays DEF ClosedAt
<1> SUFFICES ASSUME closure' # NoClosure
             PROVE  \E i \in Ids' : ~Open(sources'[i]) /\ End(i)' = closure'.next
  BY DEF BackedOK, ClosedAt, IsOpen, NoClosure
<1>2. CASE closure # NoClosure /\ closure'.next = closure.next
  BY <1>1, <1>2 DEF BackedOK
<1>3. CASE closure' \in {closure, Fenced(closure)}
  <2>1. closure # NoClosure
    BY <1>3 DEF Fenced, NoClosure
  <2>2. closure'.next = closure.next
    BY <1>0, <1>3, ClosureShape
  <2> QED BY <1>2, <2>1, <2>2
<1>4. CASE PublishCohort
  BY <1>4 DEF PublishCohort
<1>5. CASE MergeClosure
  <2>1. /\ pc = "merge" /\ UNCHANGED sources
        /\ closure' = IF visit.next = None THEN closure
                      ELSE RecoveredClosure(closure, visit.next, visit.reason)
    BY <1>5 DEF MergeClosure
  <2>2. CASE visit.next # None /\ closure'.next = visit.next
    BY <1>1, <2>1, <2>2 DEF MergeOK
  <2>3. CASE closure # NoClosure /\ closure'.next = closure.next
    BY <1>2, <2>3
  <2> QED BY <1>0, <2>1, <2>2, <2>3 DEF RecoveredClosure, ClosureType
<1>6. CASE AppendClosure
  <2>1. /\ pc = "append" /\ UNCHANGED sources /\ batch = NoBatch /\ pending = NoPending
        /\ closure' = IF frontier = None THEN closure
                      ELSE AppendedClosure(closure, frontier, visit.reason)
        /\ visit.reason \notin {"drained", "restart_interrupted"}
    BY <1>6 DEF AppendClosure, Base, Places
  <2>2. CASE frontier # None
    <3>1. PICK i \in Ids : FrontierAt(i)
      BY <2>2 DEF FrontierOK
    <3>2. sources[i].count > 0 /\ End(i) = frontier
      BY <2>1, <3>1 DEF FrontierAt, Growing
    <3>3. ~IsOpen(i)
      BY <2>1, <3>2, RowFacts DEF LeftoverOK, Unseen, Base
    <3>4. closure'.next = frontier
      BY <2>1, <2>2 DEF AppendedClosure
    <3> QED BY <1>1, <3>2, <3>3, <3>4 DEF ClosedAt
  <2>3. CASE frontier = None
    BY <1>2, <2>1, <2>3
  <2> QED BY <2>2, <2>3
<1> QED BY <1>3, <1>4, <1>5, <1>6, FramesHold DEF Frames

LEMMA CustodyStep ==
    ASSUME Base, HostAdvanceIsCustodied, [Next]_vars
    PROVE  HostAdvanceIsCustodied'
<1>2. ASSUME NEW r, NEW i \in Ids, sources[i].life \in Full, Holds(sources[i], r)
      PROVE  \E j \in Ids' : sources'[j].life \in Full /\ Holds(sources'[j], r)
  <2>1. ~IsOpen(i)
    BY <1>2 DEF IsOpen, Open, OpenLives, Full
  <2> QED BY <1>2, <2>1, ClosedStays DEF Holds, End
<1>3. ASSUME NEW r \in consumed'
      PROVE  \E i \in Ids : sources[i].life \in Full /\ Holds(sources[i], r)
  <2>1. CASE r \in consumed
    BY <2>1 DEF HostAdvanceIsCustodied, Full, Ids
  <2>2. CASE r \notin consumed
    <3>1. SendAdvance
      BY <1>3, <2>2, FramesHold DEF Frames
    <3>2. r \in Records(dev.read, batch.end) /\ batch # NoBatch /\ batch.sealed /\ pc = "advance" /\ link
      BY <1>3, <2>2, <3>1 DEF SendAdvance, AdvanceTarget, Base, Places
    <3>3. /\ batch.src \in Ids /\ sources[batch.src].life \in Full
          /\ End(batch.src) = batch.end /\ BatchSource.start <= batch.start /\ batch.start <= dev.read
      BY <3>2 DEF Base, BatchOK, Full, BatchSource
    <3>4. r \in Int /\ dev.read <= r /\ r < batch.end
      BY <3>2, BatchNumbers DEF Records
    <3>5. Holds(sources[batch.src], r)
      BY <3>2, <3>3, <3>4, BatchNumbers DEF Holds, BatchSource, End
    <3> QED BY <3>3, <3>5
  <2> QED BY <2>1, <2>2
<1> QED BY <1>2, <1>3 DEF HostAdvanceIsCustodied, Full, Ids

-----------------------------------------------------------------------------
LEMMA InitInv == ASSUME Init PROVE IndInv
<1>1. sources = <<>> /\ Ids = {} /\ Len(sources) = 0
  BY DEF Init, Ids
<1>2. RowsOK
  BY <1>1 DEF RowsOK
<1>3. Shapes
  <2>1. visit \in VisitType
    <3>1. "Recovering" \in VisitNames /\ "none" \in VisitReasons /\ 0 \in Int
      BY DEF VisitNames, VisitReasons
    <3>2. VisitState("Recovering") \in VisitType
      BY <3>1, VisitStates
    <3> QED BY <3>2 DEF Init, Recovering
  <2>2. closure \in ClosureType /\ (closure # NoClosure => closure.next \in Nat)
    BY DEF Init, NoClosure, ClosureType, None
  <2>3. batch \in BatchType /\ pending \in PendingType /\ batch.src <= Len(sources)
        /\ pending.src <= Len(sources)
    BY <1>1 DEF Init, NoBatch, NoPending, BatchType, PendingType, None
  <2>4. dev \in [read: Nat, write: Nat] /\ dev.read <= dev.write /\ dev.write <= MaxSequence
        /\ info \in InfoType /\ info.write <= dev.write /\ info = NoInfo
    BY MaxSequenceAssumption DEF Init, InfoType, NoInfo, None
  <2>5. link \in BOOLEAN
    BY DEF Init
  <2>6. frontier \in Int /\ recv \in Sequence /\ faults \in 0 .. MaxFaults
    BY MaxSequenceAssumption, MaxFaultsAssumption DEF Init, None, Sequence
  <2>7. losses = {}
    BY DEF Init
  <2> QED BY <2>1, <2>2, <2>3, <2>4, <2>5, <2>6, <2>7 DEF Shapes
<1>4. OneOpen /\ FrontierOK
  BY <1>1 DEF OneOpen, FrontierOK, Init
<1>5. Places
  BY DEF Places, Init
<1>6. BatchOK /\ PendingOK
  BY DEF BatchOK, PendingOK, Init
<1>7. LeftoverOK
  BY <1>1 DEF LeftoverOK
<1>8. MergeOK
  BY DEF MergeOK, Init
<1>9. SkipOK
  BY <1>1 DEF SkipOK, Init
<1>10. DrainOK /\ BackedOK
  BY <1>1 DEF DrainOK, BackedOK, Init
<1>11. HostAdvanceIsCustodied
  BY DEF HostAdvanceIsCustodied, Init
<1> QED BY <1>2, <1>3, <1>4, <1>5, <1>6, <1>7, <1>8, <1>9, <1>10, <1>11 DEF IndInv

LEMMA NextInv == ASSUME IndInv, [Next]_vars PROVE IndInv'
<1>1. Base /\ LeftoverOK /\ FrontierOK /\ MergeOK /\ SkipOK /\ DrainOK /\ BackedOK
      /\ HostAdvanceIsCustodied
  BY DEF IndInv, Base
<1>2. RowsOK' /\ OneOpen' /\ Shapes' /\ Places'
  BY <1>1, RowsStep, ShapesStep, PlacesStep
<1>3. BatchOK' /\ PendingOK' /\ LeftoverOK' /\ FrontierOK'
  BY <1>1, BatchStep, PendingStep, LeftoverStep, FrontierStep
<1>4. MergeOK' /\ SkipOK' /\ DrainOK' /\ BackedOK' /\ HostAdvanceIsCustodied'
  BY <1>1, MergeStep, SkipStep, DrainStep, BackedStep, CustodyStep
<1> QED BY <1>2, <1>3, <1>4 DEF IndInv

(* What the coordinator holds in memory (batch, pending source, visit frontier, *)
(* INFO) stays tied to the rows of capture_source through every interleaving of *)
(* visits, faults, crashes and restarts.                                        *)
THEOREM Inductive == Spec => []IndInv
<1>1. Init => IndInv
  BY InitInv
<1>2. IndInv /\ [Next]_vars => IndInv'
  BY NextInv
<1> QED BY <1>1, <1>2, PTL DEF Spec

(* Every variable keeps its shape: sources and losses stay inside the ring.     *)
THEOREM TypeCorrect == Spec => []TypeOK
<1>1. ASSUME IndInv PROVE TypeOK
  <2>1. Base /\ FrontierOK
    BY <1>1 DEF IndInv, Base
  <2>2. dev.write \in Nat /\ dev.write <= MaxSequence /\ dev.read \in Nat /\ dev.read <= dev.write
    BY <2>1 DEF Base, Shapes
  <2>3. dev \in [read: Sequence, write: Sequence]
    <3>1. dev.read \in Sequence /\ dev.write \in Sequence
      BY <2>2, MaxSequenceAssumption DEF Sequence
    <3>2. dev \in [read: Nat, write: Nat]
      BY <2>1 DEF Base, Shapes
    <3> QED BY <3>1, <3>2
  <2>4. sources \in Seq([start: Sequence, limit: Sequence, count: Sequence, life: Lives, tail: BOOLEAN])
    <3> DEFINE R == [start: Sequence, limit: Sequence, count: Sequence, life: Lives, tail: BOOLEAN]
    <3>1. ASSUME NEW i \in Ids PROVE sources[i] \in R
      <4>1. sources[i] \in Row
        BY <2>1, RowFacts DEF Base
      <4>2. sources[i].start \in Sequence /\ sources[i].limit \in Sequence /\ sources[i].count \in Sequence
        BY <2>1, <2>2, RowFacts, MaxSequenceAssumption DEF Base, Sequence
      <4> QED BY <4>1, <4>2 DEF Row
    <3>2. sources \in Seq(Row) /\ Ids = 1 .. Len(sources) /\ Len(sources) \in Nat
      BY <2>1, RowFacts DEF Base
    <3> HIDE DEF R
    <3>3. sources = [i \in 1 .. Len(sources) |-> sources[i]]
      BY <3>2
    <3>4. sources \in [1 .. Len(sources) -> R]
      BY <3>1, <3>2, <3>3
    <3>5. sources \in Seq(R)
      BY <3>2, <3>4
    <3> QED BY <3>5 DEF R
  <2>5. closure.next \in Sequence \cup {None}
    <3>1. CASE closure = NoClosure
      BY <3>1 DEF NoClosure
    <3>2. CASE closure # NoClosure
      <4>1. PICK i \in Ids : End(i) = closure.next
        BY <1>1, <3>2 DEF IndInv, BackedOK, ClosedAt
      <4> QED BY SMTT(30), <2>1, <2>2, <4>1, RowFacts, MaxSequenceAssumption DEF Base, Sequence
    <3> QED BY <3>1, <3>2
  <2>6. batch.src \in 0 .. Len(sources) /\ pending.src \in 0 .. Len(sources)
    BY <2>1, RowFacts DEF Base, Shapes, BatchType, PendingType
  <2>7. frontier \in Sequence \cup {None}
    BY <2>1, FrontierNat, MaxSequenceAssumption DEF Sequence
  <2>8. \A l \in losses : l.src \in DOMAIN sources /\ l.from \in Sequence /\ l.to \in Sequence
    BY <2>1 DEF Base, Shapes, Ids
  <2>9. link \in BOOLEAN /\ recv \in Sequence /\ faults \in 0 .. MaxFaults
    BY <2>1 DEF Base, Shapes
  <2> QED BY <2>2, <2>3, <2>4, <2>5, <2>6, <2>7, <2>8, <2>9 DEF TypeOK
<1> QED BY <1>1, Inductive, PTL

(* _advance_batch moves the device cursor only over records that a sealed or    *)
(* published source holds, whatever crashed or arrived late before.             *)
THEOREM AdvanceIsCustodied == Spec => []HostAdvanceIsCustodied
<1>1. IndInv => HostAdvanceIsCustodied
  BY DEF IndInv
<1> QED BY <1>1, Inductive, PTL

(* resume_streaming_attempt never has to choose: at most one source is open.    *)
THEOREM OneSourceOpen == Spec => []OneOpenSource
<1>1. ASSUME IndInv PROVE OneOpenSource
  <2>1. \A i, j \in OpenSources : i = j
    BY <1>1 DEF IndInv, OneOpen, OpenSources, Ids, IsOpen
  <2>2. CASE OpenSources = {}
    BY <2>2, FS_EmptySet DEF OneOpenSource
  <2>3. CASE OpenSources # {}
    <3>1. PICK i \in OpenSources : TRUE
      BY <2>3
    <3>2. OpenSources = {i}
      BY <2>1, <3>1
    <3>3. Cardinality({i}) = 1
      BY FS_Singleton
    <3> QED BY <3>2, <3>3 DEF OneOpenSource
  <2> QED BY <2>2, <2>3
<1> QED BY <1>1, Inductive, PTL

(* A ready closure always names the end of a closed source: no close_visit,     *)
(* crash between its two transactions or recovery writes a frontier that no     *)
(* stored records back.                                                         *)
THEOREM ClosuresAreBacked == Spec => []ClosureIsBacked
<1>1. IndInv => ClosureIsBacked
  BY DEF IndInv, BackedOK, ClosedAt, Ids, IsOpen, End, ClosureIsBacked
<1> QED BY <1>1, Inductive, PTL

(* While a drained closure stands nothing is open and no sealed source lies     *)
(* beyond it: the publisher takes whole visits.                                 *)
THEOREM DrainPermitsAreFinal == Spec => []DrainPermitIsFinal
<1>1. ASSUME IndInv PROVE DrainPermitIsFinal
  <2>1. SUFFICES ASSUME closure.reason = "drained"
                 PROVE  /\ OpenSources = {}
                        /\ \A i \in SealedSources : Frontier(sources[i]) <= closure.next
                        /\ pc \in {"recover", "wait", "down"}
    BY DEF DrainPermitIsFinal
  <2>2. pc \in {"recover", "wait", "down"}
    BY <1>1, <2>1 DEF IndInv, Places
  <2> QED BY <1>1, <2>1, <2>2 DEF IndInv, DrainOK, Ids, IsOpen, End, OpenSources, SealedSources
<1> QED BY <1>1, Inductive, PTL

(* The coordinator never believes more than the store holds: visit_frontier,    *)
(* the prefix of the batch and the pending descriptor are in capture_source.     *)
THEOREM BeliefsAreStored == Spec => []BelievedIsStored
<1>1. ASSUME IndInv PROVE BelievedIsStored
  <2>1. Base /\ FrontierOK
    BY <1>1 DEF IndInv, Base
  <2>2. ASSUME frontier # None PROVE \E i \in DOMAIN sources : Holds(sources[i], frontier - 1)
    <3>1. PICK i \in Ids : FrontierAt(i)
      BY <2>1, <2>2 DEF FrontierOK
    <3>2. frontier \in Int
      BY <2>1 DEF Base, Shapes
    <3>3. /\ sources[i].start \in Nat /\ sources[i].count \in Nat
          /\ End(i) = sources[i].start + sources[i].count /\ Frontier(sources[i]) = End(i)
      BY <2>1, RowFacts DEF Base, End
    <3>4. sources[i].start < frontier /\ frontier <= End(i)
      BY <3>1, <3>2, <3>3 DEF FrontierAt
    <3>5. Holds(sources[i], frontier - 1)
      BY <3>2, <3>3, <3>4 DEF Holds
    <3> QED BY <3>5 DEF Ids
  <2>3. ASSUME batch # NoBatch PROVE batch.prefix <= Frontier(BatchSource)
    <3>1. CASE batch.sealed \/ pc = "reading"
      BY <2>1, <2>3, <3>1, BatchNumbers DEF Base, BatchOK
    <3>2. CASE ~batch.sealed /\ pc # "reading"
      BY <2>1, <2>3, <3>2, BatchNumbers DEF Base, BatchOK
    <3> QED BY <3>1, <3>2
  <2>4. pending # NoPending /\ batch = NoBatch /\ pc # "merge" =>
           Open(sources[pending.src]) /\ pending.next = Frontier(sources[pending.src])
    BY <2>1 DEF Base, PendingOK, IsOpen, End
  <2> QED BY <2>2, <2>3, <2>4 DEF BelievedIsStored
<1> QED BY <1>1, Inductive, PTL

(* _read_or_reconcile charges to an attempt only records that the device passed *)
(* by itself and that the attempt does not hold.                                *)
THEOREM LossesAreTruthful == Spec => LossIsTruthful
<1>1. ASSUME IndInv, [Next]_vars
      PROVE  [\A l \in losses' \ losses : \A r \in Records(l.from, l.to) :
                r \in skipped /\ ~Holds(sources[l.src], r)]_vars
  <2>1. Base /\ SkipOK
    BY <1>1 DEF IndInv, Base
  <2>2. SUFFICES ASSUME NEW l \in losses' \ losses, NEW r \in Records(l.from, l.to)
                 PROVE  r \in skipped /\ ~Holds(sources[l.src], r)
    OBVIOUS
  <2>3. RecordLoss
    BY <1>1, <2>2, FramesHold DEF Frames
  <2>4. l.src = batch.src /\ l.from = batch.prefix /\ l.to = info.read
    BY <2>2, <2>3 DEF RecordLoss, LossStart
  <2>5. batch.src \in Ids /\ batch.prefix = End(batch.src) /\ IsOpen(batch.src) /\ pc = "step"
        /\ info.read \in Int /\ End(batch.src) \in Int
    BY SMTT(30), <2>1, <2>3, LossShape, RowFacts DEF Base, Shapes, InfoType
  <2>6. r \in Int /\ End(batch.src) <= r /\ r < info.read
    BY <2>2, <2>4, <2>5 DEF Records
  <2>7. r \in skipped
    BY <2>1, <2>5, <2>6 DEF SkipOK
  <2>8. ~Holds(sources[l.src], r)
    BY <2>4, <2>5, <2>6 DEF Holds, End
  <2> QED BY <2>7, <2>8
<1> QED BY <1>1, Inductive, PTL DEF Spec, LossIsTruthful
=============================================================================
