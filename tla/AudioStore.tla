------------------------------ MODULE AudioStore ------------------------------
(***************************************************************************)
(* The custody of captured audio inside the collector's database: the       *)
(* InternalAudioStore of the attempt that holds the device lease, and the    *)
(* quarantine adapter that classifies, admits, holds and finally expires     *)
(* what cannot be published as it is.                                        *)
(*                                                                          *)
(* A transaction either is confirmed, or its commit raises: then it may have *)
(* been applied or not, and the caller does not know which.  Creating,        *)
(* draining and sealing a source reopen the database and look (RecoverCreate, *)
(* RecoverDrain, RecoverSeal); every other operation reports an error and is  *)
(* repeated by a later visit.                                                 *)
(*                                                                          *)
(* One row of capture_source stands with its rows in the child tables: recs   *)
(* are the stored records, sum the records whose digest and count the row     *)
(* certifies, tail the partial record that follows them, conf the rejected    *)
(* chunks, evid the imported evidence (0: none, 1 + its chunks otherwise).    *)
(***************************************************************************)
EXTENDS Integers, Sequences, FiniteSetsExt

CONSTANTS Sources,      \* source ids: naturals, because sweeps go in their order
          Legacy,       \* sources that an older version left as opaque evidence
          Size,         \* records of one attempt
          Values,       \* contents of a record
          TailLen,      \* longest partial record
          Retention,    \* staging_retention.terminal_retention_seconds
          MaxNow,       \* bound: the last instant of the wall clock
          ChunkLimit,   \* rows one sweep may delete
          MaxFaults     \* bound: raised commits, unreadable reads, deferrals, crashes

ASSUME SourcesAssumption == Sources \subseteq Nat \ {0} /\ Legacy \subseteq Sources
ASSUME SizeAssumption == Size \in Nat \ {0} /\ TailLen \in Nat \ {0}
ASSUME RetentionAssumption == Retention \in Nat \ {0} /\ ChunkLimit \in Nat \ {0}
ASSUME BoundAssumption == MaxNow \in Nat /\ MaxFaults \in Nat

VARIABLES
    db,        \* db[s]: the row of source s and its children
    loose,     \* imported evidence that belongs to no source
    refs,      \* sources that a cohort or a stage of the publication refers to
    writer,    \* the attempt that holds the lease, its stream position, its digest cache
    doubt,     \* the transaction whose commit raised, until the database is inspected
    failed,    \* why the store fail-stopped, if it did
    salvage,   \* the salvage pass: the sources left and the snapshot being admitted
    window,    \* the cleanup window has come to its expiry phase
    now,       \* wall clock
    faults,    \* faults so far
    acked,     \* acked[s]: the records commit_drain has answered for
    altered    \* sources whose stored records storage has altered

vars == <<db, loose, refs, writer, doubt, failed, salvage, window, now, faults, acked, altered>>

M == INSTANCE AudioMachine

NoLeg == <<0, 0>>
NoTail == [at |-> 0, v |-> "none", len |-> 0]
Never == -1
NoRow == [type |-> "none", phase |-> "none", leg |-> NoLeg, begin |-> NoLeg,
          sum |-> <<>>, recs |-> <<>>, tail |-> NoTail, conf |-> 0, evid |-> 0,
          opaque |-> FALSE, disp |-> "none", held |-> FALSE,
          term |-> Never, due |-> Never, cert |-> FALSE]
NoWriter == [src |-> 0, pos |-> 0, cache |-> {}]
NoDoubt == [kind |-> "none"]
Resting == [todo |-> {}, src |-> 0, snap |-> NoRow]

Pending == {s \in Sources : db[s].type = "attempt" /\ db[s].phase \in M!Active}
Authentic(r) == r.recs = r.sum
Fault == faults < MaxFaults /\ faults' = faults + 1

(* A transaction on the row of s that would leave it as new.                  *)
Committed(s, new) == db' = [db EXCEPT ![s] = new] /\ UNCHANGED faults
Raised(s, new) == Fault /\ db' \in {db, [db EXCEPT ![s] = new]}
-----------------------------------------------------------------------------
(* What the operations of the store leave in the row.                         *)

Created == [NoRow EXCEPT !.type = "attempt", !.phase = M!Create("none").next]

LegPrepared(r, leg) ==
    [r EXCEPT !.phase = "leg_prepared", !.leg = leg, !.begin = NoLeg]

ReadBegun(r) == [r EXCEPT !.phase = "receiving", !.begin = r.leg]

Interrupted(r) == [r EXCEPT !.phase = M!Interruption(r.phase).next]

Sealed(r) == [r EXCEPT !.phase = M!Done(r.phase).next]

(* The record with ordinal i, were the rows new stored.                       *)
RecordAt(r, new, i) == IF i < Len(r.recs) THEN r.recs[i + 1] ELSE new[i + 1]

(* _resolve_tail: a stored tail, and a tail that comes with the drain, must    *)
(* be the beginning of the record that completes it.                           *)
TailConflict(r, in, new) ==
    \/ r.tail # NoTail /\ Len(new) > Len(r.sum) /\ r.tail.v # new[Len(r.sum) + 1]
    \/ in # NoTail /\ in.at < Len(new) /\ in.v # RecordAt(r, new, in.at)
    \/ in # NoTail /\ r.tail # NoTail /\ in.at = r.tail.at /\ in.v # r.tail.v

KeptTail(r, in, new) ==
    IF in = NoTail \/ in.at < Len(new)
    THEN IF Len(new) = Len(r.sum) THEN r.tail ELSE NoTail
    ELSE IF r.tail = NoTail \/ in.at > r.tail.at THEN in
    ELSE IF in.len > r.tail.len THEN in ELSE r.tail

Drained(r, new, in) ==
    [r EXCEPT !.sum = new, !.tail = KeptTail(r, in, new),
              !.recs = r.recs \o SubSeq(new, Len(r.sum) + 1, Len(new))]

(* The disposition with which an attempt enters quarantine; an attempt with    *)
(* no record is terminal at once.                                              *)
Quarantined(r) ==
    LET c == M!ClassifyConflict(Len(r.sum), r.recs # <<>>)
        terminal == c.disp = "unprocessable"
    IN [r EXCEPT !.type = "quarantine", !.phase = M!Conflict(r.phase).next,
                 !.held = c.held, !.disp = c.disp, !.opaque = FALSE, !.cert = FALSE,
                 !.term = IF terminal THEN now ELSE Never,
                 !.due = IF terminal THEN now + Retention ELSE Never]

Rejected(r) == [Quarantined(r) EXCEPT !.conf = @ + 1]

(* Mutant: a prefix is finished whatever was rejected or left partial.           *)
TerminalizedAnyway(r) ==
    IF r.sum = <<>> THEN Quarantined(r)
    ELSE [r EXCEPT !.phase = M!TerminalPrefix(r.phase).next, !.term = now]

Terminalized(r) ==
    IF r.sum = <<>> \/ r.tail # NoTail \/ r.conf > 0 \/ r.evid > 0
    THEN Quarantined(r)
    ELSE [r EXCEPT !.phase = M!TerminalPrefix(r.phase).next, !.term = now]
-----------------------------------------------------------------------------
(* The attempt that holds the lease.  An error closes it (Abandon); nobody      *)
(* else writes an attempt row while it is open.                                *)

Ready == doubt = NoDoubt /\ failed = "no"
Holding(s) == Ready /\ writer.src = s /\ s # 0
Idle == Ready /\ writer.src = 0
Visiting == Idle /\ ~window          \* capture has first ended the cleanup window
Abandon == writer' = NoWriter
Others == UNCHANGED <<loose, refs, failed, salvage, window, now, altered>>
Quiet == Others /\ UNCHANGED <<doubt, acked>>

(* An unconfirmed commit is reported; when not even its rollback can be         *)
(* confirmed, or the error is corruption, the process ends.                     *)
Reported ==
    /\ failed' \in {failed, "unreadable"}
    /\ UNCHANGED <<loose, refs, salvage, window, now, altered, doubt, acked>>

(* The commit raised and the outcome is looked up next.                        *)
InDoubt(kind, s, new) ==
    /\ Raised(s, new)
    /\ doubt' = [kind |-> kind, src |-> s, old |-> db[s], new |-> new]
    /\ Others /\ UNCHANGED <<writer, acked>>

(* The commit raised and the operation reports that it was not confirmed.      *)
Unconfirmed(s, new) == Raised(s, new) /\ Abandon /\ Reported

CreateSource(s) ==
    /\ Visiting /\ Pending = {} /\ db[s] = NoRow /\ acked[s] = <<>> /\ s \notin Legacy
    /\ \/ Committed(s, Created) /\ writer' = [NoWriter EXCEPT !.src = s] /\ Quiet
       \/ /\ Raised(s, Created)
          /\ doubt' = [kind |-> "create", src |-> s, old |-> NoRow, new |-> Created]
          /\ writer' = [NoWriter EXCEPT !.src = s]
          /\ Others /\ UNCHANGED acked

(* An attempt that an earlier visit or process left open is taken up again.     *)
ResumeAttempt(s) ==
    /\ Visiting /\ s \in Pending
    /\ LET r == IF db[s].phase = "receiving" THEN Interrupted(db[s]) ELSE db[s] IN
       \/ Committed(s, r) /\ writer' = [NoWriter EXCEPT !.src = s] /\ Quiet
       \/ r # db[s] /\ Unconfirmed(s, r)

PrepareLeg(s, start, count) ==
    /\ Holding(s)
    /\ LET r == db[s]
           exact == r.leg = <<start, count>> IN
       /\ start <= Len(r.sum)
       /\ r.phase = "prepared" => start = 0 /\ count = Size
       /\ M!PrepareLeg(r.phase, exact).action # "refuse"
       /\ \/ /\ Committed(s, IF r.phase = "leg_prepared" THEN r ELSE LegPrepared(r, <<start, count>>))
             /\ writer' = [writer EXCEPT !.pos = start] /\ Quiet
          \/ r.phase # "leg_prepared" /\ Unconfirmed(s, LegPrepared(r, <<start, count>>))

RecordReadBegin(s) ==
    /\ Holding(s)
    /\ LET r == db[s] IN
       /\ M!ReadBegin(r.phase, TRUE, r.begin = r.leg).action # "refuse"
       /\ \/ Committed(s, ReadBegun(r)) /\ UNCHANGED writer /\ Quiet
          \/ r.phase = "leg_prepared" /\ Unconfirmed(s, ReadBegun(r))

Interrupt(s) ==
    /\ Holding(s) /\ db[s].phase = "receiving"
    /\ \/ Committed(s, Interrupted(db[s])) /\ UNCHANGED writer /\ Quiet
       \/ Unconfirmed(s, Interrupted(db[s]))

(* The rejected bytes are kept with the source, which leaves the publication's *)
(* reach; the caller is told of the conflict in every case.                    *)
BlockReplayConflict(s) ==
    \/ Committed(s, Rejected(db[s])) /\ Abandon /\ Quiet
    \/ Unconfirmed(s, Rejected(db[s]))

(* A drain of the records vals and of the partial record in that follows them. *)
Replayed(r, at, vals) ==
    \A i \in 1..Len(vals) : at + i <= Len(r.recs) => r.recs[at + i] = vals[i]
Extended(r, at, vals) ==
    r.sum \o SubSeq(vals, Len(r.sum) - at + 1, Len(vals))

Receiving(r) == M!Data(r.phase).action = "persist" /\ r.begin = r.leg

(* The digest the next one extends: of the rows this process has hashed before, *)
(* or of the rows it now reads and compares with the row's digest.              *)
DigestState(r) == r.sum \in writer.cache \/ Authentic(r)

(* A replay that adds nothing and no longer tail writes nothing.                *)
AppendDrain(s, pos, new, next) ==
    \/ /\ Committed(s, next)
       /\ writer' = [writer EXCEPT !.pos = pos, !.cache = IF new = db[s].sum THEN @ ELSE {new}]
       /\ acked' = [acked EXCEPT ![s] = new]
       /\ Others /\ UNCHANGED doubt
    \/ next # db[s] /\ InDoubt("drain", s, next)

CommitDrain(s, vals, in) ==
    LET r == db[s]
        at == writer.pos
        new == Extended(r, at, vals)
    IN
    /\ Holding(s) /\ Receiving(r)
    /\ at + Len(vals) + (IF in = NoTail THEN 0 ELSE 1) <= r.leg[1] + r.leg[2]
    /\ at <= Len(r.sum)
    /\ Len(vals) > 0 \/ in # NoTail
    /\ IF ~Replayed(r, at, vals) THEN BlockReplayConflict(s)
       ELSE IF (vals = <<>> /\ at < Len(r.sum)) \/ (new # r.sum /\ ~DigestState(r))
       THEN Abandon /\ UNCHANGED <<db, faults>> /\ Quiet
       ELSE IF TailConflict(r, in, new) THEN BlockReplayConflict(s)
       ELSE AppendDrain(s, at + Len(vals), new, Drained(r, new, in))

SealSource(s) ==
    LET r == db[s] IN
    /\ Holding(s)
    /\ M!Done(r.phase).action = "persist"
    /\ Len(r.sum) = Size /\ r.tail = NoTail
    /\ IF ~Authentic(r) THEN Abandon /\ UNCHANGED <<db, faults>> /\ Quiet
       ELSE \/ Committed(s, Sealed(r)) /\ Abandon /\ Quiet
            \/ InDoubt("seal", s, Sealed(r))

(* The writer closes: the attempt stays open for a later visit, or its prefix   *)
(* is final; an empty prefix is quarantined instead.                            *)
CloseAttempt(s) == Holding(s) /\ Abandon /\ UNCHANGED <<db, faults>> /\ Quiet

PublishPrefix(s) ==
    /\ Holding(s) /\ db[s].phase \in M!Active
    /\ \/ Committed(s, Terminalized(db[s])) /\ Abandon /\ Quiet
       \/ Unconfirmed(s, Terminalized(db[s]))

(* A pending attempt that cannot be continued is moved aside whole.             *)
QuarantinePending(s) ==
    /\ Idle /\ s \in Pending
    /\ \/ Committed(s, Quarantined(db[s])) /\ UNCHANGED writer /\ Quiet
       \/ Unconfirmed(s, Quarantined(db[s]))
-----------------------------------------------------------------------------
(* After a commit that raised: which state is in the database?                *)

FailStop(why) ==
    /\ failed' = why
    /\ UNCHANGED <<db, loose, refs, writer, doubt, salvage, window, now, acked, altered>>

Answered(s, n) ==
    /\ doubt' = NoDoubt
    /\ acked' = [acked EXCEPT ![s] = n]
    /\ UNCHANGED <<db, loose, refs, failed, salvage, window, now, faults, altered>>

RolledBack ==
    /\ doubt' = NoDoubt /\ Abandon
    /\ UNCHANGED <<db, loose, refs, failed, salvage, window, now, faults, acked, altered>>

InspectUnreadable == doubt # NoDoubt /\ failed = "no" /\ Fault /\ FailStop("unreadable")

RecoverCreate ==
    /\ doubt.kind = "create" /\ failed = "no"
    /\ LET cur == db[doubt.src] IN
       IF cur = doubt.new THEN Answered(doubt.src, <<>>) /\ UNCHANGED writer
       ELSE IF cur = NoRow THEN RolledBack
       ELSE FailStop("third") /\ UNCHANGED faults

(* Mutant: the answer is given without a look at the database.                  *)
RecoverDrainBlind ==
    /\ doubt.kind = "drain" /\ failed = "no"
    /\ Answered(doubt.src, doubt.new.sum)
    /\ writer' = [writer EXCEPT !.pos = Len(doubt.new.sum), !.cache = {doubt.new.sum}]

(* Mutant: the proposal is recognised by its records and the tail before it.    *)
RecoverDrainOldTail ==
    /\ doubt.kind = "drain" /\ failed = "no"
    /\ LET cur == db[doubt.src] IN
       CASE cur = [doubt.new EXCEPT !.tail = doubt.old.tail] ->
                                   /\ Answered(doubt.src, cur.sum)
                                   /\ writer' = [writer EXCEPT !.pos = Len(cur.sum), !.cache = {cur.sum}]
         [] cur = doubt.old     -> RolledBack
         [] OTHER               -> FailStop("third") /\ UNCHANGED faults

RecoverDrain ==
    /\ doubt.kind = "drain" /\ failed = "no"
    /\ LET cur == db[doubt.src] IN
       IF ~Authentic(cur) \/ cur \notin {doubt.new, doubt.old}
       THEN FailStop("third") /\ UNCHANGED faults
       ELSE IF cur = doubt.new
       THEN /\ Answered(doubt.src, cur.sum)
            /\ writer' = [writer EXCEPT !.pos = Len(cur.sum), !.cache = {cur.sum}]
       ELSE RolledBack

SameRow(r, other) == [r EXCEPT !.recs = <<>>] = [other EXCEPT !.recs = <<>>]

RecoverSeal ==
    /\ doubt.kind = "seal" /\ failed = "no"
    /\ LET cur == db[doubt.src] IN
       IF SameRow(cur, doubt.new) THEN Answered(doubt.src, acked[doubt.src]) /\ Abandon
       ELSE IF SameRow(cur, doubt.old) THEN RolledBack
       ELSE FailStop("third") /\ UNCHANGED faults
-----------------------------------------------------------------------------
(* Salvage: maintenance walks the parseable quarantined sources in order and   *)
(* certifies the prefix of each, so that the publication may take it.           *)

Classified(r) == r.disp \in {"published_prefix", "unprocessable"}
Salvageable ==
    {s \in Sources : /\ db[s].type = "quarantine" /\ ~db[s].opaque
                     /\ ~Classified(db[s]) /\ ~db[s].held}

(* A retention clock that already runs is kept.                                *)
Certified(r) ==
    LET runs == r.term # Never /\ r.term <= r.due IN
    [r EXCEPT !.disp = M!CertifiedPrefix(r.disp).next, !.cert = TRUE,
              !.term = IF runs THEN @ ELSE now,
              !.due = IF runs THEN @ ELSE now + Retention]

(* Mutant: the hold forgets its reason.                                         *)
HeldForReviewUnheld(r) ==
    [r EXCEPT !.phase = M!SourceIntegrityHold(r.phase).next,
              !.disp = "unclassified", !.opaque = FALSE, !.cert = FALSE,
              !.term = Never, !.due = Never]

(* Records that contradict their checkpoint: nothing of the source may expire   *)
(* or be published until a person has looked at it.                             *)
HeldForReview(r) ==
    [r EXCEPT !.phase = M!SourceIntegrityHold(r.phase).next, !.held = TRUE,
              !.disp = "unclassified", !.opaque = FALSE, !.cert = FALSE,
              !.term = Never, !.due = Never]

Maintaining == UNCHANGED <<loose, refs, writer, doubt, window, now, acked, altered>>
SalvageNext == salvage' = [Resting EXCEPT !.todo = salvage.todo \ {Min(salvage.todo)}]
SalvageEnds == salvage' = Resting

StartSalvage ==
    /\ failed = "no" /\ salvage = Resting /\ ~window /\ Salvageable # {}
    /\ salvage' = [Resting EXCEPT !.todo = Salvageable]
    /\ Maintaining /\ UNCHANGED <<db, failed, faults>>

(* What one error makes of the pass: an unreadable file is tried again later    *)
(* and the pass goes on; a deferral ends it.                                    *)
AfterError(event) ==
    IF M!Salvage(M!Salvage("recovering", "recovered_retryable").next, event).action = "wait"
    THEN SalvageEnds ELSE SalvageNext

(* A source that has been classified since the pass began is passed over.       *)
InspectPrefix ==
    /\ failed = "no" /\ salvage.todo # {} /\ salvage.src = 0
    /\ LET s == Min(salvage.todo)
           r == db[s] IN
       \/ /\ UNCHANGED faults
          /\ IF Classified(r) THEN SalvageNext
             ELSE Authentic(r) /\ salvage' = [salvage EXCEPT !.src = s, !.snap = r]
       \/ Fault /\ \E event \in {"defer", "retryable_failure"} : AfterError(event)
    /\ Maintaining /\ UNCHANGED <<db, failed>>

HoldSource ==
    /\ failed = "no" /\ salvage.todo # {} /\ salvage.src = 0
    /\ LET s == Min(salvage.todo)
           r == db[s] IN
       /\ ~Authentic(r) /\ ~Classified(r)
       /\ \/ Committed(s, HeldForReview(r)) /\ UNCHANGED failed
          \/ Raised(s, HeldForReview(r)) /\ failed' \in {failed, "unreadable"}
    /\ AfterError("defer") /\ Maintaining

AdmitPrefix ==
    /\ failed = "no" /\ salvage.src # 0
    /\ LET s == salvage.src IN
       IF ~SameRow(db[s], salvage.snap)
       THEN AfterError("defer") /\ UNCHANGED <<db, faults>>
       ELSE \/ Committed(s, Certified(db[s])) /\ SalvageNext
            \/ Raised(s, Certified(db[s])) /\ AfterError("defer")
    /\ Maintaining /\ UNCHANGED failed

(* A fresh wake of the scanner asks maintenance to yield.                       *)
DeferSalvage ==
    /\ salvage.src # 0 /\ failed = "no" /\ Fault /\ SalvageEnds
    /\ Maintaining /\ UNCHANGED <<db, failed>>
-----------------------------------------------------------------------------
(* The retention sweep: one transaction classifies what nobody can parse and   *)
(* deletes at most ChunkLimit rows of one expired source.                      *)

Expired(r) ==
    /\ r.type = "quarantine" /\ r.phase \in {"blocked", "covered", "retiring"}
    /\ Classified(r) /\ M!ResidualExpiry(r.disp).action = "retire"
    /\ ~r.held /\ r.due # Never /\ now >= r.due

Residue(r) == r.tail # NoTail \/ r.conf > 0 \/ r.evid > 0

(* Mutant: a certified prefix that is not published yet expires with its residue. *)
CanonicalEligibleCertified(s) == db[s].phase = "blocked" /\ s \notin refs

CanonicalEligible(s) ==
    M!CanonicalExpiry(db[s].disp, db[s].phase, s \in refs).action = "retire"

NextExpired == {s \in Sources : Expired(db[s]) /\ (Residue(db[s]) \/ CanonicalEligible(s))}

OpaqueUnclassified ==
    {s \in Sources : /\ db[s].type = "quarantine" /\ db[s].opaque
                     /\ db[s].disp = "unclassified" /\ ~db[s].held}

Unprocessable(r) ==
    [r EXCEPT !.disp = M!MarkUnprocessable(r.disp).next, !.cert = FALSE,
              !.term = now, !.due = now + Retention]

First(S) == {s \in S : \A other \in S : s <= other}
Least(a, b) == IF a < b THEN a ELSE b

(* Canonical records, evidence chunks, the tail, the rejected chunks and the    *)
(* evidence itself, in this order: of n rows that come after others, those that  *)
(* the budget reaches.  The row of the source goes last.                         *)
Reached(n, after) == IF after >= ChunkLimit THEN 0 ELSE Least(n, ChunkLimit - after)

Records(r, canonical) == IF canonical THEN Len(r.recs) ELSE 0
Chunked(r) == IF r.evid = 0 THEN 0 ELSE r.evid - 1
Tailed(r) == IF r.tail = NoTail THEN 0 ELSE 1
Rows(r, canonical) ==
    Records(r, canonical) + Tailed(r) + r.conf + r.evid

Left(r, n) ==
    [r EXCEPT !.recs = SubSeq(@, Reached(n, 0) + 1, Len(@)),
              !.tail = IF Reached(Tailed(r), n + Chunked(r)) = 1 THEN NoTail ELSE @,
              !.conf = @ - Reached(@, n + Chunked(r) + Tailed(r)),
              !.evid = @ - Reached(Chunked(r), n)
                         - Reached(@ - Chunked(r), n + Chunked(r) + Tailed(r) + r.conf)]

Swept(r, canonical) ==
    IF canonical /\ Rows(r, canonical) <= ChunkLimit THEN NoRow ELSE Left(r, Records(r, canonical))

Remaining(r, canonical) == ChunkLimit - Least(ChunkLimit, Rows(r, canonical))

LooseExpired == loose.disp # "unclassified" /\ loose.chunks >= 0 /\ now >= loose.due
SweptLoose(budget) ==
    IF ~LooseExpired THEN loose
    ELSE [loose EXCEPT !.chunks = @ - Least(budget, @ + 1)]

ClassifiedLoose ==
    IF loose.disp = "unclassified" /\ loose.chunks >= 0
    THEN [loose EXCEPT !.disp = "unprocessable", !.due = now + Retention] ELSE loose

ClassifiedOpaque ==
    [s \in Sources |-> IF s \in First(OpaqueUnclassified) THEN Unprocessable(db[s]) ELSE db[s]]

(* Newly classified evidence is never expired in the same transaction.          *)
SweptSources(s) == [ClassifiedOpaque EXCEPT ![s] = Swept(db[s], CanonicalEligible(s))]
SweptStandalone(budget) ==
    IF loose.disp = "unclassified" THEN ClassifiedLoose ELSE SweptLoose(budget)

(* One transaction of a pass in its expiry phase, which one that raises ends:    *)
(* nobody looks, and the sweeps of a later pass go on from what they find.         *)
SweepTo(rows, standalone) ==
    /\ failed = "no" /\ window /\ salvage = Resting
    /\ \E left \in {<<rows, standalone>>} :
          /\ left # <<db, loose>>
          /\ \/ db' = left[1] /\ loose' = left[2] /\ UNCHANGED <<faults, window>>
             \/ Fault /\ window' = FALSE /\ \/ db' = left[1] /\ loose' = left[2]
                                            \/ UNCHANGED <<db, loose>>
    /\ UNCHANGED <<refs, writer, doubt, failed, salvage, now, acked, altered>>

Sweep ==
    \/ NextExpired = {} /\ SweepTo(ClassifiedOpaque, SweptStandalone(ChunkLimit))
    \/ \E s \in First(NextExpired) :
           SweepTo(SweptSources(s), SweptStandalone(Remaining(db[s], CanonicalEligible(s))))

(* Asked to yield after it has classified, the sweep deletes nothing.            *)
DeferSweep == SweepTo(ClassifiedOpaque, ClassifiedLoose)

(* The cleanup window of a pass: it comes to the expiry only while nobody       *)
(* captures, when the acknowledgements were retired and the publication is not   *)
(* blocked, and leaves it when a sweep finds nothing more or is asked to yield.   *)
Sweepable ==
    NextExpired # {} \/ OpaqueUnclassified # {} \/ SweptStandalone(ChunkLimit) # loose

TurnWindow(open) ==
    /\ failed = "no" /\ window' = open
    /\ UNCHANGED <<db, loose, refs, writer, doubt, failed, salvage, now, acked, altered>>

OpenWindow == ~window /\ salvage = Resting /\ writer.src = 0 /\ TurnWindow(TRUE) /\ UNCHANGED faults
EndWindow == window /\ ~Sweepable /\ TurnWindow(FALSE) /\ UNCHANGED faults
DeferWindow == window /\ Sweepable /\ TurnWindow(FALSE) /\ Fault
-----------------------------------------------------------------------------
(* The publication, as far as it touches a source (ReadyBundles has it whole): *)
(* it refers to an admissible source, covers it, retires its raw records, or    *)
(* sets it aside when its bytes contradict audio that is already published.     *)

Admissible(r) ==
    \/ r.phase = "sealed_waiting"
    \/ r.phase = "blocked" /\ r.disp = "published_prefix" /\ r.cert /\ ~r.held

(* It holds the device lease, as the writer of an attempt does.                *)
Publishing ==
    /\ failed = "no" /\ writer.src = 0
    /\ UNCHANGED <<loose, writer, doubt, failed, salvage, window, now, faults, acked, altered>>

AcceptSource(s) ==
    /\ Admissible(db[s]) /\ s \notin refs
    /\ refs' = refs \cup {s} /\ UNCHANGED db /\ Publishing

CoverSource(s) ==
    /\ s \in refs /\ Authentic(db[s])
    /\ LET covered == M!ReadyCustody(db[s].phase, db[s].cert).next IN
       db' = [db EXCEPT ![s] = [@ EXCEPT !.phase = M!BeginRetirement(covered).next]]
    /\ refs' = refs \ {s} /\ Publishing

BlockOverlap(s) ==
    /\ Admissible(db[s]) /\ s \notin refs
    /\ db' = [db EXCEPT ![s] = [HeldForReview(@) EXCEPT !.type = "quarantine",
                                   !.phase = M!Conflict(db[s].phase).next]]
    /\ UNCHANGED refs /\ Publishing

RetirePage(s) ==
    /\ db[s].phase = "retiring" /\ s \notin refs
    /\ LET r == db[s] IN
       \/ r.recs # <<>> /\ db' = [db EXCEPT ![s] = [r EXCEPT !.recs = SubSeq(@, ChunkLimit + 1, Len(@))]]
       \/ /\ r.recs = <<>> /\ ~Residue(r)
          /\ M!RetirementStep(r.phase, TRUE).next = "none"
          /\ db' = [db EXCEPT ![s] = NoRow]
    /\ UNCHANGED refs /\ Publishing
-----------------------------------------------------------------------------
(* The environment.                                                            *)

Tick ==
    /\ now < MaxNow /\ now' = now + 1
    /\ UNCHANGED <<db, loose, refs, writer, doubt, failed, salvage, window, faults, acked, altered>>

(* The process ends and starts again: after a crash by the service manager,      *)
(* after a fatal storage fault (exit status 78) only by a person.                *)
Restart ==
    /\ IF failed = "no" THEN Fault /\ <<writer, doubt, salvage, window>> # <<NoWriter, NoDoubt, Resting, FALSE>>
                        ELSE UNCHANGED faults
    /\ writer' = NoWriter /\ doubt' = NoDoubt /\ salvage' = Resting /\ window' = FALSE /\ failed' = "no"
    /\ UNCHANGED <<db, loose, refs, now, acked, altered>>

(* Storage alters a stored record.                                              *)
Alter(s) ==
    /\ Fault /\ db[s].recs # <<>> /\ Authentic(db[s])
    /\ \E i \in DOMAIN db[s].recs : \E v \in Values \ {db[s].recs[i]} :
           db' = [db EXCEPT ![s] = [db[s] EXCEPT !.recs = [db[s].recs EXCEPT ![i] = v]]]
    /\ altered' = altered \cup {s}
    /\ UNCHANGED <<loose, refs, writer, doubt, failed, salvage, window, now, acked>>

Chunks == UNION {[1..n -> Values] : n \in 0..Size}
Tails(at) == {NoTail} \cup [at : {at}, v : Values, len : 1..TailLen]

Imported(s) ==
    [NoRow EXCEPT !.type = "quarantine", !.phase = "blocked", !.opaque = TRUE,
                  !.disp = "unclassified", !.evid = 2]

Init ==
    /\ db = [s \in Sources |-> IF s \in Legacy THEN Imported(s) ELSE NoRow]
    /\ loose = [disp |-> "unclassified", due |-> Never, chunks |-> IF Legacy = {} THEN -1 ELSE 1]
    /\ refs = {} /\ writer = NoWriter /\ doubt = NoDoubt /\ failed = "no"
    /\ salvage = Resting /\ window = FALSE /\ now = 0 /\ faults = 0
    /\ acked = [s \in Sources |-> <<>>] /\ altered = {}

Capture ==
    \E s \in Sources :
        \/ CreateSource(s) \/ ResumeAttempt(s) \/ RecordReadBegin(s) \/ Interrupt(s)
        \/ SealSource(s) \/ CloseAttempt(s) \/ PublishPrefix(s) \/ QuarantinePending(s)
        \/ \E start \in 0..(Size - 1) : \E count \in 1..(Size - start) : PrepareLeg(s, start, count)
        \/ \E vals \in Chunks : \E in \in Tails(writer.pos + Len(vals)) : CommitDrain(s, vals, in)

Recover == InspectUnreadable \/ RecoverCreate \/ RecoverDrain \/ RecoverSeal

(* One coroutine, between two visits: the cleanup window first, salvage last.     *)
Maintenance ==
    StartSalvage \/ InspectPrefix \/ HoldSource \/ AdmitPrefix \/ Sweep \/ EndWindow

Maintain == Maintenance \/ OpenWindow \/ DeferWindow \/ DeferSalvage \/ DeferSweep

Publish == \E s \in Sources : AcceptSource(s) \/ CoverSource(s) \/ BlockOverlap(s) \/ RetirePage(s)

Next == Capture \/ Recover \/ Maintain \/ Publish \/ Tick \/ Restart \/ \E s \in Sources : Alter(s)

(* Maintenance runs again and again and every pass comes to the salvage; whether *)
(* one comes to the expiry is the publication's and the consumer's to decide.     *)
Fairness ==
    WF_vars(Maintenance) /\ SF_vars(StartSalvage) /\ WF_vars(Tick)

Spec == Init /\ [][Next]_vars /\ Fairness
-----------------------------------------------------------------------------
(* Every record commit_drain has answered for is stored, at its place and with *)
(* the bytes of the answer, until the publication has covered the source or    *)
(* storage itself has altered it: an answer given after a commit that raised    *)
(* is true in the database (internal_audio_store.py _recover_ambiguous).       *)
StoredAsAnswered ==
    \A s \in Sources :
        db[s].phase \notin {"none", "covered", "retiring"} =>
            /\ Len(acked[s]) <= Len(db[s].sum)
            /\ SubSeq(db[s].sum, 1, Len(acked[s])) = acked[s]
            /\ s \notin altered => Authentic(db[s])

(* The store never fail-stops because of its own ambiguous commit: what is in   *)
(* the database is the proposal or what was there before, unless the inspection *)
(* could not read it or storage altered the records (_recover_ambiguous,        *)
(* _recover_create, _recover_seal).                                             *)
FailStopIsWarranted == failed = "third" => doubt.src \in altered

(* What waits for the publication as a finished source has nothing the          *)
(* publication would leave behind: no partial record and no rejected bytes      *)
(* (seal_source, _typed_terminalize_prefix).                                    *)
SealedIsClean ==
    \A s \in Sources :
        db[s].phase = "sealed_waiting" =>
            ~Residue(db[s]) /\ db[s].sum # <<>> /\ ~db[s].held /\ db[s].disp = "none"

(* Bytes leave the database only when a record that begins with them replaces a *)
(* partial record, when the publication has covered the source, or when their    *)
(* term after the terminal classification has passed, nothing holds them and,    *)
(* for records, no cohort and no stage refers to the source (quarantine.py       *)
(* sweep_terminal_quarantine and the retention guards of each delete).           *)
Spent(r) == Classified(r) /\ ~r.held /\ r.term # Never /\ now >= r.term + Retention
Replaced(t, r) ==
    t = NoTail \/ (r.tail.v = t.v /\ r.tail.at = t.at /\ r.tail.len >= t.len)
               \/ (Len(r.sum) > t.at /\ r.sum[t.at + 1] = t.v)
EvidenceKeepsItsTerm ==
    [][\A s \in Sources :
          /\ Replaced(db[s].tail, db'[s]) \/ Spent(db[s])
          /\ db'[s].conf < db[s].conf \/ db'[s].evid < db[s].evid => Spent(db[s])
          /\ Len(db'[s].recs) < Len(db[s].recs) =>
                 \/ db[s].phase = "retiring"
                 \/ Spent(db[s]) /\ db[s].disp = "unprocessable" /\ s \notin refs]_vars

(* Quarantine is not a place where audio stays: a parseable source is certified,  *)
(* or held for review, and what expires within the modelled time is removed when  *)
(* cleanup windows come to their expiry again and again, whatever commits were    *)
(* raised and reads deferred on the way, unless the store fail-stopped             *)
(* (quarantine_maintenance.py _salvage_quarantine, _sweep_terminal_quarantine).   *)
Overdue(s) == Classified(db[s]) /\ ~db[s].held /\ db[s].due <= MaxNow /\ Residue(db[s])
QuarantineSettles ==
    \A s \in Sources :
        /\ (s \in Salvageable) ~> (s \notin Salvageable \/ failed # "no")
        /\ []<>window => (Overdue(s) ~> (db[s].held \/ ~Residue(db[s]) \/ failed # "no"))
=============================================================================
