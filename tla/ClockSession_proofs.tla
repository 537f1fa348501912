------------------------- MODULE ClockSession_proofs -------------------------
(***************************************************************************)
(* Proofs about ClockSession, for every tolerance, every jump of a power    *)
(* cycle and every number of records, cycles, drift steps and faults.       *)
(*                                                                          *)
(* Three inductive invariants.  PhyInv follows the PHY guard: which selection *)
(* the marker records at each step of it.  GuardInv follows a clock write    *)
(* from its intent to the interval of the completed write: at every moment   *)
(* one of the two contains the place where the write took effect, and while  *)
(* it is the intent no range reaches that place.  TimeInv, on top of it,      *)
(* follows a reading from the pendant to the anchor and from the anchor to    *)
(* the ranges it maps.                                                      *)
(***************************************************************************)
EXTENDS ClockSession, SequenceTheorems, TLAPS

-----------------------------------------------------------------------------
(* The PHY guard.                                                           *)

Guarded == {"connect", "set_temporary", "teardown"} \cup Preflight

PhyInv ==
    /\ marker \in {"none", "full"} /\ selected \in {"full", "temporary"}
    /\ selected # "full" => marker = "full"
    /\ pc \in {"idle", "checkpoint", "snapshot", "mark_phy"} =>
          selected = "full" /\ marker = "none"
    /\ pc \in {"mark_phy", "set", "verify", "delete"} \cup Guarded => snapshot = "full"
    /\ pc \in Guarded => marker = "full"
    /\ pc = "delete" => selected = "full"

(* Outside the guard a step of the session moves from one guarded step to the *)
(* next.                                                                     *)
LEMMA SessionPhy ==
    ASSUME PhyInv,
           \/ Connect \/ Info \/ Sample \/ Reconcile \/ ReconcileFinish \/ ObserveBefore
           \/ Prepare \/ TargetStale \/ WriteTime \/ WriteFails \/ ReadBack \/ ReadBoundary
           \/ PersistResult \/ FinishWrite \/ ObserveAfter \/ Read \/ Teardown
    PROVE  PhyInv'
<1>1. CASE Connect
  BY <1>1 DEF PhyInv, Connect, Goto, Guarded, Preflight
<1>2. CASE Info \/ Sample \/ Read
  BY <1>2 DEF PhyInv, Info, Sample, Read, Goto, Leave, phy, Guarded, Preflight
<1>3. CASE Reconcile \/ Prepare \/ TargetStale \/ PersistResult
  BY <1>3 DEF PhyInv, Reconcile, Prepare, TargetStale, PersistResult, Commit, Goto, phy,
              Guarded, Preflight
<1>4. CASE ReconcileFinish \/ FinishWrite
  BY <1>4 DEF PhyInv, ReconcileFinish, FinishWrite, Finish, Commit, Goto, phy, Guarded, Preflight
<1>5. CASE ObserveBefore \/ ObserveAfter
  BY <1>5 DEF PhyInv, ObserveBefore, ObserveAfter, Observed, Commit, Goto, phy, Guarded, Preflight
<1>6. CASE WriteTime \/ WriteFails \/ ReadBack \/ ReadBoundary
  BY <1>6 DEF PhyInv, WriteTime, WriteFails, ReadBack, ReadBoundary, Goto, phy, Guarded, Preflight
<1>7. CASE Teardown
  BY <1>7 DEF PhyInv, Teardown, Guarded, Preflight
<1> QED
  BY <1>1, <1>2, <1>3, <1>4, <1>5, <1>6, <1>7

(* The steps of the guard itself.                                            *)
LEMMA GuardPhy ==
    ASSUME PhyInv,
           \/ StartService \/ BeginSession \/ ReadSnapshot \/ WriteMarker \/ SetTemporary
           \/ SetPhy \/ VerifyPhy \/ DeleteMarker
    PROVE  PhyInv'
<1>1. CASE StartService
  BY <1>1 DEF PhyInv, StartService, Restore, Guarded, Preflight
<1>2. CASE BeginSession
  BY <1>2 DEF PhyInv, BeginSession, Restore, Guarded, Preflight
<1>3. CASE ReadSnapshot
  BY <1>3 DEF PhyInv, ReadSnapshot, Fails, FailEnter, NoGuard, Guarded, Preflight
<1>4. CASE WriteMarker
  BY <1>4 DEF PhyInv, WriteMarker, FailEnter, Restore, NoGuard, Guarded, Preflight
<1>5. CASE SetTemporary
  BY <1>5 DEF PhyInv, SetTemporary, FailEnter, Restore, NoGuard, Guarded, Preflight
<1>6. CASE SetPhy
  BY <1>6 DEF PhyInv, SetPhy, FailRestore, NoGuard, Guarded, Preflight
<1>7. CASE VerifyPhy
  BY <1>7 DEF PhyInv, VerifyPhy, Fails, FailRestore, NoGuard, Guarded, Preflight
<1>8. CASE DeleteMarker
  <2>1. Restored \in {"idle", "snapshot", "checkpoint", "down"}
    BY DEF Restored
  <2> QED
    BY <1>8, <2>1 DEF PhyInv, DeleteMarker, FailRestore, NoGuard, Guarded, Preflight
<1> QED
  BY <1>1, <1>2, <1>3, <1>4, <1>5, <1>6, <1>7, <1>8

(* The pendant, a crash, a cancellation, the end of a session and publication. *)
LEMMA OtherPhy ==
    ASSUME PhyInv,
           \/ Record \/ Drift \/ PowerCycle \/ LateWrite \/ LinkLoss
           \/ Checkpoint \/ Cancel \/ Crash \/ Publish \/ UNCHANGED vars
    PROVE  PhyInv'
<1>1. CASE Record \/ Drift \/ PowerCycle \/ LateWrite \/ LinkLoss \/ Publish \/ UNCHANGED vars
  <2>1. UNCHANGED <<pc, marker, selected, snapshot, job>>
    BY <1>1 DEF Record, Drift, PowerCycle, LateWrite, LinkLoss, Publish, vars, phy
  <2> QED
    BY <2>1 DEF PhyInv
<1>2. CASE Checkpoint
  BY <1>2 DEF PhyInv, Checkpoint, phy, Guarded, Preflight
<1>3. CASE Cancel
  <2>1. /\ \/ pc \in Preflight /\ pc' = "teardown" /\ UNCHANGED snapshot
           \/ pc \in {"mark_phy", "set_temporary"} /\ pc' = "set" /\ snapshot' = snapshot /\ job' = "undo"
           \/ pc = "connect" /\ pc' = "set" /\ UNCHANGED snapshot /\ job' = "exit"
           \/ pc' = "down"
        /\ UNCHANGED <<marker, selected>>
    BY <1>3 DEF Cancel, Leave, EnterSteps, FailEnter, Restore, NoGuard
  <2> QED
    BY <2>1 DEF PhyInv, Guarded, Preflight
<1>4. CASE Crash
  BY <1>4 DEF PhyInv, Crash, Guarded, Preflight
<1> QED
  BY <1>1, <1>2, <1>3, <1>4

(* Whatever fails, raises, is cancelled or crashes between two steps of the    *)
(* guard, the marker is in the database while the selection is changed, and a  *)
(* session returns only with the selection restored (ScopedPhyGuard).         *)
THEOREM PhyGuarded == Spec => []PhyIsRestored
<1>1. Init => PhyInv
  BY DEF Init, PhyInv, Guarded, Preflight
<1>2. PhyInv /\ [Next]_vars => PhyInv'
  BY SessionPhy, GuardPhy, OtherPhy DEF Next
<1>3. PhyInv => PhyIsRestored
  BY DEF PhyInv, PhyIsRestored
<1> QED
  BY <1>1, <1>2, <1>3, PTL DEF Spec

-----------------------------------------------------------------------------
(* The durable clock evidence.                                              *)

RangeType == [start : Int, next : Int, mapped : BOOLEAN, offset : Int, uncertainty : Int]
IntentType == [phase : {"none", "prepared", "uncertain"}, before : Int, after : Int]
AnchorType == [set : BOOLEAN, frontier : Int, offset : Int, uncertainty : Int]
EvidenceType ==
    [ranges : SUBSET RangeType, intent : IntentType, anchor : AnchorType,
     uncertain : SUBSET (Int \X Int)]

(* No range reaches n.                                                       *)
Below(ranges, n) == \A x \in ranges : x.next <= n

LEMMA AbsType == ASSUME NEW x \in Int PROVE Abs(x) \in Int
  BY DEF Abs

LEMMA ReadingTypes ==
    /\ Unset \in Int /\ ReadUncertainty \in Int
    /\ NoIntent \in IntentType /\ NoAnchor \in AnchorType /\ NoEvidence \in EvidenceType
<1>1. Unset \in Int /\ ReadUncertainty \in Int
  BY ClockAssumption DEF Unset
<1>2. NoIntent \in IntentType
  BY <1>1 DEF NoIntent, IntentType
<1>3. NoAnchor \in AnchorType
  BY DEF NoAnchor, AnchorType
<1> QED
  BY <1>1, <1>2, <1>3 DEF NoEvidence, EvidenceType

LEMMA RangeTypes ==
    ASSUME NEW a \in Int, NEW b \in Int
    PROVE  /\ UnknownRange(a, b) \in RangeType /\ UnknownRange(a, b).next = b
           /\ \A o, u \in Int : MappedRange(a, b, o, u) \in RangeType /\ MappedRange(a, b, o, u).next = b
  BY DEF UnknownRange, MappedRange, RangeType

LEMMA PairOf == ASSUME NEW S, NEW T, NEW g \in S \X T PROVE g[1] \in S /\ g[2] \in T
  OBVIOUS

LEMMA GapType ==
    ASSUME NEW r \in RangeType, NEW a \in Span(r), NEW b \in r.start + 1 .. r.next
    PROVE  /\ [r EXCEPT !.start = a, !.next = b] \in RangeType
           /\ [r EXCEPT !.start = a, !.next = b].next <= r.next
<1>1. r.start \in Int /\ r.next \in Int
  BY DEF RangeType
<1>2. a \in Int /\ b \in Int /\ b <= r.next
  BY <1>1 DEF Span
<1> QED
  BY <1>2 DEF RangeType

(* What is added to the ranges ends where the reported range ends.            *)
LEMMA AddRangeCases ==
    ASSUME NEW st \in EvidenceType, NEW r \in RangeType, NEW t, t = AddRange(st, r)
    PROVE  /\ t \in EvidenceType
           /\ t.intent = st.intent /\ t.anchor = st.anchor /\ t.uncertain = st.uncertain
           /\ \A n \in Int : Below(st.ranges, n) /\ r.next <= n => Below(t.ranges, n)
<1> DEFINE free == Span(r) \ Covered(st)
           gaps == {g \in Span(r) \X (r.start + 1 .. r.next) :
                      /\ g[1] < g[2] /\ (g[1] .. g[2] - 1) \subseteq free
                      /\ g[1] - 1 \notin free /\ g[2] \notin free}
           new == {[r EXCEPT !.start = g[1], !.next = g[2]] : g \in gaps}
<1>1. t = [st EXCEPT !.ranges = @ \cup new]
  BY DEF AddRange
<1>2. ASSUME NEW x \in new PROVE x \in RangeType /\ x.next <= r.next
  <2>2. PICK g \in Span(r) \X (r.start + 1 .. r.next) : x = [r EXCEPT !.start = g[1], !.next = g[2]]
    BY <1>2
  <2>3. g[1] \in Span(r) /\ g[2] \in r.start + 1 .. r.next
    BY Zenon, <2>2, PairOf
  <2> QED
    BY Zenon, <2>2, <2>3, GapType
<1> HIDE DEF new
<1>3. t \in EvidenceType
  BY <1>1, <1>2 DEF EvidenceType
<1>4. /\ t.ranges = st.ranges \cup new
      /\ t.intent = st.intent /\ t.anchor = st.anchor /\ t.uncertain = st.uncertain
  BY <1>1 DEF EvidenceType
<1>5. ASSUME NEW n \in Int, Below(st.ranges, n), r.next <= n PROVE Below(t.ranges, n)
  <2>1. ASSUME NEW x \in new PROVE x.next <= n
    BY <1>2, <1>5, <2>1 DEF RangeType
  <2> QED
    BY <1>4, <1>5, <2>1 DEF Below
<1> QED
  BY <1>3, <1>4, <1>5

(* A reading adds nothing beyond its own cursor and leaves the writes alone.   *)
LEMMA ObserveCases ==
    ASSUME NEW st \in EvidenceType, NEW read \in Int, NEW write \in Int, NEW offset \in Int,
           NEW t, t = Observe(st, read, write, offset)
    PROVE  /\ t \in EvidenceType
           /\ t.intent = st.intent /\ t.uncertain = st.uncertain
           /\ \A n \in Int : Below(st.ranges, n) /\ write <= n => Below(t.ranges, n)
<1> DEFINE a == st.anchor
           since == IF Continuous(st, offset)
                    THEN MappedRange(a.frontier, write, a.offset, Widened(a, offset))
                    ELSE UnknownRange(a.frontier, write)
           seen == IF ~a.set /\ read < write THEN AddRange(st, UnknownRange(read, write))
                   ELSE IF a.set /\ write > a.frontier THEN AddRange(st, since)
                   ELSE st
<1>1. t = Anchored(seen, write, offset)
  BY DEF Observe
<1>2. a.frontier \in Int /\ a.offset \in Int /\ Widened(a, offset) \in Int
  <2>1. a \in AnchorType
    BY DEF EvidenceType
  <2>2. Abs(offset - a.offset) \in Int
    BY <2>1, AbsType DEF AnchorType
  <2> QED
    BY <2>1, <2>2 DEF AnchorType, Widened
<1>3. since \in RangeType /\ since.next = write
  <2>1. CASE since = MappedRange(a.frontier, write, a.offset, Widened(a, offset))
    <3> HIDE DEF since
    <3> QED
      BY SMTT(30), <1>2, <2>1, RangeTypes
  <2>2. CASE since = UnknownRange(a.frontier, write)
    <3> HIDE DEF since
    <3> QED
      BY <1>2, <2>2, RangeTypes
  <2> QED
    BY <2>1, <2>2
<1>3a. seen \in {st, AddRange(st, UnknownRange(read, write)), AddRange(st, since)}
  OBVIOUS
<1> HIDE DEF since, seen
<1>4. /\ seen \in EvidenceType
      /\ seen.intent = st.intent /\ seen.uncertain = st.uncertain
      /\ \A n \in Int : Below(st.ranges, n) /\ write <= n => Below(seen.ranges, n)
  <2>1. CASE seen = AddRange(st, UnknownRange(read, write))
    <3>1. UnknownRange(read, write) \in RangeType /\ UnknownRange(read, write).next = write
      BY RangeTypes
    <3> QED
      BY <2>1, <3>1, AddRangeCases
  <2>2. CASE seen = AddRange(st, since)
    BY <1>3, <2>2, AddRangeCases
  <2> QED
    BY <1>3a, <2>1, <2>2
<1>5. CASE t = seen
  BY <1>4, <1>5
<1>6. CASE t = [seen EXCEPT !.anchor = [set |-> TRUE, frontier |-> write, offset |-> offset,
                                         uncertainty |-> ReadUncertainty]]
  <2>1. [set |-> TRUE, frontier |-> write, offset |-> offset, uncertainty |-> ReadUncertainty]
          \in AnchorType
    BY ReadingTypes DEF AnchorType
  <2> QED
    BY <1>4, <1>6, <2>1 DEF EvidenceType
<1> QED
  BY <1>1, <1>5, <1>6 DEF Anchored

(* The intent of a clock write, as it is prepared, bounded and given up.      *)
LEMMA IntentCases ==
    ASSUME NEW st \in EvidenceType, NEW n \in Int
    PROVE  /\ BeginIntent(st, n) \in EvidenceType
           /\ BeginIntent(st, n).intent = [phase |-> "prepared", before |-> n, after |-> Unset]
           /\ BeginIntent(st, n).ranges = st.ranges /\ BeginIntent(st, n).uncertain = st.uncertain
           /\ MarkUncertain(st, n) \in EvidenceType
           /\ MarkUncertain(st, n).intent.phase = "uncertain"
           /\ MarkUncertain(st, n).intent.before = st.intent.before
           /\ MarkUncertain(st, n).intent.after = n
           /\ MarkUncertain(st, n).ranges = st.ranges /\ MarkUncertain(st, n).uncertain = st.uncertain
           /\ CancelPrepared(st) \in EvidenceType /\ CancelPrepared(st).intent = NoIntent
           /\ CancelPrepared(st).ranges = st.ranges /\ CancelPrepared(st).uncertain = st.uncertain
<1>1. Unset \in Int /\ NoIntent \in IntentType /\ st.intent \in IntentType
  BY ReadingTypes DEF EvidenceType
<1>2. /\ BeginIntent(st, n) \in EvidenceType
      /\ BeginIntent(st, n).intent = [phase |-> "prepared", before |-> n, after |-> Unset]
      /\ BeginIntent(st, n).ranges = st.ranges /\ BeginIntent(st, n).uncertain = st.uncertain
  BY <1>1 DEF BeginIntent, EvidenceType, IntentType
<1>3. /\ MarkUncertain(st, n) \in EvidenceType
      /\ MarkUncertain(st, n).intent.phase = "uncertain"
      /\ MarkUncertain(st, n).intent.before = st.intent.before
      /\ MarkUncertain(st, n).intent.after = n
      /\ MarkUncertain(st, n).ranges = st.ranges /\ MarkUncertain(st, n).uncertain = st.uncertain
  <2> DEFINE marked == [st.intent EXCEPT !.phase = "uncertain", !.after = n]
  <2>1. /\ marked \in IntentType /\ marked.phase = "uncertain"
        /\ marked.before = st.intent.before /\ marked.after = n
    BY <1>1 DEF IntentType
  <2>2. MarkUncertain(st, n) = [st EXCEPT !.intent = marked]
    BY Zenon DEF MarkUncertain
  <2> HIDE DEF marked
  <2> QED
    BY <2>1, <2>2 DEF EvidenceType
<1>4. /\ CancelPrepared(st) \in EvidenceType /\ CancelPrepared(st).intent = NoIntent
      /\ CancelPrepared(st).ranges = st.ranges /\ CancelPrepared(st).uncertain = st.uncertain
  BY <1>1 DEF CancelPrepared, EvidenceType
<1> QED
  BY <1>2, <1>3, <1>4

(* A completed write leaves its interval, and an unknown range up to the cursor *)
(* of the session that completes it.                                          *)
LEMMA FinishCases ==
    ASSUME NEW st \in EvidenceType, NEW write \in Int, NEW t, t = FinishIntent(st, write)
    PROVE  /\ t \in EvidenceType /\ t.intent = NoIntent
           /\ t.uncertain = st.uncertain \cup {<<st.intent.before, st.intent.after>>}
           /\ \A n \in Int : Below(st.ranges, n) /\ write <= n => Below(t.ranges, n)
<1> DEFINE i == st.intent
           u == WithRanges(st, Reported(st, write))
           done == <<i.before, i.after>>
<1>1. i \in IntentType /\ done \in Int \X Int
  BY DEF EvidenceType, IntentType
<1>2. /\ u \in EvidenceType /\ u.uncertain = st.uncertain
      /\ \A n \in Int : Below(st.ranges, n) /\ write <= n => Below(u.ranges, n)
  <2>1. CASE Reported(st, write) = {}
    BY <2>1 DEF WithRanges
  <2>2. CASE Reported(st, write) = {UnknownRange(i.before, write)}
    <3>1. u = AddRange(st, UnknownRange(i.before, write))
      BY <2>2 DEF WithRanges
    <3>2. UnknownRange(i.before, write) \in RangeType /\ UnknownRange(i.before, write).next = write
      BY <1>1, RangeTypes DEF IntentType
    <3> HIDE DEF u
    <3> QED
      BY <3>1, <3>2, AddRangeCases
  <2> QED
    BY <2>1, <2>2 DEF Reported
<1>3. t = [u EXCEPT !.intent = NoIntent, !.uncertain = @ \cup {done}]
  BY DEF FinishIntent
<1> HIDE DEF u, done
<1>4. /\ t.intent = NoIntent /\ t.uncertain = u.uncertain \cup {done} /\ t.ranges = u.ranges
      /\ t.anchor = u.anchor
  BY <1>2, <1>3 DEF EvidenceType
<1>5. t \in EvidenceType
  <2>1. u.uncertain \cup {done} \in SUBSET (Int \X Int) /\ NoIntent \in IntentType
    BY <1>1, <1>2, ReadingTypes DEF EvidenceType
  <2> QED
    BY <1>2, <1>3, <2>1 DEF EvidenceType
<1> QED
  BY <1>2, <1>4, <1>5 DEF done

-----------------------------------------------------------------------------
(* A clock write, from its intent to its interval.                          *)

Steps == {"down", "idle", "checkpoint", "snapshot", "mark_phy", "set", "verify", "delete"}
            \cup Guarded

SessionTyped ==
    /\ pc \in Steps
    /\ log \in Seq(Int) /\ rtc \in Int /\ cycles \in Nat
    /\ tail \in Nat /\ info \in [read : Nat, write : Nat] /\ sample \in Int
    /\ boundary \in Int /\ evidence \in EvidenceType
    /\ frontier.next \in Nat /\ joined \subseteq Nat /\ writes \subseteq Nat

(* Nothing lies beyond the end of the log.                                   *)
InLog ==
    /\ frontier.next <= tail /\ tail <= Len(log)
    /\ info.write <= Len(log) /\ boundary <= Len(log)
    /\ \A p \in writes : p <= Len(log)
    /\ \A s \in joined : s < frontier.next
    /\ Below(evidence.ranges, Len(log))
    /\ evidence.intent.phase # "none" => evidence.intent.before <= Len(log)

(* INFO of this session is behind every write before it and every range.      *)
AtInfo ==
    pc \in {"sample", "reconcile", "reconciled", "observe", "prepare"} =>
        (\A p \in writes : p <= info.write) /\ Below(evidence.ranges, info.write)

(* Where the session is in the life of the intent.                            *)
IntentAt ==
    /\ pc \in {"observe", "prepare", "reobserve"} => evidence.intent.phase = "none"
    /\ pc = "reconcile" => evidence.intent.phase # "none"
    /\ pc \in {"write", "readback", "boundary", "mark"} =>
          evidence.intent.phase = "prepared" /\ evidence.intent.after = Unset
    /\ pc = "mark" /\ boundary # Unset => \A p \in writes : p <= boundary
    /\ inflight => /\ pc \in {"mark", "read", "teardown"}
                   /\ evidence.intent.phase # "none" /\ evidence.intent.after = Unset
                   /\ pc = "mark" => boundary = Unset

(* The write that took effect at p is in the interval of a completed write, or *)
(* in the window of the intent.                                              *)
Completed(p) == \E u \in evidence.uncertain : u[1] <= p /\ p <= u[2]
Pending(p) ==
    /\ evidence.intent.phase # "none" /\ pc # "write"
    /\ evidence.intent.before <= p
    /\ evidence.intent.after # Unset => p <= evidence.intent.after

WriteGuarded ==
    /\ \A p \in writes : Completed(p) \/ Pending(p)
    /\ evidence.intent.phase # "none" => Below(evidence.ranges, evidence.intent.before)

(* A record that is in no range is comparable to none before it.              *)
FrozenAt ==
    frontier.member[1] \in {"intent", "uncovered"} => frontier.member[2] < frontier.next

GuardInv ==
    /\ SessionTyped /\ InLog /\ AtInfo /\ IntentAt /\ WriteGuarded /\ FrozenAt
    /\ WriteIsIncomparable

LEMMA LogFacts ==
    ASSUME GuardInv
    PROVE  /\ Len(log) \in Nat /\ Unset \in Int /\ Unset = -1 /\ NoInfo \in [read : Nat, write : Nat]
           /\ info.read \in Int /\ info.write \in Int /\ boundary \in Int /\ Len(log) \in Int
           /\ sample \in Int /\ evidence \in EvidenceType
           /\ evidence.intent \in IntentType /\ evidence.intent.before \in Int
           /\ evidence.intent.after \in Int
           /\ \A p \in writes : p \in Nat
           /\ \A x \in evidence.ranges : x.next \in Int
  BY DEF GuardInv, SessionTyped, Unset, NoInfo, EvidenceType, IntentType, RangeType

(* The end of the log is not published, so a write there joins nothing.       *)
LEMMA UnpublishedWrite == ASSUME GuardInv PROVE Len(log) \notin joined
<1>1. /\ frontier.next \in Nat /\ tail \in Nat /\ Len(log) \in Nat /\ joined \subseteq Nat
      /\ frontier.next <= tail /\ tail <= Len(log) /\ \A s \in joined : s < frontier.next
  BY LogFacts DEF GuardInv, SessionTyped, InLog
<1> QED
  BY <1>1

(* A step that leaves the log, the evidence and the publication alone, and     *)
(* goes where nothing is known about the intent.                              *)
LEMMA QuietStep ==
    ASSUME GuardInv,
           UNCHANGED <<log, rtc, cycles, tail, evidence, frontier, joined, writes>>,
           info' \in [read : Nat, write : Nat], sample' \in Int, boundary' \in Int,
           info'.write <= Len(log), boundary' <= Len(log),
           pc' \in Steps \ {"sample", "reconcile", "reconciled", "observe", "prepare",
                            "write", "readback", "boundary", "mark", "reobserve"},
           inflight' => inflight /\ pc' \in {"read", "teardown"}
    PROVE  GuardInv'
<1>1. SessionTyped'
  BY DEF GuardInv, SessionTyped
<1>2. InLog' /\ AtInfo'
  BY DEF GuardInv, InLog, AtInfo, Below
<1>3. IntentAt'
  BY DEF GuardInv, IntentAt
<1>4. WriteGuarded'
  BY DEF GuardInv, WriteGuarded, Completed, Pending, Below
<1>5. FrozenAt' /\ WriteIsIncomparable'
  BY DEF GuardInv, FrozenAt, WriteIsIncomparable
<1> QED
  BY <1>1, <1>2, <1>3, <1>4, <1>5 DEF GuardInv

(* The PHY guard, the link, the transfer's end, cancellations and crashes.    *)
LEMMA QuietSteps ==
    ASSUME GuardInv,
           \/ StartService \/ BeginSession \/ ReadSnapshot \/ WriteMarker \/ SetTemporary
           \/ SetPhy \/ VerifyPhy \/ DeleteMarker \/ Connect \/ Teardown \/ Checkpoint
           \/ Cancel \/ Crash
    PROVE  GuardInv'
<1> USE LogFacts
<1>0. /\ info \in [read : Nat, write : Nat] /\ sample \in Int /\ boundary \in Int
      /\ info.write <= Len(log) /\ boundary <= Len(log)
      /\ inflight => pc \in {"mark", "read", "teardown"}
  BY DEF GuardInv, SessionTyped, InLog, IntentAt
<1>1. CASE StartService \/ BeginSession
  <2>1. /\ UNCHANGED <<log, rtc, cycles, tail, evidence, frontier, joined, writes>>
        /\ UNCHANGED <<info, sample, boundary, inflight>>
        /\ pc \in {"down", "idle"} /\ pc' \in {"idle", "set", "snapshot"}
    BY <1>1 DEF StartService, BeginSession, Restore, pendant, radio, local, published, history
  <2> QED
    BY <1>0, <2>1, QuietStep DEF Steps
<1>2. CASE ReadSnapshot \/ WriteMarker \/ SetTemporary
  <2>1. /\ UNCHANGED <<log, rtc, cycles, tail, evidence, frontier, joined, writes>>
        /\ UNCHANGED <<info, sample, boundary, inflight>>
        /\ pc \in {"snapshot", "mark_phy", "set_temporary"}
        /\ pc' \in {"mark_phy", "set_temporary", "connect", "set", "down"}
    BY <1>2 DEF ReadSnapshot, WriteMarker, SetTemporary, FailEnter, Restore, pendant, radio,
                local, published, history
  <2> QED
    BY <1>0, <2>1, QuietStep DEF Steps, Guarded
<1>3. CASE SetPhy \/ VerifyPhy \/ DeleteMarker
  <2>0. Restored \in {"idle", "snapshot", "checkpoint", "down"}
    BY DEF Restored
  <2>1. /\ UNCHANGED <<log, rtc, cycles, tail, evidence, frontier, joined, writes>>
        /\ UNCHANGED <<info, sample, boundary, inflight>>
        /\ pc \in {"set", "verify", "delete"}
        /\ pc' \in {"verify", "delete", "down", "idle", "snapshot", "checkpoint"}
    BY <1>3, <2>0 DEF SetPhy, VerifyPhy, DeleteMarker, FailRestore, pendant, radio, local,
                      published, history
  <2> QED
    BY <1>0, <2>1, QuietStep DEF Steps
<1>4. CASE Connect \/ Checkpoint
  <2>1. /\ UNCHANGED <<log, rtc, cycles, tail, evidence, frontier, joined, writes>>
        /\ UNCHANGED <<info, sample, boundary, inflight>>
        /\ pc \in {"connect", "checkpoint"} /\ pc' \in {"info", "set", "idle", "down"}
    BY <1>4 DEF Connect, Checkpoint, Goto, pendant, radio, local, published, history
  <2> QED
    BY <1>0, <2>1, QuietStep DEF Steps, Guarded, Preflight
<1>5. CASE Cancel
  <2>1. /\ UNCHANGED <<log, rtc, cycles, tail, evidence, frontier, joined, writes>>
        /\ UNCHANGED <<info, sample, boundary, inflight>>
        /\ \/ pc' = "teardown"
           \/ pc \in EnterSteps \cup {"connect"} /\ pc' \in {"set", "down"}
    BY <1>5 DEF Cancel, Leave, FailEnter, Restore, pendant, radio, local, published, history
  <2> QED
    BY <1>0, <2>1, QuietStep DEF Steps, Guarded, EnterSteps
<1>6. CASE Teardown \/ Crash
  <2>1. /\ UNCHANGED <<log, rtc, cycles, tail, evidence, frontier, joined, writes>>
        /\ info' = NoInfo /\ sample' = 0 /\ boundary' = Unset /\ inflight' = FALSE
        /\ pc' \in {"set", "down"}
    BY <1>6 DEF Teardown, Crash, NoLocal, pendant, published, history
  <2>2. info'.write = 0
    BY <2>1 DEF NoInfo
  <2> QED
    BY <2>1, <2>2, QuietStep DEF Steps
<1> QED
  BY <1>1, <1>2, <1>3, <1>4, <1>5, <1>6

(* The pendant records, drifts, is power cycled, loses its link, or takes a     *)
(* write late: then the window of its intent is still open.                  *)
LEMMA PendantStep ==
    ASSUME GuardInv, Record \/ Drift \/ PowerCycle \/ LateWrite \/ LinkLoss PROVE GuardInv'
<1> USE LogFacts
<1>1. CASE Record
  <2>1. /\ log' = Append(log, rtc) /\ pc \in {"idle", "write", "boundary", "read"}
        /\ UNCHANGED <<rtc, cycles, tail, evidence, frontier, joined, writes, pc, info, sample,
                       boundary, inflight>>
    BY <1>1 DEF Record, radio, local, published, history
  <2>2. log' \in Seq(Int) /\ Len(log') = Len(log) + 1
    BY <2>1 DEF GuardInv, SessionTyped
  <2>3. SessionTyped'
    BY <2>1, <2>2 DEF GuardInv, SessionTyped
  <2>4. InLog'
    <3>1. \A n \in Int : n <= Len(log) => n <= Len(log')
      BY <2>2
    <3>2. /\ frontier.next <= tail /\ \A s \in joined : s < frontier.next
          /\ tail <= Len(log') /\ info.write <= Len(log') /\ boundary <= Len(log')
      BY <3>1 DEF GuardInv, SessionTyped, InLog
    <3>3. \A p \in writes : p <= Len(log')
      BY <3>1 DEF GuardInv, InLog
    <3>4. Below(evidence.ranges, Len(log'))
      BY <3>1 DEF GuardInv, InLog, Below
    <3>5. evidence.intent.phase # "none" => evidence.intent.before <= Len(log')
      BY <3>1 DEF GuardInv, InLog
    <3> QED
      BY <2>1, <3>2, <3>3, <3>4, <3>5 DEF InLog, Below
  <2>5. AtInfo' /\ IntentAt' /\ WriteGuarded' /\ FrozenAt' /\ WriteIsIncomparable'
    BY <2>1 DEF GuardInv, AtInfo, IntentAt, WriteGuarded, Completed, Pending, Below, FrozenAt,
                WriteIsIncomparable
  <2> QED
    BY <2>3, <2>4, <2>5 DEF GuardInv
<1>2. CASE Drift \/ PowerCycle
  <2>1. /\ UNCHANGED <<log, tail, evidence, frontier, joined, writes, pc, info, sample,
                       boundary, inflight>>
        /\ rtc' \in Int /\ cycles' \in Nat
    <3>1. CASE Drift
      BY <3>1 DEF Drift, radio, local, published, history, GuardInv, SessionTyped
    <3>2. CASE PowerCycle
      <4>1. cycles' = cycles + 1 /\ rtc' = Jump * cycles' /\ cycles \in Nat /\ Jump \in Nat
        BY <3>2, SessionAssumption DEF PowerCycle, GuardInv, SessionTyped
      <4>2. cycles' \in Int /\ cycles' \in Nat
        BY <4>1
      <4>3. Jump * cycles' \in Int
        BY <4>1, <4>2
      <4> QED
        BY <3>2, <4>1, <4>2, <4>3 DEF PowerCycle, radio, local, published, history
    <3> QED
      BY <1>2, <3>1, <3>2
  <2> QED
    BY <2>1 DEF GuardInv, SessionTyped, InLog, AtInfo, IntentAt, WriteGuarded, Completed, Pending,
                Below, FrozenAt, WriteIsIncomparable
<1>3. CASE LateWrite
  <2>1. /\ writes' = writes \cup {Len(log)} /\ rtc' = 0 /\ inflight' = FALSE
        /\ UNCHANGED <<log, cycles, tail, evidence, frontier, joined, pc, info, sample, boundary>>
    BY <1>3 DEF LateWrite, ClockSet, local, published
  <2>2. /\ pc \in {"mark", "read", "teardown"} /\ (pc = "mark" => boundary = Unset)
        /\ evidence.intent.phase # "none" /\ evidence.intent.after = Unset
    BY <1>3 DEF LateWrite, GuardInv, IntentAt
  <2>3. SessionTyped'
    <3>0. writes \subseteq Nat /\ Len(log) \in Nat
      BY DEF GuardInv, SessionTyped
    <3>1. writes' \subseteq Nat
      BY Zenon, <2>1, <3>0
    <3>2. rtc' \in Int
      BY <2>1
    <3> QED
      BY <2>1, <3>1, <3>2 DEF GuardInv, SessionTyped
  <2>4. InLog' /\ AtInfo'
    BY <2>1, <2>2 DEF GuardInv, InLog, AtInfo, Below
  <2>5. IntentAt'
    BY <2>1, <2>2 DEF GuardInv, IntentAt
  <2>6. WriteGuarded'
    BY <2>1, <2>2 DEF GuardInv, InLog, WriteGuarded, Completed, Pending, Below
  <2>7. FrozenAt'
    BY <2>1 DEF GuardInv, FrozenAt
  <2>8. WriteIsIncomparable'
    BY <2>1, UnpublishedWrite DEF GuardInv, WriteIsIncomparable
  <2> QED
    BY <2>3, <2>4, <2>5, <2>6, <2>7, <2>8 DEF GuardInv
<1>4. CASE LinkLoss
  <2>1. /\ UNCHANGED <<log, rtc, cycles, tail, evidence, frontier, joined, writes, pc, info,
                       sample, boundary>>
        /\ inflight' = FALSE
    BY <1>4 DEF LinkLoss, pendant, local, published, history
  <2> QED
    BY <2>1 DEF GuardInv, SessionTyped, InLog, AtInfo, IntentAt, WriteGuarded, Completed, Pending,
                Below, FrozenAt, WriteIsIncomparable
<1> QED
  BY <1>1, <1>2, <1>3, <1>4

-----------------------------------------------------------------------------
(* The session's steps on the evidence.                                     *)

Elsewhere == <<log, rtc, cycles, tail, frontier, joined, writes, info, sample, boundary, inflight>>

(* A step that changes nothing but the evidence and the place in the session. *)
LEMMA EvidenceStep ==
    ASSUME GuardInv, UNCHANGED Elsewhere, pc' \in Steps,
           evidence' \in EvidenceType, Below(evidence'.ranges, Len(log)),
           evidence'.intent.phase # "none" => evidence'.intent.before <= Len(log),
           AtInfo', IntentAt', WriteGuarded'
    PROVE  GuardInv'
<1>1. SessionTyped'
  BY DEF GuardInv, SessionTyped, Elsewhere
<1>2. InLog'
  BY DEF GuardInv, InLog, Elsewhere, Below
<1>3. FrozenAt' /\ WriteIsIncomparable'
  BY DEF GuardInv, FrozenAt, WriteIsIncomparable, Elsewhere
<1> QED
  BY <1>1, <1>2, <1>3 DEF GuardInv

(* The session goes on to the transfer without a change, or with the intent    *)
(* and the ranges of a call that failed and was committed.                    *)
LEMMA ReadNext ==
    ASSUME GuardInv, UNCHANGED Elsewhere, UNCHANGED evidence, pc' = "read", ~inflight
    PROVE  GuardInv'
<1>1. info \in [read : Nat, write : Nat] /\ sample \in Int /\ boundary \in Int
      /\ info.write <= Len(log) /\ boundary <= Len(log)
  BY DEF GuardInv, SessionTyped, InLog
<1> QED
  BY <1>1, QuietStep DEF Elsewhere, Steps, Guarded, Preflight

(* INFO reads the cursors; the reading of the device clock may be left out.    *)
LEMMA InfoStep == ASSUME GuardInv, Info \/ Sample PROVE GuardInv'
<1> USE LogFacts
<1>0. /\ info \in [read : Nat, write : Nat] /\ sample \in Int /\ boundary \in Int /\ rtc \in Int
      /\ tail \in Nat /\ info.write <= Len(log) /\ boundary <= Len(log)
      /\ inflight => pc \in {"mark", "read", "teardown"}
  BY DEF GuardInv, SessionTyped, InLog, IntentAt
<1>1. CASE Info /\ pc' = "teardown"
  <2>1. /\ UNCHANGED <<log, rtc, cycles, tail, evidence, frontier, joined, writes>>
        /\ UNCHANGED <<info, sample, boundary, inflight>> /\ pc = "info"
    BY <1>1 DEF Info, Goto, pendant, radio, published, history
  <2> QED
    BY <1>0, <1>1, <2>1, QuietStep DEF Steps, Guarded
<1>2. CASE Info /\ pc' # "teardown"
  <2>1. /\ UNCHANGED <<log, rtc, cycles, tail, evidence, frontier, joined, writes>>
        /\ UNCHANGED <<sample, boundary, inflight>> /\ pc = "info" /\ pc' = "sample"
        /\ info' = [read |-> tail, write |-> Len(log)]
    BY <1>2 DEF Info, Goto, Leave, pendant, radio, published, history
  <2>2. info' \in [read : Nat, write : Nat] /\ info'.write = Len(log)
    BY <1>0, <2>1
  <2>3. SessionTyped'
    BY <2>1, <2>2 DEF GuardInv, SessionTyped, Steps, Guarded, Preflight
  <2>4. InLog' /\ AtInfo'
    BY <2>1, <2>2 DEF GuardInv, InLog, AtInfo, Below
  <2>5. IntentAt' /\ WriteGuarded' /\ FrozenAt' /\ WriteIsIncomparable'
    BY <1>0, <2>1 DEF GuardInv, IntentAt, WriteGuarded, Completed, Pending, Below, FrozenAt,
                      WriteIsIncomparable
  <2> QED
    BY <2>3, <2>4, <2>5 DEF GuardInv
<1>3. CASE Sample
  <2>1. /\ UNCHANGED <<log, rtc, cycles, tail, evidence, frontier, joined, writes>>
        /\ UNCHANGED <<info, boundary, inflight>> /\ pc = "sample"
        /\ sample' \in {rtc, sample}
        /\ \/ pc' = "read"
           \/ pc' = "reconcile" /\ evidence.intent.phase # "none"
           \/ pc' = "observe" /\ evidence.intent.phase = "none"
    BY <1>3 DEF Sample, Goto, pendant, radio, published, history
  <2>2. sample' \in Int
    BY <1>0, <2>1
  <2>3. SessionTyped'
    BY <2>1, <2>2 DEF GuardInv, SessionTyped, Steps, Guarded, Preflight
  <2>4. InLog' /\ AtInfo'
    BY <2>1 DEF GuardInv, InLog, AtInfo, Below
  <2>5. IntentAt' /\ WriteGuarded' /\ FrozenAt' /\ WriteIsIncomparable'
    BY <1>0, <2>1 DEF GuardInv, IntentAt, WriteGuarded, Completed, Pending, Below, FrozenAt,
                      WriteIsIncomparable
  <2> QED
    BY <2>3, <2>4, <2>5 DEF GuardInv
<1> QED
  BY <1>1, <1>2, <1>3

(* One database call leaves the evidence or the next one.                      *)
LEMMA CommitCases ==
    ASSUME NEW next, NEW step, Commit(next, step)
    PROVE  \/ evidence' = next /\ pc' \in {step, "read"}
           \/ evidence' = evidence /\ pc' = "read"
  BY DEF Commit, Goto

(* The window of an intent found by a later session is closed at its cursor.   *)
LEMMA ReconcileStep == ASSUME GuardInv, Reconcile PROVE GuardInv'
<1> USE LogFacts
<1>0. UNCHANGED Elsewhere /\ pc = "reconcile" /\ ~inflight
  BY DEF Reconcile, Elsewhere, pendant, radio, local, published, history, GuardInv, IntentAt
<1> DEFINE next == MarkUncertain(evidence, info.write)
<1>1. /\ next \in EvidenceType
      /\ next.intent.phase = "uncertain"
      /\ next.intent.before = evidence.intent.before /\ next.intent.after = info.write
      /\ next.ranges = evidence.ranges /\ next.uncertain = evidence.uncertain
  BY ZenonT(30), IntentCases
<1> HIDE DEF next
<1>2. /\ \A p \in writes : p <= info.write
      /\ Below(evidence.ranges, info.write) /\ Below(evidence.ranges, Len(log))
  BY <1>0 DEF GuardInv, AtInfo, InLog
<1>3. CASE evidence' = next /\ evidence.intent.phase # "none" /\ pc' \in {"reconciled", "read"}
  <2>1. AtInfo'
    BY <1>0, <1>1, <1>2, <1>3 DEF AtInfo, Elsewhere, Below
  <2>2. IntentAt'
    BY <1>0, <1>3 DEF IntentAt, Elsewhere
  <2>3. WriteGuarded'
    BY <1>0, <1>1, <1>2, <1>3 DEF GuardInv, WriteGuarded, Completed, Pending, Below, Elsewhere
  <2>4. pc' \in Steps
    BY <1>3 DEF Steps, Guarded, Preflight
  <2>5. evidence'.intent.before <= Len(log)
    BY <1>1, <1>3 DEF GuardInv, InLog
  <2> QED
    BY <1>0, <1>1, <1>2, <1>3, <2>1, <2>2, <2>3, <2>4, <2>5, EvidenceStep
<1>4. CASE evidence' = evidence /\ pc' \in {"reconciled", "read"}
  <2>1. AtInfo' /\ IntentAt' /\ WriteGuarded'
    BY <1>0, <1>2, <1>4 DEF GuardInv, AtInfo, IntentAt, WriteGuarded, Completed, Pending, Below,
                            Elsewhere
  <2>2. pc' \in Steps
    BY <1>4 DEF Steps, Guarded, Preflight
  <2>3. evidence.intent.phase # "none" => evidence.intent.before <= Len(log)
    BY DEF GuardInv, InLog
  <2> QED
    BY <1>0, <1>2, <1>4, <2>1, <2>2, <2>3, EvidenceStep
<1>5. evidence.intent.phase # "none"
  BY <1>0 DEF GuardInv, IntentAt
<1>6. \/ evidence' = next /\ pc' \in {"reconciled", "read"}
      \/ evidence' = evidence /\ pc' \in {"reconciled", "read"}
  BY CommitCases DEF Reconcile, Goto, next
<1> QED
  BY <1>3, <1>4, <1>5, <1>6

(* The write completes: what was in its window is in its interval.             *)
LEMMA FinishStep == ASSUME GuardInv, ReconcileFinish \/ FinishWrite PROVE GuardInv'
<1> USE LogFacts
<1>1. PICK write \in Int, step \in {"observe", "reobserve"} :
        /\ Finish(write, step) /\ write <= Len(log)
        /\ step = "observe" => write = info.write /\ Below(evidence.ranges, info.write)
                               /\ \A p \in writes : p <= info.write
  BY DEF ReconcileFinish, FinishWrite, GuardInv, InLog, AtInfo
<1>2. UNCHANGED Elsewhere /\ ~inflight /\ pc \in {"reconciled", "finish"}
  BY DEF ReconcileFinish, FinishWrite, Elsewhere, pendant, radio, local, published, GuardInv,
         IntentAt
<1> DEFINE next == FinishIntent(evidence, write)
<1>3. /\ next \in EvidenceType /\ next.intent = NoIntent
      /\ next.uncertain = evidence.uncertain \cup {<<evidence.intent.before, evidence.intent.after>>}
      /\ \A n \in Int : Below(evidence.ranges, n) /\ write <= n => Below(next.ranges, n)
  BY FinishCases
<1>4. \/ evidence' = evidence /\ pc' = "read"
      \/ /\ evidence' = next /\ pc' \in {step, "read"}
         /\ evidence.intent.phase = "uncertain" /\ evidence.intent.after # Unset
  BY <1>1, CommitCases DEF Finish, CanFinish, Goto
<1> HIDE DEF next
<1>5. CASE evidence' = evidence /\ pc' = "read"
  BY <1>2, <1>5, ReadNext
<1>6. CASE /\ evidence' = next /\ pc' \in {step, "read"}
           /\ evidence.intent.phase = "uncertain" /\ evidence.intent.after # Unset
  <2>1. evidence'.intent.phase = "none"
    BY <1>3, <1>6 DEF NoIntent
  <2>2. Below(evidence'.ranges, Len(log))
    BY <1>1, <1>3, <1>6 DEF GuardInv, InLog
  <2>3. AtInfo'
    <3> SUFFICES ASSUME pc' = "observe"
                 PROVE  (\A p \in writes : p <= info.write) /\ Below(evidence'.ranges, info.write)
      BY <1>2, <1>6 DEF AtInfo, Elsewhere
    <3>1. write = info.write /\ Below(evidence.ranges, info.write)
          /\ \A p \in writes : p <= info.write
      BY <1>1, <1>6
    <3> QED
      BY <1>3, <1>6, <3>1
  <2>4. IntentAt'
    BY <1>2, <1>6, <2>1 DEF IntentAt, Elsewhere
  <2>5. WriteGuarded'
    <3>1. ASSUME NEW p \in writes PROVE Completed(p)'
      <4>1. CASE Completed(p)
        BY <1>3, <1>6, <4>1 DEF Completed
      <4>2. CASE Pending(p)
        <5> DEFINE u == <<evidence.intent.before, evidence.intent.after>>
        <5>1. u[1] <= p /\ p <= u[2]
          BY <1>6, <4>2 DEF Pending
        <5>2. u \in evidence'.uncertain
          BY <1>3, <1>6
        <5> QED
          BY <5>1, <5>2 DEF Completed
      <4> QED
        BY <3>1, <4>1, <4>2 DEF GuardInv, WriteGuarded
    <3> QED
      BY <1>2, <2>1, <3>1 DEF WriteGuarded, Elsewhere
  <2>6. pc' \in Steps
    BY <1>6 DEF Steps, Guarded, Preflight
  <2> QED
    BY <1>2, <1>3, <1>6, <2>1, <2>2, <2>3, <2>4, <2>5, <2>6, EvidenceStep
<1> QED
  BY <1>4, <1>5, <1>6

(* A reading is only taken while no write is under way.                        *)
LEMMA ObserveStep == ASSUME GuardInv, ObserveBefore \/ ObserveAfter PROVE GuardInv'
<1> USE LogFacts
<1>1. PICK read \in Int, write \in Int, step \in {"read", "prepare"} :
        /\ Observed(read, write, sample, step) /\ write <= Len(log)
        /\ step = "prepare" => write = info.write /\ Below(evidence.ranges, info.write)
                               /\ \A p \in writes : p <= info.write
  <2>1. tail \in Int /\ info.write <= Len(log) /\ boundary <= Len(log)
    BY DEF GuardInv, SessionTyped, InLog
  <2>2. CASE ObserveBefore
    BY <2>1, <2>2 DEF ObserveBefore, GuardInv, AtInfo
  <2>3. CASE ObserveAfter
    BY <2>1, <2>3 DEF ObserveAfter
  <2> QED
    BY <2>2, <2>3
<1>2. UNCHANGED Elsewhere /\ ~inflight /\ evidence.intent.phase = "none"
  BY DEF ObserveBefore, ObserveAfter, Elsewhere, pendant, radio, local, published, GuardInv,
         IntentAt
<1> DEFINE next == Observe(evidence, read, write, sample)
<1>3. /\ next \in EvidenceType
      /\ next.intent = evidence.intent /\ next.uncertain = evidence.uncertain
      /\ \A n \in Int : Below(evidence.ranges, n) /\ write <= n => Below(next.ranges, n)
  BY ObserveCases
<1>4. \/ evidence' = next /\ pc' \in {step, "read"}
      \/ evidence' = evidence /\ pc' = "read"
  BY <1>1, CommitCases DEF Observed
<1> HIDE DEF next
<1>5. CASE evidence' = evidence /\ pc' = "read"
  BY <1>2, <1>5, ReadNext
<1>6. CASE evidence' = next /\ pc' \in {step, "read"}
  <2>1. evidence'.intent.phase = "none"
    BY <1>2, <1>3, <1>6
  <2>2. Below(evidence'.ranges, Len(log))
    BY <1>1, <1>3, <1>6 DEF GuardInv, InLog
  <2>3. AtInfo'
    <3> SUFFICES ASSUME pc' = "prepare"
                 PROVE  (\A p \in writes : p <= info.write) /\ Below(evidence'.ranges, info.write)
      BY <1>2, <1>6 DEF AtInfo, Elsewhere
    <3>1. write = info.write /\ Below(evidence.ranges, info.write)
          /\ \A p \in writes : p <= info.write
      BY <1>1, <1>6
    <3> QED
      BY <1>3, <1>6, <3>1
  <2>4. IntentAt'
    BY <1>2, <1>6, <2>1 DEF IntentAt, Elsewhere
  <2>5. WriteGuarded'
    BY <1>2, <1>3, <1>6, <2>1 DEF GuardInv, WriteGuarded, Completed, Pending, Elsewhere
  <2>6. pc' \in Steps
    BY <1>6 DEF Steps, Guarded, Preflight
  <2> QED
    BY <1>2, <1>3, <1>6, <2>1, <2>2, <2>3, <2>4, <2>5, <2>6, EvidenceStep
<1> QED
  BY <1>4, <1>5, <1>6

(* The intent is on disk before the write; nothing else is in its window yet.  *)
LEMMA PrepareStep == ASSUME GuardInv, Prepare PROVE GuardInv'
<1> USE LogFacts
<1>1. UNCHANGED Elsewhere /\ ~inflight /\ pc = "prepare" /\ evidence.intent.phase = "none"
  BY DEF Prepare, Elsewhere, pendant, radio, local, published, history, GuardInv, IntentAt
<1>2. Below(evidence.ranges, info.write) /\ Below(evidence.ranges, Len(log))
      /\ info.write <= Len(log)
  BY <1>1 DEF GuardInv, AtInfo, InLog
<1>3. ASSUME NEW p \in writes PROVE Completed(p)
  BY <1>1, <1>3 DEF GuardInv, WriteGuarded, Pending
<1> DEFINE next == BeginIntent(evidence, info.write)
<1>4. /\ next \in EvidenceType
      /\ next.intent = [phase |-> "prepared", before |-> info.write, after |-> Unset]
      /\ next.ranges = evidence.ranges /\ next.uncertain = evidence.uncertain
  BY IntentCases
<1>5. \/ evidence' = next /\ pc' \in {"write", "read"}
      \/ evidence' = evidence /\ pc' = "read"
  BY CommitCases DEF Prepare
<1> HIDE DEF next
<1>6. CASE evidence' = evidence /\ pc' = "read"
  BY <1>1, <1>6, ReadNext
<1>7. CASE evidence' = next /\ pc' \in {"write", "read"}
  <2>1. /\ evidence'.intent.phase = "prepared" /\ evidence'.intent.before = info.write
        /\ evidence'.intent.after = Unset
    BY <1>4, <1>7
  <2>2. AtInfo' /\ IntentAt'
    BY <1>1, <1>7, <2>1 DEF AtInfo, IntentAt, Elsewhere
  <2>3. WriteGuarded'
    <3>1. ASSUME NEW p \in writes PROVE Completed(p)'
      BY <1>3, <1>4, <1>7 DEF Completed
    <3> QED
      BY <1>1, <1>2, <1>4, <1>7, <2>1, <3>1 DEF WriteGuarded, Elsewhere
  <2>4. pc' \in Steps
    BY <1>7 DEF Steps, Guarded, Preflight
  <2> QED
    BY <1>1, <1>2, <1>4, <1>7, <2>1, <2>2, <2>3, <2>4, EvidenceStep
<1> QED
  BY <1>5, <1>6, <1>7

(* A write that was not sent leaves nothing in its window.                      *)
LEMMA CancelWriteStep == ASSUME GuardInv, TargetStale PROVE GuardInv'
<1> USE LogFacts
<1>1. UNCHANGED Elsewhere /\ ~inflight /\ pc = "write"
  BY DEF TargetStale, Elsewhere, pendant, radio, local, published, history, GuardInv, IntentAt
<1>2. ASSUME NEW p \in writes PROVE Completed(p)
  BY <1>1, <1>2 DEF GuardInv, WriteGuarded, Pending
<1> DEFINE next == CancelPrepared(evidence)
<1>3. /\ next \in EvidenceType /\ next.intent = NoIntent
      /\ next.ranges = evidence.ranges /\ next.uncertain = evidence.uncertain
  BY IntentCases
<1>4. evidence' \in {next, evidence} /\ pc' = "read"
  BY CommitCases DEF TargetStale
<1> HIDE DEF next
<1>5. CASE evidence' = evidence
  BY <1>1, <1>4, <1>5, ReadNext
<1>6. CASE evidence' = next
  <2>1. evidence'.intent.phase = "none"
    BY <1>3, <1>6 DEF NoIntent
  <2>2. AtInfo' /\ IntentAt'
    BY <1>1, <1>4 DEF AtInfo, IntentAt, Elsewhere
  <2>3. WriteGuarded'
    <3>1. ASSUME NEW p \in writes PROVE Completed(p)'
      BY <1>2, <1>3, <1>6 DEF Completed
    <3> QED
      BY <1>1, <2>1, <3>1 DEF WriteGuarded, Elsewhere
  <2>4. pc' \in Steps /\ Below(evidence'.ranges, Len(log))
    BY <1>3, <1>4, <1>6 DEF Steps, Guarded, Preflight, GuardInv, InLog
  <2> QED
    BY <1>1, <1>3, <1>6, <2>1, <2>2, <2>3, <2>4, EvidenceStep
<1> QED
  BY <1>4, <1>5, <1>6

(* A write that is sent takes effect in the open window of its intent, at once, *)
(* later, or not at all.                                                      *)
LEMMA WriteStep == ASSUME GuardInv, WriteTime \/ WriteFails PROVE GuardInv'
<1> USE LogFacts
<1>1. /\ UNCHANGED <<log, cycles, tail, evidence, frontier, joined, info, sample>>
      /\ pc = "write" /\ pc' \in {"readback", "mark"}
      /\ ClockSet \/ ClockKept
      /\ boundary' = (IF pc' = "mark" THEN Unset ELSE boundary)
      /\ inflight' => pc' = "mark"
  <2>1. CASE WriteTime
    <3>1. ~inflight /\ UNCHANGED <<inflight, boundary>> /\ pc' = "readback"
      BY <2>1 DEF WriteTime, Goto, radio, GuardInv, IntentAt
    <3>2. ClockSet \/ ClockKept
      BY <2>1 DEF WriteTime
    <3> QED
      BY <2>1, <3>1, <3>2 DEF WriteTime, published
  <2>2. CASE WriteFails
    <3>1. boundary' = Unset /\ pc' = "mark"
      BY <2>2 DEF WriteFails, Goto
    <3>2. ClockSet \/ ClockKept
      BY <2>2 DEF WriteFails
    <3> QED
      BY <2>2, <3>1, <3>2 DEF WriteFails, published
  <2> QED
    BY <2>1, <2>2
<1>2. /\ evidence.intent.phase = "prepared" /\ evidence.intent.after = Unset
      /\ evidence.intent.before <= Len(log)
  BY <1>1 DEF GuardInv, IntentAt, InLog
<1>3. writes' \in {writes, writes \cup {Len(log)}} /\ rtc' \in {rtc, 0}
  BY <1>1 DEF ClockSet, ClockKept
<1>4. SessionTyped'
  <2>1. writes' \subseteq Nat
    <3>1. writes \subseteq Nat /\ Len(log) \in Nat
      BY DEF GuardInv, SessionTyped
    <3> QED
      BY Zenon, <1>3, <3>1
  <2>2. rtc' \in Int
    <3>1. rtc \in Int
      BY DEF GuardInv, SessionTyped
    <3> QED
      BY <1>3, <3>1
  <2>3. pc' \in Steps
    BY <1>1 DEF Steps, Guarded, Preflight
  <2>4. boundary' \in Int
    BY <1>1
  <2> QED
    BY <1>1, <2>1, <2>2, <2>3, <2>4 DEF GuardInv, SessionTyped
<1>5. InLog' /\ AtInfo'
  BY <1>1, <1>3 DEF GuardInv, InLog, AtInfo, Below
<1>6. IntentAt'
  BY <1>1, <1>2 DEF IntentAt
<1>7. WriteGuarded'
  BY <1>1, <1>2, <1>3 DEF GuardInv, WriteGuarded, Completed, Pending, Below
<1>8. FrozenAt'
  BY <1>1 DEF GuardInv, FrozenAt
<1>9. WriteIsIncomparable'
  BY <1>1, <1>3, UnpublishedWrite DEF GuardInv, WriteIsIncomparable
<1> QED
  BY <1>4, <1>5, <1>6, <1>7, <1>8, <1>9 DEF GuardInv

(* The boundary read after the write is behind it.                             *)
LEMMA BoundaryStep == ASSUME GuardInv, ReadBack \/ ReadBoundary PROVE GuardInv'
<1> USE LogFacts
<1>1. /\ UNCHANGED <<log, rtc, cycles, tail, evidence, frontier, joined, writes, info, inflight>>
      /\ ~inflight
      /\ \/ pc = "readback" /\ pc' = "boundary" /\ boundary' = boundary /\ sample' \in {rtc, sample}
         \/ pc = "boundary" /\ pc' = "mark" /\ boundary' \in {Len(log), Unset} /\ sample' = sample
  BY DEF ReadBack, ReadBoundary, Goto, pendant, radio, published, history, GuardInv, IntentAt
<1>2. SessionTyped'
  <2>1. pc' \in Steps
    BY <1>1 DEF Steps, Guarded, Preflight
  <2>2. boundary' \in Int /\ sample' \in Int
    BY <1>1 DEF GuardInv, SessionTyped
  <2> QED
    BY <1>1, <2>1, <2>2 DEF GuardInv, SessionTyped
<1>3. InLog' /\ AtInfo'
  BY <1>1 DEF GuardInv, InLog, AtInfo, Below
<1>4. IntentAt'
  BY <1>1 DEF GuardInv, InLog, IntentAt
<1>5. WriteGuarded' /\ FrozenAt' /\ WriteIsIncomparable'
  BY <1>1 DEF GuardInv, WriteGuarded, Completed, Pending, Below, FrozenAt, WriteIsIncomparable
<1> QED
  BY <1>2, <1>3, <1>4, <1>5 DEF GuardInv

(* The window is closed at a boundary that was read, or stays open.            *)
LEMMA PersistStep == ASSUME GuardInv, PersistResult PROVE GuardInv'
<1> USE LogFacts
<1>1. UNCHANGED Elsewhere /\ pc = "mark" /\ (inflight => boundary = Unset)
      /\ evidence.intent.phase = "prepared" /\ evidence.intent.after = Unset
      /\ (boundary # Unset => \A p \in writes : p <= boundary)
  BY DEF PersistResult, Elsewhere, pendant, radio, local, published, history, GuardInv, IntentAt
<1> DEFINE next == MarkUncertain(evidence, boundary)
           step == IF written = "verified" /\ boundary # Unset THEN "finish" ELSE "read"
<1>2. /\ next \in EvidenceType /\ next.intent.phase = "uncertain"
      /\ next.intent.before = evidence.intent.before /\ next.intent.after = boundary
      /\ next.ranges = evidence.ranges /\ next.uncertain = evidence.uncertain
  BY ZenonT(30), IntentCases
<1>3. step \in {"finish", "read"} /\ (inflight => step = "read")
  BY <1>1
<1>4. \/ evidence' = next /\ pc' \in {step, "read"}
      \/ evidence' = evidence /\ pc' = "read"
  BY CommitCases DEF PersistResult
<1> HIDE DEF next, step
<1>5. /\ pc' \in {"finish", "read"} /\ (inflight => pc' = "read")
      /\ evidence' \in EvidenceType /\ evidence'.intent.phase # "none"
      /\ evidence'.intent.before = evidence.intent.before
      /\ evidence'.intent.after \in {boundary, Unset}
      /\ evidence'.ranges = evidence.ranges /\ evidence'.uncertain = evidence.uncertain
  BY <1>1, <1>2, <1>3, <1>4
<1>6. AtInfo' /\ IntentAt'
  BY <1>1, <1>5 DEF AtInfo, IntentAt, Elsewhere
<1>7. WriteGuarded'
  BY <1>1, <1>5 DEF GuardInv, WriteGuarded, Completed, Pending, Elsewhere
<1>8. pc' \in Steps /\ Below(evidence'.ranges, Len(log)) /\ evidence'.intent.before <= Len(log)
  BY <1>1, <1>5 DEF Steps, Guarded, Preflight, GuardInv, InLog
<1> QED
  BY <1>1, <1>5, <1>6, <1>7, <1>8, EvidenceStep

(* The transfer moves the read cursor.                                         *)
LEMMA ReadStep == ASSUME GuardInv, Read PROVE GuardInv'
<1> USE LogFacts
<1>1. /\ UNCHANGED <<log, rtc, cycles, evidence, frontier, joined, writes, info, sample, boundary,
                     inflight>>
      /\ pc = "read" /\ pc' = "teardown" /\ tail' \in {tail, Len(log)}
  BY DEF Read, Leave, pendant, radio, local, published, history
<1>2. tail' \in Nat /\ tail <= tail' /\ tail' <= Len(log) /\ frontier.next <= tail'
  BY <1>1 DEF GuardInv, SessionTyped, InLog
<1>3. SessionTyped'
  BY <1>1, <1>2 DEF GuardInv, SessionTyped, Steps, Guarded
<1>4. InLog' /\ AtInfo'
  BY <1>1, <1>2 DEF GuardInv, InLog, AtInfo, Below
<1>5. IntentAt'
  BY <1>1 DEF GuardInv, IntentAt
<1>6. WriteGuarded' /\ FrozenAt' /\ WriteIsIncomparable'
  BY <1>1 DEF GuardInv, WriteGuarded, Completed, Pending, Below, FrozenAt, WriteIsIncomparable
<1> QED
  BY <1>3, <1>4, <1>5, <1>6 DEF GuardInv

-----------------------------------------------------------------------------
(* Publication.                                                             *)

(* The causal membership of a record names the record itself, unless it is in  *)
(* a range.                                                                  *)
LEMMA LabelCases ==
    ASSUME NEW st, NEW s \in Nat, NEW label, label = PublicLabel(st, s)
    PROVE  /\ label.member[1] \in {"intent", "uncovered"} => label.member[2] = s
           /\ (\A x \in st.ranges : s \notin Span(x)) =>
                 ~label.mapped /\ label.member[1] \in {"intent", "uncovered"}
<1> DEFINE owners == {x \in st.ranges : s \in Span(x)}
           r == CHOOSE x \in owners : TRUE
           unknown(kind, a, b) ==
               [mapped |-> FALSE, offset |-> 0, uncertainty |-> 0, member |-> <<kind, a, b>>]
           known == [mapped |-> TRUE, offset |-> r.offset, uncertainty |-> r.uncertainty,
                     member |-> <<"mapped", Component(st, s)[1], Component(st, s)[2]>>]
<1>1. label = IF InWindow(st, s) THEN unknown("intent", s, s)
              ELSE IF owners = {} THEN unknown("uncovered", s, s)
              ELSE IF ~r.mapped THEN unknown("range", r.start, r.next)
              ELSE known
  BY DEF PublicLabel
<1>2. (\A x \in st.ranges : s \notin Span(x)) => owners = {}
  OBVIOUS
<1> HIDE DEF owners, r
<1>3. CASE label = unknown("intent", s, s)
  BY <1>3
<1>4. CASE label = unknown("uncovered", s, s)
  BY <1>4
<1>5. CASE label = unknown("range", r.start, r.next) /\ owners # {}
  BY <1>2, <1>5
<1>6. CASE label = known /\ owners # {}
  BY <1>2, <1>6
<1> QED
  BY <1>1, <1>3, <1>4, <1>5, <1>6

(* The record behind a write is not comparable to the one before it.           *)
LEMMA WriteSeparates ==
    ASSUME GuardInv, pc = "idle", NEW s \in writes, s = frontier.next
    PROVE  ~Comparable(evidence, s, frontier)
<1> USE LogFacts
<1> DEFINE label == PublicLabel(evidence, s)
<1>1. CASE Completed(s)
  BY <1>1 DEF Completed, Comparable
<1>2. CASE Pending(s)
  <2>1. ASSUME NEW x \in evidence.ranges PROVE s \notin Span(x)
    <3>1. x.next <= evidence.intent.before /\ evidence.intent.before <= s
      BY <1>2, <2>1 DEF GuardInv, WriteGuarded, Pending, Below
    <3>2. x.start \in Int /\ x.next \in Int /\ s \in Int
      BY <2>1 DEF EvidenceType, RangeType
    <3> QED
      BY <3>1, <3>2 DEF Span
  <2>2. s \in Nat
    OBVIOUS
  <2>3. /\ ~label.mapped /\ label.member[1] \in {"intent", "uncovered"} /\ label.member[2] = s
    BY <2>1, <2>2, LabelCases
  <2>4. frontier.member # label.member
    <3>1. frontier.member[1] \in {"intent", "uncovered"} => frontier.member[2] < s
      BY DEF GuardInv, FrozenAt
    <3>2. ~(s < s)
      BY <2>2
    <3> HIDE DEF label
    <3> QED
      BY <2>3, <3>1, <3>2
  <2> QED
    BY <2>3, <2>4 DEF Comparable
<1> QED
  BY <1>1, <1>2 DEF GuardInv, WriteGuarded

LEMMA PublishStep == ASSUME GuardInv, Publish PROVE GuardInv'
<1> USE LogFacts
<1> DEFINE s == frontier.next
           label == PublicLabel(evidence, s)
<1>1. /\ UNCHANGED <<log, rtc, cycles, tail, evidence, writes, pc, info, sample, boundary, inflight>>
      /\ pc = "idle" /\ s < tail
      /\ frontier' = [next |-> s + 1, mapped |-> label.mapped, member |-> label.member]
      /\ joined' = (IF s > 0 /\ Comparable(evidence, s, frontier) THEN joined \cup {s} ELSE joined)
  BY DEF Publish, pendant, radio, local, history
<1>2. s \in Nat /\ tail \in Nat /\ joined \subseteq Nat
  BY DEF GuardInv, SessionTyped
<1>3. frontier'.next = s + 1 /\ frontier'.member = label.member
  BY <1>1
<1>4. label.member[1] \in {"intent", "uncovered"} => label.member[2] = s
  BY <1>2, LabelCases
<1> HIDE DEF label
<1>5. joined' \in {joined, joined \cup {s}}
  BY <1>1
<1>6. SessionTyped'
  <2>1. frontier'.next \in Nat
    BY SMTT(30), <1>2, <1>3
  <2>2. joined' \subseteq Nat
    BY Zenon, <1>2, <1>5
  <2> QED
    BY <1>1, <2>1, <2>2 DEF GuardInv, SessionTyped
<1>7. InLog'
  <2>1. frontier'.next <= tail
    BY <1>1, <1>2, <1>3
  <2>2. \A i \in joined' : i < frontier'.next
    BY SMTT(30), <1>2, <1>3, <1>5 DEF GuardInv, InLog
  <2> QED
    BY <1>1, <2>1, <2>2 DEF GuardInv, InLog, Below
<1>8. AtInfo' /\ IntentAt' /\ WriteGuarded'
  BY <1>1 DEF GuardInv, AtInfo, IntentAt, WriteGuarded, Completed, Pending, Below
<1>9. FrozenAt'
  <2>1. s < s + 1
    BY <1>2
  <2> QED
    BY <1>3, <1>4, <2>1 DEF FrozenAt
<1>10. WriteIsIncomparable'
  BY <1>1, WriteSeparates DEF GuardInv, WriteIsIncomparable
<1> QED
  BY <1>6, <1>7, <1>8, <1>9, <1>10 DEF GuardInv

-----------------------------------------------------------------------------
LEMMA InitGuard == Init => GuardInv
<1> SUFFICES ASSUME Init PROVE GuardInv
  OBVIOUS
<1>1. /\ log = <<>> /\ rtc \in Int /\ cycles = 0 /\ tail = 0 /\ evidence = NoEvidence
      /\ pc = "down" /\ info = NoInfo /\ sample = 0 /\ boundary = Unset /\ frontier = NoFrontier
      /\ joined = {} /\ writes = {} /\ inflight = FALSE
  BY ClockAssumption DEF Init
<1>2. log \in Seq(Int) /\ Len(log) = 0
  BY <1>1
<1>3. /\ evidence.ranges = {} /\ evidence.intent.phase = "none" /\ evidence \in EvidenceType
  BY <1>1, ReadingTypes DEF NoEvidence, NoIntent
<1>4. /\ frontier.next = 0 /\ frontier.member[1] = "none"
      /\ info \in [read : Nat, write : Nat] /\ info.write = 0
  BY <1>1 DEF NoFrontier, NoInfo
<1>5. boundary \in Int /\ boundary <= 0
  BY <1>1 DEF Unset
<1>6. SessionTyped
  BY <1>1, <1>2, <1>3, <1>4, <1>5 DEF SessionTyped, Steps
<1>7. InLog
  BY <1>1, <1>2, <1>3, <1>4, <1>5 DEF InLog, Below
<1>8. AtInfo /\ IntentAt /\ WriteGuarded /\ FrozenAt /\ WriteIsIncomparable
  BY <1>1, <1>3, <1>4 DEF AtInfo, IntentAt, WriteGuarded, FrozenAt, WriteIsIncomparable
<1> QED
  BY <1>6, <1>7, <1>8 DEF GuardInv

LEMMA NextGuard == GuardInv /\ [Next]_vars => GuardInv'
<1> SUFFICES ASSUME GuardInv, [Next]_vars PROVE GuardInv'
  OBVIOUS
<1>1. CASE UNCHANGED vars
  BY <1>1 DEF vars, pendant, radio, local, published, history, GuardInv, SessionTyped, InLog, AtInfo,
              IntentAt, WriteGuarded, Completed, Pending, Below, FrozenAt, WriteIsIncomparable
<1> QED
  BY <1>1, QuietSteps, PendantStep, InfoStep, ReconcileStep, FinishStep, ObserveStep, PrepareStep,
     CancelWriteStep, WriteStep, BoundaryStep, PersistStep, ReadStep, PublishStep DEF Next

(* The place of every clock write that took effect is in the window of an      *)
(* intent or in the interval of a completed write, whatever call failed and    *)
(* wherever the process died (ClockState.begin_intent to finish_intent).      *)
THEOREM WritesAreGuarded == Spec => []GuardInv
  BY InitGuard, NextGuard, PTL DEF Spec

(* Two records on the two sides of a clock write are never published as         *)
(* comparable: the write may be verified, time out, arrive late or be cut off  *)
(* by a crash (PublicTimeProjection.freeze, ClockState.finish_intent).        *)
THEOREM WriteSeparatesRecords == Spec => []WriteIsIncomparable
<1>1. GuardInv => WriteIsIncomparable
  BY DEF GuardInv
<1> QED
  BY <1>1, WritesAreGuarded, PTL

-----------------------------------------------------------------------------
(* The time of a record.                                                    *)

(* The offset of the pendant's clock is bounded by the power cycles and the    *)
(* drift behind it, so a power cycle can only raise it.                       *)
OffsetBounded ==
    /\ drifted \in 0 .. MaxDrift /\ orphan \in BOOLEAN
    /\ rtc <= Jump * cycles + drifted + Tolerance + 1

(* A reading is still true, and still at the end of the log, when it is used.  *)
AtReading ==
    /\ pc \in {"sample", "reconcile", "reconciled", "observe"} => info.write = Len(log)
    /\ pc \in {"reconcile", "reconciled", "observe", "finish", "reobserve"} => sample = rtc
    /\ pc = "boundary" /\ written = "verified" => sample = rtc
    /\ pc = "mark" /\ written = "verified" /\ boundary # Unset =>
          sample = rtc /\ boundary = Len(log)
    /\ pc \in {"finish", "reobserve"} => boundary = Len(log)

(* No clock write is between the anchor and now: every record since it was      *)
(* stamped with an offset between the anchor's and today's.                   *)
Anchoring == evidence.anchor.set /\ ~orphan /\ (evidence.intent.phase = "none" \/ pc = "write")

AnchorTrue ==
    /\ evidence.anchor.uncertainty >= 0
    /\ Anchoring =>
          /\ evidence.anchor.offset <= rtc
          /\ \A s \in 0 .. Len(log) - 1 : evidence.anchor.frontier <= s =>
                evidence.anchor.offset <= log[s + 1] /\ log[s + 1] <= rtc

(* A mapped range tells the truth about its records.                          *)
RangesTrue ==
    \A x \in evidence.ranges : x.mapped =>
        \A s \in (0 .. Len(log) - 1) \ excused : s \in Span(x) =>
            Abs(log[s + 1] - x.offset) <= x.uncertainty

TimeInv == OffsetBounded /\ AtReading /\ AnchorTrue /\ RangesTrue

(* What is added lies in the reported range, where nothing was known, and is    *)
(* mapped as the reported range is.                                          *)
LEMMA AddRangeAdds ==
    ASSUME NEW st \in EvidenceType, NEW r \in RangeType, NEW t, t = AddRange(st, r)
    PROVE  \A x \in t.ranges :
              \/ x \in st.ranges
              \/ /\ x.mapped = r.mapped /\ x.offset = r.offset /\ x.uncertainty = r.uncertainty
                 /\ Span(x) \subseteq Span(r) \ Covered(st)
<1> DEFINE free == Span(r) \ Covered(st)
           gaps == {g \in Span(r) \X (r.start + 1 .. r.next) :
                      /\ g[1] < g[2] /\ (g[1] .. g[2] - 1) \subseteq free
                      /\ g[1] - 1 \notin free /\ g[2] \notin free}
           new == {[r EXCEPT !.start = g[1], !.next = g[2]] : g \in gaps}
<1>1. t = [st EXCEPT !.ranges = @ \cup new]
  BY DEF AddRange
<1>2. ASSUME NEW x \in new
      PROVE  /\ x.mapped = r.mapped /\ x.offset = r.offset /\ x.uncertainty = r.uncertainty
             /\ Span(x) \subseteq free
  <2>1. PICK g \in gaps : x = [r EXCEPT !.start = g[1], !.next = g[2]]
    BY <1>2
  <2>2. (g[1] .. g[2] - 1) \subseteq free
    BY <2>1
  <2> HIDE DEF free, gaps
  <2>3. /\ x.mapped = r.mapped /\ x.offset = r.offset /\ x.uncertainty = r.uncertainty
        /\ x.start = g[1] /\ x.next = g[2]
    BY <2>1 DEF RangeType
  <2> QED
    BY <2>2, <2>3 DEF Span
<1> HIDE DEF new, free
<1>3. t.ranges = st.ranges \cup new
  BY <1>1 DEF EvidenceType
<1> QED
  BY <1>2, <1>3 DEF free

(* A reading changes nothing, or becomes the anchor; what it maps is what was   *)
(* recorded since the anchor before it.                                      *)
LEMMA ObserveMaps ==
    ASSUME NEW st \in EvidenceType, NEW read \in Int, NEW write \in Int, NEW offset \in Int,
           NEW t, t = Observe(st, read, write, offset), t # st
    PROVE  /\ t.anchor = [set |-> TRUE, frontier |-> write, offset |-> offset,
                          uncertainty |-> ReadUncertainty]
           /\ \A x \in t.ranges :
                 \/ x \in st.ranges
                 \/ ~x.mapped
                 \/ /\ st.anchor.set
                    /\ x.offset = st.anchor.offset /\ x.uncertainty = Widened(st.anchor, offset)
                    /\ Span(x) \subseteq (st.anchor.frontier .. write - 1) \ Covered(st)
<1> DEFINE a == st.anchor
           since == IF Continuous(st, offset)
                    THEN MappedRange(a.frontier, write, a.offset, Widened(a, offset))
                    ELSE UnknownRange(a.frontier, write)
           seen == IF ~a.set /\ read < write THEN AddRange(st, UnknownRange(read, write))
                   ELSE IF a.set /\ write > a.frontier THEN AddRange(st, since)
                   ELSE st
           reading == [set |-> TRUE, frontier |-> write, offset |-> offset,
                       uncertainty |-> ReadUncertainty]
<1>1. t = Anchored(seen, write, offset)
  BY DEF Observe
<1>2. a \in AnchorType /\ a.frontier \in Int /\ a.offset \in Int /\ Widened(a, offset) \in Int
  <2>1. a \in AnchorType
    BY DEF EvidenceType
  <2>2. Abs(offset - a.offset) \in Int
    BY <2>1, AbsType DEF AnchorType
  <2> QED
    BY <2>1, <2>2 DEF AnchorType, Widened
<1>3. since \in {MappedRange(a.frontier, write, a.offset, Widened(a, offset)),
                 UnknownRange(a.frontier, write)}
  OBVIOUS
<1>4. /\ since \in RangeType
      /\ Span(since) = a.frontier .. write - 1
      /\ since.mapped => since.offset = a.offset /\ since.uncertainty = Widened(a, offset)
  <2> HIDE DEF since
  <2>1. CASE since = MappedRange(a.frontier, write, a.offset, Widened(a, offset))
    BY <1>2, <2>1 DEF MappedRange, RangeType, Span
  <2>2. CASE since = UnknownRange(a.frontier, write)
    BY <1>2, <2>2 DEF UnknownRange, RangeType, Span
  <2> QED
    BY <1>3, <2>1, <2>2
<1>5. /\ UnknownRange(read, write) \in RangeType /\ ~UnknownRange(read, write).mapped
  BY DEF UnknownRange, RangeType
<1>6. \/ seen = st /\ (a.set => ~(write > a.frontier))
      \/ seen = AddRange(st, UnknownRange(read, write)) /\ ~a.set
      \/ seen = AddRange(st, since) /\ a.set /\ write > a.frontier
  OBVIOUS
<1> HIDE DEF since, seen
<1>7. /\ seen \in EvidenceType /\ seen.anchor = a
      /\ \A x \in seen.ranges :
            \/ x \in st.ranges
            \/ ~x.mapped
            \/ /\ a.set
               /\ x.offset = a.offset /\ x.uncertainty = Widened(a, offset)
               /\ Span(x) \subseteq (a.frontier .. write - 1) \ Covered(st)
  <2>1. CASE seen = st
    BY <2>1
  <2>2. CASE seen = AddRange(st, UnknownRange(read, write))
    BY <1>5, <2>2, AddRangeCases, AddRangeAdds
  <2>3. CASE seen = AddRange(st, since) /\ a.set
    <3>0. since \in RangeType /\ seen = AddRange(st, since)
      BY <1>4, <2>3
    <3>1. seen \in EvidenceType /\ seen.anchor = a
      BY <3>0, AddRangeCases
    <3>2. \A x \in seen.ranges :
             \/ x \in st.ranges
             \/ /\ x.mapped = since.mapped /\ x.offset = since.offset
                /\ x.uncertainty = since.uncertainty
                /\ Span(x) \subseteq Span(since) \ Covered(st)
      BY <3>0, AddRangeAdds
    <3>3. ASSUME NEW x \in seen.ranges, x \notin st.ranges, x.mapped
          PROVE  /\ x.offset = a.offset /\ x.uncertainty = Widened(a, offset)
                 /\ Span(x) \subseteq (a.frontier .. write - 1) \ Covered(st)
      <4>1. /\ since.mapped /\ x.offset = since.offset /\ x.uncertainty = since.uncertainty
            /\ Span(x) \subseteq Span(since) \ Covered(st)
        BY <3>2, <3>3
      <4> QED
        BY Zenon, <1>4, <4>1
    <3> QED
      BY Zenon, <2>3, <3>1, <3>3
  <2> QED
    BY <1>6, <2>1, <2>2, <2>3
<1>8. t = [seen EXCEPT !.anchor = reading]
  <2>1. CASE seen = st /\ (a.set => ~(write > a.frontier))
    BY <1>1, <2>1 DEF Anchored
  <2>2. CASE ~a.set
    BY <1>1, <1>7, <2>2 DEF Anchored
  <2>3. CASE write > a.frontier
    BY <1>1, <1>2, <1>7, <2>3 DEF Anchored
  <2> QED
    BY <1>6, <2>1, <2>2, <2>3
<1>9. t.anchor = reading /\ t.ranges = seen.ranges
  BY <1>7, <1>8 DEF EvidenceType
<1> QED
  BY <1>7, <1>9

(* The life of an intent leaves the anchor alone and maps nothing.             *)
LEMMA IntentMapsNothing ==
    ASSUME NEW st \in EvidenceType, NEW n \in Int
    PROVE  /\ BeginIntent(st, n).anchor = st.anchor /\ MarkUncertain(st, n).anchor = st.anchor
           /\ CancelPrepared(st).anchor = st.anchor /\ FinishIntent(st, n).anchor = st.anchor
           /\ \A x \in FinishIntent(st, n).ranges : x \in st.ranges \/ ~x.mapped
<1>1. /\ BeginIntent(st, n).anchor = st.anchor /\ MarkUncertain(st, n).anchor = st.anchor
      /\ CancelPrepared(st).anchor = st.anchor
  BY DEF BeginIntent, MarkUncertain, CancelPrepared, EvidenceType
<1> DEFINE r == UnknownRange(st.intent.before, n)
           u == WithRanges(st, Reported(st, n))
           done == <<st.intent.before, st.intent.after>>
<1>2. r \in RangeType /\ ~r.mapped
  BY DEF EvidenceType, IntentType, UnknownRange, RangeType
<1>3. u \in EvidenceType /\ u.anchor = st.anchor /\ \A x \in u.ranges : x \in st.ranges \/ ~x.mapped
  <2>1. CASE Reported(st, n) = {}
    BY <2>1 DEF WithRanges
  <2>2. CASE Reported(st, n) = {r}
    <3>1. u = AddRange(st, r)
      BY <2>2 DEF WithRanges
    <3> HIDE DEF u, r
    <3> QED
      BY <1>2, <3>1, AddRangeCases, AddRangeAdds
  <2> QED
    BY <2>1, <2>2 DEF Reported
<1>4. FinishIntent(st, n) = [u EXCEPT !.intent = NoIntent, !.uncertain = @ \cup {done}]
  BY DEF FinishIntent
<1> HIDE DEF u
<1>5. FinishIntent(st, n).anchor = u.anchor /\ FinishIntent(st, n).ranges = u.ranges
  BY <1>3, <1>4 DEF EvidenceType
<1> QED
  BY <1>1, <1>3, <1>5

LEMMA TimeFacts ==
    ASSUME GuardInv, TimeInv
    PROVE  /\ log \in Seq(Int) /\ Len(log) \in Nat /\ rtc \in Int /\ cycles \in Nat /\ drifted \in Nat
           /\ \A s \in 0 .. Len(log) - 1 : s \in Int /\ s + 1 \in 1 .. Len(log) /\ log[s + 1] \in Int
           /\ evidence \in EvidenceType /\ evidence.anchor.frontier \in Int
           /\ evidence.anchor.offset \in Int /\ evidence.anchor.uncertainty \in Int
           /\ \A x \in evidence.ranges : x.start \in Int /\ x.next \in Int /\ x.offset \in Int
                                         /\ x.uncertainty \in Int
           /\ Jump \in Nat /\ MaxDrift \in Nat /\ Tolerance \in Nat /\ Jump * cycles \in Nat
<1>1. /\ log \in Seq(Int) /\ Len(log) \in Nat /\ rtc \in Int /\ cycles \in Nat
      /\ evidence \in EvidenceType
  BY DEF GuardInv, SessionTyped
<1>2. ASSUME NEW s \in 0 .. Len(log) - 1
      PROVE  s \in Int /\ s + 1 \in 1 .. Len(log) /\ log[s + 1] \in Int
  <2>1. s \in Int /\ s + 1 \in 1 .. Len(log)
    BY <1>1
  <2> QED
    BY <1>1, <2>1
<1>3. /\ evidence.anchor.frontier \in Int /\ evidence.anchor.offset \in Int
      /\ evidence.anchor.uncertainty \in Int
      /\ \A x \in evidence.ranges : x.start \in Int /\ x.next \in Int /\ x.offset \in Int
                                    /\ x.uncertainty \in Int
  BY <1>1 DEF EvidenceType, AnchorType, RangeType
<1>4. Jump \in Nat /\ MaxDrift \in Nat /\ Tolerance \in Nat /\ drifted \in Nat
  BY SessionAssumption, ClockAssumption DEF TimeInv, OffsetBounded
<1>5. Jump * cycles \in Nat
  BY <1>1, <1>4
<1> QED
  BY <1>1, <1>2, <1>3, <1>4, <1>5

(* A step that leaves the pendant's clock, the log and the evidence alone, and  *)
(* after which no reading is used.                                           *)
LEMMA StillStep ==
    ASSUME TimeInv,
           UNCHANGED <<log, rtc, cycles, drifted, evidence, orphan, excused>>,
           pc' \notin {"sample", "reconcile", "reconciled", "observe", "write", "boundary", "mark",
                       "finish", "reobserve"}
    PROVE  TimeInv'
<1>1. OffsetBounded' /\ AtReading'
  BY DEF TimeInv, OffsetBounded, AtReading
<1>2. AnchorTrue'
  BY DEF TimeInv, AnchorTrue, Anchoring
<1>3. RangesTrue'
  BY DEF TimeInv, RangesTrue
<1> QED
  BY <1>1, <1>2, <1>3 DEF TimeInv

LEMMA StillSteps ==
    ASSUME TimeInv,
           \/ StartService \/ BeginSession \/ ReadSnapshot \/ WriteMarker \/ SetTemporary
           \/ SetPhy \/ VerifyPhy \/ DeleteMarker \/ Connect \/ Read \/ Teardown \/ Checkpoint
           \/ Cancel \/ Crash \/ Publish
    PROVE  TimeInv'
<1>1. CASE StartService \/ BeginSession \/ ReadSnapshot \/ WriteMarker \/ SetTemporary
  <2>1. /\ UNCHANGED <<log, rtc, cycles, drifted, evidence, orphan, excused>>
        /\ pc' \in {"idle", "snapshot", "mark_phy", "set_temporary", "connect", "set", "down"}
    BY <1>1 DEF StartService, BeginSession, ReadSnapshot, WriteMarker, SetTemporary, FailEnter,
                Restore, pendant, history
  <2> QED
    BY <2>1, StillStep
<1>2. CASE SetPhy \/ VerifyPhy \/ DeleteMarker
  <2>1. Restored \in {"idle", "snapshot", "checkpoint", "down"}
    BY DEF Restored
  <2>2. /\ UNCHANGED <<log, rtc, cycles, drifted, evidence, orphan, excused>>
        /\ pc' \in {"verify", "delete", "down", "idle", "snapshot", "checkpoint"}
    BY <1>2, <2>1 DEF SetPhy, VerifyPhy, DeleteMarker, FailRestore, pendant, history
  <2> QED
    BY <2>2, StillStep
<1>3. CASE Connect \/ Read \/ Teardown \/ Checkpoint \/ Crash \/ Publish
  <2>1. /\ UNCHANGED <<log, rtc, cycles, drifted, evidence, orphan, excused>>
        /\ pc' \in {"info", "teardown", "set", "idle", "down"}
    BY <1>3 DEF Connect, Read, Teardown, Checkpoint, Crash, Publish, Goto, Leave, pendant, history
  <2> QED
    BY <2>1, StillStep
<1>4. CASE Cancel
  <2>1. /\ UNCHANGED <<log, rtc, cycles, drifted, evidence, orphan, excused>>
        /\ pc' \in {"teardown", "set", "down"}
    BY <1>4 DEF Cancel, Leave, FailEnter, Restore, pendant, history
  <2> QED
    BY <2>1, StillStep
<1> QED
  BY <1>1, <1>2, <1>3, <1>4

(* INFO, the reading, the readback and the boundary are taken of the pendant as *)
(* it is.                                                                    *)
LEMMA ReadingSteps ==
    ASSUME TimeInv,
           Info \/ Sample \/ ReadBack \/ ReadBoundary \/ LinkLoss \/ UNCHANGED vars
    PROVE  TimeInv'
<1>1. UNCHANGED <<log, rtc, cycles, drifted, evidence, orphan, excused>>
  BY DEF Info, Sample, ReadBack, ReadBoundary, LinkLoss, vars, pendant, history
<1>2. AtReading' /\ (pc' = "write" => pc = "write")
  <2>1. CASE Info
    <3>1. \/ pc' = "teardown"
          \/ pc' = "sample" /\ info' = [read |-> tail, write |-> Len(log)]
      BY <2>1 DEF Info, Goto, Leave
    <3> QED
      BY <1>1, <3>1 DEF AtReading
  <2>2. CASE Sample
    <3>1. /\ pc = "sample" /\ UNCHANGED info
          /\ \/ pc' = "read"
             \/ pc' \in {"reconcile", "observe"} /\ sample' = rtc
      BY <2>2 DEF Sample, Goto
    <3> QED
      BY <1>1, <3>1 DEF TimeInv, AtReading
  <2>3. CASE ReadBack
    BY <1>1, <2>3 DEF ReadBack, Goto, AtReading
  <2>4. CASE ReadBoundary
    BY <1>1, <2>4 DEF ReadBoundary, Goto, TimeInv, AtReading
  <2>5. CASE LinkLoss \/ UNCHANGED vars
    <3>1. UNCHANGED <<pc, info, sample, written, boundary>>
      BY <2>5 DEF LinkLoss, vars, local
    <3> QED
      BY <1>1, <3>1 DEF TimeInv, AtReading
  <2> QED
    BY <2>1, <2>2, <2>3, <2>4, <2>5
<1> QED
  <2>1. OffsetBounded' /\ AnchorTrue' /\ RangesTrue'
    BY <1>1, <1>2 DEF TimeInv, OffsetBounded, AnchorTrue, Anchoring, RangesTrue
  <2> QED
    BY <1>2, <2>1 DEF TimeInv

(* The pendant stamps a record with its clock, which only a write sets back.    *)
LEMMA RecordTime == ASSUME GuardInv, TimeInv, Record PROVE TimeInv'
<1> USE TimeFacts
<1>1. /\ log' = Append(log, rtc) /\ pc \in {"idle", "write", "boundary", "read"}
      /\ UNCHANGED <<rtc, cycles, drifted, evidence, orphan, excused, pc, info, sample, written,
                     boundary>>
  BY DEF Record, local, history
<1>2. /\ Len(log') = Len(log) + 1 /\ log'[Len(log) + 1] = rtc
      /\ \A i \in 1 .. Len(log) : log'[i] = log[i]
  BY <1>1
<1>3. ASSUME NEW s \in 0 .. Len(log') - 1
      PROVE  \/ s \in 0 .. Len(log) - 1 /\ log'[s + 1] = log[s + 1]
             \/ s = Len(log) /\ log'[s + 1] = rtc
  <2>1. s \in 0 .. Len(log) - 1 \/ s = Len(log)
    BY <1>2
  <2>2. CASE s \in 0 .. Len(log) - 1
    <3>1. s + 1 \in 1 .. Len(log)
      BY <2>2
    <3> QED
      BY <1>2, <2>2, <3>1
  <2>3. CASE s = Len(log)
    BY <1>2, <2>3
  <2> QED
    BY <2>1, <2>2, <2>3
<1>4. OffsetBounded' /\ AtReading'
  BY <1>1 DEF TimeInv, OffsetBounded, AtReading
<1>5. AnchorTrue'
  <2> DEFINE a == evidence.anchor
  <2>1. a.uncertainty >= 0
    BY DEF TimeInv, AnchorTrue
  <2>2. ASSUME Anchoring', NEW s \in 0 .. Len(log') - 1, a.frontier <= s
        PROVE  a.offset <= log'[s + 1] /\ log'[s + 1] <= rtc
    <3>1. /\ a.offset <= rtc
          /\ \A i \in 0 .. Len(log) - 1 : a.frontier <= i => a.offset <= log[i + 1] /\ log[i + 1] <= rtc
      BY <1>1, <2>2 DEF TimeInv, AnchorTrue, Anchoring
    <3>2. CASE s \in 0 .. Len(log) - 1 /\ log'[s + 1] = log[s + 1]
      BY <2>2, <3>1, <3>2
    <3>3. CASE log'[s + 1] = rtc
      BY <3>1, <3>3
    <3> QED
      BY <1>3, <2>2, <3>2, <3>3
  <2>3. Anchoring' => a.offset <= rtc
    BY <1>1 DEF TimeInv, AnchorTrue, Anchoring
  <2> QED
    BY <1>1, <2>1, <2>2, <2>3 DEF AnchorTrue
<1>6. RangesTrue'
  <2> SUFFICES ASSUME NEW x \in evidence.ranges, x.mapped, NEW s \in 0 .. Len(log') - 1,
                      s \notin excused, s \in Span(x)
               PROVE  Abs(log'[s + 1] - x.offset) <= x.uncertainty
    BY <1>1 DEF RangesTrue
  <2>1. x.next <= Len(log)
    BY DEF GuardInv, InLog, Below
  <2>2. s < Len(log)
    BY SMTT(30), <2>1 DEF Span
  <2>3. s \in 0 .. Len(log) - 1 /\ log'[s + 1] = log[s + 1]
    BY <1>3, <2>2
  <2> QED
    BY <2>3 DEF TimeInv, RangesTrue
<1> QED
  BY <1>4, <1>5, <1>6 DEF TimeInv

(* Drift and a power cycle move the clock one way.                             *)
LEMMA OnwardTime == ASSUME GuardInv, TimeInv, Drift \/ PowerCycle PROVE TimeInv'
<1> USE TimeFacts
<1>1. /\ pc = "idle" /\ UNCHANGED <<log, evidence, orphan, excused, pc>>
  BY DEF Drift, PowerCycle, history
<1>2. OffsetBounded' /\ rtc' \in Int /\ rtc <= rtc'
  <2> DEFINE base == Jump * cycles
  <2>1. /\ orphan \in BOOLEAN /\ drifted \in 0 .. MaxDrift /\ base \in Int
        /\ rtc <= base + drifted + Tolerance + 1
    BY DEF TimeInv, OffsetBounded
  <2>2. /\ rtc \in Int /\ drifted \in Int /\ MaxDrift \in Int /\ Tolerance \in Int
        /\ Jump \in Int /\ Jump > MaxDrift + Tolerance /\ 0 <= Tolerance
    BY SessionAssumption
  <2>3. Jump * (cycles + 1) = base + Jump
    OBVIOUS
  <2>4. CASE Drift
    <3>1. cycles' = cycles /\ drifted' = drifted + 1 /\ rtc' = rtc + 1 /\ drifted < MaxDrift
      BY <2>4 DEF Drift
    <3>2. rtc' <= base + drifted' + Tolerance + 1
      <4> HIDE TimeFacts DEF base
      <4> QED
        BY <2>1, <2>2, <3>1
    <3>3. drifted' \in 0 .. MaxDrift /\ rtc' \in Int /\ rtc <= rtc'
      BY <2>1, <2>2, <3>1
    <3> QED
      BY <1>1, <2>1, <3>1, <3>2, <3>3 DEF OffsetBounded
  <2>5. CASE PowerCycle
    <3>1. cycles' = cycles + 1 /\ drifted' = drifted /\ rtc' = Jump * (cycles + 1)
      BY <2>5 DEF PowerCycle
    <3>2. rtc' \in Int /\ rtc <= rtc' /\ rtc' <= rtc' + drifted + Tolerance + 1
      <4>1. rtc' = base + Jump
        BY <2>3, <3>1
      <4> HIDE TimeFacts DEF base
      <4> QED
        BY <2>1, <2>2, <4>1
    <3> QED
      BY <1>1, <2>1, <3>1, <3>2 DEF OffsetBounded
  <2> QED
    BY <2>4, <2>5
<1>3. AtReading'
  BY <1>1 DEF AtReading
<1>4. AnchorTrue'
  <2>1. \A n \in Int : n <= rtc => n <= rtc'
    BY <1>2
  <2>2. Anchoring' => /\ evidence.anchor.offset <= rtc'
                      /\ \A s \in 0 .. Len(log) - 1 : evidence.anchor.frontier <= s =>
                            evidence.anchor.offset <= log[s + 1] /\ log[s + 1] <= rtc'
    BY <1>1, <2>1 DEF TimeInv, AnchorTrue, Anchoring
  <2> QED
    BY <1>1, <2>2 DEF TimeInv, AnchorTrue
<1>5. RangesTrue'
  BY <1>1 DEF TimeInv, RangesTrue
<1> QED
  BY <1>2, <1>3, <1>4, <1>5 DEF TimeInv

(* A write takes effect, at once or late, only under an intent: the anchor is   *)
(* not used before the write is completed.                                   *)
LEMMA WriteTimeTrue == ASSUME GuardInv, TimeInv, LateWrite \/ WriteTime \/ WriteFails PROVE TimeInv'
<1> USE TimeFacts
<1>1. /\ UNCHANGED <<log, cycles, drifted, evidence, orphan, excused>> /\ rtc' \in {rtc, 0}
      /\ evidence.intent.phase # "none"
      /\ \/ pc' \in {"read", "teardown", "readback"}
         \/ pc' = "mark" /\ boundary' = Unset
  <2>1. CASE LateWrite
    <3>1. /\ UNCHANGED <<log, cycles, drifted, evidence, orphan, excused, pc, boundary>> /\ rtc' = 0
      BY <2>1 DEF LateWrite, ClockSet, local
    <3>2. /\ evidence.intent.phase # "none" /\ pc \in {"mark", "read", "teardown"}
          /\ pc = "mark" => boundary = Unset
      BY <2>1 DEF LateWrite, GuardInv, IntentAt
    <3> QED
      BY <3>1, <3>2
  <2>2. CASE WriteTime \/ WriteFails
    <3>1. evidence.intent.phase # "none"
      BY <2>2 DEF WriteTime, WriteFails, GuardInv, IntentAt
    <3>2. UNCHANGED <<log, cycles, drifted, evidence, orphan, excused>>
      BY <2>2 DEF WriteTime, WriteFails
    <3>3. rtc' \in {rtc, 0}
      BY <2>2 DEF WriteTime, WriteFails, ClockSet, ClockKept
    <3>4. pc' = "readback" \/ (pc' = "mark" /\ boundary' = Unset)
      BY <2>2 DEF WriteTime, WriteFails, Goto
    <3> QED
      BY <3>1, <3>2, <3>3, <3>4
  <2> QED
    BY <2>1, <2>2
<1>2. OffsetBounded'
  <2>1. 0 <= Jump * cycles + drifted + Tolerance + 1
    OBVIOUS
  <2> QED
    BY <1>1, <2>1 DEF TimeInv, OffsetBounded
<1>3. AtReading'
  BY <1>1 DEF AtReading
<1>4. AnchorTrue' /\ RangesTrue'
  BY <1>1 DEF TimeInv, AnchorTrue, Anchoring, RangesTrue
<1> QED
  BY <1>2, <1>3, <1>4 DEF TimeInv

(* A step on the evidence that keeps the anchor and maps nothing.               *)
LEMMA NothingMapped ==
    ASSUME TimeInv,
           UNCHANGED <<log, rtc, cycles, drifted, excused>>, orphan' \in BOOLEAN,
           evidence'.anchor = evidence.anchor, Anchoring' => Anchoring,
           \A x \in evidence'.ranges : x \in evidence.ranges \/ ~x.mapped,
           AtReading'
    PROVE  TimeInv'
<1>1. OffsetBounded'
  BY DEF TimeInv, OffsetBounded
<1>2. AnchorTrue'
  BY DEF TimeInv, AnchorTrue
<1>3. RangesTrue'
  BY DEF TimeInv, RangesTrue
<1> QED
  BY <1>1, <1>2, <1>3 DEF TimeInv

LEMMA IntentTime ==
    ASSUME GuardInv, TimeInv, Reconcile \/ Prepare \/ TargetStale \/ PersistResult
    PROVE  TimeInv'
<1> USE LogFacts
<1>1. /\ UNCHANGED <<log, rtc, cycles, drifted, excused, orphan, info, sample, written, boundary>>
      /\ orphan \in BOOLEAN
  BY DEF Reconcile, Prepare, TargetStale, PersistResult, pendant, local, history, TimeInv,
         OffsetBounded
<1>2. CASE evidence' = evidence /\ pc' = "read"
  BY <1>1, <1>2, StillStep
<1>3. CASE Reconcile
  <2> DEFINE next == MarkUncertain(evidence, info.write)
  <2>1. /\ next.intent.phase = "uncertain" /\ next.ranges = evidence.ranges
        /\ next.anchor = evidence.anchor
    BY IntentCases, IntentMapsNothing
  <2>2. /\ evidence' \in {next, evidence} /\ pc' \in {"reconciled", "read"} /\ pc = "reconcile"
        /\ evidence.intent.phase # "none"
    BY <1>3, CommitCases DEF Reconcile, Goto, GuardInv, IntentAt
  <2> HIDE DEF next
  <2>3. AtReading'
    BY <1>1, <2>2 DEF TimeInv, AtReading
  <2>4. ~Anchoring'
    BY <2>1, <2>2 DEF Anchoring
  <2> QED
    BY <1>1, <2>1, <2>2, <2>3, <2>4, NothingMapped
<1>4. CASE Prepare
  <2> DEFINE next == BeginIntent(evidence, info.write)
  <2>1. next.ranges = evidence.ranges /\ next.anchor = evidence.anchor
    BY IntentCases, IntentMapsNothing
  <2>2. /\ evidence' = next \/ (evidence' = evidence /\ pc' = "read")
        /\ pc' \in {"write", "read"} /\ evidence.intent.phase = "none"
    BY <1>4, CommitCases DEF Prepare, GuardInv, IntentAt
  <2> HIDE DEF next
  <2>3. AtReading'
    BY <2>2 DEF AtReading
  <2>4. CASE evidence' = next
    <3>1. Anchoring' => Anchoring
      BY <1>1, <2>1, <2>2, <2>4 DEF Anchoring
    <3> QED
      BY <1>1, <2>1, <2>3, <2>4, <3>1, NothingMapped
  <2> QED
    BY <1>2, <2>2, <2>4
<1>5. CASE TargetStale
  <2> DEFINE next == CancelPrepared(evidence)
  <2>1. next.ranges = evidence.ranges /\ next.anchor = evidence.anchor
    BY IntentCases, IntentMapsNothing
  <2>2. evidence' \in {next, evidence} /\ pc' = "read" /\ pc = "write"
    BY <1>5, CommitCases DEF TargetStale
  <2> HIDE DEF next
  <2>3. AtReading'
    BY <2>2 DEF AtReading
  <2>4. CASE evidence' = next
    <3>1. Anchoring' => Anchoring
      BY <1>1, <2>1, <2>2, <2>4 DEF Anchoring
    <3> QED
      BY <1>1, <2>1, <2>3, <2>4, <3>1, NothingMapped
  <2> QED
    BY <1>2, <2>2, <2>4
<1>6. CASE PersistResult
  <2> DEFINE next == MarkUncertain(evidence, boundary)
  <2>1. /\ next.intent.phase = "uncertain" /\ next.ranges = evidence.ranges
        /\ next.anchor = evidence.anchor
    BY IntentCases, IntentMapsNothing
  <2>2. /\ evidence' \in {next, evidence} /\ evidence.intent.phase # "none" /\ pc = "mark"
        /\ \/ pc' = "read"
           \/ pc' = "finish" /\ written = "verified" /\ boundary # Unset
    BY <1>6, CommitCases DEF PersistResult, GuardInv, IntentAt
  <2> HIDE DEF next
  <2>3. AtReading'
    BY <1>1, <2>2 DEF TimeInv, AtReading
  <2>4. ~Anchoring'
    BY <2>1, <2>2 DEF Anchoring
  <2> QED
    BY <1>1, <2>1, <2>2, <2>3, <2>4, NothingMapped
<1> QED
  BY <1>3, <1>4, <1>5, <1>6

(* A completed write leaves an anchor that is older than the write.            *)
LEMMA FinishTime == ASSUME GuardInv, TimeInv, ReconcileFinish \/ FinishWrite PROVE TimeInv'
<1> USE LogFacts
<1>1. PICK write \in Int, step \in {"observe", "reobserve"} :
        /\ Finish(write, step)
        /\ \/ step = "observe" /\ pc = "reconciled"
           \/ step = "reobserve" /\ pc = "finish"
  BY DEF ReconcileFinish, FinishWrite
<1>2. /\ UNCHANGED <<log, rtc, cycles, drifted, excused, info, sample, written, boundary>>
      /\ orphan \in BOOLEAN
  BY DEF ReconcileFinish, FinishWrite, pendant, local, TimeInv, OffsetBounded
<1> DEFINE next == FinishIntent(evidence, write)
<1>3. /\ next.intent = NoIntent /\ next.anchor = evidence.anchor
      /\ \A x \in next.ranges : x \in evidence.ranges \/ ~x.mapped
  <2>1. next.intent = NoIntent
    BY FinishCases
  <2>2. /\ next.anchor = evidence.anchor
        /\ \A x \in next.ranges : x \in evidence.ranges \/ ~x.mapped
    BY IntentMapsNothing
  <2> QED
    BY <2>1, <2>2
<1>4. /\ orphan' = orphan \/ orphan' = (orphan \/ evidence'.intent = NoIntent)
      /\ \/ evidence' = evidence /\ pc' = "read"
         \/ /\ evidence' = next /\ pc' \in {step, "read"}
            /\ orphan' = (orphan \/ evidence'.intent = NoIntent)
  BY <1>1, CommitCases DEF Finish, Goto
<1> HIDE DEF next
<1>5. AtReading'
  BY <1>1, <1>2, <1>4 DEF TimeInv, AtReading
<1>6. orphan' \in BOOLEAN /\ (~orphan' => ~orphan)
  <2>1. CASE orphan' = orphan
    BY <1>2, <2>1
  <2>2. CASE orphan' = (orphan \/ evidence'.intent = NoIntent)
    <3>1. CASE orphan \/ evidence'.intent = NoIntent
      BY <2>2, <3>1
    <3>2. CASE ~(orphan \/ evidence'.intent = NoIntent)
      BY <2>2, <3>2
    <3> QED
      BY <3>1, <3>2
  <2> QED
    BY <1>4, <2>1, <2>2
<1>7. CASE evidence' = evidence /\ pc' = "read"
  <2>1. Anchoring' => Anchoring
    BY <1>6, <1>7 DEF Anchoring
  <2> QED
    BY <1>2, <1>5, <1>6, <1>7, <2>1, NothingMapped
<1>8. CASE evidence' = next /\ orphan' = (orphan \/ evidence'.intent = NoIntent)
  <2>1. ~Anchoring'
    BY <1>3, <1>8 DEF Anchoring
  <2> QED
    BY <1>2, <1>3, <1>5, <1>6, <1>8, <2>1, NothingMapped
<1> QED
  BY <1>4, <1>7, <1>8

(* A reading maps what was recorded since the anchor: no clock write is between *)
(* the two, or what it maps is excused.                                       *)
LEMMA ObserveTime == ASSUME GuardInv, TimeInv, ObserveBefore \/ ObserveAfter PROVE TimeInv'
<1> USE LogFacts, TimeFacts
<1>1. PICK read \in Int, write \in Int, step \in {"read", "prepare"} :
        Observed(read, write, sample, step) /\ write = Len(log) /\ sample = rtc
  <2>1. tail \in Int
    BY DEF GuardInv, SessionTyped
  <2>2. CASE ObserveBefore
    BY <2>2 DEF ObserveBefore, TimeInv, AtReading
  <2>3. CASE ObserveAfter
    BY <2>1, <2>3 DEF ObserveAfter, TimeInv, AtReading
  <2> QED
    BY <2>2, <2>3
<1>2. /\ UNCHANGED <<log, rtc, cycles, drifted>> /\ evidence.intent.phase = "none"
      /\ orphan \in BOOLEAN
  BY DEF ObserveBefore, ObserveAfter, pendant, GuardInv, IntentAt, TimeInv, OffsetBounded
<1> DEFINE next == Observe(evidence, read, write, sample)
           a == evidence.anchor
<1>3. /\ pc' \in {"read", "prepare"} /\ evidence' \in {evidence, next}
      /\ IF evidence' # evidence
         THEN /\ orphan' = FALSE
              /\ excused' = excused \cup (IF orphan THEN Covered(next) \ Covered(evidence) ELSE {})
         ELSE UNCHANGED <<orphan, excused>>
  BY <1>1, CommitCases DEF Observed
<1>4. AtReading'
  BY <1>3 DEF AtReading
<1>5. CASE evidence' = evidence
  <2>1. Anchoring' => Anchoring
    BY <1>2, <1>3, <1>5 DEF Anchoring
  <2> QED
    BY <1>2, <1>3, <1>4, <1>5, <2>1, NothingMapped
<1>6. CASE evidence' # evidence
  <2>1. /\ next.anchor = [set |-> TRUE, frontier |-> write, offset |-> sample,
                          uncertainty |-> ReadUncertainty]
        /\ \A x \in next.ranges :
              \/ x \in evidence.ranges
              \/ ~x.mapped
              \/ /\ a.set
                 /\ x.offset = a.offset /\ x.uncertainty = Widened(a, sample)
                 /\ Span(x) \subseteq (a.frontier .. write - 1) \ Covered(evidence)
    BY <1>3, <1>6, ObserveMaps
  <2>2. /\ evidence' = next /\ orphan' = FALSE /\ excused \subseteq excused'
        /\ orphan => Covered(next) \ Covered(evidence) \subseteq excused'
    BY <1>3, <1>6
  <2> HIDE DEF next
  <2>3. OffsetBounded'
    BY <1>2, <2>2 DEF TimeInv, OffsetBounded
  <2>4. AnchorTrue'
    <3>1. /\ evidence'.anchor.uncertainty = ReadUncertainty
          /\ evidence'.anchor.offset = rtc /\ evidence'.anchor.frontier = Len(log)
      <4>1. evidence'.anchor = [set |-> TRUE, frontier |-> Len(log), offset |-> rtc,
                                uncertainty |-> ReadUncertainty]
        BY Zenon, <1>1, <2>1, <2>2
      <4> QED
        BY <4>1
    <3>2. ReadUncertainty >= 0 /\ rtc <= rtc
      BY ClockAssumption
    <3>3. ASSUME NEW s \in 0 .. Len(log) - 1 PROVE ~(Len(log) <= s)
      OBVIOUS
    <3> QED
      BY <1>2, <3>1, <3>2, <3>3 DEF AnchorTrue
  <2>5. RangesTrue'
    <3> SUFFICES ASSUME NEW x \in next.ranges, x.mapped, NEW s \in 0 .. Len(log) - 1,
                        s \notin excused', s \in Span(x)
                 PROVE  Abs(log[s + 1] - x.offset) <= x.uncertainty
      BY <1>2, <2>2 DEF RangesTrue
    <3>1. CASE x \in evidence.ranges
      BY <2>2, <3>1 DEF TimeInv, RangesTrue
    <3>2. CASE /\ a.set /\ x.offset = a.offset /\ x.uncertainty = Widened(a, sample)
               /\ Span(x) \subseteq (a.frontier .. write - 1) \ Covered(evidence)
      <4>1. s \in Covered(next) \ Covered(evidence)
        BY <3>2 DEF Covered
      <4>2. ~orphan
        BY <2>2, <4>1
      <4>3. a.frontier <= s
        BY <3>2
      <4>4. a.offset <= log[s + 1] /\ log[s + 1] <= rtc
        BY <1>2, <3>2, <4>2, <4>3 DEF TimeInv, AnchorTrue, Anchoring
      <4>5. a.uncertainty >= 0
        BY DEF TimeInv, AnchorTrue
      <4>6. /\ log[s + 1] \in Int /\ a.offset \in Int /\ rtc \in Int /\ a.uncertainty \in Int
        OBVIOUS
      <4>7. x.offset = a.offset /\ x.uncertainty = a.uncertainty + Abs(rtc - a.offset)
        BY <1>1, <3>2 DEF Widened
      <4> HIDE LogFacts, TimeFacts DEF a
      <4> QED
        BY <4>4, <4>5, <4>6, <4>7 DEF Abs
    <3> QED
      BY <2>1, <3>1, <3>2
  <2> QED
    BY <1>4, <2>3, <2>4, <2>5 DEF TimeInv
<1> QED
  BY <1>5, <1>6

-----------------------------------------------------------------------------
LEMMA InitTime == Init => TimeInv
<1> SUFFICES ASSUME Init PROVE TimeInv
  OBVIOUS
<1>1. /\ rtc = Tolerance + 1 /\ cycles = 0 /\ drifted = 0 /\ orphan = FALSE /\ pc = "down"
      /\ evidence = NoEvidence
  BY DEF Init
<1>2. /\ evidence.ranges = {} /\ ~evidence.anchor.set /\ evidence.anchor.uncertainty = 0
  BY <1>1 DEF NoEvidence, NoAnchor
<1>3. Jump * 0 = 0 /\ MaxDrift \in Nat /\ Tolerance \in Nat
  BY SessionAssumption, ClockAssumption
<1>4. OffsetBounded
  <2>1. drifted \in 0 .. MaxDrift /\ rtc <= Jump * cycles + drifted + Tolerance + 1
    BY <1>1, <1>3
  <2> QED
    BY Zenon, <1>1, <2>1 DEF OffsetBounded
<1> QED
  BY <1>1, <1>2, <1>4 DEF TimeInv, AtReading, AnchorTrue, Anchoring, RangesTrue

LEMMA NextTime == GuardInv /\ TimeInv /\ [Next]_vars => TimeInv'
  BY StillSteps, ReadingSteps, RecordTime, OnwardTime, WriteTimeTrue, IntentTime, FinishTime,
     ObserveTime DEF Next

(* The label of a record that is mapped is the mapping of a range it is in.     *)
LEMMA LabelOfRange ==
    ASSUME NEW st, NEW s, PublicLabel(st, s).mapped
    PROVE  \E x \in st.ranges : /\ s \in Span(x) /\ x.mapped
                                /\ PublicLabel(st, s).offset = x.offset
                                /\ PublicLabel(st, s).uncertainty = x.uncertainty
<1> DEFINE owners == {x \in st.ranges : s \in Span(x)}
           r == CHOOSE x \in owners : TRUE
           unknown(kind, i, j) ==
               [mapped |-> FALSE, offset |-> 0, uncertainty |-> 0, member |-> <<kind, i, j>>]
           known == [mapped |-> TRUE, offset |-> r.offset, uncertainty |-> r.uncertainty,
                     member |-> <<"mapped", Component(st, s)[1], Component(st, s)[2]>>]
<1>1. PublicLabel(st, s) = IF InWindow(st, s) THEN unknown("intent", s, s)
                           ELSE IF owners = {} THEN unknown("uncovered", s, s)
                           ELSE IF ~r.mapped THEN unknown("range", r.start, r.next)
                           ELSE known
  BY DEF PublicLabel
<1>2. owners # {} => r \in owners
  OBVIOUS
<1> HIDE DEF owners, r
<1>3. ASSUME NEW kind, NEW i, NEW j PROVE ~unknown(kind, i, j).mapped
  OBVIOUS
<1>4. known.offset = r.offset /\ known.uncertainty = r.uncertainty
  OBVIOUS
<1> HIDE DEF unknown, known
<1>5. PublicLabel(st, s) = known /\ owners # {} /\ r.mapped
  BY <1>1, <1>3
<1>6. r \in st.ranges /\ s \in Span(r)
  BY <1>2, <1>5 DEF owners
<1> QED
  BY <1>4, <1>5, <1>6

(* A record mapped to UTC is off by no more than the uncertainty published      *)
(* with it, unless a reading mapped it from an anchor older than a completed    *)
(* clock write (ClockState.observe, _sync_trusted_state_clock).               *)
THEOREM TimeStaysTruthful == Spec => []TimeIsTruthful
<1>1. TimeInv => TimeIsTruthful
  <2> SUFFICES ASSUME TimeInv, NEW s \in (0 .. Len(log) - 1) \ excused,
                      PublicLabel(evidence, s).mapped
               PROVE  Abs(log[s + 1] - PublicLabel(evidence, s).offset)
                         <= PublicLabel(evidence, s).uncertainty
    BY DEF TimeIsTruthful
  <2>1. PICK x \in evidence.ranges : /\ s \in Span(x) /\ x.mapped
                                     /\ PublicLabel(evidence, s).offset = x.offset
                                     /\ PublicLabel(evidence, s).uncertainty = x.uncertainty
    BY LabelOfRange
  <2>2. Abs(log[s + 1] - x.offset) <= x.uncertainty
    BY <2>1 DEF TimeInv, RangesTrue
  <2> QED
    BY <2>1, <2>2
<1> QED
  BY <1>1, InitTime, NextTime, WritesAreGuarded, PTL DEF Spec
=============================================================================
