------------------------- MODULE Publication_proofs -------------------------
(***************************************************************************)
(* Proofs about Publication, for every backoff table and every number of    *)
(* changes, failures, visits and retirements.  The inductive invariant says *)
(* that a worker past its admission owns the reducer's work, that capture   *)
(* and shutdown find every other worker at rest, and in which work the      *)
(* deadline of a failed publication is kept.                                *)
(***************************************************************************)
EXTENDS Publication, FiniteSetTheorems, TLAPS

(* The works of the reducer.                                                *)
RetryWork == [kind : {"retry"}, rev : Int, due : Int, fails : Nat]
RunningWork == [kind : {"running"}, token : Nat, rev : Int, gen : Nat, fails : Nat]
SettledWork == [kind : {"settled"}, rev : Int, by : {"publication", "compaction"}]
CompactingWork ==
    [kind : {"compacting", "quiescing"}, token : Nat, rev : Int, gen : Nat, debt : Nat,
     retry : {Idle} \cup RetryWork]
Works == {Idle} \cup RunningWork \cup SettledWork \cup RetryWork \cup CompactingWork
Modes == {"available", "capture", "closed"}
PubState == [mode : Modes, work : Works, gen : Nat, tok : Nat, check : BOOLEAN]

WorkerState == [pc : Pcs, tok : Nat, rev : Int, again : BOOLEAN,
                result : {"settled", "transient"}]

Typed == TypeOK /\ ps \in PubState

(* A worker past its admission owns the work of the reducer.                *)
RunPcs == {"run", "effect", "finish"}
VacuumPcs == {"compact", "vacuum", "vacuumed"}
Owned ==
    /\ \A p \in Workers : w[p].pc \in RunPcs =>
          ps.work.kind = "running" /\ ps.work.token = w[p].tok
    /\ \A p \in Workers : w[p].pc \in {"run", "effect"} => ps.work.rev = w[p].rev
    /\ \A p \in Workers : w[p].pc = "run" => w[p].rev # Unknown
    /\ w["maint"].pc \in VacuumPcs =>
          ps.work.kind = "compacting" /\ ps.work.token = w["maint"].tok
    /\ \A p \in Workers : w[p].pc \in VacuumPcs \cup {"due", "notify"} => p = "maint"
    /\ \A p, q \in Workers : w[p].pc \in RunPcs /\ w[q].pc \in RunPcs => p = q

(* Who can be at work in which part of a visit.                              *)
Joined ==
    /\ maint.phase = "idle" => w["maint"].pc = "free"
    /\ visit \in {"recover", "scan", "wake"} => ps.mode = "available"
    /\ visit \in {"join", "capture"} => ps.mode = "capture"
    /\ visit = "closed" => ps.mode = "closed"
    /\ visit \notin {"recover", "wake"} => w["wake"].pc = "free"
    /\ visit \in {"join", "capture", "closed"} => maint.phase = "idle"
    /\ visit = "capture" => w["retry"].pc = "free" /\ ps.work = Idle

(* The deadline of the last failed publication is kept by the work that waits *)
(* for it, by the compaction that put the wait aside, or it is overtaken by a *)
(* run of another revision.                                                  *)
Waits(work) == work.kind = "retry" /\ work.rev = hold.rev /\ work.due = hold.due
Held ==
    now < hold.due =>
        /\ ps.mode = "available"
        /\ \/ Waits(ps.work) /\ ~ps.check
           \/ ps.work.kind = "compacting" /\ Waits(ps.work.retry) /\ ~ps.check
           \/ ps.work.kind = "running" /\ ps.work.rev # hold.rev

IndInv == Typed /\ Owned /\ Joined /\ Held /\ RetryIsArmed

-----------------------------------------------------------------------------
(* The reducer.                                                              *)

(* The delay of a retry is positive.                                         *)
LEMMA DelayType ==
    ASSUME NEW n \in Nat
    PROVE  Delay(n) \in Nat \ {0}
  BY BoundsAssumption DEF Delay

(* The shapes of the works, by their kind.                                   *)
LEMMA WorkKinds ==
    ASSUME NEW s \in PubState
    PROVE  /\ s.work.kind \in {"idle", "running", "settled", "retry", "compacting", "quiescing"}
           /\ s.work.kind = "idle" => s.work = Idle
           /\ s.work.kind = "running" => s.work \in RunningWork
           /\ s.work.kind = "settled" => s.work \in SettledWork
           /\ s.work.kind = "retry" => s.work \in RetryWork
           /\ Vacuuming(s) => s.work \in CompactingWork
  BY DEF PubState, Works, Idle, RunningWork, SettledWork, RetryWork, CompactingWork, Vacuuming

(* A wake admits a run only from a work that nobody owns and, on the revision *)
(* of a retry, only when it is due; otherwise it leaves the work alone.       *)
LEMMA WakeProbedCases ==
    ASSUME NEW s \in PubState, NEW revision \in Int, now \in Nat,
           NEW r, r = WakeProbed(s, revision)
    PROVE  /\ r.st \in PubState /\ r.st.mode = s.mode
           /\ r.cmd # "run" =>
                 /\ r.st.work = s.work /\ r.st.tok = s.tok
                 /\ s.work.kind \in {"retry", "compacting"} => r.st = s
           /\ r.cmd = "run" =>
                 /\ Available(s) /\ s.work.kind \in {"idle", "settled", "retry"}
                 /\ r.st.work.kind = "running" /\ r.st.work.token = r.st.tok
                 /\ r.st.work.rev = revision
                 /\ s.work.kind = "retry" /\ now < s.work.due => s.work.rev # revision
<1> DEFINE work == s.work
           same == work.kind \in {"running", "settled", "retry"} /\ work.rev = revision
<1>1. CASE ~Available(s) \/ Vacuuming(s)
  <2>1. r = To(s, "none")
    BY <1>1 DEF WakeProbed
  <2> QED
    BY <2>1 DEF To
<1>2. CASE Available(s) /\ work.kind = "running"
  <2>0. ~Vacuuming(s) /\ s.gen + 1 \in Nat
    BY <1>2 DEF Vacuuming, PubState
  <2>1. r = To(State(s.mode, work, s.gen + 1, s.tok, TRUE), "none") \/ r = To(s, "none")
    BY <1>2, <2>0 DEF WakeProbed
  <2>2. State(s.mode, work, s.gen + 1, s.tok, TRUE) \in PubState
    BY <2>0 DEF State, PubState
  <2>3. CASE r = To(s, "none")
    BY <2>3 DEF To
  <2>4. CASE r = To(State(s.mode, work, s.gen + 1, s.tok, TRUE), "none")
    BY <1>2, <2>2, <2>4 DEF To, State
  <2> QED
    BY <2>1, <2>3, <2>4
<1>3. CASE Available(s) /\ work.kind \notin {"running"} /\ ~Vacuuming(s)
  <2>1. CASE work.kind = "settled" /\ same
    <3>1. r = To([s EXCEPT !.check = FALSE], "none")
      BY <1>3, <2>1 DEF WakeProbed
    <3>2. [s EXCEPT !.check = FALSE] \in PubState
      BY DEF PubState
    <3> QED
      BY <2>1, <3>1, <3>2 DEF To, PubState
  <2>2. CASE work.kind = "retry" /\ same /\ now < work.due
    <3>1. r = To(s, "arm")
      BY <1>3, <2>2 DEF WakeProbed
    <3> QED
      BY <3>1 DEF To
  <2>3. CASE ~(work.kind = "settled" /\ same) /\ ~(work.kind = "retry" /\ same /\ now < work.due)
    <3> DEFINE failures == IF work.kind = "retry" /\ same THEN work.fails ELSE 0
               run == Running(s.tok + 1, revision, s.gen, failures)
    <3>1. r = To(State(s.mode, run, s.gen, s.tok + 1, FALSE), "run")
      BY <1>3, <2>3 DEF WakeProbed
    <3>2. failures \in Nat
      BY WorkKinds DEF RetryWork
    <3>3. run \in RunningWork /\ run.rev = revision /\ run.token = s.tok + 1 /\ run.kind = "running"
      BY <3>2 DEF Running, RunningWork, PubState
    <3>4. State(s.mode, run, s.gen, s.tok + 1, FALSE) \in PubState
      BY <3>3 DEF State, PubState, Works
    <3>5. work.kind \in {"idle", "settled", "retry"}
      BY <1>3, WorkKinds DEF Vacuuming
    <3>6. work.kind = "retry" /\ now < work.due => work.rev # revision
      BY <2>3
    <3> HIDE DEF run
    <3> QED
      BY <1>3, <3>1, <3>3, <3>4, <3>5, <3>6 DEF To, State
  <2> QED
    BY <2>1, <2>2, <2>3
<1> QED
  BY <1>1, <1>2, <1>3

(* The run that finishes leaves no work behind, a wait with a deadline ahead,  *)
(* or a settled revision.  Only the owner of the work can finish it.          *)
LEMMA FinishedCases ==
    ASSUME NEW s \in PubState, NEW token \in Nat, NEW revision \in Int,
           NEW result, NEW reprobe, now \in Nat,
           s.work.kind = "running", s.work.token = token,
           NEW r, r = Finished(s, token, revision, result, reprobe)
    PROVE  /\ r.st \in PubState /\ r.st.mode = s.mode
           /\ r.st.work.kind \in {"idle", "settled", "retry"}
           /\ r.cmd # "arm" => r.st.work.kind # "retry"
           /\ r.cmd = "arm" =>
                 /\ Available(s) /\ r.st.work.kind = "retry" /\ ~r.st.check
                 /\ now < r.st.work.due
<1>0. s.work \in RunningWork
  BY WorkKinds
<1>1. CASE ~Available(s)
  <2>1. r = To(State(s.mode, Idle, s.gen, s.tok, FALSE), "none")
    BY <1>1 DEF Finished
  <2> QED
    BY <2>1 DEF To, State, PubState, Works, Idle
<1>2. CASE Available(s)
  <2>1. CASE r = To(State(s.mode, Idle, s.gen, s.tok, TRUE), "check")
    BY <2>1 DEF To, State, PubState, Works, Idle
  <2>2. CASE r = To(State(s.mode, RetryWait(revision, now + Delay(s.work.fails), s.work.fails + 1),
                          s.gen, s.tok, FALSE), "arm")
    <3> DEFINE wait == RetryWait(revision, now + Delay(s.work.fails), s.work.fails + 1)
    <3>1. s.work.fails \in Nat /\ Delay(s.work.fails) \in Nat \ {0}
      BY <1>0, DelayType DEF RunningWork
    <3>2. wait \in RetryWork /\ wait.kind = "retry" /\ now < wait.due
      BY <3>1 DEF RetryWait, RetryWork
    <3>3. State(s.mode, wait, s.gen, s.tok, FALSE) \in PubState
      BY <3>2 DEF State, PubState, Works
    <3> HIDE DEF wait
    <3> QED
      BY <1>2, <2>2, <3>2, <3>3 DEF To, State, wait
  <2>3. CASE r = To(State(s.mode, Settled(revision, "publication"), s.gen, s.tok, FALSE), "none")
    <3>1. Settled(revision, "publication") \in SettledWork
      BY DEF Settled, SettledWork
    <3> QED
      BY <2>3, <3>1 DEF To, State, PubState, Works, SettledWork
  <2> QED
    BY <1>2, <2>1, <2>2, <2>3 DEF Finished
<1> QED
  BY <1>1, <1>2

(* A compaction is admitted from a work that nobody owns, and puts a wait aside. *)
LEMMA CompactionDueCases ==
    ASSUME NEW s \in PubState, NEW revision \in Int, NEW owed \in Nat,
           NEW r, r = CompactionDue(s, revision, owed)
    PROVE  \/ r.cmd # "compact" /\ r.st = s
           \/ /\ r.cmd = "compact"
              /\ s.work.kind \in {"idle", "settled", "retry"}
              /\ r.st \in PubState /\ r.st.mode = s.mode /\ r.st.check = s.check
              /\ r.st.work.kind = "compacting" /\ r.st.work.token = r.st.tok
              /\ s.work.kind = "retry" => r.st.work.retry = s.work
<1>1. CASE ~Available(s) \/ s.work.kind \notin {"idle", "settled", "retry"}
  BY <1>1 DEF CompactionDue, To
<1>2. CASE Available(s) /\ s.work.kind \in {"idle", "settled", "retry"}
  <2> DEFINE kept == IF s.work.kind = "retry" THEN s.work ELSE Idle
             work == Compacting("compacting", s.tok + 1, revision, s.gen, owed, kept)
  <2>1. r = To(State(s.mode, work, s.gen, s.tok + 1, s.check), "compact")
    BY <1>2 DEF CompactionDue
  <2>2. kept \in {Idle} \cup RetryWork
    BY WorkKinds
  <2>3. work \in CompactingWork /\ work.kind = "compacting" /\ work.token = s.tok + 1
        /\ work.retry = kept
    BY <2>2 DEF Compacting, CompactingWork, PubState
  <2>4. State(s.mode, work, s.gen, s.tok + 1, s.check) \in PubState
    BY <2>3 DEF State, PubState, Works
  <2> HIDE DEF work
  <2> QED
    BY <1>2, <2>1, <2>3, <2>4 DEF To, State
<1> QED
  BY <1>1, <1>2

(* The compaction that finishes restores the wait it put aside, unless a check *)
(* is pending, or settles its revision.                                       *)
LEMMA CompactionFinishedCases ==
    ASSUME NEW s \in PubState, s.work.kind = "compacting", Available(s),
           NEW r, r = CompactionFinished(s, s.work.token)
    PROVE  /\ r.st \in PubState /\ r.st.mode = s.mode
           /\ \/ /\ s.work.retry # Idle /\ ~s.check
                 /\ r.st.work = s.work.retry /\ r.st.work.kind = "retry" /\ ~r.st.check
              \/ (s.work.retry = Idle \/ s.check) /\ r.st.work.kind = "settled"
<1>0. Vacuuming(s) /\ s.work \in CompactingWork
  BY WorkKinds DEF Vacuuming
<1>1. CASE s.work.retry # Idle /\ ~s.check
  <2>1. r = To(State(s.mode, s.work.retry, s.gen, s.tok, FALSE), "arm")
    BY <1>0, <1>1 DEF CompactionFinished
  <2>2. s.work.retry \in RetryWork
    BY <1>0, <1>1 DEF CompactingWork
  <2>3. State(s.mode, s.work.retry, s.gen, s.tok, FALSE) \in PubState
    BY <2>2 DEF State, PubState, Works
  <2>4. s.work.retry.kind = "retry"
    BY <2>2 DEF RetryWork
  <2> QED
    BY <1>1, <2>1, <2>3, <2>4 DEF To, State
<1>2. CASE s.work.retry = Idle \/ s.check
  <2> DEFINE again == s.work.gen # s.gen \/ s.check
             work == Settled(s.work.rev, "compaction")
  <2>1. r = To(State(s.mode, work, s.gen, s.tok, again), IF again THEN "check" ELSE "none")
    BY <1>0, <1>2 DEF CompactionFinished
  <2>2. again \in BOOLEAN
    BY DEF PubState
  <2>3. work \in SettledWork /\ work.kind = "settled"
    BY <1>0 DEF Settled, SettledWork, CompactingWork
  <2> HIDE DEF again, work
  <2>4. State(s.mode, work, s.gen, s.tok, again) \in PubState
    BY <2>2, <2>3 DEF State, PubState, Works
  <2> QED
    BY <1>2, <2>1, <2>3, <2>4 DEF To, State
<1> QED
  BY <1>1, <1>2

(* A report of a changed input drops a wait and keeps an owned work.          *)
LEMMA InputChangedCases ==
    ASSUME NEW s \in PubState, NEW t, t = InputChanged(s)
    PROVE  /\ t \in PubState /\ t.mode = s.mode /\ t.work.kind # "retry"
           /\ s.work.kind \in {"compacting", "quiescing", "running"} => t.work = s.work
           /\ s.work = Idle => t.work = Idle
<1> DEFINE work == IF s.work.kind \in {"compacting", "quiescing", "running"} THEN s.work ELSE Idle
<1>1. t = State(s.mode, work, s.gen + 1, s.tok, TRUE)
  BY DEF InputChanged
<1>2. work \in Works /\ work.kind # "retry" /\ (s.work = Idle => work = Idle)
  BY DEF PubState, Works, Idle
<1>3. s.work.kind \in {"compacting", "quiescing", "running"} => work = s.work
  OBVIOUS
<1> HIDE DEF work
<1>4. t \in PubState
  BY <1>1, <1>2 DEF State, PubState
<1> QED
  BY <1>1, <1>2, <1>3, <1>4 DEF State

(* Capture and shutdown stop a compaction and leave a run to its owner.       *)
LEMMA QuiescingCases ==
    ASSUME NEW s \in PubState
    PROVE  /\ Quiescing(s.work) \in Works
           /\ s.work.kind = "running" => Quiescing(s.work) = s.work
<1>1. CASE s.work.kind = "compacting"
  <2>1. s.work \in CompactingWork
    BY <1>1, WorkKinds DEF Vacuuming
  <2>2. Quiescing(s.work)
          = Compacting("quiescing", s.work.token, s.work.rev, s.work.gen, s.work.debt, Idle)
    BY <1>1 DEF Quiescing
  <2>3. Quiescing(s.work) \in CompactingWork
    BY <2>1, <2>2 DEF Compacting, CompactingWork
  <2> QED
    BY <1>1, <2>3 DEF Works
<1>2. CASE s.work.kind # "compacting"
  BY <1>2 DEF Quiescing, PubState
<1> QED
  BY <1>1, <1>2

-----------------------------------------------------------------------------
(* The workers.                                                              *)

Phases == {"idle", "ack", "publish", "raw", "expiry", "vacuum", "salvage"}
MaintType == [phase : Phases, window : BOOLEAN]

LEMMA PhaseType ==
    ASSUME NEW phase \in Phases, NEW window \in BOOLEAN
    PROVE  M(phase, window) \in MaintType /\ M(phase, window).phase = phase
  BY DEF M, MaintType

(* What the steps below need of the types.                                   *)
LEMMA TypeFacts ==
    ASSUME IndInv
    PROVE  /\ w \in [Workers -> WorkerState] /\ ps \in PubState
           /\ now \in Nat /\ rev \in Nat /\ debt \in Nat /\ ready \in BOOLEAN
           /\ timer \in [gen : Nat, due : Int] /\ hold \in [rev : Int, due : Int]
           /\ maint \in MaintType
  BY BoundsAssumption DEF IndInv, Typed, TypeOK, WorkerState, MaintType, Phases

UsedType == [changes : 0..MaxChanges, failures : 0..MaxFailures,
             visits : 0..MaxVisits, debts : 0..MaxDebts]

(* No bound is exceeded.                                                     *)
LEMMA UsedStep ==
    ASSUME IndInv, Fail \/ Change \/ Visit \/ UNCHANGED used
    PROVE  used' \in UsedType
<1>1. used \in UsedType
  BY DEF IndInv, Typed, TypeOK, UsedType
<1>2. CASE Fail
  BY <1>1, <1>2, BoundsAssumption DEF Fail, UsedType
<1>3. CASE Change
  BY <1>1, <1>3, BoundsAssumption DEF Change, UsedType
<1>4. CASE Visit
  BY <1>1, <1>4, BoundsAssumption DEF Visit, UsedType
<1>5. CASE UNCHANGED used
  BY <1>1, <1>5
<1> QED
  BY <1>2, <1>3, <1>4, <1>5

(* A worker that has read nothing: at rest, started, or at any place.         *)
LEMMA FreeType ==
    /\ Free \in WorkerState /\ Free.pc = "free"
    /\ Starting \in WorkerState /\ Starting.pc = "start"
<1>1. Unknown \in Int
  BY DEF Unknown
<1>2. Free \in WorkerState /\ Free.pc = "free"
  BY <1>1 DEF Free, WorkerState, Pcs
<1> QED
  BY <1>2 DEF Starting, WorkerState, Pcs

LEMMA FreeAt ==
    ASSUME NEW pc \in Pcs
    PROVE  [Free EXCEPT !.pc = pc] \in WorkerState /\ [Free EXCEPT !.pc = pc].pc = pc
  BY FreeType DEF WorkerState

LEMMA AfterPc == \A cmd : After(cmd) \in {"check", "return"}
  BY DEF After

(* A worker that goes on without a new admission, and leaves the reducer, the  *)
(* timer and the visit alone, disturbs nothing.                              *)
LEMMA QuietMove ==
    ASSUME IndInv, NEW p \in Workers, NEW x \in WorkerState,
           w' = [w EXCEPT ![p] = x], w[p].pc # "free", x.pc \notin {"free", "notify", "due", "run"},
           UNCHANGED <<ps, now, visit, timer, hold>>,
           maint' = maint \/ (p = "maint" /\ maint'.phase # "idle"),
           x.pc \in RunPcs => w[p].pc \in RunPcs /\ x.tok = w[p].tok,
           x.pc = "effect" => w[p].pc \in {"run", "effect"} /\ x.rev = w[p].rev,
           x.pc \in VacuumPcs => w[p].pc \in VacuumPcs /\ x.tok = w[p].tok
    PROVE  Owned' /\ Joined' /\ Held' /\ RetryIsArmed'
<1>1. w \in [Workers -> WorkerState] /\ w'[p] = x /\ \A q \in Workers : q # p => w'[q] = w[q]
  BY TypeFacts
<1>2. Owned'
  BY <1>1 DEF IndInv, Owned, RunPcs, VacuumPcs, Workers
<1>3. Joined'
  BY <1>1 DEF IndInv, Joined, Workers
<1>4. Held'
  BY DEF IndInv, Held, Waits
<1>5. RetryIsArmed'
  BY <1>1 DEF RetryIsArmed
<1> QED
  BY <1>2, <1>3, <1>4, <1>5

(* wake() without a probe goes on to the probe or returns.                    *)
LEMMA StartStep == ASSUME IndInv, NEW p \in Workers, Start(p) PROVE IndInv'
<1> DEFINE x == [Free EXCEPT !.pc = After(WakeUnprobed(ps).cmd)]
<1>1. x \in WorkerState /\ x.pc \in {"check", "return"}
  BY FreeAt, AfterPc DEF Pcs
<1>2. w' = [w EXCEPT ![p] = x] /\ w[p].pc = "start"
  BY DEF Start, Forget, At
<1> HIDE DEF x
<1>3. Typed'
  BY <1>1, <1>2, TypeFacts DEF Start, input, IndInv, Typed, TypeOK, WorkerState
<1>4. Owned' /\ Joined' /\ Held' /\ RetryIsArmed'
  BY <1>1, <1>2, QuietMove DEF Start, RunPcs, VacuumPcs
<1> QED
  BY <1>3, <1>4 DEF IndInv

(* The revision is read, or could not be.                                     *)
LEMMA ProbeStep == ASSUME IndInv, NEW p \in Workers, Probe(p) PROVE IndInv'
<1>1. PICK r \in {rev, Unknown} : w' = [w EXCEPT ![p].pc = "wake", ![p].rev = r]
  BY DEF Probe
<1> DEFINE x == [w[p] EXCEPT !.pc = "wake", !.rev = r]
<1>2. x \in WorkerState /\ x.pc = "wake"
  <2>1. w[p] \in WorkerState /\ r \in Int
    BY <1>1, TypeFacts DEF Unknown
  <2> QED
    BY <2>1 DEF WorkerState, Pcs
<1>3. w' = [w EXCEPT ![p] = x] /\ w[p].pc = "check"
  BY <1>1, TypeFacts DEF Probe, At
<1> HIDE DEF x
<1>4. Typed'
  <2>1. used' \in UsedType
    BY UsedStep DEF Probe
  <2> QED
    BY <1>2, <1>3, <2>1, TypeFacts DEF Probe, input, IndInv, Typed, TypeOK, WorkerState, UsedType
<1>5. Owned' /\ Joined' /\ Held' /\ RetryIsArmed'
  BY <1>2, <1>3, QuietMove DEF Probe, RunPcs, VacuumPcs
<1> QED
  BY <1>4, <1>5 DEF IndInv

(* The wake with the revision: the only place where a run is admitted.        *)
LEMMA WakeStep == ASSUME IndInv, NEW p \in Workers, Wake(p) PROVE IndInv'
<1> DEFINE r == WakeProbed(ps, w[p].rev)
<1>1. w[p] \in WorkerState /\ w[p].rev \in Int /\ w[p].pc = "wake"
  BY TypeFacts DEF Wake, At, WorkerState
<1>2. /\ r.st \in PubState /\ r.st.mode = ps.mode
      /\ r.cmd # "run" =>
            /\ r.st.work = ps.work /\ r.st.tok = ps.tok
            /\ ps.work.kind \in {"retry", "compacting"} => r.st = ps
      /\ r.cmd = "run" =>
            /\ Available(ps) /\ ps.work.kind \in {"idle", "settled", "retry"}
            /\ r.st.work.kind = "running" /\ r.st.work.token = r.st.tok
            /\ r.st.work.rev = w[p].rev
            /\ ps.work.kind = "retry" /\ now < ps.work.due => ps.work.rev # w[p].rev
  BY <1>1, TypeFacts, WakeProbedCases
<1>3. /\ ps' = r.st
      /\ UNCHANGED <<now, rev, ready, debt, intr, defer, maint, visit, timer, used, hold>>
  BY DEF Wake, input
<1>4. PICK x \in WorkerState :
        /\ w' = [w EXCEPT ![p] = x]
        /\ r.cmd # "run" => x.pc = "return"
        /\ r.cmd = "run" =>
              /\ x.pc \in {"run", "finish"} /\ x.tok = r.st.tok
              /\ x.pc = "run" => x.rev = w[p].rev /\ x.rev # Unknown
  <2>1. CASE r.cmd # "run"
    BY <2>1, FreeAt DEF Wake, Forget, Pcs
  <2>2. CASE r.cmd = "run" /\ w[p].rev # Unknown
    <3> DEFINE x == [w[p] EXCEPT !.pc = "run", !.tok = r.st.tok]
    <3>0. r.st.tok \in Nat
      BY <1>2 DEF PubState
    <3>1. w' = [w EXCEPT ![p].pc = "run", ![p].tok = r.st.tok]
      BY <2>2 DEF Wake
    <3> HIDE DEF r
    <3>2. w' = [w EXCEPT ![p] = x]
      BY <3>1, TypeFacts
    <3>3. x \in WorkerState /\ x.pc = "run" /\ x.tok = r.st.tok /\ x.rev = w[p].rev
      BY <1>1, <3>0 DEF WorkerState, Pcs
    <3> QED
      BY <2>2, <3>2, <3>3
  <2>3. CASE r.cmd = "run" /\ w[p].rev = Unknown
    <3> DEFINE x == [w[p] EXCEPT !.pc = "finish", !.tok = r.st.tok,
                                 !.result = "transient", !.again = FALSE]
    <3>0. r.st.tok \in Nat
      BY <1>2 DEF PubState
    <3>1. w' = [w EXCEPT ![p] = x]
      BY <2>3 DEF Wake
    <3> HIDE DEF r
    <3>2. x \in WorkerState /\ x.pc = "finish" /\ x.tok = r.st.tok
      BY <1>1, <3>0 DEF WorkerState, Pcs
    <3> QED
      BY <2>3, <3>1, <3>2
  <2> QED
    BY <2>1, <2>2, <2>3
<1> HIDE DEF r
<1>5. w \in [Workers -> WorkerState] /\ w'[p] = x /\ \A q \in Workers : q # p => w'[q] = w[q]
  BY <1>4, TypeFacts
<1>6. Typed'
  <2>1. w' \in [Workers -> WorkerState]
    BY <1>4, TypeFacts
  <2>2. ps'.mode \in Modes /\ ps'.gen \in Nat /\ ps'.tok \in Nat /\ ps'.check \in BOOLEAN
        /\ ps'.work.kind \in {"idle", "running", "settled", "retry", "compacting", "quiescing"}
    BY <1>2, <1>3, WorkKinds DEF PubState
  <2> QED
    BY <1>2, <1>3, <2>1, <2>2 DEF IndInv, Typed, TypeOK, WorkerState, Modes
<1>7. Owned'
  <2>1. CASE r.cmd # "run"
    BY <1>1, <1>2, <1>3, <1>4, <1>5, <2>1 DEF IndInv, Owned, RunPcs, VacuumPcs
  <2>2. CASE r.cmd = "run"
    <3>1. \A q \in Workers : w[q].pc \notin RunPcs \cup VacuumPcs
      BY <1>2, <2>2 DEF IndInv, Owned
    <3> QED
      BY <1>1, <1>2, <1>3, <1>4, <1>5, <2>2, <3>1 DEF IndInv, Owned, RunPcs, VacuumPcs
  <2> QED
    BY <2>1, <2>2
<1>8. Joined'
  BY <1>1, <1>2, <1>3, <1>4, <1>5 DEF IndInv, Joined, Workers, Idle, Available
<1>9. Held'
  BY <1>2, <1>3 DEF IndInv, Held, Waits
<1>10. RetryIsArmed'
  BY <1>4, <1>5 DEF RetryIsArmed
<1> QED
  BY <1>6, <1>7, <1>8, <1>9, <1>10 DEF IndInv

(* The effect is admitted, or its run is finished without it; the effect ends  *)
(* with what it found.                                                        *)
LEMMA EffectStep ==
    ASSUME IndInv, NEW p \in Workers,
           AdmitEffect(p) \/ EffectPublishes(p) \/ EffectSettles(p) \/ EffectFails(p)
    PROVE  IndInv'
<1>1. w[p] \in WorkerState /\ w[p].pc \in {"run", "effect"}
  BY TypeFacts DEF AdmitEffect, EffectPublishes, EffectSettles, EffectFails, At
<1>2. PICK x \in WorkerState :
        /\ w' = [w EXCEPT ![p] = x] /\ x.tok = w[p].tok /\ x.pc \in {"effect", "finish"}
        /\ x.pc = "effect" => x.rev = w[p].rev
  <2>1. CASE AdmitEffect(p) /\ Goto(p, "effect")
    <3> DEFINE x == [w[p] EXCEPT !.pc = "effect"]
    <3>1. w' = [w EXCEPT ![p] = x]
      BY <2>1, TypeFacts DEF Goto
    <3>2. x \in WorkerState /\ x.pc = "effect" /\ x.tok = w[p].tok /\ x.rev = w[p].rev
      BY <1>1 DEF WorkerState, Pcs
    <3> QED
      BY <3>1, <3>2
  <2>2. ASSUME NEW r \in Int, NEW result \in {"settled", "transient"}, NEW again \in BOOLEAN,
               Result(p, r, result, again)
        PROVE  \E x \in WorkerState :
                  /\ w' = [w EXCEPT ![p] = x] /\ x.tok = w[p].tok /\ x.pc = "finish"
    <3> DEFINE x == [w[p] EXCEPT !.pc = "finish", !.rev = r, !.result = result, !.again = again]
    <3>1. w' = [w EXCEPT ![p] = x]
      BY <2>2 DEF Result
    <3>2. x \in WorkerState /\ x.pc = "finish" /\ x.tok = w[p].tok
      BY <1>1 DEF WorkerState, Pcs
    <3> QED
      BY <3>1, <3>2
  <2>3. \/ AdmitEffect(p) /\ Goto(p, "effect")
        \/ \E r \in Int, result \in {"settled", "transient"}, again \in BOOLEAN :
              Result(p, r, result, again)
    <3>1. rev \in Int /\ rev + 1 \in Int /\ Unknown \in Int /\ w[p].rev \in Int
      BY <1>1, TypeFacts DEF Unknown, WorkerState
    <3>2. CASE AdmitEffect(p)
      BY <3>1, <3>2 DEF AdmitEffect
    <3>3. CASE EffectPublishes(p)
      BY <3>1, <3>3 DEF EffectPublishes
    <3>4. CASE EffectSettles(p)
      BY <3>1, <3>4 DEF EffectSettles
    <3>5. CASE EffectFails(p)
      BY <3>1, <3>5 DEF EffectFails
    <3> QED
      BY <3>2, <3>3, <3>4, <3>5
  <2> QED
    BY <2>1, <2>2, <2>3
<1>3. /\ UNCHANGED <<ps, now, debt, intr, defer, maint, visit, timer, hold>>
      /\ rev' \in Nat /\ ready' \in BOOLEAN /\ used' \in UsedType
  <2>1. used' \in UsedType
    BY UsedStep DEF AdmitEffect, EffectPublishes, EffectSettles, EffectFails
  <2>2. rev' \in {rev, rev + 1} /\ ready' \in {ready, FALSE}
    BY DEF AdmitEffect, EffectPublishes, EffectSettles, EffectFails, input
  <2>3. rev' \in Nat
    BY <2>2, TypeFacts
  <2>4. ready' \in BOOLEAN
    BY <2>2, TypeFacts, Zenon
  <2> QED
    BY <2>1, <2>3, <2>4 DEF AdmitEffect, EffectPublishes, EffectSettles, EffectFails
<1>4. Typed'
  BY <1>2, <1>3, TypeFacts DEF IndInv, Typed, TypeOK, WorkerState, UsedType
<1>5. Owned' /\ Joined' /\ Held' /\ RetryIsArmed'
  BY <1>1, <1>2, <1>3, QuietMove DEF RunPcs, VacuumPcs
<1> QED
  BY <1>4, <1>5 DEF IndInv

(* The owner of the run reports its result to the reducer.                    *)
LEMMA FinishStep == ASSUME IndInv, NEW p \in Workers, Finish(p) PROVE IndInv'
<1> DEFINE r == Finished(ps, w[p].tok, w[p].rev, w[p].result, w[p].again)
<1>1. w[p] \in WorkerState /\ w[p].pc = "finish"
  BY TypeFacts DEF Finish, At
<1>2. ps.work.kind = "running" /\ ps.work.token = w[p].tok
  BY <1>1 DEF IndInv, Owned, RunPcs
<1>3. /\ r.st \in PubState /\ r.st.mode = ps.mode
      /\ r.st.work.kind \in {"idle", "settled", "retry"}
      /\ r.cmd # "arm" => r.st.work.kind # "retry"
      /\ r.cmd = "arm" =>
            /\ Available(ps) /\ r.st.work.kind = "retry" /\ ~r.st.check
            /\ now < r.st.work.due
  <2>1. w[p].tok \in Nat /\ w[p].rev \in Int
    BY <1>1 DEF WorkerState
  <2> QED
    BY <1>2, <2>1, TypeFacts, FinishedCases
<1>4. PICK x \in WorkerState : w' = [w EXCEPT ![p] = x] /\ x.pc \in {"check", "return"}
  <2>1. [Free EXCEPT !.pc = After(r.cmd)] \in WorkerState
        /\ [Free EXCEPT !.pc = After(r.cmd)].pc \in {"check", "return"}
    BY FreeAt, AfterPc DEF Pcs
  <2> QED
    BY <2>1 DEF Finish, Forget
<1>5. /\ ps' = r.st
      /\ hold' = IF r.cmd = "arm" THEN [rev |-> r.st.work.rev, due |-> r.st.work.due] ELSE NoHold
      /\ UNCHANGED <<now, rev, ready, debt, intr, defer, maint, visit, timer, used>>
  BY DEF Finish, input
<1> HIDE DEF r
<1>6. w \in [Workers -> WorkerState] /\ w'[p] = x /\ \A q \in Workers : q # p => w'[q] = w[q]
  BY <1>4, TypeFacts
<1>7. hold' \in [rev : Int, due : Int]
  <2>1. CASE r.cmd = "arm"
    BY <1>3, <1>5, <2>1, WorkKinds DEF RetryWork
  <2>2. CASE r.cmd # "arm"
    <3>1. Unknown \in Int /\ -1 \in Int
      BY DEF Unknown
    <3> QED
      BY <1>5, <2>2, <3>1 DEF NoHold
  <2> QED
    BY <2>1, <2>2
<1>8. Typed'
  <2>1. w' \in [Workers -> WorkerState]
    BY <1>4, TypeFacts
  <2>2. ps'.mode \in Modes /\ ps'.gen \in Nat /\ ps'.tok \in Nat /\ ps'.check \in BOOLEAN
    BY <1>3, <1>5 DEF PubState
  <2> QED
    BY <1>3, <1>5, <1>7, <2>1, <2>2 DEF IndInv, Typed, TypeOK, WorkerState, Modes
<1>9. Owned'
  <2>1. \A q \in Workers : q # p => w[q].pc \notin RunPcs \cup VacuumPcs
    BY <1>1, <1>2 DEF IndInv, Owned, RunPcs
  <2>2. \A q \in Workers : w'[q].pc \notin RunPcs \cup VacuumPcs
    BY <1>4, <1>6, <2>1 DEF RunPcs, VacuumPcs
  <2>3. \A q \in Workers : w'[q].pc \in {"due", "notify"} => q = "maint"
    BY <1>4, <1>6 DEF IndInv, Owned
  <2> QED
    BY <2>2, <2>3 DEF Owned, RunPcs, Workers
<1>10. Joined'
  BY <1>1, <1>3, <1>4, <1>5, <1>6 DEF IndInv, Joined, Workers, Idle
<1>11. Held'
  <2>1. CASE r.cmd = "arm"
    BY <1>3, <1>5, <2>1 DEF Held, Waits, Available
  <2>2. CASE r.cmd # "arm"
    <3>1. hold'.due = -1 /\ now' \in Nat
      BY <1>5, <2>2, TypeFacts DEF NoHold
    <3> QED
      BY <3>1 DEF Held
  <2> QED
    BY <2>1, <2>2
<1>12. RetryIsArmed'
  BY <1>4, <1>6 DEF RetryIsArmed
<1> QED
  BY <1>8, <1>9, <1>10, <1>11, <1>12 DEF IndInv

(* The end of _recover_and_publish arms the timer of a scheduled retry.       *)
LEMMA ReturnStep == ASSUME IndInv, NEW p \in Workers, Return(p) PROVE IndInv'
<1>1. w[p] \in WorkerState /\ w[p].pc = "return"
  BY TypeFacts DEF Return, At
<1>2. PICK x \in WorkerState : w' = [w EXCEPT ![p] = x] /\ x.pc \in {"start", "free"}
  BY FreeType DEF Return
<1>3. /\ timer' = IF RetrySchedule(ps) THEN Armed(ps) ELSE timer
      /\ UNCHANGED <<ps, now, rev, ready, debt, intr, defer, maint, visit, used, hold>>
  BY DEF Return, input
<1>4. w \in [Workers -> WorkerState] /\ w'[p] = x /\ \A q \in Workers : q # p => w'[q] = w[q]
  BY <1>2, TypeFacts
<1>5. timer' \in [gen : Nat, due : Int]
  <2>1. RetrySchedule(ps) => ps.work.due \in Int /\ ps.gen \in Nat
    BY TypeFacts, WorkKinds DEF RetrySchedule, RetryWork, PubState
  <2> QED
    BY <1>3, <2>1, TypeFacts DEF Armed
<1>6. Typed'
  <2>1. w' \in [Workers -> WorkerState]
    BY <1>2, TypeFacts
  <2> QED
    BY <1>3, <1>5, <2>1 DEF IndInv, Typed, TypeOK, WorkerState
<1>7. Owned'
  BY <1>2, <1>3, <1>4 DEF IndInv, Owned, RunPcs, VacuumPcs
<1>8. Joined'
  BY <1>1, <1>2, <1>3, <1>4 DEF IndInv, Joined, Workers
<1>9. Held'
  BY <1>3 DEF IndInv, Held, Waits
<1>10. RetryIsArmed'
  BY <1>3 DEF RetryIsArmed, RetrySchedule, Available, Armed
<1> QED
  BY <1>6, <1>7, <1>8, <1>9, <1>10 DEF IndInv

-----------------------------------------------------------------------------
(* Compaction.                                                               *)

(* The state of the reducer has its type.                                    *)
LEMMA StateType ==
    ASSUME NEW s \in PubState
    PROVE  /\ s.mode \in {"available", "capture", "closed"}
           /\ s.work.kind \in {"idle", "running", "settled", "retry", "compacting", "quiescing"}
           /\ s.gen \in Nat /\ s.tok \in Nat /\ s.check \in BOOLEAN
  BY WorkKinds DEF PubState, Modes

(* The maintenance worker reads the revision before it asks for a compaction. *)
LEMMA VacuumProbeStep == ASSUME IndInv, VacuumProbe PROVE IndInv'
<1> DEFINE x == [Free EXCEPT !.pc = "due", !.rev = rev]
<1>1. x \in WorkerState /\ x.pc = "due"
  <2>1. rev \in Int
    BY TypeFacts
  <2> QED
    BY <2>1, FreeType DEF WorkerState, Pcs
<1>2. w' = [w EXCEPT !["maint"] = x] /\ maint.phase = "vacuum" /\ "maint" \in Workers
  BY DEF VacuumProbe, Workers
<1> HIDE DEF x
<1>3. w \in [Workers -> WorkerState] /\ w'["maint"] = x
      /\ \A q \in Workers : q # "maint" => w'[q] = w[q]
  BY <1>2, TypeFacts
<1>4. UNCHANGED <<ps, now, rev, ready, debt, intr, defer, maint, visit, timer, used, hold>>
  BY DEF VacuumProbe, input
<1>5. Typed'
  BY <1>1, <1>2, <1>4, TypeFacts DEF IndInv, Typed, TypeOK, WorkerState
<1>6. Owned'
  BY <1>1, <1>3, <1>4 DEF IndInv, Owned, RunPcs, VacuumPcs
<1>7. Joined'
  BY <1>2, <1>3, <1>4 DEF IndInv, Joined, Workers
<1>8. Held'
  BY <1>4 DEF IndInv, Held, Waits
<1>9. RetryIsArmed'
  BY <1>1, <1>2, <1>3 DEF RetryIsArmed
<1> QED
  BY <1>5, <1>6, <1>7, <1>8, <1>9 DEF IndInv

(* A compaction is admitted only when no run is.                             *)
LEMMA VacuumDueStep == ASSUME IndInv, VacuumDue PROVE IndInv'
<1> DEFINE r == CompactionDue(ps, w["maint"].rev, debt)
<1>1. "maint" \in Workers /\ w["maint"] \in WorkerState /\ w["maint"].pc = "due"
      /\ w["maint"].rev \in Int
  BY TypeFacts DEF VacuumDue, At, Workers, WorkerState
<1>2. \/ r.cmd # "compact" /\ r.st = ps
      \/ /\ r.cmd = "compact"
         /\ ps.work.kind \in {"idle", "settled", "retry"}
         /\ r.st \in PubState /\ r.st.mode = ps.mode /\ r.st.check = ps.check
         /\ r.st.work.kind = "compacting" /\ r.st.work.token = r.st.tok
         /\ ps.work.kind = "retry" => r.st.work.retry = ps.work
  BY <1>1, TypeFacts, CompactionDueCases
<1>3. r.st \in PubState
  BY <1>2, TypeFacts
<1>4. PICK x \in WorkerState :
        /\ w' = [w EXCEPT !["maint"] = x]
        /\ r.cmd = "compact" => x.pc = "compact" /\ x.tok = r.st.tok
        /\ r.cmd # "compact" => x.pc = "return"
  <2>1. CASE r.cmd = "compact"
    <3> DEFINE x == [w["maint"] EXCEPT !.pc = "compact", !.tok = r.st.tok]
    <3>1. r.st.tok \in Nat
      BY <1>3, StateType
    <3>2. w' = [w EXCEPT !["maint"].pc = "compact", !["maint"].tok = r.st.tok]
      BY <2>1 DEF VacuumDue
    <3> HIDE DEF r
    <3>3. w' = [w EXCEPT !["maint"] = x]
      BY <1>1, <3>2, TypeFacts
    <3>4. x \in WorkerState /\ x.pc = "compact" /\ x.tok = r.st.tok
      BY <1>1, <3>1 DEF WorkerState, Pcs
    <3> QED
      BY <2>1, <3>3, <3>4
  <2>2. CASE r.cmd # "compact"
    BY <2>2, FreeAt DEF VacuumDue, Pcs
  <2> QED
    BY <2>1, <2>2
<1>5. /\ ps' = r.st
      /\ maint' = IF r.cmd = "compact" THEN maint ELSE M("salvage", FALSE)
      /\ UNCHANGED <<now, rev, ready, debt, intr, defer, visit, timer, used, hold>>
  BY DEF VacuumDue, input
<1> HIDE DEF r
<1>6. w \in [Workers -> WorkerState] /\ w'["maint"] = x
      /\ \A q \in Workers : q # "maint" => w'[q] = w[q]
  BY <1>1, <1>4, TypeFacts
<1>7. maint.phase # "idle" /\ maint'.phase # "idle"
  BY <1>1, <1>5 DEF IndInv, Joined, M
<1>8. Typed'
  <2>1. w' \in [Workers -> WorkerState]
    BY <1>1, <1>4, TypeFacts
  <2>2. maint' \in MaintType
    BY <1>5, PhaseType, TypeFacts DEF Phases
  <2> QED
    BY <1>3, <1>5, <2>1, <2>2, StateType DEF IndInv, Typed, TypeOK, WorkerState, MaintType, Phases
<1>9. Owned'
  <2>1. CASE r.cmd # "compact"
    BY <1>2, <1>4, <1>5, <1>6, <2>1 DEF IndInv, Owned, RunPcs, VacuumPcs
  <2>2. CASE r.cmd = "compact"
    <3>1. \A q \in Workers : w'[q].pc \notin RunPcs
      BY <1>2, <1>4, <1>6, <2>2 DEF IndInv, Owned, RunPcs
    <3>2. \A q \in Workers : w'[q].pc \in VacuumPcs \cup {"due", "notify"} => q = "maint"
      BY <1>6 DEF IndInv, Owned
    <3>3. ps'.work.kind = "compacting" /\ ps'.work.token = w'["maint"].tok
      BY <1>2, <1>4, <1>5, <1>6, <2>2
    <3> QED
      BY <3>1, <3>2, <3>3 DEF Owned, RunPcs
  <2> QED
    BY <2>1, <2>2
<1>10. Joined'
  <2>1. visit \notin {"join", "capture", "closed"}
    BY <1>7 DEF IndInv, Joined
  <2>2. ps'.mode = ps.mode /\ w'["wake"] = w["wake"]
    BY <1>2, <1>5, <1>6 DEF Workers
  <2> QED
    BY <1>5, <1>7, <2>1, <2>2 DEF IndInv, Joined
<1>11. Held'
  BY <1>2, <1>5 DEF IndInv, Held, Waits
<1>12. RetryIsArmed'
  BY <1>1, <1>4, <1>6 DEF RetryIsArmed
<1> QED
  BY <1>8, <1>9, <1>10, <1>11, <1>12 DEF IndInv

(* Past its admission the worker vacuums and clears the debt, or does not.    *)
LEMMA VacuumRunStep == ASSUME IndInv, VacuumAdmit \/ VacuumRun PROVE IndInv'
<1>1. "maint" \in Workers /\ w["maint"] \in WorkerState /\ w["maint"].pc \in {"compact", "vacuum"}
  BY TypeFacts DEF VacuumAdmit, VacuumRun, At, Workers
<1>2. PICK x \in WorkerState :
        /\ w' = [w EXCEPT !["maint"] = x]
        /\ x.pc = "return" \/ (x.pc \in {"vacuum", "vacuumed"} /\ x.tok = w["maint"].tok)
  <2>1. ASSUME NEW pc \in {"vacuum", "vacuumed"}, Goto("maint", pc)
        PROVE  \E x \in WorkerState : /\ w' = [w EXCEPT !["maint"] = x]
                                      /\ x.pc = pc /\ x.tok = w["maint"].tok
    <3> DEFINE x == [w["maint"] EXCEPT !.pc = pc]
    <3>1. w' = [w EXCEPT !["maint"] = x]
      BY <1>1, <2>1, TypeFacts DEF Goto
    <3>2. x \in WorkerState /\ x.pc = pc /\ x.tok = w["maint"].tok
      BY <1>1 DEF WorkerState, Pcs
    <3> QED
      BY <3>1, <3>2
  <2>2. CASE Forget("maint", "return")
    BY <2>2, FreeAt DEF Forget, Pcs
  <2> QED
    BY <2>1, <2>2 DEF VacuumAdmit, VacuumRun
<1>3. /\ UNCHANGED <<ps, now, rev, ready, intr, defer, visit, timer, hold>>
      /\ maint' = maint \/ maint' = M("salvage", FALSE)
      /\ debt' \in {debt, 0} /\ used' \in UsedType
  BY UsedStep DEF VacuumAdmit, VacuumRun, input
<1>4. Typed'
  <2>1. maint' \in MaintType
    BY <1>3, PhaseType, TypeFacts DEF Phases
  <2>2. debt' \in 0..MaxDebts
    BY <1>3, BoundsAssumption DEF IndInv, Typed, TypeOK
  <2> QED
    BY <1>1, <1>2, <1>3, <2>1, <2>2, TypeFacts DEF IndInv, Typed, TypeOK, WorkerState, UsedType, MaintType, Phases
<1>5. maint' = maint \/ maint'.phase # "idle"
  BY <1>3 DEF M
<1>6. Owned' /\ Joined' /\ Held' /\ RetryIsArmed'
  BY <1>1, <1>2, <1>3, <1>5, QuietMove DEF RunPcs, VacuumPcs
<1> QED
  BY <1>4, <1>6 DEF IndInv

(* The end of the compaction restores the wait it put aside.                 *)
LEMMA VacuumFinishStep == ASSUME IndInv, VacuumFinish PROVE IndInv'
<1> DEFINE r == CompactionFinished(ps, w["maint"].tok)
<1>1. "maint" \in Workers /\ w["maint"] \in WorkerState /\ w["maint"].pc = "vacuumed"
  BY TypeFacts DEF VacuumFinish, At, Workers
<1>2. ps.work.kind = "compacting" /\ ps.work.token = w["maint"].tok
  BY <1>1 DEF IndInv, Owned, VacuumPcs
<1>3. maint.phase # "idle" /\ visit \in {"recover", "scan", "wake"} /\ Available(ps)
  BY <1>1 DEF IndInv, Joined, Typed, TypeOK, Available
<1>4. /\ r.st \in PubState /\ r.st.mode = ps.mode
      /\ \/ /\ ps.work.retry # Idle /\ ~ps.check
            /\ r.st.work = ps.work.retry /\ r.st.work.kind = "retry" /\ ~r.st.check
         \/ (ps.work.retry = Idle \/ ps.check) /\ r.st.work.kind = "settled"
  BY <1>2, <1>3, TypeFacts, CompactionFinishedCases
<1>5. PICK x \in WorkerState : w' = [w EXCEPT !["maint"] = x] /\ x.pc \in {"check", "return"}
  <2>1. [Free EXCEPT !.pc = After(r.cmd)] \in WorkerState
        /\ [Free EXCEPT !.pc = After(r.cmd)].pc \in {"check", "return"}
    BY FreeAt, AfterPc DEF Pcs
  <2> QED
    BY <2>1 DEF VacuumFinish, Forget
<1>6. /\ ps' = r.st /\ maint' = M("salvage", FALSE)
      /\ UNCHANGED <<now, rev, ready, debt, intr, defer, visit, timer, used, hold>>
  BY DEF VacuumFinish, input
<1> HIDE DEF r
<1>7. w \in [Workers -> WorkerState] /\ w'["maint"] = x
      /\ \A q \in Workers : q # "maint" => w'[q] = w[q]
  BY <1>1, <1>5, TypeFacts
<1>8. Typed'
  <2>1. w' \in [Workers -> WorkerState]
    BY <1>1, <1>5, TypeFacts
  <2>2. maint' \in MaintType
    BY <1>6, PhaseType DEF Phases
  <2> QED
    BY <1>4, <1>6, <2>1, <2>2, StateType DEF IndInv, Typed, TypeOK, WorkerState, MaintType, Phases
<1>9. Owned'
  <2>1. \A q \in Workers : w'[q].pc \notin RunPcs \cup VacuumPcs
    BY <1>2, <1>5, <1>7 DEF IndInv, Owned, RunPcs, VacuumPcs
  <2>2. \A q \in Workers : w'[q].pc \in {"due", "notify"} => q = "maint"
    BY <1>7 DEF IndInv, Owned
  <2> QED
    BY <2>1, <2>2 DEF Owned, RunPcs, Workers
<1>10. Joined'
  <2>1. maint'.phase = "salvage" /\ w'["wake"] = w["wake"]
    BY <1>6, <1>7 DEF M, Workers
  <2> QED
    BY <1>3, <1>4, <1>6, <2>1 DEF IndInv, Joined
<1>11. Held'
  <2> SUFFICES ASSUME now < hold.due
               PROVE  ps'.mode = "available" /\ Waits(ps'.work) /\ ~ps'.check
    BY <1>6 DEF Held, Waits
  <2>1. Waits(ps.work.retry) /\ ~ps.check
    BY <1>2 DEF IndInv, Held, Waits
  <2>2. ps.work.retry # Idle
    BY <2>1 DEF Waits, Idle
  <2> QED
    BY <1>3, <1>4, <1>6, <2>1, <2>2 DEF Available
<1>12. RetryIsArmed'
  BY <1>1, <1>5, <1>7 DEF RetryIsArmed
<1> QED
  BY <1>8, <1>9, <1>10, <1>11, <1>12 DEF IndInv

-----------------------------------------------------------------------------
(* The maintenance task.                                                     *)

(* Between two phases the maintenance worker rests, starts a publication or    *)
(* has a change to report; the reducer is not touched.                        *)
LEMMA MaintMove ==
    ASSUME IndInv, NEW x \in WorkerState, x.pc \in {"free", "start", "notify"},
           w["maint"].pc = "free", w' = [w EXCEPT !["maint"] = x],
           maint' \in MaintType, maint'.phase = "idle" => x.pc = "free",
           maint'.phase # "idle" => visit \notin {"join", "capture", "closed"},
           UNCHANGED <<ps, now, intr, defer, visit, timer, hold>>,
           rev' \in Nat, ready' \in BOOLEAN, debt' \in 0..MaxDebts, used' \in UsedType
    PROVE  IndInv'
<1>1. /\ "maint" \in Workers /\ w \in [Workers -> WorkerState] /\ w'["maint"] = x
      /\ \A q \in Workers : q # "maint" => w'[q] = w[q]
  BY TypeFacts DEF Workers
<1>2. Typed'
  BY ZenonT(30), TypeFacts DEF IndInv, Typed, TypeOK, WorkerState, UsedType, MaintType, Phases
<1>3. Owned'
  BY <1>1 DEF IndInv, Owned, RunPcs, VacuumPcs
<1>4. Joined'
  BY <1>1 DEF IndInv, Joined, Workers
<1>5. Held'
  BY DEF IndInv, Held, Waits
<1>6. RetryIsArmed'
  BY <1>1 DEF IndInv, RetryIsArmed, RetrySchedule, Available, Armed
<1> QED
  BY <1>2, <1>3, <1>4, <1>5, <1>6 DEF IndInv

(* Every step of a pass, but the report of a change, is such a move.          *)
LEMMA MaintenanceStep ==
    ASSUME IndInv,
           \/ RunOnce \/ RetireAcknowledged \/ SweepTerminalQuarantine
           \/ AdmitQuarantinedPrefix \/ Delete
           \/ BeginPublication \/ AdvanceWindow \/ EndWindow \/ EndPass
    PROVE  IndInv'
<1>0. /\ w["maint"] \in WorkerState /\ w["maint"].pc \in Pcs
      /\ w = [w EXCEPT !["maint"] = w["maint"]]
  BY TypeFacts DEF Workers, WorkerState
<1>1. CASE RunOnce
  <2>1. /\ maint.phase = "idle" /\ w["maint"].pc = "free" /\ visit = "scan"
        /\ UNCHANGED <<ps, now, rev, ready, debt, intr, defer, visit, timer, used, hold>>
    BY <1>1 DEF RunOnce, input, IndInv, Joined
  <2>2. rev' \in Nat /\ ready' \in BOOLEAN /\ debt' \in 0..MaxDebts /\ used' \in UsedType
    BY <2>1 DEF IndInv, Typed, TypeOK, UsedType
  <2>3. \E x \in WorkerState :
          /\ w' = [w EXCEPT !["maint"] = x] /\ x.pc \in {"free", "start"}
          /\ maint' \in MaintType /\ maint'.phase # "idle"
    <3>1. CASE maint' = M("ack", TRUE) /\ UNCHANGED w
      BY <1>0, <2>1, <3>1, PhaseType DEF Phases
    <3>2. CASE maint' = M("publish", FALSE) /\ w' = [w EXCEPT !["maint"] = Starting]
      BY <3>2, FreeType, PhaseType DEF Phases
    <3> QED
      BY <1>1, <3>1, <3>2 DEF RunOnce
  <2> QED
    BY <2>1, <2>2, <2>3, MaintMove
<1>2. CASE RetireAcknowledged \/ SweepTerminalQuarantine \/ AdmitQuarantinedPrefix
  <2>1. PICK phase \in Phases \ {"idle"} : Commits(phase)
    BY <1>2 DEF RetireAcknowledged, SweepTerminalQuarantine, AdmitQuarantinedPrefix, Phases
  <2>2. /\ maint.phase = phase /\ w["maint"].pc = "free" /\ Change
        /\ w' = [w EXCEPT !["maint"].pc = "notify"]
        /\ UNCHANGED <<ps, now, debt, intr, defer, maint, visit, timer, hold>>
    BY <2>1 DEF Commits, Between, At, Goto
  <2> DEFINE x == [w["maint"] EXCEPT !.pc = "notify"]
  <2>3. w' = [w EXCEPT !["maint"] = x]
    BY <2>2, TypeFacts DEF Workers
  <2>4. x \in WorkerState /\ x.pc = "notify"
    BY <1>0 DEF WorkerState, Pcs
  <2>5. rev' \in Nat /\ used' \in UsedType
    <3>1. rev' = rev + 1
      BY <2>2 DEF Change
    <3> QED
      BY <2>2, <3>1, TypeFacts, UsedStep
  <2>6. ready' \in BOOLEAN
    <3>1. ready' = ready \/ CohortChanges
      BY <1>2 DEF RetireAcknowledged, SweepTerminalQuarantine, AdmitQuarantinedPrefix
    <3> QED
      BY <3>1, TypeFacts DEF CohortChanges
  <2>7. debt' \in 0..MaxDebts /\ maint' \in MaintType
    BY <2>2, TypeFacts DEF IndInv, Typed, TypeOK
  <2>8. visit \notin {"join", "capture", "closed"} /\ maint'.phase # "idle"
    BY <2>1, <2>2 DEF IndInv, Joined
  <2> HIDE DEF x
  <2> QED
    BY <2>2, <2>3, <2>4, <2>5, <2>6, <2>7, <2>8, MaintMove
<1>3. CASE Delete
  <2>1. /\ maint.phase # "idle" /\ w["maint"].pc = "free"
        /\ UNCHANGED <<ps, now, rev, ready, intr, defer, w, maint, visit, timer, hold>>
        /\ used.debts < MaxDebts /\ debt' = used.debts + 1
        /\ used' = [used EXCEPT !.debts = @ + 1]
    BY <1>3 DEF Delete, Between, At, input
  <2>2. used \in UsedType
    BY DEF IndInv, Typed, TypeOK, UsedType
  <2>3. debt' \in 0..MaxDebts /\ used' \in UsedType
    BY <2>1, <2>2, BoundsAssumption DEF UsedType
  <2>4. visit \notin {"join", "capture", "closed"}
    BY <2>1 DEF IndInv, Joined
  <2>5. maint' \in MaintType /\ rev' \in Nat /\ ready' \in BOOLEAN
    BY <2>1, TypeFacts
  <2> QED
    BY <1>0, <2>1, <2>3, <2>4, <2>5, MaintMove
<1>4. CASE BeginPublication \/ AdvanceWindow \/ EndWindow \/ EndPass
  <2>1. /\ maint.phase # "idle" /\ w["maint"].pc = "free"
        /\ UNCHANGED <<ps, now, rev, ready, debt, intr, defer, visit, timer, used, hold>>
    BY <1>4 DEF BeginPublication, AdvanceWindow, EndWindow, EndPass, Between, At, input
  <2>2. PICK phase \in Phases, window \in BOOLEAN :
          /\ maint' = M(phase, window)
          /\ \/ phase # "idle" /\ w' = [w EXCEPT !["maint"] = Starting]
             \/ UNCHANGED w
    <3>1. CASE BeginPublication
      BY <3>1 DEF BeginPublication, Phases
    <3>2. CASE AdvanceWindow
      BY <3>2 DEF AdvanceWindow, Phases
    <3>3. CASE EndWindow \/ EndPass
      BY <3>3 DEF EndWindow, EndPass, Phases
    <3> QED
      BY <1>4, <3>1, <3>2, <3>3
  <2>3. maint' \in MaintType /\ maint'.phase = phase
    BY <2>2, PhaseType
  <2>4. visit \notin {"join", "capture", "closed"}
    BY <2>1 DEF IndInv, Joined
  <2>5. rev' \in Nat /\ ready' \in BOOLEAN /\ debt' \in 0..MaxDebts /\ used' \in UsedType
    BY <2>1 DEF IndInv, Typed, TypeOK, UsedType
  <2>6. PICK x \in WorkerState :
          /\ w' = [w EXCEPT !["maint"] = x] /\ x.pc \in {"free", "start"}
          /\ phase = "idle" => x.pc = "free"
    BY <1>0, <2>1, <2>2, FreeType
  <2> QED
    BY <2>1, <2>3, <2>4, <2>5, <2>6, MaintMove
<1> QED
  BY <1>1, <1>2, <1>3, <1>4

(* A reported change drops a wait, with its deadline.                         *)
LEMMA NotifyStep == ASSUME IndInv, Notify PROVE IndInv'
<1> DEFINE next == IF maint.phase = "salvage" THEN "start" ELSE "free"
<1>1. /\ w["maint"].pc = "notify" /\ ps' = InputChanged(ps) /\ hold' = NoHold
      /\ w' = [w EXCEPT !["maint"].pc = next]
      /\ UNCHANGED <<now, rev, ready, debt, intr, defer, maint, visit, timer, used>>
  BY DEF Notify, At, Goto, input
<1>2. /\ ps' \in PubState /\ ps'.mode = ps.mode /\ ps'.work.kind # "retry"
      /\ ps.work.kind \in {"compacting", "quiescing", "running"} => ps'.work = ps.work
      /\ ps.work = Idle => ps'.work = Idle
  BY <1>1, TypeFacts, InputChangedCases
<1> DEFINE x == [w["maint"] EXCEPT !.pc = next]
<1>3. x \in WorkerState /\ x.pc = next /\ next \in {"start", "free"}
  <2>1. w["maint"] \in WorkerState
    BY TypeFacts DEF Workers
  <2> QED
    BY <2>1 DEF WorkerState, Pcs
<1>4. w' = [w EXCEPT !["maint"] = x]
  BY <1>1, TypeFacts DEF Workers
<1> HIDE DEF x, next
<1>5. /\ w \in [Workers -> WorkerState] /\ w'["maint"] = x
      /\ \A q \in Workers : q # "maint" => w'[q] = w[q]
  BY <1>4, TypeFacts DEF Workers
<1>6. hold' \in [rev : Int, due : Int] /\ hold'.due = -1
  BY <1>1 DEF NoHold, Unknown
<1>7. Typed'
  <2>1. w' \in [Workers -> WorkerState]
    BY <1>3, <1>4, TypeFacts
  <2> QED
    BY <1>1, <1>2, <1>6, <2>1, StateType DEF IndInv, Typed, TypeOK, WorkerState
<1>8. Owned'
  BY <1>1, <1>2, <1>3, <1>5 DEF IndInv, Owned, RunPcs, VacuumPcs
<1>9. Joined'
  BY <1>1, <1>2, <1>3, <1>5 DEF IndInv, Joined, Workers
<1>10. Held'
  BY <1>1, <1>6, TypeFacts DEF Held
<1>11. RetryIsArmed'
  BY <1>2 DEF RetryIsArmed, RetrySchedule
<1> QED
  BY <1>7, <1>8, <1>9, <1>10, <1>11 DEF IndInv

-----------------------------------------------------------------------------
(* The coordinator, the clock and the timer.                                 *)

(* Nothing is armed and no deadline is kept.                                 *)
LEMMA NothingKept ==
    /\ None \in [gen : Nat, due : Int]
    /\ NoHold \in [rev : Int, due : Int] /\ NoHold.due = -1
<1>1. -1 \in Int /\ Unknown \in Int /\ 0 \in Nat
  BY DEF Unknown
<1> QED
  BY <1>1 DEF None, NoHold

(* A presence result starts a publication of the coordinator, which ends       *)
(* before the coordinator goes on.                                           *)
LEMMA PresenceStep == ASSUME IndInv, Recovered \/ PresenceResult PROVE IndInv'
<1>1. CASE Recovered
  <2>1. /\ visit = "recover" /\ visit' = "scan" /\ w["wake"].pc = "free"
        /\ UNCHANGED <<ps, now, rev, ready, debt, intr, defer, w, maint, timer, used, hold>>
    BY <1>1 DEF Recovered, At, input
  <2>2. Typed'
    BY <2>1 DEF IndInv, Typed, TypeOK
  <2>3. Owned' /\ Held' /\ RetryIsArmed'
    BY <2>1 DEF IndInv, Owned, Held, Waits, RetryIsArmed, RetrySchedule, Available, Armed
  <2>4. Joined'
    BY <2>1 DEF IndInv, Joined
  <2> QED
    BY <2>2, <2>3, <2>4 DEF IndInv
<1>2. CASE PresenceResult
  <2>1. /\ visit = "scan" /\ visit' = "wake" /\ defer' = TRUE /\ intr' \in {intr, TRUE}
        /\ w' = [w EXCEPT !["wake"] = Starting] /\ used' \in UsedType
        /\ UNCHANGED <<ps, now, rev, ready, debt, maint, timer, hold>>
    BY <1>2, UsedStep DEF PresenceResult, input
  <2>2. /\ w \in [Workers -> WorkerState] /\ w'["wake"] = Starting
        /\ \A q \in Workers : q # "wake" => w'[q] = w[q]
    BY <2>1, TypeFacts DEF Workers
  <2>3. Starting \in WorkerState /\ Starting.pc = "start"
    BY FreeType
  <2>4. Typed'
    <3>1. w' \in [Workers -> WorkerState]
      BY <2>1, <2>3, TypeFacts
    <3>2. intr' \in BOOLEAN /\ defer' \in BOOLEAN
      BY <2>1 DEF IndInv, Typed, TypeOK
    <3> QED
      BY <2>1, <3>1, <3>2 DEF IndInv, Typed, TypeOK, WorkerState, UsedType
  <2>5. Owned'
    BY <2>1, <2>2, <2>3 DEF IndInv, Owned, RunPcs, VacuumPcs
  <2>6. Joined'
    BY <2>1, <2>2, <2>3 DEF IndInv, Joined, Workers
  <2>7. Held'
    BY <2>1 DEF IndInv, Held, Waits
  <2>8. RetryIsArmed'
    BY <2>2, <2>3 DEF RetryIsArmed, Workers
  <2> QED
    BY <2>4, <2>5, <2>6, <2>7, <2>8 DEF IndInv
<1> QED
  BY <1>1, <1>2

(* Capture and shutdown begin when only the retry task can still be at work,   *)
(* and drop the wait, its timer and its deadline.                            *)
LEMMA QuiesceStep == ASSUME IndInv, EnterCapture \/ Close PROVE IndInv'
<1> DEFINE stopped == Quiescing(ps.work)
<1>1. /\ w["wake"].pc = "free" /\ maint.phase = "idle" /\ w["maint"].pc = "free"
  BY DEF EnterCapture, Close, CoordinatorFree, At, IndInv, Joined
<1>2. /\ ps \in PubState /\ w \in [Workers -> WorkerState] /\ now \in Nat
  BY TypeFacts
<1>3. stopped \in Works /\ (ps.work.kind = "running" => stopped = ps.work)
  BY <1>2, QuiescingCases
<1>4. PICK mode \in {"capture", "closed"}, gen \in Nat :
        /\ ps' = State(mode, stopped, gen, ps.tok, FALSE)
        /\ visit' = IF mode = "capture" THEN "join" ELSE "closed"
  <2>1. ps.gen \in Nat /\ ps.gen + 1 \in Nat
    BY <1>2 DEF PubState
  <2>2. CASE EnterCapture
    BY <2>1, <2>2 DEF EnterCapture, CaptureBegin
  <2>3. CASE Close
    BY <2>1, <2>3 DEF Close, Shutdown
  <2> QED
    BY <2>2, <2>3
<1>5. /\ hold' = NoHold /\ intr' = TRUE /\ timer' = None /\ used' \in UsedType
      /\ UNCHANGED <<now, rev, ready, debt, defer, w, maint>>
  BY UsedStep DEF EnterCapture, Close, input
<1> HIDE DEF stopped
<1>6. ps' \in PubState /\ ps'.mode = mode /\ ps'.work = stopped
  BY <1>2, <1>3, <1>4 DEF State, PubState, Modes
<1>7. Typed'
  <2>1. visit' \in {"join", "closed"}
    BY <1>4
  <2> QED
    BY <1>5, <1>6, <2>1, NothingKept, StateType DEF IndInv, Typed, TypeOK, UsedType
<1>8. Owned'
  BY <1>1, <1>3, <1>5, <1>6 DEF IndInv, Owned, RunPcs, VacuumPcs
<1>9. Joined'
  BY <1>1, <1>4, <1>5, <1>6 DEF Joined
<1>10. Held'
  BY <1>2, <1>5, NothingKept DEF Held
<1>11. RetryIsArmed'
  BY <1>4, <1>6 DEF RetryIsArmed, RetrySchedule, Available
<1> QED
  BY <1>7, <1>8, <1>9, <1>10, <1>11 DEF IndInv

(* Once the retry task is joined nobody is at work.                           *)
LEMMA JoinStep == ASSUME IndInv, JoinRetry PROVE IndInv'
<1>1. /\ visit = "join" /\ visit' = "capture" /\ w["retry"].pc = "free"
      /\ ps' = State(ps.mode, Idle, ps.gen, ps.tok, FALSE)
      /\ UNCHANGED <<now, rev, ready, debt, intr, defer, w, maint, timer, used, hold>>
  BY DEF JoinRetry, At, Quiesced, input
<1>2. ps' \in PubState /\ ps'.mode = ps.mode /\ ps'.work = Idle
  BY <1>1, TypeFacts DEF State, PubState, Works
<1>3. ps.mode = "capture" /\ \A p \in Workers : w[p].pc = "free"
  BY <1>1 DEF IndInv, Joined, Workers
<1>4. Typed'
  BY <1>1, <1>2, StateType DEF IndInv, Typed, TypeOK
<1>5. Owned'
  BY <1>1, <1>3 DEF Owned, RunPcs, VacuumPcs, Workers
<1>6. Joined'
  BY <1>1, <1>2, <1>3 DEF IndInv, Joined, Workers
<1>7. Held'
  BY <1>1, <1>3 DEF IndInv, Held
<1>8. RetryIsArmed'
  BY <1>2, <1>3 DEF RetryIsArmed, RetrySchedule, Available
<1> QED
  BY <1>4, <1>5, <1>6, <1>7, <1>8 DEF IndInv

(* Captured audio changes the input of an idle reducer.                       *)
LEMMA StoreStep == ASSUME IndInv, CaptureStores PROVE IndInv'
<1>1. /\ visit = "capture" /\ ps' = InputChanged(ps) /\ rev' = rev + 1
      /\ ready' \in BOOLEAN /\ used' \in UsedType
      /\ UNCHANGED <<now, debt, intr, defer, w, maint, visit, timer, hold>>
  BY UsedStep DEF CaptureStores, Change, CohortChanges
<1>2. ps.work = Idle /\ ps.mode = "capture" /\ \A p \in Workers : w[p].pc = "free"
  BY <1>1 DEF IndInv, Joined, Workers
<1>3. ps' \in PubState /\ ps'.mode = ps.mode /\ ps'.work = Idle
  BY <1>1, <1>2, TypeFacts, InputChangedCases
<1>4. Typed'
  <2>1. rev' \in Nat
    BY <1>1, TypeFacts
  <2> QED
    BY <1>1, <1>3, <2>1, StateType DEF IndInv, Typed, TypeOK, UsedType
<1>5. Owned'
  BY <1>1, <1>2 DEF Owned, RunPcs, VacuumPcs, Workers
<1>6. Joined'
  BY <1>1, <1>2, <1>3 DEF IndInv, Joined
<1>7. Held'
  BY <1>1, <1>2 DEF IndInv, Held
<1>8. RetryIsArmed'
  BY <1>2, <1>3 DEF RetryIsArmed, RetrySchedule, Available
<1> QED
  BY <1>4, <1>5, <1>6, <1>7, <1>8 DEF IndInv

(* A retry task is started unless one is at work.                             *)
LEMMA StartRetryMove ==
    ASSUME IndInv
    PROVE  /\ StartRetry \in [Workers -> WorkerState]
           /\ StartRetry["retry"].pc # "free"
           /\ w["retry"].pc = "free" => StartRetry["retry"].pc = "start"
           /\ w["retry"].pc # "free" => StartRetry = w
           /\ \A q \in Workers : q # "retry" => StartRetry[q] = w[q]
<1>1. /\ w \in [Workers -> WorkerState] /\ "retry" \in Workers
      /\ Starting \in WorkerState /\ Starting.pc = "start"
  BY TypeFacts, FreeType DEF Workers
<1> QED
  BY <1>1 DEF StartRetry

(* The end of the visit finds an idle reducer and starts the retry task.      *)
LEMMA ExitStep == ASSUME IndInv, ExitCapture PROVE IndInv'
<1>1. visit = "capture" /\ ps.work = Idle /\ ps.mode = "capture"
      /\ maint.phase = "idle" /\ \A p \in Workers : w[p].pc = "free"
  BY DEF ExitCapture, IndInv, Joined, Workers
<1>2. CaptureEnd(ps) = To(State("available", Idle, ps.gen + 1, ps.tok, TRUE), "check")
  BY <1>1 DEF CaptureEnd, Vacuuming, Idle
<1>3. /\ ps' = State("available", Idle, ps.gen + 1, ps.tok, TRUE)
      /\ w' = StartRetry /\ visit' = "scan" /\ intr' = FALSE /\ defer' = FALSE
      /\ UNCHANGED <<now, rev, ready, debt, maint, timer, used, hold>>
  BY <1>2 DEF ExitCapture, To, input
<1>4. ps' \in PubState /\ ps'.mode = "available" /\ ps'.work = Idle
  BY <1>3, TypeFacts DEF State, PubState, Works, Modes
<1>5. /\ w' \in [Workers -> WorkerState] /\ w'["retry"].pc = "start"
      /\ \A q \in Workers : q # "retry" => w'[q].pc = "free"
  BY <1>1, <1>3, StartRetryMove DEF Workers
<1>6. Typed'
  BY <1>3, <1>4, <1>5, StateType DEF IndInv, Typed, TypeOK, WorkerState
<1>7. Owned'
  BY <1>5 DEF Owned, RunPcs, VacuumPcs, Workers
<1>8. Joined'
  BY <1>1, <1>3, <1>4, <1>5 DEF Joined, Workers
<1>9. Held'
  BY <1>1, <1>3 DEF IndInv, Held
<1>10. RetryIsArmed'
  BY <1>4 DEF RetryIsArmed, RetrySchedule, Idle
<1> QED
  BY <1>6, <1>7, <1>8, <1>9, <1>10 DEF IndInv

(* The timer starts the retry task when the wait is due; fired early it is     *)
(* armed again, and fired for a past generation it is dropped.                *)
LEMMA TimerStep == ASSUME IndInv, TimerFires PROVE IndInv'
<1> DEFINE r == TimerFired(ps, timer.gen, timer.due)
<1>0. ps \in PubState /\ now \in Nat /\ timer \in [gen : Nat, due : Int]
  BY TypeFacts
<1>1. /\ ps' = r.st
      /\ w' = IF r.cmd = "check" THEN StartRetry ELSE w
      /\ timer' = IF r.cmd # "check" /\ RetrySchedule(r.st) THEN Armed(r.st) ELSE None
      /\ UNCHANGED <<now, rev, ready, debt, intr, defer, maint, visit, used, hold>>
  BY DEF TimerFires, input
<1>2. \/ r.cmd # "check" /\ r.st = ps
      \/ /\ r.cmd = "check" /\ r.st = [ps EXCEPT !.check = TRUE]
         /\ ps.work.kind = "retry" /\ Available(ps) /\ ~(now < ps.work.due)
  BY DEF TimerFired, To
<1>3. CASE r.cmd # "check" /\ r.st = ps
  <2>1. UNCHANGED <<ps, w>>
    BY <1>1, <1>3
  <2>2. timer' = IF RetrySchedule(ps) THEN Armed(ps) ELSE None
    BY <1>1, <1>3
  <2>3. timer' \in [gen : Nat, due : Int]
    <3>1. CASE RetrySchedule(ps)
      <4>1. ps.work.due \in Int /\ ps.gen \in Nat
        BY <1>0, <3>1, WorkKinds DEF RetrySchedule, RetryWork, PubState
      <4> QED
        BY <2>2, <3>1, <4>1 DEF Armed
    <3>2. CASE ~RetrySchedule(ps)
      BY <2>2, <3>2, NothingKept
    <3> QED
      BY <3>1, <3>2
  <2>4. Typed'
    BY <1>1, <2>1, <2>3 DEF IndInv, Typed, TypeOK
  <2>5. Owned' /\ Joined' /\ Held'
    BY <1>1, <2>1 DEF IndInv, Owned, Joined, Held, Waits
  <2>6. RetryIsArmed'
    BY <2>1, <2>2 DEF RetryIsArmed, RetrySchedule, Available, Armed
  <2> QED
    BY <2>4, <2>5, <2>6 DEF IndInv
<1>4. CASE /\ r.cmd = "check" /\ r.st = [ps EXCEPT !.check = TRUE]
           /\ ps.work.kind = "retry" /\ Available(ps) /\ ~(now < ps.work.due)
  <2>1. ps' = [ps EXCEPT !.check = TRUE] /\ w' = StartRetry /\ timer' = None
    BY <1>1, <1>4
  <2>2. ps' \in PubState /\ ps'.mode = ps.mode /\ ps'.work = ps.work
    BY <1>0, <2>1 DEF PubState
  <2>3. visit \notin {"join", "capture", "closed"}
    BY <1>4 DEF IndInv, Joined, Available
  <2>4. Typed'
    <3>1. w' \in [Workers -> WorkerState]
      BY <2>1, StartRetryMove
    <3> QED
      BY <1>1, <2>1, <2>2, <3>1, StateType, NothingKept DEF IndInv, Typed, TypeOK, WorkerState
  <2>5. /\ w'["retry"].pc # "free"
        /\ w["retry"].pc # "free" => w' = w
        /\ w["retry"].pc = "free" => w'["retry"].pc = "start"
        /\ \A q \in Workers : q # "retry" => w'[q] = w[q]
    BY <2>1, StartRetryMove
  <2>6. Owned'
    <3>1. CASE w' = w
      BY <2>2, <3>1 DEF IndInv, Owned
    <3>2. CASE w'["retry"].pc = "start"
      BY <2>2, <2>5, <3>2 DEF IndInv, Owned, RunPcs, VacuumPcs, Workers
    <3> QED
      BY <2>5, <3>1, <3>2
  <2>7. Joined'
    BY <1>1, <2>2, <2>3, <2>5 DEF IndInv, Joined, Workers
  <2>8. Held'
    <3>1. ~(now < hold.due)
      BY <1>4 DEF IndInv, Held, Waits
    <3> QED
      BY <1>1, <3>1 DEF Held
  <2>9. RetryIsArmed'
    <3>1. w'["retry"].pc # "notify"
      BY <2>5 DEF IndInv, Owned, Workers
    <3> QED
      BY <2>5, <3>1 DEF RetryIsArmed, Workers
  <2> QED
    BY <2>4, <2>6, <2>7, <2>8, <2>9 DEF IndInv
<1> QED
  BY <1>2, <1>3, <1>4

(* The clock and a consumer's checkpoint leave the workers alone.             *)
LEMMA ClockStep == ASSUME IndInv, Tick \/ Acknowledge \/ UNCHANGED vars PROVE IndInv'
<1>1. CASE Tick
  <2>1. /\ now' = now + 1 /\ hold' = (IF now' < hold.due THEN hold ELSE NoHold)
        /\ UNCHANGED <<ps, rev, ready, debt, intr, defer, w, maint, visit, timer, used>>
    BY <1>1 DEF Tick, input
  <2>2. now \in Nat /\ now' \in Nat /\ hold \in [rev : Int, due : Int]
        /\ hold' \in [rev : Int, due : Int]
    BY <2>1, TypeFacts, NothingKept
  <2>3. Typed'
    BY <2>1, <2>2 DEF IndInv, Typed, TypeOK
  <2>4. Owned' /\ Joined' /\ RetryIsArmed'
    BY <2>1 DEF IndInv, Owned, Joined, RetryIsArmed, RetrySchedule, Available, Armed
  <2>5. Held'
    <3>1. CASE now' < hold.due
      <4>1. now < hold.due /\ hold' = hold
        BY <2>1, <2>2, <3>1
      <4> QED
        BY <2>1, <4>1 DEF IndInv, Held, Waits
    <3>2. CASE ~(now' < hold.due)
      <4>1. hold'.due = -1
        BY <2>1, <3>2, NothingKept
      <4> QED
        BY <2>2, <4>1 DEF Held
    <3> QED
      BY <3>1, <3>2
  <2> QED
    BY <2>3, <2>4, <2>5 DEF IndInv
<1>2. CASE Acknowledge
  <2>1. /\ rev' = rev + 1 /\ used' \in UsedType
        /\ UNCHANGED <<ps, now, ready, debt, intr, defer, w, maint, visit, timer, hold>>
    BY <1>2, UsedStep DEF Acknowledge, Change
  <2>2. Typed'
    <3>1. rev' \in Nat
      BY <2>1, TypeFacts
    <3> QED
      BY <2>1, <3>1 DEF IndInv, Typed, TypeOK, UsedType
  <2>3. Owned' /\ Joined' /\ Held' /\ RetryIsArmed'
    BY <2>1 DEF IndInv, Owned, Joined, Held, Waits, RetryIsArmed, RetrySchedule, Available, Armed
  <2> QED
    BY <2>2, <2>3 DEF IndInv
<1>3. CASE UNCHANGED vars
  BY <1>3 DEF vars, IndInv, Typed, TypeOK, Owned, Joined, Held, Waits, RetryIsArmed,
              RetrySchedule, Available, Armed
<1> QED
  BY <1>1, <1>2, <1>3

-----------------------------------------------------------------------------
(* The theorems.                                                             *)

LEMMA InitInd == Init => IndInv
<1> SUFFICES ASSUME Init PROVE IndInv
  OBVIOUS
<1>1. /\ ps = State("available", Idle, 0, 0, FALSE) /\ now = 0 /\ rev = 0
      /\ ready \in BOOLEAN /\ debt = 0 /\ intr = FALSE /\ defer = FALSE
      /\ maint = M("idle", FALSE) /\ visit = "recover" /\ timer = None /\ hold = NoHold
      /\ w = [p \in Workers |-> IF p = "wake" THEN Starting ELSE Free]
      /\ used = [changes |-> 0, failures |-> 0, visits |-> 0, debts |-> 0]
  BY DEF Init
<1>2. ps \in PubState /\ ps.mode = "available" /\ ps.work = Idle /\ ps.work.kind = "idle"
  BY <1>1 DEF State, PubState, Modes, Works, Idle
<1>3. /\ w \in [Workers -> WorkerState] /\ w["wake"].pc = "start"
      /\ \A p \in Workers : p # "wake" => w[p].pc = "free"
  BY <1>1, FreeType DEF Workers
<1>4. maint \in MaintType /\ maint.phase = "idle"
  BY <1>1, PhaseType DEF Phases
<1>5. used \in UsedType /\ debt \in 0..MaxDebts
  BY <1>1, BoundsAssumption DEF UsedType
<1>6. Typed
  BY <1>1, <1>2, <1>3, <1>4, <1>5, NothingKept, StateType
     DEF Typed, TypeOK, WorkerState, MaintType, Phases, UsedType
<1>7. Owned /\ Joined
  BY <1>1, <1>2, <1>3, <1>4 DEF Owned, Joined, RunPcs, VacuumPcs, Workers
<1>8. Held
  BY <1>1, NothingKept DEF Held
<1>9. RetryIsArmed
  BY <1>2 DEF RetryIsArmed, RetrySchedule
<1> QED
  BY <1>6, <1>7, <1>8, <1>9 DEF IndInv

(* Every step of the system keeps the invariant.                              *)
LEMMA NextInd == IndInv /\ [Next]_vars => IndInv'
<1> SUFFICES ASSUME IndInv, [Next]_vars PROVE IndInv'
  OBVIOUS
<1>1. CASE \E p \in Workers : Worker(p)
  BY <1>1, StartStep, ProbeStep, WakeStep, EffectStep, FinishStep, ReturnStep DEF Worker
<1>2. CASE Vacuum
  BY <1>2, VacuumProbeStep, VacuumDueStep, VacuumRunStep, VacuumFinishStep DEF Vacuum
<1>3. CASE Maintenance
  BY <1>3, MaintenanceStep, NotifyStep DEF Maintenance
<1>4. CASE Coordinator
  BY <1>4, PresenceStep, QuiesceStep, JoinStep, StoreStep, ExitStep DEF Coordinator
<1>5. CASE TimerFires \/ Tick \/ Acknowledge \/ UNCHANGED vars
  BY <1>5, TimerStep, ClockStep
<1> QED
  BY <1>1, <1>2, <1>3, <1>4, <1>5 DEF Next

(* Whatever the workers, the timer and the coordinator do, and in whatever     *)
(* order they take the publication lock, a worker past its admission owns the *)
(* work of the reducer (publication_transition).                             *)
THEOREM Inductive == Spec => []IndInv
  BY InitInd, NextInd, PTL DEF Spec

(* Every event of the reducer keeps its state, the workers' and the           *)
(* coordinator's well formed.                                                *)
THEOREM TypeCorrect == Spec => []TypeOK
<1>1. IndInv => TypeOK
  BY DEF IndInv, Typed
<1> QED
  BY <1>1, Inductive, PTL

(* Of the retry task, the maintenance task and the coordinator at most one     *)
(* publishes or vacuums (admit_effect and the admission of the vacuum).       *)
THEOREM OneOwner == Spec => []OneStorageOwner
<1>1. ASSUME IndInv PROVE OneStorageOwner
  <2>1. \A p, q \in InEffect : p = q
    BY <1>1 DEF IndInv, Owned, InEffect, RunPcs, VacuumPcs
  <2>2. CASE InEffect = {}
    BY <2>2, FS_EmptySet DEF OneStorageOwner
  <2>3. CASE InEffect # {}
    <3>1. PICK p \in InEffect : TRUE
      BY <2>3
    <3>2. InEffect = {p}
      BY <2>1, <3>1
    <3> QED
      BY <3>2, FS_Singleton DEF OneStorageOwner
  <2> QED
    BY <2>2, <2>3
<1> QED
  BY <1>1, Inductive, PTL

(* enter_capture returns only when nobody publishes or vacuums and the reducer *)
(* holds no work, and it stays so until the visit is over.                    *)
THEOREM CaptureAlone == Spec => []CaptureOwnsStorage
<1>1. ASSUME IndInv PROVE CaptureOwnsStorage
  BY <1>1 DEF IndInv, Joined, CaptureOwnsStorage, InEffect, Workers
<1> QED
  BY <1>1, Inductive, PTL

(* A wait of the reducer always has its timer, or a worker that will arm it    *)
(* (arm_retry, the timer's callback and the return of every publication).    *)
THEOREM RetryNotForgotten == Spec => []RetryIsArmed
<1>1. IndInv => RetryIsArmed
  BY DEF IndInv
<1> QED
  BY <1>1, Inductive, PTL

(* No worker starts the effect for a revision whose last publication failed    *)
(* before its deadline: the wake that admits it, and a compaction in between, *)
(* keep the deadline (publication_transition).                               *)
THEOREM DeadlineHonoured == Spec => RetriesHonourDeadline
<1> DEFINE Honours ==
      \A p \in Workers :
          (w[p].pc = "run" /\ w'[p].pc = "effect" /\ w[p].rev = hold.rev)
             => now >= hold.due
<1>1. ASSUME IndInv PROVE Honours
  <2> SUFFICES ASSUME NEW p \in Workers, w[p].pc = "run", w[p].rev = hold.rev
               PROVE  now >= hold.due
    OBVIOUS
  <2>1. ps.work.kind = "running" /\ ps.work.rev = hold.rev
    BY <1>1 DEF IndInv, Owned, RunPcs
  <2>2. ~(now < hold.due)
    BY <1>1, <2>1 DEF IndInv, Held, Waits
  <2>3. now \in Nat /\ hold.due \in Int
    BY <1>1, TypeFacts
  <2> QED
    BY <2>2, <2>3
<1>2. IndInv => [Honours]_vars
  BY <1>1
<1> QED
  BY <1>2, Inductive, PTL DEF RetriesHonourDeadline
=============================================================================
