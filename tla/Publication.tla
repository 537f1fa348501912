----------------------------- MODULE Publication -----------------------------
(* The local publication of sealed audio, its retries and the compaction of  *)
(* the database, while capture takes priority over both.                     *)
(*                                                                           *)
(* A pure reducer owns the state `ps` (publication_transition): every step   *)
(* below that changes it applies one of its events under the publication     *)
(* lock.  Three workers drive it from threads of their own: the retry task,  *)
(* the maintenance task, and the coordinator (`wake`), which publishes once  *)
(* at startup and once after each presence result.                           *)
EXTENDS Integers, FiniteSets

CONSTANTS
    MaxDelay,     \* the last entry of the backoff table
    MaxChanges,   \* bound: changes of the publication input
    MaxFailures,  \* bound: failing probes, effects and vacuums
    MaxVisits,    \* bound: presence results
    MaxDebts,     \* bound: retirements that leave space to compact
    MaxEvents     \* bound: how many of all these together

ASSUME BoundsAssumption ==
    /\ MaxDelay \in Nat \ {0}
    /\ {MaxChanges, MaxFailures, MaxVisits, MaxDebts, MaxEvents} \subseteq Nat

VARIABLES
    ps,      \* the reducer's state
    now,     \* the monotonic clock
    rev,     \* what _publication_revision reads
    ready,   \* a cohort of the stored audio can be published as it is
    debt,    \* the pending compaction generation, 0 when none is
    intr,    \* _compaction_interrupt
    defer,   \* defer_requested of wait_for_presence_attempt
    w,       \* what each worker is doing
    maint,   \* the maintenance task: its phase, and whether its hourly window is open
    visit,   \* where the coordinator is
    timer,   \* the armed retry timer: [gen, due], or None
    used,    \* how much of each bound is used
    hold     \* history: the last publication retry that was scheduled

vars == <<ps, now, rev, ready, debt, intr, defer, w, maint, visit,
          timer, used, hold>>
input == <<rev, ready>>

Unknown == -1
None == [gen |-> 0, due |-> -1]
NoHold == [rev |-> Unknown, due |-> -1]
Workers == {"retry", "maint", "wake"}

-----------------------------------------------------------------------------
(* The reducer: works, commands and one operator per event.                  *)

Idle == [kind |-> "idle"]
Running(token, revision, generation, failures) ==
    [kind |-> "running", token |-> token, rev |-> revision,
     gen |-> generation, fails |-> failures]
Settled(revision, by) == [kind |-> "settled", rev |-> revision, by |-> by]
RetryWait(revision, deadline, failures) ==
    [kind |-> "retry", rev |-> revision, due |-> deadline, fails |-> failures]
Compacting(kind, token, revision, generation, owed, retry) ==
    [kind |-> kind, token |-> token, rev |-> revision, gen |-> generation,
     debt |-> owed, retry |-> retry]

State(mode, work, generation, token, check) ==
    [mode |-> mode, work |-> work, gen |-> generation, tok |-> token, check |-> check]
To(st, command) == [st |-> st, cmd |-> command]

Vacuuming(s) == s.work.kind \in {"compacting", "quiescing"}
Available(s) == s.mode = "available"

Delay(failures) == IF failures < MaxDelay THEN failures + 1 ELSE MaxDelay

WakeUnprobed(s) ==
    IF ~Available(s) \/ Vacuuming(s) THEN To(s, "none")
    ELSE IF s.work.kind = "retry" /\ now < s.work.due THEN To(s, "arm")
    ELSE To(s, "check")

MutantAdmitsTwice(s, revision) ==
    IF ~Available(s) \/ Vacuuming(s) THEN To(s, "none")
    ELSE IF s.work.kind = "settled" /\ s.work.rev = revision THEN To(s, "none")
    ELSE To(State(s.mode, Running(s.tok + 1, revision, s.gen, 0), s.gen, s.tok + 1, FALSE), "run")

MutantEarlyRetry(s, revision) ==
    IF ~Available(s) \/ Vacuuming(s) \/ s.work.kind = "running" THEN To(s, "none")
    ELSE IF s.work.kind = "settled" /\ s.work.rev = revision THEN To(s, "none")
    ELSE To(State(s.mode, Running(s.tok + 1, revision, s.gen, 0), s.gen, s.tok + 1, FALSE), "run")

WakeProbed(s, revision) ==
    LET work == s.work
        same == work.kind \in {"running", "settled", "retry"} /\ work.rev = revision
    IN  IF ~Available(s) \/ Vacuuming(s) THEN To(s, "none")
        ELSE CASE work.kind = "running" ->
                    IF ~same /\ work.gen = s.gen
                    THEN To(State(s.mode, work, s.gen + 1, s.tok, TRUE), "none")
                    ELSE To(s, "none")
               [] work.kind = "settled" /\ same -> To([s EXCEPT !.check = FALSE], "none")
               [] work.kind = "retry" /\ same /\ now < work.due -> To(s, "arm")
               [] OTHER ->
                    LET failures == IF work.kind = "retry" /\ same THEN work.fails ELSE 0
                    IN  To(State(s.mode, Running(s.tok + 1, revision, s.gen, failures),
                                 s.gen, s.tok + 1, FALSE), "run")

MutantSettlesTransient(s, token, revision, result, reprobe) ==
    IF s.work.kind = "running" /\ s.work.token = token
    THEN To(State(s.mode, Settled(revision, "publication"), s.gen, s.tok, FALSE), "none")
    ELSE To(s, "none")

Finished(s, token, revision, result, reprobe) ==
    LET work == s.work
    IN  CASE work.kind # "running" -> To(s, "none")
          [] work.kind = "running" /\ work.token # token -> To(s, "none")
          [] work.kind = "running" /\ work.token = token /\ ~Available(s) ->
                To(State(s.mode, Idle, s.gen, s.tok, FALSE), "none")
          [] OTHER ->
                IF \/ work.gen # s.gen
                   \/ reprobe
                   \/ result # "transient" /\ revision # work.rev
                THEN To(State(s.mode, Idle, s.gen, s.tok, TRUE), "check")
                ELSE IF result = "transient"
                THEN To(State(s.mode,
                              RetryWait(revision, now + Delay(work.fails), work.fails + 1),
                              s.gen, s.tok, FALSE), "arm")
                ELSE To(State(s.mode, Settled(revision, "publication"),
                              s.gen, s.tok, FALSE), "none")

CompactionDue(s, revision, owed) ==
    IF ~Available(s) \/ s.work.kind \notin {"idle", "settled", "retry"}
    THEN To(s, "none")
    ELSE LET retry == IF s.work.kind = "retry" THEN s.work ELSE Idle
         IN  To(State(s.mode, Compacting("compacting", s.tok + 1, revision, s.gen, owed, retry),
                      s.gen, s.tok + 1, s.check), "compact")

\* _run_compaction reports every vacuum as settled, on the revision and the
\* debt of the work it was admitted with.
CompactionFinished(s, token) ==
    LET work == s.work
    IN  IF \/ ~Vacuuming(s)
           \/ work.token # token
           \/ work.kind = "quiescing"
           \/ ~Available(s)
        THEN To(s, "none")
        ELSE IF work.retry # Idle /\ ~s.check
        THEN To(State(s.mode, work.retry, s.gen, s.tok, FALSE), "arm")
        ELSE LET again == work.gen # s.gen \/ s.check
             IN  To(State(s.mode, Settled(work.rev, "compaction"), s.gen, s.tok, again),
                    IF again THEN "check" ELSE "none")

TimerFired(s, generation, deadline) ==
    IF \/ s.work.kind # "retry"
       \/ ~Available(s)
       \/ generation # s.gen
       \/ deadline # s.work.due
    THEN To(s, "none")
    ELSE IF now < s.work.due THEN To(s, "arm")
    ELSE To([s EXCEPT !.check = TRUE], "check")

InputChanged(s) ==
    LET work == IF s.work.kind \in {"compacting", "quiescing", "running"} THEN s.work ELSE Idle
    IN  State(s.mode, work, s.gen + 1, s.tok, TRUE)

Quiescing(work) ==
    IF work.kind = "compacting"
    THEN Compacting("quiescing", work.token, work.rev, work.gen, work.debt, Idle)
    ELSE work

CaptureBegin(s) == State("capture", Quiescing(s.work), s.gen + 1, s.tok, FALSE)
Quiesced(s) == State(s.mode, Idle, s.gen, s.tok, FALSE)
CaptureEnd(s) ==
    IF Vacuuming(s) \/ s.mode # "capture"
    THEN To(s, "none")
    ELSE To(State("available", Idle, s.gen + 1, s.tok, TRUE), "check")
Shutdown(s) ==
    State("closed", Quiescing(s.work), IF s.mode = "closed" THEN s.gen ELSE s.gen + 1,
          s.tok, FALSE)

-----------------------------------------------------------------------------
(* The workers.                                                              *)

Free == [pc |-> "free", tok |-> 0, rev |-> Unknown, result |-> "settled", again |-> FALSE]
Starting == [Free EXCEPT !.pc = "start"]

At(p, pc) == w[p].pc = pc
Goto(p, pc) == w' = [w EXCEPT ![p].pc = pc]
\* What a worker has read or been given is forgotten with the command.
Forget(p, pc) == w' = [w EXCEPT ![p] = [Free EXCEPT !.pc = pc]]

\* Where execute_publication_command goes with the command of an event.
After(cmd) == IF cmd = "check" THEN "check" ELSE "return"

Events == used.changes + used.failures + used.visits + used.debts
Fail == /\ used.failures < MaxFailures /\ Events < MaxEvents
        /\ used' = [used EXCEPT !.failures = @ + 1]
Change == /\ used.changes < MaxChanges /\ Events < MaxEvents
          /\ used' = [used EXCEPT !.changes = @ + 1]
          /\ rev' = rev + 1
\* New audio, or a repair of the old, may change what can be published.
CohortChanges == ready' \in BOOLEAN

RetrySchedule(s) == Available(s) /\ s.work.kind = "retry"
FollowupDue(s) == Available(s) /\ s.check
Armed(s) == [gen |-> s.gen, due |-> s.work.due]

Start(p) ==
    /\ At(p, "start")
    /\ Forget(p, After(WakeUnprobed(ps).cmd))
    /\ UNCHANGED <<ps, now, input, debt, intr, defer, maint, visit, timer, used, hold>>

Probe(p) ==
    /\ At(p, "check")
    /\ \/ w' = [w EXCEPT ![p].pc = "wake", ![p].rev = rev] /\ UNCHANGED used
       \/ w' = [w EXCEPT ![p].pc = "wake", ![p].rev = Unknown] /\ Fail
    /\ UNCHANGED <<ps, now, input, debt, intr, defer, maint, visit, timer, hold>>

\* After a failing probe an admitted run is finished without its effect.
Wake(p) ==
    LET r == WakeProbed(ps, w[p].rev)
    IN  /\ At(p, "wake")
        /\ ps' = r.st
        /\ IF r.cmd # "run" THEN Forget(p, "return")
           ELSE IF w[p].rev # Unknown
           THEN w' = [w EXCEPT ![p].pc = "run", ![p].tok = r.st.tok]
           ELSE w' = [w EXCEPT ![p] = [@ EXCEPT !.pc = "finish", !.tok = r.st.tok,
                                                !.result = "transient", !.again = FALSE]]
        /\ UNCHANGED <<now, input, debt, intr, defer, maint, visit, timer, used, hold>>

Result(p, revision, result, again) ==
    w' = [w EXCEPT ![p] = [@ EXCEPT !.pc = "finish", !.rev = revision,
                                    !.result = result, !.again = again]]

Admitted(p, kind) ==
    Available(ps) /\ ps.work.kind = kind /\ ps.work.token = w[p].tok

AdmitEffect(p) ==
    /\ At(p, "run")
    /\ IF Admitted(p, "running") THEN Goto(p, "effect")
       ELSE Result(p, Unknown, "settled", TRUE)
    /\ UNCHANGED <<ps, now, input, debt, intr, defer, maint, visit, timer, used, hold>>

\* The effect commits the cohort; reading the revision afterwards may fail.
EffectPublishes(p) ==
    /\ At(p, "effect")
    /\ ready
    /\ ready' = FALSE
    /\ rev' = rev + 1
    /\ \/ Result(p, rev', "settled", FALSE) /\ UNCHANGED used
       \/ Result(p, Unknown, "settled", TRUE) /\ Fail
    /\ UNCHANGED <<ps, now, debt, intr, defer, maint, visit, timer, hold>>

\* Nothing to publish, or an input that cannot be published as it is.
EffectSettles(p) ==
    /\ At(p, "effect")
    /\ ~ready
    /\ \/ Result(p, rev, "settled", FALSE) /\ UNCHANGED used
       \/ Result(p, Unknown, "transient", TRUE) /\ Fail
    /\ UNCHANGED <<ps, now, input, debt, intr, defer, maint, visit, timer, hold>>

\* A busy lock, an I/O error or a lack of space, before anything was committed.
EffectFails(p) ==
    /\ At(p, "effect")
    /\ Fail
    /\ \E r \in {rev, w[p].rev} : Result(p, r, "transient", FALSE)
    /\ UNCHANGED <<ps, now, input, debt, intr, defer, maint, visit, timer, hold>>

Finish(p) ==
    LET r == Finished(ps, w[p].tok, w[p].rev, w[p].result, w[p].again)
    IN  /\ At(p, "finish")
        /\ ps' = r.st
        /\ Forget(p, After(r.cmd))
        /\ hold' = IF r.cmd = "arm" THEN [rev |-> r.st.work.rev, due |-> r.st.work.due]
                   ELSE NoHold
        /\ UNCHANGED <<now, input, debt, intr, defer, maint, visit, timer, used>>

\* The end of _recover_and_publish, and what its caller does next: the retry
\* task's done callback and the loop of run_once follow up a pending check, the
\* loop only until its window is over.
FollowsUp(p) ==
    /\ FollowupDue(ps)
    /\ \/ p = "retry"
       \/ p = "maint" /\ maint.phase = "publish" /\ ~defer /\ ~intr

MutantVacuumArmsNothing(p) ==
    /\ At(p, "return")
    /\ timer' = IF RetrySchedule(ps) /\ (p = "maint" => maint.phase = "publish")
                THEN Armed(ps) ELSE timer
    /\ w' = [w EXCEPT ![p] = IF FollowsUp(p) THEN Starting ELSE Free]
    /\ UNCHANGED <<ps, now, input, debt, intr, defer, maint, visit, used, hold>>

Return(p) ==
    /\ At(p, "return")
    /\ timer' = IF RetrySchedule(ps) THEN Armed(ps) ELSE timer
    /\ \/ FollowsUp(p) /\ w' = [w EXCEPT ![p] = Starting]
       \/ /\ ~FollowsUp(p) \/ (p = "maint" /\ maint.window)
          /\ w' = [w EXCEPT ![p] = Free]
    /\ UNCHANGED <<ps, now, input, debt, intr, defer, maint, visit, used, hold>>

StartRetry == IF w["retry"].pc = "free" THEN [w EXCEPT !["retry"] = Starting] ELSE w

-----------------------------------------------------------------------------
(* Compaction, run by the maintenance worker in its last window phase.       *)

M(phase, window) == [phase |-> phase, window |-> window]
Deferred == defer \/ intr

VacuumProbe ==
    /\ maint.phase = "vacuum"
    /\ At("maint", "free")
    /\ debt # 0
    /\ ~Deferred
    /\ w' = [w EXCEPT !["maint"] = [Free EXCEPT !.pc = "due", !.rev = rev]]
    /\ UNCHANGED <<ps, now, input, debt, intr, defer, maint, visit, timer, used, hold>>

VacuumDue ==
    LET r == CompactionDue(ps, w["maint"].rev, debt)
    IN  /\ At("maint", "due")
        /\ ps' = r.st
        /\ w' = IF r.cmd = "compact"
                THEN [w EXCEPT !["maint"].pc = "compact", !["maint"].tok = r.st.tok]
                ELSE [w EXCEPT !["maint"] = [Free EXCEPT !.pc = "return"]]
        /\ maint' = IF r.cmd = "compact" THEN maint ELSE M("salvage", FALSE)
        /\ UNCHANGED <<now, input, debt, intr, defer, visit, timer, used, hold>>

VacuumAdmit ==
    /\ At("maint", "compact")
    /\ IF Admitted("maint", "compacting")
       THEN Goto("maint", "vacuum") /\ UNCHANGED maint
       ELSE Forget("maint", "return") /\ maint' = M("salvage", FALSE)
    /\ UNCHANGED <<ps, now, input, debt, intr, defer, visit, timer, used, hold>>

\* done, interrupted, deferred or parked; only the first clears the debt.
VacuumRun ==
    /\ At("maint", "vacuum")
    /\ Goto("maint", "vacuumed")
    /\ \/ debt' = 0 /\ UNCHANGED used
       \/ Deferred /\ UNCHANGED <<debt, used>>
       \/ Fail /\ UNCHANGED debt
    /\ UNCHANGED <<ps, now, input, intr, defer, maint, visit, timer, hold>>

VacuumFinish ==
    LET r == CompactionFinished(ps, w["maint"].tok)
    IN  /\ At("maint", "vacuumed")
        /\ ps' = r.st
        /\ Forget("maint", After(r.cmd))
        /\ maint' = M("salvage", FALSE)
        /\ UNCHANGED <<now, input, debt, intr, defer, visit, timer, used, hold>>

-----------------------------------------------------------------------------
(* The maintenance task: run_once and its hourly cleanup window.             *)

Between(phases) == maint.phase \in phases /\ At("maint", "free")

\* A pass starts with its window, when the hour is over, or without.
RunOnce ==
    /\ visit = "scan"
    /\ maint.phase = "idle"
    /\ ~defer
    /\ \/ maint' = M("ack", TRUE) /\ UNCHANGED w
       \/ maint' = M("publish", FALSE) /\ w' = [w EXCEPT !["maint"] = Starting]
    /\ UNCHANGED <<ps, now, input, debt, intr, defer, visit, timer, used, hold>>

\* A cleanup effect commits its transaction, and only then reports the change.
Commits(phase) ==
    /\ Between({phase})
    /\ ~Deferred
    /\ Change
    /\ Goto("maint", "notify")
    /\ UNCHANGED <<ps, now, debt, intr, defer, maint, visit, timer, hold>>

RetireAcknowledged == Commits("ack") /\ UNCHANGED ready
SweepTerminalQuarantine == Commits("expiry") /\ UNCHANGED ready
AdmitQuarantinedPrefix == Commits("salvage") /\ CohortChanges

\* The change is reported; a prefix that was admitted is published next.
Notify ==
    /\ At("maint", "notify")
    /\ ps' = InputChanged(ps)
    /\ hold' = NoHold
    /\ Goto("maint", IF maint.phase = "salvage" THEN "start" ELSE "free")
    /\ UNCHANGED <<now, input, debt, intr, defer, maint, visit, timer, used>>

\* Acknowledged, covered or expired rows are deleted: space to compact.  The
\* deletion alone is not a change of the publication input.
Delete ==
    /\ Between({"ack", "raw", "expiry"})
    /\ ~Deferred
    /\ used.debts < MaxDebts /\ Events < MaxEvents
    /\ debt' = used.debts + 1
    /\ used' = [used EXCEPT !.debts = @ + 1]
    /\ UNCHANGED <<ps, now, input, intr, defer, w, maint, visit, timer, hold>>

\* From here the window may end at every boundary: its ten minutes are over, a
\* phase failed, or capture is wanted.
BeginPublication ==
    /\ Between({"ack"})
    /\ ~defer
    /\ \E open \in BOOLEAN : (open => ~intr) /\ maint' = M("publish", open)
    /\ w' = [w EXCEPT !["maint"] = Starting]
    /\ UNCHANGED <<ps, now, input, debt, intr, defer, visit, timer, used, hold>>

AdvanceWindow ==
    /\ Between({"publish", "raw", "expiry"})
    /\ maint.window
    /\ ~Deferred
    /\ maint' = M(CASE maint.phase = "publish" -> "raw"
                    [] maint.phase = "raw" -> "expiry"
                    [] OTHER -> "vacuum", TRUE)
    /\ UNCHANGED <<ps, now, input, debt, intr, defer, w, visit, timer, used, hold>>

EndWindow ==
    /\ Between({"publish", "raw", "expiry", "vacuum"})
    /\ ~defer
    /\ maint' = M("salvage", FALSE)
    /\ UNCHANGED <<ps, now, input, debt, intr, defer, w, visit, timer, used, hold>>

EndPass ==
    /\ Between({"ack", "publish", "raw", "expiry", "vacuum", "salvage"})
    /\ defer \/ maint.phase = "salvage"
    /\ maint' = M("idle", FALSE)
    /\ UNCHANGED <<ps, now, input, debt, intr, defer, w, visit, timer, used, hold>>

-----------------------------------------------------------------------------
(* The coordinator: startup, presence results and the capture visit.         *)

Visit == /\ used.visits < MaxVisits /\ Events < MaxEvents
         /\ used' = [used EXCEPT !.visits = @ + 1]

CoordinatorFree == At("wake", "free") /\ maint.phase = "idle"

Recovered ==
    /\ visit = "recover"
    /\ At("wake", "free")
    /\ visit' = "scan"
    /\ UNCHANGED <<ps, now, input, debt, intr, defer, w, maint, timer, used, hold>>

\* An advertisement interrupts a vacuum at once; the end of a visit does not.
PresenceResult ==
    /\ visit = "scan"
    /\ Visit
    /\ visit' = "wake"
    /\ defer' = TRUE
    /\ intr' \in {intr, TRUE}
    /\ w' = [w EXCEPT !["wake"] = Starting]
    /\ UNCHANGED <<ps, now, input, debt, maint, timer, hold>>

\* An attempt or the closing of a visit, also of one that a restart interrupted.
\* The maintenance task is joined before wait_for_presence_attempt returns.
EnterCapture ==
    /\ CoordinatorFree
    /\ \/ visit = "wake" /\ UNCHANGED used
       \/ visit = "recover" /\ Visit
    /\ ps' = CaptureBegin(ps)
    /\ hold' = NoHold
    /\ intr' = TRUE
    /\ timer' = None
    /\ visit' = "join"
    /\ UNCHANGED <<now, input, debt, defer, w, maint>>

MutantDoesNotJoin ==
    /\ visit = "join"
    /\ ps' = Quiesced(ps)
    /\ visit' = "capture"
    /\ UNCHANGED <<now, input, debt, intr, defer, w, maint, timer, used, hold>>

MutantJoinsReducer ==
    /\ visit = "join"
    /\ At("retry", "free")
    /\ ps.work = Idle
    /\ ps' = Quiesced(ps)
    /\ visit' = "capture"
    /\ UNCHANGED <<now, input, debt, intr, defer, w, maint, timer, used, hold>>

JoinRetry ==
    /\ visit = "join"
    /\ At("retry", "free")
    /\ ps' = Quiesced(ps)
    /\ visit' = "capture"
    /\ UNCHANGED <<now, input, debt, intr, defer, w, maint, timer, used, hold>>

CaptureStores ==
    /\ visit = "capture"
    /\ Change
    /\ CohortChanges
    /\ ps' = InputChanged(ps)
    /\ UNCHANGED <<now, debt, intr, defer, w, maint, visit, timer, hold>>

ExitCapture ==
    LET r == CaptureEnd(ps)
    IN  /\ visit = "capture"
        /\ ps' = r.st
        /\ intr' = FALSE
        /\ defer' = FALSE
        /\ w' = IF r.cmd = "check" THEN StartRetry ELSE w
        /\ visit' = "scan"
        /\ UNCHANGED <<now, input, debt, maint, timer, used, hold>>

Close ==
    /\ visit = "scan"
    /\ CoordinatorFree
    /\ ps' = Shutdown(ps)
    /\ hold' = NoHold
    /\ intr' = TRUE
    /\ timer' = None
    /\ visit' = "closed"
    /\ UNCHANGED <<now, input, debt, defer, w, maint, used>>

-----------------------------------------------------------------------------
(* The clock, the timer and the consumer of the published audio.             *)

\* The event loop may run a timer one clock resolution early.
TimerFires ==
    LET r == TimerFired(ps, timer.gen, timer.due)
    IN  /\ timer # None
        /\ timer.due <= now + 1
        /\ ps' = r.st
        /\ w' = IF r.cmd = "check" THEN StartRetry ELSE w
        /\ timer' = IF r.cmd # "check" /\ RetrySchedule(r.st) THEN Armed(r.st) ELSE None
        /\ UNCHANGED <<now, input, debt, intr, defer, maint, visit, used, hold>>

\* Time matters, and passes, while a retry is not due.
Tick ==
    /\ \/ ps.work.kind = "retry" /\ now < ps.work.due
       \/ ps.work.kind = "compacting" /\ ps.work.retry # Idle /\ now < ps.work.retry.due
    /\ now' = now + 1
    /\ hold' = IF now' < hold.due THEN hold ELSE NoHold
    /\ UNCHANGED <<ps, input, debt, intr, defer, w, maint, visit, timer, used>>

\* A consumer writes its checkpoint file, which is part of the revision.
Acknowledge ==
    /\ visit # "closed"
    /\ Change
    /\ UNCHANGED <<ps, now, ready, debt, intr, defer, w, maint, visit, timer, hold>>

-----------------------------------------------------------------------------
Init ==
    /\ ps = State("available", Idle, 0, 0, FALSE)
    /\ now = 0
    /\ rev = 0
    /\ ready \in BOOLEAN
    /\ debt = 0
    /\ intr = FALSE /\ defer = FALSE
    /\ w = [p \in Workers |-> IF p = "wake" THEN Starting ELSE Free]
    /\ maint = M("idle", FALSE)
    /\ visit = "recover"
    /\ timer = None
    /\ used = [changes |-> 0, failures |-> 0, visits |-> 0, debts |-> 0]
    /\ hold = NoHold

Worker(p) ==
    \/ Start(p) \/ Probe(p) \/ Wake(p) \/ AdmitEffect(p)
    \/ EffectPublishes(p) \/ EffectSettles(p) \/ EffectFails(p)
    \/ Finish(p) \/ Return(p)

Vacuum == VacuumProbe \/ VacuumDue \/ VacuumAdmit \/ VacuumRun \/ VacuumFinish

Maintenance ==
    \/ RunOnce \/ RetireAcknowledged \/ SweepTerminalQuarantine
    \/ AdmitQuarantinedPrefix \/ Notify \/ Delete
    \/ BeginPublication \/ AdvanceWindow \/ EndWindow \/ EndPass

Coordinator ==
    \/ Recovered \/ PresenceResult \/ EnterCapture \/ JoinRetry
    \/ CaptureStores \/ ExitCapture \/ Close

Next ==
    \/ \E p \in Workers : Worker(p)
    \/ Vacuum
    \/ Maintenance
    \/ Coordinator
    \/ TimerFires
    \/ Tick
    \/ Acknowledge

Spec == Init /\ [][Next]_vars

\* Threads run, the loop runs its timers, time passes, a maintenance pass goes
\* through its phases and starts again, a joined task ends and a visit ends.
\* A presence result, a shutdown and every change of the input may never come.
Fairness ==
    /\ \A p \in Workers : WF_vars(Worker(p))
    /\ WF_vars(VacuumDue \/ VacuumAdmit \/ VacuumRun \/ VacuumFinish)
    /\ WF_vars(RunOnce \/ Notify \/ BeginPublication \/ EndWindow \/ EndPass)
    /\ WF_vars(Recovered \/ EnterCapture \/ JoinRetry \/ ExitCapture)
    /\ WF_vars(TimerFires)
    /\ WF_vars(Tick)

FairSpec == Spec /\ Fairness

-----------------------------------------------------------------------------
(* Properties.                                                               *)

Pcs == {"free", "start", "check", "wake", "run", "effect", "finish", "return",
        "due", "compact", "vacuum", "vacuumed", "notify"}

TypeOK ==
    /\ ps.mode \in {"available", "capture", "closed"}
    /\ ps.work.kind \in {"idle", "running", "settled", "retry", "compacting", "quiescing"}
    /\ ps.gen \in Nat /\ ps.tok \in Nat /\ ps.check \in BOOLEAN
    /\ now \in Nat /\ rev \in Nat /\ debt \in 0..MaxDebts
    /\ ready \in BOOLEAN
    /\ intr \in BOOLEAN /\ defer \in BOOLEAN
    /\ w \in [Workers -> [pc : Pcs, tok : Nat, rev : Int, again : BOOLEAN,
                         result : {"settled", "transient"}]]
    /\ maint \in [phase : {"idle", "ack", "publish", "raw", "expiry", "vacuum", "salvage"},
                  window : BOOLEAN]
    /\ visit \in {"recover", "scan", "wake", "join", "capture", "closed"}
    /\ timer \in [gen : Nat, due : Int] /\ hold \in [rev : Int, due : Int]
    /\ used \in [changes : 0..MaxChanges, failures : 0..MaxFailures,
                 visits : 0..MaxVisits, debts : 0..MaxDebts]

InEffect == {p \in Workers : w[p].pc \in {"effect", "vacuum"}}

\* Two workers never work on the storage at the same time: of the retry task,
\* the maintenance task and the coordinator at most one publishes or vacuums.
OneStorageOwner == Cardinality(InEffect) <= 1

\* While a visit captures, no publication and no vacuum is under way, and the
\* reducer holds no work that a late worker could still settle.
CaptureOwnsStorage ==
    visit = "capture" => InEffect = {} /\ ps.work = Idle

\* A failed publication is not tried again for the same revision before its
\* deadline, by whichever worker and across a compaction, unless the input was
\* reported changed or a visit came in between.
RetriesHonourDeadline ==
    [][\A p \in Workers :
          (w[p].pc = "run" /\ w'[p].pc = "effect" /\ w[p].rev = hold.rev)
             => now >= hold.due]_vars

\* The coordinator gets its visit, whatever publication, retry or vacuum is
\* under way when a presence result comes.
CaptureGranted == (visit = "wake") ~> (visit = "capture")

\* A scheduled retry is never forgotten: its timer is armed with the deadline and
\* the generation the reducer will accept, or a worker is under way that arms it
\* when it returns, also after a vacuum during which the timer fired in vain.
RetryIsArmed ==
    RetrySchedule(ps) =>
        \/ timer = Armed(ps)
        \/ \E p \in Workers : w[p].pc \notin {"free", "notify"}

SettledByCompaction ==
    ps.work.kind = "settled" /\ ps.work.by = "compaction" /\ ps.work.rev = rev

\* A cohort that can be published is published, unless the service closes or a
\* compaction has settled its revision (see EligiblePublishes).
ReadyIsHandled ==
    ready ~> (~ready \/ visit = "closed" \/ SettledByCompaction)

\* docs/FSM_INVARIANTS.md, F09(b): an eligible cohort can publish.
EligiblePublishes == ready ~> (~ready \/ visit = "closed")

====
