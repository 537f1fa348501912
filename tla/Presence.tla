------------------------------- MODULE Presence -------------------------------
(***************************************************************************)
(* The presence scheduler (presence.py) driving the presence policy, the   *)
(* scan cadence, the scan health monitor and the BLE scanner               *)
(* (BleakPresenceObserver), with the visit coordinator that asks for a     *)
(* permit, runs the attempt and reports its outcome.                       *)
(*                                                                         *)
(* One coroutine drives all of it: pc says what it awaits, stack where it  *)
(* goes from there. Between its steps scanner callbacks run on the loop,   *)
(* stops that were given up on finish late, and time passes. close() runs  *)
(* after the waiter was joined, so it is a part of the same coroutine.     *)
(***************************************************************************)
EXTENDS PresenceMachine, ScanHealth

CONSTANTS
    ActiveWindow,  \* scan_active_seconds
    Pause,         \* scan_pause_seconds
    MaxTime,       \* bound: the clock
    MaxGen,        \* bound: scanner generations
    MaxQueue,      \* bound: buffered advertisements
    MaxFaults      \* bound: failed starts, stops, reads and writes

VARIABLES
    now,        \* the monotonic clock
    phase,      \* of the policy: "waiting", "attempting" (a permit is out), "closed"
    waiting,    \* its waiting state; while a permit is out, the one it was issued in
    permit,     \* the observation behind the permit, and the first of its encounter
    cadence,    \* _scan_cadence
    nextGen,    \* _next_scanner_generation
    active,     \* _active_scanner_generation
    queue,      \* _advertisements
    changed,    \* _changed
    forceStop,  \* _force_stop_required
    stopping,   \* the stop under way: its generation and whether it is forced
    pc, stack,
    scanner,    \* the observer holds a scanner
    stopTask,   \* the observer's stop task: "none", "pending", "done", "failed"
    radio,      \* the generation whose scan the radio runs, None when it is off
    callback,   \* a scanner callback that has not run on the loop yet
    health,     \* the scan health monitor
    incident,   \* an incident is open in the state database
    faults,
    notBefore,  \* history: no permit is due before, by the last outcome of the visit
    heardAt,    \* history: the latest radio callback that was accepted
    failedAt    \* history: the latest scan failure; None is one before this run

policy == <<phase, waiting, permit, notBefore>>
scan == <<cadence, nextGen, active, queue, forceStop, stopping>>
device == <<scanner, stopTask, radio>>
records == <<health, incident, failedAt>>
vars == <<now, policy, scan, changed, pc, stack, device, callback, records,
          faults, heardAt>>

Ready == [kind |-> "ready", at |-> None, heard |-> FALSE]
Starting == [Ready EXCEPT !.kind = "starting"]
Active(t, heard) == [kind |-> "active", at |-> t, heard |-> heard]
Paused(until) == [kind |-> "paused", at |-> until, heard |-> FALSE]

NoPermit == [adv |-> NoAdvertisement, first |-> NoAdvertisement]
NoStop == [gen |-> None, force |-> FALSE]
NoCallback == [gen |-> None, at |-> None, match |-> FALSE]

\* A restart finds the incident and the unfinished visit the last run left.
Init ==
    /\ now = 0
    /\ phase = "waiting"
    /\ waiting \in {Searching(0), ResumeWaiting(Searching(0), 0)}
    /\ permit = NoPermit /\ notBefore = 0
    /\ cadence = Ready /\ nextGen = 0 /\ active = None /\ queue = <<>>
    /\ forceStop = FALSE /\ stopping = NoStop /\ changed = FALSE
    /\ pc = "idle" /\ stack = <<>>
    /\ scanner = FALSE /\ stopTask = "none" /\ radio = None /\ callback = NoCallback
    /\ health = NewMonitor /\ incident \in BOOLEAN
    /\ failedAt = (IF incident THEN None ELSE None - 1)
    /\ faults = 0 /\ heardAt = None

Fault == faults < MaxFaults /\ faults' = faults + 1

\* Where the coroutine awaits; in between it runs at one instant, undisturbed.
Awaits == {"idle", "starting", "stopping", "opening", "resolving", "yield", "wait",
           "pausewait", "attempt", "done"}

\* On to the first of the places listed; the others come after it.
Goto(places) == pc' = Head(places) /\ stack' = Tail(places)
Return == Goto(stack)

\* _attempt_persistence with monitor h, then on to the places listed.
Persisting(h, places) ==
    IF ToOpen(h, now) THEN health' = h /\ pc' = "opening" /\ stack' = places
    ELSE IF ToResolve(h, now)
    THEN health' = [h EXCEPT !.resolving = TRUE] /\ pc' = "resolving" /\ stack' = places
    ELSE health' = h /\ Goto(places)

------------------------------------------------------------------------------
(* Starting a scan.                                                        *)

\* _start_scan_locked, up to the await of observer.start. The observer refuses
\* while it holds an earlier scanner.
BeginStart(back, h) ==
    /\ nextGen < MaxGen
    /\ nextGen' = nextGen + 1
    /\ active' = nextGen
    /\ cadence' = Starting
    /\ health' = Prepared(h, nextGen)
    /\ IF scanner \/ stopTask # "none" THEN UNCHANGED device
       ELSE scanner' = TRUE /\ radio' = nextGen /\ UNCHANGED stopTask
    /\ Goto(<<"starting", back>>)
    /\ UNCHANGED <<queue, forceStop, stopping, incident, failedAt>>

\* prepare reads the incident first; storage can fail to answer.
StartScan(back) ==
    \/ BeginStart(back, Initialized(health, incident)) /\ UNCHANGED faults
    \/ BeginStart(back, NotInitialized(health)) /\ ~health.initialized /\ Fault

StartOk ==
    /\ pc = "starting" /\ radio = active
    /\ health' = ScanStarted(health, active, now)
    /\ cadence' = Active(now, cadence.heard)
    /\ Return
    /\ UNCHANGED <<now, policy, nextGen, active, queue, forceStop, stopping,
                   changed, device, callback, incident, failedAt, faults, heardAt>>

\* The observer's own stop of a scan that did not start, inside start(): done,
\* failed, or not finished when the start is given up.
StartAbandoned(result) ==
    IF radio # active THEN result # "late" /\ UNCHANGED device
    ELSE CASE result = "stopped" -> scanner' = FALSE /\ radio' = None /\ UNCHANGED stopTask
           [] result = "failed" -> stopTask' = "failed" /\ UNCHANGED <<scanner, radio>>
           [] result = "late" -> stopTask' \in {"none", "pending"} /\ UNCHANGED <<scanner, radio>>

\* A start whose cancellation is uncertain closes the scheduler.
StartFailed(result) == IF result = "late" THEN "hardcleanup" ELSE "softcleanup"

StartFails ==
    /\ pc = "starting"
    /\ \E result \in {"stopped", "failed", "late"} :
          /\ StartAbandoned(result)
          /\ Persisting(ScanStartFailed(health, active, now), <<StartFailed(result)>> \o stack)
    /\ active' = None
    /\ failedAt' = now
    /\ IF radio = active THEN Fault ELSE UNCHANGED faults
    /\ UNCHANGED <<now, policy, cadence, nextGen, queue, forceStop, stopping,
                   changed, callback, incident, heardAt>>

\* The waiter is cancelled while it starts a scan.
StartCancelled ==
    /\ pc = "starting"
    /\ \E result \in {"stopped", "failed"} : StartAbandoned(result)
    /\ active' = None
    /\ health' = ScanStopped(health, active)
    /\ Goto(<<"softcleanup", "raise">>)
    /\ UNCHANGED <<now, policy, cadence, nextGen, queue, forceStop, stopping,
                   changed, callback, incident, failedAt, faults, heardAt>>

------------------------------------------------------------------------------
(* Stopping a scan.                                                        *)

\* _stop_scan_locked, up to the await of observer.stop, then on to the places.
BeginStop(force, places) ==
    IF active = None /\ ~force
    THEN Goto(places) /\ UNCHANGED <<cadence, active, queue, stopping, health>>
    ELSE /\ stopping' = [gen |-> active, force |-> force]
         /\ active' = None
         /\ cadence' = Ready
         /\ queue' = <<>>
         /\ health' = IF active = None THEN health ELSE ScanStopping(health, active)
         /\ pc' = "stopping" /\ stack' = places

\* Where a failed stop is ignored: forced cleanups, and close().
BestEffort == Head(stack) \in {"softdone", "raise", "closing"}

ScannerStopped ==
    \/ ~scanner /\ UNCHANGED device
    \/ scanner /\ stopTask # "failed"
       /\ scanner' = FALSE /\ stopTask' = "none" /\ radio' = None

StopOk ==
    /\ pc = "stopping"
    /\ ScannerStopped
    /\ forceStop' = FALSE
    /\ health' = IF stopping.gen = None THEN health ELSE ScanStopped(health, stopping.gen)
    /\ stopping' = NoStop
    /\ Return
    /\ UNCHANGED <<now, policy, cadence, nextGen, active, queue, changed,
                   callback, incident, failedAt, faults, heardAt>>

\* A stop that raises stays with the observer; one that is too slow may finish
\* later.
ScannerNotStopped ==
    /\ scanner /\ stopTask # "done"
    /\ stopTask' \in IF stopTask = "failed" THEN {"failed"} ELSE {"failed", "pending"}
    /\ UNCHANGED <<scanner, radio>>

\* Mutant: a permit is handed out although the scan could not be stopped.
AfterFailedStopLenient == IF BestEffort \/ Head(stack) = "attempt" THEN Head(stack) ELSE "stopfailed"

\* A permit, the end of a visit, a pause and a cancellation need a stopped scan.
AfterFailedStop == IF BestEffort THEN Head(stack) ELSE "stopfailed"

StopFails ==
    /\ pc = "stopping"
    /\ ScannerNotStopped
    /\ IF stopTask = "failed" THEN UNCHANGED faults ELSE Fault
    /\ forceStop' = TRUE
    /\ stopping' = NoStop
    /\ LET places == <<AfterFailedStop>> \o Tail(stack)
       IN IF stopping.gen = None THEN Goto(places) /\ UNCHANGED records
          ELSE /\ Persisting(ScanStopFailed(health, stopping.gen, now), places)
               /\ failedAt' = now
               /\ UNCHANGED incident
    /\ UNCHANGED <<now, policy, cadence, nextGen, active, queue, changed,
                   callback, heardAt>>

\* The waiter is cancelled while it stops a scan: the stop goes on by itself.
StopCancelled ==
    /\ pc = "stopping" /\ ~BestEffort
    /\ scanner /\ stopTask # "failed" /\ stopTask' = "pending"
    /\ forceStop' = TRUE
    /\ phase' = "closed"
    /\ health' = IF stopping.gen = None THEN health ELSE ScanStopped(health, stopping.gen)
    /\ stopping' = NoStop
    /\ Goto(<<"stopfailed">>)
    /\ UNCHANGED <<now, waiting, permit, notBefore, cadence, nextGen, active, queue,
                   changed, scanner, radio, callback, incident, failedAt, faults, heardAt>>

\* A stop that was given up on ends; the observer keeps its scanner until the
\* next stop joins it.
LateStop ==
    /\ stopTask = "pending" /\ pc \in Awaits \ {"stopping", "starting"}
    /\ \/ stopTask' = "done" /\ radio' = None
       \/ stopTask' = "failed" /\ UNCHANGED radio
    /\ UNCHANGED <<now, policy, scan, changed, pc, stack, scanner, callback,
                   records, faults, heardAt>>

\* _cleanup_failed_start, with its forced stop.
CleanupStart ==
    /\ pc \in {"softcleanup", "hardcleanup"}
    /\ \/ /\ pc = "hardcleanup"
          /\ forceStop' = TRUE
          /\ phase' = "closed"
          /\ BeginStop(TRUE, <<"raise">>)
          /\ UNCHANGED waiting
       \/ /\ pc = "softcleanup"
          /\ waiting' = IF phase = "waiting" THEN ClearArrival(waiting) ELSE waiting
          /\ BeginStop(TRUE, <<"softdone">> \o stack)
          /\ UNCHANGED <<forceStop, phase>>
    /\ UNCHANGED <<now, permit, notBefore, nextGen, changed, device, callback,
                   incident, failedAt, faults, heardAt>>

SoftDone ==
    /\ pc = "softdone"
    /\ Return
    /\ UNCHANGED <<now, policy, scan, changed, device, callback, records, faults, heardAt>>

\* _close_after_stop_failure.
CloseAfterStopFailure ==
    /\ pc = "stopfailed"
    /\ phase' = "closed"
    /\ BeginStop(TRUE, <<"raise">>)
    /\ UNCHANGED <<now, waiting, permit, notBefore, nextGen, forceStop, changed,
                   device, callback, incident, failedAt, faults, heardAt>>

\* close(), the coordinator's last act whatever ended it: a stop, and then one
\* more try to store what the monitor still holds.
Close ==
    /\ pc = "raise"
    /\ phase' = "closed"
    /\ BeginStop(forceStop, <<"closing">>)
    /\ UNCHANGED <<now, waiting, permit, notBefore, nextGen, forceStop, changed,
                   device, callback, incident, failedAt, faults, heardAt>>

CloseFlush ==
    /\ pc = "closing"
    /\ Persisting(health, <<"done">>)
    /\ UNCHANGED <<now, policy, scan, changed, device, callback, incident, failedAt,
                   faults, heardAt>>

------------------------------------------------------------------------------
(* Storing incidents. A write that raises may have been applied.           *)

StoreIdle == <<now, policy, scan, changed, device, callback, failedAt, heardAt>>

OpenOk ==
    /\ pc = "opening"
    /\ incident' = TRUE
    /\ Persisting(Opened(health), stack)
    /\ UNCHANGED <<StoreIdle, faults>>

ResolveOk ==
    /\ pc = "resolving"
    /\ incident' = FALSE
    /\ Persisting(Resolved(health), stack)
    /\ UNCHANGED <<StoreIdle, faults>>

StoreFails ==
    /\ pc \in {"opening", "resolving"}
    /\ Fault
    /\ incident' \in {incident, pc = "opening"}
    /\ health' = PersistFailed(health, now)
    /\ Return
    /\ UNCHANGED StoreIdle

\* A fatal storage error ends the run, after the cleanups it passes through.
StoreFatal ==
    /\ pc \in {"opening", "resolving"}
    /\ Fault
    /\ incident' \in {incident, pc = "opening"}
    /\ health' = PersistFatal(health)
    /\ Goto(CASE Head(stack) = "done" -> <<"done">>
              [] Head(stack) \in {"softcleanup", "hardcleanup", "stopfailed"} ->
                    <<Head(stack), "raise">>
              [] OTHER -> <<"raise">>)
    /\ UNCHANGED StoreIdle

------------------------------------------------------------------------------
(* Waiting for a permit.                                                   *)

FreshCandidate(w) ==
    w.kind = "searching" /\ w.adv # NoAdvertisement /\ now < w.adv.at + MaxGap

\* The end of the active window of a scan that has heard any device.
CadenceDeadline ==
    IF cadence.kind = "active" /\ cadence.heard THEN cadence.at + ActiveWindow ELSE None

\* Mutant: an idle scan pauses whatever candidate it has just seen.
ShouldPauseAnyway(w) ==
    CadenceDeadline # None /\ now >= CadenceDeadline /\ w.kind = "searching"

ShouldPause(w) ==
    /\ CadenceDeadline # None /\ now >= CadenceDeadline
    /\ w.kind = "searching" /\ ~FreshCandidate(w)

\* Follow a result of the policy: a permit and the end of a visit both stop the
\* scan first.
Redeem(result, rest) ==
    /\ waiting' = result.state
    /\ notBefore' = IF result.ended THEN now ELSE notBefore
    /\ IF result.permit
       THEN phase' = "attempting" /\ permit' = [adv |-> result.adv, first |-> result.first]
       ELSE UNCHANGED <<phase, permit>>
    /\ IF result.permit THEN BeginStop(FALSE, <<"attempt">>)
       ELSE IF result.ended THEN BeginStop(FALSE, <<"idle">>)
       ELSE Goto(<<"step">>) /\ queue' = rest /\ UNCHANGED <<cadence, active, stopping, health>>

Waiter == <<now, nextGen, forceStop, device, callback, incident, failedAt,
            faults, heardAt>>

WaitForAttempt ==
    /\ pc = "idle" /\ phase = "waiting"
    /\ Goto(<<"step">>)
    /\ UNCHANGED <<Waiter, policy, cadence, active, queue, stopping,
                   changed, health>>

\* The armed deadline, or the end of a pause that comes first.
PauseDeadline == LeastOf({cadence.at, ArmedDeadline(waiting)})

StillPaused == cadence.kind = "paused" /\ now < cadence.at /\ waiting.kind = "searching"

WaitOutPause ==
    /\ pc = "step" /\ StillPaused
    /\ Goto(<<"pausewait">>)
    /\ changed' = FALSE
    /\ UNCHANGED <<Waiter, policy, cadence, active, queue, stopping, health>>

StepStarts ==
    /\ pc = "step" /\ ~StillPaused /\ active = None
    /\ StartScan("flush")
    /\ UNCHANGED <<now, policy, changed, callback, heardAt>>

StepScans ==
    /\ pc = "step" /\ ~StillPaused /\ active # None
    /\ Persisting(health, <<"look">>)
    /\ UNCHANGED <<Waiter, policy, cadence, active, queue, stopping, changed>>

Flush ==
    /\ pc = "flush"
    /\ Persisting(health, <<"look">>)
    /\ UNCHANGED <<Waiter, policy, cadence, active, queue, stopping, changed>>

TakeAdvertisement ==
    /\ pc \in {"look", "wait"} /\ queue # <<>>
    /\ Redeem(HandleAdvertisement(waiting, Head(queue), now), Tail(queue))
    /\ UNCHANGED <<Waiter, changed>>

\* _pause_idle_scan first lets the callback of the window's end run.
YieldBeforePause ==
    /\ pc = "look" /\ queue = <<>> /\ ShouldPause(waiting)
    /\ Goto(<<"yield">>)
    /\ UNCHANGED <<Waiter, policy, cadence, active, queue, stopping,
                   changed, health>>

PauseScan ==
    /\ pc = "yield"
    /\ LET result == IF queue = <<>> THEN Observe(waiting)
                     ELSE HandleAdvertisement(waiting, Head(queue), now)
       IN IF result.permit \/ ~ShouldPause(result.state)
          THEN Redeem(result, IF queue = <<>> THEN queue ELSE Tail(queue))
          ELSE /\ waiting' = result.state
               /\ BeginStop(FALSE, <<"paused">>)
               /\ UNCHANGED <<phase, permit, notBefore>>
    /\ UNCHANGED <<Waiter, changed>>

ScanIsPaused ==
    /\ pc = "paused"
    /\ cadence' = Paused(now + Pause)
    /\ Goto(<<"step">>)
    /\ UNCHANGED <<Waiter, policy, active, queue, stopping, changed, health>>

EnterWait ==
    /\ pc = "look" /\ queue = <<>> /\ ~ShouldPause(waiting)
    /\ IF now >= ArmedDeadline(waiting) THEN Goto(<<"timer">>) /\ UNCHANGED changed
       ELSE Goto(<<"wait">>) /\ changed' = FALSE
    /\ UNCHANGED <<Waiter, policy, cadence, active, queue, stopping, health>>

WaitChanged ==
    /\ pc \in {"wait", "pausewait"} /\ queue = <<>> /\ changed
    /\ Goto(<<"step">>)
    /\ UNCHANGED <<Waiter, policy, cadence, active, queue, stopping,
                   changed, health>>

\* When _wait_until_event wakes by itself.
WakeDeadline ==
    LeastOf({IF pc = "pausewait" THEN PauseDeadline ELSE ArmedDeadline(waiting)}
            \union ({HealthDeadline(health)} \ {None})
            \union (IF pc = "pausewait" \/ waiting.kind # "searching" THEN {}
                    ELSE IF FreshCandidate(waiting) THEN {waiting.adv.at + MaxGap}
                    ELSE {CadenceDeadline} \ {None}))

WaitTimesOut ==
    /\ pc \in {"wait", "pausewait"} /\ queue = <<>> /\ ~changed
    /\ now >= WakeDeadline
    /\ LET h == DeadlineChecked(health, now)
           places == <<IF pc = "wait" THEN "timer" ELSE "pausetimer">>
       IN /\ IF h = health /\ health.retryAt = None
             THEN Goto(places) /\ UNCHANGED health
             ELSE Persisting(h, places)
          /\ failedAt' = IF h = health THEN failedAt ELSE now
    /\ UNCHANGED <<now, policy, scan, changed, device, callback, incident, faults, heardAt>>

TimerFires ==
    /\ pc \in {"timer", "pausetimer"}
    /\ LET deadline == IF pc = "timer" THEN ArmedDeadline(waiting) ELSE PauseDeadline
       IN Redeem(IF now < deadline THEN Observe(waiting)
                 ELSE HandleTimer(waiting, now, deadline), queue)
    /\ UNCHANGED <<Waiter, changed>>

\* The waiter is cancelled while it waits: _cancel_wait stops the scan.
CancelWait ==
    /\ pc \in {"wait", "pausewait"}
    /\ BeginStop(FALSE, <<"cancelled">>)
    /\ UNCHANGED <<Waiter, policy, changed>>

WaitCancelled ==
    /\ pc = "cancelled"
    /\ waiting' = ClearArrival(waiting)
    /\ Goto(<<"raise">>)
    /\ UNCHANGED <<Waiter, phase, permit, notBefore, cadence, active, queue, stopping, changed, health>>

------------------------------------------------------------------------------
(* The coordinator.                                                        *)

\* The earliest time of the next permit, by the outcome of this one.
NextPermit(result, outcome) ==
    IF outcome = "clean" THEN now + Cooldown
    ELSE IF outcome # "unavailable" /\ result.state.kind = "retry" THEN result.state.retryAt
    ELSE notBefore

\* attempt_finished: the outcome is reported and scanning starts again, unless
\* it ends the visit.
FinishAttempt ==
    /\ pc = "attempt"
    /\ \E outcome \in Outcomes :
          LET result == AttemptFinished(waiting, now, outcome)
          IN /\ waiting' = result.state
             /\ notBefore' = NextPermit(result, outcome)
             /\ IF result.ended
                THEN Goto(<<"idle">>) /\ UNCHANGED <<scan, device, records, faults>>
                ELSE StartScan("idle")
    /\ phase' = "waiting"
    /\ permit' = NoPermit
    /\ UNCHANGED <<now, changed, callback, heardAt>>

\* The run ends between two waits or during an attempt.
EndRun ==
    /\ pc \in {"idle", "attempt"}
    /\ Goto(<<"raise">>)
    /\ UNCHANGED <<Waiter, policy, cadence, active, queue, stopping,
                   changed, health>>

------------------------------------------------------------------------------
(* The radio, the loop and the clock.                                      *)

\* A running scan hears a device, the pendant or another one.
Detect ==
    /\ pc \in Awaits /\ radio # None /\ callback = NoCallback
    /\ \E match \in BOOLEAN :
          callback' = [gen |-> radio, at |-> now, match |-> match]
    /\ UNCHANGED <<now, policy, scan, changed, pc, stack, device, records, faults, heardAt>>

\* Only callbacks of the running generation count, until the scheduler closes.
Current == callback.gen = active /\ phase # "closed"

Deliver ==
    /\ callback # NoCallback /\ pc \in Awaits
    /\ callback' = NoCallback
    /\ IF Current
       THEN /\ heardAt' = Latest(heardAt, callback.at)
            /\ cadence' = [cadence EXCEPT !.heard = TRUE]
            /\ health' = RadioActivity(health, callback.gen, callback.at)
            /\ changed' = (changed \/ /\ pc = "wait"
                                      /\ \/ ~cadence.heard
                                         \/ RecoveryWakes(health, callback.gen, callback.at, now))
            /\ IF callback.match
               THEN /\ Len(queue) < MaxQueue
                    /\ queue' = Append(queue, Advertisement(callback.gen, callback.at))
               ELSE UNCHANGED queue
       ELSE UNCHANGED <<heardAt, cadence, health, changed, queue>>
    /\ UNCHANGED <<now, policy, nextGen, active, forceStop, stopping, pc, stack, device,
                   incident, failedAt, faults>>

Tick ==
    /\ now < MaxTime /\ pc \in Awaits
    /\ now' = now + 1
    /\ UNCHANGED <<policy, scan, changed, pc, stack, device, callback, records,
                   faults, heardAt>>

Next ==
    \/ StartOk \/ StartFails \/ StartCancelled
    \/ StopOk \/ StopFails \/ StopCancelled \/ LateStop
    \/ CleanupStart \/ SoftDone \/ CloseAfterStopFailure \/ Close \/ CloseFlush
    \/ OpenOk \/ ResolveOk \/ StoreFails \/ StoreFatal
    \/ WaitForAttempt \/ WaitOutPause \/ StepStarts \/ StepScans \/ Flush
    \/ TakeAdvertisement \/ YieldBeforePause \/ PauseScan \/ ScanIsPaused
    \/ EnterWait \/ WaitChanged \/ WaitTimesOut \/ TimerFires
    \/ CancelWait \/ WaitCancelled \/ FinishAttempt \/ EndRun
    \/ Detect \/ Deliver \/ Tick

Spec == Init /\ [][Next]_vars

------------------------------------------------------------------------------
\* A permit is handed to the session only while the collector's own scanner is
\* off, whatever start or stop failed, timed out or ended late before it, and a
\* run that ends without a stop it knows to have failed leaves no scan running.
ScanIsReleased ==
    pc = "attempt" \/ (pc = "done" /\ ~forceStop) => radio = None

\* A permit rests on one unbroken encounter: observations of a single scan,
\* spanning the stability interval; and it is issued only once the cooldown or
\* the backoff of the last attempt is over, or the visit it belonged to was given
\* up for absence, however late a timer or an observation is handled.
PermitIsEarned ==
    phase = "attempting" =>
        /\ permit.first.gen = permit.adv.gen
        /\ permit.adv.at - permit.first.at >= Stability
        /\ now >= notBefore

\* Whenever the waiter rests with nothing left to retry, and when the run has
\* ended, an incident is open exactly when no radio callback later than the last
\* scan failure was heard.
IncidentIsTruthful ==
    \/ pc \notin {"wait", "done"} \/ changed
    \/ health.retryAt # None \/ health.fatal \/ ~health.initialized
    \/ incident <=> heardAt <= failedAt
==============================================================================
