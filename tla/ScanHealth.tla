------------------------------ MODULE ScanHealth ------------------------------
(***************************************************************************)
(* The scan health monitor (ble_scan_health.py) and the incident it keeps  *)
(* in the state database (ble_scan_health_store.py). A monitor state is a  *)
(* record; what the incident says besides being open is left out, and so   *)
(* are the passive HCI diagnostics, which never change the monitor.        *)
(***************************************************************************)
EXTENDS Integers

CONSTANTS
    Silence,     \* threshold_seconds
    RetryDelay   \* the least retry delay; the code doubles it up to 30 seconds

ASSUME HealthAssumption == {Silence, RetryDelay} \subseteq Nat \ {0}

NoTime == -1

\* context: a failure whose incident is not yet stored (_open_context);
\* pending: a recovery that is not yet stored (_resolution_pending);
\* active, unknown: what the monitor believes is stored.
NewMonitor ==
    [gen |-> NoTime, startedAt |-> NoTime, lastAt |-> NoTime,
     latched |-> FALSE, failureAt |-> NoTime, context |-> FALSE,
     pending |-> FALSE, active |-> FALSE, unknown |-> FALSE,
     initialized |-> FALSE, retryAt |-> NoTime, resolving |-> FALSE,
     fatal |-> FALSE]

\* The persisted state is read once: it is open or not, or cannot be read.
Initialized(h, open) ==
    LET known == [h EXCEPT !.active = open, !.unknown = FALSE, !.initialized = TRUE]
    IN IF h.initialized THEN h
       ELSE IF ~open /\ ~h.context /\ h.pending
       THEN [known EXCEPT !.pending = FALSE, !.latched = FALSE] ELSE known

NotInitialized(h) == IF h.initialized THEN h ELSE [h EXCEPT !.unknown = TRUE]

\* prepare, after the incident state was looked up.
Prepared(h, g) ==
    [h EXCEPT !.latched = h.context /\ @, !.gen = g,
              !.startedAt = NoTime, !.lastAt = NoTime]

ScanStarted(h, g, t) == IF g = h.gen THEN [h EXCEPT !.startedAt = t] ELSE h

ScanStopping(h, g) == IF g = h.gen THEN [h EXCEPT !.startedAt = NoTime] ELSE h

ScanStopped(h, g) ==
    IF g = h.gen THEN [h EXCEPT !.startedAt = NoTime, !.gen = NoTime] ELSE h

\* _start_open: a failure voids a recovery seen before it.
StartOpen(h, t) ==
    LET failed == [h EXCEPT !.failureAt = t, !.pending = FALSE]
    IN IF h.latched /\ ~h.resolving THEN failed
       ELSE [failed EXCEPT !.context = TRUE, !.latched = TRUE]

ScanStartFailed(h, g, t) ==
    IF g = h.gen THEN [StartOpen(h, t) EXCEPT !.startedAt = NoTime] ELSE h

ScanStopFailed(h, g, t) == IF g = h.gen THEN StartOpen(h, t) ELSE h

Latest(x, y) == IF x > y THEN x ELSE y

\* Mutant: any callback of the running scanner counts as a recovery.
RadioActivityAnyTime(h, g, at) ==
    LET heard == [h EXCEPT !.lastAt = Latest(@, at)]
    IN IF g # h.gen THEN h
       ELSE IF h.active \/ h.unknown \/ h.context
       THEN [heard EXCEPT !.pending = TRUE]
       ELSE [heard EXCEPT !.latched = FALSE]

\* A radio callback observed at time at. One that is not later than the failure
\* is no recovery.
RadioActivity(h, g, at) ==
    LET heard == [h EXCEPT !.lastAt = Latest(@, at)]
    IN IF g # h.gen THEN h
       ELSE IF h.failureAt # NoTime /\ at <= h.failureAt THEN heard
       ELSE IF h.active \/ h.unknown \/ h.context
       THEN [heard EXCEPT !.pending = TRUE]
       ELSE [heard EXCEPT !.latched = FALSE]

\* Whether that callback wakes the waiter, to store the recovery now.
RecoveryWakes(h, g, at, t) ==
    /\ RadioActivity(h, g, at).pending /\ ~h.pending
    /\ h.active \/ h.unknown
    /\ h.retryAt <= t

\* next_deadline, NoTime when there is none.
HealthDeadline(h) ==
    IF h.retryAt # NoTime THEN h.retryAt
    ELSE IF h.latched \/ h.startedAt = NoTime THEN NoTime
    ELSE Latest(h.startedAt, h.lastAt) + Silence

\* check_deadline, up to the persistence it attempts.
DeadlineChecked(h, t) ==
    IF /\ h.retryAt = NoTime /\ h.gen # NoTime
       /\ HealthDeadline(h) # NoTime /\ t >= HealthDeadline(h)
    THEN StartOpen(h, t) ELSE h

\* What _persist_pending has to store at t: the failure, then the recovery.
MayPersist(h, t) == ~h.fatal /\ t >= h.retryAt
ToOpen(h, t) == MayPersist(h, t) /\ h.context
ToResolve(h, t) ==
    MayPersist(h, t) /\ ~h.context /\ h.pending /\ (h.active \/ h.unknown)

Opened(h) == [h EXCEPT !.active = TRUE, !.context = FALSE, !.retryAt = NoTime]

Resolved(h) ==
    LET told == [h EXCEPT !.active = FALSE, !.unknown = FALSE,
                          !.resolving = FALSE, !.retryAt = NoTime]
    IN IF h.context THEN told
       ELSE [told EXCEPT !.pending = FALSE, !.latched = FALSE]

PersistFailed(h, t) == [h EXCEPT !.retryAt = t + RetryDelay, !.resolving = FALSE]

PersistFatal(h) == [h EXCEPT !.fatal = TRUE, !.resolving = FALSE]
===============================================================================
