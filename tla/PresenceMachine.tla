--------------------------- MODULE PresenceMachine ---------------------------
(***************************************************************************)
(* The pure presence policy (presence_machine.py): when an advertisement   *)
(* earns an attempt permit, and when an interrupted visit is given up.     *)
(* States are records, time is a natural number of seconds and None stands *)
(* for an unset time. A timer event carries the epoch its driver reads     *)
(* when it fires, which is always the current one, so epochs are left out. *)
(***************************************************************************)
EXTENDS Integers, Sequences

CONSTANTS
    Absence,    \* absence_seconds
    Recheck,    \* scan_recheck_seconds
    Cooldown,   \* drain_cooldown_seconds
    Backoff,    \* rapid_backoff
    Stability,  \* arrival_stability_seconds
    MaxGap      \* arrival_max_gap_seconds

\* What PresencePolicy.__post_init__ enforces.
ASSUME PolicyAssumption ==
    /\ {Absence, Recheck, Cooldown, Stability, MaxGap} \subseteq Nat \ {0}
    /\ Backoff \in Seq(Nat \ {0}) /\ Backoff # <<>>

None == -1

LeastOf(S) == CHOOSE x \in S : \A y \in S : x <= y

\* An observation, with the scanner generation that made it: the driver checks
\* the generation before the policy sees the observation, and the policy never
\* reads it.
Advertisement(g, t) == [gen |-> g, at |-> t]

NoAdvertisement == [gen |-> None, at |-> None]

\* A waiting state. "first" is the observation arrival_started_at dates from.
Searching(t) ==
    [kind |-> "searching", recheckAt |-> t + Recheck, cooldownAt |-> None,
     retryAt |-> None, absenceAt |-> None, index |-> 0,
     adv |-> NoAdvertisement, first |-> NoAdvertisement]

CoolingDown(t) ==
    [Searching(t) EXCEPT !.kind = "cooling", !.recheckAt = t + Cooldown,
                         !.cooldownAt = t + Cooldown]

RetryWaiting(t, delay, index) ==
    [Searching(t) EXCEPT !.kind = "retry", !.retryAt = t + delay,
                         !.absenceAt = t + Absence, !.index = index]

\* resume_interrupted_visit on the state the process starts in.
ResumeWaiting(s, t) == [s EXCEPT !.kind = "retry", !.absenceAt = t + Absence]

ArmedDeadline(s) ==
    IF s.kind # "retry" THEN s.recheckAt
    ELSE LeastOf({s.recheckAt} \union ({s.retryAt, s.absenceAt} \ {None}))

ClearArrival(s) == [s EXCEPT !.adv = NoAdvertisement, !.first = NoAdvertisement]

RefreshRetryAbsence(s, t) ==
    IF s.kind = "retry" /\ s.absenceAt < t + Absence
    THEN [s EXCEPT !.absenceAt = t + Absence] ELSE s

\* The observation the encounter that a belongs to began with.
EncounterFirst(s, a) ==
    IF \/ s.adv = NoAdvertisement
       \/ a.at <= s.adv.at
       \/ a.at - s.adv.at >= MaxGap
    THEN a ELSE s.first

\* A result: the state, and the permit or the end of the visit it directs.
Observe(s) == [state |-> s, permit |-> FALSE, ended |-> FALSE,
               adv |-> NoAdvertisement, first |-> NoAdvertisement]

Begin(s, a) == [Observe(s) EXCEPT !.permit = TRUE, !.adv = a,
                                  !.first = EncounterFirst(s, a)]

EndVisit(t) == [Observe(Searching(t)) EXCEPT !.ended = TRUE]

Admit(s, a) ==
    LET first == EncounterFirst(s, a)
    IN IF a.at - first.at >= Stability THEN Begin(s, a)
       ELSE Observe([s EXCEPT !.adv = a, !.first = first])

\* The observation a, processed at t.
HandleAdvertisement(s, a, t) ==
    IF t < a.at \/ t >= a.at + MaxGap THEN Observe(ClearArrival(s))
    ELSE LET r == RefreshRetryAbsence(s, a.at)
         IN IF a.at < r.cooldownAt \/ a.at < r.retryAt THEN Observe(r)
            ELSE Admit(r, a)

Rechecked(s, t) == [s EXCEPT !.recheckAt = t + Recheck]

HandleRetryTimer(s, t) ==
    IF t < ArmedDeadline(s) THEN Observe(s)
    ELSE IF s.absenceAt # None /\ t >= s.absenceAt THEN EndVisit(t)
    ELSE IF t < s.retryAt THEN Observe(Rechecked(s, t))
    ELSE LET r == IF s.recheckAt > t THEN s ELSE Rechecked(s, t)
         IN Observe([r EXCEPT !.retryAt = None])

\* A timer armed for deadline that fires at t; another deadline is stale.
HandleTimer(s, t, deadline) ==
    IF deadline # ArmedDeadline(s) THEN Observe(s)
    ELSE IF s.kind = "retry" THEN HandleRetryTimer(s, t)
    ELSE IF t < s.recheckAt THEN Observe(s)
    ELSE IF s.kind = "searching" THEN Observe(Rechecked(s, t))
    ELSE Observe(Searching(t))

\* An interrupted attempt: a retry after its backoff, or the end of the visit
\* once the backoffs are used up without durable progress.
Interrupted(s, t, progress) ==
    LET index == IF progress THEN 0 ELSE s.index + 1
        slot == LeastOf({IF progress THEN 1 ELSE index, Len(Backoff)})
    IN IF ~progress /\ s.index >= Len(Backoff) THEN EndVisit(t)
       ELSE Observe(RetryWaiting(t, Backoff[slot], index))

Outcomes == {"clean", "unavailable", "progress", "interrupted"}

\* The outcome of an attempt whose permit was issued in state s.
AttemptFinished(s, t, outcome) ==
    CASE outcome = "clean" -> Observe(CoolingDown(t))
      [] outcome = "unavailable" ->
            Observe(IF s.kind = "retry" THEN ClearArrival(s) ELSE Searching(t))
      [] OTHER -> Interrupted(s, t, outcome = "progress")
==============================================================================
