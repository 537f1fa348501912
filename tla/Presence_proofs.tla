--------------------------- MODULE Presence_proofs ---------------------------
(***************************************************************************)
(* Proofs about Presence, for all timings of the policy, the cadence and    *)
(* the monitor.  Three invariants carry the three promises of the module:    *)
(* Released (who may have left the radio on), Earned (what the pending        *)
(* observations can still become) and Told (what the monitor knows of the     *)
(* stored incident).  They share Control, the places the coroutine can be at. *)
(***************************************************************************)
EXTENDS Presence, SequenceTheorems, TLAPS

-----------------------------------------------------------------------------
(* Where the coroutine is: places it passes with nothing to come back to, and   *)
(* the awaits and cleanups that return to one.                               *)

Waits == {"step", "flush", "look", "yield", "paused", "wait", "pausewait", "timer", "pausetimer"}
Plain == Waits \cup {"idle", "cancelled", "attempt", "stopfailed", "raise", "closing", "done"}
Back == {"flush", "idle", "raise"}
Cleanups == {"softcleanup", "hardcleanup"}
Storing == {"opening", "resolving"}

Control ==
    \/ pc \in Plain /\ stack = <<>>
    \/ pc = "stopfailed" /\ stack = <<"raise">>
    \/ pc = "starting" /\ stack \in {<<"flush">>, <<"idle">>}
    \/ pc \in Cleanups \cup {"softdone"} /\ \E x \in Back : stack = <<x>>
    \/ /\ pc = "stopping"
       /\ \/ \E x \in {"attempt", "idle", "paused", "cancelled", "raise", "closing"} : stack = <<x>>
          \/ \E x \in Back : stack = <<"softdone", x>>
    \/ /\ pc \in Storing
       /\ \/ \E x \in {"stopfailed", "raise", "closing", "done", "look", "timer", "pausetimer"} :
                stack = <<x>>
          \/ \E c \in Cleanups \cup {"softdone"}, x \in Back : stack = <<c, x>>

(* The place the coroutine is at, or goes to when a write has ended.          *)
Place == IF pc \in Storing THEN Head(stack) ELSE pc

(* What each place says of the phase and of the scan.                         *)
Stage ==
    /\ Place \in Waits \cup {"idle", "starting", "softcleanup", "softdone"} => phase = "waiting"
    /\ pc = "stopping" /\ Head(stack) \in {"idle", "paused", "softdone"} => phase = "waiting"
    /\ Place \in {"closing", "done"} => phase = "closed"
    /\ pc = "stopping" /\ Head(stack) \in {"closing", "raise"} => phase = "closed"
    /\ phase = "attempting" => (pc = "attempt" \/ (pc = "stopping" /\ Head(stack) = "attempt")
                                \/ Place \in {"stopfailed", "raise"})
    /\ pc = "attempt" \/ (pc = "stopping" /\ Head(stack) = "attempt") => phase = "attempting"
    /\ Place \in Cleanups \cup {"stopping", "attempt"} => active = None
    /\ pc # "stopping" => stopping = NoStop
    /\ pc = "starting" => active # None

-----------------------------------------------------------------------------
(* The radio: a scan that runs is the scheduler's own, or one whose stop is     *)
(* known to be owed, or one that is being stopped; and an observation waits     *)
(* only while a scan is the scheduler's, so that a permit stops it first.       *)
Released ==
    /\ nextGen \in Nat
    /\ callback # NoCallback => callback.gen # None
    /\ ~scanner => radio = None
    /\ radio # None => (active = radio \/ forceStop \/ Place \in Cleanups \cup {"stopping"})
    /\ queue # <<>> => (active # None \/ Place \in Cleanups)
    /\ pc = "attempt" => radio = None
    /\ Place \in {"closing", "done"} /\ ~forceStop => radio = None

-----------------------------------------------------------------------------
(* Places.                                                                   *)

LEMMA Tuples ==
    /\ \A a : Head(<<a>>) = a /\ Tail(<<a>>) = <<>> /\ <<a>> \o <<>> = <<a>>
    /\ \A a, b : Head(<<a, b>>) = a /\ Tail(<<a, b>>) = <<b>> /\ <<a>> \o <<b>> = <<a, b>>
<1>1. \A a : Head(<<a>>) = a /\ Tail(<<a>>) = <<>> /\ <<a>> \o <<>> = <<a>>
  OBVIOUS
<1>2. ASSUME NEW a, NEW b
      PROVE  Head(<<a, b>>) = a /\ Tail(<<a, b>>) = <<b>> /\ <<a>> \o <<b>> = <<a, b>>
  <2>1. Head(<<a, b>>) = a
    OBVIOUS
  <2>2. Tail(<<a, b>>) = <<b>>
    OBVIOUS
  <2>3. <<a>> \o <<b>> = <<a, b>>
    <3> DEFINE both == <<a>> \o <<b>>
    <3>1. <<a>> \in Seq({a, b}) /\ <<b>> \in Seq({a, b}) /\ Len(<<a>>) = 1 /\ Len(<<b>>) = 1
          /\ <<a, b>> \in Seq({a, b}) /\ Len(<<a, b>>) = 2
      OBVIOUS
    <3>2. both \in Seq({a, b}) /\ Len(both) = 2 /\ both[1] = a /\ both[2] = b
      BY <3>1, ConcatProperties
    <3>3. \A i \in 1 .. Len(both) : both[i] = <<a, b>>[i]
      <4>1. \A i \in 1 .. 2 : i = 1 \/ i = 2
        OBVIOUS
      <4> HIDE DEF both
      <4> QED BY <3>2, <4>1
    <3> HIDE DEF both
    <3>4. both = <<a, b>>
      BY <3>1, <3>2, <3>3, SeqEqual
    <3> QED BY <3>4 DEF both
  <2> QED BY <2>1, <2>2, <2>3
<1> QED BY <1>1, <1>2

LEMMA Persists ==
    ASSUME NEW h, NEW places, Persisting(h, places)
    PROVE  \/ Goto(places) /\ health' = h /\ ~ToOpen(h, now) /\ ~ToResolve(h, now)
           \/ pc' = "opening" /\ stack' = places /\ health' = h /\ ToOpen(h, now)
           \/ /\ pc' = "resolving" /\ stack' = places /\ ToResolve(h, now) /\ ~ToOpen(h, now)
              /\ health' = [h EXCEPT !.resolving = TRUE]
BY DEF Persisting

LEMMA Stops ==
    ASSUME NEW force, NEW places, BeginStop(force, places)
    PROVE  \/ /\ active = None /\ ~force /\ Goto(places)
              /\ UNCHANGED <<cadence, active, queue, stopping, health>>
           \/ /\ stopping' = [gen |-> active, force |-> force]
              /\ active' = None /\ cadence' = Ready /\ queue' = <<>>
              /\ health' = IF active = None THEN health ELSE ScanStopping(health, active)
              /\ pc' = "stopping" /\ stack' = places
BY DEF BeginStop

(* A write of the monitor keeps the coroutine on its way.                     *)
LEMMA PersistPlace ==
    ASSUME NEW h, NEW x, Persisting(h, <<x>>)
    PROVE  \/ pc' = x /\ stack' = <<>>
           \/ pc' \in Storing /\ stack' = <<x>>
BY Persists, Tuples DEF Goto, Storing

LEMMA PersistPlaces ==
    ASSUME NEW h, NEW x, NEW y, Persisting(h, <<x, y>>)
    PROVE  \/ pc' = x /\ stack' = <<y>>
           \/ pc' \in Storing /\ stack' = <<x, y>>
BY Persists, Tuples DEF Goto, Storing

LEMMA StopPlace ==
    ASSUME NEW force, NEW x, BeginStop(force, <<x>>)
    PROVE  \/ pc' = x /\ stack' = <<>> /\ active = None /\ ~force
              /\ UNCHANGED <<active, queue, stopping>>
           \/ /\ pc' = "stopping" /\ stack' = <<x>>
              /\ active' = None /\ queue' = <<>>
BY Stops, Tuples DEF Goto

(* Which places come after a result of the policy.                           *)
LEMMA RedeemPlace ==
    ASSUME NEW result, NEW rest, Redeem(result, rest)
    PROVE  \/ /\ result.permit /\ phase' = "attempting"
              /\ BeginStop(FALSE, <<"attempt">>)
           \/ ~result.permit /\ result.ended /\ phase' = phase /\ BeginStop(FALSE, <<"idle">>)
           \/ /\ ~result.permit /\ ~result.ended /\ phase' = phase /\ pc' = "step" /\ stack' = <<>>
              /\ queue' = rest /\ UNCHANGED <<active, stopping>>
<1>1. CASE result.permit
  BY <1>1 DEF Redeem
<1>2. CASE ~result.permit /\ result.ended
  BY <1>2 DEF Redeem
<1>3. CASE ~result.permit /\ ~result.ended
  BY <1>3, Tuples DEF Redeem, Goto
<1> QED BY <1>1, <1>2, <1>3

LEMMA StartPlace ==
    ASSUME NEW back, StartScan(back)
    PROVE  /\ pc' = "starting" /\ stack' = <<back>>
           /\ nextGen' = nextGen + 1 /\ active' = nextGen
           /\ UNCHANGED <<queue, forceStop, stopping>>
           /\ \/ scanner' = scanner /\ radio' = radio
              \/ scanner' /\ radio' = nextGen
<1>1. PICK h : BeginStart(back, h)
  BY DEF StartScan
<1>2. \/ scanner' = scanner /\ radio' = radio
      \/ scanner' /\ radio' = nextGen
  <2>1. CASE scanner \/ stopTask # "none"
    BY <1>1, <2>1 DEF BeginStart, device
  <2>2. CASE ~(scanner \/ stopTask # "none")
    BY <1>1, <2>2 DEF BeginStart
  <2> QED BY <2>1, <2>2
<1> QED BY <1>1, <1>2, Tuples DEF BeginStart, Goto

-----------------------------------------------------------------------------
(* The coroutine keeps to its places.                                        *)

LEMMA AtPlain ==
    ASSUME Control, pc \in Plain \ {"stopfailed"}
    PROVE  stack = <<>>
BY DEF Control, Plain, Waits, Cleanups, Storing

LEMMA AtCleanup ==
    ASSUME Control, pc \in Cleanups \cup {"softdone"}
    PROVE  \E x \in Back : stack = <<x>>
BY DEF Control, Plain, Waits, Cleanups, Storing

LEMMA AtStopping ==
    ASSUME Control, pc = "stopping"
    PROVE  \/ \E x \in {"attempt", "idle", "paused", "cancelled", "raise", "closing"} : stack = <<x>>
           \/ \E x \in Back : stack = <<"softdone", x>>
BY DEF Control, Plain, Waits, Cleanups, Storing

LEMMA AtStoring ==
    ASSUME Control, pc \in Storing
    PROVE  \/ \E x \in {"stopfailed", "raise", "closing", "done", "look", "timer", "pausetimer"} :
                stack = <<x>>
           \/ \E c \in Cleanups \cup {"softdone"}, x \in Back : stack = <<c, x>>
BY DEF Control, Plain, Waits, Cleanups, Storing

LEMMA PlainControl ==
    ASSUME NEW x, x \in Plain, pc' = x, stack' = <<>>
    PROVE  Control'
BY DEF Control

LEMMA StopControl ==
    ASSUME NEW force, NEW x, x \in {"attempt", "idle", "paused", "cancelled", "raise", "closing"},
           BeginStop(force, <<x>>)
    PROVE  Control'
<1>1. CASE pc' = x /\ stack' = <<>>
  BY <1>1 DEF Control, Plain, Waits
<1>2. CASE pc' = "stopping" /\ stack' = <<x>>
  BY <1>2 DEF Control
<1> QED BY <1>1, <1>2, StopPlace

LEMMA PersistControl ==
    ASSUME NEW h, NEW x, x \in {"stopfailed", "raise", "closing", "done", "look", "timer", "pausetimer"},
           Persisting(h, <<x>>)
    PROVE  Control'
<1>1. CASE pc' = x /\ stack' = <<>>
  BY <1>1 DEF Control, Plain, Waits
<1>2. CASE pc' \in Storing /\ stack' = <<x>>
  BY <1>2 DEF Control, Storing
<1> QED BY <1>1, <1>2, PersistPlace

LEMMA PersistsControl ==
    ASSUME NEW h, NEW c \in Cleanups \cup {"softdone"}, NEW x \in Back, Persisting(h, <<c, x>>)
    PROVE  Control'
<1>1. CASE pc' = c /\ stack' = <<x>>
  BY <1>1 DEF Control, Cleanups
<1>2. CASE pc' \in Storing /\ stack' = <<c, x>>
  BY <1>2 DEF Control, Storing
<1> QED BY <1>1, <1>2, PersistPlaces

(* Where a write that has ended returns to.                                  *)
LEMMA StoredControl ==
    ASSUME Control, pc \in Storing, Goto(stack)
    PROVE  Control'
<1>1. ASSUME NEW x \in {"stopfailed", "raise", "closing", "done", "look", "timer", "pausetimer"},
             stack = <<x>>
      PROVE  Control'
  BY <1>1, PlainControl, Tuples DEF Goto, Plain, Waits
<1>2. ASSUME NEW c \in Cleanups \cup {"softdone"}, NEW x \in Back, stack = <<c, x>>
      PROVE  Control'
  BY <1>2, Tuples DEF Goto, Control
<1> QED BY <1>1, <1>2, AtStoring

LEMMA RestoredControl ==
    ASSUME Control, pc \in Storing, NEW h, Persisting(h, stack)
    PROVE  Control'
BY AtStoring, PersistControl, PersistsControl

LEMMA RedeemControl ==
    ASSUME NEW result, NEW rest, Redeem(result, rest)
    PROVE  Control'
<1>1. CASE BeginStop(FALSE, <<"attempt">>) \/ BeginStop(FALSE, <<"idle">>)
  BY <1>1, StopControl
<1>2. CASE pc' = "step" /\ stack' = <<>>
  BY <1>2, PlainControl DEF Plain, Waits
<1> QED BY <1>1, <1>2, RedeemPlace

LEMMA StopFailsControl ==
    ASSUME Control, StopFails
    PROVE  Control'
<1> DEFINE places == <<AfterFailedStop>> \o Tail(stack)
<1>0. pc = "stopping"
  BY DEF StopFails
<1>1. Goto(places) \/ \E h : Persisting(h, places)
  BY DEF StopFails
<1>2. ASSUME NEW x \in {"attempt", "idle", "paused", "cancelled", "raise", "closing"}, stack = <<x>>
      PROVE  Control'
  <2>1. AfterFailedStop \in {"raise", "closing", "stopfailed"} /\ Tail(stack) = <<>>
    BY <1>2, Tuples DEF AfterFailedStop, BestEffort
  <2>2. places = <<AfterFailedStop>>
    BY <2>1, Tuples
  <2> HIDE DEF places
  <2>3. CASE Goto(places)
    BY <2>1, <2>2, <2>3, Tuples, PlainControl DEF Goto, Plain
  <2>4. CASE \E h : Persisting(h, places)
    BY <2>1, <2>2, <2>4, PersistControl
  <2> QED BY <1>1, <2>3, <2>4
<1>3. ASSUME NEW x \in Back, stack = <<"softdone", x>>
      PROVE  Control'
  <2>1. AfterFailedStop = "softdone" /\ Tail(stack) = <<x>>
    BY <1>3, Tuples DEF AfterFailedStop, BestEffort
  <2>2. places = <<"softdone", x>>
    BY <2>1, Tuples
  <2> HIDE DEF places
  <2>3. CASE Goto(places)
    BY <2>2, <2>3, Tuples DEF Goto, Control
  <2>4. CASE \E h : Persisting(h, places)
    BY <2>2, <2>4, PersistsControl
  <2> QED BY <1>1, <2>3, <2>4
<1> QED BY <1>0, <1>2, <1>3, AtStopping

LEMMA StoreFatalControl ==
    ASSUME Control, StoreFatal
    PROVE  \/ pc' = "done" /\ stack' = <<>> /\ Head(stack) = "done"
           \/ /\ pc' = Head(stack) /\ stack' = <<"raise">>
              /\ Head(stack) \in Cleanups \cup {"stopfailed"}
           \/ pc' = "raise" /\ stack' = <<>> /\ Head(stack) \notin Cleanups
<1>1. CASE Head(stack) = "done"
  BY <1>1, Tuples DEF StoreFatal, Goto
<1>2. CASE Head(stack) \in {"softcleanup", "hardcleanup", "stopfailed"}
  <2>1. Goto(<<Head(stack), "raise">>)
    BY <1>2 DEF StoreFatal
  <2> QED BY <1>2, <2>1, Tuples DEF Goto, Cleanups
<1>3. CASE Head(stack) \notin {"done", "softcleanup", "hardcleanup", "stopfailed"}
  BY <1>3, Tuples DEF StoreFatal, Goto, Cleanups
<1> QED BY <1>1, <1>2, <1>3

LEMMA ControlStep ==
    ASSUME Control, [Next]_vars
    PROVE  Control'
<1>1. ASSUME StartOk PROVE Control'
  <2>1. pc = "starting" /\ Goto(stack)
    BY <1>1 DEF StartOk, Return
  <2>2. stack \in {<<"flush">>, <<"idle">>}
    BY <2>1 DEF Control, Plain, Waits, Cleanups, Storing
  <2>3. pc' \in {"flush", "idle"} /\ stack' = <<>>
    BY <2>1, <2>2, Tuples DEF Goto
  <2>4. pc' \in Plain
    BY <2>3 DEF Plain, Waits
  <2> QED BY <2>3, <2>4, PlainControl
<1>2. ASSUME StartFails PROVE Control'
  <2>1. pc = "starting" /\ \E r, h : r \in {"stopped", "failed", "late"}
                                     /\ Persisting(h, <<StartFailed(r)>> \o stack)
    BY <1>2 DEF StartFails
  <2>2. PICK x \in {"flush", "idle"} : stack = <<x>>
    BY <2>1 DEF Control, Plain, Waits, Cleanups, Storing
  <2>3. \A r : StartFailed(r) \in Cleanups /\ <<StartFailed(r)>> \o stack = <<StartFailed(r), x>>
    BY <2>2, Tuples DEF StartFailed, Cleanups
  <2> QED BY <2>1, <2>3, PersistsControl DEF Back
<1>3. ASSUME StartCancelled PROVE Control'
  BY <1>3, Tuples DEF StartCancelled, Goto, Control, Cleanups, Back
<1>4. ASSUME StopOk PROVE Control'
  <2>1. pc = "stopping" /\ Goto(stack)
    BY <1>4 DEF StopOk, Return
  <2>2. ASSUME NEW x \in {"attempt", "idle", "paused", "cancelled", "raise", "closing"}, stack = <<x>>
        PROVE  Control'
    BY <2>1, <2>2, Tuples, PlainControl DEF Goto, Plain, Waits
  <2>3. ASSUME NEW x \in Back, stack = <<"softdone", x>>
        PROVE  Control'
    BY <2>1, <2>3, Tuples DEF Goto, Control
  <2> QED BY <2>1, <2>2, <2>3, AtStopping
<1>5. ASSUME StopFails PROVE Control'
  BY <1>5, StopFailsControl
<1>6. ASSUME StopCancelled PROVE Control'
  BY <1>6, Tuples, PlainControl DEF StopCancelled, Goto, Plain
<1>7. ASSUME CleanupStart PROVE Control'
  <2>1. PICK x \in Back : stack = <<x>>
    BY <1>7, AtCleanup DEF CleanupStart, Cleanups
  <2>2. <<"softdone">> \o stack = <<"softdone", x>>
    BY <2>1, Tuples
  <2>3. CASE BeginStop(TRUE, <<"raise">>)
    BY <2>3, StopControl
  <2>4. CASE BeginStop(TRUE, <<"softdone">> \o stack)
    <3>1. pc' = "stopping" /\ stack' = <<"softdone", x>>
      BY <2>2, <2>4, Stops
    <3> QED BY <3>1 DEF Control
  <2> QED BY <1>7, <2>3, <2>4 DEF CleanupStart
<1>8. ASSUME SoftDone PROVE Control'
  <2>1. PICK x \in Back : stack = <<x>>
    BY <1>8, AtCleanup DEF SoftDone
  <2> QED BY <1>8, <2>1, Tuples, PlainControl DEF SoftDone, Return, Goto, Back, Plain, Waits
<1>9. ASSUME CloseAfterStopFailure \/ Close PROVE Control'
  BY <1>9, StopControl DEF CloseAfterStopFailure, Close
<1>10. ASSUME CloseFlush PROVE Control'
  BY <1>10, PersistControl DEF CloseFlush
<1>11. ASSUME OpenOk \/ ResolveOk PROVE Control'
  BY <1>11, RestoredControl DEF OpenOk, ResolveOk, Storing
<1>12. ASSUME StoreFails PROVE Control'
  BY <1>12, StoredControl DEF StoreFails, Return, Storing
<1>13. ASSUME StoreFatal PROVE Control'
  <2>1. CASE pc' \in {"done", "raise"} /\ stack' = <<>>
    BY <2>1 DEF Control, Plain
  <2>2. CASE pc' \in Cleanups \cup {"stopfailed"} /\ stack' = <<"raise">>
    BY <2>2 DEF Control, Cleanups, Back
  <2> QED BY <1>13, <2>1, <2>2, StoreFatalControl
<1>14. ASSUME WaitForAttempt \/ WaitOutPause \/ YieldBeforePause \/ ScanIsPaused \/ EnterWait
              \/ WaitChanged \/ WaitCancelled \/ EndRun
       PROVE  Control'
  <2>1. pc' \in {"step", "pausewait", "yield", "timer", "wait", "raise"} /\ stack' = <<>>
    BY <1>14, Tuples DEF WaitForAttempt, WaitOutPause, YieldBeforePause, ScanIsPaused, EnterWait,
       WaitChanged, WaitCancelled, EndRun, Goto
  <2> QED BY <2>1, PlainControl DEF Plain, Waits
<1>15. ASSUME StepStarts PROVE Control'
  BY <1>15, StartPlace DEF StepStarts, Control
<1>16. ASSUME StepScans \/ Flush PROVE Control'
  BY <1>16, PersistControl DEF StepScans, Flush
<1>17. ASSUME TakeAdvertisement PROVE Control'
  BY <1>17, RedeemControl DEF TakeAdvertisement
<1>18. ASSUME PauseScan PROVE Control'
  <2>1. BeginStop(FALSE, <<"paused">>) \/ \E r, q : Redeem(r, q)
    BY <1>18 DEF PauseScan
  <2> QED BY <2>1, RedeemControl, StopControl
<1>19. ASSUME WaitTimesOut PROVE Control'
  <2> DEFINE x == IF pc = "wait" THEN "timer" ELSE "pausetimer"
  <2>1. x \in {"timer", "pausetimer"}
    OBVIOUS
  <2>2. Goto(<<x>>) \/ \E h : Persisting(h, <<x>>)
    BY <1>19 DEF WaitTimesOut
  <2> HIDE DEF x
  <2>3. CASE Goto(<<x>>)
    BY <2>1, <2>3, Tuples, PlainControl DEF Goto, Plain, Waits
  <2>4. CASE \E h : Persisting(h, <<x>>)
    BY <2>1, <2>4, PersistControl
  <2> QED BY <2>2, <2>3, <2>4
<1>20. ASSUME TimerFires PROVE Control'
  BY <1>20, RedeemControl DEF TimerFires
<1>21. ASSUME CancelWait PROVE Control'
  BY <1>21, StopControl DEF CancelWait
<1>22. ASSUME FinishAttempt PROVE Control'
  <2>1. Goto(<<"idle">>) \/ StartScan("idle")
    BY <1>22 DEF FinishAttempt
  <2>2. CASE Goto(<<"idle">>)
    BY <2>2, Tuples, PlainControl DEF Goto, Plain
  <2>3. CASE StartScan("idle")
    BY <2>3, StartPlace DEF Control
  <2> QED BY <2>1, <2>2, <2>3
<1>23. ASSUME LateStop \/ Detect \/ Deliver \/ Tick \/ UNCHANGED vars PROVE Control'
  <2>1. UNCHANGED <<pc, stack>>
    BY <1>23 DEF LateStop, Detect, Deliver, Tick, vars
  <2> QED BY <2>1 DEF Control
<1> QED BY <1>1, <1>2, <1>3, <1>4, <1>5, <1>6, <1>7, <1>8, <1>9, <1>10, <1>11, <1>12, <1>13, <1>14,
           <1>15, <1>16, <1>17, <1>18, <1>19, <1>20, <1>21, <1>22, <1>23 DEF Next

-----------------------------------------------------------------------------
(* The phase and the radio.                                                  *)

LEMMA PlaceAt ==
    ASSUME NEW x, x \notin Storing, pc' = x
    PROVE  Place' = x
BY DEF Place

LEMMA PersistAt ==
    ASSUME NEW h, NEW x, x \notin Storing, Persisting(h, <<x>>)
    PROVE  Place' = x /\ pc' \in {x} \cup Storing
<1>1. CASE pc' = x /\ stack' = <<>>
  BY <1>1, PlaceAt
<1>2. CASE pc' \in Storing /\ stack' = <<x>>
  BY <1>2, Tuples DEF Place, Storing
<1> QED BY <1>1, <1>2, PersistPlace

LEMMA PersistsAt ==
    ASSUME NEW h, NEW x, NEW y, x \notin Storing, Persisting(h, <<x, y>>)
    PROVE  Place' = x /\ pc' \in {x} \cup Storing
<1>1. CASE pc' = x
  BY <1>1, PlaceAt
<1>2. CASE pc' \in Storing /\ stack' = <<x, y>>
  BY <1>2, Tuples DEF Place, Storing
<1> QED BY <1>1, <1>2, PersistPlaces

(* A step to a place that is no start and no stop.                            *)
LEMMA StageAt ==
    ASSUME Place' \notin {"starting", "stopping"}, pc' \in {Place'} \cup Storing,
           stopping' = NoStop,
           Place' \in Waits \cup {"idle", "softcleanup", "softdone"} => phase' = "waiting",
           Place' \in {"closing", "done"} => phase' = "closed",
           phase' = "attempting" => Place' \in {"stopfailed", "raise"} \/ pc' = "attempt",
           Place' \in Cleanups \cup {"attempt"} => active' = None,
           Place' = "attempt" => phase' = "attempting"
    PROVE  Stage'
<1>1. pc' # "stopping" /\ pc' # "starting" /\ (pc' = "attempt" => Place' = "attempt")
  BY DEF Storing
<1> QED BY <1>1 DEF Stage

(* A step to an await of observer.stop.                                       *)
LEMMA StageStopping ==
    ASSUME NEW x, pc' = "stopping", Head(stack') = x, active' = None,
           x \in {"idle", "paused", "softdone"} => phase' = "waiting",
           x \in {"closing", "raise"} => phase' = "closed",
           phase' = "attempting" <=> x = "attempt"
    PROVE  Stage'
<1>1. Place' = "stopping"
  BY DEF Place, Storing
<1> QED BY <1>1 DEF Stage, Waits, Cleanups

(* A step that begins a stop on the way to x.                                 *)
LEMMA StageStop ==
    ASSUME NEW force, NEW x \in {"attempt", "idle", "paused", "cancelled", "raise", "closing"},
           Stage, pc \notin {"stopping"}, BeginStop(force, <<x>>),
           x \in {"idle", "paused"} => phase' = "waiting",
           x \in {"closing", "raise"} => phase' = "closed",
           phase' = "attempting" <=> x = "attempt"
    PROVE  Stage'
<1>1. CASE pc' = "stopping" /\ stack' = <<x>> /\ active' = None
  BY <1>1, StageStopping, Tuples
<1>2. CASE pc' = x /\ active = None /\ UNCHANGED <<active, stopping>>
  <2>1. Place' = x
    BY <1>2, PlaceAt DEF Storing
  <2>2. stopping' = NoStop /\ active' = None
    BY <1>2 DEF Stage
  <2> QED BY <1>2, <2>1, <2>2, StageAt DEF Waits, Cleanups
<1> QED BY <1>1, <1>2, StopPlace

(* A result of the policy, in the waiting phase.                              *)
LEMMA StageRedeem ==
    ASSUME NEW result, NEW rest, Stage, pc # "stopping", phase = "waiting", Redeem(result, rest)
    PROVE  Stage'
<1>1. CASE phase' = "attempting" /\ BeginStop(FALSE, <<"attempt">>)
  BY <1>1, StageStop
<1>2. CASE phase' = phase /\ BeginStop(FALSE, <<"idle">>)
  BY <1>2, StageStop
<1>3. CASE phase' = phase /\ pc' = "step" /\ UNCHANGED stopping
  <2>1. Place' = "step"
    BY <1>3, PlaceAt DEF Storing
  <2> QED BY <1>3, <2>1, StageAt DEF Stage, Cleanups
<1> QED BY <1>1, <1>2, <1>3, RedeemPlace

(* What a write returns to is the place it was made for.                      *)
LEMMA StoredPlace ==
    ASSUME Control, pc \in Storing, Goto(stack) \/ \E h : Persisting(h, stack)
    PROVE  /\ Place' = Place /\ pc' \in {Place'} \cup Storing
           /\ Place \in {"stopfailed", "raise", "closing", "done", "look", "timer", "pausetimer", "softdone"}
                        \cup Cleanups
<1>1. Place = Head(stack)
  BY DEF Place
<1>2. ASSUME NEW x \in {"stopfailed", "raise", "closing", "done", "look", "timer", "pausetimer"},
             stack = <<x>>
      PROVE  Place = x /\ Place' = x /\ pc' \in {x} \cup Storing
  <2>1. x \notin Storing /\ Place = x
    BY <1>1, <1>2, Tuples DEF Storing
  <2>2. CASE Goto(stack)
    BY <1>2, <2>1, <2>2, Tuples, PlaceAt DEF Goto
  <2>3. CASE \E h : Persisting(h, stack)
    BY <1>2, <2>1, <2>3, PersistAt
  <2> QED BY <2>1, <2>2, <2>3
<1>3. ASSUME NEW c \in Cleanups \cup {"softdone"}, NEW x \in Back, stack = <<c, x>>
      PROVE  Place = c /\ Place' = c /\ pc' \in {c} \cup Storing
  <2>1. c \notin Storing /\ Place = c
    BY <1>1, <1>3, Tuples DEF Storing, Cleanups
  <2>2. CASE Goto(stack)
    BY <1>3, <2>1, <2>2, Tuples, PlaceAt DEF Goto
  <2>3. CASE \E h : Persisting(h, stack)
    BY <1>3, <2>1, <2>3, PersistsAt
  <2> QED BY <2>1, <2>2, <2>3
<1> QED BY <1>2, <1>3, AtStoring

LEMMA StageStored ==
    ASSUME Stage, Control, pc \in Storing, UNCHANGED <<phase, active, stopping>>,
           Goto(stack) \/ \E h : Persisting(h, stack)
    PROVE  Stage'
<1>1. pc \notin {"stopping", "attempt", "starting"} /\ stopping = NoStop
  BY DEF Storing, Stage
<1>2. Place' \notin {"starting", "stopping", "attempt"}
  BY StoredPlace DEF Cleanups
<1>3. /\ Place' \in Waits \cup {"idle", "softcleanup", "softdone"} => phase' = "waiting"
      /\ Place' \in {"closing", "done"} => phase' = "closed"
      /\ phase' = "attempting" => Place' \in {"stopfailed", "raise"}
      /\ Place' \in Cleanups => active' = None
  BY <1>1, StoredPlace DEF Stage
<1> QED BY <1>1, <1>2, <1>3, StoredPlace, StageAt

LEMMA StopFailsPlace ==
    ASSUME Control, StopFails
    PROVE  /\ Place' = AfterFailedStop /\ pc' \in {Place'} \cup Storing
           /\ \/ AfterFailedStop = "stopfailed"
              \/ AfterFailedStop = Head(stack) /\ Head(stack) \in {"softdone", "raise", "closing"}
<1> DEFINE places == <<AfterFailedStop>> \o Tail(stack)
<1>1. pc = "stopping" /\ (Goto(places) \/ \E h : Persisting(h, places))
  BY DEF StopFails
<1>2. /\ \/ AfterFailedStop = "stopfailed"
         \/ AfterFailedStop = Head(stack) /\ Head(stack) \in {"softdone", "raise", "closing"}
      /\ AfterFailedStop \notin Storing
  BY DEF AfterFailedStop, BestEffort, Storing
<1>3. Tail(stack) = <<>> \/ \E x \in Back : Tail(stack) = <<x>>
  BY ZenonT(30), <1>1, AtStopping, Tuples
<1>4. ASSUME NEW x, places = <<AfterFailedStop, x>>
      PROVE  Place' = AfterFailedStop /\ pc' \in {Place'} \cup Storing
  <2>1. CASE Goto(places)
    BY <1>2, <1>4, <2>1, Tuples, PlaceAt DEF Goto
  <2>2. CASE \E h : Persisting(h, places)
    BY <1>2, <1>4, <2>2, PersistsAt
  <2> QED BY <1>1, <2>1, <2>2
<1>5. ASSUME places = <<AfterFailedStop>>
      PROVE  Place' = AfterFailedStop /\ pc' \in {Place'} \cup Storing
  <2>1. CASE Goto(places)
    BY <1>2, <1>5, <2>1, Tuples, PlaceAt DEF Goto
  <2>2. CASE \E h : Persisting(h, places)
    BY <1>2, <1>5, <2>2, PersistAt
  <2> QED BY <1>1, <2>1, <2>2
<1>6. places = <<AfterFailedStop>> \/ \E x : places = <<AfterFailedStop, x>>
  BY <1>3, Tuples
<1> HIDE DEF places
<1> QED BY <1>2, <1>4, <1>5, <1>6

LEMMA StoreFatalPlace ==
    ASSUME Control, StoreFatal
    PROVE  Place' = pc' /\ pc' \in Cleanups \cup {"done", "stopfailed", "raise"}
           /\ (pc' # "raise" => pc' = Place)
           /\ (pc' = "raise" => Place \notin Cleanups) /\ Place # "stopping"
<1>1. Place = Head(stack)
  BY DEF StoreFatal, Place, Storing
<1>2. pc' \in Cleanups \cup {"done", "stopfailed", "raise"} /\ (pc' # "raise" => pc' = Place)
  BY <1>1, StoreFatalControl
<1>3. (pc' = "raise" => Place \notin Cleanups) /\ Place # "stopping"
  <2>1. pc' = "raise" => Place \notin Cleanups
    BY <1>1, StoreFatalControl DEF Cleanups
  <2>2. Place # "stopping"
    BY <1>1, AtStoring, Tuples DEF StoreFatal, Storing, Cleanups
  <2> QED BY <2>1, <2>2
<1> QED BY <1>2, <1>3 DEF Place, Storing, Cleanups

LEMMA StageStep ==
    ASSUME Control, Stage, nextGen \in Nat, [Next]_vars
    PROVE  Stage'
<1>1. ASSUME StartOk PROVE Stage'
  <2>1. pc = "starting" /\ Goto(stack) /\ UNCHANGED <<phase, stopping>>
    BY <1>1 DEF StartOk, Return, policy
  <2>2. stack \in {<<"flush">>, <<"idle">>}
    BY <2>1 DEF Control, Plain, Waits, Cleanups, Storing
  <2>3. pc' \in {"flush", "idle"} /\ Place' = pc'
    BY <2>1, <2>2, Tuples, PlaceAt DEF Goto, Storing
  <2>4. phase' = "waiting" /\ stopping' = NoStop
    BY <2>1 DEF Stage, Place, Storing
  <2> QED BY <2>3, <2>4, StageAt DEF Cleanups
<1>2. ASSUME StartFails PROVE Stage'
  <2>1. pc = "starting" /\ active' = None /\ UNCHANGED <<phase, stopping>>
        /\ \E r, h : r \in {"stopped", "failed", "late"} /\ Persisting(h, <<StartFailed(r)>> \o stack)
    BY <1>2 DEF StartFails, policy
  <2>2. PICK x \in {"flush", "idle"} : stack = <<x>>
    BY <2>1 DEF Control, Plain, Waits, Cleanups, Storing
  <2>3. \A r : StartFailed(r) \in Cleanups /\ <<StartFailed(r)>> \o stack = <<StartFailed(r), x>>
    BY <2>2, Tuples DEF StartFailed, Cleanups
  <2>4. Place' \in Cleanups /\ pc' \in {Place'} \cup Storing
    <3>1. PICK r, h : Persisting(h, <<StartFailed(r)>> \o stack)
      BY <2>1
    <3>2. Persisting(h, <<StartFailed(r), x>>) /\ StartFailed(r) \in Cleanups
      BY <3>1, <2>3
    <3>3. StartFailed(r) \notin Storing
      BY <3>2 DEF Cleanups, Storing
    <3> QED BY <3>2, <3>3, PersistsAt
  <2>5. phase' = "waiting" /\ stopping' = NoStop
    BY <2>1 DEF Stage, Place, Storing
  <2> QED BY <2>1, <2>4, <2>5, StageAt DEF Cleanups
<1>3. ASSUME StartCancelled PROVE Stage'
  <2>1. pc = "starting" /\ pc' = "softcleanup" /\ active' = None /\ UNCHANGED <<phase, stopping>>
    BY <1>3, Tuples DEF StartCancelled, policy, Goto
  <2>2. Place' = "softcleanup" /\ phase' = "waiting" /\ stopping' = NoStop
    BY <2>1 DEF Stage, Place, Storing
  <2> QED BY <2>1, <2>2, StageAt
<1>4. ASSUME StopOk PROVE Stage'
  <2>1. pc = "stopping" /\ Goto(stack) /\ stopping' = NoStop /\ UNCHANGED <<phase, active>>
    BY <1>4 DEF StopOk, Return, policy
  <2>2. pc' = Head(stack)
        /\ pc' \in {"attempt", "idle", "paused", "cancelled", "raise", "closing", "softdone"}
    BY <2>1, AtStopping, Tuples DEF Goto
  <2>3. Place' = pc' /\ Place = "stopping"
    BY <2>1, <2>2 DEF Place, Storing
  <2>4. active' = None
        /\ (pc' \in {"idle", "paused", "softdone"} => phase' = "waiting")
        /\ (pc' \in {"closing", "raise"} => phase' = "closed")
        /\ (phase' = "attempting" <=> pc' = "attempt")
    BY <2>1, <2>2, <2>3 DEF Stage
  <2> QED BY <2>1, <2>2, <2>3, <2>4, StageAt DEF Waits
<1>5. ASSUME StopFails PROVE Stage'
  <2>1. pc = "stopping" /\ stopping' = NoStop /\ UNCHANGED <<phase, active>>
    BY <1>5 DEF StopFails, policy
  <2>2. Place' \in {"stopfailed", "softdone", "raise", "closing"} /\ pc' \in {Place'} \cup Storing
        /\ (Place' # "stopfailed" => Place' = Head(stack)) /\ Place = "stopping"
    BY <1>5, <2>1, StopFailsPlace DEF Place, Storing
  <2>3. (Place' = "softdone" => phase' = "waiting")
        /\ (Place' \in {"closing", "raise"} => phase' = "closed")
    BY <2>1, <2>2 DEF Stage
  <2> QED BY <2>1, <2>2, <2>3, StageAt DEF Waits, Cleanups
<1>6. ASSUME StopCancelled PROVE Stage'
  <2>1. pc' = "stopfailed" /\ phase' = "closed" /\ stopping' = NoStop
    BY <1>6, Tuples DEF StopCancelled, Goto
  <2> QED BY <2>1, PlaceAt, StageAt DEF Storing, Waits, Cleanups
<1>7. ASSUME CleanupStart PROVE Stage'
  <2>1. CASE pc = "hardcleanup" /\ phase' = "closed" /\ BeginStop(TRUE, <<"raise">>)
    BY <2>1, StageStop
  <2>2. CASE pc = "softcleanup" /\ BeginStop(TRUE, <<"softdone">> \o stack) /\ UNCHANGED phase
    <3>1. PICK x \in Back : stack = <<x>>
      BY <2>2, AtCleanup DEF Cleanups
    <3>2. pc' = "stopping" /\ stack' = <<"softdone", x>> /\ active' = None
      BY <2>2, <3>1, Stops, Tuples
    <3>3. phase' = "waiting"
      BY <2>2 DEF Stage, Place, Storing
    <3> QED BY <3>2, <3>3, Tuples, StageStopping
  <2> QED BY <1>7, <2>1, <2>2 DEF CleanupStart
<1>8. ASSUME SoftDone PROVE Stage'
  <2>1. PICK x \in Back : stack = <<x>>
    BY <1>8, AtCleanup DEF SoftDone
  <2>2. pc = "softdone" /\ pc' = x /\ UNCHANGED <<phase, stopping>>
    BY <1>8, <2>1, Tuples DEF SoftDone, Return, Goto, policy, scan
  <2>3. phase' = "waiting" /\ stopping' = NoStop
    BY <2>2 DEF Stage, Place, Storing
  <2>4. Place' = x
    BY <2>2, PlaceAt DEF Back, Storing
  <2> QED BY <2>2, <2>3, <2>4, StageAt DEF Back, Cleanups
<1>9. ASSUME CloseAfterStopFailure \/ Close PROVE Stage'
  <2>1. pc # "stopping" /\ phase' = "closed"
        /\ \E f : BeginStop(f, <<"raise">>) \/ BeginStop(f, <<"closing">>)
    BY <1>9 DEF CloseAfterStopFailure, Close
  <2> QED BY <2>1, StageStop
<1>10. ASSUME CloseFlush PROVE Stage'
  <2>1. pc = "closing" /\ Persisting(health, <<"done">>) /\ UNCHANGED <<phase, active, stopping>>
    BY <1>10 DEF CloseFlush, policy, scan
  <2>2. phase' = "closed" /\ stopping' = NoStop
    BY <2>1 DEF Stage, Place, Storing
  <2>3. Place' = "done" /\ pc' \in {Place'} \cup Storing
    BY <2>1, PersistAt DEF Storing
  <2> QED BY <2>2, <2>3, StageAt DEF Waits, Cleanups
<1>11. ASSUME OpenOk \/ ResolveOk \/ StoreFails PROVE Stage'
  <2>1. pc \in Storing /\ UNCHANGED <<phase, active, stopping>>
        /\ (Goto(stack) \/ \E h : Persisting(h, stack))
    BY <1>11 DEF OpenOk, ResolveOk, StoreFails, StoreIdle, policy, scan, Return, Storing
  <2> QED BY <2>1, StageStored
<1>12. ASSUME StoreFatal PROVE Stage'
  <2>1. pc \in Storing /\ UNCHANGED <<phase, active, stopping>>
    BY <1>12 DEF StoreFatal, StoreIdle, policy, scan, Storing
  <2>2. stopping' = NoStop
    BY <2>1 DEF Stage, Storing
  <2>3. /\ Place' = pc' /\ pc' \in Cleanups \cup {"done", "stopfailed", "raise"}
        /\ pc' # "raise" => pc' = Place
    BY <1>12, StoreFatalPlace
  <2>4. /\ Place' \in Waits \cup {"idle", "softcleanup", "softdone"} => phase' = "waiting"
        /\ Place' \in {"closing", "done"} => phase' = "closed"
        /\ phase' = "attempting" => Place' \in {"stopfailed", "raise"}
        /\ Place' \in Cleanups \cup {"attempt"} => active' = None
    BY <2>1, <2>3 DEF Stage, Waits, Cleanups, Storing
  <2> QED BY <2>2, <2>3, <2>4, StageAt DEF Cleanups
<1>13. ASSUME WaitForAttempt \/ WaitOutPause \/ YieldBeforePause \/ ScanIsPaused \/ EnterWait
              \/ WaitChanged
       PROVE  Stage'
  <2>1. pc \in Waits \cup {"idle"} /\ pc' \in {"step", "pausewait", "yield", "timer", "wait"}
        /\ UNCHANGED <<phase, stopping>>
    BY <1>13, Tuples DEF WaitForAttempt, WaitOutPause, YieldBeforePause, ScanIsPaused, EnterWait,
       WaitChanged, Goto, policy, Waits
  <2>2. phase' = "waiting" /\ stopping' = NoStop
    BY <2>1 DEF Stage, Place, Storing, Waits
  <2>3. Place' = pc'
    BY <2>1, PlaceAt DEF Storing
  <2> QED BY <2>1, <2>2, <2>3, StageAt DEF Cleanups
<1>14. ASSUME WaitCancelled \/ EndRun PROVE Stage'
  <2>1. pc \in {"cancelled", "idle", "attempt"} /\ pc' = "raise" /\ UNCHANGED stopping
    BY <1>14, Tuples DEF WaitCancelled, EndRun, Goto
  <2>2. Place' = "raise" /\ stopping' = NoStop
    BY <2>1, PlaceAt DEF Stage, Storing
  <2> QED BY <2>1, <2>2, StageAt DEF Waits, Cleanups
<1>15. ASSUME StepStarts \/ FinishAttempt PROVE Stage'
  <2>1. pc \in {"step", "attempt"} /\ phase' = "waiting"
        /\ \/ \E b : StartScan(b)
           \/ Goto(<<"idle">>) /\ UNCHANGED stopping
    <3>1. CASE StepStarts
      BY <1>15, <3>1 DEF StepStarts, policy, Stage, Place, Storing, Waits
    <3>2. CASE FinishAttempt
      BY <3>2 DEF FinishAttempt, scan
    <3> QED BY <1>15, <3>1, <3>2
  <2>2. stopping = NoStop
    BY <2>1 DEF Stage
  <2>3. CASE Goto(<<"idle">>) /\ UNCHANGED stopping
    BY <2>1, <2>2, <2>3, PlaceAt, StageAt, Tuples DEF Goto, Storing, Cleanups
  <2>4. ASSUME NEW b, StartScan(b) PROVE Stage'
    <3>1. pc' = "starting" /\ stopping' = NoStop /\ active' # None
      <4>1. pc' = "starting" /\ stopping' = stopping /\ active' = nextGen
        BY <2>4, StartPlace
      <4>2. nextGen # None
        BY DEF None
      <4> QED BY <2>2, <4>1, <4>2
    <3>2. Place' = "starting"
      BY <3>1, PlaceAt DEF Storing
    <3> QED BY <2>1, <3>1, <3>2 DEF Stage, Cleanups
  <2> QED BY <2>1, <2>3, <2>4
<1>16. ASSUME StepScans \/ Flush PROVE Stage'
  <2>1. pc \in {"step", "flush"} /\ Persisting(health, <<"look">>) /\ UNCHANGED <<phase, stopping>>
    BY <1>16 DEF StepScans, Flush, policy
  <2>2. phase' = "waiting" /\ stopping' = NoStop
    BY <2>1 DEF Stage, Place, Storing, Waits
  <2>3. Place' = "look" /\ pc' \in {Place'} \cup Storing
    BY <2>1, PersistAt DEF Storing
  <2> QED BY <2>2, <2>3, StageAt DEF Cleanups
<1>17. ASSUME TakeAdvertisement \/ PauseScan \/ TimerFires PROVE Stage'
  <2>1. pc \in Waits
    BY <1>17 DEF TakeAdvertisement, PauseScan, TimerFires, Waits
  <2>2. pc # "stopping" /\ phase = "waiting"
    BY <2>1 DEF Stage, Place, Storing, Waits
  <2>3. (\E r, q : Redeem(r, q)) \/ (BeginStop(FALSE, <<"paused">>) /\ UNCHANGED phase)
    BY <1>17 DEF TakeAdvertisement, PauseScan, TimerFires
  <2> QED BY <2>2, <2>3, StageRedeem, StageStop
<1>18. ASSUME WaitTimesOut PROVE Stage'
  <2> DEFINE x == IF pc = "wait" THEN "timer" ELSE "pausetimer"
  <2>1. /\ x \in {"timer", "pausetimer"} /\ pc \in {"wait", "pausewait"}
        /\ UNCHANGED <<phase, stopping>>
    BY <1>18 DEF WaitTimesOut, policy, scan
  <2>2. Goto(<<x>>) \/ \E h : Persisting(h, <<x>>)
    BY <1>18 DEF WaitTimesOut
  <2> HIDE DEF x
  <2>3. Place' = x /\ pc' \in {Place'} \cup Storing
    BY <2>1, <2>2, PersistAt, PlaceAt, Tuples DEF Goto, Storing
  <2>4. phase' = "waiting" /\ stopping' = NoStop
    BY <2>1 DEF Stage, Place, Storing, Waits
  <2> QED BY <2>1, <2>3, <2>4, StageAt DEF Cleanups
<1>19. ASSUME CancelWait PROVE Stage'
  <2>1. pc \in {"wait", "pausewait"} /\ BeginStop(FALSE, <<"cancelled">>) /\ UNCHANGED phase
    BY <1>19 DEF CancelWait, policy
  <2>2. phase = "waiting"
    BY <2>1 DEF Stage, Place, Storing, Waits
  <2> QED BY <2>1, <2>2, StageStop
<1>20. ASSUME LateStop \/ Detect \/ Deliver \/ Tick \/ UNCHANGED vars PROVE Stage'
  <2>1. UNCHANGED <<pc, stack, phase, active, stopping>>
    BY <1>20 DEF LateStop, Detect, Deliver, Tick, vars, policy, scan
  <2> QED BY <2>1 DEF Stage, Place
<1> QED BY <1>1, <1>2, <1>3, <1>4, <1>5, <1>6, <1>7, <1>8, <1>9, <1>10, <1>11, <1>12, <1>13, <1>14,
           <1>15, <1>16, <1>17, <1>18, <1>19, <1>20 DEF Next

(* Only an advertisement earns a permit.                                      *)
LEMMA TimerNoPermit ==
    ASSUME NEW s, NEW t, NEW d
    PROVE  ~HandleTimer(s, t, d).permit /\ ~Observe(s).permit
<1>1. \A x : Observe(x).permit = FALSE
  BY DEF Observe
<1>2. EndVisit(t).permit = FALSE
  BY DEF EndVisit, Observe
<1>3. HandleRetryTimer(s, t).permit = FALSE
  BY <1>1, <1>2 DEF HandleRetryTimer
<1> QED BY <1>1, <1>3 DEF HandleTimer

LEMMA ReleasedFrame ==
    ASSUME Released, UNCHANGED <<nextGen, callback, scanner, radio, active, queue, forceStop>>,
           Place \notin Cleanups \cup {"stopping"} \/ Place' \in Cleanups,
           Place' # "attempt", Place' \in {"closing", "done"} => Place \in {"closing", "done"}
    PROVE  Released'
<1>1. pc' # "attempt"
  BY DEF Place, Storing
<1> QED BY <1>1 DEF Released, Cleanups

(* A step that begins a stop on the way to x.                                 *)
LEMMA ReleasedStop ==
    ASSUME NEW force, NEW x \in {"attempt", "idle", "paused", "cancelled", "raise", "closing"},
           Stage, Released, BeginStop(force, <<x>>), pc \notin Storing \cup {"stopping"},
           UNCHANGED <<nextGen, callback, scanner, radio>>, forceStop => forceStop',
           pc \notin Cleanups \/ force,
           x = "attempt" => active # None,
           x = "closing" /\ ~force => ~forceStop
    PROVE  Released'
<1>1. CASE pc' = "stopping" /\ active' = None /\ queue' = <<>>
  <2>1. Place' = "stopping"
    BY <1>1, PlaceAt DEF Storing
  <2> QED BY <1>1, <2>1 DEF Released
<1>2. CASE pc' = x /\ active = None /\ ~force /\ UNCHANGED <<active, queue, stopping>>
  <2>1. Place' = x /\ Place = pc
    BY <1>2, PlaceAt DEF Storing, Place
  <2>2. pc' # "attempt" /\ x # "done"
    BY <1>2
  <2>3. radio # None => forceStop
    BY <1>2, <2>1 DEF Released
  <2> QED BY <1>2, <2>1, <2>2, <2>3 DEF Released, Cleanups
<1> QED BY <1>1, <1>2, StopPlace

LEMMA ReleasedRedeem ==
    ASSUME NEW result, NEW rest, Stage, Released, Redeem(result, rest), pc \in Waits,
           UNCHANGED <<nextGen, callback, scanner, radio, forceStop>>,
           result.permit => queue # <<>>,
           rest # <<>> => queue # <<>>
    PROVE  Released'
<1>0. pc \notin Storing \cup {"stopping"} /\ pc \notin Cleanups /\ Place = pc
  BY DEF Waits, Storing, Cleanups, Place
<1>1. CASE result.permit /\ BeginStop(FALSE, <<"attempt">>)
  <2>1. active # None
    BY <1>0, <1>1 DEF Released
  <2> QED BY <1>0, <1>1, <2>1, ReleasedStop
<1>2. CASE BeginStop(FALSE, <<"idle">>)
  BY <1>0, <1>2, ReleasedStop
<1>3. CASE pc' = "step" /\ queue' = rest /\ UNCHANGED active
  <2>1. Place' = "step"
    BY <1>3, PlaceAt DEF Storing
  <2> QED BY <1>0, <1>3, <2>1 DEF Released, Waits
<1> QED BY <1>1, <1>2, <1>3, RedeemPlace

(* A start takes the radio, or finds it held by a scan whose stop is owed.     *)
LEMMA ReleasedStart ==
    ASSUME NEW back, Released, Stage, StartScan(back), pc \in {"step", "attempt"}, active = None,
           UNCHANGED callback
    PROVE  Released'
<1>1. /\ pc' = "starting" /\ nextGen' = nextGen + 1 /\ active' = nextGen
      /\ UNCHANGED <<queue, forceStop>>
  BY StartPlace
<1>2. (scanner' = scanner /\ radio' = radio) \/ (scanner' /\ radio' = nextGen)
  BY StartPlace
<1>3. nextGen \in Nat /\ nextGen' \in Nat /\ nextGen # None
  BY <1>1 DEF Released, None
<1>4. Place' = "starting" /\ Place \in {"step", "attempt"}
  BY <1>1, PlaceAt DEF Storing, Place
<1>5. radio # None => forceStop
  BY <1>4 DEF Released, Cleanups
<1> QED BY <1>1, <1>2, <1>3, <1>4, <1>5 DEF Released

LEMMA ReleasedStep ==
    ASSUME Control, Stage, Released, [Next]_vars
    PROVE  Released'
<1>1. ASSUME StartOk PROVE Released'
  <2>1. pc = "starting" /\ Goto(stack)
        /\ UNCHANGED <<nextGen, callback, scanner, radio, active, queue, forceStop>>
    BY <1>1 DEF StartOk, Return, device
  <2>2. stack \in {<<"flush">>, <<"idle">>}
    BY <2>1 DEF Control, Plain, Waits, Cleanups, Storing
  <2>3. Place' \in {"flush", "idle"} /\ Place = "starting"
    BY <2>1, <2>2, Tuples, PlaceAt DEF Goto, Storing, Place
  <2> QED BY <2>1, <2>3, ReleasedFrame DEF Cleanups
<1>2. ASSUME StartFails \/ StartCancelled PROVE Released'
  <2>1. pc = "starting" /\ active' = None /\ UNCHANGED <<nextGen, queue, callback, forceStop>>
        /\ \E r \in {"stopped", "failed", "late"} : StartAbandoned(r)
    BY <1>2 DEF StartFails, StartCancelled
  <2>2. Place' \in Cleanups
    <3>1. CASE StartCancelled
      BY <3>1, Tuples, PlaceAt DEF StartCancelled, Goto, Storing, Cleanups
    <3>2. CASE StartFails
      <4>1. PICK r, h : Persisting(h, <<StartFailed(r)>> \o stack)
        BY <3>2 DEF StartFails
      <4>2. PICK x \in {"flush", "idle"} : stack = <<x>>
        BY <2>1 DEF Control, Plain, Waits, Cleanups, Storing
      <4>3. StartFailed(r) \in Cleanups /\ StartFailed(r) \notin Storing
        BY DEF StartFailed, Cleanups, Storing
      <4>4. Persisting(h, <<StartFailed(r), x>>)
        BY <4>1, <4>2, Tuples
      <4> QED BY <4>3, <4>4, PersistsAt
    <3> QED BY <1>2, <3>1, <3>2
  <2>3. UNCHANGED <<scanner, radio>> \/ radio' = None
    BY <2>1 DEF StartAbandoned, device
  <2>4. pc' # "attempt"
    BY <2>2 DEF Place, Cleanups, Storing
  <2> QED BY <2>1, <2>2, <2>3, <2>4 DEF Released, Cleanups
<1>3. ASSUME StopOk PROVE Released'
  <2>1. pc = "stopping" /\ Goto(stack) /\ UNCHANGED <<nextGen, active, queue, callback>>
        /\ ScannerStopped
    BY <1>3 DEF StopOk, Return
  <2>2. radio' = None
    BY <2>1 DEF ScannerStopped, device, Released
  <2>3. Place = "stopping"
    BY <2>1 DEF Place, Storing
  <2> QED BY <2>1, <2>2, <2>3 DEF Released, Cleanups
<1>4. ASSUME StopFails PROVE Released'
  <2>1. pc = "stopping" /\ forceStop' = TRUE
        /\ UNCHANGED <<nextGen, active, queue, callback, scanner, radio>>
    BY <1>4 DEF StopFails, ScannerNotStopped
  <2>2. Place = "stopping" /\ Place' \in {"stopfailed", "softdone", "raise", "closing"} /\ pc' # "attempt"
    BY <1>4, <2>1, StopFailsPlace DEF Place, Storing
  <2> QED BY <2>1, <2>2 DEF Released, Cleanups
<1>5. ASSUME StopCancelled PROVE Released'
  <2>1. pc = "stopping" /\ pc' = "stopfailed" /\ forceStop' = TRUE
        /\ UNCHANGED <<nextGen, active, queue, callback, scanner, radio>>
    BY <1>5, Tuples DEF StopCancelled, Goto
  <2>2. Place = "stopping" /\ Place' = "stopfailed"
    BY <2>1, PlaceAt DEF Place, Storing
  <2> QED BY <2>1, <2>2 DEF Released, Cleanups
<1>6. ASSUME CleanupStart PROVE Released'
  <2>1. CASE pc = "hardcleanup" /\ forceStop' = TRUE /\ BeginStop(TRUE, <<"raise">>)
    BY <1>6, <2>1, ReleasedStop DEF CleanupStart, Storing, device
  <2>2. CASE pc = "softcleanup" /\ BeginStop(TRUE, <<"softdone">> \o stack) /\ UNCHANGED forceStop
    <3>1. pc' = "stopping" /\ active' = None /\ queue' = <<>>
      BY <2>2, Stops
    <3>2. Place' = "stopping"
      BY <3>1, PlaceAt DEF Storing
    <3>3. UNCHANGED <<nextGen, callback, scanner, radio>>
      BY <1>6 DEF CleanupStart, device
    <3> QED BY <3>1, <3>2, <3>3 DEF Released
  <2> QED BY <1>6, <2>1, <2>2 DEF CleanupStart
<1>7. ASSUME SoftDone PROVE Released'
  <2>1. PICK x \in Back : stack = <<x>>
    BY <1>7, AtCleanup DEF SoftDone
  <2>2. pc = "softdone" /\ pc' = x
        /\ UNCHANGED <<nextGen, callback, scanner, radio, active, queue, forceStop>>
    BY <1>7, <2>1, Tuples DEF SoftDone, Return, Goto, scan, device
  <2>3. Place = "softdone" /\ Place' \in Back
    BY <2>2, PlaceAt DEF Place, Storing, Back
  <2> QED BY <2>2, <2>3, ReleasedFrame DEF Cleanups, Back
<1>8. ASSUME CloseAfterStopFailure \/ Close PROVE Released'
  <2>1. pc \in {"stopfailed", "raise"}
        /\ UNCHANGED <<nextGen, callback, scanner, radio, forceStop>>
        /\ (BeginStop(TRUE, <<"raise">>) \/ BeginStop(forceStop, <<"closing">>))
    BY <1>8 DEF CloseAfterStopFailure, Close, device
  <2> QED BY <2>1, ReleasedStop DEF Storing, Cleanups
<1>9. ASSUME CloseFlush PROVE Released'
  <2>1. pc = "closing" /\ Persisting(health, <<"done">>)
        /\ UNCHANGED <<nextGen, callback, scanner, radio, active, queue, forceStop>>
    BY <1>9 DEF CloseFlush, scan, device
  <2>2. Place = "closing" /\ Place' = "done"
    BY <2>1, PersistAt DEF Place, Storing
  <2> QED BY <2>1, <2>2, ReleasedFrame DEF Cleanups
<1>10. ASSUME OpenOk \/ ResolveOk \/ StoreFails PROVE Released'
  <2>1. pc \in Storing /\ (Goto(stack) \/ \E h : Persisting(h, stack))
        /\ UNCHANGED <<nextGen, callback, scanner, radio, active, queue, forceStop>>
    BY <1>10 DEF OpenOk, ResolveOk, StoreFails, StoreIdle, device, scan, Return, Storing
  <2>2. Place' = Place /\ Place \notin {"stopping", "attempt"}
    BY <2>1, StoredPlace DEF Cleanups
  <2> QED BY <2>1, <2>2, ReleasedFrame DEF Cleanups
<1>11. ASSUME StoreFatal PROVE Released'
  <2>1. UNCHANGED <<nextGen, callback, scanner, radio, active, queue, forceStop>>
        /\ pc \in Storing
    BY <1>11 DEF StoreFatal, StoreIdle, device, scan, Storing
  <2>2. Place' = pc' /\ pc' \in Cleanups \cup {"done", "stopfailed", "raise"}
        /\ (pc' # "raise" => pc' = Place) /\ (pc' = "raise" => Place \notin Cleanups)
        /\ Place # "stopping"
    BY <1>11, StoreFatalPlace
  <2> QED BY <2>1, <2>2, ReleasedFrame DEF Cleanups
<1>12. ASSUME WaitForAttempt \/ WaitOutPause \/ YieldBeforePause \/ ScanIsPaused \/ EnterWait
              \/ WaitChanged \/ WaitCancelled \/ EndRun
       PROVE  Released'
  <2>1. pc \in Waits \cup {"idle", "cancelled", "attempt"}
        /\ pc' \in {"step", "pausewait", "yield", "timer", "wait", "raise"}
        /\ UNCHANGED <<nextGen, callback, scanner, radio, active, queue, forceStop>>
    BY <1>12, Tuples DEF WaitForAttempt, WaitOutPause, YieldBeforePause, ScanIsPaused, EnterWait,
       WaitChanged, WaitCancelled, EndRun, Goto, Waiter, device, Waits
  <2>2. Place' = pc' /\ Place = pc
    BY <2>1, PlaceAt DEF Storing, Place, Waits
  <2> QED BY <2>1, <2>2, ReleasedFrame DEF Cleanups, Waits
<1>13. ASSUME StepStarts PROVE Released'
  BY <1>13, ReleasedStart DEF StepStarts
<1>14. ASSUME FinishAttempt PROVE Released'
  <2>1. pc = "attempt" /\ UNCHANGED callback /\ Place = "attempt"
    BY <1>14 DEF FinishAttempt, Place, Storing
  <2>2. active = None
    BY <2>1 DEF Stage
  <2>3. StartScan("idle") \/ (Goto(<<"idle">>) /\ UNCHANGED <<scan, device>>)
    BY <1>14 DEF FinishAttempt
  <2>4. CASE StartScan("idle")
    BY <2>1, <2>2, <2>4, ReleasedStart
  <2>5. CASE Goto(<<"idle">>) /\ UNCHANGED <<scan, device>>
    <3>1. Place' = "idle" /\ UNCHANGED <<nextGen, scanner, radio, active, queue, forceStop>>
      BY <2>5, Tuples, PlaceAt DEF Goto, Storing, scan, device
    <3> QED BY <2>1, <3>1, ReleasedFrame DEF Cleanups
  <2> QED BY <2>3, <2>4, <2>5
<1>15. ASSUME StepScans \/ Flush PROVE Released'
  <2>1. pc \in {"step", "flush"} /\ Persisting(health, <<"look">>)
        /\ UNCHANGED <<nextGen, callback, scanner, radio, active, queue, forceStop>>
    BY <1>15 DEF StepScans, Flush, Waiter, device
  <2>2. Place \in {"step", "flush"} /\ Place' = "look"
    BY <2>1, PersistAt DEF Place, Storing
  <2> QED BY <2>1, <2>2, ReleasedFrame DEF Cleanups
<1>16. ASSUME TakeAdvertisement PROVE Released'
  <2>1. pc \in Waits /\ queue # <<>> /\ UNCHANGED <<nextGen, callback, scanner, radio, forceStop>>
        /\ \E r, q : Redeem(r, q)
    BY <1>16 DEF TakeAdvertisement, Waiter, device, Waits
  <2> QED BY <2>1, ReleasedRedeem
<1>17. ASSUME PauseScan PROVE Released'
  <2> DEFINE result == IF queue = <<>> THEN Observe(waiting)
                       ELSE HandleAdvertisement(waiting, Head(queue), now)
             rest == IF queue = <<>> THEN queue ELSE Tail(queue)
  <2>1. pc = "yield" /\ UNCHANGED <<nextGen, callback, scanner, radio, forceStop>>
        /\ (Redeem(result, rest) \/ BeginStop(FALSE, <<"paused">>))
    BY <1>17 DEF PauseScan, Waiter, device
  <2>2. (result.permit => queue # <<>>) /\ (rest # <<>> => queue # <<>>)
    BY TimerNoPermit
  <2> HIDE DEF result, rest
  <2>3. pc \in Waits /\ pc \notin Storing \cup {"stopping"} /\ pc \notin Cleanups
    BY <2>1 DEF Waits, Storing, Cleanups
  <2> QED BY <2>1, <2>2, <2>3, ReleasedRedeem, ReleasedStop
<1>18. ASSUME TimerFires PROVE Released'
  <2>1. PICK d : Redeem(IF now < d THEN Observe(waiting) ELSE HandleTimer(waiting, now, d), queue)
    BY <1>18 DEF TimerFires
  <2> DEFINE result == IF now < d THEN Observe(waiting) ELSE HandleTimer(waiting, now, d)
  <2>2. ~result.permit /\ Redeem(result, queue)
    BY <2>1, TimerNoPermit
  <2>3. pc \in Waits /\ UNCHANGED <<nextGen, callback, scanner, radio, forceStop>>
    BY <1>18 DEF TimerFires, Waiter, device, Waits
  <2> HIDE DEF result
  <2> QED BY <2>2, <2>3, ReleasedRedeem
<1>19. ASSUME WaitTimesOut PROVE Released'
  <2> DEFINE x == IF pc = "wait" THEN "timer" ELSE "pausetimer"
  <2>1. /\ x \in {"timer", "pausetimer"} /\ pc \in {"wait", "pausewait"}
        /\ UNCHANGED <<nextGen, callback, scanner, radio, active, queue, forceStop>>
    BY <1>19 DEF WaitTimesOut, scan, device
  <2>2. Goto(<<x>>) \/ \E h : Persisting(h, <<x>>)
    BY <1>19 DEF WaitTimesOut
  <2> HIDE DEF x
  <2>3. Place' = x /\ Place = pc
    BY <2>1, <2>2, PersistAt, PlaceAt, Tuples DEF Goto, Storing, Place
  <2> QED BY <2>1, <2>3, ReleasedFrame DEF Cleanups
<1>20. ASSUME CancelWait PROVE Released'
  <2>1. pc \in {"wait", "pausewait"} /\ BeginStop(FALSE, <<"cancelled">>)
        /\ UNCHANGED <<nextGen, callback, scanner, radio, forceStop>>
    BY <1>20 DEF CancelWait, Waiter, device
  <2> QED BY <2>1, ReleasedStop DEF Storing, Cleanups
<1>21. ASSUME LateStop PROVE Released'
  <2>1. UNCHANGED <<pc, stack, nextGen, callback, scanner, active, queue, forceStop>>
        /\ (radio' = None \/ UNCHANGED radio)
    BY <1>21 DEF LateStop, scan
  <2>2. Place' = Place
    BY <2>1 DEF Place
  <2> QED BY <2>1, <2>2 DEF Released
<1>22. ASSUME Detect PROVE Released'
  <2>1. UNCHANGED <<pc, stack, nextGen, scanner, radio, active, queue, forceStop>>
        /\ radio # None /\ callback'.gen = radio
    BY <1>22 DEF Detect, scan, device
  <2>2. Place' = Place
    BY <2>1 DEF Place
  <2> QED BY <2>1, <2>2 DEF Released
<1>23. ASSUME Deliver PROVE Released'
  <2>1. UNCHANGED <<pc, stack, nextGen, scanner, radio, active, forceStop>>
        /\ callback # NoCallback /\ callback' = NoCallback
        /\ (UNCHANGED queue \/ callback.gen = active)
    BY <1>23 DEF Deliver, device, Current
  <2>2. Place' = Place
    BY <2>1 DEF Place
  <2>3. queue' # queue => active # None
    BY <2>1 DEF Released
  <2> QED BY <2>1, <2>2, <2>3 DEF Released
<1>24. ASSUME Tick \/ UNCHANGED vars PROVE Released'
  <2>1. UNCHANGED <<pc, stack, nextGen, callback, scanner, radio, active, queue, forceStop>>
    BY <1>24 DEF Tick, vars, scan, device
  <2> QED BY <2>1 DEF Released, Place
<1> QED BY <1>1, <1>2, <1>3, <1>4, <1>5, <1>6, <1>7, <1>8, <1>9, <1>10, <1>11, <1>12, <1>13, <1>14,
           <1>15, <1>16, <1>17, <1>18, <1>19, <1>20, <1>21, <1>22, <1>23, <1>24 DEF Next

-----------------------------------------------------------------------------
(* The policy.  A waiting state holds the observations of one scan, and says     *)
(* until when the last outcome holds a permit back.                          *)

AdvType == [gen: Int, at: Int]
WaitingType == [kind: {"searching", "cooling", "retry"}, recheckAt: Int, cooldownAt: Int,
                retryAt: Int, absenceAt: Int, index: Nat, adv: AdvType, first: AdvType]

Held(s) ==
    /\ s \in WaitingType
    /\ s.adv # NoAdvertisement => s.adv.gen \in Nat /\ s.first.gen = s.adv.gen
    /\ s.kind = "cooling" => s.recheckAt = s.cooldownAt
    /\ s.kind # "cooling" => s.cooldownAt = None
    /\ s.kind # "retry" => s.retryAt = None

Due(s, n, t) == n <= t \/ n <= s.cooldownAt \/ n <= s.retryAt

LEMMA Constants ==
    /\ Absence \in Int /\ Recheck \in Int /\ Cooldown \in Int /\ Stability \in Int /\ MaxGap \in Int
    /\ Stability > 0
BY PolicyAssumption

LEMMA NoAdv == NoAdvertisement \in AdvType /\ None \in Int
BY DEF NoAdvertisement, AdvType, None

LEMMA SearchingHeld ==
    ASSUME NEW t \in Nat
    PROVE  Held(Searching(t)) /\ Searching(t).adv = NoAdvertisement /\ Searching(t).kind = "searching"
BY Constants, NoAdv DEF Searching, Held, WaitingType

LEMMA EditHeld ==
    ASSUME NEW x \in WaitingType, NEW u \in Int, NEW v \in Int, NEW i \in Nat
    PROVE  /\ [x EXCEPT !.kind = "cooling", !.recheckAt = u, !.cooldownAt = u] \in WaitingType
           /\ [x EXCEPT !.kind = "retry", !.retryAt = u, !.absenceAt = v, !.index = i] \in WaitingType
           /\ [x EXCEPT !.kind = "retry", !.absenceAt = v] \in WaitingType
BY DEF WaitingType

LEMMA CoolingHeld ==
    ASSUME NEW t \in Nat
    PROVE  Held(CoolingDown(t)) /\ CoolingDown(t).adv = NoAdvertisement
           /\ CoolingDown(t).cooldownAt = t + Cooldown
<1> DEFINE s == Searching(t)
<1>1. Held(s) /\ s.adv = NoAdvertisement /\ s.kind = "searching"
  BY SearchingHeld
<1> HIDE DEF s
<1>2. CoolingDown(t) = [s EXCEPT !.kind = "cooling", !.recheckAt = t + Cooldown, !.cooldownAt = t + Cooldown]
  BY DEF CoolingDown, s
<1> DEFINE q == CoolingDown(t)
<1>3. s \in WaitingType
  BY <1>1 DEF Held
<1>4. q \in WaitingType
  <2>1. t + Cooldown \in Int
    BY Constants
  <2>2. [s EXCEPT !.kind = "cooling", !.recheckAt = t + Cooldown, !.cooldownAt = t + Cooldown] \in WaitingType
    BY <1>3, <2>1, EditHeld
  <2> QED BY <1>2, <2>2
<1>5. q.adv = s.adv /\ q.kind = "cooling" /\ q.recheckAt = q.cooldownAt /\ q.retryAt = s.retryAt
      /\ q.cooldownAt = t + Cooldown
  BY <1>2, <1>3 DEF WaitingType
<1> HIDE DEF q
<1>6. s.cooldownAt = None /\ s.retryAt = None
  BY <1>1 DEF Held
<1>7. Held(q)
  BY <1>1, <1>4, <1>5, <1>6 DEF Held
<1> QED BY <1>1, <1>5, <1>7 DEF q

LEMMA RetryHeld ==
    ASSUME NEW t \in Nat, NEW delay \in Int, NEW index \in Nat
    PROVE  Held(RetryWaiting(t, delay, index)) /\ RetryWaiting(t, delay, index).adv = NoAdvertisement
           /\ RetryWaiting(t, delay, index).kind = "retry"
<1> DEFINE s == Searching(t)
<1>1. Held(s) /\ s.adv = NoAdvertisement /\ s.kind = "searching"
  BY SearchingHeld
<1> HIDE DEF s
<1>2. RetryWaiting(t, delay, index) = [s EXCEPT !.kind = "retry", !.retryAt = t + delay,
                                                !.absenceAt = t + Absence, !.index = index]
  BY DEF RetryWaiting, s
<1> DEFINE q == RetryWaiting(t, delay, index)
<1>3. s \in WaitingType
  BY <1>1 DEF Held
<1>4. q \in WaitingType
  <2>1. t + delay \in Int /\ t + Absence \in Int
    BY Constants
  <2>2. [s EXCEPT !.kind = "retry", !.retryAt = t + delay, !.absenceAt = t + Absence, !.index = index]
            \in WaitingType
    BY <1>3, <2>1, EditHeld
  <2> QED BY <1>2, <2>2
<1>5. q.adv = s.adv /\ q.kind = "retry" /\ q.cooldownAt = s.cooldownAt
  BY <1>2, <1>3 DEF WaitingType
<1> HIDE DEF q
<1>6. s.cooldownAt = None /\ s.retryAt = None
  BY <1>1 DEF Held
<1>7. Held(q)
  BY <1>1, <1>4, <1>5, <1>6 DEF Held
<1> QED BY <1>1, <1>5, <1>7 DEF q

LEMMA ResumeHeld ==
    Held(ResumeWaiting(Searching(0), 0)) /\ ResumeWaiting(Searching(0), 0).adv = NoAdvertisement
<1> DEFINE s == Searching(0)
<1>1. Held(s) /\ s.adv = NoAdvertisement /\ s.kind = "searching"
  BY SearchingHeld
<1> HIDE DEF s
<1>2. ResumeWaiting(s, 0) = [s EXCEPT !.kind = "retry", !.absenceAt = 0 + Absence]
  BY DEF ResumeWaiting
<1> DEFINE q == ResumeWaiting(s, 0)
<1>3. s \in WaitingType
  BY <1>1 DEF Held
<1>4. q \in WaitingType
  <2>1. 0 + Absence \in Int
    BY Constants
  <2>2. [s EXCEPT !.kind = "retry", !.absenceAt = 0 + Absence] \in WaitingType
    BY <1>3, <2>1, EditHeld
  <2> QED BY <1>2, <2>2
<1>5. q.adv = s.adv /\ q.kind = "retry" /\ q.cooldownAt = s.cooldownAt
  BY <1>2, <1>3 DEF WaitingType
<1> HIDE DEF q, s
<1>6. s.cooldownAt = None /\ s.retryAt = None
  BY <1>1 DEF Held
<1>7. Held(q)
  BY <1>1, <1>4, <1>5, <1>6 DEF Held
<1> QED BY <1>1, <1>5, <1>7 DEF q, s

(* What the policy does to a state without ending the visit.                  *)
Kept(s, q) == Held(q) /\ q.cooldownAt = s.cooldownAt /\ q.retryAt = s.retryAt

LEMMA ClearHeld ==
    ASSUME NEW s, Held(s)
    PROVE  Kept(s, ClearArrival(s)) /\ ClearArrival(s).adv = NoAdvertisement
BY NoAdv DEF ClearArrival, Held, Kept, WaitingType

LEMMA RefreshHeld ==
    ASSUME NEW s, Held(s), NEW t \in Int
    PROVE  Kept(s, RefreshRetryAbsence(s, t)) /\ RefreshRetryAbsence(s, t).adv = s.adv
           /\ RefreshRetryAbsence(s, t).first = s.first
BY Constants DEF RefreshRetryAbsence, Held, Kept, WaitingType

LEMMA RecheckHeld ==
    ASSUME NEW s, Held(s), s.kind # "cooling", NEW t \in Nat
    PROVE  Kept(s, Rechecked(s, t)) /\ Rechecked(s, t).adv = s.adv /\ Rechecked(s, t).kind = s.kind
BY Constants DEF Rechecked, Held, Kept, WaitingType

(* An observation of the running scan: the one it can be continued from is of   *)
(* the same scan, or too old.                                                *)
LEMMA AdvertisementCases ==
    ASSUME NEW s, Held(s), NEW a \in AdvType, a.gen \in Nat, NEW t \in Nat,
           s.adv # NoAdvertisement /\ s.adv.gen # a.gen => a.at >= s.adv.at + MaxGap,
           NEW r, r = HandleAdvertisement(s, a, t)
    PROVE  /\ Kept(s, r.state) /\ ~r.ended
           /\ r.state.adv \in {NoAdvertisement, s.adv, a}
           /\ r.permit => /\ r.adv = a /\ r.first \in AdvType /\ r.first.gen = a.gen
                          /\ a.at - r.first.at >= Stability
                          /\ t >= a.at /\ a.at >= s.cooldownAt /\ a.at >= s.retryAt
<1> DEFINE q == RefreshRetryAbsence(s, a.at)
           first == EncounterFirst(q, a)
<1>0. \A x : Observe(x).state = x /\ ~Observe(x).permit /\ ~Observe(x).ended
  BY DEF Observe
<1>1. CASE t < a.at \/ t >= a.at + MaxGap
  BY <1>0, <1>1, ClearHeld DEF HandleAdvertisement
<1>2. CASE t >= a.at /\ ~(t >= a.at + MaxGap)
  <2>1. Kept(s, q) /\ q.adv = s.adv /\ q.first = s.first /\ a.at \in Int
    BY RefreshHeld DEF AdvType
  <2>2. ~(t < a.at) /\ s.cooldownAt \in Int /\ s.retryAt \in Int
    BY <1>2 DEF AdvType, Held, WaitingType
  <2>3. first \in AdvType /\ first.gen = a.gen
    <3>1. CASE first = a
      BY <3>1
    <3>2. CASE first = s.first /\ s.adv # NoAdvertisement /\ ~(a.at - s.adv.at >= MaxGap)
      <4>1. s.adv.at \in Int /\ s.first \in AdvType
        BY DEF Held, WaitingType, AdvType
      <4>2. s.adv.gen = a.gen
        BY <2>1, <3>2, <4>1, Constants
      <4> QED BY <3>2, <4>1, <4>2 DEF Held
    <3> QED BY <2>1, <3>1, <3>2 DEF EncounterFirst
  <2> HIDE DEF q
  <2>4. CASE a.at < q.cooldownAt \/ a.at < q.retryAt
    <3>1. r = Observe(q)
      BY <1>2, <2>2, <2>4 DEF HandleAdvertisement, q
    <3> QED BY <1>0, <2>1, <3>1
  <2>5. CASE ~(a.at < q.cooldownAt \/ a.at < q.retryAt)
    <3>0. a.at >= s.cooldownAt /\ a.at >= s.retryAt
      BY <2>1, <2>2, <2>5 DEF Kept
    <3>1. r = Admit(q, a)
      BY <1>2, <2>2, <2>5 DEF HandleAdvertisement, q
    <3>2. CASE a.at - first.at >= Stability
      <4>1. r = Begin(q, a)
        BY <3>1, <3>2 DEF Admit
      <4>2. r.state = q /\ r.permit /\ ~r.ended /\ r.adv = a /\ r.first = first
        BY <4>1 DEF Begin, Observe
      <4> HIDE DEF first
      <4> QED BY <1>2, <2>1, <2>3, <3>0, <3>2, <4>2
    <3>3. CASE ~(a.at - first.at >= Stability)
      <4> DEFINE p == [q EXCEPT !.adv = a, !.first = first]
      <4>1. r = Observe(p)
        BY <3>1, <3>3 DEF Admit
      <4> HIDE DEF first
      <4>2. Kept(s, p) /\ p.adv = a
        BY <2>1, <2>3 DEF Kept, Held, WaitingType
      <4> HIDE DEF p
      <4> QED BY <1>0, <4>1, <4>2
    <3> QED BY <3>2, <3>3
  <2> QED BY <2>4, <2>5
<1> QED
  <2>1. a.at \in Int
    BY DEF AdvType
  <2> QED BY <1>1, <1>2, <2>1

(* A timer: it never permits, and it forgets a hold-back only once it is over.  *)
LEMMA TimerCases ==
    ASSUME NEW s, Held(s), NEW t \in Nat, NEW d, NEW n \in Int, Due(s, n, t),
           NEW r, r = HandleTimer(s, t, d)
    PROVE  /\ Held(r.state) /\ (~r.ended => Due(r.state, n, t))
           /\ r.state.adv \in {NoAdvertisement, s.adv}
           /\ r.ended => r.state.adv = NoAdvertisement
<1>0. /\ \A x : Observe(x).state = x /\ ~Observe(x).permit /\ ~Observe(x).ended
      /\ EndVisit(t).state = Searching(t) /\ EndVisit(t).ended
  BY DEF Observe, EndVisit
<1>1. CASE r = Observe(s)
  BY <1>0, <1>1
<1>2. CASE r = Observe(Rechecked(s, t)) /\ s.kind # "cooling"
  BY <1>0, <1>2, RecheckHeld DEF Kept, Due
<1>3. CASE r = Observe(Searching(t)) /\ s.kind = "cooling" /\ ~(t < s.recheckAt)
  <2>1. n <= t
    BY <1>3 DEF Due, Held, WaitingType, None
  <2> QED BY <1>0, <1>3, <2>1, SearchingHeld DEF Due
<1>4. CASE s.kind = "retry" /\ r = HandleRetryTimer(s, t)
  <2>1. CASE r = EndVisit(t) /\ s.absenceAt # None /\ t >= s.absenceAt
    BY <1>0, <2>1, SearchingHeld
  <2>2. CASE r = Observe(s)
    BY <1>1, <2>2
  <2>3. CASE r = Observe(Rechecked(s, t))
    BY <1>2, <1>4, <2>3
  <2>4. ASSUME NEW q \in {s, Rechecked(s, t)}, ~(t < s.retryAt), r = Observe([q EXCEPT !.retryAt = None])
        PROVE  /\ Held(r.state) /\ Due(r.state, n, t)
               /\ r.state.adv \in {NoAdvertisement, s.adv}
               /\ r.ended => r.state.adv = NoAdvertisement
    <3>1. n <= t
      BY <1>4, <2>4 DEF Due, Held, WaitingType, None
    <3>2. Held(q) /\ q.adv = s.adv
      BY <1>4, <2>4, RecheckHeld DEF Kept
    <3>3. q.kind = "retry"
      BY <1>4, <2>4, RecheckHeld
    <3> DEFINE p == [q EXCEPT !.retryAt = None]
    <3>4. Held(p) /\ p.adv = s.adv
      BY <3>2, <3>3, NoAdv DEF Held, WaitingType
    <3>5. Due(p, n, t)
      BY <3>1 DEF Due
    <3> HIDE DEF p
    <3>6. r = Observe(p)
      BY <2>4 DEF p
    <3> QED BY <1>0, <3>4, <3>5, <3>6
  <2> QED BY <1>4, <2>1, <2>2, <2>3, <2>4 DEF HandleRetryTimer
<1> QED BY <1>1, <1>2, <1>3, <1>4 DEF HandleTimer, Held, WaitingType

LEMMA LeastOfTwo ==
    ASSUME NEW a \in Int, NEW b \in Int
    PROVE  LeastOf({a, b}) \in {a, b} /\ LeastOf({a, b}) <= a /\ LeastOf({a, b}) <= b
<1>1. \E x \in {a, b} : \A y \in {a, b} : x <= y
  OBVIOUS
<1>2. LeastOf({a, b}) \in {a, b} /\ \A y \in {a, b} : LeastOf({a, b}) <= y
  BY <1>1 DEF LeastOf
<1> QED BY <1>2

(* An attempt that ends: its observations are forgotten, and the next permit     *)
(* waits for what the new state says.                                         *)
LEMMA FinishedCases ==
    ASSUME NEW s, Held(s), NEW t \in Nat, NEW n \in Int, n <= t, NEW outcome \in Outcomes,
           NEW r, r = AttemptFinished(s, t, outcome)
    PROVE  /\ Held(r.state) /\ r.state.adv = NoAdvertisement
           /\ outcome = "clean" => r.state.cooldownAt = t + Cooldown
<1>0. /\ \A x : Observe(x).state = x /\ ~Observe(x).permit /\ ~Observe(x).ended
      /\ EndVisit(t).state = Searching(t)
  BY DEF Observe, EndVisit
<1>1. CASE outcome = "clean"
  BY <1>0, <1>1, CoolingHeld DEF AttemptFinished
<1>2. CASE outcome = "unavailable"
  <2>1. r = Observe(IF s.kind = "retry" THEN ClearArrival(s) ELSE Searching(t))
    BY <1>2 DEF AttemptFinished
  <2> QED BY <1>0, <1>2, <2>1, ClearHeld, SearchingHeld DEF Kept
<1>3. CASE outcome \in {"progress", "interrupted"}
  <2> DEFINE progress == outcome = "progress"
             index == IF progress THEN 0 ELSE s.index + 1
             slot == LeastOf({IF progress THEN 1 ELSE index, Len(Backoff)})
  <2>1. s.index \in Nat /\ index \in Nat
    BY DEF Held, WaitingType
  <2>2. r = Interrupted(s, t, progress)
    BY <1>3 DEF AttemptFinished
  <2>3. CASE ~progress /\ s.index >= Len(Backoff)
    <3>1. r = EndVisit(t)
      BY <2>2, <2>3 DEF Interrupted
    <3> QED BY <1>0, <1>3, <3>1, SearchingHeld
  <2>4. CASE ~(~progress /\ s.index >= Len(Backoff))
    <3>1. r = Observe(RetryWaiting(t, Backoff[slot], index))
      BY <2>2, <2>4 DEF Interrupted
    <3>2. Len(Backoff) \in Nat \ {0} /\ \A i \in 1 .. Len(Backoff) : Backoff[i] \in Int
      BY PolicyAssumption
    <3>3. slot \in 1 .. Len(Backoff)
      <4> DEFINE a == IF progress THEN 1 ELSE index
      <4>1. a \in Nat /\ a >= 1
        BY <2>1
      <4> HIDE DEF a
      <4>2. LeastOf({a, Len(Backoff)}) \in 1 .. Len(Backoff)
        <5> DEFINE b == Len(Backoff)
                   least == LeastOf({a, b})
        <5>1. b \in Nat \ {0}
          BY <3>2
        <5> HIDE DEF b
        <5>2. least \in {a, b} /\ least <= b
          <6>1. a \in Int /\ b \in Int
            BY <4>1, <5>1
          <6> QED BY <6>1, LeastOfTwo, Zenon
        <5> HIDE DEF least
        <5>3. least \in 1 .. b
          BY <4>1, <5>1, <5>2
        <5> QED BY <5>3 DEF least, b
      <4>3. slot = LeastOf({a, Len(Backoff)})
        BY DEF a
      <4> QED BY <4>2, <4>3
    <3> HIDE DEF slot, index
    <3>4. Held(RetryWaiting(t, Backoff[slot], index))
          /\ RetryWaiting(t, Backoff[slot], index).adv = NoAdvertisement
      BY <2>1, <3>2, <3>3, RetryHeld
    <3> QED BY <1>0, <1>3, <3>1, <3>4
  <2> QED BY <2>3, <2>4
<1> QED BY <1>1, <1>2, <1>3 DEF Outcomes

-----------------------------------------------------------------------------
(* The observations: what waits in the queue was made by the running scan, and   *)
(* while the waiter goes on, a candidate of another scan is too old to be        *)
(* continued by anything that is heard.                                        *)

Heard ==
    /\ now \in Nat
    /\ radio # None => radio \in Nat /\ radio < nextGen
    /\ callback # NoCallback => callback.gen \in Nat /\ callback.gen < nextGen /\ callback.at \in Int
    /\ queue \in Seq(AdvType)
    /\ \A i \in 1 .. Len(queue) : queue[i].gen \in Nat
    /\ Place \notin Cleanups => \A i \in 1 .. Len(queue) : queue[i].gen = active

Running ==
    \/ Place \in Waits \cup {"idle", "starting", "softdone"}
    \/ pc = "stopping" /\ Head(stack) \in {"idle", "paused", "softdone"}

Old == waiting.adv.at + MaxGap

Aged ==
    Running /\ waiting.adv # NoAdvertisement /\ waiting.adv.gen # active =>
        /\ now >= Old
        /\ \A i \in 1 .. Len(queue) : queue[i].at >= Old
        /\ callback # NoCallback /\ callback.gen = active => callback.at >= Old

Earned ==
    /\ Held(waiting) /\ notBefore \in Int /\ Due(waiting, notBefore, now)
    /\ phase = "attempting" => /\ permit.first.gen = permit.adv.gen
                               /\ permit.adv.at - permit.first.at >= Stability
                               /\ now >= notBefore

(* Steps that neither hear nor decide.                                        *)
Still ==
    /\ UNCHANGED <<nextGen, callback, queue, active, waiting, permit, notBefore>>
    /\ now' \in {now, now + 1}
    /\ radio' \in {radio, None}
    /\ phase' \in {phase, "closed"}
    /\ Running' => Running
    /\ Place \in Cleanups => Place' \in Cleanups

LEMMA NotRunning ==
    ASSUME pc' # "stopping", Place' \notin Waits \cup {"idle", "starting", "softdone"}
    PROVE  ~Running'
BY DEF Running

LEMMA StillWaiting ==
    ASSUME Control,
           StartOk \/ StopOk \/ StopFails \/ StopCancelled \/ LateStop \/ SoftDone \/ CloseFlush
           \/ OpenOk \/ ResolveOk \/ StoreFails \/ StoreFatal
           \/ WaitForAttempt \/ WaitOutPause \/ StepScans \/ Flush \/ YieldBeforePause
           \/ ScanIsPaused \/ EnterWait \/ WaitChanged \/ WaitTimesOut \/ EndRun \/ Tick
           \/ UNCHANGED vars
    PROVE  Still
<1> DEFINE Unheard == UNCHANGED <<nextGen, callback, queue, active, waiting, permit, notBefore>>
                      /\ now' \in {now, now + 1} /\ radio' \in {radio, None}
                      /\ phase' \in {phase, "closed"}
<1>1. CASE StartOk
  <2>1. Unheard /\ pc = "starting"
    BY <1>1 DEF StartOk, policy, device
  <2>2. Place = "starting"
    BY <2>1, PlaceAt DEF Place, Storing
  <2> QED BY <2>1, <2>2 DEF Still, Running, Cleanups
<1>2. CASE StopOk
  <2>1. Unheard /\ pc = "stopping" /\ Goto(stack)
    <3>1. radio' \in {radio, None}
      BY <1>2 DEF StopOk, ScannerStopped, device
    <3> QED BY <1>2, <3>1 DEF StopOk, policy, Return
  <2>2. pc' = Head(stack)
        /\ pc' \in {"attempt", "idle", "paused", "cancelled", "raise", "closing", "softdone"}
    BY <2>1, AtStopping, Tuples DEF Goto
  <2>3. Place' = pc' /\ Place = "stopping"
    BY <2>1, <2>2 DEF Place, Storing
  <2> QED BY <2>1, <2>2, <2>3 DEF Still, Running, Cleanups, Waits
<1>3. CASE StopFails
  <2>1. Unheard /\ pc = "stopping"
    BY <1>3 DEF StopFails, ScannerNotStopped, policy
  <2>2. Place' \in {"stopfailed", "softdone", "raise", "closing"} /\ pc' \in {Place'} \cup Storing
        /\ (Place' # "stopfailed" => Place' = Head(stack)) /\ Place = "stopping"
    BY <1>3, <2>1, StopFailsPlace DEF Place, Storing
  <2>3. pc' # "stopping"
    BY <2>2 DEF Storing
  <2> QED BY <2>1, <2>2, <2>3 DEF Still, Running, Cleanups, Waits
<1>4. CASE StopCancelled
  <2>1. Unheard /\ pc = "stopping" /\ pc' = "stopfailed"
    BY <1>4, Tuples DEF StopCancelled, Goto
  <2>2. Place = "stopping" /\ Place' = "stopfailed"
    BY <2>1, PlaceAt DEF Place, Storing
  <2> QED BY <2>1, <2>2, NotRunning DEF Still, Cleanups, Waits
<1>5. CASE LateStop \/ Tick \/ UNCHANGED vars
  <2>1. Unheard /\ UNCHANGED <<pc, stack>>
    BY <1>5 DEF LateStop, Tick, vars, policy, scan, device
  <2> QED BY <2>1 DEF Still, Running, Place
<1>6. CASE SoftDone
  <2>1. Unheard /\ pc = "softdone"
    BY <1>6 DEF SoftDone, policy, scan, device
  <2>2. Place = "softdone"
    BY <2>1, PlaceAt DEF Place, Storing
  <2> QED BY <2>1, <2>2 DEF Still, Running, Cleanups
<1>7. CASE CloseFlush
  <2>1. Unheard /\ pc = "closing" /\ Persisting(health, <<"done">>)
    BY <1>7 DEF CloseFlush, policy, scan, device
  <2>2. Place = "closing" /\ Place' = "done" /\ pc' \in {"done"} \cup Storing
    BY <2>1, PersistAt DEF Place, Storing
  <2>3. ~Running'
    BY <2>2, NotRunning DEF Waits, Storing
  <2> QED BY <2>1, <2>2, <2>3 DEF Still, Cleanups
<1>8. CASE OpenOk \/ ResolveOk \/ StoreFails
  <2>1. Unheard /\ pc \in Storing /\ (Goto(stack) \/ \E h : Persisting(h, stack))
    BY <1>8 DEF OpenOk, ResolveOk, StoreFails, StoreIdle, policy, scan, device, Return, Storing
  <2>2. Place' = Place /\ pc' \in {Place'} \cup Storing /\ Place # "stopping"
    BY <2>1, StoredPlace DEF Cleanups
  <2> QED BY <2>1, <2>2 DEF Still, Running, Storing
<1>9. CASE StoreFatal
  <2>1. Unheard /\ pc \in Storing
    BY <1>9 DEF StoreFatal, StoreIdle, policy, scan, device, Storing
  <2>2. Place' = pc' /\ pc' \in Cleanups \cup {"done", "stopfailed", "raise"}
        /\ (pc' # "raise" => pc' = Place) /\ (pc' = "raise" => Place \notin Cleanups)
    BY <1>9, StoreFatalPlace
  <2>3. ~Running'
    BY <2>2, NotRunning DEF Waits, Cleanups
  <2> QED BY <2>1, <2>2, <2>3 DEF Still
<1>10. CASE WaitForAttempt \/ WaitOutPause \/ YieldBeforePause \/ ScanIsPaused \/ EnterWait \/ WaitChanged
  <2>1. Unheard /\ pc \in Waits \cup {"idle"}
    BY <1>10 DEF WaitForAttempt, WaitOutPause, YieldBeforePause, ScanIsPaused, EnterWait, WaitChanged,
       Waiter, device, policy, Waits
  <2>2. Place = pc
    BY <2>1 DEF Place, Waits, Storing
  <2> QED BY <2>1, <2>2 DEF Still, Running, Cleanups, Waits
<1>11. CASE EndRun
  <2>1. Unheard /\ pc \in {"idle", "attempt"} /\ pc' = "raise"
    BY <1>11, Tuples DEF EndRun, Goto, Waiter, device, policy
  <2>2. Place = pc /\ Place' = "raise"
    BY <2>1, PlaceAt DEF Place, Storing
  <2> QED BY <2>1, <2>2, NotRunning DEF Still, Cleanups, Waits
<1>12. CASE StepScans \/ Flush \/ WaitTimesOut
  <2>1. Unheard /\ pc \in {"step", "flush", "wait", "pausewait"}
    BY <1>12 DEF StepScans, Flush, WaitTimesOut, Waiter, scan, device, policy
  <2>2. Place = pc
    BY <2>1 DEF Place, Storing
  <2> QED BY <2>1, <2>2 DEF Still, Running, Cleanups, Waits
<1> QED BY <1>1, <1>2, <1>3, <1>4, <1>5, <1>6, <1>7, <1>8, <1>9, <1>10, <1>11, <1>12

LEMMA StillEarned ==
    ASSUME Heard, Aged, Earned, Still
    PROVE  Heard' /\ Aged' /\ Earned'
<1>1. now' \in Nat /\ now' >= now /\ now \in Nat
  BY DEF Heard, Still
<1>2. Heard'
  BY <1>1 DEF Heard, Still
<1>3. Aged'
  <2>1. waiting.adv.at + MaxGap \in Int
    BY Constants DEF Earned, Held, WaitingType, AdvType
  <2> QED BY <1>1, <2>1 DEF Aged, Still, Old
<1>4. Earned'
  <2>1. notBefore \in Int /\ waiting.cooldownAt \in Int /\ waiting.retryAt \in Int
    BY DEF Earned, Held, WaitingType
  <2>2. Due(waiting', notBefore', now')
    BY <1>1, <2>1 DEF Earned, Due, Still
  <2>3. phase' = "attempting" => phase = "attempting"
    BY DEF Still
  <2> QED BY <1>1, <2>1, <2>2, <2>3 DEF Earned, Still
<1> QED BY <1>2, <1>3, <1>4

LEMMA StopRuns ==
    ASSUME NEW force, NEW x \in {"attempt", "cancelled", "raise", "closing"}, BeginStop(force, <<x>>)
    PROVE  ~Running'
<1>1. CASE pc' = x
  BY <1>1, PlaceAt, NotRunning DEF Storing, Waits
<1>2. CASE pc' = "stopping" /\ stack' = <<x>>
  <2>1. Place' = "stopping" /\ Head(stack') = x
    BY <1>2, Tuples, PlaceAt DEF Storing
  <2> QED BY <1>2, <2>1 DEF Running, Waits
<1> QED BY <1>1, <1>2, StopPlace

LEMMA HeardStop ==
    ASSUME NEW force, NEW places, Heard, BeginStop(force, places), pc \notin Storing,
           pc \notin Cleanups \/ force, UNCHANGED <<now, nextGen, callback, radio>>
    PROVE  Heard'
<1>1. CASE queue' = <<>>
  BY <1>1 DEF Heard
<1>2. CASE ~force /\ UNCHANGED <<queue, active>>
  <2>1. Place = pc /\ pc \notin Cleanups
    BY <1>2 DEF Place
  <2> QED BY <1>2, <2>1 DEF Heard
<1> QED BY <1>1, <1>2, Stops

(* The policy is left alone, or only forgets its candidate.                     *)
LEMMA EarnedKept ==
    ASSUME Heard, Earned, Kept(waiting, waiting'), UNCHANGED <<now, notBefore, permit>>,
           phase' \in {phase, "closed"}
    PROVE  Earned'
BY DEF Earned, Kept, Due

LEMMA EarnedSame ==
    ASSUME Heard, Earned, UNCHANGED <<now, waiting, notBefore, permit>>, phase' \in {phase, "closed"}
    PROVE  Earned'
BY DEF Earned, Due

LEMMA StartHeard ==
    ASSUME NEW back, StartScan(back), Heard, Stage, Released, pc \in {"step", "attempt"}, active = None,
           UNCHANGED <<now, callback>>
    PROVE  Heard' /\ queue' = <<>> /\ active' = nextGen
<1>1. /\ pc' = "starting" /\ nextGen' = nextGen + 1 /\ active' = nextGen
      /\ UNCHANGED <<queue, forceStop>>
  BY StartPlace
<1>2. radio' = radio \/ radio' = nextGen
  BY StartPlace
<1>3. Place = pc
  BY DEF Place, Storing
<1>4. queue = <<>>
  BY <1>3 DEF Released, Cleanups
<1>5. nextGen \in Nat
  BY DEF Released
<1> QED BY <1>1, <1>2, <1>4, <1>5 DEF Heard

(* A result of the policy.                                                     *)
LEMMA RedeemEarned ==
    ASSUME NEW result, NEW rest, Heard, Aged, Earned, pc \in Waits, phase = "waiting",
           Redeem(result, rest), UNCHANGED <<now, nextGen, callback, radio>>,
           Held(result.state), ~result.ended => Due(result.state, notBefore, now),
           result.ended => result.state.adv = NoAdvertisement,
           result.permit => /\ result.first.gen = result.adv.gen
                            /\ result.adv.at - result.first.at >= Stability
                            /\ now >= notBefore /\ ~result.ended,
           result.state.adv \in {NoAdvertisement, waiting.adv} \/ result.state.adv.gen = active,
           rest \in Seq(AdvType), \A i \in 1 .. Len(rest) : \E j \in 1 .. Len(queue) : rest[i] = queue[j]
    PROVE  Heard' /\ Aged' /\ Earned'
<1>0. Place = pc /\ pc \notin Storing \cup Cleanups
  BY DEF Place, Storing, Waits, Cleanups
<1>1. Earned'
  <2>1. waiting' = result.state /\ notBefore' = (IF result.ended THEN now ELSE notBefore)
    BY DEF Redeem
  <2>2. Held(waiting') /\ notBefore' \in Int /\ Due(waiting', notBefore', now')
    BY <2>1 DEF Earned, Heard, Due
  <2>3. phase' = "attempting" => /\ permit'.first.gen = permit'.adv.gen
                                 /\ permit'.adv.at - permit'.first.at >= Stability
                                 /\ now' >= notBefore'
    <3>1. CASE result.permit
      <4>1. permit' = [adv |-> result.adv, first |-> result.first]
        BY <3>1 DEF Redeem
      <4> QED BY <2>1, <3>1, <4>1
    <3>2. CASE ~result.permit
      BY <3>2 DEF Redeem
    <3> QED BY <3>1, <3>2
  <2> QED BY <2>2, <2>3 DEF Earned
<1>2. CASE result.permit /\ BeginStop(FALSE, <<"attempt">>)
  <2>1. ~Running'
    BY <1>2, StopRuns
  <2> QED BY <1>0, <1>1, <1>2, <2>1, HeardStop DEF Aged
<1>3. CASE result.ended /\ BeginStop(FALSE, <<"idle">>)
  <2>1. waiting'.adv = NoAdvertisement
    BY <1>3 DEF Redeem
  <2> QED BY <1>0, <1>1, <1>3, <2>1, HeardStop DEF Aged
<1>4. CASE ~result.permit /\ ~result.ended /\ pc' = "step" /\ queue' = rest /\ UNCHANGED active
  <2>1. waiting' = result.state /\ Running
    BY <1>0 DEF Redeem, Running
  <2>2. Place' = "step"
    BY <1>4, PlaceAt DEF Storing
  <2>3. \A i \in 1 .. Len(queue) : queue[i].gen \in Nat /\ queue[i].gen = active
    BY <1>0 DEF Heard
  <2>4. Heard'
    BY <1>4, <2>2, <2>3 DEF Heard
  <2>5. Aged'
    <3>1. SUFFICES ASSUME waiting'.adv # NoAdvertisement, waiting'.adv.gen # active'
                   PROVE  /\ now' >= Old'
                          /\ \A i \in 1 .. Len(queue') : queue'[i].at >= Old'
                          /\ callback' # NoCallback /\ callback'.gen = active' => callback'.at >= Old'
      BY DEF Aged
    <3>2. waiting'.adv = waiting.adv /\ Old' = Old
      BY <1>4, <2>1, <3>1 DEF Old
    <3>3. /\ now >= Old
          /\ \A i \in 1 .. Len(queue) : queue[i].at >= Old
          /\ callback # NoCallback /\ callback.gen = active => callback.at >= Old
      BY <1>4, <2>1, <3>1, <3>2 DEF Aged
    <3> QED BY <1>4, <3>2, <3>3
  <2> QED BY <1>1, <2>4, <2>5
<1> QED BY <1>2, <1>3, <1>4, RedeemPlace

LEMMA QueueTail ==
    ASSUME Heard, queue # <<>>
    PROVE  /\ Head(queue) \in AdvType /\ 1 \in 1 .. Len(queue) /\ Head(queue) = queue[1]
           /\ Tail(queue) \in Seq(AdvType)
           /\ \A i \in 1 .. Len(Tail(queue)) : \E j \in 1 .. Len(queue) : Tail(queue)[i] = queue[j]
<1>1. queue \in Seq(AdvType)
  BY DEF Heard
<1>2. /\ Len(queue) \in Nat /\ Len(queue) >= 1 /\ Head(queue) = queue[1] /\ queue[1] \in AdvType
      /\ Tail(queue) \in Seq(AdvType) /\ Len(Tail(queue)) = Len(queue) - 1
      /\ \A i \in 1 .. Len(Tail(queue)) : Tail(queue)[i] = queue[i + 1]
  BY <1>1, HeadTailProperties, EmptySeq
<1>3. \A i \in 1 .. Len(Tail(queue)) : i + 1 \in 1 .. Len(queue)
  BY <1>2
<1> QED BY <1>2, <1>3

(* The next advertisement, handled.                                             *)
LEMMA TakeEarned ==
    ASSUME Heard, Aged, Earned, pc \in Waits, phase = "waiting", queue # <<>>, NEW result,
           result = HandleAdvertisement(waiting, Head(queue), now)
    PROVE  /\ Held(result.state) /\ ~result.ended /\ Due(result.state, notBefore, now)
           /\ result.permit => /\ result.first.gen = result.adv.gen
                               /\ result.adv.at - result.first.at >= Stability
                               /\ now >= notBefore
           /\ result.state.adv \in {NoAdvertisement, waiting.adv} \/ result.state.adv.gen = active
<1> DEFINE a == Head(queue)
<1>0. Place = pc /\ pc \notin Cleanups /\ Running
  BY DEF Place, Storing, Waits, Cleanups, Running
<1>1. a \in AdvType /\ a = queue[1] /\ 1 \in 1 .. Len(queue)
  BY QueueTail
<1>2. a.gen \in Nat /\ a.gen = active
  BY <1>0, <1>1 DEF Heard
<1>3. waiting.adv # NoAdvertisement /\ waiting.adv.gen # a.gen => a.at >= waiting.adv.at + MaxGap
  BY <1>0, <1>1, <1>2 DEF Aged, Old
<1>4. now \in Nat /\ Held(waiting)
  BY DEF Heard, Earned
<1> HIDE DEF a
<1>5. result = HandleAdvertisement(waiting, a, now)
  BY DEF a
<1>6. /\ Kept(waiting, result.state) /\ ~result.ended
      /\ result.state.adv \in {NoAdvertisement, waiting.adv, a}
      /\ result.permit => /\ result.adv = a /\ result.first.gen = a.gen
                          /\ a.at - result.first.at >= Stability
                          /\ now >= a.at /\ a.at >= waiting.cooldownAt /\ a.at >= waiting.retryAt
  BY <1>1, <1>2, <1>3, <1>4, <1>5, AdvertisementCases
<1>7. Due(result.state, notBefore, now)
  BY <1>6 DEF Kept, Due, Earned
<1>8. result.permit => now >= notBefore
  <2>1. now \in Int /\ a.at \in Int /\ waiting.cooldownAt \in Int /\ waiting.retryAt \in Int
        /\ notBefore \in Int
    BY <1>1, <1>4 DEF AdvType, Held, WaitingType, Earned
  <2> QED BY <1>6, <2>1 DEF Earned, Due
<1> QED BY <1>2, <1>6, <1>7, <1>8 DEF Kept

LEMMA EarnedStep ==
    ASSUME Control, Stage, Released, Heard, Aged, Earned, [Next]_vars
    PROVE  Heard' /\ Aged' /\ Earned'
<1>1. ASSUME StartFails \/ StartCancelled PROVE Heard' /\ Aged' /\ Earned'
  <2>1. pc = "starting" /\ active' = None
        /\ UNCHANGED <<now, nextGen, queue, callback, waiting, permit, notBefore, phase>>
        /\ \E r \in {"stopped", "failed", "late"} : StartAbandoned(r)
    BY <1>1 DEF StartFails, StartCancelled, policy
  <2>2. Place' \in Cleanups /\ pc' \in {Place'} \cup Storing
    <3>1. CASE StartCancelled
      BY <3>1, Tuples, PlaceAt DEF StartCancelled, Goto, Storing, Cleanups
    <3>2. CASE StartFails
      <4>1. PICK r, h : Persisting(h, <<StartFailed(r)>> \o stack)
        BY <3>2 DEF StartFails
      <4>2. PICK x \in {"flush", "idle"} : stack = <<x>>
        BY <2>1 DEF Control, Plain, Waits, Cleanups, Storing
      <4>3. StartFailed(r) \in Cleanups /\ StartFailed(r) \notin Storing
        BY DEF StartFailed, Cleanups, Storing
      <4>4. Persisting(h, <<StartFailed(r), x>>)
        BY <4>1, <4>2, Tuples
      <4> QED BY <4>3, <4>4, PersistsAt
    <3> QED BY <1>1, <3>1, <3>2
  <2>3. radio' \in {radio, None}
    BY <2>1 DEF StartAbandoned, device
  <2>4. ~Running'
    BY <2>2, NotRunning DEF Cleanups, Waits, Storing
  <2>5. Heard'
    BY <2>1, <2>2, <2>3 DEF Heard
  <2> QED BY <2>1, <2>4, <2>5, EarnedSame DEF Aged
<1>2. ASSUME CleanupStart PROVE Heard' /\ Aged' /\ Earned'
  <2>1. /\ UNCHANGED <<now, nextGen, callback, radio, permit, notBefore>>
        /\ \E places : BeginStop(TRUE, places)
        /\ pc \in Cleanups
    BY <1>2 DEF CleanupStart, device, Cleanups
  <2>2. Heard'
    BY <2>1, HeardStop DEF Cleanups, Storing
  <2>3. CASE pc = "hardcleanup"
    <3>1. BeginStop(TRUE, <<"raise">>) /\ phase' = "closed" /\ UNCHANGED waiting
      BY <1>2, <2>3 DEF CleanupStart
    <3>2. ~Running'
      BY <3>1, StopRuns
    <3> QED BY <2>1, <2>2, <3>1, <3>2, EarnedSame DEF Aged
  <2>4. CASE pc = "softcleanup"
    <3>1. phase = "waiting"
      BY <2>4 DEF Stage, Place, Storing
    <3>2. waiting' = ClearArrival(waiting) /\ phase' = phase
      BY <1>2, <2>4, <3>1 DEF CleanupStart
    <3>3. Kept(waiting, waiting') /\ waiting'.adv = NoAdvertisement
      BY <3>2, ClearHeld DEF Earned
    <3> QED BY <2>1, <2>2, <3>2, <3>3, EarnedKept DEF Aged
  <2> QED BY <2>1, <2>3, <2>4 DEF Cleanups
<1>3. ASSUME CloseAfterStopFailure \/ Close PROVE Heard' /\ Aged' /\ Earned'
  <2>1. pc \in {"stopfailed", "raise"} /\ phase' = "closed"
        /\ UNCHANGED <<now, nextGen, callback, radio, waiting, permit, notBefore>>
        /\ (BeginStop(TRUE, <<"raise">>) \/ BeginStop(forceStop, <<"closing">>))
    BY <1>3 DEF CloseAfterStopFailure, Close, device
  <2>2. Heard' /\ ~Running'
    BY <2>1, HeardStop, StopRuns DEF Storing, Cleanups
  <2> QED BY <2>1, <2>2, EarnedSame DEF Aged
<1>4. ASSUME CancelWait PROVE Heard' /\ Aged' /\ Earned'
  <2>1. pc \in {"wait", "pausewait"} /\ BeginStop(FALSE, <<"cancelled">>)
        /\ UNCHANGED <<now, nextGen, callback, radio, waiting, permit, notBefore, phase>>
    BY <1>4 DEF CancelWait, Waiter, device, policy
  <2>2. Heard' /\ ~Running'
    BY <2>1, HeardStop, StopRuns DEF Storing, Cleanups
  <2> QED BY <2>1, <2>2, EarnedSame DEF Aged
<1>5. ASSUME WaitCancelled PROVE Heard' /\ Aged' /\ Earned'
  <2>1. pc = "cancelled" /\ pc' = "raise" /\ waiting' = ClearArrival(waiting)
        /\ UNCHANGED <<now, nextGen, callback, radio, queue, active, permit, notBefore, phase>>
    BY <1>5, Tuples DEF WaitCancelled, Goto, Waiter, device
  <2>2. Place = "cancelled" /\ Place' = "raise"
    BY <2>1, PlaceAt DEF Place, Storing
  <2>3. Heard'
    BY <2>1, <2>2 DEF Heard, Cleanups
  <2>4. Kept(waiting, waiting') /\ waiting'.adv = NoAdvertisement
    BY <2>1, ClearHeld DEF Earned
  <2> QED BY <2>1, <2>3, <2>4, EarnedKept DEF Aged
<1>6. ASSUME StepStarts PROVE Heard' /\ Aged' /\ Earned'
  <2>1. pc = "step" /\ active = None /\ StartScan("flush")
        /\ UNCHANGED <<now, callback, waiting, permit, notBefore, phase>>
    BY <1>6 DEF StepStarts, policy
  <2>2. Heard' /\ queue' = <<>> /\ active' = nextGen
    BY <2>1, StartHeard
  <2>3. Running
    BY <2>1 DEF Running, Place, Storing, Waits
  <2>4. waiting.adv # NoAdvertisement => now >= Old
    <3>1. waiting.adv # NoAdvertisement => waiting.adv.gen # active
      BY <2>1 DEF Earned, Held, None
    <3> QED BY <2>3, <3>1 DEF Aged
  <2>5. callback' # NoCallback => callback'.gen # active'
    BY <2>1, <2>2 DEF Heard, Released
  <2>6. Aged'
    BY <2>1, <2>2, <2>4, <2>5 DEF Aged, Old
  <2> QED BY <2>1, <2>2, <2>6, EarnedSame
<1>7. ASSUME FinishAttempt PROVE Heard' /\ Aged' /\ Earned'
  <2>1. PICK outcome \in Outcomes :
            LET result == AttemptFinished(waiting, now, outcome)
            IN /\ waiting' = result.state
               /\ notBefore' = NextPermit(result, outcome)
               /\ IF result.ended
                  THEN Goto(<<"idle">>) /\ UNCHANGED <<scan, device, records, faults>>
                  ELSE StartScan("idle")
    BY <1>7 DEF FinishAttempt
  <2> DEFINE result == AttemptFinished(waiting, now, outcome)
  <2>2. pc = "attempt" /\ phase' = "waiting" /\ UNCHANGED <<now, callback>> /\ Place = "attempt"
    BY <1>7 DEF FinishAttempt, Place, Storing
  <2>3. active = None /\ phase = "attempting"
    BY <2>2 DEF Stage
  <2>4. notBefore \in Int /\ notBefore <= now /\ now \in Nat /\ Held(waiting)
    BY <2>3 DEF Earned, Heard
  <2> HIDE DEF result
  <2>5. /\ Held(result.state) /\ result.state.adv = NoAdvertisement
        /\ outcome = "clean" => result.state.cooldownAt = now + Cooldown
    BY <2>4, FinishedCases DEF result
  <2>6. waiting' = result.state /\ notBefore' = NextPermit(result, outcome)
    BY <2>1 DEF result
  <2>7. result.state.cooldownAt \in Int /\ result.state.retryAt \in Int
    BY <2>5 DEF Held, WaitingType
  <2>8. notBefore' \in Int /\ Due(waiting', notBefore', now')
    <3>1. CASE outcome = "clean"
      BY <2>2, <2>4, <2>5, <2>6, <2>7, <3>1, Constants DEF NextPermit, Due
    <3>2. CASE outcome # "clean" /\ notBefore' = notBefore
      BY <2>2, <2>4, <3>2 DEF Due
    <3>3. CASE notBefore' = result.state.retryAt
      BY <2>6, <2>7, <3>3 DEF Due
    <3> QED BY <2>6, <3>1, <3>2, <3>3 DEF NextPermit
  <2>9. Earned' /\ Aged'
    BY <2>2, <2>5, <2>6, <2>8 DEF Earned, Aged
  <2>10. CASE StartScan("idle")
    BY <2>2, <2>3, <2>9, <2>10, StartHeard
  <2>11. CASE Goto(<<"idle">>) /\ UNCHANGED <<scan, device>>
    <3>1. UNCHANGED <<nextGen, radio, active, queue>>
      BY <2>11 DEF scan, device
    <3> QED BY <2>2, <2>9, <3>1 DEF Heard, Cleanups
  <2> QED BY <2>1, <2>10, <2>11
<1>8. ASSUME TakeAdvertisement \/ PauseScan \/ TimerFires PROVE Heard' /\ Aged' /\ Earned'
  <2>1. pc \in Waits /\ UNCHANGED <<now, nextGen, callback, radio>>
    BY <1>8 DEF TakeAdvertisement, PauseScan, TimerFires, Waits, Waiter, device
  <2>2. phase = "waiting" /\ queue \in Seq(AdvType) /\ now \in Nat /\ Held(waiting)
        /\ Due(waiting, notBefore, now) /\ notBefore \in Int
    <3>1. Place = pc
      BY <2>1 DEF Place, Storing, Waits
    <3> QED BY <2>1, <3>1 DEF Stage, Heard, Earned
  <2>3. \A i \in 1 .. Len(queue) : \E j \in 1 .. Len(queue) : queue[i] = queue[j]
    OBVIOUS
  <2>4. CASE TakeAdvertisement
    <3>1. queue # <<>> /\ Redeem(HandleAdvertisement(waiting, Head(queue), now), Tail(queue))
      BY <2>4 DEF TakeAdvertisement
    <3> DEFINE result == HandleAdvertisement(waiting, Head(queue), now)
    <3> HIDE DEF result
    <3>2. /\ Held(result.state) /\ ~result.ended /\ Due(result.state, notBefore, now)
          /\ result.permit => /\ result.first.gen = result.adv.gen
                              /\ result.adv.at - result.first.at >= Stability
                              /\ now >= notBefore
          /\ result.state.adv \in {NoAdvertisement, waiting.adv} \/ result.state.adv.gen = active
      BY <2>1, <2>2, <3>1, TakeEarned DEF result
    <3>3. Redeem(result, Tail(queue))
      BY <3>1 DEF result
    <3> QED BY <2>1, <2>2, <3>1, <3>2, <3>3, QueueTail, RedeemEarned
  <2>5. CASE PauseScan
    <3> DEFINE result == IF queue = <<>> THEN Observe(waiting)
                         ELSE HandleAdvertisement(waiting, Head(queue), now)
               rest == IF queue = <<>> THEN queue ELSE Tail(queue)
    <3>1. \/ Redeem(result, rest)
          \/ /\ waiting' = result.state /\ BeginStop(FALSE, <<"paused">>)
             /\ UNCHANGED <<phase, permit, notBefore>> /\ ShouldPause(result.state)
      BY <2>5 DEF PauseScan
    <3>2. /\ Held(result.state) /\ ~result.ended /\ Due(result.state, notBefore, now)
          /\ result.permit => /\ result.first.gen = result.adv.gen
                              /\ result.adv.at - result.first.at >= Stability
                              /\ now >= notBefore
          /\ result.state.adv \in {NoAdvertisement, waiting.adv} \/ result.state.adv.gen = active
      <4>1. CASE queue = <<>>
        <5>1. result.state = waiting /\ ~result.permit /\ ~result.ended
          BY <4>1 DEF Observe
        <5> HIDE DEF result
        <5> QED BY <2>2, <5>1
      <4>2. CASE queue # <<>>
        <5>1. result = HandleAdvertisement(waiting, Head(queue), now)
          BY <4>2
        <5> HIDE DEF result
        <5> QED BY <2>1, <2>2, <4>2, <5>1, TakeEarned
      <4> QED BY <4>1, <4>2
    <3>3. rest \in Seq(AdvType) /\ \A i \in 1 .. Len(rest) : \E j \in 1 .. Len(queue) : rest[i] = queue[j]
      BY <2>2, <2>3, QueueTail
    <3> HIDE DEF result, rest
    <3>4. CASE Redeem(result, rest)
      BY <2>1, <2>2, <3>2, <3>3, <3>4, RedeemEarned
    <3>5. CASE /\ waiting' = result.state /\ BeginStop(FALSE, <<"paused">>)
               /\ UNCHANGED <<phase, permit, notBefore>> /\ ShouldPause(result.state)
      <4>1. Heard'
        BY <2>1, <3>5, HeardStop DEF Waits, Storing, Cleanups
      <4>2. Earned'
        BY <2>1, <2>2, <3>2, <3>5 DEF Earned
      <4>3. waiting'.adv # NoAdvertisement => now >= waiting'.adv.at + MaxGap
        <5>1. waiting'.adv.at + MaxGap \in Int
          BY <3>2, <3>5, Constants DEF Held, WaitingType, AdvType
        <5> QED BY <2>2, <3>5, <5>1 DEF ShouldPause, FreshCandidate
      <4>4. active' = None /\ (queue' = <<>> \/ (queue' = queue /\ active = None))
        BY <3>5, StopPlace
      <4>5. queue' = <<>>
        <5>1. active = None => queue = <<>>
          <6>1. Place \notin Cleanups
            BY <2>1 DEF Place, Storing, Waits, Cleanups
          <6> QED BY <6>1 DEF Released
        <5> QED BY <4>4, <5>1
      <4>6. callback' # NoCallback => callback'.gen # active'
        BY <2>1, <4>4 DEF Released
      <4>7. Aged'
        BY <2>1, <4>3, <4>5, <4>6 DEF Aged, Old
      <4> QED BY <4>1, <4>2, <4>7
    <3> QED BY <3>1, <3>4, <3>5
  <2>6. CASE TimerFires
    <3>1. PICK d : Redeem(IF now < d THEN Observe(waiting) ELSE HandleTimer(waiting, now, d), queue)
      BY <2>6 DEF TimerFires
    <3> DEFINE result == IF now < d THEN Observe(waiting) ELSE HandleTimer(waiting, now, d)
    <3>2. /\ Held(result.state) /\ (~result.ended => Due(result.state, notBefore, now))
          /\ ~result.permit /\ (result.ended => result.state.adv = NoAdvertisement)
          /\ result.state.adv \in {NoAdvertisement, waiting.adv}
      <4>1. CASE now < d
        <5>1. result.state = waiting /\ ~result.permit /\ ~result.ended
          BY <4>1 DEF Observe
        <5> HIDE DEF result
        <5> QED BY <2>2, <5>1
      <4>2. CASE ~(now < d)
        <5>1. result = HandleTimer(waiting, now, d)
          BY <4>2
        <5>2. ~result.permit
          BY <5>1, TimerNoPermit
        <5> HIDE DEF result
        <5> QED BY <2>2, <5>1, <5>2, TimerCases
      <4> QED BY <4>1, <4>2
    <3> HIDE DEF result
    <3>3. Redeem(result, queue)
      BY <3>1 DEF result
    <3> QED BY <2>1, <2>2, <2>3, <3>2, <3>3, RedeemEarned
  <2> QED BY <1>8, <2>4, <2>5, <2>6
<1>9. ASSUME Detect PROVE Heard' /\ Aged' /\ Earned'
  <2>1. UNCHANGED <<pc, stack, now, nextGen, radio, active, queue, waiting, permit, notBefore, phase>>
        /\ radio # None /\ callback'.gen = radio /\ callback'.at = now
    BY <1>9 DEF Detect, scan, device, policy
  <2>2. Place' = Place /\ Running' = Running
    BY <2>1 DEF Place, Running
  <2>3. Heard'
    BY <2>1, <2>2 DEF Heard
  <2>4. Aged'
    BY <2>1, <2>2 DEF Aged, Old
  <2> QED BY <2>1, <2>3, <2>4, EarnedSame
<1>10. ASSUME Deliver PROVE Heard' /\ Aged' /\ Earned'
  <2>1. UNCHANGED <<pc, stack, now, nextGen, radio, active, waiting, permit, notBefore, phase>>
        /\ callback # NoCallback /\ callback' = NoCallback
    BY <1>10 DEF Deliver, device, policy
  <2>2. Place' = Place /\ Running' = Running
    BY <2>1 DEF Place, Running
  <2> DEFINE a == Advertisement(callback.gen, callback.at)
  <2>3. queue' = queue \/ (queue' = Append(queue, a) /\ callback.gen = active)
    BY <1>10 DEF Deliver, Current
  <2>4. a \in AdvType /\ a.gen = callback.gen /\ a.at = callback.at /\ a.gen \in Nat
    BY <2>1 DEF Heard, Advertisement, AdvType
  <2> HIDE DEF a
  <2>5. CASE queue' = queue
    BY <2>1, <2>2, <2>5, EarnedSame DEF Heard, Aged, Old
  <2>6. CASE queue' = Append(queue, a) /\ callback.gen = active
    <3>1. /\ queue \in Seq(AdvType) /\ Len(queue) \in Nat /\ queue' \in Seq(AdvType)
          /\ Len(queue') = Len(queue) + 1
          /\ \A i \in 1 .. Len(queue) : queue'[i] = queue[i]
          /\ queue'[Len(queue) + 1] = a
      BY <2>4, <2>6, AppendProperties DEF Heard
    <3>2. \A i \in 1 .. Len(queue') : i \in 1 .. Len(queue) \/ i = Len(queue) + 1
      BY <3>1
    <3>3. Heard'
      BY <2>1, <2>2, <2>4, <2>6, <3>1, <3>2 DEF Heard
    <3>4. Aged'
      BY <2>1, <2>2, <2>4, <2>6, <3>1, <3>2 DEF Aged, Old
    <3> QED BY <2>1, <3>3, <3>4, EarnedSame
  <2> QED BY <2>3, <2>5, <2>6
<1> QED BY <1>1, <1>2, <1>3, <1>4, <1>5, <1>6, <1>7, <1>8, <1>9, <1>10, StillWaiting, StillEarned DEF Next

-----------------------------------------------------------------------------
(* The monitor.  What it knows of the stored incident inc, when the latest       *)
(* callback is not later than the latest failure (failing), as long as no write   *)
(* has failed since.                                                         *)

HealthType == [gen: Int, startedAt: Int, lastAt: Int, latched: BOOLEAN, failureAt: Int,
               context: BOOLEAN, pending: BOOLEAN, active: BOOLEAN, unknown: BOOLEAN,
               initialized: BOOLEAN, retryAt: Int, resolving: BOOLEAN, fatal: BOOLEAN]

Settled(h) == ~h.fatal /\ h.retryAt = None

Knows(h, inc, failing) ==
    /\ h.initialized => ~h.unknown
    /\ h.context /\ ~h.pending => failing
    /\ h.pending => ~failing
    /\ Settled(h) =>
          /\ ~h.context /\ ~h.pending => (inc <=> failing)
          /\ h.initialized => (h.active <=> inc)
          /\ h.latched /\ ~h.context => inc
          /\ h.gen # None /\ ~h.unknown /\ ~h.active /\ ~h.context => ~inc

LEMMA Times == NoTime = None /\ None \in Int
BY DEF NoTime, None

LEMMA OpenKnows ==
    ASSUME NEW h \in HealthType, NEW t \in Nat, NEW inc \in BOOLEAN, NEW f \in BOOLEAN, Knows(h, inc, f),
           ~h.resolving, NEW q, q = StartOpen(h, t)
    PROVE  /\ q \in HealthType /\ Knows(q, inc, TRUE)
           /\ q.gen = h.gen /\ q.failureAt = t /\ ~q.resolving /\ q.retryAt = h.retryAt
           /\ q.initialized = h.initialized
<1> DEFINE failed == [h EXCEPT !.failureAt = t, !.pending = FALSE]
<1>1. failed \in HealthType
  <2>1. t \in Int
    OBVIOUS
  <2> QED BY <2>1 DEF HealthType
<1>2. /\ failed.gen = h.gen /\ failed.failureAt = t /\ failed.retryAt = h.retryAt
      /\ failed.resolving = h.resolving /\ failed.initialized = h.initialized
      /\ failed.unknown = h.unknown /\ failed.active = h.active /\ failed.fatal = h.fatal
  BY DEF HealthType
<1>3. failed.context = h.context /\ failed.latched = h.latched /\ failed.pending = FALSE
  BY DEF HealthType
<1> HIDE DEF failed
<1>4. CASE h.latched
  <2>1. q = failed
    BY <1>4 DEF StartOpen, failed
  <2> QED BY <1>1, <1>2, <1>3, <1>4, <2>1 DEF Knows, Settled
<1>5. CASE ~h.latched
  <2>1. q = [failed EXCEPT !.context = TRUE, !.latched = TRUE]
    BY <1>5 DEF StartOpen, failed
  <2>2. q \in HealthType
    BY <1>1, <2>1 DEF HealthType
  <2>3. /\ q.gen = failed.gen /\ q.failureAt = failed.failureAt /\ q.retryAt = failed.retryAt
        /\ q.resolving = failed.resolving /\ q.initialized = failed.initialized
        /\ q.unknown = failed.unknown /\ q.active = failed.active /\ q.fatal = failed.fatal
    BY <1>1, <2>1 DEF HealthType
  <2>4. q.context = TRUE /\ q.latched = TRUE /\ q.pending = failed.pending
    BY <1>1, <2>1 DEF HealthType
  <2> QED BY <1>1, <1>2, <1>3, <2>2, <2>3, <2>4 DEF Knows, Settled
<1> QED BY <1>4, <1>5

(* A callback of the running scan, heard at time at.                            *)
LEMMA ActivityFields ==
    ASSUME NEW h \in HealthType, NEW at \in Nat, NEW q, q = RadioActivity(h, h.gen, at)
    PROVE  /\ q \in HealthType
           /\ q.gen = h.gen /\ q.failureAt = h.failureAt /\ q.retryAt = h.retryAt
           /\ q.context = h.context /\ q.resolving = h.resolving /\ q.fatal = h.fatal
           /\ q.active = h.active /\ q.unknown = h.unknown /\ q.initialized = h.initialized
           /\ \/ /\ h.failureAt # None /\ at <= h.failureAt
                 /\ q.pending = h.pending /\ q.latched = h.latched
              \/ /\ ~(h.failureAt # None /\ at <= h.failureAt) /\ (h.active \/ h.unknown \/ h.context)
                 /\ q.pending /\ q.latched = h.latched
              \/ /\ ~(h.failureAt # None /\ at <= h.failureAt) /\ ~(h.active \/ h.unknown \/ h.context)
                 /\ q.pending = h.pending /\ ~q.latched
<1> DEFINE heard == [h EXCEPT !.lastAt = Latest(@, at)]
<1>1. Latest(h.lastAt, at) \in Int
  BY DEF Latest, HealthType
<1>2. heard \in HealthType
  BY <1>1 DEF HealthType
<1>3. /\ heard.gen = h.gen /\ heard.failureAt = h.failureAt /\ heard.retryAt = h.retryAt
      /\ heard.resolving = h.resolving /\ heard.initialized = h.initialized
      /\ heard.unknown = h.unknown /\ heard.active = h.active /\ heard.fatal = h.fatal
  BY DEF HealthType
<1>4. heard.context = h.context /\ heard.latched = h.latched /\ heard.pending = h.pending
  BY DEF HealthType
<1> HIDE DEF heard
<1>5. CASE h.failureAt # None /\ at <= h.failureAt
  <2>1. q = heard
    BY <1>5, Times DEF RadioActivity, heard
  <2> QED BY <1>2, <1>3, <1>4, <1>5, <2>1
<1>6. CASE ~(h.failureAt # None /\ at <= h.failureAt) /\ (h.active \/ h.unknown \/ h.context)
  <2>1. q = [heard EXCEPT !.pending = TRUE]
    BY <1>6, Times DEF RadioActivity, heard
  <2>2. q \in HealthType
    BY <1>2, <2>1 DEF HealthType
  <2>3. /\ q.gen = heard.gen /\ q.failureAt = heard.failureAt /\ q.retryAt = heard.retryAt
        /\ q.resolving = heard.resolving /\ q.initialized = heard.initialized
        /\ q.unknown = heard.unknown /\ q.active = heard.active /\ q.fatal = heard.fatal
    BY <1>2, <2>1 DEF HealthType
  <2>4. q.context = heard.context /\ q.latched = heard.latched /\ q.pending = TRUE
    BY <1>2, <2>1 DEF HealthType
  <2> QED BY <1>3, <1>4, <1>6, <2>2, <2>3, <2>4
<1>7. CASE ~(h.failureAt # None /\ at <= h.failureAt) /\ ~(h.active \/ h.unknown \/ h.context)
  <2>1. q = [heard EXCEPT !.latched = FALSE]
    BY <1>7, Times DEF RadioActivity, heard
  <2>2. q \in HealthType
    BY <1>2, <2>1 DEF HealthType
  <2>3. /\ q.gen = heard.gen /\ q.failureAt = heard.failureAt /\ q.retryAt = heard.retryAt
        /\ q.resolving = heard.resolving /\ q.initialized = heard.initialized
        /\ q.unknown = heard.unknown /\ q.active = heard.active /\ q.fatal = heard.fatal
    BY <1>2, <2>1 DEF HealthType
  <2>4. q.context = heard.context /\ q.latched = FALSE /\ q.pending = heard.pending
    BY <1>2, <2>1 DEF HealthType
  <2> QED BY <1>3, <1>4, <1>7, <2>2, <2>3, <2>4
<1> QED BY <1>5, <1>6, <1>7

(* A scan that starts, after the stored incident was read, or could not be.       *)
LEMMA InitializedKnows ==
    ASSUME NEW h \in HealthType, NEW inc \in BOOLEAN, NEW f \in BOOLEAN, Knows(h, inc, f),
           NEW q, q = Initialized(h, inc)
    PROVE  /\ q \in HealthType /\ q.initialized /\ ~q.unknown
           /\ q.failureAt = h.failureAt /\ q.resolving = h.resolving
           /\ q.context /\ ~q.pending => f
           /\ q.pending => ~f
           /\ Settled(q) => /\ ~q.context /\ ~q.pending => (inc <=> f)
                            /\ q.active <=> inc
<1> DEFINE known == [h EXCEPT !.active = inc, !.unknown = FALSE, !.initialized = TRUE]
<1>1. known \in HealthType
  BY DEF HealthType
<1>2. /\ known.failureAt = h.failureAt /\ known.retryAt = h.retryAt /\ known.resolving = h.resolving
      /\ known.fatal = h.fatal /\ known.context = h.context /\ known.pending = h.pending
  BY DEF HealthType
<1>3. known.active = inc /\ known.unknown = FALSE /\ known.initialized = TRUE
  BY DEF HealthType
<1> HIDE DEF known
<1>4. CASE h.initialized
  <2>1. q = h
    BY <1>4 DEF Initialized
  <2> QED BY <1>4, <2>1 DEF Knows, Settled
<1>5. CASE ~h.initialized /\ ~inc /\ ~h.context /\ h.pending
  <2>1. q = [known EXCEPT !.pending = FALSE, !.latched = FALSE]
    BY <1>5 DEF Initialized, known
  <2>2. q \in HealthType
    BY <1>1, <2>1 DEF HealthType
  <2>3. /\ q.failureAt = known.failureAt /\ q.retryAt = known.retryAt /\ q.resolving = known.resolving
        /\ q.fatal = known.fatal /\ q.context = known.context /\ q.pending = FALSE
    BY <1>1, <2>1 DEF HealthType
  <2>4. q.active = known.active /\ q.unknown = known.unknown /\ q.initialized = known.initialized
    BY <1>1, <2>1 DEF HealthType
  <2> QED BY <1>2, <1>3, <1>5, <2>2, <2>3, <2>4 DEF Knows, Settled
<1>6. CASE ~h.initialized /\ ~(~inc /\ ~h.context /\ h.pending)
  <2>1. q = known
    BY <1>6 DEF Initialized, known
  <2> QED BY <1>1, <1>2, <1>3, <1>6, <2>1 DEF Knows, Settled
<1> QED BY <1>4, <1>5, <1>6

LEMMA PreparedFields ==
    ASSUME NEW h \in HealthType, NEW g \in Nat, NEW q, q = Prepared(h, g)
    PROVE  /\ q \in HealthType /\ q.gen = g /\ q.failureAt = h.failureAt /\ q.retryAt = h.retryAt
           /\ q.latched = (h.context /\ h.latched) /\ q.context = h.context /\ q.pending = h.pending
           /\ q.active = h.active /\ q.unknown = h.unknown /\ q.initialized = h.initialized
           /\ q.resolving = h.resolving /\ q.fatal = h.fatal
<1>1. NoTime \in Int /\ g \in Int /\ (h.context /\ h.latched) \in BOOLEAN
  BY Times
<1>2. q = [h EXCEPT !.latched = h.context /\ h.latched, !.gen = g, !.startedAt = NoTime, !.lastAt = NoTime]
  BY DEF Prepared
<1>3. q \in HealthType
  BY <1>1, <1>2 DEF HealthType
<1>4. q.gen = g /\ q.failureAt = h.failureAt /\ q.retryAt = h.retryAt
  BY <1>2 DEF HealthType
<1>5. q.latched = (h.context /\ h.latched) /\ q.context = h.context /\ q.pending = h.pending
  BY <1>2 DEF HealthType
<1>6. /\ q.active = h.active /\ q.unknown = h.unknown /\ q.initialized = h.initialized
      /\ q.resolving = h.resolving /\ q.fatal = h.fatal
  BY <1>2 DEF HealthType
<1> QED BY <1>3, <1>4, <1>5, <1>6

LEMMA PreparedKnows ==
    ASSUME NEW h \in HealthType, NEW g \in Nat, NEW inc \in BOOLEAN, NEW f \in BOOLEAN, Knows(h, inc, f),
           ~h.resolving, NEW k, k = Initialized(h, inc) \/ (k = NotInitialized(h) /\ ~h.initialized),
           NEW q, q = Prepared(k, g)
    PROVE  q \in HealthType /\ Knows(q, inc, f) /\ q.gen = g /\ q.failureAt = h.failureAt /\ ~q.resolving
<1>1. CASE k = Initialized(h, inc)
  <2>1. /\ k \in HealthType /\ k.initialized /\ ~k.unknown
        /\ k.failureAt = h.failureAt /\ k.resolving = h.resolving
        /\ k.context /\ ~k.pending => f
        /\ k.pending => ~f
        /\ Settled(k) => /\ ~k.context /\ ~k.pending => (inc <=> f)
                         /\ k.active <=> inc
    BY <1>1, InitializedKnows
  <2> QED BY <2>1, PreparedFields DEF Knows, Settled
<1>2. CASE k = NotInitialized(h) /\ ~h.initialized
  <2>1. k = [h EXCEPT !.unknown = TRUE]
    BY <1>2 DEF NotInitialized
  <2>2. k \in HealthType
    BY <2>1 DEF HealthType
  <2>3. /\ k.failureAt = h.failureAt /\ k.retryAt = h.retryAt /\ k.resolving = h.resolving
        /\ k.fatal = h.fatal /\ k.context = h.context /\ k.pending = h.pending
        /\ k.initialized = h.initialized /\ k.active = h.active /\ k.unknown = TRUE
    BY <2>1 DEF HealthType
  <2> QED BY <1>2, <2>2, <2>3, PreparedFields DEF Knows, Settled
<1> QED BY <1>1, <1>2

(* What never touches the incident.                                             *)
Same(h, q) ==
    /\ q \in HealthType /\ q.failureAt = h.failureAt /\ q.retryAt = h.retryAt
    /\ q.latched = h.latched /\ q.context = h.context /\ q.pending = h.pending
    /\ q.active = h.active /\ q.unknown = h.unknown /\ q.initialized = h.initialized
    /\ q.fatal = h.fatal

LEMMA SameKnows ==
    ASSUME NEW h, NEW q, NEW inc, NEW f, Same(h, q), q.gen \in {h.gen, None}, Knows(h, inc, f)
    PROVE  Knows(q, inc, f)
BY DEF Same, Knows, Settled

LEMMA ScanFields ==
    ASSUME NEW h \in HealthType, NEW g, NEW t \in Nat
    PROVE  /\ Same(h, ScanStarted(h, g, t)) /\ ScanStarted(h, g, t).gen = h.gen
           /\ ScanStarted(h, g, t).resolving = h.resolving
           /\ Same(h, ScanStopping(h, g)) /\ ScanStopping(h, g).gen = h.gen
           /\ ScanStopping(h, g).resolving = h.resolving
           /\ Same(h, ScanStopped(h, g)) /\ ScanStopped(h, g).gen \in {h.gen, None}
           /\ ScanStopped(h, g).resolving = h.resolving
<1>0. Same(h, h) /\ NoTime \in Int /\ t \in Int
  BY Times DEF Same
<1>1. ASSUME NEW u \in Int, NEW q, q = [h EXCEPT !.startedAt = u]
      PROVE  Same(h, q) /\ q.gen = h.gen /\ q.resolving = h.resolving
  <2>1. q \in HealthType
    BY <1>1 DEF HealthType
  <2>2. q.failureAt = h.failureAt /\ q.retryAt = h.retryAt /\ q.gen = h.gen
    BY <1>1 DEF HealthType
  <2>3. /\ q.latched = h.latched /\ q.context = h.context /\ q.pending = h.pending
        /\ q.active = h.active /\ q.unknown = h.unknown /\ q.initialized = h.initialized
        /\ q.fatal = h.fatal /\ q.resolving = h.resolving
    BY <1>1 DEF HealthType
  <2> QED BY <2>1, <2>2, <2>3 DEF Same
<1>2. ASSUME NEW u \in Int, NEW q, q = [h EXCEPT !.startedAt = u, !.gen = u]
      PROVE  Same(h, q) /\ q.gen = u /\ q.resolving = h.resolving
  <2>1. q \in HealthType
    BY <1>2 DEF HealthType
  <2>2. q.failureAt = h.failureAt /\ q.retryAt = h.retryAt /\ q.gen = u
    BY <1>2 DEF HealthType
  <2>3. /\ q.latched = h.latched /\ q.context = h.context /\ q.pending = h.pending
        /\ q.active = h.active /\ q.unknown = h.unknown /\ q.initialized = h.initialized
        /\ q.fatal = h.fatal /\ q.resolving = h.resolving
    BY <1>2 DEF HealthType
  <2> QED BY <2>1, <2>2, <2>3 DEF Same
<1>3. Same(h, ScanStarted(h, g, t)) /\ ScanStarted(h, g, t).gen = h.gen
      /\ ScanStarted(h, g, t).resolving = h.resolving
  BY <1>0, <1>1 DEF ScanStarted
<1>4. Same(h, ScanStopping(h, g)) /\ ScanStopping(h, g).gen = h.gen
      /\ ScanStopping(h, g).resolving = h.resolving
  BY <1>0, <1>1 DEF ScanStopping
<1>5. Same(h, ScanStopped(h, g)) /\ ScanStopped(h, g).gen \in {h.gen, None}
      /\ ScanStopped(h, g).resolving = h.resolving
  BY <1>0, <1>2, Times DEF ScanStopped
<1> QED BY <1>3, <1>4, <1>5

LEMMA FailedKnows ==
    ASSUME NEW h \in HealthType, NEW t \in Nat, NEW inc \in BOOLEAN, NEW f \in BOOLEAN, Knows(h, inc, f),
           ~h.resolving, NEW q, q = ScanStartFailed(h, h.gen, t) \/ q = ScanStopFailed(h, h.gen, t)
    PROVE  q \in HealthType /\ Knows(q, inc, TRUE) /\ q.gen = h.gen /\ q.failureAt = t /\ ~q.resolving
<1> DEFINE p == StartOpen(h, t)
<1> HIDE DEF p
<1>1. p \in HealthType /\ Knows(p, inc, TRUE) /\ p.gen = h.gen /\ p.failureAt = t /\ ~p.resolving
  <2>1. p = StartOpen(h, t)
    BY DEF p
  <2> QED BY <2>1, OpenKnows DEF Knows, Settled
<1>2. CASE q = p
  BY <1>1, <1>2
<1>3. CASE q = [p EXCEPT !.startedAt = NoTime]
  <2>1. q \in HealthType
    BY <1>1, <1>3, Times DEF HealthType
  <2>2. q.failureAt = p.failureAt /\ q.retryAt = p.retryAt /\ q.gen = p.gen
    BY <1>1, <1>3 DEF HealthType
  <2>3. /\ q.latched = p.latched /\ q.context = p.context /\ q.pending = p.pending
        /\ q.active = p.active /\ q.unknown = p.unknown /\ q.initialized = p.initialized
        /\ q.fatal = p.fatal /\ q.resolving = p.resolving
    BY <1>1, <1>3 DEF HealthType
  <2>4. Knows(q, inc, TRUE)
    BY <1>1, <2>1, <2>2, <2>3, SameKnows DEF Same
  <2> QED BY <1>1, <2>1, <2>2, <2>3, <2>4
<1> QED BY <1>2, <1>3 DEF ScanStartFailed, ScanStopFailed, p

(* A write that ended.                                                         *)
LEMMA OpenedKnows ==
    ASSUME NEW h \in HealthType, NEW inc, NEW f \in BOOLEAN, Knows(h, inc, f), h.context,
           NEW q, q = Opened(h)
    PROVE  /\ q \in HealthType /\ Knows(q, TRUE, f)
           /\ q.gen = h.gen /\ q.failureAt = h.failureAt /\ q.resolving = h.resolving
<1>1. q = [h EXCEPT !.active = TRUE, !.context = FALSE, !.retryAt = NoTime]
  BY DEF Opened
<1>2. q \in HealthType
  BY <1>1, Times DEF HealthType
<1>3. /\ q.gen = h.gen /\ q.failureAt = h.failureAt
      /\ q.active = TRUE /\ q.context = FALSE /\ q.pending = h.pending
      /\ q.unknown = h.unknown /\ q.initialized = h.initialized /\ q.resolving = h.resolving
  BY <1>1 DEF HealthType
<1> QED BY <1>2, <1>3 DEF Knows

LEMMA ResolvedKnows ==
    ASSUME NEW h \in HealthType, NEW inc, NEW f \in BOOLEAN, Knows(h, inc, f), ~h.context, h.pending,
           NEW q, q = Resolved(h)
    PROVE  /\ q \in HealthType /\ Knows(q, FALSE, f)
           /\ q.gen = h.gen /\ q.failureAt = h.failureAt /\ ~q.resolving
<1> DEFINE told == [h EXCEPT !.active = FALSE, !.unknown = FALSE, !.resolving = FALSE, !.retryAt = NoTime]
<1>1. told \in HealthType
  BY Times DEF HealthType
<1>2. /\ told.gen = h.gen /\ told.failureAt = h.failureAt
      /\ told.active = FALSE /\ told.unknown = FALSE /\ told.resolving = FALSE /\ told.context = h.context
  BY DEF HealthType
<1>3. q = [told EXCEPT !.pending = FALSE, !.latched = FALSE]
  BY DEF Resolved
<1> HIDE DEF told
<1>4. q \in HealthType
  BY <1>1, <1>3 DEF HealthType
<1>5. /\ q.gen = told.gen /\ q.failureAt = told.failureAt
      /\ q.active = told.active /\ q.unknown = told.unknown /\ q.resolving = told.resolving
      /\ q.context = told.context /\ q.pending = FALSE /\ q.latched = FALSE
  BY <1>1, <1>3 DEF HealthType
<1> QED BY <1>2, <1>4, <1>5 DEF Knows

LEMMA UnstoredFields ==
    ASSUME NEW h \in HealthType, NEW t \in Nat, NEW q, q = PersistFailed(h, t) \/ q = PersistFatal(h)
    PROVE  /\ q \in HealthType /\ ~Settled(q)
           /\ q.context = h.context /\ q.pending = h.pending
           /\ q.unknown = h.unknown /\ q.initialized = h.initialized
           /\ q.gen = h.gen /\ q.failureAt = h.failureAt /\ ~q.resolving
<1>0. t + RetryDelay \in Nat
  BY HealthAssumption
<1>1. CASE q = PersistFailed(h, t)
  <2>1. q = [h EXCEPT !.retryAt = t + RetryDelay, !.resolving = FALSE]
    BY <1>1 DEF PersistFailed
  <2>2. q \in HealthType
    <3>1. t + RetryDelay \in Int
      BY <1>0
    <3> QED BY <2>1, <3>1 DEF HealthType
  <2>3. /\ q.gen = h.gen /\ q.failureAt = h.failureAt /\ q.retryAt = t + RetryDelay
        /\ q.context = h.context /\ q.pending = h.pending
        /\ q.unknown = h.unknown /\ q.initialized = h.initialized /\ q.resolving = FALSE
    BY <2>1 DEF HealthType
  <2>4. ~Settled(q)
    BY <1>0, <2>3 DEF Settled, None
  <2> QED BY <2>2, <2>3, <2>4
<1>2. CASE q = PersistFatal(h)
  <2>1. q = [h EXCEPT !.fatal = TRUE, !.resolving = FALSE]
    BY <1>2 DEF PersistFatal
  <2>2. q \in HealthType
    BY <2>1 DEF HealthType
  <2>3. /\ q.gen = h.gen /\ q.failureAt = h.failureAt /\ q.fatal = TRUE
        /\ q.context = h.context /\ q.pending = h.pending
        /\ q.unknown = h.unknown /\ q.initialized = h.initialized /\ q.resolving = FALSE
    BY <2>1 DEF HealthType
  <2>4. ~Settled(q)
    BY <2>3 DEF Settled
  <2> QED BY <2>2, <2>3, <2>4
<1> QED BY <1>1, <1>2

-----------------------------------------------------------------------------
(* The incident.                                                              *)

(* Nothing is left to store, unless a write has failed.                         *)
NothingLeft(h) == Settled(h) => ~h.context /\ ~(h.pending /\ (h.active \/ h.unknown))

Recorded(h, inc, heard, failed) ==
    /\ h \in HealthType /\ Knows(h, inc, heard <= failed)
    /\ failed >= 0 => h.failureAt = failed
    /\ h.failureAt # None => h.failureAt = failed

Dated ==
    /\ incident \in BOOLEAN /\ heardAt \in Int /\ failedAt \in Int
    /\ heardAt <= now /\ failedAt <= now
    /\ callback # NoCallback => callback.at \in Nat /\ callback.at <= now

Owned ==
    /\ active # None => health.gen = active
    /\ stopping.gen # None => health.gen = stopping.gen

Writes ==
    /\ health.resolving => pc = "resolving"
    /\ pc = "opening" => health.context
    /\ pc = "resolving" => ~health.context /\ health.pending
    /\ pc \in {"look", "done"} \/ (pc = "wait" /\ ~changed) => NothingLeft(health)

Told == Recorded(health, incident, heardAt, failedAt) /\ Dated /\ Owned /\ Writes

LEMMA SameRecorded ==
    ASSUME NEW h, NEW q, NEW inc, NEW heard, NEW failed, Recorded(h, inc, heard, failed), Same(h, q),
           q.gen \in {h.gen, None}
    PROVE  Recorded(q, inc, heard, failed)
BY SameKnows DEF Recorded, Same

LEMMA PersistTold ==
    ASSUME NEW h \in HealthType, NEW places, NEW x, Head(places) = x, x \notin Storing \cup {"wait"},
           ~h.resolving, Persisting(h, places), now \in Nat
    PROVE  Writes' /\ Same(h, health') /\ health'.gen = h.gen
<1>1. CASE Goto(places) /\ health' = h /\ ~ToOpen(h, now) /\ ~ToResolve(h, now)
  <2>1. NothingLeft(h)
    <3>1. Settled(h) => MayPersist(h, now)
      BY DEF Settled, MayPersist, None
    <3> QED BY <1>1, <3>1 DEF NothingLeft, ToOpen, ToResolve
  <2>2. pc' = x
    BY <1>1 DEF Goto
  <2> QED BY <1>1, <2>1, <2>2 DEF Writes, Same, Storing
<1>2. CASE pc' = "opening" /\ health' = h /\ ToOpen(h, now)
  BY <1>2 DEF Writes, Same, ToOpen
<1>3. CASE pc' = "resolving" /\ ToResolve(h, now) /\ health' = [h EXCEPT !.resolving = TRUE]
  <2>1. health' \in HealthType
    BY <1>3 DEF HealthType
  <2>2. health'.gen = h.gen /\ health'.failureAt = h.failureAt /\ health'.retryAt = h.retryAt
    BY <1>3 DEF HealthType
  <2>3. /\ health'.latched = h.latched /\ health'.context = h.context /\ health'.pending = h.pending
        /\ health'.active = h.active /\ health'.unknown = h.unknown
        /\ health'.initialized = h.initialized /\ health'.fatal = h.fatal
    BY <1>3 DEF HealthType
  <2>4. ~h.context /\ h.pending
    BY <1>3 DEF ToResolve
  <2> QED BY <1>3, <2>1, <2>2, <2>3, <2>4 DEF Writes, Same
<1> QED BY <1>1, <1>2, <1>3, Persists

(* Steps that leave the monitor alone, on the way to no rest.                    *)
LEMMA QuietTold ==
    ASSUME Told, Heard, UNCHANGED <<health, incident, heardAt, failedAt, callback, now>>,
           active' \in {active, None}, stopping' = stopping \/ stopping' = NoStop,
           pc \notin Storing, pc' \notin Storing \cup {"look", "done", "wait"}
    PROVE  Told'
<1>1. Recorded(health', incident', heardAt', failedAt') /\ Dated'
  BY DEF Told, Dated
<1>2. Owned'
  BY DEF Told, Owned, NoStop
<1>3. Writes'
  BY DEF Told, Writes, Storing
<1> QED BY <1>1, <1>2, <1>3 DEF Told

(* Steps of the coroutine that change no more of the monitor than its scan.       *)
LEMMA ScanTold ==
    ASSUME Told, Heard, Same(health, health'), health'.gen \in {health.gen, None}, ~health'.resolving,
           UNCHANGED <<incident, heardAt, failedAt, callback, now>>, Owned',
           pc' \notin Storing \cup {"look", "done", "wait"}
    PROVE  Told'
<1>1. Recorded(health', incident', heardAt', failedAt')
  BY SameRecorded DEF Told
<1>2. Dated'
  BY DEF Told, Dated
<1>3. Writes'
  BY DEF Writes, Storing
<1> QED BY <1>1, <1>2, <1>3 DEF Told

LEMMA StopTold ==
    ASSUME NEW force, NEW places, NEW x, Head(places) = x, x \notin Storing \cup {"look", "done", "wait"},
           Told, Heard, BeginStop(force, places), pc \notin Storing,
           UNCHANGED <<incident, heardAt, failedAt, callback, now>>
    PROVE  Told'
<1>1. CASE Goto(places) /\ UNCHANGED <<active, stopping, health>>
  BY <1>1, QuietTold DEF Goto
<1>2. CASE /\ stopping' = [gen |-> active, force |-> force] /\ active' = None
           /\ health' = IF active = None THEN health ELSE ScanStopping(health, active)
           /\ pc' = "stopping"
  <2>1. health \in HealthType /\ ~health.resolving /\ now \in Nat
    BY DEF Told, Recorded, Writes, Storing, Heard
  <2>2. Same(health, health') /\ health'.gen = health.gen /\ ~health'.resolving
    <3>1. CASE active = None
      BY <1>2, <2>1, <3>1 DEF Same
    <3>2. CASE active # None
      BY <1>2, <2>1, <3>2, ScanFields
    <3> QED BY <3>1, <3>2
  <2>3. Owned'
    BY <1>2, <2>2 DEF Told, Owned
  <2> QED BY <1>2, <2>2, <2>3, ScanTold DEF Storing
<1> QED BY <1>1, <1>2, Stops

LEMMA RedeemTold ==
    ASSUME NEW result, NEW rest, Redeem(result, rest), Told, Heard, pc \in Waits,
           UNCHANGED <<incident, heardAt, failedAt, callback, now>>
    PROVE  Told'
<1>0. pc \notin Storing
  BY DEF Waits, Storing
<1>1. CASE BeginStop(FALSE, <<"attempt">>) \/ BeginStop(FALSE, <<"idle">>)
  BY <1>0, <1>1, Tuples, StopTold DEF Storing
<1>2. CASE Goto(<<"step">>) /\ UNCHANGED <<active, stopping, health>>
  <2>1. pc' = "step"
    BY <1>2, Tuples DEF Goto
  <2> QED BY <1>0, <1>2, <2>1, QuietTold DEF Storing
<1> QED BY <1>1, <1>2 DEF Redeem

LEMMA StartTold ==
    ASSUME NEW back, StartScan(back), Told, Heard, Stage, Released, pc \in {"step", "attempt"},
           UNCHANGED <<heardAt, callback, now>>
    PROVE  Told'
<1>1. PICK h : /\ BeginStart(back, h)
               /\ h = Initialized(health, incident) \/ (h = NotInitialized(health) /\ ~health.initialized)
  BY DEF StartScan
<1>2. /\ pc' = "starting" /\ active' = nextGen /\ health' = Prepared(h, nextGen)
      /\ UNCHANGED <<stopping, incident, failedAt>>
  BY <1>1, Tuples DEF BeginStart, Goto
<1>3. health \in HealthType /\ ~health.resolving /\ incident \in BOOLEAN /\ nextGen \in Nat
      /\ Knows(health, incident, heardAt <= failedAt) /\ stopping = NoStop
  BY DEF Told, Recorded, Dated, Writes, Stage, Released
<1> DEFINE f == heardAt <= failedAt
<1>4. f \in BOOLEAN
  OBVIOUS
<1> HIDE DEF f
<1>5. /\ health' \in HealthType /\ Knows(health', incident, f) /\ health'.gen = nextGen
      /\ health'.failureAt = health.failureAt /\ ~health'.resolving
  <2>1. Knows(health, incident, f)
    BY <1>3, Zenon DEF f
  <2> QED BY <1>1, <1>2, <1>3, <1>4, <2>1, PreparedKnows DEF Knows, Settled
<1>6. Recorded(health', incident', heardAt', failedAt')
  BY <1>2, <1>5 DEF Told, Recorded, f
<1>7. Dated' /\ Owned' /\ Writes'
  BY <1>2, <1>3, <1>5 DEF Told, Dated, Owned, Writes, NoStop
<1> QED BY <1>6, <1>7 DEF Told

(* A failure: the monitor records it before it tries to store it.               *)
LEMMA FailureTold ==
    ASSUME NEW h \in HealthType, NEW places, NEW x, Head(places) = x, x \notin Storing \cup {"wait"},
           Told, Heard, Persisting(h, places), Knows(h, incident, TRUE), h.failureAt = now, ~h.resolving,
           h.gen = health.gen, failedAt' = now, UNCHANGED <<incident, heardAt, callback, now>>,
           active' \in {active, None}, stopping' = stopping \/ stopping' = NoStop
    PROVE  Told'
<1>0. now \in Nat /\ heardAt <= now
  BY DEF Told, Dated, Heard
<1>1. Writes' /\ Same(h, health') /\ health'.gen = h.gen
  BY <1>0, PersistTold
<1>2. Recorded(h, incident, heardAt, now)
  BY <1>0 DEF Recorded
<1>3. Recorded(health', incident', heardAt', failedAt')
  BY <1>1, <1>2, SameRecorded
<1>4. Dated'
  BY <1>0 DEF Told, Dated
<1>5. Owned'
  BY <1>1 DEF Told, Owned, NoStop
<1> QED BY <1>1, <1>3, <1>4, <1>5 DEF Told

(* One more try to store what the monitor holds.                               *)
LEMMA FlushTold ==
    ASSUME NEW places, NEW x, Head(places) = x, x \notin Storing \cup {"wait"},
           Told, Heard, pc \notin Storing, Persisting(health, places),
           UNCHANGED <<incident, heardAt, failedAt, callback, now, active, stopping>>
    PROVE  Told'
<1>0. health \in HealthType /\ ~health.resolving /\ now \in Nat
  BY DEF Told, Recorded, Writes, Storing, Heard
<1>1. Writes' /\ Same(health, health') /\ health'.gen = health.gen
  BY <1>0, PersistTold
<1>2. Recorded(health', incident', heardAt', failedAt')
  BY <1>1, SameRecorded DEF Told
<1>3. Dated' /\ Owned'
  BY <1>1 DEF Told, Dated, Owned
<1> QED BY <1>1, <1>2, <1>3 DEF Told

LEMMA StoreTold ==
    ASSUME Told, Heard, Control, OpenOk \/ ResolveOk
    PROVE  Told'
<1>0. now \in Nat /\ pc \in Storing /\ UNCHANGED <<heardAt, failedAt, callback, now, active, stopping>>
  BY DEF Heard, OpenOk, ResolveOk, StoreIdle, scan, Storing
<1>1. Head(stack) \notin Storing \cup {"wait"}
  BY <1>0, AtStoring, Tuples DEF Storing, Cleanups
<1>2. health \in HealthType /\ Knows(health, incident, heardAt <= failedAt)
  BY DEF Told, Recorded
<1> DEFINE f == heardAt <= failedAt
<1>3. f \in BOOLEAN
  OBVIOUS
<1>4. ASSUME NEW h \in HealthType, Knows(h, incident', heardAt <= failedAt), h.gen = health.gen,
             h.failureAt = health.failureAt, ~h.resolving, Persisting(h, stack), incident' \in BOOLEAN
      PROVE  Told'
  <2>1. Writes' /\ Same(h, health') /\ health'.gen = h.gen
    BY <1>0, <1>1, <1>4, PersistTold
  <2>2. Recorded(h, incident', heardAt', failedAt')
    BY <1>0, <1>4 DEF Told, Recorded
  <2>3. Recorded(health', incident', heardAt', failedAt')
    BY <2>1, <2>2, SameRecorded
  <2>4. Dated' /\ Owned'
    BY <1>0, <1>4, <2>1 DEF Told, Dated, Owned
  <2> QED BY <2>1, <2>3, <2>4 DEF Told
<1>5. CASE OpenOk
  <2> DEFINE h == Opened(health)
  <2>1. pc = "opening" /\ incident' = TRUE /\ Persisting(h, stack)
    BY <1>5 DEF OpenOk
  <2>2. health.context /\ ~health.resolving
    BY <2>1 DEF Told, Writes
  <2> HIDE DEF h
  <2>3. h = Opened(health)
    BY DEF h
  <2>4. h \in HealthType /\ h.gen = health.gen /\ h.failureAt = health.failureAt
        /\ h.resolving = health.resolving
    BY <1>2, <1>3, <2>2, <2>3, OpenedKnows
  <2>5. Knows(h, incident', heardAt <= failedAt)
    BY <1>2, <1>3, <2>1, <2>2, <2>3, OpenedKnows DEF Knows, Settled
  <2> QED BY <1>4, <2>1, <2>2, <2>4, <2>5
<1>6. CASE ResolveOk
  <2> DEFINE h == Resolved(health)
  <2>1. pc = "resolving" /\ incident' = FALSE /\ Persisting(h, stack)
    BY <1>6 DEF ResolveOk
  <2>2. ~health.context /\ health.pending
    BY <2>1 DEF Told, Writes
  <2> HIDE DEF h
  <2>3. h = Resolved(health)
    BY DEF h
  <2>4. h \in HealthType /\ h.gen = health.gen /\ h.failureAt = health.failureAt /\ ~h.resolving
    BY <1>2, <1>3, <2>2, <2>3, ResolvedKnows
  <2>5. Knows(h, incident', heardAt <= failedAt)
    BY <1>2, <1>3, <2>1, <2>2, <2>3, ResolvedKnows DEF Knows, Settled
  <2> QED BY <1>4, <2>1, <2>4, <2>5
<1> QED BY <1>5, <1>6

LEMMA UnstoredTold ==
    ASSUME Told, Heard, Control, StoreFails \/ StoreFatal
    PROVE  Told'
<1>0. now \in Nat /\ pc \in Storing /\ UNCHANGED <<heardAt, failedAt, callback, now, active, stopping>>
      /\ incident' \in {incident, pc = "opening"}
      /\ (health' = PersistFailed(health, now) \/ health' = PersistFatal(health))
  BY DEF Heard, StoreFails, StoreFatal, StoreIdle, scan, Storing
<1>1. pc' \notin Storing
  <2>1. CASE StoreFails
    <3>1. pc' = Head(stack)
      BY <2>1 DEF StoreFails, Return, Goto
    <3> QED BY <1>0, <3>1, AtStoring, Tuples DEF Storing, Cleanups
  <2>2. CASE StoreFatal
    BY <2>2, StoreFatalPlace DEF Storing, Cleanups
  <2> QED BY <2>1, <2>2
<1>2. health \in HealthType /\ Knows(health, incident, heardAt <= failedAt) /\ incident' \in BOOLEAN
  BY <1>0 DEF Told, Recorded, Dated
<1>4. health' \in HealthType /\ ~Settled(health') /\ health'.gen = health.gen
      /\ health'.failureAt = health.failureAt /\ ~health'.resolving
      /\ health'.context = health.context /\ health'.pending = health.pending
      /\ health'.unknown = health.unknown /\ health'.initialized = health.initialized
  BY <1>0, <1>2, UnstoredFields
<1>5. Knows(health', incident', heardAt <= failedAt)
  BY <1>2, <1>4 DEF Knows
<1>6. Recorded(health', incident', heardAt', failedAt')
  BY <1>0, <1>4, <1>5 DEF Told, Recorded
<1>7. Dated' /\ Owned'
  BY <1>0, <1>2, <1>4 DEF Told, Dated, Owned
<1>8. Writes'
  BY <1>1, <1>4 DEF Writes, NothingLeft, Storing
<1> QED BY <1>6, <1>7, <1>8 DEF Told

(* A callback is heard.                                                         *)
LEMMA DeliverTold ==
    ASSUME Told, Heard, Stage, Released, Deliver
    PROVE  Told'
<1>1. /\ callback # NoCallback /\ callback' = NoCallback /\ pc \in Awaits
      /\ UNCHANGED <<now, active, stopping, pc, stack, incident, failedAt>>
  BY DEF Deliver
<1>2. now \in Nat /\ callback.at \in Nat /\ callback.at <= now /\ callback.gen # None
      /\ heardAt \in Int /\ failedAt \in Int /\ incident \in BOOLEAN /\ heardAt <= now
  BY <1>1 DEF Told, Dated, Heard, Released
<1>3. health \in HealthType /\ Knows(health, incident, heardAt <= failedAt)
  BY DEF Told, Recorded
<1>4. CASE ~Current
  <2>1. UNCHANGED <<heardAt, health, changed>>
    BY <1>4 DEF Deliver
  <2>2. Recorded(health', incident', heardAt', failedAt') /\ Dated' /\ Owned' /\ Writes'
    BY <1>1, <2>1 DEF Told, Dated, Owned, Writes
  <2> QED BY <2>2 DEF Told
<1>5. CASE Current
  <2> DEFINE at == callback.at
  <2>1. callback.gen = active /\ phase # "closed" /\ health.gen = callback.gen
    BY <1>2, <1>5 DEF Current, Told, Owned
  <2>2. heardAt' = Latest(heardAt, at) /\ health' = RadioActivity(health, health.gen, at)
        /\ changed' = (changed \/ /\ pc = "wait"
                                  /\ \/ ~cadence.heard
                                     \/ RecoveryWakes(health, health.gen, at, now))
    BY <1>5, <2>1 DEF Deliver
  <2> HIDE DEF at
  <2>3. at \in Nat /\ at <= now /\ health.gen # None
    BY <1>2, <2>1 DEF at
  <2>4. /\ health' \in HealthType
        /\ health'.gen = health.gen /\ health'.failureAt = health.failureAt
        /\ health'.retryAt = health.retryAt
        /\ health'.context = health.context /\ health'.resolving = health.resolving
        /\ health'.fatal = health.fatal /\ health'.active = health.active
        /\ health'.unknown = health.unknown /\ health'.initialized = health.initialized
        /\ health.pending => health'.pending
    BY <1>3, <2>2, <2>3, ActivityFields
  <2>5. heardAt' \in Int /\ heardAt' <= now /\ heardAt' = (IF heardAt > at THEN heardAt ELSE at)
    BY <1>2, <2>2, <2>3 DEF Latest
  <2>6. Knows(health', incident', heardAt' <= failedAt')
    <3>1. CASE health.failureAt # None /\ at <= health.failureAt
      <4>1. health.failureAt = failedAt
        BY <3>1 DEF Told, Recorded
      <4>2. heardAt' <= failedAt' <=> heardAt <= failedAt
        BY <1>1, <1>2, <2>3, <2>5, <3>1, <4>1
      <4>3. Knows(health', incident, heardAt <= failedAt)
        <5>1. health'.pending = health.pending /\ health'.latched = health.latched
          BY <1>3, <2>2, <2>3, <3>1, ActivityFields
        <5> QED BY <1>3, <2>4, <5>1 DEF Knows, Settled
      <4> QED BY <1>1, <4>2, <4>3 DEF Knows
    <3>2. CASE ~(health.failureAt # None /\ at <= health.failureAt)
      <4>1. at > failedAt
        <5>1. CASE health.failureAt = None
          BY <1>2, <2>3, <5>1 DEF Told, Recorded, None
        <5>2. CASE health.failureAt # None
          BY <1>2, <2>3, <3>2, <5>2 DEF Told, Recorded
        <5> QED BY <5>1, <5>2
      <4>2. ~(heardAt' <= failedAt')
        BY <1>1, <1>2, <2>3, <2>5, <4>1
      <4>3. Knows(health', incident, FALSE)
        <5>1. \/ /\ health.active \/ health.unknown \/ health.context
                 /\ health'.pending /\ health'.latched = health.latched
              \/ /\ ~(health.active \/ health.unknown \/ health.context)
                 /\ health'.pending = health.pending /\ ~health'.latched
          BY <1>3, <2>2, <2>3, <3>2, ActivityFields
        <5> QED BY <1>3, <2>3, <2>4, <5>1 DEF Knows, Settled
      <4> QED BY <1>1, <4>2, <4>3 DEF Knows
    <3> QED BY <3>1, <3>2
  <2>7. Recorded(health', incident', heardAt', failedAt')
    BY <1>1, <2>4, <2>6 DEF Told, Recorded
  <2>8. Dated' /\ Owned'
    BY <1>1, <1>2, <2>4, <2>5 DEF Told, Dated, Owned
  <2>9. Writes'
    <3>1. pc' \notin {"look", "done"}
      <4>1. pc # "look"
        BY <1>1 DEF Awaits
      <4>2. pc # "done"
        BY <2>1 DEF Stage, Place, Storing
      <4> QED BY <1>1, <4>1, <4>2
    <3>2. ASSUME pc' = "wait", ~changed', Settled(health'),
                 health'.context \/ (health'.pending /\ (health'.active \/ health'.unknown))
          PROVE  FALSE
      <4>1. ~changed /\ ~RecoveryWakes(health, health.gen, at, now)
        BY <1>1, <2>2, <3>2
      <4>2. Settled(health)
        BY <2>4, <3>2 DEF Settled
      <4>3. ~health.context /\ ~(health.pending /\ (health.active \/ health.unknown))
        BY <1>1, <3>2, <4>1, <4>2 DEF Told, Writes, NothingLeft
      <4>4. health'.pending /\ ~health.pending /\ (health.active \/ health.unknown)
        BY <2>4, <3>2, <4>3
      <4>5. health.retryAt <= now
        BY <1>2, <4>2 DEF Settled, None
      <4> QED BY <2>2, <4>1, <4>4, <4>5 DEF RecoveryWakes
    <3>3. pc' = "wait" /\ ~changed' => NothingLeft(health')
      BY <3>2 DEF NothingLeft
    <3>4. /\ health'.resolving => pc' = "resolving"
          /\ pc' = "opening" => health'.context
          /\ pc' = "resolving" => ~health'.context /\ health'.pending
      BY <1>1, <2>4 DEF Told, Writes
    <3> QED BY <3>1, <3>3, <3>4 DEF Writes
  <2> QED BY <2>7, <2>8, <2>9 DEF Told
<1> QED BY <1>4, <1>5

LEMMA ToldStep ==
    ASSUME Control, Stage, Released, Heard, Told, [Next]_vars
    PROVE  Told'
<1>0. /\ now \in Nat /\ health \in HealthType /\ incident \in BOOLEAN
      /\ Knows(health, incident, heardAt <= failedAt)
      /\ pc \notin Storing => ~health.resolving
  BY DEF Heard, Told, Recorded, Dated, Writes, Storing
<1>1. ASSUME StartOk PROVE Told'
  <2>1. pc = "starting" /\ Goto(stack) /\ health' = ScanStarted(health, active, now)
        /\ UNCHANGED <<incident, heardAt, failedAt, callback, now, active, stopping>>
    BY <1>1 DEF StartOk, Return
  <2>2. stack \in {<<"flush">>, <<"idle">>}
    BY <2>1 DEF Control, Plain, Waits, Cleanups, Storing
  <2>3. pc' \in {"flush", "idle"}
    BY <2>1, <2>2, Tuples DEF Goto
  <2>4. Same(health, health') /\ health'.gen = health.gen /\ ~health'.resolving
    BY <1>0, <2>1, ScanFields DEF Storing
  <2>5. Owned'
    BY <2>1, <2>4 DEF Told, Owned
  <2> QED BY <2>1, <2>3, <2>4, <2>5, ScanTold DEF Storing
<1>2. ASSUME StartFails PROVE Told'
  <2>1. pc = "starting" /\ active' = None /\ failedAt' = now
        /\ UNCHANGED <<incident, heardAt, callback, now, stopping>>
    BY <1>2 DEF StartFails
  <2> DEFINE h == ScanStartFailed(health, active, now)
  <2>2. PICK r \in {"stopped", "failed", "late"} : Persisting(h, <<StartFailed(r)>> \o stack)
    BY <1>2 DEF StartFails
  <2>3. PICK x \in {"flush", "idle"} : stack = <<x>>
    BY <2>1 DEF Control, Plain, Waits, Cleanups, Storing
  <2>4. Head(<<StartFailed(r)>> \o stack) = StartFailed(r) /\ StartFailed(r) \notin Storing \cup {"wait"}
    BY <2>3, Tuples DEF StartFailed, Storing
  <2>5. health.gen = active /\ ~health.resolving
    BY <1>0, <2>1 DEF Stage, Told, Owned, Storing
  <2> HIDE DEF h
  <2>6. h = ScanStartFailed(health, health.gen, now)
    BY <2>5 DEF h
  <2>7. /\ h \in HealthType /\ Knows(h, incident, TRUE) /\ h.gen = health.gen /\ h.failureAt = now
        /\ ~h.resolving
    <3> DEFINE f == heardAt <= failedAt
    <3>0. f \in BOOLEAN
      OBVIOUS
    <3> HIDE DEF f
    <3>1. f \in BOOLEAN /\ Knows(health, incident, f)
      BY <1>0, <3>0, Zenon DEF f
    <3> QED BY <1>0, <2>5, <2>6, <3>1, FailedKnows DEF Knows, Settled
  <2> QED BY <2>1, <2>2, <2>4, <2>7, FailureTold
<1>3. ASSUME StartCancelled PROVE Told'
  <2>1. pc = "starting" /\ pc' = "softcleanup" /\ active' = None /\ health' = ScanStopped(health, active)
        /\ UNCHANGED <<incident, heardAt, failedAt, callback, now, stopping>>
    BY <1>3, Tuples DEF StartCancelled, Goto
  <2>2. Same(health, health') /\ health'.gen \in {health.gen, None} /\ ~health'.resolving
    BY <1>0, <2>1, ScanFields DEF Storing
  <2>3. Owned'
    BY <2>1 DEF Stage, Owned, NoStop
  <2> QED BY <2>1, <2>2, <2>3, ScanTold DEF Storing
<1>4. ASSUME StopOk \/ StopCancelled PROVE Told'
  <2>1. pc = "stopping" /\ stopping' = NoStop
        /\ health' = (IF stopping.gen = None THEN health ELSE ScanStopped(health, stopping.gen))
        /\ UNCHANGED <<incident, heardAt, failedAt, callback, now, active>>
    BY <1>4 DEF StopOk, StopCancelled
  <2>2. pc' \in {"attempt", "idle", "paused", "cancelled", "raise", "closing", "softdone", "stopfailed"}
    <3>1. CASE StopCancelled
      BY <3>1, Tuples DEF StopCancelled, Goto
    <3>2. CASE StopOk
      BY <2>1, <3>2, AtStopping, Tuples DEF StopOk, Return, Goto
    <3> QED BY <1>4, <3>1, <3>2
  <2>3. Same(health, health') /\ health'.gen \in {health.gen, None} /\ ~health'.resolving
    <3>1. CASE stopping.gen = None
      BY <1>0, <2>1, <3>1 DEF Same, Storing
    <3>2. CASE stopping.gen # None
      BY <1>0, <2>1, <3>2, ScanFields DEF Storing
    <3> QED BY <3>1, <3>2
  <2>4. Owned'
    <3>1. active = None
      BY <2>1 DEF Stage, Place, Storing
    <3> QED BY <2>1, <3>1 DEF Owned, NoStop
  <2> QED BY <2>1, <2>2, <2>3, <2>4, ScanTold DEF Storing
<1>5. ASSUME StopFails PROVE Told'
  <2> DEFINE places == <<AfterFailedStop>> \o Tail(stack)
  <2>1. pc = "stopping" /\ stopping' = NoStop /\ UNCHANGED <<incident, heardAt, callback, now, active>>
    BY <1>5 DEF StopFails, records
  <2>2. AfterFailedStop \in {"stopfailed", "softdone", "raise", "closing"}
    BY DEF AfterFailedStop, BestEffort
  <2>3. Head(places) = AfterFailedStop
    BY <2>1, AtStopping, Tuples
  <2>4. CASE stopping.gen = None
    <3>1. Goto(places) /\ UNCHANGED <<health, failedAt>>
      BY <1>5, <2>4 DEF StopFails, records
    <3>2. pc' = AfterFailedStop
      BY <2>3, <3>1 DEF Goto
    <3> QED BY <2>1, <2>2, <3>1, <3>2, QuietTold DEF Storing
  <2>5. CASE stopping.gen # None
    <3> DEFINE h == ScanStopFailed(health, stopping.gen, now)
    <3>1. Persisting(h, places) /\ failedAt' = now
      BY <1>5, <2>5 DEF StopFails
    <3>2. health.gen = stopping.gen /\ ~health.resolving
      BY <1>0, <2>1, <2>5 DEF Told, Owned, Storing
    <3> HIDE DEF h, places
    <3>3. h = ScanStopFailed(health, health.gen, now)
      BY <3>2 DEF h
    <3>4. /\ h \in HealthType /\ Knows(h, incident, TRUE) /\ h.gen = health.gen /\ h.failureAt = now
          /\ ~h.resolving
      <4> DEFINE f == heardAt <= failedAt
      <4>0. f \in BOOLEAN
        OBVIOUS
      <4> HIDE DEF f
      <4>1. f \in BOOLEAN /\ Knows(health, incident, f)
        BY <1>0, <4>0, Zenon DEF f
      <4> QED BY <1>0, <3>2, <3>3, <4>1, FailedKnows DEF Knows, Settled
    <3>5. AfterFailedStop \notin Storing \cup {"wait"}
      BY <2>2 DEF Storing
    <3> QED BY <2>1, <2>3, <3>1, <3>4, <3>5, FailureTold
  <2> QED BY <2>4, <2>5
<1>6. ASSUME CleanupStart PROVE Told'
  <2>1. pc \in Cleanups /\ UNCHANGED <<incident, heardAt, failedAt, callback, now>>
        /\ (BeginStop(TRUE, <<"raise">>) \/ BeginStop(TRUE, <<"softdone">> \o stack))
    BY <1>6 DEF CleanupStart, Cleanups
  <2>2. PICK x \in Back : stack = <<x>>
    BY <2>1, AtCleanup
  <2>3. Head(<<"softdone">> \o stack) = "softdone" /\ Head(<<"raise">>) = "raise"
    BY <2>2, Tuples
  <2>4. pc \notin Storing
    BY <2>1 DEF Cleanups, Storing
  <2>5. CASE BeginStop(TRUE, <<"raise">>)
    BY <2>1, <2>3, <2>4, <2>5, StopTold DEF Storing
  <2>6. CASE BeginStop(TRUE, <<"softdone">> \o stack)
    BY <2>1, <2>3, <2>4, <2>6, StopTold DEF Storing
  <2> QED BY <2>1, <2>5, <2>6
<1>7. ASSUME CloseAfterStopFailure \/ Close \/ CancelWait PROVE Told'
  <2>1. PICK f, x : /\ x \in {"raise", "closing", "cancelled"} /\ BeginStop(f, <<x>>)
    BY <1>7 DEF CloseAfterStopFailure, Close, CancelWait
  <2>2. pc \notin Storing /\ UNCHANGED <<incident, heardAt, failedAt, callback, now>>
    BY <1>7 DEF CloseAfterStopFailure, Close, CancelWait, Waiter, Storing
  <2> QED BY <2>1, <2>2, Tuples, StopTold DEF Storing
<1>8. ASSUME SoftDone PROVE Told'
  <2>1. PICK x \in Back : stack = <<x>>
    BY <1>8, AtCleanup DEF SoftDone
  <2>2. pc = "softdone" /\ pc' = x
        /\ UNCHANGED <<health, incident, heardAt, failedAt, callback, now, active, stopping>>
    BY <1>8, <2>1, Tuples DEF SoftDone, Return, Goto, scan, records
  <2> QED BY <2>2, QuietTold DEF Storing, Back
<1>9. ASSUME CloseFlush \/ StepScans \/ Flush PROVE Told'
  <2>1. PICK x \in {"done", "look"} : Persisting(health, <<x>>)
    BY <1>9 DEF CloseFlush, StepScans, Flush
  <2>2. pc \notin Storing
        /\ UNCHANGED <<incident, heardAt, failedAt, callback, now, active, stopping>>
    BY <1>9 DEF CloseFlush, StepScans, Flush, Waiter, scan, Storing
  <2> QED BY <2>1, <2>2, Tuples, FlushTold DEF Storing
<1>10. ASSUME OpenOk \/ ResolveOk \/ StoreFails \/ StoreFatal PROVE Told'
  BY <1>10, StoreTold, UnstoredTold
<1>11. ASSUME WaitForAttempt \/ WaitOutPause \/ YieldBeforePause \/ ScanIsPaused \/ WaitChanged
              \/ WaitCancelled \/ EndRun
       PROVE  Told'
  <2>1. pc \notin Storing /\ pc' \in {"step", "pausewait", "yield", "raise"}
        /\ UNCHANGED <<health, incident, heardAt, failedAt, callback, now, active, stopping>>
    BY <1>11, Tuples DEF WaitForAttempt, WaitOutPause, YieldBeforePause, ScanIsPaused, WaitChanged,
       WaitCancelled, EndRun, Goto, Waiter, Storing
  <2> QED BY <2>1, QuietTold DEF Storing
<1>12. ASSUME EnterWait PROVE Told'
  <2>1. pc = "look" /\ UNCHANGED <<health, incident, heardAt, failedAt, callback, now, active, stopping>>
        /\ pc' \in {"timer", "wait"}
    BY <1>12, Tuples DEF EnterWait, Goto, Waiter
  <2>2. NothingLeft(health') /\ ~health'.resolving
    BY <1>0, <2>1 DEF Told, Writes, Storing
  <2>3. Writes'
    BY <2>1, <2>2 DEF Writes
  <2>4. Recorded(health', incident', heardAt', failedAt') /\ Dated' /\ Owned'
    BY <2>1 DEF Told, Dated, Owned
  <2> QED BY <2>3, <2>4 DEF Told
<1>13. ASSUME StepStarts PROVE Told'
  BY <1>13, StartTold DEF StepStarts
<1>14. ASSUME FinishAttempt PROVE Told'
  <2>1. pc = "attempt" /\ UNCHANGED <<heardAt, callback, now>>
        /\ (StartScan("idle") \/ (Goto(<<"idle">>) /\ UNCHANGED <<scan, records>>))
    BY <1>14 DEF FinishAttempt
  <2>2. CASE StartScan("idle")
    BY <2>1, <2>2, StartTold
  <2>3. CASE Goto(<<"idle">>) /\ UNCHANGED <<scan, records>>
    <3>1. pc' = "idle" /\ UNCHANGED <<health, incident, failedAt, active, stopping>>
      BY <2>3, Tuples DEF Goto, scan, records
    <3> QED BY <2>1, <3>1, QuietTold DEF Storing
  <2> QED BY <2>1, <2>2, <2>3
<1>15. ASSUME TakeAdvertisement \/ PauseScan \/ TimerFires PROVE Told'
  <2>1. pc \in Waits /\ UNCHANGED <<incident, heardAt, failedAt, callback, now>>
    BY <1>15 DEF TakeAdvertisement, PauseScan, TimerFires, Waits, Waiter
  <2>2. (\E r, q : Redeem(r, q)) \/ BeginStop(FALSE, <<"paused">>)
    BY <1>15 DEF TakeAdvertisement, PauseScan, TimerFires
  <2>3. pc \notin Storing
    BY <2>1 DEF Waits, Storing
  <2>4. CASE BeginStop(FALSE, <<"paused">>)
    BY <2>1, <2>3, <2>4, Tuples, StopTold DEF Storing
  <2> QED BY <2>1, <2>2, <2>4, RedeemTold
<1>16. ASSUME WaitTimesOut PROVE Told'
  <2> DEFINE x == IF pc = "wait" THEN "timer" ELSE "pausetimer"
             h == DeadlineChecked(health, now)
  <2>1. /\ x \in {"timer", "pausetimer"} /\ pc \in {"wait", "pausewait"}
        /\ UNCHANGED <<incident, heardAt, callback, now, active, stopping>>
    BY <1>16 DEF WaitTimesOut, scan
  <2>2. /\ failedAt' = IF h = health THEN failedAt ELSE now
        /\ (Goto(<<x>>) /\ UNCHANGED health /\ h = health) \/ Persisting(h, <<x>>)
    BY <1>16 DEF WaitTimesOut
  <2>3. h = health \/ h = StartOpen(health, now)
    BY DEF DeadlineChecked
  <2> HIDE DEF x, h
  <2>4. CASE Goto(<<x>>) /\ UNCHANGED health /\ h = health
    <3>1. pc' = x /\ failedAt' = failedAt
      BY <2>2, <2>4, Tuples DEF Goto
    <3> QED BY <2>1, <2>4, <3>1, QuietTold DEF Storing
  <2>5. CASE Persisting(h, <<x>>) /\ h = health
    <3>1. failedAt' = failedAt /\ Persisting(health, <<x>>)
      BY <2>2, <2>5
    <3> QED BY <2>1, <3>1, Tuples, FlushTold DEF Storing
  <2>6. CASE Persisting(h, <<x>>) /\ h # health
    <3>1. failedAt' = now /\ h = StartOpen(health, now) /\ ~health.resolving
      BY <1>0, <2>1, <2>2, <2>3, <2>6 DEF Storing
    <3>2. /\ h \in HealthType /\ Knows(h, incident, TRUE) /\ h.gen = health.gen /\ h.failureAt = now
          /\ ~h.resolving
      <4> DEFINE f == heardAt <= failedAt
      <4>0. f \in BOOLEAN
        OBVIOUS
      <4> HIDE DEF f
      <4>1. f \in BOOLEAN /\ Knows(health, incident, f)
        BY <1>0, <4>0, Zenon DEF f
      <4> QED BY <1>0, <3>1, <4>1, OpenKnows DEF Knows, Settled
    <3> QED BY <2>1, <2>6, <3>1, <3>2, Tuples, FailureTold DEF Storing
  <2> QED BY <2>2, <2>4, <2>5, <2>6
<1>17. ASSUME LateStop \/ UNCHANGED vars PROVE Told'
  <2>1. UNCHANGED <<pc, changed, health, incident, heardAt, failedAt, callback, now, active, stopping>>
    BY <1>17 DEF LateStop, vars, scan, records
  <2>2. Recorded(health', incident', heardAt', failedAt') /\ Dated' /\ Owned' /\ Writes'
    BY <2>1 DEF Told, Dated, Owned, Writes
  <2> QED BY <2>2 DEF Told
<1>18. ASSUME Detect \/ Tick PROVE Told'
  <2>1. UNCHANGED <<pc, changed, health, incident, heardAt, failedAt, active, stopping>>
        /\ now' \in {now, now + 1} /\ (callback' = callback \/ callback'.at = now)
    BY <1>18 DEF Detect, Tick, scan, records
  <2>2. Recorded(health', incident', heardAt', failedAt') /\ Owned' /\ Writes'
    BY <2>1 DEF Told, Owned, Writes
  <2>3. Dated'
    BY <1>0, <2>1 DEF Told, Dated
  <2> QED BY <2>2, <2>3 DEF Told
<1>19. ASSUME Deliver PROVE Told'
  BY <1>19, DeliverTold
<1> QED BY <1>1, <1>2, <1>3, <1>4, <1>5, <1>6, <1>7, <1>8, <1>9, <1>10, <1>11, <1>12, <1>13, <1>14,
           <1>15, <1>16, <1>17, <1>18, <1>19 DEF Next

-----------------------------------------------------------------------------
(* The theorems.                                                              *)

IndInv == Control /\ Stage /\ Released /\ Heard /\ Aged /\ Earned /\ Told

LEMMA NewMonitorKnows ==
    ASSUME NEW inc \in BOOLEAN
    PROVE  NewMonitor \in HealthType /\ Knows(NewMonitor, inc, inc)
<1>1. NewMonitor \in HealthType
  BY Times DEF NewMonitor, HealthType
<1>2. /\ ~NewMonitor.initialized /\ ~NewMonitor.context /\ ~NewMonitor.pending /\ ~NewMonitor.latched
      /\ NewMonitor.gen = None
  BY Times DEF NewMonitor
<1> QED BY <1>1, <1>2 DEF Knows

LEMMA InitInv == Init => IndInv
<1> SUFFICES ASSUME Init PROVE IndInv
  OBVIOUS
<1>1. pc = "idle" /\ stack = <<>> /\ Place = "idle"
  BY DEF Init, Place, Storing
<1>2. Control
  BY <1>1 DEF Control, Plain
<1>3. Stage
  BY <1>1 DEF Init, Stage, Cleanups, Waits
<1>4. Released
  BY <1>1 DEF Init, Released, Cleanups, NoCallback
<1>5. Heard
  <2>1. queue = <<>> /\ now = 0 /\ radio = None /\ callback = NoCallback
    BY DEF Init
  <2> QED BY <2>1 DEF Heard
<1>6. Held(waiting) /\ waiting.adv = NoAdvertisement
  BY SearchingHeld, ResumeHeld DEF Init
<1>7. Aged
  BY <1>6 DEF Aged
<1>8. Earned
  BY <1>6 DEF Init, Earned, Due
<1>9. Told
  <2>1. health = NewMonitor /\ incident \in BOOLEAN /\ heardAt = -1 /\ now = 0 /\ callback = NoCallback
        /\ failedAt = (IF incident THEN -1 ELSE -2) /\ active = None /\ stopping = NoStop
    BY DEF Init, None
  <2>2. failedAt \in {-1, -2} /\ ((heardAt <= failedAt) <=> incident)
    BY <2>1
  <2>3. Knows(health, incident, heardAt <= failedAt) /\ health \in HealthType
    <3>1. Knows(health, incident, incident) /\ health \in HealthType
      BY <2>1, NewMonitorKnows
    <3> QED BY <2>1, <2>2, <3>1 DEF Knows
  <2>4. health.failureAt = None /\ ~health.resolving
    BY <2>1, Times DEF NewMonitor
  <2>5. Recorded(health, incident, heardAt, failedAt)
    BY <2>2, <2>3, <2>4 DEF Recorded
  <2>6. Dated
    BY <2>1, <2>2 DEF Dated
  <2>7. Owned /\ Writes
    BY <1>1, <2>1, <2>4 DEF Owned, Writes, NoStop
  <2> QED BY <2>5, <2>6, <2>7 DEF Told
<1> QED BY <1>2, <1>3, <1>4, <1>5, <1>7, <1>8, <1>9 DEF IndInv

LEMMA StepInv ==
    ASSUME IndInv, [Next]_vars
    PROVE  IndInv'
<1>1. Control /\ Stage /\ Released /\ Heard /\ Aged /\ Earned /\ Told /\ nextGen \in Nat
  BY DEF IndInv, Released
<1>2. Control'
  BY <1>1, ControlStep
<1>3. Stage'
  BY <1>1, StageStep
<1>4. Released'
  BY <1>1, ReleasedStep
<1>5. Heard' /\ Aged' /\ Earned'
  BY <1>1, EarnedStep
<1>6. Told'
  BY <1>1, ToldStep
<1> QED BY <1>2, <1>3, <1>4, <1>5, <1>6 DEF IndInv

\* The scheduler is always in a state of the invariant, whatever start, stop, read
\* or write failed, was cancelled or ended late (presence.py, scan_health.py).
THEOREM Inductive == Spec => []IndInv
<1>1. Init => IndInv
  BY InitInv
<1>2. IndInv /\ [Next]_vars => IndInv'
  BY StepInv
<1> QED BY <1>1, <1>2, PTL DEF Spec

\* The session gets a permit only while the collector's own scan is off, and a
\* run that ends without a stop it knows to have failed leaves no scan running,
\* through every failed, cancelled or late start and stop of the observer.
THEOREM ScanStaysReleased == Spec => []ScanIsReleased
<1>1. IndInv => ScanIsReleased
  <2> SUFFICES ASSUME IndInv PROVE ScanIsReleased
    OBVIOUS
  <2>1. pc = "done" => Place = "done"
    BY DEF Place, Storing
  <2> QED BY <2>1 DEF IndInv, Released, ScanIsReleased
<1> QED BY <1>1, Inductive, PTL

\* Every permit rests on observations of one scan that span the stability
\* interval, and comes after the cooldown or backoff of the last attempt, unless
\* the visit of that attempt was given up for absence (presence_machine.py).
THEOREM PermitsAreEarned == Spec => []PermitIsEarned
<1>1. IndInv => PermitIsEarned
  BY DEF IndInv, Earned, PermitIsEarned
<1> QED BY <1>1, Inductive, PTL

\* At rest with nothing to retry, and at the end of the run, the stored incident
\* is open exactly when nothing was heard after the last failure of the scan,
\* whatever was heard while an incident was being stored (scan_health.py).
THEOREM IncidentsAreTruthful == Spec => []IncidentIsTruthful
<1>1. IndInv => IncidentIsTruthful
  <2> SUFFICES ASSUME IndInv, pc \in {"wait", "done"}, ~changed, health.retryAt = None,
                      ~health.fatal, health.initialized
               PROVE  incident <=> heardAt <= failedAt
    BY DEF IncidentIsTruthful
  <2> DEFINE f == heardAt <= failedAt
  <2>1. /\ health \in HealthType /\ incident \in BOOLEAN /\ Writes
        /\ Knows(health, incident, heardAt <= failedAt)
    BY DEF IndInv, Told, Recorded, Dated
  <2>2. Settled(health)
    BY DEF Settled
  <2>3. ~health.context /\ ~(health.pending /\ health.active)
    BY <2>1, <2>2 DEF Writes, NothingLeft
  <2>4. f \in BOOLEAN
    OBVIOUS
  <2> HIDE DEF f
  <2>5. Knows(health, incident, f)
    BY <2>1, Zenon DEF f
  <2>6. incident <=> f
    BY <2>1, <2>2, <2>3, <2>4, <2>5, Zenon DEF Knows
  <2> QED BY <2>6 DEF f
<1> QED BY <1>1, Inductive, PTL
=============================================================================
