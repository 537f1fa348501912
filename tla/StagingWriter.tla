--------------------------- MODULE StagingWriter ---------------------------
(***************************************************************************)
(* The synchronous target that the writer thread owns: _StagingWriterAdapter *)
(* over StagingWriter over SqliteStagedAttempt, with the part of the       *)
(* InternalAudioStore lifecycle that one attempt exercises.  The target is  *)
(* a value; every method is a pair of operators: the guard of its checks    *)
(* (an exception otherwise) and the value it leaves on success.             *)
(*                                                                          *)
(* Positions are arena relative and counted in records.  The arena starts at *)
(* the durable frontier of the attempt, so a prepared attempt holds 0        *)
(* records.  A partial tail is known by its length alone: AttemptWriter      *)
(* publishes only tails that are prefixes of the arena bytes that follow.    *)
(***************************************************************************)
EXTENDS Integers

CONSTANTS Records,    \* records of the arena (and of every READ leg's end)
          TailLimit   \* longest partial tail, in abstract units (< RECORD_SIZE)

ASSUME RecordsAssumption == Records \in Nat \ {0}
ASSUME TailLimitAssumption == TailLimit \in Nat

Phases == {"none", "prepared", "leg_prepared", "receiving", "interrupted", "sealed_waiting"}

Target == [prepared: BOOLEAN, leased: BOOLEAN, phase: Phases, sealed: BOOLEAN,
           prefix: BOOLEAN, closed: BOOLEAN, legBase: 0..Records,
           recs: 0..Records, tail: 0..TailLimit]

NewTarget == [prepared |-> FALSE, leased |-> FALSE, phase |-> "none", sealed |-> FALSE,
              prefix |-> FALSE, closed |-> FALSE, legBase |-> 0, recs |-> 0, tail |-> 0]

-----------------------------------------------------------------------------
RequirePrepared(t) == ~t.closed /\ t.prepared /\ t.leased
RequireReadyForRead(t) == RequirePrepared(t) /\ ~t.sealed
(* _read_started is set by READ_BEGIN and reset by prepare_leg and interrupt, *)
(* as the durable phase "receiving" is.                                       *)
RequireReadyForData(t) == RequireReadyForRead(t) /\ t.phase = "receiving"

CanPrepare(t) == ~t.closed
Prepare(t) == IF t.prepared THEN t
              ELSE [t EXCEPT !.prepared = TRUE, !.leased = TRUE, !.phase = "prepared"]

(* An initial leg covers the whole source; a recovery leg starts at or before *)
(* the durable frontier; a leg that is still receiving cannot be replaced.    *)
CanPrepareLeg(t, start) ==
    /\ RequirePrepared(t)
    /\ start <= t.recs
    /\ t.phase = "prepared" => start = 0
    /\ \/ t.phase \in {"prepared", "interrupted"}
       \/ t.phase = "leg_prepared" /\ start = t.legBase
PrepareLeg(t, start) == [t EXCEPT !.phase = "leg_prepared", !.legBase = start]

CanReadBegin(t) == RequireReadyForRead(t) /\ t.phase \in {"leg_prepared", "receiving"}
ReadBegin(t) == [t EXCEPT !.phase = "receiving"]

CanAppend(t, start, end, tail) ==
    /\ RequireReadyForData(t)
    /\ start >= t.legBase
    /\ end > start \/ tail > 0
    /\ end = Records => tail = 0
    /\ start <= t.recs
    /\ end = start => start = t.recs
(* _resolve_tail: new records replace the stored tail, otherwise the longer   *)
(* of the two compatible tails is kept.                                       *)
AppendChunk(t, end, tail) ==
    IF end > t.recs THEN [t EXCEPT !.recs = end, !.tail = tail]
    ELSE [t EXCEPT !.tail = IF tail > t.tail THEN tail ELSE t.tail]
(* accept_chunk commits page by page, so an exception can leave any committed *)
(* page behind it, or all of them.                                            *)
FailedAppend(t, start, end, tail) ==
    IF CanAppend(t, start, end, tail)
    THEN {t, AppendChunk(t, end, tail)}
         \cup {[t EXCEPT !.recs = k, !.tail = 0] : k \in (t.recs + 1)..(end - 1)}
    ELSE {t}

CanCheckpoint(t) == RequireReadyForData(t)

CanInterrupt(t) == RequireReadyForData(t)
Interrupt(t) == [t EXCEPT !.phase = "interrupted"]

MutantSealsPartial(t) ==
    RequireReadyForRead(t) /\ t.tail = 0 /\ t.phase \in {"receiving", "interrupted"}
CanSeal(t) ==
    /\ RequireReadyForRead(t)
    /\ t.recs = Records /\ t.tail = 0
    /\ t.phase \in {"receiving", "interrupted"}
Seal(t) == [t EXCEPT !.phase = "sealed_waiting", !.sealed = TRUE]

(* An empty prefix is quarantined as unprocessable instead of published.      *)
CanPublishPrefix(t) == RequireReadyForRead(t)
PublishPrefix(t) == [t EXCEPT !.sealed = TRUE, !.prefix = (t.recs > 0)]

(* close() ends the attempt and releases the lease on every path.             *)
Close(t) == [t EXCEPT !.closed = TRUE, !.leased = FALSE]
=============================================================================
