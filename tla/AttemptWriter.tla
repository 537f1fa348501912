--------------------------- MODULE AttemptWriter ---------------------------
(***************************************************************************)
(* AttemptWriter: the event loop publishes a monotone high-water mark of a  *)
(* shared arena and enqueues control commands; one worker thread drains the *)
(* arena into the staging target and runs the commands in order.            *)
(*                                                                          *)
(* Every section that the code runs under self._lock is one step, and so is *)
(* every call of the target, which runs without the lock.  The client is    *)
(* free: it may make any call of the public API at any time.  A call whose  *)
(* transition is rejected or ignored raises or returns and changes nothing.  *)
(***************************************************************************)
EXTENDS StagingWriter, Sequences

CONSTANTS ChunkRecords,         \* WriterConfig.chunk_records
          MaxControlCommands,   \* WriterConfig.max_control_commands
          Errors,               \* exceptions a target call can raise
          NoError

ASSUME ChunkRecordsAssumption == ChunkRecords \in Nat \ {0}
ASSUME MaxControlCommandsAssumption == MaxControlCommands \in Nat \ {0}
ASSUME ErrorsAssumption == NoError \notin Errors

VARIABLES
    state,        \* _state: the lifecycle machine
    commands,     \* _commands: the control queue
    published,    \* _published, in records
    pubTail,      \* length of _published_tail
    written,      \* _written
    wrTail,       \* length of _written_tail
    durable,      \* _durable_record_count (0 before the first acknowledgement)
    sealDone,     \* _seal_completed
    wake,         \* _wake
    pc,           \* where the worker thread is
    cmd,          \* the command it runs, or NoCommand
    drain,        \* the locals of _drain_data
    tgt,          \* the staging target
    call          \* one control call, chosen by the client, followed to its result

lockVars == <<state, commands, published, pubTail, written, wrTail, durable, sealDone>>
workerVars == <<pc, cmd, drain>>
vars == <<lockVars, wake, workerVars, tgt, call>>

Ops == {"prepare", "leg", "read_begin", "checkpoint", "interrupt", "seal", "publish_prefix", "close"}
(* The commands that carry the frontier published when they were admitted.   *)
FrontierOps == {"checkpoint", "interrupt", "seal", "publish_prefix"}
Kinds == {"Constructed", "Preparing", "Prepared", "Reading", "Finalizing", "Finalized",
          "Failed", "Closing", "Closed"}

Command == [op: Ops, hw: 0..Records, tail: 0..TailLimit, leg: 0..Records, tracked: BOOLEAN]
NoCommand == [op |-> "none", hw |-> 0, tail |-> 0, leg |-> 0, tracked |-> FALSE]
NoDrain == [target |-> 0, tail |-> 0, start |-> 0, wtail |-> 0, exact |-> FALSE, wrote |-> FALSE]
NoCall == [st |-> "none", op |-> "none", hw |-> 0, tail |-> 0]

-----------------------------------------------------------------------------
(* The pure lifecycle machine.                                              *)
Plain(kind) == [kind |-> kind, failure |-> NoError, drain |-> FALSE, started |-> FALSE]
FailureOf(s) == s.failure
Failed(s) == FailureOf(s) # NoError

(* The states that answer a request with Admit.                             *)
Admits(s, event) ==
    \/ event = "Start" /\ s.kind = "Constructed"
    \/ event = "Publish" /\ s.kind \in {"Constructed", "Preparing", "Prepared", "Reading"}
    \/ event \in {"Leg", "ReadBegin", "Finalize"} /\ s.kind \in {"Prepared", "Reading"}
    \/ event = "Checkpoint" /\ s.kind = "Reading"
    \/ event = "Close" /\ s.kind \notin {"Closing", "Closed"}

Closing(s) == [kind |-> "Closing", failure |-> FailureOf(s),
               drain |-> s.kind \in {"Reading", "Finalizing", "Finalized"},
               started |-> s.kind # "Constructed"]

OnRequest(s, event) ==
    CASE event = "Start" -> Plain("Preparing")
      [] event = "Finalize" -> Plain("Finalizing")
      [] event = "Close" -> Closing(s)
      [] OTHER -> s

(* READ_BEGIN that completes while closing re-arms the final drain.         *)
MutantNoRearm(s, op) == IF op = "close" THEN [s EXCEPT !.kind = "Closed"] ELSE s
OnClosingResult(s, op) ==
    CASE op = "close" -> [s EXCEPT !.kind = "Closed"]
      [] op = "read_begin" -> [s EXCEPT !.drain = (s.failure = NoError)]
      [] OTHER -> s

OnSuccess(s, op) ==
    CASE s.kind = "Closing" -> OnClosingResult(s, op)
      [] s.kind = "Preparing" /\ op = "prepare" -> Plain("Prepared")
      [] s.kind = "Prepared" /\ op = "read_begin" -> Plain("Reading")
      [] s.kind = "Reading" /\ op = "leg" -> Plain("Prepared")
      [] s.kind = "Finalizing" /\ op \in {"seal", "publish_prefix"} -> Plain("Finalized")
      [] OTHER -> s

FirstFailure(s, error) == IF Failed(s) THEN s.failure ELSE error

OnFailure(s, error) ==
    IF s.kind \in {"Closing", "Closed"}
    THEN [s EXCEPT !.failure = FirstFailure(s, error), !.drain = FALSE]
    ELSE [Plain("Failed") EXCEPT !.failure = FirstFailure(s, error)]

OnCloseFailure(s, error) ==
    [kind |-> "Closed", failure |-> FirstFailure(s, error), drain |-> FALSE,
     started |-> IF s.kind \in {"Closing", "Closed"} THEN s.started ELSE s.kind # "Constructed"]

-----------------------------------------------------------------------------
Init ==
    /\ state = Plain("Constructed")
    /\ commands = <<>>
    /\ published = 0 /\ pubTail = 0
    /\ written = 0 /\ wrTail = 0
    /\ durable = 0
    /\ sealDone = FALSE
    /\ wake = FALSE
    /\ pc = "next" /\ cmd = NoCommand /\ drain = NoDrain
    /\ tgt = NewTarget
    /\ call = NoCall

-----------------------------------------------------------------------------
(* The event-loop side.                                                     *)

(* publish: an older mark, or the same mark with a tail that is no longer, is *)
(* a no-op; a tail ends before the arena does.                                *)
MutantSilentPublish(hw, tail) ==
    /\ Admits(state, "Publish")
    /\ hw > published
    /\ hw = Records => tail = 0
    /\ published' = hw /\ pubTail' = tail
    /\ UNCHANGED <<state, commands, written, wrTail, durable, sealDone, wake, workerVars, tgt, call>>
Publish(hw, tail) ==
    /\ Admits(state, "Publish")
    /\ hw = Records => tail = 0
    /\ hw > published \/ (hw = published /\ tail > pubTail)
    /\ published' = hw /\ pubTail' = tail
    /\ wake' = TRUE
    /\ UNCHANGED <<state, commands, written, wrTail, durable, sealDone, workerVars, tgt, call>>

MutantSilentAdmit(event, op, leg) ==
    /\ Admits(state, event)
    /\ event # "Close" => Len(commands) < MaxControlCommands
    /\ call' = IF call.st = "none"
               THEN [st |-> "pending", op |-> op, hw |-> published, tail |-> pubTail] ELSE call
    /\ commands' = Append(commands, [op |-> op, hw |-> published, tail |-> pubTail,
                                     leg |-> leg, tracked |-> call.st = "none"])
    /\ state' = OnRequest(state, event)
    /\ UNCHANGED <<published, pubTail, written, wrTail, durable, sealDone, wake, workerVars, tgt>>

Admit(event, op, leg) ==
    /\ Admits(state, event)
    /\ event # "Close" => Len(commands) < MaxControlCommands
    /\ \E tracked \in BOOLEAN :
         /\ tracked => call.st = "none"
         /\ commands' = Append(commands, [op |-> op, hw |-> published, tail |-> pubTail,
                                          leg |-> leg, tracked |-> tracked])
         /\ call' = IF tracked
                    THEN [st |-> "pending", op |-> op, hw |-> published, tail |-> pubTail]
                    ELSE call
    /\ state' = OnRequest(state, event)
    /\ wake' = TRUE
    /\ UNCHANGED <<published, pubTail, written, wrTail, durable, sealDone, workerVars, tgt>>

StartCall == Admit("Start", "prepare", 0)
PrepareLegCall == \E leg \in 0..Records : Admit("Leg", "leg", leg)
ReadBeginCall == Admit("ReadBegin", "read_begin", 0)
CheckpointCall == Admit("Checkpoint", "checkpoint", 0)
InterruptCall == Admit("Checkpoint", "interrupt", 0)
SealCall == Admit("Finalize", "seal", 0)
PublishPrefixCall == Admit("Finalize", "publish_prefix", 0)
CloseCall == Admit("Close", "close", 0)

-----------------------------------------------------------------------------
(* The worker thread.                                                       *)

(* A future is completed at most once, in the order of the queue.           *)
Settle(tracked, outcome) == IF tracked THEN [call EXCEPT !.st = outcome] ELSE call

NextCommand ==
    /\ pc = "next"
    /\ IF commands = <<>>
       THEN pc' = "idle" /\ UNCHANGED <<commands, cmd>>
       ELSE pc' = "begin" /\ cmd' = Head(commands) /\ commands' = Tail(commands)
    /\ UNCHANGED <<state, published, pubTail, written, wrTail, durable, sealDone, wake, drain, tgt, call>>

(* _run_idle decides under the lock, then drains or waits without it.       *)
RunIdle ==
    /\ pc = "idle"
    /\ pc' = IF state.kind = "Reading" /\ ~Failed(state) THEN "snapshot" ELSE "wait"
    /\ UNCHANGED <<lockVars, wake, cmd, drain, tgt, call>>

WakeWait ==
    /\ pc = "wait" /\ wake
    /\ pc' = "clear"
    /\ UNCHANGED <<lockVars, wake, cmd, drain, tgt, call>>

WakeClear ==
    /\ pc = "clear"
    /\ wake' = FALSE
    /\ pc' = "next"
    /\ UNCHANGED <<lockVars, cmd, drain, tgt, call>>

(* close drains only while nothing has failed and data can be owed.         *)
MutantDrainsAnyClose(s) == s.kind = "Closing"
DrainsOnClose(s) == s.kind = "Closing" /\ s.failure = NoError /\ s.drain

BeginCommand ==
    /\ pc = "begin"
    /\ IF Failed(state) /\ cmd.op # "close"
       THEN /\ call' = Settle(cmd.tracked, "error")
            /\ pc' = "next" /\ cmd' = NoCommand
       ELSE /\ pc' = IF cmd.op \in FrontierOps \/ (cmd.op = "close" /\ DrainsOnClose(state))
                     THEN "snapshot" ELSE "target"
            /\ UNCHANGED <<call, cmd>>
    /\ UNCHANGED <<lockVars, wake, drain, tgt>>

(* _drain_data reads the frontier it will reach once, under the lock.       *)
MutantWholeArena == IF cmd = NoCommand THEN Records ELSE cmd.hw
DrainTarget == IF cmd = NoCommand THEN published
               ELSE IF cmd.hw < published THEN cmd.hw ELSE published

DrainSnapshot ==
    /\ pc = "snapshot"
    /\ drain' = [target |-> DrainTarget,
                 tail |-> IF cmd = NoCommand THEN pubTail ELSE cmd.tail,
                 start |-> written, wtail |-> wrTail,
                 exact |-> cmd # NoCommand, wrote |-> FALSE]
    /\ pc' = "drain"
    /\ UNCHANGED <<lockVars, wake, cmd, tgt, call>>

ChunkEnd == IF drain.start + ChunkRecords < drain.target
            THEN drain.start + ChunkRecords ELSE drain.target
Following == IF ChunkEnd = drain.target THEN drain.tail ELSE 0

(* One full chunk; an idle drain stops after it to look at the queue again.  *)
DrainChunk ==
    /\ pc = "drain" /\ drain.start < drain.target
    /\ ~drain.exact => ~drain.wrote
    /\ CanAppend(tgt, drain.start, ChunkEnd, Following)
    /\ tgt' = AppendChunk(tgt, ChunkEnd, Following)
    /\ written' = ChunkEnd /\ wrTail' = Following
    /\ drain' = [drain EXCEPT !.start = ChunkEnd, !.wtail = Following, !.wrote = TRUE]
    /\ UNCHANGED <<state, commands, published, pubTail, durable, sealDone, wake, pc, cmd, call>>

TailOwed == drain.start = drain.target /\ drain.tail # drain.wtail

DrainTail ==
    /\ pc = "drain" /\ TailOwed
    /\ CanAppend(tgt, drain.start, drain.start, drain.tail)
    /\ tgt' = AppendChunk(tgt, drain.start, drain.tail)
    /\ wrTail' = drain.tail
    /\ drain' = [drain EXCEPT !.wtail = drain.tail, !.wrote = TRUE]
    /\ UNCHANGED <<state, commands, published, pubTail, written, durable, sealDone, wake, pc, cmd, call>>

(* The drain is over: a command goes on to its target call, an idle round    *)
(* returns to the queue if it wrote and waits otherwise.                     *)
MutantOneChunk ==
    /\ pc = "drain"
    /\ drain.start >= drain.target \/ drain.wrote
    /\ ~TailOwed
    /\ pc' = IF drain.exact THEN "target" ELSE IF drain.wrote THEN "next" ELSE "wait"
    /\ drain' = NoDrain
    /\ UNCHANGED <<lockVars, wake, cmd, tgt, call>>
DrainDone ==
    /\ pc = "drain"
    /\ drain.start >= drain.target \/ (~drain.exact /\ drain.wrote)
    /\ ~TailOwed
    /\ pc' = IF drain.exact THEN "target" ELSE IF drain.wrote THEN "next" ELSE "wait"
    /\ drain' = NoDrain
    /\ UNCHANGED <<lockVars, wake, cmd, tgt, call>>

-----------------------------------------------------------------------------
CanRun(t, c) ==
    CASE c.op = "prepare" -> CanPrepare(t)
      [] c.op = "leg" -> CanPrepareLeg(t, c.leg)
      [] c.op = "read_begin" -> CanReadBegin(t)
      [] c.op = "checkpoint" -> CanCheckpoint(t)
      [] c.op = "interrupt" -> CanInterrupt(t)
      [] c.op = "seal" -> CanSeal(t)
      [] c.op = "publish_prefix" -> CanPublishPrefix(t)
      [] OTHER -> TRUE

AfterRun(t, c) ==
    CASE c.op = "prepare" -> Prepare(t)
      [] c.op = "leg" -> PrepareLeg(t, c.leg)
      [] c.op = "read_begin" -> ReadBegin(t)
      [] c.op = "checkpoint" -> t
      [] c.op = "interrupt" -> Interrupt(t)
      [] c.op = "seal" -> Seal(t)
      [] c.op = "publish_prefix" -> PublishPrefix(t)
      [] OTHER -> Close(t)

(* What an operation that raises can leave: nothing, or, when the exception  *)
(* followed the commit, its effect.  prepare releases the lease it took, and *)
(* close never keeps it.                                                     *)
AfterFailedRun(t, c) ==
    CASE c.op = "close" -> {Close(t)}
      [] c.op # "close" /\ CanRun(t, c) /\ c.op # "prepare" -> {t, AfterRun(t, c)}
      [] OTHER -> {t}

TargetCall ==
    /\ pc = "target"
    /\ CanRun(tgt, cmd)
    /\ tgt' = AfterRun(tgt, cmd)
    /\ pc' = "settle"
    /\ UNCHANGED <<lockVars, wake, cmd, drain, call>>

(* The success section of _run_command.                                      *)
MutantAckSubmitted ==
    /\ pc = "settle"
    /\ state' = OnSuccess(state, cmd.op)
    /\ sealDone' = (sealDone \/ cmd.op = "seal")
    /\ durable' = IF cmd.op \in {"checkpoint", "interrupt"} THEN published ELSE durable
    /\ call' = Settle(cmd.tracked, "ok")
    /\ pc' = IF cmd.op = "close" THEN "done" ELSE "next"
    /\ cmd' = NoCommand
    /\ UNCHANGED <<commands, published, pubTail, written, wrTail, wake, drain, tgt>>
SettleCommand ==
    /\ pc = "settle"
    /\ state' = OnSuccess(state, cmd.op)
    /\ sealDone' = (sealDone \/ cmd.op = "seal")
    /\ durable' = IF cmd.op \in {"checkpoint", "interrupt"} /\ ~Failed(state')
                  THEN tgt.recs ELSE durable
    /\ call' = Settle(cmd.tracked, IF Failed(state') THEN "error" ELSE "ok")
    /\ pc' = IF cmd.op = "close" THEN "done" ELSE "next"
    /\ cmd' = NoCommand
    /\ UNCHANGED <<commands, published, pubTail, written, wrTail, wake, drain, tgt>>

IsClose(c) == c.op = "close"

(* Close is admitted once, so at most one close is queued.                   *)
QueuedClose == {i \in DOMAIN commands : IsClose(commands[i])}
Surviving == IF QueuedClose = {} THEN <<>> ELSE <<commands[CHOOSE i \in QueuedClose : TRUE]>>

(* _record_failure: latch the first error and fail every queued call but     *)
(* close, which stays queued; then complete the failing call itself.         *)
MutantDropClose(error) ==
    /\ state' = IF cmd.op = "close" THEN OnCloseFailure(state, error) ELSE OnFailure(state, error)
    /\ commands' = <<>>
    /\ call' = Settle(cmd.tracked \/ \E i \in DOMAIN commands : commands[i].tracked, "error")
    /\ pc' = IF cmd.op = "close" THEN "done" ELSE "next"
    /\ cmd' = NoCommand /\ drain' = NoDrain
    /\ UNCHANGED <<published, pubTail, written, wrTail, durable, sealDone, wake>>
RecordFailure(error) ==
    /\ state' = IF cmd.op = "close" THEN OnCloseFailure(state, error) ELSE OnFailure(state, error)
    /\ commands' = Surviving
    /\ call' = Settle(cmd.tracked \/ \E i \in DOMAIN commands : commands[i].tracked /\ ~IsClose(commands[i]),
                      "error")
    /\ pc' = IF cmd.op = "close" THEN "done" ELSE "next"
    /\ cmd' = NoCommand /\ drain' = NoDrain
    /\ UNCHANGED <<published, pubTail, written, wrTail, durable, sealDone, wake>>

(* An exception out of append_chunk, of an idle drain or of a command.       *)
DrainFails ==
    /\ pc = "drain"
    /\ \/ drain.start < drain.target /\ (~drain.exact => ~drain.wrote)
          /\ tgt' \in FailedAppend(tgt, drain.start, ChunkEnd, Following)
       \/ TailOwed
          /\ tgt' \in FailedAppend(tgt, drain.start, drain.start, drain.tail)
    /\ \E error \in Errors : RecordFailure(error)

(* An exception out of the command's own target call.                        *)
TargetFails ==
    /\ pc = "target"
    /\ tgt' \in AfterFailedRun(tgt, cmd)
    /\ \E error \in Errors : RecordFailure(error)

-----------------------------------------------------------------------------
Client ==
    \/ \E hw \in 0..Records, tail \in 0..TailLimit : Publish(hw, tail)
    \/ StartCall \/ PrepareLegCall \/ ReadBeginCall \/ CheckpointCall \/ InterruptCall
    \/ SealCall \/ PublishPrefixCall \/ CloseCall

Worker ==
    \/ NextCommand \/ RunIdle \/ WakeWait \/ WakeClear \/ BeginCommand
    \/ DrainSnapshot \/ DrainChunk \/ DrainTail \/ DrainDone
    \/ TargetCall \/ SettleCommand \/ DrainFails \/ TargetFails

Next == Client \/ Worker

Spec == Init /\ [][Next]_vars

(* The thread is scheduled and every target call returns or raises.          *)
FairSpec == Spec /\ WF_vars(Worker)

-----------------------------------------------------------------------------
(* Properties.                                                               *)

(* Every variable keeps the shape the code gives it.                         *)
TypeOK ==
    /\ state \in [kind: Kinds, failure: Errors \cup {NoError}, drain: BOOLEAN, started: BOOLEAN]
    /\ commands \in Seq(Command)
    /\ published \in 0..Records /\ pubTail \in 0..TailLimit
    /\ written \in 0..Records /\ wrTail \in 0..TailLimit
    /\ durable \in 0..Records
    /\ sealDone \in BOOLEAN /\ wake \in BOOLEAN
    /\ pc \in {"next", "idle", "wait", "clear", "begin", "snapshot", "drain", "target", "settle", "done"}
    /\ cmd \in Command \cup {NoCommand}
    /\ drain \in [target: 0..Records, tail: 0..TailLimit, start: 0..Records, wtail: 0..TailLimit,
                  exact: BOOLEAN, wrote: BOOLEAN]
    /\ tgt \in Target
    /\ call \in [st: {"none", "pending", "ok", "error"}, op: Ops \cup {"none"},
                 hw: 0..Records, tail: 0..TailLimit]

(* The thread drains in order: the target never holds a record that was not  *)
(* published, and never misses one that the writer counts as written, even   *)
(* after an append whose outcome is unknown.                                 *)
NoGapNoInvention == written <= tgt.recs /\ tgt.recs <= published

(* A checkpoint, interrupt, seal or prefix publication that answers success  *)
(* has stored everything published before the call was made, tail included.  *)
ResultCoversFrontier ==
    call.st = "ok" /\ call.op \in FrontierOps =>
        \/ tgt.recs > call.hw
        \/ tgt.recs = call.hw /\ tgt.tail >= call.tail

(* The durable count reported to the coordinator is really in the store.     *)
AcknowledgedIsStored == durable <= tgt.recs

(* Once the seal result is retained the source is sealed and holds all the   *)
(* arena: no published byte is left out of a sealed source.                  *)
SealIsComplete == sealDone => tgt.sealed /\ tgt.recs = Records /\ published = Records

(* A clean close of an attempt that is still receiving stored everything the *)
(* event loop published, even when READ_BEGIN was queued when close came.    *)
CleanCloseDrains ==
    state.kind = "Closed" /\ ~Failed(state) /\ tgt.phase = "receiving" /\ ~tgt.sealed
        => written = published /\ tgt.tail >= pubTail

(* The first exception of the target stays the writer's failure.             *)
FirstFailureLatched == [][Failed(state) => FailureOf(state') = FailureOf(state)]_vars

(* After a failure the target is only closed: nothing is appended, sealed or *)
(* acknowledged any more.                                                    *)
NothingAfterFailure == [][Failed(state) => tgt' \in {tgt, Close(tgt)} /\ durable' = durable]_vars

(* The writer implements the abstract durable frontier: the coordinator may   *)
(* forget the thread, the queue and the chunks.                               *)
Frontier == INSTANCE DurableFrontier WITH
    Capacity <- Records, submitted <- published, stored <- tgt.recs, acked <- durable,
    final <- tgt.sealed, failed <- Failed(state)
ImplementsFrontier == Frontier!Spec

(* Every admitted control call gets its result: no wake-up is lost and no    *)
(* failure drops a future.                                                   *)
CallSettles == (call.st = "pending") ~> (call.st \in {"ok", "error"})

(* Published bytes reach the store without any further call: only leaving    *)
(* Reading, or a queued control call that is served first, can put it off.   *)
PublishedDrains ==
    (state.kind = "Reading" /\ written < published /\ commands = <<>>)
        ~> (written = published \/ state.kind # "Reading" \/ commands # <<>>)

(* The thread ends once close was requested.                                 *)
CloseEnds == (state.kind = "Closing") ~> (pc = "done")

(* When the thread has ended the device lease is released.                   *)
LeaseReleasedAtEnd == pc = "done" => ~tgt.leased
=============================================================================
