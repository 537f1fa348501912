------------------------ MODULE AttemptWriter_proofs ------------------------
(***************************************************************************)
(* Proofs about AttemptWriter, for every arena size, chunk size, queue bound *)
(* and set of errors.  The inductive invariant says where the frontiers     *)
(* stand to each other while the worker drains without the lock, where the  *)
(* worker can be once a failure is latched, and which lifecycle states a    *)
(* finalizing command implies.                                              *)
(***************************************************************************)
EXTENDS AttemptWriter, SequenceTheorems, TLAPS

(* The store is between what the worker counts as written and what the event *)
(* loop published, and the acknowledged count is behind the store.           *)
FrontiersOrdered ==
    /\ written <= tgt.recs /\ tgt.recs <= published
    /\ durable <= tgt.recs

(* The drain's snapshot stays valid although the event loop keeps publishing. *)
SnapshotValid == pc = "drain" => drain.start = written /\ drain.target <= published

(* A failure is latched by the worker itself, so it is never in the middle of *)
(* a drain or of a command other than close when one is latched.             *)
FailureFencesWorker ==
    Failed(state) =>
        /\ state.kind \in {"Failed", "Closing", "Closed"}
        /\ \/ pc \in {"next", "idle", "wait", "clear", "begin", "done"}
           \/ pc \in {"target", "settle"} /\ cmd.op = "close"

(* A seal that ran left a complete source.                                   *)
SealedIsFull ==
    sealDone \/ (pc = "settle" /\ cmd.op = "seal") => tgt.sealed /\ tgt.recs = Records

(* A finalizing command, and its effect, only exist past the reading states.  *)
Late == {"Finalizing", "Finalized", "Failed", "Closing", "Closed"}
FinalOps == {"seal", "publish_prefix"}
FinalizedLate ==
    /\ tgt.sealed => state.kind \in Late
    /\ cmd.op \in FinalOps => state.kind \in Late
    /\ \A i \in DOMAIN commands : commands[i].op \in FinalOps => state.kind \in Late

(* The worker that serves a command has one; an exact drain belongs to it.    *)
WorkerAtCommand ==
    /\ pc \in {"begin", "target", "settle"} => cmd \in Command
    /\ pc = "drain" /\ drain.exact => cmd \in Command

IndInv == TypeOK /\ FrontiersOrdered /\ SnapshotValid /\ FailureFencesWorker
          /\ SealedIsFull /\ FinalizedLate /\ WorkerAtCommand

-----------------------------------------------------------------------------
(* The staging target.                                                       *)

(* An append ends at or past the end of the chunk, and never loses a record.  *)
LEMMA AppendTarget ==
    ASSUME NEW t \in Target, NEW end \in 0..Records, NEW tail \in 0..TailLimit
    PROVE  /\ AppendChunk(t, end, tail) \in Target
           /\ AppendChunk(t, end, tail).recs = IF end > t.recs THEN end ELSE t.recs
           /\ AppendChunk(t, end, tail).sealed = t.sealed
  BY RecordsAssumption, TailLimitAssumption DEF AppendChunk, Target

(* A failed append leaves a committed prefix of the chunk, and nothing at all *)
(* on a sealed target.                                                       *)
LEMMA FailedAppendTarget ==
    ASSUME NEW t \in Target, NEW start \in 0..Records, NEW end \in 0..Records,
           NEW tail \in 0..TailLimit, NEW u \in FailedAppend(t, start, end, tail)
    PROVE  /\ u \in Target /\ u.sealed = t.sealed
           /\ t.recs <= u.recs /\ (u.recs <= t.recs \/ u.recs <= end)
           /\ t.sealed => u = t
<1>0. t.recs \in 0..Records /\ Records \in Nat /\ end \in Nat
  BY RecordsAssumption DEF Target
<1>1. CASE u = t
  BY <1>0, <1>1
<1>2. CASE CanAppend(t, start, end, tail) /\ u # t
  <2>1. ~t.sealed
    BY <1>2 DEF CanAppend, RequireReadyForData, RequireReadyForRead
  <2>2. CASE u = AppendChunk(t, end, tail)
    <3>1. u \in Target /\ u.sealed = t.sealed
      BY <2>2, AppendTarget
    <3>2. u.recs = IF end > t.recs THEN end ELSE t.recs
      BY <2>2, AppendTarget
    <3> QED
      BY <1>0, <2>1, <3>1, <3>2
  <2>3. ASSUME NEW k \in (t.recs + 1)..(end - 1), u = [t EXCEPT !.recs = k, !.tail = 0]
        PROVE  /\ u \in Target /\ u.sealed = t.sealed
               /\ t.recs <= u.recs /\ u.recs <= end
    <3>1. k \in 0..Records /\ 0 \in 0..TailLimit /\ t.recs <= k /\ k <= end
      BY <1>0, TailLimitAssumption
    <3> QED
      BY <2>3, <3>1 DEF Target
  <2> QED
    BY <1>2, <2>1, <2>2, <2>3 DEF FailedAppend
<1> QED
  BY <1>1, <1>2 DEF FailedAppend

(* A publication of a prefix seals the target and stores nothing.            *)
LEMMA PublishTarget ==
    ASSUME NEW t \in Target
    PROVE  PublishPrefix(t) \in Target /\ PublishPrefix(t).recs = t.recs /\ PublishPrefix(t).sealed
<1> DEFINE some == t.recs > 0
<1>1. some \in BOOLEAN
  OBVIOUS
<1>2. PublishPrefix(t) = [t EXCEPT !.sealed = TRUE, !.prefix = some]
  BY DEF PublishPrefix
<1> HIDE DEF some
<1> QED
  BY <1>1, <1>2 DEF Target

(* No command but a drain changes the stored records, none unseals, and a     *)
(* seal that was allowed found every record.                                 *)
LEMMA RunTarget ==
    ASSUME NEW t \in Target, NEW c \in Command
    PROVE  /\ AfterRun(t, c) \in Target
           /\ AfterRun(t, c).recs = t.recs
           /\ AfterRun(t, c).sealed <=> (t.sealed \/ c.op \in FinalOps)
           /\ c.op = "close" => AfterRun(t, c) = Close(t)
           /\ c.op = "seal" /\ CanRun(t, c) => t.recs = Records
<1> DEFINE Kept(u, sealed) == u \in Target /\ u.recs = t.recs /\ (u.sealed <=> sealed)
<1>1. CASE c.op = "prepare"
  <2>1. AfterRun(t, c) = Prepare(t)
    BY <1>1 DEF AfterRun
  <2>2. Kept(Prepare(t), t.sealed)
    BY DEF Prepare, Target, Phases
  <2> QED
    BY <1>1, <2>1, <2>2 DEF FinalOps
<1>2. CASE c.op = "leg"
  <2>1. AfterRun(t, c) = PrepareLeg(t, c.leg)
    BY <1>2 DEF AfterRun
  <2>2. Kept(PrepareLeg(t, c.leg), t.sealed)
    BY DEF PrepareLeg, Target, Phases, Command
  <2> QED
    BY <1>2, <2>1, <2>2 DEF FinalOps
<1>3. CASE c.op = "read_begin"
  <2>1. AfterRun(t, c) = ReadBegin(t)
    BY <1>3 DEF AfterRun
  <2>2. Kept(ReadBegin(t), t.sealed)
    BY DEF ReadBegin, Target, Phases
  <2> QED
    BY <1>3, <2>1, <2>2 DEF FinalOps
<1>4. CASE c.op = "checkpoint"
  <2>1. AfterRun(t, c) = t
    BY <1>4 DEF AfterRun
  <2> QED
    BY <1>4, <2>1 DEF FinalOps
<1>5. CASE c.op = "interrupt"
  <2>1. AfterRun(t, c) = Interrupt(t)
    BY <1>5 DEF AfterRun
  <2>2. Kept(Interrupt(t), t.sealed)
    BY DEF Interrupt, Target, Phases
  <2> QED
    BY <1>5, <2>1, <2>2 DEF FinalOps
<1>6. CASE c.op = "seal"
  <2>1. AfterRun(t, c) = Seal(t) /\ (CanRun(t, c) => CanSeal(t))
    BY <1>6 DEF AfterRun, CanRun
  <2>2. Kept(Seal(t), TRUE)
    BY DEF Seal, Target, Phases
  <2>3. CanSeal(t) => t.recs = Records
    BY DEF CanSeal
  <2> QED
    BY <1>6, <2>1, <2>2, <2>3 DEF FinalOps
<1>7. CASE c.op = "publish_prefix"
  <2>1. AfterRun(t, c) = PublishPrefix(t)
    BY <1>7 DEF AfterRun
  <2> QED
    BY <1>7, <2>1, PublishTarget DEF FinalOps
<1>8. CASE c.op = "close"
  <2>1. AfterRun(t, c) = Close(t)
    BY <1>8 DEF AfterRun
  <2>2. Kept(Close(t), t.sealed)
    BY DEF Close, Target
  <2> QED
    BY <1>8, <2>1, <2>2 DEF FinalOps
<1> QED
  BY <1>1, <1>2, <1>3, <1>4, <1>5, <1>6, <1>7, <1>8 DEF Command, Ops

(* An operation that raises leaves the target as it was, or as the operation  *)
(* would have left it; a close always closes.                                *)
LEMMA FailedRunTarget ==
    ASSUME NEW t \in Target, NEW c \in Command, NEW u \in AfterFailedRun(t, c)
    PROVE  /\ u \in Target /\ u.recs = t.recs
           /\ t.sealed => u.sealed
           /\ u.sealed => t.sealed \/ c.op \in FinalOps
           /\ c.op = "close" => u = Close(t)
<1>1. u = t \/ u = AfterRun(t, c)
  BY DEF AfterFailedRun, AfterRun
<1>2. c.op = "close" => u = Close(t)
  BY DEF AfterFailedRun
<1> QED
  BY <1>1, <1>2, RunTarget

-----------------------------------------------------------------------------
(* The lifecycle machine.                                                    *)

State == [kind: Kinds, failure: Errors \cup {NoError}, drain: BOOLEAN, started: BOOLEAN]
Ended == {"Failed", "Closing", "Closed"}

(* What every transition keeps: the shape, a latched failure, and the way     *)
(* into the late states.                                                     *)
Follows(s, t) ==
    /\ t \in State
    /\ Failed(s) => FailureOf(t) = FailureOf(s)
    /\ Failed(t) => t.kind \in Ended
    /\ s.kind \in Late => t.kind \in Late

(* close keeps the failure and decides whether a drain is owed.              *)
LEMMA ClosingState ==
    ASSUME NEW s \in State
    PROVE  Closing(s) \in State /\ Closing(s).kind = "Closing" /\ Closing(s).failure = s.failure
<1> DEFINE owed == s.kind \in {"Reading", "Finalizing", "Finalized"}
           begun == s.kind # "Constructed"
<1>1. owed \in BOOLEAN /\ begun \in BOOLEAN
  OBVIOUS
<1>2. Closing(s) = [kind |-> "Closing", failure |-> s.failure, drain |-> owed, started |-> begun]
  BY DEF Closing, FailureOf
<1> HIDE DEF owed, begun
<1> QED
  BY <1>1, <1>2 DEF State, Kinds

(* A transition to a plain state is one out of a state without a failure.     *)
LEMMA PlainState ==
    ASSUME NEW s \in State, NEW kind \in Kinds, ~Failed(s), s.kind \in Late => kind \in Late
    PROVE  Follows(s, Plain(kind)) /\ ~Failed(Plain(kind)) /\ Plain(kind).kind = kind
<1>1. Plain(kind) \in State /\ Plain(kind).failure = NoError /\ Plain(kind).kind = kind
  BY DEF Plain, State
<1> QED
  BY <1>1 DEF Follows, Failed, FailureOf

(* An admitted request never clears a failure.                               *)
LEMMA RequestState ==
    ASSUME NEW s \in State, NEW event, Admits(s, event),
           Failed(s) => s.kind \in Ended
    PROVE  /\ Follows(s, OnRequest(s, event))
           /\ Failed(OnRequest(s, event)) <=> Failed(s)
           /\ event = "Finalize" => OnRequest(s, event).kind \in Late
<1>1. CASE event = "Start"
  <2>1. OnRequest(s, event) = Plain("Preparing") /\ s.kind = "Constructed"
    BY <1>1 DEF OnRequest, Admits
  <2>2. ~Failed(s) /\ s.kind \notin Late
    BY <2>1 DEF Ended, Late
  <2> QED
    BY <1>1, <2>1, <2>2, PlainState DEF Kinds
<1>2. CASE event = "Finalize"
  <2>1. OnRequest(s, event) = Plain("Finalizing") /\ s.kind \in {"Prepared", "Reading"}
    BY <1>2 DEF OnRequest, Admits
  <2>2. ~Failed(s) /\ "Finalizing" \in Late
    BY <2>1 DEF Ended, Late
  <2> QED
    BY <1>2, <2>1, <2>2, PlainState DEF Kinds
<1>3. CASE event = "Close"
  <2>1. OnRequest(s, event) = Closing(s)
    BY <1>3 DEF OnRequest
  <2> QED
    BY <1>3, <2>1, ClosingState DEF Follows, Failed, FailureOf, Late, Ended
<1>4. CASE event \notin {"Start", "Finalize", "Close"}
  <2>1. OnRequest(s, event) = s
    BY <1>4 DEF OnRequest
  <2> QED
    BY <1>4, <2>1 DEF Follows, Failed, FailureOf, Late, Ended
<1> QED
  BY <1>1, <1>2, <1>3, <1>4

(* Neither does a result, however late it arrives.                           *)
LEMMA SuccessState ==
    ASSUME NEW s \in State, NEW op, Failed(s) => s.kind \in Ended
    PROVE  /\ Follows(s, OnSuccess(s, op))
           /\ Failed(OnSuccess(s, op)) <=> Failed(s)
<1> DEFINE t == OnSuccess(s, op)
<1>1. CASE s.kind = "Closing"
  <2> DEFINE clean == s.failure = NoError
  <2>1. clean \in BOOLEAN
    OBVIOUS
  <2>2. \/ t = s
        \/ t = [s EXCEPT !.kind = "Closed"]
        \/ t = [s EXCEPT !.drain = clean]
    BY <1>1 DEF OnSuccess, OnClosingResult
  <2> HIDE DEF clean, t
  <2> QED
    BY <1>1, <2>1, <2>2 DEF Follows, State, Kinds, Failed, FailureOf, Late, Ended, t
<1>2. CASE s.kind # "Closing"
  <2>1. \/ t = s
        \/ t = Plain("Prepared") /\ s.kind \in {"Preparing", "Reading"}
        \/ t = Plain("Reading") /\ s.kind = "Prepared"
        \/ t = Plain("Finalized") /\ s.kind = "Finalizing"
    BY <1>2 DEF OnSuccess
  <2>2. CASE t = s
    BY <2>2 DEF Follows
  <2>3. CASE t = Plain("Prepared") /\ s.kind \in {"Preparing", "Reading"}
    <3>1. ~Failed(s) /\ s.kind \notin Late
      BY <2>3 DEF Ended, Late
    <3> QED
      BY <2>3, <3>1, PlainState DEF Kinds
  <2>4. CASE t = Plain("Reading") /\ s.kind = "Prepared"
    <3>1. ~Failed(s) /\ s.kind \notin Late
      BY <2>4 DEF Ended, Late
    <3> QED
      BY <2>4, <3>1, PlainState DEF Kinds
  <2>5. CASE t = Plain("Finalized") /\ s.kind = "Finalizing"
    <3>1. ~Failed(s) /\ "Finalized" \in Late
      BY <2>5 DEF Ended, Late
    <3> QED
      BY <2>5, <3>1, PlainState DEF Kinds
  <2> QED
    BY <2>1, <2>2, <2>3, <2>4, <2>5
<1> QED
  BY <1>1, <1>2

(* Every exception leaves a latched failure: the old one, or itself.         *)
LEMMA FailureState ==
    ASSUME NEW s \in State, NEW error \in Errors
    PROVE  /\ Follows(s, OnFailure(s, error)) /\ Failed(OnFailure(s, error))
           /\ Follows(s, OnCloseFailure(s, error)) /\ Failed(OnCloseFailure(s, error))
<1>1. error # NoError /\ FirstFailure(s, error) \in Errors \cup {NoError}
  BY ErrorsAssumption DEF FirstFailure, State
<1>2. FirstFailure(s, error) # NoError /\ (Failed(s) => FirstFailure(s, error) = FailureOf(s))
  BY <1>1 DEF FirstFailure, Failed, FailureOf
<1>3. Follows(s, OnFailure(s, error)) /\ Failed(OnFailure(s, error))
  BY <1>1, <1>2 DEF OnFailure, Follows, Plain, State, Kinds, Failed, FailureOf, Late, Ended
<1>4. Follows(s, OnCloseFailure(s, error)) /\ Failed(OnCloseFailure(s, error))
  <2> DEFINE begun == IF s.kind \in {"Closing", "Closed"} THEN s.started ELSE s.kind # "Constructed"
  <2>1. begun \in BOOLEAN
    BY DEF State
  <2>2. OnCloseFailure(s, error)
          = [kind |-> "Closed", failure |-> FirstFailure(s, error), drain |-> FALSE, started |-> begun]
    BY DEF OnCloseFailure
  <2> HIDE DEF begun
  <2> QED
    BY <1>1, <1>2, <2>1, <2>2 DEF Follows, State, Kinds, Failed, FailureOf, Late, Ended
<1> QED
  BY <1>3, <1>4

-----------------------------------------------------------------------------
(* The inductive invariant: the initial state and the event-loop side.       *)

(* A new writer (AttemptWriter.__init__: empty queue, nothing published, a    *)
(* target that is not prepared) satisfies the inductive invariant.            *)
THEOREM InitInd == Init => IndInv
<1> SUFFICES ASSUME Init PROVE IndInv
  OBVIOUS
<1>1. Plain("Constructed") \in State /\ Plain("Constructed").failure = NoError
  BY DEF Plain, State, Kinds
<1>2. NewTarget \in Target /\ NewTarget.recs = 0 /\ ~NewTarget.sealed
  BY RecordsAssumption, TailLimitAssumption DEF NewTarget, Target, Phases
<1>3. TypeOK
  <2>1. commands \in Seq(Command) /\ cmd \in Command \cup {NoCommand}
    BY DEF Init
  <2>2. /\ drain \in [target: 0..Records, tail: 0..TailLimit, start: 0..Records, wtail: 0..TailLimit,
                      exact: BOOLEAN, wrote: BOOLEAN]
        /\ call \in [st: {"none", "pending", "ok", "error"}, op: Ops \cup {"none"},
                     hw: 0..Records, tail: 0..TailLimit]
    BY RecordsAssumption, TailLimitAssumption DEF Init, NoDrain, NoCall
  <2>3. state \in State /\ tgt \in Target
    BY <1>1, <1>2 DEF Init
  <2>4. /\ published \in 0..Records /\ written \in 0..Records /\ durable \in 0..Records
        /\ pubTail \in 0..TailLimit /\ wrTail \in 0..TailLimit
    BY RecordsAssumption, TailLimitAssumption DEF Init
  <2>5. sealDone \in BOOLEAN /\ wake \in BOOLEAN /\ pc = "next"
    BY DEF Init
  <2> QED
    BY <2>1, <2>2, <2>3, <2>4, <2>5 DEF TypeOK, State
<1>4. FrontiersOrdered
  BY <1>2 DEF Init, FrontiersOrdered
<1>5. SnapshotValid /\ SealedIsFull /\ WorkerAtCommand
  BY DEF Init, SnapshotValid, SealedIsFull, WorkerAtCommand
<1>6. FailureFencesWorker
  BY <1>1 DEF Init, FailureFencesWorker, Failed, FailureOf
<1>7. FinalizedLate
  BY <1>2 DEF Init, FinalizedLate, FinalOps, NoCommand
<1> QED
  BY <1>3, <1>4, <1>5, <1>6, <1>7 DEF IndInv

(* publish only moves the published frontier, and only forward.              *)
LEMMA PublishStep ==
    ASSUME IndInv, NEW hw \in 0..Records, NEW tail \in 0..TailLimit, Publish(hw, tail)
    PROVE  IndInv'
<1>1. published <= published'
  BY RecordsAssumption DEF Publish, IndInv, TypeOK
<1>2. TypeOK'
  BY DEF Publish, IndInv, TypeOK, workerVars
<1>3. FrontiersOrdered' /\ SnapshotValid'
  BY SMTT(30), <1>1, <1>2, RecordsAssumption
     DEF Publish, IndInv, TypeOK, FrontiersOrdered, SnapshotValid, Target, workerVars
<1>4. FailureFencesWorker' /\ SealedIsFull' /\ FinalizedLate' /\ WorkerAtCommand'
  BY DEF Publish, IndInv, FailureFencesWorker, SealedIsFull, FinalizedLate, WorkerAtCommand, workerVars
<1> QED
  BY <1>2, <1>3, <1>4 DEF IndInv

(* A control call is queued behind the others; only a finalizing call queues  *)
(* a finalizing command.                                                     *)
LEMMA AdmitStep ==
    ASSUME IndInv, NEW event, NEW op \in Ops, NEW leg \in 0..Records, Admit(event, op, leg),
           op \in FinalOps => event = "Finalize"
    PROVE  IndInv'
<1>1. state \in State /\ (Failed(state) => state.kind \in Ended)
  BY DEF IndInv, TypeOK, State, FailureFencesWorker, Ended
<1>2. PICK tracked \in BOOLEAN :
        /\ commands' = Append(commands, [op |-> op, hw |-> published, tail |-> pubTail,
                                         leg |-> leg, tracked |-> tracked])
        /\ call' = IF tracked
                   THEN [st |-> "pending", op |-> op, hw |-> published, tail |-> pubTail]
                   ELSE call
  BY DEF Admit
<1> DEFINE new == [op |-> op, hw |-> published, tail |-> pubTail, leg |-> leg, tracked |-> tracked]
<1>3. new \in Command /\ new.op = op
  BY DEF IndInv, TypeOK, Command
<1>4. /\ Follows(state, state') /\ (Failed(state') <=> Failed(state))
      /\ event = "Finalize" => state'.kind \in Late
  BY <1>1, RequestState DEF Admit
<1>5. /\ commands \in Seq(Command) /\ commands' \in Seq(Command)
      /\ \A i \in DOMAIN commands' : commands'[i] = new \/ (i \in DOMAIN commands /\ commands'[i] = commands[i])
  <2>1. commands \in Seq(Command) /\ commands' = Append(commands, new)
    BY <1>2 DEF IndInv, TypeOK
  <2> HIDE DEF new
  <2> QED
    BY <1>3, <2>1
<1>6. TypeOK'
  <2>1. call' \in [st: {"none", "pending", "ok", "error"}, op: Ops \cup {"none"},
                   hw: 0..Records, tail: 0..TailLimit]
    BY <1>2 DEF IndInv, TypeOK
  <2>2. state' \in [kind: Kinds, failure: Errors \cup {NoError}, drain: BOOLEAN, started: BOOLEAN]
    BY <1>4 DEF Follows, State
  <2> QED
    BY <1>5, <2>1, <2>2 DEF Admit, IndInv, TypeOK, workerVars
<1>7. FrontiersOrdered' /\ SnapshotValid' /\ SealedIsFull' /\ WorkerAtCommand'
  BY DEF Admit, IndInv, FrontiersOrdered, SnapshotValid, SealedIsFull, WorkerAtCommand, workerVars
<1>8. FailureFencesWorker'
  BY <1>4 DEF Admit, IndInv, FailureFencesWorker, Follows, Ended, workerVars
<1>9. FinalizedLate'
  <2>1. state.kind \in Late => state'.kind \in Late
    BY <1>4 DEF Follows
  <2>2. UNCHANGED <<tgt, cmd>>
    BY DEF Admit, workerVars
  <2> HIDE DEF new
  <2> QED
    BY <1>3, <1>4, <1>5, <2>1, <2>2 DEF IndInv, FinalizedLate
<1> QED
  BY <1>6, <1>7, <1>8, <1>9 DEF IndInv

-----------------------------------------------------------------------------
(* The worker thread.                                                        *)

CallType == [st: {"none", "pending", "ok", "error"}, op: Ops \cup {"none"},
             hw: 0..Records, tail: 0..TailLimit]
DrainType == [target: 0..Records, tail: 0..TailLimit, start: 0..Records, wtail: 0..TailLimit,
              exact: BOOLEAN, wrote: BOOLEAN]

(* Completing a future keeps what was asked.                                 *)
LEMMA SettleType ==
    ASSUME call \in CallType, NEW tracked, NEW outcome \in {"ok", "error"}
    PROVE  Settle(tracked, outcome) \in CallType
  BY DEF Settle, CallType

(* Taking a command off the queue and looking at the queue change no frontier. *)
LEMMA QueueStep ==
    ASSUME IndInv, NextCommand \/ RunIdle \/ WakeWait \/ WakeClear
    PROVE  IndInv'
<1>1. CASE NextCommand
  <2>0. commands \in Seq(Command) /\ cmd \in Command \cup {NoCommand}
    BY DEF IndInv, TypeOK
  <2>1. commands \in Seq(Command) /\ commands' \in Seq(Command) /\ cmd' \in Command \cup {NoCommand}
    <3>1. CASE commands = <<>>
      BY <1>1, <2>0, <3>1 DEF NextCommand
    <3>2. CASE commands # <<>>
      <4>1. Head(commands) \in Command /\ Tail(commands) \in Seq(Command)
        BY <2>0, <3>2
      <4> QED
        BY <1>1, <2>0, <3>2, <4>1 DEF NextCommand
    <3> QED
      BY <3>1, <3>2
  <2>2. pc' \in {"idle", "begin"} /\ (pc' = "begin" => cmd' \in Command)
    <3>1. commands # <<>> => Head(commands) \in Command
      BY <2>1
    <3> QED
      BY <1>1, <3>1 DEF NextCommand
  <2>3. TypeOK'
    BY <1>1, <2>1, <2>2 DEF NextCommand, IndInv, TypeOK
  <2>4. FrontiersOrdered' /\ SnapshotValid' /\ SealedIsFull' /\ WorkerAtCommand' /\ FailureFencesWorker'
    BY <1>1, <2>2 DEF NextCommand, IndInv, FrontiersOrdered, SnapshotValid, SealedIsFull,
                      WorkerAtCommand, FailureFencesWorker
  <2>5. FinalizedLate'
    <3>1. CASE commands = <<>>
      BY <1>1, <3>1 DEF NextCommand, IndInv, FinalizedLate
    <3>2. CASE commands # <<>>
      <4>1. cmd' = commands[1] /\ 1 \in DOMAIN commands
        BY <1>1, <3>2, <2>1 DEF NextCommand
      <4>2. \A i \in DOMAIN commands' : i + 1 \in DOMAIN commands /\ commands'[i] = commands[i + 1]
        BY <1>1, <3>2, <2>1 DEF NextCommand
      <4> QED
        BY <1>1, <4>1, <4>2 DEF NextCommand, IndInv, FinalizedLate
    <3> QED
      BY <3>1, <3>2
  <2> QED
    BY <2>3, <2>4, <2>5 DEF IndInv
<1>2. CASE RunIdle \/ WakeWait \/ WakeClear
  <2>1. /\ pc' \in {"snapshot", "wait", "clear", "next"} /\ wake' \in BOOLEAN
        /\ Failed(state) => pc' # "snapshot"
        /\ UNCHANGED <<state, commands, published, pubTail, written, wrTail, durable, sealDone,
                       cmd, drain, tgt, call>>
    BY <1>2 DEF RunIdle, WakeWait, WakeClear, lockVars, IndInv, TypeOK
  <2>2. TypeOK'
    BY <2>1 DEF IndInv, TypeOK
  <2>3. FrontiersOrdered' /\ SnapshotValid' /\ SealedIsFull' /\ WorkerAtCommand'
    BY <2>1 DEF IndInv, FrontiersOrdered, SnapshotValid, SealedIsFull, WorkerAtCommand
  <2>4. FailureFencesWorker' /\ FinalizedLate'
    BY <2>1 DEF IndInv, FailureFencesWorker, FinalizedLate, Failed, FailureOf
  <2> QED
    BY <2>2, <2>3, <2>4 DEF IndInv
<1> QED
  BY <1>1, <1>2

(* After a failure only close goes on to the target, and without a drain.    *)
LEMMA BeginStep ==
    ASSUME IndInv, BeginCommand
    PROVE  IndInv'
<1>1. call' \in CallType
  BY SettleType DEF BeginCommand, IndInv, TypeOK, CallType
<1>2. /\ pc' \in {"next", "snapshot", "target"}
      /\ cmd' \in {cmd, NoCommand} /\ (pc' = "target" => cmd' = cmd)
      /\ cmd \in Command
      /\ UNCHANGED <<state, commands, published, pubTail, written, wrTail, durable, sealDone,
                     wake, drain, tgt>>
  BY DEF BeginCommand, lockVars, IndInv, WorkerAtCommand
<1>3. Failed(state) => pc' = "next" \/ (pc' = "target" /\ cmd'.op = "close")
  BY DEF BeginCommand, DrainsOnClose, FrontierOps, Failed, FailureOf
<1>4. TypeOK'
  BY <1>1, <1>2 DEF IndInv, TypeOK, CallType
<1>5. FrontiersOrdered' /\ SnapshotValid' /\ SealedIsFull' /\ WorkerAtCommand'
  BY <1>2 DEF IndInv, FrontiersOrdered, SnapshotValid, SealedIsFull, WorkerAtCommand
<1>6. FailureFencesWorker'
  BY <1>2, <1>3 DEF IndInv, FailureFencesWorker, Failed, FailureOf
<1>7. FinalizedLate'
  BY <1>2 DEF IndInv, FinalizedLate, NoCommand, FinalOps
<1> QED
  BY <1>4, <1>5, <1>6, <1>7 DEF IndInv

(* The snapshot is within what was published when it was taken.              *)
LEMMA SnapshotStep ==
    ASSUME IndInv, DrainSnapshot
    PROVE  IndInv'
<1>1. DrainTarget \in 0..Records /\ DrainTarget <= published
  BY RecordsAssumption DEF DrainTarget, IndInv, TypeOK, Command, NoCommand
<1> DEFINE owed == IF cmd = NoCommand THEN pubTail ELSE cmd.tail
           all == cmd # NoCommand
<1>2. owed \in 0..TailLimit /\ all \in BOOLEAN /\ (all => cmd \in Command)
  BY DEF IndInv, TypeOK, Command
<1>3. drain' = [target |-> DrainTarget, tail |-> owed, start |-> written, wtail |-> wrTail,
                exact |-> all, wrote |-> FALSE]
  BY DEF DrainSnapshot
<1>4. /\ UNCHANGED <<state, commands, published, pubTail, written, wrTail, durable, sealDone,
                     wake, cmd, tgt, call>>
      /\ pc' = "drain" /\ ~Failed(state)
  BY DEF DrainSnapshot, lockVars, IndInv, FailureFencesWorker
<1> HIDE DEF owed, all
<1>5. /\ drain' \in DrainType /\ drain'.start = written /\ drain'.target <= published
      /\ drain'.exact => cmd \in Command
  BY <1>1, <1>2, <1>3 DEF DrainType, IndInv, TypeOK
<1>6. TypeOK'
  BY <1>4, <1>5 DEF IndInv, TypeOK, DrainType
<1>7. FrontiersOrdered' /\ SnapshotValid' /\ SealedIsFull' /\ WorkerAtCommand'
  BY <1>4, <1>5 DEF IndInv, FrontiersOrdered, SnapshotValid, SealedIsFull, WorkerAtCommand
<1>8. FailureFencesWorker' /\ FinalizedLate'
  BY <1>4 DEF IndInv, FailureFencesWorker, FinalizedLate, Failed, FailureOf
<1> QED
  BY <1>6, <1>7, <1>8 DEF IndInv

(* A chunk lies in the snapshot, which lies in the published arena.          *)
LEMMA ChunkBounds ==
    ASSUME IndInv, pc = "drain"
    PROVE  /\ drain.start < drain.target =>
                 ChunkEnd \in 0..Records /\ drain.start < ChunkEnd /\ ChunkEnd <= drain.target
           /\ Following \in 0..TailLimit
           /\ drain.start = written /\ drain.target <= published
           /\ drain.start \in 0..Records /\ drain.target \in 0..Records
           /\ drain.tail \in 0..TailLimit
  BY RecordsAssumption, TailLimitAssumption, ChunkRecordsAssumption
     DEF ChunkEnd, Following, IndInv, TypeOK, SnapshotValid

(* An append stores up to the end of the chunk and moves written there.      *)
LEMMA DrainStep ==
    ASSUME IndInv, DrainChunk \/ DrainTail \/ DrainDone
    PROVE  IndInv'
<1>1. /\ pc = "drain" /\ ~Failed(state)
      /\ tgt \in Target /\ tgt.recs \in 0..Records /\ Records \in Nat
      /\ written <= tgt.recs /\ tgt.recs <= published /\ durable <= tgt.recs
      /\ written \in Nat /\ published \in Nat /\ durable \in Nat
      /\ drain \in DrainType
  BY SMTT(30), RecordsAssumption DEF DrainChunk, DrainTail, DrainDone, IndInv, FailureFencesWorker, TypeOK,
     Target, DrainType, FrontiersOrdered
<1>2. CASE DrainChunk
  <2>1. ChunkEnd \in 0..Records /\ ChunkEnd <= published /\ Following \in 0..TailLimit
    BY <1>1, <1>2, ChunkBounds DEF DrainChunk
  <2>2. /\ tgt' = AppendChunk(tgt, ChunkEnd, Following) /\ written' = ChunkEnd /\ wrTail' = Following
        /\ drain' = [drain EXCEPT !.start = ChunkEnd, !.wtail = Following, !.wrote = TRUE]
        /\ UNCHANGED <<state, commands, published, pubTail, durable, sealDone, wake, pc, cmd, call>>
        /\ ~tgt.sealed
    BY <1>2 DEF DrainChunk, CanAppend, RequireReadyForData, RequireReadyForRead
  <2>3. tgt' \in Target /\ tgt'.sealed = tgt.sealed
    BY <1>1, <2>1, <2>2, AppendTarget
  <2>4. tgt'.recs = IF ChunkEnd > tgt.recs THEN ChunkEnd ELSE tgt.recs
    BY <1>1, <2>1, <2>2, AppendTarget
  <2>5. drain' \in DrainType /\ drain'.start = written' /\ drain'.target = drain.target
    BY <1>1, <2>1, <2>2 DEF DrainType
  <2>6. TypeOK'
    BY <2>1, <2>2, <2>3, <2>5 DEF IndInv, TypeOK, DrainType
  <2>7. FrontiersOrdered'
    BY <1>1, <2>1, <2>2, <2>4 DEF FrontiersOrdered
  <2>8. SnapshotValid' /\ SealedIsFull' /\ WorkerAtCommand'
    BY <1>1, <2>2, <2>5 DEF IndInv, SnapshotValid, SealedIsFull, WorkerAtCommand
  <2>9. FailureFencesWorker' /\ FinalizedLate'
    BY <1>1, <2>2, <2>3 DEF IndInv, FailureFencesWorker, FinalizedLate, Failed, FailureOf
  <2> QED
    BY <2>6, <2>7, <2>8, <2>9 DEF IndInv
<1>3. CASE DrainTail
  <2>1. /\ drain.start = written /\ drain.start \in 0..Records /\ drain.tail \in 0..TailLimit
    BY <1>1, ChunkBounds
  <2>2. /\ tgt' = AppendChunk(tgt, drain.start, drain.tail) /\ wrTail' = drain.tail
        /\ drain' = [drain EXCEPT !.wtail = drain.tail, !.wrote = TRUE]
        /\ UNCHANGED <<state, commands, published, pubTail, written, durable, sealDone, wake, pc, cmd, call>>
        /\ ~tgt.sealed
    BY <1>3 DEF DrainTail, CanAppend, RequireReadyForData, RequireReadyForRead
  <2>3. tgt' \in Target /\ tgt'.sealed = tgt.sealed
    BY <1>1, <2>1, <2>2, AppendTarget
  <2>4. tgt'.recs = IF drain.start > tgt.recs THEN drain.start ELSE tgt.recs
    BY <1>1, <2>1, <2>2, AppendTarget
  <2>5. drain' \in DrainType /\ drain'.start = drain.start /\ drain'.target = drain.target
    BY <1>1, <2>1, <2>2 DEF DrainType
  <2>6. TypeOK'
    BY <2>1, <2>2, <2>3, <2>5 DEF IndInv, TypeOK, DrainType
  <2>7. FrontiersOrdered'
    BY <1>1, <2>1, <2>2, <2>4 DEF FrontiersOrdered
  <2>8. SnapshotValid' /\ SealedIsFull' /\ WorkerAtCommand'
    BY <1>1, <2>2, <2>5 DEF IndInv, SnapshotValid, SealedIsFull, WorkerAtCommand
  <2>9. FailureFencesWorker' /\ FinalizedLate'
    BY <1>1, <2>2, <2>3 DEF IndInv, FailureFencesWorker, FinalizedLate, Failed, FailureOf
  <2> QED
    BY <2>6, <2>7, <2>8, <2>9 DEF IndInv
<1>4. CASE DrainDone
  <2>1. /\ pc' \in {"target", "next", "wait"} /\ (pc' = "target" => drain.exact)
        /\ drain' = NoDrain
        /\ UNCHANGED <<state, commands, published, pubTail, written, wrTail, durable, sealDone,
                       wake, cmd, tgt, call>>
    BY <1>4 DEF DrainDone, lockVars
  <2>2. NoDrain \in DrainType
    BY RecordsAssumption, TailLimitAssumption DEF NoDrain, DrainType
  <2>3. TypeOK'
    BY <2>1, <2>2 DEF IndInv, TypeOK, DrainType
  <2>4. FrontiersOrdered' /\ SnapshotValid' /\ SealedIsFull'
    BY <2>1 DEF IndInv, FrontiersOrdered, SnapshotValid, SealedIsFull
  <2>5. WorkerAtCommand'
    BY <1>1, <2>1 DEF IndInv, WorkerAtCommand
  <2>6. FailureFencesWorker' /\ FinalizedLate'
    BY <1>1, <2>1 DEF IndInv, FailureFencesWorker, FinalizedLate, Failed, FailureOf
  <2> QED
    BY <2>3, <2>4, <2>5, <2>6 DEF IndInv
<1> QED
  BY <1>2, <1>3, <1>4

(* A command's own call stores nothing: it only moves the lifecycle.         *)
LEMMA TargetStep ==
    ASSUME IndInv, TargetCall
    PROVE  IndInv'
<1>1. /\ cmd \in Command /\ tgt \in Target /\ pc = "target"
      /\ pc' = "settle" /\ tgt' = AfterRun(tgt, cmd) /\ CanRun(tgt, cmd)
      /\ UNCHANGED <<state, commands, published, pubTail, written, wrTail, durable, sealDone,
                     wake, cmd, drain, call>>
  BY DEF TargetCall, lockVars, IndInv, WorkerAtCommand, TypeOK
<1>2. tgt' \in Target /\ tgt'.recs = tgt.recs
  BY <1>1, RunTarget
<1>3. tgt'.sealed <=> (tgt.sealed \/ cmd.op \in FinalOps)
  BY <1>1, RunTarget
<1>4. cmd.op = "seal" => tgt.recs = Records
  BY <1>1, RunTarget
<1>5. TypeOK'
  BY <1>1, <1>2 DEF IndInv, TypeOK
<1>6. FrontiersOrdered' /\ SnapshotValid' /\ WorkerAtCommand'
  BY <1>1, <1>2 DEF IndInv, FrontiersOrdered, SnapshotValid, WorkerAtCommand
<1>7. SealedIsFull'
  BY <1>1, <1>2, <1>3, <1>4 DEF IndInv, SealedIsFull, FinalOps
<1>8. FailureFencesWorker' /\ FinalizedLate'
  BY <1>1, <1>3 DEF IndInv, FailureFencesWorker, FinalizedLate, Failed, FailureOf
<1> QED
  BY <1>5, <1>6, <1>7, <1>8 DEF IndInv

(* The success section acknowledges exactly what the store holds.            *)
LEMMA SettleStep ==
    ASSUME IndInv, SettleCommand
    PROVE  IndInv'
<1>1. /\ cmd \in Command /\ tgt \in Target /\ pc = "settle"
      /\ pc' \in {"next", "done"} /\ cmd' = NoCommand
      /\ UNCHANGED <<commands, published, pubTail, written, wrTail, wake, drain, tgt>>
      /\ state' = OnSuccess(state, cmd.op)
      /\ durable' \in {durable, tgt.recs}
      /\ sealDone' <=> (sealDone \/ cmd.op = "seal")
  BY DEF SettleCommand, IndInv, WorkerAtCommand, TypeOK
<1>2. sealDone' \in BOOLEAN
  BY DEF SettleCommand
<1>3. state \in State /\ (Failed(state) => state.kind \in Ended)
  BY DEF IndInv, TypeOK, State, FailureFencesWorker, Ended
<1>4. Follows(state, state') /\ (Failed(state') <=> Failed(state))
  BY <1>1, <1>3, SuccessState
<1>5. call' \in CallType
  <2>1. call \in CallType
    BY DEF IndInv, TypeOK, CallType
  <2>2. call' = Settle(cmd.tracked, "ok") \/ call' = Settle(cmd.tracked, "error")
    BY DEF SettleCommand
  <2> QED
    BY <2>1, <2>2, SettleType
<1>6. TypeOK'
  <2>1. state' \in State /\ durable' \in 0..Records
    BY <1>1, <1>4 DEF Follows, Target, IndInv, TypeOK
  <2> QED
    BY <1>1, <1>2, <1>5, <2>1 DEF IndInv, TypeOK, CallType, State
<1>7. FrontiersOrdered'
  BY SMTT(30), <1>1, RecordsAssumption DEF IndInv, FrontiersOrdered, TypeOK, Target
<1>8. SnapshotValid' /\ SealedIsFull' /\ WorkerAtCommand'
  BY <1>1 DEF IndInv, SnapshotValid, SealedIsFull, WorkerAtCommand
<1>9. FailureFencesWorker'
  BY <1>1, <1>4 DEF FailureFencesWorker, Follows, Ended
<1>10. FinalizedLate'
  <2>1. state.kind \in Late => state'.kind \in Late
    BY <1>4 DEF Follows
  <2>2. cmd'.op \notin FinalOps
    BY <1>1 DEF NoCommand, FinalOps
  <2> QED
    BY <1>1, <2>1, <2>2 DEF IndInv, FinalizedLate
<1> QED
  BY <1>6, <1>7, <1>8, <1>9, <1>10 DEF IndInv

(* A failure keeps only a close in the queue.                                *)
LEMMA SurvivingQueue ==
    ASSUME commands \in Seq(Command)
    PROVE  /\ Surviving \in Seq(Command)
           /\ \A i \in DOMAIN Surviving : Surviving[i].op \notin FinalOps
<1>1. CASE QueuedClose = {}
  BY <1>1 DEF Surviving
<1>2. CASE QueuedClose # {}
  <2> DEFINE j == CHOOSE i \in QueuedClose : TRUE
             c == commands[j]
  <2>1. j \in QueuedClose
    BY <1>2
  <2>2. c \in Command /\ c.op = "close"
    BY <2>1 DEF QueuedClose, IsClose
  <2>3. Surviving = <<c>>
    BY <1>2 DEF Surviving
  <2> HIDE DEF c
  <2> QED
    BY <2>2, <2>3 DEF FinalOps
<1> QED
  BY <1>1, <1>2

(* A failure that left every stored record where it was, or added published   *)
(* ones, keeps the invariant.                                                *)
LEMMA RecordFailureStep ==
    ASSUME IndInv, pc \in {"drain", "target"}, NEW error \in Errors, RecordFailure(error),
           tgt' \in Target, tgt.recs <= tgt'.recs, tgt'.recs <= published,
           tgt.sealed => tgt'.sealed /\ tgt'.recs = tgt.recs,
           tgt'.sealed => tgt.sealed \/ cmd.op \in FinalOps
    PROVE  IndInv'
<1>1. /\ pc' \in {"next", "done"} /\ cmd' = NoCommand /\ drain' = NoDrain
      /\ UNCHANGED <<published, pubTail, written, wrTail, durable, sealDone, wake>>
      /\ commands' = Surviving
      /\ state' \in {OnFailure(state, error), OnCloseFailure(state, error)}
  BY DEF RecordFailure
<1>2. state \in State /\ commands \in Seq(Command)
  BY DEF IndInv, TypeOK, State
<1>3. Follows(state, state') /\ Failed(state')
  BY <1>1, <1>2, FailureState
<1>4. call' \in CallType
  <2>1. call \in CallType
    BY DEF IndInv, TypeOK, CallType
  <2> DEFINE failed == cmd.tracked \/ \E i \in DOMAIN commands : commands[i].tracked /\ ~IsClose(commands[i])
  <2>2. call' = Settle(failed, "error")
    BY DEF RecordFailure
  <2> HIDE DEF failed
  <2> QED
    BY <2>1, <2>2, SettleType
<1>5. TypeOK'
  <2>1. commands' \in Seq(Command)
    BY <1>1, <1>2, SurvivingQueue
  <2>2. NoDrain \in DrainType
    BY RecordsAssumption, TailLimitAssumption DEF NoDrain, DrainType
  <2>3. state' \in State
    BY <1>3 DEF Follows
  <2> QED
    BY <1>1, <1>4, <2>1, <2>2, <2>3 DEF IndInv, TypeOK, CallType, DrainType, State
<1>6. FrontiersOrdered'
  <2>1. /\ tgt.recs \in Nat /\ tgt'.recs \in Nat /\ written \in Nat /\ durable \in Nat
        /\ written <= tgt.recs /\ durable <= tgt.recs
    BY RecordsAssumption DEF IndInv, TypeOK, Target, FrontiersOrdered
  <2> QED
    BY <1>1, <2>1 DEF FrontiersOrdered
<1>7. SnapshotValid' /\ WorkerAtCommand'
  BY <1>1 DEF SnapshotValid, WorkerAtCommand
<1>8. SealedIsFull'
  BY <1>1 DEF IndInv, SealedIsFull
<1>9. FailureFencesWorker'
  BY <1>1, <1>3 DEF FailureFencesWorker, Follows, Ended
<1>10. FinalizedLate'
  <2>1. state'.kind \in Late
    BY <1>3 DEF Follows, Ended, Late
  <2> QED
    BY <2>1 DEF FinalizedLate
<1> QED
  BY <1>5, <1>6, <1>7, <1>8, <1>9, <1>10 DEF IndInv

(* Neither an exception out of a drain nor one out of a command's call can    *)
(* put the store ahead of what was published.                                *)
LEMMA FailStep ==
    ASSUME IndInv, DrainFails \/ TargetFails
    PROVE  IndInv'
<1>1. tgt \in Target /\ tgt.recs <= published /\ tgt.recs \in Nat /\ published \in Nat
  BY RecordsAssumption DEF IndInv, TypeOK, Target, FrontiersOrdered
<1>2. CASE DrainFails
  <2>1. pc = "drain"
    BY <1>2 DEF DrainFails
  <2>2. PICK error \in Errors : RecordFailure(error)
    BY <1>2 DEF DrainFails
  <2>3. PICK end \in 0..Records, tail \in 0..TailLimit :
          end <= published /\ tgt' \in FailedAppend(tgt, drain.start, end, tail)
    <3>1. CASE drain.start < drain.target /\ tgt' \in FailedAppend(tgt, drain.start, ChunkEnd, Following)
      <4>1. ChunkEnd \in 0..Records /\ ChunkEnd <= published /\ Following \in 0..TailLimit
        BY <1>1, <2>1, <3>1, ChunkBounds
      <4> QED
        BY <3>1, <4>1
    <3>2. CASE tgt' \in FailedAppend(tgt, drain.start, drain.start, drain.tail)
      <4>1. drain.start \in 0..Records /\ drain.start <= published /\ drain.tail \in 0..TailLimit
        BY <2>1, ChunkBounds, <1>1, RecordsAssumption DEF IndInv, FrontiersOrdered, TypeOK
      <4> QED
        BY <3>2, <4>1
    <3> QED
      BY <1>2, <3>1, <3>2 DEF DrainFails
  <2>4. drain.start \in 0..Records
    BY <2>1, ChunkBounds
  <2>5. /\ tgt' \in Target /\ tgt'.sealed = tgt.sealed
        /\ tgt.recs <= tgt'.recs /\ (tgt'.recs <= tgt.recs \/ tgt'.recs <= end)
        /\ tgt.sealed => tgt' = tgt
    BY <1>1, <2>3, <2>4, FailedAppendTarget
  <2>6. tgt'.recs <= published
    <3>1. tgt'.recs \in Nat /\ end \in Nat
      BY <2>5, RecordsAssumption DEF Target
    <3> QED
      BY <1>1, <2>3, <2>5, <3>1
  <2> QED
    BY <2>1, <2>2, <2>5, <2>6, RecordFailureStep
<1>3. CASE TargetFails
  <2>1. pc = "target" /\ tgt' \in AfterFailedRun(tgt, cmd) /\ cmd \in Command
    BY <1>3 DEF TargetFails, IndInv, WorkerAtCommand
  <2>2. PICK error \in Errors : RecordFailure(error)
    BY <1>3 DEF TargetFails
  <2>3. /\ tgt' \in Target /\ tgt'.recs = tgt.recs
        /\ tgt.sealed => tgt'.sealed
        /\ tgt'.sealed => tgt.sealed \/ cmd.op \in FinalOps
    BY <1>1, <2>1, FailedRunTarget
  <2> QED
    BY <1>1, <2>1, <2>2, <2>3, RecordFailureStep
<1> QED
  BY <1>2, <1>3

-----------------------------------------------------------------------------
(* Every step, of the client or of the worker, preserves the invariant.      *)
THEOREM StepInd == IndInv /\ [Next]_vars => IndInv'
<1> SUFFICES ASSUME IndInv, [Next]_vars PROVE IndInv'
  OBVIOUS
<1>1. CASE UNCHANGED vars
  BY <1>1 DEF vars, lockVars, workerVars, IndInv, TypeOK, FrontiersOrdered, SnapshotValid,
              FailureFencesWorker, SealedIsFull, FinalizedLate, WorkerAtCommand, Failed, FailureOf
<1>2. CASE Client
  <2>0. 0 \in 0..Records
    BY RecordsAssumption
  <2>1. ASSUME NEW hw \in 0..Records, NEW tail \in 0..TailLimit, Publish(hw, tail) PROVE IndInv'
    BY <2>1, PublishStep
  <2>2. ASSUME NEW event, NEW op \in Ops, NEW leg \in 0..Records, Admit(event, op, leg),
               op \in FinalOps => event = "Finalize"
        PROVE  IndInv'
    BY <2>2, AdmitStep
  <2>3. CASE StartCall \/ ReadBeginCall \/ CheckpointCall \/ InterruptCall \/ CloseCall
    BY <2>0, <2>2, <2>3 DEF StartCall, ReadBeginCall, CheckpointCall, InterruptCall, CloseCall, Ops, FinalOps
  <2>4. CASE PrepareLegCall
    BY <2>2, <2>4 DEF PrepareLegCall, Ops, FinalOps
  <2>5. CASE SealCall \/ PublishPrefixCall
    BY <2>0, <2>2, <2>5 DEF SealCall, PublishPrefixCall, Ops, FinalOps
  <2> QED
    BY <1>2, <2>1, <2>3, <2>4, <2>5 DEF Client
<1>3. CASE Worker
  BY <1>3, QueueStep, BeginStep, SnapshotStep, DrainStep, TargetStep, SettleStep, FailStep DEF Worker
<1> QED
  BY <1>1, <1>2, <1>3 DEF Next

(* The invariant holds in every behaviour of the writer.                     *)
THEOREM Inductive == Spec => []IndInv
<1> QED
  BY InitInd, StepInd, PTL DEF Spec

(* Every variable keeps its shape, whatever the client calls in whatever      *)
(* order and however the target fails.                                       *)
THEOREM TypeCorrect == Spec => []TypeOK
<1>1. IndInv => TypeOK
  BY DEF IndInv
<1> QED
  BY <1>1, Inductive, PTL

(* The target holds every record the thread counts as written and none that  *)
(* publish did not offer.                                                    *)
THEOREM DrainsInOrder == Spec => []NoGapNoInvention
<1>1. IndInv => NoGapNoInvention
  BY DEF IndInv, FrontiersOrdered, NoGapNoInvention
<1> QED
  BY <1>1, Inductive, PTL

(* _durable_record_count never exceeds what the target committed.            *)
THEOREM NoPrematureAcknowledgement == Spec => []AcknowledgedIsStored
<1>1. IndInv => AcknowledgedIsStored
  BY DEF IndInv, FrontiersOrdered, AcknowledgedIsStored
<1> QED
  BY <1>1, Inductive, PTL

(* A retained seal result means a sealed source that holds the whole arena.  *)
THEOREM SealsOnlyComplete == Spec => []SealIsComplete
<1>1. IndInv => SealIsComplete
  BY RecordsAssumption DEF IndInv, TypeOK, FrontiersOrdered, SealedIsFull, SealIsComplete
<1> QED
  BY <1>1, Inductive, PTL

-----------------------------------------------------------------------------
(* What a step may never do.                                                 *)

(* The steps that can change the lifecycle keep a latched failure.           *)
LEMMA StateStep ==
    ASSUME IndInv, Next
    PROVE  Failed(state) => FailureOf(state') = FailureOf(state)
<1>1. state \in State /\ (Failed(state) => state.kind \in Ended)
  BY DEF IndInv, TypeOK, State, FailureFencesWorker, Ended
<1>2. ASSUME NEW event, NEW op, NEW leg, Admit(event, op, leg)
      PROVE  Follows(state, state')
  BY <1>1, <1>2, RequestState DEF Admit
<1>3. ASSUME NEW error \in Errors, RecordFailure(error)
      PROVE  Follows(state, state')
  BY <1>1, <1>3, FailureState DEF RecordFailure
<1>4. SettleCommand => Follows(state, state')
  BY <1>1, SuccessState DEF SettleCommand
<1>5. CASE Client
  BY <1>2, <1>5 DEF Client, Publish, StartCall, PrepareLegCall, ReadBeginCall, CheckpointCall,
     InterruptCall, SealCall, PublishPrefixCall, CloseCall, Follows
<1>6. CASE NextCommand \/ RunIdle \/ WakeWait \/ WakeClear \/ BeginCommand \/ DrainSnapshot
           \/ DrainChunk \/ DrainTail \/ DrainDone \/ TargetCall
  BY <1>6 DEF NextCommand, RunIdle, WakeWait, WakeClear, BeginCommand, DrainSnapshot, DrainChunk,
     DrainTail, DrainDone, TargetCall, lockVars
<1>7. CASE SettleCommand \/ DrainFails \/ TargetFails
  BY <1>3, <1>4, <1>7 DEF DrainFails, TargetFails, Follows
<1> QED
  BY <1>5, <1>6, <1>7 DEF Next, Worker

(* _record_failure and the closing transitions keep the first exception: no    *)
(* later one, and no result that arrives after it, replaces it.              *)
THEOREM FailureIsLatched == Spec => FirstFailureLatched
<1>1. IndInv /\ [Next]_vars => [Failed(state) => FailureOf(state') = FailureOf(state)]_vars
  BY StateStep
<1> QED
  BY <1>1, Inductive, PTL DEF Spec, FirstFailureLatched

(* With a latched failure the worker can only be closing the target.         *)
LEMMA FencedStep ==
    ASSUME IndInv, Next, Failed(state)
    PROVE  tgt' \in {tgt, Close(tgt)} /\ durable' = durable
<1>1. /\ pc \notin {"snapshot", "drain"}
      /\ pc \in {"target", "settle"} => cmd.op = "close" /\ cmd \in Command
      /\ tgt \in Target
      /\ state \in State /\ state.kind \in Ended
  BY DEF IndInv, TypeOK, State, FailureFencesWorker, WorkerAtCommand, Ended
<1>2. CASE Client
  BY <1>2 DEF Client, Publish, StartCall, PrepareLegCall, ReadBeginCall, CheckpointCall,
     InterruptCall, SealCall, PublishPrefixCall, CloseCall, Admit
<1>3. CASE NextCommand \/ RunIdle \/ WakeWait \/ WakeClear \/ BeginCommand
  BY <1>3 DEF NextCommand, RunIdle, WakeWait, WakeClear, BeginCommand, lockVars
<1>4. CASE DrainSnapshot \/ DrainChunk \/ DrainTail \/ DrainDone \/ DrainFails
  BY <1>1, <1>4 DEF DrainSnapshot, DrainChunk, DrainTail, DrainDone, DrainFails
<1>5. CASE TargetCall
  <2>1. cmd.op = "close" /\ cmd \in Command /\ tgt' = AfterRun(tgt, cmd) /\ durable' = durable
    BY <1>1, <1>5 DEF TargetCall, lockVars
  <2> QED
    BY <1>1, <2>1, RunTarget
<1>6. CASE SettleCommand
  BY <1>1, <1>6 DEF SettleCommand
<1>7. CASE TargetFails
  <2>1. cmd.op = "close" /\ cmd \in Command /\ tgt' \in AfterFailedRun(tgt, cmd) /\ durable' = durable
    BY <1>1, <1>7 DEF TargetFails, RecordFailure
  <2> QED
    BY <1>1, <2>1, FailedRunTarget
<1> QED
  BY <1>2, <1>3, <1>4, <1>5, <1>6, <1>7 DEF Next, Worker

(* Once an operation of the target raised, the thread appends, seals and      *)
(* acknowledges nothing more: it can only close.                             *)
THEOREM FailureIsFinal == Spec => NothingAfterFailure
<1>1. IndInv /\ [Next]_vars
        => [Failed(state) => tgt' \in {tgt, Close(tgt)} /\ durable' = durable]_vars
  BY FencedStep
<1> QED
  BY <1>1, Inductive, PTL DEF Spec, NothingAfterFailure

-----------------------------------------------------------------------------
(* The refinement of DurableFrontier: a step of the writer is a step of the   *)
(* abstract frontier or changes none of its variables.                       *)

(* Nothing that the abstraction sees changes.                                *)
Silent ==
    /\ UNCHANGED <<published, durable>>
    /\ tgt'.recs = tgt.recs /\ tgt'.sealed = tgt.sealed
    /\ Failed(state') <=> Failed(state)

(* A silent step is a stuttering step of the abstraction.                    *)
LEMMA SilentStutters == ASSUME Silent PROVE UNCHANGED Frontier!vars
<1>1. Failed(state') = Failed(state)
  BY DEF Silent, Failed
<1> QED
  BY <1>1 DEF Silent, Frontier!vars

(* publish is admitted only by a writer that is neither sealed nor failed.   *)
LEMMA ClientRefines ==
    ASSUME IndInv, Client
    PROVE  [Frontier!Next]_(Frontier!vars)
<1>1. state \in State /\ (Failed(state) => state.kind \in Ended)
  BY DEF IndInv, TypeOK, State, FailureFencesWorker, Ended
<1>2. ASSUME NEW event, NEW op, NEW leg, Admit(event, op, leg)
      PROVE  Silent
  <2>1. Failed(state') <=> Failed(state)
    BY <1>1, <1>2, RequestState DEF Admit
  <2> QED
    BY <1>2, <2>1 DEF Admit, Silent
<1>3. ASSUME NEW hw \in 0..Records, NEW tail \in 0..TailLimit, Publish(hw, tail)
      PROVE  Frontier!Submit
  <2>1. ~tgt.sealed /\ ~Failed(state)
    BY <1>1, <1>3 DEF Publish, Admits, IndInv, FinalizedLate, Late, Ended
  <2>2. published' \in published..Records
    BY <1>3, RecordsAssumption DEF Publish, IndInv, TypeOK
  <2>3. UNCHANGED <<tgt, durable, state>>
    BY <1>3 DEF Publish
  <2> QED
    BY <2>1, <2>2, <2>3 DEF Frontier!Submit
<1>4. CASE \E hw \in 0..Records, tail \in 0..TailLimit : Publish(hw, tail)
  BY <1>3, <1>4 DEF Frontier!Next
<1>5. CASE StartCall \/ PrepareLegCall \/ ReadBeginCall \/ CheckpointCall \/ InterruptCall
           \/ SealCall \/ PublishPrefixCall \/ CloseCall
  <2>1. Silent
    BY <1>2, <1>5 DEF StartCall, PrepareLegCall, ReadBeginCall, CheckpointCall,
       InterruptCall, SealCall, PublishPrefixCall, CloseCall
  <2> QED
    BY <2>1, SilentStutters
<1> QED
  BY <1>4, <1>5 DEF Client

(* An append is a Persist: it stores a longer prefix of what was published.   *)
LEMMA AppendRefines ==
    ASSUME IndInv, DrainChunk \/ DrainTail
    PROVE  Frontier!Persist
<1>1. IndInv'
  BY DrainStep
<1>2. /\ ~Failed(state) /\ ~tgt.sealed /\ tgt \in Target
      /\ UNCHANGED <<state, published, durable>>
  BY DEF IndInv, TypeOK, FailureFencesWorker, DrainChunk, DrainTail, CanAppend,
     RequireReadyForData, RequireReadyForRead
<1>3. PICK end \in 0..Records, tail \in 0..TailLimit : tgt' = AppendChunk(tgt, end, tail)
  BY ChunkBounds DEF DrainChunk, DrainTail
<1>4. tgt'.sealed = tgt.sealed
  BY <1>2, <1>3, AppendTarget
<1>5. tgt'.recs = IF end > tgt.recs THEN end ELSE tgt.recs
  BY <1>2, <1>3, AppendTarget
<1>6. tgt'.recs \in tgt.recs..published
  <2>1. tgt'.recs <= published
    BY <1>1, <1>2 DEF IndInv, FrontiersOrdered
  <2>2. tgt.recs \in Nat /\ published \in Nat /\ end \in Nat
    BY <1>2, RecordsAssumption DEF IndInv, TypeOK, Target
  <2> QED
    BY <1>5, <2>1, <2>2
<1> QED
  BY <1>2, <1>4, <1>6 DEF Frontier!Persist

(* A command's call is silent, or it finalizes a writer that has not failed.  *)
LEMMA TargetRefines ==
    ASSUME IndInv, TargetCall
    PROVE  [Frontier!Next]_(Frontier!vars)
<1>1. /\ cmd \in Command /\ tgt \in Target /\ tgt' = AfterRun(tgt, cmd)
      /\ UNCHANGED <<state, published, durable>>
      /\ Failed(state) => cmd.op = "close"
  BY DEF TargetCall, lockVars, IndInv, WorkerAtCommand, TypeOK, FailureFencesWorker
<1>2. tgt' \in Target /\ tgt'.recs = tgt.recs
  BY <1>1, RunTarget
<1>3. tgt'.sealed <=> (tgt.sealed \/ cmd.op \in FinalOps)
  BY <1>1, RunTarget
<1>4. CASE cmd.op \in FinalOps
  <2>1. ~Failed(state)
    BY <1>1, <1>4 DEF FinalOps
  <2>2. tgt'.sealed = TRUE
    BY <1>2, <1>3, <1>4 DEF Target
  <2> QED
    BY <1>1, <1>2, <2>1, <2>2 DEF Frontier!Finalize, Frontier!Next
<1>5. CASE cmd.op \notin FinalOps
  <2>1. tgt'.sealed = tgt.sealed
    BY <1>1, <1>2, <1>3, <1>5 DEF Target
  <2> QED
    BY <1>1, <1>2, <2>1, SilentStutters DEF Silent
<1> QED
  BY <1>4, <1>5

(* The success section acknowledges the stored frontier or is silent.        *)
LEMMA SettleRefines ==
    ASSUME IndInv, SettleCommand
    PROVE  [Frontier!Next]_(Frontier!vars)
<1>1. state \in State /\ (Failed(state) => state.kind \in Ended)
  BY DEF IndInv, TypeOK, State, FailureFencesWorker, Ended
<1>2. Failed(state') <=> Failed(state)
  BY <1>1, SuccessState DEF SettleCommand
<1>3. UNCHANGED <<published, tgt>>
  BY DEF SettleCommand
<1>4. CASE durable' = durable
  BY <1>2, <1>3, <1>4, SilentStutters DEF Silent
<1>5. CASE durable' = tgt.recs /\ ~Failed(state')
  <2>1. Failed(state') = Failed(state)
    BY <1>2 DEF Failed
  <2> QED
    BY <1>2, <1>3, <1>5, <2>1 DEF Frontier!Acknowledge, Frontier!Next
<1> QED
  BY <1>4, <1>5 DEF SettleCommand

(* The first exception is the abstract Fail; a close that raises after it is  *)
(* silent.                                                                   *)
LEMMA FailRefines ==
    ASSUME IndInv, DrainFails \/ TargetFails
    PROVE  [Frontier!Next]_(Frontier!vars)
<1>1. IndInv'
  BY FailStep
<1>2. /\ state \in State /\ tgt \in Target /\ tgt' \in Target
      /\ tgt.recs \in Nat /\ tgt'.recs \in Nat /\ published \in Nat
  BY <1>1, RecordsAssumption DEF IndInv, TypeOK, State, Target
<1>3. PICK error \in Errors : RecordFailure(error)
  BY DEF DrainFails, TargetFails
<1>4. Failed(state') /\ UNCHANGED <<published, durable>>
  BY <1>2, <1>3, FailureState DEF RecordFailure
<1>5. tgt'.recs <= published
  BY <1>1, <1>4 DEF IndInv, FrontiersOrdered
<1>6. tgt.recs <= tgt'.recs /\ (tgt.sealed => tgt'.sealed /\ tgt'.recs = tgt.recs)
  <2>1. CASE DrainFails
    <3>1. pc = "drain"
      BY <2>1 DEF DrainFails
    <3>2. drain.start \in 0..Records /\ drain.tail \in 0..TailLimit /\ Following \in 0..TailLimit
      BY <3>1, ChunkBounds
    <3>3. drain.start < drain.target => ChunkEnd \in 0..Records
      BY <3>1, ChunkBounds
    <3>4. PICK end \in 0..Records, tail \in 0..TailLimit : tgt' \in FailedAppend(tgt, drain.start, end, tail)
      BY <2>1, <3>2, <3>3 DEF DrainFails
    <3>5. tgt.recs <= tgt'.recs /\ (tgt.sealed => tgt' = tgt)
      BY <1>2, <3>2, <3>4, FailedAppendTarget
    <3> QED
      BY <3>5
  <2>2. CASE TargetFails
    <3>1. cmd \in Command /\ tgt' \in AfterFailedRun(tgt, cmd)
      BY <2>2 DEF TargetFails, IndInv, WorkerAtCommand
    <3>2. tgt'.recs = tgt.recs /\ (tgt.sealed => tgt'.sealed)
      BY <1>2, <3>1, FailedRunTarget
    <3> QED
      BY <1>2, <3>2
  <2> QED
    BY <2>1, <2>2
<1>7. CASE ~Failed(state)
  <2>1. Failed(state') = TRUE
    BY <1>4 DEF Failed
  <2>2. tgt'.sealed \in {tgt.sealed, TRUE}
    BY <1>2, <1>6 DEF Target
  <2>3. tgt'.recs \in tgt.recs..published
    BY <1>2, <1>5, <1>6
  <2>4. Frontier!Fail
    BY <1>4, <1>6, <1>7, <2>1, <2>2, <2>3 DEF Frontier!Fail
  <2> QED
    BY <2>4 DEF Frontier!Next
<1>8. CASE Failed(state)
  <2>1. tgt' \in {tgt, Close(tgt)}
    BY <1>8, FencedStep DEF Next, Worker
  <2>2. tgt'.recs = tgt.recs /\ tgt'.sealed = tgt.sealed
    BY <1>2, <2>1 DEF Close, Target
  <2> QED
    BY <1>4, <1>8, <2>2, SilentStutters DEF Silent
<1> QED
  BY <1>7, <1>8

(* The writer implements the frontier the coordinator relies on, for every     *)
(* interleaving of its event-loop calls with its thread.                     *)
THEOREM Refinement == Spec => ImplementsFrontier
<1>1. Init => Frontier!Init
  <2> SUFFICES ASSUME Init PROVE Frontier!Init
    OBVIOUS
  <2>1. Failed(state) = FALSE
    BY DEF Init, Failed, FailureOf, Plain
  <2>2. tgt.recs = 0 /\ tgt.sealed = FALSE
    BY DEF Init, NewTarget
  <2>3. published = 0 /\ durable = 0
    BY DEF Init
  <2> QED
    BY <2>1, <2>2, <2>3 DEF Frontier!Init
<1>2. IndInv /\ [Next]_vars => [Frontier!Next]_(Frontier!vars)
  <2> SUFFICES ASSUME IndInv, [Next]_vars PROVE [Frontier!Next]_(Frontier!vars)
    OBVIOUS
  <2>1. CASE UNCHANGED vars
    BY <2>1, SilentStutters DEF vars, lockVars, Silent, Failed, FailureOf
  <2>2. CASE Client
    BY <2>2, ClientRefines
  <2>3. CASE NextCommand \/ RunIdle \/ WakeWait \/ WakeClear \/ BeginCommand \/ DrainSnapshot \/ DrainDone
    <3>1. UNCHANGED <<published, durable, tgt, state>>
      BY <2>3 DEF NextCommand, RunIdle, WakeWait, WakeClear, BeginCommand, DrainSnapshot,
         DrainDone, lockVars
    <3> QED
      BY <3>1, SilentStutters DEF Silent, Failed, FailureOf
  <2>4. CASE DrainChunk \/ DrainTail
    BY <2>4, AppendRefines DEF Frontier!Next
  <2>5. CASE TargetCall \/ SettleCommand \/ DrainFails \/ TargetFails
    BY <2>5, TargetRefines, SettleRefines, FailRefines
  <2> QED
    BY <2>1, <2>2, <2>3, <2>4, <2>5 DEF Next, Worker
<1> QED
  BY <1>1, <1>2, Inductive, PTL DEF Spec, ImplementsFrontier, Frontier!Spec

-----------------------------------------------------------------------------
(* What an answered call says.  A call is answered long after it was made:    *)
(* the event loop goes on publishing, the worker drains in chunks without the *)
(* lock, and lifecycle results arrive in any order.  AnswerInv carries the    *)
(* frontier of a call from its admission to its answer.                       *)

(* The target holds everything before position hw and tail.                  *)
Covers(t, hw, tail) == t.recs > hw \/ (t.recs = hw /\ t.tail >= tail)

(* The commands that the worker has not answered yet.                        *)
Waiting == {cmd} \cup {commands[i] : i \in DOMAIN commands}

(* The tail the writer counts as written is in the store, unless records that *)
(* the writer does not know of replaced it.                                   *)
TailIsStored == tgt.recs = written => tgt.tail >= wrTail

(* No command waits for bytes that were not published.                       *)
WithinPublished == \A c \in Waiting : c.hw <= published

(* A command drains up to its own frontier, not up to a later one.           *)
DrainServesCommand ==
    pc = "drain" =>
        /\ drain.wtail = wrTail
        /\ cmd # NoCommand => drain.exact /\ drain.target = cmd.hw /\ drain.tail = cmd.tail

(* A command reaches the target behind its own drain.                        *)
DrainedBeforeCall ==
    pc \in {"target", "settle"} /\ cmd.op \in FrontierOps => Covers(tgt, cmd.hw, cmd.tail)

(* The followed call is the tracked command.                                 *)
TrackedIsCall ==
    \A c \in Waiting : c.tracked =>
        call.st # "none" /\ call.op = c.op /\ call.hw = c.hw /\ call.tail = c.tail

(* Nothing is published behind a close, and the thread ends with it.         *)
CloseIsLast ==
    /\ \A c \in Waiting : c.op = "close" =>
           state.kind \in {"Closing", "Closed"} /\ c.hw = published /\ c.tail = pubTail
    /\ state.kind = "Closed" => pc = "done"

(* The lifecycle machine knows that the target receives, except between a     *)
(* READ_BEGIN and its result; then the result is on its way.                  *)
Receiving == ~Failed(state) /\ tgt.phase = "receiving" /\ ~tgt.sealed
ReceivingIsKnown ==
    /\ Receiving => \/ state.kind \in {"Reading", "Finalizing", "Finalized", "Closed"}
                    \/ state.kind = "Closing" /\ state.drain
                    \/ pc = "settle" /\ cmd.op = "read_begin"
    /\ pc = "settle" /\ cmd.op = "leg" => tgt.phase = "leg_prepared"
    /\ \A c \in Waiting : c.op = "read_begin" => state.kind \notin {"Constructed", "Preparing"}
    /\ state.kind = "Failed" => Failed(state)

(* A close of a receiving target reaches it behind the final drain.          *)
DrainedBeforeClose ==
    pc \in {"target", "settle"} /\ cmd.op = "close" /\ Receiving
        => written = published /\ tgt.tail >= pubTail

AnswerInv == /\ TailIsStored /\ WithinPublished /\ DrainServesCommand /\ DrainedBeforeCall
             /\ TrackedIsCall /\ CloseIsLast /\ ReceivingIsKnown /\ DrainedBeforeClose
             /\ ResultCoversFrontier /\ CleanCloseDrains

(* The numbers and records the argument is about.                            *)
LEMMA AnswerTypes ==
    ASSUME IndInv
    PROVE  /\ tgt \in Target /\ tgt.recs \in Nat /\ tgt.tail \in Nat
           /\ published \in Nat /\ pubTail \in Nat /\ written \in Nat /\ wrTail \in Nat
           /\ written <= tgt.recs /\ tgt.recs <= published
           /\ state \in State /\ commands \in Seq(Command)
           /\ cmd \in Command \cup {NoCommand} /\ drain \in DrainType /\ call \in CallType
           /\ cmd \in Waiting /\ Waiting \subseteq Command \cup {NoCommand}
<1>1. tgt \in Target /\ published \in 0..Records /\ pubTail \in 0..TailLimit
      /\ written \in 0..Records /\ wrTail \in 0..TailLimit
  BY DEF IndInv, TypeOK
<1>2. tgt.recs \in 0..Records /\ tgt.tail \in 0..TailLimit
  BY <1>1 DEF Target
<1>3. commands \in Seq(Command) /\ cmd \in Command \cup {NoCommand}
  BY DEF IndInv, TypeOK
<1>4. Waiting \subseteq Command \cup {NoCommand} /\ cmd \in Waiting
  BY <1>3 DEF Waiting
<1>5. state \in State /\ drain \in DrainType /\ call \in CallType
  BY DEF IndInv, TypeOK, State, DrainType, CallType
<1>6. written <= tgt.recs /\ tgt.recs <= published
  BY DEF IndInv, FrontiersOrdered
<1> QED
  BY <1>1, <1>2, <1>3, <1>4, <1>5, <1>6, RecordsAssumption, TailLimitAssumption

(* A waiting command is typed as the queue is; NoCommand waits for nothing.    *)
LEMMA WaitingTypes ==
    ASSUME NEW c \in Command \cup {NoCommand}
    PROVE  c.hw \in Nat /\ c.tail \in Nat
<1>1. c.hw \in 0..Records /\ c.tail \in 0..TailLimit
  BY RecordsAssumption, TailLimitAssumption DEF Command, NoCommand
<1> QED
  BY <1>1, RecordsAssumption, TailLimitAssumption

(* A later value of the target: more records, or the same and no shorter tail. *)
Grows(t, u) == u.recs > t.recs \/ (u.recs = t.recs /\ u.tail >= t.tail)

(* What the target covers it goes on covering.                               *)
LEMMA CoversGrows ==
    ASSUME NEW t \in Target, NEW u \in Target, Grows(t, u),
           NEW hw \in Nat, NEW tail \in Nat, Covers(t, hw, tail)
    PROVE  Covers(u, hw, tail)
<1>1. t.recs \in Nat /\ u.recs \in Nat /\ t.tail \in Nat /\ u.tail \in Nat
  BY RecordsAssumption, TailLimitAssumption DEF Target
<1> QED
  BY <1>1 DEF Grows, Covers

(* An append, whole or broken off, only adds.                                *)
LEMMA AppendGrows ==
    ASSUME NEW t \in Target, NEW start \in 0..Records, NEW end \in 0..Records,
           NEW tail \in 0..TailLimit,
           NEW u \in FailedAppend(t, start, end, tail) \cup {AppendChunk(t, end, tail)}
    PROVE  Grows(t, u)
<1>0. t.recs \in Nat /\ t.tail \in Nat /\ end \in Nat /\ tail \in Nat
  BY RecordsAssumption, TailLimitAssumption DEF Target
<1>1. CASE u = t
  BY <1>0, <1>1 DEF Grows
<1>2. CASE u = AppendChunk(t, end, tail)
  <2>1. CASE end > t.recs
    <3>1. u.recs = end
      BY <1>2, <2>1 DEF AppendChunk, Target
    <3> QED
      BY <1>0, <2>1, <3>1 DEF Grows
  <2>2. CASE ~(end > t.recs)
    <3>1. u.recs = t.recs /\ u.tail = IF tail > t.tail THEN tail ELSE t.tail
      BY <1>2, <2>2 DEF AppendChunk, Target
    <3> QED
      BY <1>0, <3>1 DEF Grows
  <2> QED
    BY <2>1, <2>2
<1>3. ASSUME NEW k \in (t.recs + 1)..(end - 1), u = [t EXCEPT !.recs = k, !.tail = 0]
      PROVE  Grows(t, u)
  <2>1. u.recs = k
    BY <1>3 DEF Target
  <2> QED
    BY <1>0, <2>1 DEF Grows
<1> QED
  BY <1>1, <1>2, <1>3 DEF FailedAppend

(* No command's own call changes the stored bytes.                           *)
LEMMA RunGrows ==
    ASSUME NEW t \in Target, NEW c \in Command, NEW u \in AfterFailedRun(t, c) \cup {AfterRun(t, c)}
    PROVE  Grows(t, u) /\ u.recs = t.recs /\ u.tail = t.tail
<1>0. t.recs \in Nat /\ t.tail \in Nat
  BY RecordsAssumption, TailLimitAssumption DEF Target
<1>1. u = t \/ u = AfterRun(t, c)
  BY DEF AfterFailedRun, AfterRun
<1>2. AfterRun(t, c) \in {t, Prepare(t), PrepareLeg(t, c.leg), ReadBegin(t), Interrupt(t),
                          Seal(t), PublishPrefix(t), Close(t)}
  BY DEF AfterRun, Command, Ops
<1>3. u \in {t, Prepare(t), PrepareLeg(t, c.leg), ReadBegin(t), Interrupt(t),
             Seal(t), PublishPrefix(t), Close(t)}
  BY <1>1, <1>2
<1>4. u.recs = t.recs /\ u.tail = t.tail
  BY <1>3 DEF Prepare, PrepareLeg, ReadBegin, Interrupt, Seal, PublishPrefix, Close, Target
<1> QED
  BY <1>0, <1>4 DEF Grows

-----------------------------------------------------------------------------
(* A writer that was never called owes nothing.                              *)
LEMMA InitAnswer == Init => AnswerInv
<1> SUFFICES ASSUME Init PROVE AnswerInv
  OBVIOUS
<1>1. Waiting = {NoCommand}
  BY DEF Init, Waiting
<1>2. /\ NoCommand.op = "none" /\ NoCommand.hw = 0 /\ NoCommand.tail = 0 /\ NoCommand.tracked = FALSE
      /\ tgt.recs = 0 /\ tgt.tail = 0 /\ tgt.phase = "none" /\ state.kind = "Constructed"
      /\ call.st = "none" /\ pc = "next" /\ wrTail = 0 /\ published = 0
  BY DEF Init, NoCommand, NewTarget, Plain, NoCall
<1>3. TailIsStored /\ WithinPublished /\ TrackedIsCall
  BY <1>1, <1>2 DEF TailIsStored, WithinPublished, TrackedIsCall
<1>4. DrainServesCommand /\ DrainedBeforeCall /\ DrainedBeforeClose
  BY <1>2 DEF DrainServesCommand, DrainedBeforeCall, DrainedBeforeClose
<1>5. CloseIsLast /\ ReceivingIsKnown
  BY <1>1, <1>2 DEF CloseIsLast, ReceivingIsKnown, Receiving
<1>6. ResultCoversFrontier /\ CleanCloseDrains
  BY <1>2 DEF ResultCoversFrontier, CleanCloseDrains
<1> QED
  BY <1>3, <1>4, <1>5, <1>6 DEF AnswerInv

(* publish cannot outrun a waiting close: it is not admitted while closing.   *)
LEMMA PublishAnswer ==
    ASSUME IndInv, AnswerInv, NEW hw \in 0..Records, NEW tail \in 0..TailLimit, Publish(hw, tail)
    PROVE  AnswerInv'
<1>1. /\ UNCHANGED <<state, commands, written, wrTail, durable, sealDone, pc, cmd, drain, tgt, call>>
      /\ state.kind \in {"Constructed", "Preparing", "Prepared", "Reading"}
  BY DEF Publish, workerVars, Admits
<1>2. published <= published' /\ published' \in Nat /\ published \in Nat
  BY RecordsAssumption DEF Publish, IndInv, TypeOK
<1>3. Waiting' = Waiting /\ cmd \in Waiting /\ (Receiving' <=> Receiving)
  BY <1>1 DEF Waiting, Receiving, Failed, FailureOf
<1>4. \A c \in Waiting : c.op # "close"
  BY <1>1 DEF AnswerInv, CloseIsLast
<1>5. \A c \in Waiting : c.hw \in Nat
  BY AnswerTypes, WaitingTypes
<1>6. WithinPublished'
  BY <1>2, <1>3, <1>5 DEF AnswerInv, WithinPublished
<1>7. TailIsStored' /\ DrainServesCommand' /\ DrainedBeforeCall' /\ ResultCoversFrontier'
  BY <1>1 DEF AnswerInv, TailIsStored, DrainServesCommand, DrainedBeforeCall, ResultCoversFrontier
<1>8. TrackedIsCall'
  BY <1>1, <1>3 DEF AnswerInv, TrackedIsCall
<1>9. CloseIsLast' /\ DrainedBeforeClose' /\ CleanCloseDrains'
  BY <1>1, <1>3, <1>4 DEF CloseIsLast, DrainedBeforeClose, CleanCloseDrains
<1>10. ReceivingIsKnown'
  BY <1>1, <1>3 DEF AnswerInv, ReceivingIsKnown, Failed, FailureOf
<1> QED
  BY <1>6, <1>7, <1>8, <1>9, <1>10 DEF AnswerInv

(* What an admitted request does to the lifecycle.                           *)
LEMMA RequestKinds ==
    ASSUME NEW s \in State, NEW event, Admits(s, event)
    PROVE  LET t == OnRequest(s, event)
           IN  /\ event = "Close" => /\ t.kind = "Closing" /\ s.kind # "Closed"
                                     /\ t.drain <=> s.kind \in {"Reading", "Finalizing", "Finalized"}
               /\ event = "Start" => s.kind = "Constructed" /\ t.kind = "Preparing"
               /\ event = "Finalize" => s.kind \in {"Prepared", "Reading"} /\ t.kind = "Finalizing"
               /\ event \notin {"Start", "Finalize", "Close"} => t = s
               /\ event = "ReadBegin" => s.kind \in {"Prepared", "Reading"}
<1>1. event = "Close" => OnRequest(s, event) = Closing(s)
  BY DEF OnRequest
<1>2. Closing(s).drain <=> s.kind \in {"Reading", "Finalizing", "Finalized"}
  BY DEF Closing
<1> QED
  BY <1>1, <1>2, ClosingState DEF OnRequest, Admits, Plain

(* An admitted call takes its frontier along; a close takes the last one.     *)
LEMMA AdmitAnswer ==
    ASSUME IndInv, AnswerInv, NEW event, NEW op \in Ops, NEW leg \in 0..Records,
           Admit(event, op, leg),
           op = "close" => event = "Close", op = "read_begin" => event = "ReadBegin"
    PROVE  AnswerInv'
<1>0. state \in State /\ published \in Nat /\ pubTail \in Nat /\ commands \in Seq(Command)
      /\ cmd \in Waiting /\ Waiting \subseteq Command \cup {NoCommand}
  BY AnswerTypes
<1>1. PICK tracked \in BOOLEAN :
        /\ tracked => call.st = "none"
        /\ commands' = Append(commands, [op |-> op, hw |-> published, tail |-> pubTail,
                                         leg |-> leg, tracked |-> tracked])
        /\ call' = IF tracked
                   THEN [st |-> "pending", op |-> op, hw |-> published, tail |-> pubTail]
                   ELSE call
  BY DEF Admit
<1> DEFINE new == [op |-> op, hw |-> published, tail |-> pubTail, leg |-> leg, tracked |-> tracked]
<1>2. /\ UNCHANGED <<published, pubTail, written, wrTail, pc, cmd, drain, tgt>>
      /\ Admits(state, event) /\ state' = OnRequest(state, event)
  BY DEF Admit, workerVars
<1>3. Waiting' \subseteq Waiting \cup {new}
  <2>1. commands' = Append(commands, new) /\ new \in Command
    BY <1>1 DEF IndInv, TypeOK, Command
  <2> HIDE DEF new
  <2>2. \A i \in DOMAIN commands' : commands'[i] = new \/ (i \in DOMAIN commands /\ commands'[i] = commands[i])
    BY <1>0, <2>1
  <2> QED
    BY <1>2, <2>2 DEF Waiting
<1>4. new.op = op /\ new.hw = published /\ new.tail = pubTail /\ new.tracked = tracked
  OBVIOUS
<1> HIDE DEF new
<1>5. /\ event = "Close" => /\ state'.kind = "Closing" /\ state.kind # "Closed"
                            /\ state'.drain <=> state.kind \in {"Reading", "Finalizing", "Finalized"}
      /\ event = "Start" => state.kind = "Constructed" /\ state'.kind = "Preparing"
      /\ event = "Finalize" => state.kind \in {"Prepared", "Reading"} /\ state'.kind = "Finalizing"
      /\ event \notin {"Start", "Finalize", "Close"} => state' = state
      /\ event = "ReadBegin" => state.kind \in {"Prepared", "Reading"}
  BY <1>0, <1>2, RequestKinds
<1>6. Failed(state') <=> Failed(state)
  BY <1>0, <1>2, RequestState DEF IndInv, FailureFencesWorker, Ended
<1>7. Receiving' <=> Receiving
  BY <1>2, <1>6 DEF Receiving
<1>8. WithinPublished'
  BY <1>0, <1>2, <1>3, <1>4 DEF AnswerInv, WithinPublished
<1>9. TailIsStored' /\ DrainServesCommand' /\ DrainedBeforeCall'
  BY <1>2 DEF AnswerInv, TailIsStored, DrainServesCommand, DrainedBeforeCall
<1>10. TrackedIsCall' /\ ResultCoversFrontier'
  <2>1. CASE ~tracked
    BY <1>1, <1>2, <1>3, <1>4, <2>1 DEF AnswerInv, TrackedIsCall, ResultCoversFrontier
  <2>2. CASE tracked
    <3>1. call'.st = "pending" /\ call'.op = op /\ call'.hw = published /\ call'.tail = pubTail
      BY <1>1, <2>2
    <3>2. \A c \in Waiting : ~c.tracked
      BY <1>1, <2>2 DEF AnswerInv, TrackedIsCall
    <3> QED
      BY <1>3, <1>4, <3>1, <3>2 DEF TrackedIsCall, ResultCoversFrontier
  <2> QED
    BY <2>1, <2>2
<1>11. CloseIsLast'
  <2>1. ASSUME NEW c \in Waiting', c.op = "close"
        PROVE  state'.kind \in {"Closing", "Closed"} /\ c.hw = published /\ c.tail = pubTail
    <3>1. CASE c \in Waiting
      <4>1. state.kind \in {"Closing", "Closed"} /\ c.hw = published /\ c.tail = pubTail
        BY <2>1, <3>1 DEF AnswerInv, CloseIsLast
      <4> QED
        BY <4>1, <1>5
    <3>2. CASE c = new
      BY <1>4, <1>5, <2>1, <3>2
    <3> QED
      BY <1>3, <3>1, <3>2
  <2>2. state'.kind = "Closed" => pc' = "done"
    BY <1>2, <1>5 DEF AnswerInv, CloseIsLast
  <2> QED
    BY <1>2, <2>1, <2>2 DEF CloseIsLast
<1>12. ReceivingIsKnown'
  <2>1. Receiving => \/ state'.kind \in {"Reading", "Finalizing", "Finalized", "Closed"}
                     \/ state'.kind = "Closing" /\ state'.drain
                     \/ pc = "settle" /\ cmd.op = "read_begin"
    BY <1>5, <1>2 DEF AnswerInv, ReceivingIsKnown, Admits
  <2>2. ASSUME NEW c \in Waiting', c.op = "read_begin"
        PROVE  state'.kind \notin {"Constructed", "Preparing"}
    <3>1. CASE c \in Waiting
      <4>1. state.kind \notin {"Constructed", "Preparing"}
        BY <2>2, <3>1 DEF AnswerInv, ReceivingIsKnown
      <4> QED
        BY <4>1, <1>5
    <3>2. CASE c = new
      BY <1>4, <1>5, <2>2, <3>2
    <3> QED
      BY <1>3, <3>1, <3>2
  <2>3. state'.kind = "Failed" => Failed(state')
    BY <1>5, <1>6 DEF AnswerInv, ReceivingIsKnown
  <2>4. pc = "settle" /\ cmd.op = "leg" => tgt.phase = "leg_prepared"
    BY DEF AnswerInv, ReceivingIsKnown
  <2> QED
    BY <1>2, <1>7, <2>1, <2>2, <2>3, <2>4 DEF ReceivingIsKnown
<1>13. DrainedBeforeClose'
  BY <1>2, <1>7 DEF AnswerInv, DrainedBeforeClose
<1>14. CleanCloseDrains'
  BY <1>2, <1>5, <1>6 DEF AnswerInv, CleanCloseDrains
<1> QED
  BY <1>8, <1>9, <1>10, <1>11, <1>12, <1>13, <1>14 DEF AnswerInv

-----------------------------------------------------------------------------
(* Moving to the queue, to the idle round or to the next command answers      *)
(* nothing.                                                                   *)
LEMMA QuietAnswer ==
    ASSUME IndInv, AnswerInv, NextCommand \/ RunIdle \/ WakeWait \/ WakeClear
    PROVE  AnswerInv'
<1>0. commands \in Seq(Command)
  BY AnswerTypes
<1>1. /\ UNCHANGED <<state, published, pubTail, written, wrTail, tgt, call>>
      /\ pc' \in {"idle", "begin", "snapshot", "wait", "clear", "next"} /\ pc # "done"
  BY DEF NextCommand, RunIdle, WakeWait, WakeClear, lockVars
<1>2. Waiting' \subseteq Waiting
  <2>1. CASE NextCommand
    <3>1. CASE commands = <<>>
      BY <2>1, <3>1 DEF NextCommand, Waiting
    <3>2. CASE commands # <<>>
      <4>1. cmd' = commands[1] /\ 1 \in DOMAIN commands
        BY <1>0, <2>1, <3>2 DEF NextCommand
      <4>2. \A i \in DOMAIN commands' : i + 1 \in DOMAIN commands /\ commands'[i] = commands[i + 1]
        BY <1>0, <2>1, <3>2 DEF NextCommand
      <4> QED
        BY <4>1, <4>2 DEF Waiting
    <3> QED
      BY <3>1, <3>2
  <2>2. CASE RunIdle \/ WakeWait \/ WakeClear
    BY <2>2 DEF RunIdle, WakeWait, WakeClear, lockVars, Waiting
  <2> QED
    BY <2>1, <2>2
<1>3. Receiving' <=> Receiving
  BY <1>1 DEF Receiving, Failed, FailureOf
<1>4. pc \notin {"settle", "done"}
  BY DEF NextCommand, RunIdle, WakeWait, WakeClear
<1>5. TailIsStored' /\ DrainServesCommand' /\ DrainedBeforeCall' /\ DrainedBeforeClose'
  BY <1>1 DEF AnswerInv, TailIsStored, DrainServesCommand, DrainedBeforeCall, DrainedBeforeClose
<1>6. WithinPublished' /\ TrackedIsCall'
  BY <1>1, <1>2 DEF AnswerInv, WithinPublished, TrackedIsCall
<1>7. CloseIsLast'
  BY <1>1, <1>2 DEF AnswerInv, CloseIsLast
<1>8. ReceivingIsKnown'
  BY <1>1, <1>2, <1>3, <1>4 DEF AnswerInv, ReceivingIsKnown, Failed, FailureOf
<1>9. ResultCoversFrontier' /\ CleanCloseDrains'
  BY <1>1 DEF AnswerInv, ResultCoversFrontier, CleanCloseDrains, Failed, FailureOf
<1> QED
  BY <1>5, <1>6, <1>7, <1>8, <1>9 DEF AnswerInv

(* After a failure a command is answered with it; otherwise a command with a  *)
(* frontier drains first, and so does a close of a receiving target.          *)
LEMMA BeginAnswer ==
    ASSUME IndInv, AnswerInv, BeginCommand
    PROVE  AnswerInv'
<1>0. /\ cmd \in Command /\ call \in CallType /\ cmd \in Waiting /\ published \in Nat
  BY AnswerTypes DEF BeginCommand, IndInv, WorkerAtCommand
<1>1. /\ UNCHANGED <<state, commands, published, pubTail, written, wrTail, tgt>>
      /\ pc = "begin" /\ pc' \in {"next", "snapshot", "target"}
      /\ cmd' \in {cmd, NoCommand}
      /\ pc' \in {"snapshot", "target"} => cmd' = cmd
      /\ pc' = "target" => /\ cmd.op \notin FrontierOps
                           /\ cmd.op = "close" => ~DrainsOnClose(state)
      /\ call' \in {call, [call EXCEPT !.st = "error"]}
  BY DEF BeginCommand, lockVars, Settle
<1>2. Waiting' \subseteq Waiting \cup {NoCommand}
  BY <1>1 DEF Waiting
<1>3. /\ NoCommand.op = "none" /\ NoCommand.hw = 0 /\ NoCommand.tracked = FALSE
  BY DEF NoCommand
<1>4. /\ call'.op = call.op /\ call'.hw = call.hw /\ call'.tail = call.tail
      /\ call'.st \in {call.st, "error"}
  BY <1>0, <1>1 DEF CallType
<1>5. Receiving' <=> Receiving
  BY <1>1 DEF Receiving, Failed, FailureOf
<1>6. TailIsStored' /\ DrainServesCommand' /\ DrainedBeforeCall'
  BY <1>1 DEF AnswerInv, TailIsStored, DrainServesCommand, DrainedBeforeCall
<1>7. WithinPublished'
  BY <1>0, <1>1, <1>2, <1>3 DEF AnswerInv, WithinPublished
<1>8. TrackedIsCall'
  BY <1>2, <1>3, <1>4 DEF AnswerInv, TrackedIsCall
<1>9. CloseIsLast'
  BY <1>1, <1>2, <1>3 DEF AnswerInv, CloseIsLast
<1>10. ReceivingIsKnown'
  BY <1>1, <1>2, <1>3, <1>5 DEF AnswerInv, ReceivingIsKnown, Failed, FailureOf
<1>11. DrainedBeforeClose'
  <2>1. ASSUME pc' = "target", cmd.op = "close", Receiving PROVE FALSE
    <3>1. ~DrainsOnClose(state) /\ state.kind \in {"Closing", "Closed"} /\ state.kind # "Closed"
      BY <1>0, <1>1, <2>1 DEF AnswerInv, CloseIsLast
    <3>2. state.drain
      BY <1>1, <3>1, <2>1 DEF AnswerInv, ReceivingIsKnown
    <3> QED
      BY <2>1, <3>1, <3>2 DEF DrainsOnClose, Receiving, Failed, FailureOf
  <2> QED
    BY <1>1, <1>5, <2>1 DEF DrainedBeforeClose
<1>12. ResultCoversFrontier' /\ CleanCloseDrains'
  BY <1>1, <1>4 DEF AnswerInv, ResultCoversFrontier, CleanCloseDrains, Failed, FailureOf
<1> QED
  BY <1>6, <1>7, <1>8, <1>9, <1>10, <1>11, <1>12 DEF AnswerInv

(* The snapshot of a command's drain is the frontier of the command.          *)
LEMMA SnapshotAnswer ==
    ASSUME IndInv, AnswerInv, DrainSnapshot
    PROVE  AnswerInv'
<1>0. cmd \in Waiting /\ published \in Nat /\ cmd \in Command \cup {NoCommand} /\ cmd.hw \in Nat
  BY AnswerTypes, WaitingTypes
<1>1. /\ UNCHANGED <<state, commands, published, pubTail, written, wrTail, cmd, tgt, call>>
      /\ pc = "snapshot" /\ pc' = "drain"
      /\ drain'.wtail = wrTail
      /\ drain'.target = DrainTarget
      /\ drain'.tail = IF cmd = NoCommand THEN pubTail ELSE cmd.tail
      /\ drain'.exact = (cmd # NoCommand)
  BY DEF DrainSnapshot, lockVars
<1>2. cmd # NoCommand => DrainTarget = cmd.hw
  BY <1>0 DEF DrainTarget, AnswerInv, WithinPublished
<1>3. Waiting' = Waiting /\ (Receiving' <=> Receiving)
  BY <1>1 DEF Waiting, Receiving, Failed, FailureOf
<1>4. DrainServesCommand'
  BY <1>1, <1>2 DEF DrainServesCommand
<1>5. TailIsStored' /\ DrainedBeforeCall' /\ DrainedBeforeClose' /\ ResultCoversFrontier' /\ CleanCloseDrains'
  BY <1>1 DEF AnswerInv, TailIsStored, DrainedBeforeCall, DrainedBeforeClose,
     ResultCoversFrontier, CleanCloseDrains, Failed, FailureOf
<1>6. WithinPublished' /\ TrackedIsCall'
  BY <1>1, <1>3 DEF AnswerInv, WithinPublished, TrackedIsCall
<1>7. CloseIsLast'
  BY <1>1, <1>3 DEF AnswerInv, CloseIsLast
<1>8. ReceivingIsKnown'
  BY <1>1, <1>3 DEF AnswerInv, ReceivingIsKnown, Failed, FailureOf
<1> QED
  BY <1>4, <1>5, <1>6, <1>7, <1>8 DEF AnswerInv

(* An append leaves the tail it wrote in the store, or a longer one.         *)
LEMMA AppendTail ==
    ASSUME NEW t \in Target, NEW end \in 0..Records, NEW tail \in 0..TailLimit
    PROVE  LET u == AppendChunk(t, end, tail)
           IN  u.phase = t.phase /\ u.sealed = t.sealed /\ (u.recs = end => u.tail >= tail)
<1>0. t.recs \in Nat /\ t.tail \in Nat /\ end \in Nat /\ tail \in Nat
  BY RecordsAssumption, TailLimitAssumption DEF Target
<1>1. CASE end > t.recs
  BY <1>0, <1>1 DEF AppendChunk, Target
<1>2. CASE ~(end > t.recs)
  <2>1. AppendChunk(t, end, tail).tail = IF tail > t.tail THEN tail ELSE t.tail
    BY <1>2 DEF AppendChunk, Target
  <2> QED
    BY <1>0, <1>2, <2>1 DEF AppendChunk, Target
<1> QED
  BY <1>1, <1>2

(* A chunk or a tail that was stored.                                        *)
LEMMA AppendAnswer ==
    ASSUME IndInv, AnswerInv, DrainChunk \/ DrainTail
    PROVE  AnswerInv'
<1>0. /\ tgt \in Target /\ drain \in DrainType /\ pc = "drain" /\ call \in CallType
      /\ IndInv'
  BY AnswerTypes, DrainStep DEF DrainChunk, DrainTail
<1>1. /\ UNCHANGED <<state, commands, published, pubTail, pc, cmd, call>>
      /\ drain'.wtail = wrTail' /\ drain'.target = drain.target /\ drain'.tail = drain.tail
      /\ drain'.exact = drain.exact
  BY <1>0 DEF DrainChunk, DrainTail, DrainType
<1>2. PICK end \in 0..Records, tail \in 0..TailLimit :
        tgt' = AppendChunk(tgt, end, tail) /\ written' = end /\ wrTail' = tail
  <2>1. CASE DrainChunk
    BY <1>0, <2>1, ChunkBounds DEF DrainChunk
  <2>2. CASE DrainTail
    BY <1>0, <2>2, ChunkBounds DEF DrainTail
  <2> QED
    BY <2>1, <2>2
<1>3. tgt'.phase = tgt.phase /\ tgt'.sealed = tgt.sealed /\ (tgt'.recs = end => tgt'.tail >= tail)
  BY <1>0, <1>2, AppendTail
<1>4. tgt' \in Target /\ Grows(tgt, tgt')
  <2>1. tgt' \in Target
    BY <1>0, AnswerTypes DEF IndInv, TypeOK
  <2>2. drain.start \in 0..Records
    BY <1>0 DEF DrainType
  <2> QED
    BY <1>0, <1>2, <2>1, <2>2, AppendGrows
<1>5. Waiting' = Waiting /\ (Receiving' <=> Receiving)
  BY <1>1, <1>3 DEF Waiting, Receiving, Failed, FailureOf
<1>6. TailIsStored'
  BY <1>2, <1>3 DEF TailIsStored
<1>7. DrainServesCommand'
  BY <1>0, <1>1 DEF AnswerInv, DrainServesCommand
<1>8. WithinPublished' /\ TrackedIsCall' /\ CloseIsLast'
  BY <1>1, <1>5 DEF AnswerInv, WithinPublished, TrackedIsCall, CloseIsLast
<1>9. DrainedBeforeCall' /\ DrainedBeforeClose'
  BY <1>0, <1>1 DEF DrainedBeforeCall, DrainedBeforeClose
<1>10. ReceivingIsKnown'
  BY <1>0, <1>1, <1>5 DEF AnswerInv, ReceivingIsKnown, Failed, FailureOf
<1>11. ResultCoversFrontier'
  <2>1. call.hw \in Nat /\ call.tail \in Nat
    BY <1>0, RecordsAssumption, TailLimitAssumption DEF CallType
  <2>2. Covers(tgt, call.hw, call.tail) => Covers(tgt', call.hw, call.tail)
    BY <1>0, <1>4, <2>1, CoversGrows
  <2> QED
    BY <1>1, <2>2 DEF AnswerInv, ResultCoversFrontier, Covers
<1>12. CleanCloseDrains'
  BY <1>0, <1>1 DEF AnswerInv, CloseIsLast, CleanCloseDrains
<1> QED
  BY <1>6, <1>7, <1>8, <1>9, <1>10, <1>11, <1>12 DEF AnswerInv

(* A drain that is over has reached the command's frontier, tail included:     *)
(* the store is there, or further.                                            *)
LEMMA DrainDoneAnswer ==
    ASSUME IndInv, AnswerInv, DrainDone
    PROVE  AnswerInv'
<1>0. /\ tgt.recs \in Nat /\ tgt.tail \in Nat /\ published \in Nat /\ pubTail \in Nat
      /\ written \in Nat /\ wrTail \in Nat /\ written <= tgt.recs /\ tgt.recs <= published
      /\ cmd \in Waiting /\ cmd.hw \in Nat /\ cmd.tail \in Nat
  BY AnswerTypes, WaitingTypes
<1>1. /\ UNCHANGED <<state, commands, published, pubTail, written, wrTail, cmd, tgt, call>>
      /\ pc = "drain" /\ pc' \in {"target", "next", "wait"}
      /\ pc' = "target" => drain.exact /\ drain.start >= drain.target
      /\ drain.start = drain.target => drain.tail = drain.wtail
  BY DEF DrainDone, lockVars, TailOwed
<1>2. /\ drain.start = written /\ drain.wtail = wrTail
      /\ drain.exact => cmd # NoCommand
  BY <1>1, RecordsAssumption DEF IndInv, SnapshotValid, AnswerInv, DrainServesCommand, WorkerAtCommand, Command, Ops, NoCommand
<1>3. pc' = "target" => /\ cmd.hw <= written
                        /\ cmd.hw = written => cmd.tail = wrTail
  BY <1>0, <1>1, <1>2 DEF AnswerInv, DrainServesCommand
<1>4. Waiting' = Waiting /\ (Receiving' <=> Receiving)
  BY <1>1 DEF Waiting, Receiving, Failed, FailureOf
<1>5. DrainedBeforeCall'
  BY <1>0, <1>1, <1>3 DEF AnswerInv, TailIsStored, DrainedBeforeCall, Covers
<1>6. DrainedBeforeClose'
  <2>1. cmd.op = "close" => cmd.hw = published /\ cmd.tail = pubTail
    BY <1>0 DEF AnswerInv, CloseIsLast
  <2> QED
    BY <1>0, <1>1, <1>3, <2>1 DEF AnswerInv, TailIsStored, DrainedBeforeClose
<1>7. TailIsStored' /\ DrainServesCommand' /\ ResultCoversFrontier'
  BY <1>1 DEF AnswerInv, TailIsStored, DrainServesCommand, ResultCoversFrontier
<1>8. WithinPublished' /\ TrackedIsCall'
  BY <1>1, <1>4 DEF AnswerInv, WithinPublished, TrackedIsCall
<1>9. CloseIsLast' /\ CleanCloseDrains'
  BY <1>1, <1>4 DEF AnswerInv, CloseIsLast, CleanCloseDrains
<1>10. ReceivingIsKnown'
  BY <1>1, <1>4 DEF AnswerInv, ReceivingIsKnown, Failed, FailureOf
<1> QED
  BY <1>5, <1>6, <1>7, <1>8, <1>9, <1>10 DEF AnswerInv

(* What a command's own call leaves of the receiving phase.                  *)
LEMMA RunPhase ==
    ASSUME NEW t \in Target, NEW c \in Command
    PROVE  LET u == AfterRun(t, c)
           IN  /\ c.op = "leg" => u.phase = "leg_prepared"
               /\ u.phase = "receiving" /\ ~u.sealed /\ c.op # "read_begin"
                      => t.phase = "receiving" /\ ~t.sealed
<1> DEFINE u == AfterRun(t, c)
<1>1. c.op = "leg" => u.phase = "leg_prepared"
  BY DEF AfterRun, PrepareLeg, Target
<1>2. c.op # "read_begin" => \/ u \in {t, Close(t)} \/ u = Prepare(t) \/ u = PrepareLeg(t, c.leg)
                             \/ u = Interrupt(t) \/ u = Seal(t) \/ u = PublishPrefix(t)
  BY DEF AfterRun, Command, Ops
<1> HIDE DEF u
<1>3. ASSUME u.phase = "receiving", ~u.sealed, c.op # "read_begin"
      PROVE  t.phase = "receiving" /\ ~t.sealed
  <2>1. u \in {t, Close(t)} => u.phase = t.phase /\ u.sealed = t.sealed
    BY DEF Close, Target
  <2>2. u = Prepare(t) => u = t \/ u.phase = "prepared"
    BY DEF Prepare, Target
  <2>3. u = PrepareLeg(t, c.leg) => u.phase = "leg_prepared"
    BY DEF PrepareLeg, Target
  <2>4. u = Interrupt(t) => u.phase = "interrupted"
    BY DEF Interrupt, Target
  <2>5. u = Seal(t) => u.sealed
    BY DEF Seal, Target
  <2>6. u = PublishPrefix(t) => u.sealed
    BY PublishTarget
  <2> QED
    BY <1>2, <1>3, <2>1, <2>2, <2>3, <2>4, <2>5, <2>6
<1> QED
  BY <1>1, <1>3 DEF u

(* A command's own call keeps what its drain stored.                         *)
LEMMA TargetAnswer ==
    ASSUME IndInv, AnswerInv, TargetCall
    PROVE  AnswerInv'
<1>0. /\ tgt \in Target /\ cmd \in Command /\ cmd \in Waiting /\ pc = "target"
  BY AnswerTypes DEF TargetCall, IndInv, WorkerAtCommand
<1>1. /\ UNCHANGED <<state, commands, published, pubTail, written, wrTail, cmd, drain, call>>
      /\ pc' = "settle" /\ tgt' = AfterRun(tgt, cmd)
  BY DEF TargetCall, lockVars
<1>2. tgt'.recs = tgt.recs /\ tgt'.tail = tgt.tail
  BY <1>0, <1>1, RunGrows
<1>3. /\ cmd.op = "leg" => tgt'.phase = "leg_prepared"
      /\ tgt'.phase = "receiving" /\ ~tgt'.sealed /\ cmd.op # "read_begin"
             => tgt.phase = "receiving" /\ ~tgt.sealed
  BY <1>0, <1>1, RunPhase
<1>4. Waiting' = Waiting /\ (Receiving' /\ cmd.op # "read_begin" => Receiving)
  BY <1>1, <1>3 DEF Waiting, Receiving, Failed, FailureOf
<1>5. TailIsStored' /\ DrainedBeforeCall' /\ ResultCoversFrontier' /\ DrainServesCommand'
  BY <1>0, <1>1, <1>2 DEF AnswerInv, TailIsStored, DrainedBeforeCall, ResultCoversFrontier, Covers,
     DrainServesCommand
<1>6. WithinPublished' /\ TrackedIsCall'
  BY <1>1, <1>4 DEF AnswerInv, WithinPublished, TrackedIsCall
<1>7. CloseIsLast' /\ CleanCloseDrains'
  BY <1>0, <1>1, <1>4 DEF AnswerInv, CloseIsLast, CleanCloseDrains
<1>8. ReceivingIsKnown'
  BY <1>0, <1>1, <1>3, <1>4 DEF AnswerInv, ReceivingIsKnown, Failed, FailureOf
<1>9. DrainedBeforeClose'
  BY <1>0, <1>1, <1>2, <1>4 DEF AnswerInv, DrainedBeforeClose
<1> QED
  BY <1>5, <1>6, <1>7, <1>8, <1>9 DEF AnswerInv

(* A result moves the lifecycle; READ_BEGIN's always to where it is known.    *)
LEMMA SuccessKinds ==
    ASSUME NEW s \in State, NEW op
    PROVE  LET t == OnSuccess(s, op)
           IN  /\ s.kind = "Closing" /\ op = "close" => t.kind = "Closed"
               /\ s.kind = "Closing" /\ op = "read_begin" =>
                      t.kind = "Closing" /\ (t.drain <=> s.failure = NoError)
               /\ s.kind = "Closing" /\ op \notin {"close", "read_begin"} => t = s
               /\ t.kind = "Closed" => s.kind = "Closed" \/ (s.kind = "Closing" /\ op = "close")
               /\ s.kind = "Prepared" /\ op = "read_begin" => t.kind = "Reading"
               /\ s.kind \in {"Reading", "Finalizing", "Finalized"}
                      => \/ t.kind \in {"Reading", "Finalizing", "Finalized"}
                         \/ op = "leg" /\ t.kind = "Prepared"
               /\ s.kind \notin {"Constructed", "Preparing"} => t.kind \notin {"Constructed", "Preparing"}
               /\ t.kind = "Failed" => s.kind = "Failed"
               /\ s.kind = "Closed" => t.kind = "Closed"
<1> DEFINE t == OnSuccess(s, op)
<1>1. CASE s.kind = "Closing"
  <2>1. t = OnClosingResult(s, op)
    BY <1>1 DEF OnSuccess
  <2>2. op = "close" => t = [s EXCEPT !.kind = "Closed"]
    BY <2>1 DEF OnClosingResult
  <2> DEFINE clean == s.failure = NoError
  <2>3. op = "read_begin" => t = [s EXCEPT !.drain = clean]
    BY <2>1 DEF OnClosingResult
  <2>4. op \notin {"close", "read_begin"} => t = s
    BY <2>1 DEF OnClosingResult
  <2> HIDE DEF t, clean
  <2>5. op = "close" => t.kind = "Closed"
    BY <2>2 DEF State
  <2>6. op = "read_begin" => t.kind = "Closing" /\ t.drain = clean
    BY <1>1, <2>3 DEF State
  <2> QED
    BY <1>1, <2>4, <2>5, <2>6 DEF t, clean
<1>2. CASE s.kind # "Closing"
  BY <1>2 DEF OnSuccess, Plain
<1> QED
  BY <1>1, <1>2

(* The success section: a command that answers success did its drain, and a   *)
(* close that succeeds was the last step of the thread.                       *)
LEMMA SettleAnswer ==
    ASSUME IndInv, AnswerInv, SettleCommand
    PROVE  AnswerInv'
<1>0. /\ tgt \in Target /\ cmd \in Command /\ cmd \in Waiting /\ pc = "settle"
      /\ state \in State /\ call \in CallType /\ published \in Nat
  BY AnswerTypes DEF SettleCommand, IndInv, WorkerAtCommand
<1>1. /\ UNCHANGED <<commands, published, pubTail, written, wrTail, drain, tgt>>
      /\ state' = OnSuccess(state, cmd.op) /\ cmd' = NoCommand
      /\ pc' = (IF cmd.op = "close" THEN "done" ELSE "next")
      /\ call' = Settle(cmd.tracked, IF Failed(state') THEN "error" ELSE "ok")
  BY DEF SettleCommand
<1>2. Waiting' \subseteq Waiting \cup {NoCommand}
  BY <1>1 DEF Waiting
<1>3. NoCommand.op = "none" /\ NoCommand.hw = 0 /\ NoCommand.tracked = FALSE
  BY DEF NoCommand
<1>4. Failed(state') <=> Failed(state)
  <2>1. Failed(state) => state.kind \in Ended
    BY DEF IndInv, FailureFencesWorker, Ended
  <2> QED
    BY <1>0, <1>1, <2>1, SuccessState
<1>5. /\ call'.op = call.op /\ call'.hw = call.hw /\ call'.tail = call.tail
      /\ call'.st = call.st \/ (cmd.tracked /\ call'.st \in {"ok", "error"})
  BY <1>0, <1>1 DEF CallType, Settle
<1>6. Receiving' <=> Receiving
  BY <1>1, <1>4 DEF Receiving
<1>7. LET s == state t == state' op == cmd.op
      IN  /\ s.kind = "Closing" /\ op = "close" => t.kind = "Closed"
          /\ s.kind = "Closing" /\ op = "read_begin" =>
                 t.kind = "Closing" /\ (t.drain <=> s.failure = NoError)
          /\ s.kind = "Closing" /\ op \notin {"close", "read_begin"} => t = s
          /\ t.kind = "Closed" => s.kind = "Closed" \/ (s.kind = "Closing" /\ op = "close")
          /\ s.kind = "Prepared" /\ op = "read_begin" => t.kind = "Reading"
          /\ s.kind \in {"Reading", "Finalizing", "Finalized"}
                 => \/ t.kind \in {"Reading", "Finalizing", "Finalized"}
                    \/ op = "leg" /\ t.kind = "Prepared"
          /\ s.kind \notin {"Constructed", "Preparing"} => t.kind \notin {"Constructed", "Preparing"}
          /\ t.kind = "Failed" => s.kind = "Failed"
          /\ s.kind = "Closed" => t.kind = "Closed"
  BY <1>0, <1>1, SuccessKinds
<1>8. state.kind # "Closed"
  BY <1>0 DEF AnswerInv, CloseIsLast
<1>9. TailIsStored' /\ DrainServesCommand' /\ DrainedBeforeCall' /\ DrainedBeforeClose'
  BY <1>1 DEF AnswerInv, TailIsStored, DrainServesCommand, DrainedBeforeCall, DrainedBeforeClose
<1>10. WithinPublished'
  BY <1>0, <1>1, <1>2, <1>3 DEF AnswerInv, WithinPublished
<1>11. TrackedIsCall'
  BY <1>2, <1>3, <1>5 DEF AnswerInv, TrackedIsCall
<1>12. ResultCoversFrontier'
  <2>1. ASSUME call'.st = "ok", call.op \in FrontierOps
        PROVE  Covers(tgt, call.hw, call.tail)
    <3>1. CASE call.st = "ok"
      BY <2>1, <3>1 DEF AnswerInv, ResultCoversFrontier, Covers
    <3>2. CASE call.st # "ok"
      <4>1. cmd.tracked /\ call.op = cmd.op /\ call.hw = cmd.hw /\ call.tail = cmd.tail
        BY <1>0, <1>5, <2>1, <3>2 DEF AnswerInv, TrackedIsCall
      <4> QED
        BY <1>0, <2>1, <4>1 DEF AnswerInv, DrainedBeforeCall
    <3> QED
      BY <3>1, <3>2
  <2> QED
    BY <1>1, <1>5, <2>1 DEF ResultCoversFrontier, Covers
<1>13. CloseIsLast'
  <2>1. ASSUME NEW c \in Waiting', c.op = "close"
        PROVE  state'.kind \in {"Closing", "Closed"} /\ c.hw = published /\ c.tail = pubTail
    <3>1. c \in Waiting
      BY <1>2, <1>3, <2>1
    <3>2. state.kind = "Closing" /\ c.hw = published /\ c.tail = pubTail
      BY <1>8, <2>1, <3>1 DEF AnswerInv, CloseIsLast
    <3> QED
      BY <1>7, <3>2
  <2>2. state'.kind = "Closed" => pc' = "done"
    BY <1>1, <1>7, <1>8
  <2> QED
    BY <1>1, <2>1, <2>2 DEF CloseIsLast
<1>14. ReceivingIsKnown'
  <2>1. ASSUME Receiving
        PROVE  \/ state'.kind \in {"Reading", "Finalizing", "Finalized", "Closed"}
               \/ state'.kind = "Closing" /\ state'.drain
    <3>1. cmd.op # "leg" /\ state.kind # "Failed" /\ state.failure = NoError
      BY <1>0, <2>1 DEF AnswerInv, ReceivingIsKnown, Receiving, Failed, FailureOf
    <3>2. CASE cmd.op = "read_begin"
      <4>1. state.kind \notin {"Constructed", "Preparing"}
        BY <1>0, <3>2 DEF AnswerInv, ReceivingIsKnown
      <4>2. state.kind \in {"Prepared", "Reading", "Finalizing", "Finalized", "Closing"}
        BY <1>0, <1>8, <3>1, <4>1 DEF State, Kinds
      <4> QED
        BY <1>7, <3>1, <3>2, <4>2
    <3>3. CASE cmd.op # "read_begin"
      <4>1. \/ state.kind \in {"Reading", "Finalizing", "Finalized"}
            \/ state.kind = "Closing" /\ state.drain
        BY <1>8, <2>1, <3>3 DEF AnswerInv, ReceivingIsKnown
      <4> QED
        BY <1>7, <3>1, <3>3, <4>1
    <3> QED
      BY <3>2, <3>3
  <2>2. ASSUME NEW c \in Waiting', c.op = "read_begin"
        PROVE  state'.kind \notin {"Constructed", "Preparing"}
    <3>1. c \in Waiting
      BY <1>2, <1>3, <2>2
    <3> QED
      BY <1>7, <2>2, <3>1 DEF AnswerInv, ReceivingIsKnown
  <2>3. state'.kind = "Failed" => Failed(state')
    BY <1>4, <1>7 DEF AnswerInv, ReceivingIsKnown
  <2>4. pc' # "settle"
    BY <1>1
  <2> QED
    BY <1>6, <2>1, <2>2, <2>3, <2>4 DEF ReceivingIsKnown
<1>15. CleanCloseDrains'
  <2>1. ASSUME state'.kind = "Closed", Receiving PROVE written = published /\ tgt.tail >= pubTail
    <3>1. cmd.op = "close"
      BY <1>7, <1>8, <2>1
    <3> QED
      BY <1>0, <2>1, <3>1 DEF AnswerInv, DrainedBeforeClose
  <2> QED
    BY <1>1, <1>4, <2>1 DEF CleanCloseDrains, Receiving
<1> QED
  BY <1>9, <1>10, <1>11, <1>12, <1>13, <1>14, <1>15 DEF AnswerInv

(* What a failure leaves waiting.                                            *)
LEMMA SurvivingWaits ==
    ASSUME commands \in Seq(Command)
    PROVE  \A i \in DOMAIN Surviving : \E j \in DOMAIN commands : Surviving[i] = commands[j]
<1>1. CASE QueuedClose = {}
  BY <1>1 DEF Surviving
<1>2. CASE QueuedClose # {}
  <2> DEFINE j == CHOOSE i \in QueuedClose : TRUE
             c == commands[j]
  <2>1. j \in DOMAIN commands
    BY <1>2 DEF QueuedClose
  <2>2. Surviving = <<c>>
    BY <1>2 DEF Surviving
  <2>3. \A i \in DOMAIN Surviving : Surviving[i] = c
    <3> HIDE DEF c
    <3> QED
      BY <2>2
  <2> QED
    BY <2>1, <2>3
<1> QED
  BY <1>1, <1>2

(* A failure answers calls with itself; it loses nothing that was stored.     *)
LEMMA FailAnswer ==
    ASSUME IndInv, AnswerInv, DrainFails \/ TargetFails
    PROVE  AnswerInv'
<1>0. /\ tgt \in Target /\ pc \in {"drain", "target"} /\ cmd \in Waiting
      /\ state \in State /\ call \in CallType /\ published \in Nat /\ written \in Nat
      /\ commands \in Seq(Command) /\ IndInv' /\ tgt' \in Target
  BY AnswerTypes, FailStep DEF DrainFails, TargetFails, IndInv, TypeOK
<1>1. PICK error \in Errors : RecordFailure(error)
  BY DEF DrainFails, TargetFails
<1>2. /\ UNCHANGED <<published, pubTail, written, wrTail>>
      /\ commands' = Surviving /\ cmd' = NoCommand
      /\ pc' = (IF cmd.op = "close" THEN "done" ELSE "next")
      /\ state' = (IF cmd.op = "close" THEN OnCloseFailure(state, error) ELSE OnFailure(state, error))
  BY <1>1 DEF RecordFailure
<1>3. Failed(state')
  BY <1>0, <1>2, FailureState
<1>4. /\ state'.kind \in Ended
      /\ state'.kind = "Closed" => pc' = "done"
      /\ state.kind = "Closing" => state'.kind \in {"Closing", "Closed"}
  <2>1. state.kind # "Closed"
    BY <1>0 DEF AnswerInv, CloseIsLast
  <2>2. cmd.op = "close" => state'.kind = "Closed"
    BY <1>2 DEF OnCloseFailure
  <2>3. cmd.op # "close" => state'.kind = IF state.kind = "Closing" THEN "Closing" ELSE "Failed"
    BY <1>0, <1>2, <2>1 DEF OnFailure, Plain, State
  <2> QED
    BY <1>2, <2>2, <2>3 DEF Ended
<1>5. /\ call'.op = call.op /\ call'.hw = call.hw /\ call'.tail = call.tail
      /\ call'.st \in {call.st, "error"}
  <2> DEFINE failed == cmd.tracked \/ \E i \in DOMAIN commands : commands[i].tracked /\ ~IsClose(commands[i])
  <2>1. call' = Settle(failed, "error")
    BY <1>1 DEF RecordFailure
  <2> HIDE DEF failed
  <2> QED
    BY <1>0, <2>1 DEF Settle, CallType
<1>6. Waiting' \subseteq Waiting \cup {NoCommand}
  BY <1>0, <1>2, SurvivingWaits DEF Waiting
<1>7. NoCommand.op = "none" /\ NoCommand.hw = 0 /\ NoCommand.tracked = FALSE
  BY DEF NoCommand
<1>8. Grows(tgt, tgt')
  <2>1. CASE DrainFails
    <3>1. pc = "drain"
      BY <2>1 DEF DrainFails
    <3>2. drain.start \in 0..Records /\ drain.tail \in 0..TailLimit /\ Following \in 0..TailLimit
      BY <3>1, ChunkBounds
    <3>3. drain.start < drain.target => ChunkEnd \in 0..Records
      BY <3>1, ChunkBounds
    <3>4. PICK end \in 0..Records, tail \in 0..TailLimit : tgt' \in FailedAppend(tgt, drain.start, end, tail)
      BY <2>1, <3>2, <3>3 DEF DrainFails
    <3> QED
      BY <1>0, <3>2, <3>4, AppendGrows
  <2>2. CASE TargetFails
    BY <1>0, <2>2, RunGrows DEF TargetFails, IndInv, WorkerAtCommand
  <2> QED
    BY <2>1, <2>2
<1>9. TailIsStored'
  <2>1. /\ tgt.recs \in Nat /\ tgt'.recs \in Nat /\ tgt.tail \in Nat /\ tgt'.tail \in Nat
        /\ wrTail \in Nat /\ written <= tgt.recs
    BY <1>0, AnswerTypes, RecordsAssumption, TailLimitAssumption DEF Target
  <2> QED
    BY <1>0, <1>2, <1>8, <2>1 DEF AnswerInv, TailIsStored, Grows
<1>10. pc' \in {"done", "next"}
  BY <1>2
<1>11. DrainServesCommand' /\ DrainedBeforeCall' /\ DrainedBeforeClose'
  BY <1>10 DEF DrainServesCommand, DrainedBeforeCall, DrainedBeforeClose
<1>12. WithinPublished'
  BY <1>0, <1>2, <1>6, <1>7 DEF AnswerInv, WithinPublished
<1>13. TrackedIsCall'
  BY <1>5, <1>6, <1>7 DEF AnswerInv, TrackedIsCall
<1>14. CloseIsLast'
  <2>1. ASSUME NEW c \in Waiting', c.op = "close"
        PROVE  state'.kind \in {"Closing", "Closed"} /\ c.hw = published /\ c.tail = pubTail
    <3>1. c \in Waiting
      BY <1>6, <1>7, <2>1
    <3>2. state.kind = "Closing" /\ c.hw = published /\ c.tail = pubTail
      BY <1>0, <2>1, <3>1 DEF AnswerInv, CloseIsLast
    <3> QED
      BY <1>4, <3>2
  <2> QED
    BY <1>2, <1>4, <2>1 DEF CloseIsLast
<1>15. ReceivingIsKnown'
  BY <1>3, <1>4, <1>10 DEF ReceivingIsKnown, Receiving, Ended
<1>16. ResultCoversFrontier'
  <2>1. call.hw \in Nat /\ call.tail \in Nat
    BY <1>0, RecordsAssumption, TailLimitAssumption DEF CallType
  <2>2. Covers(tgt, call.hw, call.tail) => Covers(tgt', call.hw, call.tail)
    BY <1>0, <1>8, <2>1, CoversGrows
  <2> QED
    BY <1>5, <2>2 DEF AnswerInv, ResultCoversFrontier, Covers
<1>17. CleanCloseDrains'
  BY <1>3 DEF CleanCloseDrains
<1> QED
  BY <1>9, <1>11, <1>12, <1>13, <1>14, <1>15, <1>16, <1>17 DEF AnswerInv

(* Every step preserves it.                                                  *)
LEMMA StepAnswer ==
    ASSUME IndInv, AnswerInv, [Next]_vars
    PROVE  AnswerInv'
<1>1. CASE UNCHANGED vars
  <2>1. UNCHANGED <<state, commands, published, pubTail, written, wrTail, pc, cmd, drain, tgt, call>>
    BY <1>1 DEF vars, lockVars, workerVars
  <2>2. Waiting' = Waiting /\ (Receiving' <=> Receiving)
    BY <2>1 DEF Waiting, Receiving, Failed, FailureOf
  <2> QED
    BY <2>1, <2>2 DEF AnswerInv, TailIsStored, WithinPublished, DrainServesCommand, DrainedBeforeCall,
       TrackedIsCall, CloseIsLast, ReceivingIsKnown, DrainedBeforeClose, ResultCoversFrontier,
       CleanCloseDrains, Failed, FailureOf
<1>2. CASE Client
  <2>0. 0 \in 0..Records
    BY RecordsAssumption
  <2>1. CASE \E hw \in 0..Records, tail \in 0..TailLimit : Publish(hw, tail)
    BY <2>1, PublishAnswer
  <2>2. ASSUME NEW event, NEW op \in Ops, NEW leg \in 0..Records, Admit(event, op, leg),
               op = "close" => event = "Close", op = "read_begin" => event = "ReadBegin"
        PROVE  AnswerInv'
    BY <2>2, AdmitAnswer
  <2>3. CASE StartCall \/ ReadBeginCall \/ CheckpointCall \/ InterruptCall \/ CloseCall
    BY <2>0, <2>2, <2>3 DEF StartCall, ReadBeginCall, CheckpointCall, InterruptCall, CloseCall, Ops
  <2>4. CASE PrepareLegCall
    BY <2>2, <2>4 DEF PrepareLegCall, Ops
  <2>5. CASE SealCall \/ PublishPrefixCall
    BY <2>0, <2>2, <2>5 DEF SealCall, PublishPrefixCall, Ops
  <2> QED
    BY <1>2, <2>1, <2>3, <2>4, <2>5 DEF Client
<1>3. CASE Worker
  BY <1>3, QuietAnswer, BeginAnswer, SnapshotAnswer, AppendAnswer, DrainDoneAnswer, TargetAnswer,
     SettleAnswer, FailAnswer DEF Worker
<1> QED
  BY <1>1, <1>2, <1>3 DEF Next

(* Every answer is carried by the invariant, in every behaviour.             *)
THEOREM AnswersInductive == Spec => []AnswerInv
<1>1. IndInv /\ AnswerInv /\ [Next]_vars => AnswerInv'
  BY StepAnswer
<1> QED
  BY <1>1, InitAnswer, Inductive, PTL DEF Spec

(* A checkpoint, interrupt, seal or prefix publication that answers success   *)
(* has stored everything that was published before the call, however much the *)
(* event loop published and the worker drained in between.                    *)
THEOREM AnswersCoverFrontier == Spec => []ResultCoversFrontier
<1>1. AnswerInv => ResultCoversFrontier
  BY DEF AnswerInv
<1> QED
  BY <1>1, AnswersInductive, PTL

(* close() that returns without a failure from a receiving attempt left no     *)
(* published byte behind, also when READ_BEGIN's result came after close.      *)
THEOREM CloseLeavesNothing == Spec => []CleanCloseDrains
<1>1. AnswerInv => CleanCloseDrains
  BY DEF AnswerInv
<1> QED
  BY <1>1, AnswersInductive, PTL
=============================================================================
