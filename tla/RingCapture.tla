---------------------------- MODULE RingCapture ----------------------------
(***************************************************************************)
(* One pendant ring drained by the collector: BatchReconciler, the visit    *)
(* machine, the session loop around them and the durable facts they leave   *)
(* in SQLite, across dropped links, absences, crashes and restarts.         *)
(*                                                                          *)
(* The device is external.  It appends records, applies ADVANCE, and may    *)
(* move its persisted cursor by itself: forward while it serves a READ (or  *)
(* when the ring overruns), back to an older checkpoint when it reboots.    *)
(* A record is its sequence number.  The writer thread is seen through the  *)
(* promise of DurableFrontier: what is stored is a prefix of what arrived,  *)
(* and an interruption or a checkpoint stores everything that arrived.      *)
(***************************************************************************)
EXTENDS Integers, Sequences, FiniteSets

CONSTANTS MaxSequence,    \* bound: records the device ever appends
          BatchRecords,   \* RetryPolicy.batch_records
          MaxFaults       \* bound: link losses, crashes, cursor moves, refusals

ASSUME MaxSequenceAssumption == MaxSequence \in Nat
ASSUME BatchRecordsAssumption == BatchRecords \in Nat \ {0}
ASSUME MaxFaultsAssumption == MaxFaults \in Nat

VARIABLES
    dev,        \* the ring: read cursor and write sequence
    link,       \* a BLE session is up
    sources,    \* capture_source rows, in the order of their creation
    losses,     \* the confirmed-loss ledger
    closure,    \* the ready closure row
    visit,      \* the visit machine
    batch,      \* _State.batch
    pending,    \* _State.pending_descriptor with pending_durable_next
    frontier,   \* _State.visit_frontier
    info,       \* the INFO in the coordinator's hand
    recv,       \* the arena's next expected sequence
    pc,         \* where the coordinator is
    exit,       \* why the process is down
    faults,     \* faults spent
    consumed,   \* history: records the host's ADVANCE moved the cursor over
    skipped     \* history: records the device moved its cursor over by itself

device == <<dev, link>>
durable == <<sources, losses, closure>>
volatile == <<visit, batch, pending, frontier, info, recv, pc, exit>>
vars == <<device, durable, volatile, faults, consumed, skipped>>

None == -1
Sequence == 0..MaxSequence
NoInfo == [read |-> None, write |-> None]
NoBatch == [src |-> 0, start |-> 0, end |-> 0, prefix |-> 0, sealed |-> FALSE]
NoPending == [src |-> 0, next |-> None]
NoClosure == [next |-> None, reason |-> "none"]

-----------------------------------------------------------------------------
(* capture_source rows.                                                     *)

OpenLives == {"prepared", "leg_prepared", "receiving", "interrupted"}
Lives == OpenLives \cup {"sealed_waiting", "quarantined", "published"}
Open(s) == s.life \in OpenLives
Frontier(s) == s.start + s.count
OpenSources == {i \in DOMAIN sources : Open(sources[i])}
SealedSources == {i \in DOMAIN sources : sources[i].life = "sealed_waiting"}

NewSource(start, limit) ==
    [start |-> start, limit |-> limit, count |-> 0, life |-> "prepared", tail |-> FALSE]

(* resume_streaming_attempt: a leg that was receiving is interrupted first.  *)
Resumed(s) == IF s.life = "receiving" THEN [s EXCEPT !.life = "interrupted"] ELSE s

(* TransferArena.begin_leg: a leg may not leave a gap in the arena.          *)
ArenaAllows(start, end, expected) == end > start /\ start <= expected

(* InternalAudioStore.prepare_leg: a leg may not leave the range of its source *)
(* nor skip its frontier; the first leg covers the source, and a leg that was *)
(* prepared earlier may only be repeated.                                    *)
LegAllowed(s, start, end) ==
    /\ start >= s.start /\ end <= s.limit /\ start <= Frontier(s)
    /\ s.life = "prepared" => start = s.start /\ end = s.limit
    /\ s.life = "leg_prepared" => end = s.limit

(* An interruption stores every record that arrived, and perhaps a tail.     *)
Interrupted(s, arrived, tail) ==
    IF s.life = "receiving"
    THEN [s EXCEPT !.life = "interrupted", !.count = arrived - s.start,
                   !.tail = (tail /\ arrived < s.limit)]
    ELSE s

(* _typed_terminalize_prefix: nothing to publish, or residual bytes beside   *)
(* the prefix, means quarantine.                                             *)
Terminalized(s) ==
    IF ~Open(s) THEN s
    ELSE [s EXCEPT !.life = IF s.count = 0 \/ s.tail THEN "quarantined" ELSE "sealed_waiting"]

Quarantined(s) == [s EXCEPT !.life = "quarantined"]

MaxFrontier(ids) ==
    CHOOSE n \in {Frontier(sources[i]) : i \in ids} :
        \A i \in ids : Frontier(sources[i]) <= n

-----------------------------------------------------------------------------
(* Ready closures.                                                           *)

(* begin_ready_visit revokes an earlier drain permit.                        *)
MutantNoFence(c) == c
Fenced(c) == IF c.reason = "drained" THEN [c EXCEPT !.reason = "collecting"] ELSE c

(* recovered_closure: recovery evidence never regresses a closure.           *)
RecoveredClosure(c, next, reason) ==
    IF c = NoClosure \/ next > c.next THEN [next |-> next, reason |-> reason]
    ELSE IF reason = "drained" THEN [c EXCEPT !.reason = "drained"] ELSE c

(* ready_closures.append: a smaller frontier is refused.                     *)
AppendAllowed(c, next) == c = NoClosure \/ next >= c.next
AppendedClosure(c, next, reason) ==
    IF c.next = next /\ (c.reason = "drained" \/ reason # "drained") THEN c
    ELSE [next |-> next, reason |-> reason]

-----------------------------------------------------------------------------
(* The visit machine.                                                        *)

VisitState(st) == [st |-> st, origin |-> "Idle", reason |-> "none", cursor |-> None, next |-> None]
Idle == VisitState("Idle")
Waiting == VisitState("Waiting")
Recovering == VisitState("Recovering")
Attempting(v) == [VisitState("Attempting") EXCEPT !.origin = v.st]
Closing(reason, cursor) == [VisitState("Closing") EXCEPT !.reason = reason, !.cursor = cursor]

OnClosureCommitted(v) == IF v.reason = "restart_interrupted" THEN Recovering ELSE Idle

-----------------------------------------------------------------------------
Init ==
    /\ dev = [read |-> 0, write |-> 0] /\ link = FALSE
    /\ sources = <<>> /\ losses = {} /\ closure = NoClosure
    /\ visit = Recovering /\ pc = "recover"
    /\ batch = NoBatch /\ pending = NoPending /\ frontier = None
    /\ info = NoInfo /\ recv = 0 /\ exit = "none"
    /\ faults = 0 /\ consumed = {} /\ skipped = {}

Fault == faults < MaxFaults /\ faults' = faults + 1

-----------------------------------------------------------------------------
(* The device and the radio.                                                 *)

Records(from, to) == from..(to - 1)

DeviceRecords ==
    /\ dev.write < MaxSequence
    /\ dev' = [dev EXCEPT !.write = @ + 1]
    /\ UNCHANGED <<link, durable, volatile, faults, consumed, skipped>>

DeviceMovesAhead ==
    /\ Fault
    /\ \E to \in (dev.read + 1)..dev.write :
         /\ dev' = [dev EXCEPT !.read = to]
         /\ skipped' = skipped \cup Records(dev.read, to)
    /\ UNCHANGED <<link, durable, volatile, consumed>>

DeviceReboots ==
    /\ ~link
    /\ Fault
    /\ \E to \in 0..(dev.read - 1) : dev' = [dev EXCEPT !.read = to]
    /\ UNCHANGED <<link, durable, volatile, consumed, skipped>>

LinkLost ==
    /\ link /\ Fault
    /\ link' = FALSE
    /\ UNCHANGED <<dev, durable, volatile, consumed, skipped>>

-----------------------------------------------------------------------------
(* Process start: prepare_pending_startup and the recovery transition.       *)

UnclosedPrefix ==
    \E i \in SealedSources : closure = NoClosure \/ Frontier(sources[i]) > closure.next

Retain(next) == IF frontier = None \/ next > frontier THEN next ELSE frontier

(* _validate_pending_evidence: the records stored, not the range declared.   *)
MutantDeclaredEnd(s) == s.limit
DurableNext(s) == Frontier(s)

LoadRecovery ==
    /\ pc = "recover"
    /\ IF UnclosedPrefix
       THEN /\ visit' = Closing("restart_interrupted", None) /\ pc' = "close"
            /\ closure' = Fenced(closure)
            /\ pending' = NoPending
            /\ UNCHANGED <<sources, frontier>>
       ELSE IF Cardinality(OpenSources) = 1
       THEN \E i \in OpenSources :
              LET s == sources[i] IN
              /\ pending' = [src |-> i, next |-> DurableNext(s)]
              /\ frontier' = IF DurableNext(s) > s.start THEN Retain(DurableNext(s)) ELSE frontier
              /\ visit' = Waiting /\ pc' = "wait"
              /\ UNCHANGED <<sources, closure>>
       ELSE /\ sources' = [i \in DOMAIN sources |->
                             IF i \in OpenSources THEN Quarantined(sources[i]) ELSE sources[i]]
            /\ pending' = NoPending
            /\ visit' = Idle /\ pc' = "wait"
            /\ UNCHANGED <<closure, frontier>>
    /\ UNCHANGED <<device, losses, batch, info, recv, exit, faults, consumed, skipped>>

-----------------------------------------------------------------------------
(* Waiting for the pendant.                                                  *)

(* The permit is granted; capture priority revokes an older drain permit.    *)
AttemptGranted ==
    /\ pc = "wait"
    /\ visit' = Attempting(visit) /\ pc' = "connect"
    /\ closure' = Fenced(closure)
    /\ UNCHANGED <<device, sources, losses, batch, pending, frontier, info, recv, exit,
                   faults, consumed, skipped>>

(* PresenceEnd, only while a visit is retained.                              *)
RecoveryEnded ==
    /\ pc = "wait" /\ visit = Waiting
    /\ \E reason \in {"absence", "recovery_exhausted"} : visit' = Closing(reason, None)
    /\ pc' = "close"
    /\ closure' = Fenced(closure)
    /\ UNCHANGED <<device, sources, losses, batch, pending, frontier, info, recv, exit,
                   faults, consumed, skipped>>

CandidateUnavailable ==
    /\ pc = "connect" /\ Fault
    /\ visit' = VisitState(visit.origin) /\ pc' = "wait"
    /\ UNCHANGED <<device, durable, batch, pending, frontier, info, recv, exit, consumed, skipped>>

ConnectFails ==
    /\ pc = "connect" /\ Fault
    /\ visit' = Waiting /\ pc' = "wait"
    /\ UNCHANGED <<device, durable, batch, pending, frontier, info, recv, exit, consumed, skipped>>

(* Connection, first INFO and preflight.                                     *)
Connect ==
    /\ pc = "connect"
    /\ link' = TRUE /\ info' = dev
    /\ pc' = "step"
    /\ UNCHANGED <<dev, durable, visit, batch, pending, frontier, recv, exit, faults, consumed, skipped>>

FreshInfo ==
    /\ pc = "info" /\ link
    /\ info' = dev
    /\ pc' = "step"
    /\ UNCHANGED <<device, durable, visit, batch, pending, frontier, recv, exit, faults, consumed, skipped>>

-----------------------------------------------------------------------------
(* Exceptions that no retry covers end the process.                          *)
Fatal(reason) ==
    /\ exit' = reason /\ pc' = "down" /\ link' = FALSE
    /\ visit' = Recovering
    /\ batch' = NoBatch /\ pending' = NoPending /\ frontier' = None /\ info' = NoInfo /\ recv' = 0

(* _ensure_batch.                                                            *)
PendingEnd == sources[pending.src].limit
CursorAheadOf(next, end) == next < info.read /\ info.read <= info.write /\ end <= info.write

PendingIncompatible ==
    LET s == sources[pending.src] IN
    \/ info.read < s.start
    \/ info.read > s.limit /\ ~CursorAheadOf(pending.next, s.limit)
    \/ info.write < s.limit
    \/ info.read = info.write /\ info.read # s.limit /\ ~CursorAheadOf(pending.next, s.limit)

QuarantinePending ==
    /\ pc = "step" /\ batch = NoBatch /\ pending # NoPending
    /\ PendingIncompatible
    /\ sources' = [sources EXCEPT ![pending.src] = Quarantined(@)]
    /\ pending' = NoPending
    /\ UNCHANGED <<device, losses, closure, visit, batch, frontier, info, recv, pc, exit,
                   faults, consumed, skipped>>

BatchEnd == IF info.write < info.read + BatchRecords THEN info.write ELSE info.read + BatchRecords

(* The arena holds what is still to be read of the range.                    *)
ArenaStart(end) ==
    IF pending # NoPending /\ info.read <= pending.next THEN pending.next
    ELSE IF info.read > end THEN end ELSE info.read

(* resume_streaming_attempt: the writer's target resumes the open source the  *)
(* store holds, whatever range was asked for; 0 when it must create one.     *)
MutantNeverResumes == 0
ResumedSource == IF OpenSources = {} THEN 0 ELSE CHOOSE i \in OpenSources : TRUE

(* A fresh range, or the range of the pending source.                        *)
AdmitBatch ==
    /\ pc = "step" /\ batch = NoBatch
    /\ pending # NoPending => ~PendingIncompatible
    /\ pending = NoPending => info.read < info.write
    /\ LET start == IF pending = NoPending THEN info.read ELSE sources[pending.src].start
           end == IF pending = NoPending THEN BatchEnd ELSE PendingEnd
           rows == IF ResumedSource = 0 THEN Append(sources, NewSource(start, end))
                   ELSE [sources EXCEPT ![ResumedSource] = Resumed(@)]
           src == IF ResumedSource = 0 THEN Len(rows) ELSE ResumedSource
       IN /\ sources' = rows
          /\ batch' = [src |-> src, start |-> start, end |-> end,
                       prefix |-> Frontier(rows[src]), sealed |-> FALSE]
          /\ recv' = ArenaStart(end)
          /\ pending # NoPending => Frontier(rows[src]) = pending.next
    /\ UNCHANGED <<device, losses, closure, visit, pending, frontier, info, pc, exit,
                   faults, consumed, skipped>>

MutantShortRingIsEmpty ==
    /\ pc = "step" /\ batch = NoBatch /\ pending = NoPending
    /\ info.write - info.read < BatchRecords
    /\ pc' = "drained"
    /\ UNCHANGED <<device, durable, visit, batch, pending, frontier, info, recv, exit,
                   faults, consumed, skipped>>
RingEmpty ==
    /\ pc = "step" /\ batch = NoBatch /\ pending = NoPending
    /\ info.read = info.write
    /\ pc' = "drained"
    /\ UNCHANGED <<device, durable, visit, batch, pending, frontier, info, recv, exit,
                   faults, consumed, skipped>>

-----------------------------------------------------------------------------
(* _read_or_reconcile with the INFO in hand.                                 *)

Reconciling == pc = "step" /\ batch # NoBatch /\ ~batch.sealed
Discontinuous == info.read < batch.start \/ info.write < batch.end
BatchSource == sources[batch.src]

RetireBatch ==
    /\ batch' = NoBatch /\ pending' = NoPending /\ recv' = 0

(* The attempt cannot belong to this ring state: keep it as evidence.        *)
QuarantineDiscontinuous ==
    /\ Reconciling /\ Discontinuous
    /\ sources' = [sources EXCEPT ![batch.src] = Quarantined(@)]
    /\ RetireBatch
    /\ pc' = "info"
    /\ UNCHANGED <<device, losses, closure, visit, frontier, info, exit, faults, consumed, skipped>>

(* The device moved past the durable prefix: record the loss first ...       *)
MutantLossFromStart == batch.start
LossStart == batch.prefix

RecordLoss ==
    /\ Reconciling /\ ~Discontinuous
    /\ info.read > batch.prefix
    /\ losses' = losses \cup {[src |-> batch.src, from |-> LossStart, to |-> info.read]}
    /\ pc' = "retire"
    /\ UNCHANGED <<device, sources, closure, visit, batch, pending, frontier, info, recv, exit,
                   faults, consumed, skipped>>

(* ... then publish the prefix, and close the writer, which terminalizes it. *)
RetirePrefix ==
    /\ pc = "retire"
    /\ sources' = [sources EXCEPT ![batch.src] = Terminalized(@)]
    /\ frontier' = IF BatchSource.count > 0 THEN Retain(batch.prefix) ELSE frontier
    /\ RetireBatch
    /\ pc' = "info"
    /\ UNCHANGED <<device, losses, closure, visit, info, exit, faults, consumed, skipped>>

ReadyToRead == Reconciling /\ ~Discontinuous /\ info.read <= batch.prefix
NothingToRead == info.read = batch.end \/ batch.prefix = batch.end

AlreadyComplete ==
    /\ ReadyToRead /\ NothingToRead
    /\ pc' = "seal"
    /\ UNCHANGED <<device, durable, visit, batch, pending, frontier, info, recv, exit,
                   faults, consumed, skipped>>

LegFits == ArenaAllows(batch.prefix, batch.end, recv)
           /\ LegAllowed(BatchSource, batch.prefix, batch.end)

(* The leg is made durable before READ is sent; a leg outside the source is  *)
(* refused by the store, and that ends the process.                          *)
PrepareLeg ==
    /\ ReadyToRead /\ ~NothingToRead
    /\ LegFits
    /\ sources' = [sources EXCEPT ![batch.src].life = "leg_prepared"]
    /\ pc' = "reading"
    /\ UNCHANGED <<device, losses, closure, visit, batch, pending, frontier, info, recv, exit,
                   faults, consumed, skipped>>

LegRefused ==
    /\ ReadyToRead /\ ~NothingToRead
    /\ ~LegFits
    /\ Fatal("leg_refused")
    /\ UNCHANGED <<dev, durable, faults, consumed, skipped>>

-----------------------------------------------------------------------------
(* read_leg.                                                                 *)

ReadBegin ==
    /\ pc = "reading" /\ link
    /\ BatchSource.life = "leg_prepared"
    /\ sources' = [sources EXCEPT ![batch.src].life = "receiving"]
    /\ UNCHANGED <<device, losses, closure, volatile, faults, consumed, skipped>>

ReceiveRecord ==
    /\ pc = "reading" /\ link
    /\ BatchSource.life = "receiving" /\ recv < batch.end
    /\ recv' = recv + 1
    /\ UNCHANGED <<device, durable, visit, batch, pending, frontier, info, pc, exit,
                   faults, consumed, skipped>>

(* The writer thread, in its own time.                                       *)
StoreRecord ==
    /\ pc = "reading"
    /\ BatchSource.life = "receiving" /\ Frontier(BatchSource) < recv
    /\ sources' = [sources EXCEPT ![batch.src] = [@ EXCEPT !.count = BatchSource.count + 1, !.tail = FALSE]]
    /\ UNCHANGED <<device, losses, closure, volatile, faults, consumed, skipped>>

(* DONE, the barrier and the checkpoint that follows.                        *)
ReadDone ==
    /\ pc = "reading" /\ link
    /\ BatchSource.life = "receiving" /\ recv = batch.end
    /\ sources' = [sources EXCEPT ![batch.src] = [@ EXCEPT !.count = recv - BatchSource.start, !.tail = FALSE]]
    /\ batch' = [batch EXCEPT !.prefix = recv]
    /\ pc' = "seal"
    /\ UNCHANGED <<device, losses, closure, visit, pending, frontier, info, recv, exit,
                   faults, consumed, skipped>>

(* SqliteStagedAttempt.seal: the source is complete and ends with the batch. *)
CanSeal == Frontier(BatchSource) = BatchSource.limit /\ BatchSource.limit = batch.end

SealBatch ==
    /\ pc = "seal" /\ CanSeal
    /\ sources' = [sources EXCEPT ![batch.src].life = "sealed_waiting"]
    /\ batch' = [batch EXCEPT !.sealed = TRUE]
    /\ pc' = "advance_info"
    /\ UNCHANGED <<device, losses, closure, visit, pending, frontier, info, recv, exit,
                   faults, consumed, skipped>>

SealRefused ==
    /\ pc = "seal" /\ ~CanSeal
    /\ Fatal("seal_refused")
    /\ UNCHANGED <<dev, durable, faults, consumed, skipped>>

-----------------------------------------------------------------------------
(* _advance_batch: never from the INFO that admitted the batch.              *)

AdvanceAction(i) ==
    IF i.write < batch.end THEN "expired"
    ELSE IF i.read < batch.start THEN "regressed"
    ELSE IF i.read = batch.end THEN "confirmed"
    ELSE IF i.read > batch.end THEN "ahead" ELSE "repeat"

ResumeSealed ==
    /\ pc = "step" /\ batch # NoBatch /\ batch.sealed
    /\ pc' = "advance_info"
    /\ UNCHANGED <<device, durable, visit, batch, pending, frontier, info, recv, exit,
                   faults, consumed, skipped>>

CompleteBatch ==
    /\ frontier' = Retain(batch.end)
    /\ RetireBatch
    /\ pc' = "step"
    /\ UNCHANGED <<visit, exit>>

(* The fresh INFO before ADVANCE and the one after it take the same decision *)
(* but for a cursor that is still behind: send ADVANCE, or keep the batch.   *)
CursorInfo ==
    /\ pc \in {"advance_info", "ack_info"} /\ link
    /\ info' = dev
    /\ \/ /\ AdvanceAction(dev) \in {"confirmed", "ahead"}
          /\ CompleteBatch
       \/ /\ AdvanceAction(dev) = "repeat"
          /\ pc' = IF pc = "advance_info" THEN "advance" ELSE "step"
          /\ UNCHANGED <<visit, batch, pending, frontier, recv, exit>>
    /\ UNCHANGED <<device, durable, faults, consumed, skipped>>

CursorRejected ==
    /\ pc \in {"advance_info", "ack_info"} /\ link
    /\ AdvanceAction(dev) \in {"regressed", "expired"}
    /\ Fatal("cursor_rejected")
    /\ UNCHANGED <<dev, durable, faults, consumed, skipped>>

AdvanceTarget == batch.end

(* The device applies ADVANCE; its acknowledgement may still be lost.        *)
MutantAdvanceToWrite ==
    /\ pc = "advance" /\ link
    /\ dev' = [dev EXCEPT !.read = dev.write]
    /\ consumed' = consumed \cup Records(dev.read, dev.write)
    /\ pc' = "ack_info"
    /\ UNCHANGED <<link, durable, visit, batch, pending, frontier, info, recv, exit, faults, skipped>>
SendAdvance ==
    /\ pc = "advance" /\ link
    /\ dev' = [dev EXCEPT !.read = IF AdvanceTarget > @ THEN AdvanceTarget ELSE @]
    /\ consumed' = consumed \cup Records(dev.read, AdvanceTarget)
    /\ pc' = "ack_info"
    /\ UNCHANGED <<link, durable, visit, batch, pending, frontier, info, recv, exit, faults, skipped>>

(* Acknowledged and not applied: the next INFO shows the old cursor.         *)
AdvanceIgnored ==
    /\ pc = "advance" /\ link /\ Fault
    /\ pc' = "ack_info"
    /\ UNCHANGED <<device, durable, visit, batch, pending, frontier, info, recv, exit, consumed, skipped>>

-----------------------------------------------------------------------------
(* The end of a session.                                                     *)

(* A drain is believed only after another INFO that still shows no records.  *)
ConfirmDrain ==
    /\ pc = "drained" /\ link
    /\ IF dev.read = dev.write
       THEN /\ visit' = Closing("drained", dev.read) /\ pc' = "close"
            /\ link' = FALSE /\ info' = NoInfo
       ELSE /\ info' = dev /\ pc' = "step"
            /\ UNCHANGED <<visit, link>>
    /\ UNCHANGED <<dev, durable, batch, pending, frontier, recv, exit, faults, consumed, skipped>>

(* The link is gone where the coordinator needs it: the writer is            *)
(* interrupted, and the settled prefix is adopted after the session.         *)
SessionInterrupted ==
    /\ ~link
    /\ pc \in {"info", "reading", "advance_info", "advance", "ack_info", "drained"}
    /\ IF batch # NoBatch /\ ~batch.sealed
       THEN \E tail \in BOOLEAN :
              LET s == Interrupted(BatchSource, recv, tail) IN
              /\ sources' = [sources EXCEPT ![batch.src] = s]
              /\ batch' = [batch EXCEPT !.prefix = Frontier(s)]
              /\ frontier' = IF s.count > 0 THEN Retain(Frontier(s)) ELSE frontier
       ELSE UNCHANGED <<sources, batch, frontier>>
    /\ visit' = Waiting /\ pc' = "wait" /\ info' = NoInfo
    /\ UNCHANGED <<device, losses, closure, pending, recv, exit, faults, consumed, skipped>>

-----------------------------------------------------------------------------
(* close_visit.                                                              *)

Committed ==
    /\ visit' = OnClosureCommitted(visit)
    /\ pc' = IF visit.reason = "restart_interrupted" THEN "recover" ELSE "wait"
    /\ frontier' = None

(* No live batch, close_pending_prefix: decide the closure from every stored *)
(* prefix, then seal what is still open ...  A drain cursor that did not cover *)
(* the frontier would raise; deadlock checking shows that it always does.    *)
CloseStored ==
    /\ pc = "close" /\ batch = NoBatch
    /\ LET ids == SealedSources \cup (IF visit.reason = "restart_interrupted" THEN {} ELSE OpenSources)
       IN /\ visit.reason = "drained" =>
               closure.next <= visit.cursor /\ (ids # {} => MaxFrontier(ids) <= visit.cursor)
          /\ sources' = [i \in DOMAIN sources |->
                           IF i \in ids THEN Terminalized(sources[i]) ELSE sources[i]]
          /\ visit' = [visit EXCEPT !.next = IF ids = {} THEN None ELSE MaxFrontier(ids)]
    /\ pc' = "merge"
    /\ UNCHANGED <<device, losses, closure, batch, pending, frontier, info, recv, exit,
                   faults, consumed, skipped>>

(* ... and write the decided closure, in a transaction of its own.           *)
MergeClosure ==
    /\ pc = "merge"
    /\ closure' = IF visit.next = None THEN closure
                  ELSE RecoveredClosure(closure, visit.next, visit.reason)
    /\ pending' = NoPending
    /\ Committed
    /\ UNCHANGED <<device, sources, losses, batch, info, recv, exit, faults, consumed, skipped>>

(* A live batch: publish its prefix if it holds records, close its writer,   *)
(* and append the closure in a transaction of its own.                       *)
MutantBatchEnd == batch.end
ClosingFrontier == Frontier(BatchSource)

CloseLive ==
    /\ pc = "close" /\ batch # NoBatch
    /\ IF ~batch.sealed /\ BatchSource.count > 0
       THEN sources' = [sources EXCEPT ![batch.src] = Terminalized(@)]
       ELSE UNCHANGED sources
    /\ frontier' = IF batch.sealed \/ BatchSource.count > 0
                   THEN Retain(ClosingFrontier) ELSE frontier
    /\ RetireBatch
    /\ pc' = "append"
    /\ UNCHANGED <<device, losses, closure, visit, info, exit, faults, consumed, skipped>>

AppendClosure ==
    /\ pc = "append"
    /\ frontier = None \/ AppendAllowed(closure, frontier)
    /\ closure' = IF frontier = None THEN closure
                  ELSE AppendedClosure(closure, frontier, visit.reason)
    /\ Committed
    /\ UNCHANGED <<device, sources, losses, batch, pending, info, recv, exit, faults, consumed, skipped>>

ClosureRefused ==
    /\ pc = "append"
    /\ frontier # None /\ ~AppendAllowed(closure, frontier)
    /\ Fatal("closure_refused")
    /\ UNCHANGED <<dev, durable, faults, consumed, skipped>>

(* The publisher, outside capture priority: a drained closure lets it take   *)
(* every sealed source up to the frontier and drop the closure.              *)
PublishCohort ==
    /\ pc \in {"wait", "recover"}
    /\ closure.reason = "drained"
    /\ sources' = [i \in DOMAIN sources |->
                     IF i \in SealedSources /\ Frontier(sources[i]) <= closure.next
                     THEN [sources[i] EXCEPT !.life = "published"] ELSE sources[i]]
    /\ closure' = NoClosure
    /\ UNCHANGED <<device, losses, volatile, faults, consumed, skipped>>

-----------------------------------------------------------------------------
(* The process stops: at any point, with nothing but committed rows left ... *)
Crash ==
    /\ pc # "down" /\ Fault
    /\ Fatal("crash")
    /\ UNCHANGED <<dev, durable, consumed, skipped>>

(* ... or on request: finalize_active interrupts a READ and closes the       *)
(* writer first.                                                             *)
Shutdown ==
    /\ pc # "down" /\ Fault
    /\ \E tail \in BOOLEAN :
         sources' = IF pc = "reading"
                    THEN [sources EXCEPT ![batch.src] = Interrupted(@, recv, tail)] ELSE sources
    /\ Fatal("shutdown")
    /\ UNCHANGED <<dev, losses, closure, consumed, skipped>>

Restart ==
    /\ pc = "down"
    /\ pc' = "recover" /\ exit' = "none"
    /\ UNCHANGED <<device, durable, visit, batch, pending, frontier, info, recv,
                   faults, consumed, skipped>>

-----------------------------------------------------------------------------
Environment == DeviceRecords \/ DeviceMovesAhead \/ DeviceReboots \/ LinkLost

Host ==
    \/ LoadRecovery \/ AttemptGranted \/ Connect \/ FreshInfo
    \/ QuarantinePending \/ AdmitBatch \/ RingEmpty
    \/ QuarantineDiscontinuous \/ RecordLoss \/ RetirePrefix \/ AlreadyComplete
    \/ PrepareLeg \/ LegRefused \/ ReadBegin \/ ReceiveRecord \/ ReadDone \/ SealBatch \/ SealRefused
    \/ ResumeSealed \/ CursorInfo \/ CursorRejected \/ SendAdvance
    \/ ConfirmDrain \/ SessionInterrupted
    \/ CloseStored \/ MergeClosure \/ CloseLive \/ AppendClosure \/ ClosureRefused \/ Restart

Other == StoreRecord \/ PublishCohort \/ RecoveryEnded \/ CandidateUnavailable
         \/ ConnectFails \/ AdvanceIgnored \/ Crash \/ Shutdown

Next == Environment \/ Host \/ Other

Spec == Init /\ [][Next]_vars

(* The event loop runs, timeouts end every wait on the radio, presence keeps *)
(* granting attempts and systemd restarts the service.                       *)
FairSpec == Spec /\ WF_vars(Host)

-----------------------------------------------------------------------------
(* Every variable keeps the shape the code gives it.                         *)
TypeOK ==
    /\ dev \in [read: Sequence, write: Sequence] /\ dev.read <= dev.write
    /\ link \in BOOLEAN
    /\ sources \in Seq([start: Sequence, limit: Sequence, count: Sequence, life: Lives, tail: BOOLEAN])
    /\ \A l \in losses : l.src \in DOMAIN sources /\ l.from \in Sequence /\ l.to \in Sequence
    /\ closure.next \in Sequence \cup {None}
    /\ batch.src \in 0..Len(sources) /\ pending.src \in 0..Len(sources)
    /\ frontier \in Sequence \cup {None}
    /\ recv \in Sequence
    /\ faults \in 0..MaxFaults

Holds(s, r) == s.start <= r /\ r < Frontier(s)

(* Host ADVANCE only ever moves the cursor over records that a sealed source *)
(* holds: no crash, stale INFO or lost acknowledgement makes it destructive. *)
HostAdvanceIsCustodied ==
    \A r \in consumed : \E i \in DOMAIN sources :
        sources[i].life \in {"sealed_waiting", "published"} /\ Holds(sources[i], r)

(* However a visit ends, at most one source stays open to be resumed.        *)
OneOpenSource == Cardinality(OpenSources) <= 1

(* The closed frontier is the end of records that a closed source holds, or   *)
(* the start of a quarantined one that holds none.                            *)
ClosureIsBacked ==
    closure # NoClosure =>
        \E i \in DOMAIN sources : ~Open(sources[i]) /\ Frontier(sources[i]) = closure.next

(* While a drain permit stands nothing is being captured and nothing beyond  *)
(* its frontier waits: the publisher never sees half a visit.                *)
DrainPermitIsFinal ==
    closure.reason = "drained" =>
        /\ OpenSources = {}
        /\ \A i \in SealedSources : Frontier(sources[i]) <= closure.next
        /\ pc \in {"recover", "wait", "down"}

(* What the coordinator believes durable is in the store: the frontier of    *)
(* the visit, the prefix of the batch and the prefix of a pending source     *)
(* (which close_pending_prefix ends one step before the coordinator drops it). *)
BelievedIsStored ==
    /\ frontier # None => \E i \in DOMAIN sources : Holds(sources[i], frontier - 1)
    /\ batch # NoBatch => batch.prefix <= Frontier(BatchSource)
    /\ pending # NoPending /\ batch = NoBatch /\ pc # "merge" =>
         Open(sources[pending.src]) /\ pending.next = Frontier(sources[pending.src])

(* A confirmed loss names only records that the device passed by itself and  *)
(* that the attempt it is charged to does not hold.                          *)
LossIsTruthful ==
    [][\A l \in losses' \ losses : \A r \in Records(l.from, l.to) :
         r \in skipped /\ ~Holds(sources[l.src], r)]_vars

(* A finite backlog is drained in spite of every fault, restart included.    *)
BacklogDrains == <>[](dev.write = MaxSequence) => []<>(dev.read = dev.write)

(* A pendant that left and came back does not kill the collector: the leg it *)
(* prepares always fits the source it resumed.                               *)
LegIsNeverRefused == exit # "leg_refused"

(* Closing a visit never fails on the frontier of an earlier one.            *)
ClosureIsNeverRefused == exit # "closure_refused"

(* A confirmed loss is irretrievable: no source holds the record.            *)
LossIsIrretrievable ==
    [][\A l \in losses' \ losses : \A r \in Records(l.from, l.to) :
         ~\E i \in DOMAIN sources : Holds(sources[i], r)]_vars
=============================================================================
