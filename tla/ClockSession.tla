----------------------------- MODULE ClockSession -----------------------------
(***************************************************************************)
(* One physical session after another, under the PHY guard: the session    *)
(* machine (session_machine.py), the scoped PHY guard (phy_guard.py) and   *)
(* the clock correction of its preflight (operational_telemetry.py) over   *)
(* the durable clock evidence, with the pendant that records, drifts, is   *)
(* power cycled and may take a clock write late.                           *)
(*                                                                         *)
(* The process is one coroutine: pc names the effect it awaits. The        *)
(* pendant, the link, a crash and a cancellation come in between. A        *)
(* database call that fails may have been committed or not.                *)
(***************************************************************************)
EXTENDS ClockState, Sequences

CONSTANTS
    Jump,        \* how far apart the clocks of two power cycles are
    MaxRecords,  \* bound: records the pendant writes
    MaxCycles,   \* bound: power cycles
    MaxDrift,    \* bound: steps its clock drifts, all in one direction
    MaxChanges,  \* bound: power cycles and steps of drift together
    MaxFaults    \* bound: failed calls, lost links, cancellations and crashes

ASSUME SessionAssumption ==
    /\ {MaxRecords, MaxCycles, MaxDrift, MaxChanges, MaxFaults} \subseteq Nat
    /\ Jump \in Nat /\ Jump > MaxDrift + Tolerance

VARIABLES
    log,       \* pendant: the clock offset each record was stamped with
    rtc,       \* pendant: host time minus its clock
    cycles, drifted,
    link,      \* the pendant is connected
    inflight,  \* a clock write that timed out and may still be delivered
    tail,      \* records the host has read
    evidence,  \* database: the clock state
    marker,    \* database: the PHY selection to restore, or "none"
    selected,  \* controller: the selected PHYs
    pc,
    after,     \* what follows teardown: "checkpoint", or "raise" (FAILED, CANCELLED)
    job,       \* who restores the PHY: "startup", "enter", "undo", "exit"
    snapshot,  \* the guard's _snapshot, or "none"
    info,      \* INFO of this session: the ring's cursors
    sample,    \* the offset read in this session
    written,   \* of the clock write: "verified", "unverified", "failed"
    boundary,  \* write_sequence of INFO after the write, or Unset
    frontier,  \* publication: the next record, and the frozen time of the one before
    joined,    \* publication: the records published as comparable to the one before
    faults,
    writes,    \* history: where in the log a clock write of ours took effect
    orphan,    \* history: the anchor is older than a completed clock write
    excused    \* history: what was mapped from such an anchor

pendant == <<log, rtc, cycles, drifted>>
radio == <<link, inflight>>
phy == <<marker, selected, job, snapshot>>
local == <<info, sample, written, boundary>>
published == <<frontier, joined>>
history == <<writes, orphan, excused>>
vars == <<pendant, radio, tail, evidence, phy, pc, after, local, published, faults, history>>

NoFrontier == [next |-> 0, mapped |-> FALSE, member |-> <<"none", 0, 0>>]
NoInfo == [read |-> 0, write |-> 0]

\* The first session finds a clock just far enough off to be set.
Init ==
    /\ log = <<>> /\ rtc = Tolerance + 1 /\ cycles = 0 /\ drifted = 0
    /\ link = FALSE /\ inflight = FALSE /\ tail = 0
    /\ evidence = NoEvidence
    /\ marker = "none" /\ selected = "full" /\ job = "none" /\ snapshot = "none"
    /\ pc = "down" /\ after = "checkpoint"
    /\ info = NoInfo /\ sample = 0 /\ written = "failed" /\ boundary = Unset
    /\ frontier = NoFrontier /\ joined = {} /\ faults = 0
    /\ writes = {} /\ orphan = FALSE /\ excused = {}

NoGuard == job' = "none" /\ snapshot' = "none" /\ after' = "checkpoint"
NoLocal == info' = NoInfo /\ sample' = 0 /\ written' = "failed" /\ boundary' = Unset

Fault == faults < MaxFaults /\ faults' = faults + 1

\* A call that fails because of what it finds, or for no reason the model has.
Fails(because) == (because /\ UNCHANGED faults) \/ Fault

-----------------------------------------------------------------------------
(* The pendant. A step of it is taken right before a step of the host that *)
(* could tell: at any other moment the two commute.                        *)

Record ==
    /\ pc \in {"idle", "write", "boundary", "read"} /\ Len(log) < MaxRecords
    /\ log' = Append(log, rtc)
    /\ UNCHANGED <<rtc, cycles, drifted, radio, tail, evidence, phy, pc, after, local,
                   published, faults, history>>

\* A step of drift takes hours, a session's preflight seconds.
Drift ==
    /\ pc = "idle" /\ drifted < MaxDrift /\ cycles + drifted < MaxChanges
    /\ drifted' = drifted + 1 /\ rtc' = rtc + 1
    /\ UNCHANGED <<log, cycles, radio, tail, evidence, phy, pc, after, local, published,
                   faults, history>>

\* Only a power cycle changes the clock behind our back, to one never seen before.
PowerCycle ==
    /\ pc = "idle" /\ cycles < MaxCycles /\ cycles + drifted < MaxChanges
    /\ cycles' = cycles + 1 /\ rtc' = Jump * cycles'
    /\ UNCHANGED <<log, drifted, radio, tail, evidence, phy, pc, after, local, published,
                   faults, history>>

ClockSet == rtc' = 0 /\ writes' = writes \cup {Len(log)}
ClockKept == rtc' = rtc /\ writes' = writes

\* A write given up on reaches the pendant after all, while the link is up.
LateWrite ==
    /\ inflight /\ link
    /\ inflight' = FALSE /\ ClockSet
    /\ UNCHANGED <<log, cycles, drifted, link, tail, evidence, phy, pc, after, local,
                   published, faults, orphan, excused>>

LinkLoss ==
    /\ link /\ Fault
    /\ link' = FALSE /\ inflight' = FALSE
    /\ UNCHANGED <<pendant, tail, evidence, phy, pc, after, local, published, history>>

-----------------------------------------------------------------------------
(* The PHY guard *)

EnterSteps == {"snapshot", "mark_phy", "set_temporary"}

\* The restore of snap on behalf of who; a marker from an earlier run comes first.
Restore(who, snap) == pc' = "set" /\ job' = who /\ snapshot' = snap

StartService ==
    /\ pc = "down"
    /\ IF marker = "none" THEN pc' = "idle" /\ UNCHANGED <<job, snapshot>>
                          ELSE Restore("startup", marker)
    /\ UNCHANGED <<pendant, radio, tail, evidence, marker, selected, after, local, published,
                   faults, history>>

BeginSession ==
    /\ pc = "idle"
    /\ IF marker = "none" THEN pc' = "snapshot" /\ UNCHANGED <<job, snapshot>>
                          ELSE Restore("enter", marker)
    /\ UNCHANGED <<pendant, radio, tail, evidence, marker, selected, after, local, published,
                   faults, history>>

\* _snapshot is set only once it was read; until then a failure undoes nothing.
FailEnter ==
    IF pc \in {"mark_phy", "set_temporary"} THEN Restore("undo", snapshot) /\ after' = "raise"
                                            ELSE pc' = "down" /\ NoGuard

ReadSnapshot ==
    /\ pc = "snapshot"
    /\ \/ /\ selected = "full" /\ UNCHANGED faults
          /\ pc' = "mark_phy" /\ snapshot' = selected /\ UNCHANGED <<job, after>>
       \/ Fails(selected # "full") /\ FailEnter
    /\ UNCHANGED <<pendant, radio, tail, evidence, marker, selected, local, published, history>>

WriteMarker ==
    /\ pc = "mark_phy"
    /\ \/ /\ marker = "none" /\ UNCHANGED faults
          /\ marker' = snapshot /\ pc' = "set_temporary" /\ UNCHANGED <<job, snapshot, after>>
       \/ Fault /\ marker' \in {marker, snapshot} /\ FailEnter
    /\ UNCHANGED <<pendant, radio, tail, evidence, selected, local, published, history>>

SetTemporary ==
    /\ pc = "set_temporary"
    /\ \/ /\ UNCHANGED <<faults, job, snapshot, after>>
          /\ selected' = "temporary" /\ pc' = "connect"
       \/ Fault /\ selected' \in {selected, "temporary"} /\ FailEnter
    /\ UNCHANGED <<pendant, radio, tail, evidence, marker, local, published, history>>

\* A failed restore raises, with the marker kept: no error of it is retryable.
FailRestore == pc' = "down" /\ NoGuard

SetPhy ==
    /\ pc = "set"
    /\ \/ UNCHANGED <<faults, job, snapshot, after>> /\ selected' = snapshot /\ pc' = "verify"
       \/ /\ Fault /\ selected' \in {selected, snapshot}
          /\ FailRestore \/ (UNCHANGED <<job, snapshot, after>> /\ pc' = "verify")
    /\ UNCHANGED <<pendant, radio, tail, evidence, marker, local, published, history>>

\* A plausible bug: the restored selection is not read back.
VerifyPhyBlindly ==
    /\ pc = "verify" /\ pc' = "delete"
    /\ UNCHANGED <<pendant, radio, tail, evidence, phy, after, local, published, faults, history>>

VerifyPhy ==
    /\ pc = "verify"
    /\ \/ /\ selected = snapshot /\ pc' = "delete"
          /\ UNCHANGED <<faults, job, snapshot, after>>
       \/ Fails(selected # snapshot) /\ FailRestore
    /\ UNCHANGED <<pendant, radio, tail, evidence, marker, selected, local, published, history>>

Restored ==
    CASE job = "startup" -> "idle"
      [] job = "enter" -> "snapshot"
      [] job = "exit" /\ after = "checkpoint" -> "checkpoint"
      [] OTHER -> "down"

DeleteMarker ==
    /\ pc = "delete"
    /\ \/ /\ marker = snapshot /\ UNCHANGED faults
          /\ marker' = "none" /\ pc' = Restored /\ NoGuard
       \/ marker # snapshot /\ UNCHANGED <<faults, marker>> /\ FailRestore
       \/ Fault /\ marker' \in {marker, "none"} /\ FailRestore
    /\ UNCHANGED <<pendant, radio, tail, evidence, selected, local, published, history>>

-----------------------------------------------------------------------------
(* The session and its clock correction *)

Goto(step) == pc' = step /\ UNCHANGED after
Leave(next) == pc' = "teardown" /\ after' = next

Connect ==
    /\ pc = "connect"
    /\ \/ UNCHANGED <<faults, job>> /\ link' = TRUE /\ Goto("info")
       \/ /\ Fault /\ UNCHANGED link
          /\ pc' = "set" /\ job' = "exit" /\ after' \in {"checkpoint", "raise"}
    /\ UNCHANGED <<pendant, inflight, tail, evidence, marker, selected, snapshot, local,
                   published, history>>

Info ==
    /\ pc = "info"
    /\ \/ /\ link /\ UNCHANGED faults
          /\ info' = [read |-> tail, write |-> Len(log)] /\ Goto("sample")
       \/ Fails(~link) /\ UNCHANGED info /\ Leave("checkpoint")
    /\ UNCHANGED <<pendant, radio, tail, evidence, phy, sample, written, boundary, published,
                   history>>

\* _read_time, the storage lease and the host clock probe: all of them optional.
Sample ==
    /\ pc = "sample"
    /\ \/ /\ link /\ sample' = rtc
          /\ Goto(IF evidence.intent.phase = "none" THEN "observe" ELSE "reconcile")
       \/ UNCHANGED sample /\ Goto("read")
    /\ UNCHANGED <<pendant, radio, tail, evidence, phy, info, written, boundary, published,
                   faults, history>>

\* One database call: committed, failed, or committed and reported as failed.
Commit(next, step) ==
    \/ UNCHANGED faults /\ evidence' = next /\ Goto(step)
    \/ Fault /\ evidence' \in {evidence, next} /\ Goto("read")

\* _reconcile_pending_state: close the window at this session's cursor, then finish.
Reconcile ==
    /\ pc = "reconcile"
    /\ LET i == evidence.intent
       IN IF info.write < i.before THEN UNCHANGED <<evidence, faults>> /\ Goto("read")
          ELSE IF i.phase = "prepared" \/ i.after = Unset
          THEN Commit(MarkUncertain(evidence, info.write), "reconciled")
          ELSE UNCHANGED <<evidence, faults>> /\ Goto("reconciled")
    /\ UNCHANGED <<pendant, radio, tail, phy, local, published, history>>

\* The anchor now predates a write until the next reading replaces it.
Finish(write, step) ==
    IF CanFinish(evidence, write)
    THEN Commit(FinishIntent(evidence, write), step) /\ orphan' = (orphan \/ evidence'.intent = NoIntent)
    ELSE UNCHANGED <<evidence, faults, orphan>> /\ Goto("read")

ReconcileFinish ==
    /\ pc = "reconciled"
    /\ Finish(info.write, "observe")
    /\ UNCHANGED <<pendant, radio, tail, phy, local, published, writes, excused>>

\* store.observe, and what the history makes of it.
Observed(read, write, offset, step) ==
    LET next == Observe(evidence, read, write, offset)
    IN /\ Commit(next, step)
       /\ IF evidence' = next /\ evidence # next
          THEN /\ orphan' = FALSE
               /\ excused' = excused \cup (IF orphan THEN Covered(next) \ Covered(evidence) ELSE {})
          ELSE UNCHANGED <<orphan, excused>>

ObserveBefore ==
    /\ pc = "observe"
    /\ Observed(info.read, info.write, sample,
                IF Abs(sample) <= Tolerance THEN "read" ELSE "prepare")
    /\ UNCHANGED <<pendant, radio, tail, phy, local, published, writes>>

Prepare ==
    /\ pc = "prepare"
    /\ Commit(BeginIntent(evidence, info.write), "write")
    /\ UNCHANGED <<pendant, radio, tail, phy, local, published, history>>

\* The target is stale by now, or the characteristic is missing: nothing was written.
TargetStale ==
    /\ pc = "write"
    /\ Commit(CancelPrepared(evidence), "read")
    /\ UNCHANGED <<pendant, radio, tail, phy, local, published, history>>

\* Acknowledged; whether the pendant really set its clock, the readback tells.
WriteTime ==
    /\ pc = "write" /\ link
    /\ \/ ClockSet /\ UNCHANGED faults
       \/ ClockKept /\ Fault
    /\ written' = "unverified" /\ Goto("readback")
    /\ UNCHANGED <<log, cycles, drifted, radio, tail, evidence, phy, info, sample, boundary,
                   published, orphan, excused>>

\* Failed or timed out: done, not done, or still on its way.
WriteFails ==
    /\ pc = "write"
    /\ Fails(~link)
    /\ \/ link /\ ClockSet /\ UNCHANGED inflight
       \/ ClockKept /\ inflight' \in {link, FALSE}
    /\ written' = "failed" /\ boundary' = Unset /\ Goto("mark")
    /\ UNCHANGED <<log, cycles, drifted, link, tail, evidence, phy, info, sample, published,
                   orphan, excused>>

ReadBack ==
    /\ pc = "readback"
    /\ \/ link /\ rtc = 0 /\ written' = "verified" /\ UNCHANGED faults
       \/ (~link \/ rtc # 0) /\ UNCHANGED <<written, faults>>
       \/ link /\ Fault /\ UNCHANGED written
    /\ sample' = (IF written' = "verified" THEN rtc ELSE sample)
    /\ Goto("boundary")
    /\ UNCHANGED <<pendant, radio, tail, evidence, phy, info, boundary, published, history>>

ReadBoundary ==
    /\ pc = "boundary"
    /\ \/ link /\ boundary' = Len(log) /\ UNCHANGED faults
       \/ Fails(~link) /\ boundary' = Unset
    /\ Goto("mark")
    /\ UNCHANGED <<pendant, radio, tail, evidence, phy, info, sample, written, published, history>>

PersistResult ==
    /\ pc = "mark"
    /\ Commit(MarkUncertain(evidence, boundary),
              IF written = "verified" /\ boundary # Unset THEN "finish" ELSE "read")
    /\ UNCHANGED <<pendant, radio, tail, phy, local, published, history>>

FinishWrite ==
    /\ pc = "finish"
    /\ Finish(boundary, "reobserve")
    /\ UNCHANGED <<pendant, radio, tail, phy, local, published, writes, excused>>

ObserveAfter ==
    /\ pc = "reobserve"
    /\ Observed(tail, boundary, sample, "read")
    /\ UNCHANGED <<pendant, radio, tail, phy, local, published, writes>>

\* The transfer, which RingCapture models; here it only moves the read cursor.
Read ==
    /\ pc = "read"
    /\ \/ link /\ tail' = Len(log) /\ Leave("checkpoint") /\ UNCHANGED faults
       \/ ~link /\ UNCHANGED <<tail, faults>> /\ Leave("checkpoint")
       \/ Fault /\ UNCHANGED tail /\ Leave("raise")
    /\ UNCHANGED <<pendant, radio, evidence, phy, local, published, history>>

\* The link goes down, or is left up by a teardown that fails, retryably or not;
\* a write that has not arrived by then is dropped.  The guard exits.
Teardown ==
    /\ pc = "teardown"
    /\ inflight' = FALSE
    /\ \/ link' = FALSE /\ UNCHANGED <<faults, after>>
       \/ Fault /\ link' \in {link, FALSE} /\ after' \in {after, "raise"}
    /\ pc' = "set" /\ job' = "exit" /\ NoLocal
    /\ UNCHANGED <<pendant, tail, evidence, marker, selected, snapshot, published, history>>

Checkpoint ==
    /\ pc = "checkpoint"
    /\ \/ UNCHANGED faults /\ pc' = "idle"
       \/ Fault /\ pc' = "down"
    /\ UNCHANGED <<pendant, radio, tail, evidence, phy, after, local, published, history>>

Preflight == {"info", "sample", "observe", "reconcile", "reconciled", "prepare", "write",
              "readback", "boundary", "mark", "finish", "reobserve", "read"}

\* A cancellation, a stop request or a fatal storage error between two effects.
\* Calls into threads, the teardown and the restore are joined first.
Cancel ==
    /\ Fault
    /\ \/ pc \in Preflight /\ Leave("raise") /\ UNCHANGED <<job, snapshot>>
       \/ pc \in EnterSteps /\ FailEnter
       \/ pc = "connect" /\ pc' = "set" /\ job' = "exit" /\ after' = "raise" /\ UNCHANGED snapshot
    /\ UNCHANGED <<pendant, radio, tail, evidence, marker, selected, local, published, history>>

Crash ==
    /\ pc # "down" /\ Fault
    /\ pc' = "down" /\ link' = FALSE /\ inflight' = FALSE /\ NoGuard /\ NoLocal
    /\ UNCHANGED <<pendant, tail, evidence, marker, selected, published, history>>

\* A cohort is prepared between sessions: each record's time is frozen from the
\* evidence of this moment and the frozen time of the record before it.
Publish ==
    /\ pc = "idle" /\ frontier.next < tail
    /\ LET s == frontier.next
           label == PublicLabel(evidence, s)
       IN /\ frontier' = [next |-> s + 1, mapped |-> label.mapped, member |-> label.member]
          /\ joined' = IF s > 0 /\ Comparable(evidence, s, frontier)
                       THEN joined \cup {s} ELSE joined
    /\ UNCHANGED <<pendant, radio, tail, evidence, phy, pc, after, local, faults, history>>

Next ==
    \/ Record \/ Drift \/ PowerCycle \/ LateWrite \/ LinkLoss
    \/ StartService \/ BeginSession \/ ReadSnapshot \/ WriteMarker \/ SetTemporary
    \/ SetPhy \/ VerifyPhy \/ DeleteMarker
    \/ Connect \/ Info \/ Sample \/ Reconcile \/ ReconcileFinish \/ ObserveBefore
    \/ Prepare \/ TargetStale \/ WriteTime \/ WriteFails \/ ReadBack \/ ReadBoundary
    \/ PersistResult \/ FinishWrite \/ ObserveAfter \/ Read \/ Teardown \/ Checkpoint
    \/ Cancel \/ Crash \/ Publish

Spec == Init /\ [][Next]_vars

-----------------------------------------------------------------------------
(* Properties *)

\* A record mapped to UTC is off by no more than the uncertainty published
\* with it: no offset read before a clock write or a power cycle reaches a
\* record stamped after it (ClockState.observe, _sync_trusted_state_clock).
\* Excused is what a reading maps from an anchor older than a completed write,
\* the crash between store.finish and store.observe in _persist_clock_result.
TimeIsTruthful ==
    \A s \in (0 .. Len(log) - 1) \ excused :
        LET label == PublicLabel(evidence, s)
        IN label.mapped => Abs(log[s + 1] - label.offset) <= label.uncertainty

\* Two records on the two sides of a clock write are never published as
\* comparable, whether the write was verified, timed out, arrived late or was
\* cut off by a crash, and whenever they are published
\* (PublicTimeProjection.freeze, ClockState.finish_intent).
WriteIsIncomparable == writes \cap joined = {}

\* A changed PHY selection is always recorded durably, and no session that
\* returned leaves one behind (ScopedPhyGuard).
PhyIsRestored ==
    /\ selected # "full" => marker = "full"
    /\ pc \in {"idle", "checkpoint"} => selected = "full" /\ marker = "none"
=============================================================================
