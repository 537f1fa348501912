# Formal models of omi-collector

omi-collector is a Python service that drains the audio ring of a wearable
pendant over BLE, keeps the records in SQLite, and publishes them to local
consumers. This directory holds TLA+ models of its capture, custody and publication
logic, of the radio scheduling and the clock correction around it, TLC
configurations that check them on small instances, and TLAPS proofs, for instances of
every size, about the durable writer, ring capture, the publication workers and their
protocol, the clock session, the audio store and presence. `PROJECT.json` maps every definition
to the source lines it models and lists runs, mutants, hazards, findings and
theorems.

Source paths below are relative to `src/src/omi_collector/capture/`.

## Inventory

| Component | State | Operations | Hard behaviour | What makes it correct |
| --- | --- | --- | --- | --- |
| attempt writer (`adapters/attempt_writer.py`, `attempt_writer_machine.py`) | lifecycle machine, command queue, published and written frontiers, durable count, wake event | publish, start, prepare_leg, read_begin, checkpoint, interrupt, seal, publish_prefix, close; the thread's loop | event loop against thread, storage failure at any call, lost wake-up, close behind other commands | stores an in-order prefix, acknowledges only what is stored, failure is final, every call settles |
| staging writer, staged attempt (`staging_writer.py`, `attempts.py`) | lease, prepared leg, sealed and prefix flags | prepare, prepare_leg, read_begin, append_chunk, checkpoint, interrupt, seal, publish_prefix, close | partial append, lease release | seals only complete ranges |
| internal audio store (`internal_audio_store.py`, `domain/internal_audio_machine.py`) | capture_source rows, records, tails | create, prepare_leg, read begin, drain, tail, interrupt, seal | ambiguous commits, replayed records | one open source; a leg stays in its range |
| batch reconciliation (`application/batch_reconciliation.py`, `batch_machine.py`) | current batch, pending source, visit frontier | ensure/admit batch, read, seal, ADVANCE, cursor-ahead, quarantine, close visit, finalize | stale INFO, lost ADVANCE acknowledgement, device cursor moving by itself | ADVANCE only over stored records; losses truthful |
| ring client, arena (`application/collector.py`, `domain/transfer_arena.py`, `domain/ring_protocol.py`) | arena offsets, read phase | read_leg, advance_leg, ring_info | notifications out of phase, timeouts, cancellation | records contiguous |
| visit machine, session lifecycle (`visit_machine.py`, `session_lifecycle.py`, `session_machine.py`) | visit state, session phase | recovery, attempt, interruption, drain, closure | errors during teardown, retry | a visit is closed once, with the right reason |
| staging store, ready closures (`staging_store.py`, `ready_closures.py`) | ready closure row, lock | inspect recovery, close prefix, append, fence | crash between transactions | closure backed by records; a drain permit is final |
| quarantine (`quarantine.py`, `domain/quarantine_machine.py`) | quarantine rows | admit, terminalize, salvage, sweep | retention against custody | unique audio is never dropped |
| publication and compaction (`domain/ready_machine.py`, `publication.py`, `ready_bundles.py`, `sqlite_compaction.py`) | mode, work, generation, cohort, ledger, ACK | wake, check, run, retry, compact, commit, retire | stale timers and results, capture priority, ambiguous commits, crash between ledger and files | each record published once; compaction yields |
| maintenance (`quarantine_maintenance.py`, `owned_work.py`) | tasks, cleanup phase, due times | startup recovery, cleanup window, capture priority | cancellation while joining | no work overlaps capture |
| presence (`presence.py`, `presence_machine.py`, `scan_cadence.py`, observer in `bleak_transport.py`) | waiting state, permit, cadence, scanner generation, stop task | advertisement, timer, outcome, scanner start and stop, pause, close | timer races, late and cancelled scanner stops, stale observations | a permit is earned by one encounter, with the scanner off, outside cooldown |
| scan health (`ble_scan_health.py`, store) | generation, incident, retry time | prepare, callback, silence, failure, open, resolve, flush | callbacks of old generations, failing storage | an incident is open exactly while the radio is silent |
| clock state (`domain/clock_state.py`, stores, `operational_telemetry.py`, `public_time_facts.py`) | anchor, intent, ranges, uncertain intervals, public frontier | observe, prepare, write, verify, finish, reconcile, freeze | crash between intent and write, late delivery, power cycle | mapped time is true within its uncertainty; nothing is compared across a write |
| PHY guard (`adapters/phy_guard.py`) | marker, snapshot | enter, restore, recover | crash between marker and selection | original PHY is restored |
| metrics, logs, status, CLI, migrations, BLE adapter, encoders | - | - | - | outside the models |

How they interact: the session lifecycle asks presence for an attempt, connects,
and lets the batch reconciler work on fresh INFO. The reconciler creates an
attempt writer per batch; `read_leg` publishes arena bytes to the writer's thread,
which stores them through the staging writer in SQLite. A batch is sealed, then
ADVANCE is sent on another fresh INFO. A visit ends (drained, absent, exhausted,
restart) by closing its prefix and writing the ready closure, which the
publication side consumes; a drained closure is the permit to publish a cohort.
Maintenance and publication stop while capture has priority.

`docs/FSM_INVARIANTS.md` states the intended obligations F01-F10.
`HostAdvanceIsCustodied` is F01, `BelievedIsStored`, `OneOpenSource` and
`ClosureIsBacked` are parts of F02, `DrainPermitIsFinal` is the drain part of F03 and
`ReadyIsWhole` its part (c). `ImplementsLedger` is F04(a) and F05(a), `TimeIsTruthful` and
`WriteIsIncomparable` are F04(c), `RetiredFilesGo` is F05(c). `OneStorageOwner` and
`CaptureOwnsStorage` are F06(a), `RetriesHonourDeadline` is F07(b), `IncidentIsTruthful`
is F08(a) and (b), `BacklogDrains` is F09(a), `EligiblePublishes` is F09(b), and
`PhyIsRestored` is F10(b) with the order of startup as F10(a).

## Modules

| Module | Models | Used by |
| --- | --- | --- |
| `StagingWriter` | the writer's storage target as guards and results of its calls (no state of its own) | `AttemptWriter` |
| `AttemptWriter` | the writer: event-loop callers, lock, queue, thread | `MCAttemptWriter` |
| `DurableFrontier` | abstract promise: a submitted, a stored and an acknowledged frontier, a final state, a failure | refined by `AttemptWriter` |
| `RingCapture` | reconciler, visit machine, session loop, source rows, losses and ready closure across faults | `MCRingCapture` |
| `Publication` | publication reducer, its three workers, retry timer, cleanup window, vacuum and capture priority | `MCPublication` |
| `PublicLedger` | abstract promise of the public feed: append-only, disjoint, ordered, removed only after ACK | refined by `ReadyBundles` |
| `ReadyBundles` | acceptance, staging, rename, commit, coverage, raw retirement and ACK retirement across crashes and power loss | `MCReadyBundles` |
| `PresenceMachine` | the pure presence policy | `Presence` |
| `ScanHealth` | the scan health monitor as operators on its state | `Presence` |
| `Presence` | scheduler, cadence, scanner and health composed | `MCPresence` |
| `ClockState` | the pure clock evidence and the time facts derived from it | `ClockSession` |
| `ClockSession` | one session after another: PHY guard, session phases, clock correction, publication of time | `MCClockSession` |
| `AudioMachine` | the pure reducers of capture source, quarantine disposition and salvage | `AudioStore` |
| `AudioStore` | custody in the database: the writing operations of the store, ambiguous commits, salvage, sweep | `MCAudioStore` |
| `AttemptWriter_proofs`, `RingCapture_proofs`, `Publication_proofs`, `ClockSession_proofs`, `AudioStore_proofs`, `Presence_proofs`, `ReadyBundles_proofs` | TLAPS proofs about the module each is named after | - |

### AttemptWriter

Each section the code runs under `self._lock` is one step, and each call of the
target, which runs without it, is one step. `pc` is the place of the thread:
`next` (`_run`), `idle`/`wait`/`clear` (`_run_idle`), `begin`, `drain`, `target`,
`settle` (`_run_command`, `_execute`, `_drain_data`), `done`. The client is free:
it may make any call at any time. A call that the lifecycle machine rejects changes
nothing. `call` follows one call, chosen by the client, to its result. Bytes are
counted in records, and a partial record is the length of the tail. Any target call
may raise, before, after or (for an append) between its commits.

Abstractions: the two lock sections of `_record_failure` are one step (only a close
can be admitted between them, and it survives the queue purge either way);
`ReuseClose` shares the first close, so at most one is queued; a prepared leg ends
at the end of the source. The adapter's `prepare` also reads the durable prefix after it
has taken the lease (`opportunistic_runtime.py:49-51`) and may raise there; a `prepare`
that fails is modelled, that place of it is not, and no property depends on it.

### RingCapture

The device (external) appends records, applies ADVANCE, moves its cursor forward by
itself, and may return to an older cursor when it reboots. `sources` are the
`capture_source` rows, `closure` the ready closure row, `losses` the confirmed-loss
ledger; they are what survives `Crash`. `pc` is where the coordinator is: `recover`,
`wait`, `connect`, `step` (an INFO in hand), `info`, `reading`, `retire`, `seal`,
`advance_info`, `advance`, `ack_info`, `drained`, `close`, `merge`, `append`, `down`.
Each step that commits a transaction is separate, so `Crash` can fall between any two.
The writer appears through `DurableFrontier`: `StoreRecord` stores in order, at any
time, what has been received; interruption and barrier store everything received.

Abstractions: timeouts and cancelled waits are link losses where the coordinator
needs the link; presence may grant an attempt, or end a recovery, at any time while
the coordinator waits; publication of a cohort happens at any time a drained closure
stands (the publisher also waits for a duration threshold and clock evidence). The
write sequence never decreases, as `docs/FSM_INVARIANTS.md` assumes. A drain cursor
below the closure would raise; the model has no action for it and deadlock checking
shows that it never happens. `consumed` and `skipped` are history variables.

### Publication

`ps` is the state of the pure reducer in `domain/ready_machine.py`; each of its events
is an operator that returns the next state and a command. The workers apply them, one
at a time as under `_publication_lock`: `retry` is the retry task, `maint` the
maintenance task, `wake` the coordinator (once at startup, once per presence result).
A worker's place is `start` (wake without a revision), `check` (probe), `wake`, `run`,
`effect`, `finish`, `return`, and for maintenance also `due`, `compact`, `vacuum`,
`vacuumed`, and `notify` between a committed change and its report. `maint` goes through
`ack`, `publish`, `raw`, `expiry`, `vacuum`, `salvage`, and a prefix that salvage admitted
is followed by a publication; a window may end at each
boundary, as its ten minutes may be over. `rev` is what `_publication_revision` reads:
publications and cleanup change it, and so does a consumer that writes its checkpoint,
without a report. `ready` says whether an effect would publish a cohort.

Abstractions: an effect and a vacuum take effect in one step, at their end, and end as
the code can end them (published, settled or blocked, transient with the revision before
or after, revision unreadable; done, interrupted, deferred or parked). Lack of space, a
busy lock and I/O errors are one transient failure, and a parked compaction may be tried
or left out in the next window. Arming the timer and the done callback of the retry task
are one step. Fatal storage errors end the process and are left out. The event
`CompactionProbeFailed` is never sent by the program; `Quiescing` is never reached, since
maintenance is joined before capture begins. `hold` is a history variable.

`RetriesHonourDeadline` speaks of the revision the retrying worker has read. A worker
that probed before another worker published and then failed is admitted at once with
the older revision, although the newer one waits for its deadline: one early attempt,
which finds the changed revision and probes again.

### ReadyBundles

`db` is what SQLite holds: `row` (the capture sources with their coverage cursor and
deleted pages), `cohort`, `stage`, `ledger`, `proof`, the sequence `frontier` and the
next `order`. `files` is the ready directory. The collector runs one call at a time
under the device lock, as `staging_store.py` does: `StartPublish` (first the ACK check,
then recovery, then the decision), `StartRetire` and `RetireRaw`. `Decide` takes the
code's branches in their order (wait for a drain, cover a replay, block a conflict,
refuse behind the frontier, wait for the threshold, accept; advance custody, reserve;
load the stage), `Materialize` writes, renames, syncs and commits. `Propose` starts a
transaction, `Attempt` applies it, rolls it back or raises with either outcome, and
`InspectProposed`, `InspectOld` and `GiveUp` are the classification of
`publication_recovery.py`. `InspectUnreadable` is the inspection that cannot read the
database or the directory and fail-stops for that reason. `BlockConflict` sets aside the
source that contradicts custody; two unpublished sources that contradict each other block
the call (`SourcesClash`). `WriteFails` is an error while the destination is made: EIO
latches the stage, or fail-stops when the latch cannot be written, and any other error,
also one of the parent sync, only ends the call. A power loss may undo renames and
removals whose parent is not synced; one sync covers every entry of the directory. A
destination found in place is reused without that sync, unless scratch
beside it had to be removed, as in the code. A fail-stop ends the service with status 78,
which systemd does not restart; an operator's restart is a `ProcessCrash`. A record is its sequence number with the variant of its source, so that
replays and conflicts can be told apart; packets are counted, not encoded.

Abstractions: the packet-summary and normalized-wait caches
(`ready_bundles.py:2120-2273`) recompute what they hold and are left out, as are wire
formats, digests (a proof is valid or not) and free-space arithmetic (space is refused
or not). A quarantined prefix certified behind the frontier of the v2 feed blocks
publication (`2338-2340`); it is the action `FrontierRefuses`.

### Presence

One coroutine drives policy, cadence, health and scanner: `pc` says what it awaits and
`stack` where it goes from there (a start that fails cleans up, persists an incident
and returns or raises). Scanner callbacks, stops that were given up on and the clock
come in between, at the places where the code really awaits (`Awaits`). `close()` runs
after the waiter was joined and belongs to the same coroutine. `notBefore`, `heardAt`
and `failedAt` are history variables. The observer keeps a stop that failed and
answers every later start and stop with it, so presence then ends the run.

Abstractions: a cancellation inside the best-effort stop of a failed start
(`presence.py:557-558`) is left out, no property depends on it; an advertisement is the generation and the instant of its observation;
the incident is a flag, and the diagnostics snapshot is left out. A visit that is given
up for absence ends its backoff (`notBefore` is set to the present), so `PermitIsEarned`
covers policies whose backoff is longer than `absence_seconds`, which `PresencePolicy`
does not exclude.

### ClockSession

`log` is the truth: the offset each record was stamped with. `evidence` is the clock
state in the database, on which the operators of `ClockState` (observe, prepare,
finish, reconcile, freeze) act. The session passes through the phases of
`session_machine.py`: PHY snapshot, marker, temporary selection, connect, INFO, clock
sample, reconciliation of an old intent, correction (prepare, write, read back,
boundary INFO, finish, observe), reading, teardown, PHY restore, checkpoint. Every
call may fail, a failing commit may have been applied, a write that timed out may be
delivered late, and a cancellation or crash may come anywhere. `Publish` freezes the
time of the next record, between two sessions. A teardown that fails or is interrupted may
leave the link up. `writes`, `orphan` and `excused` are history
variables.

Assumptions and abstractions: a power cycle never restores a clock to within
the tolerance of an anchored one (`docs/BEST_PRACTICES.md:542-546`): `Jump` is larger
than drift and tolerance together; drift goes one way and not during a session. A reading
is exact and its uncertainty is a constant (`ReadUncertainty`): the whole seconds of the
pendant's epoch and the uncertainty each reading computes from its round trip
(`operational_telemetry.py:402-403`) are not told apart, so what is checked is that the
evidence carries the uncertainty along, not that the figure itself covers the rounding
(`clock_state.py:290` widens a range by the anchor's uncertainty only). A write that its
session's teardown has not delivered is dropped. This is the assumption that requests
on a link are answered in order; were a write delivered in a later session after that
session's reading, TLC violates `TimeIsTruthful`.
Mappings outside the representable range, merging of adjacent ranges by source id,
`refresh_utc_projection` and the annotation of older databases are left out.

### AudioStore

`db[s]` is a `capture_source` row with its children: records, the certified prefix,
the tail, rejected chunks, imported evidence, disposition and deadlines. The attempt
that holds the lease creates, prepares legs, begins reads, drains, interrupts, seals;
each transaction is confirmed or raises with either outcome. Creating, draining and
sealing go through the inspection of `_recover_ambiguous` (`RecoverCreate`,
`RecoverDrain`, `RecoverSeal`), every other operation reports an error, or ends the process
when the rollback cannot be confirmed either (`Reported`). Maintenance is
one coroutine: a salvage pass (`StartSalvage`, `InspectPrefix`, `HoldSource`,
`AdmitPrefix`) and, in a cleanup window, the bounded `Sweep`. `OpenWindow` is a pass that
comes to the expiry: nobody captures, the acknowledgements were retired, the publication
is not blocked. The sweeps follow until one finds nothing more (`EndWindow`) or the window
is given up (`DeferWindow`). The publication appears as the holder of
references and as what covers and retires a source. `Alter` is storage that changes
records under the store, the one thing that warrants its fail-stop.

Abstractions: one attempt at a time and one imported source (`Legacy`), so a
salvage pass lists one source; publication does not run while an attempt holds the lease;
leg generations are left out. Branches that defend against states no
operation makes (a snapshot changed between inspection and admission under the
lease, a source classified since it was listed) are in the code and never taken.
`mark_quarantine_unprocessable` is reached by no error the runtime classifies.

## Runs

| Run | Result | Shows |
| --- | --- | --- |
| `attempt_writer` | pass | safety of the writer and the refinement of `DurableFrontier` |
| `attempt_writer_live` | pass | calls settle, published data drains, close ends |
| `attempt_writer_lease` | violation | `LeaseReleasedAtEnd`: a failing drain inside close leaves the lease held |
| `ring_capture` | pass | safety of capture, deadlock included, and `BacklogDrains` |
| `ring_leg` | violation | `LegIsNeverRefused`: an open, empty source resumed for another range ends the process |
| `publication` | pass | safety of the workers against timers, input changes and capture; `CaptureGranted`, `ReadyIsHandled` |
| `publication_forgets` | violation | `EligiblePublishes`: a retry that falls due as a compaction is admitted is dropped |
| `ready_bundles` | pass | what is ready is whole and authentic after any fault, every raised commit that can be read is resolved, the protocol implements `PublicLedger`, accepted cohorts and retirements complete |
| `ready_ack` | violation | `VisibleIsCommitted`: an ACK of a visible but uncommitted artifact blocks its commit for good |
| `presence` | pass | permits are earned and handed out with the scanner off, incidents are truthful |
| `clock_session` | pass | published time is true within its uncertainty, nothing is compared across a clock write, the PHY marker outlives the temporary selection |
| `audio_store` | pass | answers are true in the database after ambiguous commits, fail-stops are warranted, sealed sources have no residue, evidence keeps its term, quarantine is salvaged and, in windows that reach it, expires |

Deadlock checking is off where the system may really stop: the writer thread ends after
close, the service may close, a fail-stop ends the store, the last fault may leave
nothing to do. The violations are described under "findings" in `PROJECT.json`.
None of them loses audio: after a refusal systemd restarts the service and recovery goes
on, which `ring_capture` includes, and a forgotten retry is taken up at the next visit,
change of the input or restart. The blocked commit of `ready_ack` leaves the audio in the
database, and lasts until the acknowledgement is taken back by hand.

### Known divergences without a run

- `ready_closures.py:103` raises "ready closure frontier regressed" when a visit that
  re-reads records after a lost ADVANCE closes at a lower frontier than the closure on
  disk. Recovery merges the two "without regressing a closure" (`ready_machine.py:18`), the
  live close does not, and `features/opportunistic_collection.feature:31,33` promises that
  an interrupted visit is retried and collection continues. TLC finds
  `ClosureIsNeverRefused` of `RingCapture` violated with three faults. A restart merges the
  closure and goes on.
- `batch_reconciliation.py:733` books `[durable_next, cursor)` as confirmed loss looking only
  at the current attempt. When a batch re-reads records that an earlier sealed source holds
  (its ADVANCE was lost) and the device moves its cursor meanwhile, held records are booked
  as lost, where `features/opportunistic_collection.feature:60` speaks of irretrievable
  audio. TLC finds `LossIsIrretrievable` of `RingCapture` violated with three faults.
- `operational_telemetry.py:501-502` finishes a clock write and observes the corrected
  clock in two transactions. After a crash between them a reading maps records from the
  anchor that the write made obsolete. `TimeIsTruthful` excuses exactly these records;
  without the excuse TLC violates it in a behaviour of 31 states.
- Inside an unknown range that spans a power cycle, neighbouring records are published as
  comparable (`public_time_facts.py:74`), contrary to the repository README
  (`src/README.md:431-433`). `WriteIsIncomparable` speaks of clock writes only.
- An intent that was prepared and never written is reconciled as possibly written, where
  `docs/BEST_PRACTICES.md:550` says not written; this errs on the cautious side. When the
  ring sequence has gone back the intent is kept for ever
  (`operational_telemetry.py:532-533`).

- `ready_bundles.py:3341-3343` reuses a destination that is already in place and, unless
  scratch beside it had to go, commits it without syncing the parent directory, where
  `docs/PUBLIC_AUDIO_CONTRACT.md:227` asks to rename "and fsync its parent". Two things lead
  there: a process crash between rename and sync, and an error of the sync other than EIO,
  which is raised with the destination in place and latches nothing (`1082-1096`,
  `3379-3381`). TLC finds `RenameIsDurable` of `ReadyBundles` violated with that one fault
  (rename, crash or failed sync, load stage, reuse, commit); a power loss after the commit
  can then take the artifact back, even when the raw rows it covers are deleted already.
  The theorem `DurableUnlessCutOff` says that without these two a committed rename is durable.
- `quarantine_maintenance.py:343-348` leaves the expiry out of a cleanup window in which
  publication is blocked, and a blocked publication settles and is returned again while
  its input is unchanged (`staging_store.py:237-240,932-933`). A salvaged prefix certified
  behind the frontier (`ready_bundles.py:2338-2340`) blocks for good, so expired evidence
  then stays. `QuarantineSettles` therefore promises the expiry only if windows come to
  it again and again.

### Bounds

Writer: 2 records, a tail of length 0 or 1, chunks of 1 record, a queue of 1 command
(plus the close, which the code admits past the limit) and 1 error. Two chunks are needed
for a drain to be interrupted in the middle and for a second publication to arrive
meanwhile. The live run has no tail (it follows the same path as a record). The lease run
needs a single record; it takes a queue of 2.

Ring: 3 records, batches of 2, 2 faults. Two batches are needed for a second one to
re-read the first; two faults for an ADVANCE to be lost and the re-read interrupted, or
the device cursor moved during it. `MaxSequence` and `MaxFaults` are bounds of the model
and guard `DeviceRecords` and every fault. `ring_leg` uses batches of 3 so that the ring
can grow past an open source's range; the two divergences listed above
need 3 faults.

Publication: any two events (`MaxEvents`) of changes, failures, visits and deletions, a
backoff of 1 then 2. Two are enough for each race of a pair (failure and deletion: the
retry kept across a vacuum; failure and visit: a timer cancelled by capture; change and
failure: a stale result); every worker is free to interleave at every step. The
violation needs three: a change that makes a cohort ready, a failure, a deletion.

Ready bundles: a source of two records, the second silent; one in quarantine whose
certified prefix replays them and goes on after a continuity break; one that contradicts
its last record; three public orders; one fault of any kind (an error may persist through
the retry and the inspection). That is the least with a replay, a conflict with custody and
one between unpublished sources, a cohort of two artifacts and a retirement
between two publications. One fault does not include a power loss after a crash or a failed
sync in the same publication, the divergence listed above. With more faults, a call that is
rolled back twice settles as blocked and is called again when its input changes, so
`CohortCompletes` speaks of one. `CohortCompletes` excludes the
fail-stop after an ACK that was retired between the acceptance of a cohort and its custody
step, and a latched I/O error.

Presence: 5 seconds, 3 scanner generations, 1 buffered advertisement and 1 fault, with
timings of 1 to 4 seconds chosen so that stability, silence, pause, cooldown, backoff
and absence all fall due within the time, in more than one order.

Clock: 2 records, 1 power cycle or 1 step of drift (the tolerance), 2 faults. Two records
are one before and one after a write; two faults are a write that times out and a crash
before its result is settled.

Audio store: an attempt of 2 records of two values with a tail, an imported source, a
retention of 1 with 2 instants, a sweep of 1 row, 2 faults. Two faults are a raised commit
and an inspection or a later pass that fails as well.

### Fairness

Writer: weak fairness of the thread's steps. The thread is a running OS thread and
each target call returns or raises. The client is not assumed to do anything.

Ring: weak fairness of the coordinator's steps. The event loop runs, each wait on the
radio has a timeout, presence keeps granting attempts, and the systemd unit restarts
the service (`Restart=always`). Neither the device, the publisher nor the writer
thread is assumed fair; the barrier in `ReadDone` includes what it waits for. Faults
are finite by their bound, so the property says that after the last fault a backlog
drains.

Publication: weak fairness of each worker, of the vacuum's steps, of the timer and the
clock, of maintenance passes (every 30 seconds) and of the coordinator's joins and visit
ends. Presence results, shutdown, input changes and opening a window are not assumed.

Ready bundles: weak fairness of the steps of a call that has begun, and strong fairness of
the beginning of a publication call, because retirement calls may hold the device lock
whenever it is looked at, but the publication task is woken again and again (input, retry
timer, start). Consumers and new sources are not assumed.

Audio store: weak fairness of the steps of a salvage pass or a window that has begun, strong
fairness of the beginning of a salvage pass (each maintenance pass comes to it, whatever
windows are opened in between), weak fairness of the clock. Opening a window is not
assumed, the expiry in `QuarantineSettles` supposes it, and neither is the restart of a
process that fail-stopped.
`presence` and `clock_session` check safety only.

## Proofs

Every theorem holds for all values of the constants that satisfy the named
assumptions of the module; the `Max...` bounds are arbitrary naturals there, so they
bound nothing but the size of the instance TLC explores.

### AttemptWriter_proofs

For every `Records`, `TailLimit`, `ChunkRecords`, `MaxControlCommands` and `Errors`
(`RecordsAssumption`, `TailLimitAssumption`, `ChunkRecordsAssumption`,
`MaxControlCommandsAssumption`, `ErrorsAssumption`):

- `TypeCorrect` (`TypeOK`), `DrainsInOrder` (`NoGapNoInvention`), `NoPrematureAcknowledgement`
  (`AcknowledgedIsStored`), `SealsOnlyComplete` (`SealIsComplete`);
- `FailureIsLatched` (`FirstFailureLatched`) and `FailureIsFinal` (`NothingAfterFailure`),
  action properties; the first, like `TypeCorrect`, is proved without a run of its own;
- `AnswersCoverFrontier` (`ResultCoversFrontier`) and `CloseLeavesNothing`
  (`CleanCloseDrains`);
- `Refinement`: the writer implements `DurableFrontier`.

None of these is inductive alone. The thread works from a snapshot taken under the
lock while the event loop publishes, so `IndInv` adds: the frontiers are ordered
(written <= stored <= published, acknowledged <= stored); a snapshot's start is what
the thread counts as written and its target was published; a latched failure means
the thread is outside a drain and runs at most a close; a seal that ran left a full
source; finalizing commands, queued, running or done, exist only in late lifecycle
states, so nothing is published behind them. `InitInd` and `StepInd` prove that it is
inductive, with a lemma per action (`PublishStep`, `AdmitStep`, `QueueStep`,
`BeginStep`, `SnapshotStep`, `DrainStep`, `TargetStep`, `SettleStep`, `FailStep`) on
top of lemmas about the target's operators and the lifecycle machine. For the
refinement each action maps to one abstract action or to a stutter.

The last two properties speak of a call from its admission to its answer. `AnswerInv`
follows it: the drain in progress serves the command that was taken from the queue
(`DrainServesCommand`), the target is called only after the drain reached the frontier
of the call (`DrainedBeforeCall`), the followed call is in the queue, running or
answered (`TrackedIsCall`), and a close is the last command (`CloseIsLast`), drained
before it is executed (`DrainedBeforeClose`).

### RingCapture_proofs

For every `MaxSequence`, `BatchRecords` and `MaxFaults` (`MaxSequenceAssumption`,
`BatchRecordsAssumption`, `MaxFaultsAssumption`): `AdvanceIsCustodied`
(`HostAdvanceIsCustodied`), `OneSourceOpen` (`OneOpenSource`), `ClosuresAreBacked`
(`ClosureIsBacked`), `DrainPermitsAreFinal` (`DrainPermitIsFinal`), `BeliefsAreStored`
(`BelievedIsStored`), `LossesAreTruthful` (`LossIsTruthful`, an action property) and
`TypeCorrect`.

The safety of an ADVANCE depends on what the coordinator believed several steps and
perhaps a process earlier, so `IndInv` ties each belief to the rows that survive a
crash: rows lie within what the device wrote (`RowsOK`), which of batch and pending
source exists at which place (`Places`), how much of the batch's source is stored and
that a source beginning after the batch is neither read nor sealed (`BatchOK`), the
pending descriptor (`PendingOK`), an open source nobody holds is empty unless the
process has yet to look for it (`LeftoverOK`), the visit frontier is the end of a source
or lies in the one being read (`FrontierOK`), the prefix chosen for a closure
(`MergeOK`), the drained closure (`DrainOK`), what the device passed by itself ahead of
an open source (`SkipOK`). The proof first shows what a step may do to the rows
(`Effects`: it keeps them, lets the source being read grow, or adds an empty one), then
which actions touch each other variable (`Frames`), and then has a lemma per conjunct.

### Publication_proofs

For every backoff and any number of events (`BoundsAssumption`): `OneOwner`
(`OneStorageOwner`), `CaptureAlone` (`CaptureOwnsStorage`), `RetryNotForgotten`
(`RetryIsArmed`), `DeadlineHonoured` (`RetriesHonourDeadline`). `IndInv` says that a
worker past its admission owns the reducer's work by its token (`Owned`), who can be at
work in which part of a visit (`Joined`), and that the deadline of a failed publication
is kept by the work that waits for it, by the compaction that put it aside, or is
overtaken by a run of another revision (`Held`).

### ClockSession_proofs

For any number of records, faults and power cycles (`ClockAssumption`,
`SessionAssumption`): `PhyGuarded` (`PhyIsRestored`), from `PhyInv`, which says which
marker and selection belong to which place of the guard; `WritesAreGuarded` and
`WriteSeparatesRecords` (`WriteIsIncomparable`), from `GuardInv`: a write that may have
happened lies inside the open intent or an uncertain interval of the evidence, from its
prepared intent to its settled result, late deliveries included, and what was frozen for
the public agrees with the evidence of its time.

`TimeStaysTruthful` (`TimeIsTruthful`) adds `TimeInv`. A power cycle and drift only raise
the clock offset (`OffsetBounded`, from `Jump > MaxDrift + Tolerance`: the model's power
cycle starts a clock never seen before); a reading is still the pendant's clock, at the end
of the log, in the step that stores it (`AtReading`, which uses `GuardInv` for the write
delivered late); every record since an anchor with no clock write behind it was stamped
between the anchor's offset and today's (`AnchorTrue`), so the difference of two readings
bounds the error of what they map (`RangesTrue`). The records that a reading maps from an
anchor older than a completed write stay excused, as in the run: there the property is
false, see "Known divergences".

### AudioStore_proofs

For attempts of every size, any number of sources and any retention
(`SourcesAssumption`, `SizeAssumption`, `RetentionAssumption`, `BoundAssumption`):
`AnswersAreStored` (`StoredAsAnswered`), `FailStopWarranted` (`FailStopIsWarranted`),
`SealedClean` (`SealedIsClean`), `TermIsKept` (`EvidenceKeepsItsTerm`, an action
property). `IndInv` has one row invariant (`RowOK`: attempt, quarantine and bytes agree),
what a salvage pass holds of the source it inspected (`PassOK`), and, for a raised
commit, that the row is one of the two outcomes its recovery tells apart (`DoubtOK`),
which is what makes the third, fatal one unreachable without altered storage.

### Presence_proofs

For every policy, health timing and number of failures (`PolicyAssumption`,
`HealthAssumption`): `ScanStaysReleased` (`ScanIsReleased`), `PermitsAreEarned`
(`PermitIsEarned`), `IncidentsAreTruthful` (`IncidentIsTruthful`). `IndInv` says to
which places the coroutine's stack may return (`Control`, `Stage`), that a scan which may
be on is owed a stop (`Released`), that buffered and pending observations belong to the
running scan and lie in the past (`Heard`, `Aged`), that the encounter of the policy spans
the interval it claims (`Earned`) and that the monitor knows what is stored (`Told`).

### ReadyBundles_proofs

For any sources with any overlaps and disagreements, any thresholds and any number of
faults (`SourcesAssumption`, `BoundsAssumption`): `ResolvesAmbiguity`
(`AmbiguityIsResolved`) and `Refinement` (`ImplementsLedger`). `DataInv` speaks of the
database alone: a row that may lose its records is public in full (`RowsOK`), members of
a cohort hold what lies before their cursor in public (`MembersOK`), the stage holds new
records that every member agrees on (`StageOK`), entries are ordered and their slices
name their own bytes (`LedgerOK`). `Sound` says, for each kind of transaction, what the
code checked before it proposed it; applying a sound proposal keeps `DataInv` and is one
step of `PublicLedger` or a stutter (`SoundKeeps`, from a lemma per transaction). `Doubt`
says that after a raised commit the database is as before, and the proposal still sound,
or as proposed; `InspectedIs` concludes that no inspection that can read the database and
the directory meets a third state, and a retry is again a sound proposal. An inspection that
cannot read fail-stops, as `InspectUnreadable`.

These, with `Destined` (a destination that was renamed is there until its commit is
settled, which the inspection of a commit relies on), are the invariant of `Inductive`.

`FilesInv` relates the directories to the database: a visible directory belongs to an
entry or to the stage, a ready entry has a whole one, and only a retired entry, a rename
before its sync, a latched stage or a rename whose sync failed or was cut off leaves one
that a power loss may change; a call past recovery finds no directory of a retired entry.
It gives `ReadyStaysWhole` (`ReadyIsWhole`) and `Authenticates` (`CustodyAuthenticates`) for
any number of faults as long as they are `Recoverable`: there was no power loss, or neither a
process crash nor a sync error that latched nothing. Every behaviour of the run is
recoverable. The rest is excluded because of the unsynced reuse described under "Known
divergences"; `DurableUnlessCutOff` is its complement: without a crash and without such a
sync error, `RenameIsDurable` holds.

### How the models were written for the provers

Guards of CASE expressions exclude each other, updates of nested records name the
record they update, and no module with a proof declares a RECURSIVE operator. These are
forms of the same expressions: they leave the state graphs as they are.

### Only model-checked

- Liveness (`CallSettles`, `PublishedDrains`, `CloseEnds`, `BacklogDrains`,
  `CaptureGranted`, `ReadyIsHandled`, `CohortCompletes`, `RetiredFilesGo`,
  `QuarantineSettles`): TLAPS handles neither ENABLED nor fairness.
- `ReadyIsWhole` and `CustodyAuthenticates` when process crashes or sync errors that latch
  nothing are mixed with power losses: false there, see "Known divergences".
- The expected violations are counterexamples on an instance and need no proof.

## Plan

1. `AttemptWriter`, `StagingWriter`, `DurableFrontier` - done, with proofs.
2. `RingCapture`, `Publication`, `Presence` with `PresenceMachine` and `ScanHealth`,
   `ClockSession` with `ClockState`, `AudioStore` with `AudioMachine`, `ReadyBundles` with
   `PublicLedger` - done, with proofs.
3. Left: the records `TimeIsTruthful` excuses are known to the model and not yet bounded by
   a property of their own.

## Not modelled

- Notification framing, parsing and byte offsets of the transfer arena: `RingCapture`
  receives whole records. The parsers are pure and have their own tests.
- BLE and filesystem I/O below the calls the models contain, schema and connection
  handling of the database, link observability: no state that a decision reads.
- Migrations and imports of older layouts: offline, run once.
- Encoders, wire formats, duration tables: byte formats, covered by unit tests.
- Metrics, logs, operator status, command line, the mutation campaign script: read-only
  or tooling.
- In `RingCapture`: collection with ADVANCE disabled (operator batch mode), orphaned
  drafts, public drain projection, battery.
- Joins of owned work (`owned_work.py`) are taken as the code promises them: a joined
  worker has ended, even if the join was cancelled.
