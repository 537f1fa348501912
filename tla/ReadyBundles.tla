----------------------------- MODULE ReadyBundles -----------------------------
(* Public audio v2: how sealed capture sources become immutable artifacts in  *)
(* ready/, how an acknowledged artifact is retired and how covered raw rows   *)
(* are deleted (capture/adapters/ready_bundles.py, driven by                  *)
(* staging_store.py under the device lock).                                   *)
(*                                                                            *)
(* `db' is the SQLite state and survives crashes; `files' is the ready        *)
(* directory, whose renames and removals may be undone by a power loss until  *)
(* it is synced, for all its entries at once.  The collector runs one call at *)
(* a time (pc); every transaction may report an error although it was         *)
(* applied, or be rolled back, and the code then inspects the database to     *)
(* find out which, if it can be read.  The consumer acknowledges the          *)
(* directories it sees, at any moment.  A fail-stop ends the service for good *)
(* (exit status 78); one that an operator starts again is a ProcessCrash.     *)
(*                                                                            *)
(* A record is its sequence number together with the variant of its source:   *)
(* two sources of different variants disagree on the bytes they share.        *)
EXTENDS Integers, FiniteSets, FiniteSetsExt, Functions

CONSTANTS
    Sources,      \* capture sources
    First,        \* Sources -> their first sequence number
    Size,         \* Sources -> committed_count
    Prefix,       \* Sources -> certified_prefix_count when quarantined
    Variant,      \* Sources -> which bytes they hold
    Rank,         \* Sources -> position of the source id (breaks ties)
    Quarantined,  \* sources that arrive in quarantine custody
    MaxSeq,       \* largest sequence number
    Breaks,       \* sequence numbers whose record does not continue the one before
    Silent,       \* sequence numbers whose record holds no packet
    Threshold,    \* audio packets a new cohort needs
    PageLimit,    \* raw rows deleted in one step
    MaxOrder,     \* bound: public orders used
    MaxFaults,    \* bound: faults of any kind
    MaxErrors,    \* bound: failed commits, failed writes and syncs, refused space
    MaxCrashes,   \* bound: process crashes
    MaxLosses     \* bound: power losses

Seqs == 0..MaxSeq
Orders == 0..MaxOrder
Bytes == {Variant[s] : s \in Sources}

ASSUME SourcesAssumption ==
    /\ IsFiniteSet(Sources)
    /\ First \in [Sources -> Seqs]
    /\ Size \in [Sources -> 1..(MaxSeq + 1)]
    /\ Prefix \in [Sources -> 1..(MaxSeq + 1)]
    /\ \A s \in Sources : Prefix[s] <= Size[s] /\ First[s] + Size[s] <= MaxSeq + 1
    /\ Rank \in [Sources -> Nat]
    /\ \A s, t \in Sources : Rank[s] = Rank[t] => s = t

ASSUME BoundsAssumption ==
    /\ MaxSeq \in Nat /\ MaxOrder \in Nat
    /\ MaxFaults \in Nat /\ MaxErrors \in Nat /\ MaxCrashes \in Nat /\ MaxLosses \in Nat
    /\ Threshold \in Nat \ {0} /\ PageLimit \in Nat \ {0}

VARIABLES
    db,           \* the SQLite rows
    files,        \* order -> the state of its directories under ready/
    acked,        \* the consumer's checkpoint: acknowledged orders
    permit,       \* the newest ready closure: its frontier and whether it drained
    pc,           \* where the running call is
    job,          \* which call it is
    txn,          \* the transaction in flight: proposal, attempt
    batch,        \* the acknowledgements read by the retirement call
    recovered,    \* _retired_recovery_done
    stop,         \* why the service fail-stopped ("none": it runs)
    faults        \* faults injected so far, by kind

vars == <<db, files, acked, permit, pc, job, txn, batch, recovered, stop, faults>>
outside == <<files, acked, permit, batch, recovered, faults>>
-------------------------------------------------------------------------------
(* Rows.                                                                      *)

NoCohort == [life |-> "none", cursor |-> 0, member |-> [s \in {} |-> 0]]
NoStage == [order |-> -1, recs |-> [n \in {} |-> 0], slices |-> {}, base |-> -1, latched |-> FALSE]
NoEntry == [state |-> "none", recs |-> [n \in {} |-> 0], slices |-> {}]
NoTxn == [kind |-> "none", new |-> 0, old |-> 0, attempt |-> 0, about |-> 0]
NoFiles == [stage |-> "none", public |-> "none", synced |-> TRUE]
NoPermit == [next |-> 0, drained |-> FALSE]

\* The records a source offers: all of a sealed source, the certified prefix of
\* a quarantined one.
Admitted(d, s) == IF d.row[s].kind = "quarantine" THEN Prefix[s] ELSE Size[s]
Span(s, from, to) == (First[s] + from)..(First[s] + to - 1)

Admissible(d, s) == d.row[s].life \in {"sealed", "certified"}
WithinFrontier(d, s) == First[s] + Admitted(d, s) <= permit.next
Admissions(d) == {s \in Sources : Admissible(d, s) /\ WithinFrontier(d, s)}

Before(s, t) == First[s] < First[t] \/ (First[s] = First[t] /\ Rank[s] < Rank[t])
Earliest(S) == CHOOSE s \in S : \A t \in S \ {s} : Before(s, t)

Entries(d, state) == {o \in Orders : d.ledger[o].state = state}
Recs(d, o) == DOMAIN d.ledger[o].recs
ReadySeqs(d) == UNION {Recs(d, o) : o \in Entries(d, "ready")}
-------------------------------------------------------------------------------
(* Custody: what the ledger already holds of a source.                        *)

\* Active replay proofs compare record by record.
Disagrees(d, s, n) ==
    \E o \in Entries(d, "ready") : n \in Recs(d, o) /\ d.ledger[o].recs[n] # Variant[s]

\* A retired artifact proves a source only when one of its slices is exactly the
\* whole admitted source.
RetiredFull(d, s) ==
    \E o \in Entries(d, "retired") :
        <<First[s], First[s] + Admitted(d, s) - 1, Variant[s]>> \in d.ledger[o].slices

RetiredOverlap(d, s, from) ==
    /\ ~RetiredFull(d, s)
    /\ \E o \in Entries(d, "retired") : Recs(d, o) \cap Span(s, from, Admitted(d, s)) # {}

\* The ordinal up to which active artifacts hold the source without a hole.
ReadyPrefix(d, s, from) ==
    CHOOSE k \in from..Admitted(d, s) :
        /\ Span(s, from, k) \subseteq ReadySeqs(d)
        /\ k < Admitted(d, s) => First[s] + k \notin ReadySeqs(d)

PrefixConflict(d, s, from) ==
    \/ RetiredOverlap(d, s, from)
    \/ ~RetiredFull(d, s) /\ \E n \in Span(s, from, ReadyPrefix(d, s, from)) : Disagrees(d, s, n)

FullyProven(d, s) ==
    RetiredFull(d, s) \/ (~PrefixConflict(d, s, 0) /\ ReadyPrefix(d, s, 0) = Admitted(d, s))

\* The new cursor of a cohort member over custody that already exists.
ProvenCursor(d, s, from) ==
    IF RetiredFull(d, s) THEN Admitted(d, s) ELSE ReadyPrefix(d, s, from)
-------------------------------------------------------------------------------
(* Normalisation: the unique records of a set of sources with cursors c.      *)

Rest(d, s, c) == Span(s, c[s], Admitted(d, s))

\* The source that contributes record n: the first in source order.
Owner(d, c, n) == Earliest({s \in DOMAIN c : n \in Rest(d, s, c)})

Unique(d, c) == UNION {Rest(d, s, c) : s \in DOMAIN c} \ ReadySeqs(d)

\* A source is compared with custody first, then with the sources before it.
CustodyConflict(d, c, s) ==
    \/ RetiredOverlap(d, s, c[s]) /\ c[s] < Admitted(d, s)
    \/ \E n \in Rest(d, s, c) : Disagrees(d, s, n)

PeerConflict(d, c, s) ==
    \E n \in Rest(d, s, c) : n \in Unique(d, c) /\ Variant[Owner(d, c, n)] # Variant[s]

NormalizeConflict(d, c, s) == CustodyConflict(d, c, s) \/ PeerConflict(d, c, s)

\* Only some records hold packets; a cohort is measured by its packets.
Voiced(U) == U \ Silent
Packets(U) == Cardinality(Voiced(U))

\* A physical group ends at a hole in the sequence or at a continuity break.
EndsRun(U, n) == (n + 1) \notin U \/ (n + 1) \in Breaks

\* The next artifact: records up to the end of the first physical group that
\* holds a packet, and everything left when only packetless records follow.
NextGroup(U) ==
    IF Packets(U) = 0 THEN {}
    ELSE LET voiced == Min(Voiced(U))
             last == Min({n \in U : n >= voiced /\ EndsRun(U, n)})
             head == {n \in U : n <= last}
         IN IF Packets(U \ head) = 0 THEN U ELSE head

\* A run of one source inside a group, cropped at continuity breaks.
IsRun(d, c, G, x, y) ==
    /\ x <= y
    /\ x..y \subseteq G
    /\ \A n \in (x + 1)..y : n \notin Breaks /\ Owner(d, c, n) = Owner(d, c, x)
    /\ (x - 1) \in G => x \in Breaks \/ Owner(d, c, x - 1) # Owner(d, c, x)
    /\ (y + 1) \in G => (y + 1) \in Breaks \/ Owner(d, c, y + 1) # Owner(d, c, y)

\* The slices of a group: its runs, each with the bytes of its source.
Slices(d, c, G) ==
    {t \in G \X G \X Bytes :
        IsRun(d, c, G, t[1], t[2]) /\ t[3] = Variant[Owner(d, c, t[1])]}
-------------------------------------------------------------------------------
(* Proposals: the database as one transaction would leave it.                 *)

EditedRow(d, s, r) == [d EXCEPT !.row = [@ EXCEPT ![s] = r]]

\* Mutant: a certified prefix is taken for the whole source.
CoveredWhole(d, s) == [d.row[s] EXCEPT !.life = "retiring", !.cov = Size[s]]

Covered(d, s) ==
    [d.row[s] EXCEPT
        !.life = IF Admitted(d, s) = Size[s] THEN "retiring" ELSE "covered",
        !.cov = Admitted(d, s)]

\* Cursors move; the sources that reach their admitted count are covered.
Advanced(d, c, new) ==
    [s \in Sources |->
        IF s \in DOMAIN c /\ c[s] < new[s] /\ new[s] = Admitted(d, s)
        THEN Covered(d, s) ELSE d.row[s]]

AllComplete(d, c) == \A s \in DOMAIN c : c[s] = Admitted(d, s)

AcceptedCohort(d) ==
    [d EXCEPT !.cohort =
        [life |-> "accepted", cursor |-> 0, member |-> [s \in Admissions(d) |-> 0]]]

CoveredReplay(d, s) == EditedRow(d, s, Covered(d, s))

BlockedSource(d, s) ==
    EditedRow(d, s, [d.row[s] EXCEPT !.life = "conflict", !.kind = "quarantine", !.cov = 0])

CustodyCursors(d) ==
    [s \in DOMAIN d.cohort.member |->
        IF d.cohort.member[s] = Admitted(d, s) THEN d.cohort.member[s]
        ELSE ProvenCursor(d, s, d.cohort.member[s])]

AdvancedCustody(d) ==
    LET new == CustodyCursors(d) IN
    [d EXCEPT !.row = Advanced(d, d.cohort.member, new),
              !.cohort = IF AllComplete(d, new) THEN NoCohort ELSE [@ EXCEPT !.member = new]]

\* The projection of a group: whose bytes each of its records has.
Frozen(d, c, G) == [n \in G |-> Variant[Owner(d, c, n)]]

\* One reservation: the order is taken, the group frozen, its proof staged.
ReservedStage(d) ==
    LET c == d.cohort.member
        G == NextGroup(Unique(d, c))
    IN [d EXCEPT
           !.stage = [order |-> d.order, base |-> d.frontier, latched |-> FALSE,
                      recs |-> Frozen(d, c, G),
                      slices |-> Slices(d, c, G)],
           !.proof = [@ EXCEPT ![d.order] = "staging"],
           !.cohort = [@ EXCEPT !.life = "staging"],
           !.order = @ + 1]

MemberProgress(d) ==
    LET G == DOMAIN d.stage.recs IN
    [s \in DOMAIN d.cohort.member |->
        Max({k \in d.cohort.member[s]..Admitted(d, s) : Span(s, d.cohort.member[s], k) \subseteq G})]

CommittedCohort(d, new) ==
    IF AllComplete(d, new) THEN NoCohort
    ELSE [life |-> "accepted", cursor |-> d.cohort.cursor + 1, member |-> new]

CommittedStage(d) ==
    LET new == MemberProgress(d) IN
    [d EXCEPT
        !.proof = [@ EXCEPT ![d.stage.order] = "active"],
        !.ledger = [@ EXCEPT ![d.stage.order] =
            [state |-> "ready", recs |-> d.stage.recs, slices |-> d.stage.slices]],
        !.frontier = Max(DOMAIN d.stage.recs),
        !.row = Advanced(d, d.cohort.member, new),
        !.stage = NoStage,
        !.cohort = CommittedCohort(d, new)]

RetiredEntry(d, o) ==
    [d EXCEPT !.ledger = [@ EXCEPT ![o] = [d.ledger[o] EXCEPT !.state = "retired"]],
              !.proof = [@ EXCEPT ![o] = "none"]]

RetiredPage(d, s) ==
    LET to == Min({Size[s], d.row[s].gone + PageLimit}) IN EditedRow(d, s, [d.row[s] EXCEPT !.gone = to])

RemovedSource(d, s) ==
    EditedRow(d, s, [d.row[s] EXCEPT !.life = "gone", !.cov = 0, !.gone = 0])
-------------------------------------------------------------------------------
(* After a transaction reported an error: which state is in the database?     *)

Third(old, proposed) == IF proposed THEN "proposed" ELSE IF old THEN "old" ELSE "third"

InspectCohort == Third(db.cohort = NoCohort, db.cohort = txn.new.cohort)

InspectStage == Third(db.cohort = txn.old.cohort, db.cohort.life = "staging")

\* Mutant: the cohort is expected back at its old cursor.
InspectCommitStaleCursor ==
    Third(db.ledger[txn.old.stage.order] = NoEntry /\ db.cohort = txn.old.cohort,
          /\ db.ledger[txn.old.stage.order] = txn.new.ledger[txn.old.stage.order]
          /\ \/ db.cohort = NoCohort
             \/ db.cohort = [txn.new.cohort EXCEPT !.cursor = txn.old.cohort.cursor])

ReadySource(o) == files[o].public = "whole"

\* classify_commit, for a destination that is there and whole
InspectCommit ==
    LET o == txn.old.stage.order
        old == txn.old
        new == txn.new
        there == ReadySource(o)
    IN Third(/\ there
             /\ db.ledger[o] = NoEntry
             /\ db.frontier = old.frontier
             /\ db.cohort = old.cohort
             /\ db.stage = old.stage
             /\ db.proof[o] = "staging"
             /\ db.row = old.row,
             /\ there
             /\ db.ledger[o] = new.ledger[o]
             /\ db.frontier = new.frontier
             /\ db.stage = NoStage
             /\ db.proof[o] = "active"
             /\ db.cohort = new.cohort
             /\ db.row = new.row)

InspectCustody ==
    Third(db.cohort = txn.old.cohort /\ db.row = txn.old.row,
          db.cohort = txn.new.cohort /\ db.row = txn.new.row)

InspectSource ==
    Third(db.row[txn.about] = txn.old.row[txn.about], db.row[txn.about] = txn.new.row[txn.about])

InspectConflict == InspectSource
InspectRetirement == InspectSource

Inspected ==
    CASE txn.kind = "accept" -> InspectCohort
      [] txn.kind = "stage" -> InspectStage
      [] txn.kind = "commit" -> InspectCommit
      [] txn.kind = "custody" -> InspectCustody
      [] txn.kind = "cover" -> InspectSource
      [] txn.kind = "block" -> InspectConflict
      [] OTHER -> InspectRetirement
-------------------------------------------------------------------------------
(* Initial state, and what happens between the collector's calls.             *)

Init ==
    /\ db = [row |-> [s \in Sources |->
                         [life |-> "absent", kind |-> "attempt", cov |-> 0, gone |-> 0]],
             cohort |-> NoCohort, stage |-> NoStage,
             proof |-> [o \in Orders |-> "none"],
             ledger |-> [o \in Orders |-> NoEntry],
             frontier |-> -1, order |-> 0]
    /\ files = [o \in Orders |-> NoFiles]
    /\ acked = {}
    /\ permit = NoPermit
    /\ pc = "idle"
    /\ job = "none"
    /\ txn = NoTxn
    /\ batch = {}
    /\ recovered = FALSE
    /\ stop = "none"
    /\ faults = [io |-> 0, sync |-> 0, crash |-> 0, loss |-> 0]

\* Fault injection, bounded per kind and in total.
Fault(kind, cap) ==
    /\ faults[kind] < cap
    /\ faults.io + faults.sync + faults.crash + faults.loss < MaxFaults
    /\ faults' = [faults EXCEPT ![kind] = @ + 1]

Present(d) == {s \in Sources : d.row[s].life \notin {"absent", "gone"}}
Idle == pc = "idle" /\ stop = "none"

\* A capture session seals a source, or recovery leaves it in quarantine.
Seal(s) ==
    /\ Idle
    /\ db.row[s].life = "absent"
    /\ db' = EditedRow(db, s,
                 IF s \in Quarantined
                 THEN [db.row[s] EXCEPT !.life = "held", !.kind = "quarantine"]
                 ELSE [db.row[s] EXCEPT !.life = "sealed"])
    /\ UNCHANGED <<outside, pc, job, txn, stop>>

\* Quarantine inspection certifies a prefix for publication.
Certify(s) ==
    /\ Idle
    /\ db.row[s].life = "held"
    /\ db' = EditedRow(db, s, [db.row[s] EXCEPT !.life = "certified"])
    /\ UNCHANGED <<outside, pc, job, txn, stop>>

\* A session ends drained and records a closure at the captured frontier.  (An
\* undrained closure delays publication exactly as a missing one does.)
Close ==
    /\ Idle
    /\ Present(db) # {}
    /\ permit' = [next |-> Max({First[s] + Size[s] : s \in Present(db)}), drained |-> TRUE]
    /\ permit' # permit
    /\ UNCHANGED <<db, files, acked, pc, job, txn, batch, recovered, stop, faults>>

\* The consumer acknowledges a complete artifact it sees in ready/.
Acknowledge(o) ==
    /\ o \notin acked
    /\ files[o].public = "whole"
    /\ acked' = acked \cup {o}
    /\ UNCHANGED <<db, files, permit, pc, job, txn, batch, recovered, stop, faults>>
-------------------------------------------------------------------------------
(* Transactions.                                                              *)

\* The call goes on at `label'; a call that ends forgets what it was.
Enter(label) == pc' = label /\ job' = IF label = "idle" THEN "none" ELSE job
Goto(label) == Enter(label) /\ UNCHANGED <<txn, stop>>

\* Where the call continues once the transaction is known to be applied.
After(kind, new) ==
    CASE kind \in {"accept", "cover"} -> "decide"
      [] kind = "stage" -> "files"
      [] kind \in {"custody", "commit"} -> IF new.cohort = NoCohort THEN "finish" ELSE "decide"
      [] kind = "retire" -> "remove"
      [] OTHER -> "idle"

Applied(t) ==
    /\ pc' = After(t.kind, t.new)
    /\ job' = IF pc' = "idle" THEN "none" ELSE IF t.kind = "commit" THEN "published" ELSE job
    /\ txn' = IF t.kind = "retire" THEN t ELSE NoTxn

\* One attempt of a transaction.  When it raises, whether it was applied is not
\* known to the caller; a failed ACK retirement is abandoned, for the next call
\* to resume it, and every other one is inspected.  What made an attempt raise
\* may still be there for the next one.
Attempt(t) ==
    \/ /\ db' = t.new
       /\ Applied(t)
       /\ UNCHANGED <<outside, stop>>
    \/ /\ IF t.attempt = 0 THEN Fault("io", MaxErrors) ELSE UNCHANGED faults
       /\ db' \in {db, t.new}
       /\ IF t.kind = "retire"
          THEN Enter("idle") /\ txn' = NoTxn /\ recovered' = FALSE /\ batch' = {}
          ELSE Enter("inspect") /\ txn' = t /\ UNCHANGED <<recovered, batch>>
       /\ UNCHANGED <<files, acked, permit, stop>>

Propose(kind, about, new) ==
    Attempt([kind |-> kind, new |-> new, old |-> db, attempt |-> 0, about |-> about])

InspectProposed ==
    /\ pc = "inspect"
    /\ Inspected = "proposed"
    /\ Applied(txn)
    /\ UNCHANGED <<db, outside, stop>>

\* Rolled back: retried once, then reported to the caller.
InspectOld ==
    /\ pc = "inspect"
    /\ Inspected = "old"
    /\ txn.attempt = 0
    /\ Attempt([txn EXCEPT !.attempt = 1])

\* What made the commit raise may still be there for its inspection, which then
\* fail-stops: the caller never learns what the transaction left.
InspectUnreadable ==
    /\ pc = "inspect"
    /\ stop' = "unreadable"
    /\ Enter("idle")
    /\ txn' = NoTxn
    /\ UNCHANGED <<db, outside>>

GiveUp ==
    /\ pc = "inspect"
    /\ Inspected # "proposed"
    /\ Inspected = "old" => txn.attempt = 1
    /\ stop' = IF Inspected = "third" THEN "third" ELSE stop
    /\ Enter("idle")
    /\ txn' = NoTxn
    /\ UNCHANGED <<db, outside>>
-------------------------------------------------------------------------------
(* The publication call.                                                      *)

AckValid(A) == \A o \in A : db.ledger[o].state \in {"ready", "retired"}
NeedsRetirement(A) == A \cap Entries(db, "ready") # {}

\* Mutant: publication does not finish committed retirements first.
StartPublishUnrecovered ==
    /\ Idle
    /\ job' = "publish"
    /\ pc' = "ack"
    /\ UNCHANGED <<db, outside, txn, stop>>

StartPublish ==
    /\ Idle
    /\ job' = "publish"
    /\ pc' = IF recovered THEN "ack" ELSE "resume"
    /\ UNCHANGED <<db, outside, txn, stop>>

StartRetire ==
    /\ Idle
    /\ ~recovered \/ ~AckValid(acked) \/ NeedsRetirement(acked)
    /\ job' = "retire"
    /\ pc' = IF recovered THEN "ack" ELSE "resume"
    /\ UNCHANGED <<db, outside, txn, stop>>

\* The acknowledgements are validated before anything else is done.
CheckAck ==
    /\ pc = "ack"
    /\ Goto(IF ~AckValid(acked) THEN "idle"
            ELSE IF job = "publish" THEN "decide"
            ELSE IF NeedsRetirement(acked) THEN "preflight" ELSE "idle")
    /\ UNCHANGED <<db, outside>>

ActiveProofs == {o \in Orders : db.proof[o] = "active"}

\* The visible directories and the active proofs are exactly the ready entries.
CustodyIntact(pending) ==
    /\ {o \in Orders : files[o].public # "none"} \ {pending} = Entries(db, "ready")
    /\ \A o \in Entries(db, "ready") : ReadySource(o)
    /\ ActiveProofs = Entries(db, "ready")

\* The sources of an active cohort still exist, with every row it has to read.
MembersCurrent ==
    \A s \in DOMAIN db.cohort.member :
        /\ db.row[s].life \in {"sealed", "certified", "covered", "retiring"}
        /\ db.row[s].gone <= db.cohort.member[s]

Deciding(life) == pc = "decide" /\ db.cohort.life = life /\ MembersCurrent

\* An outcome that leaves nothing at the frontier consumes the closure.
Outcome(remaining) ==
    /\ Goto("idle")
    /\ permit' = IF remaining THEN permit ELSE NoPermit
    /\ UNCHANGED <<db, files, acked, batch, recovered, faults>>

Undecided == {s \in Admissions(db) : FullyProven(db, s) \/ PrefixConflict(db, s, 0)}
Zero(S) == [s \in S |-> 0]
Clashing(c) == {s \in DOMAIN c : NormalizeConflict(db, c, s)}
PeersClash(c) ==
    Clashing(c) # {} /\ ~CustodyConflict(db, c, Earliest(Clashing(c)))
BehindFrontier(U) == \E n \in U : n <= db.frontier

WaitForDrain ==
    /\ Deciding("none")
    /\ CustodyIntact(-1)
    /\ ~permit.drained
    /\ Outcome(Admissions(db) # {})

\* The first source that custody already proves, or contradicts.
CoverReplay ==
    /\ Deciding("none")
    /\ CustodyIntact(-1)
    /\ permit.drained
    /\ Undecided # {}
    /\ LET s == Earliest(Undecided) IN
       IF FullyProven(db, s) THEN Propose("cover", s, CoveredReplay(db, s))
       ELSE Propose("block", s, BlockedSource(db, s))

Normalizing ==
    /\ Deciding("none")
    /\ CustodyIntact(-1)
    /\ permit.drained
    /\ Undecided = {}

\* The first source that does not fit is blocked when it contradicts custody ...
BlockConflict ==
    /\ Normalizing
    /\ ~PeersClash(Zero(Admissions(db)))
    /\ LET clash == Clashing(Zero(Admissions(db))) IN
       clash # {} /\ Propose("block", Earliest(clash), BlockedSource(db, Earliest(clash)))

\* ... and blocks the call when it contradicts another unpublished source.
SourcesClash ==
    /\ \/ Normalizing /\ PeersClash(Zero(Admissions(db)))
       \/ Deciding("accepted") /\ CustodyIntact(-1) /\ PeersClash(db.cohort.member)
    /\ Outcome(TRUE)

Normalized == Normalizing /\ Clashing(Zero(Admissions(db))) = {}
Fresh == Unique(db, Zero(Admissions(db)))

FrontierRefuses ==
    /\ Normalized
    /\ BehindFrontier(Fresh)
    /\ Outcome(TRUE)

WaitForThreshold ==
    /\ Normalized
    /\ ~BehindFrontier(Fresh)
    /\ Packets(Fresh) < Threshold
    /\ Outcome(Admissions(db) # {})

Accept ==
    /\ Normalized
    /\ ~BehindFrontier(Fresh)
    /\ Packets(Fresh) >= Threshold
    /\ Propose("accept", 0, AcceptedCohort(db))
-------------------------------------------------------------------------------
(* Resuming the accepted cohort.                                              *)

CohortClash ==
    LET c == db.cohort.member IN
    \E s \in DOMAIN c :
        c[s] < Admitted(db, s) /\ (NormalizeConflict(db, c, s) \/ PrefixConflict(db, s, c[s]))

CohortConflict ==
    /\ Deciding("accepted")
    /\ CustodyIntact(-1)
    /\ CohortClash /\ ~PeersClash(db.cohort.member)
    /\ stop' = "conflict"
    /\ Enter("idle")
    /\ UNCHANGED <<db, outside, txn>>

AdvanceCustody ==
    /\ Deciding("accepted")
    /\ CustodyIntact(-1)
    /\ ~CohortClash
    /\ CustodyCursors(db) # db.cohort.member
    /\ Propose("custody", 0, AdvancedCustody(db))

ReadyToReserve ==
    /\ Deciding("accepted")
    /\ CustodyIntact(-1)
    /\ ~CohortClash
    /\ CustodyCursors(db) = db.cohort.member
    /\ ~BehindFrontier(Unique(db, db.cohort.member))
    /\ NextGroup(Unique(db, db.cohort.member)) # {}

Reserve ==
    /\ ReadyToReserve
    /\ db.order \in Orders
    /\ Propose("stage", 0, ReservedStage(db))

SpaceRefused ==
    /\ ReadyToReserve
    /\ Fault("io", MaxErrors)
    /\ Goto("idle")
    /\ UNCHANGED <<db, files, acked, permit, batch, recovered>>

\* A stage with a recorded durability failure stays blocked.
StageBlocked ==
    /\ Deciding("staging")
    /\ db.stage.latched
    /\ Outcome(TRUE)

\* The frozen stage is rebuilt from the rows it was made of, and must be equal.
StageRebuilt ==
    LET c == db.cohort.member
        G == DOMAIN db.stage.recs
    IN G \subseteq Unique(db, c) /\ db.stage.recs = Frozen(db, c, G)

StagingProof == db.proof[db.stage.order] = "staging"

LoadStage ==
    /\ Deciding("staging")
    /\ ~db.stage.latched
    /\ db.stage.base = db.frontier
    /\ StageRebuilt
    /\ StagingProof
    /\ CustodyIntact(db.stage.order)
    /\ Goto("files")
    /\ UNCHANGED <<db, outside>>
-------------------------------------------------------------------------------
(* Materialising the stage.                                                   *)

Mine == files[db.stage.order]
Mined(f) == [files EXCEPT ![db.stage.order] = f]
Synced(fs) == [o \in DOMAIN fs |-> [fs[o] EXCEPT !.synced = TRUE]]

SetFiles(fs) ==
    /\ files' = fs
    /\ UNCHANGED <<db, acked, permit, batch, recovered, faults>>
SetMine(f) == SetFiles(Mined(f))

\* Scratch is removed like an artifact, with a sync of the parent; where there
\* is none, nothing is synced.
WithoutScratch ==
    IF Mine.stage = "none" THEN files ELSE Synced(Mined([Mine EXCEPT !.stage = "none"]))

\* A destination left by an earlier call is reused.
ReuseDestination ==
    /\ pc = "files"
    /\ Mine.public = "whole"
    /\ SetFiles(WithoutScratch)
    /\ Goto("commit")

DiscardScratch ==
    /\ pc = "files"
    /\ Mine.public = "none" /\ Mine.stage = "part"
    /\ SetFiles(WithoutScratch)
    /\ Goto("files")

BeginWrite ==
    /\ pc = "files"
    /\ Mine.public = "none" /\ Mine.stage = "none"
    /\ SetMine([Mine EXCEPT !.stage = "part"])
    /\ Goto("writing")

FinishWrite ==
    /\ pc = "writing"
    /\ SetMine([Mine EXCEPT !.stage = "whole"])
    /\ Goto("files")

\* Mutant: the commit does not wait for the parent directory to be synced.
RenameUnsynced ==
    /\ pc = "files"
    /\ Mine.public = "none" /\ Mine.stage = "whole"
    /\ SetMine([stage |-> "none", public |-> "whole", synced |-> FALSE])
    /\ Goto("commit")

Rename ==
    /\ pc = "files"
    /\ Mine.public = "none" /\ Mine.stage = "whole"
    /\ SetMine([stage |-> "none", public |-> "whole", synced |-> FALSE])
    /\ Goto("sync")

SyncParent ==
    /\ pc = "sync"
    /\ SetFiles(Synced(files))
    /\ Goto("commit")

\* An error while the destination is made.  EIO is latched on the stage, or
\* fail-stops when it cannot be; any other error only ends the call, and leaves
\* the destination of a failed sync to be reused (faults.sync counts those).
WriteFails(latched) ==
    /\ pc \in {"files", "writing", "sync", "commit"}
    /\ Fault(IF pc = "sync" /\ ~latched THEN "sync" ELSE "io", MaxErrors)
    /\ db' = [db EXCEPT !.stage = [@ EXCEPT !.latched = latched]]
    /\ stop' \in IF latched THEN {stop} ELSE {stop, "unlatched"}
    /\ Enter("idle")
    /\ UNCHANGED <<files, acked, permit, batch, recovered, txn>>

OwnsCommit ==
    /\ db.cohort.life = "staging"
    /\ ~db.stage.latched
    /\ db.ledger[db.stage.order] = NoEntry

ProposeCommit ==
    /\ pc = "commit"
    /\ OwnsCommit
    /\ StagingProof
    /\ CustodyIntact(db.stage.order)
    /\ Propose("commit", 0, CommittedStage(db))

FinishPublish ==
    /\ pc = "finish"
    /\ Outcome(job # "published")
-------------------------------------------------------------------------------
(* Removing the directory of a retired artifact: file by file, then rmdir and *)
(* a sync of the parent.  A directory that is gone is not synced any more.    *)

Doomed(o) ==
    /\ db.ledger[o].state = "retired"
    /\ files[o].public # "none"
    /\ pc \in {"resume", "preflight"} \/ (pc = "remove" /\ o = txn.about)

RemoveFile(o) ==
    /\ Doomed(o)
    /\ \/ files[o].public = "whole" /\ SetFiles([files EXCEPT ![o].public = "part"]) /\ Goto(pc)
       \/ /\ files[o].public = "part"
          /\ SetFiles([files EXCEPT ![o] = [@ EXCEPT !.public = "none", !.synced = FALSE]])
          /\ Goto("unlinked")

\* The sync, and on with the removals of the same kind.
SyncRemoved ==
    /\ pc = "unlinked"
    /\ SetFiles(Synced(files))
    /\ Goto(IF ~recovered THEN "resume" ELSE IF txn = NoTxn THEN "preflight" ELSE "remove")

\* An error of a removal ends the call; the next one looks for what is left.
RemovalFails ==
    /\ pc \in {"resume", "preflight", "remove", "unlinked"}
    /\ Fault("io", MaxErrors)
    /\ Enter("idle")
    /\ txn' = NoTxn /\ recovered' = FALSE /\ batch' = {}
    /\ UNCHANGED <<db, files, acked, permit, stop>>

Cleared == ~\E o \in Orders : Doomed(o)

\* Mutant: only a whole directory is taken for leftover work.
ResumeDonePartial ==
    /\ pc = "resume"
    /\ ~\E o \in Orders : Doomed(o) /\ files[o].public = "whole"
    /\ recovered' = TRUE
    /\ Goto("ack")
    /\ UNCHANGED <<db, files, acked, permit, batch, faults>>

ResumeDone ==
    /\ pc = "resume"
    /\ Cleared
    /\ recovered' = TRUE
    /\ Goto("ack")
    /\ UNCHANGED <<db, files, acked, permit, batch, faults>>

\* The retirement call reads the acknowledgements again and authenticates the
\* whole batch; it is refused when one of them does not authenticate, and while
\* a stage is public but not committed.
Preflight ==
    /\ pc = "preflight"
    /\ Cleared
    /\ IF AckValid(acked) /\ CustodyIntact(-1)
       THEN batch' = acked /\ Goto("confirm") /\ UNCHANGED recovered
       ELSE Goto("idle") /\ recovered' = FALSE /\ UNCHANGED batch
    /\ UNCHANGED <<db, files, acked, permit, faults>>

ConfirmBatch ==
    /\ pc = "confirm"
    /\ IF acked = batch THEN Goto("record") /\ UNCHANGED <<recovered, batch>>
       ELSE Goto("idle") /\ recovered' = FALSE /\ batch' = {}
    /\ UNCHANGED <<db, files, acked, permit, faults>>

RecordRetirement(o) ==
    /\ pc = "record"
    /\ o \in batch
    /\ db.ledger[o].state = "ready"
    /\ Propose("retire", o, RetiredEntry(db, o))

Removed ==
    /\ pc = "remove"
    /\ Cleared
    /\ pc' = "record"
    /\ txn' = NoTxn
    /\ UNCHANGED <<db, outside, job, stop>>

\* The batch is done, or capture asked for the storage.
EndRetire ==
    /\ pc = "record"
    /\ batch' = {}
    /\ Goto("idle")
    /\ UNCHANGED <<db, files, acked, permit, recovered, faults>>
-------------------------------------------------------------------------------
(* Deleting covered raw rows, a page at a time.                               *)

\* Mutant: raw rows of a source go while a cohort still holds it.
DeletableMembers == {s \in Sources : db.row[s].life = "retiring"}

Deletable == {s \in Sources : db.row[s].life = "retiring" /\ s \notin DOMAIN db.cohort.member}

\* Sources with rows left come first, then in order of their ids.
NextDeletable ==
    LET paged == {s \in Deletable : db.row[s].gone < Size[s]}
        from == IF paged # {} THEN paged ELSE Deletable
    IN CHOOSE s \in from : \A t \in from : Rank[s] <= Rank[t]

RetireRaw ==
    /\ Idle
    /\ Deletable # {}
    /\ LET s == NextDeletable IN
       /\ db.row[s].cov = Size[s]
       /\ Propose("raw", s, IF db.row[s].gone < Size[s] THEN RetiredPage(db, s) ELSE RemovedSource(db, s))
-------------------------------------------------------------------------------
(* Crashes.                                                                   *)

Restart ==
    /\ pc' = "idle"
    /\ job' = "none"
    /\ txn' = NoTxn
    /\ batch' = {}
    /\ recovered' = FALSE
    /\ UNCHANGED <<db, acked, permit, stop>>

ProcessCrash ==
    /\ stop = "none"
    /\ Fault("crash", MaxCrashes)
    /\ Restart
    /\ UNCHANGED files

\* What the entries of an order may be after the power returns.  Scratch may be
\* gone; an unsynced rename may be undone, and with it the scratch it was made
\* of; an unsynced removal may be undone.
Survives(f) ==
    [stage : {f.stage, "none"}, public : {f.public}, synced : {TRUE}]
    \cup IF f.synced THEN {}
         ELSE IF f.public = "whole"
              THEN [stage : {"whole", "none"}, public : {"none"}, synced : {TRUE}]
              ELSE [stage : {f.stage}, public : {"none", "part", "whole"}, synced : {TRUE}]

PowerLoss ==
    /\ stop = "none"
    /\ Fault("loss", MaxLosses)
    /\ \E fs \in [Orders -> UNION {Survives(files[o]) : o \in Orders}] :
          (\A o \in Orders : fs[o] \in Survives(files[o])) /\ files' = fs
    /\ Restart
-------------------------------------------------------------------------------
Environment ==
    \/ \E s \in Sources : Seal(s) \/ Certify(s)
    \/ Close
    \/ \E o \in Orders : Acknowledge(o)
    \/ ProcessCrash
    \/ PowerLoss

Calls == StartPublish \/ StartRetire \/ RetireRaw

Decide ==
    \/ CheckAck \/ WaitForDrain \/ CoverReplay \/ BlockConflict \/ SourcesClash \/ FrontierRefuses
    \/ WaitForThreshold \/ Accept \/ CohortConflict \/ AdvanceCustody \/ Reserve
    \/ StageBlocked \/ LoadStage \/ ProposeCommit \/ FinishPublish

Materialize ==
    ReuseDestination \/ DiscardScratch \/ BeginWrite \/ FinishWrite \/ Rename \/ SyncParent

Retiring ==
    \/ \E o \in Orders : RemoveFile(o) \/ RecordRetirement(o)
    \/ SyncRemoved \/ ResumeDone \/ Preflight \/ ConfirmBatch \/ Removed

Transact == InspectProposed \/ InspectOld \/ GiveUp

Faulty ==
    \/ InspectUnreadable \/ SpaceRefused \/ EndRetire \/ RemovalFails
    \/ \E latched \in BOOLEAN : WriteFails(latched)

Steps == Decide \/ Materialize \/ Retiring \/ Transact

Next == Environment \/ Calls \/ Steps \/ Faulty

Spec == Init /\ [][Next]_vars

CallStep ==
    /\ pc # "idle" /\ acked' = acked
    /\ Steps \/ (EndRetire /\ batch \cap Entries(db, "ready") = {})

\* Every call runs to its end, and publication is called again and again: the
\* publication task is woken by new input, by its retry timer and at start.
Fairness == WF_vars(CallStep) /\ SF_vars(StartPublish)

FairSpec == Spec /\ Fairness
-------------------------------------------------------------------------------
(* Properties.                                                                *)

\* Every ready entry has its complete directory and its active proof, and every
\* proof has its entry or its stage: whatever crash interrupted publication or
\* retirement, a call that has finished recovery can authenticate custody.
ReadyIsWhole ==
    /\ \A o \in Entries(db, "ready") : files[o].public = "whole" /\ db.proof[o] = "active"
    /\ \A o \in Orders :
          db.proof[o] # "none" =>
              db.ledger[o].state = "ready" \/ (db.proof[o] = "staging" /\ db.stage.order = o)

\* A call past its recovery never meets a foreign or a half removed directory.
CustodyAuthenticates ==
    pc = "decide" => CustodyIntact(IF db.cohort.life = "staging" THEN db.stage.order ELSE -1)

\* An inspection that can read what a raised commit left finds the state before
\* or the state after it, and the destination of the stage where it was made: the
\* collector fail-stops on its own transaction only when it cannot read it.
AmbiguityIsResolved == stop # "third"

Kept ==
    {r \in Seqs \X Bytes :
        \E s \in Present(db) : r[2] = Variant[s] /\ r[1] \in Span(s, db.row[s].gone, Size[s])}

Feed == [o \in Orders |-> {<<n, db.ledger[o].recs[n]>> : n \in Recs(db, o)}]

Ledger == INSTANCE PublicLedger WITH
    Records <- Seqs \X Bytes,
    feed <- Feed,
    retired <- Entries(db, "retired"),
    confirmed <- acked,
    kept <- Kept

\* Artifacts are published once, in the order of their records; an artifact is
\* retired only when acknowledged; raw rows go only when published.
ImplementsLedger == Ledger!Spec

EagerlyAcked == ~AckValid(acked)

\* An accepted cohort is published to its end, unless a durability failure is
\* latched, the store fail-stopped, or the consumer acknowledged an artifact
\* that is visible but not yet committed.
CohortCompletes ==
    db.cohort # NoCohort ~>
        db.cohort = NoCohort \/ db.stage.latched \/ stop # "none" \/ EagerlyAcked

\* The directory of a retired artifact is always removed in the end, whichever
\* step of the retirement a crash or an error interrupted.
RetiredFilesGo ==
    []<>(stop # "none" \/ \A o \in Entries(db, "retired") : files[o].public = "none")

\* Contract: "Rename: Atomically rename the complete directory to ready/<id> and
\* fsync its parent", before the commit.  The directory of a committed artifact
\* is one that no power loss takes back.
RenameIsDurable ==
    \A o \in Entries(db, "ready") : \A f \in Survives(files[o]) : f.public = "whole"

\* Contract: "Crash after rename, before commit: reconcile visible bytes against
\* the owned stage and proof root, then commit exactly once".  A directory that
\* became visible is committed, whatever the consumer does meanwhile.
VisibleIsCommitted ==
    (db.stage # NoStage /\ Mine.public = "whole") ~>
        (db.stage = NoStage \/ db.stage.latched \/ stop # "none")
===============================================================================
