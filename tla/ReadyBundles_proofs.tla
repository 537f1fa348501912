------------------------ MODULE ReadyBundles_proofs ------------------------
(***************************************************************************)
(* Proofs about ReadyBundles, for any sources, cohorts and artifacts, any    *)
(* number of failed commits and crashes.                                     *)
(*                                                                           *)
(* DataInv speaks of the database alone; Sound says what is known of a        *)
(* proposal, so that applying it keeps DataInv and is a step of PublicLedger; *)
(* Doubt, that a transaction in doubt left the database as it was or as       *)
(* proposed.  FilesInv relates the directories under ready/ to the database.  *)
(***************************************************************************)
EXTENDS ReadyBundles, FiniteSetTheorems, WellFoundedInduction, TLAPS

Lives == {"absent", "held", "sealed", "certified", "conflict", "covered", "retiring", "gone"}
RowType == [life: Lives, kind: {"attempt", "quarantine"}, cov: Nat, gone: Nat]
Projections == UNION {[D -> Bytes] : D \in SUBSET Seqs}
Lineages == SUBSET (Seqs \X Seqs \X Bytes)
Cursors == UNION {[S -> 0..(MaxSeq + 1)] : S \in SUBSET Sources}
CohortType == [life: {"none", "accepted", "staging"}, cursor: Nat, member: Cursors]
StageType == [order: Int, recs: Projections, slices: Lineages, base: Int, latched: BOOLEAN]
EntryType == [state: {"none", "ready", "retired"}, recs: Projections, slices: Lineages]
ProofStates == {"none", "staging", "active"}
DbType == [row: [Sources -> RowType], cohort: CohortType, stage: StageType,
           proof: [Orders -> ProofStates], ledger: [Orders -> EntryType],
           frontier: Int, order: Nat]

Members == DOMAIN db.cohort.member
Cursor(s) == db.cohort.member[s]
Staged == DOMAIN db.stage.recs

(* The feed holds record n as source s has it.                              *)
IsPublic(s, n) == \E o \in Orders : n \in Recs(db, o) /\ db.ledger[o].recs[n] = Variant[s]
Holds(s, k) == \A n \in Span(s, 0, k) : IsPublic(s, n)

(* A slice names records of its projection, with the bytes they have.        *)
SlicesOK(e) ==
    \A t \in e.slices : \A n \in t[1] .. t[2] : n \in DOMAIN e.recs /\ e.recs[n] = t[3]

RowsOK ==
    \A s \in Sources :
        /\ db.row[s].gone <= Size[s]
        /\ db.row[s].gone # 0 => db.row[s].life = "retiring"
        /\ db.row[s].life = "retiring" => db.row[s].cov = Size[s] /\ Holds(s, Size[s])

MembersOK ==
    /\ db.cohort.life = "none" => db.cohort = NoCohort
    /\ \A s \in Members :
          /\ db.row[s].life \in {"sealed", "certified", "covered", "retiring"}
          /\ db.row[s].gone = 0
          /\ Cursor(s) <= Admitted(db, s)
          /\ Holds(s, Cursor(s))

(* The stage is what the members offer at their cursors, beyond all that is    *)
(* public, and no member disagrees with it.                                  *)
StageOK ==
    /\ db.cohort.life # "staging" => db.stage = NoStage
    /\ db.cohort.life = "staging" =>
          /\ db.stage.order \in Orders /\ db.stage.order + 1 = db.order
          /\ db.stage.base = db.frontier
          /\ db.ledger[db.stage.order] = NoEntry
          /\ db.proof[db.stage.order] = "staging"
          /\ Staged # {}
          /\ SlicesOK(db.stage)
          /\ \A n \in Staged :
                /\ n > db.frontier
                /\ \E s \in Members : n \in Rest(db, s, db.cohort.member)
                /\ \A s \in Members : n \in Rest(db, s, db.cohort.member) =>
                                         db.stage.recs[n] = Variant[s]

LedgerOK ==
    \A o \in Orders :
        /\ db.ledger[o].state = "none" => db.ledger[o] = NoEntry
        /\ db.ledger[o].state # "none" => o < db.order /\ Recs(db, o) # {}
        /\ \A n \in Recs(db, o) : n <= db.frontier
        /\ SlicesOK(db.ledger[o])
        /\ db.proof[o] = "active" <=> db.ledger[o].state = "ready"
        /\ db.proof[o] = "staging" => db.stage.order = o

DataInv == db \in DbType /\ RowsOK /\ MembersOK /\ StageOK /\ LedgerOK
-----------------------------------------------------------------------------
(* What is known of a proposal, in terms of the database it was made for.     *)

Kinds == {"accept", "stage", "commit", "custody", "cover", "block", "raw"}

SoundAccept(new) ==
    /\ db.cohort.life = "none"
    /\ \E A \in SUBSET {s \in Sources : Admissible(db, s)} :
          new = [db EXCEPT !.cohort = [life |-> "accepted", cursor |-> 0, member |-> [s \in A |-> 0]]]
SoundStage(new) ==
    /\ db.cohort.life = "accepted" /\ db.order \in Orders
    /\ ~CohortClash /\ ~BehindFrontier(Unique(db, db.cohort.member))
    /\ NextGroup(Unique(db, db.cohort.member)) # {}
    /\ new = ReservedStage(db)
SoundCommit(new) == db.cohort.life = "staging" /\ ~db.stage.latched /\ new = CommittedStage(db)
SoundCustody(new) == db.cohort.life = "accepted" /\ ~CohortClash /\ new = AdvancedCustody(db)
SoundCover(s, new) ==
    /\ db.cohort.life = "none" /\ s \in Sources /\ Admissible(db, s) /\ FullyProven(db, s)
    /\ new = CoveredReplay(db, s)
SoundBlock(s, new) ==
    db.cohort.life = "none" /\ s \in Sources /\ Admissible(db, s) /\ new = BlockedSource(db, s)
SoundRaw(s, new) ==
    /\ s \in Sources /\ db.row[s].life = "retiring" /\ s \notin Members
    /\ new \in {RetiredPage(db, s), RemovedSource(db, s)}

Sound(kind, about, new) ==
    \/ kind = "accept" /\ SoundAccept(new)
    \/ kind = "stage" /\ SoundStage(new)
    \/ kind = "commit" /\ SoundCommit(new)
    \/ kind = "custody" /\ SoundCustody(new)
    \/ kind = "cover" /\ SoundCover(about, new)
    \/ kind = "block" /\ SoundBlock(about, new)
    \/ kind = "raw" /\ SoundRaw(about, new)

(* While a commit is in doubt the database is as before or as proposed.       *)
Doubt ==
    /\ txn = [kind |-> txn.kind, new |-> txn.new, old |-> txn.old,
              attempt |-> txn.attempt, about |-> txn.about]
    /\ txn.kind \in Kinds
    /\ \/ db = txn.old /\ Sound(txn.kind, txn.about, txn.new)
       \/ db = txn.new
    /\ txn.kind = "stage" => txn.new.cohort.life = "staging" /\ ~txn.new.stage.latched
    /\ txn.kind = "commit" => /\ txn.new.stage = NoStage /\ txn.new.cohort.life # "staging"
                              /\ txn.new.proof[txn.old.stage.order] = "active"

ControlOK ==
    /\ pc = "inspect" => Doubt
    /\ pc \in {"files", "writing", "sync", "commit"} => db.cohort.life = "staging" /\ ~db.stage.latched
    /\ stop # "third"
    /\ batch \subseteq acked /\ acked \subseteq Orders

LedgerInv == DataInv /\ ControlOK
-----------------------------------------------------------------------------
(* Directories.                                                              *)

FileType == [stage: {"none", "part", "whole"}, public: {"none", "part", "whole"}, synced: BOOLEAN]
FaultsType == [io: Nat, sync: Nat, crash: Nat, loss: Nat]

(* A sync may have been cut off after its rename: by a crash of the process, or *)
(* by an error that was not latched on the stage.                             *)
Interrupted == faults.crash > 0 \/ faults.sync > 0

(* No power loss came with such an interruption.                              *)
Recoverable == ~Interrupted \/ faults.loss = 0

(* A destination that was renamed is there until its commit is settled.         *)
Destined ==
    /\ files \in [Orders -> FileType]
    /\ pc \in {"sync", "commit"} => Mine.public = "whole"
    /\ pc = "inspect" /\ txn.kind = "commit" => files[txn.old.stage.order].public = "whole"

(* A visible directory is that of an artifact or of the stage.  Its rename can *)
(* be undone only before the sync, or after one that failed or was cut off.     *)
DirectoryOK(o) ==
    /\ files[o].public # "none" => db.ledger[o].state # "none" \/ o = db.stage.order
    /\ db.ledger[o].state = "ready" => files[o].public = "whole"
    /\ ~files[o].synced =>
          \/ db.ledger[o].state = "retired"
          \/ /\ files[o].public = "whole"
             /\ Interrupted \/ (o = db.stage.order /\ (pc = "sync" \/ db.stage.latched))

FilesOK == \A o \in Orders : DirectoryOK(o)

RecoveredOK ==
    /\ recovered => \A o \in Orders :
          db.ledger[o].state = "retired" =>
             files[o].public = "none" \/ (pc = "remove" /\ o = txn.about)
    /\ pc \notin {"idle", "resume", "inspect", "unlinked"} => recovered
    /\ pc = "inspect" /\ txn.kind # "raw" => recovered
    /\ pc = "remove" \/ (pc = "unlinked" /\ recovered) => txn.about \in Orders

FilesInv == faults \in FaultsType /\ (Recoverable => FilesOK /\ RecoveredOK)

-----------------------------------------------------------------------------
(* Bounded sets of numbers, and the first of a set of sources.                *)

LEMMA Least ==
    ASSUME NEW T \in SUBSET Nat, T # {}
    PROVE  \E x \in T : \A y \in T : x <= y
<1> DEFINE R == OpToRel(<, Nat)
<1>1. IsWellFoundedOn(R, Nat)
  BY NatLessThanWellFounded
<1>2. \A a, b \in Nat : a < b => <<a, b>> \in R
  BY DEF OpToRel
<1> HIDE DEF R
<1>3. PICK x \in T : \A y \in T : ~(<<y, x>> \in R)
  BY <1>1, WFMin
<1>4. ASSUME NEW y \in T PROVE x <= y
  <2>1. x \in Nat /\ y \in Nat /\ ~(y < x)
    BY <1>2, <1>3
  <2> QED BY <2>1
<1> QED BY <1>3, <1>4

LEMMA MaxIs ==
    ASSUME NEW N \in Nat, NEW T \in SUBSET (0 .. N), T # {}
    PROVE  Max(T) \in T /\ \A y \in T : y <= Max(T)
<1> DEFINE D == {N - x : x \in T}
<1>1. D \subseteq Nat /\ D # {}
  <2>1. ASSUME NEW x \in T PROVE N - x \in Nat
    BY x \in 0 .. N
  <2>2. PICK x \in T : TRUE
    OBVIOUS
  <2>3. N - x \in D
    OBVIOUS
  <2> QED BY <2>1, <2>3
<1>2. \A y \in T : N - y \in D /\ y \in Int
  OBVIOUS
<1>3. \A e \in D : \E x \in T : e = N - x
  OBVIOUS
<1> HIDE DEF D
<1>4. PICK d \in D : \A e \in D : d <= e
  BY <1>1, Least
<1>5. PICK x \in T : d = N - x
  BY <1>3
<1>6. \A y \in T : x >= y
  <2>1. ASSUME NEW y \in T PROVE x >= y
    <3>1. N - x <= N - y
      BY <1>2, <1>4, <1>5
    <3> QED BY <1>2, <3>1
  <2> QED BY <2>1
<1>7. \E z \in T : \A y \in T : z >= y
  BY <1>6
<1>8. Max(T) \in T /\ \A y \in T : Max(T) >= y
  BY <1>7 DEF Max
<1> QED BY <1>2, <1>8

LEMMA MinIs ==
    ASSUME NEW T \in SUBSET Nat, T # {}
    PROVE  Min(T) \in T /\ \A y \in T : Min(T) <= y
<1>1. \E x \in T : \A y \in T : x =< y
  BY Least
<1> QED BY <1>1 DEF Min

LEMMA EarliestIs ==
    ASSUME NEW S \in SUBSET Sources, S # {}
    PROVE  Earliest(S) \in S
<1> DEFINE F == {First[s] : s \in S}
<1>1. \A s \in Sources : First[s] \in Nat /\ Rank[s] \in Nat
  BY SourcesAssumption DEF Seqs
<1>2. F \subseteq Nat /\ F # {} /\ (\A s \in S : First[s] \in F) /\ \A e \in F : \E s \in S : First[s] = e
  BY <1>1
<1> HIDE DEF F
<1>3. PICK f \in F : \A g \in F : f <= g
  BY <1>2, Least
<1> DEFINE K == {s \in S : First[s] = f}
<1> DEFINE Q == {Rank[s] : s \in K}
<1>4. Q \subseteq Nat /\ Q # {} /\ (\A s \in K : Rank[s] \in Q) /\ \A e \in Q : \E s \in K : Rank[s] = e
  BY <1>1, <1>2, <1>3
<1> HIDE DEF Q
<1>5. PICK r \in Q : \A g \in Q : r <= g
  BY <1>4, Least
<1>6. PICK s \in K : Rank[s] = r
  BY <1>4
<1>7. ASSUME NEW t \in S \ {s} PROVE Before(s, t)
  <2>1. First[s] <= First[t] /\ First[s] \in Nat /\ First[t] \in Nat /\ First[s] = f
    BY <1>1, <1>2, <1>3
  <2>2. CASE First[t] = f
    <3>1. Rank[s] <= Rank[t] /\ Rank[s] \in Nat /\ Rank[t] \in Nat
      BY <1>1, <1>4, <1>5, <1>6, <2>2
    <3>2. Rank[s] # Rank[t]
      BY SourcesAssumption
    <3> QED BY <2>1, <2>2, <3>1, <3>2 DEF Before
  <2> QED BY <2>1, <2>2 DEF Before
<1>8. \E x \in S : \A t \in S \ {x} : Before(x, t)
  BY <1>7
<1> QED BY <1>8 DEF Earliest

-----------------------------------------------------------------------------
(* Types of the rows, and spans of records.                                   *)

LEMMA ProjectionIs ==
    ASSUME NEW f
    PROVE  /\ f \in Projections => DOMAIN f \subseteq Seqs /\ f \in [DOMAIN f -> Bytes]
           /\ \A D \in SUBSET Seqs : f \in [D -> Bytes] => f \in Projections
BY DEF Projections

LEMMA CursorsIs ==
    ASSUME NEW f
    PROVE  /\ f \in Cursors => DOMAIN f \subseteq Sources /\ f \in [DOMAIN f -> 0..(MaxSeq + 1)]
           /\ \A D \in SUBSET Sources : f \in [D -> 0..(MaxSeq + 1)] => f \in Cursors
BY DEF Cursors

LEMMA DbFields ==
    ASSUME NEW d \in DbType
    PROVE  /\ d.row \in [Sources -> RowType] /\ d.cohort \in CohortType /\ d.stage \in StageType
           /\ d.proof \in [Orders -> ProofStates] /\ d.ledger \in [Orders -> EntryType]
           /\ d.frontier \in Int /\ d.order \in Nat
BY DEF DbType

LEMMA RowFields ==
    ASSUME NEW d \in DbType, NEW s \in Sources
    PROVE  /\ d.row[s] \in RowType /\ d.row[s].life \in Lives
           /\ d.row[s].kind \in {"attempt", "quarantine"}
           /\ d.row[s].cov \in Nat /\ d.row[s].gone \in Nat
<1>1. d.row[s] \in RowType
  BY DbFields
<1> QED BY <1>1 DEF RowType

LEMMA EntryFields ==
    ASSUME NEW d \in DbType, NEW o \in Orders
    PROVE  /\ d.ledger[o] \in EntryType /\ d.ledger[o].state \in {"none", "ready", "retired"}
           /\ d.ledger[o].recs \in Projections /\ d.ledger[o].slices \in Lineages
           /\ Recs(d, o) \subseteq Seqs
<1>1. d.ledger[o] \in EntryType
  BY DbFields
<1> QED BY <1>1, ProjectionIs DEF EntryType, Recs

LEMMA CohortFields ==
    ASSUME NEW d \in DbType
    PROVE  /\ d.cohort.life \in {"none", "accepted", "staging"} /\ d.cohort.cursor \in Nat
           /\ d.cohort.member \in Cursors /\ DOMAIN d.cohort.member \subseteq Sources
           /\ \A s \in DOMAIN d.cohort.member : d.cohort.member[s] \in 0..(MaxSeq + 1)
<1>1. d.cohort \in CohortType
  BY DbFields
<1>2. d.cohort.member \in Cursors
  BY <1>1 DEF CohortType
<1> QED BY <1>1, <1>2, CursorsIs DEF CohortType

LEMMA StageFields ==
    ASSUME NEW d \in DbType
    PROVE  /\ d.stage.order \in Int /\ d.stage.base \in Int /\ d.stage.latched \in BOOLEAN
           /\ d.stage.recs \in Projections /\ d.stage.slices \in Lineages
           /\ DOMAIN d.stage.recs \subseteq Seqs
<1>1. d.stage \in StageType
  BY DbFields
<1>2. d.stage.recs \in Projections
  BY <1>1 DEF StageType
<1> QED BY <1>1, <1>2, ProjectionIs DEF StageType

LEMMA SourceFacts ==
    ASSUME NEW s \in Sources
    PROVE  /\ First[s] \in Nat /\ Size[s] \in Nat /\ Prefix[s] \in Nat
           /\ Size[s] > 0 /\ Prefix[s] > 0 /\ Prefix[s] <= Size[s]
           /\ First[s] + Size[s] <= MaxSeq + 1 /\ MaxSeq \in Nat
           /\ Variant[s] \in Bytes
BY SourcesAssumption, BoundsAssumption DEF Seqs, Bytes

LEMMA AdmittedIs ==
    ASSUME NEW d, NEW s \in Sources
    PROVE  Admitted(d, s) \in Nat /\ 0 < Admitted(d, s) /\ Admitted(d, s) <= Size[s]
BY SourceFacts DEF Admitted

LEMMA SpanIs ==
    ASSUME NEW s \in Sources, NEW a \in Int, NEW b \in Int
    PROVE  \A n : n \in Span(s, a, b) <=> n \in Int /\ First[s] + a <= n /\ n < First[s] + b
<1>1. First[s] \in Int
  BY SourceFacts
<1> QED BY <1>1 DEF Span

LEMMA SpanSeqs ==
    ASSUME NEW s \in Sources, NEW a \in Nat, NEW b \in Nat, b <= Size[s]
    PROVE  Span(s, a, b) \subseteq Seqs
<1>1. \A n \in Span(s, a, b) : n \in Int /\ First[s] + a <= n /\ n < First[s] + b
  BY SpanIs
<1>2. First[s] \in Nat /\ Size[s] \in Nat /\ First[s] + Size[s] <= MaxSeq + 1 /\ MaxSeq \in Nat
  BY SourceFacts
<1> QED BY <1>1, <1>2 DEF Seqs
-----------------------------------------------------------------------------
(* Custody: what the ledger proves of a source.                               *)

LEMMA ReadyPrefixIs ==
    ASSUME NEW d, NEW s \in Sources, NEW from \in Nat, from <= Admitted(d, s)
    PROVE  /\ ReadyPrefix(d, s, from) \in from..Admitted(d, s)
           /\ Span(s, from, ReadyPrefix(d, s, from)) \subseteq ReadySeqs(d)
<1> DEFINE A == Admitted(d, s)
<1> DEFINE T == {k \in from..A : k = A \/ First[s] + k \notin ReadySeqs(d)}
<1>1. A \in Nat /\ First[s] \in Nat
  BY AdmittedIs, SourceFacts
<1>2. T \subseteq Nat /\ A \in T
  BY <1>1
<1>3. PICK m \in T : \A y \in T : m <= y
  BY <1>2, Least
<1>4. Span(s, from, m) \subseteq ReadySeqs(d)
  <2>1. ASSUME NEW n \in Span(s, from, m) PROVE n \in ReadySeqs(d)
    <3>1. n \in Int /\ First[s] + from <= n /\ n < First[s] + m
      BY <1>2, <1>3, SpanIs
    <3>2. n - First[s] \in from..A /\ n - First[s] < m /\ m \in Nat
      BY <1>1, <1>2, <1>3, <3>1
    <3>3. n - First[s] \notin T
      BY <1>3, <3>2
    <3>4. First[s] + (n - First[s]) \in ReadySeqs(d)
      BY <3>2, <3>3
    <3> QED BY <1>1, <3>1, <3>4
  <2> QED BY <2>1
<1>5. m \in from..A /\ (m < A => First[s] + m \notin ReadySeqs(d))
  BY <1>1, <1>3
<1>6. \E k \in from..A : /\ Span(s, from, k) \subseteq ReadySeqs(d)
                         /\ k < A => First[s] + k \notin ReadySeqs(d)
  BY <1>4, <1>5
<1> QED BY <1>6 DEF ReadyPrefix

LEMMA OwnerIs ==
    ASSUME NEW d, NEW c, DOMAIN c \subseteq Sources, NEW n,
           \E s \in DOMAIN c : n \in Rest(d, s, c)
    PROVE  Owner(d, c, n) \in DOMAIN c /\ n \in Rest(d, Owner(d, c, n), c)
<1> DEFINE S == {s \in DOMAIN c : n \in Rest(d, s, c)}
<1>1. S \in SUBSET Sources /\ S # {}
  OBVIOUS
<1>2. Earliest(S) \in S
  BY <1>1, EarliestIs
<1> QED BY <1>2 DEF Owner

(* A retired artifact that has the source as a slice has all its records.      *)
LEMMA RetiredFullHolds ==
    ASSUME DataInv, NEW s \in Sources, RetiredFull(db, s)
    PROVE  Holds(s, Admitted(db, s))
<1> DEFINE A == Admitted(db, s)
<1>1. PICK o \in Entries(db, "retired") : <<First[s], First[s] + A - 1, Variant[s]>> \in db.ledger[o].slices
  BY DEF RetiredFull
<1>2. o \in Orders /\ SlicesOK(db.ledger[o])
  BY <1>1 DEF Entries, DataInv, LedgerOK
<1>3. ASSUME NEW n \in Span(s, 0, A) PROVE IsPublic(s, n)
  <2>1. n \in First[s] .. (First[s] + A - 1)
    <3>1. A \in Nat /\ First[s] \in Nat
      BY AdmittedIs, SourceFacts
    <3> QED BY <3>1, SpanIs
  <2>2. n \in DOMAIN db.ledger[o].recs /\ db.ledger[o].recs[n] = Variant[s]
    <3> DEFINE t == <<First[s], First[s] + A - 1, Variant[s]>>
    <3>1. t \in db.ledger[o].slices /\ t[1] = First[s] /\ t[2] = First[s] + A - 1 /\ t[3] = Variant[s]
      BY <1>1
    <3> HIDE DEF t
    <3> QED BY <1>2, <2>1, <3>1 DEF SlicesOK
  <2> QED BY <1>2, <2>2 DEF IsPublic, Recs
<1> QED BY <1>3 DEF Holds

(* Records that active artifacts hold, and none of them disagrees on.          *)
LEMMA AgreedIsPublic ==
    ASSUME NEW s \in Sources, NEW n \in ReadySeqs(db), ~Disagrees(db, s, n)
    PROVE  IsPublic(s, n)
<1>1. PICK o \in Entries(db, "ready") : n \in Recs(db, o)
  BY DEF ReadySeqs
<1> QED BY <1>1 DEF Disagrees, IsPublic, Entries

LEMMA HoldsMore ==
    ASSUME NEW s \in Sources, NEW a \in Nat, NEW b \in Nat, a <= b, Holds(s, a),
           \A n \in Span(s, a, b) : IsPublic(s, n)
    PROVE  Holds(s, b)
<1>1. First[s] \in Nat
  BY SourceFacts
<1>2. ASSUME NEW n \in Span(s, 0, b) PROVE IsPublic(s, n)
  <2>1. n \in Int /\ First[s] + 0 <= n /\ n < First[s] + b
    BY SpanIs
  <2>2. CASE n < First[s] + a
    <3>1. n \in Span(s, 0, a)
      BY <2>1, <2>2, SpanIs
    <3> QED BY <3>1 DEF Holds
  <2>3. CASE First[s] + a <= n
    <3>1. n \in Span(s, a, b)
      BY <2>1, <2>3, SpanIs
    <3> QED BY <3>1
  <2> QED BY <1>1, <2>1, <2>2, <2>3
<1> QED BY <1>2 DEF Holds

(* Custody without a conflict moves a cursor over public records only.         *)
LEMMA PrefixHolds ==
    ASSUME DataInv, NEW s \in Sources, NEW from \in Nat, from <= Admitted(db, s),
           Holds(s, from), ~PrefixConflict(db, s, from)
    PROVE  /\ ProvenCursor(db, s, from) \in from..Admitted(db, s)
           /\ Holds(s, ProvenCursor(db, s, from))
<1>0. Admitted(db, s) \in Nat
  BY AdmittedIs
<1>1. CASE RetiredFull(db, s)
  BY <1>0, <1>1, RetiredFullHolds DEF ProvenCursor
<1>2. CASE ~RetiredFull(db, s)
  <2> DEFINE k == ReadyPrefix(db, s, from)
  <2>1. k \in from..Admitted(db, s) /\ Span(s, from, k) \subseteq ReadySeqs(db)
    BY ReadyPrefixIs
  <2>2. \A n \in Span(s, from, k) : ~Disagrees(db, s, n)
    BY <1>2 DEF PrefixConflict
  <2>3. \A n \in Span(s, from, k) : IsPublic(s, n)
    BY <2>1, <2>2, AgreedIsPublic
  <2>4. ProvenCursor(db, s, from) = k
    BY <1>2 DEF ProvenCursor
  <2> HIDE DEF k
  <2>5. k \in Nat /\ from <= k
    BY <1>0, <2>1
  <2>6. Holds(s, k)
    BY <2>3, <2>5, HoldsMore
  <2> QED BY <2>1, <2>4, <2>6
<1> QED BY <1>1, <1>2

LEMMA HoldsNothing ==
    ASSUME NEW s \in Sources
    PROVE  Holds(s, 0)
<1>1. \A n : n \notin Span(s, 0, 0)
  <2>1. First[s] \in Nat
    BY SourceFacts
  <2> QED BY <2>1, SpanIs
<1> QED BY <1>1 DEF Holds

LEMMA ProvenHolds ==
    ASSUME DataInv, NEW s \in Sources, FullyProven(db, s)
    PROVE  Holds(s, Admitted(db, s))
<1>0. Admitted(db, s) \in Nat
  BY AdmittedIs
<1>1. CASE RetiredFull(db, s)
  BY <1>1, RetiredFullHolds
<1>2. CASE ~RetiredFull(db, s)
  <2>1. ~PrefixConflict(db, s, 0) /\ ReadyPrefix(db, s, 0) = Admitted(db, s)
    BY <1>2 DEF FullyProven
  <2>2. Holds(s, ProvenCursor(db, s, 0))
    BY <1>0, <2>1, HoldsNothing, PrefixHolds
  <2> QED BY <1>2, <2>1, <2>2 DEF ProvenCursor
<1> QED BY <1>1, <1>2

-----------------------------------------------------------------------------
(* What the feed and the private copies keep when parts of the database do.    *)

LEMMA SameLedger ==
    ASSUME db'.ledger = db.ledger
    PROVE  /\ \A s, k : Holds(s, k)' <=> Holds(s, k)
           /\ Feed' = Feed
           /\ \A x : Entries(db, x)' = Entries(db, x)
           /\ \A o : Recs(db, o)' = Recs(db, o)
<1>1. \A o : Recs(db, o)' = Recs(db, o)
  BY DEF Recs
<1>2. \A s, n : IsPublic(s, n)' <=> IsPublic(s, n)
  BY <1>1 DEF IsPublic
<1>3. \A s, k : Holds(s, k)' <=> Holds(s, k)
  BY <1>2 DEF Holds
<1>4. Feed' = Feed
  BY <1>1 DEF Feed
<1> QED BY <1>1, <1>3, <1>4 DEF Entries

LEMMA SameKept ==
    ASSUME \A s \in Sources : /\ db'.row[s].gone = db.row[s].gone
                              /\ db'.row[s].life \in {"absent", "gone"} <=> db.row[s].life \in {"absent", "gone"}
    PROVE  Kept' = Kept
<1>1. Present(db)' = Present(db)
  BY DEF Present
<1>2. \A s \in Present(db) : db'.row[s].gone = db.row[s].gone
  BY DEF Present
<1> QED BY <1>1, <1>2 DEF Kept

Stutters == db'.ledger = db.ledger /\ Kept' = Kept /\ acked' = acked
LedgerStep == Ledger!Next \/ UNCHANGED Ledger!vars

LEMMA StutterIs ==
    ASSUME Stutters
    PROVE  LedgerStep
<1>1. Feed' = Feed /\ Entries(db, "retired")' = Entries(db, "retired")
  BY SameLedger DEF Stutters
<1> QED BY <1>1 DEF Stutters, LedgerStep, Ledger!vars

LEMMA EditFields ==
    ASSUME db \in DbType, NEW s \in Sources, NEW r \in RowType, db' = EditedRow(db, s, r)
    PROVE  /\ db' \in DbType
           /\ db'.row[s] = r /\ \A t \in Sources : t # s => db'.row[t] = db.row[t]
           /\ db'.cohort = db.cohort /\ db'.stage = db.stage /\ db'.proof = db.proof
           /\ db'.ledger = db.ledger /\ db'.frontier = db.frontier /\ db'.order = db.order
<1> DEFINE rows == [db.row EXCEPT ![s] = r]
<1>1. db.row \in [Sources -> RowType]
  BY DbFields
<1>2. rows \in [Sources -> RowType] /\ rows[s] = r /\ \A t \in Sources : t # s => rows[t] = db.row[t]
  BY <1>1
<1>3. db' = [db EXCEPT !.row = rows]
  BY DEF EditedRow
<1> HIDE DEF rows
<1>4. /\ db' \in DbType /\ db'.row = rows
      /\ db'.cohort = db.cohort /\ db'.stage = db.stage /\ db'.proof = db.proof
      /\ db'.ledger = db.ledger /\ db'.frontier = db.frontier /\ db'.order = db.order
  BY <1>2, <1>3 DEF DbType
<1> QED BY <1>2, <1>4

(* Parts of DataInv that read no row.                                         *)
LEMMA SameLedgerOK ==
    ASSUME LedgerOK, db'.ledger = db.ledger, db'.proof = db.proof, db'.frontier = db.frontier,
           db'.order = db.order, db'.stage.order = db.stage.order
    PROVE  LedgerOK'
<1>1. \A o : Recs(db, o)' = Recs(db, o)
  BY DEF Recs
<1>2. \A o : SlicesOK(db.ledger[o])' <=> SlicesOK(db.ledger[o])
  BY DEF SlicesOK
<1> QED BY <1>1, <1>2 DEF LedgerOK

LEMMA EditKeeps ==
    ASSUME DataInv, NEW s \in Sources, s \notin Members, NEW r \in RowType,
           db' = EditedRow(db, s, r),
           r.gone <= Size[s], r.gone # 0 => r.life = "retiring",
           r.life = "retiring" => r.cov = Size[s] /\ Holds(s, Size[s])
    PROVE  DataInv'
<1>1. db \in DbType
  BY DEF DataInv
<1>2. /\ db' \in DbType
      /\ db'.row[s] = r /\ \A t \in Sources : t # s => db'.row[t] = db.row[t]
      /\ db'.cohort = db.cohort /\ db'.stage = db.stage /\ db'.proof = db.proof
      /\ db'.ledger = db.ledger /\ db'.frontier = db.frontier /\ db'.order = db.order
  BY <1>1, EditFields
<1>3. \A t, k : Holds(t, k)' <=> Holds(t, k)
  BY <1>2, SameLedger
<1>4. RowsOK'
  <2>1. ASSUME NEW t \in Sources
        PROVE  /\ db'.row[t].gone <= Size[t]
               /\ db'.row[t].gone # 0 => db'.row[t].life = "retiring"
               /\ db'.row[t].life = "retiring" => db'.row[t].cov = Size[t] /\ Holds(t, Size[t])'
    <3>1. CASE t = s
      BY <1>2, <1>3, <3>1
    <3>2. CASE t # s
      <4>1. db'.row[t] = db.row[t]
        BY <1>2, <3>2
      <4> QED BY <1>3, <4>1 DEF DataInv, RowsOK
    <3> QED BY <3>1, <3>2
  <2> QED BY <2>1 DEF RowsOK
<1>5. Members' = Members /\ (\A t : Cursor(t)' = Cursor(t)) /\ Members \subseteq Sources
  BY <1>1, <1>2, CohortFields DEF Members, Cursor
<1>6. \A t \in Members : /\ db'.row[t] = db.row[t] /\ Admitted(db, t)' = Admitted(db, t)
                         /\ Rest(db, t, db.cohort.member)' = Rest(db, t, db.cohort.member)
  BY <1>2, <1>5 DEF Admitted, Rest
<1>7. MembersOK'
  BY <1>2, <1>3, <1>5, <1>6 DEF DataInv, MembersOK
<1>8. StageOK'
  <2>1. Staged' = Staged /\ (SlicesOK(db.stage)' <=> SlicesOK(db.stage))
    BY <1>2 DEF Staged, SlicesOK
  <2> QED BY <1>2, <1>5, <1>6, <2>1 DEF DataInv, StageOK
<1>9. LedgerOK'
  BY <1>2, SameLedgerOK DEF DataInv
<1> QED BY <1>2, <1>4, <1>7, <1>8, <1>9 DEF DataInv

(* Rows that change their life and stay.                                       *)
LEMMA EditStutters ==
    ASSUME DataInv, NEW s \in Sources, NEW r \in RowType, db' = EditedRow(db, s, r),
           r.gone = db.row[s].gone, acked' = acked,
           r.life \notin {"absent", "gone"}, db.row[s].life \notin {"absent", "gone"}
    PROVE  Stutters
<1>1. /\ db'.row[s] = r /\ \A t \in Sources : t # s => db'.row[t] = db.row[t]
      /\ db'.ledger = db.ledger
  BY EditFields DEF DataInv
<1>2. \A t \in Sources : /\ db'.row[t].gone = db.row[t].gone
                         /\ db'.row[t].life \in {"absent", "gone"} <=> db.row[t].life \in {"absent", "gone"}
  BY <1>1
<1> QED BY <1>1, <1>2, SameKept DEF Stutters

-----------------------------------------------------------------------------
(* Transactions that change one row.                                          *)

LEMMA NotMember ==
    ASSUME DataInv, NEW s \in Sources, db.row[s].life \notin {"sealed", "certified", "covered", "retiring"}
    PROVE  s \notin Members
BY DEF DataInv, MembersOK

LEMMA NoMembers ==
    ASSUME DataInv, db.cohort.life = "none"
    PROVE  Members = {} /\ db.cohort = NoCohort
BY DEF DataInv, MembersOK, Members, NoCohort

LEMMA SealKeeps ==
    ASSUME DataInv, NEW s \in Sources, Seal(s)
    PROVE  DataInv' /\ LedgerStep
<1> DEFINE r == IF s \in Quarantined
                THEN [db.row[s] EXCEPT !.life = "held", !.kind = "quarantine"]
                ELSE [db.row[s] EXCEPT !.life = "sealed"]
<1>1. db.row[s].life = "absent" /\ db' = EditedRow(db, s, r) /\ acked' = acked
  BY DEF Seal, outside
<1>2. db.row[s] \in RowType /\ db.row[s].gone = 0 /\ db.row[s].gone \in Nat
  BY <1>1, RowFields DEF DataInv, RowsOK
<1>3. r \in RowType /\ r.life \in {"held", "sealed"} /\ r.gone = 0
  BY <1>2 DEF RowType, Lives
<1> HIDE DEF r
<1>4. s \notin Members
  BY <1>1, NotMember
<1>5. DataInv'
  <2>1. r.gone <= Size[s]
    BY <1>3, SourceFacts
  <2> QED BY <1>1, <1>3, <1>4, <2>1, EditKeeps
<1>6. /\ db'.row[s] = r /\ \A t \in Sources : t # s => db'.row[t] = db.row[t]
      /\ db'.ledger = db.ledger
  BY <1>1, <1>3, EditFields DEF DataInv
<1>7. Kept \subseteq Kept' /\ Kept' \subseteq Seqs \X Bytes
  <2>1. \A t \in Present(db) : t \in Present(db)' /\ db'.row[t].gone = db.row[t].gone
    BY <1>1, <1>6 DEF Present
  <2> QED BY <2>1 DEF Kept
<1>8. Feed' = Feed /\ Entries(db, "retired")' = Entries(db, "retired")
  BY <1>6, SameLedger
<1>9. Ledger!Capture
  BY <1>1, <1>7, <1>8 DEF Ledger!Capture
<1> QED BY <1>5, <1>9 DEF LedgerStep, Ledger!Next

LEMMA CertifyKeeps ==
    ASSUME DataInv, NEW s \in Sources, Certify(s)
    PROVE  DataInv' /\ LedgerStep
<1> DEFINE r == [db.row[s] EXCEPT !.life = "certified"]
<1>1. db.row[s].life = "held" /\ db' = EditedRow(db, s, r) /\ acked' = acked
  BY DEF Certify, outside
<1>2. db.row[s] \in RowType /\ db.row[s].gone = 0 /\ db.row[s].gone \in Nat
  BY <1>1, RowFields DEF DataInv, RowsOK
<1>3. r \in RowType /\ r.life = "certified" /\ r.gone = 0
  BY <1>2 DEF RowType, Lives
<1> HIDE DEF r
<1>4. s \notin Members /\ r.gone <= Size[s]
  BY <1>1, <1>3, NotMember, SourceFacts
<1>5. DataInv'
  BY <1>1, <1>3, <1>4, EditKeeps
<1>6. Stutters
  BY <1>1, <1>2, <1>3, EditStutters
<1> QED BY <1>5, <1>6, StutterIs

LEMMA CoverKeeps ==
    ASSUME DataInv, NEW s \in Sources, NEW new, SoundCover(s, new), db' = new, acked' = acked
    PROVE  DataInv' /\ LedgerStep
<1> DEFINE r == Covered(db, s)
<1>1. db.row[s].life \in {"sealed", "certified"} /\ db' = EditedRow(db, s, r) /\ FullyProven(db, s)
  BY DEF SoundCover, CoveredReplay, Admissible
<1>2. db.row[s] \in RowType /\ db.row[s].gone = 0 /\ db.row[s].gone \in Nat
  BY <1>1, RowFields DEF DataInv, RowsOK
<1>3. Holds(s, Admitted(db, s)) /\ Admitted(db, s) \in Nat
  BY <1>1, ProvenHolds, AdmittedIs
<1>4. /\ r \in RowType /\ r.gone = 0 /\ r.cov = Admitted(db, s)
      /\ r.life = IF Admitted(db, s) = Size[s] THEN "retiring" ELSE "covered"
  BY <1>2, <1>3 DEF RowType, Lives, Covered
<1> HIDE DEF r
<1>5. s \notin Members /\ r.gone <= Size[s]
  BY <1>4, NoMembers, SourceFacts DEF SoundCover
<1>6. r.life = "retiring" => r.cov = Size[s] /\ Holds(s, Size[s])
  BY <1>3, <1>4
<1>7. DataInv'
  BY <1>1, <1>4, <1>5, <1>6, EditKeeps
<1>8. r.life \notin {"absent", "gone"} /\ db.row[s].life \notin {"absent", "gone"}
  BY <1>1, <1>4
<1>9. Stutters
  BY <1>1, <1>2, <1>4, <1>8, EditStutters
<1> QED BY <1>7, <1>9, StutterIs

LEMMA BlockKeeps ==
    ASSUME DataInv, NEW s \in Sources, NEW new, SoundBlock(s, new), db' = new, acked' = acked
    PROVE  DataInv' /\ LedgerStep
<1> DEFINE r == [db.row[s] EXCEPT !.life = "conflict", !.kind = "quarantine", !.cov = 0]
<1>1. db.row[s].life \in {"sealed", "certified"} /\ db' = EditedRow(db, s, r)
  BY DEF SoundBlock, BlockedSource, Admissible
<1>2. db.row[s] \in RowType /\ db.row[s].gone = 0 /\ db.row[s].gone \in Nat
  BY <1>1, RowFields DEF DataInv, RowsOK
<1>3. r \in RowType /\ r.life = "conflict" /\ r.gone = 0
  BY <1>2 DEF RowType, Lives
<1> HIDE DEF r
<1>4. s \notin Members /\ r.gone <= Size[s]
  BY <1>3, NoMembers, SourceFacts DEF SoundBlock
<1>5. DataInv'
  BY <1>1, <1>3, <1>4, EditKeeps
<1>6. Stutters
  BY <1>1, <1>2, <1>3, EditStutters
<1> QED BY <1>5, <1>6, StutterIs

LEMMA RawKeeps ==
    ASSUME DataInv, NEW s \in Sources, NEW new, SoundRaw(s, new), db' = new, acked' = acked
    PROVE  DataInv' /\ LedgerStep
<1>0. /\ db.row[s].life = "retiring" /\ s \notin Members
      /\ db' \in {RetiredPage(db, s), RemovedSource(db, s)}
  BY DEF SoundRaw
<1>1. /\ db.row[s] \in RowType /\ db.row[s].gone \in Nat /\ db.row[s].gone <= Size[s]
      /\ db.row[s].cov = Size[s] /\ Holds(s, Size[s]) /\ Size[s] \in Nat
  BY <1>0, RowFields, SourceFacts DEF DataInv, RowsOK
<1>2. PICK r \in RowType :
        /\ db' = EditedRow(db, s, r)
        /\ \/ r.life = "gone" /\ r.gone = 0
           \/ /\ r.life = "retiring" /\ r.cov = Size[s]
              /\ db.row[s].gone <= r.gone /\ r.gone <= Size[s]
  <2>1. CASE db' = RetiredPage(db, s)
    <3> DEFINE to == Min({Size[s], db.row[s].gone + PageLimit})
    <3>1. to \in Nat /\ db.row[s].gone <= to /\ to <= Size[s]
      <4>1. {Size[s], db.row[s].gone + PageLimit} \in SUBSET Nat /\ PageLimit \in Nat
        BY <1>1, BoundsAssumption
      <4>2. to \in {Size[s], db.row[s].gone + PageLimit} /\ \A y \in {Size[s], db.row[s].gone + PageLimit} : to <= y
        BY <4>1, MinIs
      <4> QED BY <1>1, <4>1, <4>2
    <3> HIDE DEF to
    <3> DEFINE r == [db.row[s] EXCEPT !.gone = to]
    <3>2. r \in RowType /\ r.life = "retiring" /\ r.cov = Size[s] /\ r.gone = to
      BY <1>0, <1>1, <3>1 DEF RowType
    <3>3. db' = EditedRow(db, s, r)
      BY <2>1 DEF RetiredPage, to
    <3> HIDE DEF r
    <3> QED BY <3>1, <3>2, <3>3
  <2>2. CASE db' = RemovedSource(db, s)
    <3> DEFINE r == [db.row[s] EXCEPT !.life = "gone", !.cov = 0, !.gone = 0]
    <3>1. r \in RowType /\ r.life = "gone" /\ r.gone = 0
      BY <1>1 DEF RowType, Lives
    <3>2. db' = EditedRow(db, s, r)
      BY <2>2 DEF RemovedSource
    <3> HIDE DEF r
    <3> QED BY <3>1, <3>2
  <2> QED BY <1>0, <2>1, <2>2
<1>3. DataInv'
  <2>1. /\ r.gone <= Size[s] /\ (r.gone # 0 => r.life = "retiring")
        /\ r.life = "retiring" => r.cov = Size[s]
    BY <1>1, <1>2
  <2> QED BY <1>0, <1>1, <1>2, <2>1, EditKeeps
<1>4. /\ db'.row[s] = r /\ \A t \in Sources : t # s => db'.row[t] = db.row[t]
      /\ db'.ledger = db.ledger
  BY <1>2, EditFields DEF DataInv
<1>5. Feed' = Feed /\ Entries(db, "retired")' = Entries(db, "retired")
  BY <1>4, SameLedger
<1>6. Kept' \subseteq Kept
  <2>1. ASSUME NEW x \in Kept' PROVE x \in Kept
    <3>1. x \in Seqs \X Bytes
      BY DEF Kept
    <3>2. PICK t \in Present(db)' : x[2] = Variant[t] /\ x[1] \in Span(t, db'.row[t].gone, Size[t])
      BY DEF Kept
    <3>3. t \in Sources /\ t \in Present(db)
      BY <1>0, <1>4, <3>2 DEF Present
    <3>4. x[1] \in Span(t, db.row[t].gone, Size[t])
      <4>1. CASE t = s
        <5>1. r.life # "gone"
          BY <1>4, <3>2, <4>1 DEF Present
        <5>2. r.gone \in Nat /\ db.row[s].gone <= r.gone /\ First[s] \in Nat
          BY <1>2, <5>1, SourceFacts DEF RowType
        <5>3. x[1] \in Int /\ First[s] + r.gone <= x[1] /\ x[1] < First[s] + Size[s]
          BY <1>1, <1>4, <3>2, <4>1, <5>2, SpanIs
        <5>4. First[s] + db.row[s].gone <= x[1]
          BY <1>1, <5>2, <5>3
        <5> QED BY <1>1, <4>1, <5>3, <5>4, SpanIs
      <4>2. CASE t # s
        BY <1>4, <3>2, <3>3, <4>2
      <4> QED BY <4>1, <4>2
    <3> QED BY <3>1, <3>2, <3>3, <3>4 DEF Kept
  <2> QED BY <2>1
<1>7. Kept \ Kept' \subseteq Ledger!Published
  <2>1. ASSUME NEW x \in Kept, x \notin Kept' PROVE x \in Ledger!Published
    <3>1. x \in Seqs \X Bytes
      BY DEF Kept
    <3>2. PICK t \in Present(db) : x[2] = Variant[t] /\ x[1] \in Span(t, db.row[t].gone, Size[t])
      BY DEF Kept
    <3>3. t = s
      <4>1. SUFFICES ASSUME t # s PROVE FALSE
        OBVIOUS
      <4>2. t \in Sources /\ db'.row[t] = db.row[t] /\ t \in Present(db)'
        BY <1>4, <4>1 DEF Present
      <4> QED BY <2>1, <3>1, <3>2, <4>2 DEF Kept
    <3>4. x[1] \in Span(s, 0, Size[s])
      <4>1. First[s] \in Nat
        BY SourceFacts
      <4>2. x[1] \in Int /\ First[s] + db.row[s].gone <= x[1] /\ x[1] < First[s] + Size[s]
        BY <1>1, <3>2, <3>3, SpanIs
      <4>3. First[s] + 0 <= x[1]
        BY <1>1, <4>1, <4>2
      <4> QED BY <1>1, <4>2, <4>3, SpanIs
    <3>5. PICK o \in Orders : x[1] \in Recs(db, o) /\ db.ledger[o].recs[x[1]] = Variant[s]
      BY <1>1, <3>4 DEF Holds, IsPublic
    <3>6. <<x[1], x[2]>> \in Feed[o]
      BY <3>2, <3>3, <3>5 DEF Feed
    <3>7. x = <<x[1], x[2]>>
      BY <3>1
    <3> QED BY <3>6, <3>7 DEF Ledger!Published
  <2> QED BY <2>1
<1>8. Ledger!Discard
  BY <1>5, <1>6, <1>7 DEF Ledger!Discard
<1> QED BY <1>3, <1>8 DEF LedgerStep, Ledger!Next

-----------------------------------------------------------------------------
(* Transactions that move the cohort.                                         *)

LEMMA NewCohort ==
    ASSUME NEW life \in {"accepted", "staging"}, NEW cursor \in Nat, NEW m,
           NEW S \in SUBSET Sources, m \in [S -> 0..(MaxSeq + 1)]
    PROVE  /\ [life |-> life, cursor |-> cursor, member |-> m] \in CohortType
           /\ NoCohort \in CohortType
<1>1. m \in Cursors
  BY CursorsIs
<1>2. [s \in {} |-> 0] \in Cursors
  <2>1. [s \in {} |-> 0] \in [{} -> 0..(MaxSeq + 1)] /\ {} \in SUBSET Sources
    OBVIOUS
  <2> QED BY <2>1, CursorsIs
<1> QED BY <1>1, <1>2 DEF CohortType, NoCohort

LEMMA AcceptKeeps ==
    ASSUME DataInv, NEW new, SoundAccept(new), db' = new, acked' = acked
    PROVE  DataInv' /\ LedgerStep
<1>1. db \in DbType /\ db.cohort.life = "none"
  BY DEF DataInv, SoundAccept
<1>2. PICK A \in SUBSET {s \in Sources : Admissible(db, s)} :
        db' = [db EXCEPT !.cohort = [life |-> "accepted", cursor |-> 0, member |-> [s \in A |-> 0]]]
  BY DEF SoundAccept
<1> DEFINE m == [s \in A |-> 0]
<1> DEFINE co == [life |-> "accepted", cursor |-> 0, member |-> m]
<1>3. m \in [A -> 0..(MaxSeq + 1)] /\ A \in SUBSET Sources
  <2>1. 0 \in 0..(MaxSeq + 1)
    BY BoundsAssumption
  <2> QED BY <2>1
<1>4. co \in CohortType /\ co.life = "accepted" /\ co.member = m
  BY <1>3, NewCohort
<1>5. db' = [db EXCEPT !.cohort = co]
  BY <1>2
<1>6. DOMAIN m = A /\ \A s \in A : m[s] = 0
  OBVIOUS
<1> HIDE DEF co, m
<1>7. /\ db' \in DbType /\ db'.cohort = co /\ db'.row = db.row /\ db'.stage = db.stage
      /\ db'.proof = db.proof /\ db'.ledger = db.ledger /\ db'.frontier = db.frontier
      /\ db'.order = db.order
  BY <1>1, <1>4, <1>5 DEF DbType
<1>8. \A s, k : Holds(s, k)' <=> Holds(s, k)
  BY <1>7, SameLedger
<1>9. RowsOK'
  BY <1>7, <1>8 DEF DataInv, RowsOK
<1>10. MembersOK'
  <2>1. Members' = A /\ \A s \in A : Cursor(s)' = 0
    BY <1>4, <1>6, <1>7 DEF Members, Cursor
  <2>2. ASSUME NEW s \in A
        PROVE  /\ db'.row[s].life \in {"sealed", "certified", "covered", "retiring"}
               /\ db'.row[s].gone = 0 /\ 0 <= Admitted(db, s)' /\ Holds(s, 0)'
    <3>1. s \in Sources /\ db.row[s].life \in {"sealed", "certified"} /\ db.row[s].gone = 0
      BY RowFields DEF Admissible, DataInv, RowsOK
    <3>2. Admitted(db, s)' \in Nat
      BY <1>7, <3>1, AdmittedIs DEF Admitted
    <3> QED BY <1>7, <1>8, <3>1, <3>2, HoldsNothing
  <2> QED BY <1>4, <1>7, <2>1, <2>2 DEF MembersOK
<1>11. StageOK'
  BY <1>1, <1>4, <1>7 DEF DataInv, StageOK
<1>12. LedgerOK'
  BY <1>7, SameLedgerOK DEF DataInv
<1>13. Kept' = Kept
  BY <1>7, SameKept
<1> QED BY <1>7, <1>9, <1>10, <1>11, <1>12, <1>13, StutterIs DEF DataInv, Stutters

(* What the rows are once the cursors have moved to `new'.                     *)
LEMMA AdvancedIs ==
    ASSUME DataInv, NEW new, \A s \in Members : new[s] \in Cursor(s)..Admitted(db, s)
    PROVE  LET rows == Advanced(db, db.cohort.member, new) IN
           /\ rows \in [Sources -> RowType]
           /\ \A s \in Sources :
                 /\ rows[s].gone = db.row[s].gone /\ rows[s].kind = db.row[s].kind
                 /\ \/ rows[s] = db.row[s]
                    \/ /\ s \in Members /\ new[s] = Admitted(db, s)
                       /\ rows[s].life \in {"covered", "retiring"}
                       /\ rows[s].life = "retiring" => rows[s].cov = Size[s] /\ new[s] = Size[s]
<1> DEFINE rows == Advanced(db, db.cohort.member, new)
<1>1. ASSUME NEW s \in Sources
      PROVE  /\ rows[s] \in RowType
             /\ rows[s].gone = db.row[s].gone /\ rows[s].kind = db.row[s].kind
             /\ \/ rows[s] = db.row[s]
                \/ /\ s \in Members /\ new[s] = Admitted(db, s)
                   /\ rows[s].life \in {"covered", "retiring"}
                   /\ rows[s].life = "retiring" => rows[s].cov = Size[s] /\ new[s] = Size[s]
  <2>1. db.row[s] \in RowType
    BY RowFields DEF DataInv
  <2>2. Admitted(db, s) \in Nat
    BY AdmittedIs
  <2>3. CASE s \in Members /\ Cursor(s) < new[s] /\ new[s] = Admitted(db, s)
    <3>1. rows[s] = Covered(db, s)
      BY <2>3 DEF Advanced, Members, Cursor
    <3>2. /\ Covered(db, s) \in RowType
          /\ Covered(db, s).gone = db.row[s].gone /\ Covered(db, s).kind = db.row[s].kind
          /\ Covered(db, s).life = IF Admitted(db, s) = Size[s] THEN "retiring" ELSE "covered"
          /\ Covered(db, s).cov = Admitted(db, s)
      BY <2>1, <2>2 DEF Covered, RowType, Lives
    <3> QED BY <2>3, <3>1, <3>2
  <2>4. CASE ~(s \in Members /\ Cursor(s) < new[s] /\ new[s] = Admitted(db, s))
    <3>1. rows[s] = db.row[s]
      BY <2>4 DEF Advanced, Members, Cursor
    <3> QED BY <2>1, <3>1
  <2> QED BY <2>3, <2>4
<1>2. rows = [s \in Sources |-> rows[s]]
  BY DEF Advanced
<1> HIDE DEF rows
<1>3. rows \in [Sources -> RowType]
  BY <1>1, <1>2
<1> QED BY <1>1, <1>3 DEF rows

(* The cohort moves on, or ends.                                              *)
LEMMA CursorsMove ==
    ASSUME DataInv, NEW new, \A s \in Members : new[s] \in Cursor(s)..Admitted(db, s),
           DOMAIN new = Members,
           db'.row = Advanced(db, db.cohort.member, new),
           db'.cohort = NoCohort \/ (db'.cohort.life = "accepted" /\ db'.cohort.member = new),
           \A s \in Sources, k \in Nat : Holds(s, k) => Holds(s, k)',
           \A s \in Members : Holds(s, new[s])'
    PROVE  RowsOK' /\ MembersOK' /\ Kept' = Kept
<1>1. \A s \in Sources :
        /\ db'.row[s].gone = db.row[s].gone /\ db'.row[s].kind = db.row[s].kind
        /\ \/ db'.row[s] = db.row[s]
           \/ /\ s \in Members /\ new[s] = Admitted(db, s)
              /\ db'.row[s].life \in {"covered", "retiring"}
              /\ db'.row[s].life = "retiring" => db'.row[s].cov = Size[s] /\ new[s] = Size[s]
  BY AdvancedIs
<1>2. \A s \in Members : db.row[s].life \in {"sealed", "certified", "covered", "retiring"} /\ db.row[s].gone = 0
  BY DEF DataInv, MembersOK
<1>3. Members \subseteq Sources
  BY CohortFields DEF DataInv, Members
<1>4. RowsOK'
  <2>1. ASSUME NEW s \in Sources
        PROVE  /\ db'.row[s].gone <= Size[s]
               /\ db'.row[s].gone # 0 => db'.row[s].life = "retiring"
               /\ db'.row[s].life = "retiring" => db'.row[s].cov = Size[s] /\ Holds(s, Size[s])'
    <3>1. /\ db.row[s].gone <= Size[s]
          /\ db.row[s].gone # 0 => db.row[s].life = "retiring"
          /\ db.row[s].life = "retiring" => db.row[s].cov = Size[s] /\ Holds(s, Size[s])
      BY DEF DataInv, RowsOK
    <3>2. Size[s] \in Nat
      BY SourceFacts
    <3>3. CASE db'.row[s] = db.row[s]
      BY <3>1, <3>2, <3>3
    <3>4. CASE db'.row[s] # db.row[s]
      <4>1. s \in Members /\ db.row[s].gone = 0 /\ db'.row[s].gone = db.row[s].gone
        BY <1>1, <1>2, <3>4
      <4>2. db'.row[s].life = "retiring" => db'.row[s].cov = Size[s] /\ new[s] = Size[s]
        BY <1>1, <3>4
      <4>3. Holds(s, new[s])'
        BY <4>1
      <4> QED BY <3>1, <4>1, <4>2, <4>3
    <3> QED BY <3>3, <3>4
  <2> QED BY <2>1 DEF RowsOK
<1>5. MembersOK'
  <2>1. CASE db'.cohort = NoCohort
    BY <2>1 DEF MembersOK, Members, NoCohort
  <2>2. CASE db'.cohort.life = "accepted" /\ db'.cohort.member = new
    <3>1. Members' = Members /\ \A s \in Members : Cursor(s)' = new[s]
      BY <2>2 DEF Members, Cursor
    <3>2. ASSUME NEW s \in Members
          PROVE  /\ db'.row[s].life \in {"sealed", "certified", "covered", "retiring"}
                 /\ db'.row[s].gone = 0 /\ new[s] <= Admitted(db, s)' /\ Holds(s, new[s])'
      <4>1. s \in Sources
        BY <1>3
      <4>2. Admitted(db, s)' = Admitted(db, s) /\ Admitted(db, s) \in Nat
        BY <1>1, <4>1, AdmittedIs DEF Admitted
      <4>3. new[s] <= Admitted(db, s)
        <5>1. Cursor(s) \in Nat
          BY CohortFields DEF DataInv, Members, Cursor
        <5> QED BY <4>2, <5>1
      <4> QED BY <1>1, <1>2, <4>1, <4>2, <4>3
    <3> QED BY <2>2, <3>1, <3>2 DEF MembersOK
  <2> QED BY <2>1, <2>2
<1>6. \A s \in Sources : /\ db'.row[s].gone = db.row[s].gone
                         /\ db'.row[s].life \in {"absent", "gone"} <=> db.row[s].life \in {"absent", "gone"}
  BY <1>1, <1>2
<1>7. Kept' = Kept
  BY <1>6, SameKept
<1> QED BY <1>4, <1>5, <1>7

LEMMA CustodyCursorsHold ==
    ASSUME DataInv, ~CohortClash
    PROVE  LET new == CustodyCursors(db) IN
           /\ DOMAIN new = Members
           /\ \A s \in Members : new[s] \in Cursor(s)..Admitted(db, s) /\ Holds(s, new[s])
<1> DEFINE new == CustodyCursors(db)
<1>1. DOMAIN new = Members
  BY DEF CustodyCursors, Members
<1>2. ASSUME NEW s \in Members
      PROVE  new[s] \in Cursor(s)..Admitted(db, s) /\ Holds(s, new[s])
  <2>1. s \in Sources /\ Cursor(s) \in Nat /\ Admitted(db, s) \in Nat
    BY CohortFields, AdmittedIs DEF DataInv, Members, Cursor
  <2>2. Cursor(s) <= Admitted(db, s) /\ Holds(s, Cursor(s))
    BY DEF DataInv, MembersOK
  <2>3. CASE Cursor(s) = Admitted(db, s)
    <3>1. new[s] = Cursor(s)
      BY <2>3 DEF CustodyCursors, Members, Cursor
    <3> QED BY <2>1, <2>2, <2>3, <3>1
  <2>4. CASE Cursor(s) # Admitted(db, s)
    <3>1. new[s] = ProvenCursor(db, s, Cursor(s))
      BY <2>4 DEF CustodyCursors, Members, Cursor
    <3>2. Cursor(s) < Admitted(db, s)
      BY <2>1, <2>2, <2>4
    <3>3. ~PrefixConflict(db, s, Cursor(s))
      BY <3>2 DEF CohortClash, Members, Cursor
    <3> QED BY <2>1, <2>2, <3>1, <3>3, PrefixHolds
  <2> QED BY <2>3, <2>4
<1> QED BY <1>1, <1>2

LEMMA CustodyKeeps ==
    ASSUME DataInv, NEW new, SoundCustody(new), db' = new, acked' = acked
    PROVE  DataInv' /\ LedgerStep
<1>0. PICK c : c = CustodyCursors(db)
  OBVIOUS
<1> DEFINE rows == Advanced(db, db.cohort.member, c)
<1> DEFINE co == IF AllComplete(db, c) THEN NoCohort ELSE [db.cohort EXCEPT !.member = c]
<1>1. db \in DbType /\ db.cohort.life = "accepted" /\ ~CohortClash
  BY DEF DataInv, SoundCustody
<1>2. db' = [db EXCEPT !.row = rows, !.cohort = co]
  BY <1>0 DEF SoundCustody, AdvancedCustody
<1>3. /\ DOMAIN c = Members
      /\ \A s \in Members : c[s] \in Cursor(s)..Admitted(db, s) /\ Holds(s, c[s])
  BY <1>0, <1>1, CustodyCursorsHold
<1>4. rows \in [Sources -> RowType]
  BY <1>3, AdvancedIs
<1>5. c \in [Members -> 0..(MaxSeq + 1)] /\ Members \in SUBSET Sources
  <2>1. Members \in SUBSET Sources
    BY <1>1, CohortFields DEF Members
  <2>2. ASSUME NEW s \in Members PROVE c[s] \in 0..(MaxSeq + 1)
    <3>1. s \in Sources /\ Cursor(s) \in Nat /\ Admitted(db, s) \in Nat /\ Admitted(db, s) <= Size[s]
      BY <1>1, <2>1, CohortFields, AdmittedIs DEF Members, Cursor
    <3>2. Size[s] <= MaxSeq + 1 /\ Size[s] \in Nat /\ MaxSeq \in Nat
      BY <3>1, SourcesAssumption, BoundsAssumption
    <3>3. c[s] \in Cursor(s)..Admitted(db, s)
      BY <1>3
    <3> QED BY <3>1, <3>2, <3>3
  <2>3. c = [s \in Members |-> c[s]]
    BY <1>0 DEF CustodyCursors, Members
  <2> QED BY <2>1, <2>2, <2>3
<1>6. co \in CohortType /\ (co = NoCohort \/ (co.life = "accepted" /\ co.member = c))
  <2>1. db.cohort \in CohortType
    BY <1>1, DbFields
  <2>2. c \in Cursors /\ NoCohort \in CohortType
    BY <1>5, CursorsIs, NewCohort
  <2>3. [db.cohort EXCEPT !.member = c] \in CohortType
    BY <2>1, <2>2 DEF CohortType
  <2>4. [db.cohort EXCEPT !.member = c].life = "accepted" /\ [db.cohort EXCEPT !.member = c].member = c
    BY <1>1, <2>1 DEF CohortType
  <2> QED BY <2>2, <2>3, <2>4
<1>7. rows = Advanced(db, db.cohort.member, c)
  OBVIOUS
<1> HIDE DEF rows, co
<1>8. /\ db' \in DbType /\ db'.cohort = co /\ db'.row = rows /\ db'.stage = db.stage
      /\ db'.proof = db.proof /\ db'.ledger = db.ledger /\ db'.frontier = db.frontier
      /\ db'.order = db.order
  BY <1>1, <1>2, <1>4, <1>6 DEF DbType
<1>9. \A s, k : Holds(s, k)' <=> Holds(s, k)
  BY <1>8, SameLedger
<1>10. \A s \in Members : Holds(s, c[s])'
  BY <1>3, <1>9
<1>11. RowsOK' /\ MembersOK' /\ Kept' = Kept
  BY <1>3, <1>6, <1>7, <1>8, <1>9, <1>10, CursorsMove
<1>12. StageOK'
  <2>1. co.life # "staging"
    BY <1>6 DEF NoCohort
  <2> QED BY <1>1, <1>8, <2>1 DEF DataInv, StageOK
<1>13. LedgerOK'
  BY <1>8, SameLedgerOK DEF DataInv
<1> QED BY <1>8, <1>11, <1>12, <1>13, StutterIs DEF DataInv, Stutters

-----------------------------------------------------------------------------
(* The reservation: a group of unique records of the members.                  *)

LEMMA GroupInUnique ==
    ASSUME NEW U
    PROVE  NextGroup(U) \subseteq U
BY DEF NextGroup

(* Each record of a group has an owner, and every member that offers it has     *)
(* the owner's bytes.                                                         *)
LEMMA GroupFacts ==
    ASSUME DataInv, ~CohortClash, ~BehindFrontier(Unique(db, db.cohort.member)),
           NEW n \in Unique(db, db.cohort.member)
    PROVE  LET owner == Owner(db, db.cohort.member, n) IN
           /\ n \in Seqs /\ n > db.frontier
           /\ owner \in Members /\ Variant[owner] \in Bytes
           /\ n \in Rest(db, owner, db.cohort.member)
           /\ \A s \in Members : n \in Rest(db, s, db.cohort.member) => Variant[owner] = Variant[s]
<1> DEFINE c == db.cohort.member
<1> DEFINE owner == Owner(db, c, n)
<1>1. DOMAIN c = Members /\ Members \subseteq Sources /\ \A s \in Members : c[s] \in Nat
  BY CohortFields DEF Members, DataInv
<1>2. PICK t \in Members : n \in Rest(db, t, c)
  BY DEF Unique, Members
<1>3. owner \in Members /\ n \in Rest(db, owner, c)
  BY <1>1, <1>2, OwnerIs
<1>4. n \in Seqs
  <2>1. t \in Sources /\ c[t] \in Nat /\ Admitted(db, t) \in Nat /\ Admitted(db, t) <= Size[t]
    BY <1>1, AdmittedIs
  <2> QED BY <1>2, <2>1, SpanSeqs DEF Rest
<1>5. n > db.frontier
  <2>1. ~(n <= db.frontier) /\ db.frontier \in Int /\ n \in Int
    BY <1>4, DbFields DEF BehindFrontier, Seqs, DataInv
  <2> QED BY <2>1
<1>6. ASSUME NEW s \in Members, n \in Rest(db, s, c)
      PROVE  Variant[owner] = Variant[s]
  <2>1. s \in Sources /\ c[s] \in Nat /\ Admitted(db, s) \in Nat /\ First[s] \in Nat
    BY <1>1, AdmittedIs, SourceFacts
  <2>2. n \in Int /\ First[s] + c[s] <= n /\ n < First[s] + Admitted(db, s)
    BY <1>6, <2>1, SpanIs DEF Rest
  <2>3. c[s] < Admitted(db, s)
    BY <2>1, <2>2
  <2>4. ~NormalizeConflict(db, c, s)
    BY <1>1, <2>3 DEF CohortClash
  <2> QED BY <1>6, <2>4 DEF NormalizeConflict, PeerConflict
<1>7. Variant[owner] \in Bytes
  BY <1>1, <1>3, SourceFacts
<1> QED BY <1>3, <1>4, <1>5, <1>6, <1>7

LEMMA SlicesAgree ==
    ASSUME NEW d, NEW c, NEW G \in SUBSET Seqs
    PROVE  /\ Slices(d, c, G) \in Lineages
           /\ \A t \in Slices(d, c, G) : \A n \in t[1] .. t[2] :
                 n \in G /\ Variant[Owner(d, c, n)] = t[3]
<1>1. Slices(d, c, G) \in Lineages
  BY DEF Slices, Lineages
<1>2. ASSUME NEW t \in Slices(d, c, G), NEW n \in t[1] .. t[2]
      PROVE  n \in G /\ Variant[Owner(d, c, n)] = t[3]
  <2>1. t \in G \X G \X Bytes /\ IsRun(d, c, G, t[1], t[2]) /\ t[3] = Variant[Owner(d, c, t[1])]
    BY DEF Slices
  <2>2. t[1] \in Int /\ t[2] \in Int
    <3>1. t[1] \in G /\ t[2] \in G
      BY <2>1
    <3>2. \A x \in Seqs : x \in Int
      BY BoundsAssumption DEF Seqs
    <3> QED BY <3>1, <3>2
  <2>3. n \in G
    BY <2>1 DEF IsRun
  <2>4. CASE n = t[1]
    BY <2>1, <2>3, <2>4
  <2>5. CASE n # t[1]
    <3>1. n \in (t[1] + 1) .. t[2]
      BY <2>2, <2>5
    <3> QED BY <2>1, <2>3, <3>1 DEF IsRun
  <2> QED BY <2>4, <2>5
<1> QED BY <1>1, <1>2

LEMMA StageKeeps ==
    ASSUME DataInv, NEW new, SoundStage(new), db' = new, acked' = acked
    PROVE  /\ DataInv' /\ LedgerStep
           /\ db'.cohort.life = "staging" /\ ~db'.stage.latched
           /\ db'.ledger = db.ledger /\ db'.stage.order = db.order
<1>1. PICK c : c = db.cohort.member
  OBVIOUS
<1>2. PICK G : G = NextGroup(Unique(db, c))
  OBVIOUS
<1>3. PICK recs : recs = Frozen(db, c, G)
  OBVIOUS
<1>4. PICK slices : slices = Slices(db, c, G)
  OBVIOUS
<1> DEFINE st == [order |-> db.order, base |-> db.frontier, latched |-> FALSE,
                  recs |-> recs, slices |-> slices]
<1> DEFINE pf == [db.proof EXCEPT ![db.order] = "staging"]
<1> DEFINE co == [db.cohort EXCEPT !.life = "staging"]
<1>5. /\ db \in DbType /\ db.cohort.life = "accepted" /\ db.order \in Orders /\ G # {}
      /\ ~CohortClash /\ ~BehindFrontier(Unique(db, db.cohort.member)) /\ db.stage = NoStage
  BY <1>1, <1>2 DEF DataInv, SoundStage, StageOK
<1>6. db' = [db EXCEPT !.stage = st, !.proof = pf, !.cohort = co, !.order = db.order + 1]
  BY <1>1, <1>2, <1>3, <1>4 DEF SoundStage, ReservedStage
<1>7. G \subseteq Unique(db, db.cohort.member)
  BY <1>1, <1>2, GroupInUnique
<1>8. ASSUME NEW n \in G
      PROVE  /\ n \in Seqs /\ n > db.frontier
             /\ Variant[Owner(db, c, n)] \in Bytes
             /\ \E s \in Members : n \in Rest(db, s, c)
             /\ \A s \in Members : n \in Rest(db, s, c) => Variant[Owner(db, c, n)] = Variant[s]
  <2>1. n \in Unique(db, db.cohort.member)
    BY <1>7
  <2> QED BY <1>1, <1>5, <2>1, GroupFacts
<1>9. G \in SUBSET Seqs
  BY <1>8
<1>10. DOMAIN recs = G /\ (\A n \in G : recs[n] = Variant[Owner(db, c, n)]) /\ recs \in [G -> Bytes]
  BY <1>3, <1>8 DEF Frozen
<1>11. recs \in Projections
  BY <1>9, <1>10, ProjectionIs
<1>12. /\ slices \in Lineages
      /\ \A t \in slices : \A n \in t[1] .. t[2] : n \in DOMAIN recs /\ recs[n] = t[3]
  <2>1. /\ slices \in Lineages
        /\ \A t \in slices : \A n \in t[1] .. t[2] : n \in G /\ Variant[Owner(db, c, n)] = t[3]
    BY <1>4, <1>9, SlicesAgree
  <2> QED BY <1>10, <2>1
<1>13. /\ db.proof \in [Orders -> ProofStates] /\ db.cohort \in CohortType
      /\ db.frontier \in Int /\ db.order \in Nat
  BY <1>5, DbFields
<1>14. /\ st \in StageType /\ st.order = db.order /\ st.base = db.frontier /\ ~st.latched
       /\ st.recs = recs /\ st.slices = slices
  BY <1>11, <1>12, <1>13 DEF StageType
<1>15. /\ pf \in [Orders -> ProofStates] /\ pf[db.order] = "staging"
       /\ \A o \in Orders : o # db.order => pf[o] = db.proof[o]
  BY <1>5, <1>13 DEF ProofStates
<1>16. co \in CohortType /\ co.life = "staging" /\ co.member = c
  BY <1>1, <1>13 DEF CohortType
<1> HIDE DEF st, pf, co
<1>17. PICK next \in Nat : next = db.order + 1
  BY <1>13
<1>18. db' = [db EXCEPT !.stage = st, !.proof = pf, !.cohort = co, !.order = next]
  BY <1>6, <1>17
<1>19. /\ db' \in DbType /\ db'.cohort = co /\ db'.row = db.row /\ db'.stage = st
        /\ db'.proof = pf /\ db'.ledger = db.ledger /\ db'.frontier = db.frontier
        /\ db'.order = next
  BY <1>5, <1>14, <1>15, <1>16, <1>18 DEF DbType
<1>20. /\ db' \in DbType /\ db'.cohort = co /\ db'.row = db.row /\ db'.stage = st
       /\ db'.proof = pf /\ db'.ledger = db.ledger /\ db'.frontier = db.frontier
       /\ db'.order = db.order + 1
  BY <1>17, <1>19
<1>21. \A s, k : Holds(s, k)' <=> Holds(s, k)
  BY <1>20, SameLedger
<1>22. RowsOK'
  BY <1>20, <1>21 DEF DataInv, RowsOK
<1>23. /\ Members' = Members /\ (\A s : Cursor(s)' = Cursor(s))
       /\ \A s : Admitted(db, s)' = Admitted(db, s)
       /\ \A s : Rest(db, s, db.cohort.member)' = Rest(db, s, c)
  BY <1>1, <1>16, <1>20 DEF Members, Cursor, Admitted, Rest
<1>24. MembersOK'
  BY <1>16, <1>20, <1>21, <1>23 DEF DataInv, MembersOK
<1>25. db.ledger[db.order] = NoEntry /\ db.ledger[db.order].state = "none"
  <2>1. ~(db.order < db.order)
    BY <1>13
  <2> QED BY <1>5, <2>1 DEF DataInv, LedgerOK
<1>26. StageOK'
  <2>1. Staged' = G /\ db'.stage.recs = recs /\ db'.stage.slices = slices
    BY <1>10, <1>14, <1>20 DEF Staged
  <2>2. SlicesOK(db.stage)'
    BY <1>12, <2>1 DEF SlicesOK
  <2>3. /\ db'.stage.order \in Orders /\ db'.stage.order + 1 = db'.order
        /\ db'.stage.base = db'.frontier /\ db'.ledger[db'.stage.order] = NoEntry
        /\ db'.proof[db'.stage.order] = "staging"
    BY <1>5, <1>14, <1>15, <1>20, <1>25
  <2>4. ASSUME NEW n \in G
        PROVE  /\ n > db'.frontier
               /\ \E s \in Members' : n \in Rest(db, s, db.cohort.member)'
               /\ \A s \in Members' : n \in Rest(db, s, db.cohort.member)' => db'.stage.recs[n] = Variant[s]
    BY <1>8, <1>10, <1>20, <1>23, <2>1
  <2> QED BY <1>5, <1>16, <1>20, <2>1, <2>2, <2>3, <2>4 DEF StageOK
<1>27. LedgerOK'
  <2>1. ASSUME NEW o \in Orders
        PROVE  /\ db'.ledger[o].state = "none" => db'.ledger[o] = NoEntry
               /\ db'.ledger[o].state # "none" => o < db'.order /\ Recs(db, o)' # {}
               /\ \A n \in Recs(db, o)' : n <= db'.frontier
               /\ SlicesOK(db.ledger[o])'
               /\ db'.proof[o] = "active" <=> db'.ledger[o].state = "ready"
               /\ db'.proof[o] = "staging" => db'.stage.order = o
    <3>1. /\ db.ledger[o].state = "none" => db.ledger[o] = NoEntry
          /\ db.ledger[o].state # "none" => o < db.order /\ Recs(db, o) # {}
          /\ \A n \in Recs(db, o) : n <= db.frontier
          /\ SlicesOK(db.ledger[o])
          /\ db.proof[o] = "active" <=> db.ledger[o].state = "ready"
          /\ db.proof[o] = "staging" => db.stage.order = o
      BY DEF DataInv, LedgerOK
    <3>2. o \in Int /\ 0 <= o /\ db.stage.order = -1
      BY <1>5, BoundsAssumption DEF Orders, NoStage
    <3>3. Recs(db, o)' = Recs(db, o) /\ (SlicesOK(db.ledger[o])' <=> SlicesOK(db.ledger[o]))
      BY <1>20 DEF Recs, SlicesOK
    <3>4. o < db.order => o < db'.order
      BY <1>13, <1>20, <3>2
    <3>5. db'.proof[o] = "active" <=> db'.ledger[o].state = "ready"
      <4>1. CASE o = db.order
        BY <1>15, <1>20, <1>25, <4>1
      <4>2. CASE o # db.order
        BY <1>15, <1>20, <3>1, <4>2
      <4> QED BY <4>1, <4>2
    <3>6. db'.proof[o] = "staging" => db'.stage.order = o
      <4>1. CASE o = db.order
        BY <1>14, <1>20, <4>1
      <4>2. CASE o # db.order
        BY <1>15, <1>20, <3>1, <3>2, <4>2
      <4> QED BY <4>1, <4>2
    <3> QED BY <1>20, <3>1, <3>3, <3>4, <3>5, <3>6
  <2> QED BY <2>1 DEF LedgerOK
<1>28. Kept' = Kept
  BY <1>20, SameKept
<1>29. DataInv'
  BY <1>20, <1>22, <1>24, <1>26, <1>27 DEF DataInv
<1>30. LedgerStep
  BY <1>20, <1>28, StutterIs DEF Stutters
<1> QED BY <1>14, <1>16, <1>20, <1>29, <1>30

-----------------------------------------------------------------------------
(* The commit: the stage becomes an entry of the ledger.                       *)

(* A member moves over the records of the stage that continue its cursor.       *)
LEMMA ProgressIs ==
    ASSUME DataInv
    PROVE  LET new == MemberProgress(db) IN
           /\ DOMAIN new = Members
           /\ \A s \in Members : /\ new[s] \in Cursor(s)..Admitted(db, s)
                                 /\ Span(s, Cursor(s), new[s]) \subseteq Staged
<1> DEFINE new == MemberProgress(db)
<1>1. DOMAIN new = Members
  BY DEF MemberProgress, Members
<1>2. ASSUME NEW s \in Members
      PROVE  new[s] \in Cursor(s)..Admitted(db, s) /\ Span(s, Cursor(s), new[s]) \subseteq Staged
  <2> DEFINE T == {k \in Cursor(s)..Admitted(db, s) : Span(s, Cursor(s), k) \subseteq Staged}
  <2>1. s \in Sources /\ Cursor(s) \in Nat /\ Admitted(db, s) \in Nat /\ Cursor(s) <= Admitted(db, s)
    BY CohortFields, AdmittedIs DEF DataInv, MembersOK, Members, Cursor
  <2>2. T \in SUBSET (0 .. Admitted(db, s))
    BY <2>1
  <2>3. Cursor(s) \in T
    <3>1. \A n : n \notin Span(s, Cursor(s), Cursor(s))
      <4>1. First[s] \in Nat
        BY <2>1, SourceFacts
      <4> QED BY <2>1, <4>1, SpanIs
    <3> QED BY <2>1, <3>1
  <2>4. new[s] = Max(T)
    BY DEF MemberProgress, Members, Cursor, Staged
  <2>5. Max(T) \in T
    BY <2>1, <2>2, <2>3, MaxIs
  <2> QED BY <2>4, <2>5
<1> QED BY <1>1, <1>2

(* An entry that appears where there was none adds to what is public.          *)
LEMMA LedgerGrows ==
    ASSUME db \in DbType, NEW o \in Orders, db.ledger[o] = NoEntry,
           \A p \in Orders : p # o => db'.ledger[p] = db.ledger[p]
    PROVE  \A s, k : Holds(s, k) => Holds(s, k)'
<1>1. Recs(db, o) = {}
  BY DEF Recs, NoEntry
<1>2. ASSUME NEW s, NEW n, IsPublic(s, n) PROVE IsPublic(s, n)'
  <2>1. PICK p \in Orders : n \in Recs(db, p) /\ db.ledger[p].recs[n] = Variant[s]
    BY <1>2 DEF IsPublic
  <2>2. p # o
    BY <1>1, <2>1
  <2>3. n \in Recs(db, p)' /\ db'.ledger[p].recs[n] = Variant[s]
    BY <2>1, <2>2 DEF Recs
  <2> QED BY <2>3 DEF IsPublic
<1> QED BY <1>2 DEF Holds

LEMMA CommitKeeps ==
    ASSUME DataInv, NEW new, SoundCommit(new), db' = new, acked' = acked
    PROVE  /\ DataInv' /\ LedgerStep
           /\ db'.stage = NoStage /\ db'.cohort.life # "staging"
           /\ db'.proof[db.stage.order] = "active"
           /\ \A p \in Orders : p # db.stage.order => db'.ledger[p] = db.ledger[p]
           /\ db'.ledger[db.stage.order].state = "ready"
<1>1. PICK c : c = MemberProgress(db)
  OBVIOUS
<1>2. PICK o : o = db.stage.order
  OBVIOUS
<1>3. PICK G : G = Staged
  OBVIOUS
<1> DEFINE rows == Advanced(db, db.cohort.member, c)
<1> DEFINE co == CommittedCohort(db, c)
<1> DEFINE pf == [db.proof EXCEPT ![o] = "active"]
<1> DEFINE e == [state |-> "ready", recs |-> db.stage.recs, slices |-> db.stage.slices]
<1> DEFINE lg == [db.ledger EXCEPT ![o] = e]
<1>4. /\ db \in DbType /\ db.cohort.life = "staging"
      /\ o \in Orders /\ o + 1 = db.order /\ db.ledger[o] = NoEntry
      /\ db.proof[o] = "staging" /\ G # {} /\ SlicesOK(db.stage)
  BY <1>2, <1>3 DEF DataInv, SoundCommit, StageOK
<1>5. ASSUME NEW n \in G
      PROVE  /\ n > db.frontier /\ n \in Seqs
             /\ \E s \in Members : n \in Rest(db, s, db.cohort.member)
             /\ \A s \in Members : n \in Rest(db, s, db.cohort.member) => db.stage.recs[n] = Variant[s]
  BY <1>3, <1>4, StageFields DEF DataInv, StageOK, Staged
<1>6. /\ DOMAIN c = Members
      /\ \A s \in Members : /\ c[s] \in Cursor(s)..Admitted(db, s)
                            /\ Span(s, Cursor(s), c[s]) \subseteq G
  BY <1>1, <1>3, ProgressIs
<1>7. rows \in [Sources -> RowType]
  BY <1>6, AdvancedIs
<1>8. \A s \in Members : s \in Sources /\ Cursor(s) \in Nat /\ Admitted(db, s) \in Nat /\ c[s] \in Nat
                         /\ Admitted(db, s) <= Size[s] /\ c[s] \in 0..(MaxSeq + 1)
  <2>1. ASSUME NEW s \in Members
        PROVE  s \in Sources /\ Cursor(s) \in Nat /\ Admitted(db, s) \in Nat /\ c[s] \in Nat
               /\ Admitted(db, s) <= Size[s] /\ c[s] \in 0..(MaxSeq + 1)
    <3>1. s \in Sources /\ Cursor(s) \in Nat /\ Admitted(db, s) \in Nat /\ Admitted(db, s) <= Size[s]
      BY <1>4, CohortFields, AdmittedIs DEF Members, Cursor
    <3>2. Size[s] <= MaxSeq + 1 /\ Size[s] \in Nat /\ MaxSeq \in Nat
      BY <3>1, SourcesAssumption, BoundsAssumption
    <3>3. c[s] \in Cursor(s)..Admitted(db, s)
      BY <1>6
    <3> QED BY <3>1, <3>2, <3>3
  <2> QED BY <2>1
<1>9. co \in CohortType /\ (co = NoCohort \/ (co.life = "accepted" /\ co.member = c))
  <2>1. Members \in SUBSET Sources
    BY <1>8
  <2>2. c = [s \in Members |-> c[s]]
    BY <1>1 DEF MemberProgress, Members
  <2>3. c \in [Members -> 0..(MaxSeq + 1)]
    BY <1>8, <2>2
  <2>4. db.cohort.cursor + 1 \in Nat
    BY <1>4, CohortFields
  <2>5. [life |-> "accepted", cursor |-> db.cohort.cursor + 1, member |-> c] \in CohortType
    BY <2>1, <2>3, <2>4, NewCohort
  <2>6. NoCohort \in CohortType
    BY <2>1, <2>3, <2>4, NewCohort
  <2> QED BY <2>5, <2>6 DEF CommittedCohort
<1>10. pf \in [Orders -> ProofStates] /\ pf[o] = "active" /\ \A p \in Orders : p # o => pf[p] = db.proof[p]
  BY <1>4, DbFields DEF ProofStates
<1>11. e \in EntryType /\ e.state = "ready" /\ e.recs = db.stage.recs /\ e.slices = db.stage.slices
  BY <1>4, StageFields DEF EntryType
<1> HIDE DEF e
<1>12. lg \in [Orders -> EntryType] /\ lg[o] = e /\ \A p \in Orders : p # o => lg[p] = db.ledger[p]
  BY <1>4, <1>11, DbFields
<1>13. NoStage \in StageType
  <2>1. [n \in {} |-> 0] \in [{} -> Bytes] /\ {} \in SUBSET Seqs
    OBVIOUS
  <2>2. [n \in {} |-> 0] \in Projections
    BY <2>1, ProjectionIs
  <2>3. {} \in Lineages
    BY DEF Lineages
  <2> QED BY <2>2, <2>3 DEF StageType, NoStage
<1>14. PICK top : top = Max(G)
  OBVIOUS
<1>15. top \in G /\ top \in Int /\ \A n \in G : n <= top
  <2>1. G \in SUBSET (0 .. MaxSeq) /\ MaxSeq \in Nat
    BY <1>5, BoundsAssumption DEF Seqs
  <2>2. Max(G) \in G /\ \A n \in G : n <= Max(G)
    BY <1>4, <2>1, MaxIs
  <2>3. top \in G /\ \A n \in G : n <= top
    BY Zenon, <1>14, <2>2
  <2>4. \A x \in 0 .. MaxSeq : x \in Int
    BY <2>1
  <2> QED BY <2>1, <2>3, <2>4
<1>16. db' = [db EXCEPT !.proof = pf, !.ledger = lg, !.frontier = top, !.row = rows,
                        !.stage = NoStage, !.cohort = co]
  BY <1>1, <1>2, <1>3, <1>14 DEF SoundCommit, CommittedStage, Staged, e
<1>17. rows = Advanced(db, db.cohort.member, c)
  OBVIOUS
<1> HIDE DEF rows, co, pf, lg
<1>18. /\ db' \in DbType /\ db'.cohort = co /\ db'.row = rows /\ db'.stage = NoStage
       /\ db'.proof = pf /\ db'.ledger = lg /\ db'.frontier = top /\ db'.order = db.order
  BY <1>4, <1>7, <1>9, <1>10, <1>12, <1>13, <1>15, <1>16 DEF DbType
<1>19. \A s, k : Holds(s, k) => Holds(s, k)'
  BY <1>4, <1>12, <1>18, LedgerGrows
<1>20. Recs(db, o)' = G /\ db'.ledger[o].recs = db.stage.recs /\ Recs(db, o) = {}
       /\ \A p \in Orders : p # o => Recs(db, p)' = Recs(db, p)
  BY <1>3, <1>4, <1>11, <1>12, <1>18 DEF Recs, Staged, NoEntry
<1>21. \A s \in Members : Holds(s, c[s])'
  <2>1. ASSUME NEW s \in Members PROVE Holds(s, c[s])'
    <3>1. /\ s \in Sources /\ Cursor(s) \in Nat /\ c[s] \in Nat /\ Cursor(s) <= c[s]
          /\ Admitted(db, s) \in Nat /\ c[s] <= Admitted(db, s)
      BY <1>6, <1>8
    <3>2. Holds(s, Cursor(s))
      BY DEF DataInv, MembersOK
    <3>3. ASSUME NEW n \in Span(s, 0, c[s]) PROVE IsPublic(s, n)'
      <4>0. First[s] \in Nat
        BY <3>1, SourceFacts
      <4>1. n \in Int /\ First[s] + 0 <= n /\ n < First[s] + c[s]
        BY <3>1, SpanIs
      <4>2. CASE n < First[s] + Cursor(s)
        <5>1. PICK k : k = Cursor(s)
          OBVIOUS
        <5>2. Holds(s, k)'
          BY <1>19, <3>2, <5>1
        <5>3. n \in Span(s, 0, k)
          BY <3>1, <4>1, <4>2, <5>1, SpanIs
        <5> QED BY <5>2, <5>3 DEF Holds
      <4>3. CASE First[s] + Cursor(s) <= n
        <5>1. n \in Span(s, Cursor(s), c[s])
          BY <3>1, <4>1, <4>3, SpanIs
        <5>2. n \in G
          BY <1>6, <5>1
        <5>3. n \in Rest(db, s, db.cohort.member)
          <6>1. n < First[s] + Admitted(db, s)
            BY <3>1, <4>0, <4>1
          <6>2. n \in Span(s, Cursor(s), Admitted(db, s))
            BY <3>1, <4>1, <4>3, <6>1, SpanIs
          <6> QED BY <6>2 DEF Rest, Cursor
        <5>4. db.stage.recs[n] = Variant[s]
          BY <1>5, <5>2, <5>3
        <5> QED BY <1>4, <1>20, <5>2, <5>4 DEF IsPublic
      <4> QED BY <3>1, <4>0, <4>1, <4>2, <4>3
    <3> QED BY <3>3 DEF Holds
  <2> QED BY <2>1
<1>22. RowsOK' /\ MembersOK' /\ Kept' = Kept
  BY <1>6, <1>9, <1>17, <1>18, <1>19, <1>21, CursorsMove
<1>23. db'.cohort.life # "staging"
  BY <1>9, <1>18 DEF NoCohort
<1>24. StageOK'
  BY <1>18, <1>23 DEF StageOK
<1>25. LedgerOK'
  <2>1. ASSUME NEW p \in Orders
        PROVE  /\ db'.ledger[p].state = "none" => db'.ledger[p] = NoEntry
               /\ db'.ledger[p].state # "none" => p < db'.order /\ Recs(db, p)' # {}
               /\ \A n \in Recs(db, p)' : n <= db'.frontier
               /\ SlicesOK(db.ledger[p])'
               /\ db'.proof[p] = "active" <=> db'.ledger[p].state = "ready"
               /\ db'.proof[p] = "staging" => db'.stage.order = p
    <3>1. CASE p = o
      <4>1. o < db.order
        <5>1. o \in Int
          BY <1>4, BoundsAssumption DEF Orders
        <5> QED BY <1>4, <5>1, DbFields
      <4>2. SlicesOK(db.ledger[o])'
        <5>1. db'.ledger[o].recs = db.stage.recs /\ db'.ledger[o].slices = db.stage.slices
          BY <1>11, <1>12, <1>18
        <5> QED BY <1>4, <5>1 DEF SlicesOK
      <4>3. db'.ledger[o].state = "ready" /\ db'.proof[o] = "active"
        BY <1>10, <1>11, <1>12, <1>18
      <4>4. \A n \in Recs(db, o)' : n <= db'.frontier
        BY <1>15, <1>18, <1>20
      <4> QED BY <1>4, <1>18, <1>20, <3>1, <4>1, <4>2, <4>3, <4>4
    <3>2. CASE p # o
      <4>1. /\ db.ledger[p].state = "none" => db.ledger[p] = NoEntry
            /\ db.ledger[p].state # "none" => p < db.order /\ Recs(db, p) # {}
            /\ \A n \in Recs(db, p) : n <= db.frontier
            /\ SlicesOK(db.ledger[p])
            /\ db.proof[p] = "active" <=> db.ledger[p].state = "ready"
            /\ db.proof[p] = "staging" => db.stage.order = p
        BY DEF DataInv, LedgerOK
      <4>2. db'.ledger[p] = db.ledger[p] /\ db'.proof[p] = db.proof[p] /\ Recs(db, p)' = Recs(db, p)
        BY <1>10, <1>12, <1>18, <1>20, <3>2
      <4>3. SlicesOK(db.ledger[p])'
        BY <4>1, <4>2 DEF SlicesOK
      <4>4. \A n \in Recs(db, p)' : n <= db'.frontier
        <5>1. ASSUME NEW n \in Recs(db, p) PROVE n <= top
          <6>1. n \in Int /\ n <= db.frontier /\ db.frontier \in Int /\ top > db.frontier /\ top \in Int
            <7>1. n \in Seqs
              BY <1>4, EntryFields
            <7> QED BY <1>4, <1>5, <1>15, <4>1, <7>1, BoundsAssumption, DbFields DEF Seqs
          <6> QED BY <6>1
        <5> QED BY <1>18, <4>2, <5>1
      <4>5. db.proof[p] # "staging"
        BY <1>2, <3>2, <4>1
      <4> QED BY <1>18, <4>1, <4>2, <4>3, <4>4, <4>5
    <3> QED BY <3>1, <3>2
  <2> QED BY <2>1 DEF LedgerOK
<1>26. DataInv'
  BY <1>18, <1>22, <1>24, <1>25 DEF DataInv
<1>27. Ledger!Publish(o)
  <2>1. /\ Feed'[o] = {<<n, db.stage.recs[n]>> : n \in G}
        /\ \A p \in Orders : p # o => Feed'[p] = Feed[p]
        /\ Feed[o] = {} /\ DOMAIN Feed = Orders /\ DOMAIN Feed' = Orders
    BY <1>4, <1>12, <1>18, <1>20 DEF Feed
  <2>2. Feed' = [Feed EXCEPT ![o] = Feed'[o]]
    <3>1. Feed = [p \in Orders |-> Feed[p]] /\ Feed' = [p \in Orders |-> Feed'[p]]
      BY DEF Feed
    <3> QED BY <1>4, <2>1, <3>1
  <2>3. Feed'[o] # {}
    BY <1>4, <2>1
  <2>4. Feed'[o] \subseteq Kept
    <3>1. ASSUME NEW n \in G PROVE <<n, db.stage.recs[n]>> \in Kept
      <4>1. PICK s \in Members : n \in Rest(db, s, db.cohort.member)
        BY <1>5
      <4>2. s \in Sources /\ db.stage.recs[n] = Variant[s] /\ n \in Seqs
        BY <1>5, <1>8, <4>1
      <4>3. db.row[s].life \in {"sealed", "certified", "covered", "retiring"} /\ db.row[s].gone = 0
        BY DEF DataInv, MembersOK
      <4>4. s \in Present(db)
        BY <4>2, <4>3 DEF Present
      <4>5. n \in Span(s, db.row[s].gone, Size[s])
        <5>1. /\ Cursor(s) \in Nat /\ Admitted(db, s) \in Nat /\ Admitted(db, s) <= Size[s]
              /\ First[s] \in Nat /\ Size[s] \in Nat
          BY <1>8, <4>2, SourceFacts
        <5>2. n \in Int /\ First[s] + Cursor(s) <= n /\ n < First[s] + Admitted(db, s)
          BY <4>1, <4>2, <5>1, SpanIs DEF Rest, Cursor
        <5>3. First[s] + 0 <= n /\ n < First[s] + Size[s]
          BY <5>1, <5>2
        <5> QED BY <4>2, <4>3, <5>1, <5>2, <5>3, SpanIs
      <4>6. Variant[s] \in Bytes
        BY <4>2, SourceFacts
      <4>7. PICK x : x = <<n, db.stage.recs[n]>>
        OBVIOUS
      <4>8. x \in Seqs \X Bytes /\ x[1] = n /\ x[2] = Variant[s]
        BY <4>2, <4>6, <4>7
      <4> QED BY <4>4, <4>5, <4>7, <4>8 DEF Kept
    <3> QED BY <2>1, <3>1
  <2>5. ASSUME NEW p \in Orders, Feed[p] # {}
        PROVE  p < o /\ \A x \in Feed[p], y \in Feed'[o] : x[1] < y[1]
    <3>1. p # o
      BY <2>1, <2>5
    <3>2. Recs(db, p) # {}
      BY <2>5 DEF Feed
    <3>3. db.ledger[p].state # "none"
      BY <3>2 DEF DataInv, LedgerOK, Recs, NoEntry
    <3>4. p < db.order
      BY <3>3 DEF DataInv, LedgerOK
    <3>5. p < o
      <4>1. p \in Int /\ o \in Int /\ db.order \in Nat
        BY <1>4, BoundsAssumption, DbFields DEF Orders
      <4> QED BY <1>4, <3>1, <3>4, <4>1
    <3>6. ASSUME NEW x \in Feed[p], NEW y \in Feed'[o] PROVE x[1] < y[1]
      <4>1. PICK a \in Recs(db, p) : x = <<a, db.ledger[p].recs[a]>>
        BY DEF Feed
      <4>2. PICK b \in G : y = <<b, db.stage.recs[b]>>
        BY <2>1
      <4>3. a \in Int /\ b \in Int /\ db.frontier \in Int /\ a <= db.frontier /\ b > db.frontier
        <5>1. a \in Seqs /\ b \in Seqs /\ b > db.frontier
          BY <1>4, <1>5, EntryFields
        <5>2. a <= db.frontier
          BY DEF DataInv, LedgerOK
        <5> QED BY <1>4, <5>1, <5>2, BoundsAssumption, DbFields DEF Seqs
      <4>4. x[1] = a /\ y[1] = b
        BY <4>1, <4>2
      <4> QED BY <4>3, <4>4
    <3> QED BY <3>5, <3>6
  <2>6. Entries(db, "retired")' = Entries(db, "retired")
    <3>1. db'.ledger[o].state = "ready" /\ db.ledger[o].state = "none"
      BY <1>4, <1>11, <1>12, <1>18 DEF NoEntry
    <3> QED BY <1>12, <1>18, <3>1 DEF Entries
  <2> QED BY <1>22, <2>2, <2>3, <2>4, <2>5, <2>6 DEF Ledger!Publish
<1>28. LedgerStep
  BY <1>4, <1>27 DEF LedgerStep, Ledger!Next
<1> QED BY <1>2, <1>10, <1>11, <1>12, <1>18, <1>23, <1>26, <1>28

-----------------------------------------------------------------------------
(* Retirement of an acknowledged artifact, and a latched write error.          *)

LEMMA RetireKeeps ==
    ASSUME DataInv, NEW o \in Orders, o \in acked, db.ledger[o].state = "ready",
           db' = RetiredEntry(db, o), acked' = acked
    PROVE  /\ DataInv' /\ LedgerStep
           /\ db'.ledger[o].state = "retired" /\ \A p \in Orders : p # o => db'.ledger[p] = db.ledger[p]
           /\ db'.stage = db.stage /\ db'.cohort = db.cohort
<1> DEFINE e == [db.ledger[o] EXCEPT !.state = "retired"]
<1> DEFINE lg == [db.ledger EXCEPT ![o] = e]
<1> DEFINE pf == [db.proof EXCEPT ![o] = "none"]
<1>1. db \in DbType /\ db.ledger \in [Orders -> EntryType] /\ db.proof \in [Orders -> ProofStates]
      /\ db.ledger[o] \in EntryType
  BY DbFields DEF DataInv
<1>2. /\ e \in EntryType /\ e.state = "retired"
      /\ e.recs = db.ledger[o].recs /\ e.slices = db.ledger[o].slices
  BY <1>1 DEF EntryType
<1>3. db' = [db EXCEPT !.ledger = lg, !.proof = pf]
  BY DEF RetiredEntry
<1> HIDE DEF e
<1>4. lg \in [Orders -> EntryType] /\ lg[o] = e /\ \A p \in Orders : p # o => lg[p] = db.ledger[p]
  BY <1>1, <1>2
<1>5. pf \in [Orders -> ProofStates] /\ pf[o] = "none" /\ \A p \in Orders : p # o => pf[p] = db.proof[p]
  BY <1>1 DEF ProofStates
<1> HIDE DEF lg, pf
<1>6. /\ db' \in DbType /\ db'.cohort = db.cohort /\ db'.row = db.row /\ db'.stage = db.stage
      /\ db'.proof = pf /\ db'.ledger = lg /\ db'.frontier = db.frontier /\ db'.order = db.order
  BY <1>1, <1>3, <1>4, <1>5 DEF DbType
<1>7. \A p \in Orders : /\ db'.ledger[p].recs = db.ledger[p].recs
                        /\ db'.ledger[p].slices = db.ledger[p].slices
                        /\ Recs(db, p)' = Recs(db, p)
  <2>1. ASSUME NEW p \in Orders
        PROVE  db'.ledger[p].recs = db.ledger[p].recs /\ db'.ledger[p].slices = db.ledger[p].slices
    <3>1. CASE p = o
      BY <1>2, <1>4, <1>6, <3>1
    <3>2. CASE p # o
      BY <1>4, <1>6, <3>2
    <3> QED BY <3>1, <3>2
  <2> QED BY <2>1 DEF Recs
<1>8. \A s, k : Holds(s, k)' <=> Holds(s, k)
  <2>1. \A s, n : IsPublic(s, n)' <=> IsPublic(s, n)
    BY <1>7 DEF IsPublic
  <2> QED BY <2>1 DEF Holds
<1>9. RowsOK'
  BY <1>6, <1>8 DEF DataInv, RowsOK
<1>10. /\ Members' = Members /\ (\A s : Cursor(s)' = Cursor(s))
       /\ \A s : Admitted(db, s)' = Admitted(db, s)
       /\ \A s : Rest(db, s, db.cohort.member)' = Rest(db, s, db.cohort.member)
  BY <1>6 DEF Members, Cursor, Admitted, Rest
<1>11. MembersOK'
  BY <1>6, <1>8, <1>10 DEF DataInv, MembersOK
<1>12. StageOK'
  <2>1. CASE db.cohort.life # "staging"
    BY <1>6, <2>1 DEF DataInv, StageOK
  <2>2. CASE db.cohort.life = "staging"
    <3>1. db.stage.order # o
      BY <2>2 DEF DataInv, StageOK, NoEntry
    <3>2. Staged' = Staged /\ (SlicesOK(db.stage)' <=> SlicesOK(db.stage))
      BY <1>6 DEF Staged, SlicesOK
    <3>3. db.stage.order \in Orders
      BY <2>2 DEF DataInv, StageOK
    <3>4. /\ db'.ledger[db.stage.order] = db.ledger[db.stage.order]
          /\ db'.proof[db.stage.order] = db.proof[db.stage.order]
      BY <1>4, <1>5, <1>6, <3>1, <3>3
    <3> QED BY <1>6, <1>10, <2>2, <3>2, <3>4 DEF DataInv, StageOK
  <2> QED BY <2>1, <2>2
<1>13. LedgerOK'
  <2>1. ASSUME NEW p \in Orders
        PROVE  /\ db'.ledger[p].state = "none" => db'.ledger[p] = NoEntry
               /\ db'.ledger[p].state # "none" => p < db'.order /\ Recs(db, p)' # {}
               /\ \A n \in Recs(db, p)' : n <= db'.frontier
               /\ SlicesOK(db.ledger[p])'
               /\ db'.proof[p] = "active" <=> db'.ledger[p].state = "ready"
               /\ db'.proof[p] = "staging" => db'.stage.order = p
    <3>1. /\ db.ledger[p].state = "none" => db.ledger[p] = NoEntry
          /\ db.ledger[p].state # "none" => p < db.order /\ Recs(db, p) # {}
          /\ \A n \in Recs(db, p) : n <= db.frontier
          /\ SlicesOK(db.ledger[p])
          /\ db.proof[p] = "active" <=> db.ledger[p].state = "ready"
          /\ db.proof[p] = "staging" => db.stage.order = p
      BY DEF DataInv, LedgerOK
    <3>2. SlicesOK(db.ledger[p])'
      BY <1>7, <3>1 DEF SlicesOK
    <3>3. CASE p = o
      BY <1>2, <1>4, <1>5, <1>6, <1>7, <3>1, <3>2, <3>3
    <3>4. CASE p # o
      BY <1>4, <1>5, <1>6, <1>7, <3>1, <3>2, <3>4
    <3> QED BY <3>3, <3>4
  <2> QED BY <2>1 DEF LedgerOK
<1>14. DataInv'
  BY <1>6, <1>9, <1>11, <1>12, <1>13 DEF DataInv
<1>15. Kept' = Kept
  BY <1>6, SameKept
<1>16. Feed' = Feed /\ Feed[o] # {}
  <2>1. Recs(db, o) # {}
    BY DEF DataInv, LedgerOK
  <2> QED BY <1>7, <2>1 DEF Feed
<1>17. Entries(db, "retired")' = Entries(db, "retired") \cup {o}
  <2>1. db'.ledger[o].state = "retired"
    BY <1>2, <1>4, <1>6
  <2> QED BY <1>4, <1>6, <2>1 DEF Entries
<1>18. Ledger!Retire(o)
  BY <1>15, <1>16, <1>17 DEF Ledger!Retire
<1> QED BY <1>2, <1>4, <1>6, <1>14, <1>18 DEF LedgerStep, Ledger!Next

LEMMA LatchKeeps ==
    ASSUME DataInv, NEW eio \in BOOLEAN, db.cohort.life = "staging", acked' = acked,
           db' = [db EXCEPT !.stage = [@ EXCEPT !.latched = eio]]
    PROVE  /\ DataInv' /\ LedgerStep /\ db'.ledger = db.ledger /\ db'.cohort = db.cohort
           /\ db'.stage.latched = eio /\ db'.stage.order = db.stage.order
<1> DEFINE st == [db.stage EXCEPT !.latched = eio]
<1>1. db \in DbType /\ db.stage \in StageType
  BY DbFields DEF DataInv
<1>2. /\ st \in StageType /\ st.latched = eio /\ st.order = db.stage.order /\ st.base = db.stage.base
      /\ st.recs = db.stage.recs /\ st.slices = db.stage.slices
  BY <1>1 DEF StageType
<1>3. db' = [db EXCEPT !.stage = st]
  OBVIOUS
<1> HIDE DEF st
<1>4. /\ db' \in DbType /\ db'.cohort = db.cohort /\ db'.row = db.row /\ db'.stage = st
      /\ db'.proof = db.proof /\ db'.ledger = db.ledger /\ db'.frontier = db.frontier
      /\ db'.order = db.order
  BY <1>1, <1>2, <1>3 DEF DbType
<1>5. \A s, k : Holds(s, k)' <=> Holds(s, k)
  BY <1>4, SameLedger
<1>6. RowsOK'
  BY <1>4, <1>5 DEF DataInv, RowsOK
<1>7. /\ Members' = Members /\ (\A s : Cursor(s)' = Cursor(s))
      /\ \A s : Admitted(db, s)' = Admitted(db, s)
      /\ \A s : Rest(db, s, db.cohort.member)' = Rest(db, s, db.cohort.member)
  BY <1>4 DEF Members, Cursor, Admitted, Rest
<1>8. MembersOK'
  BY <1>4, <1>5, <1>7 DEF DataInv, MembersOK
<1>9. StageOK'
  <2>1. Staged' = Staged /\ (SlicesOK(db.stage)' <=> SlicesOK(db.stage))
    BY <1>2, <1>4 DEF Staged, SlicesOK
  <2> QED BY <1>2, <1>4, <1>7, <2>1 DEF DataInv, StageOK
<1>10. LedgerOK'
  BY <1>2, <1>4, SameLedgerOK DEF DataInv
<1>11. Kept' = Kept
  BY <1>4, SameKept
<1> QED BY <1>2, <1>4, <1>6, <1>8, <1>9, <1>10, <1>11, StutterIs DEF DataInv, Stutters
-----------------------------------------------------------------------------
(* A sound proposal that is applied.                                          *)

LEMMA SoundKeeps ==
    ASSUME DataInv, NEW kind, NEW about, NEW new, Sound(kind, about, new), db' = new, acked' = acked
    PROVE  DataInv' /\ LedgerStep
<1>1. CASE kind = "accept" /\ SoundAccept(new)
  BY <1>1, AcceptKeeps
<1>2. CASE kind = "stage" /\ SoundStage(new)
  BY <1>2, StageKeeps
<1>3. CASE kind = "commit" /\ SoundCommit(new)
  BY <1>3, CommitKeeps
<1>4. CASE kind = "custody" /\ SoundCustody(new)
  BY <1>4, CustodyKeeps
<1>5. CASE kind = "cover" /\ SoundCover(about, new)
  BY <1>5, CoverKeeps DEF SoundCover
<1>6. CASE kind = "block" /\ SoundBlock(about, new)
  BY <1>6, BlockKeeps DEF SoundBlock
<1>7. CASE kind = "raw" /\ SoundRaw(about, new)
  BY <1>7, RawKeeps DEF SoundRaw
<1> QED BY <1>1, <1>2, <1>3, <1>4, <1>5, <1>6, <1>7 DEF Sound

(* What an inspection looks for in the proposal itself.                        *)
LEMMA ProposalFields ==
    ASSUME DataInv, NEW new
    PROVE  /\ SoundStage(new) => new.cohort.life = "staging" /\ ~new.stage.latched
           /\ SoundCommit(new) => /\ new.stage = NoStage /\ new.cohort.life # "staging"
                                  /\ new.proof[db.stage.order] = "active"
<1>1. db \in DbType /\ db.cohort \in CohortType /\ db.proof \in [Orders -> ProofStates]
  BY DbFields DEF DataInv
<1>2. ASSUME SoundStage(new) PROVE new.cohort.life = "staging" /\ ~new.stage.latched
  <2> DEFINE G == NextGroup(Unique(db, db.cohort.member))
  <2> DEFINE st == [order |-> db.order, base |-> db.frontier, latched |-> FALSE,
                    recs |-> Frozen(db, db.cohort.member, G), slices |-> Slices(db, db.cohort.member, G)]
  <2> DEFINE pf == [db.proof EXCEPT ![db.order] = "staging"]
  <2>1. /\ new = [db EXCEPT !.stage = st, !.proof = pf,
                            !.cohort = [db.cohort EXCEPT !.life = "staging"], !.order = db.order + 1]
        /\ ~st.latched
    BY <1>2 DEF SoundStage, ReservedStage
  <2> HIDE DEF st, pf
  <2>2. [db.cohort EXCEPT !.life = "staging"].life = "staging"
    BY <1>1 DEF CohortType
  <2>3. new.stage = st /\ new.cohort = [db.cohort EXCEPT !.life = "staging"]
    BY <1>1, <2>1 DEF DbType
  <2> QED BY <2>1, <2>2, <2>3
<1>3. ASSUME SoundCommit(new)
      PROVE  /\ new.stage = NoStage /\ new.cohort.life # "staging"
             /\ new.proof[db.stage.order] = "active"
  <2>1. db.stage.order \in Orders
    BY <1>3 DEF DataInv, StageOK, SoundCommit
  <2>2. PICK pf, lg, fr, rows, co :
          /\ new = [db EXCEPT !.proof = pf, !.ledger = lg, !.frontier = fr, !.row = rows,
                              !.stage = NoStage, !.cohort = co]
          /\ pf = [db.proof EXCEPT ![db.stage.order] = "active"]
          /\ co = CommittedCohort(db, MemberProgress(db))
    BY <1>3 DEF SoundCommit, CommittedStage
  <2>3. pf[db.stage.order] = "active"
    BY <1>1, <2>1, <2>2
  <2>4. co.life # "staging"
    BY <2>2 DEF CommittedCohort, NoCohort
  <2>5. new.stage = NoStage /\ new.cohort = co /\ new.proof = pf
    BY <1>1, <2>2 DEF DbType
  <2> QED BY <2>3, <2>4, <2>5
<1> QED BY <1>2, <1>3

LEMMA SameSound ==
    ASSUME db' = db, NEW kind, NEW about, NEW new
    PROVE  Sound(kind, about, new)' <=> Sound(kind, about, new)
<1>1. CohortClash' <=> CohortClash
  BY DEF CohortClash
<1>2. BehindFrontier(Unique(db, db.cohort.member))' <=> BehindFrontier(Unique(db, db.cohort.member))
  BY DEF BehindFrontier
<1> QED
  BY <1>1, <1>2 DEF Sound, SoundAccept, SoundStage, SoundCommit, SoundCustody, SoundCover, SoundBlock,
     SoundRaw, Members

LEMMA SameData ==
    ASSUME DataInv, db' = db
    PROVE  DataInv' /\ Kept' = Kept /\ (acked' = acked => LedgerStep)
<1>1. \A s, k : Holds(s, k)' <=> Holds(s, k)
  BY SameLedger
<1>2. RowsOK'
  BY <1>1 DEF DataInv, RowsOK
<1>3. /\ Members' = Members /\ (\A s : Cursor(s)' = Cursor(s)) /\ Staged' = Staged
      /\ \A s : Admitted(db, s)' = Admitted(db, s)
      /\ \A s : Rest(db, s, db.cohort.member)' = Rest(db, s, db.cohort.member)
      /\ SlicesOK(db.stage)' <=> SlicesOK(db.stage)
  BY DEF Members, Cursor, Staged, Admitted, Rest, SlicesOK
<1>4. MembersOK'
  BY <1>1, <1>3 DEF DataInv, MembersOK
<1>5. StageOK'
  BY <1>3 DEF DataInv, StageOK
<1>6. LedgerOK'
  BY SameLedgerOK DEF DataInv
<1>7. Kept' = Kept
  BY SameKept
<1> QED BY <1>2, <1>4, <1>5, <1>6, <1>7, StutterIs DEF DataInv, Stutters

-----------------------------------------------------------------------------
(* Ambiguous commits.                                                         *)

(* An inspection that can read never meets a third state, and takes the         *)
(* proposed one for what it is.                                               *)
LEMMA InspectedIs ==
    ASSUME DataInv, Doubt, txn.kind = "commit" => ReadySource(txn.old.stage.order)
    PROVE  /\ Inspected \in {"proposed", "old"}
           /\ Inspected = "old" => db = txn.old /\ Sound(txn.kind, txn.about, txn.new)
           /\ txn.kind = "stage" /\ Inspected = "proposed" => db.cohort.life = "staging" /\ ~db.stage.latched
<1>1. ASSUME db = txn.new PROVE Inspected = "proposed"
  <2>1. CASE txn.kind = "accept"
    BY <1>1, <2>1 DEF Inspected, InspectCohort, Third
  <2>2. CASE txn.kind = "stage"
    BY <1>1, <2>2 DEF Inspected, InspectStage, Third, Doubt
  <2>3. CASE txn.kind = "commit"
    <3>1. ReadySource(txn.old.stage.order)
      BY <2>3
    <3> QED BY <1>1, <2>3, <3>1 DEF Inspected, InspectCommit, Third, Doubt
  <2>4. CASE txn.kind = "custody"
    BY <1>1, <2>4 DEF Inspected, InspectCustody, Third
  <2>5. CASE txn.kind = "cover"
    BY <1>1, <2>5 DEF Inspected, InspectSource, Third
  <2>6. CASE txn.kind = "block"
    BY <1>1, <2>6 DEF Inspected, InspectConflict, InspectSource, Third
  <2>7. CASE txn.kind = "raw"
    BY <1>1, <2>7 DEF Inspected, InspectRetirement, InspectSource, Third
  <2> QED BY <2>1, <2>2, <2>3, <2>4, <2>5, <2>6, <2>7 DEF Doubt, Kinds
<1>2. ASSUME db = txn.old, Sound(txn.kind, txn.about, txn.new)
      PROVE  /\ Inspected \in {"proposed", "old"}
             /\ txn.kind = "stage" => Inspected # "proposed"
  <2>1. CASE txn.kind = "accept"
    <3>1. db.cohort = NoCohort
      BY <1>2, <2>1, NoMembers DEF Sound, SoundAccept
    <3> QED BY <2>1, <3>1 DEF Inspected, InspectCohort, Third
  <2>2. CASE txn.kind = "stage"
    <3>1. db.cohort.life # "staging"
      BY <1>2, <2>2 DEF Sound, SoundStage
    <3> QED BY <1>2, <2>2, <3>1 DEF Inspected, InspectStage, Third
  <2>3. CASE txn.kind = "commit"
    <3>1. db.cohort.life = "staging"
      BY <1>2, <2>3 DEF Sound, SoundCommit
    <3>2. db.ledger[db.stage.order] = NoEntry /\ db.proof[db.stage.order] = "staging"
      BY <3>1 DEF DataInv, StageOK
    <3>3. ReadySource(txn.old.stage.order)
      BY <2>3
    <3> QED BY <1>2, <2>3, <3>2, <3>3 DEF Inspected, InspectCommit, Third
  <2>4. CASE txn.kind = "custody"
    BY <1>2, <2>4 DEF Inspected, InspectCustody, Third
  <2>5. CASE txn.kind = "cover"
    BY <1>2, <2>5 DEF Inspected, InspectSource, Third
  <2>6. CASE txn.kind = "block"
    BY <1>2, <2>6 DEF Inspected, InspectConflict, InspectSource, Third
  <2>7. CASE txn.kind = "raw"
    BY <1>2, <2>7 DEF Inspected, InspectRetirement, InspectSource, Third
  <2> QED BY <2>1, <2>2, <2>3, <2>4, <2>5, <2>6, <2>7 DEF Doubt, Kinds
<1>3. CASE db = txn.new
  BY <1>1, <1>3 DEF Doubt
<1>4. CASE db # txn.new
  BY <1>2, <1>4 DEF Doubt
<1> QED BY <1>3, <1>4

LEMMA AttemptKeeps ==
    ASSUME LedgerInv, NEW kind \in Kinds, NEW about, NEW new, NEW attempt, Sound(kind, about, new),
           Attempt([kind |-> kind, new |-> new, old |-> db, attempt |-> attempt, about |-> about])
    PROVE  LedgerInv' /\ LedgerStep
<1> DEFINE t == [kind |-> kind, new |-> new, old |-> db, attempt |-> attempt, about |-> about]
<1>0. DataInv /\ ControlOK /\ kind # "retire"
  BY DEF LedgerInv, Kinds
<1>1. /\ t.kind = kind /\ t.new = new /\ t.old = db /\ t.attempt = attempt /\ t.about = about
      /\ t = [kind |-> t.kind, new |-> t.new, old |-> t.old, attempt |-> t.attempt, about |-> t.about]
  OBVIOUS
<1>2. /\ kind = "stage" => new.cohort.life = "staging" /\ ~new.stage.latched
      /\ kind = "commit" => /\ new.stage = NoStage /\ new.cohort.life # "staging"
                            /\ new.proof[db.stage.order] = "active"
  BY <1>0, ProposalFields DEF Sound
<1>3. Attempt(t)
  OBVIOUS
<1> HIDE DEF t
<1>4. CASE db' = t.new /\ Applied(t) /\ UNCHANGED <<outside, stop>>
  <2>1. db' = new /\ acked' = acked /\ batch' = batch /\ stop' = stop
    BY <1>1, <1>4 DEF outside
  <2>2. DataInv' /\ LedgerStep
    BY <1>0, <2>1, SoundKeeps
  <2>3. /\ pc' \in {"decide", "files", "finish", "idle"}
        /\ pc' = "files" => kind = "stage"
    BY <1>0, <1>1, <1>4 DEF Applied, After, Kinds
  <2>4. ControlOK'
    BY <1>0, <1>2, <2>1, <2>3 DEF ControlOK
  <2> QED BY <2>2, <2>4 DEF LedgerInv
<1>5. CASE /\ db' \in {db, t.new} /\ Enter("inspect") /\ txn' = t /\ UNCHANGED <<recovered, batch>>
           /\ UNCHANGED <<files, acked, permit, stop>>
  <2>1. /\ db' \in {db, new} /\ acked' = acked /\ batch' = batch /\ stop' = stop
        /\ pc' = "inspect" /\ txn' = t
    BY <1>1, <1>5 DEF Enter
  <2>2. CASE db' = new
    <3>1. DataInv' /\ LedgerStep
      BY <1>0, <2>1, <2>2, SoundKeeps
    <3>2. Doubt'
      BY <1>1, <1>2, <2>1, <2>2 DEF Doubt
    <3>3. ControlOK'
      BY <1>0, <2>1, <3>2 DEF ControlOK
    <3> QED BY <3>1, <3>3 DEF LedgerInv
  <2>3. CASE db' = db
    <3>1. DataInv' /\ LedgerStep
      BY <1>0, <2>1, <2>3, SameData
    <3>2. Sound(kind, about, new)'
      BY <2>3, SameSound
    <3>3. Doubt'
      BY <1>1, <1>2, <2>1, <2>3, <3>2 DEF Doubt
    <3>4. ControlOK'
      BY <1>0, <2>1, <3>3 DEF ControlOK
    <3> QED BY <3>1, <3>4 DEF LedgerInv
  <2> QED BY <2>1, <2>2, <2>3
<1> QED BY <1>0, <1>1, <1>3, <1>4, <1>5 DEF Attempt

Proposes(K) == \E kind \in K : \E about, new : Sound(kind, about, new) /\ Propose(kind, about, new)

LEMMA ProposeKeeps ==
    ASSUME LedgerInv, Proposes(Kinds)
    PROVE  LedgerInv' /\ LedgerStep
<1>1. PICK kind, about, new : kind \in Kinds /\ Sound(kind, about, new) /\ Propose(kind, about, new)
  BY DEF Proposes
<1> QED BY <1>1, AttemptKeeps DEF Propose
-----------------------------------------------------------------------------
(* The actions that propose.                                                  *)

LEMMA ReplayProposes ==
    ASSUME LedgerInv, CoverReplay \/ BlockConflict
    PROVE  Proposes({"cover", "block"})
<1>1. Admissions(db) \subseteq Sources /\ \A s \in Admissions(db) : Admissible(db, s)
  BY DEF Admissions
<1>2. CASE CoverReplay
  <2>1. PICK s : s = Earliest(Undecided)
    OBVIOUS
  <2>2. Undecided \in SUBSET Sources /\ Undecided # {} /\ Undecided \subseteq Admissions(db)
    BY <1>1, <1>2 DEF CoverReplay, Undecided
  <2>3. s \in Sources /\ Admissible(db, s)
    BY <1>1, <2>1, <2>2, EarliestIs
  <2>4. db.cohort.life = "none"
    BY <1>2 DEF CoverReplay, Deciding
  <2>5. CASE FullyProven(db, s)
    <3>1. PICK new : new = CoveredReplay(db, s)
      OBVIOUS
    <3>2. Propose("cover", s, new)
      BY <1>2, <2>1, <2>5, <3>1 DEF CoverReplay
    <3>3. Sound("cover", s, new)
      BY <2>3, <2>4, <2>5, <3>1 DEF Sound, SoundCover
    <3> QED BY <3>2, <3>3 DEF Proposes
  <2>6. CASE ~FullyProven(db, s)
    <3>1. PICK new : new = BlockedSource(db, s)
      OBVIOUS
    <3>2. Propose("block", s, new)
      BY <1>2, <2>1, <2>6, <3>1 DEF CoverReplay
    <3>3. Sound("block", s, new)
      BY <2>3, <2>4, <3>1 DEF Sound, SoundBlock
    <3> QED BY <3>2, <3>3 DEF Proposes
  <2> QED BY <2>5, <2>6
<1>3. CASE BlockConflict
  <2> DEFINE clash == Clashing(Zero(Admissions(db)))
  <2>1. PICK s : s = Earliest(clash)
    OBVIOUS
  <2>2. clash \in SUBSET Sources /\ clash # {} /\ clash \subseteq Admissions(db)
    BY <1>1, <1>3 DEF BlockConflict, Clashing, Zero
  <2>3. s \in Sources /\ Admissible(db, s)
    BY <1>1, <2>1, <2>2, EarliestIs
  <2>4. db.cohort.life = "none"
    BY <1>3 DEF BlockConflict, Normalizing, Deciding
  <2>5. PICK new : new = BlockedSource(db, s)
    OBVIOUS
  <2>6. Propose("block", s, new)
    BY <1>3, <2>1, <2>5 DEF BlockConflict
  <2>7. Sound("block", s, new)
    BY <2>3, <2>4, <2>5 DEF Sound, SoundBlock
  <2> QED BY <2>6, <2>7 DEF Proposes
<1> QED BY <1>2, <1>3

LEMMA CohortProposes ==
    ASSUME LedgerInv
    PROVE  /\ Accept \/ AdvanceCustody \/ Reserve => Proposes({"accept", "custody", "stage"})
           /\ ProposeCommit => Proposes({"commit"})
<1>1. ASSUME Accept PROVE Proposes({"accept", "custody", "stage"})
  <2>1. PICK new : new = AcceptedCohort(db)
    OBVIOUS
  <2>2. Propose("accept", 0, new) /\ db.cohort.life = "none"
    BY <1>1, <2>1 DEF Accept, Normalized, Normalizing, Deciding
  <2>3. Admissions(db) \in SUBSET {s \in Sources : Admissible(db, s)}
    BY DEF Admissions
  <2>4. SoundAccept(new)
    BY <2>1, <2>2, <2>3 DEF SoundAccept, AcceptedCohort
  <2> QED BY <2>2, <2>4 DEF Proposes, Sound
<1>2. ASSUME AdvanceCustody PROVE Proposes({"accept", "custody", "stage"})
  <2>1. PICK new : new = AdvancedCustody(db)
    OBVIOUS
  <2>2. Propose("custody", 0, new) /\ SoundCustody(new)
    BY <1>2, <2>1 DEF AdvanceCustody, Deciding, SoundCustody
  <2> QED BY <2>2 DEF Proposes, Sound
<1>3. ASSUME Reserve PROVE Proposes({"accept", "custody", "stage"})
  <2>1. PICK new : new = ReservedStage(db)
    OBVIOUS
  <2>2. Propose("stage", 0, new) /\ SoundStage(new)
    BY <1>3, <2>1 DEF Reserve, ReadyToReserve, Deciding, SoundStage
  <2> QED BY <2>2 DEF Proposes, Sound
<1>4. ASSUME ProposeCommit PROVE Proposes({"commit"})
  <2>1. PICK new : new = CommittedStage(db)
    OBVIOUS
  <2>2. Propose("commit", 0, new) /\ SoundCommit(new)
    BY <1>4, <2>1 DEF ProposeCommit, OwnsCommit, SoundCommit
  <2> QED BY <2>2 DEF Proposes, Sound
<1> QED BY <1>1, <1>2, <1>3, <1>4

LEMMA RawProposes ==
    ASSUME LedgerInv, RetireRaw
    PROVE  Proposes({"raw"})
<1>1. PICK s : s = NextDeletable
  OBVIOUS
<1> DEFINE paged == {t \in Deletable : db.row[t].gone < Size[t]}
<1> DEFINE from == IF paged # {} THEN paged ELSE Deletable
<1>2. from \subseteq Deletable /\ from # {} /\ Deletable \subseteq Sources
  BY DEF RetireRaw, Deletable
<1>3. s = CHOOSE x \in from : \A t \in from : Rank[x] <= Rank[t]
  BY <1>1 DEF NextDeletable
<1> HIDE DEF from
<1>4. s \in from
  <2> DEFINE Q == {Rank[t] : t \in from}
  <2>1. Q \subseteq Nat /\ Q # {} /\ (\A t \in from : Rank[t] \in Q) /\ \A e \in Q : \E t \in from : Rank[t] = e
    BY <1>2, SourcesAssumption
  <2> HIDE DEF Q
  <2>2. PICK r \in Q : \A g \in Q : r <= g
    BY <2>1, Least
  <2>3. PICK x \in from : Rank[x] = r
    BY <2>1
  <2>4. \E y \in from : \A t \in from : Rank[y] <= Rank[t]
    BY <2>1, <2>2, <2>3
  <2> QED BY <1>3, <2>4
<1>5. s \in Sources /\ db.row[s].life = "retiring" /\ s \notin Members
  BY <1>2, <1>4 DEF Deletable, Members
<1>6. PICK new : new = IF db.row[s].gone < Size[s] THEN RetiredPage(db, s) ELSE RemovedSource(db, s)
  OBVIOUS
<1>7. Propose("raw", s, new)
  BY <1>1, <1>6 DEF RetireRaw
<1>8. Sound("raw", s, new)
  BY <1>5, <1>6 DEF Sound, SoundRaw
<1> QED BY <1>7, <1>8 DEF Proposes

LEMMA RetryProposes ==
    ASSUME LedgerInv, Destined, InspectOld
    PROVE  \E kind \in Kinds : \E about, new :
              /\ kind = txn.kind /\ Sound(kind, about, new)
              /\ Attempt([kind |-> kind, new |-> new, old |-> db, attempt |-> 1, about |-> about])
<1>1. pc = "inspect" /\ Inspected = "old" /\ Attempt([txn EXCEPT !.attempt = 1])
  BY DEF InspectOld
<1>2. Doubt /\ DataInv
  BY <1>1 DEF LedgerInv, ControlOK
<1>3. db = txn.old /\ Sound(txn.kind, txn.about, txn.new) /\ txn.kind \in Kinds
  BY <1>1, <1>2, InspectedIs DEF Doubt, Destined, ReadySource
<1>4. PICK kind, about, new : kind = txn.kind /\ about = txn.about /\ new = txn.new
  OBVIOUS
<1>5. txn = [kind |-> kind, new |-> new, old |-> db, attempt |-> txn.attempt, about |-> about]
  BY <1>2, <1>3, <1>4 DEF Doubt
<1>6. [txn EXCEPT !.attempt = 1] = [kind |-> kind, new |-> new, old |-> db, attempt |-> 1, about |-> about]
  BY <1>5
<1>7. Attempt([kind |-> kind, new |-> new, old |-> db, attempt |-> 1, about |-> about])
  BY <1>1, <1>6
<1> QED BY <1>3, <1>4, <1>7

LEMMA RecordKeeps ==
    ASSUME LedgerInv, NEW o \in Orders, RecordRetirement(o)
    PROVE  LedgerInv' /\ LedgerStep
<1>0. DataInv /\ ControlOK
  BY DEF LedgerInv
<1>1. pc = "record" /\ o \in acked /\ db.ledger[o].state = "ready"
  BY <1>0 DEF RecordRetirement, ControlOK
<1>2. /\ acked' = acked /\ stop' = stop
      /\ db' = db \/ db' = RetiredEntry(db, o)
      /\ \/ pc' = "remove" /\ batch' = batch
         \/ pc' = "idle" /\ (batch' = batch \/ batch' = {})
  BY DEF RecordRetirement, Propose, Attempt, Applied, After, Enter, outside
<1>3. DataInv' /\ LedgerStep
  BY <1>0, <1>1, <1>2, RetireKeeps, SameData
<1>4. ControlOK'
  BY <1>0, <1>1, <1>2 DEF ControlOK
<1> QED BY <1>3, <1>4 DEF LedgerInv

-----------------------------------------------------------------------------
(* Every other action leaves the database alone.                              *)

Materializing == {"files", "writing", "sync", "commit"}

Quiet ==
    /\ db' = db /\ acked' = acked
    /\ stop' # "third"
    /\ pc' = "inspect" => pc = "inspect" /\ txn' = txn
    /\ pc' \in Materializing => db.cohort.life = "staging" /\ ~db.stage.latched
    /\ batch' \in {batch, {}, acked}

LEMMA SameDoubt ==
    ASSUME db' = db, txn' = txn, Doubt
    PROVE  Doubt'
<1>1. PICK kind, about, new : kind = txn.kind /\ about = txn.about /\ new = txn.new
  OBVIOUS
<1>2. Sound(kind, about, new)' <=> Sound(kind, about, new)
  BY SameSound
<1> QED BY <1>1, <1>2 DEF Doubt

LEMMA QuietKeeps ==
    ASSUME LedgerInv, Quiet
    PROVE  LedgerInv' /\ LedgerStep
<1>0. DataInv /\ ControlOK
  BY DEF LedgerInv
<1>1. DataInv' /\ LedgerStep
  BY <1>0, SameData DEF Quiet
<1>2. pc' = "inspect" => Doubt'
  BY <1>0, SameDoubt DEF Quiet, ControlOK
<1>3. ControlOK'
  BY <1>0, <1>2 DEF Quiet, ControlOK, Materializing
<1> QED BY <1>1, <1>3 DEF LedgerInv

LEMMA AcknowledgeKeeps ==
    ASSUME LedgerInv, NEW o \in Orders, Acknowledge(o)
    PROVE  LedgerInv' /\ LedgerStep
<1>0. DataInv /\ ControlOK
  BY DEF LedgerInv
<1>1. db' = db /\ txn' = txn /\ pc' = pc /\ batch' = batch /\ stop' = stop /\ acked' = acked \cup {o}
  BY DEF Acknowledge
<1>2. DataInv' /\ Kept' = Kept
  BY <1>0, <1>1, SameData
<1>3. Feed' = Feed /\ Entries(db, "retired")' = Entries(db, "retired")
  BY <1>1, SameLedger
<1>4. LedgerStep
  BY <1>1, <1>2, <1>3 DEF LedgerStep, Ledger!Next, Ledger!Acknowledge
<1>5. pc' = "inspect" => Doubt'
  BY <1>0, <1>1, SameDoubt DEF ControlOK
<1>6. ControlOK'
  BY <1>0, <1>1, <1>5 DEF ControlOK
<1> QED BY <1>2, <1>4, <1>6 DEF LedgerInv

LEMMA OutsideKeeps ==
    ASSUME LedgerInv, Environment
    PROVE  LedgerInv' /\ LedgerStep
<1>0. DataInv /\ ControlOK
  BY DEF LedgerInv
<1>1. ASSUME NEW s \in Sources, Seal(s) \/ Certify(s)
      PROVE  LedgerInv' /\ LedgerStep
  <2>1. DataInv' /\ LedgerStep
    BY <1>0, <1>1, SealKeeps, CertifyKeeps
  <2>2. pc' = "idle" /\ acked' = acked /\ batch' = batch /\ stop' = stop
    BY <1>1 DEF Seal, Certify, Idle, outside
  <2>3. ControlOK'
    BY <1>0, <2>2 DEF ControlOK
  <2> QED BY <2>1, <2>3 DEF LedgerInv
<1>2. ASSUME NEW o \in Orders, Acknowledge(o)
      PROVE  LedgerInv' /\ LedgerStep
  BY <1>2, AcknowledgeKeeps
<1>3. CASE Close
  <2>1. Quiet
    BY <1>0, <1>3 DEF Quiet, Materializing, Close, Idle, ControlOK
  <2> QED BY <2>1, QuietKeeps
<1>4. CASE ProcessCrash \/ PowerLoss
  <2>1. Quiet
    BY <1>0, <1>4 DEF Quiet, Materializing, ProcessCrash, PowerLoss, Restart, ControlOK
  <2> QED BY <2>1, QuietKeeps
<1> QED BY <1>1, <1>2, <1>3, <1>4 DEF Environment

(* The decisions that only end the call.                                      *)
Answers ==
    WaitForDrain \/ SourcesClash \/ FrontierRefuses \/ WaitForThreshold \/ StageBlocked \/ FinishPublish

LEMMA AnswersOutcome ==
    ASSUME Answers
    PROVE  pc \in {"decide", "finish"} /\ \E b : Outcome(b)
BY DEF Answers, WaitForDrain, SourcesClash, FrontierRefuses, WaitForThreshold, Normalized, Normalizing,
       StageBlocked, FinishPublish, Deciding

LEMMA DecideKeeps ==
    ASSUME LedgerInv, Calls \/ Decide
    PROVE  LedgerInv' /\ LedgerStep
<1>0. DataInv /\ ControlOK
  BY DEF LedgerInv
<1>1. CASE StartPublish \/ StartRetire
  <2>1. Quiet
    BY <1>0, <1>1 DEF Quiet, Materializing, StartPublish, StartRetire, Idle, ControlOK, outside
  <2> QED BY <2>1, QuietKeeps
<1>2. CASE RetireRaw
  <2>1. Proposes(Kinds)
    BY <1>2, RawProposes DEF Proposes, Kinds
  <2> QED BY <2>1, ProposeKeeps
<1>3. CASE CheckAck
  <2>1. Quiet
    BY <1>0, <1>3 DEF Quiet, Materializing, CheckAck, Goto, Enter, ControlOK, outside
  <2> QED BY <2>1, QuietKeeps
<1>4. CASE Answers
  <2>1. \E b : Outcome(b)
    BY <1>4, AnswersOutcome
  <2>2. Quiet
    BY <1>0, <2>1 DEF Quiet, Materializing, Outcome, Goto, Enter, ControlOK
  <2> QED BY <2>2, QuietKeeps
<1>5. CASE CoverReplay \/ BlockConflict
  <2>1. Proposes(Kinds)
    BY <1>5, ReplayProposes DEF Proposes, Kinds
  <2> QED BY <2>1, ProposeKeeps
<1>6. CASE Accept \/ AdvanceCustody \/ Reserve \/ ProposeCommit
  <2>1. Proposes(Kinds)
    BY <1>6, CohortProposes DEF Proposes, Kinds
  <2> QED BY <2>1, ProposeKeeps
<1>7. CASE CohortConflict
  <2>1. Quiet
    BY <1>0, <1>7 DEF Quiet, Materializing, CohortConflict, Enter, ControlOK, outside
  <2> QED BY <2>1, QuietKeeps
<1>8. CASE LoadStage
  <2>1. Quiet
    BY <1>0, <1>8 DEF Quiet, Materializing, LoadStage, Deciding, Goto, Enter, ControlOK, outside
  <2> QED BY <2>1, QuietKeeps
<1> QED BY <1>1, <1>2, <1>3, <1>4, <1>5, <1>6, <1>7, <1>8 DEF Calls, Decide, Answers

LEMMA MaterializeKeeps ==
    ASSUME LedgerInv, Materialize
    PROVE  LedgerInv' /\ LedgerStep
<1>1. pc \in Materializing /\ pc' \in Materializing
  BY DEF Materialize, ReuseDestination, DiscardScratch, BeginWrite, FinishWrite, Rename, SyncParent,
         Goto, Enter, Materializing
<1>2. db' = db /\ acked' = acked /\ batch' = batch /\ stop' = stop
  BY DEF Materialize, ReuseDestination, DiscardScratch, BeginWrite, FinishWrite, Rename, SyncParent,
         Goto, SetMine, SetFiles
<1>3. Quiet
  BY <1>1, <1>2 DEF Quiet, Materializing, LedgerInv, ControlOK
<1> QED BY <1>3, QuietKeeps

LEMMA RetiringKeeps ==
    ASSUME LedgerInv, Retiring
    PROVE  LedgerInv' /\ LedgerStep
<1>0. ControlOK
  BY DEF LedgerInv
<1>1. ASSUME NEW o \in Orders, RemoveFile(o)
      PROVE  LedgerInv' /\ LedgerStep
  <2>1. Quiet
    BY <1>0, <1>1 DEF Quiet, Materializing, RemoveFile, Doomed, SetFiles, Goto, Enter, ControlOK
  <2> QED BY <2>1, QuietKeeps
<1>2. ASSUME NEW o \in Orders, RecordRetirement(o)
      PROVE  LedgerInv' /\ LedgerStep
  BY <1>2, RecordKeeps
<1>3. CASE ResumeDone \/ Removed
  <2>1. Quiet
    BY <1>0, <1>3 DEF Quiet, Materializing, ResumeDone, Removed, Goto, Enter, ControlOK, outside
  <2> QED BY <2>1, QuietKeeps
<1>5. CASE SyncRemoved
  <2>1. Quiet
    BY <1>0, <1>5 DEF Quiet, Materializing, SyncRemoved, SetFiles, Goto, Enter, ControlOK
  <2> QED BY <2>1, QuietKeeps
<1>4. CASE Preflight \/ ConfirmBatch
  <2>1. Quiet
    BY <1>0, <1>4 DEF Quiet, Materializing, Preflight, ConfirmBatch, Goto, Enter, ControlOK
  <2> QED BY <2>1, QuietKeeps
<1> QED BY <1>1, <1>2, <1>3, <1>4, <1>5 DEF Retiring

LEMMA TransactKeeps ==
    ASSUME LedgerInv, Destined, Transact
    PROVE  LedgerInv' /\ LedgerStep
<1>0. DataInv /\ ControlOK
  BY DEF LedgerInv
<1>1. CASE InspectOld
  BY <1>1, RetryProposes, AttemptKeeps
<1>2. CASE InspectProposed
  <2>1. Doubt /\ Inspected = "proposed"
    BY <1>0, <1>2 DEF InspectProposed, ControlOK
  <2>2. /\ pc' \in {"decide", "files", "finish", "idle"}
        /\ pc' = "files" => txn.kind = "stage"
    BY <1>2, <2>1 DEF InspectProposed, Applied, After, Doubt, Kinds
  <2>3. db' = db /\ acked' = acked /\ batch' = batch /\ stop' = stop
    BY <1>2 DEF InspectProposed, outside
  <2>4. pc' = "files" => db.cohort.life = "staging" /\ ~db.stage.latched
    BY <1>0, <1>2, <2>1, <2>2, InspectedIs DEF InspectProposed, Destined, ReadySource
  <2>5. Quiet
    BY <1>0, <2>2, <2>3, <2>4 DEF Quiet, Materializing, ControlOK
  <2> QED BY <2>5, QuietKeeps
<1>3. CASE GiveUp
  <2>1. Doubt
    BY <1>0, <1>3 DEF GiveUp, ControlOK
  <2>2. Inspected # "third"
    BY <1>0, <1>3, <2>1, InspectedIs DEF GiveUp, Destined, ReadySource
  <2>3. Quiet
    BY <1>0, <1>3, <2>2 DEF Quiet, Materializing, GiveUp, Enter, ControlOK, outside
  <2> QED BY <2>3, QuietKeeps
<1> QED BY <1>1, <1>2, <1>3 DEF Transact

LEMMA FaultyKeeps ==
    ASSUME LedgerInv, Faulty
    PROVE  LedgerInv' /\ LedgerStep
<1>0. DataInv /\ ControlOK
  BY DEF LedgerInv
<1>1. CASE InspectUnreadable \/ SpaceRefused \/ EndRetire \/ RemovalFails
  <2>1. Quiet
    BY <1>0, <1>1 DEF Quiet, Materializing, InspectUnreadable, SpaceRefused, EndRetire, RemovalFails,
                      Goto, Enter, ControlOK, outside
  <2> QED BY <2>1, QuietKeeps
<1>2. ASSUME NEW latched \in BOOLEAN, WriteFails(latched)
      PROVE  LedgerInv' /\ LedgerStep
  <2>1. db.cohort.life = "staging"
    BY <1>0, <1>2 DEF WriteFails, ControlOK
  <2>2. /\ db' = [db EXCEPT !.stage = [@ EXCEPT !.latched = latched]]
        /\ acked' = acked /\ batch' = batch /\ stop' # "third" /\ pc' = "idle"
    BY <1>0, <1>2 DEF WriteFails, Enter, ControlOK
  <2>3. DataInv' /\ LedgerStep
    BY <1>0, <2>1, <2>2, LatchKeeps
  <2>4. ControlOK'
    BY <1>0, <2>2 DEF ControlOK
  <2> QED BY <2>3, <2>4 DEF LedgerInv
<1> QED BY <1>1, <1>2 DEF Faulty

LEMMA StepKeeps ==
    ASSUME LedgerInv, Destined, [Next]_vars
    PROVE  LedgerInv' /\ LedgerStep
<1>1. CASE UNCHANGED vars
  <2>1. Quiet
    BY <1>1 DEF vars, Quiet, Materializing, LedgerInv, ControlOK
  <2> QED BY <2>1, QuietKeeps
<1> QED BY <1>1, OutsideKeeps, DecideKeeps, MaterializeKeeps, RetiringKeeps, TransactKeeps, FaultyKeeps
        DEF Next, Steps

LEMMA InitLedger ==
    ASSUME Init
    PROVE  LedgerInv /\ Ledger!Init
<1>1. NoCohort \in CohortType /\ NoStage \in StageType /\ NoEntry \in EntryType
  <2>1. [n \in {} |-> 0] \in Projections
    <3>1. {} \in SUBSET Seqs /\ [n \in {} |-> 0] \in [{} -> Bytes]
      OBVIOUS
    <3> QED BY <3>1 DEF Projections
  <2>2. [s \in {} |-> 0] \in Cursors
    <3>1. {} \in SUBSET Sources /\ [s \in {} |-> 0] \in [{} -> 0 .. (MaxSeq + 1)]
      OBVIOUS
    <3> QED BY <3>1 DEF Cursors
  <2>3. {} \in Lineages
    BY DEF Lineages
  <2> QED BY <2>1, <2>2, <2>3 DEF NoCohort, NoStage, NoEntry, CohortType, StageType, EntryType
<1>2. /\ db.cohort = NoCohort /\ db.stage = NoStage /\ db.frontier = -1 /\ db.order = 0
      /\ db.row = [s \in Sources |-> [life |-> "absent", kind |-> "attempt", cov |-> 0, gone |-> 0]]
      /\ db.proof = [o \in Orders |-> "none"] /\ db.ledger = [o \in Orders |-> NoEntry]
  BY DEF Init
<1>3. db \in DbType
  <2>1. db.row \in [Sources -> RowType]
    BY <1>2 DEF RowType, Lives
  <2>2. db.proof \in [Orders -> ProofStates] /\ db.ledger \in [Orders -> EntryType]
    BY <1>1, <1>2 DEF ProofStates
  <2>3. db = [row |-> db.row, cohort |-> db.cohort, stage |-> db.stage, proof |-> db.proof,
              ledger |-> db.ledger, frontier |-> db.frontier, order |-> db.order]
    BY DEF Init
  <2> QED BY <1>1, <1>2, <2>1, <2>2, <2>3 DEF DbType
<1>4. /\ NoEntry.state = "none" /\ DOMAIN NoEntry.recs = {} /\ NoEntry.slices = {}
      /\ NoCohort.life = "none" /\ DOMAIN NoCohort.member = {}
  BY DEF NoEntry, NoCohort
<1>5. RowsOK
  BY <1>2, SourceFacts DEF RowsOK
<1>6. MembersOK /\ StageOK
  BY <1>2, <1>4 DEF MembersOK, StageOK, Members
<1>7. LedgerOK
  BY <1>2, <1>4 DEF LedgerOK, Recs, SlicesOK
<1>8. ControlOK
  BY DEF Init, ControlOK
<1>9. Feed = [o \in Orders |-> {}] /\ Entries(db, "retired") = {}
  BY <1>2, <1>4 DEF Feed, Recs, Entries
<1>10. Kept = {}
  <2>1. Present(db) = {}
    BY <1>2 DEF Present
  <2> QED BY <2>1 DEF Kept
<1>11. Ledger!Init
  BY <1>9, <1>10 DEF Ledger!Init, Init
<1> QED BY <1>3, <1>5, <1>6, <1>7, <1>8, <1>11 DEF LedgerInv, DataInv

-----------------------------------------------------------------------------
(* The destination of a commit.                                               *)

LEMMA SyncedIs ==
    ASSUME NEW fs \in [Orders -> FileType]
    PROVE  /\ Synced(fs) \in [Orders -> FileType]
           /\ \A o \in Orders : Synced(fs)[o].public = fs[o].public /\ Synced(fs)[o].synced = TRUE
<1>1. DOMAIN fs = Orders /\ \A o \in Orders : fs[o] \in FileType
  OBVIOUS
<1>2. \A o \in Orders : Synced(fs)[o] = [fs[o] EXCEPT !.synced = TRUE]
  BY <1>1 DEF Synced
<1>3. \A o \in Orders : /\ [fs[o] EXCEPT !.synced = TRUE] \in FileType
                        /\ [fs[o] EXCEPT !.synced = TRUE].public = fs[o].public
                        /\ [fs[o] EXCEPT !.synced = TRUE].synced = TRUE
  BY <1>1 DEF FileType
<1> QED BY <1>1, <1>2, <1>3 DEF Synced

LEMMA SurvivesIs ==
    ASSUME NEW f \in FileType, NEW g \in Survives(f)
    PROVE  g \in FileType /\ g.synced = TRUE /\ (f.synced => g.public = f.public)
<1>1. f.stage \in {"none", "part", "whole"} /\ f.public \in {"none", "part", "whole"} /\ f.synced \in BOOLEAN
  BY DEF FileType
<1>2. CASE g \in [stage : {f.stage, "none"}, public : {f.public}, synced : {TRUE}]
  BY <1>1, <1>2 DEF FileType
<1>3. CASE /\ ~f.synced
           /\ \/ g \in [stage : {"whole", "none"}, public : {"none"}, synced : {TRUE}]
              \/ g \in [stage : {f.stage}, public : {"none", "part", "whole"}, synced : {TRUE}]
  BY <1>1, <1>3 DEF FileType
<1> QED BY <1>2, <1>3 DEF Survives

(* What a materialization writes: the directory of the stage, which is no       *)
(* artifact's yet; a sync is one of every directory.                            *)
LEMMA MaterializeWrites ==
    ASSUME LedgerInv, Destined, Materialize
    PROVE  LET so == db.stage.order IN
           /\ pc \in Materializing /\ pc' \in Materializing /\ UNCHANGED <<db, txn, recovered, faults>>
           /\ so \in Orders /\ db.ledger[so].state = "none" /\ ~db.stage.latched
           /\ files' \in [Orders -> FileType]
           /\ \A o \in Orders : /\ o # so => files'[o].public = files[o].public
                                /\ files[o].synced => files'[o].synced \/ (o = so /\ pc' = "sync")
           /\ files'[so].public = "whole" <=> files[so].public = "whole" \/ pc' = "sync"
           /\ files'[so].public # "whole" => files'[so].public = files[so].public
           /\ pc' \in {"sync", "commit"} => files'[so].public = "whole"
           /\ pc = "sync" => files'[so].synced
<1> DEFINE so == db.stage.order
<1>1. pc \in Materializing /\ pc' \in Materializing /\ UNCHANGED <<db, txn, recovered, faults>>
  BY DEF Materialize, ReuseDestination, DiscardScratch, BeginWrite, FinishWrite, Rename, SyncParent,
         Goto, Enter, SetMine, SetFiles, Materializing
<1>2. so \in Orders /\ db.ledger[so].state = "none" /\ ~db.stage.latched
  BY <1>1 DEF LedgerInv, DataInv, ControlOK, StageOK, NoEntry, Materializing
<1>3. files \in [Orders -> FileType] /\ files[so] \in FileType /\ (pc = "sync" => files[so].public = "whole")
  BY <1>2 DEF Destined, Mine
<1>4. ASSUME NEW x \in {"none", "part", "whole"}, NEW fs,
             fs = [files EXCEPT ![so] = [files[so] EXCEPT !.stage = x]]
      PROVE  /\ fs \in [Orders -> FileType]
             /\ \A o \in Orders : fs[o].public = files[o].public /\ fs[o].synced = files[o].synced
  <2> DEFINE f == [files[so] EXCEPT !.stage = x]
  <2>1. f \in FileType /\ f.public = files[so].public /\ f.synced = files[so].synced
    BY <1>3 DEF FileType
  <2>2. fs = [files EXCEPT ![so] = f]
    BY <1>4
  <2> HIDE DEF f
  <2> QED BY <1>2, <1>3, <2>1, <2>2
<1>5. ASSUME NEW x \in {"none", "part", "whole"},
             \/ files' = [files EXCEPT ![so] = [files[so] EXCEPT !.stage = x]]
             \/ files' = Synced([files EXCEPT ![so] = [files[so] EXCEPT !.stage = x]])
             \/ files' = files
      PROVE  /\ files' \in [Orders -> FileType]
             /\ \A o \in Orders : files'[o].public = files[o].public /\ (files[o].synced => files'[o].synced)
  <2>1. PICK fs : fs = [files EXCEPT ![so] = [files[so] EXCEPT !.stage = x]]
    OBVIOUS
  <2>2. /\ fs \in [Orders -> FileType]
        /\ \A o \in Orders : fs[o].public = files[o].public /\ fs[o].synced = files[o].synced
    BY <1>4, <2>1
  <2>3. files' = fs \/ files' = Synced(fs) \/ files' = files
    BY <1>5, <2>1
  <2>4. /\ Synced(fs) \in [Orders -> FileType]
        /\ \A o \in Orders : Synced(fs)[o].public = fs[o].public /\ Synced(fs)[o].synced = TRUE
    BY <2>2, SyncedIs
  <2>5. CASE files' = fs
    BY <2>2, <2>5
  <2>6. CASE files' = Synced(fs)
    BY <2>2, <2>4, <2>6
  <2>7. CASE files' = files
    BY <1>3, <2>7
  <2> QED BY <2>3, <2>5, <2>6, <2>7
<1>6. CASE ReuseDestination \/ DiscardScratch
  <2>1. /\ \/ files' = Synced([files EXCEPT ![so] = [files[so] EXCEPT !.stage = "none"]])
           \/ files' = files
        /\ pc = "files" /\ pc' \in {"files", "commit"} /\ (pc' = "commit" => files[so].public = "whole")
    BY <1>6 DEF ReuseDestination, DiscardScratch, WithoutScratch, Mined, SetFiles, Mine, Goto, Enter
  <2> QED BY <1>1, <1>2, <1>5, <2>1
<1>7. CASE BeginWrite \/ FinishWrite
  <2>1. /\ \E x \in {"none", "part", "whole"} : files' = [files EXCEPT ![so] = [files[so] EXCEPT !.stage = x]]
        /\ pc \in {"files", "writing"} /\ pc' \in {"files", "writing"}
    BY <1>7 DEF BeginWrite, FinishWrite, SetMine, Mined, SetFiles, Mine, Goto, Enter
  <2> QED BY <1>1, <1>2, <1>5, <2>1
<1>8. CASE Rename
  <2> DEFINE f == [stage |-> "none", public |-> "whole", synced |-> FALSE]
  <2>1. files' = [files EXCEPT ![so] = f] /\ pc = "files" /\ pc' = "sync"
    BY <1>8 DEF Rename, SetMine, Mined, SetFiles, Goto, Enter
  <2>2. f \in FileType /\ f.public = "whole"
    BY DEF FileType
  <2> HIDE DEF f
  <2>3. /\ files' \in [Orders -> FileType] /\ files'[so].public = "whole"
        /\ \A o \in Orders : o # so => files'[o] = files[o]
    BY <1>2, <1>3, <2>1, <2>2
  <2> QED BY <1>1, <1>2, <2>1, <2>3
<1>9. CASE SyncParent
  <2>1. files' = Synced(files) /\ pc = "sync" /\ pc' = "commit"
    BY <1>9 DEF SyncParent, SetFiles, Goto, Enter
  <2> QED BY <1>1, <1>2, <1>3, <2>1, SyncedIs
<1> QED BY <1>6, <1>7, <1>8, <1>9 DEF Materialize

(* What a removal writes: the directory of a retired artifact.                  *)
LEMMA RemoveWrites ==
    ASSUME Destined, NEW o \in Orders, RemoveFile(o)
    PROVE  /\ db.ledger[o].state = "retired" /\ UNCHANGED <<db, txn, recovered, faults>>
           /\ pc \in {"resume", "preflight", "remove"} /\ pc' \in {pc, "unlinked"}
           /\ pc = "remove" => o = txn.about
           /\ files[o].public # "none" /\ (pc' = "unlinked" => files'[o].public = "none")
           /\ files' \in [Orders -> FileType]
           /\ \A p \in Orders : p # o => files'[p] = files[p]
<1>1. /\ db.ledger[o].state = "retired" /\ UNCHANGED <<db, txn, recovered, faults>>
      /\ pc \in {"resume", "preflight", "remove"} /\ pc' \in {pc, "unlinked"}
      /\ pc = "remove" => o = txn.about
      /\ files[o].public # "none"
  BY DEF RemoveFile, Doomed, SetFiles, Goto, Enter
<1>2. files \in [Orders -> FileType] /\ files[o] \in FileType
  BY DEF Destined
<1>3. CASE files[o].public = "whole"
  <2> DEFINE f == [files[o] EXCEPT !.public = "part"]
  <2>1. files' = [files EXCEPT ![o] = f] /\ pc' = pc
    BY <1>2, <1>3 DEF RemoveFile, SetFiles, Goto, Enter
  <2>2. f \in FileType
    BY <1>2 DEF FileType
  <2> HIDE DEF f
  <2> QED BY <1>1, <1>2, <2>1, <2>2
<1>4. CASE files[o].public = "part"
  <2> DEFINE f == [files[o] EXCEPT !.public = "none", !.synced = FALSE]
  <2>1. files' = [files EXCEPT ![o] = f] /\ pc' = "unlinked"
    BY <1>2, <1>4 DEF RemoveFile, SetFiles, Goto, Enter
  <2>2. f \in FileType /\ f.public = "none"
    BY <1>2 DEF FileType
  <2> HIDE DEF f
  <2> QED BY <1>1, <1>2, <2>1, <2>2
<1> QED BY <1>3, <1>4 DEF RemoveFile

(* A commit is proposed and retried with its destination in place.              *)
LEMMA AttemptDestined ==
    ASSUME Destined, NEW t, Attempt(t), t.kind = "commit" => files[t.old.stage.order].public = "whole"
    PROVE  Destined'
<1>1. files' = files /\ pc' \notin {"sync", "commit"} /\ (pc' = "inspect" => txn' = t)
  BY DEF Attempt, Applied, After, Enter, outside
<1> QED BY <1>1 DEF Destined

LEMMA StepDestined ==
    ASSUME LedgerInv, Destined, [Next]_vars
    PROVE  Destined'
<1>0. DataInv /\ ControlOK
  BY DEF LedgerInv
<1>1. ASSUME files' = files, pc' \notin {"sync", "commit", "inspect"} PROVE Destined'
  BY <1>1 DEF Destined
<1>2. ASSUME NEW kind, NEW about, NEW new, Propose(kind, about, new), kind = "commit" => pc = "commit"
      PROVE  Destined'
  <2> DEFINE t == [kind |-> kind, new |-> new, old |-> db, attempt |-> 0, about |-> about]
  <2>1. t.kind = kind /\ t.old = db /\ Attempt(t)
    BY <1>2 DEF Propose
  <2> HIDE DEF t
  <2>2. t.kind = "commit" => files[t.old.stage.order].public = "whole"
    BY <1>2, <2>1 DEF Destined, Mine
  <2> QED BY <2>1, <2>2, AttemptDestined
<1>3. CASE Environment
  <2>1. CASE PowerLoss
    <3>1. files' \in [Orders -> FileType]
      BY <2>1, SurvivesIs DEF PowerLoss, Destined
    <3>2. pc' = "idle"
      BY <2>1 DEF PowerLoss, Restart
    <3> QED BY <3>1, <3>2 DEF Destined
  <2>2. ASSUME NEW o \in Orders, Acknowledge(o) PROVE Destined'
    BY <2>2 DEF Acknowledge, Destined, Mine
  <2>3. CASE ProcessCrash \/ Close \/ \E s \in Sources : Seal(s) \/ Certify(s)
    <3>1. files' = files /\ pc' = "idle"
      BY <2>3 DEF ProcessCrash, Restart, Close, Seal, Certify, Idle, outside
    <3> QED BY <1>1, <3>1
  <2> QED BY <1>3, <2>1, <2>2, <2>3 DEF Environment
<1>4. CASE RetireRaw \/ CoverReplay \/ BlockConflict \/ Accept \/ AdvanceCustody \/ Reserve
  <2>1. \E kind, about, new : kind # "commit" /\ Propose(kind, about, new)
    BY <1>4 DEF RetireRaw, CoverReplay, BlockConflict, Accept, AdvanceCustody, Reserve
  <2> QED BY <1>2, <2>1
<1>5. CASE ProposeCommit
  BY <1>2, <1>5 DEF ProposeCommit
<1>6. CASE StartPublish \/ StartRetire \/ CheckAck \/ CohortConflict \/ LoadStage
  <2>1. files' = files /\ pc' \notin {"sync", "commit", "inspect"}
    BY <1>6 DEF StartPublish, StartRetire, CheckAck, CohortConflict, LoadStage, Goto, Enter, outside
  <2> QED BY <1>1, <2>1
<1>7. CASE Answers
  <2>1. files' = files /\ pc' = "idle"
    BY <1>7, AnswersOutcome DEF Outcome, Goto, Enter
  <2> QED BY <1>1, <2>1
<1>8. CASE Materialize
  <2>1. /\ pc' \in Materializing /\ db' = db /\ files' \in [Orders -> FileType]
        /\ pc' \in {"sync", "commit"} => files'[db.stage.order].public = "whole"
    BY <1>8, MaterializeWrites
  <2> QED BY <2>1 DEF Destined, Mine, Materializing
<1>9. ASSUME NEW o \in Orders, RemoveFile(o) PROVE Destined'
  BY <1>9, RemoveWrites DEF Destined
<1>10. ASSUME NEW o \in Orders, RecordRetirement(o) PROVE Destined'
  BY <1>2, <1>10 DEF RecordRetirement
<1>11. CASE SyncRemoved
  <2>1. files' = Synced(files) /\ pc' \notin {"sync", "commit", "inspect"}
    BY <1>11 DEF SyncRemoved, SetFiles, Goto, Enter
  <2> QED BY <2>1, SyncedIs DEF Destined
<1>12. CASE ResumeDone \/ Preflight \/ ConfirmBatch \/ Removed
  <2>1. files' = files /\ pc' \notin {"sync", "commit", "inspect"}
    BY <1>12 DEF ResumeDone, Preflight, ConfirmBatch, Removed, Goto, Enter, outside
  <2> QED BY <1>1, <2>1
<1>13. CASE InspectOld
  <2>1. pc = "inspect" /\ Attempt([txn EXCEPT !.attempt = 1]) /\ Doubt
    BY <1>0, <1>13 DEF InspectOld, ControlOK
  <2>2. PICK t : t = [txn EXCEPT !.attempt = 1]
    OBVIOUS
  <2>3. t.kind = txn.kind /\ t.old = txn.old
    BY <2>1, <2>2 DEF Doubt
  <2> QED BY <2>1, <2>2, <2>3, AttemptDestined DEF Destined
<1>14. CASE InspectProposed \/ GiveUp
  <2>1. files' = files /\ pc' \notin {"sync", "commit", "inspect"}
    BY <1>14 DEF InspectProposed, GiveUp, Applied, After, Enter, outside
  <2> QED BY <1>1, <2>1
<1>15. CASE Faulty
  <2>1. files' = files /\ pc' = "idle"
    BY <1>15 DEF Faulty, InspectUnreadable, SpaceRefused, EndRetire, RemovalFails, WriteFails, Goto, Enter, outside
  <2> QED BY <1>1, <2>1
<1>16. CASE UNCHANGED vars
  BY <1>16 DEF vars, Destined, Mine
<1> QED BY <1>3, <1>4, <1>5, <1>6, <1>7, <1>8, <1>9, <1>10, <1>11, <1>12, <1>13, <1>14, <1>15, <1>16
        DEF Next, Calls, Steps, Decide, Answers, Retiring, Transact

(* The database stays consistent, whatever is in doubt is either as before or   *)
(* as proposed, and the destination of a commit in doubt is there: an invariant *)
(* of the collector, the consumer, every crash and every failed commit.        *)
THEOREM Inductive == Spec => [](LedgerInv /\ Destined)
<1>1. Init => LedgerInv /\ Destined
  <2>1. Init => Destined
    BY DEF Init, Destined, NoFiles, FileType
  <2> QED BY <2>1, InitLedger
<1>2. LedgerInv /\ Destined /\ [Next]_vars => LedgerInv' /\ Destined'
  BY StepKeeps, StepDestined
<1> QED BY <1>1, <1>2, PTL DEF Spec

(* A transaction that reported an error left the state before it or the state    *)
(* after it, with the destination of a commit in its place (classify_commit and  *)
(* its siblings): an inspection that can read the store never meets a third      *)
(* state, so the service fail-stops only when the inspection itself fails.       *)
THEOREM ResolvesAmbiguity == Spec => []AmbiguityIsResolved
<1>1. LedgerInv => AmbiguityIsResolved
  BY DEF LedgerInv, ControlOK, AmbiguityIsResolved
<1> QED BY <1>1, Inductive, PTL

(* Public audio v2 keeps the promise of the feed, for any sources and any       *)
(* faults: artifacts are published once, in the order of their records, retired *)
(* only when acknowledged, and raw rows are deleted only when published.        *)
THEOREM Refinement == Spec => ImplementsLedger
<1>1. Init => Ledger!Init
  BY InitLedger
<1>2. LedgerInv /\ Destined /\ [Next]_vars => [Ledger!Next]_(Ledger!vars)
  BY StepKeeps DEF LedgerStep
<1> QED BY <1>1, <1>2, Inductive, PTL DEF Spec, ImplementsLedger, Ledger!Spec

-----------------------------------------------------------------------------
(* Faults are counted, so what was never interrupted was not before either.     *)
FaultsStep ==
    /\ faults' \in FaultsType
    /\ Interrupted => Interrupted'
    /\ Recoverable' => Recoverable

LEMMA FaultIs ==
    ASSUME faults \in FaultsType, NEW kind \in {"io", "sync", "crash", "loss"}, NEW cap, Fault(kind, cap)
    PROVE  /\ FaultsStep
           /\ kind \in {"crash", "sync"} => Interrupted'
           /\ kind = "loss" /\ Recoverable' => ~Interrupted
<1>1. faults' \in FaultsType /\ faults[kind] \in Nat /\ faults'[kind] = faults[kind] + 1
  BY DEF Fault, FaultsType
<1>2. \A k \in {"io", "sync", "crash", "loss"} : k # kind => faults'[k] = faults[k]
  BY DEF Fault, FaultsType
<1>3. /\ faults.crash \in Nat /\ faults.sync \in Nat /\ faults.loss \in Nat
      /\ faults'.crash \in Nat /\ faults'.sync \in Nat /\ faults'.loss \in Nat
  BY <1>1 DEF FaultsType
<1>4. faults'.crash >= faults.crash /\ faults'.sync >= faults.sync /\ faults'.loss >= faults.loss
  BY <1>1, <1>2, <1>3
<1>5. FaultsStep
  BY <1>1, <1>3, <1>4 DEF FaultsStep, Interrupted, Recoverable
<1>6. kind \in {"crash", "sync"} => Interrupted'
  BY <1>1, <1>3 DEF Interrupted
<1>7. kind = "loss" /\ Recoverable' => ~Interrupted
  BY <1>1, <1>3, <1>4 DEF Interrupted, Recoverable
<1> QED BY <1>5, <1>6, <1>7

LEMMA SameFaults ==
    ASSUME faults \in FaultsType, UNCHANGED faults
    PROVE  FaultsStep
BY DEF FaultsStep, Interrupted, Recoverable

LEMMA AttemptFaults ==
    ASSUME faults \in FaultsType, NEW t, Attempt(t)
    PROVE  FaultsStep
<1>1. UNCHANGED faults \/ Fault("io", MaxErrors)
  BY DEF Attempt, outside
<1> QED BY <1>1, FaultIs, SameFaults

LEMMA ProposeFaults ==
    ASSUME faults \in FaultsType, NEW kind, NEW about, NEW new, Propose(kind, about, new)
    PROVE  FaultsStep
BY AttemptFaults DEF Propose

LEMMA StepFaults ==
    ASSUME faults \in FaultsType, [Next]_vars
    PROVE  FaultsStep
<1>1. CASE Environment
  <2>1. \/ UNCHANGED faults \/ Fault("crash", MaxCrashes) \/ Fault("loss", MaxLosses)
    BY <1>1 DEF Environment, Seal, Certify, Close, Acknowledge, ProcessCrash, PowerLoss, outside
  <2> QED BY <2>1, FaultIs, SameFaults
<1>2. CASE RetireRaw \/ CoverReplay \/ BlockConflict \/ Accept \/ AdvanceCustody \/ Reserve \/ ProposeCommit
  <2>1. \E kind, about, new : Propose(kind, about, new)
    BY <1>2 DEF RetireRaw, CoverReplay, BlockConflict, Accept, AdvanceCustody, Reserve, ProposeCommit
  <2> QED BY <2>1, ProposeFaults
<1>3. CASE StartPublish \/ StartRetire \/ CheckAck \/ CohortConflict \/ LoadStage
  <2>1. UNCHANGED faults
    BY <1>3 DEF StartPublish, StartRetire, CheckAck, CohortConflict, LoadStage, outside
  <2> QED BY <2>1, SameFaults
<1>4. CASE Answers
  <2>1. UNCHANGED faults
    BY <1>4, AnswersOutcome DEF Outcome
  <2> QED BY <2>1, SameFaults
<1>5. CASE Materialize
  <2>1. UNCHANGED faults
    BY <1>5 DEF Materialize, ReuseDestination, DiscardScratch, BeginWrite, FinishWrite, Rename, SyncParent,
         SetMine, SetFiles
  <2> QED BY <2>1, SameFaults
<1>6. CASE Retiring
  <2>1. UNCHANGED faults \/ \E kind, about, new : Propose(kind, about, new)
    BY <1>6 DEF Retiring, RemoveFile, SetFiles, RecordRetirement, SyncRemoved, ResumeDone, Preflight, ConfirmBatch,
                Removed, outside
  <2> QED BY <2>1, SameFaults, ProposeFaults
<1>7. CASE Transact
  <2>1. UNCHANGED faults \/ \E t : Attempt(t)
    BY <1>7 DEF Transact, InspectProposed, InspectOld, GiveUp, outside
  <2> QED BY <2>1, SameFaults, AttemptFaults
<1>8. CASE Faulty
  <2>1. UNCHANGED faults \/ Fault("io", MaxErrors) \/ Fault("sync", MaxErrors)
    BY <1>8 DEF Faulty, InspectUnreadable, SpaceRefused, EndRetire, RemovalFails, WriteFails, outside
  <2> QED BY <2>1, SameFaults, FaultIs
<1>9. CASE UNCHANGED vars
  BY <1>9, SameFaults DEF vars
<1> QED BY <1>1, <1>2, <1>3, <1>4, <1>5, <1>6, <1>7, <1>8, <1>9 DEF Next, Calls, Steps, Decide, Answers

-----------------------------------------------------------------------------
(* Steps that leave the directories and the artifacts of the database alone.    *)

Still ==
    /\ files' = files /\ db'.ledger = db.ledger
    /\ db.stage = NoStage \/ (db'.stage.order = db.stage.order /\ (db.stage.latched => db'.stage.latched))
    /\ pc = "sync" => pc' = "sync" \/ Interrupted' \/ db'.stage.latched
    /\ recovered' => recovered
    /\ pc = "remove" => (pc' = "remove" /\ txn' = txn) \/ ~recovered'
    /\ pc' = "remove" => pc = "remove" /\ txn' = txn
    /\ pc' # "unlinked" /\ (pc' \notin {"idle", "resume", "inspect"} => recovered')
    /\ pc' = "inspect" /\ txn'.kind # "raw" => recovered'

LEMMA StageOrderIs ==
    ASSUME db.stage = NoStage, NEW o \in Orders
    PROVE  o # db.stage.order
BY BoundsAssumption DEF NoStage, Orders

LEMMA StillKeeps ==
    ASSUME FilesOK, RecoveredOK, Still, FaultsStep
    PROVE  FilesOK' /\ RecoveredOK'
<1>1. ASSUME NEW o \in Orders PROVE DirectoryOK(o)'
  <2>1. DirectoryOK(o) /\ (Interrupted => Interrupted')
    BY DEF FilesOK, FaultsStep
  <2>2. o = db.stage.order => o = db'.stage.order /\ (db.stage.latched => db'.stage.latched)
    BY StageOrderIs DEF Still
  <2> QED BY <2>1, <2>2 DEF DirectoryOK, Still
<1>2. RecoveredOK'
  BY DEF RecoveredOK, Still
<1> QED BY <1>1, <1>2 DEF FilesOK

(* Which proposals change an artifact, or the stage.                           *)
LEMMA SoundMoves ==
    ASSUME DataInv, NEW kind, NEW about, NEW new, Sound(kind, about, new), kind # "commit"
    PROVE  new.ledger = db.ledger /\ (new.stage = db.stage \/ db.stage = NoStage)
<1>1. db \in DbType
  BY DEF DataInv
<1>2. ASSUME NEW s, NEW r
      PROVE  EditedRow(db, s, r).ledger = db.ledger /\ EditedRow(db, s, r).stage = db.stage
  <2>1. PICK rows : EditedRow(db, s, r) = [db EXCEPT !.row = rows]
    BY DEF EditedRow
  <2> QED BY <1>1, <2>1 DEF DbType
<1>3. CASE kind = "accept"
  <2>1. PICK co : new = [db EXCEPT !.cohort = co]
    BY <1>3 DEF Sound, SoundAccept
  <2> QED BY <1>1, <2>1 DEF DbType
<1>4. CASE kind = "stage"
  <2>1. db.cohort.life = "accepted" /\ new = ReservedStage(db)
    BY <1>4 DEF Sound, SoundStage
  <2>2. PICK st, pf, co, k : new = [db EXCEPT !.stage = st, !.proof = pf, !.cohort = co, !.order = k]
    BY <2>1 DEF ReservedStage
  <2>3. db.stage = NoStage
    BY <2>1 DEF DataInv, StageOK
  <2> QED BY <1>1, <2>2, <2>3 DEF DbType
<1>5. CASE kind = "custody"
  <2>1. PICK rows, co : new = [db EXCEPT !.row = rows, !.cohort = co]
    BY <1>5 DEF Sound, SoundCustody, AdvancedCustody
  <2> QED BY <1>1, <2>1 DEF DbType
<1>6. CASE kind \in {"cover", "block", "raw"}
  <2>1. PICK s, r : new = EditedRow(db, s, r)
    BY <1>6 DEF Sound, SoundCover, SoundBlock, SoundRaw, CoveredReplay, BlockedSource, RetiredPage, RemovedSource
  <2> QED BY <1>2, <2>1
<1> QED BY <1>3, <1>4, <1>5, <1>6 DEF Sound

(* A transaction keeps every directory in its place, applied or not.            *)
LEMMA AttemptFiles ==
    ASSUME LedgerInv, FilesOK, RecoveredOK, faults \in FaultsType,
           NEW kind \in Kinds, NEW about, NEW new, NEW attempt, Sound(kind, about, new),
           Attempt([kind |-> kind, new |-> new, old |-> db, attempt |-> attempt, about |-> about]),
           pc \in {"idle", "decide", "commit", "inspect"},
           kind = "commit" => Mine.public = "whole",
           kind # "raw" => recovered
    PROVE  FilesOK' /\ RecoveredOK'
<1> DEFINE t == [kind |-> kind, new |-> new, old |-> db, attempt |-> attempt, about |-> about]
<1>0. DataInv /\ ControlOK /\ kind # "retire"
  BY DEF LedgerInv, Kinds
<1>1. t.kind = kind /\ t.new = new /\ t.about = about /\ Attempt(t)
  OBVIOUS
<1>2. FaultsStep
  BY <1>1, AttemptFaults
<1> HIDE DEF t
<1>3. /\ files' = files /\ recovered' = recovered /\ acked' = acked
      /\ db' = db \/ db' = new
      /\ \/ pc' = "inspect" /\ txn'.kind = kind
         \/ db' = new /\ pc' \in {"decide", "files", "finish"} /\ kind # "raw"
         \/ pc' = "idle"
  BY <1>0, <1>1 DEF Attempt, Applied, After, Enter, outside, Kinds
<1>4. CASE kind # "commit"
  <2>1. db'.ledger = db.ledger /\ (db'.stage = db.stage \/ db.stage = NoStage)
    BY <1>0, <1>3, <1>4, SoundMoves
  <2>2. Still
    BY <1>3, <2>1 DEF Still
  <2> QED BY <1>2, <2>2, StillKeeps
<1>5. CASE kind = "commit" /\ db' = db
  <2>1. Still
    BY <1>3, <1>5 DEF Still
  <2> QED BY <1>2, <2>1, StillKeeps
<1>6. CASE kind = "commit" /\ db' = new
  <2>1. SoundCommit(new)
    BY <1>6 DEF Sound
  <2>2. PICK so : so = db.stage.order
    OBVIOUS
  <2>3. /\ db'.stage = NoStage /\ db'.cohort.life # "staging"
        /\ \A p \in Orders : p # so => db'.ledger[p] = db.ledger[p]
        /\ db'.ledger[so].state = "ready"
    BY <1>0, <1>3, <1>6, <2>1, <2>2, CommitKeeps
  <2>4. db.cohort.life = "staging" /\ ~db.stage.latched
    BY <2>1 DEF SoundCommit
  <2>5. so \in Orders /\ db.ledger[so].state = "none"
    BY <1>0, <2>2, <2>4 DEF DataInv, StageOK, NoEntry
  <2>6. Interrupted => Interrupted'
    BY <1>2 DEF FaultsStep
  <2>7. files[so].public = "whole"
    BY <1>6, <2>2 DEF Mine
  <2>8. ASSUME NEW o \in Orders PROVE DirectoryOK(o)'
    <3>1. DirectoryOK(o)
      BY DEF FilesOK
    <3>2. CASE o = so
      BY <1>3, <2>2, <2>3, <2>4, <2>5, <2>6, <2>7, <3>1, <3>2 DEF DirectoryOK
    <3>3. CASE o # so
      BY <1>3, <2>2, <2>3, <2>6, <3>1, <3>3 DEF DirectoryOK
    <3> QED BY <3>2, <3>3
  <2>9. FilesOK'
    BY <2>8 DEF FilesOK
  <2>10. \A o \in Orders : db'.ledger[o].state = "retired" => db.ledger[o].state = "retired"
    BY <2>3
  <2>11. RecoveredOK'
    BY <1>3, <1>6, <2>10 DEF RecoveredOK
  <2> QED BY <2>9, <2>11
<1> QED BY <1>3, <1>4, <1>5, <1>6

LEMMA ProposeFiles ==
    ASSUME LedgerInv, FilesOK, RecoveredOK, faults \in FaultsType,
           NEW K \in SUBSET Kinds, Proposes(K), pc \in {"idle", "decide", "commit", "inspect"},
           "commit" \in K => Mine.public = "whole",
           K # {"raw"} => recovered
    PROVE  FilesOK' /\ RecoveredOK'
<1>1. PICK kind, about, new : kind \in K /\ Sound(kind, about, new) /\ Propose(kind, about, new)
  BY DEF Proposes
<1>2. kind # "raw" => recovered
  BY <1>1
<1> QED BY <1>1, <1>2, AttemptFiles DEF Propose

(* What a call knows of its place.                                            *)
LEMMA DecideFiles ==
    ASSUME LedgerInv, Destined, FilesOK, RecoveredOK, faults \in FaultsType, Calls \/ Decide
    PROVE  FilesOK' /\ RecoveredOK'
<1>1. CASE RetireRaw
  <2>1. pc = "idle" /\ Proposes({"raw"})
    BY <1>1, RawProposes DEF RetireRaw, Idle
  <2> QED BY <2>1, ProposeFiles DEF Kinds
<1>2. CASE CoverReplay \/ BlockConflict
  <2>1. pc = "decide" /\ Proposes({"cover", "block"})
    BY <1>2, ReplayProposes DEF CoverReplay, BlockConflict, Normalizing, Deciding
  <2>2. recovered
    BY <2>1 DEF RecoveredOK
  <2> QED BY <2>1, <2>2, ProposeFiles DEF Kinds
<1>3. CASE Accept \/ AdvanceCustody \/ Reserve
  <2>1. pc = "decide" /\ Proposes({"accept", "custody", "stage"})
    BY <1>3, CohortProposes DEF Accept, Normalized, Normalizing, AdvanceCustody, Reserve, ReadyToReserve, Deciding
  <2>2. recovered
    BY <2>1 DEF RecoveredOK
  <2> QED BY <2>1, <2>2, ProposeFiles DEF Kinds
<1>4. CASE ProposeCommit
  <2>1. pc = "commit" /\ Proposes({"commit"})
    BY <1>4, CohortProposes DEF ProposeCommit
  <2>2. recovered /\ Mine.public = "whole"
    BY <2>1 DEF RecoveredOK, Destined
  <2> QED BY <2>1, <2>2, ProposeFiles DEF Kinds
<1>5. ASSUME Still, UNCHANGED faults PROVE FilesOK' /\ RecoveredOK'
  BY <1>5, SameFaults, StillKeeps
<1>6. CASE StartPublish \/ StartRetire
  <2>1. Still /\ UNCHANGED faults
    BY <1>6 DEF Still, StartPublish, StartRetire, Idle, outside
  <2> QED BY <1>5, <2>1
<1>7. CASE CheckAck
  <2>1. recovered
    BY <1>7 DEF CheckAck, RecoveredOK
  <2>2. Still /\ UNCHANGED faults
    BY <1>7, <2>1 DEF Still, CheckAck, Goto, Enter, outside
  <2> QED BY <1>5, <2>2
<1>8. CASE Answers
  <2>1. pc \in {"decide", "finish"} /\ \E b : Outcome(b)
    BY <1>8, AnswersOutcome
  <2>2. Still /\ UNCHANGED faults
    BY <2>1 DEF Still, Outcome, Goto, Enter
  <2> QED BY <1>5, <2>2
<1>9. CASE CohortConflict
  <2>1. Still /\ UNCHANGED faults
    BY <1>9 DEF Still, CohortConflict, Deciding, Enter, outside
  <2> QED BY <1>5, <2>1
<1>10. CASE LoadStage
  <2>1. recovered /\ pc = "decide"
    BY <1>10 DEF LoadStage, Deciding, RecoveredOK
  <2>2. Still /\ UNCHANGED faults
    BY <1>10, <2>1 DEF Still, LoadStage, Goto, Enter, outside
  <2> QED BY <1>5, <2>2
<1> QED BY <1>1, <1>2, <1>3, <1>4, <1>6, <1>7, <1>8, <1>9, <1>10 DEF Calls, Decide, Answers

(* The steps of a materialization leave the rename unsynced only on the way to   *)
(* the sync.                                                                  *)
LEMMA MaterializeFiles ==
    ASSUME LedgerInv, Destined, FilesOK, RecoveredOK, Materialize
    PROVE  FilesOK' /\ RecoveredOK'
<1>1. PICK so : so = db.stage.order
  OBVIOUS
<1>2. /\ pc \in Materializing /\ pc' \in Materializing /\ UNCHANGED <<db, txn, recovered, faults>>
      /\ so \in Orders /\ db.ledger[so].state = "none" /\ ~db.stage.latched
      /\ files' \in [Orders -> FileType]
      /\ \A o \in Orders : /\ o # so => files'[o].public = files[o].public
                           /\ files[o].synced => files'[o].synced \/ (o = so /\ pc' = "sync")
      /\ files'[so].public = "whole" <=> files[so].public = "whole" \/ pc' = "sync"
      /\ files'[so].public # "whole" => files'[so].public = files[so].public
      /\ pc = "sync" => files'[so].synced
  BY <1>1, MaterializeWrites
<1>3. Interrupted' <=> Interrupted
  BY <1>2 DEF Interrupted
<1>4. ASSUME NEW o \in Orders PROVE DirectoryOK(o)'
  <2>1. DirectoryOK(o)
    BY DEF FilesOK
  <2>2. CASE o = so
    BY <1>1, <1>2, <1>3, <2>1, <2>2 DEF DirectoryOK
  <2>3. CASE o # so
    BY <1>1, <1>2, <1>3, <2>1, <2>3 DEF DirectoryOK
  <2> QED BY <2>2, <2>3
<1>5. RecoveredOK'
  <2>1. recovered /\ \A o \in Orders : db.ledger[o].state = "retired" => o # so /\ files[o].public = "none"
    BY <1>2 DEF RecoveredOK, Materializing
  <2>2. \A o \in Orders : db'.ledger[o].state = "retired" => files'[o].public = "none"
    BY <1>2, <2>1
  <2> QED BY <1>2, <2>1, <2>2 DEF RecoveredOK, Materializing
<1> QED BY <1>4, <1>5 DEF FilesOK

LEMMA RemoveFiles ==
    ASSUME Destined, FilesOK, RecoveredOK, NEW o \in Orders, RemoveFile(o)
    PROVE  FilesOK' /\ RecoveredOK'
<1>1. /\ db.ledger[o].state = "retired" /\ UNCHANGED <<db, txn, recovered, faults>>
      /\ pc \in {"resume", "preflight", "remove"} /\ pc' \in {pc, "unlinked"}
      /\ pc = "remove" => o = txn.about
      /\ files[o].public # "none" /\ (pc' = "unlinked" => files'[o].public = "none")
      /\ \A p \in Orders : p # o => files'[p] = files[p]
  BY RemoveWrites
<1>2. ASSUME NEW p \in Orders PROVE DirectoryOK(p)'
  <2>1. CASE p = o
    BY <1>1, <2>1 DEF DirectoryOK
  <2>2. CASE p # o
    BY <1>1, <2>2 DEF FilesOK, DirectoryOK, Interrupted
  <2> QED BY <2>1, <2>2
<1>3. RecoveredOK'
  <2>1. recovered => pc = "remove" /\ txn.about = o
    BY <1>1 DEF RecoveredOK
  <2>2. \A p \in Orders : recovered /\ db.ledger[p].state = "retired" /\ p # o => files'[p].public = "none"
    BY <1>1, <2>1 DEF RecoveredOK
  <2>3. recovered \/ pc = "resume"
    BY <1>1 DEF RecoveredOK
  <2> QED BY <1>1, <2>1, <2>2, <2>3 DEF RecoveredOK
<1> QED BY <1>2, <1>3 DEF FilesOK

LEMMA RecordFiles ==
    ASSUME LedgerInv, FilesOK, RecoveredOK, FaultsStep, NEW o \in Orders, RecordRetirement(o)
    PROVE  FilesOK' /\ RecoveredOK'
<1>0. DataInv /\ ControlOK
  BY DEF LedgerInv
<1>1. pc = "record" /\ o \in acked /\ db.ledger[o].state = "ready" /\ recovered
  BY <1>0 DEF RecordRetirement, ControlOK, RecoveredOK
<1> DEFINE t == [kind |-> "retire", new |-> RetiredEntry(db, o), old |-> db, attempt |-> 0, about |-> o]
<1>2. t.kind = "retire" /\ t.new = RetiredEntry(db, o) /\ t.about = o /\ Attempt(t)
  BY DEF RecordRetirement, Propose
<1> HIDE DEF t
<1>3. /\ acked' = acked /\ files' = files
      /\ db' = db \/ db' = RetiredEntry(db, o)
      /\ \/ pc' = "remove" /\ recovered' = recovered /\ txn' = t /\ db' = RetiredEntry(db, o)
         \/ pc' = "idle" /\ recovered' = FALSE
  BY <1>2 DEF Attempt, Applied, After, Enter, outside
<1>5. CASE db' = db /\ recovered' = FALSE
  <2>1. Still
    BY <1>1, <1>3, <1>5 DEF Still
  <2> QED BY <2>1, StillKeeps
<1>6. CASE db' = RetiredEntry(db, o)
  <2>1. /\ db'.ledger[o].state = "retired" /\ \A p \in Orders : p # o => db'.ledger[p] = db.ledger[p]
        /\ db'.stage = db.stage
    BY <1>0, <1>1, <1>3, <1>6, RetireKeeps
  <2>2. Interrupted => Interrupted'
    BY DEF FaultsStep
  <2>3. ASSUME NEW p \in Orders PROVE DirectoryOK(p)'
    <3>1. DirectoryOK(p)
      BY DEF FilesOK
    <3>2. CASE p = o
      BY <2>1, <3>2 DEF DirectoryOK
    <3>3. CASE p # o
      BY <1>1, <1>3, <2>1, <2>2, <3>1, <3>3 DEF DirectoryOK
    <3> QED BY <3>2, <3>3
  <2>4. FilesOK'
    BY <2>3 DEF FilesOK
  <2>5. \A p \in Orders : db'.ledger[p].state = "retired" => p = o \/ files[p].public = "none"
    BY <1>1, <2>1 DEF RecoveredOK
  <2>6. RecoveredOK'
    BY <1>1, <1>2, <1>3, <2>5 DEF RecoveredOK
  <2> QED BY <2>4, <2>6
<1> QED BY <1>3, <1>5, <1>6

(* A call passes its recovery, and a removal, only when nothing is left.         *)
LEMMA RetiringFiles ==
    ASSUME LedgerInv, Destined, FilesOK, RecoveredOK, FaultsStep, Retiring
    PROVE  FilesOK' /\ RecoveredOK'
<1>1. ASSUME NEW o \in Orders, RemoveFile(o) PROVE FilesOK' /\ RecoveredOK'
  BY <1>1, RemoveFiles
<1>2. ASSUME NEW o \in Orders, RecordRetirement(o) PROVE FilesOK' /\ RecoveredOK'
  BY <1>2, RecordFiles
<1>3. ASSUME files' = files, db' = db, faults' = faults, pc # "sync"
      PROVE  FilesOK'
  BY <1>3 DEF FilesOK, DirectoryOK, Interrupted
<1>4. CASE ResumeDone
  <2>1. \A o \in Orders : db.ledger[o].state = "retired" => files[o].public = "none"
    BY <1>4 DEF ResumeDone, Cleared, Doomed
  <2>2. files' = files /\ db' = db /\ faults' = faults /\ pc = "resume" /\ pc' = "ack" /\ recovered'
    BY <1>4 DEF ResumeDone, Goto, Enter
  <2>3. RecoveredOK'
    BY <2>1, <2>2 DEF RecoveredOK
  <2> QED BY <1>3, <2>2, <2>3
<1>5. CASE Removed
  <2>1. recovered /\ txn.about \in Orders
    BY <1>5 DEF Removed, RecoveredOK
  <2>2. files' = files /\ db' = db /\ faults' = faults /\ pc = "remove" /\ pc' = "record" /\ recovered' = recovered
    BY <1>5 DEF Removed, outside
  <2>3. db.ledger[txn.about].state = "retired" => files[txn.about].public = "none"
    BY <1>5, <2>1 DEF Removed, Cleared, Doomed
  <2>4. \A o \in Orders : db.ledger[o].state = "retired" => files[o].public = "none"
    BY <2>1, <2>3 DEF RecoveredOK
  <2>5. RecoveredOK'
    BY <2>1, <2>2, <2>4 DEF RecoveredOK
  <2> QED BY <1>3, <2>2, <2>5
<1>6. CASE Preflight \/ ConfirmBatch
  <2>1. recovered
    BY <1>6 DEF Preflight, ConfirmBatch, RecoveredOK
  <2>2. Still
    BY <1>6, <2>1 DEF Still, Preflight, ConfirmBatch, Goto, Enter
  <2> QED BY <2>2, StillKeeps
<1>7. CASE SyncRemoved
  <2>1. /\ files' = Synced(files) /\ UNCHANGED <<db, txn, recovered, faults>> /\ pc = "unlinked"
        /\ pc' = IF ~recovered THEN "resume" ELSE IF txn = NoTxn THEN "preflight" ELSE "remove"
    BY <1>7 DEF SyncRemoved, SetFiles, Goto, Enter
  <2>2. \A o \in Orders : files'[o].public = files[o].public /\ files'[o].synced = TRUE
    BY <2>1, SyncedIs DEF Destined
  <2>3. FilesOK'
    BY <2>1, <2>2 DEF FilesOK, DirectoryOK
  <2>4. RecoveredOK'
    BY <2>1, <2>2 DEF RecoveredOK
  <2> QED BY <2>3, <2>4
<1> QED BY <1>1, <1>2, <1>4, <1>5, <1>6, <1>7 DEF Retiring

LEMMA TransactFiles ==
    ASSUME LedgerInv, Destined, FilesOK, RecoveredOK, faults \in FaultsType, Transact
    PROVE  FilesOK' /\ RecoveredOK'
<1>0. DataInv /\ ControlOK /\ pc = "inspect"
  BY DEF LedgerInv, Transact, InspectOld, InspectProposed, GiveUp
<1>1. Doubt /\ (txn.kind # "raw" => recovered)
  BY <1>0 DEF ControlOK, RecoveredOK
<1>2. CASE InspectOld
  <2>1. PICK kind, about, new :
              /\ kind \in Kinds /\ kind = txn.kind /\ Sound(kind, about, new)
              /\ Attempt([kind |-> kind, new |-> new, old |-> db, attempt |-> 1, about |-> about])
    BY <1>2, RetryProposes
  <2>2. db = txn.old
    BY <1>0, <1>1, <1>2, InspectedIs DEF InspectOld, Destined, ReadySource
  <2>3. kind = "commit" => Mine.public = "whole"
    BY <1>0, <2>1, <2>2 DEF Destined, Mine
  <2> QED BY <1>0, <1>1, <2>1, <2>3, AttemptFiles
<1>3. CASE InspectProposed
  <2>1. pc' \in {"decide", "files", "finish", "idle"} /\ (pc' # "idle" => txn.kind # "raw")
    BY <1>1, <1>3 DEF InspectProposed, Applied, After, Doubt, Kinds
  <2>2. db' = db /\ files' = files /\ recovered' = recovered /\ faults' = faults
    BY <1>3 DEF InspectProposed, outside
  <2>3. Still
    BY <1>0, <1>1, <2>1, <2>2 DEF Still
  <2> QED BY <2>2, <2>3, StillKeeps, SameFaults
<1>4. CASE GiveUp
  <2>1. Still /\ faults' = faults
    BY <1>0, <1>4 DEF Still, GiveUp, Enter, outside
  <2> QED BY <2>1, StillKeeps, SameFaults
<1> QED BY <1>2, <1>3, <1>4 DEF Transact

LEMMA FaultyFiles ==
    ASSUME LedgerInv, FilesOK, RecoveredOK, faults \in FaultsType, FaultsStep, Faulty
    PROVE  FilesOK' /\ RecoveredOK'
<1>0. DataInv /\ ControlOK
  BY DEF LedgerInv
<1>1. CASE InspectUnreadable \/ SpaceRefused \/ EndRetire \/ RemovalFails
  <2>1. Still
    BY <1>1 DEF Still, InspectUnreadable, SpaceRefused, ReadyToReserve, Deciding, EndRetire, RemovalFails,
                Goto, Enter, outside
  <2> QED BY <2>1, StillKeeps
<1>2. ASSUME NEW latched \in BOOLEAN, WriteFails(latched) PROVE FilesOK' /\ RecoveredOK'
  <2>1. db.cohort.life = "staging" /\ ~db.stage.latched
    BY <1>0, <1>2 DEF WriteFails, ControlOK
  <2>2. /\ db' = [db EXCEPT !.stage = [@ EXCEPT !.latched = latched]]
        /\ acked' = acked /\ files' = files /\ recovered' = recovered /\ pc' = "idle"
        /\ pc \in {"files", "writing", "sync", "commit"}
    BY <1>2 DEF WriteFails, Enter
  <2>3. db'.ledger = db.ledger /\ db'.stage.latched = latched /\ db'.stage.order = db.stage.order
    BY <1>0, <2>1, <2>2, LatchKeeps
  <2>4. pc = "sync" /\ ~latched => Interrupted'
    BY <1>2, FaultIs DEF WriteFails
  <2>5. Still
    BY <2>1, <2>2, <2>3, <2>4 DEF Still
  <2> QED BY <2>5, StillKeeps
<1> QED BY <1>1, <1>2 DEF Faulty

(* A power loss may undo a rename, or a removal, that was not synced: never of   *)
(* a ready artifact when no sync was cut off before it.                         *)
LEMMA PowerLossFiles ==
    ASSUME LedgerInv, Destined, FilesOK, RecoveredOK, faults \in FaultsType, PowerLoss, Recoverable'
    PROVE  FilesOK' /\ RecoveredOK'
<1>1. db' = db /\ pc' = "idle" /\ recovered' = FALSE
  BY DEF PowerLoss, Restart
<1>2. ~Interrupted
  BY FaultIs DEF PowerLoss
<1>3. \A o \in Orders : files[o] \in FileType /\ files'[o] \in Survives(files[o])
  BY DEF PowerLoss, Destined
<1>4. ASSUME NEW o \in Orders PROVE DirectoryOK(o)'
  <2>1. DirectoryOK(o)
    BY DEF FilesOK
  <2>2. files'[o].synced = TRUE /\ (files[o].synced => files'[o].public = files[o].public)
    BY <1>3, SurvivesIs
  <2>3. o = db.stage.order => db.ledger[o].state # "ready"
    BY StageOrderIs DEF LedgerInv, DataInv, StageOK, NoEntry
  <2>4. ~files[o].synced => /\ db.ledger[o].state # "ready"
                            /\ db.ledger[o].state # "none" \/ o = db.stage.order
    BY <1>2, <2>1, <2>3 DEF DirectoryOK
  <2> QED BY <1>1, <2>1, <2>2, <2>4 DEF DirectoryOK
<1>5. RecoveredOK'
  BY <1>1 DEF RecoveredOK
<1> QED BY <1>4, <1>5 DEF FilesOK

LEMMA OutsideFiles ==
    ASSUME LedgerInv, Destined, FilesOK, RecoveredOK, faults \in FaultsType, FaultsStep, Environment,
           Recoverable'
    PROVE  FilesOK' /\ RecoveredOK'
<1>0. DataInv /\ ControlOK
  BY DEF LedgerInv
<1>1. ASSUME NEW s \in Sources, Seal(s) \/ Certify(s) PROVE FilesOK' /\ RecoveredOK'
  <2>1. PICK rows : db' = [db EXCEPT !.row = rows]
    BY <1>1 DEF Seal, Certify, EditedRow
  <2>2. db'.ledger = db.ledger /\ db'.stage = db.stage
    BY <1>0, <2>1 DEF DataInv, DbType
  <2>3. Still
    BY <1>1, <2>2 DEF Still, Seal, Certify, Idle, outside
  <2> QED BY <2>3, StillKeeps
<1>2. CASE Close
  <2>1. Still
    BY <1>2 DEF Still, Close, Idle
  <2> QED BY <2>1, StillKeeps
<1>3. ASSUME NEW o \in Orders, Acknowledge(o) PROVE FilesOK' /\ RecoveredOK'
  <2>1. /\ UNCHANGED <<db, files, permit, pc, job, txn, batch, recovered, stop, faults>>
    BY <1>3 DEF Acknowledge
  <2> QED BY <2>1 DEF FilesOK, DirectoryOK, Interrupted, RecoveredOK
<1>4. CASE ProcessCrash
  <2>1. Interrupted'
    BY <1>4, FaultIs DEF ProcessCrash
  <2>2. Still
    BY <1>4, <2>1 DEF Still, ProcessCrash, Restart
  <2> QED BY <2>2, StillKeeps
<1>5. CASE PowerLoss
  BY <1>5, PowerLossFiles
<1> QED BY <1>1, <1>2, <1>3, <1>4, <1>5 DEF Environment

LEMMA StepFiles ==
    ASSUME LedgerInv, Destined, FilesInv, [Next]_vars
    PROVE  FilesInv'
<1>1. faults \in FaultsType /\ FaultsStep
  BY StepFaults DEF FilesInv
<1>2. ASSUME Recoverable' PROVE FilesOK' /\ RecoveredOK'
  <2>1. FilesOK /\ RecoveredOK
    BY <1>1, <1>2 DEF FaultsStep, FilesInv
  <2>2. CASE UNCHANGED vars
    BY <2>1, <2>2 DEF FilesOK, DirectoryOK, Interrupted, RecoveredOK, vars
  <2> QED BY <1>1, <1>2, <2>1, <2>2, OutsideFiles, DecideFiles, MaterializeFiles, RetiringFiles,
             TransactFiles, FaultyFiles DEF Next, Steps
<1> QED BY <1>1, <1>2 DEF FilesInv, FaultsStep

LEMMA InitFiles ==
    ASSUME Init
    PROVE  FilesInv
<1>1. NoFiles \in FileType /\ NoFiles.public = "none" /\ NoFiles.synced = TRUE
  BY DEF NoFiles, FileType
<1>2. files = [o \in Orders |-> NoFiles] /\ pc = "idle" /\ recovered = FALSE /\ faults \in FaultsType
  BY DEF Init, FaultsType
<1>3. NoEntry.state = "none" /\ db.ledger = [o \in Orders |-> NoEntry]
  BY DEF Init, NoEntry
<1>4. \A o \in Orders : DirectoryOK(o)
  BY <1>1, <1>2, <1>3 DEF DirectoryOK
<1>5. FilesOK
  BY <1>4 DEF FilesOK
<1>6. RecoveredOK
  BY <1>2 DEF RecoveredOK
<1> QED BY <1>2, <1>5, <1>6 DEF FilesInv

(* Directories, artifacts and recovery agree in every behaviour that had no      *)
(* power loss, or no sync cut off: FilesInv is an invariant.  (The destination    *)
(* of a rename whose sync was cut off is reused unsynced, ReuseDestination; a      *)
(* power loss that comes later still can take it back.)                       *)
THEOREM FilesInductive == Spec => []FilesInv
<1>1. Init => FilesInv
  BY InitFiles
<1>2. LedgerInv /\ Destined /\ FilesInv /\ [Next]_vars => FilesInv'
  BY StepFiles
<1> QED BY <1>1, <1>2, Inductive, PTL DEF Spec

(* Every artifact the database calls ready has its whole directory and its      *)
(* active proof, and no other proof is left over, whichever steps of            *)
(* publication and of retirement are interrupted, however often: by crashes and *)
(* errors of every kind, or by power losses and the errors that leave no         *)
(* renamed destination unsynced (faults.sync counts those that do).             *)
THEOREM ReadyStaysWhole == Spec => [](Recoverable => ReadyIsWhole)
<1>1. LedgerInv /\ FilesInv => (Recoverable => ReadyIsWhole)
  <2> SUFFICES ASSUME LedgerInv, FilesInv, Recoverable PROVE ReadyIsWhole
    OBVIOUS
  <2>1. FilesOK /\ LedgerOK
    BY DEF FilesInv, LedgerInv, DataInv
  <2>2. \A o \in Entries(db, "ready") : files[o].public = "whole" /\ db.proof[o] = "active"
    BY <2>1 DEF Entries, FilesOK, DirectoryOK, LedgerOK
  <2>3. db.proof \in [Orders -> ProofStates]
    BY DbFields DEF LedgerInv, DataInv
  <2>4. ASSUME NEW o \in Orders, db.proof[o] # "none"
        PROVE  db.ledger[o].state = "ready" \/ (db.proof[o] = "staging" /\ db.stage.order = o)
    <3>1. db.proof[o] \in {"staging", "active"}
      BY <2>3, <2>4 DEF ProofStates
    <3> QED BY <2>1, <3>1 DEF LedgerOK
  <2> QED BY <2>2, <2>4 DEF ReadyIsWhole
<1> QED BY <1>1, Inductive, FilesInductive, PTL

(* A publication call that has finished its recovery finds exactly the           *)
(* directories and the proofs of the ready artifacts, next to at most its own    *)
(* stage (_v2_ready_custody): no crash, and no retirement that was cut short, *)
(* makes it refuse its own feed.                                               *)
THEOREM Authenticates == Spec => [](Recoverable => CustodyAuthenticates)
<1>1. LedgerInv /\ FilesInv => (Recoverable => CustodyAuthenticates)
  <2> SUFFICES ASSUME LedgerInv, FilesInv, Recoverable, pc = "decide"
               PROVE  CustodyIntact(IF db.cohort.life = "staging" THEN db.stage.order ELSE -1)
    BY DEF CustodyAuthenticates
  <2>1. FilesOK /\ RecoveredOK /\ LedgerOK /\ StageOK
    BY DEF FilesInv, LedgerInv, DataInv
  <2> DEFINE pending == IF db.cohort.life = "staging" THEN db.stage.order ELSE -1
  <2>2. /\ db.stage.order = pending
        /\ pending \in Orders => db.ledger[pending].state = "none"
    <3>1. CASE db.cohort.life = "staging"
      BY <2>1, <3>1 DEF StageOK, NoEntry
    <3>2. CASE db.cohort.life # "staging"
      BY <2>1, <3>2, BoundsAssumption DEF StageOK, NoStage, Orders
    <3> QED BY <3>1, <3>2
  <2> HIDE DEF pending
  <2>3. \A o \in Orders : db.ledger[o].state = "retired" => files[o].public = "none"
    BY <2>1 DEF RecoveredOK
  <2>4. \A o \in Orders : db.ledger[o].state \in {"none", "ready", "retired"}
    BY DbFields, EntryFields DEF LedgerInv, DataInv
  <2>5. \A o \in Orders : db.ledger[o].state = "ready" <=> files[o].public # "none" /\ o # pending
    BY <2>1, <2>2, <2>3, <2>4 DEF FilesOK, DirectoryOK
  <2>6. \A o \in Entries(db, "ready") : ReadySource(o)
    BY <2>1 DEF Entries, ReadySource, FilesOK, DirectoryOK
  <2>7. ActiveProofs = Entries(db, "ready")
    BY <2>1 DEF ActiveProofs, Entries, LedgerOK
  <2>8. {o \in Orders : files[o].public # "none"} \ {pending} = Entries(db, "ready")
    BY <2>5 DEF Entries
  <2>9. CustodyIntact(pending)
    BY <2>6, <2>7, <2>8 DEF CustodyIntact
  <2> QED BY <2>9 DEF pending
<1> QED BY <1>1, Inductive, FilesInductive, PTL

(* A committed artifact is one that no power loss takes back, however often the  *)
(* power failed or a commit was retried, as long as no sync was cut off between   *)
(* its rename and its end: there are two ways to an unsynced artifact, both       *)
(* through the destination that a later call reuses (_materialize_v2_stage), a    *)
(* crash of the process before the sync, and a sync that fails without a latch.   *)
THEOREM DurableUnlessCutOff == Spec => [](faults.crash = 0 /\ faults.sync = 0 => RenameIsDurable)
<1>1. LedgerInv /\ FilesInv => (faults.crash = 0 /\ faults.sync = 0 => RenameIsDurable)
  <2> SUFFICES ASSUME LedgerInv, FilesInv, faults.crash = 0 /\ faults.sync = 0,
                      NEW o \in Entries(db, "ready"), NEW f \in Survives(files[o])
               PROVE  f.public = "whole"
    BY DEF RenameIsDurable
  <2>1. FilesOK /\ StageOK
    BY DEF Interrupted, Recoverable, FilesInv, LedgerInv, DataInv
  <2>2. o \in Orders /\ db.ledger[o].state = "ready" /\ DirectoryOK(o)
    BY <2>1 DEF Entries, FilesOK
  <2>3. o # db.stage.order
    <3>1. CASE db.cohort.life = "staging"
      BY <2>1, <2>2, <3>1 DEF StageOK, NoEntry
    <3>2. CASE db.cohort.life # "staging"
      BY <2>1, <2>2, <3>2, StageOrderIs DEF StageOK
    <3> QED BY <3>1, <3>2
  <2>4. files[o].synced /\ files[o].public = "whole"
    BY <2>2, <2>3 DEF DirectoryOK, Interrupted
  <2> QED BY <2>4 DEF Survives
<1> QED BY <1>1, Inductive, FilesInductive, PTL
=============================================================================
