---------------------------- MODULE AudioMachine ----------------------------
(***************************************************************************)
(* The pure reducers of domain/internal_audio_machine.py that the storage   *)
(* adapters consult before they write: the life cycle of one capture source, *)
(* the disposition of quarantined evidence, and the steps of one salvage    *)
(* attempt (domain/quarantine_machine.py).  A decision is the next state    *)
(* with the one operation it authorises; the flags a caller never varies    *)
(* are at the value it passes.                                              *)
(***************************************************************************)
EXTENDS Naturals

Active == {"prepared", "leg_prepared", "receiving", "interrupted"}
Phases == Active \cup {"sealed_waiting", "blocked", "covered", "retiring"}
Dispositions == {"unclassified", "published_prefix", "unprocessable"}

To(next, action) == [next |-> next, action |-> action]
Refuse(state) == To(state, "refuse")
-----------------------------------------------------------------------------
(* The source: "none" is a source that has no row.                           *)

Create(p) == IF p = "none" THEN To("prepared", "persist") ELSE Refuse(p)

PrepareLeg(p, exact) ==
    CASE p \in {"prepared", "interrupted"} -> To("leg_prepared", "persist")
      [] p = "leg_prepared" /\ exact       -> To(p, "idempotent")
      [] OTHER                             -> Refuse(p)

ReadBegin(p, matching, duplicate) ==
    CASE p = "leg_prepared" /\ matching              -> To("receiving", "persist")
      [] p = "receiving" /\ matching /\ duplicate    -> To(p, "idempotent")
      [] OTHER                                       -> Refuse(p)

Data(p) == IF p = "receiving" THEN To(p, "persist") ELSE Refuse(p)

Done(p) ==
    IF p \in {"receiving", "interrupted"} THEN To("sealed_waiting", "persist") ELSE Refuse(p)

TerminalPrefix(p) ==
    CASE p \in Active          -> To("sealed_waiting", "persist")
      [] p = "sealed_waiting"  -> To(p, "idempotent")
      [] OTHER                 -> Refuse(p)

Interruption(p) ==
    CASE p \in Active \ {"interrupted"}        -> To("interrupted", "persist")
      [] p = "interrupted"                     -> To(p, "idempotent")
      [] p \in {"sealed_waiting", "blocked"}   -> To(p, "inspect_only")
      [] OTHER                                 -> Refuse(p)

Conflict(p) ==
    IF p \in Active \cup {"sealed_waiting", "blocked"} THEN To("blocked", "block") ELSE Refuse(p)

SourceIntegrityHold(p) ==
    IF p \in {"blocked", "covered", "retiring"} THEN To("blocked", "block") ELSE Refuse(p)

ReadyCustody(p, certified) ==
    CASE p = "sealed_waiting" \/ (p = "blocked" /\ certified) -> To("covered", "retire")
      [] p = "covered"                                        -> To(p, "idempotent")
      [] OTHER                                                -> Refuse(p)

BeginRetirement(p) == IF p = "covered" THEN To("retiring", "retire") ELSE Refuse(p)

RetirementStep(p, final) ==
    IF p = "retiring" THEN To(IF final THEN "none" ELSE p, "retire") ELSE Refuse(p)
-----------------------------------------------------------------------------
(* The evidence of a quarantined source.                                     *)

QuarantineOpened(d, count, hasRecords) ==
    IF d # "unclassified" THEN Refuse(d)
    ELSE IF count > 0 \/ hasRecords THEN To(d, "keep")
    ELSE To("unprocessable", "mark_unprocessable")

(* Records without a checkpoint contradict it: they wait for custody review.  *)
ClassifyConflict(count, hasRecords) ==
    [disp |-> QuarantineOpened("unclassified", count, hasRecords).next,
     held |-> count = 0 /\ hasRecords]

CertifiedPrefix(d) ==
    IF d = "unclassified" THEN To("published_prefix", "publish_prefix") ELSE Refuse(d)

MarkUnprocessable(d) ==
    IF d = "unclassified" THEN To("unprocessable", "mark_unprocessable") ELSE Refuse(d)

ResidualExpiry(d) == IF d = "unclassified" THEN Refuse(d) ELSE To(d, "retire")

CanonicalExpiry(d, p, referenced) ==
    IF d # "unprocessable" \/ p # "blocked" THEN Refuse(d)
    ELSE IF referenced THEN To(d, "keep") ELSE To(d, "retire")
-----------------------------------------------------------------------------
(* One salvage attempt: what the maintenance loop does with each outcome.     *)

Undecided == {"retryable", "invalid_evidence"}

Salvage(q, event) ==
    CASE q = "recovering" /\ event = "recovered_retryable"     -> To("retryable", "salvage")
      [] q = "recovering" /\ event = "recovered_invalid"       -> To("invalid_evidence", "reauthenticate")
      [] q \in Undecided /\ event = "retryable_failure"        -> To(q, "keep")
      [] q \in Undecided /\ event \in {"defer", "cancel"}      -> To("deferred", "wait")
      [] OTHER                                                 -> Refuse(q)
=============================================================================
