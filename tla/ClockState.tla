------------------------------ MODULE ClockState ------------------------------
(***************************************************************************)
(* The durable clock evidence (clock_state.py) and the public time frozen  *)
(* from it (public_time_facts.py): which offset maps a record's device     *)
(* time to UTC, how uncertain that is, and whether the label of a record   *)
(* may be compared with the one before it.                                 *)
(*                                                                         *)
(* Offsets and uncertainties are integers in one unit. Source ids are left *)
(* out: they only keep adjacent ranges of different anchors apart, and an  *)
(* anchor gives one range before it is replaced.                           *)
(***************************************************************************)
EXTENDS Integers, FiniteSets

CONSTANTS
    Tolerance,       \* CLOCK_DRIFT_THRESHOLD_SECONDS
    ReadUncertainty  \* of one reading of the device clock

ASSUME ClockAssumption == Tolerance \in Nat /\ ReadUncertainty \in Nat

Unset == -1
Abs(x) == IF x < 0 THEN -x ELSE x

MappedRange(a, b, offset, uncertainty) ==
    [start |-> a, next |-> b, mapped |-> TRUE, offset |-> offset, uncertainty |-> uncertainty]
UnknownRange(a, b) ==
    [start |-> a, next |-> b, mapped |-> FALSE, offset |-> 0, uncertainty |-> 0]
NoIntent == [phase |-> "none", before |-> 0, after |-> Unset]
NoAnchor == [set |-> FALSE, frontier |-> 0, offset |-> 0, uncertainty |-> 0]

\* ranges, the one outstanding clock write, the last trusted reading, and the
\* sequence intervals of completed writes (causal_uncertainty).
NoEvidence == [ranges |-> {}, intent |-> NoIntent, anchor |-> NoAnchor, uncertain |-> {}]

Span(x) == x.start .. x.next - 1
Covered(st) == UNION {Span(x) : x \in st.ranges}

\* Evidence is added to uncovered sequences only: one range for each maximal gap.
AddRange(st, r) ==
    LET free == Span(r) \ Covered(st)
        gaps == {g \in Span(r) \X (r.start + 1 .. r.next) :
                    /\ g[1] < g[2] /\ (g[1] .. g[2] - 1) \subseteq free
                    /\ g[1] - 1 \notin free /\ g[2] \notin free}
    IN [st EXCEPT !.ranges = @ \cup {[r EXCEPT !.start = g[1], !.next = g[2]] : g \in gaps}]

Continuous(st, offset) ==
    st.intent.phase = "none" /\ Abs(offset - st.anchor.offset) <= Tolerance

\* A plausible bug: what the clock drifted between two readings is forgotten.
WidenedNot(a, offset) == a.uncertainty

Widened(a, offset) == a.uncertainty + Abs(offset - a.offset)

Anchored(st, write, offset) ==
    IF \/ ~st.anchor.set \/ write # st.anchor.frontier
       \/ Abs(offset - st.anchor.offset) > Tolerance
    THEN [st EXCEPT !.anchor = [set |-> TRUE, frontier |-> write, offset |-> offset,
                                uncertainty |-> ReadUncertainty]]
    ELSE st

\* One trusted reading at INFO's cursors. What was recorded since the anchor
\* is mapped by the anchor's offset if the two readings agree.
Observe(st, read, write, offset) ==
    LET a == st.anchor
        since == IF Continuous(st, offset)
                 THEN MappedRange(a.frontier, write, a.offset, Widened(a, offset))
                 ELSE UnknownRange(a.frontier, write)
        evidence == IF ~a.set /\ read < write THEN AddRange(st, UnknownRange(read, write))
                    ELSE IF a.set /\ write > a.frontier THEN AddRange(st, since)
                    ELSE st
    IN Anchored(evidence, write, offset)

BeginIntent(st, before) ==
    [st EXCEPT !.intent = [phase |-> "prepared", before |-> before, after |-> Unset]]

MarkUncertain(st, after) ==
    [st EXCEPT !.intent = [@ EXCEPT !.phase = "uncertain", !.after = after]]

CancelPrepared(st) == [st EXCEPT !.intent = NoIntent]

Reported(st, write) ==
    IF write > st.intent.before THEN {UnknownRange(st.intent.before, write)} ELSE {}

WithRanges(st, ranges) ==
    IF ranges = {} THEN st ELSE AddRange(st, CHOOSE r \in ranges : TRUE)

\* _require_unknown_coverage, of the reported ranges and of the merged ones.
UnknownOver(zone, ranges) ==
    /\ zone \subseteq UNION {Span(x) : x \in ranges}
    /\ \A x \in ranges : Span(x) \cap zone # {} => ~x.mapped

CanFinish(st, write) ==
    LET zone == st.intent.before .. st.intent.after - 1
    IN /\ st.intent.phase = "uncertain" /\ st.intent.after # Unset
       /\ UnknownOver(zone, Reported(st, write))
       /\ UnknownOver(zone, WithRanges(st, Reported(st, write)).ranges)

\* A plausible bug: a completed write leaves no trace of its boundary.
FinishIntentForgetful(st, write) ==
    [WithRanges(st, Reported(st, write)) EXCEPT !.intent = NoIntent]

FinishIntent(st, write) ==
    [WithRanges(st, Reported(st, write)) EXCEPT
        !.intent = NoIntent,
        !.uncertain = @ \cup {<<st.intent.before, st.intent.after>>}]

-----------------------------------------------------------------------------
(* The public time of a record. *)

\* The open or bounded window of a write that may or may not have happened.
InWindow(st, s) ==
    /\ st.intent.phase = "uncertain" /\ s >= st.intent.before
    /\ st.intent.after = Unset \/ s < st.intent.after

\* _mapped_intervals
Mapped(st) ==
    {s \in UNION {Span(x) : x \in {r \in st.ranges : r.mapped}} : ~InWindow(st, s)}

\* _causal_boundaries: an empty window still separates what is on its sides.
CausalBoundaries(st) ==
    IF st.intent.phase = "uncertain" /\ st.intent.after = st.intent.before
    THEN {st.intent.before} ELSE {}

\* Adjacent mapped records of one component of PublicTimeProjection.
SameComponent(st, s) ==
    {s - 1, s} \subseteq Mapped(st) /\ s \notin CausalBoundaries(st)

Component(st, s) ==
    LET linked(a, b) == \A i \in a + 1 .. b : SameComponent(st, i)
        lows == {a \in 0 .. s : linked(a, s)}
        highs == {b \in Mapped(st) : b >= s /\ linked(s, b)}
    IN <<CHOOSE a \in lows : \A i \in lows : a <= i,
         (CHOOSE b \in highs : \A i \in highs : b >= i) + 1>>

\* _public_label: the range's mapping and the causal membership it is given.
PublicLabel(st, s) ==
    LET owners == {x \in st.ranges : s \in Span(x)}
        r == CHOOSE x \in owners : TRUE
        unknown(kind, a, b) ==
            [mapped |-> FALSE, offset |-> 0, uncertainty |-> 0, member |-> <<kind, a, b>>]
    IN IF InWindow(st, s) THEN unknown("intent", s, s)
       ELSE IF owners = {} THEN unknown("uncovered", s, s)
       ELSE IF ~r.mapped THEN unknown("range", r.start, r.next)
       ELSE [mapped |-> TRUE, offset |-> r.offset, uncertainty |-> r.uncertainty,
             member |-> <<"mapped", Component(st, s)[1], Component(st, s)[2]>>]

\* _same_causal_component: prior is the label the record before was frozen with.
Comparable(st, s, prior) ==
    LET label == PublicLabel(st, s)
    IN /\ \A u \in st.uncertain : ~(u[1] <= s /\ s <= u[2])
       /\ \/ prior.member = label.member
          \/ prior.mapped /\ label.mapped /\ Component(st, s)[1] <= s - 1
=============================================================================
