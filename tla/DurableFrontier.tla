-------------------------- MODULE DurableFrontier --------------------------
(***************************************************************************)
(* What a durable writer promises to the coordinator, without threads,      *)
(* queues or chunks: a submitted frontier, a stored frontier that follows   *)
(* it, an acknowledged count that is never ahead of the store, a final      *)
(* state after which nothing moves, and a failure after which nothing more  *)
(* is acknowledged.                                                         *)
(***************************************************************************)
EXTENDS Integers

CONSTANT Capacity

VARIABLES submitted, stored, acked, final, failed

vars == <<submitted, stored, acked, final, failed>>

Init == submitted = 0 /\ stored = 0 /\ acked = 0 /\ final = FALSE /\ failed = FALSE

Submit ==
    /\ ~final /\ ~failed
    /\ \E n \in submitted..Capacity : submitted' = n
    /\ UNCHANGED <<stored, acked, final, failed>>

Persist ==
    /\ ~final /\ ~failed
    /\ \E n \in stored..submitted : stored' = n
    /\ UNCHANGED <<submitted, acked, final, failed>>

Acknowledge ==
    /\ ~failed
    /\ acked' = stored
    /\ UNCHANGED <<submitted, stored, final, failed>>

Finalize ==
    /\ ~failed
    /\ final' = TRUE
    /\ UNCHANGED <<submitted, stored, acked, failed>>

(* A failing operation may have taken effect before it was reported.        *)
Fail ==
    /\ ~failed /\ failed' = TRUE
    /\ \E n \in stored..submitted : stored' = n
    /\ final' \in {final, TRUE}
    /\ final => stored' = stored
    /\ UNCHANGED <<submitted, acked>>

Next == Submit \/ Persist \/ Acknowledge \/ Finalize \/ Fail

Spec == Init /\ [][Next]_vars
=============================================================================
