------------------------------ MODULE MCPresence ------------------------------
(* Model checking of the presence scheduler with small timings.               *)
EXTENDS Presence

MCBackoff == <<1>>
===============================================================================
