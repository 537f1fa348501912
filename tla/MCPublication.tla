---------------------------- MODULE MCPublication ----------------------------
(* Model checking of the publication state machine and its workers.          *)
EXTENDS Publication
==============================================================================
