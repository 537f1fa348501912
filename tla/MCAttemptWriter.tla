-------------------------- MODULE MCAttemptWriter --------------------------
(* TLC instance of AttemptWriter; its .cfg files give the constants.        *)
EXTENDS AttemptWriter
=============================================================================
