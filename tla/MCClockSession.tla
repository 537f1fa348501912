---------------------------- MODULE MCClockSession ----------------------------
\* The clock session for TLC.
EXTENDS ClockSession
=============================================================================
