---------------------------- MODULE MCAudioStore ----------------------------
(* One attempt and one imported source.                                      *)
EXTENDS AudioStore

MCSources == 1..2
MCLegacy == {2}
MCValues == {"x", "y"}
=============================================================================
