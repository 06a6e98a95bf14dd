------------------------------- MODULE MCSink -------------------------------
(* Sink for TLC: two speakers, turns of a few windows.                     *)
EXTENDS Sink

CONSTANTS u1, u2
=============================================================================
