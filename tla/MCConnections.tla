----------------------------- MODULE MCConnections -----------------------------
(* Connections for TLC: a guild with two channels.                         *)
EXTENDS Connections

CONSTANTS s1, s2, t1, a, b
=============================================================================
