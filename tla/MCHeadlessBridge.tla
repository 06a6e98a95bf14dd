-------------------------- MODULE MCHeadlessBridge --------------------------
(* HeadlessBridge for TLC.                                                 *)
EXTENDS HeadlessBridge

CONSTANTS c1, c2, c3, bash, write
=============================================================================
