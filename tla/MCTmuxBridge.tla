---------------------------- MODULE MCTmuxBridge ----------------------------
(* TmuxBridge for TLC.  The line that asks is prose by itself; the option   *)
(* below it is drawn in a box, which makes it furniture as well.            *)
EXTENDS TmuxBridge, TLC

CONSTANTS c1, c2, ask, yes, limit

Digits == yes :> 1
Labels == yes :> {"approve"}
=============================================================================
