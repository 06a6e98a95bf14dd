--------------------------- MODULE MCVoiceSession ---------------------------
(* VoiceSession for TLC: two guilds that share the bridge.  Both commands  *)
(* are given in one of them, where they race for its latch.                *)
EXTENDS VoiceSession, TLC

CONSTANTS g1, g2, u1, u2, r1, k1, k2

TwoGuilds == (u1 :> g1) @@ (u2 :> g2) @@ (k1 :> g1) @@ (k2 :> g1)
=============================================================================
