------------------------------- MODULE MCPlayback -------------------------------
(* Playback for TLC: two sources are one that plays and its replacement.   *)
EXTENDS Playback

CONSTANTS s1, s2, t1, t2
=============================================================================
