------------------------------- MODULE Relay -------------------------------
(***************************************************************************)
(* What a turn promises about Claude's words, with no sentences, messages  *)
(* or limits in sight: they go on in the order in which they came, none    *)
(* twice and none left out, and the turn is through only when all of them  *)
(* went on.  The streamer and the voice (tts/sentences.py, _speak_sentence *)
(* of discord_app/session.py) are one such relay, the mirror               *)
(* (discord_app/mirror.py) another.                                        *)
(***************************************************************************)
EXTENDS SequencesExt

VARIABLES given,   \* the words that came
          passed,  \* the words that went on
          state    \* "open", "through" or "broken"

vars == <<given, passed, state>>

Init ==
  /\ given = <<>>
  /\ passed = <<>>
  /\ state = "open"

\* Words come.
Give ==
  /\ state = "open"
  /\ IsPrefix(given, given')
  /\ UNCHANGED <<passed, state>>

\* Some of the words that came, and are still here, go on.
Pass ==
  /\ state = "open"
  /\ IsPrefix(passed, passed')
  /\ IsPrefix(passed', given)
  /\ UNCHANGED <<given, state>>

\* Nothing is left.
Finish ==
  /\ state = "open"
  /\ passed = given
  /\ state' = "through"
  /\ UNCHANGED <<given, passed>>

\* The turn is given up, or what takes the words refuses one.
Break ==
  /\ state = "open"
  /\ state' = "broken"
  /\ UNCHANGED <<given, passed>>

Next == Give \/ Pass \/ Finish \/ Break

Spec == Init /\ [][Next]_vars
=============================================================================
