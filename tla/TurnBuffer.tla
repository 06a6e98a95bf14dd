----------------------------- MODULE TurnBuffer -----------------------------
(***************************************************************************)
(* TurnBuffer (audio/turn.py): one speaker's audio, cut into turns.        *)
(*                                                                         *)
(* Audio arrives as VAD windows of 32 ms, and a window is known by its     *)
(* score: TRUE for speech.  Time is counted in windows, so that a limit of *)
(* n ms is reached after n/32 of them, rounded up.                         *)
(***************************************************************************)
EXTENDS Integers, Sequences

CONSTANTS
  PrerollWindows,    \* kept from before the trigger (preroll_ms)
  EndpointWindows,   \* of silence end a turn (endpoint_silence_ms)
  MinWindows,        \* fewer are noise (min_utterance_ms)
  MaxWindows,        \* cut a monologue (max_utterance_ms)
  TailWindows        \* of silence kept for the ASR (TAIL_KEEP_MS)

\* The ranges the settings allow; the deque keeps at least one window.
ASSUME BufferAssumption ==
  /\ PrerollWindows \in Nat \ {0}
  /\ EndpointWindows \in Nat \ {0}
  /\ MinWindows \in Nat
  /\ MaxWindows \in Nat
  /\ PrerollWindows < MaxWindows
  /\ TailWindows \in Nat

Buffer == [speaking : BOOLEAN, chunks : Seq(BOOLEAN), preroll : Seq(BOOLEAN),
           silence : Nat, speech : Nat]

\* A new buffer, and one after reset() or _finish().
Empty == [speaking |-> FALSE, chunks |-> <<>>, preroll |-> <<>>, silence |-> 0, speech |-> 0]

\* deque(maxlen=...): the oldest window makes room.
Rolled(preroll, w) ==
  IF Len(preroll) < PrerollWindows THEN Append(preroll, w) ELSE Append(Tail(preroll), w)

\* Speech begins: the pre-roll, this window included, becomes the audio.
Begun(b, w) ==
  LET preroll == Rolled(b.preroll, w) IN
  [speaking |-> TRUE, chunks |-> b.chunks \o preroll, preroll |-> <<>>,
   silence |-> 0, speech |-> Len(preroll)]

\* Fault: a word takes back one window of silence and not all of it.
GrownLeaking(b, w) ==
  [b EXCEPT !.chunks = Append(@, w),
            !.speech = @ + 1,
            !.silence = IF w THEN @ - 1 ELSE @ + 1]

Grown(b, w) ==
  [b EXCEPT !.chunks = Append(@, w),
            !.speech = @ + 1,
            !.silence = IF w THEN 0 ELSE @ + 1]

\* Fault: a monologue is never cut.
OverOnSilence(b) == b.silence >= EndpointWindows

Over(b) == b.silence >= EndpointWindows \/ b.speech >= MaxWindows

\* Fault: reset() forgets the turn and not the pre-roll.
ResetKeepingPreroll(b) == [Empty EXCEPT !.preroll = b.preroll]

Reset(b) == Empty

\* What one scored window makes of a buffer; a turn that is over leaves it
\* empty.
Advanced(b, w) ==
  IF ~b.speaking
  THEN IF w THEN Begun(b, w) ELSE [b EXCEPT !.preroll = Rolled(@, w)]
  ELSE IF Over(Grown(b, w)) THEN Empty ELSE Grown(b, w)

\* _finish: the length that decides, and the decision.
Spoken(b) == IF b.silence > b.speech THEN 0 ELSE b.speech - b.silence
Verdict(b) == IF Spoken(b) < MinWindows THEN "discarded" ELSE "utterance"

\* Fault: all of the silence is dropped, and the tail with it.
AudioWithoutTail(b) ==
  LET drop == b.silence + TailWindows
  IN IF 0 < drop /\ drop < Len(b.chunks) THEN Len(b.chunks) - drop ELSE Len(b.chunks)

\* How much of the audio is left after the silence at its end is trimmed.
AudioLength(b) ==
  LET drop == b.silence - TailWindows
  IN IF b.silence > TailWindows /\ drop < Len(b.chunks)
     THEN Len(b.chunks) - drop
     ELSE Len(b.chunks)

\* The event a window causes in a buffer, if any.
WindowEvents(b, w) ==
  IF ~b.speaking
  THEN IF w THEN {"start"} ELSE {}
  ELSE IF Over(Grown(b, w)) THEN {Verdict(Grown(b, w))} ELSE {}
=============================================================================
