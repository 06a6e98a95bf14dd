--------------------------------- MODULE Sink ---------------------------------
(***************************************************************************)
(* Sink (audio/sink.py): where audio comes in and is cut into turns.       *)
(*                                                                         *)
(* Four threads change the buffers.  The reader calls write() for every    *)
(* frame, the router calls the listeners, the event loop runs the endpoint *)
(* watchdog and /mute, and a stopper runs cleanup().  They share the       *)
(* buffer lock.  Only the reader holds it over a step of its own, across   *)
(* VAD inference; for the others a critical section is one step.           *)
(*                                                                         *)
(* A thread hands the events it took to the event loop when it has let go  *)
(* of the lock; that changes nothing here and is no step.                  *)
(*                                                                         *)
(* A score can be either value for every window, whatever the VAD's state. *)
(* The decoders, the decryptor and the diagnosis counters are left out: no *)
(* turn depends on them but through frames that are dropped.  So is the    *)
(* allowlist, which only decides whether a frame gets into Write.          *)
(***************************************************************************)
EXTENDS TurnBuffer, FiniteSets

CONSTANTS Users,  \* everyone the allowlist lets in
          NULL    \* no buffer, nobody

ASSUME SinkAssumption == NULL \notin Buffer \cup Users

VARIABLES
  buffers,    \* _buffers
  lastAudio,  \* _last_audio_at, as an age: "none" for no entry, then "fresh",
              \* "stalled" after endpoint_silence_ms, "idle" after the TTL
  at,         \* where the reader is in write()
  speaker,    \* whose frame it has, NULL for none
  muted,      \* _muted
  muting,     \* is the event loop in set_muted(True), waiting for the lock
  closed,     \* has cleanup() run
  events      \* what the last step took out of the buffers

reader == <<at, speaker>>
mute == <<muted, muting>>
vars == <<buffers, lastAudio, reader, mute, closed, events>>

Event == {"start", "utterance", "discarded"} \X Users

Init ==
  /\ buffers = [u \in Users |-> NULL]
  /\ lastAudio = [u \in Users |-> "none"]
  /\ at = "idle"
  /\ speaker = NULL
  /\ muted = FALSE
  /\ muting = FALSE
  /\ closed = FALSE
  /\ events = {}

Speaking(u) == buffers[u] # NULL /\ buffers[u].speaking
LockFree == at # "pushing"

\* Whatever an ended turn was worth: the event a flush returns, if any.
FlushEvents(users) == {<<Verdict(buffers[u]), u>> : u \in {v \in users : Speaking(v)}}

Return == at' = "idle" /\ speaker' = NULL

\* Most steps take no event.
Silent == events' = {}

-----------------------------------------------------------------------------
(* write(), on the reader thread.                                          *)

\* Past the gates: the allowlist, then mute.
Write(u) ==
  /\ at = "idle"
  /\ ~muted /\ ~closed
  /\ at' = "gated"
  /\ speaker' = u
  /\ Silent
  /\ UNCHANGED <<buffers, lastAudio, mute, closed>>

Decode ==
  /\ at = "gated"
  /\ at' = "decoded"
  /\ Silent
  /\ UNCHANGED <<buffers, lastAudio, speaker, mute, closed>>

\* Decryption or decoding gave nothing.
Drop ==
  /\ at = "gated"
  /\ Return
  /\ Silent
  /\ UNCHANGED <<buffers, lastAudio, mute, closed>>

\* Nobody is reclaimed while there is at most one buffer.
Crowded == \E u, v \in Users : u # v /\ buffers[u] # NULL /\ buffers[v] # NULL

\* Fault: turns in progress are reclaimed too.
ReclaimableSpeaking(u) == Crowded /\ u # speaker /\ lastAudio[u] = "idle"

Reclaimable(u) == Crowded /\ u # speaker /\ lastAudio[u] = "idle" /\ ~Speaking(u)

\* The speaker's time is noted before idle buffers are looked for.
Reclaim ==
  lastAudio' = [u \in Users |-> IF u = speaker THEN "fresh"
                                ELSE IF Reclaimable(u) THEN "none" ELSE lastAudio[u]]

\* The buffers left then, and one for the speaker.
Kept(u) == IF Reclaimable(u) THEN NULL ELSE buffers[u]
KeptFor(u) == IF u = speaker /\ buffers[u] = NULL THEN Empty ELSE Kept(u)

Lock ==
  /\ at = "decoded"
  /\ at' = "pushing"
  /\ Reclaim
  /\ buffers' = [u \in Users |-> KeptFor(u)]
  /\ Silent
  /\ UNCHANGED <<speaker, mute, closed>>

\* Making the buffer raised, or the resampler or the VAD did.
PushFails ==
  /\ at = "decoded"
  /\ Return
  /\ Reclaim
  /\ \/ buffers' = [u \in Users |-> Kept(u)]
     \/ buffers' = [u \in Users |-> KeptFor(u)]
  /\ Silent
  /\ UNCHANGED <<mute, closed>>

\* A frame of 320 samples completes at most one window of 512.
PushNothing ==
  /\ at = "pushing"
  /\ Return
  /\ Silent
  /\ UNCHANGED <<buffers, lastAudio, mute, closed>>

Push(w) ==
  /\ at = "pushing"
  /\ Return
  /\ buffers' = [buffers EXCEPT ![speaker] = Advanced(@, w)]
  /\ events' = WindowEvents(buffers[speaker], w) \X {speaker}
  /\ UNCHANGED <<lastAudio, mute, closed>>

-----------------------------------------------------------------------------
(* The listeners, on the router thread.  The speaking flags start and end  *)
(* no turn; a disconnect ends one.                                         *)

Disconnect(u) ==
  /\ LockFree
  /\ buffers' = [buffers EXCEPT ![u] = NULL]
  /\ lastAudio' = [lastAudio EXCEPT ![u] = "none"]
  /\ events' = FlushEvents({u})
  /\ UNCHANGED <<reader, mute, closed>>

-----------------------------------------------------------------------------
(* The event loop: the endpoint watchdog and /mute.                        *)

\* Fault: turns that would be discarded are left alone.
WorthSweeping(u) ==
  Speaking(u) /\ lastAudio[u] \in {"stalled", "idle"} /\ Verdict(buffers[u]) = "utterance"

Sweepable(u) == Speaking(u) /\ lastAudio[u] \in {"stalled", "idle"}

\* A tick that finds the lock taken does nothing.
Sweep ==
  /\ ~muted /\ ~closed
  /\ LockFree
  /\ \E u \in Users : Sweepable(u)
  /\ buffers' = [u \in Users |-> IF Sweepable(u) THEN Empty ELSE buffers[u]]
  /\ events' = FlushEvents({u \in Users : Sweepable(u)})
  /\ UNCHANGED <<lastAudio, reader, mute, closed>>

Mute ==
  /\ ~muting
  /\ muted' = TRUE
  /\ muting' = TRUE
  /\ Silent
  /\ UNCHANGED <<buffers, lastAudio, reader, closed>>

MuteResets ==
  /\ muting
  /\ LockFree
  /\ muting' = FALSE
  /\ buffers' = [u \in Users |-> IF buffers[u] = NULL THEN NULL ELSE Reset(buffers[u])]
  /\ Silent
  /\ UNCHANGED <<lastAudio, reader, muted, closed>>

Unmute ==
  /\ muted /\ ~muting
  /\ muted' = FALSE
  /\ Silent
  /\ UNCHANGED <<buffers, lastAudio, reader, muting, closed>>

-----------------------------------------------------------------------------
\* The watchdog is stopped, every turn is flushed, noise is not reported.
Cleanup ==
  /\ LockFree /\ ~closed
  /\ closed' = TRUE
  /\ buffers' = [u \in Users |-> NULL]
  /\ lastAudio' = [u \in Users |-> "none"]
  /\ events' = FlushEvents(Users) \cap ({"utterance"} \X Users)
  /\ UNCHANGED <<reader, mute>>

\* Time passes without a frame.
Stall(u) ==
  /\ lastAudio[u] = "fresh"
  /\ lastAudio' = [lastAudio EXCEPT ![u] = "stalled"]
  /\ Silent
  /\ UNCHANGED <<buffers, reader, mute, closed>>

Idle(u) ==
  /\ lastAudio[u] = "stalled"
  /\ lastAudio' = [lastAudio EXCEPT ![u] = "idle"]
  /\ Silent
  /\ UNCHANGED <<buffers, reader, mute, closed>>

PushWindow == \E w \in BOOLEAN : Push(w)

Next ==
  \/ \E u \in Users : Write(u) \/ Disconnect(u) \/ Stall(u) \/ Idle(u)
  \/ Decode \/ Drop \/ Lock \/ PushFails \/ PushNothing \/ PushWindow
  \/ Sweep \/ Mute \/ MuteResets \/ Unmute \/ Cleanup

Spec == Init /\ [][Next]_vars

\* The threads run.  A frame that was decoded does not fail for ever (Lock),
\* frames complete windows (PushWindow), and a watchdog that ticks every
\* 100 ms does not find the lock taken for ever (Sweep).
Fairness ==
  /\ WF_vars(Decode \/ Drop)
  /\ WF_vars(PushNothing \/ PushWindow)
  /\ \A u \in Users :
       /\ SF_vars(Lock /\ speaker = u)
       /\ SF_vars(PushWindow /\ speaker = u)
       /\ WF_vars(Stall(u))
  /\ SF_vars(Sweep)
  /\ WF_vars(MuteResets)

FairSpec == Spec /\ Fairness

-----------------------------------------------------------------------------
TypeOK ==
  /\ buffers \in [Users -> Buffer \cup {NULL}]
  /\ lastAudio \in [Users -> {"none", "fresh", "stalled", "idle"}]
  /\ at \in {"idle", "gated", "decoded", "pushing"}
  /\ speaker \in (IF at = "idle" THEN {NULL} ELSE Users)
  /\ muted \in BOOLEAN /\ muting \in BOOLEAN /\ closed \in BOOLEAN
  /\ events \subseteq Event

\* The counters say what the audio is: speech_ms is all that is buffered and
\* silence_ms the quiet at its end, and no audio is kept outside a turn.
CountersMatchAudio ==
  \A u \in Users : buffers[u] # NULL =>
    LET b == buffers[u] IN
    /\ b.speech = Len(b.chunks)
    /\ b.silence <= b.speech
    /\ \A i \in 1 .. Len(b.chunks) : b.chunks[i] => i + b.silence <= Len(b.chunks)
    /\ ~b.speaking => b.chunks = <<>>

\* Whenever a turn is ended, the trim takes silence only: the audio that goes
\* to the ASR has every window that was scored as speech.
TrimSparesSpeech ==
  \A u \in Users : Speaking(u) =>
    \A i \in 1 .. Len(buffers[u].chunks) : buffers[u].chunks[i] => i <= AudioLength(buffers[u])

\* Audio is not buffered without limit, whoever talks for however long.
AudioIsBounded ==
  \A u \in Users : buffers[u] # NULL =>
    /\ Len(buffers[u].chunks) < MaxWindows
    /\ Len(buffers[u].preroll) <= PrerollWindows

\* The watchdog and the reclamation see every buffer: each has a time.
BuffersAreTimed == \A u \in Users : buffers[u] # NULL => lastAudio[u] # "none"

\* After /mute nothing of before it is left in a buffer but, at most, the
\* window of the one frame that was past the gate already.
MuteForgets ==
  muted /\ ~muting =>
    \A u \in Users : buffers[u] # NULL => Len(buffers[u].chunks \o buffers[u].preroll) <= 1

Reported(u) == \E kind \in {"utterance", "discarded"} : <<kind, u>> \in events'

\* A turn ends with a verdict for the voice session.  The exceptions are
\* /mute, which forgets it, and cleanup() with one too short to be transcribed.
EveryTurnIsReported ==
  [][\A u \in Users :
       Speaking(u) /\ ~Speaking(u)' =>
         \/ Reported(u)
         \/ muting /\ ~muting'
         \/ closed' /\ ~closed /\ Verdict(buffers[u]) = "discarded"]_vars

\* Push-to-talk: a turn ends although its audio just stops arriving, unless
\* the sink is muted or closed.
TurnsEnd == \A u \in Users : Speaking(u) ~> (~Speaking(u) \/ muted \/ closed)

-----------------------------------------------------------------------------
(* What the documentation says and the code does not do.                   *)

\* How long there was sound: from the first window of speech to the last.
Sounded(b) ==
  LET sounds == {i \in 1 .. Len(b.chunks) : b.chunks[i]}
      gaps == {i \in 1 .. Len(b.chunks) :
                 \/ \A j \in sounds : i < j
                 \/ \A j \in sounds : i > j}
  IN Len(b.chunks) - Cardinality(gaps)

\* .env.example: "anything shorter is discarded as noise".
ShortNoiseIsDiscarded ==
  \A u \in Users :
    Speaking(u) /\ Sounded(buffers[u]) < MinWindows => Verdict(buffers[u]) = "discarded"
=============================================================================
