-------------------------------- MODULE Playback --------------------------------
(***************************************************************************)
(* Playback of one session: audio/playback.py, and the speaking in         *)
(* discord_app/session.py.                                                 *)
(*                                                                         *)
(* The tasks of the session (a turn, reminders, barge-ins) run on the      *)
(* event loop and start, feed, finish and stop a source without an await,  *)
(* so that one task at a time is in a step of Busy.  The player of         *)
(* discord.py reads each source from a thread of its own, and gets between *)
(* any two of these steps.                                                 *)
(***************************************************************************)
EXTENDS Naturals, FiniteSets

CONSTANTS
  Sources,     \* QueuedPCMSource objects; one that nobody has any more is
               \* used again
  Tasks,
  StallLimit,  \* _STALL_LIMIT_FRAMES
  MaxFrames,   \* frames of one sentence; bounds the data
  MaxQueued,   \* frames in a queue; bounds how far a turn runs ahead
  NULL

ASSUME PlaybackAssumption ==
  /\ NULL \notin Sources \cup Tasks
  /\ StallLimit \in Nat
  /\ MaxFrames \in Nat /\ MaxQueued \in Nat /\ MaxFrames <= MaxQueued

VARIABLES
  source,     \* PlaybackController._source
  taken,      \* the source that stop() has taken and not flushed yet
  frames,     \* how many are in each _queue
  done,       \* sources with _producer_done set
  cancelled,  \* sources with _cancelled set
  stalled,    \* _stall_frames
  player,     \* where the thread of each source's player is
  voice,      \* whose player the voice client has, NULL after stop_playing()
  connected,  \* voice_client.is_connected()
  pc,         \* where each task is
  turn,       \* the task in a turn (the turn lock), or NULL
  notices,    \* tasks that speak a notice, not a sentence of a turn
  mine,       \* the source _run_turn of each task has
  late        \* history: frames heard of a source after stop() took it

queues == <<frames, done, cancelled, stalled>>
threads == <<player, voice, late>>
tasks == <<pc, turn, notices, mine>>
vars == <<source, taken, queues, threads, connected, tasks>>

Init ==
  /\ source = NULL /\ taken = NULL
  /\ frames = [s \in Sources |-> 0]
  /\ done = {} /\ cancelled = {}
  /\ stalled = [s \in Sources |-> 0]
  /\ player = [s \in Sources |-> "none"]
  /\ voice = NULL
  /\ connected = TRUE
  /\ pc = [t \in Tasks |-> "idle"]
  /\ turn = NULL /\ notices = {}
  /\ mine = [t \in Tasks |-> NULL]
  /\ late = [s \in Sources |-> 0]

Busy == {"silencing", "restarting", "starting", "feeding", "finishing"}
LoopFree == \A t \in Tasks : pc[t] \notin Busy
Goto(t, place) == pc' = [pc EXCEPT ![t] = place]

InUse == {source, taken} \cup {mine[t] : t \in Tasks}
Unused(s) == s \notin InUse /\ player[s] \in {"none", "over"}
CanStart == \E s \in Sources : Unused(s)

-----------------------------------------------------------------------------
(* PlaybackController, on the event loop.                                  *)

\* Fault: the source is drained and not cancelled.
TakingUncancelled ==
  /\ source' = NULL /\ taken' = source
  /\ done' = done \cup ({source} \ {NULL})
  /\ UNCHANGED <<frames, cancelled, stalled, threads, connected>>

\* stop(): the source is taken from the controller and flush() cancels it.
Taking ==
  /\ source' = NULL /\ taken' = source
  /\ done' = done \cup ({source} \ {NULL})
  /\ cancelled' = cancelled \cup ({source} \ {NULL})
  /\ UNCHANGED <<frames, stalled, threads, connected>>

\* Fault: the player is left to find out by itself.
DroppingOnly ==
  /\ taken' = NULL
  /\ frames' = [s \in Sources |-> IF s = taken THEN 0 ELSE frames[s]]
  /\ UNCHANGED <<source, done, cancelled, stalled, threads, connected>>

\* flush() drains the queue, and the client's player is told to end.
Dropping ==
  /\ taken' = NULL
  /\ frames' = [s \in Sources |-> IF s = taken THEN 0 ELSE frames[s]]
  /\ voice' = NULL
  /\ UNCHANGED <<source, done, cancelled, stalled, player, late, connected>>

Alive == {"running", "reading", "empty"}
IsPlaying == voice # NULL /\ player[voice] \in Alive

\* start() after its stop(): a new source, and play(), which raises when the
\* client is not connected or plays already.
Start(t) ==
  /\ pc[t] = "starting"
  /\ \E s \in Sources :
       LET plays == connected /\ ~IsPlaying IN
       /\ Unused(s)
       /\ source' = s
       /\ frames' = [frames EXCEPT ![s] = 0]
       /\ done' = done \ {s} /\ cancelled' = cancelled \ {s}
       /\ stalled' = [stalled EXCEPT ![s] = 0]
       /\ late' = [late EXCEPT ![s] = 0]
       /\ player' = [player EXCEPT ![s] = IF plays THEN "running" ELSE "none"]
       /\ voice' = IF plays THEN s ELSE voice
       /\ mine' = IF t \notin notices THEN [mine EXCEPT ![t] = s] ELSE mine
  /\ Goto(t, "feeding")
  /\ UNCHANGED <<taken, connected, turn, notices>>

\* Fault: there is no source when a barge-in took it.
FinishedUnchecked == done \cup {source}

\* finish()
Finished == done \cup ({source} \ {NULL})

\* /stop, /interrupt, shutdown, and on_speech_start where something plays.
BargeIn(t) ==
  /\ LoopFree /\ pc[t] = "idle"
  /\ Taking
  /\ Goto(t, "silencing")
  /\ UNCHANGED <<turn, notices, mine>>

Silenced(t) ==
  /\ pc[t] = "silencing"
  /\ Dropping
  /\ Goto(t, "idle")
  /\ UNCHANGED <<turn, notices, mine>>

Restart(t) ==
  /\ pc[t] = "restarting"
  /\ Dropping
  /\ Goto(t, "starting")
  /\ UNCHANGED <<turn, notices, mine>>

-----------------------------------------------------------------------------
(* Speaking, in session.py.                                                *)

TurnBegins(t) ==
  /\ LoopFree /\ pc[t] = "idle" /\ turn = NULL
  /\ turn' = t
  /\ Goto(t, "turn")
  /\ UNCHANGED <<source, taken, queues, threads, connected, notices, mine>>

\* _speak_sentence awaits the synthesis.
Sentence(t) ==
  /\ LoopFree /\ pc[t] = "turn"
  /\ Goto(t, "synthesis")
  /\ UNCHANGED <<source, taken, queues, threads, connected, turn, notices, mine>>

\* _speak, of a reminder or at the end of a turn, asks gate 11 before it awaits
\* the synthesis.
Notice(t) ==
  /\ LoopFree /\ pc[t] \in {"idle", "turn"}
  /\ connected
  /\ Goto(t, "synthesis")
  /\ notices' = notices \cup {t}
  /\ UNCHANGED <<source, taken, queues, threads, connected, turn, mine>>

\* Where a task goes on after a sentence or a notice.  A turn's notice is its
\* last word.
Spoken(t) ==
  /\ Goto(t, IF t \notin notices THEN "turn" ELSE IF turn = t THEN "closing" ELSE "idle")
  /\ notices' = notices \ {t}

\* Synthesis failed, or gate 11 refuses a sentence that needs a new source.
NothingSpoken(t) ==
  /\ LoopFree /\ pc[t] = "synthesis"
  /\ Spoken(t)
  /\ UNCHANGED <<source, taken, queues, threads, connected, turn, mine>>

HasSource(t) == mine[t] # NULL /\ mine[t] \notin cancelled

Speak(t) ==
  /\ LoopFree /\ pc[t] = "synthesis"
  /\ \/ /\ t \in notices \/ (~HasSource(t) /\ connected)
        /\ CanStart
        /\ Taking
        /\ Goto(t, "restarting")
     \/ /\ t \notin notices /\ HasSource(t)
        /\ frames[mine[t]] + MaxFrames <= MaxQueued
        /\ Goto(t, "feeding")
        /\ UNCHANGED <<source, taken, queues, threads, connected>>
  /\ UNCHANGED <<turn, notices, mine>>

Target(t) == IF t \in notices THEN source ELSE mine[t]

\* feed() drops the frames of a source that was cancelled since it was asked.
Feed(t) ==
  LET s == Target(t) IN
  /\ pc[t] = "feeding"
  /\ \/ s \in cancelled /\ UNCHANGED frames
     \/ /\ s \notin cancelled
        /\ \E n \in 1 .. MaxFrames : frames' = [frames EXCEPT ![s] = @ + n]
  /\ IF t \in notices THEN Goto(t, "finishing") /\ UNCHANGED notices ELSE Spoken(t)
  /\ UNCHANGED <<source, taken, done, cancelled, stalled, threads, connected, turn, mine>>

NoticeEnds(t) ==
  /\ pc[t] = "finishing"
  /\ done' = Finished
  /\ Spoken(t)
  /\ UNCHANGED <<source, taken, frames, cancelled, stalled, threads, connected, turn, mine>>

\* The stream is over, or left; closing it awaits.
LeaveLoop(t) ==
  /\ LoopFree /\ pc[t] = "turn"
  /\ Goto(t, "closing")
  /\ UNCHANGED <<source, taken, queues, threads, connected, turn, notices, mine>>

\* Fault: what the turn has begun is not finished.
FinallyNothing(t) ==
  /\ LoopFree /\ pc[t] = "closing"
  /\ turn' = NULL
  /\ mine' = [mine EXCEPT ![t] = NULL]
  /\ Goto(t, "idle")
  /\ UNCHANGED <<source, taken, queues, threads, connected, notices>>

\* The `finally` of _run_turn finishes whatever source is current.
Finally(t) ==
  /\ LoopFree /\ pc[t] = "closing"
  /\ done' = IF mine[t] = NULL THEN done ELSE Finished
  /\ turn' = NULL
  /\ mine' = [mine EXCEPT ![t] = NULL]
  /\ Goto(t, "idle")
  /\ UNCHANGED <<source, taken, frames, cancelled, stalled, threads, connected, notices>>

-----------------------------------------------------------------------------
(* The player of source s, in its thread.                                  *)

Moves(s, place) == player' = [player EXCEPT ![s] = place]

\* The loop of the player asks whether it was told to end, and reads.
Reads(s) ==
  /\ player[s] = "running" /\ voice = s /\ connected
  /\ Moves(s, IF s \in cancelled THEN "ending" ELSE "reading")
  /\ UNCHANGED <<source, taken, queues, voice, late, connected, tasks>>

\* It was told to end, or waited for the connection for too long.
Breaks(s) ==
  /\ player[s] = "running" /\ (voice # s \/ ~connected)
  /\ Moves(s, "ending")
  /\ UNCHANGED <<source, taken, queues, voice, late, connected, tasks>>

PlayFrame(s) ==
  /\ player[s] = "reading" /\ frames[s] > 0
  /\ frames' = [frames EXCEPT ![s] = @ - 1]
  /\ stalled' = [stalled EXCEPT ![s] = 0]
  /\ late' = [late EXCEPT ![s] = IF s # source /\ @ < 2 THEN @ + 1 ELSE @]
  /\ Moves(s, "running")
  /\ UNCHANGED <<source, taken, done, cancelled, voice, connected, tasks>>

\* The queue is found empty first, and _producer_done asked after it.
FindsEmpty(s) ==
  /\ player[s] = "reading" /\ frames[s] = 0
  /\ Moves(s, "empty")
  /\ UNCHANGED <<source, taken, queues, voice, late, connected, tasks>>

\* Fault: nobody counts.
WaitsForEver(s) ==
  /\ player[s] = "empty"
  /\ Moves(s, IF s \in done THEN "ending" ELSE "running")
  /\ UNCHANGED <<source, taken, queues, voice, late, connected, tasks>>

\* Silence, unless the producer is done or too slow.
EndsOrWaits(s) ==
  /\ player[s] = "empty"
  /\ \/ s \in done /\ Moves(s, "ending") /\ UNCHANGED stalled
     \/ /\ s \notin done
        /\ stalled' = [stalled EXCEPT ![s] = @ + 1]
        /\ Moves(s, IF stalled[s] >= StallLimit THEN "ending" ELSE "running")
  /\ UNCHANGED <<source, taken, frames, done, cancelled, voice, late, connected, tasks>>

\* The thread ends: cleanup() of the source.
CleanUp(s) ==
  /\ player[s] = "ending"
  /\ Moves(s, "over")
  /\ cancelled' = cancelled \cup {s}
  /\ UNCHANGED <<source, taken, frames, done, stalled, voice, late, connected, tasks>>

\* The connection is lost and comes back; the event loop notices.
Connection ==
  /\ LoopFree
  /\ connected' = ~connected
  /\ UNCHANGED <<source, taken, queues, threads, tasks>>

-----------------------------------------------------------------------------
Busily(t) == Silenced(t) \/ Restart(t) \/ Start(t) \/ Feed(t) \/ NoticeEnds(t)

Task(t) ==
  \/ BargeIn(t) \/ TurnBegins(t) \/ Sentence(t) \/ Notice(t) \/ NothingSpoken(t)
  \/ Speak(t) \/ LeaveLoop(t) \/ Finally(t) \/ Busily(t)

Player(s) ==
  \/ Reads(s) \/ Breaks(s) \/ PlayFrame(s) \/ FindsEmpty(s) \/ EndsOrWaits(s) \/ CleanUp(s)

Next == (\E t \in Tasks : Task(t)) \/ (\E s \in Sources : Player(s)) \/ Connection

Spec == Init /\ [][Next]_vars

\* A player goes on, and so does the event loop with what it is in.  Synthesis
\* may take for ever.
Fairness ==
  /\ \A s \in Sources : WF_vars(Player(s))
  /\ \A t \in Tasks : WF_vars(Busily(t))

FairSpec == Spec /\ Fairness

-----------------------------------------------------------------------------
TypeOK ==
  /\ source \in Sources \cup {NULL}
  /\ taken \in Sources \cup {NULL}
  /\ frames \in [Sources -> 0 .. MaxQueued]
  /\ done \subseteq Sources /\ cancelled \subseteq Sources
  /\ stalled \in [Sources -> 0 .. StallLimit + 1]
  /\ player \in [Sources -> {"none", "running", "reading", "empty", "ending", "over"}]
  /\ voice \in Sources \cup {NULL}
  /\ connected \in BOOLEAN
  /\ pc \in [Tasks -> Busy \cup {"idle", "turn", "synthesis", "closing"}]
  /\ turn \in Tasks \cup {NULL}
  /\ notices \subseteq Tasks
  /\ mine \in [Tasks -> Sources \cup {NULL}]
  /\ late \in [Sources -> 0 .. 2]

\* A barge-in is heard at once: whatever the player's thread is doing, one more
\* frame at most is played of a source that was stopped, and whatever the turn
\* does, nothing is fed to it any more.
BargeInSilences == \A s \in Sources : late[s] <= 1

\* A source that was left open would be silent for five seconds and count as
\* active: while the current source is open, the turn that began it will
\* finish it, however reminders and barge-ins replaced sources meanwhile.
OpenSourceHasTurn ==
  source # NULL /\ source \notin done \cup cancelled =>
    \E t \in Tasks :
      \/ turn = t /\ mine[t] = source
      \/ pc[t] \in {"feeding", "finishing"}

\* "Already playing: the stop() above raced with the sender thread" cannot be:
\* a source is left without a player only when the client is not connected.
StartsUnlessDisconnected ==
  [][\A s \in Sources : source' = s /\ source # s /\ connected => player'[s] = "running"]_vars

\* Playback ends when nobody feeds it any more, also when the synthesis hangs:
\* the idle watch and the next barge-in see it end.
Playing(s) == source = s /\ player[s] = "running"
PlaybackEnds ==
  <>[][\A t \in Tasks : ~Feed(t)]_vars =>
    \A s \in Sources : Playing(s) ~> (source # s \/ s \in cancelled)
=============================================================================
