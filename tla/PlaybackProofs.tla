----------------------------- MODULE PlaybackProofs -----------------------------
(***************************************************************************)
(* What holds of Playback for any number of sources, tasks and frames.     *)
(* IInv is inductive: the run's invariants, that one task at a time is in  *)
(* a step of Busy, and what it may rely on between two such steps.         *)
(***************************************************************************)
EXTENDS Playback, TLAPS

\* The loop runs one task at a time.
OneBusy == \A t, u \in Tasks : pc[t] \in Busy /\ pc[u] \in Busy => t = u

\* Where a task can be in a turn, and where in a notice.
Places ==
  \A t \in Tasks :
    /\ pc[t] \in {"turn", "closing"} => turn = t /\ t \notin notices
    /\ t \notin notices /\ pc[t] \in {"synthesis", "restarting", "starting", "feeding"} => turn = t
    /\ pc[t] = "finishing" => t \in notices
    /\ t \in notices => pc[t] \in {"synthesis", "restarting", "starting", "feeding", "finishing"}

\* From the step that takes the source to the one that has a new one.
Stopping ==
  \A t \in Tasks :
    /\ pc[t] \in {"silencing", "restarting", "starting"} => source = NULL
    /\ pc[t] = "starting" => voice = NULL

\* What is fed is the current source, unless the turn's own was replaced and
\* what replaced it is finished.
Feeding ==
  \A t \in Tasks : pc[t] = "feeding" =>
    /\ Target(t) \in Sources
    /\ source # NULL /\ source \notin done \cup cancelled => Target(t) = source
    /\ Target(t) \notin cancelled => frames[Target(t)] + MaxFrames <= MaxQueued

\* A player that still reads after its source was taken has one frame to go.
TakenAreCancelled ==
  \A s \in Sources :
    /\ s # source /\ player[s] \in Alive => s \in cancelled
    /\ s = source \/ player[s] = "reading" => late[s] = 0

StallsAreCounted ==
  \A s \in Sources : player[s] \in Alive => stalled[s] <= StallLimit

IInv ==
  /\ TypeOK
  /\ OneBusy
  /\ Places
  /\ Stopping
  /\ Feeding
  /\ TakenAreCancelled
  /\ StallsAreCounted
  /\ BargeInSilences
  /\ OpenSourceHasTurn

LEMMA InitIInv == Init => IInv
<1> SUFFICES ASSUME Init PROVE IInv
  OBVIOUS
<1>1. TypeOK
  BY PlaybackAssumption DEF Init, TypeOK
<1>2. OneBusy /\ Places /\ Stopping /\ Feeding
  BY DEF Init, OneBusy, Places, Stopping, Feeding, Busy
<1>3. TakenAreCancelled /\ StallsAreCounted /\ BargeInSilences
  BY DEF Init, TakenAreCancelled, StallsAreCounted, BargeInSilences, Alive
<1>4. OpenSourceHasTurn
  BY DEF Init, OpenSourceHasTurn
<1>5. QED
  BY <1>1, <1>2, <1>3, <1>4 DEF IInv

-----------------------------------------------------------------------------
\* A step of a player's thread changes its own source only, and leaves the
\* tasks and the current source alone.
LEMMA PlayerStep ==
  ASSUME IInv, NEW s \in Sources, Player(s)
  PROVE  IInv'
<1>1. /\ UNCHANGED <<source, taken, done, voice, connected, tasks>>
      /\ cancelled \subseteq cancelled' /\ cancelled' \subseteq cancelled \cup {s}
      /\ \A r \in Sources \ {s} :
           /\ frames'[r] = frames[r] /\ stalled'[r] = stalled[r]
           /\ player'[r] = player[r] /\ late'[r] = late[r]
      /\ frames'[s] \in 0 .. frames[s]
  BY DEF IInv, TypeOK, Player, Reads, Breaks, PlayFrame, FindsEmpty, EndsOrWaits, CleanUp,
         Moves, queues, threads
<1>2. TypeOK'
  <2>1. frames' \in [Sources -> 0 .. MaxQueued] /\ cancelled' \subseteq Sources
    BY <1>1, PlaybackAssumption DEF IInv, TypeOK, Player, Reads, Breaks, PlayFrame,
       FindsEmpty, EndsOrWaits, CleanUp, queues
  <2>2. stalled' \in [Sources -> 0 .. StallLimit + 1]
    BY PlaybackAssumption DEF IInv, TypeOK, StallsAreCounted, Alive, Player, Reads, Breaks,
       PlayFrame, FindsEmpty, EndsOrWaits, CleanUp, queues
  <2>3. /\ player' \in [Sources -> {"none", "running", "reading", "empty", "ending", "over"}]
        /\ late' \in [Sources -> 0 .. 2]
    BY DEF IInv, TypeOK, Player, Reads, Breaks, PlayFrame, FindsEmpty, EndsOrWaits, CleanUp,
       Moves, threads
  <2>4. QED
    BY <1>1, <2>1, <2>2, <2>3 DEF IInv, TypeOK, tasks
<1>3. OneBusy' /\ Places' /\ Stopping'
  BY <1>1 DEF IInv, OneBusy, Places, Stopping, tasks
<1>4. Feeding'
  <2> SUFFICES ASSUME NEW t \in Tasks, pc[t] = "feeding"
               PROVE  /\ Target(t) \in Sources
                      /\ source # NULL /\ source \notin done \cup cancelled' => Target(t) = source
                      /\ Target(t) \notin cancelled' => frames'[Target(t)] + MaxFrames <= MaxQueued
    BY <1>1 DEF Feeding, Target, tasks
  <2> QED
    BY <1>1, PlaybackAssumption DEF IInv, TypeOK, Feeding
<1>5. TakenAreCancelled'
  BY <1>1 DEF IInv, TypeOK, TakenAreCancelled, Alive, Player, Reads, Breaks, PlayFrame,
     FindsEmpty, EndsOrWaits, CleanUp, Moves, threads, queues
<1>6. StallsAreCounted'
  BY <1>1, PlaybackAssumption DEF IInv, TypeOK, StallsAreCounted, Alive, Player, Reads, Breaks,
     PlayFrame, FindsEmpty, EndsOrWaits, CleanUp, Moves, threads, queues
<1>7. BargeInSilences'
  BY <1>1 DEF IInv, TypeOK, TakenAreCancelled, BargeInSilences, Alive, Player, Reads, Breaks,
     PlayFrame, FindsEmpty, EndsOrWaits, CleanUp, threads
<1>8. OpenSourceHasTurn'
  BY <1>1 DEF IInv, OpenSourceHasTurn, tasks
<1>9. QED
  BY <1>2, <1>3, <1>4, <1>5, <1>6, <1>7, <1>8 DEF IInv

-----------------------------------------------------------------------------
\* The steps of a task that touch no source.
QuietStep(t) ==
  \/ TurnBegins(t) \/ Sentence(t) \/ Notice(t) \/ NothingSpoken(t) \/ LeaveLoop(t)

LEMMA QuietSteps ==
  ASSUME IInv, NEW t \in Tasks, QuietStep(t)
  PROVE  IInv'
<1>1. /\ UNCHANGED <<source, taken, queues, threads, connected, mine>>
      /\ LoopFree /\ LoopFree'
      /\ \A u \in Tasks \ {t} : pc'[u] = pc[u]
  BY DEF IInv, TypeOK, QuietStep, TurnBegins, Sentence, Notice, NothingSpoken, LeaveLoop, Spoken,
     Goto, LoopFree, Busy
<1>2. TypeOK'
  BY <1>1 DEF IInv, TypeOK, QuietStep, TurnBegins, Sentence, Notice, NothingSpoken, LeaveLoop,
     Spoken, Goto, queues, threads
<1>3. OneBusy' /\ Stopping' /\ Feeding'
  BY <1>1 DEF OneBusy, Stopping, Feeding, LoopFree, Busy
<1>4. Places'
  BY <1>1, PlaybackAssumption DEF IInv, TypeOK, Places, QuietStep, TurnBegins, Sentence, Notice,
     NothingSpoken, LeaveLoop, Spoken, Goto, LoopFree, Busy
<1>5. TakenAreCancelled' /\ StallsAreCounted' /\ BargeInSilences'
  BY <1>1 DEF IInv, TakenAreCancelled, StallsAreCounted, BargeInSilences, queues, threads
<1>6. OpenSourceHasTurn'
  BY <1>1, PlaybackAssumption DEF IInv, TypeOK, OpenSourceHasTurn, QuietStep, TurnBegins,
     Sentence, Notice, NothingSpoken, LeaveLoop, Spoken, LoopFree, Busy, queues
<1>7. QED
  BY <1>2, <1>3, <1>4, <1>5, <1>6 DEF IInv

\* stop() up to the end of its critical section: from here on the source it
\* took is cancelled.
LEMMA TakingStep ==
  ASSUME IInv, NEW t \in Tasks, LoopFree, Taking,
         \/ pc[t] = "idle" /\ Goto(t, "silencing")
         \/ pc[t] = "synthesis" /\ Goto(t, "restarting"),
         UNCHANGED <<turn, notices, mine>>
  PROVE  IInv'
<1>1. /\ source' = NULL
      /\ \A u \in Tasks \ {t} : pc'[u] = pc[u]
      /\ \/ pc[t] = "idle" /\ pc'[t] = "silencing"
         \/ pc[t] = "synthesis" /\ pc'[t] = "restarting"
  BY DEF IInv, TypeOK, Taking, Goto
<1>2. TypeOK'
  BY DEF IInv, TypeOK, Taking, Goto, threads, Busy
<1>3. OneBusy' /\ Stopping' /\ Feeding' /\ OpenSourceHasTurn'
  BY <1>1 DEF OneBusy, Stopping, Feeding, OpenSourceHasTurn, LoopFree, Busy
<1>4. Places'
  BY <1>1 DEF IInv, Places
<1>5. TakenAreCancelled' /\ StallsAreCounted' /\ BargeInSilences'
  BY PlaybackAssumption DEF IInv, TypeOK, Taking, TakenAreCancelled, StallsAreCounted,
     BargeInSilences, threads
<1>6. QED
  BY <1>2, <1>3, <1>4, <1>5 DEF IInv

\* The rest of stop(), of a barge-in or before a new source is made.
LEMMA DroppingStep ==
  ASSUME IInv, NEW t \in Tasks, Dropping,
         \/ pc[t] = "silencing" /\ Goto(t, "idle")
         \/ pc[t] = "restarting" /\ Goto(t, "starting"),
         UNCHANGED <<turn, notices, mine>>
  PROVE  IInv'
<1>1. /\ source' = NULL /\ source = NULL
      /\ \A u \in Tasks \ {t} : pc'[u] = pc[u] /\ pc[u] \notin Busy
      /\ \/ pc[t] = "silencing" /\ pc'[t] = "idle"
         \/ pc[t] = "restarting" /\ pc'[t] = "starting"
  <2>1. /\ \/ pc[t] = "silencing" /\ pc'[t] = "idle"
           \/ pc[t] = "restarting" /\ pc'[t] = "starting"
        /\ \A u \in Tasks \ {t} : pc'[u] = pc[u]
    BY DEF IInv, TypeOK, Goto
  <2>2. source' = NULL /\ source = NULL
    BY <2>1 DEF IInv, Stopping, Dropping
  <2>3. QED
    BY <2>1, <2>2 DEF IInv, OneBusy, Busy
<1>2. TypeOK'
  BY PlaybackAssumption DEF IInv, TypeOK, Dropping, Goto, Busy
<1>3. OneBusy' /\ Feeding' /\ OpenSourceHasTurn'
  BY <1>1 DEF OneBusy, Feeding, OpenSourceHasTurn, Busy
<1>4. Places'
  BY <1>1 DEF IInv, Places
<1>5. Stopping'
  BY <1>1 DEF Stopping, Dropping, Busy
<1>6. TakenAreCancelled' /\ StallsAreCounted' /\ BargeInSilences'
  BY DEF IInv, Dropping, TakenAreCancelled, StallsAreCounted, BargeInSilences
<1>7. QED
  BY <1>2, <1>3, <1>4, <1>5, <1>6 DEF IInv

-----------------------------------------------------------------------------
\* start() has a source that nobody has, and it is not playing.
LEMMA StartStep ==
  ASSUME IInv, NEW t \in Tasks, Start(t)
  PROVE  IInv'
<1>1. PICK s \in Sources :
        /\ Unused(s)
        /\ source' = s
        /\ frames' = [frames EXCEPT ![s] = 0]
        /\ done' = done \ {s} /\ cancelled' = cancelled \ {s}
        /\ stalled' = [stalled EXCEPT ![s] = 0]
        /\ late' = [late EXCEPT ![s] = 0]
        /\ player' = [player EXCEPT ![s] = IF connected /\ ~IsPlaying THEN "running" ELSE "none"]
        /\ voice' = IF connected /\ ~IsPlaying THEN s ELSE voice
        /\ mine' = IF t \notin notices THEN [mine EXCEPT ![t] = s] ELSE mine
  BY DEF Start
<1>2. /\ source = NULL
      /\ \A u \in Tasks \ {t} : pc'[u] = pc[u] /\ pc[u] \notin Busy
      /\ pc[t] = "starting" /\ pc'[t] = "feeding"
      /\ UNCHANGED <<taken, connected, turn, notices>>
  BY DEF IInv, TypeOK, OneBusy, Stopping, Start, Goto, Busy
<1>3. TypeOK'
  BY <1>1, PlaybackAssumption DEF IInv, TypeOK, Start, Goto, Busy
<1>4. OneBusy' /\ Stopping'
  BY <1>2 DEF OneBusy, Stopping, Busy
<1>5. Places'
  BY <1>2 DEF IInv, Places
<1>6. Feeding'
  <2>1. Target(t)' = s
    BY <1>1, <1>2 DEF IInv, TypeOK, Target
  <2>2. frames'[s] + MaxFrames <= MaxQueued
    BY <1>1, PlaybackAssumption DEF IInv, TypeOK
  <2>3. QED
    BY <1>1, <1>2, <2>1, <2>2 DEF Feeding, Busy
<1>7. TakenAreCancelled' /\ StallsAreCounted' /\ BargeInSilences'
  BY <1>1, <1>2, PlaybackAssumption DEF IInv, TypeOK, TakenAreCancelled, StallsAreCounted,
     BargeInSilences, Alive
<1>8. OpenSourceHasTurn'
  BY <1>2 DEF OpenSourceHasTurn
<1>9. QED
  BY <1>3, <1>4, <1>5, <1>6, <1>7, <1>8 DEF IInv

\* A turn feeds its own source: if the current one is open, that is it, since
\* nobody else's turn could have left it open.
LEMMA FeedAgainStep ==
  ASSUME IInv, NEW t \in Tasks, LoopFree, pc[t] = "synthesis",
         t \notin notices, HasSource(t), frames[mine[t]] + MaxFrames <= MaxQueued,
         Goto(t, "feeding"), UNCHANGED <<source, taken, queues, threads, connected>>,
         UNCHANGED <<turn, notices, mine>>
  PROVE  IInv'
<1>1. /\ turn = t
      /\ \A u \in Tasks \ {t} : pc'[u] = pc[u] /\ pc[u] \notin Busy
      /\ pc'[t] = "feeding"
  BY DEF IInv, TypeOK, Places, LoopFree, Goto
<1>2. TypeOK' /\ OneBusy' /\ Stopping' /\ Places'
  BY <1>1 DEF IInv, TypeOK, OneBusy, Stopping, Places, Goto, Busy, queues, threads
<1>3. source # NULL /\ source \notin done \cup cancelled => mine[t] = source
  BY <1>1 DEF IInv, OpenSourceHasTurn, LoopFree, Busy
<1>4. Feeding'
  <2>1. Target(t)' = mine[t] /\ mine[t] \in Sources
    BY DEF IInv, TypeOK, Target, HasSource
  <2>2. QED
    BY <1>1, <1>3, <2>1 DEF Feeding, Busy, queues
<1>5. TakenAreCancelled' /\ StallsAreCounted' /\ BargeInSilences'
  BY DEF IInv, TakenAreCancelled, StallsAreCounted, BargeInSilences, queues, threads
<1>6. OpenSourceHasTurn'
  BY <1>1 DEF IInv, OpenSourceHasTurn, queues
<1>7. QED
  BY <1>2, <1>4, <1>5, <1>6 DEF IInv

LEMMA FeedStep ==
  ASSUME IInv, NEW t \in Tasks, Feed(t)
  PROVE  IInv'
<1>1. /\ UNCHANGED <<source, taken, done, cancelled, stalled, threads, connected, turn, mine>>
      /\ \A u \in Tasks \ {t} : pc'[u] = pc[u] /\ pc[u] \notin Busy
      /\ pc[t] = "feeding"
      /\ t \in notices => pc'[t] = "finishing" /\ notices' = notices
      /\ t \notin notices => pc'[t] = "turn" /\ notices' = notices /\ turn = t
  BY DEF IInv, TypeOK, OneBusy, Places, Feed, Spoken, Goto, Busy
<1>2. frames' \in [Sources -> 0 .. MaxQueued]
  BY PlaybackAssumption DEF IInv, TypeOK, Feeding, Feed
<1>3. TypeOK'
  BY <1>1, <1>2 DEF IInv, TypeOK, Feed, Spoken, Goto, Busy, threads
<1>4. OneBusy' /\ Feeding' /\ Stopping'
  BY <1>1 DEF OneBusy, Feeding, Stopping, Busy
<1>5. Places'
  BY <1>1 DEF IInv, Places
<1>6. TakenAreCancelled' /\ StallsAreCounted' /\ BargeInSilences'
  BY <1>1 DEF IInv, TakenAreCancelled, StallsAreCounted, BargeInSilences, threads
<1>7. OpenSourceHasTurn'
  <2> SUFFICES ASSUME source # NULL, source \notin done \cup cancelled
               PROVE  \E u \in Tasks :
                        (turn = u /\ mine[u] = source) \/ pc'[u] \in {"feeding", "finishing"}
    BY <1>1 DEF OpenSourceHasTurn
  <2>1. CASE t \in notices
    BY <1>1, <2>1
  <2>2. CASE t \notin notices
    <3>1. mine[t] = source
      BY <1>1, <2>2 DEF IInv, Feeding, Target
    <3>2. QED
      BY <1>1, <2>2, <3>1
  <2>3. QED
    BY <2>1, <2>2
<1>8. QED
  BY <1>3, <1>4, <1>5, <1>6, <1>7 DEF IInv

\* A notice finishes what is current, its own source or none.
LEMMA NoticeEndsStep ==
  ASSUME IInv, NEW t \in Tasks, NoticeEnds(t)
  PROVE  IInv'
<1>1. /\ UNCHANGED <<source, taken, frames, cancelled, stalled, threads, connected, turn, mine>>
      /\ done' = Finished
      /\ \A u \in Tasks \ {t} : pc'[u] = pc[u] /\ pc[u] \notin Busy
      /\ pc[t] = "finishing" /\ t \in notices /\ notices' = notices \ {t}
      /\ pc'[t] = IF turn = t THEN "closing" ELSE "idle"
  BY DEF IInv, TypeOK, OneBusy, Places, NoticeEnds, Spoken, Goto, Busy
<1>2. TypeOK'
  BY <1>1 DEF IInv, TypeOK, NoticeEnds, Finished, Spoken, Goto, threads
<1>3. OneBusy' /\ Feeding' /\ Stopping'
  BY <1>1 DEF OneBusy, Feeding, Stopping, Busy
<1>4. Places'
  BY <1>1 DEF IInv, Places
<1>5. TakenAreCancelled' /\ StallsAreCounted' /\ BargeInSilences'
  BY <1>1 DEF IInv, TakenAreCancelled, StallsAreCounted, BargeInSilences, threads
<1>6. OpenSourceHasTurn'
  BY <1>1 DEF OpenSourceHasTurn, Finished
<1>7. QED
  BY <1>2, <1>3, <1>4, <1>5, <1>6 DEF IInv

\* A turn that has begun a source finishes what is current; one that has not
\* leaves it, and then it is not open.
LEMMA FinallyStep ==
  ASSUME IInv, NEW t \in Tasks, Finally(t)
  PROVE  IInv'
<1>1. /\ UNCHANGED <<source, taken, frames, cancelled, stalled, threads, connected, notices>>
      /\ done' = IF mine[t] = NULL THEN done ELSE Finished
      /\ \A u \in Tasks : pc[u] \notin Busy /\ pc'[u] \notin Busy
      /\ \A u \in Tasks \ {t} : pc'[u] = pc[u]
      /\ turn = t /\ t \notin notices /\ pc'[t] = "idle"
  BY DEF IInv, TypeOK, Places, Finally, LoopFree, Goto, Busy
<1>2. TypeOK'
  BY <1>1 DEF IInv, TypeOK, Finally, Finished, Goto, threads
<1>3. OneBusy' /\ Feeding' /\ Stopping'
  BY <1>1 DEF OneBusy, Feeding, Stopping, Busy
<1>4. Places'
  BY <1>1 DEF IInv, Places
<1>5. TakenAreCancelled' /\ StallsAreCounted' /\ BargeInSilences'
  BY <1>1 DEF IInv, TakenAreCancelled, StallsAreCounted, BargeInSilences, threads
<1>6. OpenSourceHasTurn'
  BY <1>1 DEF IInv, OpenSourceHasTurn, Finished, Busy
<1>7. QED
  BY <1>2, <1>3, <1>4, <1>5, <1>6 DEF IInv

-----------------------------------------------------------------------------
LEMMA IInvStep == IInv /\ [Next]_vars => IInv'
<1> SUFFICES ASSUME IInv, [Next]_vars PROVE IInv'
  OBVIOUS
<1>1. ASSUME NEW t \in Tasks, Task(t)
      PROVE  IInv'
  <2>1. CASE QuietStep(t)
    BY <2>1, QuietSteps
  <2>2. CASE BargeIn(t)
    BY <2>2, TakingStep DEF BargeIn
  <2>3. CASE Speak(t)
    BY <2>3, TakingStep, FeedAgainStep DEF Speak
  <2>4. CASE Silenced(t) \/ Restart(t)
    BY <2>4, DroppingStep DEF Silenced, Restart
  <2>5. CASE Start(t)
    BY <2>5, StartStep
  <2>6. CASE Feed(t)
    BY <2>6, FeedStep
  <2>7. CASE NoticeEnds(t)
    BY <2>7, NoticeEndsStep
  <2>8. CASE Finally(t)
    BY <2>8, FinallyStep
  <2>9. QED
    BY <1>1, <2>1, <2>2, <2>3, <2>4, <2>5, <2>6, <2>7, <2>8 DEF Task, Busily, QuietStep
<1>2. ASSUME NEW s \in Sources, Player(s)
      PROVE  IInv'
  BY <1>2, PlayerStep
<1>3. CASE Connection \/ UNCHANGED vars
  <2>1. UNCHANGED <<source, taken, queues, threads, tasks>> /\ connected' \in BOOLEAN
    BY <1>3 DEF IInv, TypeOK, Connection, vars
  <2>2. TypeOK' /\ OneBusy' /\ Places' /\ Stopping' /\ Feeding'
    BY <2>1 DEF IInv, TypeOK, OneBusy, Places, Stopping, Feeding, Target, queues, threads, tasks
  <2>3. TakenAreCancelled' /\ StallsAreCounted' /\ BargeInSilences' /\ OpenSourceHasTurn'
    BY <2>1 DEF IInv, TakenAreCancelled, StallsAreCounted, BargeInSilences, OpenSourceHasTurn,
       queues, threads, tasks
  <2>4. QED
    BY <2>2, <2>3 DEF IInv
<1>4. QED
  BY <1>1, <1>2, <1>3 DEF Next

LEMMA IInvHolds == Spec => []IInv
<1>1. QED
  BY InitIInv, IInvStep, PTL DEF Spec

\* The state of the sources, the tasks and the players keeps its types.
THEOREM TypeCorrect == Spec => []TypeOK
<1>1. IInv => TypeOK
  BY DEF IInv
<1>2. QED
  BY <1>1, IInvHolds, PTL

\* stop() is called on the event loop while the sender thread may be anywhere
\* in read(): at most the frame it already decided to play is still heard.
THEOREM BargeInIsPrompt == Spec => []BargeInSilences
<1>1. IInv => BargeInSilences
  BY DEF IInv
<1>2. QED
  BY <1>1, IInvHolds, PTL

\* However reminders and barge-ins replace sources, the `finally` of _run_turn
\* and the end of _speak leave none open.
THEOREM SourcesAreFinished == Spec => []OpenSourceHasTurn
<1>1. IInv => OpenSourceHasTurn
  BY DEF IInv
<1>2. QED
  BY <1>1, IInvHolds, PTL

\* play() after stop() fails only for a client that is not connected: the
\* player it would find playing was dropped in this very step of the loop.
THEOREM StartsWhenConnected == Spec => StartsUnlessDisconnected
<1>1. ASSUME IInv, [Next]_vars
      PROVE  [\A s \in Sources : source' = s /\ source # s /\ connected
                => player'[s] = "running"]_vars
  <2> SUFFICES ASSUME NEW s \in Sources, source' = s, source # s, connected, Next
               PROVE  player'[s] = "running"
    BY <1>1
  <2>1. ASSUME NEW t \in Tasks, Start(t)
        PROVE  player'[s] = "running"
    BY <1>1, <2>1 DEF IInv, TypeOK, Stopping, Start, IsPlaying
  <2>2. ASSUME NEW t \in Tasks, Task(t)
        PROVE  player'[s] = "running"
    BY <2>1, <2>2, PlaybackAssumption DEF Task, Busily, BargeIn, Taking, TurnBegins, Sentence,
       Notice, NothingSpoken, Speak, LeaveLoop, Finally, Silenced, Restart, Dropping, Feed,
       NoticeEnds
  <2>3. ASSUME NEW r \in Sources, Player(r)
        PROVE  FALSE
    BY <2>3 DEF Player, Reads, Breaks, PlayFrame, FindsEmpty, EndsOrWaits, CleanUp
  <2>4. QED
    BY <2>2, <2>3 DEF Next, Connection
<1>2. QED
  BY <1>1, IInvHolds, PTL DEF Spec, StartsUnlessDisconnected
=============================================================================
