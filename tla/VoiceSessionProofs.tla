------------------------- MODULE VoiceSessionProofs -------------------------
(* For any number of guilds, speakers, retries and commands: a session runs *)
(* one turn at a time and uses the shared bridge only inside it, and no     *)
(* approval outlives its retry.  The theorems of HeadlessBridge are used as *)
(* lemmas about the bridge in the midst of the sessions.                    *)
EXTENDS VoiceSession, TLAPS

BridgeTheorems == INSTANCE HeadlessBridgeProofs WITH Callers <- Tasks

-----------------------------------------------------------------------------
(* A step of a session is a step of the bridge, or leaves it alone: that    *)
(* the bridge's theorems hold here rests on it.                             *)

LEMMA BridgeStep == [Next]_vars => [Bridge!Next]_(Bridge!bridgeVars)
<1> SUFFICES ASSUME [Next]_vars
             PROVE  [Bridge!Next]_(Bridge!bridgeVars)
  OBVIOUS
<1> USE DEF Bridge!bridgeVars, Bridge!generator, Bridge!approval, Bridge!child, bridge
<1>1. ASSUME NEW t \in Tasks, TakeTurn(t)
      PROVE  Bridge!Next
  BY <1>1 DEF TakeTurn, Bridge!Next
<1>2. ASSUME NEW t \in Tasks, EnterTurn(t)
      PROVE  Bridge!Next \/ UNCHANGED bridge
  BY <1>1, <1>2 DEF EnterTurn
<1>3. ASSUME NEW u \in Utterances, OnUtterance(u) \/ Utterance(u)
      PROVE  Bridge!Next \/ UNCHANGED bridge
  <2>1. u \in Tasks
    BY DEF Tasks
  <2>2. QED
    BY <1>2, <1>3, <2>1
    DEF OnUtterance, Utterance, DropUtterance, HandlePrompt, AnswerSpoken
<1>4. ASSUME NEW r \in Retries, RetryAfterApproval(r)
      PROVE  Bridge!Next \/ UNCHANGED bridge
  <2>1. r \in Tasks
    BY DEF Tasks
  <2>2. QED
    BY <1>2, <1>4, <2>1 DEF RetryAfterApproval
<1>5. ASSUME NEW t \in Tasks, RunTurn(t) \/ ProcessExits(t)
      PROVE  Bridge!Next \/ UNCHANGED bridge
  BY <1>1, <1>5 DEF RunTurn, ResumeQueued, Stream, LeaveStream, StreamClosed,
                    Flushed, ProcessExits, Bridge!Next, Bridge!Turn
<1>6. ASSUME NEW c \in Commands, NEW op \in Decisions, Issue(c, op)
      PROVE  UNCHANGED bridge
  BY <1>6 DEF Issue
<1>7. ASSUME NEW c \in Commands, Resolve(c)
      PROVE  Bridge!Next \/ UNCHANGED bridge
  BY <1>7 DEF Resolve, ResolveNothing, ResolveDeny, ResolveApprove, ApproveRaises,
              Bridge!Next
<1>8. CASE InterruptTurn
  BY <1>8 DEF InterruptTurn, Bridge!Next
<1>9. ASSUME NEW s \in Sessions, BreakerCloses(s)
      PROVE  UNCHANGED bridge
  BY <1>9 DEF BreakerCloses
<1>10. CASE UNCHANGED vars
  BY <1>10 DEF vars
<1>11. QED
  BY <1>3, <1>4, <1>5, <1>6, <1>7, <1>8, <1>9, <1>10 DEF Next

-----------------------------------------------------------------------------
(* What HeadlessBridgeProofs shows of the bridge, for this bridge.          *)

\* The two instances of HeadlessBridge define the same next-state relation.
LEMMA SameInit == Bridge!Init <=> BridgeTheorems!Init
BY DEF Bridge!Init, BridgeTheorems!Init

LEMMA SameNext == Bridge!Next <=> BridgeTheorems!Next
<1>1. Bridge!Lines = BridgeTheorems!Lines
  BY DEF Bridge!Lines, BridgeTheorems!Lines,
       Bridge!SystemLines, BridgeTheorems!SystemLines,
       Bridge!AssistantLines, BridgeTheorems!AssistantLines,
       Bridge!UserLines, BridgeTheorems!UserLines,
       Bridge!ResultLines, BridgeTheorems!ResultLines,
       Bridge!UpToBlocks, BridgeTheorems!UpToBlocks,
       Bridge!Event, BridgeTheorems!Event,
       Bridge!Denial, BridgeTheorems!Denial
<1>2. ASSUME NEW c \in Tasks, NEW line
      PROVE  Bridge!ReadLine(c, line) <=> BridgeTheorems!ReadLine(c, line)
  BY DEF Bridge!ReadLine, BridgeTheorems!ReadLine,
       Bridge!ParseDenials, BridgeTheorems!ParseDenials,
       Bridge!Denied, BridgeTheorems!Denied,
       Bridge!child, BridgeTheorems!child
<1>3. ASSUME NEW c \in Tasks
      PROVE  Bridge!Send(c) <=> BridgeTheorems!Send(c)
  BY DEF Bridge!Send, BridgeTheorems!Send,
       Bridge!Begin, BridgeTheorems!Begin,
       Bridge!Using, BridgeTheorems!Using,
       Bridge!Waiting, BridgeTheorems!Waiting,
       Bridge!approval, BridgeTheorems!approval,
       Bridge!child, BridgeTheorems!child
<1>4. ASSUME NEW c \in Tasks
      PROVE  Bridge!Wake(c) <=> BridgeTheorems!Wake(c)
  BY DEF Bridge!Wake, BridgeTheorems!Wake,
       Bridge!Begin, BridgeTheorems!Begin,
       Bridge!child, BridgeTheorems!child
<1>5. ASSUME NEW c \in Tasks
      PROVE  Bridge!Spawn(c) <=> BridgeTheorems!Spawn(c)
  BY DEF Bridge!Spawn, BridgeTheorems!Spawn,
       Bridge!approval, BridgeTheorems!approval
<1>6. ASSUME NEW c \in Tasks
      PROVE  Bridge!SpawnFails(c) <=> BridgeTheorems!SpawnFails(c)
  BY DEF Bridge!SpawnFails, BridgeTheorems!SpawnFails,
       Bridge!Event, BridgeTheorems!Event,
       Bridge!approval, BridgeTheorems!approval,
       Bridge!child, BridgeTheorems!child
<1>7. ASSUME NEW c \in Tasks
      PROVE  Bridge!ReadEof(c) <=> BridgeTheorems!ReadEof(c)
  BY DEF Bridge!ReadEof, BridgeTheorems!ReadEof,
       Bridge!approval, BridgeTheorems!approval,
       Bridge!child, BridgeTheorems!child
<1>8. ASSUME NEW c \in Tasks
      PROVE  Bridge!Advance(c) <=> BridgeTheorems!Advance(c)
  BY DEF Bridge!Advance, BridgeTheorems!Advance,
       Bridge!Release, BridgeTheorems!Release,
       Bridge!approval, BridgeTheorems!approval,
       Bridge!child, BridgeTheorems!child
<1>9. ASSUME NEW c \in Tasks
      PROVE  Bridge!Close(c) <=> BridgeTheorems!Close(c)
  BY DEF Bridge!Close, BridgeTheorems!Close,
       Bridge!Release, BridgeTheorems!Release,
       Bridge!approval, BridgeTheorems!approval,
       Bridge!child, BridgeTheorems!child
<1>10. ASSUME NEW c \in Tasks
      PROVE  Bridge!Reap(c) <=> BridgeTheorems!Reap(c)
  BY DEF Bridge!Reap, BridgeTheorems!Reap,
       Bridge!Release, BridgeTheorems!Release,
       Bridge!Event, BridgeTheorems!Event,
       Bridge!approval, BridgeTheorems!approval
<1>11. ASSUME NEW c \in Tasks
      PROVE  Bridge!Exit(c) <=> BridgeTheorems!Exit(c)
  BY DEF Bridge!Exit, BridgeTheorems!Exit,
       Bridge!generator, BridgeTheorems!generator,
       Bridge!approval, BridgeTheorems!approval
<1>12. Bridge!Interrupt <=> BridgeTheorems!Interrupt
  BY DEF Bridge!Interrupt, BridgeTheorems!Interrupt,
       Bridge!generator, BridgeTheorems!generator,
       Bridge!approval, BridgeTheorems!approval
<1>13. Bridge!RespondApprove <=> BridgeTheorems!RespondApprove
  BY DEF Bridge!RespondApprove, BridgeTheorems!RespondApprove,
       Bridge!generator, BridgeTheorems!generator,
       Bridge!child, BridgeTheorems!child
<1>14. Bridge!RespondDeny <=> BridgeTheorems!RespondDeny
  BY DEF Bridge!RespondDeny, BridgeTheorems!RespondDeny,
       Bridge!generator, BridgeTheorems!generator,
       Bridge!child, BridgeTheorems!child
<1>15. ASSUME NEW c \in Tasks
      PROVE  Bridge!Turn(c) <=> BridgeTheorems!Turn(c)
  BY <1>1, <1>2, <1>3, <1>4, <1>5, <1>6, <1>7, <1>8, <1>9, <1>10, <1>11
  DEF Bridge!Turn, BridgeTheorems!Turn
<1>16. QED
  BY <1>3, <1>11, <1>12, <1>13, <1>14, <1>15 DEF Bridge!Next, BridgeTheorems!Next

\* The bridge's own invariants, in the bot.
BridgeInv ==
  /\ BridgeTheorems!TypeInv
  /\ BridgeTheorems!OnlyTheHolderRuns
  /\ BridgeTheorems!QueueDistinct

LEMMA BridgeInvariant == Spec => []BridgeInv
<1>1. NULL \notin Tools \cup Tasks /\ MaxBlocks \in Nat /\ MaxLines \in Nat
  BY SessionAssumption
<1>2. Init => BridgeTheorems!Init
  BY SameInit DEF Init
<1>3. [Next]_vars => [BridgeTheorems!Next]_(BridgeTheorems!bridgeVars)
  <2>1. UNCHANGED Bridge!bridgeVars <=> UNCHANGED BridgeTheorems!bridgeVars
    BY DEF Bridge!bridgeVars, BridgeTheorems!bridgeVars,
      Bridge!generator, BridgeTheorems!generator,
      Bridge!approval, BridgeTheorems!approval,
      Bridge!child, BridgeTheorems!child
  <2>2. QED
    BY BridgeStep, SameNext, <2>1
<1>4. Spec => BridgeTheorems!Spec
  BY <1>2, <1>3, PTL DEF Spec, BridgeTheorems!Spec
<1>5. BridgeTheorems!Spec => []BridgeTheorems!TypeInv
  BY <1>1, BridgeTheorems!TypeInvariant
<1>6. BridgeTheorems!Spec => []BridgeTheorems!OnlyTheHolderRuns
  BY <1>1, BridgeTheorems!SubprocessExclusive
<1>7. BridgeTheorems!Spec => []BridgeTheorems!QueueDistinct
  BY <1>1, BridgeTheorems!QueueInvariant
<1>8. QED
  BY <1>4, <1>5, <1>6, <1>7, PTL DEF BridgeInv
-----------------------------------------------------------------------------
(* Tasks and locks are well typed.                                         *)

Places == {"idle", "asr", "answering", "created", "queued",
           "turn", "report", "ending", "flush"}

\* A task that is somewhere has a text to send, and so a session; an
\* utterance sends its own text.
TasksOK ==
  /\ pc \in [Tasks -> Places]
  /\ prompt \in [Tasks -> Utterances \cup {NULL}]
  /\ \A t \in Tasks : t \in Utterances \/ pc[t] # "idle" => prompt[t] \in Utterances
  /\ \A u \in Utterances : prompt[u] = u

LocksOK ==
  /\ turnHolder \in [Sessions -> Tasks \cup {NULL}]
  /\ turnWaiters \in [Sessions -> Seq(Tasks)]

\* The prompt a session remembers was spoken in it.
LastPromptOK ==
  /\ lastPrompt \in [Sessions -> Utterances \cup {NULL}]
  /\ \A s \in Sessions : lastPrompt[s] # NULL => Home[lastPrompt[s]] = s

Types == TasksOK /\ LocksOK /\ LastPromptOK

\* The ways a step moves a task.
TaskMove ==
  \/ UNCHANGED <<pc, prompt>>
  \/ \E t \in Tasks, there \in Places :
       /\ t \in Utterances \/ pc[t] # "idle"
       /\ Goto(t, there)
       /\ UNCHANGED prompt
  \/ \E t \in Tasks :
       /\ Goto(t, "idle")
       /\ prompt' = IF t \in Retries THEN [prompt EXCEPT ![t] = NULL] ELSE prompt
  \/ \E r \in Retries, s \in Sessions :
       /\ lastPrompt[s] # NULL
       /\ Goto(r, "created")
       /\ prompt' = [prompt EXCEPT ![r] = lastPrompt[s]]

LEMMA StepMovesTask ==
  ASSUME [Next]_vars
  PROVE  TaskMove
<1> USE DEF TaskMove, Tasks, Places
<1>1. ASSUME NEW u \in Utterances, OnUtterance(u) \/ DropUtterance(u) \/ AnswerSpoken(u)
      PROVE  TaskMove
  BY <1>1 DEF OnUtterance, DropUtterance, AnswerSpoken
<1>2. ASSUME NEW u \in Utterances, HandlePrompt(u)
      PROVE  TaskMove
  BY <1>2 DEF HandlePrompt, EnterTurn, TakeTurn
<1>3. ASSUME NEW r \in Retries, RetryAfterApproval(r)
      PROVE  TaskMove
  BY <1>3 DEF RetryAfterApproval, EnterTurn, TakeTurn
<1>4. ASSUME NEW t \in Tasks, ResumeQueued(t)
      PROVE  TaskMove
  BY <1>4 DEF ResumeQueued, TakeTurn
<1>5. ASSUME NEW t \in Tasks, Stream(t)
      PROVE  TaskMove
  BY <1>5 DEF Stream, OnEvent
<1>6. ASSUME NEW t \in Tasks, LeaveStream(t) \/ StreamClosed(t) \/ Flushed(t)
      PROVE  TaskMove
  BY <1>6 DEF LeaveStream, StreamClosed, Flushed, EndTurn
<1>7. ASSUME NEW c \in Commands, Resolve(c)
      PROVE  TaskMove
  <2>1. Home[c] \in Sessions
    BY SessionAssumption
  <2>2. QED
    BY <1>7, <2>1
    DEF Resolve, ResolveNothing, ResolveDeny, ResolveApprove, ApproveRaises
<1>8. ASSUME NEW c \in Commands, NEW op \in Decisions, Issue(c, op)
      PROVE  TaskMove
  BY <1>8 DEF Issue
<1>9. ASSUME InterruptTurn \/ (\E s \in Sessions : BreakerCloses(s))
               \/ (\E t \in Tasks : ProcessExits(t)) \/ UNCHANGED vars
      PROVE  TaskMove
  BY <1>9 DEF InterruptTurn, BreakerCloses, ProcessExits, vars
<1>10. QED
  BY <1>1, <1>2, <1>3, <1>4, <1>5, <1>6, <1>7, <1>8, <1>9
  DEF Next, Utterance, RunTurn

LEMMA TasksStep ==
  ASSUME TasksOK, LastPromptOK, TaskMove
  PROVE  TasksOK'
<1> USE SessionAssumption DEF TasksOK, LastPromptOK, Goto, Tasks, Places
<1>1. CASE UNCHANGED <<pc, prompt>>
  BY <1>1
<1>2. ASSUME NEW t \in Tasks, NEW there \in Places,
             t \in Utterances \/ pc[t] # "idle", Goto(t, there), UNCHANGED prompt
      PROVE  TasksOK'
  BY <1>2
<1>3. ASSUME NEW t \in Tasks, Goto(t, "idle"),
             prompt' = IF t \in Retries THEN [prompt EXCEPT ![t] = NULL] ELSE prompt
      PROVE  TasksOK'
  BY <1>3
<1>4. ASSUME NEW r \in Retries, NEW s \in Sessions, lastPrompt[s] # NULL,
             Goto(r, "created"), prompt' = [prompt EXCEPT ![r] = lastPrompt[s]]
      PROVE  TasksOK'
  BY <1>4
<1>5. QED
  <2> HIDE DEF TasksOK, Goto, Places
  <2>1. QED
    BY <1>1, <1>2, <1>3, <1>4 DEF TaskMove

\* The ways a step moves the turn locks and what a session remembers.
TurnMove ==
  \/ UNCHANGED <<turnHolder, turnWaiters, lastPrompt>>
  \/ \E t \in Tasks :
       /\ t \in Utterances \/ pc[t] # "idle"
       /\ TakeTurn(t)
       /\ turnHolder[SessionOf(t)] = NULL
       /\ \/ UNCHANGED turnWaiters
          \/ /\ turnWaiters[SessionOf(t)] # <<>>
             /\ turnWaiters' = [turnWaiters EXCEPT ![SessionOf(t)] = Tail(@)]
  \/ \E t \in Tasks :
       /\ t \in Utterances \/ pc[t] # "idle"
       /\ turnWaiters' = [turnWaiters EXCEPT ![SessionOf(t)] = Append(@, t)]
       /\ UNCHANGED <<turnHolder, lastPrompt>>
  \/ \E t \in Tasks :
       /\ InTurn(t)
       /\ EndTurn(t)
       /\ UNCHANGED <<turnWaiters, lastPrompt>>

LEMMA StepMovesTurn ==
  ASSUME [Next]_vars
  PROVE  TurnMove
<1> USE DEF TurnMove, Tasks, turnLock
<1>1. ASSUME NEW u \in Utterances, OnUtterance(u) \/ DropUtterance(u) \/ AnswerSpoken(u)
      PROVE  TurnMove
  BY <1>1 DEF OnUtterance, DropUtterance, AnswerSpoken
<1>2. ASSUME NEW u \in Utterances, HandlePrompt(u)
      PROVE  TurnMove
  BY <1>2 DEF HandlePrompt, EnterTurn
<1>3. ASSUME NEW r \in Retries, RetryAfterApproval(r)
      PROVE  TurnMove
  BY <1>3 DEF RetryAfterApproval, EnterTurn
<1>4. ASSUME NEW t \in Tasks, ResumeQueued(t)
      PROVE  TurnMove
  BY <1>4 DEF ResumeQueued
<1>5. ASSUME NEW t \in Tasks, Stream(t)
      PROVE  TurnMove
  BY <1>5 DEF Stream
<1>6. ASSUME NEW t \in Tasks, LeaveStream(t) \/ StreamClosed(t) \/ Flushed(t)
      PROVE  TurnMove
  BY <1>6 DEF LeaveStream, StreamClosed, Flushed, InTurn
<1>7. ASSUME NEW c \in Commands, Resolve(c)
      PROVE  TurnMove
  BY <1>7 DEF Resolve, ResolveNothing, ResolveDeny, ResolveApprove, ApproveRaises
<1>8. ASSUME NEW c \in Commands, NEW op \in Decisions, Issue(c, op)
      PROVE  TurnMove
  BY <1>8 DEF Issue
<1>9. ASSUME InterruptTurn \/ (\E s \in Sessions : BreakerCloses(s))
               \/ (\E t \in Tasks : ProcessExits(t)) \/ UNCHANGED vars
      PROVE  TurnMove
  BY <1>9 DEF InterruptTurn, BreakerCloses, ProcessExits, vars
<1>10. QED
  BY <1>1, <1>2, <1>3, <1>4, <1>5, <1>6, <1>7, <1>8, <1>9
  DEF Next, Utterance, RunTurn

LEMMA LocksStep ==
  ASSUME Types, TurnMove
  PROVE  LocksOK' /\ LastPromptOK'
<1> USE SessionAssumption DEF Types, LocksOK, LastPromptOK, Tasks
<1>1. ASSUME NEW t \in Tasks, t \in Utterances \/ pc[t] # "idle"
      PROVE  prompt[t] \in Utterances /\ SessionOf(t) \in Sessions
  BY <1>1 DEF TasksOK, SessionOf
<1>2. CASE UNCHANGED <<turnHolder, turnWaiters, lastPrompt>>
  BY <1>2
<1>3. ASSUME NEW t \in Tasks, t \in Utterances \/ pc[t] # "idle", TakeTurn(t),
             \/ UNCHANGED turnWaiters
             \/ /\ turnWaiters[SessionOf(t)] # <<>>
                /\ turnWaiters' = [turnWaiters EXCEPT ![SessionOf(t)] = Tail(@)]
      PROVE  LocksOK' /\ LastPromptOK'
  <2>1. turnHolder' \in [Sessions -> Tasks \cup {NULL}]
    BY <1>3 DEF TakeTurn
  <2>2. turnWaiters' \in [Sessions -> Seq(Tasks)]
    <3>1. CASE UNCHANGED turnWaiters
      BY <3>1
    <3>2. CASE /\ turnWaiters[SessionOf(t)] # <<>>
               /\ turnWaiters' = [turnWaiters EXCEPT ![SessionOf(t)] = Tail(@)]
      <4>1. turnWaiters[SessionOf(t)] \in Seq(Tasks)
        BY <1>1, <1>3
      <4>2. Tail(turnWaiters[SessionOf(t)]) \in Seq(Tasks)
        BY <3>2, <4>1
      <4>3. QED
        BY <3>2, <4>2
    <3>3. QED
      BY <1>3, <3>1, <3>2
  <2>3. t \in Utterances => Home[t] = SessionOf(t)
    BY DEF SessionOf, TasksOK
  <2>4. LastPromptOK'
    BY <1>1, <1>3, <2>3 DEF TakeTurn
  <2>5. QED
    BY <2>1, <2>2, <2>4
<1>4. ASSUME NEW t \in Tasks, t \in Utterances \/ pc[t] # "idle",
             turnWaiters' = [turnWaiters EXCEPT ![SessionOf(t)] = Append(@, t)],
             UNCHANGED <<turnHolder, lastPrompt>>
      PROVE  LocksOK' /\ LastPromptOK'
  <2>1. Append(turnWaiters[SessionOf(t)], t) \in Seq(Tasks)
    BY <1>1, <1>4
  <2>2. QED
    BY <1>4, <2>1
<1>5. ASSUME NEW t \in Tasks, EndTurn(t), UNCHANGED <<turnWaiters, lastPrompt>>
      PROVE  LocksOK' /\ LastPromptOK'
  BY <1>5 DEF EndTurn
<1>6. QED
  <2> HIDE DEF Types, LocksOK, LastPromptOK
  <2>1. QED
    BY <1>2, <1>3, <1>4, <1>5 DEF TurnMove

-----------------------------------------------------------------------------
(* The latch and the slash commands are well typed.                        *)

LatchOK ==
  /\ pending \in [Sessions -> Latch \cup {NULL}]
  /\ rateLimited \in [Sessions -> BOOLEAN]
  /\ command \in [Commands -> Decisions \cup {"none"}]

\* A latch raised by the event at the head of the buffer names a tool.
LEMMA EventLatch ==
  ASSUME BridgeInv', NEW t \in Tasks, phase' = "yielded",
         Head(buf').kind = "permission"
  PROVE  [tool |-> Head(buf').tool, by |-> t] \in Latch
<1>1. buf' \in Seq(BridgeTheorems!Events) /\ buf' # <<>>
  BY DEF BridgeInv, BridgeTheorems!TypeInv, BridgeTheorems!TypeOK,
         BridgeTheorems!YieldsAnEvent
<1>2. Head(buf') \in BridgeTheorems!Events
  BY <1>1
<1>3. Head(buf').tool \in Tools
  BY <1>2 DEF BridgeTheorems!Events, BridgeTheorems!Event, BridgeTheorems!Denial
<1>4. QED
  BY <1>3 DEF Latch

\* The ways a step changes the latch of a session.
LatchMove ==
  \/ UNCHANGED pending
  \/ \E t \in Tasks, l \in Latch :
       /\ InTurn(t)
       /\ pending' = [pending EXCEPT ![SessionOf(t)] = l]
       /\ UNCHANGED lastPrompt
  \/ \E s \in Sessions :
       /\ pending' = [pending EXCEPT ![s] = NULL]
       /\ UNCHANGED lastPrompt

LEMMA StepMovesLatch ==
  ASSUME LatchOK, BridgeInv', [Next]_vars
  PROVE  LatchMove
<1> USE DEF LatchMove, latch
<1>1. ASSUME NEW u \in Utterances, OnUtterance(u) \/ Utterance(u)
      PROVE  UNCHANGED pending
  BY <1>1 DEF OnUtterance, Utterance, DropUtterance, HandlePrompt, AnswerSpoken
<1>2. ASSUME NEW r \in Retries, RetryAfterApproval(r)
      PROVE  UNCHANGED pending
  BY <1>2 DEF RetryAfterApproval
<1>3. ASSUME NEW t \in Tasks, Stream(t)
      PROVE  LatchMove
  <2>1. CASE phase' = "yielded" /\ Head(buf').kind = "permission"
    <3>1. [tool |-> Head(buf').tool, by |-> t] \in Latch
      BY <2>1, EventLatch
    <3>2. pending' = [pending EXCEPT ![SessionOf(t)]
                                      = [tool |-> Head(buf').tool, by |-> t]]
      BY <1>3, <2>1 DEF Stream, OnEvent
    <3>3. InTurn(t) /\ UNCHANGED lastPrompt
      BY <1>3 DEF Stream, InTurn
    <3>4. QED
      BY <3>1, <3>2, <3>3
  <2>2. CASE ~(phase' = "yielded" /\ Head(buf').kind = "permission")
    BY <1>3, <2>2 DEF Stream, OnEvent
  <2>3. QED
    BY <2>1, <2>2
<1>4. ASSUME NEW t \in Tasks,
             \/ ResumeQueued(t)
             \/ LeaveStream(t)
             \/ StreamClosed(t)
             \/ Flushed(t)
             \/ ProcessExits(t)
      PROVE  UNCHANGED pending
  BY <1>4 DEF ResumeQueued, LeaveStream, StreamClosed, Flushed, ProcessExits
<1>5. ASSUME NEW c \in Commands, Resolve(c)
      PROVE  LatchMove
  <2>1. Home[c] \in Sessions
    BY SessionAssumption
  <2>2. QED
    BY <1>5, <2>1 DEF Resolve, ResolveNothing, ResolveDeny, ResolveApprove,
                      ApproveRaises, ReleaseLatch
<1>6. ASSUME NEW c \in Commands, NEW op \in Decisions, Issue(c, op)
      PROVE  UNCHANGED pending
  BY <1>6 DEF Issue
<1>7. ASSUME InterruptTurn \/ (\E s \in Sessions : BreakerCloses(s)) \/ UNCHANGED vars
      PROVE  UNCHANGED pending
  BY <1>7 DEF InterruptTurn, BreakerCloses, vars
<1>8. QED
  BY <1>1, <1>2, <1>3, <1>4, <1>5, <1>6, <1>7 DEF Next, RunTurn

LEMMA BreakerStep ==
  ASSUME rateLimited \in [Sessions -> BOOLEAN], [Next]_vars
  PROVE  rateLimited' \in [Sessions -> BOOLEAN]
<1>1. \/ UNCHANGED rateLimited
      \/ \E s : rateLimited' = [rateLimited EXCEPT ![s] = TRUE]
      \/ \E s : rateLimited' = [rateLimited EXCEPT ![s] = FALSE]
  <2> USE DEF latch
  <2>1. ASSUME NEW u \in Utterances, OnUtterance(u) \/ Utterance(u)
        PROVE  UNCHANGED rateLimited
    BY <2>1 DEF OnUtterance, Utterance, DropUtterance, HandlePrompt, AnswerSpoken
  <2>2. ASSUME NEW t \in Tasks, RunTurn(t), ~Stream(t)
        PROVE  UNCHANGED rateLimited
    BY <2>2 DEF RunTurn, ResumeQueued, LeaveStream, StreamClosed, Flushed
  <2>3. ASSUME NEW t \in Tasks, Stream(t)
        PROVE  \/ UNCHANGED rateLimited
               \/ rateLimited' = [rateLimited EXCEPT ![SessionOf(t)] = TRUE]
    BY <2>3 DEF Stream, OnEvent
  <2>4. ASSUME NEW c \in Commands, Resolve(c)
        PROVE  UNCHANGED rateLimited
    BY <2>4 DEF Resolve, ResolveNothing, ResolveDeny, ResolveApprove, ApproveRaises,
                ReleaseLatch
  <2>5. ASSUME NEW c \in Commands, NEW op \in Decisions, Issue(c, op)
        PROVE  UNCHANGED rateLimited
    BY <2>5 DEF Issue
  <2>6. ASSUME \/ \E r \in Retries : RetryAfterApproval(r)
               \/ \E t \in Tasks : ProcessExits(t)
               \/ InterruptTurn
               \/ UNCHANGED vars
        PROVE  UNCHANGED rateLimited
    BY <2>6 DEF RetryAfterApproval, ProcessExits, InterruptTurn, vars
  <2>7. ASSUME NEW s \in Sessions, BreakerCloses(s)
        PROVE  rateLimited' = [rateLimited EXCEPT ![s] = FALSE]
    BY <2>7 DEF BreakerCloses
  <2>8. QED
    BY <2>1, <2>2, <2>3, <2>4, <2>5, <2>6, <2>7 DEF Next
<1>2. QED
  BY <1>1

LEMMA CommandStep ==
  ASSUME LatchOK, [Next]_vars
  PROVE  command' \in [Commands -> Decisions \cup {"none"}]
<1>1. \/ UNCHANGED command
      \/ \E c \in Commands : command' = [command EXCEPT ![c] = "none"]
      \/ \E c \in Commands, v \in Decisions : command' = [command EXCEPT ![c] = v]
  <2>1. ASSUME NEW u \in Utterances, OnUtterance(u) \/ Utterance(u)
        PROVE  UNCHANGED command
    BY <2>1 DEF OnUtterance, Utterance, DropUtterance, HandlePrompt, AnswerSpoken
  <2>2. ASSUME NEW t \in Tasks, RunTurn(t) \/ ProcessExits(t)
        PROVE  UNCHANGED command
    BY <2>2 DEF RunTurn, ResumeQueued, Stream, LeaveStream, StreamClosed, Flushed,
                ProcessExits
  <2>3. ASSUME NEW c \in Commands, Resolve(c)
        PROVE  command' = [command EXCEPT ![c] = "none"]
    BY <2>3 DEF Resolve, ResolveNothing, ResolveDeny, ResolveApprove, ApproveRaises,
                Finish
  <2>4. ASSUME NEW c \in Commands, NEW op \in Decisions, Issue(c, op)
        PROVE  \E v \in Decisions : command' = [command EXCEPT ![c] = v]
    BY <2>4 DEF Issue
  <2>5. ASSUME \/ \E r \in Retries : RetryAfterApproval(r)
               \/ \E s \in Sessions : BreakerCloses(s)
               \/ InterruptTurn
               \/ UNCHANGED vars
        PROVE  UNCHANGED command
    BY <2>5 DEF RetryAfterApproval, BreakerCloses, InterruptTurn, vars
  <2>6. QED
    BY <2>1, <2>2, <2>3, <2>4, <2>5 DEF Next
<1>2. QED
  BY <1>1 DEF LatchOK

LEMMA LatchStep ==
  ASSUME LatchOK, BridgeInv', [Next]_vars
  PROVE  LatchOK'
<1>1. pending' \in [Sessions -> Latch \cup {NULL}]
  BY StepMovesLatch DEF LatchOK, LatchMove
<1>2. QED
  BY <1>1, BreakerStep, CommandStep DEF LatchOK

Typed == Types /\ LatchOK

LEMMA TypedInit == Init => Typed
<1> SUFFICES ASSUME Init
             PROVE  Typed
  OBVIOUS
<1>1. TasksOK
  BY DEF Init, TasksOK, Places, Tasks
<1>2. LocksOK
  BY DEF Init, LocksOK
<1>3. LastPromptOK
  BY DEF Init, LastPromptOK
<1>4. LatchOK
  BY DEF Init, LatchOK
<1>5. QED
  BY <1>1, <1>2, <1>3, <1>4 DEF Typed, Types

LEMMA TypedInvariant == Spec => []Typed
<1>1. Typed /\ BridgeInv' /\ [Next]_vars => Typed'
  <2>1. ASSUME Typed, BridgeInv', [Next]_vars
        PROVE  Typed'
    BY <2>1, StepMovesTask, TasksStep, StepMovesTurn, LocksStep, LatchStep
    DEF Typed, Types, LatchOK
  <2>2. QED
    BY <2>1
<1>2. QED
  BY TypedInit, <1>1, BridgeInvariant, PTL DEF Spec

\* Every reachable state of the bot is well typed.
THEOREM TypeCorrect == Spec => []TypeOK
<1>1. BridgeTheorems!TypeOK => Bridge!TypeOK
  BY DEF Bridge!TypeOK, BridgeTheorems!TypeOK, Bridge!Phases, BridgeTheorems!Phases,
         Bridge!Events, BridgeTheorems!Events, Bridge!Event, BridgeTheorems!Event,
         Bridge!Denial, BridgeTheorems!Denial
<1>2. Typed /\ BridgeInv => TypeOK
  BY <1>1 DEF Typed, Types, TasksOK, LocksOK, LastPromptOK, LatchOK, Places,
              BridgeInv, BridgeTheorems!TypeInv, TypeOK
<1>3. QED
  BY <1>2, TypedInvariant, BridgeInvariant, PTL

-----------------------------------------------------------------------------
(* One turn at a time per session.                                         *)

TurnsHoldLock == \A t \in Tasks : InTurn(t) => turnHolder[SessionOf(t)] = t

\* What a step does to the turns: none begins, one begins, or one ends.
TurnChange ==
  \/ /\ UNCHANGED turnHolder
     /\ \A x \in Tasks : InTurn(x)' => InTurn(x) /\ prompt'[x] = prompt[x]
  \/ \E t \in Tasks :
       /\ turnHolder[SessionOf(t)] = NULL
       /\ t \in Utterances \/ pc[t] # "idle"
       /\ TakeTurn(t)
       /\ UNCHANGED prompt
  \/ \E t \in Tasks : InTurn(t) /\ EndTurn(t)

LEMMA StepChangesTurn ==
  ASSUME Typed, [Next]_vars
  PROVE  TurnChange
<1> USE SessionAssumption DEF TurnChange, Typed, Types, TasksOK, InTurn, Goto, Tasks, turnLock
<1>1. ASSUME NEW u \in Utterances, OnUtterance(u) \/ DropUtterance(u) \/ AnswerSpoken(u)
      PROVE  TurnChange
  BY <1>1 DEF OnUtterance, DropUtterance, AnswerSpoken
<1>2. ASSUME NEW t \in Tasks, EnterTurn(t), t \in Utterances \/ pc[t] # "idle",
             UNCHANGED prompt
      PROVE  TurnChange
  <2>1. CASE turnHolder[SessionOf(t)] = NULL /\ TakeTurn(t)
    BY <1>2, <2>1
  <2>2. CASE Goto(t, "queued") /\ UNCHANGED turnHolder
    BY <1>2, <2>2
  <2>3. QED
    BY <1>2, <2>1, <2>2 DEF EnterTurn
<1>3. ASSUME NEW u \in Utterances, HandlePrompt(u)
      PROVE  TurnChange
  <2>1. CASE EnterTurn(u) /\ UNCHANGED prompt
    BY <1>2, <2>1
  <2>2. CASE Goto(u, "answering") /\ UNCHANGED <<turnHolder, prompt>>
    BY <2>2
  <2>3. QED
    BY <1>3, <2>1, <2>2 DEF HandlePrompt
<1>4. ASSUME NEW r \in Retries, RetryAfterApproval(r)
      PROVE  TurnChange
  BY <1>2, <1>4 DEF RetryAfterApproval
<1>5. ASSUME NEW t \in Tasks, ResumeQueued(t)
      PROVE  TurnChange
  BY <1>5 DEF ResumeQueued
<1>6. ASSUME NEW t \in Tasks, Stream(t)
      PROVE  TurnChange
  BY <1>6 DEF Stream, OnEvent
<1>7. ASSUME NEW t \in Tasks, LeaveStream(t) \/ StreamClosed(t) \/ Flushed(t)
      PROVE  TurnChange
  <2>1. InTurn(t)
    BY <1>7 DEF LeaveStream, StreamClosed, Flushed
  <2>2. EndTurn(t) \/ (Goto(t, "flush") /\ UNCHANGED <<turnHolder, prompt>>)
          \/ UNCHANGED <<turnHolder, pc, prompt>>
    BY <1>7 DEF LeaveStream, StreamClosed, Flushed
  <2>3. QED
    BY <2>1, <2>2
<1>8. ASSUME NEW c \in Commands, Resolve(c)
      PROVE  TurnChange
  BY <1>8 DEF Resolve, ResolveNothing, ResolveDeny, ResolveApprove, ApproveRaises
<1>9. ASSUME NEW c \in Commands, NEW op \in Decisions, Issue(c, op)
      PROVE  TurnChange
  BY <1>9 DEF Issue
<1>10. ASSUME InterruptTurn \/ (\E s \in Sessions : BreakerCloses(s))
               \/ (\E t \in Tasks : ProcessExits(t)) \/ UNCHANGED vars
       PROVE  TurnChange
  BY <1>10 DEF InterruptTurn, BreakerCloses, ProcessExits, vars
<1>11. QED
  <2> HIDE DEF TurnChange, Typed
  <2>1. QED
    BY <1>1, <1>3, <1>4, <1>5, <1>6, <1>7, <1>8, <1>9, <1>10
    DEF Next, Utterance, RunTurn

LEMMA TurnsStep ==
  ASSUME Typed, TurnsHoldLock, TurnChange
  PROVE  TurnsHoldLock'
<1> USE SessionAssumption DEF Typed, Types, TasksOK, LocksOK, TurnsHoldLock, Goto
<1>1. ASSUME NEW t \in Tasks, t \in Utterances \/ pc[t] # "idle"
      PROVE  SessionOf(t) \in Sessions
  BY <1>1 DEF SessionOf
<1>2. CASE /\ UNCHANGED turnHolder
           /\ \A x \in Tasks : InTurn(x)' => InTurn(x) /\ prompt'[x] = prompt[x]
  BY <1>2 DEF SessionOf
<1>3. ASSUME NEW t \in Tasks, turnHolder[SessionOf(t)] = NULL,
             t \in Utterances \/ pc[t] # "idle", TakeTurn(t), UNCHANGED prompt
      PROVE  TurnsHoldLock'
  <2>1. SessionOf(t) \in Sessions
    BY <1>1, <1>3
  <2>2. ASSUME NEW x \in Tasks, InTurn(x)', x # t
        PROVE  turnHolder'[SessionOf(x)'] = x
    <3>1. InTurn(x) /\ SessionOf(x)' = SessionOf(x)
      BY <1>3, <2>2 DEF TakeTurn, InTurn, SessionOf
    <3>2. SessionOf(x) # SessionOf(t)
      BY <1>3, <3>1
    <3>3. QED
      BY <1>3, <3>1, <3>2 DEF TakeTurn
  <2>3. turnHolder'[SessionOf(t)'] = t
    BY <1>3, <2>1 DEF TakeTurn, SessionOf
  <2>4. QED
    BY <2>2, <2>3
<1>4. ASSUME NEW t \in Tasks, InTurn(t), EndTurn(t)
      PROVE  TurnsHoldLock'
  <2>1. ASSUME NEW x \in Tasks, InTurn(x)'
        PROVE  turnHolder'[SessionOf(x)'] = x
    <3>1. x # t
      BY <1>4, <2>1 DEF EndTurn, InTurn
    <3>2. InTurn(x) /\ SessionOf(x)' = SessionOf(x)
      BY <1>4, <2>1, <3>1 DEF EndTurn, InTurn, SessionOf
    <3>3. SessionOf(x) # SessionOf(t)
      BY <1>4, <3>1, <3>2
    <3>4. QED
      BY <1>4, <3>2, <3>3 DEF EndTurn
  <2>2. QED
    BY <2>1
<1>5. QED
  <2> HIDE DEF TurnsHoldLock, Typed
  <2>1. QED
    BY <1>2, <1>3, <1>4 DEF TurnChange

LEMMA TurnsInvariant == Spec => []TurnsHoldLock
<1>1. Init => TurnsHoldLock
  BY DEF Init, TurnsHoldLock, InTurn
<1>2. Typed /\ TurnsHoldLock /\ [Next]_vars => TurnsHoldLock'
  BY StepChangesTurn, TurnsStep
<1>3. QED
  BY <1>1, <1>2, TypedInvariant, PTL DEF Spec

-----------------------------------------------------------------------------
(* The bridge is used only inside a turn.                                  *)

\* Stronger than TurnLockProtectsBridge asks: a turn that is flushing has let
\* go of the bridge already.
Streaming(t) == pc[t] \in {"turn", "report", "ending"}
BridgeInTurn == \A t \in Tasks : Bridge!Using(t) => Streaming(t)

\* Closing the generator or reaching its end leaves its caller not using it.
LEMMA ReleasedIsUnused ==
  ASSUME BridgeInv, NEW t \in Tasks, bridgeHolder = t,
         bridgeHolder' = NULL, UNCHANGED bridgeWaiters
  PROVE  ~Bridge!Using(t)'
BY SessionAssumption
DEF BridgeInv, BridgeTheorems!QueueDistinct, BridgeTheorems!Waiting,
    Bridge!Using, Bridge!Waiting, Tasks

LEMMA BridgeInTurnStep ==
  ASSUME Typed, BridgeInv, BridgeInTurn, [Next]_vars
  PROVE  BridgeInTurn'
<1> USE DEF BridgeInTurn, Streaming
<1>1. bridgeWaiters \in Seq(Tasks) /\ pc \in [Tasks -> Places]
  BY DEF BridgeInv, BridgeTheorems!TypeInv, BridgeTheorems!TypeOK,
         Typed, Types, TasksOK
<1>2. ASSUME UNCHANGED <<bridgeHolder, bridgeWaiters>>, NEW t \in Tasks, ~Streaming(t),
             \A x \in Tasks : x # t => pc'[x] = pc[x]
      PROVE  BridgeInTurn'
  BY <1>2 DEF Bridge!Using, Bridge!Waiting
<1>3. ASSUME NEW t \in Tasks, TakeTurn(t) \/ (Bridge!Wake(t) /\ Streaming(t)'),
             \A x \in Tasks : x # t => pc'[x] = pc[x]
      PROVE  BridgeInTurn'
  <2>1. ASSUME NEW x \in Tasks, x # t, Bridge!Using(x)'
        PROVE  Bridge!Using(x)
    <3>1. CASE TakeTurn(t)
      BY <1>1, <2>1, <3>1
      DEF TakeTurn, Bridge!Send, Bridge!Begin, Bridge!Using, Bridge!Waiting
    <3>2. CASE Bridge!Wake(t)
      BY <1>1, <2>1, <3>2 DEF Bridge!Wake, Bridge!Begin, Bridge!Using, Bridge!Waiting
    <3>3. QED
      BY <1>3, <3>1, <3>2
  <2>2. Streaming(t)'
    BY <1>1, <1>3 DEF TakeTurn, Goto
  <2>3. QED
    BY <1>3, <2>1, <2>2
<1>4. ASSUME NEW t \in Tasks, EnterTurn(t), ~Streaming(t)
      PROVE  BridgeInTurn'
  <2>1. CASE TakeTurn(t)
    BY <1>1, <1>3, <2>1 DEF TakeTurn, Goto
  <2>2. CASE Goto(t, "queued") /\ UNCHANGED bridge
    BY <1>1, <1>2, <1>4, <2>2 DEF Goto, bridge
  <2>3. QED
    BY <1>4, <2>1, <2>2 DEF EnterTurn
<1>5. ASSUME NEW u \in Utterances, OnUtterance(u) \/ DropUtterance(u) \/ AnswerSpoken(u)
      PROVE  BridgeInTurn'
  BY <1>1, <1>2, <1>5 DEF OnUtterance, DropUtterance, AnswerSpoken, Goto, Tasks, bridge
<1>6. ASSUME NEW u \in Utterances, HandlePrompt(u)
      PROVE  BridgeInTurn'
  BY <1>1, <1>2, <1>4, <1>6 DEF HandlePrompt, Goto, Tasks, bridge
<1>7. ASSUME NEW r \in Retries, RetryAfterApproval(r)
      PROVE  BridgeInTurn'
  BY <1>4, <1>7 DEF RetryAfterApproval, Tasks
<1>8. ASSUME NEW t \in Tasks, ResumeQueued(t)
      PROVE  BridgeInTurn'
  BY <1>1, <1>3, <1>8 DEF ResumeQueued, TakeTurn, Goto
<1>9. ASSUME NEW t \in Tasks, Stream(t)
      PROVE  BridgeInTurn'
  <2>1. \A x \in Tasks : x # t => pc'[x] = pc[x]
    BY <1>1, <1>9 DEF Stream, OnEvent, Goto
  <2>2. CASE phase' # "free"
    <3>1. Streaming(t)'
      BY <1>1, <1>9, <2>2 DEF Stream, OnEvent, Goto
    <3>2. CASE Bridge!Wake(t)
      BY <1>3, <2>1, <3>1, <3>2
    <3>3. CASE ~Bridge!Wake(t)
      <4>1. UNCHANGED <<bridgeHolder, bridgeWaiters>>
        BY <1>9, <2>2, <3>3
        DEF Stream, Bridge!Spawn, Bridge!SpawnFails, Bridge!ReadLine, Bridge!ReadEof,
            Bridge!Advance, Bridge!Reap, Bridge!Release
      <4>2. QED
        BY <2>1, <3>1, <4>1 DEF Bridge!Using, Bridge!Waiting
    <3>4. QED
      BY <3>2, <3>3
  <2>3. CASE phase' = "free"
    <3>1. bridgeHolder = t /\ bridgeHolder' = NULL /\ UNCHANGED bridgeWaiters
      BY <1>9, <2>3
      DEF Stream, Bridge!Wake, Bridge!Begin, Bridge!Spawn, Bridge!SpawnFails,
          Bridge!ReadLine, Bridge!ReadEof, Bridge!Advance, Bridge!Reap, Bridge!Release
    <3>2. ~Bridge!Using(t)'
      BY <3>1, ReleasedIsUnused
    <3>3. QED
      BY <2>1, <3>1, <3>2, SessionAssumption DEF Bridge!Using, Bridge!Waiting
  <2>4. QED
    BY <2>2, <2>3
<1>10. ASSUME NEW t \in Tasks, LeaveStream(t) \/ StreamClosed(t)
       PROVE  BridgeInTurn'
  <2>1. \A x \in Tasks : x # t => pc'[x] = pc[x]
    BY <1>1, <1>10 DEF LeaveStream, StreamClosed, EndTurn, Goto
  <2>2. CASE UNCHANGED <<bridgeHolder, bridgeWaiters, pc>>
    BY <2>2 DEF Bridge!Using, Bridge!Waiting
  <2>3. CASE bridgeHolder = t /\ bridgeHolder' = NULL /\ UNCHANGED bridgeWaiters
    <3>1. ~Bridge!Using(t)'
      BY <2>3, ReleasedIsUnused
    <3>2. QED
      BY <2>1, <2>3, <3>1, SessionAssumption DEF Bridge!Using, Bridge!Waiting
  <2>4. QED
    BY <1>10, <2>2, <2>3
    DEF LeaveStream, StreamClosed, Bridge!Close, Bridge!Reap, Bridge!Release
<1>11. ASSUME NEW t \in Tasks, Flushed(t)
       PROVE  BridgeInTurn'
  BY <1>1, <1>2, <1>11 DEF Flushed, EndTurn, Goto, bridge
<1>12. ASSUME NEW c \in Commands, NEW r \in Retries, ResolveApprove(c, r)
       PROVE  BridgeInTurn'
  <2>1. UNCHANGED <<bridgeHolder, bridgeWaiters>>
    BY <1>12 DEF ResolveApprove, Bridge!RespondApprove, Bridge!generator
  <2>2. CASE UNCHANGED pc
    BY <2>1, <2>2 DEF Bridge!Using, Bridge!Waiting
  <2>3. CASE pc[r] = "idle" /\ Goto(r, "created")
    BY <1>1, <1>2, <2>1, <2>3 DEF Goto, Tasks
  <2>4. QED
    BY <1>12, <2>2, <2>3 DEF ResolveApprove
<1>13. ASSUME UNCHANGED <<bridgeHolder, bridgeWaiters, pc>>
       PROVE  BridgeInTurn'
  BY <1>13 DEF Bridge!Using, Bridge!Waiting
<1>14. ASSUME NEW c \in Commands, ResolveNothing(c) \/ ResolveDeny(c) \/ ApproveRaises(c)
       PROVE  BridgeInTurn'
  BY <1>13, <1>14 DEF ResolveNothing, ResolveDeny, ApproveRaises, Bridge!RespondDeny,
                      Bridge!generator, bridge
<1>15. ASSUME NEW c \in Commands, NEW op \in Decisions, Issue(c, op)
       PROVE  BridgeInTurn'
  BY <1>13, <1>15 DEF Issue, bridge
<1>16. ASSUME InterruptTurn \/ (\E s \in Sessions : BreakerCloses(s))
                \/ (\E t \in Tasks : ProcessExits(t)) \/ UNCHANGED vars
       PROVE  BridgeInTurn'
  BY <1>13, <1>16 DEF InterruptTurn, BreakerCloses, ProcessExits, vars, bridge,
                      Bridge!Interrupt, Bridge!Exit, Bridge!generator
<1>17. QED
  <2> HIDE DEF BridgeInTurn
  <2>1. QED
    BY <1>5, <1>6, <1>7, <1>8, <1>9, <1>10, <1>11, <1>12, <1>14, <1>15, <1>16
    DEF Next, Utterance, RunTurn, Resolve

LEMMA BridgeInTurnInvariant == Spec => []BridgeInTurn
<1>1. Init => BridgeInTurn
  BY SessionAssumption
  DEF Init, BridgeInTurn, Bridge!Init, Bridge!Using, Bridge!Waiting
<1>2. QED
  BY <1>1, BridgeInTurnStep, TypedInvariant, BridgeInvariant, PTL DEF Spec

\* A session's turns exclude each other, and the bridge is only ever used from
\* inside one.
THEOREM TurnExclusion == Spec => []TurnLockProtectsBridge
<1>1. TurnsHoldLock /\ BridgeInTurn => TurnLockProtectsBridge
  BY DEF TurnsHoldLock, BridgeInTurn, Streaming, InTurn, TurnLockProtectsBridge
<1>2. QED
  BY <1>1, TurnsInvariant, BridgeInTurnInvariant, PTL

-----------------------------------------------------------------------------
(* An approval is on its way to a retry.                                   *)

\* Tasks that only exist because their session has a prompt to send.
Prompted(t) == InTurn(t) \/ (t \in Retries /\ pc[t] # "idle")

\* A latched session, and the session of a turn or a retry, remembers a
\* prompt: resolve_permission never finds nothing to retry.
PromptKnown ==
  /\ \A s \in Sessions : pending[s] # NULL => lastPrompt[s] # NULL
  /\ \A t \in Tasks : Prompted(t) => lastPrompt[SessionOf(t)] # NULL

\* What a step does to prompts: nothing new, a turn begins, a retry is created.
PromptChange ==
  \/ /\ UNCHANGED lastPrompt
     /\ \A x \in Tasks : Prompted(x)' => Prompted(x) /\ prompt'[x] = prompt[x]
  \/ \E t \in Tasks :
       /\ t \in Utterances \/ pc[t] # "idle"
       /\ TakeTurn(t)
       /\ UNCHANGED prompt
  \/ \E r \in Retries, s \in Sessions :
       /\ lastPrompt[s] # NULL
       /\ Goto(r, "created")
       /\ prompt' = [prompt EXCEPT ![r] = lastPrompt[s]]
       /\ UNCHANGED lastPrompt

LEMMA StepChangesPrompt ==
  ASSUME Typed, [Next]_vars
  PROVE  PromptChange
<1> USE SessionAssumption DEF PromptChange, Typed, Types, TasksOK, Prompted, InTurn,
                              Goto, Tasks, turnLock
<1>1. ASSUME NEW u \in Utterances, OnUtterance(u) \/ DropUtterance(u) \/ AnswerSpoken(u)
      PROVE  PromptChange
  BY <1>1 DEF OnUtterance, DropUtterance, AnswerSpoken
<1>2. ASSUME NEW t \in Tasks, EnterTurn(t), t \in Utterances \/ pc[t] # "idle",
             UNCHANGED prompt
      PROVE  PromptChange
  <2>1. CASE TakeTurn(t)
    BY <1>2, <2>1
  <2>2. CASE Goto(t, "queued") /\ UNCHANGED lastPrompt
    BY <1>2, <2>2
  <2>3. QED
    BY <1>2, <2>1, <2>2 DEF EnterTurn
<1>3. ASSUME NEW u \in Utterances, HandlePrompt(u)
      PROVE  PromptChange
  <2>1. CASE EnterTurn(u) /\ UNCHANGED prompt
    BY <1>2, <2>1
  <2>2. CASE Goto(u, "answering") /\ UNCHANGED <<lastPrompt, prompt>>
    BY <2>2
  <2>3. QED
    BY <1>3, <2>1, <2>2 DEF HandlePrompt
<1>4. ASSUME NEW r \in Retries, RetryAfterApproval(r)
      PROVE  PromptChange
  BY <1>2, <1>4 DEF RetryAfterApproval
<1>5. ASSUME NEW t \in Tasks, ResumeQueued(t)
      PROVE  PromptChange
  BY <1>5 DEF ResumeQueued
<1>6. ASSUME NEW t \in Tasks, Stream(t)
      PROVE  PromptChange
  BY <1>6 DEF Stream, OnEvent
<1>7. ASSUME NEW t \in Tasks, LeaveStream(t) \/ StreamClosed(t) \/ Flushed(t)
      PROVE  PromptChange
  <2>1. InTurn(t) /\ UNCHANGED lastPrompt
    BY <1>7 DEF LeaveStream, StreamClosed, Flushed
  <2>2. EndTurn(t) \/ (Goto(t, "flush") /\ UNCHANGED prompt) \/ UNCHANGED <<pc, prompt>>
    BY <1>7 DEF LeaveStream, StreamClosed, Flushed
  <2>3. CASE EndTurn(t)
    <3>1. ~Prompted(t)' /\ \A x \in Tasks : x # t => pc'[x] = pc[x] /\ prompt'[x] = prompt[x]
      BY <2>3 DEF EndTurn
    <3>2. QED
      BY <2>1, <3>1
  <2>4. QED
    BY <2>1, <2>2, <2>3
<1>8. ASSUME NEW c \in Commands, Resolve(c)
      PROVE  PromptChange
  <2>1. Home[c] \in Sessions
    BY SessionAssumption
  <2>2. QED
    BY <1>8, <2>1
    DEF Resolve, ResolveNothing, ResolveDeny, ResolveApprove, ApproveRaises
<1>9. ASSUME NEW c \in Commands, NEW op \in Decisions, Issue(c, op)
      PROVE  PromptChange
  BY <1>9 DEF Issue
<1>10. ASSUME InterruptTurn \/ (\E s \in Sessions : BreakerCloses(s))
               \/ (\E t \in Tasks : ProcessExits(t)) \/ UNCHANGED vars
       PROVE  PromptChange
  BY <1>10 DEF InterruptTurn, BreakerCloses, ProcessExits, vars
<1>11. QED
  <2> HIDE DEF PromptChange, Typed
  <2>1. QED
    BY <1>1, <1>3, <1>4, <1>5, <1>6, <1>7, <1>8, <1>9, <1>10
    DEF Next, Utterance, RunTurn

LEMMA PromptKnownStep ==
  ASSUME Typed, PromptKnown, PromptChange, LatchMove
  PROVE  PromptKnown'
<1> USE SessionAssumption DEF Typed, Types, TasksOK, LastPromptOK, PromptKnown
<1>1. ASSUME NEW t \in Tasks, t \in Utterances \/ pc[t] # "idle"
      PROVE  prompt[t] \in Utterances /\ SessionOf(t) \in Sessions
  BY <1>1 DEF SessionOf
<1>2. ASSUME NEW s \in Sessions, lastPrompt[s] # NULL
      PROVE  lastPrompt'[s] # NULL
  BY <1>2 DEF PromptChange, TakeTurn, Tasks
<1>3. \A s \in Sessions : pending'[s] # NULL => lastPrompt'[s] # NULL
  <2>1. ASSUME NEW t \in Tasks, InTurn(t)
        PROVE  lastPrompt[SessionOf(t)] # NULL
    BY <2>1 DEF Prompted
  <2>2. ASSUME NEW s \in Sessions, pending'[s] # NULL
        PROVE  lastPrompt[s] # NULL
    BY <2>1, <2>2 DEF LatchMove, LatchOK
  <2>3. QED
    BY <1>2, <2>2
<1>4. \A t \in Tasks : Prompted(t)' => lastPrompt'[SessionOf(t)'] # NULL
  <2>1. CASE /\ UNCHANGED lastPrompt
             /\ \A x \in Tasks : Prompted(x)' => Prompted(x) /\ prompt'[x] = prompt[x]
    BY <2>1 DEF SessionOf
  <2>2. ASSUME NEW t \in Tasks, t \in Utterances \/ pc[t] # "idle", TakeTurn(t),
               UNCHANGED prompt, NEW x \in Tasks, Prompted(x)'
        PROVE  lastPrompt'[SessionOf(x)'] # NULL
    <3>1. SessionOf(x)' = SessionOf(x)
      BY <2>2 DEF SessionOf
    <3>2. CASE x = t /\ t \in Utterances
      BY <1>1, <2>2, <3>1, <3>2 DEF TakeTurn
    <3>3. CASE ~(x = t /\ t \in Utterances)
      <4>1. Prompted(x)
        BY <2>2, <3>3 DEF Prompted, InTurn, TakeTurn, Goto, Tasks
      <4>2. SessionOf(x) \in Sessions
        BY <1>1, <4>1 DEF Prompted, InTurn
      <4>3. QED
        BY <1>2, <3>1, <4>1, <4>2
    <3>4. QED
      BY <3>2, <3>3
  <2>3. ASSUME NEW r \in Retries, NEW s \in Sessions, lastPrompt[s] # NULL,
               Goto(r, "created"), prompt' = [prompt EXCEPT ![r] = lastPrompt[s]],
               UNCHANGED lastPrompt, NEW x \in Tasks, Prompted(x)'
        PROVE  lastPrompt'[SessionOf(x)'] # NULL
    <3>1. CASE x = r
      <4>1. SessionOf(x)' = s
        BY <2>3, <3>1 DEF SessionOf
      <4>2. QED
        BY <2>3, <4>1
    <3>2. CASE x # r
      <4>1. Prompted(x) /\ SessionOf(x)' = SessionOf(x)
        BY <2>3, <3>2 DEF Prompted, InTurn, Goto, SessionOf
      <4>2. QED
        BY <2>3, <4>1
    <3>3. QED
      BY <3>1, <3>2
  <2>4. QED
    BY <2>1, <2>2, <2>3 DEF PromptChange
<1>5. QED
  BY <1>3, <1>4

LEMMA PromptKnownInvariant == Spec => []PromptKnown
<1>1. Init => PromptKnown
  BY DEF Init, PromptKnown, Prompted, InTurn
<1>2. Typed /\ BridgeInv' /\ PromptKnown /\ [Next]_vars => PromptKnown'
  BY StepChangesPrompt, StepMovesLatch, PromptKnownStep DEF Typed
<1>3. QED
  BY <1>1, <1>2, TypedInvariant, BridgeInvariant, PTL DEF Spec

Coming(r) == pc[r] \in {"created", "queued"} \/ Bridge!Waiting(r)

\* What a step does to the approvals: spends them, makes one for a new retry,
\* or leaves them and every retry on its way.
ApprovalChange ==
  \/ oneShot' = {}
  \/ \E r \in Retries : pc'[r] = "created"
  \/ /\ UNCHANGED oneShot
     /\ \A r \in Retries : Coming(r) => Coming(r)'

LEMMA StepChangesApproval ==
  ASSUME Typed, BridgeInv, PromptKnown, [Next]_vars
  PROVE  ApprovalChange
<1> USE DEF ApprovalChange, Coming
<1>1. bridgeWaiters \in Seq(Tasks) /\ pc \in [Tasks -> Places] /\ Retries \subseteq Tasks
  BY DEF BridgeInv, BridgeTheorems!TypeInv, BridgeTheorems!TypeOK,
         Typed, Types, TasksOK, Tasks
<1>2. ASSUME UNCHANGED <<oneShot, bridgeWaiters>>, NEW t \in Tasks, NEW there \in Places,
             pc[t] \notin {"created", "queued"}, Goto(t, there)
      PROVE  ApprovalChange
  BY <1>1, <1>2 DEF Goto, Bridge!Waiting
<1>3. ASSUME UNCHANGED <<oneShot, bridgeWaiters, pc>>
      PROVE  ApprovalChange
  BY <1>3 DEF Bridge!Waiting
<1>4. ASSUME NEW t \in Tasks, TakeTurn(t)
      PROVE  ApprovalChange
  <2>1. CASE oneShot' = {}
    BY <2>1
  <2>2. CASE bridgeWaiters' = Append(bridgeWaiters, t) /\ UNCHANGED oneShot
    <3>1. Bridge!Waiting(t)'
      <4>1. Len(bridgeWaiters) + 1 \in DOMAIN bridgeWaiters'
        BY <1>1, <2>2
      <4>2. bridgeWaiters'[Len(bridgeWaiters) + 1] = t
        BY <1>1, <2>2
      <4>3. QED
        BY <4>1, <4>2 DEF Bridge!Waiting
    <3>2. ASSUME NEW r \in Retries, Bridge!Waiting(r)
          PROVE  Bridge!Waiting(r)'
      BY <1>1, <2>2, <3>2 DEF Bridge!Waiting
    <3>3. ASSUME NEW r \in Retries, r # t
          PROVE  pc'[r] = pc[r]
      BY <1>1, <1>4, <3>3 DEF TakeTurn, Goto
    <3>4. QED
      BY <2>2, <3>1, <3>2, <3>3
  <2>3. QED
    BY <1>4, <2>1, <2>2 DEF TakeTurn, Bridge!Send, Bridge!Begin, Bridge!approval
<1>5. ASSUME NEW t \in Tasks, EnterTurn(t)
      PROVE  ApprovalChange
  <2>1. CASE Goto(t, "queued") /\ UNCHANGED bridge
    <3>1. \A r \in Retries : pc[r] \in {"created", "queued"} =>
                               pc'[r] \in {"created", "queued"}
      BY <1>1, <2>1 DEF Goto
    <3>2. UNCHANGED <<oneShot, bridgeWaiters>>
      BY <2>1 DEF bridge
    <3>3. QED
      BY <3>1, <3>2 DEF Bridge!Waiting
  <2>2. QED
    BY <1>4, <1>5, <2>1 DEF EnterTurn
<1>6. ASSUME NEW u \in Utterances, OnUtterance(u) \/ Utterance(u)
      PROVE  ApprovalChange
  <2>1. u \in Tasks
    BY DEF Tasks
  <2>2. CASE EnterTurn(u)
    BY <1>5, <2>1, <2>2
  <2>3. CASE ~EnterTurn(u)
    <3>1. pc[u] \in {"idle", "asr", "answering"}
      BY <1>6 DEF OnUtterance, Utterance, DropUtterance, HandlePrompt, AnswerSpoken
    <3>2. \E there \in Places : Goto(u, there)
      BY <1>6, <2>3
      DEF OnUtterance, Utterance, DropUtterance, HandlePrompt, AnswerSpoken, Places
    <3>3. UNCHANGED <<oneShot, bridgeWaiters>>
      BY <1>6, <2>3
      DEF OnUtterance, Utterance, DropUtterance, HandlePrompt, AnswerSpoken, bridge
    <3>4. QED
      BY <1>2, <2>1, <3>1, <3>2, <3>3
  <2>4. QED
    BY <2>2, <2>3
<1>7. ASSUME NEW r \in Retries, RetryAfterApproval(r)
      PROVE  ApprovalChange
  BY <1>1, <1>5, <1>7 DEF RetryAfterApproval
<1>8. ASSUME NEW t \in Tasks, ResumeQueued(t)
      PROVE  ApprovalChange
  BY <1>4, <1>8 DEF ResumeQueued
<1>9. ASSUME NEW t \in Tasks, Stream(t)
      PROVE  ApprovalChange
  <2>1. CASE Bridge!Wake(t)
    BY <2>1 DEF Bridge!Wake, Bridge!Begin
  <2>2. CASE ~Bridge!Wake(t)
    <3>1. UNCHANGED <<oneShot, bridgeWaiters>>
      BY <1>9, <2>2
      DEF Stream, Bridge!Spawn, Bridge!SpawnFails, Bridge!ReadLine, Bridge!ReadEof,
          Bridge!Advance, Bridge!Reap, Bridge!approval
    <3>2. UNCHANGED pc \/ \E there \in Places : Goto(t, there)
      BY <1>9 DEF Stream, OnEvent, Places
    <3>3. pc[t] = "turn"
      BY <1>9 DEF Stream
    <3>4. QED
      BY <1>2, <1>3, <3>1, <3>2, <3>3
  <2>3. QED
    BY <2>1, <2>2
<1>10. ASSUME NEW t \in Tasks, LeaveStream(t) \/ StreamClosed(t) \/ Flushed(t)
       PROVE  ApprovalChange
  <2>1. UNCHANGED <<oneShot, bridgeWaiters>>
    BY <1>10 DEF LeaveStream, StreamClosed, Flushed, Bridge!Close, Bridge!Reap,
                 Bridge!approval, bridge
  <2>2. UNCHANGED pc \/ \E there \in Places : Goto(t, there)
    BY <1>10 DEF LeaveStream, StreamClosed, Flushed, EndTurn, Places
  <2>3. pc[t] \in {"report", "ending", "flush"}
    BY <1>10 DEF LeaveStream, StreamClosed, Flushed
  <2>4. QED
    BY <1>2, <1>3, <2>1, <2>2, <2>3
<1>11. ASSUME NEW c \in Commands, NEW r \in Retries, ResolveApprove(c, r)
       PROVE  ApprovalChange
  <2>1. Home[c] \in Sessions
    BY SessionAssumption
  <2>2. lastPrompt[Home[c]] # NULL
    BY <1>11, <2>1 DEF ResolveApprove, ReleaseLatch, PromptKnown
  <2>3. Goto(r, "created")
    BY <1>11, <2>2 DEF ResolveApprove
  <2>4. QED
    BY <1>1, <2>3 DEF Goto
<1>12. ASSUME NEW c \in Commands, ResolveNothing(c) \/ ResolveDeny(c) \/ ApproveRaises(c)
       PROVE  ApprovalChange
  BY <1>3, <1>12 DEF ResolveNothing, ResolveDeny, ApproveRaises, Bridge!RespondDeny,
                     Bridge!generator, bridge
<1>13. ASSUME NEW c \in Commands, NEW op \in Decisions, Issue(c, op)
       PROVE  ApprovalChange
  BY <1>3, <1>13 DEF Issue, bridge
<1>14. ASSUME InterruptTurn \/ (\E s \in Sessions : BreakerCloses(s))
                \/ (\E t \in Tasks : ProcessExits(t)) \/ UNCHANGED vars
       PROVE  ApprovalChange
  BY <1>3, <1>14 DEF InterruptTurn, BreakerCloses, ProcessExits, vars, bridge,
                     Bridge!Interrupt, Bridge!Exit, Bridge!generator, Bridge!approval
<1>15. QED
  <2> HIDE DEF ApprovalChange
  <2>1. QED
    BY <1>6, <1>7, <1>8, <1>9, <1>10, <1>11, <1>12, <1>13, <1>14
    DEF Next, RunTurn, Resolve

\* While a tool is allowed for the next invocation, a retry that has yet to
\* start its invocation is on its way.
THEOREM ApprovalIsSpent == Spec => []ApprovalAwaitsRetry
<1>1. Init => ApprovalAwaitsRetry
  BY DEF Init, ApprovalAwaitsRetry, Bridge!Init
<1>2. ASSUME Typed, BridgeInv, PromptKnown, ApprovalAwaitsRetry, [Next]_vars
      PROVE  ApprovalAwaitsRetry'
  BY <1>2, StepChangesApproval DEF ApprovalChange, Coming, ApprovalAwaitsRetry
<1>3. QED
  BY <1>1, <1>2, TypedInvariant, BridgeInvariant, PromptKnownInvariant, PTL DEF Spec
=============================================================================
