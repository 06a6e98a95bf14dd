------------------------ MODULE HeadlessBridgeProofs ------------------------
(* Type correctness of HeadlessBridge, the exclusive use of its subprocess, *)
(* and the implementation of OneShotApproval, for any number of callers,    *)
(* tools, blocks and lines.                                                *)
EXTENDS HeadlessBridge, TLAPS

\* Every line that can be read is a sequence of events.
LEMMA LinesAreEvents == Lines \subseteq Seq(Events)
<1>1. SystemLines \subseteq Seq(Events)
  BY DEF SystemLines, Events
<1>2. ResultLines \subseteq Seq(Events)
  <2>1. ASSUME NEW k \in {"ratelimit", "error", "done"}
        PROVE  <<Event(k)>> \in Seq(Events)
    <3>1. Event(k) \in Events
      BY DEF Events
    <3>2. QED
      BY <3>1
  <2>2. QED
    BY <2>1 DEF ResultLines
<1>3. ASSUME NEW S, S \subseteq Events
      PROVE  UpToBlocks(S) \subseteq Seq(Events)
  BY <1>3, BridgeAssumption DEF UpToBlocks
<1>4. AssistantLines \subseteq Seq(Events)
  BY <1>3 DEF AssistantLines, Events
<1>5. UserLines \subseteq Seq(Events)
  BY <1>3 DEF UserLines, Events
<1>6. QED
  BY <1>1, <1>2, <1>4, <1>5 DEF Lines

\* Whatever a line says, _pending_tool stays a tool or None.
LEMMA ParseKeepsType ==
  ASSUME pendingTool \in Tools \cup {NULL}, NEW line \in Seq(Events),
         ParseDenials(line)
  PROVE  pendingTool' \in Tools \cup {NULL}
<1>1. CASE Denied(line) = {}
  BY <1>1 DEF ParseDenials
<1>2. ASSUME NEW i \in Denied(line)
      PROVE  line[i].tool \in Tools
  <2>1. line[i] \in Events /\ line[i].kind = "permission"
    BY DEF Denied
  <2>2. QED
    BY <2>1 DEF Events, Event, Denial
<1>3. QED
  BY <1>1, <1>2 DEF ParseDenials

-----------------------------------------------------------------------------
(* Type correctness.                                                       *)

\* A generator suspended at a yield has an event to deliver, and no other
\* generator has one left; the lock is free exactly when no generator runs.
YieldsAnEvent ==
  /\ phase = "yielded" <=> buf # <<>>
  /\ bridgeHolder = NULL <=> phase = "free"

TypeInv == TypeOK /\ YieldsAnEvent

LEMMA TypeInit == Init => TypeInv
<1>1. ASSUME Init
      PROVE  TypeOK
  <2>1. buf \in Seq(Events) /\ bridgeWaiters \in Seq(Callers)
    BY <1>1 DEF Init
  <2>2. lines \in 0..MaxLines
    BY <1>1, BridgeAssumption DEF Init
  <2>3. QED
    BY <1>1, <2>1, <2>2 DEF Init, TypeOK, Phases
<1>2. Init => YieldsAnEvent
  BY DEF Init, YieldsAnEvent
<1>3. QED
  BY <1>1, <1>2 DEF TypeInv

LEMMA YieldsStep ==
  ASSUME TypeInv, [Next]_bridgeVars
  PROVE  YieldsAnEvent'
<1> USE BridgeAssumption DEF TypeInv, YieldsAnEvent, generator, child
<1>1. ASSUME NEW c \in Callers, Send(c) \/ Turn(c) \/ Exit(c)
      PROVE  YieldsAnEvent'
  <2>1. CASE Send(c) \/ Wake(c)
    BY <2>1 DEF Send, Wake, Begin
  <2>2. CASE Spawn(c) \/ SpawnFails(c) \/ ReadEof(c) \/ Exit(c)
    BY <2>2 DEF Spawn, SpawnFails, ReadEof, Exit
  <2>3. CASE \E line \in Lines : ReadLine(c, line)
    BY <2>3 DEF ReadLine
  <2>4. CASE Advance(c) \/ Close(c)
    BY <2>4 DEF Advance, Close, Release
  <2>5. CASE Reap(c)
    BY <2>5 DEF Reap, Release
  <2>6. QED
    BY <1>1, <2>1, <2>2, <2>3, <2>4, <2>5 DEF Turn
<1>2. CASE Interrupt \/ RespondApprove \/ RespondDeny
  BY <1>2 DEF Interrupt, RespondApprove, RespondDeny
<1>3. CASE UNCHANGED bridgeVars
  BY <1>3 DEF bridgeVars
<1>4. QED
  BY <1>1, <1>2, <1>3 DEF Next

LEMMA TypeStep ==
  ASSUME TypeInv, [Next]_bridgeVars
  PROVE  TypeOK'
<1> USE BridgeAssumption DEF TypeInv, TypeOK, Phases, generator, approval, child
<1>1. ASSUME NEW c \in Callers, Send(c)
      PROVE  TypeOK'
  <2>1. CASE Begin(c) /\ UNCHANGED bridgeWaiters
    <3>1. lines' \in 0..MaxLines /\ buf' \in Seq(Events)
      BY <2>1 DEF Begin
    <3>2. QED
      BY <2>1, <3>1 DEF Begin
  <2>2. CASE /\ bridgeWaiters' = Append(bridgeWaiters, c)
             /\ UNCHANGED <<bridgeHolder, phase, buf, lines, allowed, approval, child>>
    <3>1. bridgeWaiters' \in Seq(Callers)
      BY <2>2
    <3>2. lines' \in 0..MaxLines /\ buf' \in Seq(Events)
      BY <2>2
    <3>3. QED
      BY <2>2, <3>1, <3>2
  <2>3. QED
    <3> HIDE DEF TypeOK
    <3>1. QED
      BY <1>1, <2>1, <2>2 DEF Send
<1>2. ASSUME NEW c \in Callers, Wake(c)
      PROVE  TypeOK'
  <2>1. Tail(bridgeWaiters) \in Seq(Callers)
    BY <1>2 DEF Wake
  <2>2. lines' \in 0..MaxLines /\ buf' \in Seq(Events)
    BY <1>2 DEF Wake, Begin
  <2>3. QED
    BY <1>2, <2>1, <2>2 DEF Wake, Begin
<1>3. ASSUME NEW c \in Callers, Spawn(c)
      PROVE  TypeOK'
  BY <1>3 DEF Spawn
<1>4. <<Event("error")>> \in Seq(Events)
  <2>1. Event("error") \in Events
    BY DEF Events
  <2>2. QED
    BY <2>1
<1>5. ASSUME NEW c \in Callers, SpawnFails(c)
      PROVE  TypeOK'
  BY <1>4, <1>5 DEF SpawnFails
<1>6. ASSUME NEW c \in Callers, NEW line \in Lines, ReadLine(c, line)
      PROVE  TypeOK'
  <2>1. line \in Seq(Events)
    BY LinesAreEvents
  <2>2. pendingTool' \in Tools \cup {NULL}
    BY <1>6, <2>1, ParseKeepsType DEF ReadLine
  <2>3. lines' \in 0..MaxLines
    BY <1>6 DEF ReadLine
  <2>4. QED
    BY <1>6, <2>1, <2>2, <2>3 DEF ReadLine
<1>7. ASSUME NEW c \in Callers, ReadEof(c)
      PROVE  TypeOK'
  BY <1>7 DEF ReadEof
<1>8. ASSUME NEW c \in Callers, Advance(c)
      PROVE  TypeOK'
  <2>1. Tail(buf) \in Seq(Events)
    BY <1>8 DEF Advance, YieldsAnEvent
  <2>2. QED
    BY <1>8, <2>1 DEF Advance, Release
<1>9. ASSUME NEW c \in Callers, Close(c)
      PROVE  TypeOK'
  BY <1>9 DEF Close, Release
<1>10. ASSUME NEW c \in Callers, Reap(c)
       PROVE  TypeOK'
  <2>1. buf' \in Seq(Events) /\ bridgeWaiters' \in Seq(Callers)
    BY <1>4, <1>10 DEF Reap
  <2>2. lines' \in 0..MaxLines
    BY <1>10 DEF Reap, Release
  <2>3. phase' \in Phases /\ bridgeHolder' \in Callers \cup {NULL}
    BY <1>10 DEF Reap, Release
  <2>4. allowed' \subseteq Tools
    BY <1>10 DEF Reap, Release
  <2>5. QED
    BY <1>10, <2>1, <2>2, <2>3, <2>4 DEF Reap
<1>11. ASSUME NEW c \in Callers, Exit(c)
       PROVE  TypeOK'
  BY <1>11 DEF Exit
<1>12. CASE Interrupt
  BY <1>12 DEF Interrupt
<1>13. CASE RespondApprove
  BY <1>13 DEF RespondApprove
<1>14. CASE RespondDeny
  BY <1>14 DEF RespondDeny
<1>15. CASE UNCHANGED bridgeVars
  BY <1>15 DEF bridgeVars
<1>16. QED
  BY <1>1, <1>2, <1>3, <1>5, <1>6, <1>7, <1>8, <1>9, <1>10, <1>11, <1>12,
     <1>13, <1>14, <1>15 DEF Next, Turn

LEMMA TypeInvariant == Spec => []TypeInv
<1>1. TypeInv /\ [Next]_bridgeVars => TypeInv'
  BY TypeStep, YieldsStep DEF TypeInv
<1>2. QED
  BY TypeInit, <1>1, PTL DEF Spec

\* Every reachable state is well typed.
THEOREM TypeCorrect == Spec => []TypeOK
BY TypeInvariant, PTL DEF TypeInv

-----------------------------------------------------------------------------
(* One subprocess at a time.                                               *)

\* Where the generator stands determines who holds the lock and what
\* _process is; OnlyTheHolderRuns alone does not say that a generator that
\* is about to spawn has nothing running.
IInv ==
  /\ OnlyTheHolderRuns
  /\ phase \in {"streaming", "draining", "closing"} => process = bridgeHolder
  /\ phase \in {"free", "starting"} => process = NULL
  /\ phase = "free" => allowed = {}

LEMMA IInvInit == Init => IInv
BY DEF Init, IInv, OnlyTheHolderRuns

LEMMA IInvStep ==
  ASSUME TypeInv, IInv, [Next]_bridgeVars
  PROVE  IInv'
<1> USE BridgeAssumption
    DEF TypeInv, TypeOK, YieldsAnEvent, Phases, IInv, OnlyTheHolderRuns, generator, approval, child
<1>1. ASSUME NEW c \in Callers, Send(c) \/ Wake(c)
      PROVE  IInv'
  BY <1>1 DEF Send, Wake, Begin
<1>2. ASSUME NEW c \in Callers, Spawn(c)
      PROVE  IInv'
  BY <1>2 DEF Spawn
<1>3. ASSUME NEW c \in Callers, SpawnFails(c)
      PROVE  IInv'
  BY <1>3 DEF SpawnFails
<1>4. ASSUME NEW c \in Callers, NEW line \in Lines, ReadLine(c, line)
      PROVE  IInv'
  BY <1>4 DEF ReadLine
<1>5. ASSUME NEW c \in Callers, ReadEof(c)
      PROVE  IInv'
  BY <1>5 DEF ReadEof
<1>6. ASSUME NEW c \in Callers, Advance(c)
      PROVE  IInv'
  BY <1>6 DEF Advance, Release
<1>7. ASSUME NEW c \in Callers, Close(c)
      PROVE  IInv'
  BY <1>7 DEF Close, Release
<1>8. ASSUME NEW c \in Callers, Reap(c)
      PROVE  IInv'
  BY <1>8 DEF Reap, Release
<1>9. ASSUME NEW c \in Callers, Exit(c)
      PROVE  IInv'
  BY <1>9 DEF Exit
<1>10. CASE Interrupt \/ RespondApprove \/ RespondDeny
  BY <1>10 DEF Interrupt, RespondApprove, RespondDeny
<1>11. CASE UNCHANGED bridgeVars
  BY <1>11 DEF bridgeVars
<1>12. QED
  BY <1>1, <1>2, <1>3, <1>4, <1>5, <1>6, <1>7, <1>8, <1>9, <1>10, <1>11
  DEF Next, Turn

LEMMA IInvInvariant == Spec => []IInv
BY IInvInit, IInvStep, TypeInvariant, PTL DEF Spec

\* The live claude subprocess, if there is one, belongs to the lock's holder.
THEOREM SubprocessExclusive == Spec => []OnlyTheHolderRuns
BY IInvInvariant, PTL DEF IInv

\* Hence two are never alive at once.
COROLLARY AtMostOneSubprocess ==
  Spec => [](\A c, d \in alive : c = d)
<1>1. OnlyTheHolderRuns => \A c, d \in alive : c = d
  BY DEF OnlyTheHolderRuns
<1>2. QED
  BY <1>1, SubprocessExclusive, PTL

-----------------------------------------------------------------------------
(* The queue of the lock.                                                  *)

\* A caller is queued at most once, and not while it holds the lock.
QueueDistinct ==
  /\ \A i, j \in DOMAIN bridgeWaiters : bridgeWaiters[i] = bridgeWaiters[j] => i = j
  /\ ~Waiting(bridgeHolder)

LEMMA QueueStep ==
  ASSUME TypeInv, QueueDistinct, [Next]_bridgeVars
  PROVE  QueueDistinct'
<1> USE BridgeAssumption DEF QueueDistinct, Waiting, generator
<1>1. bridgeWaiters \in Seq(Callers) /\ bridgeHolder \in Callers \cup {NULL}
  BY DEF TypeInv, TypeOK
<1>2. ASSUME NEW c \in Callers, Send(c)
      PROVE  QueueDistinct'
  <2>1. CASE Begin(c) /\ UNCHANGED bridgeWaiters
    BY <1>2, <2>1 DEF Send, Begin, Using
  <2>2. CASE UNCHANGED bridgeHolder /\ bridgeWaiters' = Append(bridgeWaiters, c)
    BY <1>1, <1>2, <2>2 DEF Send, Using
  <2>3. QED
    BY <1>2, <2>1, <2>2 DEF Send
<1>3. ASSUME NEW c \in Callers, Wake(c)
      PROVE  QueueDistinct'
  <2>1. /\ bridgeWaiters # <<>>
        /\ bridgeWaiters' = Tail(bridgeWaiters)
        /\ bridgeHolder' = bridgeWaiters[1]
    BY <1>1, <1>3 DEF Wake, Begin
  <2>2. QED
    BY <1>1, <2>1
<1>4. ASSUME UNCHANGED bridgeWaiters, bridgeHolder' \in {bridgeHolder, NULL}
      PROVE  QueueDistinct'
  BY <1>1, <1>4
<1>5. ASSUME NEW c \in Callers, Turn(c), ~Wake(c)
      PROVE  UNCHANGED bridgeWaiters /\ bridgeHolder' \in {bridgeHolder, NULL}
  BY <1>5 DEF Turn, Spawn, SpawnFails, ReadLine, ReadEof, Advance, Close, Reap, Release
<1>6. ASSUME NEW c \in Callers, Exit(c)
      PROVE  UNCHANGED bridgeWaiters /\ bridgeHolder' \in {bridgeHolder, NULL}
  BY <1>6 DEF Exit
<1>7. CASE Interrupt \/ RespondApprove \/ RespondDeny
  BY <1>4, <1>7 DEF Interrupt, RespondApprove, RespondDeny
<1>8. CASE UNCHANGED bridgeVars
  BY <1>4, <1>8 DEF bridgeVars
<1>9. QED
  <2> HIDE DEF QueueDistinct, Waiting
  <2>1. QED
    BY <1>2, <1>3, <1>4, <1>5, <1>6, <1>7, <1>8 DEF Next

\* Nobody waits twice for the lock, or for itself.
LEMMA QueueInvariant == Spec => []QueueDistinct
<1>1. Init => QueueDistinct
  BY DEF Init, QueueDistinct, Waiting
<1>2. QED
  BY <1>1, QueueStep, TypeInvariant, PTL DEF Spec

-----------------------------------------------------------------------------
(* The bridge implements OneShotApproval.                                  *)

LEMMA ApprovalInit == Init => Approval!Init
BY DEF Init, Approval!Init

LEMMA ApprovalStep ==
  ASSUME TypeInv, IInv, [Next]_bridgeVars
  PROVE  [Approval!Next]_(Approval!vars)
<1> USE BridgeAssumption DEF generator, approval, child, Approval!vars
<1>1. ASSUME NEW c \in Callers, Send(c) \/ Wake(c), bridgeHolder' = c, bridgeHolder = NULL
      PROVE  Approval!Invoke
  BY <1>1 DEF Send, Wake, Begin, Approval!Invoke
<1>2. ASSUME NEW c \in Callers, Send(c), bridgeHolder' = bridgeHolder
      PROVE  UNCHANGED Approval!vars
  BY <1>2 DEF Send, Begin
<1>3. ASSUME NEW c \in Callers, NEW line \in Lines, ReadLine(c, line)
      PROVE  [Approval!Next]_(Approval!vars)
  <2>1. CASE Denied(line) = {}
    BY <1>3, <2>1 DEF ReadLine, ParseDenials
  <2>2. ASSUME NEW i \in Denied(line), pendingTool' = line[i].tool
        PROVE  \E tool \in Tools : Approval!Ask(tool)
    <3>1. line[i] \in Events /\ line[i].kind = "permission"
      BY LinesAreEvents DEF Denied
    <3>2. line[i].tool \in Tools
      BY <3>1 DEF Events, Event, Denial
    <3>3. Approval!Ask(line[i].tool)
      BY <1>3, <2>2 DEF ReadLine, Approval!Ask
    <3>4. QED
      BY <3>2, <3>3
  <2>3. QED
    BY <1>3, <2>1, <2>2 DEF ReadLine, ParseDenials, Approval!Next
<1>4. ASSUME NEW c \in Callers, Advance(c) \/ Close(c) \/ Reap(c)
      PROVE  UNCHANGED Approval!vars \/ Approval!Finish
  BY <1>4 DEF Advance, Close, Reap, Release, Approval!Finish
<1>5. ASSUME NEW c \in Callers, Spawn(c) \/ SpawnFails(c) \/ ReadEof(c) \/ Exit(c)
      PROVE  UNCHANGED Approval!vars
  BY <1>5 DEF Spawn, SpawnFails, ReadEof, Exit
<1>6. CASE Interrupt
  BY <1>6 DEF Interrupt
<1>7. CASE RespondApprove
  BY <1>7 DEF RespondApprove, Approval!Next, Approval!Approve
<1>8. CASE RespondDeny
  BY <1>8 DEF RespondDeny, Approval!Next, Approval!Deny
<1>9. CASE UNCHANGED bridgeVars
  BY <1>9 DEF bridgeVars
<1>10. ASSUME NEW c \in Callers, Send(c) \/ Wake(c)
       PROVE  \/ bridgeHolder' = c /\ bridgeHolder = NULL
              \/ Send(c) /\ bridgeHolder' = bridgeHolder
  BY <1>10 DEF Send, Wake, Begin
<1>11. QED
  BY <1>1, <1>2, <1>3, <1>4, <1>5, <1>6, <1>7, <1>8, <1>9, <1>10
  DEF Next, Turn, Approval!Next

\* Every behaviour of the bridge is one of OneShotApproval: an approval
\* reaches at most one invocation and only for a tool that was asked for.
THEOREM ImplementsOneShotApproval == Spec => ApprovalIsOneShot
BY ApprovalInit, ApprovalStep, TypeInvariant, IInvInvariant, PTL
DEF Spec, ApprovalIsOneShot, Approval!Spec
=============================================================================
