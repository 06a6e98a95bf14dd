--------------------------- MODULE HeadlessBridge ---------------------------
(***************************************************************************)
(* HeadlessBridge (bridge/headless.py): one `claude -p` subprocess per     *)
(* turn, its stdout parsed line by line into events, and the one-shot      *)
(* approvals that become --allowedTools of the next invocation.            *)
(*                                                                         *)
(* send() is an async generator that keeps the bridge's asyncio.Lock from  *)
(* its first event to its last, so the generator's position is one         *)
(* variable, `phase`, of whichever caller holds the lock.  A step below    *)
(* runs from one await (or yield) of send() to the next.  A caller asks    *)
(* for the next event (Advance) or closes the generator (Close); what the  *)
(* caller does in between is its own business (VoiceSession).              *)
(*                                                                         *)
(* PROSE and RAW events differ only in wording and are one kind, "output". *)
(***************************************************************************)
EXTENDS Naturals, Sequences

CONSTANTS Callers,     \* tasks that may call send()
          Tools,       \* tools claude may be denied
          NULL,        \* Python's None
          MaxBlocks,   \* content blocks in one stream line
          MaxLines     \* lines one subprocess writes

ASSUME BridgeAssumption ==
  /\ NULL \notin Tools \cup Callers
  /\ MaxBlocks \in Nat
  /\ MaxLines \in Nat

VARIABLES
  bridgeHolder,   \* caller holding _lock, or NULL
  bridgeWaiters,  \* callers queued on _lock, oldest first
  phase,          \* where the holder's generator stands
  buf,            \* events of the current line not consumed yet; Head is yielded
  lines,          \* lines read in the current invocation
  allowed,        \* --allowedTools of the current invocation
  oneShot,        \* _one_shot_tools
  pendingTool,    \* _pending_tool
  process,        \* _process: whose send() spawned it, or NULL
  alive,          \* subprocesses that have not exited, named by their caller
  signalled       \* has SIGINT been sent to the process in _process

generator == <<bridgeHolder, bridgeWaiters, phase, buf, lines, allowed>>
approval  == <<oneShot, pendingTool>>
child     == <<process, alive, signalled>>
bridgeVars == <<generator, approval, child>>

-----------------------------------------------------------------------------
(* The stream.                                                             *)

Event(kind) == [kind |-> kind, tool |-> NULL]
Denial(tool) == [kind |-> "permission", tool |-> tool]
Events == {Event(k) : k \in {"output", "ratelimit", "error", "done"}}
            \cup {Denial(tool) : tool \in Tools}

UpToBlocks(S) == UNION {[1..n -> S] : n \in 0..MaxBlocks}

\* What each type of line parses to.
SystemLines    == {<<>>, <<Event("ratelimit")>>, <<Event("output")>>}
AssistantLines == UpToBlocks({Event("output")})
UserLines      == UpToBlocks({Event("output"), Event("ratelimit")}
                               \cup {Denial(tool) : tool \in Tools})
ResultLines    == {<<Event(k)>> : k \in {"ratelimit", "error", "done"}}
Lines == SystemLines \cup AssistantLines \cup UserLines \cup ResultLines

Denied(line) == {i \in DOMAIN line : line[i].kind = "permission"}

\* Parsing a line leaves _pending_tool at the last denial in it.
ParseDenials(line) ==
  \/ /\ Denied(line) = {}
     /\ UNCHANGED pendingTool
  \/ \E last \in Denied(line) :
       /\ \A i \in Denied(line) : i <= last
       /\ pendingTool' = line[last].tool

-----------------------------------------------------------------------------
Phases == {"free", "starting", "streaming", "yielded", "draining", "closing"}

TypeOK ==
  /\ bridgeHolder \in Callers \cup {NULL}
  /\ bridgeWaiters \in Seq(Callers)
  /\ phase \in Phases
  /\ buf \in Seq(Events)
  /\ lines \in 0..MaxLines
  /\ allowed \subseteq Tools
  /\ oneShot \subseteq Tools
  /\ pendingTool \in Tools \cup {NULL}
  /\ process \in Callers \cup {NULL}
  /\ alive \subseteq Callers
  /\ signalled \in BOOLEAN

Init ==
  /\ bridgeHolder = NULL
  /\ bridgeWaiters = <<>>
  /\ phase = "free"
  /\ buf = <<>>
  /\ lines = 0
  /\ allowed = {}
  /\ oneShot = {}
  /\ pendingTool = NULL
  /\ process = NULL
  /\ alive = {}
  /\ signalled = FALSE

Waiting(c) == \E i \in DOMAIN bridgeWaiters : bridgeWaiters[i] = c
Using(c) == bridgeHolder = c \/ Waiting(c)

\* Fault: the approvals handed out are not forgotten.
BeginKeepingApprovals(c) ==
  /\ bridgeHolder' = c
  /\ phase' = "starting"
  /\ allowed' = oneShot
  /\ pendingTool' = NULL
  /\ UNCHANGED <<buf, lines, oneShot, child>>

\* The lock is taken, the argv built with every approval, both cleared.
Begin(c) ==
  /\ bridgeHolder' = c
  /\ phase' = "starting"
  /\ allowed' = oneShot
  /\ oneShot' = {}
  /\ pendingTool' = NULL
  /\ UNCHANGED <<buf, lines, child>>

\* Fault: a newcomer takes a free lock before those who wait for it.
SendBarging(c) ==
  /\ ~Using(c)
  /\ \/ /\ bridgeHolder = NULL
        /\ Begin(c)
        /\ UNCHANGED bridgeWaiters
     \/ /\ bridgeHolder # NULL
        /\ bridgeWaiters' = Append(bridgeWaiters, c)
        /\ UNCHANGED <<bridgeHolder, phase, buf, lines, allowed, approval, child>>

\* The first anext() on send(): asyncio.Lock lets nobody overtake a waiter.
Send(c) ==
  /\ ~Using(c)
  /\ \/ /\ bridgeHolder = NULL
        /\ bridgeWaiters = <<>>
        /\ Begin(c)
        /\ UNCHANGED bridgeWaiters
     \/ /\ bridgeHolder # NULL \/ bridgeWaiters # <<>>
        /\ bridgeWaiters' = Append(bridgeWaiters, c)
        /\ UNCHANGED <<bridgeHolder, phase, buf, lines, allowed, approval, child>>

\* The released lock woke its oldest waiter.
Wake(c) ==
  /\ bridgeHolder = NULL
  /\ bridgeWaiters # <<>>
  /\ c = Head(bridgeWaiters)
  /\ bridgeWaiters' = Tail(bridgeWaiters)
  /\ Begin(c)

\* create_subprocess_exec returns.
Spawn(c) ==
  /\ bridgeHolder = c
  /\ phase = "starting"
  /\ phase' = "streaming"
  /\ process' = c
  /\ alive' = alive \cup {c}
  /\ UNCHANGED <<bridgeHolder, bridgeWaiters, buf, lines, allowed, approval, signalled>>

\* create_subprocess_exec raises OSError.
SpawnFails(c) ==
  /\ bridgeHolder = c
  /\ phase = "starting"
  /\ phase' = "yielded"
  /\ buf' = <<Event("error")>>
  /\ UNCHANGED <<bridgeHolder, bridgeWaiters, lines, allowed, approval, child>>

\* readline() returns a line, which is parsed whole before its first event
\* is yielded.
ReadLine(c, line) ==
  /\ bridgeHolder = c
  /\ phase = "streaming"
  /\ lines < MaxLines
  /\ lines' = lines + 1
  /\ buf' = line
  /\ phase' = IF line = <<>> THEN "streaming" ELSE "yielded"
  /\ ParseDenials(line)
  /\ UNCHANGED <<bridgeHolder, bridgeWaiters, allowed, oneShot, child>>

\* claude closed its stdout, at the latest by exiting: the loop ends, and the
\* finally clause waits for the exit.
ReadEof(c) ==
  /\ bridgeHolder = c
  /\ phase = "streaming"
  /\ phase' = "draining"
  /\ UNCHANGED <<bridgeHolder, bridgeWaiters, buf, lines, allowed, approval, child>>

\* The generator returns and `async with self._lock` lets go.
Release ==
  /\ bridgeHolder' = NULL
  /\ phase' = "free"
  /\ lines' = 0
  /\ allowed' = {}

\* The consumer wants the next event: the rest of the line, then the stream.
\* A generator whose subprocess is gone has nothing left.
Advance(c) ==
  /\ bridgeHolder = c
  /\ phase = "yielded"
  /\ buf' = Tail(buf)
  /\ \/ /\ Tail(buf) # <<>>
        /\ UNCHANGED <<bridgeHolder, phase, lines, allowed>>
     \/ /\ Tail(buf) = <<>>
        /\ process = c
        /\ phase' = "streaming"
        /\ UNCHANGED <<bridgeHolder, lines, allowed>>
     \/ /\ Tail(buf) = <<>>
        /\ process # c
        /\ Release
  /\ UNCHANGED <<bridgeWaiters, approval, child>>

\* Fault: a closed generator does not wait for its subprocess.
CloseAtOnce(c) ==
  /\ bridgeHolder = c
  /\ phase = "yielded"
  /\ buf' = <<>>
  /\ Release
  /\ UNCHANGED <<bridgeWaiters, approval, child>>

\* aclose() at a yield: with a subprocess the finally clause still waits for
\* it to exit, and nothing kills it.
Close(c) ==
  /\ bridgeHolder = c
  /\ phase = "yielded"
  /\ buf' = <<>>
  /\ \/ /\ process = c
        /\ phase' = "closing"
        /\ UNCHANGED <<bridgeHolder, lines, allowed>>
     \/ /\ process # c
        /\ Release
  /\ UNCHANGED <<bridgeWaiters, approval, child>>

\* Fault: a closed generator never gives the lock back.
ReapDrainedOnly(c) ==
  /\ bridgeHolder = c
  /\ phase = "draining"
  /\ c \notin alive
  /\ process' = NULL
  /\ signalled' = FALSE
  /\ Release
  /\ UNCHANGED <<bridgeWaiters, buf, approval, alive>>

\* process.wait() returns and _process is forgotten.  A closed generator ends
\* here; one that reached end of stream first reports a nonzero exit code.
Reap(c) ==
  /\ bridgeHolder = c
  /\ phase \in {"draining", "closing"}
  /\ c \notin alive
  /\ process' = NULL
  /\ signalled' = FALSE
  /\ \/ /\ Release
        /\ UNCHANGED buf
     \/ /\ phase = "draining"
        /\ phase' = "yielded"
        /\ buf' = <<Event("error")>>
        /\ UNCHANGED <<bridgeHolder, lines, allowed>>
  /\ UNCHANGED <<bridgeWaiters, approval, alive>>

\* The subprocess exits, on its own or because it was signalled.
Exit(c) ==
  /\ c \in alive
  /\ alive' = alive \ {c}
  /\ UNCHANGED <<generator, approval, process, signalled>>

-----------------------------------------------------------------------------
(* Called from slash commands, without _lock.                              *)

\* interrupt(): SIGINT for the process in _process, if it is still running.
Interrupt ==
  /\ process # NULL
  /\ process \in alive
  /\ signalled' = TRUE
  /\ UNCHANGED <<generator, approval, process, alive>>

\* Fault: an approval is granted though nothing was asked.
RespondUnasked ==
  /\ oneShot' = oneShot \cup {pendingTool}
  /\ pendingTool' = NULL
  /\ UNCHANGED <<generator, child>>

\* respond_to_permission(APPROVE); with no pending tool it raises BridgeError.
RespondApprove ==
  /\ pendingTool # NULL
  /\ oneShot' = oneShot \cup {pendingTool}
  /\ pendingTool' = NULL
  /\ UNCHANGED <<generator, child>>

RespondDeny ==
  /\ pendingTool' = NULL
  /\ UNCHANGED <<generator, oneShot, child>>

-----------------------------------------------------------------------------
(* The bridge by itself, under callers that do whatever the API allows.    *)

Turn(c) ==
  \/ Wake(c)
  \/ Spawn(c)
  \/ SpawnFails(c)
  \/ \E line \in Lines : ReadLine(c, line)
  \/ ReadEof(c)
  \/ Advance(c)
  \/ Close(c)
  \/ Reap(c)

Next ==
  \/ \E c \in Callers : Send(c) \/ Turn(c) \/ Exit(c)
  \/ Interrupt
  \/ RespondApprove
  \/ RespondDeny

Spec == Init /\ [][Next]_bridgeVars

\* A generator step runs when the event loop reaches it.  A subprocess need
\* not exit by itself; one that got SIGINT does.
TurnFairness == \A c \in Callers : WF_bridgeVars(Turn(c))
SigintFairness ==
  \A c \in Callers : WF_bridgeVars(signalled /\ process = c /\ Exit(c))
ExitFairness == \A c \in Callers : WF_bridgeVars(Exit(c))

FairSpec == Spec /\ TurnFairness

-----------------------------------------------------------------------------
(* Properties.                                                             *)

\* Two claude subprocesses never run at once: a live one belongs to the caller
\* that holds the bridge lock and is the one /interrupt would signal.  send()
\* waits for the exit before it lets go of the lock, also when it is closed
\* in the middle of the stream.
OnlyTheHolderRuns ==
  /\ alive \subseteq {process}
  /\ process \in {NULL, bridgeHolder}

\* An approval reaches at most one invocation, is never given for a tool that
\* was not asked for, and an invocation starts only when none is running,
\* whatever the interleaving of callers and slash commands.
Approval == INSTANCE OneShotApproval WITH
  asked <- pendingTool,
  allowance <- oneShot,
  inFlight <- bridgeHolder # NULL,
  carried <- allowed
ApprovalIsOneShot == Approval!Spec

\* SIGINT ends the turn it was sent to and frees the bridge for the next one,
\* even though claude might otherwise run for ever.
InterruptEndsTurn ==
  SigintFairness =>
    \A c \in Callers :
      (bridgeHolder = c /\ process = c /\ signalled) ~> bridgeHolder # c

\* If every claude process exits, every caller queued on the lock gets it.
WaiterIsServed ==
  ExitFairness => \A c \in Callers : Waiting(c) ~> bridgeHolder = c
=============================================================================
