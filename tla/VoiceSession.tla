---------------------------- MODULE VoiceSession ----------------------------
(***************************************************************************)
(* VoiceSession (discord_app/session.py) with the slash commands that      *)
(* answer it (discord_app/commands.py), on top of the headless bridge that *)
(* every session of the bot shares.                                        *)
(*                                                                         *)
(* One asyncio task runs each utterance and each approved retry; a step is *)
(* what a task does between two awaits.  Awaits that only delay (mirror,   *)
(* speech synthesis, interaction.defer) are the time a task spends in a    *)
(* program-counter value.                                                  *)
(*                                                                         *)
(*   idle        nothing heard; an utterance task ends here                *)
(*   asr         on_utterance is transcribing or mirroring the transcript  *)
(*   answering   speaking a reminder or a refusal                          *)
(*   created     a retry task that has not run yet                         *)
(*   queued      waiting for _turn_lock                                    *)
(*   turn        in _run_turn, waiting in bridge.send() or consuming it    *)
(*   report      in _raise_permission, _open_breaker or the ERROR branch,  *)
(*               then leaving aclosing()                                   *)
(*   ending      broke out of the loop on DONE, leaving aclosing()         *)
(*   flush       speaking the last sentences and mirroring the output      *)
(*                                                                         *)
(* Playback, the wake gate and the scoping gates decide only whether an    *)
(* utterance goes on; here either may happen.                              *)
(***************************************************************************)
EXTENDS Naturals, Sequences

CONSTANTS Sessions,     \* connected guilds, one VoiceSession each
          Utterances,   \* at most this many utterances are in the air at once
          Home,         \* the session of an utterance's or a command's guild
          Retries,      \* at most this many approved retries at once
          Commands,     \* slash-command invocations in progress at once
          Tools,        \* tools claude may be denied
          NULL,         \* Python's None
          MaxBlocks,    \* content blocks in one stream line
          MaxLines      \* lines one subprocess writes

Tasks == Utterances \cup Retries

ASSUME SessionAssumption ==
  /\ Home \in [Utterances \cup Commands -> Sessions]
  /\ Utterances \cap Retries = {}
  /\ NULL \notin Sessions \cup Tasks \cup Tools
  /\ MaxBlocks \in Nat
  /\ MaxLines \in Nat

VARIABLES
  pending,       \* _pending_permission of each session: [tool, by] or NULL
  rateLimited,   \* is the breaker of each session open
  lastPrompt,    \* _last_prompt of each session, named by its utterance
  turnHolder,    \* task holding each session's _turn_lock, or NULL
  turnWaiters,   \* tasks queued on it, oldest first
  pc,            \* where each task is
  prompt,        \* the text each task sends, named by its utterance
  command        \* the decision of each slash command that is in progress

\* The shared bridge's state.
VARIABLES bridgeHolder, bridgeWaiters, phase, buf, lines, allowed,
          oneShot, pendingTool, process, alive, signalled

Bridge == INSTANCE HeadlessBridge WITH Callers <- Tasks

latch    == <<pending, rateLimited>>
turnLock == <<turnHolder, turnWaiters>>
bridge   == <<bridgeHolder, bridgeWaiters, phase, buf, lines, allowed,
              oneShot, pendingTool, process, alive, signalled>>
vars == <<latch, lastPrompt, turnLock, pc, prompt, command, bridge>>

SessionOf(t) == Home[prompt[t]]

\* A latch is known by the tool it names and the turn that raised it.
Latch == [tool : Tools, by : Tasks]

Decisions == {"approve", "deny"}

Init ==
  /\ pending = [s \in Sessions |-> NULL]
  /\ rateLimited = [s \in Sessions |-> FALSE]
  /\ lastPrompt = [s \in Sessions |-> NULL]
  /\ turnHolder = [s \in Sessions |-> NULL]
  /\ turnWaiters = [s \in Sessions |-> <<>>]
  /\ pc = [t \in Tasks |-> "idle"]
  /\ prompt = [t \in Tasks |-> IF t \in Utterances THEN t ELSE NULL]
  /\ command = [c \in Commands |-> "none"]
  /\ Bridge!Init

Goto(t, there) == pc' = [pc EXCEPT ![t] = there]

-----------------------------------------------------------------------------
(* From the microphone to the turn lock.                                   *)

\* on_utterance up to its first await.
OnUtterance(u) ==
  /\ pc[u] = "idle"
  /\ Goto(u, "asr")
  /\ UNCHANGED <<latch, lastPrompt, turnLock, prompt, command, bridge>>

\* A refusing gate, a failed or empty transcription, a closed wake gate.
DropUtterance(u) ==
  /\ pc[u] = "asr"
  /\ Goto(u, "idle")
  /\ UNCHANGED <<latch, lastPrompt, turnLock, prompt, command, bridge>>

\* _turn_lock is taken; only an utterance sets _last_prompt.  send() runs to
\* its first await in the same step.
TakeTurn(t) ==
  /\ turnHolder' = [turnHolder EXCEPT ![SessionOf(t)] = t]
  /\ lastPrompt' = IF t \in Utterances
                   THEN [lastPrompt EXCEPT ![SessionOf(t)] = t]
                   ELSE lastPrompt
  /\ Goto(t, "turn")
  /\ Bridge!Send(t)

\* `async with self._turn_lock`: nobody overtakes a waiter.
EnterTurn(t) ==
  LET s == SessionOf(t) IN
  \/ /\ turnHolder[s] = NULL
     /\ turnWaiters[s] = <<>>
     /\ TakeTurn(t)
     /\ UNCHANGED turnWaiters
  \/ /\ turnHolder[s] # NULL \/ turnWaiters[s] # <<>>
     /\ turnWaiters' = [turnWaiters EXCEPT ![s] = Append(@, t)]
     /\ Goto(t, "queued")
     /\ UNCHANGED <<turnHolder, lastPrompt, bridge>>

\* _handle_prompt: an utterance goes on only past the latch, the breaker and
\* a lock that is not locked, though the lock may have waiters.
HandlePrompt(u) ==
  LET s == SessionOf(u)
      admitted == pending[s] = NULL /\ ~rateLimited[s] /\ turnHolder[s] = NULL
  IN /\ pc[u] = "asr"
     /\ \/ /\ ~admitted
           /\ Goto(u, "answering")
           /\ UNCHANGED <<lastPrompt, turnLock, bridge>>
        \/ /\ admitted
           /\ EnterTurn(u)
     /\ UNCHANGED <<latch, prompt, command>>

AnswerSpoken(u) ==
  /\ pc[u] = "answering"
  /\ Goto(u, "idle")
  /\ UNCHANGED <<latch, lastPrompt, turnLock, prompt, command, bridge>>

\* Fault: a retry that finds the turn lock taken is dropped like an utterance.
RetryGivesUp(r) ==
  /\ pc[r] = "created"
  /\ \/ /\ turnHolder[SessionOf(r)] = NULL
        /\ EnterTurn(r)
     \/ /\ turnHolder[SessionOf(r)] # NULL
        /\ Goto(r, "idle")
        /\ UNCHANGED <<lastPrompt, turnLock, bridge>>
  /\ UNCHANGED <<latch, prompt, command>>

\* _retry_after_approval, when its task first runs.
RetryAfterApproval(r) ==
  /\ pc[r] = "created"
  /\ EnterTurn(r)
  /\ UNCHANGED <<latch, prompt, command>>

\* The released lock woke its oldest waiter, which asks nothing again.
ResumeQueued(t) ==
  LET s == SessionOf(t) IN
  /\ pc[t] = "queued"
  /\ turnHolder[s] = NULL
  /\ turnWaiters[s] # <<>>
  /\ t = Head(turnWaiters[s])
  /\ TakeTurn(t)
  /\ turnWaiters' = [turnWaiters EXCEPT ![s] = Tail(@)]
  /\ UNCHANGED <<latch, prompt, command>>

-----------------------------------------------------------------------------
(* The turn.                                                               *)

\* The branch _run_turn takes for the event at the head of the primed buffer,
\* up to its first await.
OnEvent(t) ==
  LET s == SessionOf(t)
      event == Head(buf')
  IN \/ /\ event.kind = "output"
        /\ UNCHANGED <<pc, latch>>
     \/ /\ event.kind = "permission"
        /\ pending' = [pending EXCEPT ![s] = [tool |-> event.tool, by |-> t]]
        /\ Goto(t, "report")
        /\ UNCHANGED rateLimited
     \/ /\ event.kind = "ratelimit"
        /\ rateLimited' = [rateLimited EXCEPT ![s] = TRUE]
        /\ Goto(t, "report")
        /\ UNCHANGED pending
     \/ /\ event.kind = "error"
        /\ Goto(t, "report")
        /\ UNCHANGED latch
     \/ /\ event.kind = "done"
        /\ Goto(t, "ending")
        /\ UNCHANGED latch

\* The generator moves: alone, or handing _run_turn its next event.
Stream(t) ==
  /\ pc[t] = "turn"
  /\ \/ Bridge!Wake(t)
     \/ Bridge!Spawn(t)
     \/ Bridge!SpawnFails(t)
     \/ \E line \in Bridge!Lines : Bridge!ReadLine(t, line)
     \/ Bridge!ReadEof(t)
     \/ Bridge!Advance(t)
     \/ Bridge!Reap(t)
  /\ \/ /\ phase' = "yielded"
        /\ OnEvent(t)
     \/ /\ phase' \in {"starting", "streaming", "draining"}
        /\ UNCHANGED <<pc, latch>>
     \/ /\ phase' = "free"
        /\ Goto(t, "flush")
        /\ UNCHANGED latch
  /\ UNCHANGED <<lastPrompt, turnLock, prompt, command>>

\* The turn lock is released and the task ends; an utterance slot keeps its
\* text, a retry slot is free for another prompt.
EndTurn(t) ==
  /\ turnHolder' = [turnHolder EXCEPT ![SessionOf(t)] = NULL]
  /\ Goto(t, "idle")
  /\ prompt' = IF t \in Retries THEN [prompt EXCEPT ![t] = NULL] ELSE prompt

\* Fault: a turn that returns early does not close the generator first.
LeaveAtOnce(t) ==
  /\ pc[t] \in {"report", "ending"}
  /\ Bridge!Close(t)
  /\ EndTurn(t)
  /\ UNCHANGED <<latch, lastPrompt, turnWaiters, command>>

\* The branch is done: `return` or `break` runs aclose() on the generator.
LeaveStream(t) ==
  /\ pc[t] \in {"report", "ending"}
  /\ Bridge!Close(t)
  /\ \/ /\ phase' = "closing"
        /\ UNCHANGED <<turnHolder, pc, prompt>>
     \/ /\ phase' = "free"
        /\ EndTurn(t)
  /\ UNCHANGED <<latch, lastPrompt, turnWaiters, command>>

\* aclose() returns once the subprocess has exited: a returning turn lets go
\* of the lock, a finished one still has sentences to speak.
StreamClosed(t) ==
  /\ pc[t] \in {"report", "ending"}
  /\ phase = "closing"
  /\ Bridge!Reap(t)
  /\ \/ /\ pc[t] = "report"
        /\ EndTurn(t)
     \/ /\ pc[t] = "ending"
        /\ Goto(t, "flush")
        /\ UNCHANGED <<turnHolder, prompt>>
  /\ UNCHANGED <<latch, lastPrompt, turnWaiters, command>>

Flushed(t) ==
  /\ pc[t] = "flush"
  /\ EndTurn(t)
  /\ UNCHANGED <<latch, lastPrompt, turnWaiters, command, bridge>>

-----------------------------------------------------------------------------
(* Slash commands.                                                         *)

\* /approve and /deny look for a pending prompt, then await defer().
Issue(c, op) ==
  /\ command[c] = "none"
  /\ pending[Home[c]] # NULL
  /\ command' = [command EXCEPT ![c] = op]
  /\ UNCHANGED <<latch, lastPrompt, turnLock, pc, prompt, bridge>>

Finish(c) == command' = [command EXCEPT ![c] = "none"]
ReleaseLatch(s) ==
  /\ pending[s] # NULL
  /\ pending' = [pending EXCEPT ![s] = NULL]
  /\ UNCHANGED rateLimited

\* resolve_permission finds the latch already released.
ResolveNothing(c) ==
  /\ command[c] # "none"
  /\ pending[Home[c]] = NULL
  /\ Finish(c)
  /\ UNCHANGED <<latch, lastPrompt, turnLock, pc, prompt, bridge>>

ResolveDeny(c) ==
  /\ command[c] = "deny"
  /\ ReleaseLatch(Home[c])
  /\ Bridge!RespondDeny
  /\ Finish(c)
  /\ UNCHANGED <<lastPrompt, turnLock, pc, prompt>>

\* The latch goes first; then the bridge grants the tool it has pending, and
\* a task is created to send the last prompt again.
ResolveApprove(c, r) ==
  LET s == Home[c] IN
  /\ command[c] = "approve"
  /\ ReleaseLatch(s)
  /\ Bridge!RespondApprove
  /\ IF lastPrompt[s] # NULL
     THEN /\ pc[r] = "idle"
          /\ Goto(r, "created")
          /\ prompt' = [prompt EXCEPT ![r] = lastPrompt[s]]
     ELSE UNCHANGED <<pc, prompt>>
  /\ Finish(c)
  /\ UNCHANGED <<lastPrompt, turnLock>>

\* The bridge has no tool pending and raises; the latch is gone all the same.
ApproveRaises(c) ==
  /\ command[c] = "approve"
  /\ ReleaseLatch(Home[c])
  /\ pendingTool = NULL
  /\ Finish(c)
  /\ UNCHANGED <<lastPrompt, turnLock, pc, prompt, bridge>>

\* /interrupt signals whatever turn the shared bridge is running.
InterruptTurn ==
  /\ Bridge!Interrupt
  /\ UNCHANGED <<latch, lastPrompt, turnLock, pc, prompt, command>>

-----------------------------------------------------------------------------
(* Time and the subprocess.                                                *)

BreakerCloses(s) ==
  /\ rateLimited[s]
  /\ rateLimited' = [rateLimited EXCEPT ![s] = FALSE]
  /\ UNCHANGED <<pending, lastPrompt, turnLock, pc, prompt, command, bridge>>

ProcessExits(t) ==
  /\ Bridge!Exit(t)
  /\ UNCHANGED <<latch, lastPrompt, turnLock, pc, prompt, command>>

Utterance(u) ==
  \/ DropUtterance(u)
  \/ HandlePrompt(u)
  \/ AnswerSpoken(u)

RunTurn(t) ==
  \/ ResumeQueued(t)
  \/ Stream(t)
  \/ LeaveStream(t)
  \/ StreamClosed(t)
  \/ Flushed(t)

Resolve(c) ==
  \/ ResolveNothing(c)
  \/ ResolveDeny(c)
  \/ \E r \in Retries : ResolveApprove(c, r)
  \/ ApproveRaises(c)

Next ==
  \/ \E u \in Utterances : OnUtterance(u) \/ Utterance(u)
  \/ \E r \in Retries : RetryAfterApproval(r)
  \/ \E t \in Tasks : RunTurn(t) \/ ProcessExits(t)
  \/ \E c \in Commands :
       \/ \E op \in Decisions : Issue(c, op)
       \/ Resolve(c)
  \/ InterruptTurn
  \/ \E s \in Sessions : BreakerCloses(s)

Spec == Init /\ [][Next]_vars

\* The event loop runs every task that can run, claude exits, and a command
\* whose defer() returned is carried out.  People owe nothing: neither
\* OnUtterance nor Issue is fair.
FairSpec ==
  /\ Spec
  /\ \A u \in Utterances : WF_vars(Utterance(u))
  /\ \A r \in Retries : WF_vars(RetryAfterApproval(r))
  /\ \A t \in Tasks : WF_vars(RunTurn(t)) /\ WF_vars(ProcessExits(t))
  /\ \A c \in Commands : WF_vars(Resolve(c))

-----------------------------------------------------------------------------
(* Properties that hold.                                                   *)

TypeOK ==
  /\ pending \in [Sessions -> Latch \cup {NULL}]
  /\ rateLimited \in [Sessions -> BOOLEAN]
  /\ lastPrompt \in [Sessions -> Utterances \cup {NULL}]
  /\ turnHolder \in [Sessions -> Tasks \cup {NULL}]
  /\ turnWaiters \in [Sessions -> Seq(Tasks)]
  /\ pc \in [Tasks -> {"idle", "asr", "answering", "created", "queued",
                        "turn", "report", "ending", "flush"}]
  /\ prompt \in [Tasks -> Utterances \cup {NULL}]
  /\ command \in [Commands -> Decisions \cup {"none"}]
  /\ Bridge!TypeOK

InTurn(t) == pc[t] \in {"turn", "report", "ending", "flush"}

\* A session runs one turn at a time and the bridge is only ever used from
\* inside a turn, although a turn begins by three routes (utterance, queued
\* task, retry) and ends by four (return before or after the subprocess
\* exits, DONE, end of stream).
TurnLockProtectsBridge ==
  /\ \A t \in Tasks : InTurn(t) => turnHolder[SessionOf(t)] = t
  /\ \A t \in Tasks : Bridge!Using(t) => InTurn(t)

\* An approval is never left lying about: while a tool is allowed for the next
\* invocation, a retry that has yet to start its invocation is on its way, so
\* the allowance is spent with that retry at the latest.
ApprovalAwaitsRetry ==
  oneShot # {} =>
    \E r \in Retries : pc[r] \in {"created", "queued"} \/ Bridge!Waiting(r)

\* Every utterance is dropped, refused or has its turn finished, also when it
\* queued behind a retry and behind another guild's turn.
UtteranceSettles == \A u \in Utterances : pc[u] = "asr" ~> pc[u] = "idle"

\* An approval is spent.
ApprovalExpires == oneShot # {} ~> oneShot = {}

-----------------------------------------------------------------------------
(* What the documentation says and the code does not do.                   *)

Begins(t) == bridgeHolder # t /\ bridgeHolder' = t

\* "Approval is one-shot and applies to a retry of the same prompt": what was
\* approved is handed to a retry.
ApprovalGoesToRetry ==
  [][\A t \in Tasks : Begins(t) /\ allowed' # {} => t \in Retries]_vars
=============================================================================
