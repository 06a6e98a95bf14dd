----------------------------- MODULE TmuxBridge -----------------------------
(***************************************************************************)
(* TmuxBridge (bridge/tmux.py): prompts are typed into a terminal that     *)
(* runs an interactive claude, and its answer is what the pane shows       *)
(* beyond the lines committed so far.  A turn polls the pane until it has  *)
(* settled or is overdue.                                                  *)
(*                                                                         *)
(* send() keeps the bridge's lock, so the position of the generator is one *)
(* variable, `phase`.  A step runs from one await or yield to the next.    *)
(* The consumer is VoiceSession._run_turn: it goes on after prose (Resume) *)
(* and leaves at a permission or rate-limit event (Leave).                 *)
(*                                                                         *)
(* A line is one of the kinds the classifier tells apart; what claude      *)
(* writes, and redraws, is any sequence of them.  Time is what the two     *)
(* tests of the loop say of it (AfterIteration).                           *)
(***************************************************************************)
EXTENDS Naturals, Sequences

CONSTANTS Callers,    \* tasks that may call send()
          NULL,
          Lines,      \* lines a pane may show, no blank ones
          Furniture,  \* those _is_furniture is true of
          Limits,     \* those with one of _LIMIT_MARKERS
          Asking,     \* those with one of _PERMISSION_MARKERS
          Options,    \* those that match _OPTION_LINE
          Keys,       \* digits of numbered options
          Key,        \* the digit of each option line
          Says,       \* the decisions whose words its label contains
          MaxPane     \* bound: lines of the pane

Decisions == {"approve", "deny"}

ASSUME TmuxAssumption ==
  /\ NULL \notin Callers
  /\ Options \subseteq Lines
  /\ Key \in [Options -> Keys]
  /\ Says \in [Options -> SUBSET Decisions]
  /\ MaxPane \in Nat

VARIABLES
  pane,       \* what capture-pane -S - prints, without blank lines at the end
  holder,     \* caller in send() holding _lock, or NULL
  waiters,    \* callers queued on _lock, oldest first
  phase,      \* where the holder's generator stands
  committed,  \* _committed
  options,    \* _pending_options: option lines, one for each key
  answering,  \* has respond_to_permission pressed a key, but not Enter?
  previous,   \* the last capture of this turn
  saw,        \* saw_output
  batch,      \* the lines being yielded, the first ones behind _committed
  due,        \* their events not consumed yet, see Events
  lastRead,   \* history: where the last batch ended
  abandoned   \* history: did its consumer leave before its last event?

lock    == <<holder, waiters>>
loop    == <<previous, saw>>
yields  == <<batch, due>>
history == <<lastRead, abandoned>>
vars == <<pane, lock, phase, committed, options, answering, loop, yields, history>>

Phases == {"detached", "free", "text", "enter", "polling", "yielding",
           "settling", "finishing", "error", "done"}

TypeOK ==
  /\ pane \in Seq(Lines)
  /\ Len(pane) <= MaxPane
  /\ holder \in Callers \cup {NULL}
  /\ waiters \in Seq(Callers)
  /\ phase \in Phases
  /\ committed \in Nat
  /\ options \subseteq Options
  /\ answering \in BOOLEAN
  /\ previous \in Seq(Lines)
  /\ saw \in BOOLEAN
  /\ batch \in Seq(Lines)
  /\ due \subseteq 1..(Len(batch) + 1)
  /\ lastRead \in Nat
  /\ abandoned \in BOOLEAN

Init ==
  /\ pane = <<>>
  /\ holder = NULL
  /\ waiters = <<>>
  /\ phase = "detached"
  /\ committed = 0
  /\ options = {}
  /\ answering = FALSE
  /\ previous = <<>>
  /\ saw = FALSE
  /\ batch = <<>>
  /\ due = {}
  /\ lastRead = 0
  /\ abandoned = FALSE

-----------------------------------------------------------------------------
(* _classify: the events of a batch of lines.                              *)

IsLimit(b, i) == b[i] \in Limits \ Furniture
IsProse(b, i) == b[i] \notin Limits \cup Furniture

\* Fault: the digits are kept, not the lines.
LatestDigits(b) == {Key[b[i]] : i \in {j \in DOMAIN b : b[j] \in Options}}

\* The numbered lines of a batch join the pending ones; of two with the same
\* digit the later one stays.
LatestOptions(b) ==
  {b[i] : i \in {j \in DOMAIN b :
                   /\ b[j] \in Options
                   /\ \A k \in DOMAIN b :
                        k > j /\ b[k] \in Options => Key[b[k]] # Key[b[j]]}}
WithOptions(b) ==
  LatestOptions(b) \cup
    {o \in options : \A n \in LatestOptions(b) : Key[n] # Key[o]}

\* A marker anywhere in the batch and a numbered line, of the batch or pending.
Asks(b) ==
  /\ \E i \in DOMAIN b : b[i] \in Asking
  /\ options # {} \/ \E i \in DOMAIN b : b[i] \in Options

OpensProse(b, i) ==
  /\ IsProse(b, i)
  /\ \A j \in DOMAIN b :
       j < i /\ IsProse(b, j) => \E k \in DOMAIN b : j < k /\ k < i /\ IsLimit(b, k)

\* An event is named by the place of its first line: one for each run of prose
\* lines and for each limit line, and one behind the batch for a permission
\* prompt, which swallows the prose gathered since the last limit.
Events(b) ==
  {i \in DOMAIN b :
     \/ IsLimit(b, i)
     \/ /\ OpensProse(b, i)
        /\ ~Asks(b) \/ \E k \in DOMAIN b : k > i /\ IsLimit(b, k)}
  \cup {i \in {Len(b) + 1} : Asks(b)}

\* The event the generator is suspended at.
IsNext(i) == i \in due /\ \A j \in due : i <= j
NextIsProse == \E i \in DOMAIN batch : IsNext(i) /\ IsProse(batch, i)

-----------------------------------------------------------------------------
(* claude and its terminal.                                                *)

Draw(l) ==
  /\ Len(pane) < MaxPane
  /\ pane' = Append(pane, l)
  /\ UNCHANGED <<lock, phase, committed, options, answering, loop, yields, history>>

\* A dialog, a spinner or a footer goes away, or the screen is cleared.
Erase(n) ==
  /\ n < Len(pane)
  /\ pane' = SubSeq(pane, 1, n)
  /\ UNCHANGED <<lock, phase, committed, options, answering, loop, yields, history>>

\* _capture: a tmux that fails looks like an empty pane.
Captures == {pane, <<>>}

-----------------------------------------------------------------------------
(* start() and the beginning of a turn.                                    *)

\* start() ends with the baseline.
Attach ==
  /\ phase = "detached"
  /\ \E shown \in Captures :
       /\ committed' = Len(shown)
       /\ lastRead' = Len(shown)
  /\ phase' = "free"
  /\ UNCHANGED <<pane, lock, options, answering, loop, yields, abandoned>>

Waiting(c) == \E i \in DOMAIN waiters : waiters[i] = c

\* The lock is taken, the options of an earlier prompt are forgotten, and the
\* text is on its way to the pane.
Begin(c) ==
  /\ holder' = c
  /\ phase' = "text"
  /\ options' = {}
  /\ UNCHANGED <<pane, committed, answering, loop, yields, history>>

\* The first anext() on send(): asyncio.Lock lets nobody overtake a waiter.
Send(c) ==
  /\ phase # "detached"
  /\ holder # c
  /\ ~Waiting(c)
  /\ \/ /\ holder = NULL
        /\ waiters = <<>>
        /\ Begin(c)
        /\ UNCHANGED waiters
     \/ /\ holder # NULL \/ waiters # <<>>
        /\ waiters' = Append(waiters, c)
        /\ UNCHANGED <<pane, holder, phase, committed, options, answering, loop,
                       yields, history>>

\* The released lock woke its oldest waiter.
Wake(c) ==
  /\ holder = NULL
  /\ waiters # <<>>
  /\ c = Head(waiters)
  /\ waiters' = Tail(waiters)
  /\ Begin(c)

\* send-keys -l returns: the text is in the pane, or it failed.
TypeText(c) ==
  /\ holder = c
  /\ phase = "text"
  /\ phase' \in {"enter", "error"}
  /\ UNCHANGED <<pane, lock, committed, options, answering, loop, yields, history>>

\* Enter is sent, whatever comes of it, and the loop begins.
TypeEnter(c) ==
  /\ holder = c
  /\ phase = "enter"
  /\ phase' = "polling"
  /\ UNCHANGED <<pane, lock, committed, options, answering, loop, yields, history>>

-----------------------------------------------------------------------------
(* The loop.                                                               *)

\* Fault: the turn's age is not looked at.
AfterIterationIdle(idle) ==
  \/ idle /\ phase' = "settling"
  \/ phase' = "polling"

\* The end of an iteration: with output, idle_for may have reached
\* idle_settle_ms; the turn may be older than turn_timeout_s; or once more.
AfterIteration(idle) ==
  \/ idle /\ phase' = "settling"
  \/ phase' \in {"error", "polling"}

\* Lines are read: their options count at once.
Read(b) ==
  /\ options' = WithOptions(b)
  /\ lastRead' = committed + Len(b)
  /\ abandoned' = FALSE

\* Fault: the lines are committed before their events are taken.
YieldCommitting(b, then) ==
  /\ Events(b) # {}
  /\ phase' = then
  /\ batch' = b
  /\ due' = Events(b)
  /\ committed' = committed + Len(b)

\* Their events are yielded, and they are committed behind the last one.
Yield(b, then) ==
  /\ Events(b) # {}
  /\ phase' = then
  /\ batch' = b
  /\ due' = Events(b)
  /\ UNCHANGED committed

\* Nothing to say of them: they are committed in the same step.
CommitSilently(b) ==
  /\ Events(b) = {}
  /\ committed' = committed + Len(b)
  /\ UNCHANGED yields

\* The pane is captured; a change starts the idle time again.  Its last line
\* may still be mid-render and is held back.
Poll(c) ==
  /\ holder = c
  /\ phase = "polling"
  /\ \E shown \in Captures :
       LET b == SubSeq(shown, committed + 1, Len(shown) - 1)
       IN /\ previous' = shown
          /\ \/ /\ Len(shown) <= committed + 1
                /\ AfterIteration(saw /\ shown = previous)
                /\ UNCHANGED <<committed, options, saw, yields, history>>
             \/ /\ Len(shown) > committed + 1
                /\ Read(b)
                /\ saw' = TRUE
                /\ Yield(b, "yielding")
             \/ /\ Len(shown) > committed + 1
                /\ Read(b)
                /\ CommitSilently(b)
                /\ AfterIteration(saw /\ shown = previous)
                /\ UNCHANGED saw
  /\ UNCHANGED <<pane, lock, answering>>

\* Fault: the lines are not committed behind their last event.
ResumeForgetting(c) ==
  /\ holder = c
  /\ phase \in {"yielding", "finishing"}
  /\ NextIsProse
  /\ due' = {i \in due : ~IsNext(i)}
  /\ \/ /\ due' # {}
        /\ UNCHANGED <<phase, batch>>
     \/ /\ due' = {}
        /\ batch' = <<>>
        /\ \/ /\ phase = "yielding"
              /\ AfterIteration(saw)
           \/ /\ phase = "finishing"
              /\ phase' = "done"
  /\ UNCHANGED <<pane, lock, committed, options, answering, loop, history>>

\* The consumer wants the next event.  Behind the last one of a batch its
\* lines are committed, and the iteration ends, or the turn.  The idle time
\* includes what the consumer took.
Resume(c) ==
  /\ holder = c
  /\ phase \in {"yielding", "finishing"}
  /\ NextIsProse
  /\ due' = {i \in due : ~IsNext(i)}
  /\ \/ /\ due' # {}
        /\ UNCHANGED <<phase, committed, batch>>
     \/ /\ due' = {}
        /\ committed' = committed + Len(batch)
        /\ batch' = <<>>
        /\ \/ /\ phase = "yielding"
              /\ AfterIteration(saw)
           \/ /\ phase = "finishing"
              /\ phase' = "done"
  /\ UNCHANGED <<pane, lock, options, answering, loop, history>>

\* The pane has settled: everything it shows is read, the last line too.
Settle(c) ==
  /\ holder = c
  /\ phase = "settling"
  /\ \E shown \in Captures :
       LET b == SubSeq(shown, committed + 1, Len(shown))
       IN \/ /\ Len(shown) <= committed
             /\ phase' = "done"
             /\ UNCHANGED <<committed, options, yields, history>>
          \/ /\ Len(shown) > committed
             /\ Read(b)
             /\ \/ Yield(b, "finishing")
                \/ CommitSilently(b) /\ phase' = "done"
  /\ UNCHANGED <<pane, lock, answering, loop>>

-----------------------------------------------------------------------------
(* The end of a turn.                                                      *)

\* The generator ends or is closed, and `async with self._lock` lets go.
Release ==
  /\ holder' = NULL
  /\ phase' = "free"
  /\ previous' = <<>>
  /\ saw' = FALSE
  /\ batch' = <<>>
  /\ due' = {}

\* A permission prompt or a rate limit: the consumer returns, which closes the
\* generator at its yield.
Leave(c) ==
  /\ holder = c
  /\ phase \in {"yielding", "finishing"}
  /\ ~NextIsProse
  /\ abandoned' = TRUE
  /\ Release
  /\ UNCHANGED <<pane, waiters, committed, options, answering, lastRead>>

\* DONE or ERROR was yielded and the consumer is through with it.
EndTurn(c) ==
  /\ holder = c
  /\ phase \in {"error", "done"}
  /\ Release
  /\ UNCHANGED <<pane, waiters, committed, options, answering, history>>

-----------------------------------------------------------------------------
(* The slash commands, without the lock.  interrupt() only types Escape.   *)

\* An option whose label has one of the decision's words is looked for; when
\* there is none the bridge raises.  Its digit and Enter are on their way to
\* the pane.  (A second answer meanwhile, from another guild, does the same.)
Respond(decision) ==
  /\ \E o \in options : decision \in Says[o]
  /\ answering' = TRUE
  /\ UNCHANGED <<pane, lock, phase, committed, options, loop, yields, history>>

\* Both are sent, whatever came of it.
Responded ==
  /\ answering
  /\ answering' = FALSE
  /\ options' = {}
  /\ UNCHANGED <<pane, lock, phase, committed, loop, yields, history>>

-----------------------------------------------------------------------------
Turn(c) ==
  \/ Wake(c)
  \/ TypeText(c)
  \/ TypeEnter(c)
  \/ Poll(c)
  \/ Resume(c)
  \/ Settle(c)
  \/ Leave(c)
  \/ EndTurn(c)

Next ==
  \/ Attach
  \/ \E l \in Lines : Draw(l)
  \/ \E n \in 0..MaxPane : Erase(n)
  \/ \E c \in Callers : Send(c) \/ Turn(c)
  \/ \E decision \in Decisions : Respond(decision)
  \/ Responded

Spec == Init /\ [][Next]_vars

\* An iteration finds the turn overdue.
IsOverdue(c) == phase \in {"polling", "yielding"} /\ Turn(c) /\ phase' = "error"

\* A step of send() or of its consumer comes when the loop reaches it, and a
\* turn does not stay younger than turn_timeout_s for ever.
FairSpec ==
  /\ Spec
  /\ \A c \in Callers : WF_vars(Turn(c)) /\ SF_vars(IsOverdue(c))

-----------------------------------------------------------------------------
(* Properties.                                                             *)

\* Lines are committed only when their consumer has taken every event of
\* them: after a consumer that left in the middle, some are still to be read.
\* (send() moves _committed behind the yields of a batch.)
NothingIsSkipped ==
  /\ committed <= lastRead
  /\ abandoned => committed < lastRead

Reads ==
  /\ phase \in {"polling", "settling"}
  /\ batch' # batch \/ lastRead' # lastRead

\* A batch begins where the one before it ended, across polls, the final
\* capture, turns and callers; only one whose consumer left is read again.
ReadsInOrder == [][Reads => committed = lastRead \/ abandoned]_vars

\* Every prompt is over some time: the pane settles or the turn is overdue,
\* whatever claude shows or erases, and the lock goes to whoever waits.
PromptIsFinished ==
  \A c \in Callers : (holder = c \/ Waiting(c)) ~> ~(holder = c \/ Waiting(c))
=============================================================================
