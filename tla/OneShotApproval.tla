-------------------------- MODULE OneShotApproval --------------------------
(***************************************************************************)
(* What a Claude Code bridge promises about permissions, with no queue,    *)
(* no subprocess and no stream in sight (bridge/base.py and the module     *)
(* docstring of bridge/headless.py).                                       *)
(*                                                                         *)
(* A running invocation may ask for one tool at a time.  A human answers;  *)
(* a yes becomes an allowance.  Starting an invocation hands it the whole  *)
(* allowance, empties it and withdraws an unanswered question, so that a   *)
(* yes reaches at most one invocation.                                     *)
(***************************************************************************)
CONSTANTS Tools,    \* the tools Claude Code may ask for
          NULL      \* "nothing is asked", no tool

VARIABLES asked,      \* the tool being asked for, or NULL
          allowance,  \* tools a human said yes to, not handed out yet
          inFlight,   \* is an invocation running
          carried     \* what the running invocation was allowed

vars == <<asked, allowance, inFlight, carried>>

TypeOK ==
  /\ asked \in Tools \cup {NULL}
  /\ allowance \subseteq Tools
  /\ inFlight \in BOOLEAN
  /\ carried \subseteq Tools

Init ==
  /\ asked = NULL
  /\ allowance = {}
  /\ inFlight = FALSE
  /\ carried = {}

\* Only a running invocation can be denied a tool.
Ask(tool) ==
  /\ inFlight
  /\ asked' = tool
  /\ UNCHANGED <<allowance, inFlight, carried>>

\* A yes answers a question: there is no allowance for what was not asked.
Approve ==
  /\ asked # NULL
  /\ allowance' = allowance \cup {asked}
  /\ asked' = NULL
  /\ UNCHANGED <<inFlight, carried>>

Deny ==
  /\ asked' = NULL
  /\ UNCHANGED <<allowance, inFlight, carried>>

Invoke ==
  /\ ~inFlight
  /\ inFlight' = TRUE
  /\ carried' = allowance
  /\ allowance' = {}
  /\ asked' = NULL

Finish ==
  /\ inFlight
  /\ inFlight' = FALSE
  /\ carried' = {}
  /\ UNCHANGED <<asked, allowance>>

Next ==
  \/ \E tool \in Tools : Ask(tool)
  \/ Approve
  \/ Deny
  \/ Invoke
  \/ Finish

Spec == Init /\ [][Next]_vars
=============================================================================
