------------------------------ MODULE Connections ------------------------------
(***************************************************************************)
(* Voice connections in one guild (discord_app/bot.py) and the idle watch  *)
(* of their sessions (discord_app/session.py).                             *)
(*                                                                         *)
(* Everything here is tasks of one event loop, which interleave where they *)
(* await: for a client to connect or disconnect, or for the mirror.  A     *)
(* shutdown cancels, stops and starts to disconnect without an await, so   *)
(* that up to the disconnect it is part of the step it is called in.       *)
(*                                                                         *)
(* A joined channel has a session with a voice client of its own, and the  *)
(* two share a name.  The client belongs to discord.py: it registers one   *)
(* client per guild, reports the bot's own moves, reconnects by itself,    *)
(* and is not connected (is_connected()) while it does.                    *)
(***************************************************************************)
EXTENDS Naturals, FiniteSets

CONSTANTS
  Channels,  \* voice channels of the guild
  Sessions,  \* the sessions and clients joins can make; bounds the joins
  Tasks,     \* tasks of commands and events that join
  NULL

ASSUME ConnectionAssumption ==
  /\ NULL \notin Channels \cup Sessions \cup Tasks
  /\ \A p \in SUBSET Channels : p # NULL
  /\ Sessions \cap Tasks = {}

VARIABLES
  policy,   \* the snapshot: channels the bot may occupy, NULL for a guild
            \* that is not in GUILD_ALLOWLIST
  stored,   \* bot.sessions[guild], or NULL
  client,   \* guild.voice_client, or NULL
  channel,  \* where that client is
  deaf,     \* has its receive pipeline stopped
  conn,     \* state of each client
  watch,    \* each session's idle watch: "off", "polling", or "noticing" while
            \* it awaits the notice that the session is deaf
  activity, \* each session's: "busy" while a turn runs or an answer plays, then
            \* "recent", and "quiet" after IDLE_LEAVE_MINUTES
  at,       \* where each task is that joins; session s' own rejoin is named s
  goal,     \* the channel it joins
  subject   \* the client it awaits

own == <<client, channel, deaf>>
watches == <<watch, activity>>
joins == <<at, goal, subject>>
vars == <<policy, stored, own, conn, watches, joins>>

Joiners == Tasks \cup Sessions
Policies == SUBSET Channels \cup {NULL}

Init ==
  /\ policy \in Policies
  /\ stored = NULL
  /\ client = NULL /\ channel = NULL /\ deaf = FALSE
  /\ conn = [s \in Sessions |-> "unused"]
  /\ watch = [s \in Sessions |-> "off"]
  /\ activity = [s \in Sessions |-> "recent"]
  /\ at = [j \in Joiners |-> "idle"]
  /\ goal = [j \in Joiners |-> NULL]
  /\ subject = [j \in Joiners |-> NULL]

\* occupancy_gate and join_gate, which ask the same of a channel, both after
\* guild_gate.
OccupiableUnder(p, c) == p # NULL /\ c \in p
Occupiable(c) == OccupiableUnder(policy, c)

Up(s) == s # NULL /\ conn[s] = "up"
Goto(j, place, s) == at' = [at EXCEPT ![j] = place] /\ subject' = [subject EXCEPT ![j] = s]
Finished(j) == Goto(j, "idle", NULL) /\ goal' = [goal EXCEPT ![j] = NULL]

\* Fault: the place of a client that is gone is remembered.
UnregisteredInPlace == client' = NULL /\ deaf' = FALSE /\ UNCHANGED channel

Unregistered == client' = NULL /\ channel' = NULL /\ deaf' = FALSE

-----------------------------------------------------------------------------
(* Ending a session.                                                       *)

\* shutdown(s), for s = NULL nothing: the idle watch is cancelled, and the
\* client told to disconnect if it is connected.
Cancelled(s) == [t \in Sessions |-> IF t = s THEN "off" ELSE watch[t]]
HungUp(s) == [t \in Sessions |-> IF t = s /\ Up(s) THEN "closing" ELSE conn[t]]

\* Fault: the end of a client is awaited that was not told to go.
DisconnectingAny(s) == s

\* What shutdown awaits.
Disconnecting(s) == IF Up(s) THEN s ELSE NULL

\* leave_guild_voice: whatever session the guild has.
LeaveGuildVoice ==
  /\ stored' = NULL
  /\ watch' = Cancelled(stored)
  /\ conn' = HungUp(stored)

Leave ==
  /\ policy # NULL /\ stored # NULL
  /\ LeaveGuildVoice
  /\ UNCHANGED <<policy, own, activity, joins>>

-----------------------------------------------------------------------------
(* join_channel.                                                           *)

\* connect() registers a client, or raises: another one is registered, or
\* the attempt fails.  The task that awaited the end of a client, gone, gets
\* here in the step that ends it; for most, gone is NULL.
Connect(j, c, gone) ==
  LET left == [t \in Sessions |-> IF t = gone THEN "down" ELSE conn[t]] IN
  \/ /\ client = gone
     /\ \E s \in Sessions :
          /\ conn[s] = "unused"
          /\ conn' = [left EXCEPT ![s] = "connecting"]
          /\ client' = s
          /\ Goto(j, "connecting", s)
     /\ channel' = c
     /\ deaf' = FALSE
     /\ UNCHANGED goal
  \/ /\ Finished(j)
     /\ conn' = left
     /\ IF client = gone THEN Unregistered ELSE UNCHANGED own

\* Fault: the session there is read, not popped.
JoinChannelKeeping(j, c) ==
  /\ watch' = Cancelled(stored)
  /\ \/ /\ Up(stored)
        /\ conn' = HungUp(stored)
        /\ Goto(j, "closing", stored)
        /\ goal' = [goal EXCEPT ![j] = c]
        /\ UNCHANGED own
     \/ ~Up(stored) /\ Connect(j, c, NULL)
  /\ UNCHANGED stored

JoinChannel(j, c) ==
  /\ stored' = NULL
  /\ watch' = Cancelled(stored)
  /\ \/ /\ Up(stored)
        /\ conn' = HungUp(stored)
        /\ Goto(j, "closing", stored)
        /\ goal' = [goal EXCEPT ![j] = c]
        /\ UNCHANGED own
     \/ ~Up(stored) /\ Connect(j, c, NULL)

\* /join, and auto-join where there is no session.
Join(t, c) ==
  /\ at[t] = "idle"
  /\ Occupiable(c)
  /\ JoinChannel(t, c)
  /\ UNCHANGED <<policy, activity>>

\* The session that is replaced has disconnected.
Resume(j) ==
  /\ at[j] = "closing"
  /\ conn[subject[j]] = "closing"
  /\ Connect(j, goal[j], subject[j])
  /\ UNCHANGED <<policy, stored, watches>>

\* Fault: the new session has no idle watch.
JoinedUnwatched(j) ==
  /\ at[j] = "connecting"
  /\ conn[subject[j]] = "handshake"
  /\ conn' = [conn EXCEPT ![subject[j]] = "up"]
  /\ stored' = subject[j]
  /\ Finished(j)
  /\ UNCHANGED <<policy, own, watches>>

\* connect() returns; session, sink and idle watch are made without an await.
Joined(j) ==
  /\ at[j] = "connecting"
  /\ conn[subject[j]] = "handshake"
  /\ conn' = [conn EXCEPT ![subject[j]] = "up"]
  /\ watch' = [watch EXCEPT ![subject[j]] = "polling"]
  /\ stored' = subject[j]
  /\ Finished(j)
  /\ UNCHANGED <<policy, own, activity>>

\* connect() raises: the handshake failed, or the client was disconnected.
ConnectFails(j) ==
  /\ at[j] = "connecting"
  /\ \/ /\ conn[subject[j]] \in {"connecting", "handshake"}
        /\ conn' = [conn EXCEPT ![subject[j]] = "closing"]
     \/ /\ conn[subject[j]] \in {"closing", "down"}
        /\ UNCHANGED conn
  /\ Finished(j)
  /\ UNCHANGED <<policy, stored, own, watches>>

-----------------------------------------------------------------------------
(* The bot's own voice state, in _handle_own_voice_state.                  *)

\* Gate 1 ignores events of a guild that is not allowed; gate 5 is about a
\* channel.
Refused(c) == policy # NULL /\ c \notin policy

\* Gate 5: the session is shut down; if there is none, the client goes.
Evict ==
  \/ stored # NULL /\ LeaveGuildVoice
  \/ /\ stored = NULL
     /\ conn' = [conn EXCEPT ![client] = "closing"]
     /\ UNCHANGED <<stored, watch>>

\* The client has entered its channel and goes on with the handshake.
Arrive ==
  /\ client # NULL /\ conn[client] = "connecting"
  /\ \/ Refused(channel) /\ Evict
     \/ /\ ~Refused(channel)
        /\ conn' = [conn EXCEPT ![client] = "handshake"]
        /\ UNCHANGED <<stored, watch>>
  /\ UNCHANGED <<policy, own, activity, joins>>

InVoice == client # NULL /\ conn[client] \in {"handshake", "up", "reconnecting"}

\* Somebody moves the bot.
Drag(c) ==
  /\ InVoice /\ c # channel
  /\ channel' = c
  /\ \/ Refused(c) /\ Evict
     \/ ~Refused(c) /\ UNCHANGED <<stored, watch, conn>>
  /\ UNCHANGED <<policy, client, deaf, activity, joins>>

\* Somebody disconnects the bot, or it gives up reconnecting.  The session is
\* popped and not shut down.
Kick ==
  /\ InVoice
  /\ conn' = [conn EXCEPT ![client] = "closing"]
  /\ stored' = IF policy = NULL THEN stored ELSE NULL
  /\ UNCHANGED <<policy, own, watches, joins>>

-----------------------------------------------------------------------------
(* /reload, which may be given in another guild.                           *)

\* Fault: the snapshot is replaced and nobody is asked to go.
ReloadOnly(p) ==
  /\ policy' = p
  /\ UNCHANGED <<stored, own, conn, watches, joins>>

\* connections_to_evict, gate 12.
Evicted(p) == client # NULL /\ ~OccupiableUnder(p, channel)

Reload(p) ==
  /\ policy' = p
  /\ \/ Evicted(p) /\ LeaveGuildVoice
     \/ ~Evicted(p) /\ UNCHANGED <<stored, watch, conn>>
  /\ UNCHANGED <<own, activity, joins>>

-----------------------------------------------------------------------------
(* The idle watch.                                                         *)

Deaf(s) == Up(s) /\ deaf

\* A session that hears and is not busy leaves for want of speech.  When the
\* session left is the watch's own, its shutdown cancels this task; the
\* disconnect goes on.
IdleLeave(s) ==
  /\ watch[s] = "polling"
  /\ ~Deaf(s) /\ activity[s] = "quiet"
  /\ stored' = NULL
  /\ conn' = HungUp(stored)
  /\ watch' = [Cancelled(stored) EXCEPT ![s] = "off"]
  /\ UNCHANGED <<policy, own, activity, joins>>

\* _recover_if_deaf remembers the channel and awaits the mirror.
Notice(s) ==
  /\ watch[s] = "polling"
  /\ Deaf(s)
  /\ watch' = [watch EXCEPT ![s] = "noticing"]
  /\ goal' = [goal EXCEPT ![s] = channel]
  /\ UNCHANGED <<policy, stored, own, conn, activity, at, subject>>

\* Fault: the watch ends without a rejoin.
RejoinForgotten(s) ==
  /\ watch[s] = "noticing"
  /\ watch' = [watch EXCEPT ![s] = "off"]
  /\ UNCHANGED <<policy, stored, own, conn, activity, joins>>

ScheduleRejoin(s) ==
  /\ watch[s] = "noticing"
  /\ watch' = [watch EXCEPT ![s] = "off"]
  /\ Goto(s, "created", NULL)
  /\ UNCHANGED <<policy, stored, own, conn, activity, goal>>

\* _rejoin leaves first, and asks no gate before it joins.
RejoinLeaves(s) ==
  /\ at[s] = "created"
  /\ \/ /\ stored # NULL
        /\ LeaveGuildVoice
        /\ Goto(s, "leaving", Disconnecting(stored))
        /\ UNCHANGED <<own, goal>>
     \/ stored = NULL /\ JoinChannel(s, goal[s])
  /\ UNCHANGED <<policy, activity>>

RejoinJoins(s) ==
  /\ at[s] = "leaving"
  /\ subject[s] # NULL => conn[subject[s]] = "down"
  /\ JoinChannel(s, goal[s])
  /\ UNCHANGED <<policy, activity>>

-----------------------------------------------------------------------------
(* What else happens to a client and its session.                          *)

\* A disconnect that no join awaits is complete: the registration goes.
Closed(s) ==
  /\ conn[s] = "closing"
  /\ ~\E j \in Joiners : at[j] = "closing" /\ subject[j] = s
  /\ conn' = [conn EXCEPT ![s] = "down"]
  /\ Unregistered
  /\ UNCHANGED <<policy, stored, watches, joins>>

\* The voice websocket is lost, and comes back.
Drop ==
  /\ Up(client)
  /\ conn' = [conn EXCEPT ![client] = "reconnecting"]
  /\ UNCHANGED <<policy, stored, own, watches, joins>>

Reconnected ==
  /\ client # NULL /\ conn[client] = "reconnecting"
  /\ conn' = [conn EXCEPT ![client] = "up"]
  /\ UNCHANGED <<policy, stored, own, watches, joins>>

\* The receive pipeline stops, and the connection does not.
GoDeaf ==
  /\ Up(client) /\ ~deaf
  /\ deaf' = TRUE
  /\ UNCHANGED <<policy, stored, client, channel, conn, watches, joins>>

\* An utterance that passes gate 9 begins a turn.
TurnBegins(s) ==
  /\ Up(s) /\ ~deaf /\ Occupiable(channel)
  /\ activity[s] # "busy"
  /\ activity' = [activity EXCEPT ![s] = "busy"]
  /\ UNCHANGED <<policy, stored, own, conn, watch, joins>>

TurnEnds(s) ==
  /\ activity[s] = "busy"
  /\ activity' = [activity EXCEPT ![s] = "recent"]
  /\ UNCHANGED <<policy, stored, own, conn, watch, joins>>

\* Time passes without an utterance.
GoQuiet(s) ==
  /\ watch[s] = "polling" /\ activity[s] = "recent"
  /\ activity' = [activity EXCEPT ![s] = "quiet"]
  /\ UNCHANGED <<policy, stored, own, conn, watch, joins>>

-----------------------------------------------------------------------------
Connecting(j) == Resume(j) \/ Joined(j) \/ ConnectFails(j)
Idle(s) == IdleLeave(s) \/ GoQuiet(s)
Rejoin(s) == RejoinLeaves(s) \/ RejoinJoins(s)

Next ==
  \/ \E t \in Tasks, c \in Channels : Join(t, c)
  \/ \E j \in Joiners : Connecting(j)
  \/ \E p \in Policies : Reload(p)
  \/ \E c \in Channels : Drag(c)
  \/ Leave \/ Arrive \/ Kick \/ Drop \/ Reconnected \/ GoDeaf
  \/ \E s \in Sessions :
       \/ Idle(s) \/ Notice(s) \/ ScheduleRejoin(s) \/ Rejoin(s)
       \/ Closed(s) \/ TurnBegins(s) \/ TurnEnds(s)

Spec == Init /\ [][Next]_vars

\* Tasks run and clients settle; a watch that polls every five seconds does
\* not find the client reconnecting every time.  Nobody has to do anything.
Fairness ==
  /\ WF_vars(Arrive) /\ WF_vars(Reconnected)
  /\ \A j \in Joiners : WF_vars(Connecting(j))
  /\ \A s \in Sessions :
       /\ SF_vars(Notice(s))
       /\ WF_vars(ScheduleRejoin(s)) /\ WF_vars(Rejoin(s)) /\ WF_vars(Closed(s))

FairSpec == Spec /\ Fairness

-----------------------------------------------------------------------------
TypeOK ==
  /\ policy \in Policies
  /\ stored \in Sessions \cup {NULL}
  /\ client \in Sessions \cup {NULL}
  /\ channel \in (IF client = NULL THEN {NULL} ELSE Channels)
  /\ deaf \in BOOLEAN
  /\ conn \in [Sessions -> {"unused", "connecting", "handshake", "up",
                            "reconnecting", "closing", "down"}]
  /\ watch \in [Sessions -> {"off", "polling", "noticing"}]
  /\ activity \in [Sessions -> {"busy", "recent", "quiet"}]
  /\ at \in [Joiners -> {"idle", "closing", "connecting", "created", "leaving"}]
  /\ goal \in [Joiners -> Channels \cup {NULL}]
  /\ subject \in [Joiners -> Sessions \cup {NULL}]

Live(s) == conn[s] \in {"connecting", "handshake", "up", "reconnecting", "closing"}

\* Whatever joins, leaves, moves and rejoins overlap: no client is left behind
\* by a join, and while a session is stored, no other's client is in voice.
StoredSessionHasTheClient ==
  /\ \A s \in Sessions : Live(s) <=> s = client
  /\ stored # NULL /\ client # NULL => stored = client

\* A connected client without a session would stay for good.  Only one that
\* was reconnecting while its session was shut down becomes one.
Orphan(s) == Up(s) /\ stored # s
OrphansWereReconnecting ==
  [][\A s \in Sessions : ~Orphan(s) /\ Orphan(s)' => conn[s] = "reconnecting"]_vars

\* The session commands act on has an idle watch, or the rejoin its watch
\* ended with is on its way.
StoredSessionIsWatched ==
  stored # NULL => watch[stored] # "off" \/ at[stored] = "created"

\* shutdown() takes the idle watch with it: one that outlives its session
\* belongs to a client that was disconnected by somebody else.
WatchEndsWithSession ==
  \A s \in Sessions : watch[s] # "off" /\ stored # s => conn[s] \in {"closing", "down"}

\* Gates 5 and 12: neither a move nor a reload leaves a connected session in a
\* channel it may not occupy.
Rightful == stored # NULL /\ Up(stored) /\ Occupiable(channel)
MovesAndReloadsEvict == [][Rightful /\ Up(client)' => Occupiable(channel)']_vars

\* A bot that no longer hears says so and rejoins, whatever else goes on.
DeafSessionIsReplaced ==
  \A s \in Sessions : stored = s /\ Deaf(s) ~> (stored # s \/ conn[s] = "down")

\* Every join comes to an end, however joins wait for each other's clients.
JoinsEnd == \A j \in Joiners : at[j] # "idle" ~> at[j] = "idle"

-----------------------------------------------------------------------------
(* What the documentation says and the code does not do.                   *)

\* config.py: the idle leave "Never fires mid-turn or mid-playback".
IdleLeaveSparesTurns ==
  [][\A s \in Sessions : IdleLeave(s) /\ stored # NULL => activity[stored] # "busy"]_vars
=============================================================================
