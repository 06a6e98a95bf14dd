--------------------------- MODULE ConnectionsProofs ---------------------------
(***************************************************************************)
(* What holds of Connections for every set of channels, sessions and       *)
(* tasks.  IInv is inductive: the run's invariants, and what a task or a    *)
(* watch that was suspended still knows of the session it will act on.     *)
(***************************************************************************)
EXTENDS Connections, TLAPS

\* What a joining task remembers is there when it is used.
JoinersRemember ==
  \A j \in Joiners :
    /\ at[j] \in {"closing", "connecting"} => subject[j] \in Sessions
    /\ at[j] \in {"closing", "created", "leaving"} => goal[j] \in Channels

WatchesRemember == \A s \in Sessions : watch[s] = "noticing" => goal[s] \in Channels

\* A session's rejoin is created once, when its watch is over.
RejoinIsLast ==
  \A s \in Sessions :
    /\ watch[s] # "off" => at[s] = "idle"
    /\ conn[s] \in {"unused", "connecting", "handshake"} => watch[s] = "off" /\ at[s] = "idle"

StoredHasJoined ==
  stored # NULL => conn[stored] \in {"up", "reconnecting", "closing", "down"}

\* One task at most awaits the client it replaces, and nothing is stored while
\* it does.
ClosingIsRegistered ==
  \A j \in Joiners : at[j] = "closing" =>
    /\ subject[j] = client
    /\ client # NULL /\ conn[client] = "closing"
    /\ stored = NULL
    /\ \A k \in Joiners : at[k] = "closing" => k = j

IInv ==
  /\ TypeOK
  /\ JoinersRemember
  /\ WatchesRemember
  /\ RejoinIsLast
  /\ StoredHasJoined
  /\ ClosingIsRegistered
  /\ StoredSessionHasTheClient
  /\ StoredSessionIsWatched
  /\ WatchEndsWithSession

\* What join_channel changes but for the session it takes.
ConnectionTyped ==
  /\ client \in Sessions \cup {NULL}
  /\ channel \in (IF client = NULL THEN {NULL} ELSE Channels)
  /\ deaf \in BOOLEAN
  /\ conn \in [Sessions -> {"unused", "connecting", "handshake", "up",
                            "reconnecting", "closing", "down"}]
  /\ at \in [Joiners -> {"idle", "closing", "connecting", "created", "leaving"}]
  /\ goal \in [Joiners -> Channels \cup {NULL}]
  /\ subject \in [Joiners -> Sessions \cup {NULL}]

SessionsTyped ==
  /\ stored \in Sessions \cup {NULL}
  /\ watch \in [Sessions -> {"off", "polling", "noticing"}]

\* connect() leaves client and tasks with their types, whichever client was awaited.
LEMMA ConnectTyped ==
  ASSUME IInv, NEW j \in Joiners, NEW c \in Channels, NEW gone, Connect(j, c, gone)
  PROVE  ConnectionTyped' /\ JoinersRemember'
<1> DEFINE left == [t \in Sessions |-> IF t = gone THEN "down" ELSE conn[t]]
<1>1. left \in [Sessions -> {"unused", "connecting", "handshake", "up",
                             "reconnecting", "closing", "down"}]
  BY DEF IInv, TypeOK
<1> HIDE DEF left
<1>2. ASSUME NEW s \in Sessions,
             conn' = [left EXCEPT ![s] = "connecting"],
             client' = s, channel' = c, deaf' = FALSE,
             Goto(j, "connecting", s), UNCHANGED goal
      PROVE  ConnectionTyped' /\ JoinersRemember'
  <2>1. conn' \in [Sessions -> {"unused", "connecting", "handshake", "up",
                                "reconnecting", "closing", "down"}]
    BY <1>1, <1>2
  <2>2. s # NULL
    BY ConnectionAssumption
  <2>3. /\ at' \in [Joiners -> {"idle", "closing", "connecting", "created", "leaving"}]
        /\ subject' \in [Joiners -> Sessions \cup {NULL}]
        /\ JoinersRemember'
    BY <1>2 DEF IInv, TypeOK, JoinersRemember, Goto
  <2>4. QED
    BY <1>2, <2>1, <2>2, <2>3 DEF IInv, TypeOK, ConnectionTyped
<1>3. CASE /\ Finished(j) /\ conn' = left
           /\ IF client = gone THEN Unregistered ELSE UNCHANGED own
  BY <1>1, <1>3 DEF IInv, TypeOK, JoinersRemember, ConnectionTyped, Finished, Goto,
     Unregistered, own
<1>4. QED
  BY <1>2, <1>3 DEF Connect, left

\* The same of join_channel, which may first have a session to shut down.
LEMMA JoinChannelTyped ==
  ASSUME IInv, NEW j \in Joiners, NEW c \in Channels, JoinChannel(j, c)
  PROVE  ConnectionTyped' /\ JoinersRemember' /\ SessionsTyped'
<1>1. ASSUME Up(stored)
      PROVE  ConnectionTyped' /\ JoinersRemember'
  <2>1. stored \in Sessions
    BY <1>1 DEF Up, IInv, TypeOK
  <2>2. /\ conn' = HungUp(stored)
        /\ Goto(j, "closing", stored)
        /\ goal' = [goal EXCEPT ![j] = c]
        /\ UNCHANGED own
    BY <1>1 DEF JoinChannel
  <2>3. ConnectionTyped'
    BY <2>1, <2>2 DEF IInv, TypeOK, ConnectionTyped, HungUp, Goto, own
  <2>4. JoinersRemember'
    BY <2>1, <2>2 DEF IInv, TypeOK, JoinersRemember, Goto
  <2>5. QED
    BY <2>3, <2>4
<1>2. ASSUME ~Up(stored)
      PROVE  ConnectionTyped' /\ JoinersRemember'
  BY <1>2, ConnectTyped DEF JoinChannel
<1>3. SessionsTyped'
  BY DEF IInv, TypeOK, SessionsTyped, JoinChannel, Cancelled
<1>4. QED
  BY <1>1, <1>2, <1>3

\* A join shuts down the stored session and awaits its client, or connects.
LEMMA JoinKeeps ==
  ASSUME IInv, NEW t \in Tasks, NEW c \in Channels, Join(t, c)
  PROVE  IInv'
<1>1. TypeOK'
  BY JoinChannelTyped DEF IInv, TypeOK, ConnectionTyped, SessionsTyped,
     Joiners, Join
<1>2. JoinersRemember'
  BY JoinChannelTyped DEF IInv, JoinersRemember, Joiners, Join
<1>3. WatchesRemember'
  BY ConnectionAssumption DEF IInv, TypeOK, WatchesRemember, Joiners, Join,
     JoinChannel, Connect, Cancelled, Finished
<1>4. RejoinIsLast'
  BY ConnectionAssumption DEF IInv, TypeOK, RejoinIsLast, Joiners, Join,
     JoinChannel, Connect, Cancelled, HungUp, Goto, Finished
<1>5. StoredHasJoined' /\ ClosingIsRegistered' /\ StoredSessionHasTheClient'
  BY ConnectionAssumption DEF IInv, TypeOK, StoredHasJoined,
     ClosingIsRegistered, StoredSessionHasTheClient, Live, own, Join,
     JoinChannel, Connect, HungUp, Up, Goto, Finished, Unregistered
<1>6. StoredSessionIsWatched' /\ WatchEndsWithSession'
  BY ConnectionAssumption DEF IInv, StoredSessionIsWatched,
     WatchEndsWithSession, Join, JoinChannel, Connect, Cancelled, HungUp
<1>7. QED
  BY <1>1, <1>2, <1>3, <1>4, <1>5, <1>6 DEF IInv

\* Only one task awaits the client it replaces, so nothing is registered twice.
LEMMA ResumeKeeps ==
  ASSUME IInv, NEW j \in Joiners, Resume(j)
  PROVE  IInv'
<1>1. /\ at[j] = "closing" /\ subject[j] \in Sessions /\ goal[j] \in Channels
      /\ client = subject[j] /\ stored = NULL
      /\ conn[client] = "closing" /\ client # NULL
      /\ \A k \in Joiners : at[k] = "closing" => k = j
  BY DEF IInv, Resume, JoinersRemember, ClosingIsRegistered
<1>2. ConnectionTyped' /\ JoinersRemember'
  BY <1>1, ConnectTyped DEF Resume
<1>3. TypeOK' /\ WatchesRemember'
  <2>1. UNCHANGED <<policy, stored, watch, activity>>
    BY DEF Resume, watches
  <2>2. TypeOK'
    BY <1>2, <2>1 DEF IInv, TypeOK, ConnectionTyped, Policies
  <2>3. \A s \in Sessions : watch[s] = "noticing" => s # j
    BY <1>1 DEF IInv, RejoinIsLast
  <2>4. goal' = goal \/ goal' = [goal EXCEPT ![j] = NULL]
    BY DEF Resume, Connect, Finished
  <2>5. WatchesRemember'
    BY <2>1, <2>3, <2>4 DEF IInv, TypeOK, WatchesRemember, Joiners
  <2>6. QED
    BY <2>2, <2>5
<1>4. ASSUME NEW s \in Sessions, conn[s] = "unused",
             conn' = [[t \in Sessions |-> IF t = client THEN "down" ELSE conn[t]]
                      EXCEPT ![s] = "connecting"],
             client' = s, Goto(j, "connecting", s)
      PROVE  /\ RejoinIsLast' /\ StoredHasJoined' /\ ClosingIsRegistered'
             /\ StoredSessionHasTheClient' /\ StoredSessionIsWatched' /\ WatchEndsWithSession'
  <2> DEFINE left == [t \in Sessions |-> IF t = client THEN "down" ELSE conn[t]]
  <2>1. s # client /\ watch' = watch /\ stored' = NULL
    BY <1>1, <1>4 DEF Resume, watches
  <2>2. \A t \in Sessions : conn'[t] = IF t = s THEN "connecting"
                                       ELSE IF t = client THEN "down" ELSE conn[t]
    BY <1>4
  <2>3. \A k \in Joiners : at'[k] = IF k = j THEN "connecting" ELSE at[k]
    BY <1>4 DEF IInv, TypeOK, Goto
  <2>4. RejoinIsLast'
    BY <1>1, <1>4, <2>1, <2>2, <2>3 DEF IInv, RejoinIsLast, Joiners
  <2>5. StoredHasJoined' /\ StoredSessionIsWatched'
    BY <2>1 DEF StoredHasJoined, StoredSessionIsWatched
  <2>6. ClosingIsRegistered'
    BY <1>1, <2>3 DEF ClosingIsRegistered
  <2>7. StoredSessionHasTheClient'
    BY <1>1, <1>4, <2>1, <2>2 DEF IInv, StoredSessionHasTheClient, Live
  <2>8. WatchEndsWithSession'
    BY <1>1, <1>4, <2>1, <2>2 DEF IInv, WatchEndsWithSession, RejoinIsLast
  <2>9. QED
    BY <2>4, <2>5, <2>6, <2>7, <2>8
<1>5. ASSUME Finished(j), Unregistered,
             conn' = [t \in Sessions |-> IF t = client THEN "down" ELSE conn[t]]
      PROVE  /\ RejoinIsLast' /\ StoredHasJoined' /\ ClosingIsRegistered'
             /\ StoredSessionHasTheClient' /\ StoredSessionIsWatched' /\ WatchEndsWithSession'
  <2>1. watch' = watch /\ stored' = NULL /\ client' = NULL
    BY <1>1, <1>5 DEF Resume, watches, Unregistered
  <2>2. \A t \in Sessions : conn'[t] = IF t = client THEN "down" ELSE conn[t]
    BY <1>5
  <2>3. \A k \in Joiners : at'[k] = IF k = j THEN "idle" ELSE at[k]
    BY <1>5 DEF IInv, TypeOK, Finished, Goto
  <2>4. RejoinIsLast'
    BY <1>1, <2>1, <2>2, <2>3 DEF IInv, RejoinIsLast, Joiners
  <2>5. StoredHasJoined' /\ StoredSessionIsWatched'
    BY <2>1 DEF StoredHasJoined, StoredSessionIsWatched
  <2>6. ClosingIsRegistered'
    BY <1>1, <2>3 DEF ClosingIsRegistered
  <2>7. StoredSessionHasTheClient'
    BY <1>1, <2>1, <2>2, ConnectionAssumption DEF IInv, StoredSessionHasTheClient, Live
  <2>8. WatchEndsWithSession'
    BY <1>1, <2>1, <2>2 DEF IInv, WatchEndsWithSession
  <2>9. QED
    BY <2>4, <2>5, <2>6, <2>7, <2>8
<1>6. QED
  BY <1>1, <1>2, <1>3, <1>4, <1>5 DEF IInv, Resume, Connect

\* The client that has shaken hands is the registered one: nothing else is in voice.
LEMMA JoinedKeeps ==
  ASSUME IInv, NEW j \in Joiners, Joined(j)
  PROVE  IInv'
<1>1. TypeOK'
  BY DEF IInv, TypeOK, own, Joined, Goto, Finished
<1>2. JoinersRemember'
  BY DEF IInv, TypeOK, JoinersRemember, Joiners, Joined, Goto, Finished
<1>3. WatchesRemember'
  BY DEF IInv, WatchesRemember, RejoinIsLast, Joined, Finished
<1>4. RejoinIsLast'
  BY DEF IInv, TypeOK, RejoinIsLast, Joined, Goto, Finished
<1>5. StoredHasJoined' /\ ClosingIsRegistered' /\ StoredSessionHasTheClient'
  BY DEF IInv, TypeOK, StoredHasJoined, ClosingIsRegistered,
     StoredSessionHasTheClient, Live, own, Joined, Goto, Finished
<1>6. StoredSessionIsWatched' /\ WatchEndsWithSession'
  BY ConnectionAssumption DEF IInv, TypeOK, JoinersRemember,
     StoredSessionHasTheClient, Live, StoredSessionIsWatched,
     WatchEndsWithSession, Joined
<1>7. QED
  BY <1>1, <1>2, <1>3, <1>4, <1>5, <1>6 DEF IInv

\* A join that fails stores nothing.
LEMMA ConnectFailsKeeps ==
  ASSUME IInv, NEW j \in Joiners, ConnectFails(j)
  PROVE  IInv'
<1>1. TypeOK'
  BY DEF IInv, TypeOK, own, watches, ConnectFails, Goto, Finished
<1>2. JoinersRemember'
  BY DEF IInv, TypeOK, JoinersRemember, Joiners, ConnectFails, Goto, Finished
<1>3. WatchesRemember'
  BY DEF IInv, WatchesRemember, RejoinIsLast, watches, ConnectFails, Finished
<1>4. RejoinIsLast'
  BY DEF IInv, TypeOK, RejoinIsLast, watches, ConnectFails, Goto, Finished
<1>5. StoredHasJoined' /\ ClosingIsRegistered' /\ StoredSessionHasTheClient'
  BY DEF IInv, TypeOK, StoredHasJoined, ClosingIsRegistered,
     StoredSessionHasTheClient, Live, own, ConnectFails, Goto, Finished
<1>6. StoredSessionIsWatched' /\ WatchEndsWithSession'
  BY DEF IInv, TypeOK, StoredSessionIsWatched, WatchEndsWithSession, watches,
     ConnectFails, Goto, Finished
<1>7. QED
  BY <1>1, <1>2, <1>3, <1>4, <1>5, <1>6 DEF IInv

\* A reload shuts down the stored session or changes only the policy.
LEMMA ReloadKeeps ==
  ASSUME IInv, NEW p \in Policies, Reload(p)
  PROVE  IInv'
<1>1. TypeOK'
  BY DEF IInv, TypeOK, own, joins, Reload, LeaveGuildVoice, Cancelled, HungUp
<1>2. JoinersRemember'
  BY DEF IInv, JoinersRemember, Joiners, joins, Reload
<1>3. WatchesRemember'
  BY DEF IInv, WatchesRemember, joins, Reload, LeaveGuildVoice, Cancelled
<1>4. RejoinIsLast'
  BY DEF IInv, RejoinIsLast, joins, Reload, LeaveGuildVoice, Cancelled, HungUp
<1>5. StoredHasJoined' /\ ClosingIsRegistered' /\ StoredSessionHasTheClient'
  BY DEF IInv, TypeOK, StoredHasJoined, ClosingIsRegistered,
     StoredSessionHasTheClient, Live, own, joins, Reload, LeaveGuildVoice,
     HungUp, Up
<1>6. StoredSessionIsWatched' /\ WatchEndsWithSession'
  BY DEF IInv, StoredSessionIsWatched, WatchEndsWithSession, joins, Reload,
     LeaveGuildVoice, Cancelled, HungUp
<1>7. QED
  BY <1>1, <1>2, <1>3, <1>4, <1>5, <1>6 DEF IInv

\* A move shuts the session down or leaves it where it is stored.
LEMMA DragKeeps ==
  ASSUME IInv, NEW c \in Channels, Drag(c)
  PROVE  IInv'
<1>1. TypeOK'
  BY DEF IInv, TypeOK, joins, Drag, Evict, InVoice, LeaveGuildVoice,
     Cancelled, HungUp
<1>2. JoinersRemember'
  BY DEF IInv, JoinersRemember, Joiners, joins, Drag
<1>3. WatchesRemember'
  BY DEF IInv, WatchesRemember, joins, Drag, Evict, LeaveGuildVoice, Cancelled
<1>4. RejoinIsLast'
  BY DEF IInv, TypeOK, RejoinIsLast, joins, Drag, Evict, LeaveGuildVoice,
     Cancelled, HungUp
<1>5. StoredHasJoined' /\ ClosingIsRegistered' /\ StoredSessionHasTheClient'
  BY DEF IInv, TypeOK, StoredHasJoined, ClosingIsRegistered,
     StoredSessionHasTheClient, Live, joins, Drag, Evict, LeaveGuildVoice,
     HungUp, Up
<1>6. StoredSessionIsWatched' /\ WatchEndsWithSession'
  BY DEF IInv, TypeOK, StoredSessionIsWatched, WatchEndsWithSession, joins,
     Drag, Evict, LeaveGuildVoice, Cancelled, HungUp
<1>7. QED
  BY <1>1, <1>2, <1>3, <1>4, <1>5, <1>6 DEF IInv

\* The session and its watch go together.
LEMMA LeaveKeeps ==
  ASSUME IInv, Leave
  PROVE  IInv'
<1>1. TypeOK'
  BY DEF IInv, TypeOK, own, joins, Leave, LeaveGuildVoice, Cancelled, HungUp
<1>2. JoinersRemember'
  BY DEF IInv, JoinersRemember, Joiners, joins, Leave
<1>3. WatchesRemember'
  BY DEF IInv, WatchesRemember, joins, Leave, LeaveGuildVoice, Cancelled
<1>4. RejoinIsLast'
  BY DEF IInv, RejoinIsLast, joins, Leave, LeaveGuildVoice, Cancelled, HungUp
<1>5. StoredHasJoined' /\ ClosingIsRegistered' /\ StoredSessionHasTheClient'
  BY DEF IInv, StoredHasJoined, ClosingIsRegistered,
     StoredSessionHasTheClient, Live, own, joins, Leave, LeaveGuildVoice,
     HungUp, Up
<1>6. StoredSessionIsWatched' /\ WatchEndsWithSession'
  BY DEF IInv, StoredSessionIsWatched, WatchEndsWithSession, Leave,
     LeaveGuildVoice, Cancelled, HungUp
<1>7. QED
  BY <1>1, <1>2, <1>3, <1>4, <1>5, <1>6 DEF IInv

\* A client that enters its channel has no session yet; what is evicted is itself.
LEMMA ArriveKeeps ==
  ASSUME IInv, Arrive
  PROVE  IInv'
<1>1. TypeOK'
  BY DEF IInv, TypeOK, own, joins, Arrive, Evict, LeaveGuildVoice, Cancelled,
     HungUp
<1>2. JoinersRemember'
  BY DEF IInv, JoinersRemember, Joiners, joins, Arrive
<1>3. WatchesRemember'
  BY DEF IInv, WatchesRemember, joins, Arrive, Evict, LeaveGuildVoice,
     Cancelled
<1>4. RejoinIsLast'
  BY DEF IInv, TypeOK, RejoinIsLast, joins, Arrive, Evict, LeaveGuildVoice,
     Cancelled, HungUp
<1>5. StoredHasJoined' /\ ClosingIsRegistered' /\ StoredSessionHasTheClient'
  BY DEF IInv, TypeOK, StoredHasJoined, ClosingIsRegistered,
     StoredSessionHasTheClient, Live, own, joins, Arrive, Evict
<1>6. StoredSessionIsWatched' /\ WatchEndsWithSession'
  BY DEF IInv, TypeOK, RejoinIsLast, StoredSessionHasTheClient,
     StoredSessionIsWatched, WatchEndsWithSession, Arrive, Evict
<1>7. QED
  BY <1>1, <1>2, <1>3, <1>4, <1>5, <1>6 DEF IInv

\* The session is popped with its client, its watch lives on.
LEMMA KickKeeps ==
  ASSUME IInv, Kick
  PROVE  IInv'
<1>1. TypeOK'
  BY DEF IInv, TypeOK, own, watches, joins, Kick
<1>2. JoinersRemember'
  BY DEF IInv, JoinersRemember, Joiners, joins, Kick
<1>3. WatchesRemember'
  BY DEF IInv, WatchesRemember, watches, joins, Kick
<1>4. RejoinIsLast'
  BY DEF IInv, RejoinIsLast, watches, joins, Kick
<1>5. StoredHasJoined' /\ ClosingIsRegistered' /\ StoredSessionHasTheClient'
  BY DEF IInv, StoredHasJoined, ClosingIsRegistered,
     StoredSessionHasTheClient, Live, own, joins, Kick
<1>6. StoredSessionIsWatched' /\ WatchEndsWithSession'
  BY DEF IInv, TypeOK, RejoinIsLast, StoredSessionHasTheClient, Live,
     StoredSessionIsWatched, WatchEndsWithSession, watches, joins, Kick
<1>7. QED
  BY <1>1, <1>2, <1>3, <1>4, <1>5, <1>6 DEF IInv

\* Reconnecting is not leaving.
LEMMA DropKeeps ==
  ASSUME IInv, Drop
  PROVE  IInv'
BY DEF IInv, TypeOK, JoinersRemember, WatchesRemember, RejoinIsLast,
   StoredHasJoined, ClosingIsRegistered, StoredSessionHasTheClient, Live,
   StoredSessionIsWatched, WatchEndsWithSession, Joiners, joins, own,
   watches, Drop, Up

LEMMA ReconnectedKeeps ==
  ASSUME IInv, Reconnected
  PROVE  IInv'
BY DEF IInv, TypeOK, JoinersRemember, WatchesRemember, RejoinIsLast,
   StoredHasJoined, ClosingIsRegistered, StoredSessionHasTheClient, Live,
   StoredSessionIsWatched, WatchEndsWithSession, Joiners, Reconnected,
   joins, own, watches

LEMMA GoDeafKeeps ==
  ASSUME IInv, GoDeaf
  PROVE  IInv'
BY DEF IInv, TypeOK, JoinersRemember, WatchesRemember, RejoinIsLast,
   StoredHasJoined, ClosingIsRegistered, StoredSessionHasTheClient, Live,
   StoredSessionIsWatched, WatchEndsWithSession, Joiners, joins, GoDeaf,
   watches

\* A watch ends whatever session is stored, as a whole.
LEMMA IdleLeaveKeeps ==
  ASSUME IInv, NEW s \in Sessions, IdleLeave(s)
  PROVE  IInv'
<1>1. TypeOK'
  BY DEF IInv, TypeOK, own, joins, IdleLeave, Cancelled, HungUp
<1>2. JoinersRemember'
  BY DEF IInv, JoinersRemember, Joiners, joins, IdleLeave
<1>3. WatchesRemember'
  BY DEF IInv, WatchesRemember, joins, IdleLeave, Cancelled
<1>4. RejoinIsLast'
  BY DEF IInv, RejoinIsLast, joins, IdleLeave, Cancelled, HungUp
<1>5. StoredHasJoined' /\ ClosingIsRegistered' /\ StoredSessionHasTheClient'
  BY DEF IInv, TypeOK, StoredHasJoined, ClosingIsRegistered,
     StoredSessionHasTheClient, Live, own, joins, IdleLeave, Up, HungUp
<1>6. StoredSessionIsWatched' /\ WatchEndsWithSession'
  BY DEF IInv, StoredSessionIsWatched, WatchEndsWithSession, IdleLeave,
     Cancelled, HungUp
<1>7. QED
  BY <1>1, <1>2, <1>3, <1>4, <1>5, <1>6 DEF IInv

\* The channel a watch remembers is the one the client is in.
LEMMA NoticeKeeps ==
  ASSUME IInv, NEW s \in Sessions, Notice(s)
  PROVE  IInv'
<1>1. TypeOK'
  BY DEF IInv, TypeOK, own, Notice
<1>2. JoinersRemember'
  BY DEF IInv, JoinersRemember, RejoinIsLast, Joiners, Notice
<1>3. WatchesRemember'
  BY DEF IInv, TypeOK, WatchesRemember, StoredSessionHasTheClient, Live,
     Joiners, Notice, Deaf, Up
<1>4. RejoinIsLast'
  BY DEF IInv, RejoinIsLast, Notice
<1>5. StoredHasJoined' /\ ClosingIsRegistered' /\ StoredSessionHasTheClient'
  BY DEF IInv, StoredHasJoined, ClosingIsRegistered,
     StoredSessionHasTheClient, Live, own, Notice
<1>6. StoredSessionIsWatched' /\ WatchEndsWithSession'
  BY DEF IInv, StoredSessionIsWatched, WatchEndsWithSession, Notice
<1>7. QED
  BY <1>1, <1>2, <1>3, <1>4, <1>5, <1>6 DEF IInv

\* The rejoin starts where its watch ends.
LEMMA ScheduleRejoinKeeps ==
  ASSUME IInv, NEW s \in Sessions, ScheduleRejoin(s)
  PROVE  IInv'
<1>1. TypeOK'
  BY DEF IInv, TypeOK, own, ScheduleRejoin, Goto
<1>2. JoinersRemember'
  BY DEF IInv, TypeOK, JoinersRemember, WatchesRemember, Joiners,
     ScheduleRejoin, Goto
<1>3. WatchesRemember'
  BY DEF IInv, WatchesRemember, ScheduleRejoin
<1>4. RejoinIsLast'
  BY DEF IInv, TypeOK, RejoinIsLast, ScheduleRejoin, Goto
<1>5. StoredHasJoined' /\ ClosingIsRegistered' /\ StoredSessionHasTheClient'
  BY DEF IInv, TypeOK, StoredHasJoined, ClosingIsRegistered,
     StoredSessionHasTheClient, Live, own, ScheduleRejoin, Goto
<1>6. StoredSessionIsWatched' /\ WatchEndsWithSession'
  BY DEF IInv, TypeOK, StoredSessionIsWatched, WatchEndsWithSession, Joiners,
     ScheduleRejoin, Goto
<1>7. QED
  BY <1>1, <1>2, <1>3, <1>4, <1>5, <1>6 DEF IInv

\* A rejoin ends the session before it joins.
LEMMA RejoinLeavesKeeps ==
  ASSUME IInv, NEW s \in Sessions, RejoinLeaves(s)
  PROVE  IInv'
<1>1. TypeOK'
  <2>1. CASE stored # NULL
    BY <2>1 DEF IInv, TypeOK, Policies, RejoinLeaves, LeaveGuildVoice, Cancelled, HungUp,
       Disconnecting, Up, Goto, own
  <2>2. CASE stored = NULL
    BY <2>2, JoinChannelTyped DEF IInv, TypeOK, JoinersRemember, ConnectionTyped,
       SessionsTyped, Joiners, Policies, RejoinLeaves
  <2>3. QED
    BY <2>1, <2>2
<1>2. JoinersRemember'
  BY DEF IInv, TypeOK, JoinersRemember, Joiners, RejoinLeaves, Goto,
     JoinChannel, Connect, Up, Finished
<1>3. WatchesRemember'
  BY DEF IInv, TypeOK, WatchesRemember, RejoinIsLast, Joiners, RejoinLeaves,
     LeaveGuildVoice, JoinChannel, Connect, Cancelled, Finished
<1>4. RejoinIsLast'
  BY ConnectionAssumption DEF IInv, TypeOK, RejoinIsLast, Joiners,
     RejoinLeaves, LeaveGuildVoice, Goto, JoinChannel, Connect, Cancelled,
     HungUp, Finished
<1>5. StoredHasJoined' /\ ClosingIsRegistered' /\ StoredSessionHasTheClient'
  BY ConnectionAssumption DEF IInv, TypeOK, StoredHasJoined,
     ClosingIsRegistered, StoredSessionHasTheClient, Live, own, RejoinLeaves,
     LeaveGuildVoice, Goto, JoinChannel, Connect, HungUp, Up, Finished,
     Unregistered
<1>6. StoredSessionIsWatched' /\ WatchEndsWithSession'
  BY ConnectionAssumption DEF IInv, StoredSessionIsWatched,
     WatchEndsWithSession, RejoinLeaves, LeaveGuildVoice, JoinChannel,
     Connect, Cancelled, HungUp
<1>7. QED
  BY <1>1, <1>2, <1>3, <1>4, <1>5, <1>6 DEF IInv

\* By then another task may have joined: it joins as any other.
LEMMA RejoinJoinsKeeps ==
  ASSUME IInv, NEW s \in Sessions, RejoinJoins(s)
  PROVE  IInv'
<1>1. TypeOK'
  BY JoinChannelTyped DEF IInv, TypeOK, JoinersRemember, ConnectionTyped,
     SessionsTyped, Joiners, RejoinJoins
<1>2. JoinersRemember'
  BY JoinChannelTyped DEF IInv, JoinersRemember, Joiners, RejoinJoins
<1>3. WatchesRemember'
  BY DEF IInv, TypeOK, WatchesRemember, RejoinIsLast, Joiners, RejoinJoins,
     JoinChannel, Connect, Cancelled, Finished
<1>4. RejoinIsLast'
  BY ConnectionAssumption DEF IInv, TypeOK, RejoinIsLast, Joiners,
     RejoinJoins, JoinChannel, Connect, Cancelled, HungUp, Goto, Finished
<1>5. StoredHasJoined' /\ ClosingIsRegistered' /\ StoredSessionHasTheClient'
  BY ConnectionAssumption DEF IInv, TypeOK, StoredHasJoined,
     ClosingIsRegistered, StoredSessionHasTheClient, Live, own, RejoinJoins,
     JoinChannel, Connect, HungUp, Up, Goto, Finished, Unregistered
<1>6. StoredSessionIsWatched' /\ WatchEndsWithSession'
  BY ConnectionAssumption DEF IInv, StoredSessionIsWatched,
     WatchEndsWithSession, RejoinJoins, JoinChannel, Connect, Cancelled,
     HungUp
<1>7. QED
  BY <1>1, <1>2, <1>3, <1>4, <1>5, <1>6 DEF IInv

\* The registration goes with the client.
LEMMA ClosedKeeps ==
  ASSUME IInv, NEW s \in Sessions, Closed(s)
  PROVE  IInv'
<1>1. TypeOK'
  BY DEF IInv, TypeOK, watches, joins, Closed, Unregistered
<1>2. JoinersRemember'
  BY DEF IInv, JoinersRemember, Joiners, joins, Closed
<1>3. WatchesRemember'
  BY DEF IInv, WatchesRemember, watches, joins, Closed
<1>4. RejoinIsLast'
  BY DEF IInv, RejoinIsLast, watches, joins, Closed
<1>5. StoredHasJoined' /\ ClosingIsRegistered' /\ StoredSessionHasTheClient'
  BY ConnectionAssumption DEF IInv, TypeOK, StoredHasJoined,
     ClosingIsRegistered, StoredSessionHasTheClient, Live, joins, Closed,
     Unregistered
<1>6. StoredSessionIsWatched' /\ WatchEndsWithSession'
  BY DEF IInv, StoredSessionIsWatched, WatchEndsWithSession, watches, joins,
     Closed
<1>7. QED
  BY <1>1, <1>2, <1>3, <1>4, <1>5, <1>6 DEF IInv

LEMMA TurnBeginsKeeps ==
  ASSUME IInv, NEW s \in Sessions, TurnBegins(s)
  PROVE  IInv'
BY DEF IInv, TypeOK, JoinersRemember, WatchesRemember, RejoinIsLast,
   StoredHasJoined, ClosingIsRegistered, StoredSessionHasTheClient, Live,
   StoredSessionIsWatched, WatchEndsWithSession, Joiners, joins, own,
   TurnBegins

LEMMA TurnEndsKeeps ==
  ASSUME IInv, NEW s \in Sessions, TurnEnds(s)
  PROVE  IInv'
BY DEF IInv, TypeOK, JoinersRemember, WatchesRemember, RejoinIsLast,
   StoredHasJoined, ClosingIsRegistered, StoredSessionHasTheClient, Live,
   StoredSessionIsWatched, WatchEndsWithSession, Joiners, joins, own,
   TurnEnds

LEMMA GoQuietKeeps ==
  ASSUME IInv, NEW s \in Sessions, GoQuiet(s)
  PROVE  IInv'
BY DEF IInv, TypeOK, JoinersRemember, WatchesRemember, RejoinIsLast,
   StoredHasJoined, ClosingIsRegistered, StoredSessionHasTheClient, Live,
   StoredSessionIsWatched, WatchEndsWithSession, Joiners, joins, own,
   GoQuiet


-----------------------------------------------------------------------------
LEMMA InitIInv == Init => IInv
<1> SUFFICES ASSUME Init
             PROVE  IInv
  OBVIOUS
<1>1. TypeOK
  BY DEF Init, TypeOK
<1>2. JoinersRemember /\ WatchesRemember /\ RejoinIsLast /\ ClosingIsRegistered
  BY DEF Init, JoinersRemember, WatchesRemember, RejoinIsLast, ClosingIsRegistered, Joiners
<1>3. StoredHasJoined /\ StoredSessionIsWatched /\ WatchEndsWithSession
  BY DEF Init, StoredHasJoined, StoredSessionIsWatched, WatchEndsWithSession
<1>4. StoredSessionHasTheClient
  BY ConnectionAssumption DEF Init, StoredSessionHasTheClient, Live
<1>5. QED
  BY <1>1, <1>2, <1>3, <1>4 DEF IInv

\* One step per action.
LEMMA NextKeeps == IInv /\ [Next]_vars => IInv'
<1> SUFFICES ASSUME IInv, [Next]_vars
             PROVE  IInv'
  OBVIOUS
<1>1. ASSUME NEW t \in Tasks, NEW c \in Channels, Join(t, c)
      PROVE  IInv'
  BY <1>1, JoinKeeps
<1>2. ASSUME NEW j \in Joiners, Connecting(j)
      PROVE  IInv'
  BY <1>2, ResumeKeeps, JoinedKeeps, ConnectFailsKeeps DEF Connecting
<1>3. ASSUME NEW p \in Policies, Reload(p)
      PROVE  IInv'
  BY <1>3, ReloadKeeps
<1>4. ASSUME NEW c \in Channels, Drag(c)
      PROVE  IInv'
  BY <1>4, DragKeeps
<1>5. CASE Leave \/ Arrive \/ Kick \/ Drop \/ Reconnected \/ GoDeaf
  BY <1>5, LeaveKeeps, ArriveKeeps, KickKeeps, DropKeeps, ReconnectedKeeps, GoDeafKeeps
<1>6. ASSUME NEW s \in Sessions, Idle(s) \/ Notice(s) \/ ScheduleRejoin(s) \/ Rejoin(s)
      PROVE  IInv'
  BY <1>6, IdleLeaveKeeps, GoQuietKeeps, NoticeKeeps, ScheduleRejoinKeeps, RejoinLeavesKeeps,
     RejoinJoinsKeeps DEF Idle, Rejoin
<1>7. ASSUME NEW s \in Sessions, Closed(s) \/ TurnBegins(s) \/ TurnEnds(s)
      PROVE  IInv'
  BY <1>7, ClosedKeeps, TurnBeginsKeeps, TurnEndsKeeps
<1>8. CASE UNCHANGED vars
  BY <1>8 DEF IInv, TypeOK, JoinersRemember, WatchesRemember, RejoinIsLast, StoredHasJoined,
     ClosingIsRegistered, StoredSessionHasTheClient, Live, StoredSessionIsWatched,
     WatchEndsWithSession, vars, own, watches, joins
<1>9. QED
  BY <1>1, <1>2, <1>3, <1>4, <1>5, <1>6, <1>7, <1>8 DEF Next

LEMMA IInvHolds == Spec => []IInv
BY InitIInv, NextKeeps, PTL DEF Spec

-----------------------------------------------------------------------------
\* bot.py and session.py: the connection state keeps its types.
THEOREM TypeCorrect == Spec => []TypeOK
<1>1. IInv => TypeOK
  BY DEF IInv
<1>2. QED
  BY <1>1, IInvHolds, PTL

\* join_channel, leave_guild_voice, the voice-state handler and _rejoin: one
\* client per guild is in use, and it is the stored session's.
THEOREM SessionHasTheClient == Spec => []StoredSessionHasTheClient
<1>1. IInv => StoredSessionHasTheClient
  BY DEF IInv
<1>2. QED
  BY <1>1, IInvHolds, PTL

\* start_idle_watch, _idle_watch_loop and _rejoin: a session that is stored has
\* somebody who sees that it is idle or deaf.
THEOREM SessionIsWatched == Spec => []StoredSessionIsWatched
<1>1. IInv => StoredSessionIsWatched
  BY DEF IInv
<1>2. QED
  BY <1>1, IInvHolds, PTL

\* shutdown(): no idle watch runs on beside a client that is still in use, but
\* for the stored session's.
THEOREM WatchesEnd == Spec => []WatchEndsWithSession
<1>1. IInv => WatchEndsWithSession
  BY DEF IInv
<1>2. QED
  BY <1>1, IInvHolds, PTL

-----------------------------------------------------------------------------
(* Steps.                                                                  *)

\* A session goes with its client, unless that is not up to be told.
LEMMA OrphanStep ==
  ASSUME IInv, Next, NEW s \in Sessions, ~Orphan(s), Orphan(s)'
  PROVE  conn[s] = "reconnecting"
<1> USE DEF Orphan, Up
<1>1. TypeOK /\ StoredSessionHasTheClient /\ s # NULL
  BY ConnectionAssumption DEF IInv
<1>2. ASSUME NEW j \in Joiners, NEW c, JoinChannel(j, c)
      PROVE  conn[s] = "reconnecting"
  BY <1>1, <1>2 DEF JoinChannel, Connect, HungUp, Goto, TypeOK
<1>3. CASE LeaveGuildVoice
  BY <1>1, <1>3 DEF LeaveGuildVoice, HungUp, TypeOK
<1>4. ASSUME NEW j \in Joiners, Connecting(j)
      PROVE  conn[s] = "reconnecting"
  <2>1. subject[j] \in Sessions
    BY <1>4 DEF Connecting, Resume, Joined, ConnectFails, IInv, JoinersRemember
  <2>2. CASE Resume(j)
    BY <1>1, <2>2 DEF Resume, Connect, TypeOK
  <2>3. CASE Joined(j)
    BY <1>1, <2>1, <2>3 DEF Joined, StoredSessionHasTheClient, Live, TypeOK
  <2>4. CASE ConnectFails(j)
    BY <1>1, <2>1, <2>4 DEF ConnectFails, TypeOK
  <2>5. QED
    BY <1>4, <2>2, <2>3, <2>4 DEF Connecting
<1>5. ASSUME NEW t \in Tasks, NEW c \in Channels, Join(t, c)
      PROVE  conn[s] = "reconnecting"
  BY <1>2, <1>5 DEF Join, Joiners
<1>6. CASE Leave \/ (\E p \in Policies : Reload(p)) \/ (\E c \in Channels : Drag(c))
  BY <1>1, <1>3, <1>6 DEF Leave, Reload, Drag, Evict, InVoice, TypeOK
<1>7. CASE Arrive
  BY <1>1, <1>3, <1>7 DEF Arrive, Evict, TypeOK
<1>8. CASE Kick
  BY <1>1, <1>8 DEF Kick, InVoice, StoredSessionHasTheClient, TypeOK
<1>9. CASE Drop \/ Reconnected \/ GoDeaf
  BY <1>1, <1>9 DEF Drop, Reconnected, GoDeaf, TypeOK
<1>10. ASSUME NEW r \in Sessions, Rejoin(r)
       PROVE  conn[s] = "reconnecting"
  BY <1>1, <1>2, <1>3, <1>10 DEF Rejoin, RejoinLeaves, RejoinJoins, Joiners, TypeOK
<1>11. ASSUME NEW r \in Sessions, Idle(r) \/ Notice(r) \/ ScheduleRejoin(r)
       PROVE  conn[s] = "reconnecting"
  BY <1>1, <1>11 DEF Idle, IdleLeave, HungUp, GoQuiet, Notice, ScheduleRejoin, own, TypeOK
<1>12. ASSUME NEW r \in Sessions, Closed(r) \/ TurnBegins(r) \/ TurnEnds(r)
       PROVE  conn[s] = "reconnecting"
  BY <1>1, <1>12 DEF Closed, TurnBegins, TurnEnds, TypeOK
<1>13. QED
  BY <1>4, <1>5, <1>6, <1>7, <1>8, <1>9, <1>10, <1>11, <1>12 DEF Next

\* join_channel, leave_guild_voice and the idle leave: a client loses its
\* session and stays in voice only if it was reconnecting at the time.
THEOREM OrphansReconnect == Spec => OrphansWereReconnecting
<1>1. IInv /\ [Next]_vars =>
        [\A s \in Sessions : ~Orphan(s) /\ Orphan(s)' => conn[s] = "reconnecting"]_vars
  BY OrphanStep
<1>2. QED
  BY <1>1, IInvHolds, PTL DEF Spec, OrphansWereReconnecting

\* A connected session's client is the registered one, so both gates find it.
LEMMA RightfulStep ==
  ASSUME IInv, Next, Rightful, Up(client)'
  PROVE  Occupiable(channel)'
<1> DEFINE Settled == client' # NULL /\ conn'[client'] = "up"
<1> USE DEF Up
<1>1. /\ TypeOK /\ StoredSessionHasTheClient /\ ClosingIsRegistered
      /\ stored \in Sessions /\ conn[stored] = "up" /\ stored = client
  BY ConnectionAssumption DEF IInv, Rightful, StoredSessionHasTheClient, Live, TypeOK
<1>2. Settled /\ Occupiable(channel)
  BY DEF Rightful
<1>3. ASSUME UNCHANGED <<policy, channel>>
      PROVE  Occupiable(channel)'
  BY <1>2, <1>3 DEF Occupiable
<1>4. CASE LeaveGuildVoice /\ UNCHANGED client
  BY <1>1, <1>2, <1>4 DEF LeaveGuildVoice, HungUp, TypeOK
<1>5. ASSUME NEW j \in Joiners, NEW c, JoinChannel(j, c)
      PROVE  FALSE
  <2>1. Up(stored)
    BY <1>1, ConnectionAssumption
  <2>2. client' = stored /\ conn' = HungUp(stored)
    BY <1>1, <1>5, <2>1 DEF JoinChannel, own
  <2>3. conn'[stored] = "closing"
    BY <1>1, <2>1, <2>2 DEF HungUp
  <2>4. QED
    BY <1>2, <2>2, <2>3
<1>6. ASSUME NEW j \in Joiners, Connecting(j)
      PROVE  Occupiable(channel)'
  <2>1. ~Resume(j)
    BY <1>1 DEF Resume, ClosingIsRegistered
  <2>2. QED
    BY <1>3, <1>6, <2>1 DEF Connecting, Joined, ConnectFails, own
<1>7. ASSUME NEW p \in Policies, Reload(p)
      PROVE  Occupiable(channel)'
  BY <1>1, <1>2, <1>4, <1>7 DEF Reload, Evicted, Occupiable, OccupiableUnder, own
<1>8. ASSUME NEW c \in Channels, Drag(c)
      PROVE  Occupiable(channel)'
  BY <1>1, <1>2, <1>4, <1>8 DEF Drag, Evict, Refused, Occupiable, OccupiableUnder
<1>9. CASE Leave \/ Arrive \/ Kick \/ Drop \/ Reconnected \/ GoDeaf
  BY <1>3, <1>9 DEF Leave, Arrive, Kick, Drop, Reconnected, GoDeaf, own
<1>10. ASSUME NEW t \in Tasks, NEW c \in Channels, Join(t, c)
       PROVE  Occupiable(channel)'
  BY <1>5, <1>10 DEF Join, Joiners
<1>11. ASSUME NEW s \in Sessions, Rejoin(s)
       PROVE  Occupiable(channel)'
  <2>1. CASE RejoinJoins(s) \/ stored = NULL
    BY <1>1, <1>5, <2>1, ConnectionAssumption DEF RejoinJoins, Joiners
  <2>2. QED
    BY <1>3, <1>11, <2>1 DEF Rejoin, RejoinLeaves, own
<1>12. ASSUME NEW s \in Sessions, Idle(s) \/ Notice(s) \/ ScheduleRejoin(s)
       PROVE  Occupiable(channel)'
  BY <1>3, <1>12 DEF Idle, IdleLeave, GoQuiet, Notice, ScheduleRejoin, own
<1>13. ASSUME NEW s \in Sessions, Closed(s) \/ TurnBegins(s) \/ TurnEnds(s)
       PROVE  Occupiable(channel)'
  BY <1>2, <1>3, <1>13 DEF Closed, Unregistered, TurnBegins, TurnEnds, own
<1>14. QED
  BY <1>6, <1>7, <1>8, <1>9, <1>10, <1>11, <1>12, <1>13 DEF Next

\* Gates 5 and 12: no move of the bot, and no reload, leaves a connected
\* session in a channel the snapshot does not allow.
THEOREM MovesEvict == Spec => MovesAndReloadsEvict
<1>1. IInv /\ [Next]_vars => [Rightful /\ Up(client)' => Occupiable(channel)']_vars
  BY RightfulStep
<1>2. QED
  BY <1>1, IInvHolds, PTL DEF Spec, MovesAndReloadsEvict
===============================================================================
