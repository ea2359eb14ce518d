------------------------------- MODULE Presence -------------------------------
(***************************************************************************)
(* The rooms of the realtime gateway (realtime/realtime.gateway.ts) and    *)
(* the presence it broadcasts.  A handler is cut at its awaits: the row of *)
(* the game, the room, the list of sockets in it.  A socket that has       *)
(* disconnected enters no room any more (Socket.IO), but the handlers of   *)
(* its last messages run on.                                               *)
(***************************************************************************)
EXTENDS Requests

CONSTANTS
  Sockets,
  RoomGames,
  Owner,      \* socket -> the user of its session
  Members,    \* game -> the users who play it
  MaxRooms    \* MAX_GAME_ROOMS_PER_SOCKET

ASSUME RoomsAssumption == MaxRooms \in Nat \ {0}

VARIABLES
  link,     \* socket -> "new", "on" or "gone"
  gameIds,  \* socket -> socket.data.gameIds
  room,     \* game -> the sockets in its room
  shown,    \* socket -> game -> the users its client shows, or None
  task,     \* the handler in each slot
  crossed,  \* history: a leave and a join of one game by one socket overlapped
  overtaken \* history: a presence was sent that was no longer true

presenceVars == <<link, gameIds, room, shown, task, crossed, overtaken>>

Users == {Owner[s] : s \in Sockets}

Task ==
  [at : {"lookup", "entered", "left"}, socket : Sockets, game : RoomGames]
  \cup [at : {"emit"}, socket : Sockets, game : RoomGames, users : SUBSET Users,
        told : SUBSET RoomGames, closing : BOOLEAN]
  \cup [at : {"closing"}, socket : Sockets, told : SUBSET RoomGames]

ASSUME TaskAssumption == None \notin Task

TaskState == Task \cup {None}

PresenceTypeOK ==
  /\ link \in [Sockets -> {"new", "on", "gone"}]
  /\ gameIds \in [Sockets -> SUBSET RoomGames]
  /\ room \in [RoomGames -> SUBSET Sockets]
  /\ shown \in [Sockets -> [RoomGames -> (SUBSET Users) \cup {None}]]
  /\ task \in [Req -> TaskState]
  /\ crossed \in BOOLEAN /\ overtaken \in BOOLEAN

PresenceInit ==
  /\ link = [s \in Sockets |-> "new"]
  /\ gameIds = [s \in Sockets |-> {}]
  /\ room = [g \in RoomGames |-> {}]
  /\ shown = [s \in Sockets |-> [g \in RoomGames |-> None]]
  /\ task = [r \in Req |-> None]
  /\ crossed = FALSE
  /\ overtaken = FALSE

\* roomUserIds: the distinct users connected to a room.
RoomUsers(g) == {Owner[s] : s \in room[g]}

Busy(s) == \E r \in Req : task[r] # None /\ task[r].socket = s

Running(r, where) == task[r] # None /\ task[r].at = where

Set(r, t) == task' = [task EXCEPT ![r] = t]

\* broadcastPresence, up to its await.
Announce(s, g, told, closing) ==
  [at |-> "emit", socket |-> s, game |-> g, users |-> RoomUsers(g),
   told |-> told, closing |-> closing]

-----------------------------------------------------------------------------
\* The handshake: the session is known before the client may send anything.
Connect(s) ==
  /\ link[s] = "new"
  /\ link' = [link EXCEPT ![s] = "on"]
  /\ UNCHANGED <<gameIds, room, shown, task, crossed, overtaken>>

\* Mutant: one more than the limit.
HasRoomOneMore(s) == Cardinality(gameIds[s]) <= MaxRooms

HasRoom(s) == Cardinality(gameIds[s]) < MaxRooms

\* Does another handler on this socket hold the game half entered or left?
Crosses(s, g, where) ==
  \E r \in Req : /\ task[r] # None
                 /\ task[r].at \in where
                 /\ task[r].socket = s /\ task[r].game = g

\* game:join, up to the row; a game already joined is ignored.
JoinRoom(r, s, g) ==
  /\ task[r] = None
  /\ link[s] = "on"
  /\ g \notin gameIds[s]
  /\ HasRoom(s)
  /\ Set(r, [at |-> "lookup", socket |-> s, game |-> g])
  /\ crossed' = (crossed \/ Crosses(s, g, {"left"}))
  /\ UNCHANGED <<link, gameIds, room, shown, overtaken>>

\* The row is there: a player of the game enters the room.
EnterRoom(r) ==
  /\ Running(r, "lookup")
  /\ LET s == task[r].socket
         g == task[r].game
     IN  IF Owner[s] \in Members[g]
         THEN /\ room' = IF link[s] = "on" THEN [room EXCEPT ![g] = @ \cup {s}] ELSE room
              /\ Set(r, [task[r] EXCEPT !.at = "entered"])
         ELSE Set(r, None) /\ UNCHANGED room
  /\ UNCHANGED <<link, gameIds, shown, crossed, overtaken>>

\* The game is counted, and the room is read.
CountRoom(r) ==
  /\ Running(r, "entered")
  /\ LET s == task[r].socket
         g == task[r].game
     IN  /\ gameIds' = [gameIds EXCEPT ![s] = @ \cup {g}]
         /\ Set(r, Announce(s, g, {}, FALSE))
  /\ UNCHANGED <<link, room, shown, crossed, overtaken>>

\* game:leave, up to its await.
LeaveRoom(r, s, g) ==
  /\ task[r] = None
  /\ link[s] = "on"
  /\ room' = [room EXCEPT ![g] = @ \ {s}]
  /\ Set(r, [at |-> "left", socket |-> s, game |-> g])
  /\ crossed' = (crossed \/ Crosses(s, g, {"lookup", "entered"}))
  /\ UNCHANGED <<link, gameIds, shown, overtaken>>

\* Mutant: the game stays counted.
UncountNothing(s, g) == gameIds[s]

Uncounted(s, g) == gameIds[s] \ {g}

ForgetRoom(r) ==
  /\ Running(r, "left")
  /\ LET s == task[r].socket
         g == task[r].game
     IN  /\ gameIds' = [gameIds EXCEPT ![s] = Uncounted(s, g)]
         /\ Set(r, Announce(s, g, {}, FALSE))
  /\ UNCHANGED <<link, room, shown, crossed, overtaken>>

\* The socket is gone: its rooms are torn down before handleDisconnect runs.
Disconnect(r, s) ==
  /\ task[r] = None
  /\ link[s] = "on"
  /\ link' = [link EXCEPT ![s] = "gone"]
  /\ room' = [g \in RoomGames |-> room[g] \ {s}]
  /\ shown' = [shown EXCEPT ![s] = [g \in RoomGames |-> None]]
  /\ Set(r, [at |-> "closing", socket |-> s, told |-> {}])
  /\ UNCHANGED <<gameIds, crossed, overtaken>>

\* Mutant: a disconnect is announced nowhere.
NothingToTell(s, told) == {}

\* The iteration over gameIds, which sees what a late join adds.
ToTell(s, told) == gameIds[s] \ told

TellNext(r) ==
  /\ Running(r, "closing")
  /\ LET s == task[r].socket
         told == task[r].told
     IN  IF ToTell(s, told) = {} THEN Set(r, None)
         ELSE \E g \in ToTell(s, told) : Set(r, Announce(s, g, told \cup {g}, TRUE))
  /\ UNCHANGED <<link, gameIds, room, shown, crossed, overtaken>>

\* The presence that was read goes to whoever is in the room now.
EmitPresence(r) ==
  /\ Running(r, "emit")
  /\ LET g == task[r].game IN
       /\ shown' = [s \in Sockets |->
            IF s \in room[g] THEN [shown[s] EXCEPT ![g] = task[r].users] ELSE shown[s]]
       /\ overtaken' = (overtaken \/ task[r].users # RoomUsers(g))
  /\ Set(r, IF task[r].closing
            THEN [at |-> "closing", socket |-> task[r].socket, told |-> task[r].told]
            ELSE None)
  /\ UNCHANGED <<link, gameIds, room, crossed>>

PresenceNext ==
  \/ \E s \in Sockets : Connect(s)
  \/ \E r \in Req :
       \/ \E s \in Sockets : \/ Disconnect(r, s)
                             \/ \E g \in RoomGames : JoinRoom(r, s, g) \/ LeaveRoom(r, s, g)
       \/ EnterRoom(r)
       \/ CountRoom(r)
       \/ ForgetRoom(r)
       \/ TellNext(r)
       \/ EmitPresence(r)

PresenceSpec == PresenceInit /\ [][PresenceNext]_presenceVars

-----------------------------------------------------------------------------
\* The limit is tested before two awaits and counted after them: joins that
\* overlap can exceed it, by one less than there are of them.
RoomsAreBounded ==
  \A s \in Sockets :
    Cardinality(gameIds[s]) < MaxRooms + Cardinality(Req)

\* A client that believes it has joined does get the pushes: what the socket
\* counts is where it is, unless a leave has run into the join of its game.
JoinedMeansInRoom ==
  ~crossed => \A s \in Sockets : link[s] = "on" /\ ~Busy(s) =>
    gameIds[s] = {g \in RoomGames : s \in room[g]}

\* Presence is right once everything has been sent: joins, leaves and
\* disconnects in any order are all told to whoever is left, a disconnect in
\* the middle of a join included, unless a broadcast was overtaken.
PresenceIsRight ==
  ~crossed /\ ~overtaken /\ (\A r \in Req : task[r] = None) =>
    \A g \in RoomGames : \A s \in room[g] : shown[s][g] = RoomUsers(g)
===============================================================================
