---------------------------- MODULE PresenceProofs ----------------------------
(***************************************************************************)
(* Theorems about Presence: for any number of sockets, games and handlers. *)
(***************************************************************************)
EXTENDS Presence, FiniteSetTheorems, TLAPS

\* The joins of a socket that have passed the test and are not counted yet.
Joining(s) ==
  {r \in Req : task[r] # None /\ task[r].at \in {"lookup", "entered"} /\ task[r].socket = s}

\* Each of them has its slot, and the socket is below the limit without them.
JoinsHaveSlots ==
  \A s \in Sockets :
    /\ IsFiniteSet(gameIds[s])
    /\ Cardinality(gameIds[s]) + Cardinality(Joining(s)) < MaxRooms + Cardinality(Req)

Half == {"lookup", "entered"}

\* What is counted and where the socket is differ by what is under way.
InStep(s, g) ==
  /\ ~(Crosses(s, g, Half) /\ Crosses(s, g, {"left"}))
  /\ g \in gameIds[s] => s \in room[g] \/ Crosses(s, g, {"left"})
  /\ s \in room[g] => g \in gameIds[s] \/ Crosses(s, g, {"entered"})
  /\ Crosses(s, g, {"entered"}) => s \in room[g]
  /\ Crosses(s, g, {"left"}) => s \notin room[g]

OthersInStep == ~crossed =>
  \A s \in Sockets, g \in RoomGames : link[s] # "gone" => InStep(s, g)

TasksAreOfConnected == \A r \in Req : task[r] # None => link[task[r].socket] # "new"

IInv ==
  /\ PresenceTypeOK
  /\ JoinsHaveSlots
  /\ OthersInStep
  /\ TasksAreOfConnected

LEMMA TaskTypes ==
  ASSUME PresenceTypeOK, NEW r \in Req
  PROVE  /\ task[r] \in TaskState
         /\ task[r] # None => task[r].socket \in Sockets
         /\ task[r] # None /\ task[r].at # "closing" => task[r].game \in RoomGames
         /\ Running(r, "emit") => /\ task[r].users \in SUBSET Users
                                  /\ task[r].told \in SUBSET RoomGames
         /\ Running(r, "closing") => task[r].told \in SUBSET RoomGames
<1>1. task[r] \in TaskState
  BY DEF PresenceTypeOK
<1> QED
  BY <1>1 DEF TaskState, Task, Running

LEMMA NewTasks ==
  ASSUME NEW s \in Sockets, NEW g \in RoomGames, NEW told \in SUBSET RoomGames, NEW b \in BOOLEAN
  PROVE  /\ \A w \in {"lookup", "entered", "left"} :
              [at |-> w, socket |-> s, game |-> g] \in TaskState
         /\ PresenceTypeOK => Announce(s, g, told, b) \in TaskState
         /\ [at |-> "closing", socket |-> s, told |-> told] \in TaskState
         /\ None \in TaskState
<1>1. PresenceTypeOK => RoomUsers(g) \in SUBSET Users
  BY DEF RoomUsers, Users, PresenceTypeOK
<1> QED
  BY <1>1 DEF TaskState, Task, Announce

LEMMA SomeTask ==
  ASSUME NEW s \in Sockets, NEW g \in RoomGames, NEW told \in SUBSET RoomGames, NEW b \in BOOLEAN
  PROVE  /\ \A w \in {"lookup", "entered", "left"} : [at |-> w, socket |-> s, game |-> g] # None
         /\ PresenceTypeOK => Announce(s, g, told, b) # None
         /\ [at |-> "closing", socket |-> s, told |-> told] # None
<1>1. PresenceTypeOK => RoomUsers(g) \in SUBSET Users
  BY DEF RoomUsers, Users, PresenceTypeOK
<1> QED
  BY <1>1, TaskAssumption DEF Task, Announce

\* A step that sets one slot to t and may change which games are counted: what
\* is left to show is the bound.
LEMMA JoiningAfter ==
  ASSUME PresenceTypeOK, NEW r \in Req, NEW t \in TaskState, Set(r, t), NEW s \in Sockets
  PROVE  /\ IsFiniteSet(Joining(s)) /\ Cardinality(Joining(s)) \in Nat
         /\ Cardinality(Joining(s)) <= Cardinality(Req) /\ Cardinality(Req) \in Nat
         /\ Cardinality(Joining(s)') \in Nat /\ Cardinality(Joining(s)') <= Cardinality(Req)
         /\ r \in Joining(s) \/ ~(t # None /\ t.at \in {"lookup", "entered"} /\ t.socket = s) =>
              Cardinality(Joining(s)') <= Cardinality(Joining(s))
         /\ r \in Joining(s) /\ ~(t # None /\ t.at \in {"lookup", "entered"} /\ t.socket = s) =>
              Cardinality(Joining(s)') = Cardinality(Joining(s)) - 1
<1>1. /\ task' \in [Req -> TaskState] /\ task'[r] = t
      /\ \A q \in Req \ {r} : task'[q] = task[q]
  BY DEF Set, PresenceTypeOK
<1> DEFINE J == Joining(s)
           K == Joining(s)'
<1>2. J \in SUBSET Req /\ K \in SUBSET Req
  BY DEF Joining
<1>3. /\ IsFiniteSet(Req) /\ Cardinality(Req) \in Nat
      /\ IsFiniteSet(J) /\ Cardinality(J) \in Nat /\ Cardinality(J) <= Cardinality(Req)
      /\ IsFiniteSet(K) /\ Cardinality(K) \in Nat /\ Cardinality(K) <= Cardinality(Req)
  BY <1>2, RequestsAssumption, FS_Subset, FS_CardinalityType
<1>4. \A q \in Req \ {r} : q \in J <=> q \in K
  BY <1>1 DEF Joining
<1>5. r \in K <=> t # None /\ t.at \in {"lookup", "entered"} /\ t.socket = s
  BY <1>1 DEF Joining
<1> HIDE DEF J, K
<1>6. ASSUME r \in J \/ r \notin K PROVE Cardinality(K) <= Cardinality(J)
  <2>1. K \in SUBSET J
    BY <1>2, <1>4, <1>6
  <2> QED
    BY <1>3, <2>1, FS_Subset
<1>7. ASSUME r \in J, r \notin K PROVE Cardinality(K) = Cardinality(J) - 1
  <2>1. K = J \ {r}
    BY <1>2, <1>4, <1>7
  <2> QED
    BY <1>3, <1>7, <2>1, FS_RemoveElement
<1> QED
  BY <1>3, <1>5, <1>6, <1>7 DEF J, K

\* No step of the others adds a game: the bound stays.
LEMMA SlotsStay ==
  ASSUME IInv, NEW r \in Req, NEW t \in TaskState, Set(r, t),
         t # None /\ t.at \in {"lookup", "entered"} => r \in Joining(t.socket),
         \A s \in Sockets : gameIds'[s] \subseteq gameIds[s]
  PROVE  JoinsHaveSlots'
<1> SUFFICES ASSUME NEW s \in Sockets
             PROVE  /\ IsFiniteSet(gameIds'[s])
                    /\ Cardinality(gameIds'[s]) + Cardinality(Joining(s)') < MaxRooms + Cardinality(Req)
  BY DEF JoinsHaveSlots
<1>1. /\ Cardinality(Joining(s)) \in Nat /\ Cardinality(Req) \in Nat
      /\ Cardinality(Joining(s)') \in Nat /\ Cardinality(Joining(s)') <= Cardinality(Joining(s))
  BY JoiningAfter DEF IInv
<1>2. /\ IsFiniteSet(gameIds[s])
      /\ Cardinality(gameIds[s]) + Cardinality(Joining(s)) < MaxRooms + Cardinality(Req)
  BY DEF IInv, JoinsHaveSlots
<1>3. /\ IsFiniteSet(gameIds'[s]) /\ Cardinality(gameIds'[s]) <= Cardinality(gameIds[s])
      /\ Cardinality(gameIds'[s]) \in Nat /\ Cardinality(gameIds[s]) \in Nat
  BY <1>2, FS_Subset, FS_CardinalityType
<1> QED
  BY <1>1, <1>2, <1>3, RoomsAssumption

\* The handlers on a socket and a game after a step that sets slot r.
LEMMA CrossesAfter ==
  ASSUME PresenceTypeOK, NEW r \in Req, NEW t \in TaskState, Set(r, t),
         NEW s \in Sockets, NEW g \in RoomGames, NEW w
  PROVE  LET with   == t # None /\ t.at \in w /\ t.socket = s /\ t.game = g
             without == task[r] # None /\ task[r].at \in w /\ task[r].socket = s /\ task[r].game = g
         IN  /\ with => Crosses(s, g, w)'
             /\ Crosses(s, g, w)' => with \/ Crosses(s, g, w)
             /\ Crosses(s, g, w) => without \/ Crosses(s, g, w)'
<1>1. task'[r] = t /\ \A q \in Req \ {r} : task'[q] = task[q]
  BY DEF Set, PresenceTypeOK
<1> QED
  BY <1>1 DEF Crosses

LEMMA ConnectStep ==
  ASSUME IInv, NEW s \in Sockets, Connect(s)
  PROVE  IInv'
<1> USE DEF IInv, Connect
<1>1. PresenceTypeOK'
  BY DEF PresenceTypeOK
<1>2. JoinsHaveSlots'
  BY DEF JoinsHaveSlots, Joining
<1>3. \A u \in Sockets : link'[u] # "gone" => link[u] # "gone"
  BY DEF PresenceTypeOK
<1>4. OthersInStep'
  BY <1>3 DEF OthersInStep, InStep, Crosses
<1>5. TasksAreOfConnected'
  BY TaskTypes DEF TasksAreOfConnected, PresenceTypeOK
<1> QED
  BY <1>1, <1>2, <1>4, <1>5

LEMMA TasksStayOfConnected ==
  ASSUME IInv, NEW r \in Req, NEW t \in TaskState, Set(r, t),
         t # None => link'[t.socket] # "new",
         \A s \in Sockets : link[s] # "new" => link'[s] # "new"
  PROVE  TasksAreOfConnected'
<1>1. task'[r] = t /\ \A q \in Req \ {r} : task'[q] = task[q]
  BY DEF Set, PresenceTypeOK, IInv
<1> QED
  BY <1>1, TaskTypes DEF TasksAreOfConnected, IInv

LEMMA TypeStays ==
  ASSUME PresenceTypeOK, NEW r \in Req, NEW t \in TaskState, Set(r, t)
  PROVE  task' \in [Req -> TaskState]
BY DEF Set, PresenceTypeOK

\* The socket is below the limit when the join begins, and no more joins than
\* there are slots are under way.
LEMMA JoinRoomStep ==
  ASSUME IInv, NEW r \in Req, NEW s \in Sockets, NEW g \in RoomGames, JoinRoom(r, s, g)
  PROVE  IInv'
<1> DEFINE t == [at |-> "lookup", socket |-> s, game |-> g]
<1>0. /\ t \in TaskState /\ t.at = "lookup" /\ t.socket = s /\ t.game = g
      /\ Set(r, t) /\ PresenceTypeOK
  BY NewTasks DEF IInv, JoinRoom
<1>a. task[r] = None /\ UNCHANGED <<link, gameIds, room, shown, overtaken>>
  BY DEF JoinRoom
<1>b. /\ HasRoom(s) /\ link[s] = "on" /\ g \notin gameIds[s]
      /\ crossed' = (crossed \/ Crosses(s, g, {"left"}))
  BY DEF JoinRoom
<1> HIDE DEF t
<1>1. PresenceTypeOK'
  BY <1>0, <1>a, <1>b, TypeStays DEF PresenceTypeOK
<1>2. JoinsHaveSlots'
  <2> SUFFICES ASSUME NEW u \in Sockets
               PROVE  /\ IsFiniteSet(gameIds[u])
                      /\ Cardinality(gameIds[u]) + Cardinality(Joining(u)') < MaxRooms + Cardinality(Req)
    BY <1>a DEF JoinsHaveSlots
  <2>1. /\ IsFiniteSet(gameIds[u]) /\ Cardinality(gameIds[u]) \in Nat
        /\ Cardinality(gameIds[u]) + Cardinality(Joining(u)) < MaxRooms + Cardinality(Req)
    BY FS_CardinalityType DEF IInv, JoinsHaveSlots
  <2>2. /\ Cardinality(Joining(u)) \in Nat /\ Cardinality(Req) \in Nat
        /\ Cardinality(Joining(u)') \in Nat /\ Cardinality(Joining(u)') <= Cardinality(Req)
        /\ u # s => Cardinality(Joining(u)') <= Cardinality(Joining(u))
    BY <1>0, JoiningAfter
  <2>3. CASE u = s
    <3>1. Cardinality(gameIds[u]) < MaxRooms
      BY <1>b, <2>3 DEF HasRoom
    <3> QED
      BY <2>1, <2>2, <3>1, RoomsAssumption
  <2>4. CASE u # s
    BY <2>1, <2>2, <2>4, RoomsAssumption
  <2> QED
    BY <2>3, <2>4
<1>3. OthersInStep'
  <2> SUFFICES ASSUME ~crossed', NEW u \in Sockets, NEW h \in RoomGames, link[u] # "gone"
               PROVE  InStep(u, h)'
    BY <1>a DEF OthersInStep
  <2>1. InStep(u, h) /\ (u = s /\ h = g => ~Crosses(u, h, {"left"}))
    BY <1>b DEF IInv, OthersInStep
  <2>2. /\ Crosses(u, h, {"left"})' <=> Crosses(u, h, {"left"})
        /\ Crosses(u, h, {"entered"})' <=> Crosses(u, h, {"entered"})
        /\ Crosses(u, h, Half)' =>
             Crosses(u, h, Half) \/ (u = s /\ h = g)
    BY <1>0, <1>a, CrossesAfter
  <2> QED
    BY <1>a, <2>1, <2>2 DEF InStep
<1>4. TasksAreOfConnected'
  BY <1>0, <1>a, <1>b, TasksStayOfConnected
<1> QED
  BY <1>1, <1>2, <1>3, <1>4 DEF IInv

\* A handler keeps its socket and game from lookup to entered; a socket that is
\* gone is not put back into the room.
LEMMA EnterRoomStep ==
  ASSUME IInv, NEW r \in Req, EnterRoom(r)
  PROVE  IInv'
<1> PICK s : s = task[r].socket
  OBVIOUS
<1> PICK g : g = task[r].game
  OBVIOUS
<1> DEFINE in == [at |-> "entered", socket |-> s, game |-> g]
<1>0. /\ s \in Sockets /\ g \in RoomGames /\ PresenceTypeOK
      /\ task[r] # None /\ task[r].at = "lookup" /\ task[r] \in TaskState
      /\ link[s] # "new"
  BY TaskTypes DEF IInv, EnterRoom, Running, TasksAreOfConnected
<1>a. UNCHANGED <<link, gameIds, shown, crossed, overtaken>>
  BY DEF EnterRoom
<1>b. [task[r] EXCEPT !.at = "entered"] = in
  BY <1>0 DEF TaskState, Task
<1>c. /\ in \in TaskState /\ in.at = "entered" /\ in.socket = s /\ in.game = g
      /\ None \in TaskState /\ in # None
  <2>1. in # None
    BY <1>0, SomeTask
  <2>2. in \in TaskState /\ None \in TaskState
    BY <1>0, NewTasks DEF IInv
  <2> QED
    BY <2>1, <2>2
<1>d. \/ /\ Set(r, in)
         /\ room' = IF link[s] = "on" THEN [room EXCEPT ![g] = @ \cup {s}] ELSE room
      \/ Set(r, None) /\ room' = room
  BY <1>b DEF EnterRoom
<1>e. r \in Joining(s)
  BY <1>0 DEF Joining
<1> HIDE DEF in
<1> PICK t : /\ Set(r, t) /\ t \in {in, None}
             /\ t = in => room' = IF link[s] = "on" THEN [room EXCEPT ![g] = @ \cup {s}] ELSE room
             /\ t # in => room' = room
  BY <1>c, <1>d
<1>1. PresenceTypeOK'
  BY <1>0, <1>a, <1>c, TypeStays DEF PresenceTypeOK
<1>2. JoinsHaveSlots'
  <2>1. t # None /\ t.at \in {"lookup", "entered"} => r \in Joining(t.socket)
    BY <1>c, <1>e
  <2>2. \A u \in Sockets : gameIds'[u] \subseteq gameIds[u]
    BY <1>a
  <2> QED
    BY <1>c, <2>1, <2>2, SlotsStay
<1>3. OthersInStep'
  <2> SUFFICES ASSUME ~crossed', NEW u \in Sockets, NEW h \in RoomGames, link[u] # "gone"
               PROVE  InStep(u, h)'
    BY <1>a DEF OthersInStep
  <2>1. InStep(u, h)
    BY <1>a DEF IInv, OthersInStep
  <2>2. Crosses(u, h, {"left"})' <=> Crosses(u, h, {"left"})
    BY <1>0, <1>c, CrossesAfter
  <2>0. Crosses(s, g, Half)
    BY <1>0 DEF Crosses, Half
  <2>3. Crosses(u, h, Half)' => Crosses(u, h, Half)
    BY <1>0, <1>c, <2>0, CrossesAfter
  <2>4. Crosses(u, h, {"entered"}) => Crosses(u, h, {"entered"})'
    BY <1>0, <1>c, CrossesAfter
  <2>5. Crosses(u, h, {"entered"})' =>
          Crosses(u, h, {"entered"}) \/ (t = in /\ u = s /\ h = g)
    BY <1>0, <1>c, CrossesAfter
  <2>6. t = in /\ u = s /\ h = g => Crosses(u, h, {"entered"})' /\ Crosses(u, h, Half)
    BY <1>0, <1>c, <2>0, CrossesAfter
  <2>7. CASE t = in /\ u = s /\ h = g
    <3>1. u \in room'[h]
      BY <1>0, <1>a, <2>7 DEF PresenceTypeOK
    <3> QED
      BY <1>a, <2>1, <2>2, <2>3, <2>6, <2>7, <3>1 DEF InStep
  <2>8. CASE ~(t = in /\ u = s /\ h = g)
    <3>1. u \in room'[h] <=> u \in room[h]
      BY <1>0, <1>a, <2>8 DEF PresenceTypeOK
    <3> QED
      BY <1>a, <2>1, <2>2, <2>3, <2>4, <2>5, <2>8, <3>1 DEF InStep
  <2> QED
    BY <2>7, <2>8
<1>4. TasksAreOfConnected'
  BY <1>0, <1>a, <1>c, TasksStayOfConnected
<1> QED
  BY <1>1, <1>2, <1>3, <1>4 DEF IInv

\* The join's slot becomes the game it counts.
LEMMA CountRoomStep ==
  ASSUME IInv, NEW r \in Req, CountRoom(r)
  PROVE  IInv'
<1> PICK s : s = task[r].socket
  OBVIOUS
<1> PICK g : g = task[r].game
  OBVIOUS
<1> PICK t : t = Announce(s, g, {}, FALSE)
  OBVIOUS
<1>0. /\ s \in Sockets /\ g \in RoomGames /\ PresenceTypeOK
      /\ task[r] # None /\ task[r].at = "entered"
      /\ link[s] # "new"
  BY TaskTypes DEF IInv, CountRoom, Running, TasksAreOfConnected
<1>a. UNCHANGED <<link, room, shown, crossed, overtaken>>
  BY DEF CountRoom
<1>b. gameIds' = [gameIds EXCEPT ![s] = @ \cup {g}] /\ Set(r, t)
  BY DEF CountRoom
<1>c. t \in TaskState /\ t.at = "emit" /\ t.socket = s
  <2>1. t \in TaskState
    BY <1>0, NewTasks
  <2> QED
    BY <2>1 DEF Announce
<1>d. r \in Joining(s)
  BY <1>0 DEF Joining
<1>1. PresenceTypeOK'
  BY <1>0, <1>a, <1>b, <1>c, TypeStays DEF PresenceTypeOK
<1>2. JoinsHaveSlots'
  <2> SUFFICES ASSUME NEW u \in Sockets
               PROVE  /\ IsFiniteSet(gameIds'[u])
                      /\ Cardinality(gameIds'[u]) + Cardinality(Joining(u)') < MaxRooms + Cardinality(Req)
    BY DEF JoinsHaveSlots
  <2>1. /\ IsFiniteSet(gameIds[u]) /\ Cardinality(gameIds[u]) \in Nat
        /\ Cardinality(gameIds[u]) + Cardinality(Joining(u)) < MaxRooms + Cardinality(Req)
    BY FS_CardinalityType DEF IInv, JoinsHaveSlots
  <2>2. /\ Cardinality(Joining(u)) \in Nat /\ Cardinality(Req) \in Nat
        /\ Cardinality(Joining(u)') \in Nat
        /\ Cardinality(Joining(u)') <= Cardinality(Joining(u))
        /\ u = s => Cardinality(Joining(u)') = Cardinality(Joining(u)) - 1
    BY <1>0, <1>b, <1>c, <1>d, JoiningAfter
  <2>3. CASE u = s
    <3>1. gameIds'[u] = gameIds[u] \cup {g}
      BY <1>0, <1>b, <2>3 DEF PresenceTypeOK
    <3>2. /\ IsFiniteSet(gameIds'[u]) /\ Cardinality(gameIds'[u]) \in Nat
          /\ Cardinality(gameIds'[u]) <= Cardinality(gameIds[u]) + 1
      <4>1. /\ IsFiniteSet(gameIds[u] \cup {g})
            /\ Cardinality(gameIds[u] \cup {g}) =
                 IF g \in gameIds[u] THEN Cardinality(gameIds[u]) ELSE Cardinality(gameIds[u]) + 1
        BY <2>1, FS_AddElement
      <4> QED
        BY <2>1, <3>1, <4>1
    <3> QED
      BY <2>1, <2>2, <2>3, <3>2, RoomsAssumption
  <2>4. CASE u # s
    <3>1. gameIds'[u] = gameIds[u]
      BY <1>0, <1>b, <2>4 DEF PresenceTypeOK
    <3> QED
      BY <2>1, <2>2, <3>1, RoomsAssumption
  <2> QED
    BY <2>3, <2>4
<1>3. OthersInStep'
  <2> SUFFICES ASSUME ~crossed', NEW u \in Sockets, NEW h \in RoomGames, link[u] # "gone"
               PROVE  InStep(u, h)'
    BY <1>a DEF OthersInStep
  <2>1. InStep(u, h)
    BY <1>a DEF IInv, OthersInStep
  <2>2. Crosses(u, h, {"left"})' <=> Crosses(u, h, {"left"})
    BY <1>0, <1>b, <1>c, CrossesAfter
  <2>3. Crosses(u, h, Half)' => Crosses(u, h, Half)
    BY <1>0, <1>b, <1>c, CrossesAfter DEF Half
  <2>4. Crosses(u, h, {"entered"})' => Crosses(u, h, {"entered"})
    BY <1>0, <1>b, <1>c, CrossesAfter
  <2>5. Crosses(s, g, {"entered"})
    BY <1>0 DEF Crosses
  <2>6. CASE u = s /\ h = g
    <3>1. h \in gameIds'[u] /\ u \in room[h]
      BY <1>0, <1>b, <2>1, <2>5, <2>6 DEF PresenceTypeOK, InStep
    <3> QED
      BY <1>a, <2>1, <2>2, <2>3, <2>4, <3>1 DEF InStep
  <2>7. CASE ~(u = s /\ h = g)
    <3>1. h \in gameIds'[u] <=> h \in gameIds[u]
      BY <1>0, <1>b, <2>7 DEF PresenceTypeOK
    <3>2. Crosses(u, h, {"entered"}) => Crosses(u, h, {"entered"})'
      BY <1>0, <1>b, <1>c, <2>7, CrossesAfter
    <3> QED
      BY <1>a, <2>1, <2>2, <2>3, <2>4, <3>1, <3>2 DEF InStep
  <2> QED
    BY <2>6, <2>7
<1>4. TasksAreOfConnected'
  BY <1>0, <1>a, <1>b, <1>c, TasksStayOfConnected
<1> QED
  BY <1>1, <1>2, <1>3, <1>4 DEF IInv

LEMMA LeaveRoomStep ==
  ASSUME IInv, NEW r \in Req, NEW s \in Sockets, NEW g \in RoomGames, LeaveRoom(r, s, g)
  PROVE  IInv'
<1> PICK t : t = [at |-> "left", socket |-> s, game |-> g]
  OBVIOUS
<1>0. PresenceTypeOK /\ task[r] = None /\ link[s] = "on"
  BY DEF IInv, LeaveRoom
<1>a. UNCHANGED <<link, gameIds, shown, overtaken>>
  BY DEF LeaveRoom
<1>b. /\ room' = [room EXCEPT ![g] = @ \ {s}] /\ Set(r, t)
      /\ crossed' = (crossed \/ Crosses(s, g, {"lookup", "entered"}))
  BY DEF LeaveRoom
<1>c. t \in TaskState /\ t.at = "left" /\ t.socket = s /\ t.game = g /\ t # None
  <2>1. t \in TaskState
    BY NewTasks
  <2>2. t # None
    BY SomeTask
  <2> QED
    BY <2>1, <2>2
<1>1. PresenceTypeOK'
  BY <1>0, <1>a, <1>b, <1>c, TypeStays DEF PresenceTypeOK
<1>2. JoinsHaveSlots'
  BY <1>a, <1>b, <1>c, SlotsStay
<1>3. OthersInStep'
  <2> SUFFICES ASSUME ~crossed', NEW u \in Sockets, NEW h \in RoomGames, link[u] # "gone"
               PROVE  InStep(u, h)'
    BY <1>a DEF OthersInStep
  <2>1. InStep(u, h) /\ ~Crosses(s, g, Half)
    BY <1>b DEF IInv, OthersInStep, Half
  <2>2. Crosses(u, h, Half)' => Crosses(u, h, Half)
    BY <1>0, <1>b, <1>c, CrossesAfter DEF Half
  <2>3. Crosses(u, h, {"entered"})' <=> Crosses(u, h, {"entered"})
    BY <1>0, <1>b, <1>c, CrossesAfter
  <2>4. CASE u = s /\ h = g
    <3>1. u \notin room'[h]
      BY <1>0, <1>b, <2>4 DEF PresenceTypeOK
    <3>2. Crosses(u, h, {"left"})'
      BY <1>0, <1>b, <1>c, <2>4, CrossesAfter
    <3>3. ~Crosses(u, h, {"entered"})
      BY <2>1, <2>4 DEF Crosses, Half
    <3> QED
      BY <1>a, <2>1, <2>2, <2>3, <2>4, <3>1, <3>2, <3>3 DEF InStep
  <2>5. CASE ~(u = s /\ h = g)
    <3>1. u \in room'[h] <=> u \in room[h]
      BY <1>0, <1>b, <2>5 DEF PresenceTypeOK
    <3>2. Crosses(u, h, {"left"})' <=> Crosses(u, h, {"left"})
      BY <1>0, <1>b, <1>c, <2>5, CrossesAfter
    <3> QED
      BY <1>a, <2>1, <2>2, <2>3, <3>1, <3>2 DEF InStep
  <2> QED
    BY <2>4, <2>5
<1>4. TasksAreOfConnected'
  BY <1>0, <1>a, <1>b, <1>c, TasksStayOfConnected
<1> QED
  BY <1>1, <1>2, <1>3, <1>4 DEF IInv

LEMMA ForgetRoomStep ==
  ASSUME IInv, NEW r \in Req, ForgetRoom(r)
  PROVE  IInv'
<1> PICK s : s = task[r].socket
  OBVIOUS
<1> PICK g : g = task[r].game
  OBVIOUS
<1> PICK t : t = Announce(s, g, {}, FALSE)
  OBVIOUS
<1>0. /\ s \in Sockets /\ g \in RoomGames /\ PresenceTypeOK
      /\ task[r] # None /\ task[r].at = "left"
      /\ link[s] # "new"
  BY TaskTypes DEF IInv, ForgetRoom, Running, TasksAreOfConnected
<1>a. UNCHANGED <<link, room, shown, crossed, overtaken>>
  BY DEF ForgetRoom
<1>b. gameIds' = [gameIds EXCEPT ![s] = @ \ {g}] /\ Set(r, t)
  BY DEF ForgetRoom, Uncounted
<1>c. t \in TaskState /\ t.at = "emit" /\ t.socket = s
  <2>1. t \in TaskState
    BY <1>0, NewTasks
  <2> QED
    BY <2>1 DEF Announce
<1>1. PresenceTypeOK'
  BY <1>0, <1>a, <1>b, <1>c, TypeStays DEF PresenceTypeOK
<1>2. JoinsHaveSlots'
  <2>1. \A u \in Sockets : gameIds'[u] \subseteq gameIds[u]
    BY <1>0, <1>b DEF PresenceTypeOK
  <2> QED
    BY <1>b, <1>c, <2>1, SlotsStay
<1>3. OthersInStep'
  <2> SUFFICES ASSUME ~crossed', NEW u \in Sockets, NEW h \in RoomGames, link[u] # "gone"
               PROVE  InStep(u, h)'
    BY <1>a DEF OthersInStep
  <2>1. InStep(u, h)
    BY <1>a DEF IInv, OthersInStep
  <2>2. Crosses(u, h, {"left"})' => Crosses(u, h, {"left"})
    BY <1>0, <1>b, <1>c, CrossesAfter
  <2>3. Crosses(u, h, Half)' => Crosses(u, h, Half)
    BY <1>0, <1>b, <1>c, CrossesAfter DEF Half
  <2>4. Crosses(u, h, {"entered"})' <=> Crosses(u, h, {"entered"})
    BY <1>0, <1>b, <1>c, CrossesAfter
  <2>5. Crosses(s, g, {"left"})
    BY <1>0 DEF Crosses
  <2>6. CASE u = s /\ h = g
    <3>1. h \notin gameIds'[u] /\ u \notin room[h]
      BY <1>0, <1>b, <2>1, <2>5, <2>6 DEF PresenceTypeOK, InStep
    <3> QED
      BY <1>a, <2>1, <2>2, <2>3, <2>4, <3>1 DEF InStep
  <2>7. CASE ~(u = s /\ h = g)
    <3>1. h \in gameIds'[u] <=> h \in gameIds[u]
      BY <1>0, <1>b, <2>7 DEF PresenceTypeOK
    <3>2. Crosses(u, h, {"left"}) => Crosses(u, h, {"left"})'
      BY <1>0, <1>b, <1>c, <2>7, CrossesAfter
    <3> QED
      BY <1>a, <2>1, <2>2, <2>3, <2>4, <3>1, <3>2 DEF InStep
  <2> QED
    BY <2>6, <2>7
<1>4. TasksAreOfConnected'
  BY <1>0, <1>a, <1>b, <1>c, TasksStayOfConnected
<1> QED
  BY <1>1, <1>2, <1>3, <1>4 DEF IInv

\* A step between broadcasts crosses nothing.
LEMMA NothingCrosses ==
  ASSUME PresenceTypeOK, NEW r \in Req, NEW t \in TaskState, Set(r, t),
         task[r] # None => task[r].at \notin {"lookup", "entered", "left"},
         t # None => t.at \notin {"lookup", "entered", "left"},
         NEW s \in Sockets, NEW g \in RoomGames
  PROVE  /\ Crosses(s, g, Half)' <=> Crosses(s, g, Half)
         /\ Crosses(s, g, {"entered"})' <=> Crosses(s, g, {"entered"})
         /\ Crosses(s, g, {"left"})' <=> Crosses(s, g, {"left"})
<1>1. Crosses(s, g, Half)' <=> Crosses(s, g, Half)
  BY CrossesAfter DEF Half
<1>2. Crosses(s, g, {"entered"})' <=> Crosses(s, g, {"entered"})
  BY CrossesAfter
<1>3. Crosses(s, g, {"left"})' <=> Crosses(s, g, {"left"})
  BY CrossesAfter
<1> QED
  BY <1>1, <1>2, <1>3

\* What is gone is gone from every room at once; the others are as they were.
LEMMA DisconnectStep ==
  ASSUME IInv, NEW r \in Req, NEW s \in Sockets, Disconnect(r, s)
  PROVE  IInv'
<1> PICK t : t = [at |-> "closing", socket |-> s, told |-> {}]
  OBVIOUS
<1>0. PresenceTypeOK /\ task[r] = None /\ link[s] = "on"
  BY DEF IInv, Disconnect
<1>a. UNCHANGED <<gameIds, crossed, overtaken>>
  BY DEF Disconnect
<1>b. /\ link' = [link EXCEPT ![s] = "gone"]
      /\ room' = [g \in RoomGames |-> room[g] \ {s}]
      /\ shown' = [shown EXCEPT ![s] = [g \in RoomGames |-> None]]
      /\ Set(r, t)
  BY DEF Disconnect
<1>c. t \in TaskState /\ t.at = "closing" /\ t.socket = s
  BY DEF TaskState, Task
<1>d. \A u \in Sockets : link'[u] = IF u = s THEN "gone" ELSE link[u]
  BY <1>0, <1>b DEF PresenceTypeOK
<1>1. PresenceTypeOK'
  <2>1. link' \in [Sockets -> {"new", "on", "gone"}]
    BY <1>0, <1>b DEF PresenceTypeOK
  <2>2. room' \in [RoomGames -> SUBSET Sockets]
    BY <1>0, <1>b DEF PresenceTypeOK
  <2>3. shown' \in [Sockets -> [RoomGames -> (SUBSET Users) \cup {None}]]
    <3>1. [g \in RoomGames |-> None] \in [RoomGames -> (SUBSET Users) \cup {None}]
      OBVIOUS
    <3>2. shown \in [Sockets -> [RoomGames -> (SUBSET Users) \cup {None}]]
      BY <1>0 DEF PresenceTypeOK
    <3> QED
      BY <1>b, <3>1, <3>2
  <2>4. task' \in [Req -> TaskState]
    BY <1>0, <1>b, <1>c, TypeStays
  <2> QED
    BY <1>0, <1>a, <2>1, <2>2, <2>3, <2>4 DEF PresenceTypeOK
<1>2. JoinsHaveSlots'
  BY <1>a, <1>b, <1>c, SlotsStay
<1>3. OthersInStep'
  <2> SUFFICES ASSUME ~crossed', NEW u \in Sockets, NEW h \in RoomGames, link'[u] # "gone"
               PROVE  InStep(u, h)'
    BY DEF OthersInStep
  <2>1. u # s /\ InStep(u, h)
    BY <1>a, <1>d DEF IInv, OthersInStep
  <2>2. /\ Crosses(u, h, Half)' <=> Crosses(u, h, Half)
        /\ Crosses(u, h, {"entered"})' <=> Crosses(u, h, {"entered"})
        /\ Crosses(u, h, {"left"})' <=> Crosses(u, h, {"left"})
    BY <1>0, <1>b, <1>c, NothingCrosses
  <2>3. u \in room'[h] <=> u \in room[h]
    BY <1>b, <2>1
  <2> QED
    BY <1>a, <2>1, <2>2, <2>3 DEF InStep
<1>4. TasksAreOfConnected'
  BY <1>b, <1>c, <1>d, TasksStayOfConnected
<1> QED
  BY <1>1, <1>2, <1>3, <1>4 DEF IInv

\* A step that only sends, or goes on to the next broadcast.
LEMMA BroadcastStep ==
  ASSUME IInv, NEW r \in Req, NEW t \in TaskState, Set(r, t),
         task[r] # None, task[r].at \in {"emit", "closing"},
         t # None => t.at \in {"emit", "closing"} /\ t.socket = task[r].socket,
         UNCHANGED <<link, gameIds, room, crossed>>,
         shown' \in [Sockets -> [RoomGames -> (SUBSET Users) \cup {None}]], overtaken' \in BOOLEAN
  PROVE  IInv'
<1>0. PresenceTypeOK /\ link[task[r].socket] # "new" /\ task[r].socket \in Sockets
  BY TaskTypes DEF IInv, TasksAreOfConnected
<1>1. PresenceTypeOK'
  BY <1>0, TypeStays DEF PresenceTypeOK
<1>2. JoinsHaveSlots'
  BY SlotsStay
<1>3. OthersInStep'
  <2> SUFFICES ASSUME ~crossed', NEW u \in Sockets, NEW h \in RoomGames, link[u] # "gone"
               PROVE  InStep(u, h)'
    BY DEF OthersInStep
  <2>1. InStep(u, h)
    BY DEF IInv, OthersInStep
  <2>2. /\ Crosses(u, h, Half)' <=> Crosses(u, h, Half)
        /\ Crosses(u, h, {"entered"})' <=> Crosses(u, h, {"entered"})
        /\ Crosses(u, h, {"left"})' <=> Crosses(u, h, {"left"})
    BY <1>0, NothingCrosses
  <2> QED
    BY <2>1, <2>2 DEF InStep
<1>4. TasksAreOfConnected'
  BY <1>0, TasksStayOfConnected
<1> QED
  BY <1>1, <1>2, <1>3, <1>4 DEF IInv

LEMMA TellNextStep ==
  ASSUME IInv, NEW r \in Req, TellNext(r)
  PROVE  IInv'
<1> PICK s : s = task[r].socket
  OBVIOUS
<1> PICK told : told = task[r].told
  OBVIOUS
<1>0. /\ s \in Sockets /\ PresenceTypeOK /\ told \in SUBSET RoomGames
      /\ task[r] # None /\ task[r].at = "closing"
  BY TaskTypes DEF IInv, TellNext, Running
<1>a. UNCHANGED <<link, gameIds, room, shown, crossed, overtaken>>
  BY DEF TellNext
<1>b. \/ Set(r, None)
      \/ \E g \in ToTell(s, told) : Set(r, Announce(s, g, told \cup {g}, TRUE))
  BY DEF TellNext
<1>c. shown' \in [Sockets -> [RoomGames -> (SUBSET Users) \cup {None}]] /\ overtaken' \in BOOLEAN
  BY <1>0, <1>a DEF PresenceTypeOK
<1>1. CASE Set(r, None)
  BY <1>0, <1>1, <1>a, <1>c, BroadcastStep DEF TaskState, Task
<1>2. CASE \E g \in ToTell(s, told) : Set(r, Announce(s, g, told \cup {g}, TRUE))
  <2> PICK g \in ToTell(s, told) : Set(r, Announce(s, g, told \cup {g}, TRUE))
    BY <1>2
  <2> PICK t : t = Announce(s, g, told \cup {g}, TRUE)
    OBVIOUS
  <2>1. g \in RoomGames
    BY <1>0 DEF ToTell, PresenceTypeOK
  <2>2. t \in TaskState
    BY <1>0, <2>1, NewTasks
  <2>3. t.at = "emit" /\ t.socket = s
    BY DEF Announce
  <2> QED
    BY <1>0, <1>a, <1>c, <2>2, <2>3, BroadcastStep
<1> QED
  BY <1>b, <1>1, <1>2

LEMMA EmitPresenceStep ==
  ASSUME IInv, NEW r \in Req, EmitPresence(r)
  PROVE  IInv'
<1> PICK s : s = task[r].socket
  OBVIOUS
<1> PICK g : g = task[r].game
  OBVIOUS
<1> PICK told : told = task[r].told
  OBVIOUS
<1> PICK users : users = task[r].users
  OBVIOUS
<1> PICK t : t = IF task[r].closing THEN [at |-> "closing", socket |-> s, told |-> told] ELSE None
  OBVIOUS
<1>0. /\ s \in Sockets /\ g \in RoomGames /\ PresenceTypeOK
      /\ told \in SUBSET RoomGames /\ users \in SUBSET Users
      /\ task[r] # None /\ task[r].at = "emit"
  BY TaskTypes DEF IInv, EmitPresence, Running
<1>a. UNCHANGED <<link, gameIds, room, crossed>> /\ Set(r, t)
  BY DEF EmitPresence
<1>b. /\ shown' = [u \in Sockets |->
           IF u \in room[g] THEN [shown[u] EXCEPT ![g] = users] ELSE shown[u]]
      /\ overtaken' = (overtaken \/ users # RoomUsers(g))
  BY DEF EmitPresence
<1>1. /\ t \in TaskState
      /\ t # None => t.at \in {"emit", "closing"} /\ t.socket = s
  <2>1. CASE task[r].closing
    BY <1>0, <2>1, NewTasks
  <2>2. CASE ~task[r].closing
    BY <2>2 DEF TaskState, Task
  <2> QED
    BY <2>1, <2>2
<1>2. shown' \in [Sockets -> [RoomGames -> (SUBSET Users) \cup {None}]]
  BY <1>0, <1>b DEF PresenceTypeOK
<1>3. overtaken' \in BOOLEAN
  BY <1>b
<1> QED
  BY <1>0, <1>a, <1>1, <1>2, <1>3, BroadcastStep

-----------------------------------------------------------------------------
LEMMA InitHolds == PresenceInit => IInv
<1> SUFFICES ASSUME PresenceInit PROVE IInv
  OBVIOUS
<1> USE DEF PresenceInit
<1>1. PresenceTypeOK
  <2>1. \A s \in Sockets : [g \in RoomGames |-> None] \in [RoomGames -> (SUBSET Users) \cup {None}]
    OBVIOUS
  <2>2. shown \in [Sockets -> [RoomGames -> (SUBSET Users) \cup {None}]]
    BY <2>1
  <2>3. task \in [Req -> TaskState]
    BY DEF TaskState, Task
  <2> QED
    BY <2>2, <2>3 DEF PresenceTypeOK
<1>2. JoinsHaveSlots
  <2> SUFFICES ASSUME NEW s \in Sockets
               PROVE  /\ IsFiniteSet(gameIds[s])
                      /\ Cardinality(gameIds[s]) + Cardinality(Joining(s)) < MaxRooms + Cardinality(Req)
    BY DEF JoinsHaveSlots
  <2>1. gameIds[s] = {} /\ Joining(s) = {}
    BY DEF Joining
  <2>2. IsFiniteSet({}) /\ Cardinality({}) = 0 /\ Cardinality(Req) \in Nat
    BY RequestsAssumption, FS_EmptySet, FS_CardinalityType
  <2> QED
    BY <2>1, <2>2, RoomsAssumption
<1>3. OthersInStep
  BY DEF OthersInStep, InStep, Crosses
<1>4. TasksAreOfConnected
  BY DEF TasksAreOfConnected
<1> QED
  BY <1>1, <1>2, <1>3, <1>4 DEF IInv

LEMMA NextHolds == IInv /\ [PresenceNext]_presenceVars => IInv'
<1> SUFFICES ASSUME IInv, [PresenceNext]_presenceVars PROVE IInv'
  OBVIOUS
<1>1. CASE UNCHANGED presenceVars
  BY <1>1 DEF presenceVars, IInv, PresenceTypeOK, JoinsHaveSlots, OthersInStep,
              TasksAreOfConnected, InStep, Crosses, Joining
<1>2. ASSUME NEW s \in Sockets, Connect(s) PROVE IInv'
  BY <1>2, ConnectStep
<1>3. ASSUME NEW r \in Req, NEW s \in Sockets, Disconnect(r, s) PROVE IInv'
  BY <1>3, DisconnectStep
<1>4. ASSUME NEW r \in Req, NEW s \in Sockets, NEW g \in RoomGames, JoinRoom(r, s, g) PROVE IInv'
  BY <1>4, JoinRoomStep
<1>5. ASSUME NEW r \in Req, NEW s \in Sockets, NEW g \in RoomGames, LeaveRoom(r, s, g) PROVE IInv'
  BY <1>5, LeaveRoomStep
<1>6. ASSUME NEW r \in Req, EnterRoom(r) PROVE IInv'
  BY <1>6, EnterRoomStep
<1>7. ASSUME NEW r \in Req, CountRoom(r) PROVE IInv'
  BY <1>7, CountRoomStep
<1>8. ASSUME NEW r \in Req, ForgetRoom(r) PROVE IInv'
  BY <1>8, ForgetRoomStep
<1>9. ASSUME NEW r \in Req, TellNext(r) PROVE IInv'
  BY <1>9, TellNextStep
<1>10. ASSUME NEW r \in Req, EmitPresence(r) PROVE IInv'
  BY <1>10, EmitPresenceStep
<1> QED
  BY <1>1, <1>2, <1>3, <1>4, <1>5, <1>6, <1>7, <1>8, <1>9, <1>10 DEF PresenceNext

\* The inductive invariant: every join under way has a slot under the limit,
\* and where a socket is differs from what it counts only by what is under way.
THEOREM PresenceInvariance == PresenceSpec => []IInv
BY InitHolds, NextHolds, PTL DEF PresenceSpec

\* Rooms, counts and handlers are what the gateway's declarations say.
THEOREM PresenceTypeCorrect == PresenceSpec => []PresenceTypeOK
<1>1. IInv => PresenceTypeOK
  BY DEF IInv
<1> QED
  BY <1>1, PresenceInvariance, PTL

\* Joins that overlap exceed MAX_GAME_ROOMS_PER_SOCKET by less than the number
\* of handlers that run at once, however many rooms and sockets there are.
THEOREM RoomsBounded == PresenceSpec => []RoomsAreBounded
<1>1. IInv => RoomsAreBounded
  <2> SUFFICES ASSUME IInv, NEW s \in Sockets
               PROVE  Cardinality(gameIds[s]) < MaxRooms + Cardinality(Req)
    BY DEF RoomsAreBounded
  <2>1. /\ IsFiniteSet(gameIds[s])
        /\ Cardinality(gameIds[s]) + Cardinality(Joining(s)) < MaxRooms + Cardinality(Req)
    BY DEF IInv, JoinsHaveSlots
  <2>2. Joining(s) \in SUBSET Req
    BY DEF Joining
  <2>3. Cardinality(Joining(s)) \in Nat /\ Cardinality(Req) \in Nat /\ Cardinality(gameIds[s]) \in Nat
    BY <2>1, <2>2, RequestsAssumption, FS_Subset, FS_CardinalityType
  <2> QED
    BY <2>1, <2>3, RoomsAssumption
<1> QED
  BY <1>1, PresenceInvariance, PTL

\* A connected socket without a handler under way is in exactly the rooms it
\* counts, unless a leave has run into a join of the same game.
THEOREM JoinedInRoom == PresenceSpec => []JoinedMeansInRoom
<1>1. IInv => JoinedMeansInRoom
  <2> SUFFICES ASSUME IInv, ~crossed, NEW s \in Sockets, link[s] = "on", ~Busy(s)
               PROVE  gameIds[s] = {g \in RoomGames : s \in room[g]}
    BY DEF JoinedMeansInRoom
  <2>1. \A w : \A g \in RoomGames : ~Crosses(s, g, w)
    BY DEF Busy, Crosses
  <2>2. \A g \in RoomGames : InStep(s, g)
    BY DEF IInv, OthersInStep
  <2>3. \A g \in RoomGames : g \in gameIds[s] <=> s \in room[g]
    BY <2>1, <2>2 DEF InStep
  <2>4. gameIds[s] \in SUBSET RoomGames
    BY DEF IInv, PresenceTypeOK
  <2> QED
    BY <2>3, <2>4
<1> QED
  BY <1>1, PresenceInvariance, PTL

(* Presence.  Whoever changes a room, or who is known to be in it, still   *)
(* has the broadcast of it before him.                                     *)

\* A handler that is between its change of the room of g and the broadcast, or
\* goes through the games of a socket that is gone and has g before it.
TaskOwes(t, g) ==
  /\ t # None
  /\ \/ t.at \in {"entered", "left", "emit"} /\ t.game = g
     \/ t.at = "closing" /\ g \in ToTell(t.socket, t.told)
     \/ t.at = "emit" /\ t.closing /\ g \in ToTell(t.socket, t.told)

Settled(g) == \A s \in room[g] : shown[s][g] = RoomUsers(g)

ToldOrOwed(g) == Settled(g) \/ \E r \in Req : TaskOwes(task[r], g)

PInv == ~crossed /\ ~overtaken => \A g \in RoomGames : ToldOrOwed(g)

\* The step of a handler that has not changed this room or what is shown of it,
\* and owes it as it did.
LEMMA NotTheirRoom ==
  ASSUME PresenceTypeOK, NEW r \in Req, NEW t \in TaskState, Set(r, t), NEW h \in RoomGames,
         room'[h] = room[h], \A u \in room[h] : shown'[u][h] = shown[u][h],
         \A s \in Sockets : h \in gameIds[s] => h \in gameIds'[s],
         TaskOwes(task[r], h) => TaskOwes(t, h),
         ToldOrOwed(h)
  PROVE  ToldOrOwed(h)'
<1>1. task'[r] = t /\ \A q \in Req \ {r} : task'[q] = task[q]
  BY DEF Set, PresenceTypeOK
<1>2. Settled(h) => Settled(h)'
  BY DEF Settled, RoomUsers
<1>3. ASSUME NEW q \in Req, TaskOwes(task[q], h)
      PROVE  TaskOwes(task[q], h)'
  <2>1. PICK x \in TaskState : x = task'[q] /\ TaskOwes(x, h)
    <3>1. task[q] \in TaskState
      BY DEF PresenceTypeOK
    <3> QED
      BY <1>1, <1>3, <3>1
  <2>2. x.socket \in Sockets
    BY <2>1 DEF TaskOwes, TaskState, Task
  <2>3. TaskOwes(x, h)'
    BY <2>1, <2>2 DEF TaskOwes, ToTell
  <2> QED
    BY <2>1, <2>3
<1> QED
  BY <1>2, <1>3 DEF ToldOrOwed

\* The step of a handler that goes on to tell it.
LEMMA TheirRoom ==
  ASSUME PresenceTypeOK, NEW r \in Req, NEW t \in TaskState, Set(r, t), NEW h \in RoomGames,
         t # None, t.at \in {"entered", "left", "emit"}, t.game = h
  PROVE  ToldOrOwed(h)'
<1>1. task'[r] = t
  BY DEF Set, PresenceTypeOK
<1> QED
  BY <1>1 DEF ToldOrOwed, TaskOwes

LEMMA ConnectTold == ASSUME IInv, PInv, NEW s \in Sockets, Connect(s) PROVE PInv'
BY DEF Connect, PInv, ToldOrOwed, Settled, RoomUsers, TaskOwes, ToTell

LEMMA JoinRoomTold ==
  ASSUME IInv, PInv, NEW r \in Req, NEW s \in Sockets, NEW g \in RoomGames, JoinRoom(r, s, g)
  PROVE  PInv'
<1> PICK t : t = [at |-> "lookup", socket |-> s, game |-> g]
  OBVIOUS
<1>1. /\ Set(r, t) /\ task[r] = None /\ (~crossed' => ~crossed)
      /\ UNCHANGED <<link, gameIds, room, shown, overtaken>>
      /\ t \in TaskState /\ PresenceTypeOK
  BY NewTasks DEF JoinRoom, IInv
<1>2. ASSUME NEW h \in RoomGames PROVE ~TaskOwes(task[r], h)
  BY <1>1 DEF TaskOwes
<1> QED
  BY <1>1, <1>2, NotTheirRoom DEF PInv

LEMMA EnterRoomTold == ASSUME IInv, PInv, NEW r \in Req, EnterRoom(r) PROVE PInv'
<1> PICK s : s = task[r].socket
  OBVIOUS
<1> PICK g : g = task[r].game
  OBVIOUS
<1> PICK in : in = [at |-> "entered", socket |-> s, game |-> g]
  OBVIOUS
<1>1. /\ s \in Sockets /\ g \in RoomGames /\ PresenceTypeOK
      /\ task[r] # None /\ task[r].at = "lookup" /\ task[r] \in TaskState
      /\ UNCHANGED <<link, gameIds, shown, crossed, overtaken>>
  BY TaskTypes DEF IInv, EnterRoom, Running
<1>2. [task[r] EXCEPT !.at = "entered"] = in
  BY <1>1 DEF TaskState, Task
<1>3. in \in TaskState /\ None \in TaskState /\ in # None /\ in.at = "entered" /\ in.game = g
  BY <1>1, NewTasks, SomeTask
<1>4. \/ /\ Set(r, in)
         /\ room' = IF link[s] = "on" THEN [room EXCEPT ![g] = @ \cup {s}] ELSE room
      \/ Set(r, None) /\ room' = room
  BY <1>2 DEF EnterRoom
<1>5. \A h \in RoomGames : ~TaskOwes(task[r], h)
  BY <1>1 DEF TaskOwes
<1>6. CASE Set(r, None) /\ room' = room
  BY <1>1, <1>3, <1>5, <1>6, NotTheirRoom DEF PInv
<1>7. CASE /\ Set(r, in)
           /\ room' = IF link[s] = "on" THEN [room EXCEPT ![g] = @ \cup {s}] ELSE room
  <2>1. ASSUME NEW h \in RoomGames, h # g, ToldOrOwed(h) PROVE ToldOrOwed(h)'
    <3>1. room'[h] = room[h]
      BY <1>1, <1>7, <2>1 DEF PresenceTypeOK
    <3> QED
      BY <1>1, <1>3, <1>5, <1>7, <2>1, <3>1, NotTheirRoom
  <2>2. ToldOrOwed(g)'
    BY <1>1, <1>3, <1>7, TheirRoom
  <2> QED
    BY <1>1, <2>1, <2>2 DEF PInv
<1> QED
  BY <1>4, <1>6, <1>7

\* Counting and forgetting a game end in the broadcast of its room.
LEMMA CountedTold ==
  ASSUME IInv, PInv, NEW r \in Req, CountRoom(r) \/ ForgetRoom(r)
  PROVE  PInv'
<1> PICK s : s = task[r].socket
  OBVIOUS
<1> PICK g : g = task[r].game
  OBVIOUS
<1> PICK t : t = Announce(s, g, {}, FALSE)
  OBVIOUS
<1>1. /\ s \in Sockets /\ g \in RoomGames /\ PresenceTypeOK
      /\ task[r] # None /\ task[r].at \in {"entered", "left"}
      /\ UNCHANGED <<link, room, shown, crossed, overtaken>> /\ Set(r, t)
  BY TaskTypes DEF IInv, CountRoom, ForgetRoom, Running
<1>2. t \in TaskState /\ t.at = "emit" /\ t.game = g /\ t # None
  <2>1. t.at = "emit" /\ t.game = g
    BY DEF Announce
  <2>2. t \in TaskState /\ t # None
    BY <1>1, NewTasks, SomeTask
  <2> QED
    BY <2>1, <2>2
<1>3. ASSUME NEW h \in RoomGames, h # g, NEW u \in Sockets, h \in gameIds[u]
      PROVE  h \in gameIds'[u]
  <2>1. \/ gameIds' = [gameIds EXCEPT ![s] = @ \cup {g}]
        \/ gameIds' = [gameIds EXCEPT ![s] = Uncounted(s, g)]
    BY DEF CountRoom, ForgetRoom
  <2> QED
    BY <1>1, <1>3, <2>1 DEF Uncounted, PresenceTypeOK
<1>4. ASSUME NEW h \in RoomGames, h # g, ToldOrOwed(h) PROVE ToldOrOwed(h)'
  <2>1. ~TaskOwes(task[r], h)
    BY <1>1, <1>4 DEF TaskOwes
  <2> QED
    BY <1>1, <1>2, <1>3, <1>4, <2>1, NotTheirRoom
<1>5. ToldOrOwed(g)'
  BY <1>1, <1>2, TheirRoom
<1> QED
  BY <1>1, <1>4, <1>5 DEF PInv

LEMMA LeaveRoomTold ==
  ASSUME IInv, PInv, NEW r \in Req, NEW s \in Sockets, NEW g \in RoomGames, LeaveRoom(r, s, g)
  PROVE  PInv'
<1> PICK t : t = [at |-> "left", socket |-> s, game |-> g]
  OBVIOUS
<1>1. /\ Set(r, t) /\ task[r] = None /\ (~crossed' => ~crossed)
      /\ room' = [room EXCEPT ![g] = @ \ {s}]
      /\ UNCHANGED <<link, gameIds, shown, overtaken>>
      /\ t \in TaskState /\ PresenceTypeOK
  BY NewTasks DEF LeaveRoom, IInv
<1>2. t.at = "left" /\ t.game = g /\ t # None
  BY SomeTask
<1>3. ASSUME NEW h \in RoomGames, h # g, ToldOrOwed(h) PROVE ToldOrOwed(h)'
  <2>1. ~TaskOwes(task[r], h) /\ room'[h] = room[h]
    BY <1>1, <1>3 DEF TaskOwes, PresenceTypeOK
  <2> QED
    BY <1>1, <1>3, <2>1, NotTheirRoom
<1>4. ToldOrOwed(g)'
  BY <1>1, <1>2, TheirRoom
<1> QED
  BY <1>1, <1>3, <1>4 DEF PInv

\* A room that loses the socket is one it counts, or one it was just entering.
LEMMA DisconnectTold ==
  ASSUME IInv, PInv, NEW r \in Req, NEW s \in Sockets, Disconnect(r, s)
  PROVE  PInv'
<1> PICK t : t = [at |-> "closing", socket |-> s, told |-> {}]
  OBVIOUS
<1>1. /\ PresenceTypeOK /\ task[r] = None /\ link[s] = "on"
      /\ UNCHANGED <<gameIds, crossed, overtaken>> /\ Set(r, t)
      /\ room' = [g \in RoomGames |-> room[g] \ {s}]
      /\ shown' = [shown EXCEPT ![s] = [g \in RoomGames |-> None]]
  BY DEF IInv, Disconnect
<1>2. t \in TaskState /\ t.at = "closing" /\ t.socket = s /\ t.told = {}
  BY DEF TaskState, Task
<1>3. task'[r] = t /\ \A q \in Req \ {r} : task'[q] = task[q]
  BY <1>1 DEF Set, PresenceTypeOK
<1> SUFFICES ASSUME ~crossed, ~overtaken, NEW h \in RoomGames PROVE ToldOrOwed(h)'
  BY <1>1 DEF PInv
<1>4. ToldOrOwed(h) /\ InStep(s, h)
  BY <1>1 DEF PInv, IInv, OthersInStep
<1>5. CASE s \notin room[h]
  <2>1. room'[h] = room[h] /\ \A u \in room[h] : shown'[u][h] = shown[u][h]
    BY <1>1, <1>5 DEF PresenceTypeOK
  <2>2. ~TaskOwes(task[r], h)
    BY <1>1 DEF TaskOwes
  <2> QED
    BY <1>1, <1>2, <1>4, <2>1, <2>2, NotTheirRoom
<1>6. CASE s \in room[h] /\ h \in gameIds[s]
  <2>1. t # None
    BY SomeTask
  <2>2. TaskOwes(t, h)'
    BY <1>1, <1>2, <1>6, <2>1 DEF TaskOwes, ToTell
  <2> QED
    BY <1>3, <2>2 DEF ToldOrOwed
<1>7. CASE Crosses(s, h, {"entered"})
  <2>1. PICK q \in Req : task[q] # None /\ task[q].at = "entered" /\ task[q].game = h
    BY <1>7 DEF Crosses
  <2>2. TaskOwes(task[q], h)'
    BY <1>1, <1>3, <2>1 DEF TaskOwes
  <2> QED
    BY <2>2 DEF ToldOrOwed
<1> QED
  BY <1>4, <1>5, <1>6, <1>7 DEF InStep

\* The games of a socket that is gone are told one after the other.
LEMMA TellNextTold == ASSUME IInv, PInv, NEW r \in Req, TellNext(r) PROVE PInv'
<1> PICK s : s = task[r].socket
  OBVIOUS
<1> PICK told : told = task[r].told
  OBVIOUS
<1>1. /\ s \in Sockets /\ PresenceTypeOK /\ told \in SUBSET RoomGames
      /\ task[r] # None /\ task[r].at = "closing"
      /\ UNCHANGED <<link, gameIds, room, shown, crossed, overtaken>>
  BY TaskTypes DEF IInv, TellNext, Running
<1>2. \A h \in RoomGames : TaskOwes(task[r], h) <=> h \in ToTell(s, told)
  BY <1>1 DEF TaskOwes
<1>3. CASE ToTell(s, told) = {}
  <2>1. Set(r, None) /\ None \in TaskState
    BY <1>3 DEF TellNext, TaskState, Task
  <2> QED
    BY <1>1, <1>2, <1>3, <2>1, NotTheirRoom DEF PInv
<1>4. CASE ToTell(s, told) # {}
  <2>1. PICK g \in ToTell(s, told) : Set(r, Announce(s, g, told \cup {g}, TRUE))
    BY <1>4 DEF TellNext
  <2> PICK t : t = Announce(s, g, told \cup {g}, TRUE)
    OBVIOUS
  <2>2. g \in RoomGames /\ t \in TaskState
    BY <1>1, NewTasks DEF ToTell, PresenceTypeOK
  <2>3. /\ t.at = "emit" /\ t.game = g /\ t.socket = s /\ t.told = told \cup {g} /\ t.closing
    BY DEF Announce
  <2>4. t # None
    BY <1>1, <2>2, SomeTask
  <2>5. ASSUME NEW h \in RoomGames, TaskOwes(task[r], h) PROVE TaskOwes(t, h)
    BY <1>2, <2>3, <2>4, <2>5 DEF TaskOwes, ToTell
  <2> QED
    BY <1>1, <2>1, <2>2, <2>5, NotTheirRoom DEF PInv
<1> QED
  BY <1>3, <1>4

\* A broadcast that has not been overtaken settles its room.
LEMMA EmitPresenceTold == ASSUME IInv, PInv, NEW r \in Req, EmitPresence(r) PROVE PInv'
<1> PICK s : s = task[r].socket
  OBVIOUS
<1> PICK g : g = task[r].game
  OBVIOUS
<1> PICK told : told = task[r].told
  OBVIOUS
<1> PICK users : users = task[r].users
  OBVIOUS
<1> PICK t : t = IF task[r].closing THEN [at |-> "closing", socket |-> s, told |-> told] ELSE None
  OBVIOUS
<1>1. /\ s \in Sockets /\ g \in RoomGames /\ PresenceTypeOK
      /\ told \in SUBSET RoomGames /\ users \in SUBSET Users
      /\ task[r] # None /\ task[r].at = "emit"
  BY TaskTypes DEF IInv, EmitPresence, Running
<1>2. /\ UNCHANGED <<link, gameIds, room, crossed>> /\ Set(r, t)
      /\ shown' = [u \in Sockets |->
           IF u \in room[g] THEN [shown[u] EXCEPT ![g] = users] ELSE shown[u]]
      /\ overtaken' = (overtaken \/ users # RoomUsers(g))
  BY DEF EmitPresence
<1>3. t \in TaskState
  BY <1>1, NewTasks
<1> SUFFICES ASSUME ~crossed, ~overtaken', NEW h \in RoomGames PROVE ToldOrOwed(h)'
  BY <1>2 DEF PInv
<1>4. ToldOrOwed(h) /\ users = RoomUsers(g)
  BY <1>2 DEF PInv
<1>5. CASE h = g
  <2>1. ASSUME NEW u \in room'[g] PROVE shown'[u][g] = RoomUsers(g)'
    <3>1. u \in Sockets /\ u \in room[g] /\ shown[u] \in [RoomGames -> (SUBSET Users) \cup {None}]
      BY <1>1, <1>2, <2>1 DEF PresenceTypeOK
    <3>2. shown'[u][g] = users
      BY <1>1, <1>2, <3>1
    <3> QED
      BY <1>2, <1>4, <3>2 DEF RoomUsers
  <2> QED
    BY <1>5, <2>1 DEF ToldOrOwed, Settled
<1>6. CASE h # g
  <2>1. ASSUME NEW u \in room[h] PROVE shown'[u][h] = shown[u][h]
    BY <1>1, <1>2, <1>6 DEF PresenceTypeOK
  <2>2. ASSUME TaskOwes(task[r], h) PROVE TaskOwes(t, h)
    <3>1. task[r].closing /\ h \in ToTell(s, told)
      BY <1>1, <1>6, <2>2 DEF TaskOwes
    <3>2. t = [at |-> "closing", socket |-> s, told |-> told]
      BY <3>1
    <3>3. t # None
      BY <1>1, <3>2, SomeTask
    <3> QED
      BY <3>1, <3>2, <3>3 DEF TaskOwes
  <2> QED
    BY <1>1, <1>2, <1>3, <1>4, <2>1, <2>2, NotTheirRoom
<1> QED
  BY <1>5, <1>6

LEMMA NextTold == IInv /\ PInv /\ [PresenceNext]_presenceVars => PInv'
<1> SUFFICES ASSUME IInv, PInv, [PresenceNext]_presenceVars PROVE PInv'
  OBVIOUS
<1>1. CASE UNCHANGED presenceVars
  BY <1>1 DEF presenceVars, PInv, ToldOrOwed, Settled, RoomUsers, TaskOwes, ToTell
<1>2. ASSUME NEW s \in Sockets, Connect(s) PROVE PInv'
  BY <1>2, ConnectTold
<1>3. ASSUME NEW r \in Req, NEW s \in Sockets, Disconnect(r, s) PROVE PInv'
  BY <1>3, DisconnectTold
<1>4. ASSUME NEW r \in Req, NEW s \in Sockets, NEW g \in RoomGames,
             JoinRoom(r, s, g) \/ LeaveRoom(r, s, g)
      PROVE  PInv'
  BY <1>4, JoinRoomTold, LeaveRoomTold
<1>5. ASSUME NEW r \in Req,
             \/ EnterRoom(r) \/ CountRoom(r) \/ ForgetRoom(r) \/ TellNext(r) \/ EmitPresence(r)
      PROVE  PInv'
  BY <1>5, EnterRoomTold, CountedTold, TellNextTold, EmitPresenceTold
<1> QED
  BY <1>1, <1>2, <1>3, <1>4, <1>5 DEF PresenceNext

\* Whoever is in a room when all handlers have finished shows exactly who is
\* in it, unless a broadcast was overtaken or a leave has run into a join.
THEOREM PresenceRight == PresenceSpec => []PresenceIsRight
<1>1. PresenceInit => PInv
  BY DEF PresenceInit, PInv, ToldOrOwed, Settled
<1>2. PInv => PresenceIsRight
  BY DEF PInv, PresenceIsRight, ToldOrOwed, Settled, TaskOwes
<1> QED
  BY <1>1, <1>2, PresenceInvariance, NextTold, PTL DEF PresenceSpec
===============================================================================
