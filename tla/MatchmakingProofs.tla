--------------------------- MODULE MatchmakingProofs ---------------------------
(***************************************************************************)
(* Theorems about Matchmaking: for any players, pools, ratings and windows *)
(* and any number of overlapping handlers, expiries and crashes.           *)
(***************************************************************************)
EXTENDS Matchmaking, SequenceTheorems, TLAPS

LEMMA NoneTypes == None \notin Players /\ None \notin Pools /\ None \notin Nat
BY BoundAssumption

LEMMA GapType == \A u, v \in Players : Gap(u, v) \in Nat /\ Gap(u, v) = Gap(v, u)
BY RatingAssumption DEF Gap

\* Where a handler stands tells what it carries.
LEMMA HandlerParts ==
  ASSUME NEW h \in Handler
  PROVE  /\ h.at = "switch" => h.by \in Players /\ h.pool \in Pools
         /\ h.at = "claim" => h.by \in Players /\ h.pool \in Pools /\ h.rescan \in BOOLEAN
         /\ h.at \in {"busy", "create", "tellCaller", "tellOpponent"} =>
              /\ h.pair \in Pair
              /\ h.pair[1] \in Players /\ h.pair[2] \in Players /\ h.pair[1] # h.pair[2]
         /\ h.at \in {"drain", "entry"} => h.by \in Players
         /\ h.at \in {"leave", "zrem", "del"} => h.users \in Leavers /\ h.then \in Onward
         /\ h.at = "zrem" => h.pool \in Pools
BY DEF Handler, Idle, Pair

LEMMA HandlerGame ==
  ASSUME NEW h \in Handler, h.at \in {"tellCaller", "tellOpponent"}
  PROVE  /\ h.game \in Nat
         /\ h = [at |-> h.at, pair |-> h.pair, game |-> h.game]
BY DEF Handler, Idle

LEMMA OnwardIsHandler == Onward \subseteq Handler
BY DEF Onward, Handler

LEMMA OnwardParts ==
  ASSUME NEW x \in Onward
  PROVE  /\ x.at \in {"idle", "claim"}
         /\ x.at = "claim" => x.by \in Players /\ x.pool \in Pools
<1>1. CASE x = Idle
  BY <1>1 DEF Idle
<1>2. CASE x \in [at : {"claim"}, by : Players, pool : Pools, rescan : {FALSE}]
  <2>1. x.at \in {"claim"} /\ x.by \in Players /\ x.pool \in Pools
    BY <1>2, Zenon
  <2> QED
    BY <2>1
<1> QED
  BY <1>1, <1>2 DEF Onward

LEMMA LeaversFacts ==
  ASSUME NEW s \in Leavers
  PROVE  /\ Head(s) \in Players
         /\ Len(s) # 1 => Tail(s) \in Leavers
<1>1. s \in Seq(Players) /\ Len(s) \in 1..2
  BY DEF Leavers
<1>2. s # << >>
  BY <1>1
<1>3. Head(s) \in Players /\ Tail(s) \in Seq(Players) /\ Len(Tail(s)) = Len(s) - 1
  BY <1>1, <1>2, HeadTailProperties
<1> QED
  BY <1>1, <1>3 DEF Leavers

LEMMA NewLeavers ==
  \A u, v \in Players : <<u>> \in Leavers /\ <<u, v>> \in Leavers
<1> SUFFICES ASSUME NEW u \in Players, NEW v \in Players
             PROVE  <<u>> \in Leavers /\ <<u, v>> \in Leavers
  OBVIOUS
<1>1. <<u>> \in Seq(Players) /\ Len(<<u>>) = 1
  OBVIOUS
<1>2. <<u, v>> \in Seq(Players) /\ Len(<<u, v>>) = 2
  OBVIOUS
<1> QED
  BY <1>1, <1>2 DEF Leavers

LEMMA AfterOneType ==
  ASSUME NEW h \in Handler, h.at \in {"leave", "del"}
  PROVE  AfterOne(h) \in Handler
<1>1. h.users \in Leavers /\ h.then \in Onward
  BY HandlerParts
<1>2. CASE Len(h.users) = 1
  BY <1>1, <1>2, OnwardIsHandler DEF AfterOne
<1>3. CASE Len(h.users) # 1
  <2>1. Tail(h.users) \in Leavers
    BY <1>1, <1>3, LeaversFacts
  <2>2. [at |-> "leave", users |-> Tail(h.users), then |-> h.then] \in Handler
    BY <1>1, <2>1 DEF Handler
  <2> QED
    BY <1>3, <2>2 DEF AfterOne
<1> QED
  BY <1>2, <1>3

\* Changing one slot to a handler keeps the slots typed.
LEMMA SlotType ==
  ASSUME NEW r \in Req, NEW h \in Handler, req \in [Req -> Handler], Become(r, h)
  PROVE  req' \in [Req -> Handler]
BY DEF Become

LEMMA TypeInit == Init => TypeOK
<1>1. Idle \in Handler
  BY DEF Handler
<1> QED
  BY <1>1 DEF Init, TypeOK

LEMMA RequestType ==
  ASSUME TypeOK, NEW r \in Req, Request(r)
  PROVE  TypeOK'
<1> USE DEF TypeOK
<1>0. Idle \in Handler
  BY DEF Handler
<1> PICK u \in Players : \/ \E p \in Pools : Join(r, u, p)
                         \/ Status(r, u)
                         \/ Leave(r, u)
                         \/ \E v \in Players : Accept(r, u, v)
  BY DEF Request
<1>1. ASSUME NEW p \in Pools, Join(r, u, p)
      PROVE  TypeOK'
  <2>1. [at |-> "switch", by |-> u, pool |-> p] \in Handler
    BY DEF Handler
  <2>2. req' \in [Req -> Handler]
    BY <1>0, <1>1, <2>1, SlotType DEF Join
  <2> QED
    BY <1>1, <2>2 DEF Join, redis
<1>2. CASE Status(r, u)
  <2>1. [at |-> IF mailbox[u] # None THEN "drain" ELSE "entry", by |-> u] \in Handler
    BY DEF Handler
  <2>2. req' \in [Req -> Handler]
    BY <1>2, <2>1, SlotType DEF Status
  <2> QED
    BY <1>2, <2>2 DEF Status, redis
<1>3. CASE Leave(r, u)
  <2>1. [at |-> "leave", users |-> <<u>>, then |-> Idle] \in Handler
    BY NewLeavers DEF Handler, Onward
  <2>2. req' \in [Req -> Handler]
    BY <1>3, <2>1, SlotType DEF Leave
  <2> QED
    BY <1>3, <2>2 DEF Leave, redis
<1>4. ASSUME NEW v \in Players, Accept(r, u, v)
      PROVE  TypeOK'
  <2>1. [at |-> "leave", users |-> <<v, u>>, then |-> Idle] \in Handler
    BY NewLeavers DEF Handler, Onward
  <2>2. req' \in [Req -> Handler]
    BY <1>4, <2>1, SlotType DEF Accept, Dequeued
  <2>3. [players |-> {u, v}, matched |-> FALSE, active |-> TRUE] \in Game
    <3>1. <<u, v>> \in Pair
      BY <1>4 DEF Accept, Pair
    <3>2. {u, v} = {<<u, v>>[1], <<u, v>>[2]}
      OBVIOUS
    <3> QED
      BY <3>1, <3>2 DEF Game
  <2>4. games' \in Seq(Game)
    BY <1>4, <2>3 DEF Accept
  <2> QED
    BY <1>4, <2>2, <2>4 DEF Accept, redis
<1> QED
  BY <1>1, <1>2, <1>3, <1>4

LEMMA ClaimType ==
  ASSUME TypeOK, NEW r \in Req, Claim(r)
  PROVE  TypeOK'
<1> USE DEF TypeOK
<1>0. Idle \in Handler
  BY DEF Handler
<1> DEFINE u == req[r].by
           p == req[r].pool
<1>1. u \in Players /\ p \in Pools /\ req[r].rescan \in BOOLEAN
  BY HandlerParts DEF Claim
<1>2. CASE AlreadyClaimed(u, req[r].rescan)
  <2>1. req' \in [Req -> Handler]
    BY <1>0, <1>2, SlotType DEF Claim
  <2> QED
    BY <1>2, <2>1 DEF Claim
<1>3. CASE ~AlreadyClaimed(u, req[r].rescan)
  <2> PICK w : LET seen == InWindow(u, p, w)
               IN  IF Live(seen) # {}
                   THEN \E v \in Best(u, Live(seen)) : ClaimOpponent(r, u, p, seen, v)
                   ELSE Enqueue(r, u, p, seen)
    BY <1>3 DEF Claim
  <2> DEFINE seen == InWindow(u, p, w)
  <2>0. UNCHANGED <<mailbox, games, joins>>
    BY DEF Claim
  <2>1. ASSUME NEW v \in Best(u, Live(seen)), ClaimOpponent(r, u, p, seen, v)
        PROVE  TypeOK'
    <3>1. v \in Players /\ v # u
      BY <1>1, <2>1 DEF Best, Live, InWindow
    <3>2. [at |-> "busy", pair |-> <<u, v>>] \in Handler
      BY <1>1, <3>1 DEF Handler, Pair
    <3>3. req' \in [Req -> Handler]
      BY <2>1, <3>2, SlotType DEF ClaimOpponent
    <3>4. entry' \in [Players -> Pools \cup {None}]
      BY <2>1 DEF ClaimOpponent
    <3>5. zset' \in [Pools -> SUBSET Players]
      BY <1>1, <2>1, <3>1 DEF ClaimOpponent
    <3>6. due' \in [Players -> Int]
      BY <2>1 DEF ClaimOpponent
    <3> QED
      BY <2>0, <3>3, <3>4, <3>5, <3>6
  <2>2. ASSUME Enqueue(r, u, p, seen)
        PROVE  TypeOK'
    <3>1. req' \in [Req -> Handler]
      BY <1>0, <2>2, SlotType DEF Enqueue
    <3>2. entry' \in [Players -> Pools \cup {None}]
      BY <1>1, <2>2 DEF Enqueue
    <3>3. zset' \in [Pools -> SUBSET Players]
      BY <1>1, <2>2 DEF Enqueue
    <3>4. due' \in [Players -> Int]
      BY <1>1, <2>2 DEF Enqueue
    <3> QED
      BY <2>0, <3>1, <3>2, <3>3, <3>4
  <2> QED
    BY <2>1, <2>2
<1> QED
  BY <1>2, <1>3

LEMMA HandleType ==
  ASSUME TypeOK, NEW r \in Req, Handle(r)
  PROVE  TypeOK'
<1> USE DEF TypeOK
<1>0. Idle \in Handler
  BY DEF Handler
<1>1. CASE Switch(r)
  <2> DEFINE next == [at |-> "claim", by |-> req[r].by, pool |-> req[r].pool, rescan |-> FALSE]
  <2>1. req[r].by \in Players /\ req[r].pool \in Pools
    BY <1>1, HandlerParts DEF Switch
  <2>2. next \in Handler /\ next \in Onward
    BY <2>1 DEF Handler, Onward
  <2>3. [at |-> "leave", users |-> <<req[r].by>>, then |-> next] \in Handler
    BY <2>1, <2>2, NewLeavers DEF Handler
  <2> HIDE DEF next
  <2>4. req' \in [Req -> Handler]
    BY <1>1, <2>2, <2>3, SlotType DEF Switch, next
  <2> QED
    BY <1>1, <2>4 DEF Switch, redis
<1>2. CASE Claim(r)
  BY <1>2, ClaimType
<1>3. CASE Busy(r)
  <2>1. [at |-> "create", pair |-> req[r].pair] \in Handler
    BY <1>3, HandlerParts DEF Busy, Handler
  <2>2. req' \in [Req -> Handler]
    BY <1>0, <1>3, <2>1, SlotType DEF Busy
  <2> QED
    BY <1>3, <2>2 DEF Busy, redis
<1>4. CASE CreateGame(r)
  <2> DEFINE pair == req[r].pair
  <2>1. pair \in Pair
    BY <1>4, HandlerParts DEF CreateGame
  <2>2. [players |-> {pair[1], pair[2]}, matched |-> TRUE, active |-> TRUE] \in Game
    BY <2>1 DEF Game
  <2>3. games' \in Seq(Game) /\ Len(games') \in Nat
    BY <1>4, <2>2 DEF CreateGame
  <2>4. [at |-> "tellCaller", pair |-> pair, game |-> Len(games')] \in Handler
    BY <2>1, <2>3 DEF Handler
  <2>5. req' \in [Req -> Handler]
    BY <1>4, <2>4, SlotType DEF CreateGame
  <2> QED
    BY <1>4, <2>3, <2>5 DEF CreateGame, redis
<1>5. CASE CreateFails(r)
  BY <1>0, <1>5, SlotType DEF CreateFails, redis
<1>6. CASE TellCaller(r)
  <2>1. req[r].game \in Nat /\ req[r].pair \in Pair
    BY <1>6, HandlerGame, HandlerParts DEF TellCaller
  <2>2. [req[r] EXCEPT !.at = "tellOpponent"]
        = [at |-> "tellOpponent", pair |-> req[r].pair, game |-> req[r].game]
    BY <1>6, HandlerGame DEF TellCaller
  <2>3. [req[r] EXCEPT !.at = "tellOpponent"] \in Handler
    BY <2>1, <2>2 DEF Handler
  <2>4. req' \in [Req -> Handler]
    BY <1>6, <2>3, SlotType DEF TellCaller
  <2>5. mailbox' \in [Players -> Nat \cup {None}]
    BY <1>6, <2>1 DEF TellCaller
  <2> QED
    BY <1>6, <2>4, <2>5 DEF TellCaller
<1>7. CASE TellOpponent(r)
  <2>1. req[r].game \in Nat
    BY <1>7, HandlerGame DEF TellOpponent
  <2>2. req' \in [Req -> Handler]
    BY <1>0, <1>7, SlotType DEF TellOpponent
  <2>3. mailbox' \in [Players -> Nat \cup {None}]
    BY <1>7, <2>1 DEF TellOpponent
  <2> QED
    BY <1>7, <2>2, <2>3 DEF TellOpponent
<1>8. CASE Drain(r)
  <2>1. req' \in [Req -> Handler]
    BY <1>0, <1>8, SlotType DEF Drain
  <2> QED
    BY <1>8, <2>1 DEF Drain
<1>9. CASE ReadEntry(r)
  <2> DEFINE u == req[r].by
  <2>1. u \in Players
    BY <1>9, HandlerParts DEF ReadEntry
  <2>2. entry[u] # None =>
          [at |-> "claim", by |-> u, pool |-> entry[u], rescan |-> TRUE] \in Handler
    BY <2>1 DEF Handler
  <2>3. req' \in [Req -> Handler]
    BY <1>0, <1>9, <2>2, SlotType DEF ReadEntry
  <2> QED
    BY <1>9, <2>3 DEF ReadEntry, redis
<1>10. CASE LeaveRead(r)
  <2> DEFINE h == req[r]
  <2>1. h.users \in Leavers /\ h.then \in Onward /\ Head(h.users) \in Players
    BY <1>10, HandlerParts, LeaversFacts DEF LeaveRead
  <2>2. entry[Head(h.users)] # None =>
          [at |-> "zrem", users |-> h.users, pool |-> entry[Head(h.users)], then |-> h.then]
            \in Handler
    BY <2>1 DEF Handler
  <2>3. AfterOne(h) \in Handler
    BY <1>10, AfterOneType DEF LeaveRead
  <2>4. req' \in [Req -> Handler]
    BY <1>10, <2>2, <2>3, SlotType DEF LeaveRead
  <2> QED
    BY <1>10, <2>4 DEF LeaveRead, redis
<1>11. CASE LeaveZrem(r)
  <2> DEFINE h == req[r]
  <2>1. h.users \in Leavers /\ h.then \in Onward /\ h.pool \in Pools
    BY <1>11, HandlerParts DEF LeaveZrem
  <2>2. [at |-> "del", users |-> h.users, then |-> h.then] \in Handler
    BY <2>1 DEF Handler
  <2>3. req' \in [Req -> Handler]
    BY <1>11, <2>2, SlotType DEF LeaveZrem
  <2>4. zset' \in [Pools -> SUBSET Players]
    BY <1>11, <2>1 DEF LeaveZrem
  <2> QED
    BY <1>11, <2>3, <2>4 DEF LeaveZrem
<1>12. CASE LeaveDel(r)
  <2>1. req' \in [Req -> Handler]
    BY <1>12, AfterOneType, SlotType DEF LeaveDel
  <2>2. entry' \in [Players -> Pools \cup {None}]
    BY <1>12 DEF LeaveDel
  <2> QED
    BY <1>12, <2>1, <2>2 DEF LeaveDel
<1> QED
  BY <1>1, <1>2, <1>3, <1>4, <1>5, <1>6, <1>7, <1>8, <1>9, <1>10, <1>11, <1>12 DEF Handle

LEMMA TypeNext == ASSUME TypeOK, [Next]_vars PROVE TypeOK'
<1> USE DEF TypeOK
<1>1. ASSUME NEW g \in DOMAIN games, EndGame(g)
      PROVE  TypeOK'
  <2>1. games[g] \in Game
    OBVIOUS
  <2>2. [games[g] EXCEPT !.active = FALSE] \in Game
    BY <2>1 DEF Game
  <2>3. games' \in Seq(Game)
    BY <1>1, <2>2 DEF EndGame
  <2> QED
    BY <1>1, <2>3 DEF EndGame, redis
<1>2. ASSUME NEW u \in Players, ExpireEntry(u) \/ ExpireMailbox(u)
      PROVE  TypeOK'
  BY <1>2 DEF ExpireEntry, ExpireMailbox
<1>3. CASE Restart
  BY <1>3 DEF Restart, Handler, redis
<1>4. CASE UNCHANGED vars
  BY <1>4 DEF vars, redis
<1> QED
  BY <1>1, <1>2, <1>3, <1>4, RequestType, HandleType DEF Next

\* Every variable keeps its type: no handler loses what it carries from one
\* await to the next, and no pairing is of a player with themselves.
THEOREM TypeCorrect == Spec => []TypeOK
  BY TypeInit, TypeNext, PTL DEF Spec

-----------------------------------------------------------------------------
(* Only the script, a leave and an expiry change an entry.                 *)

\* What a step other than the script does to the queue.
LEMMA QueueFrame ==
  ASSUME TypeOK, [Next]_vars, \A r \in Req : ~ Claim(r)
  PROVE  /\ due' = due
         /\ \A u \in Players : entry'[u] \in {entry[u], None}
         /\ \A p \in Pools : zset'[p] \subseteq zset[p]
<1> USE DEF TypeOK
<1>1. ASSUME NEW r \in Req, Request(r)
      PROVE  UNCHANGED <<zset, entry, due>>
  BY <1>1 DEF Request, Join, Status, Leave, Accept, redis
<1>2. ASSUME NEW r \in Req, Handle(r), ~ LeaveZrem(r), ~ LeaveDel(r)
      PROVE  UNCHANGED <<zset, entry, due>>
  BY <1>2 DEF Handle, Switch, Busy, CreateGame, CreateFails, TellCaller, TellOpponent,
              Drain, ReadEntry, LeaveRead, redis
<1>3. ASSUME NEW r \in Req, LeaveZrem(r)
      PROVE  /\ UNCHANGED <<entry, due>>
             /\ \A p \in Pools : zset'[p] \subseteq zset[p]
  BY <1>3 DEF LeaveZrem
<1>4. ASSUME NEW r \in Req, LeaveDel(r)
      PROVE  /\ UNCHANGED <<zset, due>>
             /\ \A u \in Players : entry'[u] \in {entry[u], None}
  BY <1>4 DEF LeaveDel
<1>5. ASSUME NEW u \in Players, ExpireEntry(u)
      PROVE  /\ UNCHANGED <<zset, due>>
             /\ \A v \in Players : entry'[v] \in {entry[v], None}
  BY <1>5 DEF ExpireEntry
<1>6. ASSUME NEW u \in Players, ExpireMailbox(u)
      PROVE  UNCHANGED <<zset, entry, due>>
  BY <1>6 DEF ExpireMailbox
<1>7. ASSUME NEW g \in DOMAIN games, EndGame(g)
      PROVE  UNCHANGED <<zset, entry, due>>
  BY <1>7 DEF EndGame, redis
<1>8. CASE Restart \/ UNCHANGED vars
  BY <1>8 DEF Restart, vars, redis
<1> QED
  BY <1>1, <1>2, <1>3, <1>4, <1>5, <1>6, <1>7, <1>8 DEF Next

\* What the script does: nothing, a claim, or an entry.
LEMMA ClaimCases ==
  ASSUME TypeOK, NEW r \in Req, Claim(r)
  PROVE  LET u == req[r].by
             p == req[r].pool
         IN  /\ u \in Players /\ p \in Pools /\ req[r].rescan \in BOOLEAN
             /\ \/ UNCHANGED <<zset, entry, due>>
                \/ /\ ~ AlreadyClaimed(u, req[r].rescan)
                   /\ \E w \in Nat :
                        /\ w >= BaseWindow
                        /\ LET seen == InWindow(u, p, w) IN
                             \/ \E v \in Live(seen) : ClaimOpponent(r, u, p, seen, v)
                             \/ Live(seen) = {} /\ Enqueue(r, u, p, seen)
<1> DEFINE u == req[r].by
           p == req[r].pool
<1>1. u \in Players /\ p \in Pools /\ req[r].rescan \in BOOLEAN
  BY HandlerParts DEF Claim, TypeOK
<1>2. CASE AlreadyClaimed(u, req[r].rescan)
  BY <1>1, <1>2 DEF Claim
<1>3. CASE ~ AlreadyClaimed(u, req[r].rescan)
  <2>1. PICK w \in IF req[r].rescan THEN Windows ELSE {BaseWindow} :
          LET seen == InWindow(u, p, w)
          IN  IF Live(seen) # {}
              THEN \E v \in Best(u, Live(seen)) : ClaimOpponent(r, u, p, seen, v)
              ELSE Enqueue(r, u, p, seen)
    BY <1>3 DEF Claim
  <2>2. w \in Nat /\ w >= BaseWindow
    BY RatingAssumption
  <2>3. Best(u, Live(InWindow(u, p, w))) \subseteq Live(InWindow(u, p, w))
    BY DEF Best
  <2> QED
    BY <1>1, <1>3, <2>1, <2>2, <2>3
<1> QED
  BY <1>2, <1>3

-----------------------------------------------------------------------------
(* Pairings and joins.                                                     *)

LEMMA PairedStep ==
  ASSUME TypeOK, PairedOncePerJoin, [Next]_vars
  PROVE  PairedOncePerJoin'
<1> USE DEF TypeOK
<1>1. CASE \A r \in Req : ~ Claim(r)
  BY <1>1, QueueFrame, NoneTypes DEF PairedOncePerJoin
<1>2. ASSUME NEW r \in Req, Claim(r)
      PROVE  PairedOncePerJoin'
  <2> DEFINE u == req[r].by
             p == req[r].pool
  <2>1. u \in Players /\ p \in Pools /\ req[r].rescan \in BOOLEAN
    BY <1>2, ClaimCases
  <2>2. CASE UNCHANGED <<zset, entry, due>>
    BY <2>2 DEF PairedOncePerJoin
  <2>3. ASSUME NEW w \in Nat, ~ AlreadyClaimed(u, req[r].rescan),
               NEW v \in Live(InWindow(u, p, w)),
               ClaimOpponent(r, u, p, InWindow(u, p, w), v)
        PROVE  PairedOncePerJoin'
    <3>1. v \in Players /\ v # u /\ entry[v] # None
      BY <2>1 DEF Live, InWindow
    <3>2. due[v] > 0 /\ due'[v] = due[v] - 1 /\ entry'[v] = None
      BY <2>3, <3>1 DEF PairedOncePerJoin, ClaimOpponent, Taken
    <3>3. due'[u] >= 0 /\ entry'[u] = None
      <4>1. CASE req[r].rescan
        BY <2>1, <2>3, <4>1 DEF PairedOncePerJoin, ClaimOpponent, Taken, AlreadyClaimed
      <4>2. CASE ~ req[r].rescan
        BY <2>1, <2>3, <4>2 DEF PairedOncePerJoin, ClaimOpponent, Taken
      <4> QED
        BY <4>1, <4>2
    <3>4. \A x \in Players \ {u, v} : due'[x] = due[x] /\ entry'[x] = entry[x]
      BY <2>3 DEF ClaimOpponent, Taken
    <3> QED
      BY <3>1, <3>2, <3>3, <3>4 DEF PairedOncePerJoin
  <2>4. ASSUME NEW w \in Nat, ~ AlreadyClaimed(u, req[r].rescan),
               Enqueue(r, u, p, InWindow(u, p, w))
        PROVE  PairedOncePerJoin'
    <3>1. due'[u] > 0
      <4>1. CASE req[r].rescan
        BY <2>1, <2>4, <4>1 DEF PairedOncePerJoin, Enqueue, AlreadyClaimed
      <4>2. CASE ~ req[r].rescan
        BY <2>1, <2>4, <4>2 DEF PairedOncePerJoin, Enqueue
      <4> QED
        BY <4>1, <4>2
    <3>2. \A x \in Players \ {u} : due'[x] = due[x] /\ entry'[x] = entry[x]
      BY <2>1, <2>4 DEF Enqueue
    <3>3. due'[u] \in Int
      BY <2>1, <2>4 DEF Enqueue
    <3>4. \A x \in Players : due'[x] >= 0 /\ (entry'[x] # None => due'[x] > 0)
      <4> SUFFICES ASSUME NEW x \in Players
                   PROVE  due'[x] >= 0 /\ (entry'[x] # None => due'[x] > 0)
        OBVIOUS
      <4>1. CASE x = u
        BY <3>1, <3>3, <4>1
      <4>2. CASE x # u
        BY <3>2, <4>2 DEF PairedOncePerJoin
      <4> QED
        BY <4>1, <4>2
    <3> QED
      BY <3>4 DEF PairedOncePerJoin
  <2> QED
    BY <1>2, <2>2, <2>3, <2>4, ClaimCases
<1> QED
  BY <1>1, <1>2

\* No double pairing, whatever overlaps, expires or crashes.
THEOREM PairedAtMostOncePerJoin == Spec => []PairedOncePerJoin
<1>1. Init => PairedOncePerJoin
  BY DEF Init, PairedOncePerJoin
<1> QED
  BY <1>1, PairedStep, TypeCorrect, PTL DEF Spec

-----------------------------------------------------------------------------
(* Two players in reach of each other never both wait.                     *)

LEMMA NoMissedStep ==
  ASSUME TypeOK, NoMissedPair, [Next]_vars
  PROVE  NoMissedPair'
<1> USE DEF TypeOK
<1>1. ASSUME \A p \in Pools : zset'[p] \subseteq zset[p]
      PROVE  NoMissedPair'
  BY <1>1 DEF NoMissedPair, Gap
<1>2. CASE \A r \in Req : ~ Claim(r)
  BY <1>1, <1>2, QueueFrame
<1>3. ASSUME NEW r \in Req, Claim(r)
      PROVE  NoMissedPair'
  <2> DEFINE u == req[r].by
             p == req[r].pool
  <2>1. u \in Players /\ p \in Pools
    BY <1>3, ClaimCases
  <2>2. CASE UNCHANGED <<zset, entry, due>>
    BY <1>1, <2>2
  <2>3. ASSUME NEW w \in Nat, NEW v \in Live(InWindow(u, p, w)),
               ClaimOpponent(r, u, p, InWindow(u, p, w), v)
        PROVE  NoMissedPair'
    BY <1>1, <2>1, <2>3 DEF ClaimOpponent
  <2>4. ASSUME NEW w \in Nat, w >= BaseWindow, Live(InWindow(u, p, w)) = {},
               Enqueue(r, u, p, InWindow(u, p, w))
        PROVE  NoMissedPair'
    <3> DEFINE seen == InWindow(u, p, w)
    <3>1. zset'[p] = (zset[p] \ seen) \cup {u}
      BY <2>1, <2>4 DEF Enqueue
    <3>2. \A q \in Pools \ {p} : zset'[q] = zset[q]
      BY <2>1, <2>4 DEF Enqueue
    <3>3. \A x \in zset'[p] \ {u} : x \in zset[p] /\ Gap(u, x) > BaseWindow
      <4>1. \A x \in zset[p] \ {u} : x \in Players /\ (x \notin seen => ~ (Gap(u, x) <= w))
        BY <2>1 DEF InWindow
      <4> QED
        BY <2>1, <2>4, <3>1, <4>1, GapType, RatingAssumption
    <3>4. \A x, y \in zset'[p] : x # y => Gap(x, y) > BaseWindow
      <4> SUFFICES ASSUME NEW x \in zset'[p], NEW y \in zset'[p], x # y
                   PROVE  Gap(x, y) > BaseWindow
        OBVIOUS
      <4>1. x \in Players /\ y \in Players
        BY <2>1, <3>1
      <4>2. CASE x = u
        BY <3>3, <4>2
      <4>3. CASE y = u
        BY <3>3, <4>1, <4>3, GapType
      <4>4. CASE x # u /\ y # u
        BY <2>1, <3>3, <4>4 DEF NoMissedPair
      <4> QED
        BY <4>2, <4>3, <4>4
    <3> QED
      BY <3>2, <3>4 DEF NoMissedPair, Gap
  <2> QED
    BY <1>3, <2>2, <2>3, <2>4, ClaimCases
<1> QED
  BY <1>2, <1>3

\* The script's promise: two joins in reach of each other never both end up
\* waiting in the same pool.
THEOREM NoPairIsMissed == Spec => []NoMissedPair
<1>1. Init => NoMissedPair
  BY DEF Init, NoMissedPair
<1> QED
  BY <1>1, NoMissedStep, TypeCorrect, PTL DEF Spec

-----------------------------------------------------------------------------
(* Polls only keep entries alive.                                          *)

LEMMA EnqueueStep ==
  ASSUME TypeOK, [Next]_vars
  PROVE  EnqueuedByJoin
<1> USE DEF TypeOK, EnqueuedByJoin
<1>1. CASE \A r \in Req : ~ Claim(r)
  BY <1>1, QueueFrame
<1>2. ASSUME NEW r \in Req, Claim(r), NEW x \in Players, entry[x] = None, entry'[x] # None
      PROVE  req[r].at = "claim" /\ req[r].by = x /\ ~ req[r].rescan
  <2> DEFINE u == req[r].by
             p == req[r].pool
  <2>1. u \in Players /\ p \in Pools /\ req[r].rescan \in BOOLEAN
    BY <1>2, ClaimCases
  <2>2. ASSUME NEW w \in Nat, NEW v \in Live(InWindow(u, p, w)),
               ClaimOpponent(r, u, p, InWindow(u, p, w), v)
        PROVE  entry'[x] = None
    BY <1>2, <2>2 DEF ClaimOpponent
  <2>3. ASSUME NEW w \in Nat, ~ AlreadyClaimed(u, req[r].rescan),
               Enqueue(r, u, p, InWindow(u, p, w))
        PROVE  x = u /\ ~ req[r].rescan
    <3>1. x = u
      BY <1>2, <2>1, <2>3 DEF Enqueue
    <3> QED
      BY <1>2, <2>1, <2>3, <3>1 DEF AlreadyClaimed
  <2>4. req[r].at = "claim"
    BY <1>2 DEF Claim
  <2> QED
    BY <1>2, <2>2, <2>3, <2>4, ClaimCases
<1> QED
  BY <1>1, <1>2

\* Only a join makes an entry; a poll that lost its entry puts nothing back.
THEOREM PollsNeverEnqueue == Spec => OnlyJoinsEnqueue
<1>1. TypeOK /\ [Next]_vars => [EnqueuedByJoin]_vars
  BY EnqueueStep
<1> QED
  BY <1>1, TypeCorrect, PTL DEF Spec, OnlyJoinsEnqueue
-----------------------------------------------------------------------------
(* One handler at a time: what the comments promise.  Rows still end,      *)
(* creations still fail and the process still restarts in between.         *)

OneAtATime == \A r, s \in Req : r = s

\* A pair about to get a game is not playing.
PairsAreFree == \A r \in Req : req[r].at = "create" => ~ SomebodyBusy(req[r].pair)

\* No row is taken away, revived or given to others; a new one comes from a
\* pairing or from an accept.
LEMMA GamesFrame ==
  ASSUME TypeOK, [Next]_vars
  PROVE  \/ games' = games
         \/ \E r \in Req : CreateGame(r)
         \/ \E r \in Req : \E u, v \in Players : Accept(r, u, v)
         \/ \E g \in DOMAIN games : EndGame(g)
<1>1. ASSUME NEW r \in Req, Handle(r)
      PROVE  games' = games \/ CreateGame(r)
  BY <1>1 DEF Handle, Switch, Claim, Busy, CreateFails, TellCaller, TellOpponent, Drain,
              ReadEntry, LeaveRead, LeaveZrem, LeaveDel
<1>2. ASSUME NEW r \in Req, Request(r)
      PROVE  games' = games \/ \E u, v \in Players : Accept(r, u, v)
  BY <1>2 DEF Request, Join, Status, Leave
<1>3. ASSUME NEW u \in Players, ExpireEntry(u) \/ ExpireMailbox(u)
      PROVE  games' = games
  BY <1>3 DEF ExpireEntry, ExpireMailbox
<1>4. CASE Restart \/ UNCHANGED vars
  BY <1>4 DEF Restart, vars
<1> QED
  BY <1>1, <1>2, <1>3, <1>4 DEF Next

\* A row of games at one more than the last is the one appended.
LEMMA Appended ==
  ASSUME TypeOK, NEW x \in Game, games' = Append(games, x)
  PROVE  /\ DOMAIN games' = DOMAIN games \cup {Len(games) + 1}
         /\ \A g \in DOMAIN games : g \in 1..Len(games) /\ games'[g] = games[g]
         /\ games'[Len(games) + 1] = x
  BY DEF TypeOK

LEMMA EndedRows ==
  ASSUME TypeOK, NEW g \in DOMAIN games, EndGame(g)
  PROVE  /\ DOMAIN games' = DOMAIN games
         /\ \A h \in DOMAIN games : /\ games'[h].players = games[h].players
                                    /\ games'[h].matched = games[h].matched
                                    /\ games'[h].active => games[h].active
<1>1. games \in [1..Len(games) -> Game]
  BY DEF TypeOK
<1>2. games' = [games EXCEPT ![g].active = FALSE]
  BY DEF EndGame
<1>3. \A h \in DOMAIN games :
        games'[h] = IF h = g THEN [games[h] EXCEPT !.active = FALSE] ELSE games[h]
  BY <1>1, <1>2
<1>4. \A h \in DOMAIN games : games[h] \in Game
  BY <1>1
<1> QED
  BY <1>1, <1>2, <1>3, <1>4 DEF Game

LEMMA FreeStep ==
  ASSUME OneAtATime, TypeOK, PairsAreFree, [Next]_vars
  PROVE  PairsAreFree'
<1> SUFFICES ASSUME NEW r \in Req, req'[r].at = "create"
             PROVE  (~ SomebodyBusy(req[r].pair))'
  BY DEF PairsAreFree
<1> USE DEF TypeOK
<1>1. CASE UNCHANGED <<games, req>>
  BY <1>1 DEF PairsAreFree, SomebodyBusy, Playing
<1>2. ASSUME NEW g \in DOMAIN games, EndGame(g)
      PROVE  (~ SomebodyBusy(req[r].pair))'
  <2>1. req'[r] = req[r] /\ ~ SomebodyBusy(req[r].pair)
    BY <1>2 DEF EndGame, PairsAreFree
  <2> QED
    BY <1>2, <2>1, EndedRows DEF SomebodyBusy, Playing
<1>3. ASSUME NEW s \in Req, Handle(s)
      PROVE  (~ SomebodyBusy(req[r].pair))'
  <2>1. r = s
    BY DEF OneAtATime
  <2>2. CASE Busy(s)
    <3>1. /\ games' = games
          /\ ~ SomebodyBusy(req[r].pair)
          /\ req'[r].pair = req[r].pair
      BY <2>1, <2>2 DEF Busy, Become, Idle
    <3> QED
      BY <3>1 DEF SomebodyBusy, Playing
  <2>3. CASE Switch(s) \/ CreateGame(s) \/ CreateFails(s) \/ TellOpponent(s)
             \/ Drain(s) \/ ReadEntry(s) \/ LeaveZrem(s)
    BY <2>1, <2>3 DEF Switch, CreateGame, CreateFails, TellOpponent, Drain, ReadEntry,
                      LeaveZrem, Become, Idle
  <2>4. CASE Claim(s)
    BY <2>1, <2>4 DEF Claim, ClaimOpponent, Enqueue, Become, Idle
  <2>5. CASE TellCaller(s)
    <3>1. req'[r].at = "tellOpponent"
      BY <2>1, <2>5, HandlerGame DEF TellCaller, Become
    <3> QED
      BY <3>1
  <2>6. CASE LeaveRead(s) \/ LeaveDel(s)
    <3>1. req[r] \in Handler /\ req[r].at \in {"leave", "del"}
      BY <2>1, <2>6 DEF LeaveRead, LeaveDel
    <3>2. req[r].then \in Onward
      BY <3>1, HandlerParts
    <3>3. req[r].then.at # "create"
      BY <3>2, OnwardParts
    <3>4. AfterOne(req[r]).at # "create"
      BY <3>3 DEF AfterOne
    <3> QED
      BY <2>1, <2>6, <3>4 DEF LeaveRead, LeaveDel, Become
  <2> QED
    BY <1>3, <2>2, <2>3, <2>4, <2>5, <2>6 DEF Handle
<1>4. ASSUME NEW s \in Req, Request(s)
      PROVE  (~ SomebodyBusy(req[r].pair))'
  <2>1. r = s
    BY DEF OneAtATime
  <2> PICK u \in Players : \/ \E p \in Pools : Join(s, u, p)
                           \/ Status(s, u)
                           \/ Leave(s, u)
                           \/ \E v \in Players : Accept(s, u, v)
    BY <1>4 DEF Request
  <2>2. CASE \E p \in Pools : Join(s, u, p)
    BY <2>1, <2>2 DEF Join, Become, Idle
  <2>3. CASE Status(s, u)
    BY <2>1, <2>3 DEF Status, Become
  <2>4. CASE Leave(s, u)
    BY <2>1, <2>4 DEF Leave, Become
  <2>5. ASSUME NEW v \in Players, Accept(s, u, v)
        PROVE  req'[r].at = "leave"
    BY <2>1, <2>5 DEF Accept, Become
  <2> QED
    BY <2>2, <2>3, <2>4, <2>5
<1>5. ASSUME NEW u \in Players, ExpireEntry(u) \/ ExpireMailbox(u)
      PROVE  UNCHANGED <<games, req>>
  BY <1>5 DEF ExpireEntry, ExpireMailbox
<1>6. CASE Restart
  BY <1>6 DEF Restart, Idle
<1>7. CASE UNCHANGED vars
  BY <1>1, <1>7 DEF vars
<1> QED
  BY <1>1, <1>2, <1>3, <1>4, <1>5, <1>6, <1>7 DEF Next

LEMMA SecondGameStep ==
  ASSUME TypeOK, PairsAreFree, NoSecondGame, [Next]_vars
  PROVE  NoSecondGame'
<1>1. CASE games' = games
  BY <1>1 DEF NoSecondGame
<1>2. ASSUME NEW g \in DOMAIN games, EndGame(g)
      PROVE  NoSecondGame'
  BY <1>2, EndedRows DEF NoSecondGame
<1>3. ASSUME NEW x \in Game, games' = Append(games, x),
             \A g \in DOMAIN games :
               games[g].active /\ x.matched => games[g].players \cap x.players = {}
      PROVE  NoSecondGame'
  <2> SUFFICES ASSUME NEW g \in DOMAIN games', NEW h \in DOMAIN games', g < h,
                      games'[g].active, games'[h].matched
               PROVE  games'[g].players \cap games'[h].players = {}
    BY DEF NoSecondGame
  <2>0. Len(games) \in Nat /\ DOMAIN games = 1..Len(games)
    BY DEF TypeOK
  <2>1. g \in DOMAIN games /\ games'[g] = games[g]
    BY <1>3, <2>0, Appended
  <2>2. CASE h \in DOMAIN games
    BY <1>3, <2>1, <2>2, Appended DEF NoSecondGame
  <2>3. CASE h \notin DOMAIN games
    BY <1>3, <2>1, <2>3, Appended
  <2> QED
    BY <2>2, <2>3
<1>4. ASSUME NEW r \in Req, CreateGame(r)
      PROVE  NoSecondGame'
  <2> DEFINE pair == req[r].pair
             x    == [players |-> {pair[1], pair[2]}, matched |-> TRUE, active |-> TRUE]
  <2>1. pair \in Pair /\ req[r].at = "create"
    BY <1>4, HandlerParts DEF CreateGame, TypeOK
  <2>2. x \in Game
    BY <2>1 DEF Game
  <2>3. games' = Append(games, x)
    BY <1>4 DEF CreateGame
  <2>4. ASSUME NEW g \in DOMAIN games, games[g].active
        PROVE  games[g].players \cap {pair[1], pair[2]} = {}
    BY <2>1, <2>4 DEF PairsAreFree, SomebodyBusy, Playing
  <2> QED
    BY <1>3, <2>2, <2>3, <2>4
<1>5. ASSUME NEW r \in Req, NEW u \in Players, NEW v \in Players, Accept(r, u, v)
      PROVE  NoSecondGame'
  <2> DEFINE x == [players |-> {u, v}, matched |-> FALSE, active |-> TRUE]
  <2>1. x \in Game
    <3>1. <<u, v>> \in Pair
      BY <1>5 DEF Accept, Pair
    <3>2. {u, v} = {<<u, v>>[1], <<u, v>>[2]}
      OBVIOUS
    <3> QED
      BY <3>1, <3>2 DEF Game
  <2>2. games' = Append(games, x)
    BY <1>5 DEF Accept
  <2> QED
    BY <1>3, <2>1, <2>2
<1> QED
  BY <1>1, <1>2, <1>4, <1>5, GamesFrame

\* Without an overlap the check for a running game holds until the row is
\* there: nobody in a game is matched into a second one.
THEOREM NobodyIsMatchedTwice ==
  ASSUME OneAtATime
  PROVE  Spec => []NoSecondGame
<1>1. Init => PairsAreFree /\ NoSecondGame
  BY DEF Init, PairsAreFree, NoSecondGame, Idle
<1>2. TypeOK /\ PairsAreFree /\ NoSecondGame /\ [Next]_vars
        => (PairsAreFree /\ NoSecondGame)'
  BY FreeStep, SecondGameStep
<1> QED
  BY <1>1, <1>2, TypeCorrect, PTL DEF Spec
-----------------------------------------------------------------------------
(* One handler at a time and hashes that outlive their entries.            *)

\* Who is in a sorted set is there by their hash: no orphans.
InByHash == \A u \in Players, p \in Pools : u \in zset[p] => entry[u] = p

\* What a handler relies on between its awaits: the hash it read still stands,
\* and the player it removes is out of every set before their hash goes.
Orderly(h) ==
  /\ h.at = "claim" => entry[h.by] \in {None, h.pool}
  /\ h.at = "zrem" => entry[Head(h.users)] = h.pool
  /\ h.at = "del" => \A p \in Pools : Head(h.users) \notin zset[p]
  /\ h.at \in {"leave", "zrem", "del"} /\ h.then.at = "claim" =>
       Len(h.users) = 1 /\ h.then.by = Head(h.users)

QueueInv == InByHash /\ \A r \in Req : Orderly(req[r])

\* With one handler, only its own slot needs a look.
LEMMA QueueKept ==
  ASSUME OneAtATime, NEW r \in Req, InByHash', Orderly(req[r])'
  PROVE  QueueInv'
BY DEF OneAtATime, QueueInv

LEMMA QueueRequest ==
  ASSUME OneAtATime, TypeOK, QueueInv, NEW r \in Req, Request(r)
  PROVE  QueueInv'
<1> USE DEF TypeOK
<1> PICK u \in Players : \/ \E p \in Pools : Join(r, u, p)
                         \/ Status(r, u)
                         \/ Leave(r, u)
                         \/ \E v \in Players : Accept(r, u, v)
  BY DEF Request
<1>1. UNCHANGED <<zset, entry>>
  BY DEF Join, Status, Leave, Accept, redis
<1>2. InByHash'
  BY <1>1 DEF QueueInv, InByHash
<1>3. ASSUME NEW p \in Pools, Join(r, u, p)
      PROVE  req'[r].at \in {"switch", "idle"}
  BY <1>3 DEF Join, Become, Idle
<1>4. CASE Status(r, u)
  <2>1. req'[r].at \in {"drain", "entry"}
    BY <1>4 DEF Status, Become
  <2> QED
    BY <1>2, <2>1, QueueKept DEF Orderly
<1>5. ASSUME NEW users, Become(r, [at |-> "leave", users |-> users, then |-> Idle])
      PROVE  Orderly(req[r])'
  <2>1. req'[r] = [at |-> "leave", users |-> users, then |-> Idle]
    BY <1>5 DEF Become
  <2>2. req'[r].at = "leave" /\ req'[r].then.at = "idle"
    BY <2>1 DEF Idle
  <2> QED
    BY <2>2 DEF Orderly
<1>6. ASSUME NEW v \in Players, Accept(r, u, v)
      PROVE  Orderly(req[r])'
  BY <1>5, <1>6 DEF Accept
<1>7. CASE Leave(r, u)
  BY <1>2, <1>5, <1>7, QueueKept DEF Leave
<1>8. ASSUME NEW p \in Pools, Join(r, u, p)
      PROVE  Orderly(req[r])'
  BY <1>3, <1>8 DEF Orderly
<1> QED
  BY <1>2, <1>4, <1>6, <1>7, <1>8, QueueKept

LEMMA QueueClaim ==
  ASSUME OneAtATime, TypeOK, QueueInv, NEW r \in Req, Claim(r)
  PROVE  QueueInv'
<1> USE DEF TypeOK
<1> DEFINE u == req[r].by
           p == req[r].pool
<1>1. /\ u \in Players /\ p \in Pools /\ req[r].rescan \in BOOLEAN
      /\ entry[u] \in {None, p}
  BY ClaimCases DEF QueueInv, Orderly, Claim
<1>2. Orderly(req[r])'
  <2>1. req'[r].at \in {"idle", "busy"}
    BY DEF Claim, ClaimOpponent, Enqueue, Become, Idle
  <2> QED
    BY <2>1 DEF Orderly
<1>3. \A q \in Pools : q # p => u \notin zset[q]
  BY <1>1, NoneTypes DEF QueueInv, InByHash
<1>4. CASE UNCHANGED <<zset, entry, due>>
  BY <1>2, <1>4, QueueKept DEF QueueInv, InByHash
<1>5. ASSUME NEW w \in Nat, NEW v \in Live(InWindow(u, p, w)),
             ClaimOpponent(r, u, p, InWindow(u, p, w), v)
      PROVE  QueueInv'
  <2>1. v \in zset[p] /\ v \in Players
    BY <1>1 DEF Live, InWindow
  <2>2. \A q \in Pools : q # p => v \notin zset[q]
    BY <1>1, <2>1 DEF QueueInv, InByHash
  <2>3. /\ \A q \in Pools : zset'[q] \subseteq zset[q]
        /\ u \notin zset'[p] /\ v \notin zset'[p]
    BY <1>1, <1>5 DEF ClaimOpponent
  <2>4. \A x \in Players \ {u, v} : entry'[x] = entry[x]
    BY <1>5 DEF ClaimOpponent, Taken
  <2>5. InByHash'
    BY <1>3, <2>2, <2>3, <2>4 DEF QueueInv, InByHash
  <2> QED
    BY <1>2, <2>5, QueueKept
<1>6. ASSUME NEW w \in Nat, Enqueue(r, u, p, InWindow(u, p, w))
      PROVE  QueueInv'
  <2>1. /\ \A q \in Pools : zset'[q] \subseteq zset[q] \cup (IF q = p THEN {u} ELSE {})
        /\ entry'[u] = p
        /\ \A x \in Players \ {u} : entry'[x] = entry[x]
    BY <1>1, <1>6 DEF Enqueue
  <2>2. InByHash'
    BY <1>3, <2>1 DEF QueueInv, InByHash
  <2> QED
    BY <1>2, <2>2, QueueKept
<1> QED
  BY <1>4, <1>5, <1>6, ClaimCases

\* After one player is out, the next is taken, or what follows is done.
LEMMA QueueAfterOne ==
  ASSUME TypeOK, NEW h \in Handler, h.at \in {"leave", "del"}, Orderly(h),
         NEW r \in Req, Become(r, AfterOne(h)),
         entry'[Head(h.users)] = None
  PROVE  Orderly(req[r])'
<1>1. req'[r] = AfterOne(h)
  BY DEF Become, TypeOK
<1>2. h.users \in Leavers /\ h.then \in Onward
  BY HandlerParts
<1>3. h.then.at \in {"idle", "claim"}
  BY <1>2, OnwardParts
<1>4. CASE Len(h.users) = 1
  <2>1. req'[r] = h.then
    BY <1>1, <1>4 DEF AfterOne
  <2>2. h.then.at = "claim" => h.then.by = Head(h.users)
    BY DEF Orderly
  <2>3. req'[r].at = "claim" => entry'[req'[r].by] = None
    BY <2>1, <2>2
  <2> QED
    BY <1>3, <2>1, <2>3 DEF Orderly
<1>5. CASE Len(h.users) # 1
  <2>1. req'[r].at = "leave" /\ req'[r].then = h.then
    BY <1>1, <1>5 DEF AfterOne
  <2>2. h.then.at # "claim"
    BY <1>5 DEF Orderly
  <2> QED
    BY <2>1, <2>2 DEF Orderly
<1> QED
  BY <1>4, <1>5

LEMMA QueueHandle ==
  ASSUME OneAtATime, TypeOK, QueueInv, NEW r \in Req, Handle(r)
  PROVE  QueueInv'
<1> USE DEF TypeOK
<1> DEFINE h == req[r]
<1>0. h \in Handler /\ Orderly(h) /\ InByHash
  BY DEF QueueInv
<1>1. ASSUME UNCHANGED <<zset, entry>>, Orderly(req[r])'
      PROVE  QueueInv'
  BY <1>0, <1>1, QueueKept DEF InByHash
<1>2. CASE Switch(r)
  <2> DEFINE next == [at |-> "claim", by |-> h.by, pool |-> h.pool, rescan |-> FALSE]
  <2>1. UNCHANGED <<zset, entry>>
    BY <1>2 DEF Switch, redis
  <2>2. CASE MustLeave(h.by, h.pool)
    <3>1. req'[r] = [at |-> "leave", users |-> <<h.by>>, then |-> next]
      BY <1>2, <2>2 DEF Switch, Become
    <3>2. /\ req'[r].at = "leave"
          /\ Len(req'[r].users) = 1
          /\ req'[r].then.by = Head(req'[r].users)
      BY <3>1
    <3> QED
      BY <1>1, <2>1, <3>2 DEF Orderly
  <2>3. CASE ~ MustLeave(h.by, h.pool)
    <3>1. req'[r] = next
      BY <1>2, <2>3 DEF Switch, Become
    <3>2. req'[r].at = "claim" /\ entry'[req'[r].by] \in {None, req'[r].pool}
      BY <2>1, <2>3, <3>1 DEF MustLeave
    <3> QED
      BY <1>1, <2>1, <3>2 DEF Orderly
  <2> QED
    BY <2>2, <2>3
<1>3. CASE Claim(r)
  BY <1>3, QueueClaim
<1>4. CASE Busy(r) \/ CreateGame(r) \/ CreateFails(r) \/ TellOpponent(r) \/ Drain(r)
  <2>1. UNCHANGED <<zset, entry>>
    BY <1>4 DEF Busy, CreateGame, CreateFails, TellOpponent, Drain, redis
  <2>2. req'[r].at \in {"idle", "create", "tellCaller"}
    BY <1>4 DEF Busy, CreateGame, CreateFails, TellOpponent, Drain, Become, Idle
  <2> QED
    BY <1>1, <2>1, <2>2 DEF Orderly
<1>5. CASE TellCaller(r)
  <2>1. UNCHANGED <<zset, entry>> /\ req'[r].at = "tellOpponent"
    BY <1>5, HandlerGame DEF TellCaller, Become
  <2> QED
    BY <1>1, <2>1 DEF Orderly
<1>6. CASE ReadEntry(r)
  <2>1. UNCHANGED <<zset, entry>>
    BY <1>6 DEF ReadEntry, redis
  <2>2. CASE entry[h.by] = None
    <3>1. req'[r].at = "idle"
      BY <1>6, <2>2 DEF ReadEntry, Become, Idle
    <3> QED
      BY <1>1, <2>1, <3>1 DEF Orderly
  <2>3. CASE entry[h.by] # None
    <3>1. req'[r] = [at |-> "claim", by |-> h.by, pool |-> entry[h.by], rescan |-> TRUE]
      BY <1>6, <2>3 DEF ReadEntry, Become
    <3>2. req'[r].at = "claim" /\ entry'[req'[r].by] = req'[r].pool
      BY <2>1, <3>1
    <3> QED
      BY <1>1, <2>1, <3>2 DEF Orderly
  <2> QED
    BY <2>2, <2>3
<1>7. CASE LeaveRead(r)
  <2>1. UNCHANGED <<zset, entry>> /\ h.at = "leave"
    BY <1>7 DEF LeaveRead, redis
  <2>2. CASE entry[Head(h.users)] = None
    <3>1. Become(r, AfterOne(h))
      BY <1>7, <2>2 DEF LeaveRead
    <3> QED
      BY <1>0, <1>1, <2>1, <2>2, <3>1, QueueAfterOne
  <2>3. CASE entry[Head(h.users)] # None
    <3>1. req'[r] = [at |-> "zrem", users |-> h.users, pool |-> entry[Head(h.users)],
                     then |-> h.then]
      BY <1>7, <2>3 DEF LeaveRead, Become
    <3>2. /\ req'[r].at = "zrem" /\ req'[r].users = h.users /\ req'[r].then = h.then
          /\ entry'[Head(req'[r].users)] = req'[r].pool
      BY <2>1, <3>1
    <3> QED
      BY <1>0, <1>1, <2>1, <3>2 DEF Orderly
  <2> QED
    BY <2>2, <2>3
<1>8. CASE LeaveZrem(r)
  <2>1. h.at = "zrem" /\ h.users \in Leavers /\ h.pool \in Pools
    BY <1>8, HandlerParts DEF LeaveZrem
  <2>2. Head(h.users) \in Players /\ entry[Head(h.users)] = h.pool
    BY <1>0, <2>1, LeaversFacts DEF Orderly
  <2>3. entry' = entry /\ zset' = [zset EXCEPT ![h.pool] = @ \ {Head(h.users)}]
    BY <1>8 DEF LeaveZrem
  <2>4. \A p \in Pools : zset'[p] \subseteq zset[p] /\ Head(h.users) \notin zset'[p]
    BY <1>0, <2>1, <2>2, <2>3 DEF InByHash
  <2>5. InByHash'
    BY <1>0, <2>3, <2>4 DEF InByHash
  <2>6. req'[r] = [at |-> "del", users |-> h.users, then |-> h.then]
    BY <1>8 DEF LeaveZrem, Become
  <2>7. req'[r].at = "del" /\ req'[r].users = h.users /\ req'[r].then = h.then
    BY <2>6
  <2>8. Orderly(req[r])'
    BY <1>0, <2>1, <2>4, <2>7 DEF Orderly
  <2> QED
    BY <2>5, <2>8, QueueKept
<1>9. CASE LeaveDel(r)
  <2>1. h.at = "del" /\ h.users \in Leavers /\ Head(h.users) \in Players
    BY <1>9, HandlerParts, LeaversFacts DEF LeaveDel
  <2>2. /\ zset' = zset
        /\ entry' = [entry EXCEPT ![Head(h.users)] = None]
        /\ Become(r, AfterOne(h))
    BY <1>9 DEF LeaveDel
  <2>3. InByHash'
    BY <1>0, <2>1, <2>2 DEF InByHash, Orderly
  <2> QED
    BY <1>0, <2>1, <2>2, <2>3, QueueAfterOne, QueueKept
<1> QED
  BY <1>2, <1>3, <1>4, <1>5, <1>6, <1>7, <1>8, <1>9 DEF Handle

LEMMA QueueStep ==
  ASSUME OneAtATime, "expiry" \notin Faults, TypeOK, QueueInv, [Next]_vars
  PROVE  QueueInv'
<1>1. ASSUME NEW g \in DOMAIN games, EndGame(g)
      PROVE  QueueInv'
  BY <1>1 DEF EndGame, redis, QueueInv, InByHash, Orderly
<1>2. CASE Restart
  <2>1. \A r \in Req : req'[r] = Idle
    BY <1>2 DEF Restart
  <2>2. Orderly(Idle)'
    BY DEF Orderly, Idle
  <2> QED
    BY <1>2, <2>1, <2>2 DEF Restart, redis, QueueInv, InByHash, Orderly
<1>3. CASE UNCHANGED vars
  BY <1>3 DEF vars, redis, QueueInv, InByHash, Orderly
<1> QED
  BY <1>1, <1>2, <1>3, QueueRequest, QueueHandle DEF Next, ExpireEntry, ExpireMailbox

\* Without an overlap, and while no hash expires under its entry, switching
\* pools leaves nothing behind: a player is in the set their hash names.
THEOREM EachInOneQueue ==
  ASSUME OneAtATime, "expiry" \notin Faults
  PROVE  Spec => []OneQueuePerUser
<1>1. Init => QueueInv
  BY DEF Init, QueueInv, InByHash, Orderly, Idle
<1>2. QueueInv => OneQueuePerUser
  BY DEF QueueInv, InByHash, OneQueuePerUser
<1> QED
  BY <1>1, <1>2, QueueStep, TypeCorrect, PTL DEF Spec
===============================================================================
