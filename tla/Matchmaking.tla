------------------------------ MODULE Matchmaking ------------------------------
(***************************************************************************)
(* Quick match (matchmaking/matchmaking.service.ts): players queue in      *)
(* Redis, are paired by a script that runs atomically there, and get a     *)
(* game row in Postgres.  Between the two stores, and between any two      *)
(* calls to one of them, every other handler may run.                      *)
(*                                                                         *)
(* Redis holds, per pool, a sorted set of players by rating, and per       *)
(* player a hash (its pool, its join time) that expires and a mailbox that *)
(* expires.  A handler is cut at its awaits; entering a game on another    *)
(* path (an invite or a rematch accepted) is the handler Accept, which     *)
(* activates the row and then dequeues both players.                       *)
(***************************************************************************)
EXTENDS Integers, Sequences, FiniteSets

CONSTANTS
  Players,
  Pools,
  Req,         \* request slots: how many handlers may overlap
  Rating,      \* player -> rating
  BaseWindow,  \* BASE_WINDOW
  Windows,     \* the windows a poll may have widened to
  None,
  Faults,      \* what may go wrong, see AllFaults
  MaxGames,    \* bound: games created
  MaxJoins     \* bound: joins received

ASSUME RatingAssumption ==
  /\ Rating \in [Players -> Int]
  /\ BaseWindow \in Nat
  /\ Windows \subseteq Nat
  /\ \A w \in Windows : w >= BaseWindow

AllFaults ==
  { "expiry",   \* hashes and mailboxes expire
    "failure",  \* a game cannot be created
    "restart" } \* the process restarts

ASSUME BoundAssumption ==
  /\ Faults \subseteq AllFaults
  /\ MaxGames \in Nat
  /\ MaxJoins \in Nat
  /\ None \notin Players \cup Pools \cup Nat

VARIABLES
  zset,     \* mm:q:*      pool -> players in its sorted set
  entry,    \* mm:u:*      player -> the pool its hash names, or None
  mailbox,  \* mm:match:*  player -> a game, or None
  games,    \* Game rows, in order of creation
  req,      \* the handler in each slot
  joins,    \* bound: joins received so far
  due       \* history: joins that were queued or paired, less the pairings

redis == <<zset, entry, mailbox>>
vars  == <<redis, games, req, joins, due>>

Idle == [at |-> "idle"]

Pair == {p \in Players \X Players : p[1] # p[2]}

Game == [players : {{p[1], p[2]} : p \in Pair}, matched : BOOLEAN, active : BOOLEAN]

\* What a handler does after it has removed players from the queue.
Onward == {Idle} \cup [at : {"claim"}, by : Players, pool : Pools, rescan : {FALSE}]

\* One player leaves, or the two of an accepted game.
Leavers == {s \in Seq(Players) : Len(s) \in 1..2}

Handler ==
  {Idle}
  \cup [at : {"switch"}, by : Players, pool : Pools]
  \cup [at : {"claim"}, by : Players, pool : Pools, rescan : BOOLEAN]
  \cup [at : {"busy", "create"}, pair : Pair]
  \cup [at : {"tellCaller", "tellOpponent"}, pair : Pair, game : Nat]
  \cup [at : {"drain", "entry"}, by : Players]
  \cup [at : {"leave", "del"}, users : Leavers, then : Onward]
  \cup [at : {"zrem"}, users : Leavers, pool : Pools, then : Onward]

TypeOK ==
  /\ zset \in [Pools -> SUBSET Players]
  /\ entry \in [Players -> Pools \cup {None}]
  /\ mailbox \in [Players -> Nat \cup {None}]
  /\ games \in Seq(Game)
  /\ req \in [Req -> Handler]
  /\ joins \in Nat
  /\ due \in [Players -> Int]

Init ==
  /\ zset = [p \in Pools |-> {}]
  /\ entry = [u \in Players |-> None]
  /\ mailbox = [u \in Players |-> None]
  /\ games = << >>
  /\ req = [r \in Req |-> Idle]
  /\ joins = 0
  /\ due = [u \in Players |-> 0]

Playing(u) == \E g \in DOMAIN games : games[g].active /\ u \in games[g].players

Become(r, h) == req' = [req EXCEPT ![r] = h]

-----------------------------------------------------------------------------
(* Joining.                                                                *)

MayJoin(u) == ~ Playing(u)

\* join: the active-game check; a playing user gets a Conflict.
Join(r, u, p) ==
  /\ req[r] = Idle
  /\ joins < MaxJoins
  /\ joins' = joins + 1
  /\ Become(r, IF MayJoin(u) THEN [at |-> "switch", by |-> u, pool |-> p] ELSE Idle)
  /\ UNCHANGED <<redis, games, due>>

\* Mutant: the entry in the other pool stays.
StayQueued(u, p) == FALSE

\* Switching pools: the old entry is dropped first.
MustLeave(u, p) == entry[u] \notin {None, p}

Switch(r) ==
  /\ req[r].at = "switch"
  /\ LET h    == req[r]
         next == [at |-> "claim", by |-> h.by, pool |-> h.pool, rescan |-> FALSE]
     IN  Become(r, IF MustLeave(h.by, h.pool)
                   THEN [at |-> "leave", users |-> <<h.by>>, then |-> next]
                   ELSE next)
  /\ UNCHANGED <<redis, games, joins, due>>

-----------------------------------------------------------------------------
(* The script MM_JOIN_LUA.                                                 *)

Gap(u, v) == IF Rating[u] >= Rating[v] THEN Rating[u] - Rating[v] ELSE Rating[v] - Rating[u]

\* Mutant: the ends of the window are left out.
InWindowOpen(u, p, w) == {v \in zset[p] \ {u} : Gap(u, v) < w}

\* ZRANGEBYSCORE: both ends included, the caller left out.
InWindow(u, p, w) == {v \in zset[p] \ {u} : Gap(u, v) <= w}

\* An entry without its hash is an orphan.
Live(players) == {v \in players : entry[v] # None}

\* The live candidates nearest in rating.
Best(u, live) == {v \in live : \A x \in live : Gap(u, v) <= Gap(u, x)}

\* A re-scan demands that the caller's own entry still exist.
AlreadyClaimed(u, rescan) == rescan /\ entry[u] = None

\* Mutant: the caller's own hash stays.
TakenOpponent(u, v) == {v}

\* Whose hashes a claim deletes.
Taken(u, v) == {u, v}

\* Both leave the queue; the caller goes on to create their game.
ClaimOpponent(r, u, p, seen, v) ==
  /\ zset' = [zset EXCEPT ![p] = @ \ ((seen \ Live(seen)) \cup {u, v})]
  /\ entry' = [x \in Players |-> IF x \in Taken(u, v) THEN None ELSE entry[x]]
  /\ due' = [x \in Players |->
       IF x \in {u, v} THEN due[x] - 1 + (IF x = u /\ ~ req[r].rescan THEN 1 ELSE 0)
       ELSE due[x]]
  /\ Become(r, [at |-> "busy", pair |-> <<u, v>>])

Enqueue(r, u, p, seen) ==
  /\ zset' = [zset EXCEPT ![p] = (@ \ (seen \ Live(seen))) \cup {u}]
  /\ entry' = [entry EXCEPT ![u] = p]
  /\ due' = [due EXCEPT ![u] = IF req[r].rescan THEN @ ELSE @ + 1]
  /\ Become(r, Idle)

\* Claim the nearest candidate or enqueue; expired candidates are reaped.
Claim(r) ==
  /\ req[r].at = "claim"
  /\ LET u == req[r].by
         p == req[r].pool
     IN  IF AlreadyClaimed(u, req[r].rescan)
         THEN /\ Become(r, Idle)
              /\ UNCHANGED <<zset, entry, due>>
         ELSE \E w \in IF req[r].rescan THEN Windows ELSE {BaseWindow} :
                LET seen == InWindow(u, p, w)
                IN  IF Live(seen) # {}
                    THEN \E v \in Best(u, Live(seen)) : ClaimOpponent(r, u, p, seen, v)
                    ELSE Enqueue(r, u, p, seen)
  /\ UNCHANGED <<mailbox, games, joins>>

-----------------------------------------------------------------------------
(* createMatchedGame.                                                      *)

\* Mutant: nobody looks for a running game.
NobodyBusy(pair) == FALSE

SomebodyBusy(pair) == \E u \in {pair[1], pair[2]} : Playing(u)

\* A stale pairing is dropped: both are out of the queue and poll on.
Busy(r) ==
  /\ req[r].at = "busy"
  /\ Become(r, IF SomebodyBusy(req[r].pair) THEN Idle
               ELSE [at |-> "create", pair |-> req[r].pair])
  /\ UNCHANGED <<redis, games, joins, due>>

CreateGame(r) ==
  /\ req[r].at = "create"
  /\ Len(games) < MaxGames
  /\ LET pair == req[r].pair IN
       /\ games' = Append(games, [players |-> {pair[1], pair[2]}, matched |-> TRUE, active |-> TRUE])
       /\ Become(r, [at |-> "tellCaller", pair |-> pair, game |-> Len(games')])
  /\ UNCHANGED <<redis, joins, due>>

CreateFails(r) ==
  /\ "failure" \in Faults
  /\ req[r].at = "create"
  /\ Become(r, Idle)
  /\ UNCHANGED <<redis, games, joins, due>>

TellCaller(r) ==
  /\ req[r].at = "tellCaller"
  /\ mailbox' = [mailbox EXCEPT ![req[r].pair[1]] = req[r].game]
  /\ Become(r, [req[r] EXCEPT !.at = "tellOpponent"])
  /\ UNCHANGED <<zset, entry, games, joins, due>>

TellOpponent(r) ==
  /\ req[r].at = "tellOpponent"
  /\ mailbox' = [mailbox EXCEPT ![req[r].pair[2]] = req[r].game]
  /\ Become(r, Idle)
  /\ UNCHANGED <<zset, entry, games, joins, due>>

-----------------------------------------------------------------------------
(* The poll.                                                               *)

Status(r, u) ==
  /\ req[r] = Idle
  /\ Become(r, [at |-> IF mailbox[u] # None THEN "drain" ELSE "entry", by |-> u])
  /\ UNCHANGED <<redis, games, joins, due>>

Drain(r) ==
  /\ req[r].at = "drain"
  /\ mailbox' = [mailbox EXCEPT ![req[r].by] = None]
  /\ Become(r, Idle)
  /\ UNCHANGED <<zset, entry, games, joins, due>>

\* The hash is read; the EXPIRE that follows only puts its expiry off.
ReadEntry(r) ==
  /\ req[r].at = "entry"
  /\ LET u == req[r].by IN
       Become(r, IF entry[u] = None THEN Idle
                 ELSE [at |-> "claim", by |-> u, pool |-> entry[u], rescan |-> TRUE])
  /\ UNCHANGED <<redis, games, joins, due>>

-----------------------------------------------------------------------------
(* Leaving, and entering a game on another path.                           *)

Leave(r, u) ==
  /\ req[r] = Idle
  /\ Become(r, [at |-> "leave", users |-> <<u>>, then |-> Idle])
  /\ UNCHANGED <<redis, games, joins, due>>

\* The next player of a dequeue, or what follows it.
AfterOne(h) ==
  IF Len(h.users) = 1 THEN h.then
  ELSE [at |-> "leave", users |-> Tail(h.users), then |-> h.then]

LeaveRead(r) ==
  /\ req[r].at = "leave"
  /\ LET h == req[r]
         u == Head(h.users)
     IN  Become(r, IF entry[u] = None THEN AfterOne(h)
                   ELSE [at |-> "zrem", users |-> h.users, pool |-> entry[u],
                         then |-> h.then])
  /\ UNCHANGED <<redis, games, joins, due>>

LeaveZrem(r) ==
  /\ req[r].at = "zrem"
  /\ LET h == req[r] IN
       /\ zset' = [zset EXCEPT ![h.pool] = @ \ {Head(h.users)}]
       /\ Become(r, [at |-> "del", users |-> h.users, then |-> h.then])
  /\ UNCHANGED <<entry, mailbox, games, joins, due>>

LeaveDel(r) ==
  /\ req[r].at = "del"
  /\ entry' = [entry EXCEPT ![Head(req[r].users)] = None]
  /\ Become(r, AfterOne(req[r]))
  /\ UNCHANGED <<zset, mailbox, games, joins, due>>

\* Whom an accept dequeues.
Dequeued(u, v) == <<v, u>>

\* An invite or a rematch between u and v is accepted by u: the row becomes
\* active without a look at the queue or at other games, then both leave it.
Accept(r, u, v) ==
  /\ req[r] = Idle
  /\ u # v
  /\ Len(games) < MaxGames
  /\ games' = Append(games, [players |-> {u, v}, matched |-> FALSE, active |-> TRUE])
  /\ Become(r, [at |-> "leave", users |-> Dequeued(u, v), then |-> Idle])
  /\ UNCHANGED <<redis, joins, due>>

-----------------------------------------------------------------------------
EndGame(g) ==
  /\ games[g].active
  /\ games' = [games EXCEPT ![g].active = FALSE]
  /\ UNCHANGED <<redis, req, joins, due>>

ExpireEntry(u) ==
  /\ "expiry" \in Faults
  /\ entry[u] # None
  /\ entry' = [entry EXCEPT ![u] = None]
  /\ UNCHANGED <<zset, mailbox, games, req, joins, due>>

ExpireMailbox(u) ==
  /\ "expiry" \in Faults
  /\ mailbox[u] # None
  /\ mailbox' = [mailbox EXCEPT ![u] = None]
  /\ UNCHANGED <<zset, entry, games, req, joins, due>>

Restart ==
  /\ "restart" \in Faults
  /\ req' = [r \in Req |-> Idle]
  /\ UNCHANGED <<redis, games, joins, due>>

Handle(r) ==
  \/ Switch(r)
  \/ Claim(r)
  \/ Busy(r)
  \/ CreateGame(r)
  \/ CreateFails(r)
  \/ TellCaller(r)
  \/ TellOpponent(r)
  \/ Drain(r)
  \/ ReadEntry(r)
  \/ LeaveRead(r)
  \/ LeaveZrem(r)
  \/ LeaveDel(r)

Request(r) ==
  \E u \in Players : \/ \E p \in Pools : Join(r, u, p)
                     \/ Status(r, u)
                     \/ Leave(r, u)
                     \/ \E v \in Players : Accept(r, u, v)

Next ==
  \/ \E r \in Req : Request(r) \/ Handle(r)
  \/ \E g \in DOMAIN games : EndGame(g)
  \/ \E u \in Players : ExpireEntry(u) \/ ExpireMailbox(u)
  \/ Restart

Spec == Init /\ [][Next]_vars

-----------------------------------------------------------------------------
\* Of two joins in reach of each other one enqueues and the other claims it,
\* or reaps it: no two players ever sit in a pool within the base window.
NoMissedPair ==
  \A p \in Pools : \A u, v \in zset[p] : u # v => Gap(u, v) > BaseWindow

\* No double pairing: a player is paired at most once per join, and a player
\* with a live entry has a join to be paired for.
PairedOncePerJoin ==
  \A u \in Players : /\ due[u] >= 0
                     /\ entry[u] # None => due[u] > 0

\* Who gets an entry in this step has a join, not a re-scan, in the script.
EnqueuedByJoin ==
  \A u \in Players : entry[u] = None /\ entry'[u] # None =>
    \E r \in Req : req[r].at = "claim" /\ req[r].by = u /\ ~ req[r].rescan

\* A poll that read its entry before an opponent claimed it does not put a
\* ghost of the player back: only a join makes an entry.
OnlyJoinsEnqueue == [][EnqueuedByJoin]_vars

-----------------------------------------------------------------------------
(* Promises of the comments.                                               *)

\* A player in a game must not be paired into a second one: no matched game
\* was created while an older game of one of its players was running.
NoSecondGame ==
  \A g, h \in DOMAIN games :
    g < h /\ games[g].active /\ games[h].matched =>
      games[g].players \cap games[h].players = {}

\* One queue per user: no live player is in two sorted sets.
OneQueuePerUser ==
  \A u \in Players : entry[u] # None =>
    \A p \in Pools : u \in zset[p] => p = entry[u]

\* A player who has entered a game is no longer claimable, once the handlers
\* that dequeue are through.
NotQueuedWhilePlaying ==
  (\A r \in Req : req[r] = Idle) =>
    \A u \in Players : Playing(u) => entry[u] = None
===============================================================================
