-------------------------------- MODULE Ratings --------------------------------
(***************************************************************************)
(* Rating passes over several games (ratings/ratings.service.ts).  A pass  *)
(* reads its game outside a transaction; inside it claims the game, locks  *)
(* the two rating rows in the order of their ids, reads them again, and    *)
(* writes everything at its commit (Postgres, read committed: an update of *)
(* a locked row waits, then looks at the committed row).  The arithmetic   *)
(* is abstract: a rating is the sequence of the games that made it.        *)
(***************************************************************************)
EXTENDS Requests

CONSTANTS
  RatedGames,   \* completed rated games of one category
  RatedUsers,
  White, Black, \* game -> its players
  RowId         \* user -> id of the rating row

ASSUME RatingsAssumption ==
  /\ White \in [RatedGames -> RatedUsers]
  /\ Black \in [RatedGames -> RatedUsers]
  /\ \A g \in RatedGames : White[g] # Black[g]
  /\ RowId \in [RatedUsers -> Nat]
  /\ \A u, v \in RatedUsers : RowId[u] = RowId[v] => u = v

VARIABLES
  rated,    \* game -> whether whiteRatingAfter is set
  rating,   \* user -> the Rating row, or None
  history,  \* user -> the RatingHistory rows, in order of their commits
  pass      \* the pass in each slot

ratingsVars == <<rated, rating, history, pass>>

Value == Seq(RatedGames)

Row == [value : Value, gamesPlayed : Nat]

ASSUME NoRowAssumption == None \notin Row

Entry == [game : RatedGames, before : Value, after : Value]

Reread == [white : Value, black : Value]

PassState ==
  {None}
  \cup [at : {"ensure", "claim"}, game : RatedGames]
  \cup [at : {"lock"}, game : RatedGames, next : {1, 2}]
  \cup [at : {"reread"}, game : RatedGames]
  \cup [at : {"commit"}, game : RatedGames, read : Reread]

RatingsTypeOK ==
  /\ rated \in [RatedGames -> BOOLEAN]
  /\ rating \in [RatedUsers -> Row \cup {None}]
  /\ history \in [RatedUsers -> Seq(Entry)]
  /\ pass \in [Req -> PassState]

RatingsInit ==
  /\ rated = [g \in RatedGames |-> FALSE]
  /\ rating = [u \in RatedUsers |-> None]
  /\ history = [u \in RatedUsers |-> << >>]
  /\ pass = [r \in Req |-> None]

At(r, where) == pass[r] # None /\ pass[r].at = where

Go(r, h) == pass' = [pass EXCEPT ![r] = h]

\* Mutant: white's row is locked first.
LockOrderByColour(g) == <<White[g], Black[g]>>

\* The rows of a game in the order in which they are locked.
LockOrder(g) ==
  IF RowId[White[g]] < RowId[Black[g]] THEN <<White[g], Black[g]>> ELSE <<Black[g], White[g]>>

InTransaction(r) == At(r, "lock") \/ At(r, "reread") \/ At(r, "commit")

\* The claim holds the game row until the transaction ends.
HoldsGame(r, g) == InTransaction(r) /\ pass[r].game = g

\* Mutant: the rows are read without FOR UPDATE.
HoldsNothing(r, u) == FALSE

HoldsRow(r, u) ==
  /\ InTransaction(r)
  /\ \E i \in {1, 2} : /\ u = LockOrder(pass[r].game)[i]
                       /\ At(r, "lock") => i < pass[r].next

-----------------------------------------------------------------------------
\* findUnique: a game already processed is left alone.
StartPass(r, g) ==
  /\ pass[r] = None
  /\ ~rated[g]
  /\ Go(r, [at |-> "ensure", game |-> g])
  /\ UNCHANGED <<rated, rating, history>>

\* getOrCreateRating, for both players.
EnsureRows(r) ==
  /\ At(r, "ensure")
  /\ rating' = [u \in RatedUsers |->
       IF u \in {White[pass[r].game], Black[pass[r].game]} /\ rating[u] = None
       THEN [value |-> << >>, gamesPlayed |-> 0] ELSE rating[u]]
  /\ Go(r, [at |-> "claim", game |-> pass[r].game])
  /\ UNCHANGED <<rated, history>>

\* Mutant: the claim counts whatever it finds.
ClaimedByAnybody(g) == FALSE

AlreadyProcessed(g) == rated[g]

\* The conditional update waits for the row, then looks at it.
ClaimGame(r) ==
  /\ At(r, "claim")
  /\ \A s \in Req : ~HoldsGame(s, pass[r].game)
  /\ Go(r, IF AlreadyProcessed(pass[r].game) THEN None
           ELSE [at |-> "lock", game |-> pass[r].game, next |-> 1])
  /\ UNCHANGED <<rated, rating, history>>

\* SELECT ... ORDER BY id FOR UPDATE, one row at a time.
LockRow(r) ==
  /\ At(r, "lock")
  /\ \A s \in Req \ {r} : ~HoldsRow(s, LockOrder(pass[r].game)[pass[r].next])
  /\ Go(r, IF pass[r].next = 1 THEN [pass[r] EXCEPT !.next = 2]
           ELSE [at |-> "reread", game |-> pass[r].game])
  /\ UNCHANGED <<rated, rating, history>>

RereadRows(r) ==
  /\ At(r, "reread")
  /\ LET g == pass[r].game IN
       Go(r, [at |-> "commit", game |-> g,
              read |-> [white |-> rating[White[g]].value, black |-> rating[Black[g]].value]])
  /\ UNCHANGED <<rated, rating, history>>

\* What the pass read of a player, whether the player is white or black.
ReadOf(r, u) ==
  IF u = White[pass[r].game] THEN pass[r].read.white ELSE pass[r].read.black

CommitPass(r) ==
  /\ At(r, "commit")
  /\ LET g    == pass[r].game
         both == {White[g], Black[g]}
     IN  /\ rated' = [rated EXCEPT ![g] = TRUE]
         /\ rating' = [u \in RatedUsers |->
              IF u \in both
              THEN [value |-> Append(ReadOf(r, u), g), gamesPlayed |-> rating[u].gamesPlayed + 1]
              ELSE rating[u]]
         /\ history' = [u \in RatedUsers |->
              IF u \in both
              THEN Append(history[u], [game |-> g, before |-> ReadOf(r, u),
                                       after |-> Append(ReadOf(r, u), g)])
              ELSE history[u]]
  /\ Go(r, None)

\* An error or a restart: the transaction is rolled back, its locks are free.
PassFails(r) ==
  /\ pass[r] # None
  /\ Go(r, None)
  /\ UNCHANGED <<rated, rating, history>>

RatingsNext ==
  \E r \in Req : \/ \E g \in RatedGames : StartPass(r, g)
                 \/ EnsureRows(r)
                 \/ ClaimGame(r)
                 \/ LockRow(r)
                 \/ RereadRows(r)
                 \/ CommitPass(r)
                 \/ PassFails(r)

RatingsSpec == RatingsInit /\ [][RatingsNext]_ratingsVars

-----------------------------------------------------------------------------
LastValue(u) ==
  IF history[u] = << >> THEN << >> ELSE history[u][Len(history[u])].after

\* No rating is lost: however passes over games of one player overlap, fail
\* and are repeated, each history row starts from where the one before it
\* ended, and the rating is the end of the chain, as long as it counts.
RatingsChain ==
  \A u \in RatedUsers :
    /\ rating[u] # None => /\ rating[u].value = LastValue(u)
                           /\ rating[u].gamesPlayed = Len(history[u])
    /\ \A i \in DOMAIN history[u] :
         history[u][i].before = IF i = 1 THEN << >> ELSE history[u][i - 1].after

\* Each game counts once for each of its players, and no other game counts.
GamesCountOnce ==
  \A u \in RatedUsers :
    /\ \A i, j \in DOMAIN history[u] : history[u][i].game = history[u][j].game => i = j
    /\ {history[u][i].game : i \in DOMAIN history[u]} =
         {g \in RatedGames : rated[g] /\ u \in {White[g], Black[g]}}

WaitsFor(r, s) ==
  /\ r # s
  /\ \/ At(r, "claim") /\ HoldsGame(s, pass[r].game)
     \/ At(r, "lock") /\ HoldsRow(s, LockOrder(pass[r].game)[pass[r].next])

\* The locks never deadlock: of any passes, one waits for none of the others.
NobodyWaitsInACircle ==
  \A S \in SUBSET Req : S # {} => \E r \in S : \A s \in S : ~WaitsFor(r, s)
===============================================================================
