# purechess: a verification project in TLA+

This directory holds TLA+ models of the chess server and its browser clients,
TLC configurations that check them on small instances, and theorems about them
that TLAPS proves for every value of the constants. Everything is translated
from the source under `src/`; `PROJECT.json` maps each definition to the lines
it stands for.

## The system

| component | state | operations | what is hard | what makes it correct |
|---|---|---|---|---|
| Live PvP games (`games.service.ts`) | Game row (status, result, reason, engine state), Move rows | getState, submitMove, resign, draw, abort, finalize | every handler reads the row, decides in memory and writes after several awaits; most writes are guarded on `active`, two are not | the score never forks, the board decides, nobody is tricked into a draw, one rating |
| Chess clock (`clock.ts`) | budgets, increment, last tick | make, tick, increment, timeout | the last millisecond | a budget in the database is never used up |
| Ratings (`ratings.service.ts`) | whiteRatingAfter, Rating rows | processGameResult | two passes over one game; two games of one player; failure after the game is over | at most one pass counts; rows are read under their locks |
| Janitor (`games-janitor.service.ts`) | none of its own | three sweeps | races every handler | aborts only what nobody started to play |
| Invites and rematches (`invites.service.ts`, `games.service.ts`) | pending Game rows, the rematch link | create, preview, accept, cancel, offer, accept, decline, sweep | an abort by id after a check; two offers at once | a game that started is not aborted by an invite action |
| Quick match (`matchmaking.service.ts`) | Redis sorted set per pool, hash and mailbox per user, active games | join, leave, status, dequeue | Redis and Postgres are two stores; entries expire; handlers overlap | one game and one pool per player; no missed pair |
| Quick-match page (`use-matchmaking.ts`) | phase, re-joins left, socket | join, poll, push, cancel, unmount | its own requests are late, lost, or outlive the page | a game that was made is shown; a search that was given up is forgotten |
| Browser Stockfish (`stockfish-client.ts`) | one worker, a chain of jobs, the active job | analyze, getHumanMove, cancel, timeout | a late `bestmove`; a worker that dies; a caller's options leaking | an answer belongs to the question |
| Realtime gateway (`realtime.gateway.ts`) | rooms per socket, the count each socket keeps of its own | join, leave, disconnect, presence | a join cut by two awaits races a leave or the end of its socket | who believes to be in a room is in it; presence converges; rooms are bounded |
| Live game page (`live-game-client.tsx`) | game state, preview, submitting flag, socket | merge, move, action, rollback, refetch | pushes, polls and answers in any order; pushes are dropped while submitting | the board never goes back, and ends up where the game is |
| Computer games (`computer-games/`) | Game row and Move rows, no write guarded | create, move, resign, abort, takeback, draw | a stale row is written over a newer one; a takeback re-opens a game | clock, score and Move rows agree; an end has its reason on the board |
| Puzzles and review (`puzzles/`) | puzzle rating, attempts, review cards | attempt, grade | several rows, no transaction | the attempts explain the rating; a card is learned and leaves |
| Training streak (`streak.service.ts`) | day rows, the streak row | record an activity, set the goal | two rows, no transaction, midnight | no streak is longer than it was earned |
| Accounts | sessions, one-time tokens | login, reset, confirm | token read, then used | a token works once |

The remaining parts (the rules of chess behind chess.js and shakmaty,
Glicko-2 arithmetic, imports, insights, opening books, pages) are listed in
`PROJECT.json` with the reason they have no model: pure functions of data whose
state space is chess itself, floating-point arithmetic, or plain I/O.

The components meet in the database. Matchmaking, invites and rematches make a
Game row `active`; from then on only the PvP service, the rating pass and the
janitor write it, and they exclude each other with nothing but the `where`
clauses of single statements. That is why the PvP game comes first, and the
way into it through matchmaking and through invites and rematches next. The
pages sit on top: the live page plays against the game `ChessGame` promises, the
quick-match page against the queue as one user sees it. The gateway carries
pushes to them and keeps rooms of its own. Computer games, puzzles, streaks and
the browser's Stockfish client share no state with any of this: each is a
service over its own rows, or a queue in front of one worker.

## Modules

| module | what it is |
|---|---|
| `ChessClock` | `clock.ts`: a clock value and its four operations, time counted from the present |
| `PvpGame` | one game from `active` on: every request handler cut at its awaits, the rating pass, the janitor's sweep, restarts, and time |
| `GameRecord` | the abstract promise that survives every overlap: a score that only grows by one legal move, a game that ends, a result only a game-ending move can replace, one rating |
| `ChessGame` | the abstract promise when handlers do not overlap: a whole request is one step of a game of chess with clocks and draw offers |
| `MC_PvpGame` | the moves, bounds and symmetry TLC uses |
| `PvpGameProofs` | the inductive invariant and the theorems |
| `Matchmaking` | the quick-match queue: the Redis keys, the script, the database check and creation, every handler cut at its awaits, expiry and restarts |
| `MC_Matchmaking` | three ratings and the symmetry |
| `MatchmakingProofs` | its theorems |
| `GameLifecycle` | a Game row before and after play: invites, rematches and the link between two games, the janitor's sweeps of both, every handler cut at its awaits |
| `MC_GameLifecycle` | the symmetry |
| `GameLifecycleProofs` | its inductive invariant and theorems |
| `Requests` | what the modules of the smaller services share: request slots and SQL NULL |
| `Ratings` | rating passes over several games: the claim, the row locks, the rows read again, the history |
| `Presence`, `PresenceProofs` | the gateway's rooms, what each socket counts, and the presence it tells the others |
| `Streak` | the day rows and the streak row of one user |
| `PuzzleProgress` | one user's attempts at one puzzle: rating, attempts, review card with its scheduler |
| `PlayerProofs` | the theorems about what is kept of a player: ratings, streak, puzzles |
| `MC_Services` | small instances of these four, one per behaviour |
| `ComputerGame`, `MC_ComputerGame`, `ComputerGameProofs` | one game against the computer: every endpoint cut at its awaits, unguarded writes, clock, takebacks |
| `LiveClient`, `LiveClientProofs` | the page of a live game against `ChessGame`, with pushes, polls, answers and faults |
| `QuickMatch` | the quick-match page against the queue as its user sees it |
| `MC_Clients` | these two pages, one per behaviour, with their fairness |
| `StockfishClient`, `StockfishProofs` | the browser's job queue over one UCI worker, with the engine as its environment |
| `MC_StockfishClient` | the symmetry |

### How `PvpGame` corresponds to the code

`status`, `verdict`, `engine` are columns of the Game row, `moveRows` is the
Move table of the game (a function from plies, so that a missing ply would
show), `rated` is the claim `whiteRatingAfter`. `agreed` is the only history
variable: the sides whose draw offer or acceptance the database has accepted.
`req[r]` is a handler: where it stands and what it carries in memory.

A request is `Receive` (the row is read, `loadGame`), `Ensure` (the unguarded
write of a fresh engine state, only when the column was NULL), `Decide` (the
synchronous code between two awaits: whose turn, the flag, legality, the offer),
one `Commit...` action per kind of write with exactly the guard of the
statement, then `SettleRead` and `Settle` for the rating pass. What `Decide`
computes is in `Plans`, one operator per endpoint. A handler whose code answers
without writing has no plan and goes idle. Two awaits with no read or write of
this state between them are one step.

Abstractions:
* A position is the sequence of moves that led to it. A move is *quiet*,
  *mating* or *drawing*; that is all the handlers ask chess.js. `MinEndPly` = 4
  because no game of chess ends by a move before the fool's mate; drawing moves
  are allowed from the same ply, earlier than chess allows.
* Time is relative: the present is instant 0 and `Tick` moves each recorded
  instant into the past, down to `-Horizon`. `Horizon` is at least everything a
  clock can hold (`BoundAssumption`), so no comparison the code makes can tell
  older instants apart. `Date.now()` is read in `Decide`, the step it belongs to.
* Pushes, analytics and PGN text write no row and are left out.
* A restart drops every handler. A handler that throws on the network is a
  restart that happens to one handler; the model restarts all of them.

### How `Matchmaking` corresponds to the code

`zset` and `entry` are the sorted set of a pool and the player's hash (`None`
when it does not exist), `mailbox` is `mm:match:*`, `games` the rows created or
activated. The two can differ: a hash expires, a member of a sorted set does
not, and that gap is where most of the interesting behaviour is. The script
`MM_JOIN_LUA` is one action, `Claim`, because Redis runs it atomically; every
other Redis or Postgres call of `join`, `status`, `leave`, `dequeue` and
`createMatchedGame` is an action of its own. `due` counts, per player, the joins
that reached the script less the pairings: history, read by no action.
`Accept` is the other way into a game, an accepted invite or rematch: it
activates a row without a look at the queue and then dequeues both players.

Abstractions:
* A player's rating is constant, so the score in the set is `Rating`. The pools
  of the code differ in time control and in rated or casual; here they are names.
* The window of a poll is any member of `Windows` (it widens with waiting time).
* `ZRANGEBYSCORE ... LIMIT 0 20` is not cut at 20. `NoMissedPair` (a theorem)
  says that two members of one pool are more than the base window of 200 points
  apart, so the widest window, 800 points to either side, holds at most eight of
  them; nine with the caller's own. The limit is never reached.
* Of equally distant candidates the code takes the first; the model takes any.

### How `GameLifecycle` corresponds to the code

`rows` are the Game rows in order of creation, with the columns the handlers
read: status, `invite` (a token is set), the two seats, `link`
(`rematchGameId`), `by` (`rematchOfferedBy`), `started` (`startedAt` is set).
`late` says that a pending row is older than its time to live. `parent` and
`asked` are history, read by no action: the game a row is the rematch of, and
who asked for it. `req[r]` is a handler and what it read before its write;
`janitor` is the sweep, which scans for stale offers and then takes them one
by one, each in a transaction of its own.

A request reads its row (`Preview`, `AcceptInvite`, `CancelInvite`,
`OfferRematch`, `AcceptRematch`, `DeclineRematch`); if its checks pass it
writes in a later step, `Commit...`, under the guard of the statement, which
for `CommitAbort` is no guard at all. Transactions are one step: what they
write stays locked until they commit, so another handler sees all of it or
nothing. `CommitOffer` is the one with a rollback: it creates the next game
and claims the link, and if the link is taken it creates nothing and reloads
the row (`Reload`), where the other player's offer counts as consent.

Abstractions:
* Play is `EndGame`: an active game is completed or aborted, and an aborted one
  can still be completed by a move on its way (`PvpGame` shows how). The sweep
  of games nobody fetched is an action of `PvpGame` and one of these ends.
* Time is `Age`: a pending row gets old at any moment.
* The dequeue of both players after an accept is in `Matchmaking`.
* A row is served to its two players only; who is not a player of a game is
  refused before anything is read, and makes no request here.

### How `StockfishClient` corresponds to the code

A job is one caller's search. `queue` is the promise chain `currentJob`,
`promise` the module variable `workerPromise` (a worker, nothing, or a
rejection that stays), `lines` the `info` lines a job's listener has collected, `inbox`
and `outbox` the two message queues between page and worker. `answer` and
`endedBy` record what a job was settled with and by whose `bestmove`. A job
passes through `Call`, `Create` or `Wait`, `Begin` (options, position and `go`
are posted), `Hear` or `Drop` for each message, `Timeout` or `Cancel`.
The engine is external: it answers `go` with some `info` lines and one
`bestmove`, and plays under the options it was last sent. `stop` only makes the
engine answer sooner, which it may do anyway, so it is no message here. One thing
to know when reading `Create`: if the `Worker` constructor throws, the executor's
`workerPromise = null` runs before the assignment it is part of, so the module
keeps a rejected promise, and every later search rejects without a new attempt.
The call may be a job's (`ConstructorThrows`) or `warmUp`'s (`WarmUpThrows`). An ELO
target is moved into the range the engine has (`Clamped`), and `SearchesAsAsked`
compares what the engine plays with the target so moved.

### How `ComputerGame` corresponds to the code

`status`, `verdict`, `engine` and `moveRows` are what they are in `PvpGame`;
`setup` holds the columns fixed at creation (who is human, who moves first, a
clock or none, a FEN that may be over already). The server runs no engine: the
browser posts the computer's moves too. A handler reads the row and decides in
one step (`Receive`, with a plan per endpoint) and writes by id in another
(`CommitMove`, `CommitEnd`, `CommitOffer`, `CommitTruncate`, `CommitAbort`), so
a plan can land on a row that has changed. `torn` notes when one does: the
promises of the comments are stated while it is false, what survives every
overlap without it. `offered` is history too, the last word on a draw.
A takeback and a rewind cut the engine state back to an earlier ply and give each side
the budget its last move left (`TruncateToPly`). Abstractions: positions and
moves as in `PvpGame`; the bot's strength, the PGN and the evaluation are left
out; `rematch` reads one game and creates another.

### How the four services correspond to the code

`Ratings`: a pass is `StartPass` (reads the game, outside a transaction),
`EnsureRows`, then one transaction: `ClaimGame`, `LockRow` twice in the order of
the row ids, `RereadRows`, `CommitPass`. A transaction that must wait for a lock
has no step until it is free. Postgres runs at read committed, as the code
leaves it, so what was read before a lock counts for nothing after it. A rating
is the sequence of the games that made it: two passes commute only if the code
makes them.

`Presence`: `room` is Socket.IO's room, `gameIds` what the socket keeps of its
own, `shown` what each client was last told. A join is `JoinRoom` (the limit is
tested), `EnterRoom` (the row was read), `CountRoom` (the game is counted and the
room is read) and `EmitPresence` (what was read is sent); a leave is `LeaveRoom`,
`ForgetRoom` and `EmitPresence`, and a disconnect tells the games of its socket one by one
(`TellNext`). A socket that is gone enters no room, but its handlers run on. `crossed` and `overtaken` are history: a leave met the join of its own game,
a broadcast was out of date when it was sent.

`Streak`: an activity is `FindDay`, `UpsertDay`, `ReadStreak`, `WriteStreak`, with
`Midnight` and failures in between. Days are numbered, and the day a handler
computed at its start stays its day. What counts towards the daily goal is left out.

`PuzzleProgress`: `recordAttempt` is `ReceiveAttempt`, `GetBefore`, `ReadRating`,
`UpsertRating`, `InsertAttempt`, `CountPlay`, `ReadCard`, `UpsertCard`, and a grade
of the review queue `ReceiveGrade`, `WriteGrade`. The scheduler is concrete: SM-2 with ease
factors in hundredths, so that `Math.round` of a product is exact (`Rounded`).
A rating is the sequence of the outcomes that made it.

### How `LiveClient` corresponds to the code

The server is an instance of `ChessGame`: the page is checked against what
`PvpGame` promises when handlers do not overlap. `shown` is what the page shows,
cut down to what the staleness test looks at (ply, status) and the draw offer,
which a merge may lose; `preview` is the move put on the board before it is
confirmed. A push (`DeliverPush`) and the answer of a GET (`DeliverGet`) go
through the guarded `Merge`; the answer of the player's own request replaces the
page (`Settle`), and a refused move goes back to the state its handler captured
(`Rollback`). `Resync` is the GET owed to pushes that came while submitting; a
reconnect sends one if the socket was up before (`hadConnected`), and so does a tab
that wakes or comes online (`Wake`).
`missed`, `slipped` and `doubled` are history. Pushes on their way form a set, in
no order. A flag that falls is, to the page, the opponent's resignation.

### How `QuickMatch` corresponds to the code

`phase`, `found`, `rejoins` are the hook's state and refs, `joinCall` and
`pollCalls` its requests. A poll in flight is not called back by a cancel or an
unmount: `page` says whether the page that sent it is still there, and a page
left while searching leaves its `phaseRef` at `searching`, so its poll
re-joins. The interval awaits none of its polls: each slot of `Pollers` is one that
may be under way beside the others, and their answers are delivered in any order. Of the server there is what this user sees: the entry with its TTL
(`fresh`, `aged`, `none`), a claim by an opponent and the game that follows or
fails, the mailbox, the active game. The interleavings inside those handlers
are `Matchmaking`'s; here each request is answered in one step, or lost, or its
answer is. Entering a game by an invite is left out.

## Runs

| run | asks | instance | result |
|---|---|---|---|
| `pvp_overlap` | what survives every overlap? | two overlapping handlers, all eight endpoints, quiet, mating and drawing moves, untimed, janitor, restarts | the score never forks, the board's result stands, a draw takes both sides; implements `GameRecord` |
| `pvp_serial` | is the service right when nothing overlaps? | one handler, timed with increment, all endpoints | no update is lost; implements `ChessGame` |
| `pvp_flag` | clocks under overlap, and does a game end? | two handlers, timed, polls, moves and offers, restarts, fairness | no persisted budget is empty; `GameEnds` |
| `double_finalize` | the comment of `finalize` | the same as `pvp_overlap` | violated, see below |
| `lifecycle` | what do invites and rematches promise whatever overlaps? | two handlers and the janitor, three players, one invite, two rematches | an offer is linked, a link is live, one rematch starts, both asked for it, a seat once taken and an end once reached stay |
| `mm_overlap` | what does the script promise whatever overlaps? | two handlers, three players, two pools, expiry, restarts, failed creations | no pair is missed; a join is paired once |
| `mm_serial` | do the checks work when handlers do not overlap? | one handler, failed creations, restarts between any two awaits, five joins | no second game, one queue per user |
| `computer_game` | what is left of a game without guarded writes? | two handlers, all endpoints, timed and untimed, set-up positions, restarts | an active game can be played on, the clock follows the score, the rows are the moves, ends are explained |
| `services` | what survives overlap and failure in the smaller services? | two handlers; three games that share players; two sockets and two games, or one socket and three; four days; one puzzle | eleven properties hold |
| `clients` | do the pages end up where the game is? | one request of the player and one GET at a time, two tries, one fault; two searches, two games, one loss; two polls at once in one search, one loss; fairness | no transport rewinds the board, dropped pushes lose nothing, the page catches up; a game made is shown if a re-join is left for each poll in flight, an abandoned search is forgotten |
| `stockfish_faults` | what survives cancels, timeouts, dead workers, and does every caller get an answer? | three searches, one with two lines below the weakest ELO level, two workers, every fault, fairness | options never leak; a foreign answer is always one somebody gave up on; every job settles |
| `stockfish_late` | the comment of `cancel` | the same as faults | violated, see below |

More configurations stay beside these runs, to be run by hand
(`tlc -config X.cfg M`): those named under "What the models found", each of
which finds one promise broken, and
* `PvpGame_promises.cfg`: one handler; a flag falls on the side to move, a game
  is finalized once, aborted early, and an offer stands. They hold;
* `LiveClient.cfg`: the game page of `clients` by itself with two faults;
  `LiveClient_overlap.cfg`: two requests of the player at once, safety only. Both hold;
* `Stockfish_step.cfg`: a worker that owes nothing but the listening search's
  answer is back in step. It holds.

Bounds of the PvP runs. Two handlers: every hazard on the list is a pair of a stale read and
a write, and the inductive invariant is proved for any number. Four plies
(`pvp_overlap`): the shortest game a move can end, so that two moves compete for
its last ply and requests of every kind for its result. The abort limit is lowered with the
number of plies where a run needs both sides of it. `pvp_serial` switches
the janitor off: its one statement between the read and the write of a single
handler is itself an overlap, the subject of `PvpGame_swept.cfg`. `pvp_flag` has one
ply and a budget of one instant: that a budget reaches nought is the point.

Bounds of the matchmaking runs. Three players are a caller, a candidate and one
out of reach until the window widens; two pools are needed to switch; two
handlers because every race on the list is a pair. `MaxJoins` is total: three
joins let a player join twice beside another, five in the serial run leave room for
switching pools and coming back. One created game suffices for properties of
the queue, two for a second game of a player.

Bounds of the lifecycle run. One invite, because invites do not meet; three
rows, so that a rematch can be declined or swept and offered again, and so that a
rematch can have a rematch; three players, so that two of them can accept one
invite. Two handlers beside the janitor: the theorems below hold for any
number of handlers and rows. Nothing is said of liveness here: a rematch nobody
answers is swept only by a timer, and an offer may be repeated for ever.

Bounds of the computer game. Two plies: one of each side, so that a takeback
has one or both to take, and the second can end the game. A budget of two
instants: one can be spent and the flag can still fall. The human has white,
which costs nothing: either side moves first.

Bounds of the services. Every behaviour belongs to one service, chosen at the start;
two handlers each. Three games: two between the same players with the
colours swapped, without which no order of locks is wrong, and one with a third
player, who can be waited for. One room per socket, so that a second join is at
the limit. Four days: a run of two, a gap, and a new run. Two attempts and two
lapses: the card graduates in up to eight reviews between them.

Bounds of the client runs. One request of the player at a time, because the
page's own controls are off while submitting; the keys that are not are the
subject of `LiveClient_overlap.cfg`. One GET at a time: the interval is seconds
long. Two plies: a move of the page and one of the opponent's (`LiveClient.cfg` has
three). The search comes in two sizes, one per behaviour. `quick` has two searches and
two games, a second search that meets what the first left behind, and polls one at a
time. `overlap` has one search, one game and two polls at a time, with which one answer
can overtake another; more polls only spend more re-joins. Two re-joins stand for
five: with two polls in flight one spends the first, the other the second.

Bounds of the Stockfish runs. Three searches: one given up, one that hears its
late answer, one after it; two of them are asked about finished games, whose
engine has no `info` to give. Two workers: the one that died and its replacement;
an error is delivered only while a replacement is left, because the page can
always start one.

Deadlock checking is off in all runs: an ended game refuses every request, a
queue is bounded by its joins, and a page may stop asking for searches.

Fairness. `PvpGame` (`FairSpec`, used by `GameEnds` only): time passes and the event loop runs each handler's
next step (weak fairness). Somebody keeps the game page open: its poll (every
few seconds for ever) is received again and again, and not every single one is
cut off by a restart at the same await (strong fairness of the poll's steps).
Nothing is assumed of the players. Rating passes, moves and resignations need not happen.

`StockfishClient`: the event loop delivers what is due, timers
fire, and the UCI handshake ends in `uciok` or an error. The handshake is the
only wait the code does not put a timer on; a search is not assumed to end.

`LiveClient`: a request is answered or fails, the interval ticks and its answers
arrive. `Settle` is strongly fair, because a poll can keep taking the one GET slot it
needs, a bound of the model and none of the page. No socket has to connect, no
push to arrive and no player to play: the page catches up by its poll alone.

`QuickMatch`: requests of the page are answered or fail, each poll by itself (no poll
waits for ever because others are answered), the interval ticks while it searches, and
time wears out an entry that nobody refreshes. A leave need not arrive, an
opponent need not come, a claim need not end in a game. Losses are finite; a
mailbox may expire unread at any moment, and the property says so.

## What is proved

`PvpGameProofs` proves, for any set of handlers, any moves, any clock and any
bounds that satisfy the named assumptions of `PvpGame` and `ChessClock`:

* `Invariance`: `IInv` is inductive. The state invariants are not: what a commit
  writes comes from a handler's memory, so the invariant must say what a handler
  may hold. `SoundHandlers` does, per kind of plan: an engine state in memory
  *lags* the Move table and never contradicts it (`FollowsRows`), its budgets
  are positive, its draw offer was really made, and no move in it ended the
  game; a planned move extends such a position by one move. Because Move rows
  are only ever appended, whatever a handler held stays sound while others commit;
  the lemmas `SoundLasts` and `HandlerLasts` say so.
* `TypeCorrect`, `NeverForks`, `BoardDecides`, `DrawsAreAgreed`,
  `ClaimsAreRedundant`, `BudgetsPositive`: the state invariants of the runs.
* `OnlyTheBoard`, `RatedAtMostOnce`: the action properties.
* `ImplementsRecord`: `PvpGame` implements `GameRecord`, step by step, under
  `score <- moveRows`.

For one handler at a time (`OneAtATime`), with restarts at any await, the same
module proves what the comments promise and overlap breaks. The invariant is
another one, `SerialInv`: what the handler holds is not only sound but the row
as it is (`Current`, `Planned`), so what it writes continues the game that is
there. Other handlers never change a row under it; only the janitor may, and it
aborts a row and leaves the rest alone.
* `NothingIsLost`: the engine state is exactly the Move table.
* `FlagsFallOnTheMover`: a timeout is the mover's, with nothing left on the clock.
* `FinalizedOnceAlone`: a result is written once. `double_finalize` shows that
  two handlers break it, so the hypothesis is needed.
* `AbortsAreEarly`, for an abort limit that is not nought, since the janitor sweeps
  an empty board; `OffersOutliveOwnMoves`.
* `ImplementsChessGame`: a whole request is one step of `ChessGame`, and it is the
  write: reading, deciding and the rating pass stutter. Here the janitor is off,
  because a sweep between the read and the write is an overlap
  (`PvpGame_swept.cfg`).

`MatchmakingProofs` proves, for any players, pools, ratings, windows and
handlers, with expiry and restarts at any point:

* `TypeCorrect`, which says of every handler what it carries between awaits.
* `PairedAtMostOncePerJoin`: inductive because of its second half, that a live
  hash stands for a join not yet paired. The script deletes both hashes in the
  step that pairs.
* `NoPairIsMissed`: inductive by itself. Only the script adds to a sorted set,
  and it adds the caller only after finding nobody live within its window and
  reaping the dead, while a window is never narrower than the base.
* `PollsNeverEnqueue`: the action property, from the case analysis of the script.

The proofs go through `ClaimCases` (what the script may do) and `QueueFrame` (no
other action adds a member, makes a hash or pairs anybody).

Two more hold for one handler at a time; `mm_one_game` and `mm_two_pools` show
what each hypothesis keeps out:
* `NobodyIsMatchedTwice`, with expiry, restarts and failed creations: the pair
  about to get a game is not playing (`PairsAreFree`).
* `EachInOneQueue`, with restarts, as long as no hash expires before its member is
  reaped: whoever is in a sorted set is there by their hash (`InByHash`), and a
  handler that removes a player does it before it lets the hash go (`Orderly`).

`GameLifecycleProofs` proves, for any players, rows and handlers:

* `Invariant`: `IInv` is inductive. The four invariants of the run lean on each
  other and on the handlers: `SoundRematch` says of a rematch that it was asked
  for by whoever offered it and is linked while it is pending or started,
  `SoundLink` that a link goes nowhere else, `SoundHandler` that a handler about
  to accept was not the one who asked, `SoundJanitor` that the scan found no
  invite. What a handler knows of its rows only concerns what never changes or
  changes one way (`Grows`), so it survives every step of the others. Each write has a lemma
  of its own (`LinkRows`, `StartRows`, `WithdrawRows`, ...), and steps that touch
  no rematch are covered by `RowsKeep`.
* `TypeCorrect`, `OffersAreLinked`, `LinksAreLive`, `AtMostOneRematch`,
  `RematchesAreMutual`: the state invariants.
* `SeatsAndEndsAreKept`: the action property, by cases on the writes.

`ComputerGameProofs` proves, for any setups, moves, clock and any number of
overlapping handlers:

* `Invariance`: no write is guarded, so the invariant says of every engine state,
  in the row or in a handler's memory, that it is a game of its own: it was
  playable before its last move, and its budgets are those its moves left
  (`MoveMade` for a move, `TruncatedSound` for a takeback). Whatever is
  written over whatever, the row stays such a state.
* `TypeCorrect`, `ActivePlayable`, `ClockFollows`; and `RowsFollow`, which needs
  the history variable: until a write lands on a changed row, a plan continues
  the rows it was made from.
* `EndsExplained`, with an invariant of its own, `EndInv`: while nothing is torn,
  a plan made from the row as it still is has a reason for the end it will write
  (`Justified`), and an offer that stands was the last word on a draw.

`PlayerProofs`, for any games, players and passes:

* `RatingsInvariance`: transactions exclude each other on what they hold, a
  transaction's game is unclaimed, and what was read under the locks is still
  there when it commits. From it `ChainHolds` and `CountsOnce`.
* `LocksNeverDeadlock`: of the passes that wait for a row while holding one, the one
  that wants the highest row id waits for a pass that is not among them: that one holds what it
  needs. `Req` is finite for that (`RequestsAssumption`).

`PresenceProofs`, for any sockets, games and handlers:

* `RoomsBounded`: every join under way took a slot below the limit
  (`JoinsHaveSlots`), and there are no more of them than handlers.
* `JoinedInRoom`: what a socket counts and where it is differ by exactly what is under way
  (`InStep`), unless a leave ran into a join.
* `PresenceRight`: every room is either shown right to all who are in it, or some
  handler still has the broadcast of it before it (`ToldOrOwed`): whoever changes a
  room owes it one, and whoever counts on leaving a game goes on to tell it.

`PlayerProofs` on the streak: `StreaksAreBacked`, from what a handler holds between its calls:
its day has a row before it reads the streak, and day rows are never removed.
`StreakIsRun`: until today's write the row is right for the days before today,
and a row about to be written is right for all of them (`RowIsRight`). The arithmetic
is in the lemmas on `RunIn`, the length of the run of days that ends at a day:
a new last day continues the run of the day before or starts one, and makes no
other run longer.

`PlayerProofs` on puzzles: `CardsAreLearnable` (a card's interval is at least that of the shortest
ladder with as many successes, which graduates after eight),
`LearnedInThreeHolds`, and `AttemptsExplain` (every step of the rating has its attempt,
inserted or about to be).

`StockfishProofs`, for any searches, workers and faults:

* `Invariance`: a worker owes the page one `bestmove` for each search posted to it:
  in its inbox, running, or on its way back (`Owes`), and never twice (`Once`).
  What it owes was posted to this worker, has settled nobody yet, and is either
  waited for or excused (`Debt`): given up, or settled by a foreign answer.
* `SearchesKeepTheirOptions`: options and `go` are posted in one step, and a worker
  runs its inbox in order.
* `ForeignIsGivenUp`: a `bestmove` ends a search it does not belong to only if its own
  search was cancelled, timed out, or was ended by a foreign one before: only the head
  of the chain waits, so what else is owed is owed to somebody excused.

`LiveClientProofs`, for any number of requests, polls and faults:

* `Invariance`: everything shown, kept for a rollback or on its way was once the
  state of the game, which only moves on (`AllPast`). A page that is not up to date
  is submitting, owes itself a GET, has asked for one that will tell it, or
  has news on its way (`Informed`): a push that is dropped while submitting leaves `resync`
  behind.
* `QuietPageIsCurrent`: with nothing under way none of the other cases is left.
* `BoardIsNeverRewound`: the action property. An answer to the page's own request is
  no older than what is shown, and what a rollback restores is what was
  shown before (`MovesOn`).

The assumptions of all these theorems are the named ones of the modules:
`Req` is finite, `None` differs from the values it stands beside, the bounds are
natural numbers, row ids are distinct. TLC evaluates them in the runs.

Each safety property of a passing run is a theorem. Only model-checked:
* liveness under fairness, which is out of the prover's reach: `GameEnds`,
  `EveryJobSettles`, `CatchesUp`, `GameIsShown`, `AbandonedIsForgotten`. The last two
  are all that the runs say of `QuickMatch`, which therefore has no theorems;
* the broken promises of the next section: a counterexample is an instance.

## What the models found

Comments or error messages that promise more than the code does. Two have a
listed run; the others are shown by the configurations named
(`tlc -config PvpGame_late_abort.cfg MC_PvpGame`, and so on).
* A move's transaction writes the Game row by id. A checkmate decided just
  before a resignation, a flag or an agreed draw committed replaces that result
  (`double_finalize`).
* `abort` counts plies, then writes under a guard that does not count them
  (`PvpGame_late_abort.cfg`).
* The first fetch writes a fresh engine state without a guard. A second, slower
  first fetch puts the initial position back after the first move; from then on
  the next move collides with the unique ply and the game cannot be played
  (`PvpGame_lost_update.cfg`).
* A player's own move, loaded before their draw offer was written, removes the
  offer (`PvpGame_own_offer.cfg`).
* The same unguarded write lands on a row the janitor has aborted (`PvpGame_swept.cfg`).
* `createMatchedGame` looks for a running game and then inserts one, in two
  calls; an accept in between leaves a player in two games (`Matchmaking_one_game.cfg`).
* A hash that expired leaves its member in the sorted set. When the player joins
  another pool the member is live again in the first (`Matchmaking_two_pools.cfg`).
* A join that passed its check before an accept enqueues after the accept has
  dequeued: a player who plays is in the queue (`Matchmaking_queued.cfg`).
* Only a pending invite is to be cancelled or to expire, but the abort is by id:
  accepted between the check and the write, the game is live when it is aborted
  (`Lifecycle_expires.cfg`).
* The late `bestmove` of a cancelled search settles the next one
  (`stockfish_late`). The engine's line carries no id and the listener of the next
  search is already there.
* A computer game is written by id alone: a draw offer read before a move and
  written after it takes the move out of the engine state but not out of the
  Move table (`ComputerGame_integrity.cfg`); the next move of that ply collides.
* The staleness test of the live page is said to keep every transport from
  rewinding the board; a refused move rolls back past merges accepted since
  (`LiveClient_rewinds.cfg`), until the GET that follows it.
* A mailbox is filled whether or not the push arrives, and only a poll empties
  it. A player whose game ends within its minute and who searches again is
  sent to the old game, while the new entry stays in the queue, to be paired with
  nobody there (`QuickMatch_stale.cfg`, module `QuickMatch`).
* The poll is said to recover a missed push from the mailbox. Its interval does not wait
  for the last poll: of two that were both told that the entry is gone, the first takes
  the last re-join and the second ends the search, while the game that a claim has
  made meanwhile lies in the mailbox (`QuickMatch_recovered.cfg`, module
  `MC_Clients`). `GameIsShown` therefore asks for a re-join for each poll in flight.

Smaller things the models had to take into account, and no comment denies:
overlapping joins can exceed the limit of rooms by one less than there are of
them; a day row whose streak update failed never counts towards the streak; of two attempts at once
one rating step is lost; a cancelled or left search whose re-join was under way
stays in the queue until its entry expires.

## Not modelled

`PROJECT.json` lists every component with its status. What has no model, and why:
* the rules of chess (chess.js, the Rust engine over shakmaty), the adapters that
  choose between them, tablebases and opening trees: pure functions of a
  position, whose state space is chess itself. The models ask of a move only
  whether it is legal, mates or draws;
* Glicko-2: floating-point arithmetic with an iterative solver;
* accounts, administration and reports, the puzzle rush and mistakes: single rows or keys that
  are read and then written. Their one overlap each is listed as a hazard or is
  the whole story;
* choosing puzzles, insights, the daily plan: they only read;
* imports, mail, analytics, metrics, database and Redis clients: I/O;
* pages and components that render; browsing, sounds and the clock display of
  the live page;
* the tools bundled for the people who edit the repository. They are no
  part of the program, and make up a good part of its lines.

## Where it could go from here

* The rematch offer on the live page: it travels like a draw offer but survives
  the end of the game.
* What the hook of `QuickMatch` may never show, as safety properties with theorems.
* `QuickMatch` with `Matchmaking`'s own handlers in place of its one-step server.
