------------------------------- MODULE PvpGame --------------------------------
(***************************************************************************)
(* One live game between two people, as the API serves it                  *)
(* (games/games.service.ts), from the instant its row is `active'.         *)
(*                                                                         *)
(* Every HTTP request is a handler that reads the Game row, decides in     *)
(* memory, and writes the row back; other handlers run at each `await'.    *)
(* A slot r \in Req holds one handler, cut at its awaits:                  *)
(*                                                                         *)
(*   Receive   loadGame read the row                                       *)
(*   Ensure    ensureEngineState wrote the initial engine state            *)
(*   Decide    the synchronous part up to the next write                   *)
(*   Commit    that write, a guarded updateMany or the move's transaction  *)
(*   SettleRead, Settle   the rating pass that follows a game over         *)
(*                                                                         *)
(* Times are relative to the present, which is always instant Now = 0:     *)
(* Tick moves every recorded instant one unit into the past.               *)
(***************************************************************************)
EXTENDS ChessClock, Sequences

CONSTANTS
  Req,            \* request slots: how many handlers may overlap
  Ops,            \* the requests the clients send, see AllOps
  QuietMoves,     \* moves after which the game goes on
  MatingMoves,    \* moves that checkmate
  DrawingMoves,   \* moves that stalemate, repeat, or exhaust the material
  None,           \* SQL NULL / no value
  Timed,          \* timeControlSeconds > 0
  TimeMs,         \* initial budget of each side
  IncrementMs,
  AbortPlyLimit,  \* ABORT_PLY_LIMIT
  MaxPly,         \* bound: longest game explored
  MinEndPly,      \* bound: shortest game a move can end (4, the fool's mate)
  Horizon,        \* bound: how far in the past an instant is told apart
  Janitor         \* whether the janitor runs (it is off under test)

ASSUME MovesAssumption ==
  /\ QuietMoves \cap (MatingMoves \cup DrawingMoves) = {}
  /\ MatingMoves \cap DrawingMoves = {}

ASSUME ClockAssumption ==
  /\ Timed \in BOOLEAN
  /\ Janitor \in BOOLEAN
  /\ TimeMs \in Nat \ {0}
  /\ IncrementMs \in Nat

ASSUME BoundAssumption ==
  /\ AbortPlyLimit \in Nat
  /\ MaxPly \in Nat
  /\ MinEndPly \in Nat
  /\ Horizon \in Nat
  /\ Horizon >= TimeMs + MaxPly * IncrementMs

VARIABLES
  status,     \* Game.status
  verdict,    \* Game.result and Game.resultReason
  engine,     \* Game.engineState: NULL until a first fetch
  moveRows,   \* the Move table: ply -> move, unique per (gameId, ply)
  rated,      \* the result the rating update used (whiteRatingAfter set), or None
  req,        \* the handler in each slot
  agreed      \* history: the sides whose draw offer or acceptance was written

vars == <<status, verdict, engine, moveRows, rated, req, agreed>>

Now == 0

Move    == QuietMoves \cup MatingMoves \cup DrawingMoves
Results == {"white_wins", "black_wins", "draw"}
Reasons == {"checkmate", "drawn_position", "timeout", "resignation", "draw_agreement"}
Verdict == [result : Results, reason : Reasons]

\* The part of SerializableEngineState the handlers act on.
Engine == [moves : Seq(Move), offer : Colors \cup {None}, clock : Clock]

AllOps == {"state", "move", "resign", "offer", "accept", "decline", "claim", "abort"}

ASSUME OpsAssumption == Ops \subseteq AllOps

\* What a handler has decided to write.
Plan == [write : {"finalize"}, engine : Engine, verdict : Verdict]
        \cup [write : {"move"}, engine : Engine, verdict : Verdict \cup {None}]
        \cup [write : {"engine"}, engine : Engine]
        \cup [write : {"abort"}]

Handler ==
  [at : {"idle"}]
  \cup [at : {"ensure"}, op : Ops, by : Colors]
  \cup [at : {"decide"}, op : Ops, by : Colors, seen : Engine]
  \cup [at : {"decide"}, op : Ops \cap {"abort"}, by : Colors, seen : {None}]
  \cup [at : {"commit"}, by : Colors, plan : Plan]
  \cup [at : {"settleRead"}]
  \cup [at : {"settle"}, result : Results]

Idle == [at |-> "idle"]

ASSUME NoneAssumption == None \notin Colors \cup Results \cup Verdict \cup Engine

TypeOK ==
  /\ status \in {"active", "completed", "aborted"}
  /\ verdict \in Verdict \cup {None}
  /\ engine \in Engine \cup {None}
  /\ moveRows \in Seq(Move)
  /\ rated \in Results \cup {None}
  /\ req \in [Req -> Handler]
  /\ agreed \subseteq Colors

-----------------------------------------------------------------------------
(* The chess engine: positions are the sequences of moves that reach them. *)

Turn(moves) == IF Len(moves) % 2 = 0 THEN "w" ELSE "b"

Wins(side) == IF side = "w" THEN "white_wins" ELSE "black_wins"

NewEngine == [moves |-> << >>, offer |-> None,
              clock |-> MakeClock(TimeMs, IncrementMs, Now)]

LegalMoves(moves) ==
  IF Len(moves) >= MaxPly THEN {}
  ELSE IF Len(moves) + 1 < MinEndPly THEN QuietMoves ELSE Move

Timeout(side) == [result |-> Wins(Opponent(side)), reason |-> "timeout"]

\* engine.detectResult: the clock first, then the position.
DetectResult(s) ==
  IF IsTimeout(s.clock, Now, Turn(s.moves)) THEN Timeout(Turn(s.moves))
  ELSE IF s.moves = << >> THEN None
  ELSE LET last == s.moves[Len(s.moves)]
       IN  IF last \in MatingMoves
             THEN [result |-> Wins(Opponent(Turn(s.moves))), reason |-> "checkmate"]
           ELSE IF last \in DrawingMoves
             THEN [result |-> "draw", reason |-> "drawn_position"]
           ELSE None

\* engine.applyMove, for a side whose flag is up.
ApplyMove(s, m) ==
  LET side == Turn(s.moves)
  IN  [moves |-> Append(s.moves, m),
       offer |-> s.offer,
       clock |-> ApplyIncrement(TickClock(s.clock, Now, side), side)]

-----------------------------------------------------------------------------
(* What each handler decides from the engine state it has seen.  The set   *)
(* is empty when the handler answers without writing.                      *)

Finalize(s, v) == [write |-> "finalize", engine |-> [s EXCEPT !.offer = None], verdict |-> v]

SetOffer(s, offer) == [write |-> "engine", engine |-> [s EXCEPT !.offer = offer]]

\* Mutant: a poll does not look at the clock.
StatePlansNoFlag(s) == {}

\* A poll finalizes an idle flag fall, and only that.
StatePlans(s) ==
  LET v == DetectResult(s)
  IN  IF Timed /\ v # None /\ v.reason = "timeout" THEN {Finalize(s, v)} ELSE {}

\* An untimed game restarts its clock before every move.
ChargedClock(s) == IF Timed THEN s ELSE [s EXCEPT !.clock.lastTickAt = Now]

\* Mutant: no offer goes.
ClearNoOffer(s, side) == s

\* A move declines the opponent's draw offer; the mover's own stays.
ClearOffer(s, side) == IF s.offer = Opponent(side) THEN [s EXCEPT !.offer = None] ELSE s

\* Mutant: the result is looked up in the position before the move.
MovePlanResultBefore(s, side, m) ==
  [write |-> "move", engine |-> ClearOffer(ApplyMove(s, m), side), verdict |-> DetectResult(s)]

MovePlan(s, side, m) ==
  LET next == ApplyMove(s, m)
  IN  [write |-> "move", engine |-> ClearOffer(next, side), verdict |-> DetectResult(next)]

MovePlans(seen, side) ==
  LET s == ChargedClock(seen)
  IN  IF Turn(s.moves) # side THEN {}
      ELSE IF IsTimeout(s.clock, Now, side) THEN {Finalize(s, Timeout(side))}
      ELSE {MovePlan(s, side, m) : m \in LegalMoves(s.moves)}

ResignPlans(s, side) ==
  {Finalize(s, [result |-> Wins(Opponent(side)), reason |-> "resignation"])}

AcceptDraw(s) == Finalize(s, [result |-> "draw", reason |-> "draw_agreement"])

\* Offering against the opponent's standing offer accepts it.
OfferPlans(s, side) ==
  IF s.offer = side THEN {}
  ELSE IF s.offer # None THEN {AcceptDraw(s)}
  ELSE {SetOffer(s, side)}

\* Mutant: any standing offer can be accepted, one's own too.
AcceptAnyOffer(s, side) == IF s.offer # None THEN {AcceptDraw(s)} ELSE {}

AcceptPlans(s, side)  == IF s.offer = Opponent(side) THEN {AcceptDraw(s)} ELSE {}
DeclinePlans(s, side) == IF s.offer = Opponent(side) THEN {SetOffer(s, None)} ELSE {}

ClaimPlans(s) ==
  LET v == DetectResult(s)
  IN  IF v # None /\ v.result = "draw" THEN {Finalize(s, v)} ELSE {}

AbortPlans(seen) ==
  LET plies == IF seen = None THEN 0 ELSE Len(seen.moves)
  IN  IF plies < AbortPlyLimit THEN {[write |-> "abort"]} ELSE {}

Plans(op, side, seen) ==
  CASE op = "state"   -> StatePlans(seen)
    [] op = "move"    -> MovePlans(seen, side)
    [] op = "resign"  -> ResignPlans(seen, side)
    [] op = "offer"   -> OfferPlans(seen, side)
    [] op = "accept"  -> AcceptPlans(seen, side)
    [] op = "decline" -> DeclinePlans(seen, side)
    [] op = "claim"   -> ClaimPlans(seen)
    [] op = "abort"   -> AbortPlans(seen)

-----------------------------------------------------------------------------
Init ==
  /\ status = "active"
  /\ verdict = None
  /\ engine = None
  /\ moveRows = << >>
  /\ rated = None
  /\ req = [r \in Req |-> Idle]
  /\ agreed = {}

\* The check on the row a handler loads: an ended game is answered as it is.
MayAct == status = "active"

\* Mutant: the engine state is created on every fetch.
AlwaysCreated(op) == op # "abort"

\* Only abort works from a NULL engine state.
MustCreate(op) == engine = None /\ op # "abort"

\* loadGame, at the start of every handler.
Receive(r, op, side) ==
  /\ req[r] = Idle
  /\ MayAct
  /\ req' = [req EXCEPT ![r] =
       IF MustCreate(op)
       THEN [at |-> "ensure", op |-> op, by |-> side]
       ELSE [at |-> "decide", op |-> op, by |-> side, seen |-> engine]]
  /\ UNCHANGED <<status, verdict, engine, moveRows, rated, agreed>>

\* The first fetch creates the engine state; the write has no guard.
Ensure(r) ==
  /\ req[r].at = "ensure"
  /\ engine' = NewEngine
  /\ req' = [req EXCEPT ![r] =
       [at |-> "decide", op |-> @.op, by |-> @.by, seen |-> NewEngine]]
  /\ UNCHANGED <<status, verdict, moveRows, rated, agreed>>

Decide(r) ==
  /\ req[r].at = "decide"
  /\ LET h     == req[r]
         plans == Plans(h.op, h.by, h.seen)
     IN  \/ /\ plans = {}
            /\ req' = [req EXCEPT ![r] = Idle]
         \/ \E p \in plans :
              req' = [req EXCEPT ![r] = [at |-> "commit", by |-> h.by, plan |-> p]]
  /\ UNCHANGED <<status, verdict, engine, moveRows, rated, agreed>>

Committing(r, write) == req[r].at = "commit" /\ req[r].plan.write = write

\* Mutant: the write has no guard.
Unguarded == TRUE

\* updateMany where status is `active': the guard most writes carry.
StillActive == status = "active"

\* finalize: the write is guarded on `active'; the loser gets a Conflict.
CommitFinalize(r) ==
  /\ Committing(r, "finalize")
  /\ LET p == req[r].plan IN
       IF StillActive
       THEN /\ status' = "completed"
            /\ verdict' = p.verdict
            /\ engine' = p.engine
            /\ agreed' = IF p.verdict.reason = "draw_agreement"
                         THEN agreed \cup {req[r].by} ELSE agreed
            /\ req' = [req EXCEPT ![r] = [at |-> "settleRead"]]
       ELSE /\ req' = [req EXCEPT ![r] = Idle]
            /\ UNCHANGED <<status, verdict, engine, agreed>>
  /\ UNCHANGED <<moveRows, rated>>

\* Mutant: (gameId, ply) is not unique.
AnyPly(ply) == TRUE

PlyFree(ply) == ply \notin DOMAIN moveRows

InsertRow(ply, m) ==
  [i \in DOMAIN moveRows \cup {ply} |-> IF i = ply THEN m ELSE moveRows[i]]

\* The move's transaction: the Move row is unique per ply, and a taken ply
\* rolls everything back; the Game row is written whatever its status.
CommitMove(r) ==
  /\ Committing(r, "move")
  /\ LET p   == req[r].plan
         ply == Len(p.engine.moves)
     IN  IF PlyFree(ply)
         THEN /\ moveRows' = InsertRow(ply, p.engine.moves[ply])
              /\ engine' = p.engine
              /\ IF p.verdict # None
                 THEN /\ status' = "completed"
                      /\ verdict' = p.verdict
                      /\ req' = [req EXCEPT ![r] = [at |-> "settleRead"]]
                 ELSE /\ req' = [req EXCEPT ![r] = Idle]
                      /\ UNCHANGED <<status, verdict>>
         ELSE /\ req' = [req EXCEPT ![r] = Idle]
              /\ UNCHANGED <<status, verdict, engine, moveRows>>
  /\ UNCHANGED <<rated, agreed>>

\* A draw offer or its refusal writes back the whole engine state it saw.
CommitEngine(r) ==
  /\ Committing(r, "engine")
  /\ IF StillActive
     THEN /\ engine' = req[r].plan.engine
          /\ agreed' = agreed \cup ({engine'.offer} \ {None})
     ELSE UNCHANGED <<engine, agreed>>
  /\ req' = [req EXCEPT ![r] = Idle]
  /\ UNCHANGED <<status, verdict, moveRows, rated>>

CommitAbort(r) ==
  /\ Committing(r, "abort")
  /\ IF StillActive
     THEN /\ status' = "aborted"
          /\ verdict' = None
     ELSE UNCHANGED <<status, verdict>>
  /\ req' = [req EXCEPT ![r] = Idle]
  /\ UNCHANGED <<engine, moveRows, rated, agreed>>

\* processGameResult reads the game outside its transaction ...
SettleRead(r) ==
  /\ req[r].at = "settleRead"
  /\ req' = [req EXCEPT ![r] =
       IF status = "completed" /\ rated = None
       THEN [at |-> "settle", result |-> verdict.result] ELSE Idle]
  /\ UNCHANGED <<status, verdict, engine, moveRows, rated, agreed>>

ClaimsUnrated == rated = None

\* ... and claims it inside: the first writer wins, the others roll back.
Settle(r) ==
  /\ req[r].at = "settle"
  /\ rated' = IF ClaimsUnrated THEN req[r].result ELSE rated
  /\ req' = [req EXCEPT ![r] = Idle]
  /\ UNCHANGED <<status, verdict, engine, moveRows, agreed>>

\* A failed rating pass is logged and forgotten.
SettleFails(r) ==
  /\ req[r].at \in {"settleRead", "settle"}
  /\ req' = [req EXCEPT ![r] = Idle]
  /\ UNCHANGED <<status, verdict, engine, moveRows, rated, agreed>>

\* The janitor aborts an active game nobody has fetched.
SweepNeverFetched ==
  /\ Janitor
  /\ status = "active"
  /\ engine = None
  /\ status' = "aborted"
  /\ UNCHANGED <<verdict, engine, moveRows, rated, req, agreed>>

\* The API process restarts: every handler is gone, the database stays.
Restart ==
  /\ req' = [r \in Req |-> Idle]
  /\ UNCHANGED <<status, verdict, engine, moveRows, rated, agreed>>

\* Time passes: instants older than the horizon are not told apart.
Older(s) == [s EXCEPT !.clock.lastTickAt = IF @ > -Horizon THEN @ - 1 ELSE @]

OlderHandler(h) ==
  IF h.at = "decide" /\ h.seen # None THEN [h EXCEPT !.seen = Older(@)]
  ELSE IF h.at = "commit" /\ h.plan.write # "abort" THEN [h EXCEPT !.plan.engine = Older(@)]
  ELSE h

Tick ==
  /\ Timed
  /\ engine' = IF engine = None THEN None ELSE Older(engine)
  /\ req' = [r \in Req |-> OlderHandler(req[r])]
  /\ UNCHANGED <<status, verdict, moveRows, rated, agreed>>

Handle(r) ==
  \/ Ensure(r)
  \/ Decide(r)
  \/ CommitFinalize(r)
  \/ CommitMove(r)
  \/ CommitEngine(r)
  \/ CommitAbort(r)
  \/ SettleRead(r)
  \/ Settle(r)

Next ==
  \/ \E r \in Req : \/ \E op \in Ops, side \in Colors : Receive(r, op, side)
                    \/ Handle(r)
                    \/ SettleFails(r)
  \/ SweepNeverFetched
  \/ Restart
  \/ Tick

Spec == Init /\ [][Next]_vars

-----------------------------------------------------------------------------
(* What survives every overlap of handlers, janitor and restarts.          *)

\* An engine state agrees with the Move rows: its moves are the first rows.
FollowsRows(s, rows) ==
  /\ Len(s.moves) <= Len(rows)
  /\ \A i \in 1..Len(s.moves) : s.moves[i] = rows[i]

\* The persisted engine state never holds a move the Move table does not
\* hold at that ply: review, PGN and board can lag but never fork.
EngineNeverForks == engine # None => FollowsRows(engine, moveRows)

EndingMoves == MatingMoves \cup DrawingMoves

EndedByMove == moveRows # << >> /\ moveRows[Len(moveRows)] \in EndingMoves

\* The result a game-ending last move gives.
BoardVerdict ==
  IF moveRows[Len(moveRows)] \in MatingMoves
  THEN [result |-> Wins(Opponent(Turn(moveRows))), reason |-> "checkmate"]
  ELSE [result |-> "draw", reason |-> "drawn_position"]

\* Once a game-ending move is in the Move table it is the last one, and the
\* row says so for good: no resignation, flag, draw or abort in flight
\* can take a checkmate away.
BoardResultStands ==
  /\ EndedByMove => status = "completed" /\ verdict = BoardVerdict
  /\ \A i \in DOMAIN moveRows : moveRows[i] \in EndingMoves => i = Len(moveRows)

\* A game is drawn by agreement only when both sides asked for it: one side
\* alone cannot end the game, whatever stale offer its handler saw.
DrawNeedsBothSides ==
  verdict # None /\ verdict.reason = "draw_agreement" => agreed = Colors

\* A drawing position always ends the game in the move that reaches it, so
\* a draw claim never finds one: no claim ever reaches the write.
ClaimNeverHonoured ==
  \A r \in Req : Committing(r, "finalize") =>
                   req[r].plan.verdict.reason # "drawn_position"

\* Only a game-ending move, accepted while its handler still saw the game
\* active, can change what an ended row says; and no row becomes active again.
OnlyTheBoardOverturns ==
  [][ status # "active" /\ <<status, verdict>>' # <<status, verdict>>
      => /\ status' = "completed"
         /\ moveRows' # moveRows
         /\ EndedByMove' ]_vars

\* Whatever was lost on the way, neither budget is ever used up in the
\* persisted state: a move that arrives with nothing left loses instead.
ClocksNeverEmpty ==
  engine # None => engine.clock.w > 0 /\ engine.clock.b > 0

\* The rating update of a game happens at most once, and uses a result the
\* row has held.
RatedOnce ==
  [][ rated' # rated => rated = None /\ status = "completed" ]_vars

\* Whatever overlaps, the Move table is a game score and the board decides.
Record == INSTANCE GameRecord WITH score <- moveRows

RecordSpec == Record!Spec

-----------------------------------------------------------------------------
(* The inductive invariant behind these: what every engine state in the    *)
(* database or in a handler's hands satisfies.                             *)

\* It lags the Move rows without contradicting them, both budgets are
\* positive, and its draw offer was really made.
Sound(s, rows, asked) ==
  /\ FollowsRows(s, rows)
  /\ s.clock.w > 0 /\ s.clock.b > 0
  /\ s.offer # None => s.offer \in asked

\* No move in it ended the game: it was read while the game was active.
Open(moves) == \A i \in 1..Len(moves) : moves[i] \notin EndingMoves

OffBoard(v) == v.reason \in {"timeout", "resignation", "draw_agreement"}

\* The result a position with at least one move gives by itself.
VerdictOf(moves) ==
  LET last == moves[Len(moves)]
  IN  IF last \in MatingMoves
        THEN [result |-> Wins(Opponent(Turn(moves))), reason |-> "checkmate"]
      ELSE IF last \in DrawingMoves
        THEN [result |-> "draw", reason |-> "drawn_position"]
      ELSE None

SoundFinalize(p, side, rows, asked) ==
  /\ Sound(p.engine, rows, asked)
  /\ Open(p.engine.moves)
  /\ OffBoard(p.verdict)
  /\ p.verdict.reason = "draw_agreement" => Opponent(side) \in asked

\* A move plan extends a position that agrees with the rows by one move.
SoundMove(p, rows, asked) ==
  LET n == Len(p.engine.moves)
  IN  /\ n > 0
      /\ n - 1 <= Len(rows)
      /\ \A i \in 1..(n - 1) : /\ p.engine.moves[i] = rows[i]
                               /\ p.engine.moves[i] \notin EndingMoves
      /\ p.engine.clock.w > 0 /\ p.engine.clock.b > 0
      /\ p.engine.offer # None => p.engine.offer \in asked
      /\ p.verdict = VerdictOf(p.engine.moves)

SoundOffer(p, rows) ==
  /\ FollowsRows(p.engine, rows)
  /\ p.engine.clock.w > 0 /\ p.engine.clock.b > 0
  /\ Open(p.engine.moves)

SoundHandler(h, rows, asked) ==
  /\ h.at = "decide" /\ h.seen # None => Sound(h.seen, rows, asked) /\ Open(h.seen.moves)
  /\ h.at = "commit" =>
       CASE h.plan.write = "finalize" -> SoundFinalize(h.plan, h.by, rows, asked)
         [] h.plan.write = "move"     -> SoundMove(h.plan, rows, asked)
         [] h.plan.write = "engine"   -> SoundOffer(h.plan, rows)
         [] h.plan.write = "abort"    -> TRUE

SoundEngine == engine # None => Sound(engine, moveRows, agreed)

SoundHandlers == \A r \in Req : SoundHandler(req[r], moveRows, agreed)

IInv ==
  /\ TypeOK
  /\ SoundEngine
  /\ SoundHandlers
  /\ BoardResultStands
  /\ DrawNeedsBothSides
  /\ status = "completed" <=> verdict # None

-----------------------------------------------------------------------------
(* What the service's comments promise.  One handler at a time keeps all   *)
(* of it; two that overlap break each of the named promises below.         *)

\* finalize: two completion paths racing cannot double-finalize.
FinalizedOnce ==
  [][ status = "completed" => verdict' = verdict ]_vars

\* ABORT_PLY_LIMIT: a game is aborted only while fewer plies are on the board.
AbortedEarly ==
  [][ status = "active" /\ status' = "aborted" => Len(moveRows) < AbortPlyLimit ]_vars

\* Move rows and engineState are persisted together: no row is ever missing
\* from the engine state, so the next ply is free and play can go on.
NothingLost == engine # None => engine.moves = moveRows

\* The offerer's own move leaves their offer standing.
OwnOfferStands ==
  [][ \A side \in Colors :
        /\ engine # None /\ engine.offer = side
        /\ status = "active" /\ Turn(moveRows) = side
        /\ moveRows' # moveRows
        => engine'.offer = side ]_vars

\* The janitor cannot race a fetch into a bad state: after it aborts a game
\* nobody fetched, the losing fetch writes nothing.
SweptStaysSwept ==
  [][ status = "aborted" /\ engine = None => engine' = None ]_vars

\* A side loses on time only in a position where it is to move and its
\* budget is used up, and that position stays the last.
FlagFellOnTheMover ==
  verdict # None /\ verdict.reason = "timeout" =>
    /\ verdict = Timeout(Turn(moveRows))
    /\ IsTimeout(engine.clock, Now, Turn(moveRows))

\* With one handler at a time the game is the atomic one.
Atomic == INSTANCE ChessGame WITH
  moves <- moveRows,
  offer <- IF engine = None THEN None ELSE engine.offer

AtomicSpec == Atomic!Spec

-----------------------------------------------------------------------------
(* Time passes, handlers run, somebody keeps polling the game, and no      *)
(* restart hits every poll at the same await.                              *)

Poll == \E r \in Req, side \in Colors : Receive(r, "state", side)

ForPoll(r) == req[r].op = "state"

Fairness ==
  /\ WF_vars(Tick)
  /\ SF_vars(Poll)
  /\ \A r \in Req : /\ WF_vars(Handle(r))
                     /\ SF_vars(Ensure(r) /\ ForPoll(r))
                     /\ SF_vars(Decide(r) /\ ForPoll(r))
                     /\ SF_vars(CommitFinalize(r))

FairSpec == Spec /\ Fairness

\* A timed game that somebody keeps open ends, even if both players walk
\* away and whatever updates were lost on the way.
GameEnds == <>(status # "active")
===============================================================================
