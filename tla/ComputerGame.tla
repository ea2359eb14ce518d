----------------------------- MODULE ComputerGame -----------------------------
(***************************************************************************)
(* One game of a human against the computer, as the API serves it          *)
(* (computer-games/).  The server runs no engine: the browser plays the    *)
(* computer's moves too, through the endpoint the human's moves use.       *)
(*                                                                         *)
(* A handler reads the Game row, decides what to write, and writes it      *)
(* after an await.  Every write is by id: no statement looks at the status *)
(* or at the engine state it replaces.  A slot r \in Req holds one handler *)
(* between its read and its write.  The present is instant Now = 0, as in  *)
(* ChessClock's other users: Tick moves each recorded instant back.        *)
(***************************************************************************)
EXTENDS ChessClock, Sequences, Functions

CONSTANTS
  Req,            \* request slots: how many handlers may overlap
  QuietMoves,     \* moves after which the game goes on
  MatingMoves,    \* moves that checkmate
  DrawingMoves,   \* moves that stalemate, repeat, or exhaust the material
  None,           \* SQL NULL / no value
  TimeMs,         \* engineTimeMs: the initial budget, or the untimed sentinel
  IncrementMs,
  Setups,         \* the games that are created, see Setup
  MaxPly,         \* bound: longest game explored
  Horizon         \* bound: how far in the past an instant is told apart

Move    == QuietMoves \cup MatingMoves \cup DrawingMoves
Results == {"white_wins", "black_wins", "draw"}
Reasons == {"checkmate", "drawn_position", "timeout", "resignation", "draw_agreement"}
Verdict == [result : Results, reason : Reasons]

\* The columns that never change: who moves first (a FEN may say black), the
\* human's colour, whether the clock counts, and what the first position is.
Setup == [first : Colors, human : Colors, timed : BOOLEAN,
          start : {"open", "mated", "drawn"}]

ASSUME MovesAssumption ==
  /\ QuietMoves \cap (MatingMoves \cup DrawingMoves) = {}
  /\ MatingMoves \cap DrawingMoves = {}

ASSUME SetupAssumption == Setups \subseteq Setup

ASSUME BoundAssumption ==
  /\ TimeMs \in Nat \ {0}
  /\ IncrementMs \in Nat
  /\ MaxPly \in Nat
  /\ Horizon \in Nat
  /\ Horizon >= TimeMs + MaxPly * IncrementMs

VARIABLES
  setup,      \* the columns fixed when the row is created
  creating,   \* the engine state createGame is about to write, or None
  status,     \* Game.status
  verdict,    \* Game.result and Game.resultReason
  engine,     \* Game.engineState
  moveRows,   \* the Move table: ply -> played move, unique per (gameId, ply)
  req,        \* the handler in each slot
  torn,       \* history: a handler wrote over a row that had changed since its read
  offered     \* history: the last offer, refusal or takeback written was an offer

vars == <<setup, creating, status, verdict, engine, moveRows, req, torn, offered>>

Now == 0

\* A recorded move carries what its mover had left on the clock.
Played == [move : Move, clockAfterMs : Int]

\* pendingDrawOfferBy is only ever the human, so offer is a flag.
Engine == [moves : Seq(Played), offer : BOOLEAN, clock : Clock]

\* What a handler is about to write; engine is None if it leaves that column.
Plan ==
  [write : {"move"}, engine : Engine, verdict : Verdict \cup {None}]
  \cup [write : {"end"}, engine : Engine \cup {None}, verdict : Verdict]
  \cup [write : {"offer", "truncate"}, engine : Engine]
  \cup [write : {"abort"}]

\* fresh (history): nobody else has written the row since the handler read it.
Handler == {None} \cup [plan : Plan, fresh : BOOLEAN]

ASSUME NoneAssumption ==
  None \notin Verdict \cup Engine \cup [plan : Plan, fresh : BOOLEAN]

TypeOK ==
  /\ setup \in Setup
  /\ status \in {"active", "completed", "aborted"}
  /\ verdict \in Verdict \cup {None}
  /\ engine \in Engine \cup {None}
  /\ DOMAIN moveRows \subseteq Nat
  /\ \A ply \in DOMAIN moveRows : moveRows[ply] \in Played
  /\ req \in [Req -> Handler]
  /\ creating \in Engine \cup {None}
  /\ torn \in BOOLEAN /\ offered \in BOOLEAN

-----------------------------------------------------------------------------
(* Positions are the sequences of moves that reach them from the setup.    *)

\* Who makes the move of a ply, counted from 1.
Mover(ply) == IF ply % 2 = 1 THEN setup.first ELSE Opponent(setup.first)

Turn(moves) == Mover(Len(moves) + 1)

Wins(side) == IF side = "w" THEN "white_wins" ELSE "black_wins"

HumanPlies(moves) == {ply \in DOMAIN moves : Mover(ply) = setup.human}

NewEngine == [moves |-> << >>, offer |-> FALSE,
              clock |-> MakeClock(TimeMs, IncrementMs, Now)]

\* What a position is by itself: the setup's first one, or after its last move.
PositionClass(moves) ==
  IF moves = << >> THEN setup.start
  ELSE LET last == moves[Len(moves)].move
       IN  IF last \in MatingMoves THEN "mated"
           ELSE IF last \in DrawingMoves THEN "drawn" ELSE "open"

\* Mutant: a drawn position is not detected.
PositionResultMatesOnly(moves) ==
  IF PositionClass(moves) = "mated"
  THEN [result |-> Wins(Opponent(Turn(moves))), reason |-> "checkmate"] ELSE None

PositionResult(moves) ==
  CASE PositionClass(moves) = "mated" ->
         [result |-> Wins(Opponent(Turn(moves))), reason |-> "checkmate"]
    [] PositionClass(moves) = "drawn" -> [result |-> "draw", reason |-> "drawn_position"]
    [] PositionClass(moves) = "open"  -> None

Timeout(side) == [result |-> Wins(Opponent(side)), reason |-> "timeout"]

\* engine.detectResult: the clock first, then the position.
DetectResult(s) ==
  IF IsTimeout(s.clock, Now, Turn(s.moves)) THEN Timeout(Turn(s.moves))
  ELSE PositionResult(s.moves)

\* Mutant: the record of a move holds the budget before it was charged.
ApplyMoveUncharged(s, m) ==
  LET side  == Turn(s.moves)
      clock == ApplyIncrement(TickClock(s.clock, Now, side), side)
  IN  [s EXCEPT !.moves = Append(@, [move |-> m, clockAfterMs |-> s.clock[side]]),
                !.clock = clock]

\* engine.applyMove, for a side whose flag is up.  A draw offer stays.
ApplyMove(s, m) ==
  LET side  == Turn(s.moves)
      clock == ApplyIncrement(TickClock(s.clock, Now, side), side)
  IN  [s EXCEPT !.moves = Append(@, [move |-> m, clockAfterMs |-> clock[side]]),
                !.clock = clock]

\* Movers alternate: a side's last move is the last one or the one before.
LastPly(moves, side) ==
  IF Mover(Len(moves)) = side THEN Len(moves) ELSE Len(moves) - 1

\* What a side had left after its last move among the given ones.
Budget(moves, side) ==
  LET ply == LastPly(moves, side)
  IN  IF ply < 1 THEN TimeMs ELSE moves[ply].clockAfterMs

\* truncateToPly: everything is rebuilt from the moves that survive.
TruncateToPly(s, ply) ==
  LET moves == SubSeq(s.moves, 1, ply)
  IN  [moves |-> moves,
       offer |-> FALSE,
       clock |-> [w |-> Budget(moves, "w"), b |-> Budget(moves, "b"),
                  lastTickAt |-> Now, incrementMs |-> s.clock.incrementMs]]

-----------------------------------------------------------------------------
(* What each endpoint decides from the row it has read; the empty set when *)
(* it answers without writing.                                             *)

IsActive == status = "active"

LegalMoves(moves) ==
  IF Len(moves) >= MaxPly \/ (moves = << >> /\ setup.start = "mated") THEN {} ELSE Move

\* An untimed game restarts its clock before every move.
ChargedClock(s) == IF setup.timed THEN s ELSE [s EXCEPT !.clock.lastTickAt = Now]

MovePlans ==
  IF ~IsActive \/ engine = None THEN {}
  ELSE LET s == ChargedClock(engine)
       IN  IF IsTimeout(s.clock, Now, Turn(s.moves))
           THEN {[write |-> "end", engine |-> s, verdict |-> Timeout(Turn(s.moves))]}
           ELSE {[write |-> "move", engine |-> ApplyMove(s, m),
                  verdict |-> DetectResult(ApplyMove(s, m))] : m \in LegalMoves(s.moves)}

\* The engine state is left as it is.
ResignPlans ==
  IF ~IsActive THEN {}
  ELSE {[write |-> "end", engine |-> None,
         verdict |-> [result |-> Wins(Opponent(setup.human)), reason |-> "resignation"]]}

AbortPlans ==
  IF IsActive /\ (engine # None => HumanPlies(engine.moves) = {})
  THEN {[write |-> "abort"]} ELSE {}

\* takeback(1 | 2) and rewind(ply), in a game that may have ended.
TruncatePlans ==
  IF engine = None THEN {}
  ELSE {[write |-> "truncate", engine |-> TruncateToPly(engine, ply)] :
          ply \in 0..(Len(engine.moves) - 1)}

OfferPlans(flag) ==
  IF engine = None \/ ~IsActive THEN {}
  ELSE {[write |-> "offer", engine |-> [engine EXCEPT !.offer = flag]]}

CompleteDraw(v) == [write |-> "end", engine |-> [engine EXCEPT !.offer = FALSE], verdict |-> v]

\* Mutant: there need not be an offer to accept.
AcceptPlansUnasked ==
  IF engine = None \/ ~IsActive THEN {}
  ELSE {CompleteDraw([result |-> "draw", reason |-> "draw_agreement"])}

\* Any standing offer can be accepted, and it is always the human's own.
AcceptPlans ==
  IF engine = None \/ ~IsActive \/ ~engine.offer THEN {}
  ELSE {CompleteDraw([result |-> "draw", reason |-> "draw_agreement"])}

ClaimPlans ==
  IF engine = None \/ ~IsActive THEN {}
  ELSE LET v == DetectResult(engine)
       IN  IF v # None /\ v.result = "draw" THEN {CompleteDraw(v)} ELSE {}

-----------------------------------------------------------------------------
Init ==
  /\ setup \in Setups
  /\ creating = NewEngine
  /\ status = "active"
  /\ verdict = None
  /\ engine = None
  /\ moveRows = << >>
  /\ req = [r \in Req |-> None]
  /\ torn = FALSE
  /\ offered = FALSE

\* findUnique, and everything up to the write.
Receive(r, plans) ==
  /\ req[r] = None
  /\ \E p \in plans : req' = [req EXCEPT ![r] = [plan |-> p, fresh |-> TRUE]]
  /\ UNCHANGED <<setup, creating, status, verdict, engine, moveRows, torn, offered>>

\* A handler answers without having written.
Leave(r) ==
  /\ req' = [req EXCEPT ![r] = None]
  /\ UNCHANGED torn

\* A handler has written: what the others have read is no longer the row.
Wrote(r) ==
  /\ req' = [s \in Req |-> IF s = r \/ req[s] = None THEN None
                           ELSE [req[s] EXCEPT !.fresh = FALSE]]
  /\ torn' = (torn \/ ~req[r].fresh)

Writes(r, kind) == req[r] # None /\ req[r].plan.write = kind

PlyFree(ply) == ply \notin DOMAIN moveRows

\* The move's transaction: the row of a taken ply rolls everything back.
CommitMove(r) ==
  /\ Writes(r, "move")
  /\ LET p   == req[r].plan
         ply == Len(p.engine.moves)
     IN  IF PlyFree(ply)
         THEN /\ moveRows' = [i \in DOMAIN moveRows \cup {ply} |->
                                IF i = ply THEN p.engine.moves[ply] ELSE moveRows[i]]
              /\ engine' = p.engine
              /\ IF p.verdict # None
                 THEN status' = "completed" /\ verdict' = p.verdict
                 ELSE UNCHANGED <<status, verdict>>
              /\ Wrote(r)
         ELSE /\ Leave(r)
              /\ UNCHANGED <<status, verdict, engine, moveRows>>
  /\ UNCHANGED <<setup, creating, offered>>

\* A flag, a resignation or a draw: one update by id.
CommitEnd(r) ==
  /\ Writes(r, "end")
  /\ status' = "completed"
  /\ verdict' = req[r].plan.verdict
  /\ engine' = IF req[r].plan.engine = None THEN engine ELSE req[r].plan.engine
  /\ Wrote(r)
  /\ UNCHANGED <<setup, creating, moveRows, offered>>

CommitOffer(r) ==
  /\ Writes(r, "offer")
  /\ engine' = req[r].plan.engine
  /\ offered' = engine'.offer
  /\ Wrote(r)
  /\ UNCHANGED <<setup, creating, status, verdict, moveRows>>

\* Mutant: the row of the ply gone back to is deleted as well.
SurvivorsOneLess(ply) == {i \in DOMAIN moveRows : i < ply}

\* deleteMany of the later plies.
Survivors(ply) == {i \in DOMAIN moveRows : i <= ply}

\* applyTruncation's transaction brings the game back to life.
CommitTruncate(r) ==
  /\ Writes(r, "truncate")
  /\ engine' = req[r].plan.engine
  /\ moveRows' = Restrict(moveRows, Survivors(Len(engine'.moves)))
  /\ status' = "active"
  /\ verdict' = None
  /\ offered' = FALSE
  /\ Wrote(r)
  /\ UNCHANGED <<setup, creating>>

CommitAbort(r) ==
  /\ Writes(r, "abort")
  /\ status' = "aborted"
  /\ verdict' = None
  /\ Wrote(r)
  /\ UNCHANGED <<setup, creating, engine, moveRows, offered>>

\* The second statement of createGame.  The row can be found before it.
CreateEngine ==
  /\ creating # None
  /\ creating' = None
  /\ engine' = creating
  /\ UNCHANGED <<setup, status, verdict, moveRows, req, torn, offered>>

\* The API restarts: handlers and an unfinished creation are gone.
Restart ==
  /\ creating' = None
  /\ req' = [r \in Req |-> None]
  /\ UNCHANGED <<setup, status, verdict, engine, moveRows, torn, offered>>

\* Time passes: instants older than the horizon are not told apart.
Older(s) ==
  IF s = None THEN None
  ELSE [s EXCEPT !.clock.lastTickAt = IF @ > -Horizon THEN @ - 1 ELSE @]

OlderHandler(h) ==
  IF h = None \/ h.plan.write = "abort" THEN h ELSE [h EXCEPT !.plan.engine = Older(@)]

Tick ==
  /\ engine' = Older(engine)
  /\ creating' = Older(creating)
  /\ req' = [r \in Req |-> OlderHandler(req[r])]
  /\ UNCHANGED <<setup, status, verdict, moveRows, torn, offered>>

Next ==
  \/ \E r \in Req :
       \/ Receive(r, MovePlans)
       \/ Receive(r, ResignPlans)
       \/ Receive(r, AbortPlans)
       \/ Receive(r, TruncatePlans)
       \/ \E flag \in BOOLEAN : Receive(r, OfferPlans(flag))
       \/ Receive(r, AcceptPlans)
       \/ Receive(r, ClaimPlans)
       \/ CommitMove(r)
       \/ CommitEnd(r)
       \/ CommitOffer(r)
       \/ CommitTruncate(r)
       \/ CommitAbort(r)
  \/ CreateEngine
  \/ Restart
  \/ Tick

Spec == Init /\ [][Next]_vars

-----------------------------------------------------------------------------
(* What survives every overlap.                                            *)

Ongoing(moves) == \A i \in DOMAIN moves : moves[i].move \in QuietMoves

\* Whatever was overwritten by whom, a game that is still active has a
\* position to play on from: no mate or draw is ever on its board, except
\* the one a FEN started with.
ActiveIsPlayable ==
  status = "active" /\ engine # None => Ongoing(engine.moves)

\* The clock and the score in one engine state never come apart: each budget
\* is what its side had left after its last move, through flags, draws and any
\* chain of takebacks, and it is never used up.
ClockFollowsMoves ==
  engine # None =>
    \A side \in Colors : /\ engine.clock[side] = Budget(engine.moves, side)
                         /\ engine.clock[side] > 0

-----------------------------------------------------------------------------
(* What the service promises as long as no handler has written over a row  *)
(* that changed since it was read.                                         *)

\* Row integrity: the Move table holds exactly the moves of the engine state,
\* after moves, collisions and takebacks alike.
RowsAreTheMoves == ~torn /\ engine # None => moveRows = engine.moves

\* Why the verdict v was given in the engine state s.
Reasoned(v, s) ==
  CASE v.reason = "resignation" -> v.result = Wins(Opponent(setup.human))
    [] v.reason = "draw_agreement" -> offered /\ v.result = "draw"
    [] v.reason = "timeout" ->
         /\ setup.timed
         /\ v = Timeout(Turn(s.moves))
         /\ IsTimeout(s.clock, Now, Turn(s.moves))
    [] OTHER -> v = PositionResult(s.moves)

Explained ==
  CASE status = "active"  -> verdict = None
    [] status = "aborted" -> verdict = None /\ HumanPlies(engine.moves) = {}
    [] OTHER -> Reasoned(verdict, engine)

\* Every end has its reason on the board: a mate or a draw is the last
\* position's, a flag fell on the side to move of a timed game, a draw was
\* agreed on an offer not refused or taken back since, and an aborted game has
\* no move of the human.
EndsAreExplained == ~torn /\ engine # None => Explained

\* The module comment of the actions: row integrity is kept by transactions.
\* Two handlers that overlap break it.
RowIntegrity == engine # None => moveRows = engine.moves
===============================================================================
