-------------------------- MODULE ComputerGameProofs --------------------------
(***************************************************************************)
(* Theorems about ComputerGame: for any number of overlapping handlers,    *)
(* any set of moves and any clock, IInv is inductive, and what it implies. *)
(***************************************************************************)
EXTENDS ComputerGame, SequenceTheorems, TLAPS

\* An engine state whose budgets are what its moves left, and which went on
\* after every move but perhaps the last.
SoundState(s) ==
  /\ \A side \in Colors : s.clock[side] = Budget(s.moves, side)
  /\ \A i \in DOMAIN s.moves : s.moves[i].clockAfterMs > 0
  /\ \A i \in DOMAIN s.moves : i < Len(s.moves) => s.moves[i].move \in QuietMoves

\* The engine state a plan would write.
PlanState(p) == IF p.write = "abort" THEN None ELSE p.engine

\* A plan leaves the game open only in a position to play on from.
SoundPlan(p) ==
  /\ PlanState(p) # None => SoundState(PlanState(p))
  /\ p.write \in {"offer", "truncate"} => Ongoing(p.engine.moves)
  /\ p.write = "move" => /\ p.engine.moves # << >>
                         /\ p.verdict = None => Ongoing(p.engine.moves)

\* A plan continues the moves of the engine state s it was made from.
Follows(p, s) ==
  PlanState(p) # None =>
    /\ s # None
    /\ p.write = "move" => \E x \in Played : p.engine.moves = Append(s.moves, x)
    /\ p.write \in {"end", "offer"} => p.engine.moves = s.moves
    /\ p.write = "truncate" => \E ply \in 0..Len(s.moves) : p.engine.moves = SubSeq(s.moves, 1, ply)

SoundHandler(h, s) ==
  h # None => /\ SoundPlan(h.plan)
              /\ h.fresh => Follows(h.plan, s)
              /\ s = None => PlanState(h.plan) = None

\* Until the engine state is written nothing else is, and what is about to be
\* written is the first position.
SoundCreation ==
  /\ creating # None => engine = None /\ SoundState(creating) /\ creating.moves = << >>
  /\ engine = None => moveRows = << >>

IInv ==
  /\ TypeOK
  /\ engine # None => SoundState(engine)
  /\ ActiveIsPlayable
  /\ \A r \in Req : SoundHandler(req[r], engine)
  /\ SoundCreation
  /\ RowsAreTheMoves

(* Movers, budgets and verdicts.                                           *)

LEMMA MoversAlternate ==
  ASSUME setup \in Setup, NEW n \in Int
  PROVE  Mover(n) \in Colors /\ Mover(n + 1) = Opponent(Mover(n)) /\ Mover(n) # Mover(n + 1)
BY DEF Mover, Setup, Colors, Opponent

LEMMA BudgetType ==
  ASSUME setup \in Setup, NEW moves \in Seq(Played), NEW side \in Colors
  PROVE  /\ Budget(moves, side) \in Int
         /\ (\A i \in DOMAIN moves : moves[i].clockAfterMs > 0) => Budget(moves, side) > 0
<1>1. Len(moves) \in Nat /\ DOMAIN moves = 1..Len(moves)
  BY LenProperties
<1>2. LastPly(moves, side) \in Int /\ LastPly(moves, side) <= Len(moves)
  BY <1>1 DEF LastPly
<1>3. CASE LastPly(moves, side) < 1
  BY <1>3, BoundAssumption DEF Budget
<1>4. CASE ~(LastPly(moves, side) < 1)
  <2>1. LastPly(moves, side) \in 1..Len(moves)
    BY <1>1, <1>2, <1>4
  <2>2. moves[LastPly(moves, side)] \in Played
    BY <2>1, ElementOfSeq
  <2> QED
    BY <1>1, <1>4, <2>1, <2>2 DEF Budget, Played
<1> QED
  BY <1>3, <1>4

\* A move changes the budget of its mover and of nobody else.
LEMMA BudgetAfterMove ==
  ASSUME setup \in Setup, NEW moves \in Seq(Played), NEW x \in Played, NEW side \in Colors
  PROVE  Budget(Append(moves, x), side) =
           IF side = Turn(moves) THEN x.clockAfterMs ELSE Budget(moves, side)
<1> DEFINE n == Len(moves)
           more == Append(moves, x)
<1>1. /\ n \in Nat /\ Len(more) = n + 1 /\ more[n + 1] = x
      /\ \A i \in 1..n : more[i] = moves[i]
  BY LenProperties, AppendProperties
<1>2. Mover(n) \in Colors /\ Mover(n + 1) \in Colors /\ Mover(n + 1) # Mover(n)
  BY <1>1, MoversAlternate
<1> HIDE DEF more
<1>3. side = Mover(n + 1) => Budget(more, side) = x.clockAfterMs
  BY <1>1 DEF Budget, LastPly
<1>4. ASSUME side # Mover(n + 1) PROVE Budget(more, side) = Budget(moves, side)
  <2>1. side = Mover(n)
    BY <1>2, <1>4 DEF Colors
  <2>2. LastPly(more, side) = n /\ LastPly(moves, side) = n
    BY <1>1, <1>4, <2>1 DEF LastPly
  <2> QED
    BY <1>1, <2>2 DEF Budget
<1>5. Turn(moves) = Mover(n + 1)
  BY DEF Turn
<1> QED
  BY <1>3, <1>4, <1>5 DEF more

LEMMA VerdictTypes ==
  ASSUME setup \in Setup, NEW s \in Engine
  PROVE  /\ Turn(s.moves) \in Colors
         /\ Timeout(Turn(s.moves)) \in Verdict
         /\ DetectResult(s) \in Verdict \cup {None}
         /\ DetectResult(s) = None => PositionClass(s.moves) = "open"
<1>1. s.moves \in Seq(Played)
  BY DEF Engine
<1>2. Turn(s.moves) \in Colors
  BY <1>1, LenProperties, MoversAlternate DEF Turn
<1>3. /\ Timeout(Turn(s.moves)) \in Verdict
      /\ [result |-> Wins(Opponent(Turn(s.moves))), reason |-> "checkmate"] \in Verdict
      /\ [result |-> "draw", reason |-> "drawn_position"] \in Verdict
  BY <1>2 DEF Timeout, Verdict, Wins, Opponent, Colors, Results, Reasons
<1>4. PositionClass(s.moves) \in {"mated", "drawn", "open"}
  BY DEF PositionClass, Setup
<1> QED
  BY <1>2, <1>3, <1>4, NoneAssumption DEF DetectResult, PositionResult

\* A move after which nobody has won or drawn leaves the game open.
LEMMA OpenGoesOn ==
  ASSUME setup \in Setup, NEW s \in Engine, SoundState(s), s.moves # << >>,
         PositionClass(s.moves) = "open"
  PROVE  Ongoing(s.moves)
<1>1. /\ s.moves \in Seq(Played) /\ Len(s.moves) \in Nat \ {0}
      /\ DOMAIN s.moves = 1..Len(s.moves)
  BY EmptySeq, LenProperties DEF Engine
<1>2. s.moves[Len(s.moves)] \in Played
  BY <1>1, ElementOfSeq
<1>3. s.moves[Len(s.moves)].move \in QuietMoves
  BY <1>1, <1>2 DEF PositionClass, Played, Move
<1> QED
  BY <1>1, <1>3 DEF SoundState, Ongoing

(* The clock a move leaves.                                                *)

LEMMA ChargedPositive ==
  ASSUME NEW c \in Clock, NEW side \in Colors, c[side] > 0, ~IsTimeout(c, Now, side)
  PROVE  LET n == ApplyIncrement(TickClock(c, Now, side), side)
         IN  n \in Clock /\ n[side] > 0 /\ n[Opponent(side)] = c[Opponent(side)]
<1>0. /\ c.w \in Int /\ c.b \in Int /\ c.lastTickAt \in Int /\ c.incrementMs \in Nat
      /\ c = [w |-> c.w, b |-> c.b, lastTickAt |-> c.lastTickAt, incrementMs |-> c.incrementMs]
  BY DEF Clock
<1> DEFINE left == c[side] - (Now - c.lastTickAt)
<1>1. left > 0 /\ left \in Int
  BY <1>0 DEF IsTimeout, Now, Colors
<1>2. Charged(c, Now, side) = left
  BY <1>0, <1>1 DEF Charged, Colors
<1> HIDE DEF left
<1>3. CASE side = "w"
  <2>1. TickClock(c, Now, side)
        = [w |-> left, b |-> c.b, lastTickAt |-> Now, incrementMs |-> c.incrementMs]
    BY <1>0, <1>2, <1>3 DEF TickClock
  <2>2. ApplyIncrement(TickClock(c, Now, side), side)
        = [w |-> left + c.incrementMs, b |-> c.b, lastTickAt |-> Now,
           incrementMs |-> c.incrementMs]
    BY <1>3, <2>1 DEF ApplyIncrement
  <2> QED
    BY <1>0, <1>1, <1>3, <2>2 DEF Clock, Now, Opponent
<1>4. CASE side = "b"
  <2>1. TickClock(c, Now, side)
        = [w |-> c.w, b |-> left, lastTickAt |-> Now, incrementMs |-> c.incrementMs]
    BY <1>0, <1>2, <1>4 DEF TickClock
  <2>2. ApplyIncrement(TickClock(c, Now, side), side)
        = [w |-> c.w, b |-> left + c.incrementMs, lastTickAt |-> Now,
           incrementMs |-> c.incrementMs]
    BY <1>4, <2>1 DEF ApplyIncrement
  <2> QED
    BY <1>0, <1>1, <1>4, <2>2 DEF Clock, Now, Opponent
<1> QED
  BY <1>3, <1>4 DEF Colors

\* What applyMove returns for a side whose flag is up, in an open position.
LEMMA MoveMade ==
  ASSUME setup \in Setup, NEW s \in Engine, NEW m \in Move, SoundState(s), Ongoing(s.moves),
         ~IsTimeout(s.clock, Now, Turn(s.moves))
  PROVE  LET n == ApplyMove(s, m)
         IN  /\ n \in Engine /\ SoundState(n) /\ n.moves # << >>
             /\ \E x \in Played : n.moves = Append(s.moves, x)
<1> DEFINE side == Turn(s.moves)
           c == ApplyIncrement(TickClock(s.clock, Now, side), side)
           x == [move |-> m, clockAfterMs |-> c[side]]
           more == Append(s.moves, x)
           n == [moves |-> more, offer |-> s.offer, clock |-> c]
<1>1. /\ s.moves \in Seq(Played) /\ s.offer \in BOOLEAN /\ s.clock \in Clock
      /\ s = [moves |-> s.moves, offer |-> s.offer, clock |-> s.clock]
  BY DEF Engine
<1>2. side \in Colors /\ Opponent(side) \in Colors /\ Colors = {side, Opponent(side)}
  BY VerdictTypes DEF Opponent, Colors
<1>3. s.clock[side] > 0
  <2>1. Budget(s.moves, side) > 0
    BY <1>1, <1>2, BudgetType DEF SoundState
  <2> QED
    BY <1>2, <2>1 DEF SoundState
<1>4. c \in Clock /\ c[side] > 0 /\ c[Opponent(side)] = s.clock[Opponent(side)]
  BY <1>1, <1>2, <1>3, ChargedPositive
<1>5. ApplyMove(s, m) = n
  <2>1. ApplyMove(s, m) = [s EXCEPT !.moves = more, !.clock = c]
    BY Zenon DEF ApplyMove
  <2> HIDE DEF more, c
  <2> QED
    BY <1>1, <2>1
<1> HIDE DEF c
<1>6. x \in Played /\ x.clockAfterMs = c[side]
  BY <1>2, <1>4 DEF Played, Clock, Colors
<1> HIDE DEF x
<1>7. /\ more \in Seq(Played) /\ more # << >> /\ Len(more) = Len(s.moves) + 1
      /\ \A i \in 1..Len(s.moves) : more[i] = s.moves[i]
      /\ more[Len(s.moves) + 1] = x
  BY <1>1, <1>6, AppendProperties
<1>8. /\ Len(s.moves) \in Nat /\ DOMAIN s.moves = 1..Len(s.moves)
      /\ DOMAIN more = 1..(Len(s.moves) + 1)
  BY <1>1, <1>7, LenProperties
<1>9. \A q \in Colors : Budget(more, q) = IF q = side THEN c[side] ELSE Budget(s.moves, q)
  BY <1>1, <1>6, BudgetAfterMove
<1> HIDE DEF more
<1>10. \A q \in Colors : c[q] = Budget(more, q)
  BY <1>2, <1>4, <1>9 DEF SoundState
<1>11. \A i \in DOMAIN more : more[i].clockAfterMs > 0
  BY <1>4, <1>6, <1>7, <1>8 DEF SoundState
<1>12. \A i \in DOMAIN more : i < Len(more) => more[i].move \in QuietMoves
  BY <1>7, <1>8 DEF Ongoing
<1>13. n \in Engine /\ n.moves = more /\ n.clock = c
  BY <1>1, <1>4, <1>7 DEF Engine
<1> HIDE DEF n
<1>14. SoundState(n)
  BY <1>10, <1>11, <1>12, <1>13 DEF SoundState
<1> QED
  BY <1>5, <1>6, <1>7, <1>13, <1>14 DEF more

\* What truncateToPly returns: an earlier position, with the budgets it had.
LEMMA TruncatedSound ==
  ASSUME setup \in Setup, NEW s \in Engine, SoundState(s), NEW ply \in 0..(Len(s.moves) - 1)
  PROVE  LET n == TruncateToPly(s, ply)
         IN  /\ n \in Engine /\ SoundState(n) /\ Ongoing(n.moves)
             /\ n.moves = SubSeq(s.moves, 1, ply) /\ ply \in 0..Len(s.moves)
<1> DEFINE moves == SubSeq(s.moves, 1, ply)
           c == [w |-> Budget(moves, "w"), b |-> Budget(moves, "b"),
                 lastTickAt |-> Now, incrementMs |-> s.clock.incrementMs]
           n == [moves |-> moves, offer |-> FALSE, clock |-> c]
<1>1. /\ s.moves \in Seq(Played) /\ Len(s.moves) \in Nat /\ DOMAIN s.moves = 1..Len(s.moves)
      /\ s.clock \in Clock
  BY LenProperties DEF Engine
<1>2. \A i \in 1..ply : s.moves[i] \in Played
  BY <1>1, ElementOfSeq
<1>3. /\ moves \in Seq(Played) /\ Len(moves) = ply
      /\ \A i \in 1..ply : moves[i] = s.moves[i]
  BY <1>2, SubSeqProperties
<1>4. DOMAIN moves = 1..ply
  BY <1>3, LenProperties
<1> HIDE DEF moves
<1>5. \A i \in DOMAIN moves : moves[i].clockAfterMs > 0 /\ moves[i].move \in QuietMoves
  BY <1>1, <1>3, <1>4 DEF SoundState
<1>6. Budget(moves, "w") \in Int /\ Budget(moves, "b") \in Int
  BY <1>3, BudgetType DEF Colors
<1>7. c \in Clock
  BY <1>1, <1>6 DEF Clock, Now
<1>8. c.w = Budget(moves, "w") /\ c.b = Budget(moves, "b")
  OBVIOUS
<1> HIDE DEF c
<1>9. n \in Engine /\ n.moves = moves /\ n.clock = c
  BY <1>3, <1>7 DEF Engine
<1>10. TruncateToPly(s, ply) = n
  BY DEF TruncateToPly, moves, c
<1> HIDE DEF n
<1>11. SoundState(n) /\ Ongoing(n.moves)
  BY <1>5, <1>8, <1>9 DEF SoundState, Ongoing, Colors
<1>12. ply \in 0..Len(s.moves)
  BY <1>1
<1> QED
  BY <1>9, <1>10, <1>11, <1>12, Zenon DEF moves

(* What each endpoint decides.                                             *)

Prepared(p) == p \in Plan /\ SoundPlan(p) /\ Follows(p, engine)

LEMMA NoneTypes == None \notin Verdict /\ None \notin Engine
BY NoneAssumption

\* A plan to write an engine state of the position that was read.
LEMMA SameMoves ==
  ASSUME engine # None, NEW s \in Engine, SoundState(s), s.moves = engine.moves
  PROVE  /\ \A v \in Verdict : Prepared([write |-> "end", engine |-> s, verdict |-> v])
         /\ Ongoing(s.moves) => Prepared([write |-> "offer", engine |-> s])
<1>1. ASSUME NEW v \in Verdict
      PROVE  Prepared([write |-> "end", engine |-> s, verdict |-> v])
  BY DEF Prepared, Plan, SoundPlan, Follows, PlanState
<1>2. ASSUME Ongoing(s.moves) PROVE Prepared([write |-> "offer", engine |-> s])
  BY <1>2 DEF Prepared, Plan, SoundPlan, Follows, PlanState
<1> QED
  BY <1>1, <1>2

LEMMA ReadSound ==
  ASSUME IInv, engine # None
  PROVE  /\ engine \in Engine /\ SoundState(engine) /\ setup \in Setup
         /\ status = "active" => Ongoing(engine.moves)
BY DEF IInv, TypeOK, ActiveIsPlayable

LEMMA ChargedSound ==
  ASSUME NEW s \in Engine, SoundState(s)
  PROVE  /\ ChargedClock(s) \in Engine /\ SoundState(ChargedClock(s))
         /\ ChargedClock(s).moves = s.moves
<1>1. /\ s.moves \in Seq(Played) /\ s.offer \in BOOLEAN /\ s.clock \in Clock
      /\ s = [moves |-> s.moves, offer |-> s.offer, clock |-> s.clock]
  BY DEF Engine
<1> DEFINE c == [s.clock EXCEPT !.lastTickAt = Now]
<1>2. c \in Clock /\ c.w = s.clock.w /\ c.b = s.clock.b
  BY <1>1 DEF Clock, Now
<1>3. ChargedClock(s) = s \/ ChargedClock(s) = [s EXCEPT !.clock = c]
  BY DEF ChargedClock
<1> HIDE DEF c
<1>4. /\ ChargedClock(s) \in Engine /\ ChargedClock(s).moves = s.moves
      /\ ChargedClock(s).clock.w = s.clock.w /\ ChargedClock(s).clock.b = s.clock.b
  BY <1>1, <1>2, <1>3 DEF Engine
<1> QED
  BY <1>4 DEF SoundState, Colors

LEMMA MovePlansSound ==
  ASSUME IInv, NEW p \in MovePlans
  PROVE  Prepared(p)
<1> DEFINE s == ChargedClock(engine)
<1>1. engine # None /\ status = "active"
  BY DEF MovePlans, IsActive
<1>2. /\ s \in Engine /\ SoundState(s) /\ s.moves = engine.moves
      /\ setup \in Setup /\ Ongoing(s.moves)
  BY <1>1, ReadSound, ChargedSound
<1> HIDE DEF s
<1>3. CASE IsTimeout(s.clock, Now, Turn(s.moves))
  <2>1. p = [write |-> "end", engine |-> s, verdict |-> Timeout(Turn(s.moves))]
    BY <1>1, <1>3 DEF MovePlans, IsActive, s
  <2>2. Timeout(Turn(s.moves)) \in Verdict
    BY <1>2, VerdictTypes
  <2> QED
    BY <1>1, <1>2, <2>1, <2>2, SameMoves
<1>4. CASE ~IsTimeout(s.clock, Now, Turn(s.moves))
  <2>1. PICK m \in LegalMoves(s.moves) :
          p = [write |-> "move", engine |-> ApplyMove(s, m),
               verdict |-> DetectResult(ApplyMove(s, m))]
    BY <1>1, <1>4 DEF MovePlans, IsActive, s
  <2>2. m \in Move
    BY <2>1 DEF LegalMoves
  <2> DEFINE n == ApplyMove(s, m)
  <2>3. /\ n \in Engine /\ SoundState(n) /\ n.moves # << >>
        /\ \E x \in Played : n.moves = Append(s.moves, x)
    BY <1>2, <1>4, <2>2, MoveMade
  <2> HIDE DEF n
  <2>4. /\ DetectResult(n) \in Verdict \cup {None}
        /\ DetectResult(n) = None => Ongoing(n.moves)
    BY <1>2, <2>3, VerdictTypes, OpenGoesOn
  <2>5. p = [write |-> "move", engine |-> n, verdict |-> DetectResult(n)]
    BY <2>1 DEF n
  <2> QED
    BY <1>1, <1>2, <2>3, <2>4, <2>5 DEF Prepared, Plan, SoundPlan, Follows, PlanState
<1> QED
  BY <1>3, <1>4

LEMMA ResignPlansSound == ASSUME NEW p \in ResignPlans, setup \in Setup PROVE Prepared(p)
<1>1. PICK v : p = [write |-> "end", engine |-> None, verdict |-> v] /\ v \in Verdict
  BY DEF ResignPlans, Verdict, Wins, Opponent, Setup, Colors, Results, Reasons
<1> QED
  BY <1>1 DEF Prepared, Plan, SoundPlan, Follows, PlanState

LEMMA AbortPlansSound == ASSUME NEW p \in AbortPlans PROVE Prepared(p)
<1>1. p = [write |-> "abort"]
  BY DEF AbortPlans
<1> QED
  BY <1>1 DEF Prepared, Plan, SoundPlan, Follows, PlanState

LEMMA TruncatePlansSound == ASSUME IInv, NEW p \in TruncatePlans PROVE Prepared(p)
<1>1. engine # None
  BY DEF TruncatePlans
<1>2. PICK ply \in 0..(Len(engine.moves) - 1) :
        p = [write |-> "truncate", engine |-> TruncateToPly(engine, ply)]
  BY <1>1 DEF TruncatePlans
<1> DEFINE n == TruncateToPly(engine, ply)
<1>3. /\ n \in Engine /\ SoundState(n) /\ Ongoing(n.moves)
      /\ n.moves = SubSeq(engine.moves, 1, ply) /\ ply \in 0..Len(engine.moves)
  BY <1>1, ReadSound, TruncatedSound
<1>4. p = [write |-> "truncate", engine |-> n]
  BY <1>2
<1> HIDE DEF n
<1> QED
  BY <1>1, <1>3, <1>4 DEF Prepared, Plan, SoundPlan, Follows, PlanState

\* An offer or its end changes neither the moves nor the clock.
LEMMA OfferedSound ==
  ASSUME NEW s \in Engine, SoundState(s), NEW flag \in BOOLEAN
  PROVE  LET n == [s EXCEPT !.offer = flag]
         IN  n \in Engine /\ SoundState(n) /\ n.moves = s.moves
BY DEF Engine, SoundState

LEMMA OfferPlansSound ==
  ASSUME IInv, NEW flag \in BOOLEAN, NEW p \in OfferPlans(flag)
  PROVE  Prepared(p)
<1> DEFINE n == [engine EXCEPT !.offer = flag]
<1>1. engine # None /\ status = "active" /\ p = [write |-> "offer", engine |-> n]
  BY DEF OfferPlans, IsActive
<1>2. n \in Engine /\ SoundState(n) /\ n.moves = engine.moves /\ Ongoing(engine.moves)
  BY <1>1, ReadSound, OfferedSound
<1> HIDE DEF n
<1> QED
  BY <1>1, <1>2, SameMoves

LEMMA DrawSound ==
  ASSUME IInv, engine # None, NEW v \in Verdict
  PROVE  Prepared(CompleteDraw(v))
<1> DEFINE n == [engine EXCEPT !.offer = FALSE]
<1>1. n \in Engine /\ SoundState(n) /\ n.moves = engine.moves
  BY ReadSound, OfferedSound
<1>2. CompleteDraw(v) = [write |-> "end", engine |-> n, verdict |-> v]
  BY DEF CompleteDraw
<1> HIDE DEF n
<1> QED
  BY <1>1, <1>2, SameMoves

LEMMA DrawPlansSound == ASSUME IInv, NEW p \in AcceptPlans \cup ClaimPlans PROVE Prepared(p)
<1>1. CASE p \in AcceptPlans
  <2>1. /\ engine # None
        /\ p = CompleteDraw([result |-> "draw", reason |-> "draw_agreement"])
    BY <1>1 DEF AcceptPlans
  <2>2. [result |-> "draw", reason |-> "draw_agreement"] \in Verdict
    BY DEF Verdict, Results, Reasons
  <2> QED
    BY <2>1, <2>2, DrawSound
<1>2. CASE p \in ClaimPlans
  <2>1. /\ engine # None /\ DetectResult(engine) # None
        /\ p = CompleteDraw(DetectResult(engine))
    BY <1>2 DEF ClaimPlans
  <2>2. DetectResult(engine) \in Verdict
    BY <2>1, ReadSound, VerdictTypes
  <2> QED
    BY <2>1, <2>2, DrawSound
<1> QED
  BY <1>1, <1>2

(* What the steps keep of the handlers.                                    *)

LEMMA PlanTypes ==
  ASSUME NEW p \in Plan
  PROVE  /\ p.write \in {"move", "end", "offer", "truncate", "abort"}
         /\ PlanState(p) \in Engine \cup {None}
         /\ p.write \in {"move", "offer", "truncate"} => p.engine \in Engine
         /\ p.write = "end" => p.engine \in Engine \cup {None} /\ p.verdict \in Verdict
         /\ p.write = "move" => p.verdict \in Verdict \cup {None}
         /\ p.write # "abort" => PlanState(p) = p.engine
BY DEF Plan, PlanState

LEMMA HandlerTypes ==
  ASSUME NEW h \in Handler
  PROVE  /\ h # None => h.plan \in Plan /\ h.fresh \in BOOLEAN
         /\ None \in Handler /\ None \notin [plan : Plan, fresh : BOOLEAN]
BY NoneAssumption DEF Handler

\* The columns that never change are all that a sound state depends on.
LEMMA SetupStays ==
  ASSUME setup' = setup
  PROVE  /\ \A s \in Engine : SoundState(s)' <=> SoundState(s)
         /\ \A h \in Handler, s \in Engine \cup {None} : SoundHandler(h, s)' <=> SoundHandler(h, s)
<1>1. ASSUME NEW s PROVE SoundState(s)' <=> SoundState(s)
  BY DEF SoundState, Budget, LastPly, Mover
<1>2. ASSUME NEW p PROVE SoundPlan(p)' <=> SoundPlan(p)
  BY <1>1 DEF SoundPlan, PlanState, Ongoing
<1>3. ASSUME NEW h, NEW s PROVE SoundHandler(h, s)' <=> SoundHandler(h, s)
  BY <1>2 DEF SoundHandler, Follows, PlanState
<1> QED
  BY <1>1, <1>3

\* The row is as it was, and one slot changes.
LEMMA SlotSound ==
  ASSUME IInv, NEW r \in Req, NEW h \in Handler, SoundHandler(h, engine),
         setup' = setup, engine' = engine, req' = [req EXCEPT ![r] = h]
  PROVE  req' \in [Req -> Handler] /\ \A q \in Req : SoundHandler(req[q], engine)'
<1>1. PICK s \in Engine \cup {None} : s = engine
  BY DEF IInv, TypeOK
<1>2. ASSUME NEW q \in Req PROVE req'[q] \in Handler /\ SoundHandler(req'[q], s)
  BY <1>1 DEF IInv, TypeOK
<1>3. ASSUME NEW q \in Req PROVE SoundHandler(req[q], engine)'
  <2>1. PICK g \in Handler : g = req'[q]
    BY <1>2
  <2>2. SoundHandler(g, s)'
    BY <1>1, <1>2, <2>1, SetupStays
  <2> QED
    BY <1>1, <2>1, <2>2
<1> QED
  BY <1>2, <1>3 DEF IInv, TypeOK

\* A handler has written an engine state: nobody else is fresh.
LEMMA WroteSound ==
  ASSUME IInv, NEW r \in Req, req[r] # None, Wrote(r), setup' = setup,
         engine' \in Engine \cup {None}, engine' = None => engine = None
  PROVE  /\ req' \in [Req -> Handler] /\ \A q \in Req : SoundHandler(req[q], engine)'
         /\ torn' \in BOOLEAN
         /\ ~torn' => ~torn /\ req[r].fresh
<1>0. PICK s \in Engine \cup {None} : s = engine'
  OBVIOUS
<1>1. ASSUME NEW q \in Req PROVE req'[q] \in Handler /\ SoundHandler(req'[q], s)
  <2>1. CASE q = r \/ req[q] = None
    <3>1. req'[q] = None
      BY <2>1 DEF Wrote
    <3> QED
      BY <3>1, HandlerTypes DEF SoundHandler, Handler
  <2>2. CASE ~(q = r \/ req[q] = None)
    <3>1. PICK h \in Handler : h = req[q]
      BY DEF IInv, TypeOK
    <3>2. h # None /\ h.plan \in Plan /\ h = [plan |-> h.plan, fresh |-> h.fresh]
      BY <2>2, <3>1 DEF Handler
    <3>3. req'[q] = [plan |-> h.plan, fresh |-> FALSE]
      BY <2>2, <3>1, <3>2 DEF Wrote
    <3>4. SoundPlan(h.plan) /\ (s = None => PlanState(h.plan) = None)
      BY <1>0, <3>1, <3>2 DEF IInv, SoundHandler
    <3> QED
      BY <3>2, <3>3, <3>4 DEF Handler, SoundHandler
  <2> QED
    BY <2>1, <2>2
<1>2. ASSUME NEW q \in Req PROVE SoundHandler(req[q], engine)'
  <2>1. PICK g \in Handler : g = req'[q]
    BY <1>1
  <2>2. SoundHandler(g, s)'
    BY <1>1, <2>1, SetupStays
  <2> QED
    BY <1>0, <2>1, <2>2
<1>3. torn' \in BOOLEAN /\ (~torn' => ~torn /\ req[r].fresh)
  BY HandlerTypes, Zenon DEF Wrote, IInv, TypeOK
<1>4. req' \in [Req -> Handler]
  BY <1>1 DEF Wrote
<1> QED
  BY <1>2, <1>3, <1>4

LEMMA WriterSound ==
  ASSUME IInv, NEW r \in Req, req[r] # None
  PROVE  /\ req[r].plan \in Plan /\ SoundPlan(req[r].plan)
         /\ req[r].fresh => Follows(req[r].plan, engine)
         /\ PlanState(req[r].plan) # None => engine # None /\ engine \in Engine /\ creating = None
<1>1. req[r] \in Handler /\ SoundHandler(req[r], engine) /\ SoundCreation
  BY DEF IInv, TypeOK
<1> QED
  BY <1>1, HandlerTypes DEF SoundHandler, SoundCreation, IInv, TypeOK

(* The steps.                                                              *)

\* The row is as it was, and the handlers are sound.
LEMMA RowKept ==
  ASSUME IInv, UNCHANGED <<setup, creating, status, verdict, engine, moveRows, offered>>,
         req' \in [Req -> Handler], \A q \in Req : SoundHandler(req[q], engine)',
         torn' \in BOOLEAN, ~torn' => ~torn
  PROVE  IInv'
<1>1. engine # None => SoundState(engine)'
  BY DEF IInv, SoundState, Budget, LastPly, Mover
<1>2. SoundCreation'
  BY DEF IInv, SoundCreation, SoundState, Budget, LastPly, Mover
<1> QED
  BY <1>1, <1>2 DEF IInv, TypeOK, ActiveIsPlayable, RowsAreTheMoves, Ongoing

LEMMA ReceivePreserves ==
  ASSUME IInv, NEW r \in Req, NEW plans, Receive(r, plans), \A p \in plans : Prepared(p)
  PROVE  IInv'
<1>1. PICK p \in plans : req' = [req EXCEPT ![r] = [plan |-> p, fresh |-> TRUE]]
  BY DEF Receive
<1>2. /\ UNCHANGED <<setup, creating, status, verdict, engine, moveRows, torn, offered>>
      /\ Prepared(p)
  BY DEF Receive
<1> DEFINE h == [plan |-> p, fresh |-> TRUE]
<1>3. h \in Handler /\ SoundHandler(h, engine)
  BY <1>2 DEF Prepared, Handler, SoundHandler, Follows
<1> HIDE DEF h
<1>4. req' \in [Req -> Handler] /\ \A q \in Req : SoundHandler(req[q], engine)'
  BY <1>1, <1>2, <1>3, SlotSound DEF h
<1> QED
  BY <1>2, <1>4, RowKept DEF IInv, TypeOK

LEMMA LeavePreserves ==
  ASSUME IInv, NEW r \in Req, Leave(r),
         UNCHANGED <<setup, creating, status, verdict, engine, moveRows, offered>>
  PROVE  IInv'
<1>1. None \in Handler /\ SoundHandler(None, engine)
  BY DEF Handler, SoundHandler
<1>2. req' \in [Req -> Handler] /\ \A q \in Req : SoundHandler(req[q], engine)'
  BY <1>1, SlotSound DEF Leave
<1> QED
  BY <1>2, RowKept DEF Leave, IInv, TypeOK

\* Rows that equal the moves still do after a move is appended to both,
LEMMA RowAppended ==
  ASSUME NEW moves \in Seq(Played), NEW x \in Played
  PROVE  [i \in DOMAIN moves \cup {Len(moves) + 1} |->
            IF i = Len(moves) + 1 THEN x ELSE moves[i]] = Append(moves, x)
<1>1. Len(moves) \in Nat /\ DOMAIN moves = 1..Len(moves)
  BY LenProperties
<1>2. /\ Append(moves, x) \in Seq(Played) /\ Len(Append(moves, x)) = Len(moves) + 1
      /\ \A i \in 1..Len(moves) : Append(moves, x)[i] = moves[i]
      /\ Append(moves, x)[Len(moves) + 1] = x
  BY AppendProperties
<1>3. Append(moves, x) = [i \in 1..(Len(moves) + 1) |-> Append(moves, x)[i]]
  BY <1>2, LenProperties
<1>4. DOMAIN moves \cup {Len(moves) + 1} = 1..(Len(moves) + 1)
  BY <1>1
<1>5. \A i \in 1..(Len(moves) + 1) :
        (IF i = Len(moves) + 1 THEN x ELSE moves[i]) = Append(moves, x)[i]
  BY <1>1, <1>2
<1> QED
  BY <1>3, <1>4, <1>5

\* or after the later ones are cut from both.
LEMMA RowsCut ==
  ASSUME NEW moves \in Seq(Played), NEW ply \in 0..Len(moves)
  PROVE  /\ Restrict(moves, {i \in DOMAIN moves : i <= ply}) = SubSeq(moves, 1, ply)
         /\ Len(SubSeq(moves, 1, ply)) = ply
<1>1. Len(moves) \in Nat /\ DOMAIN moves = 1..Len(moves)
  BY LenProperties
<1>2. {i \in DOMAIN moves : i <= ply} = 1..ply
  BY <1>1
<1>3. \A i \in 1..ply : moves[i] \in Played
  BY <1>1, ElementOfSeq
<1>4. Len(SubSeq(moves, 1, ply)) = IF 1 <= ply THEN ply - 1 + 1 ELSE 0
  BY <1>1, <1>3, SubSeqProperties
<1>5. SubSeq(moves, 1, ply) = Restrict(moves, 1..ply)
  BY SubSeqRestrict
<1>6. Len(SubSeq(moves, 1, ply)) = ply
  BY <1>1, <1>4
<1> QED
  BY <1>2, <1>5, <1>6, Zenon

LEMMA CommitMovePreserves ==
  ASSUME IInv, NEW r \in Req, CommitMove(r)
  PROVE  IInv'
<1> DEFINE p   == req[r].plan
           e   == p.engine
           ply == Len(e.moves)
<1>1. req[r] # None /\ p.write = "move" /\ UNCHANGED <<setup, creating, offered>>
  BY DEF CommitMove, Writes
<1>2. /\ p \in Plan /\ SoundPlan(p) /\ e \in Engine /\ p.verdict \in Verdict \cup {None}
      /\ PlanState(p) = e /\ e # None
      /\ engine # None /\ engine \in Engine /\ creating = None
      /\ req[r].fresh => Follows(p, engine)
  BY <1>1, WriterSound, PlanTypes, NoneTypes
<1>3. CASE ~PlyFree(ply)
  BY <1>1, <1>3, LeavePreserves DEF CommitMove
<1>4. CASE PlyFree(ply)
  <2>1. /\ moveRows' = [i \in DOMAIN moveRows \cup {ply} |->
                          IF i = ply THEN e.moves[ply] ELSE moveRows[i]]
        /\ engine' = e
        /\ IF p.verdict # None THEN status' = "completed" /\ verdict' = p.verdict
           ELSE UNCHANGED <<status, verdict>>
        /\ Wrote(r)
    BY <1>4 DEF CommitMove
  <2>2. /\ SoundState(e) /\ e.moves # << >> /\ e.moves \in Seq(Played)
        /\ p.verdict = None => Ongoing(e.moves)
    BY <1>1, <1>2 DEF SoundPlan, Engine
  <2>3. /\ req' \in [Req -> Handler] /\ \A q \in Req : SoundHandler(req[q], engine)'
        /\ torn' \in BOOLEAN /\ (~torn' => ~torn /\ req[r].fresh)
    <3>1. /\ setup' = setup /\ engine' \in Engine \cup {None} /\ req[r] # None
          /\ engine' = None => engine = None
      BY <1>1, <1>2, <2>1
    <3>2. Wrote(r)
      BY <2>1
    <3> QED
      BY <3>1, <3>2, WroteSound
  <2>4. ply \in Nat /\ e.moves[ply] \in Played
    <3>1. ply \in Nat \ {0}
      BY <2>2, EmptySeq
    <3>2. ply \in 1..Len(e.moves)
      BY <3>1
    <3> QED
      BY <2>2, <3>1, <3>2, ElementOfSeq
  <2>5. DOMAIN moveRows' \subseteq Nat /\ \A i \in DOMAIN moveRows' : moveRows'[i] \in Played
    BY <2>1, <2>4 DEF IInv, TypeOK
  <2>6. RowsAreTheMoves'
    <3> SUFFICES ASSUME ~torn' PROVE moveRows' = e.moves
      BY <2>1 DEF RowsAreTheMoves
    <3>1. moveRows = engine.moves /\ engine.moves \in Seq(Played)
      BY <1>2, <2>3 DEF IInv, RowsAreTheMoves, Engine
    <3>2. PICK x \in Played : e.moves = Append(engine.moves, x)
      BY <1>1, <1>2, <2>3 DEF Follows
    <3>3. ply = Len(engine.moves) + 1 /\ e.moves[ply] = x
      BY <3>1, <3>2, AppendProperties
    <3> HIDE DEF ply, e
    <3>4. moveRows' = [i \in DOMAIN engine.moves \cup {Len(engine.moves) + 1} |->
                         IF i = Len(engine.moves) + 1 THEN x ELSE engine.moves[i]]
      BY <2>1, <3>1, <3>3
    <3> QED
      BY <3>1, <3>2, <3>4, RowAppended
  <2>7. SoundState(engine)' /\ ActiveIsPlayable'
    BY <1>1, <1>2, <2>1, <2>2
       DEF SoundState, Budget, LastPly, Mover, ActiveIsPlayable, Ongoing
  <2>8. TypeOK'
    BY <1>1, <1>2, <2>1, <2>3, <2>5 DEF IInv, TypeOK
  <2> QED
    BY <1>1, <1>2, <2>1, <2>3, <2>6, <2>7, <2>8 DEF IInv, SoundCreation
<1> QED
  BY <1>3, <1>4

\* What the writes of an engine state have in common.
LEMMA Written ==
  ASSUME IInv, NEW r \in Req, NEW kind, Writes(r, kind), kind # "abort", Wrote(r),
         UNCHANGED <<setup, creating>>,
         engine' = IF PlanState(req[r].plan) = None THEN engine ELSE PlanState(req[r].plan)
  PROVE  /\ req[r].plan \in Plan /\ SoundPlan(req[r].plan) /\ req[r].plan.write = kind
         /\ PlanState(req[r].plan) = req[r].plan.engine
         /\ req[r].fresh => Follows(req[r].plan, engine)
         /\ PlanState(req[r].plan) # None =>
              /\ engine # None /\ engine \in Engine /\ creating = None
              /\ engine' = PlanState(req[r].plan) /\ engine' \in Engine /\ engine' # None
         /\ engine' \in Engine \cup {None}
         /\ engine' # None => engine # None /\ SoundState(engine)'
         /\ req' \in [Req -> Handler] /\ \A q \in Req : SoundHandler(req[q], engine)'
         /\ torn' \in BOOLEAN
         /\ ~torn' => ~torn /\ req[r].fresh
<1> DEFINE p == req[r].plan
<1>1. req[r] # None /\ p.write = kind
  BY DEF Writes
<1>2. /\ p \in Plan /\ SoundPlan(p) /\ PlanState(p) \in Engine \cup {None}
      /\ PlanState(p) = p.engine /\ (req[r].fresh => Follows(p, engine))
      /\ PlanState(p) # None => engine # None /\ engine \in Engine /\ creating = None
  BY <1>1, WriterSound, PlanTypes
<1>3. /\ engine \in Engine \cup {None} /\ engine' \in Engine \cup {None}
      /\ engine' = None => engine = None
  BY <1>2 DEF IInv, TypeOK
<1>4. /\ req' \in [Req -> Handler] /\ \A q \in Req : SoundHandler(req[q], engine)'
      /\ torn' \in BOOLEAN
      /\ ~torn' => ~torn /\ req[r].fresh
  BY <1>1, <1>3, WroteSound
<1>5. ASSUME engine' # None PROVE engine # None /\ SoundState(engine)'
  <2>1. engine # None
    BY <1>2, <1>5
  <2>2. PICK s \in Engine : s = engine'
    BY <1>3, <1>5
  <2>3. SoundState(s)
    BY <1>2, <2>1, <2>2 DEF SoundPlan, IInv
  <2>4. SoundState(s)'
    BY <2>3, SetupStays
  <2> QED
    BY <2>1, <2>2, <2>4
<1> HIDE DEF p
<1> QED
  BY <1>1, <1>2, <1>3, <1>4, <1>5 DEF p

LEMMA CommitEndPreserves == ASSUME IInv, NEW r \in Req, CommitEnd(r) PROVE IInv'
<1> DEFINE p == req[r].plan
<1>1. /\ Writes(r, "end") /\ Wrote(r) /\ UNCHANGED <<setup, creating, moveRows, offered>>
      /\ status' = "completed" /\ verdict' = p.verdict
      /\ engine' = IF p.engine = None THEN engine ELSE p.engine
  BY DEF CommitEnd
<1>2. p \in Plan /\ p.write = "end" /\ PlanState(p) = p.engine /\ p.verdict \in Verdict
  BY <1>1, WriterSound, PlanTypes DEF Writes
<1>3. engine' = IF PlanState(p) = None THEN engine ELSE PlanState(p)
  BY <1>1, <1>2
<1>4. /\ req[r].fresh => Follows(p, engine)
      /\ PlanState(p) # None => /\ engine # None /\ creating = None
                                /\ engine' = PlanState(p) /\ engine' # None
      /\ engine' \in Engine \cup {None}
      /\ engine' # None => engine # None /\ SoundState(engine)'
      /\ req' \in [Req -> Handler] /\ \A q \in Req : SoundHandler(req[q], engine)'
      /\ torn' \in BOOLEAN
      /\ ~torn' => ~torn /\ req[r].fresh
  BY <1>1, <1>3, Written
<1>5. TypeOK' /\ ActiveIsPlayable'
  BY <1>1, <1>2, <1>4 DEF IInv, TypeOK, ActiveIsPlayable
<1>6. SoundCreation'
  <2>1. CASE PlanState(p) # None
    BY <1>1, <1>4, <2>1 DEF SoundCreation
  <2>2. CASE PlanState(p) = None
    BY <1>1, <1>3, <2>2 DEF IInv, SoundCreation, SoundState, Budget, LastPly, Mover
  <2> QED
    BY <2>1, <2>2
<1>7. RowsAreTheMoves'
  <2>1. CASE PlanState(p) # None
    BY <1>1, <1>2, <1>4, <2>1 DEF IInv, RowsAreTheMoves, Follows
  <2>2. CASE PlanState(p) = None
    BY <1>1, <1>3, <1>4, <2>2 DEF IInv, RowsAreTheMoves
  <2> QED
    BY <2>1, <2>2
<1> QED
  BY <1>4, <1>5, <1>6, <1>7 DEF IInv

LEMMA CommitOfferPreserves == ASSUME IInv, NEW r \in Req, CommitOffer(r) PROVE IInv'
<1> DEFINE p == req[r].plan
<1>1. /\ Writes(r, "offer") /\ Wrote(r)
      /\ UNCHANGED <<setup, creating, status, verdict, moveRows>>
      /\ engine' = p.engine /\ offered' = engine'.offer
  BY DEF CommitOffer
<1>2. p \in Plan /\ p.write = "offer" /\ PlanState(p) = p.engine /\ p.engine \in Engine
  BY <1>1, WriterSound, PlanTypes DEF Writes
<1>3. /\ PlanState(p) # None
      /\ engine' = IF PlanState(p) = None THEN engine ELSE PlanState(p)
  BY <1>1, <1>2, NoneTypes
<1>4. /\ SoundPlan(p) /\ (req[r].fresh => Follows(p, engine))
      /\ engine # None /\ creating = None /\ engine' \in Engine /\ engine' # None
      /\ SoundState(engine)'
      /\ req' \in [Req -> Handler] /\ \A q \in Req : SoundHandler(req[q], engine)'
      /\ torn' \in BOOLEAN
      /\ ~torn' => ~torn /\ req[r].fresh
  BY <1>1, <1>3, Written
<1>5. TypeOK' /\ ActiveIsPlayable'
  BY <1>1, <1>2, <1>4 DEF IInv, TypeOK, ActiveIsPlayable, SoundPlan, Ongoing, Engine
<1>6. SoundCreation' /\ RowsAreTheMoves'
  BY <1>1, <1>2, <1>3, <1>4 DEF IInv, SoundCreation, RowsAreTheMoves, Follows
<1> QED
  BY <1>4, <1>5, <1>6 DEF IInv

LEMMA CommitTruncatePreserves == ASSUME IInv, NEW r \in Req, CommitTruncate(r) PROVE IInv'
<1> DEFINE p == req[r].plan
<1>1. /\ Writes(r, "truncate") /\ Wrote(r) /\ UNCHANGED <<setup, creating>>
      /\ engine' = p.engine /\ offered' = FALSE /\ status' = "active" /\ verdict' = None
      /\ moveRows' = Restrict(moveRows, Survivors(Len(p.engine.moves)))
  BY DEF CommitTruncate
<1>2. p \in Plan /\ p.write = "truncate" /\ PlanState(p) = p.engine /\ p.engine \in Engine
  BY <1>1, WriterSound, PlanTypes DEF Writes
<1>3. /\ PlanState(p) # None
      /\ engine' = IF PlanState(p) = None THEN engine ELSE PlanState(p)
  BY <1>1, <1>2, NoneTypes
<1>4. /\ SoundPlan(p) /\ (req[r].fresh => Follows(p, engine))
      /\ engine # None /\ engine \in Engine /\ creating = None
      /\ engine' \in Engine /\ engine' # None /\ SoundState(engine)'
      /\ req' \in [Req -> Handler] /\ \A q \in Req : SoundHandler(req[q], engine)'
      /\ torn' \in BOOLEAN
      /\ ~torn' => ~torn /\ req[r].fresh
  BY <1>1, <1>3, Written
<1>5. DOMAIN moveRows' \subseteq Nat /\ \A i \in DOMAIN moveRows' : moveRows'[i] \in Played
  BY <1>1 DEF Restrict, Survivors, IInv, TypeOK
<1>6. TypeOK' /\ ActiveIsPlayable'
  BY <1>1, <1>2, <1>4, <1>5 DEF IInv, TypeOK, ActiveIsPlayable, SoundPlan, Ongoing
<1>7. RowsAreTheMoves'
  <2> SUFFICES ASSUME ~torn' PROVE moveRows' = p.engine.moves
    BY <1>1 DEF RowsAreTheMoves
  <2>1. moveRows = engine.moves /\ engine.moves \in Seq(Played)
    BY <1>4 DEF IInv, RowsAreTheMoves, Engine
  <2>2. PICK ply \in 0..Len(engine.moves) : p.engine.moves = SubSeq(engine.moves, 1, ply)
    BY <1>2, <1>3, <1>4 DEF Follows
  <2>3. /\ Restrict(engine.moves, {i \in DOMAIN engine.moves : i <= ply}) = p.engine.moves
        /\ Len(p.engine.moves) = ply
    BY <2>1, <2>2, RowsCut
  <2> QED
    BY <1>1, <2>1, <2>3 DEF Survivors
<1>8. SoundCreation'
  BY <1>1, <1>4 DEF SoundCreation
<1> QED
  BY <1>4, <1>6, <1>7, <1>8 DEF IInv

LEMMA CommitAbortPreserves == ASSUME IInv, NEW r \in Req, CommitAbort(r) PROVE IInv'
<1>1. /\ Writes(r, "abort") /\ Wrote(r) /\ status' = "aborted" /\ verdict' = None
      /\ UNCHANGED <<setup, creating, engine, moveRows, offered>>
  BY DEF CommitAbort
<1>2. /\ req' \in [Req -> Handler] /\ \A q \in Req : SoundHandler(req[q], engine)'
      /\ torn' \in BOOLEAN
      /\ ~torn' => ~torn /\ req[r].fresh
  BY <1>1, WroteSound DEF IInv, TypeOK, Writes
<1>3. TypeOK' /\ ActiveIsPlayable' /\ RowsAreTheMoves'
  BY <1>1, <1>2 DEF IInv, TypeOK, ActiveIsPlayable, RowsAreTheMoves
<1>4. (engine # None => SoundState(engine)') /\ SoundCreation'
  BY <1>1 DEF IInv, SoundCreation, SoundState, Budget, LastPly, Mover
<1> QED
  BY <1>1, <1>2, <1>3, <1>4 DEF IInv

\* A handler that read no engine state will write none.
LEMMA CreatePreserves == ASSUME IInv, CreateEngine PROVE IInv'
<1>1. /\ creating # None /\ creating' = None /\ engine' = creating
      /\ UNCHANGED <<setup, status, verdict, moveRows, req, torn, offered>>
  BY DEF CreateEngine
<1>2. /\ creating \in Engine /\ SoundState(creating) /\ creating.moves = << >>
      /\ engine = None /\ moveRows = << >>
  BY <1>1 DEF IInv, TypeOK, SoundCreation
<1>3. PICK s \in Engine : s = creating
  BY <1>2
<1>4. SoundState(engine)'
  BY <1>1, <1>2, <1>3, SetupStays
<1>5. ASSUME NEW r \in Req PROVE SoundHandler(req[r], engine)'
  <2>1. PICK h \in Handler : h = req[r]
    BY DEF IInv, TypeOK
  <2>2. SoundHandler(h, engine)
    BY <2>1 DEF IInv
  <2>3. SoundHandler(h, s)
    BY <1>2, <2>2, <1>3, NoneTypes DEF SoundHandler, Follows
  <2>4. SoundHandler(h, s)'
    BY <1>1, <2>3, SetupStays
  <2> QED
    BY <1>1, <1>3, <2>1, <2>4
<1>6. TypeOK'
  BY <1>1, <1>2 DEF IInv, TypeOK
<1>7. ActiveIsPlayable' /\ RowsAreTheMoves' /\ SoundCreation'
  BY <1>1, <1>2, EmptySeq, NoneTypes
     DEF ActiveIsPlayable, RowsAreTheMoves, SoundCreation, Ongoing
<1> QED
  BY <1>4, <1>5, <1>6, <1>7 DEF IInv

LEMMA RestartPreserves == ASSUME IInv, Restart PROVE IInv'
<1>1. /\ creating' = None /\ req' = [r \in Req |-> None]
      /\ UNCHANGED <<setup, status, verdict, engine, moveRows, torn, offered>>
  BY DEF Restart
<1>2. \A r \in Req : SoundHandler(req[r], engine)'
  BY <1>1 DEF SoundHandler
<1>3. req' \in [Req -> Handler]
  BY <1>1 DEF Handler
<1>4. TypeOK'
  BY <1>1, <1>3 DEF IInv, TypeOK
<1>5. (engine # None => SoundState(engine)') /\ SoundCreation'
  BY <1>1 DEF IInv, SoundCreation, SoundState, Budget, LastPly, Mover
<1> QED
  BY <1>1, <1>2, <1>4, <1>5 DEF IInv, ActiveIsPlayable, RowsAreTheMoves, Ongoing

\* Ageing an engine state changes nothing the invariant speaks of.
LEMMA OlderFacts ==
  ASSUME NEW s \in Engine
  PROVE  /\ Older(s) \in Engine /\ Older(s) # None
         /\ Older(s).moves = s.moves /\ Older(s).offer = s.offer
         /\ SoundState(s) => SoundState(Older(s))
<1> DEFINE at == IF s.clock.lastTickAt > -Horizon THEN s.clock.lastTickAt - 1
                 ELSE s.clock.lastTickAt
           c  == [s.clock EXCEPT !.lastTickAt = at]
<1>1. s.clock \in Clock /\ s # None
  BY NoneTypes DEF Engine
<1>2. at \in Int
  BY <1>1, BoundAssumption DEF Clock
<1> HIDE DEF at
<1>3. c \in Clock /\ c.w = s.clock.w /\ c.b = s.clock.b
  BY <1>1, <1>2 DEF Clock
<1>4. Older(s) = [s EXCEPT !.clock = c]
  BY <1>1 DEF Older, at
<1> HIDE DEF c
<1>5. /\ Older(s) \in Engine /\ Older(s).moves = s.moves /\ Older(s).offer = s.offer
      /\ Older(s).clock = c
  BY <1>3, <1>4 DEF Engine
<1> QED
  BY <1>3, <1>5, NoneTypes DEF SoundState, Colors

LEMMA OlderHandlerSound ==
  ASSUME NEW h \in Handler, NEW s \in Engine \cup {None}, SoundHandler(h, s)
  PROVE  OlderHandler(h) \in Handler /\ SoundHandler(OlderHandler(h), Older(s))
<1>1. /\ Older(s) = None <=> s = None
      /\ s # None => Older(s).moves = s.moves
  BY OlderFacts, NoneTypes DEF Older
<1>2. CASE h = None \/ h.plan.write = "abort"
  BY <1>1, <1>2 DEF OlderHandler, SoundHandler, Follows, PlanState
<1>3. CASE ~(h = None \/ h.plan.write = "abort")
  <2> DEFINE p == h.plan
             o == Older(p.engine)
             q == [p EXCEPT !.engine = o]
             g == [plan |-> q, fresh |-> h.fresh]
  <2>1. /\ p \in Plan /\ p.engine \in Engine \cup {None} /\ PlanState(p) = p.engine
        /\ h = [plan |-> p, fresh |-> h.fresh] /\ h.fresh \in BOOLEAN
    BY <1>3, PlanTypes DEF Handler
  <2>2. /\ p.engine = None => o = None
        /\ p.engine # None => /\ o \in Engine /\ o # None /\ o.moves = p.engine.moves
                              /\ SoundState(p.engine) => SoundState(o)
    BY <2>1, OlderFacts DEF Older
  <2>3. OlderHandler(h) = [h EXCEPT !.plan.engine = o]
    BY <1>3 DEF OlderHandler
  <2> HIDE DEF o
  <2>4. OlderHandler(h) = g
    BY <2>1, <2>3
  <2>5. /\ q \in Plan /\ q.engine = o /\ q.write = p.write
        /\ p.write = "move" => q.verdict = p.verdict
        /\ PlanState(q) = o
    BY <1>3, <2>1, <2>2 DEF Plan, PlanState
  <2> HIDE DEF q
  <2>6. p.write \in {"move", "offer", "truncate"} => p.engine # None
    BY <2>1, PlanTypes, NoneTypes
  <2>7. SoundPlan(p) /\ (h.fresh => Follows(p, s)) /\ (s = None => PlanState(p) = None)
    BY <1>3 DEF SoundHandler
  <2> HIDE DEF p
  <2>8. SoundPlan(q)
    BY <2>1, <2>2, <2>5, <2>6, <2>7 DEF SoundPlan
  <2>9. h.fresh => Follows(q, Older(s))
    BY <1>1, <2>1, <2>2, <2>5, <2>7 DEF Follows
  <2>10. s = None => PlanState(q) = None
    BY <2>1, <2>2, <2>5, <2>7
  <2> QED
    BY <1>1, <2>1, <2>4, <2>5, <2>8, <2>9, <2>10 DEF Handler, SoundHandler
<1> QED
  BY <1>2, <1>3

LEMMA TickPreserves == ASSUME IInv, Tick PROVE IInv'
<1>1. /\ engine' = Older(engine) /\ creating' = Older(creating)
      /\ req' = [r \in Req |-> OlderHandler(req[r])]
      /\ UNCHANGED <<setup, status, verdict, moveRows, torn, offered>>
  BY DEF Tick
<1>2. /\ engine \in Engine \cup {None} /\ creating \in Engine \cup {None}
      /\ req \in [Req -> Handler]
  BY DEF IInv, TypeOK
<1>3. /\ engine' \in Engine \cup {None} /\ creating' \in Engine \cup {None}
      /\ engine' = None <=> engine = None
      /\ creating' = None <=> creating = None
      /\ engine # None => engine'.moves = engine.moves /\ SoundState(engine')
      /\ creating # None => /\ creating'.moves = creating.moves
                            /\ SoundState(creating) => SoundState(creating')
  BY <1>1, <1>2, OlderFacts, NoneTypes DEF IInv, Older
<1>4. ASSUME NEW r \in Req
      PROVE  req'[r] \in Handler /\ SoundHandler(req'[r], engine')
  BY <1>1, <1>2, OlderHandlerSound DEF IInv
<1>5. ASSUME NEW r \in Req PROVE SoundHandler(req[r], engine)'
  <2>1. PICK h \in Handler : h = req'[r]
    BY <1>4
  <2>2. PICK s \in Engine \cup {None} : s = engine'
    BY <1>3
  <2>3. SoundHandler(h, s)'
    BY <1>1, <1>4, <2>1, <2>2, SetupStays
  <2> QED
    BY <2>1, <2>2, <2>3
<1>6. /\ engine' # None => SoundState(engine)'
      /\ creating' # None /\ SoundState(creating) => SoundState(creating)'
  BY <1>1, <1>3 DEF SoundState, Budget, LastPly, Mover
<1>7. SoundCreation'
  BY <1>1, <1>3, <1>6 DEF IInv, SoundCreation
<1>8. req' \in [Req -> Handler]
  BY <1>1, <1>4
<1>9. TypeOK'
  BY <1>1, <1>3, <1>8 DEF IInv, TypeOK
<1>10. ActiveIsPlayable' /\ RowsAreTheMoves'
  BY <1>1, <1>3 DEF IInv, ActiveIsPlayable, RowsAreTheMoves, Ongoing
<1> QED
  BY <1>5, <1>6, <1>7, <1>9, <1>10 DEF IInv

(* The theorems.                                                           *)

LEMMA InitSound == Init => IInv
<1> SUFFICES ASSUME Init PROVE IInv
  OBVIOUS
<1>1. /\ setup \in Setup /\ creating = NewEngine /\ status = "active" /\ verdict = None
      /\ engine = None /\ moveRows = << >> /\ req = [r \in Req |-> None]
      /\ torn = FALSE /\ offered = FALSE
  BY SetupAssumption DEF Init
<1>2. << >> \in Seq(Played) /\ Len(<< >>) = 0 /\ DOMAIN << >> = {}
  BY EmptySeq
<1> DEFINE c == MakeClock(TimeMs, IncrementMs, Now)
<1>3. c \in Clock /\ c.w = TimeMs /\ c.b = TimeMs
  BY BoundAssumption DEF MakeClock, Clock, Now
<1>4. NewEngine = [moves |-> << >>, offer |-> FALSE, clock |-> c]
  BY DEF NewEngine
<1> HIDE DEF c
<1>5. /\ NewEngine \in Engine /\ NewEngine.moves = << >>
      /\ NewEngine.clock.w = TimeMs /\ NewEngine.clock.b = TimeMs
  BY <1>2, <1>3, <1>4 DEF Engine
<1>6. \A side \in Colors : Budget(<< >>, side) = TimeMs
  BY <1>2 DEF Budget, LastPly
<1>7. SoundState(NewEngine)
  BY <1>2, <1>5, <1>6 DEF SoundState, Colors
<1>8. req \in [Req -> Handler] /\ \A r \in Req : SoundHandler(req[r], engine)
  BY <1>1 DEF Handler, SoundHandler
<1>9. TypeOK
  BY <1>1, <1>2, <1>5, <1>8 DEF TypeOK
<1> QED
  BY <1>1, <1>5, <1>7, <1>8, <1>9
     DEF IInv, ActiveIsPlayable, SoundCreation, RowsAreTheMoves

LEMMA NextSound == IInv /\ [Next]_vars => IInv'
<1> SUFFICES ASSUME IInv, [Next]_vars PROVE IInv'
  OBVIOUS
<1>1. ASSUME NEW r \in Req,
             \/ Receive(r, MovePlans) \/ Receive(r, ResignPlans) \/ Receive(r, AbortPlans)
             \/ Receive(r, TruncatePlans) \/ Receive(r, AcceptPlans) \/ Receive(r, ClaimPlans)
             \/ \E flag \in BOOLEAN : Receive(r, OfferPlans(flag))
      PROVE  IInv'
  <2>1. setup \in Setup
    BY DEF IInv, TypeOK
  <2>2. /\ \A p \in MovePlans : Prepared(p)
        /\ \A p \in ResignPlans : Prepared(p)
        /\ \A p \in AbortPlans : Prepared(p)
        /\ \A p \in TruncatePlans : Prepared(p)
        /\ \A p \in AcceptPlans : Prepared(p)
        /\ \A p \in ClaimPlans : Prepared(p)
        /\ \A flag \in BOOLEAN : \A p \in OfferPlans(flag) : Prepared(p)
    BY <2>1, MovePlansSound, ResignPlansSound, AbortPlansSound, TruncatePlansSound,
       DrawPlansSound, OfferPlansSound
  <2> QED
    BY <1>1, <2>2, ReceivePreserves
<1>2. ASSUME NEW r \in Req,
             \/ CommitMove(r) \/ CommitEnd(r) \/ CommitOffer(r)
             \/ CommitTruncate(r) \/ CommitAbort(r)
      PROVE  IInv'
  BY <1>2, CommitMovePreserves, CommitEndPreserves, CommitOfferPreserves,
     CommitTruncatePreserves, CommitAbortPreserves
<1>3. CASE CreateEngine
  BY <1>3, CreatePreserves
<1>4. CASE Restart
  BY <1>4, RestartPreserves
<1>5. CASE Tick
  BY <1>5, TickPreserves
<1>6. CASE UNCHANGED vars
  <2>1. UNCHANGED <<setup, creating, status, verdict, engine, moveRows, req, torn, offered>>
    BY <1>6 DEF vars
  <2>2. req' \in [Req -> Handler] /\ torn' \in BOOLEAN /\ (~torn' => ~torn)
    BY <2>1 DEF IInv, TypeOK
  <2>3. ASSUME NEW r \in Req PROVE SoundHandler(req[r], engine)'
    <3>1. PICK h \in Handler, s \in Engine \cup {None} : h = req[r] /\ s = engine
      BY DEF IInv, TypeOK
    <3>2. SoundHandler(h, s)'
      BY <2>1, <3>1, SetupStays DEF IInv
    <3> QED
      BY <2>1, <3>1, <3>2
  <2> QED
    BY <2>1, <2>2, <2>3, RowKept
<1> QED
  BY <1>1, <1>2, <1>3, <1>4, <1>5, <1>6 DEF Next

\* Whatever overlaps, no write leaves an engine state whose clock and score
\* disagree, nor an ended position in an open game.
THEOREM Invariance == Spec => []IInv
BY InitSound, NextSound, PTL DEF Spec

\* Every variable keeps its type.
THEOREM TypeCorrect == Spec => []TypeOK
<1>1. IInv => TypeOK
  BY DEF IInv
<1> QED
  BY <1>1, Invariance, PTL

\* An active game can be played on, whatever was overwritten by whom.
THEOREM ActivePlayable == Spec => []ActiveIsPlayable
<1>1. IInv => ActiveIsPlayable
  BY DEF IInv
<1> QED
  BY <1>1, Invariance, PTL

\* Each budget is what its side had left after its last move, and above zero,
\* through flags, draws and any chain of takebacks.
THEOREM ClockFollows == Spec => []ClockFollowsMoves
<1>1. IInv => ClockFollowsMoves
  <2> SUFFICES ASSUME IInv, engine # None, NEW side \in Colors
               PROVE  /\ engine.clock[side] = Budget(engine.moves, side)
                      /\ engine.clock[side] > 0
    BY DEF ClockFollowsMoves
  <2>1. engine \in Engine /\ SoundState(engine) /\ setup \in Setup
    BY ReadSound
  <2>2. Budget(engine.moves, side) > 0
    BY <2>1, BudgetType DEF Engine, SoundState
  <2> QED
    BY <2>1, <2>2 DEF SoundState
<1> QED
  BY <1>1, Invariance, PTL

\* As long as no handler has written over a row that changed since its read,
\* the Move table holds exactly the moves of the engine state.
THEOREM RowsFollow == Spec => []RowsAreTheMoves
<1>1. IInv => RowsAreTheMoves
  BY DEF IInv
<1> QED
  BY <1>1, Invariance, PTL

(* Why games end.  While nothing has been overwritten, a handler that read *)
(* the row as it still is has good grounds for the end it will write.      *)

Resigned == [result |-> Wins(Opponent(setup.human)), reason |-> "resignation"]

\* Only a truncation is prepared in a game that is over, and an end names a
\* reason that holds in the engine state it is written with.
Justified(p) ==
  /\ p.write # "truncate" => status = "active"
  /\ p.write \in {"move", "end"} /\ p.engine # None /\ p.engine.offer => offered
  /\ p.write = "move" /\ p.verdict # None => Reasoned(p.verdict, p.engine)
  /\ p.write = "end" => IF p.engine = None THEN p.verdict = Resigned
                        ELSE Reasoned(p.verdict, p.engine)
  /\ p.write = "truncate" => ~p.engine.offer
  /\ p.write = "abort" /\ engine # None => HumanPlies(engine.moves) = {}

\* Before there is an engine state a game can only have been resigned or
\* aborted, and an offer that stands is the last thing said about a draw.
Accounted ==
  /\ EndsAreExplained
  /\ engine = None => verdict = IF status = "completed" THEN Resigned ELSE None
  /\ engine # None /\ engine.offer => offered

EndInv ==
  /\ creating # None => ~creating.offer
  /\ ~torn => /\ Accounted
              /\ \A r \in Req : req[r] # None /\ req[r].fresh => Justified(req[r].plan)

LEMMA ReasonsStay ==
  ASSUME setup' = setup, offered' = offered
  PROVE  \A v, s : Reasoned(v, s)' <=> Reasoned(v, s)
BY DEF Reasoned, PositionResult, PositionClass, Turn, Mover

LEMMA JustifiedStays ==
  ASSUME UNCHANGED <<setup, status, engine, offered>>
  PROVE  \A p : Justified(p)' <=> Justified(p)
<1>1. \A v, s : Reasoned(v, s)' <=> Reasoned(v, s)
  BY ReasonsStay
<1> QED
  BY <1>1 DEF Justified, Resigned, HumanPlies, Mover

LEMMA AccountedStays ==
  ASSUME UNCHANGED <<setup, status, verdict, engine, offered>>, ~torn' => ~torn, Accounted
  PROVE  Accounted'
BY DEF Accounted, EndsAreExplained, Explained, Reasoned, Resigned, PositionResult,
       PositionClass, Timeout, Turn, Mover, HumanPlies

\* A position's own verdict is a reason by itself.
LEMMA BoardReason ==
  ASSUME setup \in Setup, NEW s \in Engine, PositionResult(s.moves) # None
  PROVE  Reasoned(PositionResult(s.moves), s)
<1>1. PositionClass(s.moves) \in {"mated", "drawn", "open"}
  BY DEF PositionClass, Setup
<1>2. PositionResult(s.moves).reason \in {"checkmate", "drawn_position"}
  BY <1>1 DEF PositionResult
<1> QED
  BY <1>2 DEF Reasoned

\* A clock charged just now has not fallen.
LEMMA JustCharged ==
  ASSUME setup \in Setup, NEW s \in Engine, SoundState(s), s.clock.lastTickAt = Now
  PROVE  ~IsTimeout(s.clock, Now, Turn(s.moves))
<1>1. Turn(s.moves) \in Colors /\ s.moves \in Seq(Played) /\ s.clock \in Clock
  BY VerdictTypes DEF Engine
<1>2. s.clock[Turn(s.moves)] > 0
  <2>1. Budget(s.moves, Turn(s.moves)) > 0
    BY <1>1, BudgetType DEF SoundState
  <2> QED
    BY <1>1, <2>1 DEF SoundState
<1>3. s.clock[Turn(s.moves)] \in Int
  BY <1>1 DEF Clock, Colors
<1> QED
  BY <1>2, <1>3 DEF IsTimeout, Now

LEMMA MoveCharged ==
  ASSUME NEW s \in Engine, NEW m \in Move, setup \in Setup
  PROVE  ApplyMove(s, m).offer = s.offer /\ ApplyMove(s, m).clock.lastTickAt = Now
<1> DEFINE side == Turn(s.moves)
           c == ApplyIncrement(TickClock(s.clock, Now, side), side)
           x == [move |-> m, clockAfterMs |-> c[side]]
<1>1. s = [moves |-> s.moves, offer |-> s.offer, clock |-> s.clock] /\ s.clock \in Clock
  BY DEF Engine
<1>2. side \in Colors
  BY VerdictTypes
<1>3. c.lastTickAt = Now
  BY <1>1, <1>2 DEF ApplyIncrement, TickClock, Clock, Colors
<1> HIDE DEF c, side
<1>4. ApplyMove(s, m) = [s EXCEPT !.moves = Append(s.moves, x), !.clock = c]
  BY Zenon DEF ApplyMove, c, side, x
<1> HIDE DEF x
<1> QED
  BY <1>1, <1>3, <1>4

(* What each endpoint has read.                                            *)

LEMMA ReadAccounted ==
  ASSUME EndInv, ~torn
  PROVE  /\ status = "active" /\ engine # None => verdict = None
         /\ engine # None /\ engine.offer => offered
BY DEF EndInv, Accounted, EndsAreExplained, Explained

LEMMA MovePlansJustified ==
  ASSUME IInv, EndInv, ~torn, NEW p \in MovePlans
  PROVE  Justified(p)
<1> DEFINE s == ChargedClock(engine)
<1>1. engine # None /\ status = "active" /\ (engine.offer => offered)
  BY ReadAccounted DEF MovePlans, IsActive
<1>2. /\ s \in Engine /\ SoundState(s) /\ s.moves = engine.moves /\ engine \in Engine
      /\ setup \in Setup /\ Ongoing(s.moves)
  BY <1>1, ReadSound, ChargedSound
<1>3. s.offer = engine.offer /\ (~setup.timed => s.clock.lastTickAt = Now)
  BY <1>2 DEF ChargedClock, Engine, Clock
<1> HIDE DEF s
<1>4. CASE IsTimeout(s.clock, Now, Turn(s.moves))
  <2>1. p = [write |-> "end", engine |-> s, verdict |-> Timeout(Turn(s.moves))]
    BY <1>1, <1>4 DEF MovePlans, IsActive, s
  <2>2. setup.timed
    BY <1>2, <1>3, <1>4, JustCharged
  <2>3. Reasoned(Timeout(Turn(s.moves)), s)
    BY <1>4, <2>2 DEF Reasoned, Timeout
  <2> QED
    BY <1>1, <1>2, <1>3, <2>1, <2>3, NoneTypes DEF Justified
<1>5. CASE ~IsTimeout(s.clock, Now, Turn(s.moves))
  <2>1. PICK m \in LegalMoves(s.moves) :
          p = [write |-> "move", engine |-> ApplyMove(s, m),
               verdict |-> DetectResult(ApplyMove(s, m))]
    BY <1>1, <1>5 DEF MovePlans, IsActive, s
  <2>2. m \in Move
    BY <2>1 DEF LegalMoves
  <2> DEFINE n == ApplyMove(s, m)
  <2>3. n \in Engine /\ SoundState(n) /\ n.offer = s.offer /\ n.clock.lastTickAt = Now
    BY <1>2, <1>5, <2>2, MoveMade, MoveCharged
  <2> HIDE DEF n
  <2>4. DetectResult(n) = PositionResult(n.moves)
    BY <1>2, <2>3, JustCharged DEF DetectResult
  <2>5. p = [write |-> "move", engine |-> n, verdict |-> PositionResult(n.moves)]
    BY <2>1, <2>4 DEF n
  <2>6. PositionResult(n.moves) # None => Reasoned(PositionResult(n.moves), n)
    BY <1>2, <2>3, BoardReason
  <2> QED
    BY <1>1, <1>3, <2>3, <2>5, <2>6 DEF Justified
<1> QED
  BY <1>4, <1>5

LEMMA ResignPlansJustified == ASSUME NEW p \in ResignPlans PROVE Justified(p)
<1>1. p = [write |-> "end", engine |-> None, verdict |-> Resigned] /\ status = "active"
  BY DEF ResignPlans, Resigned, IsActive
<1> QED
  BY <1>1 DEF Justified

LEMMA AbortPlansJustified == ASSUME NEW p \in AbortPlans PROVE Justified(p)
<1>1. /\ p = [write |-> "abort"] /\ status = "active"
      /\ engine # None => HumanPlies(engine.moves) = {}
  BY DEF AbortPlans, IsActive
<1> QED
  BY <1>1 DEF Justified

LEMMA TruncatePlansJustified == ASSUME NEW p \in TruncatePlans PROVE Justified(p)
<1>1. PICK ply \in 0..(Len(engine.moves) - 1) :
        p = [write |-> "truncate", engine |-> TruncateToPly(engine, ply)]
  BY DEF TruncatePlans
<1>2. TruncateToPly(engine, ply).offer = FALSE
  BY DEF TruncateToPly
<1> QED
  BY <1>1, <1>2 DEF Justified

LEMMA OfferPlansJustified ==
  ASSUME NEW flag \in BOOLEAN, NEW p \in OfferPlans(flag)
  PROVE  Justified(p)
<1>1. p.write = "offer" /\ status = "active"
  BY DEF OfferPlans, IsActive
<1> QED
  BY <1>1 DEF Justified

\* A draw is agreed on an offer that stands, or claimed in a drawn position.
LEMMA DrawPlansJustified ==
  ASSUME IInv, EndInv, ~torn, NEW p \in AcceptPlans \cup ClaimPlans
  PROVE  Justified(p)
<1> DEFINE n == [engine EXCEPT !.offer = FALSE]
<1>1. engine # None /\ status = "active" /\ engine \in Engine /\ setup \in Setup
  BY ReadSound DEF AcceptPlans, ClaimPlans, IsActive
<1>2. n \in Engine /\ n.moves = engine.moves /\ ~n.offer
  BY <1>1 DEF Engine
<1>3. PICK v : p = [write |-> "end", engine |-> n, verdict |-> v] /\ Reasoned(v, n)
  <2>1. CASE p \in AcceptPlans
    <3> DEFINE v == [result |-> "draw", reason |-> "draw_agreement"]
    <3>1. offered /\ p = CompleteDraw(v)
      BY <1>1, <2>1, ReadAccounted DEF AcceptPlans
    <3>2. Reasoned(v, n)
      BY <3>1 DEF Reasoned
    <3> QED
      BY <3>1, <3>2 DEF CompleteDraw
  <2>2. CASE p \in ClaimPlans
    <3> DEFINE v == DetectResult(engine)
    <3>1. v # None /\ v.result = "draw" /\ p = CompleteDraw(v)
      BY <1>1, <2>2 DEF ClaimPlans
    <3>2. Timeout(Turn(engine.moves)).result # "draw"
      BY DEF Timeout, Wins
    <3>3. v = PositionResult(n.moves)
      BY <1>2, <3>1, <3>2 DEF DetectResult
    <3>4. Reasoned(v, n)
      BY <1>1, <1>2, <3>1, <3>3, BoardReason
    <3> QED
      BY <3>1, <3>4 DEF CompleteDraw
  <2> QED
    BY <2>1, <2>2
<1> HIDE DEF n
<1> QED
  BY <1>1, <1>2, <1>3, NoneTypes DEF Justified

(* The steps. *)

\* The row is as it was.
LEMMA RowKeptAccounted ==
  ASSUME EndInv, UNCHANGED <<setup, creating, status, verdict, engine, offered>>,
         ~torn' => ~torn,
         ~torn => \A q \in Req : req'[q] # None /\ req'[q].fresh => Justified(req'[q].plan)
  PROVE  EndInv'
<1>1. ~torn' => Accounted'
  BY AccountedStays DEF EndInv
<1>2. ASSUME ~torn', NEW q \in Req, req'[q] # None, req'[q].fresh
      PROVE  Justified(req[q].plan)'
  <2>1. PICK p : p = req'[q].plan
    OBVIOUS
  <2>2. Justified(p)'
    BY <1>2, <2>1, JustifiedStays
  <2> QED
    BY <2>1, <2>2
<1> QED
  BY <1>1, <1>2 DEF EndInv

LEMMA ReceiveAccounted ==
  ASSUME IInv, EndInv, NEW r \in Req, NEW plans, Receive(r, plans),
         ~torn => \A p \in plans : Justified(p)
  PROVE  EndInv'
<1>1. PICK p \in plans : req' = [req EXCEPT ![r] = [plan |-> p, fresh |-> TRUE]]
  BY DEF Receive
<1>2. UNCHANGED <<setup, creating, status, verdict, engine, moveRows, torn, offered>>
  BY DEF Receive
<1>3. ASSUME ~torn, NEW q \in Req, req'[q] # None, req'[q].fresh
      PROVE  Justified(req'[q].plan)
  <2>1. CASE q = r
    BY <1>1, <1>3, <2>1 DEF IInv, TypeOK
  <2>2. CASE q # r
    BY <1>1, <1>3, <2>2 DEF IInv, TypeOK, EndInv
  <2> QED
    BY <2>1, <2>2
<1> QED
  BY <1>2, <1>3, RowKeptAccounted

\* A write of an unchanged row was justified, and leaves nobody fresh.
LEMMA WroteAccounted ==
  ASSUME IInv, EndInv, NEW r \in Req, req[r] # None, Wrote(r)
  PROVE  /\ ~torn' => ~torn /\ req[r].fresh /\ Accounted /\ Justified(req[r].plan)
         /\ \A q \in Req : ~(req'[q] # None /\ req'[q].fresh)
<1>1. ~torn' => ~torn /\ req[r].fresh
  BY DEF Wrote
<1>2. ASSUME NEW q \in Req, req'[q] # None PROVE ~req'[q].fresh
  <2>1. req[q] # None /\ req'[q] = [req[q] EXCEPT !.fresh = FALSE]
    BY <1>2 DEF Wrote
  <2>2. req[q] \in [plan : Plan, fresh : BOOLEAN]
    BY <2>1 DEF IInv, TypeOK, Handler
  <2> QED
    BY <2>1, <2>2
<1> QED
  BY <1>1, <1>2 DEF EndInv

LEMMA CommitMoveAccounted == ASSUME IInv, EndInv, NEW r \in Req, CommitMove(r) PROVE EndInv'
<1> DEFINE p   == req[r].plan
           ply == Len(p.engine.moves)
<1>1. req[r] # None /\ p.write = "move" /\ UNCHANGED <<setup, creating, offered>>
  BY DEF CommitMove, Writes
<1>2. p.engine \in Engine /\ p.engine # None /\ engine # None /\ setup \in Setup
  BY <1>1, WriterSound, PlanTypes, NoneTypes DEF IInv, TypeOK
<1>3. CASE ~PlyFree(ply)
  <2>1. Leave(r) /\ UNCHANGED <<status, verdict, engine>>
    BY <1>3 DEF CommitMove
  <2>2. ASSUME ~torn, NEW q \in Req, req'[q] # None, req'[q].fresh
        PROVE  Justified(req'[q].plan)
    BY <2>1, <2>2 DEF Leave, IInv, TypeOK, EndInv
  <2> QED
    BY <1>1, <2>1, <2>2, RowKeptAccounted DEF Leave
<1>4. CASE PlyFree(ply)
  <2>1. /\ engine' = p.engine
        /\ IF p.verdict # None THEN status' = "completed" /\ verdict' = p.verdict
           ELSE UNCHANGED <<status, verdict>>
        /\ Wrote(r)
    BY <1>4 DEF CommitMove
  <2>2. \A q \in Req : ~(req'[q] # None /\ req'[q].fresh)
    BY <1>1, <2>1, WroteAccounted
  <2>3. ASSUME ~torn' PROVE Accounted'
    <3>1. /\ ~torn /\ status = "active" /\ verdict = None
          /\ p.engine.offer => offered
          /\ p.verdict # None => Reasoned(p.verdict, p.engine)
      BY <1>1, <1>2, <2>1, <2>3, WroteAccounted, ReadAccounted DEF Justified
    <3>2. PICK v, s : v = p.verdict /\ s = p.engine
      OBVIOUS
    <3>3. p.verdict # None => Reasoned(verdict, engine)'
      <4>1. v # None => Reasoned(v, s)'
        BY <1>1, <3>1, <3>2, ReasonsStay
      <4> QED
        BY <2>1, <3>2, <4>1
    <3>4. Explained'
      BY <2>1, <3>1, <3>3 DEF Explained
    <3> QED
      BY <1>1, <1>2, <2>1, <3>1, <3>4 DEF Accounted, EndsAreExplained
  <2> QED
    BY <1>1, <2>2, <2>3 DEF EndInv
<1> QED
  BY <1>3, <1>4

LEMMA CommitEndAccounted == ASSUME IInv, EndInv, NEW r \in Req, CommitEnd(r) PROVE EndInv'
<1> DEFINE p == req[r].plan
<1>1. /\ req[r] # None /\ p.write = "end" /\ Wrote(r) /\ UNCHANGED <<setup, creating, offered>>
      /\ status' = "completed" /\ verdict' = p.verdict
      /\ engine' = IF p.engine = None THEN engine ELSE p.engine
  BY DEF CommitEnd, Writes
<1>2. p.engine # None => engine # None
  BY <1>1, WriterSound, PlanTypes
<1>3. \A q \in Req : ~(req'[q] # None /\ req'[q].fresh)
  BY <1>1, WroteAccounted
<1>4. ASSUME ~torn' PROVE Accounted'
  <2>1. /\ Accounted
        /\ p.engine # None /\ p.engine.offer => offered
        /\ IF p.engine = None THEN p.verdict = Resigned ELSE Reasoned(p.verdict, p.engine)
    BY <1>1, <1>4, WroteAccounted DEF Justified
  <2>2. CASE p.engine = None
    <3>1. engine' = engine /\ verdict' = Resigned /\ Resigned' = Resigned
      BY <1>1, <2>1, <2>2 DEF Resigned
    <3>2. Reasoned(verdict, engine)'
      BY <1>1, <3>1 DEF Reasoned, Resigned
    <3>3. Explained'
      BY <1>1, <3>2 DEF Explained
    <3> QED
      BY <1>1, <2>1, <3>1, <3>3 DEF Accounted, EndsAreExplained
  <2>3. CASE p.engine # None
    <3>1. PICK v, s : v = p.verdict /\ s = p.engine
      OBVIOUS
    <3>2. Reasoned(v, s)'
      BY <1>1, <2>1, <2>3, <3>1, ReasonsStay
    <3>3. Reasoned(verdict, engine)'
      BY <1>1, <2>3, <3>1, <3>2
    <3>4. Explained'
      BY <1>1, <3>3 DEF Explained
    <3> QED
      BY <1>1, <2>1, <2>3, <3>4 DEF Accounted, EndsAreExplained
  <2> QED
    BY <2>2, <2>3
<1> QED
  BY <1>1, <1>3, <1>4 DEF EndInv

LEMMA CommitOfferAccounted == ASSUME IInv, EndInv, NEW r \in Req, CommitOffer(r) PROVE EndInv'
<1> DEFINE p == req[r].plan
<1>1. /\ req[r] # None /\ p.write = "offer" /\ Wrote(r)
      /\ UNCHANGED <<setup, creating, status, verdict>>
      /\ engine' = p.engine /\ offered' = engine'.offer
  BY DEF CommitOffer, Writes
<1>2. p.engine # None /\ engine # None
  BY <1>1, WriterSound, PlanTypes, NoneTypes
<1>3. \A q \in Req : ~(req'[q] # None /\ req'[q].fresh)
  BY <1>1, WroteAccounted
<1>4. ASSUME ~torn' PROVE Accounted'
  <2>1. ~torn /\ status = "active"
    BY <1>1, <1>4, WroteAccounted DEF Justified
  <2>2. verdict = None
    BY <1>2, <2>1, ReadAccounted
  <2> QED
    BY <1>1, <1>2, <2>1, <2>2 DEF Accounted, EndsAreExplained, Explained
<1> QED
  BY <1>1, <1>3, <1>4 DEF EndInv

LEMMA CommitTruncateAccounted ==
  ASSUME IInv, EndInv, NEW r \in Req, CommitTruncate(r)
  PROVE  EndInv'
<1> DEFINE p == req[r].plan
<1>1. /\ req[r] # None /\ p.write = "truncate" /\ Wrote(r) /\ UNCHANGED <<setup, creating>>
      /\ engine' = p.engine /\ offered' = FALSE /\ status' = "active" /\ verdict' = None
  BY DEF CommitTruncate, Writes
<1>2. \A q \in Req : ~(req'[q] # None /\ req'[q].fresh)
  BY <1>1, WroteAccounted
<1>3. ASSUME ~torn' PROVE Accounted'
  <2>1. ~p.engine.offer
    BY <1>1, <1>3, WroteAccounted DEF Justified
  <2> QED
    BY <1>1, <2>1 DEF Accounted, EndsAreExplained, Explained
<1> QED
  BY <1>1, <1>2, <1>3 DEF EndInv

LEMMA CommitAbortAccounted == ASSUME IInv, EndInv, NEW r \in Req, CommitAbort(r) PROVE EndInv'
<1> DEFINE p == req[r].plan
<1>1. /\ req[r] # None /\ p.write = "abort" /\ Wrote(r)
      /\ UNCHANGED <<setup, creating, engine, offered>>
      /\ status' = "aborted" /\ verdict' = None
  BY DEF CommitAbort, Writes
<1>2. \A q \in Req : ~(req'[q] # None /\ req'[q].fresh)
  BY <1>1, WroteAccounted
<1>3. ASSUME ~torn' PROVE Accounted'
  <2>1. Accounted /\ (engine # None => HumanPlies(engine.moves) = {})
    BY <1>1, <1>3, WroteAccounted DEF Justified
  <2>2. engine' # None => HumanPlies(engine.moves)' = {}
    BY <1>1, <2>1 DEF HumanPlies, Mover
  <2> QED
    BY <1>1, <2>1, <2>2 DEF Accounted, EndsAreExplained, Explained
<1> QED
  BY <1>1, <1>2, <1>3 DEF EndInv

\* The first engine state explains a game that ended without one.
LEMMA CreateAccounted == ASSUME IInv, EndInv, CreateEngine PROVE EndInv'
<1>1. /\ creating # None /\ creating' = None /\ engine' = creating
      /\ UNCHANGED <<setup, status, verdict, req, torn, offered>>
  BY DEF CreateEngine
<1>2. creating.moves = << >> /\ engine = None /\ ~creating.offer
  BY <1>1 DEF IInv, SoundCreation, EndInv
<1>3. HumanPlies(engine.moves)' = {}
  BY <1>1, <1>2, EmptySeq DEF HumanPlies
<1>4. ASSUME ~torn PROVE Accounted'
  <2>1. verdict = IF status = "completed" THEN Resigned ELSE None
    BY <1>2, <1>4 DEF EndInv, Accounted
  <2>2. verdict = Resigned => Reasoned(verdict, engine)'
    BY <1>1 DEF Reasoned, Resigned
  <2>3. Explained'
    BY <1>1, <1>3, <2>1, <2>2 DEF Explained, IInv, TypeOK
  <2> QED
    BY <1>1, <1>2, <2>3 DEF Accounted, EndsAreExplained
<1>5. ASSUME ~torn, NEW q \in Req, req[q] # None, req[q].fresh
      PROVE  Justified(req[q].plan)'
  <2>1. PICK h \in Handler : h = req[q]
    BY DEF IInv, TypeOK
  <2>2. Justified(h.plan)
    BY <1>5, <2>1 DEF EndInv
  <2>3. PlanState(h.plan) = None /\ h.plan \in Plan
    BY <1>2, <1>5, <2>1, HandlerTypes DEF IInv, SoundHandler
  <2>4. h.plan.write \in {"end", "abort"} /\ (h.plan.write = "end" => h.plan.engine = None)
    BY <2>3, PlanTypes, NoneTypes
  <2>5. Justified(h.plan)'
    BY <1>1, <1>3, <2>2, <2>4 DEF Justified, Resigned
  <2> QED
    BY <1>1, <2>1, <2>5
<1> QED
  BY <1>1, <1>4, <1>5 DEF EndInv

LEMMA RestartAccounted == ASSUME IInv, EndInv, Restart PROVE EndInv'
<1>1. /\ creating' = None /\ \A q \in Req : req'[q] = None
      /\ UNCHANGED <<setup, status, verdict, engine, torn, offered>>
  BY DEF Restart
<1>2. ~torn' => Accounted'
  BY <1>1, AccountedStays DEF EndInv
<1> QED
  BY <1>1, <1>2 DEF EndInv

\* A flag that has fallen stays fallen while time passes.
LEMMA ReasonsAge ==
  ASSUME setup \in Setup, NEW s \in Engine, NEW v, Reasoned(v, s)
  PROVE  Reasoned(v, Older(s))
<1>1. /\ Older(s).moves = s.moves /\ s.clock \in Clock
      /\ Turn(s.moves) \in Colors
  BY OlderFacts, VerdictTypes DEF Engine
<1>2. IsTimeout(s.clock, Now, Turn(s.moves)) => IsTimeout(Older(s).clock, Now, Turn(s.moves))
  <2> DEFINE at == IF s.clock.lastTickAt > -Horizon THEN s.clock.lastTickAt - 1
                   ELSE s.clock.lastTickAt
             c  == [s.clock EXCEPT !.lastTickAt = at]
  <2>1. at \in Int /\ at <= s.clock.lastTickAt
    BY <1>1, BoundAssumption DEF Clock
  <2>2. Older(s) = [s EXCEPT !.clock.lastTickAt = at]
    BY NoneTypes DEF Older
  <2> HIDE DEF at
  <2>3. Older(s).clock = c
    BY <2>2 DEF Engine
  <2>4. c.lastTickAt = at /\ c.w = s.clock.w /\ c.b = s.clock.b
    BY <1>1 DEF Clock
  <2> HIDE DEF c
  <2> QED
    BY <1>1, <2>1, <2>3, <2>4 DEF IsTimeout, Now, Clock, Colors
<1> QED
  BY <1>1, <1>2 DEF Reasoned

LEMMA TickAccounted == ASSUME IInv, EndInv, Tick PROVE EndInv'
<1>1. /\ engine' = Older(engine) /\ creating' = Older(creating)
      /\ \A q \in Req : req'[q] = OlderHandler(req[q])
      /\ UNCHANGED <<setup, status, verdict, torn, offered>>
  BY DEF Tick
<1>2. /\ engine \in Engine \cup {None} /\ creating \in Engine \cup {None}
      /\ setup \in Setup
      /\ status \in {"active", "completed", "aborted"}
  BY DEF IInv, TypeOK
<1>3. /\ engine' = None <=> engine = None
      /\ engine # None => engine'.moves = engine.moves /\ engine'.offer = engine.offer
      /\ creating' # None => creating # None /\ creating'.offer = creating.offer
  BY <1>1, <1>2, OlderFacts, NoneTypes DEF Older
<1>4. engine # None => HumanPlies(engine.moves)' = HumanPlies(engine.moves)
  BY <1>1, <1>3 DEF HumanPlies, Mover
<1>5. ASSUME ~torn PROVE Accounted'
  <2>1. Accounted
    BY <1>5 DEF EndInv
  <2>2. ASSUME engine # None, Reasoned(verdict, engine) PROVE Reasoned(verdict, engine)'
    <3>1. PICK v, s : v = verdict /\ s = Older(engine)
      OBVIOUS
    <3>2. Reasoned(v, s)
      BY <1>2, <2>2, <3>1, ReasonsAge
    <3>3. Reasoned(v, s)'
      BY <1>1, <3>2, ReasonsStay
    <3> QED
      BY <1>1, <3>1, <3>3
  <2>3. engine # None => Explained'
    <3> SUFFICES ASSUME engine # None PROVE Explained'
      OBVIOUS
    <3>1. Explained
      BY <1>5, <2>1 DEF Accounted, EndsAreExplained
    <3>2. CASE status = "active"
      BY <1>1, <3>1, <3>2 DEF Explained
    <3>3. CASE status = "aborted"
      BY <1>1, <1>4, <3>1, <3>3 DEF Explained
    <3>4. CASE status = "completed"
      BY <1>1, <2>2, <3>1, <3>4 DEF Explained
    <3> QED
      BY <1>2, <3>2, <3>3, <3>4
  <2> QED
    BY <1>1, <1>3, <2>1, <2>3 DEF Accounted, EndsAreExplained, Resigned
<1>6. ASSUME ~torn, NEW q \in Req, req'[q] # None, req'[q].fresh
      PROVE  Justified(req[q].plan)'
  <2>1. PICK h \in Handler : h = req[q]
    BY DEF IInv, TypeOK
  <2>2. h # None /\ h.plan \in Plan /\ req'[q] = OlderHandler(h)
        /\ h = [plan |-> h.plan, fresh |-> h.fresh]
    BY <1>1, <1>6, <2>1, HandlerTypes DEF OlderHandler, Handler
  <2>3. CASE h.plan.write = "abort"
    <3>1. req'[q] = h
      BY <2>2, <2>3 DEF OlderHandler
    <3>2. Justified(h.plan)
      BY <1>6, <2>1, <3>1 DEF EndInv
    <3>3. Justified(h.plan)'
      BY <1>1, <1>3, <1>4, <2>3, <3>2 DEF Justified
    <3> QED
      BY <3>1, <3>3
  <2>4. CASE h.plan.write # "abort"
    <3> DEFINE p == h.plan
               o == Older(p.engine)
    <3>1. p.engine \in Engine \cup {None}
      BY <2>2, <2>4, PlanTypes
    <3>2. /\ o = None <=> p.engine = None
          /\ p.engine # None => o.offer = p.engine.offer
      BY <3>1, OlderFacts, NoneTypes DEF Older
    <3>3. req'[q] = [h EXCEPT !.plan.engine = o]
      BY <2>2, <2>4 DEF OlderHandler
    <3> HIDE DEF o
    <3>4. /\ req'[q].fresh = h.fresh /\ req'[q].plan = [p EXCEPT !.engine = o]
      BY <2>2, <3>3
    <3>5. PICK g : g = [p EXCEPT !.engine = o]
      OBVIOUS
    <3>6. /\ g.write = p.write /\ g.engine = o
          /\ p.write \in {"move", "end"} => g.verdict = p.verdict
      BY <2>2, <2>4, <3>5 DEF Plan
    <3>7. Justified(p)
      BY <1>6, <2>1, <2>2, <3>4 DEF EndInv
    <3>8. \A v : p.engine # None /\ Reasoned(v, p.engine) => Reasoned(v, o)'
      <4>1. \A v : p.engine # None /\ Reasoned(v, p.engine) => Reasoned(v, o)
        BY <1>2, <3>1, ReasonsAge DEF o
      <4>2. \A v, s : Reasoned(v, s)' <=> Reasoned(v, s)
        BY <1>1, ReasonsStay
      <4>3. PICK s : s = o
        OBVIOUS
      <4>4. \A v : p.engine # None /\ Reasoned(v, p.engine) => Reasoned(v, s)'
        BY <4>1, <4>2, <4>3
      <4> QED
        BY <4>3, <4>4
    <3>9. Justified(g)'
      <4>1. /\ p.write \in {"move", "truncate"} => p.engine # None
            /\ p.write # "abort"
        BY <2>2, <2>4, PlanTypes, NoneTypes
      <4> HIDE DEF p
      <4> QED
        BY <1>1, <3>2, <3>6, <3>7, <3>8, <4>1 DEF Justified, Resigned
    <3> QED
      BY <3>4, <3>5, <3>9
  <2> QED
    BY <2>3, <2>4
<1> QED
  BY <1>1, <1>3, <1>5, <1>6 DEF EndInv

LEMMA InitAccounted == Init => EndInv
<1> SUFFICES ASSUME Init PROVE EndInv
  OBVIOUS
<1>1. /\ creating = NewEngine /\ status = "active" /\ verdict = None
      /\ engine = None /\ \A r \in Req : req[r] = None
  BY DEF Init
<1> QED
  BY <1>1 DEF EndInv, Accounted, EndsAreExplained, NewEngine

LEMMA NextAccounted == IInv /\ EndInv /\ [Next]_vars => EndInv'
<1> SUFFICES ASSUME IInv, EndInv, [Next]_vars PROVE EndInv'
  OBVIOUS
<1>1. ASSUME NEW r \in Req,
             \/ Receive(r, MovePlans) \/ Receive(r, ResignPlans) \/ Receive(r, AbortPlans)
             \/ Receive(r, TruncatePlans) \/ Receive(r, AcceptPlans) \/ Receive(r, ClaimPlans)
             \/ \E flag \in BOOLEAN : Receive(r, OfferPlans(flag))
      PROVE  EndInv'
  <2>1. ~torn => /\ \A p \in MovePlans : Justified(p)
                 /\ \A p \in ResignPlans : Justified(p)
                 /\ \A p \in AbortPlans : Justified(p)
                 /\ \A p \in TruncatePlans : Justified(p)
                 /\ \A p \in AcceptPlans : Justified(p)
                 /\ \A p \in ClaimPlans : Justified(p)
                 /\ \A flag \in BOOLEAN : \A p \in OfferPlans(flag) : Justified(p)
    BY MovePlansJustified, ResignPlansJustified, AbortPlansJustified, TruncatePlansJustified,
       DrawPlansJustified, OfferPlansJustified
  <2> QED
    BY <1>1, <2>1, ReceiveAccounted
<1>2. ASSUME NEW r \in Req,
             \/ CommitMove(r) \/ CommitEnd(r) \/ CommitOffer(r)
             \/ CommitTruncate(r) \/ CommitAbort(r)
      PROVE  EndInv'
  BY <1>2, CommitMoveAccounted, CommitEndAccounted, CommitOfferAccounted,
     CommitTruncateAccounted, CommitAbortAccounted
<1>3. CASE CreateEngine
  BY <1>3, CreateAccounted
<1>4. CASE Restart
  BY <1>4, RestartAccounted
<1>5. CASE Tick
  BY <1>5, TickAccounted
<1>6. CASE UNCHANGED vars
  BY <1>6, RowKeptAccounted DEF vars, EndInv
<1> QED
  BY <1>1, <1>2, <1>3, <1>4, <1>5, <1>6 DEF Next

\* As long as no handler has written over a row that changed since its read,
\* every end has its reason: on the board, on the clock of the side to move, in
\* a resignation of the human's, or in an offer not refused or taken back.
THEOREM EndsExplained == Spec => []EndsAreExplained
<1>1. EndInv => EndsAreExplained
  BY DEF EndInv, Accounted, EndsAreExplained
<1> QED
  BY <1>1, Invariance, InitAccounted, NextAccounted, PTL DEF Spec
===============================================================================
