---------------------------- MODULE PvpGameProofs -----------------------------
(***************************************************************************)
(* Theorems about PvpGame: for any number of overlapping handlers, any set *)
(* of moves and any clock, IInv is inductive, and what it implies.         *)
(***************************************************************************)
EXTENDS PvpGame, SequenceTheorems, TLAPS

(* The clock and the moves a handler computes with.                        *)

LEMMA TurnType == ASSUME NEW moves \in Seq(Move) PROVE Turn(moves) \in Colors
BY DEF Turn, Colors

LEMMA OpponentType ==
  ASSUME NEW side \in Colors
  PROVE  Opponent(side) \in Colors /\ Opponent(side) # side
         /\ {side, Opponent(side)} = Colors
BY DEF Opponent, Colors

LEMMA WinsType == ASSUME NEW side \in Colors PROVE Wins(side) \in Results \ {"draw"}
BY DEF Wins, Colors, Results

LEMMA NoneTypes == None \notin Colors /\ None \notin Verdict /\ None \notin Engine
BY NoneAssumption

\* Charging a budget that has not fallen and adding the increment leaves it positive.
LEMMA ChargePositive ==
  ASSUME NEW c \in Clock, NEW side \in Colors, c.w > 0, c.b > 0,
         ~IsTimeout(c, Now, side)
  PROVE  LET n == ApplyIncrement(TickClock(c, Now, side), side)
         IN  /\ n \in Clock /\ n.w > 0 /\ n.b > 0
             /\ n.lastTickAt = Now
<1>0. /\ c.w \in Int /\ c.b \in Int /\ c.lastTickAt \in Int /\ c.incrementMs \in Nat
      /\ c = [w |-> c.w, b |-> c.b, lastTickAt |-> c.lastTickAt, incrementMs |-> c.incrementMs]
  BY DEF Clock
<1>1. CASE side = "w"
  <2> DEFINE left == c.w - (Now - c.lastTickAt)
  <2>1. left > 0 /\ left \in Int
    BY <1>0, <1>1 DEF IsTimeout, Now
  <2>a. Charged(c, Now, "w") = left
    BY <1>0, <1>1, <2>1 DEF Charged
  <2> HIDE DEF left
  <2>2. TickClock(c, Now, side)
        = [w |-> left, b |-> c.b, lastTickAt |-> Now, incrementMs |-> c.incrementMs]
    BY <1>0, <1>1, <2>a DEF TickClock
  <2>3. ApplyIncrement(TickClock(c, Now, side), side)
        = [w |-> left + c.incrementMs, b |-> c.b, lastTickAt |-> Now,
           incrementMs |-> c.incrementMs]
    BY <1>1, <2>2 DEF ApplyIncrement
  <2> QED
    BY <1>0, <2>1, <2>3 DEF Clock, Now
<1>2. CASE side = "b"
  <2> DEFINE left == c.b - (Now - c.lastTickAt)
  <2>1. left > 0 /\ left \in Int
    BY <1>0, <1>2 DEF IsTimeout, Now
  <2>a. Charged(c, Now, "b") = left
    BY <1>0, <1>2, <2>1 DEF Charged
  <2> HIDE DEF left
  <2>2. TickClock(c, Now, side)
        = [w |-> c.w, b |-> left, lastTickAt |-> Now, incrementMs |-> c.incrementMs]
    BY <1>0, <1>2, <2>a DEF TickClock
  <2>3. ApplyIncrement(TickClock(c, Now, side), side)
        = [w |-> c.w, b |-> left + c.incrementMs, lastTickAt |-> Now,
           incrementMs |-> c.incrementMs]
    BY <1>2, <2>2 DEF ApplyIncrement
  <2> QED
    BY <1>0, <2>1, <2>3 DEF Clock, Now
<1> QED
  BY <1>1, <1>2 DEF Colors

LEMMA AppendFacts ==
  ASSUME NEW moves \in Seq(Move), NEW m \in Move
  PROVE  /\ Append(moves, m) \in Seq(Move)
         /\ Append(moves, m) # << >>
         /\ Len(Append(moves, m)) = Len(moves) + 1
         /\ Len(moves) \in Nat
         /\ \A i \in 1..Len(moves) : Append(moves, m)[i] = moves[i]
         /\ Append(moves, m)[Len(moves) + 1] = m
<1>1. Len(Append(moves, m)) = Len(moves) + 1 /\ Len(moves) \in Nat
  OBVIOUS
<1>2. Append(moves, m) # << >>
  BY <1>1, EmptySeq
<1> QED
  BY <1>1, <1>2

\* What applyMove returns for a side whose flag is up.
LEMMA MoveMade ==
  ASSUME NEW s \in Engine, NEW m \in Move, s.clock.w > 0, s.clock.b > 0,
         ~IsTimeout(s.clock, Now, Turn(s.moves))
  PROVE  LET n == ApplyMove(s, m)
         IN  /\ n \in Engine
             /\ n.moves = Append(s.moves, m)
             /\ n.offer = s.offer
             /\ n.clock.w > 0 /\ n.clock.b > 0
             /\ n.clock.lastTickAt = Now
<1> DEFINE side == Turn(s.moves)
           c == ApplyIncrement(TickClock(s.clock, Now, side), side)
<1>1. /\ s.moves \in Seq(Move) /\ s.offer \in Colors \cup {None} /\ s.clock \in Clock
      /\ s = [moves |-> s.moves, offer |-> s.offer, clock |-> s.clock]
  BY DEF Engine
<1>2. side \in Colors
  BY <1>1, TurnType
<1>3. c \in Clock /\ c.w > 0 /\ c.b > 0 /\ c.lastTickAt = Now
  BY <1>1, <1>2, ChargePositive
<1>4. ApplyMove(s, m) = [moves |-> Append(s.moves, m), offer |-> s.offer, clock |-> c]
  BY DEF ApplyMove
<1> HIDE DEF c
<1> QED
  BY <1>1, <1>3, <1>4 DEF Engine

\* What a handler holds after loadGame or ensureEngineState.
Held(s) == s \in Engine /\ Sound(s, moveRows, agreed) /\ Open(s.moves)

\* The move a handler plays is judged by the position it reaches.
LEMMA MoveJudged ==
  ASSUME NEW s \in Engine, NEW m \in Move, s.clock.w > 0, s.clock.b > 0,
         ~IsTimeout(s.clock, Now, Turn(s.moves))
  PROVE  DetectResult(ApplyMove(s, m)) = VerdictOf(Append(s.moves, m))
<1> DEFINE n == ApplyMove(s, m)
<1>1. /\ n.moves = Append(s.moves, m) /\ n.clock \in Clock /\ n \in Engine
      /\ n.clock.w > 0 /\ n.clock.b > 0 /\ n.clock.lastTickAt = Now
  BY MoveMade DEF Engine
<1>2. Append(s.moves, m) # << >> /\ Turn(n.moves) \in Colors
  BY <1>1, TurnType, AppendFacts DEF Engine
<1>3. ~IsTimeout(n.clock, Now, Turn(n.moves))
  BY <1>1, <1>2 DEF IsTimeout, Clock, Now, Colors
<1> HIDE DEF n
<1>4. DetectResult(n) = VerdictOf(n.moves)
  BY <1>1, <1>2, <1>3 DEF DetectResult, VerdictOf
<1> QED
  BY <1>1, <1>4 DEF n

LEMMA VerdictOfType ==
  ASSUME NEW moves \in Seq(Move), moves # << >>
  PROVE  VerdictOf(moves) \in Verdict \cup {None}
<1>1. Wins(Opponent(Turn(moves))) \in Results
  BY TurnType, OpponentType, WinsType
<1> QED
  BY <1>1 DEF VerdictOf, Verdict, Results, Reasons

LEMMA FinalizeSound ==
  ASSUME NEW s, Held(s), NEW side \in Colors, NEW v \in Verdict, OffBoard(v),
         v.reason = "draw_agreement" => Opponent(side) \in agreed
  PROVE  /\ Finalize(s, v) \in Plan
         /\ Finalize(s, v).write = "finalize"
         /\ SoundFinalize(Finalize(s, v), side, moveRows, agreed)
<1> DEFINE e == [s EXCEPT !.offer = None]
<1>1. /\ e \in Engine /\ e.moves = s.moves /\ e.clock = s.clock /\ e.offer = None
  BY DEF Held, Engine
<1> HIDE DEF e
<1>2. Finalize(s, v) = [write |-> "finalize", engine |-> e, verdict |-> v]
  BY DEF Finalize, e
<1>3. Sound(e, moveRows, agreed) /\ Open(e.moves)
  BY <1>1 DEF Held, Sound, FollowsRows
<1> QED
  BY <1>1, <1>2, <1>3 DEF Plan, SoundFinalize

LEMMA SetOfferSound ==
  ASSUME NEW s, Held(s), NEW offer \in Colors \cup {None}
  PROVE  /\ SetOffer(s, offer) \in Plan
         /\ SetOffer(s, offer).write = "engine"
         /\ SoundOffer(SetOffer(s, offer), moveRows)
<1> DEFINE e == [s EXCEPT !.offer = offer]
<1>1. /\ e \in Engine /\ e.moves = s.moves /\ e.clock = s.clock
  BY DEF Held, Engine
<1> HIDE DEF e
<1>2. SetOffer(s, offer) = [write |-> "engine", engine |-> e]
  BY DEF SetOffer, e
<1> QED
  BY <1>1, <1>2 DEF Plan, SoundOffer, Held, Sound, FollowsRows

LEMMA MovePlanSound ==
  ASSUME NEW s, Held(s), moveRows \in Seq(Move), NEW m \in Move,
         ~IsTimeout(s.clock, Now, Turn(s.moves)),
         NEW side \in Colors, side = Turn(s.moves)
  PROVE  /\ MovePlan(s, side, m) \in Plan
         /\ MovePlan(s, side, m).write = "move"
         /\ SoundMove(MovePlan(s, side, m), moveRows, agreed)
<1> DEFINE n == ApplyMove(s, m)
           e == ClearOffer(n, side)
           v == DetectResult(n)
<1>1. s \in Engine /\ s.clock.w > 0 /\ s.clock.b > 0 /\ s.moves \in Seq(Move)
  BY DEF Held, Sound, Engine
<1>2. /\ n \in Engine /\ n.moves = Append(s.moves, m) /\ n.offer = s.offer
      /\ n.clock.w > 0 /\ n.clock.b > 0
  BY <1>1, MoveMade
<1>3. v = VerdictOf(n.moves) /\ v \in Verdict \cup {None}
  <2>1. v = VerdictOf(n.moves)
    BY <1>1, <1>2, MoveJudged
  <2>2. n.moves \in Seq(Move) /\ n.moves # << >>
    BY <1>1, <1>2, AppendFacts
  <2> QED
    BY <2>1, <2>2, VerdictOfType
<1> HIDE DEF n, v
<1>4. /\ e \in Engine /\ e.moves = n.moves /\ e.clock = n.clock
      /\ e.offer # None => e.offer = s.offer
  BY <1>2 DEF ClearOffer, Engine
<1>5. MovePlan(s, side, m) = [write |-> "move", engine |-> e, verdict |-> v]
  BY DEF MovePlan, n, v
<1> HIDE DEF e
<1>6. MovePlan(s, side, m) \in Plan /\ MovePlan(s, side, m).write = "move"
  BY <1>3, <1>4, <1>5 DEF Plan
<1>7. Len(e.moves) = Len(s.moves) + 1 /\ \A i \in 1..Len(s.moves) : e.moves[i] = s.moves[i]
  BY <1>1, <1>2, <1>4
<1>8. /\ Len(s.moves) <= Len(moveRows) /\ Len(s.moves) \in Nat
      /\ \A i \in 1..Len(s.moves) : s.moves[i] = moveRows[i] /\ s.moves[i] \notin EndingMoves
  BY <1>1 DEF Held, Sound, FollowsRows, Open
<1>9. e.offer # None => e.offer \in agreed
  BY <1>4 DEF Held, Sound
<1> QED
  <2>1. Len(e.moves) - 1 = Len(s.moves) /\ Len(e.moves) > 0
    BY <1>7, <1>8
  <2>2. SoundMove([write |-> "move", engine |-> e, verdict |-> v],
                  moveRows, agreed)
    BY <1>2, <1>3, <1>4, <1>7, <1>8, <1>9, <2>1 DEF SoundMove
  <2> QED
    BY <1>5, <1>6, <2>2

(* Every plan a handler can make keeps the promises of IInv.               *)

LEMMA TimeoutVerdict ==
  ASSUME NEW side \in Colors
  PROVE  Timeout(side) \in Verdict /\ Timeout(side).reason = "timeout"
         /\ OffBoard(Timeout(side)) /\ Timeout(side).result # "draw"
<1>1. Wins(Opponent(side)) \in Results \ {"draw"}
  BY OpponentType, WinsType
<1> QED
  BY <1>1 DEF Timeout, Verdict, OffBoard, Reasons

\* Detecting a result in a position no move has ended can only find a flag.
LEMMA OnlyTheFlag ==
  ASSUME NEW s, Held(s), DetectResult(s) # None
  PROVE  DetectResult(s) = Timeout(Turn(s.moves)) /\ Turn(s.moves) \in Colors
<1>1. s.moves \in Seq(Move) /\ Turn(s.moves) \in Colors
  BY TurnType DEF Held, Engine
<1>2. CASE IsTimeout(s.clock, Now, Turn(s.moves))
  BY <1>1, <1>2 DEF DetectResult
<1>3. CASE ~IsTimeout(s.clock, Now, Turn(s.moves)) /\ s.moves = << >>
  BY <1>3 DEF DetectResult
<1>4. CASE ~IsTimeout(s.clock, Now, Turn(s.moves)) /\ s.moves # << >>
  <2>1. Len(s.moves) \in 1..Len(s.moves)
    BY <1>1, <1>4, EmptySeq
  <2>2. s.moves[Len(s.moves)] \notin MatingMoves \cup DrawingMoves
    BY <2>1 DEF Held, Open, EndingMoves
  <2> QED
    BY <1>4, <2>2 DEF DetectResult
<1> QED
  BY <1>2, <1>3, <1>4

\* What a plan must satisfy for the side that makes it.
SoundPlan(p, side) ==
  /\ p \in Plan
  /\ \/ p.write = "finalize" /\ SoundFinalize(p, side, moveRows, agreed)
     \/ p.write = "move" /\ SoundMove(p, moveRows, agreed)
     \/ p.write = "engine" /\ SoundOffer(p, moveRows)
     \/ p.write = "abort"

LEMMA ChargedClockHeld ==
  ASSUME NEW s, Held(s) PROVE Held(ChargedClock(s)) /\ ChargedClock(s).moves = s.moves
<1> DEFINE e == [s EXCEPT !.clock.lastTickAt = Now]
<1>1. s \in Engine /\ s.clock \in Clock
  BY DEF Held, Engine
<1>2. [s.clock EXCEPT !.lastTickAt = Now] \in Clock
      /\ [s.clock EXCEPT !.lastTickAt = Now].w = s.clock.w
      /\ [s.clock EXCEPT !.lastTickAt = Now].b = s.clock.b
  BY <1>1 DEF Clock, Now
<1>3. e = [s EXCEPT !.clock = [s.clock EXCEPT !.lastTickAt = Now]]
  OBVIOUS
<1>4. /\ e \in Engine /\ e.moves = s.moves /\ e.offer = s.offer
      /\ e.clock.w = s.clock.w /\ e.clock.b = s.clock.b
  BY <1>1, <1>2, <1>3 DEF Engine
<1> HIDE DEF e
<1>5. Held(e)
  BY <1>4 DEF Held, Sound, FollowsRows
<1> QED
  BY <1>4, <1>5 DEF ChargedClock, e

LEMMA MovePlansSound ==
  ASSUME moveRows \in Seq(Move), NEW s, Held(s), NEW side \in Colors,
         NEW p \in MovePlans(s, side)
  PROVE  SoundPlan(p, side)
<1> DEFINE c == ChargedClock(s)
<1>1. Held(c) /\ c \in Engine
  BY ChargedClockHeld DEF Held
<1> HIDE DEF c
<1>2. Turn(c.moves) = side
  BY DEF MovePlans, c
<1>3. CASE IsTimeout(c.clock, Now, side)
  <2>1. p = Finalize(c, Timeout(side))
    BY <1>2, <1>3 DEF MovePlans, c
  <2>2. Timeout(side) \in Verdict /\ OffBoard(Timeout(side))
        /\ Timeout(side).reason # "draw_agreement"
    BY TimeoutVerdict
  <2> QED
    BY <1>1, <2>1, <2>2, FinalizeSound DEF SoundPlan
<1>4. CASE ~IsTimeout(c.clock, Now, side)
  <2>1. PICK m \in LegalMoves(c.moves) : p = MovePlan(c, side, m)
    BY <1>2, <1>4 DEF MovePlans, c
  <2>2. m \in Move
    BY <2>1 DEF LegalMoves, Move
  <2> QED
    BY <1>1, <1>2, <1>4, <2>1, <2>2, MovePlanSound DEF SoundPlan
<1> QED
  BY <1>3, <1>4

LEMMA AgreementSound ==
  ASSUME NEW s, Held(s), NEW side \in Colors, s.offer = Opponent(side)
  PROVE  SoundPlan(AcceptDraw(s), side)
<1> DEFINE v == [result |-> "draw", reason |-> "draw_agreement"]
<1>1. v \in Verdict /\ OffBoard(v)
  BY DEF Verdict, Results, Reasons, OffBoard
<1>2. Opponent(side) \in agreed
  BY OpponentType, NoneTypes DEF Held, Sound
<1> QED
  BY <1>1, <1>2, FinalizeSound DEF AcceptDraw, SoundPlan

LEMMA ResignSound ==
  ASSUME NEW s, Held(s), NEW side \in Colors, NEW p \in ResignPlans(s, side)
  PROVE  SoundPlan(p, side)
<1> DEFINE v == [result |-> Wins(Opponent(side)), reason |-> "resignation"]
<1>1. v \in Verdict /\ OffBoard(v) /\ v.reason # "draw_agreement"
  BY OpponentType, WinsType DEF Verdict, Reasons, OffBoard
<1> QED
  BY <1>1, FinalizeSound DEF ResignPlans, SoundPlan

LEMMA DetectedSound ==
  ASSUME NEW s, Held(s), NEW side \in Colors,
         NEW p \in StatePlans(s) \cup ClaimPlans(s)
  PROVE  SoundPlan(p, side) /\ p \notin ClaimPlans(s)
<1>1. DetectResult(s) # None /\ p = Finalize(s, DetectResult(s))
  BY DEF StatePlans, ClaimPlans
<1>2. DetectResult(s) = Timeout(Turn(s.moves)) /\ Turn(s.moves) \in Colors
  BY <1>1, OnlyTheFlag
<1>3. /\ DetectResult(s) \in Verdict /\ OffBoard(DetectResult(s))
      /\ DetectResult(s).reason # "draw_agreement" /\ DetectResult(s).result # "draw"
  BY <1>2, TimeoutVerdict
<1>4. ClaimPlans(s) = {}
  BY <1>3 DEF ClaimPlans
<1> QED
  BY <1>1, <1>3, <1>4, FinalizeSound DEF SoundPlan

\* Whatever a handler decides on from a state it may hold is sound.
LEMMA PlansSound ==
  ASSUME moveRows \in Seq(Move), NEW op \in AllOps, NEW side \in Colors, NEW s,
         s = None => op = "abort", s # None => Held(s), NEW p \in Plans(op, side, s)
  PROVE  SoundPlan(p, side)
<1>1. CASE op = "abort"
  <2>1. p = [write |-> "abort"]
    BY <1>1 DEF Plans, AbortPlans
  <2> QED
    BY <2>1 DEF SoundPlan, Plan
<1> SUFFICES ASSUME op # "abort" PROVE SoundPlan(p, side)
  BY <1>1
<1>h. Held(s)
  OBVIOUS
<1>2. CASE op = "move"
  BY <1>2, <1>h, MovePlansSound DEF Plans
<1>3. CASE op = "resign"
  BY <1>3, <1>h, ResignSound DEF Plans
<1>4. CASE op = "state" \/ op = "claim"
  <2>1. p \in StatePlans(s) \cup ClaimPlans(s)
    BY <1>4 DEF Plans
  <2> QED
    BY <1>h, <2>1, DetectedSound
<1>5. CASE op = "offer"
  <2>1. p \in OfferPlans(s, side)
    BY <1>5 DEF Plans
  <2>2. CASE s.offer = None
    <3>1. p = SetOffer(s, side)
      BY <2>1, <2>2 DEF OfferPlans
    <3> QED
      BY <1>h, <3>1, SetOfferSound DEF SoundPlan
  <2>3. CASE s.offer # None
    <3>1. s.offer = Opponent(side) /\ p = AcceptDraw(s)
      BY <1>h, <2>1, <2>3, OpponentType DEF OfferPlans, Held, Engine
    <3> QED
      BY <1>h, <3>1, AgreementSound
  <2> QED
    BY <2>2, <2>3
<1>6. CASE op = "accept"
  <2>1. s.offer = Opponent(side) /\ p = AcceptDraw(s)
    BY <1>6 DEF Plans, AcceptPlans
  <2> QED
    BY <1>h, <2>1, AgreementSound
<1>7. CASE op = "decline"
  <2>1. p = SetOffer(s, None)
    BY <1>7 DEF Plans, DeclinePlans
  <2> QED
    BY <1>h, <2>1, SetOfferSound DEF SoundPlan
<1> QED
  BY <1>2, <1>3, <1>4, <1>5, <1>6, <1>7 DEF AllOps

(* The database only grows under a handler: what it holds stays sound.     *)

\* Move rows and asked-for draws are added, never taken away.
Grows(rows, rows2, asked, asked2) ==
  /\ rows \in Seq(Move) /\ rows2 \in Seq(Move)
  /\ Len(rows) <= Len(rows2)
  /\ \A i \in 1..Len(rows) : rows2[i] = rows[i]
  /\ asked \subseteq asked2

LEMMA HandlerTypes ==
  ASSUME NEW h \in Handler
  PROVE  /\ h.at \in {"idle", "ensure", "decide", "commit", "settleRead", "settle"}
         /\ h.at = "ensure" => h.op \in Ops /\ h.by \in Colors
         /\ h.at = "decide" => /\ h.op \in Ops /\ h.by \in Colors
                               /\ h.seen \in Engine \/ (h.seen = None /\ h.op = "abort")
         /\ h.at = "commit" => h.by \in Colors /\ h.plan \in Plan
         /\ h.at = "settle" => h.result \in Results
BY DEF Handler

LEMMA PlanTypes ==
  ASSUME NEW p \in Plan
  PROVE  /\ p.write \in {"finalize", "move", "engine", "abort"}
         /\ p.write # "abort" => p.engine \in Engine
         /\ p.write = "finalize" => p.verdict \in Verdict
         /\ p.write = "move" => p.verdict \in Verdict \cup {None}
BY DEF Plan

LEMMA SoundLasts ==
  ASSUME NEW rows, NEW rows2, NEW asked, NEW asked2, Grows(rows, rows2, asked, asked2),
         NEW s \in Engine, Sound(s, rows, asked)
  PROVE  Sound(s, rows2, asked2)
<1>1. s.moves \in Seq(Move) /\ Len(s.moves) \in Nat
  BY DEF Engine
<1>2. FollowsRows(s, rows2)
  BY <1>1 DEF Grows, Sound, FollowsRows
<1> QED
  BY <1>2 DEF Sound, Grows

LEMMA HandlerLasts ==
  ASSUME NEW rows, NEW rows2, NEW asked, NEW asked2, Grows(rows, rows2, asked, asked2),
         NEW h \in Handler, SoundHandler(h, rows, asked)
  PROVE  SoundHandler(h, rows2, asked2)
<1>1. CASE h.at = "decide"
  <2>1. CASE h.seen = None
    BY <1>1, <2>1 DEF SoundHandler
  <2>2. CASE h.seen # None
    <3>1. h.seen \in Engine /\ Sound(h.seen, rows, asked) /\ Open(h.seen.moves)
      BY <1>1, <2>2, HandlerTypes DEF SoundHandler
    <3>2. Sound(h.seen, rows2, asked2)
      BY <3>1, SoundLasts
    <3> QED
      BY <1>1, <3>1, <3>2 DEF SoundHandler
  <2> QED
    BY <2>1, <2>2
<1>2. CASE h.at = "commit"
  <2> DEFINE p == h.plan
  <2>1. p \in Plan /\ p.write \in {"finalize", "move", "engine", "abort"}
    BY <1>2, HandlerTypes, PlanTypes
  <2>2. CASE p.write = "finalize"
    <3>1. SoundFinalize(p, h.by, rows, asked) /\ p.engine \in Engine
      BY <1>2, <2>1, <2>2, PlanTypes DEF SoundHandler
    <3>2. Sound(p.engine, rows2, asked2)
      BY <3>1, SoundLasts DEF SoundFinalize
    <3>3. SoundFinalize(p, h.by, rows2, asked2)
      BY <3>1, <3>2 DEF SoundFinalize, Grows
    <3> QED
      BY <1>2, <2>2, <3>3 DEF SoundHandler
  <2>3. CASE p.write = "move"
    <3>1. SoundMove(p, rows, asked) /\ p.engine \in Engine /\ Len(p.engine.moves) \in Nat
      BY <1>2, <2>1, <2>3, PlanTypes DEF SoundHandler, Engine
    <3>2. SoundMove(p, rows2, asked2)
      BY <3>1 DEF SoundMove, Grows
    <3> QED
      BY <1>2, <2>3, <3>2 DEF SoundHandler
  <2>4. CASE p.write = "engine"
    <3>1. SoundOffer(p, rows) /\ p.engine \in Engine /\ Len(p.engine.moves) \in Nat
      BY <1>2, <2>1, <2>4, PlanTypes DEF SoundHandler, Engine
    <3>2. SoundOffer(p, rows2)
      BY <3>1 DEF SoundOffer, Grows, FollowsRows
    <3> QED
      BY <1>2, <2>4, <3>2 DEF SoundHandler
  <2>5. CASE p.write = "abort"
    BY <1>2, <2>5 DEF SoundHandler
  <2> QED
    BY <2>1, <2>2, <2>3, <2>4, <2>5
<1> QED
  BY <1>1, <1>2 DEF SoundHandler

\* A step that changes one handler, to one that is sound afterwards.
LEMMA OneHandler ==
  ASSUME IInv, Grows(moveRows, moveRows', agreed, agreed'), NEW r \in Req,
         NEW h \in Handler, SoundHandler(h, moveRows', agreed'),
         req' = [req EXCEPT ![r] = h]
  PROVE  req' \in [Req -> Handler] /\ SoundHandlers'
<1>1. req \in [Req -> Handler] /\ req' \in [Req -> Handler]
  BY DEF IInv, TypeOK
<1>2. ASSUME NEW q \in Req PROVE SoundHandler(req'[q], moveRows', agreed')
  <2>1. CASE q = r
    BY <1>1, <2>1
  <2>2. CASE q # r
    <3>1. req'[q] = req[q] /\ req[q] \in Handler /\ SoundHandler(req[q], moveRows, agreed)
      BY <1>1, <2>2 DEF IInv, SoundHandlers
    <3> QED
      BY <3>1, HandlerLasts
  <2> QED
    BY <2>1, <2>2
<1> QED
  BY <1>1, <1>2 DEF SoundHandlers

(* The actions.                                                            *)

LEMMA Same ==
  ASSUME IInv, UNCHANGED <<moveRows, agreed>>
  PROVE  Grows(moveRows, moveRows', agreed, agreed')
BY DEF IInv, TypeOK, Grows

\* An engine state read while the game is active may be held.
LEMMA ReadHeld ==
  ASSUME IInv, status = "active", engine # None
  PROVE  Held(engine)
<1>1. engine \in Engine /\ Sound(engine, moveRows, agreed) /\ engine.moves \in Seq(Move)
  BY DEF IInv, TypeOK, SoundEngine, Engine
<1>2. ~EndedByMove
  BY DEF IInv, BoardResultStands
<1>3. moveRows \in Seq(Move) /\ \A i \in 1..Len(moveRows) : moveRows[i] \notin EndingMoves
  <2>1. moveRows \in Seq(Move) /\ DOMAIN moveRows = 1..Len(moveRows) /\ Len(moveRows) \in Nat
    BY DEF IInv, TypeOK
  <2>2. ASSUME NEW i \in 1..Len(moveRows), moveRows[i] \in EndingMoves PROVE FALSE
    <3>1. i = Len(moveRows)
      BY <2>1, <2>2 DEF IInv, BoardResultStands
    <3>2. moveRows # << >>
      BY <2>1, <2>2, EmptySeq
    <3> QED
      BY <1>2, <2>2, <3>1, <3>2 DEF EndedByMove
  <2> QED
    BY <2>1, <2>2
<1>4. Open(engine.moves)
  BY <1>1, <1>3 DEF Open, Sound, FollowsRows
<1> QED
  BY <1>1, <1>4 DEF Held

LEMMA NewEngineHeld == ASSUME moveRows \in Seq(Move) PROVE Held(NewEngine)
<1>1. MakeClock(TimeMs, IncrementMs, Now) \in Clock
      /\ MakeClock(TimeMs, IncrementMs, Now).w > 0 /\ MakeClock(TimeMs, IncrementMs, Now).b > 0
  BY ClockAssumption DEF MakeClock, Clock, Now
<1>2. << >> \in Seq(Move) /\ Len(<< >>) = 0 /\ Len(moveRows) \in Nat
  BY EmptySeq
<1>3. NewEngine \in Engine
  BY <1>1, <1>2 DEF NewEngine, Engine
<1>4. Sound(NewEngine, moveRows, agreed)
  BY <1>1, <1>2 DEF NewEngine, Sound, FollowsRows
<1>5. Open(NewEngine.moves)
  BY <1>2 DEF NewEngine, Open
<1> QED
  BY <1>3, <1>4, <1>5 DEF Held

LEMMA ReceivePreserves ==
  ASSUME IInv, NEW r \in Req, NEW op \in Ops, NEW side \in Colors, Receive(r, op, side)
  PROVE  IInv'
<1> USE DEF Receive
<1>1. Grows(moveRows, moveRows', agreed, agreed')
  BY Same
<1>2. status = "active"
  BY DEF MayAct
<1>3. CASE MustCreate(op)
  <2> DEFINE h == [at |-> "ensure", op |-> op, by |-> side]
  <2>1. h \in Handler /\ SoundHandler(h, moveRows', agreed') /\ req' = [req EXCEPT ![r] = h]
    BY <1>3 DEF Handler, SoundHandler
  <2>2. req' \in [Req -> Handler] /\ SoundHandlers'
    BY <1>1, <2>1, OneHandler
  <2> QED
    BY <2>2 DEF IInv, TypeOK, SoundEngine, BoardResultStands, EndedByMove, BoardVerdict,
                DrawNeedsBothSides
<1>4. CASE ~MustCreate(op)
  <2> DEFINE h == [at |-> "decide", op |-> op, by |-> side, seen |-> engine]
  <2>1. req' = [req EXCEPT ![r] = h]
    BY <1>4
  <2>2. h \in Handler
    BY <1>4 DEF Handler, MustCreate, IInv, TypeOK
  <2>3. SoundHandler(h, moveRows', agreed')
    BY <1>2, ReadHeld DEF SoundHandler, Held
  <2>4. req' \in [Req -> Handler] /\ SoundHandlers'
    BY <1>1, <2>1, <2>2, <2>3, OneHandler
  <2> QED
    BY <2>4 DEF IInv, TypeOK, SoundEngine, BoardResultStands, EndedByMove, BoardVerdict,
                DrawNeedsBothSides
<1> QED
  BY <1>3, <1>4

LEMMA EnsurePreserves ==
  ASSUME IInv, NEW r \in Req, Ensure(r)
  PROVE  IInv'
<1> USE DEF Ensure
<1> DEFINE h == [at |-> "decide", op |-> req[r].op, by |-> req[r].by, seen |-> NewEngine]
<1>1. Grows(moveRows, moveRows', agreed, agreed')
  BY Same
<1>2. Held(NewEngine)
  BY NewEngineHeld DEF IInv, TypeOK
<1>3. req[r] \in Handler /\ req[r].op \in Ops /\ req[r].by \in Colors
  BY HandlerTypes DEF IInv, TypeOK
<1>4. h \in Handler
  BY <1>2, <1>3 DEF Handler, Held
<1>5. SoundHandler(h, moveRows', agreed')
  BY <1>2 DEF SoundHandler, Held
<1>6. req' = [req EXCEPT ![r] = h]
  OBVIOUS
<1>7. req' \in [Req -> Handler] /\ SoundHandlers'
  BY <1>1, <1>4, <1>5, <1>6, OneHandler
<1>8. engine' = NewEngine /\ SoundEngine' /\ engine' \in Engine
  BY <1>2 DEF Held, SoundEngine
<1> QED
  BY <1>7, <1>8 DEF IInv, TypeOK, BoardResultStands, EndedByMove, BoardVerdict,
              DrawNeedsBothSides

LEMMA IdleSound ==
  ASSUME NEW rows, NEW asked
  PROVE  Idle \in Handler /\ SoundHandler(Idle, rows, asked)
BY DEF Idle, Handler, SoundHandler

LEMMA DecidePreserves ==
  ASSUME IInv, NEW r \in Req, Decide(r)
  PROVE  IInv'
<1> USE DEF Decide
<1> DEFINE h == req[r]
<1>1. Grows(moveRows, moveRows', agreed, agreed')
  BY Same
<1>2. /\ h \in Handler /\ h.op \in AllOps /\ h.by \in Colors
      /\ h.seen = None => h.op = "abort"
      /\ h.seen # None => Held(h.seen)
  <2>1. h \in Handler /\ SoundHandler(h, moveRows, agreed)
    BY DEF IInv, TypeOK, SoundHandlers
  <2> QED
    BY <2>1, HandlerTypes, OpsAssumption, NoneTypes DEF SoundHandler, Held
<1>3. req' \in [Req -> Handler] /\ SoundHandlers'
  <2>1. CASE Plans(h.op, h.by, h.seen) = {} /\ req' = [req EXCEPT ![r] = Idle]
    BY <1>1, <2>1, IdleSound, OneHandler
  <2>2. ASSUME NEW p \in Plans(h.op, h.by, h.seen),
               req' = [req EXCEPT ![r] = [at |-> "commit", by |-> h.by, plan |-> p]]
        PROVE  req' \in [Req -> Handler] /\ SoundHandlers'
    <3> DEFINE g == [at |-> "commit", by |-> h.by, plan |-> p]
    <3>1. SoundPlan(p, h.by)
      BY <1>2, PlansSound DEF IInv, TypeOK
    <3>2. g \in Handler
      BY <1>2, <3>1 DEF Handler, SoundPlan
    <3>3. SoundHandler(g, moveRows', agreed')
      BY <3>1 DEF SoundPlan, SoundHandler
    <3> QED
      BY <1>1, <2>2, <3>2, <3>3, OneHandler
  <2> QED
    BY <2>1, <2>2
<1> QED
  BY <1>3 DEF IInv, TypeOK, SoundEngine, BoardResultStands, EndedByMove, BoardVerdict,
              DrawNeedsBothSides

\* What a committing handler holds.
LEMMA Committed ==
  ASSUME IInv, NEW r \in Req, NEW write, Committing(r, write)
  PROVE  /\ req[r] \in Handler /\ req[r].by \in Colors
         /\ req[r].plan \in Plan /\ req[r].plan.write = write
         /\ SoundHandler(req[r], moveRows, agreed) /\ req[r].at = "commit"
BY HandlerTypes DEF IInv, TypeOK, SoundHandlers, Committing

LEMMA CommitFinalizePreserves ==
  ASSUME IInv, NEW r \in Req, CommitFinalize(r)
  PROVE  IInv'
<1> USE DEF CommitFinalize
<1> DEFINE p == req[r].plan
<1>1. /\ p \in Plan /\ p.write = "finalize" /\ req[r].by \in Colors
      /\ p.engine \in Engine /\ p.verdict \in Verdict
      /\ SoundFinalize(p, req[r].by, moveRows, agreed)
  <2>1. /\ p \in Plan /\ p.write = "finalize" /\ req[r].by \in Colors
        /\ SoundHandler(req[r], moveRows, agreed) /\ req[r].at = "commit"
    BY Committed
  <2> QED
    BY <2>1, PlanTypes DEF SoundHandler
<1>2. CASE StillActive
  <2> DEFINE h == [at |-> "settleRead"]
  <2>1. agreed \subseteq agreed' /\ agreed' \subseteq Colors
    BY <1>1, <1>2 DEF IInv, TypeOK
  <2>2. Grows(moveRows, moveRows', agreed, agreed')
    BY <2>1 DEF IInv, TypeOK, Grows
  <2>3. h \in Handler /\ SoundHandler(h, moveRows', agreed') /\ req' = [req EXCEPT ![r] = h]
    BY <1>2 DEF Handler, SoundHandler
  <2>4. req' \in [Req -> Handler] /\ SoundHandlers'
    BY <2>2, <2>3, OneHandler
  <2>5. engine' = p.engine /\ verdict' = p.verdict /\ status' = "completed"
    BY <1>2
  <2>6. SoundEngine' /\ engine' \in Engine
    BY <1>1, <2>2, <2>5, SoundLasts DEF SoundFinalize, SoundEngine
  <2>7. BoardResultStands'
    BY <1>2 DEF IInv, BoardResultStands, StillActive, EndedByMove
  <2>8. DrawNeedsBothSides'
    <3>1. ASSUME p.verdict.reason = "draw_agreement" PROVE agreed' = Colors
      BY <1>1, <1>2, <2>1, <3>1, OpponentType DEF SoundFinalize
    <3> QED
      BY <2>5, <3>1 DEF DrawNeedsBothSides
  <2>9. verdict' # None
    BY <1>1, <2>5, NoneTypes
  <2> QED
    BY <1>1, <2>1, <2>4, <2>5, <2>6, <2>7, <2>8, <2>9 DEF IInv, TypeOK
<1>3. CASE ~StillActive
  <2>1. Grows(moveRows, moveRows', agreed, agreed')
    BY <1>3, Same
  <2>2. req' \in [Req -> Handler] /\ SoundHandlers'
    BY <1>3, <2>1, IdleSound, OneHandler
  <2> QED
    BY <1>3, <2>2 DEF IInv, TypeOK, SoundEngine, BoardResultStands, EndedByMove,
                      BoardVerdict, DrawNeedsBothSides
<1> QED
  BY <1>2, <1>3

\* A free ply is the next one, and the row inserted there extends the score.
LEMMA NextPly ==
  ASSUME IInv, NEW r \in Req, Committing(r, "move"),
         PlyFree(Len(req[r].plan.engine.moves))
  PROVE  LET e == req[r].plan.engine
             n == Len(e.moves)
             rows == InsertRow(n, e.moves[n])
         IN  /\ e \in Engine /\ n = Len(moveRows) + 1 /\ e.moves[n] \in Move
             /\ rows = Append(moveRows, e.moves[n])
             /\ e.moves = rows
             /\ \A i \in 1..Len(moveRows) : moveRows[i] \notin EndingMoves
<1> DEFINE e == req[r].plan.engine
           n == Len(e.moves)
           len == Len(moveRows)
           rows == InsertRow(n, e.moves[n])
<1>1. /\ req[r].plan \in Plan /\ e \in Engine
      /\ SoundMove(req[r].plan, moveRows, agreed)
  <2>1. /\ req[r].plan \in Plan /\ req[r].plan.write = "move"
        /\ SoundHandler(req[r], moveRows, agreed) /\ req[r].at = "commit"
    BY Committed
  <2> QED
    BY <2>1, PlanTypes DEF SoundHandler
<1>2. /\ moveRows \in Seq(Move) /\ len \in Nat /\ DOMAIN moveRows = 1..len
      /\ e.moves \in Seq(Move) /\ n \in Nat
  BY <1>1 DEF IInv, TypeOK, Engine
<1>3. n > 0 /\ n - 1 <= len /\ n \notin 1..len
  BY <1>1, <1>2 DEF SoundMove, PlyFree
<1>4. n = len + 1
  BY <1>2, <1>3
<1>5. \A i \in 1..len : e.moves[i] = moveRows[i] /\ e.moves[i] \notin EndingMoves
  BY <1>1, <1>2, <1>4 DEF SoundMove
<1>6. e.moves[n] \in Move
  BY <1>2, <1>4, ElementOfSeq
<1> HIDE DEF e, n, len
<1>7. rows = [i \in 1..n |-> e.moves[i]]
  BY <1>2, <1>4, <1>5 DEF InsertRow
<1>8. e.moves = [i \in 1..n |-> e.moves[i]]
  BY <1>2, LenProperties DEF n
<1>9. e.moves = Append(moveRows, e.moves[n])
  <2>1. /\ Append(moveRows, e.moves[n]) \in Seq(Move)
        /\ Len(Append(moveRows, e.moves[n])) = n
        /\ \A i \in 1..len : Append(moveRows, e.moves[n])[i] = moveRows[i]
        /\ Append(moveRows, e.moves[n])[len + 1] = e.moves[n]
    BY <1>2, <1>4, <1>6, AppendFacts DEF len
  <2>2. \A i \in 1..n : e.moves[i] = Append(moveRows, e.moves[n])[i]
    BY <1>2, <1>4, <1>5, <2>1
  <2> QED
    BY <1>2, <2>1, <2>2, SeqEqual DEF n
<1> QED
  BY <1>1, <1>4, <1>5, <1>6, <1>7, <1>8, <1>9 DEF e, n, len

LEMMA CommitMovePreserves ==
  ASSUME IInv, NEW r \in Req, CommitMove(r)
  PROVE  IInv'
<1> USE DEF CommitMove
<1> DEFINE p == req[r].plan
           e == p.engine
           n == Len(e.moves)
<1>1. /\ p \in Plan /\ SoundMove(p, moveRows, agreed)
      /\ e \in Engine /\ p.verdict \in Verdict \cup {None}
  <2>1. /\ p \in Plan /\ p.write = "move" /\ req[r].at = "commit"
        /\ SoundHandler(req[r], moveRows, agreed)
    BY Committed
  <2> QED
    BY <2>1, PlanTypes DEF SoundHandler
<1>2. CASE PlyFree(n)
  <2>1. /\ n = Len(moveRows) + 1 /\ e.moves[n] \in Move
        /\ moveRows' = Append(moveRows, e.moves[n]) /\ moveRows' = e.moves
        /\ \A i \in 1..Len(moveRows) : moveRows[i] \notin EndingMoves
    BY <1>2, NextPly
  <2>2. /\ moveRows \in Seq(Move) /\ moveRows' \in Seq(Move)
        /\ Len(moveRows') = Len(moveRows) + 1 /\ Len(moveRows) \in Nat
        /\ \A i \in 1..Len(moveRows) : moveRows'[i] = moveRows[i]
        /\ moveRows' # << >>
    <3>1. moveRows \in Seq(Move) /\ e.moves[n] \in Move
      BY <2>1 DEF IInv, TypeOK
    <3> HIDE DEF e, n
    <3>2. /\ Append(moveRows, e.moves[n]) \in Seq(Move)
          /\ Len(Append(moveRows, e.moves[n])) = Len(moveRows) + 1
          /\ \A i \in 1..Len(moveRows) : Append(moveRows, e.moves[n])[i] = moveRows[i]
          /\ Append(moveRows, e.moves[n]) # << >>
      BY <3>1, AppendFacts
    <3>3. moveRows' = Append(moveRows, e.moves[n])
      BY <2>1
    <3> QED
      BY <3>1, <3>2, <3>3, LenProperties
  <2>3. Grows(moveRows, moveRows', agreed, agreed')
    BY <2>2 DEF Grows
  <2>4. engine' = e /\ e \in Engine
    BY <1>1, <1>2
  <2>5. SoundEngine'
    <3>1. FollowsRows(e, moveRows')
      BY <2>1, <2>2 DEF FollowsRows
    <3> QED
      BY <1>1, <2>4, <3>1 DEF SoundEngine, Sound, SoundMove
  <2>6. /\ p.verdict = VerdictOf(moveRows')
        /\ \A i \in DOMAIN moveRows' : i = Len(moveRows') \/ moveRows'[i] \notin EndingMoves
        /\ moveRows'[Len(moveRows')] \in EndingMoves => p.verdict # None
    <3>1. p.verdict = VerdictOf(moveRows')
      BY <1>1, <2>1 DEF SoundMove
    <3>2. \A i \in DOMAIN moveRows' : i = Len(moveRows') \/ moveRows'[i] \notin EndingMoves
      BY <2>1, <2>2
    <3>3. VerdictOf(moveRows') # None
          \/ moveRows'[Len(moveRows')] \notin EndingMoves
      BY <2>2, VerdictOfType, TurnType, OpponentType, WinsType, NoneTypes
         DEF VerdictOf, EndingMoves, Verdict, Reasons, Results
    <3> QED
      BY <3>1, <3>2, <3>3
  <2>7. CASE p.verdict # None
    <3> DEFINE h == [at |-> "settleRead"]
    <3>1. h \in Handler /\ SoundHandler(h, moveRows', agreed') /\ req' = [req EXCEPT ![r] = h]
      BY <1>2, <2>7 DEF Handler, SoundHandler
    <3>2. req' \in [Req -> Handler] /\ SoundHandlers'
      BY <2>3, <3>1, OneHandler
    <3>3. status' = "completed" /\ verdict' = p.verdict /\ UNCHANGED <<rated, agreed>>
      BY <1>2, <2>7
    <3>4. BoardResultStands'
      BY <2>6, <2>7, <3>3 DEF BoardResultStands, EndedByMove, BoardVerdict, VerdictOf, EndingMoves
    <3>5. DrawNeedsBothSides'
      BY <2>6, <2>7, <3>3 DEF DrawNeedsBothSides, VerdictOf
    <3> QED
      BY <1>1, <2>2, <2>4, <2>5, <2>7, <3>2, <3>3, <3>4, <3>5 DEF IInv, TypeOK
  <2>8. CASE p.verdict = None
    <3>1. req' = [req EXCEPT ![r] = Idle] /\ UNCHANGED <<status, verdict, rated, agreed>>
      BY <1>2, <2>8
    <3>2. req' \in [Req -> Handler] /\ SoundHandlers'
      BY <2>3, <3>1, IdleSound, OneHandler
    <3>3. BoardResultStands'
      BY <2>2, <2>6, <2>8 DEF BoardResultStands, EndedByMove
    <3> QED
      BY <2>2, <2>4, <2>5, <3>1, <3>2, <3>3 DEF IInv, TypeOK, DrawNeedsBothSides
  <2> QED
    BY <2>7, <2>8
<1>3. CASE ~PlyFree(n)
  <2>1. Grows(moveRows, moveRows', agreed, agreed')
    BY <1>3, Same
  <2>2. req' \in [Req -> Handler] /\ SoundHandlers'
    BY <1>3, <2>1, IdleSound, OneHandler
  <2> QED
    BY <1>3, <2>2 DEF IInv, TypeOK, SoundEngine, BoardResultStands, EndedByMove,
                      BoardVerdict, DrawNeedsBothSides
<1> QED
  BY <1>2, <1>3

LEMMA CommitEnginePreserves ==
  ASSUME IInv, NEW r \in Req, CommitEngine(r)
  PROVE  IInv'
<1> USE DEF CommitEngine
<1> DEFINE p == req[r].plan
<1>1. p \in Plan /\ p.engine \in Engine /\ SoundOffer(p, moveRows)
  <2>1. /\ p \in Plan /\ p.write = "engine" /\ req[r].at = "commit"
        /\ SoundHandler(req[r], moveRows, agreed)
    BY Committed
  <2> QED
    BY <2>1, PlanTypes DEF SoundHandler
<1>2. CASE StillActive
  <2>1. engine' = p.engine /\ agreed' = agreed \cup ({p.engine.offer} \ {None})
    BY <1>2
  <2>2. agreed \subseteq agreed' /\ agreed' \subseteq Colors
    BY <1>1, <2>1 DEF IInv, TypeOK, Engine
  <2>3. Grows(moveRows, moveRows', agreed, agreed')
    BY <2>2 DEF IInv, TypeOK, Grows
  <2>4. req' \in [Req -> Handler] /\ SoundHandlers'
    BY <2>3, IdleSound, OneHandler
  <2>5. SoundEngine' /\ engine' \in Engine
    BY <1>1, <2>1 DEF SoundEngine, SoundOffer, Sound
  <2>6. DrawNeedsBothSides'
    BY <2>2 DEF IInv, DrawNeedsBothSides
  <2> QED
    BY <2>2, <2>4, <2>5, <2>6 DEF IInv, TypeOK, BoardResultStands, EndedByMove, BoardVerdict
<1>3. CASE ~StillActive
  <2>1. Grows(moveRows, moveRows', agreed, agreed')
    BY <1>3, Same
  <2>2. req' \in [Req -> Handler] /\ SoundHandlers'
    BY <1>3, <2>1, IdleSound, OneHandler
  <2> QED
    BY <1>3, <2>2 DEF IInv, TypeOK, SoundEngine, BoardResultStands, EndedByMove,
                      BoardVerdict, DrawNeedsBothSides
<1> QED
  BY <1>2, <1>3

LEMMA CommitAbortPreserves ==
  ASSUME IInv, NEW r \in Req, CommitAbort(r)
  PROVE  IInv'
<1> USE DEF CommitAbort
<1>1. Grows(moveRows, moveRows', agreed, agreed')
  BY Same
<1>2. req' \in [Req -> Handler] /\ SoundHandlers'
  BY <1>1, IdleSound, OneHandler
<1>3. BoardResultStands' /\ DrawNeedsBothSides' /\ (status' = "completed" <=> verdict' # None)
  BY DEF IInv, BoardResultStands, EndedByMove, BoardVerdict, DrawNeedsBothSides, StillActive
<1> QED
  BY <1>2, <1>3 DEF IInv, TypeOK, SoundEngine

LEMMA SettleReadPreserves ==
  ASSUME IInv, NEW r \in Req, SettleRead(r)
  PROVE  IInv'
<1> USE DEF SettleRead
<1> DEFINE h == IF status = "completed" /\ rated = None
                THEN [at |-> "settle", result |-> verdict.result] ELSE Idle
<1>1. Grows(moveRows, moveRows', agreed, agreed')
  BY Same
<1>2. h \in Handler /\ SoundHandler(h, moveRows', agreed')
  <2>1. CASE status = "completed" /\ rated = None
    <3>1. verdict.result \in Results
      BY <2>1 DEF IInv, TypeOK, Verdict
    <3> QED
      BY <2>1, <3>1 DEF Handler, SoundHandler
  <2>2. CASE ~(status = "completed" /\ rated = None)
    BY <2>2, IdleSound
  <2> QED
    BY <2>1, <2>2
<1>3. req' = [req EXCEPT ![r] = h]
  OBVIOUS
<1>4. req' \in [Req -> Handler] /\ SoundHandlers'
  BY <1>1, <1>2, <1>3, OneHandler
<1> QED
  BY <1>4 DEF IInv, TypeOK, SoundEngine, BoardResultStands, EndedByMove, BoardVerdict,
              DrawNeedsBothSides

LEMMA SettlePreserves ==
  ASSUME IInv, NEW r \in Req, Settle(r) \/ SettleFails(r)
  PROVE  IInv'
<1>1. Grows(moveRows, moveRows', agreed, agreed')
  BY Same DEF Settle, SettleFails
<1>2. req' \in [Req -> Handler] /\ SoundHandlers'
  BY <1>1, IdleSound, OneHandler DEF Settle, SettleFails
<1>3. rated' \in Results \cup {None}
  BY HandlerTypes DEF IInv, TypeOK, Settle, SettleFails
<1> QED
  BY <1>2, <1>3 DEF Settle, SettleFails, IInv, TypeOK, SoundEngine, BoardResultStands,
                    EndedByMove, BoardVerdict, DrawNeedsBothSides

LEMMA SweepPreserves ==
  ASSUME IInv, SweepNeverFetched
  PROVE  IInv'
<1> USE DEF SweepNeverFetched
<1>1. SoundHandlers' /\ SoundEngine'
  BY DEF IInv, SoundHandlers, SoundEngine
<1>2. BoardResultStands' /\ DrawNeedsBothSides' /\ (status' = "completed" <=> verdict' # None)
  BY DEF IInv, BoardResultStands, EndedByMove, BoardVerdict, DrawNeedsBothSides
<1> QED
  BY <1>1, <1>2 DEF IInv, TypeOK

LEMMA RestartPreserves ==
  ASSUME IInv, Restart
  PROVE  IInv'
<1> USE DEF Restart
<1>1. req' \in [Req -> Handler] /\ SoundHandlers'
  BY IdleSound DEF SoundHandlers
<1> QED
  BY <1>1 DEF IInv, TypeOK, SoundEngine, BoardResultStands, EndedByMove, BoardVerdict,
              DrawNeedsBothSides

\* Ageing an engine state changes nothing the invariant speaks of.
LEMMA OlderFacts ==
  ASSUME NEW s \in Engine
  PROVE  /\ Older(s) \in Engine
         /\ Older(s).moves = s.moves /\ Older(s).offer = s.offer
         /\ Older(s).clock.w = s.clock.w /\ Older(s).clock.b = s.clock.b
<1> DEFINE at == IF s.clock.lastTickAt > -Horizon THEN s.clock.lastTickAt - 1
                 ELSE s.clock.lastTickAt
           c  == [s.clock EXCEPT !.lastTickAt = at]
<1>1. s.clock \in Clock
  BY DEF Engine
<1>2. at \in Int
  BY <1>1, BoundAssumption DEF Clock
<1> HIDE DEF at
<1>3. c \in Clock /\ c.w = s.clock.w /\ c.b = s.clock.b
  BY <1>1, <1>2 DEF Clock
<1>4. Older(s) = [s EXCEPT !.clock = c]
  BY DEF Older, at
<1> HIDE DEF c
<1> QED
  BY <1>3, <1>4 DEF Engine

LEMMA OlderHandlerSound ==
  ASSUME NEW h \in Handler, NEW rows, NEW asked, SoundHandler(h, rows, asked)
  PROVE  OlderHandler(h) \in Handler /\ SoundHandler(OlderHandler(h), rows, asked)
<1>1. CASE h.at = "decide" /\ h.seen # None
  <2> DEFINE s == h.seen
             o == Older(s)
             g == [at |-> "decide", op |-> h.op, by |-> h.by, seen |-> o]
  <2>1. /\ s \in Engine /\ h.op \in Ops /\ h.by \in Colors
        /\ h = [at |-> "decide", op |-> h.op, by |-> h.by, seen |-> s]
    BY <1>1 DEF Handler
  <2>2. /\ o \in Engine /\ o.moves = s.moves /\ o.offer = s.offer
        /\ o.clock.w = s.clock.w /\ o.clock.b = s.clock.b
    BY <2>1, OlderFacts
  <2>3. OlderHandler(h) = g
    BY <1>1, <2>1 DEF OlderHandler
  <2> HIDE DEF o
  <2>4. g \in Handler
    BY <2>1, <2>2 DEF Handler
  <2>5. Sound(s, rows, asked) /\ Open(s.moves)
    BY <1>1 DEF SoundHandler
  <2>6. Sound(o, rows, asked) /\ Open(o.moves)
    BY <2>2, <2>5 DEF Sound, FollowsRows
  <2>7. SoundHandler(g, rows, asked)
    BY <2>6 DEF SoundHandler
  <2> QED
    BY <2>3, <2>4, <2>7
<1>2. CASE h.at = "commit" /\ h.plan.write # "abort"
  <2> DEFINE p == h.plan
             s == p.engine
             o == Older(s)
             q == [p EXCEPT !.engine = o]
             g == [at |-> "commit", by |-> h.by, plan |-> q]
  <2>1. /\ p \in Plan /\ s \in Engine /\ h.by \in Colors
        /\ h = [at |-> "commit", by |-> h.by, plan |-> p]
    BY <1>2, PlanTypes DEF Handler
  <2>2. /\ o \in Engine /\ o.moves = s.moves /\ o.offer = s.offer
        /\ o.clock.w = s.clock.w /\ o.clock.b = s.clock.b
    BY <2>1, OlderFacts
  <2>3. OlderHandler(h) = g
    BY <1>2, <2>1 DEF OlderHandler
  <2> HIDE DEF o
  <2>4. /\ q \in Plan /\ q.engine = o /\ q.write = p.write
        /\ p.write \in {"finalize", "move"} => q.verdict = p.verdict
    BY <1>2, <2>1, <2>2 DEF Plan
  <2> HIDE DEF q
  <2>5. g \in Handler
    BY <2>1, <2>4 DEF Handler
  <2>6. SoundHandler(g, rows, asked)
    <3>1. CASE p.write = "finalize"
      <4>1. SoundFinalize(p, h.by, rows, asked)
        BY <1>2, <3>1 DEF SoundHandler
      <4>2. SoundFinalize(q, h.by, rows, asked)
        BY <2>2, <2>4, <3>1, <4>1 DEF SoundFinalize, Sound, FollowsRows
      <4> QED
        BY <2>4, <3>1, <4>2 DEF SoundHandler
    <3>2. CASE p.write = "move"
      <4>1. SoundMove(p, rows, asked)
        BY <1>2, <3>2 DEF SoundHandler
      <4>2. SoundMove(q, rows, asked)
        BY <2>2, <2>4, <3>2, <4>1 DEF SoundMove
      <4> QED
        BY <2>4, <3>2, <4>2 DEF SoundHandler
    <3>3. CASE p.write = "engine"
      <4>1. SoundOffer(p, rows)
        BY <1>2, <3>3 DEF SoundHandler
      <4>2. SoundOffer(q, rows)
        BY <2>2, <2>4, <4>1 DEF SoundOffer, FollowsRows
      <4> QED
        BY <2>4, <3>3, <4>2 DEF SoundHandler
    <3> QED
      BY <1>2, <2>1, <3>1, <3>2, <3>3, PlanTypes
  <2> QED
    BY <2>3, <2>5, <2>6
<1>3. CASE ~(h.at = "decide" /\ h.seen # None) /\ ~(h.at = "commit" /\ h.plan.write # "abort")
  BY <1>3 DEF OlderHandler
<1> QED
  BY <1>1, <1>2, <1>3

LEMMA TickPreserves ==
  ASSUME IInv, Tick
  PROVE  IInv'
<1> USE DEF Tick
<1>1. req' \in [Req -> Handler] /\ SoundHandlers'
  <2>1. ASSUME NEW r \in Req
        PROVE  req'[r] \in Handler /\ SoundHandler(req'[r], moveRows', agreed')
    <3>1. req[r] \in Handler /\ SoundHandler(req[r], moveRows, agreed)
      BY DEF IInv, TypeOK, SoundHandlers
    <3>2. req'[r] = OlderHandler(req[r]) /\ moveRows' = moveRows /\ agreed' = agreed
      OBVIOUS
    <3> QED
      BY <3>1, <3>2, OlderHandlerSound
  <2>2. req' = [r \in Req |-> OlderHandler(req[r])]
    OBVIOUS
  <2> QED
    BY <2>1, <2>2 DEF SoundHandlers
<1>2. engine' \in Engine \cup {None} /\ SoundEngine'
  <2>1. CASE engine = None
    BY <2>1 DEF SoundEngine
  <2>2. CASE engine # None
    <3>1. engine \in Engine /\ Sound(engine, moveRows, agreed)
      BY <2>2 DEF IInv, TypeOK, SoundEngine
    <3>2. /\ engine' = Older(engine) /\ engine' \in Engine
          /\ engine'.moves = engine.moves /\ engine'.offer = engine.offer
          /\ engine'.clock.w = engine.clock.w /\ engine'.clock.b = engine.clock.b
      BY <2>2, <3>1, OlderFacts
    <3> QED
      BY <3>1, <3>2 DEF SoundEngine, Sound, FollowsRows
  <2> QED
    BY <2>1, <2>2
<1> QED
  BY <1>1, <1>2 DEF IInv, TypeOK, BoardResultStands, EndedByMove, BoardVerdict,
                    DrawNeedsBothSides

(* The theorems.                                                           *)

LEMMA InitIInv == Init => IInv
<1> SUFFICES ASSUME Init PROVE IInv
  OBVIOUS
<1> USE DEF Init
<1>1. << >> \in Seq(Move) /\ Len(<< >>) = 0 /\ DOMAIN << >> = {}
  BY EmptySeq
<1>2. req \in [Req -> Handler] /\ SoundHandlers
  BY IdleSound DEF SoundHandlers
<1>3. BoardResultStands /\ DrawNeedsBothSides /\ SoundEngine
  BY <1>1 DEF BoardResultStands, EndedByMove, DrawNeedsBothSides, SoundEngine
<1> QED
  BY <1>1, <1>2, <1>3 DEF IInv, TypeOK

LEMMA NextIInv == IInv /\ [Next]_vars => IInv'
<1> SUFFICES ASSUME IInv, [Next]_vars PROVE IInv'
  OBVIOUS
<1>1. ASSUME NEW r \in Req, NEW op \in Ops, NEW side \in Colors, Receive(r, op, side)
      PROVE  IInv'
  BY <1>1, ReceivePreserves
<1>2. ASSUME NEW r \in Req, Handle(r) PROVE IInv'
  BY <1>2, EnsurePreserves, DecidePreserves, CommitFinalizePreserves, CommitMovePreserves,
     CommitEnginePreserves, CommitAbortPreserves, SettleReadPreserves, SettlePreserves
     DEF Handle
<1>3. ASSUME NEW r \in Req, SettleFails(r) PROVE IInv'
  BY <1>3, SettlePreserves
<1>4. CASE SweepNeverFetched
  BY <1>4, SweepPreserves
<1>5. CASE Restart
  BY <1>5, RestartPreserves
<1>6. CASE Tick
  BY <1>6, TickPreserves
<1>7. CASE UNCHANGED vars
  BY <1>7 DEF vars, IInv, TypeOK, SoundEngine, SoundHandlers, BoardResultStands,
              EndedByMove, BoardVerdict, DrawNeedsBothSides
<1> QED
  BY <1>1, <1>2, <1>3, <1>4, <1>5, <1>6, <1>7 DEF Next

\* IInv holds for any number of overlapping requests, restarts and sweeps:
\* no `await' of games.service.ts lets a handler hold what the rows deny.
THEOREM Invariance == Spec => []IInv
<1> QED
  BY InitIInv, NextIInv, PTL DEF Spec

\* Every variable keeps its type.
THEOREM TypeCorrect == Spec => []TypeOK
<1>1. IInv => TypeOK
  BY DEF IInv
<1> QED
  BY <1>1, Invariance, PTL

\* The persisted engine state may lag the Move table but never contradicts it.
THEOREM NeverForks == Spec => []EngineNeverForks
<1>1. IInv => EngineNeverForks
  BY DEF IInv, SoundEngine, Sound, EngineNeverForks
<1> QED
  BY <1>1, Invariance, PTL

\* A checkmate or a drawn position that reached the Move table is the last
\* move and decides the game for good, whatever else was in flight.
THEOREM BoardDecides == Spec => []BoardResultStands
<1>1. IInv => BoardResultStands
  BY DEF IInv
<1> QED
  BY <1>1, Invariance, PTL

\* However stale the offer an accepting handler saw, both sides asked for
\* the draw that ended the game.
THEOREM DrawsAreAgreed == Spec => []DrawNeedsBothSides
<1>1. IInv => DrawNeedsBothSides
  BY DEF IInv
<1> QED
  BY <1>1, Invariance, PTL

\* The claim-draw endpoint never gets to finalize a drawn position.
THEOREM ClaimsAreRedundant == Spec => []ClaimNeverHonoured
<1>1. IInv => ClaimNeverHonoured
  <2> SUFFICES ASSUME IInv, NEW r \in Req, Committing(r, "finalize")
               PROVE  req[r].plan.verdict.reason # "drawn_position"
    BY DEF ClaimNeverHonoured
  <2>1. OffBoard(req[r].plan.verdict)
    BY Committed DEF SoundHandler, SoundFinalize
  <2> QED
    BY <2>1 DEF OffBoard
<1> QED
  BY <1>1, Invariance, PTL

\* Neither persisted budget is ever used up.
THEOREM BudgetsPositive == Spec => []ClocksNeverEmpty
<1>1. IInv => ClocksNeverEmpty
  BY DEF IInv, SoundEngine, Sound, ClocksNeverEmpty
<1> QED
  BY <1>1, Invariance, PTL

(* What a step does to the row and the score, and what it may never do.    *)

\* The move transaction either rolls back or plays one move on an open score.
LEMMA MovePlayed ==
  ASSUME IInv, NEW r \in Req, CommitMove(r), moveRows' # moveRows
  PROVE  \E m \in Move :
           /\ moveRows' = Append(moveRows, m)
           /\ ~EndedByMove
           /\ \/ m \in QuietMoves /\ UNCHANGED <<status, verdict>>
              \/ /\ m \in EndingMoves /\ status' = "completed"
                 /\ verdict' = VerdictOf(moveRows')
<1> USE DEF CommitMove
<1> DEFINE e == req[r].plan.engine
           n == Len(e.moves)
           m == e.moves[n]
<1>1. PlyFree(n)
  OBVIOUS
<1>2. /\ n = Len(moveRows) + 1 /\ m \in Move
      /\ moveRows' = Append(moveRows, m) /\ moveRows' = e.moves
      /\ \A i \in 1..Len(moveRows) : moveRows[i] \notin EndingMoves
  BY <1>1, NextPly
<1>3. moveRows \in Seq(Move) /\ Len(moveRows) \in Nat
  BY DEF IInv, TypeOK
<1>4. ~EndedByMove
  <2>1. moveRows # << >> => Len(moveRows) \in 1..Len(moveRows)
    BY <1>3, EmptySeq
  <2> QED
    BY <1>2, <2>1 DEF EndedByMove
<1>5. moveRows' # << >> /\ moveRows'[Len(moveRows')] = m /\ moveRows' \in Seq(Move)
  <2> HIDE DEF e, n, m
  <2>1. m \in Move /\ moveRows' = Append(moveRows, m)
    BY <1>2
  <2>2. /\ Append(moveRows, m) # << >> /\ Append(moveRows, m) \in Seq(Move)
        /\ Len(Append(moveRows, m)) = Len(moveRows) + 1
        /\ Append(moveRows, m)[Len(moveRows) + 1] = m
    BY <1>3, <2>1, AppendFacts
  <2> QED
    BY <2>1, <2>2
<1>6. req[r].plan.verdict = VerdictOf(moveRows')
  <2>1. /\ req[r].plan.write = "move" /\ req[r].at = "commit"
        /\ SoundHandler(req[r], moveRows, agreed)
    BY Committed
  <2> QED
    BY <1>2, <2>1 DEF SoundHandler, SoundMove
<1> HIDE DEF m
<1>7. CASE m \in EndingMoves
  <2>1. VerdictOf(moveRows') # None
    BY <1>5, <1>7, TurnType, OpponentType, WinsType, NoneTypes
       DEF VerdictOf, EndingMoves, Verdict, Reasons, Results
  <2>2. status' = "completed" /\ verdict' = VerdictOf(moveRows')
    BY <1>1, <1>6, <2>1
  <2> QED
    BY <1>2, <1>4, <1>7, <2>2
<1>8. CASE m \notin EndingMoves
  <2>1. VerdictOf(moveRows') = None
    BY <1>5, <1>8 DEF VerdictOf, EndingMoves
  <2>2. UNCHANGED <<status, verdict>>
    BY <1>1, <1>6, <2>1
  <2>3. m \in QuietMoves
    BY <1>2, <1>8 DEF Move, EndingMoves
  <2> QED
    BY <1>2, <1>4, <2>2, <2>3
<1> QED
  BY <1>7, <1>8

\* A finalize that lands writes an off-board verdict on an active row.
LEMMA FinalizeLands ==
  ASSUME IInv, NEW r \in Req, CommitFinalize(r), <<status, verdict>>' # <<status, verdict>>
  PROVE  /\ status = "active" /\ status' = "completed" /\ moveRows' = moveRows
         /\ verdict' \in Verdict /\ OffBoard(verdict')
<1> USE DEF CommitFinalize
<1>1. status = "active" /\ status' = "completed" /\ verdict' = req[r].plan.verdict
  BY DEF StillActive
<1>2. /\ req[r].plan \in Plan /\ req[r].plan.write = "finalize" /\ req[r].at = "commit"
      /\ SoundHandler(req[r], moveRows, agreed)
  BY Committed
<1>3. req[r].plan.verdict \in Verdict /\ OffBoard(req[r].plan.verdict)
  BY <1>2, PlanTypes DEF SoundHandler, SoundFinalize
<1> QED
  BY <1>1, <1>3

\* Aborting takes an active row, whose verdict is NULL and stays so.
LEMMA AbortLands ==
  ASSUME IInv, (\E r \in Req : CommitAbort(r)) \/ SweepNeverFetched,
         <<status, verdict>>' # <<status, verdict>>
  PROVE  status = "active" /\ status' = "aborted" /\ UNCHANGED <<moveRows, verdict>>
BY DEF CommitAbort, SweepNeverFetched, StillActive, IInv

\* Only those three kinds of step touch the score or the outcome.
LEMMA OutcomeSteps ==
  ASSUME [Next]_vars
  PROVE  \/ \E r \in Req : CommitFinalize(r) \/ CommitMove(r)
         \/ (\E r \in Req : CommitAbort(r)) \/ SweepNeverFetched
         \/ UNCHANGED <<moveRows, status, verdict>>
BY DEF Next, Handle, Receive, Ensure, Decide, CommitEngine, SettleRead, Settle, SettleFails,
       Restart, Tick, vars

LEMMA OutcomeStep ==
  ASSUME IInv, [Next]_vars
  PROVE  \/ UNCHANGED <<moveRows, status, verdict>>
         \/ \E m \in Move :
              /\ moveRows' = Append(moveRows, m)
              /\ ~EndedByMove
              /\ \/ m \in QuietMoves /\ UNCHANGED <<status, verdict>>
                 \/ /\ m \in EndingMoves /\ status' = "completed"
                    /\ verdict' = VerdictOf(moveRows')
         \/ /\ status = "active" /\ status' = "completed" /\ moveRows' = moveRows
            /\ verdict' \in Verdict /\ OffBoard(verdict')
         \/ status = "active" /\ status' = "aborted" /\ UNCHANGED <<moveRows, verdict>>
<1>1. ASSUME NEW r \in Req, CommitMove(r), moveRows' = moveRows
      PROVE  UNCHANGED <<moveRows, status, verdict>>
  <2> DEFINE e == req[r].plan.engine
             n == Len(e.moves)
  <2>1. CASE PlyFree(n)
    <3>1. /\ e.moves[n] \in Move /\ moveRows' = Append(moveRows, e.moves[n])
          /\ moveRows \in Seq(Move)
      BY <1>1, <2>1, NextPly DEF CommitMove, IInv, TypeOK
    <3>2. Len(moveRows') = Len(moveRows) + 1 /\ Len(moveRows) \in Nat
      BY <3>1, AppendFacts
    <3> QED
      BY <1>1, <3>2
  <2>2. CASE ~PlyFree(n)
    BY <1>1, <2>2 DEF CommitMove
  <2> QED
    BY <2>1, <2>2
<1>2. ASSUME NEW r \in Req, CommitFinalize(r)
      PROVE  moveRows' = moveRows
  BY <1>2 DEF CommitFinalize
<1>3. (\E r \in Req : CommitAbort(r)) \/ SweepNeverFetched => moveRows' = moveRows
  BY DEF CommitAbort, SweepNeverFetched
<1> QED
  BY <1>1, <1>2, <1>3, OutcomeSteps, MovePlayed, FinalizeLands, AbortLands

\* An ended row is rewritten only by a game-ending move that was in flight,
\* and never goes back to active.
THEOREM OnlyTheBoard == Spec => OnlyTheBoardOverturns
<1>1. ASSUME IInv, [Next]_vars
      PROVE  [ status # "active" /\ <<status, verdict>>' # <<status, verdict>>
               => /\ status' = "completed"
                  /\ moveRows' # moveRows
                  /\ EndedByMove' ]_vars
  <2> SUFFICES ASSUME status # "active", <<status, verdict>>' # <<status, verdict>>
               PROVE  status' = "completed" /\ moveRows' # moveRows /\ EndedByMove'
    OBVIOUS
  <2>1. PICK m \in Move :
          /\ moveRows' = Append(moveRows, m)
          /\ m \in EndingMoves /\ status' = "completed"
    BY <1>1, OutcomeStep
  <2>2. moveRows \in Seq(Move)
    BY <1>1 DEF IInv, TypeOK
  <2>3. /\ Append(moveRows, m) # << >> /\ Len(Append(moveRows, m)) = Len(moveRows) + 1
        /\ Len(moveRows) \in Nat /\ Append(moveRows, m)[Len(moveRows) + 1] = m
    BY <2>1, <2>2, AppendFacts
  <2>4. moveRows' # moveRows
    BY <2>1, <2>3
  <2>5. EndedByMove'
    BY <2>1, <2>3 DEF EndedByMove
  <2> QED
    BY <2>1, <2>4, <2>5
<1> QED
  BY <1>1, Invariance, PTL DEF Spec, OnlyTheBoardOverturns

\* A rating pass inside its transaction follows a completed game.
SettlesCompleted == \A r \in Req : req[r].at = "settle" => status = "completed"

\* No other step puts a handler in front of the rating transaction.
LEMMA OnlySettleReadSettles ==
  ASSUME [Next]_vars, req \in [Req -> Handler], NEW r \in Req,
         req'[r].at = "settle", req[r].at # "settle"
  PROVE  \E q \in Req : SettleRead(q)
<1> SUFFICES ASSUME \A q \in Req : ~SettleRead(q) PROVE FALSE
  OBVIOUS
<1>1. ASSUME NEW q \in Req, NEW h, h.at # "settle", req' = [req EXCEPT ![q] = h] PROVE FALSE
  BY <1>1
<1>2. ASSUME NEW q \in Req, NEW op \in Ops, NEW side \in Colors, Receive(q, op, side)
      PROVE  FALSE
  <2>1. CASE MustCreate(op)
    BY <1>1, <1>2, <2>1 DEF Receive
  <2>2. CASE ~MustCreate(op)
    BY <1>1, <1>2, <2>2 DEF Receive
  <2> QED
    BY <2>1, <2>2
<1>3. ASSUME NEW q \in Req, Ensure(q) PROVE FALSE
  <2> DEFINE h == [at |-> "decide", op |-> req[q].op, by |-> req[q].by, seen |-> NewEngine]
  <2>1. req' = [req EXCEPT ![q] = h] /\ h.at # "settle"
    BY <1>3 DEF Ensure
  <2> HIDE DEF h
  <2> QED
    BY <1>1, <2>1
<1>4. ASSUME NEW q \in Req, Decide(q) PROVE FALSE
  <2>1. ASSUME NEW p, req' = [req EXCEPT ![q] = [at |-> "commit", by |-> req[q].by, plan |-> p]]
        PROVE  FALSE
    BY <2>1
  <2>2. ASSUME req' = [req EXCEPT ![q] = Idle] PROVE FALSE
    BY <2>2 DEF Idle
  <2> QED
    BY <1>4, <2>1, <2>2 DEF Decide
<1>5. ASSUME NEW q \in Req, CommitFinalize(q) \/ CommitMove(q) PROVE FALSE
  <2>1. req' = [req EXCEPT ![q] = Idle] \/ req' = [req EXCEPT ![q] = [at |-> "settleRead"]]
    BY <1>5 DEF CommitFinalize, CommitMove
  <2> QED
    BY <2>1 DEF Idle
<1>6. ASSUME NEW q \in Req, CommitEngine(q) \/ CommitAbort(q) \/ Settle(q) \/ SettleFails(q)
      PROVE  FALSE
  <2>1. req' = [req EXCEPT ![q] = Idle]
    BY <1>6 DEF CommitEngine, CommitAbort, Settle, SettleFails
  <2> QED
    BY <2>1 DEF Idle
<1>7. CASE Restart
  BY <1>7 DEF Restart, Idle
<1>8. CASE Tick
  <2>1. req'[r] = OlderHandler(req[r])
    BY <1>8 DEF Tick
  <2>2. req[r] \in Handler
    OBVIOUS
  <2>3. OlderHandler(req[r]).at = req[r].at
    BY <2>2 DEF OlderHandler, Handler
  <2> QED
    BY <2>1, <2>3
<1>9. CASE SweepNeverFetched \/ UNCHANGED vars
  BY <1>9 DEF SweepNeverFetched, vars
<1> QED
  BY <1>2, <1>3, <1>4, <1>5, <1>6, <1>7, <1>8, <1>9 DEF Next, Handle

LEMMA SettlesCompletedHolds == Spec => []SettlesCompleted
<1>1. Init => SettlesCompleted
  BY DEF Init, SettlesCompleted, Idle
<1>2. ASSUME IInv, SettlesCompleted, [Next]_vars PROVE SettlesCompleted'
  <2>1. status = "completed" => status' = "completed"
    BY <1>2, OutcomeStep
  <2>2. req \in [Req -> Handler]
    BY <1>2 DEF IInv, TypeOK
  <2>3. ASSUME NEW r \in Req, req'[r].at = "settle" PROVE status' = "completed"
    <3>1. CASE req[r].at = "settle"
      BY <1>2, <2>1, <3>1 DEF SettlesCompleted
    <3>2. CASE req[r].at # "settle"
      <4>1. PICK q \in Req : SettleRead(q)
        BY <1>2, <2>2, <2>3, <3>2, OnlySettleReadSettles
      <4>2. q = r /\ status = "completed"
        BY <2>2, <2>3, <3>2, <4>1 DEF SettleRead, Idle
      <4> QED
        BY <2>1, <4>2
    <3> QED
      BY <3>1, <3>2
  <2> QED
    BY <2>3 DEF SettlesCompleted
<1> QED
  BY <1>1, <1>2, Invariance, PTL DEF Spec

\* A game is rated at most once, and only when its row is completed,
\* however many completion paths start a rating pass.
THEOREM RatedAtMostOnce == Spec => RatedOnce
<1>1. ASSUME SettlesCompleted, [Next]_vars
      PROVE  [ rated' # rated => rated = None /\ status = "completed" ]_vars
  <2> SUFFICES ASSUME rated' # rated PROVE rated = None /\ status = "completed"
    OBVIOUS
  <2>1. PICK r \in Req : Settle(r)
    BY <1>1 DEF Next, Handle, Receive, Ensure, Decide, CommitFinalize, CommitMove, CommitEngine,
                CommitAbort, SettleRead, SettleFails, SweepNeverFetched, Restart, Tick, vars
  <2> QED
    BY <1>1, <2>1 DEF Settle, ClaimsUnrated, SettlesCompleted
<1> QED
  BY <1>1, SettlesCompletedHolds, PTL DEF Spec, RatedOnce

\* Whatever overlaps, the table and the row implement GameRecord: a score
\* that grows one ply at a time, and a board that decides.
THEOREM ImplementsRecord == Spec => RecordSpec
<1>1. Init => Record!Init
  BY DEF Init, Record!Init
<1>2. ASSUME IInv, [Next]_vars PROVE [Record!Next]_(Record!vars)
  <2>1. CASE UNCHANGED <<moveRows, status, verdict>>
    BY <2>1 DEF Record!vars
  <2>2. ASSUME NEW m \in Move, moveRows' = Append(moveRows, m), ~EndedByMove,
               \/ m \in QuietMoves /\ UNCHANGED <<status, verdict>>
               \/ /\ m \in EndingMoves /\ status' = "completed"
                  /\ verdict' = VerdictOf(moveRows')
        PROVE  Record!Next
    <3>1. ~Record!Over
      BY <2>2 DEF EndedByMove, EndingMoves, Record!Over
    <3>2. CASE m \in QuietMoves /\ UNCHANGED <<status, verdict>>
      BY <2>2, <3>1, <3>2 DEF Record!Next, Record!PlayOn
    <3>3. CASE m \in EndingMoves /\ status' = "completed" /\ verdict' = VerdictOf(moveRows')
      <4>1. /\ Len(moveRows') = Len(moveRows) + 1 /\ Len(moveRows) \in Nat
            /\ moveRows'[Len(moveRows')] = m
        BY <1>2, <2>2, AppendFacts DEF IInv, TypeOK
      <4>2. Wins(Opponent(Turn(moveRows'))) = Record!Winner
        BY <4>1 DEF Wins, Opponent, Turn, Record!Winner
      <4>3. verdict' = IF m \in MatingMoves
                       THEN [result |-> Record!Winner, reason |-> "checkmate"]
                       ELSE [result |-> "draw", reason |-> "drawn_position"]
        BY <3>3, <4>1, <4>2 DEF VerdictOf, EndingMoves
      <4>4. Record!PlayLast(m)
        BY <2>2, <3>1, <3>3, <4>3 DEF Record!PlayLast
      <4> QED
        BY <3>3, <4>4 DEF Record!Next, EndingMoves
    <3> QED
      BY <2>2, <3>2, <3>3
  <2>3. CASE /\ status = "active" /\ status' = "completed" /\ moveRows' = moveRows
             /\ verdict' \in Verdict /\ OffBoard(verdict')
    <3>1. PICK result \in Results, reason \in Reasons :
            verdict' = [result |-> result, reason |-> reason]
      BY <2>3 DEF Verdict
    <3>2. reason \in {"timeout", "resignation", "draw_agreement"}
      BY <2>3, <3>1 DEF OffBoard
    <3>3. Record!EndOffBoard(result, reason)
      BY <2>3, <3>1 DEF Record!EndOffBoard
    <3> QED
      BY <3>2, <3>3 DEF Record!Next, Results
  <2>4. CASE status = "active" /\ status' = "aborted" /\ UNCHANGED <<moveRows, verdict>>
    BY <2>4 DEF Record!Next, Record!Abort
  <2> QED
    BY <1>2, <2>1, <2>2, <2>3, <2>4, OutcomeStep
<1> QED
  BY <1>1, <1>2, Invariance, PTL DEF Spec, RecordSpec, Record!Spec
-----------------------------------------------------------------------------
(* One handler at a time.  What the single handler holds is the game as it *)
(* is, so the service keeps what its comments promise.                     *)

OneAtATime == \A r, s \in Req : r = s

\* The ways a decision may end the game off the board.
FairEnd(v, clock) ==
  \/ \E side \in Colors : v = [result |-> Wins(Opponent(side)), reason |-> "resignation"]
  \/ Timed /\ v = Timeout(Turn(moveRows)) /\ IsTimeout(clock, Now, Turn(moveRows))
  \/ engine.offer # None /\ v = [result |-> "draw", reason |-> "draw_agreement"]

\* A decided write continues the persisted game.
Planned(p) ==
  /\ p.write # "abort" => engine # None
  /\ p.write = "finalize" =>
       /\ p.engine.moves = moveRows
       /\ p.engine.offer = None
       /\ FairEnd(p.verdict, p.engine.clock)
  /\ p.write = "move" =>
       /\ \E m \in Move : p.engine.moves = Append(moveRows, m)
       /\ p.engine.offer = IF engine.offer = Opponent(Turn(moveRows)) THEN None ELSE engine.offer
  /\ p.write = "engine" =>
       /\ p.engine.moves = moveRows
       /\ None \in {engine.offer, p.engine.offer}
  /\ p.write = "abort" => Len(moveRows) < AbortPlyLimit

\* What a handler read is still so; only the janitor can have swept the row.
Current(h) ==
  /\ h.at \in {"ensure", "decide", "commit"} =>
       status # "completed" /\ (Janitor \/ status = "active")
  /\ h.at = "ensure" => engine = None
  /\ h.at = "decide" => h.seen = engine
  /\ h.at = "commit" => Planned(h.plan)

Persisted == IF engine = None THEN moveRows = << >> ELSE engine.moves = moveRows

\* A fallen flag stays where it fell.
TimeoutStands ==
  verdict # None /\ verdict.reason = "timeout" =>
    /\ engine # None
    /\ verdict = Timeout(Turn(moveRows))
    /\ IsTimeout(engine.clock, Now, Turn(moveRows))

SerialInv == Persisted /\ TimeoutStands /\ \A r \in Req : Current(req[r])

\* With one handler, only its own slot needs a look.
LEMMA SerialKept ==
  ASSUME OneAtATime, NEW r \in Req, Persisted', TimeoutStands', Current(req[r])'
  PROVE  SerialInv'
BY DEF OneAtATime, SerialInv

\* A handler that goes idle, or on to the rating pass, relies on nothing.
LEMMA Done ==
  ASSUME IInv, NEW r \in Req,
         req' = [req EXCEPT ![r] = Idle] \/ req' = [req EXCEPT ![r] = [at |-> "settleRead"]]
  PROVE  Current(req[r])'
<1>1. req'[r].at \in {"idle", "settleRead"}
  BY DEF IInv, TypeOK, Idle
<1> QED
  BY <1>1 DEF Current

\* While the game is not over nothing has been said of it.
LEMMA NoVerdictYet ==
  ASSUME IInv, status # "completed"
  PROVE  verdict = None
BY DEF IInv

(* What a handler decides on the game as it is.                            *)

LEMMA FinalizePlanned ==
  ASSUME engine # None, NEW s \in Engine, s.moves = moveRows, NEW v, FairEnd(v, s.clock)
  PROVE  Planned(Finalize(s, v))
<1> DEFINE e == [s EXCEPT !.offer = None]
<1>1. e.moves = s.moves /\ e.clock = s.clock /\ e.offer = None
  BY DEF Engine
<1> HIDE DEF e
<1>2. Finalize(s, v) = [write |-> "finalize", engine |-> e, verdict |-> v]
  BY DEF Finalize, e
<1>3. /\ Finalize(s, v).write = "finalize" /\ Finalize(s, v).engine = e
      /\ Finalize(s, v).verdict = v
  BY <1>2
<1> QED
  BY <1>1, <1>3 DEF Planned

LEMMA SetOfferPlanned ==
  ASSUME engine # None, engine \in Engine, engine.moves = moveRows, NEW offer,
         None \in {engine.offer, offer}
  PROVE  Planned(SetOffer(engine, offer))
<1> DEFINE e == [engine EXCEPT !.offer = offer]
<1>1. e.moves = engine.moves /\ e.offer = offer
  BY DEF Engine
<1> HIDE DEF e
<1>2. SetOffer(engine, offer) = [write |-> "engine", engine |-> e]
  BY DEF SetOffer, e
<1>3. SetOffer(engine, offer).write = "engine" /\ SetOffer(engine, offer).engine = e
  BY <1>2
<1> QED
  BY <1>1, <1>3 DEF Planned

LEMMA MovePlanned ==
  ASSUME engine # None, Held(engine), engine.moves = moveRows,
         NEW s \in Engine, Held(s), s.moves = moveRows, s.offer = engine.offer,
         ~ IsTimeout(s.clock, Now, Turn(s.moves)), NEW m \in Move
  PROVE  Planned(MovePlan(s, Turn(s.moves), m))
<1> DEFINE side == Turn(s.moves)
           n == ApplyMove(s, m)
           e == ClearOffer(n, side)
           p == MovePlan(s, side, m)
<1>1. n \in Engine /\ n.moves = Append(s.moves, m) /\ n.offer = s.offer
  BY MoveMade DEF Held, Sound
<1> HIDE DEF n
<1>2. /\ e.moves = n.moves
      /\ e.offer = IF n.offer = Opponent(side) THEN None ELSE n.offer
  BY <1>1 DEF ClearOffer, Engine
<1>3. p = [write |-> "move", engine |-> e, verdict |-> DetectResult(n)]
  BY DEF MovePlan, n
<1> HIDE DEF e
<1>4. p.write = "move" /\ p.engine = e
  BY <1>3
<1> QED
  BY <1>1, <1>2, <1>4 DEF Planned

\* An untimed move never finds a fallen flag: its clock restarts.
LEMMA ChargedFacts ==
  ASSUME NEW s, Held(s)
  PROVE  /\ ChargedClock(s) \in Engine /\ Held(ChargedClock(s))
         /\ ChargedClock(s).moves = s.moves /\ ChargedClock(s).offer = s.offer
         /\ \A side \in Colors : IsTimeout(ChargedClock(s).clock, Now, side) => Timed
<1>1. Held(ChargedClock(s)) /\ ChargedClock(s).moves = s.moves
  BY ChargedClockHeld
<1>2. s \in Engine /\ s.clock \in Clock /\ s.clock.w > 0 /\ s.clock.b > 0
  BY DEF Held, Sound, Engine
<1>3. CASE Timed
  BY <1>1, <1>3 DEF ChargedClock, Held
<1>4. CASE ~ Timed
  <2> DEFINE c == [s.clock EXCEPT !.lastTickAt = Now]
  <2>1. c.w = s.clock.w /\ c.b = s.clock.b /\ c.lastTickAt = Now
    BY <1>2 DEF Clock
  <2>2. ChargedClock(s) = [s EXCEPT !.clock = c]
    BY <1>4 DEF ChargedClock
  <2>3. ASSUME NEW side \in Colors PROVE ~ IsTimeout(c, Now, side)
    BY <1>2, <2>1 DEF IsTimeout, Now, Colors, Clock
  <2> HIDE DEF c
  <2>4. ChargedClock(s).clock = c /\ ChargedClock(s).offer = s.offer
    BY <1>2, <2>2 DEF Engine
  <2> QED
    BY <1>1, <2>3, <2>4 DEF Held
<1> QED
  BY <1>3, <1>4
LEMMA PlansPlanned ==
  ASSUME IInv, Persisted, NEW op \in AllOps, NEW side \in Colors,
         engine = None => op = "abort", engine # None => Held(engine),
         NEW p \in Plans(op, side, engine)
  PROVE  Planned(p)
<1>1. CASE op = "abort"
  <2>1. p = [write |-> "abort"]
    BY <1>1 DEF Plans, AbortPlans
  <2>2. Len(moveRows) < AbortPlyLimit
    BY <1>1, EmptySeq DEF Plans, AbortPlans, Persisted
  <2>3. p.write = "abort"
    BY <2>1
  <2> QED
    BY <2>2, <2>3 DEF Planned
<1> SUFFICES ASSUME op # "abort" PROVE Planned(p)
  BY <1>1
<1>a. /\ engine # None /\ Held(engine) /\ engine \in Engine /\ engine.moves = moveRows
      /\ Turn(moveRows) \in Colors
  BY TurnType DEF Persisted, Held, IInv, TypeOK
<1>2. CASE op = "move"
  <2> DEFINE s == ChargedClock(engine)
  <2>1. /\ s \in Engine /\ Held(s) /\ s.moves = moveRows /\ s.offer = engine.offer
        /\ \A c \in Colors : IsTimeout(s.clock, Now, c) => Timed
    BY <1>a, ChargedFacts
  <2>2. p \in MovePlans(engine, side)
    BY <1>2 DEF Plans
  <2>3. Turn(s.moves) = side
    BY <2>2 DEF MovePlans
  <2>4. CASE IsTimeout(s.clock, Now, side)
    <3>1. p = Finalize(s, Timeout(side))
      BY <2>2, <2>3, <2>4 DEF MovePlans
    <3> HIDE DEF s
    <3>2. FairEnd(Timeout(side), s.clock)
      BY <2>1, <2>3, <2>4 DEF FairEnd
    <3> QED
      BY <1>a, <2>1, <3>1, <3>2, FinalizePlanned
  <2>5. CASE ~ IsTimeout(s.clock, Now, side)
    <3>1. PICK m \in LegalMoves(s.moves) : p = MovePlan(s, side, m)
      BY <2>2, <2>3, <2>5 DEF MovePlans
    <3>2. m \in Move
      BY <3>1 DEF LegalMoves, Move
    <3> HIDE DEF s
    <3> QED
      BY <1>a, <2>1, <2>3, <2>5, <3>1, <3>2, MovePlanned
  <2> QED
    BY <2>4, <2>5
<1>3. CASE op = "resign"
  <2> DEFINE v == [result |-> Wins(Opponent(side)), reason |-> "resignation"]
  <2>1. p = Finalize(engine, v)
    BY <1>3 DEF Plans, ResignPlans
  <2>2. FairEnd(v, engine.clock)
    BY DEF FairEnd
  <2> QED
    BY <1>a, <2>1, <2>2, FinalizePlanned
<1>4. CASE op = "state" \/ op = "claim"
  <2>0. p \in StatePlans(engine) \cup ClaimPlans(engine)
    BY <1>4 DEF Plans
  <2>1. p \notin ClaimPlans(engine)
    BY <1>a, <2>0, DetectedSound
  <2>2. Timed /\ DetectResult(engine) # None /\ p = Finalize(engine, DetectResult(engine))
    BY <2>0, <2>1 DEF StatePlans
  <2>3. DetectResult(engine) = Timeout(Turn(moveRows))
    BY <1>a, <2>2, OnlyTheFlag
  <2>4. IsTimeout(engine.clock, Now, Turn(moveRows))
    <3>1. \A i \in 1..Len(moveRows) : moveRows[i] \notin MatingMoves \cup DrawingMoves
      BY <1>a DEF Held, Open, EndingMoves
    <3>2. moveRows # << >> => Len(moveRows) \in 1..Len(moveRows)
      BY EmptySeq DEF IInv, TypeOK
    <3> QED
      BY <1>a, <2>2, <3>1, <3>2 DEF DetectResult
  <2>5. FairEnd(DetectResult(engine), engine.clock)
    BY <2>2, <2>3, <2>4 DEF FairEnd
  <2> QED
    BY <1>a, <2>2, <2>5, FinalizePlanned
<1>5. ASSUME engine.offer # None, p = AcceptDraw(engine)
      PROVE  Planned(p)
  <2> DEFINE v == [result |-> "draw", reason |-> "draw_agreement"]
  <2>1. FairEnd(v, engine.clock) /\ p = Finalize(engine, v)
    BY <1>5 DEF FairEnd, AcceptDraw
  <2> QED
    BY <1>a, <2>1, FinalizePlanned
<1>6. CASE op = "offer"
  <2>1. p \in OfferPlans(engine, side)
    BY <1>6 DEF Plans
  <2>2. CASE engine.offer = None
    <3>1. p = SetOffer(engine, side)
      BY <2>1, <2>2 DEF OfferPlans
    <3> QED
      BY <1>a, <2>2, <3>1, SetOfferPlanned
  <2>3. CASE engine.offer # None
    BY <1>5, <2>1, <2>3 DEF OfferPlans
  <2> QED
    BY <2>2, <2>3
<1>7. CASE op = "accept"
  <2>1. engine.offer = Opponent(side) /\ p = AcceptDraw(engine)
    BY <1>7 DEF Plans, AcceptPlans
  <2> QED
    BY <1>5, <2>1, OpponentType, NoneTypes
<1>8. CASE op = "decline"
  <2>1. p = SetOffer(engine, None)
    BY <1>8 DEF Plans, DeclinePlans
  <2> QED
    BY <1>a, <2>1, SetOfferPlanned
<1> QED
  BY <1>2, <1>3, <1>4, <1>6, <1>7, <1>8 DEF AllOps

(* The actions.                                                            *)

LEMMA ReceiveSerial ==
  ASSUME OneAtATime, IInv, SerialInv, NEW r \in Req, NEW op \in Ops, NEW side \in Colors,
         Receive(r, op, side)
  PROVE  SerialInv'
<1> USE DEF Receive
<1>1. Persisted' /\ TimeoutStands'
  BY DEF SerialInv, Persisted, TimeoutStands
<1>2. req \in [Req -> Handler] /\ status' = "active" /\ engine' = engine
  BY DEF IInv, TypeOK, MayAct
<1>3. CASE MustCreate(op)
  <2>1. req'[r] = [at |-> "ensure", op |-> op, by |-> side] /\ engine = None
    BY <1>2, <1>3 DEF MustCreate
  <2>2. req'[r].at = "ensure"
    BY <2>1
  <2>3. Current(req[r])'
    BY <1>2, <2>1, <2>2 DEF Current
  <2> QED
    BY <1>1, <2>3, SerialKept
<1>4. CASE ~ MustCreate(op)
  <2>1. req'[r] = [at |-> "decide", op |-> op, by |-> side, seen |-> engine]
    BY <1>2, <1>4
  <2>2. req'[r].at = "decide" /\ req'[r].seen = engine
    BY <2>1
  <2>3. Current(req[r])'
    BY <1>2, <2>2 DEF Current
  <2> QED
    BY <1>1, <2>3, SerialKept
<1> QED
  BY <1>3, <1>4

LEMMA EnsureSerial ==
  ASSUME OneAtATime, IInv, SerialInv, NEW r \in Req, Ensure(r)
  PROVE  SerialInv'
<1> USE DEF Ensure
<1>1. /\ Current(req[r]) /\ req[r].at = "ensure" /\ req \in [Req -> Handler]
      /\ moveRows \in Seq(Move)
  BY DEF SerialInv, IInv, TypeOK
<1>2. engine = None /\ moveRows = << >> /\ verdict = None
  BY <1>1, NoVerdictYet DEF Current, SerialInv, Persisted
<1>3. engine' # None /\ engine'.moves = << >>
  BY <1>1, NewEngineHeld, NoneTypes DEF Held, NewEngine
<1>4. Persisted' /\ TimeoutStands'
  BY <1>2, <1>3 DEF Persisted, TimeoutStands
<1>5. req'[r] = [at |-> "decide", op |-> req[r].op, by |-> req[r].by, seen |-> NewEngine]
  BY <1>1
<1>6. req'[r].at = "decide" /\ req'[r].seen = engine'
  BY <1>5
<1>7. Current(req[r])'
  BY <1>1, <1>6 DEF Current
<1> QED
  BY <1>4, <1>7, SerialKept

LEMMA DecideSerial ==
  ASSUME OneAtATime, IInv, SerialInv, NEW r \in Req, Decide(r)
  PROVE  SerialInv'
<1> USE DEF Decide
<1> DEFINE h == req[r]
<1>1. Persisted' /\ TimeoutStands'
  BY DEF SerialInv, Persisted, TimeoutStands
<1>2. h \in Handler /\ SoundHandler(h, moveRows, agreed) /\ Current(h) /\ h.at = "decide"
  BY DEF IInv, TypeOK, SoundHandlers, SerialInv
<1>3. /\ h.seen = engine /\ h.op \in AllOps /\ h.by \in Colors
      /\ status # "completed" /\ (Janitor \/ status = "active")
      /\ engine = None => h.op = "abort"
      /\ engine # None => Held(engine)
  BY <1>2, HandlerTypes, OpsAssumption, NoneTypes DEF Current, SoundHandler, Held
<1>4. CASE req' = [req EXCEPT ![r] = Idle]
  BY <1>1, <1>4, Done, SerialKept
<1>5. ASSUME NEW p \in Plans(h.op, h.by, h.seen),
             req' = [req EXCEPT ![r] = [at |-> "commit", by |-> h.by, plan |-> p]]
      PROVE  SerialInv'
  <2>1. Planned(p)
    BY <1>3, PlansPlanned DEF SerialInv
  <2>2. (Planned(p))'
    BY <2>1 DEF Planned, FairEnd
  <2>3. req'[r] = [at |-> "commit", by |-> h.by, plan |-> p]
    BY <1>5 DEF IInv, TypeOK
  <2>4. req'[r].at = "commit" /\ req'[r].plan = p
    BY <2>3
  <2>5. Current(req[r])'
    BY <1>3, <2>2, <2>4 DEF Current, Planned, FairEnd
  <2> QED
    BY <1>1, <2>5, SerialKept
<1> QED
  BY <1>4, <1>5
\* What the single handler is about to write.
LEMMA CommitsCurrent ==
  ASSUME IInv, SerialInv, NEW r \in Req, NEW write, Committing(r, write)
  PROVE  /\ req[r].plan \in Plan /\ req[r].plan.write = write
         /\ Planned(req[r].plan)
         /\ status # "completed" /\ (Janitor \/ status = "active")
         /\ verdict = None
BY Committed, NoVerdictYet DEF SerialInv, Current

LEMMA FairTimeout ==
  ASSUME NEW v, NEW clock, FairEnd(v, clock), v.reason = "timeout"
  PROVE  v = Timeout(Turn(moveRows)) /\ IsTimeout(clock, Now, Turn(moveRows))
<1>1. ASSUME NEW side \in Colors,
             v = [result |-> Wins(Opponent(side)), reason |-> "resignation"]
      PROVE  FALSE
  <2>1. v.reason = "resignation"
    BY <1>1
  <2> QED
    BY <2>1
<1>2. v # [result |-> "draw", reason |-> "draw_agreement"]
  OBVIOUS
<1> QED
  BY <1>1, <1>2 DEF FairEnd

LEMMA CommitFinalizeSerial ==
  ASSUME OneAtATime, IInv, SerialInv, NEW r \in Req, CommitFinalize(r)
  PROVE  SerialInv'
<1> USE DEF CommitFinalize
<1> DEFINE p == req[r].plan
<1>1. p \in Plan /\ p.write = "finalize" /\ Planned(p) /\ verdict = None
  BY CommitsCurrent
<1>2. Current(req[r])'
  BY Done
<1>3. CASE StillActive
  <2>1. /\ engine # None /\ p.engine.moves = moveRows /\ p.engine \in Engine
        /\ FairEnd(p.verdict, p.engine.clock)
    BY <1>1, PlanTypes DEF Planned
  <2>2. engine' = p.engine /\ moveRows' = moveRows /\ verdict' = p.verdict
    BY <1>3
  <2>3. Persisted'
    BY <2>1, <2>2, NoneTypes DEF Persisted
  <2>4. TimeoutStands'
    <3>1. p.verdict.reason = "timeout" =>
            /\ p.verdict = Timeout(Turn(moveRows))
            /\ IsTimeout(p.engine.clock, Now, Turn(moveRows))
      BY <2>1, FairTimeout
    <3>2. engine' # None
      BY <2>1, <2>2, NoneTypes
    <3> QED
      BY <2>2, <3>1, <3>2 DEF TimeoutStands
  <2> QED
    BY <1>2, <2>3, <2>4, SerialKept
<1>4. CASE ~ StillActive
  <2>1. Persisted' /\ TimeoutStands'
    BY <1>4 DEF SerialInv, Persisted, TimeoutStands
  <2> QED
    BY <1>2, <2>1, SerialKept
<1> QED
  BY <1>3, <1>4

LEMMA CommitMoveSerial ==
  ASSUME OneAtATime, IInv, SerialInv, NEW r \in Req, CommitMove(r)
  PROVE  SerialInv'
<1> USE DEF CommitMove
<1> DEFINE p == req[r].plan
           e == p.engine
           n == Len(e.moves)
<1>1. p \in Plan /\ p.write = "move" /\ Planned(p) /\ verdict = None
  BY CommitsCurrent
<1>2. Current(req[r])'
  BY Done
<1>3. CASE PlyFree(n)
  <2>1. engine' = e /\ e \in Engine /\ moveRows' = e.moves
    BY <1>3, NextPly
  <2>2. Persisted'
    BY <2>1, NoneTypes DEF Persisted
  <2>3. p.verdict = VerdictOf(e.moves)
    <3>1. /\ p.write = "move" /\ req[r].at = "commit" /\ SoundHandler(req[r], moveRows, agreed)
      BY Committed
    <3> QED
      BY <3>1 DEF SoundHandler, SoundMove
  <2>4. verdict' = None \/ verdict' = VerdictOf(e.moves)
    BY <1>1, <1>3, <2>3
  <2>5. TimeoutStands'
    BY <2>4 DEF TimeoutStands, VerdictOf
  <2> QED
    BY <1>2, <2>2, <2>5, SerialKept
<1>4. CASE ~ PlyFree(n)
  <2>1. Persisted' /\ TimeoutStands'
    BY <1>4 DEF SerialInv, Persisted, TimeoutStands
  <2> QED
    BY <1>2, <2>1, SerialKept
<1> QED
  BY <1>3, <1>4

LEMMA CommitEngineSerial ==
  ASSUME OneAtATime, IInv, SerialInv, NEW r \in Req, CommitEngine(r)
  PROVE  SerialInv'
<1> USE DEF CommitEngine
<1> DEFINE p == req[r].plan
<1>1. p \in Plan /\ p.write = "engine" /\ Planned(p) /\ verdict = None
  BY CommitsCurrent
<1>2. Current(req[r])'
  BY Done
<1>3. p.engine.moves = moveRows /\ p.engine \in Engine
  BY <1>1, PlanTypes DEF Planned
<1>4. engine' = p.engine \/ engine' = engine
  OBVIOUS
<1>5. Persisted'
  BY <1>3, <1>4, NoneTypes DEF Persisted, SerialInv
<1>6. TimeoutStands'
  BY <1>1 DEF TimeoutStands
<1> QED
  BY <1>2, <1>5, <1>6, SerialKept

LEMMA CommitAbortSerial ==
  ASSUME OneAtATime, IInv, SerialInv, NEW r \in Req, CommitAbort(r)
  PROVE  SerialInv'
<1> USE DEF CommitAbort
<1>1. verdict = None
  BY CommitsCurrent
<1>2. Persisted' /\ TimeoutStands'
  BY <1>1 DEF SerialInv, Persisted, TimeoutStands
<1> QED
  BY <1>2, Done, SerialKept

LEMMA SettleSerial ==
  ASSUME OneAtATime, IInv, SerialInv, NEW r \in Req,
         SettleRead(r) \/ Settle(r) \/ SettleFails(r)
  PROVE  SerialInv'
<1>1. Persisted' /\ TimeoutStands'
  BY DEF SerialInv, Persisted, TimeoutStands, SettleRead, Settle, SettleFails
<1>2. CASE Settle(r) \/ SettleFails(r)
  BY <1>1, <1>2, Done, SerialKept DEF Settle, SettleFails
<1>3. CASE SettleRead(r)
  <2>1. req'[r].at \in {"settle", "idle"}
    BY <1>3 DEF SettleRead, Idle, IInv, TypeOK
  <2>2. Current(req[r])'
    BY <2>1 DEF Current
  <2> QED
    BY <1>1, <2>2, SerialKept
<1> QED
  BY <1>2, <1>3

LEMMA SweepSerial ==
  ASSUME IInv, SerialInv, SweepNeverFetched
  PROVE  SerialInv'
<1> USE DEF SweepNeverFetched
<1>1. Persisted' /\ TimeoutStands'
  BY DEF SerialInv, Persisted, TimeoutStands
<1>2. \A r \in Req : Current(req[r])'
  BY DEF SerialInv, Current, Planned, FairEnd
<1> QED
  BY <1>1, <1>2 DEF SerialInv

LEMMA RestartSerial ==
  ASSUME IInv, SerialInv, Restart
  PROVE  SerialInv'
<1> USE DEF Restart
<1>1. Persisted' /\ TimeoutStands'
  BY DEF SerialInv, Persisted, TimeoutStands
<1>2. ASSUME NEW r \in Req PROVE Current(req[r])'
  <2>1. req'[r].at = "idle"
    BY DEF Idle
  <2> QED
    BY <2>1 DEF Current
<1> QED
  BY <1>1, <1>2 DEF SerialInv

\* A flag that has fallen is still down an instant later.
LEMMA OlderFlag ==
  ASSUME NEW s \in Engine, NEW side \in Colors, IsTimeout(s.clock, Now, side)
  PROVE  IsTimeout(Older(s).clock, Now, side)
<1> DEFINE at == IF s.clock.lastTickAt > -Horizon THEN s.clock.lastTickAt - 1
                 ELSE s.clock.lastTickAt
           c  == [s.clock EXCEPT !.lastTickAt = at]
<1>1. s.clock \in Clock
  BY DEF Engine
<1>2. at \in Int /\ at <= s.clock.lastTickAt
  BY <1>1, BoundAssumption DEF Clock
<1> HIDE DEF at
<1>3. c.w = s.clock.w /\ c.b = s.clock.b /\ c.lastTickAt = at
  BY <1>1, <1>2 DEF Clock
<1>4. Older(s) = [s EXCEPT !.clock = c]
  BY DEF Older, at
<1>5. c \in Clock
  BY <1>1, <1>2 DEF Clock
<1>6. IsTimeout(c, Now, side)
  BY <1>1, <1>2, <1>3, <1>5 DEF IsTimeout, Now, Colors, Clock
<1> HIDE DEF c
<1> QED
  BY <1>4, <1>6 DEF Engine

LEMMA OlderCurrent ==
  ASSUME IInv, SerialInv, Tick, NEW r \in Req
  PROVE  Current(req[r])'
<1> USE DEF Tick
<1> SUFFICES ASSUME NEW h, h = req[r] PROVE Current(req[r])'
  OBVIOUS
<1>1. h \in Handler /\ Current(h) /\ req'[r] = OlderHandler(h)
  BY DEF IInv, TypeOK, SerialInv
<1>2. /\ UNCHANGED <<status, moveRows>>
      /\ engine' = None <=> engine = None
      /\ engine # None => engine' = Older(engine) /\ engine'.offer = engine.offer
      /\ moveRows \in Seq(Move)
  BY OlderFacts, NoneTypes DEF IInv, TypeOK
<1>3. CASE h.at = "decide" /\ h.seen # None
  <2>1. h.op \in Ops /\ h.by \in Colors
        /\ h = [at |-> "decide", op |-> h.op, by |-> h.by, seen |-> h.seen]
    BY <1>1, <1>3 DEF Handler
  <2>2. req'[r] = [at |-> "decide", op |-> h.op, by |-> h.by, seen |-> Older(h.seen)]
    BY <1>1, <1>3, <2>1 DEF OlderHandler
  <2>3. req'[r].at = "decide" /\ req'[r].seen = Older(h.seen)
    BY <2>2
  <2> QED
    BY <1>1, <1>2, <1>3, <2>3 DEF Current
<1>4. CASE h.at = "commit" /\ h.plan.write # "abort"
  <2> DEFINE p == h.plan
             s == p.engine
             o == Older(s)
             q == [p EXCEPT !.engine = o]
  <2>1. /\ p \in Plan /\ s \in Engine /\ h.by \in Colors
        /\ h = [at |-> "commit", by |-> h.by, plan |-> p]
    BY <1>1, <1>4, PlanTypes DEF Handler
  <2>2. o \in Engine /\ o.moves = s.moves /\ o.offer = s.offer
    BY <2>1, OlderFacts
  <2>3. \A side \in Colors : IsTimeout(s.clock, Now, side) => IsTimeout(o.clock, Now, side)
    BY <2>1, OlderFlag
  <2>4. req'[r] = [at |-> "commit", by |-> h.by, plan |-> q]
    BY <1>1, <1>4, <2>1 DEF OlderHandler
  <2> HIDE DEF o
  <2>5. /\ q.engine = o /\ q.write = p.write
        /\ p.write = "finalize" => q.verdict = p.verdict
    BY <1>4, <2>1 DEF Plan
  <2> HIDE DEF q
  <2>6. req'[r].at = "commit" /\ req'[r].plan = q
    BY <2>4
  <2>7. Planned(p)
    BY <1>1, <1>4 DEF Current
  <2>8. FairEnd(p.verdict, s.clock) => (FairEnd(p.verdict, o.clock))'
    BY <1>2, <2>3, TurnType DEF FairEnd
  <2>9. (Planned(q))'
    BY <1>2, <1>4, <2>2, <2>5, <2>7, <2>8 DEF Planned
  <2> QED
    BY <1>1, <1>2, <1>4, <2>6, <2>9 DEF Current
<1>5. CASE h.at = "commit" /\ h.plan.write = "abort"
  <2>1. req'[r] = h
    BY <1>1, <1>5 DEF OlderHandler
  <2>2. Len(moveRows) < AbortPlyLimit
    BY <1>1, <1>5 DEF Current, Planned
  <2> QED
    BY <1>1, <1>2, <1>5, <2>1, <2>2 DEF Current, Planned
<1>6. CASE h.at # "commit" /\ ~ (h.at = "decide" /\ h.seen # None)
  <2>1. req'[r] = h
    BY <1>1, <1>6 DEF OlderHandler
  <2> QED
    BY <1>1, <1>2, <1>6, <2>1 DEF Current
<1> QED
  BY <1>3, <1>4, <1>5, <1>6

LEMMA TickSerial ==
  ASSUME IInv, SerialInv, Tick
  PROVE  SerialInv'
<1>1. CASE engine = None
  BY <1>1, OlderCurrent DEF Tick, SerialInv, Persisted, TimeoutStands
<1>2. CASE engine # None
  <2>1. /\ engine \in Engine /\ moveRows \in Seq(Move) /\ engine' = Older(engine)
        /\ UNCHANGED <<moveRows, verdict>>
    BY <1>2 DEF Tick, IInv, TypeOK
  <2>2. engine' # None /\ engine'.moves = engine.moves
    BY <2>1, OlderFacts, NoneTypes
  <2>3. Persisted'
    BY <1>2, <2>1, <2>2 DEF SerialInv, Persisted
  <2>4. TimeoutStands'
    BY <2>1, <2>2, OlderFlag, TurnType DEF SerialInv, TimeoutStands
  <2> QED
    BY <2>3, <2>4, OlderCurrent DEF SerialInv
<1> QED
  BY <1>1, <1>2

LEMMA NextSerial ==
  ASSUME OneAtATime, IInv, SerialInv, [Next]_vars
  PROVE  SerialInv'
<1>1. ASSUME NEW r \in Req, NEW op \in Ops, NEW side \in Colors, Receive(r, op, side)
      PROVE  SerialInv'
  BY <1>1, ReceiveSerial
<1>2. ASSUME NEW r \in Req, Handle(r) PROVE SerialInv'
  BY <1>2, EnsureSerial, DecideSerial, CommitFinalizeSerial, CommitMoveSerial,
     CommitEngineSerial, CommitAbortSerial, SettleSerial DEF Handle
<1>3. ASSUME NEW r \in Req, SettleFails(r) PROVE SerialInv'
  BY <1>3, SettleSerial
<1>4. CASE SweepNeverFetched
  BY <1>4, SweepSerial
<1>5. CASE Restart
  BY <1>5, RestartSerial
<1>6. CASE Tick
  BY <1>6, TickSerial
<1>7. CASE UNCHANGED vars
  BY <1>7 DEF vars, SerialInv, Persisted, TimeoutStands, Current, Planned, FairEnd
<1> QED
  BY <1>1, <1>2, <1>3, <1>4, <1>5, <1>6, <1>7 DEF Next

\* Alone, a handler always writes on top of the game as it is, whether it is
\* cut off by a restart or swept by the janitor.
THEOREM SerialInvariance ==
  ASSUME OneAtATime
  PROVE  Spec => []SerialInv
<1>1. Init => SerialInv
  BY DEF Init, SerialInv, Persisted, TimeoutStands, Current, Idle
<1> QED
  BY <1>1, NextSerial, Invariance, PTL DEF Spec

\* Move rows and engineState never drift apart.
THEOREM NothingIsLost ==
  ASSUME OneAtATime
  PROVE  Spec => []NothingLost
<1>1. SerialInv => NothingLost
  BY DEF SerialInv, Persisted, NothingLost
<1> QED
  BY <1>1, SerialInvariance, PTL

\* Who lost on time was to move with nothing left, and the position stays.
THEOREM FlagsFallOnTheMover ==
  ASSUME OneAtATime
  PROVE  Spec => []FlagFellOnTheMover
<1>1. SerialInv => FlagFellOnTheMover
  BY DEF SerialInv, TimeoutStands, FlagFellOnTheMover
<1> QED
  BY <1>1, SerialInvariance, PTL

\* Nothing is overturned when nothing overlaps.
THEOREM FinalizedOnceAlone ==
  ASSUME OneAtATime
  PROVE  Spec => FinalizedOnce
<1>1. ASSUME IInv, SerialInv, [Next]_vars
      PROVE  [ status = "completed" => verdict' = verdict ]_vars
  <2> SUFFICES ASSUME status = "completed", verdict' # verdict PROVE FALSE
    OBVIOUS
  <2>1. PICK r \in Req : CommitFinalize(r) \/ CommitMove(r) \/ CommitAbort(r)
    BY <1>1 DEF Next, Handle, Receive, Ensure, Decide, CommitEngine, SettleRead, Settle,
                SettleFails, SweepNeverFetched, Restart, Tick, vars
  <2>2. \E write \in {"finalize", "move", "abort"} : Committing(r, write)
    BY <2>1 DEF CommitFinalize, CommitMove, CommitAbort
  <2> QED
    BY <1>1, <2>2, CommitsCurrent
<1> QED
  BY <1>1, Invariance, SerialInvariance, PTL DEF Spec, FinalizedOnce

\* A game is aborted before it has begun in earnest, by a player or by the
\* janitor, who needs a limit that lets an empty board pass.
THEOREM AbortsAreEarly ==
  ASSUME OneAtATime, AbortPlyLimit # 0
  PROVE  Spec => AbortedEarly
<1>1. ASSUME IInv, SerialInv, [Next]_vars
      PROVE  [ status = "active" /\ status' = "aborted" => Len(moveRows) < AbortPlyLimit ]_vars
  <2> SUFFICES ASSUME status = "active", status' = "aborted"
               PROVE  Len(moveRows) < AbortPlyLimit
    OBVIOUS
  <2>1. ASSUME NEW r \in Req, CommitAbort(r) PROVE Len(moveRows) < AbortPlyLimit
    <3>1. Committing(r, "abort")
      BY <2>1 DEF CommitAbort
    <3> QED
      BY <1>1, <3>1, CommitsCurrent DEF Planned
  <2>2. CASE SweepNeverFetched
    <3>1. Len(moveRows) = 0
      BY <1>1, <2>2 DEF SweepNeverFetched, SerialInv, Persisted
    <3> QED
      BY <3>1, BoundAssumption
  <2>3. (\E r \in Req : CommitAbort(r)) \/ SweepNeverFetched
    BY <1>1 DEF Next, Handle, Receive, Ensure, Decide, CommitFinalize, CommitMove, CommitEngine,
                SettleRead, Settle, SettleFails, Restart, Tick, vars
  <2> QED
    BY <2>1, <2>2, <2>3
<1> QED
  BY <1>1, Invariance, SerialInvariance, PTL DEF Spec, AbortedEarly

\* An offer stands until the other side moves or answers.
THEOREM OffersOutliveOwnMoves ==
  ASSUME OneAtATime
  PROVE  Spec => OwnOfferStands
<1>1. ASSUME IInv, SerialInv, [Next]_vars, NEW side \in Colors,
             engine # None /\ engine.offer = side, status = "active" /\ Turn(moveRows) = side,
             moveRows' # moveRows
      PROVE  engine'.offer = side
  <2>1. PICK r \in Req : CommitMove(r)
    BY <1>1 DEF Next, Handle, Receive, Ensure, Decide, CommitFinalize, CommitEngine, CommitAbort,
                SettleRead, Settle, SettleFails, SweepNeverFetched, Restart, Tick, vars
  <2> DEFINE p == req[r].plan
  <2>2. p \in Plan /\ p.write = "move" /\ Planned(p)
    BY <1>1, <2>1, CommitsCurrent DEF CommitMove
  <2>3. engine' = p.engine
    BY <1>1, <2>1 DEF CommitMove
  <2>4. Opponent(side) # side
    BY <1>1 DEF Opponent, Colors
  <2> QED
    BY <1>1, <2>2, <2>3, <2>4 DEF Planned
<1>2. ASSUME IInv, SerialInv, [Next]_vars
      PROVE  [ \A side \in Colors :
                 /\ engine # None /\ engine.offer = side
                 /\ status = "active" /\ Turn(moveRows) = side
                 /\ moveRows' # moveRows
                 => engine'.offer = side ]_vars
  BY <1>1, <1>2
<1> QED
  BY <1>2, Invariance, SerialInvariance, PTL DEF Spec, OwnOfferStands

-----------------------------------------------------------------------------
(* Every step of the single handler is a step of ChessGame, or none.  The  *)
(* janitor's sweep is off: it may abort between two awaits of a handler.   *)

LEMMA SameGame ==
  /\ \A side : Atomic!Opponent(side) = Opponent(side)
  /\ \A side : Atomic!Wins(side) = Wins(side)
  /\ Atomic!Colors = Colors
  /\ Atomic!Mover = Turn(moveRows)
BY DEF Atomic!Opponent, Opponent, Atomic!Wins, Wins, Atomic!Colors, Colors, Atomic!Mover, Turn

StandingOffer == IF engine = None THEN None ELSE engine.offer

\* A write that leaves the row's status, score and offer alone is no step.
LEMMA AtomicStutter ==
  ASSUME UNCHANGED <<moveRows, status, verdict>>, StandingOffer' = StandingOffer
  PROVE  UNCHANGED Atomic!vars
BY DEF Atomic!vars, StandingOffer

LEMMA AtomicFinalize ==
  ASSUME IInv, SerialInv, ~ Janitor, NEW r \in Req, CommitFinalize(r)
  PROVE  Atomic!Next
<1> USE DEF CommitFinalize
<1> DEFINE p == req[r].plan
<1>1. p \in Plan /\ p.write = "finalize" /\ Planned(p) /\ status = "active"
  BY CommitsCurrent
<1>2. /\ status' = "completed" /\ verdict' = p.verdict /\ engine' = p.engine
      /\ moveRows' = moveRows
  BY <1>1 DEF StillActive
<1>3. /\ engine # None /\ p.engine \in Engine /\ p.engine.offer = None
      /\ FairEnd(p.verdict, p.engine.clock)
  BY <1>1, PlanTypes DEF Planned
<1>4. StandingOffer' = None
  BY <1>2, <1>3 DEF StandingOffer
<1>5. ASSUME NEW side \in Colors,
             verdict' = [result |-> Wins(Opponent(side)), reason |-> "resignation"]
      PROVE  Atomic!Next
  <2>1. Atomic!Resign(side)
    BY <1>1, <1>2, <1>4, <1>5, SameGame DEF Atomic!Resign, Atomic!End, StandingOffer
  <2> QED
    BY <2>1, SameGame DEF Atomic!Next
<1>6. CASE Timed /\ verdict' = Timeout(Turn(moveRows))
  <2>1. Atomic!FlagFalls
    BY <1>1, <1>2, <1>4, <1>6, SameGame DEF Atomic!FlagFalls, Atomic!End, Timeout, StandingOffer
  <2> QED
    BY <2>1 DEF Atomic!Next
<1>7. CASE engine.offer # None /\ verdict' = [result |-> "draw", reason |-> "draw_agreement"]
  <2>1. Atomic!Agree
    BY <1>1, <1>2, <1>3, <1>4, <1>7 DEF Atomic!Agree, Atomic!End, StandingOffer
  <2> QED
    BY <2>1 DEF Atomic!Next
<1> QED
  BY <1>2, <1>3, <1>5, <1>6, <1>7 DEF FairEnd

LEMMA AtomicMove ==
  ASSUME IInv, SerialInv, ~ Janitor, NEW r \in Req, CommitMove(r)
  PROVE  Atomic!Next
<1> USE DEF CommitMove
<1> DEFINE p == req[r].plan
           n == Len(p.engine.moves)
<1>1. p \in Plan /\ p.write = "move" /\ Planned(p) /\ status = "active"
  BY CommitsCurrent
<1>2. /\ engine # None /\ p.engine \in Engine
      /\ p.engine.offer = IF engine.offer = Opponent(Turn(moveRows)) THEN None ELSE engine.offer
      /\ moveRows \in Seq(Move) /\ Len(moveRows) \in Nat
  BY <1>1, PlanTypes DEF Planned, IInv, TypeOK
<1>3. PICK m \in Move : p.engine.moves = Append(moveRows, m)
  BY <1>1 DEF Planned
<1>4. PlyFree(n)
  <2>1. n = Len(moveRows) + 1
    BY <1>2, <1>3, AppendFacts
  <2>2. DOMAIN moveRows = 1..Len(moveRows)
    BY <1>2
  <2> QED
    BY <1>2, <2>1, <2>2 DEF PlyFree
<1>5. moveRows' = Append(moveRows, m) /\ engine' = p.engine /\ moveRows' # moveRows
  <2>1. moveRows' = p.engine.moves /\ engine' = p.engine
    BY <1>4, NextPly
  <2>2. Len(Append(moveRows, m)) = Len(moveRows) + 1
    BY <1>2, AppendFacts
  <2> QED
    BY <1>2, <1>3, <2>1, <2>2
<1>6. PICK k \in Move :
        /\ moveRows' = Append(moveRows, k)
        /\ \/ k \in QuietMoves /\ UNCHANGED <<status, verdict>>
           \/ k \in EndingMoves /\ status' = "completed" /\ verdict' = VerdictOf(moveRows')
  BY <1>5, MovePlayed
<1>7. /\ Len(moveRows') = Len(moveRows) + 1 /\ moveRows'[Len(moveRows')] = k
  BY <1>2, <1>6, AppendFacts
<1>8. StandingOffer' = IF StandingOffer = Atomic!Opponent(Atomic!Mover) THEN None ELSE StandingOffer
  BY <1>2, <1>5, NoneTypes, SameGame DEF StandingOffer
<1>9. Wins(Opponent(Turn(moveRows'))) = Wins(Turn(moveRows))
  <2>1. \A i \in Nat : (i + 1) % 2 = 0 <=> i % 2 # 0
    OBVIOUS
  <2>2. Len(moveRows') % 2 = 0 <=> Len(moveRows) % 2 # 0
    BY <1>2, <1>7, <2>1
  <2> QED
    BY <2>2 DEF Wins, Opponent, Turn
<1>10. CASE k \in QuietMoves /\ UNCHANGED <<status, verdict>>
  <2>1. k \notin MatingMoves /\ k \notin DrawingMoves
    BY <1>10, MovesAssumption
  <2>2. Atomic!Play(k)
    BY <1>1, <1>6, <1>8, <1>10, <2>1 DEF Atomic!Play, StandingOffer
  <2> QED
    BY <1>10, <2>2 DEF Atomic!Next
<1>11. CASE k \in MatingMoves /\ status' = "completed" /\ verdict' = VerdictOf(moveRows')
  <2>1. k \notin DrawingMoves /\ k \notin QuietMoves
    BY <1>11, MovesAssumption
  <2>2. verdict' = [result |-> Atomic!Wins(Atomic!Mover), reason |-> "checkmate"]
    BY <1>7, <1>9, <1>11, SameGame DEF VerdictOf
  <2>3. Atomic!Play(k)
    BY <1>1, <1>6, <1>8, <1>11, <2>1, <2>2 DEF Atomic!Play, Atomic!End, StandingOffer
  <2> QED
    BY <1>11, <2>3 DEF Atomic!Next
<1>12. CASE k \in DrawingMoves /\ status' = "completed" /\ verdict' = VerdictOf(moveRows')
  <2>1. k \notin MatingMoves /\ k \notin QuietMoves
    BY <1>12, MovesAssumption
  <2>2. verdict' = [result |-> "draw", reason |-> "drawn_position"]
    BY <1>7, <1>12, <2>1 DEF VerdictOf
  <2>3. Atomic!Play(k)
    BY <1>1, <1>6, <1>8, <1>12, <2>1, <2>2 DEF Atomic!Play, Atomic!End, StandingOffer
  <2> QED
    BY <1>12, <2>3 DEF Atomic!Next
<1> QED
  BY <1>6, <1>10, <1>11, <1>12 DEF EndingMoves

LEMMA AtomicOffer ==
  ASSUME IInv, SerialInv, ~ Janitor, NEW r \in Req, CommitEngine(r)
  PROVE  Atomic!Next
<1> USE DEF CommitEngine
<1> DEFINE p == req[r].plan
<1>1. p \in Plan /\ p.write = "engine" /\ Planned(p) /\ status = "active"
  BY CommitsCurrent
<1>2. engine # None /\ p.engine \in Engine /\ None \in {engine.offer, p.engine.offer}
  BY <1>1, PlanTypes DEF Planned
<1>3. engine' = p.engine /\ UNCHANGED <<moveRows, status, verdict>>
  BY <1>1 DEF StillActive
<1>4. StandingOffer' = p.engine.offer /\ StandingOffer = engine.offer
  BY <1>2, <1>3, NoneTypes DEF StandingOffer
<1>5. CASE p.engine.offer = None
  <2>1. Atomic!Decline
    BY <1>1, <1>3, <1>4, <1>5 DEF Atomic!Decline, StandingOffer
  <2> QED
    BY <2>1 DEF Atomic!Next
<1>6. CASE p.engine.offer # None
  <2>1. p.engine.offer \in Colors /\ engine.offer = None
    BY <1>2, <1>6 DEF Engine
  <2>2. Atomic!Offer(p.engine.offer)
    BY <1>1, <1>3, <1>4, <2>1 DEF Atomic!Offer, StandingOffer
  <2> QED
    BY <2>1, <2>2, SameGame DEF Atomic!Next
<1> QED
  BY <1>5, <1>6

LEMMA AtomicAbort ==
  ASSUME IInv, SerialInv, ~ Janitor, NEW r \in Req, CommitAbort(r)
  PROVE  Atomic!Next
<1>1. status = "active" /\ Len(moveRows) < AbortPlyLimit
  BY CommitsCurrent DEF CommitAbort, Planned
<1>2. /\ status' = "aborted" /\ verdict' = verdict /\ UNCHANGED <<moveRows, engine>>
  BY <1>1 DEF CommitAbort, StillActive, IInv
<1>3. Atomic!Abort
  BY <1>1, <1>2 DEF Atomic!Abort
<1> QED
  BY <1>3 DEF Atomic!Next

LEMMA AtomicStep ==
  ASSUME IInv, SerialInv, ~ Janitor, [Next]_vars
  PROVE  [Atomic!Next]_(Atomic!vars)
<1>1. ASSUME NEW r \in Req, Ensure(r)
      PROVE  UNCHANGED Atomic!vars
  <2>1. engine = None /\ engine' = NewEngine /\ NewEngine.offer = None
    BY <1>1 DEF Ensure, SerialInv, Current, NewEngine
  <2>2. StandingOffer' = None /\ StandingOffer = None
    BY <2>1 DEF StandingOffer
  <2> QED
    BY <1>1, <2>2, AtomicStutter DEF Ensure
<1>2. CASE Tick
  <2>1. StandingOffer' = StandingOffer
    <3>1. CASE engine = None
      BY <1>2, <3>1 DEF Tick, StandingOffer
    <3>2. CASE engine # None
      <4>1. engine' = Older(engine) /\ engine' # None /\ engine'.offer = engine.offer
        BY <1>2, <3>2, OlderFacts, NoneTypes DEF Tick, IInv, TypeOK
      <4> QED
        BY <3>2, <4>1 DEF StandingOffer
    <3> QED
      BY <3>1, <3>2
  <2> QED
    BY <1>2, <2>1, AtomicStutter DEF Tick
<1>3. ASSUME UNCHANGED <<moveRows, status, verdict, engine>>
      PROVE  UNCHANGED Atomic!vars
  BY <1>3, AtomicStutter DEF StandingOffer
<1>4. ASSUME NEW r \in Req, \/ \E op \in Ops, side \in Colors : Receive(r, op, side)
                            \/ Decide(r) \/ SettleRead(r) \/ Settle(r) \/ SettleFails(r)
      PROVE  UNCHANGED <<moveRows, status, verdict, engine>>
  BY <1>4 DEF Receive, Decide, SettleRead, Settle, SettleFails
<1>5. CASE Restart \/ UNCHANGED vars
  BY <1>3, <1>5 DEF Restart, vars
<1>6. ASSUME NEW r \in Req, Handle(r)
      PROVE  [Atomic!Next]_(Atomic!vars)
  BY <1>1, <1>3, <1>4, <1>6, AtomicFinalize, AtomicMove, AtomicOffer, AtomicAbort DEF Handle
<1> QED
  BY <1>2, <1>3, <1>4, <1>5, <1>6 DEF Next, SweepNeverFetched

\* With one handler at a time both players see the atomic game: the service
\* implements ChessGame.
THEOREM ImplementsChessGame ==
  ASSUME OneAtATime, ~ Janitor
  PROVE  Spec => AtomicSpec
<1>1. Init => Atomic!Init
  BY DEF Init, Atomic!Init
<1> QED
  BY <1>1, AtomicStep, Invariance, SerialInvariance, PTL DEF Spec, AtomicSpec, Atomic!Spec
===============================================================================
