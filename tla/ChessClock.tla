------------------------------ MODULE ChessClock ------------------------------
(***************************************************************************)
(* The pure clock functions of the API's chess engine (engine/clock.ts).   *)
(* A clock is a value: two budgets, the instant the running budget was     *)
(* last charged, and the per-move increment.  Every function takes the     *)
(* present instant as an argument and returns a new clock.                 *)
(***************************************************************************)
EXTENDS Integers

Colors == {"w", "b"}

Opponent(side) == IF side = "w" THEN "b" ELSE "w"

Clock == [w : Int, b : Int, lastTickAt : Int, incrementMs : Nat]

MakeClock(timeMs, incrementMs, nowMs) ==
  [w |-> timeMs, b |-> timeMs, lastTickAt |-> nowMs, incrementMs |-> incrementMs]

\* What the side to move has left once the elapsed time is charged to it.
Charged(clock, nowMs, side) ==
  LET remaining == clock[side] - (nowMs - clock.lastTickAt)
  IN  IF remaining < 0 THEN 0 ELSE remaining

\* The running budget is charged; the other one is kept.
TickClock(clock, nowMs, side) ==
  IF side = "w"
  THEN [clock EXCEPT !.w = Charged(clock, nowMs, "w"), !.lastTickAt = nowMs]
  ELSE [clock EXCEPT !.b = Charged(clock, nowMs, "b"), !.lastTickAt = nowMs]

ApplyIncrement(clock, side) == [clock EXCEPT ![side] = @ + clock.incrementMs]

\* Mutant: a budget used up to the last tick has not fallen.
IsTimeoutLate(clock, nowMs, side) == clock[side] < nowMs - clock.lastTickAt

\* A budget that is exactly used up has already fallen: the test is <=.
IsTimeout(clock, nowMs, side) == clock[side] <= nowMs - clock.lastTickAt
===============================================================================
