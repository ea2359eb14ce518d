------------------------------ MODULE ChessGame -------------------------------
(***************************************************************************)
(* What the server promises of one game: both players see a single game    *)
(* in which every operation happens at once, on the game as it is.         *)
(***************************************************************************)
EXTENDS ChessClock, Sequences

CONSTANTS QuietMoves, MatingMoves, DrawingMoves, None, Timed, AbortPlyLimit

VARIABLES
  moves,    \* the moves played
  offer,    \* the side whose draw offer stands, or None
  status,
  verdict

vars == <<moves, offer, status, verdict>>

Mover == IF Len(moves) % 2 = 0 THEN "w" ELSE "b"

Wins(side) == IF side = "w" THEN "white_wins" ELSE "black_wins"

Init == moves = << >> /\ offer = None /\ status = "active" /\ verdict = None

End(result, reason) ==
  /\ status' = "completed"
  /\ verdict' = [result |-> result, reason |-> reason]

\* Playing on declines the opponent's offer; one's own stays.
Play(m) ==
  /\ status = "active"
  /\ moves' = Append(moves, m)
  /\ offer' = IF offer = Opponent(Mover) THEN None ELSE offer
  /\ CASE m \in MatingMoves  -> End(Wins(Mover), "checkmate")
       [] m \in DrawingMoves -> End("draw", "drawn_position")
       [] m \in QuietMoves   -> UNCHANGED <<status, verdict>>

Offer(side) ==
  /\ status = "active"
  /\ offer = None
  /\ offer' = side
  /\ UNCHANGED <<moves, status, verdict>>

Decline ==
  /\ status = "active"
  /\ offer' = None
  /\ UNCHANGED <<moves, status, verdict>>

\* An agreement needs a standing offer.
Agree ==
  /\ status = "active"
  /\ offer # None
  /\ offer' = None
  /\ End("draw", "draw_agreement")
  /\ UNCHANGED moves

Resign(side) ==
  /\ status = "active"
  /\ offer' = None
  /\ End(Wins(Opponent(side)), "resignation")
  /\ UNCHANGED moves

\* Only the side to move can lose on time.
FlagFalls ==
  /\ status = "active"
  /\ Timed
  /\ offer' = None
  /\ End(Wins(Opponent(Mover)), "timeout")
  /\ UNCHANGED moves

Abort ==
  /\ status = "active"
  /\ Len(moves) < AbortPlyLimit
  /\ status' = "aborted"
  /\ UNCHANGED <<moves, offer, verdict>>

Next ==
  \/ \E m \in QuietMoves \cup MatingMoves \cup DrawingMoves : Play(m)
  \/ \E side \in Colors : Offer(side) \/ Resign(side)
  \/ Decline
  \/ Agree
  \/ FlagFalls
  \/ Abort

Spec == Init /\ [][Next]_vars
===============================================================================
