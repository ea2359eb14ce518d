------------------------------ MODULE GameRecord ------------------------------
(***************************************************************************)
(* The part of the promise that survives any overlap of requests: the      *)
(* Move table is a game score that only grows, one ply at a time; the      *)
(* game leaves `active' once; and a game-ending move decides it for good,  *)
(* even over an earlier resignation, flag, agreement or abort.             *)
(***************************************************************************)
EXTENDS ChessClock, Sequences

CONSTANTS QuietMoves, MatingMoves, DrawingMoves, None

VARIABLES score, status, verdict

vars == <<score, status, verdict>>

Winner == IF Len(score) % 2 = 0 THEN "white_wins" ELSE "black_wins"

Over == score # << >> /\ score[Len(score)] \in MatingMoves \cup DrawingMoves

Init == score = << >> /\ status = "active" /\ verdict = None

PlayOn(m) ==
  /\ ~Over
  /\ score' = Append(score, m)
  /\ UNCHANGED <<status, verdict>>

PlayLast(m) ==
  /\ ~Over
  /\ score' = Append(score, m)
  /\ status' = "completed"
  /\ verdict' = IF m \in MatingMoves THEN [result |-> Winner, reason |-> "checkmate"]
                ELSE [result |-> "draw", reason |-> "drawn_position"]

EndOffBoard(result, reason) ==
  /\ status = "active"
  /\ status' = "completed"
  /\ verdict' = [result |-> result, reason |-> reason]
  /\ UNCHANGED score

Abort ==
  /\ status = "active"
  /\ status' = "aborted"
  /\ UNCHANGED <<score, verdict>>

Next ==
  \/ \E m \in QuietMoves : PlayOn(m)
  \/ \E m \in MatingMoves \cup DrawingMoves : PlayLast(m)
  \/ \E result \in {"white_wins", "black_wins", "draw"},
        reason \in {"timeout", "resignation", "draw_agreement"} :
       EndOffBoard(result, reason)
  \/ Abort

Spec == Init /\ [][Next]_vars
===============================================================================
