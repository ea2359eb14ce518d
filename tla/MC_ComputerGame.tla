--------------------------- MODULE MC_ComputerGame ----------------------------
(* Small instances of ComputerGame for TLC. *)
EXTENDS ComputerGame, TLC

Symmetry == Permutations(Req)

\* The human has white: with the colours swapped, the game is the same.  Either
\* side moves first, and a position that is set up may be over already.
SetupsMC ==
  {[first |-> "w", human |-> "w", timed |-> TRUE,  start |-> "open"],
   [first |-> "b", human |-> "w", timed |-> FALSE, start |-> "drawn"],
   [first |-> "w", human |-> "w", timed |-> TRUE,  start |-> "mated"]}
===============================================================================
