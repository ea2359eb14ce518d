----------------------------- MODULE MC_PvpGame ------------------------------
(* Small instances of PvpGame for TLC. *)
EXTENDS PvpGame, TLC

Symmetry == Permutations(Req) \cup Permutations(QuietMoves)
===============================================================================
