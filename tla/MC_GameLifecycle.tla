---------------------------- MODULE MC_GameLifecycle ----------------------------
(* Small instances of GameLifecycle. *)
EXTENDS GameLifecycle, TLC

Symmetry == Permutations(Players) \cup Permutations(Req)
===============================================================================
