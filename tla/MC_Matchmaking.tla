---------------------------- MODULE MC_Matchmaking -----------------------------
(* Three players, ratings in hundreds and a base window of two hundred: bob *)
(* is in reach of both others (of cal just so), ann and cal are in reach of *)
(* each other only when a poll has widened the window.                      *)
EXTENDS Matchmaking, TLC

CONSTANTS ann, bob, cal

MCRating == ann :> 15 @@ bob :> 16 @@ cal :> 18

Symmetry == Permutations(Pools) \cup Permutations(Req)
===============================================================================
