-------------------------- MODULE MC_StockfishClient ---------------------------
(* Three searches over at most two workers: one with two lines at an ELO     *)
(* level weaker than the engine has, one plain analysis at full skill, one   *)
(* hint at a low skill.                                                      *)
EXTENDS StockfishClient

CONSTANTS j1, j2, j3

MCJobs == {j1, j2, j3}

MCMultiPv == j1 :> 2 @@ j2 :> 1 @@ j3 :> 1

MCStrength ==
  j1 :> [kind |-> "elo", level |-> 1200] @@
  j2 :> [kind |-> "skill", level |-> 20] @@
  j3 :> [kind |-> "skill", level |-> 5]

AllSettled == \A j \in Jobs : phase[j] \in Settled
===============================================================================
