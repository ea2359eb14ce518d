------------------------------ MODULE MC_Clients ------------------------------
(***************************************************************************)
(* Small instances of the two pages that live play needs in the browser:   *)
(* the search for a game and the game.  They share no state, so every      *)
(* behaviour belongs to one of them, chosen at the start, and the other    *)
(* rests.  The search comes twice: "quick" is a page that searches again   *)
(* and gets a second game, its polls one after the other, "overlap" a      *)
(* page whose polls overtake each other in one search.  The fairness of    *)
(* each counts only in its own behaviours.                                 *)
(***************************************************************************)
EXTENDS LiveClient, QuickMatch

CONSTANT OnlyPoller \* the slot of the polls that do not overlap

VARIABLE client

allVars == <<client, vars, quickVars>>

MCInit ==
  /\ client \in {"live", "quick", "overlap"}
  /\ Init /\ QuickInit

\* What each of the two searches is bounded by.
Within ==
  \/ /\ client = "quick"
     /\ \A p \in Pollers \ {OnlyPoller} : pollCalls'[p] = Unsent
  \/ /\ client = "overlap"
     /\ searches' <= 1 /\ pairings' <= 1

MCNext ==
  \/ /\ client = "live"
     /\ Next
     /\ UNCHANGED <<client, quickVars>>
  \/ /\ QuickNext
     /\ Within
     /\ UNCHANGED <<client, vars>>

MCSpec == MCInit /\ [][MCNext]_allVars

Live(A)  == client = "live" /\ A /\ UNCHANGED <<client, quickVars>>
Quick(A) == A /\ Within /\ UNCHANGED <<client, vars>>

MCFairSpec ==
  /\ MCSpec
  \* the game: see LiveClient
  /\ WF_allVars(Live(\E r \in Req : SendMove(r) \/ Serve(r)))
  /\ SF_allVars(Live(\E r \in Req : Settle(r)))
  /\ WF_allVars(Live(\E g \in Gets : Poll(g) \/ AnswerGet(g) \/ DeliverGet(g)))
  \* the search: see QuickMatch
  /\ WF_allVars(Quick(ServeJoin \/ DeliverJoin))
  /\ WF_allVars(Quick(\E p \in Pollers : PollTick(p)))
  /\ \A p \in Pollers : WF_allVars(Quick(ServePoll(p) \/ DeliverPoll(p)))
  /\ WF_allVars(Quick(EntryAges)) /\ WF_allVars(Quick(EntryExpires))
===============================================================================
