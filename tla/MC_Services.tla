------------------------------ MODULE MC_Services ------------------------------
(***************************************************************************)
(* Small instances of the services that share no state with each other:    *)
(* every behaviour belongs to one of them, chosen at the start, and the    *)
(* others rest.  One run explores them all, each by itself.                *)
(***************************************************************************)
EXTENDS Ratings, Presence, Streak, PuzzleProgress, TLC

VARIABLE service

CONSTANTS ann, bob, cal, s1, s2, g1, g2, g3

\* ann and bob play twice, with either colour: locked by colour, they deadlock.
MCWhite == g1 :> ann @@ g2 :> bob @@ g3 :> cal
MCBlack == g1 :> bob @@ g2 :> ann @@ g3 :> ann
MCRowId == ann :> 1 @@ bob :> 2 @@ cal :> 3

\* ann plays three games, bob one of them.
MCOwner   == s1 :> ann @@ s2 :> bob
MCMembers == g1 :> {ann, bob} @@ g2 :> {ann, cal} @@ g3 :> {ann, cal}

Init ==
  /\ service \in {"ratings", "presence", "rooms", "streak", "puzzles"}
  /\ RatingsInit /\ PresenceInit /\ StreakInit /\ PuzzleInit

\* Two instances of Presence: two sockets and two games, to tell presence, and
\* one socket and three games, to reach the limit of rooms.
TwoGames == \A r \in Req : task'[r] # None /\ task'[r].at # "closing" => task'[r].game # g3

OneSocket == link'[s2] = "new"

Next ==
  \/ /\ service = "ratings"
     /\ RatingsNext
     /\ UNCHANGED <<service, presenceVars, streakVars, puzzleVars>>
  \/ /\ service \in {"presence", "rooms"}
     /\ PresenceNext
     /\ IF service = "presence" THEN TwoGames ELSE OneSocket
     /\ UNCHANGED <<service, ratingsVars, streakVars, puzzleVars>>
  \/ /\ service = "streak"
     /\ StreakNext
     /\ UNCHANGED <<service, ratingsVars, presenceVars, puzzleVars>>
  \/ /\ service = "puzzles"
     /\ PuzzleNext
     /\ UNCHANGED <<service, ratingsVars, presenceVars, streakVars>>

Spec == Init /\ [][Next]_<<service, ratingsVars, presenceVars, streakVars, puzzleVars>>

Symmetry == Permutations(Req)
===============================================================================
