------------------------------ MODULE QuickMatch ------------------------------
(***************************************************************************)
(* The quick-match hook of one user (hooks/use-matchmaking.ts) and what    *)
(* that user sees of the queue.  Joins, leaves, polls and pushes may be    *)
(* lost or late; the page may be cancelled, left and opened again while    *)
(* they are under way.  The server answers each request in one step here:  *)
(* the interleavings of its handlers are Matchmaking's.                    *)
(*                                                                         *)
(* Games are numbered as they are made; 0 stands for no game.              *)
(***************************************************************************)
EXTENDS Naturals, FiniteSets

CONSTANTS
  Pollers,     \* bound: the polls that may be under way at a time
  MaxRejoins,
  MaxSearches, \* bound: searches the user starts
  MaxPairings, \* bound: games made
  MaxLosses    \* bound: requests, answers and connections lost

VARIABLES
  entry,    \* the user's queue entry: "none", "fresh", or "aged" (not refreshed lately)
  claimed,  \* an opponent has claimed the entry and is making the game
  playing,  \* the user's active game
  mailbox,  \* mm:match:<user>
  phase, found, rejoins, \* the hook: state.phase, state.gameId, rejoinsRef
  wire,     \* its socket is connected
  alerts,   \* pushes on their way
  joinCall, pollCalls, leaveCalls, \* requests under way
  searches, pairings, losses,      \* bounds: how often so far
  newsLost  \* history: what the mailbox said of a game reached nobody, or a page
            \* that another answer had meanwhile made give up

queue     == <<entry, claimed, playing, mailbox, pairings>>
hook      == <<phase, found, rejoins>>
socket    == <<wire, alerts>>
calls     == <<joinCall, pollCalls, leaveCalls>>
quickVars == <<queue, hook, socket, calls, searches, losses, newsLost>>

\* A request: the answer it carries once it has one, and whether the page that
\* sent it is still there.  A page left while searching keeps its phaseRef, so
\* its poll re-joins all the same, if a re-join was left.
Unsent == [at |-> "none", game |-> 0, page |-> "here"]

Sent == [Unsent EXCEPT !.at = "sent"]

Call == [at   : {"none", "sent", "rejoin", "queued", "matched", "idle", "failed"},
         game : Nat,
         page : {"here", "left", "void"}]

Answered(c) == c.at \in {"queued", "matched", "idle", "failed"}

QuickTypeOK ==
  /\ entry \in {"none", "fresh", "aged"}
  /\ claimed \in BOOLEAN /\ wire \in BOOLEAN /\ newsLost \in BOOLEAN
  /\ phase \in {"idle", "searching", "matched", "error"}
  /\ rejoins \in 0..MaxRejoins
  /\ joinCall \in Call /\ pollCalls \in [Pollers -> Call] /\ leaveCalls \in Nat
  /\ {playing, mailbox, found} \cup alerts \subseteq 0..pairings

QuickInit ==
  /\ entry = "none" /\ claimed = FALSE /\ playing = 0 /\ mailbox = 0
  /\ phase = "idle" /\ found = 0 /\ rejoins = 0
  /\ wire = FALSE /\ alerts = {}
  /\ joinCall = Unsent /\ pollCalls = [p \in Pollers |-> Unsent] /\ leaveCalls = 0
  /\ searches = 0 /\ pairings = 0 /\ losses = 0
  /\ newsLost = FALSE

MayLose == losses < MaxLosses /\ losses' = losses + 1

-----------------------------------------------------------------------------
(* The queue.                                                              *)

\* createMatchedGame, once both players are out of the queue: the game, the
\* mailbox and the push.
Pair ==
  /\ playing = 0
  /\ pairings < MaxPairings
  /\ pairings' = pairings + 1
  /\ playing' = pairings'
  /\ mailbox' = pairings'
  /\ alerts' = IF wire THEN alerts \cup {pairings'} ELSE alerts

\* join and the re-scan of status, when somebody is waiting: a pairing, or one
\* dropped because a player turned out to be busy.
Claims(at) ==
  /\ entry' = "none"
  /\ \/ Pair /\ at = "matched"
     \/ at = "queued" /\ UNCHANGED <<playing, mailbox, pairings, alerts>>

\* join: refused while in a game.
Joins(at) ==
  \/ playing # 0 /\ at = "failed" /\ UNCHANGED <<entry, playing, mailbox, pairings, alerts>>
  \/ playing = 0 /\ Claims(at)
  \/ /\ playing = 0 /\ at = "queued"
     /\ entry' = "fresh"
     /\ UNCHANGED <<playing, mailbox, pairings, alerts>>

\* Mutant: the mailbox is read only for a user who is still queued.
ReadsMailboxLate(at) ==
  \/ /\ entry = "none" /\ at = "idle"
     /\ UNCHANGED <<entry, playing, mailbox, pairings, alerts>>
  \/ /\ entry # "none" /\ at = "queued"
     /\ entry' = "fresh"
     /\ UNCHANGED <<playing, mailbox, pairings, alerts>>
  \/ entry # "none" /\ Claims(at)

\* status: the mailbox is read and emptied; an entry is refreshed.
Looks(at) ==
  \/ /\ mailbox # 0 /\ at = "matched"
     /\ mailbox' = 0
     /\ UNCHANGED <<entry, playing, pairings, alerts>>
  \/ /\ mailbox = 0 /\ entry = "none" /\ at = "idle"
     /\ UNCHANGED <<entry, playing, mailbox, pairings, alerts>>
  \/ /\ mailbox = 0 /\ entry # "none" /\ at = "queued"
     /\ entry' = "fresh"
     /\ UNCHANGED <<playing, mailbox, pairings, alerts>>
  \/ mailbox = 0 /\ entry # "none" /\ Claims(at)

\* The answer names the mailbox that was emptied, or else the game just made.
Answer(c, at) ==
  [c EXCEPT !.at = at,
            !.game = IF at # "matched" THEN 0 ELSE IF mailbox' = 0 THEN mailbox ELSE mailbox']

\* An opponent's join claims the entry; its game follows, or fails.
ClaimUser ==
  /\ entry # "none" /\ ~claimed
  /\ entry' = "none" /\ claimed' = TRUE
  /\ UNCHANGED <<playing, mailbox, pairings, hook, socket, calls, searches, losses, newsLost>>

FinishClaim ==
  /\ claimed
  /\ claimed' = FALSE
  /\ Pair \/ UNCHANGED <<playing, mailbox, pairings, alerts>>
  /\ UNCHANGED <<entry, hook, wire, calls, searches, losses, newsLost>>

GameOver ==
  /\ playing # 0
  /\ playing' = 0
  /\ UNCHANGED <<entry, claimed, mailbox, pairings, hook, socket, calls, searches, losses, newsLost>>

\* The two TTLs.
MailboxExpires ==
  /\ mailbox # 0
  /\ mailbox' = 0
  /\ newsLost' = TRUE
  /\ UNCHANGED <<entry, claimed, playing, pairings, hook, socket, calls, searches, losses>>

EntryAges ==
  /\ entry = "fresh"
  /\ entry' = "aged"
  /\ UNCHANGED <<claimed, playing, mailbox, pairings, hook, socket, calls, searches, losses, newsLost>>

EntryExpires ==
  /\ entry = "aged"
  /\ entry' = "none"
  /\ UNCHANGED <<claimed, playing, mailbox, pairings, hook, socket, calls, searches, losses, newsLost>>

-----------------------------------------------------------------------------
(* The hook.                                                               *)

\* The effects that depend on searching: the socket and the interval go with it.
SetPhase(new) ==
  /\ phase' = new
  /\ IF new = "searching" THEN UNCHANGED socket ELSE wire' = FALSE /\ alerts' = {}

Search ==
  /\ phase \in {"idle", "error"}
  /\ joinCall = Unsent
  /\ searches < MaxSearches
  /\ searches' = searches + 1
  /\ rejoins' = 0
  /\ joinCall' = Sent
  /\ UNCHANGED <<queue, phase, found, socket, pollCalls, leaveCalls, losses, newsLost>>

\* A request that is answered, whose answer is lost (or for which the game could
\* not be made), or that is lost itself.
ServeJoin ==
  /\ joinCall.at = "sent"
  /\ \/ /\ \E at \in {"queued", "matched", "failed"} :
             /\ Joins(at)
             /\ \/ joinCall' = Answer(joinCall, at) /\ UNCHANGED losses
                \/ joinCall' = Answer(joinCall, "failed") /\ MayLose
     \/ /\ joinCall' = Answer(joinCall, "failed") /\ MayLose
        /\ UNCHANGED <<queue, alerts>>
  /\ UNCHANGED <<claimed, hook, wire, pollCalls, leaveCalls, searches, newsLost>>

DeliverJoin ==
  /\ Answered(joinCall)
  /\ joinCall' = Unsent
  /\ IF joinCall.page # "here"
     THEN UNCHANGED <<hook, socket>>
     ELSE /\ SetPhase(CASE joinCall.at = "matched" -> "matched"
                        [] joinCall.at = "queued"  -> "searching"
                        [] OTHER                   -> "error")
          /\ found' = joinCall.game
          /\ UNCHANGED rejoins
  /\ UNCHANGED <<queue, pollCalls, leaveCalls, searches, losses, newsLost>>

\* Mutant: the interval outlives the search.
NeverStops == TRUE

\* The interval runs only while searching.  It awaits none of its polls: a tick
\* comes whether or not the last one is answered.
Ticking == phase = "searching"

PollTick(p) ==
  /\ Ticking
  /\ pollCalls[p] = Unsent
  /\ pollCalls' = [pollCalls EXCEPT ![p] = Sent]
  /\ UNCHANGED <<queue, hook, socket, joinCall, leaveCalls, searches, losses, newsLost>>

ServePoll(p) ==
  /\ \/ /\ \E at \in {"queued", "matched", "idle", "failed"} :
             /\ \/ pollCalls[p].at = "sent" /\ Looks(at)
                \/ pollCalls[p].at = "rejoin" /\ Joins(at)
             /\ \/ /\ pollCalls' = [pollCalls EXCEPT ![p] = Answer(@, at)]
                   /\ newsLost' = (newsLost \/ (mailbox' < mailbox /\ pollCalls[p].page # "here"))
                   /\ UNCHANGED losses
                \/ /\ pollCalls' = [pollCalls EXCEPT ![p] = Answer(@, "failed")]
                   /\ newsLost' = (newsLost \/ mailbox' < mailbox)
                   /\ MayLose
     \/ /\ pollCalls[p].at \in {"sent", "rejoin"}
        /\ pollCalls' = [pollCalls EXCEPT ![p] = Answer(@, "failed")]
        /\ MayLose
        /\ UNCHANGED <<queue, alerts, newsLost>>
  /\ UNCHANGED <<claimed, hook, wire, joinCall, leaveCalls, searches>>

\* phaseRef.current = "searching", as the page that sent the poll sees it.
StillSearching(c) == c.page = "left" \/ (c.page = "here" /\ phase = "searching")

Rejoins(c) ==
  /\ c.at = "idle"
  /\ StillSearching(c)
  /\ c.page = "here" => rejoins < MaxRejoins

\* The polls whose answers this page will still look at.
InFlight == {p \in Pollers : pollCalls[p] # Unsent /\ pollCalls[p].page = "here"}

NewsInFlight == \E p \in InFlight : pollCalls[p].at = "matched"

DeliverPoll(p) ==
  /\ Answered(pollCalls[p])
  /\ LET c == pollCalls[p] IN
     \/ /\ Rejoins(c)
        /\ pollCalls' = [pollCalls EXCEPT ![p] = [c EXCEPT !.at = "rejoin"]]
        /\ rejoins' = IF c.page = "here" THEN rejoins + 1 ELSE rejoins
        /\ UNCHANGED <<phase, found, socket>>
     \/ /\ ~Rejoins(c)
        /\ pollCalls' = [pollCalls EXCEPT ![p] = Unsent]
        /\ IF StillSearching(c) /\ c.page = "here" /\ c.at \in {"matched", "idle"}
           THEN /\ SetPhase(IF c.at = "matched" THEN "matched" ELSE "error")
                /\ found' = c.game
           ELSE UNCHANGED <<phase, found, socket>>
        /\ UNCHANGED rejoins
  /\ newsLost' = (newsLost \/ (phase' = "error" /\ phase # "error" /\ NewsInFlight))
  /\ UNCHANGED <<queue, joinCall, leaveCalls, searches, losses>>

Cancel ==
  /\ phase = "searching"
  /\ SetPhase("idle")
  /\ found' = 0
  /\ leaveCalls' = leaveCalls + 1
  /\ UNCHANGED <<queue, rejoins, joinCall, pollCalls, searches, losses, newsLost>>

\* Leaving the page, and coming back to a new one later: only a page that was
\* searching leaves the queue.
Unmount ==
  /\ SetPhase("idle")
  /\ found' = 0 /\ rejoins' = 0
  /\ leaveCalls' = IF phase = "searching" THEN leaveCalls + 1 ELSE leaveCalls
  /\ joinCall' = IF joinCall = Unsent THEN Unsent ELSE [joinCall EXCEPT !.page = "void"]
  /\ LET left == IF phase = "searching" /\ rejoins < MaxRejoins THEN "left" ELSE "void" IN
     pollCalls' = [p \in Pollers |-> IF pollCalls[p] # Unsent /\ pollCalls[p].page = "here"
                                     THEN [pollCalls[p] EXCEPT !.page = left]
                                     ELSE pollCalls[p]]
  /\ UNCHANGED <<queue, searches, losses, newsLost>>

ServeLeave ==
  /\ leaveCalls > 0
  /\ leaveCalls' = leaveCalls - 1
  /\ \/ entry' = "none" /\ UNCHANGED losses
     \/ MayLose /\ UNCHANGED entry
  /\ UNCHANGED <<claimed, playing, mailbox, pairings, hook, socket, joinCall, pollCalls, searches, newsLost>>

WireUp ==
  /\ phase = "searching" /\ ~wire
  /\ wire' = TRUE
  /\ UNCHANGED <<queue, hook, alerts, calls, searches, losses, newsLost>>

WireDrops ==
  /\ wire
  /\ MayLose
  /\ wire' = FALSE /\ alerts' = {}
  /\ UNCHANGED <<queue, hook, calls, searches, newsLost>>

\* match:found
DeliverAlert(g) ==
  /\ g \in alerts
  /\ SetPhase("matched")
  /\ found' = g
  /\ UNCHANGED <<queue, rejoins, calls, searches, losses, newsLost>>

QuickNext ==
  \/ ClaimUser \/ FinishClaim \/ GameOver
  \/ MailboxExpires \/ EntryAges \/ EntryExpires
  \/ Search \/ ServeJoin \/ DeliverJoin
  \/ \E p \in Pollers : PollTick(p) \/ ServePoll(p) \/ DeliverPoll(p)
  \/ Cancel \/ Unmount \/ ServeLeave
  \/ WireUp \/ WireDrops
  \/ \E g \in alerts : DeliverAlert(g)

-----------------------------------------------------------------------------
\* A game made for a searching user is shown: unless they cancel, leave or the
\* game ends first, a page with a re-join to spare for each poll in flight when
\* the game is made ends up matched, pushed or not.  The interval waits for no
\* answer, so each of these polls may yet say that the entry is gone.  Excused
\* are a mailbox that expires, an answer out of it that is lost, and one
\* overtaken by a later answer that makes the page give up.
GameIsShown ==
  (/\ phase = "searching" /\ playing # 0 /\ mailbox = playing /\ ~newsLost
   /\ rejoins + Cardinality(InFlight) <= MaxRejoins)
    ~> (phase \in {"matched", "idle"} \/ playing = 0 \/ newsLost)

\* A search given up is forgotten: whatever leaves, joins and re-joins were under
\* way or lost when the user cancelled or left, their queue entry is gone in the
\* end, so nobody is paired with someone who is not there.
AbandonedIsForgotten == <>[](phase # "searching") => <>[](entry = "none")

\* The comment on the hook, that the poll recovers a missed push from the mailbox,
\* of every page that searches.
PushIsRecovered ==
  (phase = "searching" /\ playing # 0 /\ mailbox = playing /\ ~newsLost)
    ~> (phase \in {"matched", "idle"} \/ playing = 0 \/ newsLost)

\* The comment on the mailboxes, that they are for a push that was missed: a page
\* that is told of a game while it is queued is told of the game in play.
NewsIsNew ==
  [][phase = "searching" /\ phase' = "matched" /\ entry # "none" => found' = playing]_quickVars
===============================================================================
