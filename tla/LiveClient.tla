------------------------------ MODULE LiveClient ------------------------------
(***************************************************************************)
(* The page of a live game (app/(play)/play/[gameId]/live-game-client.tsx  *)
(* with hooks/use-game-socket.ts) against the server ChessGame promises.   *)
(* Three transports carry the server's state to the page: pushes through   *)
(* the room of its socket, the answers to its polls, and the answers to    *)
(* the moves and actions the player makes.  Any of them can be delayed,    *)
(* overtaken by the others, or lost.                                       *)
(*                                                                         *)
(* A slot r \in Req, a number, holds one run of handleMove or runAction    *)
(* (the first free one takes the next), a slot g \in Gets one GET of the   *)
(* state, from when it is sent.                                            *)
(***************************************************************************)
EXTENDS ChessClock, Sequences, FiniteSets

CONSTANTS
  Req, Gets, None,
  QuietMoves, MatingMoves, DrawingMoves, Timed, AbortPlyLimit,
  Me,        \* the side the page plays
  MaxPly,    \* bound: moves played
  MaxOffers, \* bound: draw offers made
  MaxRuns,   \* bound: moves and actions the player tries
  MaxFaults  \* bound: disconnects, failed requests and lost answers

VARIABLES
  moves, offer, status, verdict,  \* the game, as the server has it
  shown,      \* state.game, as far as the staleness test can tell states apart
  preview,    \* the board shows a move the server has not confirmed
  submitting, \* state.submitting
  resync,     \* pendingResyncRef
  link,       \* the socket: "down", "up", or "in" the room of the game
  hadConnected, \* the socket has been up before
  inbox,      \* pushes on their way
  gets,       \* the GETs of the state
  runs,       \* the handlers of the player
  offers, tries, faults,  \* bounds: how often so far
  missed,     \* history: a push found no socket in the room, or a GET failed
  slipped,    \* history: the page changed before a move that was made on it was sent
  doubled     \* history: two requests of the player were under way at once

game       == <<moves, offer, status, verdict>>
page       == <<shown, preview, submitting, resync>>
connection == <<link, hadConnected>>
bounds     == <<offers, tries, faults>>
history    == <<missed, slipped, doubled>>
vars       == <<game, page, connection, inbox, gets, runs, bounds, history>>

Server == INSTANCE ChessGame

Statuses == {"active", "completed", "aborted"}

\* What the server answers and pushes; the ply is the length of the score.
Snapshot == [ply : Nat, status : Statuses, offer : Colors \cup {None}]

Current == [ply |-> Len(moves), status |-> status, offer |-> offer]

Actions == {"resign", "abort", "offer", "accept", "decline"}

Run ==
  [at : {"rules"}, before : Snapshot]
  \cup [at : {"sent", "failed"}, kind : {"move"}, before : Snapshot]
  \cup [at : {"sent", "failed"}, kind : Actions]
  \cup [at : {"answered"}, answer : Snapshot]

Get == [at : {"sent"}] \cup [at : {"answered"}, answer : Snapshot]

ASSUME PageAssumption == Me \in Colors /\ None \notin Run \cup Get

TypeOK ==
  /\ shown \in Snapshot
  /\ preview \in BOOLEAN /\ submitting \in BOOLEAN /\ resync \in BOOLEAN
  /\ link \in {"down", "up", "in"} /\ hadConnected \in BOOLEAN
  /\ inbox \subseteq Snapshot
  /\ gets \in [Gets -> Get \cup {None}]
  /\ runs \in [Req -> Run \cup {None}]
  /\ offers \in Nat /\ tries \in Nat /\ faults \in Nat
  /\ missed \in BOOLEAN /\ slipped \in BOOLEAN /\ doubled \in BOOLEAN

\* The page arrives rendered from the state the web server fetched.
Init ==
  /\ Server!Init
  /\ shown = Current
  /\ preview = FALSE /\ submitting = FALSE /\ resync = FALSE
  /\ link = "down" /\ hadConnected = FALSE
  /\ inbox = {}
  /\ gets = [g \in Gets |-> None]
  /\ runs = [r \in Req |-> None]
  /\ offers = 0 /\ tries = 0 /\ faults = 0
  /\ missed = FALSE /\ slipped = FALSE /\ doubled = FALSE

Terminal(s) == s \in {"completed", "aborted"}

Opp == Opponent(Me)

MayFail == faults < MaxFaults /\ faults' = faults + 1

-----------------------------------------------------------------------------
(* The server's side.                                                      *)

\* Every change is pushed to the room, to its author as well.
Pushed ==
  /\ inbox' = IF link = "in" THEN inbox \cup {Current'} ELSE inbox
  /\ missed' = (missed \/ link # "in")

\* What the opponent does.  A flag that falls ends the game as resigning does,
\* for all the page can tell.
OtherSide ==
  /\ \/ /\ Server!Mover = Opp
        /\ Len(moves) < MaxPly
        /\ \E m \in QuietMoves \cup MatingMoves \cup DrawingMoves : Server!Play(m)
        /\ UNCHANGED offers
     \/ /\ offers < MaxOffers
        /\ Server!Offer(Opp)
        /\ offers' = offers + 1
     \/ /\ offer = Me
        /\ Server!Decline \/ Server!Agree
        /\ UNCHANGED offers
     \/ /\ Server!Resign(Opp) \/ Server!Abort
        /\ UNCHANGED offers
  /\ Pushed
  /\ UNCHANGED <<page, connection, gets, runs, tries, faults, slipped, doubled>>

\* What the service does with a request, if it does not refuse it; the bounds
\* refuse too.  Offers that cross are an agreement.
Serves(kind) ==
  \/ /\ kind = "move" /\ Server!Mover = Me /\ Len(moves) < MaxPly
     /\ \E m \in QuietMoves \cup MatingMoves \cup DrawingMoves : Server!Play(m)
     /\ UNCHANGED offers
  \/ kind = "resign" /\ Server!Resign(Me) /\ UNCHANGED offers
  \/ kind = "abort" /\ Server!Abort /\ UNCHANGED offers
  \/ /\ kind = "offer" /\ offer = None /\ offers < MaxOffers
     /\ Server!Offer(Me)
     /\ offers' = offers + 1
  \/ kind \in {"offer", "accept"} /\ offer = Opp /\ Server!Agree /\ UNCHANGED offers
  \/ kind = "decline" /\ offer = Opp /\ Server!Decline /\ UNCHANGED offers

Refuses(kind) ==
  \/ status # "active"
  \/ kind = "move" /\ (Server!Mover # Me \/ Len(moves) >= MaxPly)
  \/ kind = "abort" /\ Len(moves) >= AbortPlyLimit
  \/ kind = "offer" /\ (offer = Me \/ (offer = None /\ offers >= MaxOffers))
  \/ kind \in {"accept", "decline"} /\ offer # Opp

Fails(r) == runs' = [runs EXCEPT ![r] = [@ EXCEPT !.at = "failed"]]

Serve(r) ==
  /\ runs[r] # None /\ runs[r].at = "sent"
  /\ \/ /\ Serves(runs[r].kind)
        /\ Pushed
        /\ \/ /\ runs' = [runs EXCEPT ![r] = [at |-> "answered", answer |-> Current']]
              /\ UNCHANGED faults
           \/ Fails(r) /\ MayFail   \* the answer is lost
     \/ /\ Refuses(runs[r].kind)
        /\ Fails(r)
        /\ UNCHANGED <<game, inbox, offers, faults, missed>>
     \/ /\ Fails(r) /\ MayFail      \* the request is lost
        /\ UNCHANGED <<game, inbox, offers, missed>>
  /\ UNCHANGED <<page, connection, gets, tries, slipped, doubled>>

AnswerGet(g) ==
  /\ gets[g] = [at |-> "sent"]
  /\ gets' = [gets EXCEPT ![g] = [at |-> "answered", answer |-> Current]]
  /\ UNCHANGED <<game, page, connection, inbox, runs, bounds, history>>

-----------------------------------------------------------------------------
(* Merging.                                                                *)

\* Mutant: an equal ply is old news, whatever else has changed.
IsStaleSamePly(cur, next) == next.ply <= cur.ply

\* Mutant: a finished game can be merged over by an active one.
IsStaleByPly(cur, next) == next.ply < cur.ply /\ next.status = cur.status

IsStale(cur, next) ==
  \/ Terminal(cur.status) /\ ~Terminal(next.status)
  \/ next.ply < cur.ply /\ next.status = cur.status

\* History: the page changes between the render a move was made on and its sending.
NotesSlip ==
  slipped' = (slipped \/ (shown' # shown /\ \E r \in Req : runs[r] # None /\ runs[r].at = "rules"))

\* The guarded merge every push and GET goes through.
Merge(next) ==
  IF submitting \/ IsStale(shown, next)
  THEN UNCHANGED <<shown, preview, slipped>>
  ELSE /\ shown' = next
       /\ preview' = FALSE
       /\ NotesSlip

SendGet(g) ==
  /\ gets[g] = None
  /\ gets' = [gets EXCEPT ![g] = [at |-> "sent"]]

\* The interval, whose answers go the way of every GET.
Poll(g) ==
  /\ SendGet(g)
  /\ UNCHANGED <<game, page, connection, inbox, runs, bounds, history>>

\* The tab is awake or online again: another GET, and a join that changes nothing.
Wake(g) ==
  /\ SendGet(g)
  /\ UNCHANGED <<game, page, connection, inbox, runs, bounds, history>>

DeliverGet(g) ==
  /\ gets[g] # None /\ gets[g].at = "answered"
  /\ Merge(gets[g].answer)
  /\ gets' = [gets EXCEPT ![g] = None]
  /\ UNCHANGED <<game, submitting, resync, connection, inbox, runs, bounds, missed, doubled>>

FailGet(g) ==
  /\ gets[g] # None
  /\ MayFail
  /\ gets' = [gets EXCEPT ![g] = None]
  /\ missed' = TRUE
  /\ UNCHANGED <<game, page, connection, inbox, runs, offers, tries, slipped, doubled>>

\* Mutant: a push that comes while submitting is forgotten.
NotNoted == resync

\* A push that comes while submitting is dropped, but noted.
NotedPush == resync \/ submitting

DeliverPush(p) ==
  /\ p \in inbox
  /\ inbox' = inbox \ {p}
  /\ resync' = NotedPush
  /\ Merge(p)
  /\ UNCHANGED <<game, submitting, connection, gets, runs, bounds, missed, doubled>>

\* The effect that runs once submitting is over.
Resync(g) ==
  /\ resync /\ ~submitting
  /\ resync' = FALSE
  /\ SendGet(g)
  /\ UNCHANGED <<game, shown, preview, submitting, connection, inbox, runs, bounds, history>>

-----------------------------------------------------------------------------
(* The socket.                                                             *)

\* connect and reconnect: the room is joined, and a reconnect refetches.
Connect ==
  /\ link = "down"
  /\ link' = "up" /\ hadConnected' = TRUE
  /\ \/ hadConnected /\ \E g \in Gets : SendGet(g)
     \/ ~hadConnected /\ UNCHANGED gets
  /\ UNCHANGED <<game, page, inbox, runs, bounds, history>>

\* The gateway has let the socket into the room.
EnterRoom ==
  /\ link = "up"
  /\ link' = "in"
  /\ UNCHANGED <<hadConnected, game, page, inbox, gets, runs, bounds, history>>

Disconnect ==
  /\ link # "down"
  /\ MayFail
  /\ link' = "down"
  /\ inbox' = {}
  /\ missed' = (missed \/ inbox # {})
  /\ UNCHANGED <<hadConnected, game, page, gets, runs, offers, tries, slipped, doubled>>

-----------------------------------------------------------------------------
(* The player.                                                             *)

Try(r, h) ==
  /\ runs[r] = None
  /\ \A q \in Req : q < r => runs[q] # None
  /\ tries < MaxRuns
  /\ tries' = tries + 1
  /\ runs' = [runs EXCEPT ![r] = h]

MyTurn == (shown.ply % 2 = 0) = (Me = "w")

\* handleMove captures the state of its render; then it waits for the rules.
\* The board takes no input while submitting, and keeps a premove for the turn.
BeginMove(r) ==
  /\ ~submitting
  /\ shown.status = "active" /\ MyTurn
  /\ Try(r, [at |-> "rules", before |-> shown])
  /\ UNCHANGED <<game, page, connection, inbox, gets, offers, faults, history>>

UnderWay == {r \in Req : runs[r] # None /\ runs[r].at # "rules"}

SendMove(r) ==
  /\ runs[r] # None /\ runs[r].at = "rules"
  /\ preview' = TRUE
  /\ submitting' = TRUE
  /\ runs' = [runs EXCEPT ![r] = [at |-> "sent", kind |-> "move", before |-> @.before]]
  /\ doubled' = (doubled \/ UnderWay # {})
  /\ UNCHANGED <<game, shown, resync, connection, inbox, gets, bounds, missed, slipped>>

\* The keys for resigning and aborting do not look at submitting.
Offered(kind) ==
  /\ shown.status = "active"
  /\ CASE kind = "resign"  -> shown.ply >= AbortPlyLimit
       [] kind = "abort"   -> shown.ply < AbortPlyLimit
       [] kind = "offer"   -> ~submitting /\ shown.offer = None /\ shown.ply >= AbortPlyLimit
       [] OTHER            -> ~submitting /\ shown.offer = Opp

BeginAction(r, kind) ==
  /\ Offered(kind)
  /\ Try(r, [at |-> "sent", kind |-> kind])
  /\ submitting' = TRUE
  /\ doubled' = (doubled \/ UnderWay # {})
  /\ UNCHANGED <<game, shown, preview, resync, connection, inbox, gets, offers, faults, missed, slipped>>

\* Mutant: a rejected move leaves the page without a game.
RollbackToLoading(r) == shown' = None /\ preview' = FALSE

\* A rejected move goes back to where it was made; an action leaves the page.
Rollback(r) ==
  IF runs[r].kind = "move"
  THEN shown' = runs[r].before /\ preview' = FALSE
  ELSE UNCHANGED <<shown, preview>>

\* The answer replaces the page; an error is followed by a GET.
Settle(r) ==
  /\ runs[r] # None
  /\ \/ /\ runs[r].at = "answered"
        /\ shown' = runs[r].answer
        /\ preview' = FALSE
        /\ UNCHANGED gets
     \/ /\ runs[r].at = "failed"
        /\ Rollback(r)
        /\ \E g \in Gets : SendGet(g)
  /\ submitting' = FALSE
  /\ NotesSlip
  /\ runs' = [runs EXCEPT ![r] = None]
  /\ UNCHANGED <<game, resync, connection, inbox, bounds, missed, doubled>>

Next ==
  \/ OtherSide
  \/ \E r \in Req : \/ BeginMove(r)
                    \/ SendMove(r)
                    \/ \E kind \in Actions : BeginAction(r, kind)
                    \/ Serve(r)
                    \/ Settle(r)
  \/ \E g \in Gets : \/ Poll(g) \/ Wake(g) \/ Resync(g)
                     \/ AnswerGet(g) \/ DeliverGet(g) \/ FailGet(g)
  \/ \E p \in inbox : DeliverPush(p)
  \/ Connect
  \/ EnterRoom
  \/ Disconnect

Spec == Init /\ [][Next]_vars

\* Requests are answered or fail, answers arrive, the interval ticks, and
\* promises resolve.  Settle is strongly fair because polls may keep taking the
\* slot its GET needs, which is a bound of the model and none of the page's.
\* Nothing makes a socket connect or a player play.
Fairness ==
  /\ WF_vars(\E r \in Req : SendMove(r) \/ Serve(r))
  /\ SF_vars(\E r \in Req : Settle(r))
  /\ WF_vars(\E g \in Gets : Poll(g) \/ AnswerGet(g) \/ DeliverGet(g))

FairSpec == Spec /\ Fairness

-----------------------------------------------------------------------------
\* No transport rewinds the board: pushes, polls and answers, in whatever order
\* they arrive, never take the page to an earlier ply or out of a finished
\* game, unless two of the player's requests overlapped or a move was rolled
\* back to a page that had changed before it was sent.
BoardNeverRewinds ==
  [][~doubled' /\ ~slipped' => /\ shown'.ply >= shown.ply
                               /\ Terminal(shown.status) => Terminal(shown'.status)]_vars

Quiet ==
  /\ ~submitting /\ ~resync
  /\ inbox = {}
  /\ \A g \in Gets : gets[g] = None
  /\ \A r \in Req : runs[r] = None

\* Nothing is lost in the window in which pushes are dropped: a page that stayed
\* in its room and waits for nothing shows the ply and the status of the game,
\* without any poll having to tell it.
QuietIsCurrent ==
  Quiet /\ ~missed /\ ~doubled =>
    /\ shown.ply = Len(moves)
    /\ shown.status = status
    /\ ~preview

\* Whatever was lost, overtaken or rolled back, the page ends up showing the
\* game, draw offer and all, and no move the server does not have.
CatchesUp == <>[](shown = Current /\ ~preview)

\* The comment on the staleness test, of every merge: no transport can rewind
\* the board.
NeverRewinds ==
  [][shown'.ply >= shown.ply /\ (Terminal(shown.status) => Terminal(shown'.status))]_vars
===============================================================================
