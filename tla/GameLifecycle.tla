----------------------------- MODULE GameLifecycle -----------------------------
(***************************************************************************)
(* A Game row before it is played and after (invites/invites.service.ts,   *)
(* the rematch methods of games/games.service.ts, and the sweeps of        *)
(* games/games-janitor.service.ts).                                        *)
(*                                                                         *)
(* A row is born pending, as a friend invite (with a token, one seat free) *)
(* or as the rematch of an ended game (no token, both seats taken), whose  *)
(* row links to it.  It becomes active, is played, and ends.  Play itself  *)
(* is the subject of PvpGame; here a game is fetched and ends somehow.     *)
(*                                                                         *)
(* Handlers are cut at their awaits.  A transaction is one step: its       *)
(* writes hold the row locks until it commits.                             *)
(***************************************************************************)
EXTENDS Naturals, Sequences, FiniteSets

CONSTANTS
  Players,
  Req,       \* request slots: how many handlers may overlap
  None,
  MaxInvites, \* bound: invites created
  MaxRows    \* bound: rows created

ASSUME LifecycleAssumption ==
  /\ None \notin Players
  /\ MaxInvites \in Nat
  /\ MaxRows \in Nat

VARIABLES
  rows,     \* the Game rows, in order of creation
  req,      \* the handler in each slot
  janitor   \* where the sweep stands, and the offers its scan has found

vars == <<rows, req, janitor>>

Statuses == {"pending", "active", "completed", "aborted"}

Row ==
  [ status  : Statuses,
    invite  : BOOLEAN,               \* inviteToken is set
    creator : Players,
    guest   : Players \cup {None},
    link    : Nat,                   \* rematchGameId, 0 when NULL
    by      : Players \cup {None},   \* rematchOfferedBy
    late    : BOOLEAN,               \* it has been pending for its time to live
    started : BOOLEAN,               \* startedAt is set
    parent  : Nat,                   \* history: the game it is a rematch of
    asked   : SUBSET Players ]       \* history: who asked for this rematch

Idle == [at |-> "idle"]

Handler ==
  {Idle}
  \cup [at : {"abort"}, row : Nat]
  \cup [at : {"accept", "offer", "reload"}, row : Nat, by : Players]
  \cup [at : {"agree"}, row : Nat, next : Nat, by : Players]
  \cup [at : {"decline"}, row : Nat, next : Nat]

Sweep == [at : {"off", "offers"}, found : SUBSET Nat]

\* A game that is played, or was, has two players.
Seated(row) ==
  /\ row.guest # row.creator
  /\ row.status \in {"active", "completed"} => row.started
  /\ row.started => row.guest # None

TypeOK ==
  /\ rows \in Seq({row \in Row : Seated(row)})
  /\ req \in [Req -> Handler]
  /\ janitor \in Sweep

Off == [at |-> "off", found |-> {}]

Init ==
  /\ rows = << >>
  /\ req = [r \in Req |-> Idle]
  /\ janitor = Off

Become(r, h) == req' = [req EXCEPT ![r] = h]

Seats(i) == {rows[i].creator, rows[i].guest}

-----------------------------------------------------------------------------
(* Invites.                                                                *)

CreateInvite(u) ==
  /\ Len(rows) < MaxRows
  /\ Cardinality({i \in DOMAIN rows : rows[i].invite}) < MaxInvites
  /\ rows' = Append(rows,
       [status |-> "pending", invite |-> TRUE, creator |-> u, guest |-> None,
        link |-> 0, by |-> None, late |-> FALSE, started |-> FALSE,
        parent |-> 0, asked |-> {}])
  /\ UNCHANGED <<req, janitor>>

IsPendingInvite(i) == rows[i].invite /\ rows[i].status = "pending"

\* getInviteByToken: a preview expires an old invite.
Preview(r, i) ==
  /\ req[r] = Idle
  /\ IsPendingInvite(i)
  /\ rows[i].late
  /\ Become(r, [at |-> "abort", row |-> i])
  /\ UNCHANGED <<rows, janitor>>

MayTake(i, u) == u # rows[i].creator

\* acceptInvite: an old invite expires, whoever accepts; nobody takes both seats.
AcceptInvite(r, i, u) ==
  /\ req[r] = Idle
  /\ IsPendingInvite(i)
  /\ \/ rows[i].late /\ Become(r, [at |-> "abort", row |-> i])
     \/ /\ ~ rows[i].late
        /\ MayTake(i, u)
        /\ Become(r, [at |-> "accept", row |-> i, by |-> u])
  /\ UNCHANGED <<rows, janitor>>

CancelInvite(r, i) ==
  /\ req[r] = Idle
  /\ IsPendingInvite(i)
  /\ Become(r, [at |-> "abort", row |-> i])
  /\ UNCHANGED <<rows, janitor>>

\* The abort is by id: whatever the row has become since it was read.
CommitAbort(r) ==
  /\ req[r].at = "abort"
  /\ rows' = [rows EXCEPT ![req[r].row].status = "aborted"]
  /\ Become(r, Idle)
  /\ UNCHANGED janitor

\* Mutant: the accept is by id too.
AnyStatus(i) == TRUE

StillPending(i) == rows[i].status = "pending"

CommitAccept(r) ==
  /\ req[r].at = "accept"
  /\ LET h == req[r] IN
       IF StillPending(h.row)
       THEN rows' = [rows EXCEPT ![h.row].status = "active", ![h.row].guest = h.by,
                                 ![h.row].started = TRUE, ![h.row].late = FALSE]
       ELSE UNCHANGED rows
  /\ Become(r, Idle)
  /\ UNCHANGED janitor

-----------------------------------------------------------------------------
(* Rematches.                                                              *)

Ended(i) == rows[i].status \in {"completed", "aborted"}

MayRematch(i, u) == Ended(i) /\ rows[i].guest # None /\ u \in Seats(i)

Agree(i, u) == [at |-> "agree", row |-> i, next |-> rows[i].link, by |-> u]

\* Mutant: a player may accept their own offer.
AnyOffer(i, u) == rows[i].link # 0

\* Somebody else's offer is on the row.
Offered(i, u) == rows[i].link # 0 /\ rows[i].by # u

\* rematch 'offer': of two offers the second one is an acceptance.
OfferRematch(r, i, u) ==
  /\ req[r] = Idle
  /\ MayRematch(i, u)
  /\ \/ rows[i].link = 0 /\ Become(r, [at |-> "offer", row |-> i, by |-> u])
     \/ Offered(i, u) /\ Become(r, Agree(i, u))
  /\ UNCHANGED <<rows, janitor>>

AcceptRematch(r, i, u) ==
  /\ req[r] = Idle
  /\ MayRematch(i, u)
  /\ Offered(i, u)
  /\ Become(r, Agree(i, u))
  /\ UNCHANGED <<rows, janitor>>

DeclineRematch(r, i, u) ==
  /\ req[r] = Idle
  /\ MayRematch(i, u)
  /\ rows[i].link # 0
  /\ Become(r, [at |-> "decline", row |-> i, next |-> rows[i].link])
  /\ UNCHANGED <<rows, janitor>>

\* Mutant: the offer overwrites a link that was set since the row was read.
OverwriteLink(i) == TRUE

\* The claim of the link: it is still NULL.
Unclaimed(i) == rows[i].link = 0

\* The transaction creates the game and claims the link, or is rolled back.
CommitOffer(r) ==
  /\ req[r].at = "offer"
  /\ LET i == req[r].row
         u == req[r].by
         n == Len(rows) + 1
     IN  IF Unclaimed(i)
         THEN /\ n <= MaxRows
              /\ rows' = Append([rows EXCEPT ![i].link = n, ![i].by = u],
                   [status |-> "pending", invite |-> FALSE,
                    creator |-> rows[i].guest, guest |-> rows[i].creator,
                    link |-> 0, by |-> None, late |-> FALSE, started |-> FALSE,
                    parent |-> i, asked |-> {u}])
              /\ Become(r, Idle)
         ELSE /\ Become(r, [req[r] EXCEPT !.at = "reload"])
              /\ UNCHANGED rows
  /\ UNCHANGED janitor

\* The claim was lost: if the other player won it, that is consent.
Reload(r) ==
  /\ req[r].at = "reload"
  /\ LET i == req[r].row
         u == req[r].by
     IN  Become(r, IF Offered(i, u) THEN Agree(i, u) ELSE Idle)
  /\ UNCHANGED <<rows, janitor>>

CommitAgree(r) ==
  /\ req[r].at = "agree"
  /\ LET h == req[r] IN
       IF StillPending(h.next)
       THEN rows' = [rows EXCEPT ![h.next].status = "active", ![h.next].started = TRUE,
                                 ![h.next].late = FALSE, ![h.next].asked = @ \cup {h.by}]
       ELSE UNCHANGED rows
  /\ Become(r, Idle)
  /\ UNCHANGED janitor

\* Mutant: a declined game is aborted, but stays linked.
KeepLink(i, n) == [rows EXCEPT ![n].status = "aborted"]

\* An offer is withdrawn: its game is aborted, and the link to it cleared.
Withdraw(i, n) ==
  [rows EXCEPT ![n].status = "aborted", ![i].link = 0, ![i].by = None]

\* Only a game that has not started can be declined.
CommitDecline(r) ==
  /\ req[r].at = "decline"
  /\ LET h == req[r] IN
       IF StillPending(h.next) THEN rows' = Withdraw(h.row, h.next) ELSE UNCHANGED rows
  /\ Become(r, Idle)
  /\ UNCHANGED janitor

-----------------------------------------------------------------------------
(* The janitor: offers one by one, then all invites.                       *)

IsStaleOffer(i) == ~ rows[i].invite /\ rows[i].status = "pending" /\ rows[i].late

Scan ==
  /\ janitor.at = "off"
  /\ janitor' = [at |-> "offers", found |-> {i \in DOMAIN rows : IsStaleOffer(i)}]
  /\ UNCHANGED <<rows, req>>

\* Accepted since the scan: the game is live, and its link is left.
SweepOffer(i) ==
  /\ janitor.at = "offers"
  /\ i \in janitor.found
  /\ janitor' = [janitor EXCEPT !.found = @ \ {i}]
  /\ rows' = IF StillPending(i)
             THEN [k \in DOMAIN rows |->
                    IF k = i THEN [rows[k] EXCEPT !.status = "aborted"]
                    ELSE IF rows[k].link = i THEN [rows[k] EXCEPT !.link = 0, !.by = None]
                    ELSE rows[k]]
             ELSE rows
  /\ UNCHANGED req

\* One statement; the sweep of games nobody fetched, which follows it, is a
\* step of PvpGame and here one of the ways in which a game ends.
SweepInvites ==
  /\ janitor = [at |-> "offers", found |-> {}]
  /\ rows' = [i \in DOMAIN rows |->
       IF IsPendingInvite(i) /\ rows[i].late THEN [rows[i] EXCEPT !.status = "aborted"]
       ELSE rows[i]]
  /\ janitor' = Off
  /\ UNCHANGED req

-----------------------------------------------------------------------------
(* Play, time and restarts.                                                *)

\* A game ends; a game-ending move that was on its way when another end was
\* written replaces that end (PvpGame).
EndGame(i) ==
  /\ rows[i].started
  /\ \/ /\ rows[i].status = "active"
        /\ \E s \in {"completed", "aborted"} : rows' = [rows EXCEPT ![i].status = s]
     \/ /\ rows[i].status = "aborted"
        /\ rows' = [rows EXCEPT ![i].status = "completed"]
  /\ UNCHANGED <<req, janitor>>

Age(i) ==
  /\ rows[i].status = "pending"
  /\ ~ rows[i].late
  /\ rows' = [rows EXCEPT ![i].late = TRUE]
  /\ UNCHANGED <<req, janitor>>

Restart ==
  /\ req' = [r \in Req |-> Idle]
  /\ janitor' = Off
  /\ UNCHANGED rows

Request(r, i) ==
  \/ Preview(r, i)
  \/ CancelInvite(r, i)
  \/ \E u \in Players : \/ AcceptInvite(r, i, u)
                        \/ OfferRematch(r, i, u)
                        \/ AcceptRematch(r, i, u)
                        \/ DeclineRematch(r, i, u)

Handle(r) ==
  \/ CommitAbort(r)
  \/ CommitAccept(r)
  \/ CommitOffer(r)
  \/ Reload(r)
  \/ CommitAgree(r)
  \/ CommitDecline(r)

Janitor ==
  \/ Scan
  \/ \E i \in janitor.found : SweepOffer(i)
  \/ SweepInvites

Next ==
  \/ \E u \in Players : CreateInvite(u)
  \/ \E r \in Req : Handle(r) \/ \E i \in DOMAIN rows : Request(r, i)
  \/ Janitor
  \/ \E i \in DOMAIN rows : EndGame(i) \/ Age(i)
  \/ Restart

Spec == Init /\ [][Next]_vars

-----------------------------------------------------------------------------
\* An offer can be answered: as long as a rematch is pending, the game it is
\* the rematch of links to it.
OfferIsLinked ==
  \A i \in DOMAIN rows :
    rows[i].parent # 0 /\ rows[i].status = "pending" => rows[rows[i].parent].link = i

\* No dead link: a link names a rematch of its own game that is still on offer
\* or has started.  A dead one would refuse every later offer.
LinkIsLive ==
  \A i \in DOMAIN rows :
    LET n == rows[i].link IN
    n # 0 => /\ n \in DOMAIN rows
             /\ rows[n].parent = i
             /\ rows[n].status = "pending" \/ rows[n].started

\* However offers, accepts, declines and sweeps overlap, a game has at most
\* one rematch that started.
OneRematchStarts ==
  \A i, j \in DOMAIN rows :
    i # j /\ rows[i].parent # 0 /\ rows[i].parent = rows[j].parent =>
      ~ (rows[i].started /\ rows[j].started)

\* No rematch starts without both players having asked for that very one.
BothAsked ==
  \A i \in DOMAIN rows : rows[i].parent # 0 /\ rows[i].started => rows[i].asked = Seats(i)

Stands ==
  \A i \in DOMAIN rows :
    /\ rows[i].guest # None => rows'[i].guest = rows[i].guest
    /\ Ended(i) => rows'[i].status \in {"completed", "aborted"}
    /\ Ended(i) => rows'[i].started = rows[i].started

\* Of two players who accept an invite one takes the seat and keeps it; a row
\* that ended never becomes playable again, and one that ended without having
\* started never starts.
SeatsAndEndsStand == [][Stands]_vars

\* Promise: only a pending invite is cancelled or expires.
OnlyPendingExpires ==
  [][ \A r \in Req : req[r].at = "abort" /\ rows' # rows /\ req'[r] = Idle =>
        rows[req[r].row].status = "pending" ]_vars
===============================================================================
