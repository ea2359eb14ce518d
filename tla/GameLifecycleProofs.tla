-------------------------- MODULE GameLifecycleProofs --------------------------
(***************************************************************************)
(* Theorems about GameLifecycle: for any players and any number of rows    *)
(* and overlapping handlers.                                               *)
(***************************************************************************)
EXTENDS GameLifecycle, TLAPS

GoodRow == {row \in Row : Seated(row)}

-----------------------------------------------------------------------------
(* Types.                                                                  *)

LEMMA TypeInit == Init => TypeOK
BY DEF Init, TypeOK, Handler, Idle, Sweep, Off

LEMMA RowsFacts ==
  ASSUME TypeOK
  PROVE  /\ rows \in Seq(GoodRow)
         /\ Len(rows) \in Nat
         /\ DOMAIN rows = 1..Len(rows)
         /\ \A i \in DOMAIN rows : rows[i] \in Row /\ Seated(rows[i])
BY DEF TypeOK, GoodRow

\* Rows are changed one by one and keep their shape.
LEMMA RowsType ==
  ASSUME TypeOK, rows' \in [DOMAIN rows -> GoodRow]
  PROVE  rows' \in Seq(GoodRow)
BY RowsFacts

LEMMA StatusType ==
  ASSUME NEW row \in GoodRow, NEW s \in Statuses,
         s \in {"active", "completed"} => row.started
  PROVE  [row EXCEPT !.status = s] \in GoodRow
BY DEF GoodRow, Row, Seated

LEMMA AppendType ==
  ASSUME NEW s \in Seq(GoodRow), NEW row \in GoodRow
  PROVE  /\ Append(s, row) \in Seq(GoodRow)
         /\ DOMAIN Append(s, row) = 1..(Len(s) + 1)
         /\ \A i \in DOMAIN s : Append(s, row)[i] = s[i]
         /\ Append(s, row)[Len(s) + 1] = row
OBVIOUS

-----------------------------------------------------------------------------
(* The inductive invariant.                                                *)

\* Where a handler stands tells what it knows of the rows it will write:
\* nothing it relies on can change under it.
SoundHandler(h) ==
  /\ h.at \in {"abort", "accept"} => h.row \in DOMAIN rows /\ rows[h.row].invite
  /\ h.at = "accept" => h.by \in Players /\ h.by # rows[h.row].creator
  /\ h.at \in {"offer", "reload"} =>
       h.row \in DOMAIN rows /\ rows[h.row].guest # None /\ h.by \in Seats(h.row)
  /\ h.at \in {"agree", "decline"} =>
       /\ h.row \in DOMAIN rows /\ h.next \in DOMAIN rows
       /\ rows[h.next].parent = h.row
  /\ h.at = "agree" =>
       /\ rows[h.row].guest # None /\ h.by \in Seats(h.row)
       /\ rows[h.next].status = "pending" => h.by \notin rows[h.next].asked

\* A rematch and the game it is the rematch of.
SoundRematch(i) ==
  LET x == rows[i]
      p == rows[x.parent]
  IN  /\ x.parent \in 1..(i - 1)
      /\ x.guest # None /\ p.guest # None /\ Seats(i) = Seats(x.parent)
      /\ x.status = "pending" \/ x.started => p.link = i
      /\ x.status = "pending" => x.asked = {p.by} /\ p.by \in Seats(x.parent)
      /\ x.started => x.asked = Seats(i)

SoundLink(i) ==
  LET n == rows[i].link IN
  n # 0 => /\ n \in DOMAIN rows
           /\ rows[n].parent = i
           /\ rows[n].status = "pending" \/ rows[n].started

SoundRow(i) ==
  LET x == rows[i] IN
  /\ x.status = "pending" => ~ x.started
  /\ x.invite <=> x.parent = 0
  /\ x.invite /\ x.guest # None => x.started
  /\ x.parent # 0 => SoundRematch(i)
  /\ SoundLink(i)

\* The sweep of the offers is to find no invite.
SoundJanitor == \A k \in janitor.found : k \in DOMAIN rows /\ ~ rows[k].invite

IInv ==
  /\ TypeOK
  /\ SoundJanitor
  /\ \A r \in Req : SoundHandler(req[r])
  /\ \A i \in DOMAIN rows : SoundRow(i)

\* What every step leaves of what handlers know.
Grows ==
  \A k \in DOMAIN rows :
    /\ k \in DOMAIN rows'
    /\ rows'[k].invite = rows[k].invite
    /\ rows'[k].creator = rows[k].creator
    /\ rows'[k].parent = rows[k].parent
    /\ rows[k].guest # None => rows'[k].guest = rows[k].guest
    /\ rows'[k].status = "pending" =>
         rows[k].status = "pending" /\ rows'[k].asked = rows[k].asked

LEMMA HandlerKeeps ==
  ASSUME TypeOK, Grows, NEW h \in Handler, SoundHandler(h),
         \A k \in DOMAIN rows : rows[k].invite \in BOOLEAN
  PROVE  SoundHandler(h)'
<1>1. h.at \in {"abort", "accept"} => (h.row \in DOMAIN rows /\ rows[h.row].invite)'
  BY DEF Grows, SoundHandler
<1>2. h.at = "accept" => (h.by \in Players /\ h.by # rows[h.row].creator)'
  BY DEF Grows, SoundHandler
<1>3. h.at \in {"offer", "reload"} =>
        (h.row \in DOMAIN rows /\ rows[h.row].guest # None /\ h.by \in Seats(h.row))'
  BY DEF Grows, SoundHandler, Seats
<1>4. h.at \in {"agree", "decline"} =>
        (h.row \in DOMAIN rows /\ h.next \in DOMAIN rows /\ rows[h.next].parent = h.row)'
  BY DEF Grows, SoundHandler
<1>5. h.at = "agree" =>
        (/\ rows[h.row].guest # None /\ h.by \in Seats(h.row)
         /\ rows[h.next].status = "pending" => h.by \notin rows[h.next].asked)'
  BY DEF Grows, SoundHandler, Seats
<1> QED
  BY <1>1, <1>2, <1>3, <1>4, <1>5 DEF SoundHandler

\* A step that leaves a row's part in a rematch alone: it may only end the row,
\* and not a rematch that is on offer.
Keeps(k) ==
  /\ rows'[k].invite = rows[k].invite
  /\ rows'[k].creator = rows[k].creator
  /\ rows'[k].guest = rows[k].guest
  /\ rows'[k].link = rows[k].link
  /\ rows'[k].by = rows[k].by
  /\ rows'[k].started = rows[k].started
  /\ rows'[k].parent = rows[k].parent
  /\ rows'[k].asked = rows[k].asked
  /\ rows'[k].status = "pending" => rows[k].status = "pending"
  /\ rows[k].parent # 0 /\ rows[k].status = "pending" => rows'[k].status = "pending"

LEMMA RowsKeep ==
  ASSUME IInv, DOMAIN rows' = DOMAIN rows, \A k \in DOMAIN rows : Keeps(k)
  PROVE  Grows /\ \A i \in DOMAIN rows' : SoundRow(i)'
<1>1. Grows
  BY DEF Grows, Keeps
<1>2. SUFFICES ASSUME NEW i \in DOMAIN rows PROVE SoundRow(i)'
  BY <1>1
<1>3. SoundRow(i) /\ Keeps(i) /\ DOMAIN rows = 1..Len(rows) /\ Len(rows) \in Nat
  BY RowsFacts DEF IInv
<1>4. SoundLink(i)'
  <2>1. CASE rows[i].link = 0
    BY <1>3, <2>1 DEF SoundLink, Keeps
  <2>2. CASE rows[i].link # 0
    <3>1. /\ rows[i].link \in DOMAIN rows /\ rows[rows[i].link].parent = i
          /\ rows[rows[i].link].status = "pending" \/ rows[rows[i].link].started
      BY <1>3, <2>2 DEF SoundRow, SoundLink
    <3>2. Keeps(rows[i].link) /\ i # 0
      BY <1>3, <3>1
    <3>3. /\ rows'[i].link = rows[i].link
          /\ rows'[rows[i].link].parent = i
          /\ rows'[rows[i].link].status = "pending" \/ rows'[rows[i].link].started
      BY <1>3, <3>1, <3>2 DEF Keeps
    <3> QED
      BY <3>1, <3>3 DEF SoundLink
  <2> QED
    BY <2>1, <2>2
<1>5. rows[i].parent # 0 => SoundRematch(i)'
  <2> SUFFICES ASSUME rows[i].parent # 0 PROVE SoundRematch(i)'
    OBVIOUS
  <2>1. SoundRematch(i)
    BY <1>3 DEF SoundRow
  <2>2. rows[i].parent \in DOMAIN rows
    BY <1>3, <2>1 DEF SoundRematch
  <2>3. Keeps(rows[i].parent)
    BY <2>2
  <2>4. Seats(i)' = Seats(i) /\ Seats(rows[i].parent)' = Seats(rows[i].parent)
    BY <1>3, <2>3 DEF Keeps, Seats
  <2>5. /\ rows'[i].parent = rows[i].parent /\ rows'[i].guest = rows[i].guest
        /\ rows'[i].started = rows[i].started /\ rows'[i].asked = rows[i].asked
        /\ rows'[i].status = "pending" => rows[i].status = "pending"
    BY <1>3 DEF Keeps
  <2>6. LET p == rows[i].parent
        IN  /\ rows'[p].guest = rows[p].guest /\ rows'[p].link = rows[p].link
            /\ rows'[p].by = rows[p].by
    BY <2>3 DEF Keeps
  <2>7. LET p == rows[i].parent
        IN  /\ p \in 1..(i - 1)
            /\ rows[i].guest # None /\ rows[p].guest # None /\ Seats(i) = Seats(p)
            /\ rows[i].status = "pending" \/ rows[i].started => rows[p].link = i
            /\ rows[i].status = "pending" => rows[i].asked = {rows[p].by} /\ rows[p].by \in Seats(p)
            /\ rows[i].started => rows[i].asked = Seats(i)
    BY <2>1 DEF SoundRematch
  <2>8. (Seats(rows[i].parent))' = Seats(rows[i].parent)
    BY <1>3, <2>3 DEF Keeps, Seats
  <2> QED
    BY <2>4, <2>5, <2>6, <2>7, <2>8 DEF SoundRematch
<1> QED
  BY <1>3, <1>4, <1>5 DEF SoundRow, Keeps

LEMMA SlotStep ==
  ASSUME IInv, Grows, NEW r \in Req, NEW h \in Handler, SoundHandler(h)', Become(r, h)
  PROVE  req' \in [Req -> Handler] /\ \A q \in Req : SoundHandler(req[q])'
<1>1. req' \in [Req -> Handler] /\ req'[r] = h /\ \A q \in Req \ {r} : req'[q] = req[q]
  BY DEF Become, IInv, TypeOK
<1>2. \A k \in DOMAIN rows : rows[k].invite \in BOOLEAN
  BY RowsFacts DEF IInv, Row
<1>3. ASSUME NEW q \in Req \ {r} PROVE SoundHandler(req[q])'
  <2>1. SoundHandler(req[q]) /\ req[q] \in Handler
    BY DEF IInv, TypeOK
  <2>2. PICK g \in Handler : g = req[q]
    BY <2>1
  <2>3. SoundHandler(g)
    BY <2>1, <2>2
  <2>4. SoundHandler(g)'
    BY <1>2, <2>3, HandlerKeeps DEF IInv
  <2>5. req'[q] = g
    BY <1>1, <2>2
  <2> QED
    BY <2>4, <2>5 DEF SoundHandler, Seats
<1> QED
  BY <1>1, <1>3

\* A handler that is through relies on nothing.
LEMMA IdleSound == Idle \in Handler /\ SoundHandler(Idle) /\ SoundHandler(Idle)'
BY DEF Idle, Handler, SoundHandler

LEMMA SameRows ==
  ASSUME IInv, UNCHANGED rows
  PROVE  /\ Grows
         /\ rows' \in Seq(GoodRow)
         /\ \A i \in DOMAIN rows' : SoundRow(i)'
BY DEF IInv, TypeOK, GoodRow, Grows, SoundRow, SoundRematch, SoundLink, Seats

\* The offer a row links to is somebody's: who accepts is another player.
LEMMA LinkedOffer ==
  ASSUME IInv, NEW i \in DOMAIN rows, rows[i].link # 0
  PROVE  /\ rows[i].link \in DOMAIN rows
         /\ rows[rows[i].link].parent = i
         /\ rows[rows[i].link].status = "pending" => rows[rows[i].link].asked = {rows[i].by}
<1>1. SoundRow(i) /\ i \in Nat /\ i # 0
  BY RowsFacts DEF IInv
<1>2. rows[i].link \in DOMAIN rows /\ rows[rows[i].link].parent = i
  BY <1>1 DEF SoundRow, SoundLink
<1>3. SoundRematch(rows[i].link)
  BY <1>1, <1>2 DEF IInv, SoundRow
<1> QED
  BY <1>2, <1>3 DEF SoundRematch

LEMMA AgreeSound ==
  ASSUME IInv, NEW i \in DOMAIN rows, NEW u \in Seats(i), u \in Players,
         rows[i].guest # None, Offered(i, u)
  PROVE  Agree(i, u) \in Handler /\ SoundHandler(Agree(i, u))
<1>1. i \in Nat /\ rows[i].link \in Nat
  BY RowsFacts DEF IInv, Row
<1>2. Agree(i, u) \in Handler
  BY <1>1 DEF Agree, Handler
<1>3. SoundHandler(Agree(i, u))
  BY LinkedOffer DEF Agree, SoundHandler, Offered
<1> QED
  BY <1>2, <1>3

\* What a request, or the reload of an offer, has read holds.
LEMMA RequestReads ==
  ASSUME IInv, NEW r \in Req, NEW i \in DOMAIN rows, Request(r, i)
  PROVE  /\ UNCHANGED <<rows, janitor>>
         /\ \E h \in Handler : SoundHandler(h) /\ Become(r, h)
<1>1. i \in Nat /\ i # 0 /\ SoundRow(i) /\ rows[i] \in Row /\ Seated(rows[i])
  BY RowsFacts DEF IInv
<1>2. UNCHANGED <<rows, janitor>>
  BY DEF Request, Preview, CancelInvite, AcceptInvite, OfferRematch, AcceptRematch, DeclineRematch
<1>3. ASSUME Become(r, [at |-> "abort", row |-> i]), rows[i].invite
      PROVE  \E h \in Handler : SoundHandler(h) /\ Become(r, h)
  <2>1. [at |-> "abort", row |-> i] \in Handler
    BY <1>1 DEF Handler
  <2>2. SoundHandler([at |-> "abort", row |-> i])
    BY <1>3 DEF SoundHandler
  <2> QED
    BY <1>3, <2>1, <2>2
<1>4. ASSUME NEW u \in Players, MayTake(i, u), rows[i].invite,
             Become(r, [at |-> "accept", row |-> i, by |-> u])
      PROVE  \E h \in Handler : SoundHandler(h) /\ Become(r, h)
  <2>1. [at |-> "accept", row |-> i, by |-> u] \in Handler
    BY <1>1 DEF Handler
  <2>2. SoundHandler([at |-> "accept", row |-> i, by |-> u])
    BY <1>4 DEF SoundHandler, MayTake
  <2> QED
    BY <1>4, <2>1, <2>2
<1>5. ASSUME NEW u \in Players, MayRematch(i, u), Become(r, [at |-> "offer", row |-> i, by |-> u])
      PROVE  \E h \in Handler : SoundHandler(h) /\ Become(r, h)
  <2>1. [at |-> "offer", row |-> i, by |-> u] \in Handler
    BY <1>1 DEF Handler
  <2>2. SoundHandler([at |-> "offer", row |-> i, by |-> u])
    BY <1>5 DEF SoundHandler, MayRematch
  <2> QED
    BY <1>5, <2>1, <2>2
<1>6. ASSUME NEW u \in Players, MayRematch(i, u), Offered(i, u), Become(r, Agree(i, u))
      PROVE  \E h \in Handler : SoundHandler(h) /\ Become(r, h)
  BY <1>6, AgreeSound DEF MayRematch
<1>7. ASSUME rows[i].link # 0, Become(r, [at |-> "decline", row |-> i, next |-> rows[i].link])
      PROVE  \E h \in Handler : SoundHandler(h) /\ Become(r, h)
  <2>1. [at |-> "decline", row |-> i, next |-> rows[i].link] \in Handler
    BY <1>1 DEF Handler, Row
  <2>2. SoundHandler([at |-> "decline", row |-> i, next |-> rows[i].link])
    BY <1>7, LinkedOffer DEF SoundHandler
  <2> QED
    BY <1>7, <2>1, <2>2
<1> QED
  BY <1>2, <1>3, <1>4, <1>5, <1>6, <1>7
     DEF Request, Preview, CancelInvite, AcceptInvite, OfferRematch, AcceptRematch,
         DeclineRematch, IsPendingInvite

-----------------------------------------------------------------------------
(* What each write does to the rows.                                       *)

Preserved ==
  /\ rows' \in Seq(GoodRow)
  /\ Grows
  /\ \A i \in DOMAIN rows' : SoundRow(i)'

LEMMA OneRow ==
  ASSUME TypeOK, NEW i \in DOMAIN rows, NEW row \in GoodRow, rows' = [rows EXCEPT ![i] = row]
  PROVE  /\ rows' \in Seq(GoodRow)
         /\ DOMAIN rows' = DOMAIN rows
         /\ rows'[i] = row
         /\ \A k \in DOMAIN rows \ {i} : rows'[k] = rows[k]
<1>1. rows \in [DOMAIN rows -> GoodRow]
  BY RowsFacts DEF GoodRow
<1>2. rows' \in [DOMAIN rows -> GoodRow]
  BY <1>1
<1> QED
  BY <1>1, <1>2, RowsType

LEMMA GoodRows == ASSUME IInv PROVE \A i \in DOMAIN rows : rows[i] \in GoodRow /\ SoundRow(i)
BY RowsFacts DEF IInv, GoodRow

\* One row changes, in nothing that concerns a rematch.
LEMMA OneRowKeeps ==
  ASSUME IInv, NEW i \in DOMAIN rows, NEW row \in GoodRow, rows' = [rows EXCEPT ![i] = row],
         Keeps(i)
  PROVE  Preserved
<1>1. /\ rows' \in Seq(GoodRow)
      /\ DOMAIN rows' = DOMAIN rows
      /\ \A k \in DOMAIN rows \ {i} : rows'[k] = rows[k]
  BY OneRow DEF IInv
<1>2. \A k \in DOMAIN rows : Keeps(k)
  BY <1>1 DEF Keeps
<1> QED
  BY <1>1, <1>2, RowsKeep DEF Preserved

LEMMA AgeRows ==
  ASSUME IInv, NEW i \in DOMAIN rows, Age(i)
  PROVE  Preserved
<1> DEFINE row == [rows[i] EXCEPT !.late = TRUE]
<1>1. row \in GoodRow
  BY GoodRows DEF GoodRow, Row, Seated
<1>2. rows' = [rows EXCEPT ![i] = row]
  BY DEF Age
<1>3. Keeps(i)
  BY <1>2, GoodRows DEF Keeps, GoodRow, Row
<1> QED
  BY <1>1, <1>2, <1>3, OneRowKeeps

\* A row that is not a pending rematch gets a status other than pending.
LEMMA StatusRows ==
  ASSUME IInv, NEW i \in DOMAIN rows, NEW s \in {"active", "completed", "aborted"},
         rows' = [rows EXCEPT ![i].status = s],
         s # "aborted" => rows[i].started,
         rows[i].started \/ rows[i].parent = 0
  PROVE  Preserved
<1> DEFINE row == [rows[i] EXCEPT !.status = s]
<1>1. row \in GoodRow
  BY GoodRows, StatusType DEF Statuses
<1>2. rows' = [rows EXCEPT ![i] = row]
  OBVIOUS
<1>3. rows[i].parent = 0 \/ rows[i].status # "pending"
  BY GoodRows DEF SoundRow
<1>4. Keeps(i)
  BY <1>2, <1>3, GoodRows DEF Keeps, GoodRow, Row
<1> QED
  BY <1>1, <1>2, <1>4, OneRowKeeps

LEMMA EndRows ==
  ASSUME IInv, NEW i \in DOMAIN rows, EndGame(i)
  PROVE  Preserved
BY StatusRows DEF EndGame

LEMMA AbortRows ==
  ASSUME IInv, NEW r \in Req, CommitAbort(r)
  PROVE  Preserved
<1> DEFINE i == req[r].row
<1>1. i \in DOMAIN rows /\ rows[i].invite
  BY DEF IInv, SoundHandler, CommitAbort
<1>2. rows[i].parent = 0
  BY <1>1, GoodRows DEF SoundRow
<1> QED
  BY <1>1, <1>2, StatusRows DEF CommitAbort

LEMMA SweepInvitesRows ==
  ASSUME IInv, SweepInvites
  PROVE  Preserved
<1>1. DOMAIN rows' = DOMAIN rows
  BY DEF SweepInvites
<1>2. ASSUME NEW k \in DOMAIN rows
      PROVE  rows'[k] \in GoodRow /\ Keeps(k)
  <2>1. CASE IsPendingInvite(k) /\ rows[k].late
    <3>1. rows'[k] = [rows[k] EXCEPT !.status = "aborted"]
      BY <2>1 DEF SweepInvites
    <3>2. rows[k].parent = 0
      BY <2>1, GoodRows DEF SoundRow, IsPendingInvite
    <3>3. rows'[k] \in GoodRow
      BY <3>1, GoodRows, StatusType DEF Statuses
    <3> QED
      BY <3>1, <3>2, <3>3, GoodRows DEF Keeps, GoodRow, Row
  <2>2. CASE ~ (IsPendingInvite(k) /\ rows[k].late)
    <3>1. rows'[k] = rows[k]
      BY <2>2 DEF SweepInvites
    <3> QED
      BY <3>1, GoodRows DEF Keeps
  <2> QED
    BY <2>1, <2>2
<1>3. rows' \in [DOMAIN rows -> GoodRow]
  BY <1>1, <1>2 DEF SweepInvites
<1> QED
  BY <1>1, <1>2, <1>3, RowsType, RowsKeep DEF Preserved, IInv

\* A row that is left alone stays sound if the game it is a rematch of and
\* the rematch it links to keep what matters to it.
LEMMA OtherRow ==
  ASSUME IInv, NEW k \in DOMAIN rows, k \in DOMAIN rows', rows'[k] = rows[k],
         rows[k].parent # 0 =>
           LET p == rows[k].parent
           IN  /\ rows'[p].creator = rows[p].creator /\ rows'[p].guest = rows[p].guest
               /\ rows'[p].link = rows[p].link /\ rows'[p].by = rows[p].by,
         rows[k].link # 0 =>
           LET n == rows[k].link
           IN  /\ n \in DOMAIN rows' /\ rows'[n].parent = rows[n].parent
               /\ rows'[n].status = "pending" \/ rows'[n].started
  PROVE  SoundRow(k)'
<1>1. SoundRow(k)
  BY GoodRows
<1>2. SoundLink(k)'
  BY <1>1 DEF SoundRow, SoundLink
<1>3. ASSUME rows[k].parent # 0 PROVE SoundRematch(k)'
  <2>1. SoundRematch(k)
    BY <1>1, <1>3 DEF SoundRow
  <2>2. (Seats(rows[k].parent))' = Seats(rows[k].parent) /\ Seats(k)' = Seats(k)
    BY <1>3 DEF Seats
  <2> QED
    BY <1>3, <2>1, <2>2 DEF SoundRematch
<1> QED
  BY <1>1, <1>2, <1>3 DEF SoundRow

\* A row nobody has joined is no rematch, and has none.
LEMMA FreeSeat ==
  ASSUME IInv, NEW i \in DOMAIN rows, rows[i].guest = None
  PROVE  /\ rows[i].parent = 0 /\ rows[i].link = 0
         /\ \A k \in DOMAIN rows : rows[k].parent # i /\ rows[k].link # i
<1>1. SoundRow(i) /\ i \in Nat /\ i # 0
  BY GoodRows, RowsFacts DEF IInv
<1>2. rows[i].parent = 0
  BY <1>1 DEF SoundRow, SoundRematch
<1>3. ASSUME NEW k \in DOMAIN rows PROVE rows[k].parent # i
  BY <1>1, GoodRows DEF SoundRow, SoundRematch
<1>4. rows[i].link = 0
  BY <1>1, <1>3 DEF SoundRow, SoundLink
<1>5. ASSUME NEW k \in DOMAIN rows PROVE rows[k].link # i
  BY <1>1, <1>2, GoodRows, RowsFacts DEF SoundRow, SoundLink, IInv
<1> QED
  BY <1>2, <1>3, <1>4, <1>5

LEMMA AcceptType ==
  ASSUME NEW x \in GoodRow, NEW u \in Players, u # x.creator
  PROVE  LET row == [x EXCEPT !.status = "active", !.guest = u, !.started = TRUE, !.late = FALSE]
         IN  /\ row \in GoodRow
             /\ row.status = "active" /\ row.guest = u /\ row.started
             /\ row.invite = x.invite /\ row.creator = x.creator
             /\ row.parent = x.parent /\ row.link = x.link
BY LifecycleAssumption DEF GoodRow, Row, Seated, Statuses

\* The other seat of a pending invite is taken.
LEMMA SeatRows ==
  ASSUME IInv, NEW i \in DOMAIN rows, NEW u \in Players, u # rows[i].creator,
         rows[i].invite, StillPending(i),
         rows' = [rows EXCEPT ![i].status = "active", ![i].guest = u,
                              ![i].started = TRUE, ![i].late = FALSE]
  PROVE  Preserved
<1> DEFINE row == [rows[i] EXCEPT !.status = "active", !.guest = u, !.started = TRUE,
                                  !.late = FALSE]
<1>1. rows' = [rows EXCEPT ![i] = row]
  OBVIOUS
<1>2. /\ row \in GoodRow
      /\ row.status = "active" /\ row.guest = u /\ row.started
      /\ row.invite = rows[i].invite /\ row.creator = rows[i].creator
      /\ row.parent = rows[i].parent /\ row.link = rows[i].link
  BY GoodRows, AcceptType
<1> HIDE DEF row
<1>3. /\ rows' \in Seq(GoodRow) /\ DOMAIN rows' = DOMAIN rows /\ rows'[i] = row
      /\ \A k \in DOMAIN rows \ {i} : rows'[k] = rows[k]
  BY <1>1, <1>2, OneRow DEF IInv
<1>4. rows[i].guest = None /\ rows[i].status = "pending"
  BY GoodRows DEF SoundRow, StillPending
<1>5. rows[i].link = 0 /\ rows[i].parent = 0
  BY <1>4, FreeSeat
<1>6. Grows
  BY <1>2, <1>3, <1>4 DEF Grows
<1>7. SoundRow(i)'
  BY <1>2, <1>3, <1>5 DEF SoundRow, SoundLink
<1>8. ASSUME NEW k \in DOMAIN rows \ {i} PROVE SoundRow(k)'
  <2>1. rows[k].parent # i /\ rows[k].link # i
    BY <1>4, FreeSeat
  <2>2. rows[k].parent # 0 => rows[k].parent \in DOMAIN rows
    BY GoodRows, RowsFacts DEF SoundRow, SoundRematch, IInv
  <2>3. rows[k].link # 0 =>
          LET n == rows[k].link
          IN  n \in DOMAIN rows /\ (rows[n].status = "pending" \/ rows[n].started)
    BY GoodRows DEF SoundRow, SoundLink
  <2> QED
    BY <1>3, <2>1, <2>2, <2>3, OtherRow
<1> QED
  BY <1>3, <1>6, <1>7, <1>8 DEF Preserved

LEMMA AcceptRows ==
  ASSUME IInv, NEW r \in Req, CommitAccept(r)
  PROVE  Preserved
<1>1. /\ req[r].row \in DOMAIN rows /\ rows[req[r].row].invite
      /\ req[r].by \in Players /\ req[r].by # rows[req[r].row].creator
  BY DEF IInv, SoundHandler, CommitAccept
<1>2. CASE ~ StillPending(req[r].row)
  BY <1>2, SameRows DEF CommitAccept, Preserved
<1>3. CASE StillPending(req[r].row)
  BY <1>1, <1>3, SeatRows DEF CommitAccept
<1> QED
  BY <1>2, <1>3

\* A pending rematch starts: who agrees is the player who had not asked.
LEMMA StartRows ==
  ASSUME IInv, NEW n \in DOMAIN rows, NEW u \in Seats(rows[n].parent),
         rows[n].parent # 0, StillPending(n), u \notin rows[n].asked,
         rows' = [rows EXCEPT ![n].status = "active", ![n].started = TRUE,
                              ![n].late = FALSE, ![n].asked = @ \cup {u}]
  PROVE  Preserved
<1> DEFINE row == [rows[n] EXCEPT !.status = "active", !.started = TRUE,
                                  !.late = FALSE, !.asked = @ \cup {u}]
<1>1. rows' = [rows EXCEPT ![n] = row]
  OBVIOUS
<1>2. SoundRow(n) /\ SoundRematch(n) /\ rows[n] \in Row /\ Seated(rows[n]) /\ n \in Nat
  BY GoodRows, RowsFacts DEF SoundRow, IInv
<1>3. PICK p \in DOMAIN rows : p = rows[n].parent /\ p \in 1..(n - 1)
  BY <1>2, RowsFacts DEF SoundRematch, IInv
<1>4. rows[p] \in Row /\ Seated(rows[p])
  BY RowsFacts DEF IInv
<1>5. /\ rows[n].guest # None /\ rows[p].guest # None /\ Seats(n) = Seats(p)
      /\ rows[n].asked = {rows[p].by} /\ rows[p].by \in Seats(p)
      /\ rows[p].link = n
  BY <1>2, <1>3 DEF SoundRematch, StillPending
<1>6. /\ u \in Seats(n) /\ u \in Players /\ rows[n].asked \cup {u} = Seats(n)
      /\ rows[n].asked \cup {u} \in SUBSET Players
  BY <1>2, <1>3, <1>4, <1>5 DEF Seats, Row, Seated
<1>7. /\ row \in GoodRow
      /\ row.status = "active" /\ row.started /\ row.asked = Seats(n)
      /\ row.invite = rows[n].invite /\ row.creator = rows[n].creator
      /\ row.guest = rows[n].guest /\ row.parent = rows[n].parent
      /\ row.link = rows[n].link
  BY <1>2, <1>5, <1>6 DEF GoodRow, Row, Seated, Statuses
<1> HIDE DEF row
<1>8. /\ rows' \in Seq(GoodRow) /\ DOMAIN rows' = DOMAIN rows /\ rows'[n] = row
      /\ \A k \in DOMAIN rows \ {n} : rows'[k] = rows[k]
  BY <1>1, <1>7, OneRow DEF IInv
<1>9. Grows
  BY <1>7, <1>8 DEF Grows
<1>10. SoundRow(n)'
  <2>1. Seats(n)' = Seats(n) /\ Seats(p)' = Seats(p)
    BY <1>3, <1>7, <1>8 DEF Seats
  <2>2. SoundRematch(n)'
    <3>1. p # n /\ rows'[p] = rows[p]
      BY <1>3, <1>8, <1>2
    <3>2. (Seats(rows[n].parent))' = Seats(n)
      BY <1>3, <1>5, <1>7, <1>8, <3>1 DEF Seats
    <3> QED
      BY <1>2, <1>3, <1>5, <1>7, <1>8, <2>1, <3>1, <3>2 DEF SoundRematch
  <2>3. SoundLink(n)'
    <3>1. SoundLink(n)
      BY <1>2 DEF SoundRow
    <3>2. rows[n].link # n
      BY <1>2, <1>3, <3>1 DEF SoundLink
    <3>3. rows'[n].link = rows[n].link
      BY <1>7, <1>8
    <3>4. rows[n].link # 0 => rows'[rows[n].link] = rows[rows[n].link]
      BY <1>8, <3>1, <3>2 DEF SoundLink
    <3> QED
      BY <1>8, <3>1, <3>3, <3>4 DEF SoundLink
  <2> QED
    BY <1>2, <1>7, <1>8, <2>2, <2>3 DEF SoundRow
<1>11. ASSUME NEW k \in DOMAIN rows \ {n} PROVE SoundRow(k)'
  <2>1. rows[k].parent # 0 => rows[k].parent \in DOMAIN rows
    BY GoodRows, RowsFacts DEF SoundRow, SoundRematch, IInv
  <2>2. rows[k].link # 0 =>
          LET m == rows[k].link
          IN  m \in DOMAIN rows /\ (rows[m].status = "pending" \/ rows[m].started)
    BY GoodRows DEF SoundRow, SoundLink
  <2>3. rows'[n].creator = rows[n].creator /\ rows'[n].guest = rows[n].guest
        /\ rows'[n].link = rows[n].link /\ rows'[n].by = rows[n].by
        /\ rows'[n].parent = rows[n].parent /\ rows'[n].started
    BY <1>7, <1>8 DEF row
  <2> QED
    BY <1>8, <2>1, <2>2, <2>3, OtherRow
<1> QED
  BY <1>8, <1>9, <1>10, <1>11 DEF Preserved

LEMMA AgreeRows ==
  ASSUME IInv, NEW r \in Req, CommitAgree(r)
  PROVE  Preserved
<1>1. SoundHandler(req[r]) /\ req[r].at = "agree"
  BY DEF IInv, CommitAgree
<1>2. CASE ~ StillPending(req[r].next)
  BY <1>2, SameRows DEF CommitAgree, Preserved
<1>3. CASE StillPending(req[r].next)
  <2>1. /\ req[r].row \in DOMAIN rows /\ req[r].next \in DOMAIN rows
        /\ rows[req[r].next].parent = req[r].row /\ req[r].row # 0
        /\ req[r].by \in Seats(req[r].row)
        /\ req[r].by \notin rows[req[r].next].asked
    BY <1>1, <1>3, RowsFacts DEF SoundHandler, StillPending, IInv
  <2>2. PICK n \in DOMAIN rows : n = req[r].next
    BY <2>1
  <2>3. PICK u \in Seats(rows[n].parent) : u = req[r].by
    BY <2>1, <2>2
  <2>4. rows' = [rows EXCEPT ![n].status = "active", ![n].started = TRUE,
                             ![n].late = FALSE, ![n].asked = @ \cup {u}]
    BY <1>3, <2>2, <2>3 DEF CommitAgree
  <2>5. rows[n].parent # 0 /\ StillPending(n) /\ u \notin rows[n].asked
    BY <1>3, <2>1, <2>2, <2>3
  <2> QED
    BY <2>4, <2>5, StartRows
<1> QED
  BY <1>2, <1>3

\* A rematch is offered: a row for it, and the link to it where there was none.
LEMMA LinkRows ==
  ASSUME IInv, NEW i \in DOMAIN rows, NEW u \in Seats(i), NEW n, n = Len(rows) + 1,
         rows[i].guest # None, Unclaimed(i),
         rows' = Append([rows EXCEPT ![i].link = n, ![i].by = u],
                   [status |-> "pending", invite |-> FALSE,
                    creator |-> rows[i].guest, guest |-> rows[i].creator,
                    link |-> 0, by |-> None, late |-> FALSE, started |-> FALSE,
                    parent |-> i, asked |-> {u}])
  PROVE  Preserved
<1> DEFINE old == [rows[i] EXCEPT !.link = n, !.by = u]
           new == [status |-> "pending", invite |-> FALSE,
                   creator |-> rows[i].guest, guest |-> rows[i].creator,
                   link |-> 0, by |-> None, late |-> FALSE, started |-> FALSE,
                   parent |-> i, asked |-> {u}]
           mid == [rows EXCEPT ![i] = old]
<1>1. /\ SoundRow(i) /\ rows[i] \in Row /\ Seated(rows[i]) /\ i \in 1..(n - 1)
      /\ n \in Nat /\ n # 0 /\ DOMAIN rows = 1..(n - 1)
      /\ u \in Players /\ i \in Nat
  BY GoodRows, RowsFacts, LifecycleAssumption DEF IInv, Seats, Row
<1>2. /\ old \in GoodRow /\ old.link = n /\ old.by = u
      /\ old.status = rows[i].status /\ old.started = rows[i].started
      /\ old.invite = rows[i].invite /\ old.creator = rows[i].creator
      /\ old.guest = rows[i].guest /\ old.parent = rows[i].parent
      /\ old.asked = rows[i].asked
  BY <1>1 DEF GoodRow, Row, Seated
<1>3. new \in GoodRow
  BY <1>1 DEF GoodRow, Row, Seated, Statuses
<1>4. /\ new.status = "pending" /\ ~ new.invite /\ ~ new.started /\ new.link = 0
      /\ new.creator = rows[i].guest /\ new.guest = rows[i].creator
      /\ new.parent = i /\ new.asked = {u}
  OBVIOUS
<1>5. rows' = Append(mid, new)
  OBVIOUS
<1> HIDE DEF old, new
<1>6. /\ mid \in Seq(GoodRow) /\ Len(mid) = n - 1 /\ DOMAIN mid = 1..(n - 1)
      /\ mid[i] = old /\ \A k \in DOMAIN rows \ {i} : mid[k] = rows[k]
  <2>1. rows \in Seq(GoodRow) /\ Len(rows) = n - 1
    BY <1>1, RowsFacts DEF IInv
  <2> QED
    BY <1>1, <1>2, <2>1
<1> HIDE DEF mid
<1>7. /\ rows' \in Seq(GoodRow) /\ DOMAIN rows' = 1..n
      /\ rows'[n] = new /\ rows'[i] = old
      /\ \A k \in DOMAIN rows \ {i} : rows'[k] = rows[k]
  <2>1. n = Len(mid) + 1
    BY <1>1, <1>6
  <2>2. /\ rows' \in Seq(GoodRow) /\ DOMAIN rows' = 1..(Len(mid) + 1)
        /\ \A k \in DOMAIN mid : rows'[k] = mid[k]
        /\ rows'[Len(mid) + 1] = new
    <3>1. mid \in Seq(GoodRow)
      BY <1>6
    <3>2. LET s == Append(mid, new)
          IN  /\ s \in Seq(GoodRow) /\ DOMAIN s = 1..(Len(mid) + 1)
              /\ \A k \in DOMAIN mid : s[k] = mid[k]
              /\ s[Len(mid) + 1] = new
      BY <1>3, <3>1, AppendType, Zenon
    <3> QED
      BY <1>5, <3>2, Zenon
  <2> QED
    BY <1>1, <1>6, <2>1, <2>2
<1>8. Grows
  BY <1>1, <1>2, <1>7 DEF Grows
<1>9. Seats(n)' = Seats(i) /\ Seats(i)' = Seats(i)
  BY <1>2, <1>4, <1>7 DEF Seats
<1>10. SoundRow(n)'
  <2>1. rows[i].creator # None
    BY <1>1, LifecycleAssumption DEF Row
  <2>2. (Seats(rows[n].parent))' = Seats(i)
    BY <1>4, <1>7, <1>2 DEF Seats
  <2>3. SoundRematch(n)'
    BY <1>1, <1>2, <1>4, <1>7, <1>9, <2>1, <2>2 DEF SoundRematch
  <2>4. SoundLink(n)'
    BY <1>4, <1>7 DEF SoundLink
  <2> QED
    BY <1>1, <1>4, <1>7, <2>3, <2>4 DEF SoundRow
<1>11. SoundRow(i)'
  <2>1. SoundLink(i)'
    BY <1>1, <1>2, <1>4, <1>7 DEF SoundLink
  <2>2. ASSUME rows[i].parent # 0 PROVE SoundRematch(i)'
    <3>1. SoundRematch(i)
      BY <1>1, <2>2 DEF SoundRow
    <3>2. PICK p \in DOMAIN rows \ {i} : p = rows[i].parent /\ p \in 1..(i - 1)
      BY <1>1, <3>1 DEF SoundRematch
    <3>3. rows'[p] = rows[p] /\ rows'[i].parent = p
      BY <1>2, <1>7, <3>2
    <3>4. (Seats(rows[i].parent))' = Seats(p)
      BY <3>3 DEF Seats
    <3> QED
      BY <1>2, <1>7, <1>9, <3>1, <3>2, <3>3, <3>4 DEF SoundRematch
  <2> QED
    BY <1>1, <1>2, <1>7, <2>1, <2>2 DEF SoundRow
<1>12. ASSUME NEW k \in DOMAIN rows \ {i} PROVE SoundRow(k)'
  <2>1. SoundRow(k) /\ rows'[k] = rows[k] /\ k \in Nat /\ k # 0 /\ k # n
    BY <1>1, <1>7, GoodRows
  <2>2. SoundLink(k)'
    <3>1. CASE rows[k].link = 0
      BY <2>1, <3>1 DEF SoundLink
    <3>2. CASE rows[k].link # 0
      <4>1. PICK m \in DOMAIN rows : /\ m = rows[k].link /\ rows[m].parent = k
                                     /\ rows[m].status = "pending" \/ rows[m].started
        BY <2>1, <3>2 DEF SoundRow, SoundLink
      <4>2. /\ m \in DOMAIN rows' /\ rows'[m].parent = k
            /\ rows'[m].status = "pending" \/ rows'[m].started
        BY <1>1, <1>2, <1>7, <4>1
      <4> QED
        BY <2>1, <4>1, <4>2 DEF SoundLink
    <3> QED
      BY <3>1, <3>2
  <2>3. ASSUME rows[k].parent # 0 PROVE SoundRematch(k)'
    <3>1. SoundRematch(k)
      BY <2>1, <2>3 DEF SoundRow
    <3>2. PICK p \in DOMAIN rows : p = rows[k].parent /\ p \in 1..(k - 1)
      BY <1>1, <2>1, <3>1 DEF SoundRematch
    <3>3. Seats(k)' = Seats(k) /\ (Seats(rows[k].parent))' = Seats(p)
      BY <1>2, <1>7, <2>1, <3>2 DEF Seats
    <3>4. CASE p = i
      <4>1. rows[k].status # "pending" /\ ~ rows[k].started
        BY <1>1, <2>1, <3>1, <3>2, <3>4 DEF SoundRematch, Unclaimed
      <4>2. rows'[p].guest # None
        BY <1>2, <1>7, <3>4
      <4> QED
        BY <2>1, <3>1, <3>2, <3>3, <4>1, <4>2 DEF SoundRematch
    <3>5. CASE p # i
      <4>1. rows'[p] = rows[p]
        BY <1>7, <3>5
      <4> QED
        BY <2>1, <3>1, <3>2, <3>3, <4>1 DEF SoundRematch
    <3> QED
      BY <3>4, <3>5
  <2> QED
    BY <2>1, <2>2, <2>3 DEF SoundRow
<1> QED
  BY <1>1, <1>7, <1>8, <1>10, <1>11, <1>12 DEF Preserved

LEMMA OfferRows ==
  ASSUME IInv, NEW r \in Req, CommitOffer(r)
  PROVE  Preserved
<1>1. SoundHandler(req[r]) /\ req[r].at = "offer"
  BY DEF IInv, CommitOffer
<1>2. CASE ~ Unclaimed(req[r].row)
  BY <1>2, SameRows DEF CommitOffer, Preserved
<1>3. CASE Unclaimed(req[r].row)
  <2>1. PICK i \in DOMAIN rows : i = req[r].row
    BY <1>1 DEF SoundHandler
  <2>2. PICK u \in Seats(i) : u = req[r].by
    BY <1>1, <2>1 DEF SoundHandler
  <2>3. rows[i].guest # None /\ Unclaimed(i)
    BY <1>1, <1>3, <2>1 DEF SoundHandler
  <2>4. PICK n : n = Len(rows) + 1
    OBVIOUS
  <2>5. rows' = Append([rows EXCEPT ![i].link = n, ![i].by = u],
                   [status |-> "pending", invite |-> FALSE,
                    creator |-> rows[i].guest, guest |-> rows[i].creator,
                    link |-> 0, by |-> None, late |-> FALSE, started |-> FALSE,
                    parent |-> i, asked |-> {u}])
    BY <1>3, <2>1, <2>2, <2>4 DEF CommitOffer
  <2> QED
    BY <2>3, <2>4, <2>5, LinkRows
<1> QED
  BY <1>2, <1>3

LEMMA CreateRows ==
  ASSUME IInv, NEW v \in Players, CreateInvite(v)
  PROVE  Preserved
<1> DEFINE new == [status |-> "pending", invite |-> TRUE, creator |-> v, guest |-> None,
                   link |-> 0, by |-> None, late |-> FALSE, started |-> FALSE,
                   parent |-> 0, asked |-> {}]
<1>1. new \in GoodRow
  BY LifecycleAssumption DEF GoodRow, Row, Seated, Statuses
<1>2. /\ new.status = "pending" /\ new.invite /\ ~ new.started /\ new.link = 0
      /\ new.guest = None /\ new.parent = 0
  OBVIOUS
<1>3. rows' = Append(rows, new)
  BY DEF CreateInvite
<1> HIDE DEF new
<1>4. PICK n : n = Len(rows) + 1
  OBVIOUS
<1>5. /\ rows' \in Seq(GoodRow) /\ DOMAIN rows' = 1..n /\ rows'[n] = new
      /\ \A k \in DOMAIN rows : rows'[k] = rows[k]
      /\ DOMAIN rows = 1..(n - 1) /\ n \in Nat
  BY <1>1, <1>3, <1>4, AppendType, RowsFacts DEF IInv
<1>6. Grows
  BY <1>5 DEF Grows
<1>7. SoundRow(n)'
  BY <1>2, <1>5 DEF SoundRow, SoundLink
<1>8. ASSUME NEW k \in DOMAIN rows PROVE SoundRow(k)'
  <2>1. rows[k].parent # 0 => rows[k].parent \in DOMAIN rows
    BY GoodRows, RowsFacts DEF SoundRow, SoundRematch, IInv
  <2>2. rows[k].link # 0 =>
          LET m == rows[k].link
          IN  m \in DOMAIN rows /\ (rows[m].status = "pending" \/ rows[m].started)
    BY GoodRows DEF SoundRow, SoundLink
  <2> QED
    BY <1>5, <2>1, <2>2, OtherRow
<1> QED
  BY <1>5, <1>6, <1>7, <1>8 DEF Preserved

\* A pending offer is withdrawn: the game it is the rematch of has no other.
LEMMA WithdrawRows ==
  ASSUME IInv, NEW n \in DOMAIN rows, NEW i \in DOMAIN rows, rows[n].parent = i,
         StillPending(n), rows' = Withdraw(i, n)
  PROVE  Preserved
<1> DEFINE new == [rows[n] EXCEPT !.status = "aborted"]
           old == [rows[i] EXCEPT !.link = 0, !.by = None]
<1>1. /\ n \in Nat /\ n # 0 /\ i \in Nat /\ i # 0 /\ i \in 1..(n - 1) /\ i # n
      /\ SoundRow(n) /\ SoundRematch(n) /\ SoundRow(i)
      /\ rows[n].status = "pending" /\ ~ rows[n].started /\ rows[i].link = n
      /\ rows[n] \in Row /\ Seated(rows[n]) /\ rows[i] \in Row /\ Seated(rows[i])
  BY GoodRows, RowsFacts DEF SoundRow, SoundRematch, StillPending, IInv
<1>2. /\ new \in GoodRow /\ new.status = "aborted" /\ new.started = rows[n].started
      /\ new.invite = rows[n].invite /\ new.creator = rows[n].creator
      /\ new.guest = rows[n].guest /\ new.parent = rows[n].parent
      /\ new.asked = rows[n].asked /\ new.link = rows[n].link /\ new.by = rows[n].by
  BY <1>1 DEF GoodRow, Row, Seated, Statuses
<1>3. /\ old \in GoodRow /\ old.link = 0
      /\ old.status = rows[i].status /\ old.started = rows[i].started
      /\ old.invite = rows[i].invite /\ old.creator = rows[i].creator
      /\ old.guest = rows[i].guest /\ old.parent = rows[i].parent
      /\ old.asked = rows[i].asked
  BY <1>1 DEF GoodRow, Row, Seated
<1>4. rows \in [DOMAIN rows -> GoodRow]
  BY GoodRows, RowsFacts DEF IInv
<1>5. /\ DOMAIN rows' = DOMAIN rows /\ rows'[n] = new /\ rows'[i] = old
      /\ \A k \in DOMAIN rows \ {i, n} : rows'[k] = rows[k]
      /\ rows' = [k \in DOMAIN rows |-> rows'[k]]
  BY <1>1, <1>4 DEF Withdraw
<1> HIDE DEF old, new
<1>6. rows' \in Seq(GoodRow)
  <2>1. \A k \in DOMAIN rows : rows'[k] \in GoodRow
    BY <1>2, <1>3, <1>4, <1>5
  <2>2. rows' \in [DOMAIN rows -> GoodRow]
    BY <1>5, <2>1
  <2> QED
    BY <2>2, RowsType DEF IInv
<1>7. Grows
  BY <1>1, <1>2, <1>3, <1>5 DEF Grows
<1>8. Seats(n)' = Seats(n) /\ Seats(i)' = Seats(i)
  BY <1>2, <1>3, <1>5 DEF Seats
<1>9. ASSUME NEW k \in DOMAIN rows PROVE Seats(k)' = Seats(k)
  BY <1>5, <1>8, <1>9 DEF Seats
<1>10. ASSUME NEW k \in DOMAIN rows PROVE SoundRow(k)'
  <2>1. SoundRow(k) /\ k \in Nat /\ k # 0
    BY <1>10, GoodRows, RowsFacts DEF IInv
  <2>2. /\ rows'[k].parent = rows[k].parent /\ rows'[k].invite = rows[k].invite
        /\ rows'[k].guest = rows[k].guest /\ rows'[k].started = rows[k].started
        /\ rows'[k].asked = rows[k].asked
        /\ rows'[k].status = "pending" => rows[k].status = "pending"
        /\ k = n => rows'[k].status = "aborted"
        /\ k # i => rows'[k].link = rows[k].link /\ rows'[k].by = rows[k].by
        /\ k # n => rows'[k].status = rows[k].status
        /\ k = i => rows'[k].link = 0
    BY <1>1, <1>2, <1>3, <1>5
  <2>3. SoundLink(k)'
    <3>1. CASE k = i \/ rows[k].link = 0
      BY <2>2, <3>1 DEF SoundLink
    <3>2. CASE k # i /\ rows[k].link # 0
      <4>1. PICK m \in DOMAIN rows : /\ m = rows[k].link /\ rows[m].parent = k
                                     /\ rows[m].status = "pending" \/ rows[m].started
        BY <2>1, <3>2 DEF SoundRow, SoundLink
      <4>2. m # n
        BY <3>2, <4>1
      <4>3. rows'[m].parent = k /\ (rows'[m].status = "pending" \/ rows'[m].started)
        BY <1>3, <1>5, <4>1, <4>2
      <4> QED
        BY <1>5, <2>2, <3>2, <4>1, <4>3 DEF SoundLink
    <3> QED
      BY <3>1, <3>2
  <2>4. ASSUME rows[k].parent # 0 PROVE SoundRematch(k)'
    <3>1. SoundRematch(k)
      BY <2>1, <2>4 DEF SoundRow
    <3>2. PICK p \in DOMAIN rows : p = rows[k].parent /\ p \in 1..(k - 1)
      BY <2>1, <3>1, RowsFacts DEF SoundRematch, IInv
    <3>3. Seats(k)' = Seats(k) /\ Seats(p)' = Seats(p) /\ (Seats(rows[k].parent))' = Seats(p)'
      BY <1>9, <2>2, <3>2 DEF Seats
    <3>4. rows'[p].guest = rows[p].guest
      BY <1>2, <1>3, <1>5
    <3>5. CASE p = i
      <4>1. rows'[k].status # "pending" /\ ~ rows'[k].started
        BY <1>1, <2>2, <3>1, <3>2, <3>5 DEF SoundRematch
      <4> QED
        BY <2>2, <3>1, <3>2, <3>3, <3>4, <4>1 DEF SoundRematch
    <3>6. CASE p # i
      <4>1. rows'[p].link = rows[p].link /\ rows'[p].by = rows[p].by
        BY <1>2, <1>5, <3>6
      <4> QED
        BY <2>2, <3>1, <3>2, <3>3, <3>4, <4>1 DEF SoundRematch
    <3> QED
      BY <3>5, <3>6
  <2> QED
    BY <2>1, <2>2, <2>3, <2>4 DEF SoundRow
<1> QED
  BY <1>5, <1>6, <1>7, <1>10 DEF Preserved

LEMMA DeclineRows ==
  ASSUME IInv, NEW r \in Req, CommitDecline(r)
  PROVE  Preserved
<1>1. SoundHandler(req[r]) /\ req[r].at = "decline"
  BY DEF IInv, CommitDecline
<1>2. CASE ~ StillPending(req[r].next)
  BY <1>2, SameRows DEF CommitDecline, Preserved
<1>3. CASE StillPending(req[r].next)
  BY <1>1, <1>3, WithdrawRows DEF CommitDecline, SoundHandler
<1> QED
  BY <1>2, <1>3

\* The row that links to a stale offer is the game it is the rematch of.
LEMMA SweepOfferRows ==
  ASSUME IInv, NEW n \in janitor.found, SweepOffer(n)
  PROVE  Preserved
<1>1. n \in DOMAIN rows /\ ~ rows[n].invite /\ SoundRow(n) /\ n \in Nat /\ n # 0
  BY GoodRows, RowsFacts DEF IInv, SoundJanitor
<1>2. CASE ~ StillPending(n)
  BY <1>2, SameRows DEF SweepOffer, Preserved
<1>3. CASE StillPending(n)
  <2>1. SoundRematch(n) /\ rows[n].parent # 0
    BY <1>1, GoodRows DEF SoundRow
  <2>2. PICK i \in DOMAIN rows : i = rows[n].parent /\ i # n /\ rows[i].link = n
    BY <1>1, <1>3, <2>1, RowsFacts DEF SoundRematch, StillPending, IInv
  <2>3. \A k \in DOMAIN rows : rows[k].link = n => k = i
    BY <1>1, <2>2, GoodRows DEF SoundRow, SoundLink
  <2>4. rows' = [k \in DOMAIN rows |->
                  IF k = n THEN [rows[k] EXCEPT !.status = "aborted"]
                  ELSE IF rows[k].link = n THEN [rows[k] EXCEPT !.link = 0, !.by = None]
                  ELSE rows[k]]
    BY <1>3 DEF SweepOffer
  <2>5. rows = [k \in DOMAIN rows |-> rows[k]]
    BY RowsFacts DEF IInv
  <2>6. rows' = Withdraw(i, n)
    <3> DEFINE w == Withdraw(i, n)
    <3>1. /\ w = [k \in DOMAIN rows |-> w[k]]
          /\ w[n] = [rows[n] EXCEPT !.status = "aborted"]
          /\ w[i] = [rows[i] EXCEPT !.link = 0, !.by = None]
          /\ \A k \in DOMAIN rows \ {i, n} : w[k] = rows[k]
      BY <1>1, <2>2, <2>5 DEF Withdraw
    <3> HIDE DEF w
    <3>2. ASSUME NEW k \in DOMAIN rows PROVE rows'[k] = w[k]
      BY <2>2, <2>3, <2>4, <3>1
    <3>3. rows' = [k \in DOMAIN rows |-> rows'[k]]
      BY <2>4
    <3>4. rows' = w
      BY <3>1, <3>2, <3>3
    <3> QED
      BY <3>4 DEF w
  <2> QED
    BY <1>1, <1>3, <2>2, <2>6, WithdrawRows
<1> QED
  BY <1>2, <1>3

-----------------------------------------------------------------------------
(* The invariant is inductive.                                             *)

LEMMA SameSlots ==
  ASSUME IInv, Grows, UNCHANGED req
  PROVE  req' \in [Req -> Handler] /\ \A q \in Req : SoundHandler(req[q])'
<1>1. ASSUME NEW q \in Req PROVE SoundHandler(req[q])'
  <2>1. PICK g \in Handler : g = req[q]
    BY DEF IInv, TypeOK
  <2>2. SoundHandler(g)
    BY <2>1 DEF IInv
  <2>3. SoundHandler(g)'
    BY <2>2, HandlerKeeps, RowsFacts DEF IInv, Row
  <2> QED
    BY <2>1, <2>3 DEF SoundHandler, Seats
<1> QED
  BY <1>1 DEF IInv, TypeOK

LEMMA Conclude ==
  ASSUME IInv, Preserved, req' \in [Req -> Handler],
         \A q \in Req : SoundHandler(req[q])',
         janitor' \in Sweep, janitor'.found \subseteq janitor.found
  PROVE  IInv'
<1>1. TypeOK'
  BY DEF Preserved, TypeOK, GoodRow
<1>2. SoundJanitor'
  BY DEF SoundJanitor, Preserved, Grows, IInv
<1> QED
  BY <1>1, <1>2 DEF IInv, Preserved

LEMMA ReloadReads ==
  ASSUME IInv, NEW r \in Req, Reload(r)
  PROVE  /\ UNCHANGED <<rows, janitor>>
         /\ \E h \in Handler : SoundHandler(h) /\ Become(r, h)
<1>1. SoundHandler(req[r]) /\ req[r].at = "reload" /\ req[r] \in Handler
  BY DEF IInv, TypeOK, Reload
<1>2. PICK i \in DOMAIN rows : i = req[r].row
  BY <1>1 DEF SoundHandler
<1>3. PICK u \in Seats(i) : u = req[r].by
  BY <1>1, <1>2 DEF SoundHandler
<1>4. rows[i].guest # None /\ u \in Players
  BY <1>1, <1>2, <1>3, RowsFacts DEF SoundHandler, IInv, Seats, Row
<1>5. CASE Offered(i, u)
  BY <1>2, <1>3, <1>4, <1>5, AgreeSound DEF Reload
<1>6. CASE ~ Offered(i, u)
  BY <1>2, <1>3, <1>6, IdleSound DEF Reload
<1>7. UNCHANGED <<rows, janitor>>
  BY DEF Reload
<1> QED
  BY <1>5, <1>6, <1>7

\* A step that reads: a handler takes note, and nothing else changes.
LEMMA ReadStep ==
  ASSUME IInv, NEW r \in Req, UNCHANGED <<rows, janitor>>,
         \E h \in Handler : SoundHandler(h) /\ Become(r, h)
  PROVE  IInv'
<1>1. Preserved
  BY SameRows DEF Preserved
<1>2. PICK h \in Handler : SoundHandler(h) /\ Become(r, h)
  OBVIOUS
<1>3. SoundHandler(h)'
  BY <1>2 DEF SoundHandler, Seats
<1>4. req' \in [Req -> Handler] /\ \A q \in Req : SoundHandler(req[q])'
  BY <1>1, <1>2, <1>3, SlotStep DEF Preserved
<1> QED
  BY <1>1, <1>4, Conclude DEF IInv, TypeOK

\* A step that writes, after which its handler is through.
LEMMA WriteStep ==
  ASSUME IInv, NEW r \in Req, Preserved, Become(r, Idle), UNCHANGED janitor
  PROVE  IInv'
<1>1. req' \in [Req -> Handler] /\ \A q \in Req : SoundHandler(req[q])'
  BY IdleSound, SlotStep DEF Preserved
<1> QED
  BY <1>1, Conclude DEF IInv, TypeOK

\* A step no handler takes.
LEMMA OtherStep ==
  ASSUME IInv, Preserved, UNCHANGED req, janitor' \in Sweep,
         janitor'.found \subseteq janitor.found
  PROVE  IInv'
BY SameSlots, Conclude DEF Preserved

LEMMA OfferStep ==
  ASSUME IInv, NEW r \in Req, CommitOffer(r)
  PROVE  IInv'
<1>1. Preserved
  BY OfferRows
<1>2. CASE Unclaimed(req[r].row)
  BY <1>1, <1>2, WriteStep DEF CommitOffer
<1>3. CASE ~ Unclaimed(req[r].row)
  <2>1. SoundHandler(req[r]) /\ req[r].at = "offer" /\ req[r] \in Handler
    BY DEF IInv, TypeOK, CommitOffer
  <2>2. PICK g \in Handler : g = req[r]
    BY <2>1
  <2>3. g.at = "offer" /\ g \in [at : {"accept", "offer", "reload"}, row : Nat, by : Players]
    BY <2>1, <2>2 DEF Handler, Idle
  <2>4. [g EXCEPT !.at = "reload"] \in Handler
    BY <2>3 DEF Handler
  <2>5. SoundHandler([g EXCEPT !.at = "reload"])
    BY <2>1, <2>2, <2>3 DEF SoundHandler
  <2>6. Become(r, [g EXCEPT !.at = "reload"]) /\ UNCHANGED <<rows, janitor>>
    BY <1>3, <2>2 DEF CommitOffer
  <2> QED
    BY <2>4, <2>5, <2>6, ReadStep
<1> QED
  BY <1>2, <1>3

LEMMA HandleStep ==
  ASSUME IInv, NEW r \in Req, Handle(r)
  PROVE  IInv'
<1>1. CASE CommitAbort(r)
  BY <1>1, AbortRows, WriteStep DEF CommitAbort
<1>2. CASE CommitAccept(r)
  BY <1>2, AcceptRows, WriteStep DEF CommitAccept
<1>3. CASE CommitOffer(r)
  BY <1>3, OfferStep
<1>4. CASE Reload(r)
  BY <1>4, ReloadReads, ReadStep
<1>5. CASE CommitAgree(r)
  BY <1>5, AgreeRows, WriteStep DEF CommitAgree
<1>6. CASE CommitDecline(r)
  BY <1>6, DeclineRows, WriteStep DEF CommitDecline
<1> QED
  BY <1>1, <1>2, <1>3, <1>4, <1>5, <1>6 DEF Handle

LEMMA JanitorStep ==
  ASSUME IInv, Janitor
  PROVE  IInv'
<1>1. CASE Scan
  <2>1. Preserved /\ UNCHANGED req
    BY <1>1, SameRows DEF Scan, Preserved
  <2>2. req' \in [Req -> Handler] /\ \A q \in Req : SoundHandler(req[q])'
    BY <2>1, SameSlots DEF Preserved
  <2>3. DOMAIN rows \subseteq Nat
    BY RowsFacts DEF IInv
  <2>4. janitor' \in Sweep
    BY <1>1, <2>3 DEF Scan, Sweep
  <2>5. SoundJanitor'
    BY <1>1 DEF Scan, SoundJanitor, IsStaleOffer
  <2>6. TypeOK'
    BY <2>1, <2>2, <2>4 DEF TypeOK, Preserved, GoodRow
  <2> QED
    BY <2>1, <2>2, <2>5, <2>6 DEF IInv, Preserved
<1>2. ASSUME NEW i \in janitor.found, SweepOffer(i) PROVE IInv'
  <2>1. janitor' \in Sweep /\ janitor'.found \subseteq janitor.found /\ UNCHANGED req
    BY <1>2 DEF SweepOffer, Sweep, IInv, TypeOK
  <2> QED
    BY <1>2, <2>1, SweepOfferRows, OtherStep
<1>3. CASE SweepInvites
  <2>1. janitor' \in Sweep /\ janitor'.found \subseteq janitor.found /\ UNCHANGED req
    BY <1>3 DEF SweepInvites, Sweep, Off
  <2> QED
    BY <1>3, <2>1, SweepInvitesRows, OtherStep
<1> QED
  BY <1>1, <1>2, <1>3 DEF Janitor

LEMMA RestartStep == ASSUME IInv, Restart PROVE IInv'
<1>1. Preserved
  BY SameRows DEF Restart, Preserved
<1>2. req' \in [Req -> Handler] /\ \A q \in Req : req'[q] = Idle
  BY IdleSound DEF Restart
<1>3. \A q \in Req : SoundHandler(req[q])'
  BY <1>2 DEF SoundHandler, Idle
<1>4. janitor' \in Sweep /\ janitor'.found \subseteq janitor.found
  BY DEF Restart, Off, Sweep
<1> QED
  BY <1>1, <1>2, <1>3, <1>4, Conclude

LEMMA Inductive == IInv /\ [Next]_vars => IInv'
<1> SUFFICES ASSUME IInv, [Next]_vars PROVE IInv'
  OBVIOUS
<1>1. janitor \in Sweep
  BY DEF IInv, TypeOK
<1>2. ASSUME NEW u \in Players, CreateInvite(u) PROVE IInv'
  BY <1>1, <1>2, CreateRows, OtherStep DEF CreateInvite
<1>3. ASSUME NEW r \in Req, NEW i \in DOMAIN rows, Request(r, i) PROVE IInv'
  BY <1>3, RequestReads, ReadStep
<1>4. ASSUME NEW i \in DOMAIN rows, EndGame(i) PROVE IInv'
  BY <1>1, <1>4, EndRows, OtherStep DEF EndGame
<1>5. ASSUME NEW i \in DOMAIN rows, Age(i) PROVE IInv'
  BY <1>1, <1>5, AgeRows, OtherStep DEF Age
<1>6. CASE UNCHANGED vars
  BY <1>1, <1>6, SameRows, OtherStep DEF vars, Preserved
<1> QED
  BY <1>2, <1>3, <1>4, <1>5, <1>6, HandleStep, JanitorStep, RestartStep DEF Next

\* The invariant holds in every reachable state.
THEOREM Invariant == Spec => []IInv
<1>1. Init => IInv
  BY TypeInit DEF Init, IInv, SoundJanitor, SoundHandler, Off, Idle, TypeOK
<1> QED
  BY <1>1, Inductive, PTL DEF Spec

\* Statuses and seats are well formed, whatever overlaps.
THEOREM TypeCorrect == Spec => []TypeOK
<1>1. IInv => TypeOK
  BY DEF IInv
<1> QED
  BY <1>1, Invariant, PTL

\* A rematch on offer is linked by the game it is the rematch of.
THEOREM OffersAreLinked == Spec => []OfferIsLinked
<1>1. IInv => OfferIsLinked
  BY DEF IInv, SoundRow, SoundRematch, OfferIsLinked
<1> QED
  BY <1>1, Invariant, PTL

\* No link is dead.
THEOREM LinksAreLive == Spec => []LinkIsLive
<1>1. IInv => LinkIsLive
  BY DEF IInv, SoundRow, SoundLink, LinkIsLive
<1> QED
  BY <1>1, Invariant, PTL

\* A game has at most one rematch that started.
THEOREM AtMostOneRematch == Spec => []OneRematchStarts
<1>1. IInv => OneRematchStarts
  BY DEF IInv, SoundRow, SoundRematch, OneRematchStarts
<1> QED
  BY <1>1, Invariant, PTL

\* A rematch that started was asked for by both of its players.
THEOREM RematchesAreMutual == Spec => []BothAsked
<1>1. IInv => BothAsked
  BY DEF IInv, SoundRow, SoundRematch, BothAsked
<1> QED
  BY <1>1, Invariant, PTL

-----------------------------------------------------------------------------
(* Seats and ends stand.                                                   *)

LEMMA HandleStands ==
  ASSUME IInv, NEW r \in Req, Handle(r), NEW i \in DOMAIN rows, Ended(i)
  PROVE  rows'[i].status \in {"completed", "aborted"} /\ rows'[i].started = rows[i].started
<1>1. /\ rows[i] \in Row /\ rows[i].status # "pending" /\ rows \in Seq(GoodRow)
      /\ rows[i].status \in {"completed", "aborted"}
  BY RowsFacts DEF IInv, Ended
<1>2. PICK h \in Handler : h = req[r] /\ SoundHandler(h)
  BY DEF IInv, TypeOK
<1>3. CASE CommitAbort(r)
  BY <1>1, <1>2, <1>3 DEF CommitAbort, Row
<1>4. CASE CommitAccept(r)
  BY <1>1, <1>2, <1>4 DEF CommitAccept, StillPending, Row
<1>5. CASE CommitOffer(r)
  <2>1. CASE ~ Unclaimed(req[r].row)
    BY <1>1, <1>5, <2>1 DEF CommitOffer
  <2>2. CASE Unclaimed(req[r].row)
    <3>1. /\ rows'[i].status = rows[i].status /\ rows'[i].started = rows[i].started
      BY <1>1, <1>2, <1>5, <2>2, RowsFacts DEF CommitOffer, Row, IInv
    <3> QED
      BY <1>1, <3>1
  <2> QED
    BY <2>1, <2>2
<1>6. CASE Reload(r)
  BY <1>1, <1>6 DEF Reload
<1>7. CASE CommitAgree(r)
  BY <1>1, <1>2, <1>7 DEF CommitAgree, StillPending, Row
<1>8. CASE CommitDecline(r)
  BY <1>1, <1>2, <1>8 DEF CommitDecline, StillPending, Withdraw, Row
<1> QED
  BY <1>3, <1>4, <1>5, <1>6, <1>7, <1>8 DEF Handle

\* Every step leaves the guests in their seats.
LEMMA StepGrows == ASSUME IInv, Next PROVE Grows
<1>1. ASSUME NEW r \in Req, Handle(r) PROVE Preserved
  <2>1. CASE Reload(r)
    BY <2>1, SameRows DEF Reload, Preserved
  <2> QED
    BY <1>1, <2>1, AbortRows, AcceptRows, OfferRows, AgreeRows, DeclineRows DEF Handle
<1>2. ASSUME NEW r \in Req, NEW i \in DOMAIN rows, Request(r, i) PROVE Preserved
  BY <1>2, RequestReads, SameRows DEF Preserved
<1>3. ASSUME Janitor PROVE Preserved
  BY <1>3, SweepOfferRows, SweepInvitesRows, SameRows DEF Janitor, Scan, Preserved
<1>4. ASSUME Restart PROVE Preserved
  BY <1>4, SameRows DEF Restart, Preserved
<1> QED
  BY <1>1, <1>2, <1>3, <1>4, CreateRows, EndRows, AgeRows DEF Next, Preserved

LEMMA StandsStep == IInv /\ [Next]_vars => [Stands]_vars
<1> SUFFICES ASSUME IInv, Next, NEW i \in DOMAIN rows, Ended(i)
             PROVE  /\ rows'[i].status \in {"completed", "aborted"}
                    /\ rows'[i].started = rows[i].started
  BY StepGrows DEF Stands, Grows
<1>1. /\ rows[i] \in Row /\ rows[i].status # "pending" /\ rows \in Seq(GoodRow)
      /\ rows[i].status \in {"completed", "aborted"}
  BY RowsFacts DEF IInv, Ended
<1>2. ASSUME NEW u \in Players, CreateInvite(u) PROVE rows'[i] = rows[i]
  BY <1>2, RowsFacts DEF CreateInvite, IInv
<1>3. ASSUME NEW r \in Req, NEW k \in DOMAIN rows, Request(r, k) PROVE rows'[i] = rows[i]
  BY <1>3, RequestReads
<1>4. CASE Janitor
  <2>1. CASE Scan
    BY <1>1, <2>1 DEF Scan
  <2>2. ASSUME NEW n \in janitor.found, SweepOffer(n)
        PROVE  /\ rows'[i].status \in {"completed", "aborted"}
               /\ rows'[i].started = rows[i].started
    <3>1. CASE StillPending(n)
      <4>1. i # n
        BY <1>1, <3>1 DEF StillPending
      <4>2. rows'[i] = IF rows[i].link = n THEN [rows[i] EXCEPT !.link = 0, !.by = None]
                       ELSE rows[i]
        BY <2>2, <3>1, <4>1 DEF SweepOffer
      <4> QED
        BY <1>1, <4>2 DEF Row
    <3>2. CASE ~ StillPending(n)
      BY <1>1, <2>2, <3>2 DEF SweepOffer
    <3> QED
      BY <3>1, <3>2
  <2>3. CASE SweepInvites
    BY <1>1, <2>3 DEF SweepInvites, IsPendingInvite
  <2> QED
    BY <1>4, <2>1, <2>2, <2>3 DEF Janitor
<1>5. ASSUME NEW k \in DOMAIN rows, EndGame(k) \/ Age(k)
      PROVE  /\ rows'[i].status \in {"completed", "aborted"}
             /\ rows'[i].started = rows[i].started
  BY <1>1, <1>5 DEF EndGame, Age, Row
<1>6. CASE Restart
  BY <1>1, <1>6 DEF Restart
<1> QED
  BY <1>1, <1>2, <1>3, <1>4, <1>5, <1>6, HandleStands DEF Next

\* A seat that is taken and a row that has ended stay so.
THEOREM SeatsAndEndsAreKept == Spec => SeatsAndEndsStand
  BY StandsStep, Invariant, PTL DEF Spec, SeatsAndEndsStand
===============================================================================
