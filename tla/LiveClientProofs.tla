--------------------------- MODULE LiveClientProofs ---------------------------
(* Proofs about the page of a live game, for any number of requests, polls   *)
(* and faults: what the page shows only moves on with the game, and nothing  *)
(* that happens while it drops pushes is lost to it.                         *)
EXTENDS LiveClient, TLAPS

\* A state the server was in: it has only moved on since, and an end is its last.
Past(s) ==
  /\ s \in Snapshot
  /\ s.ply <= Len(moves)
  /\ s.status \in {"active", status}
  /\ Terminal(s.status) => s.ply = Len(moves)

\* One the server is in, draw offer aside.
UpToDate(s) == s.ply = Len(moves) /\ s.status = status

\* What a handler of the player holds.
At(r, where) == runs[r] # None /\ runs[r].at = where

RollsBack(r) == At(r, "rules") \/ ((At(r, "sent") \/ At(r, "failed")) /\ runs[r].kind = "move")

Answered(g) == gets[g] # None /\ gets[g].at = "answered"

\* Whatever is shown, kept or on its way was once true.
AllPast ==
  /\ moves \in Seq(QuietMoves \cup MatingMoves \cup DrawingMoves)
  /\ status \in Statuses
  /\ offer \in Colors \cup {None}
  /\ Past(shown)
  /\ \A p \in inbox : Past(p)
  /\ \A g \in Gets : Answered(g) => Past(gets[g].answer)
  /\ \A r \in Req : /\ At(r, "answered") => Past(runs[r].answer)
                    /\ RollsBack(r) => Past(runs[r].before)

\* The page waits for its one request, and for nothing else.
Waits ==
  /\ submitting => UnderWay # {}
  /\ ~doubled =>
       /\ \A r, q \in UnderWay : r = q
       /\ UnderWay # {} => submitting
       /\ preview => \E r \in UnderWay : At(r, "answered") \/ runs[r].kind = "move"

\* What an answer or a rollback will show is no older than what is shown.
MovesOn ==
  ~doubled => \A r \in Req :
    /\ At(r, "answered") =>
         /\ runs[r].answer.ply >= shown.ply
         /\ Terminal(shown.status) => Terminal(runs[r].answer.status)
    /\ ~slipped /\ RollsBack(r) => runs[r].before = shown

NewsOnItsWay == resync \/ \E p \in inbox : UpToDate(p)

NewsAskedFor == \E g \in Gets : gets[g] # None /\ (Answered(g) => UpToDate(gets[g].answer))

\* Either the page is up to date, or something that will make it so is coming.
Informed ==
  ~missed /\ ~doubled =>
    /\ UnderWay # {} \/ UpToDate(shown) \/ NewsOnItsWay \/ NewsAskedFor
    /\ \A r \in Req : At(r, "answered") => UpToDate(runs[r].answer) \/ NewsOnItsWay

IInv == TypeOK /\ AllPast /\ Waits /\ MovesOn /\ Informed

-----------------------------------------------------------------------------
(* What handlers and requests hold.                                        *)

LEMMA HandlerTypes ==
  ASSUME TypeOK, NEW r \in Req
  PROVE  /\ runs[r] \in Run \cup {None}
         /\ At(r, "rules") => runs[r].before \in Snapshot
         /\ At(r, "sent") \/ At(r, "failed") => runs[r].kind \in {"move"} \cup Actions
         /\ (At(r, "sent") \/ At(r, "failed")) /\ runs[r].kind = "move" => runs[r].before \in Snapshot
         /\ At(r, "answered") => runs[r].answer \in Snapshot
         /\ r \in UnderWay <=> At(r, "sent") \/ At(r, "failed") \/ At(r, "answered")
         /\ runs[r] # None => r \in UnderWay \/ At(r, "rules")
BY DEF TypeOK, Run, At, UnderWay, Actions

LEMMA SomeoneIsThere == None \notin Run /\ None \notin Get
BY PageAssumption

\* What the page, a message, a request or a handler tells of the game.
Seen(s) ==
  \/ s = shown
  \/ s \in inbox
  \/ \E g \in Gets : Answered(g) /\ s = gets[g].answer
  \/ \E r \in Req : \/ At(r, "answered") /\ s = runs[r].answer
                    \/ RollsBack(r) /\ s = runs[r].before

LEMMA SeenIsPast == ASSUME AllPast, NEW s, Seen(s) PROVE Past(s)
BY DEF AllPast, Seen

\* The server moves on: the game was not over, and no move is taken back.
Advance ==
  /\ status = "active"
  /\ moves' \in Seq(QuietMoves \cup MatingMoves \cup DrawingMoves)
  /\ Len(moves') >= Len(moves)
  /\ status' \in Statuses
  /\ offer' \in Colors \cup {None}

LEMMA ServerTypes ==
  ASSUME AllPast
  PROVE  /\ Len(moves) \in Nat /\ Current \in Snapshot /\ Past(Current) /\ UpToDate(Current)
         /\ Current.ply = Len(moves) /\ Current.status = status
<1>1. Len(moves) \in Nat
  BY DEF AllPast
<1> QED
  BY <1>1 DEF AllPast, Current, Snapshot, Past, UpToDate

\* What was once true still was, whatever the server does next.
LEMMA PastStep ==
  ASSUME AllPast, Advance \/ UNCHANGED game,
         \A s : Seen(s)' => Seen(s) \/ s = Current'
  PROVE  AllPast'
<1>1. /\ moves' \in Seq(QuietMoves \cup MatingMoves \cup DrawingMoves)
      /\ status' \in Statuses /\ offer' \in Colors \cup {None}
      /\ Len(moves') \in Nat /\ Len(moves) \in Nat /\ Len(moves') >= Len(moves)
      /\ status = "active" \/ (status' = status /\ Len(moves') = Len(moves))
  BY DEF AllPast, Advance, game
<1>2. ASSUME NEW s, Past(s) PROVE Past(s)'
  BY <1>1, <1>2 DEF Past, Snapshot, Terminal
<1>3. ASSUME NEW s, s = Current' PROVE Past(s)'
  <2>1. s = [ply |-> Len(moves'), status |-> status', offer |-> offer']
    BY <1>3 DEF Current
  <2> QED
    BY <1>1, <2>1 DEF Past, Snapshot
<1>4. ASSUME NEW s, Seen(s)' PROVE Past(s)'
  BY <1>2, <1>3, <1>4, SeenIsPast
<1>5. \A s : s = shown' \/ s \in inbox' => Seen(s)'
  BY DEF Seen
<1>6. \A g \in Gets : Answered(g)' => Seen(gets[g].answer)'
  BY DEF Seen
<1>7. \A r \in Req : /\ At(r, "answered")' => Seen(runs[r].answer)'
                     /\ RollsBack(r)' => Seen(runs[r].before)'
  BY DEF Seen
<1> QED
  BY <1>1, <1>4, <1>5, <1>6, <1>7 DEF AllPast

-----------------------------------------------------------------------------
(* The server.                                                             *)

LEMMA PlayAdvances ==
  ASSUME AllPast, NEW m \in QuietMoves \cup MatingMoves \cup DrawingMoves, Server!Play(m)
  PROVE  Advance
<1>1. /\ status = "active" /\ moves' = Append(moves, m)
      /\ offer' \in {None, offer} /\ status' \in {"completed", status}
  BY DEF Server!Play, Server!End
<1>2. moves' \in Seq(QuietMoves \cup MatingMoves \cup DrawingMoves) /\ Len(moves') >= Len(moves)
  BY <1>1 DEF AllPast
<1> QED
  BY <1>1, <1>2 DEF AllPast, Advance, Statuses

LEMMA OtherwiseAdvances ==
  ASSUME AllPast, NEW side \in Colors,
         Server!Offer(side) \/ Server!Decline \/ Server!Agree \/ Server!Resign(side) \/ Server!Abort
  PROVE  Advance
<1>1. /\ status = "active" /\ moves' = moves
      /\ offer' \in {None, offer, side} /\ status' \in {"completed", "aborted", status}
  BY DEF Server!Offer, Server!Decline, Server!Agree, Server!Resign, Server!Abort, Server!End
<1>2. Len(moves) \in Nat
  BY DEF AllPast
<1> QED
  BY <1>1, <1>2 DEF AllPast, Advance, Statuses

LEMMA ServesAdvances == ASSUME AllPast, NEW kind, Serves(kind) PROVE Advance
<1>1. Me \in Colors
  BY PageAssumption
<1> QED
  BY <1>1, PlayAdvances, OtherwiseAdvances DEF Serves

LEMMA OtherSideAdvances == ASSUME AllPast, OtherSide PROVE Advance
<1>1. Opp \in Colors
  BY DEF Opp, Opponent, Colors
<1> QED
  BY <1>1, PlayAdvances, OtherwiseAdvances DEF OtherSide

\* A change that was not missed is in the inbox, as the last of all.
LEMMA PushInforms == ASSUME AllPast, Advance, Pushed PROVE Informed'
<1> SUFFICES ASSUME ~missed' PROVE NewsOnItsWay'
  BY DEF Informed
<1>1. PICK p \in inbox' : p = Current'
  BY DEF Pushed
<1>2. UpToDate(p)'
  BY <1>1 DEF UpToDate, Current
<1> QED
  BY <1>1, <1>2 DEF NewsOnItsWay

-----------------------------------------------------------------------------
(* What leaves the page and its handlers alone.                            *)

LEMMA PageRests ==
  ASSUME Waits, MovesOn, UNCHANGED <<shown, preview, submitting, runs, slipped, doubled>>
  PROVE  Waits' /\ MovesOn'
<1>1. UnderWay' = UnderWay
  BY DEF UnderWay
<1> QED
  BY <1>1 DEF Waits, MovesOn, At, RollsBack

LEMMA OtherSideSound == ASSUME IInv, OtherSide PROVE IInv'
<1>1. /\ Advance /\ Pushed
      /\ UNCHANGED <<shown, preview, submitting, resync, connection, gets, runs, tries, faults,
                     slipped, doubled>>
  BY OtherSideAdvances DEF OtherSide, page, IInv
<1>2. offers' \in Nat
  BY DEF OtherSide, IInv, TypeOK
<1>3. Current' \in Snapshot
  BY <1>1 DEF Advance, Current, Snapshot
<1>4. TypeOK'
  BY <1>1, <1>2, <1>3 DEF IInv, TypeOK, connection, Pushed
<1>5. AllPast'
  <2>1. \A s : Seen(s)' => Seen(s) \/ s = Current'
    BY <1>1 DEF Seen, Pushed, Answered, At, RollsBack
  <2> QED
    BY <1>1, <2>1, PastStep DEF IInv
<1> QED
  BY <1>1, <1>4, <1>5, PageRests, PushInforms DEF IInv

\* A GET is sent: whatever is on its way stays so.
LEMMA FetchSound ==
  ASSUME IInv, NEW g \in Gets, SendGet(g), resync' \in BOOLEAN,
         link' \in {"down", "up", "in"}, hadConnected' \in BOOLEAN,
         resync' = resync \/ ~submitting,
         UNCHANGED <<game, shown, preview, submitting, inbox, runs, bounds, history>>
  PROVE  IInv'
<1>1. /\ gets[g] = None /\ gets'[g] # None /\ ~Answered(g)'
      /\ \A k \in Gets \ {g} : gets'[k] = gets[k]
      /\ gets' \in [Gets -> Get \cup {None}]
  BY SomeoneIsThere DEF SendGet, IInv, TypeOK, Get, Answered
<1>2. TypeOK'
  BY <1>1 DEF IInv, TypeOK, bounds, history
<1>3. AllPast'
  <2>1. ASSUME NEW s, Seen(s)' PROVE Seen(s)
    BY <1>1, <2>1 DEF Seen, Answered, At, RollsBack
  <2> QED
    BY <2>1, PastStep DEF IInv
<1>4. Waits' /\ MovesOn'
  BY PageRests DEF IInv, history
<1>5. Informed'
  <2> SUFFICES ASSUME ~missed, ~doubled
               PROVE  /\ NewsAskedFor'
                      /\ \A r \in Req : At(r, "answered")' =>
                           UpToDate(runs[r].answer)' \/ NewsOnItsWay'
    BY DEF Informed, history
  <2>1. NewsAskedFor'
    BY <1>1 DEF NewsAskedFor
  <2>2. ASSUME NEW r \in Req, At(r, "answered")'
        PROVE  UpToDate(runs[r].answer)' \/ NewsOnItsWay'
    <3>1. At(r, "answered") /\ r \in UnderWay
      BY <2>2 DEF At, UnderWay
    <3>2. resync' = resync
      BY <3>1 DEF IInv, Waits
    <3>3. UpToDate(runs[r].answer) \/ NewsOnItsWay
      BY <3>1 DEF IInv, Informed
    <3> QED
      BY <3>2, <3>3 DEF UpToDate, NewsOnItsWay, game
  <2> QED
    BY <2>1, <2>2
<1> QED
  BY <1>2, <1>3, <1>4, <1>5 DEF IInv

LEMMA AnswerGetSound == ASSUME IInv, NEW g \in Gets, AnswerGet(g) PROVE IInv'
<1> PICK a : a = [at |-> "answered", answer |-> Current]
  OBVIOUS
<1>1. /\ gets[g] = [at |-> "sent"] /\ gets' = [gets EXCEPT ![g] = a]
      /\ UNCHANGED <<game, page, connection, inbox, runs, bounds, history>>
  BY DEF AnswerGet
<1>2. /\ a \in Get /\ a # None /\ a.answer = Current /\ UpToDate(Current) /\ Past(Current)
      /\ Current' = Current
  <2>1. Current \in Snapshot /\ UpToDate(Current) /\ Past(Current)
    BY ServerTypes DEF IInv
  <2>2. a \in Get
    BY <2>1 DEF Get
  <2> QED
    BY <1>1, <2>1, <2>2, SomeoneIsThere DEF Current, game
<1>3. gets'[g] = a /\ \A k \in Gets \ {g} : gets'[k] = gets[k]
  BY <1>1 DEF IInv, TypeOK
<1>4. TypeOK'
  BY <1>1, <1>2 DEF IInv, TypeOK, connection, page, bounds, history
<1>5. AllPast'
  <2>1. ASSUME NEW s, Seen(s)' PROVE Seen(s) \/ s = Current'
    BY <1>1, <1>2, <1>3, <2>1 DEF Seen, Answered, At, RollsBack, page
  <2> QED
    BY <1>1, <2>1, PastStep DEF IInv
<1>6. Waits' /\ MovesOn'
  BY <1>1, PageRests DEF IInv, page, history
<1>7. Informed'
  <2>1. NewsAskedFor'
    <3>1. gets'[g] # None /\ gets'[g].answer = Current
      BY <1>2, <1>3
    <3>2. UpToDate(gets[g].answer)'
      BY <1>1, <1>2, <3>1 DEF UpToDate, game
    <3> QED
      BY <3>1, <3>2 DEF NewsAskedFor
  <2>2. \A r \in Req : /\ At(r, "answered")' <=> At(r, "answered")
                       /\ UpToDate(runs[r].answer)' <=> UpToDate(runs[r].answer)
    BY <1>1 DEF At, UpToDate, game
  <2>3. NewsOnItsWay' <=> NewsOnItsWay
    BY <1>1 DEF NewsOnItsWay, UpToDate, game, page
  <2> QED
    BY <1>1, <2>1, <2>2, <2>3 DEF IInv, Informed, history
<1> QED
  BY <1>4, <1>5, <1>6, <1>7 DEF IInv

\* The socket comes and goes: what it loses counts as missed.
LEMMA LinkSound ==
  ASSUME IInv, link' \in {"down", "up", "in"}, hadConnected' \in BOOLEAN,
         gets' \in [Gets -> Get \cup {None}],
         faults' \in Nat, missed' \in BOOLEAN,
         \A g \in Gets : gets'[g] \in {gets[g], None},
         inbox' \subseteq inbox,
         ~missed' => ~missed /\ inbox' = inbox /\ gets' = gets,
         UNCHANGED <<game, page, runs, offers, tries, slipped, doubled>>
  PROVE  IInv'
<1>1. TypeOK'
  BY DEF IInv, TypeOK, page
<1>2. AllPast'
  <2>1. ASSUME NEW s, Seen(s)' PROVE Seen(s)
    BY <2>1 DEF Seen, Answered, At, RollsBack, page
  <2> QED
    BY <2>1, PastStep DEF IInv
<1>3. Waits' /\ MovesOn'
  BY PageRests DEF IInv, page
<1>4. Informed'
  <2> SUFFICES ASSUME ~missed', ~doubled PROVE Informed'
    BY DEF Informed
  <2>1. /\ NewsOnItsWay' <=> NewsOnItsWay
        /\ NewsAskedFor' <=> NewsAskedFor
        /\ UpToDate(shown)' <=> UpToDate(shown)
    BY DEF NewsOnItsWay, NewsAskedFor, UpToDate, Answered, game, page
  <2>2. \A r \in Req : /\ At(r, "answered")' <=> At(r, "answered")
                       /\ UpToDate(runs[r].answer)' <=> UpToDate(runs[r].answer)
    BY DEF At, UpToDate, game
  <2>3. UnderWay' = UnderWay
    BY DEF UnderWay
  <2> QED
    BY <2>1, <2>2, <2>3 DEF IInv, Informed
<1> QED
  BY <1>1, <1>2, <1>3, <1>4 DEF IInv

LEMMA TransportSound ==
  ASSUME IInv,
         \/ \E g \in Gets : Poll(g) \/ Wake(g) \/ AnswerGet(g) \/ FailGet(g) \/ Resync(g)
         \/ Connect \/ EnterRoom \/ Disconnect
         \/ UNCHANGED vars
  PROVE  IInv'
<1>1. /\ link \in {"down", "up", "in"} /\ hadConnected \in BOOLEAN
      /\ gets \in [Gets -> Get \cup {None}]
      /\ faults \in Nat /\ missed \in BOOLEAN /\ resync \in BOOLEAN /\ submitting \in BOOLEAN
  BY DEF IInv, TypeOK
<1>2. ASSUME NEW g \in Gets, Poll(g) \/ Wake(g) PROVE IInv'
  BY <1>1, <1>2, FetchSound DEF Poll, Wake, page, connection
<1>3. ASSUME NEW g \in Gets, Resync(g) PROVE IInv'
  BY <1>1, <1>3, FetchSound DEF Resync, connection
<1>4. ASSUME NEW g \in Gets, FailGet(g) PROVE IInv'
  <2>1. gets' \in [Gets -> Get \cup {None}] /\ \A k \in Gets : gets'[k] \in {gets[k], None}
    BY <1>1, <1>4 DEF FailGet
  <2>2. /\ missed' = TRUE /\ faults' \in Nat
        /\ UNCHANGED <<game, page, connection, inbox, runs, offers, tries, slipped, doubled>>
    BY <1>1, <1>4 DEF FailGet, MayFail
  <2> QED
    BY <1>1, <2>1, <2>2, LinkSound DEF connection
<1>5. CASE Connect
  <2>1. link' = "up" /\ hadConnected' = TRUE /\ UNCHANGED <<game, page, inbox, runs, bounds, history>>
    BY <1>5 DEF Connect
  <2>2. CASE \E g \in Gets : SendGet(g)
    BY <1>1, <2>1, <2>2, FetchSound DEF page
  <2>3. CASE UNCHANGED gets
    BY <1>1, <2>1, <2>3, LinkSound DEF bounds, history
  <2> QED
    BY <1>5, <2>2, <2>3 DEF Connect
<1>6. CASE EnterRoom
  BY <1>1, <1>6, LinkSound DEF EnterRoom, bounds, history
<1>7. CASE Disconnect
  <2>1. /\ link' = "down" /\ inbox' = {} /\ missed' = (missed \/ inbox # {}) /\ faults' \in Nat
        /\ UNCHANGED <<hadConnected, game, page, gets, runs, offers, tries, slipped, doubled>>
    BY <1>1, <1>7 DEF Disconnect, MayFail
  <2> QED
    BY <1>1, <2>1, LinkSound
<1>8. CASE UNCHANGED vars
  BY <1>1, <1>8, LinkSound DEF vars, connection, bounds, history
<1> QED
  BY <1>2, <1>3, <1>4, <1>5, <1>6, <1>7, <1>8, AnswerGetSound

-----------------------------------------------------------------------------
(* Merging.                                                                *)

\* The staleness test, of two states the server was in: it lets nothing
\* through that is older, and keeps nothing out that is up to date.
LEMMA StalenessIsAge ==
  ASSUME AllPast, NEW a, Past(a)
  PROVE  /\ ~IsStale(shown, a) => /\ a.ply >= shown.ply
                                  /\ Terminal(shown.status) => Terminal(a.status)
         /\ UpToDate(a) => ~IsStale(shown, a)
         /\ UpToDate(shown) /\ ~IsStale(shown, a) => UpToDate(a)
<1>1. /\ shown.ply \in Nat /\ a.ply \in Nat /\ Len(moves) \in Nat
      /\ shown.ply <= Len(moves) /\ a.ply <= Len(moves)
      /\ shown.status \in {"active", status} /\ a.status \in {"active", status}
      /\ Terminal(shown.status) => shown.ply = Len(moves)
      /\ Terminal(a.status) => a.ply = Len(moves)
      /\ status \in {"active", "completed", "aborted"}
  BY DEF AllPast, Past, Snapshot, Statuses
<1> QED
  BY <1>1 DEF IsStale, UpToDate, Terminal

\* What a merge does to the page: nothing, or it shows what it was given.
Merged(a) ==
  \/ /\ submitting \/ IsStale(shown, a)
     /\ UNCHANGED <<shown, preview, slipped>>
  \/ /\ ~submitting /\ ~IsStale(shown, a)
     /\ shown' = a /\ preview' = FALSE
     /\ NotesSlip

LEMMA MergeIsMerged == ASSUME NEW a, Merge(a) PROVE Merged(a)
BY DEF Merge, Merged

LEMMA MergeKeeps ==
  ASSUME IInv, NEW a, Past(a), Merged(a), UNCHANGED <<submitting, runs, doubled>>
  PROVE  /\ Waits' /\ MovesOn'
         /\ shown' \in Snapshot /\ preview' \in BOOLEAN /\ slipped' \in BOOLEAN
<1>1. /\ shown \in Snapshot /\ preview \in BOOLEAN /\ slipped \in BOOLEAN /\ a \in Snapshot
  BY DEF IInv, TypeOK, Past
<1>2. CASE UNCHANGED <<shown, preview, slipped>>
  BY <1>1, <1>2, PageRests DEF IInv
<1>3. CASE ~UNCHANGED <<shown, preview, slipped>>
  <2>1. ~submitting /\ shown' = a /\ preview' = FALSE /\ NotesSlip
    BY <1>3 DEF Merged
  <2>2. UnderWay' = UnderWay
    BY DEF UnderWay
  <2>3. Waits'
    BY <2>1, <2>2 DEF IInv, Waits
  <2>4. ASSUME ~doubled, NEW r \in Req
        PROVE  /\ ~At(r, "answered")' /\ (RollsBack(r)' => At(r, "rules") /\ RollsBack(r))
    <3>1. r \notin UnderWay
      BY <2>1, <2>4 DEF IInv, Waits
    <3> QED
      BY <3>1 DEF At, RollsBack, UnderWay
  <2>5. ASSUME NEW r \in Req, At(r, "rules"), ~slipped' PROVE ~slipped /\ shown' = shown
    BY <2>1, <2>5 DEF NotesSlip, At
  <2>6. MovesOn'
    <3> SUFFICES ASSUME ~doubled, NEW r \in Req, ~slipped', RollsBack(r)'
                 PROVE  runs'[r].before = shown'
      BY <2>4 DEF MovesOn
    <3>1. At(r, "rules") /\ RollsBack(r) /\ ~slipped /\ shown' = shown
      BY <2>4, <2>5
    <3> QED
      BY <3>1 DEF IInv, MovesOn
  <2>7. slipped' \in BOOLEAN
    BY <2>1 DEF NotesSlip
  <2> QED
    BY <1>1, <2>1, <2>3, <2>6, <2>7
<1> QED
  BY <1>2, <1>3

\* If a message was what would bring the page up to date, it did; if the page
\* was up to date, it still is.
LEMMA MergeInforms ==
  ASSUME IInv, NEW a, Past(a), Merged(a), UNCHANGED game, ~submitting
  PROVE  UpToDate(a) \/ UpToDate(shown) => UpToDate(shown)'
BY StalenessIsAge DEF IInv, Merged, UpToDate, game

LEMMA DeliverGetSound == ASSUME IInv, NEW g \in Gets, DeliverGet(g) PROVE IInv'
<1> PICK a : a = gets[g].answer
  OBVIOUS
<1>1. /\ Answered(g) /\ gets' = [gets EXCEPT ![g] = None] /\ Merged(a)
      /\ UNCHANGED <<game, submitting, resync, connection, inbox, runs, bounds, missed, doubled>>
  BY MergeIsMerged DEF DeliverGet, Answered
<1>2. Past(a)
  BY <1>1 DEF IInv, AllPast
<1>3. /\ Waits' /\ MovesOn'
      /\ shown' \in Snapshot /\ preview' \in BOOLEAN /\ slipped' \in BOOLEAN
  BY <1>1, <1>2, MergeKeeps
<1>4. gets'[g] = None /\ \A k \in Gets \ {g} : gets'[k] = gets[k]
  BY <1>1 DEF IInv, TypeOK
<1>5. TypeOK'
  BY <1>1, <1>3 DEF IInv, TypeOK, connection, bounds
<1>6. AllPast'
  <2>1. Seen(a) /\ shown' \in {shown, a}
    BY <1>1 DEF Seen, Merged
  <2>2. ASSUME NEW s, Seen(s)' PROVE Seen(s)
    BY <1>1, <1>4, <2>1, <2>2 DEF Seen, Answered, At, RollsBack
  <2> QED
    BY <1>1, <2>2, PastStep DEF IInv
<1>7. Informed'
  <2> SUFFICES ASSUME ~missed, ~doubled PROVE Informed'
    BY <1>1 DEF Informed
  <2>1. /\ \A r \in Req : /\ At(r, "answered")' <=> At(r, "answered")
                          /\ UpToDate(runs[r].answer)' <=> UpToDate(runs[r].answer)
        /\ NewsOnItsWay' <=> NewsOnItsWay
        /\ UnderWay' = UnderWay
    BY <1>1 DEF At, UpToDate, NewsOnItsWay, UnderWay, game
  <2>2. CASE submitting
    BY <2>1, <2>2 DEF IInv, Informed, Waits
  <2>3. CASE ~submitting
    <3>1. UpToDate(a) \/ UpToDate(shown) => UpToDate(shown)'
      BY <1>1, <1>2, <2>3, MergeInforms
    <3>2. NewsAskedFor => NewsAskedFor' \/ UpToDate(a)
      BY <1>1, <1>4 DEF NewsAskedFor, Answered, UpToDate, game
    <3> QED
      BY <2>1, <3>1, <3>2 DEF IInv, Informed
  <2> QED
    BY <2>2, <2>3
<1> QED
  BY <1>3, <1>5, <1>6, <1>7 DEF IInv

LEMMA DeliverPushSound == ASSUME IInv, NEW p \in inbox, DeliverPush(p) PROVE IInv'
<1>1. /\ inbox' = inbox \ {p} /\ resync' = (resync \/ submitting) /\ Merged(p)
      /\ UNCHANGED <<game, submitting, connection, gets, runs, bounds, missed, doubled>>
  BY MergeIsMerged DEF DeliverPush, NotedPush
<1>2. Past(p)
  BY <1>1 DEF IInv, AllPast
<1>3. /\ Waits' /\ MovesOn'
      /\ shown' \in Snapshot /\ preview' \in BOOLEAN /\ slipped' \in BOOLEAN
  BY <1>1, <1>2, MergeKeeps
<1>4. TypeOK'
  BY <1>1, <1>3 DEF IInv, TypeOK, connection, bounds
<1>5. AllPast'
  <2>1. Seen(p) /\ shown' \in {shown, p}
    BY <1>1 DEF Seen, Merged
  <2>2. ASSUME NEW s, Seen(s)' PROVE Seen(s)
    BY <1>1, <2>1, <2>2 DEF Seen, Answered, At, RollsBack
  <2> QED
    BY <1>1, <2>2, PastStep DEF IInv
<1>6. Informed'
  <2> SUFFICES ASSUME ~missed, ~doubled PROVE Informed'
    BY <1>1 DEF Informed
  <2>1. /\ \A r \in Req : /\ At(r, "answered")' <=> At(r, "answered")
                          /\ UpToDate(runs[r].answer)' <=> UpToDate(runs[r].answer)
        /\ NewsAskedFor' <=> NewsAskedFor
        /\ UnderWay' = UnderWay
    BY <1>1 DEF At, UpToDate, NewsAskedFor, Answered, UnderWay, game
  <2>2. CASE submitting
    <3>1. NewsOnItsWay'
      BY <1>1, <2>2 DEF NewsOnItsWay
    <3> QED
      BY <3>1 DEF Informed
  <2>3. CASE ~submitting
    <3>1. UpToDate(p) \/ UpToDate(shown) => UpToDate(shown)'
      BY <1>1, <1>2, <2>3, MergeInforms
    <3>2. NewsOnItsWay => NewsOnItsWay' \/ UpToDate(p)
      BY <1>1 DEF NewsOnItsWay, UpToDate, game
    <3>3. \A r \in Req : ~At(r, "answered")
      BY <2>3 DEF IInv, Waits, At, UnderWay
    <3> QED
      BY <2>1, <3>1, <3>2, <3>3 DEF IInv, Informed
  <2> QED
    BY <2>2, <2>3
<1> QED
  BY <1>3, <1>4, <1>5, <1>6 DEF IInv

-----------------------------------------------------------------------------
(* The player.                                                             *)

LEMMA BeginMoveSound == ASSUME IInv, NEW r \in Req, BeginMove(r) PROVE IInv'
<1> PICK h : h = [at |-> "rules", before |-> shown]
  OBVIOUS
<1>1. /\ runs[r] = None /\ runs' = [runs EXCEPT ![r] = h] /\ tries' \in Nat
      /\ UNCHANGED <<game, page, connection, inbox, gets, offers, faults, history>>
  BY DEF BeginMove, Try, IInv, TypeOK
<1>2. h \in Run /\ h # None /\ h.at = "rules" /\ h.before = shown
  BY SomeoneIsThere DEF Run, IInv, TypeOK
<1>3. runs'[r] = h /\ \A q \in Req \ {r} : runs'[q] = runs[q]
  BY <1>1 DEF IInv, TypeOK
<1>4. TypeOK'
  BY <1>1, <1>2 DEF IInv, TypeOK, connection, page, history
<1>5. AllPast'
  <2>1. ASSUME NEW s, Seen(s)' PROVE Seen(s)
    BY <1>1, <1>2, <1>3, <2>1 DEF Seen, Answered, At, RollsBack, page
  <2> QED
    BY <1>1, <2>1, PastStep DEF IInv
<1>6. UnderWay' = UnderWay
  BY <1>1, <1>2, <1>3 DEF UnderWay
<1>7. \A q \in UnderWay : q # r /\ runs'[q] = runs[q]
  BY <1>1, <1>3 DEF UnderWay
<1>8. Waits'
  BY <1>1, <1>6, <1>7 DEF IInv, Waits, At, page, history
<1>9. MovesOn'
  BY <1>1, <1>2, <1>3 DEF IInv, MovesOn, At, RollsBack, page, history
<1>10. Informed'
  <2>1. \A q \in Req : At(q, "answered")' => At(q, "answered") /\ runs'[q].answer = runs[q].answer
    BY <1>2, <1>3 DEF At
  <2>2. /\ NewsAskedFor' <=> NewsAskedFor
        /\ NewsOnItsWay' <=> NewsOnItsWay
        /\ \A s : UpToDate(s)' <=> UpToDate(s)
    BY <1>1 DEF NewsAskedFor, NewsOnItsWay, Answered, UpToDate, game, page
  <2>3. UpToDate(shown)' <=> UpToDate(shown)
    BY <1>1 DEF UpToDate, game, page
  <2>4. \A q \in Req : At(q, "answered")' => (UpToDate(runs[q].answer)' <=> UpToDate(runs[q].answer))
    BY <1>1, <2>1 DEF UpToDate, game
  <2> QED
    BY <1>1, <1>6, <2>1, <2>2, <2>3, <2>4 DEF IInv, Informed, history
<1> QED
  BY <1>4, <1>5, <1>8, <1>9, <1>10 DEF IInv

\* A request goes out: it is the only one, or two overlap.
LEMMA SendSound ==
  ASSUME IInv, NEW r \in Req, r \notin UnderWay, NEW h \in Run, h.at = "sent",
         runs' = [runs EXCEPT ![r] = h],
         h.kind = "move" => At(r, "rules") /\ h.before = runs[r].before,
         preview' \in BOOLEAN, preview' => preview \/ h.kind = "move",
         submitting' = TRUE, doubled' = (doubled \/ UnderWay # {}), tries' \in Nat,
         UNCHANGED <<game, shown, resync, connection, inbox, gets, offers, faults, missed, slipped>>
  PROVE  IInv'
<1>1. h # None /\ runs'[r] = h /\ \A q \in Req \ {r} : runs'[q] = runs[q]
  BY SomeoneIsThere DEF IInv, TypeOK
<1>2. TypeOK'
  BY DEF IInv, TypeOK, connection
<1>3. AllPast'
  <2>1. ASSUME NEW s, Seen(s)' PROVE Seen(s)
    BY <1>1, <2>1 DEF Seen, Answered, At, RollsBack
  <2> QED
    BY <2>1, PastStep DEF IInv
<1>4. r \in UnderWay' /\ UnderWay' = UnderWay \cup {r}
  BY <1>1 DEF UnderWay
<1>5. ~doubled' => ~doubled /\ UnderWay = {} /\ ~preview
  BY DEF IInv, Waits, TypeOK
<1>6. Waits'
  BY <1>1, <1>4, <1>5 DEF Waits
<1>7. MovesOn'
  <2>1. ASSUME NEW q \in Req, At(q, "answered")' PROVE q \in UnderWay
    BY <1>1, <2>1 DEF At, UnderWay
  <2>2. ASSUME NEW q \in Req, RollsBack(q)'
        PROVE  RollsBack(q) /\ runs'[q].before = runs[q].before
    BY <1>1, <2>2 DEF At, RollsBack
  <2> QED
    BY <1>5, <2>1, <2>2 DEF IInv, MovesOn
<1>8. Informed'
  <2>1. \A q \in Req : At(q, "answered")' => q \in UnderWay
    BY <1>1 DEF At, UnderWay
  <2> QED
    BY <1>4, <1>5, <2>1 DEF Informed
<1> QED
  BY <1>2, <1>3, <1>6, <1>7, <1>8 DEF IInv

LEMMA SendMoveSound == ASSUME IInv, NEW r \in Req, SendMove(r) PROVE IInv'
<1> PICK h : h = [at |-> "sent", kind |-> "move", before |-> runs[r].before]
  OBVIOUS
<1>1. /\ At(r, "rules") /\ runs' = [runs EXCEPT ![r] = h]
      /\ preview' = TRUE /\ submitting' = TRUE /\ doubled' = (doubled \/ UnderWay # {})
      /\ UNCHANGED <<game, shown, resync, connection, inbox, gets, bounds, missed, slipped>>
  BY DEF SendMove, At
<1>2. h \in Run /\ h.at = "sent" /\ h.kind = "move" /\ h.before = runs[r].before
  BY <1>1, HandlerTypes DEF Run, IInv
<1>3. r \notin UnderWay /\ tries \in Nat
  BY <1>1 DEF At, UnderWay, IInv, TypeOK
<1> QED
  BY <1>1, <1>2, <1>3, SendSound DEF bounds

LEMMA BeginActionSound ==
  ASSUME IInv, NEW r \in Req, NEW kind \in Actions, BeginAction(r, kind)
  PROVE  IInv'
<1> PICK h : h = [at |-> "sent", kind |-> kind]
  OBVIOUS
<1>1. /\ runs[r] = None /\ runs' = [runs EXCEPT ![r] = h] /\ tries' \in Nat
      /\ submitting' = TRUE /\ doubled' = (doubled \/ UnderWay # {})
      /\ UNCHANGED <<game, shown, preview, resync, connection, inbox, gets, offers, faults, missed, slipped>>
  BY DEF BeginAction, Try, IInv, TypeOK
<1>2. h \in Run /\ h.at = "sent" /\ h.kind # "move"
  BY DEF Run, Actions
<1>3. r \notin UnderWay /\ preview \in BOOLEAN
  BY <1>1 DEF UnderWay, IInv, TypeOK
<1> QED
  BY <1>1, <1>2, <1>3, SendSound

\* The request reaches the server, or does not; the answer comes, or does not.
LEMMA ServeSound == ASSUME IInv, NEW r \in Req, Serve(r) PROVE IInv'
<1> PICK lost : lost = [runs[r] EXCEPT !.at = "failed"]
  OBVIOUS
<1> PICK kept : kept = [at |-> "answered", answer |-> Current']
  OBVIOUS
<1>1. /\ At(r, "sent") /\ offers' \in Nat /\ faults' \in Nat
      /\ UNCHANGED <<page, connection, gets, tries, slipped, doubled>>
      /\ \/ /\ Advance /\ Pushed
            /\ \E h \in {lost, kept} : runs' = [runs EXCEPT ![r] = h]
         \/ /\ UNCHANGED <<game, inbox, missed>>
            /\ runs' = [runs EXCEPT ![r] = lost]
  <2>1. /\ At(r, "sent") /\ offers \in Nat /\ faults \in Nat
        /\ UNCHANGED <<page, connection, gets, tries, slipped, doubled>>
    BY DEF Serve, At, IInv, TypeOK
  <2>2. Fails(r) => runs' = [runs EXCEPT ![r] = lost]
    BY DEF Fails
  <2>3. MayFail => faults' \in Nat
    BY <2>1 DEF MayFail
  <2>4. CASE Serves(runs[r].kind)
    <3>1. offers' \in Nat /\ Advance
      BY <2>1, <2>4, ServesAdvances DEF Serves, IInv
    <3> QED
      BY <2>1, <2>2, <2>3, <3>1 DEF Serve
  <2> QED
    BY <2>1, <2>2, <2>3, <2>4 DEF Serve
<1>2. PICK h \in {lost, kept} :
        /\ runs' = [runs EXCEPT ![r] = h]
        /\ h = kept => Advance /\ Pushed
  BY <1>1
<1>3. /\ lost \in Run /\ lost.at = "failed" /\ lost.kind = runs[r].kind
      /\ runs[r].kind = "move" => lost.before = runs[r].before
  BY <1>1, HandlerTypes DEF Run, IInv, TypeOK, At
<1>4. h = kept => h \in Run /\ h.at = "answered" /\ h.answer = Current' /\ Current' \in Snapshot
  <2>1. Advance => Current' \in Snapshot
    BY DEF Advance, Current, Snapshot
  <2> QED
    BY <1>2, <2>1 DEF Run
<1>5. h \in Run /\ h # None
  BY <1>2, <1>3, <1>4, SomeoneIsThere
<1>6. runs'[r] = h /\ \A q \in Req \ {r} : runs'[q] = runs[q]
  BY <1>2 DEF IInv, TypeOK
<1>7. RollsBack(r)' => h = lost /\ RollsBack(r) /\ runs'[r].before = runs[r].before
  <2>1. CASE h = kept
    BY <1>4, <1>6, <2>1 DEF RollsBack, At
  <2>2. CASE h = lost
    <3>1. RollsBack(r)' => runs[r].kind = "move"
      BY <1>3, <1>6, <2>2 DEF RollsBack, At
    <3> QED
      BY <1>1, <1>3, <1>6, <2>2, <3>1 DEF RollsBack
  <2> QED
    BY <1>2, <2>1, <2>2
<1>8. TypeOK'
  <2>1. inbox' \subseteq Snapshot /\ missed' \in BOOLEAN
    <3>1. Advance => Current' \in Snapshot
      BY DEF Advance, Current, Snapshot
    <3> QED
      BY <1>1, <3>1 DEF IInv, TypeOK, Pushed
  <2> QED
    BY <1>1, <1>2, <1>5, <2>1 DEF IInv, TypeOK, connection, page
<1>9. AllPast'
  <2>1. ASSUME NEW s, Seen(s)' PROVE Seen(s) \/ s = Current'
    <3>1. s \in inbox' => s \in inbox \/ s = Current'
      BY <1>1 DEF Pushed
    <3>2. ASSUME NEW g \in Gets, Answered(g)', s = gets'[g].answer PROVE Seen(s)
      BY <1>1, <3>2 DEF Answered, Seen
    <3>3. ASSUME NEW q \in Req, q # r,
                 \/ At(q, "answered")' /\ s = runs'[q].answer
                 \/ RollsBack(q)' /\ s = runs'[q].before
          PROVE  Seen(s)
      BY <1>6, <3>3 DEF At, RollsBack, Seen
    <3>4. ASSUME At(r, "answered")', s = runs'[r].answer PROVE s = Current'
      BY <1>2, <1>3, <1>4, <1>6, <3>4 DEF At
    <3>5. ASSUME RollsBack(r)', s = runs'[r].before PROVE Seen(s)
      BY <1>7, <3>5 DEF Seen
    <3> QED
      BY <1>1, <2>1, <3>1, <3>2, <3>3, <3>4, <3>5 DEF Seen, page
  <2>2. Advance \/ UNCHANGED game
    BY <1>1
  <2> QED
    BY <2>1, <2>2, PastStep DEF IInv
<1>10. r \in UnderWay /\ UnderWay' = UnderWay
  <2>1. r \in UnderWay
    BY <1>1 DEF At, UnderWay
  <2>2. h.at # "rules"
    BY <1>2, <1>3, <1>4
  <2> QED
    BY <1>5, <1>6, <2>1, <2>2 DEF UnderWay
<1>11. Waits'
  <2>1. \A q \in UnderWay : At(q, "answered") \/ runs[q].kind = "move" =>
          At(q, "answered")' \/ runs'[q].kind = "move"
    BY <1>1, <1>2, <1>3, <1>4, <1>5, <1>6 DEF At, UnderWay
  <2> QED
    BY <1>1, <1>10, <2>1 DEF IInv, Waits, page
<1>12. MovesOn'
  <2> SUFFICES ASSUME ~doubled, NEW q \in Req
               PROVE  /\ At(q, "answered")' =>
                           /\ runs'[q].answer.ply >= shown.ply
                           /\ Terminal(shown.status) => Terminal(runs'[q].answer.status)
                      /\ ~slipped /\ RollsBack(q)' => runs'[q].before = shown
    BY <1>1 DEF MovesOn, page
  <2>1. CASE q # r
    BY <1>6, <2>1 DEF IInv, MovesOn, At, RollsBack
  <2>2. CASE q = r /\ h = lost
    <3>1. ~At(q, "answered")'
      BY <1>3, <1>6, <2>2 DEF At
    <3> QED
      BY <1>7, <2>2, <3>1 DEF IInv, MovesOn
  <2>3. CASE q = r /\ h = kept
    <3>1. /\ Advance /\ runs'[q].answer = Current' /\ ~RollsBack(q)'
      BY <1>2, <1>4, <1>6, <2>3 DEF At, RollsBack
    <3>2. Current'.ply >= shown.ply /\ ~Terminal(shown.status)
      <4>1. /\ shown.ply <= Len(moves) /\ shown.status \in {"active", status}
            /\ shown.ply \in Nat /\ Len(moves) \in Nat
        BY DEF IInv, AllPast, Past, Snapshot
      <4>2. Len(moves') >= Len(moves) /\ Len(moves') \in Nat /\ status = "active"
        BY <3>1 DEF Advance
      <4> QED
        BY <4>1, <4>2 DEF Current, Terminal
    <3> QED
      BY <3>1, <3>2
  <2> QED
    BY <1>2, <2>1, <2>2, <2>3
<1>13. Informed'
  <2>1. CASE Advance /\ Pushed
    BY <2>1, PushInforms DEF IInv
  <2>2. CASE UNCHANGED <<game, inbox, missed>> /\ runs' = [runs EXCEPT ![r] = lost]
    <3>1. runs'[r] = lost /\ ~At(r, "answered")'
      BY <1>3, <2>2 DEF IInv, TypeOK, At
    <3>2. \A q \in Req : At(q, "answered")' => At(q, "answered") /\ runs'[q].answer = runs[q].answer
      BY <1>6, <3>1 DEF At
    <3>3. NewsOnItsWay' <=> NewsOnItsWay
      BY <1>1, <2>2 DEF NewsOnItsWay, UpToDate, game, page
    <3>4. \A q \in Req : At(q, "answered")' => (UpToDate(runs[q].answer)' <=> UpToDate(runs[q].answer))
      BY <2>2, <3>2 DEF UpToDate, game
    <3> QED
      BY <1>1, <1>10, <2>2, <3>2, <3>3, <3>4 DEF IInv, Informed
  <2> QED
    BY <1>1, <2>1, <2>2
<1> QED
  BY <1>8, <1>9, <1>11, <1>12, <1>13 DEF IInv

\* The request is over, and the page is what it was, newer, or asks anew.
LEMMA SettleSound == ASSUME IInv, NEW r \in Req, Settle(r) PROVE IInv'
<1>1. /\ r \in UnderWay
      /\ submitting' = FALSE /\ NotesSlip /\ runs' = [runs EXCEPT ![r] = None]
      /\ UNCHANGED <<game, resync, connection, inbox, bounds, missed, doubled>>
      /\ \/ /\ At(r, "answered") /\ shown' = runs[r].answer /\ preview' = FALSE
            /\ UNCHANGED gets
         \/ /\ At(r, "failed")
            /\ \/ runs[r].kind = "move" /\ shown' = runs[r].before /\ preview' = FALSE
               \/ runs[r].kind # "move" /\ UNCHANGED <<shown, preview>>
            /\ \E g \in Gets : SendGet(g)
  BY DEF Settle, At, UnderWay, Rollback
<1>2. runs'[r] = None /\ \A q \in Req \ {r} : runs'[q] = runs[q]
  BY <1>1 DEF IInv, TypeOK
<1>3. /\ gets' \in [Gets -> Get \cup {None}]
      /\ \A g \in Gets : Answered(g)' => Answered(g) /\ gets'[g] = gets[g]
      /\ At(r, "failed") => \E g \in Gets : gets'[g] # None /\ ~Answered(g)'
  <2>1. gets \in [Gets -> Get \cup {None}] /\ [at |-> "sent"] \in Get /\ [at |-> "sent"] # None
    BY SomeoneIsThere DEF IInv, TypeOK, Get
  <2>2. CASE UNCHANGED gets /\ At(r, "answered")
    BY <2>1, <2>2 DEF Answered, At
  <2>3. ASSUME NEW g \in Gets, SendGet(g)
        PROVE  /\ gets' \in [Gets -> Get \cup {None}] /\ gets'[g] # None /\ ~Answered(g)'
               /\ \A k \in Gets : Answered(k)' => Answered(k) /\ gets'[k] = gets[k]
    BY <2>1, <2>3 DEF SendGet, Answered
  <2> QED
    BY <1>1, <2>2, <2>3
<1>4. TypeOK'
  <2>1. shown' \in Snapshot /\ preview' \in BOOLEAN /\ slipped' \in BOOLEAN
    BY <1>1, HandlerTypes DEF IInv, TypeOK, NotesSlip
  <2> QED
    BY <1>1, <1>3, <2>1 DEF IInv, TypeOK, connection, bounds
<1>5. AllPast'
  <2>1. Seen(shown')
    BY <1>1 DEF Seen, RollsBack
  <2>2. ASSUME NEW s, Seen(s)' PROVE Seen(s)
    <3>1. ASSUME NEW q \in Req,
                 \/ At(q, "answered")' /\ s = runs'[q].answer
                 \/ RollsBack(q)' /\ s = runs'[q].before
          PROVE  Seen(s)
      BY <1>2, <3>1 DEF At, RollsBack, Seen
    <3>2. ASSUME NEW g \in Gets, Answered(g)', s = gets'[g].answer PROVE Seen(s)
      BY <1>3, <3>2 DEF Seen
    <3>3. s \in inbox' => Seen(s)
      BY <1>1 DEF Seen
    <3> QED
      BY <2>1, <2>2, <3>1, <3>2, <3>3 DEF Seen
  <2> QED
    BY <1>1, <2>2, PastStep DEF IInv
<1>6. ASSUME ~doubled
      PROVE  /\ UnderWay' = {} /\ preview' = FALSE
             /\ \A q \in Req : ~At(q, "answered")' /\ (RollsBack(q)' => RollsBack(q) /\ At(q, "rules"))
  <2>1. \A q \in UnderWay : q = r
    BY <1>1, <1>6 DEF IInv, Waits
  <2>2. preview => At(r, "answered") \/ runs[r].kind = "move"
    BY <1>6, <2>1 DEF IInv, Waits
  <2>3. preview' = FALSE
    BY <1>1, <2>2 DEF At, IInv, TypeOK
  <2>4. ASSUME NEW q \in Req PROVE runs'[q] = None \/ (At(q, "rules") /\ runs'[q] = runs[q])
    BY <1>2, <2>1, <2>4 DEF At, UnderWay
  <2> QED
    BY <2>3, <2>4 DEF UnderWay, At, RollsBack
<1>7. Waits'
  BY <1>1, <1>6 DEF Waits
<1>8. MovesOn'
  <2> SUFFICES ASSUME ~doubled, NEW q \in Req, ~slipped', RollsBack(q)'
               PROVE  runs'[q].before = shown'
    BY <1>1, <1>6 DEF MovesOn
  <2>1. RollsBack(q) /\ At(q, "rules") /\ q # r
    BY <1>2, <1>6 DEF RollsBack, At
  <2>2. ~slipped /\ shown' = shown
    BY <1>1, <2>1 DEF NotesSlip, At
  <2> QED
    BY <1>2, <2>1, <2>2 DEF IInv, MovesOn
<1>9. Informed'
  <2> SUFFICES ASSUME ~missed, ~doubled
               PROVE  UpToDate(shown)' \/ NewsOnItsWay' \/ NewsAskedFor'
    BY <1>1, <1>6 DEF Informed
  <2>1. CASE At(r, "answered")
    <3>1. shown' = runs[r].answer
      BY <1>1, <2>1 DEF At
    <3>2. UpToDate(runs[r].answer) \/ NewsOnItsWay
      BY <2>1 DEF IInv, Informed
    <3> QED
      BY <1>1, <3>1, <3>2 DEF UpToDate, NewsOnItsWay, game
  <2>2. CASE At(r, "failed")
    BY <1>3, <2>2 DEF NewsAskedFor
  <2> QED
    BY <1>1, <2>1, <2>2
<1> QED
  BY <1>4, <1>5, <1>7, <1>8, <1>9 DEF IInv

-----------------------------------------------------------------------------

LEMMA Starts == Init => IInv
<1> SUFFICES ASSUME Init PROVE IInv
  OBVIOUS
<1>1. /\ moves = << >> /\ offer = None /\ status = "active"
      /\ shown = [ply |-> 0, status |-> "active", offer |-> None]
      /\ preview = FALSE /\ submitting = FALSE /\ resync = FALSE /\ link = "down"
      /\ hadConnected = FALSE /\ inbox = {}
      /\ gets = [g \in Gets |-> None] /\ runs = [r \in Req |-> None]
      /\ offers = 0 /\ tries = 0 /\ faults = 0
      /\ missed = FALSE /\ slipped = FALSE /\ doubled = FALSE
  BY DEF Init, Server!Init, Current
<1>2. TypeOK
  BY <1>1 DEF TypeOK, Snapshot, Statuses
<1>3. UnderWay = {} /\ (\A r \in Req : ~At(r, "answered") /\ ~RollsBack(r)) /\ \A g \in Gets : ~Answered(g)
  BY <1>1 DEF UnderWay, At, RollsBack, Answered
<1>4. AllPast
  BY <1>1, <1>3 DEF AllPast, Past, Snapshot, Statuses, Terminal
<1>5. UpToDate(shown)
  BY <1>1 DEF UpToDate
<1> QED
  BY <1>1, <1>2, <1>3, <1>4, <1>5 DEF IInv, Waits, MovesOn, Informed

LEMMA Inductive == IInv /\ [Next]_vars => IInv'
<1> SUFFICES ASSUME IInv, [Next]_vars PROVE IInv'
  OBVIOUS
<1>1. CASE OtherSide
  BY <1>1, OtherSideSound
<1>2. ASSUME NEW r \in Req, BeginMove(r) \/ SendMove(r) \/ Serve(r) \/ Settle(r) PROVE IInv'
  BY <1>2, BeginMoveSound, SendMoveSound, ServeSound, SettleSound
<1>3. ASSUME NEW r \in Req, NEW kind \in Actions, BeginAction(r, kind) PROVE IInv'
  BY <1>3, BeginActionSound
<1>4. ASSUME NEW g \in Gets, DeliverGet(g) PROVE IInv'
  BY <1>4, DeliverGetSound
<1>5. ASSUME NEW p \in inbox, DeliverPush(p) PROVE IInv'
  BY <1>5, DeliverPushSound
<1>6. CASE \/ \E g \in Gets : Poll(g) \/ Wake(g) \/ AnswerGet(g) \/ FailGet(g) \/ Resync(g)
           \/ Connect \/ EnterRoom \/ Disconnect
           \/ UNCHANGED vars
  BY <1>6, TransportSound
<1> QED
  BY <1>1, <1>2, <1>3, <1>4, <1>5, <1>6 DEF Next

\* The inductive invariant: everything on its way was once true, and a page that
\* is behind has something coming.
THEOREM Invariance == Spec => []IInv
BY Starts, Inductive, PTL DEF Spec

\* The page, its requests and its messages keep their shape.
THEOREM TypeCorrect == Spec => []TypeOK
BY Invariance, PTL DEF IInv

\* A page that missed no push, and waits for nothing, shows the game as it is:
\* the pushes it dropped while submitting are made up for.
THEOREM QuietPageIsCurrent == Spec => []QuietIsCurrent
<1>1. IInv => QuietIsCurrent
  <2> SUFFICES ASSUME IInv, Quiet, ~missed, ~doubled PROVE UpToDate(shown) /\ ~preview
    BY DEF QuietIsCurrent, UpToDate
  <2>1. UnderWay = {} /\ ~NewsOnItsWay /\ ~NewsAskedFor
    BY DEF Quiet, UnderWay, NewsOnItsWay, NewsAskedFor
  <2> QED
    BY <2>1 DEF IInv, Informed, Waits
<1> QED
  BY <1>1, Invariance, PTL

\* No transport rewinds the board, nor takes it out of a finished game.
LEMMA StepNeverRewinds ==
  ASSUME IInv, [Next]_vars, ~doubled', ~slipped'
  PROVE  /\ shown'.ply >= shown.ply
         /\ Terminal(shown.status) => Terminal(shown'.status)
<1>0. shown.ply \in Nat
  BY DEF IInv, TypeOK, Snapshot
<1>1. CASE UNCHANGED shown
  BY <1>0, <1>1
<1>2. ASSUME NEW a, Past(a), Merged(a), ~UNCHANGED shown
      PROVE  /\ shown'.ply >= shown.ply
             /\ Terminal(shown.status) => Terminal(shown'.status)
  BY <1>2, StalenessIsAge DEF Merged, IInv
<1>3. ASSUME NEW g \in Gets, DeliverGet(g), ~UNCHANGED shown
      PROVE  /\ shown'.ply >= shown.ply
             /\ Terminal(shown.status) => Terminal(shown'.status)
  <2>1. Merged(gets[g].answer) /\ Past(gets[g].answer)
    BY <1>3, MergeIsMerged DEF DeliverGet, Answered, IInv, AllPast
  <2> QED
    BY <1>2, <1>3, <2>1
<1>4. ASSUME NEW p \in inbox, DeliverPush(p), ~UNCHANGED shown
      PROVE  /\ shown'.ply >= shown.ply
             /\ Terminal(shown.status) => Terminal(shown'.status)
  <2>1. Merged(p) /\ Past(p)
    BY <1>4, MergeIsMerged DEF DeliverPush, IInv, AllPast
  <2> QED
    BY <1>2, <1>4, <2>1
<1>5. ASSUME NEW r \in Req, Settle(r), ~UNCHANGED shown
      PROVE  /\ shown'.ply >= shown.ply
             /\ Terminal(shown.status) => Terminal(shown'.status)
  <2>1. ~doubled /\ ~slipped
    BY <1>5 DEF Settle, NotesSlip, IInv, TypeOK
  <2>2. CASE runs[r].at = "answered"
    <3>1. At(r, "answered") /\ shown' = runs[r].answer
      BY <1>5, <2>2 DEF Settle, At
    <3> QED
      BY <2>1, <3>1 DEF IInv, MovesOn
  <2>3. CASE runs[r].at = "failed"
    <3>1. RollsBack(r) /\ shown' = runs[r].before
      BY <1>5, <2>3 DEF Settle, Rollback, RollsBack, At
    <3> QED
      BY <1>5, <2>1, <3>1 DEF IInv, MovesOn
  <2> QED
    BY <1>5, <2>2, <2>3 DEF Settle
<1>6. ASSUME NEW r \in Req,
             BeginMove(r) \/ SendMove(r) \/ (\E kind \in Actions : BeginAction(r, kind)) \/ Serve(r)
      PROVE  UNCHANGED shown
  BY <1>6 DEF BeginMove, SendMove, BeginAction, Serve, page
<1>7. ASSUME NEW g \in Gets, Poll(g) \/ Wake(g) \/ AnswerGet(g) \/ FailGet(g) \/ Resync(g)
      PROVE  UNCHANGED shown
  BY <1>7 DEF Poll, Wake, AnswerGet, FailGet, Resync, page
<1>8. OtherSide \/ Connect \/ EnterRoom \/ Disconnect \/ UNCHANGED vars => UNCHANGED shown
  BY DEF OtherSide, Connect, EnterRoom, Disconnect, vars, page
<1> QED
  BY <1>1, <1>3, <1>4, <1>5, <1>6, <1>7, <1>8 DEF Next

\* Pushes, polls and answers, in whatever order they arrive, never take the page
\* back, unless two requests overlapped or a rollback slipped.
THEOREM BoardIsNeverRewound == Spec => BoardNeverRewinds
<1>1. IInv /\ [Next]_vars =>
        [~doubled' /\ ~slipped' => /\ shown'.ply >= shown.ply
                                   /\ Terminal(shown.status) => Terminal(shown'.status)]_vars
  BY StepNeverRewinds
<1> QED
  BY <1>1, Invariance, PTL DEF Spec, BoardNeverRewinds
===============================================================================
