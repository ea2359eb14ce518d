----------------------------- MODULE PlayerProofs -----------------------------
(***************************************************************************)
(* Theorems about the rows a player trains and plays for: Ratings, Streak  *)
(* and PuzzleProgress, each by itself, for any number of overlapping       *)
(* handlers.                                                               *)
(***************************************************************************)
EXTENDS Ratings, Streak, PuzzleProgress, SequenceTheorems, FiniteSetTheorems, TLAPS

-----------------------------------------------------------------------------
(* Ratings.                                                                *)

\* No two transactions hold the same game or the same rating row.
Exclusive ==
  \A r, s \in Req : r # s =>
    /\ ~(InTransaction(r) /\ HoldsGame(s, pass[r].game))
    /\ \A u \in RatedUsers : ~(HoldsRow(r, u) /\ HoldsRow(s, u))

\* A transaction claimed its game before anybody counted it.
Unrated == \A r \in Req : InTransaction(r) => ~rated[pass[r].game]

RowsExist ==
  \A r \in Req : At(r, "claim") \/ InTransaction(r) =>
    /\ rating[White[pass[r].game]] # None
    /\ rating[Black[pass[r].game]] # None

\* What was read under the locks is still there.
ReadStands ==
  \A r \in Req : At(r, "commit") =>
    /\ pass[r].read.white = rating[White[pass[r].game]].value
    /\ pass[r].read.black = rating[Black[pass[r].game]].value

RowsBeforeHistory == \A u \in RatedUsers : rating[u] = None => history[u] = << >>

RatingsIInv ==
  /\ RatingsTypeOK
  /\ Exclusive
  /\ Unrated
  /\ RowsExist
  /\ ReadStands
  /\ RatingsChain
  /\ RowsBeforeHistory
  /\ GamesCountOnce

LEMMA PlayersFacts ==
  ASSUME NEW g \in RatedGames
  PROVE  White[g] \in RatedUsers /\ Black[g] \in RatedUsers /\ White[g] # Black[g]
BY RatingsAssumption

LEMMA LockOrderFacts ==
  ASSUME NEW g \in RatedGames
  PROVE  /\ LockOrder(g)[1] \in RatedUsers /\ LockOrder(g)[2] \in RatedUsers
         /\ {LockOrder(g)[1], LockOrder(g)[2]} = {White[g], Black[g]}
         /\ RowId[LockOrder(g)[1]] < RowId[LockOrder(g)[2]]
         /\ RowId[LockOrder(g)[1]] \in Nat /\ RowId[LockOrder(g)[2]] \in Nat
<1>1. /\ RowId[White[g]] \in Nat /\ RowId[Black[g]] \in Nat
      /\ RowId[White[g]] # RowId[Black[g]]
  BY PlayersFacts, RatingsAssumption
<1> QED
  BY <1>1, PlayersFacts DEF LockOrder

LEMMA PassTypes ==
  ASSUME RatingsTypeOK, NEW r \in Req
  PROVE  /\ pass[r] \in PassState
         /\ pass[r] # None => pass[r].game \in RatedGames
         /\ At(r, "lock") => /\ pass[r].next \in {1, 2}
                             /\ pass[r] = [at |-> "lock", game |-> pass[r].game, next |-> pass[r].next]
         /\ At(r, "commit") => /\ pass[r].read \in Reread
                               /\ pass[r].read.white \in Value /\ pass[r].read.black \in Value
<1>1. pass[r] \in PassState
  BY DEF RatingsTypeOK
<1> QED
  BY <1>1 DEF PassState, At, Reread

\* Which rows a transaction holds.
LEMMA HeldRows ==
  ASSUME RatingsTypeOK, NEW r \in Req, NEW u \in RatedUsers
  PROVE  /\ At(r, "reread") \/ At(r, "commit") =>
              (HoldsRow(r, u) <=> u \in {White[pass[r].game], Black[pass[r].game]})
         /\ At(r, "lock") =>
              (HoldsRow(r, u) <=> pass[r].next = 2 /\ u = LockOrder(pass[r].game)[1])
<1>1. ASSUME At(r, "reread") \/ At(r, "commit")
      PROVE  HoldsRow(r, u) <=> u \in {White[pass[r].game], Black[pass[r].game]}
  <2>1. pass[r].game \in RatedGames
    BY <1>1, PassTypes DEF At
  <2>2. HoldsRow(r, u) <=> \E i \in {1, 2} : u = LockOrder(pass[r].game)[i]
    BY <1>1 DEF HoldsRow, InTransaction, At
  <2> QED
    BY <2>1, <2>2, LockOrderFacts
<1>2. ASSUME At(r, "lock")
      PROVE  HoldsRow(r, u) <=> pass[r].next = 2 /\ u = LockOrder(pass[r].game)[1]
  <2>1. pass[r].next \in {1, 2}
    BY <1>2, PassTypes
  <2> QED
    BY <1>2, <2>1 DEF HoldsRow, InTransaction
<1> QED
  BY <1>1, <1>2

\* Changing one slot to a pass that holds no more than its own slot did
\* before keeps the transactions apart.
LEMMA SlotKeeps ==
  ASSUME RatingsIInv, NEW r \in Req, NEW h \in PassState, Go(r, h), UNCHANGED <<rated, rating, history>>,
         InTransaction(r)' => ~rated[h.game],
         InTransaction(r)' => \A s \in Req \ {r} : ~HoldsGame(s, h.game),
         \A u \in RatedUsers : HoldsRow(r, u)' => \A s \in Req \ {r} : ~HoldsRow(s, u),
         At(r, "claim")' \/ InTransaction(r)' =>
           rating[White[h.game]] # None /\ rating[Black[h.game]] # None,
         At(r, "commit")' => /\ h.read.white = rating[White[h.game]].value
                             /\ h.read.black = rating[Black[h.game]].value
  PROVE  RatingsIInv'
<1>1. /\ pass' \in [Req -> PassState] /\ pass'[r] = h
      /\ \A s \in Req \ {r} : pass'[s] = pass[s]
  BY DEF Go, RatingsIInv, RatingsTypeOK
<1>2. RatingsTypeOK' /\ RatingsChain' /\ GamesCountOnce' /\ RowsBeforeHistory'
  BY <1>1 DEF RatingsIInv, RatingsTypeOK, RatingsChain, GamesCountOnce, LastValue, RowsBeforeHistory
<1>3. \A s \in Req \ {r} :
        /\ \A w \in {"ensure", "claim", "lock", "reread", "commit"} : At(s, w)' <=> At(s, w)
        /\ InTransaction(s)' <=> InTransaction(s)
        /\ \A g : HoldsGame(s, g)' <=> HoldsGame(s, g)
        /\ \A u : HoldsRow(s, u)' <=> HoldsRow(s, u)
  BY <1>1 DEF At, InTransaction, HoldsGame, HoldsRow, LockOrder
<1>4. Unrated' /\ RowsExist' /\ ReadStands'
  BY <1>1, <1>3 DEF RatingsIInv, Unrated, RowsExist, ReadStands
<1>5. Exclusive'
  <2> SUFFICES ASSUME NEW p \in Req, NEW s \in Req, p # s
               PROVE  /\ ~(InTransaction(p) /\ HoldsGame(s, pass[p].game))'
                      /\ \A u \in RatedUsers : ~(HoldsRow(p, u) /\ HoldsRow(s, u))'
    BY DEF Exclusive
  <2>1. CASE p = r
    BY <1>1, <1>3, <2>1
  <2>2. CASE s = r
    <3>1. p \in Req \ {r}
      BY <2>2
    <3>2. ~(InTransaction(p) /\ HoldsGame(s, pass[p].game))'
      <4> SUFFICES ASSUME InTransaction(p)', HoldsGame(s, pass[p].game)' PROVE FALSE
        OBVIOUS
      <4>1. InTransaction(p) /\ InTransaction(r)' /\ pass[p].game = h.game
        BY <1>1, <1>3, <2>2, <3>1 DEF HoldsGame
      <4> QED
        BY <3>1, <4>1 DEF HoldsGame
    <3> QED
      BY <1>3, <2>2, <3>1, <3>2
  <2>3. CASE p # r /\ s # r
    BY <1>1, <1>3, <2>3 DEF RatingsIInv, Exclusive
  <2> QED
    BY <2>1, <2>2, <2>3
<1> QED
  BY <1>2, <1>4, <1>5 DEF RatingsIInv

LEMMA NoPassKeeps ==
  ASSUME RatingsIInv, NEW r \in Req, Go(r, None), UNCHANGED <<rated, rating, history>>
  PROVE  RatingsIInv'
<1>1. pass'[r] = None /\ None \in PassState
  BY DEF Go, RatingsIInv, RatingsTypeOK, PassState
<1>2. /\ ~InTransaction(r)' /\ ~At(r, "claim")' /\ ~At(r, "commit")'
      /\ \A u \in RatedUsers : ~HoldsRow(r, u)'
  BY <1>1 DEF At, InTransaction, HoldsRow
<1> QED
  BY <1>1, <1>2, SlotKeeps

LEMMA StartKeeps ==
  ASSUME RatingsIInv, NEW r \in Req, NEW g \in RatedGames, StartPass(r, g)
  PROVE  RatingsIInv'
<1> DEFINE h == [at |-> "ensure", game |-> g]
<1>1. h \in PassState /\ Go(r, h) /\ UNCHANGED <<rated, rating, history>>
  BY DEF StartPass, PassState
<1>2. pass'[r] = h
  BY <1>1 DEF Go, RatingsIInv, RatingsTypeOK
<1>3. /\ ~InTransaction(r)' /\ ~At(r, "claim")' /\ ~At(r, "commit")'
      /\ \A u \in RatedUsers : ~HoldsRow(r, u)'
  BY <1>2 DEF At, InTransaction, HoldsRow
<1> HIDE DEF h
<1> QED
  BY <1>1, <1>3, SlotKeeps

LEMMA ClaimKeeps ==
  ASSUME RatingsIInv, NEW r \in Req, ClaimGame(r)
  PROVE  RatingsIInv'
<1> DEFINE g == pass[r].game
           h == [at |-> "lock", game |-> g, next |-> 1]
<1>1. /\ At(r, "claim") /\ \A s \in Req : ~HoldsGame(s, g)
      /\ UNCHANGED <<rated, rating, history>>
      /\ Go(r, IF rated[g] THEN None ELSE h)
  BY DEF ClaimGame, AlreadyProcessed
<1>2. CASE rated[g]
  BY <1>1, <1>2, NoPassKeeps
<1>3. CASE ~rated[g]
  <2>1. g \in RatedGames
    BY <1>1, PassTypes DEF RatingsIInv, At
  <2>2. h \in PassState /\ Go(r, h) /\ h.game = g
    BY <1>1, <1>3, <2>1 DEF PassState
  <2>3. pass'[r] = h
    BY <2>2 DEF Go, RatingsIInv, RatingsTypeOK
  <2>4. ~At(r, "commit")' /\ ~At(r, "reread")' /\ \A u \in RatedUsers : ~HoldsRow(r, u)'
    BY <2>3 DEF At, InTransaction, HoldsRow
  <2>5. rating[White[g]] # None /\ rating[Black[g]] # None
    BY <1>1 DEF RatingsIInv, RowsExist
  <2> HIDE DEF h
  <2> QED
    BY <1>1, <1>3, <2>2, <2>4, <2>5, SlotKeeps
<1> QED
  BY <1>2, <1>3

LEMMA LockKeeps ==
  ASSUME RatingsIInv, NEW r \in Req, LockRow(r)
  PROVE  RatingsIInv'
<1> DEFINE g == pass[r].game
           h == IF pass[r].next = 1 THEN [pass[r] EXCEPT !.next = 2]
                ELSE [at |-> "reread", game |-> g]
<1>1. /\ At(r, "lock") /\ Go(r, h) /\ UNCHANGED <<rated, rating, history>>
      /\ \A s \in Req \ {r} : ~HoldsRow(s, LockOrder(g)[pass[r].next])
  BY DEF LockRow
<1>2. /\ g \in RatedGames /\ pass[r].next \in {1, 2}
      /\ pass[r] = [at |-> "lock", game |-> g, next |-> pass[r].next]
  BY <1>1, PassTypes DEF RatingsIInv, At
<1>3. h = IF pass[r].next = 1 THEN [at |-> "lock", game |-> g, next |-> 2]
          ELSE [at |-> "reread", game |-> g]
  BY <1>2
<1> HIDE DEF h
<1>4. h \in PassState /\ h.game = g
  BY <1>2, <1>3 DEF PassState
<1>5. pass'[r] = h /\ InTransaction(r)
  BY <1>1 DEF Go, RatingsIInv, RatingsTypeOK, InTransaction
<1>6. ~rated[g] /\ rating[White[g]] # None /\ rating[Black[g]] # None
  BY <1>5 DEF RatingsIInv, Unrated, RowsExist
<1>7. \A s \in Req \ {r} : ~HoldsGame(s, g)
  BY <1>5 DEF RatingsIInv, Exclusive
<1>8. ASSUME NEW u \in RatedUsers, HoldsRow(r, u)', NEW s \in Req \ {r} PROVE ~HoldsRow(s, u)
  <2>1. PICK i \in {1, 2} : u = LockOrder(g)[i] /\ (pass[r].next = 1 => i = 1)
    <3>1. pass'[r] # None /\ pass'[r].game = g
      BY <1>4, <1>5, <1>8 DEF HoldsRow, InTransaction, At
    <3>2. PICK i \in {1, 2} : u = LockOrder(g)[i] /\ (At(r, "lock")' => i < pass'[r].next)
      BY <1>8, <3>1 DEF HoldsRow, LockOrder
    <3>3. pass[r].next = 1 => i = 1
      BY <1>2, <1>3, <1>5, <3>1, <3>2 DEF At
    <3> QED
      BY <3>2, <3>3
  <2>2. i = pass[r].next \/ HoldsRow(r, u)
    BY <1>1, <1>2, <1>5, <2>1 DEF HoldsRow
  <2> QED
    BY <1>1, <1>8, <2>1, <2>2 DEF RatingsIInv, Exclusive
<1>9. ~At(r, "commit")'
  BY <1>3, <1>5 DEF At
<1> QED
  BY <1>1, <1>4, <1>6, <1>7, <1>8, <1>9, SlotKeeps

LEMMA RereadKeeps ==
  ASSUME RatingsIInv, NEW r \in Req, RereadRows(r)
  PROVE  RatingsIInv'
<1> DEFINE g == pass[r].game
           d == [white |-> rating[White[g]].value, black |-> rating[Black[g]].value]
           h == [at |-> "commit", game |-> g, read |-> d]
<1>1. At(r, "reread") /\ Go(r, h) /\ UNCHANGED <<rated, rating, history>>
  BY DEF RereadRows
<1>2. g \in RatedGames /\ InTransaction(r) /\ RatingsTypeOK
  BY <1>1, PassTypes DEF RatingsIInv, At, InTransaction
<1>3. ~rated[g] /\ rating[White[g]] # None /\ rating[Black[g]] # None
  BY <1>2 DEF RatingsIInv, Unrated, RowsExist
<1>4. d \in Reread
  BY <1>2, <1>3, PlayersFacts DEF RatingsTypeOK, Row, Reread
<1>5. h \in PassState /\ h.game = g /\ h.read = d
  BY <1>2, <1>4 DEF PassState
<1>6. pass'[r] = h /\ h.at = "commit"
  BY <1>1 DEF Go, RatingsIInv, RatingsTypeOK
<1>7. \A s \in Req \ {r} : ~HoldsGame(s, g)
  BY <1>2 DEF RatingsIInv, Exclusive
<1>8. ASSUME NEW u \in RatedUsers, HoldsRow(r, u)', NEW s \in Req \ {r} PROVE ~HoldsRow(s, u)
  <2>1. \E i \in {1, 2} : u = LockOrder(g)[i]
    BY <1>5, <1>6, <1>8 DEF HoldsRow, LockOrder
  <2>2. HoldsRow(r, u)
    BY <1>1, <1>2, <2>1 DEF HoldsRow, At
  <2> QED
    BY <1>8, <2>2 DEF RatingsIInv, Exclusive
<1>9. d.white = rating[White[g]].value /\ d.black = rating[Black[g]].value
  OBVIOUS
<1> HIDE DEF h, d
<1>10. /\ ~rated[h.game] /\ rating[White[h.game]] # None /\ rating[Black[h.game]] # None
       /\ \A s \in Req \ {r} : ~HoldsGame(s, h.game)
       /\ h.read.white = rating[White[h.game]].value
       /\ h.read.black = rating[Black[h.game]].value
  BY <1>3, <1>5, <1>7, <1>9
<1> HIDE DEF g
<1> QED
  BY <1>1, <1>5, <1>8, <1>10, SlotKeeps

\* A new rating row takes nobody's place.
LEMMA EnsureKeeps ==
  ASSUME RatingsIInv, NEW r \in Req, EnsureRows(r)
  PROVE  RatingsIInv'
<1> DEFINE g == pass[r].game
           h == [at |-> "claim", game |-> g]
           new == [value |-> << >>, gamesPlayed |-> 0]
<1>1. /\ At(r, "ensure") /\ Go(r, h) /\ UNCHANGED <<rated, history>>
      /\ rating' = [u \in RatedUsers |->
           IF u \in {White[g], Black[g]} /\ rating[u] = None THEN new ELSE rating[u]]
  BY DEF EnsureRows
<1>2. g \in RatedGames /\ RatingsTypeOK /\ h \in PassState
  BY <1>1, PassTypes DEF RatingsIInv, At, PassState
<1>3. new \in Row /\ new # None /\ new.value = << >> /\ new.gamesPlayed = 0
  <2>1. << >> \in Value
    BY EmptySeq DEF Value
  <2>2. new \in Row
    BY <2>1 DEF Row
  <2> QED
    BY <2>2, NoRowAssumption
<1> HIDE DEF new
<1>4. /\ pass' \in [Req -> PassState] /\ pass'[r] = h /\ h.game = g /\ h.at = "claim"
      /\ \A s \in Req \ {r} : pass'[s] = pass[s]
  BY <1>1, <1>2 DEF Go, RatingsTypeOK
<1> HIDE DEF h
<1>5. \A s \in Req \ {r} :
        /\ \A w \in {"ensure", "claim", "lock", "reread", "commit"} : At(s, w)' <=> At(s, w)
        /\ InTransaction(s)' <=> InTransaction(s)
        /\ \A k : HoldsGame(s, k)' <=> HoldsGame(s, k)
        /\ \A u : HoldsRow(s, u)' <=> HoldsRow(s, u)
  BY <1>4 DEF At, InTransaction, HoldsGame, HoldsRow, LockOrder
<1>6. ~InTransaction(r)' /\ ~At(r, "commit")' /\ \A u : ~HoldsRow(r, u)' /\ ~HoldsGame(r, u)'
  BY <1>4 DEF At, InTransaction, HoldsGame, HoldsRow
<1>7. rating' \in [RatedUsers -> Row \cup {None}]
  BY <1>1, <1>2, <1>3 DEF RatingsTypeOK
<1>8. \A u \in RatedUsers : /\ rating[u] # None => rating'[u] = rating[u]
                            /\ rating[u] = None => rating'[u] \in {None, new}
  BY <1>1
<1>9. rating'[White[g]] # None /\ rating'[Black[g]] # None
  BY <1>1, <1>2, <1>3, PlayersFacts
<1>10. RatingsTypeOK' /\ Unrated'
  BY <1>1, <1>2, <1>4, <1>5, <1>6, <1>7 DEF RatingsTypeOK, Unrated, RatingsIInv
<1>11. RowsExist' /\ ReadStands'
  <2> SUFFICES ASSUME NEW s \in Req
               PROVE  /\ At(s, "claim")' \/ InTransaction(s)' =>
                           /\ rating'[White[pass'[s].game]] # None
                           /\ rating'[Black[pass'[s].game]] # None
                      /\ At(s, "commit")' =>
                           /\ pass'[s].read.white = rating'[White[pass'[s].game]].value
                           /\ pass'[s].read.black = rating'[Black[pass'[s].game]].value
    BY DEF RowsExist, ReadStands
  <2>1. CASE s = r
    BY <1>4, <1>6, <1>9, <2>1
  <2>2. CASE s # r
    <3>1. pass'[s] = pass[s] /\ (pass[s] # None => pass[s].game \in RatedGames)
      BY <1>2, <1>4, <2>2, PassTypes
    <3>2. At(s, "claim") \/ InTransaction(s) =>
            /\ pass[s].game \in RatedGames
            /\ rating[White[pass[s].game]] # None /\ rating[Black[pass[s].game]] # None
      BY <3>1 DEF RatingsIInv, RowsExist, InTransaction, At
    <3>3. At(s, "commit") => InTransaction(s)
      BY DEF InTransaction
    <3> QED
      BY <1>5, <1>8, <2>2, <3>1, <3>2, <3>3, PlayersFacts DEF RatingsIInv, ReadStands
  <2> QED
    BY <2>1, <2>2
<1>12. Exclusive'
  BY <1>4, <1>5, <1>6 DEF RatingsIInv, Exclusive
<1>13. GamesCountOnce'
  BY <1>1 DEF RatingsIInv, GamesCountOnce
<1>14. RatingsChain' /\ RowsBeforeHistory'
  <2> SUFFICES ASSUME NEW u \in RatedUsers
               PROVE  /\ rating'[u] # None => /\ rating'[u].value = LastValue(u)'
                                              /\ rating'[u].gamesPlayed = Len(history'[u])
                      /\ rating'[u] = None => history'[u] = << >>
    BY <1>1 DEF RatingsIInv, RatingsChain, RowsBeforeHistory
  <2>1. history'[u] = history[u] /\ LastValue(u)' = LastValue(u)
    BY <1>1 DEF LastValue
  <2>2. CASE rating[u] # None
    BY <1>8, <2>1, <2>2 DEF RatingsIInv, RatingsChain
  <2>3. CASE rating[u] = None
    <3>1. history[u] = << >> /\ LastValue(u) = << >> /\ Len(<< >>) = 0
      BY <2>3, EmptySeq DEF RatingsIInv, RowsBeforeHistory, LastValue
    <3> QED
      BY <1>3, <1>8, <2>1, <2>3, <3>1
  <2> QED
    BY <2>2, <2>3
<1> QED
  BY <1>10, <1>11, <1>12, <1>13, <1>14 DEF RatingsIInv

\* A history on its own: where it ends, whether it chains, and which games it counts.
End(h) == IF h = << >> THEN << >> ELSE h[Len(h)].after

Chained(h) == \A i \in DOMAIN h : h[i].before = IF i = 1 THEN << >> ELSE h[i - 1].after

Counted(h) == {h[i].game : i \in DOMAIN h}

CountedOnce(h) == \A i, j \in DOMAIN h : h[i].game = h[j].game => i = j

UserSound(u) ==
  /\ rating[u] # None => /\ rating[u].value = End(history[u])
                         /\ rating[u].gamesPlayed = Len(history[u])
  /\ rating[u] = None => history[u] = << >>
  /\ Chained(history[u])
  /\ CountedOnce(history[u])
  /\ Counted(history[u]) = {g \in RatedGames : rated[g] /\ u \in {White[g], Black[g]}}

LEMMA UsersSound ==
  /\ RatingsIInv => \A u \in RatedUsers : UserSound(u)
  /\ (\A u \in RatedUsers : UserSound(u))' => RatingsChain' /\ RowsBeforeHistory' /\ GamesCountOnce'
BY DEF RatingsIInv, RatingsChain, RowsBeforeHistory, GamesCountOnce, LastValue,
       UserSound, End, Chained, Counted, CountedOnce

LEMMA HistoryGrows ==
  ASSUME NEW h \in Seq(Entry), NEW e \in Entry, e.before = End(h), Chained(h), CountedOnce(h),
         e.game \notin Counted(h)
  PROVE  LET more == Append(h, e)
         IN  /\ more \in Seq(Entry) /\ more # << >> /\ Len(more) = Len(h) + 1
             /\ End(more) = e.after /\ Chained(more) /\ CountedOnce(more)
             /\ Counted(more) = Counted(h) \cup {e.game}
<1> DEFINE n    == Len(h)
           more == Append(h, e)
<1>1. n \in Nat /\ DOMAIN h = 1..n
  BY LenProperties
<1>2. /\ more \in Seq(Entry) /\ more # << >> /\ Len(more) = n + 1
      /\ \A i \in 1..n : more[i] = h[i]
      /\ more[n + 1] = e
  BY AppendProperties
<1>3. DOMAIN more = 1..(n + 1)
  BY <1>2, LenProperties
<1>4. End(h) = IF n = 0 THEN << >> ELSE h[n].after
  BY <1>1, EmptySeq DEF End
<1> HIDE DEF more, n
<1>5. End(more) = e.after
  BY <1>2 DEF End
<1>6. Chained(more)
  <2> SUFFICES ASSUME NEW i \in 1..(n + 1)
               PROVE  more[i].before = IF i = 1 THEN << >> ELSE more[i - 1].after
    BY <1>3 DEF Chained
  <2>1. CASE i = n + 1
    BY <1>1, <1>2, <1>4, <2>1
  <2>2. CASE i # n + 1
    BY <1>1, <1>2, <2>2 DEF Chained
  <2> QED
    BY <2>1, <2>2
<1>7. \A i \in 1..n : h[i].game # e.game
  BY <1>1 DEF Counted
<1>8. CountedOnce(more)
  <2> SUFFICES ASSUME NEW i \in 1..(n + 1), NEW j \in 1..(n + 1), more[i].game = more[j].game
               PROVE  i = j
    BY <1>3 DEF CountedOnce
  <2> QED
    BY <1>1, <1>2, <1>7 DEF CountedOnce
<1>9. Counted(more) = Counted(h) \cup {e.game}
  BY <1>1, <1>2, <1>3 DEF Counted
<1> QED
  BY <1>2, <1>5, <1>6, <1>8, <1>9 DEF more, n

\* What a commit does to one of its two players.
LEMMA PlayerCounted ==
  ASSUME RatingsIInv, NEW g \in RatedGames, ~rated[g], NEW u \in {White[g], Black[g]}, rating[u] # None,
         rated' = [rated EXCEPT ![g] = TRUE],
         rating'[u] = [value |-> Append(rating[u].value, g),
                       gamesPlayed |-> rating[u].gamesPlayed + 1],
         history'[u] = Append(history[u], [game |-> g, before |-> rating[u].value,
                                           after |-> Append(rating[u].value, g)])
  PROVE  /\ rating'[u] \in Row /\ rating'[u] # None /\ history'[u] \in Seq(Entry)
         /\ UserSound(u)'
<1>1. /\ u \in RatedUsers /\ rating[u] \in Row /\ history[u] \in Seq(Entry)
      /\ rated \in [RatedGames -> BOOLEAN]
  BY PlayersFacts DEF RatingsIInv, RatingsTypeOK
<1>2. UserSound(u)
  BY <1>1, UsersSound
<1>3. PICK v \in Value, n \in Nat, h \in Seq(Entry) :
        rating[u].value = v /\ rating[u].gamesPlayed = n /\ history[u] = h
  BY <1>1 DEF Row
<1>4. PICK after \in Value : after = Append(v, g)
  BY <1>3, AppendProperties DEF Value
<1>5. PICK e \in Entry : e = [game |-> g, before |-> v, after |-> after]
  BY <1>3, <1>4 DEF Entry
<1>6. e.game = g /\ e.before = v /\ e.after = after
  BY <1>5
<1>7. PICK row \in Row : row = [value |-> after, gamesPlayed |-> n + 1]
  <2>1. n + 1 \in Nat
    BY <1>3
  <2>2. [value |-> after, gamesPlayed |-> n + 1] \in Row
    BY <1>4, <2>1, Zenon DEF Row
  <2> QED
    BY <2>2
<1>8. rating'[u] = row /\ history'[u] = Append(h, e)
  BY <1>3, <1>4, <1>5, <1>7
<1>9. row.value = after /\ row.gamesPlayed = n + 1 /\ row # None
  BY <1>7, NoRowAssumption
<1>10. /\ v = End(h) /\ n = Len(h) /\ Chained(h) /\ CountedOnce(h)
       /\ Counted(h) = {k \in RatedGames : rated[k] /\ u \in {White[k], Black[k]}}
  BY <1>2, <1>3 DEF UserSound
<1>11. g \notin Counted(h)
  BY <1>10
<1>12. PICK more : more = Append(h, e)
  OBVIOUS
<1>13. /\ more \in Seq(Entry) /\ more # << >> /\ Len(more) = Len(h) + 1
       /\ End(more) = after /\ Chained(more) /\ CountedOnce(more)
       /\ Counted(more) = Counted(h) \cup {g}
  BY <1>3, <1>5, <1>6, <1>10, <1>11, <1>12, HistoryGrows
<1>14. {k \in RatedGames : rated'[k] /\ u \in {White[k], Black[k]}} =
         {k \in RatedGames : rated[k] /\ u \in {White[k], Black[k]}} \cup {g}
  BY <1>1
<1>15. history'[u] = more
  BY <1>8, <1>12
<1>16. UserSound(u)'
  BY <1>8, <1>9, <1>10, <1>13, <1>14, <1>15, Zenon DEF UserSound
<1> QED
  BY <1>7, <1>8, <1>9, <1>13, <1>15, <1>16

LEMMA CommitKeeps ==
  ASSUME RatingsIInv, NEW r \in Req, CommitPass(r)
  PROVE  RatingsIInv'
<1> DEFINE g    == pass[r].game
           both == {White[g], Black[g]}
<1>1. /\ At(r, "commit") /\ rated' = [rated EXCEPT ![g] = TRUE] /\ Go(r, None)
      /\ rating' = [u \in RatedUsers |->
           IF u \in both
           THEN [value |-> Append(ReadOf(r, u), g), gamesPlayed |-> rating[u].gamesPlayed + 1]
           ELSE rating[u]]
      /\ history' = [u \in RatedUsers |->
           IF u \in both
           THEN Append(history[u], [game |-> g, before |-> ReadOf(r, u),
                                    after |-> Append(ReadOf(r, u), g)])
           ELSE history[u]]
  BY DEF CommitPass
<1>2. RatingsTypeOK /\ g \in RatedGames /\ InTransaction(r)
  BY <1>1, PassTypes DEF RatingsIInv, At, InTransaction
<1>3. both \subseteq RatedUsers /\ White[g] # Black[g]
  BY <1>2, PlayersFacts
<1>4. ~rated[g] /\ \A u \in both : rating[u] # None
  BY <1>2 DEF RatingsIInv, Unrated, RowsExist
<1>5. \A u \in both : ReadOf(r, u) = rating[u].value
  BY <1>1, <1>3 DEF RatingsIInv, ReadStands, ReadOf
<1>6. ASSUME NEW u \in both
      PROVE  /\ rating'[u] \in Row /\ rating'[u] # None /\ history'[u] \in Seq(Entry)
             /\ UserSound(u)'
  <2>1. /\ rating'[u] = [value |-> Append(rating[u].value, g),
                         gamesPlayed |-> rating[u].gamesPlayed + 1]
        /\ history'[u] = Append(history[u], [game |-> g, before |-> rating[u].value,
                                             after |-> Append(rating[u].value, g)])
    BY <1>1, <1>3, <1>5
  <2>2. rated' = [rated EXCEPT ![g] = TRUE]
    BY <1>1
  <2> QED
    BY <1>2, <1>4, <2>1, <2>2, PlayerCounted
<1>7. \A u \in RatedUsers \ both : rating'[u] = rating[u] /\ history'[u] = history[u]
  BY <1>1
<1>8. /\ pass' \in [Req -> PassState] /\ pass'[r] = None
      /\ \A s \in Req \ {r} : pass'[s] = pass[s]
  BY <1>1, <1>2 DEF Go, RatingsTypeOK, PassState
<1>9. \A s \in Req \ {r} :
        /\ \A w \in {"ensure", "claim", "lock", "reread", "commit"} : At(s, w)' <=> At(s, w)
        /\ InTransaction(s)' <=> InTransaction(s)
        /\ \A k : HoldsGame(s, k)' <=> HoldsGame(s, k)
        /\ \A u : HoldsRow(s, u)' <=> HoldsRow(s, u)
  BY <1>8 DEF At, InTransaction, HoldsGame, HoldsRow, LockOrder
<1>10. /\ ~InTransaction(r)' /\ ~At(r, "claim")' /\ ~At(r, "commit")'
       /\ \A u : ~HoldsRow(r, u)' /\ ~HoldsGame(r, u)'
  BY <1>8 DEF At, InTransaction, HoldsGame, HoldsRow
<1>11. rated' \in [RatedGames -> BOOLEAN]
  BY <1>1, <1>2 DEF RatingsTypeOK
<1>12. /\ rating' \in [RatedUsers -> Row \cup {None}]
       /\ history' \in [RatedUsers -> Seq(Entry)]
  <2>1. \A u \in RatedUsers : rating'[u] \in Row \cup {None} /\ history'[u] \in Seq(Entry)
    BY <1>2, <1>6, <1>7 DEF RatingsTypeOK
  <2> QED
    BY <1>1, <2>1
<1>13. RatingsTypeOK'
  BY <1>8, <1>11, <1>12 DEF RatingsTypeOK
<1>14. Exclusive'
  BY <1>8, <1>9, <1>10 DEF RatingsIInv, Exclusive
<1>15. Unrated'
  <2> SUFFICES ASSUME NEW s \in Req, InTransaction(s)' PROVE ~rated'[pass'[s].game]
    BY DEF Unrated
  <2>1. s # r /\ InTransaction(s) /\ pass'[s] = pass[s]
    BY <1>8, <1>9, <1>10
  <2>2. ~HoldsGame(s, g) /\ ~rated[pass[s].game]
    BY <1>2, <2>1 DEF RatingsIInv, Exclusive, Unrated
  <2>3. pass[s].game # g
    BY <2>1, <2>2 DEF HoldsGame
  <2>4. pass[s].game \in RatedGames
    BY <1>2, <2>1, PassTypes DEF InTransaction, At
  <2> QED
    BY <1>1, <1>2, <2>1, <2>2, <2>3, <2>4 DEF RatingsTypeOK
<1>16. RowsExist' /\ ReadStands'
  <2> SUFFICES ASSUME NEW s \in Req
               PROVE  /\ At(s, "claim")' \/ InTransaction(s)' =>
                           /\ rating'[White[pass'[s].game]] # None
                           /\ rating'[Black[pass'[s].game]] # None
                      /\ At(s, "commit")' =>
                           /\ pass'[s].read.white = rating'[White[pass'[s].game]].value
                           /\ pass'[s].read.black = rating'[Black[pass'[s].game]].value
    BY DEF RowsExist, ReadStands
  <2>1. CASE s = r
    BY <1>10, <2>1
  <2>2. CASE s # r
    <3>1. pass'[s] = pass[s] /\ (pass[s] # None => pass[s].game \in RatedGames)
      BY <1>2, <1>8, <2>2, PassTypes
    <3>2. \A u \in RatedUsers : rating[u] # None => rating'[u] # None
      BY <1>6, <1>7
    <3>3. At(s, "claim") \/ InTransaction(s) =>
            /\ pass[s].game \in RatedGames
            /\ rating[White[pass[s].game]] # None /\ rating[Black[pass[s].game]] # None
      BY <3>1 DEF RatingsIInv, RowsExist, InTransaction, At
    <3>4. ASSUME At(s, "commit")
          PROVE  /\ White[pass[s].game] \in RatedUsers \ both
                 /\ Black[pass[s].game] \in RatedUsers \ both
      <4>1. pass[s].game \in RatedGames
        BY <3>1, <3>4 DEF At
      <4>2. \A u \in both : HoldsRow(r, u)
        BY <1>1, <1>2, <1>3, HeldRows
      <4>3. HoldsRow(s, White[pass[s].game]) /\ HoldsRow(s, Black[pass[s].game])
        BY <1>2, <3>4, <4>1, HeldRows, PlayersFacts
      <4> QED
        BY <2>2, <4>1, <4>2, <4>3, PlayersFacts DEF RatingsIInv, Exclusive
    <3> QED
      BY <1>7, <1>9, <2>2, <3>1, <3>2, <3>3, <3>4, PlayersFacts DEF RatingsIInv, ReadStands
  <2> QED
    BY <2>1, <2>2
<1>17. RatingsChain' /\ RowsBeforeHistory' /\ GamesCountOnce'
  <2>1. ASSUME NEW u \in RatedUsers \ both PROVE UserSound(u)'
    <3>1. \A k \in RatedGames : u \in {White[k], Black[k]} => (rated'[k] <=> rated[k])
      BY <1>1, <1>2 DEF RatingsTypeOK
    <3>2. UserSound(u)
      BY UsersSound
    <3> QED
      BY <1>7, <3>1, <3>2 DEF UserSound
  <2>2. \A u \in RatedUsers : UserSound(u)'
    BY <1>6, <2>1
  <2> QED
    BY <2>2, UsersSound
<1> QED
  BY <1>13, <1>14, <1>15, <1>16, <1>17 DEF RatingsIInv

LEMMA InitSound == RatingsInit => RatingsIInv
<1> SUFFICES ASSUME RatingsInit PROVE RatingsIInv
  OBVIOUS
<1>1. /\ rated = [g \in RatedGames |-> FALSE] /\ rating = [u \in RatedUsers |-> None]
      /\ history = [u \in RatedUsers |-> << >>] /\ pass = [r \in Req |-> None]
  BY DEF RatingsInit
<1>2. << >> \in Seq(Entry) /\ DOMAIN << >> = {}
  BY EmptySeq
<1>3. None \in PassState
  BY DEF PassState
<1>4. RatingsTypeOK
  <2>1. rated \in [RatedGames -> BOOLEAN]
    BY <1>1
  <2>2. rating \in [RatedUsers -> Row \cup {None}]
    BY <1>1
  <2>3. history \in [RatedUsers -> Seq(Entry)]
    BY <1>1, <1>2
  <2>4. pass \in [Req -> PassState]
    BY <1>1, <1>3
  <2> QED
    BY <2>1, <2>2, <2>3, <2>4 DEF RatingsTypeOK
<1>5. \A r \in Req : ~InTransaction(r) /\ ~At(r, "claim") /\ ~At(r, "commit")
  BY <1>1 DEF InTransaction, At
<1>6. Exclusive /\ Unrated /\ RowsExist /\ ReadStands
  BY <1>5 DEF Exclusive, Unrated, RowsExist, ReadStands, HoldsRow
<1>7. RatingsChain /\ RowsBeforeHistory /\ GamesCountOnce
  BY <1>1, <1>2 DEF RatingsChain, RowsBeforeHistory, GamesCountOnce
<1> QED
  BY <1>4, <1>6, <1>7 DEF RatingsIInv

LEMMA NextSound == RatingsIInv /\ [RatingsNext]_ratingsVars => RatingsIInv'
<1> SUFFICES ASSUME RatingsIInv, [RatingsNext]_ratingsVars PROVE RatingsIInv'
  OBVIOUS
<1>1. ASSUME NEW r \in Req, NEW g \in RatedGames, StartPass(r, g) PROVE RatingsIInv'
  BY <1>1, StartKeeps
<1>2. ASSUME NEW r \in Req,
             EnsureRows(r) \/ ClaimGame(r) \/ LockRow(r) \/ RereadRows(r) \/ CommitPass(r)
      PROVE  RatingsIInv'
  BY <1>2, EnsureKeeps, ClaimKeeps, LockKeeps, RereadKeeps, CommitKeeps
<1>3. ASSUME NEW r \in Req, PassFails(r) PROVE RatingsIInv'
  BY <1>3, NoPassKeeps DEF PassFails
<1>4. CASE UNCHANGED ratingsVars
  BY <1>4 DEF ratingsVars, RatingsIInv, RatingsTypeOK, Exclusive, Unrated, RowsExist, ReadStands,
              RatingsChain, RowsBeforeHistory, GamesCountOnce, LastValue,
              At, InTransaction, HoldsGame, HoldsRow, LockOrder
<1> QED
  BY <1>1, <1>2, <1>3, <1>4 DEF RatingsNext

\* The transactions hold what they read: the claim keeps a game from being
\* counted twice, and the row locks keep what was read from changing.
THEOREM RatingsInvariance == RatingsSpec => []RatingsIInv
BY InitSound, NextSound, PTL DEF RatingsSpec

\* The rows, the history and the passes keep their shape.
THEOREM RatingsTypeCorrect == RatingsSpec => []RatingsTypeOK
<1>1. RatingsIInv => RatingsTypeOK
  BY DEF RatingsIInv
<1> QED
  BY <1>1, RatingsInvariance, PTL

\* No rating is lost: every history row starts where the one before it ended,
\* and the rating row is the end of the chain.
THEOREM ChainHolds == RatingsSpec => []RatingsChain
<1>1. RatingsIInv => RatingsChain
  BY DEF RatingsIInv
<1> QED
  BY <1>1, RatingsInvariance, PTL

\* However often and by how many passes a game is processed, it counts once.
THEOREM CountsOnce == RatingsSpec => []GamesCountOnce
<1>1. RatingsIInv => GamesCountOnce
  BY DEF RatingsIInv
<1> QED
  BY <1>1, RatingsInvariance, PTL

(* No circle of locks: rows are taken in the order of their ids.           *)

\* Of any passes that hold one row and want another, one wants the highest.
LEMMA HighestWanted ==
  ASSUME RatingsTypeOK, NEW L \in SUBSET Req, L # {}, \A r \in L : At(r, "lock")
  PROVE  \E r \in L : \A s \in L :
           RowId[LockOrder(pass[s].game)[2]] <= RowId[LockOrder(pass[r].game)[2]]
<1> DEFINE Id(r)    == RowId[LockOrder(pass[r].game)[2]]
           Above(r) == {q \in L : Id(q) > Id(r)}
           T        == {Above(r) : r \in L}
<1>1. \A r \in L : Id(r) \in Nat
  BY PassTypes, LockOrderFacts DEF At
<1> HIDE DEF Id
<1>2. T \subseteq FiniteSubsetsOf(Req) /\ T # {}
  <2>1. \A r \in L : Above(r) \in SUBSET Req /\ IsFiniteSet(Above(r))
    BY RequestsAssumption, FS_Subset
  <2> QED
    BY <2>1 DEF FiniteSubsetsOf
<1>3. \E x \in T : \A y \in T : ~(<<y, x>> \in StrictSubsetOrdering(Req))
  BY <1>2, FS_StrictSubsetOrderingWellFounded, WFMin
<1>4. PICK r \in L : \A s \in L : ~(<<Above(s), Above(r)>> \in StrictSubsetOrdering(Req))
  BY <1>3
<1>5. ASSUME NEW s \in L PROVE Id(s) <= Id(r)
  <2> SUFFICES ASSUME Id(s) > Id(r) PROVE FALSE
    BY <1>1
  <2>1. Above(s) \subseteq Above(r)
    BY <1>1
  <2>2. s \in Above(r) /\ s \notin Above(s)
    BY <1>1
  <2>3. Above(s) \in SUBSET Req /\ Above(r) \in SUBSET Req /\ Above(s) # Above(r)
    BY <2>2
  <2> HIDE DEF Above
  <2>4. <<Above(s), Above(r)>> \in StrictSubsetOrdering(Req)
    BY <2>1, <2>3 DEF StrictSubsetOrdering
  <2> QED
    BY <1>4, <2>4
<1> QED
  BY <1>5 DEF Id

LEMMA NoCircle == RatingsIInv => NobodyWaitsInACircle
<1> SUFFICES ASSUME RatingsIInv, NEW S \in SUBSET Req, S # {}
             PROVE  \E r \in S : \A s \in S : ~WaitsFor(r, s)
  BY DEF NobodyWaitsInACircle
<1>0. RatingsTypeOK
  BY DEF RatingsIInv
<1>1. CASE \E r \in S : ~At(r, "claim") /\ ~At(r, "lock")
  BY <1>1 DEF WaitsFor
<1>2. CASE \A r \in S : At(r, "claim")
  <2>1. \A s \in S : ~InTransaction(s)
    BY <1>2 DEF InTransaction, At
  <2> QED
    BY <1>2, <2>1 DEF WaitsFor, HoldsGame, HoldsRow
<1>3. CASE /\ \A r \in S : At(r, "claim") \/ At(r, "lock")
           /\ \E r \in S : At(r, "lock")
  <2> DEFINE L == {r \in S : At(r, "lock") /\ pass[r].next = 2}
\* Whoever of them holds a row wants a second one.
  <2>1. ASSUME NEW s \in S, NEW u \in RatedUsers, HoldsRow(s, u)
        PROVE  s \in L /\ u = LockOrder(pass[s].game)[1]
    <3>1. At(s, "lock")
      BY <1>3, <2>1 DEF HoldsRow, InTransaction, At
    <3> QED
      BY <1>0, <2>1, <3>1, HeldRows
  <2>2. \A r \in S : At(r, "lock") =>
          /\ pass[r].next \in {1, 2} /\ pass[r].game \in RatedGames
          /\ ~At(r, "claim")
    BY <1>0, PassTypes DEF At
  <2>3. CASE L = {}
    <3>1. PICK r \in S : At(r, "lock")
      BY <1>3
    <3>2. LockOrder(pass[r].game)[pass[r].next] \in RatedUsers
      BY <2>2, <3>1, LockOrderFacts
    <3> QED
      BY <2>1, <2>2, <2>3, <3>1, <3>2 DEF WaitsFor
  <2>4. CASE L # {}
    <3>1. PICK r \in L : \A s \in L :
            RowId[LockOrder(pass[s].game)[2]] <= RowId[LockOrder(pass[r].game)[2]]
      BY <1>0, <2>4, HighestWanted
    <3> DEFINE u == LockOrder(pass[r].game)[2]
    <3>2. u \in RatedUsers /\ RowId[u] \in Nat
      BY <2>2, LockOrderFacts
    <3>3. ASSUME NEW s \in S, WaitsFor(r, s) PROVE FALSE
      <4>1. HoldsRow(s, u)
        BY <2>2, <3>3 DEF WaitsFor
      <4>2. s \in L /\ u = LockOrder(pass[s].game)[1]
        BY <2>1, <3>2, <4>1
      <4>3. /\ RowId[u] < RowId[LockOrder(pass[s].game)[2]]
            /\ RowId[LockOrder(pass[s].game)[2]] \in Nat
        BY <2>2, <4>2, LockOrderFacts
      <4> QED
        BY <3>1, <3>2, <4>2, <4>3
    <3> QED
      BY <3>3
  <2> QED
    BY <2>3, <2>4
<1> QED
  BY <1>1, <1>2, <1>3

\* Passes over any games, of any players and in any number, never deadlock.
THEOREM LocksNeverDeadlock == RatingsSpec => []NobodyWaitsInACircle
BY NoCircle, RatingsInvariance, PTL

-----------------------------------------------------------------------------
(* Streaks.                                                                *)

\* What a handler holds between two calls: the row of its day is there, and
\* the streak it is about to write is backed by the rows of the days.
SoundActivity(h) ==
  /\ h # None /\ h.at \in {"read", "write"} => h.day \in dayRows
  /\ h # None /\ h.at = "write" => Backed(h.row)

StreakIInv ==
  /\ StreakTypeOK
  /\ StreakIsBacked
  /\ \A r \in Req : SoundActivity(activity[r])

\* A streak that is backed stays so, as days gain rows and never lose them.
LEMMA MoreDays ==
  ASSUME NEW row \in StreakRow, dayRows \subseteq dayRows', Backed(row)
  PROVE  Backed(row)'
BY DEF Backed

LEMMA ActivityKeeps ==
  ASSUME NEW h \in ActivityState, dayRows \subseteq dayRows', SoundActivity(h)
  PROVE  SoundActivity(h)'
<1>1. CASE h # None /\ h.at = "write"
  <2>1. h.row \in StreakRow
    BY <1>1 DEF ActivityState, Activity
  <2> QED
    BY <1>1, <2>1, MoreDays DEF SoundActivity
<1>2. CASE ~(h # None /\ h.at = "write")
  BY <1>2 DEF SoundActivity
<1> QED
  BY <1>1, <1>2

\* The row an activity computes is backed: by the days behind the streak it
\* read, and by its own day.
LEMMA AdvancedSound ==
  ASSUME NEW prev \in StreakRow \cup {None}, NEW day \in Days, day \in dayRows,
         prev # None => Backed(prev)
  PROVE  Advanced(prev, day) \in StreakRow /\ Backed(Advanced(prev, day))
<1> DEFINE old     == IF prev = None THEN NoStreak ELSE prev
           current == CASE SameDay(old.last, day) -> old.current
                        [] ~SameDay(old.last, day) /\ IsYesterday(old.last, day) -> old.current + 1
                        [] OTHER -> 1
           longest == Higher(old.longest, current)
<1>1. None \notin Int
  BY NoDayAssumption
<1>2. old \in StreakRow /\ Backed(old)
  BY DEF NoStreak, StreakRow, Backed
<1>3. /\ old.current \in Nat /\ old.longest \in Nat /\ old.last \in Days \cup {None}
      /\ day \in Nat \ {0}
  BY <1>2 DEF StreakRow, Days
<1>4. old.last # None => /\ old.current \in 1..old.longest
                         /\ ((old.last - old.current + 1)..old.last) \subseteq dayRows
  BY <1>2 DEF Backed
<1>5. Advanced(prev, day) = [current |-> current, longest |-> longest, last |-> day]
  BY DEF Advanced
<1> HIDE DEF old
<1>6. CASE SameDay(old.last, day)
  <2>1. old.last = day /\ day # None /\ current = old.current /\ longest = old.longest
    BY <1>1, <1>3, <1>4, <1>6 DEF SameDay, Higher
  <2> QED
    BY <1>3, <1>4, <1>5, <2>1 DEF StreakRow, Days, Backed
<1>7. CASE ~SameDay(old.last, day) /\ IsYesterday(old.last, day)
  <2>1. old.last # None /\ old.last = day - 1 /\ current = old.current + 1
    BY <1>7 DEF IsYesterday
  <2>2. /\ longest \in Nat /\ current \in Nat /\ current \in 1..longest
        /\ old.last \in Nat
    BY <1>3, <1>4, <2>1 DEF Higher, Days
  <2>3. ((day - current + 1)..day) \subseteq dayRows
    <3> SUFFICES ASSUME NEW d \in (day - current + 1)..day PROVE d \in dayRows
      OBVIOUS
    <3>1. d = day \/ d \in (old.last - old.current + 1)..old.last
      BY <1>3, <2>1, <2>2
    <3> QED
      BY <1>4, <2>1, <3>1
  <2> QED
    BY <1>3, <1>5, <2>2, <2>3 DEF StreakRow, Days, Backed
<1>8. CASE ~SameDay(old.last, day) /\ ~IsYesterday(old.last, day)
  <2>1. current = 1 /\ longest \in Nat /\ current \in 1..longest
    BY <1>3, <1>8 DEF Higher
  <2>2. (day - current + 1)..day = {day}
    BY <1>3, <2>1
  <2> QED
    BY <1>3, <1>5, <2>1, <2>2 DEF StreakRow, Days, Backed
<1> QED
  BY <1>6, <1>7, <1>8

LEMMA NoActivity == None \in ActivityState /\ SoundActivity(None) /\ SoundActivity(None)'
BY DEF ActivityState, Activity, SoundActivity

LEMMA StreakStarts == StreakInit => StreakIInv
<1> SUFFICES ASSUME StreakInit PROVE StreakIInv
  OBVIOUS
<1>1. StreakTypeOK
  <2>1. activity \in [Req -> ActivityState]
    BY NoActivity DEF StreakInit
  <2>2. today \in Days /\ dayRows \in SUBSET Days /\ streak \in StreakRow \cup {None}
    BY DEF StreakInit, Days
  <2>3. late \in BOOLEAN /\ halted \in BOOLEAN
    BY Zenon DEF StreakInit
  <2> QED
    BY <2>1, <2>2, <2>3, Zenon DEF StreakTypeOK
<1>2. StreakIsBacked /\ \A r \in Req : SoundActivity(activity[r])
  BY DEF StreakInit, StreakIsBacked, SoundActivity
<1> QED
  BY <1>1, <1>2 DEF StreakIInv

\* A step that changes one slot leaves what the others rely on.
LEMMA ActivityStep ==
  ASSUME StreakIInv, dayRows \subseteq dayRows', NEW r \in Req, NEW h \in ActivityState,
         SoundActivity(h)', Continue(r, h)
  PROVE  /\ activity' \in [Req -> ActivityState]
         /\ \A q \in Req : SoundActivity(activity[q])'
<1>1. /\ activity' \in [Req -> ActivityState] /\ activity'[r] = h
      /\ \A q \in Req \ {r} : activity'[q] = activity[q]
  BY DEF Continue, StreakIInv, StreakTypeOK
<1>2. ASSUME NEW q \in Req \ {r} PROVE SoundActivity(activity[q])'
  <2>1. activity[q] \in ActivityState /\ SoundActivity(activity[q])
    BY DEF StreakIInv, StreakTypeOK
  <2>2. PICK g \in ActivityState : g = activity[q]
    BY <2>1
  <2>3. SoundActivity(g)'
    BY <2>1, <2>2, ActivityKeeps
  <2> QED
    BY <1>1, <2>2, <2>3 DEF SoundActivity, Backed
<1> QED
  BY <1>1, <1>2 DEF SoundActivity, Backed

LEMMA StreakKeeps ==
  ASSUME StreakTypeOK, StreakIsBacked, dayRows \subseteq dayRows', UNCHANGED streak
  PROVE  StreakIsBacked'
BY MoreDays DEF StreakTypeOK, StreakIsBacked, Backed

LEMMA StreakInductive == StreakIInv /\ [StreakNext]_streakVars => StreakIInv'
<1> SUFFICES ASSUME StreakIInv, [StreakNext]_streakVars PROVE StreakIInv'
  OBVIOUS
<1> USE DEF StreakIInv
<1>1. ASSUME NEW r \in Req, FindDay(r) PROVE StreakIInv'
  <2> DEFINE h == [at |-> "day", day |-> today, first |-> today \notin dayRows]
  <2>1. h \in ActivityState /\ SoundActivity(h)'
    BY DEF ActivityState, Activity, SoundActivity, StreakTypeOK
  <2>2. UNCHANGED <<today, dayRows, streak, late, halted>> /\ Continue(r, h)
    BY <1>1 DEF FindDay
  <2>3. StreakIsBacked'
    BY <2>2, StreakKeeps
  <2> QED
    BY <2>1, <2>2, <2>3, ActivityStep DEF StreakTypeOK
<1>2. ASSUME NEW r \in Req, UpsertDay(r) PROVE StreakIInv'
  <2>1. activity[r] \in ActivityState /\ activity[r] # None /\ activity[r].at = "day"
    BY <1>2 DEF UpsertDay, Doing, StreakTypeOK
  <2> [activity[r] EXCEPT !.at = "read"] \in ActivityState
    BY <2>1 DEF ActivityState, Activity
  <2> PICK h \in ActivityState : h = [activity[r] EXCEPT !.at = "read"]
    OBVIOUS
  <2>2. h.day = activity[r].day /\ h.at = "read" /\ h.day \in Days
    BY <2>1 DEF ActivityState, Activity
  <2>3. /\ UNCHANGED <<today, streak, halted>> /\ Continue(r, h)
        /\ dayRows' = dayRows \cup {activity[r].day}
    BY <1>2 DEF UpsertDay
  <2>4. SoundActivity(h)'
    BY <2>2, <2>3 DEF SoundActivity
  <2>5. StreakIsBacked'
    BY <2>3, StreakKeeps
  <2>6. late' \in BOOLEAN
    BY <1>2 DEF UpsertDay, StreakTypeOK
  <2> QED
    BY <2>2, <2>3, <2>4, <2>5, <2>6, ActivityStep DEF StreakTypeOK
<1>3. ASSUME NEW r \in Req, ReadStreak(r) PROVE StreakIInv'
  <2> DEFINE written == [at |-> "write", day |-> activity[r].day,
                         row |-> Advanced(streak, activity[r].day)]
  <2>1. /\ activity[r] \in ActivityState /\ activity[r] # None /\ activity[r].at = "read"
        /\ SoundActivity(activity[r])
    BY <1>3 DEF ReadStreak, Doing, StreakTypeOK
  <2>2. activity[r].day \in Days /\ activity[r].day \in dayRows
    BY <2>1 DEF ActivityState, Activity, SoundActivity
  <2>3. Advanced(streak, activity[r].day) \in StreakRow /\ Backed(Advanced(streak, activity[r].day))
    BY <2>2, AdvancedSound DEF StreakTypeOK, StreakIsBacked
  <2>4. /\ UNCHANGED <<today, dayRows, streak, late, halted>>
        /\ Continue(r, None) \/ Continue(r, written)
    BY <1>3 DEF ReadStreak
  <2>5. written \in ActivityState /\ SoundActivity(written)
    BY <2>2, <2>3 DEF ActivityState, Activity, SoundActivity
  <2> PICK h \in ActivityState : h = written
    BY <2>5
  <2>6. SoundActivity(h)' /\ (Continue(r, None) \/ Continue(r, h))
    BY <2>4, <2>5 DEF SoundActivity, Backed
  <2>7. StreakIsBacked'
    BY <2>4, StreakKeeps
  <2> QED
    BY <2>4, <2>6, <2>7, NoActivity, ActivityStep DEF StreakTypeOK
<1>4. ASSUME NEW r \in Req, WriteStreak(r) PROVE StreakIInv'
  <2>1. /\ activity[r] \in ActivityState /\ activity[r] # None /\ activity[r].at = "write"
        /\ SoundActivity(activity[r])
    BY <1>4 DEF WriteStreak, Doing, StreakTypeOK
  <2>2. activity[r].row \in StreakRow /\ Backed(activity[r].row)
    BY <2>1 DEF ActivityState, Activity, SoundActivity
  <2>3. UNCHANGED <<today, dayRows, halted>> /\ Continue(r, None) /\ streak' = activity[r].row
    BY <1>4 DEF WriteStreak
  <2>4. StreakIsBacked' /\ streak' \in StreakRow
    BY <2>2, <2>3 DEF StreakIsBacked, Backed
  <2>5. late' \in BOOLEAN
    BY <1>4 DEF WriteStreak, StreakTypeOK
  <2> QED
    BY <2>3, <2>4, <2>5, NoActivity, ActivityStep DEF StreakTypeOK
<1>5. ASSUME NEW r \in Req, ActivityStops(r) PROVE StreakIInv'
  <2>1. UNCHANGED <<today, dayRows, streak, late>> /\ Continue(r, None) /\ halted' \in BOOLEAN
    BY <1>5 DEF ActivityStops, StreakTypeOK
  <2>2. StreakIsBacked'
    BY <2>1, StreakKeeps
  <2> QED
    BY <2>1, <2>2, NoActivity, ActivityStep DEF StreakTypeOK
<1>6. CASE SetDailyGoal
  BY <1>6 DEF SetDailyGoal, StreakTypeOK, StreakIsBacked, Backed, NoStreak, StreakRow, SoundActivity
<1>7. CASE Midnight
  BY <1>7, StreakAssumption
     DEF Midnight, StreakTypeOK, StreakIsBacked, Backed, Days, SoundActivity
<1>8. CASE UNCHANGED streakVars
  BY <1>8 DEF streakVars, StreakTypeOK, StreakIsBacked, Backed, SoundActivity
<1> QED
  BY <1>1, <1>2, <1>3, <1>4, <1>5, <1>6, <1>7, <1>8 DEF StreakNext

\* The row of the streak, the rows of the days and what the handlers hold keep
\* their shape.
THEOREM StreakTypeCorrect == StreakSpec => []StreakTypeOK
BY StreakStarts, StreakInductive, PTL DEF StreakSpec, StreakIInv

\* However handlers overlap, fail half done or cross midnight, no streak claims
\* a day without a TrainingDay row.
THEOREM StreaksAreBacked == StreakSpec => []StreakIsBacked
BY StreakStarts, StreakInductive, PTL DEF StreakSpec, StreakIInv

(* The run of trained days.                                                *)

\* RunTo, over any set of days.
RunIn(D, d) == Cardinality({k \in 1..d : (k..d) \subseteq D})

\* What the row has to say when D are the trained days.
Accurate(row, D) ==
  IF D = {} THEN row \in {None, NoStreak}
  ELSE /\ row # None /\ row.last \in D
       /\ \A d \in D : d <= row.last /\ RunIn(D, d) <= row.longest
       /\ row.current = RunIn(D, row.last)
       /\ \E d \in D : RunIn(D, d) = row.longest

\* A handler that will write the streak of its day, whatever it reads.
Carries(h) == h # None /\ (h.at = "write" \/ (h.at = "read" /\ h.first))

\* One whose day is over: it can only end up late, or halted.
Overdue == \E r \in Req : Carries(activity[r]) /\ activity[r].day < today

InHand == \E r \in Req : Carries(activity[r]) /\ activity[r].day = today

\* Up to today's write the row is right for the days before; a row about to be
\* written today is right for all of them.
RowIsRight ==
  /\ \/ Accurate(streak, dayRows)
     \/ today \in dayRows /\ InHand /\ Accurate(streak, dayRows \ {today})
  /\ \A r \in Req : Doing(r, "write") /\ activity[r].day = today => Accurate(activity[r].row, dayRows)

RunIInv ==
  /\ dayRows \subseteq 1..today
  /\ \A r \in Req : activity[r] # None =>
       /\ activity[r].day <= today
       /\ activity[r].at = "day" /\ ~activity[r].first => activity[r].day \in dayRows
  /\ ~late /\ ~halted => Overdue \/ RowIsRight

LEMMA RunType ==
  ASSUME NEW D, NEW d \in Int
  PROVE  IsFiniteSet({k \in 1..d : (k..d) \subseteq D}) /\ RunIn(D, d) \in Nat
<1>1. IsFiniteSet(1..d)
  BY FS_Interval
<1>2. {k \in 1..d : (k..d) \subseteq D} \in SUBSET (1..d)
  OBVIOUS
<1>3. IsFiniteSet({k \in 1..d : (k..d) \subseteq D})
  BY <1>1, <1>2, FS_Subset
<1> QED
  BY <1>3, FS_CardinalityType DEF RunIn

\* A later day makes no run longer that ends before it.
LEMMA RunBefore ==
  ASSUME NEW D, NEW t \in Days, NEW d \in Int, d < t
  PROVE  RunIn(D \cup {t}, d) = RunIn(D, d)
<1>1. {k \in 1..d : (k..d) \subseteq D \cup {t}} = {k \in 1..d : (k..d) \subseteq D}
  BY DEF Days
<1> QED
  BY <1>1 DEF RunIn

\* It continues the run that ends the day before, or begins one.
LEMMA RunOn ==
  ASSUME NEW D, NEW t \in Days, t \notin D
  PROVE  RunIn(D \cup {t}, t) = IF t - 1 \in D /\ t - 1 >= 1 THEN RunIn(D, t - 1) + 1 ELSE 1
<1> DEFINE R == {k \in 1..t : (k..t) \subseteq D \cup {t}}
           Q == {k \in 1..(t - 1) : (k..(t - 1)) \subseteq D}
<1>0. t \in Nat \ {0} /\ t - 1 \in Int
  BY DEF Days
<1>1. CASE t - 1 \in D /\ t - 1 >= 1
  <2>1. R = Q \cup {t}
    <3>1. ASSUME NEW k \in R PROVE k \in Q \cup {t}
      <4>1. k = t \/ k \in 1..(t - 1)
        BY <1>0
      <4>2. \A i \in k..(t - 1) : i \in D
        BY <1>0, <4>1
      <4> QED
        BY <4>1, <4>2
    <3>2. ASSUME NEW k \in Q PROVE k \in R
      <4>1. \A i \in k..t : i = t \/ i \in k..(t - 1)
        BY <1>0
      <4> QED
        BY <1>0, <4>1
    <3>3. t \in R
      <4>1. t..t = {t} /\ t \in 1..t
        BY <1>0
      <4> QED
        BY <4>1
    <3> QED
      BY <3>1, <3>2, <3>3
  <2>2. t \notin Q /\ IsFiniteSet(Q)
    <3>1. Q \in SUBSET (1..(t - 1)) /\ IsFiniteSet(1..(t - 1))
      BY <1>0, FS_Interval
    <3> QED
      BY <1>0, <3>1, FS_Subset
  <2> HIDE DEF Q, R
  <2>3. Cardinality(R) = Cardinality(Q) + 1
    BY <2>1, <2>2, FS_AddElement
  <2> QED
    BY <1>1, <2>3 DEF RunIn, Q, R
<1>2. CASE ~(t - 1 \in D /\ t - 1 >= 1)
  <2>1. R = {t}
    <3>1. ASSUME NEW k \in R, k # t PROVE FALSE
      <4>1. t - 1 \in k..t /\ t - 1 >= 1
        BY <1>0, <3>1
      <4> QED
        BY <1>0, <1>2, <4>1
    <3>2. t \in R
      <4>1. t..t = {t} /\ t \in 1..t
        BY <1>0
      <4> QED
        BY <4>1
    <3> QED
      BY <3>1, <3>2
  <2> HIDE DEF R
  <2>2. Cardinality(R) = 1
    BY <2>1, FS_Singleton
  <2> QED
    BY <1>2, <2>2 DEF RunIn, R
<1> QED
  BY <1>1, <1>2

\* advanceStreak takes a row that is right for the days before to one that is
\* right for today as well.
LEMMA AdvancedRight ==
  ASSUME NEW prev \in StreakRow \cup {None}, NEW t \in Days, NEW D \in SUBSET (1..(t - 1)),
         Accurate(prev, D)
  PROVE  Accurate(Advanced(prev, t), D \cup {t})
<1> DEFINE old     == IF prev = None THEN NoStreak ELSE prev
           current == CASE SameDay(old.last, t) -> old.current
                        [] ~SameDay(old.last, t) /\ IsYesterday(old.last, t) -> old.current + 1
                        [] OTHER -> 1
           longest == Higher(old.longest, current)
           E == D \cup {t}
<1>0. None \notin Int /\ t \in Nat \ {0} /\ t \in Int /\ t \notin D
  BY NoDayAssumption DEF Days
<1>1. /\ old \in StreakRow /\ old.longest \in Nat /\ old.current \in Nat
      /\ old.last \in Days \cup {None}
  BY DEF NoStreak, StreakRow
<1>2. Advanced(prev, t) = [current |-> current, longest |-> longest, last |-> t]
  BY DEF Advanced
<1>3. /\ D = {} => old.last = None /\ old.longest = 0
      /\ D # {} => /\ old.last \in D
                   /\ \A d \in D : d <= old.last /\ RunIn(D, d) <= old.longest
                   /\ old.current = RunIn(D, old.last)
                   /\ \E d \in D : RunIn(D, d) = old.longest
  BY DEF Accurate, NoStreak
<1> HIDE DEF old
<1>4. RunIn(E, t) = IF t - 1 \in D /\ t - 1 >= 1 THEN RunIn(D, t - 1) + 1 ELSE 1
  BY <1>0, RunOn
<1>5. ASSUME NEW d \in D
      PROVE  /\ d \in Nat /\ 1 <= d /\ d <= t - 1
             /\ RunIn(E, d) = RunIn(D, d) /\ RunIn(D, d) \in Nat
  <2>1. d \in Nat /\ 1 <= d /\ d <= t - 1 /\ d \in Int /\ d < t
    BY <1>0
  <2>2. RunIn(E, d) = RunIn(D, d)
    BY <2>1, RunBefore
  <2>3. RunIn(D, d) \in Nat
    BY <2>1, RunType
  <2> QED
    BY <2>1, <2>2, <2>3
<1>6. current = RunIn(E, t)
  <2>1. ~SameDay(old.last, t)
    BY <1>0, <1>3 DEF SameDay
  <2>2. CASE t - 1 \in D
    <3>1. old.last = t - 1 /\ t - 1 >= 1
      <4>1. old.last \in D /\ t - 1 <= old.last
        BY <1>3, <2>2
      <4>2. old.last \in Nat /\ 1 <= old.last /\ old.last <= t - 1
        BY <1>5, <4>1
      <4> QED
        BY <1>0, <4>1, <4>2
    <3> QED
      BY <1>0, <1>3, <1>4, <2>1, <2>2, <3>1 DEF IsYesterday
  <2>3. CASE t - 1 \notin D
    <3>1. ~IsYesterday(old.last, t)
      BY <1>3, <2>3 DEF IsYesterday
    <3> QED
      BY <1>4, <2>1, <2>3, <3>1
  <2> QED
    BY <2>2, <2>3
<1> HIDE DEF current
<1>7. current \in Nat /\ longest = IF old.longest >= current THEN old.longest ELSE current
  <2>1. RunIn(E, t) \in Nat
    BY <1>0, RunType
  <2> QED
    BY <1>6, <2>1 DEF Higher
<1> HIDE DEF longest
<1>8. \A d \in E : d <= t /\ RunIn(E, d) <= longest
  <2>1. t <= t /\ RunIn(E, t) <= longest
    BY <1>0, <1>1, <1>6, <1>7
  <2>2. ASSUME NEW d \in D PROVE d <= t /\ RunIn(E, d) <= longest
    BY <1>0, <1>1, <1>3, <1>5, <1>7
  <2> QED
    BY <2>1, <2>2
<1>9. \E d \in E : RunIn(E, d) = longest
  <2>1. CASE longest = current
    BY <1>6, <2>1
  <2>2. CASE longest # current
    <3>1. longest = old.longest /\ longest > 0
      BY <1>1, <1>7, <2>2
    <3>2. PICK d \in D : RunIn(D, d) = old.longest
      BY <1>3, <3>1
    <3> QED
      BY <1>5, <3>1, <3>2
  <2> QED
    BY <2>1, <2>2
<1>10. Advanced(prev, t) # None
  <2>1. Advanced(prev, t) \in StreakRow
    BY <1>1, <1>2, <1>7 DEF StreakRow
  <2> QED
    BY <2>1, NoDayAssumption
<1> HIDE DEF E
<1>11. E # {} /\ t \in E
  BY DEF E
<1> QED
  BY <1>2, <1>6, <1>8, <1>9, <1>10, <1>11 DEF Accurate, E

\* A day trained already changes nothing.
LEMMA AdvancedAgain ==
  ASSUME NEW prev \in StreakRow \cup {None}, NEW t \in Days, NEW D \in SUBSET (1..t),
         t \in D, Accurate(prev, D)
  PROVE  Accurate(Advanced(prev, t), D)
<1>1. /\ prev # None /\ prev \in StreakRow /\ prev.last \in D
      /\ \A d \in D : d <= prev.last /\ RunIn(D, d) <= prev.longest
      /\ prev.current = RunIn(D, prev.last)
  BY DEF Accurate
<1>2. /\ t \in Nat \ {0} /\ t # None /\ prev.last = t
      /\ prev.current \in Nat /\ prev.longest \in Nat
  <2>1. t <= prev.last /\ prev.last \in 1..t
    BY <1>1
  <2> QED
    BY <1>1, <2>1, NoDayAssumption DEF Days, StreakRow
<1>3. prev.current <= prev.longest
  BY <1>1, <1>2
<1>4. /\ SameDay(prev.last, t)
      /\ prev = [current |-> prev.current, longest |-> prev.longest, last |-> prev.last]
  BY <1>1, <1>2 DEF SameDay, StreakRow
<1>5. Advanced(prev, t) = [current |-> prev.current,
                           longest |-> Higher(prev.longest, prev.current), last |-> t]
  BY <1>1, <1>4 DEF Advanced
<1>6. Higher(prev.longest, prev.current) = prev.longest
  BY <1>2, <1>3 DEF Higher
<1> QED
  BY <1>2, <1>4, <1>5, <1>6

LEMMA RunTypes ==
  ASSUME StreakIInv, NEW r \in Req
  PROVE  /\ activity[r] \in ActivityState /\ activity \in [Req -> ActivityState]
         /\ activity[r] # None => activity[r].day \in Days
         /\ Doing(r, "write") => activity[r].row \in StreakRow
         /\ Doing(r, "write") \/ Doing(r, "read") => activity[r].day \in dayRows
         /\ today \in Nat /\ today >= 1
BY DEF StreakIInv, StreakTypeOK, SoundActivity, ActivityState, Activity, Doing, Days

\* A slot changes, and the rows do not: whoever was late or in charge still is.
LEMMA RunSlot ==
  ASSUME StreakIInv, RunIInv, NEW r \in Req, NEW h \in ActivityState, Continue(r, h),
         UNCHANGED <<today, dayRows, streak>>,
         ~late' /\ ~halted' => ~late /\ ~halted,
         h # None => h.day <= today /\ (h.at = "day" /\ ~h.first => h.day \in dayRows),
         ~late' /\ ~halted' /\ Carries(activity[r]) => Carries(h) /\ h.day = activity[r].day,
         ~late' /\ ~halted' /\ ~Overdue /\ h # None /\ h.at = "write" /\ h.day = today =>
           Accurate(h.row, dayRows)
  PROVE  RunIInv'
<1>1. /\ activity'[r] = h /\ \A q \in Req \ {r} : activity'[q] = activity[q]
  BY DEF Continue, StreakIInv, StreakTypeOK
<1>2. ASSUME NEW q \in Req, activity'[q] # None
      PROVE  /\ activity'[q].day <= today
             /\ activity'[q].at = "day" /\ ~activity'[q].first => activity'[q].day \in dayRows
  BY <1>1, <1>2 DEF RunIInv
<1>3. ASSUME ~late', ~halted' PROVE Overdue' \/ RowIsRight'
  <2>1. Overdue => Overdue'
    BY <1>1, <1>3 DEF Overdue, Carries
  <2>2. InHand => InHand'
    BY <1>1, <1>3 DEF InHand, Carries
  <2>3. CASE ~Overdue
    <3>1. RowIsRight
      BY <1>3, <2>3 DEF RunIInv
    <3>2. ASSUME NEW q \in Req, Doing(q, "write")', activity'[q].day = today
          PROVE  Accurate(activity'[q].row, dayRows)
      <4>1. CASE q = r
        BY <1>1, <1>3, <2>3, <3>2, <4>1 DEF Doing
      <4>2. CASE q # r
        BY <1>1, <3>1, <3>2, <4>2 DEF Doing, RowIsRight
      <4> QED
        BY <4>1, <4>2
    <3> QED
      BY <2>2, <3>1, <3>2 DEF RowIsRight, Accurate
  <2> QED
    BY <2>1, <2>3
<1> QED
  BY <1>2, <1>3 DEF RunIInv

LEMMA FindDayRun ==
  ASSUME StreakIInv, RunIInv, NEW r \in Req, FindDay(r)
  PROVE  RunIInv'
<1> PICK h : h = [at |-> "day", day |-> today, first |-> today \notin dayRows]
  OBVIOUS
<1>1. /\ activity[r] = None /\ Continue(r, h)
      /\ UNCHANGED <<today, dayRows, streak, late, halted>>
  BY DEF FindDay
<1>2. h \in ActivityState /\ today \in Nat
  BY DEF ActivityState, Activity, StreakIInv, StreakTypeOK, Days
<1>3. h.at = "day" /\ h.day = today /\ h.day <= today /\ (~h.first => h.day \in dayRows)
  <2>1. h.at = "day" /\ h.day = today /\ h.first = (today \notin dayRows)
    BY Zenon
  <2>2. today <= today
    BY <1>2
  <2> QED
    BY <2>1, <2>2, Zenon
<1>4. ~Carries(activity[r]) /\ h.at # "write"
  BY <1>1, <1>3 DEF Carries
<1> QED
  BY <1>1, <1>2, <1>3, <1>4, RunSlot

\* The first handler to write the row of today takes charge of its streak.
LEMMA UpsertDayRun ==
  ASSUME StreakIInv, RunIInv, NEW r \in Req, UpsertDay(r)
  PROVE  RunIInv'
<1> PICK h : h = [activity[r] EXCEPT !.at = "read"]
  OBVIOUS
<1> PICK d : d = activity[r].day
  OBVIOUS
<1>1. /\ Doing(r, "day") /\ Continue(r, h)
      /\ dayRows' = dayRows \cup {d} /\ late' = (late \/ d # today)
      /\ UNCHANGED <<today, streak, halted>>
  BY DEF UpsertDay
<1>2. /\ h \in ActivityState /\ h # None /\ h.at = "read" /\ h.day = d
      /\ h.first = activity[r].first /\ activity[r].first \in BOOLEAN
      /\ d \in Days /\ d <= today /\ today \in Nat /\ d \in Nat \ {0}
      /\ ~Carries(activity[r])
  <2>1. activity[r] \in Activity /\ activity[r].at = "day"
    BY <1>1, RunTypes DEF Doing, ActivityState
  <2>2. h \in Activity
    BY <2>1 DEF Activity
  <2> QED
    BY <1>1, <2>1, <2>2, RunTypes, NoDayAssumption
       DEF Activity, ActivityState, RunIInv, Doing, Carries, Days
<1>3. CASE d \in dayRows
  <2>1. dayRows' = dayRows
    BY <1>1, <1>3
  <2> QED
    BY <1>1, <1>2, <2>1, RunSlot
<1>4. CASE d \notin dayRows
  <2>1. h.first
    BY <1>1, <1>2, <1>4 DEF RunIInv, Doing
  <2>2. activity'[r] = h /\ \A q \in Req \ {r} : activity'[q] = activity[q]
    BY <1>1 DEF Continue, StreakIInv, StreakTypeOK
  <2>3. dayRows' \subseteq 1..today'
    BY <1>1, <1>2 DEF RunIInv
  <2>4. ASSUME NEW q \in Req, activity'[q] # None
        PROVE  /\ activity'[q].day <= today
               /\ activity'[q].at = "day" /\ ~activity'[q].first => activity'[q].day \in dayRows'
    BY <1>1, <1>2, <2>2, <2>4 DEF RunIInv
  <2>5. ASSUME ~late', ~halted' PROVE Overdue' \/ RowIsRight'
    <3>1. d = today /\ ~late /\ ~halted
      BY <1>1, <2>5
    <3>2. Overdue => Overdue'
      BY <1>1, <1>2, <2>2 DEF Overdue, Carries
    <3>3. CASE ~Overdue
      <4>1. RowIsRight
        BY <3>1, <3>3 DEF RunIInv
      <4>2. Accurate(streak, dayRows)
        BY <1>4, <3>1, <4>1 DEF RowIsRight
      <4>3. dayRows' \ {today} = dayRows
        BY <1>1, <1>4, <3>1
      <4>4. InHand' /\ today' \in dayRows'
        BY <1>1, <1>2, <2>1, <2>2, <3>1 DEF InHand, Carries
      <4>5. Accurate(streak, dayRows \ {today})'
        <5>1. streak' = streak /\ (dayRows \ {today})' = dayRows
          BY <1>1, <4>3
        <5> QED
          BY <4>2, <5>1
      <4>6. ASSUME NEW q \in Req, Doing(q, "write")' PROVE activity'[q].day # today
        <5>1. q # r /\ Doing(q, "write")
          BY <1>2, <2>2, <4>6 DEF Doing
        <5> QED
          BY <1>4, <2>2, <3>1, <5>1, RunTypes
      <4> QED
        BY <1>1, <4>4, <4>5, <4>6 DEF RowIsRight
    <3> QED
      BY <3>2, <3>3
  <2> QED
    BY <1>1, <2>3, <2>4, <2>5 DEF RunIInv
<1> QED
  BY <1>3, <1>4

LEMMA ReadStreakRun ==
  ASSUME StreakIInv, RunIInv, NEW r \in Req, ReadStreak(r)
  PROVE  RunIInv'
<1> PICK d : d = activity[r].day
  OBVIOUS
<1> PICK row : row = Advanced(streak, d)
  OBVIOUS
<1> PICK w : w = [at |-> "write", day |-> d, row |-> row]
  OBVIOUS
<1>1. /\ Doing(r, "read") /\ UNCHANGED <<today, dayRows, streak, late, halted>>
      /\ Continue(r, IF ~activity[r].first /\ streak # None THEN None ELSE w)
  BY DEF ReadStreak
<1>2. /\ d \in Days /\ d \in dayRows /\ today \in Nat /\ d <= today
      /\ streak \in StreakRow \cup {None} /\ (streak # None => Backed(streak))
      /\ dayRows \subseteq 1..today
  BY <1>1, RunTypes DEF Doing, RunIInv, StreakIInv, StreakTypeOK, StreakIsBacked
<1>3. row \in StreakRow
  BY <1>2, AdvancedSound
<1>4. w \in ActivityState /\ w # None /\ w.at = "write" /\ w.day = d /\ w.row = row
  <2>1. w \in Activity
    BY <1>2, <1>3 DEF Activity
  <2> QED
    BY <2>1, NoDayAssumption DEF ActivityState
<1>5. CASE ~activity[r].first /\ streak # None
  <2>1. ~Carries(activity[r]) /\ Continue(r, None)
    BY <1>1, <1>5 DEF Carries, Doing
  <2> QED
    BY <1>1, <2>1, RunSlot, NoActivity
<1>6. CASE ~(~activity[r].first /\ streak # None)
  <2>1. ASSUME ~late, ~halted, ~Overdue, d = today PROVE Accurate(row, dayRows)
    <3>1. RowIsRight
      BY <2>1 DEF RunIInv
    <3>2. CASE Accurate(streak, dayRows)
      BY <1>2, <2>1, <3>2, AdvancedAgain
    <3>3. CASE Accurate(streak, dayRows \ {today})
      <4>1. dayRows \ {today} \in SUBSET (1..(today - 1)) /\ dayRows = (dayRows \ {today}) \cup {today}
        BY <1>2, <2>1
      <4> QED
        BY <1>2, <2>1, <3>3, <4>1, AdvancedRight
    <3> QED
      BY <3>1, <3>2, <3>3 DEF RowIsRight
  <2>2. Carries(w)
    BY <1>4 DEF Carries
  <2> QED
    BY <1>1, <1>2, <1>4, <1>6, <2>1, <2>2, RunSlot
<1> QED
  BY <1>5, <1>6

\* What is written on its day is right for every day.
LEMMA WriteStreakRun ==
  ASSUME StreakIInv, RunIInv, NEW r \in Req, WriteStreak(r)
  PROVE  RunIInv'
<1>1. /\ Doing(r, "write") /\ Continue(r, None) /\ streak' = activity[r].row
      /\ late' = (late \/ activity[r].day # today)
      /\ UNCHANGED <<today, dayRows, halted>>
  BY DEF WriteStreak
<1>2. activity'[r] = None /\ \A q \in Req \ {r} : activity'[q] = activity[q]
  BY <1>1 DEF Continue, StreakIInv, StreakTypeOK
<1>3. ASSUME NEW q \in Req, activity'[q] # None
      PROVE  /\ activity'[q].day <= today
             /\ activity'[q].at = "day" /\ ~activity'[q].first => activity'[q].day \in dayRows
  BY <1>2, <1>3 DEF RunIInv
<1>4. ASSUME ~late', ~halted' PROVE Overdue' \/ RowIsRight'
  <2>1. activity[r].day = today /\ ~late /\ ~halted
    BY <1>1, <1>4
  <2>2. Overdue => Overdue'
    <3>1. today \in Nat
      BY RunTypes
    <3> QED
      BY <1>1, <1>2, <2>1, <3>1 DEF Overdue, Carries
  <2>3. CASE ~Overdue
    <3>1. /\ Accurate(activity[r].row, dayRows)
          /\ \A q \in Req : Doing(q, "write") /\ activity[q].day = today =>
               Accurate(activity[q].row, dayRows)
      BY <1>1, <2>1, <2>3 DEF RunIInv, RowIsRight
    <3>2. ASSUME NEW q \in Req, Doing(q, "write")', activity'[q].day = today
          PROVE  Accurate(activity'[q].row, dayRows)
      BY <1>2, <3>1, <3>2 DEF Doing
    <3> QED
      BY <1>1, <3>1, <3>2 DEF RowIsRight
  <2> QED
    BY <2>2, <2>3
<1> QED
  BY <1>1, <1>3, <1>4 DEF RunIInv

LEMMA ActivityStopsRun ==
  ASSUME StreakIInv, RunIInv, NEW r \in Req, ActivityStops(r)
  PROVE  RunIInv'
<1>1. /\ Continue(r, None) /\ UNCHANGED <<today, dayRows, streak, late>>
      /\ halted' = (halted \/ ~Doing(r, "day"))
  BY DEF ActivityStops
<1>2. ~halted' => ~Carries(activity[r])
  BY <1>1 DEF Carries, Doing
<1> QED
  BY <1>1, <1>2, RunSlot, NoActivity

LEMMA SetDailyGoalRun == ASSUME StreakIInv, RunIInv, SetDailyGoal PROVE RunIInv'
<1>1. /\ streak = None /\ streak' = NoStreak
      /\ UNCHANGED <<today, dayRows, activity, late, halted>>
  BY DEF SetDailyGoal
<1>2. \A D : Accurate(streak, D) => Accurate(streak', D)
  BY <1>1 DEF Accurate
<1>3. RowIsRight => RowIsRight'
  BY <1>1, <1>2 DEF RowIsRight, InHand, Doing
<1> QED
  BY <1>1, <1>3 DEF RunIInv, Overdue

\* Whoever still has the streak of the day that ends in hand is overdue.
LEMMA MidnightRun == ASSUME StreakIInv, RunIInv, Midnight PROVE RunIInv'
<1>1. today' = today + 1 /\ UNCHANGED <<dayRows, streak, activity, late, halted>> /\ today \in Nat
  BY DEF Midnight, StreakIInv, StreakTypeOK, Days
<1>2. \A r \in Req : activity[r] # None => activity[r].day \in Nat /\ activity[r].day <= today
  BY RunTypes DEF RunIInv, Days
<1>3. Overdue \/ InHand => Overdue'
  <2> SUFFICES ASSUME NEW r \in Req, Carries(activity[r]), activity[r].day <= today PROVE Overdue'
    BY <1>1, <1>2 DEF Overdue, InHand, Carries
  <2>1. activity[r].day < today + 1
    BY <1>1, <1>2 DEF Carries
  <2> QED
    BY <1>1, <2>1 DEF Overdue, Carries
<1>4. RowIsRight /\ ~InHand => RowIsRight'
  <2> SUFFICES ASSUME RowIsRight, ~InHand PROVE RowIsRight'
    OBVIOUS
  <2>1. Accurate(streak, dayRows)
    BY DEF RowIsRight
  <2>2. \A r \in Req : Doing(r, "write") => activity[r].day # today + 1
    BY <1>1, <1>2 DEF Doing
  <2> QED
    BY <1>1, <2>1, <2>2 DEF RowIsRight, Accurate, RunIn, Doing
<1>5. dayRows \subseteq 1..(today + 1)
  BY <1>1 DEF RunIInv
<1>6. \A r \in Req : activity[r] # None => activity[r].day <= today + 1
  BY <1>1, <1>2
<1> QED
  BY <1>1, <1>3, <1>4, <1>5, <1>6 DEF RunIInv

LEMMA RunInductive == StreakIInv /\ RunIInv /\ [StreakNext]_streakVars => RunIInv'
<1> SUFFICES ASSUME StreakIInv, RunIInv, [StreakNext]_streakVars PROVE RunIInv'
  OBVIOUS
<1>1. ASSUME NEW r \in Req,
             FindDay(r) \/ UpsertDay(r) \/ ReadStreak(r) \/ WriteStreak(r) \/ ActivityStops(r)
      PROVE  RunIInv'
  BY <1>1, FindDayRun, UpsertDayRun, ReadStreakRun, WriteStreakRun, ActivityStopsRun
<1>2. CASE SetDailyGoal
  BY <1>2, SetDailyGoalRun
<1>3. CASE Midnight
  BY <1>3, MidnightRun
<1>4. CASE UNCHANGED streakVars
  <2>1. UNCHANGED <<today, dayRows, streak, activity, late, halted>>
    BY <1>4 DEF streakVars
  <2>2. (Overdue <=> Overdue') /\ (InHand <=> InHand')
    BY <2>1 DEF Overdue, InHand
  <2>3. RowIsRight => RowIsRight'
    BY <2>1, <2>2 DEF RowIsRight, Doing
  <2> QED
    BY <2>1, <2>2, <2>3 DEF RunIInv
<1> QED
  BY <1>1, <1>2, <1>3, <1>4 DEF StreakNext

\* As long as handlers finish on their day, the streak counts the trained days
\* in a row up to the last one, and the longest streak is the longest such run.
THEOREM StreakIsRun == StreakSpec => []StreakIsTheRun
<1>1. StreakInit => RunIInv
  BY DEF StreakInit, RunIInv, RowIsRight, Accurate, Doing
<1>2. RunIInv => StreakIsTheRun
  <2> SUFFICES ASSUME RunIInv, ~late, ~halted, \A r \in Req : activity[r] = None, dayRows # {}
               PROVE  /\ streak # None
                      /\ \A d \in dayRows : d <= streak.last
                      /\ streak.current = RunTo(streak.last)
                      /\ \A d \in dayRows : RunTo(d) <= streak.longest
                      /\ \E d \in dayRows : RunTo(d) = streak.longest
    BY DEF StreakIsTheRun
  <2>1. Accurate(streak, dayRows)
    BY DEF RunIInv, Overdue, RowIsRight, InHand, Carries
  <2>2. \A d : RunTo(d) = RunIn(dayRows, d)
    BY DEF RunTo, RunIn
  <2> QED
    BY <2>1, <2>2 DEF Accurate
<1>3. StreakInit => StreakIInv
  BY StreakStarts
<1>4. StreakIInv /\ [StreakNext]_streakVars => StreakIInv'
  BY StreakInductive
<1> QED
  BY <1>1, <1>2, <1>3, <1>4, RunInductive, PTL DEF StreakSpec

-----------------------------------------------------------------------------
(* Puzzle progress.                                                        *)

\* The shortest interval after so many successes in a row, at the ease floor.
Shortest(reps) ==
  CASE reps = 2 -> 6
    [] reps = 3 -> 8
    [] reps = 4 -> 10
    [] reps = 5 -> 13
    [] reps = 6 -> 17
    [] reps = 7 -> 22
    [] reps = 8 -> 29
    [] OTHER    -> 1

\* A card on its way out, and how far its successes have carried it.
GoodCard(c) ==
  /\ c \in Card
  /\ c.lapses >= 1
  /\ c.intervalDays \in 1..GraduationIntervalDays
  /\ c.ease >= 130
  /\ c.reps <= 8
  /\ c.intervalDays >= Shortest(c.reps)

CardsAreGood ==
  /\ card # None => GoodCard(card)
  /\ \A r \in Req : Working(r, "grade") => GoodCard(work[r].seen)

\* The attempt that made the k-th step of a rating.
StepOf(s, k) ==
  [solved |-> s[k], before |-> SubSeq(s, 1, k - 1), after |-> SubSeq(s, 1, k)]

Step(k) == StepOf(solverRating, k)

Inserting == {r \in Req : Working(r, "insert")}

Counting == {r \in Req : Working(r, "count")}

\* Each step of the rating is an attempt or one about to be inserted, and the
\* two counts lag by the handlers that have not reached them.
StepsAreExplained ==
  \A k \in 1..Len(solverRating) :
    \/ \E i \in 1..Len(attempts) : attempts[i] = Step(k)
    \/ \E r \in Inserting : work[r].attempt = Step(k)

CountsLag ==
  /\ Len(attempts) + Cardinality(Inserting) = Len(solverRating)
  /\ plays + Cardinality(Counting) = Len(attempts)

Explained == ~torn /\ ~broken => StepsAreExplained /\ CountsLag

PuzzleIInv == PuzzleTypeOK /\ CardsAreGood /\ Explained

-----------------------------------------------------------------------------
(* The scheduler.                                                          *)

LEMMA RoundedHundredths ==
  ASSUME NEW a \in Nat, NEW m \in Nat, a + 50 >= 100 * m
  PROVE  Rounded(a, 100) \in Nat /\ Rounded(a, 100) >= m
BY DEF Rounded

LEMMA RoundedTenths ==
  ASSUME NEW a \in Nat, NEW m \in Nat, a + 5 >= 10 * m
  PROVE  Rounded(a, 10) \in Nat /\ Rounded(a, 10) >= m
BY DEF Rounded

LEMMA Product ==
  ASSUME NEW i \in Nat, NEW n \in Nat, NEW e \in Nat, i >= n, e >= 130
  PROVE  i * e \in Nat /\ i * e >= n * 130
OBVIOUS

LEMMA EaseIsClamped ==
  ASSUME NEW n \in Int
  PROVE  ClampEase(n) \in Nat /\ ClampEase(n) >= 130
BY DEF ClampEase, AtLeast

\* A lapse starts the ladder again.
LEMMA LapseIsGood ==
  ASSUME NEW c \in Card
  PROVE  GoodCard(Lapse(c))
<1>1. c.ease \in Nat /\ c.lapses \in Nat
  BY DEF Card
<1>2. ClampEase(c.ease - 20) \in Nat /\ ClampEase(c.ease - 20) >= 130
  BY <1>1, EaseIsClamped
<1> QED
  BY <1>1, <1>2 DEF GoodCard, Lapse, Card, Shortest, GraduationIntervalDays

\* Each rung of the ladder is at least the shortest of its number.
LEMMA LadderClimbs ==
  ASSUME NEW c, GoodCard(c), NEW e \in Nat, e >= 130
  PROVE  /\ Ladder(c, c.reps + 1, e) \in Nat
         /\ Ladder(c, c.reps + 1, e) >= Shortest(c.reps + 1)
         /\ c.reps = 8 => Ladder(c, c.reps + 1, e) > GraduationIntervalDays
         /\ c.reps = 0 => Ladder(c, c.reps + 1, e) = 1
         /\ c.reps = 1 => Ladder(c, c.reps + 1, e) = 6
<1> PICK i \in Nat : i = c.intervalDays
  BY DEF GoodCard, Card
<1> PICK n \in Nat : n = c.reps
  BY DEF GoodCard, Card
<1>1. i \in 1..30 /\ n <= 8 /\ i >= Shortest(n)
  BY DEF GoodCard, GraduationIntervalDays
<1>2. CASE n \in {0, 1}
  BY <1>2 DEF Ladder, Shortest
<1>3. CASE n \in 2..8
  <2> DEFINE a == i * e
  <2>1. Ladder(c, n + 1, e) = Rounded(a, 100)
    BY <1>3 DEF Ladder
  <2>2. Shortest(n) \in Nat
    BY <1>3 DEF Shortest
  <2>3. a \in Nat /\ a >= Shortest(n) * 130
    BY <1>1, <2>2, Product
  <2> HIDE DEF a
  <2>4. CASE n = 8
    <3>1. Shortest(n) = 29 /\ Shortest(n + 1) = 1
      BY <2>4 DEF Shortest
    <3>2. a + 50 >= 100 * 38
      BY <2>3, <3>1
    <3>3. Rounded(a, 100) \in Nat /\ Rounded(a, 100) >= 38
      BY <2>3, <3>2, RoundedHundredths
    <3> QED
      BY <2>1, <2>4, <3>1, <3>3 DEF GraduationIntervalDays
  <2>5. CASE n \in 2..7
    <3> DEFINE m == Shortest(n + 1)
    <3>1. m \in Nat /\ Shortest(n) * 130 + 50 >= 100 * m
      BY <2>5 DEF Shortest
    <3> HIDE DEF m
    <3>2. a + 50 >= 100 * m
      BY <2>2, <2>3, <3>1
    <3>3. Rounded(a, 100) \in Nat /\ Rounded(a, 100) >= m
      BY <2>3, <3>1, <3>2, RoundedHundredths
    <3> QED
      BY <2>1, <2>5, <3>3 DEF m
  <2> QED
    BY <1>3, <2>4, <2>5
<1> QED
  BY <1>1, <1>2, <1>3

\* A success is a card further on, or graduates; and only the third in a row can.
LEMMA SuccessIsGood ==
  ASSUME NEW c, GoodCard(c), NEW easy \in BOOLEAN
  PROVE  /\ Success(c, easy) \in Card
         /\ Graduates(Success(c, easy)) \/ GoodCard(Success(c, easy))
         /\ Graduates(Success(c, easy)) => c.reps >= 2
<1> PICK n \in Nat : n = c.reps
  BY DEF GoodCard, Card
<1> PICK l \in Nat : l = c.lapses /\ l >= 1
  BY DEF GoodCard, Card
<1> DEFINE raised == IF easy THEN c.ease + 15 ELSE c.ease
<1> PICK e \in Nat : e = ClampEase(raised) /\ e >= 130
  <2>1. raised \in Int
    BY DEF GoodCard, Card
  <2> QED
    BY <2>1, EaseIsClamped
<1> PICK d \in Nat : /\ d = Ladder(c, n + 1, e)
                     /\ d >= Shortest(n + 1)
                     /\ n = 8 => d > GraduationIntervalDays
                     /\ n = 0 => d = 1
                     /\ n = 1 => d = 6
  BY LadderClimbs
<1>1. Rounded(d * 13, 10) \in Nat /\ Rounded(d * 13, 10) >= d
  BY RoundedTenths
<1>2. n = 0 => Rounded(d * 13, 10) = 1
  BY DEF Rounded
<1>3. n = 1 => Rounded(d * 13, 10) = 8
  BY DEF Rounded
<1> PICK days \in Nat : /\ days = AtLeast(1, IF easy THEN Rounded(d * 13, 10) ELSE d)
                        /\ days >= 1 /\ days >= d
                        /\ n = 0 => days = 1
                        /\ n = 1 => days \in {6, 8}
  BY <1>1, <1>2, <1>3 DEF AtLeast
<1>4. Success(c, easy) = [intervalDays |-> days, ease |-> e, reps |-> n + 1, lapses |-> l]
  BY DEF Success
<1>5. n <= 8
  BY DEF GoodCard
<1>6. days <= GraduationIntervalDays => n + 1 <= 8
  BY <1>5 DEF GraduationIntervalDays
<1>7. days >= Shortest(n + 1) /\ Shortest(n + 1) \in Nat
  <2>1. Shortest(n + 1) \in Nat
    BY DEF Shortest
  <2> QED
    BY <2>1
<1>8. Graduates(Success(c, easy)) <=> days > GraduationIntervalDays
  BY <1>4 DEF Graduates
<1>9. Success(c, easy) \in Card
  BY <1>4 DEF Card
<1>10. days <= GraduationIntervalDays => GoodCard(Success(c, easy))
  BY <1>4, <1>6, <1>7, <1>9 DEF GoodCard, GraduationIntervalDays
<1>11. days > GraduationIntervalDays => n >= 2
  BY DEF GraduationIntervalDays
<1> QED
  BY <1>8, <1>9, <1>10, <1>11 DEF GraduationIntervalDays

-----------------------------------------------------------------------------
(* The handlers.                                                           *)

LEMMA WorkTypes ==
  ASSUME PuzzleTypeOK, NEW r \in Req
  PROVE  /\ Working(r, "get") => work[r].solved \in BOOLEAN
         /\ Working(r, "apply") => work[r].solved \in BOOLEAN /\ work[r].before \in Outcomes
         /\ Working(r, "upsert") => /\ work[r].solved \in BOOLEAN
                                    /\ work[r].before \in Outcomes
                                    /\ work[r].base \in Outcomes
         /\ Working(r, "insert") => work[r].attempt \in Attempt
         /\ Working(r, "count") => work[r].solved \in BOOLEAN
         /\ Working(r, "lapse") => work[r].seen \in Card \cup {None}
         /\ Working(r, "grade") => work[r].seen \in Card /\ work[r].grade \in Grades
<1>1. work[r] \in WorkState
  BY DEF PuzzleTypeOK
<1> QED
  BY <1>1 DEF WorkState, Working

LEMMA WorkAfter ==
  ASSUME PuzzleTypeOK, NEW r \in Req, NEW h \in WorkState, Work(r, h)
  PROVE  /\ work' \in [Req -> WorkState] /\ work'[r] = h
         /\ \A q \in Req \ {r} : work'[q] = work[q]
BY DEF PuzzleTypeOK, Work

\* A step that neither enters nor leaves the two last writes of an attempt.
LEMMA QuietStep ==
  ASSUME PuzzleIInv, NEW r \in Req, NEW h \in WorkState, Work(r, h),
         ~Working(r, "insert"), ~Working(r, "count"),
         h # None => h.at \notin {"insert", "count"},
         h # None /\ h.at = "grade" => GoodCard(h.seen),
         UNCHANGED <<solverRating, attempts, plays>>,
         begun' \in Nat, card' \in Card \cup {None}, torn' \in BOOLEAN, broken' \in BOOLEAN,
         card' # None => GoodCard(card'),
         torn => torn', broken => broken'
  PROVE  PuzzleIInv'
<1>0. PuzzleTypeOK /\ CardsAreGood /\ Explained
  BY DEF PuzzleIInv
<1>1. /\ work' \in [Req -> WorkState] /\ work'[r] = h
      /\ \A q \in Req \ {r} : work'[q] = work[q]
  BY <1>0, WorkAfter
<1>2. PuzzleTypeOK'
  BY <1>0, <1>1 DEF PuzzleTypeOK
<1>3. CardsAreGood'
  BY <1>0, <1>1 DEF CardsAreGood, Working
<1>4. Inserting' = Inserting /\ Counting' = Counting
  BY <1>1 DEF Inserting, Counting, Working
<1>5. \A q \in Inserting : work'[q] = work[q]
  BY <1>1 DEF Inserting
<1>6. \A k : Step(k)' = Step(k)
  BY DEF Step
<1>7. StepsAreExplained => StepsAreExplained'
  BY <1>4, <1>5, <1>6 DEF StepsAreExplained
<1>8. CountsLag => CountsLag'
  BY <1>4 DEF CountsLag
<1> QED
  BY <1>0, <1>2, <1>3, <1>7, <1>8 DEF PuzzleIInv, Explained

LEMMA ReceiveAttemptStep ==
  ASSUME PuzzleIInv, NEW r \in Req, NEW solved \in BOOLEAN, ReceiveAttempt(r, solved)
  PROVE  PuzzleIInv'
<1> PICK h : h = [at |-> "get", solved |-> solved]
  OBVIOUS
<1>1. h \in WorkState /\ h.at = "get"
  BY DEF WorkState
<1>2. /\ Work(r, h) /\ work[r] = None /\ begun' = begun + 1
      /\ UNCHANGED <<solverRating, attempts, plays, card, torn, broken>>
  BY DEF ReceiveAttempt
<1>3. PuzzleTypeOK /\ (card # None => GoodCard(card))
  BY DEF PuzzleIInv, CardsAreGood
<1>4. ~Working(r, "insert") /\ ~Working(r, "count")
  BY <1>2 DEF Working
<1>5. /\ begun' \in Nat /\ card' \in Card \cup {None} /\ torn' \in BOOLEAN /\ broken' \in BOOLEAN
  BY <1>2, <1>3 DEF PuzzleTypeOK
<1> QED
  BY <1>1, <1>2, <1>3, <1>4, <1>5, QuietStep

LEMMA GetBeforeStep ==
  ASSUME PuzzleIInv, NEW r \in Req, GetBefore(r)
  PROVE  PuzzleIInv'
<1> PICK h : h = [at |-> "apply", solved |-> work[r].solved, before |-> solverRating]
  OBVIOUS
<1>2. /\ Work(r, h) /\ Working(r, "get")
      /\ UNCHANGED <<solverRating, attempts, plays, card, begun, torn, broken>>
  BY DEF GetBefore
<1>3. PuzzleTypeOK /\ (card # None => GoodCard(card))
  BY DEF PuzzleIInv, CardsAreGood
<1>1. h \in WorkState /\ h.at = "apply"
  <2>1. work[r].solved \in BOOLEAN /\ solverRating \in Outcomes
    BY <1>2, <1>3, WorkTypes DEF PuzzleTypeOK
  <2> QED
    BY <2>1 DEF WorkState
<1>4. ~Working(r, "insert") /\ ~Working(r, "count")
  BY <1>2 DEF Working
<1>5. /\ begun' \in Nat /\ card' \in Card \cup {None} /\ torn' \in BOOLEAN /\ broken' \in BOOLEAN
  BY <1>2, <1>3 DEF PuzzleTypeOK
<1> QED
  BY <1>1, <1>2, <1>3, <1>4, <1>5, QuietStep

LEMMA ReadRatingStep ==
  ASSUME PuzzleIInv, NEW r \in Req, ReadRating(r)
  PROVE  PuzzleIInv'
<1> PICK h : h = [at |-> "upsert", solved |-> work[r].solved, before |-> work[r].before,
                  base |-> solverRating]
  OBVIOUS
<1>2. /\ Work(r, h) /\ Working(r, "apply")
      /\ UNCHANGED <<solverRating, attempts, plays, card, begun, torn, broken>>
  BY DEF ReadRating
<1>3. PuzzleTypeOK /\ (card # None => GoodCard(card))
  BY DEF PuzzleIInv, CardsAreGood
<1>1. h \in WorkState /\ h.at = "upsert"
  <2>1. work[r].solved \in BOOLEAN /\ work[r].before \in Outcomes /\ solverRating \in Outcomes
    BY <1>2, <1>3, WorkTypes DEF PuzzleTypeOK
  <2> QED
    BY <2>1 DEF WorkState
<1>4. ~Working(r, "insert") /\ ~Working(r, "count")
  BY <1>2 DEF Working
<1>5. /\ begun' \in Nat /\ card' \in Card \cup {None} /\ torn' \in BOOLEAN /\ broken' \in BOOLEAN
  BY <1>2, <1>3 DEF PuzzleTypeOK
<1> QED
  BY <1>1, <1>2, <1>3, <1>4, <1>5, QuietStep

LEMMA ReadCardStep ==
  ASSUME PuzzleIInv, NEW r \in Req, ReadCard(r)
  PROVE  PuzzleIInv'
<1> PICK h : h = [at |-> "lapse", seen |-> card]
  OBVIOUS
<1>2. /\ Work(r, h) /\ Working(r, "enqueue")
      /\ UNCHANGED <<solverRating, attempts, plays, card, begun, torn, broken>>
  BY DEF ReadCard
<1>3. PuzzleTypeOK /\ (card # None => GoodCard(card))
  BY DEF PuzzleIInv, CardsAreGood
<1>1. h \in WorkState /\ h.at = "lapse"
  BY <1>3 DEF WorkState, PuzzleTypeOK
<1>4. ~Working(r, "insert") /\ ~Working(r, "count")
  BY <1>2 DEF Working
<1>5. /\ begun' \in Nat /\ card' \in Card \cup {None} /\ torn' \in BOOLEAN /\ broken' \in BOOLEAN
  BY <1>2, <1>3 DEF PuzzleTypeOK
<1> QED
  BY <1>1, <1>2, <1>3, <1>4, <1>5, QuietStep

LEMMA UpsertCardStep ==
  ASSUME PuzzleIInv, NEW r \in Req, UpsertCard(r)
  PROVE  PuzzleIInv'
<1> PICK c : c = ToCardState(work[r].seen)
  OBVIOUS
<1>2. /\ Work(r, None) /\ Working(r, "lapse") /\ card' = Lapse(c)
      /\ torn' = (torn \/ work[r].seen # card)
      /\ UNCHANGED <<solverRating, attempts, plays, begun, broken>>
  BY DEF UpsertCard
<1>3. PuzzleTypeOK
  BY DEF PuzzleIInv
<1>1. None \in WorkState
  BY DEF WorkState
<1>4. ~Working(r, "insert") /\ ~Working(r, "count")
  BY <1>2 DEF Working
<1>5. c \in Card
  <2>1. work[r].seen \in Card \cup {None}
    BY <1>2, <1>3, WorkTypes
  <2> QED
    BY <2>1 DEF ToCardState, NewCard, Card
<1>6. GoodCard(card') /\ card' \in Card
  BY <1>2, <1>5, LapseIsGood DEF GoodCard
<1>7. begun' \in Nat /\ torn' \in BOOLEAN /\ broken' \in BOOLEAN
  BY <1>2, <1>3 DEF PuzzleTypeOK
<1> QED
  BY <1>1, <1>2, <1>4, <1>6, <1>7, QuietStep

LEMMA ReceiveGradeStep ==
  ASSUME PuzzleIInv, NEW r \in Req, NEW grade \in Grades, ReceiveGrade(r, grade)
  PROVE  PuzzleIInv'
<1> PICK h : h = [at |-> "grade", seen |-> card, grade |-> grade]
  OBVIOUS
<1>2. /\ Work(r, h) /\ work[r] = None /\ card # None
      /\ UNCHANGED <<solverRating, attempts, plays, card, begun, torn, broken>>
  BY DEF ReceiveGrade
<1>3. PuzzleTypeOK /\ GoodCard(card)
  BY <1>2 DEF PuzzleIInv, CardsAreGood
<1>1. h \in WorkState /\ h.at = "grade" /\ GoodCard(h.seen)
  <2>1. card \in Card
    BY <1>3 DEF GoodCard
  <2> QED
    BY <1>3, <2>1 DEF WorkState
<1>4. ~Working(r, "insert") /\ ~Working(r, "count")
  BY <1>2 DEF Working
<1>5. /\ begun' \in Nat /\ card' \in Card \cup {None} /\ torn' \in BOOLEAN /\ broken' \in BOOLEAN
  BY <1>2, <1>3 DEF PuzzleTypeOK
<1> QED
  BY <1>1, <1>2, <1>3, <1>4, <1>5, QuietStep

LEMMA ScheduleIsGood ==
  ASSUME NEW c, GoodCard(c), NEW grade \in Grades
  PROVE  /\ Schedule(c, grade) \in Card
         /\ Graduates(Schedule(c, grade)) \/ GoodCard(Schedule(c, grade))
         /\ Graduates(Schedule(c, grade)) => c.reps >= 2
<1>1. CASE grade = "again"
  <2>1. Schedule(c, grade) = Lapse(c)
    BY <1>1 DEF Schedule
  <2>2. GoodCard(Lapse(c))
    BY LapseIsGood DEF GoodCard
  <2>3. ~Graduates(Lapse(c))
    BY <2>2 DEF GoodCard, Graduates, GraduationIntervalDays
  <2> QED
    BY <2>1, <2>2, <2>3 DEF GoodCard
<1>2. CASE grade # "again"
  <2> PICK easy \in BOOLEAN : easy = (grade = "easy")
    OBVIOUS
  <2>1. Schedule(c, grade) = Success(c, easy)
    BY <1>2 DEF Schedule
  <2> QED
    BY <2>1, SuccessIsGood
<1> QED
  BY <1>1, <1>2

LEMMA WriteGradeStep ==
  ASSUME PuzzleIInv, NEW r \in Req, WriteGrade(r)
  PROVE  PuzzleIInv'
<1> PICK c : c = work[r].seen
  OBVIOUS
<1> PICK grade : grade = work[r].grade
  OBVIOUS
<1> PICK next : next = Schedule(c, grade)
  OBVIOUS
<1>2. /\ Work(r, None) /\ Working(r, "grade")
      /\ card' = IF card = None \/ Graduates(next) THEN None ELSE next
      /\ torn' = (torn \/ work[r].seen # card)
      /\ UNCHANGED <<solverRating, attempts, plays, begun, broken>>
  BY DEF WriteGrade
<1>3. PuzzleTypeOK /\ GoodCard(c) /\ grade \in Grades
  BY <1>2, WorkTypes DEF PuzzleIInv, CardsAreGood
<1>1. None \in WorkState
  BY DEF WorkState
<1>4. ~Working(r, "insert") /\ ~Working(r, "count")
  BY <1>2 DEF Working
<1>5. next \in Card /\ (Graduates(next) \/ GoodCard(next))
  BY <1>3, ScheduleIsGood
<1>6. card' \in Card \cup {None} /\ (card' # None => GoodCard(card'))
  BY <1>2, <1>5
<1>7. begun' \in Nat /\ torn' \in BOOLEAN /\ broken' \in BOOLEAN
  BY <1>2, <1>3 DEF PuzzleTypeOK
<1> QED
  BY <1>1, <1>2, <1>4, <1>6, <1>7, QuietStep

LEMMA WorkStopsStep ==
  ASSUME PuzzleIInv, NEW r \in Req, WorkStops(r)
  PROVE  PuzzleIInv'
<1>2. /\ Work(r, None)
      /\ broken' = (broken \/ Working(r, "insert") \/ Working(r, "count"))
      /\ UNCHANGED <<solverRating, attempts, plays, card, begun, torn>>
  BY DEF WorkStops
<1>1. None \in WorkState
  BY DEF WorkState
<1>3. PuzzleTypeOK /\ CardsAreGood /\ (card # None => GoodCard(card))
  BY DEF PuzzleIInv, CardsAreGood
<1>4. broken' \in BOOLEAN
  BY <1>2, <1>3 DEF PuzzleTypeOK
<1>5. CASE Working(r, "insert") \/ Working(r, "count")
  <2>1. /\ work' \in [Req -> WorkState] /\ work'[r] = None
        /\ \A q \in Req \ {r} : work'[q] = work[q]
    BY <1>1, <1>2, <1>3, WorkAfter
  <2>2. PuzzleTypeOK'
    BY <1>2, <1>3, <1>4, <2>1 DEF PuzzleTypeOK
  <2>3. CardsAreGood'
    BY <1>2, <1>3, <2>1 DEF CardsAreGood, Working
  <2>4. Explained'
    BY <1>2, <1>5 DEF Explained
  <2> QED
    BY <2>2, <2>3, <2>4 DEF PuzzleIInv
<1>6. CASE ~Working(r, "insert") /\ ~Working(r, "count")
  <2>1. begun' \in Nat /\ card' \in Card \cup {None} /\ torn' \in BOOLEAN
    BY <1>2, <1>3 DEF PuzzleTypeOK
  <2>2. (torn => torn') /\ (broken => broken') /\ (card' # None => GoodCard(card'))
    BY <1>2, <1>3
  <2> QED
    BY <1>1, <1>2, <1>4, <1>6, <2>1, <2>2, QuietStep
<1> QED
  BY <1>5, <1>6

-----------------------------------------------------------------------------
(* The last three writes of an attempt.                                    *)

LEMMA PrefixOfAppend ==
  ASSUME NEW s \in Outcomes, NEW x \in BOOLEAN, NEW k \in 0..Len(s)
  PROVE  SubSeq(Append(s, x), 1, k) = SubSeq(s, 1, k)
<1> PICK t : t = Append(s, x)
  OBVIOUS
<1>1. /\ t \in Seq(BOOLEAN) /\ Len(t) = Len(s) + 1 /\ s \in Seq(BOOLEAN) /\ Len(s) \in Nat
      /\ \A i \in 1..Len(s) : t[i] = s[i]
  BY AppendProperties DEF Outcomes
<1>2. /\ \A i \in 1..k : t[i] \in BOOLEAN /\ s[i] \in BOOLEAN /\ t[i] = s[i]
      /\ k \in Int
  BY <1>1
<1>3. /\ SubSeq(t, 1, k) \in Seq(BOOLEAN)
      /\ Len(SubSeq(t, 1, k)) = k
      /\ \A i \in 1..k : SubSeq(t, 1, k)[i] = t[i]
  BY <1>2, SubSeqProperties
<1>4. /\ SubSeq(s, 1, k) \in Seq(BOOLEAN)
      /\ Len(SubSeq(s, 1, k)) = k
      /\ \A i \in 1..k : SubSeq(s, 1, k)[i] = s[i]
  BY <1>2, SubSeqProperties
<1> QED
  BY <1>2, <1>3, <1>4, SeqEqual

\* Appending leaves the earlier steps as they were and adds one.
LEMMA StepsOfAppend ==
  ASSUME NEW s \in Outcomes, NEW x \in BOOLEAN
  PROVE  /\ \A k \in 1..Len(s) : StepOf(Append(s, x), k) = StepOf(s, k)
         /\ StepOf(Append(s, x), Len(s) + 1) =
              [solved |-> x, before |-> s, after |-> Append(s, x)]
<1> PICK t : t = Append(s, x)
  OBVIOUS
<1>1. /\ t \in Seq(BOOLEAN) /\ Len(t) = Len(s) + 1 /\ s \in Seq(BOOLEAN) /\ Len(s) \in Nat
      /\ \A i \in 1..Len(s) : t[i] = s[i]
      /\ t[Len(s) + 1] = x
  BY AppendProperties DEF Outcomes
<1>2. \A k \in 1..Len(s) : StepOf(t, k) = StepOf(s, k)
  <2> TAKE k \in 1..Len(s)
  <2>1. SubSeq(t, 1, k) = SubSeq(s, 1, k) /\ SubSeq(t, 1, k - 1) = SubSeq(s, 1, k - 1)
    BY <1>1, PrefixOfAppend
  <2> QED
    BY <1>1, <2>1 DEF StepOf
<1>3. SubSeq(t, 1, Len(s) + 1) = t
  BY <1>1, SubSeqFull
<1>4. SubSeq(t, 1, Len(s) + 1 - 1) = s
  <2>1. SubSeq(t, 1, Len(s)) = SubSeq(s, 1, Len(s))
    BY <1>1, PrefixOfAppend
  <2>2. SubSeq(s, 1, Len(s)) = s
    BY <1>1, SubSeqFull
  <2>3. Len(s) + 1 - 1 = Len(s)
    BY <1>1
  <2> QED
    BY <2>1, <2>2, <2>3
<1>5. StepOf(t, Len(s) + 1) = [solved |-> x, before |-> s, after |-> t]
  <2> PICK n : n = Len(s) + 1
    OBVIOUS
  <2>1. t[n] = x /\ SubSeq(t, 1, n - 1) = s /\ SubSeq(t, 1, n) = t
    BY <1>1, <1>3, <1>4
  <2>2. StepOf(t, n) = [solved |-> x, before |-> s, after |-> t]
    BY <2>1 DEF StepOf
  <2> QED
    BY <2>2
<1> QED
  BY <1>2, <1>5

LEMMA LateHandlers ==
  ASSUME TRUE
  PROVE  /\ IsFiniteSet(Inserting) /\ Cardinality(Inserting) \in Nat
         /\ IsFiniteSet(Counting) /\ Cardinality(Counting) \in Nat
<1>1. Inserting \in SUBSET Req /\ Counting \in SUBSET Req
  BY DEF Inserting, Counting
<1> QED
  BY <1>1, RequestsAssumption, FS_Subset, FS_CardinalityType

LEMMA UpsertRatingStep ==
  ASSUME PuzzleIInv, NEW r \in Req, UpsertRating(r)
  PROVE  PuzzleIInv'
<1> PICK s : s = solverRating
  OBVIOUS
<1> PICK x : x = work[r].solved
  OBVIOUS
<1> PICK base : base = work[r].base
  OBVIOUS
<1> PICK before : before = work[r].before
  OBVIOUS
<1> PICK next : next = Append(base, x)
  OBVIOUS
<1> PICK a : a = [solved |-> x, before |-> before, after |-> next]
  OBVIOUS
<1> PICK h : h = [at |-> "insert", attempt |-> a]
  OBVIOUS
<1>1. /\ Working(r, "upsert") /\ Work(r, h) /\ solverRating' = next
      /\ torn' = (torn \/ base # s \/ before # base)
      /\ UNCHANGED <<attempts, plays, card, begun, broken>>
  BY DEF UpsertRating, UpdateRating
<1>2. PuzzleTypeOK /\ CardsAreGood
  BY DEF PuzzleIInv
<1>3. s \in Outcomes /\ x \in BOOLEAN /\ base \in Outcomes /\ before \in Outcomes
  BY <1>1, <1>2, WorkTypes DEF PuzzleTypeOK
<1>4. next \in Outcomes
  BY <1>3, AppendProperties DEF Outcomes
<1>5. a \in Attempt
  BY <1>3, <1>4 DEF Attempt
<1>6. h \in WorkState /\ h # None /\ h.at = "insert" /\ h.attempt = a
  <2>1. h \in [at : {"insert"}, attempt : Attempt]
    BY <1>5
  <2>2. h \in WorkState
    BY <2>1 DEF WorkState
  <2>3. h # None
    BY <2>1, WorkAssumption
  <2>4. h.at = "insert" /\ h.attempt = a
    OBVIOUS
  <2> QED
    BY <2>2, <2>3, <2>4
<1>7. /\ work' \in [Req -> WorkState] /\ work'[r] = h
      /\ \A q \in Req \ {r} : work'[q] = work[q]
  BY <1>1, <1>2, <1>6, WorkAfter
<1>8. PuzzleTypeOK'
  BY <1>1, <1>2, <1>4, <1>7 DEF PuzzleTypeOK
<1>9. CardsAreGood'
  <2>1. \A q \in Req : Working(q, "grade")' => q # r /\ Working(q, "grade")
    BY <1>6, <1>7 DEF Working
  <2> QED
    BY <1>1, <1>2, <1>7, <2>1 DEF CardsAreGood
<1>10. Explained'
  <2> SUFFICES ASSUME ~torn', ~broken' PROVE StepsAreExplained' /\ CountsLag'
    BY DEF Explained
  <2>1. ~torn /\ ~broken /\ base = s /\ before = s
    BY <1>1
  <2>2. StepsAreExplained /\ CountsLag
    BY <2>1 DEF PuzzleIInv, Explained
  <2>3. /\ Len(next) = Len(s) + 1 /\ Len(s) \in Nat
        /\ \A k \in 1..Len(s) : StepOf(next, k) = StepOf(s, k)
        /\ StepOf(next, Len(s) + 1) = a
    <3>1. next = Append(s, x) /\ a = [solved |-> x, before |-> s, after |-> next]
      BY <2>1
    <3>2. Len(Append(s, x)) = Len(s) + 1 /\ Len(s) \in Nat
      BY <1>3, AppendProperties, LenProperties DEF Outcomes
    <3>3. /\ \A k \in 1..Len(s) : StepOf(Append(s, x), k) = StepOf(s, k)
          /\ StepOf(Append(s, x), Len(s) + 1) =
               [solved |-> x, before |-> s, after |-> Append(s, x)]
      BY <1>3, StepsOfAppend
    <3> QED
      BY <3>1, <3>2, <3>3
  <2>4. r \notin Inserting /\ Inserting' = Inserting \cup {r} /\ Counting' = Counting
    <3>1. r \notin Inserting /\ r \notin Counting
      BY <1>1 DEF Inserting, Counting, Working
    <3>4. Inserting' = Inserting \cup {r}
      BY <1>6, <1>7 DEF Inserting, Working
    <3>5. Counting' = Counting
      BY <1>1, <1>6, <1>7 DEF Counting, Working
    <3> QED
      BY <3>1, <3>4, <3>5
  <2>5. work'[r].attempt = a /\ \A q \in Inserting : work'[q] = work[q]
    BY <1>7, <2>4 DEF Inserting
  <2>6. StepsAreExplained'
    <3> SUFFICES ASSUME NEW k \in 1..(Len(s) + 1)
                 PROVE  \/ \E i \in 1..Len(attempts) : attempts[i] = StepOf(next, k)
                        \/ \E q \in Inserting \cup {r} : work'[q].attempt = StepOf(next, k)
      BY <1>1, <2>3, <2>4 DEF StepsAreExplained, Step
    <3>1. CASE k = Len(s) + 1
      BY <2>3, <2>5, <3>1
    <3>2. CASE k \in 1..Len(s)
      BY <2>2, <2>3, <2>5, <3>2 DEF StepsAreExplained, Step
    <3> QED
      BY <2>3, <3>1, <3>2
  <2>7. CountsLag'
    <3>1. Cardinality(Inserting \cup {r}) = Cardinality(Inserting) + 1
      BY <2>4, LateHandlers, FS_AddElement
    <3>2. Len(attempts) \in Nat
      BY <1>2, LenProperties DEF PuzzleTypeOK
    <3> QED
      BY <1>1, <2>2, <2>3, <2>4, <3>1, <3>2, LateHandlers DEF CountsLag
  <2> QED
    BY <2>6, <2>7
<1> QED
  BY <1>8, <1>9, <1>10 DEF PuzzleIInv

LEMMA InsertAttemptStep ==
  ASSUME PuzzleIInv, NEW r \in Req, InsertAttempt(r)
  PROVE  PuzzleIInv'
<1> PICK a : a = work[r].attempt
  OBVIOUS
<1> PICK h : h = [at |-> "count", solved |-> a.solved]
  OBVIOUS
<1>1. /\ Working(r, "insert") /\ Work(r, h) /\ attempts' = Append(attempts, a)
      /\ UNCHANGED <<solverRating, plays, card, begun, torn, broken>>
  BY DEF InsertAttempt
<1>2. PuzzleTypeOK /\ CardsAreGood
  BY DEF PuzzleIInv
<1>3. a \in Attempt /\ a.solved \in BOOLEAN
  BY <1>1, <1>2, WorkTypes DEF Attempt
<1>4. /\ attempts' \in Seq(Attempt) /\ Len(attempts') = Len(attempts) + 1 /\ Len(attempts) \in Nat
      /\ \A i \in 1..Len(attempts) : attempts'[i] = attempts[i]
      /\ attempts'[Len(attempts) + 1] = a
  <2>1. attempts \in Seq(Attempt)
    BY <1>2 DEF PuzzleTypeOK
  <2> PICK s \in Seq(Attempt) : s = attempts
    BY <2>1
  <2> PICK t : t = Append(s, a)
    OBVIOUS
  <2>2. /\ t \in Seq(Attempt) /\ Len(t) = Len(s) + 1 /\ Len(s) \in Nat
        /\ \A i \in 1..Len(s) : t[i] = s[i]
        /\ t[Len(s) + 1] = a
    BY <1>3, AppendProperties, LenProperties
  <2> QED
    BY <1>1, <2>2
<1>6. h \in WorkState /\ h # None
  <2>1. h \in WorkState
    BY <1>3 DEF WorkState
  <2>2. h # None
    BY <1>3, WorkAssumption
  <2> QED
    BY <2>1, <2>2
<1>7. /\ work' \in [Req -> WorkState] /\ work'[r] = h
      /\ \A q \in Req \ {r} : work'[q] = work[q]
  BY <1>1, <1>2, <1>6, WorkAfter
<1>8. PuzzleTypeOK'
  BY <1>1, <1>2, <1>4, <1>7 DEF PuzzleTypeOK
<1>9. CardsAreGood'
  BY <1>1, <1>2, <1>7 DEF CardsAreGood, Working
<1>10. Explained'
  <2> SUFFICES ASSUME ~torn', ~broken' PROVE StepsAreExplained' /\ CountsLag'
    BY DEF Explained
  <2>2. StepsAreExplained /\ CountsLag
    BY <1>1 DEF PuzzleIInv, Explained
  <2>3. /\ r \in Inserting /\ Inserting' = Inserting \ {r}
        /\ r \notin Counting /\ Counting' = Counting \cup {r}
    BY <1>1, <1>6, <1>7 DEF Inserting, Counting, Working
  <2>4. \A q \in Inserting \ {r} : work'[q] = work[q]
    BY <1>7 DEF Inserting
  <2>5. StepsAreExplained'
    <3> SUFFICES ASSUME NEW k \in 1..Len(solverRating)
                 PROVE  \/ \E i \in 1..(Len(attempts) + 1) : attempts'[i] = Step(k)
                        \/ \E q \in Inserting \ {r} : work'[q].attempt = Step(k)
      BY <1>1, <1>4, <2>3 DEF StepsAreExplained, Step
    <3>1. CASE a = Step(k)
      BY <1>4, <3>1
    <3>2. CASE \E i \in 1..Len(attempts) : attempts[i] = Step(k)
      BY <1>4, <3>2
    <3>3. CASE \E q \in Inserting \ {r} : work[q].attempt = Step(k)
      BY <2>4, <3>3
    <3> QED
      BY <2>2, <3>1, <3>2, <3>3 DEF StepsAreExplained
  <2>6. CountsLag'
    <3>1. Cardinality(Inserting \ {r}) = Cardinality(Inserting) - 1
      BY <2>3, LateHandlers, FS_RemoveElement
    <3>2. Cardinality(Counting \cup {r}) = Cardinality(Counting) + 1
      BY <2>3, LateHandlers, FS_AddElement
    <3>3. Len(solverRating) \in Nat /\ plays \in Nat
      BY <1>2, LenProperties DEF PuzzleTypeOK, Outcomes
    <3> QED
      BY <1>1, <1>4, <2>2, <2>3, <3>1, <3>2, <3>3, LateHandlers DEF CountsLag
  <2> QED
    BY <2>5, <2>6
<1> QED
  BY <1>8, <1>9, <1>10 DEF PuzzleIInv

LEMMA CountPlayStep ==
  ASSUME PuzzleIInv, NEW r \in Req, CountPlay(r)
  PROVE  PuzzleIInv'
<1> PICK h : h = IF work[r].solved THEN None ELSE [at |-> "enqueue"]
  OBVIOUS
<1>1. /\ Working(r, "count") /\ Work(r, h) /\ plays' = plays + 1
      /\ UNCHANGED <<solverRating, attempts, card, begun, torn, broken>>
  BY DEF CountPlay
<1>2. PuzzleTypeOK /\ CardsAreGood
  BY DEF PuzzleIInv
<1>3. h \in WorkState /\ (h # None => h.at = "enqueue")
  BY DEF WorkState
<1>4. /\ work' \in [Req -> WorkState] /\ work'[r] = h
      /\ \A q \in Req \ {r} : work'[q] = work[q]
  BY <1>1, <1>2, <1>3, WorkAfter
<1>5. PuzzleTypeOK'
  BY <1>1, <1>2, <1>4 DEF PuzzleTypeOK
<1>6. CardsAreGood'
  BY <1>1, <1>2, <1>3, <1>4 DEF CardsAreGood, Working
<1>7. Explained'
  <2> SUFFICES ASSUME ~torn', ~broken' PROVE StepsAreExplained' /\ CountsLag'
    BY DEF Explained
  <2>1. StepsAreExplained /\ CountsLag
    BY <1>1 DEF PuzzleIInv, Explained
  <2>2. /\ Inserting' = Inserting
        /\ r \in Counting /\ Counting' = Counting \ {r}
    BY <1>1, <1>3, <1>4 DEF Inserting, Counting, Working
  <2>3. \A q \in Inserting : work'[q] = work[q]
    BY <1>1, <1>4 DEF Inserting, Working
  <2>4. StepsAreExplained'
    BY <1>1, <2>1, <2>2, <2>3 DEF StepsAreExplained, Step
  <2>5. CountsLag'
    <3>1. Cardinality(Counting \ {r}) = Cardinality(Counting) - 1
      BY <2>2, LateHandlers, FS_RemoveElement
    <3>2. Len(attempts) \in Nat /\ plays \in Nat
      BY <1>2, LenProperties DEF PuzzleTypeOK
    <3> QED
      BY <1>1, <2>1, <2>2, <3>1, <3>2, LateHandlers DEF CountsLag
  <2> QED
    BY <2>4, <2>5
<1> QED
  BY <1>5, <1>6, <1>7 DEF PuzzleIInv

-----------------------------------------------------------------------------
LEMMA InitHolds == PuzzleInit => PuzzleIInv
<1> SUFFICES ASSUME PuzzleInit PROVE PuzzleIInv
  OBVIOUS
<1> USE DEF PuzzleInit
<1>1. PuzzleTypeOK
  <2>1. None \in WorkState
    BY DEF WorkState
  <2>2. work \in [Req -> WorkState]
    BY <2>1
  <2>3. solverRating \in Outcomes /\ attempts \in Seq(Attempt)
    BY EmptySeq DEF Outcomes
  <2> QED
    BY <2>2, <2>3 DEF PuzzleTypeOK
<1>2. CardsAreGood
  BY DEF CardsAreGood, Working
<1>3. Inserting = {} /\ Counting = {} /\ Len(solverRating) = 0 /\ Len(attempts) = 0
  BY DEF Inserting, Counting, Working
<1>4. StepsAreExplained
  BY <1>3 DEF StepsAreExplained
<1>5. CountsLag
  BY <1>3, FS_EmptySet DEF CountsLag
<1> QED
  BY <1>1, <1>2, <1>4, <1>5 DEF PuzzleIInv, Explained

LEMMA StutterHolds == PuzzleIInv /\ UNCHANGED puzzleVars => PuzzleIInv'
<1> SUFFICES ASSUME PuzzleIInv, UNCHANGED puzzleVars PROVE PuzzleIInv'
  OBVIOUS
<1> USE DEF puzzleVars
<1>1. PuzzleTypeOK'
  BY DEF PuzzleIInv, PuzzleTypeOK
<1>2. CardsAreGood'
  BY DEF PuzzleIInv, CardsAreGood, Working
<1>3. Inserting' = Inserting /\ Counting' = Counting
  BY DEF Inserting, Counting, Working
<1>4. Explained'
  BY <1>3 DEF PuzzleIInv, Explained, StepsAreExplained, CountsLag, Step
<1> QED
  BY <1>1, <1>2, <1>4 DEF PuzzleIInv

LEMMA NextHolds == PuzzleIInv /\ [PuzzleNext]_puzzleVars => PuzzleIInv'
<1> SUFFICES ASSUME PuzzleIInv, [PuzzleNext]_puzzleVars PROVE PuzzleIInv'
  OBVIOUS
<1>1. CASE UNCHANGED puzzleVars
  BY <1>1, StutterHolds
<1>2. ASSUME NEW r \in Req, NEW solved \in BOOLEAN, ReceiveAttempt(r, solved) PROVE PuzzleIInv'
  BY <1>2, ReceiveAttemptStep
<1>3. ASSUME NEW r \in Req, GetBefore(r) PROVE PuzzleIInv'
  BY <1>3, GetBeforeStep
<1>4. ASSUME NEW r \in Req, ReadRating(r) PROVE PuzzleIInv'
  BY <1>4, ReadRatingStep
<1>5. ASSUME NEW r \in Req, UpsertRating(r) PROVE PuzzleIInv'
  BY <1>5, UpsertRatingStep
<1>6. ASSUME NEW r \in Req, InsertAttempt(r) PROVE PuzzleIInv'
  BY <1>6, InsertAttemptStep
<1>7. ASSUME NEW r \in Req, CountPlay(r) PROVE PuzzleIInv'
  BY <1>7, CountPlayStep
<1>8. ASSUME NEW r \in Req, ReadCard(r) PROVE PuzzleIInv'
  BY <1>8, ReadCardStep
<1>9. ASSUME NEW r \in Req, UpsertCard(r) PROVE PuzzleIInv'
  BY <1>9, UpsertCardStep
<1>10. ASSUME NEW r \in Req, NEW grade \in Grades, ReceiveGrade(r, grade) PROVE PuzzleIInv'
  BY <1>10, ReceiveGradeStep
<1>11. ASSUME NEW r \in Req, WriteGrade(r) PROVE PuzzleIInv'
  BY <1>11, WriteGradeStep
<1>12. ASSUME NEW r \in Req, WorkStops(r) PROVE PuzzleIInv'
  BY <1>12, WorkStopsStep
<1> QED
  BY <1>1, <1>2, <1>3, <1>4, <1>5, <1>6, <1>7, <1>8, <1>9, <1>10, <1>11, <1>12 DEF PuzzleNext

\* The inductive invariant: every card climbs at least the shortest ladder, and
\* every step of the rating has its attempt, inserted or about to be.
THEOREM PuzzleInvariance == PuzzleSpec => []PuzzleIInv
BY InitHolds, NextHolds, PTL DEF PuzzleSpec

\* Rating, attempts, card and handlers are what the rows and calls declare.
THEOREM PuzzleTypeCorrect == PuzzleSpec => []PuzzleTypeOK
<1>1. PuzzleIInv => PuzzleTypeOK
  BY DEF PuzzleIInv
<1> QED
  BY <1>1, PuzzleInvariance, PTL

\* A queued card has lapsed, is due within 30 days and is never more than eight
\* solves in a row old, whatever was graded and whatever overlapped.
THEOREM CardsAreLearnable == PuzzleSpec => []CardIsLearnable
<1>1. PuzzleIInv => CardIsLearnable
  BY DEF PuzzleIInv, CardsAreGood, GoodCard, CardIsLearnable
<1> QED
  BY <1>1, PuzzleInvariance, PTL

\* The attempts account for the rating once no handler is under way.
THEOREM AttemptsExplain == PuzzleSpec => []AttemptsExplainRating
<1>1. PuzzleIInv => AttemptsExplainRating
  <2> SUFFICES ASSUME PuzzleIInv, ~torn, ~broken, \A r \in Req : work[r] = None
               PROVE  /\ Len(attempts) = Len(solverRating) /\ plays = Len(attempts)
                      /\ \A k \in DOMAIN solverRating : \E i \in DOMAIN attempts :
                           attempts[i] = Step(k)
    BY DEF AttemptsExplainRating, Step, StepOf
  <2>1. StepsAreExplained /\ CountsLag /\ PuzzleTypeOK
    BY DEF PuzzleIInv, Explained
  <2>2. Inserting = {} /\ Counting = {}
    BY DEF Inserting, Counting, Working
  <2>3. /\ DOMAIN solverRating = 1..Len(solverRating) /\ Len(solverRating) \in Nat
        /\ DOMAIN attempts = 1..Len(attempts) /\ Len(attempts) \in Nat
        /\ plays \in Nat
    BY <2>1, LenProperties DEF PuzzleTypeOK, Outcomes
  <2>4. Len(attempts) = Len(solverRating) /\ plays = Len(attempts)
    BY <2>1, <2>2, <2>3, FS_EmptySet DEF CountsLag
  <2>5. \A k \in DOMAIN solverRating : \E i \in DOMAIN attempts : attempts[i] = Step(k)
    BY <2>1, <2>2, <2>3 DEF StepsAreExplained
  <2> QED
    BY <2>4, <2>5
<1> QED
  BY <1>1, PuzzleInvariance, PTL

\* A card graduates on its third success in a row or later: the first two rungs
\* of the ladder are a day and six, eight at an easy grade.
THEOREM LearnedInThreeHolds == PuzzleSpec => LearnedInThree
<1>1. PuzzleIInv /\ [PuzzleNext]_puzzleVars =>
        [card # None /\ card' = None => card.reps >= 2 \/ torn']_puzzleVars
  <2> SUFFICES ASSUME PuzzleIInv, PuzzleNext, card # None, card' = None, ~torn'
               PROVE  card.reps >= 2
    OBVIOUS
  <2>1. PICK r \in Req : UpsertCard(r) \/ WriteGrade(r)
    BY DEF PuzzleNext, ReceiveAttempt, GetBefore, ReadRating, UpsertRating, InsertAttempt,
           CountPlay, ReadCard, ReceiveGrade, WorkStops
  <2>2. CASE UpsertCard(r)
    <3>1. work[r].seen \in Card \cup {None}
      BY <2>2, WorkTypes DEF PuzzleIInv, UpsertCard
    <3>2. ToCardState(work[r].seen) \in Card
      BY <3>1 DEF ToCardState, NewCard, Card
    <3>3. Lapse(ToCardState(work[r].seen)) \in Card
      BY <3>2, LapseIsGood DEF GoodCard
    <3> QED
      BY <2>2, <3>3, PuzzleAssumption DEF UpsertCard, Card
  <2>3. CASE WriteGrade(r)
    <3> PICK next : next = Schedule(work[r].seen, work[r].grade)
      OBVIOUS
    <3>1. work[r].seen = card /\ GoodCard(work[r].seen) /\ work[r].grade \in Grades
      BY <2>3, WorkTypes DEF WriteGrade, PuzzleIInv, CardsAreGood
    <3>2. next \in Card /\ (Graduates(next) => card.reps >= 2)
      BY <3>1, ScheduleIsGood
    <3>3. next # None
      BY <3>2, PuzzleAssumption DEF Card
    <3>4. Graduates(next)
      BY <2>3, <3>3 DEF WriteGrade
    <3> QED
      BY <3>2, <3>4
  <2> QED
    BY <2>1, <2>2, <2>3
<1> QED
  BY <1>1, PuzzleInvariance, PTL DEF PuzzleSpec, LearnedInThree
===============================================================================
