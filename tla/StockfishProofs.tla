---------------------------- MODULE StockfishProofs ----------------------------
(* Proofs about the Stockfish client, for any searches, workers and faults:  *)
(* no search runs with another's options, and a search is settled by a       *)
(* foreign bestmove only after somebody gave up on the search it belongs to. *)
EXTENDS StockfishClient, TLAPS

Unsettled == {"new", "queued", "waiting", "searching"}

ClientTypes ==
  /\ phase \in [Jobs -> Unsettled \cup Settled]
  /\ queue \in Seq(Jobs)
  /\ promise \in Workers \cup {None, Rejected}
  /\ created \in 0..MaxWorkers
  /\ on \in [Jobs -> Workers \cup {None}]
  /\ endedBy \in [Jobs -> Jobs \cup {None}]

WorkerTypes ==
  /\ ready \subseteq Workers /\ alive \subseteq Workers
  /\ inbox \in [Workers -> Seq(Jobs)]
  /\ engine \in [Workers -> [options : Options, search : Search \cup {None}]]
  /\ outbox \in [Workers -> Seq(Message)]

\* The searches whose bestmove a worker still owes the page: posted to it,
\* searched by it, or answered and not yet heard.
Best(k) == [bestmove |-> k]

Posted(w, k) == \E i \in 1..Len(inbox[w]) : inbox[w][i] = k

Runs(w, k) == engine[w].search # None /\ engine[w].search.of = k

Sent(w, k) == \E i \in 1..Len(outbox[w]) : outbox[w][i] = Best(k)

Owes(w, k) == Posted(w, k) \/ Runs(w, k) \/ Sent(w, k)

\* It owes each of them once.
Once(w) ==
  /\ \A i, l \in 1..Len(inbox[w]) : inbox[w][i] = inbox[w][l] => i = l
  /\ \A k \in Jobs : \A i, l \in 1..Len(outbox[w]) :
       outbox[w][i] = Best(k) /\ outbox[w][l] = Best(k) => i = l
  /\ \A k \in Jobs : /\ Posted(w, k) => ~Runs(w, k) /\ ~Sent(w, k)
                     /\ Runs(w, k) => ~Sent(w, k)

\* A job that no longer waits for the bestmove it is owed.
Excused(k) == GivenUp(k) \/ endedBy[k] \notin {None, k}

\* What is owed was posted to this worker, has settled nobody yet, and is
\* waited for or excused.
Debt(w, k) ==
  /\ on[k] = w
  /\ phase[k] \in {"searching"} \cup Settled
  /\ phase[k] # "searching" => Excused(k)
  /\ \A i \in Jobs : endedBy[i] # k

\* Only the head of the chain waits or searches, and only what is settled was
\* ended by a bestmove.
InLine(j) ==
  /\ phase[j] \in {"waiting", "searching"} => queue # << >> /\ Head(queue) = j
  /\ phase[j] \notin Settled => endedBy[j] = None

WorkersSound == WorkerTypes /\ (\A w \in Workers : Once(w)) /\ SearchesAsAsked

ClientSound ==
  /\ ClientTypes
  /\ \A j \in Jobs : InLine(j)
  /\ \A w \in Workers, k \in Jobs : Owes(w, k) => Debt(w, k)
  /\ ForeignOnlyAfterGivingUp

IInv == WorkersSound /\ ClientSound

-----------------------------------------------------------------------------
(* Messages and queues.                                                    *)

LEMMA MessageKinds ==
  ASSUME NEW m \in Message
  PROVE  /\ "info" \in DOMAIN m => \A k : m # Best(k)
         /\ "info" \notin DOMAIN m => m.bestmove \in Jobs /\ m = Best(m.bestmove)
<1>1. CASE m \in [info : Line]
  <2>1. DOMAIN m = {"info"}
    BY <1>1
  <2>2. \A k : DOMAIN Best(k) = {"bestmove"}
    BY DEF Best
  <2> QED
    BY <2>1, <2>2
<1>2. CASE m \in [bestmove : Jobs]
  BY <1>2 DEF Best
<1> QED
  BY <1>1, <1>2 DEF Message

\* Taking the first of a queue leaves the others in their order.
LEMMA TailFacts ==
  ASSUME NEW S, NEW s \in Seq(S), s # << >>
  PROVE  /\ Head(s) \in S /\ Head(s) = s[1] /\ 1 \in 1..Len(s)
         /\ Tail(s) \in Seq(S) /\ Len(Tail(s)) = Len(s) - 1
         /\ \A i \in 1..Len(Tail(s)) : i + 1 \in 1..Len(s) /\ Tail(s)[i] = s[i + 1]
OBVIOUS

LEMMA AppendFacts ==
  ASSUME NEW S, NEW s \in Seq(S), NEW x \in S
  PROVE  /\ Append(s, x) \in Seq(S) /\ Len(Append(s, x)) = Len(s) + 1
         /\ \A i \in 1..Len(s) : i \in 1..Len(Append(s, x)) /\ Append(s, x)[i] = s[i]
         /\ Append(s, x)[Len(s) + 1] = x
         /\ \A i \in 1..Len(Append(s, x)) : i \in 1..Len(s) \/ i = Len(s) + 1
OBVIOUS

-----------------------------------------------------------------------------
(* The workers.                                                            *)

\* Whatever happens at one worker leaves the others as they are.
LEMMA OneWorker ==
  ASSUME WorkersSound, NEW w \in Workers, WorkerTypes', Once(w)',
         \A v \in Workers \ {w} : /\ inbox'[v] = inbox[v]
                                  /\ engine'[v] = engine[v]
                                  /\ outbox'[v] = outbox[v],
         engine'[w].search # None =>
           /\ Plays(engine'[w].options) = Meant(Strength[engine'[w].search.of])
           /\ engine'[w].options.multiPv = MultiPv[engine'[w].search.of],
         \A k \in Jobs : Owes(w, k)' => Owes(w, k)
  PROVE  /\ WorkersSound'
         /\ \A v \in Workers, k \in Jobs : Owes(v, k)' => Owes(v, k)
<1>1. ASSUME NEW v \in Workers, NEW k \in Jobs
      PROVE  /\ Once(v)'
             /\ Owes(v, k)' => Owes(v, k)
  <2>1. CASE v = w
    BY <2>1
  <2>2. CASE v # w
    <3>1. inbox'[v] = inbox[v] /\ engine'[v] = engine[v] /\ outbox'[v] = outbox[v]
      BY <2>2
    <3>2. Once(v)
      BY DEF WorkersSound
    <3> QED
      BY <3>1, <3>2 DEF Once, Owes, Posted, Runs, Sent
  <2> QED
    BY <2>1, <2>2
<1>2. \A v \in Workers : Once(v)'
  <2> TAKE v \in Workers
  <2>1. CASE v = w
    BY <2>1
  <2>2. CASE v # w
    <3>1. inbox'[v] = inbox[v] /\ engine'[v] = engine[v] /\ outbox'[v] = outbox[v]
      BY <2>2
    <3>2. Once(v)
      BY DEF WorkersSound
    <3> QED
      BY <3>1, <3>2 DEF Once, Posted, Runs, Sent
  <2> QED
    BY <2>1, <2>2
<1>3. SearchesAsAsked'
  <2> SUFFICES ASSUME NEW v \in Workers, engine'[v].search # None
               PROVE  /\ Plays(engine'[v].options) = Meant(Strength[engine'[v].search.of])
                      /\ engine'[v].options.multiPv = MultiPv[engine'[v].search.of]
    BY DEF SearchesAsAsked
  <2>1. CASE v = w
    BY <2>1
  <2>2. CASE v # w
    BY <2>2 DEF WorkersSound, SearchesAsAsked
  <2> QED
    BY <2>1, <2>2
<1> QED
  BY <1>1, <1>2, <1>3 DEF WorkersSound

\* The options a search starts with are the ones its job asked for.
LEMMA StrengthApplied ==
  ASSUME NEW o \in Options, NEW s \in Settings
  PROVE  /\ ApplyStrength(o, s) \in Options
         /\ ApplyStrength(o, s).multiPv = o.multiPv
         /\ Plays(ApplyStrength(o, s)) = Meant(s)
<1>1. CASE s.kind = "elo"
  <2>1. s = [kind |-> "elo", level |-> s.level] /\ s.level \in Nat
    BY <1>1 DEF Settings
  <2>2. ApplyStrength(o, s) = [o EXCEPT !.limit = TRUE, !.elo = Clamped(s.level)]
    BY <1>1 DEF ApplyStrength
  <2>3. Clamped(s.level) \in Nat
    BY <2>1 DEF Clamped, UCI_ELO_MIN, UCI_ELO_MAX
  <2>4. Meant(s) = [kind |-> "elo", level |-> Clamped(s.level)]
    BY <1>1, <2>1 DEF Meant
  <2> QED
    BY <2>2, <2>3, <2>4 DEF Plays, Options
<1>2. CASE s.kind = "skill"
  <2>1. s = [kind |-> "skill", level |-> s.level] /\ s.level \in Nat
    BY <1>2 DEF Settings
  <2>2. ApplyStrength(o, s) = [o EXCEPT !.limit = FALSE, !.skill = s.level]
    BY <1>2 DEF ApplyStrength
  <2>3. Meant(s) = s
    BY <1>2 DEF Meant
  <2> QED
    BY <2>1, <2>2, <2>3 DEF Plays, Options
<1> QED
  BY <1>1, <1>2 DEF Settings

\* A search moves from the queue into the engine, with its own options.
LEMMA GoSound ==
  ASSUME WorkersSound, NEW w \in Workers, EngineGo(w)
  PROVE  /\ WorkersSound'
         /\ \A v \in Workers, k \in Jobs : Owes(v, k)' => Owes(v, k)
<1> DEFINE j == Head(inbox[w])
           o == [engine[w].options EXCEPT !.multiPv = MultiPv[j]]
           e == [options |-> ApplyStrength(o, Strength[j]), search |-> [of |-> j, told |-> 0]]
<1>1. /\ engine[w].search = None /\ inbox[w] # << >>
      /\ engine' = [engine EXCEPT ![w] = e]
      /\ inbox' = [inbox EXCEPT ![w] = Tail(@)]
      /\ UNCHANGED <<client, ready, alive, outbox>>
  BY DEF EngineGo
<1>2. WorkerTypes /\ Once(w)
  BY DEF WorkersSound
<1>3. /\ j \in Jobs /\ j = inbox[w][1] /\ 1 \in 1..Len(inbox[w])
      /\ Tail(inbox[w]) \in Seq(Jobs) /\ Len(Tail(inbox[w])) = Len(inbox[w]) - 1
      /\ Len(inbox[w]) \in Nat
      /\ \A i \in 1..Len(Tail(inbox[w])) : /\ i + 1 \in 1..Len(inbox[w])
                                           /\ Tail(inbox[w])[i] = inbox[w][i + 1]
  <2>1. inbox[w] \in Seq(Jobs)
    BY <1>2 DEF WorkerTypes
  <2> QED
    BY <1>1, <2>1, TailFacts
<1>4. o \in Options /\ o.multiPv = MultiPv[j] /\ Strength[j] \in Settings
  <2>1. MultiPv[j] \in 1..3 /\ Strength[j] \in Settings
    BY <1>3, JobsAssumption
  <2>2. engine[w].options \in Options
    BY <1>2 DEF WorkerTypes
  <2> QED
    BY <2>1, <2>2 DEF Options
<1> HIDE DEF o
<1>5. /\ e \in [options : Options, search : Search \cup {None}]
      /\ e.options.multiPv = MultiPv[j] /\ Plays(e.options) = Meant(Strength[j]) /\ e.search.of = j
  BY <1>3, <1>4, StrengthApplied DEF Search
<1> HIDE DEF e, j
<1>6. engine'[w] = e /\ inbox'[w] = Tail(inbox[w]) /\ outbox'[w] = outbox[w]
  BY <1>1, <1>2 DEF WorkerTypes
<1>7. WorkerTypes'
  BY <1>1, <1>2, <1>3, <1>5 DEF WorkerTypes
<1>8. \A k \in Jobs : Posted(w, k)' => Posted(w, k) /\ k # j
  <2> SUFFICES ASSUME NEW k \in Jobs, NEW i \in 1..Len(inbox'[w]), inbox'[w][i] = k
               PROVE  Posted(w, k) /\ k # j
    BY DEF Posted
  <2>1. i + 1 \in 1..Len(inbox[w]) /\ inbox[w][i + 1] = k /\ i \in Nat /\ i + 1 # 1
    BY <1>3, <1>6
  <2>2. k # j
    BY <1>2, <1>3, <2>1 DEF Once
  <2> QED
    BY <2>1, <2>2 DEF Posted
<1>9. Posted(w, j) /\ (\A k \in Jobs : Runs(w, k)' => k = j)
  BY <1>3, <1>5, <1>6 DEF Posted, Runs
<1>10. \A k \in Jobs : Sent(w, k)' <=> Sent(w, k)
  BY <1>6 DEF Sent
<1>11. \A i, l \in 1..Len(inbox'[w]) : inbox'[w][i] = inbox'[w][l] => i = l
  <2> SUFFICES ASSUME NEW i \in 1..Len(inbox'[w]), NEW l \in 1..Len(inbox'[w]),
                      inbox'[w][i] = inbox'[w][l]
               PROVE  i = l
    OBVIOUS
  <2>1. /\ i + 1 \in 1..Len(inbox[w]) /\ l + 1 \in 1..Len(inbox[w])
        /\ inbox[w][i + 1] = inbox[w][l + 1]
    BY <1>3, <1>6
  <2>2. i + 1 = l + 1
    BY <1>2, <2>1 DEF Once
  <2>3. i \in Int /\ l \in Int
    BY <1>3, <1>6
  <2> QED
    BY <2>2, <2>3
<1>12. Once(w)'
  BY <1>2, <1>3, <1>6, <1>8, <1>9, <1>10, <1>11 DEF Once
<1>13. \A k \in Jobs : Owes(w, k)' => Owes(w, k)
  BY <1>8, <1>9, <1>10 DEF Owes
<1>14. \A v \in Workers \ {w} : /\ inbox'[v] = inbox[v]
                                /\ engine'[v] = engine[v]
                                /\ outbox'[v] = outbox[v]
  BY <1>1, <1>2 DEF WorkerTypes
<1> QED
  BY <1>5, <1>6, <1>7, <1>12, <1>13, <1>14, OneWorker

\* An info line adds to what is on its way, and to nothing that is owed.
LEMMA InfoSound ==
  ASSUME WorkersSound, NEW w \in Workers, EngineInfo(w)
  PROVE  /\ WorkersSound'
         /\ \A v \in Workers, k \in Jobs : Owes(v, k)' => Owes(v, k)
<1> DEFINE s == engine[w].search
           e == [engine[w] EXCEPT !.search.told = @ + 1]
           m == [info |-> [of |-> s.of, k |-> s.told + 1]]
<1>1. /\ s # None /\ s.told < engine[w].options.multiPv
      /\ engine' = [engine EXCEPT ![w] = e]
      /\ outbox' = [outbox EXCEPT ![w] = Append(@, m)]
      /\ UNCHANGED <<client, ready, alive, inbox>>
  BY DEF EngineInfo
<1>2. WorkerTypes /\ Once(w) /\ SearchesAsAsked
  BY DEF WorkersSound
<1>3. /\ engine[w] \in [options : Options, search : Search \cup {None}]
      /\ s \in Search /\ engine[w].options \in Options
  BY <1>1, <1>2 DEF WorkerTypes
<1>4. s.of \in Jobs /\ s.told + 1 \in 1..3
  BY <1>1, <1>3 DEF Search, Options
<1>5. /\ e \in [options : Options, search : Search]
      /\ e.options = engine[w].options /\ e.search.of = s.of
  BY <1>3, <1>4 DEF Search
<1>6. m \in Message /\ "info" \in DOMAIN m
  BY <1>4 DEF Message, Line
<1>7. \A k : m # Best(k)
  BY <1>6, MessageKinds
<1> HIDE DEF m, e, s
<1>8. engine'[w] = e /\ outbox'[w] = Append(outbox[w], m) /\ inbox'[w] = inbox[w]
  BY <1>1, <1>2 DEF WorkerTypes
<1>9. /\ Append(outbox[w], m) \in Seq(Message)
      /\ \A i \in 1..Len(Append(outbox[w], m)) :
           \/ i \in 1..Len(outbox[w]) /\ Append(outbox[w], m)[i] = outbox[w][i]
           \/ Append(outbox[w], m)[i] = m
  <2>1. outbox[w] \in Seq(Message)
    BY <1>2 DEF WorkerTypes
  <2> QED
    BY <1>6, <2>1, AppendFacts
<1>10. WorkerTypes'
  BY <1>1, <1>2, <1>5, <1>9 DEF WorkerTypes
<1>11. /\ \A k \in Jobs : Posted(w, k)' <=> Posted(w, k)
       /\ \A k \in Jobs : Runs(w, k)' => Runs(w, k)
  BY <1>1, <1>5, <1>8 DEF Posted, Runs, s
<1>12. \A k \in Jobs : Sent(w, k)' => Sent(w, k)
  BY <1>7, <1>8, <1>9 DEF Sent
<1>13. Once(w)'
  <2>1. \A i, l \in 1..Len(inbox'[w]) : inbox'[w][i] = inbox'[w][l] => i = l
    BY <1>2, <1>8 DEF Once
  <2>2. \A k \in Jobs : \A i, l \in 1..Len(outbox'[w]) :
          outbox'[w][i] = Best(k) /\ outbox'[w][l] = Best(k) => i = l
    BY <1>2, <1>7, <1>8, <1>9 DEF Once
  <2>3. \A k \in Jobs : /\ Posted(w, k)' => ~Runs(w, k)' /\ ~Sent(w, k)'
                        /\ Runs(w, k)' => ~Sent(w, k)'
    BY <1>2, <1>11, <1>12 DEF Once
  <2> QED
    BY <2>1, <2>2, <2>3 DEF Once
<1>14. \A k \in Jobs : Owes(w, k)' => Owes(w, k)
  BY <1>11, <1>12 DEF Owes
<1>15. /\ Plays(e.options) = Meant(Strength[e.search.of])
       /\ e.options.multiPv = MultiPv[e.search.of]
  BY <1>1, <1>2, <1>5 DEF SearchesAsAsked, s
<1>16. \A v \in Workers \ {w} : /\ inbox'[v] = inbox[v]
                                /\ engine'[v] = engine[v]
                                /\ outbox'[v] = outbox[v]
  BY <1>1, <1>2 DEF WorkerTypes
<1> QED
  BY <1>8, <1>10, <1>13, <1>14, <1>15, <1>16, OneWorker

\* The search that ends becomes a bestmove on its way.
LEMMA BestmoveSound ==
  ASSUME WorkersSound, NEW w \in Workers, EngineBestmove(w)
  PROVE  /\ WorkersSound'
         /\ \A v \in Workers, k \in Jobs : Owes(v, k)' => Owes(v, k)
<1> DEFINE j == engine[w].search.of
           m == Best(j)
<1>1. /\ engine[w].search # None
      /\ engine' = [engine EXCEPT ![w].search = None]
      /\ outbox' = [outbox EXCEPT ![w] = Append(@, m)]
      /\ UNCHANGED <<client, ready, alive, inbox>>
  BY DEF EngineBestmove, Best
<1>2. WorkerTypes /\ Once(w)
  BY DEF WorkersSound
<1>3. engine[w] \in [options : Options, search : Search \cup {None}] /\ engine[w].search \in Search
  BY <1>1, <1>2 DEF WorkerTypes
<1>4. j \in Jobs /\ m \in Message /\ Runs(w, j)
  BY <1>1, <1>3 DEF Search, Message, Runs, Best
<1>5. \A k : m = Best(k) <=> k = j
  BY DEF m, Best
<1> HIDE DEF m, j
<1>6. engine'[w].search = None /\ outbox'[w] = Append(outbox[w], m) /\ inbox'[w] = inbox[w]
  BY <1>1, <1>2, <1>3 DEF WorkerTypes
<1>7. outbox[w] \in Seq(Message)
  BY <1>2 DEF WorkerTypes
<1>8. /\ Append(outbox[w], m) \in Seq(Message)
      /\ \A i \in 1..Len(Append(outbox[w], m)) :
           \/ i \in 1..Len(outbox[w]) /\ Append(outbox[w], m)[i] = outbox[w][i]
           \/ i = Len(outbox[w]) + 1 /\ Append(outbox[w], m)[i] = m
  BY <1>4, <1>7, AppendFacts
<1>9. WorkerTypes'
  <2>1. [engine[w] EXCEPT !.search = None] \in [options : Options, search : Search \cup {None}]
    BY <1>3
  <2> QED
    BY <1>1, <1>2, <1>8, <2>1 DEF WorkerTypes
<1>10. /\ \A k \in Jobs : Posted(w, k)' <=> Posted(w, k)
       /\ \A k \in Jobs : ~Runs(w, k)'
  BY <1>6 DEF Posted, Runs
<1>11. \A k \in Jobs : Sent(w, k)' => Sent(w, k) \/ k = j
  BY <1>5, <1>6, <1>8 DEF Sent
<1>12. \A i \in 1..Len(outbox[w]) : outbox[w][i] # Best(j)
  BY <1>2, <1>4 DEF Once, Sent
<1>13. Once(w)'
  <2>1. \A i, l \in 1..Len(inbox'[w]) : inbox'[w][i] = inbox'[w][l] => i = l
    BY <1>2, <1>6 DEF Once
  <2>2. \A k \in Jobs : \A i, l \in 1..Len(outbox'[w]) :
          outbox'[w][i] = Best(k) /\ outbox'[w][l] = Best(k) => i = l
    <3> SUFFICES ASSUME NEW k \in Jobs, NEW i \in 1..Len(outbox'[w]), NEW l \in 1..Len(outbox'[w]),
                        outbox'[w][i] = Best(k), outbox'[w][l] = Best(k)
                 PROVE  i = l
      OBVIOUS
    <3>1. CASE k = j
      BY <1>6, <1>8, <1>12, <3>1
    <3>2. CASE k # j
      <4>1. m # Best(k)
        BY <1>5, <3>2
      <4>2. /\ i \in 1..Len(outbox[w]) /\ outbox[w][i] = Best(k)
            /\ l \in 1..Len(outbox[w]) /\ outbox[w][l] = Best(k)
        BY <1>6, <1>8, <4>1
      <4> QED
        BY <1>2, <4>2 DEF Once
    <3> QED
      BY <3>1, <3>2
  <2>3. \A k \in Jobs : /\ Posted(w, k)' => ~Runs(w, k)' /\ ~Sent(w, k)'
                        /\ Runs(w, k)' => ~Sent(w, k)'
    BY <1>2, <1>4, <1>10, <1>11 DEF Once
  <2> QED
    BY <2>1, <2>2, <2>3 DEF Once
<1>14. \A k \in Jobs : Owes(w, k)' => Owes(w, k)
  BY <1>4, <1>10, <1>11 DEF Owes
<1>15. \A v \in Workers \ {w} : /\ inbox'[v] = inbox[v]
                                /\ engine'[v] = engine[v]
                                /\ outbox'[v] = outbox[v]
  BY <1>1, <1>2 DEF WorkerTypes
<1> QED
  BY <1>6, <1>9, <1>13, <1>14, <1>15, OneWorker

\* A message that arrives is owed no more, whoever hears it.
LEMMA ArrivalSound ==
  ASSUME WorkersSound, NEW w \in Workers, outbox[w] # << >>,
         outbox' = [outbox EXCEPT ![w] = Tail(@)],
         UNCHANGED <<ready, alive, inbox, engine>>
  PROVE  /\ WorkersSound'
         /\ \A v \in Workers, k \in Jobs : Owes(v, k)' => Owes(v, k)
         /\ Head(outbox[w]) \in Message
         /\ \A k \in Jobs : Head(outbox[w]) = Best(k) => Owes(w, k) /\ ~Owes(w, k)'
<1> DEFINE m == Head(outbox[w])
<1>1. WorkerTypes /\ Once(w) /\ SearchesAsAsked
  BY DEF WorkersSound
<1>2. /\ m \in Message /\ m = outbox[w][1] /\ 1 \in 1..Len(outbox[w])
      /\ Tail(outbox[w]) \in Seq(Message) /\ Len(Tail(outbox[w])) = Len(outbox[w]) - 1
      /\ Len(outbox[w]) \in Nat
      /\ \A i \in 1..Len(Tail(outbox[w])) : /\ i + 1 \in 1..Len(outbox[w])
                                            /\ Tail(outbox[w])[i] = outbox[w][i + 1]
  <2>1. outbox[w] \in Seq(Message)
    BY <1>1 DEF WorkerTypes
  <2> QED
    BY <2>1, TailFacts
<1> HIDE DEF m
<1>3. outbox'[w] = Tail(outbox[w]) /\ inbox'[w] = inbox[w] /\ engine'[w] = engine[w]
  BY <1>1 DEF WorkerTypes
<1>4. WorkerTypes'
  BY <1>1, <1>2 DEF WorkerTypes
<1>5. \A k \in Jobs : /\ Posted(w, k)' <=> Posted(w, k)
                      /\ Runs(w, k)' <=> Runs(w, k)
  BY <1>3 DEF Posted, Runs
<1>6. \A k \in Jobs : Sent(w, k)' => Sent(w, k) /\ m # Best(k)
  <2> SUFFICES ASSUME NEW k \in Jobs, NEW i \in 1..Len(outbox'[w]), outbox'[w][i] = Best(k)
               PROVE  Sent(w, k) /\ m # Best(k)
    BY DEF Sent
  <2>0. i \in 1..Len(Tail(outbox[w])) /\ Tail(outbox[w])[i] = Best(k)
    BY <1>3
  <2>1. i + 1 \in 1..Len(outbox[w]) /\ outbox[w][i + 1] = Best(k) /\ i \in Nat /\ i + 1 # 1
    BY <1>2, <2>0
  <2>2. m # Best(k)
    BY <1>1, <1>2, <2>1 DEF Once
  <2> QED
    BY <2>1, <2>2 DEF Sent
<1>7. \A k \in Jobs : \A i, l \in 1..Len(outbox'[w]) :
        outbox'[w][i] = Best(k) /\ outbox'[w][l] = Best(k) => i = l
  <2> SUFFICES ASSUME NEW k \in Jobs, NEW i \in 1..Len(outbox'[w]), NEW l \in 1..Len(outbox'[w]),
                      outbox'[w][i] = Best(k), outbox'[w][l] = Best(k)
               PROVE  i = l
    OBVIOUS
  <2>1. /\ i + 1 \in 1..Len(outbox[w]) /\ l + 1 \in 1..Len(outbox[w])
        /\ outbox[w][i + 1] = Best(k) /\ outbox[w][l + 1] = Best(k)
        /\ i \in Int /\ l \in Int
    <3>1. /\ i \in 1..Len(Tail(outbox[w])) /\ Tail(outbox[w])[i] = Best(k)
          /\ l \in 1..Len(Tail(outbox[w])) /\ Tail(outbox[w])[l] = Best(k)
      BY <1>3
    <3> QED
      BY <1>2, <3>1
  <2>2. i + 1 = l + 1
    BY <1>1, <2>1 DEF Once
  <2> QED
    BY <2>1, <2>2
<1>8. Once(w)'
  <2>1. \A i, l \in 1..Len(inbox'[w]) : inbox'[w][i] = inbox'[w][l] => i = l
    BY <1>1, <1>3 DEF Once
  <2>2. \A k \in Jobs : /\ Posted(w, k)' => ~Runs(w, k)' /\ ~Sent(w, k)'
                        /\ Runs(w, k)' => ~Sent(w, k)'
    BY <1>1, <1>5, <1>6 DEF Once
  <2> QED
    BY <1>7, <2>1, <2>2 DEF Once
<1>9. \A k \in Jobs : Owes(w, k)' => Owes(w, k)
  BY <1>5, <1>6 DEF Owes
<1>10. \A k \in Jobs : m = Best(k) => Owes(w, k) /\ ~Owes(w, k)'
  <2> SUFFICES ASSUME NEW k \in Jobs, m = Best(k) PROVE Owes(w, k) /\ ~Owes(w, k)'
    OBVIOUS
  <2>1. Sent(w, k)
    BY <1>2 DEF Sent
  <2> QED
    BY <1>1, <1>5, <1>6, <2>1 DEF Once, Owes
<1>11. /\ engine'[w].search # None =>
           /\ Plays(engine'[w].options) = Meant(Strength[engine'[w].search.of])
           /\ engine'[w].options.multiPv = MultiPv[engine'[w].search.of]
       /\ \A v \in Workers \ {w} : /\ inbox'[v] = inbox[v]
                                   /\ engine'[v] = engine[v]
                                   /\ outbox'[v] = outbox[v]
  BY <1>1 DEF WorkerTypes, SearchesAsAsked
<1>12. WorkersSound' /\ \A v \in Workers, k \in Jobs : Owes(v, k)' => Owes(v, k)
  BY <1>4, <1>8, <1>9, <1>11, OneWorker
<1> QED
  BY <1>2, <1>10, <1>12 DEF m

-----------------------------------------------------------------------------
(* The client.                                                             *)

\* Nobody was ended by a search that is not settled yet, unless it is its own.
LEMMA NotYetHeard ==
  ASSUME ClientSound, NEW j \in Jobs, phase[j] \notin Settled
  PROVE  /\ endedBy[j] = None /\ \A i \in Jobs : endedBy[i] # j
         /\ j # None
<1>1. endedBy[j] = None /\ j # None
  BY JobsAssumption DEF ClientSound, InLine
<1>2. ~GivenUp(j)
  BY DEF GivenUp, Settled
<1> QED
  BY <1>1, <1>2 DEF ClientSound, ForeignOnlyAfterGivingUp

\* What changes neither a phase nor who was ended by what, nor adds a debt.
LEMMA SameClient ==
  ASSUME ClientSound, ClientTypes', UNCHANGED <<phase, queue, on, endedBy>>,
         \A v \in Workers, k \in Jobs : Owes(v, k)' => Owes(v, k)
  PROVE  ClientSound'
<1>1. \A j \in Jobs : InLine(j)'
  BY DEF ClientSound, InLine
<1>2. \A w \in Workers, k \in Jobs : Owes(w, k)' => Debt(w, k)'
  BY DEF ClientSound, Debt, Excused, GivenUp
<1>3. ForeignOnlyAfterGivingUp'
  BY DEF ClientSound, ForeignOnlyAfterGivingUp, GivenUp
<1> QED
  BY <1>1, <1>2, <1>3 DEF ClientSound

\* A job moves on, and no other: what is settled stays so.
LEMMA JobMoves ==
  ASSUME ClientSound, NEW j \in Jobs, phase[j] \notin Settled,
         NEW to \in Unsettled \cup Settled, phase' = [phase EXCEPT ![j] = to],
         ClientTypes', UNCHANGED endedBy,
         \A i \in Jobs \ {j} : on'[i] = on[i],
         phase[j] = "searching" => on'[j] = on[j] /\ GivenUp(j)',
         \A i \in Jobs : to \in Unsettled => InLine(i)',
         to \in Settled => queue # << >> /\ Head(queue) = j,
         \A v \in Workers, k \in Jobs : Owes(v, k)' /\ k # j => Owes(v, k),
         \A v \in Workers : Owes(v, j)' =>
           \/ Owes(v, j)
           \/ on'[j] = v /\ to = "searching"
  PROVE  ClientSound'
<1>1. phase'[j] = to /\ \A i \in Jobs \ {j} : phase'[i] = phase[i]
  BY DEF ClientSound, ClientTypes
<1>2. endedBy[j] = None /\ \A i \in Jobs : endedBy[i] # j
  BY NotYetHeard
<1>3. ASSUME NEW i \in Jobs PROVE InLine(i)'
  <2>1. CASE to \in Unsettled
    BY <2>1
  <2>2. CASE to \in Settled
    <3>1. CASE i = j
      BY <1>1, <2>2, <3>1 DEF InLine, Settled
    <3>2. CASE i # j
      BY <1>1, <2>2, <3>2 DEF ClientSound, InLine
    <3> QED
      BY <3>1, <3>2
  <2> QED
    BY <2>1, <2>2
<1>4. ASSUME NEW v \in Workers, NEW k \in Jobs, Owes(v, k)' PROVE Debt(v, k)'
  <2>1. CASE k # j
    <3>1. Debt(v, k)
      BY <1>4, <2>1 DEF ClientSound
    <3> QED
      BY <1>1, <2>1, <3>1 DEF Debt, Excused, GivenUp
  <2>2. CASE k = j /\ Owes(v, j)
    <3>1. Debt(v, j)
      BY <2>2 DEF ClientSound
    <3>2. phase[j] = "searching"
      BY <3>1 DEF Debt
    <3>3. phase'[j] \in Settled
      BY <3>2 DEF GivenUp, Settled
    <3> QED
      BY <2>2, <3>1, <3>2, <3>3 DEF Debt, Excused
  <2>3. CASE k = j /\ ~Owes(v, j)
    <3>1. on'[j] = v /\ to = "searching"
      BY <1>4, <2>3
    <3> QED
      BY <1>1, <1>2, <2>3, <3>1 DEF Debt
  <2> QED
    BY <2>1, <2>2, <2>3
<1>5. ForeignOnlyAfterGivingUp'
  <2> SUFFICES ASSUME NEW i \in Jobs, endedBy[i] \notin {None, i}
               PROVE  /\ on'[endedBy[i]] = on'[i]
                      /\ GivenUp(endedBy[i])' \/ endedBy[endedBy[i]] \notin {None, endedBy[i]}
                      /\ \A l \in Jobs \ {i} : endedBy[l] # endedBy[i]
    BY DEF ForeignOnlyAfterGivingUp
  <2>1. endedBy[i] \in Jobs \ {j} /\ i # j
    BY <1>2 DEF ClientSound, ClientTypes
  <2> QED
    BY <1>1, <2>1 DEF ClientSound, ForeignOnlyAfterGivingUp, GivenUp
<1> QED
  BY <1>3, <1>4, <1>5 DEF ClientSound

\* The queues and the engines are where they were.
LEMMA QuietWorkers ==
  ASSUME WorkersSound, UNCHANGED <<inbox, engine, outbox>>,
         ready' \subseteq Workers, alive' \subseteq Workers
  PROVE  WorkersSound' /\ \A v \in Workers, k \in Jobs : Owes(v, k)' <=> Owes(v, k)
<1>1. WorkerTypes' /\ SearchesAsAsked'
  BY DEF WorkersSound, WorkerTypes, SearchesAsAsked
<1>2. ASSUME NEW w \in Workers
      PROVE  Once(w)' /\ \A k \in Jobs : Owes(w, k)' <=> Owes(w, k)
  BY DEF WorkersSound, Once, Owes, Posted, Runs, Sent
<1> QED
  BY <1>1, <1>2 DEF WorkersSound

LEMMA CallSound ==
  ASSUME IInv, NEW j \in Jobs, Call(j)
  PROVE  IInv'
<1>1. /\ phase[j] = "new" /\ phase' = [phase EXCEPT ![j] = "queued"]
      /\ queue' = Append(queue, j)
      /\ UNCHANGED <<promise, created, on, endedBy, ready, alive, inbox, engine, outbox>>
  BY DEF Call, workers
<1>2. WorkersSound' /\ \A v \in Workers, k \in Jobs : Owes(v, k)' <=> Owes(v, k)
  BY <1>1, QuietWorkers DEF IInv, WorkersSound, WorkerTypes
<1>3. queue' \in Seq(Jobs) /\ (queue # << >> => queue' # << >> /\ Head(queue') = Head(queue))
  BY <1>1 DEF IInv, ClientSound, ClientTypes
<1>4. ClientTypes'
  BY <1>1, <1>3 DEF IInv, ClientSound, ClientTypes, Unsettled
<1>5. \A i \in Jobs : InLine(i)'
  <2>1. \A i \in Jobs \ {j} : phase'[i] = phase[i]
    BY <1>1 DEF IInv, ClientSound, ClientTypes
  <2>2. phase'[j] = "queued" /\ endedBy[j] = None
    BY <1>1 DEF IInv, ClientSound, ClientTypes, InLine, Settled
  <2> QED
    BY <1>1, <1>3, <2>1, <2>2 DEF IInv, ClientSound, InLine
<1>6. ClientSound /\ "queued" \in Unsettled /\ phase[j] \notin Settled /\ "queued" \notin Settled
  BY <1>1 DEF IInv, Unsettled, Settled
<1>7. ClientSound'
  BY <1>1, <1>2, <1>4, <1>5, <1>6, JobMoves
<1> QED
  BY <1>2, <1>7 DEF IInv

\* The head of the chain takes its worker.
LEMMA WaitSound ==
  ASSUME IInv, NEW j \in Jobs, Wait(j) \/ Create(j)
  PROVE  IInv'
<1>1. PICK w \in Workers :
        /\ queue # << >> /\ Head(queue) = j /\ phase[j] = "queued"
        /\ phase' = [phase EXCEPT ![j] = "waiting"] /\ on' = [on EXCEPT ![j] = w]
        /\ promise' = w /\ created' \in 0..MaxWorkers
        /\ alive' \subseteq Workers /\ ready' = ready
        /\ UNCHANGED <<queue, endedBy, inbox, engine, outbox>>
  <2>1. CASE Wait(j)
    BY <2>1 DEF Wait, AtHead, workers, IInv, ClientSound, ClientTypes, WorkersSound, WorkerTypes
  <2>2. CASE Create(j)
    <3>1. created' \in Workers /\ created' \in 0..MaxWorkers
      BY <2>2, JobsAssumption DEF Create, IInv, ClientSound, ClientTypes, Workers
    <3> QED
      BY <2>2, <3>1 DEF Create, AtHead, IInv, WorkersSound, WorkerTypes
  <2> QED
    BY <2>1, <2>2
<1>2. WorkersSound' /\ \A v \in Workers, k \in Jobs : Owes(v, k)' <=> Owes(v, k)
  BY <1>1, QuietWorkers DEF IInv, WorkersSound, WorkerTypes
<1>3. ClientTypes'
  BY <1>1 DEF IInv, ClientSound, ClientTypes, Unsettled
<1>4. \A i \in Jobs : InLine(i)'
  <2>1. \A i \in Jobs \ {j} : phase'[i] = phase[i]
    BY <1>1 DEF IInv, ClientSound, ClientTypes
  <2>2. phase'[j] = "waiting" /\ endedBy[j] = None
    BY <1>1 DEF IInv, ClientSound, ClientTypes, InLine, Settled
  <2> QED
    BY <1>1, <2>1, <2>2 DEF IInv, ClientSound, InLine
<1>5. /\ ClientSound /\ "waiting" \in Unsettled /\ phase[j] \notin Settled /\ "waiting" \notin Settled
      /\ phase[j] # "searching" /\ \A i \in Jobs \ {j} : on'[i] = on[i]
  BY <1>1 DEF IInv, ClientSound, ClientTypes, Unsettled, Settled
<1>6. ClientSound'
  BY <1>1, <1>2, <1>3, <1>4, <1>5, JobMoves
<1> QED
  BY <1>2, <1>6 DEF IInv

\* A job leaves the chain without a bestmove: one that searched was given up.
LEMMA SettleSound ==
  ASSUME IInv, NEW j \in Jobs, NEW outcome \in Settled, Settle(j, outcome),
         queue # << >>, Head(queue) = j, phase[j] \notin Settled,
         phase[j] = "searching" => outcome \in {"timedOut", "cancelled"},
         promise' \in Workers \cup {None, Rejected}, alive' \subseteq Workers,
         UNCHANGED <<created, on, endedBy, ready, inbox, engine, outbox>>
  PROVE  IInv'
<1>1. phase' = [phase EXCEPT ![j] = outcome] /\ queue' = Tail(queue)
  BY DEF Settle
<1>2. WorkersSound' /\ \A v \in Workers, k \in Jobs : Owes(v, k)' <=> Owes(v, k)
  BY QuietWorkers DEF IInv, WorkersSound, WorkerTypes
<1>3. queue' \in Seq(Jobs)
  BY <1>1 DEF IInv, ClientSound, ClientTypes
<1>4. ClientTypes'
  BY <1>1, <1>3 DEF IInv, ClientSound, ClientTypes
<1>5. phase[j] = "searching" => GivenUp(j)'
  BY <1>1 DEF IInv, ClientSound, ClientTypes, GivenUp
<1>6. ClientSound /\ outcome \in Unsettled \cup Settled /\ outcome \notin Unsettled
  BY DEF IInv, Unsettled, Settled
<1>7. ClientSound'
  BY <1>1, <1>2, <1>4, <1>5, <1>6, JobMoves
<1> QED
  BY <1>2, <1>7 DEF IInv

LEMMA LeaveSound ==
  ASSUME IInv, NEW j \in Jobs,
         ConstructorThrows(j) \/ FindRejected(j) \/ Timeout(j) \/ Cancel(j)
  PROVE  IInv'
<1>1. ready \subseteq Workers /\ alive \subseteq Workers /\ promise \in Workers \cup {None, Rejected}
  BY DEF IInv, WorkersSound, WorkerTypes, ClientSound, ClientTypes
<1>2. phase[j] = "searching" => queue # << >> /\ Head(queue) = j
  BY DEF IInv, ClientSound, InLine
<1>3. "failed" \in Settled /\ "timedOut" \in Settled /\ "cancelled" \in Settled
      /\ "queued" \notin Settled /\ "searching" \notin Settled
  BY DEF Settled
<1>4. CASE ConstructorThrows(j)
  BY <1>1, <1>3, <1>4, SettleSound DEF ConstructorThrows, AtHead, workers
<1>5. CASE FindRejected(j)
  BY <1>1, <1>3, <1>5, SettleSound DEF FindRejected, AtHead, workers
<1>6. CASE Timeout(j)
  BY <1>1, <1>2, <1>3, <1>6, SettleSound DEF Timeout, workers
<1>7. CASE Cancel(j)
  BY <1>1, <1>2, <1>3, <1>7, SettleSound DEF Cancel, workers
<1> QED
  BY <1>4, <1>5, <1>6, <1>7

\* The head of the chain posts its search, the only debt of its own.
LEMMA BeginSound ==
  ASSUME IInv, NEW j \in Jobs, Begin(j)
  PROVE  IInv'
<1> PICK w : w = on[j]
  OBVIOUS
<1>1. /\ queue # << >> /\ Head(queue) = j /\ phase[j] = "waiting" /\ w \in ready
      /\ phase' = [phase EXCEPT ![j] = "searching"]
      /\ inbox' = [inbox EXCEPT ![w] = Append(@, j)]
      /\ UNCHANGED <<queue, promise, created, on, endedBy, ready, alive, engine, outbox>>
  BY DEF Begin, AtHead
<1>2. w \in Workers /\ WorkerTypes /\ Once(w) /\ SearchesAsAsked
  BY <1>1 DEF IInv, WorkersSound, WorkerTypes
<1>3. \A v \in Workers : ~Owes(v, j)
  BY <1>1 DEF IInv, ClientSound, Debt, Settled
<1>4. /\ inbox'[w] = Append(inbox[w], j)
      /\ \A v \in Workers \ {w} : inbox'[v] = inbox[v]
  BY <1>1, <1>2 DEF WorkerTypes
<1>5. /\ Append(inbox[w], j) \in Seq(Jobs)
      /\ \A i \in 1..Len(Append(inbox[w], j)) :
           \/ i \in 1..Len(inbox[w]) /\ Append(inbox[w], j)[i] = inbox[w][i]
           \/ i = Len(inbox[w]) + 1 /\ Append(inbox[w], j)[i] = j
  <2>1. inbox[w] \in Seq(Jobs)
    BY <1>2 DEF WorkerTypes
  <2> QED
    BY <2>1, AppendFacts
<1>6. WorkerTypes'
  BY <1>1, <1>2, <1>5 DEF WorkerTypes
<1>7. \A k \in Jobs : Posted(w, k)' => Posted(w, k) \/ k = j
  BY <1>4, <1>5 DEF Posted
<1>8. \A v \in Workers, k \in Jobs : /\ Runs(v, k)' <=> Runs(v, k)
                                     /\ Sent(v, k)' <=> Sent(v, k)
                                     /\ v # w => (Posted(v, k)' <=> Posted(v, k))
  BY <1>1, <1>4 DEF Runs, Sent, Posted
<1>9. \A v \in Workers : Once(v)'
  <2> TAKE v \in Workers
  <2>1. CASE v # w
    <3>1. Once(v)
      BY DEF IInv, WorkersSound
    <3> QED
      BY <1>1, <1>4, <1>8, <2>1, <3>1 DEF Once
  <2>2. CASE v = w
    <3>1. \A i \in 1..Len(inbox[w]) : inbox[w][i] # j
      BY <1>2, <1>3 DEF Owes, Posted
    <3>2. \A i, l \in 1..Len(inbox'[w]) : inbox'[w][i] = inbox'[w][l] => i = l
      BY <1>2, <1>4, <1>5, <3>1 DEF Once
    <3>3. \A k \in Jobs : /\ Posted(w, k)' => ~Runs(w, k)' /\ ~Sent(w, k)'
                          /\ Runs(w, k)' => ~Sent(w, k)'
      BY <1>2, <1>3, <1>7, <1>8 DEF Once, Owes
    <3>4. \A k \in Jobs : \A i, l \in 1..Len(outbox'[w]) :
            outbox'[w][i] = Best(k) /\ outbox'[w][l] = Best(k) => i = l
      BY <1>1, <1>2 DEF Once
    <3> QED
      BY <2>2, <3>2, <3>3, <3>4 DEF Once
  <2> QED
    BY <2>1, <2>2
<1>10. WorkersSound'
  BY <1>1, <1>2, <1>6, <1>9 DEF WorkersSound, SearchesAsAsked
<1>11. /\ \A v \in Workers, k \in Jobs : Owes(v, k)' /\ k # j => Owes(v, k)
       /\ \A v \in Workers : Owes(v, j)' => on'[j] = v
  BY <1>1, <1>2, <1>3, <1>7, <1>8 DEF Owes
<1>12. /\ ClientSound /\ "searching" \in Unsettled /\ "searching" \notin Settled
       /\ phase[j] \notin Settled /\ phase[j] # "searching"
  BY <1>1 DEF IInv, Unsettled, Settled
<1>13. ClientTypes'
  BY <1>1, <1>12 DEF ClientSound, ClientTypes
<1>14. \A i \in Jobs : InLine(i)'
  <2>1. \A i \in Jobs \ {j} : phase'[i] = phase[i]
    BY <1>1 DEF IInv, ClientSound, ClientTypes
  <2>2. phase'[j] = "searching" /\ endedBy[j] = None
    BY <1>1, <1>12 DEF ClientSound, ClientTypes, InLine
  <2> QED
    BY <1>1, <2>1, <2>2 DEF IInv, ClientSound, InLine
<1>15. ClientSound'
  BY <1>1, <1>11, <1>12, <1>13, <1>14, JobMoves
<1> QED
  BY <1>10, <1>15 DEF IInv

\* The bestmove that arrives settles whoever listens, and settles nobody again.
\* If it is not the listener's own, its job is one that was given up on.
LEMMA BestmoveHeard ==
  ASSUME IInv, NEW j \in Jobs, NEW w \in Workers, NEW k \in Jobs, NEW outcome \in Settled,
         queue # << >>, Head(queue) = j, phase[j] = "searching", on[j] = w,
         Settle(j, outcome), endedBy' = [endedBy EXCEPT ![j] = k],
         UNCHANGED <<promise, created, on>>,
         Owes(w, k), ~Owes(w, k)',
         \A v \in Workers, l \in Jobs : Owes(v, l)' => Owes(v, l)
  PROVE  ClientSound'
<1>1. /\ ClientSound /\ ClientTypes
      /\ phase' = [phase EXCEPT ![j] = outcome] /\ queue' = Tail(queue)
  BY DEF IInv, ClientSound, Settle
<1>2. /\ phase'[j] = outcome /\ \A i \in Jobs \ {j} : phase'[i] = phase[i]
      /\ endedBy'[j] = k /\ \A i \in Jobs \ {j} : endedBy'[i] = endedBy[i]
  BY <1>1 DEF ClientTypes
<1>3. ClientTypes'
  <2>1. queue' \in Seq(Jobs)
    BY <1>1 DEF ClientTypes
  <2> QED
    BY <1>1, <2>1 DEF ClientTypes
<1>4. Debt(w, k) /\ k # None
  BY <1>1, JobsAssumption DEF ClientSound
<1>5. endedBy[j] = None /\ (\A i \in Jobs : endedBy[i] # j) /\ ~GivenUp(j) /\ phase[j] \notin Settled
  BY <1>1, NotYetHeard DEF GivenUp, Settled
<1>6. ASSUME NEW i \in Jobs PROVE InLine(i)'
  BY <1>1, <1>2 DEF ClientSound, InLine, Settled
<1>7. ASSUME NEW v \in Workers, NEW l \in Jobs, Owes(v, l)' PROVE Debt(v, l)'
  <2>1. Debt(v, l) /\ l # None
    BY <1>1, <1>7, JobsAssumption DEF ClientSound
  <2>2. l # k
    BY <1>4, <1>7, <2>1 DEF Debt
  <2>3. CASE l = j
    <3>1. endedBy'[j] \notin {None, j}
      BY <1>2, <1>4, <2>2, <2>3
    <3>2. \A i \in Jobs : endedBy'[i] # j
      BY <1>2, <1>5, <2>2, <2>3
    <3> QED
      BY <1>2, <2>1, <2>3, <3>1, <3>2 DEF Debt, Excused
  <2>4. CASE l # j
    BY <1>2, <2>1, <2>2, <2>4 DEF Debt, Excused, GivenUp
  <2> QED
    BY <2>3, <2>4
<1>8. ForeignOnlyAfterGivingUp'
  <2> SUFFICES ASSUME NEW i \in Jobs, NEW f, f = endedBy'[i], f \notin {None, i}
               PROVE  /\ on[f] = on[i]
                      /\ phase'[f] \in {"timedOut", "cancelled"} \/ endedBy'[f] \notin {None, f}
                      /\ \A l \in Jobs \ {i} : endedBy'[l] # f
    BY DEF ForeignOnlyAfterGivingUp, GivenUp
  <2>1. CASE i = j
    <3>1. f = k /\ k # j
      BY <1>2, <2>1
    <3>2. phase[k] # "searching"
      BY <1>1, <3>1 DEF ClientSound, InLine
    <3>3. Excused(k) /\ on[k] = w /\ \A l \in Jobs : endedBy[l] # k
      BY <1>4, <3>2 DEF Debt
    <3> QED
      BY <1>2, <2>1, <3>1, <3>3 DEF Excused, GivenUp
  <2>2. CASE i # j
    <3>1. f = endedBy[i] /\ f \in Jobs \ {j} /\ f # k
      BY <1>1, <1>2, <1>4, <1>5, <2>2 DEF ClientTypes, Debt
    <3>2. /\ on[f] = on[i]
          /\ GivenUp(f) \/ endedBy[f] \notin {None, f}
          /\ \A l \in Jobs \ {i} : endedBy[l] # f
      BY <1>1, <3>1 DEF ClientSound, ForeignOnlyAfterGivingUp
    <3> QED
      BY <1>2, <2>2, <3>1, <3>2 DEF GivenUp
  <2> QED
    BY <2>1, <2>2
<1> QED
  BY <1>3, <1>6, <1>7, <1>8 DEF ClientSound

LEMMA HearSound ==
  ASSUME IInv, NEW j \in Jobs, NEW w \in Workers, Hear(j, w)
  PROVE  IInv'
<1> DEFINE m == Head(outbox[w])
<1>1. /\ outbox[w] # << >> /\ phase[j] = "searching" /\ on[j] = w
      /\ outbox' = [outbox EXCEPT ![w] = Tail(@)]
      /\ UNCHANGED <<promise, created, on, ready, alive, inbox, engine>>
  BY DEF Hear, Listening
<1>2. /\ WorkersSound' /\ m \in Message
      /\ \A v \in Workers, k \in Jobs : Owes(v, k)' => Owes(v, k)
      /\ \A k \in Jobs : m = Best(k) => Owes(w, k) /\ ~Owes(w, k)'
  BY <1>1, ArrivalSound DEF IInv
<1>3. CASE "info" \in DOMAIN m
  <2>1. UNCHANGED <<phase, queue, endedBy>>
    BY <1>3 DEF Hear
  <2>2. ClientTypes' /\ ClientSound
    BY <1>1, <2>1 DEF IInv, ClientSound, ClientTypes
  <2>3. ClientSound'
    BY <1>1, <1>2, <2>1, <2>2, SameClient
  <2> QED
    BY <1>2, <2>3 DEF IInv
<1>4. CASE "info" \notin DOMAIN m
  <2>1. PICK k \in Jobs : k = m.bestmove /\ m = Best(k)
    BY <1>2, <1>4, MessageKinds
  <2>2. PICK outcome \in Settled : Settle(j, outcome) /\ endedBy' = [endedBy EXCEPT ![j] = k]
    BY <1>4, <2>1 DEF Hear, Settled
  <2>3. queue # << >> /\ Head(queue) = j
    BY <1>1 DEF IInv, ClientSound, InLine
  <2>4. Owes(w, k) /\ ~Owes(w, k)'
    BY <1>2, <2>1
  <2> HIDE DEF m
  <2>5. ClientSound'
    BY <1>1, <1>2, <2>1, <2>2, <2>3, <2>4, BestmoveHeard
  <2> QED
    BY <1>2, <2>5 DEF IInv
<1> QED
  BY <1>3, <1>4

\* What happens at the workers without a job being told.
LEMMA WorkerStepSound ==
  ASSUME IInv, NEW w \in Workers,
         EngineGo(w) \/ EngineInfo(w) \/ EngineBestmove(w) \/ Drop(w)
  PROVE  IInv'
<1>1. WorkersSound' /\ \A v \in Workers, k \in Jobs : Owes(v, k)' => Owes(v, k)
  <2>1. CASE Drop(w)
    BY <2>1, ArrivalSound DEF Drop, IInv
  <2> QED
    BY <2>1, GoSound, InfoSound, BestmoveSound DEF IInv
<1>2. UNCHANGED <<phase, queue, promise, created, on, endedBy>>
  BY DEF EngineGo, EngineInfo, EngineBestmove, Drop, client
<1>3. ClientSound /\ ClientTypes'
  BY <1>2 DEF IInv, ClientSound, ClientTypes
<1>4. ClientSound'
  BY <1>1, <1>2, <1>3, SameClient
<1> QED
  BY <1>1, <1>4 DEF IInv

LEMMA LifeSound ==
  ASSUME IInv, WarmUp \/ WarmUpThrows \/ (\E w \in Workers : Handshake(w)) \/ UNCHANGED vars
  PROVE  IInv'
<1>1. /\ UNCHANGED <<phase, queue, on, endedBy, inbox, engine, outbox>>
      /\ ready' \subseteq Workers /\ alive' \subseteq Workers
      /\ promise' \in Workers \cup {None, Rejected} /\ created' \in 0..MaxWorkers
  <2>1. /\ ready \subseteq Workers /\ alive \subseteq Workers
        /\ promise \in Workers \cup {None, Rejected} /\ created \in 0..MaxWorkers
    BY DEF IInv, WorkersSound, WorkerTypes, ClientSound, ClientTypes
  <2>2. CASE WarmUp
    <3>1. created' \in Workers /\ created' \in 0..MaxWorkers
      BY <2>1, <2>2, JobsAssumption DEF WarmUp, Workers
    <3> QED
      BY <2>1, <2>2, <3>1 DEF WarmUp
  <2>3. CASE \E w \in Workers : Handshake(w)
    BY <2>1, <2>3 DEF Handshake, client
  <2>4. CASE UNCHANGED vars
    BY <2>1, <2>4 DEF vars, client, workers
  <2>5. CASE WarmUpThrows
    BY <2>1, <2>5 DEF WarmUpThrows, workers
  <2> QED
    BY <2>2, <2>3, <2>4, <2>5
<1>2. WorkersSound' /\ \A v \in Workers, k \in Jobs : Owes(v, k)' <=> Owes(v, k)
  BY <1>1, QuietWorkers DEF IInv
<1>3. ClientSound /\ ClientTypes'
  BY <1>1 DEF IInv, ClientSound, ClientTypes
<1>4. ClientSound'
  BY <1>1, <1>2, <1>3, SameClient
<1> QED
  BY <1>2, <1>4 DEF IInv

\* An error may take the job that waits for the worker with it.
LEMMA ErrorSound ==
  ASSUME IInv, NEW w \in Workers, WorkerError(w)
  PROVE  IInv'
<1>1. /\ promise' = None /\ alive' \subseteq Workers
      /\ UNCHANGED <<created, on, endedBy, ready, inbox, engine, outbox>>
      /\ ready \subseteq Workers
  BY DEF WorkerError, IInv, WorkersSound, WorkerTypes
<1>2. CASE \E j \in Jobs : AtHead(j, "waiting") /\ on[j] = w /\ w \notin ready
  <2>1. PICK j \in Jobs : AtHead(j, "waiting")
    BY <1>2
  <2>2. queue # << >> /\ Head(queue) = j /\ phase[j] = "waiting" /\ Settle(j, "failed")
    BY <1>2, <2>1 DEF WorkerError, AtHead
  <2>3. "failed" \in Settled /\ phase[j] \notin Settled
    BY <2>2 DEF Settled
  <2> QED
    BY <1>1, <2>2, <2>3, SettleSound
<1>3. CASE ~ \E j \in Jobs : AtHead(j, "waiting") /\ on[j] = w /\ w \notin ready
  <2>1. UNCHANGED <<phase, queue>>
    BY <1>3 DEF WorkerError
  <2>2. WorkersSound' /\ \A v \in Workers, k \in Jobs : Owes(v, k)' <=> Owes(v, k)
    BY <1>1, QuietWorkers DEF IInv
  <2>3. ClientSound /\ ClientTypes'
    BY <1>1, <2>1 DEF IInv, ClientSound, ClientTypes
  <2>4. ClientSound'
    BY <1>1, <2>1, <2>2, <2>3, SameClient
  <2> QED
    BY <2>2, <2>4 DEF IInv
<1> QED
  BY <1>2, <1>3

LEMMA Starts == Init => IInv
<1> SUFFICES ASSUME Init PROVE IInv
  OBVIOUS
<1>1. WorkersSound
  BY JobsAssumption
     DEF Init, WorkersSound, WorkerTypes, Options, Once, Posted, Runs, Sent, SearchesAsAsked
<1>2. \A w \in Workers, k \in Jobs : ~Owes(w, k)
  BY DEF Init, Owes, Posted, Runs, Sent
<1>3. ClientTypes /\ ForeignOnlyAfterGivingUp /\ \A j \in Jobs : InLine(j)
  BY JobsAssumption DEF Init, ClientTypes, Unsettled, ForeignOnlyAfterGivingUp, InLine
<1> QED
  BY <1>1, <1>2, <1>3 DEF IInv, ClientSound

\* The inductive invariant: what every worker owes, to whom, and why nobody
\* waits for it any more.
THEOREM Invariance == Spec => []IInv
<1>1. ASSUME IInv, [Next]_vars PROVE IInv'
  <2>1. ASSUME NEW j \in Jobs, Call(j) \/ Reaction(j) \/ Timeout(j) \/ Cancel(j)
        PROVE  IInv'
    BY <1>1, <2>1, CallSound, WaitSound, LeaveSound, BeginSound DEF Reaction
  <2>2. ASSUME NEW j \in Jobs, NEW w \in Workers, Hear(j, w) PROVE IInv'
    BY <1>1, <2>2, HearSound
  <2>3. ASSUME NEW w \in Workers,
               Drop(w) \/ WorkerError(w) \/ EngineGo(w) \/ EngineInfo(w) \/ EngineBestmove(w)
        PROVE  IInv'
    BY <1>1, <2>3, WorkerStepSound, ErrorSound
  <2>4. CASE WarmUp \/ WarmUpThrows \/ (\E w \in Workers : Handshake(w)) \/ UNCHANGED vars
    BY <1>1, <2>4, LifeSound
  <2> QED
    BY <1>1, <2>1, <2>2, <2>3, <2>4 DEF Next
<1> QED
  BY <1>1, Starts, PTL DEF Spec

\* Whatever the jobs before it asked for, and whatever was cancelled, timed out
\* or died on the way, an engine searches with the options of its own job.
THEOREM SearchesKeepTheirOptions == Spec => []SearchesAsAsked
BY Invariance, PTL DEF IInv, WorkersSound

\* A job is settled by another's bestmove only if that one was given up on the
\* same worker, or was itself settled so; and no bestmove settles two jobs.
THEOREM ForeignIsGivenUp == Spec => []ForeignOnlyAfterGivingUp
BY Invariance, PTL DEF IInv, ClientSound
===============================================================================
