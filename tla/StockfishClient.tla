---------------------------- MODULE StockfishClient ----------------------------
(***************************************************************************)
(* The browser's Stockfish client (web lib/engine/stockfish-client.ts):    *)
(* every caller's search is a job, jobs are chained one behind the other,  *)
(* and the one at the head talks to a UCI engine in a Web Worker through   *)
(* two message queues.                                                     *)
(*                                                                         *)
(* A job is its own question: an `info' line or a `bestmove' is named by   *)
(* the job whose position the engine was searching.  Promise reactions     *)
(* (Start, Begin) run before the next event; events are worker messages,   *)
(* worker errors and timers.  Callers call and cancel whenever they like.  *)
(***************************************************************************)
EXTENDS Naturals, Sequences, FiniteSetsExt, SequencesExt

CONSTANTS
  Jobs,        \* the searches the callers ask for
  MultiPv,     \* job -> number of lines it asks for
  Strength,    \* job -> [kind, level]: an ELO target, in whole points, or a skill level
  Terminal,    \* jobs whose position has no legal move
  MaxWorkers,  \* bound: workers created in one session
  None,
  Rejected,    \* a workerPromise that is rejected for good
  Faults       \* what may go wrong, see AllFaults

AllFaults ==
  { "cancel",   \* a caller calls cancel()
    "slow",     \* a search outlasts its timer though its engine is alive
    "error",    \* a worker raises an `error' event
    "throw" }   \* the Worker constructor throws

Workers == 1..MaxWorkers

Settings == [kind : {"elo", "skill"}, level : Nat]

ASSUME JobsAssumption ==
  /\ IsFiniteSet(Jobs)
  /\ MultiPv \in [Jobs -> 1..3]
  /\ Strength \in [Jobs -> Settings]
  /\ Terminal \subseteq Jobs
  /\ MaxWorkers \in Nat
  /\ {None, Rejected} \cap (Jobs \cup Workers) = {} /\ None # Rejected
  /\ Faults \subseteq AllFaults

VARIABLES
  phase,    \* where each job stands
  queue,    \* the chain currentJob: unsettled jobs in the order of the calls
  promise,  \* workerPromise: None, a worker, or Rejected
  created,  \* how many workers were created
  ready,    \* the workers that said uciok
  alive,    \* the workers that still answer
  on,       \* job -> the worker it talks to
  lines,    \* job -> the `info' lines its listener holds, by multipv index
  answer,   \* job -> the lines it resolved with
  endedBy,  \* job -> the search whose bestmove settled it
  inbox,    \* worker -> jobs whose options, position and `go' were posted
  engine,   \* worker -> its UCI options and the search it runs
  outbox    \* worker -> messages on the way to the page

client  == <<phase, queue, promise, created, on, lines, answer, endedBy>>
workers == <<ready, alive, inbox, engine, outbox>>
vars    == <<client, workers>>

Settled == {"resolved", "failed", "timedOut", "cancelled"}

Line    == [of : Jobs, k : 1..3]
Search  == [of : Jobs, told : 0..3]
Options == [multiPv : 1..3, limit : BOOLEAN, elo : Nat, skill : Nat]
Message == [info : Line] \cup [bestmove : Jobs]

TypeOK ==
  /\ phase \in [Jobs -> {"new", "queued", "waiting", "searching"} \cup Settled]
  /\ queue \in Seq(Jobs) /\ IsInjective(queue)
  /\ \A j \in Jobs : j \in ToSet(queue) <=> phase[j] \notin {"new"} \cup Settled
  /\ promise \in Workers \cup {None, Rejected}
  /\ created \in 0..MaxWorkers
  /\ ready \subseteq 1..created
  /\ alive \subseteq 1..created
  /\ on \in [Jobs -> Workers \cup {None}]
  /\ \A j \in Jobs : \A k \in DOMAIN lines[j] : k \in 1..3 /\ lines[j][k] \in Jobs
  /\ answer \in [Jobs -> Seq(Line)]
  /\ endedBy \in [Jobs -> Jobs \cup {None}]
  /\ inbox \in [Workers -> Seq(Jobs)]
  /\ engine \in [Workers -> [options : Options, search : Search \cup {None}]]
  /\ outbox \in [Workers -> Seq(Message)]

Init ==
  /\ phase = [j \in Jobs |-> "new"]
  /\ queue = << >>
  /\ promise = None
  /\ created = 0
  /\ ready = {}
  /\ alive = {}
  /\ on = [j \in Jobs |-> None]
  /\ lines = [j \in Jobs |-> << >>]
  /\ answer = [j \in Jobs |-> << >>]
  /\ endedBy = [j \in Jobs |-> None]
  /\ inbox = [w \in Workers |-> << >>]
  /\ engine = [w \in Workers |->
       [options |-> [multiPv |-> 1, limit |-> FALSE, elo |-> 1320, skill |-> 20],
        search |-> None]]
  /\ outbox = [w \in Workers |-> << >>]

-----------------------------------------------------------------------------
(* The client.                                                             *)

\* Mutant: a rejected job breaks the chain.
SettleOnlySuccess(j, outcome) ==
  /\ phase' = [phase EXCEPT ![j] = outcome]
  /\ queue' = IF outcome = "resolved" THEN Tail(queue) ELSE queue

\* A job leaves the chain with an outcome; the next one may start.
Settle(j, outcome) ==
  /\ phase' = [phase EXCEPT ![j] = outcome]
  /\ queue' = Tail(queue)

\* runGo: chain the job behind currentJob.
Call(j) ==
  /\ phase[j] = "new"
  /\ phase' = [phase EXCEPT ![j] = "queued"]
  /\ queue' = Append(queue, j)
  /\ UNCHANGED <<promise, created, on, lines, answer, endedBy, workers>>

AtHead(j, where) == queue # << >> /\ Head(queue) = j /\ phase[j] = where

\* getWorker finds a promise: it waits for that worker.
Wait(j) ==
  /\ AtHead(j, "queued")
  /\ promise \in Workers
  /\ on' = [on EXCEPT ![j] = promise]
  /\ phase' = [phase EXCEPT ![j] = "waiting"]
  /\ UNCHANGED <<queue, promise, created, lines, answer, endedBy, workers>>

\* getWorker creates a worker and starts the handshake.
Create(j) ==
  /\ AtHead(j, "queued")
  /\ promise = None
  /\ created < MaxWorkers
  /\ created' = created + 1
  /\ alive' = alive \cup {created'}
  /\ promise' = created'
  /\ on' = [on EXCEPT ![j] = created']
  /\ phase' = [phase EXCEPT ![j] = "waiting"]
  /\ UNCHANGED <<queue, lines, answer, endedBy, ready, inbox, engine, outbox>>

\* warmUp: getWorker without a job.
WarmUp ==
  /\ promise = None
  /\ created < MaxWorkers
  /\ created' = created + 1
  /\ alive' = alive \cup {created'}
  /\ promise' = created'
  /\ UNCHANGED <<phase, queue, on, lines, answer, endedBy, ready, inbox, engine, outbox>>

\* The constructor throws: the executor clears workerPromise, and then the
\* assignment it runs inside stores the rejected promise.  The caller is warmUp,
\* or a job.
WarmUpThrows ==
  /\ "throw" \in Faults
  /\ promise = None
  /\ promise' = Rejected
  /\ UNCHANGED <<phase, queue, created, on, lines, answer, endedBy, workers>>

ConstructorThrows(j) ==
  /\ "throw" \in Faults
  /\ AtHead(j, "queued")
  /\ promise = None
  /\ promise' = Rejected
  /\ Settle(j, "failed")
  /\ UNCHANGED <<created, on, lines, answer, endedBy, workers>>

\* Every later call finds that rejected promise.
FindRejected(j) ==
  /\ AtHead(j, "queued")
  /\ promise = Rejected
  /\ Settle(j, "failed")
  /\ UNCHANGED <<promise, created, on, lines, answer, endedBy, workers>>

\* The worker is ready: listen, set the timer, post options, position and go.
Begin(j) ==
  /\ AtHead(j, "waiting")
  /\ on[j] \in ready
  /\ phase' = [phase EXCEPT ![j] = "searching"]
  /\ inbox' = [inbox EXCEPT ![on[j]] = Append(@, j)]
  /\ UNCHANGED <<queue, promise, created, on, lines, answer, endedBy,
                 ready, alive, engine, outbox>>

\* Promise reactions go first: no event is handled while one is due.
Idle ==
  queue # << >> =>
    LET j == Head(queue)
    IN  \/ phase[j] = "searching"
        \/ phase[j] = "waiting" /\ on[j] \notin ready

\* Mutant: every listener hears every worker.
HearsAnyWorker(j, w) == phase[j] = "searching"

\* The listener of a search sits on the worker it posted to.
Listening(j, w) == phase[j] = "searching" /\ on[j] = w

\* The lines sorted by index; without any, one is made from the bestmove.
Ordered(j, best) ==
  IF DOMAIN lines[j] = {} THEN << [of |-> best, k |-> 1] >>
  ELSE LET ks == SetToSortSeq(DOMAIN lines[j], <)
       IN  [i \in DOMAIN ks |-> [of |-> lines[j][ks[i]], k |-> ks[i]]]

\* A line replaces what the map holds at its index.
Collect(held, line) ==
  [k \in DOMAIN held \cup {line.k} |-> IF k = line.k THEN line.of ELSE held[k]]

\* onMessage of the listening job: collect an info line, or settle on the
\* bestmove, whichever search it answers.
Hear(j, w) ==
  /\ Idle
  /\ outbox[w] # << >>
  /\ Listening(j, w)
  /\ LET msg == Head(outbox[w]) IN
       IF "info" \in DOMAIN msg
       THEN /\ lines' = [lines EXCEPT ![j] = Collect(@, msg.info)]
            /\ UNCHANGED <<phase, queue, answer, endedBy>>
       ELSE /\ endedBy' = [endedBy EXCEPT ![j] = msg.bestmove]
            /\ IF msg.bestmove \in Terminal
               THEN /\ Settle(j, "failed")
                    /\ UNCHANGED answer
               ELSE /\ Settle(j, "resolved")
                    /\ answer' = [answer EXCEPT ![j] = Ordered(j, msg.bestmove)]
            /\ UNCHANGED lines
  /\ outbox' = [outbox EXCEPT ![w] = Tail(@)]
  /\ UNCHANGED <<promise, created, on, ready, alive, inbox, engine>>

\* A message nobody listens for is gone.
Drop(w) ==
  /\ Idle
  /\ outbox[w] # << >>
  /\ \A j \in Jobs : ~ Listening(j, w)
  /\ outbox' = [outbox EXCEPT ![w] = Tail(@)]
  /\ UNCHANGED <<client, ready, alive, inbox, engine>>

\* The timer outlasts the movetime of a live engine, unless the device is slow.
TimerExpires(j) == "slow" \in Faults \/ on[j] \notin alive

\* The timer rejects the job and posts nothing: the engine searches on.
Timeout(j) ==
  /\ Idle
  /\ phase[j] = "searching"
  /\ TimerExpires(j)
  /\ Settle(j, "timedOut")
  /\ UNCHANGED <<promise, created, on, lines, answer, endedBy, workers>>

\* cancel() rejects the active job; the `stop' it posts only hurries an
\* engine that may answer at any time anyway.  Without a listener it is no-op.
Cancel(j) ==
  /\ "cancel" \in Faults
  /\ phase[j] = "searching"
  /\ Settle(j, "cancelled")
  /\ UNCHANGED <<promise, created, on, lines, answer, endedBy, workers>>

\* uciok arrives.
Handshake(w) ==
  /\ Idle
  /\ w \in alive \ ready
  /\ ready' = ready \cup {w}
  /\ UNCHANGED <<client, alive, inbox, engine, outbox>>

\* An `error' event of any worker clears workerPromise, and rejects the
\* promise of that worker if it is still pending.  The engine may be dead.
WorkerError(w) ==
  /\ Idle
  /\ "error" \in Faults
  /\ w \in alive
  /\ created < MaxWorkers       \* bound: there is a worker to replace it
  /\ promise' = None
  /\ alive' \in {alive, alive \ {w}}
  /\ IF \E j \in Jobs : AtHead(j, "waiting") /\ on[j] = w /\ w \notin ready
     THEN Settle(Head(queue), "failed")
     ELSE UNCHANGED <<phase, queue>>
  /\ UNCHANGED <<created, on, lines, answer, endedBy, ready, inbox, engine, outbox>>

-----------------------------------------------------------------------------
(* The engine: one search at a time, one bestmove per `go'.                *)

UCI_ELO_MIN == 1320
UCI_ELO_MAX == 3190

\* The nearest ELO level the engine has.
Clamped(level) ==
  IF level < UCI_ELO_MIN THEN UCI_ELO_MIN
  ELSE IF level > UCI_ELO_MAX THEN UCI_ELO_MAX
  ELSE level

\* Mutant: a skill level leaves the ELO limit on.
ApplySkillOnly(o, s) ==
  IF s.kind = "elo" THEN [o EXCEPT !.limit = TRUE, !.elo = Clamped(s.level)]
  ELSE [o EXCEPT !.skill = s.level]

\* applyStrength: the options one job posts.
ApplyStrength(o, s) ==
  IF s.kind = "elo" THEN [o EXCEPT !.limit = TRUE, !.elo = Clamped(s.level)]
  ELSE [o EXCEPT !.limit = FALSE, !.skill = s.level]

\* The strength an engine with these options plays at.
Plays(o) ==
  IF o.limit THEN [kind |-> "elo", level |-> o.elo]
  ELSE [kind |-> "skill", level |-> o.skill]

EngineGo(w) ==
  /\ w \in alive
  /\ engine[w].search = None
  /\ inbox[w] # << >>
  /\ LET j == Head(inbox[w])
         o == [engine[w].options EXCEPT !.multiPv = MultiPv[j]]
     IN  engine' = [engine EXCEPT ![w] =
           [options |-> ApplyStrength(o, Strength[j]),
            search |-> [of |-> j, told |-> 0]]]
  /\ inbox' = [inbox EXCEPT ![w] = Tail(@)]
  /\ UNCHANGED <<client, ready, alive, outbox>>

EngineInfo(w) ==
  /\ w \in alive
  /\ engine[w].search # None
  /\ LET s == engine[w].search IN
       /\ s.of \notin Terminal
       /\ s.told < engine[w].options.multiPv
       /\ engine' = [engine EXCEPT ![w].search.told = @ + 1]
       /\ outbox' = [outbox EXCEPT ![w] =
            Append(@, [info |-> [of |-> s.of, k |-> s.told + 1]])]
  /\ UNCHANGED <<client, ready, alive, inbox>>

EngineBestmove(w) ==
  /\ w \in alive
  /\ engine[w].search # None
  /\ outbox' = [outbox EXCEPT ![w] = Append(@, [bestmove |-> engine[w].search.of])]
  /\ engine' = [engine EXCEPT ![w].search = None]
  /\ UNCHANGED <<client, ready, alive, inbox>>

Reaction(j) ==
  \/ Wait(j)
  \/ Create(j)
  \/ ConstructorThrows(j)
  \/ FindRejected(j)
  \/ Begin(j)

Next ==
  \/ WarmUp
  \/ WarmUpThrows
  \/ \E j \in Jobs : \/ Call(j)
                     \/ Reaction(j)
                     \/ Timeout(j)
                     \/ Cancel(j)
                     \/ \E w \in Workers : Hear(j, w)
  \/ \E w \in Workers : \/ Drop(w)
                        \/ Handshake(w)
                        \/ WorkerError(w)
                        \/ EngineGo(w)
                        \/ EngineInfo(w)
                        \/ EngineBestmove(w)

Spec == Init /\ [][Next]_vars

-----------------------------------------------------------------------------
\* The strength a job is played at: the one it asks for, if the engine has it.
Meant(s) == IF s.kind = "elo" THEN [s EXCEPT !.level = Clamped(@)] ELSE s

\* An engine always searches with the options of the job it searches for:
\* whatever the jobs before it asked for, no strength or line count leaks.
SearchesAsAsked ==
  \A w \in Workers :
    LET e == engine[w] IN
      e.search # None => /\ Plays(e.options) = Meant(Strength[e.search.of])
                         /\ e.options.multiPv = MultiPv[e.search.of]

GivenUp(j) == phase[j] \in {"timedOut", "cancelled"}

\* Every job is settled by its own search, with its own lines, best first.
AnswersOwnSearch ==
  \A j \in Jobs :
    /\ endedBy[j] \in {None, j}
    /\ answer[j] # << >> => /\ \A i \in DOMAIN answer[j] : answer[j][i].of = j
                            /\ answer[j][1].k = 1

\* A foreign bestmove is one that was given up on: it belongs to a job on the
\* same worker that timed out, was cancelled, or was itself settled by a
\* foreign bestmove; and no bestmove settles two jobs.
ForeignOnlyAfterGivingUp ==
  \A j \in Jobs : endedBy[j] \notin {None, j} =>
    LET k == endedBy[j]
    IN  /\ on[k] = on[j]
        /\ GivenUp(k) \/ endedBy[k] \notin {None, k}
        /\ \A i \in Jobs \ {j} : endedBy[i] # k

\* How many bestmoves a worker owes the page.
Owed(w) ==
  Len(inbox[w]) + Len(SelectSeq(outbox[w], LAMBDA m : "bestmove" \in DOMAIN m))
  + (IF engine[w].search # None THEN 1 ELSE 0)

\* Once a worker owes nothing but the answer to the search that listens, the
\* client is back in step: that search will be settled by its own bestmove.
BackInStep ==
  \A j \in Jobs : \A w \in Workers :
    Listening(j, w) /\ Owed(w) = 1 =>
      \/ inbox[w] = <<j>>
      \/ engine[w].search # None /\ engine[w].search.of = j
      \/ \E i \in DOMAIN outbox[w] : outbox[w][i] = [bestmove |-> j]

\* Timers fire, promise reactions run, and a handshake ends: it is the one wait
\* of this client that has no timer.
Fairness ==
  /\ \A j \in Jobs : WF_vars(Reaction(j)) /\ WF_vars(Timeout(j))
  /\ \A w \in Workers : WF_vars(Handshake(w) \/ WorkerError(w))

FairSpec == Spec /\ Fairness

\* Every search a caller asked for is settled, in a slow engine, a dead one,
\* or with no engine at all: no caller waits for ever.
EveryJobSettles == \A j \in Jobs : phase[j] # "new" ~> phase[j] \in Settled
===============================================================================
