---------------------------- MODULE PuzzleProgress ----------------------------
(***************************************************************************)
(* What one user's attempts at one puzzle leave behind: the puzzle rating  *)
(* (puzzle-rating.service.ts), the attempts (puzzle-serving.service.ts)    *)
(* and the review card (puzzle-review.service.ts, spaced-repetition.ts).   *)
(* A rating is abstract: the sequence of the outcomes that made it.  The   *)
(* card's arithmetic is concrete, ease factors in hundredths.              *)
(***************************************************************************)
EXTENDS Requests

CONSTANTS
  MaxAttempts,  \* bound: attempts recorded
  MaxLapses     \* bound: lapses of a card

ASSUME PuzzleAssumption ==
  MaxAttempts \in Nat /\ MaxLapses \in Nat /\ None \notin [intervalDays : Nat, ease : Nat,
                                                           reps : Nat, lapses : Nat]

VARIABLES
  solverRating,  \* the PuzzleRating row
  attempts,      \* the PuzzleAttempt rows
  plays,         \* Puzzle.plays
  card,          \* the PuzzleReview row, or None
  work,          \* the handler in each slot
  begun,         \* bound: attempts begun
  torn,          \* history: a row was replaced that had changed since it was read
  broken         \* history: an attempt stopped after it changed the rating

puzzleVars == <<solverRating, attempts, plays, card, work, begun, torn, broken>>

Outcomes == Seq(BOOLEAN)

Card == [intervalDays : Nat, ease : Nat, reps : Nat, lapses : Nat]

Attempt == [solved : BOOLEAN, before : Outcomes, after : Outcomes]

Grades == {"again", "good", "easy"}

WorkState ==
  {None}
  \cup [at : {"get"}, solved : BOOLEAN]
  \cup [at : {"apply"}, solved : BOOLEAN, before : Outcomes]
  \cup [at : {"upsert"}, solved : BOOLEAN, before : Outcomes, base : Outcomes]
  \cup [at : {"insert"}, attempt : Attempt]
  \cup [at : {"count"}, solved : BOOLEAN]
  \cup [at : {"enqueue"}]
  \cup [at : {"lapse"}, seen : Card \cup {None}]
  \cup [at : {"grade"}, seen : Card, grade : Grades]

ASSUME WorkAssumption ==
  None \notin [at : {"insert"}, attempt : Attempt] \cup [at : {"count"}, solved : BOOLEAN]

PuzzleTypeOK ==
  /\ solverRating \in Outcomes
  /\ attempts \in Seq(Attempt)
  /\ plays \in Nat /\ begun \in Nat
  /\ card \in Card \cup {None}
  /\ work \in [Req -> WorkState]
  /\ torn \in BOOLEAN /\ broken \in BOOLEAN

PuzzleInit ==
  /\ solverRating = << >>
  /\ attempts = << >>
  /\ plays = 0
  /\ card = None
  /\ work = [r \in Req |-> None]
  /\ begun = 0
  /\ torn = FALSE
  /\ broken = FALSE

Working(r, at) == work[r] # None /\ work[r].at = at

Work(r, h) == work' = [work EXCEPT ![r] = h]

-----------------------------------------------------------------------------
(* The scheduler: SM-2.                                                    *)

GraduationIntervalDays == 30

\* Math.round of a / b.
Rounded(a, b) == (2 * a + b) \div (2 * b)

AtLeast(low, n) == IF n >= low THEN n ELSE low

ClampEase(ease) == AtLeast(130, ease)

NewCard == [intervalDays |-> 0, ease |-> 250, reps |-> 0, lapses |-> 0]

ToCardState(row) == IF row = None THEN NewCard ELSE row

\* First, second and later successes.
Ladder(c, reps, ease) ==
  CASE reps = 1 -> 1
    [] reps = 2 -> 6
    [] OTHER    -> Rounded(c.intervalDays * ease, 100)

Lapse(c) == [intervalDays |-> 1, ease |-> ClampEase(c.ease - 20), reps |-> 0,
             lapses |-> c.lapses + 1]

Success(c, easy) ==
  LET reps == c.reps + 1
      ease == ClampEase(IF easy THEN c.ease + 15 ELSE c.ease)
      days == Ladder(c, reps, ease)
  IN  [intervalDays |-> AtLeast(1, IF easy THEN Rounded(days * 13, 10) ELSE days),
       ease |-> ease, reps |-> reps, lapses |-> c.lapses]

Schedule(c, grade) == IF grade = "again" THEN Lapse(c) ELSE Success(c, grade = "easy")

-----------------------------------------------------------------------------
(* recordAttempt.                                                          *)

ReceiveAttempt(r, solved) ==
  /\ work[r] = None
  /\ begun < MaxAttempts
  /\ begun' = begun + 1
  /\ Work(r, [at |-> "get", solved |-> solved])
  /\ UNCHANGED <<solverRating, attempts, plays, card, torn, broken>>

\* ratingService.get: the rating the attempt will report as before.
GetBefore(r) ==
  /\ Working(r, "get")
  /\ Work(r, [at |-> "apply", solved |-> work[r].solved, before |-> solverRating])
  /\ UNCHANGED <<solverRating, attempts, plays, card, begun, torn, broken>>

\* applyResult reads the rating again,
ReadRating(r) ==
  /\ Working(r, "apply")
  /\ Work(r, [at |-> "upsert", solved |-> work[r].solved, before |-> work[r].before,
              base |-> solverRating])
  /\ UNCHANGED <<solverRating, attempts, plays, card, begun, torn, broken>>

\* Mutant: a failure leaves the rating as it is.
OnlySolved(base, solved) == IF solved THEN Append(base, solved) ELSE base

UpdateRating(base, solved) == Append(base, solved)

\* and writes it without looking.
UpsertRating(r) ==
  /\ Working(r, "upsert")
  /\ LET h    == work[r]
         next == UpdateRating(h.base, h.solved)
     IN  /\ solverRating' = next
         /\ Work(r, [at |-> "insert",
                     attempt |-> [solved |-> h.solved, before |-> h.before, after |-> next]])
         /\ torn' = (torn \/ h.base # solverRating \/ h.before # h.base)
  /\ UNCHANGED <<attempts, plays, card, begun, broken>>

InsertAttempt(r) ==
  /\ Working(r, "insert")
  /\ attempts' = Append(attempts, work[r].attempt)
  /\ Work(r, [at |-> "count", solved |-> work[r].attempt.solved])
  /\ UNCHANGED <<solverRating, plays, card, begun, torn, broken>>

\* plays is incremented in place; a failed puzzle goes on to the queue.
CountPlay(r) ==
  /\ Working(r, "count")
  /\ plays' = plays + 1
  /\ Work(r, IF work[r].solved THEN None ELSE [at |-> "enqueue"])
  /\ UNCHANGED <<solverRating, attempts, card, begun, torn, broken>>

-----------------------------------------------------------------------------
(* The review queue.                                                       *)

\* enqueueOnFail.
ReadCard(r) ==
  /\ Working(r, "enqueue")
  /\ Work(r, [at |-> "lapse", seen |-> card])
  /\ UNCHANGED <<solverRating, attempts, plays, card, begun, torn, broken>>

UpsertCard(r) ==
  /\ Working(r, "lapse")
  /\ card' = Lapse(ToCardState(work[r].seen))
  /\ Work(r, None)
  /\ torn' = (torn \/ work[r].seen # card)
  /\ UNCHANGED <<solverRating, attempts, plays, begun, broken>>

\* grade, up to the write; a puzzle that is not queued is left alone.
ReceiveGrade(r, grade) ==
  /\ work[r] = None
  /\ card # None
  /\ grade = "again" => card.lapses < MaxLapses
  /\ Work(r, [at |-> "grade", seen |-> card, grade |-> grade])
  /\ UNCHANGED <<solverRating, attempts, plays, card, begun, torn, broken>>

\* Mutant: a card graduates after a week,
GraduatesInAWeek(next) == next.intervalDays > 7

\* Mutant: or only after two months.
GraduatesLate(next) == next.intervalDays > 60

Graduates(next) == next.intervalDays > GraduationIntervalDays

\* delete or update; both throw if the row is gone.
WriteGrade(r) ==
  /\ Working(r, "grade")
  /\ LET next == Schedule(work[r].seen, work[r].grade) IN
       card' = IF card = None \/ Graduates(next) THEN None ELSE next
  /\ Work(r, None)
  /\ torn' = (torn \/ work[r].seen # card)
  /\ UNCHANGED <<solverRating, attempts, plays, begun, broken>>

\* An error or a restart.
WorkStops(r) ==
  /\ work[r] # None
  /\ Work(r, None)
  /\ broken' = (broken \/ Working(r, "insert") \/ Working(r, "count"))
  /\ UNCHANGED <<solverRating, attempts, plays, card, begun, torn>>

PuzzleNext ==
  \E r \in Req :
    \/ \E solved \in BOOLEAN : ReceiveAttempt(r, solved)
    \/ GetBefore(r)
    \/ ReadRating(r)
    \/ UpsertRating(r)
    \/ InsertAttempt(r)
    \/ CountPlay(r)
    \/ ReadCard(r)
    \/ UpsertCard(r)
    \/ \E grade \in Grades : ReceiveGrade(r, grade)
    \/ WriteGrade(r)
    \/ WorkStops(r)

PuzzleSpec == PuzzleInit /\ [][PuzzleNext]_puzzleVars

-----------------------------------------------------------------------------
\* A queued card is always one on its way out: it has lapsed, it is due within
\* the graduation interval, and no card takes more than eight solves in a row
\* below it, however low its ease factor has sunk and whatever overlaps.
CardIsLearnable ==
  card # None => /\ card.lapses >= 1
                 /\ card.intervalDays \in 1..GraduationIntervalDays
                 /\ card.ease >= 130
                 /\ card.reps <= 8

\* A failed puzzle leaves the queue by being learned: three solves in a row at
\* least since its last failure, unless a failure was overwritten.
LearnedInThree ==
  [][card # None /\ card' = None => card.reps >= 2 \/ torn']_puzzleVars

\* The attempts tell how the rating came about: of its steps each was made by
\* one attempt, which reported what was there before and after it, and each
\* attempt was counted.
AttemptsExplainRating ==
  ~torn /\ ~broken /\ (\A r \in Req : work[r] = None) =>
    /\ Len(attempts) = Len(solverRating) /\ plays = Len(attempts)
    /\ \A k \in DOMAIN solverRating : \E i \in DOMAIN attempts :
         attempts[i] = [solved |-> solverRating[k],
                        before |-> SubSeq(solverRating, 1, k - 1),
                        after  |-> SubSeq(solverRating, 1, k)]
===============================================================================
