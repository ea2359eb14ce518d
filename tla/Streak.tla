-------------------------------- MODULE Streak --------------------------------
(***************************************************************************)
(* The training streak of one user (training/streak.service.ts).  A        *)
(* handler records an activity in four calls: it looks for the row of the  *)
(* day, upserts it, reads the streak row and upserts that.  Midnight, a    *)
(* failure or another handler may come between any two of them.  Days are  *)
(* numbered; the counters of a day and the goal are left out.              *)
(***************************************************************************)
EXTENDS Requests

CONSTANT MaxDay   \* bound: days that pass

ASSUME StreakAssumption == MaxDay \in Nat

VARIABLES
  today,     \* the UTC day
  dayRows,   \* days with a TrainingDay row
  streak,    \* the TrainingStreak row, or None
  activity,  \* the handler in each slot
  late,      \* history: a handler wrote for a day that was over
  halted     \* history: a handler stopped between the two rows

streakVars == <<today, dayRows, streak, activity, late, halted>>

Days == Nat \ {0}

StreakRow == [current : Nat, longest : Nat, last : Days \cup {None}]

Activity ==
  [at : {"day", "read"}, day : Days, first : BOOLEAN]
  \cup [at : {"write"}, day : Days, row : StreakRow]

ASSUME NoDayAssumption == None \notin Int /\ None \notin StreakRow /\ None \notin Activity

ActivityState == Activity \cup {None}

StreakTypeOK ==
  /\ today \in Days
  /\ dayRows \in SUBSET Days
  /\ streak \in StreakRow \cup {None}
  /\ activity \in [Req -> ActivityState]
  /\ late \in BOOLEAN /\ halted \in BOOLEAN

StreakInit ==
  /\ today = 1
  /\ dayRows = {}
  /\ streak = None
  /\ activity = [r \in Req |-> None]
  /\ late = FALSE
  /\ halted = FALSE

Doing(r, what) == activity[r] # None /\ activity[r].at = what

Continue(r, h) == activity' = [activity EXCEPT ![r] = h]

-----------------------------------------------------------------------------
\* Mutant: the day before yesterday will do.
IsYesterdayOrSo(earlier, day) == earlier # None /\ earlier \in {day - 1, day - 2}

IsYesterday(earlier, day) == earlier # None /\ earlier = day - 1

\* Mutant: a second first activity of a day starts over.
NeverSameDay(earlier, day) == FALSE

SameDay(earlier, day) == earlier = day

NoStreak == [current |-> 0, longest |-> 0, last |-> None]

Higher(a, b) == IF a >= b THEN a ELSE b

\* advanceStreak, once the row has been read.
Advanced(prev, day) ==
  LET old     == IF prev = None THEN NoStreak ELSE prev
      current == CASE SameDay(old.last, day) -> old.current
                   [] ~SameDay(old.last, day) /\ IsYesterday(old.last, day) -> old.current + 1
                   [] OTHER -> 1
  IN  [current |-> current, longest |-> Higher(old.longest, current), last |-> day]

\* The day is fixed, and whether this is its first activity.
FindDay(r) ==
  /\ activity[r] = None
  /\ Continue(r, [at |-> "day", day |-> today, first |-> today \notin dayRows])
  /\ UNCHANGED <<today, dayRows, streak, late, halted>>

UpsertDay(r) ==
  /\ Doing(r, "day")
  /\ dayRows' = dayRows \cup {activity[r].day}
  /\ Continue(r, [activity[r] EXCEPT !.at = "read"])
  /\ late' = (late \/ activity[r].day # today)
  /\ UNCHANGED <<today, streak, halted>>

\* A later activity of the day leaves an existing streak alone.
ReadStreak(r) ==
  /\ Doing(r, "read")
  /\ Continue(r, IF ~activity[r].first /\ streak # None THEN None
              ELSE [at |-> "write", day |-> activity[r].day,
                    row |-> Advanced(streak, activity[r].day)])
  /\ UNCHANGED <<today, dayRows, streak, late, halted>>

WriteStreak(r) ==
  /\ Doing(r, "write")
  /\ streak' = activity[r].row
  /\ Continue(r, None)
  /\ late' = (late \/ activity[r].day # today)
  /\ UNCHANGED <<today, dayRows, halted>>

\* An error or a restart; the callers swallow the error.
ActivityStops(r) ==
  /\ activity[r] # None
  /\ Continue(r, None)
  /\ halted' = (halted \/ ~Doing(r, "day"))
  /\ UNCHANGED <<today, dayRows, streak, late>>

\* setDailyGoal creates the row of a user who has not trained yet.
SetDailyGoal ==
  /\ streak = None
  /\ streak' = NoStreak
  /\ UNCHANGED <<today, dayRows, activity, late, halted>>

Midnight ==
  /\ today < MaxDay
  /\ today' = today + 1
  /\ UNCHANGED <<dayRows, streak, activity, late, halted>>

StreakNext ==
  \/ \E r \in Req : \/ FindDay(r)
                    \/ UpsertDay(r)
                    \/ ReadStreak(r)
                    \/ WriteStreak(r)
                    \/ ActivityStops(r)
  \/ SetDailyGoal
  \/ Midnight

StreakSpec == StreakInit /\ [][StreakNext]_streakVars

-----------------------------------------------------------------------------
Backed(row) ==
  row.last # None => /\ row.current \in 1..row.longest
                     /\ ((row.last - row.current + 1)..row.last) \subseteq dayRows

\* No streak is longer than it was earned: every day it claims has a row,
\* whatever overlaps, fails, or crosses midnight half done.
StreakIsBacked == streak # None => Backed(streak)

\* How many days in a row, up to this one, have a row.
RunTo(d) == Cardinality({k \in 1..d : (k..d) \subseteq dayRows})

\* The rules of the service: as long as handlers finish on their day, the
\* streak counts the trained days in a row up to the last one, each once, and
\* the longest streak is the longest such run.
StreakIsTheRun ==
  ~late /\ ~halted /\ (\A r \in Req : activity[r] = None) /\ dayRows # {} =>
    /\ streak # None
    /\ \A d \in dayRows : d <= streak.last
    /\ streak.current = RunTo(streak.last)
    /\ \A d \in dayRows : RunTo(d) <= streak.longest
    /\ \E d \in dayRows : RunTo(d) = streak.longest
===============================================================================
