\* Two games and no re-joins: the mailbox of the first game, or an answer read out of
\* it, ends the second search.
INIT QuickInit
NEXT QuickNext
CONSTANTS
  Pollers = {poll1}
  MaxRejoins = 0
  MaxSearches = 2
  MaxPairings = 2
  MaxLosses = 0
CHECK_DEADLOCK FALSE
INVARIANT QuickTypeOK
PROPERTY NewsIsNew
