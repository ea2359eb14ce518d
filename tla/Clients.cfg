\* A page of a live game whose player has one request under way at a time, and a
\* quick-match page that is cancelled, left and opened again, or whose polls overlap.
SPECIFICATION MCFairSpec
CONSTANTS
  Req = {1}
  Gets = {get1}
  None = None
  QuietMoves = {quiet}
  MatingMoves = {mate}
  DrawingMoves = {}
  Timed = FALSE
  AbortPlyLimit = 1
  Me = "w"
  MaxPly = 2
  MaxOffers = 1
  MaxRuns = 2
  MaxFaults = 1
  Pollers = {poll1, poll2}
  OnlyPoller = poll1
  MaxRejoins = 2
  MaxSearches = 2
  MaxPairings = 2
  MaxLosses = 1
CHECK_DEADLOCK FALSE
INVARIANTS
  QuietIsCurrent
PROPERTIES
  BoardNeverRewinds
  CatchesUp
  GameIsShown
  AbandonedIsForgotten
