\* Two polls at a time and one re-join to spare: the second answer that says the
\* entry is gone ends the search, with the game in the mailbox.
SPECIFICATION MCFairSpec
CONSTANTS
  Req = {1}
  Gets = {get1}
  None = None
  QuietMoves = {quiet}
  MatingMoves = {}
  DrawingMoves = {}
  Timed = FALSE
  AbortPlyLimit = 1
  Me = "w"
  MaxPly = 0
  MaxOffers = 0
  MaxRuns = 0
  MaxFaults = 0
  Pollers = {poll1, poll2}
  OnlyPoller = poll1
  MaxRejoins = 1
  MaxSearches = 1
  MaxPairings = 1
  MaxLosses = 0
CHECK_DEADLOCK FALSE
PROPERTY PushIsRecovered
