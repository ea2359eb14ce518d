\* The game page of Clients.cfg by itself, with one fault more.
SPECIFICATION FairSpec
CONSTANTS
  Req = {1}
  Gets = {get1}
  None = None
  QuietMoves = {quiet}
  MatingMoves = {mate}
  DrawingMoves = {}
  Timed = FALSE
  AbortPlyLimit = 1
  Me = "w"
  MaxPly = 3
  MaxOffers = 1
  MaxRuns = 2
  MaxFaults = 2
CHECK_DEADLOCK FALSE
INVARIANTS
  TypeOK
  QuietIsCurrent
PROPERTIES
  BoardNeverRewinds
  CatchesUp
