\* Two of the player's requests may overlap: what the page shows meanwhile.
SPECIFICATION Spec
CONSTANTS
  Req = {1, 2}
  Gets = {get1}
  None = None
  QuietMoves = {quiet}
  MatingMoves = {mate}
  DrawingMoves = {}
  Timed = FALSE
  AbortPlyLimit = 1
  Me = "w"
  MaxPly = 2
  MaxOffers = 1
  MaxRuns = 2
  MaxFaults = 1
CHECK_DEADLOCK FALSE
INVARIANTS
  TypeOK
  QuietIsCurrent
PROPERTIES
  BoardNeverRewinds
