\* The offerer's own move drops the offer it did not see.
SPECIFICATION Spec
CONSTANTS
  Req = {r1, r2}
  Ops = {"move", "offer"}
  QuietMoves = {e4}
  MatingMoves = {mate}
  DrawingMoves = {}
  None = None
  Timed = FALSE
  TimeMs = 1
  IncrementMs = 0
  AbortPlyLimit = 2
  MaxPly = 4
  MinEndPly = 4
  Horizon = 1
  Janitor = TRUE
CHECK_DEADLOCK FALSE
PROPERTY OwnOfferStands
