\* A fetch writes the engine state of a game the janitor aborted.
SPECIFICATION Spec
CONSTANTS
  Req = {r1, r2}
  Ops = {"state"}
  QuietMoves = {e4}
  MatingMoves = {mate}
  DrawingMoves = {}
  None = None
  Timed = FALSE
  TimeMs = 1
  IncrementMs = 0
  AbortPlyLimit = 2
  MaxPly = 4
  MinEndPly = 4
  Horizon = 1
  Janitor = TRUE
CHECK_DEADLOCK FALSE
PROPERTY SweptStaysSwept
