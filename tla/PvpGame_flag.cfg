\* Two handlers overlapping in a timed game, with restarts, somebody polling.
SPECIFICATION FairSpec
CONSTANTS
  Req = {r1, r2}
  Ops = {"state", "move", "offer"}
  QuietMoves = {e4}
  MatingMoves = {}
  DrawingMoves = {}
  None = None
  Timed = TRUE
  TimeMs = 1
  IncrementMs = 0
  AbortPlyLimit = 1
  MaxPly = 1
  MinEndPly = 4
  Horizon = 1
  Janitor = FALSE
CHECK_DEADLOCK FALSE
INVARIANTS
  ClocksNeverEmpty
PROPERTIES
  GameEnds
