\* One handler at a time, in a timed game that a move can end.
SPECIFICATION Spec
CONSTANTS
  Req = {r1}
  Ops = {"state", "move", "resign", "offer", "accept", "decline", "claim", "abort"}
  QuietMoves = {e4, d4}
  MatingMoves = {mate}
  DrawingMoves = {stalemate}
  None = None
  Timed = TRUE
  TimeMs = 2
  IncrementMs = 1
  AbortPlyLimit = 2
  MaxPly = 5
  MinEndPly = 4
  Horizon = 7
  Janitor = FALSE
CHECK_DEADLOCK FALSE
INVARIANTS
  NothingLost
PROPERTIES
  AtomicSpec
