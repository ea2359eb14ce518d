\* Two handlers overlapping in an untimed game that a move can end.
SPECIFICATION Spec
CONSTANTS
  Req = {r1, r2}
  Ops = {"state", "move", "resign", "offer", "accept", "decline", "claim", "abort"}
  QuietMoves = {e4, d4}
  MatingMoves = {mate}
  DrawingMoves = {stalemate}
  None = None
  Timed = FALSE
  TimeMs = 1
  IncrementMs = 0
  AbortPlyLimit = 2
  MaxPly = 4
  MinEndPly = 4
  Horizon = 1
  Janitor = TRUE
SYMMETRY Symmetry
CHECK_DEADLOCK FALSE
INVARIANTS
  EngineNeverForks
  BoardResultStands
  DrawNeedsBothSides
PROPERTIES
  RecordSpec
