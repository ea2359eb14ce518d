\* The comment on row integrity: violated, an offer read before a move is
\* written after it.
SPECIFICATION Spec
CONSTANTS
  Req = {r1, r2}
  QuietMoves = {quiet}
  MatingMoves = {}
  DrawingMoves = {}
  None = None
  TimeMs = 1
  IncrementMs = 0
  Setups <- SetupsMC
  MaxPly = 2
  Horizon = 1
CHECK_DEADLOCK FALSE
INVARIANTS
  RowIntegrity
