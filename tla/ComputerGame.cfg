\* Two overlapping handlers, every endpoint, timed and untimed games.
SPECIFICATION Spec
CONSTANTS
  Req = {r1, r2}
  QuietMoves = {quiet}
  MatingMoves = {mate}
  DrawingMoves = {stalemate}
  None = None
  TimeMs = 2
  IncrementMs = 0
  Setups <- SetupsMC
  MaxPly = 2
  Horizon = 2
SYMMETRY Symmetry
CHECK_DEADLOCK FALSE
INVARIANTS
  ActiveIsPlayable
  ClockFollowsMoves
  RowsAreTheMoves
  EndsAreExplained
