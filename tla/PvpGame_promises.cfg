\* One handler at a time: what the comments promise of one game, one by one.
SPECIFICATION Spec
CONSTANTS
  Req = {r1}
  Ops = {"state", "move", "resign", "offer", "accept", "decline", "claim", "abort"}
  QuietMoves = {e4, d4}
  MatingMoves = {mate}
  DrawingMoves = {stalemate}
  None = None
  Timed = TRUE
  TimeMs = 2
  IncrementMs = 1
  AbortPlyLimit = 2
  MaxPly = 5
  MinEndPly = 4
  Horizon = 7
  Janitor = FALSE
CHECK_DEADLOCK FALSE
INVARIANTS
  FlagFellOnTheMover
PROPERTIES
  FinalizedOnce
  AbortedEarly
  OwnOfferStands
