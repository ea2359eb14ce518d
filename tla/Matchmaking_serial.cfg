SPECIFICATION Spec
CONSTANTS
  ann = ann
  bob = bob
  cal = cal
  Players = {ann, bob, cal}
  Pools = {blitz, rapid}
  Req = {r1}
  Rating <- MCRating
  BaseWindow = 2
  Windows = {2, 4}
  None = None
  Faults = {"failure", "restart"}
  MaxGames = 2
  MaxJoins = 5
SYMMETRY Symmetry
CHECK_DEADLOCK FALSE
INVARIANTS
  NoSecondGame
  OneQueuePerUser
