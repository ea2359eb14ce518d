SPECIFICATION Spec
CONSTANTS
  ann = ann
  bob = bob
  cal = cal
  Players = {ann, bob, cal}
  Pools = {blitz, rapid}
  Req = {r1, r2}
  Rating <- MCRating
  BaseWindow = 2
  Windows = {2, 4}
  None = None
  Faults = {"expiry", "failure", "restart"}
  MaxGames = 1
  MaxJoins = 3
SYMMETRY Symmetry
CHECK_DEADLOCK FALSE
INVARIANTS
  NoMissedPair
  PairedOncePerJoin
