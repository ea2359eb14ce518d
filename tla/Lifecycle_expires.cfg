SPECIFICATION Spec
CONSTANTS
  Players = {ann, bob}
  Req = {r1, r2}
  None = None
  MaxInvites = 1
  MaxRows = 1
SYMMETRY Symmetry
CHECK_DEADLOCK FALSE
PROPERTIES
  OnlyPendingExpires
