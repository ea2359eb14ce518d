SPECIFICATION Spec
CONSTANTS
  Players = {ann, bob, cal}
  Req = {r1, r2}
  None = None
  MaxInvites = 1
  MaxRows = 3
SYMMETRY Symmetry
CHECK_DEADLOCK FALSE
INVARIANTS
  OfferIsLinked
  LinkIsLive
  OneRematchStarts
  BothAsked
PROPERTIES
  SeatsAndEndsStand
