\* Ratings, presence, streaks and puzzle progress, one at a time.
SPECIFICATION Spec
CONSTANTS
  Req = {r1, r2}
  None = None
  ann = ann
  bob = bob
  cal = cal
  s1 = s1
  s2 = s2
  g1 = g1
  g2 = g2
  g3 = g3
  RatedGames = {g1, g2, g3}
  RatedUsers = {ann, bob, cal}
  White <- MCWhite
  Black <- MCBlack
  RowId <- MCRowId
  Sockets = {s1, s2}
  RoomGames = {g1, g2, g3}
  Owner <- MCOwner
  Members <- MCMembers
  MaxRooms = 1
  MaxDay = 4
  MaxAttempts = 2
  MaxLapses = 2
SYMMETRY Symmetry
CHECK_DEADLOCK FALSE
INVARIANTS
  RatingsChain
  GamesCountOnce
  NobodyWaitsInACircle
  RoomsAreBounded
  JoinedMeansInRoom
  PresenceIsRight
  StreakIsBacked
  StreakIsTheRun
  CardIsLearnable
  AttemptsExplainRating
PROPERTIES
  LearnedInThree
