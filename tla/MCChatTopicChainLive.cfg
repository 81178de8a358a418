CONSTANTS
  m1 = m1
  m2 = m2
  nora = nora
  iris = iris
  None = None
  Messages <- MCOneMessage
  Members <- MCMembers
  MaxAttempts = 1
  MaxRequests = 2
  MaxTurns = 3
  MaxStops = 2
  MaxFailures = 2
  MaxCrashes = 1
SPECIFICATION Spec
CHECK_DEADLOCK FALSE
PROPERTY
  RoomIsReleased
