CONSTANTS
  m1 = m1
  m2 = m2
  nora = nora
  iris = iris
  None = None
  Messages <- MCMessages
  Members <- MCMembers
  MaxAttempts = 1
  MaxRequests = 2
  MaxTurns = 2
  MaxStops = 0
  MaxFailures = 0
  MaxCrashes = 0
SPECIFICATION Spec
CHECK_DEADLOCK FALSE
PROPERTY
  MessageGetsTheBall
