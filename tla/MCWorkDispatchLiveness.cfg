CONSTANTS
  member = member
  controlPlane = controlPlane
  reply1 = reply1
  reply2 = reply2
  operator1 = operator1
  operator2 = operator2
  None = None
  Runs = {1, 2}
  Members <- MCMembers
  Assignee <- MCAssignee
  ControlPlane = controlPlane
  Replies <- MCNoReplies
  Overlap = FALSE
  Operators <- MCOperators
  Cancelers <- MCNoOperator
  Ttl = 1
  MaxLeases = 2
  MaxCrashes = 1
SPECIFICATION Spec
CHECK_DEADLOCK FALSE
PROPERTIES
  QueuedRunMovesOn
  PendingLeaseIsSettled
