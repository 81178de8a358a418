CONSTANTS
  member = member
  controlPlane = controlPlane
  reply1 = reply1
  reply2 = reply2
  operator1 = operator1
  operator2 = operator2
  None = None
  Runs = {1, 2}
  Members <- MCMembers
  Assignee <- MCAssignee
  ControlPlane = controlPlane
  Replies <- MCReplies
  Overlap = FALSE
  Operators <- MCOperator
  Cancelers <- MCOperator
  Ttl = 1
  MaxLeases = 2
  MaxCrashes = 1
SPECIFICATION Spec
CHECK_DEADLOCK FALSE
INVARIANTS
  TypeOK
  RunStartsOnce
  RunIsOwned
  RunInProgressIsExecuted
  MemberWorksOnOneRun
  BlockedRunCanBeAnswered
