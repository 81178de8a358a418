CONSTANTS
  nora = nora
  iris = iris
  room = room
  run = run
  c1 = c1
  c2 = c2
  Members <- MCMembers
  Rooms <- MCRooms
  Runs <- MCRuns
  ApprovalIds <- MCApprovalIds
  GrantIds <- MCGrantIds
  Callers <- MCOneCaller
  ParallelCalls = TRUE
  MaxCalls = 5
  MaxCrashes = 0
SPECIFICATION Spec
CHECK_DEADLOCK FALSE
INVARIANTS
  GrantIsUsedOnce
  OnePendingRequestPerCall
  DeactivatedMemberHasNoAccess
PROPERTY
  CallsAreAtomic
