CONSTANTS
  nora = nora
  iris = iris
  room = room
  run = run
  c1 = c1
  c2 = c2
  Members <- MCOneMember
  Rooms <- MCRooms
  Runs <- MCNoRun
  ApprovalIds <- MCTwoApprovals
  GrantIds <- MCGrantIds
  Callers <- MCCallers
  ParallelCalls = FALSE
  MaxCalls = 5
  MaxCrashes = 0
SPECIFICATION Spec
SYMMETRY MCSymmetry
CHECK_DEADLOCK FALSE
INVARIANT
  GrantIsUsedOnce
