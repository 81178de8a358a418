CONSTANTS
  nora = nora
  iris = iris
  room = room
  run = run
  c1 = c1
  c2 = c2
  Members <- MCOneMember
  Rooms <- MCRooms
  Runs <- MCRuns
  ApprovalIds <- MCTwoApprovals
  GrantIds <- MCOneGrant
  Callers <- MCCallers
  ParallelCalls = TRUE
  MaxCalls = 4
  MaxCrashes = 1
SPECIFICATION Spec
SYMMETRY MCSymmetry
CHECK_DEADLOCK FALSE
INVARIANTS
  TypeOK
