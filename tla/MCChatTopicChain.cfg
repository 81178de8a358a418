CONSTANTS
  m1 = m1
  m2 = m2
  nora = nora
  iris = iris
  None = None
  Messages <- MCMessages
  Members <- MCMembers
  MaxAttempts = 2
  MaxRequests = 2
  MaxTurns = 2
  MaxStops = 1
  MaxFailures = 1
  MaxCrashes = 1
SPECIFICATION Spec
CHECK_DEADLOCK FALSE
SYMMETRY MCSymmetry
INVARIANTS
  TypeOK
  OneActiveChain
  RunIsExecutedOnce
  StopReachesHolder
  ActiveChainIsExecuted
  CompletedChainIsAnswered
PROPERTIES
  EndedChainIsFinal
  StopPreventsTransfer
