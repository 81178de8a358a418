CONSTANTS
  t1 = t1
  controlPlane = controlPlane
  operator = operator
  None = None
  Tasks <- MCTasks
  RunIds <- MCRunIds
  Triggers <- MCImmediate
  Interval = 1
  MaxTime = 0
  MaxRevision = 2
  Callers <- MCCallers
  Schedulers <- MCControlPlane
  MaxCalls = 6
  Crashes = FALSE
SPECIFICATION Spec
CHECK_DEADLOCK FALSE
INVARIANT
  TaskHoldsLatestRevision
