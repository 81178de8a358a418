CONSTANTS
  t1 = t1
  controlPlane = controlPlane
  operator = operator
  None = None
  Tasks <- MCTasks
  RunIds <- MCRunIds
  Triggers <- MCTriggers
  Interval = 1
  MaxTime = 1
  MaxRevision = 2
  Callers <- MCControlPlane
  Schedulers <- MCControlPlane
  MaxCalls = 9
  Crashes = FALSE
SPECIFICATION Spec
CHECK_DEADLOCK FALSE
PROPERTY
  ImplementsLifecycle
