CONSTANTS
  t1 = t1
  controlPlane = controlPlane
  operator = operator
  None = None
  Tasks <- MCTasks
  RunIds <- MCRunIds
  Triggers <- MCRecurring
  Interval = 1
  MaxTime = 1
  MaxRevision = 2
  Callers <- MCCallers
  Schedulers <- MCControlPlane
  MaxCalls = 6
  Crashes = TRUE
SPECIFICATION Spec
CHECK_DEADLOCK FALSE
INVARIANTS
  TriggerBudget
  OneRunPerTriggerTime
  RunRevisionWasConfirmed
