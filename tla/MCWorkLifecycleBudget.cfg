CONSTANTS
  t1 = t1
  r1 = r1
  r2 = r2
  r3 = r3
  r4 = r4
  None = None
  Tasks <- MCTasks
  RunIds <- MCRunIds
  Triggers <- MCBoundedTriggers
  Interval = 1
  MaxTime = 2
  MaxRevision = 1
SPECIFICATION Spec
CHECK_DEADLOCK FALSE
INVARIANT
  CompletedScheduleSpentItsBudget
