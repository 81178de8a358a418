CONSTANTS
  t1 = t1
  r1 = r1
  r2 = r2
  r3 = r3
  r4 = r4
  None = None
  Tasks <- MCTasks
  RunIds <- MCRunIds
  Triggers <- MCTriggers
  Interval = 1
  MaxTime = 2
  MaxRevision = 2
SPECIFICATION Spec
SYMMETRY RunSymmetry
CHECK_DEADLOCK FALSE
INVARIANTS
  TypeOK
  LiveScheduleOfActiveTask
  LiveScheduleWillFire
  RunCountIsExact
  TriggerBudget
  OneShotExclusive
PROPERTIES
  TerminalRunIsFinal
  EndedScheduleIsFinal
  ClosedOneShotStaysClosed
