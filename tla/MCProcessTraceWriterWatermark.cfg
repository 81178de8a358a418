CONSTANTS
  r1 = r1
  r2 = r2
  Runs <- MCRuns
  MaxEvents = 3
  BatchSize = 2
  Capacity = 3
  Attempts = 2
  MaxCrashes = 1
SPECIFICATION Spec
CHECK_DEADLOCK FALSE
INVARIANT
  WatermarkIsDurable
