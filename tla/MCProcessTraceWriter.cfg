CONSTANTS
  r1 = r1
  r2 = r2
  Runs <- MCRuns
  MaxEvents = 2
  BatchSize = 2
  Capacity = 3
  Attempts = 2
  MaxCrashes = 1
SPECIFICATION FairSpec
CHECK_DEADLOCK FALSE
INVARIANTS
  TypeOK
  WatermarkHidesNothing
  DrainWaitsForAll
PROPERTY
  EvidenceIsSettled
