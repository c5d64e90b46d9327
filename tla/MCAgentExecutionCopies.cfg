CONSTANTS
  Lease = 6
  MaxDuration = 2
  FirstDelay = 1
  LaterDelay = 2
  MaxRetries = 1
  Duplicates = 1
SPECIFICATION Spec
INVARIANTS
  AckedRunIsReported
PROPERTIES
  FirstOutcomeStays
  ImplementsCodingRun
CHECK_DEADLOCK FALSE
