CONSTANTS
  Lease = 13
  MaxDuration = 5
  FirstDelay = 1
  LaterDelay = 5
  MaxRetries = 3
  Duplicates = 0
SPECIFICATION FairSpec
INVARIANTS
  TypeOK
  OneExecution
  RecordedReportIsPublished
PROPERTIES
  QueuedJobEnds
CHECK_DEADLOCK FALSE
