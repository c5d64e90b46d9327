CONSTANTS
  MaxRuns = 2
  MaxReviews = 3
  MaxCycles = 1
  Workers = {w1, w2}
  Requests = {q1}
SPECIFICATION FairSpec
INVARIANTS
  TypeOK
  LiveMergeIsAuthorized
PROPERTIES
  ImplementsAuthority
  MergeIsStillAuthorized
  QueuedMergeIsTaken
CHECK_DEADLOCK FALSE
