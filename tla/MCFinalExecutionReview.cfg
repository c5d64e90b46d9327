CONSTANTS
  MaxRuns = 2
  MaxReviews = 2
  MaxCycles = 1
  Workers = {w1}
  Requests = {q1}
SPECIFICATION Spec
INVARIANTS
  CorrectedHeadIsNotMerged
CHECK_DEADLOCK FALSE
