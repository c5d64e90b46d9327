CONSTANTS
  MaxRuns = 3
  MaxReviews = 2
  MaxCycles = 1
  Workers = {}
  Requests = {q1}
SPECIFICATION Spec
INVARIANTS
  OneCodingRunAtATime
  CorrectionsAreBounded
  ActiveCycleHasItsRun
PROPERTIES
  ImplementsCodingRun
CHECK_DEADLOCK FALSE
