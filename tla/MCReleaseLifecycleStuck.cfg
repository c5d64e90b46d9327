CONSTANTS
  Problems = {p1, p2}
  NoProblem = NoProblem
  MaxRevisions = 1
  MaxJobs = 0
  HandStages = {1}
SPECIFICATION FairSpec
PROPERTIES
  EvidenceMovesTicket
CHECK_DEADLOCK FALSE
