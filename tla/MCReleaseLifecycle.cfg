CONSTANTS
  Problems = {p1}
  NoProblem = NoProblem
  MaxRevisions = 2
  MaxJobs = 1
  HandStages = {5}
SPECIFICATION FairSpec
INVARIANTS
  TypeOK
  VerifiedIsEvidenced
PROPERTIES
  OnlyPeopleMoveBack
  QualifiedTicketMoves
CHECK_DEADLOCK FALSE
