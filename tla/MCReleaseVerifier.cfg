CONSTANTS
  MaxDispatches = 2
  MaxAttempts = 3
  MaxDeliveries = 4
  Executors = {x1, x2}
SPECIFICATION FairSpec
INVARIANTS
  TypeOK
  OpenJobIsInHand
PROPERTIES
  ImplementsVerificationJob
  JobIsDecided
CHECK_DEADLOCK FALSE
