CONSTANTS
  Events = {e1}
  Workers = {w1, w2}
  MaxAttempts = 2
  MaxRenames = 1
  MaxRequeues = 1
SPECIFICATION FairSpec
INVARIANTS
  TypeOK
  UsageNeedsCustomer
  PendingIsClaimable
PROPERTIES
  ImplementsLedger
  OwedIsSettled
CHECK_DEADLOCK FALSE
