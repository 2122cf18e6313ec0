SPECIFICATION FairGateSpec
CONSTANTS
  Request = {j1, j2, j3}
  Thread = {t1, t2}
  NoOwner = NoOwner
  OwnerIsJob = FALSE
  Stale = 2
  MaxGateFaults = 3
INVARIANT Exclusive
PROPERTIES ImplementsSingleton AbandonedGateOpens
CHECK_DEADLOCK FALSE
