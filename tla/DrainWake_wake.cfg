SPECIFICATION FairSpec
CONSTANTS
  j1 = j1
  j2 = j2
  e1 = e1
  e2 = e2
  Nobody = Nobody
  Job <- TwoJobs
  Executor <- TwoExecutors
  MaxPerDrain = 2
  MaxFaults = 2
INVARIANT NoLostWakeup
PROPERTY EveryRowDone
