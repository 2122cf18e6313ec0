SPECIFICATION FairSpec
CONSTANTS
  Manual = {m1}
  MaxAsks = 1
  MaxFaults = 2
INVARIANTS PipelineExclusive FlagCoversFullSync BootFirst
PROPERTIES EveryDueSyncRuns
CHECK_DEADLOCK FALSE
