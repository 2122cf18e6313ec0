SPECIFICATION FairSpec
CONSTANTS
  w1 = w1
  s1 = s1
  e1 = e1
  e2 = e2
  Job <- MCJob
  Webhook <- MCWebhook
  Sweep <- MCSweep
  FollowUp <- MCFollowUp
  Executor <- MCExecutor
  MaxAttempts = 2
  MaxEventAttempts = 2
  MaxFaults = 1
INVARIANT DoneMeansPerformed
PROPERTIES TerminalIsFinal LatestClaimDecides ImplementsLifecycle EveryJobSettles
CHECK_DEADLOCK FALSE
