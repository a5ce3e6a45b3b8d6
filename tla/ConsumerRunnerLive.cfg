SPECIFICATION FairSpec
CONSTANTS
  MaxMsg = 2
  NoId = {2}
  Runners = {r1}
  MaxAttempts = 2
  Prefetch = 2
  DedupCap = 1
  MayCancel = TRUE
PROPERTIES  RunnerProgress
CHECK_DEADLOCK FALSE
