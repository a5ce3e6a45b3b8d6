SPECIFICATION Spec
CONSTANTS
  MaxMsg = 2
  NoId = {2}
  Runners = {r1, r2}
  MaxAttempts = 2
  Prefetch = 1
  DedupCap = 1
  MayCancel = FALSE
INVARIANTS AckedWasProcessed DeadLetterNeedsReason
CHECK_DEADLOCK FALSE
