SPECIFICATION FairSpec
CONSTANTS
  Events = {e1, e2}
  Dispatchers = {d1, d2}
  Batch = 2
  Unpublishable = {e2}
  Environments = {"faulty", "kicksOnly"}
  MaxFaults = 1
INVARIANT OneCopyPerFailure
PROPERTIES ImplementsAtLeastOnce ImplementsFairness KickSuffices
CHECK_DEADLOCK FALSE
