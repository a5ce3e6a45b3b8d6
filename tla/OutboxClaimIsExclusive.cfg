SPECIFICATION Spec
CONSTANTS
  Events = {e1, e2}
  Dispatchers = {d1, d2}
  Batch = 2
  Unpublishable = {}
  Environments = {"calm"}
  MaxFaults = 0
INVARIANT ClaimIsExclusive
