SPECIFICATION PathSpec
CONSTANTS
  MaxOps = 3
  MaxVisits = 3
  Visitors = {u1}
  Burst = 1
  Refill = 1
  MaxSeconds = 1
  Pinged = {es, s3}
  Watched = {mq}
  Own = {app}
  Grouped = {es, s3}
  MaxChanges = 3
  Gateways = {g1, g2}
  Subjects <- SomeSubjects
  MaxAge = 1
  Tolerance = 1
  MaxTime = 3
  AppCallers = {k1, k2}
  Apps = {a1}
  Expiring = {a1}
  CredExpiry = 3
  CacheTTL = 2
  Margin = 3
  FetchTimeout = 1
  CallTimeout = 1
  Lifetimes = {2, 4}
  MaxTicks = 4
  Parties = {alice, bob, carol}
  MaxDamaged = 3
  Anchors = {ca1, ca2}
  SerialNos = {1, 2}
  Revocable = {1}
  Unwelcome = {2}
  Handshakes = {h1}
  MaxSwaps = 2
  Rpcs = {x1, x2}
  RpcThreshold = 2
  RpcCooldown = 1
  RetryPolicies <- SomePolicies
  MaxDuration = 7
INVARIANTS
  ChainContract
  RateContract
  HealthContract
  AppContract
  
  
  GrpcContract

  
CHECK_DEADLOCK FALSE
