SPECIFICATION FairSpec
CONSTANTS
  r1 = r1
  r2 = r2
  j1 = j1
  j2 = j2
  Replicas = {r1, r2}
  Jobs = {j1, j2}
  Timed = {j2}
  Loops = {1, 2}
  KickLoops = {1}
  Registrations <- SmallRegistrations
  PoolSize = 2
  MaxFaults = 1
  Clients = {c1, c2}
  MaxTokens = 5
  Limit = 2
  MaxHits = 4
  Callers = {g1, g2}
  MaxVersion = 1
  HttpReqs = {q1, q2}
  QueueSize = 1
INVARIANTS
  SchedulerContract
  RedisContract
  CacheContract
  RabbitContract
  DrainContract

  
CHECK_DEADLOCK FALSE
