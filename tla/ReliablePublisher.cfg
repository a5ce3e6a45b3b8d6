SPECIFICATION FairSpec
CONSTANTS
  Callers = {g1, g2}
  MaxConns = 5
  Modes = {TRUE, FALSE}
  MayClose = TRUE
INVARIANTS StoredAsReported NoConnectionLeak
PROPERTY PublishReturns
CHECK_DEADLOCK FALSE
