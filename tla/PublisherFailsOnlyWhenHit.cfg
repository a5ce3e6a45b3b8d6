SPECIFICATION Spec
CONSTANTS
  Callers = {g1, g2}
  MaxConns = 5
  Modes = {TRUE}
  MayClose = FALSE
INVARIANT FailsOnlyWhenHit
