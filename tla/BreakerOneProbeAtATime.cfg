SPECIFICATION Spec
CONSTANTS
  Calls = {c1, c2, c3}
  FailureThreshold = 2
  Cooldown = 2
  FnMayPanic = FALSE
INVARIANT OneProbeAtATime
