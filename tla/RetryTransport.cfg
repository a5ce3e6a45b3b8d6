SPECIFICATION FairSpec
CONSTANTS
  Calls = {r1, r2}
  FailureThreshold = 1
  Cooldown = 1
  FnMayPanic = FALSE
  MaxAttempts = 3
  Bodies = {"getBody", "stream", "broken"}
INVARIANT RoundTripContract
PROPERTY Terminates
