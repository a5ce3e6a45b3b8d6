SPECIFICATION FairSpec
CONSTANTS
  Calls = {c1, c2, c3}
  FailureThreshold = 2
  Cooldown = 2
  FnMayPanic = TRUE
INVARIANT CountersAgree
PROPERTIES TripNeedsStreak HealsForGood ImplementsContract
