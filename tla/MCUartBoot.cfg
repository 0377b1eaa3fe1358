SPECIFICATION FairSpec
CONSTANTS
  Chunks = 3
  MaxKnocks = 10
  MaxAttempts = 3
  Bad = Bad
  MaxFaults = 4
  Heard <- SomeHeard
INVARIANTS
  RunsTheImage
PROPERTIES
  FirstTry
  Boots
CHECK_DEADLOCK FALSE
