SPECIFICATION FairSpec
CONSTANTS
  Parts = 3
  Iterations = 4
  FaultSets <- NoneOrAll
INVARIANTS
  NothingTruncated
PROPERTIES
  ImplementsRounds
  TestsEnd
  BothSucceed
CHECK_DEADLOCK FALSE
