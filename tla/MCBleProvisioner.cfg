SPECIFICATION FairSpec
CONSTANTS
  Ssids = {"home", "away"}
  Passwords = {"right", "wrong"}
  Blank = ""
  Erased = Erased
  Garbled = Garbled
  Known = {"home"}
  Right <- MCRight
  NoPair = NoPair
  MaxCuts = 1
INVARIANTS
  SavedIfQuiet
PROPERTIES
  EndsUnlessLate
  Provisioned
  StatusTold
CHECK_DEADLOCK FALSE
