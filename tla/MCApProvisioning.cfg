SPECIFICATION FairSpec
CONSTANTS
  Creds <- MCCreds
  Right <- MCRight
  Blank = ""
  MAX_CREDENTIALS = 2
  Garbled = Garbled
  Erased = Erased
  Settled = Settled
  Conns = {c1, c2}
  NoConn = NoConn
  MaxCuts = 1
INVARIANTS
  OneEntryPerNetwork
PROPERTIES
  KeepsBook
  RequestServed
  BootServes
CHECK_DEADLOCK FALSE
