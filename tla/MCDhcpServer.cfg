SPECIFICATION DhcpSpec
CONSTANTS
  Stations = {s1, s2}
  NoMac = NoMac
  MaxIp = 2
  NoAddr = NoAddr
  Foreign = Foreign
  TickMod = 6
  Quantum = 2
  LeaseTime = 1
  Xids = {0, 1}
  Remembered = {NoAddr, Foreign}
  Faults = {"loss"}
  MaxInFlight = 2
INVARIANTS
  AddressExclusive
  LeaseOutlivesUse
SYMMETRY Symmetry
