SPECIFICATION FairSpec
CONSTANTS
  Hosts = {h1, h2}
  NoHost = NoHost
  Factory = Factory
  ImageBlocks = 3
  Family <- OneFamily
  AddrOf <- GappedAddrOf
  Cells = 4
  ChunkBlocks = 2
  SectorCells = 2
  Worlds <- FourWorlds
INVARIANTS
  HomeBootable
  SuccessIsWhole
  AckedIsProgrammed
PROPERTIES
  ServingEnds
  PushArrives
CHECK_DEADLOCK FALSE
