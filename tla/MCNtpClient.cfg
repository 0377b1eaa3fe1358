SPECIFICATION NtpFairSpec
CONSTANTS
  Era = 8
  NTP_DELTA = 5
  MaxWire = 2
  Late = TRUE
  Strays = TRUE
CHECK_DEADLOCK FALSE
INVARIANTS
  OneWorker
  AssertsHoldIfLossy
  TimeIsRight
PROPERTIES
  ComesBack
