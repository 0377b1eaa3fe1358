SPECIFICATION NtpSpec
CONSTANTS
  Era = 8
  NTP_DELTA = 5
  MaxWire = 2
  Late = TRUE
  Strays = FALSE
INVARIANTS
  AssertsHold
