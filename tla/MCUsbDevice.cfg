SPECIFICATION FairSpec
CONSTANTS
  Addresses = {7}
  MaxControls = 5
  MaxWrites = 4
  MaxResets = 1
INVARIANTS
  AnswersMatch
  OneBufferGoesRound
  EchoSurvivesReset
PROPERTIES
  AddressAfterAck
  ControlCompletes
  EchoReturns
CHECK_DEADLOCK FALSE
