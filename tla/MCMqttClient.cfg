SPECIFICATION MqttFairSpec
CONSTANTS
  MQTT_REQ_MAX_IN_FLIGHT = 5
  Temperatures = {1, 2}
  MaxEvents = 3
INVARIANTS
  CountNotNegative
  CountAgrees
  LedReported
PROPERTIES
  ExitStopsPatient
  TemperatureFollows
CHECK_DEADLOCK FALSE
