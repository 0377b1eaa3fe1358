SPECIFICATION MqttFairSpec
CONSTANTS
  MQTT_REQ_MAX_IN_FLIGHT = 5
  Temperatures = {1}
  MaxEvents = 3
PROPERTIES
  ExitStops
CHECK_DEADLOCK FALSE
