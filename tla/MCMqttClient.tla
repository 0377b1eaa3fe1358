---------------------------- MODULE MCMqttClient ----------------------------
EXTENDS MqttClient

=============================================================================
