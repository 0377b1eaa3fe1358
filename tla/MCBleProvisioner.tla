-------------------------- MODULE MCBleProvisioner --------------------------
EXTENDS BleProvisioner

\* A network in range and one that is not.
MCRight == {[ssid |-> "home", password |-> "right"]}

=============================================================================
