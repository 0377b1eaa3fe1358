-------------------------- MODULE MCApProvisioning --------------------------
EXTENDS ApProvisioning

\* A network in range with its right and a wrong password, two others, and the blank.
MCCreds == {[ssid |-> "home", password |-> "right"], [ssid |-> "home", password |-> "wrong"],
            [ssid |-> "away", password |-> "right"], [ssid |-> "shop", password |-> "right"],
            [ssid |-> "", password |-> "right"]}
MCRight == {[ssid |-> "home", password |-> "right"]}

=============================================================================
