------------------------------ MODULE MCWs2812 ------------------------------
EXTENDS Ws2812

=============================================================================
