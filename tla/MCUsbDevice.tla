---------------------------- MODULE MCUsbDevice ----------------------------
EXTENDS UsbDevice

=============================================================================
