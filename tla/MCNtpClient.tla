---------------------------- MODULE MCNtpClient ----------------------------
EXTENDS NtpClient

=============================================================================
