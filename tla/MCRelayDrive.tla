---------------------------- MODULE MCRelayDrive ----------------------------
EXTENDS RelayDrive
=============================================================================
