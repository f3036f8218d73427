----------------------------- MODULE MCDriveEvents -----------------------------
EXTENDS DriveEvents
==============================================================================
