--------------------------- MODULE MCMenuSessions ---------------------------
EXTENDS MenuSessions, TLC
CONSTANT e1
=============================================================================
