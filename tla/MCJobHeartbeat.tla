--------------------------- MODULE MCJobHeartbeat ---------------------------
EXTENDS JobHeartbeat
=============================================================================
