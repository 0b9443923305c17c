--------------------------- MODULE MCHeartbeatLoop ---------------------------
EXTENDS HeartbeatLoop

=============================================================================
