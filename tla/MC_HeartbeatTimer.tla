--------------------------- MODULE MC_HeartbeatTimer ---------------------------
EXTENDS HeartbeatTimer
=============================================================================
