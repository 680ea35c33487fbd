------------------------- MODULE MC_ReliableTransfer -------------------------
EXTENDS ReliableTransfer
=============================================================================
