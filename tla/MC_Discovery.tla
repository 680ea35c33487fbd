----------------------------- MODULE MC_Discovery -----------------------------
EXTENDS Discovery
=============================================================================
