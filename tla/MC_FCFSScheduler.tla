--------------------------- MODULE MC_FCFSScheduler ---------------------------
EXTENDS FCFSScheduler, TLC

CONSTANTS c1, c2, c3

\* Consumer threads are interchangeable: nothing in the scheduler depends on
\* which thread is which.
ConsumerSymmetry == Permutations(Consumers)
=============================================================================
