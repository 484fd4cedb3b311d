--------------------------- MODULE MCSyncSession ---------------------------
\* The names of the application threads and of the completion handler that the
\* configurations choose from.
EXTENDS SyncSession, TLC

CONSTANTS a1, a2, h1

Symmetry == Permutations(Thread)
=============================================================================
