---------------------------- MODULE MCIndexSLock ----------------------------
EXTENDS IndexSLock, TLC

CONSTANTS t1, t2, t3

MC_Threads == {t1, t2, t3}

\* The workers are interchangeable.
MC_Symmetry == Permutations(MC_Threads)

=============================================================================
