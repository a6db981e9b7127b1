--------------------------- MODULE MCStopTheWorld ---------------------------
EXTENDS StopTheWorld, TLC
CONSTANTS t1, t2, t3, a1, a2, a3
MCThreads2 == {t1, t2}
MCThreads == {t1, t2, t3}
MCAllocs2 == {a1, a2}
MCAllocs == {a1, a2, a3}
Symmetry == Permutations(MCThreads) \cup Permutations(MCAllocs)
=============================================================================
