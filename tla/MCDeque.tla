------------------------------ MODULE MCDeque ------------------------------
EXTENDS Deque, TLC
CONSTANTS t1, t2, t3
MCThreads == {t1, t2, t3}
MCSymmetry == Permutations(MCThreads)
\* Anybody pops with pthreads, one thread on Windows; or anybody on Windows.
MCConsumers == [b \in BOOLEAN |-> IF b THEN MCThreads ELSE {t1}]
MCOnlyEvents == [b \in BOOLEAN |-> IF b THEN {} ELSE MCThreads]
=============================================================================
