---------------------------- MODULE MCFreeBlocks ----------------------------
EXTENDS FreeBlocks, TLC
CONSTANTS t1, t2
MCThreads == {t1, t2}
MCWorkers == {0}
MCSymmetry == Permutations(MCThreads)
=============================================================================
