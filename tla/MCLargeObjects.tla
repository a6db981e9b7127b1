--------------------------- MODULE MCLargeObjects ---------------------------
(* Two threads, requests of two sizes for two blobs, and memory outside    *)
(* the heap.                                                               *)
EXTENDS LargeObjects, TLC

CONSTANTS t1, t2, b1, b2

MCThreads == {t1, t2}
MCBlobs == {b1, b2}
MCSizes == {1, 2}
MCDeltas == {1}
MCSpaces == {1}
MCSymmetry == Permutations(MCThreads) \union Permutations(MCBlobs)
=============================================================================
