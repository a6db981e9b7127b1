SPECIFICATION Spec
CONSTANTS
  t1 = t1  t2 = t2
  Threads <- MCThreads
  Workers <- MCWorkers
  NoBlock = NoBlock
  BlockCount = 5
  MinQueue = 2
  MaxQueue = 3
  LazyReclaim = FALSE
SYMMETRY MCSymmetry
INVARIANT KeepsAhead
