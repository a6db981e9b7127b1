SPECIFICATION Spec
CONSTANTS
  t1 = t1  t2 = t2
  Threads <- MCThreads
  Workers <- MCWorkers
  NoBlock = NoBlock
  BlockCount = 2
  MinQueue = 1
  MaxQueue = 2
  LazyReclaim = TRUE
SYMMETRY MCSymmetry
INVARIANT ObjectsSurvive
