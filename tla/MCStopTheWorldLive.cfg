\* Two threads, without symmetry: what must happen in the end.
SPECIFICATION FairSpec
CONSTANTS
  t1 = t1  t2 = t2  t3 = t3
  a1 = a1  a2 = a2  a3 = a3
  Threads <- MCThreads2
  Allocs <- MCAllocs2
  NoThread = NoThread
  NoAlloc = NoAlloc
  PoolSize = 1
  MaxFree = 1
  MaxHoles = 0
  GroupSize = 1
PROPERTIES EachWinnerCollects EachPauseEnds GetsBlock
