\* Three threads and three allocators, one of which fits in the pool.
SPECIFICATION Spec
CONSTANTS
  t1 = t1  t2 = t2  t3 = t3
  a1 = a1  a2 = a2  a3 = a3
  Threads <- MCThreads
  Allocs <- MCAllocs
  NoThread = NoThread
  NoAlloc = NoAlloc
  PoolSize = 1
  MaxFree = 2
  MaxHoles = 1
  GroupSize = 1
SYMMETRY Symmetry
INVARIANTS IInv WorldStopped NoStaleRange StopSticks WakeupReaches PausedHasReleaser
PROPERTY ImplementsWorldStop
