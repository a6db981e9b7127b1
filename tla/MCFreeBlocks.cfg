SPECIFICATION FairSpec
CONSTANTS
  t1 = t1  t2 = t2
  Threads <- MCThreads
  Workers <- MCWorkers
  NoBlock = NoBlock
  BlockCount = 3
  MinQueue = 2
  MaxQueue = 2
  LazyReclaim = FALSE
INVARIANTS FreeInv OneOwner ObjectsSurvive QueueCounts NullMeansNone QuietDuringCollect
PROPERTY CollectorGetsOn
