SPECIFICATION FairSpec
CONSTANTS
  t1 = t1  t2 = t2  t3 = t3
  Threads <- MCThreads
  NoThread = NoThread
  Consumers <- MCConsumers
  MaxLength = 2
INVARIANTS WaitsOnlyForSomething QuietDuringCollect
PROPERTIES ConsumerGetsOn CollectionsGoOn
