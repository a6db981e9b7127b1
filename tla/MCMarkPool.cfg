SPECIFICATION FairSpec
CONSTANTS
  o1 = o1  o2 = o2  o3 = o3  o4 = o4  o5 = o5  o6 = o6
  Workers <- MCWorkers
  Objects <- MCObjects
  Refs <- MCRefs
  RootChunks <- MCRoots
  ChunkSize = 2
  SplitAbove = 1
  SplitBy = 1
  BlockCount = 2
INVARIANTS MarkInv NoLostWake NothingForgotten MarkingIsOver EachBlockOnce
PROPERTIES ImplementsMarking MarkEnds ReclaimEnds
