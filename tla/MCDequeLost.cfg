SPECIFICATION Spec
CONSTANTS
  t1 = t1  t2 = t2  t3 = t3
  Threads <- MCThreads
  NoThread = NoThread
  Consumers <- MCOnlyEvents
  MaxLength = 2
SYMMETRY MCSymmetry
INVARIANT WaitsOnlyForSomething

