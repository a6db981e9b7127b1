SPECIFICATION Spec
CONSTANTS
  t1 = t1  t2 = t2
  b1 = b1  b2 = b2
  Threads <- MCThreads
  Blobs <- MCBlobs
  Sizes <- MCSizes
  Deltas <- MCDeltas
  Spaces <- MCSpaces
  Biggest = 2
  Slack = 1
  NoThread = NoThread  NoBlob = NoBlob
  MaxExternal = 2
SYMMETRY MCSymmetry
INVARIANTS SafeToUse Accounted GrowthBounded
