\* Instances that follow one another or are alive at once; failing requests
\* and crashes.
SPECIFICATION FairSpec
CONSTANTS
  c0 = c0
  c1 = c1
  c2 = c2
  Instance = {i1, i2}
  Change = {c0, c1, c2}
  None = None
  Appends <- MCAppends
  MaxChunks = 2
  PutBatch = 1
  GetBatch = 1
  MaxFaults = 3
INVARIANT TypeOK
PROPERTY StoreIsAtomic
PROPERTY ComesBack
CHECK_DEADLOCK FALSE
