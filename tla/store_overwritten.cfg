\* A stale writer overwrites records that are committed.
SPECIFICATION ObservedSpec
CONSTANTS
  c0 = c0
  c1 = c1
  c2 = c2
  Instance = {i1, i2}
  Change = {c1, c2}
  None = None
  Appends <- MCAppends
  MaxChunks = 2
  PutBatch = 2
  GetBatch = 2
  MaxFaults = 0
SYMMETRY Instances
INVARIANT LedgerNotForked
CHECK_DEADLOCK FALSE
