\* A committed transfer keeps the payer busy for ever.
SPECIFICATION FairSpec
CONSTANTS
  A = A
  B = B
  None = None
  TransferId = {t1}
  AdjustId = {}
  Seeds = {20}
  AutoAcceptSeed <- MCOnlyBAccepts
  Grant <- MCGrant
  SrcAmounts = {5}
  PayAmounts = {}
  Deltas <- MCNoDelta
  Calls <- MCPinnedCalls
  MaxLoss = 0
PROPERTY LockIsFreed
CHECK_DEADLOCK FALSE
