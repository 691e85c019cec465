\* Crossing transfers, expiry, a withdrawal, closing and retiring; every envelope arrives.
SPECIFICATION FairSpec
CONSTANTS
  A = A
  B = B
  None = None
  TransferId = {t1, t2}
  AdjustId = {a1}
  Seeds = {20}
  AutoAcceptSeed <- MCOnlyBAccepts
  Grant <- MCGrant
  SrcAmounts = {5}
  PayAmounts = {}
  Deltas <- MCWithdraw
  Calls <- MCCoreCalls
  MaxLoss = 0
INVARIANT SeqDecidesPrice
PROPERTY OperationEnds
CHECK_DEADLOCK FALSE
