\* Expiry on both clocks, one lost envelope, member payments, closing, retiring, checkpoints.
SPECIFICATION Spec
CONSTANTS
  A = A
  B = B
  None = None
  TransferId = {t1, t2}
  AdjustId = {a1}
  Seeds = {20}
  AutoAcceptSeed <- MCOnlyBAccepts
  Grant <- MCLargeGrant
  SrcAmounts = {45}
  PayAmounts = {50}
  Deltas <- MCTopUp
  Calls <- MCFaultCalls
  MaxLoss = 1
SYMMETRY Ids
INVARIANT TypeOK
INVARIANT BusyLock
INVARIANT PromiseKept
INVARIANT Conservation
INVARIANT WalletIsReserve
 
INVARIANT CommitIsAccepted
INVARIANT MirroredReserves
INVARIANT NoPayoutWithoutPayment
PROPERTY OneHistory
PROPERTY TradeKeepsK
CHECK_DEADLOCK FALSE
