\* Two founders and one more member; a dividend of 30 percent of the supply, shared.
SPECIFICATION Spec
CONSTANTS
  Member = {m1, m2, m3}
  Founders = {m1, m2}
  Grants = {2}
  Seed = 2
  Amounts = {2}
  Deltas <- MCDeltas
  CPeriodPpm = 300000
  GenesisUD = 1
  BatchUD = {TRUE, FALSE}
  None = None
  MaxIssues = 2
INVARIANT TypeOK
INVARIANT NoDividendNeedsDebt
PROPERTY LeftIsFinal
PROPERTY DividendIsWhole
PROPERTY StaleOnlyByReserve
PROPERTY DebtOnlyByTransfer
SYMMETRY Interchangeable
CHECK_DEADLOCK FALSE
