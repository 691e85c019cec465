\* One direction: requests and answers lost, late or repeated, pulls, age, a restart, a failed Save.
SPECIFICATION FairSpec
CONSTANTS
  A = A
  B = B
  None = None
  MaxCalls = 2
  Callers = {A}
  Pullers = {A, B}
  Hops = {0}
  MaxLoose = 1
  MaxRestarts = 1
  MaxFailedSaves = 1
  Faults = {"request", "answer", "key", "clock"}
INVARIANT TypeOK
INVARIANT NothingSkipped
INVARIANT AckedIsDurable
PROPERTY AllProcessed
CHECK_DEADLOCK FALSE
PROPERTY PrunedIsPassed
