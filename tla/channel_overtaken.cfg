\* A cached reply that is resent overtakes the outbox.
SPECIFICATION Spec
CONSTANTS
  A = A
  B = B
  None = None
  MaxCalls = 2
  Callers = {A, B}
  Pullers = {}
  Hops = {0, 1}
  MaxLoose = 1
  MaxRestarts = 0
  MaxFailedSaves = 0
  Faults = {"answer"}
INVARIANT NothingSkipped
CHECK_DEADLOCK FALSE
