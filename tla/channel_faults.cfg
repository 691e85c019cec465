\* Answers, lost and resent replies, pulls and envelopes that get too old.
SPECIFICATION Spec
CONSTANTS
  A = A
  B = B
  None = None
  MaxCalls = 2
  Callers = {A}
  Pullers = {B}
  Hops = {0, 1}
  MaxLoose = 1
  MaxRestarts = 0
  MaxFailedSaves = 0
  Faults = {"request", "answer", "age", "key", "clock"}
PROPERTY InOrderAtMostOnce
PROPERTY OnlyResendsOvertake
CHECK_DEADLOCK FALSE
