\* Two rotations and one more envelope, a restart, a Save that fails.
SPECIFICATION FairSpec
CONSTANTS
  None = None
  MaxKeys = 3
  MaxMade = 5
  MaxRestarts = 1
  MaxFailedSaves = 1
INVARIANT TypeOK
PROPERTY TrustConverges
 
CHECK_DEADLOCK FALSE
