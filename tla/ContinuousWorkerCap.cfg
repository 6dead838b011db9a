SPECIFICATION FairSpec
CONSTANTS
  Jobs = {j1, j2, j3}
  Concurrency = 2
  BatchSize = 2
  CompleteAsyncDepth = 1
  OverReturn = 1
  FuseCompleteClaim = TRUE
  None = None
CHECK_DEADLOCK FALSE

PROPERTY ClaimsAreCapped
