CONSTANTS
  Jobs = {j1, j2, j3}
  Concurrency = 2
  BatchSize = 2
  CompleteAsyncDepth = 1
  OverReturn = 1
  FuseCompleteClaim = TRUE
  None = None
  DrainBatches = 2
  WaveBatchSize = 1
  Configs <- MCConfigs
  StateNames <- MCStates
  StateOf <- MCStateOf
  ClaimLimit = 1
SPECIFICATION PartSpec
INVARIANTS WithinConcurrency EveryLeaseHandedOver CompletionsAccounted
PROPERTIES NoClaimAfterStop WorkersSettle
CHECK_DEADLOCK FALSE
