CONSTANTS
  c1 = c1
  c2 = c2
  Calls <- MCCalls
  Modes <- MCModes
  Seed = "seed"
  Learned = {"learned", "stranger"}
  Trusted = {"seed", "learned"}
  Views <- MCViews
  Sockets = {1, 2, 3, 4}
  MaxMoves = 1
  MaxPlanning = 2
  MaxEvents = 1
  p1 = p1
  a1 = a1
  q1 = q1
  MaxRetries = 2
  MaxMade = 3
  Batches = {1, 2, 3}
  MaxConnections = 2
  RemoteLimits = {1, 3}
  MaxRedirects = 1
  MaxDetours = 1
  MaxSessionFaults = 1
SPECIFICATION PartSpec
INVARIANTS ExecutedOnce AdaptersAreKept NeverReplayed OneLiveConnection SlotsConserved ExecutedAsReported
PROPERTIES SentToOwner ExecutorsSettle
CHECK_DEADLOCK FALSE
