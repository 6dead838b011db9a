CONSTANTS
  Data = {d1, b1}
  Blocking = {b1}
  Control = {c1}
  Ping = Ping
  MaxQueuedRequests = 1
  MaxPendingControlRequests = 1
  MaxQueuedWrites = 1
  MaxChunkFrames = 1
  InitLimit = 1
  Limits = {0, 2}
SPECIFICATION FairSpec
INVARIANTS UnsentIsUnsent ServerCreditsKept NothingLeaks
PROPERTIES OnlyPingsAfterGoAway EverythingSettles
CHECK_DEADLOCK FALSE
