CONSTANTS
  Chosen = {"split"}
  Frames = {f1, f2, f3, f4, f5}
  big = f1
  Tombstone = Tombstone
  Bytes <- MCBytes
  MaxQueuedWriteBytes = 5
  Threshold = 2
  MaxLength = 3
  Concurrency = 2
  SplitCommands <- MCSplitCommands
  MaxCalls = 4
  MaxCommands = 2
  BatchKeys = {"x"}
  BatchCommands <- MCBatchCommands
  Pipelines <- MCPipelines
  Unauthenticated = 2
  Required <- MCRequired
  BootOptions <- MCOptions
  Hellos <- MCHellos
  Requests = {1, 2}
  Streams <- MCStreams
  Header = 2
  MaxFramesPerDecode = 2
  CompactAt = 2
  maxFrameBytes = 2
  maxChunkBytes = 3
  maxChunkFrames = 3
  maxResponseBytes = 3
SPECIFICATION PartSpec
INVARIANTS ItemsResolvedIndependently
CHECK_DEADLOCK FALSE
