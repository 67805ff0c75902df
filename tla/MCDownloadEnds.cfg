SPECIFICATION FairLoopSpec
CONSTANTS
  Total = 2
  MinChunkSize = 2
  MaxChunkCount = 3
  Runners = {r1, r2, r3}
  NoRunner = NoRunner
  BufferSize = 1
  DataCapacity = 1
  ItemSizes = {1}
  StreamErrors = {"Retryable", "Congestion", "RangeUnsupported"}
  Faults = {"timeout", "short", "lost", "cancel", "deadline", "spawn", "write", "degrade"}
  WriterCapacity = 1
  MaxConsecutive = 2
  MaxFaults = 1
INVARIANT SuccessIsWholeFile
PROPERTY DownloadEnds
CHECK_DEADLOCK FALSE
