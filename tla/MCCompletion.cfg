SPECIFICATION LoopSpec
CONSTANTS
  Total = 4
  MinChunkSize = 2
  MaxChunkCount = 5
  Runners = {r1, r2, r3}
  NoRunner = NoRunner
  BufferSize = 2
  DataCapacity = 2
  ItemSizes = {1, 2}
  StreamErrors = {"Retryable"}
  Faults = {"deadline"}
  WriterCapacity = 1
  MaxConsecutive = 2
  MaxFaults = 1
INVARIANT CompletionIsNoticed
