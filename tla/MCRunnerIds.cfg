SPECIFICATION LoopSpec
CONSTANTS
  Total = 5
  MinChunkSize = 2
  MaxChunkCount = 6
  Runners = {r1, r2, r3}
  NoRunner = NoRunner
  BufferSize = 2
  DataCapacity = 1
  ItemSizes = {2}
  StreamErrors = {}
  Faults = {}
  WriterCapacity = 1
  MaxConsecutive = 2
  MaxFaults = 1
INVARIANT NeverOutOfIds
