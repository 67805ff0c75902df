SPECIFICATION LoopSpec
CONSTANTS
  Total = 4
  MinChunkSize = 2
  MaxChunkCount = 5
  Runners = {r1, r2, r3}
  NoRunner = NoRunner
  BufferSize = 2
  DataCapacity = 1
  ItemSizes = {2}
  StreamErrors = {"Retryable"}
  Faults = {"short", "lost"}
  WriterCapacity = 1
  MaxConsecutive = 2
  MaxFaults = 1
INVARIANTS
  NoOverlap
  LimitIsChunk
  TablesAgree
  FramesInOrder
  SuccessIsDelivered
  BytesInPlace
  SuccessIsWholeFile
PROPERTIES
  PlannerSpec
  NothingDropped
CHECK_DEADLOCK FALSE
