SPECIFICATION WriterSpec
CONSTANTS
  Count = 3
  Parts = 2
  Capacity = 2
  QueueSize = 1
  Workers = {k1, k2}
  Single = k1
  Faults = {"open", "spawn", "drop", "write", "panic", "sync"}
  MaxFaults = 1
INVARIANTS
  WritesAreAccounted
  PendingIsNotStranded
  SuccessIsOnDisk
  NobodyIsLeft
PROPERTIES
  FinishEnds
CHECK_DEADLOCK FALSE
