SPECIFICATION SingletonSpec
CONSTANTS
  Runners = {r1}
  BufferSize = 2
  DataCapacity = 2
  ItemSizes = {0, 1, 2, 3}
  StreamErrors = {"Retryable", "RangeUnsupported"}
  Faults = {"timeout", "short", "io"}
  Bodies = {0, 3, 5, 6, 8}
  Totals <- SingletonTotals
INVARIANT
  SuccessIsBody
PROPERTY
  SingletonEnds
CHECK_DEADLOCK FALSE
