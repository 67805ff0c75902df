SPECIFICATION ControlSpec
CONSTANTS
  Capacity = 3
  MinConcurrency = 1
  DegradationStep = 1
  RecoveryStep = 1
  MinSamples = 2
  RecoveryDelay = 1
  ObservationPeriod = 1
  DetectionWindow = 1
  Rate = 4
  Per = 10
  TimeWindow = 1
  MaxRecords = 3
  NoProgress = 2
  MaxConsecutive = 2
  MaxFailures = 2
INVARIANTS
  ConcurrencyIsBounded
  IdsAreRunners
  DeadlineIsExact
  RetryBudgetIsExact
PROPERTY RecoversFully
CHECK_DEADLOCK FALSE
