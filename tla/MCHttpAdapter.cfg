SPECIFICATION Spec
CONSTANTS
  Size = 3
  MaxRetries = 1
  MaxFaults = 2
INVARIANTS
  RangedFileIsResource
  FullFileIsResource
PROPERTY TransferEnds
