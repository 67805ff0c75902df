SPECIFICATION Spec
CONSTANTS
  Size = 2
  MaxRetries = 1
  MaxFaults = 2
INVARIANT DecodedIsNotWritten
