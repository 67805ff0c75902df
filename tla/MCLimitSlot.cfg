SPECIFICATION SlotSpec
CONSTANTS
  Limits = {1, 2, 3}
  Empty = Empty
INVARIANTS
  WakerIsExclusive
  NoLostWakeup
PROPERTIES
  IsMailbox
  ValuesArrive
CHECK_DEADLOCK FALSE
