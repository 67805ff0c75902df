SPECIFICATION WatchSpec
CONSTANTS
  Publishers = {p1, p2}
  Receivers = {r1, r2}
  First = r1
  Nobody = Nobody
  Wanted = {2}
  MaxSends = 2
INVARIANTS
  NoLostUpdate
  ClosedAfterLast
PROPERTIES
  IsRegister
  UpdatesArrive
CHECK_DEADLOCK FALSE
