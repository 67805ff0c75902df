SPECIFICATION FairLifecycleSpec
CONSTANT Length = 2
INVARIANTS
  FinishedIsCommitted
  NothingLeftBehind
PROPERTIES
  TerminalIsLast
  StartsOverOnlyToFallBack
  CancelledNeverCommits
  CancelEnds
CHECK_DEADLOCK FALSE
