SPECIFICATION FairSpec
CONSTANTS
  Programs <- SafePrograms
  MaxAttempts = 4
  MaxCloses = 3
CHECK_DEADLOCK FALSE
INVARIANTS TimeoutIsCurrent ReleasedAtEnd
PROPERTIES CloseCloses Reconnects
