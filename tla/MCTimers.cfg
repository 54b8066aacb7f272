SPECIFICATION FairSpec
CONSTANTS
  Offsets = {1, 3}
  Intervals = {0, 2}
  MaxWait = 2
  IntMax = 15
  Start = 1
  MaxTime = 5
  MaxRunAt = 2
  CancelTwice = FALSE
CHECK_DEADLOCK FALSE
INVARIANTS RepeatingTimersIntact CatchesUp WaitIsRight
PROPERTIES DueTimerFires
