SPECIFICATION Spec
CONSTANTS
  Offsets = {1, 3}
  Intervals = {0, 2}
  MaxWait = 2
  IntMax = 15
  Start = 1
  MaxTime = 5
  MaxRunAt = 2
  CancelTwice = TRUE
CHECK_DEADLOCK FALSE
INVARIANT CancelOfGoneTimerIgnored
