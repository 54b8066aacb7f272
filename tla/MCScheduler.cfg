SPECIFICATION FairSpec
CONSTANTS
  Workers = {w1, w2}
  Free = Free
  NoJob = NoJob
  Main = Main
  Delays = {1}
  Period = 1
  MaxTasks = 2
  MaxTime = 1
CHECK_DEADLOCK FALSE
INVARIANTS OneInstance DestructorDrains
PROPERTIES DueTaskRuns DestructorReturns
