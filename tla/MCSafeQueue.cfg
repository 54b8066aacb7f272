SPECIFICATION QueuesSpec
CONSTANTS
  Threads = {t1, t2, t3}
  Values = {v1, v2}
  Capacity = 2
  MaxPush = 3
  NoItem = NoItem
  Free = Free
  XyThreads = {h1, h2}
  XyDelays = {0, 1}
  XyEvery = 1
  MaxXyTasks = 2
  MaxXyTime = 1
CHECK_DEADLOCK FALSE
INVARIANTS NoLostWakeup ExitWakesAll SleepCoversTasks
PROPERTIES ImplementsChannel XyDueRuns XyDestructorReturns
