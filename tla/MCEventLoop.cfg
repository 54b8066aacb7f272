SPECIFICATION FairSpec
CONSTANTS
  c1 = c1
  c2 = c2
  Clients = {c1, c2}
  Loop = Loop
  TaskCap = 2
  PipeCap = 3
  ReadMax = 2
  MaxPost = 4
CHECK_DEADLOCK FALSE
INVARIANTS TaskHasWakeup NoTaskLostAtExit
PROPERTIES ClientReturns
