SPECIFICATION ServerSpec
CONSTANTS
  s1 = s1
  s2 = s2
  u1 = u1
  u2 = u2
  NBases = 2
  TaskCapacity = 1
  Socks = {s1, s2}
  Udps = {u1, u2}
CHECK_DEADLOCK FALSE
INVARIANTS PostedIsDone
PROPERTIES ClientServed ServerReturns
