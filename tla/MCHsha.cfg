SPECIFICATION HshaSpec
CONSTANTS
  w1 = w1
  w2 = w2
  loop1 = loop1
  tcp1 = tcp1
  udp1 = udp1
  Threads = {w1, w2, loop1}
  Workers = {w1, w2}
  Main = loop1
  Peers = {tcp1, udp1}
  Udp = {udp1}
  Values = {1, 2}
  Capacity = 0
  MaxPush = 2
  PipeCap = 2
  ReadMax = 1
  NoItem = NoItem
  Free = Free
CHECK_DEADLOCK FALSE
INVARIANTS NoAnswerLost
PROPERTIES MessageAnswered LoopReturns
