SPECIFICATION LogSpec
CONSTANTS
  Bufs = {x1, x2}
  Bytes = {0, 1}
  Junk = junk
  Exp = 2
  MaxCap = 8
  MaxLen = 3
  MaxSize = 3
  MaxSend = 6
  MaxConn = 2
  Texts <- MCTexts
  MaxText = 2
  MaxMsgs = 3
  Heads = {1, 2}
  Bodies = {0, 1, 3}
  MaxHttp = 2
  Lines <- MCLines
  Lower <- MCLower
  MaxLines = 3
  Months = 2
  DaysBefore <- MCDaysBefore
  Week = 3
  DayHours = 2
  HourMins = 2
  Froms = {0, 3, 7, 14, 19, 22, 39}
  MaxYear = 6
  MaxPid = 3
  MaxTries = 1
  LogThreads = {t1, t2}
  Interval = 2
  LogMinute = 1
  MaxLogTime = 5
  MaxLog = 3
  Conns = {c1, c2}
  Idles = {1, 2}
  TicksPerSec = 2
  MaxClock = 4
  Addr = {a1, a2, a3}
  Null = null
  MaxEvents = 3
  MaxBirths = 5
CHECK_DEADLOCK FALSE
INVARIANT RotatesOnOldValue
