CONSTANTS
  visitor = visitor
  Thread = {t1, t2}
  Ip <- MCIp
  NoIp = NoIp
  Unknown = Unknown
  NoWindow = NoWindow
  Idle = Idle
  Limit = 2
  Window = 3
  TicksPerSecond = 2
  Horizon = 5
  MaxCalls = 6
SPECIFICATION Spec
SYMMETRY Threads
CHECK_DEADLOCK FALSE
INVARIANTS
  AtMostTwiceTheLimit
  RetryAfterSuffices
