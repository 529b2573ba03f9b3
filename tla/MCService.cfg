CONSTANTS
  Job = {j1, j2, j3}
  MaxSize <- MCMaxSize
  MaxWaiting <- MCMaxWaiting
SPECIFICATION ServiceSpec
CHECK_DEADLOCK FALSE
INVARIANTS
  AuditsEndBeforeThePool
  ConnectionsReturn
PROPERTY EverythingEnds
