SPECIFICATION FairSpec
CONSTANTS
  None = None
  Requests = {r1, r2}
  Prefixes = {"/a", "/b"}
  Tables <- MCTables
  InitialTable <- Shared
  PoolFlag = 1
  IdleFlag = 0
  TimeoutFlag = 5
  MaxReplace = 1
  MaxDials = 2
  MaxStreams = 2
  MaxConns = 4
INVARIANT PerBackendPoolBound
