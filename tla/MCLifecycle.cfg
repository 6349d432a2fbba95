SPECIFICATION FairSpec
CONSTANT Requests = {r1, r2}
INVARIANTS
  TypeOK
  ExitStatusTruthful
  OrderlyStopDrains
  ReadinessWithdrawn
  BootLineFirst
PROPERTIES
  StopsOnSignal
  ServeFailureEnds
CHECK_DEADLOCK FALSE
