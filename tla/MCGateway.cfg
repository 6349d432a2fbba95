SPECIFICATION Spec
CONSTANTS
  NoID = NoID
  None = None
  Requests = {r1, r2}
  Tokens <- MCTokens
  Messages <- MCMessages
  RouteLists <- MCRouteLists
  InitialRoutes <- MCInitialRoutes
  BackendCodes <- MCBackendCodes
SYMMETRY MCSymmetry
INVARIANTS
  TypeOK
  ObserversAgree
  MetricsMatchLog
  OneCorrelationID
  SpansNest
  OneTrace
  OwnPathsStayLocal
PROPERTY ImplementsLedger
CHECK_DEADLOCK FALSE
