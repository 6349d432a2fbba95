SPECIFICATION Spec
CONSTANTS
  NoID = NoID
  None = None
  Requests = {r1, r2}
  Tokens <- MCTokens
  Messages <- MCMessages
  RouteLists <- MCRouteLists
  InitialRoutes <- MCInitialRoutes
  BackendCodes <- MCBackendCodes
INVARIANT EachRequestLogged
CHECK_DEADLOCK FALSE
