SPECIFICATION Spec
CONSTANTS
  None = None
  Tokens <- MCTokens
  Requests = {r1}
  Admins = {a1, a2}
  Paths <- MCPaths
  Bodies <- MCBodies
  InitialRoutes <- MCInitialRoutes
SYMMETRY MCSymmetry
INVARIANTS
  TypeOK
  RaceFree
  OnlyValidTables
  DispatchConsistent
  FreshTable
PROPERTY ImplementsTable
