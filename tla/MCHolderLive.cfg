SPECIFICATION FairSpec
CONSTANTS
  None = None
  Tokens <- MCTokens
  Requests = {r1}
  Admins = {a1, a2}
  Paths <- MCPathsOne
  Bodies <- MCBodiesLive
  InitialRoutes <- MCInitialOne
PROPERTY EveryCallAnswered
