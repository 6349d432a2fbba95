SPECIFICATION Spec
CONSTANTS
  Tokens <- MCTokens
  Specs <- MCSpecs
  Paths <- MCPaths
  MaxFlags = 4
INVARIANTS
  TypeOK
  LongestPrefixWins
  FlagOrderIrrelevant
  ProxyMapAgrees
  SplitsAtFirstArrow
  RoutesStable
CHECK_DEADLOCK FALSE
