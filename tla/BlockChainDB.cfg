SPECIFICATION Spec
CONSTANTS
  a = a
  b = b
  c = c
  d = d
  g = g
  Blocks = {a, b, c, d}
  Genesis = g
  Parent <- Beside
  Number <- BesideNum
  totalDifficulty <- BesideTD
  gasUsed <- BesideGas
  Readers = {r}
  None = None
  MaxCrashes = 1
  MaxRewinds = 1
INVARIANTS StoreIsWhole ParentStaysCached HeadIsHeaviest IndexIsCanonical RouteIsExact
PROPERTY StoreSpec
CHECK_DEADLOCK FALSE
