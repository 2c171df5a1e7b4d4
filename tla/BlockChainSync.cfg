SPECIFICATION FairSpec
CONSTANTS
  g = g
  x1 = x1
  x2 = x2
  a3 = a3
  b3 = b3
  b4 = b4
  b5 = b5
  Blocks <- Tree
  Genesis = g
  Parent <- Up
  number <- Level
  difficulty <- Work
  Body <- Content
  EmptyBody = EmptyBody
  Peers = {p1, p2}
  Heads <- Ahead
  Starts <- Ours
  Nothing = Nothing
  c_maxKnownCount = 1
INVARIANTS SyncConsistent LastIsKnown
PROPERTIES LastAdvances 
CHECK_DEADLOCK FALSE
