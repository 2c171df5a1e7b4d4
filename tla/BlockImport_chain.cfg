SPECIFICATION Spec
CONSTANTS
  a = a
  b = b
  c = c
  d = d
  g = g
  Blocks = {a, b, c, d}
  Genesis = g
  Parent <- Chain4
  Timestamp <- Now4
  Invalid = {d}
  InvalidState = {c}
  Ours = {}
  Verifiers = {v1, v2}
  NoBlock = NoBlock
  EmptyListSHA3 = EmptyListSHA3
  c_maxKnownCount = 1
  m_syncAmount = 2
  MaxTime = 0
  MaxFuture = 1
  MaxTransients = 0
  MaxClears = 0
  MaxRetries = 0
  MayStop = FALSE
INVARIANTS ParentsFirst ReadyIsQueued 
PROPERTY StatusSpec
CHECK_DEADLOCK FALSE
