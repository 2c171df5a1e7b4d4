SPECIFICATION Spec
CONSTANTS
  a = a
  b = b
  c = c
  d = d
  g = g
  Blocks = {a, b, c, d}
  Genesis = g
  Parent <- Fork4
  Timestamp <- Late4
  Invalid = {c}
  InvalidState = {a}
  Ours = {}
  Verifiers = {v1, v2}
  NoBlock = NoBlock
  EmptyListSHA3 = EmptyListSHA3
  c_maxKnownCount = 1
  m_syncAmount = 2
  MaxTime = 1
  MaxFuture = 1
  MaxTransients = 1
  MaxClears = 0
  MaxRetries = 1
  MayStop = FALSE
INVARIANTS Consistent 
CHECK_DEADLOCK FALSE
