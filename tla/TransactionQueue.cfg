SPECIFICATION TQSpec
CONSTANTS
  A = A
  B = B
  a0 = a0
  a1 = a1
  a1x = a1x
  a2 = a2
  b0 = b0
  Txs <- Pool
  from <- PoolFrom
  nonce <- PoolNonce
  gasPrice <- PoolPrice
  m_limit = 2
  m_futureLimit = 1
INVARIANTS QueueConsistent
PROPERTIES NoneLost FutureWaits
