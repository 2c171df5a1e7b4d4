SPECIFICATION Spec
CONSTANTS
  A = A
  a0 = a0
  a0x = a0x
  a1 = a1
  Txs <- Pool
  from <- PoolFrom
  nonce <- PoolNonce
  gasPrice <- PoolPrice
  m_limit = 3
  m_futureLimit = 3
  Chains <- Fork
  MaxBatch = 2
  c_maxSyncTransactions = 2
INVARIANTS WorkConsistent OutbidIsReset
PROPERTIES ReorgKeeps
