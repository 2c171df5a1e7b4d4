SPECIFICATION Spec
CONSTANTS
    a = a b = b c = c d = d g = g
    Blocks = {a, b}
    Genesis = g
    Parent <- Chain2
    Timestamp <- Late2
    Invalid = {}
    InvalidState = {}
    Ours = {b}
    Verifiers = {v1, v2}
    NoBlock = NoBlock
    EmptyListSHA3 = EmptyListSHA3
    c_maxKnownCount = 1
    m_syncAmount = 2
    MaxTime = 1
    MaxFuture = 1
    MaxTransients = 0
    MaxClears = 1
    MaxRetries = 0
    MayStop = TRUE
INVARIANTS WorkIsTaken DifficultyCovers
PROPERTIES EveryBlockVerified StopReturns
CHECK_DEADLOCK FALSE
