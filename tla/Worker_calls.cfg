SPECIFICATION Spec
CONSTANTS
  Workers = {w1, w2}
  Callers = {c1, c2}
  NoOne = NoOne
INVARIANTS StoppedIsIdle StartIsNotSwallowed KillIsKept
PROPERTY EveryCallReturns
