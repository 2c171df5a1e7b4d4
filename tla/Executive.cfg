SPECIFICATION Spec
CONSTANTS
  user = user
  dapp = dapp
  relic = relic
  nobody = nobody
  slot = slot
  code = code
  None = None
  EmptySHA3 = EmptySHA3
  Address = {user, dapp, relic, nobody}
  Keys = {slot}
  Values = {0, 1}
  Codes = {code}
  Word = 4
  CacheLimit = 1
  Senders = {user}
  Precompiled = {relic}
  Amounts = {0, 1}
  GasCosts = {1}
  EIP158 = TRUE
  genesis <- Genesis
  DepthLimit = 1
  MaxLog = 7
  MaxTransactions = 1
INVARIANT NoMoneyFromNothing
PROPERTY StateImplementsWorld
CHECK_DEADLOCK FALSE
