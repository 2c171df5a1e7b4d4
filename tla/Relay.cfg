SPECIFICATION RelaySpec
CONSTANTS
  Runs = {r1, r2, r3}
  BlockNumbers = {2, 3, 4}
  EPOCH_LENGTH = 3
  Chunks = 2
  MaxFaults = 1
  NoData = NoData
  NoBlock = NoBlock
  TxCounts = {1, 2, 17, 18, 33, 129, 130, 145, 257, 258, 273}
  Samples = {0, 1, 15, 16, 17, 32, 127, 128, 129, 144, 256, 257, 272}
INVARIANTS SettledFileIsWhole NothingForeign 
PROPERTY ProofIsAccepted
CHECK_DEADLOCK FALSE
