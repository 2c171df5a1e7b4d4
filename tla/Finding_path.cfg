SPECIFICATION ProofSpec
CONSTANTS
  TxCounts = {257, 258}
  Samples = {0, 1, 16, 256, 257}
INVARIANT VerifiedIsAtPath
CHECK_DEADLOCK FALSE
