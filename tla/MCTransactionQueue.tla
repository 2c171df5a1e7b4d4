-------------------------- MODULE MCTransactionQueue --------------------------
(* Instances of TransactionQueue: transactions of the accounts A and B.         *)
EXTENDS TransactionQueue, TLC
CONSTANTS A, B, a0, a1, a1x, a2, b0

\* a0, a1 and a2 follow each other, a1x bids as much as a1 for the same nonce, and b0
\* comes from another account.
Pool      == {a0, a1, a1x, a2, b0}
PoolFrom  == [t \in Pool |-> IF t = b0 THEN B ELSE A]
PoolNonce == (a0 :> 0) @@ (a1 :> 1) @@ (a1x :> 1) @@ (a2 :> 2) @@ (b0 :> 0)
PoolPrice == (a0 :> 1) @@ (a1 :> 1) @@ (a1x :> 2) @@ (a2 :> 3) @@ (b0 :> 2)
===============================================================================
