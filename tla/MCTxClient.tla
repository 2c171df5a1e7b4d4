------------------------------ MODULE MCTxClient ------------------------------
(* Instances of TxClient: transactions of one account, and a few chains.        *)
EXTENDS TxClient, TLC
CONSTANTS A, a0, a0x, a1

\* a0x bids more than a0 for the same nonce, and a1 follows either.
Pool      == {a0, a0x, a1}
PoolFrom  == [t \in Pool |-> A]
PoolNonce == (a0 :> 0) @@ (a0x :> 0) @@ (a1 :> 1)
PoolPrice == (a0 :> 1) @@ (a0x :> 2) @@ (a1 :> 1)

\* A chain of one block, and a longer one beside it with another transaction.
Fork == {<< <<a0>> >>, << <<>> >>, << <<>>, <<a0x>> >>}
===============================================================================
