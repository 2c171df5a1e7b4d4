--------------------------- MODULE MCBlockChainSync ---------------------------
(* An instance of BlockChainSync: the client's chain and a longer one of all    *)
(* peers, which fork above block 2; a peer may be one block behind the others.  *)
EXTENDS BlockChainSync
CONSTANTS g, x1, x2, a3, b3, b4, b5

Tree == {x1, x2, a3, b3, b4, b5}
Up == (x1 :> g) @@ (x2 :> x1) @@ (a3 :> x2) @@ (b3 :> x2) @@ (b4 :> b3) @@ (b5 :> b4)
Level == (g :> 0) @@ (x1 :> 1) @@ (x2 :> 2) @@ (a3 :> 3) @@ (b3 :> 3) @@ (b4 :> 4) @@ (b5 :> 5)
Work == [b \in Tree \cup {g} |-> 2]
\* One block of the other chain has neither transactions nor uncles.
Content == [b \in Tree |-> IF b = b3 THEN EmptyBody ELSE b]
Ahead == {b4, b5}
Ours == {a3}
===============================================================================
