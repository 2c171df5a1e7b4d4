---------------------------- MODULE MCBlockChainDB -----------------------------
(* Instances of BlockChainDB: the blocks a, b, c and d on the genesis block g.  *)
EXTENDS BlockChainDB, TLC
CONSTANTS a, b, c, d, g

\* The chain c - d - b beside a, which is heavier than c and d; b weighs as much as
\* a and wins by its gas.
Beside     == (a :> g) @@ (c :> g) @@ (d :> c) @@ (b :> d)
BesideNum  == (g :> 0) @@ (a :> 1) @@ (c :> 1) @@ (d :> 2) @@ (b :> 3)
BesideTD   == (g :> 1) @@ (a :> 5) @@ (c :> 2) @@ (d :> 4) @@ (b :> 5)
BesideGas  == (g :> 0) @@ (a :> 0) @@ (c :> 0) @@ (d :> 0) @@ (b :> 1)
=============================================================================
