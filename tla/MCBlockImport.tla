----------------------------- MODULE MCBlockImport -----------------------------
(* Instances of BlockImport: the blocks a, b, c and d on the genesis block g.   *)
EXTENDS BlockImportProps
CONSTANTS a, b, c, d, g

\* A fork at a; a chain of three and a block beside it.
Fork3  == (a :> g) @@ (b :> a) @@ (c :> a)
Fork4  == (a :> g) @@ (b :> a) @@ (c :> b) @@ (d :> g)
\* Four blocks in a row.
Chain4 == (a :> g) @@ (b :> a) @@ (c :> b) @@ (d :> c)
\* Two chains on the genesis block, or three.
Two3   == (a :> g) @@ (b :> a) @@ (c :> g)
Two4   == (a :> g) @@ (b :> a) @@ (c :> g) @@ (d :> g)
\* Two blocks, b on a.
Chain2 == (a :> g) @@ (b :> a)
Late2  == (a :> 0) @@ (b :> 1)
Now3   == (a :> 0) @@ (b :> 0) @@ (c :> 0)
Late3  == (a :> 0) @@ (b :> 1) @@ (c :> 1)
Now4   == (a :> 0) @@ (b :> 0) @@ (c :> 0) @@ (d :> 0)
Late4  == (a :> 0) @@ (b :> 0) @@ (c :> 1) @@ (d :> 0)
=============================================================================
