---------------------------- MODULE MCExecutive ----------------------------
(* A user, a contract, an empty account left from before EIP 158 at the    *)
(* address of a precompiled contract, and an address that is not in use.   *)
EXTENDS Executive, TLC
CONSTANTS user, dapp, relic, nobody, slot, code

Account(n, b, h) == [nonce |-> n, balance |-> b, code |-> h, storage |-> [i \in Keys |-> 0]]
Genesis == user :> Account(0, 2, EmptySHA3) @@ dapp :> Account(1, 1, code)
           @@ relic :> Account(0, 0, EmptySHA3) @@ nobody :> None
=============================================================================
