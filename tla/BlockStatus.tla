------------------------------ MODULE BlockStatus ------------------------------
(***************************************************************************)
(* What BlockQueue promises about one block, in the terms of its own       *)
(* QueueStatus (BlockQueue.h:59, blockStatus): an abstract specification   *)
(* without threads, locks or queues.                                       *)
(*                                                                         *)
(*   Unknown --> Ready --> Importing --> Unknown (and in the chain) or Bad *)
(*   Unknown --> UnknownParent --> Ready or Bad;  Ready --> Bad            *)
(*                                                                         *)
(* The promises: Bad is for ever and is inherited from the parent or earned*)
(* by the block itself; blocks are taken for import parents first; a block *)
(* taken for import ends in the chain or as Bad, never forgotten; a block  *)
(* enters the chain after its parent.                                      *)
(***************************************************************************)
CONSTANTS Blocks, Genesis, Parent,
          Faulty        \* the blocks that do not verify or cannot be enacted

VARIABLES status, chain

vars == <<status, chain>>

With(s) == {b \in Blocks : status[b] = s}
InChain(h) == h = Genesis \/ h \in chain
OnItsWay(h) == InChain(h) \/ h \in With("Ready") \cup With("Importing")

Init == status = [b \in Blocks |-> "Unknown"] /\ chain = {}

Become(S, s) == status' = [b \in Blocks |-> IF b \in S THEN s ELSE status[b]]

Accept(b) ==
    /\ b \in With("Unknown") /\ ~InChain(b) /\ OnItsWay(Parent[b])
    /\ Become({b}, "Ready")
    /\ UNCHANGED chain

Defer(b) ==
    /\ b \in With("Unknown") /\ ~OnItsWay(Parent[b]) /\ Parent[b] \notin With("Bad")
    /\ Become({b}, "UnknownParent")
    /\ UNCHANGED chain

\* All the blocks that wait for p.
Release(p) ==
    /\ p \in With("Ready")
    /\ Become({b \in With("UnknownParent") : Parent[b] = p}, "Ready")
    /\ UNCHANGED chain

\* Every block of S is itself at fault or has a bad parent.
Guilty(S) == \A b \in S : b \in Faulty \/ Parent[b] \in S \cup With("Bad")

Condemn(S) ==
    /\ S # {} /\ S \cap (With("Importing") \cup With("Bad") \cup chain) = {}
    /\ Guilty(S)
    /\ Become(S, "Bad")
    /\ UNCHANGED chain

\* A batch for import: nothing is taken before its parent.
Take(S) ==
    /\ S # {} /\ S \subseteq With("Ready") /\ With("Importing") = {}
    /\ \A b \in S : Parent[b] \in With("Ready") => Parent[b] \in S
    /\ Become(S, "Importing")
    /\ UNCHANGED chain

Enter(b) ==
    /\ b \in With("Importing") \ Faulty /\ ~InChain(b) /\ InChain(Parent[b])
    /\ chain' = chain \cup {b}
    /\ UNCHANGED status

\* The batch is over; S are those of it that failed and all that is lost with
\* them: whatever was not condemned is in the chain.
Finish(S) ==
    /\ With("Importing") # {}
    /\ With("Importing") \ S \subseteq chain
    /\ S \cap (With("Bad") \cup chain) = {}
    /\ Guilty(S)
    /\ status' = [b \in Blocks |-> CASE b \in S -> "Bad"
                                     [] b \in With("Importing") \ S -> "Unknown"
                                     [] OTHER -> status[b]]
    /\ UNCHANGED chain

Next == \/ \E b \in Blocks : Accept(b) \/ Defer(b) \/ Release(b) \/ Enter(b)
        \/ \E S \in SUBSET Blocks : Condemn(S) \/ Take(S) \/ Finish(S)

Spec == Init /\ [][Next]_vars
=============================================================================
