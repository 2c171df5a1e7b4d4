------------------------------ MODULE ChainStore -------------------------------
(* What the database of the block chain promises, whatever is cached, read or   *)
(* interrupted: a set of blocks that is closed under parents and only grows,    *)
(* and the best block, which is one of them. The best block changes in two      *)
(* ways only: for a better one, or, on request, for one of a lower number.      *)
EXTENDS Naturals
CONSTANTS Nodes, Genesis, Parent, Number, Better(_, _)

VARIABLES
    stored, best,
    returns     \* how often the chain has gone back on request

Init == stored = {Genesis} /\ best = Genesis /\ returns = 0

Store(h) ==
    /\ Parent[h] \in stored
    /\ stored' = stored \cup {h}
    /\ UNCHANGED <<best, returns>>

Adopt(h) ==
    /\ h \in stored
    /\ Better(h, best)
    /\ best' = h
    /\ UNCHANGED <<stored, returns>>

GoBack(h) ==
    /\ h \in stored
    /\ Number[h] < Number[best]
    /\ best' = h
    /\ returns' = returns + 1
    /\ UNCHANGED stored

Next ==
    \/ \E h \in Nodes \ {Genesis} : Store(h)
    \/ \E h \in Nodes : Adopt(h) \/ GoBack(h)

Spec == Init /\ [][Next]_<<stored, best, returns>>
=============================================================================
