--------------------------- MODULE TransactionQueue ---------------------------
(***************************************************************************)
(* TransactionQueue: the transactions that wait for a block, under m_lock. *)
(*                                                                         *)
(* A queued transaction is current, and will be offered to the pending     *)
(* block, or future, and waits for one with a lower nonce.  Every public   *)
(* operation holds m_lock throughout and is one action; any thread may     *)
(* call any of them at any time (TxClient composes the threads that do).   *)
(*                                                                         *)
(* m_current and m_currentByHash are filled and emptied by the same        *)
(* statements and are the one set current; m_currentByAddressAndNonce has  *)
(* one entry per slot, an account and a nonce, and is the set byNonce of   *)
(* what its entries point to; m_future is the set future.                  *)
(*                                                                         *)
(* m_current is a red-black tree sorted by PriorityCompare, whose results  *)
(* change when the lowest nonce of an account does.  order is the order of *)
(* its iteration: a new element lands between two neighbours that it       *)
(* compares rightly with, which of several such places depends on the shape*)
(* of the tree.                                                            *)
(***************************************************************************)
EXTENDS Integers, FiniteSets

CONSTANTS
    Txs,            \* the transactions, by hash
    from, nonce, gasPrice,  \* functions of a transaction
    m_limit, m_futureLimit

ASSUME TransactionAssumption ==
    /\ IsFiniteSet(Txs)
    /\ nonce \in [Txs -> Nat] /\ gasPrice \in [Txs -> Nat] /\ DOMAIN from = Txs
    /\ m_limit \in Nat /\ m_futureLimit \in Nat

VARIABLES
    m_known, m_dropped,
    current, order, byNonce,
    future, m_futureSize

tqVars == <<m_known, m_dropped, current, order, byNonce, future, m_futureSize>>

TQInit ==
    /\ m_known = {} /\ m_dropped = {}
    /\ current = {} /\ order = {} /\ byNonce = {}
    /\ future = {} /\ m_futureSize = 0

-----------------------------------------------------------------------------
SameSlot(t, u) == from[t] = from[u] /\ nonce[t] = nonce[u]
InSlot(S, t) == {u \in S : SameSlot(t, u)}

\* PriorityCompare: the height of a nonce above the lowest of its account in the
\* index I, then the gas price.
Height(I, t) ==
    nonce[t] - nonce[CHOOSE u \in I : /\ from[u] = from[t]
                                      /\ \A v \in I : from[v] = from[t] => nonce[u] <= nonce[v]]
PriorityCompare(I, t, u) ==
    \/ Height(I, t) < Height(I, u)
    \/ Height(I, t) = Height(I, u) /\ gasPrice[t] > gasPrice[u]

\* What may come before a place in the order.
Prefixes(S, ord) == {S} \cup {{u \in S : <<u, t>> \in ord} : t \in S}

\* Every order that results from emplacing the transactions of new, lowest nonce
\* first, among those of S: before[t] are the ones t is put behind.
Emplaced(S, ord, new, I) ==
    LET There(t) == S \cup {u \in new : nonce[u] < nonce[t]}
        Joined(before) ==
            ord \cup UNION {(before[t] \X {t}) \cup ({t} \X (There(t) \ before[t])) : t \in new}
        Fits(B, A, t, o) ==
            /\ B \X A \subseteq o
            /\ \A u \in B : (\A v \in B : u = v \/ <<v, u>> \in o) => ~PriorityCompare(I, t, u)
            /\ \A u \in A : (\A v \in A : u = v \/ <<u, v>> \in o) => PriorityCompare(I, t, u)
        Places == {f \in [new -> {P \cup N : P \in Prefixes(S, ord), N \in SUBSET new}] :
                      \A t \in new : f[t] \subseteq There(t)}
    IN  {Joined(f) : f \in {g \in Places : LET o == Joined(g) IN
                               \A t \in new : Fits(g[t], There(t) \ g[t], t, o)}}

\* What is left of the order.  Fault: everything.
Among_all(ord, S) == ord
Among(ord, S) == ord \cap (S \X S)

\* m_currentByAddressAndNonce[...].insert(...), then inserted.first->second = handle.
\* Fault: only the transaction with the lowest nonce is indexed.
Indexed_lowest(I, new) ==
    {u \in I : \A t \in new : ~SameSlot(t, u)} \cup
    {t \in new : \A u \in new : nonce[t] <= nonce[u]}
Indexed(I, new) == {u \in I : \A t \in new : ~SameSlot(t, u)} \cup new

\* makeCurrent_WITH_LOCK(t): what it moves from the futures F, which follow t without
\* a gap, ...
\* Fault: a gap is jumped.
Following_gap(F, t) == {u \in F : from[u] = from[t] /\ nonce[u] > nonce[t]}
Following(F, t) ==
    {u \in F : /\ from[u] = from[t] /\ nonce[u] > nonce[t]
               /\ \A n \in (nonce[t] + 1)..nonce[u] :
                     \E v \in F : from[v] = from[t] /\ nonce[v] = n}

\* ... and what it leaves of them when they are counted size: the last ones of one
\* account after the other go, in the order in which the hash map has the accounts.
Trimmed(F, size) ==
    IF size <= m_futureLimit THEN {F}
    ELSE {K \in SUBSET F :
            /\ Cardinality(F \ K) = size - m_futureLimit
            /\ \A u \in K, v \in F \ K : from[u] = from[v] => nonce[u] < nonce[v]
            /\ \A u, v \in K : (\E x, y \in F \ K : from[x] = from[u] /\ from[y] = from[v])
                                    => from[u] = from[v]}
\* Fault: what goes is not counted.
SizeTrimmed_all(size) == size
SizeTrimmed(size) == IF size <= m_futureLimit THEN size ELSE m_futureLimit

\* What manageImport_WITH_LOCK leaves of m_current: the first m_limit.
\* Fault: it stops one too early.
Best_one(S, ord) ==
    IF Cardinality(S) <= m_limit + 1 THEN {S}
    ELSE {K \in SUBSET S : Cardinality(K) = m_limit + 1 /\ K \X (S \ K) \subseteq ord}
Best(S, ord) ==
    IF Cardinality(S) <= m_limit THEN {S}
    ELSE {K \in SUBSET S : Cardinality(K) = m_limit /\ K \X (S \ K) \subseteq ord}

-----------------------------------------------------------------------------
(* The operations.                                                          *)

\* check_WITH_LOCK.
Admitted(t, retry) == t \notin m_known /\ (t \notin m_dropped \/ retry)

\* The queued transactions that t has to outbid.
\* Faults: a future transaction in the slot of t is overlooked; the next nonce is taken
\* for the same.
Rivals_next(t) ==
    [current |-> {u \in byNonce : from[u] = from[t] /\ nonce[u] \in {nonce[t], nonce[t] + 1}},
     future |-> InSlot(future, t)]
Rivals_current(t) == [current |-> InSlot(byNonce, t), future |-> {}]
Rivals(t) == [current |-> InSlot(byNonce, t), future |-> InSlot(future, t)]

\* No lower bid than a rival's.  Fault: only rivals that are current are asked.
Outbids_current(t) == \A u \in Rivals(t).current : gasPrice[t] >= gasPrice[u]
Outbids(t) == \A u \in Rivals(t).current \cup Rivals(t).future : gasPrice[t] >= gasPrice[u]

\* import(): the transaction replaces its rivals, is queued with the futures that
\* follow it, and both sets are cut to their limits.  It returns Success even for one
\* that is cut off again.  When import() refuses the transaction nothing changes: a
\* slot has one rival at most, so none is removed before another refuses.
import(t, retry) ==
    LET rivals == Rivals(t)
        waiting == future \ rivals.future
        new == {t} \cup Following(waiting, t)
        index == Indexed(byNonce \ rivals.current, new)
        queued == (current \ rivals.current) \cup new
        size == m_futureSize - Cardinality(rivals.future) - Cardinality(new \ {t})
    IN  /\ Admitted(t, retry) /\ Outbids(t)
        /\ \E ord \in Emplaced(current \ rivals.current,
                               Among(order, current \ rivals.current), new, index) :
              \E best \in Best(queued, ord) :
                 /\ current' = best
                 /\ order' = Among(ord, best)
                 /\ byNonce' = index \ (queued \ best)
                 /\ m_known' = ((m_known \ rivals.current) \cup {t}) \ (queued \ best)
        /\ future' \in Trimmed(waiting \ new, size)
        /\ m_futureSize' = SizeTrimmed(size)
        /\ UNCHANGED m_dropped

\* What setFuture moves: t and what its account has above it.
FromOn(t) == {u \in byNonce : from[u] = from[t] /\ nonce[u] >= nonce[t]}

\* setFuture(): emplace() leaves a slot alone that is taken.  m_futureLimit is not
\* looked at.
setFuture(t) ==
    LET moved == FromOn(t)
    IN  /\ t \in current
        /\ current' = current \ moved
        /\ order' = Among(order, current')
        /\ byNonce' = byNonce \ moved
        /\ future' = future \cup {u \in moved : InSlot(future, u) = {}}
        /\ m_futureSize' = m_futureSize + Cardinality(moved)
        /\ UNCHANGED <<m_known, m_dropped>>

\* What remove_WITH_LOCK takes out when it is called for t: only m_currentByHash is
\* searched.  Fault: it forgets t wherever it is.
Forgotten_any(t) == {t}
Forgotten(t) == current \cap {t}

\* drop().  A future transaction is marked, and stays.
drop(t) ==
    /\ t \in m_known
    /\ m_dropped' = m_dropped \cup {t}
    /\ current' = current \ Forgotten(t)
    /\ order' = Among(order, current')
    /\ byNonce' = byNonce \ Forgotten(t)
    /\ m_known' = m_known \ Forgotten(t)
    /\ UNCHANGED <<future, m_futureSize>>

\* dropGood(): t is in the chain.  m_limit is not looked at.
dropGood(t) ==
    LET new == Following(future, t)
        index == Indexed(byNonce, new)
        size == m_futureSize - Cardinality(new)
        gone == IF t \in m_known THEN (current \cup new) \cap {t} ELSE {}
    IN  /\ \E ord \in Emplaced(current, order, new, index) :
              order' = Among(ord, (current \cup new) \ gone)
        /\ current' = (current \cup new) \ gone
        /\ byNonce' = index \ gone
        /\ future' \in Trimmed(future \ new, size)
        /\ m_futureSize' = SizeTrimmed(size)
        /\ m_known' = m_known \ gone
        /\ UNCHANGED m_dropped

\* clear().  What was dropped stays dropped.
clear ==
    /\ m_known' = {} /\ current' = {} /\ order' = {} /\ byNonce' = {}
    /\ future' = {} /\ m_futureSize' = 0
    /\ UNCHANGED m_dropped

TQNext ==
    \/ \E t \in Txs : \/ \E retry \in BOOLEAN : import(t, retry)
                      \/ setFuture(t) \/ drop(t) \/ dropGood(t)
    \/ clear

TQSpec == TQInit /\ [][TQNext]_tqVars

-----------------------------------------------------------------------------
(* Properties.                                                              *)

Queued == current \cup future

TypeOK ==
    /\ m_known \subseteq Txs /\ m_dropped \subseteq Txs
    /\ current \subseteq Txs /\ future \subseteq Txs
    /\ order \subseteq current \X current
    /\ m_futureSize \in Nat

\* The index by account and nonce points to every current transaction and to no
\* other: PriorityCompare reads the lowest nonce of an account there, remove and
\* setFuture erase through it.
IndexAgrees == byNonce = current

\* An account has one transaction per nonce, current or future: makeCurrent would
\* otherwise overwrite the entry of one that stays in m_current, unreachable.
OnePerNonce ==
    /\ current \cap future = {}
    /\ \A t, u \in Queued : SameSlot(t, u) => t = u

\* What is queued is known, and is not queued a second time.
QueuedIsKnown == Queued \subseteq m_known

\* m_futureSize counts the future: the loop that trims it takes the first account of
\* m_future as long as the count is too high.
FutureIsCounted == m_futureSize = Cardinality(future)

\* Each limit alone is exceeded, m_futureLimit by setFuture and m_limit by dropGood;
\* together they hold: transactions only move between the two sets.
BothLimitsHold == Cardinality(Queued) <= m_limit + m_futureLimit

\* The containers agree, whatever the order of calls.
QueueConsistent ==
    TypeOK /\ IndexAgrees /\ OnePerNonce /\ QueuedIsKnown /\ FutureIsCounted /\ BothLimitsHold

\* A transaction leaves the queue for one of the same slot, because it is dropped,
\* mined, or part of a queue that is cleared, or because a limit is met.
NoneLost ==
    [][\A t \in Queued \ Queued' :
          \/ InSlot(Queued', t) # {}
          \/ t \in m_dropped'
          \/ dropGood(t) \/ clear
          \/ Cardinality(current') = m_limit
          \/ m_futureSize' = m_futureLimit]_tqVars

\* The price bid for a slot never falls while the slot is taken.
BidsOnlyRise ==
    [][\A t \in Queued : \A u \in InSlot(Queued', t) : gasPrice[u] >= gasPrice[t]]_tqVars

\* "It wont be retured in topTransactions list until a transaction with a preceeding
\* nonce is imported or marked with dropGood" (TransactionQueue.h:98).
FutureWaits ==
    [][\A t \in future \cap current' :
          \E u \in Txs : /\ from[u] = from[t] /\ nonce[u] + 1 = nonce[t]
                         /\ \/ u \in future \ future'
                            \/ \E retry \in BOOLEAN : import(u, retry)
                            \/ dropGood(u)]_tqVars

-----------------------------------------------------------------------------
(* Promises of the code's comments that TLC finds broken.                   *)

\* "Headers of transactions in both sets" (TransactionQueue.h:193).
KnownIsQueued == m_known \subseteq Queued

\* "returns up to _limit transactions ordered by nonce and gas price"
\* (TransactionQueue.h:87): those of an account come in the order of their nonces.
NoncesInOrder ==
    \A t, u \in current : from[t] = from[u] /\ nonce[t] < nonce[u] => <<t, u>> \in order

\* "Maximum number of pending transactions in the queue", "Maximum number of future
\* nonce transactions" (TransactionQueue.h:54-55).
EachLimitHolds == Cardinality(current) <= m_limit /\ Cardinality(future) <= m_futureLimit
===============================================================================
