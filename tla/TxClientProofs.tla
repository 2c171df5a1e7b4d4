---------------------------- MODULE TxClientProofs ----------------------------
(***************************************************************************)
(* What TransactionQueue keeps for any transactions, any limits and any    *)
(* order of calls, and what the work thread and the queue keep together,   *)
(* for any chains as well.                                                 *)
(*                                                                         *)
(* The argument for the queue.  A slot -- an account and a nonce -- never  *)
(* holds two transactions: an import removes those in its slot first, and  *)
(* all other moves are between the two sets.  So an insertion into the     *)
(* index by account and nonce never meets an entry (IndexedIsUnion), and   *)
(* the index stays equal to the set.  An import leaves both sets within    *)
(* their limits; every other operation leaves their union, or takes from   *)
(* it.                                                                     *)
(*                                                                         *)
(* The order is that of a line (Line): whatever PriorityCompare says, one  *)
(* that is emplaced gets a place behind all of some and before all of the  *)
(* others, and what is taken out leaves the rest as they were.             *)
(*                                                                         *)
(* The argument for both.  Each thread changes the queue by its operations *)
(* only, so whatever the queue keeps alone it keeps here.  A current       *)
(* transaction gives way to one of its own slot in an import only, because *)
(* a slot has one transaction: whatever else becomes current comes from a  *)
(* free slot.  Such an import raises m_needStateReset; the flag is lowered *)
(* when m_working is empty and no snapshot is being executed.              *)
(*                                                                         *)
(* A snapshot that is not full has every current transaction that is not   *)
(* in the block, because every one has its place in the order.  A pass     *)
(* that counts as many good ones as there are has executed them all; all   *)
(* other ends of a pass, and all that empties the block, raise             *)
(* m_syncTransactionQueue (PassCovers, FlagCovers).                        *)
(*                                                                         *)
(* What a change of the chain owes (Owing) is, at each call of the work    *)
(* thread, safe in the queue, in the new chain, still to be resubmitted,   *)
(* or pending.  That it is among the calls at first needs what the fold of *)
(* BlockChain::sync collects of each chain it leaves (SyncedFacts); that   *)
(* no call undoes another, that the good transactions are those of other   *)
(* slots; and that nothing is resubmitted when the head is the node's own  *)
(* block, that m_postSeal is what was sealed into it (Posts).              *)
(***************************************************************************)
EXTENDS TxClient, FiniteSetTheorems, TLAPS, WellFoundedInduction

-----------------------------------------------------------------------------
(* The queue alone.                                                          *)

IInv == /\ TypeOK /\ IndexAgrees /\ OnePerNonce /\ QueuedIsKnown
        /\ FutureIsCounted /\ BothLimitsHold

-----------------------------------------------------------------------------
(* The operators.                                                            *)

LEMMA TxsFinite == \A S \in SUBSET Txs : IsFiniteSet(S) /\ Cardinality(S) \in Nat
  BY FS_Subset, FS_CardinalityType, TransactionAssumption

LEMMA PartOf ==
  ASSUME NEW S \in SUBSET Txs, NEW T \in SUBSET S
  PROVE  /\ Cardinality(S \ T) = Cardinality(S) - Cardinality(T)
         /\ Cardinality(T) <= Cardinality(S)
<1>1. IsFiniteSet(S) /\ S \cap T = T
  BY TxsFinite
<1> QED BY <1>1, FS_Difference, FS_Subset

LEMMA Joint ==
  ASSUME NEW S \in SUBSET Txs, NEW T \in SUBSET Txs, S \cap T = {}
  PROVE  Cardinality(S \cup T) = Cardinality(S) + Cardinality(T)
<1>1. IsFiniteSet(S) /\ IsFiniteSet(T) /\ Cardinality(S) \in Nat /\ Cardinality(T) \in Nat
  BY TxsFinite
<1>2. Cardinality(S \cap T) = 0
  BY FS_EmptySet
<1>3. Cardinality(S \cup T) = Cardinality(S) + Cardinality(T) - Cardinality(S \cap T)
  BY <1>1, FS_Union
<1> QED BY <1>1, <1>2, <1>3

\* The futures are cut to their limit, and counted.
LEMMA TrimmedFits ==
  ASSUME NEW F \in SUBSET Txs, NEW K \in Trimmed(F, Cardinality(F))
  PROVE  /\ K \subseteq F
         /\ Cardinality(K) = SizeTrimmed(Cardinality(F))
         /\ Cardinality(K) \in Nat /\ Cardinality(K) <= m_futureLimit
         /\ K # F => Cardinality(K) = m_futureLimit
<1>1. Cardinality(F) \in Nat /\ m_futureLimit \in Nat
  BY TxsFinite, TransactionAssumption
<1>2. CASE Cardinality(F) <= m_futureLimit
  BY <1>1, <1>2 DEF Trimmed, SizeTrimmed
<1>3. CASE ~(Cardinality(F) <= m_futureLimit)
  <2>1. K \in SUBSET F /\ Cardinality(F \ K) = Cardinality(F) - m_futureLimit
    BY <1>3 DEF Trimmed
  <2>2. Cardinality(F \ K) = Cardinality(F) - Cardinality(K) /\ Cardinality(K) \in Nat
    BY <2>1, PartOf, TxsFinite
  <2>3. Cardinality(K) = m_futureLimit
    BY <2>1, <2>2, <1>1
  <2> QED BY <2>1, <2>3, <1>1, <1>3 DEF SizeTrimmed
<1> QED BY <1>2, <1>3

LEMMA BestFits ==
  ASSUME NEW S \in SUBSET Txs, NEW ord, NEW K \in Best(S, ord)
  PROVE  /\ K \subseteq S
         /\ Cardinality(K) \in Nat /\ Cardinality(K) <= m_limit
         /\ K # S => Cardinality(K) = m_limit
<1>1. Cardinality(S) \in Nat /\ m_limit \in Nat
  BY TxsFinite, TransactionAssumption
<1>2. CASE Cardinality(S) <= m_limit
  BY <1>1, <1>2 DEF Best
<1>3. CASE ~(Cardinality(S) <= m_limit)
  BY <1>1, <1>3 DEF Best
<1> QED BY <1>2, <1>3

LEMMA FollowingIsPart ==
  ASSUME NEW F \in SUBSET Txs, NEW t \in Txs
  PROVE  Following(F, t) \subseteq F /\ t \notin Following(F, t)
         /\ \A u \in Following(F, t) : ~SameSlot(t, u)
  BY TransactionAssumption DEF Following, SameSlot

\* No entry of the index is overwritten.
LEMMA IndexedIsUnion ==
  ASSUME NEW I, NEW new, \A u \in I, t \in new : ~SameSlot(t, u)
  PROVE  Indexed(I, new) = I \cup new
  BY DEF Indexed

LEMMA AmongType == \A ord, S : Among(ord, S) \subseteq S \X S
  BY DEF Among

\* What the futures that follow t are moved for: each has its predecessor in t or in
\* another that is moved.
LEMMA FollowingHasPredecessor ==
  ASSUME NEW F \in SUBSET Txs, NEW t \in Txs, NEW u \in Following(F, t)
  PROVE  \/ from[t] = from[u] /\ nonce[t] + 1 = nonce[u]
         \/ \E v \in Following(F, t) : from[v] = from[u] /\ nonce[v] + 1 = nonce[u]
<1>1. /\ u \in F /\ from[u] = from[t] /\ nonce[u] > nonce[t]
      /\ \A n \in (nonce[t] + 1)..nonce[u] : \E v \in F : from[v] = from[t] /\ nonce[v] = n
      /\ nonce[t] \in Nat /\ nonce[u] \in Nat
  BY TransactionAssumption DEF Following
<1>2. CASE nonce[u] = nonce[t] + 1
  BY <1>1, <1>2
<1>3. CASE nonce[u] # nonce[t] + 1
  <2>1. nonce[u] - 1 \in (nonce[t] + 1)..nonce[u] /\ nonce[u] - 1 > nonce[t]
    BY <1>1, <1>3
  <2>2. PICK v \in F : from[v] = from[t] /\ nonce[v] = nonce[u] - 1
    BY <1>1, <2>1
  <2>3. \A n \in (nonce[t] + 1)..nonce[v] : n \in (nonce[t] + 1)..nonce[u]
    BY <1>1, <2>1, <2>2
  <2>4. v \in Following(F, t)
    BY <1>1, <2>1, <2>2, <2>3 DEF Following
  <2>5. from[v] = from[u] /\ nonce[v] + 1 = nonce[u]
    BY <1>1, <2>2
  <2> QED BY <2>4, <2>5
<1> QED BY <1>2, <1>3

-----------------------------------------------------------------------------
(* The operations, one by one: what becomes of the two sets.                 *)

LEMMA InvType ==
  ASSUME IInv
  PROVE  /\ current \in SUBSET Txs /\ future \in SUBSET Txs /\ byNonce = current
         /\ current \cap future = {} /\ m_futureSize = Cardinality(future)
         /\ m_known \in SUBSET Txs /\ m_dropped \in SUBSET Txs
         /\ \A t, u \in current \cup future : SameSlot(t, u) => t = u
         /\ current \cup future \subseteq m_known
  BY DEF IInv, TypeOK, IndexAgrees, OnePerNonce, QueuedIsKnown, FutureIsCounted, Queued

\* An import: what is cut off the futures goes last, what is cut off the current when
\* the current are m_limit.
LEMMA ImportMoves ==
  ASSUME IInv, NEW t \in Txs, NEW retry, import(t, retry)
  PROVE  LET rc == InSlot(current, t)
             rf == InSlot(future, t)
             new == {t} \cup Following(future \ rf, t)
             queued == (current \ rc) \cup new
         IN  /\ t \notin m_known
             /\ current' \subseteq queued /\ byNonce' = current'
             /\ Cardinality(current') <= m_limit
             /\ current' # queued => Cardinality(current') = m_limit
             /\ m_known' = ((m_known \ rc) \cup {t}) \ (queued \ current')
             /\ future' \subseteq (future \ rf) \ new
             /\ m_futureSize' = Cardinality(future')
             /\ m_futureSize' <= m_futureLimit
             /\ future' # (future \ rf) \ new => m_futureSize' = m_futureLimit
             /\ m_dropped' = m_dropped
             /\ order' \subseteq current' \X current'
<1> DEFINE rc == InSlot(current, t)
           rf == InSlot(future, t)
           blocked == future \ rf
           run == Following(blocked, t)
           new == {t} \cup run
           queued == (current \ rc) \cup new
           index == Indexed(byNonce \ rc, new)
           size == m_futureSize - Cardinality(rf) - Cardinality(new \ {t})
<1>1. /\ current \in SUBSET Txs /\ future \in SUBSET Txs /\ byNonce = current
      /\ current \cap future = {} /\ m_futureSize = Cardinality(future)
      /\ m_known \in SUBSET Txs
      /\ \A x, u \in current \cup future : SameSlot(x, u) => x = u
      /\ current \cup future \subseteq m_known
  BY InvType
<1>2. /\ Rivals(t) = [current |-> rc, future |-> rf]
      /\ rc \subseteq current /\ rf \subseteq future
  BY <1>1 DEF Rivals, InSlot
<1>3. /\ t \notin m_known
      /\ \E ord : \E best \in Best(queued, ord) :
            /\ current' = best /\ order' = Among(ord, best)
            /\ byNonce' = index \ (queued \ best)
            /\ m_known' = ((m_known \ rc) \cup {t}) \ (queued \ best)
      /\ future' \in Trimmed(blocked \ new, size)
      /\ m_futureSize' = SizeTrimmed(size)
      /\ m_dropped' = m_dropped
  BY <1>2 DEF import, Admitted
<1>4. run \subseteq blocked /\ t \notin run /\ blocked \in SUBSET Txs
  BY <1>1, FollowingIsPart
<1>5. t \notin current /\ t \notin future
  BY <1>1, <1>3
<1>6. index = queued
  <2>1. ASSUME NEW u \in current \ rc, NEW x \in new, SameSlot(x, u) PROVE FALSE
    <3>1. CASE x = t
      BY <3>1, <2>1 DEF InSlot
    <3>2. CASE x \in run
      BY <3>2, <2>1, <1>4, <1>1
    <3> QED BY <3>1, <3>2
  <2>2. index = (current \ rc) \cup new
    BY <2>1, <1>1, IndexedIsUnion
  <2> QED BY <2>2
<1>7. queued \in SUBSET Txs
  BY <1>1, <1>4
<1>8. PICK ord : \E best \in Best(queued, ord) :
            /\ current' = best /\ order' = Among(ord, best)
            /\ byNonce' = index \ (queued \ best)
            /\ m_known' = ((m_known \ rc) \cup {t}) \ (queued \ best)
  BY <1>3
<1>9. PICK best \in Best(queued, ord) :
            /\ current' = best /\ order' = Among(ord, best)
            /\ byNonce' = index \ (queued \ best)
            /\ m_known' = ((m_known \ rc) \cup {t}) \ (queued \ best)
  BY <1>8
<1>10. /\ best \subseteq queued /\ Cardinality(best) <= m_limit
       /\ best # queued => Cardinality(best) = m_limit
  BY <1>7, BestFits
<1>11. size = Cardinality(blocked \ new) /\ blocked \ new \in SUBSET Txs
  <2>1. new \ {t} = run /\ blocked \ new = blocked \ run
    BY <1>4, <1>5
  <2>2. Cardinality(blocked) = Cardinality(future) - Cardinality(rf)
    BY <1>1, <1>2, PartOf
  <2>3. Cardinality(blocked \ run) = Cardinality(blocked) - Cardinality(run)
    BY <1>4, PartOf
  <2> QED BY <2>1, <2>2, <2>3, <1>1, <1>4
<1>12. /\ future' \subseteq blocked \ new
       /\ m_futureSize' = Cardinality(future') /\ m_futureSize' <= m_futureLimit
       /\ future' # blocked \ new => m_futureSize' = m_futureLimit
  <2> HIDE DEF size, blocked, new
  <2>1. /\ future' \in Trimmed(blocked \ new, Cardinality(blocked \ new))
        /\ m_futureSize' = SizeTrimmed(Cardinality(blocked \ new))
        /\ blocked \ new \in SUBSET Txs
    BY <1>3, <1>11
  <2> QED BY <2>1, TrimmedFits
<1>13. byNonce' = current'
  <2> HIDE DEF index, queued
  <2>1. current' = best /\ byNonce' = index \ (queued \ best)
    BY <1>9
  <2>3. best \subseteq queued
    BY <1>10
  <2>2. queued \ (queued \ best) = best
    BY <2>3
  <2> QED BY <1>6, <2>1, <2>2
<1>14. order' \subseteq current' \X current'
  BY <1>9, AmongType
<1>15. /\ current' \subseteq queued /\ Cardinality(current') <= m_limit
       /\ current' # queued => Cardinality(current') = m_limit
       /\ m_known' = ((m_known \ rc) \cup {t}) \ (queued \ current')
  <2> HIDE DEF index, queued, rc
  <2>1. current' = best /\ m_known' = ((m_known \ rc) \cup {t}) \ (queued \ best)
    BY <1>9
  <2> QED BY <2>1, <1>10
<1> HIDE DEF rc, rf, blocked, run, new, queued, index, size
<1>16. /\ t \notin m_known /\ m_dropped' = m_dropped
  BY <1>3
<1>17. rc = InSlot(current, t) /\ rf = InSlot(future, t)
       /\ new = {t} \cup Following(future \ rf, t) /\ queued = (current \ rc) \cup new
       /\ blocked = future \ rf
  BY DEF rc, rf, blocked, run, new, queued
<1> QED BY <1>12, <1>13, <1>14, <1>15, <1>16, <1>17

LEMMA SetFutureMoves ==
  ASSUME IInv, NEW t \in Txs, setFuture(t)
  PROVE  \E moved \in SUBSET current :
            /\ current' = current \ moved /\ byNonce' = current'
            /\ future' = future \cup moved
            /\ m_futureSize' = m_futureSize + Cardinality(moved)
            /\ m_known' = m_known /\ m_dropped' = m_dropped
            /\ order' \subseteq current' \X current'
<1> DEFINE moved == FromOn(t)
<1>1. moved \in SUBSET current
  BY InvType DEF FromOn
<1>2. {u \in moved : InSlot(future, u) = {}} = moved
  <2>1. ASSUME NEW u \in moved, NEW v \in InSlot(future, u) PROVE FALSE
    <3>1. v \in future /\ SameSlot(u, v) /\ u \in current
      BY <2>1, <1>1 DEF InSlot
    <3> QED BY <3>1, InvType
  <2> QED BY <2>1
<1>3. /\ current' = current \ moved /\ byNonce' = byNonce \ moved
      /\ future' = future \cup moved
      /\ m_futureSize' = m_futureSize + Cardinality(moved)
      /\ m_known' = m_known /\ m_dropped' = m_dropped
      /\ order' = Among(order, current')
  BY <1>2 DEF setFuture
<1>4. byNonce' = current'
  BY <1>3, InvType
<1> HIDE DEF moved
<1> QED BY <1>1, <1>3, <1>4, AmongType

LEMMA DropMoves ==
  ASSUME IInv, NEW t \in Txs, drop(t)
  PROVE  LET gone == current \cap {t}
         IN  /\ current' = current \ gone /\ byNonce' = current'
             /\ m_known' = m_known \ gone /\ m_dropped' = m_dropped \cup {t}
             /\ future' = future /\ m_futureSize' = m_futureSize
             /\ order' \subseteq current' \X current'
  BY InvType, AmongType DEF drop, Forgotten

LEMMA DropGoodMoves ==
  ASSUME IInv, NEW t \in Txs, dropGood(t)
  PROVE  LET run == Following(future, t)
             gone == IF t \in m_known THEN (current \cup run) \cap {t} ELSE {}
         IN  /\ run \subseteq future
             /\ current' = (current \cup run) \ gone /\ byNonce' = current'
             /\ m_known' = m_known \ gone /\ m_dropped' = m_dropped
             /\ future' \subseteq future \ run
             /\ m_futureSize' = Cardinality(future')
             /\ future' # future \ run => m_futureSize' = m_futureLimit
             /\ order' \subseteq current' \X current'
<1> DEFINE run == Following(future, t)
           gone == IF t \in m_known THEN (current \cup run) \cap {t} ELSE {}
           index == Indexed(byNonce, run)
           size == m_futureSize - Cardinality(run)
<1>1. /\ current \in SUBSET Txs /\ future \in SUBSET Txs /\ byNonce = current
      /\ current \cap future = {} /\ m_futureSize = Cardinality(future)
      /\ \A x, u \in current \cup future : SameSlot(x, u) => x = u
  BY InvType
<1>2. run \subseteq future
  BY <1>1, FollowingIsPart
<1>3. index = current \cup run
  <2>1. \A u \in current, x \in run : ~SameSlot(x, u)
    BY <1>1, <1>2
  <2> QED BY <1>1, <2>1, IndexedIsUnion
<1>4. size = Cardinality(future \ run) /\ future \ run \in SUBSET Txs
  BY <1>1, <1>2, PartOf
<1>5. /\ current' = (current \cup run) \ gone /\ byNonce' = index \ gone
      /\ m_known' = m_known \ gone /\ m_dropped' = m_dropped
      /\ future' \in Trimmed(future \ run, size) /\ m_futureSize' = SizeTrimmed(size)
      /\ order' \subseteq current' \X current'
  BY AmongType DEF dropGood
<1> HIDE DEF run, gone, index, size
<1>6. /\ future' \subseteq future \ run /\ m_futureSize' = Cardinality(future')
      /\ future' # future \ run => m_futureSize' = m_futureLimit
  <2>1. /\ future' \in Trimmed(future \ run, Cardinality(future \ run))
        /\ m_futureSize' = SizeTrimmed(Cardinality(future \ run))
    BY <1>4, <1>5
  <2> QED BY <2>1, <1>4, TrimmedFits
<1>7. byNonce' = current'
  BY <1>3, <1>5
<1> QED BY <1>2, <1>5, <1>6, <1>7 DEF run, gone

-----------------------------------------------------------------------------
LEMMA InitIInv == TQInit => IInv
<1>1. TQInit => Cardinality(current \cup future) = 0 /\ m_futureSize = Cardinality(future)
  BY FS_EmptySet DEF TQInit
<1> QED BY <1>1, TransactionAssumption
    DEF TQInit, IInv, TypeOK, IndexAgrees, OnePerNonce, QueuedIsKnown, FutureIsCounted,
        BothLimitsHold, Queued

\* What the step of an operation has to show.
LEMMA IInvFrom ==
  ASSUME IInv, m_known' \subseteq Txs, m_dropped' \subseteq Txs,
         current' \subseteq Txs, future' \subseteq Txs,
         byNonce' = current', order' \subseteq current' \X current',
         current' \cap future' = {},
         \A t, u \in current' \cup future' : SameSlot(t, u) => t = u,
         current' \cup future' \subseteq m_known',
         m_futureSize' = Cardinality(future'),
         Cardinality(current' \cup future') <= m_limit + m_futureLimit
  PROVE  IInv'
<1>1. Cardinality(future') \in Nat
  BY TxsFinite
<1> QED BY <1>1 DEF IInv, TypeOK, IndexAgrees, OnePerNonce, QueuedIsKnown,
                    FutureIsCounted, BothLimitsHold, Queued, SameSlot

LEMMA ImportIInv ==
  ASSUME IInv, NEW t \in Txs, NEW retry, import(t, retry)
  PROVE  IInv'
<1> DEFINE rc == InSlot(current, t)
           rf == InSlot(future, t)
           run == Following(future \ rf, t)
           new == {t} \cup run
           queued == (current \ rc) \cup new
<1>1. /\ t \notin m_known
      /\ current' \subseteq queued /\ byNonce' = current'
      /\ Cardinality(current') <= m_limit
      /\ m_known' = ((m_known \ rc) \cup {t}) \ (queued \ current')
      /\ future' \subseteq (future \ rf) \ new
      /\ m_futureSize' = Cardinality(future') /\ m_futureSize' <= m_futureLimit
      /\ m_dropped' = m_dropped
      /\ order' \subseteq current' \X current'
  BY ImportMoves
<1>2. /\ current \in SUBSET Txs /\ future \in SUBSET Txs /\ current \cap future = {}
      /\ m_known \in SUBSET Txs /\ m_dropped \in SUBSET Txs
      /\ \A x, u \in current \cup future : SameSlot(x, u) => x = u
      /\ current \cup future \subseteq m_known
  BY InvType
<1>3. run \subseteq future \ rf
  BY <1>2, FollowingIsPart
<1>4. \A u \in (current \ rc) \cup (future \ rf) : ~SameSlot(t, u) /\ ~SameSlot(u, t)
  BY DEF InSlot, SameSlot
<1>5. rc \subseteq current
  BY DEF InSlot
<1> HIDE DEF rc, rf, run
<1>6. current' \cap future' = {}
  BY <1>1, <1>2, <1>3
<1>7. current' \cup future' \subseteq {t} \cup (current \ rc) \cup (future \ rf)
  BY <1>1, <1>3
<1>8. \A x, u \in current' \cup future' : SameSlot(x, u) => x = u
  BY <1>2, <1>4, <1>7
<1>9. current' \cup future' \subseteq m_known'
  <2>1. current' \subseteq m_known'
    BY <1>1, <1>2, <1>3, <1>5
  <2>2. future' \cap queued = {} /\ future' \cap rc = {} /\ future' \subseteq m_known
    BY <1>1, <1>2, <1>3, <1>5
  <2> QED BY <1>1, <2>1, <2>2
<1>10. current' \subseteq Txs /\ future' \subseteq Txs /\ m_known' \subseteq Txs
  BY <1>1, <1>2, <1>3, <1>7
<1>11. Cardinality(current' \cup future') <= m_limit + m_futureLimit
  <2>1. Cardinality(current' \cup future') = Cardinality(current') + Cardinality(future')
    BY <1>6, <1>10, Joint
  <2>2. Cardinality(current') \in Nat /\ Cardinality(future') \in Nat
    BY <1>10, TxsFinite
  <2> QED BY <1>1, <2>1, <2>2, TransactionAssumption
<1> QED BY <1>1, <1>2, <1>6, <1>8, <1>9, <1>10, <1>11, IInvFrom

LEMMA SetFutureIInv ==
  ASSUME IInv, NEW t \in Txs, setFuture(t)
  PROVE  IInv'
<1>1. PICK moved \in SUBSET current :
            /\ current' = current \ moved /\ byNonce' = current'
            /\ future' = future \cup moved
            /\ m_futureSize' = m_futureSize + Cardinality(moved)
            /\ m_known' = m_known /\ m_dropped' = m_dropped
            /\ order' \subseteq current' \X current'
  BY SetFutureMoves
<1>2. /\ current \in SUBSET Txs /\ future \in SUBSET Txs /\ current \cap future = {}
      /\ m_known \in SUBSET Txs /\ m_dropped \in SUBSET Txs
      /\ m_futureSize = Cardinality(future)
      /\ \A x, u \in current \cup future : SameSlot(x, u) => x = u
      /\ current \cup future \subseteq m_known
  BY InvType
<1>3. current' \cup future' = current \cup future /\ current' \cap future' = {}
  BY <1>1, <1>2
<1>4. m_futureSize' = Cardinality(future')
  <2>1. moved \in SUBSET Txs /\ future \cap moved = {}
    BY <1>2
  <2>2. Cardinality(future \cup moved) = Cardinality(future) + Cardinality(moved)
    BY <1>2, <2>1, Joint
  <2> QED BY <1>1, <1>2, <2>2
<1>5. Cardinality(current' \cup future') <= m_limit + m_futureLimit
  BY <1>3 DEF IInv, BothLimitsHold, Queued
<1>6. current' \subseteq Txs /\ future' \subseteq Txs
  BY <1>1, <1>2
<1> QED BY <1>1, <1>2, <1>3, <1>4, <1>5, <1>6, IInvFrom

LEMMA SmallerStays ==
  ASSUME IInv, NEW S, S \subseteq current \cup future
  PROVE  Cardinality(S) <= m_limit + m_futureLimit
<1>1. current \cup future \in SUBSET Txs /\ S \in SUBSET Txs
  BY InvType
<1>2. /\ Cardinality(S) <= Cardinality(current \cup future)
      /\ Cardinality(S) \in Nat /\ Cardinality(current \cup future) \in Nat
  BY <1>1, PartOf, TxsFinite
<1>3. Cardinality(current \cup future) <= m_limit + m_futureLimit
  BY DEF IInv, BothLimitsHold, Queued
<1> QED BY <1>2, <1>3, TransactionAssumption

LEMMA DropIInv ==
  ASSUME IInv, NEW t \in Txs, drop(t)
  PROVE  IInv'
<1>1. /\ current' = current \ {t} /\ byNonce' = current'
      /\ m_known' = m_known \ (current \cap {t}) /\ m_dropped' = m_dropped \cup {t}
      /\ future' = future /\ m_futureSize' = m_futureSize
      /\ order' \subseteq current' \X current'
  BY DropMoves
<1>2. /\ current \in SUBSET Txs /\ future \in SUBSET Txs /\ current \cap future = {}
      /\ m_known \in SUBSET Txs /\ m_dropped \in SUBSET Txs
      /\ m_futureSize = Cardinality(future)
      /\ \A x, u \in current \cup future : SameSlot(x, u) => x = u
      /\ current \cup future \subseteq m_known
  BY InvType
<1>3. current' \cup future' \subseteq current \cup future
  BY <1>1
<1>4. Cardinality(current' \cup future') <= m_limit + m_futureLimit
  BY <1>3, SmallerStays
<1>5. current' \cup future' \subseteq m_known'
  BY <1>1, <1>2
<1>6. /\ current' \subseteq Txs /\ future' \subseteq Txs /\ m_known' \subseteq Txs
      /\ m_dropped' \subseteq Txs /\ current' \cap future' = {}
      /\ m_futureSize' = Cardinality(future')
      /\ \A x, u \in current' \cup future' : SameSlot(x, u) => x = u
  BY <1>1, <1>2, <1>3
<1> QED BY <1>1, <1>4, <1>5, <1>6, IInvFrom

LEMMA DropGoodIInv ==
  ASSUME IInv, NEW t \in Txs, dropGood(t)
  PROVE  IInv'
<1> DEFINE run == Following(future, t)
           gone == IF t \in m_known THEN (current \cup run) \cap {t} ELSE {}
<1>1. /\ run \subseteq future
      /\ current' = (current \cup run) \ gone /\ byNonce' = current'
      /\ m_known' = m_known \ gone /\ m_dropped' = m_dropped
      /\ future' \subseteq future \ run
      /\ m_futureSize' = Cardinality(future')
      /\ order' \subseteq current' \X current'
  BY DropGoodMoves
<1>2. /\ current \in SUBSET Txs /\ future \in SUBSET Txs /\ current \cap future = {}
      /\ m_known \in SUBSET Txs /\ m_dropped \in SUBSET Txs
      /\ \A x, u \in current \cup future : SameSlot(x, u) => x = u
      /\ current \cup future \subseteq m_known
  BY InvType
<1>3. gone \subseteq current \cup run
  OBVIOUS
<1> HIDE DEF run, gone
<1>4. current' \cup future' \subseteq current \cup future /\ current' \cap future' = {}
  BY <1>1, <1>2
<1>5. Cardinality(current' \cup future') <= m_limit + m_futureLimit
  BY <1>4, SmallerStays
<1>6. current' \cup future' \subseteq m_known'
  BY <1>1, <1>2, <1>3
<1>7. /\ current' \subseteq Txs /\ future' \subseteq Txs /\ m_known' \subseteq Txs
      /\ \A x, u \in current' \cup future' : SameSlot(x, u) => x = u
  BY <1>1, <1>2, <1>4
<1> QED BY <1>1, <1>2, <1>4, <1>5, <1>6, <1>7, IInvFrom

LEMMA ClearIInv == ASSUME IInv, clear PROVE IInv'
<1>1. /\ current' = {} /\ future' = {} /\ byNonce' = {} /\ order' = {} /\ m_known' = {}
      /\ m_futureSize' = 0 /\ m_dropped' = m_dropped
  BY DEF clear
<1>2. Cardinality({}) = 0 /\ {} \cup {} = {}
  BY FS_EmptySet
<1>3. m_dropped \subseteq Txs
  BY InvType
<1> QED BY <1>1, <1>2, <1>3, TransactionAssumption, IInvFrom

LEMMA NextIInv == IInv /\ [TQNext]_tqVars => IInv'
<1> SUFFICES ASSUME IInv, [TQNext]_tqVars PROVE IInv'
  OBVIOUS
<1>1. ASSUME NEW t \in Txs, NEW retry \in BOOLEAN, import(t, retry) PROVE IInv'
  BY <1>1, ImportIInv
<1>2. ASSUME NEW t \in Txs, setFuture(t) PROVE IInv'
  BY <1>2, SetFutureIInv
<1>3. ASSUME NEW t \in Txs, drop(t) PROVE IInv'
  BY <1>3, DropIInv
<1>4. ASSUME NEW t \in Txs, dropGood(t) PROVE IInv'
  BY <1>4, DropGoodIInv
<1>5. CASE clear
  BY <1>5, ClearIInv
<1>6. CASE UNCHANGED tqVars
  BY <1>6 DEF tqVars, IInv, TypeOK, IndexAgrees, OnePerNonce, QueuedIsKnown,
              FutureIsCounted, BothLimitsHold, Queued
<1> QED BY <1>1, <1>2, <1>3, <1>4, <1>5, <1>6 DEF TQNext

\* The sets have their types, for any transactions, limits and calls.
THEOREM TransactionTypeOK == TQSpec => []TypeOK
<1>1. IInv => TypeOK
  BY DEF IInv
<1> QED BY InitIInv, NextIInv, <1>1, PTL DEF TQSpec

\* The index by account and nonce and m_current have the same elements: the iterators
\* that remove and setFuture take from it are never stale (TransactionQueue.cpp:267).
THEOREM TransactionIndexAgrees == TQSpec => []IndexAgrees
<1>1. IInv => IndexAgrees
  BY DEF IInv
<1> QED BY InitIInv, NextIInv, <1>1, PTL DEF TQSpec

\* One transaction per account and nonce, whatever is replaced, postponed and mined.
THEOREM TransactionOnePerNonce == TQSpec => []OnePerNonce
<1>1. IInv => OnePerNonce
  BY DEF IInv
<1> QED BY InitIInv, NextIInv, <1>1, PTL DEF TQSpec

\* What is queued is known: no transaction is queued twice.
THEOREM TransactionQueuedIsKnown == TQSpec => []QueuedIsKnown
<1>1. IInv => QueuedIsKnown
  BY DEF IInv
<1> QED BY InitIInv, NextIInv, <1>1, PTL DEF TQSpec

\* m_futureSize is the number of future transactions.
THEOREM TransactionFutureIsCounted == TQSpec => []FutureIsCounted
<1>1. IInv => FutureIsCounted
  BY DEF IInv
<1> QED BY InitIInv, NextIInv, <1>1, PTL DEF TQSpec

\* The queue never holds more than the two limits together.
THEOREM TransactionBothLimitsHold == TQSpec => []BothLimitsHold
<1>1. IInv => BothLimitsHold
  BY DEF IInv
<1> QED BY InitIInv, NextIInv, <1>1, PTL DEF TQSpec

\* Index, queues, counter and known transactions agree, whatever the order of calls.
THEOREM TransactionQueueConsistent == TQSpec => []QueueConsistent
<1>1. IInv => QueueConsistent
  BY DEF IInv, QueueConsistent
<1> QED BY InitIInv, NextIInv, <1>1, PTL DEF TQSpec

-----------------------------------------------------------------------------
(* What a step may never do.                                                 *)

LEMMA ImportOutbids ==
  ASSUME IInv, NEW t \in Txs, NEW retry, import(t, retry)
  PROVE  /\ Queued' \subseteq {t} \cup Queued
         /\ \A u \in Queued : SameSlot(t, u) => gasPrice[t] >= gasPrice[u]
<1>1. byNonce = current /\ current \in SUBSET Txs /\ future \in SUBSET Txs
  BY InvType
<1>2. Outbids(t)
  BY DEF import
<1>3. \A u \in Queued : SameSlot(t, u) => gasPrice[t] >= gasPrice[u]
  BY <1>1, <1>2 DEF Outbids, Rivals, InSlot, Queued
<1>4. Queued' \subseteq {t} \cup Queued
  <2> DEFINE rc == InSlot(current, t)
             rf == InSlot(future, t)
             run == Following(future \ rf, t)
  <2>1. /\ current' \subseteq (current \ rc) \cup {t} \cup run
        /\ future' \subseteq (future \ rf) \ ({t} \cup run)
    BY ImportMoves
  <2>2. run \subseteq future \ rf
    BY <1>1, FollowingIsPart
  <2> HIDE DEF rc, rf, run
  <2> QED BY <2>1, <2>2 DEF Queued
<1> QED BY <1>3, <1>4

LEMMA OthersAddNothing ==
  ASSUME IInv, NEW t \in Txs, setFuture(t) \/ drop(t) \/ dropGood(t) \/ clear
  PROVE  Queued' \subseteq Queued
<1>1. CASE setFuture(t)
  BY <1>1, SetFutureMoves DEF Queued
<1>2. CASE drop(t)
  BY <1>2, DropMoves DEF Queued
<1>3. CASE dropGood(t)
  <2> DEFINE run == Following(future, t)
             gone == IF t \in m_known THEN (current \cup run) \cap {t} ELSE {}
  <2>1. /\ run \subseteq future /\ current' = (current \cup run) \ gone
        /\ future' \subseteq future \ run
    BY <1>3, DropGoodMoves
  <2> HIDE DEF run, gone
  <2> QED BY <2>1 DEF Queued
<1>4. CASE clear
  BY <1>4 DEF clear, Queued
<1> QED BY <1>1, <1>2, <1>3, <1>4

LEMMA BidsRise ==
  ASSUME IInv, [TQNext]_tqVars, NEW t \in Queued, NEW u \in InSlot(Queued', t)
  PROVE  gasPrice[u] >= gasPrice[t]
<1>1. /\ Queued \subseteq Txs /\ u \in Queued' /\ SameSlot(t, u)
      /\ \A x, y \in Queued : SameSlot(x, y) => x = y
  BY InvType DEF Queued, InSlot
<1>2. u \in Queued => gasPrice[u] >= gasPrice[t]
  <2>1. gasPrice[t] \in Nat
    BY <1>1, TransactionAssumption
  <2> QED BY <1>1, <2>1
<1>3. ASSUME NEW x \in Txs, NEW retry \in BOOLEAN, import(x, retry)
      PROVE  gasPrice[u] >= gasPrice[t]
  <2>1. u \in Queued \/ u = x
    BY <1>1, <1>3, ImportOutbids
  <2>2. CASE u = x
    <3>1. SameSlot(x, t)
      BY <1>1, <2>2 DEF SameSlot
    <3> QED BY <3>1, <2>2, <1>3, ImportOutbids
  <2> QED BY <2>1, <2>2, <1>2
<1>4. ASSUME NEW x \in Txs, setFuture(x) \/ drop(x) \/ dropGood(x)
      PROVE  gasPrice[u] >= gasPrice[t]
  BY <1>1, <1>2, <1>4, OthersAddNothing
<1>5. CASE clear
  BY <1>1, <1>5 DEF clear, Queued
<1>6. CASE UNCHANGED tqVars
  BY <1>1, <1>2, <1>6 DEF tqVars, Queued
<1> QED BY <1>3, <1>4, <1>5, <1>6 DEF TQNext

\* Nobody's bid is replaced by a lower one (TransactionQueue.cpp:135, :151).
THEOREM TransactionBidsOnlyRise == TQSpec => BidsOnlyRise
<1>1. IInv /\ [TQNext]_tqVars =>
        [\A t \in Queued : \A u \in InSlot(Queued', t) : gasPrice[u] >= gasPrice[t]]_tqVars
  BY BidsRise
<1> QED BY InitIInv, NextIInv, <1>1, PTL DEF TQSpec, BidsOnlyRise

LEMMA LeavesForAReason ==
  ASSUME IInv, TQNext, NEW t \in Queued \ Queued'
  PROVE  \/ InSlot(Queued', t) # {}
         \/ t \in m_dropped'
         \/ dropGood(t) \/ clear
         \/ Cardinality(current') = m_limit
         \/ m_futureSize' = m_futureLimit
<1>1. t \in Txs /\ (t \in current \/ t \in future) /\ t \notin current' /\ t \notin future'
      /\ current \in SUBSET Txs /\ future \in SUBSET Txs
  BY InvType DEF Queued
<1>2. ASSUME NEW x \in Txs, NEW retry \in BOOLEAN, import(x, retry)
      PROVE  \/ InSlot(Queued', t) # {}
             \/ Cardinality(current') = m_limit \/ m_futureSize' = m_futureLimit
  <2> DEFINE rc == InSlot(current, x)
             rf == InSlot(future, x)
             new == {x} \cup Following(future \ rf, x)
             queued == (current \ rc) \cup new
  <2>1. /\ current' # queued => Cardinality(current') = m_limit
        /\ future' # (future \ rf) \ new => m_futureSize' = m_futureLimit
    BY <1>2, ImportMoves
  <2>2. CASE current' = queued /\ future' = (future \ rf) \ new
    <3>1. t \in rc \/ t \in rf
      BY <2>2, <1>1
    <3>2. SameSlot(t, x)
      BY <3>1 DEF InSlot, SameSlot
    <3>3. x \in Queued'
      BY <2>2 DEF Queued
    <3> QED BY <3>2, <3>3 DEF InSlot
  <2> QED BY <2>1, <2>2
<1>3. ASSUME NEW x \in Txs, setFuture(x) PROVE FALSE
  BY <1>1, <1>3, SetFutureMoves
<1>4. ASSUME NEW x \in Txs, drop(x) PROVE t \in m_dropped'
  BY <1>1, <1>4, DropMoves
<1>5. ASSUME NEW x \in Txs, dropGood(x) PROVE dropGood(t) \/ m_futureSize' = m_futureLimit
  <2> DEFINE run == Following(future, x)
             gone == IF x \in m_known THEN (current \cup run) \cap {x} ELSE {}
  <2>1. /\ current' = (current \cup run) \ gone
        /\ future' # future \ run => m_futureSize' = m_futureLimit
    BY <1>5, DropGoodMoves
  <2>2. gone \subseteq {x}
    OBVIOUS
  <2> HIDE DEF run, gone
  <2>3. CASE future' = future \ run
    <3>1. t = x
      BY <1>1, <2>1, <2>2, <2>3
    <3> QED BY <1>5, <3>1
  <2> QED BY <2>1, <2>3
<1> QED BY <1>2, <1>3, <1>4, <1>5 DEF TQNext

\* No operation loses a transaction while the limits leave room for it.
THEOREM TransactionNoneLost == TQSpec => NoneLost
<1>1. IInv /\ [TQNext]_tqVars =>
        [\A t \in Queued \ Queued' :
            \/ InSlot(Queued', t) # {}
            \/ t \in m_dropped'
            \/ dropGood(t) \/ clear
            \/ Cardinality(current') = m_limit
            \/ m_futureSize' = m_futureLimit]_tqVars
  BY LeavesForAReason
<1> QED BY InitIInv, NextIInv, <1>1, PTL DEF TQSpec, NoneLost

\* What makeCurrent moves: t is reached from x without a gap.
LEMMA ReachedFrom ==
  ASSUME future \in SUBSET Txs, NEW F \in SUBSET future, NEW x \in Txs,
         future' \cap Following(F, x) = {}, NEW t \in Following(F, x)
  PROVE  \E u \in Txs : /\ from[u] = from[t] /\ nonce[u] + 1 = nonce[t]
                        /\ u = x \/ u \in future \ future'
<1>1. F \in SUBSET Txs
  OBVIOUS
<1>2. CASE from[x] = from[t] /\ nonce[x] + 1 = nonce[t]
  BY <1>2
<1>3. CASE \E v \in Following(F, x) : from[v] = from[t] /\ nonce[v] + 1 = nonce[t]
  <2>1. PICK v \in Following(F, x) : from[v] = from[t] /\ nonce[v] + 1 = nonce[t]
    BY <1>3
  <2>2. v \in future /\ v \notin future' /\ v \in Txs
    BY <1>1, FollowingIsPart
  <2> QED BY <2>1, <2>2
<1> QED BY <1>1, <1>2, <1>3, FollowingHasPredecessor

LEMMA WaitsFor ==
  ASSUME IInv, TQNext, NEW t \in future \cap current'
  PROVE  \E u \in Txs : /\ from[u] = from[t] /\ nonce[u] + 1 = nonce[t]
                        /\ \/ u \in future \ future'
                           \/ \E retry \in BOOLEAN : import(u, retry)
                           \/ dropGood(u)
<1>1. /\ current \in SUBSET Txs /\ future \in SUBSET Txs /\ current \cap future = {}
      /\ future \subseteq m_known
  BY InvType
<1>2. ASSUME NEW x \in Txs, NEW retry \in BOOLEAN, import(x, retry)
      PROVE  \E u \in Txs : /\ from[u] = from[t] /\ nonce[u] + 1 = nonce[t]
                            /\ u = x \/ u \in future \ future'
  <2> DEFINE rc == InSlot(current, x)
             F == future \ InSlot(future, x)
             run == Following(F, x)
  <2>1. /\ current' \subseteq (current \ rc) \cup {x} \cup run
        /\ future' \subseteq F \ ({x} \cup run)
        /\ x \notin m_known
    BY <1>2, ImportMoves
  <2>2. t \in run
    BY <1>1, <2>1
  <2>3. F \in SUBSET future /\ future' \cap run = {}
    BY <2>1
  <2> HIDE DEF F
  <2> QED BY <1>1, <2>2, <2>3, ReachedFrom
<1>3. ASSUME NEW x \in Txs, dropGood(x)
      PROVE  \E u \in Txs : /\ from[u] = from[t] /\ nonce[u] + 1 = nonce[t]
                            /\ u = x \/ u \in future \ future'
  <2> DEFINE run == Following(future, x)
             gone == IF x \in m_known THEN (current \cup run) \cap {x} ELSE {}
  <2>1. current' = (current \cup run) \ gone /\ future' \subseteq future \ run
    BY <1>3, DropGoodMoves
  <2>2. t \in run
    BY <1>1, <2>1
  <2>3. future' \cap run = {}
    BY <2>1
  <2> QED BY <1>1, <2>2, <2>3, ReachedFrom
<1>4. ASSUME NEW x \in Txs, setFuture(x) \/ drop(x) PROVE FALSE
  BY <1>1, <1>4, SetFutureMoves, DropMoves
<1>5. CASE clear
  BY <1>5 DEF clear
<1> QED BY <1>2, <1>3, <1>4, <1>5 DEF TQNext

\* A future transaction waits until its predecessor is imported, mined or moved.
THEOREM TransactionFutureWaits == TQSpec => FutureWaits
<1>1. IInv /\ [TQNext]_tqVars =>
        [\A t \in future \cap current' :
            \E u \in Txs : /\ from[u] = from[t] /\ nonce[u] + 1 = nonce[t]
                           /\ \/ u \in future \ future'
                              \/ \E retry \in BOOLEAN : import(u, retry)
                              \/ dropGood(u)]_tqVars
  BY WaitsFor
<1> QED BY InitIInv, NextIInv, <1>1, PTL DEF TQSpec, FutureWaits

-----------------------------------------------------------------------------
(* The order of m_current.                                                   *)

\* o is the order in which one goes through S.
Line(S, o) ==
    /\ o \subseteq S \X S
    /\ \A x \in S : <<x, x>> \notin o
    /\ \A x, y \in S : x = y \/ <<x, y>> \in o \/ <<y, x>> \in o
    /\ \A x, y, z \in S : <<x, y>> \in o /\ <<y, z>> \in o => <<x, z>> \in o

\* A part of it is in order, too.
LEMMA AmongLine ==
  ASSUME NEW S, NEW o, Line(S, o), NEW K \in SUBSET S
  PROVE  Line(K, Among(o, K))
  BY DEF Line, Among

\* Where those that are emplaced come.
There(S, new, t) == S \cup {u \in new : nonce[u] < nonce[t]}
Joined(S, ord, new, f) ==
    ord \cup UNION {(f[t] \X {t}) \cup ({t} \X (There(S, new, t) \ f[t])) : t \in new}

LEMMA JoinedPairs ==
  ASSUME NEW S \in SUBSET Txs, NEW new \in SUBSET Txs, S \cap new = {}, NEW ord, ord \subseteq S \X S,
         NEW f, \A t \in new : f[t] \subseteq There(S, new, t)
  PROVE  LET o == Joined(S, ord, new, f)
         IN  /\ o \subseteq (S \cup new) \X (S \cup new)
             /\ \A x, y \in S : <<x, y>> \in o <=> <<x, y>> \in ord
             /\ \A t \in new : \A x \in There(S, new, t) :
                    /\ <<x, t>> \in o <=> x \in f[t]
                    /\ <<t, x>> \in o <=> x \notin f[t]
             /\ \A t \in new : <<t, t>> \notin o
<1> DEFINE o == Joined(S, ord, new, f)
           part(t) == (f[t] \X {t}) \cup ({t} \X (There(S, new, t) \ f[t]))
<1>1. \A p : p \in o <=> p \in ord \/ \E t \in new : p \in part(t)
  BY DEF Joined
<1>2. \A t \in new : There(S, new, t) \subseteq S \cup new /\ t \notin There(S, new, t)
  BY TransactionAssumption DEF There
<1>3. \A t, u \in new : t \in There(S, new, u) => u \notin There(S, new, t)
  BY TransactionAssumption DEF There
<1> HIDE DEF o
<1>4. o \subseteq (S \cup new) \X (S \cup new)
  BY <1>1, <1>2
<1>5. ASSUME NEW x \in S, NEW y \in S PROVE <<x, y>> \in o <=> <<x, y>> \in ord
  BY <1>1
<1>6. ASSUME NEW t \in new, NEW x \in There(S, new, t)
      PROVE  (<<x, t>> \in o <=> x \in f[t]) /\ (<<t, x>> \in o <=> x \notin f[t])
  <2>1. <<x, t>> \notin ord /\ <<t, x>> \notin ord
    OBVIOUS
  <2>2. ASSUME NEW u \in new, <<x, t>> \in part(u) PROVE u = t /\ x \in f[t]
    BY <1>2, <1>3, <2>2, <1>6
  <2>3. ASSUME NEW u \in new, <<t, x>> \in part(u) PROVE u = t /\ x \notin f[t]
    BY <1>2, <1>3, <2>3, <1>6
  <2>4. x \in f[t] => <<x, t>> \in part(t)
    OBVIOUS
  <2>5. x \notin f[t] => <<t, x>> \in part(t)
    OBVIOUS
  <2> HIDE DEF part
  <2> QED BY <1>1, <2>1, <2>2, <2>3, <2>4, <2>5
<1>7. ASSUME NEW t \in new PROVE <<t, t>> \notin o
  BY <1>1, <1>2
<1> QED BY <1>4, <1>5, <1>6, <1>7 DEF o

LEMMA JoinedLine ==
  ASSUME NEW S \in SUBSET Txs, NEW new \in SUBSET Txs, S \cap new = {}, NEW ord, Line(S, ord),
         \A t, u \in new : nonce[t] = nonce[u] => t = u,
         NEW f, \A t \in new : f[t] \subseteq There(S, new, t),
         \A t \in new : f[t] \X (There(S, new, t) \ f[t]) \subseteq Joined(S, ord, new, f)
  PROVE  Line(S \cup new, Joined(S, ord, new, f))
<1> DEFINE o == Joined(S, ord, new, f)
           Lower(x, y) == x \in There(S, new, y)
           All == S \cup new
<1>1. /\ o \subseteq All \X All
      /\ \A x, y \in S : <<x, y>> \in o <=> <<x, y>> \in ord
      /\ \A t \in new : \A x \in There(S, new, t) :
             /\ <<x, t>> \in o <=> x \in f[t]
             /\ <<t, x>> \in o <=> x \notin f[t]
      /\ \A t \in new : <<t, t>> \notin o
  BY JoinedPairs DEF Line
<1>2. \A t, u \in new : t = u \/ Lower(t, u) \/ Lower(u, t)
  BY TransactionAssumption DEF There
<1>3. \A t \in new : \A x \in S : Lower(x, t)
  BY DEF There
<1>4. \A t, u, v \in new : Lower(t, u) /\ Lower(u, v) => Lower(t, v)
  BY TransactionAssumption DEF There
<1>5. \A t \in new : \A x, y \in There(S, new, t) : x \in f[t] /\ y \notin f[t] => <<x, y>> \in o
  OBVIOUS
<1> HIDE DEF o
<1>6. \A x \in All : <<x, x>> \notin o
  BY <1>1 DEF Line
<1>7. \A x, y \in All : x = y \/ <<x, y>> \in o \/ <<y, x>> \in o
  <2> SUFFICES ASSUME NEW x \in All, NEW y \in All, x # y PROVE <<x, y>> \in o \/ <<y, x>> \in o
    OBVIOUS
  <2>1. CASE x \in S /\ y \in S
    BY <1>1, <2>1 DEF Line
  <2>2. CASE y \in new /\ Lower(x, y)
    BY <1>1, <2>2
  <2>3. CASE x \in new /\ Lower(y, x)
    BY <1>1, <2>3
  <2> QED BY <1>2, <1>3, <2>1, <2>2, <2>3
<1>8. \A x, y \in All : <<x, y>> \in o => <<y, x>> \notin o
  <2> SUFFICES ASSUME NEW x \in All, NEW y \in All, <<x, y>> \in o, <<y, x>> \in o PROVE FALSE
    OBVIOUS
  <2>1. CASE x \in S /\ y \in S
    BY <1>1, <2>1 DEF Line
  <2>2. CASE y \in new /\ Lower(x, y)
    BY <1>1, <2>2
  <2>3. CASE x \in new /\ Lower(y, x)
    BY <1>1, <2>3
  <2> QED BY <1>2, <1>3, <1>6, <2>1, <2>2, <2>3
<1>9. \A x, y, z \in All : <<x, y>> \in o /\ <<y, z>> \in o => <<x, z>> \in o
  <2> SUFFICES ASSUME NEW x \in All, NEW y \in All, NEW z \in All,
                      <<x, y>> \in o, <<y, z>> \in o
               PROVE  <<x, z>> \in o
    OBVIOUS
  <2>0. x # y /\ y # z /\ x # z
    BY <1>6, <1>8
  <2>1. CASE x \in S /\ y \in S /\ z \in S
    BY <1>1, <2>1 DEF Line
  <2>2. CASE y \in new /\ Lower(x, y) /\ Lower(z, y)
    <3>1. x \in f[y] /\ z \notin f[y]
      BY <1>1, <2>2
    <3> QED BY <1>5, <2>2, <3>1
  <2>3. CASE z \in new /\ Lower(x, z) /\ Lower(y, z)
    <3>1. y \in f[z]
      BY <1>1, <2>3
    <3>2. CASE x \in f[z]
      BY <1>1, <2>3, <3>2
    <3>3. CASE x \notin f[z]
      <4>1. <<y, x>> \in o
        BY <1>5, <2>3, <3>1, <3>3
      <4> QED BY <1>8, <4>1
    <3> QED BY <3>2, <3>3
  <2>4. CASE x \in new /\ Lower(y, x) /\ Lower(z, x)
    <3>1. y \notin f[x]
      BY <1>1, <2>4
    <3>2. CASE z \notin f[x]
      BY <1>1, <2>4, <3>2
    <3>3. CASE z \in f[x]
      <4>1. <<z, y>> \in o
        BY <1>5, <2>4, <3>1, <3>3
      <4> QED BY <1>8, <4>1
    <3> QED BY <3>2, <3>3
  <2> HIDE DEF Lower
  <2>5. \/ x \in S /\ y \in S /\ z \in S
        \/ y \in new /\ Lower(x, y) /\ Lower(z, y)
        \/ z \in new /\ Lower(x, z) /\ Lower(y, z)
        \/ x \in new /\ Lower(y, x) /\ Lower(z, x)
    BY <1>2, <1>3, <1>4, <2>0
  <2> QED BY <2>1, <2>2, <2>3, <2>4, <2>5
<1> QED BY <1>1, <1>6, <1>7, <1>9 DEF Line, o

\* What is emplaced comes in order.
LEMMA EmplacedLine ==
  ASSUME NEW S \in SUBSET Txs, NEW new \in SUBSET Txs, S \cap new = {}, NEW ord, Line(S, ord),
         \A t, u \in new : nonce[t] = nonce[u] => t = u,
         NEW I, NEW o \in Emplaced(S, ord, new, I)
  PROVE  Line(S \cup new, o)
<1>1. \E f : /\ o = Joined(S, ord, new, f)
             /\ \A t \in new : f[t] \subseteq There(S, new, t)
             /\ \A t \in new : f[t] \X (There(S, new, t) \ f[t]) \subseteq o
  BY DEF Emplaced, Joined, There
<1> QED BY <1>1, JoinedLine

LInv == Line(current, order)

\* Those that follow t are of one account, and have a nonce each.
LEMMA FollowingNonces ==
  ASSUME NEW F \in SUBSET Txs, NEW t \in Txs, \A a, b \in F : SameSlot(a, b) => a = b
  PROVE  \A a, b \in {t} \cup Following(F, t) : nonce[a] = nonce[b] => a = b
  BY TransactionAssumption DEF Following, SameSlot

LEMMA ImportLine ==
  ASSUME IInv, LInv, NEW t \in Txs, NEW retry, import(t, retry)
  PROVE  LInv'
<1> DEFINE rc == Rivals(t).current
           blocked == future \ Rivals(t).future
           new == {t} \cup Following(blocked, t)
           index == Indexed(byNonce \ rc, new)
           queued == (current \ rc) \cup new
<1>1. /\ current \in SUBSET Txs /\ future \in SUBSET Txs /\ current \cap future = {}
      /\ \A a, b \in current \cup future : SameSlot(a, b) => a = b
      /\ current \cup future \subseteq m_known
  BY InvType
<1>2. t \notin m_known
  BY DEF import, Admitted
<1>3. \E ord \in Emplaced(current \ rc, Among(order, current \ rc), new, index) :
         \E best \in Best(queued, ord) : current' = best /\ order' = Among(ord, best)
  BY DEF import
<1>4. blocked \in SUBSET Txs /\ \A a, b \in blocked : SameSlot(a, b) => a = b
  BY <1>1
<1> HIDE DEF rc, blocked, index
<1>5. Following(blocked, t) \subseteq blocked
  BY <1>4, FollowingIsPart
<1>6. blocked \subseteq future
  BY DEF blocked
<1>7. new \in SUBSET Txs /\ (current \ rc) \cap new = {} /\ queued \in SUBSET Txs
  BY <1>1, <1>2, <1>5, <1>6
<1>8. \A a, b \in new : nonce[a] = nonce[b] => a = b
  BY <1>4, FollowingNonces
<1>9. Line(current \ rc, Among(order, current \ rc))
  BY AmongLine DEF LInv
<1> HIDE DEF new, queued
<1>10. PICK ord \in Emplaced(current \ rc, Among(order, current \ rc), new, index) :
         \E best \in Best(queued, ord) : current' = best /\ order' = Among(ord, best)
  BY <1>3
<1>11. Line(queued, ord)
  <2>1. current \ rc \in SUBSET Txs
    BY <1>1
  <2>2. Line((current \ rc) \cup new, ord)
    BY <1>7, <1>8, <1>9, <2>1, EmplacedLine
  <2> QED BY <2>2 DEF queued
<1>12. PICK best \in Best(queued, ord) : current' = best /\ order' = Among(ord, best)
  BY <1>10
<1>13. best \in SUBSET queued
  BY <1>7, <1>12, BestFits
<1> QED BY <1>11, <1>12, <1>13, AmongLine DEF LInv

LEMMA DropGoodLine ==
  ASSUME IInv, LInv, NEW t \in Txs, dropGood(t)
  PROVE  LInv'
<1> DEFINE new == Following(future, t)
           index == Indexed(byNonce, new)
           gone == IF t \in m_known THEN (current \cup new) \cap {t} ELSE {}
<1>1. /\ current \in SUBSET Txs /\ future \in SUBSET Txs /\ current \cap future = {}
      /\ \A a, b \in future : SameSlot(a, b) => a = b
  BY InvType
<1>2. PICK ord \in Emplaced(current, order, new, index) :
         order' = Among(ord, (current \cup new) \ gone)
  BY DEF dropGood
<1>3. current' = (current \cup new) \ gone
  BY DEF dropGood
<1>4. new \subseteq future
  BY <1>1, FollowingIsPart
<1>5. \A a, b \in new : nonce[a] = nonce[b] => a = b
  BY <1>1, FollowingNonces
<1> HIDE DEF new, index, gone
<1>6. new \in SUBSET Txs /\ current \cap new = {}
  BY <1>1, <1>4
<1>7. Line(current \cup new, ord)
  BY <1>1, <1>2, <1>5, <1>6, EmplacedLine DEF LInv
<1>8. (current \cup new) \ gone \in SUBSET (current \cup new)
  OBVIOUS
<1> QED BY <1>2, <1>3, <1>7, <1>8, AmongLine DEF LInv

LEMMA NextLine == IInv /\ LInv /\ [TQNext]_tqVars => LInv'
<1> SUFFICES ASSUME IInv, LInv, [TQNext]_tqVars PROVE LInv'
  OBVIOUS
<1>1. ASSUME NEW t \in Txs, NEW retry \in BOOLEAN, import(t, retry) PROVE LInv'
  BY <1>1, ImportLine
<1>2. ASSUME NEW t \in Txs, setFuture(t) \/ drop(t) PROVE LInv'
  <2>1. current' \in SUBSET current /\ order' = Among(order, current')
    BY <1>2 DEF setFuture, drop
  <2> QED BY <2>1, AmongLine DEF LInv
<1>3. ASSUME NEW t \in Txs, dropGood(t) PROVE LInv'
  BY <1>3, DropGoodLine
<1>4. CASE clear
  BY <1>4 DEF clear, LInv, Line
<1>5. CASE UNCHANGED tqVars
  BY <1>5 DEF tqVars, LInv
<1> QED BY <1>1, <1>2, <1>3, <1>4, <1>5 DEF TQNext

\* However the lowest nonces change that PriorityCompare reads, m_current stays in an
\* order in which every transaction has its place (TransactionQueue.h:148).
THEOREM TransactionsStayInLine == TQSpec => []Line(current, order)
<1>1. TQInit => LInv
  BY DEF TQInit, LInv, Line
<1>2. LInv => Line(current, order)
  BY DEF LInv
<1> QED BY InitIInv, NextIInv, <1>1, <1>2, NextLine, PTL DEF TQSpec

-----------------------------------------------------------------------------
(* A place in the order.                                                     *)

Ahead(S, o, t) == {u \in S : <<u, t>> \in o}

LEMMA AheadGrows ==
  ASSUME NEW S \in SUBSET Txs, NEW o, Line(S, o), NEW t \in S, NEW u \in S, <<t, u>> \in o
  PROVE  Cardinality(Ahead(S, o, t)) < Cardinality(Ahead(S, o, u))
<1>1. /\ Ahead(S, o, t) \in SUBSET Ahead(S, o, u)
      /\ t \in Ahead(S, o, u) \ Ahead(S, o, t)
      /\ Ahead(S, o, u) \in SUBSET Txs
  BY DEF Ahead, Line
<1>2. /\ IsFiniteSet(Ahead(S, o, u))
      /\ Cardinality(Ahead(S, o, u)) \in Nat /\ Cardinality(Ahead(S, o, t)) \in Nat
  BY <1>1, TxsFinite
<1>3. Ahead(S, o, t) # Ahead(S, o, u)
  BY <1>1
<1> QED BY <1>1, <1>2, <1>3, FS_Subset

LEMMA AheadBound ==
  ASSUME NEW S \in SUBSET Txs, NEW o, Line(S, o), NEW t \in S
  PROVE  Cardinality(Ahead(S, o, t)) \in 0..(Cardinality(S) - 1)
<1>1. Ahead(S, o, t) \in SUBSET S /\ t \notin Ahead(S, o, t)
  BY DEF Ahead, Line
<1>2. IsFiniteSet(S) /\ Cardinality(S) \in Nat /\ Cardinality(Ahead(S, o, t)) \in Nat
  BY <1>1, TxsFinite
<1>3. Ahead(S, o, t) # S
  BY <1>1
<1>4. Cardinality(Ahead(S, o, t)) < Cardinality(S)
  BY <1>1, <1>2, <1>3, FS_Subset
<1> QED BY <1>2, <1>4

\* No two transactions have the same number of others ahead.
LEMMA OnePerPlace ==
  ASSUME NEW S \in SUBSET Txs, NEW o, Line(S, o), NEW t \in S, NEW u \in S,
         Cardinality(Ahead(S, o, t)) = Cardinality(Ahead(S, o, u))
  PROVE  t = u
<1>1. t = u \/ <<t, u>> \in o \/ <<u, t>> \in o
  BY DEF Line
<1>2. Cardinality(Ahead(S, o, t)) \in Nat
  <2>1. Ahead(S, o, t) \in SUBSET Txs
    BY DEF Ahead
  <2> QED BY <2>1, TxsFinite
<1>3. CASE <<t, u>> \in o
  BY <1>2, <1>3, AheadGrows
<1>4. CASE <<u, t>> \in o
  BY <1>2, <1>4, AheadGrows
<1> QED BY <1>1, <1>3, <1>4

-----------------------------------------------------------------------------
(* The work thread and the queue.                                            *)

Outs == {t \in current \ current' : InSlot(current' \ current, t) # {}}

Inv == /\ working \in Seq(Txs) /\ ts \in Seq(Elements(ts)) /\ pos \in Nat \ {0}
       /\ pc # "pass" => ts = <<>>
       /\ pc = "clear" => working = <<>>
       /\ outbid \subseteq Elements(working) \cup Elements(ts)
       /\ outbid # {} => m_needStateReset

-----------------------------------------------------------------------------
(* Sequences.                                                                *)

LEMMA ElementsOfNone == Elements(<<>>) = {}
  BY DEF Elements, SX!ToSet

LEMMA NoneIsSequence == \A S : <<>> \in Seq(S)
  OBVIOUS

LEMMA ElementsAppended ==
  ASSUME NEW S, NEW s \in Seq(S), NEW t \in S
  PROVE  /\ Elements(Append(s, t)) = Elements(s) \cup {t}
         /\ Append(s, t) \in Seq(S)
<1> DEFINE r == Append(s, t)
<1>1. r \in Seq(S) /\ Len(r) = Len(s) + 1 /\ r[Len(s) + 1] = t
  OBVIOUS
<1>2. DOMAIN s = 1..Len(s) /\ DOMAIN r = 1..(Len(s) + 1) /\ Len(s) \in Nat
  BY <1>1
<1>3. \A i \in 1..Len(s) : r[i] = s[i]
  OBVIOUS
<1> HIDE DEF r
<1>4. {r[i] : i \in DOMAIN r} = {s[i] : i \in DOMAIN s} \cup {t}
  BY <1>1, <1>2, <1>3
<1> QED BY <1>1, <1>4 DEF Elements, SX!ToSet, r

LEMMA OwnElements ==
  ASSUME NEW R, NEW s \in Seq(R)
  PROVE  s \in Seq(Elements(s))
  BY DEF Elements, SX!ToSet

\* A snapshot is a sequence.
LEMMA SnapshotType ==
  ASSUME NEW avoid, IInv
  PROVE  topTransactions(c_maxSyncTransactions, avoid)
            \in Seq(Elements(topTransactions(c_maxSyncTransactions, avoid)))
<1> DEFINE all == InOrder(current \ avoid)
           n == Cardinality(current \ avoid)
           R == {all[i] : i \in 1..n}
           m == IF Len(all) < c_maxSyncTransactions THEN Len(all) ELSE c_maxSyncTransactions
<1>1. n \in Nat
  <2>1. current \ avoid \in SUBSET Txs
    BY InvType
  <2> QED BY <2>1, TxsFinite
<1>2. all \in [1..n -> R]
  BY DEF InOrder
<1>3. all \in Seq(R) /\ Len(all) = n
  <2> HIDE DEF all, n, R
  <2> QED BY <1>1, <1>2
<1>4. m \in Nat /\ m <= Len(all)
  <2> HIDE DEF all, n, R
  <2> QED BY <1>1, <1>3, BoundsAssumption
<1>5. SubSeq(all, 1, m) \in Seq(R)
  <2> HIDE DEF all, n, R, m
  <2> QED BY <1>3, <1>4
<1>6. topTransactions(c_maxSyncTransactions, avoid) = SubSeq(all, 1, m)
  BY DEF topTransactions
<1> HIDE DEF all, n, R, m
<1> QED BY <1>5, <1>6, OwnElements
-----------------------------------------------------------------------------
(* The queue is used by its operations.                                      *)

LEMMA ImportIsQueueStep ==
  ASSUME NEW t \in Txs, NEW retry \in BOOLEAN, Import(t, retry)
  PROVE  [TQNext]_tqVars
  BY DEF Import, TQNext

LEMMA CallIsQueueStep ==
  ASSUME NEW call, Perform(call)
  PROVE  [TQNext]_tqVars
  BY ImportIsQueueStep DEF Perform, TQNext

LEMMA SyncIsQueueStep ==
  ASSUME syncOne
  PROVE  [TQNext]_tqVars
  BY DEF syncOne, execute, reject, wrongNonce, Drop, SetFuture, TQNext

LEMMA StepIsQueueStep == [Next]_vars => [TQNext]_tqVars
<1>1. ASSUME NEW t \in Txs, Submit(t) PROVE [TQNext]_tqVars
  BY <1>1, ImportIsQueueStep DEF Submit
<1>2. CASE clearPending
  BY <1>2 DEF clearPending, TQNext
<1>3. CASE NextCall
  BY <1>3, CallIsQueueStep DEF NextCall
<1>4. CASE syncOne
  BY <1>4, SyncIsQueueStep
<1>5. CASE \/ submitSealed \/ syncBlockQueue \/ noBlocks \/ resyncStateFromChain
           \/ resyncDone \/ resetState \/ resetDone \/ checkSync \/ skipSync
           \/ syncBegin \/ syncPass \/ publish \/ announce \/ rejigSealing
  <2>1. UNCHANGED tqVars
    BY <1>5 DEF submitSealed, syncBlockQueue, noBlocks, resyncStateFromChain,
                resyncDone, resetState, resetDone, checkSync, skipSync, syncBegin,
                syncPass, publish, announce, rejigSealing
  <2> QED BY <2>1
<1>6. CASE UNCHANGED vars
  BY <1>6 DEF vars
<1> QED BY <1>1, <1>2, <1>3, <1>4, <1>5, <1>6 DEF Next, WorkThread, Others

\* The client and everybody else use the queue as TransactionQueue allows: each of its
\* theorems holds of it here.
THEOREM ClientUsesQueue == Spec => TQSpec
<1>1. Init => TQInit
  BY DEF Init
<1> QED BY <1>1, StepIsQueueStep, PTL DEF Spec, TQSpec

LEMMA QueueInvariant == Spec => []IInv
  BY ClientUsesQueue, InitIInv, NextIInv, PTL DEF TQSpec

-----------------------------------------------------------------------------
(* Who replaces a current transaction.                                       *)

LEMMA ImportReplaces ==
  ASSUME IInv, NEW x \in Txs, NEW retry \in BOOLEAN, Import(x, retry)
  PROVE  Outs # {} => m_needStateReset'
<1> SUFFICES ASSUME NEW t \in Outs PROVE m_needStateReset'
  OBVIOUS
<1>1. /\ current \in SUBSET Txs /\ future \in SUBSET Txs /\ current \cap future = {}
      /\ byNonce = current
      /\ \A a, b \in current \cup future : SameSlot(a, b) => a = b
  BY InvType
<1>2. CASE import(x, retry)
  <2> DEFINE rc == InSlot(current, x)
             rf == InSlot(future, x)
             run == Following(future \ rf, x)
  <2>1. current' \subseteq (current \ rc) \cup {x} \cup run
    BY <1>2, ImportMoves
  <2>2. run \subseteq future
    BY <1>1, FollowingIsPart
  <2>3. PICK u \in current' \ current : SameSlot(t, u)
    BY DEF Outs, InSlot
  <2>4. t \in current /\ t \notin future
    BY <1>1 DEF Outs
  <2>5. u \notin future
    BY <1>1, <2>3, <2>4
  <2>6. u = x
    BY <2>1, <2>2, <2>3, <2>5
  <2>7. t \in Rivals(x).current
    BY <1>1, <2>3, <2>4, <2>6 DEF Rivals, InSlot, SameSlot
  <2> QED BY <1>2, <2>7 DEF Import, Signals, Replaced, import, Admitted, Outbids
<1>3. CASE UNCHANGED <<tqVars, flagVars>>
  BY <1>3 DEF Outs, tqVars
<1> QED BY <1>2, <1>3 DEF Import

LEMMA OthersReplaceNothing ==
  ASSUME IInv, NEW x \in Txs, setFuture(x) \/ drop(x) \/ dropGood(x) \/ clear
  PROVE  Outs = {}
<1>1. /\ current \in SUBSET Txs /\ future \in SUBSET Txs /\ current \cap future = {}
      /\ \A a, b \in current \cup future : SameSlot(a, b) => a = b
  BY InvType
<1>2. CASE dropGood(x)
  <2>1. current' \ current \subseteq future
    BY <1>2, DropGoodMoves
  <2> QED BY <1>1, <2>1 DEF Outs, InSlot
<1>3. CASE setFuture(x)
  BY <1>3, SetFutureMoves DEF Outs, InSlot
<1>4. CASE drop(x)
  BY <1>4, DropMoves DEF Outs, InSlot
<1>5. CASE clear
  BY <1>5 DEF clear, Outs, InSlot
<1> QED BY <1>2, <1>3, <1>4, <1>5

LEMMA UnchangedReplacesNothing == UNCHANGED tqVars => Outs = {}
  BY DEF tqVars, Outs, InSlot

LEMMA CallReplaces ==
  ASSUME IInv, NEW call, Perform(call)
  PROVE  /\ Outs # {} => m_needStateReset'
         /\ m_needStateReset => m_needStateReset'
<1>1. ASSUME NEW t \in Txs, NEW retry \in BOOLEAN, Import(t, retry)
      PROVE  m_needStateReset => m_needStateReset'
  BY <1>1 DEF Import, Signals, flagVars
<1>2. ASSUME NEW t \in Txs, dropGood(t), Signals(Following(future, t) # {}, FALSE)
      PROVE  m_needStateReset => m_needStateReset'
  BY <1>2 DEF Signals
<1> QED BY <1>1, <1>2, ImportReplaces, OthersReplaceNothing DEF Perform

LEMMA SyncReplacesNothing ==
  ASSUME IInv, syncOne
  PROVE  Outs = {}
<1>1. PICK t \in Txs : \/ setFuture(t) \/ drop(t) \/ UNCHANGED tqVars
  BY DEF syncOne, execute, reject, wrongNonce, Drop, SetFuture
<1> QED BY <1>1, OthersReplaceNothing, UnchangedReplacesNothing

-----------------------------------------------------------------------------
(* The invariant.                                                            *)

LEMMA InitInv == Init => Inv
<1> SUFFICES ASSUME Init PROVE Inv
  OBVIOUS
<1>1. working = <<>> /\ ts = <<>> /\ pos = 1 /\ outbid = {} /\ pc = "start"
  BY DEF Init
<1> QED BY <1>1, OwnElements DEF Inv

\* A step that leaves the snapshot alone, and m_working or empties it.
LEMMA InvFrom ==
  ASSUME Inv, History,
         ts' = ts /\ pos' \in Nat \ {0},
         pc' # "pass" => ts = <<>>,
         pc' = "clear" => working' = <<>>,
         working' = working \/ working' = <<>>,
         Outs # {} => m_needStateReset',
         m_needStateReset => m_needStateReset'
  PROVE  Inv'
<1>1. Elements(working') \subseteq Elements(working)
  BY ElementsOfNone
<1>2. outbid' \subseteq (outbid \cup Outs) \cap (Elements(working') \cup Elements(ts'))
  BY DEF History, Outs
<1>3. working' \in Seq(Txs)
  BY NoneIsSequence DEF Inv
<1> QED BY <1>1, <1>2, <1>3 DEF Inv, Elements

LEMMA OthersKeep ==
  ASSUME IInv, Inv, History, Others
  PROVE  Inv'
<1>1. ASSUME NEW t \in Txs, Submit(t) PROVE Inv'
  <2>1. Import(t, FALSE) /\ UNCHANGED <<ts, pos, pc, working>>
    BY <1>1 DEF Submit, workVars, syncVars
  <2>2. m_needStateReset => m_needStateReset'
    BY <2>1 DEF Import, Signals, flagVars
  <2> QED BY <2>1, <2>2, ImportReplaces, InvFrom DEF Inv
<1>2. CASE clearPending
  <2>1. clear /\ UNCHANGED <<ts, pos, pc, working, m_needStateReset>>
    BY <1>2 DEF clearPending, workVars, syncVars, flagVars
  <2>2. Outs = {}
    BY <2>1 DEF clear, Outs, InSlot
  <2> QED BY <2>1, <2>2, InvFrom DEF Inv
<1>3. CASE submitSealed
  <2>1. UNCHANGED <<tqVars, ts, pos, pc, working, m_needStateReset>>
    BY <1>3 DEF submitSealed, syncVars, flagVars
  <2> QED BY <2>1, UnchangedReplacesNothing, InvFrom DEF Inv
<1> QED BY <1>1, <1>2, <1>3 DEF Others

LEMMA ChainStepsKeep ==
  ASSUME IInv, Inv, History,
         syncBlockQueue \/ noBlocks \/ NextCall \/ resyncStateFromChain \/ resyncDone
  PROVE  Inv'
<1>1. CASE NextCall
  <2>1. Perform(Head(calls)) /\ UNCHANGED <<ts, pos, pc, working>>
    BY <1>1 DEF NextCall, workVars, syncVars
  <2> QED BY <2>1, CallReplaces, InvFrom DEF Inv
<1>2. CASE syncBlockQueue \/ noBlocks \/ resyncStateFromChain \/ resyncDone
  <2> DEFINE Small == /\ UNCHANGED <<tqVars, ts, pos>>
                      /\ pc # "pass" /\ pc' # "clear"
                      /\ working' = working \/ working' = <<>>
                      /\ m_needStateReset => m_needStateReset'
  <2>3. ASSUME syncBlockQueue PROVE Small
    BY <2>3 DEF syncBlockQueue, workVars, syncVars, flagVars
  <2>4. ASSUME noBlocks PROVE Small
    BY <2>4 DEF noBlocks, workVars, syncVars, flagVars
  <2>5. ASSUME resyncStateFromChain PROVE Small
    BY <2>5 DEF resyncStateFromChain, Fresh, Signals, workVars, syncVars, flagVars
  <2>6. ASSUME resyncDone PROVE Small
    BY <2>6 DEF resyncDone, Signals, workVars, syncVars
  <2>1. Small
    BY <1>2, <2>3, <2>4, <2>5, <2>6
  <2>2. pc' # "pass" => ts = <<>>
    BY <2>1 DEF Inv
  <2> QED BY <2>1, <2>2, UnchangedReplacesNothing, InvFrom DEF Inv
<1> QED BY <1>1, <1>2

LEMMA WorkStepsKeep ==
  ASSUME IInv, Inv, History,
         \/ resetState \/ checkSync \/ skipSync \/ publish \/ announce \/ rejigSealing
  PROVE  Inv'
<1> DEFINE Small == /\ UNCHANGED <<tqVars, ts, pos>>
                    /\ pc # "pass"
                    /\ pc' = "clear" => working' = <<>>
                    /\ working' = working \/ working' = <<>>
                    /\ m_needStateReset => m_needStateReset'
<1>3. ASSUME resetState PROVE Small
  BY <1>3 DEF resetState, Fresh, Signals, syncVars, flagVars
<1>4. ASSUME checkSync PROVE Small
  BY <1>4 DEF checkSync, workVars, syncVars, flagVars
<1>5. ASSUME skipSync PROVE Small
  BY <1>5 DEF skipSync, workVars, syncVars, flagVars
<1>6. ASSUME publish PROVE Small
  BY <1>6 DEF publish, workVars, syncVars, flagVars
<1>7. ASSUME announce PROVE Small
  BY <1>7 DEF announce, workVars, flagVars
<1>8. ASSUME rejigSealing PROVE Small
  BY <1>8 DEF rejigSealing, syncVars, flagVars
<1>1. Small
  BY <1>3, <1>4, <1>5, <1>6, <1>7, <1>8
<1>2. pc' # "pass" => ts = <<>>
  BY <1>1 DEF Inv
<1> QED BY <1>1, <1>2, UnchangedReplacesNothing, InvFrom DEF Inv

LEMMA ResetDoneKeeps ==
  ASSUME Inv, History, resetDone
  PROVE  Inv'
<1>1. /\ working = <<>> /\ ts = <<>> /\ UNCHANGED <<tqVars, ts, pos, working>>
      /\ pc' = "check"
  BY DEF Inv, resetDone, workVars, syncVars
<1>2. outbid' = {}
  BY <1>1, ElementsOfNone DEF History
<1> QED BY <1>1, <1>2 DEF Inv, Elements

LEMMA SyncBeginKeeps ==
  ASSUME IInv, Inv, History, syncBegin
  PROVE  Inv'
<1>1. /\ ts' \in Seq(Elements(ts'))
      /\ UNCHANGED <<tqVars, working, m_needStateReset>>
      /\ pos' = 1 /\ pc' = "pass" /\ ts = <<>>
  BY SnapshotType DEF syncBegin, Inv, workVars, flagVars
<1>2. outbid' \subseteq outbid \cap (Elements(working') \cup Elements(ts'))
  BY <1>1, UnchangedReplacesNothing DEF History, Outs
<1> QED BY <1>1, <1>2 DEF Inv, Elements

LEMMA SyncOneKeeps ==
  ASSUME IInv, Inv, History, syncOne
  PROVE  Inv'
<1>1. PICK t \in Txs : /\ ts[pos] = t
                       /\ working' = working \/ working' = Append(working, t)
  BY DEF syncOne, execute, reject, wrongNonce
<1>2. /\ UNCHANGED <<ts, pc, m_needStateReset>> /\ pc = "pass"
      /\ pos' = pos + 1 /\ pos <= Len(ts)
  BY DEF syncOne, flagVars
<1>3. t \in Elements(ts)
  BY <1>1, <1>2 DEF Inv, Elements, SX!ToSet
<1>4. working' \in Seq(Txs) /\ Elements(working') \subseteq Elements(working) \cup {t}
  <2>1. working \in Seq(Txs)
    BY DEF Inv
  <2>2. CASE working' = working
    BY <2>1, <2>2
  <2>3. CASE working' = Append(working, t)
    BY <2>1, <2>3, ElementsAppended
  <2> QED BY <1>1, <2>2, <2>3
<1>5. outbid' \subseteq outbid \cap (Elements(working') \cup Elements(ts'))
  BY SyncReplacesNothing DEF History, Outs
<1>6. pos' \in Nat \ {0}
  BY <1>2 DEF Inv
<1> QED BY <1>2, <1>4, <1>5, <1>6 DEF Inv

LEMMA SyncPassKeeps ==
  ASSUME IInv, Inv, History, syncPass
  PROVE  Inv'
<1>1. /\ UNCHANGED <<tqVars, working, m_needStateReset>> /\ pos' = 1
      /\ \/ ts' = ts /\ pc' = "pass"
         \/ ts' = <<>> /\ pc' \in {"rejig", "publish"}
  BY DEF syncPass, workVars
<1>2. outbid' \subseteq outbid \cap (Elements(working') \cup Elements(ts'))
  BY <1>1, UnchangedReplacesNothing DEF History, Outs
<1>3. ts' \in Seq(Elements(ts'))
  BY <1>1, NoneIsSequence DEF Inv, Elements
<1> QED BY <1>1, <1>2, <1>3 DEF Inv

LEMMA NextInv == IInv /\ Inv /\ [Next]_vars => Inv'
<1> SUFFICES ASSUME IInv, Inv, [Next]_vars PROVE Inv'
  OBVIOUS
<1>1. CASE UNCHANGED vars
  BY <1>1 DEF vars, Inv, Elements, workVars, syncVars, flagVars, historyVars
<1>2. CASE Next
  BY <1>2, OthersKeep, ChainStepsKeep, WorkStepsKeep, ResetDoneKeeps, SyncBeginKeeps,
     SyncOneKeeps, SyncPassKeeps DEF Next, WorkThread
<1> QED BY <1>1, <1>2

\* A transaction that was outbid while it was current does not stay in the block being
\* mined: m_needStateReset is up as long as it is there, wherever the work thread stands
\* when the import comes (Client.cpp:673).
THEOREM ClientOutbidIsReset == Spec => []OutbidIsReset
<1>1. Inv => OutbidIsReset
  BY DEF Inv, OutbidIsReset
<1> QED BY InitInv, NextInv, QueueInvariant, <1>1, PTL DEF Spec

-----------------------------------------------------------------------------
(* Least and greatest numbers, and what a batch makes of the chain.          *)

LEMMA LeastNumber ==
  ASSUME NEW T \in SUBSET Nat, T # {}
  PROVE  \E n \in T : \A m \in T : n <= m
<1> DEFINE R == OpToRel(<, Nat)
<1>1. IsWellFoundedOn(R, Nat)
  BY NatLessThanWellFounded
<1>2. \A m, n \in Nat : m < n => <<m, n>> \in R
  BY DEF OpToRel
<1> HIDE DEF R
<1>3. PICK n \in T : \A m \in T : ~(<<m, n>> \in R)
  BY <1>1, WFMin
<1>4. \A m \in T : ~(m < n)
  BY <1>2, <1>3
<1> QED BY <1>4

LEMMA MaxIsThere ==
  ASSUME NEW n \in Nat, NEW s \in SUBSET (1..n), s # {}
  PROVE  SX!Max(s) \in s
<1> DEFINE U == {m \in Nat : \A x \in s : x <= m}
<1>1. n \in U
  OBVIOUS
<1>2. PICK m \in U : \A k \in U : m <= k
  <2> HIDE DEF U
  <2>1. U \in SUBSET Nat
    BY DEF U
  <2> QED BY <1>1, <2>1, LeastNumber
<1>3. m \in s
  <2> SUFFICES ASSUME m \notin s PROVE FALSE
    OBVIOUS
  <2>1. \A x \in s : x \in Nat /\ x >= 1 /\ x <= m /\ x # m
    BY <1>2
  <2>2. m - 1 \in U
    <3>1. PICK x \in s : TRUE
      OBVIOUS
    <3>2. m \in Nat /\ m > x /\ x \in Nat
      BY <2>1, <1>2, <3>1
    <3>3. m - 1 \in Nat
      BY <3>2
    <3>4. \A y \in s : y <= m - 1
      BY <2>1, <1>2
    <3> QED BY <3>3, <3>4
  <2>3. m \in Nat
    BY <1>2
  <2>4. m <= m - 1
    BY <1>2, <2>2
  <2> QED BY <2>3, <2>4
<1>4. \E x \in s : \A y \in s : x >= y
  BY <1>2, <1>3
<1> QED BY <1>4 DEF SX!Max

\* One sequence behind another.
LEMMA ElementsJoined ==
  ASSUME NEW S, NEW a \in Seq(S), NEW b \in Seq(S)
  PROVE  a \o b \in Seq(S) /\ Elements(a \o b) = Elements(a) \cup Elements(b)
<1> DEFINE r == a \o b
<1>1. /\ Len(a) \in Nat /\ Len(b) \in Nat /\ DOMAIN a = 1..Len(a) /\ DOMAIN b = 1..Len(b)
      /\ r \in Seq(S) /\ Len(r) = Len(a) + Len(b)
  OBVIOUS
<1>2. \A i \in 1..Len(a) : r[i] = a[i]
  OBVIOUS
<1>3. \A i \in 1..Len(b) : r[Len(a) + i] = b[i]
  OBVIOUS
<1>4. DOMAIN r = 1..(Len(a) + Len(b))
  BY <1>1
<1> HIDE DEF r
<1>5. \A i \in DOMAIN r : r[i] \in Elements(a) \cup Elements(b)
  <2> TAKE i \in DOMAIN r
  <2>1. CASE i \in 1..Len(a)
    BY <1>1, <1>2, <2>1 DEF Elements, SX!ToSet
  <2>2. CASE i \notin 1..Len(a)
    <3>1. i - Len(a) \in 1..Len(b) /\ Len(a) + (i - Len(a)) = i
      BY <1>1, <1>4, <2>2
    <3>2. r[i] = b[i - Len(a)]
      BY <1>3, <3>1
    <3> QED BY <1>1, <3>1, <3>2 DEF Elements, SX!ToSet
  <2> QED BY <2>1, <2>2
<1>6. \A x \in Elements(a) \cup Elements(b) : \E i \in DOMAIN r : r[i] = x
  <2>1. ASSUME NEW i \in 1..Len(a) PROVE i \in DOMAIN r
    BY <1>1, <1>4
  <2>2. ASSUME NEW i \in 1..Len(b) PROVE Len(a) + i \in DOMAIN r
    BY <1>1, <1>4
  <2> QED BY <1>1, <1>2, <1>3, <2>1, <2>2 DEF Elements, SX!ToSet
<1>7. Elements(r) = Elements(a) \cup Elements(b)
  BY <1>5, <1>6 DEF Elements, SX!ToSet
<1> QED BY <1>1, <1>7 DEF r

\* FlattenSeq keeps what is in any of the sequences, and no more.
LEMMA Flattened ==
  ASSUME NEW T, NEW s \in Seq(Seq(T))
  PROVE  /\ SX!FlattenSeq(s) \in Seq(T)
         /\ Elements(SX!FlattenSeq(s)) = UNION {Elements(s[i]) : i \in DOMAIN s}
<1> DEFINE n == Len(s)
           body(f, i) == IF i = 1 THEN s[i] ELSE f[i - 1] \o s[i]
           Solves(f, k) == f = [i \in 1..k |-> body(f, i)]
<1>1. n \in Nat /\ DOMAIN s = 1..n /\ \A i \in 1..n : s[i] \in Seq(T)
  OBVIOUS
<1>2. CASE n = 0
  <2>1. SX!FlattenSeq(s) = s /\ DOMAIN s = {} /\ s = <<>>
    BY <1>1, <1>2 DEF SX!FlattenSeq
  <2> QED BY <2>1, ElementsOfNone
<1>3. CASE n # 0
  <2>1. \A k \in Nat : \E f : Solves(f, k)
    <3> DEFINE U == {k \in Nat : ~ \E f : Solves(f, k)}
    <3> SUFFICES ASSUME U # {} PROVE FALSE
      OBVIOUS
    <3>1. PICK k \in U : \A m \in U : k <= m
      <4>1. U \in SUBSET Nat
        OBVIOUS
      <4> HIDE DEF U
      <4> QED BY <4>1, LeastNumber
    <3>2. k \in Nat /\ ~(\E f : Solves(f, k))
      BY <3>1
    <3>3. \A j \in Nat : j < k => \E f : Solves(f, j)
      <4>1. \A j \in Nat : j < k => j \notin U
        <5> HIDE DEF U
        <5> QED BY <3>1, <3>2
      <4> HIDE DEF Solves
      <4>2. \A j \in Nat : j \notin U => \E f : Solves(f, j)
        BY Zenon
      <4> QED BY <4>1, <4>2, Zenon
    <3> HIDE DEF U
    <3>4. CASE k = 0
      <4> DEFINE none == [i \in 1..k |-> <<>>]
      <4>1. \A i \in 1..k : <<>> = body(none, i)
        BY <3>4
      <4>2. none = [i \in 1..k |-> body(none, i)]
        <5> DEFINE rest(i) == body(none, i)
        <5> HIDE DEF rest
        <5>1. \A i \in 1..k : <<>> = rest(i)
          BY <4>1 DEF rest
        <5>2. none = [i \in 1..k |-> rest(i)]
          BY <5>1
        <5> QED BY <5>2 DEF rest
      <4> QED BY <4>2, <3>2
    <3>5. CASE k # 0
      <4>1. k - 1 \in Nat /\ k - 1 < k
        BY <3>2, <3>5
      <4>2. PICK g : Solves(g, k - 1)
        BY <4>1, <3>3
      <4> DEFINE h == [i \in 1..k |-> body(g, i)]
      <4>3. \A i \in 1..(k - 1) : g[i] = body(g, i)
        <5> HIDE DEF body
        <5> QED BY <4>2
      <4>4. \A i \in 1..k : h[i] = body(g, i)
        <5> HIDE DEF body
        <5> QED OBVIOUS
      <4>6. \A i \in 1..(k - 1) : i \in 1..k
        BY <3>2
      <4>5. ASSUME NEW i \in 1..k PROVE body(g, i) = body(h, i)
        <5>1. CASE i = 1
          BY <5>1
        <5>2. CASE i # 1
          <6>1. i - 1 \in 1..(k - 1)
            BY <3>2, <5>2
          <6> HIDE DEF h
          <6>2. h[i - 1] = g[i - 1]
            <7> HIDE DEF body
            <7> QED BY <6>1, <4>3, <4>4, <4>6
          <6> QED BY <6>2
        <5> QED BY <5>1, <5>2
      <4>7. h = [i \in 1..k |-> body(h, i)]
        <5>1. h = [i \in 1..k |-> body(g, i)]
          OBVIOUS
        <5> HIDE DEF h, body
        <5> QED BY <4>5, <5>1
      <4> QED BY <4>7, <3>2
    <3> QED BY <3>4, <3>5
  <2> DEFINE it == CHOOSE f : Solves(f, n)
  <2>2. Solves(it, n)
    <3> HIDE DEF Solves
    <3> QED BY <1>1, <2>1
  <2>3. SX!FlattenSeq(s) = it[n]
    BY <1>3 DEF SX!FlattenSeq
  <2>4. \A i \in 1..n : it[i] = body(it, i)
    <3> HIDE DEF it, body
    <3> QED BY <2>2
  <2> HIDE DEF it
  <2> DEFINE Good(i) == it[i] \in Seq(T) /\ Elements(it[i]) = UNION {Elements(s[j]) : j \in 1..i}
  <2>5. \A i \in 1..n : Good(i)
    <3> DEFINE U == {i \in 1..n : ~Good(i)}
    <3> SUFFICES ASSUME U # {} PROVE FALSE
      OBVIOUS
    <3>1. PICK i \in U : \A m \in U : i <= m
      <4>1. U \in SUBSET Nat
        OBVIOUS
      <4> HIDE DEF U
      <4> QED BY <4>1, LeastNumber
    <3>2. i \in 1..n /\ ~Good(i) /\ s[i] \in Seq(T)
      BY <1>1, <3>1
    <3>3. \A j \in 1..n : j < i => Good(j)
      <4> HIDE DEF Good, n
      <4>1. \A j \in 1..n : j \in U => i <= j
        BY <3>1
      <4>2. \A j \in 1..n : j < i => j \notin U
        BY <1>1, <3>2, <4>1
      <4> QED BY <4>2
    <3> HIDE DEF U
    <3>4. CASE i = 1
      <4>1. it[i] = s[i]
        BY <2>4, <3>2, <3>4
      <4>2. 1..i = {i}
        BY <3>4
      <4> QED BY <4>1, <4>2, <3>2
    <3>5. CASE i # 1
      <4>1. i - 1 \in 1..n /\ i - 1 < i
        BY <1>1, <3>2, <3>5
      <4>2. it[i] = it[i - 1] \o s[i]
        BY <2>4, <3>2, <3>5
      <4>3. Good(i - 1)
        BY <3>3, <4>1
      <4>4. it[i] \in Seq(T) /\ Elements(it[i]) = Elements(it[i - 1]) \cup Elements(s[i])
        BY <3>2, <4>2, <4>3, ElementsJoined
      <4>5. 1..i = (1..(i - 1)) \cup {i}
        BY <1>1, <3>2
      <4> QED BY <3>2, <4>3, <4>4, <4>5
    <3> QED BY <3>4, <3>5
  <2>6. n \in 1..n
    BY <1>1, <1>3
  <2> QED BY <1>1, <2>3, <2>5, <2>6
<1> QED BY <1>2, <1>3

\* The transactions of a chain are those of its blocks.
LEMMA TxsOfChain ==
  ASSUME NEW c \in Seq(Seq(Txs))
  PROVE  TxsOf(c) = UNION {Elements(c[i]) : i \in DOMAIN c}
  BY Flattened DEF TxsOf

\* Two chains are the same up to where they part.
LEMMA CommonFacts ==
  ASSUME NEW S, NEW c \in Seq(S), NEW d \in Seq(S)
  PROVE  /\ Common(c, d) \in Nat /\ Common(c, d) <= Len(c) /\ Common(c, d) <= Len(d)
         /\ \A i \in 1..Common(c, d) : c[i] = d[i]
<1> DEFINE P == SX!CommonPrefixes({c, d})
<1>1. \A p \in P : /\ p \in Seq(S) /\ Len(p) \in Nat /\ Len(p) <= Len(c) /\ Len(p) <= Len(d)
                   /\ \A i \in 1..Len(p) : c[i] = d[i]
  <2> TAKE p \in P
  <2>1. SX!IsPrefix(p, c) /\ SX!IsPrefix(p, d)
    BY DEF SX!CommonPrefixes
  <2>2. p \in SX!Prefixes(c) \cup SX!Prefixes(d)
    BY DEF SX!CommonPrefixes
  <2>3. PICK e \in {c, d} : p \in SX!Prefixes(e)
    BY <2>2
  <2>4. PICK l \in 0..Len(e) : p = SubSeq(e, 1, l)
    BY <2>3 DEF SX!Prefixes
  <2>5. p \in Seq(S)
    <3>1. e \in Seq(S) /\ l \in Nat /\ l <= Len(e)
      BY <2>3, <2>4
    <3> QED BY <2>4, <3>1
  <2>6. Len(p) \in Nat /\ Len(p) <= Len(c) /\ Len(p) <= Len(d)
    BY <2>1, <2>5 DEF SX!IsPrefix
  <2>7. SubSeq(c, 1, Len(p)) = SubSeq(d, 1, Len(p))
    BY <2>1 DEF SX!IsPrefix
  <2>8. ASSUME NEW i \in 1..Len(p) PROVE c[i] = d[i]
    <3>1. SubSeq(c, 1, Len(p))[i] = c[i]
      BY <2>6
    <3>2. SubSeq(d, 1, Len(p))[i] = d[i]
      BY <2>6
    <3> QED BY <2>7, <3>1, <3>2
  <2> QED BY <2>5, <2>6, <2>8
<1>2. <<>> \in P
  <2>1. <<>> = SubSeq(c, 1, 0) /\ <<>> = SubSeq(d, 1, 0) /\ 0 \in 0..Len(c)
    OBVIOUS
  <2>2. <<>> \in SX!Prefixes(c)
    BY <2>1 DEF SX!Prefixes
  <2>3. SX!IsPrefix(<<>>, c) /\ SX!IsPrefix(<<>>, d)
    BY DEF SX!IsPrefix
  <2> QED BY <2>2, <2>3 DEF SX!CommonPrefixes
<1> HIDE DEF P
<1> DEFINE short(p) == Len(c) - Len(p)
           T == {short(p) : p \in P}
<1>3. \E p \in P : \A o \in P : Len(o) <= Len(p)
  <2>1. \A p \in P : short(p) \in Nat
    BY <1>1
  <2>2. T \in SUBSET Nat /\ T # {}
    BY <1>2, <2>1
  <2>3. PICK n \in T : \A m \in T : n <= m
    <3> HIDE DEF T
    <3> QED BY <2>2, LeastNumber
  <2>4. PICK p \in P : n = short(p)
    BY <2>3
  <2>5. ASSUME NEW o \in P PROVE Len(o) <= Len(p)
    <3>1. short(p) <= short(o)
      BY <2>3, <2>4
    <3> QED BY <1>1, <3>1
  <2> QED BY <2>5
<1> DEFINE longest == CHOOSE p \in P : \A o \in P : Len(o) <= Len(p)
<1>4. longest \in P
  BY <1>3
<1>5. Common(c, d) = Len(longest)
  BY DEF Common, SX!LongestCommonPrefix, P
<1> HIDE DEF longest
<1> QED BY <1>1, <1>4, <1>5

\* What a chain has and another one has not is in the blocks that die.
LEMMA DeadHasTheRest ==
  ASSUME NEW c \in Seq(Seq(Txs)), NEW d \in Seq(Seq(Txs))
  PROVE  /\ Dead(c, d) \in Seq(Seq(Txs))
         /\ TxsOf(c) \subseteq TxsOf(d) \cup TxsOf(Dead(c, d))
<1> DEFINE k == Common(c, d)
           tail == SubSeq(c, k + 1, Len(c))
           S == Seq(Txs)
<1>1. /\ k \in Nat /\ k <= Len(c) /\ k <= Len(d) /\ \A i \in 1..k : c[i] = d[i]
  BY CommonFacts
<1>2. c \in Seq(S) /\ d \in Seq(S)
  OBVIOUS
<1> HIDE DEF k, S
<1>3. /\ tail \in Seq(S) /\ Len(tail) = Len(c) - k
      /\ \A i \in 1..(Len(c) - k) : tail[i] = c[k + i]
  BY <1>1, <1>2
<1> HIDE DEF tail
<1>4. Dead(c, d) = [i \in 1..Len(tail) |-> tail[(Len(tail) - i) + 1]]
  BY DEF Dead, SX!Reverse, k, tail
<1>5. Len(tail) \in Nat
  BY <1>3
<1>6. \A i \in 1..Len(tail) : (Len(tail) - i) + 1 \in 1..Len(tail)
  BY <1>5
<1>7. \A i \in 1..Len(tail) : tail[i] \in S
  BY <1>3
<1>8. Dead(c, d) \in [1..Len(tail) -> S]
  BY <1>4, <1>6, <1>7
<1>9. Dead(c, d) \in Seq(S) /\ DOMAIN Dead(c, d) = 1..Len(tail)
  <2> DEFINE m == Len(tail)  D == Dead(c, d)
  <2>1. m \in Nat /\ D \in [1..m -> S]
    BY <1>5, <1>8
  <2> HIDE DEF m, D
  <2>2. D \in Seq(S) /\ DOMAIN D = 1..m
    BY <2>1
  <2> QED BY <2>2 DEF m, D
<1>10. ASSUME NEW t \in TxsOf(c) PROVE t \in TxsOf(d) \cup TxsOf(Dead(c, d))
  <2>1. PICK i \in DOMAIN c : t \in Elements(c[i])
    BY <1>10, TxsOfChain
  <2>2. i \in 1..Len(c)
    OBVIOUS
  <2>3. CASE i <= k
    <3>1. i \in DOMAIN d /\ c[i] = d[i]
      BY <1>1, <1>2, <2>2, <2>3
    <3> QED BY <2>1, <3>1, TxsOfChain
  <2>4. CASE i > k
    <3> DEFINE j == (Len(tail) - (i - k)) + 1
    <3>1. Len(c) \in Nat
      BY <1>2
    <3>2. j \in 1..Len(tail) /\ (Len(tail) - j) + 1 = i - k /\ i - k \in 1..(Len(c) - k)
          /\ k + (i - k) = i
      <4> DEFINE l == Len(c)  m == Len(tail)
      <4>1. l \in Nat /\ k \in Nat /\ k <= l /\ m = l - k /\ i \in 1..l /\ i > k
        BY <1>1, <1>3, <2>2, <2>4, <3>1
      <4> HIDE DEF l, m
      <4>2. /\ (m - (i - k)) + 1 \in 1..m /\ (m - ((m - (i - k)) + 1)) + 1 = i - k
            /\ i - k \in 1..(l - k) /\ k + (i - k) = i
        BY <4>1
      <4> QED BY <4>2 DEF l, m
    <3> HIDE DEF j
    <3>3. Dead(c, d)[j] = tail[i - k] /\ tail[i - k] = c[i]
      BY <1>3, <1>4, <3>2
    <3>4. t \in Elements(Dead(c, d)[j]) /\ j \in DOMAIN Dead(c, d)
      BY <1>9, <2>1, <3>2, <3>3
    <3>5. Dead(c, d) \in Seq(Seq(Txs))
      BY <1>9 DEF S
    <3> HIDE DEF Dead
    <3> QED BY <3>4, <3>5, TxsOfChain
  <2> QED BY <1>1, <2>2, <2>3, <2>4
<1> QED BY <1>9, <1>10 DEF S

LEMMA TxsOfJoined ==
  ASSUME NEW c \in Seq(Seq(Txs)), NEW d \in Seq(Seq(Txs))
  PROVE  c \o d \in Seq(Seq(Txs)) /\ TxsOf(c \o d) = TxsOf(c) \cup TxsOf(d)
<1> DEFINE r == c \o d
<1>1. r \in Seq(Seq(Txs)) /\ Elements(r) = Elements(c) \cup Elements(d)
  BY ElementsJoined
<1> HIDE DEF r
<1>2. \A s \in Seq(Seq(Txs)) : TxsOf(s) = UNION {Elements(x) : x \in Elements(s)}
  <2> TAKE s \in Seq(Seq(Txs))
  <2>1. TxsOf(s) = UNION {Elements(s[i]) : i \in DOMAIN s}
    BY TxsOfChain
  <2>2. Elements(s) = {s[i] : i \in DOMAIN s}
    BY DEF Elements, SX!ToSet
  <2>3. UNION {Elements(s[i]) : i \in DOMAIN s} = UNION {Elements(x) : x \in {s[i] : i \in DOMAIN s}}
    OBVIOUS
  <2> QED BY <2>1, <2>2, <2>3
<1>3. TxsOf(r) = TxsOf(c) \cup TxsOf(d)
  BY <1>1, <1>2
<1> QED BY <1>1, <1>3 DEF r

\* What BlockChain::sync goes through, one block after the other: the recursive function
\* it is defined by is one.  The head is the old one or of the batch; what is not in it any
\* more is among the dead.
SyncedFrom(b, c, r) ==
    /\ r.head \in {c} \cup Elements(b)
    /\ r.live => r.head \in Elements(b)
    /\ {c} \cup Elements(b) \subseteq Seq(Seq(Txs)) =>
            r.dead \in Seq(Seq(Txs)) /\ TxsOf(c) \subseteq TxsOf(r.head) \cup TxsOf(r.dead)

LEMMA RoutedFrom ==
  ASSUME NEW b, NEW c, NEW r, SyncedFrom(b, c, r), NEW d \in Elements(b)
  PROVE  SyncedFrom(b, c, Routed(r, d))
<1>1. CASE ~(Len(d) > Len(r.head))
  BY <1>1 DEF Routed
<1>2. CASE Len(d) > Len(r.head)
  <2> DEFINE q == Routed(r, d)
             dead == Dead(r.head, d)
  <2>1. q.head = d /\ q.dead = r.dead \o dead
    BY <1>2 DEF Routed
  <2> HIDE DEF q
  <2>2. ASSUME {c} \cup Elements(b) \subseteq Seq(Seq(Txs))
        PROVE  q.dead \in Seq(Seq(Txs)) /\ TxsOf(c) \subseteq TxsOf(q.head) \cup TxsOf(q.dead)
    <3>1. /\ r.head \in Seq(Seq(Txs)) /\ d \in Seq(Seq(Txs)) /\ r.dead \in Seq(Seq(Txs))
          /\ TxsOf(c) \subseteq TxsOf(r.head) \cup TxsOf(r.dead)
      BY <2>2 DEF SyncedFrom
    <3>2. dead \in Seq(Seq(Txs)) /\ TxsOf(r.head) \subseteq TxsOf(d) \cup TxsOf(dead)
      BY <3>1, DeadHasTheRest
    <3> HIDE DEF dead
    <3>3. q.dead \in Seq(Seq(Txs)) /\ TxsOf(q.dead) = TxsOf(r.dead) \cup TxsOf(dead)
      BY <2>1, <3>1, <3>2, TxsOfJoined
    <3> QED BY <2>1, <3>1, <3>2, <3>3
  <2> QED BY <2>1, <2>2 DEF SyncedFrom, q
<1> QED BY <1>1, <1>2

LEMMA SyncedFacts ==
  ASSUME NEW n \in Nat, NEW b, DOMAIN b = 1..n, NEW c
  PROVE  SyncedFrom(b, c, Synced(b, c))
<1> DEFINE D == DOMAIN b
           bottom == [head |-> c, dead |-> <<>>, live |-> FALSE]
           body(g, s) == IF s = {} THEN bottom ELSE Routed(g[s \ {SX!Max(s)}], b[SX!Max(s)])
           Dom(k) == {s \in SUBSET D : Cardinality(s) <= k}
           Solves(g, S) == g = [s \in S |-> body(g, s)]
<1>1. \A s \in SUBSET D : /\ IsFiniteSet(s) /\ Cardinality(s) \in Nat
                          /\ Cardinality(s) <= n
  <2>1. IsFiniteSet(1..n) /\ Cardinality(1..n) = n
    BY FS_Interval
  <2> QED BY <2>1, FS_Subset, FS_CardinalityType
<1>2. ASSUME NEW s \in SUBSET D, s # {}
      PROVE  /\ SX!Max(s) \in s /\ s \ {SX!Max(s)} \in SUBSET D
             /\ Cardinality(s \ {SX!Max(s)}) = Cardinality(s) - 1
  <2>1. SX!Max(s) \in s
    BY <1>2, MaxIsThere
  <2>2. Cardinality(s \ {SX!Max(s)}) = Cardinality(s) - 1
    BY <1>1, <2>1, FS_RemoveElement
  <2> QED BY <2>1, <2>2
<1>3. \A s \in SUBSET D : Cardinality(s) = 0 <=> s = {}
  BY <1>1, FS_EmptySet
<1>4. \A k \in Nat : \E g : Solves(g, Dom(k))
  <2> DEFINE T == {k \in Nat : ~ \E g : Solves(g, Dom(k))}
  <2> SUFFICES ASSUME T # {} PROVE FALSE
    OBVIOUS
  <2>1. PICK k \in T : \A m \in T : k <= m
    <3>1. T \in SUBSET Nat
      OBVIOUS
    <3> HIDE DEF T
    <3> QED BY <3>1, LeastNumber
  <2>2. k \in Nat /\ ~(\E g : Solves(g, Dom(k)))
    BY <2>1
  <2>3. \A j \in Nat : j < k => \E g : Solves(g, Dom(j))
    <3> HIDE DEF Solves, Dom
    <3> QED BY <2>1
  <2> HIDE DEF T
  <2>4. CASE k = 0
    <3>1. \A s \in Dom(k) : s = {}
      BY <1>1, <1>3, <2>4
    <3>2. Solves([s \in Dom(k) |-> bottom], Dom(k))
      BY <3>1
    <3> QED BY <3>2, <2>2
  <2>5. CASE k # 0
    <3>1. k - 1 \in Nat /\ k - 1 < k
      BY <2>2, <2>5
    <3>2. PICK g : Solves(g, Dom(k - 1))
      BY <3>1, <2>3
    <3> DEFINE h == [s \in Dom(k) |-> body(g, s)]
    <3>3. ASSUME NEW s \in Dom(k - 1) PROVE s \in Dom(k) /\ h[s] = g[s]
      <4>1. s \in Dom(k)
        <5>1. s \in SUBSET D /\ Cardinality(s) <= k - 1 /\ Cardinality(s) \in Nat
          BY <1>1
        <5> QED BY <5>1, <2>2
      <4>2. g[s] = body(g, s)
        <5> HIDE DEF body, Dom
        <5> QED BY <3>2, <3>3
      <4>3. h[s] = body(g, s)
        <5> HIDE DEF body, Dom
        <5> QED BY <4>1
      <4> QED BY <4>1, <4>2, <4>3
    <3> HIDE DEF h
    <3>4. ASSUME NEW s \in Dom(k) PROVE body(g, s) = body(h, s)
      <4>1. CASE s = {}
        BY <4>1
      <4>2. CASE s # {}
        <5> DEFINE r == s \ {SX!Max(s)}
        <5>1. /\ r \in SUBSET D /\ Cardinality(r) = Cardinality(s) - 1
              /\ Cardinality(s) \in Nat /\ Cardinality(s) <= k
          BY <1>1, <1>2, <4>2
        <5> HIDE DEF r
        <5>2. Cardinality(r) <= k - 1
          BY <5>1, <2>2
        <5>3. r \in Dom(k - 1)
          BY <5>1, <5>2
        <5>4. h[r] = g[r]
          BY <5>3, <3>3
        <5> QED BY <5>4, <4>2 DEF r
      <4> QED BY <4>1, <4>2
    <3>5. Solves(h, Dom(k))
      <4> HIDE DEF body, Dom
      <4> QED BY <3>4 DEF h
    <3> QED BY <3>5, <2>2
  <2> QED BY <2>4, <2>5
<1>5. Dom(n) = SUBSET D
  BY <1>1
<1>6. \E g : Solves(g, SUBSET D)
  BY <1>4, <1>5
<1> DEFINE it == CHOOSE g : Solves(g, SUBSET D)
<1>7. Solves(it, SUBSET D)
  <2> HIDE DEF Solves
  <2> QED BY <1>6
<1>8. Synced(b, c) = it[D]
  BY DEF Synced, SX!FoldLeft, SX!MapThenFoldSet
<1>9. \A s \in SUBSET D : it[s] = body(it, s)
  <2> HIDE DEF it, body
  <2> QED BY <1>7
<1> HIDE DEF it
<1>10. \A s \in SUBSET D : SyncedFrom(b, c, it[s])
  <2> DEFINE T == {k \in Nat : \E s \in SUBSET D : Cardinality(s) = k /\ ~SyncedFrom(b, c, it[s])}
  <2> SUFFICES ASSUME T # {} PROVE FALSE
    BY <1>1
  <2>1. PICK k \in T : \A m \in T : k <= m
    <3>1. T \in SUBSET Nat
      OBVIOUS
    <3> HIDE DEF T
    <3> QED BY <3>1, LeastNumber
  <2>2. PICK s \in SUBSET D : Cardinality(s) = k /\ ~SyncedFrom(b, c, it[s])
    BY <2>1
  <2>5. \A r \in SUBSET D : Cardinality(r) < k => SyncedFrom(b, c, it[r])
    BY <1>1, <2>1
  <2> HIDE DEF T
  <2>3. CASE s = {}
    <3>1. it[s] = bottom
      BY <1>9, <2>3
    <3>2. TxsOf(c) \subseteq TxsOf(c) \cup TxsOf(<<>>) /\ <<>> \in Seq(Seq(Txs))
      OBVIOUS
    <3> QED BY <3>1, <3>2, <2>2 DEF SyncedFrom
  <2>4. CASE s # {}
    <3> DEFINE x == SX!Max(s)  r == s \ {x}
    <3>1. x \in D /\ r \in SUBSET D /\ Cardinality(r) = Cardinality(s) - 1
      BY <1>2, <2>4
    <3>2. it[s] = Routed(it[r], b[x])
      BY <1>9, <2>4
    <3>6. Cardinality(s) \in Nat
      BY <1>1
    <3> HIDE DEF x, r
    <3>3. SyncedFrom(b, c, it[r])
      BY <3>1, <3>6, <2>2, <2>5
    <3>4. b[x] \in Elements(b)
      BY <3>1 DEF Elements, SX!ToSet
    <3> QED BY <2>2, <3>2, <3>3, <3>4, RoutedFrom
  <2> QED BY <2>3, <2>4
<1> QED BY <1>8, <1>10

-----------------------------------------------------------------------------
(* A snapshot of the queue.                                                  *)

\* topTransactions() returns every transaction asked for, unless it is full.
LEMMA SnapshotHasAll ==
  ASSUME NEW avoid, IInv, LInv
  PROVE  LET s == topTransactions(c_maxSyncTransactions, avoid)
         IN  /\ Len(s) \in Nat
             /\ Len(s) # c_maxSyncTransactions => current \ avoid \subseteq Elements(s)
<1> DEFINE S == current \ avoid
           o == Among(order, S)
           n == Cardinality(S)
           all == InOrder(S)
           m == IF Len(all) < c_maxSyncTransactions THEN Len(all) ELSE c_maxSyncTransactions
           s == topTransactions(c_maxSyncTransactions, avoid)
<1>1. S \in SUBSET Txs /\ Line(S, o) /\ n \in Nat
  <2>1. S \in SUBSET Txs /\ S \in SUBSET current
    BY InvType
  <2> QED BY <2>1, TxsFinite, AmongLine DEF LInv
<1>2. \A t \in S : {u \in S : <<u, t>> \in order} = Ahead(S, o, t)
  BY DEF Ahead, Among
<1>3. ASSUME NEW t \in S PROVE \E i \in 1..n : all[i] = t
  <2> DEFINE i == Cardinality(Ahead(S, o, t)) + 1
  <2>1. Cardinality(Ahead(S, o, t)) \in 0..(n - 1)
    <3> HIDE DEF S, o, n
    <3> QED BY <1>1, <1>3, AheadBound DEF n
  <2>2. i \in 1..n
    <3> HIDE DEF n
    <3> QED BY <1>1, <2>1
  <2>3. all[i] = CHOOSE u \in S : Cardinality({v \in S : <<v, u>> \in order}) = i - 1
    BY <2>2 DEF InOrder
  <2>4. \A u \in S : Cardinality({v \in S : <<v, u>> \in order}) = Cardinality(Ahead(S, o, u))
    BY <1>2
  <2> DEFINE P(u) == Cardinality({v \in S : <<v, u>> \in order}) = i - 1
  <2>5. P(t)
    <3>1. Cardinality(Ahead(S, o, t)) \in Nat
      <4> HIDE DEF n, o, S
      <4> QED BY <1>1, <2>1
    <3> HIDE DEF S, o
    <3> QED BY <2>4, <3>1
  <2>6. all[i] \in S /\ P(all[i])
    <3> HIDE DEF all, S, P
    <3>1. all[i] = CHOOSE u \in S : P(u)
      BY <2>3 DEF P
    <3> QED BY <2>5, <3>1
  <2>7. Cardinality(Ahead(S, o, all[i])) = Cardinality(Ahead(S, o, t))
    <3>1. Cardinality({v \in S : <<v, all[i]>> \in order}) = Cardinality({v \in S : <<v, t>> \in order})
      BY <2>5, <2>6
    <3> HIDE DEF S, o, all, i
    <3> QED BY <2>4, <2>6, <3>1
  <2>8. all[i] = t
    <3> HIDE DEF S, o, all, P, i
    <3> QED BY <1>1, <1>3, <2>6, <2>7, OnePerPlace
  <2> QED BY <2>2, <2>8
<1>4. Len(all) = n /\ \E R : all \in Seq(R)
  <2> DEFINE R == {all[i] : i \in 1..n}
  <2>1. all \in [1..n -> R]
    BY DEF InOrder
  <2> HIDE DEF all, n, R
  <2>2. all \in Seq(R) /\ Len(all) = n
    BY <1>1, <2>1
  <2> QED BY <2>2
<1>5. s = SubSeq(all, 1, m)
  BY DEF topTransactions
<1> HIDE DEF S, o, n, all, s
<1>6. m \in Nat /\ m <= Len(all)
  BY <1>1, <1>4, BoundsAssumption
<1>7. /\ Len(s) = m /\ DOMAIN s = 1..m
      /\ \A i \in 1..m : s[i] = all[i]
  BY <1>4, <1>5, <1>6
<1>8. Len(s) # c_maxSyncTransactions => m = n
  BY <1>4, <1>7
<1>9. Len(s) # c_maxSyncTransactions => S \subseteq Elements(s)
  <2> SUFFICES ASSUME m = n, NEW t \in S PROVE t \in Elements(s)
    BY <1>8
  <2> QED BY <1>3, <1>7 DEF Elements, SX!ToSet
<1> QED BY <1>6, <1>7, <1>9 DEF S, s

-----------------------------------------------------------------------------
(* The block being mined.                                                    *)

Left == current \ Elements(working)

\* What the work thread knows of the snapshot it goes through, ...
PassCovers ==
    /\ goodTxs \in Nat
    /\ pc = "pass" =>
         /\ pos <= Len(ts) + 1 /\ goodTxs <= pos - 1
         /\ goodTxs = pos - 1 => \A i \in 1..(pos - 1) : ts[i] \in Elements(working)
         /\ Len(ts) # c_maxSyncTransactions => Left \subseteq late \cup Elements(ts)

\* ... and elsewhere, unless it is on the way to raise the flag, or may not sync.
FlagCovers ==
    pc \notin {"sync", "pass", "resubmit"} /\ ~m_syncTransactionQueue /\ ~sealed =>
        Left \subseteq late

LEMMA LateKeeps ==
  ASSUME History, ~(pc = "sync" /\ pc' = "pass"),
         Elements(working) \subseteq Elements(working'),
         NEW X, Left \subseteq late \cup X
  PROVE  Left' \subseteq late' \cup X
<1>1. late' = (late \cup (current' \ current)) \cap current'
  BY DEF History
<1> QED BY <1>1 DEF Left, Elements

\* A step elsewhere that does not lower the flag.
LEMMA ElsewhereKeeps ==
  ASSUME History, PassCovers, FlagCovers,
         pc # "pass" /\ pc' # "pass",
         UNCHANGED goodTxs,
         pc' \notin {"sync", "resubmit"} =>
             \/ m_syncTransactionQueue' \/ sealed'
             \/ /\ pc \notin {"sync", "resubmit"}
                /\ m_syncTransactionQueue => m_syncTransactionQueue'
                /\ sealed => sealed'
                /\ UNCHANGED working
  PROVE  PassCovers' /\ FlagCovers'
<1>1. PassCovers'
  BY DEF PassCovers
<1>2. FlagCovers'
  <2> SUFFICES ASSUME pc' \notin {"sync", "pass", "resubmit"}, ~m_syncTransactionQueue', ~sealed'
               PROVE  Left' \subseteq late'
    BY DEF FlagCovers
  <2>1. Left \subseteq late /\ UNCHANGED working
    BY DEF FlagCovers
  <2>2. Left' \subseteq late' \cup {}
    BY <2>1, LateKeeps
  <2> QED BY <2>2
<1> QED BY <1>1, <1>2

\* A step of another thread during the pass.
LEMMA PassGoesOn ==
  ASSUME History, PassCovers, UNCHANGED <<pc, working, goodTxs, pos, ts>>
  PROVE  PassCovers'
<1>1. CASE pc = "pass"
  <2>1. Len(ts) # c_maxSyncTransactions => Left' \subseteq late' \cup Elements(ts)
    <3> SUFFICES ASSUME Len(ts) # c_maxSyncTransactions PROVE Left' \subseteq late' \cup Elements(ts)
      OBVIOUS
    <3>1. Left \subseteq late \cup Elements(ts)
      BY <1>1 DEF PassCovers
    <3> QED BY <1>1, <3>1, LateKeeps
  <2> QED BY <2>1 DEF PassCovers, Elements
<1>2. CASE pc # "pass"
  BY <1>2 DEF PassCovers
<1> QED BY <1>1, <1>2

LEMMA OthersCover ==
  ASSUME History, PassCovers, FlagCovers, UNCHANGED <<pc, working, goodTxs, pos, ts>>,
         m_syncTransactionQueue => m_syncTransactionQueue',
         sealed => sealed'
  PROVE  PassCovers' /\ FlagCovers'
<1>1. PassCovers'
  BY PassGoesOn
<1>2. FlagCovers'
  <2> SUFFICES ASSUME pc' \notin {"sync", "pass", "resubmit"}, ~m_syncTransactionQueue', ~sealed'
               PROVE  Left' \subseteq late'
    BY DEF FlagCovers
  <2>1. Left \subseteq late
    BY DEF FlagCovers
  <2>2. Left' \subseteq late' \cup {}
    BY <2>1, LateKeeps
  <2> QED BY <2>2
<1> QED BY <1>1, <1>2

LEMMA ThreadsCover ==
  ASSUME History, PassCovers, FlagCovers, Others \/ NextCall
  PROVE  PassCovers' /\ FlagCovers'
<1> DEFINE Small == /\ UNCHANGED <<pc, working, goodTxs, pos, ts>>
                    /\ m_syncTransactionQueue => m_syncTransactionQueue'
                    /\ sealed => sealed'
<1>1. ASSUME NEW t \in Txs, NEW retry, Import(t, retry)
      PROVE  m_syncTransactionQueue => m_syncTransactionQueue'
  BY <1>1 DEF Import, Signals, flagVars
<1>2. ASSUME NEW t \in Txs, Submit(t) PROVE Small
  BY <1>1, <1>2 DEF Submit, workVars, syncVars
<1>3. ASSUME clearPending PROVE Small
  BY <1>3 DEF clearPending, workVars, syncVars, flagVars
<1>4. ASSUME submitSealed PROVE Small
  BY <1>4 DEF submitSealed, syncVars, flagVars
<1>5. ASSUME NEW call, Perform(call)
      PROVE  m_syncTransactionQueue => m_syncTransactionQueue'
  BY <1>1, <1>5 DEF Perform, Signals
<1>6. ASSUME NextCall PROVE Small
  BY <1>5, <1>6 DEF NextCall, workVars, syncVars
<1>7. Small
  BY <1>2, <1>3, <1>4, <1>6 DEF Others
<1> QED BY <1>7, OthersCover

LEMMA QuietStepsCover ==
  ASSUME History, PassCovers, FlagCovers,
         \/ syncBlockQueue \/ noBlocks \/ resyncStateFromChain \/ resyncDone
         \/ resetState \/ resetDone \/ checkSync \/ skipSync
         \/ publish \/ announce \/ rejigSealing
  PROVE  PassCovers' /\ FlagCovers'
<1> DEFINE Small ==
         /\ pc # "pass" /\ pc' # "pass" /\ UNCHANGED goodTxs
         /\ pc' \notin {"sync", "resubmit"} =>
               \/ m_syncTransactionQueue' \/ sealed'
               \/ /\ pc \notin {"sync", "resubmit"}
                  /\ m_syncTransactionQueue => m_syncTransactionQueue'
                  /\ sealed => sealed'
                  /\ UNCHANGED working
<1>1. ASSUME syncBlockQueue PROVE Small
  BY <1>1 DEF syncBlockQueue, workVars, flagVars, syncVars
<1>2. ASSUME noBlocks PROVE Small
  BY <1>2 DEF noBlocks, workVars, flagVars, syncVars
<1>3. ASSUME resyncStateFromChain PROVE Small
  <2>1. pc = "calls" /\ pc' \in {"reset", "resubmit"} /\ UNCHANGED goodTxs
    BY <1>3 DEF resyncStateFromChain, syncVars
  <2>2. pc' = "reset" => UNCHANGED workVars /\ (UNCHANGED flagVars \/ Signals(TRUE, FALSE))
    BY <1>3 DEF resyncStateFromChain
  <2>3. Signals(TRUE, FALSE) => m_syncTransactionQueue'
    BY Zenon DEF Signals
  <2>4. UNCHANGED flagVars => (m_syncTransactionQueue => m_syncTransactionQueue')
    BY Zenon DEF flagVars
  <2>5. UNCHANGED workVars => UNCHANGED working /\ UNCHANGED sealed
    BY DEF workVars
  <2>6. /\ pc # "pass" /\ pc' # "pass" /\ pc \notin {"sync", "resubmit"}
        /\ pc' \notin {"sync", "resubmit"} => pc' = "reset"
    BY <2>1
  <2>7. UNCHANGED sealed => (sealed => sealed')
    BY Zenon
  <2> QED BY <2>1, <2>2, <2>3, <2>4, <2>5, <2>6, <2>7, Zenon
<1>4. ASSUME resyncDone PROVE Small
  BY <1>4 DEF resyncDone, Signals, syncVars
<1>5. ASSUME resetState PROVE Small
  BY <1>5 DEF resetState, Signals, flagVars, syncVars
<1>6. ASSUME resetDone PROVE Small
  BY <1>6 DEF resetDone, workVars, syncVars
<1>7. ASSUME checkSync PROVE Small
  BY <1>7 DEF checkSync, workVars, flagVars, syncVars
<1>8. ASSUME skipSync PROVE Small
  BY <1>8 DEF skipSync, workVars, flagVars, syncVars
<1>9. ASSUME publish PROVE Small
  BY <1>9 DEF publish, workVars, flagVars, syncVars
<1>10. ASSUME announce PROVE Small
  BY <1>10 DEF announce, workVars, flagVars
<1>11. ASSUME rejigSealing PROVE Small
  BY <1>11 DEF rejigSealing, flagVars, syncVars
<1>12. Small
  <2> HIDE DEF Small
  <2> QED BY <1>1, <1>2, <1>3, <1>4, <1>5, <1>6, <1>7, <1>8, <1>9, <1>10, <1>11
<1> QED BY <1>12, ElsewhereKeeps

LEMMA SyncBeginCovers ==
  ASSUME IInv, LInv, History, syncBegin
  PROVE  PassCovers' /\ FlagCovers'
<1>1. /\ ts' = topTransactions(c_maxSyncTransactions, Elements(working))
      /\ pos' = 1 /\ goodTxs' = 0 /\ pc' = "pass" /\ UNCHANGED <<current, working>>
  BY DEF syncBegin, tqVars, workVars
<1>2. /\ Len(ts') \in Nat
      /\ Len(ts') # c_maxSyncTransactions => Left \subseteq Elements(ts')
  BY <1>1, SnapshotHasAll DEF Left
<1>3. Left' = Left
  BY <1>1 DEF Left, Elements
<1>4. Elements(ts)' = Elements(ts')
  BY DEF Elements
<1>5. PassCovers'
  BY <1>1, <1>2, <1>3, <1>4 DEF PassCovers
<1> QED BY <1>1, <1>5 DEF FlagCovers

LEMMA SyncOneCovers ==
  ASSUME Inv, History, PassCovers, syncOne
  PROVE  PassCovers' /\ FlagCovers'
<1>1. /\ pc = "pass" /\ pos <= Len(ts) /\ pos' = pos + 1 /\ UNCHANGED <<ts, pc>>
  BY DEF syncOne
<1>2. /\ working \in Seq(Txs) /\ pos \in Nat \ {0} /\ Len(ts) \in Nat
  BY DEF Inv
<1>3. /\ goodTxs \in Nat /\ goodTxs <= pos - 1
      /\ goodTxs = pos - 1 => \A i \in 1..(pos - 1) : ts[i] \in Elements(working)
      /\ Len(ts) # c_maxSyncTransactions => Left \subseteq late \cup Elements(ts)
  BY <1>1 DEF PassCovers
<1>4. \/ UNCHANGED <<working, goodTxs>>
      \/ /\ ts[pos] \in Txs /\ working' = Append(working, ts[pos]) /\ goodTxs' = goodTxs + 1
  BY DEF syncOne, execute, reject, wrongNonce
<1>5. Elements(working) \subseteq Elements(working')
  BY <1>2, <1>4, ElementsAppended
<1>6. Len(ts) # c_maxSyncTransactions => Left' \subseteq late' \cup Elements(ts)
  <2> SUFFICES ASSUME Len(ts) # c_maxSyncTransactions PROVE Left' \subseteq late' \cup Elements(ts)
    OBVIOUS
  <2>1. Left \subseteq late \cup Elements(ts)
    BY <1>3
  <2> QED BY <1>1, <1>5, <2>1, LateKeeps
<1>7. goodTxs' \in Nat /\ goodTxs' <= pos' - 1 /\ pos' <= Len(ts) + 1
  BY <1>1, <1>2, <1>3, <1>4
<1>8. goodTxs' = pos' - 1 => \A i \in 1..(pos' - 1) : ts[i] \in Elements(working')
  <2> SUFFICES ASSUME goodTxs' = pos' - 1, NEW i \in 1..(pos' - 1)
               PROVE  ts[i] \in Elements(working')
    OBVIOUS
  <2>1. /\ goodTxs' = goodTxs + 1 /\ goodTxs = pos - 1
        /\ ts[pos] \in Txs /\ working' = Append(working, ts[pos])
    BY <1>1, <1>2, <1>3, <1>4
  <2>2. ts[pos] \in Elements(working')
    BY <1>2, <2>1, ElementsAppended
  <2>3. i = pos \/ i \in 1..(pos - 1)
    BY <1>1, <1>2
  <2> QED BY <1>3, <1>5, <2>1, <2>2, <2>3
<1>9. PassCovers'
  BY <1>1, <1>6, <1>7, <1>8 DEF PassCovers, Elements
<1> QED BY <1>1, <1>9 DEF FlagCovers

LEMMA SyncPassCovers ==
  ASSUME Inv, History, PassCovers, syncPass
  PROVE  PassCovers' /\ FlagCovers'
<1>1. /\ pc = "pass" /\ pos > Len(ts) /\ pos' = 1 /\ goodTxs' = 0
      /\ UNCHANGED <<working, sealed>>
      /\ \/ pc' = "pass" /\ ts' = ts
         \/ /\ pc' \in {"rejig", "publish"}
            /\ \/ m_syncTransactionQueue'
               \/ goodTxs = Len(ts) /\ Len(ts) # c_maxSyncTransactions
  BY DEF syncPass, MoreToCome, workVars
<1>2. /\ pos \in Nat \ {0} /\ Len(ts) \in Nat /\ DOMAIN ts = 1..Len(ts)
  BY DEF Inv
<1>3. /\ goodTxs \in Nat /\ goodTxs <= pos - 1 /\ pos <= Len(ts) + 1
      /\ goodTxs = pos - 1 => \A i \in 1..(pos - 1) : ts[i] \in Elements(working)
      /\ Len(ts) # c_maxSyncTransactions => Left \subseteq late \cup Elements(ts)
  BY <1>1 DEF PassCovers
<1>4. CASE pc' = "pass" /\ ts' = ts
  <2>1. Len(ts) # c_maxSyncTransactions => Left' \subseteq late' \cup Elements(ts)
    <3> SUFFICES ASSUME Len(ts) # c_maxSyncTransactions PROVE Left' \subseteq late' \cup Elements(ts)
      OBVIOUS
    <3>1. Left \subseteq late \cup Elements(ts)
      BY <1>3
    <3> QED BY <1>1, <1>4, <3>1, LateKeeps
  <2>2. PassCovers'
    BY <1>1, <1>2, <1>4, <2>1 DEF PassCovers, Elements
  <2> QED BY <1>4, <2>2 DEF FlagCovers
<1>5. CASE pc' \in {"rejig", "publish"} /\ m_syncTransactionQueue'
  BY <1>1, <1>5 DEF PassCovers, FlagCovers
<1>6. CASE pc' \in {"rejig", "publish"} /\ goodTxs = Len(ts) /\ Len(ts) # c_maxSyncTransactions
  <2>1. \A i \in 1..Len(ts) : ts[i] \in Elements(working)
    BY <1>1, <1>2, <1>3, <1>6
  <2>2. Elements(ts) \subseteq Elements(working)
    BY <1>2, <2>1 DEF Elements, SX!ToSet
  <2>3. Left \subseteq late \cup {}
    BY <1>3, <1>6, <2>2 DEF Left
  <2>4. Left' \subseteq late' \cup {}
    BY <1>1, <1>6, <2>3, LateKeeps
  <2> QED BY <1>1, <1>6, <2>4 DEF PassCovers, FlagCovers
<1> QED BY <1>1, <1>4, <1>5, <1>6

LEMMA NextCovers ==
  IInv /\ LInv /\ Inv /\ PassCovers /\ FlagCovers /\ [Next]_vars => PassCovers' /\ FlagCovers'
<1> SUFFICES ASSUME IInv, LInv, Inv, PassCovers, FlagCovers, [Next]_vars
             PROVE  PassCovers' /\ FlagCovers'
  OBVIOUS
<1>1. CASE UNCHANGED vars
  <2>1. UNCHANGED <<pc, goodTxs, pos, ts, working, sealed, late, m_syncTransactionQueue, current>>
    BY <1>1 DEF vars, tqVars, workVars, syncVars, flagVars, historyVars
  <2>2. UNCHANGED <<Left, Elements(working), Elements(ts)>>
    BY <2>1 DEF Left, Elements
  <2> QED BY <2>1, <2>2 DEF PassCovers, FlagCovers
<1>2. CASE Next
  BY <1>2, ThreadsCover, QuietStepsCover, SyncBeginCovers, SyncOneCovers, SyncPassCovers
     DEF Next, WorkThread
<1> QED BY <1>1, <1>2

-----------------------------------------------------------------------------
(* The chain, and the nonces of the block on top of it.                      *)

Nonces(b, w) ==
    \A i \in DOMAIN w :
       LET before == TxsOf(b) \cup Elements(SubSeq(w, 1, i - 1))
       IN  nonce[w[i]] = Cardinality({u \in before : from[u] = from[w[i]]})

BInv == /\ chain \in imported /\ base \in imported
        /\ m_postSeal \in Seq(Txs) /\ Nonces(base, working)

LEMMA NoNonces == \A b : Nonces(b, <<>>)
  BY DEF Nonces

LEMMA NoncesAppended ==
  ASSUME NEW b, NEW w \in Seq(Txs), Nonces(b, w), NEW t \in Txs,
         nonce[t] = Cardinality({u \in TxsOf(b) \cup Elements(w) : from[u] = from[t]})
  PROVE  Nonces(b, Append(w, t))
<1> DEFINE r == Append(w, t)
<1>1. r \in Seq(Txs) /\ Len(r) = Len(w) + 1 /\ r[Len(w) + 1] = t
  OBVIOUS
<1>2. DOMAIN r = 1..(Len(w) + 1) /\ Len(w) \in Nat /\ DOMAIN w = 1..Len(w)
  BY <1>1
<1>3. ASSUME NEW i \in 1..Len(w) PROVE r[i] = w[i] /\ SubSeq(r, 1, i - 1) = SubSeq(w, 1, i - 1)
  OBVIOUS
<1>4. SubSeq(r, 1, Len(w)) = w
  OBVIOUS
<1> HIDE DEF r
<1>5. ASSUME NEW i \in DOMAIN r
      PROVE  LET before == TxsOf(b) \cup Elements(SubSeq(r, 1, i - 1))
             IN  nonce[r[i]] = Cardinality({u \in before : from[u] = from[r[i]]})
  <2>1. CASE i \in 1..Len(w)
    <3>1. r[i] = w[i] /\ SubSeq(r, 1, i - 1) = SubSeq(w, 1, i - 1)
      BY <2>1, <1>3
    <3>2. i \in DOMAIN w
      BY <2>1, <1>2
    <3> QED BY <3>1, <3>2 DEF Nonces
  <2>2. CASE i = Len(w) + 1
    <3>1. i - 1 = Len(w) /\ r[i] = t
      BY <1>1, <1>2, <2>2
    <3>2. SubSeq(r, 1, i - 1) = w
      BY <1>4, <3>1
    <3> QED BY <3>1, <3>2
  <2> QED BY <1>2, <2>1, <2>2
<1> QED BY <1>5 DEF Nonces, r

LEMMA SyncBlockQueueBase ==
  ASSUME BInv, syncBlockQueue
  PROVE  BInv'
<1>1. UNCHANGED <<base, working, m_postSeal>>
  BY DEF syncBlockQueue, workVars, postVars
<1>2. PICK b \in Batches : /\ imported' = imported \cup Elements(b)
                           /\ chain' = Synced(b, chain).head
  BY DEF syncBlockQueue
<1>3. PICK n \in Nat : DOMAIN b = 1..n
  <2>1. PICK n \in 1..MaxBatch : b \in [1..n -> Chains \ imported]
    BY DEF Batches
  <2> QED BY <2>1, BoundsAssumption
<1>4. chain' \in {chain} \cup Elements(b)
  BY <1>2, <1>3, SyncedFacts DEF SyncedFrom
<1> QED BY <1>1, <1>2, <1>4 DEF BInv, Nonces, TxsOf, Elements

\* A step that knows of no new block, and leaves m_working alone or starts it anew.
LEMMA BaseFrom ==
  ASSUME Inv, BInv, UNCHANGED chainVars,
         m_postSeal' \in {m_postSeal, working, <<>>},
         \/ UNCHANGED <<base, working>>
         \/ base' \in {base, chain} /\ working' = <<>>
  PROVE  BInv'
<1>1. chain' \in imported' /\ base' \in imported'
  BY DEF BInv, chainVars
<1>2. m_postSeal' \in Seq(Txs)
  BY NoneIsSequence DEF Inv, BInv
<1>3. Nonces(base', working')
  BY NoNonces DEF BInv
<1> QED BY <1>1, <1>2, <1>3 DEF BInv, Nonces, TxsOf, Elements

LEMMA SyncOneBase ==
  ASSUME Inv, BInv, syncOne
  PROVE  BInv'
<1>1. UNCHANGED <<chain, imported, base, m_postSeal>>
  BY DEF syncOne, chainVars, postVars
<1>2. \/ working' = working
      \/ \E t \in Txs : nonce[t] = Required(t) /\ working' = Append(working, t)
  BY DEF syncOne, execute, reject, wrongNonce
<1>3. Nonces(base, working')
  BY <1>2, NoncesAppended DEF Inv, BInv, Required
<1> QED BY <1>1, <1>3 DEF BInv, Nonces, TxsOf, Elements

LEMMA NextBase == Inv /\ BInv /\ [Next]_vars => BInv'
<1> SUFFICES ASSUME Inv, BInv, [Next]_vars PROVE BInv'
  OBVIOUS
<1> DEFINE Small == /\ UNCHANGED chainVars
                    /\ m_postSeal' \in {m_postSeal, working, <<>>}
                    /\ \/ UNCHANGED <<base, working>>
                       \/ base' \in {base, chain} /\ working' = <<>>
<1>1. CASE \/ (\E t \in Txs : Submit(t)) \/ clearPending \/ submitSealed
           \/ noBlocks \/ NextCall \/ resyncDone \/ resetDone \/ checkSync \/ skipSync
           \/ syncBegin \/ syncPass \/ publish \/ announce \/ rejigSealing
  <2>1. Small
    BY <1>1 DEF Submit, clearPending, submitSealed, noBlocks, NextCall, resyncDone, resetDone,
                checkSync, skipSync, syncBegin, syncPass, publish, announce, rejigSealing,
                Posted, workVars, postVars
  <2> QED BY <2>1, BaseFrom
<1>2. CASE resyncStateFromChain
  <2>1. Small
    BY <1>2 DEF resyncStateFromChain, Fresh, workVars, postVars
  <2> QED BY <2>1, BaseFrom
<1>3. CASE resetState
  <2>1. Small
    BY <1>3 DEF resetState, Fresh, postVars
  <2> QED BY <2>1, BaseFrom
<1>4. CASE UNCHANGED vars
  <2>1. Small
    BY <1>4 DEF vars, workVars, postVars
  <2> QED BY <2>1, BaseFrom
<1> QED BY <1>1, <1>2, <1>3, <1>4, SyncBlockQueueBase, SyncOneBase DEF Next, WorkThread, Others

\* The block being mined is one that can be mined, whoever imports, seals or clears while
\* the work thread builds it, and it is complete when the thread goes to sleep: what it
\* leaves out has become current after its last snapshot (Client.cpp:432).
THEOREM ClientWorkConsistent == Spec => []WorkConsistent
<1> DEFINE All == IInv /\ LInv /\ Inv /\ PassCovers /\ FlagCovers /\ BInv
<1>1. Init => All
  <2> SUFFICES ASSUME Init PROVE All
    OBVIOUS
  <2>1. current = {} /\ order = {} /\ goodTxs = 0 /\ pc = "start" /\ chain = <<>>
        /\ base = <<>> /\ imported = {<<>>} /\ working = <<>> /\ m_postSeal = <<>>
    BY DEF Init, TQInit
  <2>2. IInv /\ Inv
    BY InitIInv, InitInv DEF Init
  <2>3. PassCovers /\ FlagCovers
    BY <2>1 DEF PassCovers, FlagCovers, Left
  <2>4. LInv
    BY <2>1 DEF LInv, Line
  <2>5. BInv
    BY <2>1, NoNonces, NoneIsSequence DEF BInv
  <2> QED BY <2>2, <2>3, <2>4, <2>5
<1>2. All /\ [Next]_vars => All'
  <2> SUFFICES ASSUME All, [Next]_vars PROVE All'
    OBVIOUS
  <2>1. IInv' /\ LInv'
    BY StepIsQueueStep, NextIInv, NextLine
  <2> QED BY <2>1, NextInv, NextCovers, NextBase
<1>3. All => WorkConsistent
  <2> SUFFICES ASSUME All PROVE WorkConsistent
    OBVIOUS
  <2>1. IdleOwesNothing
    BY DEF IdleOwesNothing, FlagCovers, Left
  <2>2. Elements(working) \subseteq Txs /\ Elements(m_postSeal) \subseteq Txs
    BY DEF Inv, BInv, Elements, SX!ToSet
  <2>3. ClientTypeOK
    BY <2>2 DEF ClientTypeOK, BInv, Nonces
  <2> QED BY <2>1, <2>3 DEF WorkConsistent
<1> HIDE DEF All
<1> QED BY <1>1, <1>2, <1>3, PTL DEF Spec

-----------------------------------------------------------------------------
(* What a change of the chain may not lose.                                  *)

\* The transaction is queued, or its slot is taken, or the queue holds it for known.
Safe(t) == InSlot(Queued, t) # {} \/ t \in m_known

\* Neither limit is ever met by fewer transactions than there may be.
LEMMA RoomLeft ==
  ASSUME NEW S \in SUBSET Txs, NEW R \in SUBSET S,
         R # S => Cardinality(R) = m_limit \/ Cardinality(R) = m_futureLimit
  PROVE  R = S
<1> SUFFICES ASSUME R # S PROVE FALSE
  OBVIOUS
<1>1. /\ IsFiniteSet(Txs) /\ IsFiniteSet(S) /\ Cardinality(R) \in Nat
      /\ Cardinality(S) \in Nat /\ Cardinality(Txs) \in Nat
  BY TxsFinite
<1>2. Cardinality(R) < Cardinality(S)
  BY <1>1, FS_Subset
<1>3. Cardinality(S) <= Cardinality(Txs)
  BY <1>1, FS_Subset
<1> QED BY <1>1, <1>2, <1>3, RoomAssumption, TransactionAssumption

\* As long as there is room an import takes no slot from anybody.
LEMMA ImportKeepsSafe ==
  ASSUME IInv, NEW x \in Txs, NEW retry, import(x, retry)
  PROVE  x \in Queued' /\ \A t : Safe(t) => Safe(t)'
<1> DEFINE rc == InSlot(current, x)
           rf == InSlot(future, x)
           run == Following(future \ rf, x)
           new == {x} \cup run
           queued == (current \ rc) \cup new
           rest == (future \ rf) \ new
<1>1. /\ current \in SUBSET Txs /\ future \in SUBSET Txs
  BY InvType
<1>2. /\ current' \subseteq queued /\ Cardinality(current') <= m_limit
      /\ current' # queued => Cardinality(current') = m_limit
      /\ m_known' = ((m_known \ rc) \cup {x}) \ (queued \ current')
      /\ future' \subseteq rest /\ m_futureSize' = Cardinality(future')
      /\ future' # rest => m_futureSize' = m_futureLimit
  BY ImportMoves
<1>3. run \subseteq future
  BY <1>1, FollowingIsPart
<1>4. queued \in SUBSET Txs /\ rest \in SUBSET Txs /\ x \in queued
  BY <1>1, <1>3
<1> HIDE DEF queued, rest
<1>5. current' = queued
  BY <1>2, <1>4, RoomLeft
<1>6. future' = rest
  BY <1>2, <1>4, RoomLeft
<1>7. /\ Queued' = (Queued \ (rc \cup rf)) \cup {x}
      /\ m_known' = (m_known \ rc) \cup {x}
  <2>1. queued \cup rest = ((current \cup future) \ (rc \cup rf)) \cup {x}
    <3>1. current \cap future = {}
      BY InvType
    <3>2. rc \subseteq current /\ rf \subseteq future /\ run \subseteq future \ rf
      BY <1>1, FollowingIsPart DEF InSlot
    <3> HIDE DEF rc, rf, run
    <3> QED BY <3>1, <3>2 DEF queued, rest
  <2> QED BY <1>2, <1>5, <1>6, <2>1 DEF Queued
<1>8. ASSUME NEW t, Safe(t) PROVE Safe(t)'
  <2>1. CASE \E u \in rc \cup rf : SameSlot(u, t)
    <3>1. SameSlot(x, t)
      BY <2>1 DEF InSlot, SameSlot
    <3> QED BY <1>7, <3>1 DEF Safe, InSlot, SameSlot
  <2>2. CASE ~ \E u \in rc \cup rf : SameSlot(u, t)
    <3>1. t \notin rc
      BY <2>2 DEF SameSlot
    <3>2. \A u \in InSlot(Queued, t) : u \notin rc \cup rf
      BY <2>2 DEF InSlot, SameSlot
    <3> QED BY <1>7, <1>8, <3>1, <3>2 DEF Safe, InSlot
  <2> QED BY <2>1, <2>2
<1> QED BY <1>7, <1>8

\* A mined transaction leaves its own slot only.
LEMMA DropGoodKeepsSafe ==
  ASSUME IInv, NEW x \in Txs, dropGood(x), NEW t, ~SameSlot(x, t), Safe(t)
  PROVE  Safe(t)'
<1> DEFINE run == Following(future, x)
           gone == IF x \in m_known THEN (current \cup run) \cap {x} ELSE {}
           rest == future \ run
<1>1. /\ current \in SUBSET Txs /\ future \in SUBSET Txs
  BY InvType
<1>2. /\ run \subseteq future /\ current' = (current \cup run) \ gone
      /\ m_known' = m_known \ gone /\ future' \subseteq rest
      /\ m_futureSize' = Cardinality(future')
      /\ future' # rest => m_futureSize' = m_futureLimit
  BY DropGoodMoves
<1>3. gone \subseteq {x}
  OBVIOUS
<1>4. rest \in SUBSET Txs
  BY <1>1
<1> HIDE DEF run, gone, rest
<1>5. future' = rest
  BY <1>2, <1>4, RoomLeft
<1>6. \A u \in Queued : u = x \/ u \in Queued'
  BY <1>2, <1>3, <1>5 DEF Queued, rest
<1>7. \A u \in InSlot(Queued, t) : u # x
  BY DEF InSlot, SameSlot
<1>8. t # x
  BY DEF SameSlot
<1> QED BY <1>2, <1>3, <1>6, <1>7, <1>8 DEF Safe, InSlot

\* A call of the work thread saves what it is for.
LEMMA PerformKeepsSafe ==
  ASSUME IInv, NEW call, Perform(call), NEW t, Safe(t) \/ call = DeadCall(t),
         \A u \in Txs : call = GoodCall(u) => ~SameSlot(u, t)
  PROVE  Safe(t)'
<1>1. ASSUME NEW x \in Txs, call = DeadCall(x), Import(x, TRUE) PROVE Safe(t)'
  <2>1. Safe(t) \/ t = x
    BY <1>1 DEF DeadCall
  <2>2. CASE import(x, TRUE)
    <3>1. x \in Queued' /\ (Safe(t) => Safe(t)')
      BY <2>2, ImportKeepsSafe
    <3> QED BY <2>1, <3>1 DEF Safe, InSlot, SameSlot
  <2>3. CASE ~(Admitted(x, TRUE) /\ Outbids(x)) /\ UNCHANGED tqVars
    <3>1. CASE x \in m_known
      BY <2>1, <2>3, <3>1 DEF Safe, InSlot, Queued, tqVars
    <3>2. CASE x \notin m_known
      <4>1. PICK u \in Rivals(x).current \cup Rivals(x).future : TRUE
        BY <2>3, <3>2 DEF Admitted, Outbids
      <4>2. u \in Queued /\ SameSlot(x, u)
        BY <4>1, InvType DEF Rivals, InSlot, Queued
      <4>3. Safe(t)
        BY <2>1, <4>2 DEF Safe, InSlot
      <4> QED BY <2>3, <4>3 DEF Safe, InSlot, Queued, tqVars
    <3> QED BY <3>1, <3>2
  <2> QED BY <1>1, <2>2, <2>3 DEF Import
<1>2. ASSUME NEW x \in Txs, call = GoodCall(x), dropGood(x) PROVE Safe(t)'
  <2>1. ~SameSlot(x, t)
    BY <1>2
  <2>2. Safe(t)
    BY <1>2 DEF DeadCall, GoodCall
  <2> QED BY <1>2, <2>1, <2>2, DropGoodKeepsSafe
<1> QED BY <1>1, <1>2 DEF Perform

\* What has to be done for what is owed: it is safe, in the chain, to be resubmitted, or
\* still pending; no good transaction takes its slot.
Owing ==
    /\ pc \notin {"calls", "resubmit"} => owed = {}
    /\ \A t \in owed :
          /\ \A u \in Txs : GoodCall(u) \in Elements(calls) => ~SameSlot(u, t)
          /\ \/ Safe(t) \/ InSlot(TxsOf(chain), t) # {} \/ DeadCall(t) \in Elements(calls)
             \/ pc = "calls" /\ t \in Elements(m_postSeal)

\* m_postSeal is of m_working, and of the block it was sealed into.
Posts ==
    /\ pc # "resubmit" => Elements(m_postSeal) \subseteq Elements(working)
    /\ ownBlock # <<>> => Elements(m_postSeal) \subseteq TxsOf(ownBlock)

Tells ==
    /\ imported \subseteq Chains \cup {<<>>}
    /\ pc = "calls" => chain # <<>>
    /\ calls \in Seq(Elements(calls))

RInv == Owing /\ Posts /\ Tells

\* A block has its transactions, in a chain, too.
LEMMA BlockInChain ==
  ASSUME NEW c \in Seq(Seq(Txs)), NEW b \in Seq(Txs)
  PROVE  Elements(b) \subseteq TxsOf(Append(c, b))
<1> DEFINE r == Append(c, b)
<1>1. r \in Seq(Seq(Txs)) /\ Elements(r) = Elements(c) \cup {b}
  BY ElementsAppended
<1> HIDE DEF r
<1>2. TxsOf(r) = UNION {Elements(r[i]) : i \in DOMAIN r}
  BY <1>1, TxsOfChain
<1>3. PICK i \in DOMAIN r : r[i] = b
  BY <1>1 DEF Elements, SX!ToSet
<1>4. Elements(r[i]) \subseteq TxsOf(r)
  BY <1>2
<1> QED BY <1>3, <1>4 DEF r

LEMMA KnownChains ==
  ASSUME BInv, Tells
  PROVE  chain \in Seq(Seq(Txs)) /\ base \in Seq(Seq(Txs))
<1>1. <<>> \in Seq(Seq(Txs))
  OBVIOUS
<1> QED BY <1>1, ChainsAssumption DEF BInv, Tells

\* The first call and the others.
LEMMA CallsSplit ==
  ASSUME NEW s, s \in Seq(Elements(s)), s # <<>>
  PROVE  /\ Tail(s) \in Seq(Elements(Tail(s)))
         /\ Elements(s) = {Head(s)} \cup Elements(Tail(s))
<1> DEFINE E == Elements(s)  r == Tail(s)
<1>1. s \in Seq(E) /\ DOMAIN s = 1..Len(s) /\ Len(s) \in Nat /\ Len(s) >= 1
  OBVIOUS
<1> HIDE DEF E
<1>2. /\ r \in Seq(E) /\ DOMAIN r = 1..(Len(s) - 1) /\ Head(s) = s[1]
      /\ \A i \in 1..(Len(s) - 1) : r[i] = s[i + 1]
  BY <1>1
<1> HIDE DEF r
<1>3. \A i \in 1..Len(s) : i = 1 \/ (i - 1 \in 1..(Len(s) - 1) /\ (i - 1) + 1 = i)
  BY <1>1
<1>4. \A i \in 1..(Len(s) - 1) : i + 1 \in 1..Len(s)
  BY <1>1
<1>5. 1 \in 1..Len(s)
  BY <1>1
<1>6. \A i \in 1..Len(s) : s[i] = s[1] \/ \E j \in 1..(Len(s) - 1) : r[j] = s[i]
  BY <1>2, <1>3
<1>7. {s[i] : i \in 1..Len(s)} = {s[1]} \cup {r[j] : j \in 1..(Len(s) - 1)}
  BY <1>2, <1>4, <1>5, <1>6
<1>8. Elements(s) = {Head(s)} \cup Elements(r)
  BY <1>1, <1>2, <1>7 DEF Elements, SX!ToSet
<1>9. r \in Seq(Elements(r))
  BY <1>2, OwnElements
<1> QED BY <1>8, <1>9 DEF r

-----------------------------------------------------------------------------
(* m_postSeal.                                                               *)

LEMMA PostsKept ==
  ASSUME Posts, pc = "resubmit" => pc' = "resubmit", UNCHANGED postVars,
         Elements(working) \subseteq Elements(working') \/ pc' = "resubmit"
  PROVE  Posts'
<1>1. Elements(m_postSeal') = Elements(m_postSeal)
  BY DEF postVars
<1> QED BY <1>1 DEF Posts, postVars, TxsOf, Elements

LEMMA PostsEmptied ==
  ASSUME m_postSeal' = <<>>
  PROVE  Posts'
<1>1. Elements(m_postSeal') = {}
  BY ElementsOfNone
<1> QED BY <1>1 DEF Posts

LEMMA PostsPosted ==
  ASSUME Inv, BInv, Tells, m_postSeal' = working,
         ownBlock' \in {<<>>, Append(base, working)}, working' = working
  PROVE  Posts'
<1>1. Elements(working) \subseteq TxsOf(Append(base, working))
  BY BlockInChain, KnownChains DEF Inv
<1>2. Elements(m_postSeal') = Elements(working) /\ Elements(working') = Elements(working)
  BY DEF Elements
<1> QED BY <1>1, <1>2 DEF Posts, TxsOf

LEMMA NextPosts ==
  ASSUME Inv, BInv, RInv, [Next]_vars
  PROVE  Posts'
<1> DEFINE Same == UNCHANGED <<postVars, working>> /\ (pc = "resubmit" => pc' = "resubmit")
<1>1. ASSUME Same PROVE Posts'
  BY <1>1, PostsKept DEF RInv
<1>2. CASE UNCHANGED vars
  BY <1>1, <1>2 DEF vars, workVars
<1>3. ASSUME NEW t \in Txs, Submit(t) PROVE Posts'
  BY <1>1, <1>3 DEF Submit, workVars
<1>4. CASE clearPending
  BY <1>4, PostsEmptied DEF clearPending
<1>5. CASE submitSealed
  BY <1>5, PostsPosted DEF submitSealed, RInv
<1>6. CASE syncBlockQueue \/ noBlocks \/ NextCall
  BY <1>1, <1>6 DEF syncBlockQueue, noBlocks, NextCall, workVars
<1>7. CASE resyncStateFromChain
  <2>1. UNCHANGED postVars /\ pc # "resubmit"
        /\ (UNCHANGED working \/ pc' = "resubmit")
    BY <1>7 DEF resyncStateFromChain, workVars
  <2>2. Elements(working) \subseteq Elements(working') \/ pc' = "resubmit"
    BY <2>1
  <2> QED BY <2>1, <2>2, PostsKept DEF RInv
<1>8. CASE resyncDone
  BY <1>8, PostsPosted DEF resyncDone, workVars, RInv
<1>9. CASE resetState
  BY <1>1, <1>9, PostsEmptied DEF resetState
<1>10. CASE resetDone \/ checkSync \/ skipSync \/ syncBegin \/ syncPass \/ announce
  BY <1>1, <1>10 DEF resetDone, checkSync, skipSync, syncBegin, syncPass, announce, workVars
<1>11. CASE syncOne
  <2>1. PICK t \in Txs : working' = working \/ working' = Append(working, t)
    BY <1>11 DEF syncOne, execute, reject, wrongNonce
  <2>2. UNCHANGED <<postVars, pc>>
    BY <1>11 DEF syncOne
  <2>3. working \in Seq(Txs)
    BY DEF Inv
  <2>4. Elements(Append(working, t)) = Elements(working) \cup {t}
    BY <2>3, ElementsAppended
  <2>5. Elements(working) \subseteq Elements(working')
    BY <2>1, <2>4
  <2> QED BY <2>2, <2>5, PostsKept DEF RInv
<1>12. CASE publish \/ rejigSealing
  <2>1. UNCHANGED <<base, working>>
    BY <1>12 DEF publish, rejigSealing, workVars
  <2>2. Posted \/ (UNCHANGED postVars /\ pc # "resubmit")
    BY <1>12 DEF publish, rejigSealing
  <2>3. CASE Posted
    <3>1. m_postSeal' = working /\ ownBlock' \in {<<>>, Append(base, working)}
      BY <2>3 DEF Posted
    <3> QED BY <2>1, <3>1, PostsPosted DEF RInv
  <2> QED BY <1>1, <2>1, <2>2, <2>3
<1> QED BY <1>2, <1>3, <1>4, <1>5, <1>6, <1>7, <1>8, <1>9, <1>10, <1>11, <1>12
        DEF Next, WorkThread, Others

-----------------------------------------------------------------------------
(* What is owed.                                                             *)

\* Only a new chain gives rise to more.
LEMMA OwedShrinks ==
  ASSUME History, pc # "start" \/ pc' # "calls"
  PROVE  owed' \subseteq owed /\ (pc' = "reset" => owed' = {})
  BY DEF History

\* A step of the work thread elsewhere, or one that ends the calls.
LEMMA OwingOver ==
  ASSUME Owing, History, pc # "start" \/ pc' # "calls",
         pc \notin {"calls", "resubmit"} \/ pc' = "reset"
  PROVE  owed' = {}
  BY OwedShrinks DEF Owing

LEMMA OwingNothing ==
  ASSUME owed' = {}
  PROVE  Owing'
  BY DEF Owing

\* A step of another thread.
LEMMA OwingRests ==
  ASSUME Owing, History, UNCHANGED <<chain, calls, pc>>,
         \A t \in owed : Safe(t) => Safe(t)',
         pc = "calls" => Elements(m_postSeal) \subseteq Elements(m_postSeal')
  PROVE  Owing'
<1>1. owed' \subseteq owed
  BY OwedShrinks
<1>2. /\ TxsOf(chain)' = TxsOf(chain) /\ Elements(calls)' = Elements(calls)
      /\ Elements(m_postSeal)' = Elements(m_postSeal')
  BY DEF TxsOf, Elements
<1>3. pc' \notin {"calls", "resubmit"} => owed' = {}
  BY <1>1 DEF Owing
<1>4. ASSUME NEW t \in owed', NEW u \in Txs, GoodCall(u) \in Elements(calls)'
      PROVE  ~SameSlot(u, t)
  BY <1>1, <1>2, <1>4 DEF Owing
<1>5. ASSUME NEW t \in owed'
      PROVE  \/ Safe(t)' \/ InSlot(TxsOf(chain)', t) # {} \/ DeadCall(t) \in Elements(calls)'
             \/ pc' = "calls" /\ t \in Elements(m_postSeal)'
  <2>1. t \in owed
    BY <1>1
  <2>2. \/ Safe(t) \/ InSlot(TxsOf(chain), t) # {} \/ DeadCall(t) \in Elements(calls)
        \/ pc = "calls" /\ t \in Elements(m_postSeal)
    BY <2>1 DEF Owing
  <2>3. CASE Safe(t)
    BY <2>1, <2>3
  <2>4. CASE pc = "calls" /\ t \in Elements(m_postSeal)
    <3>1. pc' = "calls" /\ t \in Elements(m_postSeal')
      BY <2>4
    <3> QED BY <1>2, <3>1
  <2> QED BY <1>2, <2>2, <2>3, <2>4
<1> QED BY <1>3, <1>4, <1>5 DEF Owing, InSlot

\* One call: it saves what it is for, and harms nothing that is owed.
LEMMA NextCallOwing ==
  ASSUME IInv, RInv, History, NextCall
  PROVE  Owing'
<1>1. /\ calls # <<>> /\ Perform(Head(calls)) /\ calls' = Tail(calls)
      /\ UNCHANGED <<chain, m_postSeal, pc>> /\ pc \in {"calls", "resubmit"}
  BY DEF NextCall, chainVars, postVars
<1>2. Elements(calls) = {Head(calls)} \cup Elements(calls')
  BY <1>1, CallsSplit DEF RInv, Tells
<1>3. owed' \subseteq owed
  BY <1>1, OwedShrinks
<1>4. /\ TxsOf(chain)' = TxsOf(chain) /\ Elements(calls)' = Elements(calls')
      /\ Elements(m_postSeal)' = Elements(m_postSeal)
  BY <1>1 DEF TxsOf, Elements
<1>5. ASSUME NEW t \in owed', NEW u \in Txs, GoodCall(u) \in Elements(calls)'
      PROVE  ~SameSlot(u, t)
  <2>1. GoodCall(u) \in Elements(calls)
    BY <1>2, <1>4, <1>5
  <2> QED BY <1>3, <2>1 DEF RInv, Owing
<1>6. ASSUME NEW t \in owed'
      PROVE  \/ Safe(t)' \/ InSlot(TxsOf(chain)', t) # {} \/ DeadCall(t) \in Elements(calls)'
             \/ pc' = "calls" /\ t \in Elements(m_postSeal)'
  <2>1. /\ \A u \in Txs : GoodCall(u) \in Elements(calls) => ~SameSlot(u, t)
        /\ \/ Safe(t) \/ InSlot(TxsOf(chain), t) # {} \/ DeadCall(t) \in Elements(calls)
           \/ pc = "calls" /\ t \in Elements(m_postSeal)
    BY <1>3 DEF RInv, Owing
  <2>2. CASE Safe(t) \/ DeadCall(t) = Head(calls)
    <3>1. \A u \in Txs : Head(calls) = GoodCall(u) => ~SameSlot(u, t)
      BY <1>2, <2>1
    <3> QED BY <1>1, <2>2, <3>1, PerformKeepsSafe
  <2> QED BY <1>1, <1>2, <1>4, <2>1, <2>2
<1>7. pc' \in {"calls", "resubmit"}
  BY <1>1
<1> QED BY <1>5, <1>6, <1>7 DEF Owing, InSlot

\* What ChainCalls tells the queue.
LEMMA ChainCallsAre ==
  ASSUME NEW dead \in Seq(Txs), NEW good \in Seq(Txs)
  PROVE  /\ ChainCalls(dead, good) \in Seq(Elements(ChainCalls(dead, good)))
         /\ \A t \in Elements(dead) : DeadCall(t) \in Elements(ChainCalls(dead, good))
         /\ \A u : GoodCall(u) \in Elements(ChainCalls(dead, good)) => u \in Elements(good)
<1> DEFINE D == MapCalls(DeadCall, dead)
           G == MapCalls(GoodCall, good)
           R == Elements(D) \cup Elements(G)
           r == D \o G
<1>1. D = [i \in DOMAIN dead |-> DeadCall(dead[i])]
  BY DEF MapCalls
<1>2. G = [i \in DOMAIN good |-> GoodCall(good[i])]
  BY DEF MapCalls
<1>3. /\ DOMAIN dead = 1..Len(dead) /\ Len(dead) \in Nat
      /\ DOMAIN good = 1..Len(good) /\ Len(good) \in Nat
  OBVIOUS
<1>4. ChainCalls(dead, good) = r
  BY DEF ChainCalls
<1> HIDE DEF D, G
<1>5. Elements(D) = {DeadCall(t) : t \in Elements(dead)}
  BY <1>1 DEF Elements, SX!ToSet
<1>6. Elements(G) = {GoodCall(t) : t \in Elements(good)}
  BY <1>2 DEF Elements, SX!ToSet
<1>7. D \in Seq(R)
  <2>1. D \in [1..Len(dead) -> R]
    BY <1>1, <1>3, <1>5 DEF Elements, SX!ToSet
  <2> HIDE DEF R
  <2> QED BY <2>1, <1>3
<1>8. G \in Seq(R)
  <2>1. G \in [1..Len(good) -> R]
    BY <1>2, <1>3, <1>6 DEF Elements, SX!ToSet
  <2> HIDE DEF R
  <2> QED BY <2>1, <1>3
<1>9. r \in Seq(R) /\ Elements(r) = R
  <2>1. r \in Seq(R) /\ Elements(r) = Elements(D) \cup Elements(G)
    <3> HIDE DEF R
    <3> QED BY <1>7, <1>8, ElementsJoined
  <2> QED BY <2>1
<1> HIDE DEF r
<1>10. ASSUME NEW u, GoodCall(u) \in R PROVE u \in Elements(good)
  BY <1>5, <1>6, <1>10 DEF GoodCall, DeadCall
<1>11. \A t \in Elements(dead) : DeadCall(t) \in R
  BY <1>5
<1> HIDE DEF R
<1> QED BY <1>4, <1>9, <1>10, <1>11

LEMMA ResubmitCallsAre ==
  ASSUME NEW dead \in Seq(Txs)
  PROVE  /\ MapCalls(DeadCall, dead) \in Seq(Elements(MapCalls(DeadCall, dead)))
         /\ \A t \in Elements(dead) : DeadCall(t) \in Elements(MapCalls(DeadCall, dead))
         /\ \A u : GoodCall(u) \notin Elements(MapCalls(DeadCall, dead))
<1> DEFINE D == MapCalls(DeadCall, dead)
           R == Elements(D)
<1>1. D = [i \in DOMAIN dead |-> DeadCall(dead[i])]
  BY DEF MapCalls
<1>2. DOMAIN dead = 1..Len(dead) /\ Len(dead) \in Nat
  OBVIOUS
<1> HIDE DEF D
<1>3. R = {DeadCall(t) : t \in Elements(dead)}
  BY <1>1 DEF Elements, SX!ToSet
<1>4. D \in [1..Len(dead) -> R]
  BY <1>1, <1>2, <1>3 DEF Elements, SX!ToSet
<1>5. \A u : GoodCall(u) \notin R
  BY <1>3 DEF GoodCall, DeadCall
<1>6. \A t \in Elements(dead) : DeadCall(t) \in R
  BY <1>3
<1>7. D \in Seq(R)
  <2> HIDE DEF R
  <2> QED BY <1>2, <1>4
<1> QED BY <1>5, <1>6, <1>7 DEF D

\* A batch: what it takes out of the chain is among the calls, and what is good is of the
\* new blocks.
LEMMA SyncBlockQueueOwing ==
  ASSUME IInv, BInv, RInv, History, syncBlockQueue
  PROVE  Owing' /\ Tells'
<1>1. PICK b \in Batches :
          LET r == Synced(b, chain) IN
          /\ imported' = imported \cup Elements(b)
          /\ chain' = r.head
          /\ IF r.live
             THEN /\ pc' = "calls"
                  /\ calls' = ChainCalls(SX!FlattenSeq(r.dead),
                                         SX!FlattenSeq([i \in DOMAIN b |-> SX!Last(b[i])]))
             ELSE pc' = "reset" /\ UNCHANGED calls
  BY DEF syncBlockQueue
<1> DEFINE r == Synced(b, chain)
           lasts == [i \in DOMAIN b |-> SX!Last(b[i])]
           new == UNION {Elements(SX!Last(c)) : c \in imported' \ imported}
<1>2. PICK n \in Nat : b \in [1..n -> Chains \ imported]
  <2>1. PICK n \in 1..MaxBatch : b \in [1..n -> Chains \ imported]
    BY DEF Batches
  <2> QED BY <2>1, BoundsAssumption
<1>3. SyncedFrom(b, chain, r)
  BY <1>2, SyncedFacts
<1>4. pc = "start" /\ UNCHANGED <<tqVars, postVars>>
  BY DEF syncBlockQueue
<1>a. /\ imported' = imported \cup Elements(b) /\ chain' = r.head
      /\ r.live => pc' = "calls" /\ calls' = ChainCalls(SX!FlattenSeq(r.dead), SX!FlattenSeq(lasts))
      /\ ~r.live => pc' = "reset" /\ UNCHANGED calls
  BY <1>1
<1> HIDE DEF r, lasts
<1>5. Elements(b) = {b[i] : i \in DOMAIN b} /\ Elements(b) \subseteq Chains \ imported
  BY <1>2 DEF Elements, SX!ToSet
<1>6. imported' \subseteq Chains \cup {<<>>}
  BY <1>a, <1>5 DEF RInv, Tells
<1>7. CASE ~r.live
  <2>1. owed' = {} /\ pc' = "reset" /\ calls' = calls
    BY <1>4, <1>7, <1>a, OwedShrinks
  <2> QED BY <1>6, <2>1, OwingNothing DEF RInv, Tells, Elements
<1>8. CASE r.live
  <2>1. chain' \in Chains /\ chain' # <<>>
    BY <1>3, <1>5, <1>8, <1>a, ChainsAssumption DEF SyncedFrom
  <2>2. {chain} \cup Elements(b) \subseteq Seq(Seq(Txs))
    BY <1>5, KnownChains, ChainsAssumption DEF RInv
  <2>3. r.dead \in Seq(Seq(Txs)) /\ TxsOf(chain) \subseteq TxsOf(chain') \cup TxsOf(r.dead)
    BY <1>3, <1>a, <2>2 DEF SyncedFrom
  <2>4. \A i \in DOMAIN b : SX!Last(b[i]) \in Seq(Txs)
    <3> TAKE i \in DOMAIN b
    <3>1. b[i] \in Seq(Seq(Txs)) /\ b[i] # <<>>
      BY <1>5, ChainsAssumption
    <3> DEFINE c == b[i]  S == Seq(Txs)
    <3> HIDE DEF c, S
    <3>2. c \in Seq(S) /\ c # <<>>
      BY <3>1 DEF c, S
    <3>3. c[Len(c)] \in S
      BY <3>2
    <3> QED BY <3>3 DEF SX!Last, c, S
  <2>5. lasts \in Seq(Seq(Txs)) /\ DOMAIN lasts = DOMAIN b
    <3> DEFINE S == Seq(Txs)
    <3>1. lasts \in [1..n -> S]
      BY <1>2, <2>4 DEF lasts
    <3> HIDE DEF S
    <3> QED BY <1>2, <3>1 DEF S
  <2>6. SX!FlattenSeq(lasts) \in Seq(Txs) /\ Elements(SX!FlattenSeq(lasts)) \subseteq new
    <3>1. Elements(SX!FlattenSeq(lasts)) = UNION {Elements(lasts[i]) : i \in DOMAIN lasts}
      BY <2>5, Flattened
    <3>2. ASSUME NEW i \in DOMAIN lasts PROVE Elements(lasts[i]) \subseteq new
      <4>1. b[i] \in imported' \ imported /\ lasts[i] = SX!Last(b[i])
        BY <1>5, <1>a, <2>5 DEF lasts
      <4> QED BY <4>1
    <3> QED BY <2>5, <3>1, <3>2, Flattened
  <2>7. SX!FlattenSeq(r.dead) \in Seq(Txs) /\ Elements(SX!FlattenSeq(r.dead)) = TxsOf(r.dead)
    BY <2>3, Flattened DEF TxsOf
  <2>8. /\ calls' \in Seq(Elements(calls'))
        /\ \A t \in TxsOf(r.dead) : DeadCall(t) \in Elements(calls')
        /\ \A u : GoodCall(u) \in Elements(calls') => u \in new
    <3> DEFINE dead == SX!FlattenSeq(r.dead)
               good == SX!FlattenSeq(lasts)
    <3>1. /\ dead \in Seq(Txs) /\ good \in Seq(Txs) /\ calls' = ChainCalls(dead, good)
          /\ Elements(dead) = TxsOf(r.dead) /\ Elements(good) \subseteq new
      BY <1>8, <1>a, <2>6, <2>7
    <3> HIDE DEF dead, good, new
    <3> QED BY <3>1, ChainCallsAre
  <2>9. owed' = {t \in (TxsOf(chain) \ TxsOf(chain')) \cup Elements(m_postSeal) : InSlot(new, t) = {}}
    BY <1>4, <1>8, <1>a DEF History
  <2> HIDE DEF new
  <2>10. /\ TxsOf(chain)' = TxsOf(chain') /\ Elements(calls)' = Elements(calls')
         /\ Elements(m_postSeal)' = Elements(m_postSeal) /\ pc' = "calls"
    BY <1>4, <1>8, <1>a DEF TxsOf, Elements, postVars
  <2>11. ASSUME NEW t \in owed', NEW u \in Txs, GoodCall(u) \in Elements(calls)'
         PROVE  ~SameSlot(u, t)
    <3>1. u \in new
      BY <2>8, <2>10, <2>11
    <3> QED BY <2>9, <3>1 DEF InSlot, SameSlot
  <2>12. ASSUME NEW t \in owed'
         PROVE  DeadCall(t) \in Elements(calls)' \/ t \in Elements(m_postSeal)'
    BY <2>3, <2>8, <2>9, <2>10
  <2>13. Owing'
    BY <2>10, <2>11, <2>12 DEF Owing
  <2>14. Tells'
    BY <1>6, <2>1, <2>8, <2>10 DEF Tells
  <2> QED BY <2>13, <2>14
<1> QED BY <1>7, <1>8

\* The end of the calls: what is not safe yet is resubmitted, unless the block that holds
\* it is the new head.
LEMMA ResyncOwing ==
  ASSUME BInv, RInv, History, resyncStateFromChain
  PROVE  Owing' /\ Tells'
<1>1. /\ pc = "calls" /\ calls = <<>> /\ UNCHANGED <<tqVars, chainVars, postVars>>
      /\ \/ pc' = "reset" /\ UNCHANGED calls
         \/ pc' = "resubmit" /\ calls' = MapCalls(DeadCall, Resubmitted(chain))
  BY DEF resyncStateFromChain
<1>2. CASE pc' = "reset" /\ UNCHANGED calls
  <2>1. owed' = {}
    BY <1>1, <1>2, OwedShrinks
  <2> QED BY <1>1, <1>2, <2>1, OwingNothing DEF RInv, Tells, Elements, chainVars
<1>3. CASE pc' = "resubmit" /\ calls' = MapCalls(DeadCall, Resubmitted(chain))
  <2> DEFINE again == Resubmitted(chain)
  <2>1. again \in Seq(Txs)
    <3>1. m_postSeal \in Seq(Txs) /\ <<>> \in Seq(Txs)
      BY DEF BInv
    <3> QED BY <3>1 DEF Resubmitted
  <2>2. \A t \in Elements(m_postSeal) : t \in Elements(again) \/ t \in TxsOf(chain)
    <3>1. CASE ownBlock = chain
      BY <1>1, <3>1 DEF RInv, Posts, Tells
    <3>2. CASE ownBlock # chain
      BY <3>2 DEF Resubmitted
    <3> QED BY <3>1, <3>2
  <2> HIDE DEF again
  <2>3. /\ calls' \in Seq(Elements(calls'))
        /\ \A t \in Elements(again) : DeadCall(t) \in Elements(calls')
        /\ \A u : GoodCall(u) \notin Elements(calls')
    <3>1. calls' = MapCalls(DeadCall, again)
      BY <1>3 DEF again
    <3> QED BY <2>1, <3>1, ResubmitCallsAre
  <2>4. owed' \subseteq owed
    BY <1>1, OwedShrinks
  <2>5. /\ TxsOf(chain)' = TxsOf(chain) /\ Elements(calls)' = Elements(calls')
        /\ \A t : Safe(t) => Safe(t)'
    BY <1>1 DEF TxsOf, Elements, Safe, Queued, InSlot, tqVars, chainVars
  <2>6. ASSUME NEW t \in owed'
        PROVE  Safe(t)' \/ InSlot(TxsOf(chain)', t) # {} \/ DeadCall(t) \in Elements(calls)'
    <3>1. \/ Safe(t) \/ InSlot(TxsOf(chain), t) # {} \/ DeadCall(t) \in Elements(calls)
          \/ t \in Elements(m_postSeal)
      BY <2>4 DEF RInv, Owing
    <3>2. DeadCall(t) \notin Elements(calls)
      BY <1>1, ElementsOfNone
    <3>3. t \in TxsOf(chain) => InSlot(TxsOf(chain), t) # {}
      BY DEF InSlot, SameSlot
    <3> QED BY <2>2, <2>3, <2>5, <3>1, <3>2, <3>3
  <2>7. Owing'
    BY <1>3, <2>3, <2>5, <2>6 DEF Owing, InSlot
  <2>8. Tells'
    BY <1>1, <1>3, <2>3, <2>5 DEF RInv, Tells, chainVars
  <2> QED BY <2>7, <2>8
<1> QED BY <1>1, <1>2, <1>3

LEMMA TellsRest ==
  ASSUME Tells, UNCHANGED <<imported, chain, calls>>, pc' = "calls" => pc = "calls"
  PROVE  Tells'
  BY DEF Tells, Elements

\* The steps of the work thread that have nothing to do with a change of the chain.
Elsewhere ==
    \/ noBlocks \/ resyncDone \/ resetState \/ resetDone \/ checkSync \/ skipSync
    \/ syncBegin \/ syncOne \/ syncPass \/ publish \/ announce \/ rejigSealing

LEMMA ElsewhereIs ==
  ASSUME Elsewhere
  PROVE  /\ UNCHANGED <<imported, chain, calls>> /\ pc' # "calls" /\ pc # "calls"
         /\ pc = "resubmit" => pc' = "reset" /\ UNCHANGED tqVars /\ calls = <<>>
         /\ pc' # "resubmit"
<1> DEFINE Is == /\ UNCHANGED <<imported, chain, calls>> /\ pc' # "calls" /\ pc # "calls"
                 /\ pc = "resubmit" => pc' = "reset" /\ UNCHANGED tqVars /\ calls = <<>>
                 /\ pc' # "resubmit"
<1>1. ASSUME noBlocks \/ resyncDone \/ resetState \/ resetDone PROVE Is
  BY <1>1 DEF noBlocks, resyncDone, resetState, resetDone, chainVars
<1>2. ASSUME checkSync \/ skipSync \/ syncBegin \/ syncOne PROVE Is
  BY <1>2 DEF checkSync, skipSync, syncBegin, syncOne, chainVars
<1>3. ASSUME syncPass \/ publish \/ announce \/ rejigSealing PROVE Is
  BY <1>3 DEF syncPass, publish, announce, rejigSealing, chainVars
<1> QED BY <1>1, <1>2, <1>3 DEF Elsewhere

LEMMA OthersOwing ==
  ASSUME IInv, RInv, History, Others
  PROVE  Owing' /\ Tells'
<1>1. ASSUME NEW t \in Txs, Submit(t) PROVE Owing' /\ Tells'
  <2>1. UNCHANGED <<imported, chain, calls, pc, m_postSeal>> /\ Import(t, FALSE)
    BY <1>1 DEF Submit, chainVars, postVars
  <2>2. import(t, FALSE) \/ UNCHANGED tqVars
    BY <2>1 DEF Import
  <2>3. ASSUME UNCHANGED tqVars, NEW u, Safe(u) PROVE Safe(u)'
    BY <2>3 DEF Safe, Queued, InSlot, tqVars
  <2>4. \A u \in owed : Safe(u) => Safe(u)'
    BY <2>2, <2>3, ImportKeepsSafe
  <2>5. Elements(m_postSeal) \subseteq Elements(m_postSeal')
    BY <2>1
  <2>6. Owing'
    BY <2>1, <2>4, <2>5, OwingRests DEF RInv
  <2> QED BY <2>1, <2>6, TellsRest DEF RInv
<1>2. CASE clearPending
  <2>1. clear /\ UNCHANGED <<imported, chain, calls, pc>>
    BY <1>2 DEF clearPending, chainVars
  <2>2. current' = {} /\ m_known' = {}
    BY <2>1 DEF clear
  <2>3. owed' = {}
    BY <2>1, <2>2 DEF History
  <2> QED BY <2>1, <2>3, OwingNothing, TellsRest DEF RInv
<1>3. CASE submitSealed
  <2>1. UNCHANGED <<imported, chain, calls, pc, tqVars>> /\ m_postSeal' = working
    BY <1>3 DEF submitSealed, chainVars
  <2>2. \A u \in owed : Safe(u) => Safe(u)'
    BY <2>1 DEF Safe, Queued, InSlot, tqVars
  <2>3. pc = "calls" => Elements(m_postSeal) \subseteq Elements(m_postSeal')
    BY <2>1 DEF RInv, Posts
  <2>4. Owing'
    BY <2>1, <2>2, <2>3, OwingRests DEF RInv
  <2> QED BY <2>1, <2>4, TellsRest DEF RInv
<1> QED BY <1>1, <1>2, <1>3 DEF Others

LEMMA NextRInv == IInv /\ Inv /\ BInv /\ RInv /\ [Next]_vars => RInv'
<1> SUFFICES ASSUME IInv, Inv, BInv, RInv, [Next]_vars PROVE Owing' /\ Tells'
  BY NextPosts DEF RInv
<1>1. CASE UNCHANGED vars
  <2>1. UNCHANGED <<tqVars, imported, chain, calls, pc, m_postSeal, owed>>
    BY <1>1 DEF vars, chainVars, postVars, historyVars
  <2> QED BY <2>1 DEF RInv, Owing, Tells, Safe, Queued, InSlot, TxsOf, Elements, tqVars
<1>2. CASE Next /\ Others
  BY <1>2, OthersOwing DEF Next
<1>3. CASE Next /\ syncBlockQueue
  BY <1>3, SyncBlockQueueOwing DEF Next
<1>4. CASE Next /\ NextCall
  <2>1. /\ calls # <<>> /\ calls' = Tail(calls) /\ UNCHANGED <<imported, chain, pc>>
    BY <1>4 DEF NextCall, chainVars
  <2>2. calls' \in Seq(Elements(calls'))
    BY <2>1, CallsSplit DEF RInv, Tells
  <2>3. Tells'
    BY <2>1, <2>2 DEF RInv, Tells, Elements
  <2> QED BY <1>4, <2>3, NextCallOwing DEF Next
<1>5. CASE Next /\ resyncStateFromChain
  BY <1>5, ResyncOwing DEF Next
<1>6. CASE Next /\ Elsewhere
  <2>1. /\ UNCHANGED <<imported, chain, calls>> /\ pc' # "calls" /\ pc # "calls"
        /\ pc = "resubmit" => pc' = "reset"
    BY <1>6, ElsewhereIs
  <2>2. owed' = {}
    BY <1>6, <2>1, OwingOver DEF Next, RInv
  <2> QED BY <2>1, <2>2, OwingNothing, TellsRest DEF RInv
<1> QED BY <1>1, <1>2, <1>3, <1>4, <1>5, <1>6 DEF Next, WorkThread, Elsewhere

\* What ReorgKeeps asks of a step.
LEMMA NothingIsLost ==
  ASSUME RInv, [Next]_vars, pc' = "reset", NEW t \in owed
  PROVE  \/ InSlot(Queued' \cup TxsOf(chain') \cup Elements(m_postSeal'), t) # {}
         \/ t \in m_known'
<1>1. pc \in {"calls", "resubmit"} /\ Next
  <2>1. pc \in {"calls", "resubmit"}
    BY DEF RInv, Owing
  <2> QED BY <2>1 DEF vars
<1>2. resyncStateFromChain \/ resyncDone
  <2>1. ASSUME NEW u \in Txs, Submit(u) PROVE pc' = pc
    BY <2>1 DEF Submit
  <2>2. CASE clearPending \/ submitSealed \/ NextCall
    BY <1>1, <2>2 DEF clearPending, submitSealed, NextCall
  <2>3. CASE syncBlockQueue \/ noBlocks
    BY <1>1, <2>3 DEF syncBlockQueue, noBlocks
  <2>4. CASE resetState \/ resetDone \/ checkSync \/ skipSync \/ syncBegin \/ syncOne
             \/ syncPass \/ publish \/ announce \/ rejigSealing
    BY <1>1, <2>4 DEF resetState, resetDone, checkSync, skipSync, syncBegin, syncOne,
                      syncPass, publish, announce, rejigSealing
  <2> QED BY <1>1, <2>1, <2>2, <2>3, <2>4 DEF Next, WorkThread, Others
<1>3. /\ calls = <<>> /\ UNCHANGED <<tqVars, chainVars>>
      /\ pc = "calls" => UNCHANGED m_postSeal
  BY <1>2 DEF resyncStateFromChain, resyncDone, postVars
<1>4. DeadCall(t) \notin Elements(calls)
  BY <1>3, ElementsOfNone
<1>5. \/ Safe(t) \/ InSlot(TxsOf(chain), t) # {}
      \/ pc = "calls" /\ t \in Elements(m_postSeal)
  BY <1>4 DEF RInv, Owing
<1>6. /\ Queued' = Queued /\ chain' = chain /\ m_known' = m_known
      /\ pc = "calls" => m_postSeal' = m_postSeal
  BY <1>3 DEF Queued, tqVars, chainVars
<1> QED BY <1>5, <1>6 DEF Safe, InSlot, SameSlot

\* Whatever happens while the work thread follows the chain -- an import, a clear(), a
\* sealed block -- no transaction of a dead block and no pending one is lost: it is queued,
\* in the chain or pending again, or its slot is taken, or the queue holds it for known.
THEOREM ClientReorgKeeps == Spec => ReorgKeeps
<1> DEFINE All == IInv /\ Inv /\ BInv /\ RInv
<1>1. Init => All
  <2> SUFFICES ASSUME Init PROVE All
    OBVIOUS
  <2>1. /\ pc = "start" /\ chain = <<>> /\ base = <<>> /\ imported = {<<>>}
        /\ working = <<>> /\ m_postSeal = <<>> /\ ownBlock = <<>> /\ owed = {} /\ calls = <<>>
    BY DEF Init
  <2>2. IInv /\ Inv
    BY InitIInv, InitInv DEF Init
  <2>3. BInv
    BY <2>1, NoNonces, NoneIsSequence DEF BInv
  <2>4. RInv
    BY <2>1, NoneIsSequence DEF RInv, Owing, Posts, Tells
  <2> QED BY <2>2, <2>3, <2>4
<1>2. All /\ [Next]_vars => All'
  <2> SUFFICES ASSUME All, [Next]_vars PROVE All'
    OBVIOUS
  <2>1. IInv'
    BY StepIsQueueStep, NextIInv
  <2> QED BY <2>1, NextInv, NextBase, NextRInv
<1>3. All /\ [Next]_vars =>
        [pc' = "reset" =>
           \A t \in owed : \/ InSlot(Queued' \cup TxsOf(chain') \cup Elements(m_postSeal'), t) # {}
                           \/ t \in m_known']_vars
  BY NothingIsLost
<1> HIDE DEF All
<1> QED BY <1>1, <1>2, <1>3, PTL DEF Spec, ReorgKeeps
===============================================================================
