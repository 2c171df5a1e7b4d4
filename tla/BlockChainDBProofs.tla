-------------------------- MODULE BlockChainDBProofs ---------------------------
(***************************************************************************)
(* What the databases of BlockChain keep for every tree of blocks, any     *)
(* number of readers, of rewinds and of crashes.                           *)
(*                                                                         *)
(* The argument.  Nothing is ever taken out of the two databases, and the  *)
(* details of a block are written after its body and, for import() checks  *)
(* it, after the details of its parent.  A number is given to a block in   *)
(* the batch that stores the block or to one stored before; what a reader  *)
(* caches was in the database (ReadersHaveStored).  The route covers every *)
(* number between the two ends' and the new head's (ImportGoesOn), so when *)
(* the head moves no number below it is without a block, and a rewind finds*)
(* one.                                                                    *)
(*                                                                         *)
(* The second part is about the chain of the head, the set of its          *)
(* ancestors.  The two chains treeRoute() follows down have nothing in     *)
(* common above its two ends (RouteSplits), so what it has collected when  *)
(* the ends meet is the difference of the chains; so the numbers it gives  *)
(* are those of the new chain, each to one block (HeadLeads).              *)
(***************************************************************************)
EXTENDS BlockChainDB, TLAPS, WellFoundedInduction

Stored(h) == extrasDB[h] # None

Covered(n) == \E h \in ToSet(fresh) : Number[h] = n

\* What a reader is about to cache is a stored block of that number.
ReadersHaveStored ==
    \A r \in Readers : pending[r].kind = "hash" =>
        Stored(pending[r].value) /\ Number[pending[r].value] = pending[r].key

\* What import() knows at each of its positions.
ImportGoesOn ==
    /\ Stored(Genesis)
    /\ pc \in {"idle", "child"} => fresh = <<>>
    /\ pc # "idle" =>
         /\ block \in Blocks
         /\ Stored(Parent[block])
         /\ fresh # <<>> => Heavier(block, m_lastBlockHash)
         /\ \A h \in ToSet(fresh) : h = block \/ Stored(h)
    /\ pc = "route" =>
         /\ from \in Nodes /\ to \in Nodes
         /\ Stored(from) /\ Stored(to) /\ fresh # <<>>
         /\ Number[from] <= m_lastBlockNumber
         /\ \A n \in Numbers : Number[to] < n /\ n <= Number[block] => Covered(n)
    /\ pc \in {"blocks", "extras"} /\ fresh # <<>> =>
         \A n \in Numbers : m_lastBlockNumber < n /\ n <= Number[block] => Covered(n)
    /\ pc = "extras" => block \in blocksDB
    /\ pc = "best" =>
         /\ Stored(block)
         /\ fresh # <<>>
         /\ \A n \in Numbers : n <= Number[block] => hashesDB[n] # None

IInv == /\ TypeOK /\ StoredIsClosed /\ HeadIsStored /\ ParentStaysCached
        /\ ReadersHaveStored /\ ImportGoesOn

-----------------------------------------------------------------------------
(* Facts about the constants, and about the operators.                       *)

LEMMA NumberFacts ==
  /\ \A h \in Nodes : Number[h] \in Nat
  /\ \A h \in Blocks : /\ Parent[h] \in Nodes
                       /\ Number[h] = Number[Parent[h]] + 1
                       /\ Number[h] \in Numbers
  /\ \A n \in Numbers : n \in Nat /\ n > 0
  /\ \A h \in Nodes : Number[h] = 0 => h = Genesis
<1>1. \A h \in Nodes : Number[h] \in Nat
  BY NumberAssumption
<1>2. \A h \in Blocks : Parent[h] \in Nodes /\ Number[h] = Number[Parent[h]] + 1
  BY ParentAssumption, NumberAssumption
<1>3. \A h \in Blocks : Number[h] \in Numbers /\ Number[h] > 0
  BY <1>1, <1>2 DEF Numbers, Nodes
<1>4. \A n \in Numbers : n \in Nat /\ n > 0
  BY <1>1, <1>3 DEF Numbers, Nodes
<1>5. \A h \in Nodes : Number[h] = 0 => h = Genesis
  BY <1>3 DEF Nodes
<1> QED BY <1>1, <1>2, <1>3, <1>4, <1>5

LEMMA NoneIsNoEntry ==
  /\ None \notin Blocks /\ None \notin Nodes /\ Genesis # None
  /\ \A S \in SUBSET Blocks : S # None
  BY NoneAssumption DEF Nodes

\* The new last block of a route is covered by it, and nothing less is.
LEMMA RouteElements ==
  ASSUME NEW s \in Seq(Blocks), NEW h \in Blocks
  PROVE  /\ ToSet(<<h>> \o s) = {h} \cup ToSet(s)
         /\ <<h>> \o s \in Seq(Blocks)
         /\ <<h>> \o s # <<>>
<1> DEFINE t == <<h>> \o s
<1>1. t \in Seq(Blocks) /\ Len(t) = Len(s) + 1 /\ t[1] = h
  OBVIOUS
<1>2. \A i \in 1..Len(s) : t[i + 1] = s[i]
  OBVIOUS
<1>3. \A i \in 2..Len(t) : i - 1 \in 1..Len(s) /\ t[i] = s[i - 1]
  BY <1>1
<1>4. \A x : x \in ToSet(t) <=> x = h \/ x \in ToSet(s)
  <2> HIDE DEF t
  <2>1. ToSet(t) = {t[i] : i \in 1..Len(t)} /\ ToSet(s) = {s[i] : i \in 1..Len(s)}
    BY <1>1 DEF ToSet
  <2>2. 1 \in 1..Len(t) /\ \A i \in 1..Len(s) : i + 1 \in 1..Len(t)
    BY <1>1
  <2>3. \A i \in 1..Len(t) : i = 1 \/ i \in 2..Len(t)
    BY <1>1
  <2>4. h \in ToSet(t)
    BY <1>1, <2>1, <2>2
  <2>5. ASSUME NEW x \in ToSet(s) PROVE x \in ToSet(t)
    <3>1. PICK i \in 1..Len(s) : x = s[i]
      BY <2>1
    <3>2. x = t[i + 1] /\ i + 1 \in 1..Len(t)
      BY <3>1, <1>2, <2>2
    <3> QED BY <3>2, <2>1
  <2>6. ASSUME NEW x \in ToSet(t) PROVE x = h \/ x \in ToSet(s)
    <3>1. PICK i \in 1..Len(t) : x = t[i]
      BY <2>1
    <3>2. CASE i = 1
      BY <3>1, <3>2, <1>1
    <3>3. CASE i \in 2..Len(t)
      <4>1. i - 1 \in 1..Len(s) /\ x = s[i - 1]
        BY <3>1, <3>3, <1>3
      <4> QED BY <4>1, <2>1
    <3> QED BY <3>2, <3>3, <2>3
  <2> QED BY <2>4, <2>5, <2>6
<1> QED BY <1>1, <1>4

LEMMA RouteOfOne ==
  ASSUME NEW h \in Blocks
  PROVE  ToSet(<<h>>) = {h} /\ <<h>> \in Seq(Blocks) /\ <<h>> # <<>>
  BY DEF ToSet

LEMMA EmptyRoute == ToSet(<<>>) = {} /\ <<>> \in Seq(Blocks)
  BY DEF ToSet

LEMMA RouteInBlocks == ASSUME NEW s \in Seq(Blocks) PROVE ToSet(s) \subseteq Blocks
  BY DEF ToSet

LEMMA BetterIsHeavier ==
  ASSUME NEW h \in Nodes, NEW k \in Nodes
  PROVE  Better(h, k) => Heavier(h, k)
<1>1. totalDifficulty[h] \in Nat /\ totalDifficulty[k] \in Nat
  BY DifficultyAssumption
<1> QED BY <1>1 DEF Better, Heavier

\* What a read brings into the cache was in the database.
LEMMA FilledType ==
  ASSUME TypeOK, NEW S
  PROVE  /\ Filled(S) \in [Nodes -> (SUBSET Blocks) \cup {None}]
         /\ \A h \in Nodes : m_details[h] # None => Filled(S)[h] = m_details[h]
         /\ \A h \in Nodes : h \in S /\ Stored(h) => Filled(S)[h] # None
  BY DEF TypeOK, Filled, Stored

LEMMA NumberHashIsStored ==
  ASSUME IInv, NEW n \in Numbers \cup {0}, n < m_lastBlockNumber
  PROVE  /\ numberHash(n) \in Nodes
         /\ Stored(numberHash(n))
         /\ Number[numberHash(n)] = n
         /\ n \in Numbers => numberHash(n) \in Blocks
<1>1. CASE n = 0
  BY <1>1, NumberAssumption, NumberFacts DEF numberHash, IInv, ImportGoesOn, Nodes
<1>2. CASE n # 0
  <2>1. n \in Numbers /\ hashesDB[n] # None
    BY <1>2, NumberFacts DEF IInv, HeadIsStored, TypeOK
  <2>2. numberHash(n) \in {hashesDB[n], m_blockHashes[n]} \ {None}
    BY <1>2, <2>1 DEF numberHash
  <2> QED BY <2>1, <2>2 DEF IInv, HeadIsStored, TypeOK, Nodes, Stored
<1> QED BY <1>1, <1>2

-----------------------------------------------------------------------------
LEMMA InitIInv == Init => IInv
<1> SUFFICES ASSUME Init PROVE IInv
  OBVIOUS
<1> USE NoneIsNoEntry, NumberFacts, EmptyRoute
<1>1. TypeOK
  <2>1. extrasDB \in [Nodes -> (SUBSET Blocks) \cup {None}]
    BY DEF Init
  <2>2. hashesDB \in [Numbers -> Blocks \cup {None}]
    BY DEF Init
  <2>3. pending \in [Readers -> Reads] /\ pc \in Positions
    BY DEF Init, Positions, Reads
  <2>4. crashes \in 0..MaxCrashes /\ rewinds \in 0..MaxRewinds
    BY BoundAssumption DEF Init
  <2> QED BY <2>1, <2>2, <2>3, <2>4 DEF Init, TypeOK, Nodes
<1>2. StoredIsClosed /\ HeadIsStored /\ ParentStaysCached
  BY NumberAssumption, GenesisAssumption
  DEF Init, StoredIsClosed, HeadIsStored, ParentStaysCached, Best, Nodes
<1>3. ReadersHaveStored
  BY DEF Init, ReadersHaveStored, NoRead
<1>4. ImportGoesOn
  BY DEF Init, ImportGoesOn, Stored, Nodes
<1> QED BY <1>1, <1>2, <1>3, <1>4 DEF IInv

-----------------------------------------------------------------------------
(* Steps that only read, or fill and empty the caches.                       *)

LEMMA ReadSteps ==
  ASSUME IInv, NEW r \in Readers, Read(r)
  PROVE  IInv'
<1> USE NoneIsNoEntry DEF IInv
<1>1. UNCHANGED <<databases, head, call, counters>>
  BY DEF Read, ReadHash, CacheHash, ReadDetails, CacheDetails
<1> USE <1>1 DEF databases, head, call, counters
<1>2. CASE \E n \in Numbers : ReadHash(r, n)
  <2>1. PICK n \in Numbers : ReadHash(r, n)
    BY <1>2
  <2>2. /\ hashesDB[n] \in Blocks /\ Stored(hashesDB[n]) /\ Number[hashesDB[n]] = n
        /\ UNCHANGED caches
        /\ pending' = [pending EXCEPT ![r] =
                          [kind |-> "hash", key |-> n, value |-> hashesDB[n]]]
    BY <2>1 DEF ReadHash, TypeOK, HeadIsStored, Stored
  <2>3. TypeOK'
    BY <2>2 DEF TypeOK, caches, Reads
  <2>4. StoredIsClosed' /\ HeadIsStored' /\ ParentStaysCached' /\ ImportGoesOn'
    BY <2>2 DEF StoredIsClosed, HeadIsStored, Best, ParentStaysCached, ImportGoesOn, caches,
                Stored, Covered
  <2>5. ReadersHaveStored'
    BY <2>2 DEF ReadersHaveStored, TypeOK, Stored
  <2> QED BY <2>3, <2>4, <2>5
<1>3. CASE CacheHash(r)
  <2> DEFINE n == pending[r].key  h == pending[r].value
  <2>1. n \in Numbers /\ h \in Blocks
    BY <1>3 DEF CacheHash, TypeOK, Reads, NoRead
  <2>2. /\ Stored(h) /\ Number[h] = n /\ UNCHANGED m_details
        /\ pending' = [pending EXCEPT ![r] = NoRead]
        /\ m_blockHashes' = [m_blockHashes EXCEPT ![n] = IF @ = None THEN h ELSE @]
    BY <1>3, <2>1 DEF CacheHash, ReadersHaveStored
  <2> HIDE DEF n, h
  <2>3. TypeOK'
    BY <2>1, <2>2 DEF TypeOK, Reads
  <2>4. HeadIsStored'
    BY <2>1, <2>2 DEF HeadIsStored, Best, TypeOK, Stored
  <2>5. StoredIsClosed' /\ ParentStaysCached' /\ ImportGoesOn'
    BY <2>2 DEF StoredIsClosed, ParentStaysCached, ImportGoesOn, Stored, Covered
  <2>6. ReadersHaveStored'
    BY <2>2 DEF ReadersHaveStored, TypeOK, Stored, NoRead
  <2> QED BY <2>3, <2>4, <2>5, <2>6
<1>4. CASE \E h \in Nodes : ReadDetails(r, h)
  <2>1. PICK h \in Nodes : ReadDetails(r, h)
    BY <1>4
  <2>2. /\ extrasDB[h] \in SUBSET Blocks /\ UNCHANGED caches
        /\ pending' = [pending EXCEPT ![r] =
                          [kind |-> "details", key |-> h, value |-> extrasDB[h]]]
    BY <2>1 DEF ReadDetails, TypeOK
  <2>3. TypeOK'
    BY <2>2 DEF TypeOK, caches, Reads
  <2>4. StoredIsClosed' /\ HeadIsStored' /\ ParentStaysCached' /\ ImportGoesOn'
    BY <2>2 DEF StoredIsClosed, HeadIsStored, Best, ParentStaysCached, ImportGoesOn, caches,
                Stored, Covered
  <2>5. ReadersHaveStored'
    BY <2>2 DEF ReadersHaveStored, TypeOK, Stored
  <2> QED BY <2>3, <2>4, <2>5
<1>5. CASE CacheDetails(r)
  <2> DEFINE h == pending[r].key  S == pending[r].value
  <2>1. h \in Nodes /\ S \in SUBSET Blocks
    BY <1>5 DEF CacheDetails, TypeOK, Reads, NoRead
  <2>2. /\ UNCHANGED m_blockHashes
        /\ pending' = [pending EXCEPT ![r] = NoRead]
        /\ m_details' = [m_details EXCEPT ![h] = IF @ = None THEN S ELSE @]
    BY <1>5, <2>1 DEF CacheDetails
  <2> HIDE DEF h, S
  <2>3. TypeOK'
    BY <2>1, <2>2 DEF TypeOK, Reads
  <2>4. StoredIsClosed' /\ HeadIsStored' /\ ImportGoesOn'
    BY <2>2 DEF StoredIsClosed, HeadIsStored, Best, ImportGoesOn, Stored, Covered
  <2>5. ParentStaysCached'
    BY <2>1, <2>2 DEF ParentStaysCached, TypeOK
  <2>6. ReadersHaveStored'
    BY <2>2 DEF ReadersHaveStored, TypeOK, Stored, NoRead
  <2> QED BY <2>3, <2>4, <2>5, <2>6
<1> QED BY <1>2, <1>3, <1>4, <1>5 DEF Read

LEMMA GarbageCollectStep ==
  ASSUME IInv, NEW h \in Nodes, garbageCollect(h)
  PROVE  IInv'
<1> USE DEF IInv, garbageCollect, databases, head, call, counters
<1>1. TypeOK'
  BY DEF TypeOK
<1>2. StoredIsClosed' /\ HeadIsStored' /\ ParentStaysCached'
  BY DEF StoredIsClosed, HeadIsStored, Best, ParentStaysCached
<1>3. ReadersHaveStored' /\ ImportGoesOn'
  BY DEF ReadersHaveStored, ImportGoesOn, Stored, Covered
<1> QED BY <1>1, <1>2, <1>3

-----------------------------------------------------------------------------
(* The steps of import().                                                    *)

LEMMA ImportStep ==
  ASSUME IInv, NEW h \in Blocks, import(h)
  PROVE  IInv'
<1> USE NoneIsNoEntry, NumberFacts DEF IInv, databases, head, counters
<1>1. /\ pc = "idle" /\ pc' = "child" /\ block' = h
      /\ m_details' = Filled({h, Parent[h]})
      /\ UNCHANGED <<databases, m_blockHashes, head, record, from, to, dead, fresh, pending,
                     counters>>
  BY DEF import
<1>2. Parent[h] \in Nodes /\ Stored(Parent[h])
  BY DEF import, isKnown, ImportGoesOn, Stored
<1>3. /\ m_details' \in [Nodes -> (SUBSET Blocks) \cup {None}]
      /\ m_details'[Parent[h]] # None
  BY <1>1, <1>2, FilledType
<1>4. TypeOK'
  BY <1>1, <1>3 DEF TypeOK, Positions
<1>5. StoredIsClosed' /\ HeadIsStored' /\ ReadersHaveStored'
  BY <1>1 DEF StoredIsClosed, HeadIsStored, Best, ReadersHaveStored, Stored
<1>6. ParentStaysCached'
  BY <1>1, <1>3 DEF ParentStaysCached
<1>7. ImportGoesOn'
  BY <1>1, <1>2, EmptyRoute DEF ImportGoesOn, Stored
<1> QED BY <1>4, <1>5, <1>6, <1>7

LEMMA ListChildStep ==
  ASSUME IInv, ListChild
  PROVE  IInv'
<1> USE NoneIsNoEntry, NumberFacts DEF IInv
<1> DEFINE p == Parent[block]  read == Filled({m_lastBlockHash})
<1>1. /\ pc = "child" /\ block \in Blocks /\ p \in Nodes /\ Stored(p) /\ fresh = <<>>
      /\ Stored(m_lastBlockHash) /\ m_lastBlockHash \in Nodes
      /\ m_details[p] # None
  BY DEF ListChild, ImportGoesOn, Stored, HeadIsStored, TypeOK, ParentStaysCached
<1>2. /\ read \in [Nodes -> (SUBSET Blocks) \cup {None}]
      /\ Listed \in SUBSET Blocks /\ block \in Listed
  BY <1>1, FilledType DEF Listed, TypeOK
<1>3. /\ m_details' = [read EXCEPT ![p] = Listed] /\ record' = Listed
      /\ UNCHANGED <<databases, m_blockHashes, head, block, pending, counters>>
  BY DEF ListChild
<1> HIDE DEF p, read
<1> USE DEF databases, head, counters
<1>4. /\ m_details' \in [Nodes -> (SUBSET Blocks) \cup {None}]
      /\ m_details'[p] = record' /\ record' \in SUBSET Blocks /\ block \in record'
  BY <1>1, <1>2, <1>3
<1>5. StoredIsClosed' /\ HeadIsStored' /\ ReadersHaveStored'
  BY <1>3 DEF StoredIsClosed, HeadIsStored, Best, ReadersHaveStored, Stored
<1>6. ParentStaysCached'
  BY <1>3, <1>4 DEF ParentStaysCached, p
<1>7. CASE Better(block, m_lastBlockHash)
  <2>1. /\ pc' = "route" /\ from' = m_lastBlockHash /\ to' = p
        /\ dead' = <<>> /\ fresh' = <<block>>
    BY <1>7 DEF ListChild, p
  <2>2. TypeOK'
    BY <1>1, <1>3, <1>4, <2>1, RouteOfOne, EmptyRoute DEF TypeOK, Positions
  <2>3. Heavier(block, m_lastBlockHash)'
    BY <1>1, <1>3, <1>7, BetterIsHeavier DEF Heavier, Nodes
  <2>4. \A n \in Numbers : Number[p] < n /\ n <= Number[block] => Covered(n)'
    <3>1. ToSet(fresh') = {block} /\ Number[block] = Number[p] + 1
      BY <1>1, <2>1, RouteOfOne DEF p
    <3>2. \A n \in Numbers : Number[p] < n /\ n <= Number[block] => n = Number[block]
      BY <3>1, <1>1
    <3> QED BY <3>1, <3>2 DEF Covered
  <2>5. ImportGoesOn'
    <3>1. Number[m_lastBlockHash] <= m_lastBlockNumber
      BY DEF HeadIsStored, TypeOK
    <3> QED BY <1>1, <1>3, <2>1, <2>3, <2>4, <3>1, RouteOfOne DEF ImportGoesOn, Stored, p
  <2> QED BY <1>5, <1>6, <2>2, <2>5
<1>8. CASE ~Better(block, m_lastBlockHash)
  <2>1. pc' = "blocks" /\ UNCHANGED <<from, to, dead, fresh>>
    BY <1>8 DEF ListChild
  <2>2. TypeOK'
    BY <1>1, <1>3, <1>4, <2>1 DEF TypeOK, Positions
  <2>3. ImportGoesOn'
    BY <1>1, <1>3, <2>1, EmptyRoute DEF ImportGoesOn, Stored, p
  <2> QED BY <1>5, <1>6, <2>2, <2>3
<1> QED BY <1>7, <1>8

\* The ends of the route are blocks as long as they differ.
LEMMA RouteMeets ==
  ASSUME IInv, pc = "route", from # to
  PROVE  /\ Number[from] >= Number[to] => from \in Blocks
         /\ Number[to] >= Number[from] => to \in Blocks
<1>1. from \in Nodes /\ to \in Nodes
  BY DEF IInv, ImportGoesOn
<1> QED BY <1>1, NumberFacts, NumberAssumption DEF Nodes

LEMMA RouteStep ==
  ASSUME IInv, treeRoute
  PROVE  IInv'
<1> USE NoneIsNoEntry, NumberFacts DEF IInv, databases, head, counters
<1>1. /\ pc = "route" /\ from # to /\ from \in Nodes /\ to \in Nodes
      /\ Stored(from) /\ Stored(to) /\ block \in Blocks
      /\ UNCHANGED <<databases, m_blockHashes, head, pc, block, record, pending, counters>>
      /\ m_details' = Filled({from, to})
  BY DEF treeRoute, ImportGoesOn
<1>2. /\ m_details' \in [Nodes -> (SUBSET Blocks) \cup {None}]
      /\ \A h \in Nodes : m_details[h] # None => m_details'[h] = m_details[h]
  BY <1>1, FilledType
<1>3. StoredIsClosed' /\ HeadIsStored'
  BY <1>1 DEF StoredIsClosed, HeadIsStored, Best
<1>4. ParentStaysCached' /\ ReadersHaveStored'
  BY <1>1, <1>2 DEF ParentStaysCached, ReadersHaveStored, Stored
<1>5. /\ from' \in Nodes /\ dead' \in Seq(Blocks) /\ Stored(from')
      /\ Number[from'] <= m_lastBlockNumber
  <2>1. CASE Number[from] >= Number[to]
    <3>1. from \in Blocks /\ from' = Parent[from] /\ dead' = Append(dead, from)
      BY <1>1, <2>1, RouteMeets DEF treeRoute
    <3>2. Stored(Parent[from])
      BY <1>1, <3>1 DEF StoredIsClosed, Stored
    <3>3. Number[Parent[from]] <= m_lastBlockNumber
      BY <1>1, <3>1 DEF ImportGoesOn, TypeOK
    <3> QED BY <3>1, <3>2, <3>3 DEF TypeOK
  <2>2. CASE ~(Number[from] >= Number[to])
    BY <1>1, <2>2 DEF treeRoute, ImportGoesOn, TypeOK
  <2> QED BY <2>1, <2>2
<1>6. /\ to' \in Nodes /\ fresh' \in Seq(Blocks) /\ Stored(to')
      /\ Heavier(block, m_lastBlockHash) /\ fresh' # <<>>
      /\ \A h \in ToSet(fresh') : h = block \/ Stored(h)
      /\ \A n \in Numbers : Number[to'] < n /\ n <= Number[block] => Covered(n)'
  <2>1. CASE Number[to] >= Number[from]
    <3>1. to \in Blocks /\ to' = Parent[to] /\ fresh' = <<to>> \o fresh
      BY <1>1, <2>1, RouteMeets DEF treeRoute, Joins
    <3>2. fresh \in Seq(Blocks)
      BY DEF TypeOK
    <3>3. fresh' \in Seq(Blocks) /\ ToSet(fresh') = {to} \cup ToSet(fresh)
      BY <3>1, <3>2, RouteElements
    <3>4. Stored(Parent[to])
      BY <1>1, <3>1 DEF StoredIsClosed, Stored
    <3>5. ASSUME NEW n \in Numbers, Number[to'] < n, n <= Number[block] PROVE Covered(n)'
      <4>1. n = Number[to] \/ Number[to] < n
        BY <3>1, <3>5
      <4> QED BY <1>1, <3>3, <3>5, <4>1 DEF ImportGoesOn, Covered
    <3>6. fresh' # <<>> /\ Heavier(block, m_lastBlockHash)
      BY <1>1, <3>1, <3>2, RouteElements DEF ImportGoesOn
    <3> QED BY <1>1, <3>1, <3>3, <3>4, <3>5, <3>6 DEF ImportGoesOn, Heavier
  <2>2. CASE ~(Number[to] >= Number[from])
    BY <1>1, <2>2 DEF treeRoute, ImportGoesOn, TypeOK, Covered, Heavier
  <2> QED BY <2>1, <2>2
<1>7. TypeOK'
  BY <1>1, <1>2, <1>5, <1>6 DEF TypeOK
<1>8. ImportGoesOn'
  BY <1>1, <1>5, <1>6 DEF ImportGoesOn, Stored, Heavier
<1> QED BY <1>3, <1>4, <1>7, <1>8

\* Numbers above the common ancestor's are forgotten, in the cache only.
LEMMA NoteRouteStep ==
  ASSUME IInv, NoteRoute
  PROVE  IInv'
<1> USE NoneIsNoEntry, NumberFacts DEF IInv, databases, head, counters
<1>1. /\ pc = "route" /\ from = to /\ pc' = "blocks" /\ from \in Nodes
      /\ UNCHANGED <<databases, head, block, record, from, to, dead, fresh, pending, counters>>
      /\ m_details' = Filled({from})
  BY DEF NoteRoute, ImportGoesOn
<1>2. /\ m_details' \in [Nodes -> (SUBSET Blocks) \cup {None}]
      /\ \A h \in Nodes : m_details[h] # None => m_details'[h] = m_details[h]
  BY <1>1, FilledType
<1>3. /\ m_blockHashes' \in [Numbers -> Blocks \cup {None}]
      /\ \A n \in Numbers : m_blockHashes'[n] \in {m_blockHashes[n], None}
  BY DEF NoteRoute, clearCachesDuringChainReversion, TypeOK
<1>4. TypeOK'
  BY <1>1, <1>2, <1>3 DEF TypeOK, Positions
<1>5. StoredIsClosed' /\ ReadersHaveStored'
  BY <1>1 DEF StoredIsClosed, ReadersHaveStored, Stored
<1>6. HeadIsStored'
  BY <1>1, <1>3 DEF HeadIsStored, Best
<1>7. ParentStaysCached'
  BY <1>1, <1>2 DEF ParentStaysCached, ImportGoesOn
<1>8. ImportGoesOn'
  <2>1. ASSUME NEW n \in Numbers, m_lastBlockNumber < n, n <= Number[block] PROVE Covered(n)
    <3>1. Number[to] < n
      BY <1>1, <2>1 DEF ImportGoesOn, TypeOK
    <3> QED BY <1>1, <2>1, <3>1 DEF ImportGoesOn
  <2> QED BY <1>1, <2>1 DEF ImportGoesOn, Stored, Covered, Heavier
<1> QED BY <1>4, <1>5, <1>6, <1>7, <1>8

LEMMA WriteBlocksStep ==
  ASSUME IInv, WriteBlocks
  PROVE  IInv'
<1> USE DEF IInv, databases, caches, head, counters
<1>1. /\ pc = "blocks" /\ pc' = "extras" /\ blocksDB' = blocksDB \cup {block}
      /\ block \in Blocks
      /\ UNCHANGED <<extrasDB, hashesDB, bestDB, caches, head, block, record, from, to, dead,
                     fresh, pending, counters>>
  BY DEF WriteBlocks, ImportGoesOn
<1>2. TypeOK'
  BY <1>1 DEF TypeOK, Positions
<1>3. StoredIsClosed' /\ HeadIsStored' /\ ParentStaysCached' /\ ReadersHaveStored'
  BY <1>1 DEF StoredIsClosed, HeadIsStored, Best, ParentStaysCached, ReadersHaveStored, Stored
<1>4. ImportGoesOn'
  BY <1>1 DEF ImportGoesOn, Stored, Covered, Heavier
<1> QED BY <1>2, <1>3, <1>4

\* What the batch of extras changes.
LEMMA ExtrasWritten ==
  ASSUME IInv, WriteExtras
  PROVE  /\ block \in Blocks /\ Stored(Parent[block])
         /\ extrasDB' \in [Nodes -> (SUBSET Blocks) \cup {None}]
         /\ \A h \in Nodes : Stored(h)' <=> h = block \/ Stored(h)
         /\ hashesDB' \in [Numbers -> Blocks \cup {None}]
         /\ \A n \in Numbers :
               \/ hashesDB'[n] = hashesDB[n] /\ ~Covered(n)
               \/ /\ hashesDB'[n] \in Blocks /\ Number[hashesDB'[n]] = n
                  /\ extrasDB'[hashesDB'[n]] # None
<1> USE NoneIsNoEntry, NumberFacts DEF IInv
<1>1. pc = "extras" /\ block \in Blocks /\ Stored(Parent[block]) /\ Parent[block] \in Nodes
  BY DEF WriteExtras, ImportGoesOn
<1>2. record \in SUBSET Blocks /\ {} \in SUBSET Blocks /\ block \in Nodes
  BY <1>1 DEF ParentStaysCached, TypeOK, Nodes
<1>3. extrasDB' = [extrasDB EXCEPT ![Parent[block]] = record,
                                   ![block] = {}]
  BY DEF WriteExtras
<1>4. extrasDB' \in [Nodes -> (SUBSET Blocks) \cup {None}]
  BY <1>1, <1>2, <1>3 DEF TypeOK
<1>5. /\ \A h \in Nodes \ {block, Parent[block]} : extrasDB'[h] = extrasDB[h]
      /\ extrasDB'[block] # None /\ extrasDB'[Parent[block]] # None
  BY <1>1, <1>2, <1>3 DEF TypeOK
<1>6. \A h \in Nodes : Stored(h)' <=> h = block \/ Stored(h)
  BY <1>1, <1>5 DEF Stored
<1>7. ASSUME NEW n \in Numbers
      PROVE  \/ hashesDB'[n] = hashesDB[n] /\ ~Covered(n)
             \/ /\ hashesDB'[n] \in Blocks /\ Number[hashesDB'[n]] = n
                /\ extrasDB'[hashesDB'[n]] # None
  <2>1. hashesDB' = Renumbered
    BY DEF WriteExtras
  <2>2. CASE ~Covered(n)
    BY <2>1, <2>2 DEF Renumbered, Covered
  <2>3. CASE Covered(n)
    <3> DEFINE h == CHOOSE k \in ToSet(fresh) : Number[k] = n
    <3>1. h \in ToSet(fresh) /\ Number[h] = n
      BY <2>3 DEF Covered
    <3>2. hashesDB'[n] = h
      BY <2>1, <2>3 DEF Renumbered, Covered
    <3> HIDE DEF h
    <3>3. h \in Blocks
      BY <3>1, RouteInBlocks DEF TypeOK
    <3>4. h = block \/ Stored(h)
      BY <1>1, <3>1 DEF ImportGoesOn
    <3>5. extrasDB'[h] # None
      BY <3>3, <3>4, <1>6 DEF Nodes, Stored
    <3> QED BY <3>1, <3>2, <3>3, <3>5
  <2> QED BY <2>2, <2>3
<1>8. hashesDB' \in [Numbers -> Blocks \cup {None}]
  <2>1. hashesDB' = [n \in Numbers |-> hashesDB'[n]]
    BY DEF WriteExtras, Renumbered
  <2> QED BY <2>1, <1>7 DEF TypeOK
<1> QED BY <1>1, <1>4, <1>6, <1>7, <1>8

LEMMA WriteExtrasStep ==
  ASSUME IInv, WriteExtras
  PROVE  IInv'
<1> USE NoneIsNoEntry, NumberFacts DEF IInv, databases, caches, head, counters
<1>1. /\ pc = "extras" /\ block \in Blocks /\ block \in blocksDB
      /\ UNCHANGED <<blocksDB, bestDB, caches, head, pending, counters>>
      /\ \/ pc' = "idle" /\ NoRoute
         \/ pc' = "best" /\ fresh # <<>> /\ UNCHANGED <<block, record, from, to, dead, fresh>>
  BY DEF WriteExtras, ImportGoesOn
<1>2. TypeOK'
  <2>1. /\ pc' \in Positions
        /\ block' \in Blocks \cup {None} /\ record' \in (SUBSET Blocks) \cup {None}
        /\ from' \in Nodes \cup {None} /\ to' \in Nodes \cup {None}
        /\ dead' \in Seq(Blocks) /\ fresh' \in Seq(Blocks)
    BY <1>1, EmptyRoute DEF TypeOK, Positions, NoRoute
  <2>2. /\ extrasDB' \in [Nodes -> (SUBSET Blocks) \cup {None}]
        /\ hashesDB' \in [Numbers -> Blocks \cup {None}]
    BY ExtrasWritten
  <2> QED BY <1>1, <2>1, <2>2 DEF TypeOK
<1>3. StoredIsClosed'
  <2>1. ASSUME NEW h \in Blocks, Stored(h)' PROVE h \in blocksDB /\ Stored(Parent[h])'
    <3>1. CASE h = block
      BY <1>1, <3>1, ExtrasWritten
    <3>2. CASE h # block
      BY <2>1, <3>2, ExtrasWritten DEF StoredIsClosed, Stored, Nodes
    <3> QED BY <3>1, <3>2
  <2> QED BY <1>1, <2>1 DEF StoredIsClosed, Stored
<1>4. HeadIsStored'
  <2>1. m_lastBlockHash' = Best' /\ m_lastBlockNumber' = Number[Best'] /\ Best' = Best
    BY <1>1 DEF HeadIsStored, Best
  <2>2. extrasDB'[Best'] # None
    BY <2>1, ExtrasWritten DEF HeadIsStored, Stored, TypeOK
  <2>3. \A n \in Numbers : n <= m_lastBlockNumber' => hashesDB'[n] # None
    BY <1>1, ExtrasWritten DEF HeadIsStored
  <2>4. ASSUME NEW n \in Numbers, NEW h \in {hashesDB'[n], m_blockHashes'[n]} \ {None}
        PROVE  extrasDB'[h] # None /\ Number[h] = n
    <3>1. CASE h = hashesDB[n] \/ h = m_blockHashes[n]
      <4>1. Stored(h) /\ Number[h] = n /\ h \in Nodes
        BY <2>4, <3>1 DEF HeadIsStored, Stored, TypeOK, Nodes
      <4> QED BY <4>1, ExtrasWritten DEF Stored
    <3>2. CASE h = hashesDB'[n] /\ h # hashesDB[n]
      BY <3>2, ExtrasWritten
    <3> QED BY <1>1, <2>4, <3>1, <3>2
  <2> QED BY <2>1, <2>2, <2>3, <2>4 DEF HeadIsStored
<1>5. ParentStaysCached'
  BY <1>1 DEF ParentStaysCached
<1>6. ReadersHaveStored'
  <2>1. \A r \in Readers : pending[r].kind = "hash" => pending[r].value \in Nodes
    BY DEF TypeOK, Reads, NoRead, Nodes
  <2> QED BY <1>1, <2>1, ExtrasWritten DEF ReadersHaveStored, Stored
<1>7. ImportGoesOn'
  <2>1. Stored(Genesis)'
    BY ExtrasWritten DEF ImportGoesOn, Nodes
  <2>2. CASE pc' = "idle" /\ NoRoute
    BY <2>1, <2>2 DEF ImportGoesOn, NoRoute
  <2>3. CASE pc' = "best" /\ fresh # <<>> /\ UNCHANGED <<block, record, from, to, dead, fresh>>
    <3>1. extrasDB'[block] # None /\ extrasDB'[Parent[block]] # None
      BY <1>1, ExtrasWritten DEF Nodes, Stored
    <3>2. \A h \in ToSet(fresh) : h = block \/ Stored(h)'
      BY <1>1, ExtrasWritten, RouteInBlocks DEF ImportGoesOn, TypeOK, Nodes
    <3>3. ASSUME NEW n \in Numbers, n <= Number[block] PROVE hashesDB'[n] # None
      <4>1. n <= m_lastBlockNumber \/ Covered(n)
        BY <1>1, <2>3, <3>3 DEF ImportGoesOn, TypeOK
      <4> QED BY <4>1, ExtrasWritten DEF HeadIsStored
    <3> QED BY <1>1, <2>1, <2>3, <3>1, <3>2, <3>3 DEF ImportGoesOn, Stored, Heavier
  <2> QED BY <1>1, <2>2, <2>3
<1> QED BY <1>2, <1>3, <1>4, <1>5, <1>6, <1>7

LEMMA WriteBestStep ==
  ASSUME IInv, WriteBest
  PROVE  IInv'
<1> USE NoneIsNoEntry, NumberFacts DEF IInv, databases, caches, head, counters
<1>1. /\ pc = "best" /\ block \in Blocks /\ Stored(block) /\ pc' = "idle" /\ NoRoute
      /\ m_lastBlockHash' = block /\ bestDB' = block /\ m_lastBlockNumber' = Number[block]
      /\ UNCHANGED <<blocksDB, extrasDB, hashesDB, caches, pending, counters>>
  BY DEF WriteBest, ImportGoesOn
<1>2. TypeOK'
  BY <1>1, EmptyRoute DEF TypeOK, Positions, NoRoute, Nodes
<1>3. HeadIsStored'
  BY <1>1 DEF HeadIsStored, Best, Stored, ImportGoesOn
<1>4. StoredIsClosed' /\ ParentStaysCached' /\ ReadersHaveStored'
  BY <1>1 DEF StoredIsClosed, ParentStaysCached, ReadersHaveStored, Stored
<1>5. ImportGoesOn'
  BY <1>1 DEF ImportGoesOn, Stored, NoRoute
<1> QED BY <1>2, <1>3, <1>4, <1>5

LEMMA RewindStep ==
  ASSUME IInv, NEW n \in Numbers \cup {0}, rewind(n)
  PROVE  IInv'
<1> USE NoneIsNoEntry, NumberFacts DEF IInv, caches, head, counters
<1> DEFINE h == numberHash(n)
<1>1. /\ pc = "idle" /\ rewinds < MaxRewinds /\ n < m_lastBlockNumber
      /\ m_lastBlockHash' = h /\ bestDB' = h /\ m_lastBlockNumber' = n
      /\ rewinds' = rewinds + 1
      /\ UNCHANGED <<blocksDB, extrasDB, hashesDB, m_details, call, pending, crashes>>
  BY DEF rewind
<1>2. h \in Nodes /\ Stored(h) /\ Number[h] = n /\ (n \in Numbers => h \in Blocks) /\ n \in Nat
  BY <1>1, NumberHashIsStored
<1>3. \A i \in Numbers : m_blockHashes'[i] \in {None, m_blockHashes[i]} \/
                         (i = n /\ m_blockHashes'[i] = h)
  BY DEF rewind
<1>4. m_blockHashes' = [i \in Numbers |-> m_blockHashes'[i]]
  BY DEF rewind
<1> HIDE DEF h
<1>5. TypeOK'
  <2>1. m_blockHashes' \in [Numbers -> Blocks \cup {None}]
    <3>1. \A i \in Numbers : m_blockHashes'[i] \in Blocks \cup {None}
      BY <1>2, <1>3 DEF TypeOK
    <3> QED BY <1>4, <3>1
  <2>2. rewinds' \in 0..MaxRewinds
    BY <1>1, BoundAssumption DEF TypeOK
  <2> QED BY <1>1, <1>2, <2>1, <2>2 DEF TypeOK, call
<1>6. HeadIsStored'
  <2>1. \A i \in Numbers : i <= n => hashesDB[i] # None
    BY <1>1, <1>2 DEF HeadIsStored, TypeOK
  <2>2. ASSUME NEW i \in Numbers, NEW k \in {hashesDB[i], m_blockHashes'[i]} \ {None}
        PROVE  Stored(k) /\ Number[k] = i
    BY <1>2, <1>3, <2>2 DEF HeadIsStored, Stored
  <2> QED BY <1>1, <1>2, <2>1, <2>2 DEF HeadIsStored, Best, Stored
<1>7. StoredIsClosed' /\ ParentStaysCached' /\ ReadersHaveStored' /\ ImportGoesOn'
  BY <1>1 DEF StoredIsClosed, ParentStaysCached, ReadersHaveStored, ImportGoesOn, Stored, call
<1> QED BY <1>5, <1>6, <1>7

LEMMA CrashStep ==
  ASSUME IInv, Crash
  PROVE  IInv'
<1> USE NoneIsNoEntry, NumberFacts DEF IInv, databases
<1>1. /\ m_lastBlockHash' = Best /\ m_lastBlockNumber' = Number[Best] /\ pc' = "idle"
      /\ NoRoute /\ crashes < MaxCrashes /\ crashes' = crashes + 1
      /\ m_blockHashes' = [n \in Numbers |-> None]
      /\ m_details' = [h \in Nodes |-> IF h \in {Genesis, Best} THEN extrasDB[h] ELSE None]
      /\ pending' = [r \in Readers |-> NoRead]
      /\ UNCHANGED <<databases, rewinds>>
  BY DEF Crash
<1>2. TypeOK'
  <2>1. m_details' \in [Nodes -> (SUBSET Blocks) \cup {None}]
    BY <1>1 DEF TypeOK
  <2>2. crashes' \in 0..MaxCrashes
    BY <1>1, BoundAssumption DEF TypeOK
  <2>3. Best \in Nodes
    BY DEF HeadIsStored, TypeOK
  <2> QED BY <1>1, <2>1, <2>2, <2>3, EmptyRoute DEF TypeOK, Positions, NoRoute, Reads
<1>3. HeadIsStored'
  BY <1>1 DEF HeadIsStored, Best
<1>4. StoredIsClosed' /\ ParentStaysCached'
  BY <1>1 DEF StoredIsClosed, ParentStaysCached
<1>5. ReadersHaveStored' /\ ImportGoesOn'
  BY <1>1 DEF ReadersHaveStored, ImportGoesOn, Stored, NoRead, NoRoute
<1> QED BY <1>2, <1>3, <1>4, <1>5

-----------------------------------------------------------------------------
(* The theorems.                                                             *)

LEMMA StutterStep == IInv /\ UNCHANGED vars => IInv'
  BY DEF IInv, vars, databases, caches, head, call, counters, TypeOK, StoredIsClosed,
         HeadIsStored, Best, ParentStaysCached, ReadersHaveStored, ImportGoesOn, Stored, Covered,
         Heavier

\* The inductive invariant, which the others are parts of.
THEOREM DatabaseInvariant == Spec => []IInv
<1>1. IInv /\ [Next]_vars => IInv'
  <2> SUFFICES ASSUME IInv, [Next]_vars PROVE IInv'
    OBVIOUS
  <2>1. CASE Import
    BY <2>1, ImportStep, ListChildStep, RouteStep, NoteRouteStep, WriteBlocksStep, WriteExtrasStep,
       WriteBestStep DEF Import
  <2>2. CASE \E r \in Readers : Read(r)
    BY <2>2, ReadSteps
  <2>3. CASE \E h \in Nodes : garbageCollect(h)
    BY <2>3, GarbageCollectStep
  <2>4. CASE \E n \in Numbers \cup {0} : rewind(n)
    BY <2>4, RewindStep
  <2>5. CASE Crash
    BY <2>5, CrashStep
  <2>6. CASE UNCHANGED vars
    BY <2>6, StutterStep
  <2> QED BY <2>1, <2>2, <2>3, <2>4, <2>5, <2>6 DEF Next
<1> QED BY <1>1, InitIInv, PTL DEF Spec

\* Every variable keeps its type.
THEOREM TypeCorrect == Spec => []TypeOK
  BY DatabaseInvariant, PTL DEF IInv

\* Wherever the process ends, a block with details has its body and its parent's
\* details in the databases: import() writes the blocks first, and checks first
\* that the parent is known.
THEOREM StoredStaysClosed == Spec => []StoredIsClosed
  BY DatabaseInvariant, PTL DEF IInv

\* The head is stored, with its number, and numberHash() answers a stored block of
\* that number for each number up to it, through reorganisations, rewinds and the
\* end of the process.
THEOREM HeadStaysStored == Spec => []HeadIsStored
  BY DatabaseInvariant, PTL DEF IInv

\* Wherever the process ends, every stored block can be followed back to the genesis
\* block, and the head is one of them, with its number.
THEOREM StoreStaysWhole == Spec => []StoreIsWhole
  BY DatabaseInvariant, PTL DEF IInv, StoreIsWhole

\* The details that import() has changed in the cache are those it writes.
THEOREM ParentIsNeverRemade == Spec => []ParentStaysCached
  BY DatabaseInvariant, PTL DEF IInv

\* Between the writes of one import the database is always one that ChainStore
\* allows: a block is stored under its parent, and a head taken only if it is
\* better, or gone back to.
THEOREM DatabaseIsAStore == Spec => StoreSpec
<1> USE DEF Store!Init, Store!Next, Store!Store, Store!Adopt, Store!GoBack
<1> DEFINE stored == {h \in Nodes : extrasDB[h] # None}
<1>1. Init => Store!Init
  <2> SUFFICES ASSUME Init PROVE Store!Init
    OBVIOUS
  <2> QED BY NoneIsNoEntry DEF Init, Best, Nodes
<1>2. IInv /\ [Next]_vars => [Store!Next]_<<stored, Best, rewinds>>
  <2> SUFFICES ASSUME IInv, [Next]_vars PROVE [Store!Next]_<<stored, Best, rewinds>>
    OBVIOUS
  <2> USE DEF databases, IInv
  <2>1. CASE UNCHANGED <<extrasDB, bestDB, rewinds>>
    BY <2>1 DEF Best
  <2>2. CASE WriteExtras
    <3>1. stored' = stored \cup {block} /\ Parent[block] \in stored
      BY ExtrasWritten, <2>2, NumberFacts DEF Stored, Nodes
    <3>2. block \in Nodes \ {Genesis} /\ UNCHANGED <<Best, rewinds>>
      BY ExtrasWritten, <2>2, GenesisAssumption DEF WriteExtras, Best, Nodes, counters
    <3> QED BY <3>1, <3>2
  <2>3. CASE WriteBest
    <3>1. /\ block \in stored /\ Best' = block /\ UNCHANGED <<stored, rewinds>>
          /\ Heavier(block, Best)
      BY <2>3, NoneIsNoEntry DEF WriteBest, counters, ImportGoesOn, HeadIsStored, Best, Stored, Nodes
    <3> QED BY <3>1
  <2>4. CASE \E n \in Numbers \cup {0} : rewind(n)
    <3>1. PICK n \in Numbers \cup {0} : rewind(n)
      BY <2>4
    <3>2. /\ numberHash(n) \in Nodes /\ Stored(numberHash(n))
          /\ Number[numberHash(n)] = n /\ n < Number[Best]
      BY <3>1, NumberHashIsStored DEF rewind, HeadIsStored
    <3>3. Best' = numberHash(n) /\ UNCHANGED stored /\ rewinds' = rewinds + 1
      BY <3>1, <3>2, NoneIsNoEntry DEF rewind, Best
    <3> QED BY <3>2, <3>3 DEF Stored
  <2>5. Import => WriteExtras \/ WriteBest \/ UNCHANGED <<extrasDB, bestDB, rewinds>>
    BY DEF Import, counters, import, ListChild, treeRoute, NoteRoute, WriteBlocks
  <2>6. /\ (\E r \in Readers : Read(r)) => UNCHANGED <<extrasDB, bestDB, rewinds>>
        /\ (\E h \in Nodes : garbageCollect(h)) => UNCHANGED <<extrasDB, bestDB, rewinds>>
        /\ Crash \/ UNCHANGED vars => UNCHANGED <<extrasDB, bestDB, rewinds>>
    BY DEF Read, ReadHash, CacheHash, ReadDetails, CacheDetails, garbageCollect, Crash, counters,
           vars
  <2> QED BY <2>1, <2>2, <2>3, <2>4, <2>5, <2>6 DEF Next
<1> QED BY <1>1, <1>2, DatabaseInvariant, PTL DEF Spec, StoreSpec, Store!Spec

-----------------------------------------------------------------------------
(* Chains.  Chain is a recursive function; that its equation has a solution, and *)
(* what holds along a chain, follow from the least number of a set of numbers.   *)

\* Every set of natural numbers but the empty one has a least member.
LEMMA LeastNumber ==
  ASSUME NEW T \in SUBSET Nat, T # {}
  PROVE  \E n \in T : \A m \in T : n <= m
<1> DEFINE R == OpToRel(<, Nat)
<1>1. IsWellFoundedOn(R, Nat)
  BY NatLessThanWellFounded
<1>2. \A m, n \in Nat : m < n => <<m, n>> \in R
  BY DEF OpToRel
<1> HIDE DEF R
<1>3. PICK n \in T : \A m \in T : ~(<<m, n>> \in R)
  BY <1>1, WFMin
<1>4. \A m \in T : ~(m < n)
  BY <1>2, <1>3
<1> QED BY <1>4

\* What holds of the genesis block, and of a block if of its parent, holds of all.
LEMMA TreeInduction ==
  ASSUME NEW T, Genesis \in T, \A h \in Blocks : Parent[h] \in T => h \in T
  PROVE  Nodes \subseteq T
<1> SUFFICES ASSUME ~(Nodes \subseteq T) PROVE FALSE
  OBVIOUS
<1> DEFINE Left == {Number[h] : h \in Nodes \ T}
<1>1. Left \in SUBSET Nat /\ Left # {}
  BY NumberFacts
<1> HIDE DEF Left
<1>2. PICK n \in Left : \A m \in Left : n <= m
  BY <1>1, LeastNumber
<1>3. PICK h \in Nodes \ T : n = Number[h]
  BY <1>2 DEF Left
<1>4. h \in Blocks /\ Parent[h] \in Nodes \ T
  BY <1>3, NumberFacts DEF Nodes
<1>5. n <= Number[Parent[h]] /\ n = Number[Parent[h]] + 1
  BY <1>2, <1>3, <1>4, NumberFacts DEF Left
<1> QED BY <1>4, <1>5, NumberFacts

\* The recursive definition has a solution, the ancestors as the least set that is
\* closed under Parent, so its equation holds.
LEMMA ChainEquation ==
  \A h \in Nodes : Chain[h] = {h} \cup (IF h = Genesis THEN {} ELSE Chain[Parent[h]])
<1> DEFINE Closed(S) == \A x \in S \ {Genesis} : Parent[x] \in S
           Up(h) == {k \in Nodes : \A S \in SUBSET Nodes : h \in S /\ Closed(S) => k \in S}
           F == [h \in Nodes |-> Up(h)]
<1>1. ASSUME NEW h \in Nodes PROVE h \in Up(h) /\ Closed(Up(h)) /\ Up(h) \in SUBSET Nodes
  BY NumberFacts DEF Nodes
<1>2. ASSUME NEW h \in Nodes, NEW S \in SUBSET Nodes, h \in S, Closed(S)
      PROVE  Up(h) \subseteq S
  BY <1>2
<1> HIDE DEF Up
<1>3. Up(Genesis) = {Genesis}
  <2>1. Genesis \in Nodes /\ {Genesis} \in SUBSET Nodes /\ Closed({Genesis})
    BY DEF Nodes
  <2> QED BY <2>1, <1>1, <1>2
<1>4. ASSUME NEW h \in Blocks PROVE Up(h) = {h} \cup Up(Parent[h])
  <2> DEFINE p == Parent[h]  S == {h} \cup Up(p)
  <2>1. p \in Nodes /\ h \in Nodes /\ h # Genesis
    BY NumberFacts, GenesisAssumption DEF Nodes
  <2>2. S \in SUBSET Nodes /\ Closed(S)
    BY <1>1, <2>1
  <2>3. Up(h) \subseteq S
    BY <1>2, <2>1, <2>2
  <2>4. h \in Up(h) /\ p \in Up(h)
    BY <1>1, <2>1
  <2>5. Up(p) \subseteq Up(h)
    BY <1>1, <1>2, <2>1, <2>4
  <2> QED BY <2>3, <2>4, <2>5
<1> HIDE DEF Closed
<1>5. F = [h \in Nodes |-> {h} \cup (IF h = Genesis THEN {} ELSE F[Parent[h]])]
  <2>1. ASSUME NEW h \in Nodes
        PROVE  F[h] = {h} \cup (IF h = Genesis THEN {} ELSE F[Parent[h]])
    <3>1. CASE h = Genesis
      BY <3>1, <1>3
    <3>2. CASE h # Genesis
      BY <3>2, <1>4, NumberFacts DEF Nodes
    <3> QED BY <3>1, <3>2
  <2> QED BY <2>1
<1>6. \E g : g = [h \in Nodes |-> {h} \cup (IF h = Genesis THEN {} ELSE g[Parent[h]])]
  BY <1>5
<1>7. Chain = [h \in Nodes |-> {h} \cup (IF h = Genesis THEN {} ELSE Chain[Parent[h]])]
  BY <1>6 DEF Chain
<1> QED BY <1>7

\* A chain goes up by one number a block: one block of each number it has, and the
\* last one alone has the highest.
LEMMA ChainFacts ==
  \A h \in Nodes :
      /\ h \in Chain[h] /\ Chain[h] \subseteq Nodes
      /\ \A k \in Chain[h] : k = h \/ (/\ Number[k] < Number[h]
                                       /\ totalDifficulty[k] < totalDifficulty[h])
      /\ \A k, l \in Chain[h] : Number[k] = Number[l] => k = l
<1> DEFINE T == {h \in Nodes :
      /\ h \in Chain[h] /\ Chain[h] \subseteq Nodes
      /\ \A k \in Chain[h] : k = h \/ (/\ Number[k] < Number[h]
                                       /\ totalDifficulty[k] < totalDifficulty[h])
      /\ \A k, l \in Chain[h] : Number[k] = Number[l] => k = l}
<1>1. Genesis \in T
  <2>1. Chain[Genesis] = {Genesis} /\ Genesis \in Nodes
    BY ChainEquation DEF Nodes
  <2> QED BY <2>1
<1>2. ASSUME NEW h \in Blocks, Parent[h] \in T PROVE h \in T
  <2>1. Chain[h] = {h} \cup Chain[Parent[h]] /\ h \in Nodes /\ Parent[h] \in Nodes
    BY ChainEquation, GenesisAssumption, NumberFacts DEF Nodes
  <2>2. \A k \in Chain[Parent[h]] : Number[k] < Number[h] /\ totalDifficulty[k] < totalDifficulty[h]
    BY <1>2, <2>1, NumberFacts, DifficultyAssumption
  <2> QED BY <1>2, <2>1, <2>2, NumberFacts
<1> HIDE DEF T
<1>3. Nodes \subseteq T
  BY <1>1, <1>2, TreeInduction
<1> QED BY <1>3 DEF T
-----------------------------------------------------------------------------
(* The route and the numbers.  The two ends of the route go down two chains that *)
(* have no block in common above them: what is above the ends is apart, so what  *)
(* is above the block they meet in is the difference of the chains.              *)

\* Each block of the route is the parent of its neighbour, and each end that of the
\* block taken last.
RouteInOrder ==
    /\ \A i \in 2..Len(dead) : dead[i] = Parent[dead[i - 1]]
    /\ \A i \in 2..Len(fresh) : fresh[i - 1] = Parent[fresh[i]]
    /\ pc \in {"idle", "child"} => dead = <<>> /\ fresh = <<>>
    /\ pc = "route" => /\ dead # <<>> => from = Parent[dead[Len(dead)]]
                       /\ to = Parent[fresh[1]]

\* What is above the ends is apart; and once they have met, it is the difference.
RouteSplits ==
    /\ pc = "route" =>
         /\ Chain[m_lastBlockHash] = ToSet(dead) \cup Chain[from]
         /\ Chain[block] = ToSet(fresh) \cup Chain[to]
         /\ ToSet(dead) \cap Chain[block] = {}
         /\ ToSet(fresh) \cap Chain[m_lastBlockHash] = {}
    /\ pc \in {"blocks", "extras", "best"} /\ fresh # <<>> =>
         /\ ToSet(dead) = Chain[m_lastBlockHash] \ Chain[block]
         /\ ToSet(fresh) = Chain[block] \ Chain[m_lastBlockHash]

\* The head to be, while the numbers are already its own.
NextHead == IF pc = "best" THEN block ELSE m_lastBlockHash

\* Without crash and rewind, the numbers are those of the head's chain and nothing
\* stored is better, where between the two last writes the head is the new one.
HeadLeads ==
    crashes = 0 /\ rewinds = 0 =>
        /\ \A h \in Chain[NextHead] \ {Genesis} : hashesDB[Number[h]] = h
        /\ \A h \in Nodes : Stored(h) => ~Heavier(h, NextHead)
        /\ pc \in {"blocks", "extras"} /\ fresh = <<>> => ~Heavier(block, m_lastBlockHash)

RInv == RouteInOrder /\ RouteSplits /\ HeadLeads

-----------------------------------------------------------------------------
LEMMA ChainOfBlock ==
  \A h \in Blocks : /\ Chain[h] = {h} \cup Chain[Parent[h]]
                    /\ h \notin Chain[Parent[h]]
<1>1. ASSUME NEW h \in Blocks
      PROVE  Chain[h] = {h} \cup Chain[Parent[h]] /\ h \notin Chain[Parent[h]]
  <2>1. h \in Nodes /\ h # Genesis /\ Parent[h] \in Nodes /\ Number[h] = Number[Parent[h]] + 1
    BY NumberFacts, GenesisAssumption DEF Nodes
  <2>2. Chain[h] = {h} \cup Chain[Parent[h]]
    BY <2>1, ChainEquation
  <2>3. \A k \in Chain[Parent[h]] : Number[k] <= Number[Parent[h]]
    BY <2>1, ChainFacts, NumberFacts
  <2> QED BY <2>1, <2>2, <2>3, NumberFacts
<1> QED BY <1>1

\* The last block of a sequence with one block more.
LEMMA AppendedRoute ==
  ASSUME NEW s \in Seq(Blocks), NEW h \in Blocks
  PROVE  /\ ToSet(Append(s, h)) = ToSet(s) \cup {h}
         /\ Append(s, h) # <<>>
         /\ Append(s, h) \in Seq(Blocks)
         /\ Len(Append(s, h)) = Len(s) + 1
         /\ Append(s, h)[Len(s) + 1] = h
         /\ \A i \in 1..Len(s) : Append(s, h)[i] = s[i]
<1> DEFINE t == Append(s, h)
<1>1. t \in Seq(Blocks) /\ Len(t) = Len(s) + 1 /\ t[Len(s) + 1] = h /\ t # <<>>
  OBVIOUS
<1>2. \A i \in 1..Len(s) : t[i] = s[i]
  OBVIOUS
<1> HIDE DEF t
<1>3. ToSet(t) = {t[i] : i \in 1..Len(t)} /\ ToSet(s) = {s[i] : i \in 1..Len(s)}
  BY DEF ToSet
<1>4. Len(s) \in Nat /\ \A i \in 1..(Len(s) + 1) : i \in 1..Len(s) \/ i = Len(s) + 1
  OBVIOUS
<1>5. ASSUME NEW x \in ToSet(t) PROVE x \in ToSet(s) \cup {h}
  <2>1. PICK i \in 1..Len(t) : x = t[i]
    BY <1>3
  <2> QED BY <2>1, <1>1, <1>2, <1>3, <1>4
<1>6. ASSUME NEW x \in ToSet(s) PROVE x \in ToSet(t)
  <2>1. PICK i \in 1..Len(s) : x = s[i]
    BY <1>3
  <2>2. i \in 1..Len(t)
    BY <1>1, <1>4
  <2> QED BY <2>1, <2>2, <1>2, <1>3
<1>7. h \in ToSet(t)
  BY <1>1, <1>3, <1>4
<1>8. ToSet(t) = ToSet(s) \cup {h}
  BY <1>5, <1>6, <1>7
<1> QED BY <1>1, <1>2, <1>8 DEF t

LEMMA PrependedRoute ==
  ASSUME NEW s \in Seq(Blocks), NEW h \in Blocks
  PROVE  /\ Len(<<h>> \o s) = Len(s) + 1
         /\ (<<h>> \o s)[1] = h
         /\ \A i \in 1..Len(s) : (<<h>> \o s)[i + 1] = s[i]
  OBVIOUS

LEMMA HeavierIsAnOrder ==
  ASSUME NEW h \in Nodes, NEW k \in Nodes
  PROVE  /\ Heavier(h, k) <=> Better(h, k)
         /\ ~Heavier(h, h)
         /\ Heavier(h, k) => \A l \in Nodes : ~Heavier(l, k) => ~Heavier(l, h)
<1> USE DifficultyAssumption
<1>1. \A x \in Nodes : totalDifficulty[x] \in Nat /\ gasUsed[x] \in Nat
  OBVIOUS
<1> QED BY <1>1 DEF Better, Heavier

\* A block that is better than another is not on that one's chain.
LEMMA HeavierIsNotBelow ==
  ASSUME NEW h \in Nodes, NEW k \in Nodes, Heavier(h, k)
  PROVE  h \notin Chain[k]
<1>1. totalDifficulty[h] \in Nat /\ totalDifficulty[k] \in Nat
  BY DifficultyAssumption
<1> QED BY <1>1, ChainFacts, HeavierIsAnOrder DEF Heavier

-----------------------------------------------------------------------------
(* The steps.                                                                *)

LEMMA InitRInv == Init => RInv
<1> SUFFICES ASSUME Init PROVE RInv
  OBVIOUS
<1>1. RouteInOrder /\ RouteSplits
  BY DEF Init, RouteInOrder, RouteSplits
<1>2. HeadLeads
  <2>1. NextHead = Genesis /\ Chain[Genesis] = {Genesis} /\ Genesis \in Nodes
    BY ChainEquation DEF Init, NextHead, Nodes
  <2>2. \A h \in Nodes : Stored(h) => h = Genesis
    BY DEF Init, Stored
  <2> QED BY <2>1, <2>2, HeavierIsAnOrder DEF Init, HeadLeads
<1> QED BY <1>1, <1>2 DEF RInv

\* Steps that change neither the databases, nor the head, nor the route.
LEMMA ElsewhereKeepsRInv ==
  ASSUME RInv, UNCHANGED <<extrasDB, hashesDB, head, pc, block, from, to, dead, fresh, counters>>
  PROVE  RInv'
<1> USE DEF head, counters
<1>1. RouteInOrder' /\ RouteSplits'
  BY DEF RInv, RouteInOrder, RouteSplits
<1>2. HeadLeads'
  BY DEF RInv, HeadLeads, NextHead, Stored, Heavier
<1> QED BY <1>1, <1>2 DEF RInv

LEMMA ImportKeepsRInv ==
  ASSUME IInv, RInv, NEW h \in Blocks, import(h)
  PROVE  RInv'
<1> USE DEF databases, head, counters
<1>1. /\ pc = "idle" /\ pc' = "child"
      /\ UNCHANGED <<extrasDB, hashesDB, head, from, to, dead, fresh, counters>>
  BY DEF import
<1>2. RouteInOrder' /\ RouteSplits'
  BY <1>1 DEF RInv, RouteInOrder, RouteSplits
<1>3. HeadLeads'
  BY <1>1 DEF RInv, HeadLeads, NextHead, Stored, Heavier
<1> QED BY <1>2, <1>3 DEF RInv

LEMMA ListChildKeepsRInv ==
  ASSUME IInv, RInv, ListChild
  PROVE  RInv'
<1> USE DEF databases, head, counters
<1>1. /\ pc = "child" /\ block \in Blocks /\ block \in Nodes /\ m_lastBlockHash \in Nodes
      /\ dead = <<>> /\ fresh = <<>>
      /\ UNCHANGED <<extrasDB, hashesDB, head, block, counters>>
  BY DEF ListChild, IInv, ImportGoesOn, TypeOK, RInv, RouteInOrder, Nodes
<1>2. CASE Better(block, m_lastBlockHash)
  <2>1. /\ pc' = "route" /\ from' = m_lastBlockHash /\ to' = Parent[block]
        /\ dead' = <<>> /\ fresh' = <<block>>
    BY <1>2 DEF ListChild
  <2>2. RouteInOrder'
    BY <1>1, <2>1 DEF RouteInOrder
  <2>3. block \notin Chain[m_lastBlockHash]
    BY <1>1, <1>2, HeavierIsAnOrder, HeavierIsNotBelow
  <2>4. RouteSplits'
    BY <1>1, <2>1, <2>3, RouteOfOne, EmptyRoute, ChainOfBlock DEF RouteSplits
  <2>5. HeadLeads'
    BY <1>1, <2>1 DEF RInv, HeadLeads, NextHead, Stored, Heavier
  <2> QED BY <2>2, <2>4, <2>5 DEF RInv
<1>3. CASE ~Better(block, m_lastBlockHash)
  <2>1. pc' = "blocks" /\ UNCHANGED <<from, to, dead, fresh>>
    BY <1>3 DEF ListChild
  <2>2. RouteInOrder' /\ RouteSplits'
    BY <1>1, <2>1 DEF RInv, RouteInOrder, RouteSplits
  <2>3. ~Heavier(block, m_lastBlockHash)
    BY <1>1, <1>3, HeavierIsAnOrder
  <2>4. HeadLeads'
    BY <1>1, <2>1, <2>3 DEF RInv, HeadLeads, NextHead, Stored, Heavier
  <2> QED BY <2>2, <2>4 DEF RInv
<1> QED BY <1>2, <1>3

\* An end that is not below the other is not on the other's chain.
LEMMA EndsAreApart ==
  ASSUME NEW h \in Nodes, NEW k \in Nodes, h # k, Number[h] >= Number[k]
  PROVE  h \notin Chain[k]
  BY ChainFacts, NumberFacts

LEMMA RouteKeepsRInv ==
  ASSUME IInv, RInv, treeRoute
  PROVE  RInv'
<1> USE DEF databases, head, counters
<1>1. /\ pc = "route" /\ pc' = "route" /\ from # to /\ from \in Nodes /\ to \in Nodes
      /\ fresh # <<>> /\ dead \in Seq(Blocks) /\ fresh \in Seq(Blocks)
      /\ UNCHANGED <<extrasDB, hashesDB, head, block, counters>>
  BY DEF treeRoute, IInv, ImportGoesOn, TypeOK
<1>2. /\ Chain[m_lastBlockHash] = ToSet(dead) \cup Chain[from]
      /\ Chain[block] = ToSet(fresh) \cup Chain[to]
      /\ ToSet(dead) \cap Chain[block] = {}
      /\ ToSet(fresh) \cap Chain[m_lastBlockHash] = {}
  BY <1>1 DEF RInv, RouteSplits
<1>3. from \in Chain[from] /\ to \in Chain[to]
  BY <1>1, ChainFacts
<1>4. /\ Number[from] >= Number[to] =>
            /\ from \in Blocks /\ dead' = Append(dead, from) /\ from' = Parent[from]
            /\ from \notin Chain[to]
      /\ ~(Number[from] >= Number[to]) => UNCHANGED <<dead, from>>
      /\ Number[to] >= Number[from] =>
            /\ to \in Blocks /\ fresh' = <<to>> \o fresh /\ to' = Parent[to]
            /\ to \notin Chain[from]
      /\ ~(Number[to] >= Number[from]) => UNCHANGED <<fresh, to>>
  BY <1>1, RouteMeets, EndsAreApart DEF treeRoute, Joins
<1>5. /\ Chain[m_lastBlockHash] = ToSet(dead') \cup Chain[from']
      /\ ToSet(dead') \cap Chain[block] = {}
  <2>1. CASE Number[from] >= Number[to]
    <3>1. from \in Blocks /\ dead \in Seq(Blocks) /\ dead' = Append(dead, from)
      BY <1>1, <1>4, <2>1
    <3>2. ToSet(dead') = ToSet(dead) \cup {from} /\ Chain[from] = {from} \cup Chain[Parent[from]]
      BY <3>1, AppendedRoute, ChainOfBlock
    <3>3. from \notin Chain[block]
      BY <1>2, <1>3, <1>4, <2>1
    <3> QED BY <1>2, <1>4, <2>1, <3>2, <3>3
  <2>2. CASE ~(Number[from] >= Number[to])
    BY <1>2, <1>4, <2>2
  <2> QED BY <2>1, <2>2
<1>6. /\ Chain[block] = ToSet(fresh') \cup Chain[to']
      /\ ToSet(fresh') \cap Chain[m_lastBlockHash] = {}
  <2>1. CASE Number[to] >= Number[from]
    <3>1. to \in Blocks /\ fresh \in Seq(Blocks) /\ fresh' = <<to>> \o fresh
      BY <1>1, <1>4, <2>1
    <3>2. ToSet(fresh') = ToSet(fresh) \cup {to} /\ Chain[to] = {to} \cup Chain[Parent[to]]
      BY <3>1, RouteElements, ChainOfBlock
    <3>3. to \notin Chain[m_lastBlockHash]
      BY <1>2, <1>3, <1>4, <2>1
    <3> QED BY <1>2, <1>4, <2>1, <3>2, <3>3
  <2>2. CASE ~(Number[to] >= Number[from])
    BY <1>2, <1>4, <2>2
  <2> QED BY <2>1, <2>2
<1>7. RouteSplits'
  BY <1>1, <1>5, <1>6 DEF RouteSplits
<1>8. /\ \A i \in 2..Len(dead') : dead'[i] = Parent[dead'[i - 1]]
      /\ dead' # <<>> => from' = Parent[dead'[Len(dead')]]
  <2>1. CASE Number[from] >= Number[to]
    <3>1. from \in Blocks /\ dead \in Seq(Blocks) /\ dead' = Append(dead, from)
      BY <1>1, <1>4, <2>1
    <3>2. /\ Len(dead') = Len(dead) + 1 /\ dead'[Len(dead) + 1] = from
          /\ \A i \in 1..Len(dead) : dead'[i] = dead[i]
      BY <3>1, AppendedRoute
    <3>3. ASSUME NEW i \in 2..Len(dead') PROVE dead'[i] = Parent[dead'[i - 1]]
      <4>1. CASE i \in 2..Len(dead)
        <5>1. i \in 1..Len(dead) /\ i - 1 \in 1..Len(dead)
          BY <1>1, <4>1
        <5> QED BY <3>2, <4>1, <5>1 DEF RInv, RouteInOrder
      <4>2. CASE i = Len(dead) + 1
        <5>1. Len(dead) \in 1..Len(dead) /\ i - 1 = Len(dead) /\ dead # <<>>
          BY <1>1, <3>2, <3>3, <4>2
        <5> QED BY <1>1, <3>2, <4>2, <5>1 DEF RInv, RouteInOrder
      <4> QED BY <1>1, <3>2, <3>3, <4>1, <4>2
    <3> QED BY <1>4, <2>1, <3>2, <3>3
  <2>2. CASE ~(Number[from] >= Number[to])
    BY <1>1, <1>4, <2>2 DEF RInv, RouteInOrder
  <2> QED BY <2>1, <2>2
<1>9. /\ \A i \in 2..Len(fresh') : fresh'[i - 1] = Parent[fresh'[i]]
      /\ to' = Parent[fresh'[1]]
  <2>1. CASE Number[to] >= Number[from]
    <3>1. /\ Len(fresh') = Len(fresh) + 1 /\ fresh'[1] = to
          /\ \A i \in 1..Len(fresh) : fresh'[i + 1] = fresh[i]
      BY <1>1, <1>4, <2>1, PrependedRoute
    <3>2. ASSUME NEW i \in 2..Len(fresh') PROVE fresh'[i - 1] = Parent[fresh'[i]]
      <4>1. i - 1 \in 1..Len(fresh) /\ fresh'[i] = fresh[i - 1]
        <5>1. i - 1 \in 1..Len(fresh) /\ (i - 1) + 1 = i
          BY <1>1, <3>1, <3>2
        <5> QED BY <3>1, <5>1
      <4>2. CASE i = 2
        BY <1>1, <3>1, <4>1, <4>2 DEF RInv, RouteInOrder
      <4>3. CASE i # 2
        <5>1. i - 2 \in 1..Len(fresh) /\ (i - 2) + 1 = i - 1 /\ i - 1 \in 2..Len(fresh)
              /\ (i - 1) - 1 = i - 2
          BY <1>1, <3>2, <4>1, <4>3
        <5>2. fresh'[i - 1] = fresh[i - 2]
          BY <3>1, <5>1
        <5>3. fresh[i - 2] = Parent[fresh[i - 1]]
          BY <5>1 DEF RInv, RouteInOrder
        <5> QED BY <4>1, <5>2, <5>3
      <4> QED BY <4>2, <4>3
    <3> QED BY <1>4, <2>1, <3>1, <3>2
  <2>2. CASE ~(Number[to] >= Number[from])
    BY <1>1, <1>4, <2>2 DEF RInv, RouteInOrder
  <2> QED BY <2>1, <2>2
<1>10. RouteInOrder'
  BY <1>1, <1>8, <1>9 DEF RouteInOrder
<1>11. HeadLeads'
  BY <1>1 DEF RInv, HeadLeads, NextHead, Stored, Heavier
<1> QED BY <1>7, <1>10, <1>11 DEF RInv

LEMMA NoteRouteKeepsRInv ==
  ASSUME IInv, RInv, NoteRoute
  PROVE  RInv'
<1> USE DEF databases, head, counters
<1>1. /\ pc = "route" /\ pc' = "blocks" /\ from = to /\ from \in Nodes /\ fresh # <<>>
      /\ UNCHANGED <<extrasDB, hashesDB, head, block, from, to, dead, fresh, counters>>
  BY DEF NoteRoute, IInv, ImportGoesOn
<1>2. RouteInOrder'
  BY <1>1 DEF RInv, RouteInOrder
<1>3. RouteSplits'
  <2>1. /\ Chain[m_lastBlockHash] = ToSet(dead) \cup Chain[from]
        /\ Chain[block] = ToSet(fresh) \cup Chain[from]
        /\ ToSet(dead) \cap Chain[block] = {}
        /\ ToSet(fresh) \cap Chain[m_lastBlockHash] = {}
    BY <1>1 DEF RInv, RouteSplits
  <2>2. /\ ToSet(dead) = Chain[m_lastBlockHash] \ Chain[block]
        /\ ToSet(fresh) = Chain[block] \ Chain[m_lastBlockHash]
    BY <2>1
  <2> QED BY <1>1, <2>2 DEF RouteSplits
<1>4. HeadLeads'
  BY <1>1 DEF RInv, HeadLeads, NextHead, Stored, Heavier
<1> QED BY <1>2, <1>3, <1>4 DEF RInv

LEMMA WriteBlocksKeepsRInv ==
  ASSUME IInv, RInv, WriteBlocks
  PROVE  RInv'
<1> USE DEF databases, head, counters
<1>1. /\ pc = "blocks" /\ pc' = "extras"
      /\ UNCHANGED <<extrasDB, hashesDB, head, block, from, to, dead, fresh, counters>>
  BY DEF WriteBlocks
<1>2. RouteInOrder' /\ RouteSplits'
  BY <1>1 DEF RInv, RouteInOrder, RouteSplits
<1>3. HeadLeads'
  BY <1>1 DEF RInv, HeadLeads, NextHead, Stored, Heavier
<1> QED BY <1>2, <1>3 DEF RInv

\* The numbers written are those of the new head's chain: a block that joins it has
\* its number alone among those that do, and a block that stays keeps its own.
LEMMA RenumberedIsCanonical ==
  ASSUME IInv, RInv, pc = "extras", fresh # <<>>, NEW h \in Chain[block] \ {Genesis},
         h \in Chain[m_lastBlockHash] => hashesDB[Number[h]] = h
  PROVE  Renumbered[Number[h]] = h
<1>1. block \in Nodes /\ m_lastBlockHash \in Nodes
  BY DEF IInv, ImportGoesOn, TypeOK, Nodes
<1>2. h \in Blocks /\ Number[h] \in Numbers
  BY <1>1, ChainFacts, NumberFacts DEF Nodes
<1>3. ToSet(fresh) = Chain[block] \ Chain[m_lastBlockHash]
  BY DEF RInv, RouteSplits
<1>4. \A k \in ToSet(fresh) : Number[k] = Number[h] => k = h
  BY <1>1, <1>3, ChainFacts
<1>5. CASE h \in ToSet(fresh)
  BY <1>2, <1>4, <1>5 DEF Renumbered
<1>6. CASE h \notin ToSet(fresh)
  <2>1. hashesDB[Number[h]] = h
    BY <1>3, <1>6
  <2>2. ~\E k \in ToSet(fresh) : Number[k] = Number[h]
    BY <1>4, <1>6
  <2> QED BY <1>2, <2>1, <2>2 DEF Renumbered
<1> QED BY <1>5, <1>6

LEMMA WriteExtrasKeepsRInv ==
  ASSUME IInv, RInv, WriteExtras
  PROVE  RInv'
<1> USE DEF databases, head, counters
<1>1. /\ pc = "extras" /\ block \in Nodes /\ m_lastBlockHash \in Nodes
      /\ hashesDB' = Renumbered /\ UNCHANGED <<head, counters>>
      /\ \A h \in Nodes : Stored(h)' <=> h = block \/ Stored(h)
  BY ExtrasWritten DEF WriteExtras, IInv, TypeOK, Nodes
<1>2. CASE fresh = <<>>
  <2>1. pc' = "idle" /\ NoRoute
    BY <1>2 DEF WriteExtras
  <2>2. RouteInOrder' /\ RouteSplits'
    BY <2>1 DEF NoRoute, RouteInOrder, RouteSplits
  <2>3. hashesDB' = hashesDB
    BY <1>1, <1>2, EmptyRoute DEF Renumbered, IInv, TypeOK
  <2>4. NextHead = m_lastBlockHash /\ NextHead' = m_lastBlockHash
    BY <1>1, <2>1 DEF NextHead
  <2>5. HeadLeads'
    <3> SUFFICES ASSUME crashes = 0, rewinds = 0
                 PROVE  /\ \A h \in Chain[m_lastBlockHash] \ {Genesis} : hashesDB[Number[h]] = h
                        /\ \A h \in Nodes : Stored(h)' => ~Heavier(h, m_lastBlockHash)
      BY <1>1, <2>1, <2>3, <2>4 DEF HeadLeads, Heavier
    <3> QED BY <1>1, <1>2, <2>4 DEF RInv, HeadLeads
  <2> QED BY <2>2, <2>5 DEF RInv
<1>3. CASE fresh # <<>>
  <2>1. pc' = "best" /\ UNCHANGED <<block, from, to, dead, fresh>>
    BY <1>3 DEF WriteExtras
  <2>2. RouteInOrder' /\ RouteSplits'
    BY <1>1, <2>1 DEF RInv, RouteInOrder, RouteSplits
  <2>3. NextHead = m_lastBlockHash /\ NextHead' = block /\ Heavier(block, m_lastBlockHash)
    BY <1>1, <1>3, <2>1 DEF NextHead, IInv, ImportGoesOn
  <2>4. HeadLeads'
    <3> SUFFICES ASSUME crashes = 0, rewinds = 0
                 PROVE  /\ \A h \in Chain[block] \ {Genesis} : Renumbered[Number[h]] = h
                        /\ \A h \in Nodes : Stored(h)' => ~Heavier(h, block)
      BY <1>1, <2>1, <2>3 DEF HeadLeads, Heavier
    <3>1. /\ \A h \in Chain[m_lastBlockHash] \ {Genesis} : hashesDB[Number[h]] = h
          /\ \A h \in Nodes : Stored(h) => ~Heavier(h, m_lastBlockHash)
      BY <2>3 DEF RInv, HeadLeads
    <3>2. \A h \in Chain[block] \ {Genesis} : Renumbered[Number[h]] = h
      BY <1>1, <1>3, <3>1, RenumberedIsCanonical
    <3>3. \A h \in Nodes : Stored(h)' => ~Heavier(h, block)
      BY <1>1, <2>3, <3>1, HeavierIsAnOrder
    <3> QED BY <3>2, <3>3
  <2> QED BY <2>2, <2>4 DEF RInv
<1> QED BY <1>2, <1>3

LEMMA WriteBestKeepsRInv ==
  ASSUME IInv, RInv, WriteBest
  PROVE  RInv'
<1> USE DEF databases, head, counters
<1>1. /\ pc = "best" /\ pc' = "idle" /\ NoRoute /\ m_lastBlockHash' = block
      /\ UNCHANGED <<extrasDB, hashesDB, counters>>
  BY DEF WriteBest
<1>2. RouteInOrder' /\ RouteSplits'
  BY <1>1 DEF NoRoute, RouteInOrder, RouteSplits
<1>3. HeadLeads'
  BY <1>1 DEF RInv, HeadLeads, NextHead, Stored, Heavier
<1> QED BY <1>2, <1>3 DEF RInv

LEMMA RewindKeepsRInv ==
  ASSUME IInv, RInv, NEW n \in Numbers \cup {0}, rewind(n)
  PROVE  RInv'
<1>1. /\ pc = "idle" /\ UNCHANGED call /\ rewinds' = rewinds + 1 /\ rewinds \in Nat
  BY DEF rewind, IInv, TypeOK
<1>2. RouteInOrder' /\ RouteSplits'
  BY <1>1 DEF call, RInv, RouteInOrder, RouteSplits
<1>3. HeadLeads'
  BY <1>1 DEF HeadLeads
<1> QED BY <1>2, <1>3 DEF RInv

LEMMA CrashKeepsRInv ==
  ASSUME IInv, RInv, Crash
  PROVE  RInv'
<1>1. pc' = "idle" /\ NoRoute /\ crashes' = crashes + 1 /\ crashes \in Nat
  BY DEF Crash, IInv, TypeOK
<1>2. RouteInOrder' /\ RouteSplits'
  BY <1>1 DEF NoRoute, RouteInOrder, RouteSplits
<1>3. HeadLeads'
  BY <1>1 DEF HeadLeads
<1> QED BY <1>2, <1>3 DEF RInv

\* The second inductive invariant, on top of the first.
THEOREM RouteInvariant == Spec => []RInv
<1>1. IInv /\ RInv /\ [Next]_vars => RInv'
  <2> SUFFICES ASSUME IInv, RInv, [Next]_vars PROVE RInv'
    OBVIOUS
  <2>1. CASE Import
    BY <2>1, ImportKeepsRInv, ListChildKeepsRInv, RouteKeepsRInv, NoteRouteKeepsRInv,
       WriteBlocksKeepsRInv, WriteExtrasKeepsRInv, WriteBestKeepsRInv DEF Import
  <2>2. CASE \/ \E r \in Readers : Read(r)
             \/ \E h \in Nodes : garbageCollect(h)
             \/ UNCHANGED vars
    <3>1. UNCHANGED <<extrasDB, hashesDB, head, pc, block, from, to, dead, fresh, counters>>
      BY <2>2 DEF Read, ReadHash, CacheHash, ReadDetails, CacheDetails, garbageCollect, vars,
                  databases, call
    <3> QED BY <3>1, ElsewhereKeepsRInv
  <2>3. CASE \E n \in Numbers \cup {0} : rewind(n)
    BY <2>3, RewindKeepsRInv
  <2>4. CASE Crash
    BY <2>4, CrashKeepsRInv
  <2> QED BY <2>1, <2>2, <2>3, <2>4 DEF Next
<1> QED BY <1>1, InitRInv, DatabaseInvariant, PTL DEF Spec

\* What treeRoute() hands to the client for every tree of blocks: exactly the blocks
\* that leave the chain, from the old head down, and those that join it, up to the
\* new head.
THEOREM RouteStaysExact == Spec => []RouteIsExact
<1>1. IInv /\ RInv => RouteIsExact
  BY DEF IInv, ImportGoesOn, RInv, RouteInOrder, RouteSplits, RouteIsExact
<1> QED BY <1>1, DatabaseInvariant, RouteInvariant, PTL

\* After every reorganisation, to a longer chain or to a shorter one, the numbers in
\* the database are those of the head's chain.
THEOREM IndexStaysCanonical == Spec => []IndexIsCanonical
<1>1. RInv => IndexIsCanonical
  BY DEF RInv, HeadLeads, NextHead, IndexIsCanonical, NumbersFollow
<1> QED BY <1>1, RouteInvariant, PTL

\* Without crash and rewind the head is a block no stored one is better than, by
\* difficulty and then by gas.
THEOREM HeadStaysHeaviest == Spec => []HeadIsHeaviest
<1>1. RInv => HeadIsHeaviest
  BY DEF RInv, HeadLeads, NextHead, HeadIsHeaviest, Stored
<1> QED BY <1>1, RouteInvariant, PTL
=============================================================================
