----------------------------- MODULE BlockChainDB ------------------------------
(* The database of BlockChain (libethereum/BlockChain.cpp): two LevelDBs, one   *)
(* of blocks and one of extras, the caches in front of the second, and the head *)
(* of the chain. The client's thread imports blocks, rewinds the chain and      *)
(* collects garbage; other threads read through the caches; the process may     *)
(* end between any two writes.                                                  *)
EXTENDS Naturals, Sequences, SequencesExt

CONSTANTS
    Blocks,             \* the blocks the client may import; all of them are valid
    Genesis,
    Parent,             \* [Blocks -> Nodes]
    Number,             \* [Nodes -> Nat]
    totalDifficulty,    \* [Nodes -> Nat]
    gasUsed,            \* [Nodes -> Nat]
    Readers,            \* threads that call numberHash() and details()
    None,               \* no entry
    MaxCrashes, MaxRewinds

Nodes == Blocks \cup {Genesis}

ASSUME GenesisAssumption == Genesis \notin Blocks
ASSUME NoneAssumption == None \notin Nodes /\ \A S \in SUBSET Blocks : None # S
ASSUME ParentAssumption == Parent \in [Blocks -> Nodes]
ASSUME NumberAssumption ==
    /\ Number \in [Nodes -> Nat]
    /\ Number[Genesis] = 0
    /\ \A h \in Blocks : Number[h] = Number[Parent[h]] + 1
ASSUME DifficultyAssumption ==
    /\ totalDifficulty \in [Nodes -> Nat]
    /\ gasUsed \in [Nodes -> Nat]
    /\ \A h \in Blocks : totalDifficulty[h] > totalDifficulty[Parent[h]]
ASSUME BoundAssumption == MaxCrashes \in Nat /\ MaxRewinds \in Nat

Numbers == {Number[h] : h \in Blocks}

VARIABLES
    blocksDB,           \* the blocks in m_blocksDB
    extrasDB,           \* ExtraDetails: the children of each block, None without a record
    hashesDB,           \* ExtraBlockHash: the block of each number
    bestDB,             \* "best"
    m_details, m_blockHashes,
    m_lastBlockHash, m_lastBlockNumber,
    pc,                 \* where import() is
    block,              \* the block it imports
    record,             \* its parent's details, in the batch of extras
    from, to,           \* treeRoute()'s two ends
    dead, fresh,        \* the route: what leaves the chain, what joins it
    pending,            \* what each reader has read from the database and not yet cached
    crashes, rewinds

databases == <<blocksDB, extrasDB, hashesDB, bestDB>>
caches    == <<m_details, m_blockHashes>>
head      == <<m_lastBlockHash, m_lastBlockNumber>>
call      == <<pc, block, record, from, to, dead, fresh>>
counters  == <<crashes, rewinds>>
vars == <<databases, caches, head, call, pending, counters>>

NoRoute == /\ block' = None /\ record' = None
           /\ from' = None /\ to' = None /\ dead' = <<>> /\ fresh' = <<>>

--------------------------------------------------------------------------------
(* Reading. queryExtras() looks in the cache, then in the database, and keeps   *)
(* what it found unless another thread has put an entry there meanwhile.        *)

Filled(S) == [h \in Nodes |->
                IF h \in S /\ m_details[h] = None THEN extrasDB[h] ELSE m_details[h]]

isKnown(h) == h = Genesis \/ (h \in blocksDB /\ extrasDB[h] # None)

isCurrent(h) == isKnown(h) /\ Number[h] <= m_lastBlockNumber

\* Fault: the database is not asked.
numberHash_cached(n) == IF n = 0 THEN Genesis ELSE m_blockHashes[n]
numberHash(n) ==
    IF n = 0 THEN Genesis
    ELSE IF m_blockHashes[n] # None THEN m_blockHashes[n] ELSE hashesDB[n]

NoRead == [kind |-> "none"]

ReadHash(r, n) ==
    /\ pending[r] = NoRead
    /\ m_blockHashes[n] = None
    /\ hashesDB[n] # None
    /\ pending' = [pending EXCEPT ![r] = [kind |-> "hash", key |-> n, value |-> hashesDB[n]]]
    /\ UNCHANGED <<databases, caches, head, call, counters>>

CacheHash(r) ==
    /\ pending[r].kind = "hash"
    /\ m_blockHashes' =
          [m_blockHashes EXCEPT ![pending[r].key] = IF @ = None THEN pending[r].value ELSE @]
    /\ pending' = [pending EXCEPT ![r] = NoRead]
    /\ UNCHANGED <<databases, m_details, head, call, counters>>

ReadDetails(r, h) ==
    /\ pending[r] = NoRead
    /\ m_details[h] = None
    /\ extrasDB[h] # None
    /\ pending' = [pending EXCEPT ![r] = [kind |-> "details", key |-> h, value |-> extrasDB[h]]]
    /\ UNCHANGED <<databases, caches, head, call, counters>>

CacheDetails(r) ==
    /\ pending[r].kind = "details"
    /\ m_details' =
          [m_details EXCEPT ![pending[r].key] = IF @ = None THEN pending[r].value ELSE @]
    /\ pending' = [pending EXCEPT ![r] = NoRead]
    /\ UNCHANGED <<databases, m_blockHashes, head, call, counters>>

\* Fault: it runs on another thread than import().
garbageCollect_any(h) ==
    /\ m_details' = [m_details EXCEPT ![h] = None]
    /\ UNCHANGED <<databases, m_blockHashes, head, call, pending, counters>>

\* Client::tick(), on the thread that imports. Which entries go depends on when
\* they were used; numbers are never noted as used, so hashes stay.
garbageCollect(h) ==
    /\ pc = "idle"
    /\ m_details' = [m_details EXCEPT ![h] = None]
    /\ UNCHANGED <<databases, m_blockHashes, head, call, pending, counters>>

--------------------------------------------------------------------------------
(* Importing.                                                                   *)

\* Fault: the longest chain wins; or the later of two that weigh the same.
Better_longest(h, last) == Number[h] > Number[last]
Better_equal(h, last) == totalDifficulty[h] >= totalDifficulty[last]
Better(h, last) ==
    \/ totalDifficulty[h] > totalDifficulty[last]
    \/ totalDifficulty[h] = totalDifficulty[last] /\ gasUsed[h] > gasUsed[last]

clearCachesDuringChainReversion(first) ==
    m_blockHashes' = [n \in Numbers |->
        IF first <= n /\ n <= m_lastBlockNumber THEN None ELSE m_blockHashes[n]]

\* The checks, which bring the parent's details into the cache.
import(h) ==
    /\ pc = "idle"
    /\ ~isCurrent(h)
    /\ isKnown(Parent[h])
    /\ m_details' = Filled({h, Parent[h]})
    /\ block' = h
    /\ pc' = "child"
    /\ UNCHANGED <<databases, m_blockHashes, head, record, from, to, dead, fresh, pending,
                   counters>>

\* m_details[parent].children.push_back(): of new details, if there are none.
Listed == (IF m_details[Parent[block]] = None THEN {} ELSE m_details[Parent[block]])
          \cup {block}

\* The parent's details go into the batch, and treeRoute() starts if the block is
\* better than the head.
ListChild ==
    /\ pc = "child"
    /\ record' = Listed
    /\ m_details' = [Filled({m_lastBlockHash}) EXCEPT ![Parent[block]] = Listed]
    /\ IF Better(block, m_lastBlockHash)
       THEN /\ pc' = "route"
            /\ from' = m_lastBlockHash /\ to' = Parent[block]
            /\ dead' = <<>> /\ fresh' = <<block>>
       ELSE /\ pc' = "blocks"
            /\ UNCHANGED <<from, to, dead, fresh>>
    /\ UNCHANGED <<databases, m_blockHashes, head, block, pending, counters>>

\* The part of the route after the common ancestor, from the lower block on.
\* Fault: the route is not turned round.
Joins_behind == Append(fresh, to)
Joins == <<to>> \o fresh

\* treeRoute(): the end with the higher number goes to its parent, or both do.
treeRoute ==
    /\ pc = "route"
    /\ from # to
    /\ m_details' = Filled({from, to})
    /\ IF Number[from] >= Number[to]
       THEN dead' = Append(dead, from) /\ from' = Parent[from]
       ELSE UNCHANGED <<dead, from>>
    /\ IF Number[to] >= Number[from]
       THEN fresh' = Joins /\ to' = Parent[to]
       ELSE UNCHANGED <<fresh, to>>
    /\ UNCHANGED <<databases, m_blockHashes, head, pc, block, record, pending, counters>>

\* The ends have met, in the common ancestor.
NoteRoute ==
    /\ pc = "route"
    /\ from = to
    /\ m_details' = Filled({from})
    /\ IF from # m_lastBlockHash
       THEN clearCachesDuringChainReversion(Number[from] + 1)
       ELSE UNCHANGED m_blockHashes
    /\ pc' = "blocks"
    /\ UNCHANGED <<databases, head, block, record, from, to, dead, fresh, pending, counters>>

\* Fault: the status of the write is not checked.
WriteBlocks_unchecked ==
    /\ pc = "blocks"
    /\ blocksDB' \in {blocksDB, blocksDB \cup {block}}
    /\ pc' = "extras"
    /\ UNCHANGED <<extrasDB, hashesDB, bestDB, caches, head, block, record, from, to, dead,
                   fresh, pending, counters>>

WriteBlocks ==
    /\ pc = "blocks"
    /\ blocksDB' = blocksDB \cup {block}
    /\ pc' = "extras"
    /\ UNCHANGED <<extrasDB, hashesDB, bestDB, caches, head, block, record, from, to, dead,
                   fresh, pending, counters>>

\* Fault: only the new head gets a number; or numbers already given stay.
Renumbered_head == [n \in Numbers |->
    IF fresh # <<>> /\ Number[block] = n THEN block ELSE hashesDB[n]]
Renumbered_new == [n \in Numbers |->
    IF hashesDB[n] = None /\ \E h \in ToSet(fresh) : Number[h] = n
    THEN CHOOSE h \in ToSet(fresh) : Number[h] = n
    ELSE hashesDB[n]]
Renumbered == [n \in Numbers |->
    IF \E h \in ToSet(fresh) : Number[h] = n
    THEN CHOOSE h \in ToSet(fresh) : Number[h] = n
    ELSE hashesDB[n]]

\* One batch: the details of the parent and of the block, and the numbers of all
\* blocks that join the chain.
WriteExtras ==
    /\ pc = "extras"
    /\ extrasDB' = [extrasDB EXCEPT ![Parent[block]] = record,
                                    ![block] = {}]
    /\ hashesDB' = Renumbered
    /\ IF fresh = <<>> THEN pc' = "idle" /\ NoRoute
       ELSE pc' = "best" /\ UNCHANGED <<block, record, from, to, dead, fresh>>
    /\ UNCHANGED <<blocksDB, bestDB, caches, head, pending, counters>>

\* Under x_lastBlockHash; the route is then the caller's.
WriteBest ==
    /\ pc = "best"
    /\ m_lastBlockHash' = block
    /\ m_lastBlockNumber' = Number[block]
    /\ bestDB' = block
    /\ pc' = "idle" /\ NoRoute
    /\ UNCHANGED <<blocksDB, extrasDB, hashesDB, caches, pending, counters>>

--------------------------------------------------------------------------------
(* Client::rewind(), and the end of the process with what open() then does.     *)

rewind(n) ==
    /\ pc = "idle"
    /\ rewinds < MaxRewinds
    /\ n < m_lastBlockNumber
    /\ m_blockHashes' = [i \in Numbers |->
           IF i > n /\ i <= m_lastBlockNumber THEN None
           ELSE IF i = n THEN numberHash(n) ELSE m_blockHashes[i]]
    /\ m_lastBlockHash' = numberHash(n)
    /\ m_lastBlockNumber' = n
    /\ bestDB' = numberHash(n)
    /\ rewinds' = rewinds + 1
    /\ UNCHANGED <<blocksDB, extrasDB, hashesDB, m_details, call, pending, crashes>>

Best == IF bestDB = None THEN Genesis ELSE bestDB

Crash ==
    /\ crashes < MaxCrashes
    /\ crashes' = crashes + 1
    /\ m_lastBlockHash' = Best
    /\ m_lastBlockNumber' = Number[Best]
    /\ m_details' = [h \in Nodes |-> IF h \in {Genesis, Best} THEN extrasDB[h] ELSE None]
    /\ m_blockHashes' = [n \in Numbers |-> None]
    /\ pc' = "idle" /\ NoRoute
    /\ pending' = [r \in Readers |-> NoRead]
    /\ UNCHANGED <<databases, rewinds>>

Init ==
    /\ blocksDB = {}
    /\ extrasDB = [h \in Nodes |-> IF h = Genesis THEN {} ELSE None]
    /\ hashesDB = [n \in Numbers |-> None]
    /\ bestDB = None
    /\ m_details = extrasDB
    /\ m_blockHashes = hashesDB
    /\ m_lastBlockHash = Genesis
    /\ m_lastBlockNumber = 0
    /\ pc = "idle"
    /\ block = None /\ record = None /\ from = None /\ to = None
    /\ dead = <<>> /\ fresh = <<>>
    /\ pending = [r \in Readers |-> NoRead]
    /\ crashes = 0 /\ rewinds = 0

Import ==
    \/ \E h \in Blocks : import(h)
    \/ ListChild
    \/ treeRoute
    \/ NoteRoute
    \/ WriteBlocks
    \/ WriteExtras
    \/ WriteBest

Read(r) ==
    \/ \E n \in Numbers : ReadHash(r, n)
    \/ CacheHash(r)
    \/ \E h \in Nodes : ReadDetails(r, h)
    \/ CacheDetails(r)

Next ==
    \/ Import
    \/ \E r \in Readers : Read(r)
    \/ \E h \in Nodes : garbageCollect(h)
    \/ \E n \in Numbers \cup {0} : rewind(n)
    \/ Crash

Spec == Init /\ [][Next]_vars

--------------------------------------------------------------------------------
(* Properties.                                                                  *)

Positions == {"idle", "child", "route", "blocks", "extras", "best"}

Reads == {NoRead} \cup [kind : {"hash"}, key : Numbers, value : Blocks]
                  \cup [kind : {"details"}, key : Nodes, value : SUBSET Blocks]

\* Every variable keeps its type.
TypeOK ==
    /\ blocksDB \subseteq Blocks
    /\ extrasDB \in [Nodes -> (SUBSET Blocks) \cup {None}]
    /\ m_details \in [Nodes -> (SUBSET Blocks) \cup {None}]
    /\ hashesDB \in [Numbers -> Blocks \cup {None}]
    /\ m_blockHashes \in [Numbers -> Blocks \cup {None}]
    /\ bestDB \in Nodes \cup {None}
    /\ m_lastBlockHash \in Nodes
    /\ m_lastBlockNumber \in Nat
    /\ pc \in Positions
    /\ block \in Blocks \cup {None}
    /\ record \in (SUBSET Blocks) \cup {None}
    /\ from \in Nodes \cup {None} /\ to \in Nodes \cup {None}
    /\ dead \in Seq(Blocks) /\ fresh \in Seq(Blocks)
    /\ pending \in [Readers -> Reads]
    /\ crashes \in 0..MaxCrashes /\ rewinds \in 0..MaxRewinds

\* A block with details has its body and its parent's details in the databases,
\* wherever the process ended: block() and details() never come up empty on the
\* way from a block to the genesis block.
StoredIsClosed ==
    \A h \in Blocks : extrasDB[h] # None =>
        h \in blocksDB /\ extrasDB[Parent[h]] # None

\* What numberHash() answers, from the cache or from the database, is a stored
\* block of that number, up to the head's number at least; and the head, in memory
\* and as a restart will find it, is a stored block and has the number kept
\* beside it.
HeadIsStored ==
    /\ m_lastBlockHash = Best
    /\ extrasDB[Best] # None
    /\ m_lastBlockNumber = Number[Best]
    /\ \A n \in Numbers : n <= m_lastBlockNumber => hashesDB[n] # None
    /\ \A n \in Numbers : \A h \in {hashesDB[n], m_blockHashes[n]} \ {None} :
           extrasDB[h] # None /\ Number[h] = n

\* Wherever the process ends, every stored block can be followed back to the genesis
\* block, and the head is one of them.
StoreIsWhole == TypeOK /\ StoredIsClosed /\ HeadIsStored

\* While import() runs, the parent's details stay in the cache: m_details[parent] is
\* never made anew, without a number or a difficulty, nor read again, without the
\* new child, before the record with the child is written.
ParentStaysCached ==
    /\ pc \notin {"idle", "best"} => m_details[Parent[block]] # None
    /\ pc \in {"route", "blocks", "extras"} =>
           m_details[Parent[block]] = record /\ block \in record

\* The order of the headers: difficulty first, then gas.
Heavier(h, k) ==
    /\ totalDifficulty[h] >= totalDifficulty[k]
    /\ totalDifficulty[h] = totalDifficulty[k] => gasUsed[h] > gasUsed[k]

\* Unless the process has ended during an import or the chain has been rewound, no
\* stored block is better than the head.
HeadIsHeaviest ==
    crashes = 0 /\ rewinds = 0 /\ pc # "best" =>
        \A h \in Nodes : extrasDB[h] # None => ~Heavier(h, m_lastBlockHash)

Chain[h \in Nodes] == {h} \cup IF h = Genesis THEN {} ELSE Chain[Parent[h]]

NumbersFollow(hashes) ==
    \A h \in Chain[m_lastBlockHash] \ {Genesis} : hashes[Number[h]] = h

\* The database's numbers are those of the head's chain, through reorganisations to
\* longer and to shorter chains.
IndexIsCanonical ==
    crashes = 0 /\ rewinds = 0 /\ pc # "best" => NumbersFollow(hashesDB)

\* The route the client is told of, whose dead blocks' transactions it takes back
\* and whose fresh ones it drops, is the difference of the old chain and the new
\* one, in the order documented for treeRoute().
RouteIsExact ==
    pc = "best" =>
        /\ ToSet(dead) = Chain[m_lastBlockHash] \ Chain[block]
        /\ ToSet(fresh) = Chain[block] \ Chain[m_lastBlockHash]
        /\ \A i \in 2..Len(dead) : dead[i] = Parent[dead[i - 1]]
        /\ \A i \in 2..Len(fresh) : fresh[i - 1] = Parent[fresh[i]]

\* Crashes, readers and garbage collection change nothing of what ChainStore
\* promises; an import is one Store and at most one Adopt.
Store == INSTANCE ChainStore WITH
             stored <- {h \in Nodes : extrasDB[h] # None}, best <- Best, returns <- rewinds,
             Better <- Heavier
StoreSpec == Store!Spec

--------------------------------------------------------------------------------
(* Promises of the code's comments and assertions that TLC finds broken.        *)

\* BlockChain.h: "Get the hash for a given block's number."
NumberHashIsCanonical == pc = "idle" /\ crashes = 0 /\ rewinds = 0 =>
    NumbersFollow([n \in Numbers |-> numberHash(n)])

\* checkConsistency(), with empty caches: "asserts(contains(dp.children, h))".
ChildrenAreListed == pc = "idle" =>
    \A h \in Blocks : extrasDB[h] # None /\ Parent[h] # Genesis =>
        h \in extrasDB[Parent[h]]

\* BlockChain.h, of rewind(): "Alter the head of the chain to some prior block
\* along it."
RewindIsAlongChain ==
    [][rewinds' > rewinds => m_lastBlockHash' \in Chain[m_lastBlockHash]]_vars
=============================================================================
