------------------------------ MODULE RelayCache ------------------------------
(***************************************************************************)
(* main.cpp: runs of the relay that verify a block header with the ethash  *)
(* cache of the header's epoch, kept as one file per epoch in ./cache.     *)
(*                                                                         *)
(* compute_cache() tests for the file, then either reads it or computes the*)
(* cache, opens the file -- which empties it -- and writes the cache, some *)
(* chunks at a time.  Nothing locks the file and neither the length nor the*)
(* result of the write is checked.  A run may be killed at any point, and a*)
(* write may fail (a full disk): the file stays as it is.                  *)
(*                                                                         *)
(* The bytes of a cache are abstracted to Chunks pieces, each known by the *)
(* epoch it was computed for; its values are what ethash makes of the seed.*)
(***************************************************************************)
EXTENDS Naturals

CONSTANTS
    Runs,           \* the processes
    BlockNumbers,   \* the block numbers to verify
    EPOCH_LENGTH,   \* 30000 in the code
    Chunks,         \* how many writes it takes to store a cache
    MaxFaults,      \* bound on crashes and failed writes
    NoData, NoBlock \* bytes never written; no request

ASSUME RelayAssumption ==
    /\ BlockNumbers \subseteq Nat
    /\ EPOCH_LENGTH \in Nat \ {0} /\ Chunks \in Nat \ {0} /\ MaxFaults \in Nat
    /\ NoData \notin Nat /\ NoBlock \notin Nat

VARIABLES
    cachefile,  \* epoch -> [exists, size, data]: the directory ./cache
    pc,         \* where each run is
    blockno,    \* the argument of its verify_block_header
    offset,     \* chunks it has written
    light,      \* its ethash_light_t: [size, data]
    faults

vars == <<cachefile, pc, blockno, offset, light, faults>>

\* Fault: the epoch is one block too long.
epoch_long(b) == b \div (EPOCH_LENGTH + 1)
epoch(b) == b \div EPOCH_LENGTH

\* The epoch ethash_light_new() computes the seed from (libethash/internal.c:314).
SeedEpoch(b) == b \div EPOCH_LENGTH
Epochs == {epoch(b) : b \in BlockNumbers}

Bytes == [1..Chunks -> {SeedEpoch(b) : b \in BlockNumbers} \cup {NoData}]
Blank == [k \in 1..Chunks |-> NoData]
Cache(b) == [k \in 1..Chunks |-> SeedEpoch(b)]

Missing  == [exists |-> FALSE, size |-> 0, data |-> Blank]
Emptied  == [exists |-> TRUE,  size |-> 0, data |-> Blank]
NoLight  == [size |-> 0, data |-> Blank]

Init ==
    /\ cachefile = [e \in Epochs |-> Missing]
    /\ pc = [r \in Runs |-> "idle"]
    /\ blockno = [r \in Runs |-> NoBlock]
    /\ offset = [r \in Runs |-> 0]
    /\ light = [r \in Runs |-> NoLight]
    /\ faults = 0

File(r) == cachefile[epoch(blockno[r])]
Goto(r, label) == pc' = [pc EXCEPT ![r] = label]

-----------------------------------------------------------------------------
\* verify_block_header(blockno, ...), up to the call of compute_cache.
Start(r, b) ==
    /\ pc[r] = "idle"
    /\ blockno' = [blockno EXCEPT ![r] = b]
    /\ Goto(r, "access")
    /\ UNCHANGED <<cachefile, offset, light, faults>>

\* access(cachefile, F_OK).
Present(r) == File(r).exists

Access(r) ==
    /\ pc[r] = "access"
    /\ Goto(r, IF Present(r) THEN "measure" ELSE "compute")
    /\ UNCHANGED <<cachefile, blockno, offset, light, faults>>

\* cache_size = is.tellg() at the end of the file.
Measure(r) ==
    /\ pc[r] = "measure"
    /\ light' = [light EXCEPT ![r] = [size |-> File(r).size, data |-> Blank]]
    /\ Goto(r, "read")
    /\ UNCHANGED <<cachefile, blockno, offset, faults>>

\* is.read(buffer, cache_size) into an uninitialised buffer: what the file no
\* longer has stays unset.
Read(r) ==
    /\ pc[r] = "read"
    /\ light' = [light EXCEPT ![r].data =
                    [k \in 1..Chunks |-> IF k <= light[r].size /\ k <= File(r).size
                                         THEN File(r).data[k] ELSE NoData]]
    /\ Goto(r, "hash")
    /\ UNCHANGED <<cachefile, blockno, offset, faults>>

\* ethash_light_new(blockno).
Compute(r) ==
    /\ pc[r] = "compute"
    /\ light' = [light EXCEPT ![r] = [size |-> Chunks, data |-> Cache(blockno[r])]]
    /\ Goto(r, "open")
    /\ UNCHANGED <<cachefile, blockno, offset, faults>>

\* cache_file.open(..., ios::out | ios::binary): creates or empties the file.
Open(r) ==
    /\ pc[r] = "open"
    /\ cachefile' = [cachefile EXCEPT ![epoch(blockno[r])] = Emptied]
    /\ offset' = [offset EXCEPT ![r] = 0]
    /\ Goto(r, "write")
    /\ UNCHANGED <<blockno, light, faults>>

\* The last write done: the stream is closed when the function returns.
\* Faults: the last chunk is not written; one too many is.
Written_short(k) == k + 1 >= Chunks
Written_past(k) == k > Chunks
Written(k) == k >= Chunks

\* cache_file.write(...), a chunk at its place: beyond the end of a file that
\* another run has emptied, it leaves a hole.
Write(r) ==
    LET k == offset[r] + 1
    IN  /\ pc[r] = "write"
        /\ cachefile' = [cachefile EXCEPT ![epoch(blockno[r])] =
                            [exists |-> TRUE,
                             size   |-> IF k > @.size THEN k ELSE @.size,
                             data   |-> [@.data EXCEPT ![k] = light[r].data[k]]]]
        /\ offset' = [offset EXCEPT ![r] = k]
        /\ Goto(r, IF Written(k) THEN "hash" ELSE "write")
        /\ UNCHANGED <<blockno, light, faults>>

\* A failed write goes unnoticed: the run continues with the cache it computed.
WriteFails(r) ==
    /\ pc[r] = "write" /\ faults < MaxFaults
    /\ faults' = faults + 1
    /\ Goto(r, "hash")
    /\ UNCHANGED <<cachefile, blockno, offset, light>>

\* ethash_light_compute(light, ...): the result is printed, the run ends.  An
\* empty cache makes it divide by zero.
Hash(r) ==
    /\ pc[r] = "hash"
    /\ Goto(r, "idle")
    /\ blockno' = [blockno EXCEPT ![r] = NoBlock]
    /\ offset' = [offset EXCEPT ![r] = 0]
    /\ light' = [light EXCEPT ![r] = NoLight]
    /\ UNCHANGED <<cachefile, faults>>

\* The run is killed.
Crash(r) ==
    /\ pc[r] # "idle" /\ faults < MaxFaults
    /\ faults' = faults + 1
    /\ Goto(r, "idle")
    /\ blockno' = [blockno EXCEPT ![r] = NoBlock]
    /\ offset' = [offset EXCEPT ![r] = 0]
    /\ light' = [light EXCEPT ![r] = NoLight]
    /\ UNCHANGED cachefile

compute_cache(r) ==
    Access(r) \/ Measure(r) \/ Read(r) \/ Compute(r) \/ Open(r) \/ Write(r) \/ WriteFails(r)

Next == \E r \in Runs : \/ \E b \in BlockNumbers : Start(r, b)
                        \/ compute_cache(r) \/ Hash(r) \/ Crash(r)

Spec == Init /\ [][Next]_vars

-----------------------------------------------------------------------------
TypeOK ==
    /\ cachefile \in [Epochs -> [exists : BOOLEAN, size : 0..Chunks, data : Bytes]]
    /\ pc \in [Runs -> {"idle", "access", "measure", "read", "compute", "open", "write",
                        "hash"}]
    /\ blockno \in [Runs -> BlockNumbers \cup {NoBlock}]
    /\ offset \in [Runs -> 0..Chunks]
    /\ light \in [Runs -> [size : 0..Chunks, data : Bytes]]
    /\ faults \in 0..MaxFaults
    /\ \A r \in Runs : pc[r] = "idle" <=> blockno[r] = NoBlock

Whole(f, e) == f.size = Chunks /\ \A k \in 1..Chunks : f.data[k] = e

\* Without faults, a file that nobody is writing is whole: of several runs that
\* all found the file missing and emptied it under each other, the last one
\* mends what the others spoilt.
SettledFileIsWhole ==
    faults = 0 =>
        \A e \in Epochs :
            \/ ~cachefile[e].exists
            \/ Whole(cachefile[e], e)
            \/ \E r \in Runs : pc[r] = "write" /\ epoch(blockno[r]) = e

\* "reuse previously computed cache if it has already been computed" (main.cpp:76):
\* whatever the runs do to each other's file, and wherever one is killed, a run may
\* hash with bytes that are missing, never with those of another epoch.
NothingForeign ==
    \A r \in Runs : pc[r] = "hash" =>
        \A k \in 1..Chunks : light[r].data[k] \in {SeedEpoch(blockno[r]), NoData}

-----------------------------------------------------------------------------
(* A promise of the code's comments that TLC finds broken.                  *)

\* "if it has, read it into memory" (main.cpp:77): the cache a run hashes with is
\* the whole cache of the epoch of its block, computed or read.
CacheIsWhole ==
    \A r \in Runs : pc[r] = "hash" => Whole(light[r], SeedEpoch(blockno[r]))
=============================================================================
