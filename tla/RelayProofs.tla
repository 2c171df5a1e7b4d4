----------------------------- MODULE RelayProofs ------------------------------
(***************************************************************************)
(* What the relay's cache files keep, for any number of runs, of blocks and*)
(* of writes per cache, and what its Merkle proofs prove, for any block.   *)
(*                                                                         *)
(* The argument for the files.  Every write puts a chunk of the run's own  *)
(* cache at its own place, and a run computes the cache of the epoch that  *)
(* names its file: so a chunk of a file is of that epoch or missing        *)
(* (FilesPure), and what runs hold is what a file had (LightPure).  Without*)
(* faults, a chunk that is missing has a run that will yet write it        *)
(* (ChunksComing): the run that emptied the file last starts from the      *)
(* first chunk.                                                            *)
(*                                                                         *)
(* The argument for the proofs.  The loop takes the nibble of the path at  *)
(* the index of the node in the list.  As long as each node passed is one  *)
(* nibble deep, index and depth are the same, and the node at hand begins  *)
(* the path as well as the key that is proved (Walked).  A branch is one   *)
(* nibble deep.  An extension of one nibble is followed by a branch, since *)
(* no key begins another (KeysApart) and what the keys under it share is   *)
(* the longest that they share (BelowExtension).  A leaf has one key under *)
(* it, which both keys are then.                                           *)
(***************************************************************************)
EXTENDS Relay, FiniteSetTheorems, SequenceTheorems, WellFoundedInduction, TLAPS

FilesPure ==
    \A e \in Epochs : \A k \in 1..Chunks : cachefile[e].data[k] \in {e, NoData}

\* The cache of a run that has computed or read it.
LightPure ==
    \A r \in Runs :
        /\ pc[r] \in {"open", "write"} =>
              \A k \in 1..Chunks : light[r].data[k] = epoch(blockno[r])
        /\ pc[r] = "hash" =>
              \A k \in 1..Chunks : light[r].data[k] \in {epoch(blockno[r]), NoData}

\* A run that writes has a chunk left, and has created its file.
WritersHaveMore ==
    \A r \in Runs : pc[r] = "write" =>
        offset[r] < Chunks /\ cachefile[epoch(blockno[r])].exists

\* Chunk k of the file of epoch e is there for good, or on its way.
ChunkThere(e, k) == cachefile[e].size >= k /\ cachefile[e].data[k] = e
ChunkComing(e, k) ==
    \E r \in Runs : pc[r] = "write" /\ epoch(blockno[r]) = e /\ offset[r] < k

ChunksComing ==
    faults = 0 => \A e \in Epochs : cachefile[e].exists =>
                      \A k \in 1..Chunks : ChunkThere(e, k) \/ ChunkComing(e, k)

IInv == TypeOK /\ FilesPure /\ LightPure /\ WritersHaveMore /\ ChunksComing

-----------------------------------------------------------------------------
\* The file is named by the epoch its contents are computed for (main.cpp:82 and
\* internal.c:318 divide by the same number).
LEMMA EpochIsSeedEpoch == \A b : SeedEpoch(b) = epoch(b)
  BY DEF SeedEpoch, epoch

LEMMA EpochIsOne == ASSUME NEW b \in BlockNumbers PROVE epoch(b) \in Epochs /\ epoch(b) \in Nat
  BY RelayAssumption DEF Epochs, epoch

LEMMA BlankType == Blank \in Bytes
  BY DEF Blank, Bytes

LEMMA InitIInv == Init => IInv
<1> SUFFICES ASSUME Init PROVE IInv
  OBVIOUS
<1>1. TypeOK
  BY BlankType, RelayAssumption DEF Init, TypeOK, Missing, NoLight
<1>2. FilesPure /\ ChunksComing
  BY DEF Init, FilesPure, ChunksComing, Missing, Blank
<1>3. LightPure /\ WritersHaveMore
  BY DEF Init, LightPure, WritersHaveMore
<1> QED BY <1>1, <1>2, <1>3 DEF IInv

-----------------------------------------------------------------------------
(* The steps of a run that leave the files alone.                            *)

LEMMA ReadingSteps ==
  ASSUME IInv, NEW r \in Runs, Access(r) \/ Measure(r) \/ Read(r) \/ Compute(r)
  PROVE  IInv'
<1> USE DEF IInv
<1>1. UNCHANGED <<cachefile, blockno, offset, faults>>
  BY DEF Access, Measure, Read, Compute
<1>2. pc[r] # "idle" /\ blockno[r] \in BlockNumbers /\ epoch(blockno[r]) \in Epochs
  BY RelayAssumption, EpochIsOne DEF Access, Measure, Read, Compute, TypeOK
<1>3. /\ File(r).size \in 0..Chunks /\ File(r).data \in Bytes
      /\ \A k \in 1..Chunks : File(r).data[k] \in {epoch(blockno[r]), NoData}
  BY <1>2 DEF TypeOK, FilesPure, File
<1>4. TypeOK'
  <2>1. CASE Access(r)
    BY <2>1 DEF Access, Goto, TypeOK
  <2>2. CASE Measure(r)
    BY <2>2, <1>3, BlankType DEF Measure, Goto, TypeOK
  <2>3. CASE Read(r)
    <3>1. [k \in 1..Chunks |-> IF k <= light[r].size /\ k <= File(r).size
                               THEN File(r).data[k] ELSE NoData] \in Bytes
      BY <1>3 DEF Bytes
    <3> QED BY <2>3, <3>1 DEF Read, Goto, TypeOK
  <2>4. CASE Compute(r)
    <3>1. Cache(blockno[r]) \in Bytes
      BY <1>2 DEF Cache, Bytes
    <3> QED BY <2>4, <3>1, RelayAssumption DEF Compute, Goto, TypeOK
  <2> QED BY <2>1, <2>2, <2>3, <2>4
<1>5. FilesPure' /\ WritersHaveMore'
  BY <1>1 DEF FilesPure, WritersHaveMore, Access, Measure, Read, Compute, Goto, TypeOK
<1>6. LightPure'
  <2>1. CASE Access(r) \/ Measure(r)
    BY <2>1 DEF Access, Measure, Goto, TypeOK, LightPure
  <2>2. CASE Read(r)
    BY <2>2, <1>3 DEF Read, Goto, TypeOK, LightPure
  <2>3. CASE Compute(r)
    BY <2>3, EpochIsSeedEpoch DEF Compute, Cache, Goto, TypeOK, LightPure
  <2> QED BY <2>1, <2>2, <2>3
<1>7. ChunksComing'
  BY <1>1 DEF ChunksComing, ChunkThere, ChunkComing, Access, Measure, Read, Compute, Goto,
              TypeOK
<1> QED BY <1>4, <1>5, <1>6, <1>7

LEMMA RunBeginsOrEnds ==
  ASSUME IInv, NEW r \in Runs,
         \/ \E b \in BlockNumbers : Start(r, b)
         \/ Hash(r) \/ Crash(r) \/ WriteFails(r)
  PROVE  IInv'
<1> USE DEF IInv
<1>1. cachefile' = cachefile /\ faults' \in 0..MaxFaults
  BY RelayAssumption DEF Start, Hash, Crash, WriteFails, TypeOK
<1>2. TypeOK'
  <2>1. NoLight \in [size : 0..Chunks, data : Bytes] /\ 0 \in 0..Chunks
    BY BlankType, RelayAssumption DEF NoLight
  <2>2. CASE \E b \in BlockNumbers : Start(r, b)
    BY <2>2, <1>1, RelayAssumption DEF Start, Goto, TypeOK
  <2>3. CASE Hash(r)
    BY <2>3, <2>1, <1>1 DEF Hash, Goto, TypeOK
  <2>4. CASE Crash(r)
    BY <2>4, <2>1, <1>1 DEF Crash, Goto, TypeOK
  <2>5. CASE WriteFails(r)
    BY <2>5, <1>1 DEF WriteFails, Goto, TypeOK
  <2> QED BY <2>2, <2>3, <2>4, <2>5
<1>3. FilesPure' /\ WritersHaveMore'
  BY <1>1 DEF FilesPure, WritersHaveMore, Start, Hash, Crash, WriteFails, Goto, TypeOK
<1>4. LightPure'
  BY DEF LightPure, Start, Hash, Crash, WriteFails, Goto, TypeOK
<1>5. ChunksComing'
  <2>1. CASE Crash(r) \/ WriteFails(r)
    BY <2>1 DEF Crash, WriteFails, TypeOK, ChunksComing
  <2>2. CASE Hash(r) \/ \E b \in BlockNumbers : Start(r, b)
    <3>1. pc[r] # "write" /\ faults' = faults
      BY <2>2 DEF Hash, Start
    <3>2. \A q \in Runs : q # r =>
             pc'[q] = pc[q] /\ blockno'[q] = blockno[q] /\ offset'[q] = offset[q]
      BY <2>2 DEF Hash, Start, Goto, TypeOK
    <3>3. \A e \in Epochs : \A k \in 1..Chunks : ChunkComing(e, k) => ChunkComing(e, k)'
      BY <3>1, <3>2 DEF ChunkComing
    <3>4. \A e \in Epochs : \A k \in 1..Chunks : ChunkThere(e, k) => ChunkThere(e, k)'
      BY <1>1 DEF ChunkThere
    <3> QED BY <3>1, <3>3, <3>4, <1>1 DEF ChunksComing
  <2> QED BY <2>1, <2>2
<1> QED BY <1>2, <1>3, <1>4, <1>5

-----------------------------------------------------------------------------
(* The steps that change a file.                                             *)

LEMMA OpenStep == ASSUME IInv, NEW r \in Runs, Open(r) PROVE IInv'
<1> USE DEF IInv
<1>1. pc[r] = "open" /\ epoch(blockno[r]) \in Epochs
  BY RelayAssumption, EpochIsOne DEF Open, TypeOK
<1>2. TypeOK'
  <2>1. Emptied \in [exists : BOOLEAN, size : 0..Chunks, data : Bytes] /\ 0 \in 0..Chunks
    BY BlankType, RelayAssumption DEF Emptied
  <2> QED BY <2>1, <1>1 DEF Open, Goto, TypeOK
<1>3. FilesPure'
  BY <1>1 DEF FilesPure, Open, Emptied, Blank, TypeOK
<1>4. LightPure' /\ WritersHaveMore'
  <2>1. LightPure'
    BY <1>1 DEF LightPure, Open, Goto, TypeOK
  <2>2. ASSUME NEW e \in Epochs, cachefile[e].exists PROVE cachefile'[e].exists
    BY <1>1, <2>2 DEF Open, Emptied, TypeOK
  <2>3. ASSUME NEW q \in Runs, pc'[q] = "write"
        PROVE  offset'[q] < Chunks /\ cachefile'[epoch(blockno'[q])].exists
    <3>1. CASE q = r
      <4>1. offset'[r] = 0 /\ 0 < Chunks
        BY RelayAssumption DEF Open, TypeOK
      <4>2. cachefile'[epoch(blockno'[r])] = Emptied
        BY <1>1 DEF Open, TypeOK
      <4> QED BY <3>1, <4>1, <4>2 DEF Emptied
    <3>2. CASE q # r
      <4>1. pc[q] = "write" /\ offset'[q] = offset[q] /\ blockno' = blockno
        BY <2>3, <3>2 DEF Open, Goto, TypeOK
      <4>2. offset[q] < Chunks /\ cachefile[epoch(blockno[q])].exists
        BY <4>1 DEF WritersHaveMore
      <4>3. epoch(blockno[q]) \in Epochs
        BY <4>1, RelayAssumption, EpochIsOne DEF TypeOK
      <4> QED BY <4>1, <4>2, <4>3, <2>2
    <3> QED BY <3>1, <3>2
  <2> QED BY <2>1, <2>3 DEF WritersHaveMore
\* The run is about to write every chunk of the file it has emptied.
<1>5. ChunksComing'
  <2> SUFFICES ASSUME faults = 0, NEW e \in Epochs, cachefile'[e].exists,
                      NEW k \in 1..Chunks
               PROVE  ChunkThere(e, k)' \/ ChunkComing(e, k)'
    BY DEF ChunksComing, Open
  <2>1. CASE e = epoch(blockno[r])
    BY <2>1 DEF ChunkComing, Open, Goto, TypeOK
  <2>2. CASE e # epoch(blockno[r])
    <3>1. ChunkThere(e, k) \/ ChunkComing(e, k)
      BY <2>2 DEF ChunksComing, Open, TypeOK
    <3> QED BY <3>1, <2>2, <1>1 DEF ChunkThere, ChunkComing, Open, Goto, TypeOK
  <2> QED BY <2>1, <2>2
<1> QED BY <1>2, <1>3, <1>4, <1>5

LEMMA WriteStep == ASSUME IInv, NEW r \in Runs, Write(r) PROVE IInv'
<1> USE DEF IInv
<1> DEFINE n == offset[r] + 1
           E == epoch(blockno[r])
           f == cachefile[E]
           g == [exists |-> TRUE, size |-> IF n > f.size THEN n ELSE f.size,
                 data |-> [f.data EXCEPT ![n] = light[r].data[n]]]
<1>1. /\ pc[r] = "write" /\ E \in Epochs /\ n \in 1..Chunks
      /\ f.size \in 0..Chunks /\ f.data \in Bytes /\ light[r].data[n] = E
      /\ f.exists
  BY RelayAssumption, EpochIsOne DEF Write, TypeOK, WritersHaveMore, LightPure
<1>2. /\ cachefile' = [cachefile EXCEPT ![E] = g]
      /\ offset' = [offset EXCEPT ![r] = n]
      /\ pc' = [pc EXCEPT ![r] = IF n >= Chunks THEN "hash" ELSE "write"]
      /\ UNCHANGED <<blockno, light, faults>>
  BY DEF Write, Goto, Written
<1>3. g \in [exists : BOOLEAN, size : 0..Chunks, data : Bytes]
  BY <1>1, EpochIsSeedEpoch, RelayAssumption DEF Bytes, Epochs
<1>4. /\ g.exists /\ g.size >= n /\ g.size >= f.size
      /\ \A k \in 1..Chunks : g.data[k] = IF k = n THEN E ELSE f.data[k]
  <2>1. g.exists /\ \A k \in 1..Chunks : g.data[k] = IF k = n THEN E ELSE f.data[k]
    BY <1>1 DEF Bytes
  <2>2. f.size \in Nat /\ n \in Nat
    BY <1>1, RelayAssumption
  <2>3. g.size = IF n > f.size THEN n ELSE f.size
    OBVIOUS
  <2> HIDE DEF n, f, g
  <2>4. g.size >= n /\ g.size >= f.size
    BY <2>2, <2>3
  <2> QED BY <2>1, <2>4
<1> HIDE DEF n, E, f, g
<1>5. TypeOK'
  BY <1>1, <1>2, <1>3 DEF TypeOK
<1>6. FilesPure'
  BY <1>1, <1>2, <1>4 DEF TypeOK, FilesPure, f
<1>7. LightPure' /\ WritersHaveMore'
  <2>1. LightPure'
    BY <1>1, <1>2 DEF TypeOK, LightPure
  <2>2. ASSUME NEW q \in Runs, pc'[q] = "write"
        PROVE  offset'[q] < Chunks /\ cachefile'[epoch(blockno'[q])].exists
    <3>1. pc[q] = "write" /\ epoch(blockno[q]) \in Epochs
      BY <2>2, <1>1, <1>2, RelayAssumption, EpochIsOne DEF TypeOK
    <3>2. cachefile'[epoch(blockno'[q])].exists
      BY <3>1, <1>1, <1>2, <1>4 DEF TypeOK, WritersHaveMore
    <3>3. CASE q = r
      <4>1. offset'[q] = n /\ ~(n >= Chunks)
        BY <2>2, <3>3, <1>1, <1>2 DEF TypeOK
      <4>2. n \in Nat /\ Chunks \in Nat
        BY <1>1, RelayAssumption
      <4> QED BY <4>1, <4>2, <3>2
    <3>4. CASE q # r
      BY <3>1, <3>2, <3>4, <1>2 DEF TypeOK, WritersHaveMore
    <3> QED BY <3>3, <3>4
  <2> QED BY <2>1, <2>2 DEF WritersHaveMore
\* What it has not written yet, this run or another one still will; what was there
\* it leaves there.
<1>8. ChunksComing'
  <2> SUFFICES ASSUME faults = 0, NEW e \in Epochs, cachefile'[e].exists,
                      NEW k \in 1..Chunks
               PROVE  ChunkThere(e, k)' \/ ChunkComing(e, k)'
    BY <1>2 DEF ChunksComing
  <2>1. ChunkThere(e, k) \/ ChunkComing(e, k)
    BY <1>1, <1>2 DEF ChunksComing, TypeOK, f
  <2>2. CASE ChunkThere(e, k)
    <3>1. CASE e = E
      <4>1. cachefile'[e] = g /\ cachefile[e] = f
        BY <3>1, <1>1, <1>2 DEF TypeOK, f
      <4>2. f.size >= k /\ g.size >= f.size /\ g.data[k] = e
        BY <2>2, <3>1, <4>1, <1>4 DEF ChunkThere
      <4>3. f.size \in Nat /\ g.size \in Nat /\ k \in Nat
        BY <1>1, <1>3, RelayAssumption
      <4>4. g.size >= k
        BY <4>2, <4>3
      <4> QED BY <4>1, <4>2, <4>4 DEF ChunkThere
    <3>2. CASE e # E
      BY <2>2, <3>2, <1>2 DEF ChunkThere, TypeOK
    <3> QED BY <3>1, <3>2
  <2>3. CASE ChunkComing(e, k)
    <3>1. PICK q \in Runs : pc[q] = "write" /\ epoch(blockno[q]) = e /\ offset[q] < k
      BY <2>3 DEF ChunkComing
    <3>2. CASE q # r
      BY <3>1, <3>2, <1>2 DEF ChunkComing, TypeOK
    <3>3. CASE q = r /\ k = n
      <4>1. e = E /\ cachefile'[e] = g /\ g.data[k] = E /\ g.size >= k
        BY <3>1, <3>3, <1>1, <1>2, <1>4 DEF TypeOK, E
      <4> QED BY <4>1 DEF ChunkThere
    <3>4. CASE q = r /\ k # n
      <4>1. n < k /\ ~(n >= Chunks)
        <5>1. offset[r] \in Nat /\ k \in Nat /\ Chunks \in Nat /\ k <= Chunks
          BY RelayAssumption DEF TypeOK
        <5>2. offset[r] < k /\ k # offset[r] + 1
          BY <3>1, <3>4 DEF n
        <5> QED BY <5>1, <5>2 DEF n
      <4>2. pc'[r] = "write" /\ offset'[r] = n /\ epoch(blockno'[r]) = e
        BY <4>1, <3>1, <3>4, <1>1, <1>2 DEF TypeOK
      <4> QED BY <4>1, <4>2 DEF ChunkComing
    <3> QED BY <3>2, <3>3, <3>4
  <2> QED BY <2>1, <2>2, <2>3
<1> QED BY <1>5, <1>6, <1>7, <1>8

-----------------------------------------------------------------------------
LEMMA NextIInv == IInv /\ [Next]_vars => IInv'
<1> SUFFICES ASSUME IInv, [Next]_vars PROVE IInv'
  OBVIOUS
<1>1. CASE UNCHANGED vars
  BY <1>1 DEF vars, IInv, TypeOK, FilesPure, LightPure, WritersHaveMore, ChunksComing,
              ChunkThere, ChunkComing
<1>2. ASSUME NEW r \in Runs,
             \/ \E b \in BlockNumbers : Start(r, b)
             \/ compute_cache(r) \/ Hash(r) \/ Crash(r)
      PROVE  IInv'
  BY <1>2, ReadingSteps, RunBeginsOrEnds, OpenStep, WriteStep DEF compute_cache
<1> QED BY <1>1, <1>2 DEF Next

LEMMA Invariance == Spec => []IInv
  BY InitIInv, NextIInv, PTL DEF Spec

\* Every run and every file is well formed, for any number of runs.
THEOREM TypeCorrect == Spec => []TypeOK
<1>1. IInv => TypeOK
  BY DEF IInv
<1> QED BY <1>1, Invariance, PTL

\* Whatever interleaving of runs, crashes and failed writes: no run hashes with
\* bytes of another epoch (main.cpp:76-107, with internal.c:314-320).
THEOREM NeverForeign == Spec => []NothingForeign
<1>1. IInv => NothingForeign
  BY EpochIsSeedEpoch DEF IInv, LightPure, NothingForeign
<1> QED BY <1>1, Invariance, PTL

\* Without faults, a file that nobody is writing is the whole cache of its epoch,
\* however many runs have emptied and written it at the same time (main.cpp:94-98).
THEOREM FilesSettleWhole == Spec => []SettledFileIsWhole
<1>1. IInv => SettledFileIsWhole
  <2> SUFFICES ASSUME IInv, faults = 0, NEW e \in Epochs, cachefile[e].exists,
                      ~ \E r \in Runs : pc[r] = "write" /\ epoch(blockno[r]) = e
               PROVE  Whole(cachefile[e], e)
    BY DEF SettledFileIsWhole
  <2>1. \A k \in 1..Chunks : ChunkThere(e, k)
    BY DEF IInv, ChunksComing, ChunkComing
  <2>2. cachefile[e].size \in 0..Chunks /\ Chunks \in 1..Chunks
    BY RelayAssumption DEF IInv, TypeOK
  <2> QED BY <2>1, <2>2 DEF ChunkThere, Whole
<1> QED BY <1>1, Invariance, PTL

-----------------------------------------------------------------------------
(* The keys.                                                                 *)

\* How long a key is shows in its first two nibbles, as that of an rlp item does.
KeyLength(k) == IF k[1] # 8 \/ k[2] = 0 THEN 2 ELSE IF k[2] = 1 THEN 4 ELSE 6

LEMMA TwoNibbles ==
  ASSUME NEW n \in Nat
  PROVE  n \div 16 \in Nat /\ n % 16 \in Nat
  OBVIOUS

LEMMA TwoBytes ==
  ASSUME NEW n \in Nat
  PROVE  n \div 256 \in Nat /\ n % 256 \in Nat
  OBVIOUS

LEMMA PairFirst ==
  ASSUME NEW s \in Seq(Nat), Len(s) >= 2, NEW t \in Seq(Nat), NEW u, u = s \o t
  PROVE  u \in Seq(Nat) /\ Len(u) = Len(s) + Len(t) /\ u[1] = s[1] /\ u[2] = s[2]
<1>1. \A v \in 1..(Len(s) + Len(t)) : u[v] = IF v <= Len(s) THEN s[v] ELSE t[v - Len(s)]
  BY ConcatProperties, Zenon
<1>2. u \in Seq(Nat) /\ Len(u) = Len(s) + Len(t)
  BY ConcatProperties, Zenon
<1>3. Len(s) \in Nat /\ Len(t) \in Nat
  OBVIOUS
<1> DEFINE l == Len(s)
           k == Len(t)
<1>4. \A v \in 1..(l + k) : v <= l => u[v] = s[v]
  BY <1>1, Zenon
<1> HIDE DEF l, k
<1>5. l \in Nat /\ l >= 2 /\ k \in Nat
  BY <1>3 DEF l, k
<1>6. u[1] = s[1] /\ u[2] = s[2]
  BY <1>4, <1>5
<1> QED BY <1>2, <1>6

LEMMA PairIs ==
  ASSUME NEW a \in Nat, NEW b \in Nat
  PROVE  <<a, b>> \in Seq(Nat) /\ Len(<<a, b>>) = 2 /\ <<a, b>>[1] = a /\ <<a, b>>[2] = b
  OBVIOUS

LEMMA NibblesType ==
  ASSUME NEW n \in Nat
  PROVE  Nibbles(n) \in Seq(Nat) /\ Len(Nibbles(n)) = 2
<1>1. n \div 16 \in Nat /\ n % 16 \in Nat
  BY TwoNibbles
<1> QED BY <1>1, PairIs, Zenon DEF Nibbles

LEMMA LowNibble ==
  ASSUME NEW n \in Nat, n < 128
  PROVE  Nibbles(n)[1] # 8
<1>1. n \div 16 # 8
  OBVIOUS
<1>2. n \div 16 \in Nat /\ n % 16 \in Nat
  BY TwoNibbles
<1>3. Nibbles(n)[1] = n \div 16
  BY <1>2, PairIs, Zenon DEF Nibbles
<1> QED BY <1>1, <1>3, Zenon

LEMMA PrefixBytes == Nibbles(128) = <<8, 0>> /\ Nibbles(129) = <<8, 1>> /\ Nibbles(130) = <<8, 2>>
<1>1. 128 \div 16 = 8 /\ 128 % 16 = 0
  OBVIOUS
<1>2. 129 \div 16 = 8 /\ 129 % 16 = 1
  OBVIOUS
<1>3. 130 \div 16 = 8 /\ 130 % 16 = 2
  OBVIOUS
<1> QED BY <1>1, <1>2, <1>3, Zenon DEF Nibbles

LEMMA KeyShape ==
  ASSUME NEW n \in Nat
  PROVE  Key(n) \in Seq(Nat) /\ Len(Key(n)) = KeyLength(Key(n)) /\ Len(Key(n)) >= 2
<1>1. n \in Nat
  OBVIOUS
<1>2. CASE n = 0
  <2>1. Key(n) = <<8, 0>>
    BY <1>2, PrefixBytes DEF Key
  <2> QED BY <2>1 DEF KeyLength
<1>3. CASE n # 0 /\ n < 128
  <2>1. Key(n) = Nibbles(n)
    BY <1>3, Zenon DEF Key
  <2>2. n < 128
    BY <1>1, <1>3
  <2>3. Key(n)[1] # 8 /\ Key(n) \in Seq(Nat) /\ Len(Key(n)) = 2
    BY <1>1, <2>1, <2>2, LowNibble, NibblesType, Zenon
  <2> QED BY <2>3 DEF KeyLength
<1>4. CASE n >= 128 /\ n < 256
  <2>1. n # 0 /\ ~(n < 128) /\ n < 256
    BY <1>1, <1>4
  <2>2. Key(n) = <<8, 1>> \o Nibbles(n)
    BY <2>1, PrefixBytes, Zenon DEF Key
  <2>3. Key(n) \in Seq(Nat) /\ Len(Key(n)) = 4 /\ Key(n)[1] = 8 /\ Key(n)[2] = 1
    <3> DEFINE s == <<8, 1>>
    <3>1. s \in Seq(Nat) /\ Len(s) = 2 /\ s[1] = 8 /\ s[2] = 1
      OBVIOUS
    <3>2. Nibbles(n) \in Seq(Nat) /\ Len(Nibbles(n)) = 2
      BY <1>1, NibblesType, Zenon
    <3> HIDE DEF s
    <3>3. Key(n) = s \o Nibbles(n)
      BY <2>2, Zenon DEF s
    <3>4. Len(s) >= 2
      BY <3>1
    <3>5. /\ Key(n) \in Seq(Nat) /\ Len(Key(n)) = Len(s) + Len(Nibbles(n))
          /\ Key(n)[1] = s[1] /\ Key(n)[2] = s[2]
      BY <3>1, <3>2, <3>3, <3>4, PairFirst, Zenon
    <3> QED BY <3>1, <3>2, <3>5
  <2> QED BY <2>3 DEF KeyLength
<1>5. CASE n >= 256
  <2> DEFINE s == <<8, 2>>
             x == Nibbles(n \div 256)
             y == Nibbles(n % 256)
  <2>1. n # 0 /\ ~(n < 128) /\ ~(n < 256)
    BY <1>1, <1>5
  <2>2. Key(n) = (s \o x) \o y
    BY <2>1, PrefixBytes, Zenon DEF Key
  <2>3. n \div 256 \in Nat /\ n % 256 \in Nat
    BY <1>1, TwoBytes, Zenon
  <2>4. x \in Seq(Nat) /\ Len(x) = 2 /\ y \in Seq(Nat) /\ Len(y) = 2
    BY <2>3, NibblesType, Zenon
  <2>5. s \in Seq(Nat) /\ Len(s) = 2 /\ s[1] = 8 /\ s[2] = 2
    OBVIOUS
  <2> HIDE DEF s, x, y
  <2> DEFINE z == s \o x
  <2>6. Key(n) = z \o y
    BY <2>2, Zenon
  <2> HIDE DEF z
  <2>7. z = s \o x
    BY DEF z
  <2>8. z \in Seq(Nat) /\ Len(z) = 4 /\ z[1] = 8 /\ z[2] = 2
    <3>1. Len(s) >= 2
      BY <2>5
    <3>2. z \in Seq(Nat) /\ Len(z) = Len(s) + Len(x) /\ z[1] = s[1] /\ z[2] = s[2]
      BY <2>4, <2>5, <2>7, <3>1, PairFirst, Zenon
    <3> QED BY <2>4, <2>5, <3>2
  <2>9. Key(n) \in Seq(Nat) /\ Len(Key(n)) = 6 /\ Key(n)[1] = 8 /\ Key(n)[2] = 2
    <3>1. Len(z) >= 2
      BY <2>8
    <3>2. /\ Key(n) \in Seq(Nat) /\ Len(Key(n)) = Len(z) + Len(y)
          /\ Key(n)[1] = z[1] /\ Key(n)[2] = z[2]
      BY <2>4, <2>6, <2>8, <3>1, PairFirst, Zenon
    <3> QED BY <2>4, <2>8, <3>2
  <2> QED BY <2>9 DEF KeyLength
<1> QED BY <1>1, <1>2, <1>3, <1>4, <1>5

\* So no key begins another.
LEMMA KeysApart ==
  ASSUME NEW j \in Seq(Nat), NEW k \in Seq(Nat), Len(j) = KeyLength(j), Len(k) = KeyLength(k),
         Len(j) >= 2, IsPrefix(j, k)
  PROVE  Len(j) = Len(k)
<1>1. SubSeq(j, 1, Len(j)) = SubSeq(k, 1, Len(j)) /\ Len(j) <= Len(k)
  BY DEF IsPrefix
<1>2. j[1] = k[1] /\ j[2] = k[2]
  <2>1. SubSeq(j, 1, Len(j))[1] = j[1] /\ SubSeq(j, 1, Len(j))[2] = j[2]
    OBVIOUS
  <2>2. SubSeq(k, 1, Len(j))[1] = k[1] /\ SubSeq(k, 1, Len(j))[2] = k[2]
    BY <1>1
  <2> QED BY <1>1, <2>1, <2>2
<1> QED BY <1>2 DEF KeyLength

\* What is known of the keys of a block.
Keys == /\ IsFiniteSet(keys) /\ keys \subseteq Seq(Nat)
        /\ \A k \in keys : Len(k) = KeyLength(k) /\ Len(k) >= 2

-----------------------------------------------------------------------------
(* Prefixes.                                                                 *)

LEMMA SeqsEqual ==
  ASSUME NEW S, NEW a \in Seq(S), NEW b \in Seq(S), Len(a) = Len(b),
         \A n \in 1..Len(a) : a[n] = b[n]
  PROVE  a = b
<1>1. a \in [1..Len(a) -> S] /\ b \in [1..Len(b) -> S]
  OBVIOUS
<1> QED BY <1>1

\* To begin with p, all nibbles of p.
LEMMA PrefixIs ==
  ASSUME NEW p \in Seq(Nat), NEW k \in Seq(Nat)
  PROVE  /\ IsPrefix(p, k) <=> Len(p) <= Len(k) /\ \A n \in 1..Len(p) : p[n] = k[n]
         /\ IsPrefix(p, k) <=> Len(p) <= Len(k) /\ p = SubSeq(k, 1, Len(p))
<1>1. SubSeq(p, 1, Len(p)) = p
  OBVIOUS
<1>2. ASSUME Len(p) <= Len(k), p = SubSeq(k, 1, Len(p))
      PROVE  \A n \in 1..Len(p) : p[n] = k[n]
  BY <1>2
<1>3. ASSUME Len(p) <= Len(k), \A n \in 1..Len(p) : p[n] = k[n]
      PROVE  p = SubSeq(k, 1, Len(p))
  <2>1. /\ SubSeq(k, 1, Len(p)) \in Seq(Nat) /\ Len(SubSeq(k, 1, Len(p))) = Len(p)
        /\ \A n \in 1..Len(p) : SubSeq(k, 1, Len(p))[n] = k[n]
    BY <1>3
  <2> QED BY <1>3, <2>1, SeqsEqual
<1> QED BY <1>1, <1>2, <1>3 DEF IsPrefix

LEMMA Beginning ==
  ASSUME NEW k \in Seq(Nat), NEW n \in 0..Len(k)
  PROVE  /\ SubSeq(k, 1, n) \in Seq(Nat) /\ Len(SubSeq(k, 1, n)) = n
         /\ IsPrefix(SubSeq(k, 1, n), k)
         /\ \A x \in 1..n : SubSeq(k, 1, n)[x] = k[x]
<1> DEFINE p == SubSeq(k, 1, n)
<1>1. p \in Seq(Nat) /\ Len(p) = n
      /\ \A x \in 1..n : p[x] = k[x]
  OBVIOUS
<1>2. n <= Len(k)
  OBVIOUS
<1> HIDE DEF p
<1>3. IsPrefix(p, k)
  BY <1>1, <1>2, PrefixIs
<1> QED BY <1>1, <1>3 DEF p

LEMMA OneNibbleMore ==
  ASSUME NEW k \in Seq(Nat), NEW n \in 0..(Len(k) - 1)
  PROVE  /\ SubSeq(k, 1, n + 1) = Append(SubSeq(k, 1, n), k[n + 1])
         /\ Front(SubSeq(k, 1, n + 1)) = SubSeq(k, 1, n)
         /\ SubSeq(k, 1, n + 1) # <<>>
<1>1. n + 1 \in 0..Len(k) /\ n \in 0..Len(k) /\ k[n + 1] \in Nat
  OBVIOUS
<1> DEFINE q == SubSeq(k, 1, n + 1)
           p == SubSeq(k, 1, n)
           a == Append(p, k[n + 1])
           f == SubSeq(q, 1, n)
<1>2. /\ q \in Seq(Nat) /\ Len(q) = n + 1 /\ p \in Seq(Nat) /\ Len(p) = n
      /\ \A x \in 1..(n + 1) : q[x] = k[x]
      /\ \A x \in 1..n : p[x] = k[x]
  BY <1>1, Beginning
<1>3. a \in Seq(Nat) /\ Len(a) = n + 1 /\ \A x \in 1..(n + 1) : a[x] = k[x]
  <2> HIDE DEF p
  <2> QED BY <1>1, <1>2
<1>4. f \in Seq(Nat) /\ Len(f) = n /\ \A x \in 1..n : f[x] = k[x]
  <2> HIDE DEF q
  <2> QED BY <1>1, <1>2
<1>5. Front(q) = f
  <2> HIDE DEF q
  <2>1. Len(q) - 1 = n
    BY <1>2
  <2> QED BY <2>1 DEF Front
<1> HIDE DEF p, q, a, f
<1>6. q = a
  BY <1>2, <1>3, SeqsEqual
<1>7. f = p
  BY <1>2, <1>4, SeqsEqual
<1>8. q # <<>>
  BY <1>2
<1> QED BY <1>5, <1>6, <1>7, <1>8 DEF p, q, a

-----------------------------------------------------------------------------
(* The trie.                                                                 *)

LEMMA UnderIs ==
  ASSUME Keys, NEW p \in Seq(Nat)
  PROVE  /\ IsFiniteSet(Under(p)) /\ Cardinality(Under(p)) \in Nat /\ Under(p) \subseteq keys
         /\ \A k \in Under(p) : k \in Seq(Nat) /\ IsPrefix(p, k)
<1>1. Under(p) \subseteq keys /\ \A k \in Under(p) : IsPrefix(p, k)
  BY DEF Under
<1>2. IsFiniteSet(Under(p))
  BY <1>1, FS_Subset DEF Keys
<1> QED BY <1>1, <1>2, FS_CardinalityType DEF Keys

\* The keys under a node go on behind it, if it is not a leaf.
LEMMA GoesOn ==
  ASSUME Keys, NEW p \in Seq(Nat), NEW k \in Under(p), ~IsLeaf(p)
  PROVE  Len(p) < Len(k)
<1> SUFFICES ASSUME ~(Len(p) < Len(k)) PROVE FALSE
  OBVIOUS
<1>1. k \in keys /\ k \in Seq(Nat) /\ IsPrefix(p, k)
  BY UnderIs
<1>2. Len(p) = Len(k) /\ p = SubSeq(k, 1, Len(k))
  <2>1. Len(p) <= Len(k) /\ p = SubSeq(k, 1, Len(p))
    BY <1>1, PrefixIs
  <2>2. Len(p) = Len(k)
    BY <1>1, <2>1
  <2> QED BY <2>1, <2>2
<1>3. p = k
  BY <1>1, <1>2
<1>4. ASSUME NEW j \in Under(p)
      PROVE  j = k
  <2>1. j \in keys /\ j \in Seq(Nat) /\ IsPrefix(k, j)
    BY <1>3, UnderIs
  <2>2. Len(k) = Len(j)
    BY <1>1, <2>1, KeysApart DEF Keys
  <2>3. k = SubSeq(j, 1, Len(k))
    BY <1>1, <2>1, PrefixIs
  <2> QED BY <2>1, <2>2, <2>3
<1>5. Under(p) = {k}
  BY <1>4
<1>6. Cardinality(Under(p)) = 1
  BY <1>5, FS_Singleton
<1> QED BY <1>6 DEF IsLeaf

LEMMA ImageFinite ==
  ASSUME NEW R, IsFiniteSet(R), NEW f, DOMAIN f = R
  PROVE  IsFiniteSet({f[x] : x \in R})
<1> DEFINE I == {f[x] : x \in R}
           h == [x \in R |-> f[x]]
<1>1. h \in Surjection(R, I)
  BY DEF Surjection
<1> HIDE DEF I, h
<1>2. IsFiniteSet(I)
  BY <1>1, FS_Surjection
<1> QED BY <1>2 DEF I

LEMMA NextIs ==
  ASSUME Keys, NEW p \in Seq(Nat), NEW k \in Under(p)
  PROVE  IsFiniteSet(NextNibbles(p)) /\ Cardinality(NextNibbles(p)) \in Nat \ {0}
<1> DEFINE f == [j \in Under(p) |-> j[Len(p) + 1]]
<1>1. NextNibbles(p) = {f[j] : j \in Under(p)}
  BY DEF NextNibbles
<1>2. IsFiniteSet({f[j] : j \in Under(p)})
  <2>1. DOMAIN f = Under(p) /\ IsFiniteSet(Under(p))
    BY UnderIs
  <2> HIDE DEF f
  <2> QED BY <2>1, ImageFinite
<1>3. NextNibbles(p) # {}
  BY DEF NextNibbles
<1>4. IsFiniteSet(NextNibbles(p))
  BY <1>1, <1>2
<1> QED BY <1>3, <1>4, FS_CardinalityType, FS_EmptySet

\* A node is one of three.
LEMMA ThreeKinds ==
  ASSUME Keys, NEW p \in Seq(Nat), NEW k \in Under(p), ~IsBranch(p), ~IsLeaf(p)
  PROVE  IsExtension(p)
<1>1. Cardinality(NextNibbles(p)) \in Nat \ {0}
  BY NextIs
<1>2. ~(Cardinality(NextNibbles(p)) > 1)
  BY DEF IsBranch
<1> QED BY <1>1, <1>2 DEF IsExtension

LEMMA LeastNumber ==
  ASSUME NEW S \in SUBSET Nat, S # {}
  PROVE  \E m \in S : \A k \in S : m <= k
<1>1. IsWellFoundedOn(OpToRel(<, Nat), Nat)
  BY NatLessThanWellFounded
<1>2. PICK m \in S : \A k \in S : ~(<<k, m>> \in OpToRel(<, Nat))
  BY <1>1, WFMin
<1>3. \A k \in S : ~(k < m)
  BY <1>2 DEF OpToRel
<1> QED BY <1>3

\* What begins every key under p, and is the longest that does.
LEMMA SharedIs ==
  ASSUME Keys, NEW p \in Seq(Nat), NEW k \in Under(p)
  PROVE  /\ Shared(p) \in Seq(Nat) /\ \A j \in Under(p) : IsPrefix(Shared(p), j)
         /\ \A q \in Seq(Nat) : (\A j \in Under(p) : IsPrefix(q, j)) => Len(q) <= Len(Shared(p))
<1> DEFINE C == CommonPrefixes(Under(p))
<1>1. \A j \in Under(p) : j \in Seq(Nat)
  BY UnderIs
<1>2. ASSUME NEW q \in C
      PROVE  q \in Seq(Nat) /\ \A j \in Under(p) : IsPrefix(q, j)
  <2>1. PICK s \in Under(p) : q \in Prefixes(s)
    BY DEF CommonPrefixes
  <2>2. PICK l \in 0..Len(s) : q = SubSeq(s, 1, l)
    BY <2>1 DEF Prefixes
  <2>3. q \in Seq(Nat)
    BY <1>1, <2>2, Beginning
  <2> QED BY <2>3 DEF CommonPrefixes
<1>3. ASSUME NEW q \in Seq(Nat), \A j \in Under(p) : IsPrefix(q, j)
      PROVE  q \in C
  <2>1. Len(q) <= Len(k) /\ q = SubSeq(k, 1, Len(q)) /\ Len(q) \in Nat
    BY <1>1, <1>3, PrefixIs
  <2>2. Len(q) \in 0..Len(k)
    BY <1>1, <2>1
  <2>3. q \in Prefixes(k)
    BY <2>1, <2>2 DEF Prefixes
  <2> QED BY <1>3, <2>3 DEF CommonPrefixes
<1>4. p \in C
  BY <1>3, UnderIs
<1> HIDE DEF C
<1> DEFINE N == {Len(k) - Len(q) : q \in C}
<1>5. N \in SUBSET Nat /\ N # {}
  <2>1. ASSUME NEW q \in C PROVE Len(k) - Len(q) \in Nat
    <3>1. Len(q) <= Len(k) /\ Len(q) \in Nat /\ Len(k) \in Nat
      BY <1>1, <1>2 DEF IsPrefix
    <3> QED BY <3>1
  <2> QED BY <1>4, <2>1
<1>6. \E m \in N : \A n \in N : m <= n
  <2> HIDE DEF N
  <2> QED BY <1>5, LeastNumber
<1>7. \E longest \in C : \A other \in C : Len(other) <= Len(longest)
  <2>1. PICK longest \in C : \A other \in C : Len(k) - Len(longest) <= Len(k) - Len(other)
    BY <1>6
  <2>2. \A q \in C : Len(q) \in Nat
    BY <1>2
  <2>3. Len(k) \in Nat
    BY <1>1
  <2> QED BY <2>1, <2>2, <2>3
<1>8. Shared(p) = CHOOSE longest \in C : \A other \in C : Len(other) <= Len(longest)
  BY DEF Shared, LongestCommonPrefix, C
<1>9. Shared(p) \in C /\ \A other \in C : Len(other) <= Len(Shared(p))
  BY <1>7, <1>8
<1> QED BY <1>2, <1>3, <1>9

\* Below an extension of one nibble is a branch.
LEMMA BelowExtension ==
  ASSUME Keys, NEW p \in Seq(Nat), NEW k \in Under(p), ~IsLeaf(p), Len(Shared(p)) = Len(p) + 1
  PROVE  Shared(p) = SubSeq(k, 1, Len(p) + 1) /\ IsBranch(Shared(p))
<1> DEFINE q == Shared(p)
<1>1. /\ q \in Seq(Nat) /\ \A j \in Under(p) : IsPrefix(q, j)
      /\ \A r \in Seq(Nat) : (\A j \in Under(p) : IsPrefix(r, j)) => Len(r) <= Len(q)
  BY SharedIs
<1>2. Len(q) = Len(p) + 1
  OBVIOUS
<1> HIDE DEF q
<1>3. Under(p) \subseteq keys /\ \A j \in Under(p) : j \in Seq(Nat) /\ IsPrefix(p, j)
  BY UnderIs
<1>4. q = SubSeq(k, 1, Len(p) + 1)
  BY <1>1, <1>2, <1>3, PrefixIs
<1>5. Under(q) = Under(p)
  <2>1. Under(p) \subseteq Under(q)
    BY <1>1, <1>3 DEF Under
  <2>2. ASSUME NEW j \in Under(q) PROVE j \in Under(p)
    <3>1. j \in keys /\ j \in Seq(Nat) /\ IsPrefix(q, j)
      BY <1>1, UnderIs
    <3>2. Len(q) <= Len(j) /\ \A n \in 1..Len(q) : q[n] = j[n]
      BY <1>1, <3>1, PrefixIs
    <3>3. Len(p) <= Len(k) /\ \A n \in 1..Len(p) : p[n] = k[n]
      BY <1>3, PrefixIs
    <3>4. \A n \in 1..Len(q) : q[n] = k[n]
      BY <1>1, <1>3, PrefixIs
    <3>5. Len(p) \in Nat /\ Len(j) \in Nat
      BY <3>1
    <3>6. Len(p) <= Len(j) /\ \A n \in 1..Len(p) : p[n] = j[n]
      BY <1>2, <3>2, <3>3, <3>4, <3>5
    <3>7. IsPrefix(p, j)
      BY <3>1, <3>6, PrefixIs
    <3> QED BY <3>1, <3>7 DEF Under
  <2> QED BY <2>1, <2>2
<1>6. ~IsLeaf(q)
  BY <1>5 DEF IsLeaf
<1>7. IsBranch(q)
  <2> SUFFICES ASSUME ~IsBranch(q) PROVE FALSE
    OBVIOUS
  <2>1. IsExtension(q)
    BY <1>1, <1>5, <1>6, ThreeKinds
  <2>2. IsFiniteSet(NextNibbles(q)) /\ Cardinality(NextNibbles(q)) = 1
    BY <1>1, <1>5, <2>1, NextIs DEF IsExtension
  <2>3. PICK c : NextNibbles(q) = {c}
    BY <2>2, FS_Singleton
  <2>4. \A j \in Under(q) : j[Len(q) + 1] = c
    BY <2>3 DEF NextNibbles
  <2>5. \A j \in Under(q) : Len(q) < Len(j)
    BY <1>1, <1>6, GoesOn
  <2> DEFINE r == SubSeq(k, 1, Len(q) + 1)
  <2>6. Len(q) \in Nat /\ Len(q) + 1 \in 0..Len(k)
    <3>1. Len(q) \in Nat /\ Len(k) \in Nat /\ Len(q) < Len(k)
      BY <1>1, <1>3, <1>5, <2>5
    <3> QED BY <3>1
  <2>7. r \in Seq(Nat) /\ Len(r) = Len(q) + 1 /\ \A n \in 1..(Len(q) + 1) : r[n] = k[n]
    BY <1>3, <2>6, Beginning
  <2> HIDE DEF r
  <2>8. ASSUME NEW j \in Under(p) PROVE IsPrefix(r, j)
    <3>1. j \in Seq(Nat) /\ Len(j) \in Nat /\ Len(q) < Len(j)
      BY <1>3, <1>5, <2>5
    <3>2. \A n \in 1..Len(q) : q[n] = j[n] /\ q[n] = k[n]
      BY <1>1, <1>3, PrefixIs
    <3>3. j[Len(q) + 1] = k[Len(q) + 1]
      BY <1>5, <2>4
    <3>4. \A n \in 1..(Len(q) + 1) : r[n] = j[n]
      <4> TAKE n \in 1..(Len(q) + 1)
      <4>1. CASE n = Len(q) + 1
        BY <2>7, <3>3, <4>1
      <4>2. CASE n # Len(q) + 1
        <5>1. n \in 1..Len(q)
          BY <2>6, <4>2
        <5> QED BY <2>7, <3>2, <5>1
      <4> QED BY <4>1, <4>2
    <3>5. Len(r) <= Len(j)
      BY <2>6, <2>7, <3>1
    <3>6. \A n \in 1..Len(r) : r[n] = j[n]
      BY <2>7, <3>4
    <3> QED BY <2>7, <3>1, <3>5, <3>6, PrefixIs
  <2>9. Len(r) <= Len(q)
    BY <1>1, <2>7, <2>8
  <2> QED BY <2>6, <2>7, <2>9
<1> QED BY <1>4, <1>7 DEF q

-----------------------------------------------------------------------------
(* The nodes of a proof.                                                     *)

LEMMA BeforeIs ==
  ASSUME NEW D \in SUBSET Nat, IsFiniteSet(D), NEW n \in Nat
  PROVE  /\ IsFiniteSet(Before(D, n)) /\ Cardinality(Before(D, n)) \in Nat
         /\ n \in D => /\ Cardinality(Before(D, n + 1)) = Cardinality(Before(D, n)) + 1
                       /\ Cardinality(Before(D, n)) < Cardinality(D)
         /\ \A m \in Nat : m <= n => Cardinality(Before(D, m)) <= Cardinality(Before(D, n))
<1>1. Before(D, n) \subseteq D
  BY DEF Before
<1>2. IsFiniteSet(Before(D, n)) /\ Cardinality(Before(D, n)) \in Nat
  BY <1>1, FS_Subset, FS_CardinalityType
<1>3. ASSUME n \in D
      PROVE  Cardinality(Before(D, n + 1)) = Cardinality(Before(D, n)) + 1
  <2>1. Before(D, n + 1) = Before(D, n) \cup {n}
    <3>1. \A x \in D : x \in Nat /\ (x < n + 1 <=> x < n \/ x = n)
      OBVIOUS
    <3>2. \A x : x \in Before(D, n + 1) <=> x \in D /\ x < n + 1
      BY DEF Before
    <3>3. \A x : x \in Before(D, n) <=> x \in D /\ x < n
      BY DEF Before
    <3> QED BY <1>3, <3>1, <3>2, <3>3, Zenon
  <2>2. n \notin Before(D, n)
    BY DEF Before
  <2> QED BY <1>2, <2>1, <2>2, FS_AddElement
<1>4. ASSUME n \in D
      PROVE  Cardinality(Before(D, n)) < Cardinality(D)
  <2>1. Before(D, n + 1) \subseteq D
    BY DEF Before
  <2>2. Cardinality(Before(D, n + 1)) <= Cardinality(D)
    BY <2>1, FS_Subset
  <2>3. Cardinality(D) \in Nat
    BY FS_CardinalityType
  <2> QED BY <1>2, <1>3, <1>4, <2>2, <2>3
<1>5. ASSUME NEW m \in Nat, m <= n
      PROVE  Cardinality(Before(D, m)) <= Cardinality(Before(D, n))
  <2>1. Before(D, m) \subseteq Before(D, n)
    <3>1. \A x \in D : x \in Nat /\ (x < m => x < n)
      BY <1>5
    <3> QED BY <3>1 DEF Before
  <2> QED BY <1>2, <2>1, FS_Subset
<1> QED BY <1>2, <1>3, <1>4, <1>5

\* A depth is told by the number of those before it.
LEMMA OneOfRank ==
  ASSUME NEW D \in SUBSET Nat, IsFiniteSet(D), NEW m \in D, NEW n \in D,
         Cardinality(Before(D, m)) = Cardinality(Before(D, n))
  PROVE  m = n
<1>1. ASSUME NEW a \in D, NEW b \in D, a < b
      PROVE  Cardinality(Before(D, a)) # Cardinality(Before(D, b))
  <2>1. a \in Nat /\ b \in Nat /\ a + 1 \in Nat /\ a + 1 <= b
    BY <1>1
  <2>2. /\ Cardinality(Before(D, a)) \in Nat /\ Cardinality(Before(D, b)) \in Nat
        /\ Cardinality(Before(D, a + 1)) = Cardinality(Before(D, a)) + 1
    BY <2>1, BeforeIs
  <2>3. Cardinality(Before(D, a + 1)) <= Cardinality(Before(D, b))
    BY <2>1, BeforeIs
  <2> QED BY <2>2, <2>3
<1>2. m \in Nat /\ n \in Nat
  OBVIOUS
<1> QED BY <1>1, <1>2

LEMMA DepthsAre ==
  ASSUME NEW k \in Seq(Nat)
  PROVE  /\ Depths(k) \in SUBSET Nat /\ IsFiniteSet(Depths(k)) /\ Cardinality(Depths(k)) \in Nat
         /\ 0 \in Depths(k) /\ Cardinality(Before(Depths(k), 0)) = 0
         /\ \A n \in Depths(k) : n \in 0..Len(k)
<1>1. Len(k) \in Nat /\ SubSeq(k, 1, 0) = <<>>
  OBVIOUS
<1>2. Depths(k) \in SUBSET Nat /\ \A n \in Depths(k) : n \in 0..Len(k)
  BY <1>1 DEF Depths
<1>3. IsFiniteSet(Depths(k))
  <2>1. IsFiniteSet(0..Len(k))
    BY <1>1, FS_Interval
  <2> QED BY <1>2, <2>1, FS_Subset
<1>4. 0 \in Depths(k)
  BY <1>1 DEF Depths, IsNode
<1>5. Before(Depths(k), 0) = {}
  BY <1>2 DEF Before
<1> QED BY <1>2, <1>3, <1>4, <1>5, FS_CardinalityType, FS_EmptySet

\* Each depth has its node in the proof, at the place it has among the depths.
LEMMA ProofAt ==
  ASSUME NEW k \in Seq(Nat), NEW n \in Depths(k)
  PROVE  /\ Cardinality(Before(Depths(k), n)) + 1 \in DOMAIN Proof(k)
         /\ Proof(k)[Cardinality(Before(Depths(k), n)) + 1] = SubSeq(k, 1, n)
<1> DEFINE D == Depths(k)
           rank(m) == Cardinality(Before(D, m))
           place == rank(n) + 1
           at(j) == CHOOSE m \in D : rank(m) = j - 1
<1>1. D \in SUBSET Nat /\ IsFiniteSet(D) /\ Cardinality(D) \in Nat
  BY DepthsAre
<1>2. Proof(k) = [j \in 1..Cardinality(D) |-> SubSeq(k, 1, at(j))]
  BY DEF Proof
<1>3. rank(n) \in Nat /\ rank(n) < Cardinality(D)
  BY <1>1, BeforeIs
<1>4. place \in 1..Cardinality(D) /\ place - 1 = rank(n)
  BY <1>1, <1>3
<1>5. at(place) = n
  <2>1. n \in D /\ rank(n) = place - 1
    BY <1>4
  <2>2. \A m \in D : rank(m) = place - 1 => m = n
    BY <1>1, <1>4, OneOfRank
  <2> HIDE DEF D, place, rank
  <2> QED BY <2>1, <2>2
<1>6. place \in DOMAIN Proof(k) /\ Proof(k)[place] = SubSeq(k, 1, at(place))
  <2> HIDE DEF D, place, at
  <2> QED BY <1>2, <1>4
<1> QED BY <1>5, <1>6

LEMMA ProofLength ==
  ASSUME NEW k \in Seq(Nat)
  PROVE  Len(Proof(k)) = Cardinality(Depths(k)) /\ Len(Proof(k)) \in Nat
<1> DEFINE N == Cardinality(Depths(k))
<1>1. N \in Nat
  BY DepthsAre
<1>2. DOMAIN Proof(k) = 1..N
  BY DEF Proof
<1> DEFINE at(j) == SubSeq(k, 1, CHOOSE n \in Depths(k) : Cardinality(Before(Depths(k), n)) = j - 1)
<1>3. Proof(k) = [j \in 1..N |-> at(j)]
  BY DEF Proof
<1> HIDE DEF N, at
<1>4. Len(Proof(k)) = N
  BY <1>1, <1>3
<1> QED BY <1>1, <1>4 DEF N

-----------------------------------------------------------------------------
(* The walk along a proof.                                                   *)

\* The list's node is on the way to the path, too, and as deep as the loop has come.
OnTheWay(d) ==
  /\ d \in Depths(proven) /\ Cardinality(Before(Depths(proven), d)) = d
  /\ d <= Len(path) /\ SubSeq(path, 1, d) = SubSeq(proven, 1, d)
Walked == result = "running" /\ i < Len(nodes) /\ Plain(path) => OnTheWay(i)

ProofIInv == Keys /\ ProofTypeOK /\ Walked /\ OnlyItsOwnProof

LEMMA ProofInitInv == ProofInit => ProofIInv
<1> SUFFICES ASSUME ProofInit PROVE ProofIInv
  OBVIOUS
<1>1. PICK n \in TxCounts :
         /\ keys = {Key(t) : t \in 0..(n - 1)}
         /\ \E t, u \in Samples : t < n /\ u < n /\ proven = Key(t) /\ path = Key(u)
  BY DEF ProofInit
<1>2. n \in Nat /\ Samples \subseteq Nat
  BY CountsAssumption
<1>3. Keys
  <2> DEFINE f == [t \in 0..(n - 1) |-> Key(t)]
  <2>1. keys = {f[t] : t \in 0..(n - 1)}
    BY <1>1
  <2>2. IsFiniteSet(keys)
    <3>1. IsFiniteSet(0..(n - 1)) /\ DOMAIN f = 0..(n - 1)
      BY <1>2, FS_Interval
    <3> HIDE DEF f
    <3> QED BY <2>1, <3>1, ImageFinite
  <2>3. ASSUME NEW k \in keys PROVE k \in Seq(Nat) /\ Len(k) = KeyLength(k) /\ Len(k) >= 2
    <3>1. PICK t \in 0..(n - 1) : k = Key(t)
      BY <1>1
    <3>2. t \in Nat
      BY <1>2
    <3> QED BY <3>1, <3>2, KeyShape, Zenon
  <2> QED BY <2>2, <2>3 DEF Keys
<1>4. proven \in keys /\ path \in keys
  <2>1. PICK t, u \in Samples : t < n /\ u < n /\ proven = Key(t) /\ path = Key(u)
    BY <1>1
  <2>2. t \in 0..(n - 1) /\ u \in 0..(n - 1)
    BY <1>2, <2>1
  <2> QED BY <1>1, <2>1, <2>2, Zenon
<1>5. nodes = Proof(proven) /\ i = 0 /\ result = "running"
  BY DEF ProofInit
<1>6. proven \in Seq(Nat) /\ path \in Seq(Nat)
  BY <1>3, <1>4 DEF Keys
<1>7. ProofTypeOK
  <2>1. Len(nodes) \in Nat
    BY <1>5, <1>6, ProofLength
  <2> QED BY <1>4, <1>5, <2>1 DEF ProofTypeOK
<1>8. OnTheWay(0)
  <2>1. SubSeq(path, 1, 0) = <<>> /\ SubSeq(proven, 1, 0) = <<>> /\ 0 <= Len(path)
    BY <1>6
  <2>2. 0 \in Depths(proven) /\ Cardinality(Before(Depths(proven), 0)) = 0
    BY <1>6, DepthsAre
  <2> QED BY <2>1, <2>2 DEF OnTheWay
<1> QED BY <1>3, <1>5, <1>7, <1>8 DEF ProofIInv, Walked, OnlyItsOwnProof

\* Where the loop is on the way, the node holds both keys, and is one of the path's.
LEMMA NodeOnTheWay ==
  ASSUME ProofIInv, OnTheWay(i)
  PROVE  /\ i \in Nat /\ proven \in Seq(Nat) /\ path \in Seq(Nat)
         /\ node = SubSeq(proven, 1, i) /\ node = SubSeq(path, 1, i)
         /\ node \in Seq(Nat) /\ Len(node) = i
         /\ proven \in Under(node) /\ path \in Under(node)
         /\ \E n \in DOMAIN Proof(path) : Proof(path)[n] = node
<1>1. proven \in keys /\ path \in keys /\ proven \in Seq(Nat) /\ path \in Seq(Nat) /\ nodes = Proof(proven)
  BY DEF ProofIInv, ProofTypeOK, Keys
<1>2. /\ i \in Depths(proven) /\ Cardinality(Before(Depths(proven), i)) = i
      /\ i <= Len(path) /\ SubSeq(path, 1, i) = SubSeq(proven, 1, i)
  BY DEF OnTheWay
<1>3. i \in Nat /\ i \in 0..Len(proven) /\ i \in 0..Len(path)
  <2>1. i \in 0..Len(proven) /\ Len(proven) \in Nat /\ Len(path) \in Nat
    BY <1>1, <1>2, DepthsAre
  <2> QED BY <1>2, <2>1
<1>4. node = SubSeq(proven, 1, i)
  BY <1>1, <1>2, ProofAt DEF node
<1>5. node \in Seq(Nat) /\ Len(node) = i /\ IsPrefix(node, proven) /\ IsPrefix(node, path)
  <2>1. /\ SubSeq(proven, 1, i) \in Seq(Nat) /\ Len(SubSeq(proven, 1, i)) = i
        /\ IsPrefix(SubSeq(proven, 1, i), proven)
    BY <1>1, <1>3, Beginning
  <2>2. IsPrefix(SubSeq(path, 1, i), path)
    BY <1>1, <1>3, Beginning
  <2> QED BY <1>2, <1>4, <2>1, <2>2
<1>6. proven \in Under(node) /\ path \in Under(node)
  BY <1>1, <1>5 DEF Under
<1>7. IsNode(SubSeq(path, 1, i))
  BY <1>2 DEF Depths
<1>8. i \in Depths(path)
  BY <1>3, <1>7 DEF Depths
<1>9. \E n \in DOMAIN Proof(path) : Proof(path)[n] = node
  BY <1>1, <1>2, <1>4, <1>8, ProofAt
<1> QED BY <1>1, <1>2, <1>3, <1>4, <1>5, <1>6, <1>9

\* Plain, of the node.
LEMMA PlainNode ==
  ASSUME ProofIInv, OnTheWay(i), Plain(path)
  PROVE  /\ IsExtension(node) => Len(Shared(node)) = Len(node) + 1
         /\ IsLeaf(node) => (Len(path) - Len(node)) % 2 = 0
<1>1. PICK n \in DOMAIN Proof(path) : Proof(path)[n] = node
  BY NodeOnTheWay
<1> QED BY <1>1, Zenon DEF Plain

\* Where the list goes on: both keys go on, and a node one nibble deeper is the next.
LEMMA BothGoOn ==
  ASSUME ProofIInv, OnTheWay(i), ~IsLeaf(node)
  PROVE  i \in 0..(Len(proven) - 1) /\ i \in 0..(Len(path) - 1)
<1>1. Keys
  BY DEF ProofIInv
<1>2. /\ i \in Nat /\ proven \in Seq(Nat) /\ path \in Seq(Nat) /\ node \in Seq(Nat) /\ Len(node) = i
      /\ proven \in Under(node) /\ path \in Under(node)
  BY NodeOnTheWay
<1>3. Len(node) < Len(proven) /\ Len(node) < Len(path)
  BY <1>1, <1>2, GoesOn
<1> QED BY <1>2, <1>3

LEMMA NextNode ==
  ASSUME ProofIInv, OnTheWay(i), ~IsLeaf(node), IsNode(SubSeq(proven, 1, i + 1))
  PROVE  /\ nodes[i + 2] = SubSeq(proven, 1, i + 1)
         /\ SubSeq(path, 1, i + 1) = SubSeq(proven, 1, i + 1) => OnTheWay(i + 1)
<1>1. nodes = Proof(proven)
  BY DEF ProofIInv, ProofTypeOK
<1>2. i \in Nat /\ proven \in Seq(Nat) /\ path \in Seq(Nat)
  BY NodeOnTheWay
<1>3. i + 1 \in 0..Len(proven) /\ i + 1 <= Len(path)
  <2>1. Len(proven) \in Nat /\ Len(path) \in Nat
    BY <1>2
  <2> QED BY <1>2, <2>1, BothGoOn
<1>4. i + 1 \in Depths(proven)
  BY <1>3 DEF Depths
<1>5. Cardinality(Before(Depths(proven), i + 1)) = i + 1
  <2>1. i \in Depths(proven) /\ Cardinality(Before(Depths(proven), i)) = i
    BY DEF OnTheWay
  <2>2. Depths(proven) \in SUBSET Nat /\ IsFiniteSet(Depths(proven))
    BY <1>2, DepthsAre
  <2> QED BY <1>2, <2>1, <2>2, BeforeIs
<1>6. nodes[(i + 1) + 1] = SubSeq(proven, 1, i + 1)
  BY <1>1, <1>2, <1>4, <1>5, ProofAt
<1>7. (i + 1) + 1 = i + 2
  BY <1>2
<1> QED BY <1>3, <1>4, <1>5, <1>6, <1>7 DEF OnTheWay

LEMMA BranchWalked ==
  ASSUME ProofIInv, Branch, result' = "running", Plain(path)
  PROVE  OnTheWay(i + 1)
<1>1. /\ result = "running" /\ i < Len(nodes) /\ IsBranch(node) /\ SelectsNext
  BY DEF Branch
<1>2. OnTheWay(i)
  BY <1>1 DEF ProofIInv, Walked
<1>3. /\ i \in Nat /\ proven \in Seq(Nat) /\ path \in Seq(Nat)
      /\ node = SubSeq(proven, 1, i) /\ node = SubSeq(path, 1, i)
  BY <1>2, NodeOnTheWay
<1>4. ~IsLeaf(node)
  BY <1>1 DEF IsBranch
<1>5. i \in 0..(Len(proven) - 1) /\ i \in 0..(Len(path) - 1)
  BY <1>2, <1>4, BothGoOn
<1>6. IsNode(SubSeq(proven, 1, i + 1))
  BY <1>1, <1>3, <1>5, OneNibbleMore DEF IsNode
<1>7. nodes[i + 2] = SubSeq(proven, 1, i + 1)
  BY <1>2, <1>4, <1>6, NextNode
<1>8. SubSeq(path, 1, i + 1) = Append(node, path[i + 1])
  BY <1>3, <1>5, OneNibbleMore
<1>9. SubSeq(path, 1, i + 1) = SubSeq(proven, 1, i + 1)
  BY <1>1, <1>7, <1>8 DEF SelectsNext, PathNibble
<1> QED BY <1>2, <1>4, <1>6, <1>9, NextNode

LEMMA FlagsAre ==
  /\ \A n : n % 2 = 0 => Flags(TRUE, n) = LEAF_FLAG
  /\ \A n : Flags(FALSE, n) # LEAF_FLAG
  BY DEF Flags, LEAF_FLAG

LEMMA ExtensionWalked ==
  ASSUME ProofIInv, Extension, Plain(path)
  PROVE  OnTheWay(i + 1)
<1>1. result = "running" /\ i < Len(nodes) /\ ~IsBranch(node) /\ FirstByte(node) # LEAF_FLAG
  BY DEF Extension
<1>2. OnTheWay(i) /\ Keys
  BY <1>1 DEF ProofIInv, Walked
<1>3. /\ node \in Seq(Nat) /\ Len(node) = i /\ path \in Under(node) /\ proven \in Under(node)
  BY <1>2, NodeOnTheWay
<1>4. ~IsLeaf(node)
  <2> SUFFICES ASSUME IsLeaf(node) PROVE FALSE
    OBVIOUS
  <2>1. (CHOOSE k \in Under(node) : TRUE) = path
    <3>1. IsFiniteSet(Under(node)) /\ Cardinality(Under(node)) = 1
      BY <1>2, <1>3, UnderIs DEF IsLeaf
    <3>2. PICK k : Under(node) = {k}
      BY <3>1, FS_Singleton
    <3> QED BY <1>3, <3>2
  <2>2. (Len(path) - Len(node)) % 2 = 0
    BY <1>2, PlainNode
  <2>3. FirstByte(node) = Flags(TRUE, Len(path) - Len(node))
    BY <2>1 DEF FirstByte
  <2> QED BY <1>1, <2>2, <2>3, FlagsAre, Zenon
<1>5. IsExtension(node)
  BY <1>1, <1>2, <1>3, <1>4, ThreeKinds
<1>6. Len(Shared(node)) = Len(node) + 1
  BY <1>2, <1>5, PlainNode
<1>7. /\ Shared(node) = SubSeq(proven, 1, i + 1) /\ Shared(node) = SubSeq(path, 1, i + 1)
      /\ IsBranch(Shared(node))
  BY <1>2, <1>3, <1>4, <1>6, BelowExtension
<1>8. IsNode(SubSeq(proven, 1, i + 1))
  BY <1>7 DEF IsNode
<1> QED BY <1>2, <1>4, <1>7, <1>8, NextNode

LEMMA LeafIsOwn ==
  ASSUME ProofIInv, Leaf, Plain(path)
  PROVE  proven = path
<1>1. result = "running" /\ i < Len(nodes) /\ FirstByte(node) = LEAF_FLAG
  BY DEF Leaf
<1>2. OnTheWay(i) /\ Keys
  BY <1>1 DEF ProofIInv, Walked
<1>3. /\ node \in Seq(Nat) /\ path \in Under(node) /\ proven \in Under(node)
  BY <1>2, NodeOnTheWay
<1>4. IsLeaf(node)
  BY <1>1, FlagsAre, Zenon DEF FirstByte
<1>5. IsFiniteSet(Under(node)) /\ Cardinality(Under(node)) = 1
  BY <1>2, <1>3, <1>4, UnderIs DEF IsLeaf
<1>6. PICK k : Under(node) = {k}
  BY <1>5, FS_Singleton
<1> QED BY <1>3, <1>6

\* The block and the arguments stay what they are.
Given == <<keys, proven, nodes, path>>

LEMMA SameTrie ==
  ASSUME UNCHANGED Given
  PROVE  /\ Keys' <=> Keys
         /\ Plain(path)' <=> Plain(path)
         /\ \A d : OnTheWay(d)' <=> OnTheWay(d)
         /\ Proof(proven)' = Proof(proven)
<1>1. keys' = keys /\ proven' = proven /\ nodes' = nodes /\ path' = path
  BY DEF Given
<1>2. Keys' <=> Keys
  BY <1>1 DEF Keys
<1>3. Plain(path)' <=> Plain(path)
  BY <1>1 DEF Plain, Proof, Depths, IsNode, IsBranch, IsExtension, IsLeaf, NextNibbles, Shared, Under
<1>4. Depths(proven)' = Depths(proven) /\ Proof(proven)' = Proof(proven)
  BY <1>1 DEF Proof, Depths, IsNode, IsBranch, IsLeaf, NextNibbles, Under
<1>5. \A d : OnTheWay(d)' <=> OnTheWay(d)
  BY <1>1, <1>4 DEF OnTheWay
<1> QED BY <1>2, <1>3, <1>4, <1>5

LEMMA ProofNextInv == ProofIInv /\ [ProofNext]_proofVars => ProofIInv'
<1> SUFFICES ASSUME ProofIInv, [ProofNext]_proofVars PROVE ProofIInv'
  OBVIOUS
<1>1. UNCHANGED Given
  BY DEF ProofNext, Branch, Leaf, Extension, NoReturn, proofVars, Given
<1>2. /\ Keys' /\ (Plain(path)' <=> Plain(path)) /\ (\A d : OnTheWay(d)' <=> OnTheWay(d))
      /\ Proof(proven)' = Proof(proven) /\ nodes' = nodes /\ proven' = proven /\ path' = path /\ keys' = keys
  BY <1>1, SameTrie DEF ProofIInv, Given
<1>3. /\ nodes = Proof(proven) /\ proven \in keys /\ path \in keys /\ i \in 0..Len(nodes)
      /\ Len(nodes) \in Nat
  <2>1. proven \in Seq(Nat) /\ nodes = Proof(proven)
    BY DEF ProofIInv, ProofTypeOK, Keys
  <2> QED BY <2>1, ProofLength DEF ProofIInv, ProofTypeOK
<1>4. CASE Branch
  <2>1. i' = i + 1 /\ i < Len(nodes) /\ result' \in {"running", "assert", "undefined"}
    BY <1>4 DEF Branch, Advance
  <2>2. ProofTypeOK'
    <3>1. i + 1 \in 0..Len(nodes)
      BY <1>3, <2>1
    <3> QED BY <1>2, <1>3, <2>1, <3>1 DEF ProofTypeOK
  <2>3. Walked'
    BY <1>2, <1>4, <2>1, BranchWalked DEF Walked
  <2>4. OnlyItsOwnProof'
    BY <2>1 DEF OnlyItsOwnProof
  <2> QED BY <1>2, <2>2, <2>3, <2>4 DEF ProofIInv
<1>5. CASE Extension
  <2>1. i' = i + 1 /\ i < Len(nodes) /\ result' = "running"
    BY <1>5 DEF Extension, Advance
  <2>2. ProofTypeOK'
    <3>1. i + 1 \in 0..Len(nodes)
      BY <1>3, <2>1
    <3> QED BY <1>2, <1>3, <2>1, <3>1 DEF ProofTypeOK
  <2>3. Walked'
    BY <1>2, <1>5, <2>1, ExtensionWalked DEF Walked
  <2>4. OnlyItsOwnProof'
    BY <2>1 DEF OnlyItsOwnProof
  <2> QED BY <1>2, <2>2, <2>3, <2>4 DEF ProofIInv
<1>6. CASE Leaf
  <2>1. i' = i /\ result' = "returned"
    BY <1>6 DEF Leaf
  <2>2. ProofTypeOK' /\ Walked'
    BY <1>2, <1>3, <2>1 DEF ProofTypeOK, Walked
  <2>3. OnlyItsOwnProof'
    BY <1>2, <1>6, LeafIsOwn DEF OnlyItsOwnProof
  <2> QED BY <1>2, <2>2, <2>3 DEF ProofIInv
<1>7. CASE NoReturn
  <2>1. i' = i /\ result' = "noreturn"
    BY <1>7 DEF NoReturn
  <2>2. ProofTypeOK' /\ Walked' /\ OnlyItsOwnProof'
    BY <1>2, <1>3, <2>1 DEF ProofTypeOK, Walked, OnlyItsOwnProof
  <2> QED BY <1>2, <2>2 DEF ProofIInv
<1>8. CASE UNCHANGED proofVars
  <2>1. i' = i /\ result' = result
    BY <1>8 DEF proofVars
  <2>2. ProofTypeOK'
    BY <1>2, <1>3, <2>1 DEF ProofIInv, ProofTypeOK
  <2>3. Walked' /\ OnlyItsOwnProof'
    BY <1>2, <2>1 DEF ProofIInv, Walked, OnlyItsOwnProof
  <2> QED BY <1>2, <2>2, <2>3 DEF ProofIInv
<1> QED BY <1>4, <1>5, <1>6, <1>7, <1>8 DEF ProofNext

-----------------------------------------------------------------------------
(* The relay.                                                                *)

\* What main() does with the cache files is what RelayCache does: its theorems hold of
\* the relay (main.cpp:236 to :247).
THEOREM RelayIsCache == RelaySpec => Spec
<1>1. RelayInit => Init
  BY DEF RelayInit
<1>2. [RelayNext]_relayVars => [Next]_vars
  BY DEF RelayNext, relayVars, verify_block_header, merkle_proof
<1> QED BY <1>1, <1>2, PTL DEF RelaySpec, Spec

\* For any block of at most 65536 transactions: a transaction all of whose extensions
\* hold one nibble and whose leaf is even is proved by its own list of nodes only
\* (main.cpp:164 to :205).
THEOREM ProofIsAlwaysOwn == RelaySpec => []ProofIsOwn
<1> DEFINE I == command = "proof" => ProofIInv
<1>1. RelayInit => I
  BY ProofInitInv DEF RelayInit
<1>2. I /\ [RelayNext]_relayVars => I'
  <2> SUFFICES ASSUME I, [RelayNext]_relayVars, command' = "proof" PROVE ProofIInv'
    OBVIOUS
  <2>1. command = "proof" /\ [ProofNext]_proofVars
    BY DEF RelayNext, relayVars, verify_block_header, merkle_proof
  <2> QED BY <2>1, ProofNextInv
<1>3. I => ProofIsOwn
  BY DEF ProofIsOwn, ProofConsistent, ProofIInv
<1> QED BY <1>1, <1>2, <1>3, PTL DEF RelaySpec
=============================================================================
