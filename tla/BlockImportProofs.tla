-------------------------- MODULE BlockImportProofs --------------------------
(***************************************************************************)
(* The properties of BlockImportProps that hold of the block queue, its    *)
(* verifiers and the client's thread, for any blocks, parents, timestamps, *)
(* verifiers and bounds.                                                   *)
(*                                                                         *)
(* The inductive invariant IInv:                                           *)
(*   QueuesSound        no block is in the queues twice, and what is       *)
(*                      queued is ready or bad, also between two turns of  *)
(*                      updateBad_WITH_LOCK;                               *)
(*   LockTells          who holds the lock, and what is left to do;        *)
(*   SleepersSeeNothing no notify is missed;                               *)
(*   Unspoilt           as long as no block is bad: the ready set is what  *)
(*                      is queued, and every job runs;                     *)
(*   OneFate            as long as clear() is not called: the sets are     *)
(*                      disjoint;                                          *)
(*   ParentMissing      ... and who waits misses its parent;               *)
(*   DifficultyCovers   the difficulty covers what is held.                *)
(* None is inductive alone: that a verified block is ready (QueuesSound)   *)
(* is what keeps the statuses apart when a child of it is released; that a *)
(* block waits in its parent's list only (Waits) is what makes the release *)
(* complete.  One lemma ...Keeps per action of BlockImport.                *)
(*                                                                         *)
(* The order of the blocks needs Order beside IInv: that every drained     *)
(* block is still to be imported, in the chain or bad, that none of the    *)
(* queue is of the future, and that the worklist of noteReady_WITH_LOCK is *)
(* ready.  That the queue implements BlockStatus needs Told too: what is   *)
(* queued is not in the chain, and a block of the batch fails by itself or *)
(* with its parent, and is invalid or descends from an invalid one, as is  *)
(* all that falls with it (Doomed).                                        *)
(***************************************************************************)
EXTENDS BlockImportProps, TLAPS, FiniteSetTheorems, SequenceTheorems, WellFoundedInduction

-----------------------------------------------------------------------------
(* Removing elements from a sequence, and sequences without a repetition.  *)

\* The rank of a place among those kept: every number up to their count is the rank
\* of one place.
LEMMA RankFacts ==
  ASSUME NEW m \in Nat, NEW K \in SUBSET (1..m)
  PROVE  LET rank(i) == Cardinality({j \in K : j <= i})
         IN  /\ Cardinality(K) \in 0..m
             /\ \A i \in K : rank(i) \in 1..Cardinality(K)
             /\ \A i, j \in K : i < j => rank(i) < rank(j)
             /\ \A k \in 1..Cardinality(K) : \E i \in K : rank(i) = k
<1> DEFINE upTo(i) == {j \in K : j <= i}
           rank(i) == Cardinality(upTo(i))
           N == Cardinality(K)
<1>1. IsFiniteSet(1..m) /\ Cardinality(1..m) = m
  BY FS_Interval
<1>2. IsFiniteSet(K) /\ N \in Nat /\ N <= m
  BY <1>1, FS_Subset, FS_CardinalityType
<1>3. \A L \in SUBSET K : IsFiniteSet(L) /\ Cardinality(L) \in Nat /\ Cardinality(L) <= N
                            /\ (Cardinality(L) = 0 <=> L = {})
  BY <1>2, FS_Subset, FS_CardinalityType, FS_EmptySet
<1>4. \A i \in K : rank(i) \in 1..N
  <2> TAKE i \in K
  <2>1. upTo(i) \in SUBSET K /\ i \in upTo(i)
    OBVIOUS
  <2> HIDE DEF upTo
  <2>2. upTo(i) # {}
    BY <2>1
  <2> QED BY <1>2, <1>3, <2>1, <2>2
<1>5. \A i, j \in K : i < j => rank(i) < rank(j)
  <2> SUFFICES ASSUME NEW i \in K, NEW j \in K, i < j PROVE rank(i) < rank(j)
    OBVIOUS
  <2>0. K \in SUBSET Nat
    OBVIOUS
  <2>a. \A k \in K : k <= i => k <= j
    BY <2>0
  <2>b. upTo(i) \in SUBSET upTo(j) /\ upTo(j) \in SUBSET K
    BY <2>a
  <2>c. j \in upTo(j) /\ j \notin upTo(i)
    BY <2>0
  <2>1. upTo(i) \in SUBSET upTo(j) /\ j \in upTo(j) /\ j \notin upTo(i) /\ upTo(j) \in SUBSET K
    BY <2>b, <2>c
  <2> HIDE DEF upTo
  <2>2. IsFiniteSet(upTo(j)) /\ rank(j) \in Nat /\ rank(i) \in Nat
    BY <1>3, <2>1
  <2>3. rank(i) <= rank(j) /\ (rank(j) = rank(i) => upTo(j) = upTo(i))
    BY <2>1, <2>2, FS_Subset
  <2> QED BY <2>1, <2>2, <2>3
<1> HIDE DEF upTo
<1>6. \A k \in 1..N : \E i \in K : rank(i) = k
  <2> DEFINE f == [i \in K |-> rank(i)]
  <2> HIDE DEF rank, N
  <2>1. \A i, j \in K : f[i] = f[j] => i = j
    <3> SUFFICES ASSUME NEW i \in K, NEW j \in K, rank(i) = rank(j), i # j PROVE FALSE
      OBVIOUS
    <3>1. rank(i) \in Nat /\ i \in Nat /\ j \in Nat
      BY <1>2, <1>4
    <3>2. i < j \/ j < i
      BY <3>1
    <3> QED BY <1>5, <3>1, <3>2
  <2>2. f \in [K -> 1..N]
    BY <1>4
  <2>3. f \in Injection(K, 1..N)
    BY <2>1, <2>2, Zenon DEF Injection, IsInjective
  <2>4. IsFiniteSet(1..N) /\ Cardinality(1..N) = N
    BY <1>2, FS_Interval
  <2>5. Cardinality(K) = Cardinality(1..N)
    BY <2>4 DEF N
  <2>6. f \in Surjection(K, 1..N)
    BY <2>3, <2>4, <2>5, FS_Injection, Zenon
  <2>7. \A k \in 1..N : \E i \in K : f[i] = k
    BY <2>6 DEF Surjection
  <2> QED BY <2>7
<1> QED BY <1>2, <1>4, <1>5, <1>6 DEF upTo

\* w is s at the n places f, in order: those of the elements outside S.
Keeps(w, s, S, n, f) ==
    /\ w = [k \in 1..n |-> s[f[k]]]
    /\ \A j, k \in 1..n : j < k => f[j] < f[k]
    /\ {f[k] : k \in 1..n} = {i \in 1..Len(s) : s[i] \notin S}
    /\ n = Cardinality({i \in 1..Len(s) : s[i] \notin S})

\* What removeIf keeps is s at increasing places.
LEMMA WithoutKeeps ==
  ASSUME NEW T, NEW s \in Seq(T), NEW S
  PROVE  \E n \in 0..Len(s) : \E f \in [1..n -> 1..Len(s)] :
            Keeps(Without(s, S), s, S, n, f)
<1> DEFINE K == {i \in DOMAIN s : s[i] \notin S}
           rank(i) == Cardinality({j \in K : j <= i})
           n == Cardinality(K)
           nth(k) == CHOOSE i \in K : rank(i) = k
           f == [k \in 1..n |-> nth(k)]
<1>1. DOMAIN s = 1..Len(s) /\ Len(s) \in Nat /\ K \in SUBSET (1..Len(s)) /\ K \in SUBSET Nat
  OBVIOUS
<1>2. Without(s, S) = [k \in 1..n |-> s[nth(k)]]
  BY Zenon DEF Without
<1> HIDE DEF K
<1>3. /\ n \in 0..Len(s)
      /\ \A i \in K : rank(i) \in 1..n
      /\ \A i, j \in K : i < j => rank(i) < rank(j)
      /\ \A k \in 1..n : \E i \in K : rank(i) = k
  BY <1>1, RankFacts
<1> HIDE DEF rank, n
<1>4. \A k \in 1..n : nth(k) \in K /\ rank(nth(k)) = k
  BY <1>3
<1> HIDE DEF nth
<1>5. f \in [1..n -> 1..Len(s)]
  BY <1>1, <1>4
<1>6. \A j, k \in 1..n : j < k => f[j] < f[k]
  <2> SUFFICES ASSUME NEW j \in 1..n, NEW k \in 1..n, j < k PROVE nth(j) < nth(k)
    OBVIOUS
  <2>1. nth(j) \in K /\ nth(k) \in K /\ rank(nth(j)) = j /\ rank(nth(k)) = k
    BY <1>4
  <2>2. nth(k) \in Nat /\ nth(j) \in Nat
    BY <1>1, <2>1
  <2> QED BY <1>3, <2>1, <2>2
<1>7. {f[k] : k \in 1..n} = K
  <2>1. \A i \in K : \E k \in 1..n : nth(k) = i
    <3> TAKE i \in K
    <3>1. rank(i) \in 1..n
      BY <1>3
    <3>2. nth(rank(i)) \in K /\ rank(nth(rank(i))) = rank(i)
      BY <1>4, <3>1
    <3>3. i \in Nat /\ nth(rank(i)) \in Nat
      BY <1>1, <3>2
    <3>4. nth(rank(i)) = i
      BY <1>3, <3>2, <3>3
    <3> QED BY <3>1, <3>4
  <2> QED BY <1>4, <2>1
<1>8. Without(s, S) = [k \in 1..n |-> s[f[k]]]
  BY <1>2
<1>9. K = {i \in 1..Len(s) : s[i] \notin S}
  BY <1>1 DEF K
<1> HIDE DEF f
<1>10. n = Cardinality(K)
  BY DEF n
<1>11. Keeps(Without(s, S), s, S, n, f)
  BY <1>6, <1>7, <1>8, <1>9, <1>10 DEF Keeps
<1> QED BY <1>3, <1>5, <1>11

\* What removeIf returns: the elements of s outside S, each as often as before.
LEMMA WithoutFacts ==
  ASSUME NEW T, NEW s \in Seq(T), NEW S
  PROVE  /\ Without(s, S) \in Seq(T)
         /\ Len(Without(s, S)) \in 0..Len(s)
         /\ RangeOf(Without(s, S)) = RangeOf(s) \ S
         /\ Len(Without(s, S)) = Len(s) => RangeOf(s) \cap S = {}
<1>l. Len(s) \in Nat
  OBVIOUS
<1>0. IsFiniteSet(1..Len(s)) /\ Cardinality(1..Len(s)) = Len(s)
  BY <1>l, FS_Interval
<1>1. PICK n \in 0..Len(s) : \E f \in [1..n -> 1..Len(s)] :
            Keeps(Without(s, S), s, S, n, f)
  BY WithoutKeeps
<1>a. PICK f \in [1..n -> 1..Len(s)] :
            Keeps(Without(s, S), s, S, n, f)
  BY <1>1
<1>b. /\ Without(s, S) = [k \in 1..n |-> s[f[k]]]
      /\ {f[k] : k \in 1..n} = {i \in 1..Len(s) : s[i] \notin S}
      /\ n = Cardinality({i \in 1..Len(s) : s[i] \notin S})
  BY <1>a DEF Keeps
<1> DEFINE w == [k \in 1..n |-> s[f[k]]]
<1>2. n \in Nat /\ DOMAIN s = 1..Len(s) /\ Len(s) \in Nat /\ \A i \in 1..Len(s) : s[i] \in T
  OBVIOUS
<1>3. w \in [1..n -> T]
  BY <1>2
<1>4. w \in Seq(T) /\ Len(w) = n /\ DOMAIN w = 1..n
  BY <1>2, <1>3
<1>5. RangeOf(w) = RangeOf(s) \ S
  <2>0. \A k \in 1..n : f[k] \in 1..Len(s) /\ s[f[k]] \notin S
    BY <1>b
  <2>1. \A x \in RangeOf(w) : x \in RangeOf(s) \ S
    <3> SUFFICES ASSUME NEW k \in 1..n PROVE s[f[k]] \in RangeOf(s) \ S
      BY <1>4 DEF RangeOf
    <3> QED BY <1>2, <2>0 DEF RangeOf
  <2>2. \A x \in RangeOf(s) \ S : x \in RangeOf(w)
    <3> SUFFICES ASSUME NEW i \in 1..Len(s), s[i] \notin S PROVE s[i] \in RangeOf(w)
      BY <1>2 DEF RangeOf
    <3>0. i \in {f[k] : k \in 1..n}
      BY <1>b
    <3>1. PICK k \in 1..n : f[k] = i
      BY <3>0
    <3> QED BY <1>4, <3>1 DEF RangeOf
  <2> QED BY <2>1, <2>2
<1>6. n = Len(s) => RangeOf(s) \cap S = {}
  <2> HAVE n = Len(s)
  <2> DEFINE K == {i \in 1..Len(s) : s[i] \notin S}
  <2>1. K \in SUBSET (1..Len(s)) /\ Cardinality(K) = Len(s)
    BY <1>b
  <2> HIDE DEF K
  <2>3. 1..Len(s) = K
    BY <1>0, <2>1, FS_Subset
  <2> QED BY <1>2, <2>3 DEF RangeOf, K
<1> HIDE DEF w
<1>7. Without(s, S) = w
  BY <1>b DEF w
<1> QED BY <1>2, <1>4, <1>5, <1>6, <1>7

\* No element is in the sequence twice; no hash is in the jobs twice.
Injective(s) == \A i, j \in DOMAIN s : s[i] = s[j] => i = j

\* The same of jobs: no hash twice.
HashOnce(js) == \A i, j \in DOMAIN js : js[i].hash = js[j].hash => i = j
\* The blocks the jobs js are about.
HashesOf(js) == {e.hash : e \in RangeOf(js)}

\* A sequence's elements, one by one.
LEMMA SeqFacts ==
  ASSUME NEW T, NEW s \in Seq(T)
  PROVE  Len(s) \in Nat /\ DOMAIN s = 1..Len(s) /\ RangeOf(s) \in SUBSET T
<1>1. Len(s) \in Nat /\ DOMAIN s = 1..Len(s) /\ \A i \in 1..Len(s) : s[i] \in T
  OBVIOUS
<1> QED BY <1>1 DEF RangeOf

LEMMA EmptyFacts == RangeOf(<<>>) = {} /\ Injective(<<>>) /\ HashOnce(<<>>) /\ HashesOf(<<>>) = {}
  BY DEF RangeOf, Injective, HashOnce, HashesOf

\* Only the empty sequence has no element.
LEMMA RangeEmpty ==
  ASSUME NEW T, NEW s \in Seq(T)
  PROVE  RangeOf(s) = {} <=> s = <<>>
<1>1. Len(s) \in Nat /\ DOMAIN s = 1..Len(s)
  OBVIOUS
<1>2. CASE Len(s) = 0
  <2>1. s = <<>>
    BY <1>1, <1>2
  <2> QED BY <2>1, EmptyFacts
<1>3. CASE Len(s) # 0
  <2>1. 1 \in DOMAIN s
    BY <1>1, <1>3
  <2>2. s # <<>>
    BY <1>3
  <2> QED BY <2>1, <2>2 DEF RangeOf
<1> QED BY <1>2, <1>3

\* emplace_back: one element more at the end.
LEMMA AppendFacts ==
  ASSUME NEW T, NEW s \in Seq(T), NEW x \in T
  PROVE  /\ Append(s, x) \in Seq(T) /\ Append(s, x) # <<>>
         /\ RangeOf(Append(s, x)) = RangeOf(s) \cup {x}
         /\ Injective(s) /\ x \notin RangeOf(s) => Injective(Append(s, x))
         /\ HashOnce(s) /\ x.hash \notin HashesOf(s) => HashOnce(Append(s, x))
<1> DEFINE t == Append(s, x)
<1>1. /\ Len(s) \in Nat /\ DOMAIN s = 1..Len(s) /\ \A i \in 1..Len(s) : s[i] \in T
      /\ t \in Seq(T) /\ Len(t) = Len(s) + 1 /\ DOMAIN t = 1..(Len(s) + 1)
      /\ \A i \in 1..Len(s) : t[i] = s[i]
      /\ t[Len(s) + 1] = x
  OBVIOUS
<1> HIDE DEF t
<1>2. \A i \in DOMAIN t : i \in 1..Len(s) \/ i = Len(s) + 1
  BY <1>1
<1>3. RangeOf(t) = RangeOf(s) \cup {x}
  BY <1>1, <1>2 DEF RangeOf
<1>4. Injective(s) /\ x \notin RangeOf(s) => Injective(t)
  BY <1>1, <1>2 DEF RangeOf, Injective
<1>5. HashOnce(s) /\ x.hash \notin HashesOf(s) => HashOnce(t)
  BY <1>1, <1>2 DEF RangeOf, HashOnce, HashesOf
<1>6. t # <<>>
  BY <1>1
<1> QED BY <1>1, <1>3, <1>4, <1>5, <1>6 DEF t

\* Two sequences with no element in common, one behind the other.
LEMMA ConcatFacts ==
  ASSUME NEW T, NEW s \in Seq(T), NEW u \in Seq(T)
  PROVE  /\ s \o u \in Seq(T)
         /\ RangeOf(s \o u) = RangeOf(s) \cup RangeOf(u)
         /\ Injective(s) /\ Injective(u) /\ RangeOf(s) \cap RangeOf(u) = {} => Injective(s \o u)
<1> DEFINE t == s \o u
<1>1. /\ Len(s) \in Nat /\ DOMAIN s = 1..Len(s) /\ Len(u) \in Nat /\ DOMAIN u = 1..Len(u)
      /\ t \in Seq(T) /\ DOMAIN t = 1..(Len(s) + Len(u))
      /\ \A i \in 1..Len(s) : t[i] = s[i]
      /\ \A i \in 1..(Len(s) + Len(u)) : i > Len(s) => t[i] = u[i - Len(s)]
  OBVIOUS
<1> HIDE DEF t
<1>2. \A i \in DOMAIN t : i \in 1..Len(s) \/ (i > Len(s) /\ i - Len(s) \in 1..Len(u))
  BY <1>1
<1>3. \A i \in 1..Len(u) : Len(s) + i \in DOMAIN t /\ t[Len(s) + i] = u[i]
  BY <1>1
<1>4. RangeOf(t) = RangeOf(s) \cup RangeOf(u)
  <2>1. \A i \in DOMAIN t : t[i] \in RangeOf(s) \cup RangeOf(u)
    BY <1>1, <1>2 DEF RangeOf
  <2>2. \A i \in DOMAIN s : s[i] \in RangeOf(t)
    BY <1>1 DEF RangeOf
  <2>3. \A i \in DOMAIN u : u[i] \in RangeOf(t)
    BY <1>1, <1>3 DEF RangeOf
  <2> QED BY <2>1, <2>2, <2>3 DEF RangeOf
<1>5. ASSUME Injective(s), Injective(u), RangeOf(s) \cap RangeOf(u) = {} PROVE Injective(t)
  <2> SUFFICES ASSUME NEW i \in DOMAIN t, NEW j \in DOMAIN t, t[i] = t[j] PROVE i = j
    BY DEF Injective
  <2>1. CASE i \in 1..Len(s) /\ j \in 1..Len(s)
    BY <1>1, <1>5, <2>1 DEF Injective
  <2>0. \A k \in 1..Len(s), l \in DOMAIN t : l > Len(s) => t[k] # t[l]
    <3> SUFFICES ASSUME NEW k \in 1..Len(s), NEW l \in DOMAIN t, l > Len(s), t[k] = t[l]
                 PROVE  FALSE
      OBVIOUS
    <3>1. l - Len(s) \in 1..Len(u) /\ t[l] = u[l - Len(s)] /\ t[k] = s[k]
      BY <1>1, <1>2
    <3>2. t[l] \in RangeOf(u) /\ t[k] \in RangeOf(s)
      BY <1>1, <3>1 DEF RangeOf
    <3> QED BY <1>5, <3>2
  <2>2. CASE i \in 1..Len(s) /\ j > Len(s)
    BY <2>0, <2>2
  <2>3. CASE j \in 1..Len(s) /\ i > Len(s)
    BY <2>0, <2>3
  <2>4. CASE i > Len(s) /\ j > Len(s)
    <3>1. i - Len(s) \in DOMAIN u /\ j - Len(s) \in DOMAIN u /\ u[i - Len(s)] = u[j - Len(s)]
      BY <1>1, <1>2, <2>4
    <3>2. i - Len(s) = j - Len(s)
      BY <1>5, <3>1 DEF Injective
    <3> QED BY <1>1, <3>2
  <2> QED BY <1>2, <2>1, <2>2, <2>3, <2>4
<1> QED BY <1>1, <1>4, <1>5 DEF t

\* A sequence cut in two: drain() cuts m_verified, drainVerified cuts m_verifying.
LEMMA SplitFacts ==
  ASSUME NEW T, NEW s \in Seq(T), NEW n \in 0..Len(s)
  PROVE  LET front == SubSeq(s, 1, n)
             back  == SubSeq(s, n + 1, Len(s))
         IN  /\ front \in Seq(T) /\ Len(front) = n /\ \A i \in 1..n : front[i] = s[i]
             /\ back \in Seq(T) /\ Len(back) = Len(s) - n
             /\ \A i \in 1..(Len(s) - n) : back[i] = s[n + i]
             /\ RangeOf(s) = RangeOf(front) \cup RangeOf(back)
             /\ Injective(s) => /\ Injective(front) /\ Injective(back)
                                /\ RangeOf(front) \cap RangeOf(back) = {}
             /\ HashOnce(s) => /\ HashOnce(front) /\ HashOnce(back)
                               /\ HashesOf(front) \cap HashesOf(back) = {}
<1> DEFINE front == SubSeq(s, 1, n)
           back == SubSeq(s, n + 1, Len(s))
           m == Len(s)
<1>1. m \in Nat /\ n \in Nat /\ n <= m /\ DOMAIN s = 1..m /\ \A i \in 1..m : s[i] \in T
  OBVIOUS
<1>2. front \in Seq(T) /\ Len(front) = n /\ DOMAIN front = 1..n /\ \A i \in 1..n : front[i] = s[i]
  BY <1>1
<1>a. /\ Len(back) = m - n
      /\ \A i \in 1..(m - n) : back[i] = s[n + 1 + i - 1]
  BY <1>1, SubSeqProperties
<1>b. back \in Seq(T)
  BY <1>1, SubSeqProperties
<1>c. \A i \in 1..(m - n) : n + 1 + i - 1 = n + i
  BY <1>1
<1>d. DOMAIN back = 1..(m - n)
  BY <1>a, <1>b
<1>3. /\ back \in Seq(T) /\ Len(back) = m - n /\ DOMAIN back = 1..(m - n)
      /\ \A i \in 1..(m - n) : back[i] = s[n + i]
  BY <1>a, <1>b, <1>c, <1>d, Zenon
<1> HIDE DEF front, back, m
<1>4. \A i \in 1..m : i \in 1..n \/ (i - n \in 1..(m - n) /\ i = n + (i - n))
  BY <1>1
<1>5. \A i \in 1..n : i \in 1..m
  BY <1>1
<1>6. \A i \in 1..(m - n) : n + i \in 1..m /\ n + i \notin 1..n
  BY <1>1
<1>r. /\ RangeOf(s) = {s[i] : i \in 1..m} /\ RangeOf(front) = {s[i] : i \in 1..n}
      /\ RangeOf(back) = {s[n + i] : i \in 1..(m - n)}
  <2>1. RangeOf(s) = {s[i] : i \in 1..m}
    BY <1>1 DEF RangeOf
  <2>2. RangeOf(front) = {s[i] : i \in 1..n}
    BY <1>2 DEF RangeOf
  <2>3. RangeOf(back) = {back[i] : i \in 1..(m - n)}
    BY <1>3 DEF RangeOf
  <2>4. {back[i] : i \in 1..(m - n)} = {s[n + i] : i \in 1..(m - n)}
    BY <1>3
  <2> QED BY <2>1, <2>2, <2>3, <2>4
<1>7. RangeOf(s) = RangeOf(front) \cup RangeOf(back)
  <2>1. \A i \in 1..m : s[i] \in RangeOf(front) \cup RangeOf(back)
    <3> TAKE i \in 1..m
    <3>1. CASE i \in 1..n
      BY <1>r, <3>1
    <3>2. CASE i - n \in 1..(m - n) /\ i = n + (i - n)
      BY <1>r, <3>2
    <3> QED BY <1>4, <3>1, <3>2
  <2>2. \A i \in 1..n : s[i] \in RangeOf(s)
    BY <1>5, <1>r
  <2>3. \A i \in 1..(m - n) : s[n + i] \in RangeOf(s)
    BY <1>6, <1>r
  <2>4. RangeOf(s) \subseteq RangeOf(front) \cup RangeOf(back)
    BY <1>r, <2>1
  <2>5. RangeOf(front) \subseteq RangeOf(s)
    BY <1>r, <2>2
  <2>6. RangeOf(back) \subseteq RangeOf(s)
    BY <1>r, <2>3
  <2> QED BY <2>4, <2>5, <2>6
<1>8. \A i, j \in 1..(m - n) : n + i = n + j => i = j
  BY <1>1
<1>9. \A i \in 1..n, j \in 1..(m - n) : i # n + j
  BY <1>6
<1>10. ASSUME Injective(s)
       PROVE  Injective(front) /\ Injective(back) /\ RangeOf(front) \cap RangeOf(back) = {}
  <2>1. Injective(front)
    BY <1>1, <1>2, <1>5, <1>10 DEF Injective
  <2>2. Injective(back)
    <3>1. \A i, j \in 1..(m - n) : s[n + i] = s[n + j] => n + i = n + j
      BY <1>1, <1>6, <1>10 DEF Injective
    <3> QED BY <1>3, <1>8, <3>1 DEF Injective
  <2>3. \A i \in 1..n, j \in 1..(m - n) : s[i] # s[n + j]
    BY <1>1, <1>5, <1>6, <1>9, <1>10 DEF Injective
  <2> QED BY <1>r, <2>1, <2>2, <2>3
<1>11. ASSUME HashOnce(s)
       PROVE  HashOnce(front) /\ HashOnce(back) /\ HashesOf(front) \cap HashesOf(back) = {}
  <2>1. HashOnce(front)
    BY <1>1, <1>2, <1>5, <1>11 DEF HashOnce
  <2>2. HashOnce(back)
    <3>1. \A i, j \in 1..(m - n) : s[n + i].hash = s[n + j].hash => n + i = n + j
      BY <1>1, <1>6, <1>11 DEF HashOnce
    <3> QED BY <1>3, <1>8, <3>1 DEF HashOnce
  <2>3. \A i \in 1..n, j \in 1..(m - n) : s[i].hash # s[n + j].hash
    BY <1>1, <1>5, <1>6, <1>9, <1>11 DEF HashOnce
  <2>4. HashesOf(front) \cap HashesOf(back) = {}
    <3>1. \A x \in RangeOf(front), y \in RangeOf(back) : x.hash # y.hash
      BY <1>r, <2>3
    <3> QED BY <3>1 DEF HashesOf
  <2> QED BY <2>1, <2>2, <2>4
<1> QED BY <1>2, <1>3, <1>7, <1>10, <1>11 DEF front, back, m

\* pop_front: what a verifier takes from m_unverified.
LEMMA TailFacts ==
  ASSUME NEW T, NEW s \in Seq(T), s # <<>>
  PROVE  /\ Head(s) \in T /\ Tail(s) \in Seq(T)
         /\ RangeOf(s) = {Head(s)} \cup RangeOf(Tail(s))
         /\ Injective(s) => Injective(Tail(s)) /\ Head(s) \notin RangeOf(Tail(s))
<1> DEFINE t == Tail(s)
           m == Len(s)
<1>1. m \in Nat /\ m >= 1 /\ DOMAIN s = 1..m /\ (\A i \in 1..m : s[i] \in T) /\ Head(s) = s[1]
  OBVIOUS
<1>2. t \in Seq(T) /\ DOMAIN t = 1..(m - 1) /\ \A i \in 1..(m - 1) : t[i] = s[i + 1]
  BY <1>1
<1> HIDE DEF t, m
<1>3. \A i \in 1..m : i = 1 \/ (i - 1 \in 1..(m - 1) /\ i = (i - 1) + 1)
  BY <1>1
<1>4. 1 \in 1..m /\ \A i \in 1..(m - 1) : i + 1 \in 1..m /\ i + 1 # 1
  BY <1>1
<1>5. \A i, j \in 1..(m - 1) : i + 1 = j + 1 => i = j
  BY <1>1
<1>6. RangeOf(s) = {s[1]} \cup RangeOf(t)
  <2>1. \A i \in 1..m : s[i] \in {s[1]} \cup RangeOf(t)
    BY <1>2, <1>3 DEF RangeOf
  <2>2. \A i \in 1..(m - 1) : t[i] \in RangeOf(s)
    BY <1>1, <1>2, <1>4 DEF RangeOf
  <2> QED BY <1>1, <1>2, <1>4, <2>1, <2>2 DEF RangeOf
<1>7. ASSUME Injective(s) PROVE Injective(t) /\ s[1] \notin RangeOf(t)
  <2>1. \A i, j \in 1..(m - 1) : s[i + 1] = s[j + 1] => i + 1 = j + 1
    BY <1>1, <1>4, <1>7 DEF Injective
  <2>2. \A i \in 1..(m - 1) : s[i + 1] # s[1]
    BY <1>1, <1>4, <1>7 DEF Injective
  <2>3. Injective(t)
    BY <1>2, <1>5, <2>1 DEF Injective
  <2> QED BY <1>2, <2>2, <2>3 DEF RangeOf
<1> QED BY <1>1, <1>2, <1>4, <1>6, <1>7 DEF t

\* What removeIf leaves has no repetition when the sequence had none.
LEMMA WithoutOnce ==
  ASSUME NEW T, NEW s \in Seq(T), NEW S
  PROVE  /\ Injective(s) => Injective(Without(s, S))
         /\ HashOnce(s) => HashOnce(Without(s, S))
<1>1. PICK n \in 0..Len(s) : \E f \in [1..n -> 1..Len(s)] :
            Keeps(Without(s, S), s, S, n, f)
  BY WithoutKeeps
<1>2. PICK f \in [1..n -> 1..Len(s)] :
            Keeps(Without(s, S), s, S, n, f)
  BY <1>1
<1>3. /\ Without(s, S) = [k \in 1..n |-> s[f[k]]]
      /\ \A j, k \in 1..n : j < k => f[j] < f[k]
  BY <1>2 DEF Keeps
<1>4. n \in Nat /\ DOMAIN s = 1..Len(s) /\ Len(s) \in Nat /\ \A k \in 1..n : f[k] \in 1..Len(s)
  OBVIOUS
<1>5. \A j, k \in 1..n : f[j] = f[k] => j = k
  BY <1>3, <1>4
<1> QED BY <1>3, <1>4, <1>5 DEF Injective, HashOnce

\* As many places as elements, where none comes twice.
LEMMA CardOfRange ==
  ASSUME NEW T, NEW s \in Seq(T), Injective(s)
  PROVE  IsFiniteSet(RangeOf(s)) /\ Cardinality(RangeOf(s)) = Len(s)
<1>1. Len(s) \in Nat /\ DOMAIN s = 1..Len(s)
  OBVIOUS
<1>2. IsFiniteSet(1..Len(s)) /\ Cardinality(1..Len(s)) = Len(s)
  BY <1>1, FS_Interval
<1>3. s \in [1..Len(s) -> RangeOf(s)]
  BY <1>1 DEF RangeOf
<1>4. s \in Bijection(1..Len(s), RangeOf(s))
  BY <1>1, <1>3, Zenon DEF Bijection, Injection, Surjection, IsInjective, Injective, RangeOf
<1>5. ExistsBijection(1..Len(s), RangeOf(s))
  BY <1>4 DEF ExistsBijection
<1> QED BY <1>2, <1>5, FS_Bijection

-----------------------------------------------------------------------------
(* The queue's maps, and who waits for whom.                               *)

\* The blocks in the lists of m_unknown.
WaitersOf(unknown) == UNION {RangeOf(unknown[p]) : p \in Hashes}

\* Who waits is in the list of its parent, once.
ParentLists(unknown) ==
    \A p \in Hashes : Injective(unknown[p]) /\ \A b \in RangeOf(unknown[p]) : Parent[b] = p

\* What the constants say of blocks, parents and the hash of no header.
LEMMA HashFacts ==
  /\ Blocks \subseteq Hashes /\ Genesis \in Hashes /\ Genesis \notin Blocks
  /\ EmptyListSHA3 \notin Hashes /\ NoBlock \notin Blocks
  /\ \A b \in Blocks : Parent[b] \in Hashes
  BY BlocksAssumption DEF Hashes

\* The descendants of R among the blocks that wait: the least set closed under m_unknown.
LEMMA OrphanFacts ==
  ASSUME NEW unknown \in [Hashes -> Seq(Blocks)], ParentLists(unknown), NEW R
  PROVE  LET orphans == Orphans(unknown, R)
         IN  /\ orphans \subseteq WaitersOf(unknown) /\ orphans \subseteq Blocks
             /\ \A p \in Hashes : \A b \in RangeOf(unknown[p]) : b \in orphans <=> p \in R \cup orphans
             /\ R = {} => orphans = {}
<1> DEFINE orphans == Orphans(unknown, R)
           closed(N) == \A p \in R \cup N : p \in Hashes => RangeOf(unknown[p]) \subseteq N
<1>1. \A h : h \in orphans <=> h \in Blocks /\ \A N \in SUBSET Blocks : closed(N) => h \in N
  BY DEF Orphans
<1>2. \A p \in Hashes : RangeOf(unknown[p]) \subseteq Blocks
  BY SeqFacts
<1>3. \A p \in Hashes : RangeOf(unknown[p]) \subseteq WaitersOf(unknown)
  BY DEF WaitersOf
<1>4. WaitersOf(unknown) \subseteq Blocks
  BY <1>2 DEF WaitersOf
<1>5. \A p \in Hashes : \A b \in RangeOf(unknown[p]) : Parent[b] = p
  BY DEF ParentLists
<1> HIDE DEF orphans
<1>6. closed(WaitersOf(unknown))
  BY <1>3
<1>7. orphans \subseteq WaitersOf(unknown) /\ orphans \subseteq Blocks
  BY <1>1, <1>4, <1>6
<1>8. closed(orphans)
  <2> SUFFICES ASSUME NEW p \in R \cup orphans, p \in Hashes, NEW b \in RangeOf(unknown[p])
               PROVE  b \in orphans
    OBVIOUS
  <2>1. b \in Blocks
    BY <1>2
  <2>2. ASSUME NEW N \in SUBSET Blocks, closed(N) PROVE b \in N
    <3>1. p \in R \cup N
      BY <1>1, <2>2
    <3> QED BY <2>2, <3>1
  <2> QED BY <1>1, <2>1, <2>2
<1>9. \A b \in orphans : Parent[b] \in R \cup orphans
  <2> SUFFICES ASSUME NEW b \in orphans, Parent[b] \notin R \cup orphans PROVE FALSE
    OBVIOUS
  <2> DEFINE N == orphans \ {b}
  <2>1. N \in SUBSET Blocks
    BY <1>7
  <2>2. closed(N)
    <3> SUFFICES ASSUME NEW p \in R \cup N, p \in Hashes, NEW c \in RangeOf(unknown[p])
                 PROVE  c \in N
      OBVIOUS
    <3>1. c \in orphans
      BY <1>8
    <3>2. Parent[c] = p
      BY <1>5
    <3> QED BY <3>1, <3>2
  <2>3. b \in N
    BY <1>1, <2>1, <2>2
  <2> QED BY <2>3
<1>10. \A p \in Hashes : \A b \in RangeOf(unknown[p]) : b \in orphans <=> p \in R \cup orphans
  BY <1>5, <1>8, <1>9
<1>11. R = {} => orphans = {}
  <2> HAVE R = {}
  <2>1. closed({})
    OBVIOUS
  <2> QED BY <1>1, <2>1
<1> QED BY <1>7, <1>10, <1>11 DEF orphans

\* What updateBad_WITH_LOCK reads and writes.
View == [verified : Seq(Blocks), verifying : Seq(JobSet), unverified : Seq(Blocks),
         ready : SUBSET Blocks, unknownSet : SUBSET Blocks, unknown : [Hashes -> Seq(Blocks)],
         bad : SUBSET (Blocks \cup {EmptyListSHA3})]

\* The waiting blocks of a view.
Waits(q) == q.unknownSet = WaitersOf(q.unknown) /\ ParentLists(q.unknown)

\* collectUnknownBad_WITH_BOTH_LOCKS: the orphans leave m_unknown, the rest stays.
LEMMA CollectFacts ==
  ASSUME NEW q \in View, Waits(q), NEW R
  PROVE  LET r == collectUnknownBad(q, R)
             N == q.unknownSet \ r.unknownSet
         IN  /\ r \in View /\ Waits(r)
             /\ r.verified = q.verified /\ r.verifying = q.verifying
             /\ r.unverified = q.unverified /\ r.ready = q.ready
             /\ r.unknownSet \subseteq q.unknownSet
             /\ r.bad = q.bad \cup N
             /\ \A b \in r.unknownSet : Parent[b] \notin R \cup N
             /\ R = {} => N = {} /\ r.unknown = q.unknown
<1> DEFINE orphans == Orphans(q.unknown, R)
           r == collectUnknownBad(q, R)
           u == [p \in Hashes |-> IF p \in R \cup orphans THEN <<>> ELSE q.unknown[p]]
<1>1. /\ q.unknown \in [Hashes -> Seq(Blocks)] /\ q.unknownSet \subseteq Blocks
      /\ q.bad \subseteq Blocks \cup {EmptyListSHA3}
      /\ q.unknownSet = WaitersOf(q.unknown) /\ ParentLists(q.unknown)
  BY DEF View, Waits
<1>2. /\ orphans \subseteq q.unknownSet /\ orphans \subseteq Blocks
      /\ \A p \in Hashes : \A b \in RangeOf(q.unknown[p]) : b \in orphans <=> p \in R \cup orphans
      /\ R = {} => orphans = {}
  BY <1>1, OrphanFacts
<1>3. r = [q EXCEPT !.bad = @ \cup orphans, !.unknownSet = @ \ orphans, !.unknown = u]
  BY DEF collectUnknownBad
<1> HIDE DEF orphans, r
<1>4. /\ r.verified = q.verified /\ r.verifying = q.verifying /\ r.unverified = q.unverified
      /\ r.ready = q.ready /\ r.bad = q.bad \cup orphans
      /\ r.unknownSet = q.unknownSet \ orphans /\ r.unknown = u
  BY <1>3 DEF View
<1>5. u \in [Hashes -> Seq(Blocks)]
  BY <1>1
<1>6. r \in View
  BY <1>1, <1>2, <1>3, <1>5 DEF View
<1>7. \A p \in Hashes : u[p] = <<>> \/ (u[p] = q.unknown[p] /\ p \notin R \cup orphans)
  OBVIOUS
<1>8. ParentLists(u)
  BY <1>1, <1>7, EmptyFacts DEF ParentLists
<1>9. WaitersOf(u) = q.unknownSet \ orphans
  <2>1. \A p \in Hashes : \A b \in RangeOf(u[p]) : b \in q.unknownSet \ orphans
    BY <1>1, <1>2, <1>7, EmptyFacts DEF WaitersOf
  <2>2. \A p \in Hashes : \A b \in RangeOf(q.unknown[p]) : b \notin orphans => b \in RangeOf(u[p])
    BY <1>2
  <2>3. WaitersOf(u) \subseteq q.unknownSet \ orphans
    BY <2>1 DEF WaitersOf
  <2>4. q.unknownSet \ orphans \subseteq WaitersOf(u)
    BY <1>1, <2>2 DEF WaitersOf
  <2> QED BY <2>3, <2>4
<1>10. \A b \in q.unknownSet \ orphans : Parent[b] \notin R \cup orphans
  <2> TAKE b \in q.unknownSet \ orphans
  <2>1. PICK p \in Hashes : b \in RangeOf(q.unknown[p])
    BY <1>1 DEF WaitersOf
  <2> QED BY <1>1, <1>2, <2>1 DEF ParentLists
<1>11. q.unknownSet \ r.unknownSet = orphans
  BY <1>2, <1>4
<1>12. R = {} => r.unknown = q.unknown
  <2> HAVE R = {}
  <2>1. u = [p \in Hashes |-> q.unknown[p]]
    BY <1>2
  <2> QED BY <1>1, <1>4, <2>1
<1>13. Waits(r)
  BY <1>4, <1>8, <1>9 DEF Waits
<1> QED BY <1>2, <1>4, <1>6, <1>10, <1>11, <1>12, <1>13 DEF r

-----------------------------------------------------------------------------
(* Condemning blocks: Condemn and one turn of updateBad_WITH_LOCK.         *)

\* The blocks whose verification is finished; the blocks in the three queues.
FinishedIn(q) == {e.hash : e \in {x \in RangeOf(q.verifying) : x.done}}
QueuedIn(q) == RangeOf(q.verified) \cup RangeOf(q.unverified) \cup HashesOf(q.verifying)

\* No block is in the queues twice, what is queued is ready or bad, what is verified
\* is ready and valid, and who waits is not queued.
Sound(q) ==
    /\ q \in View /\ Waits(q)
    /\ Injective(q.verified) /\ Injective(q.unverified) /\ HashOnce(q.verifying)
    /\ RangeOf(q.verified) \cap RangeOf(q.unverified) = {}
    /\ (RangeOf(q.verified) \cup RangeOf(q.unverified)) \cap HashesOf(q.verifying) = {}
    /\ QueuedIn(q) \subseteq q.ready \cup q.bad
    /\ FinishedIn(q) \subseteq q.ready
    /\ (RangeOf(q.verified) \cup FinishedIn(q)) \cap Invalid = {}
    /\ q.unknownSet \cap (q.ready \cup QueuedIn(q)) = {}

\* What condemning blocks may do to a view q.
Spoils(q, r) ==
    /\ r.ready \subseteq q.ready /\ q.ready \ r.ready \subseteq r.bad
    /\ r.unknownSet \subseteq q.unknownSet
    /\ q.bad \subseteq r.bad
    /\ r.bad \ q.bad \subseteq QueuedIn(q) \cup q.unknownSet \cup {EmptyListSHA3}
    /\ (r.bad \ q.bad) \cap (r.ready \cup r.unknownSet) = {}
    /\ RangeOf(r.unverified) \subseteq RangeOf(q.unverified) /\ QueuedIn(r) \subseteq QueuedIn(q)
    /\ \A b \in r.unknownSet : Parent[b] \notin r.bad \ q.bad

\* Condemning twice is condemning.
LEMMA SpoilsTwice ==
  ASSUME NEW q, NEW r, NEW s, Spoils(q, r), Spoils(r, s)
  PROVE  Spoils(q, s)
<1>1. /\ s.ready \subseteq q.ready /\ q.ready \ s.ready \subseteq s.bad
      /\ s.unknownSet \subseteq q.unknownSet /\ q.bad \subseteq s.bad
      /\ RangeOf(s.unverified) \subseteq RangeOf(q.unverified) /\ QueuedIn(s) \subseteq QueuedIn(q)
  BY DEF Spoils
<1>2. s.bad \ q.bad \subseteq QueuedIn(q) \cup q.unknownSet \cup {EmptyListSHA3}
  BY DEF Spoils
<1>3. (s.bad \ q.bad) \cap (s.ready \cup s.unknownSet) = {}
  BY DEF Spoils
<1>4. \A b \in s.unknownSet : Parent[b] \notin s.bad \ q.bad
  BY DEF Spoils
<1> QED BY <1>1, <1>2, <1>3, <1>4 DEF Spoils

\* Blocks found bad take those that wait for them along.
LEMMA CondemnFacts ==
  ASSUME NEW q \in View, Waits(q), NEW R \in SUBSET (Blocks \cup {EmptyListSHA3}),
         R \cap q.unknownSet = {}, q.unknownSet \cap q.ready = {}
  PROVE  LET r == Condemn(q, R)
             N == q.unknownSet \ r.unknownSet
         IN  /\ r \in View /\ Waits(r)
             /\ r.verified = q.verified /\ r.verifying = q.verifying
             /\ r.unverified = q.unverified /\ r.ready = q.ready \ R
             /\ r.unknownSet \subseteq q.unknownSet
             /\ r.bad = q.bad \cup R \cup N
             /\ \A b \in r.unknownSet : Parent[b] \notin R \cup N
             /\ R = {} => N = {} /\ r.unknown = q.unknown
<1> DEFINE p == [q EXCEPT !.bad = @ \cup R, !.ready = @ \ R]
           r == Condemn(q, R)
<1>1. /\ p \in View
      /\ p.verified = q.verified /\ p.verifying = q.verifying /\ p.unverified = q.unverified
      /\ p.ready = q.ready \ R /\ p.bad = q.bad \cup R
      /\ p.unknownSet = q.unknownSet /\ p.unknown = q.unknown
  BY DEF View
<1>2. Waits(p)
  BY <1>1 DEF Waits
<1>3. r = collectUnknownBad(p, R)
  BY DEF Condemn
<1> HIDE DEF p, r
<1> QED BY <1>1, <1>2, <1>3, CollectFacts DEF r

\* The places removeIf looks at, one for each block it finds.
LEMMA LastPlacesFacts ==
  ASSUME NEW T, NEW s \in Seq(T), NEW S
  PROVE  /\ \A i \in LastPlaces(s, S) : i \in DOMAIN s
         /\ Without(s, S) = s => LastPlaces(s, S) = {} /\ RangeOf(s) \cap S = {}
<1>1. Len(Without(s, S)) \in 0..Len(s) /\ Len(s) \in Nat /\ DOMAIN s = 1..Len(s)
  BY WithoutFacts
<1>2. Without(s, S) = s => RangeOf(s) \cap S = {}
  BY WithoutFacts
<1> QED BY <1>1, <1>2 DEF LastPlaces

\* The verified blocks with a bad parent: the sets and m_verified agree afterwards.
LEMMA BadVerifiedFacts ==
  ASSUME NEW q, Sound(q)
  PROVE  LET r == BadVerified(q)
         IN  /\ Sound(r) /\ Spoils(q, r)
             /\ r.verifying = q.verifying /\ r.unverified = q.unverified
             /\ r.verified = q.verified => /\ RangeOf(q.verified) \cap q.bad = {}
                                           /\ r.ready = q.ready /\ r.bad = q.bad
<1> DEFINE S == {h \in Blocks : LostHash(h, q.bad)}
           w == Without(q.verified, S)
           R == {q.verified[i] : i \in LastPlaces(q.verified, S)}
           p == [q EXCEPT !.verified = w]
           r == BadVerified(q)
<1>1. r = Condemn(p, R)
  BY DEF BadVerified
<1>2. q \in View /\ Waits(q) /\ q.verified \in Seq(Blocks)
  BY DEF Sound, View
<1>3. /\ w \in Seq(Blocks) /\ RangeOf(w) = RangeOf(q.verified) \ S
      /\ Injective(q.verified) => Injective(w)
  BY <1>2, WithoutFacts, WithoutOnce
<1>4. /\ R \subseteq RangeOf(q.verified)
      /\ w = q.verified => R = {} /\ RangeOf(q.verified) \cap S = {}
  <2>1. /\ \A i \in LastPlaces(q.verified, S) : i \in DOMAIN q.verified
        /\ w = q.verified => /\ LastPlaces(q.verified, S) = {}
                             /\ RangeOf(q.verified) \cap S = {}
    BY <1>2, LastPlacesFacts
  <2> QED BY <2>1 DEF RangeOf
<1>5. RangeOf(q.verified) \subseteq Blocks /\ q.bad \cap RangeOf(q.verified) \subseteq S
  BY <1>2, SeqFacts DEF LostHash
<1> HIDE DEF S, w, R, r
<1>6. /\ p \in View /\ p.verified = w /\ p.verifying = q.verifying
      /\ p.unverified = q.unverified /\ p.ready = q.ready /\ p.bad = q.bad
      /\ p.unknownSet = q.unknownSet /\ p.unknown = q.unknown
  BY <1>2, <1>3 DEF View
<1> HIDE DEF p
<1>7. Waits(p)
  BY <1>2, <1>6 DEF Waits
<1>8. R \cap p.unknownSet = {} /\ p.unknownSet \cap p.ready = {}
  BY <1>4, <1>6 DEF Sound, QueuedIn
<1> DEFINE N == q.unknownSet \ r.unknownSet
<1>9. /\ r \in View /\ Waits(r)
      /\ r.verified = w /\ r.verifying = q.verifying /\ r.unverified = q.unverified
      /\ r.ready = q.ready \ R /\ r.unknownSet \subseteq q.unknownSet
      /\ r.bad = q.bad \cup R \cup N
      /\ \A b \in r.unknownSet : Parent[b] \notin R \cup N
      /\ R = {} => N = {}
  <2>1. R \in SUBSET (Blocks \cup {EmptyListSHA3})
    BY <1>4, <1>5
  <2> QED BY <1>1, <1>6, <1>7, <1>8, <2>1, CondemnFacts
<1>10. Spoils(q, r)
  BY <1>3, <1>4, <1>9 DEF Spoils, QueuedIn, Sound
<1>11. FinishedIn(r) = FinishedIn(q) /\ FinishedIn(q) \subseteq HashesOf(q.verifying)
  BY <1>9 DEF FinishedIn, HashesOf
<1>12. Sound(r)
  BY <1>3, <1>4, <1>9, <1>11 DEF Sound, QueuedIn
<1>13. r.verified = q.verified => /\ RangeOf(q.verified) \cap q.bad = {}
                                  /\ r.ready = q.ready /\ r.bad = q.bad
  BY <1>4, <1>5, <1>9
<1> QED BY <1>9, <1>10, <1>12, <1>13 DEF r

\* The same for the blocks not verified yet.
LEMMA BadUnverifiedFacts ==
  ASSUME NEW q, Sound(q)
  PROVE  LET r == BadUnverified(q)
         IN  /\ Sound(r) /\ Spoils(q, r)
             /\ r.verified = q.verified /\ r.verifying = q.verifying
             /\ r.unverified = q.unverified => /\ RangeOf(q.unverified) \cap q.bad = {}
                                               /\ r.ready = q.ready /\ r.bad = q.bad
<1> DEFINE S == {h \in Blocks : LostHash(h, q.bad)}
           w == Without(q.unverified, S)
           R == {q.unverified[i] : i \in LastPlaces(q.unverified, S)}
           p == [q EXCEPT !.unverified = w]
           r == BadUnverified(q)
<1>1. r = Condemn(p, R)
  BY DEF BadUnverified
<1>2. q \in View /\ Waits(q) /\ q.unverified \in Seq(Blocks)
  BY DEF Sound, View
<1>3. /\ w \in Seq(Blocks) /\ RangeOf(w) = RangeOf(q.unverified) \ S
      /\ Injective(q.unverified) => Injective(w)
  BY <1>2, WithoutFacts, WithoutOnce
<1>4. /\ R \subseteq RangeOf(q.unverified)
      /\ w = q.unverified => R = {} /\ RangeOf(q.unverified) \cap S = {}
  <2>1. /\ \A i \in LastPlaces(q.unverified, S) : i \in DOMAIN q.unverified
        /\ w = q.unverified => /\ LastPlaces(q.unverified, S) = {}
                               /\ RangeOf(q.unverified) \cap S = {}
    BY <1>2, LastPlacesFacts
  <2> QED BY <2>1 DEF RangeOf
<1>5. RangeOf(q.unverified) \subseteq Blocks /\ q.bad \cap RangeOf(q.unverified) \subseteq S
  BY <1>2, SeqFacts DEF LostHash
<1> HIDE DEF S, w, R, r
<1>6. /\ p \in View /\ p.verified = q.verified /\ p.verifying = q.verifying
      /\ p.unverified = w /\ p.ready = q.ready /\ p.bad = q.bad
      /\ p.unknownSet = q.unknownSet /\ p.unknown = q.unknown
  BY <1>2, <1>3 DEF View
<1> HIDE DEF p
<1>7. Waits(p)
  BY <1>2, <1>6 DEF Waits
<1>8. R \cap p.unknownSet = {} /\ p.unknownSet \cap p.ready = {}
  BY <1>4, <1>6 DEF Sound, QueuedIn
<1> DEFINE N == q.unknownSet \ r.unknownSet
<1>9. /\ r \in View /\ Waits(r)
      /\ r.verified = q.verified /\ r.verifying = q.verifying /\ r.unverified = w
      /\ r.ready = q.ready \ R /\ r.unknownSet \subseteq q.unknownSet
      /\ r.bad = q.bad \cup R \cup N
      /\ \A b \in r.unknownSet : Parent[b] \notin R \cup N
      /\ R = {} => N = {}
  <2>1. R \in SUBSET (Blocks \cup {EmptyListSHA3})
    BY <1>4, <1>5
  <2> QED BY <1>1, <1>6, <1>7, <1>8, <2>1, CondemnFacts
<1>10. Spoils(q, r)
  BY <1>3, <1>4, <1>9 DEF Spoils, QueuedIn, Sound
<1>11. FinishedIn(r) = FinishedIn(q) /\ FinishedIn(q) \subseteq HashesOf(q.verifying)
  BY <1>9 DEF FinishedIn, HashesOf
<1>12. Sound(r)
  BY <1>3, <1>4, <1>9, <1>11 DEF Sound, QueuedIn
<1>13. r.unverified = q.unverified => /\ RangeOf(q.unverified) \cap q.bad = {}
                                      /\ r.ready = q.ready /\ r.bad = q.bad
  BY <1>4, <1>5, <1>9
<1> QED BY <1>9, <1>10, <1>12, <1>13 DEF r

\* The same for the blocks a verifier works on.
LEMMA BadVerifyingFacts ==
  ASSUME NEW q, Sound(q)
  PROVE  LET r == BadVerifying(q)
         IN  /\ Sound(r) /\ Spoils(q, r)
             /\ r.verified = q.verified /\ r.unverified = q.unverified
             /\ r.verifying = q.verifying => /\ HashesOf(q.verifying) \cap q.bad \subseteq FinishedIn(q)
                                             /\ r.ready = q.ready /\ r.bad = q.bad
<1> DEFINE S == {e \in JobSet : LostJob(e, q.bad)}
           hashOf(e) == IF e.done /\ e \notin S THEN EmptyListSHA3 ELSE e.hash
           w == Without(q.verifying, S)
           R == {hashOf(q.verifying[i]) : i \in LastPlaces(q.verifying, S)}
           p == [q EXCEPT !.verifying = w]
           r == BadVerifying(q)
<1>1. r = Condemn(p, R)
  BY DEF BadVerifying
<1>2. q \in View /\ Waits(q) /\ q.verifying \in Seq(JobSet) /\ HashOnce(q.verifying)
  BY DEF Sound, View
<1>3. /\ w \in Seq(JobSet) /\ RangeOf(w) = RangeOf(q.verifying) \ S /\ HashOnce(w)
  BY <1>2, WithoutFacts, WithoutOnce
<1>a. RangeOf(q.verifying) \subseteq JobSet /\ HashesOf(q.verifying) \subseteq Blocks
  <2>1. RangeOf(q.verifying) \subseteq JobSet
    BY <1>2, SeqFacts
  <2> QED BY <2>1 DEF HashesOf, JobSet
<1>b. \A x, y \in RangeOf(q.verifying) : x.hash = y.hash => x = y
  BY <1>2 DEF HashOnce, RangeOf
<1>4. /\ \A h \in R : \E e \in RangeOf(q.verifying) : h = hashOf(e)
      /\ w = q.verifying => R = {} /\ RangeOf(q.verifying) \cap S = {}
  <2>1. /\ \A i \in LastPlaces(q.verifying, S) : i \in DOMAIN q.verifying
        /\ w = q.verifying => /\ LastPlaces(q.verifying, S) = {}
                               /\ RangeOf(q.verifying) \cap S = {}
    BY <1>2, LastPlacesFacts
  <2>2. \A i \in LastPlaces(q.verifying, S) : q.verifying[i] \in RangeOf(q.verifying)
    BY <2>1 DEF RangeOf
  <2> QED BY <2>1, <2>2
<1>5. R \subseteq HashesOf(q.verifying) \cup {EmptyListSHA3}
  BY <1>4 DEF HashesOf
<1>6. \A e \in RangeOf(w) : e.done => e.hash \notin R
  <2> SUFFICES ASSUME NEW e \in RangeOf(w), e.done, NEW x \in RangeOf(q.verifying),
                      e.hash = hashOf(x)
               PROVE  FALSE
    BY <1>4
  <2>1. e \in RangeOf(q.verifying) /\ e \notin S
    BY <1>3
  <2>2. e.hash # EmptyListSHA3
    BY <1>a, <2>1, HashFacts DEF HashesOf
  <2>3. e.hash = x.hash
    BY <2>2
  <2>4. e = x
    BY <1>b, <2>1, <2>3
  <2> QED BY <2>1, <2>2, <2>4
<1>7. \A e \in RangeOf(q.verifying) : e.hash \in q.bad /\ ~e.done => e \in S
  BY <1>a DEF LostJob
<1> HIDE DEF S, hashOf, w, R, r
<1>8. /\ p \in View /\ p.verified = q.verified /\ p.verifying = w
      /\ p.unverified = q.unverified /\ p.ready = q.ready /\ p.bad = q.bad
      /\ p.unknownSet = q.unknownSet /\ p.unknown = q.unknown
  BY <1>2, <1>3 DEF View
<1> HIDE DEF p
<1>9. Waits(p)
  BY <1>2, <1>8 DEF Waits
<1>10. R \cap p.unknownSet = {} /\ p.unknownSet \cap p.ready = {}
  <2>1. q.unknownSet \subseteq Blocks
    BY <1>2 DEF View
  <2> QED BY <1>5, <1>8, <2>1, HashFacts DEF Sound, QueuedIn
<1> DEFINE N == q.unknownSet \ r.unknownSet
<1>11. /\ r \in View /\ Waits(r)
       /\ r.verified = q.verified /\ r.verifying = w /\ r.unverified = q.unverified
       /\ r.ready = q.ready \ R /\ r.unknownSet \subseteq q.unknownSet
       /\ r.bad = q.bad \cup R \cup N
       /\ \A b \in r.unknownSet : Parent[b] \notin R \cup N
       /\ R = {} => N = {}
  <2>1. R \in SUBSET (Blocks \cup {EmptyListSHA3})
    BY <1>5, <1>a
  <2> QED BY <1>1, <1>8, <1>9, <1>10, <2>1, CondemnFacts
<1>12. HashesOf(w) \subseteq HashesOf(q.verifying) /\ FinishedIn(r) \subseteq FinishedIn(q)
       /\ FinishedIn(r) \cap R = {}
  <2>1. HashesOf(w) \subseteq HashesOf(q.verifying)
    BY <1>3 DEF HashesOf
  <2>2. FinishedIn(r) \subseteq FinishedIn(q)
    BY <1>3, <1>11 DEF FinishedIn
  <2>3. FinishedIn(r) \cap R = {}
    BY <1>6, <1>11 DEF FinishedIn
  <2> QED BY <2>1, <2>2, <2>3
<1>13. Spoils(q, r)
  <2>1. QueuedIn(r) \subseteq QueuedIn(q)
    BY <1>11, <1>12 DEF QueuedIn
  <2>2. R \subseteq QueuedIn(q) \cup {EmptyListSHA3}
    BY <1>5 DEF QueuedIn
  <2>3. q.unknownSet \cap q.ready = {}
    BY DEF Sound
  <2>4. r.unknownSet \cap R = {}
    BY <1>8, <1>10, <1>11
  <2> QED BY <1>11, <2>1, <2>2, <2>3, <2>4 DEF Spoils
<1>14. Sound(r)
  BY <1>3, <1>5, <1>11, <1>12 DEF Sound, QueuedIn
<1>15. w = q.verifying => /\ HashesOf(q.verifying) \cap q.bad \subseteq FinishedIn(q)
                          /\ r.ready = q.ready /\ r.bad = q.bad
  <2> HAVE w = q.verifying
  <2>1. \A e \in RangeOf(q.verifying) : e.hash \in q.bad => e.done
    BY <1>4, <1>7
  <2>2. HashesOf(q.verifying) \cap q.bad \subseteq FinishedIn(q)
    BY <2>1 DEF HashesOf, FinishedIn
  <2>3. R = {}
    BY <1>4
  <2>4. r.ready = q.ready /\ r.bad = q.bad
    BY <1>11, <2>3
  <2> QED BY <2>2, <2>4
<1> QED BY <1>11, <1>13, <1>14, <1>15 DEF r

\* One turn of updateBad_WITH_LOCK's loop: when it removes nothing it does nothing,
\* and what is still queued is ready.
LEMMA TurnFacts ==
  ASSUME NEW q, Sound(q)
  PROVE  LET r == BadVerifying(BadUnverified(BadVerified(q)))
         IN  /\ Sound(r) /\ Spoils(q, r)
             /\ r.verified = q.verified /\ r.unverified = q.unverified /\ r.verifying = q.verifying
                => QueuedIn(r) \subseteq r.ready
<1> DEFINE v == BadVerified(q)
           u == BadUnverified(v)
           r == BadVerifying(u)
<1>1. /\ Sound(v) /\ Spoils(q, v)
      /\ v.verifying = q.verifying /\ v.unverified = q.unverified
      /\ v.verified = q.verified => /\ RangeOf(q.verified) \cap q.bad = {}
                                    /\ v.ready = q.ready /\ v.bad = q.bad
  BY BadVerifiedFacts
<1> HIDE DEF v
<1>2. /\ Sound(u) /\ Spoils(v, u)
      /\ u.verified = v.verified /\ u.verifying = v.verifying
      /\ u.unverified = v.unverified => /\ RangeOf(v.unverified) \cap v.bad = {}
                                        /\ u.ready = v.ready /\ u.bad = v.bad
  BY <1>1, BadUnverifiedFacts
<1> HIDE DEF u
<1>3. /\ Sound(r) /\ Spoils(u, r)
      /\ r.verified = u.verified /\ r.unverified = u.unverified
      /\ r.verifying = u.verifying => /\ HashesOf(u.verifying) \cap u.bad \subseteq FinishedIn(u)
                                      /\ r.ready = u.ready /\ r.bad = u.bad
  BY <1>2, BadVerifyingFacts
<1> HIDE DEF r
<1>4. Spoils(q, r)
  BY <1>1, <1>2, <1>3, SpoilsTwice
<1>5. ASSUME r.verified = q.verified, r.unverified = q.unverified, r.verifying = q.verifying
      PROVE  QueuedIn(r) \subseteq r.ready
  <2>1. /\ r.ready = q.ready /\ r.bad = q.bad
        /\ RangeOf(r.verified) \cap r.bad = {} /\ RangeOf(r.unverified) \cap r.bad = {}
        /\ HashesOf(r.verifying) \cap r.bad \subseteq FinishedIn(r)
    BY <1>1, <1>2, <1>3, <1>5 DEF FinishedIn
  <2>2. QueuedIn(r) \subseteq r.ready \cup r.bad /\ FinishedIn(r) \subseteq r.ready
    BY <1>3 DEF Sound
  <2> QED BY <2>1, <2>2 DEF QueuedIn
<1> QED BY <1>3, <1>4, <1>5 DEF v, u, r

-----------------------------------------------------------------------------
(* drainVerified_WITH_BOTH_LOCKS: the finished jobs at the front leave.    *)

\* A set of numbers that has an element has a least one.
LEMMA LeastNumber ==
  ASSUME NEW T \in SUBSET Nat, T # {}
  PROVE  \E n \in T : \A m \in T : n <= m
<1> DEFINE R == OpToRel(<, Nat)
<1>1. IsWellFoundedOn(R, Nat)
  BY NatLessThanWellFounded
<1>2. \A m, n \in Nat : m < n => <<m, n>> \in R
  BY DEF OpToRel
<1> HIDE DEF R
<1>3. PICK n \in T : \A m \in T : ~(<<m, n>> \in R)
  BY <1>1, WFMin
<1>4. \A m \in T : ~(m < n)
  BY <1>2, <1>3
<1> QED BY <1>4

\* The finished jobs at the front: all of them done, the next one not.
LEMMA DonePrefixFacts ==
  ASSUME NEW js \in Seq(JobSet)
  PROVE  LET n == DonePrefix(js)
         IN  /\ n \in 0..Len(js) /\ \A i \in 1..n : js[i].done
             /\ n < Len(js) => ~js[n + 1].done
<1> DEFINE Stops == {n \in 0..Len(js) : n < Len(js) => ~js[n + 1].done}
           P(n) == /\ \A i \in 1..n : js[i].done
                   /\ n < Len(js) => ~js[n + 1].done
<1>1. Len(js) \in Nat /\ Len(js) \in Stops
  OBVIOUS
<1>a. Stops \in SUBSET Nat /\ Stops # {}
  BY <1>1
<1> HIDE DEF Stops
<1>2. PICK n \in Stops : \A m \in Stops : n <= m
  BY <1>a, LeastNumber
<1>3. n \in 0..Len(js) /\ n \in Nat /\ (n < Len(js) => ~js[n + 1].done)
  BY <1>1 DEF Stops
<1>4. \A i \in 1..n : js[i].done
  <2> SUFFICES ASSUME NEW i \in 1..n, ~js[i].done PROVE FALSE
    OBVIOUS
  <2>1. i - 1 \in 0..Len(js) /\ i - 1 < n /\ (i - 1) + 1 = i
    BY <1>1, <1>3
  <2>2. i - 1 \in Stops
    BY <2>1 DEF Stops
  <2>3. n <= i - 1
    BY <1>2, <2>2
  <2> QED BY <1>3, <2>1, <2>3
<1>5. n < Len(js) => ~js[n + 1].done
  BY <1>3
<1>6. \E k \in 0..Len(js) : P(k)
  BY <1>3, <1>4, <1>5
<1>7. DonePrefix(js) = CHOOSE k \in 0..Len(js) : P(k)
  BY DEF DonePrefix
<1> HIDE DEF P
<1>8. DonePrefix(js) \in 0..Len(js) /\ P(DonePrefix(js))
  BY <1>6, <1>7
<1> QED BY <1>8 DEF P

\* drainVerified: the hashes F of finished jobs leave m_verifying, the good ones of
\* them, those not in D, for m_verified.
Drains(js, known, ready, F, D) ==
    /\ D \subseteq F /\ F \subseteq {e.hash : e \in {x \in RangeOf(js) : x.done}}
    /\ m_verifying' \in Seq(JobSet) /\ HashOnce(m_verifying')
    /\ HashesOf(m_verifying') = HashesOf(js) \ F /\ RangeOf(m_verifying') \subseteq RangeOf(js)
    /\ m_verifying' # <<>> => ~Head(m_verifying').done
    /\ m_verified' \in Seq(Blocks) /\ Injective(m_verified')
    /\ RangeOf(m_verified') = RangeOf(m_verified) \cup (F \ D)
    /\ m_knownBad' = known \cup D /\ m_readySet' = ready \ D
    /\ known = {} => D = {}

\* The loop of drainVerified: what it moves to m_verified, and what it drops as bad.
LEMMA DrainVerifiedFacts ==
  ASSUME NEW js \in Seq(JobSet), HashOnce(js), m_verified \in Seq(Blocks), Injective(m_verified),
         RangeOf(m_verified) \cap HashesOf(js) = {}, NEW known, NEW ready,
         drainVerified(js, known, ready)
  PROVE  \E F, D \in SUBSET Blocks : Drains(js, known, ready, F, D)
<1> DEFINE n == DonePrefix(js)
           bad == BadPrefix(js, known)
           out == [k \in 1..n |-> js[k].hash]
           front == SubSeq(js, 1, n)
           D == {out[k] : k \in bad}
           F == RangeOf(out)
<1>1. /\ m_verifying' = SubSeq(js, n + 1, Len(js))
      /\ m_verified' = m_verified \o Without(out, D)
      /\ m_knownBad' = known \cup D
      /\ m_readySet' = ready \ D
  BY DEF drainVerified
<1>2. /\ n \in 0..Len(js) /\ \A i \in 1..n : js[i].done
      /\ n < Len(js) => ~js[n + 1].done
  BY DonePrefixFacts
<1>3. Len(js) \in Nat /\ n \in Nat /\ DOMAIN js = 1..Len(js) /\ \A i \in 1..Len(js) : js[i] \in JobSet
  BY <1>2
<1>4. bad \subseteq 1..n
  BY DEF BadPrefix
<1>5. known = {} => bad = {}
  <2> HAVE known = {}
  <2> DEFINE closed(I) == \A k \in 1..n :
                        (\/ Parent[js[k].hash] \in known
                         \/ \E j \in I : j < k /\ js[j].hash = Parent[js[k].hash]) => k \in I
  <2>1. bad = {k \in 1..n : \A I \in SUBSET (1..n) : closed(I) => k \in I}
    BY DEF BadPrefix
  <2>2. closed({})
    OBVIOUS
  <2> HIDE DEF closed, bad
  <2> QED BY <2>1, <2>2
<1> HIDE DEF n, bad
<1>6. \A k \in 1..n : k \in 1..Len(js) /\ js[k].hash \in Blocks /\ js[k] \in RangeOf(js)
  <2>1. \A k \in 1..n : k \in 1..Len(js)
    BY <1>2, <1>3
  <2> QED BY <1>3, <2>1 DEF JobSet, RangeOf
<1>7. out \in Seq(Blocks) /\ DOMAIN out = 1..n /\ Injective(out)
  <2>1. out \in [1..n -> Blocks]
    BY <1>6
  <2>2. out \in Seq(Blocks)
    BY <1>3, <2>1
  <2>3. Injective(out)
    BY <1>3, <1>6 DEF HashOnce, Injective
  <2> QED BY <2>1, <2>2, <2>3
<1>8. F = {js[k].hash : k \in 1..n} /\ D \subseteq F
  BY <1>4, <1>7 DEF RangeOf
<1>9. F \subseteq {e.hash : e \in {x \in RangeOf(js) : x.done}} /\ F \subseteq Blocks
      /\ F \subseteq HashesOf(js)
  BY <1>2, <1>6, <1>8 DEF HashesOf
<1>10. /\ front \in Seq(JobSet) /\ Len(front) = n /\ \A i \in 1..n : front[i] = js[i]
       /\ m_verifying' \in Seq(JobSet) /\ Len(m_verifying') = Len(js) - n
       /\ \A i \in 1..(Len(js) - n) : m_verifying'[i] = js[n + i]
       /\ RangeOf(js) = RangeOf(front) \cup RangeOf(m_verifying')
       /\ HashOnce(m_verifying') /\ HashesOf(front) \cap HashesOf(m_verifying') = {}
  BY <1>1, <1>2, SplitFacts
<1>11. HashesOf(front) = F
  <2>0. DOMAIN front = 1..n
    BY <1>10
  <2>a. RangeOf(front) = {front[i] : i \in 1..n}
    BY <2>0 DEF RangeOf
  <2>b. \A i \in 1..n : front[i] = js[i]
    BY <1>10
  <2> HIDE DEF front
  <2>1. RangeOf(front) = {js[i] : i \in 1..n}
    BY <2>a, <2>b
  <2> QED BY <1>8, <2>1 DEF HashesOf
<1>12. HashesOf(m_verifying') = HashesOf(js) \ F
  <2>1. HashesOf(js) = HashesOf(front) \cup HashesOf(m_verifying')
    BY <1>10 DEF HashesOf
  <2> QED BY <1>10, <1>11, <2>1
<1>13. m_verifying' # <<>> => ~Head(m_verifying').done
  <2> HAVE m_verifying' # <<>>
  <2>1. Len(m_verifying') \in Nat /\ Len(m_verifying') # 0
    BY <1>10
  <2>0. Len(m_verifying') = Len(js) - n /\ n <= Len(js)
    BY <1>2, <1>3, <1>10
  <2>2. n < Len(js) /\ 1 \in 1..(Len(js) - n)
    <3>1. \A x, y, z \in Nat : x = y - z /\ z <= y /\ x # 0 => z < y /\ 1 \in 1..(y - z)
      OBVIOUS
    <3>2. Len(js) \in Nat /\ n \in Nat
      BY <1>3
    <3> QED BY <2>0, <2>1, <3>1, <3>2
  <2>3. Head(m_verifying') = m_verifying'[1] /\ m_verifying'[1] = js[n + 1]
    BY <1>10, <2>2
  <2> QED BY <1>2, <2>2, <2>3
<1> DEFINE kept == Without(out, D)
<1> HIDE DEF out, F, D
<1>14. kept \in Seq(Blocks) /\ RangeOf(kept) = F \ D /\ Injective(kept)
  BY <1>7, WithoutFacts, WithoutOnce DEF F
<1> HIDE DEF kept
<1>15. /\ m_verified' \in Seq(Blocks) /\ RangeOf(m_verified') = RangeOf(m_verified) \cup (F \ D)
       /\ Injective(m_verified')
  <2>1. m_verified' = m_verified \o kept
    BY <1>1 DEF kept
  <2>2. RangeOf(m_verified) \cap RangeOf(kept) = {}
    BY <1>9, <1>14
  <2> QED BY <1>14, <2>1, <2>2, ConcatFacts
<1>16. known = {} => D = {}
  BY <1>5 DEF D
<1>17. RangeOf(m_verifying') \subseteq RangeOf(js)
  BY <1>10
<1>18. Drains(js, known, ready, F, D)
  BY <1>1, <1>8, <1>9, <1>10, <1>12, <1>13, <1>15, <1>16, <1>17 DEF Drains
<1>19. F \in SUBSET Blocks /\ D \in SUBSET Blocks
  BY <1>8, <1>9
<1> QED BY <1>18, <1>19

-----------------------------------------------------------------------------
(* The invariant.                                                          *)

\* Between two turns of the loop of updateBad_WITH_LOCK blocks that are bad may still
\* be queued; otherwise only blocks that are about to fail are queued and not ready.
QueuesSound ==
    /\ Sound(BadView)
    /\ m_lock # "moreBad" => QueuedIn(BadView) \ Invalid \subseteq m_readySet

\* What the lock says of the lists of its holder.
LockTells ==
    /\ RangeOf(badLeft) \subseteq m_knownBad
    /\ m_lock \notin {"updateBad", "moreBad"} => badLeft = <<>>
    /\ m_lock = "moreBad" => m_knownBad # {}
    /\ notify => m_lock = "noteReady"
    /\ At("drained") => m_lock \in {"updateBad", "moreBad", "updated"}
    /\ clientPc \notin {"room", "import"} => blocks = <<>> /\ badBlocks = <<>>

\* When every verifier sleeps there is nothing to verify, or a notify is to come.
SleepersSeeNothing ==
    Asleep = Verifiers /\ m_lock # "retryAllUnknown" /\ ~notify => m_unverified = <<>>

\* A job that is not finished has its verifier, and the first job is such a one.
JobsRun ==
    /\ \A e \in RangeOf(m_verifying) : e.done \/ \E v \in Verifiers : verifierWork[v] = e.hash
    /\ m_verifying # <<>> => ~Head(m_verifying).done

\* As long as no block is found bad.
Unspoilt == m_knownBad = {} => m_readySet \subseteq QueuedIn(BadView) /\ JobsRun

\* As long as the queue is not cleared.
OneFate ==
    clears = 0 =>
        /\ m_readySet \cap (m_drainingSet \cup m_knownBad) = {}
        /\ m_drainingSet \cap (m_unknownSet \cup m_knownBad) = {}
        /\ m_unknownSet \cap m_knownBad = {}
        /\ RangeOf(blocks) \cup RangeOf(badBlocks) \subseteq m_drainingSet
        /\ \A v \in Verifiers : verifierWork[v] \in Invalid =>
                                    verifierWork[v] \in m_readySet \cup m_knownBad

\* The parent of a block that waits is nowhere, or one of those whose children are
\* about to be released or condemned.
ParentMissing ==
    clears = 0 =>
        \A b \in m_unknownSet :
            /\ ~isKnown(Parent[b]) /\ Parent[b] \notin m_drainingSet
            /\ Parent[b] \in m_readySet =>
                    m_lock = "retryAllUnknown" \/ Parent[b] \in RangeOf(goodQueue)
            /\ Parent[b] \in m_knownBad => Parent[b] \in RangeOf(badLeft)

\* The inductive invariant.
IInv == /\ TypeOK /\ QueuesSound /\ LockTells /\ SleepersSeeNothing
        /\ Unspoilt /\ OneFate /\ ParentMissing /\ DifficultyCovers

-----------------------------------------------------------------------------
\* QueuesSound, in the words of the queue's variables.
LEMMA SoundFacts ==
  ASSUME QueuesSound
  PROVE  /\ BadView \in View /\ Waits(BadView)
         /\ Injective(m_verified) /\ Injective(m_unverified) /\ HashOnce(m_verifying)
         /\ RangeOf(m_verified) \cap RangeOf(m_unverified) = {}
         /\ (RangeOf(m_verified) \cup RangeOf(m_unverified)) \cap HashesOf(m_verifying) = {}
         /\ QueuedIn(BadView) \subseteq m_readySet \cup m_knownBad
         /\ FinishedIn(BadView) \subseteq m_readySet
         /\ (RangeOf(m_verified) \cup FinishedIn(BadView)) \cap Invalid = {}
         /\ m_unknownSet \cap (m_readySet \cup QueuedIn(BadView)) = {}
  BY DEF QueuesSound, Sound, BadView

\* The view of the queue as it is.
LEMMA ViewFields ==
  /\ BadView.verified = m_verified /\ BadView.verifying = m_verifying
  /\ BadView.unverified = m_unverified /\ BadView.ready = m_readySet
  /\ BadView.unknownSet = m_unknownSet /\ BadView.unknown = m_unknown
  /\ BadView.bad = m_knownBad
  BY DEF BadView

-----------------------------------------------------------------------------
(* Types: the operations of the queue.                                       *)

\* Waking verifiers only changes where they are.
LEMMA AsleepFacts ==
  /\ Asleep \subseteq Verifiers
  /\ \A V \in SUBSET Verifiers : Wake(V) /\ BQTypeOK =>
        /\ verifierPc' \in [Verifiers -> {"check", "asleep", "verify", "signal", "done"}]
        /\ \A v \in V : verifierPc'[v] = "check"
        /\ \A v \in Verifiers \ V : verifierPc'[v] = verifierPc[v]
  BY DEF Asleep, Wake, BQTypeOK

\* Whom notify_one and notify_all wake.
LEMMA NotifyFacts ==
  ASSUME BQTypeOK, NotifyOne \/ NotifyAll \/ Wake({})
  PROVE  /\ verifierPc' \in [Verifiers -> {"check", "asleep", "verify", "signal", "done"}]
         /\ \A v \in Verifiers : \/ verifierPc'[v] = verifierPc[v]
                                 \/ verifierPc[v] = "asleep" /\ verifierPc'[v] = "check"
         /\ NotifyOne \/ NotifyAll => Asleep' # Verifiers
<1>1. PICK V \in SUBSET Asleep : /\ Wake(V)
                                 /\ NotifyOne \/ NotifyAll => V # {} \/ Asleep = {}
  BY DEF NotifyOne, NotifyAll
<1>2. V \in SUBSET Verifiers /\ \A v \in V : verifierPc[v] = "asleep"
  BY DEF Asleep
<1>3. /\ verifierPc' \in [Verifiers -> {"check", "asleep", "verify", "signal", "done"}]
      /\ \A v \in V : verifierPc'[v] = "check"
      /\ \A v \in Verifiers \ V : verifierPc'[v] = verifierPc[v]
  BY <1>1, <1>2, AsleepFacts
<1>4. V # {} => Asleep' # Verifiers
  BY <1>2, <1>3 DEF Asleep
<1>5. Asleep = {} => Asleep' # Verifiers
  <2> SUFFICES ASSUME Asleep = {} PROVE Asleep' # Verifiers
    OBVIOUS
  <2>1. PICK v \in Verifiers : TRUE
    BY BlocksAssumption
  <2>2. V = {} /\ verifierPc'[v] = verifierPc[v] /\ verifierPc[v] # "asleep"
    BY <1>2, <1>3, <2>1 DEF Asleep
  <2> QED BY <2>1, <2>2 DEF Asleep
<1> QED BY <1>1, <1>2, <1>3, <1>4, <1>5

\* One verifier moves, the others stay.
LEMMA StepVerifierFacts ==
  ASSUME BQTypeOK, NEW v \in Verifiers, NEW pc, NEW work, StepVerifier(v, pc, work)
  PROVE  /\ verifierPc'[v] = pc /\ verifierWork'[v] = work
         /\ \A u \in Verifiers \ {v} : /\ verifierPc'[u] = verifierPc[u]
                                       /\ verifierWork'[u] = verifierWork[u]
         /\ pc \in {"check", "asleep", "verify", "signal", "done"} =>
                verifierPc' \in [Verifiers -> {"check", "asleep", "verify", "signal", "done"}]
         /\ work \in Blocks \cup {NoBlock} => verifierWork' \in [Verifiers -> Blocks \cup {NoBlock}]
  BY DEF BQTypeOK, StepVerifier

\* A block comes into m_future, sorted by time.
LEMMA InsertTypes ==
  ASSUME NEW b \in Blocks, m_future \in Seq(Blocks)
  PROVE  InsertFuture(b) \in Seq(Blocks) /\ Len(InsertFuture(b)) = Len(m_future) + 1
<1> DEFINE due == {i \in DOMAIN m_future : Timestamp[m_future[i]] <= Timestamp[b]}
           k == Cardinality(due)
<1>1. InsertFuture(b) = SubSeq(m_future, 1, k) \o <<b>> \o SubSeq(m_future, k + 1, Len(m_future))
  BY DEF InsertFuture
<1>2. Len(m_future) \in Nat /\ DOMAIN m_future = 1..Len(m_future)
  OBVIOUS
<1>3. due \in SUBSET (1..Len(m_future))
  BY <1>2
<1> HIDE DEF due
<1>4. k \in 0..Len(m_future)
  BY <1>2, <1>3, RankFacts
<1> HIDE DEF k
<1>5. /\ SubSeq(m_future, 1, k) \in Seq(Blocks) /\ Len(SubSeq(m_future, 1, k)) = k
      /\ SubSeq(m_future, k + 1, Len(m_future)) \in Seq(Blocks)
      /\ Len(SubSeq(m_future, k + 1, Len(m_future))) = Len(m_future) - k
  BY <1>4, SplitFacts
<1> DEFINE x == SubSeq(m_future, 1, k)
           y == SubSeq(m_future, k + 1, Len(m_future))
<1>6. <<b>> \in Seq(Blocks) /\ Len(<<b>>) = 1
  OBVIOUS
<1> HIDE DEF x, y
<1>7. x \o <<b>> \in Seq(Blocks) /\ Len(x \o <<b>>) = k + 1
  BY <1>5, <1>6 DEF x
<1>8. (x \o <<b>>) \o y \in Seq(Blocks) /\ Len((x \o <<b>>) \o y) = (k + 1) + (Len(m_future) - k)
  BY <1>5, <1>7, ConcatProperties DEF y
<1>9. (k + 1) + (Len(m_future) - k) = Len(m_future) + 1
  BY <1>2, <1>4
<1> QED BY <1>1, <1>8, <1>9 DEF x, y

\* The types, operation by operation.
LEMMA ImportTypes ==
  ASSUME BQTypeOK, NEW b \in Blocks, NEW isOurs \in BOOLEAN, import(b, isOurs)
  PROVE  BQTypeOK'
<1> USE DEF setVars, queueVars, loopVars, UpdateBad
<1>1. /\ m_lock = "free"
      /\ UNCHANGED <<m_drainingDifficulty, verifierWork, m_deleting, m_syncBlockQueue, chain, now>>
      /\ \/ UNCHANGED <<setVars, queueVars, m_difficulty, m_future, loopVars, verifierPc>>
         \/ QueueForFuture(b) \/ RefuseBadChain(b) \/ QueueUnknown(b) \/ QueueReady(b)
  BY DEF import
<1>2. CASE UNCHANGED <<setVars, queueVars, m_difficulty, m_future, loopVars, verifierPc>>
  BY <1>1, <1>2 DEF BQTypeOK
<1>3. CASE QueueForFuture(b)
  <2>1. InsertFuture(b) \in Seq(Blocks)
    BY InsertTypes DEF BQTypeOK
  <2> QED BY <1>1, <1>3, <2>1 DEF BQTypeOK, QueueForFuture
<1>4. CASE RefuseBadChain(b)
  BY <1>1, <1>4 DEF BQTypeOK, RefuseBadChain
<1>5. CASE QueueUnknown(b)
  <2>1. Parent[b] \in Hashes /\ Append(m_unknown[Parent[b]], b) \in Seq(Blocks)
    BY HashFacts DEF BQTypeOK
  <2>2. m_unknown' \in [Hashes -> Seq(Blocks)]
    BY <1>5, <2>1 DEF BQTypeOK, QueueUnknown
  <2> QED BY <1>1, <1>5, <2>2 DEF BQTypeOK, QueueUnknown
<1>6. CASE QueueReady(b)
  <2>1. /\ verifierPc' \in [Verifiers -> {"check", "asleep", "verify", "signal", "done"}]
        /\ \A v \in Verifiers : verifierPc'[v] = "verify" <=> verifierPc[v] = "verify"
    BY <1>6, NotifyFacts DEF QueueReady
  <2>2. <<b>> # <<>> /\ <<b>> \in Seq(Blocks)
    OBVIOUS
  <2> QED BY <1>1, <1>6, <2>1, <2>2 DEF BQTypeOK, QueueReady
<1> QED BY <1>1, <1>2, <1>3, <1>4, <1>5, <1>6

LEMMA ReleaseTypes ==
  ASSUME BQTypeOK, NEW p \in Hashes, ReleaseUnknown(p)
  PROVE  /\ m_unverified' \in Seq(Blocks) /\ m_unknown' \in [Hashes -> Seq(Blocks)]
         /\ m_unknownSet' \subseteq Blocks /\ m_readySet' \subseteq Blocks
<1>1. m_unknown[p] \in Seq(Blocks) /\ RangeOf(m_unknown[p]) \subseteq Blocks
  BY SeqFacts DEF BQTypeOK
<1> QED BY <1>1, ConcatFacts DEF BQTypeOK, ReleaseUnknown, NewReady

LEMMA NoteReadyTypes ==
  ASSUME BQTypeOK, NoteReady
  PROVE  BQTypeOK'
<1> DEFINE p == Head(goodQueue)
<1>1. /\ m_lock = "noteReady" /\ ReleaseUnknown(p) /\ goodQueue' = NextGood(p)
      /\ \/ goodQueue' = <<>> /\ m_lock' = "free" /\ notify' = FALSE
         \/ goodQueue' # <<>> /\ m_lock' = m_lock /\ notify' = (notify \/ m_unknown[p] # <<>>)
      /\ NotifyAll \/ Wake({})
  BY DEF NoteReady
<1>2. goodQueue # <<>> /\ goodQueue \in Seq(Blocks)
  BY <1>1 DEF BQTypeOK
<1>3. p \in Blocks /\ p \in Hashes /\ Tail(goodQueue) \in Seq(Blocks)
  BY <1>2, HashFacts
<1> HIDE DEF p
<1>4. m_unknown[p] \in Seq(Blocks) /\ NextGood(p) \in Seq(Blocks)
  BY <1>3 DEF BQTypeOK, NextGood
<1>5. /\ m_unverified' \in Seq(Blocks) /\ m_unknown' \in [Hashes -> Seq(Blocks)]
      /\ m_unknownSet' \subseteq Blocks /\ m_readySet' \subseteq Blocks
  BY <1>1, <1>3, ReleaseTypes
<1>6. /\ verifierPc' \in [Verifiers -> {"check", "asleep", "verify", "signal", "done"}]
      /\ \A v \in Verifiers : verifierPc'[v] = "verify" <=> verifierPc[v] = "verify"
  BY <1>1, NotifyFacts
<1>7. notify' \in BOOLEAN
  BY <1>1 DEF BQTypeOK
<1>8. UNCHANGED <<m_drainingSet, m_knownBad, m_verified, m_verifying, m_future, diffVars,
                   badLeft, verifierWork, m_deleting, m_syncBlockQueue, chain, now>>
  BY <1>1 DEF ReleaseUnknown
<1> QED BY <1>1, <1>4, <1>5, <1>6, <1>7, <1>8 DEF BQTypeOK, diffVars

LEMMA RetryStepTypes ==
  ASSUME BQTypeOK, RetryStep
  PROVE  BQTypeOK'
<1>1. m_lock = "retryAllUnknown"
  BY DEF RetryStep
<1>2. ASSUME NEW p \in Hashes, ReleaseUnknown(p), NotifyOne, UNCHANGED <<m_lock, goodQueue, notify>>
      PROVE  BQTypeOK'
  <2>1. /\ m_unverified' \in Seq(Blocks) /\ m_unknown' \in [Hashes -> Seq(Blocks)]
        /\ m_unknownSet' \subseteq Blocks /\ m_readySet' \subseteq Blocks
    BY <1>2, ReleaseTypes
  <2>2. /\ verifierPc' \in [Verifiers -> {"check", "asleep", "verify", "signal", "done"}]
        /\ \A v \in Verifiers : verifierPc'[v] = "verify" <=> verifierPc[v] = "verify"
    BY <1>2, NotifyFacts
  <2>3. UNCHANGED <<m_drainingSet, m_knownBad, m_verified, m_verifying, m_future, diffVars,
                     badLeft, verifierWork, m_deleting, m_syncBlockQueue, chain, now>>
    BY <1>2 DEF ReleaseUnknown
  <2> QED BY <1>2, <2>1, <2>2, <2>3 DEF BQTypeOK, diffVars
<1>3. ASSUME NotifyAll, m_lock' = "free",
             UNCHANGED <<setVars, queueVars, diffVars, goodQueue, badLeft, notify,
                         verifierWork, m_deleting, m_future, m_syncBlockQueue, chain, now>>
      PROVE  BQTypeOK'
  <2>1. /\ verifierPc' \in [Verifiers -> {"check", "asleep", "verify", "signal", "done"}]
        /\ \A v \in Verifiers : verifierPc'[v] = "verify" <=> verifierPc[v] = "verify"
    BY <1>3, NotifyFacts
  <2> QED BY <1>1, <1>3, <2>1 DEF BQTypeOK, setVars, queueVars, diffVars
<1> QED BY <1>2, <1>3 DEF RetryStep

LEMMA ViewTypes ==
  ASSUME NEW q \in View, SetBadView(q)
  PROVE  /\ m_readySet' \subseteq Blocks /\ m_unknownSet' \subseteq Blocks
         /\ m_knownBad' \subseteq Blocks \cup {EmptyListSHA3}
         /\ m_unknown' \in [Hashes -> Seq(Blocks)]
         /\ m_verified' \in Seq(Blocks) /\ m_unverified' \in Seq(Blocks)
         /\ m_verifying' \in Seq(JobSet) /\ BadView' = q
<1>1. /\ m_verified' = q.verified /\ m_verifying' = q.verifying /\ m_unverified' = q.unverified
      /\ m_readySet' = q.ready /\ m_unknownSet' = q.unknownSet /\ m_unknown' = q.unknown
      /\ m_knownBad' = q.bad
  BY DEF SetBadView
<1>2. BadView' = q
  BY <1>1 DEF BadView, View
<1> QED BY <1>1, <1>2 DEF View

LEMMA CollectBadTypes ==
  ASSUME BQTypeOK, QueuesSound, CollectBad
  PROVE  BQTypeOK' /\ BadView' = collectUnknownBad(BadView, {Head(badLeft)})
<1>1. collectUnknownBad(BadView, {Head(badLeft)}) \in View
  BY SoundFacts, CollectFacts
<1>2. badLeft # <<>> /\ badLeft \in Seq(Blocks) /\ Tail(badLeft) \in Seq(Blocks)
  BY DEF BQTypeOK, CollectBad
<1> QED BY <1>1, <1>2, ViewTypes
         DEF BQTypeOK, CollectBad, diffVars, threadVars

LEMMA MoreBadTypes ==
  ASSUME BQTypeOK, QueuesSound, MoreBad
  PROVE  BQTypeOK' /\ BadView' = BadVerifying(BadUnverified(BadVerified(BadView)))
<1> DEFINE q == BadVerifying(BadUnverified(BadVerified(BadView)))
<1>1. q \in View
  BY TurnFacts DEF QueuesSound, Sound
<1> HIDE DEF q
<1>2. SetBadView(q)
  BY DEF MoreBad, q
<1>3. BadView' = q
  BY <1>1, <1>2, ViewTypes
<1>4. m_lock' \in {"moreBad", "updated", "updateBad"} /\ (m_lock' = "updateBad" => badLeft # <<>>)
  BY DEF MoreBad
<1> QED BY <1>1, <1>2, <1>3, <1>4, ViewTypes
         DEF BQTypeOK, MoreBad, diffVars, threadVars, q

-----------------------------------------------------------------------------
(* A verifier's steps, one by one: the lock, the jobs, a throw.            *)

LEMMA TakeJobTypes ==
  ASSUME BQTypeOK, NEW v \in Verifiers, TakeJob(v)
  PROVE  BQTypeOK'
<1>1. UNCHANGED <<setVars, diffVars, loopVars, m_deleting, m_future, m_syncBlockQueue, chain, now>>
  BY DEF TakeJob
<1>2. ASSUME NEW pc \in {"done", "asleep"}, StepVerifier(v, pc, NoBlock), UNCHANGED queueVars
      PROVE  BQTypeOK'
  <2>1. verifierPc' \in [Verifiers -> {"check", "asleep", "verify", "signal", "done"}]
        /\ verifierWork' \in [Verifiers -> Blocks \cup {NoBlock}]
    BY <1>2, StepVerifierFacts
  <2>2. \A u \in Verifiers : verifierPc'[u] = "verify" <=> verifierWork'[u] # NoBlock
    BY <1>2, StepVerifierFacts DEF BQTypeOK
  <2> QED BY <1>1, <1>2, <2>1, <2>2 DEF BQTypeOK, setVars, queueVars, diffVars, loopVars
<1>3. ASSUME m_unverified # <<>>, StepVerifier(v, "verify", Head(m_unverified)),
             m_unverified' = Tail(m_unverified),
             m_verifying' = Append(m_verifying, Job(Head(m_unverified), FALSE)),
             UNCHANGED m_verified
      PROVE  BQTypeOK'
  <2>1. Head(m_unverified) \in Blocks /\ Tail(m_unverified) \in Seq(Blocks)
    BY <1>3, TailFacts DEF BQTypeOK
  <2>2. Job(Head(m_unverified), FALSE) \in JobSet
    BY <2>1 DEF Job, JobSet
  <2>a. m_verifying \in Seq(JobSet)
    BY DEF BQTypeOK
  <2>3. m_verifying' \in Seq(JobSet) /\ m_unverified' \in Seq(Blocks)
    BY <1>3, <2>1, <2>2, <2>a, AppendFacts
  <2>4. verifierPc' \in [Verifiers -> {"check", "asleep", "verify", "signal", "done"}]
        /\ verifierWork' \in [Verifiers -> Blocks \cup {NoBlock}]
    BY <1>3, <2>1, StepVerifierFacts
  <2>5. \A u \in Verifiers : verifierPc'[u] = "verify" <=> verifierWork'[u] # NoBlock
    <3>1. /\ verifierPc'[v] = "verify" /\ verifierWork'[v] = Head(m_unverified)
          /\ \A u \in Verifiers \ {v} : /\ verifierPc'[u] = verifierPc[u]
                                        /\ verifierWork'[u] = verifierWork[u]
      BY <1>3, StepVerifierFacts
    <3>2. Head(m_unverified) # NoBlock
      BY <2>1, HashFacts
    <3>3. \A u \in Verifiers : verifierPc[u] = "verify" <=> verifierWork[u] # NoBlock
      BY DEF BQTypeOK
    <3> QED BY <3>1, <3>2, <3>3
  <2> QED BY <1>1, <1>3, <2>3, <2>4, <2>5 DEF BQTypeOK, setVars, queueVars, diffVars, loopVars
<1> QED BY <1>2, <1>3 DEF TakeJob

\* A verifier that is done with its job.
LEMMA RestVerifier ==
  ASSUME BQTypeOK, NEW v \in Verifiers, NEW pc \in {"check", "signal"}, StepVerifier(v, pc, NoBlock)
  PROVE  /\ verifierPc' \in [Verifiers -> {"check", "asleep", "verify", "signal", "done"}]
         /\ verifierWork' \in [Verifiers -> Blocks \cup {NoBlock}]
         /\ \A u \in Verifiers : verifierPc'[u] = "verify" <=> verifierWork'[u] # NoBlock
  BY StepVerifierFacts DEF BQTypeOK

\* What a verifier whose job is the block h drains when verifyBlock throws ...
LEMMA ThrowFacts ==
  ASSUME m_verifying \in Seq(JobSet), HashOnce(m_verifying), NEW h \in Blocks
  PROVE  LET js == Without(m_verifying, {Job(h, FALSE)})
         IN  /\ js \in Seq(JobSet) /\ HashOnce(js)
             /\ RangeOf(js) = RangeOf(m_verifying) \ {Job(h, FALSE)}
  BY WithoutFacts, WithoutOnce

\* ... and the jobs as they are when it returns.
Marked(h) ==
    LET mine == {i \in DOMAIN m_verifying : m_verifying[i] = Job(h, FALSE)}
    IN  [i \in DOMAIN m_verifying |->
            IF i \in mine /\ \A j \in mine : i <= j THEN Job(h, TRUE) ELSE m_verifying[i]]

\* Marking a job finished changes that job only.
LEMMA MarkedFacts ==
  ASSUME m_verifying \in Seq(JobSet), HashOnce(m_verifying), NEW h \in Blocks
  PROVE  /\ Marked(h) \in Seq(JobSet) /\ Len(Marked(h)) = Len(m_verifying)
         /\ HashOnce(Marked(h)) /\ HashesOf(Marked(h)) = HashesOf(m_verifying)
         /\ RangeOf(Marked(h)) \subseteq (RangeOf(m_verifying) \cup {Job(h, TRUE)}) \ {Job(h, FALSE)}
         /\ \A i \in DOMAIN m_verifying : /\ Marked(h)[i].hash = m_verifying[i].hash
                                          /\ m_verifying[i] # Job(h, FALSE) =>
                                                Marked(h)[i] = m_verifying[i]
<1> DEFINE mine == {i \in DOMAIN m_verifying : m_verifying[i] = Job(h, FALSE)}
           t == [i \in DOMAIN m_verifying |->
                  IF i \in mine /\ \A j \in mine : i <= j THEN Job(h, TRUE) ELSE m_verifying[i]]
<1>1. Marked(h) = t
  BY DEF Marked
<1>2. /\ Len(m_verifying) \in Nat /\ DOMAIN m_verifying = 1..Len(m_verifying)
      /\ \A i \in DOMAIN m_verifying : m_verifying[i] \in JobSet
  OBVIOUS
<1>3. Job(h, TRUE) \in JobSet /\ Job(h, TRUE).hash = h /\ Job(h, FALSE).hash = h
      /\ Job(h, FALSE) # Job(h, TRUE)
  BY DEF Job, JobSet
<1>4. \A i, j \in mine : i = j
  BY DEF HashOnce
<1>5. \A i \in mine : i \in 1..Len(m_verifying)
  BY <1>2
<1>6. \A i \in mine : \A j \in mine : i <= j
  <2> HIDE DEF mine
  <2> QED BY <1>2, <1>4, <1>5
<1>7. \A i \in DOMAIN m_verifying : /\ i \in mine => t[i] = Job(h, TRUE)
                                    /\ i \notin mine => t[i] = m_verifying[i]
  BY <1>6
<1>8. DOMAIN t = DOMAIN m_verifying /\ \A i \in DOMAIN t : t[i] \in JobSet
  BY <1>2, <1>3, <1>7
<1>9. \A i \in DOMAIN m_verifying : /\ t[i].hash = m_verifying[i].hash
                                    /\ m_verifying[i] # Job(h, FALSE) => t[i] = m_verifying[i]
  BY <1>3, <1>7
<1>10. \A i \in DOMAIN m_verifying : t[i] # Job(h, FALSE)
  BY <1>3, <1>7
<1>11. t = [i \in 1..Len(m_verifying) |-> t[i]] /\ \A i \in 1..Len(m_verifying) : t[i] \in JobSet
  BY <1>2, <1>8
<1> HIDE DEF t
<1>12. t \in Seq(JobSet) /\ Len(t) = Len(m_verifying)
  <2>1. t \in [1..Len(m_verifying) -> JobSet]
    BY <1>11
  <2> QED BY <1>2, <2>1
<1>13. HashOnce(t)
  BY <1>8, <1>9 DEF HashOnce
<1>14. HashesOf(t) = HashesOf(m_verifying)
  <2>1. HashesOf(t) = {t[i].hash : i \in DOMAIN t}
    BY DEF HashesOf, RangeOf
  <2>2. HashesOf(m_verifying) = {m_verifying[i].hash : i \in DOMAIN m_verifying}
    BY DEF HashesOf, RangeOf
  <2>3. \A i \in DOMAIN m_verifying : t[i].hash = m_verifying[i].hash
    BY <1>9
  <2>4. {t[i].hash : i \in DOMAIN t} = {m_verifying[i].hash : i \in DOMAIN m_verifying}
    BY <1>8, <2>3
  <2> QED BY <2>1, <2>2, <2>4
<1>15. RangeOf(t) \subseteq (RangeOf(m_verifying) \cup {Job(h, TRUE)}) \ {Job(h, FALSE)}
  BY <1>7, <1>8, <1>10 DEF RangeOf
<1> QED BY <1>1, <1>9, <1>12, <1>13, <1>14, <1>15

-----------------------------------------------------------------------------
(* drainVerified under the invariant.                                      *)

\* What drainVerified needs of the jobs js it works on, and of known and ready.
DrainReady(js, known, ready) ==
    /\ js \in Seq(JobSet) /\ HashOnce(js) /\ HashesOf(js) \subseteq HashesOf(m_verifying)
    /\ \A e \in RangeOf(js) : e.done => e.hash \in ready \ Invalid
    /\ m_knownBad \subseteq known /\ known \subseteq Blocks \cup {EmptyListSHA3}
    /\ ready \subseteq m_readySet /\ m_readySet \ ready \subseteq known \cap Invalid

\* drainVerified leaves the queues sound.
LEMMA DrainSound ==
  ASSUME QueuesSound, m_lock = "free", UNCHANGED m_lock,
         UNCHANGED <<m_unverified, m_unknown, m_unknownSet>>,
         NEW js, NEW known, NEW ready, DrainReady(js, known, ready),
         drainVerified(js, known, ready)
  PROVE  \E F, D \in SUBSET Blocks :
            /\ Drains(js, known, ready, F, D)
            /\ F \subseteq ready \ Invalid
            /\ QueuedIn(BadView') = (QueuedIn(BadView) \ (HashesOf(m_verifying) \ HashesOf(js))) \ D
            /\ QueuesSound'
<1>1. /\ BadView \in View /\ Waits(BadView)
      /\ Injective(m_verified) /\ Injective(m_unverified) /\ HashOnce(m_verifying)
      /\ RangeOf(m_verified) \cap RangeOf(m_unverified) = {}
      /\ (RangeOf(m_verified) \cup RangeOf(m_unverified)) \cap HashesOf(m_verifying) = {}
      /\ QueuedIn(BadView) \subseteq m_readySet \cup m_knownBad
      /\ FinishedIn(BadView) \subseteq m_readySet
      /\ (RangeOf(m_verified) \cup FinishedIn(BadView)) \cap Invalid = {}
      /\ m_unknownSet \cap (m_readySet \cup QueuedIn(BadView)) = {}
      /\ QueuedIn(BadView) \ Invalid \subseteq m_readySet
  BY SoundFacts DEF QueuesSound
<1>2. /\ m_verified \in Seq(Blocks) /\ m_readySet \subseteq Blocks /\ m_unverified \in Seq(Blocks)
      /\ m_unknownSet \subseteq Blocks /\ m_unknown \in [Hashes -> Seq(Blocks)]
  BY <1>1 DEF View, BadView
<1>3. /\ js \in Seq(JobSet) /\ HashOnce(js) /\ HashesOf(js) \subseteq HashesOf(m_verifying)
      /\ \A e \in RangeOf(js) : e.done => e.hash \in ready \ Invalid
      /\ m_knownBad \subseteq known /\ known \subseteq Blocks \cup {EmptyListSHA3}
      /\ ready \subseteq m_readySet /\ m_readySet \ ready \subseteq known \cap Invalid
  BY DEF DrainReady
<1>4. RangeOf(m_verified) \cap HashesOf(js) = {}
  BY <1>1, <1>3
<1>5. \E F \in SUBSET Blocks : \E D \in SUBSET Blocks : Drains(js, known, ready, F, D)
  BY <1>1, <1>2, <1>3, <1>4, DrainVerifiedFacts
<1>6. PICK F \in SUBSET Blocks : \E D \in SUBSET Blocks : Drains(js, known, ready, F, D)
  BY <1>5
<1>7. PICK D \in SUBSET Blocks : Drains(js, known, ready, F, D)
  BY <1>6
<1>8. /\ D \subseteq F /\ F \subseteq {e.hash : e \in {x \in RangeOf(js) : x.done}}
      /\ m_verifying' \in Seq(JobSet) /\ HashOnce(m_verifying')
      /\ HashesOf(m_verifying') = HashesOf(js) \ F /\ RangeOf(m_verifying') \subseteq RangeOf(js)
      /\ m_verified' \in Seq(Blocks) /\ Injective(m_verified')
      /\ RangeOf(m_verified') = RangeOf(m_verified) \cup (F \ D)
      /\ m_knownBad' = known \cup D /\ m_readySet' = ready \ D
  BY <1>7 DEF Drains
<1>9. F \subseteq ready \ Invalid /\ F \subseteq HashesOf(js)
  BY <1>3, <1>8 DEF HashesOf
<1>10. /\ QueuedIn(BadView) = RangeOf(m_verified) \cup RangeOf(m_unverified) \cup HashesOf(m_verifying)
       /\ QueuedIn(BadView') = RangeOf(m_verified') \cup RangeOf(m_unverified) \cup HashesOf(m_verifying')
       /\ FinishedIn(BadView') = {e.hash : e \in {x \in RangeOf(m_verifying') : x.done}}
  BY DEF QueuedIn, BadView, FinishedIn
<1>11. QueuedIn(BadView') = (QueuedIn(BadView) \ (HashesOf(m_verifying) \ HashesOf(js))) \ D
  BY <1>1, <1>3, <1>8, <1>9, <1>10
<1>12. FinishedIn(BadView') \subseteq m_readySet' /\ FinishedIn(BadView') \cap Invalid = {}
  <2>1. FinishedIn(BadView') \subseteq HashesOf(m_verifying') \cap (ready \ Invalid)
    BY <1>3, <1>8, <1>10 DEF HashesOf
  <2> QED BY <1>8, <2>1
<1>13. QueuedIn(BadView') \subseteq m_readySet' \cup m_knownBad'
  BY <1>1, <1>3, <1>8, <1>11
<1>14. QueuedIn(BadView') \ Invalid \subseteq m_readySet'
  BY <1>1, <1>3, <1>8, <1>11
<1>15. /\ RangeOf(m_verified') \cap RangeOf(m_unverified') = {}
       /\ (RangeOf(m_verified') \cup RangeOf(m_unverified')) \cap HashesOf(m_verifying') = {}
  BY <1>1, <1>3, <1>8, <1>9
<1>16. m_unknownSet' \cap (m_readySet' \cup QueuedIn(BadView')) = {}
  BY <1>1, <1>3, <1>8, <1>11
<1>17. RangeOf(m_verified') \cap Invalid = {}
  BY <1>1, <1>8, <1>9
<1>18. BadView' \in View
  BY <1>2, <1>3, <1>8 DEF View, BadView
<1>19. /\ BadView'.verified = m_verified' /\ BadView'.verifying = m_verifying'
       /\ BadView'.unverified = m_unverified' /\ BadView'.ready = m_readySet'
       /\ BadView'.unknownSet = m_unknownSet' /\ BadView'.unknown = m_unknown'
       /\ BadView'.bad = m_knownBad'
  BY DEF BadView
<1>20. Waits(BadView')
  BY <1>1, <1>19, ViewFields DEF Waits
<1>21. Sound(BadView')
  BY <1>1, <1>8, <1>12, <1>13, <1>15, <1>16, <1>17, <1>18, <1>19, <1>20 DEF Sound
<1>22. QueuesSound'
  BY <1>14, <1>21 DEF QueuesSound
<1> QED BY <1>7, <1>9, <1>11, <1>22

-----------------------------------------------------------------------------
(* The difficulty.                                                           *)

\* Finite subsets of Blocks, and their sizes.
LEMMA CardFacts ==
  ASSUME NEW S \in SUBSET Blocks
  PROVE  /\ IsFiniteSet(S) /\ Cardinality(S) \in Nat
         /\ \A T \in SUBSET S : IsFiniteSet(T) /\ Cardinality(T) \in Nat
                                /\ Cardinality(T) <= Cardinality(S)
         /\ \A T \in SUBSET Blocks : /\ Cardinality(S \cup T) <= Cardinality(S) + Cardinality(T)
                                     /\ T \subseteq S =>
                                          Cardinality(S \ T) = Cardinality(S) - Cardinality(T)
         /\ \A b \in Blocks : Cardinality(S \cup {b}) <= Cardinality(S) + 1
<1>1. \A T \in SUBSET Blocks : IsFiniteSet(T) /\ Cardinality(T) \in Nat
  BY BlocksAssumption, FS_Subset, FS_CardinalityType
<1>2. \A T \in SUBSET S : IsFiniteSet(T) /\ Cardinality(T) \in Nat /\ Cardinality(T) <= Cardinality(S)
  BY <1>1, FS_Subset
<1>3. ASSUME NEW T \in SUBSET Blocks
      PROVE  Cardinality(S \cup T) <= Cardinality(S) + Cardinality(T)
  <2>1. /\ Cardinality(S \cup T) = Cardinality(S) + Cardinality(T) - Cardinality(S \cap T)
        /\ Cardinality(S \cap T) \in Nat
    BY <1>1, FS_Union, FS_Intersection, FS_CardinalityType
  <2> QED BY <1>1, <2>1
<1>4. ASSUME NEW T \in SUBSET S
      PROVE  Cardinality(S \ T) = Cardinality(S) - Cardinality(T)
  <2>1. Cardinality(S \ T) = Cardinality(S) - Cardinality(S \cap T) /\ S \cap T = T
    BY <1>1, FS_Difference
  <2> QED BY <2>1
<1>5. ASSUME NEW b \in Blocks
      PROVE  Cardinality(S \cup {b}) <= Cardinality(S) + 1
  <2>1. Cardinality({b}) = 1
    BY FS_Singleton
  <2> QED BY <1>3, <2>1
<1> QED BY <1>1, <1>2, <1>3, <1>4, <1>5

\* Fewer blocks, and no less difficulty.
LEMMA FewerCovered ==
  ASSUME DifficultyCovers, BQTypeOK, BQTypeOK',
         m_readySet' \subseteq m_readySet, m_unknownSet' \subseteq m_unknownSet,
         UNCHANGED <<m_drainingSet, m_future, diffVars>>
  PROVE  DifficultyCovers'
<1>1. /\ m_readySet \subseteq Blocks /\ m_unknownSet \subseteq Blocks /\ m_drainingSet \subseteq Blocks
      /\ m_difficulty \in Int /\ Len(m_future) \in Nat
  BY DEF BQTypeOK
<1>2. /\ Cardinality(m_readySet) \in Nat /\ Cardinality(m_unknownSet) \in Nat
      /\ Cardinality(m_drainingSet) \in Nat
      /\ Cardinality(m_readySet') \in Nat /\ Cardinality(m_unknownSet') \in Nat
      /\ Cardinality(m_readySet') <= Cardinality(m_readySet)
      /\ Cardinality(m_unknownSet') <= Cardinality(m_unknownSet)
  BY <1>1, CardFacts
<1> QED BY <1>1, <1>2 DEF DifficultyCovers, diffVars

-----------------------------------------------------------------------------
(* Every step keeps the invariant: a verifier takes a job.                 *)

\* The client's thread and the bounds do not move.
OthersRest == UNCHANGED <<clientVars, syncWaiting, boundVars>>

LEMMA OthersRestFacts ==
  ASSUME OthersRest
  PROVE  /\ UNCHANGED <<clientPc, blocks, badBlocks, wasFull, more, todo, syncWaiting,
                        transients, clears, retries>>
         /\ TypeOK /\ BQTypeOK' => TypeOK'
<1>1. UNCHANGED <<clientPc, blocks, badBlocks, wasFull, more, todo, syncWaiting,
                  transients, clears, retries>>
  BY DEF OthersRest, clientVars, boundVars
<1> QED BY <1>1 DEF TypeOK, At

\* A verifier takes the first unverified block, or goes to sleep.
LEMMA TakeJobKeeps ==
  ASSUME IInv, NEW v \in Verifiers, TakeJob(v), OthersRest
  PROVE  IInv'
<1>1. BQTypeOK /\ BQTypeOK' /\ TypeOK'
  BY TakeJobTypes, OthersRestFacts DEF IInv, TypeOK
<1>2. /\ UNCHANGED <<setVars, diffVars, loopVars, m_deleting, m_future, m_syncBlockQueue, chain, now>>
      /\ UNCHANGED <<clientPc, blocks, badBlocks, clears>>
  BY OthersRestFacts DEF TakeJob
<1>3. /\ UNCHANGED <<m_readySet, m_drainingSet, m_unknownSet, m_knownBad, m_unknown>>
      /\ UNCHANGED <<m_lock, goodQueue, badLeft, notify>>
  BY <1>2 DEF setVars, loopVars
<1>4. LockTells' /\ ParentMissing' /\ DifficultyCovers'
  <2>1. LockTells'
    BY <1>2, <1>3 DEF IInv, LockTells, At
  <2>2. ParentMissing'
    BY <1>2, <1>3 DEF IInv, ParentMissing, isKnown
  <2>3. DifficultyCovers'
    BY <1>2, <1>3 DEF IInv, DifficultyCovers, diffVars
  <2> QED BY <2>1, <2>2, <2>3
<1>5. verifierPc[v] = "check" /\ verifierWork[v] = NoBlock
  BY <1>1 DEF TakeJob, BQTypeOK
<1>6. QueuesSound
  BY DEF IInv
<1>7. /\ Injective(m_verified) /\ Injective(m_unverified) /\ HashOnce(m_verifying)
      /\ RangeOf(m_verified) \cap RangeOf(m_unverified) = {}
      /\ (RangeOf(m_verified) \cup RangeOf(m_unverified)) \cap HashesOf(m_verifying) = {}
      /\ QueuedIn(BadView) \subseteq m_readySet \cup m_knownBad
      /\ FinishedIn(BadView) \subseteq m_readySet
      /\ (RangeOf(m_verified) \cup FinishedIn(BadView)) \cap Invalid = {}
      /\ m_unknownSet \cap (m_readySet \cup QueuedIn(BadView)) = {}
      /\ BadView \in View /\ Waits(BadView)
  BY <1>6, SoundFacts
<1>8. /\ m_verified \in Seq(Blocks) /\ m_unverified \in Seq(Blocks) /\ m_verifying \in Seq(JobSet)
      /\ \A e \in RangeOf(m_verifying) : e \in JobSet /\ e.hash \in Blocks
      /\ Len(m_verifying) \in Nat
  <2>1. m_verified \in Seq(Blocks) /\ m_unverified \in Seq(Blocks) /\ m_verifying \in Seq(JobSet)
    BY <1>1 DEF BQTypeOK
  <2>2. \A e \in RangeOf(m_verifying) : e \in JobSet
    BY <2>1, SeqFacts
  <2> QED BY <2>1, <2>2 DEF JobSet
<1>9. ASSUME NEW pc \in {"done", "asleep"}, StepVerifier(v, pc, NoBlock), UNCHANGED queueVars,
             pc = "asleep" => m_unverified = <<>>
      PROVE  QueuesSound' /\ SleepersSeeNothing' /\ Unspoilt' /\ OneFate'
  <2>1. /\ UNCHANGED <<m_verified, m_verifying, m_unverified>>
        /\ verifierPc'[v] = pc /\ \A u \in Verifiers : verifierWork'[u] = verifierWork[u]
        /\ \A u \in Verifiers \ {v} : verifierPc'[u] = verifierPc[u]
    BY <1>1, <1>5, <1>9, StepVerifierFacts DEF queueVars
  <2>2. QueuesSound'
    BY <1>3, <1>6, <2>1 DEF QueuesSound, BadView
  <2>3. SleepersSeeNothing'
    <3>1. CASE pc = "asleep"
      BY <1>9, <2>1, <3>1 DEF SleepersSeeNothing
    <3>2. CASE pc = "done"
      BY <2>1, <3>2 DEF SleepersSeeNothing, Asleep
    <3> QED BY <3>1, <3>2
  <2>4. Unspoilt'
    BY <1>3, <2>1 DEF IInv, Unspoilt, JobsRun, BadView, QueuedIn
  <2>5. OneFate'
    BY <1>2, <1>3, <2>1 DEF IInv, OneFate
  <2> QED BY <2>2, <2>3, <2>4, <2>5
<1>10. ASSUME m_unverified # <<>>, StepVerifier(v, "verify", Head(m_unverified)),
             m_unverified' = Tail(m_unverified),
             m_verifying' = Append(m_verifying, Job(Head(m_unverified), FALSE)),
             UNCHANGED m_verified
      PROVE  QueuesSound' /\ SleepersSeeNothing' /\ Unspoilt' /\ OneFate'
  <2> DEFINE h == Head(m_unverified)
             j == Job(h, FALSE)
  <2>1. /\ h \in Blocks /\ RangeOf(m_unverified) = {h} \cup RangeOf(m_unverified')
        /\ Injective(m_unverified') /\ h \notin RangeOf(m_unverified')
    BY <1>7, <1>8, <1>10, TailFacts
  <2>2. /\ verifierPc'[v] = "verify" /\ verifierWork'[v] = h
        /\ \A u \in Verifiers \ {v} : /\ verifierPc'[u] = verifierPc[u]
                                      /\ verifierWork'[u] = verifierWork[u]
    BY <1>1, <1>10, StepVerifierFacts
  <2>3. m_verifying' = Append(m_verifying, j)
    BY <1>10
  <2> HIDE DEF h
  <2>4. j \in JobSet /\ j.hash = h /\ j.done = FALSE
    BY <2>1 DEF Job, JobSet
  <2> HIDE DEF j
  <2>5. /\ RangeOf(m_verifying') = RangeOf(m_verifying) \cup {j}
        /\ m_verifying' # <<>>
        /\ h \notin HashesOf(m_verifying) => HashOnce(m_verifying')
    BY <1>7, <1>8, <2>3, <2>4, AppendFacts
  <2>6. HashesOf(m_verifying') = HashesOf(m_verifying) \cup {h}
    BY <2>4, <2>5 DEF HashesOf
  <2>7. h \notin HashesOf(m_verifying) /\ h \notin RangeOf(m_verified)
    BY <1>7, <2>1
  <2>8. QueuedIn(BadView') = QueuedIn(BadView)
    BY <1>10, <2>1, <2>6 DEF QueuedIn, BadView
  <2>9. FinishedIn(BadView') = FinishedIn(BadView)
    BY <2>4, <2>5 DEF FinishedIn, BadView
  <2>10. BadView' \in View /\ Waits(BadView')
    <3>1. BadView' \in View
      BY <1>1 DEF BQTypeOK, View, BadView
    <3>2. BadView'.unknownSet = BadView.unknownSet /\ BadView'.unknown = BadView.unknown
      BY <1>3 DEF BadView
    <3> QED BY <1>7, <3>1, <3>2 DEF Waits
  <2>11. /\ BadView'.verified = m_verified /\ BadView'.verifying = m_verifying'
         /\ BadView'.unverified = m_unverified' /\ BadView'.ready = m_readySet
         /\ BadView'.unknownSet = m_unknownSet /\ BadView'.bad = m_knownBad
    BY <1>3, <1>10 DEF BadView
  <2>12. Sound(BadView')
    BY <1>7, <2>1, <2>5, <2>6, <2>7, <2>8, <2>9, <2>10, <2>11 DEF Sound
  <2>13. QueuesSound'
    BY <1>3, <1>6, <2>8, <2>12 DEF QueuesSound
  <2>14. SleepersSeeNothing'
    BY <2>2 DEF SleepersSeeNothing, Asleep
  <2>15. ASSUME JobsRun PROVE JobsRun'
    <3>1. ASSUME NEW e \in RangeOf(m_verifying'), ~e.done
          PROVE  \E u \in Verifiers : verifierWork'[u] = e.hash
      <4>1. CASE e = j
        BY <2>2, <2>4, <4>1
      <4>2. CASE e \in RangeOf(m_verifying)
        <5>1. PICK u \in Verifiers : verifierWork[u] = e.hash
          BY <2>15, <3>1, <4>2 DEF JobsRun
        <5>2. u # v
          BY <1>5, <1>8, <4>2, <5>1, HashFacts
        <5> QED BY <2>2, <5>1, <5>2
      <4> QED BY <2>5, <4>1, <4>2
    <3>2. ~Head(m_verifying').done
      <4>1. CASE m_verifying = <<>>
        <5>1. Head(m_verifying') = j
          BY <2>3, <4>1
        <5> QED BY <2>4, <5>1
      <4>2. CASE m_verifying # <<>>
        <5>1. Head(m_verifying') = Head(m_verifying)
          BY <1>8, <2>3, <2>4, <4>2
        <5> QED BY <2>15, <4>2, <5>1 DEF JobsRun
      <4> QED BY <4>1, <4>2
    <3> QED BY <3>1, <3>2 DEF JobsRun
  <2>16. Unspoilt'
    BY <1>3, <2>8, <2>15 DEF IInv, Unspoilt
  <2>17. OneFate'
    <3>1. h \in m_readySet \cup m_knownBad
      BY <1>7, <2>1 DEF QueuedIn, BadView
    <3> QED BY <1>2, <1>3, <2>2, <3>1 DEF IInv, OneFate
  <2> QED BY <2>13, <2>14, <2>16, <2>17
<1>11. QueuesSound' /\ SleepersSeeNothing' /\ Unspoilt' /\ OneFate'
  BY <1>9, <1>10 DEF TakeJob
<1> QED BY <1>1, <1>4, <1>11 DEF IInv

-----------------------------------------------------------------------------
(* A verification that throws.                                             *)

\* A verification throws: the block is bad, its job is gone.
LEMMA VerifyThrowsKeeps ==
  ASSUME IInv, NEW v \in Verifiers, VerifyThrows(v), OthersRest
  PROVE  IInv'
<1> DEFINE h == verifierWork[v]
           js == Without(m_verifying, {Job(h, FALSE)})
           known == m_knownBad \cup {h}
           ready == m_readySet \ {h}
<1>1. /\ verifierPc[v] = "verify" /\ h \in Invalid /\ m_lock = "free"
      /\ drainVerified(js, known, ready) /\ StepVerifier(v, "check", NoBlock)
      /\ UNCHANGED <<m_drainingSet, m_unknownSet, m_unknown, m_unverified, diffVars,
                     loopVars, m_deleting, m_future, m_syncBlockQueue, chain, now>>
  BY DEF VerifyThrows
<1>2. h \in Blocks
  BY <1>1, BlocksAssumption
<1>3. QueuesSound /\ BQTypeOK
  BY DEF IInv, TypeOK
<1>4. /\ m_verifying \in Seq(JobSet) /\ HashOnce(m_verifying)
      /\ QueuedIn(BadView) \subseteq m_readySet \cup m_knownBad
      /\ FinishedIn(BadView) \subseteq m_readySet /\ FinishedIn(BadView) \cap Invalid = {}
      /\ m_unknownSet \cap m_readySet = {}
      /\ m_knownBad \subseteq Blocks \cup {EmptyListSHA3}
  BY <1>3, SoundFacts DEF BQTypeOK
<1>5. /\ js \in Seq(JobSet) /\ HashOnce(js)
      /\ RangeOf(js) = RangeOf(m_verifying) \ {Job(h, FALSE)}
  BY <1>2, <1>4, ThrowFacts
<1> HIDE DEF js
<1>6. DrainReady(js, known, ready)
  <2>1. HashesOf(js) \subseteq HashesOf(m_verifying)
    BY <1>5 DEF HashesOf
  <2>2. \A e \in RangeOf(js) : e.done => e.hash \in FinishedIn(BadView)
    BY <1>5 DEF FinishedIn, BadView
  <2> QED BY <1>1, <1>2, <1>4, <1>5, <2>1, <2>2 DEF DrainReady
<1>7. /\ UNCHANGED <<m_drainingSet, m_unknownSet, m_unknown, m_unverified, diffVars, chain,
                     m_future, m_deleting, m_syncBlockQueue, now>>
      /\ UNCHANGED <<m_lock, goodQueue, badLeft, notify>>
      /\ UNCHANGED <<clientPc, blocks, badBlocks, clears>>
  BY <1>1, OthersRestFacts DEF loopVars
<1> HIDE DEF h, known, ready
<1>8. \E F \in SUBSET Blocks : \E D \in SUBSET Blocks :
            /\ Drains(js, known, ready, F, D)
            /\ F \subseteq ready \ Invalid
            /\ QueuesSound'
  BY <1>1, <1>3, <1>6, <1>7, DrainSound
<1>9. PICK F \in SUBSET Blocks : \E D \in SUBSET Blocks :
            /\ Drains(js, known, ready, F, D)
            /\ F \subseteq ready \ Invalid
            /\ QueuesSound'
  BY <1>8
<1>10. PICK D \in SUBSET Blocks : /\ Drains(js, known, ready, F, D)
                                  /\ F \subseteq ready \ Invalid
                                  /\ QueuesSound'
  BY <1>9
<1>11. /\ D \subseteq ready
       /\ m_knownBad' = m_knownBad \cup {h} \cup D
       /\ m_readySet' = (m_readySet \ {h}) \ D
       /\ m_verifying' \in Seq(JobSet) /\ m_verified' \in Seq(Blocks)
  BY <1>10 DEF Drains, known, ready
<1>12. D \subseteq m_readySet
  BY <1>11 DEF ready
<1>13. /\ verifierPc'[v] = "check" /\ verifierWork'[v] = NoBlock
       /\ \A u \in Verifiers \ {v} : /\ verifierPc'[u] = verifierPc[u]
                                     /\ verifierWork'[u] = verifierWork[u]
       /\ verifierPc' \in [Verifiers -> {"check", "asleep", "verify", "signal", "done"}]
       /\ verifierWork' \in [Verifiers -> Blocks \cup {NoBlock}]
       /\ \A u \in Verifiers : verifierPc'[u] = "verify" <=> verifierWork'[u] # NoBlock
  <2>1. /\ verifierPc' \in [Verifiers -> {"check", "asleep", "verify", "signal", "done"}]
        /\ verifierWork' \in [Verifiers -> Blocks \cup {NoBlock}]
        /\ \A u \in Verifiers : verifierPc'[u] = "verify" <=> verifierWork'[u] # NoBlock
    BY <1>1, <1>3, RestVerifier
  <2> QED BY <1>1, <1>3, <2>1, StepVerifierFacts
<1>14. BQTypeOK' /\ TypeOK'
  <2>1. m_knownBad' \subseteq Blocks \cup {EmptyListSHA3} /\ m_readySet' \subseteq Blocks
    BY <1>2, <1>3, <1>11 DEF BQTypeOK
  <2>2. BQTypeOK'
    BY <1>3, <1>7, <1>11, <1>13, <2>1 DEF BQTypeOK, diffVars
  <2> QED BY <2>2, OthersRestFacts DEF IInv
<1>15. QueuesSound'
  BY <1>10
<1>16. LockTells'
  BY <1>7, <1>11 DEF IInv, LockTells, At
<1>17. SleepersSeeNothing'
  BY <1>13 DEF SleepersSeeNothing, Asleep
<1>18. Unspoilt'
  BY <1>11 DEF Unspoilt
<1>19. clears = 0 => h \in m_readySet \cup m_knownBad
  BY <1>1 DEF IInv, OneFate, h
<1>20. OneFate'
  <2> SUFFICES ASSUME clears = 0 PROVE OneFate!2'
    BY <1>7 DEF OneFate
  <2>1. /\ m_readySet \cap (m_drainingSet \cup m_knownBad) = {}
        /\ m_drainingSet \cap (m_unknownSet \cup m_knownBad) = {}
        /\ m_unknownSet \cap m_knownBad = {}
        /\ RangeOf(blocks) \cup RangeOf(badBlocks) \subseteq m_drainingSet
        /\ \A u \in Verifiers : verifierWork[u] \in Invalid =>
                                    verifierWork[u] \in m_readySet \cup m_knownBad
    BY DEF IInv, OneFate
  <2>2. h \in m_readySet \cup m_knownBad
    BY <1>19
  <2>3. /\ m_readySet' \cap (m_drainingSet' \cup m_knownBad') = {}
        /\ m_drainingSet' \cap (m_unknownSet' \cup m_knownBad') = {}
        /\ m_unknownSet' \cap m_knownBad' = {}
    BY <1>4, <1>7, <1>11, <1>12, <2>1, <2>2
  <2>4. RangeOf(blocks') \cup RangeOf(badBlocks') \subseteq m_drainingSet'
    BY <1>7, <2>1
  <2>5. \A u \in Verifiers : verifierWork'[u] \in Invalid =>
                                    verifierWork'[u] \in m_readySet' \cup m_knownBad'
    <3>1. NoBlock \notin Invalid
      BY BlocksAssumption
    <3>2. m_readySet \cup m_knownBad \subseteq m_readySet' \cup m_knownBad'
      BY <1>11
    <3> QED BY <1>13, <2>1, <3>1, <3>2
  <2> QED BY <2>3, <2>4, <2>5
<1>21. ParentMissing'
  <2> SUFFICES ASSUME clears = 0, NEW b \in m_unknownSet
               PROVE  /\ ~isKnown(Parent[b])' /\ Parent[b] \notin m_drainingSet'
                      /\ Parent[b] \in m_readySet' =>
                            m_lock' = "retryAllUnknown" \/ Parent[b] \in RangeOf(goodQueue')
                      /\ Parent[b] \in m_knownBad' => Parent[b] \in RangeOf(badLeft')
    BY <1>7 DEF ParentMissing
  <2>1. /\ ~isKnown(Parent[b]) /\ Parent[b] \notin m_drainingSet
        /\ Parent[b] \in m_readySet =>
                m_lock = "retryAllUnknown" \/ Parent[b] \in RangeOf(goodQueue)
        /\ Parent[b] \in m_knownBad => Parent[b] \in RangeOf(badLeft)
    BY DEF IInv, ParentMissing
  <2>2. goodQueue = <<>>
    BY <1>1, <1>3 DEF BQTypeOK
  <2>3. Parent[b] \notin m_readySet
    BY <1>1, <2>1, <2>2, EmptyFacts
  <2>4. Parent[b] \in m_knownBad' => Parent[b] \in m_knownBad
    BY <1>11, <1>12, <1>19, <2>3
  <2> QED BY <1>7, <1>11, <2>1, <2>3, <2>4 DEF isKnown
<1>22. DifficultyCovers'
  BY <1>3, <1>7, <1>11, <1>14, FewerCovered DEF IInv
<1> QED BY <1>14, <1>15, <1>16, <1>17, <1>18, <1>20, <1>21, <1>22 DEF IInv

-----------------------------------------------------------------------------
(* A verification that returns, and m_onReady.                             *)

\* A verification returns: the job is done, or m_verifying no longer holds it.
LEMMA VerifyReturnsKeeps ==
  ASSUME IInv, NEW v \in Verifiers, VerifyReturns(v), OthersRest
  PROVE  IInv'
<1> DEFINE h == verifierWork[v]
           mine == {i \in DOMAIN m_verifying : m_verifying[i] = Job(h, FALSE)}
           js == Marked(h)
<1>1. /\ verifierPc[v] = "verify" /\ h \notin Invalid /\ m_lock = "free"
      /\ \/ /\ 1 \in mine /\ drainVerified(js, m_knownBad, m_readySet)
            /\ StepVerifier(v, "signal", NoBlock)
         \/ /\ 1 \notin mine /\ m_verifying' = js
            /\ StepVerifier(v, "check", NoBlock)
            /\ UNCHANGED <<m_readySet, m_knownBad, m_verified>>
      /\ UNCHANGED <<m_drainingSet, m_unknownSet, m_unknown, m_unverified, diffVars,
                     loopVars, m_deleting, m_future, m_syncBlockQueue, chain, now>>
  BY DEF VerifyReturns, Marked
<1>2. QueuesSound /\ BQTypeOK
  BY DEF IInv, TypeOK
<1>3. h \in Blocks
  BY <1>1, <1>2 DEF BQTypeOK
<1>4. /\ m_verifying \in Seq(JobSet) /\ HashOnce(m_verifying)
      /\ QueuedIn(BadView) \ Invalid \subseteq m_readySet
      /\ HashesOf(m_verifying) \subseteq QueuedIn(BadView)
      /\ FinishedIn(BadView) \subseteq m_readySet /\ FinishedIn(BadView) \cap Invalid = {}
      /\ m_unknownSet \cap m_readySet = {}
      /\ m_knownBad \subseteq Blocks \cup {EmptyListSHA3}
      /\ m_verified \in Seq(Blocks) /\ Injective(m_verified)
  BY <1>1, <1>2, SoundFacts DEF BQTypeOK, QueuesSound, QueuedIn, BadView
<1>5. /\ js \in Seq(JobSet) /\ Len(js) = Len(m_verifying)
      /\ HashOnce(js) /\ HashesOf(js) = HashesOf(m_verifying)
      /\ RangeOf(js) \subseteq (RangeOf(m_verifying) \cup {Job(h, TRUE)}) \ {Job(h, FALSE)}
      /\ \A i \in DOMAIN m_verifying : m_verifying[i] # Job(h, FALSE) => js[i] = m_verifying[i]
  BY <1>3, <1>4, MarkedFacts
<1>6. \A e \in RangeOf(js) : e.done => e.hash \in m_readySet \ Invalid
  <2> SUFFICES ASSUME NEW e \in RangeOf(js), e.done PROVE e.hash \in m_readySet \ Invalid
    OBVIOUS
  <2>1. CASE e \in RangeOf(m_verifying)
    <3>1. e.hash \in FinishedIn(BadView)
      BY <2>1 DEF FinishedIn, BadView
    <3> QED BY <1>4, <3>1
  <2>2. CASE e = Job(h, TRUE)
    <3>1. e.hash = h
      BY <2>2 DEF Job
    <3>2. h \in HashesOf(js)
      BY <3>1 DEF HashesOf
    <3> QED BY <1>1, <1>4, <1>5, <3>1, <3>2
  <2> QED BY <1>5, <2>1, <2>2
<1>7. DrainReady(js, m_knownBad, m_readySet)
  BY <1>4, <1>5, <1>6 DEF DrainReady
<1>8. /\ UNCHANGED <<m_drainingSet, m_unknownSet, m_unknown, m_unverified, diffVars, chain,
                     m_future, m_deleting, m_syncBlockQueue, now>>
      /\ UNCHANGED <<m_lock, goodQueue, badLeft, notify>>
      /\ UNCHANGED <<clientPc, blocks, badBlocks, clears>>
  BY <1>1, OthersRestFacts DEF loopVars
\* A job that is not finished is one whose verifier goes on.
<1>9. ASSUME JobsRun, NEW e \in RangeOf(js), ~e.done
      PROVE  \E u \in Verifiers \ {v} : verifierWork[u] = e.hash
  <2>1. e \in RangeOf(m_verifying) /\ e # Job(h, FALSE)
    BY <1>5, <1>9 DEF Job
  <2>2. e \in JobSet
    BY <1>4, <2>1, SeqFacts
  <2>3. PICK u \in Verifiers : verifierWork[u] = e.hash
    BY <1>9, <2>1 DEF JobsRun
  <2>4. e.hash # h
    BY <1>9, <2>1, <2>2 DEF Job, JobSet
  <2> QED BY <2>3, <2>4
<1> HIDE DEF js
<1>10. \A pc \in {"check", "signal"} : StepVerifier(v, pc, NoBlock) =>
          /\ verifierPc'[v] = pc /\ verifierWork'[v] = NoBlock
          /\ \A u \in Verifiers \ {v} : /\ verifierPc'[u] = verifierPc[u]
                                        /\ verifierWork'[u] = verifierWork[u]
          /\ verifierPc' \in [Verifiers -> {"check", "asleep", "verify", "signal", "done"}]
          /\ verifierWork' \in [Verifiers -> Blocks \cup {NoBlock}]
          /\ \A u \in Verifiers : verifierPc'[u] = "verify" <=> verifierWork'[u] # NoBlock
  BY <1>2, RestVerifier, StepVerifierFacts
<1>11. /\ verifierPc'[v] \in {"check", "signal"} /\ verifierWork'[v] = NoBlock
       /\ \A u \in Verifiers \ {v} : /\ verifierPc'[u] = verifierPc[u]
                                     /\ verifierWork'[u] = verifierWork[u]
       /\ verifierPc' \in [Verifiers -> {"check", "asleep", "verify", "signal", "done"}]
       /\ verifierWork' \in [Verifiers -> Blocks \cup {NoBlock}]
       /\ \A u \in Verifiers : verifierPc'[u] = "verify" <=> verifierWork'[u] # NoBlock
  BY <1>1, <1>10
\* What the two ways to end have in common.
<1>12. \E D \in SUBSET m_readySet :
          /\ m_knownBad' = m_knownBad \cup D /\ m_readySet' = m_readySet \ D
          /\ QueuedIn(BadView') = QueuedIn(BadView) \ D
          /\ m_knownBad = {} => D = {}
          /\ m_verifying' \in Seq(JobSet) /\ m_verified' \in Seq(Blocks)
          /\ RangeOf(m_verifying') \subseteq RangeOf(js)
          /\ JobsRun /\ m_verifying' # <<>> => ~Head(m_verifying').done
          /\ QueuesSound'
  <2>1. CASE 1 \in mine /\ drainVerified(js, m_knownBad, m_readySet)
    <3>1. \E F \in SUBSET Blocks : \E D \in SUBSET Blocks :
            /\ Drains(js, m_knownBad, m_readySet, F, D)
            /\ F \subseteq m_readySet \ Invalid
            /\ QueuedIn(BadView') = (QueuedIn(BadView) \ (HashesOf(m_verifying) \ HashesOf(js))) \ D
            /\ QueuesSound'
      BY <1>1, <1>2, <1>7, <1>8, <2>1, DrainSound
    <3>2. PICK F \in SUBSET Blocks : \E D \in SUBSET Blocks :
            /\ Drains(js, m_knownBad, m_readySet, F, D)
            /\ F \subseteq m_readySet \ Invalid
            /\ QueuedIn(BadView') = (QueuedIn(BadView) \ (HashesOf(m_verifying) \ HashesOf(js))) \ D
            /\ QueuesSound'
      BY <3>1
    <3>3. PICK D \in SUBSET Blocks :
            /\ Drains(js, m_knownBad, m_readySet, F, D)
            /\ F \subseteq m_readySet \ Invalid
            /\ QueuedIn(BadView') = (QueuedIn(BadView) \ (HashesOf(m_verifying) \ HashesOf(js))) \ D
            /\ QueuesSound'
      BY <3>2
    <3>4. D \in SUBSET m_readySet
      BY <3>3 DEF Drains
    <3> QED BY <1>5, <3>3, <3>4 DEF Drains
  <2>2. CASE /\ 1 \notin mine /\ m_verifying' = js
             /\ UNCHANGED <<m_readySet, m_knownBad, m_verified>>
    <3>1. QueuedIn(BadView') = QueuedIn(BadView)
      BY <1>5, <1>8, <2>2 DEF QueuedIn, BadView
    <3>2. FinishedIn(BadView') \subseteq m_readySet \ Invalid
      BY <1>6, <2>2 DEF FinishedIn, BadView
    <3>3. BadView' \in View
      <4>1. /\ m_readySet \subseteq Blocks /\ m_unknownSet \subseteq Blocks
            /\ m_unknown \in [Hashes -> Seq(Blocks)] /\ m_unverified \in Seq(Blocks)
        BY <1>2 DEF BQTypeOK
      <4> QED BY <1>4, <1>5, <1>8, <2>2, <4>1 DEF View, BadView
    <3>4. /\ BadView'.verified = m_verified /\ BadView'.verifying = js
          /\ BadView'.unverified = m_unverified /\ BadView'.ready = m_readySet
          /\ BadView'.unknownSet = m_unknownSet /\ BadView'.unknown = m_unknown
          /\ BadView'.bad = m_knownBad
      BY <1>8, <2>2 DEF BadView
    <3>5. Waits(BadView')
      BY <1>2, <3>4, SoundFacts, ViewFields DEF Waits
    <3>6. Sound(BadView')
      BY <1>2, <1>5, <3>1, <3>2, <3>3, <3>4, <3>5, SoundFacts DEF Sound
    <3>7. QueuesSound'
      BY <1>4, <2>2, <3>1, <3>6 DEF QueuesSound
    <3>8. JobsRun /\ m_verifying' # <<>> => ~Head(m_verifying').done
      <4> SUFFICES ASSUME JobsRun, m_verifying' # <<>> PROVE ~Head(m_verifying').done
        OBVIOUS
      <4>1. Len(m_verifying) # 0
        BY <1>5, <2>2
      <4>2. m_verifying # <<>> /\ 1 \in DOMAIN m_verifying /\ Head(m_verifying) = m_verifying[1]
        BY <1>4, <4>1
      <4>3. js[1] = m_verifying[1]
        BY <1>5, <2>2, <4>2
      <4>4. Head(js) = js[1]
        BY <1>5, <4>1
      <4> QED BY <2>2, <4>2, <4>3, <4>4 DEF JobsRun
    <3>9. m_verifying' \in Seq(JobSet) /\ m_verified' \in Seq(Blocks)
      BY <1>4, <1>5, <2>2
    <3> WITNESS {} \in SUBSET m_readySet
    <3> QED BY <2>2, <3>1, <3>7, <3>8, <3>9
  <2> QED BY <1>1, <2>1, <2>2
<1>13. PICK D \in SUBSET m_readySet :
          /\ m_knownBad' = m_knownBad \cup D /\ m_readySet' = m_readySet \ D
          /\ QueuedIn(BadView') = QueuedIn(BadView) \ D
          /\ m_knownBad = {} => D = {}
          /\ m_verifying' \in Seq(JobSet) /\ m_verified' \in Seq(Blocks)
          /\ RangeOf(m_verifying') \subseteq RangeOf(js)
          /\ JobsRun /\ m_verifying' # <<>> => ~Head(m_verifying').done
          /\ QueuesSound'
  BY <1>12
<1> HIDE DEF h, mine
<1>14. BQTypeOK' /\ TypeOK'
  <2>1. m_knownBad' \subseteq Blocks \cup {EmptyListSHA3} /\ m_readySet' \subseteq Blocks
    BY <1>2, <1>13 DEF BQTypeOK
  <2>2. BQTypeOK'
    BY <1>2, <1>8, <1>11, <1>13, <2>1 DEF BQTypeOK, diffVars
  <2> QED BY <2>2, OthersRestFacts DEF IInv
<1>15. LockTells'
  BY <1>8, <1>13 DEF IInv, LockTells, At
<1>16. SleepersSeeNothing'
  BY <1>11 DEF SleepersSeeNothing, Asleep
<1>17. Unspoilt'
  <2> SUFFICES ASSUME m_knownBad' = {}
               PROVE  m_readySet' \subseteq QueuedIn(BadView') /\ JobsRun'
    BY DEF Unspoilt
  <2>1. m_knownBad = {} /\ D = {}
    BY <1>13
  <2>2. m_readySet \subseteq QueuedIn(BadView) /\ JobsRun
    BY <2>1 DEF IInv, Unspoilt
  <2>3. JobsRun'
    <3>1. \A e \in RangeOf(m_verifying') : e.done \/ \E u \in Verifiers : verifierWork'[u] = e.hash
      BY <1>9, <1>11, <1>13, <2>2
    <3> QED BY <1>13, <2>2, <3>1 DEF JobsRun
  <2> QED BY <1>13, <2>1, <2>2, <2>3
<1>18. OneFate'
  <2> SUFFICES ASSUME clears = 0 PROVE OneFate!2'
    BY <1>8 DEF OneFate
  <2>1. /\ m_readySet \cap (m_drainingSet \cup m_knownBad) = {}
        /\ m_drainingSet \cap (m_unknownSet \cup m_knownBad) = {}
        /\ m_unknownSet \cap m_knownBad = {}
        /\ RangeOf(blocks) \cup RangeOf(badBlocks) \subseteq m_drainingSet
        /\ \A u \in Verifiers : verifierWork[u] \in Invalid =>
                                    verifierWork[u] \in m_readySet \cup m_knownBad
    BY DEF IInv, OneFate
  <2>2. /\ m_readySet' \cap (m_drainingSet' \cup m_knownBad') = {}
        /\ m_drainingSet' \cap (m_unknownSet' \cup m_knownBad') = {}
        /\ m_unknownSet' \cap m_knownBad' = {}
    BY <1>4, <1>8, <1>13, <2>1
  <2>3. RangeOf(blocks') \cup RangeOf(badBlocks') \subseteq m_drainingSet'
    BY <1>8, <2>1
  <2>4. \A u \in Verifiers : verifierWork'[u] \in Invalid =>
                                    verifierWork'[u] \in m_readySet' \cup m_knownBad'
    <3>1. NoBlock \notin Invalid
      BY BlocksAssumption
    <3>2. m_readySet \cup m_knownBad \subseteq m_readySet' \cup m_knownBad'
      BY <1>13
    <3> QED BY <1>11, <2>1, <3>1, <3>2
  <2> QED BY <2>2, <2>3, <2>4
<1>19. ParentMissing'
  <2> SUFFICES ASSUME clears = 0, NEW b \in m_unknownSet
               PROVE  /\ ~isKnown(Parent[b])' /\ Parent[b] \notin m_drainingSet'
                      /\ Parent[b] \in m_readySet' =>
                            m_lock' = "retryAllUnknown" \/ Parent[b] \in RangeOf(goodQueue')
                      /\ Parent[b] \in m_knownBad' => Parent[b] \in RangeOf(badLeft')
    BY <1>8 DEF ParentMissing
  <2>1. /\ ~isKnown(Parent[b]) /\ Parent[b] \notin m_drainingSet
        /\ Parent[b] \in m_readySet =>
                m_lock = "retryAllUnknown" \/ Parent[b] \in RangeOf(goodQueue)
        /\ Parent[b] \in m_knownBad => Parent[b] \in RangeOf(badLeft)
    BY DEF IInv, ParentMissing
  <2>2. goodQueue = <<>>
    BY <1>1, <1>2 DEF BQTypeOK
  <2>3. Parent[b] \notin m_readySet
    BY <1>1, <2>1, <2>2, EmptyFacts
  <2> QED BY <1>8, <1>13, <2>1, <2>3 DEF isKnown
<1>20. DifficultyCovers'
  BY <1>2, <1>8, <1>13, <1>14, FewerCovered DEF IInv
<1> QED BY <1>13, <1>14, <1>15, <1>16, <1>17, <1>18, <1>19, <1>20 DEF IInv

\* A verifier calls m_onReady.
LEMMA OnReadyKeeps ==
  ASSUME IInv, NEW v \in Verifiers, OnReady(v), OthersRest
  PROVE  IInv'
<1>1. /\ verifierPc[v] = "signal" /\ m_syncBlockQueue' = TRUE
      /\ StepVerifier(v, "check", NoBlock)
      /\ UNCHANGED <<m_readySet, m_drainingSet, m_unknownSet, m_knownBad, m_unknown,
                     m_verified, m_verifying, m_unverified, diffVars, m_lock, goodQueue,
                     badLeft, notify, m_deleting, m_future, chain, now>>
      /\ UNCHANGED <<clientPc, blocks, badBlocks, clears>>
  BY OthersRestFacts DEF OnReady, setVars, queueVars, loopVars
<1>2. BQTypeOK
  BY DEF IInv, TypeOK
<1>3. verifierWork[v] = NoBlock
  BY <1>1, <1>2 DEF BQTypeOK
<1>4. /\ verifierPc'[v] = "check" /\ \A u \in Verifiers : verifierWork'[u] = verifierWork[u]
      /\ verifierPc' \in [Verifiers -> {"check", "asleep", "verify", "signal", "done"}]
      /\ verifierWork' \in [Verifiers -> Blocks \cup {NoBlock}]
      /\ \A u \in Verifiers : verifierPc'[u] = "verify" <=> verifierWork'[u] # NoBlock
  BY <1>1, <1>2, <1>3, RestVerifier, StepVerifierFacts
<1>5. TypeOK'
  <2>1. BQTypeOK'
    BY <1>1, <1>2, <1>4 DEF BQTypeOK, diffVars
  <2> QED BY <2>1, OthersRestFacts DEF IInv
<1>6. QueuesSound' /\ LockTells' /\ DifficultyCovers'
  BY <1>1 DEF IInv, QueuesSound, BadView, LockTells, At, DifficultyCovers, diffVars
<1>7. SleepersSeeNothing'
  BY <1>4 DEF SleepersSeeNothing, Asleep
<1>8. Unspoilt'
  BY <1>1, <1>4 DEF IInv, Unspoilt, JobsRun, BadView
<1>9. OneFate'
  BY <1>1, <1>4 DEF IInv, OneFate
<1>10. ParentMissing'
  BY <1>1 DEF IInv, ParentMissing, isKnown
<1> QED BY <1>5, <1>6, <1>7, <1>8, <1>9, <1>10 DEF IInv

-----------------------------------------------------------------------------
(* updateBad_WITH_LOCK.                                                    *)

\* What a turn of updateBad_WITH_LOCK, which only condemns, does to the rest of the
\* invariant.
LEMMA SpoilsKeeps ==
  ASSUME IInv, Spoils(BadView, BadView'), OthersRest, BQTypeOK',
         m_lock \in {"updateBad", "moreBad"}, m_lock' \in {"updateBad", "moreBad", "updated"},
         RangeOf(badLeft') \subseteq RangeOf(badLeft),
         m_lock' = "updated" => badLeft' = <<>>,
         m_knownBad # {},
         UNCHANGED <<m_drainingSet, diffVars, goodQueue, notify, threadVars, m_future,
                     m_syncBlockQueue, chain, now>>,
         \A b \in m_unknownSet' : Parent[b] \in RangeOf(badLeft) => Parent[b] \in RangeOf(badLeft')
  PROVE  /\ TypeOK' /\ LockTells' /\ SleepersSeeNothing' /\ Unspoilt' /\ OneFate'
         /\ ParentMissing' /\ DifficultyCovers'
<1>1. /\ m_readySet' \subseteq m_readySet /\ m_readySet \ m_readySet' \subseteq m_knownBad'
      /\ m_unknownSet' \subseteq m_unknownSet /\ m_knownBad \subseteq m_knownBad'
      /\ m_knownBad' \ m_knownBad \subseteq QueuedIn(BadView) \cup m_unknownSet \cup {EmptyListSHA3}
      /\ (m_knownBad' \ m_knownBad) \cap (m_readySet' \cup m_unknownSet') = {}
      /\ RangeOf(m_unverified') \subseteq RangeOf(m_unverified)
      /\ \A b \in m_unknownSet' : Parent[b] \notin m_knownBad' \ m_knownBad
  <2>1. /\ BadView'.unverified = m_unverified' /\ BadView'.ready = m_readySet'
        /\ BadView'.unknownSet = m_unknownSet' /\ BadView'.bad = m_knownBad'
    BY DEF BadView
  <2> QED BY <2>1, ViewFields DEF Spoils
<1>2. /\ UNCHANGED <<m_drainingSet, diffVars, goodQueue, notify, verifierPc, verifierWork,
                     m_future, chain>>
      /\ UNCHANGED <<clientPc, blocks, badBlocks, clears>>
  BY OthersRestFacts DEF threadVars
<1>3. BQTypeOK /\ QueuesSound
  BY DEF IInv, TypeOK
<1>4. QueuedIn(BadView) \subseteq m_readySet \cup m_knownBad /\ m_drainingSet \subseteq Blocks
  BY <1>3, SoundFacts DEF BQTypeOK
<1>5. TypeOK'
  BY OthersRestFacts DEF IInv
<1>6. LockTells'
  <2>1. /\ RangeOf(badLeft) \subseteq m_knownBad /\ (notify => m_lock = "noteReady")
        /\ (clientPc \notin {"room", "import"} => blocks = <<>> /\ badBlocks = <<>>)
    BY DEF IInv, LockTells
  <2> QED BY <1>1, <1>2, <2>1 DEF LockTells, At
<1>7. SleepersSeeNothing'
  <2> SUFFICES ASSUME Asleep' = Verifiers, ~notify PROVE m_unverified' = <<>>
    BY <1>2 DEF SleepersSeeNothing
  <2>1. Asleep = Verifiers
    BY <1>2 DEF Asleep
  <2>2. m_unverified = <<>>
    BY <2>1 DEF IInv, SleepersSeeNothing
  <2>3. RangeOf(m_unverified') = {}
    BY <1>1, <2>2, EmptyFacts
  <2>4. m_unverified' \in Seq(Blocks)
    BY DEF BQTypeOK
  <2> QED BY <2>3, <2>4, RangeEmpty
<1>8. Unspoilt'
  BY <1>1 DEF Unspoilt
<1>9. OneFate'
  <2> SUFFICES ASSUME clears = 0 PROVE OneFate!2'
    BY <1>2 DEF OneFate
  <2>1. /\ m_readySet \cap (m_drainingSet \cup m_knownBad) = {}
        /\ m_drainingSet \cap (m_unknownSet \cup m_knownBad) = {}
        /\ m_unknownSet \cap m_knownBad = {}
        /\ RangeOf(blocks) \cup RangeOf(badBlocks) \subseteq m_drainingSet
        /\ \A u \in Verifiers : verifierWork[u] \in Invalid =>
                                    verifierWork[u] \in m_readySet \cup m_knownBad
    BY DEF IInv, OneFate
  <2>2. m_drainingSet \cap m_knownBad' = {}
    BY <1>1, <1>4, <2>1, HashFacts DEF Hashes
  <2>3. /\ m_readySet' \cap (m_drainingSet \cup m_knownBad') = {}
        /\ m_unknownSet' \cap m_knownBad' = {} /\ m_drainingSet \cap m_unknownSet' = {}
    BY <1>1, <2>1
  <2> QED BY <1>1, <1>2, <2>1, <2>2, <2>3
<1>10. ParentMissing'
  <2> SUFFICES ASSUME clears = 0, NEW b \in m_unknownSet'
               PROVE  /\ ~isKnown(Parent[b])' /\ Parent[b] \notin m_drainingSet'
                      /\ Parent[b] \in m_readySet' =>
                            m_lock' = "retryAllUnknown" \/ Parent[b] \in RangeOf(goodQueue')
                      /\ Parent[b] \in m_knownBad' => Parent[b] \in RangeOf(badLeft')
    BY <1>2 DEF ParentMissing
  <2>1. /\ ~isKnown(Parent[b]) /\ Parent[b] \notin m_drainingSet
        /\ Parent[b] \in m_readySet =>
                m_lock = "retryAllUnknown" \/ Parent[b] \in RangeOf(goodQueue)
        /\ Parent[b] \in m_knownBad => Parent[b] \in RangeOf(badLeft)
    BY <1>1 DEF IInv, ParentMissing
  <2> QED BY <1>1, <1>2, <2>1 DEF isKnown
<1>11. DifficultyCovers'
  BY <1>1, <1>2, <1>3, FewerCovered DEF IInv
<1> QED BY <1>5, <1>6, <1>7, <1>8, <1>9, <1>10, <1>11

\* updateBad_WITH_LOCK begins with the descendants that wait.
LEMMA CollectBadKeeps ==
  ASSUME IInv, CollectBad, OthersRest
  PROVE  IInv'
<1>1. /\ m_lock = "updateBad" /\ badLeft' = Tail(badLeft) /\ m_lock' = "moreBad"
      /\ UNCHANGED <<m_drainingSet, diffVars, goodQueue, notify, threadVars, m_future,
                     m_syncBlockQueue, chain, now>>
  BY DEF CollectBad
<1>2. BQTypeOK /\ QueuesSound
  BY DEF IInv, TypeOK
<1> DEFINE x == Head(badLeft)
           r == BadView'
           N == m_unknownSet \ r.unknownSet
<1>3. BQTypeOK' /\ r = collectUnknownBad(BadView, {x})
  BY <1>2, CollectBadTypes
<1>4. badLeft # <<>> /\ badLeft \in Seq(Blocks)
  BY <1>1, <1>2 DEF BQTypeOK
<1>5. RangeOf(badLeft) = {x} \cup RangeOf(badLeft')
  BY <1>1, <1>4, TailFacts
<1>6. RangeOf(badLeft) \subseteq m_knownBad
  BY DEF IInv, LockTells
<1>7. BadView \in View /\ Waits(BadView) /\ Sound(BadView)
  BY <1>2, SoundFacts DEF QueuesSound
<1> HIDE DEF x, r
<1>8. /\ r \in View /\ Waits(r)
      /\ r.verified = m_verified /\ r.verifying = m_verifying
      /\ r.unverified = m_unverified /\ r.ready = m_readySet
      /\ r.unknownSet \subseteq m_unknownSet /\ r.bad = m_knownBad \cup N
      /\ \A b \in r.unknownSet : Parent[b] \notin {x} \cup N
  BY <1>3, <1>7, ViewFields, CollectFacts
<1>9. QueuedIn(r) = QueuedIn(BadView) /\ FinishedIn(r) = FinishedIn(BadView)
  BY <1>8, ViewFields DEF QueuedIn, FinishedIn
<1>10. Sound(r)
  BY <1>2, <1>8, <1>9, SoundFacts DEF Sound
<1>11. Spoils(BadView, r)
  <2>1. m_unknownSet \cap m_readySet = {}
    BY <1>2, SoundFacts
  <2> QED BY <1>8, <1>9, <2>1, ViewFields DEF Spoils
<1>12. QueuesSound'
  BY <1>1, <1>10 DEF QueuesSound, r
<1>13. \A b \in m_unknownSet' : Parent[b] \in RangeOf(badLeft) => Parent[b] \in RangeOf(badLeft')
  <2>1. m_unknownSet' = r.unknownSet
    BY DEF r, BadView
  <2> QED BY <1>5, <1>8, <2>1
<1>14. m_knownBad # {} /\ RangeOf(badLeft') \subseteq RangeOf(badLeft)
  BY <1>5, <1>6
<1>15. m_lock \in {"updateBad", "moreBad"} /\ m_lock' \in {"updateBad", "moreBad", "updated"}
       /\ (m_lock' = "updated" => badLeft' = <<>>)
  BY <1>1
<1> QED BY <1>1, <1>3, <1>11, <1>12, <1>13, <1>14, <1>15, SpoilsKeeps DEF IInv, r

\* A turn of updateBad_WITH_LOCK.
LEMMA MoreBadKeeps ==
  ASSUME IInv, MoreBad, OthersRest
  PROVE  IInv'
<1>1. /\ m_lock = "moreBad"
      /\ \/ queueVars' # queueVars /\ UNCHANGED m_lock
         \/ queueVars' = queueVars /\ m_lock' = IF badLeft = <<>> THEN "updated" ELSE "updateBad"
      /\ UNCHANGED <<m_drainingSet, diffVars, goodQueue, badLeft, notify, threadVars, m_future,
                     m_syncBlockQueue, chain, now>>
  BY DEF MoreBad
<1>2. BQTypeOK /\ QueuesSound
  BY DEF IInv, TypeOK
<1> DEFINE r == BadView'
<1>3. BQTypeOK' /\ r = BadVerifying(BadUnverified(BadVerified(BadView)))
  BY <1>2, MoreBadTypes
<1>4. Sound(BadView)
  BY <1>2 DEF QueuesSound
<1> HIDE DEF r
<1>5. /\ Sound(r) /\ Spoils(BadView, r)
      /\ r.verified = m_verified /\ r.unverified = m_unverified /\ r.verifying = m_verifying
            => QueuedIn(r) \subseteq r.ready
  BY <1>3, <1>4, TurnFacts, ViewFields
<1>6. /\ r.verified = m_verified' /\ r.unverified = m_unverified' /\ r.verifying = m_verifying'
      /\ r.ready = m_readySet'
  BY DEF r, BadView
<1>7. queueVars' = queueVars => QueuedIn(r) \subseteq m_readySet'
  BY <1>5, <1>6 DEF queueVars
<1>8. QueuesSound'
  BY <1>1, <1>5, <1>7 DEF QueuesSound, r
<1>9. m_knownBad # {}
  BY <1>1 DEF IInv, LockTells
<1>10. m_lock \in {"updateBad", "moreBad"} /\ m_lock' \in {"updateBad", "moreBad", "updated"}
       /\ (m_lock' = "updated" => badLeft' = <<>>)
  BY <1>1
<1> QED BY <1>1, <1>3, <1>5, <1>8, <1>9, <1>10, SpoilsKeeps DEF IInv, r

\* The caller of updateBad_WITH_LOCK returns; when it is doneDrain, the client goes on.
LEMMA UpdatedKeeps ==
  ASSUME IInv, Updated, (~At("drained") /\ OthersRest) \/ Drained
  PROVE  IInv'
<1>1. /\ m_lock = "updated" /\ m_lock' = "free"
      /\ UNCHANGED <<m_readySet, m_drainingSet, m_unknownSet, m_knownBad, m_unknown,
                     m_verified, m_verifying, m_unverified, diffVars, goodQueue, badLeft,
                     notify, verifierPc, verifierWork, m_deleting, m_future, m_syncBlockQueue,
                     chain, now>>
  BY DEF Updated, setVars, queueVars, threadVars
<1>2. UNCHANGED <<blocks, badBlocks, todo, wasFull, syncWaiting, transients, clears, retries>>
  BY OthersRestFacts DEF Drained, boundVars
<1>3. \/ clientPc # "drained" /\ UNCHANGED <<clientPc, more>>
      \/ clientPc = "drained" /\ clientPc' = "assign" /\ more' = (m_readySet # {})
  BY OthersRestFacts DEF Drained, At, Goto
<1>4. BQTypeOK
  BY DEF IInv, TypeOK
<1>5. BQTypeOK'
  BY <1>1, <1>4 DEF BQTypeOK, diffVars
<1>6. TypeOK'
  BY <1>2, <1>3, <1>5 DEF IInv, TypeOK, At
<1>7. QueuesSound' /\ DifficultyCovers'
  BY <1>1 DEF IInv, QueuesSound, BadView, DifficultyCovers, diffVars
<1>8. LockTells'
  BY <1>1, <1>2, <1>3 DEF IInv, LockTells, At
<1>9. SleepersSeeNothing'
  BY <1>1 DEF IInv, SleepersSeeNothing, Asleep
<1>10. Unspoilt'
  BY <1>1 DEF IInv, Unspoilt, JobsRun, BadView
<1>11. OneFate' /\ ParentMissing'
  BY <1>1, <1>2 DEF IInv, OneFate, ParentMissing, isKnown
<1> QED BY <1>6, <1>7, <1>8, <1>9, <1>10, <1>11 DEF IInv

-----------------------------------------------------------------------------
(* noteReady_WITH_LOCK and retryAllUnknown.                                *)

\* What ReleaseUnknown(p) does: the blocks W that waited for p become ready and queued.
LEMMA ReleaseFacts ==
  ASSUME QueuesSound, BQTypeOK, NEW p \in Hashes, ReleaseUnknown(p),
         m_lock # "moreBad", BQTypeOK'
  PROVE  LET W == RangeOf(m_unknown[p])
         IN  /\ W \subseteq m_unknownSet
             /\ m_unknownSet' = m_unknownSet \ W /\ m_readySet' = m_readySet \cup W
             /\ QueuedIn(BadView') = QueuedIn(BadView) \cup W
             /\ \A b \in m_unknownSet' : Parent[b] # p
             /\ m_unknown[p] = <<>> => m_unverified' = m_unverified
             /\ QueuesSound'
             /\ UNCHANGED <<m_drainingSet, m_knownBad, m_verified, m_verifying, m_future, diffVars,
                            badLeft, verifierWork, m_deleting, m_syncBlockQueue, chain, now>>
<1> DEFINE s == m_unknown[p]
           W == RangeOf(s)
<1>1. /\ m_unverified' = m_unverified \o s
      /\ m_unknown' = [m_unknown EXCEPT ![p] = <<>>]
      /\ m_unknownSet' = m_unknownSet \ W /\ m_readySet' = m_readySet \cup W
      /\ UNCHANGED <<m_drainingSet, m_knownBad, m_verified, m_verifying, m_future, diffVars,
                     badLeft, verifierWork, m_deleting, m_syncBlockQueue, chain, now>>
  BY DEF ReleaseUnknown, NewReady
<1>2. /\ m_unknown \in [Hashes -> Seq(Blocks)] /\ s \in Seq(Blocks) /\ m_unverified \in Seq(Blocks)
      /\ m_verified \in Seq(Blocks) /\ m_verifying \in Seq(JobSet)
  BY DEF BQTypeOK
<1>3. /\ Waits(BadView)
      /\ Injective(m_verified) /\ Injective(m_unverified) /\ HashOnce(m_verifying)
      /\ RangeOf(m_verified) \cap RangeOf(m_unverified) = {}
      /\ (RangeOf(m_verified) \cup RangeOf(m_unverified)) \cap HashesOf(m_verifying) = {}
      /\ QueuedIn(BadView) \subseteq m_readySet \cup m_knownBad
      /\ FinishedIn(BadView) \subseteq m_readySet
      /\ (RangeOf(m_verified) \cup FinishedIn(BadView)) \cap Invalid = {}
      /\ m_unknownSet \cap (m_readySet \cup QueuedIn(BadView)) = {}
      /\ QueuedIn(BadView) \ Invalid \subseteq m_readySet
  BY SoundFacts DEF QueuesSound
<1>4. m_unknownSet = WaitersOf(m_unknown) /\ ParentLists(m_unknown)
  BY <1>3, ViewFields DEF Waits
<1>5. W \subseteq m_unknownSet /\ Injective(s) /\ \A b \in W : Parent[b] = p
  BY <1>4 DEF WaitersOf, ParentLists
<1>6. \A q \in Hashes : m_unknown'[q] = IF q = p THEN <<>> ELSE m_unknown[q]
  BY <1>1, <1>2
<1> HIDE DEF s
<1>7. ParentLists(m_unknown')
  BY <1>4, <1>6, EmptyFacts DEF ParentLists
<1>8. m_unknownSet' = WaitersOf(m_unknown')
  <2>1. \A q \in Hashes : RangeOf(m_unknown'[q]) = RangeOf(m_unknown[q]) \ W
    <3> TAKE q \in Hashes
    <3>1. CASE q = p
      BY <1>6, <3>1, EmptyFacts DEF s
    <3>2. CASE q # p
      <4>1. \A b \in RangeOf(m_unknown[q]) : Parent[b] = q
        BY <1>4 DEF ParentLists
      <4> QED BY <1>5, <1>6, <3>2, <4>1
    <3> QED BY <3>1, <3>2
  <2>2. WaitersOf(m_unknown') = WaitersOf(m_unknown) \ W
    BY <2>1 DEF WaitersOf
  <2> QED BY <1>1, <1>4, <2>2
<1>9. \A b \in m_unknownSet' : Parent[b] # p
  <2> SUFFICES ASSUME NEW b \in m_unknownSet', Parent[b] = p PROVE FALSE
    OBVIOUS
  <2>1. PICK q \in Hashes : b \in RangeOf(m_unknown'[q])
    BY <1>8 DEF WaitersOf
  <2>2. q = p
    BY <1>7, <2>1 DEF ParentLists
  <2> QED BY <1>6, <2>1, <2>2, EmptyFacts
<1>10. RangeOf(m_unverified') = RangeOf(m_unverified) \cup W
  BY <1>1, <1>2, ConcatFacts
<1>11. /\ QueuedIn(BadView) = RangeOf(m_verified) \cup RangeOf(m_unverified) \cup HashesOf(m_verifying)
       /\ QueuedIn(BadView') = RangeOf(m_verified) \cup RangeOf(m_unverified') \cup HashesOf(m_verifying)
       /\ FinishedIn(BadView') = FinishedIn(BadView)
  BY <1>1 DEF QueuedIn, FinishedIn, BadView
<1>12. QueuedIn(BadView') = QueuedIn(BadView) \cup W
  BY <1>10, <1>11
<1>13. RangeOf(m_unverified) \cap W = {}
  BY <1>3, <1>5, <1>11
<1>14. Injective(m_unverified')
  BY <1>1, <1>2, <1>3, <1>5, <1>13, ConcatFacts
<1>15. s = <<>> => m_unverified' = m_unverified
  BY <1>1, <1>2
<1>16. BadView' \in View
  BY DEF BQTypeOK, View, BadView
<1>17. /\ BadView'.verified = m_verified /\ BadView'.verifying = m_verifying
       /\ BadView'.unverified = m_unverified' /\ BadView'.ready = m_readySet'
       /\ BadView'.unknownSet = m_unknownSet' /\ BadView'.unknown = m_unknown'
       /\ BadView'.bad = m_knownBad
  BY <1>1 DEF BadView
<1>18. Waits(BadView')
  BY <1>7, <1>8, <1>17 DEF Waits
<1>19. /\ RangeOf(m_verified) \cap RangeOf(m_unverified') = {}
       /\ (RangeOf(m_verified) \cup RangeOf(m_unverified')) \cap HashesOf(m_verifying) = {}
  BY <1>3, <1>5, <1>10, <1>11
<1>20. /\ QueuedIn(BadView') \subseteq m_readySet' \cup m_knownBad
       /\ QueuedIn(BadView') \ Invalid \subseteq m_readySet'
       /\ FinishedIn(BadView') \subseteq m_readySet'
       /\ m_unknownSet' \cap (m_readySet' \cup QueuedIn(BadView')) = {}
  BY <1>1, <1>3, <1>11, <1>12
<1>21. Sound(BadView')
  BY <1>3, <1>11, <1>14, <1>16, <1>17, <1>18, <1>19, <1>20 DEF Sound
<1>22. QueuesSound'
  BY <1>20, <1>21 DEF QueuesSound
<1> QED BY <1>1, <1>5, <1>9, <1>12, <1>15, <1>22 DEF s

\* What becomes ready was waiting: the difficulty counted it.
LEMMA ReleaseCovered ==
  ASSUME DifficultyCovers, BQTypeOK, NEW W, W \subseteq m_unknownSet,
         m_unknownSet' = m_unknownSet \ W, m_readySet' = m_readySet \cup W,
         UNCHANGED <<m_drainingSet, m_future, diffVars>>
  PROVE  DifficultyCovers'
<1>1. /\ m_readySet \subseteq Blocks /\ m_unknownSet \subseteq Blocks /\ m_drainingSet \subseteq Blocks
      /\ m_difficulty \in Int /\ Len(m_future) \in Nat /\ W \subseteq Blocks
  BY DEF BQTypeOK
<1>2. /\ Cardinality(m_readySet) \in Nat /\ Cardinality(m_unknownSet) \in Nat
      /\ Cardinality(m_drainingSet) \in Nat /\ Cardinality(W) \in Nat
      /\ Cardinality(m_readySet \cup W) \in Nat /\ Cardinality(m_unknownSet \ W) \in Nat
      /\ Cardinality(m_readySet \cup W) <= Cardinality(m_readySet) + Cardinality(W)
      /\ Cardinality(m_unknownSet \ W) = Cardinality(m_unknownSet) - Cardinality(W)
  <2>1. m_readySet \cup W \subseteq Blocks /\ m_unknownSet \ W \subseteq Blocks
    BY <1>1
  <2> QED BY <1>1, <2>1, CardFacts
<1> QED BY <1>1, <1>2 DEF DifficultyCovers, diffVars

\* The parts of the invariant that only ask what W is.
LEMMA ReleaseKeeps ==
  ASSUME IInv, OthersRest, BQTypeOK', NEW W, W \subseteq m_unknownSet,
         m_unknownSet' = m_unknownSet \ W, m_readySet' = m_readySet \cup W,
         QueuedIn(BadView') = QueuedIn(BadView) \cup W,
         UNCHANGED <<m_drainingSet, m_knownBad, m_verifying, m_future, diffVars,
                     badLeft, verifierWork>>
  PROVE  TypeOK' /\ Unspoilt' /\ OneFate' /\ DifficultyCovers'
<1>1. UNCHANGED <<clientPc, blocks, badBlocks, clears>>
  BY OthersRestFacts
<1>2. TypeOK'
  BY OthersRestFacts DEF IInv
<1>3. Unspoilt'
  BY DEF IInv, Unspoilt, JobsRun
<1>4. OneFate'
  BY <1>1 DEF IInv, OneFate
<1>5. DifficultyCovers'
  BY ReleaseCovered DEF IInv, TypeOK
<1> QED BY <1>2, <1>3, <1>4, <1>5

\* noteReady_WITH_LOCK releases the children of one block.
LEMMA NoteReadyKeeps ==
  ASSUME IInv, NoteReady, OthersRest
  PROVE  IInv'
<1> DEFINE p == Head(goodQueue)
           W == RangeOf(m_unknown[p])
           some == notify \/ m_unknown[p] # <<>>
<1>1. /\ m_lock = "noteReady" /\ ReleaseUnknown(p) /\ goodQueue' = NextGood(p)
      /\ \/ /\ goodQueue' = <<>> /\ m_lock' = "free" /\ notify' = FALSE
            /\ \/ some /\ NotifyAll
               \/ ~some /\ Wake({})
         \/ goodQueue' # <<>> /\ m_lock' = m_lock /\ notify' = some /\ Wake({})
  BY DEF NoteReady
<1>2. BQTypeOK /\ QueuesSound /\ BQTypeOK'
  BY NoteReadyTypes DEF IInv, TypeOK
<1>3. goodQueue # <<>> /\ goodQueue \in Seq(Blocks)
  BY <1>1, <1>2 DEF BQTypeOK
<1>4. p \in Hashes /\ Tail(goodQueue) \in Seq(Blocks)
      /\ RangeOf(goodQueue) = {p} \cup RangeOf(Tail(goodQueue))
  BY <1>3, HashFacts, TailFacts
<1> HIDE DEF p
<1>5. m_unknown[p] \in Seq(Blocks)
  BY <1>2, <1>4 DEF BQTypeOK
<1>6. RangeOf(goodQueue') = RangeOf(Tail(goodQueue)) \cup W
  <2>1. goodQueue' = Tail(goodQueue) \o m_unknown[p]
    BY <1>1 DEF NextGood
  <2>2. \A s, u \in Seq(Blocks) : RangeOf(s \o u) = RangeOf(s) \cup RangeOf(u)
    BY ConcatFacts
  <2> QED BY <1>4, <1>5, <2>1, <2>2, Zenon
<1>7. /\ W \subseteq m_unknownSet
      /\ m_unknownSet' = m_unknownSet \ W /\ m_readySet' = m_readySet \cup W
      /\ QueuedIn(BadView') = QueuedIn(BadView) \cup W
      /\ \A b \in m_unknownSet' : Parent[b] # p
      /\ m_unknown[p] = <<>> => m_unverified' = m_unverified
      /\ QueuesSound'
      /\ UNCHANGED <<m_drainingSet, m_knownBad, m_verified, m_verifying, m_future, diffVars,
                     badLeft, verifierWork, m_deleting, m_syncBlockQueue, chain, now>>
  BY <1>1, <1>2, <1>4, ReleaseFacts
<1>8. UNCHANGED <<clientPc, blocks, badBlocks, clears>>
  BY OthersRestFacts
<1>9. TypeOK' /\ Unspoilt' /\ OneFate' /\ DifficultyCovers'
  <2> HIDE DEF W
  <2> QED BY <1>2, <1>7, ReleaseKeeps
<1>10. LockTells'
  BY <1>1, <1>7, <1>8 DEF IInv, LockTells, At
<1>11. SleepersSeeNothing'
  <2> SUFFICES ASSUME Asleep' = Verifiers, ~notify' PROVE m_unverified' = <<>>
    BY DEF SleepersSeeNothing
  <2>1. ~NotifyAll
    BY <1>2, NotifyFacts
  <2>2. ~some /\ Wake({})
    BY <1>1, <2>1
  <2>3. Asleep = Verifiers
    <3>1. \A v \in Verifiers : verifierPc'[v] = verifierPc[v]
      BY <1>2, <2>2, AsleepFacts
    <3> QED BY <3>1 DEF Asleep
  <2>4. m_unverified = <<>>
    BY <1>1, <2>2, <2>3 DEF IInv, SleepersSeeNothing
  <2> QED BY <1>7, <2>2, <2>4
<1>12. ParentMissing'
  <2> SUFFICES ASSUME clears = 0, NEW b \in m_unknownSet'
               PROVE  /\ ~isKnown(Parent[b])' /\ Parent[b] \notin m_drainingSet'
                      /\ Parent[b] \in m_readySet' =>
                            m_lock' = "retryAllUnknown" \/ Parent[b] \in RangeOf(goodQueue')
                      /\ Parent[b] \in m_knownBad' => Parent[b] \in RangeOf(badLeft')
    BY <1>8 DEF ParentMissing
  <2>1. /\ ~isKnown(Parent[b]) /\ Parent[b] \notin m_drainingSet
        /\ Parent[b] \in m_readySet =>
                m_lock = "retryAllUnknown" \/ Parent[b] \in RangeOf(goodQueue)
        /\ Parent[b] \in m_knownBad => Parent[b] \in RangeOf(badLeft)
    BY <1>7 DEF IInv, ParentMissing
  <2> QED BY <1>1, <1>4, <1>6, <1>7, <2>1 DEF isKnown
<1> QED BY <1>7, <1>9, <1>10, <1>11, <1>12 DEF IInv

\* retryAllUnknown releases the blocks of one list.
LEMMA RetryStepKeeps ==
  ASSUME IInv, RetryStep, OthersRest
  PROVE  IInv'
<1>1. m_lock = "retryAllUnknown"
  BY DEF RetryStep
<1>2. BQTypeOK /\ QueuesSound /\ BQTypeOK'
  BY RetryStepTypes DEF IInv, TypeOK
<1>3. UNCHANGED <<clientPc, blocks, badBlocks, clears>>
  BY OthersRestFacts
<1>4. ASSUME NEW p \in Hashes, ReleaseUnknown(p), NotifyOne, UNCHANGED <<m_lock, goodQueue, notify>>
      PROVE  IInv'
  <2> DEFINE W == RangeOf(m_unknown[p])
  <2>1. /\ W \subseteq m_unknownSet
        /\ m_unknownSet' = m_unknownSet \ W /\ m_readySet' = m_readySet \cup W
        /\ QueuedIn(BadView') = QueuedIn(BadView) \cup W
        /\ QueuesSound'
        /\ UNCHANGED <<m_drainingSet, m_knownBad, m_verified, m_verifying, m_future, diffVars,
                       badLeft, verifierWork, m_deleting, m_syncBlockQueue, chain, now>>
    BY <1>1, <1>2, <1>4, ReleaseFacts
  <2>2. TypeOK' /\ Unspoilt' /\ OneFate' /\ DifficultyCovers'
    <3> HIDE DEF W
    <3> QED BY <1>2, <2>1, ReleaseKeeps
  <2>3. LockTells'
    BY <1>3, <1>4, <2>1 DEF IInv, LockTells, At
  <2>4. SleepersSeeNothing'
    BY <1>1, <1>4 DEF SleepersSeeNothing
  <2>5. ParentMissing'
    BY <1>1, <1>3, <1>4, <2>1 DEF IInv, ParentMissing, isKnown
  <2> QED BY <2>1, <2>2, <2>3, <2>4, <2>5 DEF IInv
<1>5. ASSUME \A p \in Hashes : m_unknown[p] = <<>>, NotifyAll, m_lock' = "free",
             UNCHANGED <<setVars, queueVars, diffVars, goodQueue, badLeft, notify,
                         verifierWork, m_deleting, m_future, m_syncBlockQueue, chain, now>>
      PROVE  IInv'
  <2>1. /\ UNCHANGED <<m_readySet, m_drainingSet, m_unknownSet, m_knownBad, m_unknown,
                       m_verified, m_verifying, m_unverified>>
        /\ UNCHANGED <<diffVars, goodQueue, badLeft, notify, verifierWork, m_future, chain>>
    BY <1>5 DEF setVars, queueVars
  <2>2. TypeOK'
    BY <1>2, OthersRestFacts DEF IInv
  <2>3. QueuesSound' /\ DifficultyCovers' /\ Unspoilt' /\ OneFate'
    BY <1>1, <1>3, <2>1 DEF IInv, QueuesSound, BadView, DifficultyCovers, diffVars, Unspoilt,
                            JobsRun, OneFate
  <2>4. LockTells'
    BY <1>1, <1>3, <1>5, <2>1 DEF IInv, LockTells, At
  <2>5. SleepersSeeNothing'
    BY <1>2, <1>5, NotifyFacts DEF SleepersSeeNothing
  <2>6. ParentMissing'
    <3>1. m_unknownSet = WaitersOf(m_unknown)
      BY <1>2, SoundFacts, ViewFields DEF Waits
    <3>2. m_unknownSet = {}
      BY <1>5, <3>1, EmptyFacts DEF WaitersOf
    <3> QED BY <2>1, <3>2 DEF ParentMissing
  <2> QED BY <2>2, <2>3, <2>4, <2>5, <2>6 DEF IInv
<1> QED BY <1>4, <1>5 DEF RetryStep

\* retryAllUnknown ends with its notify.
LEMMA RetryUnknownKeeps ==
  ASSUME IInv, RetryUnknown
  PROVE  IInv'
<1>1. /\ retries < MaxRetries /\ retries' = retries + 1
      /\ m_lock = "free" /\ m_lock' = "retryAllUnknown"
      /\ UNCHANGED <<m_readySet, m_drainingSet, m_unknownSet, m_knownBad, m_unknown,
                     m_verified, m_verifying, m_unverified>>
      /\ UNCHANGED <<diffVars, goodQueue, badLeft, notify, verifierPc, verifierWork, m_deleting,
                     m_future, m_syncBlockQueue, chain, now>>
      /\ UNCHANGED <<clientPc, blocks, badBlocks, wasFull, more, todo, syncWaiting,
                     transients, clears>>
  BY DEF RetryUnknown, RetryAllUnknown, setVars, queueVars, threadVars, clientVars
<1>2. TypeOK'
  <2>1. BQTypeOK'
    BY <1>1 DEF IInv, TypeOK, BQTypeOK, diffVars
  <2>2. retries' \in 0..MaxRetries
    BY <1>1, ImportAssumption DEF IInv, TypeOK
  <2> QED BY <1>1, <2>1, <2>2 DEF IInv, TypeOK, At
<1>3. QueuesSound' /\ DifficultyCovers' /\ Unspoilt' /\ OneFate'
  BY <1>1 DEF IInv, QueuesSound, BadView, DifficultyCovers, diffVars, Unspoilt, JobsRun, OneFate
<1>4. LockTells'
  BY <1>1 DEF IInv, LockTells, At
<1>5. SleepersSeeNothing'
  BY <1>1 DEF SleepersSeeNothing
<1>6. ParentMissing'
  BY <1>1 DEF IInv, ParentMissing, isKnown
<1> QED BY <1>2, <1>3, <1>4, <1>5, <1>6 DEF IInv

-----------------------------------------------------------------------------
(* import and tick.                                                        *)

\* What the lock being free says, and that a block import takes is nowhere.
LEMMA FreeFacts ==
  ASSUME IInv, m_lock = "free"
  PROVE  /\ BQTypeOK /\ QueuesSound
         /\ goodQueue = <<>> /\ badLeft = <<>> /\ ~notify /\ ~At("drained")
         /\ QueuedIn(BadView) \ Invalid \subseteq m_readySet
         /\ QueuedIn(BadView) \subseteq m_readySet \cup m_knownBad
         /\ clears = 0 => \A x \in m_unknownSet :
                /\ ~isKnown(Parent[x])
                /\ Parent[x] \notin m_drainingSet \cup m_readySet \cup m_knownBad
<1>1. BQTypeOK /\ QueuesSound
  BY DEF IInv, TypeOK
<1>2. goodQueue = <<>> /\ badLeft = <<>> /\ ~notify /\ ~At("drained")
  BY <1>1 DEF BQTypeOK, IInv, LockTells
<1>3. QueuedIn(BadView) \ Invalid \subseteq m_readySet
      /\ QueuedIn(BadView) \subseteq m_readySet \cup m_knownBad
  BY <1>1, SoundFacts DEF QueuesSound
<1>4. clears = 0 => \A x \in m_unknownSet :
            /\ ~isKnown(Parent[x])
            /\ Parent[x] \notin m_drainingSet \cup m_readySet \cup m_knownBad
  BY <1>2, EmptyFacts DEF IInv, ParentMissing
<1> QED BY <1>1, <1>2, <1>3, <1>4

LEMMA SingleFacts ==
  ASSUME NEW b \in Blocks
  PROVE  <<b>> # <<>> /\ <<b>> \in Seq(Blocks) /\ RangeOf(<<b>>) = {b}
  BY DEF RangeOf

\* The assumptions the five ways through import() have in common.
ImportStep(b) ==
    /\ IInv /\ b \in Blocks /\ BQTypeOK' /\ m_lock = "free"
    /\ UNCHANGED <<m_drainingDifficulty, verifierWork, m_deleting, m_syncBlockQueue, chain, now>>
    /\ UNCHANGED <<blocks, badBlocks, clears>>
    /\ clientPc' = clientPc \/ (At("tock") /\ clientPc' = "work")

\* All of the invariant but the types.
Kept == /\ QueuesSound' /\ LockTells' /\ SleepersSeeNothing' /\ Unspoilt' /\ OneFate'
        /\ ParentMissing' /\ DifficultyCovers'

\* import() of a block that is known, or bad: nothing changes.
LEMMA ImportNothing ==
  ASSUME NEW b, ImportStep(b),
         UNCHANGED <<setVars, queueVars, m_difficulty, m_future, loopVars, verifierPc>>
  PROVE  Kept
<1>1. IInv /\ m_lock = "free"
  BY DEF ImportStep
<1>2. /\ UNCHANGED <<m_readySet, m_drainingSet, m_unknownSet, m_knownBad, m_unknown>>
      /\ UNCHANGED <<m_verified, m_verifying, m_unverified, m_difficulty, m_drainingDifficulty>>
      /\ UNCHANGED <<m_future, m_lock, goodQueue, badLeft, notify, verifierPc, verifierWork>>
      /\ UNCHANGED <<chain, blocks, badBlocks, clears>>
      /\ clientPc' = clientPc \/ (clientPc = "tock" /\ clientPc' = "work")
  BY DEF ImportStep, setVars, queueVars, loopVars, At
<1>3. QueuesSound' /\ DifficultyCovers' /\ Unspoilt' /\ OneFate'
  BY <1>1, <1>2 DEF IInv, QueuesSound, BadView, DifficultyCovers, Unspoilt, JobsRun, OneFate
<1>4. LockTells'
  BY <1>1, <1>2 DEF IInv, LockTells, At
<1>5. SleepersSeeNothing' /\ ParentMissing'
  BY <1>1, <1>2 DEF IInv, SleepersSeeNothing, Asleep, ParentMissing, isKnown
<1> QED BY <1>3, <1>4, <1>5 DEF Kept

\* import() of a block from the future.
LEMMA QueueForFutureKeeps ==
  ASSUME NEW b, ImportStep(b), QueueForFuture(b)
  PROVE  Kept
<1>1. IInv /\ m_lock = "free" /\ b \in Blocks
  BY DEF ImportStep
<1>2. /\ UNCHANGED <<m_readySet, m_drainingSet, m_unknownSet, m_knownBad, m_unknown>>
      /\ UNCHANGED <<m_verified, m_verifying, m_unverified, m_drainingDifficulty>>
      /\ UNCHANGED <<m_lock, goodQueue, badLeft, notify, verifierPc, verifierWork>>
      /\ UNCHANGED <<chain, blocks, badBlocks, clears>>
      /\ clientPc' = clientPc \/ (clientPc = "tock" /\ clientPc' = "work")
      /\ m_future' = InsertFuture(b) /\ m_difficulty' = m_difficulty + 1
  BY DEF ImportStep, QueueForFuture, setVars, queueVars, loopVars, At
<1>3. QueuesSound' /\ Unspoilt' /\ OneFate'
  BY <1>1, <1>2 DEF IInv, QueuesSound, BadView, Unspoilt, JobsRun, OneFate
<1>4. LockTells'
  BY <1>1, <1>2 DEF IInv, LockTells, At
<1>5. SleepersSeeNothing' /\ ParentMissing'
  BY <1>1, <1>2 DEF IInv, SleepersSeeNothing, Asleep, ParentMissing, isKnown
<1>6. DifficultyCovers'
  <2>1. /\ m_readySet \subseteq Blocks /\ m_unknownSet \subseteq Blocks
        /\ m_drainingSet \subseteq Blocks /\ m_difficulty \in Int /\ Len(m_future) \in Nat
    BY <1>1 DEF IInv, TypeOK, BQTypeOK
  <2>2. Len(m_future') = Len(m_future) + 1
    BY <1>1, <1>2, InsertTypes DEF IInv, TypeOK, BQTypeOK
  <2>3. /\ Cardinality(m_readySet) \in Nat /\ Cardinality(m_unknownSet) \in Nat
        /\ Cardinality(m_drainingSet) \in Nat
    BY <2>1, CardFacts
  <2> QED BY <1>1, <1>2, <2>1, <2>2, <2>3 DEF IInv, DifficultyCovers
<1> QED BY <1>3, <1>4, <1>5, <1>6 DEF Kept

\* import() of a block whose parent is bad.
LEMMA RefuseBadChainKeeps ==
  ASSUME NEW b, ImportStep(b), RefuseBadChain(b), ~AlreadyKnown(b)
  PROVE  Kept
<1>1. IInv /\ m_lock = "free" /\ b \in Blocks
  BY DEF ImportStep
<1>2. m_lock' = "updateBad" /\ badLeft' = <<b>> /\ RangeOf(badLeft') = {b}
  BY <1>1, SingleFacts DEF RefuseBadChain, UpdateBad
<1>3. /\ UNCHANGED <<m_readySet, m_drainingSet, m_unknownSet, m_unknown>>
      /\ UNCHANGED <<m_verified, m_verifying, m_unverified, m_difficulty, m_drainingDifficulty>>
      /\ UNCHANGED <<m_future, goodQueue, notify, verifierPc, verifierWork>>
      /\ UNCHANGED <<chain, blocks, badBlocks, clears>>
      /\ clientPc' = clientPc \/ (clientPc = "tock" /\ clientPc' = "work")
      /\ m_knownBad' = m_knownBad \cup {b}
  BY DEF ImportStep, RefuseBadChain, queueVars, At
<1>4. b \notin m_readySet /\ b \notin m_drainingSet /\ b \notin m_unknownSet
  BY DEF AlreadyKnown
<1>5. QueuesSound'
  <2>1. BadView' \in View
    BY DEF ImportStep, BQTypeOK, View, BadView
  <2>2. Sound(BadView)
    BY <1>1 DEF IInv, QueuesSound
  <2>3. /\ BadView'.verified = BadView.verified /\ BadView'.verifying = BadView.verifying
        /\ BadView'.unverified = BadView.unverified /\ BadView'.ready = BadView.ready
        /\ BadView'.unknownSet = BadView.unknownSet /\ BadView'.unknown = BadView.unknown
        /\ BadView.bad \subseteq BadView'.bad
    BY <1>3 DEF BadView
  <2>4. QueuedIn(BadView') = QueuedIn(BadView) /\ FinishedIn(BadView') = FinishedIn(BadView)
    BY <2>3 DEF QueuedIn, FinishedIn
  <2>5. Sound(BadView')
    BY <2>1, <2>2, <2>3, <2>4 DEF Sound, Waits
  <2> QED BY <1>1, <1>3, <2>4, <2>5, FreeFacts DEF QueuesSound
<1>6. LockTells'
  BY <1>1, <1>2, <1>3, FreeFacts DEF IInv, LockTells, At
<1>7. SleepersSeeNothing'
  BY <1>1, <1>3 DEF IInv, SleepersSeeNothing, Asleep
<1>8. Unspoilt'
  BY <1>3 DEF Unspoilt
<1>9. OneFate'
  BY <1>1, <1>3, <1>4 DEF IInv, OneFate
<1>10. ParentMissing'
  BY <1>1, <1>2, <1>3, FreeFacts DEF ParentMissing, isKnown
<1>11. DifficultyCovers'
  BY <1>1, <1>3 DEF IInv, DifficultyCovers
<1> QED BY <1>5, <1>6, <1>7, <1>8, <1>9, <1>10, <1>11 DEF Kept

\* import() of a block whose parent nobody has brought.
LEMMA QueueUnknownKeeps ==
  ASSUME NEW b, ImportStep(b), QueueUnknown(b), ~AlreadyKnown(b), Parent[b] \notin m_knownBad,
         ~ParentKnown(b)
  PROVE  Kept
<1>1. IInv /\ m_lock = "free" /\ b \in Blocks /\ BQTypeOK'
  BY DEF ImportStep
<1>2. /\ UNCHANGED <<m_readySet, m_drainingSet, m_knownBad>>
      /\ UNCHANGED <<m_verified, m_verifying, m_unverified, m_drainingDifficulty>>
      /\ UNCHANGED <<m_future, m_lock, goodQueue, badLeft, notify, verifierPc, verifierWork>>
      /\ UNCHANGED <<chain, blocks, badBlocks, clears>>
      /\ clientPc' = clientPc \/ (clientPc = "tock" /\ clientPc' = "work")
      /\ m_unknownSet' = m_unknownSet \cup {b} /\ m_difficulty' = m_difficulty + 1
      /\ m_unknown' = [m_unknown EXCEPT ![Parent[b]] = Append(@, b)]
  BY DEF ImportStep, QueueUnknown, queueVars, loopVars, At
<1>3. /\ b \notin m_readySet /\ b \notin m_drainingSet /\ b \notin m_unknownSet
      /\ b \notin m_knownBad
  BY DEF AlreadyKnown
<1>4. /\ ~isKnown(Parent[b])
      /\ Parent[b] \notin m_drainingSet \cup m_readySet \cup m_knownBad
  BY DEF ParentKnown
<1>5. BQTypeOK /\ QueuesSound
      /\ QueuedIn(BadView) \subseteq m_readySet \cup m_knownBad
      /\ QueuedIn(BadView) \ Invalid \subseteq m_readySet
  BY <1>1, FreeFacts
<1>6. QueuesSound'
  <2>1. BadView' \in View
    BY <1>1 DEF BQTypeOK, View, BadView
  <2>2. Sound(BadView) /\ Waits(BadView)
    BY <1>5, SoundFacts DEF QueuesSound
  <2>3. /\ BadView'.verified = BadView.verified /\ BadView'.verifying = BadView.verifying
        /\ BadView'.unverified = BadView.unverified /\ BadView'.ready = BadView.ready
        /\ BadView.bad = BadView'.bad
        /\ BadView'.unknownSet = m_unknownSet' /\ BadView'.unknown = m_unknown'
    BY <1>2 DEF BadView
  <2>4. QueuedIn(BadView') = QueuedIn(BadView) /\ FinishedIn(BadView') = FinishedIn(BadView)
    BY <2>3 DEF QueuedIn, FinishedIn
  <2> DEFINE p == Parent[b]
  <2>5. p \in Hashes /\ m_unknown \in [Hashes -> Seq(Blocks)]
    BY <1>1, <1>5, HashFacts DEF BQTypeOK
  <2>6. \A q \in Hashes : m_unknown'[q] = IF q = p THEN Append(m_unknown[p], b) ELSE m_unknown[q]
    BY <1>2, <2>5
  <2>7. m_unknownSet = WaitersOf(m_unknown) /\ ParentLists(m_unknown)
    BY <2>2, ViewFields DEF Waits
  <2>8. b \notin RangeOf(m_unknown[p]) /\ Injective(m_unknown[p])
    BY <1>3, <2>5, <2>7 DEF WaitersOf, ParentLists
  <2>9. /\ Injective(m_unknown'[p])
        /\ RangeOf(m_unknown'[p]) = RangeOf(m_unknown[p]) \cup {b}
    <3>1. m_unknown'[p] = Append(m_unknown[p], b) /\ m_unknown[p] \in Seq(Blocks)
      BY <2>5, <2>6
    <3>2. Append(m_unknown[p], b) = m_unknown'[p]
      BY <3>1
    <3> DEFINE s == m_unknown[p]
    <3>3. RangeOf(Append(s, b)) = RangeOf(s) \cup {b} /\ Injective(Append(s, b))
      <4> HIDE DEF p, s
      <4>1. s \in Seq(Blocks) /\ b \notin RangeOf(s) /\ Injective(s)
        BY <2>8, <3>1 DEF s
      <4> QED BY <1>1, <4>1, AppendFacts
    <3> QED BY <3>2, <3>3
  <2> HIDE DEF p
  <2>10. ParentLists(m_unknown')
    <3>1. \A q \in Hashes : q # p => m_unknown'[q] = m_unknown[q]
      BY <2>6
    <3> QED BY <2>7, <2>9, <3>1 DEF ParentLists, p
  <2>11. WaitersOf(m_unknown') = WaitersOf(m_unknown) \cup {b}
    <3>1. \A q \in Hashes : q # p => RangeOf(m_unknown'[q]) = RangeOf(m_unknown[q])
      BY <2>6
    <3> QED BY <2>5, <2>9, <3>1 DEF WaitersOf
  <2>12. Waits(BadView')
    BY <1>2, <2>3, <2>7, <2>10, <2>11 DEF Waits
  <2>13. m_unknownSet' \cap (m_readySet \cup QueuedIn(BadView)) = {}
    BY <1>2, <1>3, <1>5, SoundFacts
  <2>14. Sound(BadView')
    BY <2>1, <2>2, <2>3, <2>4, <2>12, <2>13, ViewFields DEF Sound
  <2> QED BY <1>2, <1>5, <2>4, <2>14 DEF QueuesSound
<1>7. LockTells'
  BY <1>1, <1>2 DEF IInv, LockTells, At
<1>8. SleepersSeeNothing'
  BY <1>1, <1>2 DEF IInv, SleepersSeeNothing, Asleep
<1>9. Unspoilt'
  <2>1. QueuedIn(BadView') = QueuedIn(BadView)
    BY <1>2 DEF QueuedIn, BadView
  <2> QED BY <1>1, <1>2, <2>1 DEF IInv, Unspoilt, JobsRun
<1>10. OneFate'
  BY <1>1, <1>2, <1>3 DEF IInv, OneFate
<1>11. ParentMissing'
  BY <1>1, <1>2, <1>4, FreeFacts DEF ParentMissing, isKnown
<1>12. DifficultyCovers'
  <2>1. /\ m_readySet \subseteq Blocks /\ m_unknownSet \subseteq Blocks
        /\ m_drainingSet \subseteq Blocks /\ m_difficulty \in Int /\ Len(m_future) \in Nat
        /\ m_unknownSet' \subseteq Blocks
    BY <1>1, <1>5 DEF BQTypeOK
  <2>2. /\ Cardinality(m_readySet) \in Nat /\ Cardinality(m_unknownSet) \in Nat
        /\ Cardinality(m_drainingSet) \in Nat /\ Cardinality(m_unknownSet') \in Nat
        /\ Cardinality(m_unknownSet') <= Cardinality(m_unknownSet) + 1
    BY <1>1, <1>2, <2>1, CardFacts
  <2> QED BY <1>1, <1>2, <2>1, <2>2 DEF IInv, DifficultyCovers
<1> QED BY <1>6, <1>7, <1>8, <1>9, <1>10, <1>11, <1>12 DEF Kept

\* import() of a block that can be verified.
LEMMA QueueReadyKeeps ==
  ASSUME NEW b, ImportStep(b), QueueReady(b), ~AlreadyKnown(b)
  PROVE  Kept
<1>1. IInv /\ m_lock = "free" /\ b \in Blocks /\ BQTypeOK'
  BY DEF ImportStep
<1>2. /\ UNCHANGED <<m_drainingSet, m_unknownSet, m_knownBad, m_unknown>>
      /\ UNCHANGED <<m_verified, m_verifying, m_drainingDifficulty>>
      /\ UNCHANGED <<m_future, badLeft, notify, verifierWork>>
      /\ UNCHANGED <<chain, blocks, badBlocks, clears>>
      /\ clientPc' = clientPc \/ (clientPc = "tock" /\ clientPc' = "work")
      /\ m_unverified' = Append(m_unverified, b) /\ NotifyOne
      /\ m_readySet' = m_readySet \cup {b} /\ m_difficulty' = m_difficulty + 1
      /\ m_lock' = "noteReady" /\ goodQueue' = <<b>>
  BY DEF ImportStep, QueueReady, At
<1>3. /\ b \notin m_readySet /\ b \notin m_drainingSet /\ b \notin m_unknownSet
      /\ b \notin m_knownBad
  BY DEF AlreadyKnown
<1>4. BQTypeOK /\ QueuesSound
      /\ QueuedIn(BadView) \subseteq m_readySet \cup m_knownBad
      /\ QueuedIn(BadView) \ Invalid \subseteq m_readySet
  BY <1>1, FreeFacts
<1>5. b \notin QueuedIn(BadView)
  BY <1>3, <1>4
<1>6. m_unverified \in Seq(Blocks)
  BY <1>4 DEF BQTypeOK
<1>7. RangeOf(m_unverified') = RangeOf(m_unverified) \cup {b}
  BY <1>1, <1>2, <1>6, AppendFacts
<1>8. /\ QueuedIn(BadView) = RangeOf(m_verified) \cup RangeOf(m_unverified) \cup HashesOf(m_verifying)
      /\ QueuedIn(BadView') = RangeOf(m_verified) \cup RangeOf(m_unverified') \cup HashesOf(m_verifying)
      /\ FinishedIn(BadView') = FinishedIn(BadView)
  BY <1>2 DEF QueuedIn, FinishedIn, BadView
<1>9. QueuedIn(BadView') = QueuedIn(BadView) \cup {b}
  BY <1>7, <1>8
<1>10. Injective(m_unverified')
  <2>1. Injective(m_unverified) /\ b \notin RangeOf(m_unverified)
    BY <1>4, <1>5, <1>8, SoundFacts
  <2> QED BY <1>1, <1>2, <1>6, <2>1, AppendFacts
<1>11. QueuesSound'
  <2>1. BadView' \in View
    BY <1>1 DEF BQTypeOK, View, BadView
  <2>2. /\ BadView'.verified = m_verified /\ BadView'.verifying = m_verifying
        /\ BadView'.unverified = m_unverified' /\ BadView'.ready = m_readySet'
        /\ BadView'.bad = m_knownBad
        /\ BadView'.unknownSet = m_unknownSet /\ BadView'.unknown = m_unknown
    BY <1>2 DEF BadView
  <2>3. Waits(BadView')
    BY <1>4, <2>2, SoundFacts, ViewFields DEF Waits
  <2>4. /\ Injective(m_verified) /\ HashOnce(m_verifying)
        /\ RangeOf(m_verified) \cap RangeOf(m_unverified') = {}
        /\ (RangeOf(m_verified) \cup RangeOf(m_unverified')) \cap HashesOf(m_verifying) = {}
    BY <1>4, <1>5, <1>7, <1>8, SoundFacts
  <2>5. /\ QueuedIn(BadView') \subseteq m_readySet' \cup m_knownBad
        /\ FinishedIn(BadView') \subseteq m_readySet'
        /\ (RangeOf(m_verified) \cup FinishedIn(BadView')) \cap Invalid = {}
        /\ m_unknownSet \cap (m_readySet' \cup QueuedIn(BadView')) = {}
        /\ QueuedIn(BadView') \ Invalid \subseteq m_readySet'
    BY <1>2, <1>3, <1>4, <1>8, <1>9, SoundFacts
  <2>6. Sound(BadView')
    BY <1>10, <2>1, <2>2, <2>3, <2>4, <2>5 DEF Sound
  <2> QED BY <2>5, <2>6 DEF QueuesSound
<1>12. LockTells'
  BY <1>1, <1>2, FreeFacts DEF IInv, LockTells, At
<1>13. SleepersSeeNothing'
  BY <1>2, <1>4, NotifyFacts DEF SleepersSeeNothing
<1>14. Unspoilt'
  BY <1>1, <1>2, <1>9 DEF IInv, Unspoilt, JobsRun
<1>15. OneFate'
  BY <1>1, <1>2, <1>3 DEF IInv, OneFate
<1>16. ParentMissing'
  <2>1. RangeOf(goodQueue') = {b}
    BY <1>1, <1>2, SingleFacts
  <2> QED BY <1>1, <1>2, <2>1, FreeFacts DEF ParentMissing, isKnown
<1>17. DifficultyCovers'
  <2>1. /\ m_readySet \subseteq Blocks /\ m_unknownSet \subseteq Blocks
        /\ m_drainingSet \subseteq Blocks /\ m_difficulty \in Int /\ Len(m_future) \in Nat
        /\ m_readySet' \subseteq Blocks
    BY <1>1, <1>4 DEF BQTypeOK
  <2>2. /\ Cardinality(m_readySet) \in Nat /\ Cardinality(m_unknownSet) \in Nat
        /\ Cardinality(m_drainingSet) \in Nat /\ Cardinality(m_readySet') \in Nat
        /\ Cardinality(m_readySet') <= Cardinality(m_readySet) + 1
    BY <1>1, <1>2, <2>1, CardFacts
  <2> QED BY <1>1, <1>2, <2>1, <2>2 DEF IInv, DifficultyCovers
<1> QED BY <1>11, <1>12, <1>13, <1>14, <1>15, <1>16, <1>17 DEF Kept

\* import(), whichever way it goes.
LEMMA ImportKeeps ==
  ASSUME NEW b, NEW isOurs, ImportStep(b), import(b, isOurs)
  PROVE  Kept
<1>1. \/ UNCHANGED <<setVars, queueVars, m_difficulty, m_future, loopVars, verifierPc>>
      \/ ~AlreadyKnown(b) /\ QueueForFuture(b)
      \/ ~AlreadyKnown(b) /\ RefuseBadChain(b)
      \/ ~AlreadyKnown(b) /\ Parent[b] \notin m_knownBad /\ ~ParentKnown(b) /\ QueueUnknown(b)
      \/ ~AlreadyKnown(b) /\ QueueReady(b)
  BY DEF import
<1> QED BY <1>1, ImportNothing, QueueForFutureKeeps, RefuseBadChainKeeps, QueueUnknownKeeps,
           QueueReadyKeeps

\* A block arrives from a peer.
LEMMA ArriveKeeps ==
  ASSUME IInv, NEW b \in Blocks, NEW isOurs \in BOOLEAN, Arrive(b, isOurs)
  PROVE  IInv'
<1>1. import(b, isOurs) /\ OthersRest
  BY DEF Arrive, OthersRest
<1>2. BQTypeOK' /\ TypeOK'
  BY <1>1, ImportTypes, OthersRestFacts DEF IInv, TypeOK
<1>3. ImportStep(b)
  BY <1>1, <1>2, OthersRestFacts DEF ImportStep, import
<1> QED BY <1>1, <1>2, <1>3, ImportKeeps DEF IInv, Kept

\* tick() imports the blocks whose time has come.
LEMMA TickImportKeeps ==
  ASSUME IInv, TickImport
  PROVE  IInv'
<1> DEFINE b == Head(todo)
<1>1. /\ clientPc = "tock" /\ todo # <<>> /\ import(b, FALSE) /\ todo' = Tail(todo)
      /\ \/ todo' = <<>> /\ clientPc' = "work"
         \/ todo' # <<>> /\ UNCHANGED clientPc
      /\ UNCHANGED <<blocks, badBlocks, wasFull, more, syncWaiting, transients, clears, retries>>
  BY DEF TickImport, At, Goto, boundVars
<1>2. todo \in Seq(Blocks)
  BY DEF IInv, TypeOK
<1>3. b \in Blocks /\ todo' \in Seq(Blocks)
  BY <1>1, <1>2
<1> HIDE DEF b
<1>4. BQTypeOK'
  BY <1>1, <1>3, ImportTypes DEF IInv, TypeOK
<1>5. TypeOK'
  BY <1>1, <1>3, <1>4 DEF IInv, TypeOK, At
<1>6. ImportStep(b)
  BY <1>1, <1>3, <1>4 DEF ImportStep, import, At
<1> QED BY <1>1, <1>5, <1>6, ImportKeeps DEF IInv, Kept

-----------------------------------------------------------------------------
(* drain, doneDrain and clear.                                             *)

\* What drain hands over are the first verified blocks.
LEMMA DrainOutFacts ==
  ASSUME BQTypeOK, m_drainingSet = {}, NEW max \in Nat
  PROVE  \E k \in 0..Len(m_verified) : drainOut(max) = SubSeq(m_verified, 1, k)
<1>1. Len(m_verified) \in Nat
  BY DEF BQTypeOK
<1> DEFINE k == IF max < Len(m_verified) THEN max ELSE Len(m_verified)
<1>2. k \in 0..Len(m_verified)
  BY <1>1
<1>3. drainOut(max) = SubSeq(m_verified, 1, k)
  BY DEF drainOut
<1> QED BY <1>2, <1>3

\* drain() hands the first verified blocks to the client.
LEMMA DrainKeeps ==
  ASSUME IInv, Drain
  PROVE  IInv'
<1> DEFINE out == drainOut(m_syncAmount)
<1>1. /\ clientPc = "drain" /\ m_lock = "free" /\ blocks' = out /\ badBlocks' = <<>>
      /\ wasFull' = knownFull /\ clientPc' = "room"
      /\ \/ /\ m_drainingSet = {}
            /\ m_verified' = SubSeq(m_verified, Len(out) + 1, Len(m_verified))
            /\ m_drainingSet' = RangeOf(out)
            /\ m_drainingDifficulty' = Len(out)
            /\ m_readySet' = m_readySet \ RangeOf(out)
         \/ /\ m_drainingSet # {}
            /\ UNCHANGED <<m_verified, m_drainingSet, m_drainingDifficulty, m_readySet>>
      /\ UNCHANGED <<more, todo, syncWaiting, transients, clears, retries>>
      /\ UNCHANGED <<m_unknownSet, m_knownBad, m_unknown, m_verifying, m_unverified,
                     m_difficulty, m_lock, goodQueue, badLeft, notify, verifierPc, verifierWork,
                     m_deleting, m_future, m_syncBlockQueue, chain, now>>
  BY DEF Drain, drain, At, Goto, boundVars, loopVars, threadVars
<1>2. /\ BQTypeOK /\ QueuesSound
      /\ goodQueue = <<>> /\ badLeft = <<>> /\ ~notify /\ ~At("drained")
      /\ QueuedIn(BadView) \ Invalid \subseteq m_readySet
      /\ QueuedIn(BadView) \subseteq m_readySet \cup m_knownBad
      /\ clears = 0 => \A x \in m_unknownSet :
             /\ ~isKnown(Parent[x])
             /\ Parent[x] \notin m_drainingSet \cup m_readySet \cup m_knownBad
  BY <1>1, FreeFacts
<1>3. /\ m_verified \in Seq(Blocks) /\ m_readySet \subseteq Blocks /\ m_unknownSet \subseteq Blocks
      /\ m_drainingSet \subseteq Blocks /\ m_difficulty \in Int /\ Len(m_future) \in Nat
      /\ Len(m_verified) \in Nat
  BY <1>2 DEF BQTypeOK
<1> HIDE DEF out
<1>4. /\ out \in Seq(Blocks) /\ m_verified' \in Seq(Blocks) /\ Len(out) \in Nat
      /\ Injective(out) /\ Injective(m_verified')
      /\ RangeOf(out) \subseteq RangeOf(m_verified) /\ RangeOf(out) \subseteq m_drainingSet'
      /\ RangeOf(m_verified') = RangeOf(m_verified) \ RangeOf(out)
      /\ m_readySet' = m_readySet \ RangeOf(out)
      /\ \/ m_drainingSet = {} /\ m_drainingSet' = RangeOf(out) /\ m_drainingDifficulty' = Len(out)
         \/ UNCHANGED <<m_verified, m_drainingSet, m_drainingDifficulty, m_readySet>>
  <2>0. Injective(m_verified)
    BY <1>2, SoundFacts
  <2>1. CASE m_drainingSet = {}
    <3>1. \E k \in 0..Len(m_verified) : out = SubSeq(m_verified, 1, k)
      BY <1>2, <2>1, DrainOutFacts, ImportAssumption DEF out
    <3>2. PICK k \in 0..Len(m_verified) : out = SubSeq(m_verified, 1, k)
      BY <3>1
    <3> DEFINE back == SubSeq(m_verified, k + 1, Len(m_verified))
    <3>3. /\ out \in Seq(Blocks) /\ Len(out) = k /\ back \in Seq(Blocks)
          /\ RangeOf(m_verified) = RangeOf(out) \cup RangeOf(back)
          /\ Injective(out) /\ Injective(back) /\ RangeOf(out) \cap RangeOf(back) = {}
      BY <1>3, <2>0, <3>2, SplitFacts
    <3>4. m_verified' = back /\ Len(out) \in Nat
      BY <1>1, <2>1, <3>3
    <3> HIDE DEF back
    <3>5. RangeOf(m_verified') = RangeOf(m_verified) \ RangeOf(out)
      BY <3>3, <3>4
    <3> QED BY <1>1, <2>1, <3>3, <3>4, <3>5
  <2>2. CASE m_drainingSet # {}
    <3>1. out = <<>>
      BY <2>2 DEF drainOut, out
    <3> QED BY <1>1, <1>3, <2>0, <2>2, <3>1, EmptyFacts
  <2> QED BY <2>1, <2>2
<1>5. BQTypeOK'
  <2>1. RangeOf(out) \subseteq Blocks
    BY <1>4, SeqFacts
  <2> QED BY <1>1, <1>2, <1>4, <2>1 DEF BQTypeOK
<1>6. TypeOK'
  <2>1. knownFull \in BOOLEAN
    BY DEF knownFull
  <2> QED BY <1>1, <1>4, <1>5, <2>1 DEF IInv, TypeOK, At
<1>7. /\ QueuedIn(BadView) = RangeOf(m_verified) \cup RangeOf(m_unverified) \cup HashesOf(m_verifying)
      /\ QueuedIn(BadView') = RangeOf(m_verified') \cup RangeOf(m_unverified) \cup HashesOf(m_verifying)
      /\ FinishedIn(BadView') = FinishedIn(BadView)
      /\ FinishedIn(BadView) \subseteq HashesOf(m_verifying)
  BY <1>1 DEF QueuedIn, FinishedIn, HashesOf, BadView
<1>8. /\ RangeOf(m_verified) \cap RangeOf(m_unverified) = {}
      /\ (RangeOf(m_verified) \cup RangeOf(m_unverified)) \cap HashesOf(m_verifying) = {}
      /\ FinishedIn(BadView) \subseteq m_readySet
      /\ (RangeOf(m_verified) \cup FinishedIn(BadView)) \cap Invalid = {}
      /\ m_unknownSet \cap (m_readySet \cup QueuedIn(BadView)) = {}
      /\ Injective(m_unverified) /\ HashOnce(m_verifying)
  BY <1>2, SoundFacts
<1>9. QueuedIn(BadView') = QueuedIn(BadView) \ RangeOf(out)
  BY <1>4, <1>7, <1>8
<1>10. RangeOf(out) \subseteq m_readySet \ Invalid
  BY <1>2, <1>4, <1>7, <1>8
<1>11. QueuesSound'
  <2>1. BadView' \in View
    BY <1>5 DEF BQTypeOK, View, BadView
  <2>2. /\ BadView'.verified = m_verified' /\ BadView'.verifying = m_verifying
        /\ BadView'.unverified = m_unverified /\ BadView'.ready = m_readySet'
        /\ BadView'.bad = m_knownBad
        /\ BadView'.unknownSet = m_unknownSet /\ BadView'.unknown = m_unknown
    BY <1>1 DEF BadView
  <2>3. Waits(BadView')
    BY <1>2, <2>2, SoundFacts, ViewFields DEF Waits
  <2>4. /\ RangeOf(m_verified') \cap RangeOf(m_unverified) = {}
        /\ (RangeOf(m_verified') \cup RangeOf(m_unverified)) \cap HashesOf(m_verifying) = {}
    BY <1>4, <1>8
  <2>5. /\ QueuedIn(BadView') \subseteq m_readySet' \cup m_knownBad
        /\ FinishedIn(BadView') \subseteq m_readySet'
        /\ (RangeOf(m_verified') \cup FinishedIn(BadView')) \cap Invalid = {}
        /\ m_unknownSet \cap (m_readySet' \cup QueuedIn(BadView')) = {}
        /\ QueuedIn(BadView') \ Invalid \subseteq m_readySet'
    BY <1>2, <1>4, <1>7, <1>8, <1>9
  <2>6. Sound(BadView')
    BY <1>4, <1>8, <2>1, <2>2, <2>3, <2>4, <2>5 DEF Sound
  <2> QED BY <2>5, <2>6 DEF QueuesSound
<1>12. LockTells'
  BY <1>1 DEF IInv, LockTells, At
<1>13. SleepersSeeNothing'
  BY <1>1 DEF IInv, SleepersSeeNothing, Asleep
<1>14. Unspoilt'
  BY <1>1, <1>4, <1>9 DEF IInv, Unspoilt, JobsRun
<1>15. OneFate'
  <2> SUFFICES ASSUME clears = 0 PROVE OneFate!2'
    BY <1>1 DEF OneFate
  <2>1. /\ m_readySet \cap (m_drainingSet \cup m_knownBad) = {}
        /\ m_drainingSet \cap (m_unknownSet \cup m_knownBad) = {}
        /\ m_unknownSet \cap m_knownBad = {}
        /\ \A u \in Verifiers : verifierWork[u] \in Invalid =>
                                    verifierWork[u] \in m_readySet \cup m_knownBad
    BY DEF IInv, OneFate
  <2>2. m_drainingSet' = RangeOf(out) \/ m_drainingSet' = m_drainingSet
    BY <1>4
  <2>3. /\ m_readySet' \cap (m_drainingSet' \cup m_knownBad) = {}
        /\ m_drainingSet' \cap (m_unknownSet \cup m_knownBad) = {}
    BY <1>4, <1>8, <1>10, <2>1, <2>2
  <2>4. RangeOf(blocks') \cup RangeOf(badBlocks') \subseteq m_drainingSet'
    BY <1>1, <1>4, EmptyFacts
  <2>5. \A u \in Verifiers : verifierWork[u] \in Invalid =>
                                    verifierWork[u] \in m_readySet' \cup m_knownBad
    BY <1>4, <1>10, <2>1
  <2> QED BY <1>1, <2>1, <2>3, <2>4, <2>5
<1>16. ParentMissing'
  BY <1>1, <1>2, <1>4, <1>10 DEF ParentMissing, isKnown
<1>17. DifficultyCovers'
  <2>1. CASE m_drainingSet = {} /\ m_drainingSet' = RangeOf(out) /\ m_drainingDifficulty' = Len(out)
    <3>1. Cardinality(RangeOf(out)) = Len(out) /\ RangeOf(out) \subseteq Blocks
      BY <1>4, CardOfRange, SeqFacts
    <3>2. /\ Cardinality(m_readySet) \in Nat /\ Cardinality(m_unknownSet) \in Nat
          /\ Cardinality(m_readySet') = Cardinality(m_readySet) - Cardinality(RangeOf(out))
      BY <1>3, <1>4, <1>10, <3>1, CardFacts
    <3>3. Cardinality(m_drainingSet) = 0
      BY <2>1, FS_EmptySet
    <3> QED BY <1>1, <1>3, <1>4, <2>1, <3>1, <3>2, <3>3 DEF IInv, DifficultyCovers
  <2>2. CASE UNCHANGED <<m_verified, m_drainingSet, m_drainingDifficulty, m_readySet>>
    BY <1>1, <2>2 DEF IInv, DifficultyCovers
  <2> QED BY <1>4, <2>1, <2>2
<1> QED BY <1>6, <1>11, <1>12, <1>13, <1>14, <1>15, <1>16, <1>17 DEF IInv

\* doneDrain() takes back which of them were bad.
LEMMA DoneDrainKeeps ==
  ASSUME IInv, DoneDrain
  PROVE  IInv'
<1>1. /\ clientPc = "import" /\ blocks = <<>> /\ m_lock = "free" /\ badBlocks' = <<>>
      /\ clientPc' = "drained" /\ badLeft' = badBlocks
      /\ m_lock' = (IF badBlocks = <<>> THEN "updated" ELSE "updateBad")
      /\ m_drainingSet' = {} /\ m_difficulty' = m_difficulty - m_drainingDifficulty
      /\ m_drainingDifficulty' = 0 /\ m_knownBad' = m_knownBad \cup RangeOf(badBlocks)
      /\ UNCHANGED <<blocks, wasFull, more, todo, syncWaiting, transients, clears, retries>>
      /\ UNCHANGED <<m_readySet, m_unknownSet, m_unknown, m_verified, m_verifying, m_unverified,
                     goodQueue, notify, verifierPc, verifierWork, m_deleting, m_future,
                     m_syncBlockQueue, chain, now>>
  BY DEF DoneDrain, doneDrain, UpdateBad, At, Goto, boundVars, queueVars, threadVars
<1>2. /\ BQTypeOK /\ QueuesSound
      /\ goodQueue = <<>> /\ badLeft = <<>> /\ ~notify
      /\ QueuedIn(BadView) \ Invalid \subseteq m_readySet
      /\ clears = 0 => \A x \in m_unknownSet :
             /\ ~isKnown(Parent[x])
             /\ Parent[x] \notin m_drainingSet \cup m_readySet \cup m_knownBad
  BY <1>1, FreeFacts
<1>3. badBlocks \in Seq(Blocks) /\ RangeOf(badBlocks) \subseteq Blocks
  BY SeqFacts DEF IInv, TypeOK
<1>4. BQTypeOK'
  BY <1>1, <1>2, <1>3 DEF BQTypeOK
<1>5. TypeOK'
  BY <1>1, <1>4 DEF IInv, TypeOK, At
<1>6. QueuesSound'
  <2>1. BadView' \in View
    BY <1>4 DEF BQTypeOK, View, BadView
  <2>2. Sound(BadView)
    BY <1>2 DEF QueuesSound
  <2>3. /\ BadView'.verified = BadView.verified /\ BadView'.verifying = BadView.verifying
        /\ BadView'.unverified = BadView.unverified /\ BadView'.ready = BadView.ready
        /\ BadView'.unknownSet = BadView.unknownSet /\ BadView'.unknown = BadView.unknown
        /\ BadView.bad \subseteq BadView'.bad
    BY <1>1 DEF BadView
  <2>4. QueuedIn(BadView') = QueuedIn(BadView) /\ FinishedIn(BadView') = FinishedIn(BadView)
    BY <2>3 DEF QueuedIn, FinishedIn
  <2>5. Sound(BadView')
    BY <2>1, <2>2, <2>3, <2>4 DEF Sound, Waits
  <2> QED BY <1>1, <1>2, <2>4, <2>5 DEF QueuesSound
<1>7. LockTells'
  BY <1>1, <1>2 DEF IInv, LockTells, At
<1>8. SleepersSeeNothing'
  BY <1>1 DEF IInv, SleepersSeeNothing, Asleep
<1>9. Unspoilt'
  <2>1. m_knownBad' = {} => m_knownBad = {}
    BY <1>1
  <2>2. QueuedIn(BadView') = QueuedIn(BadView)
    BY <1>1 DEF QueuedIn, BadView
  <2> QED BY <1>1, <2>1, <2>2 DEF IInv, Unspoilt, JobsRun
<1>10. OneFate'
  BY <1>1, EmptyFacts DEF IInv, OneFate
<1>11. ParentMissing'
  BY <1>1, <1>2 DEF ParentMissing, isKnown
<1>12. DifficultyCovers'
  <2>1. /\ m_readySet \subseteq Blocks /\ m_unknownSet \subseteq Blocks
        /\ m_drainingSet \subseteq Blocks /\ m_difficulty \in Int /\ Len(m_future) \in Nat
    BY <1>2 DEF BQTypeOK
  <2>2. /\ Cardinality(m_readySet) \in Nat /\ Cardinality(m_unknownSet) \in Nat
        /\ Cardinality(m_drainingSet) \in Nat /\ Cardinality({}) = 0
    BY <2>1, CardFacts, FS_EmptySet
  <2> QED BY <1>1, <2>1, <2>2 DEF IInv, DifficultyCovers
<1> QED BY <1>5, <1>6, <1>7, <1>8, <1>9, <1>10, <1>11, <1>12 DEF IInv

\* clear() empties the queue, whoever is at work.
LEMMA ClearKeeps ==
  ASSUME IInv, Clear
  PROVE  IInv'
<1>1. /\ clears < MaxClears /\ m_lock = "free" /\ clears' = clears + 1 /\ syncWaiting' = FALSE
      /\ m_readySet' = {} /\ m_drainingSet' = {} /\ m_unknownSet' = {}
      /\ m_unknown' = [p \in Hashes |-> <<>>]
      /\ m_verified' = <<>> /\ m_unverified' = <<>> /\ m_verifying' = <<>> /\ m_future' = <<>>
      /\ m_difficulty' = 0 /\ m_drainingDifficulty' = 0
      /\ UNCHANGED <<m_knownBad, m_lock, goodQueue, badLeft, notify, verifierPc, verifierWork,
                     m_deleting, m_syncBlockQueue, chain, now>>
      /\ UNCHANGED <<clientPc, blocks, badBlocks, wasFull, more, todo, transients, retries>>
  BY DEF Clear, clear, clearDifficulty, loopVars, threadVars, clientVars
<1>2. BQTypeOK /\ TypeOK
  BY DEF IInv, TypeOK
<1>3. BQTypeOK'
  BY <1>1, <1>2 DEF BQTypeOK
<1>4. TypeOK' /\ clears' # 0
  <2>1. clears' \in 0..MaxClears /\ clears' # 0
    BY <1>1, <1>2, ImportAssumption DEF TypeOK
  <2> QED BY <1>1, <1>2, <1>3, <2>1 DEF TypeOK, At
<1>5. QueuesSound'
  <2>1. BadView' \in View
    BY <1>3 DEF BQTypeOK, View, BadView
  <2>2. /\ BadView'.verified = <<>> /\ BadView'.verifying = <<>> /\ BadView'.unverified = <<>>
        /\ BadView'.ready = {} /\ BadView'.unknownSet = {}
        /\ BadView'.unknown = [p \in Hashes |-> <<>>]
    BY <1>1 DEF BadView
  <2>3. QueuedIn(BadView') = {} /\ FinishedIn(BadView') = {}
    BY <2>2, EmptyFacts DEF QueuedIn, FinishedIn
  <2>4. Waits(BadView')
    BY <2>2, EmptyFacts DEF Waits, WaitersOf, ParentLists
  <2>5. Sound(BadView')
    BY <2>1, <2>2, <2>3, <2>4, EmptyFacts DEF Sound
  <2> QED BY <2>3, <2>5 DEF QueuesSound
<1>6. LockTells'
  BY <1>1 DEF IInv, LockTells, At
<1>7. SleepersSeeNothing'
  BY <1>1 DEF SleepersSeeNothing
<1>8. Unspoilt'
  BY <1>1, EmptyFacts DEF Unspoilt, JobsRun
<1>9. OneFate' /\ ParentMissing'
  BY <1>4 DEF OneFate, ParentMissing
<1>10. DifficultyCovers'
  <2>1. Cardinality({}) = 0 /\ Len(<<>>) = 0
    BY FS_EmptySet
  <2> QED BY <1>1, <2>1 DEF DifficultyCovers
<1> QED BY <1>4, <1>5, <1>6, <1>7, <1>8, <1>9, <1>10 DEF IInv

-----------------------------------------------------------------------------
(* The client's import, and the steps that leave the queue alone.          *)

\* One block of sync()'s loop: it leaves blocks, perhaps for badBlocks or the chain.
LEMMA NextBlockKeeps ==
  ASSUME IInv, NEW bad \in {<<>>, <<Head(blocks)>>}, NextBlock(bad),
         chain' \in {chain, chain \cup {Head(blocks)}}, transients' \in 0..MaxTransients
  PROVE  IInv'
<1> DEFINE x == Head(blocks)
<1>1. /\ clientPc = "import" /\ blocks # <<>> /\ blocks' = Tail(blocks)
      /\ badBlocks' = badBlocks \o bad
      /\ UNCHANGED <<m_readySet, m_drainingSet, m_unknownSet, m_knownBad, m_unknown,
                     m_verified, m_verifying, m_unverified, m_difficulty, m_drainingDifficulty,
                     m_lock, goodQueue, badLeft, notify, verifierPc, verifierWork, m_deleting>>
      /\ UNCHANGED <<m_future, m_syncBlockQueue, now, clientPc, wasFull, more, todo,
                     syncWaiting, clears, retries>>
  BY DEF NextBlock, At, setVars, queueVars, diffVars, loopVars, threadVars
<1>2. BQTypeOK /\ blocks \in Seq(Blocks) /\ badBlocks \in Seq(Blocks)
  BY DEF IInv, TypeOK
<1>3. x \in Blocks /\ blocks' \in Seq(Blocks) /\ RangeOf(blocks) = {x} \cup RangeOf(blocks')
  BY <1>1, <1>2, TailFacts
<1>4. chain' \subseteq chain \cup {x} /\ (bad = <<>> \/ bad = <<x>>)
  OBVIOUS
<1> HIDE DEF x
<1>5. bad \in Seq(Blocks) /\ RangeOf(bad) \subseteq {x}
  <2>1. CASE bad = <<>>
    BY <2>1, EmptyFacts
  <2>2. CASE bad = <<x>>
    BY <1>3, <2>2, SingleFacts
  <2> QED BY <1>4, <2>1, <2>2
<1>6. badBlocks' \in Seq(Blocks) /\ RangeOf(badBlocks') \subseteq RangeOf(badBlocks) \cup {x}
  BY <1>1, <1>2, <1>5, ConcatFacts
<1>7. TypeOK'
  <2>1. chain' \subseteq Blocks
    BY <1>2, <1>3, <1>4 DEF BQTypeOK
  <2>2. BQTypeOK'
    BY <1>1, <1>2, <2>1 DEF BQTypeOK
  <2> QED BY <1>1, <1>3, <1>6, <2>2 DEF IInv, TypeOK, At
<1>8. QueuesSound' /\ DifficultyCovers' /\ Unspoilt'
  BY <1>1 DEF IInv, QueuesSound, BadView, DifficultyCovers, Unspoilt, JobsRun
<1>9. LockTells'
  BY <1>1 DEF IInv, LockTells, At
<1>10. SleepersSeeNothing'
  BY <1>1 DEF IInv, SleepersSeeNothing, Asleep
<1>11. OneFate'
  BY <1>1, <1>3, <1>6 DEF IInv, OneFate
<1>12. ParentMissing'
  <2>1. clears = 0 => x \in m_drainingSet
    BY <1>3 DEF IInv, OneFate
  <2> QED BY <1>1, <1>4, <2>1 DEF IInv, ParentMissing, isKnown
<1> QED BY <1>7, <1>8, <1>9, <1>10, <1>11, <1>12 DEF IInv

\* BlockChain::sync imports a block, or finds it bad, or fails for now.
LEMMA ImportNextKeeps ==
  ASSUME IInv, ImportNext
  PROVE  IInv'
<1>1. transients \in 0..MaxTransients /\ MaxTransients \in Nat
  BY ImportAssumption DEF IInv, TypeOK
<1>2. \E bad \in {<<>>, <<Head(blocks)>>} :
        /\ NextBlock(bad) /\ chain' \in {chain, chain \cup {Head(blocks)}}
        /\ transients' \in 0..MaxTransients
  <2>1. CASE AlreadyHaveBlock \/ FutureTime
    BY <1>1, <2>1 DEF AlreadyHaveBlock, FutureTime
  <2>2. CASE UnknownParent \/ BadBlock
    BY <1>1, <2>2 DEF UnknownParent, BadBlock
  <2>3. CASE TransientError
    BY <1>1, <2>3 DEF TransientError
  <2>4. CASE GoodBlock
    BY <1>1, <2>4 DEF GoodBlock
  <2> QED BY <2>1, <2>2, <2>3, <2>4 DEF ImportNext
<1> QED BY <1>2, NextBlockKeeps

\* A step of the client that leaves the queue and what is drained alone.
LEMMA QuietKeeps ==
  ASSUME IInv, TypeOK',
         UNCHANGED <<setVars, queueVars, diffVars, loopVars, verifierPc, verifierWork, m_future,
                     chain, blocks, badBlocks, clears>>,
         clientPc' = clientPc \/ (clientPc' # "drained" /\
                 (clientPc' \in {"room", "import"} \/ clientPc \notin {"room", "import"}))
  PROVE  IInv'
<1>1. UNCHANGED <<m_readySet, m_drainingSet, m_unknownSet, m_knownBad, m_unknown,
                  m_verified, m_verifying, m_unverified, m_difficulty, m_drainingDifficulty,
                  m_lock, goodQueue, badLeft, notify>>
  BY DEF setVars, queueVars, diffVars, loopVars
<1>2. QueuesSound' /\ DifficultyCovers' /\ Unspoilt'
  BY <1>1 DEF IInv, QueuesSound, BadView, DifficultyCovers, Unspoilt, JobsRun
<1>3. LockTells'
  BY <1>1 DEF IInv, LockTells, At
<1>4. SleepersSeeNothing' /\ OneFate' /\ ParentMissing'
  BY <1>1 DEF IInv, SleepersSeeNothing, Asleep, OneFate, ParentMissing, isKnown
<1> QED BY <1>2, <1>3, <1>4 DEF IInv

\* The client's steps outside the queue.
LEMMA QuietClientKeeps ==
  ASSUME IInv, TakeFlag \/ RoomAvailable \/ AssignFlag \/ NoTick \/ StopJoin \/ Stop
  PROVE  IInv'
<1>0. TypeOK /\ BQTypeOK
  BY DEF IInv, TypeOK
<1> USE <1>0 DEF At, Goto, boundVars, threadVars
<1>1. CASE TakeFlag
  <2>1. TypeOK'
    BY <1>1 DEF TakeFlag, TypeOK, BQTypeOK, setVars, queueVars, diffVars, loopVars
  <2> QED BY <1>1, <2>1, QuietKeeps DEF TakeFlag
<1>2. CASE RoomAvailable
  <2>1. TypeOK'
    BY <1>2 DEF RoomAvailable, TypeOK, BQTypeOK, bqVars, setVars, queueVars, diffVars, loopVars
  <2> QED BY <1>2, <2>1, QuietKeeps DEF RoomAvailable, bqVars
<1>3. CASE AssignFlag
  <2>1. TypeOK'
    BY <1>3 DEF AssignFlag, TypeOK, BQTypeOK, setVars, queueVars, diffVars, loopVars
  <2> QED BY <1>3, <2>1, QuietKeeps DEF AssignFlag
<1>4. CASE NoTick
  <2>1. TypeOK'
    BY <1>4 DEF NoTick, TypeOK, BQTypeOK, bqVars, setVars, queueVars, diffVars, loopVars
  <2> QED BY <1>4, <2>1, QuietKeeps DEF NoTick, bqVars
<1>5. CASE StopJoin
  <2>1. TypeOK'
    BY <1>5 DEF StopJoin, TypeOK, BQTypeOK, bqVars, setVars, queueVars, diffVars, loopVars
  <2> QED BY <1>5, <2>1, QuietKeeps DEF StopJoin, bqVars
<1>6. CASE Stop
  <2>1. TypeOK'
    BY <1>6 DEF Stop, SetDeleting, TypeOK, BQTypeOK, setVars, queueVars, diffVars, loopVars
  <2> QED BY <1>6, <2>1, QuietKeeps DEF Stop, SetDeleting
<1> QED BY <1>1, <1>2, <1>3, <1>4, <1>5, <1>6

\* The steps of others outside the queue.
LEMMA QuietOthersKeep ==
  ASSUME IInv, PauseSync \/ AdvanceClock
  PROVE  IInv'
<1>0. TypeOK /\ BQTypeOK
  BY DEF IInv, TypeOK
<1>1. CASE PauseSync
  <2>1. TypeOK'
    BY <1>0, <1>1 DEF PauseSync, TypeOK, BQTypeOK, bqVars, setVars, queueVars, diffVars, loopVars,
                      threadVars, clientVars, boundVars, At
  <2> QED BY <1>1, <2>1, QuietKeeps DEF PauseSync, bqVars, threadVars, clientVars, boundVars
<1>2. CASE AdvanceClock
  <2>1. TypeOK'
    BY <1>0, <1>2 DEF AdvanceClock, TypeOK, BQTypeOK, setVars, queueVars, diffVars, loopVars,
                      threadVars, clientVars, boundVars, At
  <2> QED BY <1>2, <2>1, QuietKeeps DEF AdvanceClock, threadVars, clientVars, boundVars
<1> QED BY <1>1, <1>2

\* tick() takes the due blocks out of m_future.
LEMMA TickKeeps ==
  ASSUME IInv, Tick
  PROVE  IInv'
<1>1. /\ clientPc \in {"tick", "work"} /\ DueCount > 0 /\ m_lock = "free"
      /\ m_future' = SubSeq(m_future, DueCount + 1, Len(m_future))
      /\ todo' = SubSeq(m_future, 1, DueCount) /\ clientPc' = "tock"
      /\ UNCHANGED <<m_readySet, m_drainingSet, m_unknownSet, m_knownBad, m_unknown,
                     m_verified, m_verifying, m_unverified, m_difficulty, m_drainingDifficulty,
                     m_lock, goodQueue, badLeft, notify, verifierPc, verifierWork, m_deleting>>
      /\ UNCHANGED <<m_syncBlockQueue, chain, now, blocks, badBlocks, wasFull, more, syncWaiting,
                     transients, clears, retries>>
  BY DEF Tick, tick, tickTodo, At, Goto, setVars, queueVars, diffVars, loopVars, threadVars,
         boundVars
<1>2. TypeOK /\ BQTypeOK
  BY DEF IInv, TypeOK
<1>3. m_future \in Seq(Blocks) /\ Len(m_future) \in Nat /\ DOMAIN m_future = 1..Len(m_future)
  BY <1>2 DEF BQTypeOK
<1>4. DueCount \in 0..Len(m_future)
  <2> DEFINE due == {i \in DOMAIN m_future : Timestamp[m_future[i]] <= now}
  <2>1. DueCount = Cardinality(due)
    BY DEF DueCount
  <2>2. due \in SUBSET (1..Len(m_future))
    BY <1>3
  <2> HIDE DEF due
  <2> QED BY <1>3, <2>1, <2>2, RankFacts
<1>5. /\ todo' \in Seq(Blocks) /\ Len(todo') = DueCount
      /\ m_future' \in Seq(Blocks) /\ Len(m_future') = Len(m_future) - DueCount
  <2>1. PICK k \in 0..Len(m_future) : k = DueCount
    BY <1>4
  <2>2. /\ SubSeq(m_future, 1, k) \in Seq(Blocks) /\ Len(SubSeq(m_future, 1, k)) = k
        /\ SubSeq(m_future, k + 1, Len(m_future)) \in Seq(Blocks)
        /\ Len(SubSeq(m_future, k + 1, Len(m_future))) = Len(m_future) - k
    <3>1. m_future \in Seq(Blocks)
      BY <1>3
    <3> QED BY <3>1, SplitFacts
  <2>3. todo' = SubSeq(m_future, 1, k) /\ m_future' = SubSeq(m_future, k + 1, Len(m_future))
    BY <1>1, <2>1
  <2> QED BY <2>1, <2>2, <2>3
<1>6. todo' # <<>>
  BY <1>1, <1>5
<1>7. TypeOK'
  <2>1. BQTypeOK'
    BY <1>1, <1>2, <1>5 DEF BQTypeOK
  <2> QED BY <1>1, <1>2, <1>5, <1>6, <2>1 DEF TypeOK, At
<1>8. QueuesSound' /\ Unspoilt' /\ OneFate'
  BY <1>1 DEF IInv, QueuesSound, BadView, Unspoilt, JobsRun, OneFate
<1>9. LockTells'
  BY <1>1 DEF IInv, LockTells, At
<1>10. SleepersSeeNothing' /\ ParentMissing'
  BY <1>1 DEF IInv, SleepersSeeNothing, Asleep, ParentMissing, isKnown
<1>11. DifficultyCovers'
  <2>1. /\ m_readySet \subseteq Blocks /\ m_unknownSet \subseteq Blocks
        /\ m_drainingSet \subseteq Blocks /\ m_difficulty \in Int
    BY <1>2 DEF BQTypeOK
  <2>2. /\ Cardinality(m_readySet) \in Nat /\ Cardinality(m_unknownSet) \in Nat
        /\ Cardinality(m_drainingSet) \in Nat
    BY <2>1, CardFacts
  <2>3. Len(m_future') <= Len(m_future) /\ Len(m_future') \in Nat
    BY <1>3, <1>4, <1>5
  <2>4. UNCHANGED <<m_readySet, m_drainingSet, m_unknownSet, m_difficulty, m_drainingDifficulty>>
    BY <1>1
  <2> QED BY <1>3, <2>1, <2>2, <2>3, <2>4 DEF IInv, DifficultyCovers
<1> QED BY <1>7, <1>8, <1>9, <1>10, <1>11 DEF IInv

\* stop() wakes every verifier.
LEMMA StopNotifyKeeps ==
  ASSUME IInv, StopNotify
  PROVE  IInv'
<1>1. /\ clientPc = "stopping" /\ clientPc' = "joining" /\ NotifyAll
      /\ UNCHANGED <<m_readySet, m_drainingSet, m_unknownSet, m_knownBad, m_unknown,
                     m_verified, m_verifying, m_unverified, m_difficulty, m_drainingDifficulty,
                     m_lock, goodQueue, badLeft, notify, verifierWork, m_deleting>>
      /\ UNCHANGED <<m_future, m_syncBlockQueue, chain, now, blocks, badBlocks, wasFull, more,
                     todo, syncWaiting, transients, clears, retries>>
  BY DEF StopNotify, NotifyDeleting, At, Goto, setVars, queueVars, diffVars, loopVars, boundVars
<1>2. TypeOK /\ BQTypeOK
  BY DEF IInv, TypeOK
<1>3. /\ verifierPc' \in [Verifiers -> {"check", "asleep", "verify", "signal", "done"}]
      /\ \A v \in Verifiers : verifierPc'[v] = "verify" <=> verifierPc[v] = "verify"
      /\ Asleep' # Verifiers
  BY <1>1, <1>2, NotifyFacts
<1>4. TypeOK'
  <2>1. BQTypeOK'
    BY <1>1, <1>2, <1>3 DEF BQTypeOK
  <2> QED BY <1>1, <1>2, <2>1 DEF TypeOK, At
<1>5. QueuesSound' /\ DifficultyCovers' /\ Unspoilt' /\ OneFate'
  BY <1>1 DEF IInv, QueuesSound, BadView, DifficultyCovers, Unspoilt, JobsRun, OneFate
<1>6. LockTells'
  BY <1>1 DEF IInv, LockTells, At
<1>7. SleepersSeeNothing'
  BY <1>3 DEF SleepersSeeNothing
<1>8. ParentMissing'
  BY <1>1 DEF IInv, ParentMissing, isKnown
<1> QED BY <1>4, <1>5, <1>6, <1>7, <1>8 DEF IInv

-----------------------------------------------------------------------------
\* The invariant holds when the threads start, and every step keeps it.
LEMMA InitKeeps == Init => IInv
<1> SUFFICES ASSUME Init PROVE IInv
  OBVIOUS
<1> USE DEF Init, BQInit
<1>1. TypeOK
  <2>e. <<>> \in Seq(Blocks) /\ <<>> \in Seq(JobSet)
    OBVIOUS
  <2>1. BQTypeOK
    <3>1. m_unknown \in [Hashes -> Seq(Blocks)]
      BY <2>e
    <3>2. /\ verifierPc \in [Verifiers -> {"check", "asleep", "verify", "signal", "done"}]
          /\ verifierWork \in [Verifiers -> Blocks \cup {NoBlock}]
          /\ \A v \in Verifiers : verifierPc[v] = "verify" <=> verifierWork[v] # NoBlock
      OBVIOUS
    <3>3. /\ m_future \in Seq(Blocks) /\ m_verified \in Seq(Blocks) /\ m_unverified \in Seq(Blocks)
          /\ m_verifying \in Seq(JobSet) /\ badLeft \in Seq(Blocks) /\ goodQueue \in Seq(Blocks)
      BY <2>e
    <3>4. /\ m_lock = "free" /\ goodQueue = <<>>
          /\ m_readySet \subseteq Blocks /\ m_drainingSet \subseteq Blocks
          /\ m_unknownSet \subseteq Blocks /\ m_knownBad \subseteq Blocks \cup {EmptyListSHA3}
          /\ m_difficulty \in Int /\ m_drainingDifficulty \in Nat
          /\ chain \subseteq Blocks /\ now \in Nat
      OBVIOUS
    <3>7. m_deleting \in BOOLEAN /\ notify \in BOOLEAN /\ m_syncBlockQueue \in BOOLEAN
      BY Zenon
    <3>5. (m_lock = "noteReady" <=> goodQueue # <<>>) /\ (m_lock = "updateBad" => badLeft # <<>>)
      BY <3>4
    <3>6. m_lock \in {"free", "noteReady", "retryAllUnknown", "updateBad", "moreBad", "updated"}
      BY <3>4
    <3> HIDE DEF Init, BQInit
    <3> QED BY <3>1, <3>2, <3>3, <3>4, <3>5, <3>6, <3>7 DEF BQTypeOK
  <2>2. transients \in 0..MaxTransients /\ clears \in 0..MaxClears /\ retries \in 0..MaxRetries
    <3>1. \A n \in Nat : 0 \in 0..n
      OBVIOUS
    <3> QED BY <3>1, ImportAssumption
  <2> QED BY <2>e, <2>1, <2>2 DEF TypeOK, At
<1>2. QueuesSound
  <2>1. BadView \in View
    BY DEF View, BadView
  <2>2. /\ BadView.verified = <<>> /\ BadView.verifying = <<>> /\ BadView.unverified = <<>>
        /\ BadView.ready = {} /\ BadView.unknownSet = {}
        /\ BadView.unknown = [p \in Hashes |-> <<>>]
    BY DEF BadView
  <2>3. QueuedIn(BadView) = {} /\ FinishedIn(BadView) = {}
    BY <2>2, EmptyFacts DEF QueuedIn, FinishedIn
  <2>4. Waits(BadView)
    BY <2>2, EmptyFacts DEF Waits, WaitersOf, ParentLists
  <2>5. Sound(BadView)
    BY <2>1, <2>2, <2>3, <2>4, EmptyFacts DEF Sound
  <2> QED BY <2>3, <2>5 DEF QueuesSound
<1>3. LockTells /\ SleepersSeeNothing
  BY EmptyFacts DEF LockTells, SleepersSeeNothing, At
<1>4. Unspoilt
  BY EmptyFacts DEF Unspoilt, JobsRun
<1>5. OneFate /\ ParentMissing
  <2>1. NoBlock \notin Invalid
    BY BlocksAssumption
  <2> QED BY <2>1, EmptyFacts DEF OneFate, ParentMissing
<1>6. DifficultyCovers
  <2>1. Cardinality({}) = 0 /\ Len(<<>>) = 0
    BY FS_EmptySet
  <2> QED BY <2>1 DEF DifficultyCovers
<1> QED BY <1>1, <1>2, <1>3, <1>4, <1>5, <1>6 DEF IInv

LEMMA NextKeeps == IInv /\ [Next]_vars => IInv'
<1> SUFFICES ASSUME IInv, [Next]_vars PROVE IInv'
  OBVIOUS
<1>1. CASE ClientStep
  BY <1>1, QuietClientKeeps, DrainKeeps, ImportNextKeeps, DoneDrainKeeps, UpdatedKeeps,
     TickKeeps, TickImportKeeps DEF ClientStep, Drained
<1>2. CASE LockedStep
  BY <1>2, NoteReadyKeeps, RetryStepKeeps, CollectBadKeeps, MoreBadKeeps, UpdatedKeeps
     DEF LockedStep, OthersRest
<1>3. CASE StopStep \/ Stop
  BY <1>3, StopNotifyKeeps, QuietClientKeeps DEF StopStep
<1>4. CASE \E v \in Verifiers : Verifier(v)
  BY <1>4, TakeJobKeeps, VerifyThrowsKeeps, VerifyReturnsKeeps, OnReadyKeeps
     DEF Verifier, OthersRest
<1>5. CASE \E b \in Blocks, isOurs \in BOOLEAN : Arrive(b, isOurs)
  BY <1>5, ArriveKeeps
<1>6. CASE PauseSync \/ Clear \/ RetryUnknown \/ AdvanceClock
  BY <1>6, QuietOthersKeep, ClearKeeps, RetryUnknownKeeps
<1>7. CASE UNCHANGED vars
  <2>1. TypeOK'
    BY <1>7 DEF IInv, TypeOK, BQTypeOK, vars, bqVars, setVars, queueVars, diffVars, loopVars,
                threadVars, clientVars, boundVars, At
  <2> QED BY <1>7, <2>1, QuietKeeps DEF vars, bqVars, threadVars, clientVars, boundVars
<1> QED BY <1>1, <1>2, <1>3, <1>4, <1>5, <1>6, <1>7 DEF Next

LEMMA Invariant == Spec => []IInv
  BY InitKeeps, NextKeeps, PTL DEF Spec

-----------------------------------------------------------------------------
(* The theorems.                                                           *)

\* The variables of BlockQueue.cpp, Client.cpp and BlockChain::sync keep their types in
\* every interleaving of verifiers, peers, the client's thread and clear(): no queue,
\* list or set ever holds anything but blocks, and a holder of the lock is where it is.
THEOREM TypeCorrect == Spec => []TypeOK
<1>1. IInv => TypeOK
  BY DEF IInv
<1> QED BY <1>1, Invariant, PTL

\* m_difficulty counts at least every block held and m_drainingDifficulty exactly those
\* handed out: however imports, drains, condemnations and clear() interleave, doneDrain's
\* `m_difficulty -= m_drainingDifficulty` never wraps around.
THEOREM DifficultyIsCovered == Spec => []DifficultyCovers
<1>1. IInv => DifficultyCovers
  BY DEF IInv
<1> QED BY <1>1, Invariant, PTL

\* The four sets of the queue stay disjoint, so blockStatus() and import() answer the same
\* whatever the order of their tests.  clear() is the one call that breaks this: it empties
\* m_readySet while a verifier is at work, whose block may then be ready a second time.
THEOREM BlocksHaveOneStatus == Spec => [](clears = 0 => Consistent)
<1>1. IInv => (clears = 0 => Consistent)
  <2> SUFFICES ASSUME IInv, clears = 0 PROVE Consistent
    OBVIOUS
  <2>1. m_unknownSet = UNION {RangeOf(m_unknown[p]) : p \in Hashes}
    BY SoundFacts, ViewFields DEF IInv, Waits, WaitersOf
  <2>2. m_readySet \cap m_unknownSet = {}
    BY SoundFacts DEF IInv
  <2>3. /\ m_readySet \cap (m_drainingSet \cup m_knownBad) = {}
        /\ m_drainingSet \cap (m_unknownSet \cup m_knownBad) = {}
        /\ m_unknownSet \cap m_knownBad = {}
    BY DEF IInv, OneFate
  <2> QED BY <2>1, <2>2, <2>3 DEF IInv, Consistent, OneStatus
<1> QED BY <1>1, Invariant, PTL

\* Whenever the lock is free, a block in m_unknown waits for a parent nobody has brought:
\* noteReady_WITH_LOCK and updateBad_WITH_LOCK, one list at a time, leave no child behind.
\* Again only clear() breaks it, by forgetting m_readySet while the client drains.
THEOREM WaitersMissTheirParent == Spec => [](clears = 0 => UnknownWaits)
<1>1. IInv => (clears = 0 => UnknownWaits)
  BY FreeFacts DEF UnknownWaits, ParentKnown
<1> QED BY <1>1, Invariant, PTL

\* No verifier sleeps through work: when all of them wait on m_moreToVerify and no
\* thread is about to notify, m_unverified is empty.  notify_one is enough although
\* several blocks may be released at once.
THEOREM NoWakeupIsLost == Spec => []SleepersHaveNoWork
<1>1. IInv => SleepersHaveNoWork
  BY FreeFacts DEF IInv, SleepersSeeNothing, SleepersHaveNoWork
<1> QED BY <1>1, Invariant, PTL

\* Every job that is not finished has its verifier, and the job all later ones wait for is
\* one of those.  Once blocks are bad removeIf may take the first job away and leave a
\* finished one in front: hence the condition.
THEOREM WorkIsUnderWay == Spec => [](m_knownBad = {} => WorkIsTaken)
<1>1. IInv => (m_knownBad = {} => WorkIsTaken)
  <2>1. IInv => SleepersHaveNoWork
    BY FreeFacts DEF IInv, SleepersSeeNothing, SleepersHaveNoWork
  <2>2. IInv => (m_knownBad = {} => FirstJobRuns)
    BY DEF IInv, Unspoilt, JobsRun, FirstJobRuns
  <2> QED BY <2>1, <2>2 DEF WorkIsTaken
<1> QED BY <1>1, Invariant, PTL

\* BlockQueue::invariants(): m_readySet is what the three queues hold and m_knownCount its
\* size.  removeIf in updateBad_WITH_LOCK leaves jobs of bad blocks behind: hence the
\* condition, that no block has been found bad.
THEOREM ReadySetIsTheQueues == Spec => [](m_knownBad = {} => ReadyIsQueued)
<1>1. IInv => (m_knownBad = {} => ReadyIsQueued)
  <2> SUFFICES ASSUME IInv, m_knownBad = {}
               PROVE  m_readySet = Queued /\ knownCount = Cardinality(m_readySet)
    BY DEF ReadyIsQueued
  <2>1. /\ Injective(m_verified) /\ Injective(m_unverified) /\ HashOnce(m_verifying)
        /\ RangeOf(m_verified) \cap RangeOf(m_unverified) = {}
        /\ (RangeOf(m_verified) \cup RangeOf(m_unverified)) \cap HashesOf(m_verifying) = {}
        /\ QueuedIn(BadView) \subseteq m_readySet
    BY SoundFacts DEF IInv
  <2>2. m_readySet \subseteq QueuedIn(BadView)
    BY DEF IInv, Unspoilt
  <2>3. QueuedIn(BadView) = RangeOf(m_verified) \cup RangeOf(m_unverified) \cup HashesOf(m_verifying)
    BY DEF QueuedIn, BadView
  <2>4. Queued = QueuedIn(BadView)
    BY <2>3 DEF Queued, HashesOf
  <2>5. m_verified \in Seq(Blocks) /\ m_unverified \in Seq(Blocks) /\ m_verifying \in Seq(JobSet)
    BY DEF IInv, TypeOK, BQTypeOK
  <2> DEFINE hs == [i \in 1..Len(m_verifying) |-> m_verifying[i].hash]
  <2>6. /\ Len(m_verifying) \in Nat /\ DOMAIN m_verifying = 1..Len(m_verifying)
        /\ \A i \in 1..Len(m_verifying) : m_verifying[i] \in JobSet
    BY <2>5
  <2>7. hs \in Seq(Blocks) /\ Len(hs) = Len(m_verifying) /\ DOMAIN hs = 1..Len(m_verifying)
    <3>1. hs \in [1..Len(m_verifying) -> Blocks]
      BY <2>6 DEF JobSet
    <3> QED BY <2>6, <3>1
  <2>8. RangeOf(hs) = HashesOf(m_verifying)
    <3>1. HashesOf(m_verifying) = {m_verifying[i].hash : i \in DOMAIN m_verifying}
      BY DEF HashesOf, RangeOf
    <3>2. RangeOf(hs) = {m_verifying[i].hash : i \in 1..Len(m_verifying)}
      BY <2>7 DEF RangeOf
    <3> QED BY <2>6, <3>1, <3>2
  <2>9. Injective(hs)
    BY <2>1, <2>6, <2>7 DEF Injective, HashOnce
  <2> HIDE DEF hs
  <2>10. /\ IsFiniteSet(RangeOf(m_verified)) /\ Cardinality(RangeOf(m_verified)) = Len(m_verified)
         /\ IsFiniteSet(RangeOf(m_unverified)) /\ Cardinality(RangeOf(m_unverified)) = Len(m_unverified)
         /\ IsFiniteSet(RangeOf(hs)) /\ Cardinality(RangeOf(hs)) = Len(m_verifying)
    BY <2>1, <2>5, <2>7, <2>9, CardOfRange
  <2> DEFINE A == RangeOf(m_verified)
             B == RangeOf(m_unverified)
             C == RangeOf(hs)
  <2>11. A \cap B = {} /\ (A \cup B) \cap C = {} /\ m_readySet = (A \cup B) \cup C
    BY <2>1, <2>2, <2>3, <2>8
  <2>12. /\ IsFiniteSet(A) /\ Cardinality(A) = Len(m_verified)
         /\ IsFiniteSet(B) /\ Cardinality(B) = Len(m_unverified)
         /\ IsFiniteSet(C) /\ Cardinality(C) = Len(m_verifying)
    BY <2>10
  <2> HIDE DEF A, B, C
  <2>13. IsFiniteSet(A \cup B) /\ Cardinality(A \cup B) = Len(m_verified) + Len(m_unverified) - Cardinality({})
    BY <2>11, <2>12, FS_Union
  <2>14. Cardinality((A \cup B) \cup C)
            = Cardinality(A \cup B) + Len(m_verifying) - Cardinality({})
    BY <2>11, <2>12, <2>13, FS_Union
  <2>15. Cardinality({}) = 0 /\ Len(m_verified) \in Nat /\ Len(m_unverified) \in Nat
    BY <2>5, FS_EmptySet
  <2>16. knownCount = Cardinality(m_readySet)
    BY <2>6, <2>11, <2>13, <2>14, <2>15 DEF knownCount
  <2>17. m_readySet = Queued
    BY <2>1, <2>2, <2>4
  <2> QED BY <2>16, <2>17
<1> QED BY <1>1, Invariant, PTL

-----------------------------------------------------------------------------
(* The order in which blocks reach the chain.                              *)

\* The hashes of the jobs js, in order, and all blocks on their way, from the client's
\* next one to the last one that came.
HashSeq(js) == [i \in DOMAIN js |-> js[i].hash]
Cat(s, t) == s \o t
WayOf(bs, vs, js, us) == Cat(bs, Cat(Cat(vs, HashSeq(js)), us))
Way == blocks \o InOrder

\* The parents that excuse a block from having its own ahead of it.
Excused == chain \cup {Genesis} \cup m_knownBad \cup RangeOf(badBlocks)

\* Every block of w has its parent in K, or ahead of it.
OrderedIn(w, K) ==
    \A i \in DOMAIN w : Parent[w[i]] \in K \/ \E j \in 1..(i - 1) : w[j] = Parent[w[i]]

\* Nothing has gone wrong, or round the queue, so far.
Undisturbed == /\ m_knownBad = {} /\ retries = 0 /\ transients = 0
               /\ \A b \in Ours : Timestamp[b] = 0

\* Until then: the order, and what it takes to keep it.
OrderKept ==
    Undisturbed =>
        /\ ParentsFirst
        /\ m_drainingSet \subseteq RangeOf(blocks) \cup chain \cup RangeOf(badBlocks)
        /\ \A b \in m_readySet \cup m_unknownSet \cup m_drainingSet \cup RangeOf(blocks) :
               Timestamp[b] <= now
        /\ RangeOf(goodQueue) \subseteq m_readySet

RetryTells == m_lock = "retryAllUnknown" => retries # 0

\* ParentsFirst, in these words.
LEMMA OrderIsWay == /\ ParentsFirst <=> OrderedIn(Way, Excused)
                    /\ ParentsFirst' <=> OrderedIn(Way', Excused')
  BY DEF ParentsFirst, OrderedIn, Way, Excused, isKnown

\* With more parents excused.
LEMMA OrderedMore ==
  ASSUME NEW w, NEW K, NEW L, OrderedIn(w, K), K \subseteq L
  PROVE  OrderedIn(w, L)
  BY DEF OrderedIn

\* The first block goes: those on it are excused from then on.
LEMMA OrderedTail ==
  ASSUME NEW w \in Seq(Blocks), w # <<>>, NEW K, OrderedIn(w, K)
  PROVE  OrderedIn(Tail(w), K \cup {Head(w)})
<1> DEFINE t == Tail(w)
           n == Len(w)
<1>1. /\ n \in Nat /\ n # 0 /\ DOMAIN w = 1..n /\ DOMAIN t = 1..(n - 1)
      /\ \A i \in 1..(n - 1) : t[i] = w[i + 1]
      /\ Head(w) = w[1]
  OBVIOUS
<1> HIDE DEF t, n
<1>2. SUFFICES ASSUME NEW i \in 1..(n - 1), Parent[t[i]] \notin K \cup {Head(w)}
               PROVE  \E j \in 1..(i - 1) : t[j] = Parent[t[i]]
  BY <1>1 DEF OrderedIn, t
<1>3. i + 1 \in 1..n /\ t[i] = w[i + 1]
  BY <1>1
<1>4. PICK j \in 1..((i + 1) - 1) : w[j] = Parent[w[i + 1]]
  BY <1>1, <1>2, <1>3 DEF OrderedIn
<1>5. j # 1
  BY <1>1, <1>2, <1>3, <1>4
<1>6. j - 1 \in 1..(i - 1) /\ j - 1 \in 1..(n - 1) /\ (j - 1) + 1 = j
  BY <1>1, <1>4, <1>5
<1>7. t[j - 1] = w[j]
  BY <1>1, <1>6
<1> QED BY <1>3, <1>4, <1>6, <1>7

\* Blocks at the end go.
LEMMA OrderedFront ==
  ASSUME NEW w \in Seq(Blocks), NEW s \in Seq(Blocks), NEW K, OrderedIn(w \o s, K)
  PROVE  OrderedIn(w, K)
<1> DEFINE t == w \o s
           m == Len(w)
           n == Len(s)
<1>1. /\ m \in Nat /\ n \in Nat /\ DOMAIN w = 1..m /\ DOMAIN t = 1..(m + n)
      /\ \A i \in 1..m : t[i] = w[i]
  OBVIOUS
<1> HIDE DEF t, m, n
<1>2. SUFFICES ASSUME NEW i \in 1..m, Parent[w[i]] \notin K
               PROVE  \E j \in 1..(i - 1) : w[j] = Parent[w[i]]
  BY <1>1 DEF OrderedIn
<1>3. i \in 1..(m + n) /\ t[i] = w[i]
  BY <1>1, <1>2
<1>4. PICK j \in 1..(i - 1) : t[j] = Parent[t[i]]
  BY <1>1, <1>2, <1>3 DEF OrderedIn, t
<1>5. j \in 1..m
  BY <1>1, <1>4
<1> QED BY <1>1, <1>3, <1>4, <1>5

\* Blocks come whose parents are ahead, or excused.
LEMMA OrderedConcat ==
  ASSUME NEW w \in Seq(Blocks), NEW s \in Seq(Blocks), NEW K, OrderedIn(w, K),
         \A b \in RangeOf(s) : Parent[b] \in K \cup RangeOf(w)
  PROVE  OrderedIn(w \o s, K)
<1> DEFINE t == w \o s
           m == Len(w)
           n == Len(s)
<1>1. /\ m \in Nat /\ n \in Nat /\ DOMAIN w = 1..m /\ DOMAIN t = 1..(m + n) /\ DOMAIN s = 1..n
      /\ \A i \in 1..m : t[i] = w[i]
      /\ \A i \in 1..(m + n) : i > m => t[i] = s[i - m]
  OBVIOUS
<1> HIDE DEF t, m, n
<1>2. SUFFICES ASSUME NEW i \in 1..(m + n), Parent[t[i]] \notin K
               PROVE  \E j \in 1..(i - 1) : t[j] = Parent[t[i]]
  BY <1>1 DEF OrderedIn, t
<1>3. CASE i <= m
  <2>1. i \in 1..m /\ t[i] = w[i]
    BY <1>1, <1>3
  <2>2. PICK j \in 1..(i - 1) : w[j] = Parent[w[i]]
    BY <1>1, <1>2, <2>1 DEF OrderedIn
  <2>3. j \in 1..m
    BY <1>1, <2>1, <2>2
  <2> QED BY <1>1, <2>1, <2>2, <2>3
<1>4. CASE i > m
  <2>1. i - m \in 1..n /\ t[i] = s[i - m]
    BY <1>1, <1>4
  <2>2. t[i] \in RangeOf(s)
    BY <1>1, <2>1 DEF RangeOf
  <2>3. Parent[t[i]] \in RangeOf(w)
    BY <1>2, <2>2
  <2>4. PICK j \in 1..m : w[j] = Parent[t[i]]
    BY <1>1, <2>3 DEF RangeOf
  <2>5. j \in 1..(i - 1) /\ t[j] = w[j]
    BY <1>1, <1>4, <2>4
  <2> QED BY <2>4, <2>5
<1> QED BY <1>1, <1>3, <1>4

\* The hashes of jobs, as the queue's operations change them.
LEMMA HashSeqFacts ==
  ASSUME NEW js \in Seq(JobSet)
  PROVE  /\ HashSeq(js) \in Seq(Blocks) /\ Len(HashSeq(js)) = Len(js)
         /\ RangeOf(HashSeq(js)) = HashesOf(js)
         /\ \A i \in 1..Len(js) : HashSeq(js)[i] = js[i].hash
<1> DEFINE h == HashSeq(js)
           n == Len(js)
<1>1. n \in Nat /\ DOMAIN js = 1..n /\ \A i \in 1..n : js[i] \in JobSet
  OBVIOUS
<1>2. h = [i \in 1..n |-> js[i].hash] /\ \A i \in 1..n : js[i].hash \in Blocks
  BY <1>1 DEF HashSeq, JobSet
<1> HIDE DEF h, n
<1>3. h \in [1..n -> Blocks] /\ DOMAIN h = 1..n /\ \A i \in 1..n : h[i] = js[i].hash
  BY <1>2
<1>4. h \in Seq(Blocks) /\ Len(h) = n
  BY <1>1, <1>3
<1>5. RangeOf(h) = HashesOf(js)
  <2>1. RangeOf(h) = {h[i] : i \in 1..n}
    BY <1>3 DEF RangeOf
  <2>2. HashesOf(js) = {js[i].hash : i \in 1..n}
    BY <1>1 DEF HashesOf, RangeOf
  <2> QED BY <1>3, <2>1, <2>2
<1> QED BY <1>3, <1>4, <1>5 DEF h, n

\* Two sequences with the same elements are the same.
LEMMA SameSeq ==
  ASSUME NEW s \in Seq(Blocks), NEW t \in Seq(Blocks), Len(s) = Len(t),
         \A i \in 1..Len(s) : s[i] = t[i]
  PROVE  s = t
  OBVIOUS

\* All the provers need of Cat.
LEMMA CatFacts ==
  /\ \A s, t \in Seq(Blocks) : Cat(s, t) \in Seq(Blocks)
  /\ \A s, t, u \in Seq(Blocks) : Cat(Cat(s, t), u) = Cat(s, Cat(t, u))
  /\ \A s \in Seq(Blocks) : Cat(<<>>, s) = s
<1>1. \A s, t \in Seq(Blocks) : Cat(s, t) \in Seq(Blocks)
  BY ConcatFacts DEF Cat
<1>2. \A s, t, u \in Seq(Blocks) : Cat(Cat(s, t), u) = Cat(s, Cat(t, u))
  BY ConcatAssociative DEF Cat
<1>3. \A s \in Seq(Blocks) : Cat(<<>>, s) = s
  BY ConcatEmptySeq DEF Cat
<1> QED BY <1>1, <1>2, <1>3

\* The elements of a concatenation.
LEMMA ConcatAt ==
  ASSUME NEW s \in Seq(Blocks), NEW t \in Seq(Blocks)
  PROVE  /\ s \o t \in Seq(Blocks) /\ Len(s \o t) = Len(s) + Len(t)
         /\ \A i \in 1..(Len(s) + Len(t)) :
                (s \o t)[i] = IF i <= Len(s) THEN s[i] ELSE t[i - Len(s)]
  BY ConcatProperties

\* removeIf that finds nothing to remove.
LEMMA WithoutNone ==
  ASSUME NEW s \in Seq(Blocks)
  PROVE  Without(s, {}) = s
<1> DEFINE m == Len(s)
<1>1. PICK n \in 0..m : \E f \in [1..n -> 1..m] : Keeps(Without(s, {}), s, {}, n, f)
  BY WithoutKeeps
<1>2. PICK f \in [1..n -> 1..m] : Keeps(Without(s, {}), s, {}, n, f)
  BY <1>1
<1>3. m \in Nat /\ {i \in 1..m : s[i] \notin {}} = 1..m
  OBVIOUS
<1>4. n = m
  <2>1. Cardinality(1..m) = m
    <3>1. \A k \in Nat : Cardinality(1..k) = k
      BY FS_Interval
    <3> QED BY <1>3, <3>1, Zenon
  <2> QED BY <1>2, <1>3, <2>1 DEF Keeps
<1>5. /\ Without(s, {}) = [k \in 1..m |-> s[f[k]]]
      /\ \A j, k \in 1..m : j < k => f[j] < f[k]
      /\ {f[k] : k \in 1..m} = 1..m
      /\ \A k \in 1..m : f[k] \in 1..m
  BY <1>2, <1>3, <1>4 DEF Keeps
<1>6. s \in Seq(Blocks) /\ s = [k \in 1..m |-> s[k]]
  OBVIOUS
<1> HIDE DEF m
<1>7. \A k \in 1..m : f[k] = k
  <2> DEFINE wrong == {k \in 1..m : f[k] # k}
  <2>1. wrong \in SUBSET Nat
    BY <1>3
  <2>2. SUFFICES ASSUME wrong # {} PROVE FALSE
    OBVIOUS
  <2>3. PICK k \in wrong : \A j \in wrong : k <= j
    BY <2>1, <2>2, LeastNumber
  <2>4. \A j \in 1..m : j < k => f[j] = j
    BY <1>3, <2>3
  <2>5. k \in 1..m /\ f[k] \in 1..m /\ f[k] # k
    BY <1>5, <2>3
  <2>6. ~(f[k] < k)
    <3> SUFFICES ASSUME f[k] < k PROVE FALSE
      OBVIOUS
    <3>1. f[f[k]] = f[k]
      BY <2>4, <2>5
    <3> QED BY <1>5, <2>5, <3>1
  <2>7. PICK j \in 1..m : f[j] = k
    BY <1>5, <2>5
  <2>8. CASE j < k
    BY <2>4, <2>7, <2>8
  <2>9. CASE j > k
    BY <1>3, <1>5, <2>5, <2>6, <2>7, <2>9
  <2> QED BY <1>3, <2>5, <2>7, <2>8, <2>9
<1> QED BY <1>5, <1>6, <1>7

\* The hash of the job a verifier takes comes last.
LEMMA HashSeqAppend ==
  ASSUME NEW js \in Seq(JobSet), NEW e \in JobSet
  PROVE  HashSeq(Append(js, e)) = Append(HashSeq(js), e.hash)
<1> DEFINE t == Append(js, e)
           u == Append(HashSeq(js), e.hash)
           n == Len(js)
<1>1. /\ n \in Nat /\ t \in Seq(JobSet) /\ Len(t) = n + 1
      /\ \A i \in 1..n : t[i] = js[i]
      /\ t[n + 1] = e /\ e.hash \in Blocks
  BY DEF JobSet
<1>2. /\ HashSeq(js) \in Seq(Blocks) /\ Len(HashSeq(js)) = n
      /\ \A i \in 1..n : HashSeq(js)[i] = js[i].hash
  BY HashSeqFacts
<1> HIDE DEF n
<1>3. /\ u \in Seq(Blocks) /\ Len(u) = n + 1 /\ u[n + 1] = e.hash
      /\ \A i \in 1..n : u[i] = HashSeq(js)[i]
  <2> DEFINE h == HashSeq(js)
  <2>1. h \in Seq(Blocks) /\ Len(h) = n /\ n \in Nat /\ e.hash \in Blocks
    BY <1>1, <1>2
  <2> HIDE DEF h
  <2>2. /\ Append(h, e.hash) \in Seq(Blocks) /\ Len(Append(h, e.hash)) = n + 1
        /\ Append(h, e.hash)[n + 1] = e.hash
        /\ \A i \in 1..n : Append(h, e.hash)[i] = h[i]
    BY <2>1
  <2> QED BY <2>2 DEF h
<1> HIDE DEF t, u
<1>4. /\ HashSeq(t) \in Seq(Blocks) /\ Len(HashSeq(t)) = n + 1
      /\ \A i \in 1..(n + 1) : HashSeq(t)[i] = t[i].hash
  BY <1>1, HashSeqFacts
<1>5. \A i \in 1..(n + 1) : HashSeq(t)[i] = u[i]
  BY <1>1, <1>2, <1>3, <1>4
<1>6. HashSeq(t) = u
  BY <1>3, <1>4, <1>5, SameSeq
<1> QED BY <1>6 DEF t, u

\* Who is on the way.
LEMMA WayOfFacts ==
  ASSUME NEW bs \in Seq(Blocks), NEW vs \in Seq(Blocks), NEW js \in Seq(JobSet),
         NEW us \in Seq(Blocks)
  PROVE  /\ HashSeq(js) \in Seq(Blocks)
         /\ WayOf(bs, vs, js, us) \in Seq(Blocks)
         /\ RangeOf(WayOf(bs, vs, js, us))
                = RangeOf(bs) \cup RangeOf(vs) \cup HashesOf(js) \cup RangeOf(us)
<1> DEFINE h == HashSeq(js)
           mh == vs \o h
           io == mh \o us
<1>1. h \in Seq(Blocks) /\ RangeOf(h) = HashesOf(js)
  BY HashSeqFacts
<1> HIDE DEF h
<1>2. mh \in Seq(Blocks) /\ RangeOf(mh) = RangeOf(vs) \cup RangeOf(h)
  BY <1>1, ConcatFacts
<1> HIDE DEF mh
<1>3. io \in Seq(Blocks) /\ RangeOf(io) = RangeOf(mh) \cup RangeOf(us)
  BY <1>2, ConcatFacts
<1> HIDE DEF io
<1>4. bs \o io \in Seq(Blocks) /\ RangeOf(bs \o io) = RangeOf(bs) \cup RangeOf(io)
  BY <1>3, ConcatFacts
<1>5. WayOf(bs, vs, js, us) = bs \o io
  BY DEF WayOf, Cat, io, mh, h
<1> QED BY <1>1, <1>2, <1>3, <1>4, <1>5 DEF h

\* The way now, and after a step.
LEMMA WayNow ==
  /\ Way = WayOf(blocks, m_verified, m_verifying, m_unverified)
  /\ Way' = WayOf(blocks', m_verified', m_verifying', m_unverified')
  /\ ParentsFirst <=> OrderedIn(Way, Excused)
  /\ ParentsFirst' <=> OrderedIn(Way', Excused')
<1>1. /\ Way = WayOf(blocks, m_verified, m_verifying, m_unverified)
      /\ Way' = WayOf(blocks', m_verified', m_verifying', m_unverified')
  BY DEF Way, WayOf, Cat, InOrder, HashSeq
<1> QED BY <1>1, OrderIsWay

\* On the way are the drained blocks and the queued ones.
LEMMA WayFacts ==
  ASSUME TypeOK
  PROVE  /\ blocks \in Seq(Blocks) /\ m_verified \in Seq(Blocks) /\ m_verifying \in Seq(JobSet)
         /\ HashSeq(m_verifying) \in Seq(Blocks) /\ m_unverified \in Seq(Blocks)
         /\ Way \in Seq(Blocks)
         /\ RangeOf(Way) = RangeOf(blocks) \cup QueuedIn(BadView)
<1>1. /\ blocks \in Seq(Blocks) /\ m_verified \in Seq(Blocks)
      /\ m_verifying \in Seq(JobSet) /\ m_unverified \in Seq(Blocks)
  BY DEF TypeOK, BQTypeOK
<1>2. /\ HashSeq(m_verifying) \in Seq(Blocks) /\ Way \in Seq(Blocks)
      /\ RangeOf(Way) = RangeOf(blocks) \cup RangeOf(m_verified) \cup HashesOf(m_verifying)
                            \cup RangeOf(m_unverified)
  BY <1>1, WayNow, WayOfFacts
<1>3. QueuedIn(BadView) = RangeOf(m_verified) \cup RangeOf(m_unverified) \cup HashesOf(m_verifying)
  BY DEF QueuedIn, BadView
<1> QED BY <1>1, <1>2, <1>3

\* A verifier takes the first unverified block: the way stays as it is.
LEMMA WayTaken ==
  ASSUME NEW bs \in Seq(Blocks), NEW vs \in Seq(Blocks), NEW js \in Seq(JobSet),
         NEW us \in Seq(Blocks), us # <<>>, NEW e \in JobSet, e.hash = Head(us)
  PROVE  WayOf(bs, vs, Append(js, e), Tail(us)) = WayOf(bs, vs, js, us)
<1> DEFINE h == HashSeq(js)
           a == Append(h, e.hash)
           t == Tail(us)
<1>1. h \in Seq(Blocks) /\ HashSeq(Append(js, e)) = a
  BY HashSeqFacts, HashSeqAppend
<1>2. e.hash \in Blocks /\ t \in Seq(Blocks) /\ us = <<e.hash>> \o t /\ <<e.hash>> \in Seq(Blocks)
  <2> DEFINE u == <<Head(us)>> \o t
             n == Len(us)
  <2>1. Head(us) \in Blocks /\ t \in Seq(Blocks) /\ n \in Nat /\ n # 0 /\ Len(t) = n - 1
        /\ us[1] = Head(us) /\ \A i \in 1..(n - 1) : t[i] = us[i + 1]
    OBVIOUS
  <2> HIDE DEF t, n
  <2>2. /\ u \in Seq(Blocks) /\ Len(u) = n /\ u[1] = Head(us)
        /\ \A i \in 1..n : i > 1 => u[i] = t[i - 1]
    BY <2>1
  <2> HIDE DEF u
  <2>3. \A i \in 1..n : u[i] = us[i]
    <3> TAKE i \in 1..n
    <3>1. CASE i = 1
      BY <2>1, <2>2, <3>1
    <3>2. CASE i # 1
      <4>1. i - 1 \in 1..(n - 1) /\ (i - 1) + 1 = i /\ i > 1
        BY <2>1, <3>2
      <4> QED BY <2>1, <2>2, <4>1
    <3> QED BY <3>1, <3>2
  <2>4. u = us
    BY <2>2, <2>3, SameSeq DEF n
  <2> QED BY <2>1, <2>4 DEF u
<1> HIDE DEF h, t
<1>3. PICK k \in Seq(Blocks) : k = <<e.hash>>
  BY <1>2, Zenon
<1>4. us = Cat(k, t) /\ a = Cat(h, k)
  <2>1. a = h \o <<e.hash>>
    BY <1>1, <1>2, AppendIsConcat
  <2> QED BY <1>2, <1>3, <2>1, Zenon DEF Cat
<1> HIDE DEF a
<1>5. Cat(vs, a) = Cat(Cat(vs, h), k) /\ Cat(vs, h) \in Seq(Blocks)
  <2>1. h \in Seq(Blocks)
    BY <1>1, Zenon
  <2> QED BY <1>4, <2>1, CatFacts
<1>6. t \in Seq(Blocks)
  BY <1>2, Zenon
<1>7. Cat(Cat(vs, a), t) = Cat(Cat(vs, h), us)
  BY <1>4, <1>5, <1>6, CatFacts
<1> QED BY <1>1, <1>7 DEF WayOf, a, h, t

\* Jobs at the front leave for m_verified: the way stays as it is.
LEMMA WayDrained ==
  ASSUME NEW bs \in Seq(Blocks), NEW vs \in Seq(Blocks), NEW js \in Seq(JobSet),
         NEW us \in Seq(Blocks), NEW n \in 0..Len(js)
  PROVE  WayOf(bs, Cat(vs, [k \in 1..n |-> js[k].hash]), SubSeq(js, n + 1, Len(js)), us)
            = WayOf(bs, vs, js, us)
<1> DEFINE out == [k \in 1..n |-> js[k].hash]
           back == SubSeq(js, n + 1, Len(js))
           h == HashSeq(js)
           hb == HashSeq(back)
           m == Len(js)
<1>1. /\ m \in Nat /\ n \in Nat /\ n <= m
      /\ back \in Seq(JobSet) /\ Len(back) = m - n
      /\ \A i \in 1..(m - n) : back[i] = js[n + i]
  BY SplitFacts
<1>2. out \in Seq(Blocks) /\ Len(out) = n /\ \A i \in 1..n : out[i] = js[i].hash
  <2>0. \A i \in 1..m : js[i] \in JobSet
    OBVIOUS
  <2> HIDE DEF m
  <2>1. \A i \in 1..n : js[i].hash \in Blocks
    BY <1>1, <2>0 DEF JobSet
  <2>2. out \in [1..n -> Blocks]
    BY <2>1
  <2> QED BY <1>1, <2>2
<1> HIDE DEF out, back, m
<1>3. /\ h \in Seq(Blocks) /\ Len(h) = m /\ \A i \in 1..m : h[i] = js[i].hash
      /\ hb \in Seq(Blocks) /\ Len(hb) = m - n /\ \A i \in 1..(m - n) : hb[i] = back[i].hash
  BY <1>1, HashSeqFacts DEF m
<1> HIDE DEF h, hb
<1> DEFINE u == out \o hb
<1>4. /\ u \in Seq(Blocks) /\ Len(u) = m
      /\ \A i \in 1..m : u[i] = IF i <= n THEN out[i] ELSE hb[i - n]
  <2>1. /\ u \in Seq(Blocks) /\ Len(u) = Len(out) + Len(hb)
        /\ \A i \in 1..(Len(out) + Len(hb)) :
                u[i] = IF i <= Len(out) THEN out[i] ELSE hb[i - Len(out)]
    BY <1>2, <1>3, ConcatAt
  <2>2. Len(out) + Len(hb) = m /\ Len(out) = n
    BY <1>1, <1>2, <1>3
  <2> QED BY <2>1, <2>2
<1> HIDE DEF u
<1>5. \A i \in 1..m : u[i] = h[i]
  <2> TAKE i \in 1..m
  <2>1. CASE i <= n
    <3>1. i \in 1..n
      BY <1>1, <2>1
    <3> QED BY <1>2, <1>3, <1>4, <2>1, <3>1
  <2>2. CASE i > n
    <3>1. i - n \in 1..(m - n) /\ n + (i - n) = i
      BY <1>1, <2>2
    <3>2. u[i] = hb[i - n] /\ hb[i - n] = back[i - n].hash /\ back[i - n] = js[n + (i - n)]
      BY <1>1, <1>3, <1>4, <2>2, <3>1
    <3> QED BY <1>3, <3>1, <3>2
  <2> QED BY <1>1, <2>1, <2>2
<1>6. u = h
  BY <1>3, <1>4, <1>5, SameSeq
<1>7. Cat(Cat(vs, out), hb) = Cat(vs, h)
  <2>1. Cat(out, hb) = h
    BY <1>6, Zenon DEF u, Cat
  <2> QED BY <1>2, <1>3, <2>1, CatFacts
<1> QED BY <1>7 DEF WayOf, out, back, h, hb

\* The client takes the first verified blocks: the way stays as it is.
LEMMA WayHanded ==
  ASSUME NEW vs \in Seq(Blocks), NEW js \in Seq(JobSet), NEW us \in Seq(Blocks),
         NEW n \in 0..Len(vs)
  PROVE  WayOf(SubSeq(vs, 1, n), SubSeq(vs, n + 1, Len(vs)), js, us) = WayOf(<<>>, vs, js, us)
<1> DEFINE f == SubSeq(vs, 1, n)
           b == SubSeq(vs, n + 1, Len(vs))
           h == HashSeq(js)
<1>1. f \in Seq(Blocks) /\ b \in Seq(Blocks) /\ Len(vs) \in Nat /\ n \in Nat
  BY SplitFacts
<1>2. Cat(f, b) = vs
  <2>1. 1 \in 1..(Len(vs) + 1) /\ n \in (1 - 1)..Len(vs) /\ Len(vs) \in n..Len(vs)
    BY <1>1
  <2>2. f \o b = SubSeq(vs, 1, Len(vs))
    BY <2>1, ConcatAdjacentSubSeq
  <2>3. SubSeq(vs, 1, Len(vs)) = vs
    OBVIOUS
  <2> QED BY <2>2, <2>3 DEF Cat
<1>3. h \in Seq(Blocks)
  BY HashSeqFacts
<1> HIDE DEF f, b, h
<1>4. Cat(b, h) \in Seq(Blocks) /\ Cat(Cat(vs, h), us) \in Seq(Blocks)
  BY <1>1, <1>3, CatFacts
<1>5. Cat(f, Cat(Cat(b, h), us)) = Cat(Cat(f, Cat(b, h)), us)
  BY <1>1, <1>4, CatFacts
<1>6. Cat(f, Cat(b, h)) = Cat(vs, h)
  BY <1>1, <1>2, <1>3, CatFacts
<1>7. Cat(<<>>, Cat(Cat(vs, h), us)) = Cat(Cat(vs, h), us)
  BY <1>4, CatFacts
<1> QED BY <1>5, <1>6, <1>7 DEF WayOf, f, b, h

\* The client is done with a block; blocks come in.
LEMMA WayEnds ==
  ASSUME NEW bs \in Seq(Blocks), NEW vs \in Seq(Blocks), NEW js \in Seq(JobSet),
         NEW us \in Seq(Blocks), NEW ws \in Seq(Blocks)
  PROVE  /\ bs # <<>> => /\ WayOf(bs, vs, js, us) # <<>>
                         /\ Head(WayOf(bs, vs, js, us)) = Head(bs)
                         /\ WayOf(Tail(bs), vs, js, us) = Tail(WayOf(bs, vs, js, us))
         /\ WayOf(bs, vs, js, Cat(us, ws)) = Cat(WayOf(bs, vs, js, us), ws)
<1> DEFINE h == HashSeq(js)
           mh == Cat(vs, h)
           io == Cat(mh, us)
           w == bs \o io
<1>1. h \in Seq(Blocks)
  BY HashSeqFacts
<1> HIDE DEF h
<1>2. mh \in Seq(Blocks)
  BY <1>1, CatFacts
<1> HIDE DEF mh
<1>3. io \in Seq(Blocks)
  BY <1>2, CatFacts
<1>4. WayOf(bs, vs, js, us) = w /\ WayOf(Tail(bs), vs, js, us) = Tail(bs) \o io
  BY DEF WayOf, Cat, w, io, mh, h
<1>5. WayOf(bs, vs, js, Cat(us, ws)) = Cat(bs, Cat(mh, Cat(us, ws)))
  BY DEF WayOf, mh, h
<1>6. Cat(mh, Cat(us, ws)) = Cat(io, ws)
  BY <1>2, CatFacts
<1> HIDE DEF io
<1>7. Cat(bs, Cat(io, ws)) = Cat(w, ws)
  <2>1. Cat(bs, Cat(io, ws)) = Cat(Cat(bs, io), ws)
    BY <1>3, CatFacts
  <2>2. Cat(bs, io) = w
    BY Zenon DEF Cat, w
  <2> QED BY <2>1, <2>2, Zenon
<1>8. ASSUME bs # <<>> PROVE w # <<>> /\ Head(w) = Head(bs) /\ Tail(bs) \o io = Tail(w)
  <2> DEFINE t == Tail(bs)
             p == t \o io
             m == Len(bs)
             n == Len(io)
  <2>1. /\ m \in Nat /\ m # 0 /\ n \in Nat /\ t \in Seq(Blocks) /\ Len(t) = m - 1
        /\ \A i \in 1..(m - 1) : t[i] = bs[i + 1]
        /\ Head(bs) = bs[1]
    BY <1>3, <1>8
  <2> HIDE DEF t
  <2>2. /\ w \in Seq(Blocks) /\ Len(w) = m + n
        /\ \A i \in 1..(m + n) : w[i] = IF i <= m THEN bs[i] ELSE io[i - m]
    BY <1>3, ConcatAt
  <2>3. /\ p \in Seq(Blocks) /\ Len(p) = (m - 1) + n
        /\ \A i \in 1..((m - 1) + n) : p[i] = IF i <= m - 1 THEN t[i] ELSE io[i - (m - 1)]
    <3>1. /\ p \in Seq(Blocks) /\ Len(p) = Len(t) + n
          /\ \A i \in 1..(Len(t) + n) : p[i] = IF i <= Len(t) THEN t[i] ELSE io[i - Len(t)]
      BY <1>3, <2>1, ConcatAt
    <3> HIDE DEF p, m, n
    <3>2. Len(t) = m - 1
      BY <2>1
    <3> QED BY <3>1, <3>2
  <2> HIDE DEF w, p, m, n
  <2>4. w # <<>> /\ Head(w) = w[1] /\ w[1] = bs[1]
    BY <2>1, <2>2
  <2>5. /\ Tail(w) \in Seq(Blocks) /\ Len(Tail(w)) = (m - 1) + n
        /\ \A i \in 1..((m - 1) + n) : Tail(w)[i] = w[i + 1]
    BY <2>1, <2>2, <2>4
  <2>6. \A i \in 1..((m - 1) + n) : p[i] = Tail(w)[i]
    <3> TAKE i \in 1..((m - 1) + n)
    <3>1. /\ i + 1 \in 1..(m + n) /\ i - (m - 1) = (i + 1) - m
          /\ i <= m - 1 <=> i + 1 <= m
      BY <2>1
    <3>2. /\ p[i] = IF i <= m - 1 THEN t[i] ELSE io[i - (m - 1)]
          /\ Tail(w)[i] = w[i + 1]
      BY <2>3, <2>5
    <3>3. w[i + 1] = IF i + 1 <= m THEN bs[i + 1] ELSE io[(i + 1) - m]
      BY <2>2, <3>1
    <3>4. i <= m - 1 => t[i] = bs[i + 1]
      BY <2>1
    <3> QED BY <3>1, <3>2, <3>3, <3>4, Zenon
  <2>7. p = Tail(w)
    BY <2>3, <2>5, <2>6, SameSeq
  <2> QED BY <2>1, <2>4, <2>7 DEF p, t
<1> QED BY <1>4, <1>5, <1>6, <1>7, <1>8

\* Nothing is queued.
LEMMA WayAlone ==
  ASSUME NEW bs \in Seq(Blocks)
  PROVE  WayOf(bs, <<>>, <<>>, <<>>) = bs
<1>1. <<>> \in Seq(Blocks) /\ <<>> \in Seq(JobSet)
  OBVIOUS
<1>2. HashSeq(<<>>) = <<>>
  <2> DEFINE h == HashSeq(<<>>)
  <2>1. h \in Seq(Blocks) /\ RangeOf(h) = HashesOf(<<>>)
    BY <1>1, HashSeqFacts
  <2>2. RangeOf(h) = {}
    BY <2>1, EmptyFacts
  <2> HIDE DEF h
  <2>3. h = <<>>
    BY <2>1, <2>2, RangeEmpty
  <2> QED BY <2>3 DEF h
<1>3. Cat(<<>>, <<>>) = <<>> /\ Cat(bs, <<>>) = bs
  BY <1>1, ConcatEmptySeq DEF Cat
<1> QED BY <1>2, <1>3 DEF WayOf

\* What is kept together with IInv.
Order == OrderKept /\ RetryTells

\* What has been disturbed stays so.
LEMMA UndisturbedFacts ==
  ASSUME UNCHANGED <<transients, retries>>, m_knownBad \subseteq m_knownBad'
  PROVE  Undisturbed' => Undisturbed
  BY DEF Undisturbed

\* What Undisturbed gives.
LEMMA OrderFacts ==
  ASSUME IInv, OrderKept, Undisturbed
  PROVE  /\ OrderedIn(Way, Excused)
         /\ m_drainingSet \subseteq RangeOf(blocks) \cup chain \cup RangeOf(badBlocks)
         /\ \A b \in m_readySet \cup m_unknownSet \cup m_drainingSet \cup RangeOf(blocks) :
                Timestamp[b] <= now
         /\ RangeOf(goodQueue) \subseteq m_readySet
         /\ m_readySet = QueuedIn(BadView)
         /\ Excused = chain \cup {Genesis} \cup RangeOf(badBlocks)
         /\ TypeOK /\ BQTypeOK /\ now \in Nat
<1>1. /\ OrderedIn(Way, Excused)
      /\ m_drainingSet \subseteq RangeOf(blocks) \cup chain \cup RangeOf(badBlocks)
      /\ \A b \in m_readySet \cup m_unknownSet \cup m_drainingSet \cup RangeOf(blocks) :
             Timestamp[b] <= now
      /\ RangeOf(goodQueue) \subseteq m_readySet
  BY WayNow DEF OrderKept
<1>2. m_knownBad = {}
  BY DEF Undisturbed
<1>3. QueuedIn(BadView) \subseteq m_readySet \cup m_knownBad
  BY SoundFacts DEF IInv
<1>4. m_readySet \subseteq QueuedIn(BadView)
  BY <1>2 DEF IInv, Unspoilt
<1>5. Excused = chain \cup {Genesis} \cup RangeOf(badBlocks)
  BY <1>2 DEF Excused
<1>6. TypeOK /\ BQTypeOK /\ now \in Nat
  BY DEF IInv, TypeOK, BQTypeOK
<1> QED BY <1>1, <1>2, <1>3, <1>4, <1>5, <1>6

\* The way, the sets and the worklist rest.
LEMMA OrderQuiet ==
  ASSUME IInv, OrderKept, Undisturbed' => Undisturbed,
         UNCHANGED <<m_verified, m_verifying, m_unverified, blocks, badBlocks, m_readySet,
                     m_unknownSet, m_drainingSet, goodQueue, chain>>,
         now' \in {now, now + 1}
  PROVE  OrderKept'
<1> SUFFICES ASSUME Undisturbed'
             PROVE  /\ OrderedIn(Way', Excused')
                    /\ m_drainingSet' \subseteq RangeOf(blocks') \cup chain' \cup RangeOf(badBlocks')
                    /\ \A b \in m_readySet' \cup m_unknownSet' \cup m_drainingSet' \cup RangeOf(blocks') :
                            Timestamp[b] <= now'
                    /\ RangeOf(goodQueue') \subseteq m_readySet'
  BY WayNow DEF OrderKept
<1>1. /\ OrderedIn(Way, Excused)
      /\ m_drainingSet \subseteq RangeOf(blocks) \cup chain \cup RangeOf(badBlocks)
      /\ \A b \in m_readySet \cup m_unknownSet \cup m_drainingSet \cup RangeOf(blocks) :
             Timestamp[b] <= now
      /\ RangeOf(goodQueue) \subseteq m_readySet
      /\ BQTypeOK /\ now \in Nat
  BY OrderFacts
<1>2. Way' = Way
  BY WayNow
<1>3. Excused \subseteq Excused'
  BY DEF Excused, Undisturbed
<1>4. \A b \in m_readySet \cup m_unknownSet \cup m_drainingSet \cup RangeOf(blocks) :
          Timestamp[b] \in Nat
  <2>1. RangeOf(blocks) \subseteq Blocks
    BY SeqFacts DEF IInv, TypeOK
  <2> QED BY <1>1, <2>1, BlocksAssumption DEF BQTypeOK
<1>5. \A b \in m_readySet' \cup m_unknownSet' \cup m_drainingSet' \cup RangeOf(blocks') :
          Timestamp[b] <= now'
  BY <1>1, <1>4
<1>6. OrderedIn(Way', Excused')
  BY <1>1, <1>2, <1>3, OrderedMore
<1> QED BY <1>1, <1>5, <1>6

\* A verifier takes a job: the way stays.
LEMMA OrderTakeJob ==
  ASSUME IInv, Order, NEW v \in Verifiers, TakeJob(v), OthersRest
  PROVE  Order'
<1>1. /\ UNCHANGED <<setVars, diffVars, loopVars, m_deleting, m_future, m_syncBlockQueue, chain, now>>
      /\ UNCHANGED <<blocks, badBlocks, transients, clears, retries>>
  BY OthersRestFacts DEF TakeJob
<1>2. /\ UNCHANGED <<m_readySet, m_drainingSet, m_unknownSet, m_knownBad, m_lock, goodQueue>>
      /\ UNCHANGED <<blocks, badBlocks, transients, clears, retries, chain, now>>
  BY <1>1 DEF setVars, loopVars
<1>3. RetryTells'
  BY <1>2 DEF Order, RetryTells
<1>4. Undisturbed' => Undisturbed
  BY <1>2, UndisturbedFacts
<1>5. CASE UNCHANGED queueVars
  BY <1>2, <1>3, <1>4, <1>5, OrderQuiet DEF Order, queueVars
<1>6. CASE /\ m_unverified # <<>>
           /\ m_unverified' = Tail(m_unverified)
           /\ m_verifying' = Append(m_verifying, Job(Head(m_unverified), FALSE))
           /\ UNCHANGED m_verified
  <2>1. SUFFICES ASSUME Undisturbed'
                 PROVE  /\ OrderedIn(Way', Excused')
                        /\ m_drainingSet \subseteq RangeOf(blocks) \cup chain \cup RangeOf(badBlocks)
                        /\ \A b \in m_readySet \cup m_unknownSet \cup m_drainingSet \cup RangeOf(blocks) :
                                Timestamp[b] <= now
                        /\ RangeOf(goodQueue) \subseteq m_readySet
    BY <1>2, <1>3, WayNow DEF Order, OrderKept
  <2>2. /\ OrderedIn(Way, Excused)
        /\ m_drainingSet \subseteq RangeOf(blocks) \cup chain \cup RangeOf(badBlocks)
        /\ \A b \in m_readySet \cup m_unknownSet \cup m_drainingSet \cup RangeOf(blocks) :
               Timestamp[b] <= now
        /\ RangeOf(goodQueue) \subseteq m_readySet
        /\ TypeOK
    BY <1>4, <2>1, OrderFacts DEF Order
  <2>3. /\ blocks \in Seq(Blocks) /\ m_verified \in Seq(Blocks) /\ m_verifying \in Seq(JobSet)
        /\ m_unverified \in Seq(Blocks)
    BY <2>2, WayFacts
  <2> DEFINE e == Job(Head(m_unverified), FALSE)
  <2>4. e \in JobSet /\ e.hash = Head(m_unverified)
    BY <1>6, <2>3, TailFacts DEF Job, JobSet
  <2> HIDE DEF e
  <2>5. WayOf(blocks, m_verified, Append(m_verifying, e), Tail(m_unverified))
            = WayOf(blocks, m_verified, m_verifying, m_unverified)
    BY <1>6, <2>3, <2>4, WayTaken
  <2>6. Way' = Way
    BY <1>2, <1>6, <2>5, WayNow DEF e
  <2>7. Excused' = Excused
    BY <1>2 DEF Excused
  <2> QED BY <2>2, <2>6, <2>7
<1> QED BY <1>5, <1>6 DEF TakeJob

\* A verification that throws disturbs.
LEMMA OrderVerifyThrows ==
  ASSUME IInv, Order, NEW v \in Verifiers, VerifyThrows(v), OthersRest
  PROVE  Order'
<1>1. m_knownBad' # {}
  BY DEF VerifyThrows, drainVerified
<1>2. m_lock' = m_lock /\ retries' = retries
  BY OthersRestFacts DEF VerifyThrows, loopVars
<1> QED BY <1>1, <1>2 DEF Order, OrderKept, RetryTells, Undisturbed

\* A verification returns: finished jobs leave m_verifying in order.
LEMMA OrderVerifyReturns ==
  ASSUME IInv, Order, NEW v \in Verifiers, VerifyReturns(v), OthersRest
  PROVE  Order'
<1> DEFINE h == verifierWork[v]
           js == Marked(h)
<1>1. /\ verifierPc[v] = "verify" /\ m_lock = "free"
      /\ \/ drainVerified(js, m_knownBad, m_readySet)
         \/ m_verifying' = js /\ UNCHANGED <<m_readySet, m_knownBad, m_verified>>
      /\ UNCHANGED <<m_drainingSet, m_unknownSet, m_unknown, m_unverified, diffVars,
                     loopVars, m_deleting, m_future, m_syncBlockQueue, chain, now>>
  BY DEF VerifyReturns, Marked
<1>2. /\ UNCHANGED <<m_drainingSet, m_unknownSet, m_unverified, m_lock, goodQueue, chain, now>>
      /\ UNCHANGED <<blocks, badBlocks, transients, clears, retries>>
  BY <1>1, OthersRestFacts DEF loopVars
<1>3. RetryTells'
  BY <1>2 DEF Order, RetryTells
<1>4. m_knownBad \subseteq m_knownBad'
  BY <1>1 DEF drainVerified
<1>5. SUFFICES ASSUME Undisturbed'
               PROVE  /\ Way' = Way /\ m_readySet' = m_readySet /\ m_knownBad' = m_knownBad
  <2>1. ASSUME Undisturbed' PROVE Undisturbed
    BY <1>2, <1>4, <2>1, UndisturbedFacts
  <2>2. ASSUME Undisturbed'
        PROVE  /\ OrderedIn(Way', Excused')
               /\ m_drainingSet' \subseteq RangeOf(blocks') \cup chain' \cup RangeOf(badBlocks')
               /\ \A b \in m_readySet' \cup m_unknownSet' \cup m_drainingSet' \cup RangeOf(blocks') :
                       Timestamp[b] <= now'
               /\ RangeOf(goodQueue') \subseteq m_readySet'
    <3>1. /\ OrderedIn(Way, Excused)
          /\ m_drainingSet \subseteq RangeOf(blocks) \cup chain \cup RangeOf(badBlocks)
          /\ \A b \in m_readySet \cup m_unknownSet \cup m_drainingSet \cup RangeOf(blocks) :
                 Timestamp[b] <= now
          /\ RangeOf(goodQueue) \subseteq m_readySet
      BY <2>1, <2>2, OrderFacts DEF Order
    <3>2. Way' = Way /\ m_readySet' = m_readySet /\ m_knownBad' = m_knownBad
      BY <1>5, <2>2
    <3>3. Excused' = Excused
      BY <1>2, <3>2 DEF Excused
    <3> QED BY <1>2, <3>1, <3>2, <3>3
  <2> QED BY <1>3, <2>2, WayNow DEF Order, OrderKept
<1>6. TypeOK /\ BQTypeOK /\ HashOnce(m_verifying) /\ m_knownBad' = {}
  BY <1>5, SoundFacts DEF IInv, TypeOK, Undisturbed
<1>7. /\ blocks \in Seq(Blocks) /\ m_verified \in Seq(Blocks) /\ m_verifying \in Seq(JobSet)
      /\ m_unverified \in Seq(Blocks)
  BY <1>6, WayFacts
<1>8. h \in Blocks
  BY <1>1, <1>6 DEF BQTypeOK
<1>9. /\ js \in Seq(JobSet) /\ Len(js) = Len(m_verifying) /\ Len(js) \in Nat
      /\ \A i \in DOMAIN m_verifying : js[i].hash = m_verifying[i].hash
  <2>1. /\ js \in Seq(JobSet) /\ Len(js) = Len(m_verifying)
        /\ \A i \in DOMAIN m_verifying : js[i].hash = m_verifying[i].hash
    <3> HIDE DEF h
    <3> QED BY <1>6, <1>7, <1>8, MarkedFacts
  <2> HIDE DEF js
  <2> QED BY <1>7, <2>1
<1> HIDE DEF js
<1>10. HashSeq(js) = HashSeq(m_verifying)
  <2>1. DOMAIN js = DOMAIN m_verifying
    BY <1>7, <1>9
  <2> QED BY <1>9, <2>1 DEF HashSeq
<1>11. WayOf(blocks, m_verified, js, m_unverified) = Way
  BY <1>10, WayNow DEF WayOf
<1>12. CASE m_verifying' = js /\ UNCHANGED <<m_readySet, m_knownBad, m_verified>>
  BY <1>2, <1>11, <1>12, WayNow
<1>13. CASE drainVerified(js, m_knownBad, m_readySet)
  <2> DEFINE n == DonePrefix(js)
             bad == BadPrefix(js, m_knownBad)
             out == [k \in 1..n |-> js[k].hash]
             D == {out[k] : k \in bad}
             back == SubSeq(js, n + 1, Len(js))
  <2>1. /\ m_verifying' = back
        /\ m_verified' = m_verified \o Without(out, D)
        /\ m_knownBad' = m_knownBad \cup D
        /\ m_readySet' = m_readySet \ D
    BY <1>13 DEF drainVerified
  <2>2. D = {}
    BY <1>6, <2>1
  <2>3. n \in 0..Len(js) /\ n \in Nat
    BY <1>9, DonePrefixFacts
  <2> HIDE DEF D, n
  <2>4. out \in Seq(Blocks)
    <3>1. \A k \in 1..n : js[k] \in JobSet
      BY <1>9, <2>3
    <3>2. out \in [1..n -> Blocks]
      BY <3>1 DEF JobSet
    <3> QED BY <2>3, <3>2
  <2> HIDE DEF out
  <2>5. Without(out, D) = out
    BY <2>2, <2>4, WithoutNone
  <2>6. WayOf(blocks, Cat(m_verified, out), back, m_unverified)
            = WayOf(blocks, m_verified, js, m_unverified)
    BY <1>7, <1>9, <2>3, WayDrained DEF out
  <2>7. Way' = Way
    BY <1>2, <1>11, <2>1, <2>5, <2>6, WayNow DEF Cat
  <2> QED BY <2>1, <2>2, <2>7
<1> QED BY <1>1, <1>12, <1>13

\* Blocks come in at the end whose parents are on the way, known, or about to be bad.
LEMMA OrderGrows ==
  ASSUME IInv, Order, NEW s \in Seq(Blocks), m_unverified' = m_unverified \o s,
         UNCHANGED <<m_verified, m_verifying, blocks, badBlocks, m_drainingSet, m_knownBad,
                     chain, now, transients, clears, retries>>,
         m_readySet' = m_readySet \cup RangeOf(s), m_unknownSet' \subseteq m_unknownSet,
         RangeOf(goodQueue') \subseteq m_readySet',
         Undisturbed => \A b \in RangeOf(s) :
                            /\ Parent[b] \in m_readySet \cup m_drainingSet \/ isKnown(Parent[b])
                            /\ Timestamp[b] <= now
  PROVE  OrderKept'
<1> SUFFICES ASSUME Undisturbed'
             PROVE  /\ OrderedIn(Way', Excused')
                    /\ m_drainingSet' \subseteq RangeOf(blocks') \cup chain' \cup RangeOf(badBlocks')
                    /\ \A b \in m_readySet' \cup m_unknownSet' \cup m_drainingSet' \cup RangeOf(blocks') :
                            Timestamp[b] <= now'
                    /\ RangeOf(goodQueue') \subseteq m_readySet'
  BY WayNow DEF OrderKept
<1>1. Undisturbed
  BY UndisturbedFacts
<1>2. /\ OrderedIn(Way, Excused)
      /\ m_drainingSet \subseteq RangeOf(blocks) \cup chain \cup RangeOf(badBlocks)
      /\ \A b \in m_readySet \cup m_unknownSet \cup m_drainingSet \cup RangeOf(blocks) :
             Timestamp[b] <= now
      /\ m_readySet = QueuedIn(BadView)
      /\ Excused = chain \cup {Genesis} \cup RangeOf(badBlocks)
      /\ TypeOK
  BY <1>1, OrderFacts DEF Order
<1>3. /\ blocks \in Seq(Blocks) /\ m_verified \in Seq(Blocks) /\ m_verifying \in Seq(JobSet)
      /\ m_unverified \in Seq(Blocks) /\ Way \in Seq(Blocks)
      /\ RangeOf(Way) = RangeOf(blocks) \cup QueuedIn(BadView)
  BY <1>2, WayFacts
<1>4. Way' = Way \o s
  <2>1. WayOf(blocks, m_verified, m_verifying, Cat(m_unverified, s)) = Cat(Way, s)
    BY <1>3, WayNow, WayEnds
  <2>2. m_unverified' = Cat(m_unverified, s) /\ Cat(Way, s) = Way \o s
    BY Zenon DEF Cat
  <2>3. Way' = WayOf(blocks, m_verified, m_verifying, Cat(m_unverified, s))
    BY <2>2, WayNow, Zenon
  <2> QED BY <2>1, <2>2, <2>3, Zenon
<1>5. \A b \in RangeOf(s) : Parent[b] \in Excused \cup RangeOf(Way)
  BY <1>1, <1>2, <1>3 DEF isKnown
<1>6. OrderedIn(Way \o s, Excused)
  BY <1>2, <1>3, <1>5, OrderedConcat
<1>7. Excused' = Excused
  BY DEF Excused
<1>8. \A b \in m_readySet' \cup m_unknownSet' \cup m_drainingSet' \cup RangeOf(blocks') :
          Timestamp[b] <= now'
  BY <1>1, <1>2
<1> QED BY <1>2, <1>4, <1>6, <1>7, <1>8

\* noteReady_WITH_LOCK: the children of a ready block come behind it.
LEMMA OrderNoteReady ==
  ASSUME IInv, IInv', Order, NoteReady, OthersRest
  PROVE  Order'
<1> DEFINE p == Head(goodQueue)
           s == m_unknown[p]
<1>1. /\ m_lock = "noteReady" /\ ReleaseUnknown(p) /\ goodQueue' = Tail(goodQueue) \o s
      /\ m_lock' \in {"free", "noteReady"}
  BY DEF NoteReady, NextGood
<1>2. /\ m_unverified' = m_unverified \o s
      /\ m_unknownSet' = m_unknownSet \ RangeOf(s) /\ m_readySet' = m_readySet \cup RangeOf(s)
      /\ UNCHANGED <<m_drainingSet, m_knownBad, m_verified, m_verifying, chain, now>>
      /\ UNCHANGED <<blocks, badBlocks, transients, clears, retries>>
  BY <1>1, OthersRestFacts DEF ReleaseUnknown, NewReady
<1>3. BQTypeOK /\ QueuesSound
  BY DEF IInv, TypeOK
<1>4. /\ p \in Blocks /\ Tail(goodQueue) \in Seq(Blocks)
      /\ RangeOf(goodQueue) = {p} \cup RangeOf(Tail(goodQueue))
  <2>1. goodQueue # <<>> /\ goodQueue \in Seq(Blocks)
    BY <1>1, <1>3 DEF BQTypeOK
  <2> QED BY <2>1, TailFacts
<1> HIDE DEF p
<1>5. s \in Seq(Blocks) /\ p \in Hashes
  BY <1>3, <1>4, HashFacts DEF BQTypeOK
<1>6. /\ \A b \in RangeOf(s) : Parent[b] = p
      /\ RangeOf(s) \subseteq m_unknownSet
  <2>1. Waits(BadView)
    BY <1>3, SoundFacts
  <2>2. ParentLists(m_unknown) /\ m_unknownSet = WaitersOf(m_unknown)
    BY <2>1 DEF Waits, BadView
  <2> QED BY <1>5, <2>2 DEF ParentLists, WaitersOf
<1>7. RangeOf(goodQueue') = RangeOf(Tail(goodQueue)) \cup RangeOf(s)
  <2>1. \A t, u \in Seq(Blocks) : RangeOf(t \o u) = RangeOf(t) \cup RangeOf(u)
    BY ConcatFacts
  <2> QED BY <1>1, <1>4, <1>5, <2>1, Zenon
<1> HIDE DEF s
<1>8. CASE ~Undisturbed
  <2>1. ~Undisturbed'
    BY <1>2, <1>8, UndisturbedFacts
  <2>2. OrderKept'
    BY <2>1 DEF OrderKept
  <2> QED BY <1>1, <1>2, <2>2 DEF Order, RetryTells
<1>9. CASE Undisturbed
  <2>1. /\ \A b \in m_readySet \cup m_unknownSet \cup m_drainingSet \cup RangeOf(blocks) :
               Timestamp[b] <= now
        /\ RangeOf(goodQueue) \subseteq m_readySet
    BY <1>9, OrderFacts DEF Order
  <2>2. /\ RangeOf(goodQueue') \subseteq m_readySet' /\ p \in m_readySet
        /\ m_unknownSet' \subseteq m_unknownSet
    BY <1>2, <1>4, <1>7, <2>1
  <2>3. \A b \in RangeOf(s) : /\ Parent[b] \in m_readySet \cup m_drainingSet \/ isKnown(Parent[b])
                              /\ Timestamp[b] <= now
    BY <1>6, <2>1, <2>2
  <2>4. OrderKept'
    BY <1>2, <1>5, <2>2, <2>3, OrderGrows
  <2> QED BY <1>1, <1>2, <2>4 DEF Order, RetryTells
<1> QED BY <1>8, <1>9

\* A block that is not of the future, or this node's own, comes in.
LEMMA OrderImport ==
  ASSUME IInv, IInv', Order, NEW b \in Blocks, NEW isOurs \in BOOLEAN, import(b, isOurs),
         isOurs => b \in Ours,
         UNCHANGED <<blocks, badBlocks, transients, clears, retries>>
  PROVE  Order'
<1>1. /\ m_lock = "free" /\ UNCHANGED <<chain, now>>
      /\ \/ UNCHANGED <<setVars, queueVars, m_difficulty, m_future, loopVars, verifierPc>>
         \/ QueueForFuture(b)
         \/ RefuseBadChain(b)
         \/ (Timestamp[b] <= now \/ isOurs) /\ QueueUnknown(b)
         \/ (Timestamp[b] <= now \/ isOurs) /\ ParentKnown(b) /\ QueueReady(b)
  <2>1. Timestamp[b] \in Nat /\ now \in Nat
    BY BlocksAssumption DEF IInv, TypeOK, BQTypeOK
  <2> QED BY <2>1 DEF import
<1>2. Undisturbed => ((Timestamp[b] <= now \/ isOurs) => Timestamp[b] <= now)
  <2>1. now \in Nat
    BY DEF IInv, TypeOK, BQTypeOK
  <2> QED BY <2>1 DEF Undisturbed
<1>3. BQTypeOK /\ TypeOK
  BY DEF IInv, TypeOK
<1>4. CASE \/ UNCHANGED <<setVars, queueVars, m_difficulty, m_future, loopVars, verifierPc>>
           \/ QueueForFuture(b)
  <2>1. UNCHANGED <<setVars, queueVars, loopVars>>
    BY <1>4 DEF QueueForFuture
  <2>2. /\ UNCHANGED <<m_verified, m_verifying, m_unverified, m_readySet, m_unknownSet,
                       m_drainingSet, m_knownBad, goodQueue, m_lock>>
    BY <2>1 DEF setVars, queueVars, loopVars
  <2>3. Undisturbed' => Undisturbed
    BY <2>2, UndisturbedFacts
  <2>4. OrderKept'
    BY <1>1, <2>2, <2>3, OrderQuiet DEF Order
  <2> QED BY <2>2, <2>4 DEF Order, RetryTells
<1>5. CASE RefuseBadChain(b)
  <2>1. m_knownBad' # {} /\ m_lock' \in {"updated", "updateBad"}
    BY <1>5 DEF RefuseBadChain, UpdateBad
  <2> QED BY <2>1 DEF Order, OrderKept, Undisturbed, RetryTells
<1>6. CASE (Timestamp[b] <= now \/ isOurs) /\ QueueUnknown(b)
  <2>1. /\ m_unknownSet' = m_unknownSet \cup {b}
        /\ UNCHANGED <<m_verified, m_verifying, m_unverified, m_readySet,
                       m_drainingSet, m_knownBad, goodQueue, m_lock>>
    BY <1>6 DEF QueueUnknown, queueVars, loopVars
  <2>2. ASSUME Undisturbed'
        PROVE  /\ OrderedIn(Way', Excused')
               /\ m_drainingSet' \subseteq RangeOf(blocks') \cup chain' \cup RangeOf(badBlocks')
               /\ \A x \in m_readySet' \cup m_unknownSet' \cup m_drainingSet' \cup RangeOf(blocks') :
                       Timestamp[x] <= now'
               /\ RangeOf(goodQueue') \subseteq m_readySet'
    <3>1. Undisturbed
      BY <2>1, <2>2, UndisturbedFacts
    <3>2. /\ OrderedIn(Way, Excused)
          /\ m_drainingSet \subseteq RangeOf(blocks) \cup chain \cup RangeOf(badBlocks)
          /\ \A x \in m_readySet \cup m_unknownSet \cup m_drainingSet \cup RangeOf(blocks) :
                 Timestamp[x] <= now
          /\ RangeOf(goodQueue) \subseteq m_readySet
      BY <3>1, OrderFacts DEF Order
    <3>3. Way' = Way
      BY <2>1, WayNow
    <3>4. Excused' = Excused
      BY <1>1, <2>1 DEF Excused
    <3>5. \A x \in m_readySet' \cup m_unknownSet' \cup m_drainingSet' \cup RangeOf(blocks') :
              Timestamp[x] <= now'
      BY <1>1, <1>2, <1>6, <2>1, <3>1, <3>2
    <3> QED BY <1>1, <2>1, <3>2, <3>3, <3>4, <3>5
  <2>3. OrderKept'
    BY <2>2, WayNow DEF OrderKept
  <2> QED BY <2>1, <2>3 DEF Order, RetryTells
<1>7. CASE (Timestamp[b] <= now \/ isOurs) /\ ParentKnown(b) /\ QueueReady(b)
  <2>1. /\ m_unverified' = Append(m_unverified, b)
        /\ m_readySet' = m_readySet \cup {b} /\ m_lock' = "noteReady" /\ goodQueue' = <<b>>
        /\ UNCHANGED <<m_drainingSet, m_unknownSet, m_knownBad, m_verified, m_verifying>>
    BY <1>7 DEF QueueReady
  <2> DEFINE s == <<b>>
  <2>2. s \in Seq(Blocks) /\ RangeOf(s) = {b}
    BY SingleFacts
  <2>3. Append(m_unverified, b) = m_unverified \o s
    BY <1>3, AppendIsConcat DEF BQTypeOK
  <2>4. goodQueue' = s
    BY <2>1
  <2>5. ParentKnown(b)
    BY <1>7
  <2> HIDE DEF s
  <2>6. Undisturbed => \A x \in RangeOf(s) :
                            /\ Parent[x] \in m_readySet \cup m_drainingSet \/ isKnown(Parent[x])
                            /\ Timestamp[x] <= now
    BY <1>2, <1>7, <2>2, <2>5 DEF ParentKnown
  <2>7. /\ m_unverified' = m_unverified \o s /\ m_readySet' = m_readySet \cup RangeOf(s)
        /\ RangeOf(goodQueue') \subseteq m_readySet' /\ m_unknownSet' \subseteq m_unknownSet
    BY <2>1, <2>2, <2>3, <2>4
  <2>8. OrderKept'
    BY <1>1, <2>1, <2>2, <2>6, <2>7, OrderGrows DEF Order
  <2> QED BY <2>1, <2>8 DEF Order, RetryTells
<1> QED BY <1>1, <1>4, <1>5, <1>6, <1>7

\* drain(): the way stays, the drained blocks are watched over until they have a fate.
LEMMA OrderDrain ==
  ASSUME IInv, Order, Drain
  PROVE  Order'
<1> DEFINE out == drainOut(m_syncAmount)
<1>1. /\ clientPc = "drain" /\ m_lock = "free" /\ blocks' = out /\ badBlocks' = <<>>
      /\ \/ /\ m_drainingSet = {}
            /\ m_verified' = SubSeq(m_verified, Len(out) + 1, Len(m_verified))
            /\ m_drainingSet' = RangeOf(out)
            /\ m_readySet' = m_readySet \ RangeOf(out)
         \/ /\ m_drainingSet # {}
            /\ UNCHANGED <<m_verified, m_drainingSet, m_readySet>>
      /\ UNCHANGED <<m_unknownSet, m_knownBad, m_verifying, m_unverified,
                     m_lock, goodQueue, chain, now, transients, clears, retries>>
  BY DEF Drain, drain, At, Goto, boundVars, loopVars, threadVars
<1>2. RetryTells'
  BY <1>1 DEF RetryTells
<1>3. Undisturbed' => Undisturbed
  BY <1>1, UndisturbedFacts
<1>4. /\ blocks = <<>> /\ badBlocks = <<>> /\ goodQueue = <<>> /\ BQTypeOK /\ TypeOK
  BY <1>1, FreeFacts DEF IInv, LockTells
<1> HIDE DEF out
<1>5. CASE m_drainingSet # {}
  <2>1. out = <<>>
    BY <1>5 DEF drainOut, out
  <2>2. UNCHANGED <<m_verified, m_verifying, m_unverified, blocks, badBlocks, m_readySet,
                    m_unknownSet, m_drainingSet, goodQueue, chain, now>>
    BY <1>1, <1>4, <1>5, <2>1
  <2>3. OrderKept'
    BY <1>3, <2>2, OrderQuiet DEF Order
  <2> QED BY <1>2, <2>3 DEF Order
<1>6. CASE m_drainingSet = {}
  <2>1. SUFFICES ASSUME Undisturbed'
                 PROVE  /\ OrderedIn(Way', Excused')
                        /\ m_drainingSet' \subseteq RangeOf(blocks') \cup chain' \cup RangeOf(badBlocks')
                        /\ \A b \in m_readySet' \cup m_unknownSet' \cup m_drainingSet' \cup RangeOf(blocks') :
                                Timestamp[b] <= now'
                        /\ RangeOf(goodQueue') \subseteq m_readySet'
    BY <1>2, WayNow DEF Order, OrderKept
  <2>2. Undisturbed
    BY <1>3, <2>1
  <2>3. /\ OrderedIn(Way, Excused)
        /\ \A b \in m_readySet \cup m_unknownSet \cup m_drainingSet \cup RangeOf(blocks) :
               Timestamp[b] <= now
        /\ m_readySet = QueuedIn(BadView)
        /\ Excused = chain \cup {Genesis} \cup RangeOf(badBlocks)
    BY <2>2, OrderFacts DEF Order
  <2>4. PICK k \in 0..Len(m_verified) : out = SubSeq(m_verified, 1, k)
    <3>1. \E k \in 0..Len(m_verified) : out = SubSeq(m_verified, 1, k)
      BY <1>4, <1>6, DrainOutFacts, ImportAssumption DEF out
    <3> QED BY <3>1
  <2>5. /\ m_verified \in Seq(Blocks) /\ m_verifying \in Seq(JobSet) /\ m_unverified \in Seq(Blocks)
    BY <1>4, WayFacts
  <2>6. Len(out) = k /\ RangeOf(out) \subseteq RangeOf(m_verified)
    <3> DEFINE back == SubSeq(m_verified, k + 1, Len(m_verified))
    <3>1. /\ out \in Seq(Blocks) /\ Len(out) = k
          /\ RangeOf(m_verified) = RangeOf(out) \cup RangeOf(back)
      BY <2>4, <2>5, SplitFacts
    <3> HIDE DEF back
    <3> QED BY <3>1
  <2>7. Way' = WayOf(SubSeq(m_verified, 1, k), SubSeq(m_verified, k + 1, Len(m_verified)),
                     m_verifying, m_unverified)
    BY <1>1, <1>6, <2>4, <2>6, WayNow
  <2>8. WayOf(SubSeq(m_verified, 1, k), SubSeq(m_verified, k + 1, Len(m_verified)),
              m_verifying, m_unverified) = WayOf(<<>>, m_verified, m_verifying, m_unverified)
    BY <2>5, WayHanded
  <2>9. Way' = Way
    BY <1>4, <2>7, <2>8, WayNow
  <2>10. Excused' = Excused
    BY <1>1, <1>4 DEF Excused
  <2>11. RangeOf(m_verified) \subseteq m_readySet
    BY <2>3 DEF QueuedIn, BadView
  <2>12. m_drainingSet' = RangeOf(out) /\ m_readySet' = m_readySet \ RangeOf(out)
    BY <1>1, <1>6
  <2>13. \A b \in m_readySet' \cup m_unknownSet' \cup m_drainingSet' \cup RangeOf(blocks') :
             Timestamp[b] <= now'
    BY <1>1, <2>3, <2>6, <2>11, <2>12
  <2>14. RangeOf(goodQueue') \subseteq m_readySet'
    BY <1>1, <1>4, EmptyFacts
  <2> QED BY <1>1, <2>3, <2>9, <2>10, <2>12, <2>13, <2>14
<1> QED BY <1>5, <1>6

\* One block of sync()'s loop.
LEMMA OrderImportNext ==
  ASSUME IInv, Order, ImportNext
  PROVE  Order'
<1> DEFINE x == Head(blocks)
<1>1. /\ blocks # <<>> /\ blocks' = Tail(blocks)
      /\ UNCHANGED <<m_readySet, m_drainingSet, m_unknownSet, m_knownBad, m_verified, m_verifying,
                     m_unverified, m_lock, goodQueue, now, clears, retries>>
  BY DEF ImportNext, AlreadyHaveBlock, UnknownParent, FutureTime, TransientError, BadBlock,
         GoodBlock, NextBlock, setVars, queueVars, loopVars
<1>2. RetryTells'
  BY <1>1 DEF Order, RetryTells
<1>3. /\ blocks \in Seq(Blocks) /\ badBlocks \in Seq(Blocks) /\ m_verified \in Seq(Blocks)
      /\ m_verifying \in Seq(JobSet) /\ m_unverified \in Seq(Blocks) /\ Way \in Seq(Blocks)
      /\ TypeOK /\ chain \subseteq Blocks
  BY WayFacts DEF IInv, TypeOK, BQTypeOK
<1>4. x \in Blocks /\ RangeOf(blocks) = {x} \cup RangeOf(blocks')
  BY <1>1, <1>3, TailFacts
<1>5. \/ AlreadyHaveBlock /\ chain' = chain /\ badBlocks' = badBlocks \o <<>> /\ isKnown(x)
      \/ UnknownParent /\ chain' = chain /\ badBlocks' = badBlocks \o <<x>>
      \/ FutureTime /\ Timestamp[x] > now
      \/ TransientError /\ transients' = transients + 1
      \/ BadBlock /\ chain' = chain /\ badBlocks' = badBlocks \o <<x>>
      \/ GoodBlock /\ chain' = chain \cup {x} /\ badBlocks' = badBlocks \o <<>>
  BY DEF ImportNext, AlreadyHaveBlock, UnknownParent, FutureTime, TransientError, BadBlock,
         GoodBlock, NextBlock
<1>6. (AlreadyHaveBlock \/ UnknownParent \/ FutureTime \/ BadBlock \/ GoodBlock)
         => transients' = transients
  BY DEF AlreadyHaveBlock, UnknownParent, FutureTime, BadBlock, GoodBlock
<1>7. /\ Way # <<>> /\ Head(Way) = x /\ Way' = Tail(Way)
  <2>1. /\ WayOf(blocks, m_verified, m_verifying, m_unverified) # <<>>
        /\ Head(WayOf(blocks, m_verified, m_verifying, m_unverified)) = Head(blocks)
        /\ WayOf(Tail(blocks), m_verified, m_verifying, m_unverified)
             = Tail(WayOf(blocks, m_verified, m_verifying, m_unverified))
    BY <1>1, <1>3, WayEnds
  <2> QED BY <1>1, <2>1, WayNow, Zenon
<1>8. RangeOf(badBlocks \o <<>>) = RangeOf(badBlocks)
      /\ RangeOf(badBlocks \o <<x>>) = RangeOf(badBlocks) \cup {x}
  <2> HIDE DEF x
  <2>1. <<x>> \in Seq(Blocks) /\ RangeOf(<<x>>) = {x} /\ <<>> \in Seq(Blocks) /\ RangeOf(<<>>) = {}
    BY <1>4, SingleFacts, EmptyFacts
  <2>2. \A t, u \in Seq(Blocks) : RangeOf(t \o u) = RangeOf(t) \cup RangeOf(u)
    BY ConcatFacts
  <2>0. badBlocks \in Seq(Blocks) /\ <<>> \in Seq(Blocks) /\ <<x>> \in Seq(Blocks)
    BY <1>3, <2>1
  <2>3. RangeOf(badBlocks \o <<>>) = RangeOf(badBlocks) \cup RangeOf(<<>>)
    BY <2>0, <2>2, Zenon
  <2>4. RangeOf(badBlocks \o <<x>>) = RangeOf(badBlocks) \cup RangeOf(<<x>>)
    BY <2>0, <2>2, Zenon
  <2> QED BY <2>1, <2>3, <2>4
<1> HIDE DEF x
<1>9. SUFFICES ASSUME Undisturbed'
               PROVE  /\ OrderedIn(Way', Excused')
                      /\ m_drainingSet \subseteq RangeOf(blocks') \cup chain' \cup RangeOf(badBlocks')
                      /\ \A b \in m_readySet \cup m_unknownSet \cup m_drainingSet \cup RangeOf(blocks') :
                              Timestamp[b] <= now
                      /\ RangeOf(goodQueue) \subseteq m_readySet
  BY <1>1, <1>2, WayNow DEF Order, OrderKept
<1>10. transients' = 0 /\ transients \in Nat
  BY <1>3, <1>9, ImportAssumption DEF Undisturbed, TypeOK
<1>11. ~TransientError /\ transients' = transients
  <2>1. TransientError => transients' = transients + 1
    BY DEF TransientError
  <2>2. ~TransientError
    BY <1>10, <2>1
  <2> QED BY <1>5, <1>6, <2>2
<1>12. Undisturbed
  BY <1>1, <1>9, <1>11, UndisturbedFacts
<1>13. /\ OrderedIn(Way, Excused)
       /\ m_drainingSet \subseteq RangeOf(blocks) \cup chain \cup RangeOf(badBlocks)
       /\ \A b \in m_readySet \cup m_unknownSet \cup m_drainingSet \cup RangeOf(blocks) :
              Timestamp[b] <= now
       /\ RangeOf(goodQueue) \subseteq m_readySet
       /\ Excused = chain \cup {Genesis} \cup RangeOf(badBlocks)
  BY <1>12, OrderFacts DEF Order
<1>14. ~FutureTime
  <2>1. Timestamp[x] <= now /\ now \in Nat /\ Timestamp[x] \in Nat
    BY <1>3, <1>4, <1>13, BlocksAssumption DEF TypeOK, BQTypeOK
  <2>2. ~(Timestamp[x] > now)
    BY <2>1
  <2> QED BY <1>5, <2>2 DEF x, FutureTime
<1>15. /\ chain \cup RangeOf(badBlocks) \cup {x} \subseteq chain' \cup RangeOf(badBlocks')
       /\ chain \subseteq chain' /\ RangeOf(badBlocks) \subseteq RangeOf(badBlocks')
  <2>1. Genesis \notin Blocks
    BY BlocksAssumption
  <2>2. isKnown(x) => x \in chain
    BY <1>4, <2>1 DEF isKnown
  <2> QED BY <1>5, <1>8, <1>11, <1>14, <2>2
<1>16. Excused \cup {x} \subseteq Excused'
  BY <1>13, <1>15 DEF Excused
<1>17. OrderedIn(Way', Excused \cup {x})
  BY <1>3, <1>7, <1>13, OrderedTail
<1>18. OrderedIn(Way', Excused')
  BY <1>16, <1>17, OrderedMore
<1> QED BY <1>4, <1>13, <1>15, <1>18

\* doneDrain(): without a bad block, all drained ones are in the chain.
LEMMA OrderDoneDrain ==
  ASSUME IInv, Order, DoneDrain
  PROVE  Order'
<1>1. /\ blocks = <<>> /\ badBlocks' = <<>> /\ m_drainingSet' = {}
      /\ m_knownBad' = m_knownBad \cup RangeOf(badBlocks)
      /\ m_lock' \in {"updated", "updateBad"}
      /\ UNCHANGED <<blocks, m_readySet, m_unknownSet, m_verified, m_verifying, m_unverified,
                     goodQueue, chain, now, transients, clears, retries>>
  BY DEF DoneDrain, doneDrain, UpdateBad, boundVars, queueVars
<1>2. RetryTells'
  BY <1>1 DEF RetryTells
<1>3. badBlocks \in Seq(Blocks)
  BY DEF IInv, TypeOK
<1>4. SUFFICES ASSUME Undisturbed'
               PROVE  /\ OrderedIn(Way', Excused')
                      /\ m_drainingSet' \subseteq RangeOf(blocks') \cup chain' \cup RangeOf(badBlocks')
                      /\ \A b \in m_readySet' \cup m_unknownSet' \cup m_drainingSet' \cup RangeOf(blocks') :
                              Timestamp[b] <= now'
                      /\ RangeOf(goodQueue') \subseteq m_readySet'
  BY <1>2, WayNow DEF Order, OrderKept
<1>5. m_knownBad' = {}
  BY <1>4 DEF Undisturbed
<1>6. RangeOf(badBlocks) = {}
  BY <1>1, <1>5
<1>7. badBlocks = <<>>
  BY <1>3, <1>6, RangeEmpty
<1>8. Undisturbed
  BY <1>1, <1>4, UndisturbedFacts
<1>9. /\ OrderedIn(Way, Excused)
      /\ \A b \in m_readySet \cup m_unknownSet \cup m_drainingSet \cup RangeOf(blocks) :
             Timestamp[b] <= now
      /\ RangeOf(goodQueue) \subseteq m_readySet
  BY <1>8, OrderFacts DEF Order
<1>10. Way' = Way
  BY <1>1, WayNow
<1>11. Excused' = Excused
  BY <1>1, <1>7, <1>8, <1>5 DEF Excused, Undisturbed
<1> QED BY <1>1, <1>9, <1>10, <1>11

\* Blocks are found bad: the queue has been disturbed.
LEMMA OrderBad ==
  ASSUME IInv, IInv', Order, CollectBad \/ MoreBad, OthersRest
  PROVE  Order'
<1>1. m_lock' \in {"updateBad", "moreBad", "updated"}
  BY DEF CollectBad, MoreBad
<1>2. m_knownBad' # {}
  <2>1. CASE CollectBad
    <3>1. m_lock' = "moreBad"
      BY <2>1 DEF CollectBad
    <3> QED BY <3>1 DEF IInv, LockTells
  <2>2. CASE MoreBad
    <3>1. BQTypeOK /\ QueuesSound /\ Sound(BadView) /\ m_lock = "moreBad" /\ m_knownBad # {}
      BY <2>2 DEF IInv, TypeOK, QueuesSound, LockTells, MoreBad
    <3>2. BadView' = BadVerifying(BadUnverified(BadVerified(BadView)))
      BY <2>2, <3>1, MoreBadTypes
    <3> DEFINE r == BadView'
    <3> HIDE DEF r
    <3>3. Spoils(BadView, r)
      <4>1. r = BadVerifying(BadUnverified(BadVerified(BadView)))
        BY <3>2 DEF r
      <4> QED BY <3>1, <4>1, TurnFacts
    <3>4. BadView.bad \subseteq r.bad
      BY <3>3 DEF Spoils
    <3>5. r.bad = m_knownBad'
      BY DEF r, BadView
    <3> QED BY <3>1, <3>4, <3>5, ViewFields
  <2> QED BY <2>1, <2>2
<1> QED BY <1>1, <1>2 DEF Order, OrderKept, Undisturbed, RetryTells

\* So it is by a retry.
LEMMA OrderRetryStep ==
  ASSUME IInv, Order, RetryStep, OthersRest
  PROVE  Order'
<1>1. m_lock = "retryAllUnknown" /\ m_lock' \in {"retryAllUnknown", "free"}
  BY DEF RetryStep
<1>2. retries' = retries /\ retries # 0
  BY <1>1, OthersRestFacts DEF Order, RetryTells
<1> QED BY <1>1, <1>2 DEF Order, OrderKept, Undisturbed, RetryTells

LEMMA OrderRetryUnknown ==
  ASSUME IInv, Order, RetryUnknown
  PROVE  Order'
<1>1. retries \in Nat /\ retries' = retries + 1
  BY ImportAssumption DEF IInv, TypeOK, RetryUnknown
<1>2. retries' # 0
  BY <1>1
<1> QED BY <1>2 DEF Order, OrderKept, Undisturbed, RetryTells

\* clear() leaves the drained blocks alone on the way.
LEMMA OrderClear ==
  ASSUME IInv, Order, Clear
  PROVE  Order'
<1>1. /\ m_lock = "free" /\ m_readySet' = {} /\ m_drainingSet' = {} /\ m_unknownSet' = {}
      /\ m_verified' = <<>> /\ m_unverified' = <<>> /\ m_verifying' = <<>>
      /\ UNCHANGED <<m_knownBad, m_lock, goodQueue, chain, now, blocks, badBlocks, transients,
                     retries>>
  BY DEF Clear, clear, loopVars, clientVars
<1>2. RetryTells'
  BY <1>1 DEF RetryTells
<1>3. SUFFICES ASSUME Undisturbed'
               PROVE  /\ OrderedIn(Way', Excused')
                      /\ \A b \in RangeOf(blocks) : Timestamp[b] <= now
  BY <1>1, <1>2, FreeFacts, EmptyFacts, WayNow DEF Order, OrderKept
<1>4. Undisturbed
  BY <1>1, <1>3, UndisturbedFacts
<1>5. /\ OrderedIn(Way, Excused) /\ TypeOK
      /\ \A b \in m_readySet \cup m_unknownSet \cup m_drainingSet \cup RangeOf(blocks) :
             Timestamp[b] <= now
  BY <1>4, OrderFacts DEF Order
<1>6. Way' = blocks
  BY <1>1, <1>5, WayAlone, WayFacts, WayNow
<1>7. blocks \in Seq(Blocks) /\ InOrder \in Seq(Blocks) /\ Way = blocks \o InOrder
  BY <1>5, WayFacts DEF Way
<1>8. OrderedIn(blocks, Excused)
  <2> DEFINE t == InOrder
  <2>1. OrderedIn(blocks \o t, Excused) /\ t \in Seq(Blocks)
    BY <1>5, <1>7
  <2> HIDE DEF t
  <2> QED BY <1>7, <2>1, OrderedFront
<1>9. Excused' = Excused
  BY <1>1 DEF Excused
<1> QED BY <1>5, <1>6, <1>8, <1>9

\* The steps that move no block.
LEMMA OrderRests ==
  ASSUME IInv, Order,
         UNCHANGED <<setVars, queueVars, goodQueue, chain, blocks, badBlocks, boundVars>>,
         m_lock' \in {m_lock, "free"}, now' \in {now, now + 1}
  PROVE  Order'
<1>1. /\ UNCHANGED <<m_verified, m_verifying, m_unverified, blocks, badBlocks, m_readySet,
                     m_unknownSet, m_drainingSet, m_knownBad, goodQueue, chain>>
      /\ UNCHANGED <<transients, clears, retries>>
  BY DEF setVars, queueVars, boundVars
<1>2. Undisturbed' => Undisturbed
  BY <1>1, UndisturbedFacts
<1>3. OrderKept'
  BY <1>1, <1>2, OrderQuiet DEF Order
<1> QED BY <1>1, <1>3 DEF Order, RetryTells

\* Such are all these.
LEMMA OrderRestsAll ==
  ASSUME IInv, Order,
         \/ TakeFlag \/ RoomAvailable \/ AssignFlag \/ NoTick \/ Tick \/ Drained
         \/ StopNotify \/ StopJoin \/ Stop \/ PauseSync \/ AdvanceClock
         \/ (Updated /\ OthersRest) \/ UNCHANGED vars
         \/ \E v \in Verifiers : OnReady(v) /\ OthersRest
  PROVE  Order'
<1> SUFFICES /\ UNCHANGED <<setVars, queueVars, goodQueue, chain, blocks, badBlocks, boundVars>>
             /\ m_lock' \in {m_lock, "free"} /\ now' \in {now, now + 1}
  BY OrderRests
<1>1. CASE TakeFlag \/ RoomAvailable \/ AssignFlag \/ NoTick \/ Tick \/ Drained
  BY <1>1 DEF TakeFlag, RoomAvailable, AssignFlag, NoTick, Tick, tick, Drained, Updated,
              loopVars, bqVars
<1>2. CASE StopNotify \/ StopJoin \/ Stop \/ PauseSync \/ AdvanceClock
  BY <1>2 DEF StopNotify, NotifyDeleting, StopJoin, Stop, SetDeleting, PauseSync, AdvanceClock,
              loopVars, bqVars, clientVars
<1>3. CASE (Updated /\ OthersRest) \/ \E v \in Verifiers : OnReady(v) /\ OthersRest
  BY <1>3 DEF Updated, OnReady, OthersRest, loopVars, clientVars
<1>4. CASE UNCHANGED vars
  BY <1>4 DEF vars, bqVars, loopVars, clientVars
<1> QED BY <1>1, <1>2, <1>3, <1>4

\* At first nothing is on the way.
LEMMA OrderInit == Init => Order
<1> SUFFICES ASSUME Init PROVE Order
  OBVIOUS
<1>1. /\ m_lock = "free" /\ blocks = <<>> /\ m_verified = <<>> /\ m_verifying = <<>>
      /\ m_unverified = <<>> /\ goodQueue = <<>> /\ m_readySet = {} /\ m_unknownSet = {}
      /\ m_drainingSet = {}
  BY DEF Init, BQInit
<1>2. TypeOK
  BY InitKeeps DEF IInv
<1>3. Way \in Seq(Blocks) /\ RangeOf(Way) = RangeOf(blocks) \cup QueuedIn(BadView)
  BY <1>2, WayFacts
<1>4. RangeOf(Way) = {}
  BY <1>1, <1>3, EmptyFacts DEF QueuedIn, BadView
<1>5. Way = <<>>
  BY <1>3, <1>4, RangeEmpty
<1>6. OrderedIn(Way, Excused)
  BY <1>5 DEF OrderedIn
<1>7. RangeOf(goodQueue) \subseteq m_readySet
  BY <1>1, EmptyFacts
<1> QED BY <1>1, <1>6, <1>7, WayNow DEF Order, OrderKept, RetryTells

\* Every step keeps the order.
LEMMA OrderNext == IInv /\ IInv' /\ Order /\ [Next]_vars => Order'
<1> SUFFICES ASSUME IInv, IInv', Order, [Next]_vars PROVE Order'
  OBVIOUS
<1>1. CASE ClientStep
  <2>1. CASE TickImport
    <3>1. /\ todo # <<>> /\ import(Head(todo), FALSE)
          /\ UNCHANGED <<blocks, badBlocks, transients, clears, retries>>
      BY <2>1 DEF TickImport, boundVars
    <3>2. Head(todo) \in Blocks
      <4>1. todo \in Seq(Blocks)
        BY DEF IInv, TypeOK
      <4> QED BY <3>1, <4>1
    <3> QED BY <3>1, <3>2, OrderImport
  <2> QED BY <1>1, <2>1, OrderRestsAll, OrderDrain, OrderImportNext, OrderDoneDrain DEF ClientStep
<1>2. CASE LockedStep
  BY <1>2, OrderNoteReady, OrderRetryStep, OrderBad, OrderRestsAll DEF LockedStep, OthersRest
<1>3. CASE StopStep \/ Stop
  BY <1>3, OrderRestsAll DEF StopStep
<1>4. CASE \E v \in Verifiers : Verifier(v)
  <2>1. PICK v \in Verifiers : /\ TakeJob(v) \/ VerifyThrows(v) \/ VerifyReturns(v) \/ OnReady(v)
                               /\ OthersRest
    BY <1>4 DEF Verifier, OthersRest
  <2> QED BY <2>1, OrderTakeJob, OrderVerifyThrows, OrderVerifyReturns, OrderRestsAll
<1>5. CASE \E b \in Blocks, isOurs \in BOOLEAN : Arrive(b, isOurs)
  <2>1. PICK b \in Blocks, isOurs \in BOOLEAN : Arrive(b, isOurs)
    BY <1>5
  <2>2. /\ import(b, isOurs) /\ (isOurs => b \in Ours)
        /\ UNCHANGED <<blocks, badBlocks, transients, clears, retries>>
    BY <2>1 DEF Arrive, clientVars, boundVars
  <2> QED BY <2>2, OrderImport
<1>6. CASE PauseSync \/ Clear \/ RetryUnknown \/ AdvanceClock
  BY <1>6, OrderRestsAll, OrderClear, OrderRetryUnknown
<1>7. CASE UNCHANGED vars
  BY <1>7, OrderRestsAll
<1> QED BY <1>1, <1>2, <1>3, <1>4, <1>5, <1>6, <1>7 DEF Next

\* "The queue should guarantee everything in the right order" (BlockChain.cpp:443): with
\* any number of verifiers, whichever finishes first, the parent of every block on its way
\* to the chain is in the chain, ahead of it, or just failed.  As long as the path is
\* undisturbed: a removeIf that takes bad blocks out, retryAllUnknown, a TransientError and a mined block
\* dated in the future each let a block overtake its parent, or lose it; clear() does not.
THEOREM ParentsStayFirst == Spec => [](Undisturbed => ParentsFirst)
<1>1. IInv /\ Order => (Undisturbed => ParentsFirst)
  BY DEF Order, OrderKept
<1>2. Spec => []Order
  BY Invariant, OrderInit, OrderNext, PTL DEF Spec
<1> QED BY <1>1, <1>2, Invariant, PTL

-----------------------------------------------------------------------------
(* The queue implements BlockStatus.                                       *)

\* A block is imported once: what is queued or waits is not in the chain, and the
\* batch holds no block twice.
ImportedOnce ==
    clears = 0 =>
        /\ (m_readySet \cup m_unknownSet) \cap chain = {}
        /\ Injective(blocks) /\ RangeOf(blocks) \cap (RangeOf(badBlocks) \cup Invalid) = {}
        /\ RangeOf(badBlocks) \cap chain = {}

\* What is bad, or descends from what is.
Doomed == {b \in Blocks : AncestorOrSelf(b) \cap (Invalid \cup InvalidState) # {}}

LEMMA DoomedFacts ==
  ASSUME NEW b \in Blocks, b \in Invalid \cup InvalidState \/ Parent[b] \in Doomed
  PROVE  b \in Doomed
<1>1. CASE b \in Invalid \cup InvalidState
  <2>1. b \in AncestorOrSelf(b)
    BY HashFacts DEF AncestorOrSelf
  <2> QED BY <1>1, <2>1 DEF Doomed
<1>2. CASE Parent[b] \in Doomed
  <2>1. AncestorOrSelf(Parent[b]) \subseteq AncestorOrSelf(b)
    <3> SUFFICES ASSUME NEW h \in AncestorOrSelf(Parent[b]), NEW S \in SUBSET Hashes,
                        b \in S, \A x \in S \cap Blocks : Parent[x] \in S
                 PROVE  h \in S
      BY DEF AncestorOrSelf
    <3> QED BY DEF AncestorOrSelf
  <2> QED BY <1>2, <2>1 DEF Doomed
<1> QED BY <1>1, <1>2

\* A block of the batch fails by itself, or because its parent did; it is bad.
FailuresTold ==
    Undisturbed =>
        /\ \A b \in RangeOf(badBlocks) : b \in InvalidState \/ Parent[b] \in RangeOf(badBlocks)
        /\ RangeOf(badBlocks) \subseteq Doomed

\* What is kept beside IInv and Order.
Told == ImportedOnce /\ FailuresTold

\* Blocks move within the queue, or leave it.
LEMMA ToldRests ==
  ASSUME Told, UNCHANGED <<blocks, badBlocks, chain>>, clears' = 0 => clears = 0,
         Undisturbed' => Undisturbed,
         m_readySet' \cup m_unknownSet' \subseteq m_readySet \cup m_unknownSet
  PROVE  Told'
<1>1. ImportedOnce'
  BY DEF Told, ImportedOnce
<1>2. FailuresTold'
  BY DEF Told, FailuresTold
<1> QED BY <1>1, <1>2 DEF Told

\* A block comes in that is not in the chain.
LEMMA ToldImport ==
  ASSUME Told, IInv, NEW b \in Blocks, NEW isOurs \in BOOLEAN, import(b, isOurs),
         UNCHANGED <<blocks, badBlocks, transients, clears, retries>>
  PROVE  Told'
<1>1. /\ UNCHANGED chain
      /\ \/ UNCHANGED <<setVars, queueVars, m_difficulty, m_future, loopVars, verifierPc>>
         \/ QueueForFuture(b)
         \/ RefuseBadChain(b)
         \/ b \notin chain /\ QueueUnknown(b)
         \/ b \notin chain /\ QueueReady(b)
  BY DEF import, isKnown
<1>2. /\ m_readySet' \cup m_unknownSet' \subseteq m_readySet \cup m_unknownSet \cup {b}
      /\ b \notin chain \/ m_readySet' \cup m_unknownSet' \subseteq m_readySet \cup m_unknownSet
      /\ m_knownBad \subseteq m_knownBad'
  BY <1>1 DEF setVars, QueueForFuture, RefuseBadChain, QueueUnknown, QueueReady
<1>3. Undisturbed' => Undisturbed
  BY <1>2, UndisturbedFacts
<1>4. ImportedOnce'
  BY <1>1, <1>2 DEF Told, ImportedOnce
<1>5. FailuresTold'
  BY <1>3 DEF Told, FailuresTold
<1> QED BY <1>4, <1>5 DEF Told

\* drain(): the batch is new.
LEMMA ToldDrain ==
  ASSUME Told, IInv, Drain
  PROVE  Told'
<1> DEFINE out == drainOut(m_syncAmount)
<1>1. /\ m_lock = "free" /\ blocks' = out /\ badBlocks' = <<>>
      /\ \/ m_drainingSet = {} /\ m_readySet' = m_readySet \ RangeOf(out)
         \/ m_drainingSet # {} /\ UNCHANGED m_readySet
      /\ UNCHANGED <<m_unknownSet, m_knownBad, chain, transients, clears, retries>>
  BY DEF Drain, drain, boundVars
<1>2. /\ BQTypeOK /\ Injective(m_verified) /\ RangeOf(m_verified) \cap Invalid = {}
  BY SoundFacts DEF IInv, TypeOK
<1>3. Injective(out) /\ RangeOf(out) \cap Invalid = {}
  <2>1. CASE m_drainingSet = {}
    <3>1. \E k \in 0..Len(m_verified) : out = SubSeq(m_verified, 1, k)
      BY <1>2, <2>1, DrainOutFacts, ImportAssumption DEF out
    <3>2. PICK k \in 0..Len(m_verified) : out = SubSeq(m_verified, 1, k)
      BY <3>1
    <3>3. m_verified \in Seq(Blocks)
      BY <1>2 DEF BQTypeOK
    <3> DEFINE back == SubSeq(m_verified, k + 1, Len(m_verified))
    <3>4. Injective(out) /\ RangeOf(m_verified) = RangeOf(out) \cup RangeOf(back)
      BY <1>2, <3>2, <3>3, SplitFacts
    <3> HIDE DEF back
    <3> QED BY <1>2, <3>4
  <2>2. CASE m_drainingSet # {}
    <3>1. out = <<>>
      BY <2>2 DEF drainOut
    <3> QED BY <3>1, EmptyFacts
  <2> QED BY <2>1, <2>2
<1> HIDE DEF out
<1>4. RangeOf(badBlocks') = {}
  BY <1>1, EmptyFacts
<1>5. ImportedOnce'
  BY <1>1, <1>3, <1>4 DEF Told, ImportedOnce
<1>6. FailuresTold'
  BY <1>4 DEF FailuresTold
<1> QED BY <1>5, <1>6 DEF Told

\* The first block's parent is excused.
LEMMA FirstIsExcused ==
  ASSUME IInv, Order, Undisturbed, blocks # <<>>
  PROVE  Parent[Head(blocks)] \in chain \cup {Genesis} \cup RangeOf(badBlocks)
<1>1. /\ OrderedIn(Way, Excused) /\ Excused = chain \cup {Genesis} \cup RangeOf(badBlocks)
      /\ TypeOK
  BY OrderFacts DEF Order
<1>2. /\ blocks \in Seq(Blocks) /\ m_verified \in Seq(Blocks) /\ m_verifying \in Seq(JobSet)
      /\ m_unverified \in Seq(Blocks) /\ Way \in Seq(Blocks)
  BY <1>1, WayFacts
<1>3. /\ WayOf(blocks, m_verified, m_verifying, m_unverified) # <<>>
      /\ Head(WayOf(blocks, m_verified, m_verifying, m_unverified)) = Head(blocks)
  BY <1>2, WayEnds
<1>4. Way # <<>> /\ Head(Way) = Head(blocks)
  BY <1>3, WayNow, Zenon
<1>5. 1 \in DOMAIN Way /\ Way[1] = Head(Way)
  BY <1>2, <1>4
<1>6. Parent[Way[1]] \in Excused \/ \E j \in 1..(1 - 1) : Way[j] = Parent[Way[1]]
  BY <1>1, <1>5 DEF OrderedIn
<1>7. Parent[Way[1]] \in Excused
  BY <1>6
<1> QED BY <1>1, <1>4, <1>5, <1>7

\* One block of sync()'s loop: it enters the chain, or fails for a reason.
LEMMA ToldImportNext ==
  ASSUME Told, IInv, Order, ImportNext
  PROVE  Told'
<1> DEFINE x == Head(blocks)
<1>1. /\ blocks # <<>> /\ blocks' = Tail(blocks)
      /\ UNCHANGED <<m_readySet, m_drainingSet, m_unknownSet, m_knownBad, clears, retries>>
  BY DEF ImportNext, AlreadyHaveBlock, UnknownParent, FutureTime, TransientError, BadBlock,
         GoodBlock, NextBlock, setVars
<1>2. blocks \in Seq(Blocks) /\ badBlocks \in Seq(Blocks) /\ TypeOK
  BY DEF IInv, TypeOK
<1>3. /\ x \in Blocks /\ RangeOf(blocks) = {x} \cup RangeOf(blocks')
      /\ Injective(blocks) => Injective(blocks') /\ x \notin RangeOf(blocks')
  BY <1>1, <1>2, TailFacts
<1>4. RangeOf(badBlocks \o <<>>) = RangeOf(badBlocks)
      /\ RangeOf(badBlocks \o <<x>>) = RangeOf(badBlocks) \cup {x}
  <2> HIDE DEF x
  <2>1. <<x>> \in Seq(Blocks) /\ RangeOf(<<x>>) = {x} /\ <<>> \in Seq(Blocks) /\ RangeOf(<<>>) = {}
    BY <1>3, SingleFacts, EmptyFacts
  <2>2. \A t, u \in Seq(Blocks) : RangeOf(t \o u) = RangeOf(t) \cup RangeOf(u)
    BY ConcatFacts
  <2>3. RangeOf(badBlocks \o <<>>) = RangeOf(badBlocks) \cup RangeOf(<<>>)
    BY <1>2, <2>1, <2>2, Zenon
  <2>4. RangeOf(badBlocks \o <<x>>) = RangeOf(badBlocks) \cup RangeOf(<<x>>)
    BY <1>2, <2>1, <2>2, Zenon
  <2> QED BY <2>1, <2>3, <2>4
<1>5. \/ chain' = chain /\ badBlocks' = badBlocks \o <<>>
      \/ /\ chain' = chain /\ badBlocks' = badBlocks \o <<x>> /\ x \notin chain
         /\ x \in InvalidState \/ ~isKnown(Parent[x])
      \/ chain' = chain \cup {x} /\ badBlocks' = badBlocks \o <<>>
  BY DEF ImportNext, AlreadyHaveBlock, UnknownParent, FutureTime, TransientError, BadBlock,
         GoodBlock, NextBlock, Importable, isKnown
<1>6. transients' = transients \/ transients' = transients + 1
  BY DEF ImportNext, AlreadyHaveBlock, UnknownParent, FutureTime, TransientError, BadBlock,
         GoodBlock
<1> HIDE DEF x
<1>7. \/ chain' = chain /\ RangeOf(badBlocks') = RangeOf(badBlocks)
      \/ /\ chain' = chain /\ RangeOf(badBlocks') = RangeOf(badBlocks) \cup {x} /\ x \notin chain
         /\ x \in InvalidState \/ ~isKnown(Parent[x])
      \/ chain' = chain \cup {x} /\ RangeOf(badBlocks') = RangeOf(badBlocks)
  BY <1>4, <1>5
<1>8. ImportedOnce'
  <2> SUFFICES ASSUME clears = 0 PROVE ImportedOnce!2'
    BY <1>1 DEF ImportedOnce
  <2>1. /\ (m_readySet \cup m_unknownSet) \cap chain = {}
        /\ Injective(blocks) /\ RangeOf(blocks) \cap (RangeOf(badBlocks) \cup Invalid) = {}
        /\ RangeOf(badBlocks) \cap chain = {}
    BY DEF Told, ImportedOnce
  <2>2. RangeOf(blocks) \subseteq m_drainingSet
    BY DEF IInv, OneFate
  <2>3. x \notin m_readySet \cup m_unknownSet
    BY <1>3, <2>2 DEF IInv, OneFate
  <2> QED BY <1>1, <1>3, <1>7, <2>1, <2>3
<1>9. FailuresTold'
  <2> SUFFICES ASSUME Undisturbed'
               PROVE  /\ \A b \in RangeOf(badBlocks') :
                             b \in InvalidState \/ Parent[b] \in RangeOf(badBlocks')
                      /\ RangeOf(badBlocks') \subseteq Doomed
    BY DEF FailuresTold, Doomed, AncestorOrSelf
  <2>1. transients' = 0 /\ transients \in Nat
    BY <1>2, ImportAssumption DEF Undisturbed, TypeOK
  <2>2. transients' = transients
    BY <1>6, <2>1
  <2>3. Undisturbed
    BY <1>1, <2>2, UndisturbedFacts
  <2>4. Parent[x] \in chain \cup {Genesis} \cup RangeOf(badBlocks)
    BY <1>1, <2>3, FirstIsExcused DEF x
  <2>5. ~isKnown(Parent[x]) => Parent[x] \in RangeOf(badBlocks)
    BY <2>4 DEF isKnown
  <2>6. /\ \A b \in RangeOf(badBlocks) : b \in InvalidState \/ Parent[b] \in RangeOf(badBlocks)
        /\ RangeOf(badBlocks) \subseteq Doomed
    BY <2>3 DEF Told, FailuresTold
  <2>7. x \in InvalidState \/ ~isKnown(Parent[x]) => x \in Doomed
    BY <1>3, <2>5, <2>6, DoomedFacts
  <2> QED BY <1>7, <2>5, <2>6, <2>7
<1> QED BY <1>8, <1>9 DEF Told

\* doneDrain(): the batch is over.
LEMMA ToldDoneDrain ==
  ASSUME Told, DoneDrain
  PROVE  Told'
<1>1. /\ blocks = <<>> /\ badBlocks' = <<>> /\ blocks' = blocks
      /\ UNCHANGED <<m_readySet, m_unknownSet, chain, clears>>
  BY DEF DoneDrain, doneDrain, boundVars
<1>2. RangeOf(badBlocks') = {} /\ RangeOf(blocks') = {} /\ Injective(blocks')
  BY <1>1, EmptyFacts
<1>3. ImportedOnce'
  BY <1>1, <1>2 DEF Told, ImportedOnce
<1>4. FailuresTold'
  BY <1>2 DEF FailuresTold
<1> QED BY <1>3, <1>4 DEF Told

\* clear(): nothing is said from then on.
LEMMA ToldClear ==
  ASSUME Told, IInv, Clear
  PROVE  Told'
<1>1. /\ clears \in Nat /\ clears' = clears + 1
      /\ UNCHANGED <<m_knownBad, transients, retries, badBlocks>>
  BY ImportAssumption DEF IInv, TypeOK, Clear, clear, clientVars
<1>2. clears' # 0
  BY <1>1
<1>3. Undisturbed' => Undisturbed
  BY <1>1, UndisturbedFacts
<1> QED BY <1>1, <1>2, <1>3 DEF Told, ImportedOnce, FailuresTold

\* The threads that hold the lock, and the verifiers.
LEMMA ToldLocked ==
  ASSUME Told, IInv, OthersRest, NoteReady \/ RetryStep \/ CollectBad \/ MoreBad
  PROVE  Told'
<1>1. /\ UNCHANGED <<blocks, badBlocks, transients, clears, retries>>
      /\ BQTypeOK /\ QueuesSound
  BY OthersRestFacts DEF IInv, TypeOK
<1>2. CASE \E p \in Hashes : ReleaseUnknown(p)
  <2>1. PICK p \in Hashes : ReleaseUnknown(p)
    BY <1>2
  <2>2. /\ m_unknownSet' = m_unknownSet \ RangeOf(m_unknown[p])
        /\ m_readySet' = m_readySet \cup RangeOf(m_unknown[p])
        /\ UNCHANGED <<chain, m_knownBad>>
    BY <2>1 DEF ReleaseUnknown, NewReady
  <2>3. RangeOf(m_unknown[p]) \subseteq m_unknownSet
    BY <1>1, SoundFacts, ViewFields DEF Waits, WaitersOf
  <2>4. Undisturbed' => Undisturbed
    BY <1>1, <2>2, UndisturbedFacts
  <2>5. m_readySet' \cup m_unknownSet' \subseteq m_readySet \cup m_unknownSet
    BY <2>2, <2>3
  <2> QED BY <1>1, <2>2, <2>4, <2>5, ToldRests
<1>3. CASE UNCHANGED <<setVars, chain>>
  <2>1. UNCHANGED <<m_readySet, m_unknownSet, m_knownBad, chain>>
    BY <1>3 DEF setVars
  <2>2. Undisturbed' => Undisturbed
    BY <1>1, <2>1, UndisturbedFacts
  <2> QED BY <1>1, <2>1, <2>2, ToldRests
<1>4. CASE CollectBad \/ MoreBad
  <2> DEFINE r == BadView'
  <2> HIDE DEF r
  <2>1. /\ r.ready \subseteq m_readySet /\ r.unknownSet \subseteq m_unknownSet
        /\ m_knownBad \subseteq r.bad
    <3>1. CASE CollectBad
      <4>1. r = collectUnknownBad(BadView, {Head(badLeft)})
        BY <1>1, <3>1, CollectBadTypes DEF r
      <4>2. BadView \in View /\ Waits(BadView)
        BY <1>1, SoundFacts
      <4> QED BY <4>1, <4>2, CollectFacts, ViewFields
    <3>2. CASE MoreBad
      <4>1. r = BadVerifying(BadUnverified(BadVerified(BadView)))
        BY <1>1, <3>2, MoreBadTypes DEF r
      <4>2. Sound(BadView)
        BY <1>1 DEF QueuesSound
      <4>3. Spoils(BadView, r)
        BY <4>1, <4>2, TurnFacts
      <4> QED BY <4>3, ViewFields DEF Spoils
    <3> QED BY <1>4, <3>1, <3>2
  <2>2. r.ready = m_readySet' /\ r.unknownSet = m_unknownSet' /\ r.bad = m_knownBad'
    BY DEF r, BadView
  <2>3. UNCHANGED chain
    BY <1>4 DEF CollectBad, MoreBad
  <2>4. Undisturbed' => Undisturbed
    BY <1>1, <2>1, <2>2, UndisturbedFacts
  <2> QED BY <1>1, <2>1, <2>2, <2>3, <2>4, ToldRests
<1>5. ASSUME NoteReady PROVE \E p \in Hashes : ReleaseUnknown(p)
  <2>1. ReleaseUnknown(Head(goodQueue)) /\ m_lock = "noteReady"
    BY <1>5 DEF NoteReady
  <2>2. goodQueue # <<>> /\ goodQueue \in Seq(Blocks)
    BY <1>1, <2>1 DEF BQTypeOK
  <2>3. Head(goodQueue) \in Hashes
    BY <2>2, TailFacts, HashFacts
  <2> QED BY <2>1, <2>3
<1>6. ASSUME RetryStep PROVE (\E p \in Hashes : ReleaseUnknown(p)) \/ UNCHANGED <<setVars, chain>>
  BY <1>6 DEF RetryStep
<1> QED BY <1>2, <1>3, <1>4, <1>5, <1>6

LEMMA ToldVerifier ==
  ASSUME Told, IInv, OthersRest, NEW v \in Verifiers,
         TakeJob(v) \/ VerifyThrows(v) \/ VerifyReturns(v) \/ OnReady(v)
  PROVE  Told'
<1>1. UNCHANGED <<blocks, badBlocks, transients, clears, retries>>
  BY OthersRestFacts
<1>2. /\ m_readySet' \subseteq m_readySet /\ m_knownBad \subseteq m_knownBad'
      /\ UNCHANGED <<m_unknownSet, chain>>
  BY DEF TakeJob, VerifyThrows, VerifyReturns, OnReady, drainVerified, setVars
<1>3. Undisturbed' => Undisturbed
  BY <1>1, <1>2, UndisturbedFacts
<1> QED BY <1>1, <1>2, <1>3, ToldRests

\* The rest.
LEMMA ToldRestsAll ==
  ASSUME Told,
         \/ TakeFlag \/ RoomAvailable \/ AssignFlag \/ NoTick \/ Tick \/ Drained
         \/ StopNotify \/ StopJoin \/ Stop \/ PauseSync \/ AdvanceClock \/ UNCHANGED vars
         \/ (Updated /\ OthersRest)
  PROVE  Told'
<1>1. UNCHANGED <<setVars, chain, blocks, badBlocks, boundVars>>
  <2>1. CASE TakeFlag \/ RoomAvailable \/ AssignFlag \/ NoTick \/ Tick \/ Drained
    BY <2>1 DEF TakeFlag, RoomAvailable, AssignFlag, NoTick, Tick, tick, Drained, Updated, bqVars
  <2>2. CASE StopNotify \/ StopJoin \/ Stop \/ PauseSync \/ AdvanceClock
    BY <2>2 DEF StopNotify, NotifyDeleting, StopJoin, Stop, SetDeleting, PauseSync, AdvanceClock,
                bqVars, clientVars
  <2>3. CASE (Updated /\ OthersRest) \/ UNCHANGED vars
    BY <2>3 DEF Updated, OthersRest, vars, bqVars, clientVars
  <2> QED BY <2>1, <2>2, <2>3
<1>2. /\ UNCHANGED <<m_readySet, m_unknownSet, m_knownBad, chain, blocks, badBlocks>>
      /\ UNCHANGED <<transients, clears, retries>>
  BY <1>1 DEF setVars, boundVars
<1>3. Undisturbed' => Undisturbed
  BY <1>2, UndisturbedFacts
<1> QED BY <1>2, <1>3, ToldRests

\* retryAllUnknown(): the order is disturbed from then on.
LEMMA ToldRetryUnknown ==
  ASSUME Told, IInv, RetryUnknown
  PROVE  Told'
<1>1. /\ UNCHANGED <<m_readySet, m_unknownSet, m_knownBad, chain, blocks, badBlocks>>
      /\ UNCHANGED <<transients, clears>> /\ retries' = retries + 1 /\ retries \in Nat
  BY ImportAssumption DEF RetryUnknown, RetryAllUnknown, setVars, clientVars, IInv, TypeOK
<1>2. ~Undisturbed'
  <2>1. retries' # 0
    BY <1>1
  <2> QED BY <2>1 DEF Undisturbed
<1> QED BY <1>1, <1>2, ToldRests

\* At first there is nothing.
LEMMA ToldInit == Init => Told
<1> SUFFICES ASSUME Init PROVE Told
  OBVIOUS
<1>1. blocks = <<>> /\ badBlocks = <<>> /\ m_readySet = {} /\ m_unknownSet = {} /\ chain = {}
  BY DEF Init, BQInit
<1>2. RangeOf(blocks) = {} /\ RangeOf(badBlocks) = {} /\ Injective(blocks)
  BY <1>1, EmptyFacts
<1> QED BY <1>1, <1>2 DEF Told, ImportedOnce, FailuresTold

\* Every step keeps it.
LEMMA ToldNext == IInv /\ Order /\ Told /\ [Next]_vars => Told'
<1> SUFFICES ASSUME IInv, Order, Told, [Next]_vars PROVE Told'
  OBVIOUS
<1>1. CASE ClientStep
  <2>1. CASE TickImport
    <3>1. /\ todo # <<>> /\ import(Head(todo), FALSE)
          /\ UNCHANGED <<blocks, badBlocks, transients, clears, retries>>
      BY <2>1 DEF TickImport, boundVars
    <3>2. Head(todo) \in Blocks
      <4>1. todo \in Seq(Blocks)
        BY DEF IInv, TypeOK
      <4> QED BY <3>1, <4>1
    <3> QED BY <3>1, <3>2, ToldImport
  <2> QED BY <1>1, <2>1, ToldRestsAll, ToldDrain, ToldImportNext, ToldDoneDrain DEF ClientStep
<1>2. CASE LockedStep
  BY <1>2, ToldLocked, ToldRestsAll DEF LockedStep, OthersRest
<1>3. CASE StopStep \/ Stop
  BY <1>3, ToldRestsAll DEF StopStep
<1>4. CASE \E v \in Verifiers : Verifier(v)
  BY <1>4, ToldVerifier DEF Verifier, OthersRest
<1>5. CASE \E b \in Blocks, isOurs \in BOOLEAN : Arrive(b, isOurs)
  <2>1. PICK b \in Blocks, isOurs \in BOOLEAN : Arrive(b, isOurs)
    BY <1>5
  <2>2. import(b, isOurs) /\ UNCHANGED <<blocks, badBlocks, transients, clears, retries>>
    BY <2>1 DEF Arrive, clientVars, boundVars
  <2> QED BY <2>2, ToldImport
<1>6. CASE PauseSync \/ Clear \/ RetryUnknown \/ AdvanceClock
  BY <1>6, ToldRestsAll, ToldClear, ToldRetryUnknown
<1>7. CASE UNCHANGED vars
  BY <1>7, ToldRestsAll
<1> QED BY <1>1, <1>2, <1>3, <1>4, <1>5, <1>6, <1>7 DEF Next

\* The state in which a step of the queue is one of BlockStatus.
Calm == /\ IInv /\ Order /\ Told /\ Undisturbed /\ clears = 0
        /\ m_knownBad = {}

\* A step of the abstract queue, or none.
StatusStep == [Status!Next]_(Status!vars)

\* The statuses of BlockStatus are the four sets of BlockQueue.
LEMMA StatusNow ==
  ASSUME Calm
  PROVE  /\ Status!With("Ready") = m_readySet /\ Status!With("Importing") = m_drainingSet
         /\ Status!With("UnknownParent") = m_unknownSet /\ Status!With("Bad") = {}
         /\ \A b \in Blocks : b \notin m_readySet \cup m_drainingSet \cup m_unknownSet
                                => b \in Status!With("Unknown")
         /\ \A h : Status!InChain(h) <=> isKnown(h)
         /\ m_readySet \subseteq Blocks /\ m_drainingSet \subseteq Blocks
         /\ m_unknownSet \subseteq Blocks
<1>1. /\ m_readySet \subseteq Blocks /\ m_drainingSet \subseteq Blocks
      /\ m_unknownSet \subseteq Blocks /\ m_knownBad = {}
  BY DEF Calm, IInv, TypeOK, BQTypeOK
<1>2. /\ m_readySet \cap m_drainingSet = {} /\ m_readySet \cap m_unknownSet = {}
      /\ m_drainingSet \cap m_unknownSet = {}
  BY SoundFacts DEF Calm, IInv, OneFate
<1>3. \A b \in Blocks : /\ b \in m_readySet <=> blockStatus(b) = "Ready"
                        /\ b \in m_drainingSet <=> blockStatus(b) = "Importing"
                        /\ b \in m_unknownSet <=> blockStatus(b) = "UnknownParent"
                        /\ blockStatus(b) # "Bad"
                        /\ b \notin m_readySet \cup m_drainingSet \cup m_unknownSet
                                => blockStatus(b) = "Unknown"
  BY <1>1, <1>2 DEF blockStatus
<1>4. \A h : Status!InChain(h) <=> isKnown(h)
  BY DEF Status!InChain, isKnown
<1> QED BY <1>1, <1>3, <1>4 DEF Status!With

\* A change of some blocks' status.
LEMMA Became ==
  ASSUME NEW S, NEW s,
         \A b \in Blocks : blockStatus(b)' = IF b \in S THEN s ELSE blockStatus(b)
  PROVE  Status!Become(S, s)
  BY DEF Status!Become

\* The sets and the chain rest.
LEMMA StatusRests ==
  ASSUME UNCHANGED <<m_readySet, m_drainingSet, m_unknownSet, m_knownBad, chain>>
  PROVE  StatusStep
<1>1. \A b \in Blocks : blockStatus(b)' = blockStatus(b)
  BY DEF blockStatus
<1>2. UNCHANGED Status!vars
  BY <1>1 DEF Status!vars
<1> QED BY <1>2 DEF StatusStep

\* import() accepts the block or defers it.
LEMMA StatusImport ==
  ASSUME Calm, NEW b \in Blocks, NEW isOurs \in BOOLEAN, import(b, isOurs)
  PROVE  StatusStep
<1>1. UNCHANGED chain
  BY DEF import
<1>2. CASE UNCHANGED setVars
  BY <1>1, <1>2, StatusRests DEF setVars
<1>3. ASSUME ~AlreadyKnown(b), ~isKnown(b), ParentKnown(b), QueueReady(b)
      PROVE  StatusStep
  <2>1. /\ m_readySet' = m_readySet \cup {b}
        /\ UNCHANGED <<m_drainingSet, m_unknownSet, m_knownBad>>
    BY <1>3 DEF QueueReady
  <2>2. \A x \in Blocks : blockStatus(x)' = IF x \in {b} THEN "Ready" ELSE blockStatus(x)
    BY <2>1 DEF blockStatus
  <2>3. Status!Become({b}, "Ready")
    <3> DEFINE S == {b}
    <3>1. \A x \in Blocks : blockStatus(x)' = IF x \in S THEN "Ready" ELSE blockStatus(x)
      BY <2>2
    <3> HIDE DEF S
    <3>2. Status!Become(S, "Ready")
      BY <3>1, Became
    <3> QED BY <3>2 DEF S
  <2>4. b \in Status!With("Unknown") /\ ~Status!InChain(b)
    BY <1>3, StatusNow DEF AlreadyKnown
  <2>5. Status!OnItsWay(Parent[b])
    BY <1>3, StatusNow DEF ParentKnown, Status!OnItsWay
  <2>6. Status!Accept(b)
    BY <1>1, <2>3, <2>4, <2>5 DEF Status!Accept
  <2> QED BY <2>6 DEF StatusStep, Status!Next
<1>4. ASSUME ~AlreadyKnown(b), ~ParentKnown(b), QueueUnknown(b)
      PROVE  StatusStep
  <2>1. /\ m_unknownSet' = m_unknownSet \cup {b}
        /\ UNCHANGED <<m_drainingSet, m_readySet, m_knownBad>>
    BY <1>4 DEF QueueUnknown
  <2>2. \A x \in Blocks : blockStatus(x)' = IF x \in {b} THEN "UnknownParent" ELSE blockStatus(x)
    BY <1>4, <2>1 DEF blockStatus, AlreadyKnown
  <2>3. Status!Become({b}, "UnknownParent")
    <3> DEFINE S == {b}
    <3>1. \A x \in Blocks : blockStatus(x)' = IF x \in S THEN "UnknownParent" ELSE blockStatus(x)
      BY <2>2
    <3> HIDE DEF S
    <3>2. Status!Become(S, "UnknownParent")
      BY <3>1, Became
    <3> QED BY <3>2 DEF S
  <2>4. b \in Status!With("Unknown")
    BY <1>4, StatusNow DEF AlreadyKnown
  <2>5. ~Status!OnItsWay(Parent[b]) /\ Parent[b] \notin Status!With("Bad")
    BY <1>4, StatusNow DEF ParentKnown, Status!OnItsWay
  <2>6. Status!Defer(b)
    BY <1>1, <2>3, <2>4, <2>5 DEF Status!Defer
  <2> QED BY <2>6 DEF StatusStep, Status!Next
<1> QED BY <1>2, <1>3, <1>4 DEF import, QueueForFuture, Calm

\* noteReady_WITH_LOCK releases the blocks that wait for a ready one.
LEMMA StatusNoteReady ==
  ASSUME Calm, NoteReady
  PROVE  StatusStep
<1> DEFINE p == Head(goodQueue)
           S == RangeOf(m_unknown[p])
<1>1. /\ m_lock = "noteReady" /\ m_unknownSet' = m_unknownSet \ S
      /\ m_readySet' = m_readySet \cup S
      /\ UNCHANGED <<m_drainingSet, m_knownBad, chain>>
  BY DEF NoteReady, ReleaseUnknown, NewReady
<1>2. BQTypeOK /\ QueuesSound /\ RangeOf(goodQueue) \subseteq m_readySet
  BY OrderFacts DEF Calm, Order, IInv, TypeOK
<1>3. goodQueue # <<>> /\ goodQueue \in Seq(Blocks)
  BY <1>1, <1>2 DEF BQTypeOK
<1>4. p \in m_readySet /\ p \in Blocks /\ p \in Hashes
  BY <1>2, <1>3, TailFacts, HashFacts
<1>5. S = {b \in m_unknownSet : Parent[b] = p}
  <2>1. Waits(BadView)
    BY <1>2, SoundFacts
  <2>2. ParentLists(m_unknown) /\ m_unknownSet = WaitersOf(m_unknown)
    BY <2>1 DEF Waits, BadView
  <2> QED BY <1>4, <2>2 DEF ParentLists, WaitersOf
<1> HIDE DEF p, S
<1>6. m_unknownSet \cap (m_readySet \cup m_drainingSet) = {}
  BY <1>2, SoundFacts DEF Calm, IInv, OneFate
<1>7. \A b \in Blocks : blockStatus(b)' = IF b \in S THEN "Ready" ELSE blockStatus(b)
  BY <1>1, <1>5, <1>6 DEF blockStatus
<1>8. Status!Become(S, "Ready")
  BY <1>7, Became
<1>9. S = {b \in Status!With("UnknownParent") : Parent[b] = p} /\ p \in Status!With("Ready")
  BY <1>4, <1>5, StatusNow
<1>10. Status!Release(p)
  BY <1>1, <1>8, <1>9 DEF Status!Release
<1> QED BY <1>4, <1>10 DEF StatusStep, Status!Next

\* What drainVerified drops has a bad parent, or one dropped with it.
LEMMA DroppedForParent ==
  ASSUME NEW js, NEW known, NEW ready, drainVerified(js, known, ready)
  PROVE  \A b \in m_knownBad' : b \in known \/ Parent[b] \in m_knownBad'
<1> DEFINE F == 1..DonePrefix(js)
           bad == BadPrefix(js, known)
           calls(k, I) == \/ Parent[js[k].hash] \in known
                          \/ \E j \in I : j < k /\ js[j].hash = Parent[js[k].hash]
           closed(I) == \A k \in F : calls(k, I) => k \in I
           told == {k \in bad : calls(k, bad)}
           out == [k \in F |-> js[k].hash]
<1>1. bad = {k \in F : \A I \in SUBSET F : closed(I) => k \in I}
  BY DEF BadPrefix
<1>2. m_knownBad' = known \cup {out[k] : k \in bad}
  BY DEF drainVerified
<1> HIDE DEF F, bad
<1>3. \A k \in F : calls(k, told) => k \in bad
  <2> SUFFICES ASSUME NEW k \in F, calls(k, told), NEW I \in SUBSET F, closed(I) PROVE k \in I
    BY <1>1
  <2>1. told \subseteq I
    BY <1>1
  <2>2. calls(k, I)
    BY <2>1
  <2> QED BY <2>2
<1>4. \A k \in F : calls(k, told) => calls(k, bad)
  OBVIOUS
<1>5. closed(told)
  BY <1>3, <1>4
<1>6. bad \subseteq told
  <2>1. told \in SUBSET F
    BY <1>1
  <2> HIDE DEF closed, told
  <2> QED BY <1>1, <1>5, <2>1
<1>7. bad \subseteq F
  BY <1>1
<1>8. \A k \in bad : out[k] = js[k].hash
  BY <1>7
<1>9. ASSUME NEW k \in bad PROVE Parent[out[k]] \in m_knownBad'
  <2>1. calls(k, bad)
    BY <1>6, <1>9
  <2>2. \/ Parent[out[k]] \in known
        \/ \E j \in bad : out[j] = Parent[out[k]]
    BY <1>8, <2>1
  <2> HIDE DEF out
  <2> QED BY <1>2, <1>9, <2>2
<1> QED BY <1>2, <1>9

\* A verification throws: the block is condemned with the finished jobs behind it that
\* descend from it.
LEMMA StatusVerifyThrows ==
  ASSUME Calm, IInv', NEW v \in Verifiers, VerifyThrows(v), UNCHANGED clears
  PROVE  StatusStep
<1> DEFINE h == verifierWork[v]
           js == Without(m_verifying, {Job(h, FALSE)})
           S == m_knownBad'
<1>1. /\ h \in Invalid /\ drainVerified(js, {h}, m_readySet \ {h})
      /\ UNCHANGED <<m_drainingSet, m_unknownSet, chain>>
  <2>1. m_knownBad \cup {h} = {h}
    BY DEF Calm
  <2>2. /\ h \in Invalid /\ drainVerified(js, m_knownBad \cup {h}, m_readySet \ {h})
        /\ UNCHANGED <<m_drainingSet, m_unknownSet, chain>>
    BY DEF VerifyThrows
  <2> HIDE DEF h, js
  <2> QED BY <2>1, <2>2
<1>2. /\ BQTypeOK /\ QueuesSound /\ h \in Blocks
  BY <1>1, BlocksAssumption DEF Calm, IInv, TypeOK
<1>3. /\ m_verifying \in Seq(JobSet) /\ HashOnce(m_verifying) /\ m_verified \in Seq(Blocks)
      /\ Injective(m_verified) /\ RangeOf(m_verified) \cap HashesOf(m_verifying) = {}
      /\ FinishedIn(BadView) \subseteq m_readySet
  BY <1>2, SoundFacts DEF BQTypeOK
<1>4. h \in m_readySet
  BY <1>1 DEF Calm, IInv, OneFate
<1>5. js \in Seq(JobSet) /\ HashOnce(js) /\ RangeOf(js) \subseteq RangeOf(m_verifying)
  <2> HIDE DEF h
  <2>1. RangeOf(js) = RangeOf(m_verifying) \ {Job(h, FALSE)} /\ js \in Seq(JobSet) /\ HashOnce(js)
    BY <1>2, <1>3, ThrowFacts
  <2> QED BY <2>1
<1> HIDE DEF js, h
<1>6. RangeOf(m_verified) \cap HashesOf(js) = {}
  BY <1>3, <1>5 DEF HashesOf
<1>7. PICK F, D \in SUBSET Blocks : Drains(js, {h}, m_readySet \ {h}, F, D)
  <2> DEFINE known == {h}
             ready == m_readySet \ {h}
  <2>1. drainVerified(js, known, ready)
    BY <1>1
  <2> HIDE DEF known, ready
  <2>2. \E F, D \in SUBSET Blocks : Drains(js, known, ready, F, D)
    BY <1>3, <1>5, <1>6, <2>1, DrainVerifiedFacts
  <2> QED BY <2>2 DEF known, ready
<1>8. /\ S = {h} \cup D /\ m_readySet' = (m_readySet \ {h}) \ D /\ D \subseteq F
      /\ F \subseteq {e.hash : e \in {x \in RangeOf(js) : x.done}}
  BY <1>7 DEF Drains
<1>9. F \subseteq m_readySet
  BY <1>3, <1>5, <1>8 DEF FinishedIn, BadView
<1> HIDE DEF S
<1>10. S # {} /\ S \subseteq m_readySet /\ m_readySet' = m_readySet \ S /\ h \in S
  BY <1>4, <1>8, <1>9
<1>11. /\ m_readySet \cap (m_drainingSet \cup m_unknownSet \cup chain) = {}
       /\ m_knownBad = {}
  BY <1>2, SoundFacts DEF Calm, IInv, OneFate, Told, ImportedOnce
<1>12. \A b \in Blocks : blockStatus(b)' = IF b \in S THEN "Bad" ELSE blockStatus(b)
  <2>1. m_knownBad' = S
    BY DEF S
  <2> QED BY <1>1, <1>10, <1>11, <2>1 DEF blockStatus
<1>13. Status!Become(S, "Bad")
  BY <1>12, Became
<1>14. Status!Guilty(S)
  <2>1. \A b \in S : b \in {h} \/ Parent[b] \in S
    BY <1>1, DroppedForParent DEF S
  <2> QED BY <1>1, <2>1 DEF Status!Guilty
<1>15. S \cap (Status!With("Importing") \cup Status!With("Bad") \cup chain) = {}
  BY <1>10, <1>11, StatusNow
<1>16. S \in SUBSET Blocks
  BY <1>10, StatusNow
<1>17. Status!Condemn(S)
  BY <1>1, <1>10, <1>13, <1>14, <1>15 DEF Status!Condemn
<1> QED BY <1>16, <1>17 DEF StatusStep, Status!Next

\* drain() takes a batch, parents first.
LEMMA StatusDrain ==
  ASSUME Calm, IInv', Order', Drain
  PROVE  StatusStep
<1> DEFINE out == drainOut(m_syncAmount)
<1>1. /\ blocks' = out /\ badBlocks' = <<>>
      /\ \/ /\ m_drainingSet = {} /\ m_drainingSet' = RangeOf(out)
            /\ m_readySet' = m_readySet \ RangeOf(out) /\ m_lock = "free"
         \/ UNCHANGED <<m_drainingSet, m_readySet>>
      /\ UNCHANGED <<m_unknownSet, m_knownBad, chain, transients, retries>>
  BY DEF Drain, drain, boundVars
<1>2. BQTypeOK
  BY DEF Calm, IInv, TypeOK
<1>3. CASE UNCHANGED <<m_drainingSet, m_readySet>>
  BY <1>1, <1>3, StatusRests
<1>4. CASE /\ m_drainingSet = {} /\ m_drainingSet' = RangeOf(out)
           /\ m_readySet' = m_readySet \ RangeOf(out) /\ m_lock = "free"
  <2> DEFINE S == RangeOf(out)
  <2>1. S \subseteq m_readySet
    <3>1. \E k \in 0..Len(m_verified) : out = SubSeq(m_verified, 1, k)
      BY <1>2, <1>4, DrainOutFacts, ImportAssumption DEF out
    <3>2. PICK k \in 0..Len(m_verified) : out = SubSeq(m_verified, 1, k)
      BY <3>1
    <3>3. m_verified \in Seq(Blocks)
      BY <1>2 DEF BQTypeOK
    <3> DEFINE back == SubSeq(m_verified, k + 1, Len(m_verified))
    <3>4. RangeOf(m_verified) = RangeOf(out) \cup RangeOf(back)
      BY <3>2, <3>3, SplitFacts
    <3> HIDE DEF out, back
    <3>5. RangeOf(m_verified) \subseteq m_readySet
      BY OrderFacts DEF Calm, Order, QueuedIn, BadView
    <3> QED BY <3>4, <3>5
  <2> HIDE DEF out
  <2>2. CASE S = {}
    <3>1. UNCHANGED <<m_drainingSet, m_readySet>>
      BY <1>4, <2>2
    <3> QED BY <1>1, <3>1, StatusRests
  <2>3. CASE S # {}
    <3>1. \A b \in Blocks : blockStatus(b)' = IF b \in S THEN "Importing" ELSE blockStatus(b)
      BY <1>1, <1>4, <2>1 DEF blockStatus
    <3>2. ASSUME NEW b \in S, Parent[b] \in m_readySet PROVE Parent[b] \in S
      <4>1. Undisturbed'
        BY <1>1 DEF Calm, Undisturbed
      <4>2. OrderedIn(Way', Excused')
        BY <4>1, WayNow DEF Order, OrderKept
      <4>3. OrderedIn(blocks', Excused')
        <5> DEFINE bs == blocks'
                   vs == m_verified'
                   js == m_verifying'
                   us == m_unverified'
                   K == Excused'
        <5>1. /\ bs \in Seq(Blocks) /\ vs \in Seq(Blocks) /\ js \in Seq(JobSet)
              /\ us \in Seq(Blocks)
          BY DEF IInv, TypeOK, BQTypeOK
        <5>2. OrderedIn(WayOf(bs, vs, js, us), K)
          BY <4>2, WayNow
        <5> HIDE DEF bs, vs, js, us, K
        <5> DEFINE t == Cat(Cat(vs, HashSeq(js)), us)
        <5>3. t \in Seq(Blocks)
          BY <5>1, HashSeqFacts, CatFacts
        <5>4. WayOf(bs, vs, js, us) = bs \o t
          BY DEF WayOf, Cat
        <5> HIDE DEF t
        <5>5. OrderedIn(bs, K)
          BY <5>1, <5>2, <5>3, <5>4, OrderedFront
        <5> QED BY <5>5 DEF bs, K
      <4>5. OrderedIn(out, chain \cup {Genesis})
        <5>1. Excused' = chain \cup {Genesis}
          BY <1>1, EmptyFacts DEF Excused, Calm
        <5> QED BY <1>1, <4>3, <5>1
      <4>6. PICK i \in DOMAIN out : out[i] = b
        BY <3>2 DEF RangeOf
      <4>7. Parent[b] \notin chain \cup {Genesis}
        BY <3>2, StatusNow, BlocksAssumption DEF Calm, Told, ImportedOnce
      <4>8. PICK j \in 1..(i - 1) : out[j] = Parent[out[i]]
        BY <4>5, <4>6, <4>7 DEF OrderedIn
      <4>9. out \in Seq(Blocks)
        BY <1>1 DEF IInv, TypeOK
      <4>10. j \in DOMAIN out
        BY <4>6, <4>8, <4>9
      <4> QED BY <4>6, <4>8, <4>10 DEF RangeOf
    <3> HIDE DEF S
    <3>3. Status!Become(S, "Importing")
      BY <3>1, Became
    <3>4. /\ S \subseteq Status!With("Ready") /\ Status!With("Importing") = {}
          /\ \A b \in S : Parent[b] \in Status!With("Ready") => Parent[b] \in S
      BY <1>4, <2>1, <3>2, StatusNow
    <3>5. Status!Take(S) /\ S \in SUBSET Blocks
      BY <1>1, <2>1, <2>3, <3>3, <3>4, StatusNow DEF Status!Take
    <3> QED BY <3>5 DEF StatusStep, Status!Next
  <2> QED BY <2>2, <2>3
<1> QED BY <1>1, <1>3, <1>4

\* A block enters the chain after its parent.
LEMMA StatusImportNext ==
  ASSUME Calm, ImportNext
  PROVE  StatusStep
<1>1. UNCHANGED <<m_readySet, m_drainingSet, m_unknownSet, m_knownBad>>
  BY DEF ImportNext, AlreadyHaveBlock, UnknownParent, FutureTime, TransientError, BadBlock,
         GoodBlock, NextBlock, setVars
<1>2. CASE UNCHANGED chain
  BY <1>1, <1>2, StatusRests
<1>3. CASE GoodBlock
  <2> DEFINE x == Head(blocks)
  <2>1. /\ blocks # <<>> /\ Importable(x) /\ x \notin InvalidState /\ chain' = chain \cup {x}
    BY <1>3 DEF GoodBlock
  <2>2. blocks \in Seq(Blocks)
    BY DEF Calm, IInv, TypeOK
  <2>3. x \in RangeOf(blocks) /\ x \in Blocks
    BY <2>1, <2>2, TailFacts
  <2> HIDE DEF x
  <2>4. x \in m_drainingSet /\ x \notin Invalid
    BY <2>3 DEF Calm, IInv, OneFate, Told, ImportedOnce
  <2>5. ~Status!InChain(x) /\ Status!InChain(Parent[x])
    BY <2>1, StatusNow DEF Importable
  <2>6. UNCHANGED [b \in Blocks |-> blockStatus(b)]
    <3>1. \A b \in Blocks : blockStatus(b)' = blockStatus(b)
      BY <1>1 DEF blockStatus
    <3> QED BY <3>1
  <2>7. x \in Status!With("Importing") \ (Invalid \cup InvalidState)
    BY <2>1, <2>4, StatusNow
  <2>8. Status!Enter(x)
    BY <2>1, <2>5, <2>6, <2>7 DEF Status!Enter
  <2> QED BY <2>3, <2>8 DEF StatusStep, Status!Next
<1> QED BY <1>2, <1>3 DEF ImportNext, AlreadyHaveBlock, UnknownParent, FutureTime,
                          TransientError, BadBlock

\* doneDrain() finishes the batch.
LEMMA StatusDoneDrain ==
  ASSUME Calm, DoneDrain
  PROVE  StatusStep
<1> DEFINE S == RangeOf(badBlocks)
<1>1. /\ blocks = <<>> /\ m_drainingSet' = {} /\ m_knownBad' = S
      /\ UNCHANGED <<m_readySet, m_unknownSet, chain>>
  <2>1. m_knownBad' = m_knownBad \cup S
    BY DEF DoneDrain, doneDrain
  <2>2. m_knownBad = {}
    BY DEF Calm
  <2> HIDE DEF S
  <2> QED BY <2>1, <2>2 DEF DoneDrain, doneDrain
<1>2. /\ m_readySet \cap m_drainingSet = {} /\ m_drainingSet \cap m_unknownSet = {}
      /\ m_knownBad = {} /\ S \subseteq m_drainingSet
  BY DEF Calm, IInv, OneFate
<1>3. m_drainingSet \subseteq chain \cup S
  BY <1>1, EmptyFacts DEF Calm, Order, OrderKept
<1>4. S \cap chain = {} /\ \A b \in S : b \in InvalidState \/ Parent[b] \in S
  BY DEF Calm, Told, ImportedOnce, FailuresTold
<1> HIDE DEF S
<1>5. CASE m_drainingSet = {}
  <2>1. S = {}
    BY <1>2, <1>5
  <2> QED BY <1>1, <1>2, <1>5, <2>1, StatusRests
<1>6. CASE m_drainingSet # {}
  <2>1. \A b \in Blocks : blockStatus(b)' = CASE b \in S -> "Bad"
                                              [] b \in m_drainingSet \ S -> "Unknown"
                                              [] OTHER -> blockStatus(b)
    BY <1>1, <1>2 DEF blockStatus
  <2>2. \A b \in Blocks : blockStatus(b)' =
            CASE b \in S -> "Bad"
              [] b \in Status!With("Importing") \ S -> "Unknown"
              [] OTHER -> blockStatus(b)
    BY <2>1, StatusNow
  <2>3. S \cap (Status!With("Bad") \cup chain) = {} /\ Status!Guilty(S)
    BY <1>4, StatusNow DEF Status!Guilty
  <2>4. Status!With("Importing") # {} /\ Status!With("Importing") \ S \subseteq chain
    BY <1>3, <1>6, StatusNow
  <2>5. Status!Finish(S)
    BY <1>1, <2>2, <2>3, <2>4 DEF Status!Finish
  <2>6. S \in SUBSET Blocks
    BY <1>2, StatusNow
  <2> QED BY <2>5, <2>6 DEF StatusStep, Status!Next
<1> QED BY <1>5, <1>6

\* A verification returns: nothing is bad, so what is finished stays ready.
LEMMA StatusVerifyReturns ==
  ASSUME Calm, NEW v \in Verifiers, VerifyReturns(v)
  PROVE  StatusStep
<1> DEFINE h == verifierWork[v]
           js == Marked(h)
<1>1. /\ \/ drainVerified(js, m_knownBad, m_readySet)
         \/ UNCHANGED <<m_readySet, m_knownBad>>
      /\ UNCHANGED <<m_drainingSet, m_unknownSet, chain>>
  BY DEF VerifyReturns, Marked
<1> HIDE DEF js
<1>2. CASE UNCHANGED <<m_readySet, m_knownBad>>
  BY <1>1, <1>2, StatusRests
<1>3. CASE drainVerified(js, m_knownBad, m_readySet)
  <2>1. BadPrefix(js, m_knownBad) = {}
    <3> DEFINE F == 1..DonePrefix(js)
               closed(I) == \A k \in F : (\/ Parent[js[k].hash] \in {}
                                          \/ \E j \in I : j < k /\ js[j].hash = Parent[js[k].hash])
                                         => k \in I
    <3>1. BadPrefix(js, {}) = {k \in F : \A I \in SUBSET F : closed(I) => k \in I}
      BY DEF BadPrefix
    <3>2. closed({})
      OBVIOUS
    <3>3. BadPrefix(js, {}) = {}
      <4> HIDE DEF closed, F
      <4> QED BY <3>1, <3>2
    <3> QED BY <3>3 DEF Calm
  <2>2. m_knownBad' = m_knownBad /\ m_readySet' = m_readySet
    BY <1>3, <2>1 DEF drainVerified
  <2> QED BY <1>1, <2>2, StatusRests
<1> QED BY <1>1, <1>2, <1>3
\* The verifiers.
LEMMA StatusVerifier ==
  ASSUME Calm, IInv', OthersRest, NEW v \in Verifiers,
         TakeJob(v) \/ VerifyThrows(v) \/ VerifyReturns(v) \/ OnReady(v)
  PROVE  StatusStep
<1>1. CASE TakeJob(v) \/ OnReady(v)
  <2>1. UNCHANGED <<m_readySet, m_drainingSet, m_unknownSet, m_knownBad, chain>>
    BY <1>1 DEF TakeJob, OnReady, setVars
  <2> QED BY <2>1, StatusRests
<1>2. UNCHANGED clears
  BY OthersRestFacts
<1> QED BY <1>1, <1>2, StatusVerifyThrows, StatusVerifyReturns

\* In an undisturbed queue only import() holds the lock over its steps.
LEMMA LocksAreFree ==
  ASSUME IInv, Order, Undisturbed
  PROVE  m_lock # "retryAllUnknown" /\ m_lock \notin {"updateBad", "moreBad"}
<1>1. m_lock = "retryAllUnknown" => retries # 0
  BY DEF Order, RetryTells
<1>2. m_lock \in {"updateBad", "moreBad"} => m_knownBad # {}
  <2>1. CASE m_lock = "updateBad"
    <3>1. badLeft # <<>> /\ badLeft \in Seq(Blocks)
      BY <2>1 DEF IInv, TypeOK, BQTypeOK
    <3>2. Head(badLeft) \in RangeOf(badLeft)
      BY <3>1, TailFacts
    <3> QED BY <3>2 DEF IInv, LockTells
  <2> QED BY <2>1 DEF IInv, LockTells
<1> QED BY <1>1, <1>2 DEF Undisturbed

\* The threads that hold the lock: in an undisturbed queue only import() does.
LEMMA StatusLocked ==
  ASSUME Calm, LockedStep
  PROVE  StatusStep
<1>1. m_lock # "retryAllUnknown" /\ m_lock \notin {"updateBad", "moreBad"}
  BY LocksAreFree DEF Calm
<1>2. NoteReady \/ Updated
  BY <1>1 DEF LockedStep, RetryStep, CollectBad, MoreBad
<1>3. CASE Updated
  <2>1. UNCHANGED <<m_readySet, m_drainingSet, m_unknownSet, m_knownBad, chain>>
    BY <1>3 DEF Updated, setVars
  <2> QED BY <2>1, StatusRests
<1> QED BY <1>2, <1>3, StatusNoteReady

\* Steps that move no block.
LEMMA StatusRestsAll ==
  ASSUME \/ TakeFlag \/ RoomAvailable \/ AssignFlag \/ NoTick \/ Tick \/ Drained
         \/ StopNotify \/ StopJoin \/ Stop \/ PauseSync \/ AdvanceClock \/ RetryUnknown
         \/ UNCHANGED vars
  PROVE  StatusStep
<1>1. UNCHANGED <<setVars, chain>>
  <2>1. CASE TakeFlag \/ RoomAvailable \/ AssignFlag \/ NoTick \/ Tick \/ Drained
    BY <2>1 DEF TakeFlag, RoomAvailable, AssignFlag, NoTick, Tick, tick, Drained, Updated, bqVars
  <2>2. CASE StopNotify \/ StopJoin \/ Stop \/ PauseSync \/ AdvanceClock
    BY <2>2 DEF StopNotify, NotifyDeleting, StopJoin, Stop, SetDeleting, PauseSync, AdvanceClock,
                bqVars, clientVars
  <2>3. CASE RetryUnknown \/ UNCHANGED vars
    BY <2>3 DEF RetryUnknown, RetryAllUnknown, vars, bqVars
  <2> QED BY <2>1, <2>2, <2>3
<1>2. UNCHANGED <<m_readySet, m_drainingSet, m_unknownSet, m_knownBad, chain>>
  BY <1>1 DEF setVars
<1> QED BY <1>2, StatusRests

\* Every step that starts undisturbed is one of BlockStatus.
LEMMA StatusNext ==
  ASSUME IInv, Order, Told, IInv', Order', Undisturbed, clears' = 0, [Next]_vars
  PROVE  StatusStep
<1>1. CASE Clear
  <2>1. clears' # 0
    BY <1>1, ImportAssumption DEF Clear, IInv, TypeOK
  <2> QED BY <2>1
<1>2. CASE ~Clear
  <2>1. UNCHANGED clears
    BY <1>2, OthersRestFacts
       DEF Next, ClientStep, TakeFlag, Drain, RoomAvailable, ImportNext, AlreadyHaveBlock,
           UnknownParent, FutureTime, TransientError, BadBlock, GoodBlock, NextBlock, DoneDrain,
           Drained, AssignFlag, NoTick, Tick, TickImport, LockedStep, StopStep, StopNotify,
           StopJoin, Stop, Verifier, Arrive, PauseSync, RetryUnknown, AdvanceClock, boundVars, vars
  <2>2. Calm
    BY <2>1 DEF Calm, Undisturbed
  <2>3. CASE ClientStep
    <3>1. CASE TickImport
      <4>1. todo # <<>> /\ import(Head(todo), FALSE)
        BY <3>1 DEF TickImport
      <4>2. todo \in Seq(Blocks)
        BY DEF IInv, TypeOK
      <4>3. Head(todo) \in Blocks
        BY <4>1, <4>2
      <4> QED BY <2>2, <4>1, <4>3, StatusImport
    <3> QED BY <2>2, <2>3, <3>1, StatusDrain, StatusImportNext, StatusDoneDrain, StatusRestsAll
            DEF ClientStep
  <2>4. CASE \E v \in Verifiers : Verifier(v)
    BY <2>2, <2>4, StatusVerifier DEF Verifier, OthersRest
  <2>5. CASE \E b \in Blocks, isOurs \in BOOLEAN : Arrive(b, isOurs)
    BY <2>2, <2>5, StatusImport DEF Arrive
  <2> QED BY <1>2, <2>2, <2>3, <2>4, <2>5, StatusLocked, StatusRestsAll DEF Next, StopStep
<1> QED BY <1>1, <1>2

\* BlockQueue keeps the promises of QueueStatus (BlockQueue.h:59, BlockStatus): for any
\* number of blocks and verifiers, every step that starts with nothing disturbed, the first
\* one at which a block fails included, accepts, defers, releases, condemns, takes, imports
\* or finishes blocks as BlockStatus allows, or leaves their statuses and the chain alone.
THEOREM StatusIsKept ==
    Spec => Status!Init /\ [][Undisturbed /\ clears' = 0 => [Status!Next]_(Status!vars)]_vars
<1>1. Init => Status!Init
  BY DEF Init, BQInit, Status!Init, blockStatus
<1>2. Spec => [](IInv /\ Order /\ Told)
  <2>1. IInv /\ IInv' /\ Order /\ Told /\ [Next]_vars => Order' /\ Told'
    BY OrderNext, ToldNext
  <2> QED BY <2>1, Invariant, OrderInit, ToldInit, PTL DEF Spec
<1>3. IInv /\ Order /\ Told /\ IInv' /\ Order' /\ Told' /\ [Next]_vars
          => [Undisturbed /\ clears' = 0 => [Status!Next]_(Status!vars)]_vars
  BY StatusNext DEF StatusStep
<1> QED BY <1>1, <1>2, <1>3, PTL DEF Spec

\* A behaviour of BlockQueue, the verifiers and the client in which nothing is disturbed is
\* one of BlockStatus.
THEOREM StatusIsImplemented == Spec /\ [][Undisturbed /\ clears' = 0]_vars => StatusSpec
<1> DEFINE calm == Undisturbed /\ clears' = 0
           step == [Status!Next]_(Status!vars)
<1>1. [calm]_vars /\ [calm => step]_vars => step
  <2>1. UNCHANGED vars => step
    BY StatusRestsAll DEF StatusStep
  <2> QED BY <2>1
<1>2. Spec => Status!Init /\ [][calm => step]_vars
  BY StatusIsKept
<1>3. Spec /\ [][calm]_vars => Status!Init /\ [][Status!Next]_(Status!vars)
  BY <1>1, <1>2, PTL
<1> QED BY <1>3 DEF StatusSpec, Status!Spec

-----------------------------------------------------------------------------
(* The first verdicts are right.                                           *)

\* What drainVerified drops with what is bad is bad.
LEMMA DroppedAreDoomed ==
  ASSUME NEW js \in Seq(JobSet), NEW known \in SUBSET Doomed, NEW ready,
         drainVerified(js, known, ready)
  PROVE  m_knownBad' \subseteq Doomed
<1> DEFINE F == 1..DonePrefix(js)
           bad == BadPrefix(js, known)
           calls(k, I) == \/ Parent[js[k].hash] \in known
                          \/ \E j \in I : j < k /\ js[j].hash = Parent[js[k].hash]
           closed(I) == \A k \in F : calls(k, I) => k \in I
           lost == {k \in F : js[k].hash \in Doomed}
           out == [k \in F |-> js[k].hash]
<1>1. bad = {k \in F : \A I \in SUBSET F : closed(I) => k \in I}
  BY DEF BadPrefix
<1>2. m_knownBad' = known \cup {out[k] : k \in bad}
  BY DEF drainVerified
<1>3. \A k \in F : js[k].hash \in Blocks
  <2>1. DonePrefix(js) \in 0..Len(js)
    BY DonePrefixFacts
  <2>2. \A k \in 1..Len(js) : js[k] \in JobSet
    OBVIOUS
  <2> QED BY <2>1, <2>2 DEF JobSet, Job
<1> HIDE DEF F, bad
<1>4. closed(lost)
  <2> SUFFICES ASSUME NEW k \in F, calls(k, lost) PROVE k \in lost
    OBVIOUS
  <2>1. Parent[js[k].hash] \in Doomed
    OBVIOUS
  <2> QED BY <1>3, <2>1, DoomedFacts
<1>5. bad \subseteq lost
  <2>1. lost \in SUBSET F
    OBVIOUS
  <2> HIDE DEF closed, lost
  <2> QED BY <1>1, <1>4, <2>1
<1>6. \A k \in bad : out[k] \in Doomed
  BY <1>5
<1> HIDE DEF out
<1> QED BY <1>2, <1>6

\* As long as no block is condemned, a step condemns only what is bad.
LEMMA FirstVerdicts ==
  ASSUME IInv, Order, Told, Undisturbed, [Next]_vars
  PROVE  m_knownBad' \subseteq Doomed
<1>1. m_knownBad = {} /\ retries = 0
  BY DEF Undisturbed
<1>2. ASSUME NEW b \in Blocks, NEW isOurs \in BOOLEAN, import(b, isOurs)
      PROVE  m_knownBad' = {}
  BY <1>1, <1>2 DEF import, QueueForFuture, RefuseBadChain, QueueUnknown, QueueReady, setVars
<1>3. CASE ClientStep
  <2>1. CASE TickImport
    <3>1. todo # <<>> /\ import(Head(todo), FALSE)
      BY <2>1 DEF TickImport
    <3>2. todo \in Seq(Blocks)
      BY DEF IInv, TypeOK
    <3>3. Head(todo) \in Blocks
      BY <3>1, <3>2
    <3> QED BY <1>2, <3>1, <3>3
  <2>2. CASE DoneDrain
    <3>1. m_knownBad' = RangeOf(badBlocks)
      BY <1>1, <2>2 DEF DoneDrain, doneDrain
    <3> QED BY <3>1 DEF Told, FailuresTold
  <2>3. CASE ClientStep /\ ~TickImport /\ ~DoneDrain
    <3>1. UNCHANGED m_knownBad
      BY <2>3 DEF ClientStep, TakeFlag, Drain, drain, RoomAvailable, ImportNext, AlreadyHaveBlock,
                  UnknownParent, FutureTime, TransientError, BadBlock, GoodBlock, NextBlock,
                  Drained, Updated, AssignFlag, NoTick, Tick, tick, bqVars, setVars
    <3> QED BY <1>1, <3>1
  <2> QED BY <1>3, <2>1, <2>2, <2>3
<1>4. CASE LockedStep
  <2>1. m_lock # "retryAllUnknown" /\ m_lock \notin {"updateBad", "moreBad"}
    BY <1>1, LocksAreFree
  <2>2. NoteReady \/ Updated
    BY <1>4, <2>1 DEF LockedStep, RetryStep, CollectBad, MoreBad
  <2>3. UNCHANGED m_knownBad
    BY <2>2 DEF NoteReady, ReleaseUnknown, NewReady, Updated, setVars
  <2> QED BY <1>1, <2>3
<1>5. CASE \E v \in Verifiers : Verifier(v)
  <2>1. PICK v \in Verifiers : TakeJob(v) \/ VerifyThrows(v) \/ VerifyReturns(v) \/ OnReady(v)
    BY <1>5 DEF Verifier
  <2>2. /\ BQTypeOK /\ QueuesSound
    BY DEF IInv, TypeOK
  <2>3. /\ m_verifying \in Seq(JobSet) /\ HashOnce(m_verifying)
    BY <2>2, SoundFacts DEF BQTypeOK
  <2>4. CASE VerifyThrows(v)
    <3> DEFINE h == verifierWork[v]
               js == Without(m_verifying, {Job(h, FALSE)})
               known == {h}
               ready == m_readySet \ {h}
    <3>1. h \in Invalid /\ drainVerified(js, m_knownBad \cup {h}, m_readySet \ {h})
      BY <2>4 DEF VerifyThrows
    <3> HIDE DEF h
    <3>2. m_knownBad \cup {h} = known /\ h \in Doomed /\ known \in SUBSET Doomed
      BY <1>1, <3>1, BlocksAssumption, DoomedFacts
    <3>3. js \in Seq(JobSet)
      BY <2>2, <2>3, <3>1, BlocksAssumption, ThrowFacts
    <3> HIDE DEF js, known, ready
    <3>4. drainVerified(js, known, ready)
      BY <3>1, <3>2 DEF ready
    <3> QED BY <3>2, <3>3, <3>4, DroppedAreDoomed
  <2>5. CASE VerifyReturns(v)
    <3> DEFINE h == verifierWork[v]
               js == Marked(h)
               known == {}
    <3>1. \/ drainVerified(js, m_knownBad, m_readySet)
          \/ UNCHANGED <<m_readySet, m_knownBad>>
      BY <2>5 DEF VerifyReturns, Marked
    <3>2. h \in Blocks
      <4>1. verifierPc[v] = "verify"
        BY <2>5 DEF VerifyReturns
      <4> QED BY <2>2, <4>1 DEF BQTypeOK
    <3>3. js \in Seq(JobSet)
      <4> HIDE DEF h
      <4> QED BY <2>3, <3>2, MarkedFacts
    <3> HIDE DEF js
    <3>4. drainVerified(js, known, m_readySet) \/ UNCHANGED m_knownBad
      BY <1>1, <3>1
    <3>5. known \in SUBSET Doomed
      OBVIOUS
    <3> HIDE DEF known
    <3> QED BY <1>1, <3>3, <3>4, <3>5, DroppedAreDoomed
  <2>6. CASE TakeJob(v) \/ OnReady(v)
    <3>1. UNCHANGED m_knownBad
      BY <2>6 DEF TakeJob, OnReady, setVars
    <3> QED BY <1>1, <3>1
  <2> QED BY <2>1, <2>4, <2>5, <2>6
<1>6. CASE \E b \in Blocks, isOurs \in BOOLEAN : Arrive(b, isOurs)
  BY <1>2, <1>6 DEF Arrive
<1>7. CASE StopStep \/ Stop \/ PauseSync \/ Clear \/ RetryUnknown \/ AdvanceClock \/ UNCHANGED vars
  <2>1. m_knownBad' \in {m_knownBad, {}}
    BY <1>7 DEF StopStep, StopNotify, NotifyDeleting, StopJoin, Stop, SetDeleting, PauseSync,
                Clear, clear, RetryUnknown, RetryAllUnknown, AdvanceClock, bqVars, setVars,
                clientVars, vars
  <2> QED BY <1>1, <2>1
<1> QED BY <1>3, <1>4, <1>5, <1>6, <1>7 DEF Next

\* The first blocks that are condemned, by a verifier or by the import of a batch, and all
\* that are condemned with them, are invalid or descend from an invalid one: whatever the
\* interleaving, no good block is lost to the first failure (BlockQueue.cpp:123, 141 and
\* 343).  What updateBad() does with the rest of the queue after that is not always right.
THEOREM FirstBadIsJustified == Spec => [][Undisturbed => BadIsJustified']_vars
<1>1. Spec => [](IInv /\ Order /\ Told)
  <2>1. IInv /\ IInv' /\ Order /\ Told /\ [Next]_vars => Order' /\ Told'
    BY OrderNext, ToldNext
  <2> QED BY <2>1, Invariant, OrderInit, ToldInit, PTL DEF Spec
<1>2. IInv /\ Order /\ Told /\ [Next]_vars => [Undisturbed => BadIsJustified']_vars
  <2> SUFFICES ASSUME IInv, Order, Told, Undisturbed, [Next]_vars PROVE BadIsJustified'
    OBVIOUS
  <2>1. m_knownBad' \subseteq Doomed
    BY FirstVerdicts
  <2> QED BY <2>1 DEF BadIsJustified, Doomed, AncestorOrSelf
<1> QED BY <1>1, <1>2, PTL DEF Spec
=============================================================================
