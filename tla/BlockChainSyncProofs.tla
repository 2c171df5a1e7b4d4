------------------------- MODULE BlockChainSyncProofs -------------------------
(***************************************************************************)
(* The download keeps its books, for any finite tree of blocks, any peers  *)
(* and any order of answers, losses and announcements.                     *)
(*                                                                         *)
(* The argument.  Handlers are built from helpers that each take a record  *)
(* of the members and leave another, so what is proved is a set of records *)
(* (Kept) that every helper maps into itself: they have their types        *)
(* (States), one header per number (OneEach), marks with owners (Owned),   *)
(* nothing left when idle (Quiet), and the download has not gone back      *)
(* behind s, the record the handler began with (Advanced).  A mark loses   *)
(* its owner for a moment only inside clearPeerDownload(), which takes both*)
(* away.                                                                   *)
(*                                                                         *)
(* That the last imported block is known (LastPlaced) leans on the queue:  *)
(* the parent of a block that is ready is stored, ready or being imported  *)
(* (Queued), so the client never takes a block whose parent is missing,    *)
(* the import stores what it takes (DrainOK), and a block leaves the queue *)
(* only into the database.  The one place that empties the queue,          *)
(* restartSync(), sets the last block to the head of the chain.            *)
(*                                                                         *)
(* Loops over an answer go through a sequence with a result that may end   *)
(* them; each is reasoned about by what holds of its result after n items, *)
(* for every n in a set that is shown to be Nat (NatSet).  Answers are     *)
(* sorted by number: there is one order, and InOrder lists it.             *)
(***************************************************************************)
EXTENDS BlockChainSync, TLAPS, FiniteSetTheorems, WellFoundedInduction

-----------------------------------------------------------------------------
(* Numbers, folds and sorted sequences.                                      *)

LEMMA LeastNumber ==
  ASSUME NEW S \in SUBSET Nat, S # {}
  PROVE  \E m \in S : \A k \in S : m <= k
<1>1. IsWellFoundedOn(OpToRel(<, Nat), Nat)
  BY NatLessThanWellFounded
<1>2. PICK m \in S : \A k \in S : ~(<<k, m>> \in OpToRel(<, Nat))
  BY <1>1, WFMin
<1>3. \A k \in S : ~(k < m)
  BY <1>2 DEF OpToRel
<1> QED BY <1>3

\* Induction, stated of a set.
LEMMA NatSet ==
  ASSUME NEW N \in SUBSET Nat, 0 \in N, \A k \in N : k + 1 \in N
  PROVE  N = Nat
<1> SUFFICES ASSUME Nat \ N # {} PROVE FALSE
  OBVIOUS
<1>1. PICK m \in Nat \ N : \A k \in Nat \ N : m <= k
  BY LeastNumber
<1>2. m # 0 /\ m - 1 \in Nat
  OBVIOUS
<1>3. m - 1 \in N
  BY <1>1, <1>2
<1>4. (m - 1) + 1 \in N
  BY <1>3
<1> QED BY <1>2, <1>4

LEMMA MinIsThere ==
  ASSUME NEW S \in SUBSET Nat, S # {}
  PROVE  Min(S) \in S /\ \A k \in S : Min(S) <= k
<1>1. \E m \in S : \A k \in S : m <= k
  BY LeastNumber
<1> QED BY <1>1 DEF Min

\* Induction over the subsets of a finite set, stated of a set of them.
LEMMA SubsetInduction ==
  ASSUME NEW S, IsFiniteSet(S), NEW G,
         \A R \in SUBSET S : (\A x \in R : R \ {x} \in G) => R \in G
  PROVE  SUBSET S \subseteq G
<1> DEFINE T == {k \in Nat : \E R \in SUBSET S : Cardinality(R) = k /\ R \notin G}
<1>1. \A R \in SUBSET S : IsFiniteSet(R) /\ Cardinality(R) \in Nat
  BY FS_Subset, FS_CardinalityType
<1>2. T = {}
  <2> SUFFICES ASSUME T # {} PROVE FALSE
    OBVIOUS
  <2>1. PICK k \in T : \A m \in T : k <= m
    <3>1. T \in SUBSET Nat
      OBVIOUS
    <3> HIDE DEF T
    <3> QED BY <3>1, LeastNumber
  <2>2. k \in Nat /\ \E R \in SUBSET S : Cardinality(R) = k /\ R \notin G
    BY <2>1
  <2>3. \A Q \in SUBSET S : Cardinality(Q) \in Nat /\ Cardinality(Q) < k => Q \in G
    BY <2>1
  <2> HIDE DEF T
  <2>4. PICK R \in SUBSET S : Cardinality(R) = k /\ R \notin G
    BY <2>2
  <2>5. ASSUME NEW x \in R PROVE R \ {x} \in G
    <3>1. Cardinality(R \ {x}) = k - 1 /\ R \ {x} \in SUBSET S
      BY <1>1, <2>4, FS_RemoveElement
    <3>2. Cardinality(R \ {x}) \in Nat /\ Cardinality(R \ {x}) < k
      BY <1>1, <2>2, <3>1
    <3> QED BY <2>3, <3>1, <3>2
  <2> QED BY <2>4, <2>5
<1> QED BY <1>1, <1>2

LEMMA MaxIsThere ==
  ASSUME NEW S \in SUBSET Nat, IsFiniteSet(S), S # {}
  PROVE  Max(S) \in S /\ \A k \in S : Max(S) >= k
<1> DEFINE Topped(R) == R = {} \/ \E m \in R : \A k \in R : m >= k
           G == {R \in SUBSET S : Topped(R)}
<1>1. ASSUME NEW R \in SUBSET S, \A x \in R : R \ {x} \in G
      PROVE  Topped(R)
  <2> SUFFICES ASSUME NEW x \in R PROVE Topped(R)
    OBVIOUS
  <2>1. x \in Nat /\ \A y \in R : y \in Nat /\ (y = x \/ y \in R \ {x})
    OBVIOUS
  <2>2. CASE R \ {x} = {}
    <3>1. \A y \in R : x >= y
      BY <2>1, <2>2
    <3> QED BY <3>1
  <2>3. CASE R \ {x} # {}
    <3>1. PICK m \in R \ {x} : \A y \in R \ {x} : m >= y
      BY <1>1, <2>3
    <3>2. m \in Nat /\ m \in R
      OBVIOUS
    <3>3. CASE m >= x
      BY <2>1, <3>1, <3>2, <3>3
    <3>4. CASE x >= m
      <4>1. \A y \in R : x >= y
        BY <2>1, <3>1, <3>2, <3>4
      <4> QED BY <4>1
    <3> QED BY <2>1, <3>2, <3>3, <3>4
  <2> QED BY <2>2, <2>3
<1>2. SUBSET S \subseteq G
  <2>1. \A R \in SUBSET S : (\A x \in R : R \ {x} \in G) => R \in G
    <3> HIDE DEF Topped
    <3> QED BY <1>1
  <2> HIDE DEF G
  <2> QED BY <2>1, SubsetInduction
<1>3. \E m \in S : \A k \in S : m >= k
  BY <1>2
<1> QED BY <1>3 DEF Max

\* A recursive function over the subsets of D, as a fold defines one: there is one, with
\* values in R, when its step F stays in R.
Choosers(D) == {f \in [(SUBSET D) \ {{}} -> D] : \A S \in (SUBSET D) \ {{}} : f[S] \in S}
Foldings(D, pick, R, first, F) ==
  {g \in [SUBSET D -> R] : \A S \in SUBSET D : g[S] = IF S = {} THEN first ELSE F[<<g[S \ {pick[S]}], pick[S]>>]}

LEMMA SubsetFacts ==
  ASSUME NEW D, IsFiniteSet(D), NEW pick \in Choosers(D), NEW S \in SUBSET D
  PROVE  /\ IsFiniteSet(S) /\ Cardinality(S) \in Nat /\ Cardinality(S) <= Cardinality(D)
         /\ Cardinality(S) = 0 <=> S = {}
         /\ S # {} => /\ pick[S] \in S /\ S \ {pick[S]} \in SUBSET D
                      /\ Cardinality(S \ {pick[S]}) = Cardinality(S) - 1
<1>1. IsFiniteSet(S) /\ Cardinality(S) \in Nat /\ Cardinality(S) <= Cardinality(D)
  BY FS_Subset, FS_CardinalityType
<1>2. S # {} => pick[S] \in S
  BY DEF Choosers
<1>3. pick[S] \in S => Cardinality(S \ {pick[S]}) = Cardinality(S) - 1
  BY <1>1, FS_RemoveElement
<1>4. Cardinality(S) = 0 <=> S = {}
  BY <1>1, FS_EmptySet
<1> QED BY <1>1, <1>2, <1>3, <1>4

LEMMA FoldExists ==
  ASSUME NEW D, IsFiniteSet(D), NEW pick \in Choosers(D),
         NEW R, NEW first \in R, NEW F \in [R \X D -> R]
  PROVE  Foldings(D, pick, R, first, F) # {}
<1> DEFINE body(g, S) == IF S = {} THEN first ELSE F[<<g[S \ {pick[S]}], pick[S]>>]
           Dom(k) == {S \in SUBSET D : Cardinality(S) <= k}
           Solves(g, U) == g \in [U -> R] /\ \A S \in U : g[S] = body(g, S)
<1>0. \A S \in SUBSET D : Cardinality(S) \in Nat /\ Cardinality(S) <= Cardinality(D) /\ (Cardinality(S) = 0 <=> S = {})
  BY SubsetFacts
<1>1. \E g : Solves(g, Dom(0))
  <2>1. \A S \in Dom(0) : S = {}
    BY <1>0
  <2>2. Solves([S \in Dom(0) |-> first], Dom(0))
    BY <2>1
  <2> QED BY <2>2
<1>2. ASSUME NEW k \in Nat, NEW g, Solves(g, Dom(k))
      PROVE  \E h : Solves(h, Dom(k + 1))
  <2> DEFINE h == [S \in Dom(k + 1) |-> body(g, S)]
  <2>1. ASSUME NEW S \in Dom(k + 1), S # {}
        PROVE  /\ pick[S] \in D /\ S \ {pick[S]} \in Dom(k)
               /\ g[S \ {pick[S]}] \in R
    <3>0. S \in SUBSET D
      OBVIOUS
    <3>1. /\ pick[S] \in D /\ S \ {pick[S]} \in SUBSET D
          /\ Cardinality(S \ {pick[S]}) = Cardinality(S) - 1 /\ Cardinality(S) \in Nat
      <4> HIDE DEF Dom, body, Solves, h
      <4>1. /\ pick[S] \in S /\ S \ {pick[S]} \in SUBSET D
            /\ Cardinality(S \ {pick[S]}) = Cardinality(S) - 1
        BY <3>0, <2>1, SubsetFacts
      <4>2. Cardinality(S) \in Nat
        BY <3>0, SubsetFacts
      <4> QED BY <3>0, <4>1, <4>2
    <3>2. Cardinality(S) <= k + 1
      OBVIOUS
    <3>3. Cardinality(S \ {pick[S]}) <= k
      BY <3>1, <3>2
    <3>4. S \ {pick[S]} \in Dom(k)
      BY <3>1, <3>3
    <3> HIDE DEF Dom, body
    <3> QED BY <3>1, <3>4, <1>2
  <2>2. ASSUME NEW S \in Dom(k) PROVE S \in Dom(k + 1) /\ h[S] = g[S]
    <3>1. S \in Dom(k + 1)
      BY <1>0
    <3>2. g[S] = body(g, S)
      <4> HIDE DEF body, Dom
      <4> QED BY <1>2
    <3> HIDE DEF body, Dom
    <3> QED BY <3>1, <3>2
  <2>3. \A S \in Dom(k + 1) : body(g, S) \in R
    <3> SUFFICES ASSUME NEW S \in Dom(k + 1) PROVE body(g, S) \in R
      OBVIOUS
    <3>1. CASE S = {}
      BY <3>1
    <3>2. CASE S # {}
      BY <3>2, <2>1
    <3> QED BY <3>1, <3>2
  <2>4. \A S \in Dom(k + 1) : body(h, S) = body(g, S)
    <3> SUFFICES ASSUME NEW S \in Dom(k + 1) PROVE body(h, S) = body(g, S)
      OBVIOUS
    <3>1. CASE S = {}
      BY <3>1
    <3>2. CASE S # {}
      <4>1. h[S \ {pick[S]}] = g[S \ {pick[S]}]
        <5>1. S \ {pick[S]} \in Dom(k)
          BY <3>2, <2>1
        <5> HIDE DEF h, Dom
        <5> QED BY <5>1, <2>2
      <4> HIDE DEF h
      <4> QED BY <4>1, <3>2
    <3> QED BY <3>1, <3>2
  <2> HIDE DEF body, Dom
  <2>5. h \in [Dom(k + 1) -> R]
    BY <2>3
  <2>6. \A S \in Dom(k + 1) : h[S] = body(h, S)
    BY <2>4
  <2> HIDE DEF h
  <2> QED BY <2>5, <2>6
<1>3. \A k \in Nat : \E g : Solves(g, Dom(k))
  <2> HIDE DEF Solves, Dom
  <2> DEFINE N == {k \in Nat : \E g : Solves(g, Dom(k))}
  <2>1. 0 \in N /\ \A k \in N : k + 1 \in N
    BY <1>1, <1>2
  <2>2. N = Nat
    <3> HIDE DEF N
    <3>1. N \in SUBSET Nat
      BY DEF N
    <3> QED BY <2>1, <3>1, NatSet
  <2> QED BY <2>2
<1>4. Cardinality(D) \in Nat /\ Dom(Cardinality(D)) = SUBSET D
  BY <1>0, FS_CardinalityType
<1>5. \E g : Solves(g, SUBSET D)
  <2> HIDE DEF Solves
  <2> QED BY <1>3, <1>4
<1> QED BY <1>5 DEF Foldings

LEMMA FoldStays ==
  ASSUME NEW D, IsFiniteSet(D), NEW pick \in Choosers(D),
         NEW R, NEW it, it[{}] \in R,
         \A S \in SUBSET D : S # {} /\ it[S \ {pick[S]}] \in R => it[S] \in R
  PROVE  it[D] \in R
<1> DEFINE G == {S \in SUBSET D : it[S] \in R}
<1>1. IsFiniteSet(D)
  OBVIOUS
<1>2. ASSUME NEW S \in SUBSET D, \A x \in S : S \ {x} \in G
      PROVE  S \in G
  <2>1. CASE S = {}
    BY <2>1
  <2>2. CASE S # {}
    BY <2>2, <1>2, SubsetFacts
  <2> QED BY <2>1, <2>2
<1>3. SUBSET D \subseteq G
  <2> HIDE DEF G
  <2> QED BY <1>1, <1>2, SubsetInduction
<1> QED BY <1>3

LEMMA ImageFinite ==
  ASSUME NEW R, IsFiniteSet(R), NEW f, DOMAIN f = R
  PROVE  IsFiniteSet({f[x] : x \in R})
<1> DEFINE I == {f[x] : x \in R}
           h == [x \in R |-> f[x]]
<1>1. h \in Surjection(R, I)
  BY DEF Surjection
<1> HIDE DEF I, h
<1>2. IsFiniteSet(I)
  BY <1>1, FS_Surjection
<1> QED BY <1>2 DEF I

LEMMA NumbersFinite ==
  ASSUME NEW R \in SUBSET All, IsFiniteSet(R)
  PROVE  /\ {number[b] : b \in R} \in SUBSET Nat
         /\ IsFiniteSet({number[b] : b \in R})
<1> DEFINE f == [b \in R |-> number[b]]
<1>1. {number[b] : b \in R} = {f[b] : b \in R}
  OBVIOUS
<1>2. DOMAIN f = R
  OBVIOUS
<1>3. IsFiniteSet({f[b] : b \in R})
  <2> HIDE DEF f
  <2> QED BY <1>2, ImageFinite
<1>4. {number[b] : b \in R} \in SUBSET Nat
  BY TreeAssumption
<1> QED BY <1>1, <1>3, <1>4

\* The blocks of a set, each with its own number, come in order.
LEMMA SortedExists ==
  ASSUME NEW S \in SUBSET All, IsFiniteSet(S),
         \A a, b \in S : number[a] = number[b] => a = b
  PROVE  \E m \in Nat : \E g \in [1..m -> S] :
            /\ \A b \in S : \E i \in 1..m : g[i] = b
            /\ \A i, j \in 1..m : i < j => number[g[i]] < number[g[j]]
<1> DEFINE Listing(R, m, g) == /\ g \in [1..m -> R]
                               /\ \A b \in R : \E i \in 1..m : g[i] = b
                               /\ \A i, j \in 1..m : i < j => number[g[i]] < number[g[j]]
           Sorted(R) == \E m \in Nat : \E g : Listing(R, m, g)
           G == {R \in SUBSET S : Sorted(R)}
<1>1. ASSUME NEW R \in SUBSET S, \A x \in R : R \ {x} \in G
      PROVE  Sorted(R)
  <2>1. CASE R = {}
    <3>1. Listing(R, 0, [i \in 1..0 |-> Genesis])
      BY <2>1
    <3> QED BY <3>1
  <2>2. CASE R # {}
    <3> DEFINE N == {number[b] : b \in R}
    <3>1. N \in SUBSET Nat /\ N # {}
      BY <2>2, TreeAssumption
    <3>2. IsFiniteSet(N)
      <4>1. IsFiniteSet(R)
        BY FS_Subset
      <4> HIDE DEF N
      <4> QED BY <4>1, NumbersFinite DEF N
    <3>3. Max(N) \in N /\ \A k \in N : Max(N) >= k
      <4> HIDE DEF N
      <4> QED BY <3>1, <3>2, MaxIsThere
    <3>4. PICK x \in R : Max(N) = number[x]
      BY <3>3
    <3>5. \A b \in R : b # x => number[b] < number[x]
      <4>1. \A b \in R : number[b] \in Nat /\ number[x] >= number[b] /\ (number[b] = number[x] => b = x)
        BY <3>3, <3>4, TreeAssumption
      <4>2. number[x] \in Nat
        BY TreeAssumption
      <4> QED BY <4>1, <4>2
    <3>6. PICK m \in Nat : \E g : Listing(R \ {x}, m, g)
      BY <1>1
    <3>7. PICK g : Listing(R \ {x}, m, g)
      BY <3>6
    <3> DEFINE h == [i \in 1..(m + 1) |-> IF i = m + 1 THEN x ELSE g[i]]
    <3>8. h \in [1..(m + 1) -> R]
      BY <3>7
    <3>9. ASSUME NEW b \in R PROVE \E i \in 1..(m + 1) : h[i] = b
      <4>1. CASE b = x
        BY <4>1
      <4>2. CASE b # x
        BY <4>2, <3>7
      <4> QED BY <4>1, <4>2
    <3>10. ASSUME NEW i \in 1..(m + 1), NEW j \in 1..(m + 1), i < j
           PROVE  number[h[i]] < number[h[j]]
      <4>1. i \in 1..m /\ h[i] = g[i] /\ g[i] \in R \ {x}
        BY <3>7, <3>10
      <4>2. CASE j = m + 1
        BY <4>1, <4>2, <3>5
      <4>3. CASE j # m + 1
        BY <4>1, <4>3, <3>7, <3>10
      <4> QED BY <4>2, <4>3
    <3> HIDE DEF h
    <3>11. Listing(R, m + 1, h)
      BY <3>8, <3>9, <3>10
    <3> QED BY <3>11
  <2> QED BY <2>1, <2>2
<1>2. \A R \in SUBSET S : (\A x \in R : R \ {x} \in G) => R \in G
  <2> HIDE DEF Sorted
  <2> QED BY <1>1
<1>3. S \in G
  <2> HIDE DEF G
  <2> QED BY <1>2, SubsetInduction
<1> QED BY <1>3

LEMMA InOrderStays ==
  ASSUME NEW S \in SUBSET All, IsFiniteSet(S),
         \A a, b \in S : number[a] = number[b] => a = b
  PROVE  Cardinality(S) \in Nat /\ InOrder(S) \in [1..Cardinality(S) -> S]
<1> DEFINE rank(b) == Cardinality({c \in S : number[c] < number[b]})
<1>0. PICK m \in Nat : \E g \in [1..m -> S] :
            /\ \A b \in S : \E i \in 1..m : g[i] = b
            /\ \A i, j \in 1..m : i < j => number[g[i]] < number[g[j]]
  BY SortedExists
<1>1. PICK g \in [1..m -> S] :
            /\ \A b \in S : \E i \in 1..m : g[i] = b
            /\ \A i, j \in 1..m : i < j => number[g[i]] < number[g[j]]
  BY <1>0
<1>2. \A i, j \in 1..m : /\ number[g[i]] \in Nat /\ number[g[j]] \in Nat
                         /\ g[i] = g[j] => i = j
                         /\ number[g[i]] < number[g[j]] => i < j
  <2> SUFFICES ASSUME NEW i \in 1..m, NEW j \in 1..m
               PROVE  /\ number[g[i]] \in Nat /\ number[g[j]] \in Nat
                      /\ g[i] = g[j] => i = j
                      /\ number[g[i]] < number[g[j]] => i < j
    OBVIOUS
  <2>1. number[g[i]] \in Nat /\ number[g[j]] \in Nat
    BY TreeAssumption
  <2>2. i < j => number[g[i]] < number[g[j]]
    BY <1>1
  <2>3. j < i => number[g[j]] < number[g[i]]
    BY <1>1
  <2> QED BY <2>1, <2>2, <2>3
<1>3. Cardinality(S) = m
  <2>1. g \in Injection(1..m, S)
    BY <1>2 DEF Injection, IsInjective
  <2>2. g \in Surjection(1..m, S)
    BY <1>1 DEF Surjection
  <2>3. ExistsBijection(1..m, S)
    BY <2>1, <2>2 DEF ExistsBijection, Bijection
  <2> QED BY <2>3, FS_CountingElements
<1>4. ASSUME NEW i \in 1..m PROVE rank(g[i]) = i - 1
  <2> DEFINE L == {c \in S : number[c] < number[g[i]]}
             h == [j \in 1..(i - 1) |-> g[j]]
  <2>1. \A j \in 1..(i - 1) : j \in 1..m /\ j < i /\ g[j] \in L
    BY <1>1
  <2>2. \A c \in L : \E j \in 1..(i - 1) : h[j] = c
    <3> SUFFICES ASSUME NEW c \in L PROVE \E j \in 1..(i - 1) : h[j] = c
      OBVIOUS
    <3>1. PICK j \in 1..m : g[j] = c
      BY <1>1
    <3>2. j < i
      BY <1>2, <3>1
    <3> QED BY <3>1, <3>2
  <2>3. h \in [1..(i - 1) -> L] /\ \A j, k \in 1..(i - 1) : h[j] = h[k] => j = k
    BY <2>1, <1>2
  <2> HIDE DEF h, L
  <2>4. h \in Injection(1..(i - 1), L)
    BY <2>3 DEF Injection, IsInjective
  <2>5. h \in Surjection(1..(i - 1), L)
    BY <2>2, <2>3 DEF Surjection
  <2>6. ExistsBijection(1..(i - 1), L)
    BY <2>4, <2>5 DEF ExistsBijection, Bijection
  <2>7. i - 1 \in Nat
    OBVIOUS
  <2>8. Cardinality(L) = i - 1
    BY <2>6, <2>7, FS_CountingElements
  <2> QED BY <2>8 DEF L
<1>5. \A i \in 1..m : \E b \in S : rank(b) = i - 1
  <2> HIDE DEF rank
  <2> QED BY <1>4
<1>6. InOrder(S) = [i \in 1..Cardinality(S) |-> CHOOSE b \in S : rank(b) = i - 1]
  BY DEF InOrder
<1>7. \A i \in 1..m : (CHOOSE b \in S : rank(b) = i - 1) \in S
  <2> HIDE DEF rank
  <2> QED BY <1>5
<1> HIDE DEF rank
<1> QED BY <1>3, <1>6, <1>7

-----------------------------------------------------------------------------
(* The tree of blocks.                                                       *)

\* The recursive function that Line is made of is one: the blocks on the way to b are
\* those in every set that holds b and, with a block, its parent.
LEMMA AncestryEquation ==
  \A b \in All : Ancestry[b] = IF b = Genesis THEN {b} ELSE {b} \cup Ancestry[Parent[b]]
<1> DEFINE Closed(T) == \A d \in T : d # Genesis => Parent[d] \in T
           A == [b \in All |-> {c \in All : \A T \in SUBSET All : b \in T /\ Closed(T) => c \in T}]
           body(f, b) == IF b = Genesis THEN {b} ELSE {b} \cup f[Parent[b]]
<1>1. \A b \in All : b # Genesis => Parent[b] \in All
  BY TreeAssumption DEF All
<1>2. ASSUME NEW b \in All PROVE A[b] \in SUBSET All /\ b \in A[b] /\ Closed(A[b])
  <2>1. A[b] \in SUBSET All /\ b \in A[b]
    OBVIOUS
  <2>2. ASSUME NEW d \in A[b], d # Genesis PROVE Parent[d] \in A[b]
    <3>1. Parent[d] \in All
      BY <1>1, <2>1, <2>2
    <3>2. ASSUME NEW T \in SUBSET All, b \in T, Closed(T) PROVE Parent[d] \in T
      BY <2>2, <3>2
    <3> QED BY <3>1, <3>2
  <2> QED BY <2>1, <2>2
<1>3. ASSUME NEW b \in All, b = Genesis PROVE A[b] = {b}
  <2>1. {b} \in SUBSET All /\ Closed({b})
    BY <1>3
  <2>2. \A c \in A[b] : c \in {b}
    <3> HIDE DEF Closed
    <3> QED BY <2>1
  <2> QED BY <1>2, <2>2
<1>4. ASSUME NEW b \in All, b # Genesis PROVE A[b] = {b} \cup A[Parent[b]]
  <2> DEFINE p == Parent[b]
             T == {b} \cup A[p]
  <2>1. p \in All
    BY <1>1, <1>4
  <2>2. A[p] \in SUBSET All /\ p \in A[p] /\ Closed(A[p])
    <3> HIDE DEF A, Closed
    <3> QED BY <2>1, <1>2
  <2>3. T \in SUBSET All /\ b \in T /\ Closed(T)
    <3> HIDE DEF A
    <3> QED BY <2>2
  <2>4. A[b] \subseteq T
    <3> HIDE DEF T, Closed
    <3> QED BY <2>3
  <2>5. A[p] \subseteq A[b]
    <3> SUFFICES ASSUME NEW c \in A[p] PROVE c \in A[b]
      OBVIOUS
    <3>1. ASSUME NEW U \in SUBSET All, b \in U, Closed(U) PROVE c \in U
      <4>1. p \in U
        BY <1>4, <3>1
      <4> HIDE DEF Closed
      <4> QED BY <3>1, <4>1, <2>1
    <3> HIDE DEF Closed
    <3> QED BY <3>1, <2>2
  <2>6. b \in A[b]
    BY <1>2
  <2> HIDE DEF A
  <2> QED BY <2>4, <2>5, <2>6
<1>5. A = [b \in All |-> body(A, b)]
  <2>1. \A b \in All : A[b] = body(A, b)
    <3> HIDE DEF A
    <3> QED BY <1>3, <1>4
  <2>2. DOMAIN A = All /\ A = [b \in All |-> A[b]]
    OBVIOUS
  <2> HIDE DEF A, body
  <2> QED BY <2>1, <2>2
<1> DEFINE it == CHOOSE f : f = [b \in All |-> body(f, b)]
<1>6. it = [b \in All |-> body(it, b)]
  <2> HIDE DEF A, body
  <2> QED BY <1>5
<1>7. Ancestry = it
  BY DEF Ancestry
<1> HIDE DEF it
<1> QED BY <1>6, <1>7

LEMMA LineStep ==
  /\ Line[Genesis] = {Genesis}
  /\ \A b \in Blocks : Parent[b] \in All /\ Line[b] = {b} \cup Line[Parent[b]]
<1>1. Genesis \in All /\ \A b \in Blocks : b \in All /\ b # Genesis /\ Parent[b] \in All
  BY TreeAssumption DEF All
<1> QED BY <1>1, AncestryEquation DEF Line

\* What holds of the genesis and of a block when it holds of its parent holds of all.
LEMMA TreeInduction ==
  ASSUME NEW G, Genesis \in G, \A b \in Blocks : Parent[b] \in G => b \in G
  PROVE  All \subseteq G
<1> DEFINE N == {n \in Nat : \A b \in All : number[b] = n => b \in G}
<1>1. 0 \in N
  <2>1. \A b \in Blocks : number[b] # 0
    BY TreeAssumption
  <2> QED BY <2>1 DEF All
<1>2. ASSUME NEW n \in N PROVE n + 1 \in N
  <2>1. ASSUME NEW b \in All, number[b] = n + 1 PROVE b \in G
    <3>1. b \in Blocks
      BY <2>1, TreeAssumption DEF All
    <3>2. Parent[b] \in All /\ number[b] = number[Parent[b]] + 1 /\ number[Parent[b]] \in Nat
      BY <3>1, TreeAssumption
    <3>3. number[Parent[b]] = n
      BY <2>1, <3>2
    <3> QED BY <3>1, <3>2, <3>3
  <2> QED BY <2>1
<1>3. N = Nat
  <2> HIDE DEF N
  <2>1. N \in SUBSET Nat
    BY DEF N
  <2> QED BY <1>1, <1>2, <2>1, NatSet
<1> QED BY <1>3, TreeAssumption

LEMMA LineFacts ==
  ASSUME NEW b \in All
  PROVE  /\ Line[b] \in SUBSET All /\ IsFiniteSet(Line[b]) /\ b \in Line[b]
         /\ \A c \in Line[b] : number[c] <= number[b] /\ (number[c] = number[b] => c = b)
         /\ \A c, d \in Line[b] : number[c] = number[d] => c = d
         /\ \A c \in Line[b] : c # Genesis => Parent[c] \in Line[b]
<1> DEFINE Fine(x) == /\ Line[x] \in SUBSET All /\ x \in Line[x]
                      /\ \A c \in Line[x] : number[c] <= number[x] /\ (number[c] = number[x] => c = x)
                      /\ \A c, d \in Line[x] : number[c] = number[d] => c = d
                      /\ \A c \in Line[x] : c # Genesis => Parent[c] \in Line[x]
           G == {x \in All : Fine(x)}
<1>1. Fine(Genesis)
  BY LineStep, TreeAssumption DEF All
<1>2. ASSUME NEW x \in Blocks, Fine(Parent[x]) PROVE Fine(x)
  <2>1. /\ Line[x] = {x} \cup Line[Parent[x]] /\ x \in All /\ Parent[x] \in All
        /\ number[x] = number[Parent[x]] + 1 /\ number[Parent[x]] \in Nat
    BY LineStep, TreeAssumption DEF All
  <2>2. \A c \in Line[Parent[x]] : number[c] \in Nat /\ number[c] < number[x]
    BY <1>2, <2>1, TreeAssumption
  <2>3. Line[x] \in SUBSET All /\ x \in Line[x]
    BY <1>2, <2>1
  <2>4. \A c \in Line[x] : number[c] <= number[x] /\ (number[c] = number[x] => c = x)
    BY <2>1, <2>2
  <2>5. \A c, d \in Line[x] : number[c] = number[d] => c = d
    BY <1>2, <2>1, <2>2
  <2>6. \A c \in Line[x] : c # Genesis => Parent[c] \in Line[x]
    BY <1>2, <2>1
  <2> QED BY <2>3, <2>4, <2>5, <2>6
<1>3. All \subseteq G
  <2>1. Genesis \in G /\ \A x \in Blocks : Parent[x] \in G => x \in G
    <3> HIDE DEF Fine
    <3> QED BY <1>1, <1>2 DEF All
  <2> HIDE DEF G
  <2> QED BY <2>1, TreeInduction
<1>4. Fine(b)
  <2> HIDE DEF Fine
  <2> QED BY <1>3
<1>5. IsFiniteSet(All)
  BY TreeAssumption, FS_AddElement DEF All
<1>6. IsFiniteSet(Line[b])
  BY <1>4, <1>5, FS_Subset
<1> QED BY <1>4, <1>6

LEMMA MaxChooses ==
  ASSUME NEW n \in Nat
  PROVE  IsFiniteSet(1..n) /\ [S \in (SUBSET (1..n)) \ {{}} |-> Max(S)] \in Choosers(1..n)
<1>1. IsFiniteSet(1..n)
  BY FS_Interval
<1>2. ASSUME NEW S \in SUBSET (1..n), S # {} PROVE Max(S) \in S
  <2>1. IsFiniteSet(S) /\ S \in SUBSET Nat
    <3>1. IsFiniteSet(S)
      BY <1>1, FS_Subset
    <3> QED BY <3>1
  <2> QED BY <2>1, <1>2, MaxIsThere
<1> QED BY <1>1, <1>2 DEF Choosers

LEMMA WeightType ==
  ASSUME NEW b \in All
  PROVE  TotalDifficulty(b) \in Nat
<1> DEFINE D == Line[b]
           pick == [S \in (SUBSET D) \ {{}} |-> CHOOSE x \in S : TRUE]
           F == [y \in Nat \X D |-> y[1] + difficulty[y[2]]]
           body(g, S) == IF S = {} THEN 0
                         ELSE g[S \ {CHOOSE x \in S : TRUE}] + difficulty[CHOOSE x \in S : TRUE]
<1>1. D \in SUBSET All /\ IsFiniteSet(D)
  BY LineFacts
<1>2. IsFiniteSet(D) /\ pick \in Choosers(D)
  <2> HIDE DEF D
  <2>1. \A S \in (SUBSET D) \ {{}} : pick[S] \in S /\ pick[S] \in D
    OBVIOUS
  <2>2. pick = [S \in (SUBSET D) \ {{}} |-> pick[S]]
    OBVIOUS
  <2> HIDE DEF pick
  <2> QED BY <1>1, <2>1, <2>2 DEF Choosers
<1>3. F \in [Nat \X D -> Nat]
  BY <1>1, TreeAssumption
<1>4. PICK g \in [SUBSET D -> Nat] : \A S \in SUBSET D :
         g[S] = IF S = {} THEN 0 ELSE F[<<g[S \ {pick[S]}], pick[S]>>]
  <2> HIDE DEF D, pick, F, body
  <2>1. 0 \in Nat
    OBVIOUS
  <2>2. Foldings(D, pick, Nat, 0, F) # {}
    BY <1>2, <1>3, <2>1, FoldExists
  <2> QED BY <2>2 DEF Foldings
<1>5. g = [S \in SUBSET D |-> body(g, S)]
  <2>1. ASSUME NEW S \in SUBSET D PROVE g[S] = body(g, S)
    <3>1. CASE S = {}
      BY <1>4, <3>1
    <3>2. CASE S # {}
      <4>1. pick[S] = (CHOOSE x \in S : TRUE)
        OBVIOUS
      <4>2. pick[S] \in D /\ g[S \ {pick[S]}] \in Nat
        <5> HIDE DEF pick, D
        <5> QED BY <1>2, <3>2 DEF Choosers
      <4>3. F[<<g[S \ {pick[S]}], pick[S]>>] = g[S \ {pick[S]}] + difficulty[pick[S]]
        <5> HIDE DEF pick, D
        <5> QED BY <4>2
      <4> HIDE DEF pick, F, D
      <4> QED BY <1>4, <3>2, <4>1, <4>3
    <3> QED BY <3>1, <3>2
  <2> HIDE DEF body, D
  <2> QED BY <2>1
<1> DEFINE it == CHOOSE f : f = [S \in SUBSET D |-> body(f, S)]
<1>6. it = [S \in SUBSET D |-> body(it, S)]
  <2> HIDE DEF body, D
  <2> QED BY <1>5
<1>7. TotalDifficulty(b) = it[D]
  BY DEF TotalDifficulty, Weight, FoldSet, MapThenFoldSet
<1> HIDE DEF it
<1>8. it[{}] \in Nat
  BY <1>6
<1>9. ASSUME NEW S \in SUBSET D, S # {}, it[S \ {pick[S]}] \in Nat PROVE it[S] \in Nat
  <2>1. pick[S] = (CHOOSE x \in S : TRUE) /\ pick[S] \in D
    <3>1. pick[S] = (CHOOSE x \in S : TRUE)
      OBVIOUS
    <3> HIDE DEF pick, D
    <3> QED BY <3>1, <1>2, <1>9 DEF Choosers
  <2>2. difficulty[pick[S]] \in Nat
    <3> HIDE DEF pick
    <3> QED BY <1>1, <2>1, TreeAssumption
  <2>3. it[S] = it[S \ {pick[S]}] + difficulty[pick[S]]
    <3> HIDE DEF D
    <3>1. it[S] = body(it, S)
      <4> HIDE DEF body, pick
      <4> QED BY <1>6
    <3> HIDE DEF pick
    <3> QED BY <1>9, <2>1, <3>1
  <2> HIDE DEF pick, D
  <2> QED BY <1>9, <2>2, <2>3
<1>10. it[D] \in Nat
  <2> HIDE DEF pick, D
  <2> QED BY <1>2, <1>8, <1>9, FoldStays
<1> QED BY <1>7, <1>10

-----------------------------------------------------------------------------
(* What holds of the record s within a handler: t stands for s as it is after a part of *)
(* the handler.                                                              *)

Partial(D, V) == UNION {[N -> V] : N \in SUBSET D}
Contents == {Body[b] : b \in Blocks} \cup {EmptyBody}

States ==
  [state : {"Idle", "NotSynced", "Blocks", "Waiting"},
   headers : SUBSET Blocks, bodies : Partial(Nat, Contents), idToNumber : Partial(Contents, Nat),
   downloadingHeaders : SUBSET Nat, downloadingBodies : SUBSET Nat,
   headerSyncPeers : [Peers -> SUBSET Nat], bodySyncPeers : [Peers -> SUBSET Nat],
   haveCommonHeader : BOOLEAN, last : Nat, lastHash : All \cup {Nothing},
   syncingTotalDifficulty : Nat,
   connected : SUBSET Peers, asking : [Peers -> Requests \cup {Nothing}],
   totalDifficulty : [Peers -> Nat], latestHash : [Peers -> All],
   status : [Blocks -> {"Unknown", "UnknownParent", "Ready", "Importing"}]]

\* One header per number; a peer that is asked is there, and one that is to deliver
\* numbers is asked for them; each mark is of a number that a peer is to deliver.
OneEach(t) == \A b, c \in t.headers : number[b] = number[c] => b = c
Owned(t) ==
  /\ IsFiniteSet(t.connected) /\ t.connected \cap gone = {}
  /\ \A p \in Peers : t.asking[p] # Nothing => p \in t.connected
  /\ \A p \in Peers : t.headerSyncPeers[p] # {} => t.asking[p] # Nothing /\ t.asking[p].kind = "BlockHeaders"
  /\ \A p \in Peers : t.bodySyncPeers[p] # {} => t.asking[p] # Nothing /\ t.asking[p].kind = "BlockBodies"
  /\ \A n \in t.downloadingHeaders : \E p \in Peers : n \in t.headerSyncPeers[p]
  /\ \A n \in t.downloadingBodies : \E p \in Peers : n \in t.bodySyncPeers[p]
Clean(t) == t.headers = {} /\ DOMAIN t.bodies = {} /\ t.downloadingHeaders = {} /\ t.downloadingBodies = {}
Quiet(t) == t.state = "Idle" => Clean(t)

\* A block is stored or on its way there: that of m_lastImportedBlockHash, and the
\* parent of every block that is ready.
Placed(t, b) == Stored(b) \/ b \in With(t, "Ready") \cup With(t, "Importing")
LastPlaced(t) == t.lastHash # Nothing => number[t.lastHash] = t.last /\ Placed(t, t.lastHash)
Queued(t) ==
  /\ \A b \in With(t, "Ready") : Placed(t, Parent[b])
  /\ With(t, "Importing") \subseteq {draining.block}

\* The download has not gone back, or has been started anew.
Ahead(t) == t.haveCommonHeader /\ t.last >= s.last
Anew(t) == /\ t.headers = {}
           /\ \/ t.last >= s.last
              \/ t.last = number[head] /\ (t.haveCommonHeader => t.last <= 1)
Advanced(t) == s.haveCommonHeader => Ahead(t) \/ Anew(t)

Sound(t) == OneEach(t) /\ Owned(t) /\ Quiet(t) /\ LastPlaced(t) /\ Queued(t) /\ Advanced(t)
Kept == {t \in States : Sound(t)}

\* What the handlers read besides s: the chain holds a block with all before it.
ChainOK == /\ chain \in SUBSET Blocks /\ head \in chain \cup {Genesis}
           /\ \A b \in chain : Line[b] \subseteq chain \cup {Genesis}
PeersOK == /\ remote \in [Peers -> (SUBSET (Heads \cup {Genesis})) \ {{}}]
           /\ \A p \in Peers \ gone : remote[p] \subseteq Heads

LEMMA EmptyMaps == <<>> \in Partial(Nat, Contents) /\ <<>> \in Partial(Contents, Nat) /\ DOMAIN <<>> = {}
<1>1. <<>> \in [{} -> Contents] /\ <<>> \in [{} -> Nat]
  OBVIOUS
<1> QED BY <1>1 DEF Partial

LEMMA PartialRestrict ==
  ASSUME NEW D, NEW V, NEW f \in Partial(D, V), NEW S
  PROVE  Restrict(f, DOMAIN f \cap S) \in Partial(D, V) /\ Restrict(f, DOMAIN f \ S) \in Partial(D, V)
<1>1. PICK N \in SUBSET D : f \in [N -> V]
  BY DEF Partial
<1>2. Restrict(f, DOMAIN f \cap S) \in [N \cap S -> V] /\ Restrict(f, DOMAIN f \ S) \in [N \ S -> V]
  BY <1>1 DEF Restrict
<1>3. N \cap S \in SUBSET D /\ N \ S \in SUBSET D
  OBVIOUS
<1> QED BY <1>2, <1>3 DEF Partial

LEMMA PartialAdd ==
  ASSUME NEW D, NEW V, NEW f \in Partial(D, V), NEW d \in D, NEW v \in V
  PROVE  Put(f, d, v) \in Partial(D, V)
<1>1. PICK N \in SUBSET D : f \in [N -> V]
  BY DEF Partial
<1>2. Put(f, d, v) \in [N \cup {d} -> V]
  BY <1>1 DEF Put
<1>3. N \cup {d} \in SUBSET D
  OBVIOUS
<1> QED BY <1>2, <1>3 DEF Partial

\* The parts of a record's invariant that read only some of its members.
LEMMA SameQueue ==
  ASSUME NEW t, NEW u, u.status = t.status
  PROVE  /\ \A b : Placed(t, b) <=> Placed(u, b)
         /\ Queued(t) <=> Queued(u)
         /\ u.last = t.last /\ u.lastHash = t.lastHash => (LastPlaced(t) <=> LastPlaced(u))
BY DEF Placed, Queued, LastPlaced, With

LEMMA SameDownload ==
  ASSUME NEW t, NEW u, u.last = t.last, u.haveCommonHeader = t.haveCommonHeader, u.headers = t.headers
  PROVE  (Advanced(t) <=> Advanced(u)) /\ (OneEach(t) <=> OneEach(u))
BY DEF Advanced, Ahead, Anew, OneEach

LEMMA ClearFields ==
  ASSUME NEW t \in States, NEW p \in Peers, NEW u, u = clearPeerDownload(t, p)
  PROVE  /\ u \in States
         /\ u.state = t.state /\ u.headers = t.headers /\ u.haveCommonHeader = t.haveCommonHeader
         /\ u.asking = t.asking /\ u.connected = t.connected /\ u.status = t.status
         /\ u.last = t.last /\ u.lastHash = t.lastHash /\ u.bodies = t.bodies
         /\ u.headerSyncPeers[p] = {} /\ u.bodySyncPeers[p] = {}
         /\ u.downloadingHeaders = t.downloadingHeaders \ t.headerSyncPeers[p]
         /\ u.downloadingBodies = t.downloadingBodies \ t.bodySyncPeers[p]
         /\ \A q \in Peers \ {p} : /\ u.headerSyncPeers[q] = t.headerSyncPeers[q]
                                   /\ u.bodySyncPeers[q] = t.bodySyncPeers[q]
<1>1. u \in States
  BY DEF States, clearPeerDownload
<1>2. /\ u.state = t.state /\ u.headers = t.headers /\ u.haveCommonHeader = t.haveCommonHeader
      /\ u.asking = t.asking /\ u.connected = t.connected /\ u.status = t.status
      /\ u.last = t.last /\ u.lastHash = t.lastHash /\ u.bodies = t.bodies
  BY DEF States, clearPeerDownload
<1>3. /\ u.headerSyncPeers[p] = {} /\ u.bodySyncPeers[p] = {}
      /\ u.downloadingHeaders = t.downloadingHeaders \ t.headerSyncPeers[p]
      /\ u.downloadingBodies = t.downloadingBodies \ t.bodySyncPeers[p]
      /\ \A q \in Peers \ {p} : /\ u.headerSyncPeers[q] = t.headerSyncPeers[q]
                                /\ u.bodySyncPeers[q] = t.bodySyncPeers[q]
  BY DEF States, clearPeerDownload
<1> QED BY <1>1, <1>2, <1>3

LEMMA ClearPeer ==
  ASSUME NEW t \in Kept, NEW p \in Peers, NEW u, u = clearPeerDownload(t, p)
  PROVE  /\ u \in Kept
         /\ u.headerSyncPeers[p] = {} /\ u.bodySyncPeers[p] = {}
         /\ u.state = t.state /\ u.headers = t.headers /\ u.haveCommonHeader = t.haveCommonHeader
         /\ u.asking = t.asking /\ u.connected = t.connected /\ u.status = t.status
         /\ u.last = t.last /\ u.lastHash = t.lastHash /\ u.bodies = t.bodies
<1>0. t \in States /\ Sound(t)
  BY DEF Kept
<1>1. /\ u \in States
      /\ u.state = t.state /\ u.headers = t.headers /\ u.haveCommonHeader = t.haveCommonHeader
      /\ u.asking = t.asking /\ u.connected = t.connected /\ u.status = t.status
      /\ u.last = t.last /\ u.lastHash = t.lastHash /\ u.bodies = t.bodies
  BY <1>0, ClearFields
<1>2. /\ u.headerSyncPeers[p] = {} /\ u.bodySyncPeers[p] = {}
      /\ u.downloadingHeaders = t.downloadingHeaders \ t.headerSyncPeers[p]
      /\ u.downloadingBodies = t.downloadingBodies \ t.bodySyncPeers[p]
      /\ \A q \in Peers \ {p} : /\ u.headerSyncPeers[q] = t.headerSyncPeers[q]
                                /\ u.bodySyncPeers[q] = t.bodySyncPeers[q]
  BY <1>0, ClearFields
<1>3. Owned(u)
  <2>1. Owned(t)
    BY <1>0 DEF Sound
  <2> QED BY <1>1, <1>2, <2>1 DEF Owned
<1>4. Quiet(u)
  <2>1. Quiet(t)
    BY <1>0 DEF Sound
  <2> QED BY <1>1, <1>2, <2>1 DEF Quiet, Clean
<1>5. OneEach(u) /\ Advanced(u) /\ LastPlaced(u) /\ Queued(u)
  BY <1>0, <1>1, SameQueue, SameDownload DEF Sound
<1> QED BY <1>1, <1>2, <1>3, <1>4, <1>5 DEF Kept, Sound

\* A peer that is to deliver nothing is asked for something, or for nothing any more.
LEMMA AskPeer ==
  ASSUME NEW t \in Kept, NEW p \in Peers, NEW r \in Requests, p \in t.connected,
         t.headerSyncPeers[p] = {}, t.bodySyncPeers[p] = {},
         NEW u, u = Asked(t, p, r)
  PROVE  u \in Kept /\ u.connected = t.connected
<1>0. t \in States /\ Sound(t)
  BY DEF Kept
<1>1. /\ u \in States
      /\ u.state = t.state /\ u.headers = t.headers /\ u.haveCommonHeader = t.haveCommonHeader
      /\ u.connected = t.connected /\ u.status = t.status
      /\ u.last = t.last /\ u.lastHash = t.lastHash /\ u.bodies = t.bodies
      /\ u.downloadingHeaders = t.downloadingHeaders /\ u.downloadingBodies = t.downloadingBodies
      /\ u.headerSyncPeers = t.headerSyncPeers /\ u.bodySyncPeers = t.bodySyncPeers
  BY <1>0 DEF States, Asked
<1>2. \A q \in Peers \ {p} : u.asking[q] = t.asking[q]
  BY <1>0 DEF States, Asked
<1>3. Owned(u)
  <2>1. Owned(t)
    BY <1>0 DEF Sound
  <2> QED BY <1>1, <1>2, <2>1 DEF Owned
<1>4. Quiet(u)
  BY <1>0, <1>1 DEF Quiet, Clean, Sound
<1>5. OneEach(u) /\ Advanced(u) /\ LastPlaced(u) /\ Queued(u)
  BY <1>0, <1>1, SameQueue, SameDownload DEF Sound
<1> QED BY <1>1, <1>3, <1>4, <1>5 DEF Kept, Sound

LEMMA ReceivedKept ==
  ASSUME NEW t \in Kept, NEW p \in Peers, NEW u, u = Received(t, p)
  PROVE  /\ u \in Kept /\ u.state = t.state
         /\ u.haveCommonHeader = t.haveCommonHeader /\ u.last = t.last
<1>0. t \in States /\ Sound(t)
  BY DEF Kept
<1> DEFINE v == Asked(t, p, Nothing)
<1>1. /\ v \in States
      /\ v.state = t.state /\ v.headers = t.headers /\ v.haveCommonHeader = t.haveCommonHeader
      /\ v.connected = t.connected /\ v.status = t.status
      /\ v.last = t.last /\ v.lastHash = t.lastHash /\ v.bodies = t.bodies
      /\ v.downloadingHeaders = t.downloadingHeaders /\ v.downloadingBodies = t.downloadingBodies
      /\ v.headerSyncPeers = t.headerSyncPeers /\ v.bodySyncPeers = t.bodySyncPeers
      /\ v.asking[p] = Nothing /\ \A q \in Peers \ {p} : v.asking[q] = t.asking[q]
  BY <1>0 DEF States, Asked
<1> HIDE DEF v
<1>2. u = clearPeerDownload(v, p) /\ v \in States
  BY <1>1 DEF Received, v
<1>3. /\ u \in States
      /\ u.state = t.state /\ u.headers = t.headers /\ u.haveCommonHeader = t.haveCommonHeader
      /\ u.asking = v.asking /\ u.connected = t.connected /\ u.status = t.status
      /\ u.last = t.last /\ u.lastHash = t.lastHash /\ u.bodies = t.bodies
      /\ u.headerSyncPeers[p] = {} /\ u.bodySyncPeers[p] = {}
      /\ u.downloadingHeaders = t.downloadingHeaders \ t.headerSyncPeers[p]
      /\ u.downloadingBodies = t.downloadingBodies \ t.bodySyncPeers[p]
      /\ \A q \in Peers \ {p} : /\ u.headerSyncPeers[q] = t.headerSyncPeers[q]
                                /\ u.bodySyncPeers[q] = t.bodySyncPeers[q]
  <2>1. /\ u \in States
        /\ u.state = v.state /\ u.headers = v.headers /\ u.haveCommonHeader = v.haveCommonHeader
        /\ u.asking = v.asking /\ u.connected = v.connected /\ u.status = v.status
        /\ u.last = v.last /\ u.lastHash = v.lastHash /\ u.bodies = v.bodies
    BY <1>2, ClearFields
  <2>2. /\ u.headerSyncPeers[p] = {} /\ u.bodySyncPeers[p] = {}
        /\ u.downloadingHeaders = v.downloadingHeaders \ v.headerSyncPeers[p]
        /\ u.downloadingBodies = v.downloadingBodies \ v.bodySyncPeers[p]
        /\ \A q \in Peers \ {p} : /\ u.headerSyncPeers[q] = v.headerSyncPeers[q]
                                  /\ u.bodySyncPeers[q] = v.bodySyncPeers[q]
    BY <1>2, ClearFields
  <2> QED BY <1>1, <2>1, <2>2
<1>4. Owned(u)
  <2>1. Owned(t)
    BY <1>0 DEF Sound
  <2>2. IsFiniteSet(u.connected) /\ u.connected \cap gone = {} /\ \A q \in Peers : u.asking[q] # Nothing => q \in u.connected
    BY <1>1, <1>3, <2>1 DEF Owned
  <2>3. \A q \in Peers : u.headerSyncPeers[q] # {} => u.asking[q] # Nothing /\ u.asking[q].kind = "BlockHeaders"
    BY <1>1, <1>3, <2>1 DEF Owned
  <2>4. \A q \in Peers : u.bodySyncPeers[q] # {} => u.asking[q] # Nothing /\ u.asking[q].kind = "BlockBodies"
    BY <1>1, <1>3, <2>1 DEF Owned
  <2>5. /\ \A n \in u.downloadingHeaders : \E q \in Peers : n \in u.headerSyncPeers[q]
        /\ \A n \in u.downloadingBodies : \E q \in Peers : n \in u.bodySyncPeers[q]
    BY <1>3, <2>1 DEF Owned
  <2> QED BY <2>2, <2>3, <2>4, <2>5 DEF Owned
<1>5. Quiet(u)
  <2>1. Quiet(t)
    BY <1>0 DEF Sound
  <2> QED BY <1>3, <2>1 DEF Quiet, Clean
<1>6. OneEach(u) /\ Advanced(u) /\ LastPlaced(u) /\ Queued(u)
  BY <1>0, <1>3, SameQueue, SameDownload DEF Sound
<1> QED BY <1>3, <1>4, <1>5, <1>6 DEF Kept, Sound

LastSet(t, c, n, h) == [t EXCEPT !.haveCommonHeader = c, !.last = n, !.lastHash = h]
LEMMA SetLast ==
  ASSUME NEW t \in States, NEW c \in BOOLEAN, NEW n \in Nat, NEW h \in All \cup {Nothing},
         NEW u, u = LastSet(t, c, n, h)
  PROVE  /\ u \in States
         /\ u.haveCommonHeader = c /\ u.last = n /\ u.lastHash = h
         /\ u.headers = t.headers /\ u.bodies = t.bodies /\ u.state = t.state
         /\ u.downloadingHeaders = t.downloadingHeaders /\ u.downloadingBodies = t.downloadingBodies
         /\ u.headerSyncPeers = t.headerSyncPeers /\ u.bodySyncPeers = t.bodySyncPeers
         /\ u.asking = t.asking /\ u.connected = t.connected /\ u.status = t.status
BY DEF States, LastSet

LEMMA SetStatus ==
  ASSUME NEW t \in States, NEW f \in [Blocks -> {"Unknown", "UnknownParent", "Ready", "Importing"}],
         NEW u, u = [t EXCEPT !.status = f]
  PROVE  /\ u \in States /\ u.status = f
         /\ u.haveCommonHeader = t.haveCommonHeader /\ u.last = t.last /\ u.lastHash = t.lastHash
         /\ u.headers = t.headers /\ u.bodies = t.bodies /\ u.state = t.state
         /\ u.downloadingHeaders = t.downloadingHeaders /\ u.downloadingBodies = t.downloadingBodies
         /\ u.headerSyncPeers = t.headerSyncPeers /\ u.bodySyncPeers = t.bodySyncPeers
         /\ u.asking = t.asking /\ u.connected = t.connected /\ u.totalDifficulty = t.totalDifficulty
BY DEF States

\* What a sync that ends, or is started anew, leaves.
LEMMA EmptyDownload ==
  ASSUME NEW t \in States, Owned(t), NEW u,
         u.headers = {}, DOMAIN u.bodies = {}, u.downloadingHeaders = {}, u.downloadingBodies = {},
         u.headerSyncPeers = [p \in Peers |-> {}], u.bodySyncPeers = [p \in Peers |-> {}],
         u.asking = t.asking, u.connected = t.connected
  PROVE  OneEach(u) /\ Owned(u) /\ Quiet(u)
BY DEF OneEach, Owned, Quiet, Clean

LEMMA ResetFields ==
  ASSUME NEW t \in States, NEW u, u = resetSync(t)
  PROVE  /\ u \in States /\ u.state = "NotSynced"
         /\ u.headers = {} /\ DOMAIN u.bodies = {} /\ u.downloadingHeaders = {} /\ u.downloadingBodies = {}
         /\ u.headerSyncPeers = [p \in Peers |-> {}] /\ u.bodySyncPeers = [p \in Peers |-> {}]
         /\ u.asking = t.asking /\ u.connected = t.connected /\ u.status = t.status
         /\ u.haveCommonHeader = t.haveCommonHeader /\ u.last = t.last /\ u.lastHash = t.lastHash
<1>1. u \in States
  BY EmptyMaps DEF States, resetSync
<1>2. /\ u.state = "NotSynced"
      /\ u.headers = {} /\ DOMAIN u.bodies = {} /\ u.downloadingHeaders = {} /\ u.downloadingBodies = {}
      /\ u.headerSyncPeers = [p \in Peers |-> {}] /\ u.bodySyncPeers = [p \in Peers |-> {}]
  BY EmptyMaps DEF States, resetSync
<1>3. /\ u.asking = t.asking /\ u.connected = t.connected /\ u.status = t.status
      /\ u.haveCommonHeader = t.haveCommonHeader /\ u.last = t.last /\ u.lastHash = t.lastHash
  BY DEF States, resetSync
<1> QED BY <1>1, <1>2, <1>3

LEMMA ResetKept ==
  ASSUME NEW t \in Kept, NEW u, u = resetSync(t)
  PROVE  /\ u \in Kept /\ u.state = "NotSynced" /\ u.status = t.status
         /\ u.haveCommonHeader = t.haveCommonHeader /\ u.last = t.last /\ u.lastHash = t.lastHash
<1>0. t \in States /\ Sound(t)
  BY DEF Kept
<1>1. /\ u \in States /\ u.state = "NotSynced"
      /\ u.headers = {} /\ DOMAIN u.bodies = {} /\ u.downloadingHeaders = {} /\ u.downloadingBodies = {}
      /\ u.headerSyncPeers = [p \in Peers |-> {}] /\ u.bodySyncPeers = [p \in Peers |-> {}]
      /\ u.asking = t.asking /\ u.connected = t.connected /\ u.status = t.status
      /\ u.haveCommonHeader = t.haveCommonHeader /\ u.last = t.last /\ u.lastHash = t.lastHash
  BY <1>0, ResetFields
<1>2. OneEach(u) /\ Owned(u) /\ Quiet(u)
  BY <1>0, <1>1, EmptyDownload DEF Sound
<1>3. Advanced(u)
  BY <1>0, <1>1 DEF Advanced, Ahead, Anew, Sound
<1>4. LastPlaced(u) /\ Queued(u)
  BY <1>0, <1>1, SameQueue DEF Sound
<1> QED BY <1>1, <1>2, <1>3, <1>4 DEF Kept, Sound

\* completeSync().
LEMMA CompleteKept ==
  ASSUME NEW t \in Kept, NEW u, u = completeSync(t)
  PROVE  u \in Kept
<1>0. t \in States /\ Sound(t)
  BY DEF Kept
<1> DEFINE v == resetSync(t)
<1>1. /\ v \in States
      /\ v.headers = {} /\ DOMAIN v.bodies = {} /\ v.downloadingHeaders = {} /\ v.downloadingBodies = {}
      /\ v.headerSyncPeers = [p \in Peers |-> {}] /\ v.bodySyncPeers = [p \in Peers |-> {}]
      /\ v.asking = t.asking /\ v.connected = t.connected /\ v.status = t.status
      /\ v.haveCommonHeader = t.haveCommonHeader /\ v.last = t.last /\ v.lastHash = t.lastHash
  <2> HIDE DEF v
  <2> QED BY <1>0, ResetFields DEF v
<1>2. u = [v EXCEPT !.state = "Idle"]
  BY DEF completeSync
<1> HIDE DEF v
<1>3. u \in States
  BY <1>1, <1>2 DEF States
<1>4. /\ u.headers = v.headers /\ u.bodies = v.bodies
      /\ u.downloadingHeaders = v.downloadingHeaders /\ u.downloadingBodies = v.downloadingBodies
      /\ u.headerSyncPeers = v.headerSyncPeers /\ u.bodySyncPeers = v.bodySyncPeers
      /\ u.asking = v.asking /\ u.connected = v.connected /\ u.status = v.status
      /\ u.haveCommonHeader = v.haveCommonHeader /\ u.last = v.last /\ u.lastHash = v.lastHash
  BY <1>1, <1>2 DEF States
<1>5. OneEach(u) /\ Owned(u) /\ Quiet(u)
  BY <1>0, <1>1, <1>4, EmptyDownload DEF Sound
<1>6. Advanced(u)
  BY <1>0, <1>1, <1>4 DEF Advanced, Ahead, Anew, Sound
<1>7. LastPlaced(u) /\ Queued(u)
  BY <1>0, <1>1, <1>4, SameQueue DEF Sound
<1> QED BY <1>3, <1>5, <1>6, <1>7 DEF Kept, Sound

\* restartSync(): the head is stored.
LEMMA RestartKept ==
  ASSUME ChainOK, NEW t \in Kept, NEW u, u = restartSync(t)
  PROVE  u \in Kept /\ u.state = "NotSynced"
<1>0. t \in States /\ Sound(t)
  BY DEF Kept
<1> DEFINE v == resetSync(t)
<1>1. /\ v \in States /\ v.state = "NotSynced"
      /\ v.headers = {} /\ DOMAIN v.bodies = {} /\ v.downloadingHeaders = {} /\ v.downloadingBodies = {}
      /\ v.headerSyncPeers = [p \in Peers |-> {}] /\ v.bodySyncPeers = [p \in Peers |-> {}]
      /\ v.asking = t.asking /\ v.connected = t.connected /\ v.status = t.status
  <2> HIDE DEF v
  <2> QED BY <1>0, ResetFields DEF v
<1> DEFINE w == [v EXCEPT !.haveCommonHeader = FALSE, !.last = number[head], !.lastHash = head]
           f == [b \in Blocks |-> "Unknown"]
<1>2. u = [w EXCEPT !.status = f]
  BY DEF restartSync
<1> HIDE DEF v
<1>3. head \in All /\ number[head] \in Nat /\ Stored(head)
  BY TreeAssumption DEF ChainOK, Stored, All
<1>4. /\ w \in States /\ w.haveCommonHeader = FALSE /\ w.last = number[head] /\ w.lastHash = head
      /\ w.headers = v.headers /\ w.bodies = v.bodies /\ w.state = v.state
      /\ w.downloadingHeaders = v.downloadingHeaders /\ w.downloadingBodies = v.downloadingBodies
      /\ w.headerSyncPeers = v.headerSyncPeers /\ w.bodySyncPeers = v.bodySyncPeers
      /\ w.asking = v.asking /\ w.connected = v.connected
  <2> DEFINE no == FALSE
  <2>1. no \in BOOLEAN /\ head \in All \cup {Nothing} /\ v \in States
    BY <1>1, <1>3
  <2>2. w = LastSet(v, no, number[head], head)
    BY DEF LastSet
  <2> HIDE DEF w, no
  <2>3. /\ w \in States /\ w.haveCommonHeader = no /\ w.last = number[head] /\ w.lastHash = head
        /\ w.headers = v.headers /\ w.bodies = v.bodies /\ w.state = v.state
        /\ w.downloadingHeaders = v.downloadingHeaders /\ w.downloadingBodies = v.downloadingBodies
        /\ w.headerSyncPeers = v.headerSyncPeers /\ w.bodySyncPeers = v.bodySyncPeers
        /\ w.asking = v.asking /\ w.connected = v.connected
    BY <1>3, <2>1, <2>2, SetLast
  <2> QED BY <2>3 DEF no
<1>5. f \in [Blocks -> {"Unknown", "UnknownParent", "Ready", "Importing"}]
  OBVIOUS
<1> HIDE DEF w, f
<1>6. /\ u \in States /\ u.status = f
      /\ u.haveCommonHeader = w.haveCommonHeader /\ u.last = w.last /\ u.lastHash = w.lastHash
      /\ u.headers = w.headers /\ u.bodies = w.bodies /\ u.state = w.state
      /\ u.downloadingHeaders = w.downloadingHeaders /\ u.downloadingBodies = w.downloadingBodies
      /\ u.headerSyncPeers = w.headerSyncPeers /\ u.bodySyncPeers = w.bodySyncPeers
      /\ u.asking = w.asking /\ u.connected = w.connected
  BY <1>2, <1>4, <1>5, SetStatus
<1>7. OneEach(u) /\ Owned(u) /\ Quiet(u)
  <2>1. Owned(t)
    BY <1>0 DEF Sound
  <2> QED BY <1>0, <1>1, <1>4, <1>6, <2>1, EmptyDownload
<1>8. Advanced(u)
  <2>1. u.headers = {} /\ u.last = number[head] /\ u.haveCommonHeader = FALSE
    BY <1>1, <1>4, <1>6
  <2> QED BY <2>1 DEF Advanced, Anew
<1>9. LastPlaced(u) /\ Queued(u)
  <2>1. u.last = number[head] /\ u.lastHash = head /\ With(u, "Ready") = {} /\ With(u, "Importing") = {}
    BY <1>4, <1>6 DEF With, f
  <2> QED BY <1>3, <2>1 DEF LastPlaced, Queued, Placed
<1> QED BY <1>1, <1>4, <1>6, <1>7, <1>8, <1>9 DEF Kept, Sound

\* The numbers of the headers that are there.
LEMMA NumbersFacts ==
  ASSUME NEW t \in States
  PROVE  /\ Numbers(t) \in SUBSET Nat /\ IsFiniteSet(Numbers(t)) /\ 0 \notin Numbers(t)
         /\ Numbers(t) = {} <=> t.headers = {}
<1>1. t.headers \in SUBSET Blocks
  BY DEF States
<1>2. t.headers \in SUBSET All /\ IsFiniteSet(t.headers)
  <2>1. IsFiniteSet(Blocks)
    BY TreeAssumption
  <2>2. IsFiniteSet(t.headers)
    BY <1>1, <2>1, FS_Subset
  <2> QED BY <1>1, <2>2 DEF All
<1>3. Numbers(t) \in SUBSET Nat /\ IsFiniteSet(Numbers(t))
  BY <1>2, NumbersFinite DEF Numbers
<1>4. \A b \in Blocks : number[b] # 0
  BY TreeAssumption
<1> QED BY <1>1, <1>3, <1>4 DEF Numbers

LEMMA NumberHash ==
  ASSUME ChainOK, NEW n, NEW b, b = numberHash(n), b # Nothing
  PROVE  b \in All /\ number[b] = n /\ Stored(b)
<1>1. b \in LineAt(head, n)
  BY DEF numberHash
<1>2. b \in Line[head] /\ number[b] = n
  BY <1>1 DEF LineAt
<1>3. Line[head] \subseteq chain \cup {Genesis}
  BY LineStep DEF ChainOK
<1> QED BY <1>2, <1>3 DEF Stored, All, ChainOK

LEMMA StepBackKept ==
  ASSUME ChainOK, NEW t \in Kept, ~t.haveCommonHeader, NEW u, u = StepBack(t)
  PROVE  /\ u \in Kept
         /\ u.headers = t.headers /\ u.bodies = t.bodies /\ u.state = t.state
         /\ u.downloadingHeaders = t.downloadingHeaders /\ u.downloadingBodies = t.downloadingBodies
         /\ u.headerSyncPeers = t.headerSyncPeers /\ u.bodySyncPeers = t.bodySyncPeers
         /\ u.asking = t.asking /\ u.connected = t.connected
<1>0. t \in States /\ Sound(t)
  BY DEF Kept
<1> DEFINE start == IF t.headers = {} THEN t.last ELSE Min({t.last, Min(Numbers(t)) - 1})
           common == start <= 1
<1>1. t.last \in Nat
  BY <1>0 DEF States
<1>2. start \in Nat /\ (t.headers = {} => start = t.last)
  <2>1. CASE t.headers = {}
    BY <1>1, <2>1
  <2>2. CASE t.headers # {}
    <3>1. Min(Numbers(t)) \in Nat /\ Min(Numbers(t)) # 0
      <4>1. Numbers(t) \in SUBSET Nat /\ Numbers(t) # {} /\ 0 \notin Numbers(t)
        BY <1>0, <2>2, NumbersFacts
      <4> QED BY <4>1, MinIsThere
    <3>2. {t.last, Min(Numbers(t)) - 1} \in SUBSET Nat /\ {t.last, Min(Numbers(t)) - 1} # {}
      BY <1>1, <3>1
    <3>3. Min({t.last, Min(Numbers(t)) - 1}) \in {t.last, Min(Numbers(t)) - 1}
      BY <3>2, MinIsThere
    <3> QED BY <2>2, <3>2, <3>3
  <2> QED BY <2>1, <2>2
<1>3. common \in BOOLEAN /\ u = LastSet(t, common, start, numberHash(start))
  <2>1. common \in BOOLEAN
    <3> HIDE DEF start
    <3> QED BY <1>2
  <2>2. u = LastSet(t, common, start, numberHash(start))
    BY DEF StepBack, LastSet
  <2> QED BY <2>1, <2>2
<1> HIDE DEF start
<1>4. numberHash(start) \in All \cup {Nothing}
  BY NumberHash
<1>5. common = TRUE => start <= 1
  OBVIOUS
<1> HIDE DEF common
<1>6. /\ u \in States
      /\ u.haveCommonHeader = common /\ u.last = start /\ u.lastHash = numberHash(start)
      /\ u.headers = t.headers /\ u.bodies = t.bodies /\ u.state = t.state
      /\ u.downloadingHeaders = t.downloadingHeaders /\ u.downloadingBodies = t.downloadingBodies
      /\ u.headerSyncPeers = t.headerSyncPeers /\ u.bodySyncPeers = t.bodySyncPeers
      /\ u.asking = t.asking /\ u.connected = t.connected /\ u.status = t.status
  BY <1>0, <1>2, <1>3, <1>4, SetLast
<1>7. OneEach(u) /\ Owned(u) /\ Quiet(u)
  BY <1>0, <1>6 DEF OneEach, Owned, Quiet, Clean, Sound
<1>8. Advanced(u)
  <2> SUFFICES ASSUME s.haveCommonHeader PROVE Anew(u)
    BY DEF Advanced
  <2>1. Anew(t)
    BY <1>0 DEF Sound, Advanced, Ahead
  <2>2. u.headers = {} /\ u.last = t.last
    BY <1>2, <1>6, <2>1 DEF Anew
  <2>3. u.haveCommonHeader => u.last <= 1
    BY <1>5, <1>6
  <2> QED BY <2>1, <2>2, <2>3 DEF Anew
<1>9. LastPlaced(u)
  <2>1. u.lastHash # Nothing => number[u.lastHash] = u.last /\ Stored(u.lastHash)
    BY <1>6, NumberHash
  <2> QED BY <2>1 DEF LastPlaced, Placed
<1>10. Queued(u)
  BY <1>0, <1>6, SameQueue DEF Sound
<1> QED BY <1>6, <1>7, <1>8, <1>9, <1>10 DEF Kept, Sound

\* Bodies or headers are asked for.  What a peer is to deliver is asked for as such.
Others(t, u, p) ==
  \A q \in Peers \ {p} : /\ u.headerSyncPeers[q] = t.headerSyncPeers[q]
                         /\ u.bodySyncPeers[q] = t.bodySyncPeers[q]
                         /\ u.asking[q] = t.asking[q]
LEMMA AskFor ==
  ASSUME NEW t \in Kept, NEW p \in Peers, p \in t.connected, t.state # "Idle",
         t.headerSyncPeers[p] = {}, t.bodySyncPeers[p] = {},
         NEW hs \in SUBSET Nat, NEW bs \in SUBSET Nat, NEW r \in Requests,
         hs # {} => r.kind = "BlockHeaders", bs # {} => r.kind = "BlockBodies",
         NEW u \in States,
         u.state = t.state, u.headers = t.headers, u.haveCommonHeader = t.haveCommonHeader,
         u.connected = t.connected, u.status = t.status,
         u.last = t.last, u.lastHash = t.lastHash, u.bodies = t.bodies,
         u.downloadingHeaders = t.downloadingHeaders \cup hs,
         u.downloadingBodies = t.downloadingBodies \cup bs,
         u.headerSyncPeers[p] = hs, u.bodySyncPeers[p] = bs, u.asking[p] = r,
         Others(t, u, p)
  PROVE  u \in Kept /\ u.connected = t.connected
<1>0. t \in States /\ Sound(t)
  BY DEF Kept
<1>1. r # Nothing
  BY NothingAssumption
<1>2. Owned(u)
  <2>1. Owned(t)
    BY <1>0 DEF Sound
  <2>2. IsFiniteSet(u.connected) /\ u.connected \cap gone = {} /\ \A q \in Peers : u.asking[q] # Nothing => q \in u.connected
    BY <2>1 DEF Owned, Others
  <2>3. \A q \in Peers : u.headerSyncPeers[q] # {} => u.asking[q] # Nothing /\ u.asking[q].kind = "BlockHeaders"
    BY <1>1, <2>1 DEF Owned, Others
  <2>4. \A q \in Peers : u.bodySyncPeers[q] # {} => u.asking[q] # Nothing /\ u.asking[q].kind = "BlockBodies"
    BY <1>1, <2>1 DEF Owned, Others
  <2>5. \A n \in u.downloadingHeaders : \E q \in Peers : n \in u.headerSyncPeers[q]
    BY <2>1 DEF Owned, Others
  <2>6. \A n \in u.downloadingBodies : \E q \in Peers : n \in u.bodySyncPeers[q]
    BY <2>1 DEF Owned, Others
  <2> QED BY <2>2, <2>3, <2>4, <2>5, <2>6 DEF Owned
<1>3. Quiet(u)
  BY DEF Quiet
<1>4. OneEach(u) /\ Advanced(u) /\ LastPlaced(u) /\ Queued(u)
  BY <1>0, SameQueue, SameDownload DEF Sound
<1> QED BY <1>2, <1>3, <1>4 DEF Kept, Sound

LEMMA AskedState ==
  ASSUME NEW t \in States, NEW p \in Peers, NEW r \in Requests
  PROVE  Asked(t, p, r) \in States
BY DEF States, Asked

LEMMA AskBodiesKept ==
  ASSUME NEW t \in Kept, NEW p \in Peers, p \in t.connected, t.state # "Idle",
         t.headerSyncPeers[p] = {}, t.bodySyncPeers[p] = {},
         NEW u, u = AskBodies(t, p)
  PROVE  u \in Kept /\ u.connected = t.connected
<1>0. t \in States
  BY DEF Kept
<1> DEFINE needed == NeededBodies(t)
           r == Bodies({b \in t.headers : number[b] \in needed})
           none == {}
<1>1. needed \in SUBSET Nat
  <2>1. Numbers(t) \in SUBSET Nat
    BY <1>0, NumbersFacts
  <2>2. FirstRun(Numbers(t)) \subseteq Numbers(t)
    BY DEF FirstRun, RunFrom
  <2> QED BY <2>1, <2>2 DEF NeededBodies
<1>2. r \in Requests /\ r.kind = "BlockBodies"
  <2> DEFINE B == {b \in t.headers : number[b] \in needed}
  <2>1. B \in SUBSET Blocks /\ \A b, c \in B : number[b] = number[c] => b = c
    <3>1. OneEach(t)
      BY DEF Kept, Sound
    <3> QED BY <1>0, <3>1 DEF States, OneEach
  <2>2. r = Bodies(B)
    OBVIOUS
  <2> HIDE DEF B, r
  <2> DEFINE Q == {S \in SUBSET Blocks : \A b, c \in S : number[b] = number[c] => b = c}
  <2>3. B \in Q
    BY <2>1
  <2> HIDE DEF Q
  <2>4. r \in [kind : {"BlockBodies"}, of : Q] /\ r.kind = "BlockBodies"
    BY <2>2, <2>3 DEF Bodies
  <2> QED BY <2>4 DEF Requests, Q
<1>3. u = Asked([t EXCEPT !.bodySyncPeers[p] = needed, !.downloadingBodies = @ \cup needed], p, r)
  BY DEF AskBodies
<1>4. none \in SUBSET Nat /\ none = {}
  OBVIOUS
<1> HIDE DEF needed, r, none
<1>5. u \in States
  <2> DEFINE v == [t EXCEPT !.bodySyncPeers[p] = needed, !.downloadingBodies = @ \cup needed]
  <2>1. v \in States
    BY <1>0, <1>1 DEF States
  <2>2. u = Asked(v, p, r)
    BY <1>3
  <2> HIDE DEF v
  <2> QED BY <1>2, <2>1, <2>2, AskedState
<1>6. /\ u.state = t.state /\ u.headers = t.headers /\ u.haveCommonHeader = t.haveCommonHeader
      /\ u.connected = t.connected /\ u.status = t.status
      /\ u.last = t.last /\ u.lastHash = t.lastHash /\ u.bodies = t.bodies
  BY <1>0, <1>3 DEF States, Asked
<1>7. /\ u.downloadingHeaders = t.downloadingHeaders \cup none
      /\ u.downloadingBodies = t.downloadingBodies \cup needed
      /\ u.headerSyncPeers[p] = none /\ u.bodySyncPeers[p] = needed /\ u.asking[p] = r
  BY <1>0, <1>3, <1>4 DEF States, Asked
<1>8. Others(t, u, p)
  BY <1>0, <1>3 DEF States, Asked, Others
<1>9. none # {} => r.kind = "BlockHeaders"
  BY <1>4
<1> QED BY <1>1, <1>2, <1>4, <1>5, <1>6, <1>7, <1>8, <1>9, AskFor

LEMMA RunFinite ==
  ASSUME NEW t \in States, t.headers # {}
  PROVE  /\ Min(Numbers(t)) \in Nat /\ Max(Numbers(t)) \in Nat
         /\ Cardinality(FirstRun(Numbers(t))) \in Nat
<1>1. Numbers(t) \in SUBSET Nat /\ IsFiniteSet(Numbers(t)) /\ Numbers(t) # {}
  BY NumbersFacts
<1>2. Min(Numbers(t)) \in Nat
  BY <1>1, MinIsThere
<1>3. Max(Numbers(t)) \in Nat
  BY <1>1, MaxIsThere
<1>4. FirstRun(Numbers(t)) \subseteq Numbers(t)
  BY DEF FirstRun, RunFrom
<1>5. IsFiniteSet(FirstRun(Numbers(t)))
  BY <1>1, <1>4, FS_Subset
<1> QED BY <1>2, <1>3, <1>5, FS_CardinalityType

LEMMA AskHeadersKept ==
  ASSUME NEW t \in Kept, NEW p \in Peers, p \in t.connected, t.state # "Idle",
         t.headerSyncPeers[p] = {}, t.bodySyncPeers[p] = {},
         NEW u, u = AskHeaders(t, p)
  PROVE  u \in Kept /\ u.connected = t.connected
<1>0. t \in States
  BY DEF Kept
<1> DEFINE first == Min(Numbers(t))
           from == IF t.last + 1 < first THEN t.last + 1
                   ELSE first + Cardinality(FirstRun(Numbers(t)))
           gaps == {n \in from..Max(Numbers(t)) : n \notin Numbers(t)}
           start == Min(gaps \ t.downloadingHeaders)
           needed == RunFrom(gaps, start) \ t.downloadingHeaders
           r == ByNumber(start, Cardinality(needed))
           none == {}
<1>1. CASE t.headers = {} \/ gaps \subseteq t.downloadingHeaders
  BY <1>1 DEF AskHeaders
<1>2. CASE ~(t.headers = {} \/ gaps \subseteq t.downloadingHeaders)
  <2>1. first \in Nat /\ Max(Numbers(t)) \in Nat /\ Cardinality(FirstRun(Numbers(t))) \in Nat
    BY <1>0, <1>2, RunFinite
  <2>2. t.last \in Nat
    BY <1>0 DEF States
  <2>3. from \in Nat
    <3> HIDE DEF first
    <3> QED BY <2>1, <2>2
  <2>4. gaps \in SUBSET Nat /\ IsFiniteSet(gaps)
    <3> HIDE DEF from
    <3>1. from..Max(Numbers(t)) \in SUBSET Nat
      BY <2>1, <2>3
    <3>2. IsFiniteSet(from..Max(Numbers(t)))
      BY <2>1, <2>3, FS_Interval
    <3>3. gaps \subseteq from..Max(Numbers(t))
      OBVIOUS
    <3> QED BY <3>1, <3>2, <3>3, FS_Subset
  <2>5. start \in Nat
    <3>1. gaps \ t.downloadingHeaders # {}
      BY <1>2
    <3> HIDE DEF gaps
    <3>2. gaps \ t.downloadingHeaders \in SUBSET Nat
      BY <2>4
    <3> QED BY <3>1, <3>2, MinIsThere
  <2>6. needed \in SUBSET Nat /\ IsFiniteSet(needed)
    <3> HIDE DEF gaps, start
    <3>1. needed \subseteq gaps
      BY DEF RunFrom
    <3> HIDE DEF needed
    <3> QED BY <2>4, <3>1, FS_Subset
  <2>7. u = Asked([t EXCEPT !.headerSyncPeers[p] = needed, !.downloadingHeaders = @ \cup needed], p, r)
    BY <1>2 DEF AskHeaders
  <2> HIDE DEF needed, gaps, start, first, from
  <2>8. r \in Requests /\ r.kind = "BlockHeaders"
    <3>1. Cardinality(needed) \in Nat
      BY <2>6, FS_CardinalityType
    <3> QED BY <2>5, <3>1 DEF ByNumber, Requests
  <2>9. none \in SUBSET Nat /\ none = {}
    OBVIOUS
  <2> HIDE DEF r, none
  <2>10. u \in States
    <3> DEFINE v == [t EXCEPT !.headerSyncPeers[p] = needed, !.downloadingHeaders = @ \cup needed]
    <3>1. v \in States
      BY <1>0, <2>6 DEF States
    <3>2. u = Asked(v, p, r)
      BY <2>7
    <3> HIDE DEF v
    <3> QED BY <2>8, <3>1, <3>2, AskedState
  <2>11. /\ u.state = t.state /\ u.headers = t.headers /\ u.haveCommonHeader = t.haveCommonHeader
         /\ u.connected = t.connected /\ u.status = t.status
         /\ u.last = t.last /\ u.lastHash = t.lastHash /\ u.bodies = t.bodies
    BY <1>0, <2>7 DEF States, Asked
  <2>12. /\ u.downloadingHeaders = t.downloadingHeaders \cup needed
         /\ u.downloadingBodies = t.downloadingBodies \cup none
         /\ u.headerSyncPeers[p] = needed /\ u.bodySyncPeers[p] = none /\ u.asking[p] = r
    BY <1>0, <2>7, <2>9 DEF States, Asked
  <2>13. Others(t, u, p)
    BY <1>0, <2>7 DEF States, Asked, Others
  <2>14. none # {} => r.kind = "BlockBodies"
    BY <2>9
  <2> QED BY <2>6, <2>8, <2>9, <2>10, <2>11, <2>12, <2>13, <2>14, AskFor
<1> QED BY <1>1, <1>2

LEMMA RequestKept ==
  ASSUME ChainOK, NEW t0 \in Kept, NEW p \in Peers, p \in t0.connected, t0.state # "Idle",
         NEW u, u = requestBlocks(t0, p)
  PROVE  u \in Kept /\ u.connected = t0.connected
<1> DEFINE t == clearPeerDownload(t0, p)
           v == StepBack(t)
           w == IF t.haveCommonHeader THEN t ELSE v
<1>1. /\ t \in Kept /\ t.headerSyncPeers[p] = {} /\ t.bodySyncPeers[p] = {}
      /\ t.state # "Idle" /\ p \in t.connected /\ t.connected = t0.connected
  <2> HIDE DEF t
  <2> QED BY ClearPeer DEF t
<1>2. CASE knownFull(t)
  <2> DEFINE x == [t EXCEPT !.state = "Waiting"]
  <2>1. u = x
    BY <1>2 DEF requestBlocks
  <2> HIDE DEF t
  <2>2. t \in States /\ Sound(t)
    BY <1>1 DEF Kept
  <2>3. x \in States
    BY <2>2 DEF States
  <2>4. /\ x.state = "Waiting" /\ x.headers = t.headers /\ x.haveCommonHeader = t.haveCommonHeader
        /\ x.connected = t.connected /\ x.status = t.status /\ x.asking = t.asking
        /\ x.last = t.last /\ x.lastHash = t.lastHash
        /\ x.downloadingHeaders = t.downloadingHeaders /\ x.downloadingBodies = t.downloadingBodies
        /\ x.headerSyncPeers = t.headerSyncPeers /\ x.bodySyncPeers = t.bodySyncPeers
    BY <2>2 DEF States
  <2> HIDE DEF x
  <2>5. Quiet(x) /\ Owned(x)
    BY <2>2, <2>4 DEF Quiet, Owned, Sound
  <2>6. OneEach(x) /\ Advanced(x) /\ LastPlaced(x) /\ Queued(x)
    BY <2>2, <2>4, SameQueue, SameDownload DEF Sound
  <2> QED BY <1>1, <2>1, <2>3, <2>4, <2>5, <2>6 DEF Kept, Sound
<1>3. CASE ~knownFull(t) /\ NeededBodies(t) # {}
  <2>1. u = AskBodies(t, p)
    BY <1>3 DEF requestBlocks
  <2> HIDE DEF t
  <2> QED BY <1>1, <2>1, AskBodiesKept
<1>4. /\ w \in Kept /\ w.headerSyncPeers[p] = {} /\ w.bodySyncPeers[p] = {}
      /\ w.state # "Idle" /\ p \in w.connected /\ w.connected = t0.connected
  <2>1. CASE t.haveCommonHeader
    BY <1>1, <2>1
  <2>2. CASE ~t.haveCommonHeader
    <3>1. w = v
      BY <2>2
    <3> HIDE DEF t, w
    <3> QED BY <1>1, <2>2, <3>1, StepBackKept
  <2> QED BY <2>1, <2>2
<1>5. CASE ~knownFull(t) /\ NeededBodies(t) = {} /\ w.haveCommonHeader
  <2>1. u = AskHeaders(w, p)
    BY <1>5 DEF requestBlocks
  <2> HIDE DEF w, t
  <2> QED BY <1>4, <2>1, AskHeadersKept
<1>6. CASE ~knownFull(t) /\ NeededBodies(t) = {} /\ ~w.haveCommonHeader
  <2>1. u = Asked(w, p, ByNumber(w.last, 1))
    BY <1>6 DEF requestBlocks
  <2> HIDE DEF w, t
  <2>2. ByNumber(w.last, 1) \in Requests
    <3>1. w.last \in Nat
      BY <1>4 DEF Kept, States
    <3> QED BY <3>1 DEF ByNumber, Requests
  <2> QED BY <1>4, <2>1, <2>2, AskPeer
<1> QED BY <1>2, <1>3, <1>5, <1>6

LEMMA SyncPeerKept ==
  ASSUME ChainOK, NEW t \in Kept, NEW p \in Peers, p \in t.connected, NEW force,
         NEW u, u = syncPeer(t, p, force)
  PROVE  u \in Kept /\ u.connected = t.connected
<1> DEFINE x == [t EXCEPT !.syncingTotalDifficulty = t.totalDifficulty[p],
                          !.state = IF @ \in {"Idle", "NotSynced"} THEN "Blocks" ELSE @]
           ours == TotalDifficulty(head) + QueuedDifficulty(t)
           r == ByHash(t.latestHash[p])
           better == force \/ t.totalDifficulty[p] > Max({t.syncingTotalDifficulty, ours})
           busy == t.asking[p] # Nothing \/ t.state = "Waiting"
<1>0. t \in States /\ Sound(t)
  BY DEF Kept
<1>1. CASE busy
  BY <1>1 DEF syncPeer
<1>2. CASE ~busy /\ better
  <2>1. u = Asked(x, p, r)
    BY <1>2 DEF syncPeer
  <2>2. x \in States
    BY <1>0 DEF States
  <2>3. /\ x.state # "Idle" /\ x.headers = t.headers /\ x.haveCommonHeader = t.haveCommonHeader
        /\ x.connected = t.connected /\ x.status = t.status /\ x.asking = t.asking
        /\ x.last = t.last /\ x.lastHash = t.lastHash
        /\ x.downloadingHeaders = t.downloadingHeaders /\ x.downloadingBodies = t.downloadingBodies
        /\ x.headerSyncPeers = t.headerSyncPeers /\ x.bodySyncPeers = t.bodySyncPeers
    BY <1>0 DEF States
  <2> HIDE DEF x, better, ours
  <2>4. Quiet(x) /\ Owned(x)
    BY <1>0, <2>3 DEF Quiet, Owned, Sound
  <2>5. OneEach(x) /\ Advanced(x) /\ LastPlaced(x) /\ Queued(x)
    BY <1>0, <2>3, SameQueue, SameDownload DEF Sound
  <2>6. x \in Kept
    BY <2>2, <2>4, <2>5 DEF Kept, Sound
  <2>7. x.headerSyncPeers[p] = {} /\ x.bodySyncPeers[p] = {} /\ p \in x.connected
    BY <1>0, <1>2, <2>3 DEF Owned, Sound
  <2>8. r \in Requests
    <3>1. t.latestHash[p] \in All
      BY <1>0 DEF States
    <3>2. number[t.latestHash[p]] \in Nat
      BY <3>1, TreeAssumption
    <3> QED BY <3>2 DEF ByHash, Requests
  <2> HIDE DEF r
  <2> QED BY <2>1, <2>3, <2>6, <2>7, <2>8, AskPeer
<1>3. CASE ~busy /\ ~better /\ t.state = "Blocks"
  <2>1. u = requestBlocks(t, p) /\ t.state # "Idle"
    BY <1>3 DEF syncPeer
  <2> QED BY <2>1, RequestKept
<1>4. CASE ~busy /\ ~better /\ t.state # "Blocks"
  BY <1>4 DEF syncPeer
<1> QED BY <1>1, <1>2, <1>3, <1>4

\* continueSync(): in whatever order the peers come.
LEMMA ContinueKept ==
  ASSUME ChainOK, NEW t \in Kept, NEW u \in continueSync(t)
  PROVE  u \in Kept /\ u.connected = t.connected
<1>1. PICK order \in SetToSeqs(t.connected) :
         u = FoldLeft(LAMBDA x, p : syncPeer(x, p, FALSE), t, order)
  BY DEF continueSync
<1> DEFINE n == Cardinality(t.connected)
           D == 1..n
           R == {x \in Kept : x.connected = t.connected}
           pick == [S \in (SUBSET D) \ {{}} |-> Max(S)]
           F == [y \in R \X D |-> syncPeer(y[1], order[y[2]], FALSE)]
           body(g, S) == IF S = {} THEN t ELSE syncPeer(g[S \ {Max(S)}], order[Max(S)], FALSE)
<1>2. n \in Nat
  <2>1. IsFiniteSet(t.connected)
    BY DEF Kept, Sound, Owned
  <2> QED BY <2>1, FS_CardinalityType
<1>3. order \in [D -> t.connected] /\ DOMAIN order = D
  BY DEF SetToSeqs
<1>4. IsFiniteSet(D) /\ pick \in Choosers(D)
  <2> HIDE DEF n
  <2> QED BY <1>2, MaxChooses
<1>5. t.connected \in SUBSET Peers
  BY DEF Kept, States
<1>6. ASSUME NEW x \in R, NEW i \in D PROVE syncPeer(x, order[i], FALSE) \in R
  <2>1. order[i] \in Peers /\ order[i] \in x.connected /\ x \in Kept /\ x.connected = t.connected
    BY <1>3, <1>5
  <2>2. \A v : v = syncPeer(x, order[i], FALSE) => v \in Kept /\ v.connected = x.connected
    <3> DEFINE no == FALSE
    <3> HIDE DEF R, D, no
    <3>1. \A v : v = syncPeer(x, order[i], no) => v \in Kept /\ v.connected = x.connected
      BY <2>1, SyncPeerKept
    <3> QED BY <3>1 DEF no
  <2> QED BY <2>1, <2>2
<1>7. F \in [R \X D -> R] /\ t \in R
  <2> HIDE DEF R, D
  <2>1. F \in [R \X D -> R]
    BY <1>6
  <2>2. t \in R
    BY DEF R
  <2> QED BY <2>1, <2>2
<1> HIDE DEF n
<1>8. PICK g \in [SUBSET D -> R] : \A S \in SUBSET D :
         g[S] = IF S = {} THEN t ELSE F[<<g[S \ {pick[S]}], pick[S]>>]
  <2> HIDE DEF D, pick, F, body, R
  <2>1. Foldings(D, pick, R, t, F) # {}
    BY <1>4, <1>7, FoldExists
  <2> QED BY <2>1 DEF Foldings
<1>9. g = [S \in SUBSET D |-> body(g, S)]
  <2>1. ASSUME NEW S \in SUBSET D PROVE g[S] = body(g, S)
    <3>1. CASE S = {}
      BY <1>8, <3>1
    <3>2. CASE S # {}
      <4>1. pick[S] = Max(S)
        BY <3>2
      <4>2. pick[S] \in D /\ g[S \ {pick[S]}] \in R
        <5> HIDE DEF pick, D, R
        <5> QED BY <1>4, <3>2 DEF Choosers
      <4>3. F[<<g[S \ {pick[S]}], pick[S]>>] = syncPeer(g[S \ {pick[S]}], order[pick[S]], FALSE)
        <5> HIDE DEF pick, D, R
        <5> QED BY <4>2
      <4> HIDE DEF pick, F, D, R
      <4> QED BY <1>8, <3>2, <4>1, <4>3
    <3> QED BY <3>1, <3>2
  <2> HIDE DEF body, D, R
  <2> QED BY <2>1
<1> DEFINE it == CHOOSE f : f = [S \in SUBSET D |-> body(f, S)]
<1>10. it = [S \in SUBSET D |-> body(it, S)]
  <2> HIDE DEF body, D
  <2> QED BY <1>9
<1>11. u = it[D]
  BY <1>1, <1>3 DEF FoldLeft, MapThenFoldSet
<1> HIDE DEF it
<1>12. it[{}] \in R
  <2>1. it[{}] = t
    BY <1>10
  <2> QED BY <1>7, <2>1
<1>13. ASSUME NEW S \in SUBSET D, S # {}, it[S \ {pick[S]}] \in R PROVE it[S] \in R
  <2>1. pick[S] = Max(S) /\ pick[S] \in D
    <3>1. pick[S] = Max(S)
      BY <1>13
    <3> HIDE DEF pick, D
    <3> QED BY <3>1, <1>4, <1>13 DEF Choosers
  <2>2. it[S] = syncPeer(it[S \ {pick[S]}], order[pick[S]], FALSE)
    <3> HIDE DEF D, R
    <3>1. it[S] = body(it, S)
      <4> HIDE DEF body, pick
      <4> QED BY <1>10
    <3>2. body(it, S) = syncPeer(it[S \ {Max(S)}], order[Max(S)], FALSE)
      BY <1>13
    <3> HIDE DEF pick, body
    <3> QED BY <2>1, <3>1, <3>2
  <2>3. \A x \in R : \A i \in D : syncPeer(x, order[i], FALSE) \in R
    <3> HIDE DEF D, R
    <3> QED BY <1>6
  <2> HIDE DEF pick, D, R, F, body
  <2>4. syncPeer(it[S \ {pick[S]}], order[pick[S]], FALSE) \in R
    BY <1>13, <2>1, <2>3
  <2> QED BY <2>2, <2>4
<1>14. it[D] \in R
  <2> HIDE DEF pick, D, R
  <2> QED BY <1>4, <1>12, <1>13, FoldStays
<1> QED BY <1>11, <1>14

-----------------------------------------------------------------------------
(* The queue, as a handler sees it.                                          *)

\* A block is taken from "Unknown" to "Ready" or "UnknownParent", with it those that wait
\* for it become ready: each has its parent among them, or is a child of the block.
LEMMA ImportStatus ==
  ASSUME NEW t \in States, Queued(t), NEW b \in Blocks, NEW body, NEW u, u = import(t, b, body)
  PROVE  /\ u \in States /\ Queued(u)
         /\ \A c : Placed(t, c) => Placed(u, c)
         /\ importResult(t, b, body) = "Success" => Placed(u, b)
         /\ u.haveCommonHeader = t.haveCommonHeader /\ u.last = t.last /\ u.lastHash = t.lastHash
         /\ u.headers = t.headers /\ u.bodies = t.bodies /\ u.state = t.state
         /\ u.downloadingHeaders = t.downloadingHeaders /\ u.downloadingBodies = t.downloadingBodies
         /\ u.headerSyncPeers = t.headerSyncPeers /\ u.bodySyncPeers = t.bodySyncPeers
         /\ u.asking = t.asking /\ u.connected = t.connected
<1> DEFINE W == Behind(With(t, "UnknownParent"), b)
           S == {b} \cup W
           f(X, st) == [c \in Blocks |-> IF c \in X THEN st ELSE t.status[c]]
           result == importResult(t, b, body)
<1>0. t.status \in [Blocks -> {"Unknown", "UnknownParent", "Ready", "Importing"}]
  BY DEF States
<1>1. W \in SUBSET With(t, "UnknownParent")
  BY DEF Behind
<1>2. CASE result = "Success"
  <2>1. t.status[b] = "Unknown" /\ OnItsWay(t, Parent[b])
    BY <1>2 DEF importResult
  <2> DEFINE h == f(S, "Ready")
  <2>2. u = [t EXCEPT !.status = h]
    <3>1. u = Become(t, S, "Ready")
      BY <1>2 DEF import
    <3> QED BY <3>1 DEF Become
  <2>3. h \in [Blocks -> {"Unknown", "UnknownParent", "Ready", "Importing"}]
    <3> HIDE DEF S
    <3> QED BY <1>0
  <2>4. With(t, "Ready") \subseteq With([t EXCEPT !.status = h], "Ready")
    <3> SUFFICES ASSUME NEW c \in Blocks, t.status[c] = "Ready" PROVE h[c] = "Ready"
      BY <2>3 DEF With, States
    <3> HIDE DEF S
    <3> QED OBVIOUS
  <2> HIDE DEF h
  <2>5. /\ u \in States /\ u.status = h
        /\ u.haveCommonHeader = t.haveCommonHeader /\ u.last = t.last /\ u.lastHash = t.lastHash
        /\ u.headers = t.headers /\ u.bodies = t.bodies /\ u.state = t.state
        /\ u.downloadingHeaders = t.downloadingHeaders /\ u.downloadingBodies = t.downloadingBodies
        /\ u.headerSyncPeers = t.headerSyncPeers /\ u.bodySyncPeers = t.bodySyncPeers
        /\ u.asking = t.asking /\ u.connected = t.connected
    BY <2>2, <2>3, SetStatus
  <2>6. With(u, "Ready") = With(t, "Ready") \cup S /\ With(u, "Importing") = With(t, "Importing")
    <3>1. \A c \in Blocks : u.status[c] = IF c \in S THEN "Ready" ELSE t.status[c]
      BY <2>5 DEF h
    <3>2. \A c \in S : c \in Blocks /\ t.status[c] # "Importing"
      BY <1>1, <2>1 DEF With
    <3> HIDE DEF S
    <3> QED BY <3>1, <3>2 DEF With
  <2>7. \A c : Placed(t, c) => Placed(u, c)
    BY <2>6 DEF Placed
  <2>8. Placed(u, b)
    BY <2>6 DEF Placed
  <2>9. \A c \in With(t, "Ready") : Placed(u, Parent[c])
    BY <2>7 DEF Queued
  <2>10. Placed(u, Parent[b])
    <3>1. Placed(t, Parent[b])
      BY <2>1 DEF OnItsWay, InChain, Placed, Stored
    <3> QED BY <2>7, <3>1
  <2>11. ASSUME NEW c \in W PROVE Placed(u, Parent[c])
    <3>1. /\ c \in Blocks /\ t.status[c] = "UnknownParent" /\ b \in Line[c]
          /\ \A d \in Line[c] \ Line[b] : d \in With(t, "UnknownParent")
      BY DEF Behind, With
    <3>2. c # b
      BY <2>1, <3>1
    <3> DEFINE p == Parent[c]
    <3>3. Line[c] = {c} \cup Line[p] /\ p \in All
      BY <3>1, LineStep
    <3>4. b \in Line[p]
      BY <3>1, <3>2, <3>3
    <3>5. p \in Line[p]
      BY <3>3, LineFacts
    <3>6. CASE p \in Line[b]
      <4>1. number[b] <= number[p] /\ (number[b] = number[p] => b = p)
        BY <3>3, <3>4, LineFacts
      <4>2. number[p] <= number[b]
        BY <3>6, LineFacts DEF All
      <4>3. number[p] \in Nat /\ number[b] \in Nat
        BY <3>3, TreeAssumption DEF All
      <4>4. b = p
        BY <4>1, <4>2, <4>3
      <4> QED BY <2>8, <4>4
    <3>7. CASE p \notin Line[b]
      <4>1. p \in With(t, "UnknownParent") /\ \A d \in Line[p] \ Line[b] : d \in With(t, "UnknownParent")
        BY <3>1, <3>3, <3>5, <3>7
      <4>2. p \in W
        BY <3>4, <4>1 DEF Behind
      <4> QED BY <2>6, <4>2 DEF Placed
    <3> QED BY <3>6, <3>7
  <2>12. Queued(u)
    <3>1. With(u, "Importing") \subseteq {draining.block}
      BY <2>6 DEF Queued
    <3>2. \A c \in With(u, "Ready") : c \in With(t, "Ready") \/ c = b \/ c \in W
      BY <2>6
    <3> HIDE DEF W
    <3>3. \A c \in With(u, "Ready") : Placed(u, Parent[c])
      BY <2>9, <2>10, <2>11, <3>2
    <3> QED BY <3>1, <3>3 DEF Queued
  <2> QED BY <2>5, <2>7, <2>8, <2>12
<1>3. CASE result = "UnknownParent"
  <2>1. t.status[b] = "Unknown"
    BY <1>3 DEF importResult
  <2> DEFINE h == f({b}, "UnknownParent")
  <2>2. u = [t EXCEPT !.status = h]
    <3>1. u = Become(t, {b}, "UnknownParent")
      BY <1>3 DEF import
    <3> QED BY <3>1 DEF Become
  <2>3. h \in [Blocks -> {"Unknown", "UnknownParent", "Ready", "Importing"}]
    BY <1>0
  <2> HIDE DEF h
  <2>5. /\ u \in States /\ u.status = h
        /\ u.haveCommonHeader = t.haveCommonHeader /\ u.last = t.last /\ u.lastHash = t.lastHash
        /\ u.headers = t.headers /\ u.bodies = t.bodies /\ u.state = t.state
        /\ u.downloadingHeaders = t.downloadingHeaders /\ u.downloadingBodies = t.downloadingBodies
        /\ u.headerSyncPeers = t.headerSyncPeers /\ u.bodySyncPeers = t.bodySyncPeers
        /\ u.asking = t.asking /\ u.connected = t.connected
    BY <2>2, <2>3, SetStatus
  <2>6. With(u, "Ready") = With(t, "Ready") /\ With(u, "Importing") = With(t, "Importing")
    BY <2>1, <2>5 DEF With, h
  <2>7. (\A c : Placed(t, c) => Placed(u, c)) /\ Queued(u)
    BY <2>6 DEF Placed, Queued
  <2> QED BY <1>3, <2>5, <2>7
<1>4. CASE result # "Success" /\ result # "UnknownParent"
  <2>1. u = t
    BY <1>4 DEF import
  <2> QED BY <1>4, <2>1
<1> QED BY <1>2, <1>3, <1>4

\* The same with the rest of what holds; and the block becomes the last one.
LEMMA ImportKept ==
  ASSUME NEW t \in Kept, NEW b \in Blocks, NEW body, NEW u, u = import(t, b, body)
  PROVE  /\ u \in Kept
         /\ importResult(t, b, body) = "Success" => Placed(u, b)
         /\ u.state = t.state /\ u.connected = t.connected
         /\ u.haveCommonHeader = t.haveCommonHeader /\ u.last = t.last
<1>0. t \in States /\ Sound(t) /\ Queued(t)
  BY DEF Kept, Sound
<1>1. /\ u \in States /\ Queued(u)
      /\ \A c : Placed(t, c) => Placed(u, c)
      /\ importResult(t, b, body) = "Success" => Placed(u, b)
      /\ u.haveCommonHeader = t.haveCommonHeader /\ u.last = t.last /\ u.lastHash = t.lastHash
      /\ u.headers = t.headers /\ u.bodies = t.bodies /\ u.state = t.state
      /\ u.downloadingHeaders = t.downloadingHeaders /\ u.downloadingBodies = t.downloadingBodies
      /\ u.headerSyncPeers = t.headerSyncPeers /\ u.bodySyncPeers = t.bodySyncPeers
      /\ u.asking = t.asking /\ u.connected = t.connected
  BY <1>0, ImportStatus
<1>2. Owned(u) /\ Quiet(u)
  BY <1>0, <1>1 DEF Owned, Quiet, Clean, Sound
<1>3. OneEach(u) /\ Advanced(u)
  BY <1>0, <1>1, SameDownload DEF Sound
<1>4. LastPlaced(u)
  BY <1>0, <1>1 DEF LastPlaced, Sound
<1> QED BY <1>1, <1>2, <1>3, <1>4 DEF Kept, Sound

LastOnly(t, n, b) == [t EXCEPT !.last = n, !.lastHash = b]
LEMMA SetLastOnly ==
  ASSUME NEW t \in States, NEW n \in Nat, NEW h \in All, NEW u, u = LastOnly(t, n, h)
  PROVE  /\ u \in States /\ u.last = n /\ u.lastHash = h
         /\ u.headers = t.headers /\ u.bodies = t.bodies /\ u.state = t.state
         /\ u.downloadingHeaders = t.downloadingHeaders /\ u.downloadingBodies = t.downloadingBodies
         /\ u.headerSyncPeers = t.headerSyncPeers /\ u.bodySyncPeers = t.bodySyncPeers
         /\ u.asking = t.asking /\ u.connected = t.connected /\ u.status = t.status
         /\ u.haveCommonHeader = t.haveCommonHeader
BY DEF States, LastOnly

\* A sync in progress, which has not gone back.
Live == {t \in Kept : t.state = "Blocks" /\ (s.haveCommonHeader => Ahead(t))}

LEMMA NowLastKept ==
  ASSUME s \in States, NEW t \in Kept, NEW b \in All, NEW n, n = number[b], Placed(t, b),
         NEW u, u = NowLast(t, n, b), s.haveCommonHeader => Ahead(t)
  PROVE  u \in Kept /\ u.state = t.state /\ (s.haveCommonHeader => Ahead(u)) /\ u.connected = t.connected
<1>0. t \in States /\ Sound(t)
  BY DEF Kept
<1>1. CASE ~(n > t.last)
  BY <1>1 DEF NowLast
<1>2. CASE n > t.last
  <2>1. u = LastOnly(t, n, b)
    BY <1>2 DEF NowLast, LastOnly
  <2>2. n \in Nat /\ t.last \in Nat /\ s.last \in Nat
    BY <1>0, TreeAssumption DEF States
  <2>3. /\ u \in States /\ u.last = n /\ u.lastHash = b
        /\ u.headers = t.headers /\ u.bodies = t.bodies /\ u.state = t.state
        /\ u.downloadingHeaders = t.downloadingHeaders /\ u.downloadingBodies = t.downloadingBodies
        /\ u.headerSyncPeers = t.headerSyncPeers /\ u.bodySyncPeers = t.bodySyncPeers
        /\ u.asking = t.asking /\ u.connected = t.connected /\ u.status = t.status
        /\ u.haveCommonHeader = t.haveCommonHeader
    BY <1>0, <2>1, <2>2, SetLastOnly
  <2>4. OneEach(u) /\ Owned(u) /\ Quiet(u)
    BY <1>0, <2>3 DEF OneEach, Owned, Quiet, Clean, Sound
  <2>5. s.haveCommonHeader => Ahead(u)
    BY <1>2, <2>2, <2>3 DEF Ahead
  <2>6. LastPlaced(u) /\ Queued(u)
    BY <1>0, <2>3, SameQueue DEF LastPlaced, Sound
  <2> QED BY <2>3, <2>4, <2>5, <2>6 DEF Kept, Sound, Advanced
<1> QED BY <1>1, <1>2

\* What an item of an answer changes: headers, bodies and marks of a sync in progress.
LEMMA LiveChange ==
  ASSUME NEW t \in Live, NEW u \in States, OneEach(u),
         u.state = t.state, u.haveCommonHeader = t.haveCommonHeader,
         u.last = t.last, u.lastHash = t.lastHash, u.status = t.status,
         u.asking = t.asking, u.connected = t.connected,
         u.headerSyncPeers = t.headerSyncPeers, u.bodySyncPeers = t.bodySyncPeers,
         u.downloadingHeaders \subseteq t.downloadingHeaders,
         u.downloadingBodies \subseteq t.downloadingBodies
  PROVE  u \in Live
<1>0. t \in States /\ Sound(t) /\ t.state = "Blocks" /\ (s.haveCommonHeader => Ahead(t))
  BY DEF Kept, Live
<1>1. Owned(u)
  BY <1>0 DEF Owned, Sound
<1>2. Quiet(u)
  BY <1>0 DEF Quiet
<1>3. s.haveCommonHeader => Ahead(u)
  BY <1>0 DEF Ahead
<1>4. LastPlaced(u) /\ Queued(u)
  BY <1>0, SameQueue DEF Sound
<1> QED BY <1>0, <1>1, <1>2, <1>3, <1>4 DEF Live, Kept, Sound, Advanced

\* What a loop over the items of an answer comes to.
Results == {r \in [t : Kept, done : BOOLEAN] : r.done \/ r.t \in Live}

LEMMA ResultsAre ==
  /\ \A t \in Live : Going(t) \in Results /\ ~Going(t).done /\ Going(t).t = t
  /\ \A t \in Kept : Done(t) \in Results
  /\ \A r \in Results : r.t \in Kept /\ (~r.done => r.t \in Live)
<1>1. \A t \in Live : t \in Kept
  BY DEF Live
<1> HIDE DEF Kept, Live
<1>2. \A t \in Live : Going(t) \in Results /\ ~Going(t).done /\ Going(t).t = t
  BY <1>1 DEF Going, Results
<1>3. \A t \in Kept : Done(t) \in Results
  BY DEF Done, Results
<1>4. \A r \in Results : r.t \in Kept /\ (~r.done => r.t \in Live)
  BY DEF Results
<1> QED BY <1>2, <1>3, <1>4

LEMMA BodyType ==
  ASSUME NEW b \in Blocks
  PROVE  Body[b] \in Contents /\ EmptyBody \in Contents
BY DEF Contents

\* KeepBodies(KeepHeaders()): of headers and bodies, those of some numbers.
LEMMA KeepLive ==
  ASSUME NEW t \in Live, NEW N, NEW M, NEW u, u = KeepBodies(KeepHeaders(t, N), M)
  PROVE  /\ u \in Live
         /\ u.headers = {b \in t.headers : number[b] \in N}
<1>0. t \in States /\ OneEach(t)
  BY DEF Live, Kept, Sound
<1> DEFINE hs == {b \in t.headers : number[b] \in N}
           bs == Restrict(t.bodies, DOMAIN t.bodies \cap M)
           x == [t EXCEPT !.headers = hs]
<1>1. hs \in SUBSET Blocks /\ hs \subseteq t.headers
  BY <1>0 DEF States
<1>2. bs \in Partial(Nat, Contents)
  <2>1. t.bodies \in Partial(Nat, Contents)
    BY <1>0 DEF States
  <2> QED BY <2>1, PartialRestrict
<1>3. x.bodies = t.bodies /\ u = [x EXCEPT !.bodies = bs]
  <2>1. x.bodies = t.bodies
    BY <1>0 DEF States
  <2>2. KeepHeaders(t, N) = x
    BY DEF KeepHeaders
  <2> HIDE DEF x
  <2> QED BY <2>1, <2>2 DEF KeepBodies
<1> HIDE DEF hs, bs
<1>4. x \in States
  BY <1>0, <1>1 DEF States
<1>5. u \in States
  <2> HIDE DEF x
  <2> QED BY <1>2, <1>3, <1>4 DEF States
<1>6. /\ u.headers = hs
      /\ u.state = t.state /\ u.haveCommonHeader = t.haveCommonHeader
      /\ u.last = t.last /\ u.lastHash = t.lastHash /\ u.status = t.status
      /\ u.asking = t.asking /\ u.connected = t.connected
      /\ u.headerSyncPeers = t.headerSyncPeers /\ u.bodySyncPeers = t.bodySyncPeers
      /\ u.downloadingHeaders = t.downloadingHeaders /\ u.downloadingBodies = t.downloadingBodies
  BY <1>0, <1>3 DEF States
<1>7. OneEach(u)
  BY <1>0, <1>1, <1>6 DEF OneEach
<1>8. /\ u.downloadingHeaders \subseteq t.downloadingHeaders
      /\ u.downloadingBodies \subseteq t.downloadingBodies
  BY <1>6
<1>9. u \in Live
  BY <1>5, <1>6, <1>7, <1>8, LiveChange
<1> QED BY <1>6, <1>9 DEF hs

LEMMA ClearFollowingLive ==
  ASSUME NEW t \in Live, NEW b \in Blocks, NEW u, u = ClearFollowing(t, b)
  PROVE  u \in Live /\ u.headers \subseteq t.headers
<1>0. t \in States /\ OneEach(t)
  BY DEF Live, Kept, Sound
<1> DEFINE n == number[b] + 1
           cut == RunFrom(Numbers(t), n)
           below == 0..(n - 1)
           ids == Restrict(t.idToNumber, DOMAIN t.idToNumber \ {Body[b]})
           x == [t EXCEPT !.idToNumber = ids,
                          !.downloadingBodies = @ \ cut, !.downloadingHeaders = @ \ cut]
<1>1. u = KeepBodies(KeepHeaders(x, below), below)
  BY DEF ClearFollowing
<1>2. ids \in Partial(Contents, Nat)
  <2>1. t.idToNumber \in Partial(Contents, Nat)
    BY <1>0 DEF States
  <2> QED BY <2>1, PartialRestrict
<1> HIDE DEF ids, cut, below, n
<1>3. x \in States
  BY <1>0, <1>2 DEF States
<1>4. /\ x.headers = t.headers
      /\ x.state = t.state /\ x.haveCommonHeader = t.haveCommonHeader
      /\ x.last = t.last /\ x.lastHash = t.lastHash /\ x.status = t.status
      /\ x.asking = t.asking /\ x.connected = t.connected
      /\ x.headerSyncPeers = t.headerSyncPeers /\ x.bodySyncPeers = t.bodySyncPeers
      /\ x.downloadingHeaders \subseteq t.downloadingHeaders /\ x.downloadingBodies \subseteq t.downloadingBodies
  BY <1>0 DEF States
<1> HIDE DEF x
<1>5. OneEach(x)
  BY <1>0, <1>4 DEF OneEach
<1>6. x \in Live
  BY <1>3, <1>4, <1>5, LiveChange
<1>7. u \in Live /\ u.headers = {c \in x.headers : number[c] \in below}
  BY <1>1, <1>6, KeepLive
<1> QED BY <1>4, <1>7

LEMMA MergeHeaderLive ==
  ASSUME NEW t \in Live, NEW b \in Blocks, HeaderAt(t, number[b]) = {}, NEW u, u = MergeHeader(t, b)
  PROVE  u \in Live
<1>0. t \in States /\ OneEach(t)
  BY DEF Live, Kept, Sound
<1>1. number[b] \in Nat /\ Body[b] \in Contents /\ EmptyBody \in Contents
  BY TreeAssumption, BodyType DEF All
<1>2. t.headers \cup {b} \in SUBSET Blocks
  BY <1>0 DEF States
<1>3. /\ u \in States /\ u.headers = t.headers \cup {b}
      /\ u.state = t.state /\ u.haveCommonHeader = t.haveCommonHeader
      /\ u.last = t.last /\ u.lastHash = t.lastHash /\ u.status = t.status
      /\ u.asking = t.asking /\ u.connected = t.connected
      /\ u.headerSyncPeers = t.headerSyncPeers /\ u.bodySyncPeers = t.bodySyncPeers
      /\ u.downloadingHeaders = t.downloadingHeaders /\ u.downloadingBodies = t.downloadingBodies
  <2>1. CASE Body[b] = EmptyBody
    <3> DEFINE bs == Put(t.bodies, number[b], EmptyBody)
               hs == t.headers \cup {b}
    <3>1. bs \in Partial(Nat, Contents)
      <4>1. t.bodies \in Partial(Nat, Contents)
        BY <1>0 DEF States
      <4> QED BY <1>1, <4>1, PartialAdd
    <3>2. u = [t EXCEPT !.headers = hs, !.bodies = bs]
      BY <2>1 DEF MergeHeader
    <3> HIDE DEF bs, hs
    <3>3. hs \in SUBSET Blocks /\ hs = t.headers \cup {b}
      BY <1>2 DEF hs
    <3>4. u \in States
      BY <1>0, <3>1, <3>2, <3>3 DEF States
    <3> QED BY <1>0, <3>2, <3>3, <3>4 DEF States
  <2>2. CASE Body[b] # EmptyBody
    <3> DEFINE ids == Put(t.idToNumber, Body[b], number[b])
               hs == t.headers \cup {b}
    <3>1. ids \in Partial(Contents, Nat)
      <4>1. t.idToNumber \in Partial(Contents, Nat)
        BY <1>0 DEF States
      <4> QED BY <1>1, <4>1, PartialAdd
    <3>2. u = [t EXCEPT !.headers = hs, !.idToNumber = ids]
      BY <2>2 DEF MergeHeader
    <3> HIDE DEF ids, hs
    <3>3. hs \in SUBSET Blocks /\ hs = t.headers \cup {b}
      BY <1>2 DEF hs
    <3>4. u \in States
      BY <1>0, <3>1, <3>2, <3>3 DEF States
    <3> QED BY <1>0, <3>2, <3>3, <3>4 DEF States
  <2> QED BY <2>1, <2>2
<1>4. OneEach(u)
  BY <1>0, <1>3 DEF OneEach, HeaderAt
<1>5. /\ u.downloadingHeaders \subseteq t.downloadingHeaders
      /\ u.downloadingBodies \subseteq t.downloadingBodies
  BY <1>3
<1> QED BY <1>3, <1>4, <1>5, LiveChange

LEMMA OnHeaderResult ==
  ASSUME ChainOK, s \in States, NEW t \in Live, NEW b \in All
  PROVE  OnHeader(t, b) \in Results
<1>0. t \in Kept /\ t \in States /\ Sound(t) /\ (s.haveCommonHeader => Ahead(t)) /\ t.state = "Blocks"
  BY DEF Live, Kept
<1> DEFINE n == number[b]
           follows == \A c \in HeaderAt(t, n + 1) : Parent[c] = b
           x == IF t.haveCommonHeader /\ ~follows THEN ClearFollowing(t, b) ELSE t
<1>1. CASE Skipped(t, n)
  BY <1>1, ResultsAre DEF OnHeader
<1>2. CASE ~Skipped(t, n) /\ OnItsWay(t, b)
  <2> DEFINE yes == TRUE
             u == LastSet(t, yes, n, b)
  <2>1. OnHeader(t, b) = Going(u)
    BY <1>2 DEF OnHeader, LastSet
  <2>2. yes \in BOOLEAN /\ n \in Nat /\ b \in All \cup {Nothing} /\ t.last \in Nat /\ s.last \in Nat
    BY <1>0, TreeAssumption DEF States
  <2> HIDE DEF yes, u
  <2>3. /\ u \in States
        /\ u.haveCommonHeader = yes /\ u.last = n /\ u.lastHash = b
        /\ u.headers = t.headers /\ u.bodies = t.bodies /\ u.state = t.state
        /\ u.downloadingHeaders = t.downloadingHeaders /\ u.downloadingBodies = t.downloadingBodies
        /\ u.headerSyncPeers = t.headerSyncPeers /\ u.bodySyncPeers = t.bodySyncPeers
        /\ u.asking = t.asking /\ u.connected = t.connected /\ u.status = t.status
    BY <1>0, <2>2, SetLast DEF u
  <2>4. u.haveCommonHeader
    BY <2>3 DEF yes
  <2>5. OneEach(u) /\ Owned(u) /\ Quiet(u)
    BY <1>0, <2>3 DEF OneEach, Owned, Quiet, Clean, Sound
  <2>6. s.haveCommonHeader => Ahead(u)
    BY <1>0, <1>2, <2>2, <2>3, <2>4 DEF Ahead, Skipped
  <2>7. Placed(u, b)
    <3>1. Placed(t, b)
      BY <1>2 DEF OnItsWay, InChain, Placed, Stored
    <3> QED BY <2>3, <3>1, SameQueue
  <2>8. LastPlaced(u)
    BY <2>3, <2>7 DEF LastPlaced
  <2>9. Queued(u)
    BY <1>0, <2>3, SameQueue DEF Sound
  <2>10. u \in Live
    BY <1>0, <2>3, <2>5, <2>6, <2>8, <2>9 DEF Live, Kept, Sound, Advanced
  <2> QED BY <2>1, <2>10, ResultsAre
<1>3. CASE ~Skipped(t, n) /\ ~OnItsWay(t, b) /\ t.haveCommonHeader /\ Mismatch(t, b)
  <2>1. OnHeader(t, b) = Done(restartSync(t))
    BY <1>3 DEF OnHeader
  <2>2. restartSync(t) \in Kept
    BY <1>0, RestartKept
  <2> QED BY <2>1, <2>2, ResultsAre
<1>4. CASE ~Skipped(t, n) /\ ~OnItsWay(t, b) /\ ~(t.haveCommonHeader /\ Mismatch(t, b))
  <2>1. OnHeader(t, b) = Going(MergeHeader(x, b))
    BY <1>4 DEF OnHeader
  <2>2. b \in Blocks
    BY <1>4 DEF OnItsWay, InChain, All
  <2>3. x \in Live /\ x.headers \subseteq t.headers
    <3>1. CASE t.haveCommonHeader /\ ~follows
      <4>1. x = ClearFollowing(t, b)
        BY <3>1
      <4> HIDE DEF x
      <4> QED BY <2>2, <4>1, ClearFollowingLive
    <3>2. CASE ~(t.haveCommonHeader /\ ~follows)
      <4>1. x = t
        BY <3>2
      <4> HIDE DEF x
      <4> QED BY <4>1
    <3> QED BY <3>1, <3>2
  <2> HIDE DEF x
  <2>4. HeaderAt(x, number[b]) = {}
    BY <1>4, <2>3 DEF Skipped, HeaderAt
  <2>5. MergeHeader(x, b) \in Live
    BY <2>2, <2>3, <2>4, MergeHeaderLive
  <2> QED BY <2>1, <2>5, ResultsAre
<1> QED BY <1>1, <1>2, <1>3, <1>4

LEMMA OnBodyResult ==
  ASSUME NEW t \in Live, NEW body \in Contents
  PROVE  OnBody(t, body) \in Results
<1>0. t \in States /\ OneEach(t)
  BY DEF Live, Kept, Sound
<1> DEFINE n == t.idToNumber[body]
           fits == /\ body \in DOMAIN t.idToNumber /\ HeaderAt(t, n) # {}
                   /\ n \notin DOMAIN t.bodies
           ids == Restrict(t.idToNumber, DOMAIN t.idToNumber \ {body})
           bs == Put(t.bodies, n, body)
           u == [t EXCEPT !.idToNumber = ids, !.bodies = bs]
<1>1. CASE ~fits
  BY <1>1, ResultsAre DEF OnBody
<1>2. CASE fits
  <2>1. OnBody(t, body) = Going(u)
    BY <1>2 DEF OnBody
  <2>2. t.idToNumber \in Partial(Contents, Nat) /\ t.bodies \in Partial(Nat, Contents)
    BY <1>0 DEF States
  <2>3. ids \in Partial(Contents, Nat)
    BY <2>2, PartialRestrict
  <2>4. n \in Nat
    <3>1. PICK C \in SUBSET Contents : t.idToNumber \in [C -> Nat]
      BY <2>2 DEF Partial
    <3> QED BY <1>2, <3>1
  <2> HIDE DEF n
  <2>5. bs \in Partial(Nat, Contents)
    BY <2>2, <2>4, PartialAdd
  <2> HIDE DEF ids, bs
  <2>6. u \in States
    BY <1>0, <2>3, <2>5 DEF States
  <2>7. /\ u.headers = t.headers
        /\ u.state = t.state /\ u.haveCommonHeader = t.haveCommonHeader
        /\ u.last = t.last /\ u.lastHash = t.lastHash /\ u.status = t.status
        /\ u.asking = t.asking /\ u.connected = t.connected
        /\ u.headerSyncPeers = t.headerSyncPeers /\ u.bodySyncPeers = t.bodySyncPeers
        /\ u.downloadingHeaders \subseteq t.downloadingHeaders
        /\ u.downloadingBodies \subseteq t.downloadingBodies
    BY <1>0 DEF States
  <2> HIDE DEF u
  <2>8. OneEach(u)
    BY <1>0, <2>7 DEF OneEach
  <2>9. u \in Live
    BY <2>6, <2>7, <2>8, LiveChange
  <2> QED BY <2>1, <2>9, ResultsAre
<1> QED BY <1>1, <1>2

LEMMA HandInResult ==
  ASSUME ChainOK, s \in States, NEW t \in Live, NEW b \in Blocks
  PROVE  HandIn(t, b) \in Results
<1>0. t \in Kept /\ t \in States /\ (s.haveCommonHeader => Ahead(t)) /\ t.state = "Blocks"
  BY DEF Live, Kept
<1> DEFINE n == number[b]
           body == t.bodies[n]
           result == importResult(t, b, body)
           u == import(t, b, body)
<1>1. /\ u \in Kept
      /\ result = "Success" => Placed(u, b)
      /\ u.state = t.state /\ u.connected = t.connected
      /\ u.haveCommonHeader = t.haveCommonHeader /\ u.last = t.last
  <2> HIDE DEF u, body
  <2> QED BY <1>0, ImportKept DEF u
<1>2. u \in Live
  <2> HIDE DEF u
  <2> QED BY <1>0, <1>1 DEF Live, Ahead
<1>3. CASE result = "Success"
  <2>1. HandIn(t, b) = Going(NowLast(u, n, b))
    BY <1>3 DEF HandIn
  <2> HIDE DEF u
  <2>2. NowLast(u, n, b) \in Live
    <3>1. b \in All /\ Placed(u, b) /\ (s.haveCommonHeader => Ahead(u)) /\ u.state = "Blocks"
      BY <1>0, <1>1, <1>2, <1>3 DEF Live, All
    <3> HIDE DEF result
    <3> QED BY <1>1, <3>1, NowLastKept DEF Live
  <2> QED BY <2>1, <2>2, ResultsAre
<1>4. CASE result = "Malformed"
  <2>1. HandIn(t, b) = Done(restartSync(u))
    BY <1>4 DEF HandIn
  <2> HIDE DEF u
  <2>2. restartSync(u) \in Kept
    BY <1>1, RestartKept
  <2> QED BY <2>1, <2>2, ResultsAre
<1>5. CASE result = "AlreadyInChain"
  <2>1. HandIn(t, b) = Going(u)
    BY <1>5 DEF HandIn
  <2> QED BY <1>2, <2>1, ResultsAre
<1>6. CASE result \notin {"Success", "Malformed", "AlreadyInChain"}
  <2> DEFINE v == resetSync(u)
             w == [v EXCEPT !.haveCommonHeader = FALSE]
  <2>1. HandIn(t, b) = Done(IF n > t.last THEN w ELSE u)
    BY <1>6 DEF HandIn
  <2>2. w \in Kept
    <3> HIDE DEF u
    <3>1. u \in States /\ Sound(u)
      BY <1>1 DEF Kept
    <3>2. /\ v \in States /\ v.state = "NotSynced"
          /\ v.headers = {} /\ DOMAIN v.bodies = {} /\ v.downloadingHeaders = {} /\ v.downloadingBodies = {}
          /\ v.headerSyncPeers = [p \in Peers |-> {}] /\ v.bodySyncPeers = [p \in Peers |-> {}]
          /\ v.asking = u.asking /\ v.connected = u.connected /\ v.status = u.status
          /\ v.haveCommonHeader = u.haveCommonHeader /\ v.last = u.last /\ v.lastHash = u.lastHash
      <4> HIDE DEF v
      <4> QED BY <3>1, ResetFields DEF v
    <3> HIDE DEF v
    <3>3. v \in States
      BY <3>2
    <3>4. w \in States
      BY <3>3 DEF States
    <3>5. /\ w.headers = v.headers /\ w.bodies = v.bodies /\ w.state = v.state
          /\ w.downloadingHeaders = v.downloadingHeaders /\ w.downloadingBodies = v.downloadingBodies
          /\ w.headerSyncPeers = v.headerSyncPeers /\ w.bodySyncPeers = v.bodySyncPeers
          /\ w.asking = v.asking /\ w.connected = v.connected /\ w.status = v.status
          /\ w.last = v.last /\ w.lastHash = v.lastHash
      BY <3>3 DEF States
    <3> HIDE DEF w
    <3>6. OneEach(w) /\ Owned(w) /\ Quiet(w)
      <4>1. Owned(u)
        BY <3>1 DEF Sound
      <4> QED BY <3>1, <3>2, <3>5, <4>1, EmptyDownload
    <3>7. LastPlaced(w) /\ Queued(w)
      BY <3>1, <3>2, <3>5, SameQueue DEF Sound
    <3>8. Advanced(w)
      <4>1. w.headers = {} /\ w.last = u.last
        BY <3>2, <3>5
      <4>2. s.haveCommonHeader => u.last >= s.last
        BY <1>2 DEF Live, Ahead
      <4> QED BY <4>1, <4>2 DEF Advanced, Anew
    <3> QED BY <3>4, <3>6, <3>7, <3>8 DEF Kept, Sound
  <2> HIDE DEF u, w
  <2>3. (IF n > t.last THEN w ELSE u) \in Kept
    BY <1>1, <2>2
  <2> QED BY <2>1, <2>3, ResultsAre
<1> QED BY <1>3, <1>4, <1>5, <1>6

LEMMA HeaderLoop ==
  ASSUME ChainOK, s \in States, NEW t \in Live, NEW n \in Nat, NEW seq \in [1..n -> All]
  PROVE  Loop(OnHeader, t, seq) \in Results
<1> DEFINE D == 1..n
           step(r, x) == IF r.done THEN r ELSE OnHeader(r.t, x)
           pick == [S \in (SUBSET D) \ {{}} |-> Max(S)]
           F == [y \in Results \X D |-> step(y[1], seq[y[2]])]
           body(g, S) == IF S = {} THEN Going(t) ELSE step(g[S \ {Max(S)}], seq[Max(S)])
<1>1. IsFiniteSet(D) /\ pick \in Choosers(D)
  BY MaxChooses
<1>2. ASSUME NEW r \in Results, NEW i \in D PROVE step(r, seq[i]) \in Results
  <2>1. CASE r.done
    BY <2>1
  <2>2. CASE ~r.done
    <3>1. r.t \in Live /\ seq[i] \in All
      BY <2>2, ResultsAre
    <3>2. OnHeader(r.t, seq[i]) \in Results
      <4> HIDE DEF D
      <4> QED BY <3>1, OnHeaderResult
    <3> QED BY <2>2, <3>2
  <2> QED BY <2>1, <2>2
<1>3. Going(t) \in Results
  BY ResultsAre
<1>4. F \in [Results \X D -> Results]
  <2> HIDE DEF D, step
  <2> QED BY <1>2
<1>5. PICK g \in [SUBSET D -> Results] : \A S \in SUBSET D :
         g[S] = IF S = {} THEN Going(t) ELSE F[<<g[S \ {pick[S]}], pick[S]>>]
  <2> HIDE DEF D, pick, F, body, step
  <2>1. Foldings(D, pick, Results, Going(t), F) # {}
    BY <1>1, <1>3, <1>4, FoldExists
  <2> QED BY <2>1 DEF Foldings
<1> HIDE DEF step
<1>6. g = [S \in SUBSET D |-> body(g, S)]
  <2>1. ASSUME NEW S \in SUBSET D PROVE g[S] = body(g, S)
    <3>1. CASE S = {}
      BY <1>5, <3>1
    <3>2. CASE S # {}
      <4>1. pick[S] = Max(S)
        BY <3>2
      <4>2. pick[S] \in D /\ g[S \ {pick[S]}] \in Results
        <5> HIDE DEF pick, D
        <5> QED BY <1>1, <3>2 DEF Choosers
      <4>3. F[<<g[S \ {pick[S]}], pick[S]>>] = step(g[S \ {pick[S]}], seq[pick[S]])
        <5> HIDE DEF pick, D
        <5> QED BY <4>2
      <4> HIDE DEF pick, F, D
      <4> QED BY <1>5, <3>2, <4>1, <4>3
    <3> QED BY <3>1, <3>2
  <2> HIDE DEF body, D
  <2> QED BY <2>1
<1> DEFINE it == CHOOSE f : f = [S \in SUBSET D |-> body(f, S)]
<1>7. it = [S \in SUBSET D |-> body(it, S)]
  <2> HIDE DEF body, D
  <2> QED BY <1>6
<1>8. Loop(OnHeader, t, seq) = it[D]
  <2>1. DOMAIN seq = D
    OBVIOUS
  <2> QED BY <2>1 DEF Loop, FoldLeft, MapThenFoldSet, step
<1> HIDE DEF it
<1>9. it[{}] \in Results
  <2>1. it[{}] = Going(t)
    BY <1>7
  <2> QED BY <1>3, <2>1
<1>10. ASSUME NEW S \in SUBSET D, S # {}, it[S \ {pick[S]}] \in Results PROVE it[S] \in Results
  <2>1. pick[S] = Max(S) /\ pick[S] \in D
    <3>1. pick[S] = Max(S)
      BY <1>10
    <3> HIDE DEF pick, D
    <3> QED BY <3>1, <1>1, <1>10 DEF Choosers
  <2>2. it[S] = step(it[S \ {pick[S]}], seq[pick[S]])
    <3> HIDE DEF D
    <3>1. it[S] = body(it, S)
      <4> HIDE DEF body, pick
      <4> QED BY <1>7
    <3>2. body(it, S) = step(it[S \ {Max(S)}], seq[Max(S)])
      BY <1>10
    <3> HIDE DEF pick, body
    <3> QED BY <2>1, <3>1, <3>2
  <2>3. \A r \in Results : \A i \in D : step(r, seq[i]) \in Results
    <3> HIDE DEF D
    <3> QED BY <1>2
  <2> HIDE DEF pick, D, F, body
  <2>4. step(it[S \ {pick[S]}], seq[pick[S]]) \in Results
    BY <1>10, <2>1, <2>3
  <2> QED BY <2>2, <2>4
<1>11. it[D] \in Results
  <2> HIDE DEF pick, D, F, body
  <2> QED BY <1>1, <1>9, <1>10, FoldStays
<1> QED BY <1>8, <1>11

LEMMA BodyLoop ==
  ASSUME NEW t \in Live, NEW n \in Nat, NEW seq \in [1..n -> Contents]
  PROVE  Loop(OnBody, t, seq) \in Results
<1> DEFINE D == 1..n
           step(r, x) == IF r.done THEN r ELSE OnBody(r.t, x)
           pick == [S \in (SUBSET D) \ {{}} |-> Max(S)]
           F == [y \in Results \X D |-> step(y[1], seq[y[2]])]
           body(g, S) == IF S = {} THEN Going(t) ELSE step(g[S \ {Max(S)}], seq[Max(S)])
<1>1. IsFiniteSet(D) /\ pick \in Choosers(D)
  BY MaxChooses
<1>2. ASSUME NEW r \in Results, NEW i \in D PROVE step(r, seq[i]) \in Results
  <2>1. CASE r.done
    BY <2>1
  <2>2. CASE ~r.done
    <3>1. r.t \in Live /\ seq[i] \in Contents
      BY <2>2, ResultsAre
    <3>2. OnBody(r.t, seq[i]) \in Results
      <4> HIDE DEF D
      <4> QED BY <3>1, OnBodyResult
    <3> QED BY <2>2, <3>2
  <2> QED BY <2>1, <2>2
<1>3. Going(t) \in Results
  BY ResultsAre
<1>4. F \in [Results \X D -> Results]
  <2> HIDE DEF D, step
  <2> QED BY <1>2
<1>5. PICK g \in [SUBSET D -> Results] : \A S \in SUBSET D :
         g[S] = IF S = {} THEN Going(t) ELSE F[<<g[S \ {pick[S]}], pick[S]>>]
  <2> HIDE DEF D, pick, F, body, step
  <2>1. Foldings(D, pick, Results, Going(t), F) # {}
    BY <1>1, <1>3, <1>4, FoldExists
  <2> QED BY <2>1 DEF Foldings
<1> HIDE DEF step
<1>6. g = [S \in SUBSET D |-> body(g, S)]
  <2>1. ASSUME NEW S \in SUBSET D PROVE g[S] = body(g, S)
    <3>1. CASE S = {}
      BY <1>5, <3>1
    <3>2. CASE S # {}
      <4>1. pick[S] = Max(S)
        BY <3>2
      <4>2. pick[S] \in D /\ g[S \ {pick[S]}] \in Results
        <5> HIDE DEF pick, D
        <5> QED BY <1>1, <3>2 DEF Choosers
      <4>3. F[<<g[S \ {pick[S]}], pick[S]>>] = step(g[S \ {pick[S]}], seq[pick[S]])
        <5> HIDE DEF pick, D
        <5> QED BY <4>2
      <4> HIDE DEF pick, F, D
      <4> QED BY <1>5, <3>2, <4>1, <4>3
    <3> QED BY <3>1, <3>2
  <2> HIDE DEF body, D
  <2> QED BY <2>1
<1> DEFINE it == CHOOSE f : f = [S \in SUBSET D |-> body(f, S)]
<1>7. it = [S \in SUBSET D |-> body(it, S)]
  <2> HIDE DEF body, D
  <2> QED BY <1>6
<1>8. Loop(OnBody, t, seq) = it[D]
  <2>1. DOMAIN seq = D
    OBVIOUS
  <2> QED BY <2>1 DEF Loop, FoldLeft, MapThenFoldSet, step
<1> HIDE DEF it
<1>9. it[{}] \in Results
  <2>1. it[{}] = Going(t)
    BY <1>7
  <2> QED BY <1>3, <2>1
<1>10. ASSUME NEW S \in SUBSET D, S # {}, it[S \ {pick[S]}] \in Results PROVE it[S] \in Results
  <2>1. pick[S] = Max(S) /\ pick[S] \in D
    <3>1. pick[S] = Max(S)
      BY <1>10
    <3> HIDE DEF pick, D
    <3> QED BY <3>1, <1>1, <1>10 DEF Choosers
  <2>2. it[S] = step(it[S \ {pick[S]}], seq[pick[S]])
    <3> HIDE DEF D
    <3>1. it[S] = body(it, S)
      <4> HIDE DEF body, pick
      <4> QED BY <1>7
    <3>2. body(it, S) = step(it[S \ {Max(S)}], seq[Max(S)])
      BY <1>10
    <3> HIDE DEF pick, body
    <3> QED BY <2>1, <3>1, <3>2
  <2>3. \A r \in Results : \A i \in D : step(r, seq[i]) \in Results
    <3> HIDE DEF D
    <3> QED BY <1>2
  <2> HIDE DEF pick, D, F, body
  <2>4. step(it[S \ {pick[S]}], seq[pick[S]]) \in Results
    BY <1>10, <2>1, <2>3
  <2> QED BY <2>2, <2>4
<1>11. it[D] \in Results
  <2> HIDE DEF pick, D, F, body
  <2> QED BY <1>1, <1>9, <1>10, FoldStays
<1> QED BY <1>8, <1>11

LEMMA HandInLoop ==
  ASSUME ChainOK, s \in States, NEW t \in Live, NEW n \in Nat, NEW seq \in [1..n -> Blocks]
  PROVE  Loop(HandIn, t, seq) \in Results
<1> DEFINE D == 1..n
           step(r, x) == IF r.done THEN r ELSE HandIn(r.t, x)
           pick == [S \in (SUBSET D) \ {{}} |-> Max(S)]
           F == [y \in Results \X D |-> step(y[1], seq[y[2]])]
           body(g, S) == IF S = {} THEN Going(t) ELSE step(g[S \ {Max(S)}], seq[Max(S)])
<1>1. IsFiniteSet(D) /\ pick \in Choosers(D)
  BY MaxChooses
<1>2. ASSUME NEW r \in Results, NEW i \in D PROVE step(r, seq[i]) \in Results
  <2>1. CASE r.done
    BY <2>1
  <2>2. CASE ~r.done
    <3>1. r.t \in Live /\ seq[i] \in Blocks
      BY <2>2, ResultsAre
    <3>2. HandIn(r.t, seq[i]) \in Results
      <4> HIDE DEF D
      <4> QED BY <3>1, HandInResult
    <3> QED BY <2>2, <3>2
  <2> QED BY <2>1, <2>2
<1>3. Going(t) \in Results
  BY ResultsAre
<1>4. F \in [Results \X D -> Results]
  <2> HIDE DEF D, step
  <2> QED BY <1>2
<1>5. PICK g \in [SUBSET D -> Results] : \A S \in SUBSET D :
         g[S] = IF S = {} THEN Going(t) ELSE F[<<g[S \ {pick[S]}], pick[S]>>]
  <2> HIDE DEF D, pick, F, body, step
  <2>1. Foldings(D, pick, Results, Going(t), F) # {}
    BY <1>1, <1>3, <1>4, FoldExists
  <2> QED BY <2>1 DEF Foldings
<1> HIDE DEF step
<1>6. g = [S \in SUBSET D |-> body(g, S)]
  <2>1. ASSUME NEW S \in SUBSET D PROVE g[S] = body(g, S)
    <3>1. CASE S = {}
      BY <1>5, <3>1
    <3>2. CASE S # {}
      <4>1. pick[S] = Max(S)
        BY <3>2
      <4>2. pick[S] \in D /\ g[S \ {pick[S]}] \in Results
        <5> HIDE DEF pick, D
        <5> QED BY <1>1, <3>2 DEF Choosers
      <4>3. F[<<g[S \ {pick[S]}], pick[S]>>] = step(g[S \ {pick[S]}], seq[pick[S]])
        <5> HIDE DEF pick, D
        <5> QED BY <4>2
      <4> HIDE DEF pick, F, D
      <4> QED BY <1>5, <3>2, <4>1, <4>3
    <3> QED BY <3>1, <3>2
  <2> HIDE DEF body, D
  <2> QED BY <2>1
<1> DEFINE it == CHOOSE f : f = [S \in SUBSET D |-> body(f, S)]
<1>7. it = [S \in SUBSET D |-> body(it, S)]
  <2> HIDE DEF body, D
  <2> QED BY <1>6
<1>8. Loop(HandIn, t, seq) = it[D]
  <2>1. DOMAIN seq = D
    OBVIOUS
  <2> QED BY <2>1 DEF Loop, FoldLeft, MapThenFoldSet, step
<1> HIDE DEF it
<1>9. it[{}] \in Results
  <2>1. it[{}] = Going(t)
    BY <1>7
  <2> QED BY <1>3, <2>1
<1>10. ASSUME NEW S \in SUBSET D, S # {}, it[S \ {pick[S]}] \in Results PROVE it[S] \in Results
  <2>1. pick[S] = Max(S) /\ pick[S] \in D
    <3>1. pick[S] = Max(S)
      BY <1>10
    <3> HIDE DEF pick, D
    <3> QED BY <3>1, <1>1, <1>10 DEF Choosers
  <2>2. it[S] = step(it[S \ {pick[S]}], seq[pick[S]])
    <3> HIDE DEF D
    <3>1. it[S] = body(it, S)
      <4> HIDE DEF body, pick
      <4> QED BY <1>7
    <3>2. body(it, S) = step(it[S \ {Max(S)}], seq[Max(S)])
      BY <1>10
    <3> HIDE DEF pick, body
    <3> QED BY <2>1, <3>1, <3>2
  <2>3. \A r \in Results : \A i \in D : step(r, seq[i]) \in Results
    <3> HIDE DEF D
    <3> QED BY <1>2
  <2> HIDE DEF pick, D, F, body
  <2>4. step(it[S \ {pick[S]}], seq[pick[S]]) \in Results
    BY <1>10, <2>1, <2>3
  <2> QED BY <2>2, <2>4
<1>11. it[D] \in Results
  <2> HIDE DEF pick, D, F, body
  <2> QED BY <1>1, <1>9, <1>10, FoldStays
<1> QED BY <1>8, <1>11

LEMMA CollectKept ==
  ASSUME ChainOK, s \in States, NEW t \in Live
  PROVE  collectBlocks(t) \in Kept
<1> DEFINE ready == FirstRun(Numbers(t)) \cap FirstRun(DOMAIN t.bodies)
           X == {b \in t.headers : number[b] \in ready}
           seq == InOrder(X)
           r == Loop(HandIn, t, seq)
           u == KeepBodies(KeepHeaders(r.t, Numbers(t) \ ready), DOMAIN t.bodies \ ready)
           stays == \/ ~t.haveCommonHeader \/ t.headers = {} \/ DOMAIN t.bodies = {}
                    \/ Min(Numbers(t)) # t.last + 1 \/ Min(DOMAIN t.bodies) # t.last + 1
<1>1. collectBlocks(t) = IF stays THEN t
                         ELSE IF r.done THEN r.t
                         ELSE IF u.headers = {} THEN completeSync(u) ELSE u
  BY DEF collectBlocks
<1>2. t \in Kept /\ t \in States /\ OneEach(t)
  BY DEF Live, Kept, Sound
<1> HIDE DEF ready, stays
<1>3. Cardinality(X) \in Nat /\ seq \in [1..Cardinality(X) -> Blocks]
  <2>1. X \in SUBSET Blocks /\ X \subseteq t.headers
    BY <1>2 DEF States
  <2>2. IsFiniteSet(X)
    <3>1. IsFiniteSet(Blocks)
      BY TreeAssumption
    <3> HIDE DEF X
    <3> QED BY <2>1, <3>1, FS_Subset
  <2>3. \A a, b \in X : number[a] = number[b] => a = b
    BY <1>2 DEF OneEach
  <2> HIDE DEF X
  <2>4. Cardinality(X) \in Nat /\ InOrder(X) \in [1..Cardinality(X) -> X]
    <3>1. X \in SUBSET All
      BY <2>1 DEF All
    <3> QED BY <2>2, <2>3, <3>1, InOrderStays
  <2> QED BY <2>1, <2>4
<1>4. r \in Results
  <2> HIDE DEF X, seq
  <2> QED BY <1>3, HandInLoop
<1> HIDE DEF r
<1>5. r.t \in Kept /\ (~r.done => r.t \in Live)
  BY <1>4, ResultsAre
<1>6. ~r.done => u \in Live
  BY <1>5, KeepLive
<1> HIDE DEF u
<1>7. ~r.done => u \in Kept
  BY <1>6 DEF Live
<1>8. ~r.done => completeSync(u) \in Kept
  BY <1>7, CompleteKept
<1> QED BY <1>1, <1>2, <1>5, <1>7, <1>8

\* An answer, after its items.
LEMMA AnswerKept ==
  ASSUME ChainOK, s \in States, NEW t \in Kept, NEW r, t.state = "Blocks" => r \in Results,
         NEW u \in OnAnswer(t, r)
  PROVE  u \in Kept
<1>1. CASE t.state # "Blocks"
  BY <1>1 DEF OnAnswer
<1>2. CASE t.state = "Blocks" /\ r.done
  <2>1. u = r.t
    BY <1>2 DEF OnAnswer
  <2> QED BY <1>2, <2>1, ResultsAre
<1>3. CASE t.state = "Blocks" /\ ~r.done
  <2>1. u \in continueSync(collectBlocks(r.t))
    BY <1>3 DEF OnAnswer
  <2>2. collectBlocks(r.t) \in Kept
    BY <1>3, ResultsAre, CollectKept
  <2> QED BY <2>1, <2>2, ContinueKept
<1> QED BY <1>1, <1>2, <1>3

\* A block taken without a download.
LEMMA TakenOverKept ==
  ASSUME s \in States, NEW t \in Kept, NEW b \in Blocks, Placed(t, b),
         s.haveCommonHeader => Ahead(t), NEW u, u = TakenOver(t, b)
  PROVE  u \in Kept
<1> DEFINE n == number[b]
           m == NowLast(t, n, b)
           cut(N) == N \ (IF n \in N THEN RunFrom(N, n) ELSE {})
           N == cut(Numbers(t))
           M == cut(DOMAIN t.bodies)
           w == [m EXCEPT !.downloadingBodies = @ \ {n}, !.downloadingHeaders = @ \ {n}]
           hs == {c \in m.headers : number[c] \in N}
           x == [w EXCEPT !.headers = hs]
           bs == Restrict(m.bodies, DOMAIN m.bodies \cap M)
           v == [x EXCEPT !.bodies = bs]
<1>1. m \in Kept /\ (s.haveCommonHeader => Ahead(m))
  <2>1. b \in All
    BY DEF All
  <2> HIDE DEF m
  <2> QED BY <2>1, NowLastKept DEF m
<1> HIDE DEF m, N, M
<1>2. m \in States /\ Sound(m)
  BY <1>1 DEF Kept
<1>3. hs \in SUBSET Blocks /\ hs \subseteq m.headers
  BY <1>2 DEF States
<1>4. bs \in Partial(Nat, Contents) /\ DOMAIN bs \subseteq DOMAIN m.bodies
  <2>1. m.bodies \in Partial(Nat, Contents)
    BY <1>2 DEF States
  <2> QED BY <2>1, PartialRestrict DEF Restrict
<1>5. w.headers = m.headers /\ x.bodies = m.bodies
  BY <1>2 DEF States
<1>6. u = IF v.headers = {} THEN completeSync(v) ELSE v
  <2>1. KeepHeaders(w, N) = x
    <3> HIDE DEF w
    <3> QED BY <1>5 DEF KeepHeaders
  <2>2. KeepBodies(x, M) = v
    <3> HIDE DEF x
    <3> QED BY <1>5 DEF KeepBodies
  <2>3. u = IF KeepBodies(KeepHeaders(w, N), M).headers = {}
            THEN completeSync(KeepBodies(KeepHeaders(w, N), M)) ELSE KeepBodies(KeepHeaders(w, N), M)
    BY DEF TakenOver, N, M, m
  <2> HIDE DEF w, x, v
  <2> QED BY <2>1, <2>2, <2>3
<1> HIDE DEF hs, bs
<1>7. w \in States
  BY <1>2 DEF States
<1>8. /\ w.headers = m.headers
      /\ w.state = m.state /\ w.haveCommonHeader = m.haveCommonHeader
      /\ w.last = m.last /\ w.lastHash = m.lastHash /\ w.status = m.status
      /\ w.asking = m.asking /\ w.connected = m.connected
      /\ w.headerSyncPeers = m.headerSyncPeers /\ w.bodySyncPeers = m.bodySyncPeers
      /\ w.downloadingHeaders \subseteq m.downloadingHeaders
      /\ w.downloadingBodies \subseteq m.downloadingBodies
  BY <1>2 DEF States
<1> HIDE DEF w
<1>9. x \in States
  BY <1>3, <1>7 DEF States
<1>10. v \in States
  <2> HIDE DEF x
  <2> QED BY <1>4, <1>9 DEF States
<1>11. /\ v.headers = hs /\ v.bodies = bs
       /\ v.state = w.state /\ v.haveCommonHeader = w.haveCommonHeader
       /\ v.last = w.last /\ v.lastHash = w.lastHash /\ v.status = w.status
       /\ v.asking = w.asking /\ v.connected = w.connected
       /\ v.headerSyncPeers = w.headerSyncPeers /\ v.bodySyncPeers = w.bodySyncPeers
       /\ v.downloadingHeaders = w.downloadingHeaders
       /\ v.downloadingBodies = w.downloadingBodies
  BY <1>7 DEF States
<1> HIDE DEF x, v
<1>12. OneEach(v) /\ Owned(v)
  BY <1>2, <1>3, <1>8, <1>11 DEF OneEach, Owned, Sound
<1>13. Quiet(v)
  <2>1. Quiet(m)
    BY <1>2 DEF Sound
  <2> QED BY <2>1, <1>3, <1>4, <1>8, <1>11 DEF Quiet, Clean
<1>14. LastPlaced(v) /\ Queued(v)
  BY <1>2, <1>8, <1>11, SameQueue DEF Sound
<1>15. s.haveCommonHeader => Ahead(v)
  BY <1>1, <1>8, <1>11 DEF Ahead
<1>16. v \in Kept
  BY <1>10, <1>12, <1>13, <1>14, <1>15 DEF Kept, Sound, Advanced
<1>17. completeSync(v) \in Kept
  BY <1>16, CompleteKept
<1> QED BY <1>6, <1>16, <1>17

-----------------------------------------------------------------------------
(* What peers send.                                                          *)

LEMMA TheirsIsThere ==
  ASSUME NEW p, remote[p] \in SUBSET All, remote[p] # {}
  PROVE  Theirs(p) \in remote[p]
<1> DEFINE S == remote[p]
           f == [h \in S |-> TotalDifficulty(h)]
           I == {f[h] : h \in S}
<1>1. \A h \in S : f[h] \in Nat
  BY WeightType
<1>2. IsFiniteSet(I)
  <2>1. IsFiniteSet(S)
    <3>1. IsFiniteSet(All)
      BY TreeAssumption, FS_AddElement DEF All
    <3> QED BY <3>1, FS_Subset
  <2>2. DOMAIN f = S
    OBVIOUS
  <2> HIDE DEF S, f
  <2> QED BY <2>1, <2>2, ImageFinite
<1>3. I \in SUBSET Nat /\ I # {}
  <2> HIDE DEF f
  <2> QED BY <1>1
<1>4. Max(I) \in I /\ \A k \in I : Max(I) >= k
  <2> HIDE DEF I
  <2> QED BY <1>2, <1>3, MaxIsThere
<1>5. PICK h \in S : f[h] = Max(I)
  BY <1>4
<1>6. \A k \in S : TotalDifficulty(k) <= TotalDifficulty(h)
  <2> SUFFICES ASSUME NEW k \in S PROVE TotalDifficulty(k) <= TotalDifficulty(h)
    OBVIOUS
  <2>1. f[k] \in I /\ f[h] \in Nat /\ f[k] \in Nat
    BY <1>1
  <2>2. f[h] >= f[k]
    <3> HIDE DEF f, I
    <3> QED BY <1>4, <1>5, <2>1
  <2>3. f[k] = TotalDifficulty(k) /\ f[h] = TotalDifficulty(h)
    OBVIOUS
  <2> HIDE DEF f, I
  <2> QED BY <2>1, <2>2, <2>3
<1> QED BY <1>6 DEF Theirs

\* The head of a peer that is there is a block.
LEMMA TheirHead ==
  ASSUME PeersOK, NEW p \in Peers, p \notin gone
  PROVE  Theirs(p) \in Heads /\ Theirs(p) \in Blocks /\ Theirs(p) \in All
<1>1. remote[p] # {} /\ remote[p] \subseteq Heads
  BY DEF PeersOK
<1>2. Heads \subseteq Blocks /\ Heads \subseteq All
  BY TreeAssumption DEF All
<1>3. Theirs(p) \in remote[p]
  BY <1>1, <1>2, TheirsIsThere
<1> QED BY <1>1, <1>2, <1>3

LEMMA PrefixType ==
  ASSUME NEW S, NEW m \in Nat, NEW seq \in [1..m -> S], NEW x \in SomePrefix(seq)
  PROVE  \E n \in Nat : x \in [1..n -> S]
<1>1. seq \in Seq(S) /\ Len(seq) = m
  OBVIOUS
<1>2. PICK n \in (IF seq = <<>> THEN {0} ELSE 1..Len(seq)) : x = SubSeq(seq, 1, n)
  BY DEF SomePrefix
<1>3. n \in 0..Len(seq)
  BY <1>1, <1>2
<1>4. x = [i \in 1..n |-> seq[i]]
  BY <1>1, <1>2, <1>3
<1>5. n \in Nat /\ \A i \in 1..n : seq[i] \in S
  BY <1>1, <1>3
<1> QED BY <1>4, <1>5

LEMMA HeadersType ==
  ASSUME NEW h \in All, NEW request, NEW x \in SomePrefix(HeadersOf(h, request))
  PROVE  \E n \in Nat : x \in [1..n -> All]
<1> DEFINE S == {b \in Line[h] : number[b] \in request.from..(request.from + request.count - 1)}
<1>1. S \in SUBSET All /\ IsFiniteSet(S) /\ \A a, b \in S : number[a] = number[b] => a = b
  <2>1. /\ Line[h] \in SUBSET All /\ IsFiniteSet(Line[h])
        /\ \A c, d \in Line[h] : number[c] = number[d] => c = d
    BY LineFacts
  <2>2. S \subseteq Line[h]
    OBVIOUS
  <2> HIDE DEF S
  <2> QED BY <2>1, <2>2, FS_Subset
<1>2. Cardinality(S) \in Nat /\ InOrder(S) \in [1..Cardinality(S) -> S]
  <2> HIDE DEF S
  <2> QED BY <1>1, InOrderStays
<1>3. HeadersOf(h, request) \in [1..Cardinality(S) -> All]
  <2>1. HeadersOf(h, request) = InOrder(S)
    BY DEF HeadersOf
  <2> HIDE DEF S
  <2> QED BY <1>1, <1>2, <2>1
<1> HIDE DEF S
<1> QED BY <1>2, <1>3, PrefixType

LEMMA BodiesType ==
  ASSUME NEW r \in Requests, r.kind = "BlockBodies", NEW K, NEW x \in SomePrefix(InOrder(r.of \cap K))
  PROVE  \E n \in Nat : x \in [1..n -> Blocks]
<1> DEFINE S == r.of \cap K
<1>1. S \in SUBSET Blocks /\ \A a, b \in S : number[a] = number[b] => a = b
  BY DEF Requests
<1> HIDE DEF S
<1>2. S \in SUBSET All /\ IsFiniteSet(S)
  <2>1. IsFiniteSet(Blocks)
    BY TreeAssumption
  <2> QED BY <1>1, <2>1, FS_Subset DEF All
<1>3. Cardinality(S) \in Nat /\ InOrder(S) \in [1..Cardinality(S) -> S]
  BY <1>1, <1>2, InOrderStays
<1>4. x \in SomePrefix(InOrder(S))
  BY DEF S
<1>5. PICK n \in Nat : x \in [1..n -> S]
  BY <1>3, <1>4, PrefixType
<1>6. x \in [1..n -> Blocks]
  BY <1>1, <1>5
<1> QED BY <1>6

-----------------------------------------------------------------------------
(* The inductive invariant.                                                  *)

\* What the client imports: its parent is stored before it is, and then it is.
DrainOK ==
  /\ draining \in [block : Blocks \cup {Nothing}, at : {"none", "room", "import", "best", "done"}]
  /\ draining.at = "none" => draining.block = Nothing
  /\ draining.at \in {"room", "import"} => draining.block \in Blocks /\ Stored(Parent[draining.block])
  /\ draining.at \in {"best", "done"} => draining.block \in Blocks /\ Stored(draining.block)

Inv == s \in Kept /\ ChainOK /\ PeersOK /\ DrainOK

\* That s has not gone back behind itself says nothing.
LEMMA NotBehindItself ==
  ASSUME s \in States
  PROVE  Advanced(s) /\ (s.haveCommonHeader => Ahead(s))
<1>1. s.last \in Nat
  BY DEF States
<1> QED BY <1>1 DEF Advanced, Ahead

\* What a handler leaves is what the next one starts from.
LEMMA Carried ==
  ASSUME s' \in Kept, chain \subseteq chain', draining'.block = draining.block,
         s'.connected \cap gone' = {}
  PROVE  (s \in Kept)'
<1>1. s' \in States /\ Sound(s')
  BY DEF Kept
<1>2. OneEach(s)' /\ Quiet(s)'
  BY <1>1 DEF Sound, OneEach, Quiet, Clean
<1>3. Owned(s)'
  BY <1>1 DEF Sound, Owned
<1>4. LastPlaced(s)'
  BY <1>1 DEF Sound, LastPlaced, Placed, Stored, With
<1>5. Queued(s)'
  BY <1>1 DEF Sound, Queued, Placed, Stored, With
<1>6. Advanced(s)'
  <2>1. s'.last \in Nat
    BY <1>1 DEF States
  <2> QED BY <2>1 DEF Advanced, Ahead
<1> QED BY <1>1, <1>2, <1>3, <1>4, <1>5, <1>6 DEF Kept, Sound

LEMMA InitInv == Init => Inv
<1> SUFFICES ASSUME Init PROVE Inv
  OBVIOUS
<1>1. head \in All /\ Line[head] \subseteq All /\ Starts \subseteq All
  <2>1. head \in All
    BY TreeAssumption DEF Init
  <2> QED BY <2>1, LineFacts, TreeAssumption
<1>2. ChainOK
  <2>1. chain = Line[head] \ {Genesis}
    BY DEF Init
  <2>2. chain \in SUBSET Blocks /\ head \in chain \cup {Genesis}
    BY <1>1, <2>1, LineFacts DEF All
  <2>3. \A b \in All : b \in Line[head] => Line[b] \subseteq Line[head]
    <3> DEFINE G == {b \in All : \A c \in Line[b] : Line[c] \subseteq Line[b]}
    <3>1. Genesis \in G
      BY LineStep DEF All
    <3>2. ASSUME NEW b \in Blocks, Parent[b] \in G PROVE b \in G
      <4>1. b \in All /\ Line[b] = {b} \cup Line[Parent[b]]
        BY LineStep DEF All
      <4>2. \A c \in Line[Parent[b]] : Line[c] \subseteq Line[Parent[b]]
        BY <3>2
      <4> QED BY <4>1, <4>2
    <3>3. All \subseteq G
      <4> HIDE DEF G
      <4> QED BY <3>1, <3>2, TreeInduction
    <3> QED BY <1>1, <3>3
  <2>4. \A b \in chain : Line[b] \subseteq chain \cup {Genesis}
    <3>1. \A b \in chain : b \in All /\ b \in Line[head]
      BY <2>1, <2>2 DEF All
    <3> QED BY <2>1, <2>3, <3>1
  <2> QED BY <2>2, <2>4 DEF ChainOK
<1>3. PeersOK
  <2>1. remote \in [Peers -> {{h} : h \in Heads}]
    BY DEF Init
  <2>2. \A p \in Peers : remote[p] # {} /\ remote[p] \subseteq Heads
    BY <2>1
  <2> QED BY <2>1, <2>2 DEF PeersOK
<1>4. DrainOK
  BY DEF Init, DrainOK
<1>5. s \in States
  <2>1. number[head] \in Nat /\ Genesis \in All
    BY <1>1, TreeAssumption DEF All
  <2> DEFINE none == [p \in Peers |-> {}]
             zero == [p \in Peers |-> 0]
             unasked == [p \in Peers |-> Nothing]
             first == [p \in Peers |-> Genesis]
             unknown == [b \in Blocks |-> "Unknown"]
             empty == <<>>
  <2>2. /\ none \in [Peers -> SUBSET Nat] /\ zero \in [Peers -> Nat] /\ first \in [Peers -> All]
        /\ unasked \in [Peers -> Requests \cup {Nothing}]
        /\ unknown \in [Blocks -> {"Unknown", "UnknownParent", "Ready", "Importing"}]
    BY <2>1
  <2>3. s = [state |-> "Idle",
             headers |-> {}, bodies |-> empty, idToNumber |-> empty,
             downloadingHeaders |-> {}, downloadingBodies |-> {},
             headerSyncPeers |-> none, bodySyncPeers |-> none,
             haveCommonHeader |-> FALSE,
             last |-> number[head], lastHash |-> head,
             syncingTotalDifficulty |-> 0,
             connected |-> {}, asking |-> unasked,
             totalDifficulty |-> zero, latestHash |-> first,
             status |-> unknown]
    BY DEF Init
  <2>4. empty \in Partial(Nat, Contents) /\ empty \in Partial(Contents, Nat)
    BY EmptyMaps
  <2> HIDE DEF none, zero, unasked, first, unknown, empty
  <2> QED BY <1>1, <2>1, <2>2, <2>3, <2>4 DEF States
<1>6. OneEach(s) /\ Owned(s) /\ Quiet(s)
  <2> DEFINE empty == <<>>
  <2>1. s.headers = {} /\ s.bodies = empty /\ s.downloadingHeaders = {} /\ s.downloadingBodies = {} /\ s.connected = {}
    BY DEF Init
  <2>2. \A p \in Peers : s.asking[p] = Nothing /\ s.headerSyncPeers[p] = {} /\ s.bodySyncPeers[p] = {}
    BY DEF Init
  <2>4. DOMAIN empty = {}
    BY EmptyMaps
  <2> HIDE DEF empty
  <2>3. IsFiniteSet({})
    BY FS_EmptySet
  <2>5. OneEach(s) /\ Quiet(s)
    BY <2>1, <2>4 DEF OneEach, Quiet, Clean
  <2>6. Owned(s)
    BY <2>1, <2>2, <2>3 DEF Owned
  <2> QED BY <2>5, <2>6
<1>7. LastPlaced(s) /\ Queued(s)
  <2>1. s.status = [b \in Blocks |-> "Unknown"] /\ s.last = number[head] /\ s.lastHash = head
    BY DEF Init
  <2>2. Stored(head)
    BY <1>2 DEF ChainOK, Stored
  <2>3. With(s, "Ready") = {} /\ With(s, "Importing") = {}
    BY <2>1 DEF With
  <2>4. LastPlaced(s)
    BY <2>1, <2>2 DEF LastPlaced, Placed
  <2>5. Queued(s)
    BY <2>3 DEF Queued
  <2> QED BY <2>4, <2>5
<1>8. Advanced(s)
  BY <1>5, NotBehindItself
<1>9. Sound(s)
  BY <1>6, <1>7, <1>8 DEF Sound
<1>10. s \in Kept
  BY <1>5, <1>9 DEF Kept
<1> QED BY <1>2, <1>3, <1>4, <1>10 DEF Inv

\* An answer leaves all but s and turn alone.
LEMMA HandlerInv ==
  ASSUME Inv, s' \in Kept, chain' = chain, head' = head, draining'.block = draining.block,
         gone' = gone, remote' = remote, DrainOK'
  PROVE  Inv' /\ Advanced(s')
<1>1. Advanced(s') /\ s'.connected \cap gone' = {}
  BY DEF Kept, Sound, Owned
<1>2. ChainOK' /\ PeersOK'
  BY DEF Inv, ChainOK, PeersOK
<1>3. (s \in Kept)'
  BY <1>1, Carried
<1> QED BY <1>1, <1>2, <1>3 DEF Inv

LEMMA SameDrain ==
  ASSUME DrainOK, chain' = chain, draining' = draining
  PROVE  DrainOK'
BY DEF DrainOK, Stored

\* Before the items of an answer are gone through.
LEMMA ReceivedLive ==
  ASSUME Inv, NEW p \in Peers, NEW t, t = Received(s, p)
  PROVE  t \in Kept /\ (t.state = "Blocks" => t \in Live)
<1>1. s \in Kept /\ s \in States
  BY DEF Inv, Kept
<1>2. /\ t \in Kept /\ t.state = s.state
      /\ t.haveCommonHeader = s.haveCommonHeader /\ t.last = s.last
  BY <1>1, ReceivedKept
<1>3. s.haveCommonHeader => Ahead(t)
  BY <1>1, <1>2, NotBehindItself DEF Ahead
<1> QED BY <1>2, <1>3 DEF Live

LEMMA HeadersInv ==
  ASSUME Inv, NEW p \in Peers, onPeerBlockHeaders(p)
  PROVE  Inv' /\ Advanced(s')
<1> DEFINE t == Received(s, p)
<1>1. s \in Kept /\ s \in States /\ ChainOK /\ PeersOK /\ DrainOK
  BY DEF Inv, Kept
<1>2. PICK items \in SomePrefix(HeadersOf(Theirs(p), s.asking[p])) :
         s' \in OnAnswer(t, Loop(OnHeader, t, items))
  BY DEF onPeerBlockHeaders
<1>3. p \notin gone
  <2>1. p \in s.connected
    BY <1>1 DEF Kept, Sound, Owned, onPeerBlockHeaders
  <2> QED BY <1>1, <2>1 DEF Kept, Sound, Owned
<1>4. Theirs(p) \in All
  BY <1>1, <1>3, TheirHead
<1>5. PICK n \in Nat : items \in [1..n -> All]
  BY <1>2, <1>4, HeadersType
<1>6. t \in Kept /\ (t.state = "Blocks" => t \in Live)
  <2> HIDE DEF t
  <2> QED BY ReceivedLive DEF t
<1> HIDE DEF t
<1>7. t.state = "Blocks" => Loop(OnHeader, t, items) \in Results
  BY <1>1, <1>5, <1>6, HeaderLoop
<1>8. s' \in Kept
  <2> DEFINE r == Loop(OnHeader, t, items)
  <2>1. (t.state = "Blocks" => r \in Results) /\ s' \in OnAnswer(t, r)
    BY <1>2, <1>7
  <2> HIDE DEF r
  <2> QED BY <1>1, <1>6, <2>1, AnswerKept
<1>9. UNCHANGED <<chain, head, draining, remote, gone>>
  BY DEF onPeerBlockHeaders
<1>10. DrainOK'
  BY <1>1, <1>9, SameDrain
<1> QED BY <1>8, <1>9, <1>10, HandlerInv

LEMMA BodiesInv ==
  ASSUME Inv, NEW p \in Peers, onPeerBlockBodies(p)
  PROVE  Inv' /\ Advanced(s')
<1> DEFINE t == Received(s, p)
<1>1. s \in Kept /\ s \in States /\ ChainOK /\ PeersOK /\ DrainOK
  BY DEF Inv, Kept
<1>2. PICK blocks \in SomePrefix(InOrder(s.asking[p].of \cap Known(p))) :
         s' \in OnAnswer(t, Loop(OnBody, t, [i \in DOMAIN blocks |-> Body[blocks[i]]]))
  BY DEF onPeerBlockBodies
<1>3. s.asking[p] \in Requests /\ s.asking[p].kind = "BlockBodies"
  BY <1>1 DEF onPeerBlockBodies, States
<1> DEFINE items == [i \in DOMAIN blocks |-> Body[blocks[i]]]
<1>5. PICK n \in Nat : items \in [1..n -> Contents]
  <2> DEFINE r == s.asking[p]
             K == Known(p)
  <2>1. r \in Requests /\ r.kind = "BlockBodies" /\ blocks \in SomePrefix(InOrder(r.of \cap K))
    BY <1>2, <1>3
  <2> HIDE DEF r, K, t, items
  <2>2. PICK n \in Nat : blocks \in [1..n -> Blocks]
    BY <2>1, BodiesType
  <2>3. \A i \in 1..n : Body[blocks[i]] \in Contents
    BY <2>2, BodyType
  <2> QED BY <2>2, <2>3 DEF items
<1>6. t \in Kept /\ (t.state = "Blocks" => t \in Live)
  <2> HIDE DEF t
  <2> QED BY ReceivedLive DEF t
<1> HIDE DEF t, items
<1>7. t.state = "Blocks" => Loop(OnBody, t, items) \in Results
  BY <1>1, <1>5, <1>6, BodyLoop
<1>8. s' \in Kept
  <2> DEFINE r == Loop(OnBody, t, items)
  <2>1. (t.state = "Blocks" => r \in Results) /\ s' \in OnAnswer(t, r)
    BY <1>2, <1>7 DEF items
  <2> HIDE DEF r
  <2> QED BY <1>1, <1>6, <2>1, AnswerKept
<1>9. UNCHANGED <<chain, head, draining, remote, gone>>
  BY DEF onPeerBlockBodies
<1>10. DrainOK'
  BY <1>1, <1>9, SameDrain
<1> QED BY <1>8, <1>9, <1>10, HandlerInv

\* A peer tells of itself.
LEMMA StatusInv ==
  ASSUME Inv, NEW p \in Peers, onPeerStatus(p)
  PROVE  Inv' /\ Advanced(s')
<1> DEFINE h == Theirs(p)
           d == TotalDifficulty(h)
           x == [s EXCEPT !.connected = @ \cup {p}, !.asking[p] = Nothing,
                          !.totalDifficulty[p] = d, !.latestHash[p] = h]
<1>1. s \in States /\ Sound(s) /\ ChainOK /\ PeersOK /\ DrainOK /\ p \notin s.connected /\ p \notin gone
  BY DEF Inv, Kept, onPeerStatus
<1>2. h \in All /\ d \in Nat
  <2>1. h \in All
    BY <1>1, TheirHead
  <2> HIDE DEF h
  <2> QED BY <2>1, WeightType
<1> HIDE DEF h, d
<1>3. x \in States
  BY <1>1, <1>2 DEF States
<1>4. /\ x.state = s.state /\ x.headers = s.headers /\ x.haveCommonHeader = s.haveCommonHeader
      /\ x.connected = s.connected \cup {p} /\ x.status = s.status
      /\ x.last = s.last /\ x.lastHash = s.lastHash /\ x.bodies = s.bodies
      /\ x.downloadingHeaders = s.downloadingHeaders /\ x.downloadingBodies = s.downloadingBodies
      /\ x.headerSyncPeers = s.headerSyncPeers /\ x.bodySyncPeers = s.bodySyncPeers
  BY <1>1 DEF States
<1>5. x.asking[p] = Nothing /\ \A q \in Peers \ {p} : x.asking[q] = s.asking[q]
  BY <1>1 DEF States
<1>6. s' = syncPeer(x, p, FALSE)
  BY DEF onPeerStatus, h, d
<1> HIDE DEF x
<1>7. Owned(x)
  <2>1. Owned(s) /\ s.asking[p] = Nothing
    BY <1>1 DEF Sound, Owned
  <2>2. \A q \in Peers : x.asking[q] = s.asking[q]
    BY <1>5, <2>1
  <2>3. IsFiniteSet(x.connected)
    BY <1>4, <2>1, FS_AddElement DEF Owned
  <2>4. x.connected \cap gone = {} /\ \A q \in Peers : x.asking[q] # Nothing => q \in x.connected
    BY <1>1, <1>4, <2>1, <2>2 DEF Owned
  <2>5. /\ \A q \in Peers : x.headerSyncPeers[q] # {} => x.asking[q] # Nothing /\ x.asking[q].kind = "BlockHeaders"
        /\ \A q \in Peers : x.bodySyncPeers[q] # {} => x.asking[q] # Nothing /\ x.asking[q].kind = "BlockBodies"
    BY <1>4, <2>1, <2>2 DEF Owned
  <2>6. /\ \A n \in x.downloadingHeaders : \E q \in Peers : n \in x.headerSyncPeers[q]
        /\ \A n \in x.downloadingBodies : \E q \in Peers : n \in x.bodySyncPeers[q]
    BY <1>4, <2>1 DEF Owned
  <2> QED BY <2>3, <2>4, <2>5, <2>6 DEF Owned
<1>8. Quiet(x)
  <2>1. Quiet(s)
    BY <1>1 DEF Sound
  <2> QED BY <1>4, <2>1 DEF Quiet, Clean
<1>9. OneEach(x) /\ Advanced(x) /\ LastPlaced(x) /\ Queued(x)
  BY <1>1, <1>4, SameQueue, SameDownload DEF Sound
<1>10. x \in Kept /\ p \in x.connected
  BY <1>3, <1>4, <1>7, <1>8, <1>9 DEF Kept, Sound
<1>11. s' \in Kept
  <2> DEFINE no == FALSE
  <2>1. s' = syncPeer(x, p, no)
    BY <1>6
  <2> HIDE DEF no
  <2> QED BY <1>1, <1>10, <2>1, SyncPeerKept
<1>12. UNCHANGED <<chain, head, draining, remote, gone>>
  BY DEF onPeerStatus
<1>13. DrainOK'
  BY <1>1, <1>12, SameDrain
<1> QED BY <1>11, <1>12, <1>13, HandlerInv

\* A peer is lost: nothing is left of what it was asked for.
LEMMA AbortingInv ==
  ASSUME Inv, NEW p \in Peers, onPeerAborting(p)
  PROVE  Inv' /\ Advanced(s')
<1> DEFINE x == [s EXCEPT !.connected = @ \ {p}, !.asking[p] = Nothing,
                          !.totalDifficulty[p] = 0, !.latestHash[p] = Genesis]
           y == clearPeerDownload(x, p)
<1>1. s \in States /\ Sound(s) /\ ChainOK /\ PeersOK /\ DrainOK /\ p \in s.connected
  BY DEF Inv, Kept, onPeerAborting
<1>2. x \in States
  <2>1. Genesis \in All
    BY DEF All
  <2> QED BY <1>1, <2>1 DEF States
<1>3. /\ x.state = s.state /\ x.headers = s.headers /\ x.haveCommonHeader = s.haveCommonHeader
      /\ x.connected = s.connected \ {p} /\ x.status = s.status
      /\ x.last = s.last /\ x.lastHash = s.lastHash /\ x.bodies = s.bodies
      /\ x.downloadingHeaders = s.downloadingHeaders /\ x.downloadingBodies = s.downloadingBodies
      /\ x.headerSyncPeers = s.headerSyncPeers /\ x.bodySyncPeers = s.bodySyncPeers
  BY <1>1 DEF States
<1>4. x.asking[p] = Nothing /\ \A q \in Peers \ {p} : x.asking[q] = s.asking[q]
  BY <1>1 DEF States
<1>5. s' \in continueSync(y)
  BY DEF onPeerAborting
<1> HIDE DEF x
<1>6. /\ y \in States
      /\ y.state = x.state /\ y.headers = x.headers /\ y.haveCommonHeader = x.haveCommonHeader
      /\ y.asking = x.asking /\ y.connected = x.connected /\ y.status = x.status
      /\ y.last = x.last /\ y.lastHash = x.lastHash /\ y.bodies = x.bodies
      /\ y.headerSyncPeers[p] = {} /\ y.bodySyncPeers[p] = {}
      /\ y.downloadingHeaders = x.downloadingHeaders \ x.headerSyncPeers[p]
      /\ y.downloadingBodies = x.downloadingBodies \ x.bodySyncPeers[p]
      /\ \A q \in Peers \ {p} : /\ y.headerSyncPeers[q] = x.headerSyncPeers[q]
                                /\ y.bodySyncPeers[q] = x.bodySyncPeers[q]
  <2> HIDE DEF y
  <2> QED BY <1>2, ClearFields DEF y
<1> HIDE DEF y
<1>7. Owned(y)
  <2>1. Owned(s)
    BY <1>1 DEF Sound
  <2>2. IsFiniteSet(y.connected)
    BY <1>3, <1>6, <2>1, FS_Subset DEF Owned
  <2>3. y.connected \cap gone = {} /\ \A q \in Peers : y.asking[q] # Nothing => q \in y.connected
    BY <1>3, <1>4, <1>6, <2>1 DEF Owned
  <2>4. \A q \in Peers : y.headerSyncPeers[q] # {} => y.asking[q] # Nothing /\ y.asking[q].kind = "BlockHeaders"
    BY <1>3, <1>4, <1>6, <2>1 DEF Owned
  <2>5. \A q \in Peers : y.bodySyncPeers[q] # {} => y.asking[q] # Nothing /\ y.asking[q].kind = "BlockBodies"
    BY <1>3, <1>4, <1>6, <2>1 DEF Owned
  <2>6. \A n \in y.downloadingHeaders : \E q \in Peers : n \in y.headerSyncPeers[q]
    BY <1>3, <1>6, <2>1 DEF Owned
  <2>7. \A n \in y.downloadingBodies : \E q \in Peers : n \in y.bodySyncPeers[q]
    BY <1>3, <1>6, <2>1 DEF Owned
  <2> QED BY <2>2, <2>3, <2>4, <2>5, <2>6, <2>7 DEF Owned
<1>8. Quiet(y)
  <2>1. Quiet(s)
    BY <1>1 DEF Sound
  <2> QED BY <1>3, <1>6, <2>1 DEF Quiet, Clean
<1>9. OneEach(y) /\ Advanced(y) /\ LastPlaced(y) /\ Queued(y)
  <2>1. OneEach(y) /\ Advanced(y)
    BY <1>1, <1>3, <1>6, SameDownload DEF Sound
  <2>2. LastPlaced(y) /\ Queued(y)
    BY <1>1, <1>3, <1>6, SameQueue DEF Sound
  <2> QED BY <2>1, <2>2
<1>10. y \in Kept
  BY <1>6, <1>7, <1>8, <1>9 DEF Kept, Sound
<1>11. s' \in Kept /\ s'.connected = s.connected \ {p}
  BY <1>1, <1>3, <1>5, <1>6, <1>10, ContinueKept
<1>12. /\ UNCHANGED <<chain, head, draining>>
       /\ gone' = gone \cup {p} /\ remote' = [remote EXCEPT ![p] = {Genesis}]
  BY DEF onPeerAborting
<1>13. DrainOK'
  BY <1>1, <1>12, SameDrain
<1>14. ChainOK'
  BY <1>1, <1>12 DEF ChainOK
<1>15. PeersOK'
  BY <1>1, <1>12 DEF PeersOK
<1>16. (s \in Kept)'
  <2>1. s.connected \cap gone = {}
    BY <1>1 DEF Sound, Owned
  <2>2. s'.connected \cap gone' = {}
    BY <1>11, <1>12, <2>1
  <2> QED BY <1>11, <1>12, <2>2, Carried
<1>17. Advanced(s')
  BY <1>11 DEF Kept, Sound
<1> QED BY <1>13, <1>14, <1>15, <1>16, <1>17 DEF Inv

LEMMA NewBlockInv ==
  ASSUME Inv, NEW p \in Peers, onPeerNewBlock(p)
  PROVE  Inv' /\ Advanced(s')
<1> DEFINE b == Theirs(p)
           result == importResult(s, b, Body[b])
           u == import(s, b, Body[b])
           yes == TRUE
<1>1. s \in Kept /\ s \in States /\ Sound(s) /\ ChainOK /\ PeersOK /\ DrainOK /\ p \in s.connected /\ p \notin gone
  <2>1. s \in Kept /\ s \in States /\ Sound(s) /\ ChainOK /\ PeersOK /\ DrainOK /\ p \in s.connected
    BY DEF Inv, Kept, onPeerNewBlock
  <2> QED BY <2>1 DEF Sound, Owned
<1>2. b \in Blocks
  BY <1>1, TheirHead
<1>3. s' = IF number[b] > s.last + 1 THEN syncPeer(s, p, yes)
           ELSE IF result = "Success" THEN TakenOver(u, b)
           ELSE IF result = "UnknownParent" /\ TotalDifficulty(b) > s.totalDifficulty[p]
                THEN syncPeer(u, p, yes)
           ELSE u
  BY DEF onPeerNewBlock
<1> HIDE DEF b, yes
<1>4. /\ u \in Kept
      /\ result = "Success" => Placed(u, b)
      /\ u.connected = s.connected
      /\ u.haveCommonHeader = s.haveCommonHeader /\ u.last = s.last
  <2> HIDE DEF u
  <2> QED BY <1>1, <1>2, ImportKept DEF u
<1>5. s.haveCommonHeader => Ahead(u)
  BY <1>1, <1>4, NotBehindItself DEF Ahead
<1> HIDE DEF u, result
<1>6. syncPeer(s, p, yes) \in Kept /\ syncPeer(u, p, yes) \in Kept
  BY <1>1, <1>4, SyncPeerKept
<1>7. result = "Success" => TakenOver(u, b) \in Kept
  BY <1>1, <1>2, <1>4, <1>5, TakenOverKept
<1>8. s' \in Kept
  BY <1>3, <1>4, <1>6, <1>7
<1>9. UNCHANGED <<chain, head, draining, remote, gone>>
  BY DEF onPeerNewBlock
<1>10. DrainOK'
  BY <1>1, <1>9, SameDrain
<1> QED BY <1>8, <1>9, <1>10, HandlerInv

LEMMA NewHashesInv ==
  ASSUME Inv, NEW p \in Peers, onPeerNewHashes(p)
  PROVE  Inv' /\ Advanced(s')
<1> DEFINE b == Theirs(p)
           x == [s EXCEPT !.latestHash[p] = b]
           yes == TRUE
<1>1. s \in States /\ Sound(s) /\ ChainOK /\ PeersOK /\ DrainOK /\ p \in s.connected /\ p \notin gone
  <2>1. s \in States /\ Sound(s) /\ ChainOK /\ PeersOK /\ DrainOK /\ p \in s.connected
    BY DEF Inv, Kept, onPeerNewHashes
  <2> QED BY <2>1 DEF Sound, Owned
<1>2. b \in All
  BY <1>1, TheirHead
<1>3. s' = syncPeer(x, p, yes)
  BY DEF onPeerNewHashes
<1> HIDE DEF b, yes
<1>4. x \in States
  BY <1>1, <1>2 DEF States
<1>5. /\ x.state = s.state /\ x.headers = s.headers /\ x.haveCommonHeader = s.haveCommonHeader
      /\ x.connected = s.connected /\ x.status = s.status /\ x.asking = s.asking
      /\ x.last = s.last /\ x.lastHash = s.lastHash /\ x.bodies = s.bodies
      /\ x.downloadingHeaders = s.downloadingHeaders /\ x.downloadingBodies = s.downloadingBodies
      /\ x.headerSyncPeers = s.headerSyncPeers /\ x.bodySyncPeers = s.bodySyncPeers
  BY <1>1 DEF States
<1> HIDE DEF x
<1>6. Owned(x) /\ Quiet(x)
  BY <1>1, <1>5 DEF Owned, Quiet, Clean, Sound
<1>7. OneEach(x) /\ Advanced(x) /\ LastPlaced(x) /\ Queued(x)
  BY <1>1, <1>5, SameQueue, SameDownload DEF Sound
<1>8. x \in Kept /\ p \in x.connected
  BY <1>1, <1>4, <1>5, <1>6, <1>7 DEF Kept, Sound
<1>9. s' \in Kept
  BY <1>1, <1>3, <1>8, SyncPeerKept
<1>10. UNCHANGED <<chain, head, draining, remote, gone>>
  BY DEF onPeerNewHashes
<1>11. DrainOK'
  BY <1>1, <1>10, SameDrain
<1> QED BY <1>9, <1>10, <1>11, HandlerInv

LEMMA ReorganiseInv ==
  ASSUME Inv, NEW p \in Peers, Reorganise(p)
  PROVE  Inv' /\ Advanced(s')
<1>1. s \in Kept /\ s \in States /\ Sound(s) /\ ChainOK /\ PeersOK /\ DrainOK
  BY DEF Inv, Kept
<1>2. UNCHANGED <<s, chain, head, draining, gone>>
  BY DEF Reorganise
<1>3. PeersOK'
  <2>1. PICK h \in Heads : remote' = [remote EXCEPT ![p] = @ \cup {h}]
    BY DEF Reorganise
  <2> QED BY <1>1, <1>2, <2>1 DEF PeersOK
<1>4. ChainOK' /\ DrainOK'
  BY <1>1, <1>2, SameDrain DEF ChainOK
<1>5. s'.connected \cap gone' = {} /\ s' \in Kept
  BY <1>1, <1>2 DEF Sound, Owned
<1>6. (s \in Kept)'
  BY <1>2, <1>5, Carried
<1>7. Advanced(s')
  BY <1>5 DEF Kept, Sound
<1> QED BY <1>3, <1>4, <1>6, <1>7 DEF Inv

\* The client takes a block whose parent is not in the queue any more: it is stored.
LEMMA DrainInv ==
  ASSUME Inv, Drain
  PROVE  Inv' /\ Advanced(s')
<1>1. s \in States /\ Sound(s) /\ ChainOK /\ PeersOK /\ DrainOK
  BY DEF Inv, Kept
<1>2. PICK b \in With(s, "Ready") :
         /\ Parent[b] \notin With(s, "Ready")
         /\ s' = Become(s, {b}, "Importing")
         /\ draining' = [block |-> b, at |-> IF knownFull(s) /\ ~knownFull(s') THEN "room" ELSE "import"]
  BY DEF Drain
<1>3. b \in Blocks /\ s.status[b] = "Ready"
  BY DEF With
<1>4. UNCHANGED <<chain, head, remote, gone>>
  BY DEF Drain
<1>5. With(s, "Importing") = {}
  <2>1. draining.block = Nothing
    BY <1>1 DEF Drain, DrainOK
  <2>2. Nothing \notin Blocks
    BY NothingAssumption DEF All
  <2>3. With(s, "Importing") \subseteq {draining.block} /\ With(s, "Importing") \subseteq Blocks
    BY <1>1 DEF Sound, Queued, With
  <2> QED BY <2>1, <2>2, <2>3
<1>6. Stored(Parent[b])
  <2>1. Placed(s, Parent[b])
    BY <1>1 DEF Sound, Queued
  <2> QED BY <1>2, <1>5, <2>1 DEF Placed
<1> DEFINE f == [c \in Blocks |-> IF c \in {b} THEN "Importing" ELSE s.status[c]]
<1>7. /\ s' \in States /\ s'.status = f
      /\ s'.haveCommonHeader = s.haveCommonHeader /\ s'.last = s.last /\ s'.lastHash = s.lastHash
      /\ s'.headers = s.headers /\ s'.bodies = s.bodies /\ s'.state = s.state
      /\ s'.downloadingHeaders = s.downloadingHeaders /\ s'.downloadingBodies = s.downloadingBodies
      /\ s'.headerSyncPeers = s.headerSyncPeers /\ s'.bodySyncPeers = s.bodySyncPeers
      /\ s'.asking = s.asking /\ s'.connected = s.connected
  <2>1. s' = [s EXCEPT !.status = f]
    BY <1>2 DEF Become
  <2>2. f \in [Blocks -> {"Unknown", "UnknownParent", "Ready", "Importing"}]
    BY <1>1 DEF States
  <2> HIDE DEF f
  <2> QED BY <1>1, <2>1, <2>2, SetStatus
<1>8. With(s', "Ready") = With(s, "Ready") \ {b} /\ With(s', "Importing") = {b}
  <2>1. \A c \in Blocks : s'.status[c] = IF c = b THEN "Importing" ELSE s.status[c]
    BY <1>7
  <2> HIDE DEF f
  <2> QED BY <1>3, <1>5, <2>1 DEF With
<1> HIDE DEF f
<1>9. \A c : Placed(s, c) => Placed(s, c)'
  BY <1>4, <1>5, <1>8 DEF Placed, Stored
<1>10. (s \in Kept)'
  <2>1. OneEach(s)' /\ Quiet(s)'
    BY <1>1, <1>7 DEF Sound, OneEach, Quiet, Clean
  <2>2. Owned(s)'
    BY <1>1, <1>4, <1>7 DEF Sound, Owned
  <2>3. LastPlaced(s)'
    <3>1. s.lastHash # Nothing => number[s.lastHash] = s.last /\ Placed(s, s.lastHash)
      BY <1>1 DEF Sound, LastPlaced
    <3>2. s.lastHash # Nothing => Placed(s, s.lastHash)'
      <4> SUFFICES ASSUME s.lastHash # Nothing PROVE Placed(s, s.lastHash)'
        OBVIOUS
      <4>1. Placed(s, s.lastHash)
        BY <3>1
      <4> QED BY <1>4, <1>5, <1>7, <1>8, <4>1 DEF Placed, Stored
    <3> QED BY <1>7, <3>1, <3>2 DEF LastPlaced
  <2>4. Queued(s)'
    <3>1. draining'.block = b
      BY <1>2
    <3>2. \A c \in With(s, "Ready") : Placed(s, Parent[c])
      BY <1>1 DEF Sound, Queued
    <3>3. \A c \in With(s', "Ready") : Stored(Parent[c]) \/ Parent[c] \in With(s', "Ready") \cup With(s', "Importing")
      BY <1>5, <1>8, <3>2 DEF Placed
    <3> QED BY <1>4, <1>8, <3>1, <3>3 DEF Queued, Placed, Stored
  <2>5. Advanced(s)'
    <3>1. s'.last \in Nat
      BY <1>7 DEF States
    <3> QED BY <3>1 DEF Advanced, Ahead
  <2> QED BY <1>7, <2>1, <2>2, <2>3, <2>4, <2>5 DEF Kept, Sound
<1>11. Advanced(s')
  BY <1>1, <1>7, NotBehindItself DEF Advanced, Ahead
<1>12. DrainOK'
  <2>1. draining'.block = b /\ draining'.at \in {"room", "import"} /\ DOMAIN draining' = {"block", "at"}
    BY <1>2
  <2>2. draining' \in [block : Blocks \cup {Nothing}, at : {"none", "room", "import", "best", "done"}]
    BY <1>2, <1>3
  <2> QED BY <1>3, <1>4, <1>6, <2>1, <2>2 DEF DrainOK, Stored
<1>13. ChainOK' /\ PeersOK'
  BY <1>1, <1>4 DEF ChainOK, PeersOK
<1> QED BY <1>10, <1>11, <1>12, <1>13 DEF Inv

LEMMA RoomInv ==
  ASSUME Inv, onRoomAvailable
  PROVE  Inv' /\ Advanced(s')
<1> DEFINE x == [s EXCEPT !.state = "Blocks"]
<1>1. s \in States /\ Sound(s) /\ ChainOK /\ PeersOK /\ DrainOK
  BY DEF Inv, Kept
<1>2. s' \in continueSync(x)
  BY DEF onRoomAvailable
<1>3. x \in States
  BY <1>1 DEF States
<1>4. /\ x.state = "Blocks" /\ x.headers = s.headers /\ x.haveCommonHeader = s.haveCommonHeader
      /\ x.connected = s.connected /\ x.status = s.status /\ x.asking = s.asking
      /\ x.last = s.last /\ x.lastHash = s.lastHash /\ x.bodies = s.bodies
      /\ x.downloadingHeaders = s.downloadingHeaders /\ x.downloadingBodies = s.downloadingBodies
      /\ x.headerSyncPeers = s.headerSyncPeers /\ x.bodySyncPeers = s.bodySyncPeers
  BY <1>1 DEF States
<1> HIDE DEF x
<1>5. Owned(x) /\ Quiet(x)
  BY <1>1, <1>4 DEF Owned, Quiet, Clean, Sound
<1>6. OneEach(x) /\ Advanced(x) /\ LastPlaced(x) /\ Queued(x)
  BY <1>1, <1>4, SameQueue, SameDownload DEF Sound
<1>7. x \in Kept
  BY <1>3, <1>5, <1>6 DEF Kept, Sound
<1>8. s' \in Kept
  BY <1>1, <1>2, <1>7, ContinueKept
<1>9. /\ UNCHANGED <<chain, head, remote, gone>>
      /\ draining' = [draining EXCEPT !.at = "import"] /\ draining.at = "room"
  BY DEF onRoomAvailable
<1>10. DrainOK' /\ draining'.block = draining.block
  BY <1>1, <1>9 DEF DrainOK, Stored
<1> QED BY <1>8, <1>9, <1>10, HandlerInv

\* The block is stored, if it is not yet.
LEMMA EnactInv ==
  ASSUME Inv, Enact
  PROVE  Inv' /\ Advanced(s')
<1> DEFINE b == draining.block
           good == Stored(Parent[b]) /\ ~InChain(b)
           best == good /\ TotalDifficulty(b) > TotalDifficulty(head)
<1>1. s \in Kept /\ s \in States /\ Sound(s) /\ ChainOK /\ PeersOK /\ DrainOK
  BY DEF Inv, Kept
<1>2. /\ draining.at = "import"
      /\ chain' = IF good THEN chain \cup {b} ELSE chain
      /\ head' = IF best THEN b ELSE head
      /\ draining' = [draining EXCEPT !.at = IF best THEN "best" ELSE "done"]
      /\ UNCHANGED <<s, remote, gone>>
  BY DEF Enact
<1>3. b \in Blocks /\ Stored(Parent[b])
  BY <1>1, <1>2 DEF DrainOK
<1>4. chain \subseteq chain' /\ (b \in chain \/ b \in chain')
  BY <1>2, <1>3, TreeAssumption DEF InChain
<1>5. ChainOK'
  <2>1. chain' \in SUBSET Blocks
    BY <1>1, <1>2, <1>3 DEF ChainOK
  <2>2. head' \in chain' \cup {Genesis}
    BY <1>1, <1>2, <1>4 DEF ChainOK
  <2>3. \A c \in chain : Line[c] \subseteq chain' \cup {Genesis}
    BY <1>1, <1>4 DEF ChainOK
  <2>4. good => Line[b] \subseteq chain' \cup {Genesis}
    <3> SUFFICES ASSUME good PROVE Line[b] \subseteq chain' \cup {Genesis}
      OBVIOUS
    <3>1. Line[b] = {b} \cup Line[Parent[b]]
      BY <1>3, LineStep
    <3>2. Line[Parent[b]] \subseteq chain \cup {Genesis}
      BY <1>1, <1>3, LineStep DEF Stored, ChainOK
    <3> QED BY <1>2, <3>1, <3>2
  <2> QED BY <1>2, <2>1, <2>2, <2>3, <2>4 DEF ChainOK
<1>6. PeersOK'
  BY <1>1, <1>2 DEF PeersOK
<1>7. draining'.block = b /\ draining'.at \in {"best", "done"}
      /\ draining' \in [block : Blocks \cup {Nothing}, at : {"none", "room", "import", "best", "done"}]
  <2>1. draining \in [block : Blocks \cup {Nothing}, at : {"none", "room", "import", "best", "done"}]
    BY <1>1 DEF DrainOK
  <2> HIDE DEF best
  <2> QED BY <1>2, <2>1
<1>8. DrainOK'
  BY <1>3, <1>4, <1>7 DEF DrainOK, Stored
<1>9. s' \in Kept /\ s'.connected \cap gone' = {}
  BY <1>1, <1>2 DEF Sound, Owned
<1>10. (s \in Kept)'
  BY <1>4, <1>7, <1>9, Carried
<1>11. Advanced(s')
  BY <1>9 DEF Kept, Sound
<1> QED BY <1>5, <1>6, <1>8, <1>10, <1>11 DEF Inv

LEMMA ImportedInv ==
  ASSUME Inv, onBlockImported
  PROVE  Inv' /\ Advanced(s')
<1> DEFINE b == draining.block
           n == number[b]
<1>1. s \in Kept /\ s \in States /\ ChainOK /\ PeersOK /\ DrainOK
  BY DEF Inv, Kept
<1>2. /\ UNCHANGED <<chain, head, remote, gone>>
      /\ draining' = [draining EXCEPT !.at = "done"] /\ draining.at = "best"
      /\ s' = NowLast(s, n, b)
  BY DEF onBlockImported
<1>3. b \in Blocks /\ Stored(b)
  BY <1>1, <1>2 DEF DrainOK
<1>4. b \in All /\ Placed(s, b) /\ (s.haveCommonHeader => Ahead(s))
  BY <1>1, <1>3, NotBehindItself DEF All, Placed
<1>5. s' \in Kept
  <2>1. n = number[b]
    OBVIOUS
  <2> HIDE DEF b, n
  <2> QED BY <1>1, <1>2, <1>4, <2>1, NowLastKept
<1>6. DrainOK' /\ draining'.block = draining.block
  BY <1>1, <1>2 DEF DrainOK, Stored
<1> QED BY <1>2, <1>5, <1>6, HandlerInv

\* What was being imported has been stored, and is not in the queue any more.
LEMMA DoneDrainInv ==
  ASSUME Inv, DoneDrain
  PROVE  Inv' /\ Advanced(s')
<1>1. s \in States /\ Sound(s) /\ ChainOK /\ PeersOK /\ DrainOK
  BY DEF Inv, Kept
<1>2. /\ draining.at = "done" /\ s' = Become(s, With(s, "Importing"), "Unknown")
      /\ draining' = [block |-> Nothing, at |-> "none"]
      /\ UNCHANGED <<chain, head, remote, gone>>
  BY DEF DoneDrain
<1>3. \A c \in With(s, "Importing") : Stored(c)
  <2>1. Stored(draining.block)
    BY <1>1, <1>2 DEF DrainOK
  <2>2. With(s, "Importing") \subseteq {draining.block}
    BY <1>1 DEF Sound, Queued
  <2> QED BY <2>1, <2>2
<1> DEFINE X == With(s, "Importing")
           f == [c \in Blocks |-> IF c \in X THEN "Unknown" ELSE s.status[c]]
<1>4. /\ s' \in States /\ s'.status = f
      /\ s'.haveCommonHeader = s.haveCommonHeader /\ s'.last = s.last /\ s'.lastHash = s.lastHash
      /\ s'.headers = s.headers /\ s'.bodies = s.bodies /\ s'.state = s.state
      /\ s'.downloadingHeaders = s.downloadingHeaders /\ s'.downloadingBodies = s.downloadingBodies
      /\ s'.headerSyncPeers = s.headerSyncPeers /\ s'.bodySyncPeers = s.bodySyncPeers
      /\ s'.asking = s.asking /\ s'.connected = s.connected
  <2>1. s' = [s EXCEPT !.status = f]
    BY <1>2 DEF Become
  <2>2. f \in [Blocks -> {"Unknown", "UnknownParent", "Ready", "Importing"}]
    <3> HIDE DEF X
    <3> QED BY <1>1 DEF States
  <2> HIDE DEF f
  <2> QED BY <1>1, <2>1, <2>2, SetStatus
<1>5. With(s', "Ready") = With(s, "Ready") /\ With(s', "Importing") = {}
  <2>1. \A c \in Blocks : s'.status[c] = IF s.status[c] = "Importing" THEN "Unknown" ELSE s.status[c]
    BY <1>4 DEF With
  <2> HIDE DEF f, X
  <2> QED BY <2>1 DEF With
<1> HIDE DEF f, X
<1>6. (s \in Kept)'
  <2>1. OneEach(s)' /\ Quiet(s)'
    BY <1>1, <1>4 DEF Sound, OneEach, Quiet, Clean
  <2>2. Owned(s)'
    BY <1>1, <1>2, <1>4 DEF Sound, Owned
  <2>3. LastPlaced(s)'
    <3>1. s.lastHash # Nothing => number[s.lastHash] = s.last /\ Placed(s, s.lastHash)
      BY <1>1 DEF Sound, LastPlaced
    <3>2. s.lastHash # Nothing => Stored(s.lastHash) \/ s.lastHash \in With(s', "Ready")
      BY <1>3, <1>5, <3>1 DEF Placed
    <3> QED BY <1>2, <1>4, <3>1, <3>2 DEF LastPlaced, Placed, Stored
  <2>4. Queued(s)'
    <3>1. \A c \in With(s, "Ready") : Placed(s, Parent[c])
      BY <1>1 DEF Sound, Queued
    <3>2. \A c \in With(s', "Ready") : Stored(Parent[c]) \/ Parent[c] \in With(s', "Ready")
      BY <1>3, <1>5, <3>1 DEF Placed
    <3> QED BY <1>2, <1>5, <3>2 DEF Queued, Placed, Stored
  <2>5. Advanced(s)'
    <3>1. s'.last \in Nat
      BY <1>4 DEF States
    <3> QED BY <3>1 DEF Advanced, Ahead
  <2> QED BY <1>4, <2>1, <2>2, <2>3, <2>4, <2>5 DEF Kept, Sound
<1>7. Advanced(s')
  BY <1>1, <1>4, NotBehindItself DEF Advanced, Ahead
<1>8. DrainOK'
  BY <1>2 DEF DrainOK
<1>9. ChainOK' /\ PeersOK'
  BY <1>1, <1>2 DEF ChainOK, PeersOK
<1> QED BY <1>6, <1>7, <1>8, <1>9 DEF Inv

-----------------------------------------------------------------------------
(* The theorems.                                                             *)

LEMMA NextInv ==
  ASSUME Inv, [Next]_vars
  PROVE  Inv' /\ (Advanced(s') \/ UNCHANGED vars)
<1>1. CASE Client
  BY <1>1, DrainInv, RoomInv, EnactInv, ImportedInv, DoneDrainInv DEF Client
<1>2. CASE \E p \in Peers : \/ Answer(p) \/ onPeerStatus(p) \/ onPeerAborting(p)
                            \/ onPeerNewBlock(p) \/ onPeerNewHashes(p) \/ Reorganise(p)
  <2>1. PICK p \in Peers : \/ Answer(p) \/ onPeerStatus(p) \/ onPeerAborting(p)
                           \/ onPeerNewBlock(p) \/ onPeerNewHashes(p) \/ Reorganise(p)
    BY <1>2
  <2>2. CASE Answer(p)
    BY <2>2, HeadersInv, BodiesInv DEF Answer
  <2>3. CASE onPeerStatus(p)
    BY <2>3, StatusInv
  <2>4. CASE onPeerAborting(p)
    BY <2>4, AbortingInv
  <2>5. CASE onPeerNewBlock(p)
    BY <2>5, NewBlockInv
  <2>6. CASE onPeerNewHashes(p)
    BY <2>6, NewHashesInv
  <2>7. CASE Reorganise(p)
    BY <2>7, ReorganiseInv
  <2> QED BY <2>1, <2>2, <2>3, <2>4, <2>5, <2>6, <2>7
<1>3. CASE UNCHANGED vars
  <2>1. UNCHANGED <<s, chain, head, draining, remote, gone>>
    BY <1>3 DEF vars
  <2>2. s \in Kept /\ DrainOK
    BY DEF Inv
  <2>3. DrainOK'
    BY <2>1, <2>2 DEF DrainOK, Stored
  <2>4. s' \in Kept
    BY <2>1, <2>2
  <2>5. Inv'
    BY <2>1, <2>3, <2>4, HandlerInv
  <2> QED BY <1>3, <2>5
<1> QED BY <1>1, <1>2, <1>3 DEF Next

LEMMA AlwaysInv == Spec => []Inv
<1>1. Inv /\ [Next]_vars => Inv'
  BY NextInv
<1> QED BY InitInv, <1>1, PTL DEF Spec

\* Whatever the peers answer, in whatever order, and whoever is lost: a number that is
\* marked in m_downloadingHeaders or m_downloadingBodies is to be delivered by a peer
\* that is asked for it, m_headers holds one header per number, and an idle sync has
\* nothing left in it.
THEOREM SyncIsConsistent == Spec => []SyncConsistent
<1>1. Inv => SyncConsistent
  <2> SUFFICES ASSUME Inv PROVE SyncConsistent
    OBVIOUS
  <2>1. s \in States /\ OneEach(s) /\ Owned(s) /\ Quiet(s) /\ ChainOK
    BY DEF Inv, Kept, Sound
  <2>2. TypeOK
    <3>1. s.state \in {"Idle", "NotSynced", "Blocks", "Waiting"} /\ s.headers \subseteq Blocks
      BY <2>1 DEF States
    <3> QED BY <2>1, <3>1 DEF TypeOK, OneEach, Owned, ChainOK
  <2>3. MarksHaveOwners
    <3>1. \A n \in s.downloadingHeaders : \E p \in s.connected :
             n \in s.headerSyncPeers[p] /\ s.asking[p] # Nothing /\ s.asking[p].kind = "BlockHeaders"
      BY <2>1 DEF Owned
    <3>2. \A n \in s.downloadingBodies : \E p \in s.connected :
             n \in s.bodySyncPeers[p] /\ s.asking[p] # Nothing /\ s.asking[p].kind = "BlockBodies"
      BY <2>1 DEF Owned
    <3> QED BY <3>1, <3>2 DEF MarksHaveOwners
  <2>4. IdleIsClean
    BY <2>1 DEF IdleIsClean, Quiet, Clean
  <2> QED BY <2>2, <2>3, <2>4 DEF SyncConsistent
<1> QED BY AlwaysInv, <1>1, PTL

\* m_lastImportedBlock and m_lastImportedBlockHash are always of one block, which the
\* database has or the queue is about to hand to it: collectBlocks(), onPeerNewBlock()
\* and the client's import set them together, and no block leaves the queue on which
\* they stand but by being stored.
THEOREM LastIsAlwaysKnown == Spec => []LastIsKnown
<1>1. Inv => LastIsKnown
  BY DEF Inv, Kept, Sound, LastPlaced, Placed, LastIsKnown
<1> QED BY AlwaysInv, <1>1, PTL

\* No handler lowers m_lastImportedBlock while there is a common block, but the ones
\* that start the download anew.
THEOREM DownloadAdvances == Spec => LastAdvances
<1>1. Inv /\ [Next]_vars
      => [s.haveCommonHeader /\ s'.haveCommonHeader
          => s'.last >= s.last \/ (s'.last = number[head] /\ s'.last <= 1)]_vars
  <2> SUFFICES ASSUME Inv, [Next]_vars, ~UNCHANGED vars, s.haveCommonHeader, s'.haveCommonHeader
               PROVE  s'.last >= s.last \/ (s'.last = number[head] /\ s'.last <= 1)
    OBVIOUS
  <2>1. Advanced(s')
    BY NextInv
  <2> QED BY <2>1 DEF Advanced, Ahead, Anew
<1> QED BY AlwaysInv, <1>1, PTL DEF Spec, LastAdvances
=============================================================================
