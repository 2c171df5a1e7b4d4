------------------------------ MODULE MerkleProof ------------------------------
(***************************************************************************)
(* main.cpp, merkle_proof: walks a list of trie nodes, the proof that the  *)
(* transaction with key `path' is in a block, against the transaction trie *)
(* that hash256rlp (libdevcore/TrieHash.cpp) builds over the block's keys. *)
(*                                                                         *)
(* A node of the trie is named by the nibbles that lead to it; the hash of *)
(* a node identifies it, so comparing hashes is comparing names.  A        *)
(* transaction is named by its key.  The list of nodes comes from outside: *)
(* it is the path from the root to the leaf of some transaction of the     *)
(* block, not always the one whose key is passed as `path'.                *)
(***************************************************************************)
EXTENDS Naturals, Sequences, FiniteSets, SequencesExt

CONSTANTS
    TxCounts,   \* the numbers of transactions of the blocks considered
    Samples     \* the indices of the transactions asked about

\* So that the index of a transaction has two bytes.
MaxTxs == 65536
ASSUME CountsAssumption == TxCounts \subseteq 1..MaxTxs /\ Samples \subseteq Nat

\* The nibbles of rlp(n), n < MaxTxs: the key of transaction n.
Nibbles(byte) == <<byte \div 16, byte % 16>>
Key(n) == IF n = 0 THEN Nibbles(128)
          ELSE IF n < 128 THEN Nibbles(n)
          ELSE IF n < 256 THEN Nibbles(129) \o Nibbles(n)
          ELSE Nibbles(130) \o Nibbles(n \div 256) \o Nibbles(n % 256)

VARIABLES
    keys,   \* the keys of the block's transactions
    proven, \* the key whose proof was made
    nodes,  \* that proof: the argument TX_RLP
    path,   \* the argument `path'
    i,      \* the loop counter
    result  \* what the function does: it runs, returns, fails an assertion, or
            \* reaches its end without a return statement
proofVars == <<keys, proven, nodes, path, i, result>>

-----------------------------------------------------------------------------
(* The trie: hash256rlp over the keys that begin with p, Len(p) = _preLen.   *)
Under(p) == {k \in keys : IsPrefix(p, k)}

\* The longest prefix all the keys under p share, _preLen nibbles at least.
Shared(p) == LongestCommonPrefix(Under(p))

NextNibbles(p) == {k[Len(p) + 1] : k \in Under(p)}
IsLeaf(p)      == Cardinality(Under(p)) = 1
IsExtension(p) == ~IsLeaf(p) /\ Cardinality(NextNibbles(p)) = 1
IsBranch(p)    == ~IsLeaf(p) /\ Cardinality(NextNibbles(p)) > 1

\* The nodes on the way to key k, from the root: p is one of them when it is the
\* root, hangs under a branch, or is the branch below an extension; each is behind
\* those that are less deep.
IsNode(p) == p = <<>> \/ IsBranch(p) \/ IsBranch(Front(p))
Depths(k) == {n \in 0..Len(k) : IsNode(SubSeq(k, 1, n))}
Before(D, n) == {m \in D : m < n}
Proof(k) == LET D == Depths(k)
            IN  [j \in 1..Cardinality(D) |->
                    SubSeq(k, 1, CHOOSE n \in D : Cardinality(Before(D, n)) = j - 1)]

\* The first byte of hexPrefixEncode(..., leaf, ...) for n nibbles, without the
\* nibble that an odd length puts into it.
Flags(leaf, n) == (IF leaf THEN 32 ELSE 0) + (IF n % 2 = 1 THEN 16 ELSE 0)
LEAF_FLAG == 32

\* What merkle_proof reads as node[0][0] of a node with two items.
FirstByte(p) == IF IsLeaf(p)
                THEN Flags(TRUE, Len(CHOOSE k \in Under(p) : TRUE) - Len(p))
                ELSE Flags(FALSE, Len(Shared(p)) - Len(p))

-----------------------------------------------------------------------------
ProofInit ==
    /\ \E n \in TxCounts :
          /\ keys = {Key(t) : t \in 0..(n - 1)}
          /\ \E t, u \in Samples : t < n /\ u < n /\ proven = Key(t) /\ path = Key(u)
    /\ nodes = Proof(proven)
    /\ i = 0 /\ result = "running"

node == nodes[i + 1]

\* path[i]: the nibble is taken at the index of the node in the list.
\* Fault: the nibble before.
PathNibble_before == IF i = 0 THEN path[1] ELSE path[i]
PathNibble == path[i + 1]

\* branchPathHash == nextNodeHash.
\* Fault: the comparison is left out, as in a build without assertions.
SelectsNext_any == TRUE
SelectsNext == Append(node, PathNibble) = nodes[i + 2]

\* i++.
\* Fault: an extension is stepped over with the node below it.
Advance_two == i' = i + 2
Advance == i' = i + 1

\* 17 items: the child the path selects must be the next node of the list.
Branch ==
    /\ result = "running" /\ i < Len(nodes) /\ IsBranch(node)
    /\ IF i + 1 > Len(path) THEN result' = "undefined" \* path[i] past its end
       ELSE IF SelectsNext THEN result' = "running"
       ELSE result' = "assert"
    /\ Advance
    /\ UNCHANGED <<keys, proven, nodes, path>>

\* 2 items, and node[0][0] is LEAF_FLAG.
Leaf ==
    /\ result = "running" /\ i < Len(nodes) /\ ~IsBranch(node)
    /\ FirstByte(node) = LEAF_FLAG
    /\ result' = "returned"
    /\ UNCHANGED <<keys, proven, nodes, path, i>>

\* 2 items, anything else: "Extension Node".
Extension ==
    /\ result = "running" /\ i < Len(nodes) /\ ~IsBranch(node)
    /\ FirstByte(node) # LEAF_FLAG
    /\ Advance
    /\ UNCHANGED <<keys, proven, nodes, path, result>>

\* The loop is over and the function has no return statement left.
NoReturn ==
    /\ result = "running" /\ i = Len(nodes)
    /\ result' = "noreturn"
    /\ UNCHANGED <<keys, proven, nodes, path, i>>

ProofNext == Branch \/ Leaf \/ Extension \/ NoReturn

ProofSpec == ProofInit /\ [][ProofNext]_proofVars /\ WF_proofVars(ProofNext)

-----------------------------------------------------------------------------
ProofTypeOK ==
    /\ nodes = Proof(proven)
    /\ proven \in keys /\ path \in keys
    /\ i \in 0..Len(nodes)
    /\ result \in {"running", "returned", "assert", "undefined", "noreturn"}

\* The transactions the function can deal with: the extensions on the way hold
\* one nibble, the leaf an even number of them.
Plain(k) ==
    \A n \in DOMAIN Proof(k) : LET p == Proof(k)[n]
                               IN  /\ IsExtension(p) => Len(Shared(p)) = Len(p) + 1
                                   /\ IsLeaf(p) => (Len(k) - Len(p)) % 2 = 0

\* For those, the proof of a transaction is accepted for its path, and no other.
OnlyItsOwnProof == result = "returned" /\ Plain(path) => proven = path

\* The loop never leaves the list of nodes, and accepts nothing but the proof.
ProofConsistent == ProofTypeOK /\ OnlyItsOwnProof

-----------------------------------------------------------------------------
(* Promises of the code's comments that TLC finds broken.                   *)

\* "MERKLE PROOF VERIFIED" (main.cpp:201): the proof verified is that of the
\* transaction at the path.
VerifiedIsAtPath == result = "returned" => proven = path

\* TrieCommon.cpp:36 to :40 list leaves of odd and of even length: the proof of
\* every transaction of every block is accepted for its path.
ProofsAccepted == (proven = path) ~> result = "returned"
=============================================================================
