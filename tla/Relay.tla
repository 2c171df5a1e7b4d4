-------------------------------- MODULE Relay --------------------------------
(***************************************************************************)
(* The relay, main.cpp: what its main() runs one after the other, the      *)
(* verification of a block header (RelayCache) and of a transaction's      *)
(* Merkle proof (MerkleProof).  They share nothing, neither memory nor     *)
(* files, so that a behaviour is about one of them.                        *)
(***************************************************************************)
EXTENDS RelayCache, MerkleProof

VARIABLE command    \* what the behaviour is about

relayVars == <<vars, proofVars, command>>

RelayInit ==
    /\ Init
    /\ \/ command = "header" /\ keys = {} /\ proven = <<>> /\ path = <<>> /\ nodes = <<>>
                             /\ i = 0 /\ result = "noreturn"
       \/ command = "proof" /\ ProofInit

verify_block_header == command = "header" /\ Next /\ UNCHANGED <<command, proofVars>>
merkle_proof == command = "proof" /\ ProofNext /\ UNCHANGED <<command, vars>>

RelayNext == verify_block_header \/ merkle_proof

\* merkle_proof is a loop of one thread, and goes on.
RelaySpec == RelayInit /\ [][RelayNext]_relayVars /\ WF_proofVars(merkle_proof)
-----------------------------------------------------------------------------
\* The loop over the nodes never leaves the list, and accepts no proof but that of the path,
\* where every extension holds one nibble and the leaf is even (main.cpp:164 to :205).
ProofIsOwn == command = "proof" => ProofConsistent

\* Such a proof is accepted in the end for the path it proves (main.cpp:198).
ProofIsAccepted == (command = "proof" /\ proven = path /\ Plain(path)) ~> result = "returned"
=============================================================================
