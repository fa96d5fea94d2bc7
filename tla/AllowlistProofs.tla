--------------------------- MODULE AllowlistProofs ---------------------------
(***************************************************************************)
(* The Merkle tree over the identity allowlist (models/agent.rs): the tree *)
(* of a list of keys, the proof that a key is in it, and its verification. *)
(* A hash is the term it was made of: two hashes are equal only if the     *)
(* terms are.  A behaviour draws up a proof, sibling by sibling, from the  *)
(* hashes of the tree and of the other keys.                               *)
(***************************************************************************)
EXTENDS Integers, Sequences

LOCAL INSTANCE SequencesExt

CONSTANTS AllKeys,      \* keys, in alphabetical order
          MaxSiblings   \* bound: siblings of a proof

ASSUME AllowlistAssumption == MaxSiblings \in Nat

VARIABLES leaves,   \* the sorted list of keys of the tree
          proof     \* the proof drawn up so far: its key and siblings

proofVars == <<leaves, proof>>

leaf_hash(key) == <<"leaf", key>>
node_hash(left, right) == <<"node", left, right>>

\* from_keys: the last leaf of an odd number is doubled, and so is the last
\* node of a layer that is not the root.
Padded(layer) == IF Len(layer) % 2 = 0 THEN layer ELSE Append(layer, Last(layer))

\* Mutant: the last of an odd number of nodes goes up as it is.
AbovePromoted(layer) ==
    [i \in 1..(Len(layer) + 1) \div 2 |->
       IF 2 * i <= Len(layer) THEN node_hash(layer[2 * i - 1], layer[2 * i]) ELSE layer[2 * i - 1]]

Above(layer) == [i \in 1..Len(Padded(layer)) \div 2 |->
                   node_hash(Padded(layer)[2 * i - 1], Padded(layer)[2 * i])]

layers(keys) ==
    FoldLeft(LAMBDA tree, key : IF Len(Last(tree)) > 1 THEN Append(tree, Above(Last(tree))) ELSE tree,
             <<Padded([j \in DOMAIN keys |-> leaf_hash(keys[j])])>>, keys)

root(tree) == Last(tree)[1]

\* prove: the sibling of each node on the way up from the key's leaf, itself
\* where there is none.
prove(keys, key) ==
    LET tree == layers(keys)
        idx  == CHOOSE i \in DOMAIN keys : keys[i] = key
        on(i) == (idx - 1) \div 2 ^ (i - 1) + 1   \* current_idx in the i-th layer
        sibling(i) ==
          LET right == on(i) % 2 = 1
              at == IF right THEN on(i) + 1 ELSE on(i) - 1
          IN [hash |-> tree[i][IF at <= Len(tree[i]) THEN at ELSE on(i)],
              position |-> IF right THEN "right" ELSE "left"]
    IN [key |-> key, siblings |-> [i \in 1..Len(tree) - 1 |-> sibling(i)]]

\* verify_against_root
up(current, sibling) ==
    IF sibling.position = "right" THEN node_hash(current, sibling.hash)
                                  ELSE node_hash(sibling.hash, current)
verify_against_root(top, p) == FoldLeft(up, leaf_hash(p.key), p.siblings) = top

-----------------------------------------------------------------------------

\* The first keys are listed and the others are not.
ProofInit ==
    /\ \E n \in 1..Len(AllKeys) : leaves = SubSeq(AllKeys, 1, n)
    /\ \E k \in Range(AllKeys) : proof = [key |-> k, siblings |-> <<>>]

Hashes == LET tree == layers(leaves) IN
          UNION {Range(tree[i]) : i \in DOMAIN tree}
            \cup {leaf_hash(k) : k \in Range(AllKeys)}

AddSibling(hash, position) ==
    /\ Len(proof.siblings) < MaxSiblings
    /\ proof' = [proof EXCEPT !.siblings = Append(@, [hash |-> hash, position |-> position])]
    /\ UNCHANGED leaves

ProofNext == \E hash \in Hashes, position \in {"left", "right"} : AddSibling(hash, position)

-----------------------------------------------------------------------------
(* Properties                                                              *)

ProofTypeOK == leaves \in Seq(Range(AllKeys)) /\ Len(proof.siblings) <= MaxSiblings

(* The proof made for a listed key verifies, whatever the length of the    *)
(* list; and a proof that verifies is about a listed key.                  *)
ProofsVerify ==
    LET top == root(layers(leaves)) IN
    /\ \A k \in Range(leaves) : verify_against_root(top, prove(leaves, k))
    /\ verify_against_root(top, proof) => proof.key \in Range(leaves)
=============================================================================
