-------------------------------- MODULE OrSet --------------------------------
(***************************************************************************)
(* ORSet of mnemo-core's sync module: nodes add and remove elements and    *)
(* exchange snapshots that may be lost, duplicated and delivered in any    *)
(* order.  An element's tags say which add operations it stands for.       *)
(***************************************************************************)
EXTENDS SyncNodes, FiniteSets

CONSTANTS
    Elements,
    MaxAdds,      \* bound: add operations of one node
    MaxRemoves,   \* bound: remove operations in a behaviour
    MaxSetSent       \* bound: snapshots sent in a behaviour

ASSUME OrSetAssumption == MaxAdds \in Nat /\ MaxRemoves \in Nat /\ MaxSetSent \in Nat

VARIABLES
    tags,      \* tags[n]: n's elements, as <<element, tag>> pairs
    seqs,      \* seqs[n][m]: seq_counters of n's replica
    added,     \* history: added[n]: the pairs whose add reached n
    removed,   \* history: removed[n]: the pairs whose remove reached n
    setSent,      \* snapshots on the network, kept for duplicates
    adds,      \* history: add operations so far
    removes    \* remove operations so far

setVars == <<tags, seqs, added, removed, setSent, adds, removes>>

Tag  == [node : Nodes, seq : 1 .. MaxAdds]
Pair == Elements \X Tag

SetTypeOK ==
    /\ tags \in [Nodes -> SUBSET Pair]
    /\ seqs \in [Nodes -> [Nodes -> 0 .. MaxAdds]]
    /\ added \in [Nodes -> SUBSET Pair]
    /\ removed \in [Nodes -> SUBSET Pair]
    /\ adds \in Nat
    /\ removes \in 0 .. MaxRemoves

SetInit ==
    /\ tags = [n \in Nodes |-> {}]
    /\ seqs = [n \in Nodes |-> [m \in Nodes |-> 0]]
    /\ added = [n \in Nodes |-> {}]
    /\ removed = [n \in Nodes |-> {}]
    /\ setSent = {}
    /\ adds = 0 /\ removes = 0

Contains(n, x) == \E p \in tags[n] : p[1] = x

-----------------------------------------------------------------------------
(* add, with the tag from next_tag. *)
Add(n, x) ==
    LET tag == [node |-> n, seq |-> seqs[n][n] + 1]
    IN  /\ seqs[n][n] < MaxAdds
        /\ seqs' = [seqs EXCEPT ![n][n] = @ + 1]
        /\ tags' = [tags EXCEPT ![n] = @ \cup {<<x, tag>>}]
        /\ added' = [added EXCEPT ![n] = @ \cup {<<x, tag>>}]
        /\ adds' = adds + 1
        /\ UNCHANGED <<removed, setSent, removes>>

(* remove: all the tags that n has for x go. *)
Remove(n, x) ==
    LET observed == {p \in tags[n] : p[1] = x}
    IN  /\ Contains(n, x) /\ removes < MaxRemoves
        /\ removes' = removes + 1
        /\ tags' = [tags EXCEPT ![n] = @ \ observed]
        /\ removed' = [removed EXCEPT ![n] = @ \cup observed]
        /\ UNCHANGED <<seqs, added, setSent, adds>>

(* A node puts its state into an envelope. *)
SendSet(n) ==
    /\ Cardinality(setSent) < MaxSetSent
    /\ setSent' = setSent \cup {[tags |-> tags[n], seqs |-> seqs[n],
                           added |-> added[n], removed |-> removed[n]]}
    /\ UNCHANGED <<tags, seqs, added, removed, adds, removes>>

(* Mutant: an element the node knows keeps its own tags. *)
MergedTagsOwn(n, s) == tags[n] \cup {p \in s.tags : ~Contains(n, p[1])}

(* merge: the union of all pairs, whatever was removed. *)
MergedTags(n, s) == tags[n] \cup s.tags

(* The counters are merged with the pointwise maximum. *)
MergeSet(n, s) ==
    /\ tags' = [tags EXCEPT ![n] = MergedTags(n, s)]
    /\ seqs' = [seqs EXCEPT ![n] = [m \in Nodes |-> Larger(@[m], s.seqs[m])]]
    /\ added' = [added EXCEPT ![n] = @ \cup s.added]
    /\ removed' = [removed EXCEPT ![n] = @ \cup s.removed]
    /\ UNCHANGED <<setSent, adds, removes>>

SetNext ==
    \E n \in Nodes :
        \/ \E x \in Elements : Add(n, x) \/ Remove(n, x)
        \/ SendSet(n)
        \/ \E s \in setSent : MergeSet(n, s)

SetSpec == SetInit /\ [][SetNext]_setVars

-----------------------------------------------------------------------------
(* "Each add creates a unique tag": there are as many tags as there were    *)
(* adds, although the counter a tag comes from is merged with the counters  *)
(* of other replicas.                                                       *)
TagsUnique == Cardinality({p[2] : p \in UNION {added[n] : n \in Nodes}}) = adds

(* "Concurrent add + remove -> element survives (add-wins semantics)": an   *)
(* add that reached a node, and no remove of which did, is in its set.      *)
AddWins == \A n \in Nodes : added[n] \ removed[n] \subseteq tags[n]

(* No add is lost: neither to another add with its tag nor to a merge. *)
AddsSurvive == TagsUnique /\ AddWins

(* "Automatically converge when merged from any order of operations": nodes *)
(* that the same adds and removes have reached hold the same set.           *)
SetsConverged ==
    \A m, n \in Nodes :
        added[m] = added[n] /\ removed[m] = removed[n] => tags[m] = tags[n]

=============================================================================
