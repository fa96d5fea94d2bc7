---------------------------- MODULE MerkleDigest ----------------------------
(***************************************************************************)
(* MerkleDigest of mnemo-core's sync module: two replicas list their       *)
(* resources, digest the lists and compare the digests to learn where they *)
(* differ.  A hash is the value that it was made of, so two hashes are     *)
(* equal only for equal values; the hash of a list stands for the list.    *)
(***************************************************************************)
EXTENDS Naturals, Sequences

CONSTANTS ItemKeys,  \* keys: the first character and what follows
          Contents   \* hashes of resources, made by the caller

VARIABLE listing   \* listing[n]: the items of a replica, in the order they are listed

Replicas == {"here", "there"}
Prefixes == {key[1] : key \in ItemKeys}

DigestInit == listing = [n \in Replicas |-> <<>>]

\* from_items: the root hashes the hashes of all items, a node those of the
\* items with its prefix.  The hash of no items differs from all others.
hashes(items) == [i \in DOMAIN items |-> items[i].hash]
\* Mutant: a prefix keeps the hash of its last item only.
nodesLast(items) ==
    [p \in {items[i].key[1] : i \in DOMAIN items} |->
        LET of == hashes(SelectSeq(items, LAMBDA item : item.key[1] = p)) IN <<of[Len(of)]>>]

nodes(items) ==
    [p \in {items[i].key[1] : i \in DOMAIN items} |->
        hashes(SelectSeq(items, LAMBDA item : item.key[1] = p))]

from_items(items) == [root_hash |-> hashes(items), nodes |-> nodes(items)]

\* diff_prefixes, sorted in the code
diff_prefixes(mine, theirs) ==
    IF mine.root_hash = theirs.root_hash THEN {}
    ELSE LET both == DOMAIN mine.nodes \cap DOMAIN theirs.nodes IN
         {p \in DOMAIN mine.nodes \cup DOMAIN theirs.nodes :
            p \in both => mine.nodes[p] # theirs.nodes[p]}

\* A resource is stored, in its place or after all others, or removed.
StoreItem(n, key, hash) ==
    LET at == {i \in DOMAIN listing[n] : listing[n][i].key = key}
        item == [key |-> key, hash |-> hash]
    IN listing' = [listing EXCEPT ![n] =
         IF at = {} THEN Append(@, item)
         ELSE [i \in DOMAIN @ |-> IF i \in at THEN item ELSE @[i]]]

RemoveItem(n, key) ==
    /\ \E i \in DOMAIN listing[n] : listing[n][i].key = key
    /\ listing' = [listing EXCEPT ![n] = SelectSeq(@, LAMBDA item : item.key # key)]

DigestNext ==
    \E n \in Replicas, key \in ItemKeys :
        RemoveItem(n, key) \/ \E hash \in Contents : StoreItem(n, key, hash)

-----------------------------------------------------------------------------
(* Properties                                                              *)

DigestTypeOK ==
    \A n \in Replicas : listing[n] \in Seq([key : ItemKeys, hash : Contents])

KeyOrder(n) == [i \in DOMAIN listing[n] |-> listing[n][i].key]
With(n, p) == {listing[n][i] : i \in {j \in DOMAIN listing[n] : listing[n][j].key[1] = p}}

(* Replicas that list the same keys in the same order learn exactly the    *)
(* prefixes under which a resource differs, and whatever they list, a      *)
(* prefix under which both list the same is never reported.  (The hashes   *)
(* do not cover the keys: of different keys nothing is promised.)          *)
DigestsTell ==
    LET diff == diff_prefixes(from_items(listing["here"]), from_items(listing["there"])) IN
    /\ KeyOrder("here") = KeyOrder("there") =>
         diff = {p \in Prefixes : With("here", p) # With("there", p)}
    /\ \A p \in diff :
         LET under(n) == SelectSeq(listing[n], LAMBDA item : item.key[1] = p) IN
         under("here") # under("there")
=============================================================================
