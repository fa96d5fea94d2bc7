------------------------------- MODULE MCSync -------------------------------
(***************************************************************************)
(* The data structures of mnemo-core and mnemo-graph in one model: the     *)
(* hybrid clock and the replicated types and digests of the sync module,   *)
(* the Merkle tree over the identity allowlist, the traversals of the      *)
(* graph engine, the lists clients page through, and what is told of facts  *)
(* over time.  They share no state, so a behaviour exercises one of them   *)
(* while the others stay in one initial state.                             *)
(***************************************************************************)
EXTENDS HybridClock, ReplicatedCounter, LwwMap, OrSet, MerkleDigest, AllowlistProofs,
        GraphTraversal, Paging, FactTimeline

VARIABLE subject   \* the part that this behaviour is about

vars == <<clockVars, counterVars, mapVars, setVars, listing, proofVars, walkVars, pageVars,
          timelineVars, subject>>

MCNodes == {"a", "b", "c"}
MCItemKeys == {<<"p", 1>>, <<"p", 2>>, <<"q", 1>>}
MCAllKeys == <<"k1", "k2", "k3", "k4", "k5">>
MCRank  == [n \in MCNodes |-> CASE n = "a" -> 1 [] n = "b" -> 2 [] n = "c" -> 3]

Init ==
    /\ subject \in {"clock", "counter", "map", "set", "digest", "proof", "walk", "pages", "timeline"}
    /\ CounterInit /\ MapInit /\ SetInit /\ DigestInit
    /\ ClockInit /\ (subject # "clock" => wall = [n \in Nodes |-> 0])
    /\ ProofInit /\ (subject # "proof" => leaves = <<"k1">> /\ proof.key = "k1")
    /\ InitWalk
    /\ subject # "walk" =>
         /\ walk.kind = "labels" /\ links = {}
         /\ \A e \in Entities : owner[e] = "own"
    /\ InitTimeline
    /\ IF subject = "pages" THEN InitPaging
       ELSE StartPaging("replay", 1, PageIds, Unlisted, Unlisted)

NextSubject ==
    \/ subject = "clock" /\ ClockNext
         /\ UNCHANGED <<counterVars, mapVars, setVars, listing, proofVars, walkVars, pageVars,
                       timelineVars>>
    \/ subject = "counter" /\ CounterNext
         /\ UNCHANGED <<clockVars, mapVars, setVars, listing, proofVars, walkVars, pageVars,
                       timelineVars>>
    \/ subject = "map" /\ MapNext
         /\ UNCHANGED <<clockVars, counterVars, setVars, listing, proofVars, walkVars, pageVars,
                       timelineVars>>
    \/ subject = "set" /\ SetNext
         /\ UNCHANGED <<clockVars, counterVars, mapVars, listing, proofVars, walkVars, pageVars,
                       timelineVars>>
    \/ subject = "digest" /\ DigestNext
         /\ UNCHANGED <<clockVars, counterVars, mapVars, setVars, proofVars, walkVars, pageVars,
                       timelineVars>>
    \/ subject = "proof" /\ ProofNext
         /\ UNCHANGED <<clockVars, counterVars, mapVars, setVars, listing, walkVars, pageVars,
                       timelineVars>>
    \/ subject = "walk" /\ WalkNext
         /\ UNCHANGED <<clockVars, counterVars, mapVars, setVars, listing, proofVars, pageVars,
                       timelineVars>>
    \/ subject = "pages" /\ PageNext
         /\ UNCHANGED <<clockVars, counterVars, mapVars, setVars, listing, proofVars, walkVars,
                       timelineVars>>
    \/ subject = "timeline" /\ NextTimeline
         /\ UNCHANGED <<clockVars, counterVars, mapVars, setVars, listing, proofVars, walkVars,
                       pageVars>>

Next == NextSubject /\ UNCHANGED subject

Spec == Init /\ [][Next]_vars

(* All state has its type; no clock runs ahead of every wall clock. *)
TypeOK ==
    /\ ClockTypeOK /\ CounterTypeOK /\ MapTypeOK /\ SetTypeOK
    /\ DigestTypeOK /\ ProofTypeOK /\ WalkTypeOK /\ PageTypeOK /\ TimelineTypeOK

(* Two Merkle trees: what two digests, or a root and a proof, tell is true. *)
TreesTell == DigestsTell /\ ProofsVerify
=============================================================================
