----------------------------- MODULE GraphIngest -----------------------------
(***************************************************************************)
(* What process_episode writes into the knowledge graph: entities resolved *)
(* by name, facts (edges) that supersede older facts, and belief changes,  *)
(* when several episodes of one user are processed at once and an attempt  *)
(* may fail anywhere and be repeated from the start; with the handlers     *)
(* that delete entities and that rewrite edges (access recording and       *)
(* revalidation) beside it.                                                *)
(*                                                                         *)
(* Every episode states one fact, Subject --label--> object, for one label *)
(* and one of the names in Objects, the case in which facts compete.  The  *)
(* extractor (an LLM) may name another object when an attempt is repeated. *)
(***************************************************************************)
EXTENDS Integers, FiniteSets

CONSTANTS
    Episodes,      \* claimed episodes of one user
    Subject,       \* lower-cased name of the entity all facts are about
    Objects,       \* lower-cased names the facts may point to
    Nil,           \* no entity
    Concurrency,   \* episodes processed at once (one worker, or all of them)
    MaxAttempts,   \* max_retries + 1
    MaxFaults,     \* bound: failing calls whose error ends the attempt
    MaxIgnored,    \* bound: failing Redis calls whose error is ignored
    MaxDeletes,    \* bound: delete_entity requests
    MaxRewrites,   \* bound: record_edge_access and revalidate_fact calls
    MaxDisturbances   \* bound: all of these together

ASSUME NamesAssumption == Subject \notin Objects /\ Objects # {}
ASSUME GraphBoundsAssumption ==
    /\ Concurrency \in Nat \ {0} /\ MaxAttempts \in Nat \ {0}
    /\ MaxFaults \in Nat /\ MaxIgnored \in Nat /\ MaxDeletes \in Nat /\ MaxRewrites \in Nat
    /\ MaxDisturbances \in Nat

Names == Objects \cup {Subject}

(* An attempt creates at most one entity per name and one edge, so the     *)
(* attempt and the name stand for the UUIDs that it makes up.              *)
Attempts  == Episodes \X (1 .. MaxAttempts)
EntityIds == Attempts \X Names
NameOf(id) == id[2]

ASSUME NilAssumption == Nil \notin EntityIds \cup Attempts

VARIABLES
    entity,     \* ids of the stored entity documents
    nameIdx,    \* entity_name keys: name -> id or Nil
    edge,       \* edge[a]: document of the edge attempt a created
    src, tgt,   \* its endpoints
    indexed,    \* attempts whose edge is in the adjacency list of its source
    beliefs,    \* recorded belief changes
    pc,         \* pc[e]: where the current attempt at e is
    attempt,    \* attempt[e]: its number
    object,     \* object[e]: the object the extractor named
    ids,        \* ids[e]: name_to_id of the attempt
    cand,       \* cand[e]: the entity find_entity_by_name returned
    todo,       \* todo[e]: edges of the last listing still to be handled
    last,       \* history: the attempt that completed last
    overlap,    \* history: two episodes have been processed at once
    rewriting,  \* edges read by a rewriting request that has yet to store them
    deleting,   \* entities whose document delete_entity has removed so far
    faults, ignored, deletes, rewrites   \* environment events so far

graph   == <<entity, nameIdx, edge, src, tgt, indexed, beliefs>>
locals  == <<pc, attempt, object, ids, cand, todo>>
budget  == <<faults, ignored, deletes, rewrites>>
history == <<last, overlap>>
graphVars == <<graph, locals, history, rewriting, deleting, budget>>

Working == {"find", "mention", "create", "name", "conflicts", "invalidate",
            "beliefs", "edge", "index", "embed"}
Pcs == Working \cup {"idle", "done", "gaveup"}

Me(e) == <<e, attempt[e]>>

(* The extracted entities are resolved in order: the subject, the object. *)
Resolving(e) == IF ids[e][Subject] = Nil THEN Subject ELSE object[e]

Belief == [old : Attempts, by : Attempts, auto : BOOLEAN]

GraphTypeOK ==
    /\ entity \subseteq EntityIds
    /\ nameIdx \in [Names -> EntityIds \cup {Nil}]
    /\ edge \in [Attempts -> {"none", "valid", "invalid"}]
    /\ src \in [Attempts -> EntityIds \cup {Nil}]
    /\ tgt \in [Attempts -> EntityIds \cup {Nil}]
    /\ indexed \subseteq Attempts
    /\ beliefs \subseteq Belief
    /\ pc \in [Episodes -> Pcs]
    /\ attempt \in [Episodes -> 1 .. MaxAttempts]
    /\ object \in [Episodes -> Objects]
    /\ ids \in [Episodes -> [Names -> EntityIds \cup {Nil}]]
    /\ cand \in [Episodes -> EntityIds \cup {Nil}]
    /\ todo \in [Episodes -> SUBSET Attempts]
    /\ last \in Attempts \cup {Nil} /\ overlap \in BOOLEAN
    /\ rewriting \subseteq Attempts
    /\ deleting \subseteq EntityIds
    /\ faults \in 0 .. MaxFaults
    /\ ignored \in 0 .. MaxIgnored
    /\ deletes \in 0 .. MaxDeletes
    /\ rewrites \in 0 .. MaxRewrites

InitGraph ==
    /\ entity = {}
    /\ nameIdx = [n \in Names |-> Nil]
    /\ edge = [a \in Attempts |-> "none"]
    /\ src = [a \in Attempts |-> Nil]
    /\ tgt = [a \in Attempts |-> Nil]
    /\ indexed = {}
    /\ beliefs = {}
    /\ pc = [e \in Episodes |-> "idle"]
    /\ attempt = [e \in Episodes |-> 1]
    /\ object \in {[e \in Episodes |-> o] : o \in Objects}
    /\ ids = [e \in Episodes |-> [n \in Names |-> Nil]]
    /\ cand = [e \in Episodes |-> Nil]
    /\ todo = [e \in Episodes |-> {}]
    /\ last = Nil /\ overlap = FALSE
    /\ rewriting = {}
    /\ deleting = {}
    /\ faults = 0 /\ ignored = 0 /\ deletes = 0 /\ rewrites = 0

(* The environment may still disturb the ingestion. *)
MayDisturb == faults + ignored + deletes + rewrites < MaxDisturbances

Goto(e, l) == pc' = [pc EXCEPT ![e] = l]

-----------------------------------------------------------------------------
(* process_episode, up to the extraction. *)
Extract(e) ==
    /\ pc[e] = "idle"
    /\ Cardinality({f \in Episodes : pc[f] \in Working}) < Concurrency
    /\ overlap' = (overlap \/ \E f \in Episodes : pc[f] \in Working)
    /\ \E o \in Objects : object' = [object EXCEPT ![e] = o]
    /\ Goto(e, "find")
    /\ UNCHANGED <<graph, attempt, ids, cand, todo, last, rewriting, deleting, budget>>

(* Mutant: the retries are counted one too late. *)
AbortLate(e) ==
    /\ IF attempt[e] <= MaxAttempts
         THEN Goto(e, "idle") /\ attempt' = [attempt EXCEPT ![e] = @ + 1]
         ELSE Goto(e, "gaveup") /\ UNCHANGED attempt
    /\ ids' = [ids EXCEPT ![e] = [n \in Names |-> Nil]]
    /\ cand' = [cand EXCEPT ![e] = Nil]
    /\ todo' = [todo EXCEPT ![e] = {}]

(* An error propagates out of process_episode; what the attempt has written *)
(* stays.  handle_failure brings the episode back or gives it up.           *)
Abort(e) ==
    /\ IF attempt[e] < MaxAttempts
         THEN Goto(e, "idle") /\ attempt' = [attempt EXCEPT ![e] = @ + 1]
         ELSE Goto(e, "gaveup") /\ UNCHANGED attempt
    /\ ids' = [ids EXCEPT ![e] = [n \in Names |-> Nil]]
    /\ cand' = [cand EXCEPT ![e] = Nil]
    /\ todo' = [todo EXCEPT ![e] = {}]

(* A call of the LLM, the embedder, Qdrant or Redis fails. *)
Fail(e) ==
    /\ pc[e] \in Working /\ faults < MaxFaults /\ MayDisturb
    /\ faults' = faults + 1
    /\ Abort(e)
    /\ UNCHANGED <<graph, object, history, rewriting, deleting, ignored, deletes, rewrites>>

-----------------------------------------------------------------------------
(* Entity resolution. *)

(* The name is resolved to id; then the next name, or the relationship. *)
Resolved(e, id) ==
    /\ ids' = [ids EXCEPT ![e][Resolving(e)] = id]
    /\ cand' = [cand EXCEPT ![e] = Nil]
    /\ Goto(e, IF Resolving(e) = Subject THEN "find" ELSE "conflicts")

FindHit(e) ==
    /\ pc[e] = "find" /\ nameIdx[Resolving(e)] \in entity
    /\ cand' = [cand EXCEPT ![e] = nameIdx[Resolving(e)]]
    /\ Goto(e, "mention")
    /\ UNCHANGED <<graph, attempt, object, ids, todo, history, rewriting, deleting, budget>>

FindMiss(e) ==
    /\ pc[e] = "find" /\ nameIdx[Resolving(e)] = Nil
    /\ Goto(e, "create")
    /\ UNCHANGED <<graph, attempt, object, ids, cand, todo, history, rewriting, deleting, budget>>

(* The name leads to an entity whose document is gone: get_entity fails. *)
FindDangling(e) ==
    /\ pc[e] = "find" /\ nameIdx[Resolving(e)] \in EntityIds \ entity
    /\ Abort(e)
    /\ UNCHANGED <<graph, object, history, rewriting, deleting, budget>>

(* The known entity is stored with one more mention, deleted or not. *)
Mention(e) ==
    /\ pc[e] = "mention"
    /\ entity' = entity \cup {cand[e]}
    /\ Resolved(e, cand[e])
    /\ UNCHANGED <<nameIdx, edge, src, tgt, indexed, beliefs, attempt, object, todo, history,
                   rewriting, deleting, budget>>

(* create_entity: the document, then the name index. *)
CreateEntity(e) ==
    /\ pc[e] = "create"
    /\ entity' = entity \cup {<<Me(e), Resolving(e)>>}
    /\ Goto(e, "name")
    /\ UNCHANGED <<nameIdx, edge, src, tgt, indexed, beliefs, attempt, object, ids, cand, todo,
                   history, rewriting, deleting, budget>>

(* Mutant: create_entity does not write the name index. *)
NameEntityForgotten(e) ==
    /\ pc[e] = "name"
    /\ Resolved(e, <<Me(e), Resolving(e)>>)
    /\ UNCHANGED <<graph, attempt, object, todo, history, rewriting, deleting, budget>>

NameEntity(e) ==
    /\ pc[e] = "name"
    /\ nameIdx' = [nameIdx EXCEPT ![Resolving(e)] = <<Me(e), Resolving(e)>>]
    /\ Resolved(e, <<Me(e), Resolving(e)>>)
    /\ UNCHANGED <<entity, edge, src, tgt, indexed, beliefs, attempt, object, todo, history,
                   rewriting, deleting, budget>>

-----------------------------------------------------------------------------
(* Facts.  The adjacency list of the subject is read twice. *)

Outgoing(e) == {a \in indexed : edge[a] = "valid" /\ src[a] = ids[e][Subject]}

(* find_conflicting_edges: same source, label and target. *)
FindConflicts(e) ==
    /\ pc[e] = "conflicts"
    /\ todo' = [todo EXCEPT ![e] = {a \in Outgoing(e) : tgt[a] = ids[e][object[e]]}]
    /\ Goto(e, "invalidate")
    /\ UNCHANGED <<graph, attempt, object, ids, cand, history, rewriting, deleting, budget>>

(* Mutant: the conflicting edge is stored without invalidate(). *)
InvalidateForgotten(e) ==
    /\ pc[e] = "invalidate"
    /\ \E a \in todo[e] :
          /\ edge' = [edge EXCEPT ![a] = "valid"]
          /\ todo' = [todo EXCEPT ![e] = @ \ {a}]
    /\ UNCHANGED <<entity, nameIdx, src, tgt, indexed, beliefs, pc, attempt, object, ids, cand,
                   history, rewriting, deleting, budget>>

Invalidate(e) ==
    /\ pc[e] = "invalidate"
    /\ \E a \in todo[e] :
          /\ edge' = [edge EXCEPT ![a] = "invalid"]
          /\ todo' = [todo EXCEPT ![e] = @ \ {a}]
    /\ UNCHANGED <<entity, nameIdx, src, tgt, indexed, beliefs, pc, attempt, object, ids, cand,
                   history, rewriting, deleting, budget>>

(* get_outgoing_edges: same source and label, another target. *)
FindBeliefs(e) ==
    /\ pc[e] = "invalidate" /\ todo[e] = {}
    /\ todo' = [todo EXCEPT ![e] = {a \in Outgoing(e) : tgt[a] # ids[e][object[e]]}]
    /\ Goto(e, "beliefs")
    /\ UNCHANGED <<graph, attempt, object, ids, cand, history, rewriting, deleting, budget>>

(* An error of get_outgoing_edges counts as "no other facts". *)
FindBeliefsError(e) ==
    /\ pc[e] = "invalidate" /\ todo[e] = {} /\ ignored < MaxIgnored /\ MayDisturb
    /\ ignored' = ignored + 1
    /\ Goto(e, "beliefs")
    /\ UNCHANGED <<graph, attempt, object, ids, cand, todo, history, rewriting, deleting,
                   faults, deletes, rewrites>>

(* The old fact is superseded when its object has another name.  A missing *)
(* entity has the empty name.                                              *)
AutoSupersede(e, a) == tgt[a] \notin entity \/ NameOf(tgt[a]) # object[e]

Record(e, a, auto) == beliefs' = beliefs \cup {[old |-> a, by |-> Me(e), auto |-> auto]}

(* Mutant: superseded facts are only recorded, not invalidated. *)
SupersedeForgotten(e) ==
    /\ pc[e] = "beliefs"
    /\ \E a \in todo[e] :
          /\ Record(e, a, AutoSupersede(e, a))
          /\ todo' = [todo EXCEPT ![e] = @ \ {a}]
    /\ UNCHANGED <<entity, nameIdx, edge, src, tgt, indexed, pc, attempt, object, ids, cand, history,
                   rewriting, deleting, budget>>

Supersede(e) ==
    /\ pc[e] = "beliefs"
    /\ \E a \in todo[e] :
          /\ edge' = [edge EXCEPT ![a] = IF AutoSupersede(e, a) THEN "invalid" ELSE @]
          /\ Record(e, a, AutoSupersede(e, a))
          /\ todo' = [todo EXCEPT ![e] = @ \ {a}]
    /\ UNCHANGED <<entity, nameIdx, src, tgt, indexed, pc, attempt, object, ids, cand, history,
                   rewriting, deleting, budget>>

(* update_edge fails, which is ignored, and the belief change is recorded. *)
SupersedeError(e) ==
    /\ pc[e] = "beliefs" /\ ignored < MaxIgnored /\ MayDisturb
    /\ ignored' = ignored + 1
    /\ \E a \in todo[e] :
          /\ Record(e, a, AutoSupersede(e, a))
          /\ todo' = [todo EXCEPT ![e] = @ \ {a}]
    /\ UNCHANGED <<entity, nameIdx, edge, src, tgt, indexed, pc, attempt, object, ids, cand, history,
                   rewriting, deleting, faults, deletes, rewrites>>

(* record_belief_change fails, which is ignored as well. *)
RecordError(e) ==
    /\ pc[e] = "beliefs" /\ ignored < MaxIgnored /\ MayDisturb
    /\ ignored' = ignored + 1
    /\ \E a \in todo[e] :
          /\ edge' = [edge EXCEPT ![a] = IF AutoSupersede(e, a) THEN "invalid" ELSE @]
          /\ todo' = [todo EXCEPT ![e] = @ \ {a}]
    /\ UNCHANGED <<entity, nameIdx, src, tgt, indexed, beliefs, pc, attempt, object, ids, cand,
                   history, rewriting, deleting, faults, deletes, rewrites>>

(* Mutant: source and target are swapped. *)
CreateEdgeReversed(e) ==
    /\ pc[e] = "beliefs" /\ todo[e] = {}
    /\ edge' = [edge EXCEPT ![Me(e)] = "valid"]
    /\ src' = [src EXCEPT ![Me(e)] = ids[e][object[e]]]
    /\ tgt' = [tgt EXCEPT ![Me(e)] = ids[e][Subject]]
    /\ Goto(e, "index")
    /\ UNCHANGED <<entity, nameIdx, indexed, beliefs, attempt, object, ids, cand, todo, history,
                   rewriting, deleting, budget>>

(* create_edge: the document, then the adjacency list. *)
CreateEdge(e) ==
    /\ pc[e] = "beliefs" /\ todo[e] = {}
    /\ edge' = [edge EXCEPT ![Me(e)] = "valid"]
    /\ src' = [src EXCEPT ![Me(e)] = ids[e][Subject]]
    /\ tgt' = [tgt EXCEPT ![Me(e)] = ids[e][object[e]]]
    /\ Goto(e, "index")
    /\ UNCHANGED <<entity, nameIdx, indexed, beliefs, attempt, object, ids, cand, todo, history,
                   rewriting, deleting, budget>>

IndexEdge(e) ==
    /\ pc[e] = "index"
    /\ indexed' = indexed \cup {Me(e)}
    /\ Goto(e, "embed")
    /\ UNCHANGED <<entity, nameIdx, edge, src, tgt, beliefs, attempt, object, ids, cand, todo,
                   history, rewriting, deleting, budget>>

(* The embeddings are stored and the episode is marked completed. *)
Complete(e) ==
    /\ pc[e] = "embed"
    /\ last' = Me(e)
    /\ ids' = [ids EXCEPT ![e] = [n \in Names |-> Nil]]
    /\ Goto(e, "done")
    /\ UNCHANGED <<graph, attempt, object, cand, todo, overlap, rewriting, deleting, budget>>

-----------------------------------------------------------------------------
(* record_edge_access and revalidate_fact read an edge and store it again;  *)
(* the facts they are called for were valid when they were retrieved.       *)
RewriteRead(a) ==
    /\ edge[a] = "valid" /\ a \notin rewriting /\ rewrites < MaxRewrites /\ MayDisturb
    /\ rewrites' = rewrites + 1
    /\ rewriting' = rewriting \cup {a}
    /\ UNCHANGED <<graph, locals, history, deleting, faults, ignored, deletes>>

RewriteStore(a) ==
    /\ a \in rewriting
    /\ rewriting' = rewriting \ {a}
    /\ edge' = [edge EXCEPT ![a] = "valid"]
    /\ UNCHANGED <<entity, nameIdx, src, tgt, indexed, beliefs, locals, history, deleting, budget>>

(* delete_entity: the document, then the name, whoever has it by now. *)
DeleteDoc(id) ==
    /\ id \in entity /\ id \notin deleting /\ deletes < MaxDeletes /\ MayDisturb
    /\ deletes' = deletes + 1
    /\ entity' = entity \ {id}
    /\ deleting' = deleting \cup {id}
    /\ UNCHANGED <<nameIdx, edge, src, tgt, indexed, beliefs, locals, history, rewriting,
                   faults, ignored, rewrites>>

DeleteName(id) ==
    /\ id \in deleting
    /\ deleting' = deleting \ {id}
    /\ nameIdx' = [nameIdx EXCEPT ![NameOf(id)] = Nil]
    /\ UNCHANGED <<entity, edge, src, tgt, indexed, beliefs, locals, history, rewriting, budget>>

-----------------------------------------------------------------------------
Step(e) ==
    \/ Extract(e)
    \/ FindHit(e) \/ FindMiss(e) \/ FindDangling(e)
    \/ Mention(e) \/ CreateEntity(e) \/ NameEntity(e)
    \/ FindConflicts(e) \/ Invalidate(e)
    \/ FindBeliefs(e) \/ Supersede(e)
    \/ CreateEdge(e) \/ IndexEdge(e) \/ Complete(e)

Fault(e) == Fail(e) \/ FindBeliefsError(e) \/ SupersedeError(e) \/ RecordError(e)

NextGraph ==
    \/ \E e \in Episodes : Step(e) \/ Fault(e)
    \/ \E a \in Attempts : RewriteRead(a) \/ RewriteStore(a)
    \/ \E id \in EntityIds : DeleteDoc(id) \/ DeleteName(id)

GraphSpec == InitGraph /\ [][NextGraph]_graphVars

-----------------------------------------------------------------------------
(* Properties. *)

(* While no entity is deleted, every fact points to stored entities with   *)
(* the names it was stated with, and a name leads to an entity so named.   *)
FactsAreGrounded ==
    deletes = 0 =>
        /\ \A a \in Attempts : edge[a] # "none" =>
              /\ {src[a], tgt[a]} \subseteq entity
              /\ NameOf(src[a]) = Subject /\ NameOf(tgt[a]) \in Objects
        /\ \A n \in Names : nameIdx[n] # Nil =>
              nameIdx[n] \in entity /\ NameOf(nameIdx[n]) = n

(* History is kept: a superseded fact never becomes current again, as long  *)
(* as nothing but ingestion writes edges.                                   *)
SupersededStays == \A a \in Attempts : edge[a] = "invalid" => edge'[a] = "invalid"

SupersededIsFinal == [][rewrites' = 0 => SupersededStays]_graphVars

(* A belief change that says "auto_superseded" tells the truth: the old     *)
(* fact is invalid, unless a Redis error was ignored or the edge rewritten. *)
BeliefsAreTrue ==
    ignored = 0 /\ rewrites = 0 =>
        \A b \in beliefs : b.auto => edge[b.old] = "invalid"

Settled == \A e \in Episodes : pc[e] = "done" \/ (pc[e] = "idle" /\ attempt[e] = 1)

Current == {a \in indexed : edge[a] = "valid"}

(* "Most recent wins": when no attempt is under way and none was given up,  *)
(* the one current fact is that of the episode completed last, unless two   *)
(* episodes were processed at once, a Redis error was ignored, an entity    *)
(* deleted or an edge rewritten.                                            *)
LatestFactIsCurrent ==
    Settled /\ ~overlap /\ ignored = 0 /\ deletes = 0 /\ rewrites = 0 =>
        Current = IF last = Nil THEN {} ELSE {last}

(* Entities are deduplicated: when no attempt is under way and none failed, *)
(* there is one entity for a name, unless two episodes were processed at    *)
(* once or an entity deleted.                                               *)
OneEntityPerName ==
    Settled /\ ~overlap /\ faults = 0 /\ deletes = 0 =>
        \A i, j \in entity : NameOf(i) = NameOf(j) => i = j

(* Between the episodes the graph says what was told last, once.            *)
QuietGraphIsTrue == LatestFactIsCurrent /\ OneEntityPerName

=============================================================================
