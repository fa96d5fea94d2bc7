--------------------------- MODULE GraphTraversal ---------------------------
(***************************************************************************)
(* The three traversals of mnemo-graph over the entities and edges of a    *)
(* store that goes on changing: breadth-first neighbourhood, shortest path *)
(* and label propagation, on behalf of one user.  An entity is read when   *)
(* it is taken from the queue; reading it and its edges is one step.       *)
(* Edges are the valid ones; the order in which the store lists them is    *)
(* left open.                                                              *)
(***************************************************************************)
EXTENDS Naturals, FiniteSets, Sequences
LOCAL INSTANCE SequencesExt

CONSTANTS MaxEntities,    \* entities 1 .. MaxEntities; a traversal starts at 1
          Depths,         \* max_depth of the calls
          Limits,         \* max_nodes of the calls
          MaxRounds,      \* max_iterations of the label propagation
          MaxGraphChanges \* bound: changes of the graph during a traversal

ASSUME TraversalAssumption ==
    /\ MaxEntities \in Nat \ {0, 1} /\ MaxRounds \in Nat \ {0} /\ MaxGraphChanges \in Nat
    /\ Depths \subseteq 0 .. MaxEntities - 1 /\ Limits \subseteq Nat

VARIABLES owner,  \* owner[e]: entity e is the user's own, another's, or absent
          links,  \* the edges, <<source, target>>
          walk    \* the traversal

walkVars == <<owner, links, walk>>

Entities == 1 .. MaxEntities
Pairs2   == {p \in Entities \X Entities : p[1] < p[2]}
Unseen   == [parent |-> 0, depth |-> 0, seen |-> FALSE]
Seed     == [parent |-> 0, depth |-> 0, seen |-> TRUE]

\* A call of traverse_bfs_for_user, find_shortest_path_for_user or
\* detect_communities.  For the latter, seen keeps the labels as parents,
\* maxNodes the rounds left and nodes an entity whose label changed.
Walk(kind, to, depth, nodes) ==
    [kind |-> kind, to |-> to, maxDepth |-> depth, maxNodes |-> nodes,
     queue |-> IF kind = "labels" THEN <<>> ELSE <<1>>,
     seen |-> [e \in Entities |-> IF e = 1 THEN Seed ELSE Unseen],
     nodes |-> <<>>, edges |-> {}, status |-> IF kind = "labels" THEN "load" ELSE "running",
     changes |-> 0]

\* With every graph over the entities one target other than the source
\* stands for all.
Calls == {Walk("bfs", 1, d, n) : d \in Depths, n \in Limits}
           \cup {Walk("path", e, d, 0) : e \in {1, MaxEntities}, d \in Depths}
           \cup {Walk("labels", 1, 0, MaxRounds - 1)}

\* The handlers look up the ends of a walk; of the rest one may be amiss.
InitWalk ==
    /\ walk \in Calls
    /\ links \in SUBSET Pairs2
    /\ \E odd \in Entities, o \in {"own", "other", "absent"} :
         /\ odd \notin {1, walk.to} \/ o = "own"
         /\ owner = [e \in Entities |-> IF e = odd THEN o ELSE "own"]

outgoing(e) == {f \in Entities : <<e, f>> \in links}
incoming(e) == {f \in Entities : <<f, e>> \in links}

\* Neighbours that were not visited are queued, outgoing edges first.
Queued(e, out, in) ==
    LET depth == walk.seen[e].depth + 1 IN
    [walk EXCEPT !.queue = Tail(@) \o out \o in,
       !.seen = [f \in Entities |->
          IF f \in Range(out) \cup Range(in)
          THEN [parent |-> e, depth |-> depth, seen |-> TRUE] ELSE walk.seen[f]]]

New(set) == {f \in set : ~walk.seen[f].seen}

\* Mutant: one hop too many.
ExpandsFar(e) == walk.seen[e].depth <= walk.maxDepth

Expands(e) == walk.seen[e].depth < walk.maxDepth

\* traverse_bfs_for_user
Visit ==
    /\ walk.kind = "bfs" /\ walk.status = "running"
    /\ walk.queue # <<>> /\ Len(walk.nodes) < walk.maxNodes
    /\ LET e == Head(walk.queue)  node == <<e, walk.seen[e].depth>> IN
       IF owner[e] # "own" THEN walk' = [walk EXCEPT !.queue = Tail(@)]
       ELSE IF ~Expands(e) THEN walk' = [walk EXCEPT !.queue = Tail(@), !.nodes = Append(@, node)]
       ELSE \E out \in SetToSeqs(New(outgoing(e))), in \in SetToSeqs(New(incoming(e)) \ outgoing(e)) :
              walk' = [Queued(e, out, in) EXCEPT !.nodes = Append(@, node)]
    /\ UNCHANGED <<owner, links>>

BfsEnds ==
    /\ walk.kind = "bfs" /\ walk.status = "running"
    /\ walk.queue = <<>> \/ Len(walk.nodes) >= walk.maxNodes
    /\ walk' = [walk EXCEPT !.status = "done"]
    /\ UNCHANGED <<owner, links>>

\* find_shortest_path_for_user: an absent entity is passed through, and the
\* search ends when an edge reaches the target.
Search ==
    /\ walk.kind = "path" /\ walk.status = "running" /\ walk.to # 1
    /\ walk.queue # <<>> /\ ~walk.seen[walk.to].seen
    /\ LET e == Head(walk.queue) IN
       IF owner[e] = "other" \/ ~Expands(e) THEN walk' = [walk EXCEPT !.queue = Tail(@)]
       ELSE \E out \in SetToSeqs(New(outgoing(e))), in \in SetToSeqs(New(incoming(e)) \ outgoing(e)) :
              walk' = Queued(e, out, in)
    /\ UNCHANGED <<owner, links>>

\* From the source along the parents to the target.
TrailFrom(seen) ==
    LET trail[n \in 0 .. MaxEntities, e \in Entities] ==
          IF n = 0 \/ e = 1 THEN <<e>> ELSE Append(trail[n - 1, seen[e].parent], e)
    IN trail[MaxEntities, walk.to]

\* The steps whose entity can still be read, with their place on the way.
PathEnds ==
    /\ walk.kind = "path" /\ walk.status = "running"
    /\ walk.queue = <<>> \/ walk.seen[walk.to].seen
    /\ LET trail == TrailFrom(walk.seen)
           steps == SelectSeq([i \in DOMAIN trail |-> <<trail[i], i - 1>>], LAMBDA s : owner[s[1]] = "own") IN
       walk' = IF walk.seen[walk.to].seen THEN [walk EXCEPT !.status = "found", !.nodes = steps]
               ELSE [walk EXCEPT !.status = "done"]
    /\ UNCHANGED <<owner, links>>

\* detect_communities lists the user's entities, each its own community, and
\* then the edges; the rest works on what it read.
LoadEntities ==
    /\ walk.status = "load"
    /\ LET own == {e \in Entities : owner[e] = "own"} IN
       walk' = [walk EXCEPT !.status = "edges", !.queue = SetToSortSeq(own, <),
                  !.seen = [e \in Entities |-> [parent |-> e, depth |-> 0, seen |-> e \in own]]]
    /\ UNCHANGED <<owner, links>>

LoadEdges ==
    /\ walk.status = "edges"
    /\ walk' = [walk EXCEPT !.status = "running", !.edges = links]
    /\ UNCHANGED <<owner, links>>

Adjacent(e) == {f \in Entities : <<e, f>> \in walk.edges \/ <<f, e>> \in walk.edges}
Votes(e, l) == Cardinality({f \in Adjacent(e) : walk.seen[f].seen /\ walk.seen[f].parent = l})

\* An entity takes a most frequent label of its neighbours, any of several.
Propagate ==
    /\ walk.kind = "labels" /\ walk.status = "running" /\ walk.queue # <<>>
    /\ LET e == Head(walk.queue)  old == walk.seen[e].parent
           best == {l \in Entities : Votes(e, l) > 0 /\ \A k \in Entities : Votes(e, k) <= Votes(e, l)} IN
       \E l \in IF best = {} THEN {old} ELSE best :
         walk' = [walk EXCEPT !.queue = Tail(@), !.seen[e].parent = l,
                    !.nodes = IF l = old THEN @ ELSE <<e>>]
    /\ UNCHANGED <<owner, links>>

\* Another round, if one is left and the last one changed a label.
Round ==
    /\ walk.kind = "labels" /\ walk.status = "running" /\ walk.queue = <<>>
    /\ walk' = IF walk.nodes = <<>> \/ walk.maxNodes = 0 THEN [walk EXCEPT !.status = "done"]
               ELSE [walk EXCEPT !.nodes = <<>>, !.maxNodes = @ - 1,
                       !.queue = SetToSortSeq({e \in Entities : walk.seen[e].seen}, <)]
    /\ UNCHANGED <<owner, links>>

\* Meanwhile an entity is deleted, or an edge is stored or invalidated.
GraphChanges ==
    /\ walk.status \in {"load", "edges", "running"} /\ walk.changes < MaxGraphChanges
    /\ \/ /\ \E e \in Entities : owner[e] = "own" /\ owner' = [owner EXCEPT ![e] = "absent"]
          /\ UNCHANGED links
       \/ /\ \E p \in Pairs2 : links' = IF p \in links THEN links \ {p} ELSE links \cup {p}
          /\ UNCHANGED owner
    /\ walk' = [walk EXCEPT !.changes = @ + 1]

WalkNext ==
    \/ Visit \/ BfsEnds \/ Search \/ PathEnds
    \/ LoadEntities \/ LoadEdges \/ Propagate \/ Round
    \/ GraphChanges

-----------------------------------------------------------------------------
(* Properties                                                              *)

WalkTypeOK ==
    /\ owner \in [Entities -> {"own", "other", "absent"}]
    /\ links \subseteq Pairs2
    /\ walk.status \in {"load", "edges", "running", "found", "done"}

\* What lies within d hops, where the entities of passes are gone through.
Within(passes) ==
    LET ball[d \in 0 .. MaxEntities] ==
          IF d = 0 THEN {1}
          ELSE LET near == ball[d - 1] IN
               near \cup UNION {outgoing(e) \cup incoming(e) : e \in near \cap passes}
    IN ball

Owned(states) == {e \in Entities : owner[e] \in states}

\* The neighbourhood: the closest entities, as many as were asked for, each
\* once and with its distance.
NeighbourhoodIsExact ==
    walk.kind = "bfs" /\ walk.status = "done" =>
      LET ball == Within(Owned({"own"}))
          near == ball[walk.maxDepth] \cap Owned({"own"})
          listed == {walk.nodes[i][1] : i \in DOMAIN walk.nodes} IN
      /\ Cardinality(listed) = Len(walk.nodes)
      /\ listed \subseteq near
      /\ Len(walk.nodes) < walk.maxNodes => listed = near
      /\ \A i \in DOMAIN walk.nodes :
           LET e == walk.nodes[i][1]  d == walk.nodes[i][2] IN
           /\ e \in ball[d] /\ (d > 0 => e \notin ball[d - 1])
           /\ \A f \in near \ listed : d > 0 => f \notin ball[d - 1]

\* The path: found if there is one within the hops allowed, and no longer than
\* any other; all of it can be read unless it leads through an absent entity.
PathIsShortest ==
    walk.kind = "path" =>
      LET ball == Within(Owned({"own", "absent"})) IN
      /\ walk.status = "done" => walk.to \notin ball[walk.maxDepth]
      /\ walk.status = "found" =>
           LET last == Last(walk.nodes)[2] IN
           /\ last <= walk.maxDepth /\ Last(walk.nodes)[1] = walk.to
           /\ last > 0 => walk.to \notin ball[last - 1]
           /\ Owned({"absent"}) = {} =>
                /\ Len(walk.nodes) = last + 1
                /\ \A i \in 1 .. last : walk.nodes[i][1] \in
                     outgoing(walk.nodes[i + 1][1]) \cup incoming(walk.nodes[i + 1][1])

\* Entities get one community only if edges between entities of the user join
\* them.
CommunitiesAreConnected ==
    walk.kind = "labels" /\ walk.status \in {"running", "done"} =>
      LET known == {e \in Entities : walk.seen[e].seen}
          joined[n \in 0 .. MaxEntities, e \in known] ==
            IF n = 0 THEN {e}
            ELSE LET near == joined[n - 1, e] IN
                 near \cup {f \in known : Adjacent(f) \cap near # {}}
      IN \A e \in known : walk.seen[e].parent \in joined[MaxEntities, e]

\* On a graph that stays as it is the traversals give what they promise; on
\* one that changes, no entity is listed twice or beyond the depth.
TraversalsAreExact ==
    /\ walk.changes = 0 => NeighbourhoodIsExact /\ PathIsShortest
    /\ CommunitiesAreConnected
    /\ walk.kind # "labels" => \A i, j \in DOMAIN walk.nodes :
         /\ walk.nodes[i][2] <= walk.maxDepth
         /\ i < j => walk.nodes[i][1] # walk.nodes[j][1] /\ walk.nodes[i][2] <= walk.nodes[j][2]
=============================================================================
