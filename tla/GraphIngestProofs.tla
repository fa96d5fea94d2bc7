------------------------- MODULE GraphIngestProofs --------------------------
(***************************************************************************)
(* Proofs about the facts of the knowledge graph.  As ingestion writes     *)
(* them, for any number of episodes, objects, attempts and disturbances:   *)
(* facts stay grounded in entities, superseded facts stay superseded,      *)
(* belief changes tell the truth, and between the episodes the graph says  *)
(* what was told last.  As they are told over time, for any number of      *)
(* facts, any retention and any length of the behaviour: clients that      *)
(* follow the changes know the valid facts, timelines replay to the        *)
(* snapshots, and two facts compete only in the past.                      *)
(***************************************************************************)
EXTENDS GraphIngest, FactTimeline, TLAPS

Relating == {"conflicts", "invalidate", "beliefs", "index", "embed"}
NoIds    == [n \in Names |-> Nil]

(* What an attempt knows at each place. *)
LocalsFit ==
    \A e \in Episodes :
        /\ pc[e] = "mention" => cand[e] \in EntityIds
        /\ pc[e] \notin Working => ids[e] = NoIds
        /\ pc[e] \in Relating => ids[e][Subject] # Nil /\ ids[e][object[e]] # Nil

(* Only edges that were stored are listed, rewritten or superseded. *)
EdgesAreStored ==
    /\ \A a \in indexed \cup rewriting : edge[a] # "none"
    /\ \A e \in Episodes : \A a \in todo[e] : edge[a] # "none"
    /\ \A e \in Episodes : pc[e] = "index" => edge[Me(e)] # "none"

(* An attempt stores its edge once: none is there before it does. *)
AttemptsAreFresh ==
    \A e \in Episodes :
        /\ \A k \in 1 .. MaxAttempts : k > attempt[e] => edge[<<e, k>>] = "none"
        /\ pc[e] \notin {"index", "embed", "done", "gaveup"} => edge[Me(e)] = "none"

(* Nothing is being deleted or rewritten before the first request to. *)
NothingPending ==
    /\ deletes = 0 => deleting = {}
    /\ rewrites = 0 => rewriting = {}

BaseInv == GraphTypeOK /\ LocalsFit /\ EdgesAreStored /\ AttemptsAreFresh /\ NothingPending

(* While no entity is deleted, what an attempt has resolved is grounded too. *)
IdsAreGrounded ==
    deletes = 0 => \A e \in Episodes :
        /\ \A n \in Names : ids[e][n] # Nil => ids[e][n] \in entity /\ NameOf(ids[e][n]) = n
        /\ pc[e] = "mention" => cand[e] \in entity /\ NameOf(cand[e]) = Resolving(e)
        /\ pc[e] = "name" => <<Me(e), Resolving(e)>> \in entity

GroundInv == FactsAreGrounded /\ IdsAreGrounded

(* One episode after the other: no two are in work. *)
OneAtATime ==
    ~overlap => \A e, f \in Episodes : pc[e] \in Working /\ pc[f] \in Working => e = f

(* Then a name that leads to an entity leads to it for ever, so everything *)
(* that was resolved is what its name leads to now.                        *)
NamesAreStable ==
    ~overlap /\ deletes = 0 =>
        /\ \A a \in Attempts : edge[a] # "none" =>
              src[a] = nameIdx[Subject] /\ tgt[a] = nameIdx[NameOf(tgt[a])]
        /\ \A e \in Episodes :
              /\ \A n \in Names : ids[e][n] # Nil => ids[e][n] = nameIdx[n]
              /\ pc[e] = "mention" => cand[e] = nameIdx[Resolving(e)]
              /\ pc[e] \in {"create", "name"} => nameIdx[Resolving(e)] = Nil

(* How far the attempt in work has come with the facts that were current. *)
SupersedingGoesOn ==
    ~overlap /\ ignored = 0 /\ deletes = 0 /\ rewrites = 0 => \A e \in Episodes :
        /\ pc[e] = "invalidate" => \A a \in Current : tgt[a] = ids[e][object[e]] => a \in todo[e]
        /\ pc[e] = "beliefs" => /\ Current \subseteq todo[e]
                                /\ \A a \in todo[e] : tgt[a] # ids[e][object[e]]
        /\ pc[e] = "index" => Current = {} /\ edge[Me(e)] = "valid"
        /\ pc[e] = "embed" => Current = {Me(e)}

(* Every entity has its name, but for the one that is being named. *)
EntitiesAreNamed ==
    ~overlap /\ faults = 0 /\ deletes = 0 => \A i \in entity :
        \/ nameIdx[NameOf(i)] = i
        \/ \E e \in Episodes : pc[e] = "name" /\ i = <<Me(e), Resolving(e)>>

QuietInv ==
    OneAtATime /\ NamesAreStable /\ SupersedingGoesOn /\ EntitiesAreNamed /\ LatestFactIsCurrent

-----------------------------------------------------------------------------
(* What an attempt makes up: its edge, and an entity for each name.         *)
LEMMA IdFacts ==
    /\ Subject \in Names /\ Objects \subseteq Names
    /\ \A a \in Attempts, n \in Names : <<a, n>> \in EntityIds /\ NameOf(<<a, n>>) = n
    /\ \A id \in EntityIds : NameOf(id) \in Names
    /\ Nil \notin EntityIds /\ Nil \notin Attempts
  BY NilAssumption DEF Names, EntityIds, NameOf

LEMMA AttemptFacts ==
    ASSUME GraphTypeOK, NEW e \in Episodes
    PROVE  /\ Me(e) \in Attempts /\ Resolving(e) \in Names /\ object[e] \in Names
           /\ <<Me(e), Resolving(e)>> \in EntityIds
           /\ NameOf(<<Me(e), Resolving(e)>>) = Resolving(e)
<1>1. Me(e) \in Attempts
  BY DEF GraphTypeOK, Me, Attempts
<1>2. Resolving(e) \in Names /\ object[e] \in Names
  BY IdFacts DEF GraphTypeOK, Resolving
<1> QED
  BY <1>1, <1>2, IdFacts

(* Abort keeps the types of what it changes. *)
LEMMA TypeAbort ==
    ASSUME GraphTypeOK, NEW e \in Episodes, Abort(e)
    PROVE  /\ pc' \in [Episodes -> Pcs] /\ attempt' \in [Episodes -> 1 .. MaxAttempts]
           /\ ids' \in [Episodes -> [Names -> EntityIds \cup {Nil}]]
           /\ cand' \in [Episodes -> EntityIds \cup {Nil}]
           /\ todo' \in [Episodes -> SUBSET Attempts]
<1>1. pc' \in [Episodes -> Pcs]
  BY DEF GraphTypeOK, Abort, Goto, Pcs
<1>2. attempt' \in [Episodes -> 1 .. MaxAttempts]
  <2>1. attempt[e] \in 1 .. MaxAttempts /\ MaxAttempts \in Nat
    BY GraphBoundsAssumption DEF GraphTypeOK
  <2>2. CASE attempt[e] < MaxAttempts
    <3>1. attempt' = [attempt EXCEPT ![e] = @ + 1]
      BY <2>2 DEF Abort
    <3>2. attempt[e] + 1 \in 1 .. MaxAttempts
      BY <2>1, <2>2
    <3> QED
      BY <3>1, <3>2 DEF GraphTypeOK
  <2>3. CASE ~(attempt[e] < MaxAttempts)
    BY <2>3 DEF GraphTypeOK, Abort
  <2> QED
    BY <2>2, <2>3
<1> QED
  BY <1>1, <1>2 DEF GraphTypeOK, Abort

(* So does recording a belief change. *)
LEMMA TypeRecord ==
    ASSUME GraphTypeOK, NEW e \in Episodes, NEW a \in Attempts, Record(e, a, AutoSupersede(e, a))
    PROVE  beliefs' \subseteq Belief
<1>1. AutoSupersede(e, a) \in BOOLEAN
  BY DEF AutoSupersede
<1>2. [old |-> a, by |-> Me(e), auto |-> AutoSupersede(e, a)] \in Belief
  <2> HIDE DEF AutoSupersede
  <2> QED
    BY <1>1, AttemptFacts DEF Belief
<1> QED
  BY <1>2 DEF GraphTypeOK, Record

LEMMA TypeStep ==
    ASSUME GraphTypeOK, LocalsFit, NEW e \in Episodes, Step(e)
    PROVE  GraphTypeOK'
<1> USE DEF graph, locals, history, budget
<1>0. /\ Me(e) \in Attempts /\ Resolving(e) \in Names /\ object[e] \in Names
      /\ <<Me(e), Resolving(e)>> \in EntityIds /\ Subject \in Names
  BY AttemptFacts, IdFacts
<1>1. CASE Extract(e)
  BY <1>1 DEF Extract, Goto, Pcs, Working, GraphTypeOK
<1>2. CASE FindHit(e)
  BY <1>0, <1>2 DEF FindHit, Goto, Pcs, Working, GraphTypeOK
<1>3. CASE FindMiss(e)
  BY <1>3 DEF FindMiss, Goto, Pcs, Working, GraphTypeOK
<1>4. CASE FindDangling(e)
  BY <1>4, TypeAbort DEF FindDangling, GraphTypeOK
<1>5. CASE Mention(e)
  BY <1>0, <1>5 DEF Mention, Resolved, Goto, Pcs, Working, LocalsFit, GraphTypeOK
<1>6. CASE CreateEntity(e)
  BY <1>0, <1>6 DEF CreateEntity, Goto, Pcs, Working, GraphTypeOK
<1>7. CASE NameEntity(e)
  BY <1>0, <1>7 DEF NameEntity, Resolved, Goto, Pcs, Working, GraphTypeOK
<1>8. CASE FindConflicts(e)
  BY <1>8 DEF FindConflicts, Outgoing, Goto, Pcs, Working, GraphTypeOK
<1>9. CASE Invalidate(e)
  BY <1>9 DEF Invalidate, GraphTypeOK
<1>10. CASE FindBeliefs(e)
  BY <1>10 DEF FindBeliefs, Outgoing, Goto, Pcs, Working, GraphTypeOK
<1>11. CASE Supersede(e)
  <2>1. PICK a \in todo[e] : /\ edge' = [edge EXCEPT ![a] = IF AutoSupersede(e, a) THEN "invalid" ELSE @]
                             /\ Record(e, a, AutoSupersede(e, a))
                             /\ todo' = [todo EXCEPT ![e] = @ \ {a}]
    BY <1>11 DEF Supersede
  <2>2. a \in Attempts
    BY DEF GraphTypeOK
  <2>3. beliefs' \subseteq Belief
    BY <2>1, <2>2, TypeRecord
  <2>4. edge' \in [Attempts -> {"none", "valid", "invalid"}]
    BY <2>1, <2>2 DEF GraphTypeOK
  <2> QED
    BY <1>11, <2>1, <2>3, <2>4 DEF Supersede, GraphTypeOK
<1>12. CASE CreateEdge(e)
  BY <1>0, <1>12 DEF CreateEdge, Goto, Pcs, Working, GraphTypeOK
<1>13. CASE IndexEdge(e)
  BY <1>0, <1>13 DEF IndexEdge, Goto, Pcs, Working, GraphTypeOK
<1>14. CASE Complete(e)
  BY <1>0, <1>14 DEF Complete, Goto, Pcs, Working, GraphTypeOK
<1> QED
  BY <1>1, <1>2, <1>3, <1>4, <1>5, <1>6, <1>7, <1>8, <1>9, <1>10, <1>11, <1>12, <1>13,
     <1>14 DEF Step

LEMMA TypeFault ==
    ASSUME GraphTypeOK, NEW e \in Episodes, Fault(e)
    PROVE  GraphTypeOK'
<1> USE GraphBoundsAssumption DEF graph, locals, history, budget
<1>1. CASE Fail(e)
  BY <1>1, TypeAbort DEF Fail, GraphTypeOK
<1>2. CASE FindBeliefsError(e)
  BY <1>2 DEF FindBeliefsError, Goto, Pcs, Working, GraphTypeOK
<1>3. CASE SupersedeError(e)
  <2>1. PICK a \in todo[e] : /\ Record(e, a, AutoSupersede(e, a))
                             /\ todo' = [todo EXCEPT ![e] = @ \ {a}]
    BY <1>3 DEF SupersedeError
  <2>2. a \in Attempts
    BY DEF GraphTypeOK
  <2>3. beliefs' \subseteq Belief
    BY <2>1, <2>2, TypeRecord
  <2> QED
    BY <1>3, <2>1, <2>3 DEF SupersedeError, GraphTypeOK
<1>4. CASE RecordError(e)
  <2>1. PICK a \in todo[e] : /\ edge' = [edge EXCEPT ![a] = IF AutoSupersede(e, a) THEN "invalid" ELSE @]
                             /\ todo' = [todo EXCEPT ![e] = @ \ {a}]
    BY <1>4 DEF RecordError
  <2>2. edge' \in [Attempts -> {"none", "valid", "invalid"}]
    BY <2>1 DEF GraphTypeOK
  <2> QED
    BY <1>4, <2>1, <2>2 DEF RecordError, GraphTypeOK
<1> QED
  BY <1>1, <1>2, <1>3, <1>4 DEF Fault

LEMMA TypeRequest ==
    ASSUME GraphTypeOK,
           \/ \E a \in Attempts : RewriteRead(a) \/ RewriteStore(a)
           \/ \E id \in EntityIds : DeleteDoc(id) \/ DeleteName(id)
    PROVE  GraphTypeOK'
<1> USE GraphBoundsAssumption DEF graph, locals, history, budget
<1>1. ASSUME NEW a \in Attempts, RewriteRead(a)
      PROVE  GraphTypeOK'
  BY <1>1 DEF RewriteRead, GraphTypeOK
<1>2. ASSUME NEW a \in Attempts, RewriteStore(a)
      PROVE  GraphTypeOK'
  BY <1>2 DEF RewriteStore, GraphTypeOK
<1>3. ASSUME NEW id \in EntityIds, DeleteDoc(id)
      PROVE  GraphTypeOK'
  BY <1>3 DEF DeleteDoc, GraphTypeOK
<1>4. ASSUME NEW id \in EntityIds, DeleteName(id)
      PROVE  GraphTypeOK'
  BY <1>4, IdFacts DEF DeleteName, GraphTypeOK
<1> QED
  BY <1>1, <1>2, <1>3, <1>4

(* The places of the attempts and what they know fit together. *)
LEMMA LocalsStep ==
    ASSUME BaseInv, NEW e \in Episodes, Step(e)
    PROVE  LocalsFit'
<1> USE DEF graph, locals, history, budget, BaseInv
<1>0. /\ Me(e) \in Attempts /\ Resolving(e) \in Names /\ object[e] \in Names
      /\ <<Me(e), Resolving(e)>> \in EntityIds /\ Subject \in Names /\ Nil \notin EntityIds
      /\ entity \subseteq EntityIds
  BY AttemptFacts, IdFacts DEF GraphTypeOK
<1>1. CASE Extract(e)
  BY <1>0, <1>1 DEF Extract, Goto, GraphTypeOK, LocalsFit, Relating, Working, NoIds, Resolving
<1>2. CASE FindHit(e)
  BY <1>0, <1>2 DEF FindHit, Goto, GraphTypeOK, LocalsFit, Relating, Working, NoIds, Resolving
<1>3. CASE FindMiss(e)
  BY <1>0, <1>3 DEF FindMiss, Goto, GraphTypeOK, LocalsFit, Relating, Working, NoIds, Resolving
<1>4. CASE FindDangling(e)
  BY <1>0, <1>4 DEF FindDangling, Abort, Goto, GraphTypeOK, LocalsFit, Relating, Working, NoIds, Resolving
<1>5. CASE Mention(e)
  BY <1>0, <1>5 DEF Mention, Resolved, Goto, GraphTypeOK, LocalsFit, Relating, Working, NoIds, Resolving
<1>6. CASE CreateEntity(e)
  BY <1>0, <1>6 DEF CreateEntity, Goto, GraphTypeOK, LocalsFit, Relating, Working, NoIds, Resolving
<1>7. CASE NameEntity(e)
  BY <1>0, <1>7 DEF NameEntity, Resolved, Goto, GraphTypeOK, LocalsFit, Relating, Working, NoIds, Resolving
<1>8. CASE FindConflicts(e)
  BY <1>0, <1>8 DEF FindConflicts, Outgoing, Goto, GraphTypeOK, LocalsFit, Relating, Working, NoIds, Resolving
<1>9. CASE Invalidate(e)
  BY <1>0, <1>9 DEF Invalidate, GraphTypeOK, LocalsFit, Relating, Working, NoIds, Resolving
<1>10. CASE FindBeliefs(e)
  BY <1>0, <1>10 DEF FindBeliefs, Outgoing, Goto, GraphTypeOK, LocalsFit, Relating, Working, NoIds, Resolving
<1>11. CASE Supersede(e)
  BY <1>0, <1>11 DEF Supersede, GraphTypeOK, LocalsFit, Relating, Working, NoIds, Resolving
<1>12. CASE CreateEdge(e)
  BY <1>0, <1>12 DEF CreateEdge, Goto, GraphTypeOK, LocalsFit, Relating, Working, NoIds, Resolving
<1>13. CASE IndexEdge(e)
  BY <1>0, <1>13 DEF IndexEdge, Goto, GraphTypeOK, LocalsFit, Relating, Working, NoIds, Resolving
<1>14. CASE Complete(e)
  BY <1>0, <1>14 DEF Complete, Goto, GraphTypeOK, LocalsFit, Relating, Working, NoIds, Resolving
<1> QED
  BY <1>1, <1>2, <1>3, <1>4, <1>5, <1>6, <1>7, <1>8, <1>9, <1>10, <1>11, <1>12, <1>13, <1>14 DEF Step

(* So does an attempt that is given back or up, whose number is used up. *)
LEMMA EdgesAbort ==
    ASSUME BaseInv, NEW e \in Episodes, Abort(e), pc[e] \in Working,
           UNCHANGED <<edge, indexed, rewriting>>
    PROVE  EdgesAreStored' /\ AttemptsAreFresh'
<1> USE DEF BaseInv
<1>1. attempt \in [Episodes -> 1 .. MaxAttempts] /\ MaxAttempts \in Nat
  BY GraphBoundsAssumption DEF GraphTypeOK
<1>2. EdgesAreStored'
  BY DEF Abort, Goto, Me, EdgesAreStored, GraphTypeOK
<1>3. CASE attempt[e] < MaxAttempts
  <2>1. /\ pc' = [pc EXCEPT ![e] = "idle"] /\ attempt' = [attempt EXCEPT ![e] = @ + 1]
        /\ attempt[e] + 1 \in 1 .. MaxAttempts /\ attempt[e] + 1 > attempt[e]
    BY <1>1, <1>3 DEF Abort, Goto
  <2>2. edge[<<e, attempt[e] + 1>>] = "none"
    BY <2>1 DEF AttemptsAreFresh
  <2>3. \A k \in 1 .. MaxAttempts : k > attempt[e] + 1 => k > attempt[e]
    BY <1>1
  <2> QED
    BY <1>1, <1>2, <2>1, <2>2, <2>3 DEF AttemptsAreFresh, Me, GraphTypeOK
<1>4. CASE ~(attempt[e] < MaxAttempts)
  BY <1>2, <1>4 DEF Abort, Goto, AttemptsAreFresh, Me, GraphTypeOK
<1> QED
  BY <1>3, <1>4

(* Edges are stored before they are listed, once per attempt. *)
LEMMA EdgesStep ==
    ASSUME BaseInv, NEW e \in Episodes, Step(e)
    PROVE  EdgesAreStored' /\ AttemptsAreFresh'
<1> USE DEF graph, locals, history, budget, BaseInv
<1>0. /\ Me(e) \in Attempts /\ \A f \in Episodes : Me(f) \in Attempts
      /\ MaxAttempts \in Nat
  BY AttemptFacts, GraphBoundsAssumption
<1>1. CASE Extract(e)
  BY <1>0, <1>1
     DEF Extract, Goto, GraphTypeOK, EdgesAreStored, AttemptsAreFresh, Working,
     Attempts, Me
<1>2. CASE FindHit(e)
  BY <1>0, <1>2
     DEF FindHit, Goto, GraphTypeOK, EdgesAreStored, AttemptsAreFresh, Working,
     Attempts, Me
<1>3. CASE FindMiss(e)
  BY <1>0, <1>3
     DEF FindMiss, Goto, GraphTypeOK, EdgesAreStored, AttemptsAreFresh, Working,
     Attempts, Me
<1>4. CASE FindDangling(e)
  BY <1>4, EdgesAbort DEF FindDangling, Working
<1>5. CASE Mention(e)
  BY <1>0, <1>5
     DEF Mention, Resolved, Goto, GraphTypeOK, EdgesAreStored, AttemptsAreFresh,
     Working, Attempts, Me
<1>6. CASE CreateEntity(e)
  BY <1>0, <1>6
     DEF CreateEntity, Goto, GraphTypeOK, EdgesAreStored, AttemptsAreFresh, Working,
     Attempts, Me
<1>7. CASE NameEntity(e)
  BY <1>0, <1>7
     DEF NameEntity, Resolved, Goto, GraphTypeOK, EdgesAreStored, AttemptsAreFresh,
     Working, Attempts, Me
<1>8. CASE FindConflicts(e)
  BY <1>0, <1>8
     DEF FindConflicts, Outgoing, Goto, GraphTypeOK, EdgesAreStored, AttemptsAreFresh,
     Working, Attempts, Me
<1>9. CASE Invalidate(e)
  BY <1>0, <1>9
     DEF Invalidate, GraphTypeOK, EdgesAreStored, AttemptsAreFresh, Working, Attempts,
     Me
<1>10. CASE FindBeliefs(e)
  BY <1>0, <1>10
     DEF FindBeliefs, Outgoing, Goto, GraphTypeOK, EdgesAreStored, AttemptsAreFresh,
     Working, Attempts, Me
<1>11. CASE Supersede(e)
  BY <1>0, <1>11
     DEF Supersede, GraphTypeOK, EdgesAreStored, AttemptsAreFresh, Working, Attempts, Me
<1>12. CASE CreateEdge(e)
  BY <1>0, <1>12
     DEF CreateEdge, Goto, GraphTypeOK, EdgesAreStored, AttemptsAreFresh, Working,
     Attempts, Me
<1>13. CASE IndexEdge(e)
  BY <1>0, <1>13
     DEF IndexEdge, Goto, GraphTypeOK, EdgesAreStored, AttemptsAreFresh, Working,
     Attempts, Me
<1>14. CASE Complete(e)
  BY <1>0, <1>14
     DEF Complete, Goto, GraphTypeOK, EdgesAreStored, AttemptsAreFresh, Working,
     Attempts, Me
<1> QED
  BY <1>1, <1>2, <1>3, <1>4, <1>5, <1>6, <1>7, <1>8, <1>9, <1>10, <1>11, <1>12, <1>13,
     <1>14 DEF Step

LEMMA BaseFault ==
    ASSUME BaseInv, NEW e \in Episodes, Fault(e)
    PROVE  LocalsFit' /\ EdgesAreStored' /\ AttemptsAreFresh'
<1> USE DEF graph, locals, history, budget, BaseInv
<1>0. /\ Me(e) \in Attempts /\ \A f \in Episodes : Me(f) \in Attempts
      /\ Nil \notin EntityIds
  BY AttemptFacts, IdFacts
<1>1. CASE Fail(e)
  <2>1. LocalsFit'
    BY <1>1 DEF Fail, Abort, Goto, GraphTypeOK, LocalsFit, Relating, Working, NoIds
  <2> QED
    BY <1>1, <2>1, EdgesAbort DEF Fail
<1>2. CASE FindBeliefsError(e)
  BY <1>0, <1>2
     DEF FindBeliefsError, Goto, GraphTypeOK, LocalsFit, EdgesAreStored,
     AttemptsAreFresh, Relating, Working, NoIds, Me
<1>3. CASE SupersedeError(e)
  BY <1>0, <1>3
     DEF SupersedeError, GraphTypeOK, LocalsFit, EdgesAreStored, AttemptsAreFresh,
     Relating, Working, NoIds, Me
<1>4. CASE RecordError(e)
  BY <1>0, <1>4
     DEF RecordError, GraphTypeOK, LocalsFit, EdgesAreStored, AttemptsAreFresh,
     Relating, Working, NoIds, Me
<1> QED
  BY <1>1, <1>2, <1>3, <1>4 DEF Fault

LEMMA BaseRequest ==
    ASSUME BaseInv,
           \/ \E a \in Attempts : RewriteRead(a) \/ RewriteStore(a)
           \/ \E id \in EntityIds : DeleteDoc(id) \/ DeleteName(id)
    PROVE  LocalsFit' /\ EdgesAreStored' /\ AttemptsAreFresh'
<1> USE DEF graph, locals, history, budget, BaseInv, GraphTypeOK, LocalsFit, EdgesAreStored,
        AttemptsAreFresh, Me
<1>1. ASSUME NEW a \in Attempts, RewriteRead(a)
      PROVE  LocalsFit' /\ EdgesAreStored' /\ AttemptsAreFresh'
  BY <1>1 DEF RewriteRead
<1>2. ASSUME NEW a \in Attempts, RewriteStore(a)
      PROVE  LocalsFit' /\ EdgesAreStored' /\ AttemptsAreFresh'
  BY <1>2 DEF RewriteStore
<1>3. ASSUME NEW id \in EntityIds, DeleteDoc(id)
      PROVE  LocalsFit' /\ EdgesAreStored' /\ AttemptsAreFresh'
  BY <1>3 DEF DeleteDoc
<1>4. ASSUME NEW id \in EntityIds, DeleteName(id)
      PROVE  LocalsFit' /\ EdgesAreStored' /\ AttemptsAreFresh'
  BY <1>4 DEF DeleteName
<1> QED
  BY <1>1, <1>2, <1>3, <1>4

(* Requests are counted before they have anything pending. *)
LEMMA NothingPendingKeeps ==
    ASSUME BaseInv, [NextGraph]_graphVars
    PROVE  NothingPending'
<1> USE DEF graph, locals, history, budget, BaseInv, NothingPending
<1>1. deletes \in Nat /\ rewrites \in Nat
  BY GraphBoundsAssumption DEF GraphTypeOK
<1>2. ASSUME NEW e \in Episodes, Step(e)
      PROVE  UNCHANGED <<deleting, rewriting, deletes, rewrites>>
  BY <1>2 DEF Step, Extract, FindHit, FindMiss, FindDangling, Mention, CreateEntity, NameEntity,
              FindConflicts, Invalidate, FindBeliefs, Supersede, CreateEdge, IndexEdge, Complete
<1>3. ASSUME NEW e \in Episodes, Fault(e)
      PROVE  UNCHANGED <<deleting, rewriting, deletes, rewrites>>
  BY <1>3 DEF Fault, Fail, FindBeliefsError, SupersedeError, RecordError
<1>4. ASSUME NEW a \in Attempts, RewriteRead(a) \/ RewriteStore(a)
      PROVE  NothingPending'
  BY <1>1, <1>4 DEF RewriteRead, RewriteStore
<1>5. ASSUME NEW id \in EntityIds, DeleteDoc(id) \/ DeleteName(id)
      PROVE  NothingPending'
  BY <1>1, <1>5 DEF DeleteDoc, DeleteName
<1>6. CASE UNCHANGED graphVars
  BY <1>6 DEF graphVars
<1> QED
  BY <1>2, <1>3, <1>4, <1>5, <1>6 DEF NextGraph

LEMMA BaseInvInit == InitGraph => BaseInv
<1> SUFFICES ASSUME InitGraph
             PROVE  BaseInv
  OBVIOUS
<1> USE GraphBoundsAssumption DEF InitGraph
<1>1. GraphTypeOK
  <2>1. object \in [Episodes -> Objects]
    OBVIOUS
  <2>2. attempt \in [Episodes -> 1 .. MaxAttempts]
    OBVIOUS
  <2>3. /\ faults \in 0 .. MaxFaults /\ ignored \in 0 .. MaxIgnored
        /\ deletes \in 0 .. MaxDeletes /\ rewrites \in 0 .. MaxRewrites
    OBVIOUS
  <2>4. /\ pc \in [Episodes -> Pcs] /\ todo \in [Episodes -> SUBSET Attempts]
        /\ ids \in [Episodes -> [Names -> EntityIds \cup {Nil}]]
        /\ cand \in [Episodes -> EntityIds \cup {Nil}]
    BY DEF Pcs
  <2>5. /\ nameIdx \in [Names -> EntityIds \cup {Nil}]
        /\ edge \in [Attempts -> {"none", "valid", "invalid"}]
        /\ src \in [Attempts -> EntityIds \cup {Nil}] /\ tgt \in [Attempts -> EntityIds \cup {Nil}]
    OBVIOUS
  <2> QED
    BY <2>1, <2>2, <2>3, <2>4, <2>5 DEF GraphTypeOK
<1>2. LocalsFit /\ EdgesAreStored /\ NothingPending
  BY DEF LocalsFit, EdgesAreStored, NothingPending, NoIds, Relating
<1>3. AttemptsAreFresh
  BY DEF AttemptsAreFresh, Me, Attempts
<1> QED
  BY <1>1, <1>2, <1>3 DEF BaseInv

LEMMA BaseInvNext == BaseInv /\ [NextGraph]_graphVars => BaseInv'
<1> SUFFICES ASSUME BaseInv, [NextGraph]_graphVars
             PROVE  BaseInv'
  OBVIOUS
<1>1. NothingPending'
  BY NothingPendingKeeps
<1>2. ASSUME NEW e \in Episodes, Step(e)
      PROVE  BaseInv'
  BY <1>1, <1>2, TypeStep, LocalsStep, EdgesStep DEF BaseInv
<1>3. ASSUME NEW e \in Episodes, Fault(e)
      PROVE  BaseInv'
  BY <1>1, <1>3, TypeFault, BaseFault DEF BaseInv
<1>4. CASE \/ \E a \in Attempts : RewriteRead(a) \/ RewriteStore(a)
           \/ \E id \in EntityIds : DeleteDoc(id) \/ DeleteName(id)
  BY <1>1, <1>4, TypeRequest, BaseRequest DEF BaseInv
<1>5. CASE UNCHANGED graphVars
  BY <1>5 DEF graphVars, graph, locals, history, budget, BaseInv, GraphTypeOK, LocalsFit,
              EdgesAreStored, AttemptsAreFresh, NothingPending, Me
<1> QED
  BY <1>2, <1>3, <1>4, <1>5 DEF NextGraph

(* Every variable of the graph and of the attempts keeps its type. *)
THEOREM GraphTypeCorrect == GraphSpec => []GraphTypeOK
<1>1. BaseInv => GraphTypeOK
  BY DEF BaseInv
<1> QED
  BY <1>1, BaseInvInit, BaseInvNext, PTL DEF GraphSpec

-----------------------------------------------------------------------------
(* Grounding: names are resolved to stored entities of that name, and facts *)
(* are stored between entities that were resolved.                          *)
LEMMA GroundStep ==
    ASSUME BaseInv, GroundInv, NEW e \in Episodes, Step(e), deletes = 0
    PROVE  GroundInv'
<1> USE DEF graph, locals, history, budget, GroundInv, FactsAreGrounded, IdsAreGrounded
<1>0. /\ Me(e) \in Attempts /\ Resolving(e) \in Names /\ object[e] \in Objects
      /\ Objects \subseteq Names /\ Subject \in Names
      /\ <<Me(e), Resolving(e)>> \in EntityIds
      /\ NameOf(<<Me(e), Resolving(e)>>) = Resolving(e)
      /\ Nil \notin EntityIds /\ entity \subseteq EntityIds /\ BaseInv
  BY AttemptFacts, IdFacts DEF BaseInv, GraphTypeOK
<1> USE DEF BaseInv, GraphTypeOK
<1>1. CASE Extract(e)
  BY <1>0, <1>1 DEF Extract, Goto, Resolving, Me, LocalsFit, Working, NoIds
<1>2. CASE FindHit(e)
  BY <1>0, <1>2 DEF FindHit, Goto, Resolving, Me
<1>3. CASE FindMiss(e)
  BY <1>0, <1>3 DEF FindMiss, Goto, Resolving, Me
<1>4. CASE FindDangling(e)
  BY <1>0, <1>4 DEF FindDangling, Abort, Goto, Resolving, Me, LocalsFit, Working, NoIds
<1>5. CASE Mention(e)
  BY <1>0, <1>5 DEF Mention, Resolved, Goto, Resolving, Me
<1>6. CASE CreateEntity(e)
  BY <1>0, <1>6 DEF CreateEntity, Goto, Resolving, Me
<1>7. CASE NameEntity(e)
  <2> DEFINE r  == Resolving(e)
             id == <<Me(e), Resolving(e)>>
  <2>1. /\ nameIdx' = [nameIdx EXCEPT ![r] = id] /\ ids' = [ids EXCEPT ![e][r] = id]
        /\ pc'[e] \in {"find", "conflicts"} /\ \A f \in Episodes : f # e => pc'[f] = pc[f]
        /\ \A f \in Episodes : f # e => cand'[f] = cand[f] /\ ids'[f] = ids[f]
        /\ UNCHANGED <<entity, edge, src, tgt, attempt, object>>
    BY <1>7 DEF NameEntity, Resolved, Goto
  <2>2. id \in entity /\ NameOf(id) = r /\ r \in Names
    BY <1>0, <1>7 DEF NameEntity
  <2> HIDE DEF r, id
  <2>3. FactsAreGrounded'
    BY <1>0, <2>1, <2>2
  <2>4. IdsAreGrounded'
    BY <1>0, <2>1, <2>2 DEF Resolving, Me
  <2> QED
    BY <2>3, <2>4
<1>8. CASE FindConflicts(e)
  BY <1>0, <1>8 DEF FindConflicts, Outgoing, Goto, Resolving, Me
<1>9. CASE Invalidate(e)
  BY <1>0, <1>9 DEF Invalidate, Resolving, Me, EdgesAreStored
<1>10. CASE FindBeliefs(e)
  BY <1>0, <1>10 DEF FindBeliefs, Outgoing, Goto, Resolving, Me
<1>11. CASE Supersede(e)
  BY <1>0, <1>11 DEF Supersede, Resolving, Me, EdgesAreStored
<1>12. CASE CreateEdge(e)
  BY <1>0, <1>12 DEF CreateEdge, Goto, Resolving, Me, LocalsFit, Relating
<1>13. CASE IndexEdge(e)
  BY <1>0, <1>13 DEF IndexEdge, Goto, Resolving, Me
<1>14. CASE Complete(e)
  BY <1>0, <1>14 DEF Complete, Goto, Resolving, Me, LocalsFit, Working, NoIds
<1> QED
  BY <1>1, <1>2, <1>3, <1>4, <1>5, <1>6, <1>7, <1>8, <1>9, <1>10, <1>11, <1>12, <1>13,
     <1>14 DEF Step

LEMMA GroundFault ==
    ASSUME BaseInv, GroundInv, NEW e \in Episodes, Fault(e), deletes = 0
    PROVE  GroundInv'
<1> USE DEF graph, locals, history, budget, GroundInv, FactsAreGrounded, IdsAreGrounded,
        BaseInv, GraphTypeOK, EdgesAreStored, Resolving, Me
<1>0. BaseInv
  OBVIOUS
<1>1. CASE Fail(e)
  BY <1>0, <1>1 DEF Fail, Abort, Goto
<1>2. CASE FindBeliefsError(e)
  BY <1>0, <1>2 DEF FindBeliefsError, Goto
<1>3. CASE SupersedeError(e)
  BY <1>0, <1>3 DEF SupersedeError
<1>4. CASE RecordError(e)
  BY <1>0, <1>4 DEF RecordError
<1> QED
  BY <1>1, <1>2, <1>3, <1>4 DEF Fault

LEMMA GroundInvNext == BaseInv /\ GroundInv /\ [NextGraph]_graphVars => GroundInv'
<1> SUFFICES ASSUME BaseInv, GroundInv, [NextGraph]_graphVars, deletes' = 0
             PROVE  GroundInv'
  BY DEF GroundInv, FactsAreGrounded, IdsAreGrounded
<1> USE DEF graph, locals, history, budget
<1>0. deletes \in Nat
  BY GraphBoundsAssumption DEF BaseInv, GraphTypeOK
<1>1. ASSUME NEW e \in Episodes, Step(e)
      PROVE  GroundInv'
  <2>1. deletes = 0
    BY <1>1 DEF Step, Extract, FindHit, FindMiss, FindDangling, Mention, CreateEntity, NameEntity,
                FindConflicts, Invalidate, FindBeliefs, Supersede, CreateEdge, IndexEdge, Complete
  <2> QED
    BY <1>1, <2>1, GroundStep
<1>2. ASSUME NEW e \in Episodes, Fault(e)
      PROVE  GroundInv'
  <2>1. deletes = 0
    BY <1>2 DEF Fault, Fail, FindBeliefsError, SupersedeError, RecordError
  <2> QED
    BY <1>2, <2>1, GroundFault
<1>3. ASSUME NEW a \in Attempts, RewriteRead(a) \/ RewriteStore(a)
      PROVE  GroundInv'
  BY <1>3 DEF RewriteRead, RewriteStore, GroundInv, FactsAreGrounded, IdsAreGrounded, BaseInv,
              EdgesAreStored, GraphTypeOK, Resolving, Me
<1>4. ASSUME NEW id \in EntityIds, DeleteDoc(id) \/ DeleteName(id)
      PROVE  FALSE
  BY <1>0, <1>4 DEF DeleteDoc, DeleteName, BaseInv, NothingPending
<1>5. CASE UNCHANGED graphVars
  BY <1>5 DEF graphVars, GroundInv, FactsAreGrounded, IdsAreGrounded, Resolving, Me
<1> QED
  BY <1>1, <1>2, <1>3, <1>4, <1>5 DEF NextGraph

(* As long as no entity is deleted, every fact points to stored entities    *)
(* with the names it was stated with, whatever fails and however episodes   *)
(* overlap: create_entity, create_edge and find_entity_by_name.             *)
THEOREM FactsStayGrounded == GraphSpec => []FactsAreGrounded
<1>1. InitGraph => GroundInv
  BY DEF InitGraph, GroundInv, FactsAreGrounded, IdsAreGrounded
<1>2. GroundInv => FactsAreGrounded
  BY DEF GroundInv
<1> QED
  BY <1>1, <1>2, BaseInvInit, BaseInvNext, GroundInvNext, PTL DEF GraphSpec

-----------------------------------------------------------------------------
(* History: an attempt writes "valid" into its own, fresh edge only.        *)
LEMMA SupersededStep ==
    ASSUME BaseInv, NEW e \in Episodes, Step(e) \/ Fault(e)
    PROVE  SupersededStays
<1> USE DEF graph, locals, history, budget, BaseInv, GraphTypeOK, SupersededStays
<1>1. Me(e) \in Attempts /\ (pc[e] = "beliefs" => edge[Me(e)] = "none")
  BY AttemptFacts DEF AttemptsAreFresh
<1>2. CASE Invalidate(e)
  BY <1>2 DEF Invalidate
<1>3. CASE Supersede(e)
  BY <1>3 DEF Supersede
<1>4. CASE RecordError(e)
  BY <1>4 DEF RecordError
<1>5. CASE CreateEdge(e)
  BY <1>1, <1>5 DEF CreateEdge
<1>6. CASE UNCHANGED edge
  BY <1>6
<1> QED
  BY <1>2, <1>3, <1>4, <1>5, <1>6
     DEF Step, Extract, FindHit, FindMiss, FindDangling, Mention, CreateEntity, NameEntity,
         FindConflicts, FindBeliefs, IndexEdge, Complete,
         Fault, Fail, FindBeliefsError, SupersedeError

LEMMA SupersededNext ==
    ASSUME BaseInv, [NextGraph]_graphVars, rewrites' = 0
    PROVE  SupersededStays
<1> USE DEF graph, locals, history, budget
<1>0. rewrites \in Nat /\ (rewrites = 0 => rewriting = {})
  BY GraphBoundsAssumption DEF BaseInv, GraphTypeOK, NothingPending
<1>1. ASSUME NEW e \in Episodes, Step(e) \/ Fault(e)
      PROVE  SupersededStays
  BY <1>1, SupersededStep
<1>2. ASSUME NEW a \in Attempts, RewriteRead(a) \/ RewriteStore(a)
      PROVE  FALSE
  BY <1>0, <1>2 DEF RewriteRead, RewriteStore
<1>3. ASSUME NEW id \in EntityIds, DeleteDoc(id) \/ DeleteName(id)
      PROVE  SupersededStays
  BY <1>3 DEF DeleteDoc, DeleteName, SupersededStays
<1>4. CASE UNCHANGED graphVars
  BY <1>4 DEF graphVars, SupersededStays
<1> QED
  BY <1>1, <1>2, <1>3, <1>4 DEF NextGraph

(* A superseded fact never becomes current again, as long as nothing but    *)
(* ingestion writes edges: Edge::invalidate is never undone by a retry.     *)
THEOREM SupersededStaysSuperseded == GraphSpec => SupersededIsFinal
<1>1. BaseInv /\ [NextGraph]_graphVars => [rewrites' = 0 => SupersededStays]_graphVars
  BY SupersededNext
<1> QED
  BY <1>1, BaseInvInit, BaseInvNext, PTL DEF GraphSpec, SupersededIsFinal

(* A belief change is recorded in the step that decides on the old fact, or *)
(* an error was ignored.                                                    *)
LEMMA BeliefsNext == BaseInv /\ BeliefsAreTrue /\ [NextGraph]_graphVars => BeliefsAreTrue'
<1> SUFFICES ASSUME BaseInv, BeliefsAreTrue, [NextGraph]_graphVars, ignored' = 0, rewrites' = 0
             PROVE  \A b \in beliefs' : b.auto => edge'[b.old] = "invalid"
  BY DEF BeliefsAreTrue
<1> USE DEF graph, locals, history, budget, BaseInv, GraphTypeOK
<1>1. SupersededStays
  BY SupersededNext
<1>2. ignored \in Nat /\ rewrites \in Nat
  BY GraphBoundsAssumption
<1>3. \A b \in beliefs : b.old \in Attempts
  BY DEF Belief
<1>4. ASSUME NEW e \in Episodes, Supersede(e)
      PROVE  \A b \in beliefs' : b.auto => edge'[b.old] = "invalid"
  <2>1. ignored = 0 /\ rewrites = 0
    BY <1>4 DEF Supersede
  <2>2. PICK a \in todo[e] : /\ edge' = [edge EXCEPT ![a] = IF AutoSupersede(e, a) THEN "invalid" ELSE @]
                             /\ Record(e, a, AutoSupersede(e, a))
    BY <1>4 DEF Supersede
  <2> HIDE DEF AutoSupersede
  <2>3. a \in Attempts
    OBVIOUS
  <2>4. ASSUME NEW b \in beliefs, b.auto
        PROVE  edge'[b.old] = "invalid"
    BY <1>1, <1>3, <2>1, <2>4 DEF BeliefsAreTrue, SupersededStays
  <2>5. DEFINE new == [old |-> a, by |-> Me(e), auto |-> AutoSupersede(e, a)]
  <2>6. new.auto => edge'[new.old] = "invalid"
    BY <2>2, <2>3
  <2>7. beliefs' = beliefs \cup {new}
    BY <2>2 DEF Record
  <2> QED
    BY <2>4, <2>6, <2>7
<1>5. CASE UNCHANGED beliefs /\ ignored = 0 /\ rewrites = 0
  BY <1>1, <1>3, <1>5 DEF BeliefsAreTrue, SupersededStays
<1>6. ASSUME NEW e \in Episodes, Step(e)
      PROVE  Supersede(e) \/ (UNCHANGED beliefs /\ ignored = 0 /\ rewrites = 0)
  BY <1>6 DEF Step, Extract, FindHit, FindMiss, FindDangling, Mention, CreateEntity, NameEntity,
              FindConflicts, Invalidate, FindBeliefs, CreateEdge, IndexEdge, Complete
<1>7. ASSUME NEW e \in Episodes, Fault(e)
      PROVE  UNCHANGED beliefs /\ ignored = 0 /\ rewrites = 0
  BY <1>2, <1>7 DEF Fault, Fail, FindBeliefsError, SupersedeError, RecordError
<1>8. ASSUME NEW a \in Attempts, RewriteRead(a) \/ RewriteStore(a)
      PROVE  UNCHANGED beliefs /\ ignored = 0 /\ rewrites = 0
  BY <1>2, <1>8 DEF RewriteRead, RewriteStore
<1>9. ASSUME NEW id \in EntityIds, DeleteDoc(id) \/ DeleteName(id)
      PROVE  UNCHANGED beliefs /\ ignored = 0 /\ rewrites = 0
  BY <1>9 DEF DeleteDoc, DeleteName
<1>10. CASE UNCHANGED graphVars
  BY <1>5, <1>10 DEF graphVars
<1> QED
  BY <1>4, <1>5, <1>6, <1>7, <1>8, <1>9, <1>10 DEF NextGraph

(* A recorded belief change that says "auto_superseded" is about a fact     *)
(* that is invalid, whatever else fails: record_belief_change.              *)
THEOREM BeliefsTellTheTruth == GraphSpec => []BeliefsAreTrue
<1>1. InitGraph => BeliefsAreTrue
  BY DEF InitGraph, BeliefsAreTrue
<1> QED
  BY <1>1, BaseInvInit, BaseInvNext, BeliefsNext, PTL DEF GraphSpec

-----------------------------------------------------------------------------
(* One episode after the other.  Only Extract begins an attempt; every      *)
(* other step of an episode is one of the attempt it is in.                 *)
Begins(e) == pc[e] = "idle" /\ pc'[e] = "find" /\ ids' = ids
              /\ (~overlap' => ~overlap /\ \A f \in Episodes : pc[f] \notin Working)

LEMMA PlacesMove ==
    ASSUME BaseInv, NEW e \in Episodes, Step(e) \/ Fault(e)
    PROVE  /\ Extract(e) => Begins(e)
           /\ ~Extract(e) => pc[e] \in Working /\ overlap' = overlap
           /\ pc' \in [Episodes -> Pcs] /\ \A f \in Episodes : f # e => pc'[f] = pc[f]
<1> USE DEF graph, locals, history, budget, BaseInv, GraphTypeOK
<1>1. Extract(e) => Begins(e) /\ pc' = [pc EXCEPT ![e] = "find"]
  BY DEF Extract, Goto, Begins
<1>2. ~Extract(e) => pc[e] \in Working /\ overlap' = overlap
  BY DEF Step, FindHit, FindMiss, FindDangling, Mention, CreateEntity, NameEntity,
         FindConflicts, Invalidate, FindBeliefs, Supersede, CreateEdge, IndexEdge, Complete,
         Fault, Fail, FindBeliefsError, SupersedeError, RecordError, Working
<1>3. \E l \in Pcs : pc' = [pc EXCEPT ![e] = l]
  <2>1. CASE UNCHANGED pc
    <3>1. pc' = [pc EXCEPT ![e] = pc[e]] /\ pc[e] \in Pcs
      BY <2>1
    <3> QED
      BY <3>1
  <2>2. CASE \E l \in Pcs : Goto(e, l)
    BY <2>2 DEF Goto
  <2>3. CASE FindDangling(e) \/ Fail(e)
    BY <2>3 DEF FindDangling, Fail, Abort, Goto, Pcs
  <2>4. CASE Mention(e) \/ NameEntity(e)
    BY <2>4 DEF Mention, NameEntity, Resolved, Goto, Pcs, Working
  <2> QED
    BY <2>1, <2>2, <2>3, <2>4
       DEF Step, Extract, FindHit, FindMiss, CreateEntity, FindConflicts, Invalidate,
           FindBeliefs, Supersede, CreateEdge, IndexEdge, Complete,
           Fault, FindBeliefsError, SupersedeError, RecordError, Pcs, Working
<1> QED
  BY <1>1, <1>2, <1>3

LEMMA OneAtATimeNext == BaseInv /\ OneAtATime /\ [NextGraph]_graphVars => OneAtATime'
<1> SUFFICES ASSUME BaseInv, OneAtATime, [NextGraph]_graphVars
             PROVE  OneAtATime'
  OBVIOUS
<1>1. ASSUME NEW e \in Episodes, Step(e) \/ Fault(e)
      PROVE  OneAtATime'
  <2>1. CASE Extract(e)
    BY <1>1, <2>1, PlacesMove DEF Begins, OneAtATime, Working
  <2>2. CASE ~Extract(e)
    BY <1>1, <2>2, PlacesMove DEF OneAtATime
  <2> QED
    BY <2>1, <2>2
<1>2. CASE UNCHANGED <<pc, overlap>>
  BY <1>2 DEF OneAtATime
<1> QED
  BY <1>1, <1>2 DEF NextGraph, RewriteRead, RewriteStore, DeleteDoc, DeleteName, graphVars,
                    graph, locals, history

(* While one episode is in work, the others know nothing. *)
LEMMA OthersRest ==
    ASSUME BaseInv, OneAtATime, ~overlap, NEW e \in Episodes, pc[e] \in Working,
           NEW f \in Episodes, f # e
    PROVE  pc[f] \notin Working /\ ids[f] = NoIds
  BY DEF BaseInv, LocalsFit, OneAtATime

(* One after the other, a name is given to one entity only: the one found   *)
(* under it, or the one created because there was none.                     *)
LEMMA NamesStep ==
    ASSUME BaseInv, GroundInv, OneAtATime, NamesAreStable, NEW e \in Episodes, Step(e),
           ~overlap, deletes = 0
    PROVE  NamesAreStable'
<1> USE DEF graph, locals, history, budget, BaseInv, GraphTypeOK, NamesAreStable
<1>0. /\ Me(e) \in Attempts /\ Resolving(e) \in Names /\ object[e] \in Names
      /\ <<Me(e), Resolving(e)>> \in EntityIds /\ Subject \in Names /\ Nil \notin EntityIds
      /\ BaseInv
  BY AttemptFacts, IdFacts
<1>1. CASE Extract(e)
  BY <1>0, <1>1 DEF Extract, Goto, Resolving, LocalsFit, Working, NoIds
<1>2. CASE FindHit(e)
  BY <1>0, <1>2 DEF FindHit, Goto, Resolving
<1>3. CASE FindMiss(e)
  BY <1>0, <1>3 DEF FindMiss, Goto, Resolving
<1>4. CASE FindDangling(e)
  BY <1>0, <1>4 DEF FindDangling, Abort, Goto, Resolving
<1>5. CASE Mention(e)
  BY <1>0, <1>5 DEF Mention, Resolved, Goto, Resolving
<1>6. CASE CreateEntity(e)
  BY <1>0, <1>6 DEF CreateEntity, Goto, Resolving
<1>7. CASE NameEntity(e)
  <2> DEFINE r  == Resolving(e)
             id == <<Me(e), Resolving(e)>>
  <2>1. /\ nameIdx' = [nameIdx EXCEPT ![r] = id] /\ ids' = [ids EXCEPT ![e][r] = id]
        /\ pc'[e] \in {"find", "conflicts"} /\ \A f \in Episodes : f # e => pc'[f] = pc[f]
        /\ \A f \in Episodes : f # e => ids'[f] = ids[f]
        /\ UNCHANGED <<entity, edge, src, tgt, attempt, object>>
    BY <1>7 DEF NameEntity, Resolved, Goto
  <2>2. r \in Names /\ nameIdx[r] = Nil /\ id # Nil /\ pc[e] \in Working
    BY <1>0, <1>7 DEF NameEntity, Working
  <2> HIDE DEF r, id
  <2>3. \A f \in Episodes : f # e => pc[f] \notin Working /\ ids[f] = NoIds
    BY <2>2, OthersRest
  <2>4. \A a \in Attempts : edge'[a] # "none" =>
            src'[a] = nameIdx'[Subject] /\ tgt'[a] = nameIdx'[NameOf(tgt'[a])]
    <3>1. SUFFICES ASSUME NEW a \in Attempts, edge[a] # "none"
                   PROVE  src[a] = nameIdx'[Subject] /\ tgt[a] = nameIdx'[NameOf(tgt[a])]
      BY <2>1
    <3>2. /\ src[a] = nameIdx[Subject] /\ tgt[a] = nameIdx[NameOf(tgt[a])]
          /\ src[a] \in EntityIds /\ tgt[a] \in EntityIds
          /\ NameOf(src[a]) = Subject /\ NameOf(tgt[a]) \in Names
      BY <3>1, IdFacts DEF GroundInv, FactsAreGrounded
    <3> QED
      BY <1>0, <2>1, <2>2, <3>2
  <2>5. \A f \in Episodes, n \in Names : ids'[f][n] # Nil => ids'[f][n] = nameIdx'[n]
    BY <1>0, <2>1, <2>2, <2>3 DEF NoIds
  <2>6. \A f \in Episodes : pc'[f] \notin {"mention", "create", "name"}
    BY <2>1, <2>3 DEF Working
  <2> QED
    BY <2>4, <2>5, <2>6
<1>8. CASE FindConflicts(e)
  BY <1>0, <1>8 DEF FindConflicts, Goto, Resolving
<1>9. CASE Invalidate(e)
  BY <1>0, <1>9 DEF Invalidate, Resolving, EdgesAreStored
<1>10. CASE FindBeliefs(e)
  BY <1>0, <1>10 DEF FindBeliefs, Goto, Resolving
<1>11. CASE Supersede(e)
  BY <1>0, <1>11 DEF Supersede, Resolving, EdgesAreStored
<1>12. CASE CreateEdge(e)
  <2>1. /\ ids[e][Subject] # Nil /\ ids[e][object[e]] # Nil
    BY <1>12 DEF CreateEdge, LocalsFit, Relating
  <2>2. /\ ids[e][Subject] = nameIdx[Subject] /\ ids[e][object[e]] = nameIdx[object[e]]
        /\ NameOf(ids[e][object[e]]) = object[e]
    BY <1>0, <2>1 DEF GroundInv, IdsAreGrounded
  <2> QED
    BY <1>0, <1>12, <2>2 DEF CreateEdge, Goto, Resolving
<1>13. CASE IndexEdge(e)
  BY <1>0, <1>13 DEF IndexEdge, Goto, Resolving
<1>14. CASE Complete(e)
  BY <1>0, <1>14 DEF Complete, Goto, Resolving
<1> QED
  BY <1>1, <1>2, <1>3, <1>4, <1>5, <1>6, <1>7, <1>8, <1>9, <1>10, <1>11, <1>12, <1>13,
     <1>14 DEF Step

LEMMA NamesFault ==
    ASSUME BaseInv, NamesAreStable, NEW e \in Episodes, Fault(e), ~overlap, deletes = 0
    PROVE  NamesAreStable'
<1> USE DEF graph, locals, history, budget, BaseInv, GraphTypeOK, NamesAreStable, EdgesAreStored,
        Resolving, Me
<1>1. CASE Fail(e)
  BY <1>1 DEF Fail, Abort, Goto
<1>2. CASE FindBeliefsError(e)
  BY <1>2 DEF FindBeliefsError, Goto
<1>3. CASE SupersedeError(e)
  BY <1>3 DEF SupersedeError
<1>4. CASE RecordError(e)
  BY <1>4 DEF RecordError
<1> QED
  BY <1>1, <1>2, <1>3, <1>4 DEF Fault

(* What no step undoes: an overlap, and the disturbances counted.           *)
LEMMA DisturbancesCount ==
    ASSUME BaseInv, [NextGraph]_graphVars
    PROVE  /\ ~overlap' => ~overlap
           /\ deletes' = 0 => deletes = 0 /\ ~\E id \in EntityIds : DeleteDoc(id) \/ DeleteName(id)
           /\ rewrites' = 0 => rewrites = 0 /\ ~\E a \in Attempts : RewriteRead(a) \/ RewriteStore(a)
           /\ ignored' = 0 => ignored = 0 /\ ~\E e \in Episodes : \/ FindBeliefsError(e)
                                                                  \/ SupersedeError(e)
                                                                  \/ RecordError(e)
           /\ faults' = 0 => faults = 0 /\ ~\E e \in Episodes : Fail(e)
<1> USE DEF graph, locals, history, budget, BaseInv
<1>0. /\ faults \in Nat /\ ignored \in Nat /\ deletes \in Nat /\ rewrites \in Nat
      /\ NothingPending
  BY GraphBoundsAssumption DEF GraphTypeOK
<1> DEFINE Counted ==
        /\ ~overlap' => ~overlap
        /\ faults' >= faults /\ ignored' >= ignored /\ deletes' >= deletes /\ rewrites' >= rewrites
<1>1. ASSUME NEW e \in Episodes, Step(e)
      PROVE  Counted
  <2>1. UNCHANGED budget
    BY <1>1
       DEF Step, Extract, FindHit, FindMiss, FindDangling, Mention, CreateEntity, NameEntity,
           FindConflicts, Invalidate, FindBeliefs, Supersede, CreateEdge, IndexEdge, Complete
  <2>2. ~overlap' => ~overlap
    BY <1>1, PlacesMove DEF Begins
  <2> QED
    BY <1>0, <2>1, <2>2
<1>2. ASSUME NEW e \in Episodes, Fault(e)
      PROVE  Counted
  BY <1>0, <1>2 DEF Fault, Fail, FindBeliefsError, SupersedeError, RecordError
<1>3. ASSUME NEW a \in Attempts, RewriteRead(a) \/ RewriteStore(a)
      PROVE  Counted
  BY <1>0, <1>3 DEF RewriteRead, RewriteStore
<1>4. ASSUME NEW id \in EntityIds, DeleteDoc(id) \/ DeleteName(id)
      PROVE  Counted
  BY <1>0, <1>4 DEF DeleteDoc, DeleteName
<1>5. ASSUME UNCHANGED graphVars
      PROVE  Counted
  <2>1. UNCHANGED budget /\ UNCHANGED overlap
    BY <1>5 DEF graphVars
  <2> QED
    BY <1>0, <2>1
<1> HIDE DEF Counted
<1>6. Counted
  BY <1>1, <1>2, <1>3, <1>4, <1>5 DEF NextGraph
<1>7. ASSUME NEW e \in Episodes
      PROVE  /\ faults' = 0 => ~Fail(e)
             /\ ignored' = 0 => ~FindBeliefsError(e) /\ ~SupersedeError(e) /\ ~RecordError(e)
  BY <1>0 DEF Fail, FindBeliefsError, SupersedeError, RecordError
<1>8. rewrites' = 0 => ~\E a \in Attempts : RewriteRead(a) \/ RewriteStore(a)
  BY <1>0 DEF RewriteRead, RewriteStore, NothingPending
<1>9. deletes' = 0 => ~\E id \in EntityIds : DeleteDoc(id) \/ DeleteName(id)
  BY <1>0 DEF DeleteDoc, DeleteName, NothingPending
<1> QED
  BY <1>0, <1>6, <1>7, <1>8, <1>9 DEF Counted

LEMMA NamesAreStableNext ==
    BaseInv /\ GroundInv /\ OneAtATime /\ NamesAreStable /\ [NextGraph]_graphVars => NamesAreStable'
<1> SUFFICES ASSUME BaseInv, GroundInv, OneAtATime, NamesAreStable, [NextGraph]_graphVars,
                    ~overlap', deletes' = 0
             PROVE  NamesAreStable'
  BY DEF NamesAreStable
<1>1. ~overlap /\ deletes = 0
  BY DisturbancesCount
<1>2. ASSUME NEW e \in Episodes, Step(e) \/ Fault(e)
      PROVE  NamesAreStable'
  BY <1>1, <1>2, NamesStep, NamesFault
<1>3. ASSUME NEW a \in Attempts, RewriteRead(a) \/ RewriteStore(a)
      PROVE  NamesAreStable'
  BY <1>3 DEF RewriteRead, RewriteStore, NamesAreStable, BaseInv, EdgesAreStored, GraphTypeOK,
              Resolving, Me, graph, locals, history, budget
<1>4. CASE UNCHANGED graphVars
  BY <1>4 DEF graphVars, graph, locals, history, budget, NamesAreStable, Resolving, Me
<1> QED
  BY <1>2, <1>3, <1>4, DisturbancesCount DEF NextGraph

(* The attempt in work handles every fact that is current, so that its own  *)
(* is the only one when it is listed.                                       *)
LEMMA SupersedingStep ==
    ASSUME BaseInv, GroundInv, OneAtATime, NamesAreStable, SupersedingGoesOn,
           NEW e \in Episodes, Step(e),
           ~overlap, ~overlap', ignored = 0, deletes = 0, rewrites = 0
    PROVE  SupersedingGoesOn'
<1> USE DEF graph, locals, history, budget, BaseInv, GraphTypeOK
<1> DEFINE Goes(f) ==
        /\ pc[f] = "invalidate" => \A a \in Current : tgt[a] = ids[f][object[f]] => a \in todo[f]
        /\ pc[f] = "beliefs" => /\ Current \subseteq todo[f]
                                /\ \A a \in todo[f] : tgt[a] # ids[f][object[f]]
        /\ pc[f] = "index" => Current = {} /\ edge[Me(f)] = "valid"
        /\ pc[f] = "embed" => Current = {Me(f)}
<1>0. /\ Me(e) \in Attempts /\ object[e] \in Names /\ Subject \in Names /\ Nil \notin EntityIds
      /\ Goes(e) /\ Current \subseteq Attempts
  BY AttemptFacts, IdFacts DEF SupersedingGoesOn, Current
<1>1. \A f \in Episodes : f # e => pc'[f] = pc[f] /\ pc[f] \notin Working
  <2>1. CASE Extract(e)
    BY <2>1, PlacesMove DEF Begins
  <2>2. CASE ~Extract(e)
    BY <2>2, PlacesMove, OthersRest
  <2> QED
    BY <2>1, <2>2
<1>2. ASSUME Goes(e)'
      PROVE  SupersedingGoesOn'
  BY <1>1, <1>2 DEF SupersedingGoesOn, Working
<1>3. CASE pc'[e] \notin {"invalidate", "beliefs", "index", "embed"}
  BY <1>2, <1>3
<1>4. CASE FindConflicts(e)
  <2>1. \A a \in Current : a \in Outgoing(e)
    BY <1>0, <1>4 DEF FindConflicts, Current, Outgoing, NamesAreStable, LocalsFit, Relating
  <2>2. Goes(e)'
    BY <1>4, <2>1 DEF FindConflicts, Goto, Current
  <2> QED
    BY <1>2, <2>2
<1>5. CASE Invalidate(e)
  <2>1. Goes(e)'
    BY <1>0, <1>5 DEF Invalidate, Current
  <2> QED
    BY <1>2, <2>1
<1>6. CASE FindBeliefs(e)
  <2>1. \A a \in Current : a \in Outgoing(e)
    BY <1>0, <1>6 DEF FindBeliefs, Current, Outgoing, NamesAreStable, LocalsFit, Relating
  <2>2. \A a \in Current : tgt[a] # ids[e][object[e]]
    BY <1>0, <1>6 DEF FindBeliefs
  <2>3. Goes(e)'
    BY <1>6, <2>1, <2>2 DEF FindBeliefs, Goto, Current
  <2> QED
    BY <1>2, <2>3
<1>7. CASE Supersede(e)
  <2>1. PICK a \in todo[e] : /\ edge' = [edge EXCEPT ![a] = IF AutoSupersede(e, a) THEN "invalid" ELSE @]
                             /\ todo' = [todo EXCEPT ![e] = @ \ {a}]
    BY <1>7 DEF Supersede
  <2>2. /\ pc[e] = "beliefs" /\ UNCHANGED <<tgt, indexed, pc, object, ids>>
        /\ a \in Attempts /\ edge[a] # "none"
    BY <1>7 DEF Supersede, EdgesAreStored
  <2>3. AutoSupersede(e, a)
    <3>1. tgt[a] = nameIdx[NameOf(tgt[a])]
      BY <2>2 DEF NamesAreStable
    <3>2. ids[e][object[e]] = nameIdx[object[e]]
      BY <1>0, <2>2 DEF NamesAreStable, LocalsFit, Relating
    <3>3. tgt[a] # ids[e][object[e]]
      BY <1>0, <2>2
    <3> QED
      BY <3>1, <3>2, <3>3 DEF AutoSupersede
  <2>4. Current' = Current \ {a}
    BY <2>1, <2>2, <2>3 DEF Current
  <2>5. Goes(e)'
    BY <1>0, <2>1, <2>2, <2>4
  <2> QED
    BY <1>2, <2>5
<1>8. CASE CreateEdge(e)
  <2>1. Current = {} /\ edge[Me(e)] = "none" /\ Me(e) \notin indexed
    BY <1>0, <1>8 DEF CreateEdge, AttemptsAreFresh, EdgesAreStored
  <2>2. Current' = {}
    BY <1>0, <1>8, <2>1 DEF CreateEdge, Current
  <2>3. Goes(e)'
    BY <1>0, <1>8, <2>2 DEF CreateEdge, Goto, Me
  <2> QED
    BY <1>2, <2>3
<1>9. CASE IndexEdge(e)
  <2>1. Current = {} /\ edge[Me(e)] = "valid"
    BY <1>0, <1>9 DEF IndexEdge
  <2>2. Current' = {Me(e)}
    BY <1>9, <2>1 DEF IndexEdge, Current
  <2>3. Goes(e)'
    BY <1>9, <2>2 DEF IndexEdge, Goto, Me
  <2> QED
    BY <1>2, <2>3
<1>10. CASE Extract(e) \/ FindHit(e) \/ FindMiss(e) \/ FindDangling(e) \/ Mention(e)
            \/ CreateEntity(e) \/ NameEntity(e) \/ Complete(e)
  BY <1>3, <1>10 DEF Extract, FindHit, FindMiss, FindDangling, Abort, Mention, CreateEntity,
                     NameEntity, Resolved, Complete, Goto
<1> QED
  BY <1>4, <1>5, <1>6, <1>7, <1>8, <1>9, <1>10 DEF Step

LEMMA SupersedingNext ==
    BaseInv /\ GroundInv /\ OneAtATime /\ NamesAreStable /\ SupersedingGoesOn /\ [NextGraph]_graphVars
        => SupersedingGoesOn'
<1> SUFFICES ASSUME BaseInv, GroundInv, OneAtATime, NamesAreStable, SupersedingGoesOn,
                    [NextGraph]_graphVars,
                    ~overlap', ignored' = 0, deletes' = 0, rewrites' = 0
             PROVE  SupersedingGoesOn'
  BY DEF SupersedingGoesOn
<1>1. ~overlap /\ ignored = 0 /\ deletes = 0 /\ rewrites = 0
  BY DisturbancesCount
<1>2. ASSUME NEW e \in Episodes, Step(e)
      PROVE  SupersedingGoesOn'
  BY <1>1, <1>2, SupersedingStep
<1>3. ASSUME NEW e \in Episodes, Fail(e)
      PROVE  SupersedingGoesOn'
  <2>1. pc[e] \in Working /\ pc'[e] \in {"idle", "gaveup"}
        /\ \A f \in Episodes : f # e => pc'[f] = pc[f]
    BY <1>3 DEF Fail, Abort, Goto, BaseInv, GraphTypeOK
  <2>2. \A f \in Episodes : pc'[f] \notin Working
    BY <1>1, <2>1, OthersRest DEF Working
  <2> QED
    BY <2>2 DEF SupersedingGoesOn, Working
<1>4. CASE UNCHANGED graphVars
  BY <1>4 DEF graphVars, graph, locals, history, budget, SupersedingGoesOn, Current, Me
<1> QED
  BY <1>2, <1>3, <1>4, DisturbancesCount DEF NextGraph, Fault

(* When the attempt in work completes, its fact is the current one.         *)
LEMMA LatestNext ==
    BaseInv /\ SupersedingGoesOn /\ LatestFactIsCurrent /\ [NextGraph]_graphVars
        => LatestFactIsCurrent'
<1> SUFFICES ASSUME BaseInv, SupersedingGoesOn, LatestFactIsCurrent, [NextGraph]_graphVars,
                    Settled', ~overlap', ignored' = 0, deletes' = 0, rewrites' = 0
             PROVE  Current' = IF last' = Nil THEN {} ELSE {last'}
  BY DEF LatestFactIsCurrent
<1> USE DEF graph, locals, history, budget
<1>1. ~overlap /\ ignored = 0 /\ deletes = 0 /\ rewrites = 0
  BY DisturbancesCount
<1>2. ASSUME NEW e \in Episodes, Complete(e)
      PROVE  Current' = IF last' = Nil THEN {} ELSE {last'}
  <2>1. Current = {Me(e)}
    BY <1>1, <1>2 DEF Complete, SupersedingGoesOn
  <2>2. last' = Me(e) /\ Current' = Current /\ Me(e) # Nil
    BY <1>2, AttemptFacts, IdFacts DEF Complete, Current, BaseInv
  <2> QED
    BY <2>1, <2>2
<1>3. ASSUME NEW e \in Episodes, Step(e), ~Complete(e)
      PROVE  FALSE
  <2>1. CASE FindDangling(e)
    BY <2>1, GraphBoundsAssumption
       DEF FindDangling, Abort, Goto, Settled, BaseInv, GraphTypeOK
  <2>2. CASE ~FindDangling(e)
    <3>1. pc'[e] \in Working
      BY <1>3, <2>2
         DEF Step, Extract, FindHit, FindMiss, Mention, CreateEntity, NameEntity, Resolved, Goto,
             FindConflicts, Invalidate, FindBeliefs, Supersede, CreateEdge, IndexEdge,
             Working, BaseInv, GraphTypeOK
    <3> QED
      BY <3>1 DEF Settled, Working
  <2> QED
    BY <2>1, <2>2
<1>4. ASSUME NEW e \in Episodes, Fail(e)
      PROVE  FALSE
  BY <1>4, GraphBoundsAssumption DEF Fail, Abort, Goto, Settled, BaseInv, GraphTypeOK
<1>5. CASE UNCHANGED graphVars
  BY <1>1, <1>5 DEF graphVars, LatestFactIsCurrent, Settled, Current
<1> QED
  BY <1>2, <1>3, <1>4, <1>5, DisturbancesCount DEF NextGraph, Fault

(* An entity is created only when its name leads nowhere, and then named.   *)
LEMMA NamedStep ==
    ASSUME BaseInv, GroundInv, OneAtATime, NamesAreStable, EntitiesAreNamed,
           NEW e \in Episodes, Step(e), ~overlap, faults = 0, deletes = 0
    PROVE  EntitiesAreNamed'
<1> USE DEF graph, locals, history, budget, BaseInv, GraphTypeOK, EntitiesAreNamed
<1>0. /\ Me(e) \in Attempts /\ Resolving(e) \in Names
      /\ NameOf(<<Me(e), Resolving(e)>>) = Resolving(e)
      /\ Nil \notin EntityIds /\ BaseInv
      /\ \A id \in EntityIds : NameOf(id) \in Names
  BY AttemptFacts, IdFacts
<1>1. CASE Extract(e)
  BY <1>1 DEF Extract, Goto, Resolving, Me
<1>2. CASE FindHit(e) \/ FindMiss(e)
  BY <1>2 DEF FindHit, FindMiss, Goto, Resolving, Me
<1>3. CASE FindDangling(e)
  BY <1>0, <1>3 DEF FindDangling, GroundInv, FactsAreGrounded
<1>4. CASE Mention(e)
  <2>1. entity' = entity
    BY <1>4 DEF Mention, GroundInv, IdsAreGrounded
  <2> QED
    BY <1>4, <2>1 DEF Mention, Resolved, Goto, Resolving, Me
<1>5. CASE CreateEntity(e)
  BY <1>5 DEF CreateEntity, Goto, Resolving, Me
<1>6. CASE NameEntity(e)
  <2> DEFINE r  == Resolving(e)
             id == <<Me(e), Resolving(e)>>
  <2>1. /\ nameIdx' = [nameIdx EXCEPT ![r] = id] /\ entity' = entity
        /\ nameIdx[r] = Nil /\ r \in Names /\ NameOf(id) = r
    BY <1>0, <1>6 DEF NameEntity, NamesAreStable
  <2>2. \A f \in Episodes : f # e => pc[f] # "name"
    BY <1>6, OthersRest DEF NameEntity, Working
  <2>3. SUFFICES ASSUME NEW i \in entity
                 PROVE  nameIdx'[NameOf(i)] = i
    BY <2>1
  <2>4. CASE i = id
    BY <2>1, <2>4
  <2>5. CASE i # id
    <3>1. nameIdx[NameOf(i)] = i /\ i # Nil /\ NameOf(i) \in Names
      BY <1>0, <2>2, <2>5
    <3> QED
      BY <2>1, <3>1
  <2> QED
    BY <2>4, <2>5
<1>7. CASE \/ FindConflicts(e) \/ Invalidate(e) \/ FindBeliefs(e) \/ Supersede(e)
           \/ CreateEdge(e) \/ IndexEdge(e) \/ Complete(e)
  BY <1>7
     DEF FindConflicts, Invalidate, FindBeliefs, Supersede, CreateEdge, IndexEdge, Complete,
         Goto, Resolving, Me
<1> QED
  BY <1>1, <1>2, <1>3, <1>4, <1>5, <1>6, <1>7 DEF Step

LEMMA NamedNext ==
    BaseInv /\ GroundInv /\ OneAtATime /\ NamesAreStable /\ EntitiesAreNamed /\ [NextGraph]_graphVars
        => EntitiesAreNamed'
<1> SUFFICES ASSUME BaseInv, GroundInv, OneAtATime, NamesAreStable, EntitiesAreNamed,
                    [NextGraph]_graphVars, ~overlap', faults' = 0, deletes' = 0
             PROVE  EntitiesAreNamed'
  BY DEF EntitiesAreNamed
<1>1. ~overlap /\ faults = 0 /\ deletes = 0
  BY DisturbancesCount
<1>2. ASSUME NEW e \in Episodes, Step(e)
      PROVE  EntitiesAreNamed'
  BY <1>1, <1>2, NamedStep
<1>3. ASSUME NEW e \in Episodes, FindBeliefsError(e) \/ SupersedeError(e) \/ RecordError(e)
      PROVE  EntitiesAreNamed'
  BY <1>1, <1>3
     DEF FindBeliefsError, SupersedeError, RecordError, Goto, EntitiesAreNamed, Resolving, Me,
         BaseInv, GraphTypeOK, graph, locals, history, budget
<1>4. ASSUME NEW a \in Attempts, RewriteRead(a) \/ RewriteStore(a)
      PROVE  EntitiesAreNamed'
  BY <1>1, <1>4
     DEF RewriteRead, RewriteStore, EntitiesAreNamed, Resolving, Me, graph, locals, history, budget
<1>5. CASE UNCHANGED graphVars
  BY <1>5 DEF graphVars, graph, locals, history, budget, EntitiesAreNamed, Resolving, Me
<1> QED
  BY <1>2, <1>3, <1>4, <1>5, DisturbancesCount DEF NextGraph, Fault

LEMMA QuietInvInit == InitGraph => QuietInv
<1> SUFFICES ASSUME InitGraph
             PROVE  QuietInv
  OBVIOUS
<1>1. OneAtATime /\ NamesAreStable /\ SupersedingGoesOn /\ EntitiesAreNamed
  BY DEF InitGraph, OneAtATime, NamesAreStable, SupersedingGoesOn, EntitiesAreNamed, Working
<1>2. LatestFactIsCurrent
  BY DEF InitGraph, LatestFactIsCurrent, Current
<1> QED
  BY <1>1, <1>2 DEF QuietInv

LEMMA QuietInvNext == BaseInv /\ GroundInv /\ QuietInv /\ [NextGraph]_graphVars => QuietInv'
  BY OneAtATimeNext, NamesAreStableNext, SupersedingNext, NamedNext, LatestNext DEF QuietInv

LEMMA NamedOnce == BaseInv /\ EntitiesAreNamed => OneEntityPerName
<1> SUFFICES ASSUME BaseInv, EntitiesAreNamed, Settled, ~overlap, faults = 0, deletes = 0,
                    NEW i \in entity, NEW j \in entity, NameOf(i) = NameOf(j)
             PROVE  i = j
  BY DEF OneEntityPerName
<1>1. \A e \in Episodes : pc[e] # "name"
  BY DEF Settled
<1> QED
  BY <1>1 DEF EntitiesAreNamed

(* When no attempt is under way, the fact told last is the one current fact *)
(* and no entity is stored twice: process_episode, one episode at a time.   *)
THEOREM QuietGraphTellsTheTruth == GraphSpec => []QuietGraphIsTrue
<1>1. BaseInv /\ QuietInv => QuietGraphIsTrue
  BY NamedOnce DEF QuietInv, QuietGraphIsTrue
<1>2. InitGraph => GroundInv
  BY DEF InitGraph, GroundInv, FactsAreGrounded, IdsAreGrounded
<1> QED
  BY <1>1, <1>2, BaseInvInit, BaseInvNext, GroundInvNext, QuietInvInit, QuietInvNext, PTL
     DEF GraphSpec

-----------------------------------------------------------------------------
(* Facts over time.                                                         *)

(* A stated fact has its times; it is superseded by a later ingestion. *)
EdgesFit ==
    \A s \in Stated :
        /\ edges[s].valid_at \in Times
        /\ edges[s].ingested_at \in 0 .. now
        /\ edges[s].invalid_at = Never \/ edges[s].invalid_at \in 0 .. now

(* Of two facts one was superseded before the other was ingested. *)
OneSupersedesTheOther ==
    \A s1, s2 \in Stated : s1 # s2 =>
        \/ edges[s1].invalid_at <= edges[s2].ingested_at
        \/ edges[s2].invalid_at <= edges[s1].ingested_at

FollowerFits == follower.asked <= now /\ follower.known \subseteq Stated

(* What a follower knows, fact by fact, up to those it was told too late. *)
KnowsOf(s) ==
    s \notin follower.late =>
        (s \in follower.known /\ s \notin Unborn <=> s \in ValidAt(follower.asked))

EachIsKnown == \A s \in Statements : KnowsOf(s)

TimelineInv == TimelineTypeOK /\ EdgesFit /\ OneSupersedesTheOther /\ FollowerFits /\ EachIsKnown

-----------------------------------------------------------------------------
LEMMA TimeFacts ==
    /\ Never \in Nat /\ Never \notin Times /\ Times \subseteq Nat /\ Unsaid \notin Times
    /\ \A t \in Times : t < Never
    /\ NoEdge.valid_at = Never /\ NoEdge.ingested_at = Never
  BY TimelineAssumption DEF Never, Times, Unsaid, NoEdge

LEMMA FactTimes ==
    ASSUME TimelineInv, NEW s \in Stated
    PROVE  /\ edges[s].valid_at \in Nat /\ edges[s].invalid_at \in Nat
           /\ edges[s].ingested_at \in Nat
<1>1. now \in Nat
  BY TimeFacts DEF TimelineInv, TimelineTypeOK
<1>2. /\ edges[s].valid_at \in Times /\ edges[s].ingested_at \in 0 .. now
      /\ edges[s].invalid_at = Never \/ edges[s].invalid_at \in 0 .. now
  BY DEF TimelineInv, EdgesFit
<1>3. \A t \in 0 .. now : t \in Nat
  BY <1>1
<1>4. Never \in Nat /\ edges[s].valid_at \in Nat
  BY <1>2, TimeFacts
<1> QED
  BY <1>2, <1>3, <1>4

LEMMA TimelineInvInit == InitTimeline => TimelineInv
<1> SUFFICES ASSUME InitTimeline
             PROVE  TimelineInv
  OBVIOUS
<1> USE DEF InitTimeline
<1>1. Stated = {}
  BY DEF Stated
<1>2. TimelineTypeOK
  BY TimelineAssumption DEF TimelineTypeOK, Times, NoEdge
<1>3. EdgesFit /\ OneSupersedesTheOther /\ FollowerFits
  BY <1>1 DEF EdgesFit, OneSupersedesTheOther, FollowerFits
<1>4. EachIsKnown
  BY <1>1 DEF EachIsKnown, KnowsOf, ValidAt
<1> QED
  BY <1>2, <1>3, <1>4 DEF TimelineInv

(* Ingesting a fact supersedes the valid ones at this moment; a follower    *)
(* that has asked for this moment already is told too late.                 *)
LEMMA IngestKeeps ==
    ASSUME TimelineInv, NEW s \in Statements, Ingest(s)
    PROVE  TimelineInv'
<1> USE DEF TimelineInv
<1>1. PICK from \in Times :
         /\ edges' = [e \in Statements |->
              IF e = s THEN [valid_at |-> from, invalid_at |-> Never, ingested_at |-> now]
              ELSE IF is_valid(e) THEN [edges[e] EXCEPT !.invalid_at = now]
              ELSE edges[e]]
         /\ follower' = [follower EXCEPT !.late = @
              \cup (IF from <= follower.asked THEN {s} ELSE {})
              \cup (IF now <= follower.asked THEN {e \in Statements : is_valid(e)} ELSE {})]
  BY DEF Ingest
<1>2. /\ s \notin Stated /\ now \in Times /\ UNCHANGED <<now, said>>
      /\ follower \in [asked : Times, known : SUBSET Statements, late : SUBSET Statements]
  BY DEF Ingest, TimelineTypeOK
<1>3. /\ follower'.asked = follower.asked /\ follower'.known = follower.known
      /\ follower'.late = follower.late
           \cup (IF from <= follower.asked THEN {s} ELSE {})
           \cup (IF now <= follower.asked THEN {e \in Statements : is_valid(e)} ELSE {})
  BY <1>1, <1>2
<1>4. /\ edges'[s].valid_at = from /\ edges'[s].invalid_at = Never /\ edges'[s].ingested_at = now
  BY <1>1
<1>5. ASSUME NEW e \in Stated
      PROVE  /\ e \in Statements /\ e # s
             /\ edges'[e].valid_at = edges[e].valid_at /\ edges'[e].ingested_at = edges[e].ingested_at
             /\ edges'[e].invalid_at = IF is_valid(e) THEN now ELSE edges[e].invalid_at
  BY <1>1, <1>2 DEF Stated, TimelineTypeOK
<1>6. Stated' = Stated \cup {s}
  <2>1. edges'[s] # NoEdge
    BY <1>2, <1>4, TimeFacts
  <2>2. \A e \in Stated : edges'[e] # NoEdge
    BY <1>5, TimeFacts DEF EdgesFit
  <2>3. \A e \in Statements : e \notin Stated /\ e # s => edges'[e] = NoEdge
    BY <1>1 DEF Stated, is_valid
  <2> QED
    BY <2>1, <2>2, <2>3 DEF Stated
<1>7. TimelineTypeOK'
  <2>1. edges' \in [Statements -> [valid_at : Times \cup {Never}, invalid_at : Times \cup {Never},
                                   ingested_at : Times \cup {Never}]]
    BY <1>1, <1>2 DEF TimelineTypeOK
  <2>2. follower' \in [asked : Times, known : SUBSET Statements, late : SUBSET Statements]
    <3>1. follower'.late \subseteq Statements
      BY <1>2, <1>3
    <3> QED
      BY <1>1, <1>2, <1>3, <3>1
  <2> QED
    BY <1>2, <2>1, <2>2 DEF TimelineTypeOK
<1>8. EdgesFit'
  <2> SUFFICES ASSUME NEW e \in Stated \cup {s}
               PROVE  /\ edges'[e].valid_at \in Times
                      /\ edges'[e].ingested_at \in 0 .. now
                      /\ edges'[e].invalid_at = Never \/ edges'[e].invalid_at \in 0 .. now
    BY <1>2, <1>6 DEF EdgesFit
  <2>1. now \in 0 .. now
    BY <1>2, TimeFacts
  <2> QED
    BY <1>4, <1>5, <2>1 DEF EdgesFit
<1>9. OneSupersedesTheOther'
  <2>1. ASSUME NEW e \in Stated
        PROVE  edges'[e].invalid_at <= now
    <3>1. edges[e].invalid_at = Never \/ edges[e].invalid_at \in 0 .. now
      BY <2>1 DEF EdgesFit
    <3>2. edges'[e].invalid_at = IF edges[e].invalid_at = Never THEN now ELSE edges[e].invalid_at
      BY <1>5, <2>1 DEF is_valid
    <3>3. now \in Nat
      BY <1>2, TimeFacts
    <3> QED
      BY <3>1, <3>2, <3>3
  <2>2. ASSUME NEW e1 \in Stated, NEW e2 \in Stated,
               edges[e1].invalid_at <= edges[e2].ingested_at
        PROVE  edges'[e1].invalid_at <= edges'[e2].ingested_at
    <3>1. edges[e2].ingested_at \in 0 .. now
      BY DEF EdgesFit
    <3>2. ~is_valid(e1)
      BY <1>2, <2>2, <3>1, TimeFacts DEF is_valid
    <3> QED
      BY <1>5, <2>2, <3>2
  <2>3. ASSUME NEW e1 \in Stated, NEW e2 \in Stated, e1 # e2
        PROVE  \/ edges'[e1].invalid_at <= edges'[e2].ingested_at
               \/ edges'[e2].invalid_at <= edges'[e1].ingested_at
    BY <2>2, <2>3 DEF OneSupersedesTheOther
  <2> QED
    BY <1>4, <1>6, <2>1, <2>3 DEF OneSupersedesTheOther
<1>10. FollowerFits'
  BY <1>2, <1>3, <1>6 DEF FollowerFits
<1>11. ASSUME NEW e \in Statements
       PROVE  KnowsOf(e)'
  <2> SUFFICES ASSUME e \notin follower'.late
               PROVE  e \in follower.known /\ e \notin Unborn' <=> e \in ValidAt(follower.asked)'
    BY <1>3 DEF KnowsOf
  <2>0. e \notin follower.late /\ KnowsOf(e)
    BY <1>3 DEF EachIsKnown
  <2>1. follower.asked \in Nat /\ from \in Nat /\ now \in Nat
    BY <1>2, TimeFacts
  <2>2. CASE e = s
    <3>1. ~(from <= follower.asked) /\ e \notin follower.known
      BY <1>2, <1>3, <2>2 DEF FollowerFits
    <3>2. e \notin ValidAt(follower.asked)'
      BY <1>3, <1>4, <2>2, <3>1 DEF ValidAt, is_valid_at
    <3> QED
      BY <3>1, <3>2
  <2>3. CASE e \in Stated /\ is_valid(e)
    <3>1. /\ follower.asked < now /\ edges[e].valid_at \in Nat /\ edges[e].invalid_at = Never
          /\ edges'[e].valid_at = edges[e].valid_at /\ edges'[e].invalid_at = now
          /\ follower.asked < Never
      <4>1. ~(now <= follower.asked)
        BY <1>3, <2>3
      <4>2. edges[e].valid_at \in Nat
        BY <2>3, TimeFacts DEF EdgesFit
      <4>3. follower.asked < Never
        BY <1>2, TimeFacts
      <4> QED
        BY <1>5, <2>1, <2>3, <4>1, <4>2, <4>3 DEF is_valid
    <3>2. e \in ValidAt(follower.asked)' <=> edges[e].valid_at <= follower.asked
      BY <1>3, <1>6, <2>3, <3>1 DEF ValidAt, is_valid_at
    <3>3. e \in ValidAt(follower.asked) <=> edges[e].valid_at <= follower.asked
      BY <2>3, <3>1 DEF ValidAt, is_valid_at
    <3>4. e \notin Unborn
      BY <2>3, <3>1, TimeFacts DEF Unborn, EdgesFit
    <3>5. e \in Unborn' <=> now < edges[e].valid_at
      BY <1>6, <2>3, <3>1 DEF Unborn
    <3>6. e \in follower.known <=> edges[e].valid_at <= follower.asked
      BY <2>0, <3>3, <3>4 DEF KnowsOf
    <3> QED
      BY <2>1, <3>1, <3>2, <3>5, <3>6
  <2>4. CASE e \in Stated /\ ~is_valid(e)
    <3>1. /\ edges'[e].valid_at = edges[e].valid_at /\ edges'[e].invalid_at = edges[e].invalid_at
      BY <1>5, <2>4
    <3>2. e \in Unborn' <=> e \in Unborn
      BY <1>6, <2>4, <3>1 DEF Unborn
    <3>3. e \in ValidAt(follower.asked)' <=> e \in ValidAt(follower.asked)
      BY <1>3, <1>6, <2>4, <3>1 DEF ValidAt, is_valid_at
    <3> QED
      BY <2>0, <3>2, <3>3 DEF KnowsOf
  <2>5. CASE e \notin Stated /\ e # s
    BY <1>6, <2>5 DEF FollowerFits, ValidAt
  <2> QED
    BY <2>2, <2>3, <2>4, <2>5
<1> QED
  BY <1>7, <1>8, <1>9, <1>10, <1>11 DEF TimelineInv, EachIsKnown

(* A window that starts where the last one ended loses nothing. *)
LEMMA ChangesKeep ==
    ASSUME TimelineInv, memory_changes_since
    PROVE  TimelineInv'
<1> USE DEF TimelineInv
<1>1. PICK to \in follower.asked + 1 .. now :
         follower' = [follower EXCEPT !.asked = to,
                        !.known = (@ \cup added_facts([from |-> follower.asked, to |-> to]))
                                     \ superseded_facts([from |-> follower.asked, to |-> to])]
  BY DEF memory_changes_since
<1> DEFINE w == [from |-> follower.asked, to |-> to]
<1>2. /\ UNCHANGED <<now, said, edges>> /\ now \in Times /\ follower.asked \in Times
      /\ follower \in [asked : Times, known : SUBSET Statements, late : SUBSET Statements]
  BY DEF memory_changes_since, TimelineTypeOK
<1>3. /\ to \in Times /\ to \in Nat /\ follower.asked \in Nat /\ now \in Nat
      /\ follower.asked < to /\ to <= now
  BY <1>2, TimelineAssumption DEF Times
<1>4. /\ follower'.asked = to /\ follower'.late = follower.late
      /\ follower'.known = (follower.known \cup added_facts(w)) \ superseded_facts(w)
  BY <1>1, <1>2
<1>5. w.from = follower.asked /\ w.to = to
  OBVIOUS
<1> HIDE DEF w
<1>6. Stated' = Stated /\ Unborn' = Unborn /\ Stated \subseteq Statements
  BY <1>2 DEF Stated, Unborn
<1>7. added_facts(w) \subseteq Stated
  BY DEF added_facts
<1>8. TimelineTypeOK'
  <2>1. follower'.known \subseteq Statements
    BY <1>2, <1>4, <1>6, <1>7
  <2>2. follower' \in [asked : Times, known : SUBSET Statements, late : SUBSET Statements]
    BY <1>1, <1>2, <1>3, <1>4, <2>1
  <2> QED
    BY <1>2, <2>2 DEF TimelineTypeOK
<1>9. EdgesFit' /\ OneSupersedesTheOther'
  BY <1>2, <1>6 DEF EdgesFit, OneSupersedesTheOther
<1>10. FollowerFits'
  BY <1>2, <1>3, <1>4, <1>6, <1>7 DEF FollowerFits
<1>11. ASSUME NEW e \in Statements
       PROVE  KnowsOf(e)'
  <2> SUFFICES ASSUME e \notin follower.late
               PROVE  e \in follower'.known /\ e \notin Unborn <=> e \in ValidAt(follower.asked)'
    BY <1>4, <1>6 DEF KnowsOf
  <2>1. e \in follower.known /\ e \notin Unborn <=> e \in ValidAt(follower.asked)
    BY DEF EachIsKnown, KnowsOf
  <2>2. CASE e \notin Stated
    BY <1>4, <1>6, <1>7, <2>2 DEF FollowerFits, ValidAt
  <2>3. CASE e \in Stated
    <3> DEFINE v == edges[e].valid_at
               i == edges[e].invalid_at
    <3>1. v \in Nat /\ i \in Nat
      BY <2>3, FactTimes
    <3>2. e \in ValidAt(follower.asked) <=> v <= follower.asked /\ follower.asked < i
      BY <2>3 DEF ValidAt, is_valid_at
    <3>3. e \in ValidAt(follower.asked)' <=> v <= to /\ to < i
      BY <1>2, <1>4, <1>6, <2>3 DEF ValidAt, is_valid_at
    <3>4. e \in Unborn <=> i < v
      BY <2>3 DEF Unborn
    <3>5. e \in added_facts(w) <=> follower.asked < v /\ v <= to
      BY <1>5, <2>3 DEF added_facts, In
    <3>6. e \in superseded_facts(w) <=> follower.asked < i /\ i <= to
      BY <1>5, <2>3 DEF superseded_facts, In
    <3>7. e \in follower'.known <=> (e \in follower.known \/ e \in added_facts(w))
                                       /\ e \notin superseded_facts(w)
      BY <1>4
    <3> HIDE DEF v, i
    <3>8. CASE i < v
      BY <1>3, <3>1, <3>3, <3>4, <3>8
    <3>9. CASE v <= i
      BY <1>3, <2>1, <3>1, <3>2, <3>3, <3>4, <3>5, <3>6, <3>7, <3>9
    <3> QED
      BY <3>1, <3>8, <3>9
  <2> QED
    BY <2>2, <2>3
<1> QED
  BY <1>8, <1>9, <1>10, <1>11 DEF EachIsKnown

LEMMA TimelineInvNext == TimelineInv /\ [NextTimeline]_timelineVars => TimelineInv'
<1> SUFFICES ASSUME TimelineInv, [NextTimeline]_timelineVars
             PROVE  TimelineInv'
  OBVIOUS
<1>1. ASSUME UNCHANGED <<edges, follower>>, now' \in Times, now' >= now,
             said' \in [Statements -> Times \cup {Unsaid}]
      PROVE  TimelineInv'
  <2>1. Stated' = Stated /\ Unborn' = Unborn
    BY <1>1 DEF Stated, Unborn
  <2>2. \A t : t \in 0 .. now => t \in 0 .. now'
    BY <1>1, TimeFacts DEF TimelineInv, TimelineTypeOK
  <2>3. TimelineTypeOK' /\ EdgesFit' /\ OneSupersedesTheOther'
    BY <1>1, <2>1, <2>2
       DEF TimelineInv, TimelineTypeOK, EdgesFit, OneSupersedesTheOther
  <2>4. FollowerFits'
    <3>1. follower.asked \in Nat /\ now \in Nat /\ now' \in Nat
      BY <1>1, TimeFacts DEF TimelineInv, TimelineTypeOK
    <3> QED
      BY <1>1, <2>1, <3>1 DEF TimelineInv, FollowerFits
  <2>5. EachIsKnown'
    BY <1>1, <2>1 DEF TimelineInv, EachIsKnown, KnowsOf, ValidAt, is_valid_at
  <2> QED
    BY <2>3, <2>4, <2>5 DEF TimelineInv
<1>2. now \in Nat /\ now \in Times /\ said \in [Statements -> Times \cup {Unsaid}]
  BY TimeFacts DEF TimelineInv, TimelineTypeOK
<1>3. CASE TimePasses
  <2>1. now' \in Times /\ now' >= now
    BY <1>2, <1>3, TimelineAssumption DEF TimePasses, Times
  <2> QED
    BY <1>1, <1>2, <1>3, <2>1 DEF TimePasses
<1>4. ASSUME NEW s \in Statements, Say(s)
      PROVE  TimelineInv'
  <2>1. said' \in [Statements -> Times \cup {Unsaid}]
    BY <1>2, <1>4 DEF Say
  <2> QED
    BY <1>1, <1>2, <1>4, <2>1 DEF Say
<1>5. CASE UNCHANGED timelineVars
  BY <1>1, <1>2, <1>5 DEF timelineVars
<1> QED
  BY <1>3, <1>4, <1>5, IngestKeeps, ChangesKeep DEF NextTimeline

LEMMA TimelineInvariant == TimelineSpec => []TimelineInv
  BY TimelineInvInit, TimelineInvNext, PTL DEF TimelineSpec

-----------------------------------------------------------------------------
LEMMA FollowersKnowAll == TimelineInv => FollowersKnow
<1> SUFFICES ASSUME TimelineInv
             PROVE  FollowersKnow
  OBVIOUS
<1>1. follower.known \subseteq Statements /\ ValidAt(follower.asked) \subseteq Statements
  BY DEF TimelineInv, TimelineTypeOK, ValidAt, Stated
<1> QED
  BY <1>1 DEF TimelineInv, FollowersKnow, EachIsKnown, KnowsOf

(* The two times of a fact say of any window whether it was valid at its    *)
(* ends, and what there is on the timeline between them.                    *)
LEMMA TimelineReplays == TimelineInv => TracesReplay
<1> SUFFICES ASSUME TimelineInv, NEW s \in Stated \ Unborn, is_episode_within_retention(s),
                    NEW w \in Windows
             PROVE  LET told == {e \in timeline(w) : e.fact = s}
                        Told(type) == \E e \in told : e.type = type
                        replayed == IF told = {} THEN s \in ValidAt(w.from)
                                    ELSE \E e \in told : e.type = "fact_added" /\ \A f \in told : ~Before(e, f)
                    IN  /\ replayed <=> s \in ValidAt(w.to)
                        /\ \A c \in Contracts :
                             /\ s \in gained_facts(w, c) => Told("fact_added")
                             /\ s \in lost_facts(w, c) => Told("fact_superseded")
  BY DEF TracesReplay
<1> DEFINE v    == edges[s].valid_at
           i    == edges[s].invalid_at
           plus == Event(v, "fact_added", s)
           minus == Event(i, "fact_superseded", s)
           told == {e \in timeline(w) : e.fact = s}
<1>1. v \in Nat /\ i \in Nat /\ v <= i /\ w.from \in Nat /\ w.to \in Nat /\ w.from < w.to
  <2>1. v \in Nat /\ i \in Nat
    BY FactTimes
  <2>2. v <= i
    BY <2>1 DEF Unborn
  <2> QED
    BY <2>1, <2>2, TimeFacts DEF Windows
<1>2. /\ s \in ValidAt(w.from) <=> v <= w.from /\ w.from < i
      /\ s \in ValidAt(w.to) <=> v <= w.to /\ w.to < i
  BY DEF ValidAt, is_valid_at
<1>3. /\ plus.at = v /\ plus.type = "fact_added" /\ plus.fact = s
      /\ minus.at = i /\ minus.type = "fact_superseded" /\ minus.fact = s
  BY DEF Event
<1>4. \A e \in told : e \in {plus, minus}
  BY DEF timeline, Event
<1>5. plus \in told <=> w.from < v /\ v <= w.to
  BY <1>3 DEF timeline, added_facts, superseded_facts, In, Event
<1>6. minus \in told <=> w.from < i /\ i <= w.to
  BY <1>3 DEF timeline, added_facts, superseded_facts, In, Event
<1>7. \A c \in Contracts :
        /\ s \in gained_facts(w, c) => s \in ValidAt(w.to) /\ s \notin ValidAt(w.from)
        /\ s \in lost_facts(w, c) => s \in ValidAt(w.from) /\ s \notin ValidAt(w.to)
  BY DEF gained_facts, lost_facts, SnapshotAt, apply_memory_contract
<1> HIDE DEF v, i, plus, minus, told
<1>8. ~Before(plus, plus) /\ (Before(plus, minus) <=> v <= i)
  BY <1>1, <1>3 DEF Before
<1>9. (IF told = {} THEN s \in ValidAt(w.from)
       ELSE \E e \in told : e.type = "fact_added" /\ \A f \in told : ~Before(e, f))
      <=> s \in ValidAt(w.to)
  <2>1. CASE plus \notin told /\ minus \notin told
    BY <1>1, <1>2, <1>4, <1>5, <1>6, <2>1
  <2>2. CASE plus \in told /\ minus \notin told
    <3>1. plus.type = "fact_added" /\ \A f \in told : ~Before(plus, f)
      BY <1>3, <1>4, <1>8, <2>2
    <3>2. s \in ValidAt(w.to)
      BY <1>1, <1>2, <1>5, <1>6, <2>2
    <3> QED
      BY <2>2, <3>1, <3>2
  <2>3. CASE minus \in told
    <3>1. s \notin ValidAt(w.to)
      BY <1>1, <1>2, <1>6, <2>3
    <3>2. ASSUME NEW e \in told, e.type = "fact_added"
          PROVE  Before(e, minus)
      BY <1>1, <1>3, <1>4, <1>8, <3>2
    <3> QED
      BY <2>3, <3>1, <3>2
  <2> QED
    BY <2>1, <2>2, <2>3
<1>10. \A c \in Contracts :
         /\ s \in gained_facts(w, c) => \E e \in told : e.type = "fact_added"
         /\ s \in lost_facts(w, c) => \E e \in told : e.type = "fact_superseded"
  <2>1. s \in ValidAt(w.to) /\ s \notin ValidAt(w.from) => plus \in told
    BY <1>1, <1>2, <1>5
  <2>2. s \in ValidAt(w.from) /\ s \notin ValidAt(w.to) => minus \in told
    BY <1>1, <1>2, <1>6
  <2> QED
    BY <1>3, <1>7, <2>1, <2>2
<1> QED
  BY <1>9, <1>10 DEF told

LEMMA ConflictsPass == TimelineInv => ConflictsArePast
<1> SUFFICES ASSUME TimelineInv, NEW s1 \in Stated, NEW s2 \in Stated, NEW t \in Times,
                    <<s1, s2>> \in conflict_radar(t)
             PROVE  t < edges[s1].ingested_at \/ t < edges[s2].ingested_at
  BY DEF ConflictsArePast
<1>1. s1 # s2 /\ t < edges[s1].invalid_at /\ t < edges[s2].invalid_at
  BY DEF conflict_radar, ValidAt, is_valid_at
<1>2. /\ t \in Nat /\ edges[s1].ingested_at \in Nat /\ edges[s2].ingested_at \in Nat
      /\ edges[s1].invalid_at \in Nat /\ edges[s2].invalid_at \in Nat
  BY TimeFacts, FactTimes
<1> QED
  BY <1>1, <1>2 DEF TimelineInv, OneSupersedesTheOther

(* A client that asks for window after window knows the valid facts, the    *)
(* timeline of a window replays from one snapshot to the other, and facts   *)
(* compete only in the past: memory_changes_since, time_travel and          *)
(* conflict_radar.                                                          *)
THEOREM TimelinesHold == TimelineSpec => []TimelineHolds
<1>1. TimelineInv => TimelineHolds
  BY FollowersKnowAll, TimelineReplays, ConflictsPass DEF TimelineHolds
<1> QED
  BY <1>1, TimelineInvariant, PTL

=============================================================================
