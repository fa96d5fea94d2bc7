------------------------------ MODULE Records ------------------------------
(***************************************************************************)
(* Records that clients keep under a name or an id: memory views,          *)
(* guardrail rules, goal profiles and narratives (the handlers of          *)
(* routes.rs over ViewStore, GuardrailStore, GoalStore and NarrativeStore  *)
(* of redis_store.rs).  A record is a JSON document and, by kind, entries  *)
(* in indexes; of its contents the model keeps the name.  The per-user     *)
(* index of guardrails is written and never read: its commands appear as   *)
(* steps that may fail and change nothing.                                 *)
(***************************************************************************)
EXTENDS StoreRequests

CONSTANTS ViewNames,     \* names, which are the keys of views
          GuardrailIds,  \* ids of guardrails, never used twice
          GoalIds,       \* ids of goals of one user, never used twice
          Narrated,      \* users that may have a narrative
          RecordNames    \* names of guardrails and goals

VARIABLES docs,        \* memory_view:<name>, guardrail:<id>, goal:<id>, narrative:<user>
          listed,      \* memory_views, guardrails, user_goals:<user>
          goalNames,   \* goal_name:<user>:<name>
          recordPast   \* what the properties remember

recordVars == <<docs, listed, goalNames, recordPast>>

Keyed(kind, ids) == {kind} \X ids
RecordKeys == Keyed("view", ViewNames) \cup Keyed("guardrail", GuardrailIds)
                \cup Keyed("goal", GoalIds) \cup Keyed("narrative", Narrated)
Indexed(k) == k[1] # "narrative"

NoName   == "-"
NoRecord == <<"none", 0>>

ASSUME RecordAssumption == RecordNames # {} /\ NoName \notin RecordNames

\* No records, or the first of a kind, created earlier.
InitRecords ==
    \E kept \in {{}} \cup {{k} : k \in RecordKeys}, n \in RecordNames :
      /\ docs = [k \in RecordKeys |-> IF k \in kept THEN n ELSE NoName]
      /\ listed = {k \in kept : Indexed(k)}
      /\ goalNames = [m \in RecordNames |->
           IF m = n /\ \E k \in kept : k[1] = "goal" THEN CHOOSE k \in kept : TRUE ELSE NoRecord]
      /\ recordPast = [used |-> kept, kept |-> kept, doomed |-> {}, gone |-> {}, renamed |-> FALSE]

\* Locals: the name to store, and whether the request makes the record.
RecordLocals(n, makes) == [name |-> n, makes |-> makes]

AskRecord(r, todo, loc) == Start(r, todo, loc) /\ UNCHANGED recordVars

\* A guardrail or goal gets a new id.
Unused(k) == k \notin recordPast.used
               /\ \A q \in Busy : \A i \in DOMAIN request[q].todo : request[q].todo[i].id # k

CreateView(r, k) ==
    AskRecord(r, Cmd("recordNone", k, "-") \o Cmd("recordSet", k, "-") \o Cmd("recordList", k, "-"),
              RecordLocals(CHOOSE n \in RecordNames : TRUE, TRUE))
UpdateView(r, k) ==
    AskRecord(r, Cmd("recordNeed", k, "-") \o Cmd("recordSet", k, "-"),
              RecordLocals(CHOOSE n \in RecordNames : TRUE, FALSE))
DeleteView(r, k) ==
    AskRecord(r, Cmd("recordNeed", k, "-") \o Cmd("recordUnlist", k, "-") \o Cmd("recordDel", k, "-"),
              RecordLocals(NoName, FALSE))

\* A guardrail is scoped to a user, or not.
Scope(k, user) == IF user THEN Cmd("userIndex", k, "-") ELSE <<>>

CreateGuardrail(r, k, n) ==
    /\ Unused(k)
    /\ \E user \in BOOLEAN :
         AskRecord(r, Cmd("nameFree", k, n) \o Cmd("recordSet", k, "-") \o Cmd("recordList", k, "-")
                        \o Scope(k, user), RecordLocals(n, TRUE))
UpdateGuardrail(r, k, n) ==
    AskRecord(r, Cmd("recordNeed", k, "-") \o Cmd("recordSet", k, "-") \o Cmd("recordList", k, "-"),
              RecordLocals(n, FALSE))
DeleteGuardrail(r, k) ==
    \E user \in BOOLEAN :
      AskRecord(r, Cmd("recordNeed", k, "-") \o Cmd("recordRead", k, "-") \o Scope(k, user)
                     \o Cmd("recordUnlist", k, "-") \o Cmd("recordDel", k, "-"), RecordLocals(NoName, FALSE))

\* The three commands of save_goal_profile.
save_goal_profile(k) == Cmd("recordSet", k, "-") \o Cmd("recordList", k, "-") \o Cmd("goalName", k, "-")

CreateGoal(r, k, n) ==
    /\ Unused(k)
    /\ AskRecord(r, Cmd("goalNone", k, n) \o save_goal_profile(k), RecordLocals(n, TRUE))
\* An update keeps the name.
UpdateGoal(r, k) ==
    AskRecord(r, Cmd("recordRead", k, "need") \o save_goal_profile(k), RecordLocals(NoName, FALSE))
\* delete_goal_profile looks for the document itself.
DeleteGoal(r, k) ==
    AskRecord(r, Cmd("goalIndexes", k, "-") \o Cmd("recordDel", k, "-"), RecordLocals(NoName, FALSE))

\* refresh_narrative reads the narrative before and writes it after the
\* language model answers; without it and without summaries it is refused.
RefreshNarrative(r, k) ==
    AskRecord(r, Cmd("narrate", k, "-") \o Cmd("recordSet", k, "-"),
              RecordLocals(CHOOSE n \in RecordNames : TRUE, TRUE))
DeleteNarrative(r, k) == AskRecord(r, Cmd("recordDel", k, "-"), RecordLocals(NoName, FALSE))

-----------------------------------------------------------------------------

\* The document must be there, or must not be.
RecordNeed(r) ==
    /\ At(r, "recordNeed")
    /\ IF docs[This(r).id] = NoName THEN Refuse(r) ELSE Done(r)
    /\ UNCHANGED recordVars
RecordNone(r) ==
    /\ At(r, "recordNone")
    /\ IF docs[This(r).id] # NoName THEN Refuse(r) ELSE Done(r)
    /\ UNCHANGED recordVars

\* The document is read; update_goal_profile needs it.
RecordRead(r) ==
    /\ At(r, "recordRead")
    /\ LET n == docs[This(r).id] IN
       IF n = NoName /\ This(r).how = "need" THEN Refuse(r) ELSE Sent(r, [Loc(r) EXCEPT !.name = n])
    /\ UNCHANGED recordVars

\* Mutant: the name is not looked for.
NameFreeBlind(r) == At(r, "nameFree") /\ Done(r) /\ UNCHANGED recordVars

\* create_guardrail lists all rules and looks for the name.
NameFree(r) ==
    /\ At(r, "nameFree")
    /\ IF \E k \in listed : k[1] = "guardrail" /\ docs[k] = This(r).how THEN Refuse(r) ELSE Done(r)
    /\ UNCHANGED recordVars

\* get_goal_profile_by_name: the id under the name, then the document.
GoalNone(r) ==
    /\ At(r, "goalNone")
    /\ LET k == goalNames[This(r).how] IN
       IF k = NoRecord THEN Done(r) ELSE Continue(r, Cmd("recordNone", k, "-") \o Rest(r), Loc(r)) /\ UNCHANGED tally
    /\ UNCHANGED recordVars

Narrate(r) ==
    /\ At(r, "narrate")
    /\ Done(r) \/ Refuse(r)
    /\ UNCHANGED recordVars

\* A delete of the record has still to remove its document.
BeingDeleted(k) == \E q \in Busy : \E i \in DOMAIN request[q].todo : request[q].todo[i] = Cmd("recordDel", k, "-")[1]

\* What a command that stores something adds to the past: with the document
\* of a new record a former deletion is over, and what it had deleted is not
\* kept any more; with its last command the request is answered and the
\* record is kept from now on.
Stored(r, doc) ==
    LET k == This(r).id  makes == Loc(r).makes
        reborn == IF makes /\ doc /\ ~BeingDeleted(k) THEN recordPast.doomed \cap {k} ELSE {} IN
    [recordPast EXCEPT
       !.used = @ \cup {k}, !.gone = @ \ {k},
       !.kept = (@ \ reborn) \cup IF makes /\ Len(Rest(r)) = 0 THEN {k} ELSE {},
       !.doomed = @ \ reborn,
       !.renamed = @ \/ (k[1] = "guardrail" /\ ~makes)]

RecordSet(r) ==
    /\ At(r, "recordSet")
    /\ docs' = [docs EXCEPT ![This(r).id] = Loc(r).name]
    /\ recordPast' = Stored(r, TRUE)
    /\ Done(r)
    /\ UNCHANGED <<listed, goalNames>>

RecordList(r) ==
    /\ At(r, "recordList")
    /\ listed' = listed \cup {This(r).id}
    /\ recordPast' = Stored(r, FALSE)
    /\ Done(r)
    /\ UNCHANGED <<docs, goalNames>>

GoalName(r) ==
    /\ At(r, "goalName")
    /\ goalNames' = [goalNames EXCEPT ![Loc(r).name] = This(r).id]
    /\ recordPast' = Stored(r, FALSE)
    /\ Done(r)
    /\ UNCHANGED <<docs, listed>>

UserIndex(r) ==
    /\ At(r, "userIndex")
    /\ recordPast' = IF Loc(r).makes THEN Stored(r, FALSE) ELSE recordPast
    /\ Done(r)
    /\ UNCHANGED <<docs, listed, goalNames>>

Doomed(k) == [recordPast EXCEPT !.doomed = @ \cup {k}]

\* delete_goal_profile cleans the indexes of a document it finds.
GoalIndexes(r) ==
    /\ At(r, "goalIndexes")
    /\ LET k == This(r).id  n == docs[k] IN
       IF n = NoName THEN Done(r)
       ELSE Insert(r, Cmd("recordUnlist", k, "-") \o Cmd("goalUnname", k, n), Loc(r))
    /\ UNCHANGED recordVars

RecordUnlist(r) ==
    /\ At(r, "recordUnlist")
    /\ listed' = listed \ {This(r).id}
    /\ recordPast' = Doomed(This(r).id)
    /\ Done(r)
    /\ UNCHANGED <<docs, goalNames>>

GoalUnname(r) ==
    /\ At(r, "goalUnname")
    /\ goalNames' = [goalNames EXCEPT ![This(r).how] = NoRecord]
    /\ Done(r)
    /\ UNCHANGED <<docs, listed, recordPast>>

RecordDel(r) ==
    /\ At(r, "recordDel")
    /\ LET k == This(r).id IN
       /\ docs' = [docs EXCEPT ![k] = NoName]
       /\ recordPast' = [Doomed(k) EXCEPT !.kept = @ \ {k}, !.gone = @ \cup {k}]
    /\ Done(r)
    /\ UNCHANGED <<listed, goalNames>>

\* A client knows the ids it was told, or saw in a listing.
KnownRecords(kind) == {k \in recordPast.kept \cup recordPast.gone \cup listed : k[1] = kind}

NextRecords ==
    \E r \in Requests :
      \/ \E k \in Keyed("view", ViewNames) : CreateView(r, k) \/ UpdateView(r, k) \/ DeleteView(r, k)
      \/ \E k \in Keyed("guardrail", GuardrailIds), n \in RecordNames : CreateGuardrail(r, k, n)
      \/ \E k \in KnownRecords("guardrail") :
           DeleteGuardrail(r, k) \/ \E n \in RecordNames : UpdateGuardrail(r, k, n)
      \/ \E k \in Keyed("goal", GoalIds), n \in RecordNames : CreateGoal(r, k, n)
      \/ \E k \in KnownRecords("goal") : UpdateGoal(r, k) \/ DeleteGoal(r, k)
      \/ \E k \in Keyed("narrative", Narrated) : RefreshNarrative(r, k) \/ DeleteNarrative(r, k)
      \/ RecordNeed(r) \/ RecordNone(r) \/ RecordRead(r) \/ NameFree(r) \/ GoalNone(r) \/ Narrate(r)
      \/ UserIndex(r) \/ RecordSet(r) \/ RecordList(r) \/ GoalName(r)
      \/ GoalIndexes(r) \/ RecordUnlist(r) \/ GoalUnname(r) \/ RecordDel(r)
      \/ CommandFails(r) /\ UNCHANGED recordVars

RecordSpec == InitRequests /\ InitRecords /\ [][NextRecords]_<<requestVars, recordVars>>

-----------------------------------------------------------------------------
(* Properties                                                              *)

RecordTypeOK ==
    /\ docs \in [RecordKeys -> RecordNames \cup {NoName}]
    /\ listed \subseteq RecordKeys
    /\ goalNames \in [RecordNames -> RecordKeys \cup {NoRecord}]

\* A record whose creation was answered is readable and listed until a delete
\* of it begins, whatever other requests run or fail beside it.
KeptRecordsStay ==
    \A k \in recordPast.kept \ recordPast.doomed :
      docs[k] # NoName /\ (Indexed(k) => k \in listed)

\* Requests that run one after the other leave nothing of a deleted record.
DeletedRecordsAreGone ==
    ~tally.overlapped => \A k \in recordPast.gone :
      /\ docs[k] = NoName /\ k \notin listed
      /\ \A n \in RecordNames : goalNames[n] # k

\* When they do not fail either, a goal's name leads to it, and no two goals
\* share one; listed guardrails share one only after an update.
NamesTell ==
    ~tally.overlapped =>
      /\ tally.faults = 0 => \A k \in recordPast.kept : k[1] = "goal" =>
           k \in recordPast.doomed \/ goalNames[docs[k]] = k
      /\ ~recordPast.renamed => \A k, l \in listed :
           k[1] = "guardrail" /\ l[1] = "guardrail" /\ docs[k] = docs[l] /\ docs[k] # NoName => k = l

RecordsHold == KeptRecordsStay /\ DeletedRecordsAreGone /\ NamesTell
=============================================================================
