--------------------------- MODULE AgentIdentity ---------------------------
(***************************************************************************)
(* Agent identities, their version history, their hash-chained audit log,  *)
(* copy-on-write branches and forks: the AgentStore part of                *)
(* redis_store.rs with the HTTP handlers of routes.rs that call it.        *)
(*                                                                         *)
(* Nothing in this store is transactional: see StoreRequests.              *)
(*                                                                         *)
(* Cores are opaque except for what register_agent inserts into them.      *)
(* Validation of names and cores and the role checks only refuse requests, *)
(* so the requests here are those that pass them.  An event hash covers    *)
(* the hash before it and the time of the event: it is identified with the *)
(* number of the event in order of creation.                               *)
(***************************************************************************)
EXTENDS StoreRequests, SequencesExt

CONSTANTS Agents,         \* agent ids named by requests
          Forks,          \* agent ids that only fork_agent creates
          Branches,       \* branch names
          CoreValues,     \* identity cores sent by clients
          MaxExperience   \* bound: experience events


VARIABLES
    identity,     \* agent_identity:<id>, or NoDoc
    snapshots,    \* agent_identity_version:<id>:<v>, or NoCore
    versions,     \* agent_identity_versions:<id>
    agents,       \* the global registry of agents
    events,       \* agent_identity_audit_event documents, oldest first
    audit,        \* agent_identity_audit:<id>, the index of the events
    branchMeta,   \* agent_branch:<agent>:<name>: "none", "open" or "merged"
    branchIndex,  \* agent_branches:<agent>
    experience,   \* experience documents, and the agents whose index has them
    forked,       \* what fork_agent stores under keys of its own
    agentPast     \* what the properties remember: deleted ids, applied merges,
                  \* ids whose current core was edited under the version it has

identityVars == <<identity, snapshots, versions, agents>>
auditVars    == <<events, audit>>
branchVars   == <<branchMeta, branchIndex>>
experienceVars == <<experience, forked>>
agentVars    == <<identityVars, auditVars, branchVars, experienceVars, agentPast>>

BranchIds == Agents \X Branches
Ids       == Agents \cup Forks \cup BranchIds

\* The key of a branch is made of the names of agent and branch.
ASSUME AgentAssumption ==
    /\ IsFiniteSet(Agents) /\ IsFiniteSet(Branches) /\ MaxExperience \in Nat
    /\ Agents \cap Forks = {} /\ BranchIds \cap (Agents \cup Forks) = {}

MaxVersion == MaxRequests + 1

Core    == [value : CoreValues \cup {"empty"}, described : BOOLEAN]
NoCore  == [value |-> "none", described |-> FALSE]
Empty   == [value |-> "empty", described |-> FALSE]
Plain(c) == [value |-> c, described |-> FALSE]

NoDoc   == [version |-> 0, core |-> NoCore]

\* AgentIdentityProfile::new
NewProfile == [version |-> 1, core |-> Empty]

\* The locals of a request: the document it works on, the event it links
\* to and the event it adds.
Locals(core) == [version |-> 0, core |-> core, prev |-> 0, event |-> 0]

-----------------------------------------------------------------------------
(* The commands of a request, and the functions they are grouped in.       *)

\* Mutant: a version is listed before its document is stored.
persist_identity_snapshotListed(id, doc) ==
    Cmd("setCurrent", id, doc) \o Cmd("addVersion", id, doc) \o Cmd("setVersion", id, doc)

\* persist_identity_snapshot: the current document, the document of this
\* version, the index of versions.
persist_identity_snapshot(id, doc) ==
    Cmd("setCurrent", id, doc) \o Cmd("setVersion", id, doc) \o Cmd("addVersion", id, doc)

\* append_identity_audit: the last event of the index, the new event linked
\* to it, the index.
append_identity_audit(id, action) ==
    Cmd("readTail", id, action) \o Cmd("setEvent", id, action) \o Cmd("addEvent", id, action)

\* What get_agent_identity and register_agent do about an agent they do not
\* find: a first version, its event and, last, the registry.
CreateIdentity(id, doc) ==
    persist_identity_snapshot(id, doc) \o append_identity_audit(id, "Created")

\* update_agent_identity
update_agent_identity(id) ==
    Cmd("get", id, "update") \o persist_identity_snapshot(id, "edited")
        \o append_identity_audit(id, "Updated")

\* Mutant: a rollback is not audited.
rollback_agent_identityUnaudited(id, v) ==
    Cmd("readVersion", id, v) \o Cmd("get", id, "update") \o persist_identity_snapshot(id, "edited")

\* rollback_agent_identity: an update whose core is an old snapshot.
rollback_agent_identity(id, v) ==
    Cmd("readVersion", id, v) \o Cmd("get", id, "update")
        \o persist_identity_snapshot(id, "edited")
        \o append_identity_audit(id, "RolledBack")

\* delete_agent
delete_agent(id) ==
    Cmd("needIdentity", id, "-") \o Cmd("delCurrent", id, "-") \o Cmd("remAgent", id, "-")

\* create_agent_branch, with or without a core of its own.
create_agent_branch(bid, how) ==
    Cmd("needNoBranch", bid, "-") \o Cmd("get", bid[1], how)
        \o Cmd("setCurrent", bid, "edited") \o Cmd("setMeta", bid, "open")
        \o Cmd("addBranch", bid, "-") \o append_identity_audit(bid[1], "BranchCreated")

\* get_agent_branch
get_agent_branch(bid) == Cmd("needBranch", bid, "-") \o Cmd("get", bid, "see")

\* update_agent_branch
update_agent_branch(bid) == Cmd("needUnmerged", bid, "-") \o update_agent_identity(bid)

\* merge_agent_branch: the core of the branch becomes an update of the parent.
merge_agent_branch(bid) ==
    Cmd("needUnmerged", bid, "-") \o Cmd("get", bid, "take") \o Cmd("get", bid[1], "see")
        \o update_agent_identity(bid[1]) \o Cmd("setMeta", bid, "merged")
        \o append_identity_audit(bid[1], "BranchMerged")

\* delete_agent_branch
delete_agent_branch(bid) ==
    Cmd("needBranch", bid, "-") \o Cmd("delCurrent", bid, "-") \o Cmd("delMeta", bid, "-")
        \o Cmd("remBranch", bid, "-") \o Cmd("get", bid[1], "see")
        \o append_identity_audit(bid[1], "BranchDeleted")

\* fork_agent: the new identity is stored twice, experience and the first
\* event of the new agent go under keys of their own.
fork_agent(id, new, how) ==
    Cmd("needNoIdentity", new, "-") \o Cmd("get", id, how)
        \o Cmd("setCurrent", new, "first") \o persist_identity_snapshot(new, "first")
        \o Cmd("copyExperience", new, id) \o Cmd("setLineage", new, id)
        \o Cmd("setForkEvent", new, "-") \o append_identity_audit(id, "Forked")

-----------------------------------------------------------------------------

\* The store is empty, or the agents are registered, with or without a
\* branch that has a core of its own and an experience event of one of them.
InitAgents ==
    \E present \in BOOLEAN, open \in SUBSET BranchIds, taught \in SUBSET Agents, c \in CoreValues :
      LET here  == IF present THEN Agents ELSE {}
          first == SetToSeq({[agent |-> a, action |-> "Created", prev |-> 0, to |-> 1] : a \in here})
          number(a) == CHOOSE i \in 1..Len(first) : first[i].agent = a
          later == SetToSeq({[agent |-> b[1], action |-> "BranchCreated",
                              prev |-> number(b[1]), to |-> 1] : b \in open})
      IN
      /\ {b[1] : b \in open} \subseteq here
      /\ \A b, d \in open : b[1] = d[1] => b = d
      /\ taught \subseteq here /\ Cardinality(taught) <= MaxExperience
      /\ identity = [id \in Ids |-> CASE id \in here -> NewProfile
                                     [] id \in open -> [version |-> 1, core |-> Plain(c)]
                                     [] OTHER -> NoDoc]
      /\ snapshots = [id \in Ids |-> [v \in 1..MaxVersion |->
                        IF id \in here /\ v = 1 THEN Empty ELSE NoCore]]
      /\ versions = [id \in Ids |-> IF id \in here THEN {1} ELSE {}]
      /\ agents = here
      /\ events = first \o later
      /\ audit = [id \in Ids |-> {i \in 1..Len(first \o later) : (first \o later)[i].agent = id}]
      /\ branchMeta = [b \in BranchIds |-> IF b \in open THEN "open" ELSE "none"]
      /\ branchIndex = open
      /\ experience = [stored |-> 1..Cardinality(taught),
                       index |-> [id \in Ids |-> {i \in 1..Cardinality(taught) :
                                                   id = SetToSeq(taught)[i]}]]
      /\ forked = [copies |-> [f \in Forks |-> {}], lineage |-> {}, events |-> {}]
      /\ agentPast = [deleted |-> {}, merges |-> {}, edited |-> {}]

Ask(r, todo, core) == Start(r, todo, Locals(core)) /\ UNCHANGED agentVars

RegisterAgent(r, id, described) ==
    Ask(r, Cmd("register", id, described) \o Cmd("addAgent", id, "-"),
          [Empty EXCEPT !.described = described])
GetIdentity(r, id)       == Ask(r, Cmd("get", id, "see"), NoCore)
UpdateIdentity(r, id, c) == Ask(r, update_agent_identity(id), Plain(c))
RollbackIdentity(r, id, v) == Ask(r, rollback_agent_identity(id, v), NoCore)
DeleteAgent(r, id)       == Ask(r, delete_agent(id), NoCore)
AddExperience(r, id)     ==
    Ask(r, Cmd("setExperience", id, "-") \o Cmd("addExperience", id, "-"), NoCore)
CreateBranch(r, b)       == Ask(r, create_agent_branch(b, "copy"), NoCore)
CreateBranchWith(r, b, c) == Ask(r, create_agent_branch(b, "see"), Plain(c))
GetBranch(r, b)          == Ask(r, get_agent_branch(b), NoCore)
UpdateBranch(r, b, c)    == Ask(r, update_agent_branch(b), Plain(c))
MergeBranch(r, b)        == Ask(r, merge_agent_branch(b), NoCore)
DeleteBranch(r, b)       == Ask(r, delete_agent_branch(b), NoCore)
ForkAgent(r, id, f)      == Ask(r, fork_agent(id, f, "copy"), NoCore)
ForkAgentWith(r, id, f, c) == Ask(r, fork_agent(id, f, "see"), Plain(c))

-----------------------------------------------------------------------------
(* The commands.                                                           *)

\* What the caller of get_agent_identity takes from the document it returns.
Taken(q, how, doc) ==
    CASE how = "see"    -> [q EXCEPT !.version = doc.version]
      [] how = "take"   -> [q EXCEPT !.core = doc.core]
      [] how = "copy"   -> [q EXCEPT !.version = doc.version, !.core = doc.core]
      [] how = "update" -> [q EXCEPT !.version = doc.version + 1]

\* get_agent_identity: an agent that does not exist is created.
Get(r) ==
    /\ At(r, "get")
    /\ LET id == This(r).id IN
       IF identity[id] # NoDoc
       THEN Sent(r, Taken(Loc(r), This(r).how, identity[id]))
       ELSE Insert(r, CreateIdentity(id, "new") \o Cmd("addAgent", id, "-")
                        \o Cmd("use", id, This(r).how), Loc(r))
    /\ UNCHANGED <<identityVars, auditVars, branchVars, experienceVars, agentPast>>

\* ... and the profile it created is returned without being read again.
Use(r) ==
    /\ At(r, "use")
    /\ Sent(r, Taken(Loc(r), This(r).how, NewProfile))
    /\ UNCHANGED <<identityVars, auditVars, branchVars, experienceVars, agentPast>>

\* register_agent: a description goes into the core of an agent that exists,
\* under the version it has; an agent that does not exist is created with it.
Register(r) ==
    /\ At(r, "register")
    /\ LET id == This(r).id  described == This(r).how IN
       IF identity[id] = NoDoc
       THEN Insert(r, CreateIdentity(id, "first"), Loc(r))
       ELSE IF described
       THEN Insert(r, Cmd("setCurrent", id, "edited"),
                   [Loc(r) EXCEPT !.version = identity[id].version,
                                  !.core = [identity[id].core EXCEPT !.described = TRUE]])
       ELSE Done(r)
    /\ UNCHANGED <<identityVars, auditVars, branchVars, experienceVars, agentPast>>

\* The document a request stores.
Doc(r) ==
    CASE This(r).how = "new"    -> NewProfile
      [] This(r).how = "first"  -> [version |-> 1, core |-> Loc(r).core]
      [] This(r).how = "edited" -> [version |-> Loc(r).version, core |-> Loc(r).core]

\* The branch the request is merging, if it is.
MergeOf(r) == {b \in BranchIds : \E i \in DOMAIN request[r].todo :
                 request[r].todo[i] = [do |-> "setMeta", id |-> b, how |-> "merged"]}

\* The request stores the current document and no version of it.
KeepsVersion(r) == \A i \in DOMAIN request[r].todo : request[r].todo[i].do # "setVersion"

SetCurrent(r) ==
    /\ At(r, "setCurrent")
    /\ identity' = [identity EXCEPT ![This(r).id] = Doc(r)]
    /\ Done(r)
    /\ agentPast' = [agentPast EXCEPT
          !.merges = @ \cup {b \in MergeOf(r) : This(r).id = b[1] /\ This(r).how = "edited"},
          !.edited = IF KeepsVersion(r) THEN @ \cup {This(r).id} ELSE @ \ {This(r).id}]
    /\ UNCHANGED <<snapshots, versions, agents, auditVars, branchVars, experienceVars>>

SetVersion(r) ==
    /\ At(r, "setVersion")
    /\ snapshots' = [snapshots EXCEPT ![This(r).id][Doc(r).version] = Doc(r).core]
    /\ Done(r)
    /\ UNCHANGED <<identity, versions, agents, auditVars, branchVars, experienceVars, agentPast>>

AddVersion(r) ==
    /\ At(r, "addVersion")
    /\ versions' = [versions EXCEPT ![This(r).id] = @ \cup {Doc(r).version}]
    /\ Done(r)
    /\ UNCHANGED <<identity, snapshots, agents, auditVars, branchVars, experienceVars, agentPast>>

\* Mutant: a version that was never stored is taken for an empty core.
ReadVersionUnchecked(r) ==
    /\ At(r, "readVersion")
    /\ Sent(r, [Loc(r) EXCEPT !.core = snapshots[This(r).id][This(r).how]])
    /\ UNCHANGED <<identityVars, auditVars, branchVars, experienceVars, agentPast>>

\* rollback_agent_identity reads the snapshot it goes back to.
ReadVersion(r) ==
    /\ At(r, "readVersion")
    /\ LET core == snapshots[This(r).id][This(r).how] IN
       IF core = NoCore THEN Refuse(r) ELSE Sent(r, [Loc(r) EXCEPT !.core = core])
    /\ UNCHANGED <<identityVars, auditVars, branchVars, experienceVars, agentPast>>

AddAgent(r) ==
    /\ At(r, "addAgent")
    /\ agents' = agents \cup {This(r).id}
    /\ Done(r)
    /\ UNCHANGED <<identity, snapshots, versions, auditVars, branchVars, experienceVars, agentPast>>

\* Mutant: the index is read from the wrong end.
TailingOldest(id) == IF audit[id] = {} THEN 0 ELSE CHOOSE e \in audit[id] : \A f \in audit[id] : e <= f

\* The last event the index has, whose hash the new event will name.
Tailing(id) == IF audit[id] = {} THEN 0 ELSE CHOOSE e \in audit[id] : \A f \in audit[id] : f <= e

ReadTail(r) ==
    /\ At(r, "readTail")
    /\ Sent(r, [Loc(r) EXCEPT !.prev = Tailing(This(r).id)])
    /\ UNCHANGED <<identityVars, auditVars, branchVars, experienceVars, agentPast>>

SetEvent(r) ==
    /\ At(r, "setEvent")
    /\ events' = Append(events,
         [agent |-> This(r).id, action |-> This(r).how, prev |-> Loc(r).prev,
          to |-> IF This(r).how = "Created" THEN 1 ELSE Loc(r).version])
    /\ Sent(r, [Loc(r) EXCEPT !.event = Len(events) + 1])
    /\ UNCHANGED <<identityVars, audit, branchVars, experienceVars, agentPast>>

AddEvent(r) ==
    /\ At(r, "addEvent")
    /\ audit' = [audit EXCEPT ![This(r).id] = @ \cup {Loc(r).event}]
    /\ Sent(r, [Loc(r) EXCEPT !.prev = 0, !.event = 0])
    /\ UNCHANGED <<identityVars, events, branchVars, experienceVars, agentPast>>

\* The conditions that refuse a request after its first read.
Holds(do, id) ==
    CASE do = "needIdentity"   -> identity[id] # NoDoc
      [] do = "needNoIdentity" -> identity[id] = NoDoc
      [] do = "needBranch"     -> branchMeta[id] # "none"
      [] do = "needNoBranch"   -> branchMeta[id] = "none"
      [] do = "needUnmerged"   -> branchMeta[id] = "open"

Need(r) ==
    /\ \E do \in {"needIdentity", "needNoIdentity", "needBranch", "needNoBranch", "needUnmerged"} :
         /\ At(r, do)
         /\ IF Holds(do, This(r).id) THEN Done(r) ELSE Refuse(r)
    /\ UNCHANGED <<identityVars, auditVars, branchVars, experienceVars, agentPast>>

DelCurrent(r) ==
    /\ At(r, "delCurrent")
    /\ identity' = [identity EXCEPT ![This(r).id] = NoDoc]
    /\ agentPast' = [agentPast EXCEPT !.deleted = @ \cup {This(r).id}]
    /\ Done(r)
    /\ UNCHANGED <<snapshots, versions, agents, auditVars, branchVars, experienceVars>>

RemAgent(r) ==
    /\ At(r, "remAgent")
    /\ agents' = agents \ {This(r).id}
    /\ Done(r)
    /\ UNCHANGED <<identity, snapshots, versions, auditVars, branchVars, experienceVars, agentPast>>

\* Branch metadata.  merge_agent_branch stores the copy it read, marked
\* merged, whatever became of the branch meanwhile.
SetMeta(r) ==
    /\ At(r, "setMeta")
    /\ branchMeta' = [branchMeta EXCEPT ![This(r).id] = This(r).how]
    /\ agentPast' = [agentPast EXCEPT
          !.merges = IF This(r).how = "open" THEN @ \ {This(r).id} ELSE @]
    /\ Done(r)
    /\ UNCHANGED <<identityVars, auditVars, branchIndex, experienceVars>>

DelMeta(r) ==
    /\ At(r, "delMeta")
    /\ branchMeta' = [branchMeta EXCEPT ![This(r).id] = "none"]
    /\ Done(r)
    /\ UNCHANGED <<identityVars, auditVars, branchIndex, experienceVars, agentPast>>

AddBranch(r) ==
    /\ At(r, "addBranch")
    /\ branchIndex' = branchIndex \cup {This(r).id}
    /\ Done(r)
    /\ UNCHANGED <<identityVars, auditVars, branchMeta, experienceVars, agentPast>>

RemBranch(r) ==
    /\ At(r, "remBranch")
    /\ branchIndex' = branchIndex \ {This(r).id}
    /\ Done(r)
    /\ UNCHANGED <<identityVars, auditVars, branchMeta, experienceVars, agentPast>>

\* add_experience_event: the document, then the index of the agent.
SetExperience(r) ==
    /\ At(r, "setExperience")
    /\ Cardinality(experience.stored) < MaxExperience
    /\ LET e == Cardinality(experience.stored) + 1 IN
       /\ experience' = [experience EXCEPT !.stored = @ \cup {e}]
       /\ Sent(r, [Loc(r) EXCEPT !.event = e])
    /\ UNCHANGED <<identityVars, auditVars, branchVars, forked, agentPast>>

IndexExperience(r) ==
    /\ At(r, "addExperience")
    /\ experience' = [experience EXCEPT !.index[This(r).id] = @ \cup {Loc(r).event}]
    /\ Done(r)
    /\ UNCHANGED <<identityVars, auditVars, branchVars, forked, agentPast>>

\* list_experience_events: the documents the index of the agent names.
list_experience_events(id) == experience.index[id] \cap experience.stored

\* Step 7 of fork_agent: copies of the events the filter lets through.  They
\* are stored under agent_experience:<new>:<id> and agent_experiences:<new>.
CopyExperience(r) ==
    /\ At(r, "copyExperience")
    /\ \E chosen \in SUBSET list_experience_events(This(r).how) :
         forked' = [forked EXCEPT !.copies[This(r).id] = @ \cup chosen]
    /\ Done(r)
    /\ UNCHANGED <<identityVars, auditVars, branchVars, experience, agentPast>>

\* Step 8: where the fork comes from.
SetLineage(r) ==
    /\ At(r, "setLineage")
    /\ forked' = [forked EXCEPT !.lineage = @ \cup {<<This(r).id, This(r).how>>}]
    /\ Done(r)
    /\ UNCHANGED <<identityVars, auditVars, branchVars, experience, agentPast>>

\* Step 9: the first event of the fork, under agent_audit:<new>:<id>.
SetForkEvent(r) ==
    /\ At(r, "setForkEvent")
    /\ forked' = [forked EXCEPT !.events = @ \cup {This(r).id}]
    /\ Done(r)
    /\ UNCHANGED <<identityVars, auditVars, branchVars, experience, agentPast>>

AgentRequests ==
    \E r \in Requests :
      \/ \E id \in Agents :
           \/ \E described \in BOOLEAN : RegisterAgent(r, id, described)
           \/ GetIdentity(r, id)
           \/ \E c \in CoreValues : UpdateIdentity(r, id, c)
           \/ \E v \in 1..MaxVersion : RollbackIdentity(r, id, v)
           \/ DeleteAgent(r, id)
           \/ AddExperience(r, id)
           \/ \E f \in Forks : ForkAgent(r, id, f)
           \/ \E f \in Forks, c \in CoreValues : ForkAgentWith(r, id, f, c)
      \/ \E b \in BranchIds :
           \/ CreateBranch(r, b) \/ GetBranch(r, b) \/ MergeBranch(r, b) \/ DeleteBranch(r, b)
           \/ \E c \in CoreValues : CreateBranchWith(r, b, c) \/ UpdateBranch(r, b, c)

AgentCommands ==
    \E r \in Requests :
      \/ Get(r) \/ Use(r) \/ Register(r) \/ Need(r)
      \/ SetCurrent(r) \/ SetVersion(r) \/ AddVersion(r) \/ ReadVersion(r) \/ AddAgent(r)
      \/ ReadTail(r) \/ SetEvent(r) \/ AddEvent(r) \/ DelCurrent(r) \/ RemAgent(r)
      \/ SetMeta(r) \/ DelMeta(r) \/ AddBranch(r) \/ RemBranch(r)
      \/ SetExperience(r) \/ IndexExperience(r) \/ CopyExperience(r)
      \/ SetLineage(r) \/ SetForkEvent(r)
      \/ CommandFails(r) /\ UNCHANGED agentVars

-----------------------------------------------------------------------------
(* Properties                                                              *)

\* verify_audit_chain over the events the index has, oldest first: the first
\* names no event, each of the others the one before it.
verify_audit_chain(id) ==
    \A e \in audit[id] :
      LET before == {f \in audit[id] : f < e} IN
      events[e].prev = IF before = {} THEN 0
                       ELSE CHOOSE f \in before : \A g \in before : g <= f

AgentTypeOK ==
    /\ \A id \in Ids : /\ identity[id] = NoDoc \/ identity[id] \in [version : 1..MaxVersion, core : Core]
                      /\ versions[id] \subseteq 1..MaxVersion
                      /\ audit[id] \subseteq 1..Len(events)
    /\ snapshots \in [Ids -> [1..MaxVersion -> Core \cup {NoCore}]]
    /\ agents \subseteq Ids /\ branchIndex \subseteq BranchIds
    /\ branchMeta \in [BranchIds -> {"none", "open", "merged"}]
    /\ experience.stored \subseteq 1..MaxExperience

\* As long as requests run one after the other the audit log of every agent
\* verifies, failed requests, deleted agents and agents created again
\* included.  (Two appends at a time link to the same event, and the log
\* never verifies again.)
ChainUnlessOverlapped ==
    ~tally.overlapped => \A id \in Ids : verify_audit_chain(id)

\* As long as requests run one after the other, the history of an agent that
\* was never deleted has every version up to the current one but for one per
\* failed command, what the index names can be read, and the snapshot of the
\* current version is the current core.  One edit is in no snapshot and no
\* event: register_agent writes a description into the core of an agent that
\* exists, under the version it has (redis_store.rs:964-972).  Only after that
\* may the current core have a description that its snapshot lacks, and
\* nothing else differs.  (API.md:1687 calls the history append-only.)  A
\* branch is marked merged only after its core was stored as the identity of
\* its parent.
Kept(id) ==
    LET doc == identity[id]  snapshot == snapshots[id][doc.version] IN
    /\ Cardinality((1..doc.version) \ versions[id]) <= tally.faults
    /\ \A v \in versions[id] : snapshots[id][v] # NoCore
    /\ doc.version \in versions[id] =>
         \/ snapshot = doc.core
         \/ id \in agentPast.edited /\ [snapshot EXCEPT !.described = TRUE] = doc.core
HistoryIsKept ==
    /\ ~tally.overlapped /\ Busy = {} =>
         \A id \in (Agents \cup Forks) \ agentPast.deleted : identity[id] # NoDoc => Kept(id)
    /\ ~tally.overlapped =>
         \A b \in BranchIds : branchMeta[b] = "merged" => b \in agentPast.merges

\* However requests overlap, a version of an agent's history has an event
\* that announces it, unless the request that stored it still has to append
\* the event or failed before.  (The first version of a fork is announced
\* under other keys.)
Announces(r, id, v) ==
    \E i \in DOMAIN request[r].todo :
      request[r].todo[i].do = "addEvent" /\ request[r].todo[i].id = id
VersionsAnnounced ==
    tally.faults = 0 =>
      \A id \in Ids : \A v \in versions[id] :
        \/ \E e \in audit[id] : events[e].to = v
        \/ \E r \in Busy : Announces(r, id, v)
        \/ id \in Forks /\ v = 1

\* What an agent was can be told from its history and its audit log.
HistoryIsTold == HistoryIsKept /\ VersionsAnnounced
=============================================================================
