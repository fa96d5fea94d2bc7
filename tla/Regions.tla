------------------------------ MODULE Regions ------------------------------
(***************************************************************************)
(* Memory regions shared between agents and their access control entries   *)
(* (RegionStore of redis_store.rs with the handlers of routes.rs).  The    *)
(* pipelines of this store are sent as one unit over the connection that   *)
(* all requests share.  Names, filters and permission levels are opaque.   *)
(***************************************************************************)
EXTENDS StoreRequests, SequencesExt

CONSTANTS RegionIds,      \* ids of regions, never used twice
          RegionAgents,   \* agents
          MaxRegionClock  \* bound: time units that pass

VARIABLES regions,       \* region:<id>: the owner, or Nobody
          regionIndex,   \* regions and user_regions:<user>
          agentRegions,  \* agent_regions:<agent>
          acl,           \* region_acl_entry:<id>:<agent>: expires_at, or NoEntry
          aclIndex,      \* region_acl:<id>
          regionLog,     \* the governance audit rows of regions
          regionClock,
          regionPast     \* what the properties remember

regionVars == <<regions, regionIndex, agentRegions, acl, aclIndex, regionLog, regionClock, regionPast>>

Nobody  == "nobody"

ASSUME RegionAssumption == MaxRegionClock \in Nat /\ IsFiniteSet(RegionIds) /\ Nobody \notin RegionAgents

NoEntry == -1
Never   == MaxRegionClock + 1
Expiries == 1..Never
Pairs   == RegionIds \X RegionAgents

expired(e) == e # NoEntry /\ e # Never /\ regionClock >= e

\* There are no regions, or one that its owner has shared with another agent.
InitRegions ==
    \E shared \in SUBSET RegionIds, owner \in RegionAgents, with \in RegionAgents, e \in Expiries :
      /\ Cardinality(shared) <= 1 /\ owner # with
      /\ regions = [g \in RegionIds |-> IF g \in shared THEN owner ELSE Nobody]
      /\ regionIndex = shared
      /\ agentRegions = [a \in RegionAgents |-> IF a \in {owner, with} THEN shared ELSE {}]
      /\ acl = [p \in Pairs |-> IF p[1] \in shared /\ p[2] = with THEN e ELSE NoEntry]
      /\ aclIndex = [g \in RegionIds |-> IF g \in shared THEN {with} ELSE {}]
      /\ regionLog = {}
      /\ regionClock = 0
      /\ regionPast = [used |-> shared, deleted |-> {}, granted |-> acl, swept |-> {}, disowned |-> {}]

\* Locals: the owner in the document read, the expiry of the grant, the agents
\* or regions found.
RegionLocals == [owner |-> Nobody, expires |-> Never, agents |-> {}, old |-> {}]

AskRegion(r, todo, loc) == Start(r, todo, loc) /\ UNCHANGED regionVars

\* The id is new with every request.
CreateRegion(r, g, a) ==
    /\ g \notin regionPast.used
    /\ \A q \in Busy : ~(At(q, "regionSet") /\ This(q).id = g)
    /\ AskRegion(r, Cmd("regionSet", g, a) \o Cmd("regionLog", g, "region_created"), RegionLocals)
UpdateRegion(r, g, who) ==
    AskRegion(r, Cmd("regionOwned", g, who) \o Cmd("regionPut", g, "-"), RegionLocals)
DeleteRegion(r, g) ==
    AskRegion(r, Cmd("regionNeed", g, "-") \o Cmd("regionNeed", g, "-")
                   \o Cmd("aclList", g, "-") \o Cmd("regionDrop", g, "-"), RegionLocals)
GrantAccess(r, g, a, e, who) ==
    AskRegion(r, Cmd("regionOwned", g, who) \o Cmd("aclSet", g, a)
                   \o Cmd("regionLog", g, "region_access_granted"), [RegionLocals EXCEPT !.expires = e])
RevokeAccess(r, g, a, who) ==
    AskRegion(r, Cmd("regionOwned", g, who) \o Cmd("aclDrop", g, a)
                   \o Cmd("regionLog", g, "region_access_revoked"), RegionLocals)
ListAccessible(r, a) == AskRegion(r, Cmd("reach", a, "-") \o Cmd("sweep", a, "-"), RegionLocals)

-----------------------------------------------------------------------------

\* create_region: the document and its three indexes at once.
RegionSet(r) ==
    /\ At(r, "regionSet")
    /\ LET g == This(r).id  a == This(r).how IN
       /\ regions' = [regions EXCEPT ![g] = a]
       /\ regionIndex' = regionIndex \cup {g}
       /\ agentRegions' = [agentRegions EXCEPT ![a] = @ \cup {g}]
       /\ regionPast' = [regionPast EXCEPT !.used = @ \cup {g}]
    /\ Done(r)
    /\ UNCHANGED <<acl, aclIndex, regionLog, regionClock>>

\* The region exists; delete_region looks twice.
RegionNeed(r) ==
    /\ At(r, "regionNeed")
    /\ IF regions[This(r).id] = Nobody THEN Refuse(r) ELSE Sent(r, [Loc(r) EXCEPT !.owner = regions[This(r).id]])
    /\ UNCHANGED regionVars

\* The region exists and the caller is its owner or an admin; a grant to the
\* owner is refused.
RegionOwned(r) ==
    /\ At(r, "regionOwned")
    /\ LET g == This(r).id  who == This(r).how IN
       IF /\ regions[g] # Nobody
          /\ who \in {"admin", regions[g]}
          /\ Rest(r)[1].do = "aclSet" => Rest(r)[1].how # regions[g]
       THEN Sent(r, [Loc(r) EXCEPT !.owner = regions[g]])
       ELSE Refuse(r)
    /\ UNCHANGED regionVars

\* update_region stores the document it read, changed.
RegionPut(r) ==
    /\ At(r, "regionPut")
    /\ regions' = [regions EXCEPT ![This(r).id] = Loc(r).owner]
    /\ Done(r)
    /\ UNCHANGED <<regionIndex, agentRegions, acl, aclIndex, regionLog, regionClock, regionPast>>

AclList(r) ==
    /\ At(r, "aclList")
    /\ Sent(r, [Loc(r) EXCEPT !.agents = aclIndex[This(r).id]])
    /\ UNCHANGED regionVars

\* Phase 2 of delete_region: everything phase 1 found.
RegionDrop(r) ==
    /\ At(r, "regionDrop")
    /\ LET g == This(r).id IN
       /\ regions' = [regions EXCEPT ![g] = Nobody]
       /\ regionIndex' = regionIndex \ {g}
       /\ agentRegions' = [a \in RegionAgents |->
            IF a = Loc(r).owner \/ a \in Loc(r).agents THEN agentRegions[a] \ {g} ELSE agentRegions[a]]
       /\ acl' = [p \in Pairs |-> IF p[1] = g /\ p[2] \in Loc(r).agents THEN NoEntry ELSE acl[p]]
       /\ aclIndex' = [aclIndex EXCEPT ![g] = {}]
       /\ regionPast' = [regionPast EXCEPT !.deleted = @ \cup {g}]
    /\ Done(r)
    /\ UNCHANGED <<regionLog, regionClock>>

\* A listing of the agent's regions is in progress.
Sweeping(q, a) == \E i \in DOMAIN request[q].todo : request[q].todo[i] = Cmd("sweep", a, "-")[1]

\* grant_region_access: the entry and both indexes at once.
AclSet(r) ==
    /\ At(r, "aclSet")
    /\ LET g == This(r).id  a == This(r).how IN
       /\ acl' = [acl EXCEPT ![<<g, a>>] = Loc(r).expires]
       /\ aclIndex' = [aclIndex EXCEPT ![g] = @ \cup {a}]
       /\ agentRegions' = [agentRegions EXCEPT ![a] = @ \cup {g}]
       /\ regionPast' = [regionPast EXCEPT
            !.granted[<<g, a>>] = Loc(r).expires,
            !.swept = IF \E q \in Busy : Sweeping(q, a) /\ g \in Loc(q).old
                      THEN @ \cup {<<g, a>>} ELSE @]
    /\ Done(r)
    /\ UNCHANGED <<regions, regionIndex, regionLog, regionClock>>

\* revoke_region_access, of whichever agent is named.
AclDrop(r) ==
    /\ At(r, "aclDrop")
    /\ LET g == This(r).id  a == This(r).how IN
       /\ acl' = [acl EXCEPT ![<<g, a>>] = NoEntry]
       /\ aclIndex' = [aclIndex EXCEPT ![g] = @ \ {a}]
       /\ agentRegions' = [agentRegions EXCEPT ![a] = @ \ {g}]
       /\ regionPast' = [regionPast EXCEPT !.granted[<<g, a>>] = NoEntry,
                           !.disowned = IF regions[g] = a THEN @ \cup {g} ELSE @]
    /\ Done(r)
    /\ UNCHANGED <<regions, regionIndex, regionLog, regionClock>>

\* What list_agent_accessible_regions returns.
list_agent_accessible_regions(a) ==
    {g \in agentRegions[a] :
       IF acl[<<g, a>>] # NoEntry THEN ~expired(acl[<<g, a>>]) /\ regions[g] # Nobody
       ELSE regions[g] = a}

\* The listing reads the regions of the agent, then the entry of each; the
\* entries it found expired go when it has read them all.
Reach(r) ==
    /\ At(r, "reach")
    /\ LET a == This(r).id  seen == SetToSeq(agentRegions[a]) IN
       Insert(r, [i \in 1..Len(seen) |-> [do |-> "probe", id |-> seen[i], how |-> a]], Loc(r))
    /\ UNCHANGED regionVars

\* Mutant: an entry with a deadline is taken for expired.
ProbeHasty(r) ==
    /\ At(r, "probe")
    /\ LET g == This(r).id  e == acl[<<g, This(r).how>>] IN
       Sent(r, IF e # NoEntry /\ e # Never THEN [Loc(r) EXCEPT !.old = @ \cup {g}] ELSE Loc(r))
    /\ UNCHANGED regionVars

Probe(r) ==
    /\ At(r, "probe")
    /\ LET g == This(r).id IN
       Sent(r, IF expired(acl[<<g, This(r).how>>]) THEN [Loc(r) EXCEPT !.old = @ \cup {g}] ELSE Loc(r))
    /\ UNCHANGED regionVars

Sweep(r) ==
    /\ At(r, "sweep")
    /\ LET a == This(r).id IN
       /\ acl' = [p \in Pairs |-> IF p[2] = a /\ p[1] \in Loc(r).old THEN NoEntry ELSE acl[p]]
       /\ aclIndex' = [g \in RegionIds |-> IF g \in Loc(r).old THEN aclIndex[g] \ {a} ELSE aclIndex[g]]
       /\ agentRegions' = [agentRegions EXCEPT ![a] = @ \ Loc(r).old]
    /\ Done(r)
    /\ UNCHANGED <<regions, regionIndex, regionLog, regionClock, regionPast>>

\* append_governance_audit
LogRegion(r) ==
    /\ At(r, "regionLog")
    /\ regionLog' = regionLog \cup {<<This(r).id, This(r).how>>}
    /\ Done(r)
    /\ UNCHANGED <<regions, regionIndex, agentRegions, acl, aclIndex, regionClock, regionPast>>

RegionTick ==
    /\ regionClock < MaxRegionClock
    /\ regionClock' = regionClock + 1
    /\ UNCHANGED <<requestVars, regions, regionIndex, agentRegions, acl, aclIndex, regionLog, regionPast>>

NextRegions ==
    \/ RegionTick
    \/ \E r \in Requests :
         \/ \E g \in RegionIds :
              \/ \E a \in RegionAgents : CreateRegion(r, g, a)
              \/ DeleteRegion(r, g)
              \/ \E who \in RegionAgents \cup {"admin"} :
                   \/ UpdateRegion(r, g, who)
                   \/ \E a \in RegionAgents :
                        \/ \E e \in Expiries : GrantAccess(r, g, a, e, who)
                        \/ RevokeAccess(r, g, a, who)
         \/ \E a \in RegionAgents : ListAccessible(r, a)
         \/ RegionSet(r) \/ RegionNeed(r) \/ RegionOwned(r) \/ RegionPut(r)
         \/ AclList(r) \/ RegionDrop(r) \/ AclSet(r) \/ AclDrop(r) \/ Reach(r) \/ Probe(r) \/ Sweep(r)
         \/ LogRegion(r)
         \/ CommandFails(r) /\ UNCHANGED regionVars

RegionSpec == InitRequests /\ InitRegions /\ [][NextRegions]_<<requestVars, regionVars>>

-----------------------------------------------------------------------------
(* Properties                                                              *)

RegionTypeOK ==
    /\ regions \in [RegionIds -> RegionAgents \cup {Nobody}]
    /\ acl \in [Pairs -> {NoEntry} \cup Expiries]
    /\ regionIndex \subseteq RegionIds
    /\ \A a \in RegionAgents : agentRegions[a] \subseteq RegionIds

Alive(g) == regions[g] # Nobody /\ g \notin regionPast.deleted

\* An agent that was granted access reaches the region until the grant
\* expires or is revoked, unless a listing that had found an older grant
\* expired was still to remove it.
GrantsReach ==
    \A p \in Pairs :
      LET e == regionPast.granted[p] IN
      e # NoEntry /\ Alive(p[1]) /\ ~expired(e) /\ p \notin regionPast.swept =>
        p[1] \in list_agent_accessible_regions(p[2]) /\ p[2] \in aclIndex[p[1]]

\* The owner reaches its region, unless somebody revoked the owner's access.
OwnersReach ==
    \A g \in RegionIds : Alive(g) /\ g \notin regionPast.disowned =>
      g \in list_agent_accessible_regions(regions[g])

\* Requests that run one after the other leave nothing of a deleted region.
DeletedRegionsAreGone ==
    ~tally.overlapped => \A g \in regionPast.deleted :
      /\ regions[g] = Nobody /\ g \notin regionIndex /\ aclIndex[g] = {}
      /\ \A a \in RegionAgents : acl[<<g, a>>] = NoEntry /\ g \notin agentRegions[a]

RegionsAreReached == GrantsReach /\ OwnersReach /\ DeletedRegionsAreGone
=============================================================================
