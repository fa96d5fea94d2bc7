----------------------------- MODULE AgentProofs -----------------------------
(***************************************************************************)
(* Proofs about agents, their branches and forks, and promotion proposals, *)
(* for any number of requests, agents, branches, forks, proposals and      *)
(* approvers.  With everything overlapping and failing: what is stored     *)
(* keeps its type, and no candidate becomes an identity without its        *)
(* quorum; requests one after the other leave audit logs that verify.      *)
(* And about the records that tell agents what to do and what to show      *)
(* (views, guardrails, goals, narratives), with everything overlapping:    *)
(* what was created stays; one after the other, what was deleted is gone   *)
(* and names tell records apart.                                           *)
(***************************************************************************)
EXTENDS Promotions, Records, RequestProofs

-----------------------------------------------------------------------------
(* The commands of requests, and their order.                               *)

Uses == {"see", "take", "copy", "update"}
Stores == {"new", "first", "edited"}
Told == {"Created", "Updated", "RolledBack", "BranchCreated", "BranchMerged", "BranchDeleted", "Forked"}

IdentityCalls == [do : {"get", "use"}, id : Ids, how : Uses]
                   \cup [do : {"setCurrent", "setVersion", "addVersion"}, id : Ids, how : Stores]
                   \cup [do : {"readTail", "setEvent", "addEvent"}, id : Ids, how : Told]
                   \cup [do : {"delCurrent", "addAgent"}, id : Ids, how : {"-"}]
AgentCalls == [do : {"needIdentity", "remAgent", "setExperience", "addExperience", "needEvidence"},
               id : Agents, how : {"-"}]
                \cup [do : {"register"}, id : Agents, how : BOOLEAN]
                \cup [do : {"readVersion"}, id : Agents, how : 1 .. MaxVersion]
BranchCalls == [do : {"needBranch", "needNoBranch", "needUnmerged", "setMeta", "delMeta", "addBranch",
                      "remBranch"}, id : BranchIds, how : {"-", "open", "merged"}]
ForkCalls == [do : {"needNoIdentity", "copyExperience", "setLineage", "setForkEvent"},
              id : Forks, how : {"-"} \cup Agents]
PlainCommand == IdentityCalls \cup AgentCalls \cup BranchCalls \cup ForkCalls

Requirements == [PolicyLevels -> Requirement]
ProposalCalls ==
    [do : {"readProposal"}, id : Proposals, how : Agents]
      \cup [do : {"decide"}, id : Proposals, how : Approvers]
      \cup [do : {"applied"}, id : Proposals, how : Requirements]
      \cup [do : {"saveProposal"}, id : Proposals, how : {"pending", "approved", "rejected", "expired"}]
      \cup [do : {"setProposal"}, id : Proposals, how : Agents \X CoreValues \X Risks]
Logged == {"promotion_proposed", "promotion_rejected", "promotion_expired", "promotion_approved",
           "promotion_partial_approval", "approval_policy_set"}
PolicyCalls == [do : {"setPolicy"}, id : Agents, how : Requirements]
                 \cup [do : {"log"}, id : Proposals \cup Agents, how : Logged]

AgentCommand == PlainCommand \cup ProposalCalls \cup PolicyCalls

PromotionDo == {"readProposal", "decide", "applied", "saveProposal", "setProposal", "setPolicy", "log"}

\* Commands that refuse a request: nothing has been stored yet.
Refusing == {"needIdentity", "needNoIdentity", "needBranch", "needNoBranch", "needUnmerged",
             "readVersion", "needEvidence", "readProposal", "decide"}

\* An event is read, stored and indexed; a decision is saved and then logged.
MayFollow(x, y) ==
    /\ x.do = "readTail" => y.do = "setEvent" /\ y.id = x.id /\ y.how = x.how
    /\ x.do = "setEvent" => y.do = "addEvent" /\ y.id = x.id /\ y.how = x.how
    /\ y.do = "setEvent" => x.do = "readTail"
    /\ y.do = "addEvent" => x.do = "setEvent"
    /\ x.do = "readProposal" => y.id = x.id /\ (y.do = "decide" \/ (y.do = "saveProposal" /\ y.how = "rejected"))
    /\ x.do = "applied" => y.id = x.id /\ y.do = "saveProposal" /\ y.how = "approved"
    /\ x.do = "saveProposal" =>
         y.id = x.id /\ y.do = "log" /\ (x.how # "pending" => y.how = Announced[x.how])
    /\ x.do \in {"setProposal", "setPolicy"} => y.do = "log"
    /\ y.do = "applied" => x.do = "addEvent"
    /\ y.do = "decide" => x.do = "readProposal"
    /\ y.do = "saveProposal" => x.do \in {"readProposal", "applied"}
    /\ y.do = "setProposal" => x.do = "needEvidence"
    /\ y.do = "log" => x.do \in {"saveProposal", "setProposal", "setPolicy"}
    /\ y.do # "setPolicy" /\ y.do \notin Refusing \ {"decide"}
    /\ x.do \notin {"decide", "log"}

\* Nothing ends with these.
MayEnd(x) ==
    x.do \notin {"register", "readTail", "setEvent", "readProposal", "applied", "saveProposal",
                 "setProposal", "setPolicy"}

Chained(t) == \A i \in 1 .. Len(t) - 1 : MayFollow(t[i], t[i + 1])
InAgentOrder(t) == Chained(t) /\ (t # <<>> => MayEnd(t[Len(t)]))

-----------------------------------------------------------------------------
(* Lists of commands.                                                       *)

(* One list before another. *)
LEMMA AgentJoin ==
    ASSUME NEW S, NEW s \in Seq(S), NEW u \in Seq(S), s # <<>>, u # <<>>,
           Chained(s), Chained(u), MayFollow(s[Len(s)], u[1])
    PROVE  /\ s \o u \in Seq(S) /\ s \o u # <<>> /\ Chained(s \o u)
           /\ (s \o u)[1] = s[1] /\ (s \o u)[Len(s \o u)] = u[Len(u)]
<1>1. PICK v : v = s \o u
  OBVIOUS
<1>2. PICK m, n : m = Len(s) /\ n = Len(u)
  OBVIOUS
<1>3. m \in Nat /\ n \in Nat /\ m >= 1 /\ n >= 1
  BY <1>2, RestOfList
<1>4. /\ v \in Seq(S) /\ Len(v) = m + n
      /\ \A i \in 1 .. m : v[i] = s[i]
      /\ \A i \in 1 .. n : v[m + i] = u[i]
  BY <1>1, <1>2, ListBefore
<1>5. v[1] = s[1] /\ v[m + n] = u[n] /\ v[m] = s[m] /\ v[m + 1] = u[1]
  BY <1>3, <1>4
<1>6. v # <<>>
  BY <1>3, <1>4
<1>7. ASSUME NEW i \in 1 .. Len(v) - 1
      PROVE  MayFollow(v[i], v[i + 1])
  <2>1. CASE i < m
    <3>1. i \in 1 .. m /\ i + 1 \in 1 .. m /\ i \in 1 .. m - 1
      BY <1>3, <1>4, <2>1
    <3> QED BY <1>2, <1>4, <3>1 DEF Chained
  <2>2. CASE i = m
    BY <1>2, <1>5, <2>2
  <2>3. CASE i > m
    <3>1. PICK k : k = i - m
      OBVIOUS
    <3>2. k \in 1 .. n - 1 /\ k \in 1 .. n /\ k + 1 \in 1 .. n /\ i = m + k /\ i + 1 = m + (k + 1)
      BY <1>3, <1>4, <2>3, <3>1
    <3>3. v[i] = u[k] /\ v[i + 1] = u[k + 1]
      BY <1>4, <3>2
    <3> QED BY <1>2, <3>2, <3>3 DEF Chained
  <2> QED BY <1>3, <2>1, <2>2, <2>3
<1>8. Chained(v)
  BY <1>7 DEF Chained
<1> QED BY <1>1, <1>2, <1>4, <1>5, <1>6, <1>8

\* The commands and locals of a request in progress.
AnyCore == [value : CoreValues \cup {"empty", "none"}, described : BOOLEAN]
AgentLocals == [version : Nat, core : AnyCore, prev : Nat, event : Nat]

AgentList(t, l) ==
    /\ t \in Seq(AgentCommand) /\ InAgentOrder(t)
    /\ t # <<>> => l \in AgentLocals

(* What is left of a list. *)
LEMMA AgentTail ==
    ASSUME NEW t \in Seq(AgentCommand), t # <<>>, InAgentOrder(t)
    PROVE  /\ Tail(t) \in Seq(AgentCommand) /\ InAgentOrder(Tail(t))
           /\ Head(t) = t[1] /\ t[1] \in AgentCommand
           /\ Len(t) \in Nat /\ Len(t) >= 1 /\ Len(Tail(t)) = Len(t) - 1
           /\ \A i \in 1 .. Len(Tail(t)) : i + 1 \in 1 .. Len(t) /\ Tail(t)[i] = t[i + 1]
           /\ \A i \in 1 .. Len(t) : t[i] \in AgentCommand
           /\ Tail(t) = <<>> => MayEnd(t[1]) /\ Len(t) = 1
           /\ Tail(t) # <<>> =>
                /\ Len(t) > 1 /\ Tail(t)[1] = t[2] /\ t[2] \in AgentCommand /\ MayFollow(t[1], t[2])
           /\ Unwound(Tail(t)) = <<>>
<1>1. PICK u : u = Tail(t)
  OBVIOUS
<1>2. /\ u \in Seq(AgentCommand) /\ Head(t) = t[1] /\ t[1] \in AgentCommand
      /\ Len(t) \in Nat /\ Len(t) >= 1 /\ Len(u) = Len(t) - 1
      /\ \A i \in 1 .. Len(u) : u[i] = t[i + 1]
  BY <1>1, RestOfList
<1>3. PICK n : n = Len(t)
  OBVIOUS
<1>4. /\ n \in Nat /\ n >= 1 /\ Len(u) = n - 1 /\ 1 \in 1 .. n
      /\ \A i \in 1 .. Len(u) : i + 1 \in 1 .. n
  <2>1. n \in Nat /\ n >= 1 /\ Len(u) = n - 1
    BY <1>2, <1>3
  <2> QED BY <2>1
<1>5. \A i \in 1 .. n : t[i] \in AgentCommand
  BY <1>3, ElementOfSeq
<1>6. Chained(u)
  <2>1. ASSUME NEW i \in 1 .. Len(u) - 1
        PROVE  MayFollow(u[i], u[i + 1])
    <3>1. i \in 1 .. Len(u) /\ i + 1 \in 1 .. Len(u) /\ i + 1 \in 1 .. n - 1
      BY <1>4
    <3>2. u[i] = t[i + 1] /\ u[i + 1] = t[(i + 1) + 1]
      BY <1>2, <3>1
    <3> QED BY <1>3, <3>1, <3>2 DEF InAgentOrder, Chained
  <2> QED BY <2>1 DEF Chained
<1>7. u = <<>> => n = 1
  <2>1. u = <<>> => Len(u) = 0
    OBVIOUS
  <2> QED BY <1>4, <2>1
<1>8. u # <<>> => Len(u) >= 1 /\ n > 1 /\ 1 \in 1 .. Len(u) /\ u[1] = t[2] /\ MayFollow(t[1], t[2])
  <2>1. u # <<>> => Len(u) >= 1
    BY <1>2, RestOfList
  <2>2. u # <<>> => 1 \in 1 .. Len(u) /\ n > 1 /\ 1 \in 1 .. n - 1
    BY <1>4, <2>1
  <2>3. u # <<>> => u[1] = t[1 + 1] /\ MayFollow(t[1], t[1 + 1])
    BY <1>2, <1>3, <2>2 DEF InAgentOrder, Chained
  <2> QED BY <2>1, <2>2, <2>3
<1>9. InAgentOrder(u)
  <2>1. u # <<>> => u[Len(u)] = t[n]
    <3>1. u # <<>> => Len(u) \in 1 .. Len(u) /\ Len(u) + 1 = n
      BY <1>4, <1>8
    <3> QED BY <1>2, <3>1
  <2> QED BY <1>3, <1>6, <2>1 DEF InAgentOrder
<1>12. u = <<>> => MayEnd(t[1])
  BY <1>3, <1>7 DEF InAgentOrder
<1>13. n > 1 => t[2] \in AgentCommand
  <2>1. n > 1 => 2 \in 1 .. n
    BY <1>4
  <2> QED BY <1>5, <2>1
<1>14. Unwound(u) = <<>>
  <2>1. \A x \in AgentCommand : x.do # "catch"
    BY DEF AgentCommand, PlainCommand, IdentityCalls, AgentCalls, BranchCalls, ForkCalls, ProposalCalls, PolicyCalls
  <2>2. \A i \in 1 .. Len(u) : u[i] \in AgentCommand
    BY <1>2, ElementOfSeq
  <2>3. {i \in DOMAIN u : u[i].do = "catch"} = {}
    BY <1>2, <2>1, <2>2, LenProperties
  <2> QED BY <2>3 DEF Unwound
<1> QED BY <1>1, <1>2, <1>3, <1>4, <1>5, <1>7, <1>8, <1>9, <1>12, <1>13, <1>14

\* A command as it stands in a list.
C(do, id, how) == [do |-> do, id |-> id, how |-> how]

\* A list of commands about identities that begins with a and ends with z.
PlainList(t, a, z) ==
    t \in Seq(PlainCommand) /\ t # <<>> /\ Chained(t) /\ t[1] = a /\ t[Len(t)] = z

(* Lists written one command or one function after the other. *)
LEMMA PlainOne ==
    ASSUME NEW do, NEW id, NEW how, C(do, id, how) \in PlainCommand
    PROVE  PlainList(Cmd(do, id, how), C(do, id, how), C(do, id, how))
<1>1. PICK c : c = C(do, id, how)
  OBVIOUS
<1>2. Cmd(do, id, how) = <<c>>
  BY <1>1 DEF Cmd, C
<1>3. <<c>> \in Seq(PlainCommand) /\ Len(<<c>>) = 1 /\ <<c>>[1] = c /\ <<c>> # <<>>
  BY <1>1
<1>4. Chained(<<c>>)
  BY <1>3 DEF Chained
<1> QED BY <1>1, <1>2, <1>3, <1>4 DEF PlainList

LEMMA PlainJoin ==
    ASSUME NEW s, NEW u, NEW a, NEW b, NEW y, NEW z, PlainList(s, a, y), PlainList(u, b, z), MayFollow(y, b)
    PROVE  PlainList(s \o u, a, z)
BY AgentJoin DEF PlainList

LEMMA IdentityCommand ==
    ASSUME NEW id \in Ids
    PROVE  /\ \A do \in {"get", "use"}, how \in Uses : C(do, id, how) \in PlainCommand
           /\ \A do \in {"setCurrent", "setVersion", "addVersion"}, how \in Stores :
                C(do, id, how) \in PlainCommand
           /\ \A do \in {"readTail", "setEvent", "addEvent"}, how \in Told :
                C(do, id, how) \in PlainCommand
           /\ \A do \in {"delCurrent", "addAgent"} : C(do, id, "-") \in PlainCommand
<1>1. \A x \in IdentityCalls : x \in PlainCommand
  BY DEF PlainCommand
<1> QED BY <1>1 DEF C, IdentityCalls

LEMMA OtherCommand ==
    /\ \A id \in Agents :
         /\ \A do \in {"needIdentity", "remAgent", "setExperience", "addExperience", "needEvidence"} :
              C(do, id, "-") \in PlainCommand
         /\ \A how \in BOOLEAN : C("register", id, how) \in PlainCommand
         /\ \A v \in 1 .. MaxVersion : C("readVersion", id, v) \in PlainCommand
    /\ \A id \in BranchIds :
         /\ \A do \in {"needBranch", "needNoBranch", "needUnmerged", "delMeta", "addBranch", "remBranch"} :
              C(do, id, "-") \in PlainCommand
         /\ C("setMeta", id, "open") \in PlainCommand /\ C("setMeta", id, "merged") \in PlainCommand
    /\ \A id \in Forks :
         /\ C("needNoIdentity", id, "-") \in PlainCommand /\ C("setForkEvent", id, "-") \in PlainCommand
         /\ \A a \in Agents : /\ C("copyExperience", id, a) \in PlainCommand
                               /\ C("setLineage", id, a) \in PlainCommand
<1>1. \A x \in AgentCalls \cup BranchCalls \cup ForkCalls : x \in PlainCommand
  BY DEF PlainCommand
<1>2. \A id \in Agents :
         /\ \A do \in {"needIdentity", "remAgent", "setExperience", "addExperience", "needEvidence"} :
              C(do, id, "-") \in AgentCalls
         /\ \A how \in BOOLEAN : C("register", id, how) \in AgentCalls
         /\ \A v \in 1 .. MaxVersion : C("readVersion", id, v) \in AgentCalls
  BY DEF C, AgentCalls
<1>3. \A id \in BranchIds :
         /\ \A do \in {"needBranch", "needNoBranch", "needUnmerged", "delMeta", "addBranch", "remBranch"} :
              C(do, id, "-") \in BranchCalls
         /\ C("setMeta", id, "open") \in BranchCalls /\ C("setMeta", id, "merged") \in BranchCalls
  BY DEF C, BranchCalls
<1>4. \A id \in Forks :
         /\ C("needNoIdentity", id, "-") \in ForkCalls /\ C("setForkEvent", id, "-") \in ForkCalls
         /\ \A a \in Agents : C("copyExperience", id, a) \in ForkCalls /\ C("setLineage", id, a) \in ForkCalls
  BY DEF C, ForkCalls
<1> QED BY <1>1, <1>2, <1>3, <1>4

\* Functions of AgentIdentity.
LEMMA SnapshotList ==
    ASSUME NEW id \in Ids, NEW how \in Stores
    PROVE  PlainList(persist_identity_snapshot(id, how), C("setCurrent", id, how), C("addVersion", id, how))
<1> DEFINE a == C("setCurrent", id, how)  b == C("setVersion", id, how)  c == C("addVersion", id, how)
<1>1. /\ PlainList(Cmd("setCurrent", id, how), a, a) /\ PlainList(Cmd("setVersion", id, how), b, b)
      /\ PlainList(Cmd("addVersion", id, how), c, c)
  BY IdentityCommand, PlainOne
<1>2. MayFollow(a, b) /\ MayFollow(b, c)
  BY DEF MayFollow, C, Refusing
<1> HIDE DEF a, b, c
<1>3. PlainList(Cmd("setCurrent", id, how) \o Cmd("setVersion", id, how), a, b)
  BY <1>1, <1>2, PlainJoin
<1>4. PlainList((Cmd("setCurrent", id, how) \o Cmd("setVersion", id, how)) \o Cmd("addVersion", id, how), a, c)
  BY <1>1, <1>2, <1>3, PlainJoin
<1> QED BY <1>4 DEF a, c, persist_identity_snapshot

LEMMA AuditList ==
    ASSUME NEW id \in Ids, NEW how \in Told
    PROVE  PlainList(append_identity_audit(id, how), C("readTail", id, how), C("addEvent", id, how))
<1> DEFINE a == C("readTail", id, how)  b == C("setEvent", id, how)  c == C("addEvent", id, how)
<1>1. /\ PlainList(Cmd("readTail", id, how), a, a) /\ PlainList(Cmd("setEvent", id, how), b, b)
      /\ PlainList(Cmd("addEvent", id, how), c, c)
  BY IdentityCommand, PlainOne
<1>2. MayFollow(a, b) /\ MayFollow(b, c)
  BY DEF MayFollow, C, Refusing
<1> HIDE DEF a, b, c
<1>3. PlainList(Cmd("readTail", id, how) \o Cmd("setEvent", id, how), a, b)
  BY <1>1, <1>2, PlainJoin
<1>4. PlainList((Cmd("readTail", id, how) \o Cmd("setEvent", id, how)) \o Cmd("addEvent", id, how), a, c)
  BY <1>1, <1>2, <1>3, PlainJoin
<1> QED BY <1>4 DEF a, c, append_identity_audit

\* Commands that may follow anything that nothing in particular must follow.
Loose(x) == x.do \notin {"readTail", "setEvent"} \cup PromotionDo
Free(y) == y.do \notin {"setEvent", "addEvent"} \cup PromotionDo \cup Refusing
LEMMA LooseFree ==
    /\ \A x, y : Loose(x) /\ Free(y) => MayFollow(x, y)
    /\ \A do, id, how : do \notin {"readTail", "setEvent"} \cup PromotionDo => Loose(C(do, id, how))
    /\ \A do, id, how : do \notin {"setEvent", "addEvent"} \cup PromotionDo \cup Refusing => Free(C(do, id, how))
<1>1. \A x, y : Loose(x) /\ Free(y) => MayFollow(x, y)
  BY DEF Loose, Free, MayFollow, PromotionDo, Refusing
<1>2. \A do, id, how : C(do, id, how).do = do
  BY DEF C
<1> QED BY <1>1, <1>2 DEF Loose, Free

LEMMA FreeJoin ==
    ASSUME NEW s, NEW u, NEW a, NEW b, NEW y, NEW z, PlainList(s, a, y), PlainList(u, b, z), Loose(y), Free(b)
    PROVE  PlainList(s \o u, a, z)
BY PlainJoin, LooseFree

LEMMA CreateList ==
    ASSUME NEW id \in Ids, NEW how \in Stores
    PROVE  PlainList(CreateIdentity(id, how), C("setCurrent", id, how), C("addEvent", id, "Created"))
<1>1. "Created" \in Told
  BY DEF Told
<1>2. PlainList(append_identity_audit(id, "Created"), C("readTail", id, "Created"), C("addEvent", id, "Created"))
  BY <1>1, AuditList
<1>3. PlainList(persist_identity_snapshot(id, how), C("setCurrent", id, how), C("addVersion", id, how))
  BY SnapshotList
<1>4. Loose(C("addVersion", id, how)) /\ Free(C("readTail", id, "Created"))
  BY LooseFree DEF PromotionDo, Refusing
<1> QED BY <1>2, <1>3, <1>4, FreeJoin DEF CreateIdentity

LEMMA UpdateList ==
    ASSUME NEW id \in Ids
    PROVE  PlainList(update_agent_identity(id), C("get", id, "update"), C("addEvent", id, "Updated"))
<1>1. "Updated" \in Told /\ "edited" \in Stores /\ "update" \in Uses
  BY DEF Told, Stores, Uses
<1>2. PlainList(append_identity_audit(id, "Updated"), C("readTail", id, "Updated"), C("addEvent", id, "Updated"))
  BY <1>1, AuditList
<1>3. PlainList(persist_identity_snapshot(id, "edited"), C("setCurrent", id, "edited"), C("addVersion", id, "edited"))
  BY <1>1, SnapshotList
<1>4. PlainList(Cmd("get", id, "update"), C("get", id, "update"), C("get", id, "update"))
  BY <1>1, IdentityCommand, PlainOne
<1>5. /\ Loose(C("addVersion", id, "edited")) /\ Free(C("readTail", id, "Updated"))
      /\ Loose(C("get", id, "update")) /\ Free(C("setCurrent", id, "edited"))
  BY LooseFree DEF PromotionDo, Refusing
<1>6. PlainList(Cmd("get", id, "update") \o persist_identity_snapshot(id, "edited"),
                C("get", id, "update"), C("addVersion", id, "edited"))
  BY <1>3, <1>4, <1>5, FreeJoin
<1> QED BY <1>2, <1>5, <1>6, FreeJoin DEF update_agent_identity

LEMMA RollbackList ==
    ASSUME NEW id \in Agents, NEW v \in 1 .. MaxVersion
    PROVE  PlainList(rollback_agent_identity(id, v), C("readVersion", id, v), C("addEvent", id, "RolledBack"))
<1>1. "RolledBack" \in Told /\ "edited" \in Stores /\ "update" \in Uses /\ id \in Ids
  BY DEF Told, Stores, Uses, Ids
<1>2. PlainList(append_identity_audit(id, "RolledBack"),
                C("readTail", id, "RolledBack"), C("addEvent", id, "RolledBack"))
  BY <1>1, AuditList
<1>3. PlainList(persist_identity_snapshot(id, "edited"), C("setCurrent", id, "edited"), C("addVersion", id, "edited"))
  BY <1>1, SnapshotList
<1>4. PlainList(Cmd("get", id, "update"), C("get", id, "update"), C("get", id, "update"))
  BY <1>1, IdentityCommand, PlainOne
<1>5. PlainList(Cmd("readVersion", id, v), C("readVersion", id, v), C("readVersion", id, v))
  BY OtherCommand, PlainOne
<1>6. /\ Loose(C("addVersion", id, "edited")) /\ Free(C("readTail", id, "RolledBack"))
      /\ Loose(C("get", id, "update")) /\ Free(C("setCurrent", id, "edited"))
      /\ Loose(C("readVersion", id, v)) /\ Free(C("get", id, "update"))
  BY LooseFree DEF PromotionDo, Refusing
<1>7. PlainList(Cmd("readVersion", id, v) \o Cmd("get", id, "update"),
                C("readVersion", id, v), C("get", id, "update"))
  BY <1>4, <1>5, <1>6, FreeJoin
<1>8. PlainList((Cmd("readVersion", id, v) \o Cmd("get", id, "update")) \o persist_identity_snapshot(id, "edited"),
                C("readVersion", id, v), C("addVersion", id, "edited"))
  BY <1>3, <1>6, <1>7, FreeJoin
<1> QED BY <1>2, <1>6, <1>8, FreeJoin DEF rollback_agent_identity

LEMMA DeleteList ==
    ASSUME NEW id \in Agents
    PROVE  PlainList(delete_agent(id), C("needIdentity", id, "-"), C("remAgent", id, "-"))
<1>1. id \in Ids
  BY DEF Ids
<1>2. /\ PlainList(Cmd("needIdentity", id, "-"), C("needIdentity", id, "-"), C("needIdentity", id, "-"))
      /\ PlainList(Cmd("delCurrent", id, "-"), C("delCurrent", id, "-"), C("delCurrent", id, "-"))
      /\ PlainList(Cmd("remAgent", id, "-"), C("remAgent", id, "-"), C("remAgent", id, "-"))
  BY <1>1, IdentityCommand, OtherCommand, PlainOne
<1>3. /\ Loose(C("needIdentity", id, "-")) /\ Free(C("delCurrent", id, "-"))
      /\ Loose(C("delCurrent", id, "-")) /\ Free(C("remAgent", id, "-"))
  BY LooseFree DEF PromotionDo, Refusing
<1>4. PlainList(Cmd("needIdentity", id, "-") \o Cmd("delCurrent", id, "-"),
                C("needIdentity", id, "-"), C("delCurrent", id, "-"))
  BY <1>2, <1>3, FreeJoin
<1> QED BY <1>2, <1>3, <1>4, FreeJoin DEF delete_agent

LEMMA BranchParts ==
    ASSUME NEW b \in BranchIds
    PROVE  /\ b \in Ids /\ b[1] \in Ids /\ b[1] \in Agents
           /\ \A do \in {"needBranch", "needNoBranch", "needUnmerged", "delMeta", "addBranch", "remBranch"} :
                PlainList(Cmd(do, b, "-"), C(do, b, "-"), C(do, b, "-"))
           /\ \A how \in {"open", "merged"} :
                PlainList(Cmd("setMeta", b, how), C("setMeta", b, how), C("setMeta", b, how))
           /\ \A how \in Uses : /\ PlainList(Cmd("get", b, how), C("get", b, how), C("get", b, how))
                                /\ PlainList(Cmd("get", b[1], how), C("get", b[1], how), C("get", b[1], how))
           /\ PlainList(Cmd("setCurrent", b, "edited"), C("setCurrent", b, "edited"), C("setCurrent", b, "edited"))
           /\ PlainList(Cmd("delCurrent", b, "-"), C("delCurrent", b, "-"), C("delCurrent", b, "-"))
           /\ \A how \in Told :
                PlainList(append_identity_audit(b[1], how), C("readTail", b[1], how), C("addEvent", b[1], how))
<1>1. b \in Ids /\ b[1] \in Agents /\ b[1] \in Ids
  BY DEF BranchIds, Ids
<1>2. \A do \in {"needBranch", "needNoBranch", "needUnmerged", "delMeta", "addBranch", "remBranch"} :
         PlainList(Cmd(do, b, "-"), C(do, b, "-"), C(do, b, "-"))
  BY OtherCommand, PlainOne
<1>3. \A how \in {"open", "merged"} :
         PlainList(Cmd("setMeta", b, how), C("setMeta", b, how), C("setMeta", b, how))
  BY OtherCommand, PlainOne
<1>4. ASSUME NEW id \in Ids, NEW how \in Uses
      PROVE  PlainList(Cmd("get", id, how), C("get", id, how), C("get", id, how))
  BY IdentityCommand, PlainOne
<1>5. "edited" \in Stores
  BY DEF Stores
<1>6. /\ PlainList(Cmd("setCurrent", b, "edited"), C("setCurrent", b, "edited"), C("setCurrent", b, "edited"))
      /\ PlainList(Cmd("delCurrent", b, "-"), C("delCurrent", b, "-"), C("delCurrent", b, "-"))
  BY <1>1, <1>5, IdentityCommand, PlainOne
<1>7. \A how \in Told :
         PlainList(append_identity_audit(b[1], how), C("readTail", b[1], how), C("addEvent", b[1], how))
  BY <1>1, AuditList
<1> QED BY <1>1, <1>2, <1>3, <1>4, <1>6, <1>7

LEMMA CreateBranchList ==
    ASSUME NEW b \in BranchIds, NEW how \in Uses
    PROVE  PlainList(create_agent_branch(b, how), C("needNoBranch", b, "-"), C("addEvent", b[1], "BranchCreated"))
<1> DEFINE a == C("needNoBranch", b, "-")
<1>1. "BranchCreated" \in Told
  BY DEF Told
<1>2. /\ Loose(a) /\ Free(C("get", b[1], how)) /\ Loose(C("get", b[1], how)) /\ Free(C("setCurrent", b, "edited"))
      /\ Loose(C("setCurrent", b, "edited")) /\ Free(C("setMeta", b, "open")) /\ Loose(C("setMeta", b, "open"))
      /\ Free(C("addBranch", b, "-")) /\ Loose(C("addBranch", b, "-")) /\ Free(C("readTail", b[1], "BranchCreated"))
  BY LooseFree DEF PromotionDo, Refusing
<1> DEFINE l1 == Cmd("needNoBranch", b, "-")  l2 == l1 \o Cmd("get", b[1], how)
           l3 == l2 \o Cmd("setCurrent", b, "edited")  l4 == l3 \o Cmd("setMeta", b, "open")
           l5 == l4 \o Cmd("addBranch", b, "-")
<1>3. PlainList(l1, a, a)
  BY BranchParts
<1> HIDE DEF a, l1, l2, l3, l4, l5
<1>4. PlainList(l2, a, C("get", b[1], how))
  BY <1>2, <1>3, BranchParts, FreeJoin DEF l2
<1>5. PlainList(l3, a, C("setCurrent", b, "edited"))
  BY <1>2, <1>4, BranchParts, FreeJoin DEF l3
<1>6. PlainList(l4, a, C("setMeta", b, "open"))
  BY <1>2, <1>5, BranchParts, FreeJoin DEF l4
<1>7. PlainList(l5, a, C("addBranch", b, "-"))
  BY <1>2, <1>6, BranchParts, FreeJoin DEF l5
<1>8. PlainList(l5 \o append_identity_audit(b[1], "BranchCreated"), a, C("addEvent", b[1], "BranchCreated"))
  BY <1>1, <1>2, <1>7, BranchParts, FreeJoin
<1> QED BY <1>8 DEF create_agent_branch, a, l1, l2, l3, l4, l5

LEMMA ReadBranchLists ==
    ASSUME NEW b \in BranchIds
    PROVE  /\ PlainList(get_agent_branch(b), C("needBranch", b, "-"), C("get", b, "see"))
           /\ PlainList(update_agent_branch(b), C("needUnmerged", b, "-"), C("addEvent", b, "Updated"))
<1>1. "see" \in Uses
  BY DEF Uses
<1>2. /\ Loose(C("needBranch", b, "-")) /\ Loose(C("needUnmerged", b, "-"))
      /\ Free(C("get", b, "see")) /\ Free(C("get", b, "update"))
  BY LooseFree DEF PromotionDo, Refusing
<1>3. /\ PlainList(Cmd("needBranch", b, "-"), C("needBranch", b, "-"), C("needBranch", b, "-"))
      /\ PlainList(Cmd("needUnmerged", b, "-"), C("needUnmerged", b, "-"), C("needUnmerged", b, "-"))
      /\ PlainList(Cmd("get", b, "see"), C("get", b, "see"), C("get", b, "see")) /\ b \in Ids
  BY <1>1, BranchParts
<1>4. PlainList(update_agent_identity(b), C("get", b, "update"), C("addEvent", b, "Updated"))
  BY <1>3, UpdateList
<1>5. PlainList(get_agent_branch(b), C("needBranch", b, "-"), C("get", b, "see"))
  BY <1>2, <1>3, FreeJoin DEF get_agent_branch
<1>6. PlainList(update_agent_branch(b), C("needUnmerged", b, "-"), C("addEvent", b, "Updated"))
  BY <1>2, <1>3, <1>4, FreeJoin DEF update_agent_branch
<1> QED BY <1>5, <1>6

LEMMA MergeList ==
    ASSUME NEW b \in BranchIds
    PROVE  PlainList(merge_agent_branch(b), C("needUnmerged", b, "-"), C("addEvent", b[1], "BranchMerged"))
<1> DEFINE a == C("needUnmerged", b, "-")
<1>1. "BranchMerged" \in Told /\ "take" \in Uses /\ "see" \in Uses
  BY DEF Told, Uses
<1>2. /\ Loose(a) /\ Free(C("get", b, "take")) /\ Loose(C("get", b, "take")) /\ Free(C("get", b[1], "see"))
      /\ Loose(C("get", b[1], "see")) /\ Free(C("get", b[1], "update")) /\ Loose(C("addEvent", b[1], "Updated"))
      /\ Free(C("setMeta", b, "merged")) /\ Loose(C("setMeta", b, "merged")) /\ Free(C("readTail", b[1], "BranchMerged"))
  BY LooseFree DEF PromotionDo, Refusing
<1> DEFINE l1 == Cmd("needUnmerged", b, "-")  l2 == l1 \o Cmd("get", b, "take")
           l3 == l2 \o Cmd("get", b[1], "see")  l4 == l3 \o update_agent_identity(b[1])
           l5 == l4 \o Cmd("setMeta", b, "merged")
<1>3. PlainList(l1, a, a)
  BY BranchParts
<1> HIDE DEF a, l1, l2, l3, l4, l5
<1>4. PlainList(l2, a, C("get", b, "take"))
  BY <1>1, <1>2, <1>3, BranchParts, FreeJoin DEF l2
<1>5. PlainList(l3, a, C("get", b[1], "see"))
  BY <1>1, <1>2, <1>4, BranchParts, FreeJoin DEF l3
<1>6. PlainList(update_agent_identity(b[1]), C("get", b[1], "update"), C("addEvent", b[1], "Updated"))
  BY BranchParts, UpdateList
<1>7. PlainList(l4, a, C("addEvent", b[1], "Updated"))
  BY <1>2, <1>5, <1>6, FreeJoin DEF l4
<1>8. PlainList(l5, a, C("setMeta", b, "merged"))
  BY <1>2, <1>7, BranchParts, FreeJoin DEF l5
<1>9. PlainList(l5 \o append_identity_audit(b[1], "BranchMerged"), a, C("addEvent", b[1], "BranchMerged"))
  BY <1>1, <1>2, <1>8, BranchParts, FreeJoin
<1> QED BY <1>9 DEF merge_agent_branch, a, l1, l2, l3, l4, l5

LEMMA DeleteBranchList ==
    ASSUME NEW b \in BranchIds
    PROVE  PlainList(delete_agent_branch(b), C("needBranch", b, "-"), C("addEvent", b[1], "BranchDeleted"))
<1> DEFINE a == C("needBranch", b, "-")
<1>1. "BranchDeleted" \in Told /\ "see" \in Uses
  BY DEF Told, Uses
<1>2. /\ Loose(a) /\ Free(C("delCurrent", b, "-")) /\ Loose(C("delCurrent", b, "-")) /\ Free(C("delMeta", b, "-"))
      /\ Loose(C("delMeta", b, "-")) /\ Free(C("remBranch", b, "-")) /\ Loose(C("remBranch", b, "-"))
      /\ Free(C("get", b[1], "see")) /\ Loose(C("get", b[1], "see")) /\ Free(C("readTail", b[1], "BranchDeleted"))
  BY LooseFree DEF PromotionDo, Refusing
<1> DEFINE l1 == Cmd("needBranch", b, "-")  l2 == l1 \o Cmd("delCurrent", b, "-")
           l3 == l2 \o Cmd("delMeta", b, "-")  l4 == l3 \o Cmd("remBranch", b, "-")
           l5 == l4 \o Cmd("get", b[1], "see")
<1>3. PlainList(l1, a, a)
  BY BranchParts
<1> HIDE DEF a, l1, l2, l3, l4, l5
<1>4. PlainList(l2, a, C("delCurrent", b, "-"))
  BY <1>2, <1>3, BranchParts, FreeJoin DEF l2
<1>5. PlainList(l3, a, C("delMeta", b, "-"))
  BY <1>2, <1>4, BranchParts, FreeJoin DEF l3
<1>6. PlainList(l4, a, C("remBranch", b, "-"))
  BY <1>2, <1>5, BranchParts, FreeJoin DEF l4
<1>7. PlainList(l5, a, C("get", b[1], "see"))
  BY <1>1, <1>2, <1>6, BranchParts, FreeJoin DEF l5
<1>8. PlainList(l5 \o append_identity_audit(b[1], "BranchDeleted"), a, C("addEvent", b[1], "BranchDeleted"))
  BY <1>1, <1>2, <1>7, BranchParts, FreeJoin
<1> QED BY <1>8 DEF delete_agent_branch, a, l1, l2, l3, l4, l5

LEMMA ForkList ==
    ASSUME NEW id \in Agents, NEW new \in Forks, NEW how \in Uses
    PROVE  PlainList(fork_agent(id, new, how), C("needNoIdentity", new, "-"), C("addEvent", id, "Forked"))
<1> DEFINE a == C("needNoIdentity", new, "-")
<1>1. "Forked" \in Told /\ "first" \in Stores /\ id \in Ids /\ new \in Ids
  BY DEF Told, Stores, Ids
<1>2. /\ Loose(a) /\ Free(C("get", id, how)) /\ Loose(C("get", id, how)) /\ Free(C("setCurrent", new, "first"))
      /\ Loose(C("setCurrent", new, "first")) /\ Loose(C("addVersion", new, "first"))
      /\ Free(C("copyExperience", new, id)) /\ Loose(C("copyExperience", new, id))
      /\ Free(C("setLineage", new, id)) /\ Loose(C("setLineage", new, id))
      /\ Free(C("setForkEvent", new, "-")) /\ Loose(C("setForkEvent", new, "-")) /\ Free(C("readTail", id, "Forked"))
  BY LooseFree DEF PromotionDo, Refusing
<1>3. /\ PlainList(Cmd("needNoIdentity", new, "-"), a, a)
      /\ PlainList(Cmd("get", id, how), C("get", id, how), C("get", id, how))
      /\ PlainList(Cmd("setCurrent", new, "first"), C("setCurrent", new, "first"), C("setCurrent", new, "first"))
      /\ PlainList(Cmd("copyExperience", new, id), C("copyExperience", new, id), C("copyExperience", new, id))
      /\ PlainList(Cmd("setLineage", new, id), C("setLineage", new, id), C("setLineage", new, id))
      /\ PlainList(Cmd("setForkEvent", new, "-"), C("setForkEvent", new, "-"), C("setForkEvent", new, "-"))
  BY <1>1, IdentityCommand, OtherCommand, PlainOne
<1>4. /\ PlainList(persist_identity_snapshot(new, "first"), C("setCurrent", new, "first"), C("addVersion", new, "first"))
      /\ PlainList(append_identity_audit(id, "Forked"), C("readTail", id, "Forked"), C("addEvent", id, "Forked"))
  BY <1>1, SnapshotList, AuditList
<1> DEFINE l1 == Cmd("needNoIdentity", new, "-")  l2 == l1 \o Cmd("get", id, how)
           l3 == l2 \o Cmd("setCurrent", new, "first")  l4 == l3 \o persist_identity_snapshot(new, "first")
           l5 == l4 \o Cmd("copyExperience", new, id)  l6 == l5 \o Cmd("setLineage", new, id)
           l7 == l6 \o Cmd("setForkEvent", new, "-")
<1> HIDE DEF a, l2, l3, l4, l5, l6, l7
<1>5. PlainList(l2, a, C("get", id, how))
  BY <1>2, <1>3, FreeJoin DEF l2
<1>6. PlainList(l3, a, C("setCurrent", new, "first"))
  BY <1>2, <1>3, <1>5, FreeJoin DEF l3
<1>7. PlainList(l4, a, C("addVersion", new, "first"))
  BY <1>2, <1>4, <1>6, FreeJoin DEF l4
<1>8. PlainList(l5, a, C("copyExperience", new, id))
  BY <1>2, <1>3, <1>7, FreeJoin DEF l5
<1>9. PlainList(l6, a, C("setLineage", new, id))
  BY <1>2, <1>3, <1>8, FreeJoin DEF l6
<1>10. PlainList(l7, a, C("setForkEvent", new, "-"))
  BY <1>2, <1>3, <1>9, FreeJoin DEF l7
<1>11. PlainList(l7 \o append_identity_audit(id, "Forked"), a, C("addEvent", id, "Forked"))
  BY <1>2, <1>4, <1>10, FreeJoin
<1> QED BY <1>11 DEF fork_agent, a, l2, l3, l4, l5, l6, l7

-----------------------------------------------------------------------------
(* Requests.                                                                *)

\* Commands that work on the copy of a proposal.
Copying == {"decide", "applied", "saveProposal"}

\* The commands of a request when it starts.
Opening(t) ==
    /\ t \in Seq(AgentCommand) /\ t # <<>> /\ InAgentOrder(t)
    /\ t[1].do \in ({"register", "get", "setExperience", "setPolicy"} \cup Refusing) \ {"decide"}
    /\ t[1].do # "readProposal" => \A i \in 1 .. Len(t) : t[i].do \notin Copying

(* No command about identities works on a copy of a proposal. *)
LEMMA PlainIsPlain ==
    ASSUME NEW t \in Seq(PlainCommand)
    PROVE  t \in Seq(AgentCommand) /\ \A i \in 1 .. Len(t) : t[i].do \notin PromotionDo
<1>1. \A i \in 1 .. Len(t) : t[i] \in PlainCommand
  BY ElementOfSeq
<1>2. \A x \in PlainCommand : x.do \notin PromotionDo
  BY DEF PlainCommand, IdentityCalls, AgentCalls, BranchCalls, ForkCalls, PromotionDo
<1>3. PlainCommand \subseteq AgentCommand
  BY DEF AgentCommand
<1>4. \A i \in 1 .. Len(t) : t[i] \in AgentCommand
  BY <1>1, <1>3
<1>5. t \in Seq(AgentCommand)
  BY <1>4, SeqDef, LenProperties
<1> QED BY <1>1, <1>2, <1>5

LEMMA PlainOpens ==
    ASSUME NEW t, NEW a, NEW z, PlainList(t, a, z), MayEnd(z),
           a.do \in ({"register", "get", "setExperience", "setPolicy"} \cup Refusing) \ {"decide"}
    PROVE  Opening(t)
<1>1. t \in Seq(PlainCommand) /\ t # <<>> /\ Chained(t) /\ t[1] = a /\ t[Len(t)] = z
  BY DEF PlainList
<1>2. t \in Seq(AgentCommand) /\ \A i \in 1 .. Len(t) : t[i].do \notin PromotionDo
  BY <1>1, PlainIsPlain
<1>3. \A i \in 1 .. Len(t) : t[i].do \notin Copying
  BY <1>2 DEF Copying, PromotionDo
<1> QED BY <1>1, <1>2, <1>3 DEF Opening, InAgentOrder

LEMMA CoresAre ==
    /\ \A c \in CoreValues : Plain(c) \in AnyCore
    /\ Empty \in AnyCore /\ \A d \in BOOLEAN : [Empty EXCEPT !.described = d] \in AnyCore
    /\ NoCore \in AnyCore
    /\ \A core \in AnyCore : Locals(core) \in AgentLocals
    /\ \A core \in AnyCore : [core EXCEPT !.described = TRUE] \in AnyCore
<1>1. \A c \in CoreValues : Plain(c) \in AnyCore
  BY DEF Plain, AnyCore
<1>2. Empty \in AnyCore /\ \A d \in BOOLEAN : [Empty EXCEPT !.described = d] \in AnyCore
  BY DEF Empty, AnyCore
<1>3. \A core \in AnyCore : Locals(core) \in AgentLocals
  BY DEF Locals, AgentLocals
<1>4. NoCore \in AnyCore /\ \A core \in AnyCore : [core EXCEPT !.described = TRUE] \in AnyCore
  BY DEF NoCore, AnyCore
<1> QED BY <1>1, <1>2, <1>3, <1>4

(* A request about an agent starts. *)
LEMMA AgentOpens ==
    ASSUME NEW r \in Requests,
           \/ \E id \in Agents :
                \/ \E described \in BOOLEAN : RegisterAgent(r, id, described)
                \/ GetIdentity(r, id)
                \/ \E c \in CoreValues : UpdateIdentity(r, id, c)
                \/ \E v \in 1..MaxVersion : RollbackIdentity(r, id, v)
                \/ DeleteAgent(r, id)
                \/ AddExperience(r, id)
                \/ \E f \in Forks : ForkAgent(r, id, f)
                \/ \E f \in Forks, c \in CoreValues : ForkAgentWith(r, id, f, c)
           \/ \E b \in BranchIds :
                \/ CreateBranch(r, b) \/ GetBranch(r, b) \/ MergeBranch(r, b) \/ DeleteBranch(r, b)
                \/ \E c \in CoreValues : CreateBranchWith(r, b, c) \/ UpdateBranch(r, b, c)
    PROVE  \E t, l : Start(r, t, l) /\ Opening(t) /\ l \in AgentLocals /\ UNCHANGED agentVars
<1>1. ASSUME NEW t, NEW core \in AnyCore, Ask(r, t, core), Opening(t)
      PROVE  \E u, l : Start(r, u, l) /\ Opening(u) /\ l \in AgentLocals /\ UNCHANGED agentVars
  <2>1. Locals(core) \in AgentLocals
    BY CoresAre
  <2>2. Start(r, t, Locals(core)) /\ UNCHANGED agentVars
    BY <1>1 DEF Ask
  <2> QED BY <1>1, <2>1, <2>2
<1>2. \A c \in CoreValues : Plain(c) \in AnyCore
  BY CoresAre
<1>3. NoCore \in AnyCore
  BY CoresAre
<1>4. /\ \A id \in Ids : MayEnd(C("addAgent", id, "-")) /\ MayEnd(C("remAgent", id, "-"))
      /\ \A id, how : MayEnd(C("addEvent", id, how)) /\ MayEnd(C("addExperience", id, how))
  BY DEF MayEnd, C
<1>5. \A id, how : C("addEvent", id, how).do = "addEvent"
  BY DEF C
<1>6. \A id \in Agents : id \in Ids
  BY DEF Ids
<1>7. "copy" \in Uses /\ "see" \in Uses
  BY DEF Uses
<1>8. ASSUME NEW id \in Agents, NEW d \in BOOLEAN, RegisterAgent(r, id, d)
      PROVE  \E u, l : Start(r, u, l) /\ Opening(u) /\ l \in AgentLocals /\ UNCHANGED agentVars
  <2>1. /\ PlainList(Cmd("register", id, d), C("register", id, d), C("register", id, d))
        /\ PlainList(Cmd("addAgent", id, "-"), C("addAgent", id, "-"), C("addAgent", id, "-"))
    BY <1>6, OtherCommand, IdentityCommand, PlainOne
  <2>2. Loose(C("register", id, d)) /\ Free(C("addAgent", id, "-"))
    BY LooseFree DEF PromotionDo, Refusing
  <2>3. PlainList(Cmd("register", id, d) \o Cmd("addAgent", id, "-"), C("register", id, d), C("addAgent", id, "-"))
    BY <2>1, <2>2, FreeJoin
  <2>4. C("register", id, d).do = "register" /\ MayEnd(C("addAgent", id, "-"))
    BY DEF C, MayEnd
  <2>5. Opening(Cmd("register", id, d) \o Cmd("addAgent", id, "-"))
    BY <2>3, <2>4, PlainOpens
  <2>6. [Empty EXCEPT !.described = d] \in AnyCore
    BY CoresAre
  <2> QED BY <1>1, <1>8, <2>5, <2>6 DEF RegisterAgent
<1>9. ASSUME NEW id \in Agents, NEW f \in Forks, NEW how \in {"copy", "see"}
      PROVE  Opening(fork_agent(id, f, how))
  <2>1. PlainList(fork_agent(id, f, how), C("needNoIdentity", f, "-"), C("addEvent", id, "Forked"))
    BY <1>7, ForkList
  <2>2. C("needNoIdentity", f, "-").do \in Refusing \ {"decide"}
    BY DEF C, Refusing
  <2> QED BY <1>4, <2>1, <2>2, PlainOpens
<1>10. ASSUME NEW b \in BranchIds, NEW how \in {"copy", "see"}
       PROVE  Opening(create_agent_branch(b, how))
  <2>1. PlainList(create_agent_branch(b, how), C("needNoBranch", b, "-"), C("addEvent", b[1], "BranchCreated"))
    BY <1>7, CreateBranchList
  <2>2. C("needNoBranch", b, "-").do \in Refusing \ {"decide"}
    BY DEF C, Refusing
  <2> QED BY <1>4, <2>1, <2>2, PlainOpens
<1>11. ASSUME NEW id \in Agents
       PROVE  /\ Opening(update_agent_identity(id)) /\ Opening(delete_agent(id))
              /\ \A v \in 1 .. MaxVersion : Opening(rollback_agent_identity(id, v))
  <2>1. C("needIdentity", id, "-").do \in Refusing \ {"decide"} /\ C("get", id, "update").do = "get"
    BY DEF C, Refusing
  <2>2. Opening(update_agent_identity(id))
    <3>1. PlainList(update_agent_identity(id), C("get", id, "update"), C("addEvent", id, "Updated"))
      BY <1>6, UpdateList
    <3> QED BY <1>4, <2>1, <3>1, PlainOpens
  <2>3. Opening(delete_agent(id))
    <3>1. PlainList(delete_agent(id), C("needIdentity", id, "-"), C("remAgent", id, "-"))
      BY DeleteList
    <3> QED BY <1>4, <1>6, <2>1, <3>1, PlainOpens
  <2>4. ASSUME NEW v \in 1 .. MaxVersion
        PROVE  Opening(rollback_agent_identity(id, v))
    <3>1. PlainList(rollback_agent_identity(id, v), C("readVersion", id, v), C("addEvent", id, "RolledBack"))
      BY RollbackList
    <3>2. C("readVersion", id, v).do \in Refusing \ {"decide"}
      BY DEF C, Refusing
    <3> QED BY <1>4, <3>1, <3>2, PlainOpens
  <2> QED BY <2>2, <2>3, <2>4
<1>12. ASSUME NEW b \in BranchIds
       PROVE  /\ Opening(get_agent_branch(b)) /\ Opening(update_agent_branch(b))
              /\ Opening(merge_agent_branch(b)) /\ Opening(delete_agent_branch(b))
  <2>1. /\ C("needBranch", b, "-").do \in Refusing \ {"decide"}
        /\ C("needUnmerged", b, "-").do \in Refusing \ {"decide"}
    BY DEF C, Refusing
  <2>2. Opening(update_agent_branch(b))
    BY <1>4, <2>1, ReadBranchLists, PlainOpens
  <2>3. Opening(merge_agent_branch(b))
    BY <1>4, <2>1, MergeList, PlainOpens
  <2>4. Opening(delete_agent_branch(b))
    BY <1>4, <2>1, DeleteBranchList, PlainOpens
  <2>5. Opening(get_agent_branch(b))
    <3>1. PlainList(get_agent_branch(b), C("needBranch", b, "-"), C("get", b, "see"))
      BY ReadBranchLists
    <3>2. MayEnd(C("get", b, "see"))
      BY DEF MayEnd, C
    <3> QED BY <2>1, <3>1, <3>2, PlainOpens
  <2> QED BY <2>2, <2>3, <2>4, <2>5
<1>13. ASSUME NEW id \in Agents
       PROVE  Opening(Cmd("get", id, "see")) /\ Opening(Cmd("setExperience", id, "-") \o Cmd("addExperience", id, "-"))
  <2>1. /\ PlainList(Cmd("get", id, "see"), C("get", id, "see"), C("get", id, "see"))
        /\ PlainList(Cmd("setExperience", id, "-"), C("setExperience", id, "-"), C("setExperience", id, "-"))
        /\ PlainList(Cmd("addExperience", id, "-"), C("addExperience", id, "-"), C("addExperience", id, "-"))
    BY <1>6, <1>7, IdentityCommand, OtherCommand, PlainOne
  <2>2. Loose(C("setExperience", id, "-")) /\ Free(C("addExperience", id, "-"))
    BY LooseFree DEF PromotionDo, Refusing
  <2>3. PlainList(Cmd("setExperience", id, "-") \o Cmd("addExperience", id, "-"),
                  C("setExperience", id, "-"), C("addExperience", id, "-"))
    BY <2>1, <2>2, FreeJoin
  <2>4. C("get", id, "see").do = "get" /\ MayEnd(C("get", id, "see")) /\ C("setExperience", id, "-").do = "setExperience"
    BY DEF C, MayEnd
  <2>5. Opening(Cmd("get", id, "see"))
    BY <2>1, <2>4, PlainOpens
  <2>6. Opening(Cmd("setExperience", id, "-") \o Cmd("addExperience", id, "-"))
    BY <1>4, <2>3, <2>4, PlainOpens
  <2> QED BY <2>5, <2>6
<1>14. ASSUME NEW id \in Agents,
              \/ GetIdentity(r, id) \/ DeleteAgent(r, id) \/ AddExperience(r, id)
              \/ \E c \in CoreValues : UpdateIdentity(r, id, c)
              \/ \E v \in 1..MaxVersion : RollbackIdentity(r, id, v)
       PROVE  \E u, l : Start(r, u, l) /\ Opening(u) /\ l \in AgentLocals /\ UNCHANGED agentVars
  BY <1>1, <1>2, <1>3, <1>11, <1>13, <1>14
     DEF GetIdentity, DeleteAgent, AddExperience, UpdateIdentity, RollbackIdentity
<1>15. ASSUME NEW id \in Agents,
              \/ \E f \in Forks : ForkAgent(r, id, f)
              \/ \E f \in Forks, c \in CoreValues : ForkAgentWith(r, id, f, c)
       PROVE  \E u, l : Start(r, u, l) /\ Opening(u) /\ l \in AgentLocals /\ UNCHANGED agentVars
  BY <1>1, <1>2, <1>3, <1>9, <1>15 DEF ForkAgent, ForkAgentWith
<1>16. ASSUME NEW b \in BranchIds,
              \/ CreateBranch(r, b) \/ GetBranch(r, b) \/ MergeBranch(r, b) \/ DeleteBranch(r, b)
              \/ \E c \in CoreValues : CreateBranchWith(r, b, c) \/ UpdateBranch(r, b, c)
       PROVE  \E u, l : Start(r, u, l) /\ Opening(u) /\ l \in AgentLocals /\ UNCHANGED agentVars
  BY <1>1, <1>2, <1>3, <1>10, <1>12, <1>16
     DEF CreateBranch, GetBranch, MergeBranch, DeleteBranch, CreateBranchWith, UpdateBranch
<1> QED BY <1>8, <1>14, <1>15, <1>16

-----------------------------------------------------------------------------
(* Types, and steps of requests.                                            *)

RequestsTyped ==
    /\ request = [r \in Requests |-> request[r]] /\ tally \in Tallies /\ OneBusy
    /\ \A r \in Requests : AgentList(request[r].todo, request[r].loc)

StoreTyped ==
    /\ identity \in [Ids -> [version : Nat, core : AnyCore]]
    /\ snapshots \in [Ids -> [1 .. MaxVersion -> AnyCore]]
    /\ experience \in [stored : SUBSET Nat, index : [Ids -> SUBSET Nat]]
    /\ IsFiniteSet(experience.stored)

\* A request in progress goes on with these commands.
Goes(r, t, l) ==
    /\ r \in Busy /\ Moved(r, t, l) /\ AgentList(t, l)
    /\ tally' \in Tallies /\ tally'.overlapped = tally.overlapped
    /\ \/ tally'.faults = tally.faults
       \/ t = <<>> /\ tally'.faults = tally.faults + 1

\* What becomes of the commands s of a request when one about an agent is sent.
Onward(s, t) ==
    \/ t = <<>>
    \/ t = Tail(s) /\ s[1].do \notin {"readTail", "setEvent"} \cup PromotionDo
    \/ /\ t # <<>> /\ t[1].do = "setCurrent" /\ s[1].do \in {"get", "register"}
       /\ \A i \in 1 .. Len(t) : t[i].do \in Copying => \E j \in 1 .. Len(s) : j > 1 /\ t[i] = s[j]

(* The list of a request in progress. *)
LEMMA ListIs ==
    ASSUME RequestsTyped, NEW r \in Busy
    PROVE  /\ r \in Requests /\ request[r].todo # <<>>
           /\ request[r].todo \in Seq(AgentCommand) /\ InAgentOrder(request[r].todo)
           /\ request[r].loc \in AgentLocals
           /\ This(r) = request[r].todo[1] /\ This(r) \in AgentCommand
           /\ Tail(request[r].todo) \in Seq(AgentCommand) /\ InAgentOrder(Tail(request[r].todo))
           /\ Unwound(Tail(request[r].todo)) = <<>>
<1>1. r \in Requests /\ request[r].todo # <<>>
  BY DEF Busy
<1>2. PICK s, l : s = request[r].todo /\ l = request[r].loc
  OBVIOUS
<1>3. s \in Seq(AgentCommand) /\ InAgentOrder(s) /\ l \in AgentLocals /\ s # <<>>
  BY <1>1, <1>2 DEF RequestsTyped, AgentList
<1>4. /\ Tail(s) \in Seq(AgentCommand) /\ InAgentOrder(Tail(s)) /\ Head(s) = s[1] /\ s[1] \in AgentCommand
      /\ Unwound(Tail(s)) = <<>>
  BY <1>3, AgentTail
<1> QED BY <1>1, <1>2, <1>3, <1>4 DEF This

(* A step of a request leaves requests typed. *)
LEMMA GoesTyped ==
    ASSUME RequestsTyped, NEW r, NEW t, NEW l, Goes(r, t, l)
    PROVE  /\ RequestsTyped' /\ request'[r].todo = t /\ (t # <<>> => request'[r].loc = l)
           /\ \A q \in Requests : q # r => request'[q] = request[q]
           /\ r \in Requests
           /\ ~tally'.overlapped => ~tally.overlapped /\ \A q \in Busy : q = r
<1>1. r \in Requests /\ r \in Busy
  BY DEF Goes, Busy
<1>2. /\ request' = [q \in Requests |-> request'[q]]
      /\ \A q \in Requests : q # r => request'[q] = request[q]
      /\ request'[r] = IF t = <<>> THEN Idle ELSE [todo |-> t, loc |-> l]
      /\ request'[r].todo = t
      /\ Busy' \subseteq Busy \cup {r}
  BY <1>1, BusyThen DEF Goes
<1>3. t # <<>> => request'[r].loc = l
  BY <1>2
<1>4. \A q \in Requests : AgentList(request'[q].todo, request'[q].loc)
  BY <1>2, <1>3 DEF RequestsTyped, AgentList, Goes
<1>5. OneBusy'
  BY <1>1, <1>2 DEF OneBusy, RequestsTyped, Goes
<1>6. ~tally'.overlapped => ~tally.overlapped /\ \A q \in Busy : q = r
  BY <1>1 DEF OneBusy, RequestsTyped, Goes
<1>7. request' = [q \in Requests |-> request'[q]] /\ tally' \in Tallies
  BY <1>2 DEF Goes
<1> QED BY <1>1, <1>2, <1>3, <1>4, <1>5, <1>6, <1>7 DEF RequestsTyped

(* A request starts. *)
LEMMA OpensTyped ==
    ASSUME RequestsTyped, NEW r \in Requests, NEW t, NEW l, Start(r, t, l), Opening(t), l \in AgentLocals
    PROVE  /\ RequestsTyped' /\ request'[r].todo = t /\ request[r].todo = <<>>
           /\ \A q \in Requests : q # r => request'[q] = request[q]
           /\ tally'.faults = tally.faults
           /\ ~tally'.overlapped => ~tally.overlapped /\ Busy = {}
<1>1. /\ r \notin Busy /\ request[r].todo = <<>> /\ Moved(r, t, l)
      /\ tally' \in Tallies /\ tally'.faults = tally.faults
      /\ ~tally'.overlapped => ~tally.overlapped /\ Busy = {}
  BY Starts DEF RequestsTyped
<1>2. /\ request' = [q \in Requests |-> request'[q]]
      /\ \A q \in Requests : q # r => request'[q] = request[q]
      /\ request'[r] = IF t = <<>> THEN Idle ELSE [todo |-> t, loc |-> l]
      /\ request'[r].todo = t
      /\ Busy' \subseteq Busy \cup {r}
  BY <1>1, BusyThen
<1>3. AgentList(t, l) /\ t # <<>>
  BY DEF Opening, AgentList
<1>4. request'[r].loc = l
  BY <1>2, <1>3
<1>5. \A q \in Requests : AgentList(request'[q].todo, request'[q].loc)
  BY <1>2, <1>3, <1>4 DEF RequestsTyped
<1>6. OneBusy'
  BY <1>1, <1>2 DEF OneBusy
<1> QED BY <1>1, <1>2, <1>5, <1>6 DEF RequestsTyped

(* A command is sent. *)
LEMMA SentGoes ==
    ASSUME RequestsTyped, NEW r \in Requests, NEW do, At(r, do), NEW l \in AgentLocals, Sent(r, l)
    PROVE  Goes(r, Tail(request[r].todo), l) /\ request[r].todo[1].do = do
<1>1. r \in Busy /\ Head(request[r].todo).do = do
  BY DEF At
<1>2. /\ This(r) = request[r].todo[1] /\ Tail(request[r].todo) \in Seq(AgentCommand)
      /\ InAgentOrder(Tail(request[r].todo))
  BY <1>1, ListIs
<1>3. request[r].todo[1].do = do
  BY <1>1, <1>2 DEF This
<1>4. Moved(r, Tail(request[r].todo), l) /\ tally' = tally
  <2>1. Continue(r, Tail(request[r].todo), l) /\ tally' = tally
    BY DEF Sent, Rest
  <2> QED BY <2>1, GoesOn DEF RequestsTyped
<1>5. AgentList(Tail(request[r].todo), l)
  BY <1>2 DEF AgentList
<1> QED BY <1>1, <1>3, <1>4, <1>5 DEF Goes, RequestsTyped

(* A request is refused. *)
LEMMA RefuseGoes ==
    ASSUME RequestsTyped, NEW r \in Busy, Refuse(r)
    PROVE  Goes(r, <<>>, Loc(r))
<1>1. r \in Requests /\ Unwound(Tail(request[r].todo)) = <<>>
  BY ListIs
<1>2. Moved(r, <<>>, Loc(r)) /\ tally' = tally
  <2>1. Continue(r, <<>>, Loc(r)) /\ tally' = tally
    BY <1>1 DEF Refuse, Rest
  <2> QED BY <1>1, <2>1, GoesOn DEF RequestsTyped
<1>3. AgentList(<<>>, Loc(r))
  BY DEF AgentList, InAgentOrder, Chained
<1> QED BY <1>2, <1>3 DEF Goes, RequestsTyped

(* A command fails. *)
LEMMA FailGoes ==
    ASSUME RequestsTyped, NEW r \in Requests, CommandFails(r)
    PROVE  Goes(r, <<>>, Loc(r)) /\ tally'.faults = tally.faults + 1
<1>1. /\ r \in Busy /\ Moved(r, Unwound(Rest(r)), Loc(r))
      /\ tally' \in Tallies /\ tally'.faults = tally.faults + 1 /\ tally'.overlapped = tally.overlapped
  BY Fails DEF RequestsTyped
<1>2. Unwound(Rest(r)) = <<>>
  BY <1>1, ListIs DEF Rest
<1>3. AgentList(<<>>, Loc(r))
  BY DEF AgentList, InAgentOrder, Chained
<1> QED BY <1>1, <1>2, <1>3 DEF Goes

(* More commands are put before the rest. *)
LEMMA InsertGoes ==
    ASSUME RequestsTyped, NEW r \in Busy, NEW s, NEW a, NEW z, NEW l \in AgentLocals,
           PlainList(s, a, z), Insert(r, s, l), MayEnd(z),
           \A y : MayFollow(request[r].todo[1], y) => MayFollow(z, y)
    PROVE  \E t : /\ Goes(r, t, l) /\ t # <<>> /\ t[1] = a
                  /\ \A i \in 1 .. Len(t) : t[i].do \in Copying =>
                       \E j \in 1 .. Len(request[r].todo) : j > 1 /\ t[i] = request[r].todo[j]
<1>1. PICK v : v = request[r].todo
  OBVIOUS
<1>2. r \in Requests /\ v # <<>> /\ v \in Seq(AgentCommand) /\ InAgentOrder(v)
  BY <1>1, ListIs
<1>3. PICK u : u = Tail(v)
  OBVIOUS
<1>4. /\ u \in Seq(AgentCommand) /\ InAgentOrder(u) /\ Len(v) \in Nat /\ Len(u) = Len(v) - 1
      /\ \A i \in 1 .. Len(u) : i + 1 \in 1 .. Len(v) /\ u[i] = v[i + 1]
      /\ u # <<>> => u[1] = v[2] /\ MayFollow(v[1], v[2])
  BY <1>2, <1>3, AgentTail
<1>5. /\ s \in Seq(AgentCommand) /\ s # <<>> /\ Chained(s) /\ s[1] = a /\ s[Len(s)] = z
      /\ \A i \in 1 .. Len(s) : s[i].do \notin PromotionDo
  BY PlainIsPlain DEF PlainList
<1>6. \A i \in 1 .. Len(s) : s[i].do \notin Copying
  BY <1>5 DEF Copying, PromotionDo
<1>7. PICK t : t = s \o u
  OBVIOUS
<1>8. t \in Seq(AgentCommand) /\ t # <<>> /\ InAgentOrder(t) /\ t[1] = a
  <2>1. CASE u = <<>>
    <3>1. t = s
      BY <1>5, <1>7, <2>1, ConcatSimplifications
    <3> QED BY <1>5, <3>1 DEF InAgentOrder
  <2>2. CASE u # <<>>
    <3>1. MayFollow(s[Len(s)], u[1]) /\ Chained(u) /\ MayEnd(u[Len(u)])
      BY <1>1, <1>4, <1>5, <2>2 DEF InAgentOrder
    <3>2. t \in Seq(AgentCommand) /\ t # <<>> /\ Chained(t) /\ t[1] = s[1] /\ t[Len(t)] = u[Len(u)]
      BY <1>4, <1>5, <1>7, <2>2, <3>1, AgentJoin
    <3> QED BY <1>5, <3>1, <3>2 DEF InAgentOrder
  <2> QED BY <2>1, <2>2
<1>9. ASSUME NEW i \in 1 .. Len(t), t[i].do \in Copying
      PROVE  \E j \in 1 .. Len(v) : j > 1 /\ t[i] = v[j]
  <2>1. \/ i \in 1 .. Len(s) /\ t[i] = s[i]
        \/ i - Len(s) \in 1 .. Len(u) /\ t[i] = u[i - Len(s)]
    BY <1>4, <1>5, <1>7, ListBefore
  <2>2. i - Len(s) \in 1 .. Len(u) /\ t[i] = u[i - Len(s)]
    BY <1>6, <1>9, <2>1
  <2>3. PICK k : k = i - Len(s)
    OBVIOUS
  <2>4. k \in 1 .. Len(u) /\ t[i] = v[k + 1] /\ k + 1 \in 1 .. Len(v)
    BY <1>4, <2>2, <2>3
  <2>5. Len(u) \in Nat /\ k + 1 > 1
    BY <1>4, <2>4
  <2> QED BY <2>4, <2>5
<1>10. Moved(r, t, l) /\ tally' = tally
  <2>1. Continue(r, t, l) /\ tally' = tally
    BY <1>1, <1>3, <1>7 DEF Insert, Rest
  <2> QED BY <1>2, <2>1, GoesOn DEF RequestsTyped
<1>11. AgentList(t, l)
  BY <1>8 DEF AgentList
<1>12. Goes(r, t, l)
  BY <1>10, <1>11 DEF Goes, RequestsTyped
<1> QED BY <1>1, <1>8, <1>9, <1>12

(* What a command is about. *)
LEMMA CommandIs ==
    ASSUME NEW x \in AgentCommand
    PROVE  /\ x.do \in {"get", "use"} => x.id \in Ids /\ x.how \in Uses
           /\ x.do \in {"setCurrent", "setVersion", "addVersion"} => x.id \in Ids /\ x.how \in Stores
           /\ x.do \in {"readTail", "setEvent", "addEvent"} => x.id \in Ids /\ x.how \in Told
           /\ x.do \in {"delCurrent", "addAgent"} => x.id \in Ids
           /\ x.do \in {"register", "readVersion", "addExperience"} => x.id \in Ids
           /\ x.do = "register" => x.how \in BOOLEAN
           /\ x.do = "readVersion" => x.how \in 1 .. MaxVersion
           /\ x.do = "readProposal" => x.id \in Proposals /\ x.how \in Agents
           /\ x.do = "decide" => x.id \in Proposals /\ x.how \in Approvers
           /\ x.do = "applied" => x.id \in Proposals /\ x.how \in Requirements
           /\ x.do = "saveProposal" =>
                x.id \in Proposals /\ x.how \in {"pending", "approved", "rejected", "expired"}
           /\ x.do = "setProposal" => x.id \in Proposals /\ x.how \in Agents \X CoreValues \X Risks
           /\ x.do = "setPolicy" => x.id \in Agents /\ x.how \in Requirements
           /\ x.do = "log" => x.how \in Logged
<1>1. CASE x \in PlainCommand
  <2>1. CASE x \in IdentityCalls
    BY <2>1 DEF IdentityCalls
  <2>2. CASE x \in AgentCalls
    BY <2>2 DEF AgentCalls, Ids
  <2>3. CASE x \in BranchCalls
    BY <2>3 DEF BranchCalls
  <2>4. CASE x \in ForkCalls
    BY <2>4 DEF ForkCalls
  <2> QED BY <1>1, <2>1, <2>2, <2>3, <2>4 DEF PlainCommand
<1>2. CASE x \in ProposalCalls
  <2>1. CASE x \in [do : {"readProposal"}, id : Proposals, how : Agents]
    BY <2>1
  <2>2. CASE x \in [do : {"decide"}, id : Proposals, how : Approvers]
    BY <2>2
  <2>3. CASE x \in [do : {"applied"}, id : Proposals, how : Requirements]
    BY <2>3
  <2>4. CASE x \in [do : {"saveProposal"}, id : Proposals, how : {"pending", "approved", "rejected", "expired"}]
    BY <2>4
  <2>5. CASE x \in [do : {"setProposal"}, id : Proposals, how : Agents \X CoreValues \X Risks]
    BY <2>5
  <2> QED BY <1>2, <2>1, <2>2, <2>3, <2>4, <2>5 DEF ProposalCalls
<1>3. CASE x \in PolicyCalls
  BY <1>3 DEF PolicyCalls
<1> QED BY <1>1, <1>2, <1>3 DEF AgentCommand

(* The locals of requests. *)
LEMMA LocalsAre ==
    ASSUME NEW l \in AgentLocals
    PROVE  /\ \A n \in Nat : /\ [l EXCEPT !.prev = n] \in AgentLocals /\ [l EXCEPT !.event = n] \in AgentLocals
                             /\ \A core \in AnyCore : [l EXCEPT !.version = n, !.core = core] \in AgentLocals
           /\ [l EXCEPT !.prev = 0, !.event = 0] \in AgentLocals
           /\ \A core \in AnyCore : [l EXCEPT !.core = core] \in AgentLocals
           /\ \A how \in Uses, doc \in [version : Nat, core : AnyCore] : Taken(l, how, doc) \in AgentLocals
           /\ l.version \in Nat /\ l.core \in AnyCore /\ l.prev \in Nat /\ l.event \in Nat
<1>1. /\ \A n \in Nat : [l EXCEPT !.prev = n] \in AgentLocals /\ [l EXCEPT !.event = n] \in AgentLocals
      /\ [l EXCEPT !.prev = 0, !.event = 0] \in AgentLocals
      /\ l.version \in Nat /\ l.core \in AnyCore /\ l.prev \in Nat /\ l.event \in Nat
  BY DEF AgentLocals, AnyCore
<1>2. \A n \in Nat, core \in AnyCore : [l EXCEPT !.version = n, !.core = core] \in AgentLocals
  BY DEF AgentLocals, AnyCore
<1>3. \A core \in AnyCore : [l EXCEPT !.core = core] \in AgentLocals
  BY DEF AgentLocals, AnyCore
<1>4. ASSUME NEW doc \in [version : Nat, core : AnyCore]
      PROVE  /\ [l EXCEPT !.version = doc.version] \in AgentLocals
             /\ [l EXCEPT !.core = doc.core] \in AgentLocals
             /\ [l EXCEPT !.version = doc.version, !.core = doc.core] \in AgentLocals
             /\ [l EXCEPT !.version = doc.version + 1] \in AgentLocals
  <2>1. doc.version \in Nat /\ doc.version + 1 \in Nat /\ doc.core \in AnyCore
    OBVIOUS
  <2>2. \A n \in Nat : [l EXCEPT !.version = n] \in AgentLocals
    BY DEF AgentLocals
  <2> QED BY <1>2, <1>3, <2>1, <2>2
<1>5. ASSUME NEW how \in Uses, NEW doc \in [version : Nat, core : AnyCore]
      PROVE  Taken(l, how, doc) \in AgentLocals
  BY <1>4 DEF Taken, Uses
<1> QED BY <1>1, <1>2, <1>3, <1>5

\* A step of a request that leaves the audit log as it is.
Quiet(r) ==
    /\ \E t, l : Goes(r, t, l) /\ Onward(request[r].todo, t)
    /\ tally'.faults = tally.faults => request[r].todo[1].do \notin PromotionDo
    /\ UNCHANGED auditVars /\ StoreTyped'

LEMMA GetIsQuiet ==
    ASSUME RequestsTyped, StoreTyped, NEW r \in Requests, Get(r)
    PROVE  Quiet(r)
<1> USE DEF identityVars, auditVars, branchVars, experienceVars
<1>1. StoreTyped' /\ UNCHANGED auditVars /\ At(r, "get")
  BY DEF Get, StoreTyped
<1>2. PICK s : s = request[r].todo
  OBVIOUS
<1>3. r \in Busy /\ This(r) = s[1] /\ s[1].do = "get" /\ s[1].id \in Ids /\ s[1].how \in Uses /\ Loc(r) \in AgentLocals
  <2>1. r \in Busy /\ This(r).do = "get"
    BY <1>1 DEF At, This
  <2> QED BY <1>2, <2>1, ListIs, CommandIs DEF Loc
<1>4. CASE identity[s[1].id] # NoDoc
  <2>1. PICK l : l = Taken(Loc(r), s[1].how, identity[s[1].id])
    OBVIOUS
  <2>2. l \in AgentLocals
    BY <1>3, <2>1, LocalsAre DEF StoreTyped
  <2>3. Sent(r, l)
    BY <1>3, <1>4, <2>1 DEF Get
  <2>4. Goes(r, Tail(s), l)
    BY <1>1, <1>2, <2>2, <2>3, SentGoes
  <2>5. Onward(s, Tail(s))
    BY <1>3 DEF Onward, PromotionDo
  <2> QED BY <1>1, <1>2, <1>3, <2>4, <2>5 DEF Quiet, PromotionDo
<1>5. CASE identity[s[1].id] = NoDoc
  <2>1. PICK id, how : id = s[1].id /\ how = s[1].how
    OBVIOUS
  <2>2. id \in Ids /\ how \in Uses /\ "new" \in Stores
    BY <1>3, <2>1 DEF Stores
  <2>3. /\ PlainList(CreateIdentity(id, "new"), C("setCurrent", id, "new"), C("addEvent", id, "Created"))
        /\ PlainList(Cmd("addAgent", id, "-"), C("addAgent", id, "-"), C("addAgent", id, "-"))
        /\ PlainList(Cmd("use", id, how), C("use", id, how), C("use", id, how))
    BY <2>2, CreateList, IdentityCommand, PlainOne
  <2>4. /\ Loose(C("addEvent", id, "Created")) /\ Free(C("addAgent", id, "-"))
        /\ Loose(C("addAgent", id, "-")) /\ Free(C("use", id, how))
    BY LooseFree DEF PromotionDo, Refusing
  <2>5. PICK more : more = CreateIdentity(id, "new") \o Cmd("addAgent", id, "-") \o Cmd("use", id, how)
    OBVIOUS
  <2>6. PlainList(more, C("setCurrent", id, "new"), C("use", id, how))
    <3>1. PlainList(CreateIdentity(id, "new") \o Cmd("addAgent", id, "-"),
                    C("setCurrent", id, "new"), C("addAgent", id, "-"))
      BY <2>3, <2>4, FreeJoin
    <3> QED BY <2>3, <2>4, <2>5, <3>1, FreeJoin
  <2>7. MayEnd(C("use", id, how)) /\ C("setCurrent", id, "new").do = "setCurrent"
    BY DEF MayEnd, C
  <2>8. \A y : MayFollow(s[1], y) => MayFollow(C("use", id, how), y)
    BY <1>3 DEF MayFollow, C
  <2>9. Insert(r, more, Loc(r))
    BY <1>3, <1>5, <2>1, <2>5 DEF Get
  <2>10. PICK t : /\ Goes(r, t, Loc(r)) /\ t # <<>> /\ t[1] = C("setCurrent", id, "new")
                  /\ \A i \in 1 .. Len(t) : t[i].do \in Copying =>
                       \E j \in 1 .. Len(s) : j > 1 /\ t[i] = s[j]
    BY <1>2, <1>3, <2>6, <2>7, <2>8, <2>9, InsertGoes
  <2>11. Onward(s, t)
    BY <1>3, <2>7, <2>10 DEF Onward
  <2> QED BY <1>1, <1>2, <1>3, <2>10, <2>11 DEF Quiet, PromotionDo
<1> QED BY <1>4, <1>5

LEMMA RegisterIsQuiet ==
    ASSUME RequestsTyped, StoreTyped, NEW r \in Requests, Register(r)
    PROVE  Quiet(r)
<1> USE DEF identityVars, auditVars, branchVars, experienceVars
<1>1. StoreTyped' /\ UNCHANGED auditVars /\ At(r, "register")
  BY DEF Register, StoreTyped
<1>2. PICK s : s = request[r].todo
  OBVIOUS
<1>3. r \in Busy /\ This(r) = s[1] /\ s[1].do = "register" /\ s[1].id \in Ids /\ Loc(r) \in AgentLocals
  <2>1. r \in Busy /\ This(r).do = "register"
    BY <1>1 DEF At, This
  <2> QED BY <1>2, <2>1, ListIs, CommandIs DEF Loc
<1>4. PICK id : id = s[1].id
  OBVIOUS
<1>5. ASSUME NEW more, NEW how, NEW l \in AgentLocals, NEW z, PlainList(more, C("setCurrent", id, how), z),
             MayEnd(z), Loose(z), Insert(r, more, l)
      PROVE  Quiet(r)
  <2>1. \A y : MayFollow(s[1], y) => Free(y)
    BY <1>3 DEF MayFollow, Free, PromotionDo, Refusing
  <2>2. \A y : MayFollow(s[1], y) => MayFollow(z, y)
    BY <1>5, <2>1, LooseFree
  <2>3. PICK t : /\ Goes(r, t, l) /\ t # <<>> /\ t[1] = C("setCurrent", id, how)
                 /\ \A i \in 1 .. Len(t) : t[i].do \in Copying =>
                      \E j \in 1 .. Len(s) : j > 1 /\ t[i] = s[j]
    <3>1. PlainList(more, C("setCurrent", id, how), z) /\ Insert(r, more, l) /\ MayEnd(z)
      BY <1>5
    <3>2. \A y : MayFollow(request[r].todo[1], y) => MayFollow(z, y)
      BY <1>2, <2>2
    <3>3. PICK t : /\ Goes(r, t, l) /\ t # <<>> /\ t[1] = C("setCurrent", id, how)
                   /\ \A i \in 1 .. Len(t) : t[i].do \in Copying =>
                        \E j \in 1 .. Len(request[r].todo) : j > 1 /\ t[i] = request[r].todo[j]
      BY <1>3, <1>5, <3>1, <3>2, InsertGoes
    <3> QED BY <1>2, <3>3
  <2>4. Onward(s, t)
    BY <1>3, <2>3 DEF Onward, C
  <2> QED BY <1>1, <1>2, <1>3, <2>3, <2>4 DEF Quiet, PromotionDo
<1>6. CASE identity[id] = NoDoc
  <2>1. PlainList(CreateIdentity(id, "first"), C("setCurrent", id, "first"), C("addEvent", id, "Created"))
    BY <1>3, <1>4, CreateList DEF Stores
  <2>2. MayEnd(C("addEvent", id, "Created")) /\ Loose(C("addEvent", id, "Created"))
    BY LooseFree DEF MayEnd, C, PromotionDo
  <2>3. Insert(r, CreateIdentity(id, "first"), Loc(r))
    BY <1>3, <1>4, <1>6 DEF Register
  <2> QED BY <1>3, <1>5, <2>1, <2>2, <2>3
<1>7. CASE identity[id] # NoDoc /\ This(r).how
  <2>1. PICK l : l = [Loc(r) EXCEPT !.version = identity[id].version,
                                    !.core = [identity[id].core EXCEPT !.described = TRUE]]
    OBVIOUS
  <2>2. identity[id].version \in Nat /\ [identity[id].core EXCEPT !.described = TRUE] \in AnyCore
    BY <1>3, <1>4, CoresAre DEF StoreTyped
  <2>3. l \in AgentLocals
    BY <1>3, <2>1, <2>2, LocalsAre
  <2>4. PlainList(Cmd("setCurrent", id, "edited"), C("setCurrent", id, "edited"), C("setCurrent", id, "edited"))
    BY <1>3, <1>4, IdentityCommand, PlainOne DEF Stores
  <2>5. MayEnd(C("setCurrent", id, "edited")) /\ Loose(C("setCurrent", id, "edited"))
    BY LooseFree DEF MayEnd, C, PromotionDo
  <2>6. Insert(r, Cmd("setCurrent", id, "edited"), l)
    BY <1>3, <1>4, <1>7, <2>1 DEF Register
  <2> QED BY <1>5, <2>3, <2>4, <2>5, <2>6
<1>8. CASE identity[id] # NoDoc /\ ~This(r).how
  <2>1. Sent(r, Loc(r))
    BY <1>3, <1>4, <1>8 DEF Register, Done
  <2>2. Goes(r, Tail(s), Loc(r))
    BY <1>1, <1>2, <1>3, <2>1, SentGoes
  <2>3. Onward(s, Tail(s))
    BY <1>3 DEF Onward, PromotionDo
  <2> QED BY <1>1, <1>2, <1>3, <2>2, <2>3 DEF Quiet, PromotionDo
<1> QED BY <1>6, <1>7, <1>8

(* A command that is sent and whose answer is only remembered. *)
LEMMA SentIsQuiet ==
    ASSUME RequestsTyped, NEW r \in Requests, NEW do, do \notin {"readTail", "setEvent"} \cup PromotionDo,
           At(r, do), NEW l \in AgentLocals, Sent(r, l), UNCHANGED auditVars, StoreTyped'
    PROVE  Quiet(r)
<1>1. Goes(r, Tail(request[r].todo), l) /\ request[r].todo[1].do = do
  BY SentGoes
<1>2. Onward(request[r].todo, Tail(request[r].todo))
  BY <1>1 DEF Onward
<1> QED BY <1>1, <1>2 DEF Quiet

LEMMA RefuseIsQuiet ==
    ASSUME RequestsTyped, NEW r \in Requests, NEW do, do \notin PromotionDo, At(r, do), Refuse(r),
           UNCHANGED auditVars, StoreTyped'
    PROVE  Quiet(r)
<1>1. r \in Busy /\ Head(request[r].todo).do = do
  BY DEF At
<1>2. request[r].todo[1].do = do
  BY <1>1, ListIs DEF This
<1>3. Goes(r, <<>>, Loc(r)) /\ Onward(request[r].todo, <<>>)
  BY <1>1, RefuseGoes DEF Onward
<1> QED BY <1>2, <1>3 DEF Quiet

(* What a step leaves alone keeps its type. *)
LEMMA StoreStays ==
    ASSUME StoreTyped, identity' = identity, snapshots' = snapshots, experience' = experience
    PROVE  StoreTyped'
BY DEF StoreTyped

(* The documents a request stores. *)
LEMMA DocIs ==
    ASSUME NEW r, This(r).how \in Stores, Loc(r) \in AgentLocals
    PROVE  Doc(r) \in [version : Nat, core : AnyCore]
<1>1. NewProfile \in [version : Nat, core : AnyCore]
  BY CoresAre DEF NewProfile
<1>2. /\ [version |-> 1, core |-> Loc(r).core] \in [version : Nat, core : AnyCore]
      /\ [version |-> Loc(r).version, core |-> Loc(r).core] \in [version : Nat, core : AnyCore]
  BY LocalsAre
<1> QED BY <1>1, <1>2 DEF Doc, Stores

(* The commands about an agent that do not touch its audit log. *)
LEMMA AgentIsQuiet ==
    ASSUME RequestsTyped, StoreTyped, NEW r \in Requests,
           \/ Use(r) \/ Need(r) \/ SetCurrent(r) \/ SetVersion(r) \/ AddVersion(r) \/ ReadVersion(r)
           \/ AddAgent(r) \/ DelCurrent(r) \/ RemAgent(r) \/ SetMeta(r) \/ DelMeta(r) \/ AddBranch(r)
           \/ RemBranch(r) \/ SetExperience(r) \/ IndexExperience(r) \/ CopyExperience(r)
           \/ SetLineage(r) \/ SetForkEvent(r) \/ (CommandFails(r) /\ UNCHANGED agentVars)
           \/ (NeedEvidence(r) /\ UNCHANGED agentVars)
    PROVE  Quiet(r)
<1> USE DEF identityVars, branchVars, experienceVars
<1>1. ASSUME NEW do, At(r, do)
      PROVE  r \in Busy /\ Loc(r) \in AgentLocals /\ This(r) \in AgentCommand /\ This(r).do = do
  <2>1. r \in Busy /\ This(r).do = do
    BY <1>1 DEF At, This
  <2> QED BY <2>1, ListIs DEF Loc
<1>2. ASSUME NEW do, do \notin {"readTail", "setEvent"} \cup PromotionDo, At(r, do),
             Done(r), UNCHANGED auditVars, StoreTyped'
      PROVE  Quiet(r)
  BY <1>1, <1>2, SentIsQuiet DEF Done
<1>3. CASE Use(r)
  <2>1. At(r, "use") /\ Sent(r, Taken(Loc(r), This(r).how, NewProfile)) /\ UNCHANGED auditVars /\ StoreTyped'
    BY <1>3, StoreStays DEF Use
  <2>2. This(r).how \in Uses /\ NewProfile \in [version : Nat, core : AnyCore]
    BY <1>1, <2>1, CommandIs, CoresAre DEF NewProfile
  <2>3. Taken(Loc(r), This(r).how, NewProfile) \in AgentLocals
    BY <1>1, <2>1, <2>2, LocalsAre
  <2> QED BY <2>1, <2>3, SentIsQuiet DEF PromotionDo
<1>4. CASE Need(r)
  <2>1. UNCHANGED auditVars /\ StoreTyped'
    BY <1>4, StoreStays DEF Need
  <2>2. PICK do \in {"needIdentity", "needNoIdentity", "needBranch", "needNoBranch", "needUnmerged"} :
          At(r, do) /\ (Done(r) \/ Refuse(r))
    BY <1>4 DEF Need
  <2>3. do \notin {"readTail", "setEvent"} \cup PromotionDo
    BY DEF PromotionDo
  <2> QED BY <1>2, <2>1, <2>2, <2>3, RefuseIsQuiet
<1>5. CASE SetCurrent(r)
  <2>1. At(r, "setCurrent") /\ Done(r) /\ UNCHANGED auditVars
        /\ identity' = [identity EXCEPT ![This(r).id] = Doc(r)] /\ snapshots' = snapshots /\ experience' = experience
    BY <1>5 DEF SetCurrent
  <2>2. Doc(r) \in [version : Nat, core : AnyCore]
    BY <1>1, <2>1, CommandIs, DocIs
  <2>3. StoreTyped'
    BY <2>1, <2>2 DEF StoreTyped
  <2> QED BY <1>2, <2>1, <2>3 DEF PromotionDo
<1>6. CASE SetVersion(r)
  <2>1. At(r, "setVersion") /\ Done(r) /\ UNCHANGED auditVars /\ identity' = identity /\ experience' = experience
        /\ snapshots' = [snapshots EXCEPT ![This(r).id][Doc(r).version] = Doc(r).core]
    BY <1>6 DEF SetVersion
  <2>2. Doc(r) \in [version : Nat, core : AnyCore]
    BY <1>1, <2>1, CommandIs, DocIs
  <2>3. StoreTyped'
    BY <2>1, <2>2 DEF StoreTyped
  <2> QED BY <1>2, <2>1, <2>3 DEF PromotionDo
<1>7. CASE ReadVersion(r)
  <2>1. At(r, "readVersion") /\ UNCHANGED auditVars /\ StoreTyped'
    BY <1>7, StoreStays DEF ReadVersion
  <2>2. This(r).id \in Ids /\ This(r).how \in 1 .. MaxVersion
    BY <1>1, <2>1, CommandIs
  <2>3. PICK core : core = snapshots[This(r).id][This(r).how]
    OBVIOUS
  <2>4. core \in AnyCore
    BY <2>2, <2>3 DEF StoreTyped
  <2>5. Refuse(r) \/ Sent(r, [Loc(r) EXCEPT !.core = core])
    BY <1>7, <2>3 DEF ReadVersion
  <2>6. [Loc(r) EXCEPT !.core = core] \in AgentLocals
    BY <1>1, <2>1, <2>4, LocalsAre
  <2> QED BY <2>1, <2>5, <2>6, SentIsQuiet, RefuseIsQuiet DEF PromotionDo
<1>8. CASE DelCurrent(r)
  <2>1. At(r, "delCurrent") /\ Done(r) /\ UNCHANGED auditVars
        /\ identity' = [identity EXCEPT ![This(r).id] = NoDoc] /\ snapshots' = snapshots /\ experience' = experience
    BY <1>8 DEF DelCurrent
  <2>2. NoDoc \in [version : Nat, core : AnyCore]
    BY CoresAre DEF NoDoc
  <2>3. StoreTyped'
    BY <2>1, <2>2 DEF StoreTyped
  <2> QED BY <1>2, <2>1, <2>3 DEF PromotionDo
<1>9. CASE SetExperience(r)
  <2>1. PICK e : e = Cardinality(experience.stored) + 1
    OBVIOUS
  <2>2. At(r, "setExperience") /\ Sent(r, [Loc(r) EXCEPT !.event = e]) /\ UNCHANGED auditVars
        /\ identity' = identity /\ snapshots' = snapshots
        /\ experience' = [experience EXCEPT !.stored = @ \cup {e}]
    BY <1>9, <2>1 DEF SetExperience
  <2>3. e \in Nat
    BY <2>1, FS_CardinalityType DEF StoreTyped
  <2>4. IsFiniteSet(experience.stored \cup {e})
    BY FS_AddElement DEF StoreTyped
  <2>5. StoreTyped'
    BY <2>2, <2>3, <2>4 DEF StoreTyped
  <2>6. [Loc(r) EXCEPT !.event = e] \in AgentLocals
    BY <1>1, <2>2, <2>3, LocalsAre
  <2> QED BY <2>2, <2>5, <2>6, SentIsQuiet DEF PromotionDo
<1>10. CASE IndexExperience(r)
  <2>1. At(r, "addExperience") /\ Done(r) /\ UNCHANGED auditVars /\ identity' = identity /\ snapshots' = snapshots
        /\ experience' = [experience EXCEPT !.index[This(r).id] = @ \cup {Loc(r).event}]
    BY <1>10 DEF IndexExperience
  <2>2. Loc(r).event \in Nat /\ This(r).id \in Ids
    BY <1>1, <2>1, LocalsAre, CommandIs
  <2>3. StoreTyped'
    BY <2>1, <2>2 DEF StoreTyped
  <2> QED BY <1>2, <2>1, <2>3 DEF PromotionDo
<1>11. CASE AddVersion(r) \/ AddAgent(r) \/ RemAgent(r) \/ SetMeta(r) \/ DelMeta(r) \/ AddBranch(r)
              \/ RemBranch(r) \/ CopyExperience(r) \/ SetLineage(r) \/ SetForkEvent(r)
  <2>1. UNCHANGED auditVars /\ StoreTyped' /\ Done(r)
    BY <1>11, StoreStays DEF AddVersion, AddAgent, RemAgent, SetMeta, DelMeta, AddBranch, RemBranch,
                             CopyExperience, SetLineage, SetForkEvent
  <2>2. \E do \in {"addVersion", "addAgent", "remAgent", "setMeta", "delMeta", "addBranch", "remBranch",
                   "copyExperience", "setLineage", "setForkEvent"} : At(r, do)
    BY <1>11 DEF AddVersion, AddAgent, RemAgent, SetMeta, DelMeta, AddBranch, RemBranch,
                 CopyExperience, SetLineage, SetForkEvent
  <2> QED BY <1>2, <2>1, <2>2 DEF PromotionDo
<1>12. CASE CommandFails(r) /\ UNCHANGED agentVars
  <2>1. UNCHANGED auditVars /\ StoreTyped'
    BY <1>12, StoreStays DEF agentVars
  <2>2. Goes(r, <<>>, Loc(r)) /\ tally'.faults = tally.faults + 1
    BY <1>12, FailGoes
  <2>3. tally'.faults # tally.faults
    BY <2>2 DEF RequestsTyped, Tallies
  <2> QED BY <2>1, <2>2, <2>3 DEF Quiet, Onward
<1>13. CASE NeedEvidence(r) /\ UNCHANGED agentVars
  <2>1. UNCHANGED auditVars /\ StoreTyped' /\ At(r, "needEvidence") /\ (Done(r) \/ Refuse(r))
    BY <1>13, StoreStays DEF agentVars, NeedEvidence
  <2> QED BY <1>2, <2>1, RefuseIsQuiet DEF PromotionDo
<1> QED BY <1>3, <1>4, <1>5, <1>6, <1>7, <1>8, <1>9, <1>10, <1>11, <1>12, <1>13

-----------------------------------------------------------------------------
(* The audit log.                                                           *)

Event == [agent : Ids, action : Told, prev : Nat, to : Nat]
AuditTyped == events \in Seq(Event) /\ audit \in [Ids -> SUBSET (1 .. Len(events))]

\* What a request that appends to the log holds.
FitsAudit(t, l) == t # <<>> /\ t[1].do = "addEvent" => l.event \in 1 .. Len(events)

\* ... when requests run one after the other.
FitsChain(t, l) ==
    t # <<>> =>
      /\ t[1].do = "setEvent" => l.prev = Tailing(t[1].id)
      /\ t[1].do = "addEvent" => /\ events[l.event].prev = Tailing(t[1].id)
                                 /\ \A e \in audit[t[1].id] : e < l.event

ChainFits ==
    ~tally.overlapped =>
      /\ \A id \in Ids : verify_audit_chain(id)
      /\ \A r \in Requests : FitsChain(request[r].todo, request[r].loc)

AuditInv ==
    AuditTyped /\ ChainFits /\ \A r \in Requests : FitsAudit(request[r].todo, request[r].loc)

\* The last of some events.
Latest(S) == IF S = {} THEN 0 ELSE CHOOSE e \in S : \A f \in S : f <= e
Verified(log, S) == \A e \in S : log[e].prev = Latest({f \in S : f < e})

LEMMA LatestIs ==
    ASSUME NEW id
    PROVE  /\ Tailing(id) = Latest(audit[id]) /\ Tailing(id)' = Latest(audit'[id])
           /\ verify_audit_chain(id) <=> Verified(events, audit[id])
           /\ verify_audit_chain(id)' <=> Verified(events', audit'[id])
<1>1. Tailing(id) = Latest(audit[id]) /\ Tailing(id)' = Latest(audit'[id])
  BY Zenon DEF Tailing, Latest
<1>2. verify_audit_chain(id) <=> Verified(events, audit[id])
  BY Zenon DEF verify_audit_chain, Verified, Latest
<1>3. verify_audit_chain(id)' <=> Verified(events', audit'[id])
  BY Zenon DEF verify_audit_chain, Verified, Latest
<1> QED BY <1>1, <1>2, <1>3

(* The last event of the index of an agent. *)
LEMMA TailingIs ==
    ASSUME AuditTyped, NEW id \in Ids
    PROVE  Tailing(id) \in Nat
<1>1. PICK S, n : S = audit[id] /\ n = Len(events)
  OBVIOUS
<1>2. n \in Nat /\ S \subseteq 1 .. n
  BY <1>1 DEF AuditTyped
<1>3. CASE S = {}
  BY <1>1, <1>3 DEF Tailing
<1>4. CASE S # {}
  <2> DEFINE T == {n - i : i \in S}
  <2>0. \A i \in S : i \in Nat /\ n - i \in Nat
    BY <1>2
  <2>1. T # {} /\ T \subseteq Nat
    BY <1>4, <2>0
  <2> HIDE DEF T
  <2>2. PICK m \in T : \A j \in T : <<j, m>> \notin OpToRel(<, Nat)
    BY <2>1, WFMin, NatLessThanWellFounded
  <2>3. \A j \in T : ~(j < m)
    BY <2>1, <2>2 DEF OpToRel
  <2>4. PICK e \in S : m = n - e
    BY <2>2 DEF T
  <2>5. \A f \in S : n - f \in T
    BY DEF T
  <2>6. \A f \in S : ~(n - f < n - e)
    BY <2>3, <2>4, <2>5
  <2>7. \A f \in S : f <= e
    BY <1>2, <2>4, <2>6
  <2>8. Tailing(id) \in S
    BY <1>1, <1>4, <2>4, <2>7 DEF Tailing
  <2> QED BY <2>0, <2>8
<1> QED BY <1>3, <1>4

(* Steps that leave the log as it is. *)
LEMMA ChainStays ==
    ASSUME AuditInv, events' = events, audit' = audit,
           \A q \in Requests : \/ request'[q] = request[q]
                               \/ request'[q].todo = <<>>
                               \/ request'[q].todo[1].do \notin {"setEvent", "addEvent"},
           ~tally'.overlapped => ~tally.overlapped
    PROVE  AuditInv'
<1>1. AuditTyped'
  BY DEF AuditInv, AuditTyped
<1>2. \A q \in Requests : FitsAudit(request[q].todo, request[q].loc)'
  BY DEF AuditInv, FitsAudit
<1>3. ASSUME ~tally'.overlapped
      PROVE  /\ \A id \in Ids : verify_audit_chain(id)'
             /\ \A q \in Requests : FitsChain(request[q].todo, request[q].loc)'
  <2>1. /\ \A id \in Ids : verify_audit_chain(id)
        /\ \A q \in Requests : FitsChain(request[q].todo, request[q].loc)
    BY <1>3 DEF AuditInv, ChainFits
  <2>2. \A id \in Ids : verify_audit_chain(id)'
    BY <2>1, LatestIs
  <2>3. \A q \in Requests : FitsChain(request[q].todo, request[q].loc)'
    BY <2>1, LatestIs DEF FitsChain
  <2> QED BY <2>2, <2>3
<1>4. ChainFits'
  BY <1>3 DEF ChainFits
<1> QED BY <1>1, <1>2, <1>4 DEF AuditInv

(* What comes after a command that is not about an event. *)
LEMMA OnwardIs ==
    ASSUME RequestsTyped, NEW r \in Busy, NEW t, Onward(request[r].todo, t), t # <<>>
    PROVE  t[1].do \notin {"setEvent", "addEvent", "readProposal", "decide", "saveProposal", "setPolicy", "log"}
<1>1. PICK s : s = request[r].todo
  OBVIOUS
<1>2. s \in Seq(AgentCommand) /\ s # <<>> /\ InAgentOrder(s)
  BY <1>1, ListIs
<1>3. Tail(s) # <<>> => Tail(s)[1] = s[2] /\ MayFollow(s[1], s[2])
  BY <1>2, AgentTail
<1>4. CASE t = Tail(s) /\ s[1].do \notin {"readTail", "setEvent"} \cup PromotionDo
  <2>1. t[1] = s[2] /\ MayFollow(s[1], s[2])
    BY <1>3, <1>4
  <2> QED BY <1>4, <2>1 DEF MayFollow, PromotionDo, Refusing
<1>5. CASE t[1].do = "setCurrent"
  BY <1>5 DEF PromotionDo
<1> QED BY <1>1, <1>4, <1>5 DEF Onward

\* A command about the log of an agent.
AuditStep(r) ==
    /\ \E l : Goes(r, Tail(request[r].todo), l)
    /\ request[r].todo[1].do \in {"readTail", "setEvent", "addEvent"}
    /\ StoreTyped' /\ AuditInv'

(* The command that comes next. *)
LEMMA NextIs ==
    ASSUME RequestsTyped, NEW r \in Busy, NEW u, u = Tail(request[r].todo), u # <<>>
    PROVE  MayFollow(This(r), u[1]) /\ u[1] \in AgentCommand
<1>1. PICK s : s = request[r].todo
  OBVIOUS
<1>2. s \in Seq(AgentCommand) /\ s # <<>> /\ InAgentOrder(s) /\ This(r) = s[1]
  BY <1>1, ListIs
<1>3. Tail(s) # <<>> => Tail(s)[1] = s[2] /\ MayFollow(s[1], s[2]) /\ s[2] \in AgentCommand
  BY <1>2, AgentTail
<1> QED BY <1>1, <1>2, <1>3

LEMMA ReadTailKeeps ==
    ASSUME RequestsTyped, StoreTyped, AuditInv, NEW r \in Requests, ReadTail(r)
    PROVE  AuditStep(r)
<1> USE DEF identityVars, branchVars, experienceVars, auditVars
<1>1. /\ At(r, "readTail") /\ Sent(r, [Loc(r) EXCEPT !.prev = Tailing(This(r).id)])
      /\ events' = events /\ audit' = audit /\ StoreTyped'
  BY StoreStays DEF ReadTail
<1>2. r \in Busy /\ This(r).do = "readTail"
  BY <1>1 DEF At, This
<1>3. PICK x, u, l : x = This(r) /\ u = Tail(request[r].todo) /\ l = [Loc(r) EXCEPT !.prev = Tailing(x.id)]
  OBVIOUS
<1>4. x \in AgentCommand /\ x = request[r].todo[1] /\ Loc(r) \in AgentLocals /\ x.id \in Ids
  BY <1>2, <1>3, ListIs, CommandIs DEF Loc
<1>5. Tailing(x.id) \in Nat
  BY <1>4, TailingIs DEF AuditInv
<1>6. l \in AgentLocals /\ l.prev = Tailing(x.id)
  BY <1>3, <1>4, <1>5, LocalsAre DEF AgentLocals
<1>7. Goes(r, u, l)
  BY <1>1, <1>3, <1>6, SentGoes
<1>8. /\ request'[r].todo = u /\ (u # <<>> => request'[r].loc = l)
      /\ \A q \in Requests : q # r => request'[q] = request[q]
      /\ ~tally'.overlapped => ~tally.overlapped
  BY <1>7, GoesTyped
<1>9. u # <<>> => u[1].do = "setEvent" /\ u[1].id = x.id
  BY <1>2, <1>3, NextIs DEF MayFollow
<1>10. AuditTyped'
  BY <1>1 DEF AuditInv, AuditTyped
<1>11. \A q \in Requests : FitsAudit(request[q].todo, request[q].loc)'
  BY <1>1, <1>8, <1>9 DEF AuditInv, FitsAudit
<1>12. ASSUME ~tally'.overlapped
       PROVE  /\ \A id \in Ids : verify_audit_chain(id)'
              /\ \A q \in Requests : FitsChain(request[q].todo, request[q].loc)'
  <2>1. /\ \A id \in Ids : verify_audit_chain(id)
        /\ \A q \in Requests : FitsChain(request[q].todo, request[q].loc)
    BY <1>8, <1>12 DEF AuditInv, ChainFits
  <2>2. \A id \in Ids : verify_audit_chain(id)'
    BY <1>1, <2>1, LatestIs
  <2>3. ASSUME NEW q \in Requests
        PROVE  FitsChain(request[q].todo, request[q].loc)'
    <3>1. CASE q # r
      <4>1. request'[q] = request[q]
        BY <1>8, <3>1
      <4> QED BY <1>1, <2>1, <4>1, LatestIs DEF FitsChain
    <3>2. CASE q = r
      <4>1. Tailing(x.id)' = Tailing(x.id)
        BY <1>1, LatestIs
      <4> QED BY <1>6, <1>8, <1>9, <3>2, <4>1 DEF FitsChain
    <3> QED BY <3>1, <3>2
  <2> QED BY <2>2, <2>3
<1>13. AuditInv'
  BY <1>10, <1>11, <1>12 DEF AuditInv, ChainFits
<1> QED BY <1>1, <1>2, <1>3, <1>4, <1>7, <1>13 DEF AuditStep

LEMMA SetEventKeeps ==
    ASSUME RequestsTyped, StoreTyped, AuditInv, NEW r \in Requests, SetEvent(r)
    PROVE  AuditStep(r)
<1> USE DEF identityVars, branchVars, experienceVars, auditVars
<1>1. PICK x, u, n : x = This(r) /\ u = Tail(request[r].todo) /\ n = Len(events)
  OBVIOUS
<1>2. PICK l : l = [Loc(r) EXCEPT !.event = n + 1]
  OBVIOUS
<1>3. PICK e : e = [agent |-> x.id, action |-> x.how, prev |-> Loc(r).prev,
                    to |-> IF x.how = "Created" THEN 1 ELSE Loc(r).version]
  OBVIOUS
<1>4. /\ At(r, "setEvent") /\ Sent(r, l) /\ events' = Append(events, e)
      /\ audit' = audit /\ StoreTyped'
  BY <1>1, <1>2, <1>3, StoreStays DEF SetEvent
<1>5. r \in Busy /\ x.do = "setEvent"
  BY <1>1, <1>4 DEF At, This
<1>6. x \in AgentCommand /\ x = request[r].todo[1] /\ Loc(r) \in AgentLocals /\ x.id \in Ids /\ x.how \in Told
  BY <1>1, <1>5, ListIs, CommandIs DEF Loc
<1>7. n \in Nat /\ events \in Seq(Event)
  BY <1>1 DEF AuditInv, AuditTyped
<1>8. l \in AgentLocals /\ l.event = n + 1 /\ n + 1 \in Nat /\ Loc(r).prev \in Nat /\ Loc(r).version \in Nat
  <2>1. n + 1 \in Nat
    BY <1>7
  <2> QED BY <1>2, <1>6, <2>1, LocalsAre DEF AgentLocals
<1>9. e \in Event /\ e.prev = Loc(r).prev
  BY <1>3, <1>6, <1>8 DEF Event
<1>10. /\ events' \in Seq(Event) /\ Len(events') = n + 1 /\ events'[n + 1] = e
       /\ \A i \in 1 .. n : events'[i] = events[i]
  BY <1>1, <1>4, <1>7, <1>9
<1>11. Goes(r, u, l)
  BY <1>1, <1>4, <1>8, SentGoes
<1>12. /\ request'[r].todo = u /\ (u # <<>> => request'[r].loc = l)
       /\ \A q \in Requests : q # r => request'[q] = request[q]
       /\ ~tally'.overlapped => ~tally.overlapped /\ \A q \in Busy : q = r
  BY <1>11, GoesTyped
<1>13. u # <<>> => u[1].do = "addEvent" /\ u[1].id = x.id
  BY <1>1, <1>5, NextIs DEF MayFollow
<1>14. 1 .. n \subseteq 1 .. n + 1 /\ n + 1 \in 1 .. n + 1
  BY <1>7
<1>15. AuditTyped'
  BY <1>1, <1>4, <1>10, <1>14 DEF AuditInv, AuditTyped
<1>16. ASSUME NEW q \in Requests
       PROVE  FitsAudit(request[q].todo, request[q].loc)'
  <2>1. CASE q # r
    BY <1>1, <1>10, <1>12, <1>14, <2>1 DEF AuditInv, FitsAudit
  <2>2. CASE q = r
    BY <1>8, <1>10, <1>12, <1>14, <2>2 DEF FitsAudit
  <2> QED BY <2>1, <2>2
<1>17. ASSUME ~tally'.overlapped
       PROVE  /\ \A id \in Ids : verify_audit_chain(id)'
              /\ \A q \in Requests : FitsChain(request[q].todo, request[q].loc)'
  <2>1. /\ \A id \in Ids : verify_audit_chain(id)
        /\ \A q \in Requests : FitsChain(request[q].todo, request[q].loc)
    BY <1>12, <1>17 DEF AuditInv, ChainFits
  <2>2. \A id \in Ids : audit[id] \subseteq 1 .. n
    BY <1>1 DEF AuditInv, AuditTyped
  <2>3. \A id \in Ids : verify_audit_chain(id)'
    <3>1. ASSUME NEW id \in Ids
          PROVE  Verified(events', audit[id])
      <4>1. Verified(events, audit[id])
        BY <2>1, LatestIs
      <4>2. \A i \in audit[id] : events'[i] = events[i]
        BY <1>10, <2>2
      <4> QED BY <4>1, <4>2 DEF Verified
    <3> QED BY <1>4, <3>1, LatestIs
  <2>4. ASSUME NEW q \in Requests, q # r
        PROVE  FitsChain(request[q].todo, request[q].loc)'
    <3>1. request'[q] = request[q] /\ q \notin Busy
      BY <1>12, <1>17, <2>4
    <3>2. request'[q].todo = <<>>
      BY <3>1 DEF Busy
    <3> QED BY <3>2 DEF FitsChain
  <2>5. FitsChain(request[r].todo, request[r].loc)'
    <3>1. Loc(r).prev = Tailing(x.id)
      BY <1>5, <1>6, <2>1 DEF FitsChain, Loc, Busy
    <3>2. Tailing(x.id)' = Tailing(x.id)
      BY <1>4, LatestIs
    <3>3. u # <<>> => events'[l.event].prev = Tailing(x.id)'
      BY <1>8, <1>9, <1>10, <3>1, <3>2
    <3>4. \A i \in audit'[x.id] : i < l.event
      BY <1>4, <1>6, <1>7, <1>8, <2>2
    <3> QED BY <1>12, <1>13, <3>3, <3>4 DEF FitsChain
  <2> QED BY <2>3, <2>4, <2>5
<1>18. AuditInv'
  BY <1>15, <1>16, <1>17 DEF AuditInv, ChainFits
<1> QED BY <1>1, <1>4, <1>5, <1>6, <1>11, <1>18 DEF AuditStep

LEMMA AddEventKeeps ==
    ASSUME RequestsTyped, StoreTyped, AuditInv, NEW r \in Requests, AddEvent(r)
    PROVE  AuditStep(r)
<1> USE DEF identityVars, branchVars, experienceVars, auditVars
<1>1. PICK x, u, k, l : x = This(r) /\ u = Tail(request[r].todo) /\ k = Loc(r).event
                        /\ l = [Loc(r) EXCEPT !.prev = 0, !.event = 0]
  OBVIOUS
<1>2. /\ At(r, "addEvent") /\ Sent(r, l) /\ events' = events
      /\ audit' = [audit EXCEPT ![x.id] = @ \cup {k}] /\ StoreTyped'
  BY <1>1, StoreStays DEF AddEvent
<1>3. r \in Busy /\ x.do = "addEvent"
  BY <1>1, <1>2 DEF At, This
<1>4. x \in AgentCommand /\ x = request[r].todo[1] /\ Loc(r) \in AgentLocals /\ x.id \in Ids
      /\ request[r].todo # <<>>
  BY <1>1, <1>3, ListIs, CommandIs DEF Loc
<1>5. l \in AgentLocals
  BY <1>1, <1>4, LocalsAre
<1>6. Goes(r, u, l)
  BY <1>1, <1>2, <1>5, SentGoes
<1>7. /\ request'[r].todo = u
      /\ \A q \in Requests : q # r => request'[q] = request[q]
      /\ ~tally'.overlapped => ~tally.overlapped /\ \A q \in Busy : q = r
  BY <1>6, GoesTyped
<1>8. u # <<>> => u[1].do \notin {"setEvent", "addEvent"}
  <2>1. u # <<>> => MayFollow(x, u[1])
    BY <1>1, <1>3, NextIs
  <2> QED BY <1>3, <2>1 DEF MayFollow
<1>9. k \in 1 .. Len(events)
  BY <1>1, <1>3, <1>4 DEF AuditInv, FitsAudit, Loc
<1>10. AuditTyped'
  BY <1>2, <1>4, <1>9 DEF AuditInv, AuditTyped
<1>11. \A q \in Requests : FitsAudit(request[q].todo, request[q].loc)'
  BY <1>2, <1>7, <1>8 DEF AuditInv, FitsAudit
<1>12. /\ \A id \in Ids : id # x.id => audit'[id] = audit[id]
       /\ audit'[x.id] = audit[x.id] \cup {k}
  BY <1>2, <1>4 DEF AuditInv, AuditTyped
<1>13. ASSUME ~tally'.overlapped
       PROVE  /\ \A id \in Ids : verify_audit_chain(id)'
              /\ \A q \in Requests : FitsChain(request[q].todo, request[q].loc)'
  <2>1. /\ \A id \in Ids : verify_audit_chain(id)
        /\ \A q \in Requests : FitsChain(request[q].todo, request[q].loc)
    BY <1>7, <1>13 DEF AuditInv, ChainFits
  <2>2. events[k].prev = Latest(audit[x.id]) /\ \A e \in audit[x.id] : e < k
    BY <1>1, <1>3, <1>4, <2>1, LatestIs DEF FitsChain, Loc
  <2>3. PICK S : S = audit[x.id]
    OBVIOUS
  <2>4. S \subseteq Nat /\ k \in Nat
    BY <1>4, <1>9, <2>3 DEF AuditInv, AuditTyped
  <2>5. Verified(events, S \cup {k})
    <3>1. Verified(events, S)
      BY <1>4, <2>1, <2>3, LatestIs
    <3>2. \A e \in S : {f \in S \cup {k} : f < e} = {f \in S : f < e}
      BY <2>2, <2>3, <2>4
    <3>3. {f \in S \cup {k} : f < k} = S
      BY <2>2, <2>3, <2>4
    <3>4. \A e \in S : events[e].prev = Latest({f \in S \cup {k} : f < e})
      BY <3>1, <3>2 DEF Verified
    <3>5. events[k].prev = Latest({f \in S \cup {k} : f < k})
      BY <2>2, <2>3, <3>3
    <3> QED BY <3>4, <3>5 DEF Verified
  <2>6. \A id \in Ids : verify_audit_chain(id)'
    <3>1. ASSUME NEW id \in Ids
          PROVE  Verified(events, audit'[id])
      <4>1. CASE id = x.id
        BY <1>12, <2>3, <2>5, <4>1
      <4>2. CASE id # x.id
        BY <1>12, <2>1, <4>2, LatestIs
      <4> QED BY <4>1, <4>2
    <3> QED BY <1>2, <3>1, LatestIs
  <2>7. ASSUME NEW q \in Requests
        PROVE  FitsChain(request[q].todo, request[q].loc)'
    <3>1. CASE q # r
      <4>1. request'[q].todo = <<>>
        BY <1>7, <1>13, <3>1 DEF Busy
      <4> QED BY <4>1 DEF FitsChain
    <3>2. CASE q = r
      BY <1>7, <1>8, <3>2 DEF FitsChain
    <3> QED BY <3>1, <3>2
  <2> QED BY <2>6, <2>7
<1>14. AuditInv'
  BY <1>10, <1>11, <1>13 DEF AuditInv, ChainFits
<1> QED BY <1>1, <1>2, <1>3, <1>4, <1>6, <1>14 DEF AuditStep

-----------------------------------------------------------------------------
(* Proposals.                                                               *)

Proposal == [status : {"pending", "approved", "rejected", "expired"}, agent : Agents, core : AnyCore,
             risk : Risks, approvers : Seq(Approvers), created : Nat]
PromotionTyped ==
    /\ proposals \in [Proposals -> Proposal \cup {NoProposal}]
    /\ copies \in [Requests -> Proposal \cup {NoProposal}]
    /\ policy \in [Agents -> Requirements] /\ clock \in Nat
    /\ promotionPast \in [voted : [Proposals -> SUBSET Approvers],
                          applied : [Proposals -> Seq([by : Seq(Approvers), asked : Nat])]]

OnceEach(s) == \A i, j \in 1 .. Len(s) : s[i] = s[j] => i = j

\* Who approved a proposal, or a copy of it, has voted for it, once.
Backed(s, voters) == OnceEach(s) /\ \A i \in 1 .. Len(s) : s[i] \in voters

\* The copy of a proposal a request works on.
FitsCopy(x, q, voted) ==
    /\ q.status = "pending" /\ Backed(q.approvers, voted[x.id])
    /\ x.do = "applied" => Len(q.approvers) >= requirement_for_risk(x.how, q.risk).min
FitsPromotion(t, q, voted) ==
    t # <<>> /\ t[1].do # "readProposal" =>
      \A i \in 1 .. Len(t) : t[i].do \in Copying => FitsCopy(t[i], q, voted)

ProposalsBacked ==
    \A p \in Proposals :
      /\ Backed(proposals[p].approvers, promotionPast.voted[p])
      /\ \A i \in 1 .. Len(promotionPast.applied[p]) :
           /\ Backed(promotionPast.applied[p][i].by, promotionPast.voted[p])
           /\ Len(promotionPast.applied[p][i].by) >= promotionPast.applied[p][i].asked

PromotionInv ==
    PromotionTyped /\ ProposalsBacked /\ \A r \in Requests : FitsPromotion(request[r].todo, copies[r], promotionPast.voted)

\* No command on a copy is new.
Carries(s, t) ==
    \/ t = <<>> \/ t[1].do = "readProposal"
    \/ \A i \in 1 .. Len(t) : t[i].do \in Copying =>
         s # <<>> /\ s[1].do # "readProposal" /\ \E j \in 1 .. Len(s) : t[i] = s[j]

LEMMA CarriesFit ==
    ASSUME NEW s, NEW t, NEW q, NEW voted, FitsPromotion(s, q, voted), Carries(s, t)
    PROVE  FitsPromotion(t, q, voted)
BY DEF FitsPromotion, Carries

(* The rest of a list. *)
LEMMA TailCarries ==
    ASSUME RequestsTyped, NEW r \in Busy, request[r].todo[1].do # "readProposal"
    PROVE  Carries(request[r].todo, Tail(request[r].todo))
<1>1. PICK s : s = request[r].todo
  OBVIOUS
<1>2. s \in Seq(AgentCommand) /\ s # <<>> /\ InAgentOrder(s)
  BY <1>1, ListIs
<1>3. \A i \in 1 .. Len(Tail(s)) : i + 1 \in 1 .. Len(s) /\ Tail(s)[i] = s[i + 1]
  BY <1>2, AgentTail
<1> QED BY <1>1, <1>2, <1>3 DEF Carries

LEMMA OnwardCarries ==
    ASSUME RequestsTyped, NEW r \in Busy, NEW t, Onward(request[r].todo, t)
    PROVE  Carries(request[r].todo, t)
<1>1. request[r].todo # <<>>
  BY DEF Busy
<1>2. CASE t = Tail(request[r].todo) /\ request[r].todo[1].do \notin {"readTail", "setEvent"} \cup PromotionDo
  BY <1>2, TailCarries DEF PromotionDo
<1> QED BY <1>1, <1>2 DEF Onward, Carries

LEMMA OpeningCarries ==
    ASSUME NEW t, Opening(t), NEW s
    PROVE  Carries(s, t)
BY DEF Opening, Carries

(* A decision, and the log of one, are last. *)
LEMMA LastOnes ==
    ASSUME NEW t \in Seq(AgentCommand), t # <<>>, InAgentOrder(t)
    PROVE  /\ t[1].do \in {"decide", "log"} => Tail(t) = <<>> /\ Len(t) = 1
           /\ t[1].do \in {"decide", "saveProposal"} => \A i \in 1 .. Len(t) : t[i].do \in Copying => i = 1
<1>1. /\ Tail(t) \in Seq(AgentCommand) /\ InAgentOrder(Tail(t)) /\ Len(t) \in Nat /\ Len(t) >= 1
      /\ Len(Tail(t)) = Len(t) - 1 /\ (Tail(t) = <<>> => Len(t) = 1)
      /\ (Tail(t) # <<>> => Tail(t)[1] = t[2] /\ MayFollow(t[1], t[2]))
  BY AgentTail
<1>2. t[1].do \in {"decide", "log"} => Tail(t) = <<>>
  BY <1>1 DEF MayFollow
<1>3. ASSUME t[1].do = "saveProposal", Tail(t) # <<>>
      PROVE  Len(t) = 2 /\ t[2].do = "log"
  <2>1. PICK u : u = Tail(t)
    OBVIOUS
  <2>2. u \in Seq(AgentCommand) /\ u # <<>> /\ InAgentOrder(u) /\ u[1].do = "log" /\ t[2].do = "log"
    BY <1>1, <1>3, <2>1 DEF MayFollow
  <2>3. Tail(u) = <<>> /\ (Tail(u) = <<>> => Len(u) = 1)
    BY <2>2, AgentTail DEF MayFollow
  <2> QED BY <1>1, <2>1, <2>2, <2>3
<1>4. ASSUME t[1].do \in {"decide", "saveProposal"}, NEW i \in 1 .. Len(t), t[i].do \in Copying
      PROVE  i = 1
  <2>1. Len(t) = 1 \/ (Len(t) = 2 /\ t[2].do = "log")
    BY <1>1, <1>2, <1>3, <1>4
  <2>2. i = 1 \/ i = 2
    BY <1>1, <2>1
  <2> QED BY <1>1, <1>4, <2>1, <2>2 DEF Copying
<1> QED BY <1>1, <1>2, <1>4

(* Steps about agents and proposals alike. *)
LEMMA PromotionStays ==
    ASSUME PromotionInv, UNCHANGED <<proposals, policy, copies, promotionPast>>, clock' \in Nat,
           \A q \in Requests : request'[q] = request[q] \/ Carries(request[q].todo, request'[q].todo)
    PROVE  PromotionInv'
<1>1. PromotionTyped'
  BY DEF PromotionInv, PromotionTyped
<1>2. ProposalsBacked'
  BY DEF PromotionInv, ProposalsBacked
<1>3. ASSUME NEW q \in Requests
      PROVE  FitsPromotion(request'[q].todo, copies[q], promotionPast.voted)
  <2>1. FitsPromotion(request[q].todo, copies[q], promotionPast.voted)
    BY DEF PromotionInv
  <2> QED BY <2>1, CarriesFit
<1> QED BY <1>1, <1>2, <1>3 DEF PromotionInv

(* Short lists about proposals. *)
LEMMA PromotionCommand ==
    /\ \A p \in Proposals :
         /\ \A a \in Agents : C("readProposal", p, a) \in AgentCommand
         /\ \A who \in Approvers : C("decide", p, who) \in AgentCommand
         /\ \A pol \in Requirements : C("applied", p, pol) \in AgentCommand
         /\ \A st \in {"pending", "approved", "rejected", "expired"} : C("saveProposal", p, st) \in AgentCommand
         /\ \A h \in Agents \X CoreValues \X Risks : C("setProposal", p, h) \in AgentCommand
    /\ \A a \in Agents : C("needEvidence", a, "-") \in AgentCommand
    /\ \A a \in Agents, pol \in Requirements : C("setPolicy", a, pol) \in AgentCommand
    /\ \A k \in Proposals \cup Agents, w \in Logged : C("log", k, w) \in AgentCommand
<1>1. \A x \in ProposalCalls \cup PolicyCalls \cup PlainCommand : x \in AgentCommand
  BY DEF AgentCommand
<1>2. \A p \in Proposals :
         /\ \A a \in Agents : C("readProposal", p, a) \in ProposalCalls
         /\ \A who \in Approvers : C("decide", p, who) \in ProposalCalls
         /\ \A pol \in Requirements : C("applied", p, pol) \in ProposalCalls
         /\ \A st \in {"pending", "approved", "rejected", "expired"} : C("saveProposal", p, st) \in ProposalCalls
         /\ \A h \in Agents \X CoreValues \X Risks : C("setProposal", p, h) \in ProposalCalls
  BY DEF C, ProposalCalls
<1>3. /\ \A a \in Agents, pol \in Requirements : C("setPolicy", a, pol) \in PolicyCalls
      /\ \A k \in Proposals \cup Agents, w \in Logged : C("log", k, w) \in PolicyCalls
  BY DEF C, PolicyCalls
<1>4. \A a \in Agents : C("needEvidence", a, "-") \in PlainCommand
  BY OtherCommand
<1> QED BY <1>1, <1>2, <1>3, <1>4

LEMMA OneCommand ==
    ASSUME NEW do, NEW id, NEW how, C(do, id, how) \in AgentCommand
    PROVE  LET t == Cmd(do, id, how) IN
           /\ t \in Seq(AgentCommand) /\ t # <<>> /\ Chained(t) /\ Len(t) = 1 /\ t[1] = C(do, id, how)
<1>1. PICK c : c = C(do, id, how)
  OBVIOUS
<1>2. Cmd(do, id, how) = <<c>>
  BY <1>1 DEF Cmd, C
<1>3. <<c>> \in Seq(AgentCommand) /\ Len(<<c>>) = 1 /\ <<c>>[1] = c /\ <<c>> # <<>>
  BY <1>1
<1>4. Chained(<<c>>)
  BY <1>3 DEF Chained
<1> QED BY <1>1, <1>2, <1>3, <1>4

LEMMA TwoCommands ==
    ASSUME NEW do, NEW id, NEW how, C(do, id, how) \in AgentCommand,
           NEW u \in Seq(AgentCommand), u # <<>>, Chained(u), MayFollow(C(do, id, how), u[1])
    PROVE  LET t == Cmd(do, id, how) \o u IN
           /\ t \in Seq(AgentCommand) /\ t # <<>> /\ Chained(t) /\ Len(t) = Len(u) + 1
           /\ t[1] = C(do, id, how) /\ t[Len(t)] = u[Len(u)]
           /\ \A i \in 1 .. Len(t) : t[i] = C(do, id, how) \/ \E j \in 1 .. Len(u) : t[i] = u[j]
<1>1. PICK s : s = Cmd(do, id, how)
  OBVIOUS
<1>2. s \in Seq(AgentCommand) /\ s # <<>> /\ Chained(s) /\ Len(s) = 1 /\ s[1] = C(do, id, how)
  BY <1>1, OneCommand
<1>3. MayFollow(s[Len(s)], u[1])
  BY <1>2
<1>4. /\ s \o u \in Seq(AgentCommand) /\ s \o u # <<>> /\ Chained(s \o u)
      /\ (s \o u)[1] = s[1] /\ (s \o u)[Len(s \o u)] = u[Len(u)]
  BY <1>2, <1>3, AgentJoin
<1>5. /\ Len(s \o u) = Len(s) + Len(u) /\ Len(u) \in Nat
      /\ \A i \in 1 .. Len(s \o u) : \/ i \in 1 .. Len(s) /\ (s \o u)[i] = s[i]
                                     \/ i - Len(s) \in 1 .. Len(u) /\ (s \o u)[i] = u[i - Len(s)]
  BY <1>2, ListBefore
<1>6. \A i \in 1 .. Len(s \o u) : (s \o u)[i] = s[1] \/ \E j \in 1 .. Len(u) : (s \o u)[i] = u[j]
  BY <1>2, <1>5
<1> QED BY <1>1, <1>2, <1>4, <1>5, <1>6

\* What a request about a proposal starts with, or puts before the rest.
LEMMA SaveList ==
    ASSUME NEW p \in Proposals, NEW st \in {"pending", "approved", "rejected", "expired"}, NEW w \in Logged,
           st # "pending" => w = Announced[st]
    PROVE  LET t == Cmd("saveProposal", p, st) \o Cmd("log", p, w) IN
           /\ t \in Seq(AgentCommand) /\ t # <<>> /\ InAgentOrder(t)
           /\ t[1] = C("saveProposal", p, st) /\ t[Len(t)] = C("log", p, w)
           /\ \A i \in 1 .. Len(t) : t[i] = C("saveProposal", p, st) \/ t[i] = C("log", p, w)
<1>1. C("saveProposal", p, st) \in AgentCommand /\ C("log", p, w) \in AgentCommand
  BY PromotionCommand
<1>2. PICK u : u = Cmd("log", p, w)
  OBVIOUS
<1>3. u \in Seq(AgentCommand) /\ u # <<>> /\ Chained(u) /\ Len(u) = 1 /\ u[1] = C("log", p, w)
  BY <1>1, <1>2, OneCommand
<1>4. MayFollow(C("saveProposal", p, st), u[1]) /\ MayEnd(C("log", p, w))
  BY <1>3 DEF MayFollow, MayEnd, C, Refusing
<1>5. PICK t : t = Cmd("saveProposal", p, st) \o u
  OBVIOUS
<1>6. /\ t \in Seq(AgentCommand) /\ t # <<>> /\ Chained(t)
      /\ t[1] = C("saveProposal", p, st) /\ t[Len(t)] = u[Len(u)]
      /\ \A i \in 1 .. Len(t) : t[i] = C("saveProposal", p, st) \/ \E j \in 1 .. Len(u) : t[i] = u[j]
  BY <1>1, <1>3, <1>4, <1>5, TwoCommands
<1>7. t[Len(t)] = C("log", p, w) /\ \A j \in 1 .. Len(u) : u[j] = C("log", p, w)
  <2>1. \A j \in 1 .. Len(u) : j = 1
    BY <1>3
  <2> QED BY <1>3, <1>6, <2>1
<1>8. InAgentOrder(t)
  BY <1>4, <1>6, <1>7 DEF InAgentOrder
<1> QED BY <1>2, <1>5, <1>6, <1>7, <1>8

LEMMA CommandAfter ==
    ASSUME NEW s \in Seq(AgentCommand), s # <<>>, Chained(s),
           NEW do, NEW id, NEW how, C(do, id, how) \in AgentCommand, MayFollow(s[Len(s)], C(do, id, how))
    PROVE  LET t == s \o Cmd(do, id, how) IN
           /\ t \in Seq(AgentCommand) /\ t # <<>> /\ Chained(t)
           /\ t[1] = s[1] /\ t[Len(t)] = C(do, id, how)
           /\ \A i \in 1 .. Len(t) : t[i] = C(do, id, how) \/ \E j \in 1 .. Len(s) : t[i] = s[j]
<1>1. PICK u : u = Cmd(do, id, how)
  OBVIOUS
<1>2. u \in Seq(AgentCommand) /\ u # <<>> /\ Chained(u) /\ Len(u) = 1 /\ u[1] = C(do, id, how)
  BY <1>1, OneCommand
<1>3. MayFollow(s[Len(s)], u[1])
  BY <1>2
<1>4. /\ s \o u \in Seq(AgentCommand) /\ s \o u # <<>> /\ Chained(s \o u)
      /\ (s \o u)[1] = s[1] /\ (s \o u)[Len(s \o u)] = u[Len(u)]
  BY <1>2, <1>3, AgentJoin
<1>5. \A i \in 1 .. Len(s \o u) : \/ i \in 1 .. Len(s) /\ (s \o u)[i] = s[i]
                                  \/ i - Len(s) \in 1 .. Len(u) /\ (s \o u)[i] = u[i - Len(s)]
  BY <1>2, ListBefore
<1>6. \A j \in 1 .. Len(u) : u[j] = u[1]
  BY <1>2
<1>7. \A i \in 1 .. Len(s \o u) : (s \o u)[i] = u[1] \/ \E j \in 1 .. Len(s) : (s \o u)[i] = s[j]
  BY <1>5, <1>6
<1> QED BY <1>1, <1>2, <1>4, <1>7

LEMMA ApproveList ==
    ASSUME NEW p \in Proposals, NEW a \in Agents, NEW pol \in Requirements
    PROVE  LET t == update_agent_identity(a) \o Cmd("applied", p, pol) \o Cmd("saveProposal", p, "approved")
                      \o Cmd("log", p, "promotion_approved") IN
           /\ t \in Seq(AgentCommand) /\ t # <<>> /\ InAgentOrder(t) /\ t[1].do = "get"
           /\ \A i \in 1 .. Len(t) : t[i].do \in Copying =>
                t[i] = C("applied", p, pol) \/ t[i] = C("saveProposal", p, "approved")
<1>1. /\ C("applied", p, pol) \in AgentCommand /\ C("saveProposal", p, "approved") \in AgentCommand
      /\ C("log", p, "promotion_approved") \in AgentCommand /\ a \in Ids
  BY PromotionCommand DEF Logged, Ids
<1>2. PICK s, x, y, z : /\ s = update_agent_identity(a) /\ x = C("applied", p, pol)
                        /\ y = C("saveProposal", p, "approved") /\ z = C("log", p, "promotion_approved")
  OBVIOUS
<1>3. PlainList(s, C("get", a, "update"), C("addEvent", a, "Updated"))
  BY <1>1, <1>2, UpdateList
<1>4. /\ s \in Seq(AgentCommand) /\ s # <<>> /\ Chained(s)
      /\ s[1] = C("get", a, "update") /\ s[Len(s)] = C("addEvent", a, "Updated")
      /\ \A i \in 1 .. Len(s) : s[i].do \notin Copying
  BY <1>3, PlainIsPlain DEF PlainList, Copying, PromotionDo
<1>5. MayFollow(C("addEvent", a, "Updated"), x) /\ MayFollow(x, y) /\ MayFollow(y, z) /\ MayEnd(z)
  BY <1>2 DEF MayFollow, MayEnd, C, Refusing, Announced
<1>6. PICK u : u = s \o Cmd("applied", p, pol)
  OBVIOUS
<1>7. /\ u \in Seq(AgentCommand) /\ u # <<>> /\ Chained(u) /\ u[1] = s[1] /\ u[Len(u)] = x
      /\ \A i \in 1 .. Len(u) : u[i] = x \/ \E j \in 1 .. Len(s) : u[i] = s[j]
  <2>1. MayFollow(s[Len(s)], C("applied", p, pol)) /\ C("applied", p, pol) \in AgentCommand
    BY <1>1, <1>2, <1>4, <1>5
  <2>2. s \in Seq(AgentCommand) /\ s # <<>> /\ Chained(s)
    BY <1>4
  <2>3. PICK c : c = C("applied", p, pol)
    OBVIOUS
  <2>4. /\ u \in Seq(AgentCommand) /\ u # <<>> /\ Chained(u) /\ u[1] = s[1] /\ u[Len(u)] = c
        /\ \A i \in 1 .. Len(u) : u[i] = c \/ \E j \in 1 .. Len(s) : u[i] = s[j]
    BY <1>6, <2>1, <2>2, <2>3, CommandAfter
  <2> QED BY <1>2, <2>3, <2>4
<1>8. PICK v : v = u \o Cmd("saveProposal", p, "approved")
  OBVIOUS
<1>9. /\ v \in Seq(AgentCommand) /\ v # <<>> /\ Chained(v) /\ v[1] = u[1] /\ v[Len(v)] = y
      /\ \A i \in 1 .. Len(v) : v[i] = y \/ \E j \in 1 .. Len(u) : v[i] = u[j]
  BY <1>1, <1>2, <1>5, <1>7, <1>8, CommandAfter
<1>10. PICK t : t = v \o Cmd("log", p, "promotion_approved")
  OBVIOUS
<1>11. /\ t \in Seq(AgentCommand) /\ t # <<>> /\ Chained(t) /\ t[1] = v[1] /\ t[Len(t)] = z
       /\ \A i \in 1 .. Len(t) : t[i] = z \/ \E j \in 1 .. Len(v) : t[i] = v[j]
  BY <1>1, <1>2, <1>5, <1>9, <1>10, CommandAfter
<1>12. z.do \notin Copying
  BY <1>2 DEF C, Copying
<1>13. \A i \in 1 .. Len(t) : t[i].do \in Copying => t[i] = x \/ t[i] = y
  <2>1. \A j \in 1 .. Len(u) : u[j].do \in Copying => u[j] = x
    BY <1>4, <1>7
  <2>2. \A j \in 1 .. Len(v) : v[j].do \in Copying => v[j] = x \/ v[j] = y
    BY <1>9, <2>1
  <2> QED BY <1>11, <1>12, <2>2
<1>14. InAgentOrder(t) /\ t[1].do = "get"
  BY <1>4, <1>5, <1>7, <1>9, <1>11 DEF InAgentOrder, C
<1> QED BY <1>2, <1>6, <1>8, <1>10, <1>11, <1>13, <1>14

(* A request about a proposal or a policy starts. *)
LEMMA PromotionOpens ==
    ASSUME NEW r \in Requests,
           \/ \E p \in Proposals, a \in Agents :
                \/ \E c \in CoreValues, risk \in Risks : CreateProposal(r, p, a, c, risk)
                \/ \E who \in Approvers : ApproveProposal(r, p, a, who)
                \/ RejectProposal(r, p, a)
           \/ \E a \in Agents, pol \in Policies : SetPolicy(r, a, pol)
    PROVE  \E t, l : /\ Start(r, t, l) /\ Opening(t) /\ l \in AgentLocals
                     /\ UNCHANGED agentVars /\ UNCHANGED promotionVars
<1>1. ASSUME NEW t, StartPromotion(r, t, NoCore), Opening(t)
      PROVE  \E u, l : /\ Start(r, u, l) /\ Opening(u) /\ l \in AgentLocals
                       /\ UNCHANGED agentVars /\ UNCHANGED promotionVars
  <2>1. Locals(NoCore) \in AgentLocals
    BY CoresAre
  <2>2. Start(r, t, Locals(NoCore)) /\ UNCHANGED agentVars /\ UNCHANGED promotionVars
    BY <1>1 DEF StartPromotion, Ask
  <2> QED BY <1>1, <2>1, <2>2
<1>2. ASSUME NEW p \in Proposals, NEW a \in Agents, NEW c \in CoreValues, NEW risk \in Risks,
             CreateProposal(r, p, a, c, risk)
      PROVE  \E u, l : /\ Start(r, u, l) /\ Opening(u) /\ l \in AgentLocals
                       /\ UNCHANGED agentVars /\ UNCHANGED promotionVars
  <2>1. PICK h : h = <<a, c, risk>>
    OBVIOUS
  <2>2. PICK x, y, z : x = C("needEvidence", a, "-") /\ y = C("setProposal", p, h) /\ z = C("log", p, "promotion_proposed")
    OBVIOUS
  <2>3. /\ C("needEvidence", a, "-") \in AgentCommand /\ C("setProposal", p, h) \in AgentCommand
        /\ C("log", p, "promotion_proposed") \in AgentCommand
    BY <2>1, PromotionCommand DEF Logged
  <2>4. MayFollow(x, y) /\ MayFollow(y, z) /\ MayEnd(z) /\ x.do = "needEvidence" /\ y.do = "setProposal" /\ z.do = "log"
    BY <2>2 DEF MayFollow, MayEnd, C, Refusing
  <2>5. PICK s, u : s = Cmd("needEvidence", a, "-") /\ u = s \o Cmd("setProposal", p, h)
    OBVIOUS
  <2>14. PICK t : t = u \o Cmd("log", p, "promotion_proposed")
    OBVIOUS
  <2>6. s \in Seq(AgentCommand) /\ s # <<>> /\ Chained(s) /\ Len(s) = 1 /\ s[1] = x
    BY <2>2, <2>3, <2>5, OneCommand
  <2>7. MayFollow(s[Len(s)], C("setProposal", p, h))
    BY <2>2, <2>4, <2>6
  <2>8. /\ u \in Seq(AgentCommand) /\ u # <<>> /\ Chained(u) /\ u[1] = s[1] /\ u[Len(u)] = C("setProposal", p, h)
        /\ \A i \in 1 .. Len(u) : u[i] = C("setProposal", p, h) \/ \E j \in 1 .. Len(s) : u[i] = s[j]
    BY <2>3, <2>5, <2>6, <2>7, CommandAfter
  <2>9. MayFollow(u[Len(u)], C("log", p, "promotion_proposed"))
    BY <2>2, <2>4, <2>8
  <2>10. /\ t \in Seq(AgentCommand) /\ t # <<>> /\ Chained(t) /\ t[1] = u[1]
         /\ t[Len(t)] = C("log", p, "promotion_proposed")
         /\ \A i \in 1 .. Len(t) : t[i] = C("log", p, "promotion_proposed") \/ \E j \in 1 .. Len(u) : t[i] = u[j]
    BY <2>3, <2>14, <2>8, <2>9, CommandAfter
  <2>11. \A i \in 1 .. Len(t) : t[i].do \notin Copying
    <3>1. \A j \in 1 .. Len(s) : s[j].do \notin Copying
      BY <2>4, <2>6 DEF Copying
    <3>2. \A j \in 1 .. Len(u) : u[j].do \notin Copying
      BY <2>2, <2>4, <2>8, <3>1 DEF Copying
    <3> QED BY <2>2, <2>4, <2>10, <3>2 DEF Copying
  <2>12. Opening(t)
    BY <2>2, <2>4, <2>6, <2>8, <2>10, <2>11 DEF Opening, InAgentOrder, Refusing
  <2>13. StartPromotion(r, t, NoCore)
    BY <1>2, <2>1, <2>5, <2>14 DEF CreateProposal
  <2> QED BY <1>1, <2>12, <2>13
<1>3. ASSUME NEW p \in Proposals, NEW a \in Agents, NEW who \in Approvers, ApproveProposal(r, p, a, who)
      PROVE  \E u, l : /\ Start(r, u, l) /\ Opening(u) /\ l \in AgentLocals
                       /\ UNCHANGED agentVars /\ UNCHANGED promotionVars
  <2>1. C("readProposal", p, a) \in AgentCommand /\ C("decide", p, who) \in AgentCommand
    BY PromotionCommand
  <2>2. /\ MayFollow(C("readProposal", p, a), C("decide", p, who)) /\ MayEnd(C("decide", p, who))
        /\ C("readProposal", p, a).do = "readProposal"
    BY DEF MayFollow, MayEnd, C, Refusing
  <2>3. PICK s, t : s = Cmd("readProposal", p, a) /\ t = s \o Cmd("decide", p, who)
    OBVIOUS
  <2>4. s \in Seq(AgentCommand) /\ s # <<>> /\ Chained(s) /\ Len(s) = 1 /\ s[1] = C("readProposal", p, a)
    BY <2>1, <2>3, OneCommand
  <2>5. MayFollow(s[Len(s)], C("decide", p, who))
    BY <2>2, <2>4
  <2>6. t \in Seq(AgentCommand) /\ t # <<>> /\ Chained(t) /\ t[1] = s[1] /\ t[Len(t)] = C("decide", p, who)
    BY <2>1, <2>3, <2>4, <2>5, CommandAfter
  <2>7. Opening(t)
    BY <2>2, <2>4, <2>6 DEF Opening, InAgentOrder, Refusing
  <2>8. StartPromotion(r, t, NoCore)
    BY <1>3, <2>3 DEF ApproveProposal
  <2> QED BY <1>1, <2>7, <2>8
<1>4. ASSUME NEW p \in Proposals, NEW a \in Agents, RejectProposal(r, p, a)
      PROVE  \E u, l : /\ Start(r, u, l) /\ Opening(u) /\ l \in AgentLocals
                       /\ UNCHANGED agentVars /\ UNCHANGED promotionVars
  <2>1. /\ C("readProposal", p, a) \in AgentCommand /\ C("saveProposal", p, "rejected") \in AgentCommand
        /\ C("log", p, "promotion_rejected") \in AgentCommand
    BY PromotionCommand DEF Logged
  <2>2. /\ MayFollow(C("readProposal", p, a), C("saveProposal", p, "rejected"))
        /\ MayFollow(C("saveProposal", p, "rejected"), C("log", p, "promotion_rejected"))
        /\ MayEnd(C("log", p, "promotion_rejected"))
        /\ C("readProposal", p, a).do = "readProposal"
    BY DEF MayFollow, MayEnd, C, Refusing, Announced
  <2>3. PICK s, u : s = Cmd("readProposal", p, a) /\ u = s \o Cmd("saveProposal", p, "rejected")
    OBVIOUS
  <2>11. PICK t : t = u \o Cmd("log", p, "promotion_rejected")
    OBVIOUS
  <2>4. s \in Seq(AgentCommand) /\ s # <<>> /\ Chained(s) /\ Len(s) = 1 /\ s[1] = C("readProposal", p, a)
    BY <2>1, <2>3, OneCommand
  <2>5. MayFollow(s[Len(s)], C("saveProposal", p, "rejected"))
    BY <2>2, <2>4
  <2>6. u \in Seq(AgentCommand) /\ u # <<>> /\ Chained(u) /\ u[1] = s[1] /\ u[Len(u)] = C("saveProposal", p, "rejected")
    BY <2>1, <2>3, <2>4, <2>5, CommandAfter
  <2>7. MayFollow(u[Len(u)], C("log", p, "promotion_rejected"))
    BY <2>2, <2>6
  <2>8. t \in Seq(AgentCommand) /\ t # <<>> /\ Chained(t) /\ t[1] = u[1] /\ t[Len(t)] = C("log", p, "promotion_rejected")
    BY <2>1, <2>11, <2>6, <2>7, CommandAfter
  <2>9. Opening(t)
    BY <2>2, <2>4, <2>6, <2>8 DEF Opening, InAgentOrder, Refusing
  <2>10. StartPromotion(r, t, NoCore)
    BY <1>4, <2>3, <2>11 DEF RejectProposal
  <2> QED BY <1>1, <2>9, <2>10
<1>5. ASSUME NEW a \in Agents, NEW pol \in Policies, SetPolicy(r, a, pol)
      PROVE  \E u, l : /\ Start(r, u, l) /\ Opening(u) /\ l \in AgentLocals
                       /\ UNCHANGED agentVars /\ UNCHANGED promotionVars
  <2>1. pol \in Requirements
    BY PromotionAssumption DEF Requirements
  <2>2. C("setPolicy", a, pol) \in AgentCommand /\ C("log", a, "approval_policy_set") \in AgentCommand
    BY <2>1, PromotionCommand DEF Logged
  <2>3. /\ MayFollow(C("setPolicy", a, pol), C("log", a, "approval_policy_set"))
        /\ MayEnd(C("log", a, "approval_policy_set"))
        /\ C("setPolicy", a, pol).do = "setPolicy" /\ C("log", a, "approval_policy_set").do = "log"
    BY DEF MayFollow, MayEnd, C, Refusing
  <2>4. PICK s, t : s = Cmd("setPolicy", a, pol) /\ t = s \o Cmd("log", a, "approval_policy_set")
    OBVIOUS
  <2>5. s \in Seq(AgentCommand) /\ s # <<>> /\ Chained(s) /\ Len(s) = 1 /\ s[1] = C("setPolicy", a, pol)
    BY <2>2, <2>4, OneCommand
  <2>6. MayFollow(s[Len(s)], C("log", a, "approval_policy_set"))
    BY <2>3, <2>5
  <2>7. /\ t \in Seq(AgentCommand) /\ t # <<>> /\ Chained(t) /\ t[1] = s[1]
        /\ t[Len(t)] = C("log", a, "approval_policy_set")
        /\ \A i \in 1 .. Len(t) : t[i] = C("log", a, "approval_policy_set") \/ \E j \in 1 .. Len(s) : t[i] = s[j]
    BY <2>2, <2>4, <2>5, <2>6, CommandAfter
  <2>8. \A i \in 1 .. Len(t) : t[i].do \notin Copying
    BY <2>3, <2>5, <2>7 DEF Copying
  <2>9. Opening(t)
    BY <2>3, <2>5, <2>7, <2>8 DEF Opening, InAgentOrder, Refusing
  <2>10. StartPromotion(r, t, NoCore)
    BY <1>5, <2>4 DEF SetPolicy
  <2> QED BY <1>1, <2>9, <2>10
<1> QED BY <1>2, <1>3, <1>4, <1>5

(* Who has voted once has voted for good. *)
LEMMA FitsLater ==
    ASSUME NEW t \in Seq(AgentCommand), NEW q, NEW voted, NEW later, FitsPromotion(t, q, voted),
           \A p \in Proposals : voted[p] \subseteq later[p]
    PROVE  FitsPromotion(t, q, later)
<1>1. ASSUME NEW i \in 1 .. Len(t), t[i].do \in Copying
      PROVE  t[i].id \in Proposals
  <2>1. t[i] \in AgentCommand
    BY ElementOfSeq
  <2> QED BY <1>1, <2>1, CommandIs DEF Copying
<1> QED BY <1>1 DEF FitsPromotion, FitsCopy, Backed

(* A command about a proposal is sent. *)
LEMMA PromotionDone ==
    ASSUME RequestsTyped, NEW r \in Requests, NEW do \in PromotionDo, At(r, do), Done(r)
    PROVE  /\ r \in Busy /\ This(r) \in AgentCommand /\ This(r).do = do /\ This(r) = request[r].todo[1]
           /\ Goes(r, Tail(request[r].todo), Loc(r)) /\ tally' = tally
           /\ Tail(request[r].todo) # <<>> => Tail(request[r].todo)[1].do \notin {"setEvent", "addEvent"}
           /\ request'[r].todo = Tail(request[r].todo)
           /\ \A q \in Requests : q # r => request'[q] = request[q]
           /\ do # "readProposal" => Carries(request[r].todo, Tail(request[r].todo))
           /\ RequestsTyped'
<1>1. r \in Busy /\ This(r).do = do
  BY DEF At, This
<1>2. This(r) \in AgentCommand /\ This(r) = request[r].todo[1] /\ Loc(r) \in AgentLocals
  BY <1>1, ListIs DEF Loc
<1>3. Goes(r, Tail(request[r].todo), Loc(r)) /\ tally' = tally
  BY <1>2, SentGoes DEF Done, Sent
<1>4. /\ request'[r].todo = Tail(request[r].todo) /\ RequestsTyped'
      /\ \A q \in Requests : q # r => request'[q] = request[q]
  BY <1>3, GoesTyped
<1>5. Tail(request[r].todo) # <<>> => Tail(request[r].todo)[1].do \notin {"setEvent", "addEvent"}
  <2>1. PICK u : u = Tail(request[r].todo)
    OBVIOUS
  <2>2. u # <<>> => MayFollow(This(r), u[1])
    BY <1>1, <2>1, NextIs
  <2> QED BY <1>1, <2>1, <2>2 DEF MayFollow, PromotionDo
<1>6. do # "readProposal" => Carries(request[r].todo, Tail(request[r].todo))
  BY <1>1, <1>2, TailCarries
<1> QED BY <1>1, <1>2, <1>3, <1>4, <1>5, <1>6

\* A step of a request about a proposal.
PromotionStep(r) ==
    /\ \E t, l : Goes(r, t, l) /\ (t # <<>> => t[1].do \notin {"setEvent", "addEvent"})
    /\ UNCHANGED agentVars /\ PromotionInv'

LEMMA LogKeeps ==
    ASSUME RequestsTyped, PromotionInv, NEW r \in Requests, Log(r)
    PROVE  PromotionStep(r)
<1>1. At(r, "log") /\ Done(r) /\ "log" \in PromotionDo
  BY DEF Log, PromotionDo
<1>2. UNCHANGED agentVars /\ UNCHANGED <<proposals, policy, copies, promotionPast>> /\ clock' = clock
  BY DEF Log
<1>3. /\ Goes(r, Tail(request[r].todo), Loc(r))
      /\ Tail(request[r].todo) # <<>> => Tail(request[r].todo)[1].do \notin {"setEvent", "addEvent"}
      /\ request'[r].todo = Tail(request[r].todo)
      /\ \A q \in Requests : q # r => request'[q] = request[q]
      /\ Carries(request[r].todo, Tail(request[r].todo))
  BY <1>1, PromotionDone
<1>4. PromotionInv'
  <2>1. \A q \in Requests : request'[q] = request[q] \/ Carries(request[q].todo, request'[q].todo)
    BY <1>3
  <2>2. clock' \in Nat
    BY <1>2 DEF PromotionInv, PromotionTyped
  <2> QED BY <1>2, <2>1, <2>2, PromotionStays
<1> QED BY <1>2, <1>3, <1>4 DEF PromotionStep

LEMMA StorePolicyKeeps ==
    ASSUME RequestsTyped, PromotionInv, NEW r \in Requests, StorePolicy(r)
    PROVE  PromotionStep(r)
<1>1. At(r, "setPolicy") /\ Done(r) /\ "setPolicy" \in PromotionDo
  BY DEF StorePolicy, PromotionDo
<1>2. /\ UNCHANGED agentVars /\ UNCHANGED <<proposals, copies, promotionPast, clock>>
      /\ policy' = [policy EXCEPT ![This(r).id] = This(r).how]
  BY DEF StorePolicy
<1>3. /\ r \in Busy /\ This(r) \in AgentCommand /\ This(r).do = "setPolicy"
      /\ Goes(r, Tail(request[r].todo), Loc(r))
      /\ Tail(request[r].todo) # <<>> => Tail(request[r].todo)[1].do \notin {"setEvent", "addEvent"}
      /\ request'[r].todo = Tail(request[r].todo)
      /\ \A q \in Requests : q # r => request'[q] = request[q]
      /\ Carries(request[r].todo, Tail(request[r].todo))
  BY <1>1, PromotionDone
<1>4. This(r).how \in Requirements
  BY <1>3, CommandIs
<1>5. PromotionTyped'
  BY <1>2, <1>4 DEF PromotionInv, PromotionTyped
<1>6. ProposalsBacked'
  BY <1>2 DEF PromotionInv, ProposalsBacked
<1>7. ASSUME NEW q \in Requests
      PROVE  FitsPromotion(request'[q].todo, copies[q], promotionPast.voted)
  <2>1. FitsPromotion(request[q].todo, copies[q], promotionPast.voted)
    BY DEF PromotionInv
  <2>2. request'[q] = request[q] \/ Carries(request[q].todo, request'[q].todo)
    BY <1>3
  <2> QED BY <2>1, <2>2, CarriesFit
<1>8. PromotionInv'
  BY <1>2, <1>5, <1>6, <1>7 DEF PromotionInv
<1> QED BY <1>2, <1>3, <1>8 DEF PromotionStep

LEMMA SetProposalKeeps ==
    ASSUME RequestsTyped, PromotionInv, NEW r \in Requests, SetProposal(r)
    PROVE  PromotionStep(r)
<1>1. At(r, "setProposal") /\ Done(r) /\ "setProposal" \in PromotionDo
  BY DEF SetProposal, PromotionDo
<1>2. PICK p, h, new : p = This(r).id /\ h = This(r).how /\ new = NewProposal(h[1], h[2], h[3])
  OBVIOUS
<1>3. /\ UNCHANGED agentVars /\ UNCHANGED <<policy, copies, clock>>
      /\ proposals' = [proposals EXCEPT ![p] = new]
      /\ promotionPast' = [promotionPast EXCEPT !.applied[p] = <<>>]
  BY <1>2 DEF SetProposal
<1>4. /\ r \in Busy /\ This(r) \in AgentCommand /\ This(r).do = "setProposal"
      /\ Goes(r, Tail(request[r].todo), Loc(r))
      /\ Tail(request[r].todo) # <<>> => Tail(request[r].todo)[1].do \notin {"setEvent", "addEvent"}
      /\ request'[r].todo = Tail(request[r].todo)
      /\ \A q \in Requests : q # r => request'[q] = request[q]
      /\ Carries(request[r].todo, Tail(request[r].todo))
  BY <1>1, PromotionDone
<1>5. p \in Proposals /\ h \in Agents \X CoreValues \X Risks
  BY <1>2, <1>4, CommandIs
<1>6. new \in Proposal /\ new.approvers = <<>>
  <2>1. h[1] \in Agents /\ h[2] \in CoreValues /\ h[3] \in Risks
    BY <1>5
  <2>2. Plain(h[2]) \in AnyCore /\ clock \in Nat
    BY <2>1, CoresAre DEF PromotionInv, PromotionTyped
  <2>3. <<>> \in Seq(Approvers)
    OBVIOUS
  <2> QED BY <1>2, <2>1, <2>2, <2>3 DEF NewProposal, Proposal
<1>7. PromotionTyped'
  <2>1. proposals' \in [Proposals -> Proposal \cup {NoProposal}]
    BY <1>3, <1>5, <1>6 DEF PromotionInv, PromotionTyped
  <2>2. promotionPast' \in [voted : [Proposals -> SUBSET Approvers],
                            applied : [Proposals -> Seq([by : Seq(Approvers), asked : Nat])]]
    <3>1. PICK V, S : V = [Proposals -> SUBSET Approvers] /\ S = Seq([by : Seq(Approvers), asked : Nat])
      OBVIOUS
    <3>2. promotionPast \in [voted : V, applied : [Proposals -> S]]
      BY <3>1 DEF PromotionInv, PromotionTyped
    <3>3. <<>> \in S
      BY <3>1
    <3>4. promotionPast' \in [voted : V, applied : [Proposals -> S]]
      BY <1>3, <1>5, <3>2, <3>3
    <3> QED BY <3>1, <3>4
  <2> QED BY <1>3, <2>1, <2>2 DEF PromotionInv, PromotionTyped
<1>8. /\ promotionPast'.voted = promotionPast.voted
      /\ promotionPast'.applied[p] = <<>>
      /\ \A o \in Proposals : o # p => promotionPast'.applied[o] = promotionPast.applied[o]
      /\ proposals'[p] = new /\ \A o \in Proposals : o # p => proposals'[o] = proposals[o]
  BY <1>3, <1>5 DEF PromotionInv, PromotionTyped
<1>9. ProposalsBacked'
  <2> SUFFICES ASSUME NEW o \in Proposals
               PROVE  /\ Backed(proposals'[o].approvers, promotionPast'.voted[o])
                      /\ \A i \in 1 .. Len(promotionPast'.applied[o]) :
                           /\ Backed(promotionPast'.applied[o][i].by, promotionPast'.voted[o])
                           /\ Len(promotionPast'.applied[o][i].by) >= promotionPast'.applied[o][i].asked
    BY DEF ProposalsBacked
  <2>1. CASE o # p
    BY <1>8, <2>1 DEF PromotionInv, ProposalsBacked
  <2>2. CASE o = p
    <3>1. Backed(<<>>, promotionPast.voted[p])
      BY DEF Backed, OnceEach
    <3> QED BY <1>6, <1>8, <2>2, <3>1
  <2> QED BY <2>1, <2>2
<1>10. ASSUME NEW q \in Requests
       PROVE  FitsPromotion(request'[q].todo, copies[q], promotionPast.voted)
  <2>1. FitsPromotion(request[q].todo, copies[q], promotionPast.voted)
    BY DEF PromotionInv
  <2>2. request'[q] = request[q] \/ Carries(request[q].todo, request'[q].todo)
    BY <1>4
  <2> QED BY <2>1, <2>2, CarriesFit
<1>11. PromotionInv'
  BY <1>3, <1>7, <1>8, <1>9, <1>10 DEF PromotionInv
<1> QED BY <1>3, <1>4, <1>11 DEF PromotionStep

LEMMA ReadProposalKeeps ==
    ASSUME RequestsTyped, PromotionInv, NEW r \in Requests, ReadProposal(r)
    PROVE  PromotionStep(r)
<1>1. /\ At(r, "readProposal") /\ "readProposal" \in PromotionDo /\ UNCHANGED agentVars
      /\ UNCHANGED <<proposals, policy, clock, promotionPast>>
  BY DEF ReadProposal, PromotionDo
<1>2. PICK p : p = This(r).id
  OBVIOUS
<1>3. CASE Refuse(r) /\ UNCHANGED copies
  <2>1. Goes(r, <<>>, Loc(r))
    BY <1>1, <1>3, RefuseGoes DEF At
  <2>2. request'[r].todo = <<>> /\ \A q \in Requests : q # r => request'[q] = request[q]
    BY <2>1, GoesTyped
  <2>3. \A q \in Requests : request'[q] = request[q] \/ Carries(request[q].todo, request'[q].todo)
    BY <2>2 DEF Carries
  <2>4. clock' \in Nat
    BY <1>1 DEF PromotionInv, PromotionTyped
  <2>5. PromotionInv'
    BY <1>1, <1>3, <2>3, <2>4, PromotionStays
  <2> QED BY <1>1, <2>1, <2>5 DEF PromotionStep
<1>4. CASE Done(r) /\ proposals[p].status = "pending" /\ copies' = [copies EXCEPT ![r] = proposals[p]]
  <2>1. /\ r \in Busy /\ This(r) \in AgentCommand /\ This(r).do = "readProposal"
        /\ Goes(r, Tail(request[r].todo), Loc(r))
        /\ Tail(request[r].todo) # <<>> => Tail(request[r].todo)[1].do \notin {"setEvent", "addEvent"}
        /\ request'[r].todo = Tail(request[r].todo)
        /\ \A q \in Requests : q # r => request'[q] = request[q]
    BY <1>1, <1>4, PromotionDone
  <2>2. p \in Proposals
    BY <1>2, <2>1, CommandIs
  <2>3. PromotionTyped'
    BY <1>1, <1>4, <2>2 DEF PromotionInv, PromotionTyped
  <2>4. ProposalsBacked'
    BY <1>1 DEF PromotionInv, ProposalsBacked
  <2>5. copies'[r] = proposals[p] /\ \A q \in Requests : q # r => copies'[q] = copies[q]
    BY <1>4 DEF PromotionInv, PromotionTyped
  <2>6. FitsPromotion(request'[r].todo, copies'[r], promotionPast.voted)
    <3>1. PICK u : u = Tail(request[r].todo)
      OBVIOUS
    <3>2. u # <<>> => /\ MayFollow(This(r), u[1])
                      /\ u \in Seq(AgentCommand) /\ InAgentOrder(u)
      BY <2>1, <3>1, NextIs, ListIs
    <3>3. u # <<>> => u[1].id = p /\ u[1].do \in {"decide", "saveProposal"}
      BY <1>2, <2>1, <3>2 DEF MayFollow
    <3>4. u # <<>> => \A i \in 1 .. Len(u) : u[i].do \in Copying => i = 1
      BY <3>2, <3>3, LastOnes
    <3>5. proposals[p].status = "pending" /\ Backed(proposals[p].approvers, promotionPast.voted[p])
      BY <1>4, <2>2 DEF PromotionInv, ProposalsBacked
    <3>6. ASSUME u # <<>>, NEW i \in 1 .. Len(u), u[i].do \in Copying
          PROVE  FitsCopy(u[i], proposals[p], promotionPast.voted)
      <4>1. i = 1
        BY <3>4, <3>6
      <4> QED BY <3>3, <3>5, <3>6, <4>1 DEF FitsCopy
    <3> QED BY <2>1, <2>5, <3>1, <3>6 DEF FitsPromotion
  <2>7. ASSUME NEW q \in Requests
        PROVE  FitsPromotion(request'[q].todo, copies'[q], promotionPast.voted)
    <3>1. CASE q # r
      BY <2>1, <2>5, <3>1 DEF PromotionInv
    <3> QED BY <2>6, <3>1
  <2>8. PromotionInv'
    BY <1>1, <2>3, <2>4, <2>7 DEF PromotionInv
  <2> QED BY <1>1, <2>1, <2>8 DEF PromotionStep
<1> QED BY <1>2, <1>3, <1>4 DEF ReadProposal

(* One more approver. *)
LEMMA WithApproverIs ==
    ASSUME NEW q \in Proposal, NEW who \in Approvers, NEW V, Backed(q.approvers, V)
    PROVE  LET new == WithApprover(q, who) IN
           /\ new \in Proposal /\ new.status = q.status /\ new.agent = q.agent /\ new.risk = q.risk
           /\ Backed(new.approvers, V \cup {who})
<1>1. PICK s, n : s = q.approvers /\ n = Len(s)
  OBVIOUS
<1>2. s \in Seq(Approvers) /\ n \in Nat /\ DOMAIN s = 1 .. n
  BY <1>1 DEF Proposal
<1>3. CASE \E i \in DOMAIN s : s[i] = who
  <2>1. WithApprover(q, who) = q
    BY <1>1, <1>3 DEF WithApprover
  <2> QED BY <2>1 DEF Backed
<1>4. CASE ~\E i \in DOMAIN s : s[i] = who
  <2>1. PICK t : t = Append(s, who)
    OBVIOUS
  <2>2. t \in Seq(Approvers) /\ Len(t) = n + 1 /\ t[n + 1] = who /\ \A i \in 1 .. n : t[i] = s[i]
    BY <1>1, <1>2, <2>1
  <2>3. WithApprover(q, who) = [q EXCEPT !.approvers = t]
    BY <1>1, <1>4, <2>1 DEF WithApprover
  <2>4. \A i \in 1 .. n + 1 : i = n + 1 \/ i \in 1 .. n
    BY <1>2
  <2>5. OnceEach(t)
    <3>1. ASSUME NEW i \in 1 .. n + 1, NEW j \in 1 .. n + 1, t[i] = t[j]
          PROVE  i = j
      <4>1. \A k \in 1 .. n : t[k] # who
        BY <1>2, <1>4, <2>2
      <4> QED BY <1>1, <2>2, <2>4, <3>1, <4>1 DEF Backed, OnceEach
    <3> QED BY <2>2, <3>1 DEF OnceEach
  <2>6. \A i \in 1 .. n + 1 : t[i] \in V \cup {who}
    BY <1>1, <2>2, <2>4 DEF Backed
  <2>7. Backed(t, V \cup {who})
    BY <2>2, <2>5, <2>6 DEF Backed
  <2> QED BY <2>2, <2>3, <2>7 DEF Proposal
<1> QED BY <1>3, <1>4

(* A decision puts its commands where it stood. *)
LEMMA DecideGoes ==
    ASSUME RequestsTyped, NEW r \in Requests, At(r, "decide"), NEW more \in Seq(AgentCommand),
           more # <<>>, InAgentOrder(more), NEW l \in AgentLocals, Insert(r, more, l)
    PROVE  Goes(r, more, l)
<1>1. r \in Busy /\ This(r).do = "decide"
  BY DEF At, This
<1>2. PICK s : s = request[r].todo
  OBVIOUS
<1>3. s \in Seq(AgentCommand) /\ s # <<>> /\ InAgentOrder(s) /\ s[1].do = "decide"
  BY <1>1, <1>2, ListIs
<1>4. Tail(s) = <<>>
  BY <1>3, LastOnes
<1>5. more \o Tail(s) = more
  <2>1. \A x \in Seq(AgentCommand) : x \o <<>> = x
    BY ConcatSimplifications
  <2> QED BY <1>4, <2>1
<1>6. Continue(r, more, l) /\ tally' = tally
  BY <1>2, <1>5 DEF Insert, Rest
<1>7. Moved(r, more, l)
  BY <1>6, GoesOn DEF RequestsTyped
<1>8. AgentList(more, l)
  BY DEF AgentList
<1> QED BY <1>1, <1>6, <1>7, <1>8 DEF Goes, RequestsTyped

(* What a decision makes of its copy, and of who has voted. *)
LEMMA DecisionKeeps ==
    ASSUME RequestsTyped, PromotionInv, NEW r \in Requests, At(r, "decide"), NEW q \in Proposal,
           NEW more \in Seq(AgentCommand), more # <<>>, InAgentOrder(more),
           more[1].do \notin {"setEvent", "addEvent"}, more[1].do # "readProposal",
           copies' = [copies EXCEPT ![r] = q], Insert(r, more, [Loc(r) EXCEPT !.core = q.core]),
           UNCHANGED agentVars, UNCHANGED <<proposals, policy, clock>>,
           promotionPast' \in [voted : [Proposals -> SUBSET Approvers],
                               applied : [Proposals -> Seq([by : Seq(Approvers), asked : Nat])]],
           promotionPast'.applied = promotionPast.applied,
           \A o \in Proposals : promotionPast.voted[o] \subseteq promotionPast'.voted[o],
           \A i \in 1 .. Len(more) : more[i].do \in Copying => FitsCopy(more[i], q, promotionPast'.voted)
    PROVE  PromotionStep(r) /\ request'[r].todo = more
<1>1. PICK l : l = [Loc(r) EXCEPT !.core = q.core]
  OBVIOUS
<1>2. r \in Busy /\ l \in AgentLocals
  <2>1. r \in Busy
    BY DEF At
  <2>2. Loc(r) \in AgentLocals
    BY <2>1, ListIs DEF Loc
  <2>3. q.core \in AnyCore
    BY DEF Proposal
  <2> QED BY <1>1, <2>1, <2>2, <2>3, LocalsAre
<1>3. Goes(r, more, l)
  BY <1>1, <1>2, DecideGoes
<1>4. request'[r].todo = more /\ \A o \in Requests : o # r => request'[o] = request[o]
  BY <1>3, GoesTyped
<1>5. copies'[r] = q /\ \A o \in Requests : o # r => copies'[o] = copies[o]
  BY DEF PromotionInv, PromotionTyped
<1>6. PromotionTyped'
  BY DEF PromotionInv, PromotionTyped
<1>7. ProposalsBacked'
  <2>1. \A s, o : Backed(s, promotionPast.voted[o]) /\ o \in Proposals => Backed(s, promotionPast'.voted[o])
    BY DEF Backed
  <2> QED BY <2>1 DEF PromotionInv, ProposalsBacked
<1>8. ASSUME NEW o \in Requests
      PROVE  FitsPromotion(request'[o].todo, copies'[o], promotionPast'.voted)
  <2>1. CASE o = r
    BY <1>4, <1>5, <2>1 DEF FitsPromotion
  <2>2. CASE o # r
    <3>1. FitsPromotion(request[o].todo, copies[o], promotionPast.voted) /\ request[o].todo \in Seq(AgentCommand)
      BY DEF PromotionInv, RequestsTyped, AgentList
    <3>2. FitsPromotion(request[o].todo, copies[o], promotionPast'.voted)
      BY <3>1, FitsLater
    <3> QED BY <1>4, <1>5, <2>2, <3>2
  <2> QED BY <2>1, <2>2
<1>9. PromotionInv'
  BY <1>6, <1>7, <1>8 DEF PromotionInv
<1> QED BY <1>3, <1>4, <1>9 DEF PromotionStep

\* Commands that work on a copy of p, none of which stores it as approved at once.
Pursues(t, p) ==
    /\ \A i \in 1 .. Len(t) : t[i].do \in Copying => t[i].id = p
    /\ t # <<>> /\ t[1].do = "saveProposal" => t[1].how # "approved"

LEMMA DecideKeeps ==
    ASSUME RequestsTyped, PromotionInv, NEW r \in Requests, Decide(r)
    PROVE  PromotionStep(r) /\ Pursues(request'[r].todo, This(r).id)
<1>1. At(r, "decide") /\ UNCHANGED agentVars /\ UNCHANGED <<proposals, policy, clock>>
  BY DEF Decide
<1>2. PICK q, p, who, pol, new : /\ q = copies[r] /\ p = This(r).id /\ who = This(r).how
                                 /\ pol = policy[q.agent] /\ new = WithApprover(q, who)
  OBVIOUS
<1>3. PICK save, early, ask, add, l, m :
        /\ save = Cmd("saveProposal", p, "expired") \o Cmd("log", p, "promotion_expired")
        /\ early = Cmd("saveProposal", p, "pending") \o Cmd("log", p, "promotion_partial_approval")
        /\ ask = update_agent_identity(new.agent) \o Cmd("applied", p, pol)
                   \o Cmd("saveProposal", p, "approved") \o Cmd("log", p, "promotion_approved")
        /\ add = [promotionPast EXCEPT !.voted[p] = @ \cup {who}]
        /\ l = [Loc(r) EXCEPT !.core = q.core] /\ m = [Loc(r) EXCEPT !.core = new.core]
  OBVIOUS
<1>4. \/ copies' = [copies EXCEPT ![r] = q] /\ Insert(r, save, l) /\ promotionPast' = promotionPast
      \/ Refuse(r) /\ UNCHANGED <<copies, promotionPast>>
      \/ /\ copies' = [copies EXCEPT ![r] = new] /\ promotionPast' = add
         /\ \/ Insert(r, ask, m) /\ has_quorum(new, pol)
            \/ Insert(r, early, m)
  BY <1>2, <1>3 DEF Decide
<1>5. /\ r \in Busy /\ This(r) = request[r].todo[1] /\ This(r) \in AgentCommand /\ This(r).do = "decide"
      /\ request[r].todo \in Seq(AgentCommand) /\ request[r].todo # <<>>
  <2>1. r \in Busy /\ This(r).do = "decide"
    BY <1>1 DEF At, This
  <2> QED BY <2>1, ListIs
<1>6. p \in Proposals /\ who \in Approvers
  BY <1>2, <1>5, CommandIs
<1>7. q \in Proposal /\ q.status = "pending" /\ Backed(q.approvers, promotionPast.voted[p])
  <2>1. FitsPromotion(request[r].todo, q, promotionPast.voted) /\ q \in Proposal \cup {NoProposal}
    BY <1>2 DEF PromotionInv, PromotionTyped
  <2>2. 1 \in 1 .. Len(request[r].todo)
    BY <1>5, RestOfList
  <2>3. FitsCopy(This(r), q, promotionPast.voted)
    BY <1>5, <2>1, <2>2 DEF FitsPromotion, Copying
  <2>4. NoProposal.status # "pending"
    BY DEF NoProposal
  <2> QED BY <1>2, <2>1, <2>3, <2>4 DEF FitsCopy
<1>8. pol \in Requirements /\ q.agent \in Agents
  <2>1. q.agent \in Agents
    BY <1>7 DEF Proposal
  <2> QED BY <1>2, <2>1 DEF PromotionInv, PromotionTyped
<1>9. /\ new \in Proposal /\ new.status = "pending" /\ new.agent \in Agents
      /\ Backed(new.approvers, promotionPast.voted[p] \cup {who})
  <2>1. PICK V : V = promotionPast.voted[p]
    OBVIOUS
  <2>2. /\ new \in Proposal /\ new.status = q.status /\ new.agent = q.agent
        /\ Backed(new.approvers, V \cup {who})
    BY <1>2, <1>6, <1>7, <2>1, WithApproverIs
  <2> QED BY <1>7, <1>8, <2>1, <2>2
<1>10. /\ promotionPast \in [voted : [Proposals -> SUBSET Approvers],
                             applied : [Proposals -> Seq([by : Seq(Approvers), asked : Nat])]]
       /\ add \in [voted : [Proposals -> SUBSET Approvers],
                   applied : [Proposals -> Seq([by : Seq(Approvers), asked : Nat])]]
       /\ add.applied = promotionPast.applied
       /\ \A o \in Proposals : promotionPast.voted[o] \subseteq add.voted[o]
       /\ add.voted[p] = promotionPast.voted[p] \cup {who}
  <2>1. PICK S : S = [Proposals -> Seq([by : Seq(Approvers), asked : Nat])]
    OBVIOUS
  <2>2. promotionPast \in [voted : [Proposals -> SUBSET Approvers], applied : S]
    BY <2>1 DEF PromotionInv, PromotionTyped
  <2>3. /\ add \in [voted : [Proposals -> SUBSET Approvers], applied : S]
        /\ add.applied = promotionPast.applied
        /\ \A o \in Proposals : promotionPast.voted[o] \subseteq add.voted[o]
        /\ add.voted[p] = promotionPast.voted[p] \cup {who}
    BY <1>3, <1>6, <2>2
  <2> QED BY <2>1, <2>2, <2>3
<1>11. \A st, w : C("saveProposal", p, st).do = "saveProposal" /\ C("saveProposal", p, st).id = p
                  /\ C("log", p, w).do = "log" /\ C("applied", p, w).do = "applied"
                  /\ C("applied", p, w).id = p /\ C("applied", p, w).how = w
  BY DEF C
<1>12. CASE copies' = [copies EXCEPT ![r] = q] /\ Insert(r, save, l) /\ promotionPast' = promotionPast
  <2>1. /\ save \in Seq(AgentCommand) /\ save # <<>> /\ InAgentOrder(save)
        /\ save[1] = C("saveProposal", p, "expired")
        /\ \A i \in 1 .. Len(save) : \/ save[i] = C("saveProposal", p, "expired")
                                     \/ save[i] = C("log", p, "promotion_expired")
    BY <1>3, <1>6, SaveList DEF Logged, Announced
  <2>2. \A i \in 1 .. Len(save) : save[i].do \in Copying => FitsCopy(save[i], q, promotionPast'.voted)
    BY <1>7, <1>11, <1>12, <2>1 DEF FitsCopy, Copying
  <2>3. save[1].do = "saveProposal"
    BY <1>11, <2>1
  <2>4. Pursues(save, p)
    BY <1>11, <2>1, <2>3 DEF Pursues, C, Copying
  <2>5. PromotionStep(r) /\ request'[r].todo = save
    BY <1>1, <1>3, <1>7, <1>10, <1>12, <2>1, <2>2, <2>3, DecisionKeeps
  <2> QED BY <1>2, <2>4, <2>5
<1>13. CASE Refuse(r) /\ UNCHANGED <<copies, promotionPast>>
  <2>1. Goes(r, <<>>, Loc(r))
    BY <1>5, <1>13, RefuseGoes
  <2>2. request'[r].todo = <<>> /\ \A o \in Requests : o # r => request'[o] = request[o]
    BY <2>1, GoesTyped
  <2>3. \A o \in Requests : request'[o] = request[o] \/ Carries(request[o].todo, request'[o].todo)
    BY <2>2 DEF Carries
  <2>4. clock' \in Nat
    BY <1>1 DEF PromotionInv, PromotionTyped
  <2>5. PromotionInv'
    BY <1>1, <1>13, <2>3, <2>4, PromotionStays
  <2>6. Pursues(<<>>, p)
    BY DEF Pursues
  <2> QED BY <1>1, <1>2, <2>1, <2>2, <2>5, <2>6 DEF PromotionStep
<1>14. CASE copies' = [copies EXCEPT ![r] = new] /\ promotionPast' = add /\ Insert(r, ask, m) /\ has_quorum(new, pol)
  <2>1. /\ ask \in Seq(AgentCommand) /\ ask # <<>> /\ InAgentOrder(ask) /\ ask[1].do = "get"
        /\ \A i \in 1 .. Len(ask) : ask[i].do \in Copying =>
             ask[i] = C("applied", p, pol) \/ ask[i] = C("saveProposal", p, "approved")
    BY <1>3, <1>6, <1>8, <1>9, ApproveList
  <2>2. Len(new.approvers) >= requirement_for_risk(pol, new.risk).min
    BY <1>14 DEF has_quorum
  <2>3. \A i \in 1 .. Len(ask) : ask[i].do \in Copying => FitsCopy(ask[i], new, promotionPast'.voted)
    <3>1. Backed(new.approvers, promotionPast'.voted[p])
      BY <1>9, <1>10, <1>14
    <3>2. FitsCopy(C("applied", p, pol), new, promotionPast'.voted)
      BY <1>9, <1>11, <2>2, <3>1 DEF FitsCopy
    <3>3. FitsCopy(C("saveProposal", p, "approved"), new, promotionPast'.voted)
      BY <1>9, <1>11, <3>1 DEF FitsCopy
    <3> QED BY <2>1, <3>2, <3>3
  <2>4. Pursues(ask, p)
    BY <1>11, <2>1 DEF Pursues
  <2>5. PromotionStep(r) /\ request'[r].todo = ask
    BY <1>1, <1>3, <1>9, <1>10, <1>14, <2>1, <2>3, DecisionKeeps, ZenonT(40)
  <2> QED BY <1>2, <2>4, <2>5
<1>15. CASE copies' = [copies EXCEPT ![r] = new] /\ promotionPast' = add /\ Insert(r, early, m)
  <2>1. /\ early \in Seq(AgentCommand) /\ early # <<>> /\ InAgentOrder(early)
        /\ early[1] = C("saveProposal", p, "pending")
        /\ \A i \in 1 .. Len(early) : \/ early[i] = C("saveProposal", p, "pending")
                                      \/ early[i] = C("log", p, "promotion_partial_approval")
    BY <1>3, <1>6, SaveList DEF Logged, Announced
  <2>2. \A i \in 1 .. Len(early) : early[i].do \in Copying => FitsCopy(early[i], new, promotionPast'.voted)
    <3>1. Backed(new.approvers, promotionPast'.voted[p])
      BY <1>9, <1>10, <1>15
    <3>2. FitsCopy(C("saveProposal", p, "pending"), new, promotionPast'.voted)
      BY <1>9, <1>11, <3>1 DEF FitsCopy
    <3>3. C("log", p, "promotion_partial_approval").do \notin Copying
      BY <1>11 DEF Copying
    <3> QED BY <2>1, <3>2, <3>3
  <2>3. early[1].do = "saveProposal"
    BY <1>11, <2>1
  <2>4. Pursues(early, p)
    BY <1>11, <2>1, <2>3 DEF Pursues, C, Copying
  <2>5. PromotionStep(r) /\ request'[r].todo = early
    BY <1>1, <1>3, <1>9, <1>10, <1>15, <2>1, <2>2, <2>3, DecisionKeeps, ZenonT(30)
  <2> QED BY <1>2, <2>4, <2>5
<1> QED BY <1>4, <1>12, <1>13, <1>14, <1>15

(* What an approval policy asks for. *)
LEMMA RequirementIs ==
    ASSUME NEW pol \in Requirements, NEW risk
    PROVE  requirement_for_risk(pol, risk).min \in Nat
<1>1. requirement_for_risk(pol, risk) \in Requirement
  BY DEF requirement_for_risk, Requirements, PolicyLevels
<1> QED BY <1>1 DEF Requirement

LEMMA AppliedKeeps ==
    ASSUME RequestsTyped, PromotionInv, NEW r \in Requests, Applied(r)
    PROVE  PromotionStep(r)
<1>1. At(r, "applied") /\ Done(r) /\ "applied" \in PromotionDo
  BY DEF Applied, PromotionDo
<1>2. PICK q, p, x : q = copies[r] /\ p = This(r).id
                     /\ x = [by |-> q.approvers, asked |-> requirement_for_risk(This(r).how, q.risk).min]
  OBVIOUS
<1>3. /\ UNCHANGED agentVars /\ UNCHANGED <<proposals, policy, clock, copies>>
      /\ promotionPast' = [promotionPast EXCEPT !.applied[p] = Append(@, x)]
  BY <1>2 DEF Applied
<1>4. /\ r \in Busy /\ This(r) \in AgentCommand /\ This(r).do = "applied" /\ This(r) = request[r].todo[1]
      /\ Goes(r, Tail(request[r].todo), Loc(r))
      /\ Tail(request[r].todo) # <<>> => Tail(request[r].todo)[1].do \notin {"setEvent", "addEvent"}
      /\ request'[r].todo = Tail(request[r].todo)
      /\ \A o \in Requests : o # r => request'[o] = request[o]
      /\ Carries(request[r].todo, Tail(request[r].todo))
  BY <1>1, PromotionDone
<1>5. p \in Proposals /\ This(r).how \in Requirements
  BY <1>2, <1>4, CommandIs
<1>6. /\ q \in Proposal /\ Backed(q.approvers, promotionPast.voted[p])
      /\ Len(q.approvers) >= requirement_for_risk(This(r).how, q.risk).min
  <2>1. FitsPromotion(request[r].todo, q, promotionPast.voted) /\ q \in Proposal \cup {NoProposal}
    BY <1>2 DEF PromotionInv, PromotionTyped
  <2>2. request[r].todo \in Seq(AgentCommand) /\ request[r].todo # <<>>
    BY <1>4, ListIs
  <2>3. 1 \in 1 .. Len(request[r].todo)
    BY <2>2, RestOfList
  <2>4. FitsCopy(This(r), q, promotionPast.voted)
    BY <1>4, <2>1, <2>2, <2>3 DEF FitsPromotion, Copying
  <2>5. NoProposal.status # "pending"
    BY DEF NoProposal
  <2> QED BY <1>2, <1>4, <2>1, <2>4, <2>5 DEF FitsCopy
<1>7. x \in [by : Seq(Approvers), asked : Nat] /\ x.by = q.approvers /\ Len(x.by) >= x.asked
  <2>1. q.approvers \in Seq(Approvers)
    BY <1>6 DEF Proposal
  <2> QED BY <1>2, <1>5, <1>6, <2>1, RequirementIs
<1>8. PICK S, V : S = [by : Seq(Approvers), asked : Nat] /\ V = [Proposals -> SUBSET Approvers]
  OBVIOUS
<1>9. promotionPast \in [voted : V, applied : [Proposals -> Seq(S)]] /\ x \in S
  BY <1>7, <1>8 DEF PromotionInv, PromotionTyped
<1>10. PICK s : s = promotionPast.applied[p]
  OBVIOUS
<1>11. s \in Seq(S)
  BY <1>5, <1>9, <1>10
<1>12. PICK t : t = Append(s, x)
  OBVIOUS
<1>13. /\ t \in Seq(S) /\ Len(s) \in Nat /\ Len(t) = Len(s) + 1 /\ t[Len(s) + 1] = x
       /\ \A i \in 1 .. Len(s) : t[i] = s[i]
  BY <1>9, <1>11, <1>12
<1>14. promotionPast' = [promotionPast EXCEPT !.applied[p] = t]
  BY <1>3, <1>10, <1>12
<1>15. /\ promotionPast' \in [voted : V, applied : [Proposals -> Seq(S)]]
       /\ promotionPast'.voted = promotionPast.voted
       /\ promotionPast'.applied[p] = t
       /\ \A o \in Proposals : o # p => promotionPast'.applied[o] = promotionPast.applied[o]
  BY <1>5, <1>9, <1>13, <1>14
<1>16. PromotionTyped'
  BY <1>3, <1>8, <1>15 DEF PromotionInv, PromotionTyped
<1>17. ProposalsBacked'
  <2> SUFFICES ASSUME NEW o \in Proposals
               PROVE  /\ Backed(proposals'[o].approvers, promotionPast'.voted[o])
                      /\ \A i \in 1 .. Len(promotionPast'.applied[o]) :
                           /\ Backed(promotionPast'.applied[o][i].by, promotionPast'.voted[o])
                           /\ Len(promotionPast'.applied[o][i].by) >= promotionPast'.applied[o][i].asked
    BY DEF ProposalsBacked
  <2>1. /\ Backed(proposals[o].approvers, promotionPast.voted[o])
        /\ \A i \in 1 .. Len(promotionPast.applied[o]) :
             /\ Backed(promotionPast.applied[o][i].by, promotionPast.voted[o])
             /\ Len(promotionPast.applied[o][i].by) >= promotionPast.applied[o][i].asked
    BY DEF PromotionInv, ProposalsBacked
  <2>2. CASE o # p
    BY <1>3, <1>15, <2>1, <2>2
  <2>3. CASE o = p
    <3>1. ASSUME NEW i \in 1 .. Len(t)
          PROVE  Backed(t[i].by, promotionPast.voted[p]) /\ Len(t[i].by) >= t[i].asked
      <4>1. CASE i = Len(s) + 1
        BY <1>6, <1>7, <1>13, <4>1
      <4>2. CASE i \in 1 .. Len(s)
        BY <1>10, <1>13, <2>1, <2>3, <4>2
      <4> QED BY <1>13, <4>1, <4>2
    <3> QED BY <1>3, <1>15, <2>1, <2>3, <3>1
  <2> QED BY <2>2, <2>3
<1>18. ASSUME NEW o \in Requests
       PROVE  FitsPromotion(request'[o].todo, copies'[o], promotionPast'.voted)
  <2>1. FitsPromotion(request[o].todo, copies[o], promotionPast.voted)
    BY DEF PromotionInv
  <2>2. request'[o] = request[o] \/ Carries(request[o].todo, request'[o].todo)
    BY <1>4
  <2>3. FitsPromotion(request'[o].todo, copies[o], promotionPast.voted)
    BY <2>1, <2>2, CarriesFit
  <2> QED BY <1>3, <1>15, <2>3
<1>19. PromotionInv'
  BY <1>16, <1>17, <1>18 DEF PromotionInv
<1> QED BY <1>3, <1>4, <1>19 DEF PromotionStep

LEMMA SaveProposalKeeps ==
    ASSUME RequestsTyped, PromotionInv, NEW r \in Requests, SaveProposal(r)
    PROVE  PromotionStep(r)
<1>1. At(r, "saveProposal") /\ Done(r) /\ "saveProposal" \in PromotionDo
  BY DEF SaveProposal, PromotionDo
<1>2. PICK q, p, st, new : q = copies[r] /\ p = This(r).id /\ st = This(r).how /\ new = [q EXCEPT !.status = st]
  OBVIOUS
<1>3. /\ UNCHANGED agentVars /\ UNCHANGED <<policy, clock, promotionPast>>
      /\ proposals' = [proposals EXCEPT ![p] = new]
      /\ copies' = [copies EXCEPT ![r] = NoProposal]
  BY <1>2 DEF SaveProposal
<1>4. /\ r \in Busy /\ This(r) \in AgentCommand /\ This(r).do = "saveProposal" /\ This(r) = request[r].todo[1]
      /\ Goes(r, Tail(request[r].todo), Loc(r))
      /\ Tail(request[r].todo) # <<>> => Tail(request[r].todo)[1].do \notin {"setEvent", "addEvent"}
      /\ request'[r].todo = Tail(request[r].todo)
      /\ \A o \in Requests : o # r => request'[o] = request[o]
  BY <1>1, PromotionDone
<1>5. p \in Proposals /\ st \in {"pending", "approved", "rejected", "expired"}
  BY <1>2, <1>4, CommandIs
<1>6. PICK s, u : s = request[r].todo /\ u = Tail(s)
  OBVIOUS
<1>7. s \in Seq(AgentCommand) /\ s # <<>> /\ InAgentOrder(s) /\ s[1].do = "saveProposal"
  BY <1>4, <1>6, ListIs
<1>8. q \in Proposal /\ Backed(q.approvers, promotionPast.voted[p])
  <2>1. FitsPromotion(s, q, promotionPast.voted) /\ q \in Proposal \cup {NoProposal}
    BY <1>2, <1>6 DEF PromotionInv, PromotionTyped
  <2>2. 1 \in 1 .. Len(s)
    BY <1>7, RestOfList
  <2>3. FitsCopy(s[1], q, promotionPast.voted)
    BY <1>7, <2>1, <2>2 DEF FitsPromotion, Copying
  <2>4. NoProposal.status # "pending"
    BY DEF NoProposal
  <2> QED BY <1>2, <1>4, <1>6, <2>1, <2>3, <2>4 DEF FitsCopy
<1>9. new \in Proposal /\ new.approvers = q.approvers
  BY <1>2, <1>5, <1>8 DEF Proposal
<1>10. PromotionTyped'
  BY <1>3, <1>5, <1>9 DEF PromotionInv, PromotionTyped
<1>11. /\ proposals'[p] = new /\ \A o \in Proposals : o # p => proposals'[o] = proposals[o]
       /\ copies'[r] = NoProposal /\ \A o \in Requests : o # r => copies'[o] = copies[o]
  BY <1>3, <1>5 DEF PromotionInv, PromotionTyped
<1>12. ProposalsBacked'
  BY <1>3, <1>8, <1>9, <1>11 DEF PromotionInv, ProposalsBacked
<1>13. \A i \in 1 .. Len(u) : u[i].do \notin Copying
  <2>1. \A i \in 1 .. Len(s) : s[i].do \in Copying => i = 1
    BY <1>7, LastOnes
  <2>2. \A i \in 1 .. Len(u) : i + 1 \in 1 .. Len(s) /\ u[i] = s[i + 1]
    BY <1>6, <1>7, AgentTail
  <2> QED BY <2>1, <2>2
<1>14. ASSUME NEW o \in Requests
       PROVE  FitsPromotion(request'[o].todo, copies'[o], promotionPast.voted)
  <2>1. CASE o = r
    BY <1>4, <1>6, <1>13, <2>1 DEF FitsPromotion
  <2>2. CASE o # r
    BY <1>4, <1>11, <2>2 DEF PromotionInv
  <2> QED BY <2>1, <2>2
<1>15. PromotionInv'
  BY <1>3, <1>10, <1>12, <1>14 DEF PromotionInv
<1> QED BY <1>3, <1>4, <1>15 DEF PromotionStep

-----------------------------------------------------------------------------
(* Decisions of requests one after the other.                               *)

\* The commands about to store an approval, and about to log w, of p.
Approves(t, p) == t # <<>> /\ t[1].do = "saveProposal" /\ t[1].id = p /\ t[1].how = "approved"
Tells(t, p, w) == t # <<>> /\ t[1].do = "log" /\ t[1].id = p /\ t[1].how = w

\* A proposal p, applied n times and with this status, when the request in
\* progress has still to send t.
Settled(p, n, status, faults, told, t) ==
    /\ status = "approved" \/ Approves(t, p) => n > 0
    /\ status # "approved" /\ ~Approves(t, p) => n <= faults
    /\ n <= faults + 1
    /\ status = "none" => n = 0
    /\ status \in {"approved", "rejected", "expired"} =>
         faults > 0 \/ <<p, Announced[status]>> \in told \/ Tells(t, p, Announced[status])

\* A request works on pending proposals.
FitsPending(t, stored) ==
    t # <<>> /\ t[1].do # "readProposal" =>
      \A i \in 1 .. Len(t) : t[i].do \in Copying => stored[t[i].id].status = "pending"

Decided(t, faults, stored, told, applied) ==
    /\ FitsPending(t, stored)
    /\ \A p \in Proposals : Settled(p, Len(applied[p]), stored[p].status, faults, told, t)

\* What the request in progress has still to send.
TodoOf(rs) == IF \A r \in Requests : rs[r].todo = <<>> THEN <<>>
              ELSE rs[CHOOSE r \in Requests : rs[r].todo # <<>>].todo

DecisionInv ==
    ~tally.overlapped => Decided(TodoOf(request), tally.faults, proposals, governance, promotionPast.applied)

(* A step that neither stores a proposal nor applies one. *)
LEMMA DecisionStays ==
    ASSUME NEW s, NEW t, NEW faults \in Nat, NEW later, NEW stored, NEW told, NEW heard, NEW applied,
           \A p \in Proposals : Len(applied[p]) \in Nat,
           Decided(s, faults, stored, told, applied), told \subseteq heard, FitsPending(t, stored),
           \A p \in Proposals : ~Approves(t, p),
           \/ later = faults + 1
           \/ /\ later = faults
              /\ s # <<>> => s[1].do # "saveProposal" /\ (s[1].do = "log" => <<s[1].id, s[1].how>> \in heard)
    PROVE  Decided(t, later, stored, heard, applied)
<1> SUFFICES ASSUME NEW p \in Proposals
             PROVE  Settled(p, Len(applied[p]), stored[p].status, later, heard, t)
  BY DEF Decided
<1>1. PICK n, st : n = Len(applied[p]) /\ st = stored[p].status
  OBVIOUS
<1>2. n \in Nat /\ Settled(p, n, st, faults, told, s) /\ ~Approves(t, p)
  BY <1>1 DEF Decided
<1>3. CASE later = faults + 1
  BY <1>1, <1>2, <1>3 DEF Settled
<1>4. CASE later = faults /\ (s # <<>> => /\ s[1].do # "saveProposal"
                                          /\ s[1].do = "log" => <<s[1].id, s[1].how>> \in heard)
  <2>1. ~Approves(s, p)
    BY <1>4 DEF Approves
  <2>2. \A w : Tells(s, p, w) => <<p, w>> \in heard
    BY <1>4 DEF Tells
  <2> QED BY <1>1, <1>2, <1>4, <2>1, <2>2 DEF Settled
<1> QED BY <1>3, <1>4

LEMMA CarriesPending ==
    ASSUME NEW s, NEW t, NEW stored, FitsPending(s, stored), Carries(s, t)
    PROVE  FitsPending(t, stored)
BY DEF FitsPending, Carries

\* What a step of a request leaves decided.
Decides(r) ==
    Decided(request[r].todo, tally.faults, proposals, governance, promotionPast.applied) =>
      Decided(request'[r].todo, tally'.faults, proposals', governance', promotionPast'.applied)

LEMMA AppliedTyped ==
    ASSUME RequestsTyped, PromotionInv
    PROVE  tally.faults \in Nat /\ \A p \in Proposals : Len(promotionPast.applied[p]) \in Nat
<1>1. tally.faults \in Nat
  BY DEF RequestsTyped, Tallies
<1>2. PICK S : S = [by : Seq(Approvers), asked : Nat]
  OBVIOUS
<1>3. \A p \in Proposals : promotionPast.applied[p] \in Seq(S)
  BY <1>2 DEF PromotionInv, PromotionTyped
<1> QED BY <1>1, <1>3, LenProperties

LEMMA OpeningDecides ==
    ASSUME RequestsTyped, PromotionInv, NEW r \in Requests, NEW t, NEW l, Start(r, t, l), Opening(t),
           l \in AgentLocals, UNCHANGED promotionVars
    PROVE  Decides(r)
<1>1. request'[r].todo = t /\ request[r].todo = <<>> /\ tally'.faults = tally.faults
  BY OpensTyped
<1>2. UNCHANGED <<proposals, governance, promotionPast>>
  BY DEF promotionVars
<1>3. FitsPending(t, proposals) /\ \A p \in Proposals : ~Approves(t, p)
  BY DEF Opening, FitsPending, Approves, Refusing
<1> QED BY <1>1, <1>2, <1>3, AppliedTyped, DecisionStays, ZenonT(30) DEF Decides

LEMMA QuietDecides ==
    ASSUME RequestsTyped, PromotionInv, NEW r \in Requests, Quiet(r), UNCHANGED promotionVars
    PROVE  Decides(r)
<1>1. PICK t, l : Goes(r, t, l) /\ Onward(request[r].todo, t)
  BY DEF Quiet
<1>2. r \in Busy /\ request'[r].todo = t
  BY <1>1, GoesTyped DEF Goes
<1>3. UNCHANGED <<proposals, governance, promotionPast>>
  BY DEF promotionVars
<1>4. PICK s : s = request[r].todo
  OBVIOUS
<1>5. Carries(s, t) /\ \A p \in Proposals : ~Approves(t, p)
  <2>1. t # <<>> => t[1].do # "saveProposal"
    BY <1>1, <1>2, OnwardIs
  <2> QED BY <1>1, <1>2, <1>4, <2>1, OnwardCarries DEF Approves
<1>6. \/ tally'.faults = tally.faults + 1
      \/ tally'.faults = tally.faults /\ s[1].do # "saveProposal" /\ s[1].do # "log"
  BY <1>1, <1>4 DEF Goes, Quiet, PromotionDo
<1>7. ASSUME Decided(s, tally.faults, proposals, governance, promotionPast.applied)
      PROVE  FitsPending(t, proposals)
  BY <1>5, <1>7, CarriesPending DEF Decided
<1> QED BY <1>2, <1>3, <1>4, <1>5, <1>6, <1>7, AppliedTyped, DecisionStays DEF Decides

LEMMA AuditDecides ==
    ASSUME RequestsTyped, PromotionInv, NEW r \in Requests, AuditStep(r), UNCHANGED promotionVars,
           tally' = tally
    PROVE  Decides(r)
<1>0. PICK s : s = request[r].todo
  OBVIOUS
<1>1. PICK t : t = Tail(s)
  OBVIOUS
<1>2. r \in Busy /\ request'[r].todo = t /\ s[1].do \in {"readTail", "setEvent", "addEvent"}
  <2>1. PICK l : Goes(r, Tail(s), l)
    BY <1>0, <1>1 DEF AuditStep
  <2> QED BY <1>0, <1>1, <2>1, GoesTyped DEF Goes, AuditStep
<1>3. UNCHANGED <<proposals, governance, promotionPast>>
  BY DEF promotionVars
<1>4. This(r) = s[1] /\ (t # <<>> => MayFollow(s[1], t[1]))
  BY <1>0, <1>1, <1>2, NextIs, ListIs
<1>5. \A p \in Proposals : ~Approves(t, p)
  BY <1>2, <1>4 DEF MayFollow, Approves
<1>6. Carries(s, t)
  BY <1>0, <1>1, <1>2, TailCarries
<1>7. ASSUME Decided(s, tally.faults, proposals, governance, promotionPast.applied)
      PROVE  FitsPending(t, proposals)
  BY <1>6, <1>7, CarriesPending DEF Decided
<1>8. tally'.faults = tally.faults /\ s[1].do # "saveProposal" /\ s[1].do # "log" /\ request'[r].todo = t
  BY <1>2
<1> QED BY <1>0, <1>3, <1>5, <1>7, <1>8, AppliedTyped, DecisionStays DEF Decides

LEMMA LogDecides ==
    ASSUME RequestsTyped, PromotionInv, NEW r \in Requests, Log(r)
    PROVE  Decides(r)
<1>1. At(r, "log") /\ Done(r) /\ "log" \in PromotionDo
  BY DEF Log, PromotionDo
<1>0. PICK s : s = request[r].todo
  OBVIOUS
<1>2. PICK t : t = Tail(s)
  OBVIOUS
<1>3. /\ r \in Busy /\ This(r) = s[1] /\ s[1].do = "log" /\ request'[r].todo = t /\ tally' = tally
  BY <1>1, <1>0, <1>2, PromotionDone
<1>4. /\ UNCHANGED <<proposals, promotionPast>> /\ governance' = governance \cup {<<s[1].id, s[1].how>>}
  BY <1>3 DEF Log
<1>5. t = <<>>
  BY <1>0, <1>2, <1>3, ListIs, LastOnes
<1>6. FitsPending(t, proposals) /\ \A p \in Proposals : ~Approves(t, p)
  BY <1>5 DEF FitsPending, Approves
<1>7. governance \subseteq governance' /\ <<s[1].id, s[1].how>> \in governance'
  BY <1>4
<1>8. tally'.faults = tally.faults /\ s[1].do # "saveProposal" /\ request'[r].todo = t
      /\ proposals' = proposals /\ promotionPast' = promotionPast
  BY <1>3, <1>4
<1> QED BY <1>0, <1>6, <1>7, <1>8, AppliedTyped, DecisionStays DEF Decides

LEMMA PolicyDecides ==
    ASSUME RequestsTyped, PromotionInv, NEW r \in Requests, StorePolicy(r)
    PROVE  Decides(r)
<1>1. At(r, "setPolicy") /\ Done(r) /\ "setPolicy" \in PromotionDo
  BY DEF StorePolicy, PromotionDo
<1>0. PICK s : s = request[r].todo
  OBVIOUS
<1>2. PICK t : t = Tail(s)
  OBVIOUS
<1>3. /\ r \in Busy /\ This(r) = s[1] /\ s[1].do = "setPolicy" /\ request'[r].todo = t /\ tally' = tally
      /\ Carries(s, t)
  BY <1>1, <1>0, <1>2, PromotionDone
<1>4. UNCHANGED <<proposals, promotionPast, governance>>
  BY DEF StorePolicy
<1>5. t # <<>> => t[1].do = "log"
  BY <1>0, <1>2, <1>3, NextIs DEF MayFollow
<1>6. \A p \in Proposals : ~Approves(t, p)
  BY <1>5 DEF Approves
<1>7. ASSUME Decided(s, tally.faults, proposals, governance, promotionPast.applied)
      PROVE  FitsPending(t, proposals)
  BY <1>3, <1>7, CarriesPending DEF Decided
<1>8. tally'.faults = tally.faults /\ s[1].do # "saveProposal" /\ s[1].do # "log"
  BY <1>3
<1> QED BY <1>0, <1>3, <1>4, <1>6, <1>7, <1>8, AppliedTyped, DecisionStays, ZenonT(30) DEF Decides

LEMMA ReadDecides ==
    ASSUME RequestsTyped, PromotionInv, NEW r \in Requests, ReadProposal(r)
    PROVE  Decides(r)
<1>1. /\ At(r, "readProposal") /\ "readProposal" \in PromotionDo
      /\ UNCHANGED <<proposals, governance, promotionPast>>
  BY DEF ReadProposal, PromotionDo
<1>2. PICK s, t : s = request[r].todo /\ t = request'[r].todo
  OBVIOUS
<1>3. r \in Busy /\ This(r) = s[1] /\ s[1].do = "readProposal" /\ This(r) \in AgentCommand
  <2>1. r \in Busy /\ This(r).do = "readProposal"
    BY <1>1 DEF At, This
  <2> QED BY <1>2, <2>1, ListIs
<1>4. PICK p : p = s[1].id
  OBVIOUS
<1>5. tally'.faults = tally.faults /\ FitsPending(t, proposals) /\ \A o \in Proposals : ~Approves(t, o)
  <2>1. CASE Refuse(r)
    <3>1. t = <<>>
      BY <1>2, <1>3, <2>1, RefuseGoes, GoesTyped
    <3>2. tally' = tally
      BY <2>1 DEF Refuse
    <3> QED BY <3>1, <3>2 DEF FitsPending, Approves
  <2>2. CASE Done(r) /\ proposals[p].status = "pending"
    <3>1. t = Tail(s) /\ tally' = tally
      BY <1>1, <1>2, <2>2, PromotionDone
    <3>2. t # <<>> => MayFollow(s[1], t[1]) /\ t \in Seq(AgentCommand) /\ InAgentOrder(t)
      BY <1>2, <1>3, <3>1, NextIs, ListIs
    <3>3. t # <<>> => t[1].id = p /\ (t[1].do = "decide" \/ (t[1].do = "saveProposal" /\ t[1].how = "rejected"))
      BY <1>3, <1>4, <3>2 DEF MayFollow
    <3>4. t # <<>> => \A i \in 1 .. Len(t) : t[i].do \in Copying => i = 1
      BY <3>2, <3>3, LastOnes
    <3>5. FitsPending(t, proposals)
      BY <2>2, <3>3, <3>4 DEF FitsPending
    <3> QED BY <3>1, <3>3, <3>5 DEF Approves
  <2> QED BY <1>3, <1>4, <2>1, <2>2 DEF ReadProposal
<1>6. s[1].do # "saveProposal" /\ s[1].do # "log"
  BY <1>3
<1> QED BY <1>1, <1>2, <1>5, <1>6, AppliedTyped, DecisionStays DEF Decides

LEMMA DecideDecides ==
    ASSUME RequestsTyped, PromotionInv, NEW r \in Requests, Decide(r)
    PROVE  Decides(r)
<1>1. /\ At(r, "decide") /\ UNCHANGED <<proposals, governance>>
      /\ promotionPast'.applied = promotionPast.applied /\ tally' = tally
  <2>1. At(r, "decide") /\ UNCHANGED <<proposals, governance>>
    BY DEF Decide
  <2>2. \/ promotionPast' = promotionPast
        \/ promotionPast' = [promotionPast EXCEPT !.voted[This(r).id] = @ \cup {This(r).how}]
    BY DEF Decide
  <2>3. tally' = tally
    BY DEF Decide, Insert, Refuse
  <2> QED BY <2>1, <2>2, <2>3 DEF PromotionInv, PromotionTyped
<1>2. PICK s, t : s = request[r].todo /\ t = request'[r].todo
  OBVIOUS
<1>3. /\ r \in Busy /\ This(r) = s[1] /\ s[1].do = "decide" /\ s # <<>> /\ s \in Seq(AgentCommand)
  <2>1. r \in Busy /\ This(r).do = "decide"
    BY <1>1 DEF At, This
  <2> QED BY <1>2, <2>1, ListIs
<1>4. Pursues(t, s[1].id)
  BY <1>2, <1>3, DecideKeeps
<1>5. \A o \in Proposals : ~Approves(t, o)
  BY <1>4 DEF Pursues, Approves
<1>6. ASSUME Decided(s, tally.faults, proposals, governance, promotionPast.applied)
      PROVE  FitsPending(t, proposals)
  <2>1. 1 \in 1 .. Len(s)
    BY <1>3, RestOfList
  <2>2. proposals[s[1].id].status = "pending"
    BY <1>3, <1>6, <2>1 DEF Decided, FitsPending, Copying
  <2> QED BY <1>4, <2>2 DEF FitsPending, Pursues
<1>7. tally'.faults = tally.faults /\ s[1].do # "saveProposal" /\ s[1].do # "log"
  BY <1>1, <1>3
<1> QED BY <1>1, <1>2, <1>5, <1>6, <1>7, AppliedTyped, DecisionStays, ZenonT(30) DEF Decides

LEMMA AppliedDecides ==
    ASSUME RequestsTyped, PromotionInv, NEW r \in Requests, Applied(r)
    PROVE  Decides(r)
<1>1. /\ At(r, "applied") /\ Done(r) /\ "applied" \in PromotionDo /\ UNCHANGED <<proposals, governance>>
  BY DEF Applied, PromotionDo
<1>2. PICK s, t : s = request[r].todo /\ t = request'[r].todo
  OBVIOUS
<1>3. /\ r \in Busy /\ This(r) = s[1] /\ s[1].do = "applied" /\ s[1] \in AgentCommand
      /\ t = Tail(s) /\ tally' = tally /\ Carries(s, t)
  BY <1>1, <1>2, PromotionDone
<1>4. PICK p : p = s[1].id
  OBVIOUS
<1>5. p \in Proposals
  BY <1>3, <1>4, CommandIs
<1>6. Approves(t, p) /\ \A o \in Proposals : o # p => ~Approves(t, o)
  <2>1. s \in Seq(AgentCommand) /\ s # <<>> /\ InAgentOrder(s)
    BY <1>2, <1>3, ListIs
  <2>2. t # <<>>
    <3>1. PICK u : u = Tail(s)
      OBVIOUS
    <3>2. Len(s) \in Nat /\ (u = <<>> => Len(s) = 1) /\ MayEnd(s[Len(s)])
      BY <2>1, <3>1, AgentTail DEF InAgentOrder
    <3> QED BY <1>3, <3>1, <3>2 DEF MayEnd
  <2>3. MayFollow(s[1], t[1])
    BY <1>2, <1>3, <2>2, NextIs
  <2> QED BY <1>3, <1>4, <2>2, <2>3 DEF MayFollow, Approves
<1>7. /\ Len(promotionPast'.applied[p]) = Len(promotionPast.applied[p]) + 1
      /\ \A o \in Proposals : o # p => promotionPast'.applied[o] = promotionPast.applied[o]
  <2>1. PICK S, V : S = [by : Seq(Approvers), asked : Nat] /\ V = [Proposals -> SUBSET Approvers]
    OBVIOUS
  <2>2. promotionPast \in [voted : V, applied : [Proposals -> Seq(S)]]
    BY <2>1 DEF PromotionInv, PromotionTyped
  <2>3. PICK x : promotionPast' = [promotionPast EXCEPT !.applied[p] = Append(@, x)]
    BY <1>3, <1>4 DEF Applied
  <2>4. PICK v : v = promotionPast.applied[p]
    OBVIOUS
  <2>5. v \in Seq(S)
    BY <1>5, <2>2, <2>4
  <2>6. Len(Append(v, x)) = Len(v) + 1
    BY <2>5
  <2> QED BY <1>5, <2>2, <2>3, <2>4, <2>6
<1>8. ASSUME Decided(s, tally.faults, proposals, governance, promotionPast.applied)
      PROVE  Decided(t, tally.faults, proposals, governance, promotionPast'.applied)
  <2>1. FitsPending(t, proposals)
    BY <1>3, <1>8, CarriesPending DEF Decided
  <2>2. proposals[p].status = "pending"
    <3>1. s \in Seq(AgentCommand) /\ s # <<>>
      BY <1>2, <1>3, ListIs
    <3>2. 1 \in 1 .. Len(s)
      BY <3>1, RestOfList
    <3> QED BY <1>3, <1>4, <1>8, <3>1, <3>2 DEF Decided, FitsPending, Copying
  <2>3. ASSUME NEW o \in Proposals
        PROVE  Settled(o, Len(promotionPast'.applied[o]), proposals[o].status, tally.faults, governance, t)
    <3>1. PICK n, st : n = Len(promotionPast.applied[o]) /\ st = proposals[o].status
      OBVIOUS
    <3>2. n \in Nat /\ tally.faults \in Nat /\ Settled(o, n, st, tally.faults, governance, s)
      BY <1>8, <3>1, AppliedTyped DEF Decided
    <3>3. ~Approves(s, o) /\ \A w : ~Tells(s, o, w)
      BY <1>3 DEF Approves, Tells
    <3>4. CASE o = p
      <4>1. PICK m : m = Len(promotionPast'.applied[o])
        OBVIOUS
      <4>2. m = n + 1 /\ st = "pending" /\ Approves(t, o)
        BY <1>6, <1>7, <2>2, <3>1, <3>4, <4>1
      <4>3. n <= tally.faults
        BY <3>2, <3>3, <4>2 DEF Settled
      <4>4. Settled(o, m, st, tally.faults, governance, t)
        BY <3>2, <4>2, <4>3 DEF Settled
      <4> QED BY <3>1, <4>1, <4>4
    <3>5. CASE o # p
      BY <1>6, <1>7, <3>1, <3>2, <3>3, <3>5 DEF Settled
    <3> QED BY <3>4, <3>5
  <2> QED BY <2>1, <2>3 DEF Decided
<1> QED BY <1>1, <1>2, <1>3, <1>8 DEF Decides

LEMMA SaveDecides ==
    ASSUME RequestsTyped, PromotionInv, NEW r \in Requests, SaveProposal(r)
    PROVE  Decides(r)
<1>1. /\ At(r, "saveProposal") /\ Done(r) /\ "saveProposal" \in PromotionDo /\ UNCHANGED <<promotionPast, governance>>
  BY DEF SaveProposal, PromotionDo
<1>2. PICK s, t : s = request[r].todo /\ t = request'[r].todo
  OBVIOUS
<1>3. /\ r \in Busy /\ This(r) = s[1] /\ s[1].do = "saveProposal" /\ s[1] \in AgentCommand
      /\ t = Tail(s) /\ tally' = tally
  BY <1>1, <1>2, PromotionDone
<1>4. PICK p, how : p = s[1].id /\ how = s[1].how
  OBVIOUS
<1>5. p \in Proposals /\ how \in {"pending", "approved", "rejected", "expired"}
  BY <1>3, <1>4, CommandIs
<1>6. s \in Seq(AgentCommand) /\ s # <<>> /\ InAgentOrder(s)
  BY <1>2, <1>3, ListIs
<1>7. t # <<>> /\ t[1].do = "log" /\ t[1].id = p /\ (how # "pending" => t[1].how = Announced[how])
  <2>1. t # <<>>
    <3>1. PICK u : u = Tail(s)
      OBVIOUS
    <3>2. Len(s) \in Nat /\ (u = <<>> => Len(s) = 1) /\ MayEnd(s[Len(s)])
      BY <1>6, <3>1, AgentTail DEF InAgentOrder
    <3> QED BY <1>3, <3>1, <3>2 DEF MayEnd
  <2>2. MayFollow(s[1], t[1])
    BY <1>2, <1>3, <2>1, NextIs
  <2> QED BY <1>3, <1>4, <2>1, <2>2 DEF MayFollow
<1>8. \A i \in 1 .. Len(t) : t[i].do \notin Copying
  <2>1. \A i \in 1 .. Len(s) : s[i].do \in Copying => i = 1
    BY <1>3, <1>6, LastOnes
  <2>2. \A i \in 1 .. Len(t) : i + 1 \in 1 .. Len(s) /\ t[i] = s[i + 1]
    BY <1>3, <1>6, AgentTail
  <2> QED BY <2>1, <2>2
<1>9. proposals'[p].status = how /\ \A o \in Proposals : o # p => proposals'[o] = proposals[o]
  <2>1. proposals' = [proposals EXCEPT ![p] = [copies[r] EXCEPT !.status = how]]
    BY <1>3, <1>4 DEF SaveProposal
  <2>2. copies[r] \in Proposal \cup {NoProposal}
    BY DEF PromotionInv, PromotionTyped
  <2>3. [copies[r] EXCEPT !.status = how].status = how
    BY <2>2 DEF Proposal, NoProposal
  <2> QED BY <1>5, <2>1, <2>3 DEF PromotionInv, PromotionTyped
<1>10. ASSUME Decided(s, tally.faults, proposals, governance, promotionPast.applied)
       PROVE  Decided(t, tally.faults, proposals', governance, promotionPast.applied)
  <2>1. FitsPending(t, proposals')
    BY <1>8 DEF FitsPending
  <2>2. proposals[p].status = "pending"
    <3>1. 1 \in 1 .. Len(s)
      BY <1>6, RestOfList
    <3> QED BY <1>3, <1>4, <1>6, <1>10, <3>1 DEF Decided, FitsPending, Copying
  <2>3. ASSUME NEW o \in Proposals
        PROVE  Settled(o, Len(promotionPast.applied[o]), proposals'[o].status, tally.faults, governance, t)
    <3>1. PICK n, st : n = Len(promotionPast.applied[o]) /\ st = proposals[o].status
      OBVIOUS
    <3>2. n \in Nat /\ tally.faults \in Nat /\ Settled(o, n, st, tally.faults, governance, s)
      BY <1>10, <3>1, AppliedTyped DEF Decided
    <3>3. ~Approves(t, o)
      BY <1>7 DEF Approves
    <3>4. CASE o = p
      <4>1. Approves(s, o) <=> how = "approved"
        BY <1>3, <1>4, <1>6, <3>4 DEF Approves
      <4>2. how # "pending" => Tells(t, o, Announced[how])
        BY <1>7, <3>4 DEF Tells
      <4>3. st = "pending" /\ proposals'[o].status = how
        BY <1>9, <2>2, <3>1, <3>4
      <4> QED BY <1>5, <3>1, <3>2, <3>3, <4>1, <4>2, <4>3 DEF Settled
    <3>5. CASE o # p
      <4>1. ~Approves(s, o) /\ \A w : ~Tells(s, o, w)
        BY <1>3, <1>4, <3>5 DEF Approves, Tells
      <4> QED BY <1>9, <3>1, <3>2, <3>3, <3>5, <4>1 DEF Settled
    <3> QED BY <3>4, <3>5
  <2> QED BY <2>1, <2>3 DEF Decided
<1> QED BY <1>1, <1>2, <1>3, <1>10 DEF Decides

LEMMA SetDecides ==
    ASSUME RequestsTyped, PromotionInv, NEW r \in Requests, SetProposal(r)
    PROVE  Decides(r)
<1>1. /\ At(r, "setProposal") /\ Done(r) /\ "setProposal" \in PromotionDo /\ UNCHANGED governance
  BY DEF SetProposal, PromotionDo
<1>2. PICK s, t : s = request[r].todo /\ t = request'[r].todo
  OBVIOUS
<1>3. /\ r \in Busy /\ This(r) = s[1] /\ s[1].do = "setProposal" /\ s[1] \in AgentCommand
      /\ t = Tail(s) /\ tally' = tally /\ Carries(s, t)
  BY <1>1, <1>2, PromotionDone
<1>4. PICK p : p = s[1].id
  OBVIOUS
<1>5. p \in Proposals
  BY <1>3, <1>4, CommandIs
<1>6. \A o \in Proposals : ~Approves(t, o) /\ ~Approves(s, o) /\ \A w : ~Tells(s, o, w)
  <2>1. t # <<>> => t[1].do = "log"
    BY <1>2, <1>3, NextIs DEF MayFollow
  <2> QED BY <1>3, <2>1 DEF Approves, Tells
<1>7. proposals'[p].status = "pending" /\ \A o \in Proposals : o # p => proposals'[o] = proposals[o]
  <2>1. PICK h : proposals' = [proposals EXCEPT ![p] = NewProposal(h[1], h[2], h[3])]
    BY <1>3, <1>4 DEF SetProposal
  <2>2. NewProposal(h[1], h[2], h[3]).status = "pending"
    BY DEF NewProposal
  <2> QED BY <1>5, <2>1, <2>2 DEF PromotionInv, PromotionTyped
<1>8. promotionPast'.applied[p] = <<>> /\ \A o \in Proposals : o # p => promotionPast'.applied[o] = promotionPast.applied[o]
  <2>1. PICK A, V : A = [Proposals -> Seq([by : Seq(Approvers), asked : Nat])] /\ V = [Proposals -> SUBSET Approvers]
    OBVIOUS
  <2>2. promotionPast \in [voted : V, applied : A] /\ \A f \in A : DOMAIN f = Proposals
    BY <2>1 DEF PromotionInv, PromotionTyped
  <2>3. promotionPast' = [promotionPast EXCEPT !.applied[p] = <<>>]
    BY <1>3, <1>4 DEF SetProposal
  <2> QED BY <1>5, <2>2, <2>3
<1>9. ASSUME Decided(s, tally.faults, proposals, governance, promotionPast.applied)
      PROVE  Decided(t, tally.faults, proposals', governance, promotionPast'.applied)
  <2>1. FitsPending(t, proposals')
    <3>1. FitsPending(t, proposals)
      BY <1>3, <1>9, CarriesPending DEF Decided
    <3>2. ASSUME NEW i \in 1 .. Len(t), t[i].do \in Copying
          PROVE  t[i].id \in Proposals
      <4>1. t \in Seq(AgentCommand)
        BY <1>2, <1>3, ListIs
      <4>2. t[i] \in AgentCommand
        BY <4>1, ElementOfSeq
      <4> QED BY <3>2, <4>2, CommandIs DEF Copying
    <3> QED BY <1>7, <3>1, <3>2 DEF FitsPending
  <2>2. ASSUME NEW o \in Proposals
        PROVE  Settled(o, Len(promotionPast'.applied[o]), proposals'[o].status, tally.faults, governance, t)
    <3>1. PICK n, st : n = Len(promotionPast.applied[o]) /\ st = proposals[o].status
      OBVIOUS
    <3>2. n \in Nat /\ tally.faults \in Nat /\ Settled(o, n, st, tally.faults, governance, s)
      BY <1>9, <3>1, AppliedTyped DEF Decided
    <3>3. CASE o = p
      <4>1. Len(promotionPast'.applied[o]) = 0 /\ proposals'[o].status = "pending"
        BY <1>7, <1>8, <3>3
      <4> QED BY <1>6, <3>2, <4>1 DEF Settled
    <3>4. CASE o # p
      BY <1>6, <1>7, <1>8, <3>1, <3>2, <3>4 DEF Settled
    <3> QED BY <3>3, <3>4
  <2> QED BY <2>1, <2>2 DEF Decided
<1> QED BY <1>1, <1>2, <1>3, <1>9 DEF Decides


-----------------------------------------------------------------------------
(* The invariant.                                                           *)

AgencyInv == RequestsTyped /\ StoreTyped /\ AuditInv /\ PromotionInv

\* The events of the agents a store begins with: each was created, and some
\* have a branch.
CreatedOf(here) == {[agent |-> a, action |-> "Created", prev |-> 0, to |-> 1] : a \in here}
NumberOf(first, a) == CHOOSE i \in 1 .. Len(first) : first[i].agent = a
BranchedOf(open, first) ==
    {[agent |-> b[1], action |-> "BranchCreated", prev |-> NumberOf(first, b[1]), to |-> 1] : b \in open}
AgentOnce(s) == \A i, j \in 1 .. Len(s) : s[i].agent = s[j].agent => i = j
CreatedLog(first, here) ==
    /\ first \in Seq(Event) /\ AgentOnce(first)
    /\ \A i \in 1 .. Len(first) : first[i].prev = 0
    /\ \A a \in here : \E i \in 1 .. Len(first) : first[i].agent = a
BranchedLog(later, first) ==
    /\ later \in Seq(Event) /\ AgentOnce(later)
    /\ \A i \in 1 .. Len(later) : /\ later[i].prev \in 1 .. Len(first)
                                  /\ first[later[i].prev].agent = later[i].agent
EventsOf(log, id) == {i \in 1 .. Len(log) : log[i].agent = id}
OneBranchOf(open, here) == (\A b \in open : b[1] \in here) /\ \A b, d \in open : b[1] = d[1] => b = d

LEMMA FirstEvents ==
    ASSUME NEW here \in SUBSET Agents, NEW first,
           first = SetToSeq(CreatedOf(here))
    PROVE  CreatedLog(first, here)
<1> DEFINE f == [a \in here |-> [agent |-> a, action |-> "Created", prev |-> 0, to |-> 1]]
<1>1. PICK S : S = CreatedOf(here)
  OBVIOUS
<1>2. f \in Surjection(here, S)
  BY <1>1 DEF Surjection, CreatedOf
<1>3. IsFiniteSet(here)
  BY AgentAssumption, FS_Subset
<1> HIDE DEF f
<1>4. IsFiniteSet(S)
  BY <1>2, <1>3, FS_Surjection
<1>5. PICK n : n = Len(first)
  OBVIOUS
<1>6. first = SetToSeq(S)
  BY <1>1
<1>7. /\ first \in Seq(S) /\ n \in Nat
      /\ \A i \in 1 .. n : first[i] \in S
      /\ \A x \in S : \E i \in 1 .. n : first[i] = x
      /\ \A i, j \in 1 .. n : first[i] = first[j] => i = j
  <2>1. /\ first \in Seq(S) /\ Len(first) \in Nat
        /\ \A i \in 1 .. Len(first) : first[i] \in S
        /\ \A x \in S : \E i \in 1 .. Len(first) : first[i] = x
        /\ \A i, j \in 1 .. Len(first) : first[i] = first[j] => i = j
    BY <1>4, <1>6, SetAsList, SMTT(30)
  <2> QED BY <1>5, <2>1
<1>8. \A x \in S : x.prev = 0 /\ x.agent \in here /\ x \in Event
  <2>1. here \subseteq Ids
    BY DEF Ids
  <2> QED BY <1>1, <2>1 DEF Event, Told, CreatedOf
<1>9. \A x, y \in S : x.agent = y.agent => x = y
  <2>1. \A x \in S : \E a \in here : x = [agent |-> a, action |-> "Created", prev |-> 0, to |-> 1]
    BY <1>1 DEF CreatedOf
  <2>2. ASSUME NEW x \in S, NEW y \in S, x.agent = y.agent
        PROVE  x = y
    <3>1. PICK a \in here : x = [agent |-> a, action |-> "Created", prev |-> 0, to |-> 1]
      BY <2>1
    <3>2. PICK b \in here : y = [agent |-> b, action |-> "Created", prev |-> 0, to |-> 1]
      BY <2>1
    <3>3. a = b
      BY <2>2, <3>1, <3>2
    <3> QED BY <3>1, <3>2, <3>3
  <2> QED BY <2>2
<1>10. \A a \in here : \E x \in S : x.agent = a
  <2>1. ASSUME NEW a \in here
        PROVE  \E x \in S : x.agent = a
    <3>1. PICK x : x = [agent |-> a, action |-> "Created", prev |-> 0, to |-> 1]
      OBVIOUS
    <3>2. x \in S /\ x.agent = a
      BY <1>1, <3>1 DEF CreatedOf
    <3> QED BY <3>2
  <2> QED BY <2>1
<1>11. first \in Seq(Event)
  <2>1. S \subseteq Event
    BY <1>8
  <2>2. \A A \in SUBSET Event : Seq(A) \subseteq Seq(Event)
    OBVIOUS
  <2> QED BY <1>7, <2>1, <2>2
<1>12. \A i, j \in 1 .. n : first[i].agent = first[j].agent => i = j
  BY <1>7, <1>9
<1>13. \A a \in here : \E i \in 1 .. n : first[i].agent = a
  BY <1>7, <1>10
<1> QED BY <1>5, <1>7, <1>8, <1>11, <1>12, <1>13 DEF CreatedLog, AgentOnce

(* ... and some have a branch. *)
LEMMA LaterEvents ==
    ASSUME NEW here \in SUBSET Agents, NEW open \in SUBSET BranchIds, OneBranchOf(open, here),
           NEW first, CreatedLog(first, here), NEW later,
           later = SetToSeq(BranchedOf(open, first))
    PROVE  BranchedLog(later, first)
<1> DEFINE f == [b \in open |-> [agent |-> b[1], action |-> "BranchCreated",
                                 prev |-> NumberOf(first, b[1]), to |-> 1]]
<1>1. PICK T : T = BranchedOf(open, first)
  OBVIOUS
<1>2. later = SetToSeq(T)
  BY <1>1
<1>3. \A x \in T : \E b \in open : x = f[b]
  <2>1. ASSUME NEW x \in T
        PROVE  \E b \in open : x = f[b]
    <3>1. PICK b \in open : x = [agent |-> b[1], action |-> "BranchCreated",
                                 prev |-> NumberOf(first, b[1]), to |-> 1]
      BY <1>1 DEF BranchedOf
    <3>2. x = f[b]
      BY <3>1
    <3> QED BY <3>2
  <2> QED BY <2>1
<1>4. \A b \in open : f[b] \in T
  <2>1. ASSUME NEW b \in open
        PROVE  f[b] \in T
    <3>1. PICK x : x = [agent |-> b[1], action |-> "BranchCreated",
                        prev |-> NumberOf(first, b[1]), to |-> 1]
      OBVIOUS
    <3>2. x \in T
      BY <1>1, <3>1 DEF BranchedOf
    <3>3. x = f[b]
      BY <3>1
    <3> QED BY <3>2, <3>3
  <2> QED BY <2>1
<1>5. ASSUME NEW b \in open
      PROVE  /\ f[b].agent = b[1] /\ f[b].prev \in 1 .. Len(first) /\ first[f[b].prev].agent = b[1]
             /\ f[b] \in Event
  <2>1. b[1] \in here
    BY DEF OneBranchOf
  <2>2. PICK c : c = NumberOf(first, b[1])
    OBVIOUS
  <2>3. c \in 1 .. Len(first) /\ first[c].agent = b[1]
    BY <2>1, <2>2 DEF CreatedLog, NumberOf
  <2>4. f[b] = [agent |-> b[1], action |-> "BranchCreated", prev |-> c, to |-> 1]
    BY <2>2
  <2>5. here \subseteq Ids
    BY DEF Ids
  <2> HIDE DEF f
  <2>6. c \in Nat /\ b[1] \in Ids
    BY <2>1, <2>3, <2>5 DEF CreatedLog
  <2>7. f[b] \in Event
    BY <2>4, <2>6 DEF Event, Told
  <2> QED BY <2>3, <2>4, <2>7
<1>6. f \in [open -> T] /\ DOMAIN f = open
  BY <1>4
<1> HIDE DEF f
<1>7. f \in Surjection(open, T)
  BY <1>3, <1>6 DEF Surjection
<1>8. IsFiniteSet(open)
  <2>1. IsFiniteSet(BranchIds)
    BY AgentAssumption, FS_Product DEF BranchIds
  <2> QED BY <2>1, FS_Subset
<1>9. IsFiniteSet(T)
  BY <1>7, <1>8, FS_Surjection
<1>10. PICK n : n = Len(later)
  OBVIOUS
<1>11. /\ later \in Seq(T) /\ n \in Nat
       /\ \A i \in 1 .. n : later[i] \in T
       /\ \A i, j \in 1 .. n : later[i] = later[j] => i = j
  <2>1. /\ later \in Seq(T) /\ Len(later) \in Nat
        /\ \A i \in 1 .. Len(later) : later[i] \in T
        /\ \A x \in T : \E i \in 1 .. Len(later) : later[i] = x
        /\ \A i, j \in 1 .. Len(later) : later[i] = later[j] => i = j
    BY <1>2, <1>9, SetAsList, SMTT(30)
  <2> QED BY <1>10, <2>1
<1>12. \A x \in T : x \in Event /\ x.prev \in 1 .. Len(first) /\ first[x.prev].agent = x.agent
  BY <1>3, <1>5
<1>13. \A x, y \in T : x.agent = y.agent => x = y
  BY <1>3, <1>5 DEF OneBranchOf
<1>14. later \in Seq(Event)
  <2>1. T \subseteq Event
    BY <1>12
  <2>2. \A A \in SUBSET Event : Seq(A) \subseteq Seq(Event)
    OBVIOUS
  <2> QED BY <1>11, <2>1, <2>2
<1>15. \A i \in 1 .. n : later[i].prev \in 1 .. Len(first) /\ first[later[i].prev].agent = later[i].agent
  BY <1>11, <1>12
<1>16. \A i, j \in 1 .. n : later[i].agent = later[j].agent => i = j
  BY <1>11, <1>13
<1> QED BY <1>10, <1>14, <1>15, <1>16 DEF BranchedLog, AgentOnce

(* The log a store begins with. *)
LEMMA FirstLog ==
    ASSUME NEW here, NEW first, CreatedLog(first, here), NEW later, BranchedLog(later, first),
           NEW log, log = first \o later
    PROVE  /\ log \in Seq(Event)
           /\ \A id \in Ids : Verified(log, EventsOf(log, id))
<1>1. /\ first \in Seq(Event) /\ \A i \in 1 .. Len(first) : first[i].prev = 0
      /\ \A i, j \in 1 .. Len(first) : first[i].agent = first[j].agent => i = j
  BY DEF CreatedLog, AgentOnce
<1>2. /\ later \in Seq(Event)
      /\ \A i \in 1 .. Len(later) : /\ later[i].prev \in 1 .. Len(first)
                                    /\ first[later[i].prev].agent = later[i].agent
      /\ \A i, j \in 1 .. Len(later) : later[i].agent = later[j].agent => i = j
  BY DEF BranchedLog, AgentOnce
<1>5. PICK n, m : n = Len(first) /\ m = Len(later)
  OBVIOUS
<1>6. /\ log \in Seq(Event) /\ Len(log) = n + m /\ n \in Nat /\ m \in Nat
      /\ \A i \in 1 .. n : log[i] = first[i]
      /\ \A i \in 1 .. m : log[n + i] = later[i]
  BY <1>1, <1>2, <1>5, ListBefore
<1>17. ASSUME NEW id \in Ids, NEW e \in 1 .. n + m, log[e].agent = id
       PROVE  log[e].prev = Latest({f \in {i \in 1 .. n + m : log[i].agent = id} : f < e})
  <2>1. PICK B : B = {f \in {i \in 1 .. n + m : log[i].agent = id} : f < e}
    OBVIOUS
  <2>2. CASE e \in 1 .. n
    <3>1. B = {}
      <4>1. \A f \in B : f \in 1 .. n /\ f < e /\ log[f].agent = id
        BY <1>6, <2>1, <2>2
      <4>2. \A f \in B : f = e
        BY <1>1, <1>5, <1>6, <1>17, <2>2, <4>1, SMTT(30)
      <4>3. \A f \in B : ~(f < f)
        BY <1>6, <4>1
      <4> QED BY <4>1, <4>2, <4>3
    <3>2. log[e].prev = 0
      BY <1>1, <1>5, <1>6, <2>2
    <3> QED BY <2>1, <3>1, <3>2 DEF Latest
  <2>3. CASE e \notin 1 .. n
    <3>1. PICK k \in 1 .. m : e = n + k
      <4>1. e - n \in 1 .. m /\ e = n + (e - n)
        BY <1>6, <2>3
      <4> QED BY <4>1
    <3>2. later[k].agent = id /\ log[e] = later[k]
      BY <1>6, <1>17, <3>1
    <3>3. PICK c : c = later[k].prev
      OBVIOUS
    <3>4. log[e].prev = c /\ c \in 1 .. n /\ first[c].agent = id
      BY <1>2, <1>5, <3>2, <3>3
    <3>5. c \in B
      <4>1. c \in 1 .. n + m /\ c < e
        BY <1>6, <3>1, <3>4
      <4>2. log[c].agent = id
        BY <1>6, <3>4
      <4> QED BY <2>1, <4>1, <4>2
    <3>6. ASSUME NEW f \in B
          PROVE  f = c
      <4>1. f \in 1 .. n + m /\ log[f].agent = id /\ f < e
        BY <2>1
      <4>2. CASE f \in 1 .. n
        BY <1>1, <1>5, <1>6, <3>4, <4>1, <4>2
      <4>3. CASE f \notin 1 .. n
        <5>1. PICK j \in 1 .. m : f = n + j
          <6>1. f - n \in 1 .. m /\ f = n + (f - n)
            BY <1>6, <4>1, <4>3
          <6> QED BY <6>1
        <5>2. later[j].agent = id
          BY <1>6, <4>1, <5>1
        <5>3. j = k
          BY <1>2, <1>5, <3>2, <5>2
        <5> QED BY <1>6, <3>1, <4>1, <5>1, <5>3
      <4> QED BY <4>2, <4>3
    <3>7. B = {c}
      BY <3>5, <3>6
    <3>8. Latest({c}) = c
      BY <1>6, <3>4 DEF Latest
    <3> QED BY <2>1, <3>4, <3>7, <3>8
  <2> QED BY <2>2, <2>3
<1>18. ASSUME NEW id \in Ids
       PROVE  Verified(log, {i \in 1 .. n + m : log[i].agent = id})
  BY <1>17, Zenon DEF Verified
<1>19. 1 .. Len(log) = 1 .. n + m
  BY <1>6
<1> QED BY <1>6, <1>18, <1>19 DEF EventsOf

LEMMA AgencyInit ==
    ASSUME InitRequests, InitPromotions
    PROVE  AgencyInv
<1>1. RequestsTyped
  <2>1. request = [q \in Requests |-> Idle] /\ tally = [started |-> 0, faults |-> 0, overlapped |-> FALSE]
    BY DEF InitRequests
  <2>2. \A q \in Requests : request[q] = Idle /\ Idle.todo = <<>>
    BY <2>1 DEF Idle
  <2>3. Busy = {} /\ tally \in Tallies /\ request = [q \in Requests |-> request[q]]
    BY <2>1, <2>2 DEF Busy, Tallies
  <2>4. \A l : AgentList(<<>>, l)
    BY DEF AgentList, InAgentOrder, Chained
  <2> QED BY <2>2, <2>3, <2>4 DEF RequestsTyped, OneBusy
<1>2. \A q \in Requests : request[q].todo = <<>>
  BY DEF InitRequests, Idle
<1>3. PICK present \in BOOLEAN, open \in SUBSET BranchIds, taught \in SUBSET Agents, c \in CoreValues :
      LET here  == IF present THEN Agents ELSE {}
          first == SetToSeq({[agent |-> a, action |-> "Created", prev |-> 0, to |-> 1] : a \in here})
          number(a) == CHOOSE i \in 1..Len(first) : first[i].agent = a
          later == SetToSeq({[agent |-> b[1], action |-> "BranchCreated",
                              prev |-> number(b[1]), to |-> 1] : b \in open})
      IN
      /\ {b[1] : b \in open} \subseteq here
      /\ \A b, d \in open : b[1] = d[1] => b = d
      /\ taught \subseteq here /\ Cardinality(taught) <= MaxExperience
      /\ identity = [id \in Ids |-> CASE id \in here -> NewProfile
                                     [] id \in open -> [version |-> 1, core |-> Plain(c)]
                                     [] OTHER -> NoDoc]
      /\ snapshots = [id \in Ids |-> [v \in 1..MaxVersion |->
                        IF id \in here /\ v = 1 THEN Empty ELSE NoCore]]
      /\ versions = [id \in Ids |-> IF id \in here THEN {1} ELSE {}]
      /\ agents = here
      /\ events = first \o later
      /\ audit = [id \in Ids |-> {i \in 1..Len(first \o later) : (first \o later)[i].agent = id}]
      /\ branchMeta = [b \in BranchIds |-> IF b \in open THEN "open" ELSE "none"]
      /\ branchIndex = open
      /\ experience = [stored |-> 1..Cardinality(taught),
                       index |-> [id \in Ids |-> {i \in 1..Cardinality(taught) :
                                                   id = SetToSeq(taught)[i]}]]
      /\ forked = [copies |-> [f \in Forks |-> {}], lineage |-> {}, events |-> {}]
      /\ agentPast = [deleted |-> {}, merges |-> {}, edited |-> {}]
  <2>1. InitAgents
    BY DEF InitPromotions
  <2> QED BY <2>1 DEF InitAgents
<1>4. StoreTyped
  <2>1. PICK here : here = IF present THEN Agents ELSE {}
    OBVIOUS
  <2>2. identity \in [Ids -> [version : Nat, core : AnyCore]]
    <3>1. /\ NewProfile \in [version : Nat, core : AnyCore]
          /\ [version |-> 1, core |-> Plain(c)] \in [version : Nat, core : AnyCore]
          /\ NoDoc \in [version : Nat, core : AnyCore]
      BY CoresAre DEF NewProfile, NoDoc
    <3>2. PICK D, x, y, z : /\ D = [version : Nat, core : AnyCore] /\ x = NewProfile
                            /\ y = [version |-> 1, core |-> Plain(c)] /\ z = NoDoc
      OBVIOUS
    <3>3. identity = [id \in Ids |-> CASE id \in here -> x [] id \in open -> y [] OTHER -> z]
      BY <1>3, <2>1, <3>2
    <3>4. identity \in [Ids -> D]
      BY <3>1, <3>2, <3>3
    <3> QED BY <3>2, <3>4
  <2>3. snapshots \in [Ids -> [1 .. MaxVersion -> AnyCore]]
    <3>1. Empty \in AnyCore /\ NoCore \in AnyCore
      BY CoresAre
    <3> QED BY <1>3, <3>1
  <2>4. PICK n : n = Cardinality(taught)
    OBVIOUS
  <2>5. n \in Nat /\ IsFiniteSet(1 .. n)
    <3>1. IsFiniteSet(taught)
      BY AgentAssumption, FS_Subset
    <3>2. n \in Nat
      BY <2>4, <3>1, FS_CardinalityType
    <3> QED BY <3>2, FS_Interval
  <2>6. experience = [stored |-> 1 .. n, index |-> [id \in Ids |-> {i \in 1 .. n : id = SetToSeq(taught)[i]}]]
    BY <1>3, <2>4
  <2>7. experience \in [stored : SUBSET Nat, index : [Ids -> SUBSET Nat]] /\ experience.stored = 1 .. n
    BY <2>5, <2>6
  <2> QED BY <2>2, <2>3, <2>5, <2>7 DEF StoreTyped
<1>5. events \in Seq(Event) /\ \A id \in Ids : Verified(events, EventsOf(events, id))
  <2>1. PICK here : here = IF present THEN Agents ELSE {}
    OBVIOUS
  <2>2. PICK first : first = SetToSeq(CreatedOf(here))
    OBVIOUS
  <2>3. PICK later : later = SetToSeq(BranchedOf(open, first))
    OBVIOUS
  <2>4. /\ here \in SUBSET Agents /\ \A b \in open : b[1] \in here
        /\ \A b, d \in open : b[1] = d[1] => b = d
    <3>1. {b[1] : b \in open} \subseteq here
      BY <1>3, <2>1, Zenon
    <3>2. \A b, d \in open : b[1] = d[1] => b = d
      BY <1>3, Zenon
    <3> QED BY <2>1, <3>1, <3>2
  <2>5. events = first \o later
    BY <1>3, <2>1, <2>2, <2>3, Zenon DEF CreatedOf, BranchedOf, NumberOf
  <2>6. CreatedLog(first, here)
    BY <2>2, <2>4, FirstEvents
  <2>7. OneBranchOf(open, here)
    BY <2>4 DEF OneBranchOf
  <2>8. BranchedLog(later, first)
    BY <2>3, <2>4, <2>6, <2>7, LaterEvents
  <2>9. PICK log : log = events
    OBVIOUS
  <2>10. log \in Seq(Event) /\ \A id \in Ids : Verified(log, EventsOf(log, id))
    <3>1. log = first \o later
      BY <2>5, <2>9
    <3> QED BY <2>6, <2>8, <3>1, FirstLog
  <2> QED BY <2>9, <2>10
<1>6. audit = [id \in Ids |-> EventsOf(events, id)]
  BY <1>3 DEF EventsOf
<1>7. AuditInv
  <2>1. AuditTyped
    BY <1>5, <1>6 DEF AuditTyped, EventsOf
  <2>2. \A id \in Ids : verify_audit_chain(id)
    BY <1>5, <1>6, LatestIs
  <2>3. \A q \in Requests : FitsAudit(request[q].todo, request[q].loc) /\ FitsChain(request[q].todo, request[q].loc)
    BY <1>2 DEF FitsAudit, FitsChain
  <2> QED BY <2>1, <2>2, <2>3 DEF AuditInv, ChainFits
<1>8. PromotionInv
  <2>1. PICK some \in SUBSET Proposals, d \in CoreValues, risk \in Risks, owner \in [Proposals -> Agents] :
          proposals = [p \in Proposals |-> IF p \in some THEN NewProposal(owner[p], d, risk) ELSE NoProposal]
    BY ZenonT(30) DEF InitPromotions
  <2>2. /\ clock = 0 /\ copies = [q \in Requests |-> NoProposal]
        /\ promotionPast = [voted |-> [p \in Proposals |-> {}], applied |-> [p \in Proposals |-> <<>>]]
    BY DEF InitPromotions
  <2>3. \A p \in Proposals : NewProposal(owner[p], d, risk) \in Proposal
    <3>1. Plain(d) \in AnyCore /\ clock \in Nat /\ <<>> \in Seq(Approvers)
      BY <2>2, CoresAre
    <3> QED BY <3>1 DEF NewProposal, Proposal
  <2>4. proposals \in [Proposals -> Proposal \cup {NoProposal}]
    BY <2>1, <2>3
  <2>5. policy \in [Agents -> Requirements]
    <3>1. [min |-> 1, cooling |-> 0, deadline |-> NoLimit] \in Requirement
      BY PromotionAssumption DEF Requirement, NoLimit
    <3>2. default_for_agent \in Requirements
      BY <3>1 DEF default_for_agent, Requirements
    <3>3. Policies \subseteq Requirements
      BY PromotionAssumption DEF Requirements
    <3> QED BY <3>2, <3>3 DEF InitPromotions
  <2>6. promotionPast \in [voted : [Proposals -> SUBSET Approvers],
                           applied : [Proposals -> Seq([by : Seq(Approvers), asked : Nat])]]
    <3>1. PICK S : S = Seq([by : Seq(Approvers), asked : Nat])
      OBVIOUS
    <3>2. <<>> \in S
      BY <3>1
    <3>3. promotionPast \in [voted : [Proposals -> SUBSET Approvers], applied : [Proposals -> S]]
      BY <2>2, <3>2
    <3> QED BY <3>1, <3>3
  <2>7. PromotionTyped
    BY <2>2, <2>4, <2>5, <2>6 DEF PromotionTyped
  <2>8. \A p \in Proposals : proposals[p].approvers = <<>> /\ promotionPast.applied[p] = <<>>
    BY <2>1, <2>2 DEF NewProposal, NoProposal
  <2>9. \A p \in Proposals : Backed(<<>>, promotionPast.voted[p])
    BY DEF Backed, OnceEach
  <2>10. ProposalsBacked
    BY <2>8, <2>9 DEF ProposalsBacked
  <2>11. \A q \in Requests : FitsPromotion(request[q].todo, copies[q], promotionPast.voted)
    BY <1>2 DEF FitsPromotion
  <2> QED BY <2>7, <2>10, <2>11 DEF PromotionInv
<1> QED BY <1>1, <1>4, <1>7, <1>8 DEF AgencyInv

(* The steps of requests, by what they disturb. *)
LEMMA OpeningSteps ==
    ASSUME AgencyInv, NEW r \in Requests, NEW t, NEW l, Start(r, t, l), Opening(t), l \in AgentLocals,
           UNCHANGED agentVars, UNCHANGED promotionVars
    PROVE  AgencyInv'
<1> USE DEF agentVars, identityVars, auditVars, branchVars, experienceVars, promotionVars
<1>1. /\ RequestsTyped' /\ request'[r].todo = t /\ request[r].todo = <<>>
      /\ \A q \in Requests : q # r => request'[q] = request[q]
      /\ ~tally'.overlapped => ~tally.overlapped
  BY OpensTyped DEF AgencyInv
<1>2. StoreTyped'
  BY StoreStays DEF AgencyInv
<1>3. t[1].do \notin {"setEvent", "addEvent"}
  BY DEF Opening, Refusing
<1>4. AuditInv'
  BY <1>1, <1>3, ChainStays DEF AgencyInv
<1>5. Carries(request[r].todo, t)
  BY OpeningCarries
<1>6. clock' \in Nat
  BY DEF AgencyInv, PromotionInv, PromotionTyped
<1>7. PromotionInv'
  BY <1>1, <1>5, <1>6, PromotionStays DEF AgencyInv
<1> QED BY <1>1, <1>2, <1>4, <1>7 DEF AgencyInv

LEMMA QuietSteps ==
    ASSUME AgencyInv, NEW r \in Requests, Quiet(r), UNCHANGED promotionVars
    PROVE  AgencyInv'
<1> USE DEF auditVars, promotionVars
<1>1. PICK t, l : Goes(r, t, l) /\ Onward(request[r].todo, t)
  BY DEF Quiet
<1>2. r \in Busy /\ tally'.overlapped = tally.overlapped
  BY <1>1 DEF Goes
<1>3. /\ RequestsTyped' /\ request'[r].todo = t
      /\ \A q \in Requests : q # r => request'[q] = request[q]
  BY <1>1, GoesTyped DEF AgencyInv
<1>4. t # <<>> => t[1].do \notin {"setEvent", "addEvent"}
  BY <1>1, <1>2, OnwardIs DEF AgencyInv
<1>5. AuditInv'
  BY <1>2, <1>3, <1>4, ChainStays DEF AgencyInv, Quiet
<1>6. Carries(request[r].todo, t)
  BY <1>1, <1>2, OnwardCarries DEF AgencyInv
<1>7. clock' \in Nat
  BY DEF AgencyInv, PromotionInv, PromotionTyped
<1>8. PromotionInv'
  BY <1>3, <1>6, <1>7, PromotionStays DEF AgencyInv
<1> QED BY <1>3, <1>5, <1>8 DEF AgencyInv, Quiet

LEMMA AuditSteps ==
    ASSUME AgencyInv, NEW r \in Requests, AuditStep(r), UNCHANGED promotionVars
    PROVE  AgencyInv'
<1> USE DEF promotionVars
<1>1. PICK l : Goes(r, Tail(request[r].todo), l)
  BY DEF AuditStep
<1>2. r \in Busy /\ request[r].todo[1].do # "readProposal"
  BY <1>1 DEF AuditStep, Goes
<1>3. /\ RequestsTyped' /\ request'[r].todo = Tail(request[r].todo)
      /\ \A q \in Requests : q # r => request'[q] = request[q]
  BY <1>1, GoesTyped DEF AgencyInv
<1>4. Carries(request[r].todo, Tail(request[r].todo))
  BY <1>2, TailCarries DEF AgencyInv
<1>5. clock' \in Nat
  BY DEF AgencyInv, PromotionInv, PromotionTyped
<1>6. PromotionInv'
  BY <1>3, <1>4, <1>5, PromotionStays DEF AgencyInv
<1> QED BY <1>3, <1>6 DEF AgencyInv, AuditStep

LEMMA PromotionSteps ==
    ASSUME AgencyInv, NEW r \in Requests, PromotionStep(r)
    PROVE  AgencyInv'
<1> USE DEF agentVars, identityVars, auditVars, branchVars, experienceVars
<1>1. PICK t, l : Goes(r, t, l) /\ (t # <<>> => t[1].do \notin {"setEvent", "addEvent"})
  BY DEF PromotionStep
<1>2. UNCHANGED agentVars /\ tally'.overlapped = tally.overlapped
  BY <1>1 DEF PromotionStep, Goes
<1>3. /\ RequestsTyped' /\ request'[r].todo = t
      /\ \A q \in Requests : q # r => request'[q] = request[q]
  BY <1>1, GoesTyped DEF AgencyInv
<1>4. StoreTyped'
  BY <1>2, StoreStays DEF AgencyInv
<1>5. AuditInv'
  BY <1>1, <1>2, <1>3, ChainStays DEF AgencyInv
<1> QED BY <1>3, <1>4, <1>5 DEF AgencyInv, PromotionStep

(* Every step. *)
AgencyStep(r) ==
    \/ /\ \E t, l : Start(r, t, l) /\ Opening(t) /\ l \in AgentLocals
       /\ UNCHANGED agentVars /\ UNCHANGED promotionVars
    \/ Quiet(r) /\ UNCHANGED promotionVars
    \/ AuditStep(r) /\ tally' = tally /\ UNCHANGED promotionVars
    \/ SetProposal(r) \/ ReadProposal(r) \/ Decide(r) \/ Applied(r) \/ SaveProposal(r) \/ StorePolicy(r) \/ Log(r)

ClockStep ==
    /\ UNCHANGED requestVars /\ UNCHANGED agentVars
    /\ UNCHANGED <<proposals, policy, governance, copies, promotionPast>> /\ clock' \in Nat

LEMMA AgencySteps ==
    ASSUME AgencyInv, [NextAgency]_agencyVars
    PROVE  ClockStep \/ \E r \in Requests : AgencyStep(r)
<1>1. RequestsTyped /\ StoreTyped /\ AuditInv
  BY DEF AgencyInv
<1>2. CASE AgentRequests /\ UNCHANGED promotionVars
  <2>1. PICK r \in Requests :
          \E t, l : Start(r, t, l) /\ Opening(t) /\ l \in AgentLocals /\ UNCHANGED agentVars
    BY <1>2, AgentOpens DEF AgentRequests
  <2> QED BY <1>2, <2>1 DEF AgencyStep
<1>3. CASE AgentCommands /\ UNCHANGED promotionVars
  <2>1. PICK r \in Requests :
          \/ Get(r) \/ Register(r)
          \/ ReadTail(r) \/ SetEvent(r) \/ AddEvent(r)
          \/ Use(r) \/ Need(r) \/ SetCurrent(r) \/ SetVersion(r) \/ AddVersion(r) \/ ReadVersion(r)
          \/ AddAgent(r) \/ DelCurrent(r) \/ RemAgent(r) \/ SetMeta(r) \/ DelMeta(r) \/ AddBranch(r)
          \/ RemBranch(r) \/ SetExperience(r) \/ IndexExperience(r) \/ CopyExperience(r)
          \/ SetLineage(r) \/ SetForkEvent(r) \/ (CommandFails(r) /\ UNCHANGED agentVars)
    BY <1>3 DEF AgentCommands
  <2>2. Get(r) \/ Register(r) => Quiet(r)
    BY <1>1, GetIsQuiet, RegisterIsQuiet
  <2>3. ReadTail(r) \/ SetEvent(r) \/ AddEvent(r) => AuditStep(r)
    BY <1>1, ReadTailKeeps, SetEventKeeps, AddEventKeeps
  <2>4. ReadTail(r) \/ SetEvent(r) \/ AddEvent(r) => tally' = tally
    BY DEF ReadTail, SetEvent, AddEvent, Sent
  <2>5. Quiet(r) \/ (AuditStep(r) /\ tally' = tally)
    BY <1>1, <2>1, <2>2, <2>3, <2>4, AgentIsQuiet
  <2> QED BY <1>3, <2>5 DEF AgencyStep
<1>4. CASE NextPromotions
  <2>1. CASE HourPasses
    <3>1. clock' \in Nat
      BY <2>1 DEF HourPasses, AgencyInv, PromotionInv, PromotionTyped
    <3> QED BY <2>1, <3>1 DEF HourPasses, ClockStep
  <2>2. ASSUME NEW r \in Requests,
               \/ \E p \in Proposals, a \in Agents :
                    \/ \E c \in CoreValues, risk \in Risks : CreateProposal(r, p, a, c, risk)
                    \/ \E who \in Approvers : ApproveProposal(r, p, a, who)
                    \/ RejectProposal(r, p, a)
               \/ \E a \in Agents, pol \in Policies : SetPolicy(r, a, pol)
        PROVE  AgencyStep(r)
    BY <2>2, PromotionOpens DEF AgencyStep
  <2>3. ASSUME NEW r \in Requests, NeedEvidence(r)
        PROVE  AgencyStep(r)
    <3>1. UNCHANGED agentVars /\ UNCHANGED promotionVars
      BY <2>3 DEF NeedEvidence
    <3>2. Quiet(r)
      BY <1>1, <2>3, <3>1, AgentIsQuiet
    <3> QED BY <3>1, <3>2 DEF AgencyStep
  <2>4. ASSUME NEW r \in Requests,
               \/ SetProposal(r) \/ ReadProposal(r) \/ Decide(r)
               \/ Applied(r) \/ SaveProposal(r) \/ StorePolicy(r) \/ Log(r)
        PROVE  AgencyStep(r)
    BY <2>4 DEF AgencyStep
  <2> QED BY <1>4, <2>1, <2>2, <2>3, <2>4 DEF NextPromotions
<1>5. CASE UNCHANGED agencyVars
  BY <1>5 DEF agencyVars, ClockStep, promotionVars, AgencyInv, PromotionInv, PromotionTyped
<1> QED BY <1>2, <1>3, <1>4, <1>5 DEF NextAgency

LEMMA AgencyNext ==
    ASSUME AgencyInv, [NextAgency]_agencyVars
    PROVE  AgencyInv'
<1>1. CASE ClockStep
  <2>1. request' = request /\ tally' = tally
    BY <1>1 DEF ClockStep, requestVars
  <2>2. RequestsTyped'
    BY <2>1 DEF AgencyInv, RequestsTyped, OneBusy, Busy
  <2>3. StoreTyped' /\ AuditInv'
    BY <1>1, <2>1, StoreStays, ChainStays
       DEF ClockStep, AgencyInv, agentVars, identityVars, auditVars, experienceVars
  <2>4. PromotionInv'
    BY <1>1, <2>1, PromotionStays DEF ClockStep, AgencyInv
  <2> QED BY <2>2, <2>3, <2>4 DEF AgencyInv
<1>2. ASSUME NEW r \in Requests, AgencyStep(r)
      PROVE  AgencyInv'
  <2>1. CASE /\ \E t, l : Start(r, t, l) /\ Opening(t) /\ l \in AgentLocals
             /\ UNCHANGED agentVars /\ UNCHANGED promotionVars
    BY <2>1, OpeningSteps
  <2>2. CASE (Quiet(r) \/ AuditStep(r)) /\ UNCHANGED promotionVars
    BY <2>2, QuietSteps, AuditSteps
  <2>3. CASE SetProposal(r) \/ ReadProposal(r) \/ Decide(r) \/ Applied(r) \/ SaveProposal(r) \/ StorePolicy(r) \/ Log(r)
    <3>1. PromotionStep(r)
      BY <2>3, SetProposalKeeps, ReadProposalKeeps, DecideKeeps, AppliedKeeps, SaveProposalKeeps,
         StorePolicyKeeps, LogKeeps DEF AgencyInv
    <3> QED BY <3>1, PromotionSteps
  <2> QED BY <1>2, <2>1, <2>2, <2>3 DEF AgencyStep
<1> QED BY <1>1, <1>2, AgencySteps

(* The list of the only request in progress. *)
LEMMA TodoIs ==
    ASSUME NEW rs, NEW r \in Requests, \A q \in Requests : q # r => rs[q].todo = <<>>
    PROVE  TodoOf(rs) = rs[r].todo
BY DEF TodoOf

LEMMA DecisionInit ==
    ASSUME InitRequests, InitPromotions
    PROVE  DecisionInv
<1>1. \A r \in Requests : request[r].todo = <<>>
  BY DEF InitRequests, Idle
<1>2. TodoOf(request) = <<>> /\ tally.faults = 0
  BY <1>1 DEF TodoOf, InitRequests
<1>3. \A p \in Proposals : promotionPast.applied[p] = <<>> /\ proposals[p].status \in {"none", "pending"}
  <2>1. promotionPast = [voted |-> [p \in Proposals |-> {}], applied |-> [p \in Proposals |-> <<>>]]
    BY DEF InitPromotions
  <2>2. PICK some \in SUBSET Proposals, c \in CoreValues, risk \in Risks :
          \E owner \in [Proposals -> Agents] :
             proposals = [p \in Proposals |-> IF p \in some THEN NewProposal(owner[p], c, risk) ELSE NoProposal]
    BY ZenonT(30) DEF InitPromotions
  <2>3. \A a : NewProposal(a, c, risk).status = "pending"
    BY DEF NewProposal
  <2>4. NoProposal.status = "none"
    BY DEF NoProposal
  <2> QED BY <2>1, <2>2, <2>3, <2>4
<1>4. \A p \in Proposals : ~Approves(<<>>, p) /\ Len(promotionPast.applied[p]) = 0
  BY <1>3 DEF Approves
<1>5. FitsPending(<<>>, proposals)
  BY DEF FitsPending
<1>6. \A p \in Proposals : Settled(p, Len(promotionPast.applied[p]), proposals[p].status, 0, governance, <<>>)
  BY <1>3, <1>4 DEF Settled
<1> QED BY <1>2, <1>5, <1>6 DEF DecisionInv, Decided

LEMMA DecisionNext ==
    ASSUME AgencyInv, DecisionInv, [NextAgency]_agencyVars
    PROVE  DecisionInv'
<1>1. RequestsTyped /\ PromotionInv
  BY DEF AgencyInv
<1>2. CASE ClockStep
  BY <1>2 DEF ClockStep, DecisionInv, requestVars
<1>3. ASSUME NEW r \in Requests, AgencyStep(r)
      PROVE  DecisionInv'
  <2>1. /\ \A q \in Requests : q # r => request'[q] = request[q]
        /\ ~tally'.overlapped => ~tally.overlapped /\ \A q \in Busy : q = r
        /\ Decides(r)
    <3>1. CASE /\ \E t, l : Start(r, t, l) /\ Opening(t) /\ l \in AgentLocals
               /\ UNCHANGED agentVars /\ UNCHANGED promotionVars
      BY <1>1, <3>1, OpensTyped, OpeningDecides
    <3>2. ASSUME NEW t, NEW l, Goes(r, t, l)
          PROVE  /\ \A q \in Requests : q # r => request'[q] = request[q]
                 /\ ~tally'.overlapped => ~tally.overlapped /\ \A q \in Busy : q = r
      BY <1>1, <3>2, GoesTyped
    <3>3. CASE Quiet(r) /\ UNCHANGED promotionVars
      BY <1>1, <3>2, <3>3, QuietDecides DEF Quiet
    <3>4. CASE AuditStep(r) /\ tally' = tally /\ UNCHANGED promotionVars
      BY <1>1, <3>2, <3>4, AuditDecides DEF AuditStep
    <3>5. CASE SetProposal(r) \/ ReadProposal(r) \/ Decide(r) \/ Applied(r) \/ SaveProposal(r) \/ StorePolicy(r) \/ Log(r)
      <4>1. PromotionStep(r)
        BY <1>1, <3>5, SetProposalKeeps, ReadProposalKeeps, DecideKeeps, AppliedKeeps, SaveProposalKeeps,
           StorePolicyKeeps, LogKeeps
      <4>2. Decides(r)
        BY <1>1, <3>5, SetDecides, ReadDecides, DecideDecides, AppliedDecides, SaveDecides, PolicyDecides, LogDecides
      <4> QED BY <3>2, <4>1, <4>2 DEF PromotionStep
    <3> QED BY <1>3, <3>1, <3>3, <3>4, <3>5 DEF AgencyStep
  <2>2. ASSUME ~tally'.overlapped
        PROVE  Decided(TodoOf(request'), tally'.faults, proposals', governance', promotionPast'.applied)
    <3>1. \A q \in Requests : q # r => request[q].todo = <<>> /\ request'[q].todo = <<>>
      BY <2>1, <2>2 DEF Busy
    <3>2. TodoOf(request) = request[r].todo /\ TodoOf(request') = request'[r].todo
      BY <3>1, TodoIs
    <3> QED BY <2>1, <2>2, <3>2 DEF DecisionInv, Decides
  <2> QED BY <2>2 DEF DecisionInv
<1> QED BY <1>2, <1>3, AgencySteps

\* However requests about agents and proposals overlap and fail, requests
\* keep to the order of their commands, and what is stored keeps its type.
THEOREM AgencyTypesCorrect == AgencySpec => [](RequestsTyped /\ StoreTyped /\ AuditTyped /\ PromotionTyped)
<1>1. AgencyInv => RequestsTyped /\ StoreTyped /\ AuditTyped /\ PromotionTyped
  BY DEF AgencyInv, AuditInv, PromotionInv
<1> QED BY <1>1, AgencyInit, AgencyNext, PTL DEF AgencySpec

\* As long as requests run one after the other every audit log verifies.
THEOREM ChainsVerify == AgencySpec => []ChainUnlessOverlapped
<1>1. AgencyInv => ChainUnlessOverlapped
  BY DEF AgencyInv, AuditInv, ChainFits, ChainUnlessOverlapped
<1> QED BY <1>1, AgencyInit, AgencyNext, PTL DEF AgencySpec

(* As many names as entries. *)
LEMMA OnceEachCounts ==
    ASSUME NEW S, NEW s \in Seq(S), OnceEach(s)
    PROVE  Cardinality(Range(s)) = Len(s)
<1>1. PICK n, R : n = Len(s) /\ R = Range(s)
  OBVIOUS
<1>2. n \in Nat /\ DOMAIN s = 1 .. n /\ R = {s[i] : i \in 1 .. n}
  BY <1>1 DEF Range
<1>3. s \in [1 .. n -> R]
  BY <1>1, <1>2
<1>4. s \in Bijection(1 .. n, R)
  BY <1>1, <1>2, <1>3 DEF OnceEach, Bijection, Injection, Surjection, IsInjective
<1>5. IsFiniteSet(1 .. n) /\ Cardinality(1 .. n) = n
  BY <1>2, FS_Interval
<1>6. Cardinality(R) = n
  <2>1. ExistsBijection(1 .. n, R)
    BY <1>4 DEF ExistsBijection
  <2> QED BY <1>5, <2>1, FS_Bijection
<1> QED BY <1>1, <1>6

\* However requests overlap and fail, a candidate core becomes the identity
\* only after as many different keys as the policy asks for approved it.
THEOREM QuorumIsBacked == AgencySpec => []QuorumBacked
<1>1. AgencyInv => QuorumBacked
  <2> SUFFICES ASSUME AgencyInv, NEW p \in Proposals, NEW i \in DOMAIN promotionPast.applied[p]
               PROVE  LET by == Range(promotionPast.applied[p][i].by) IN
                      /\ by \subseteq promotionPast.voted[p]
                      /\ Cardinality(by) >= promotionPast.applied[p][i].asked
    BY DEF QuorumBacked
  <2>1. PICK s : s = promotionPast.applied[p]
    OBVIOUS
  <2>2. PICK S : S = [by : Seq(Approvers), asked : Nat]
    OBVIOUS
  <2>3. s \in Seq(S)
    BY <2>1, <2>2 DEF AgencyInv, PromotionInv, PromotionTyped
  <2>4. i \in 1 .. Len(s) /\ s[i] \in S
    BY <2>1, <2>3, ElementOfSeq, LenProperties
  <2>5. Backed(s[i].by, promotionPast.voted[p]) /\ Len(s[i].by) >= s[i].asked /\ s[i].by \in Seq(Approvers)
    BY <2>1, <2>2, <2>4 DEF AgencyInv, PromotionInv, ProposalsBacked
  <2>6. Cardinality(Range(s[i].by)) = Len(s[i].by)
    BY <2>5, OnceEachCounts DEF Backed
  <2>7. Range(s[i].by) \subseteq promotionPast.voted[p]
    <3>1. DOMAIN s[i].by = 1 .. Len(s[i].by)
      BY <2>5
    <3> QED BY <2>5, <3>1 DEF Range, Backed
  <2> QED BY <2>1, <2>5, <2>6, <2>7
<1> QED BY <1>1, AgencyInit, AgencyNext, PTL DEF AgencySpec

\* A proposal takes effect with its quorum, and, of requests one after the
\* other, once, and exactly when it is stored and logged as approved, but for
\* what a failed command leaves undone.
THEOREM PromotionsTakeEffect == AgencySpec => []PromotionsHold
<1>1. AgencyInv /\ DecisionInv => AppliedUnlessOverlapped
  <2> SUFFICES ASSUME AgencyInv, DecisionInv, ~tally.overlapped, Busy = {}, NEW p \in Proposals
               PROVE  /\ proposals[p].status = "approved" => promotionPast.applied[p] # <<>>
                      /\ promotionPast.applied[p] # <<>> =>
                           \/ proposals[p].status = "approved"
                           \/ tally.faults > 0 /\ proposals[p].status \in {"pending", "rejected", "expired"}
                      /\ Len(promotionPast.applied[p]) <= 1 + tally.faults
                      /\ proposals[p].status \in {"approved", "rejected", "expired"} =>
                           tally.faults > 0 \/ <<p, Announced[proposals[p].status]>> \in governance
    BY DEF AppliedUnlessOverlapped
  <2>1. TodoOf(request) = <<>>
    BY DEF TodoOf, Busy
  <2>2. PICK n, st, f : n = Len(promotionPast.applied[p]) /\ st = proposals[p].status /\ f = tally.faults
    OBVIOUS
  <2>3. n \in Nat /\ f \in Nat
    BY <2>2, AppliedTyped DEF AgencyInv
  <2>4. Settled(p, n, st, f, governance, <<>>)
    BY <2>1, <2>2 DEF DecisionInv, Decided
  <2>5. promotionPast.applied[p] # <<>> <=> n > 0
    <3>1. PICK S, s : S = [by : Seq(Approvers), asked : Nat] /\ s = promotionPast.applied[p]
      OBVIOUS
    <3>2. s \in Seq(S)
      BY <3>1 DEF AgencyInv, PromotionInv, PromotionTyped
    <3>3. s # <<>> <=> Len(s) > 0
      BY <3>2
    <3> QED BY <2>2, <3>1, <3>3
  <2>6. st \in {"none", "pending", "approved", "rejected", "expired"}
    <3>1. proposals[p] \in Proposal \cup {NoProposal}
      BY DEF AgencyInv, PromotionInv, PromotionTyped
    <3> QED BY <2>2, <3>1 DEF Proposal, NoProposal
  <2>7. ~Approves(<<>>, p) /\ \A w : ~Tells(<<>>, p, w)
    BY DEF Approves, Tells
  <2> QED BY <2>2, <2>3, <2>4, <2>5, <2>6, <2>7 DEF Settled
<1>2. InitRequests /\ InitPromotions => AgencyInv /\ DecisionInv
  BY AgencyInit, DecisionInit
<1>3. AgencyInv /\ DecisionInv /\ [NextAgency]_agencyVars => (AgencyInv /\ DecisionInv)'
  BY AgencyNext, DecisionNext
<1>4. AgencySpec => []AppliedUnlessOverlapped
  BY <1>1, <1>2, <1>3, PTL DEF AgencySpec
<1> QED BY <1>4, QuorumIsBacked, PTL DEF PromotionsHold

-----------------------------------------------------------------------------
(* Records: the commands of their requests, and which follows which.       *)

RecordDo == {"recordNone", "recordNeed", "recordRead", "nameFree", "goalNone", "narrate", "recordSet",
             "recordList", "goalName", "userIndex", "goalIndexes", "recordUnlist", "goalUnname", "recordDel"}
RecordCommand == [do : RecordDo, id : RecordKeys, how : RecordNames \cup {NoName, "need"}]
RecordLocal == [name : RecordNames \cup {NoName}, makes : BOOLEAN]

RecordStores == {"recordSet", "recordList", "goalName", "userIndex"}
Looks == {"recordNone", "nameFree", "goalNone", "narrate"}

\* What a command of a request with these locals is about.
Suits(x, l) ==
    /\ x.do \in {"recordList", "recordUnlist"} => Indexed(x.id)
    /\ x.do \in {"goalName", "goalUnname", "goalNone", "goalIndexes"} => x.id[1] = "goal"
    /\ x.do \in {"userIndex", "nameFree"} => x.id[1] = "guardrail"
    /\ x.do = "narrate" => x.id[1] = "narrative"
    /\ x.do = "recordNone" => x.id[1] \in {"view", "goal"}
    /\ x.do \in {"nameFree", "goalNone"} => x.how = l.name
    /\ x.do = "recordRead" => (x.how = "need" <=> x.id[1] = "goal")
    /\ l.makes => x.do \in RecordStores \cup Looks
    /\ ~l.makes => x.do \notin Looks

RecordMayFollow(x, y) ==
    /\ x.do \in {"nameFree", "goalNone", "narrate"} => y.do = "recordSet" /\ y.id = x.id
    /\ x.do = "recordNone" => y.do = "recordSet" /\ y.id[1] = x.id[1] /\ (x.id[1] = "goal" \/ y.id = x.id)
    /\ x.do = "recordNeed" => y.do \in {"recordSet", "recordRead", "recordUnlist"} /\ y.id = x.id /\ x.id[1] # "goal"
    /\ x.do = "recordRead" =>
         y.id = x.id /\ IF x.id[1] = "goal" THEN y.do = "recordSet" ELSE y.do \in {"userIndex", "recordUnlist"}
    /\ x.do = "recordSet" => y.do = "recordList" /\ y.id = x.id
    /\ x.do = "recordList" => y.do \in {"goalName", "userIndex"} /\ y.id = x.id
    /\ x.do = "userIndex" => y.do = "recordUnlist" /\ y.id = x.id
    /\ x.do = "recordUnlist" => y.id = x.id /\ y.do = IF x.id[1] = "goal" THEN "goalUnname" ELSE "recordDel"
    /\ x.do \in {"goalUnname", "goalIndexes"} => y.do = "recordDel" /\ y.id = x.id
    /\ x.do \notin {"goalName", "recordDel"}

RecordMayEnd(x, l) ==
    \/ x.do \in {"goalName", "userIndex", "recordDel"}
    \/ x.do = "recordList" /\ x.id[1] # "goal"
    \/ x.do = "recordSet" /\ (x.id[1] = "narrative" \/ (x.id[1] = "view" /\ ~l.makes))

InRecordOrder(t, l) ==
    \A i \in 1 .. Len(t) : Suits(t[i], l) /\ IF i = Len(t) THEN RecordMayEnd(t[i], l) ELSE RecordMayFollow(t[i], t[i + 1])

\* A name is at hand before the document is written.
HasName(t, l) ==
    t # <<>> =>
      /\ l \in RecordLocal
      /\ t[1].do \in Looks \cup {"recordSet", "recordList", "goalName"} => l.name \in RecordNames
      /\ t[1].do = "recordNeed" /\ t[2].do = "recordSet" => l.name \in RecordNames

-----------------------------------------------------------------------------
(* What is stored.                                                          *)

RecordsTyped ==
    /\ docs \in [RecordKeys -> RecordNames \cup {NoName}]
    /\ listed \in SUBSET {k \in RecordKeys : Indexed(k)}
    /\ goalNames \in [RecordNames -> {k \in RecordKeys : k[1] = "goal"} \cup {NoRecord}]
    /\ recordPast \in [used : SUBSET RecordKeys, kept : SUBSET RecordKeys, doomed : SUBSET RecordKeys,
                       gone : SUBSET RecordKeys, renamed : BOOLEAN]
    /\ recordPast.kept \subseteq recordPast.used
    /\ \A k \in RecordKeys : docs[k] # NoName => k \in recordPast.used

-----------------------------------------------------------------------------
(* Requests beside each other.                                              *)

\* Unless a delete has begun, what a new record has stored is still there.
FitsRecord(t, l) ==
    t # <<>> /\ l.makes =>
      /\ t[1].do \in {"recordList", "goalName", "userIndex"} /\ t[1].id \notin recordPast.doomed =>
           docs[t[1].id] # NoName
      /\ t[1].do \in {"goalName", "userIndex"} /\ t[1].id \notin recordPast.doomed => t[1].id \in listed

RecordInPlace(t, l) == t \in Seq(RecordCommand) /\ InRecordOrder(t, l) /\ HasName(t, l) /\ FitsRecord(t, l)

RecordsInPlace ==
    /\ request = [q \in Requests |-> request[q]] /\ tally \in Tallies
    /\ \A r \in Requests : RecordInPlace(request[r].todo, request[r].loc)

\* A request is to store a new record under this key.
MakesRecord(t, l, k) == t # <<>> /\ l.makes /\ \E i \in 1 .. Len(t) : t[i].do \in RecordStores /\ t[i].id = k
Makes(r, k) == MakesRecord(request[r].todo, request[r].loc, k)

OnlyMaker ==
    \A q, r \in Requests, k \in RecordKeys :
      k[1] \in {"guardrail", "goal"} /\ Makes(q, k) /\ Makes(r, k) => q = r

-----------------------------------------------------------------------------
(* Requests one after the other.                                            *)

\* What the request in progress has found out is still so.
FitsAlone(t, l) ==
    t # <<>> =>
      LET x == t[1]  k == t[1].id  goal == t[1].id[1] = "goal" IN
      /\ \A i \in 1 .. Len(t) : l.makes /\ t[i].id[1] = "goal" =>
           /\ t[i].do = "recordSet" => docs[t[i].id] = NoName
           /\ t[i].do \in {"recordSet", "recordList", "goalName"} => t[i].id \notin recordPast.kept
      /\ x.do = "recordSet" /\ ~l.makes /\ goal => docs[k] = l.name
      /\ x.do \in {"recordList", "goalName"} => docs[k] = l.name
      /\ x.do \in {"recordSet", "recordList", "goalName"} /\ l.makes /\ goal => goalNames[l.name] = NoRecord
      /\ x.do = "recordNone" /\ goal => docs[k] # NoName
      /\ x.do \in {"recordSet", "recordList"} /\ l.makes /\ k[1] = "guardrail" =>
           \A g \in listed : g[1] = "guardrail" /\ g # k => docs[g] # l.name
      /\ x.do = "recordDel" =>
           /\ k \notin listed /\ \A n \in RecordNames : goalNames[n] # k
           /\ goal /\ docs[k] # NoName => k \in recordPast.doomed
      /\ x.do = "goalUnname" =>
           k \notin listed /\ x.how = docs[k] /\ docs[k] \in RecordNames /\ k \in recordPast.doomed
      /\ x.do = "recordUnlist" /\ goal => t[2].how = docs[k] /\ docs[k] \in RecordNames

\* The request has stored the document of a goal and not yet its name, or has
\* removed the name and not yet the document.
Naming(r, k) ==
    /\ request[r].todo # <<>> /\ request[r].todo[1].id = k
    /\ \/ request[r].loc.makes /\ request[r].todo[1].do \in {"recordList", "goalName"}
       \/ request[r].todo[1].do = "recordDel"

AloneStored ==
    /\ \A k \in listed : docs[k] # NoName
    /\ \A n \in RecordNames : goalNames[n] # NoRecord => docs[goalNames[n]] = n
    /\ \A k \in recordPast.gone : docs[k] = NoName
    /\ ~recordPast.renamed =>
         \A k, g \in listed : k[1] = "guardrail" /\ g[1] = "guardrail" /\ docs[k] = docs[g] => k = g
    /\ tally.faults = 0 =>
         \A k \in RecordKeys : k[1] = "goal" /\ docs[k] # NoName =>
           goalNames[docs[k]] = k \/ \E r \in Requests : Naming(r, k)

AloneFits ==
    ~tally.overlapped => AloneStored /\ \A r \in Requests : FitsAlone(request[r].todo, request[r].loc)

RecordInv == RecordsTyped /\ RecordsInPlace /\ OnlyMaker /\ OneBusy /\ KeptRecordsStay /\ AloneFits

-----------------------------------------------------------------------------
(* Steps.                                                                   *)

(* The kinds of records. *)
LEMMA KindsOfKeys ==
    /\ \A k \in RecordKeys : k[1] \in {"view", "guardrail", "goal", "narrative"}
    /\ NoRecord \notin RecordKeys
BY DEF RecordKeys, Keyed, NoRecord

(* A request that is over waits for nothing. *)
LEMMA NothingToDo ==
    ASSUME NEW l
    PROVE  /\ RecordInPlace(<<>>, l) /\ FitsAlone(<<>>, l) /\ \A k : ~MakesRecord(<<>>, l, k)
BY DEF RecordInPlace, InRecordOrder, HasName, FitsRecord, FitsAlone, MakesRecord

(* The next command of a request. *)
LEMMA RecordHead ==
    ASSUME RecordInv, NEW r \in Requests, NEW do, At(r, do)
    PROVE  /\ request[r].todo # <<>> /\ RecordInPlace(request[r].todo, request[r].loc) /\ r \in Busy
           /\ This(r) = request[r].todo[1] /\ Rest(r) = Tail(request[r].todo) /\ Loc(r) = request[r].loc
           /\ request[r].todo[1].do = do /\ request[r].todo[1] \in RecordCommand
           /\ request[r].todo[1].id \in RecordKeys
           /\ Done(r) => Moved(r, Tail(request[r].todo), request[r].loc) /\ tally' = tally
           /\ tally \in Tallies /\ \A q \in Busy : ~tally.overlapped => q = r
           /\ ~tally.overlapped => AloneStored /\ FitsAlone(request[r].todo, request[r].loc)
<1>1. PICK s, l : s = request[r].todo /\ l = request[r].loc
  OBVIOUS
<1>2. r \in Busy /\ Head(s).do = do /\ s # <<>>
  BY <1>1 DEF At, Busy
<1>3. RecordInPlace(s, l) /\ s \in Seq(RecordCommand)
  BY <1>1 DEF RecordInv, RecordsInPlace, RecordInPlace
<1>4. Head(s) = s[1] /\ s[1] \in RecordCommand
  BY <1>2, <1>3, RestOfList
<1>5. s[1].id \in RecordKeys
  BY <1>4 DEF RecordCommand
<1>6. Done(r) => Moved(r, Tail(s), l) /\ tally' = tally
  BY <1>1, GoesOn DEF Done, Sent, Rest, Loc, RecordInv, RecordsInPlace
<1>7. tally \in Tallies /\ \A q \in Busy : ~tally.overlapped => q = r
  BY <1>2 DEF RecordInv, RecordsInPlace, OneBusy
<1>8. ~tally.overlapped => AloneStored /\ FitsAlone(s, l)
  BY <1>1 DEF RecordInv, AloneFits
<1> QED BY <1>1, <1>2, <1>3, <1>4, <1>5, <1>6, <1>7, <1>8 DEF This, Rest, Loc

(* What comes after the next command. *)
LEMMA RecordTail ==
    ASSUME NEW t, NEW l, t # <<>>, RecordInPlace(t, l)
    PROVE  /\ t \in Seq(RecordCommand) /\ Tail(t) \in Seq(RecordCommand) /\ InRecordOrder(Tail(t), l)
           /\ l \in RecordLocal /\ Suits(t[1], l)
           /\ Len(t) \in Nat /\ Len(t) >= 1 /\ Len(Tail(t)) = Len(t) - 1
           /\ \A i \in 1 .. Len(Tail(t)) : i + 1 \in 1 .. Len(t) /\ Tail(t)[i] = t[i + 1]
           /\ Tail(t) = <<>> => RecordMayEnd(t[1], l) /\ Len(t) = 1
           /\ Tail(t) # <<>> =>
                /\ Len(t) > 1 /\ Tail(t)[1] = t[2] /\ t[2] \in RecordCommand
                /\ RecordMayFollow(t[1], t[2]) /\ Suits(t[2], l)
           /\ \A k : MakesRecord(Tail(t), l, k) => MakesRecord(t, l, k)
           /\ Unwound(Tail(t)) = <<>>
<1>1. PICK u : u = Tail(t)
  OBVIOUS
<1>2. /\ t \in Seq(RecordCommand) /\ u \in Seq(RecordCommand)
      /\ Len(t) \in Nat /\ Len(t) >= 1 /\ Len(u) = Len(t) - 1
      /\ \A i \in 1 .. Len(u) : u[i] = t[i + 1]
  BY <1>1, RestOfList DEF RecordInPlace
<1>3. \A i \in 1 .. Len(u) : i + 1 \in 1 .. Len(t)
  BY <1>2
<1>4. l \in RecordLocal
  BY DEF RecordInPlace, HasName
<1>5. \A i \in 1 .. Len(t) : Suits(t[i], l) /\ IF i = Len(t) THEN RecordMayEnd(t[i], l) ELSE RecordMayFollow(t[i], t[i + 1])
  BY DEF RecordInPlace, InRecordOrder
<1>6. InRecordOrder(u, l)
  <2> SUFFICES ASSUME NEW i \in 1 .. Len(u)
               PROVE  Suits(u[i], l) /\ IF i = Len(u) THEN RecordMayEnd(u[i], l) ELSE RecordMayFollow(u[i], u[i + 1])
    BY DEF InRecordOrder
  <2>1. i + 1 \in 1 .. Len(t) /\ u[i] = t[i + 1] /\ (i = Len(u) <=> i + 1 = Len(t))
    BY <1>2
  <2>2. i # Len(u) => u[i + 1] = t[(i + 1) + 1]
    <3>1. i # Len(u) => i + 1 \in 1 .. Len(u)
      BY <1>2
    <3> QED BY <1>2, <3>1
  <2> QED BY <1>5, <2>1, <2>2
<1>7. 1 \in 1 .. Len(t)
  BY <1>2
<1>8. u = <<>> => RecordMayEnd(t[1], l) /\ Len(t) = 1
  <2>1. u = <<>> => Len(u) = 0
    OBVIOUS
  <2>2. u = <<>> => Len(t) = 1
    BY <1>2, <2>1
  <2> QED BY <1>5, <1>7, <2>2
<1>9. u # <<>> => Len(t) > 1 /\ u[1] = t[2] /\ t[2] \in RecordCommand /\ RecordMayFollow(t[1], t[2]) /\ Suits(t[2], l)
  <2> SUFFICES ASSUME u # <<>>
               PROVE  Len(t) > 1 /\ u[1] = t[2] /\ t[2] \in RecordCommand /\ RecordMayFollow(t[1], t[2]) /\ Suits(t[2], l)
    OBVIOUS
  <2>1. Len(u) >= 1
    BY <1>2, RestOfList
  <2>2. 1 \in 1 .. Len(u) /\ Len(t) > 1 /\ 1 # Len(t) /\ 1 + 1 = 2 /\ 2 \in 1 .. Len(t)
    BY <1>2, <2>1
  <2>3. u[1] = t[1 + 1] /\ RecordMayFollow(t[1], t[1 + 1])
    BY <1>2, <1>5, <1>7, <2>2
  <2>4. t[2] \in RecordCommand
    BY <1>2, <2>2, ElementOfSeq
  <2> QED BY <1>5, <2>2, <2>3, <2>4
<1>10. \A k : MakesRecord(u, l, k) => MakesRecord(t, l, k)
  BY <1>2, <1>3 DEF MakesRecord
<1>11. Unwound(u) = <<>>
  <2>1. \A i \in 1 .. Len(u) : u[i] \in RecordCommand
    BY <1>2, ElementOfSeq
  <2>2. \A x \in RecordCommand : x.do # "catch"
    BY DEF RecordCommand, RecordDo
  <2>3. \A i \in DOMAIN u : u[i].do # "catch"
    BY <1>2, <2>1, <2>2
  <2> QED BY <2>3 DEF Unwound
<1> QED BY <1>1, <1>2, <1>3, <1>4, <1>5, <1>6, <1>7, <1>8, <1>9, <1>10, <1>11

\* What a step of this request may take from the others: what is not marked
\* as deleted stays, and the mark goes only with a new document.
RecordsKeep(r) ==
    \A k \in RecordKeys : k \notin recordPast'.doomed =>
      /\ k \notin recordPast.doomed => (docs[k] # NoName => docs'[k] # NoName) /\ (k \in listed => k \in listed')
      /\ k \in recordPast.doomed => docs'[k] # NoName /\ Makes(r, k)

(* A request goes on with these commands. *)
LEMMA RecordMoves ==
    ASSUME RecordInv, NEW r \in Requests, NEW t, NEW l, Moved(r, t, l), tally' \in Tallies,
           ~tally'.overlapped => ~tally.overlapped /\ \A q \in Busy : q = r,
           RecordsTyped', KeptRecordsStay', RecordsKeep(r), RecordInPlace(t, l)',
           \A k \in RecordKeys : k[1] \in {"guardrail", "goal"} /\ MakesRecord(t, l, k) =>
             \A q \in Requests \ {r} : ~Makes(q, k),
           ~tally'.overlapped => AloneStored' /\ FitsAlone(t, l)'
    PROVE  RecordInv'
<1>1. /\ request' = [q \in Requests |-> request'[q]]
      /\ \A q \in Requests : q # r => request'[q] = request[q]
      /\ request'[r] = IF t = <<>> THEN Idle ELSE [todo |-> t, loc |-> l]
      /\ request'[r].todo = t /\ Busy' \subseteq Busy \cup {r}
  BY BusyThen
<1>2. ASSUME NEW q \in Requests, q # r
      PROVE  RecordInPlace(request[q].todo, request[q].loc)'
  <2>1. PICK s, x : s = request[q].todo /\ x = request[q].loc
    OBVIOUS
  <2>2. RecordInPlace(s, x) /\ request'[q].todo = s /\ request'[q].loc = x
    BY <1>1, <1>2, <2>1 DEF RecordInv, RecordsInPlace
  <2>3. FitsRecord(s, x)'
    <3> SUFFICES ASSUME s # <<>>, x.makes, s[1].do \in {"recordList", "goalName", "userIndex"},
                        s[1].id \notin recordPast'.doomed
                 PROVE  docs'[s[1].id] # NoName /\ (s[1].do \in {"goalName", "userIndex"} => s[1].id \in listed')
      BY DEF FitsRecord
    <3>1. s[1].id \in RecordKeys /\ Suits(s[1], x) /\ 1 \in 1 .. Len(s)
      <4>1. s \in Seq(RecordCommand) /\ Suits(s[1], x) /\ Len(s) \in Nat /\ Len(s) >= 1
        BY <2>2, RecordTail
      <4>2. 1 \in 1 .. Len(s)
        BY <4>1
      <4>3. s[1] \in RecordCommand
        BY <4>1, <4>2, ElementOfSeq
      <4> QED BY <4>1, <4>2, <4>3 DEF RecordCommand
    <3>2. CASE s[1].id \notin recordPast.doomed
      BY <2>2, <3>1, <3>2 DEF RecordInPlace, FitsRecord, RecordsKeep
    <3>3. CASE s[1].id \in recordPast.doomed
      <4>1. docs'[s[1].id] # NoName /\ Makes(r, s[1].id)
        BY <3>1, <3>3 DEF RecordsKeep
      <4>2. Makes(q, s[1].id)
        BY <2>1, <3>1 DEF Makes, MakesRecord, RecordStores
      <4>3. s[1].do \in {"goalName", "userIndex"} => s[1].id[1] \in {"guardrail", "goal"}
        BY <3>1 DEF Suits
      <4>4. s[1].do \notin {"goalName", "userIndex"}
        BY <1>2, <3>1, <4>1, <4>2, <4>3 DEF RecordInv, OnlyMaker
      <4> QED BY <4>1, <4>4
    <3> QED BY <3>2, <3>3
  <2>4. RecordInPlace(s, x)'
    BY <2>2, <2>3 DEF RecordInPlace
  <2> QED BY <2>2, <2>4
<1>3. RecordInPlace(request[r].todo, request[r].loc)' /\ (~tally'.overlapped => FitsAlone(request[r].todo, request[r].loc)')
  <2>1. CASE t = <<>>
    <3>1. request'[r].todo = <<>>
      BY <1>1, <2>1
    <3> QED BY <3>1 DEF RecordInPlace, InRecordOrder, HasName, FitsRecord, FitsAlone
  <2>2. CASE t # <<>>
    BY <1>1, <2>2
  <2> QED BY <2>1, <2>2
<1>4. RecordsInPlace'
  BY <1>1, <1>2, <1>3 DEF RecordsInPlace
<1>5. OnlyMaker'
  <2>1. ASSUME NEW q \in Requests, q # r, NEW k, Makes(q, k)'
        PROVE  Makes(q, k)
    BY <1>1, <2>1 DEF Makes, MakesRecord
  <2>2. ASSUME NEW k, Makes(r, k)'
        PROVE  MakesRecord(t, l, k)
    <3>1. t # <<>>
      BY <1>1, <2>2 DEF Makes, MakesRecord
    <3>2. request'[r].todo = t /\ request'[r].loc = l
      BY <1>1, <3>1
    <3> QED BY <2>2, <3>2 DEF Makes, MakesRecord
  <2> SUFFICES ASSUME NEW p \in Requests, NEW q \in Requests, NEW k \in RecordKeys, k[1] \in {"guardrail", "goal"},
                      Makes(p, k)', Makes(q, k)', p # q
               PROVE  FALSE
    BY DEF OnlyMaker
  <2>3. CASE p = r
    BY <2>1, <2>2, <2>3
  <2>4. CASE q = r
    BY <2>1, <2>2, <2>4
  <2>5. CASE p # r /\ q # r
    BY <2>1, <2>5 DEF RecordInv, OnlyMaker
  <2> QED BY <2>3, <2>4, <2>5
<1>6. OneBusy'
  BY <1>1 DEF OneBusy
<1>7. AloneFits'
  <2> SUFFICES ASSUME ~tally'.overlapped, NEW q \in Requests
               PROVE  FitsAlone(request[q].todo, request[q].loc)'
    BY DEF AloneFits
  <2>1. CASE q = r
    BY <1>3, <2>1
  <2>2. CASE q # r
    <3>1. request'[q].todo = <<>>
      BY <1>1, <2>2 DEF Busy
    <3> QED BY <3>1 DEF FitsAlone
  <2> QED BY <2>1, <2>2
<1> QED BY <1>4, <1>5, <1>6, <1>7 DEF RecordInv

(* A request starts, or goes on, and stores nothing. *)
LEMMA RecordQuiet ==
    ASSUME RecordInv, NEW r \in Requests, NEW t, NEW l, Moved(r, t, l), tally' \in Tallies,
           ~tally'.overlapped => ~tally.overlapped /\ \A q \in Busy : q = r,
           tally'.faults = 0 => tally.faults = 0 /\ \A k : ~Naming(r, k),
           UNCHANGED recordVars, RecordInPlace(t, l),
           \A k \in RecordKeys : k[1] \in {"guardrail", "goal"} /\ MakesRecord(t, l, k) =>
             \A q \in Requests \ {r} : ~Makes(q, k),
           ~tally'.overlapped => FitsAlone(t, l)
    PROVE  RecordInv'
<1>1. docs' = docs /\ listed' = listed /\ goalNames' = goalNames /\ recordPast' = recordPast
  BY DEF recordVars
<1>2. RecordsTyped' /\ KeptRecordsStay'
  BY <1>1 DEF RecordInv, RecordsTyped, KeptRecordsStay
<1>3. RecordsKeep(r)
  BY <1>1 DEF RecordsKeep
<1>4. RecordInPlace(t, l)'
  BY <1>1 DEF RecordInPlace, FitsRecord
<1>5. ASSUME ~tally'.overlapped
      PROVE  AloneStored' /\ FitsAlone(t, l)'
  <2>1. AloneStored
    BY <1>5 DEF RecordInv, AloneFits
  <2>2. FitsAlone(t, l)'
    BY <1>1, <1>5 DEF FitsAlone
  <2>3. ASSUME tally'.faults = 0, NEW k \in RecordKeys, k[1] = "goal", docs[k] # NoName
        PROVE  goalNames[docs[k]] = k
    <3>1. goalNames[docs[k]] = k \/ \E q \in Requests : Naming(q, k)
      BY <2>1, <2>3 DEF AloneStored
    <3>2. \A q \in Requests : Naming(q, k) => q \in Busy
      BY DEF Naming, Busy
    <3> QED BY <1>5, <2>3, <3>1, <3>2
  <2>4. AloneStored'
    BY <1>1, <2>1, <2>3 DEF AloneStored
  <2> QED BY <2>2, <2>4
<1> QED BY <1>2, <1>3, <1>4, <1>5, RecordMoves

(* A request is over after a refusal, an error or its last command, which *)
(* has stored nothing.                                                     *)
LEMMA RecordOver ==
    ASSUME RecordInv, NEW r \in Requests, r \in Busy, NEW l, Moved(r, <<>>, l), UNCHANGED recordVars,
           tally' \in Tallies, tally'.overlapped = tally.overlapped,
           tally'.faults = 0 => tally.faults = 0 /\ \A k : ~Naming(r, k)
    PROVE  RecordInv'
<1>1. ~tally'.overlapped => ~tally.overlapped /\ \A q \in Busy : q = r
  BY DEF RecordInv, OneBusy
<1> QED BY <1>1, NothingToDo, RecordQuiet

LEMMA RecordFails ==
    ASSUME RecordInv, NEW r \in Requests, CommandFails(r), UNCHANGED recordVars
    PROVE  RecordInv'
<1>1. PICK s, l : s = request[r].todo /\ l = request[r].loc
  OBVIOUS
<1>2. /\ r \in Busy /\ s # <<>> /\ Moved(r, Unwound(Tail(s)), l)
      /\ tally' \in Tallies /\ tally'.faults > 0 /\ tally'.overlapped = tally.overlapped
  BY <1>1, Fails DEF Rest, Loc, RecordInv, RecordsInPlace
<1>3. Unwound(Tail(s)) = <<>>
  <2>1. RecordInPlace(s, l)
    BY <1>1 DEF RecordInv, RecordsInPlace
  <2> QED BY <1>2, <2>1, RecordTail
<1>4. ~(tally'.faults = 0)
  BY <1>2
<1> QED BY <1>2, <1>3, <1>4, RecordOver

(* A command that stores nothing is sent, or refused. *)
LEMMA RecordLooked ==
    ASSUME RecordInv, NEW r \in Requests, NEW do, At(r, do), do \notin {"recordList", "goalName", "recordDel"},
           UNCHANGED recordVars
    PROVE  /\ Refuse(r) => RecordInv'
           /\ \A l : l \in RecordLocal /\ l.makes = request[r].loc.makes /\ Sent(r, l)
                     /\ RecordInPlace(Tail(request[r].todo), l)
                     /\ (~tally.overlapped => FitsAlone(Tail(request[r].todo), l)) => RecordInv'
<1>1. PICK s, x, u : s = request[r].todo /\ x = request[r].loc /\ u = Tail(s)
  OBVIOUS
<1>2. /\ s # <<>> /\ RecordInPlace(s, x) /\ r \in Busy /\ Rest(r) = u /\ Loc(r) = x /\ s[1].do = do
      /\ tally \in Tallies /\ \A q \in Busy : ~tally.overlapped => q = r
  BY <1>1, RecordHead
<1>3. \A k : ~Naming(r, k)
  BY <1>1, <1>2 DEF Naming
<1>4. Unwound(u) = <<>> /\ \A k : MakesRecord(u, x, k) => MakesRecord(s, x, k)
  BY <1>1, <1>2, RecordTail
<1>5. ASSUME Refuse(r)
      PROVE  RecordInv'
  <2>1. Moved(r, <<>>, x) /\ tally' = tally
    BY <1>2, <1>4, <1>5, GoesOn DEF Refuse, RecordInv, RecordsInPlace
  <2> QED BY <1>2, <1>3, <2>1, RecordOver
<1>6. ASSUME NEW l \in RecordLocal, l.makes = x.makes, Sent(r, l), RecordInPlace(u, l),
             ~tally.overlapped => FitsAlone(u, l)
      PROVE  RecordInv'
  <2>1. Moved(r, u, l) /\ tally' = tally
    BY <1>2, <1>6, GoesOn DEF Sent, RecordInv, RecordsInPlace
  <2>2. ASSUME NEW k \in RecordKeys, k[1] \in {"guardrail", "goal"}, MakesRecord(u, l, k)
        PROVE  \A q \in Requests \ {r} : ~Makes(q, k)
    <3>1. MakesRecord(u, x, k)
      BY <1>6, <2>2 DEF MakesRecord
    <3>2. Makes(r, k)
      BY <1>1, <1>4, <3>1 DEF Makes
    <3> QED BY <2>2, <3>2 DEF RecordInv, OnlyMaker
  <2> QED BY <1>2, <1>3, <1>6, <2>1, <2>2, RecordQuiet
<1> QED BY <1>1, <1>5, <1>6

(* The rest of a list is in place when its first command knows enough. *)
LEMMA RestInPlace ==
    ASSUME NEW s, NEW l, s # <<>>, RecordInPlace(s, l), s[1].do \notin RecordStores
    PROVE  /\ HasName(Tail(s), l) => RecordInPlace(Tail(s), l)
           /\ ~tally.overlapped /\ FitsAlone(s, l) /\ l.makes => \A i \in 1 .. Len(Tail(s)) : Tail(s)[i].id[1] = "goal" =>
                /\ Tail(s)[i].do = "recordSet" => docs[Tail(s)[i].id] = NoName
                /\ Tail(s)[i].do \in {"recordSet", "recordList", "goalName"} => Tail(s)[i].id \notin recordPast.kept
<1>1. PICK u : u = Tail(s)
  OBVIOUS
<1>2. /\ u \in Seq(RecordCommand) /\ InRecordOrder(u, l) /\ Suits(s[1], l)
      /\ \A i \in 1 .. Len(u) : i + 1 \in 1 .. Len(s) /\ u[i] = s[i + 1]
      /\ u # <<>> => u[1] = s[2] /\ RecordMayFollow(s[1], s[2]) /\ Suits(s[2], l)
  BY <1>1, RecordTail
<1>3. FitsRecord(u, l)
  <2>1. u # <<>> /\ l.makes => u[1].do \notin {"recordList", "goalName", "userIndex"}
    BY <1>2 DEF Suits, RecordMayFollow, RecordStores, Looks
  <2> QED BY <2>1 DEF FitsRecord
<1>4. ~tally.overlapped /\ FitsAlone(s, l) /\ l.makes => \A i \in 1 .. Len(u) : u[i].id[1] = "goal" =>
                /\ u[i].do = "recordSet" => docs[u[i].id] = NoName
                /\ u[i].do \in {"recordSet", "recordList", "goalName"} => u[i].id \notin recordPast.kept
  <2> SUFFICES ASSUME FitsAlone(s, l), l.makes, NEW i \in 1 .. Len(u), u[i].id[1] = "goal"
               PROVE  /\ u[i].do = "recordSet" => docs[u[i].id] = NoName
                      /\ u[i].do \in {"recordSet", "recordList", "goalName"} => u[i].id \notin recordPast.kept
    OBVIOUS
  <2>1. i + 1 \in 1 .. Len(s) /\ u[i] = s[i + 1]
    BY <1>2
  <2> QED BY <2>1 DEF FitsAlone
<1> QED BY <1>1, <1>2, <1>3, <1>4 DEF RecordInPlace

LEMMA RecordNeedKeeps ==
    ASSUME RecordInv, NEW r \in Requests, RecordNeed(r)
    PROVE  RecordInv'
<1>1. PICK s, l, u : s = request[r].todo /\ l = request[r].loc /\ u = Tail(s)
  OBVIOUS
<1>2. /\ s # <<>> /\ RecordInPlace(s, l) /\ s[1].do = "recordNeed" /\ Rest(r) = u /\ Loc(r) = l
  BY <1>1, RecordHead DEF RecordNeed
<1>3. /\ l \in RecordLocal /\ Suits(s[1], l) /\ u # <<>> /\ u[1] = s[2] /\ RecordMayFollow(s[1], s[2])
  BY <1>1, <1>2, RecordTail DEF RecordMayEnd
<1>4. ~l.makes /\ u[1].do \in {"recordSet", "recordRead", "recordUnlist"} /\ u[1].id[1] # "goal"
  BY <1>2, <1>3 DEF Suits, RecordStores, Looks, RecordMayFollow
<1>5. HasName(u, l)
  BY <1>2, <1>3, <1>4 DEF HasName, RecordInPlace, Looks
<1>6. RecordInPlace(u, l)
  BY <1>1, <1>2, <1>5, RestInPlace DEF RecordStores
<1>7. FitsAlone(u, l)
  BY <1>4 DEF FitsAlone
<1>8. Refuse(r) \/ Sent(r, l)
  BY <1>2 DEF RecordNeed, Done
<1> QED BY <1>1, <1>3, <1>6, <1>7, <1>8, RecordLooked DEF RecordNeed

LEMMA RecordNoneKeeps ==
    ASSUME RecordInv, NEW r \in Requests, RecordNone(r)
    PROVE  RecordInv'
<1>1. PICK s, l, u : s = request[r].todo /\ l = request[r].loc /\ u = Tail(s)
  OBVIOUS
<1>2. /\ s # <<>> /\ RecordInPlace(s, l) /\ s[1].do = "recordNone" /\ Rest(r) = u /\ Loc(r) = l /\ This(r) = s[1]
      /\ ~tally.overlapped => FitsAlone(s, l)
  BY <1>1, RecordHead DEF RecordNone
<1>3. /\ l \in RecordLocal /\ Suits(s[1], l) /\ u # <<>> /\ u[1] = s[2] /\ RecordMayFollow(s[1], s[2])
  BY <1>1, <1>2, RecordTail DEF RecordMayEnd
<1>4. l.makes /\ u[1].do = "recordSet" /\ u[1].id[1] = s[1].id[1] /\ s[1].id[1] \in {"view", "goal"}
  BY <1>2, <1>3 DEF Suits, RecordStores, Looks, RecordMayFollow
<1>5. HasName(u, l)
  BY <1>2, <1>3, <1>4 DEF HasName, RecordInPlace, Looks
<1>6. RecordInPlace(u, l)
  BY <1>1, <1>2, <1>5, RestInPlace DEF RecordStores
<1>7. CASE Refuse(r)
  BY <1>7, RecordLooked DEF RecordNone
<1>8. CASE docs[s[1].id] = NoName /\ Sent(r, l)
  <2>1. ASSUME ~tally.overlapped
        PROVE  FitsAlone(u, l)
    <3>1. s[1].id[1] = "view"
      BY <1>2, <1>4, <1>8, <2>1 DEF FitsAlone
    <3>2. \A i \in 1 .. Len(u) : u[i].id[1] = "goal" =>
                /\ u[i].do = "recordSet" => docs[u[i].id] = NoName
                /\ u[i].do \in {"recordSet", "recordList", "goalName"} => u[i].id \notin recordPast.kept
      BY <1>1, <1>2, <1>4, <2>1, RestInPlace, SMTT(30) DEF RecordStores
    <3> QED BY <1>4, <3>1, <3>2 DEF FitsAlone
  <2> QED BY <1>1, <1>3, <1>6, <1>8, <2>1, RecordLooked DEF RecordNone
<1> QED BY <1>2, <1>7, <1>8 DEF RecordNone, Done

LEMMA RecordReadKeeps ==
    ASSUME RecordInv, NEW r \in Requests, RecordRead(r)
    PROVE  RecordInv'
<1>1. PICK s, l, u : s = request[r].todo /\ l = request[r].loc /\ u = Tail(s)
  OBVIOUS
<1>2. /\ s # <<>> /\ RecordInPlace(s, l) /\ s[1].do = "recordRead" /\ Rest(r) = u /\ Loc(r) = l /\ This(r) = s[1]
      /\ s[1].id \in RecordKeys
  BY <1>1, RecordHead DEF RecordRead
<1>3. /\ l \in RecordLocal /\ Suits(s[1], l) /\ u # <<>> /\ u[1] = s[2] /\ RecordMayFollow(s[1], s[2])
      /\ u \in Seq(RecordCommand) /\ InRecordOrder(u, l)
  BY <1>1, <1>2, RecordTail DEF RecordMayEnd
<1>4. /\ ~l.makes /\ u[1].id = s[1].id /\ (s[1].how = "need" <=> s[1].id[1] = "goal")
      /\ IF s[1].id[1] = "goal" THEN u[1].do = "recordSet" ELSE u[1].do \in {"userIndex", "recordUnlist"}
  BY <1>2, <1>3 DEF Suits, RecordStores, Looks, RecordMayFollow
<1>5. CASE Refuse(r)
  BY <1>5, RecordLooked DEF RecordRead
<1>6. CASE (docs[s[1].id] = NoName => s[1].how # "need") /\ Sent(r, [l EXCEPT !.name = docs[s[1].id]])
  <2>1. PICK x : x = [l EXCEPT !.name = docs[s[1].id]]
    OBVIOUS
  <2>2. docs[s[1].id] \in RecordNames \cup {NoName}
    BY <1>2 DEF RecordInv, RecordsTyped
  <2>3. x \in RecordLocal /\ x.makes = l.makes /\ x.name = docs[s[1].id]
    BY <1>3, <2>1, <2>2 DEF RecordLocal
  <2>4. InRecordOrder(u, x)
    <3>1. \A c : Suits(c, l) => Suits(c, x)
      BY <1>4, <2>3 DEF Suits, Looks
    <3>2. \A c : RecordMayEnd(c, l) => RecordMayEnd(c, x)
      BY <2>3 DEF RecordMayEnd
    <3> QED BY <1>3, <3>1, <3>2 DEF InRecordOrder
  <2>5. HasName(u, x)
    BY <1>4, <1>6, <2>2, <2>3 DEF HasName, Looks
  <2>6. FitsRecord(u, x)
    BY <1>4, <2>3 DEF FitsRecord
  <2>7. FitsAlone(u, x)
    BY <1>4, <2>3 DEF FitsAlone
  <2>8. RecordInPlace(u, x)
    BY <1>3, <2>4, <2>5, <2>6 DEF RecordInPlace
  <2> QED BY <1>1, <1>6, <2>1, <2>3, <2>7, <2>8, RecordLooked DEF RecordRead
<1> QED BY <1>2, <1>5, <1>6 DEF RecordRead

LEMMA NameFreeKeeps ==
    ASSUME RecordInv, NEW r \in Requests, NameFree(r)
    PROVE  RecordInv'
<1>1. PICK s, l, u : s = request[r].todo /\ l = request[r].loc /\ u = Tail(s)
  OBVIOUS
<1>2. /\ s # <<>> /\ RecordInPlace(s, l) /\ s[1].do = "nameFree" /\ Rest(r) = u /\ Loc(r) = l /\ This(r) = s[1]
      /\ ~tally.overlapped => FitsAlone(s, l)
  BY <1>1, RecordHead DEF NameFree
<1>3. /\ l \in RecordLocal /\ Suits(s[1], l) /\ u # <<>> /\ u[1] = s[2] /\ RecordMayFollow(s[1], s[2])
  BY <1>1, <1>2, RecordTail DEF RecordMayEnd
<1>4. l.makes /\ u[1].do = "recordSet" /\ u[1].id = s[1].id /\ s[1].id[1] = "guardrail" /\ s[1].how = l.name
  BY <1>2, <1>3 DEF Suits, RecordStores, Looks, RecordMayFollow
<1>5. HasName(u, l)
  BY <1>2, <1>3, <1>4 DEF HasName, RecordInPlace, Looks
<1>6. RecordInPlace(u, l)
  BY <1>1, <1>2, <1>5, RestInPlace DEF RecordStores
<1>7. CASE Refuse(r)
  BY <1>7, RecordLooked DEF NameFree
<1>8. CASE (\A k \in listed : k[1] = "guardrail" => docs[k] # l.name) /\ Sent(r, l)
  <2>1. ASSUME ~tally.overlapped
        PROVE  FitsAlone(u, l)
    <3>1. \A i \in 1 .. Len(u) : u[i].id[1] = "goal" =>
                /\ u[i].do = "recordSet" => docs[u[i].id] = NoName
                /\ u[i].do \in {"recordSet", "recordList", "goalName"} => u[i].id \notin recordPast.kept
      BY <1>1, <1>2, <1>4, <2>1, RestInPlace DEF RecordStores
    <3> QED BY <1>4, <1>8, <3>1 DEF FitsAlone
  <2> QED BY <1>1, <1>3, <1>6, <1>8, <2>1, RecordLooked DEF NameFree
<1> QED BY <1>2, <1>4, <1>7, <1>8 DEF NameFree, Done

LEMMA NarrateKeeps ==
    ASSUME RecordInv, NEW r \in Requests, Narrate(r)
    PROVE  RecordInv'
<1>1. PICK s, l, u : s = request[r].todo /\ l = request[r].loc /\ u = Tail(s)
  OBVIOUS
<1>2. /\ s # <<>> /\ RecordInPlace(s, l) /\ s[1].do = "narrate" /\ Rest(r) = u /\ Loc(r) = l
      /\ ~tally.overlapped => FitsAlone(s, l)
  BY <1>1, RecordHead DEF Narrate
<1>3. /\ l \in RecordLocal /\ Suits(s[1], l) /\ u # <<>> /\ u[1] = s[2] /\ RecordMayFollow(s[1], s[2])
  BY <1>1, <1>2, RecordTail DEF RecordMayEnd
<1>4. l.makes /\ u[1].do = "recordSet" /\ u[1].id[1] = "narrative"
  BY <1>2, <1>3 DEF Suits, RecordStores, Looks, RecordMayFollow
<1>5. HasName(u, l)
  BY <1>2, <1>3, <1>4 DEF HasName, RecordInPlace, Looks
<1>6. RecordInPlace(u, l)
  BY <1>1, <1>2, <1>5, RestInPlace DEF RecordStores
<1>7. ~tally.overlapped => FitsAlone(u, l)
  <2> SUFFICES ASSUME ~tally.overlapped
               PROVE  FitsAlone(u, l)
    OBVIOUS
  <2>1. \A i \in 1 .. Len(u) : u[i].id[1] = "goal" =>
                /\ u[i].do = "recordSet" => docs[u[i].id] = NoName
                /\ u[i].do \in {"recordSet", "recordList", "goalName"} => u[i].id \notin recordPast.kept
    BY <1>1, <1>2, <1>4, RestInPlace, SMTT(30) DEF RecordStores
  <2> QED BY <1>4, <2>1 DEF FitsAlone
<1>8. Refuse(r) \/ Sent(r, l)
  BY <1>2 DEF Narrate, Done
<1> QED BY <1>1, <1>3, <1>6, <1>7, <1>8, RecordLooked DEF Narrate

(* A command before a list that it may lead to. *)
LEMMA RecordBefore ==
    ASSUME NEW c \in RecordCommand, NEW u \in Seq(RecordCommand), NEW l, Suits(c, l), InRecordOrder(u, l),
           IF u = <<>> THEN RecordMayEnd(c, l) ELSE RecordMayFollow(c, u[1])
    PROVE  /\ <<c>> \o u \in Seq(RecordCommand) /\ <<c>> \o u # <<>> /\ InRecordOrder(<<c>> \o u, l)
           /\ (<<c>> \o u)[1] = c /\ (u # <<>> => (<<c>> \o u)[2] = u[1])
           /\ \A i \in 1 .. Len(<<c>> \o u) : i = 1 \/ (i - 1 \in 1 .. Len(u) /\ (<<c>> \o u)[i] = u[i - 1])
           /\ c.do \notin RecordStores => \A k : MakesRecord(<<c>> \o u, l, k) => MakesRecord(u, l, k)
<1>1. PICK t : t = <<c>> \o u
  OBVIOUS
<1>2. /\ t \in Seq(RecordCommand) /\ t # <<>> /\ Len(t) = Len(u) + 1 /\ Len(u) \in Nat
      /\ t[1] = c /\ \A i \in 1 .. Len(u) : t[i + 1] = u[i]
  BY <1>1, FirstOfList
<1>3. \A i \in 1 .. Len(t) : i = 1 \/ (i - 1 \in 1 .. Len(u) /\ t[i] = u[i - 1])
  <2> SUFFICES ASSUME NEW i \in 1 .. Len(t), i # 1
               PROVE  i - 1 \in 1 .. Len(u) /\ t[i] = u[i - 1]
    OBVIOUS
  <2>1. i - 1 \in 1 .. Len(u) /\ (i - 1) + 1 = i
    BY <1>2
  <2> QED BY <1>2, <2>1
<1>4. u # <<>> => t[2] = u[1] /\ Len(u) >= 1
  <2> SUFFICES ASSUME u # <<>>
               PROVE  t[2] = u[1] /\ Len(u) >= 1
    OBVIOUS
  <2>1. Len(u) >= 1
    BY RestOfList
  <2>2. 1 \in 1 .. Len(u) /\ 1 + 1 = 2
    BY <2>1
  <2> QED BY <1>2, <2>1, <2>2
<1>5. u = <<>> => Len(u) = 0
  OBVIOUS
<1>6. InRecordOrder(t, l)
  <2> SUFFICES ASSUME NEW i \in 1 .. Len(t)
               PROVE  Suits(t[i], l) /\ IF i = Len(t) THEN RecordMayEnd(t[i], l) ELSE RecordMayFollow(t[i], t[i + 1])
    BY DEF InRecordOrder
  <2>1. CASE i = 1 /\ u = <<>>
    <3>1. i = Len(t)
      BY <1>2, <1>5, <2>1
    <3> QED BY <1>2, <2>1, <3>1
  <2>2. CASE i = 1 /\ u # <<>>
    <3>1. i # Len(t) /\ i + 1 = 2
      BY <1>2, <1>4, <2>2
    <3>2. t[i + 1] = u[1]
      BY <1>4, <2>2, <3>1
    <3> QED BY <1>2, <2>2, <3>1, <3>2
  <2>3. CASE i # 1
    <3>1. i - 1 \in 1 .. Len(u) /\ t[i] = u[i - 1] /\ (i - 1 = Len(u) <=> i = Len(t))
      BY <1>2, <1>3, <2>3
    <3>2. i # Len(t) => t[i + 1] = u[(i - 1) + 1]
      <4>1. i # Len(t) => i \in 1 .. Len(u) /\ (i - 1) + 1 = i
        BY <1>2
      <4> QED BY <1>2, <4>1
    <3> QED BY <3>1, <3>2 DEF InRecordOrder
  <2> QED BY <2>1, <2>2, <2>3
<1>7. ASSUME c.do \notin RecordStores, NEW k, MakesRecord(t, l, k)
      PROVE  MakesRecord(u, l, k)
  <2>1. PICK i \in 1 .. Len(t) : t[i].do \in RecordStores /\ t[i].id = k
    BY <1>7 DEF MakesRecord
  <2>2. i - 1 \in 1 .. Len(u) /\ t[i] = u[i - 1]
    BY <1>2, <1>3, <1>7, <2>1
  <2>3. u # <<>>
    BY <1>5, <2>2
  <2> QED BY <1>7, <2>1, <2>2, <2>3 DEF MakesRecord
<1> QED BY <1>1, <1>2, <1>3, <1>4, <1>6, <1>7

LEMMA GoalNoneKeeps ==
    ASSUME RecordInv, NEW r \in Requests, GoalNone(r)
    PROVE  RecordInv'
<1>1. PICK s, l, u : s = request[r].todo /\ l = request[r].loc /\ u = Tail(s)
  OBVIOUS
<1>2. /\ s # <<>> /\ RecordInPlace(s, l) /\ s[1].do = "goalNone" /\ Rest(r) = u /\ Loc(r) = l /\ This(r) = s[1]
      /\ r \in Busy /\ tally \in Tallies /\ \A q \in Busy : ~tally.overlapped => q = r
      /\ ~tally.overlapped => AloneStored /\ FitsAlone(s, l)
  BY <1>1, RecordHead DEF GoalNone
<1>3. /\ l \in RecordLocal /\ Suits(s[1], l) /\ u # <<>> /\ u[1] = s[2] /\ RecordMayFollow(s[1], s[2])
      /\ u \in Seq(RecordCommand) /\ InRecordOrder(u, l) /\ Unwound(u) = <<>>
      /\ \A k : MakesRecord(u, l, k) => MakesRecord(s, l, k)
  BY <1>1, <1>2, RecordTail DEF RecordMayEnd
<1>4. l.makes /\ u[1].do = "recordSet" /\ u[1].id = s[1].id /\ s[1].id[1] = "goal" /\ s[1].how = l.name
  BY <1>2, <1>3 DEF Suits, RecordStores, Looks, RecordMayFollow
<1>5. HasName(u, l) /\ l.name \in RecordNames
  BY <1>2, <1>3, <1>4 DEF HasName, RecordInPlace, Looks
<1>6. RecordInPlace(u, l)
  BY <1>1, <1>2, <1>5, RestInPlace DEF RecordStores
<1>7. ~tally.overlapped => \A i \in 1 .. Len(u) : u[i].id[1] = "goal" =>
                /\ u[i].do = "recordSet" => docs[u[i].id] = NoName
                /\ u[i].do \in {"recordSet", "recordList", "goalName"} => u[i].id \notin recordPast.kept
  BY <1>1, <1>2, <1>4, RestInPlace DEF RecordStores
<1>8. CASE goalNames[l.name] = NoRecord /\ Sent(r, l)
  <2>1. ~tally.overlapped => FitsAlone(u, l)
    BY <1>4, <1>7, <1>8 DEF FitsAlone
  <2> QED BY <1>1, <1>3, <1>6, <1>8, <2>1, RecordLooked DEF GoalNone
<1>9. CASE /\ goalNames[l.name] # NoRecord /\ UNCHANGED tally
           /\ Continue(r, <<[do |-> "recordNone", id |-> goalNames[l.name], how |-> "-"]>> \o u, l)
  <2>1. PICK g, c, t : g = goalNames[l.name] /\ c = [do |-> "recordNone", id |-> g, how |-> "-"] /\ t = <<c>> \o u
    OBVIOUS
  <2>2. g \in RecordKeys /\ g[1] = "goal"
    BY <1>5, <1>9, <2>1 DEF RecordInv, RecordsTyped
  <2>3. c \in RecordCommand /\ Suits(c, l) /\ RecordMayFollow(c, u[1])
    BY <1>4, <2>1, <2>2 DEF RecordCommand, RecordDo, NoName, Suits, Looks, RecordMayFollow
  <2>4. /\ t \in Seq(RecordCommand) /\ t # <<>> /\ InRecordOrder(t, l) /\ t[1] = c /\ t[2] = u[1]
        /\ \A i \in 1 .. Len(t) : i = 1 \/ (i - 1 \in 1 .. Len(u) /\ t[i] = u[i - 1])
        /\ \A k : MakesRecord(t, l, k) => MakesRecord(u, l, k)
    <3>1. IF u = <<>> THEN RecordMayEnd(c, l) ELSE RecordMayFollow(c, u[1])
      BY <1>3, <2>3
    <3>2. c.do \notin RecordStores
      BY <2>1 DEF RecordStores
    <3> QED BY <1>3, <2>1, <2>3, <3>1, <3>2, RecordBefore
  <2>5. RecordInPlace(t, l)
    <3>1. HasName(t, l)
      BY <1>3, <1>5, <2>1, <2>4 DEF HasName, Looks
    <3>2. FitsRecord(t, l)
      BY <2>1, <2>4 DEF FitsRecord
    <3> QED BY <2>4, <3>1, <3>2 DEF RecordInPlace
  <2>6. ASSUME ~tally.overlapped
        PROVE  FitsAlone(t, l)
    <3>1. docs[g] # NoName
      BY <1>2, <1>5, <1>9, <2>1, <2>6, RecordAssumption DEF AloneStored
    <3>2. \A i \in 1 .. Len(t) : t[i].id[1] = "goal" =>
                /\ t[i].do = "recordSet" => docs[t[i].id] = NoName
                /\ t[i].do \in {"recordSet", "recordList", "goalName"} => t[i].id \notin recordPast.kept
      <4> SUFFICES ASSUME NEW i \in 1 .. Len(t), t[i].id[1] = "goal", i # 1
                   PROVE  /\ t[i].do = "recordSet" => docs[t[i].id] = NoName
                          /\ t[i].do \in {"recordSet", "recordList", "goalName"} => t[i].id \notin recordPast.kept
        BY <2>1, <2>4
      <4> QED BY <1>7, <2>4, <2>6
    <3> QED BY <2>1, <2>4, <3>1, <3>2 DEF FitsAlone
  <2>7. Moved(r, t, l) /\ tally' = tally
    BY <1>9, <2>1, GoesOn DEF RecordInv, RecordsInPlace
  <2>8. \A k : ~Naming(r, k)
    BY <1>1, <1>2 DEF Naming
  <2>9. ASSUME NEW k \in RecordKeys, k[1] \in {"guardrail", "goal"}, MakesRecord(t, l, k)
        PROVE  \A q \in Requests \ {r} : ~Makes(q, k)
    <3>1. Makes(r, k)
      BY <1>1, <1>3, <2>4, <2>9 DEF Makes
    <3> QED BY <2>9, <3>1 DEF RecordInv, OnlyMaker
  <2> QED BY <1>2, <2>5, <2>6, <2>7, <2>8, <2>9, RecordQuiet DEF GoalNone
<1> QED BY <1>2, <1>4, <1>8, <1>9 DEF GoalNone, Done, Cmd

LEMMA GoalIndexesKeeps ==
    ASSUME RecordInv, NEW r \in Requests, GoalIndexes(r)
    PROVE  RecordInv'
<1>1. PICK s, l, u : s = request[r].todo /\ l = request[r].loc /\ u = Tail(s)
  OBVIOUS
<1>2. /\ s # <<>> /\ RecordInPlace(s, l) /\ s[1].do = "goalIndexes" /\ Rest(r) = u /\ Loc(r) = l /\ This(r) = s[1]
      /\ r \in Busy /\ tally \in Tallies /\ (\A q \in Busy : ~tally.overlapped => q = r)
      /\ s[1].id \in RecordKeys
      /\ ~tally.overlapped => AloneStored
  BY <1>1, RecordHead DEF GoalIndexes
<1>3. /\ l \in RecordLocal /\ Suits(s[1], l) /\ u # <<>> /\ u[1] = s[2] /\ RecordMayFollow(s[1], s[2])
      /\ u \in Seq(RecordCommand) /\ InRecordOrder(u, l)
  BY <1>1, <1>2, RecordTail DEF RecordMayEnd
<1>4. PICK k, n : k = s[1].id /\ n = docs[k]
  OBVIOUS
<1>5. ~l.makes /\ u[1].do = "recordDel" /\ u[1].id = k /\ k[1] = "goal"
  BY <1>2, <1>3, <1>4 DEF Suits, RecordStores, Looks, RecordMayFollow
<1>6. CASE n = NoName /\ Sent(r, l)
  <2>1. HasName(u, l)
    BY <1>3, <1>5 DEF HasName, Looks
  <2>2. RecordInPlace(u, l)
    BY <1>1, <1>2, <2>1, RestInPlace DEF RecordStores
  <2>3. ASSUME ~tally.overlapped
        PROVE  FitsAlone(u, l)
    <3>1. k \notin listed
      BY <1>2, <1>4, <1>6, <2>3 DEF AloneStored
    <3>2. \A m \in RecordNames : goalNames[m] # k
      <4>1. k # NoRecord
        BY <1>2, <1>4, KindsOfKeys
      <4> QED BY <1>2, <1>4, <1>6, <2>3, <4>1, RecordAssumption, ZenonT(30) DEF AloneStored
    <3> QED BY <1>4, <1>5, <1>6, <3>1, <3>2 DEF FitsAlone
  <2> QED BY <1>1, <1>3, <1>6, <2>2, <2>3, RecordLooked DEF GoalIndexes
<1>7. CASE /\ n # NoName /\ UNCHANGED tally
           /\ Continue(r, (<<[do |-> "recordUnlist", id |-> k, how |-> "-"]>>
                             \o <<[do |-> "goalUnname", id |-> k, how |-> n]>>) \o u, l)
  <2>1. PICK a, b : a = [do |-> "recordUnlist", id |-> k, how |-> "-"] /\ b = [do |-> "goalUnname", id |-> k, how |-> n]
    OBVIOUS
  <2>2. PICK v, t : v = <<b>> \o u /\ t = <<a>> \o v
    OBVIOUS
  <2>3. n \in RecordNames
    BY <1>2, <1>4, <1>7 DEF RecordInv, RecordsTyped
  <2>4. a \in RecordCommand /\ b \in RecordCommand /\ Suits(a, l) /\ Suits(b, l) /\ RecordMayFollow(b, u[1]) /\ RecordMayFollow(a, b)
    BY <1>2, <1>4, <1>5, <2>1, <2>3 DEF RecordCommand, RecordDo, NoName, Suits, Looks, RecordMayFollow, Indexed
  <2>5. v \in Seq(RecordCommand) /\ v # <<>> /\ InRecordOrder(v, l) /\ v[1] = b
    <3>1. IF u = <<>> THEN RecordMayEnd(b, l) ELSE RecordMayFollow(b, u[1])
      BY <1>3, <2>4
    <3> QED BY <1>3, <2>2, <2>4, <3>1, RecordBefore
  <2>6. t \in Seq(RecordCommand) /\ t # <<>> /\ InRecordOrder(t, l) /\ t[1] = a /\ t[2] = b
    <3>1. IF v = <<>> THEN RecordMayEnd(a, l) ELSE RecordMayFollow(a, v[1])
      BY <2>4, <2>5
    <3> QED BY <2>2, <2>4, <2>5, <3>1, RecordBefore
  <2>7. (<<a>> \o <<b>>) \o u = t
    <3>1. <<a>> \in Seq(RecordCommand) /\ <<b>> \in Seq(RecordCommand)
      BY <2>4
    <3> QED BY <1>3, <2>2, <3>1, ConcatAssociative
  <2>8. RecordInPlace(t, l)
    <3>1. HasName(t, l)
      BY <1>3, <2>1, <2>6 DEF HasName, Looks
    <3>2. FitsRecord(t, l)
      BY <1>5 DEF FitsRecord
    <3> QED BY <2>6, <3>1, <3>2 DEF RecordInPlace
  <2>9. FitsAlone(t, l)
    BY <1>4, <1>5, <2>1, <2>3, <2>6 DEF FitsAlone
  <2>10. Moved(r, t, l) /\ tally' = tally
    BY <1>7, <2>1, <2>7, GoesOn DEF RecordInv, RecordsInPlace
  <2>11. \A j : ~Naming(r, j)
    BY <1>1, <1>2 DEF Naming
  <2>12. \A j : ~MakesRecord(t, l, j)
    BY <1>5 DEF MakesRecord
  <2> QED BY <1>2, <2>8, <2>9, <2>10, <2>11, <2>12, RecordQuiet DEF GoalIndexes
<1> QED BY <1>2, <1>4, <1>6, <1>7 DEF GoalIndexes, Done, Cmd, Insert

(* A request starts. *)
LEMMA RecordStarts ==
    ASSUME RecordInv, NEW r \in Requests, NEW t \in Seq(RecordCommand), NEW l, AskRecord(r, t, l),
           InRecordOrder(t, l), HasName(t, l), FitsRecord(t, l), FitsAlone(t, l),
           \A k \in RecordKeys : k[1] \in {"guardrail", "goal"} /\ MakesRecord(t, l, k) => Unused(k)
    PROVE  RecordInv'
<1>1. /\ r \notin Busy /\ request[r].todo = <<>> /\ Moved(r, t, l)
      /\ tally' \in Tallies /\ tally'.faults = tally.faults
      /\ ~tally'.overlapped => ~tally.overlapped /\ Busy = {}
  BY Starts DEF AskRecord, RecordInv, RecordsInPlace
<1>2. RecordInPlace(t, l)
  BY DEF RecordInPlace
<1>3. \A k : ~Naming(r, k)
  BY <1>1 DEF Naming
<1>4. ASSUME NEW k \in RecordKeys, k[1] \in {"guardrail", "goal"}, MakesRecord(t, l, k), NEW q \in Requests
      PROVE  ~Makes(q, k)
  <2>1. \A i \in DOMAIN request[q].todo : q \in Busy => request[q].todo[i].id # k
    BY <1>4 DEF Unused
  <2>2. DOMAIN request[q].todo = 1 .. Len(request[q].todo)
    BY DEF RecordInv, RecordsInPlace, RecordInPlace
  <2> QED BY <2>1, <2>2 DEF Makes, MakesRecord, Busy
<1> QED BY <1>1, <1>2, <1>3, <1>4, RecordQuiet DEF AskRecord

(* Short lists of commands are in order. *)
LEMMA ShortOrders ==
    ASSUME NEW a \in RecordCommand, NEW b \in RecordCommand, NEW c \in RecordCommand, NEW d \in RecordCommand, NEW l
    PROVE  /\ Suits(a, l) /\ RecordMayEnd(a, l) => InRecordOrder(<<a>>, l)
           /\ Suits(a, l) /\ RecordMayFollow(a, b) /\ Suits(b, l) /\ RecordMayEnd(b, l) => InRecordOrder(<<a, b>>, l)
           /\ Suits(a, l) /\ RecordMayFollow(a, b) /\ Suits(b, l) /\ RecordMayFollow(b, c) /\ Suits(c, l) /\ RecordMayEnd(c, l) =>
                InRecordOrder(<<a, b, c>>, l)
           /\ Suits(a, l) /\ RecordMayFollow(a, b) /\ Suits(b, l) /\ RecordMayFollow(b, c) /\ Suits(c, l) /\ RecordMayFollow(c, d)
                /\ Suits(d, l) /\ RecordMayEnd(d, l) => InRecordOrder(<<a, b, c, d>>, l)
           /\ <<a>> \in Seq(RecordCommand) /\ <<a, b>> \in Seq(RecordCommand)
           /\ <<a, b, c>> \in Seq(RecordCommand) /\ <<a, b, c, d>> \in Seq(RecordCommand)
<1>1. Suits(a, l) /\ RecordMayEnd(a, l) => InRecordOrder(<<a>>, l)
  <2> SUFFICES ASSUME NEW i \in 1 .. Len(<<a>>)
               PROVE  i = 1 /\ Len(<<a>>) = 1 /\ <<a>>[i] = a
    BY DEF InRecordOrder
  <2> QED OBVIOUS
<1>2. Suits(a, l) /\ RecordMayFollow(a, b) /\ Suits(b, l) /\ RecordMayEnd(b, l) => InRecordOrder(<<a, b>>, l)
  <2> SUFFICES ASSUME NEW i \in 1 .. Len(<<a, b>>)
               PROVE  /\ i = 1 => <<a, b>>[i] = a /\ <<a, b>>[i + 1] = b /\ i # Len(<<a, b>>)
                      /\ i # 1 => <<a, b>>[i] = b /\ i = Len(<<a, b>>)
    BY DEF InRecordOrder
  <2> QED OBVIOUS
<1>3. Suits(a, l) /\ RecordMayFollow(a, b) /\ Suits(b, l) /\ RecordMayFollow(b, c) /\ Suits(c, l) /\ RecordMayEnd(c, l) =>
                InRecordOrder(<<a, b, c>>, l)
  <2> SUFFICES ASSUME NEW i \in 1 .. Len(<<a, b, c>>)
               PROVE  \/ <<a, b, c>>[i] = a /\ <<a, b, c>>[i + 1] = b /\ i # Len(<<a, b, c>>)
                      \/ <<a, b, c>>[i] = b /\ <<a, b, c>>[i + 1] = c /\ i # Len(<<a, b, c>>)
                      \/ <<a, b, c>>[i] = c /\ i = Len(<<a, b, c>>)
    BY DEF InRecordOrder
  <2>1. i = 1 \/ i = 2 \/ i = 3
    OBVIOUS
  <2> QED BY <2>1
<1>4. Suits(a, l) /\ RecordMayFollow(a, b) /\ Suits(b, l) /\ RecordMayFollow(b, c) /\ Suits(c, l) /\ RecordMayFollow(c, d)
                /\ Suits(d, l) /\ RecordMayEnd(d, l) => InRecordOrder(<<a, b, c, d>>, l)
  <2> SUFFICES ASSUME NEW i \in 1 .. Len(<<a, b, c, d>>)
               PROVE  \/ <<a, b, c, d>>[i] = a /\ <<a, b, c, d>>[i + 1] = b /\ i # Len(<<a, b, c, d>>)
                      \/ <<a, b, c, d>>[i] = b /\ <<a, b, c, d>>[i + 1] = c /\ i # Len(<<a, b, c, d>>)
                      \/ <<a, b, c, d>>[i] = c /\ <<a, b, c, d>>[i + 1] = d /\ i # Len(<<a, b, c, d>>)
                      \/ <<a, b, c, d>>[i] = d /\ i = Len(<<a, b, c, d>>)
    BY DEF InRecordOrder
  <2>1. i = 1 \/ i = 2 \/ i = 3 \/ i = 4
    OBVIOUS
  <2> QED BY <2>1
<1> QED BY <1>1, <1>2, <1>3, <1>4

(* Commands and locals as requests are given them. *)
LEMMA RecordCmds ==
    ASSUME NEW k \in RecordKeys, NEW n \in RecordNames \cup {NoName}, NEW makes \in BOOLEAN
    PROVE  /\ \A do \in RecordDo :
                /\ Cmd(do, k, "-") = <<[do |-> do, id |-> k, how |-> "-"]>>
                /\ [do |-> do, id |-> k, how |-> "-"] \in RecordCommand
                /\ Cmd(do, k, n) = <<[do |-> do, id |-> k, how |-> n]>>
                /\ [do |-> do, id |-> k, how |-> n] \in RecordCommand
           /\ [do |-> "recordRead", id |-> k, how |-> "need"] \in RecordCommand
           /\ RecordLocals(n, makes) \in RecordLocal
           /\ RecordLocals(n, makes).name = n /\ RecordLocals(n, makes).makes = makes
           /\ (CHOOSE m \in RecordNames : TRUE) \in RecordNames
<1>1. RecordLocals(n, makes) \in RecordLocal
  BY DEF RecordLocals, RecordLocal
<1>2. (CHOOSE m \in RecordNames : TRUE) \in RecordNames
  BY RecordAssumption
<1>3. [do |-> "recordRead", id |-> k, how |-> "need"] \in RecordCommand
  BY DEF RecordCommand, RecordDo
<1>4. \A do \in RecordDo : [do |-> do, id |-> k, how |-> "-"] \in RecordCommand /\ [do |-> do, id |-> k, how |-> n] \in RecordCommand
  BY DEF RecordCommand, NoName
<1> QED BY <1>1, <1>2, <1>3, <1>4 DEF Cmd, RecordLocals

LEMMA CreateViewKeeps ==
    ASSUME RecordInv, NEW r \in Requests, NEW k \in Keyed("view", ViewNames), CreateView(r, k)
    PROVE  RecordInv'
<1>1. k \in RecordKeys /\ k[1] = "view"
  BY DEF RecordKeys, Keyed
<1>2. PICK a, b, c, n, l : /\ a = [do |-> "recordNone", id |-> k, how |-> "-"]
                           /\ b = [do |-> "recordSet", id |-> k, how |-> "-"]
                           /\ c = [do |-> "recordList", id |-> k, how |-> "-"]
                           /\ n = (CHOOSE m \in RecordNames : TRUE) /\ l = RecordLocals(n, TRUE)
  OBVIOUS
<1>3. /\ a \in RecordCommand /\ b \in RecordCommand /\ c \in RecordCommand
      /\ n \in RecordNames /\ l \in RecordLocal /\ l.name = n /\ l.makes
      /\ Cmd("recordNone", k, "-") = <<a>> /\ Cmd("recordSet", k, "-") = <<b>> /\ Cmd("recordList", k, "-") = <<c>>
  BY <1>1, <1>2, RecordCmds DEF RecordDo
<1>4. AskRecord(r, <<a, b, c>>, l)
  <2>1. a \in RecordCommand /\ b \in RecordCommand /\ c \in RecordCommand
    BY <1>3
  <2>2. (<<a>> \o <<b>>) \o <<c>> = <<a, b, c>>
    BY <2>1, ListOfThree
  <2> QED BY <1>2, <1>3, <2>2 DEF CreateView
<1>5. InRecordOrder(<<a, b, c>>, l) /\ <<a, b, c>> \in Seq(RecordCommand)
  <2>1. Suits(a, l) /\ RecordMayFollow(a, b) /\ Suits(b, l) /\ RecordMayFollow(b, c) /\ Suits(c, l) /\ RecordMayEnd(c, l)
    BY <1>1, <1>2, <1>3 DEF Suits, RecordMayFollow, RecordMayEnd, RecordStores, Looks, Indexed
  <2> QED BY <1>3, <2>1, ShortOrders
<1>6. HasName(<<a, b, c>>, l)
  BY <1>2, <1>3 DEF HasName
<1>7. FitsRecord(<<a, b, c>>, l)
  BY <1>2 DEF FitsRecord
<1>8. \A i \in 1 .. Len(<<a, b, c>>) : <<a, b, c>>[i].id = k
  <2> SUFFICES ASSUME NEW i \in 1 .. Len(<<a, b, c>>)
               PROVE  <<a, b, c>>[i] = a \/ <<a, b, c>>[i] = b \/ <<a, b, c>>[i] = c
    BY <1>2
  <2> QED OBVIOUS
<1>9. FitsAlone(<<a, b, c>>, l)
  BY <1>1, <1>2, <1>8 DEF FitsAlone
<1>10. \A j : MakesRecord(<<a, b, c>>, l, j) => j[1] = "view"
  BY <1>1, <1>8 DEF MakesRecord
<1> QED BY <1>4, <1>5, <1>6, <1>7, <1>9, <1>10, RecordStarts

LEMMA UpdateViewKeeps ==
    ASSUME RecordInv, NEW r \in Requests, NEW k \in Keyed("view", ViewNames), UpdateView(r, k)
    PROVE  RecordInv'
<1>1. k \in RecordKeys /\ k[1] = "view"
  BY DEF RecordKeys, Keyed
<1>2. PICK a, b, n, l : /\ a = [do |-> "recordNeed", id |-> k, how |-> "-"]
                        /\ b = [do |-> "recordSet", id |-> k, how |-> "-"]
                        /\ n = (CHOOSE m \in RecordNames : TRUE) /\ l = RecordLocals(n, FALSE)
  OBVIOUS
<1>3. /\ a \in RecordCommand /\ b \in RecordCommand
      /\ n \in RecordNames /\ l \in RecordLocal /\ l.name = n /\ ~l.makes
      /\ Cmd("recordNeed", k, "-") = <<a>> /\ Cmd("recordSet", k, "-") = <<b>>
  BY <1>1, <1>2, RecordCmds DEF RecordDo
<1>4. AskRecord(r, <<a, b>>, l)
  <2>1. <<a>> \o <<b>> = <<a, b>>
    BY <1>3, ShortLists
  <2> QED BY <1>2, <1>3, <2>1 DEF UpdateView
<1>5. InRecordOrder(<<a, b>>, l) /\ <<a, b>> \in Seq(RecordCommand)
  <2>1. Suits(a, l) /\ RecordMayFollow(a, b) /\ Suits(b, l) /\ RecordMayEnd(b, l)
    BY <1>1, <1>2, <1>3 DEF Suits, RecordMayFollow, RecordMayEnd, RecordStores, Looks, Indexed
  <2> QED BY <1>3, <2>1, ShortOrders
<1>6. HasName(<<a, b>>, l)
  BY <1>2, <1>3 DEF HasName
<1>7. FitsRecord(<<a, b>>, l) /\ \A j : ~MakesRecord(<<a, b>>, l, j)
  BY <1>3 DEF FitsRecord, MakesRecord
<1>8. FitsAlone(<<a, b>>, l)
  BY <1>1, <1>2, <1>3 DEF FitsAlone
<1> QED BY <1>4, <1>5, <1>6, <1>7, <1>8, RecordStarts

LEMMA DeleteViewKeeps ==
    ASSUME RecordInv, NEW r \in Requests, NEW k \in Keyed("view", ViewNames), DeleteView(r, k)
    PROVE  RecordInv'
<1>1. k \in RecordKeys /\ k[1] = "view"
  BY DEF RecordKeys, Keyed
<1>2. PICK a, b, c, l : /\ a = [do |-> "recordNeed", id |-> k, how |-> "-"]
                        /\ b = [do |-> "recordUnlist", id |-> k, how |-> "-"]
                        /\ c = [do |-> "recordDel", id |-> k, how |-> "-"]
                        /\ l = RecordLocals(NoName, FALSE)
  OBVIOUS
<1>3. /\ a \in RecordCommand /\ b \in RecordCommand /\ c \in RecordCommand /\ l \in RecordLocal /\ ~l.makes
      /\ Cmd("recordNeed", k, "-") = <<a>> /\ Cmd("recordUnlist", k, "-") = <<b>> /\ Cmd("recordDel", k, "-") = <<c>>
  BY <1>1, <1>2, RecordCmds DEF RecordDo
<1>4. AskRecord(r, <<a, b, c>>, l)
  <2>1. a \in RecordCommand /\ b \in RecordCommand /\ c \in RecordCommand
    BY <1>3
  <2>2. (<<a>> \o <<b>>) \o <<c>> = <<a, b, c>>
    BY <2>1, ListOfThree
  <2> QED BY <1>2, <1>3, <2>2 DEF DeleteView
<1>5. InRecordOrder(<<a, b, c>>, l) /\ <<a, b, c>> \in Seq(RecordCommand)
  <2>1. Suits(a, l) /\ RecordMayFollow(a, b) /\ Suits(b, l) /\ RecordMayFollow(b, c) /\ Suits(c, l) /\ RecordMayEnd(c, l)
    BY <1>1, <1>2, <1>3 DEF Suits, RecordMayFollow, RecordMayEnd, RecordStores, Looks, Indexed
  <2> QED BY <1>3, <2>1, ShortOrders
<1>6. HasName(<<a, b, c>>, l)
  BY <1>2, <1>3 DEF HasName, Looks
<1>7. FitsRecord(<<a, b, c>>, l) /\ \A j : ~MakesRecord(<<a, b, c>>, l, j)
  BY <1>3 DEF FitsRecord, MakesRecord
<1>8. FitsAlone(<<a, b, c>>, l)
  BY <1>1, <1>2, <1>3 DEF FitsAlone
<1> QED BY <1>4, <1>5, <1>6, <1>7, <1>8, RecordStarts

LEMMA CreateGuardrailKeeps ==
    ASSUME RecordInv, NEW r \in Requests, NEW k \in Keyed("guardrail", GuardrailIds), NEW n \in RecordNames,
           CreateGuardrail(r, k, n)
    PROVE  RecordInv'
<1>1. k \in RecordKeys /\ k[1] = "guardrail"
  BY DEF RecordKeys, Keyed
<1>2. PICK a, b, c, d, l : /\ a = [do |-> "nameFree", id |-> k, how |-> n]
                           /\ b = [do |-> "recordSet", id |-> k, how |-> "-"]
                           /\ c = [do |-> "recordList", id |-> k, how |-> "-"]
                           /\ d = [do |-> "userIndex", id |-> k, how |-> "-"]
                           /\ l = RecordLocals(n, TRUE)
  OBVIOUS
<1>3. /\ a \in RecordCommand /\ b \in RecordCommand /\ c \in RecordCommand /\ d \in RecordCommand
      /\ l \in RecordLocal /\ l.name = n /\ l.makes
      /\ Cmd("nameFree", k, n) = <<a>> /\ Cmd("recordSet", k, "-") = <<b>> /\ Cmd("recordList", k, "-") = <<c>>
      /\ Cmd("userIndex", k, "-") = <<d>>
  <2>1. a \in RecordCommand
    BY <1>1, <1>2, RecordCmds DEF RecordDo
  <2>2. b \in RecordCommand /\ c \in RecordCommand /\ d \in RecordCommand
    BY <1>1, <1>2, RecordCmds DEF RecordDo
  <2>3. l \in RecordLocal /\ l.name = n /\ l.makes
    BY <1>1, <1>2, RecordCmds
  <2> QED BY <1>2, <2>1, <2>2, <2>3 DEF Cmd
<1>4. PICK user \in BOOLEAN : AskRecord(r, ((<<a>> \o <<b>>) \o <<c>>) \o Scope(k, user), l)
  BY <1>2, <1>3 DEF CreateGuardrail
<1>5. /\ Suits(a, l) /\ RecordMayFollow(a, b) /\ Suits(b, l) /\ RecordMayFollow(b, c) /\ Suits(c, l) /\ RecordMayFollow(c, d)
      /\ Suits(d, l) /\ RecordMayEnd(c, l) /\ RecordMayEnd(d, l)
  BY <1>1, <1>2, <1>3 DEF Suits, RecordMayFollow, RecordMayEnd, RecordStores, Looks, Indexed
<1>6. ASSUME NEW t, t # <<>>, t[1] = a, t \in Seq(RecordCommand), InRecordOrder(t, l), AskRecord(r, t, l),
             \A i \in 1 .. Len(t) : t[i].id = k
      PROVE  RecordInv'
  <2>1. HasName(t, l)
    BY <1>2, <1>3, <1>6 DEF HasName
  <2>2. FitsRecord(t, l)
    BY <1>2, <1>6 DEF FitsRecord
  <2>3. FitsAlone(t, l)
    <3>1. (\A i \in 1 .. Len(t) : t[i].id[1] # "goal") /\ t[1].do = "nameFree" /\ t[1].id[1] # "goal"
      BY <1>1, <1>2, <1>6
    <3> QED BY <3>1 DEF FitsAlone
  <2>4. \A j : MakesRecord(t, l, j) => Unused(j)
    BY <1>6 DEF MakesRecord, CreateGuardrail
  <2> QED BY <1>6, <2>1, <2>2, <2>3, <2>4, RecordStarts
<1>7. CASE user
  <2>1. ((<<a>> \o <<b>>) \o <<c>>) \o Scope(k, user) = <<a, b, c, d>>
    <3>1. a \in RecordCommand /\ b \in RecordCommand /\ c \in RecordCommand /\ d \in RecordCommand
      BY <1>3
    <3>2. ((<<a>> \o <<b>>) \o <<c>>) \o <<d>> = <<a, b, c, d>>
      BY <3>1, ListOfFour, SMTT(30)
    <3> QED BY <1>3, <1>7, <3>2 DEF Scope
  <2>2. InRecordOrder(<<a, b, c, d>>, l) /\ <<a, b, c, d>> \in Seq(RecordCommand)
    BY <1>3, <1>5, ShortOrders
  <2>3. \A i \in 1 .. Len(<<a, b, c, d>>) : <<a, b, c, d>>[i].id = k
    <3> SUFFICES ASSUME NEW i \in 1 .. Len(<<a, b, c, d>>)
                 PROVE  <<a, b, c, d>>[i] = a \/ <<a, b, c, d>>[i] = b \/ <<a, b, c, d>>[i] = c \/ <<a, b, c, d>>[i] = d
      BY <1>2
    <3> QED OBVIOUS
  <2> QED BY <1>4, <1>6, <2>1, <2>2, <2>3
<1>8. CASE ~user
  <2>1. (<<a>> \o <<b>>) \o <<c>> = <<a, b, c>>
    BY <1>3, ListOfThree
  <2>2. <<a, b, c>> \o <<>> = <<a, b, c>>
    BY <1>3, ShortLists
  <2>3. InRecordOrder(<<a, b, c>>, l) /\ <<a, b, c>> \in Seq(RecordCommand)
    BY <1>3, <1>5, ShortOrders
  <2>4. \A i \in 1 .. Len(<<a, b, c>>) : <<a, b, c>>[i].id = k
    <3> SUFFICES ASSUME NEW i \in 1 .. Len(<<a, b, c>>)
                 PROVE  <<a, b, c>>[i] = a \/ <<a, b, c>>[i] = b \/ <<a, b, c>>[i] = c
      BY <1>2
    <3> QED OBVIOUS
  <2>5. ((<<a>> \o <<b>>) \o <<c>>) \o Scope(k, user) = <<a, b, c>>
    BY <1>8, <2>1, <2>2 DEF Scope
  <2> QED BY <1>4, <1>6, <2>3, <2>4, <2>5
<1> QED BY <1>7, <1>8

LEMMA UpdateGuardrailKeeps ==
    ASSUME RecordInv, NEW r \in Requests, NEW k \in RecordKeys, k[1] = "guardrail", NEW n \in RecordNames,
           UpdateGuardrail(r, k, n)
    PROVE  RecordInv'
<1>1. PICK a, b, c, l : /\ a = [do |-> "recordNeed", id |-> k, how |-> "-"]
                        /\ b = [do |-> "recordSet", id |-> k, how |-> "-"]
                        /\ c = [do |-> "recordList", id |-> k, how |-> "-"]
                        /\ l = RecordLocals(n, FALSE)
  OBVIOUS
<1>2. /\ a \in RecordCommand /\ b \in RecordCommand /\ c \in RecordCommand
      /\ l \in RecordLocal /\ l.name = n /\ ~l.makes
      /\ Cmd("recordNeed", k, "-") = <<a>> /\ Cmd("recordSet", k, "-") = <<b>> /\ Cmd("recordList", k, "-") = <<c>>
  BY <1>1, RecordCmds DEF RecordDo
<1>3. AskRecord(r, <<a, b, c>>, l)
  <2>1. (<<a>> \o <<b>>) \o <<c>> = <<a, b, c>>
    BY <1>2, ListOfThree
  <2> QED BY <1>1, <1>2, <2>1 DEF UpdateGuardrail
<1>4. InRecordOrder(<<a, b, c>>, l) /\ <<a, b, c>> \in Seq(RecordCommand)
  <2>1. Suits(a, l) /\ RecordMayFollow(a, b) /\ Suits(b, l) /\ RecordMayFollow(b, c) /\ Suits(c, l) /\ RecordMayEnd(c, l)
    BY <1>1, <1>2 DEF Suits, RecordMayFollow, RecordMayEnd, RecordStores, Looks, Indexed
  <2> QED BY <1>2, <2>1, ShortOrders
<1>5. HasName(<<a, b, c>>, l)
  BY <1>1, <1>2 DEF HasName
<1>6. FitsRecord(<<a, b, c>>, l) /\ \A j : ~MakesRecord(<<a, b, c>>, l, j)
  BY <1>2 DEF FitsRecord, MakesRecord
<1>7. FitsAlone(<<a, b, c>>, l)
  BY <1>1, <1>2 DEF FitsAlone
<1> QED BY <1>3, <1>4, <1>5, <1>6, <1>7, RecordStarts

LEMMA DeleteGuardrailKeeps ==
    ASSUME RecordInv, NEW r \in Requests, NEW k \in RecordKeys, k[1] = "guardrail", DeleteGuardrail(r, k)
    PROVE  RecordInv'
<1>1. PICK a, b, c, d, e, l : /\ a = [do |-> "recordNeed", id |-> k, how |-> "-"]
                              /\ b = [do |-> "recordRead", id |-> k, how |-> "-"]
                              /\ c = [do |-> "userIndex", id |-> k, how |-> "-"]
                              /\ d = [do |-> "recordUnlist", id |-> k, how |-> "-"]
                              /\ e = [do |-> "recordDel", id |-> k, how |-> "-"]
                              /\ l = RecordLocals(NoName, FALSE)
  OBVIOUS
<1>2. /\ a \in RecordCommand /\ b \in RecordCommand /\ c \in RecordCommand /\ d \in RecordCommand /\ e \in RecordCommand
      /\ l \in RecordLocal /\ ~l.makes
      /\ Cmd("recordNeed", k, "-") = <<a>> /\ Cmd("recordRead", k, "-") = <<b>> /\ Cmd("userIndex", k, "-") = <<c>>
      /\ Cmd("recordUnlist", k, "-") = <<d>> /\ Cmd("recordDel", k, "-") = <<e>>
  BY <1>1, RecordCmds DEF RecordDo
<1>3. PICK user \in BOOLEAN : AskRecord(r, (((<<a>> \o <<b>>) \o Scope(k, user)) \o <<d>>) \o <<e>>, l)
  BY <1>1, <1>2 DEF DeleteGuardrail
<1>4. /\ Suits(a, l) /\ RecordMayFollow(a, b) /\ Suits(b, l) /\ RecordMayFollow(b, c) /\ Suits(c, l) /\ RecordMayFollow(c, d)
      /\ Suits(d, l) /\ RecordMayFollow(b, d) /\ RecordMayFollow(d, e) /\ Suits(e, l) /\ RecordMayEnd(e, l)
  BY <1>1, <1>2 DEF Suits, RecordMayFollow, RecordMayEnd, RecordStores, Looks, Indexed
<1>5. ASSUME NEW t, t # <<>>, t[1] = a, t[2] = b, t \in Seq(RecordCommand), InRecordOrder(t, l), AskRecord(r, t, l)
      PROVE  RecordInv'
  <2>1. t[1].do = "recordNeed" /\ t[2].do = "recordRead" /\ t[1].id[1] = "guardrail"
    BY <1>1, <1>5
  <2>2. HasName(t, l)
    BY <1>2, <2>1 DEF HasName, Looks
  <2>3. FitsRecord(t, l) /\ \A j : ~MakesRecord(t, l, j)
    BY <1>2 DEF FitsRecord, MakesRecord
  <2>4. FitsAlone(t, l)
    BY <1>2, <2>1 DEF FitsAlone
  <2> QED BY <1>5, <2>2, <2>3, <2>4, RecordStarts
<1>6. CASE user
  <2>1. PICK u, t : u = <<b, c, d, e>> /\ t = <<a>> \o u
    OBVIOUS
  <2>2. (((<<a>> \o <<b>>) \o Scope(k, user)) \o <<d>>) \o <<e>> = t
    <3>1. /\ a \in RecordCommand /\ b \in RecordCommand /\ c \in RecordCommand
          /\ d \in RecordCommand /\ e \in RecordCommand
      BY <1>2
    <3>2. ((<<a>> \o <<b>>) \o <<c>>) \o <<d>> = <<a, b, c, d>>
      BY <3>1, ListOfFour, SMTT(30)
    <3>3. <<a, b, c, d>> \o <<e>> = <<a>> \o <<b, c, d, e>>
      <4>1. PICK x : x = <<a, b, c, d>> \o <<e>>
        OBVIOUS
      <4>2. /\ <<a>> \in Seq(RecordCommand) /\ <<e>> \in Seq(RecordCommand)
            /\ <<a, b, c, d>> \in Seq(RecordCommand) /\ u \in Seq(RecordCommand)
        BY <2>1, <3>1
      <4>3. x \in Seq(RecordCommand) /\ t \in Seq(RecordCommand) /\ Len(x) = 5 /\ Len(t) = 5 /\ \A i \in 1 .. 5 : x[i] = t[i]
        BY <2>1, <4>1, <4>2
      <4>4. x = t
        BY <4>3, SeqEqual
      <4> QED BY <2>1, <4>1, <4>4
    <3> QED BY <1>2, <1>6, <2>1, <3>2, <3>3 DEF Scope
  <2>3. InRecordOrder(u, l) /\ u \in Seq(RecordCommand)
    BY <1>2, <1>4, <2>1, ShortOrders
  <2>4. u # <<>> /\ u[1] = b
    BY <2>1
  <2>5. IF u = <<>> THEN RecordMayEnd(a, l) ELSE RecordMayFollow(a, u[1])
    BY <1>4, <2>4
  <2>6. t \in Seq(RecordCommand) /\ t # <<>> /\ InRecordOrder(t, l) /\ t[1] = a /\ t[2] = b
    <3>1. a \in RecordCommand /\ u \in Seq(RecordCommand) /\ Suits(a, l) /\ InRecordOrder(u, l)
      BY <1>2, <1>4, <2>3
    <3>2. /\ <<a>> \o u \in Seq(RecordCommand) /\ <<a>> \o u # <<>> /\ InRecordOrder(<<a>> \o u, l)
          /\ (<<a>> \o u)[1] = a /\ (<<a>> \o u)[2] = u[1]
      BY <2>4, <2>5, <3>1, RecordBefore
    <3> QED BY <2>1, <2>4, <3>2
  <2> QED BY <1>3, <1>5, <2>2, <2>6
<1>7. CASE ~user
  <2>1. <<a>> \o <<b>> = <<a, b>> /\ <<a, b>> \o <<>> = <<a, b>>
    BY <1>2, ShortLists
  <2>2. ((<<a>> \o <<b>>) \o <<d>>) \o <<e>> = <<a, b, d, e>>
    <3>1. a \in RecordCommand /\ b \in RecordCommand /\ d \in RecordCommand /\ e \in RecordCommand
      BY <1>2
    <3> QED BY <3>1, ListOfFour, SMTT(30)
  <2>3. (((<<a>> \o <<b>>) \o Scope(k, user)) \o <<d>>) \o <<e>> = <<a, b, d, e>>
    BY <1>7, <2>1, <2>2 DEF Scope
  <2>4. InRecordOrder(<<a, b, d, e>>, l) /\ <<a, b, d, e>> \in Seq(RecordCommand)
    BY <1>2, <1>4, ShortOrders
  <2> QED BY <1>3, <1>5, <2>3, <2>4
<1> QED BY <1>6, <1>7

LEMMA CreateGoalKeeps ==
    ASSUME RecordInv, NEW r \in Requests, NEW k \in Keyed("goal", GoalIds), NEW n \in RecordNames, CreateGoal(r, k, n)
    PROVE  RecordInv'
<1>1. k \in RecordKeys /\ k[1] = "goal"
  BY DEF RecordKeys, Keyed
<1>2. PICK a, b, c, d, l : /\ a = [do |-> "goalNone", id |-> k, how |-> n]
                           /\ b = [do |-> "recordSet", id |-> k, how |-> "-"]
                           /\ c = [do |-> "recordList", id |-> k, how |-> "-"]
                           /\ d = [do |-> "goalName", id |-> k, how |-> "-"]
                           /\ l = RecordLocals(n, TRUE)
  OBVIOUS
<1>3. /\ a \in RecordCommand /\ b \in RecordCommand /\ c \in RecordCommand /\ d \in RecordCommand
      /\ l \in RecordLocal /\ l.name = n /\ l.makes
  <2>1. a \in RecordCommand
    BY <1>1, <1>2, RecordCmds DEF RecordDo
  <2>2. b \in RecordCommand /\ c \in RecordCommand /\ d \in RecordCommand
    BY <1>1, <1>2, RecordCmds DEF RecordDo
  <2>3. l \in RecordLocal /\ l.name = n /\ l.makes
    BY <1>1, <1>2, RecordCmds
  <2> QED BY <2>1, <2>2, <2>3
<1>4. Unused(k) /\ AskRecord(r, <<a>> \o ((<<b>> \o <<c>>) \o <<d>>), l)
  BY <1>2 DEF CreateGoal, save_goal_profile, Cmd
<1>5. PICK t : t = <<a, b, c, d>>
  OBVIOUS
<1>6. AskRecord(r, t, l)
  <2>1. a \in RecordCommand /\ b \in RecordCommand /\ c \in RecordCommand /\ d \in RecordCommand
    BY <1>3
  <2>2. <<a>> \o ((<<b>> \o <<c>>) \o <<d>>) = <<a, b, c, d>>
    BY <2>1, ListOfFour, SMTT(30)
  <2> QED BY <1>4, <1>5, <2>2
<1>7. InRecordOrder(t, l) /\ t \in Seq(RecordCommand)
  <2>1. /\ Suits(a, l) /\ RecordMayFollow(a, b) /\ Suits(b, l) /\ RecordMayFollow(b, c) /\ Suits(c, l) /\ RecordMayFollow(c, d)
        /\ Suits(d, l) /\ RecordMayEnd(d, l)
    BY <1>1, <1>2, <1>3 DEF Suits, RecordMayFollow, RecordMayEnd, RecordStores, Looks, Indexed
  <2> QED BY <1>3, <1>5, <2>1, ShortOrders
<1>8. t # <<>> /\ t[1] = a /\ a.do = "goalNone" /\ a.id = k /\ \A i \in 1 .. Len(t) : t[i].id = k
  <2> SUFFICES ASSUME NEW i \in 1 .. Len(t)
               PROVE  t[i] = a \/ t[i] = b \/ t[i] = c \/ t[i] = d
    BY <1>2, <1>5
  <2> QED BY <1>5
<1>9. HasName(t, l)
  BY <1>3, <1>8 DEF HasName
<1>10. FitsRecord(t, l)
  BY <1>8 DEF FitsRecord
<1>11. FitsAlone(t, l)
  <2>1. k \notin recordPast.used
    BY <1>4 DEF Unused
  <2>2. docs[k] = NoName /\ k \notin recordPast.kept
    BY <1>1, <2>1 DEF RecordInv, RecordsTyped
  <2> QED BY <1>8, <2>2 DEF FitsAlone
<1>12. \A j : MakesRecord(t, l, j) => Unused(j)
  BY <1>4, <1>8 DEF MakesRecord
<1> QED BY <1>6, <1>7, <1>9, <1>10, <1>11, <1>12, RecordStarts

LEMMA UpdateGoalKeeps ==
    ASSUME RecordInv, NEW r \in Requests, NEW k \in RecordKeys, k[1] = "goal", UpdateGoal(r, k)
    PROVE  RecordInv'
<1>1. PICK a, b, c, d, l : /\ a = [do |-> "recordRead", id |-> k, how |-> "need"]
                           /\ b = [do |-> "recordSet", id |-> k, how |-> "-"]
                           /\ c = [do |-> "recordList", id |-> k, how |-> "-"]
                           /\ d = [do |-> "goalName", id |-> k, how |-> "-"]
                           /\ l = RecordLocals(NoName, FALSE)
  OBVIOUS
<1>2. /\ a \in RecordCommand /\ b \in RecordCommand /\ c \in RecordCommand /\ d \in RecordCommand
      /\ l \in RecordLocal /\ ~l.makes
  <2>1. a \in RecordCommand
    BY <1>1, RecordCmds
  <2>2. b \in RecordCommand /\ c \in RecordCommand /\ d \in RecordCommand
    BY <1>1, RecordCmds DEF RecordDo
  <2>3. l \in RecordLocal /\ ~l.makes
    BY <1>1, RecordCmds
  <2> QED BY <2>1, <2>2, <2>3
<1>3. AskRecord(r, <<a>> \o ((<<b>> \o <<c>>) \o <<d>>), l)
  BY <1>1 DEF UpdateGoal, save_goal_profile, Cmd
<1>4. PICK t : t = <<a, b, c, d>>
  OBVIOUS
<1>5. AskRecord(r, t, l)
  <2>1. a \in RecordCommand /\ b \in RecordCommand /\ c \in RecordCommand /\ d \in RecordCommand
    BY <1>2
  <2>2. <<a>> \o ((<<b>> \o <<c>>) \o <<d>>) = <<a, b, c, d>>
    BY <2>1, ListOfFour, SMTT(30)
  <2> QED BY <1>3, <1>4, <2>2
<1>6. InRecordOrder(t, l) /\ t \in Seq(RecordCommand)
  <2>1. /\ Suits(a, l) /\ RecordMayFollow(a, b) /\ Suits(b, l) /\ RecordMayFollow(b, c) /\ Suits(c, l) /\ RecordMayFollow(c, d)
        /\ Suits(d, l) /\ RecordMayEnd(d, l)
    BY <1>1, <1>2 DEF Suits, RecordMayFollow, RecordMayEnd, RecordStores, Looks, Indexed
  <2> QED BY <1>2, <1>4, <2>1, ShortOrders
<1>7. t # <<>> /\ t[1].do = "recordRead"
  BY <1>1, <1>4
<1>8. HasName(t, l)
  BY <1>2, <1>7 DEF HasName, Looks
<1>9. FitsRecord(t, l) /\ \A j : ~MakesRecord(t, l, j)
  BY <1>2 DEF FitsRecord, MakesRecord
<1>10. FitsAlone(t, l)
  BY <1>2, <1>7 DEF FitsAlone
<1> QED BY <1>5, <1>6, <1>8, <1>9, <1>10, RecordStarts

LEMMA DeleteGoalKeeps ==
    ASSUME RecordInv, NEW r \in Requests, NEW k \in RecordKeys, k[1] = "goal", DeleteGoal(r, k)
    PROVE  RecordInv'
<1>1. PICK a, b, l : /\ a = [do |-> "goalIndexes", id |-> k, how |-> "-"]
                     /\ b = [do |-> "recordDel", id |-> k, how |-> "-"]
                     /\ l = RecordLocals(NoName, FALSE)
  OBVIOUS
<1>2. a \in RecordCommand /\ b \in RecordCommand /\ l \in RecordLocal /\ ~l.makes
  BY <1>1, RecordCmds DEF RecordDo
<1>3. AskRecord(r, <<a, b>>, l)
  <2>1. <<a>> \o <<b>> = <<a, b>>
    BY <1>2, ShortLists
  <2> QED BY <1>1, <2>1 DEF DeleteGoal, Cmd
<1>4. InRecordOrder(<<a, b>>, l) /\ <<a, b>> \in Seq(RecordCommand)
  <2>1. Suits(a, l) /\ RecordMayFollow(a, b) /\ Suits(b, l) /\ RecordMayEnd(b, l)
    BY <1>1, <1>2 DEF Suits, RecordMayFollow, RecordMayEnd, RecordStores, Looks, Indexed
  <2> QED BY <1>2, <2>1, ShortOrders
<1>5. HasName(<<a, b>>, l)
  BY <1>1, <1>2 DEF HasName, Looks
<1>6. FitsRecord(<<a, b>>, l) /\ \A j : ~MakesRecord(<<a, b>>, l, j)
  BY <1>2 DEF FitsRecord, MakesRecord
<1>7. FitsAlone(<<a, b>>, l)
  BY <1>1, <1>2 DEF FitsAlone
<1> QED BY <1>3, <1>4, <1>5, <1>6, <1>7, RecordStarts

LEMMA RefreshNarrativeKeeps ==
    ASSUME RecordInv, NEW r \in Requests, NEW k \in Keyed("narrative", Narrated), RefreshNarrative(r, k)
    PROVE  RecordInv'
<1>1. k \in RecordKeys /\ k[1] = "narrative"
  BY DEF RecordKeys, Keyed
<1>2. PICK a, b, n, l : /\ a = [do |-> "narrate", id |-> k, how |-> "-"]
                        /\ b = [do |-> "recordSet", id |-> k, how |-> "-"]
                        /\ n = (CHOOSE m \in RecordNames : TRUE) /\ l = RecordLocals(n, TRUE)
  OBVIOUS
<1>3. a \in RecordCommand /\ b \in RecordCommand /\ n \in RecordNames /\ l \in RecordLocal /\ l.name = n /\ l.makes
  BY <1>1, <1>2, RecordCmds DEF RecordDo
<1>4. AskRecord(r, <<a, b>>, l)
  <2>1. <<a>> \o <<b>> = <<a, b>>
    BY <1>3, ShortLists
  <2> QED BY <1>2, <2>1 DEF RefreshNarrative, Cmd
<1>5. InRecordOrder(<<a, b>>, l) /\ <<a, b>> \in Seq(RecordCommand)
  <2>1. Suits(a, l) /\ RecordMayFollow(a, b) /\ Suits(b, l) /\ RecordMayEnd(b, l)
    BY <1>1, <1>2, <1>3 DEF Suits, RecordMayFollow, RecordMayEnd, RecordStores, Looks, Indexed
  <2> QED BY <1>3, <2>1, ShortOrders
<1>6. \A i \in 1 .. Len(<<a, b>>) : <<a, b>>[i].id = k
  <2> SUFFICES ASSUME NEW i \in 1 .. Len(<<a, b>>)
               PROVE  <<a, b>>[i] = a \/ <<a, b>>[i] = b
    BY <1>2
  <2> QED OBVIOUS
<1>7. HasName(<<a, b>>, l)
  BY <1>2, <1>3 DEF HasName
<1>8. FitsRecord(<<a, b>>, l)
  BY <1>2 DEF FitsRecord
<1>9. FitsAlone(<<a, b>>, l)
  BY <1>1, <1>2, <1>6 DEF FitsAlone
<1>10. \A j : MakesRecord(<<a, b>>, l, j) => j[1] = "narrative"
  BY <1>1, <1>6 DEF MakesRecord
<1> QED BY <1>4, <1>5, <1>7, <1>8, <1>9, <1>10, RecordStarts

LEMMA DeleteNarrativeKeeps ==
    ASSUME RecordInv, NEW r \in Requests, NEW k \in Keyed("narrative", Narrated), DeleteNarrative(r, k)
    PROVE  RecordInv'
<1>1. k \in RecordKeys /\ k[1] = "narrative"
  BY DEF RecordKeys, Keyed
<1>2. PICK a, l : a = [do |-> "recordDel", id |-> k, how |-> "-"] /\ l = RecordLocals(NoName, FALSE)
  OBVIOUS
<1>3. a \in RecordCommand /\ l \in RecordLocal /\ ~l.makes
  BY <1>1, <1>2, RecordCmds DEF RecordDo
<1>4. AskRecord(r, <<a>>, l)
  BY <1>2 DEF DeleteNarrative, Cmd
<1>5. InRecordOrder(<<a>>, l) /\ <<a>> \in Seq(RecordCommand)
  <2>1. Suits(a, l) /\ RecordMayEnd(a, l)
    BY <1>1, <1>2, <1>3 DEF Suits, RecordMayEnd, RecordStores, Looks
  <2> QED BY <1>3, <2>1, ShortOrders
<1>6. HasName(<<a>>, l)
  BY <1>2, <1>3 DEF HasName, Looks
<1>7. FitsRecord(<<a>>, l) /\ \A j : ~MakesRecord(<<a>>, l, j)
  BY <1>3 DEF FitsRecord, MakesRecord
<1>8. FitsAlone(<<a>>, l)
  <2>1. k \notin listed /\ \A n \in RecordNames : goalNames[n] # k
    <3>1. k # NoRecord
      BY <1>1, KindsOfKeys
    <3> QED BY <1>1, <3>1 DEF RecordInv, RecordsTyped, Indexed
  <2> QED BY <1>1, <1>2, <1>3, <2>1 DEF FitsAlone
<1> QED BY <1>4, <1>5, <1>6, <1>7, <1>8, RecordStarts

(* A command that stores something is sent. *)
LEMMA RecordSent ==
    ASSUME RecordInv, NEW r \in Requests, NEW do, At(r, do), Done(r)
    PROVE  /\ Moved(r, Tail(request[r].todo), request[r].loc) /\ tally' \in Tallies /\ tally' = tally
           /\ ~tally'.overlapped => ~tally.overlapped /\ \A q \in Busy : q = r
           /\ \A k \in RecordKeys : k[1] \in {"guardrail", "goal"} /\ MakesRecord(Tail(request[r].todo), request[r].loc, k) =>
                 \A q \in Requests \ {r} : ~Makes(q, k)
           /\ \A q \in Requests : \A k : ~tally.overlapped /\ Naming(q, k) =>
                /\ q = r /\ k = request[r].todo[1].id
                /\ (request[r].loc.makes /\ do \in {"recordList", "goalName"}) \/ do = "recordDel"
<1>1. PICK s, l, u : s = request[r].todo /\ l = request[r].loc /\ u = Tail(s)
  OBVIOUS
<1>2. /\ s # <<>> /\ RecordInPlace(s, l) /\ s[1].do = do /\ Moved(r, u, l) /\ tally' = tally
      /\ tally \in Tallies /\ \A q \in Busy : ~tally.overlapped => q = r
  BY <1>1, RecordHead
<1>3. ASSUME NEW k \in RecordKeys, k[1] \in {"guardrail", "goal"}, MakesRecord(u, l, k)
      PROVE  \A q \in Requests \ {r} : ~Makes(q, k)
  <2>1. MakesRecord(s, l, k)
    BY <1>1, <1>2, <1>3, RecordTail
  <2>2. Makes(r, k)
    BY <1>1, <2>1 DEF Makes
  <2> QED BY <1>3, <2>2 DEF RecordInv, OnlyMaker
<1>4. ASSUME NEW q \in Requests, NEW k, ~tally.overlapped, Naming(q, k)
      PROVE  q = r /\ k = s[1].id /\ ((l.makes /\ do \in {"recordList", "goalName"}) \/ do = "recordDel")
  <2>1. q \in Busy
    BY <1>4 DEF Naming, Busy
  <2>2. q = r
    BY <1>2, <1>4, <2>1
  <2> QED BY <1>1, <1>2, <1>4, <2>2 DEF Naming
<1> QED BY <1>1, <1>2, <1>3, <1>4

(* What a command that stores something adds to the past. *)
LEMMA RecordStored ==
    ASSUME RecordInv, NEW r \in Requests, NEW do, At(r, do), NEW doc \in BOOLEAN, recordPast' = Stored(r, doc)
    PROVE  LET k == request[r].todo[1].id  makes == request[r].loc.makes IN
           /\ recordPast' \in [used : SUBSET RecordKeys, kept : SUBSET RecordKeys, doomed : SUBSET RecordKeys,
                       gone : SUBSET RecordKeys, renamed : BOOLEAN]
           /\ recordPast'.used = recordPast.used \cup {k}
           /\ recordPast'.gone = recordPast.gone \ {k}
           /\ recordPast'.kept \subseteq recordPast.kept \cup {k} /\ recordPast'.kept \subseteq recordPast'.used
           /\ ~(makes /\ Tail(request[r].todo) = <<>>) => recordPast'.kept \subseteq recordPast.kept
           /\ ~doc => recordPast'.doomed = recordPast.doomed
           /\ recordPast'.doomed \subseteq recordPast.doomed
           /\ \A j \in recordPast.doomed : j \notin recordPast'.doomed =>
                doc /\ j = k /\ makes /\ (j \in recordPast'.kept => Tail(request[r].todo) = <<>>)
           /\ recordPast'.renamed = (recordPast.renamed \/ (k[1] = "guardrail" /\ ~makes))
<1>1. PICK s, l, u : s = request[r].todo /\ l = request[r].loc /\ u = Tail(s)
  OBVIOUS
<1>2. /\ s # <<>> /\ RecordInPlace(s, l) /\ This(r) = s[1] /\ Rest(r) = u /\ Loc(r) = l /\ s[1].id \in RecordKeys
  BY <1>1, RecordHead
<1>3. l \in RecordLocal /\ u \in Seq(RecordCommand)
  BY <1>1, <1>2, RecordTail
<1>4. Len(u) = 0 <=> u = <<>>
  BY <1>3, EmptySeq
<1>5. PICK k : k = s[1].id
  OBVIOUS
<1>6. PICK reborn : reborn = IF l.makes /\ doc /\ ~BeingDeleted(k) THEN recordPast.doomed \cap {k} ELSE {}
  OBVIOUS
<1>7. recordPast' = [recordPast EXCEPT
       !.used = @ \cup {k}, !.gone = @ \ {k},
       !.kept = (@ \ reborn) \cup IF l.makes /\ Len(u) = 0 THEN {k} ELSE {},
       !.doomed = @ \ reborn,
       !.renamed = @ \/ (k[1] = "guardrail" /\ ~l.makes)]
  BY <1>2, <1>5, <1>6 DEF Stored
<1>8. /\ recordPast \in [used : SUBSET RecordKeys, kept : SUBSET RecordKeys, doomed : SUBSET RecordKeys,
                       gone : SUBSET RecordKeys, renamed : BOOLEAN]
      /\ recordPast.kept \subseteq recordPast.used
  BY DEF RecordInv, RecordsTyped
<1>9. /\ recordPast'.used = recordPast.used \cup {k}
      /\ recordPast'.gone = recordPast.gone \ {k}
      /\ recordPast'.kept = (recordPast.kept \ reborn) \cup IF l.makes /\ Len(u) = 0 THEN {k} ELSE {}
      /\ recordPast'.doomed = recordPast.doomed \ reborn
  BY <1>7, <1>8
<1>10. recordPast'.renamed = (recordPast.renamed \/ (k[1] = "guardrail" /\ ~l.makes))
  BY <1>7, <1>8
<1>11. PICK knew : knew = (recordPast.kept \ reborn) \cup IF l.makes /\ Len(u) = 0 THEN {k} ELSE {}
  OBVIOUS
<1>12. knew \subseteq RecordKeys /\ recordPast.used \cup {k} \subseteq RecordKeys
  BY <1>2, <1>5, <1>8, <1>11
<1>13. PICK b : b = (recordPast.renamed \/ (k[1] = "guardrail" /\ ~l.makes))
  OBVIOUS
<1>14. b \in BOOLEAN
  BY <1>13
<1>15. recordPast' = [used |-> recordPast.used \cup {k}, kept |-> knew, doomed |-> recordPast.doomed \ reborn,
                     gone |-> recordPast.gone \ {k}, renamed |-> b]
  BY <1>7, <1>8, <1>11, <1>13
<1>16. recordPast' \in [used : SUBSET RecordKeys, kept : SUBSET RecordKeys, doomed : SUBSET RecordKeys,
                       gone : SUBSET RecordKeys, renamed : BOOLEAN]
  BY <1>8, <1>12, <1>14, <1>15
<1>17. reborn \subseteq {k} /\ (reborn # {} => l.makes /\ doc)
  BY <1>6
<1>18. ASSUME NEW j \in recordPast.doomed, j \notin recordPast'.doomed
       PROVE  doc /\ j = k /\ l.makes /\ (j \in recordPast'.kept => u = <<>>)
  BY <1>4, <1>9, <1>17, <1>18
<1>19. ~doc => recordPast'.doomed = recordPast.doomed
  BY <1>9, <1>17
<1> QED BY <1>1, <1>4, <1>5, <1>8, <1>9, <1>10, <1>16, <1>18, <1>19

(* Once its document is stored, a new record is listed, and named or put in *)
(* the index of its user.                                                   *)
LEMMA RecordsLast ==
    ASSUME NEW t \in Seq(RecordCommand), NEW l, InRecordOrder(t, l), l.makes, t # <<>>,
           t[1].do \in {"recordList", "goalName", "userIndex"}
    PROVE  \A i \in 1 .. Len(t) : t[i].id = t[1].id /\ t[i].do \in {"recordList", "goalName", "userIndex"}
<1>1. Len(t) \in Nat /\ Len(t) >= 1 /\ 1 \in 1 .. Len(t)
  <2>1. Len(t) \in Nat /\ Len(t) >= 1
    BY RestOfList
  <2> QED BY <2>1
<1>2. \A i \in 1 .. Len(t) : Suits(t[i], l) /\ (i # Len(t) => RecordMayFollow(t[i], t[i + 1]))
  BY DEF InRecordOrder
<1>3. ASSUME NEW i \in 1 .. Len(t), i # Len(t), t[i].do \in {"goalName", "userIndex"}
      PROVE  FALSE
  <2>1. i + 1 \in 1 .. Len(t)
    BY <1>1, <1>3
  <2>2. Suits(t[i + 1], l) /\ RecordMayFollow(t[i], t[i + 1])
    BY <1>2, <1>3, <2>1
  <2> QED BY <1>3, <2>2 DEF Suits, RecordMayFollow, RecordStores, Looks
<1>4. CASE Len(t) = 1
  BY <1>1, <1>4
<1>5. CASE Len(t) # 1
  <2>1. 2 \in 1 .. Len(t) /\ 1 + 1 = 2
    <3>1. PICK n : n = Len(t)
      OBVIOUS
    <3>2. n \in Nat /\ n >= 1 /\ n # 1
      BY <1>1, <1>5, <3>1
    <3>3. 2 \in 1 .. n
      BY <3>2
    <3> QED BY <3>1, <3>3
  <2>2. t[1].do = "recordList" /\ RecordMayFollow(t[1], t[2])
    BY <1>1, <1>2, <1>3, <1>5, <2>1
  <2>3. t[2].do \in {"goalName", "userIndex"} /\ t[2].id = t[1].id
    BY <2>2 DEF RecordMayFollow
  <2>4. 2 = Len(t)
    BY <1>3, <2>1, <2>3
  <2>5. \A i \in 1 .. Len(t) : i = 1 \/ i = 2
    <3>1. \A i \in 1 .. 2 : i = 1 \/ i = 2
      OBVIOUS
    <3> QED BY <2>4, <3>1
  <2> QED BY <2>2, <2>3, <2>5
<1> QED BY <1>4, <1>5

LEMMA RecordSetKeeps ==
    ASSUME RecordInv, NEW r \in Requests, RecordSet(r)
    PROVE  RecordInv'
<1>1. PICK s, l, u, k : s = request[r].todo /\ l = request[r].loc /\ u = Tail(s) /\ k = s[1].id
  OBVIOUS
<1>2. At(r, "recordSet") /\ Done(r) /\ listed' = listed /\ goalNames' = goalNames /\ recordPast' = Stored(r, TRUE)
  BY DEF RecordSet
<1>3. /\ s # <<>> /\ RecordInPlace(s, l) /\ s[1].do = "recordSet" /\ This(r) = s[1] /\ Loc(r) = l /\ k \in RecordKeys
      /\ ~tally.overlapped => AloneStored /\ FitsAlone(s, l)
  BY <1>1, <1>2, RecordHead
<1>4. /\ l \in RecordLocal /\ Suits(s[1], l)
      /\ u \in Seq(RecordCommand) /\ InRecordOrder(u, l)
      /\ u = <<>> => RecordMayEnd(s[1], l)
      /\ u # <<>> => RecordMayFollow(s[1], u[1])
  BY <1>1, <1>3, RecordTail
<1>5. /\ Moved(r, u, l) /\ tally' \in Tallies /\ tally' = tally
      /\ ~tally'.overlapped => ~tally.overlapped /\ \A q \in Busy : q = r
      /\ \A j \in RecordKeys : j[1] \in {"guardrail", "goal"} /\ MakesRecord(u, l, j) =>
            \A q \in Requests \ {r} : ~Makes(q, j)
      /\ \A q \in Requests : \A j : ~(~tally.overlapped /\ Naming(q, j))
  BY <1>1, <1>2, RecordSent
<1>6. l.name \in RecordNames /\ l.name # NoName
  BY <1>3, RecordAssumption DEF RecordInPlace, HasName
<1>7. docs' = [docs EXCEPT ![k] = l.name]
  BY <1>1, <1>3 DEF RecordSet
<1>8. /\ docs \in [RecordKeys -> RecordNames \cup {NoName}]
      /\ docs' \in [RecordKeys -> RecordNames \cup {NoName}]
      /\ docs'[k] = l.name /\ \A j \in RecordKeys : j # k => docs'[j] = docs[j]
  BY <1>3, <1>6, <1>7 DEF RecordInv, RecordsTyped
<1>9. /\ recordPast' \in [used : SUBSET RecordKeys, kept : SUBSET RecordKeys, doomed : SUBSET RecordKeys,
                       gone : SUBSET RecordKeys, renamed : BOOLEAN]
      /\ recordPast'.used = recordPast.used \cup {k}
      /\ recordPast'.gone = recordPast.gone \ {k}
      /\ recordPast'.kept \subseteq recordPast.kept \cup {k} /\ recordPast'.kept \subseteq recordPast'.used
      /\ ~(l.makes /\ u = <<>>) => recordPast'.kept \subseteq recordPast.kept
      /\ recordPast'.doomed \subseteq recordPast.doomed
      /\ \A j \in recordPast.doomed : j \notin recordPast'.doomed =>
            j = k /\ l.makes /\ (j \in recordPast'.kept => u = <<>>)
      /\ recordPast'.renamed = (recordPast.renamed \/ (k[1] = "guardrail" /\ ~l.makes))
  BY <1>1, <1>2, RecordStored
<1>10. RecordsTyped'
  <2>1. /\ listed \in SUBSET {j \in RecordKeys : Indexed(j)}
        /\ goalNames \in [RecordNames -> {j \in RecordKeys : j[1] = "goal"} \cup {NoRecord}]
        /\ \A j \in RecordKeys : docs[j] # NoName => j \in recordPast.used
    BY DEF RecordInv, RecordsTyped
  <2>2. \A j \in RecordKeys : docs'[j] # NoName => j \in recordPast'.used
    BY <1>8, <1>9, <2>1
  <2> QED BY <1>2, <1>8, <1>9, <2>1, <2>2 DEF RecordsTyped
<1>11. u = <<>> => ~l.makes \/ k[1] = "narrative"
  BY <1>1, <1>3, <1>4 DEF RecordMayEnd
<1>12. KeptRecordsStay'
  <2> SUFFICES ASSUME NEW j \in recordPast'.kept, j \notin recordPast'.doomed
               PROVE  docs'[j] # NoName /\ (Indexed(j) => j \in listed)
    BY <1>2 DEF KeptRecordsStay
  <2>1. j \in RecordKeys
    BY <1>9
  <2>2. CASE j \in recordPast.kept /\ j \notin recordPast.doomed
    BY <1>6, <1>8, <2>1, <2>2 DEF RecordInv, KeptRecordsStay
  <2>3. CASE j \notin recordPast.kept
    <3>1. j = k /\ l.makes /\ u = <<>>
      BY <1>9, <2>3
    <3> QED BY <1>6, <1>8, <1>11, <3>1 DEF Indexed
  <2>4. CASE j \in recordPast.doomed
    <3>1. j = k /\ l.makes /\ u = <<>>
      BY <1>9, <2>4
    <3> QED BY <1>6, <1>8, <1>11, <3>1 DEF Indexed
  <2> QED BY <2>2, <2>3, <2>4
<1>13. RecordsKeep(r)
  <2> SUFFICES ASSUME NEW j \in RecordKeys, j \notin recordPast'.doomed
               PROVE  /\ docs[j] # NoName => docs'[j] # NoName
                      /\ j \in recordPast.doomed => docs'[j] # NoName /\ Makes(r, j)
    BY <1>2 DEF RecordsKeep
  <2>1. Len(s) \in Nat /\ Len(s) >= 1
    BY <1>3, RecordTail
  <2>2. 1 \in 1 .. Len(s)
    BY <2>1
  <2>3. l.makes => Makes(r, k)
    BY <1>1, <1>3, <2>2 DEF Makes, MakesRecord, RecordStores
  <2>4. j \in recordPast.doomed => j = k /\ l.makes
    BY <1>9
  <2> QED BY <1>6, <1>8, <2>3, <2>4
<1>14. u # <<>> => u[1].do = "recordList" /\ u[1].id = k
  BY <1>1, <1>3, <1>4 DEF RecordMayFollow
<1>15. RecordInPlace(u, l)'
  <2>1. HasName(u, l)
    BY <1>4, <1>6, <1>14 DEF HasName
  <2>2. FitsRecord(u, l)'
    BY <1>6, <1>8, <1>14 DEF FitsRecord
  <2> QED BY <1>4, <2>1, <2>2 DEF RecordInPlace
<1>16. ASSUME ~tally'.overlapped
       PROVE  AloneStored'
  <2>1. /\ (\A j \in listed : docs[j] # NoName)
        /\ (\A n \in RecordNames : goalNames[n] # NoRecord => docs[goalNames[n]] = n)
        /\ (\A j \in recordPast.gone : docs[j] = NoName)
        /\ (~recordPast.renamed =>
             \A j, g \in listed : j[1] = "guardrail" /\ g[1] = "guardrail" /\ docs[j] = docs[g] => j = g)
        /\ (tally.faults = 0 =>
             \A j \in RecordKeys : j[1] = "goal" /\ docs[j] # NoName =>
               goalNames[docs[j]] = j \/ \E q \in Requests : Naming(q, j))
    BY <1>3, <1>5, <1>16 DEF AloneStored
  <2>2. listed \subseteq RecordKeys /\ recordPast.gone \subseteq RecordKeys
        /\ \A n \in RecordNames : goalNames[n] # NoRecord => goalNames[n] \in RecordKeys /\ goalNames[n][1] = "goal"
    BY DEF RecordInv, RecordsTyped
  <2>3. k[1] = "goal" => IF l.makes THEN docs[k] = NoName ELSE docs[k] = l.name
    <3>1. Len(s) \in Nat /\ Len(s) >= 1
      BY <1>3, RecordTail
    <3>2. 1 \in 1 .. Len(s)
      BY <3>1
    <3> QED BY <1>1, <1>3, <1>5, <1>16, <3>2 DEF FitsAlone
  <2>4. \A j \in listed : docs'[j] # NoName
    BY <1>6, <1>8, <2>1, <2>2
  <2>5. \A n \in RecordNames : goalNames[n] # NoRecord => docs'[goalNames[n]] = n
    <3> SUFFICES ASSUME NEW n \in RecordNames, goalNames[n] = k, k # NoRecord
                 PROVE  docs'[k] = n
      BY <1>8, <2>1, <2>2
    <3>1. docs[k] = n /\ n # NoName /\ k[1] = "goal"
      BY <2>1, <2>2, RecordAssumption
    <3> QED BY <1>8, <2>3, <3>1
  <2>6. \A j \in recordPast'.gone : docs'[j] = NoName
    BY <1>8, <1>9, <2>1, <2>2
  <2>7. ASSUME ~recordPast'.renamed, NEW j \in listed, NEW g \in listed, j[1] = "guardrail", g[1] = "guardrail",
               docs'[j] = docs'[g]
        PROVE  j = g
    <3>1. k[1] = "guardrail" => \A i \in listed : i[1] = "guardrail" /\ i # k => docs[i] # l.name
      BY <1>1, <1>3, <1>5, <1>9, <1>16, <2>7 DEF FitsAlone
    <3>2. ~recordPast.renamed
      BY <1>9, <2>7
    <3> QED BY <1>8, <2>1, <2>2, <2>7, <3>1, <3>2
  <2>8. ASSUME tally'.faults = 0, NEW j \in RecordKeys, j[1] = "goal", docs'[j] # NoName
        PROVE  goalNames[docs'[j]] = j \/ \E q \in Requests : Naming(q, j)'
    <3>1. \A q \in Requests : ~Naming(q, j)
      BY <1>5, <1>16
    <3>2. CASE j # k
      BY <1>5, <1>8, <2>1, <2>8, <3>1, <3>2
    <3>3. CASE j = k /\ ~l.makes
      BY <1>5, <1>8, <2>1, <2>3, <2>8, <3>1, <3>3
    <3>4. CASE j = k /\ l.makes
      <4>1. u # <<>>
        BY <1>11, <2>8, <3>4
      <4>2. request'[r] = [todo |-> u, loc |-> l]
        BY <1>5, <4>1, BusyThen
      <4>3. Naming(r, j)'
        BY <1>14, <3>4, <4>1, <4>2 DEF Naming
      <4> QED BY <4>3
    <3> QED BY <3>2, <3>3, <3>4
  <2> QED BY <1>2, <2>4, <2>5, <2>6, <2>7, <2>8 DEF AloneStored
<1>17. ASSUME ~tally'.overlapped
       PROVE  FitsAlone(u, l)'
  <2>1. CASE u = <<>>
    BY <2>1 DEF FitsAlone
  <2>2. CASE u # <<>>
    <3>1. ~tally.overlapped /\ FitsAlone(s, l)
      BY <1>3, <1>5, <1>17
    <3>2. l.makes => \A i \in 1 .. Len(u) : u[i].id = k /\ u[i].do # "recordSet"
      BY <1>4, <1>14, <2>2, RecordsLast
    <3>3. l.makes /\ k[1] = "goal" => k \notin recordPast.kept
      <4>1. Len(s) \in Nat /\ Len(s) >= 1
        BY <1>3, RecordTail
      <4>2. 1 \in 1 .. Len(s)
        BY <4>1
      <4> QED BY <1>1, <1>3, <3>1, <4>2 DEF FitsAlone
    <3>4. l.makes /\ k[1] = "goal" => k \notin recordPast'.kept
      BY <1>9, <2>2, <3>3
    <3>5. l.makes /\ k[1] = "goal" => goalNames[l.name] = NoRecord
      BY <1>1, <1>3, <3>1 DEF FitsAlone
    <3>6. l.makes /\ k[1] = "guardrail" => \A g \in listed : g[1] = "guardrail" /\ g # k => docs'[g] # l.name
      <4>1. l.makes /\ k[1] = "guardrail" => \A g \in listed : g[1] = "guardrail" /\ g # k => docs[g] # l.name
        BY <1>1, <1>3, <3>1 DEF FitsAlone
      <4>2. listed \subseteq RecordKeys
        BY DEF RecordInv, RecordsTyped
      <4> QED BY <1>8, <4>1, <4>2
    <3> QED BY <1>2, <1>8, <1>14, <3>2, <3>4, <3>5, <3>6 DEF FitsAlone
  <2> QED BY <2>1, <2>2
<1> QED BY <1>5, <1>10, <1>12, <1>13, <1>15, <1>16, <1>17, RecordMoves

LEMMA RecordListKeeps ==
    ASSUME RecordInv, NEW r \in Requests, RecordList(r)
    PROVE  RecordInv'
<1>1. PICK s, l, u, k : s = request[r].todo /\ l = request[r].loc /\ u = Tail(s) /\ k = s[1].id
  OBVIOUS
<1>2. At(r, "recordList") /\ Done(r) /\ docs' = docs /\ goalNames' = goalNames /\ recordPast' = Stored(r, FALSE)
  BY DEF RecordList
<1>3. /\ s # <<>> /\ RecordInPlace(s, l) /\ s[1].do = "recordList" /\ This(r) = s[1] /\ k \in RecordKeys
      /\ ~tally.overlapped => AloneStored /\ FitsAlone(s, l)
  BY <1>1, <1>2, RecordHead
<1>4. /\ l \in RecordLocal /\ Suits(s[1], l)
      /\ u \in Seq(RecordCommand) /\ InRecordOrder(u, l)
      /\ u = <<>> => RecordMayEnd(s[1], l)
      /\ u # <<>> => RecordMayFollow(s[1], u[1]) /\ Suits(u[1], l)
  BY <1>1, <1>3, RecordTail
<1>5. /\ Moved(r, u, l) /\ tally' \in Tallies /\ tally' = tally
      /\ ~tally'.overlapped => ~tally.overlapped /\ \A q \in Busy : q = r
      /\ \A j \in RecordKeys : j[1] \in {"guardrail", "goal"} /\ MakesRecord(u, l, j) =>
            \A q \in Requests \ {r} : ~Makes(q, j)
      /\ \A q \in Requests : \A j : ~tally.overlapped /\ Naming(q, j) => j = k /\ l.makes
  BY <1>1, <1>2, RecordSent
<1>6. l.name \in RecordNames /\ l.name # NoName
  BY <1>3, RecordAssumption DEF RecordInPlace, HasName
<1>7. listed' = listed \cup {k} /\ Indexed(k)
  BY <1>1, <1>3, <1>4 DEF RecordList, Suits
<1>8. /\ recordPast' \in [used : SUBSET RecordKeys, kept : SUBSET RecordKeys, doomed : SUBSET RecordKeys,
                       gone : SUBSET RecordKeys, renamed : BOOLEAN]
      /\ recordPast'.used = recordPast.used \cup {k}
      /\ recordPast'.gone = recordPast.gone \ {k}
      /\ recordPast'.kept \subseteq recordPast.kept \cup {k} /\ recordPast'.kept \subseteq recordPast'.used
      /\ ~(l.makes /\ u = <<>>) => recordPast'.kept \subseteq recordPast.kept
      /\ recordPast'.doomed = recordPast.doomed
      /\ recordPast'.renamed = (recordPast.renamed \/ (k[1] = "guardrail" /\ ~l.makes))
  BY <1>1, <1>2, RecordStored
<1>9. RecordsTyped'
  BY <1>2, <1>3, <1>7, <1>8 DEF RecordInv, RecordsTyped
<1>10. l.makes /\ k \notin recordPast.doomed => docs[k] # NoName
  BY <1>1, <1>3 DEF RecordInPlace, FitsRecord
<1>11. KeptRecordsStay'
  <2> SUFFICES ASSUME NEW j \in recordPast'.kept, j \notin recordPast.doomed
               PROVE  docs[j] # NoName /\ (Indexed(j) => j \in listed')
    BY <1>2, <1>8 DEF KeptRecordsStay
  <2>1. CASE j \in recordPast.kept
    BY <1>7, <2>1 DEF RecordInv, KeptRecordsStay
  <2>2. CASE j \notin recordPast.kept
    BY <1>7, <1>8, <1>10, <2>2
  <2> QED BY <2>1, <2>2
<1>12. RecordsKeep(r)
  BY <1>2, <1>7, <1>8 DEF RecordsKeep
<1>13. u # <<>> => u[1].do \in {"goalName", "userIndex"} /\ u[1].id = k
  BY <1>1, <1>3, <1>4 DEF RecordMayFollow
<1>14. RecordInPlace(u, l)'
  <2>1. HasName(u, l)
    BY <1>4, <1>6, <1>13 DEF HasName
  <2>2. FitsRecord(u, l)'
    BY <1>2, <1>7, <1>8, <1>10, <1>13 DEF FitsRecord
  <2> QED BY <1>4, <2>1, <2>2 DEF RecordInPlace
<1>15. ASSUME ~tally'.overlapped
       PROVE  AloneStored'
  <2>1. /\ (\A j \in listed : docs[j] # NoName)
        /\ (\A n \in RecordNames : goalNames[n] # NoRecord => docs[goalNames[n]] = n)
        /\ (\A j \in recordPast.gone : docs[j] = NoName)
        /\ (~recordPast.renamed =>
             \A j, g \in listed : j[1] = "guardrail" /\ g[1] = "guardrail" /\ docs[j] = docs[g] => j = g)
        /\ (tally.faults = 0 =>
             \A j \in RecordKeys : j[1] = "goal" /\ docs[j] # NoName =>
               goalNames[docs[j]] = j \/ \E q \in Requests : Naming(q, j))
    BY <1>3, <1>5, <1>15 DEF AloneStored
  <2>2. docs[k] = l.name
    BY <1>1, <1>3, <1>5, <1>15 DEF FitsAlone
  <2>3. ASSUME ~recordPast'.renamed, NEW j \in listed', NEW g \in listed', j[1] = "guardrail", g[1] = "guardrail",
               docs[j] = docs[g]
        PROVE  j = g
    <3>1. k[1] = "guardrail" => \A i \in listed : i[1] = "guardrail" /\ i # k => docs[i] # l.name
      BY <1>1, <1>3, <1>5, <1>8, <1>15, <2>3 DEF FitsAlone
    <3>2. ~recordPast.renamed
      BY <1>8, <2>3
    <3> QED BY <1>7, <2>1, <2>2, <2>3, <3>1, <3>2
  <2>4. ASSUME tally'.faults = 0, NEW j \in RecordKeys, j[1] = "goal", docs[j] # NoName
        PROVE  goalNames[docs[j]] = j \/ \E q \in Requests : Naming(q, j)'
    <3> SUFFICES ASSUME NEW q \in Requests, Naming(q, j)
                 PROVE  Naming(r, j)'
      BY <1>5, <2>1, <2>4
    <3>1. j = k /\ l.makes
      BY <1>5, <1>15
    <3>2. u # <<>>
      BY <1>1, <1>3, <1>4, <2>4, <3>1 DEF RecordMayEnd
    <3>3. request'[r] = [todo |-> u, loc |-> l]
      BY <1>5, <3>2, BusyThen
    <3>4. u[1].do = "goalName"
      BY <1>4, <1>13, <2>4, <3>1, <3>2 DEF Suits
    <3> QED BY <1>13, <3>1, <3>2, <3>3, <3>4 DEF Naming
  <2>5. \A j \in listed' : docs[j] # NoName
    BY <1>6, <1>7, <2>1, <2>2
  <2>6. \A j \in recordPast'.gone : docs[j] = NoName
    BY <1>8, <2>1
  <2> QED BY <1>2, <2>1, <2>3, <2>4, <2>5, <2>6 DEF AloneStored
<1>16. ASSUME ~tally'.overlapped
       PROVE  FitsAlone(u, l)'
  <2>1. CASE u = <<>>
    BY <2>1 DEF FitsAlone
  <2>2. CASE u # <<>>
    <3>1. ~tally.overlapped /\ FitsAlone(s, l)
      BY <1>3, <1>5, <1>16
    <3>2. l.makes => \A i \in 1 .. Len(u) : u[i].id = k /\ u[i].do # "recordSet"
      BY <1>4, <1>13, <2>2, RecordsLast
    <3>3. l.makes /\ k[1] = "goal" => k \notin recordPast.kept
      <4>1. Len(s) \in Nat /\ Len(s) >= 1
        BY <1>3, RecordTail
      <4>2. 1 \in 1 .. Len(s)
        BY <4>1
      <4> QED BY <1>1, <1>3, <3>1, <4>2 DEF FitsAlone
    <3>4. l.makes /\ k[1] = "goal" => k \notin recordPast'.kept
      BY <1>8, <2>2, <3>3
    <3>5. (l.makes /\ k[1] = "goal" => goalNames[l.name] = NoRecord) /\ docs[k] = l.name
      BY <1>1, <1>3, <3>1 DEF FitsAlone
    <3> QED BY <1>2, <1>13, <3>2, <3>4, <3>5 DEF FitsAlone
  <2> QED BY <2>1, <2>2
<1> QED BY <1>5, <1>9, <1>11, <1>12, <1>14, <1>15, <1>16, RecordMoves

LEMMA GoalNameKeeps ==
    ASSUME RecordInv, NEW r \in Requests, GoalName(r)
    PROVE  RecordInv'
<1>1. PICK s, l, u, k : s = request[r].todo /\ l = request[r].loc /\ u = Tail(s) /\ k = s[1].id
  OBVIOUS
<1>2. At(r, "goalName") /\ Done(r) /\ docs' = docs /\ listed' = listed /\ recordPast' = Stored(r, FALSE)
  BY DEF GoalName
<1>3. /\ s # <<>> /\ RecordInPlace(s, l) /\ s[1].do = "goalName" /\ This(r) = s[1] /\ Loc(r) = l /\ k \in RecordKeys
      /\ ~tally.overlapped => AloneStored /\ FitsAlone(s, l)
  BY <1>1, <1>2, RecordHead
<1>4. l \in RecordLocal /\ k[1] = "goal" /\ u = <<>>
  <2>1. l \in RecordLocal /\ Suits(s[1], l) /\ (u # <<>> => RecordMayFollow(s[1], u[1]))
    BY <1>1, <1>3, RecordTail
  <2> QED BY <1>1, <1>3, <2>1 DEF Suits, RecordMayFollow
<1>5. /\ Moved(r, u, l) /\ tally' \in Tallies /\ tally' = tally
      /\ ~tally'.overlapped => ~tally.overlapped /\ \A q \in Busy : q = r
      /\ \A q \in Requests : \A j : ~tally.overlapped /\ Naming(q, j) => j = k /\ l.makes
  BY <1>1, <1>2, RecordSent
<1>6. l.name \in RecordNames
  BY <1>3 DEF RecordInPlace, HasName
<1>7. goalNames' = [goalNames EXCEPT ![l.name] = k]
  BY <1>1, <1>3 DEF GoalName
<1>8. /\ goalNames' \in [RecordNames -> {j \in RecordKeys : j[1] = "goal"} \cup {NoRecord}]
      /\ goalNames'[l.name] = k /\ \A n \in RecordNames : n # l.name => goalNames'[n] = goalNames[n]
  BY <1>3, <1>4, <1>6, <1>7 DEF RecordInv, RecordsTyped
<1>9. /\ recordPast' \in [used : SUBSET RecordKeys, kept : SUBSET RecordKeys, doomed : SUBSET RecordKeys,
                       gone : SUBSET RecordKeys, renamed : BOOLEAN]
      /\ recordPast'.used = recordPast.used \cup {k}
      /\ recordPast'.gone = recordPast.gone \ {k}
      /\ recordPast'.kept \subseteq recordPast.kept \cup {k} /\ recordPast'.kept \subseteq recordPast'.used
      /\ ~l.makes => recordPast'.kept \subseteq recordPast.kept
      /\ recordPast'.doomed = recordPast.doomed
      /\ recordPast'.renamed = (recordPast.renamed \/ (k[1] = "guardrail" /\ ~l.makes))
  BY <1>1, <1>2, RecordStored
<1>10. RecordsTyped'
  BY <1>2, <1>8, <1>9 DEF RecordInv, RecordsTyped
<1>11. l.makes /\ k \notin recordPast.doomed => docs[k] # NoName /\ k \in listed
  BY <1>1, <1>3 DEF RecordInPlace, FitsRecord
<1>12. KeptRecordsStay'
  <2> SUFFICES ASSUME NEW j \in recordPast'.kept, j \notin recordPast.doomed
               PROVE  docs[j] # NoName /\ (Indexed(j) => j \in listed)
    BY <1>2, <1>9 DEF KeptRecordsStay
  <2>1. CASE j \in recordPast.kept
    BY <2>1 DEF RecordInv, KeptRecordsStay
  <2>2. CASE j \notin recordPast.kept
    BY <1>9, <1>11, <2>2
  <2> QED BY <2>1, <2>2
<1>13. RecordsKeep(r)
  BY <1>2, <1>9 DEF RecordsKeep
<1>14. RecordInPlace(u, l)' /\ FitsAlone(u, l)'
  BY <1>4 DEF RecordInPlace, InRecordOrder, HasName, FitsRecord, FitsAlone
<1>15. ASSUME ~tally'.overlapped
       PROVE  AloneStored'
  <2>1. /\ (\A j \in listed : docs[j] # NoName)
        /\ (\A n \in RecordNames : goalNames[n] # NoRecord => docs[goalNames[n]] = n)
        /\ (\A j \in recordPast.gone : docs[j] = NoName)
        /\ (~recordPast.renamed =>
             \A j, g \in listed : j[1] = "guardrail" /\ g[1] = "guardrail" /\ docs[j] = docs[g] => j = g)
        /\ (tally.faults = 0 =>
             \A j \in RecordKeys : j[1] = "goal" /\ docs[j] # NoName =>
               goalNames[docs[j]] = j \/ \E q \in Requests : Naming(q, j))
    BY <1>3, <1>5, <1>15 DEF AloneStored
  <2>2. docs[k] = l.name /\ (l.makes => goalNames[l.name] = NoRecord)
    BY <1>1, <1>3, <1>4, <1>5, <1>15 DEF FitsAlone
  <2>3. \A n \in RecordNames : goalNames'[n] # NoRecord => docs[goalNames'[n]] = n
    BY <1>8, <2>1, <2>2
  <2>4. ASSUME tally'.faults = 0, NEW j \in RecordKeys, j[1] = "goal", docs[j] # NoName, j # k
        PROVE  goalNames'[docs[j]] = j
    <3>1. \A q \in Requests : ~Naming(q, j)
      BY <1>5, <1>15, <2>4
    <3>2. goalNames[docs[j]] = j /\ docs[j] \in RecordNames
      BY <1>5, <2>1, <2>4, <3>1 DEF RecordInv, RecordsTyped
    <3>3. docs[j] # l.name
      <4> SUFFICES ASSUME docs[j] = l.name
                   PROVE  FALSE
        OBVIOUS
      <4>1. ~l.makes
        <5>1. j # NoRecord
          BY <2>4, KindsOfKeys
        <5> QED BY <2>2, <3>2, <5>1
      <4>2. \A q \in Requests : ~Naming(q, k)
        BY <1>5, <1>15, <4>1
      <4>3. goalNames[docs[k]] = k
        BY <1>3, <1>4, <1>5, <1>6, <2>1, <2>2, <2>4, <4>2
      <4> QED BY <2>2, <2>4, <3>2, <4>3
    <3> QED BY <1>8, <3>2, <3>3
  <2>5. tally'.faults = 0 =>
          \A j \in RecordKeys : j[1] = "goal" /\ docs[j] # NoName => goalNames'[docs[j]] = j
    BY <1>8, <2>2, <2>4
  <2>6. \A j \in recordPast'.gone : docs[j] = NoName
    BY <1>9, <2>1
  <2>7. recordPast'.renamed = recordPast.renamed
    BY <1>4, <1>9 DEF RecordInv, RecordsTyped
  <2> QED BY <1>2, <2>1, <2>3, <2>5, <2>6, <2>7 DEF AloneStored
<1>16. \A j : ~MakesRecord(u, l, j)
  BY <1>4 DEF MakesRecord
<1> QED BY <1>5, <1>10, <1>12, <1>13, <1>14, <1>15, <1>16, RecordMoves

LEMMA UserIndexKeeps ==
    ASSUME RecordInv, NEW r \in Requests, UserIndex(r)
    PROVE  RecordInv'
<1>1. PICK s, l, u, k : s = request[r].todo /\ l = request[r].loc /\ u = Tail(s) /\ k = s[1].id
  OBVIOUS
<1>2. At(r, "userIndex") /\ Done(r) /\ docs' = docs /\ listed' = listed /\ goalNames' = goalNames
  BY DEF UserIndex
<1>3. /\ s # <<>> /\ RecordInPlace(s, l) /\ s[1].do = "userIndex" /\ This(r) = s[1] /\ Loc(r) = l /\ k \in RecordKeys
      /\ Rest(r) = u
      /\ ~tally.overlapped => AloneStored /\ FitsAlone(s, l)
  BY <1>1, <1>2, RecordHead
<1>4. /\ l \in RecordLocal /\ Suits(s[1], l)
      /\ u \in Seq(RecordCommand) /\ InRecordOrder(u, l)
      /\ u # <<>> => RecordMayFollow(s[1], u[1]) /\ Suits(u[1], l)
  BY <1>1, <1>3, RecordTail
<1>5. k[1] = "guardrail" /\ (u # <<>> => ~l.makes /\ u[1].do = "recordUnlist" /\ u[1].id = k)
  BY <1>1, <1>3, <1>4 DEF Suits, RecordMayFollow, RecordStores, Looks
<1>6. CASE ~l.makes
  <2>1. UNCHANGED recordVars
    BY <1>2, <1>3, <1>6 DEF UserIndex, recordVars
  <2>2. HasName(u, l)
    BY <1>4, <1>5 DEF HasName, Looks
  <2>3. RecordInPlace(u, l)
    BY <1>4, <1>6, <2>2 DEF RecordInPlace, FitsRecord
  <2>4. FitsAlone(u, l)
    BY <1>5, <1>6 DEF FitsAlone
  <2>5. Sent(r, l)
    BY <1>2, <1>3 DEF Done
  <2> QED BY <1>1, <1>2, <1>4, <2>1, <2>3, <2>4, <2>5, RecordLooked
<1>7. CASE l.makes
  <2>1. recordPast' = Stored(r, FALSE) /\ u = <<>>
    BY <1>3, <1>5, <1>7 DEF UserIndex
  <2>2. /\ Moved(r, u, l) /\ tally' \in Tallies /\ tally' = tally
        /\ ~tally'.overlapped => ~tally.overlapped /\ \A q \in Busy : q = r
        /\ \A q \in Requests : \A j : ~(~tally.overlapped /\ Naming(q, j))
    BY <1>1, <1>2, RecordSent
  <2>3. /\ recordPast' \in [used : SUBSET RecordKeys, kept : SUBSET RecordKeys, doomed : SUBSET RecordKeys,
                         gone : SUBSET RecordKeys, renamed : BOOLEAN]
        /\ recordPast'.used = recordPast.used \cup {k}
        /\ recordPast'.gone = recordPast.gone \ {k}
        /\ recordPast'.kept \subseteq recordPast.kept \cup {k} /\ recordPast'.kept \subseteq recordPast'.used
        /\ recordPast'.doomed = recordPast.doomed
        /\ recordPast'.renamed = (recordPast.renamed \/ (k[1] = "guardrail" /\ ~l.makes))
    BY <1>1, <1>2, <2>1, RecordStored
  <2>4. RecordsTyped'
    BY <1>2, <2>3 DEF RecordInv, RecordsTyped
  <2>5. KeptRecordsStay'
    <3> SUFFICES ASSUME NEW j \in recordPast'.kept, j \notin recordPast.doomed
                 PROVE  docs[j] # NoName /\ (Indexed(j) => j \in listed)
      BY <1>2, <2>3 DEF KeptRecordsStay
    <3>1. CASE j \in recordPast.kept
      BY <3>1 DEF RecordInv, KeptRecordsStay
    <3>2. CASE j = k
      BY <1>1, <1>3, <1>7, <3>2 DEF RecordInPlace, FitsRecord
    <3> QED BY <2>3, <3>1, <3>2
  <2>6. RecordsKeep(r)
    BY <1>2, <2>3 DEF RecordsKeep
  <2>7. RecordInPlace(u, l)' /\ FitsAlone(u, l)' /\ \A j : ~MakesRecord(u, l, j)
    BY <2>1 DEF RecordInPlace, InRecordOrder, HasName, FitsRecord, FitsAlone, MakesRecord
  <2>8. ASSUME ~tally'.overlapped
        PROVE  AloneStored'
    <3>1. AloneStored /\ \A q \in Requests : \A j : ~Naming(q, j)
      BY <1>3, <2>2, <2>8
    <3>2. recordPast'.renamed = recordPast.renamed
      BY <1>7, <2>3 DEF RecordInv, RecordsTyped
    <3> QED BY <1>2, <2>2, <2>3, <3>1, <3>2 DEF AloneStored
  <2> QED BY <2>2, <2>4, <2>5, <2>6, <2>7, <2>8, RecordMoves
<1> QED BY <1>6, <1>7

LEMMA RecordUnlistKeeps ==
    ASSUME RecordInv, NEW r \in Requests, RecordUnlist(r)
    PROVE  RecordInv'
<1>1. PICK s, l, u, k : s = request[r].todo /\ l = request[r].loc /\ u = Tail(s) /\ k = s[1].id
  OBVIOUS
<1>2. At(r, "recordUnlist") /\ Done(r) /\ docs' = docs /\ goalNames' = goalNames
  BY DEF RecordUnlist
<1>3. /\ s # <<>> /\ RecordInPlace(s, l) /\ s[1].do = "recordUnlist" /\ This(r) = s[1] /\ k \in RecordKeys
      /\ ~tally.overlapped => AloneStored /\ FitsAlone(s, l)
  BY <1>1, <1>2, RecordHead
<1>4. /\ l \in RecordLocal /\ Suits(s[1], l) /\ u \in Seq(RecordCommand) /\ InRecordOrder(u, l)
      /\ u # <<>> /\ RecordMayFollow(s[1], u[1]) /\ u[1] = s[2]
  BY <1>1, <1>3, RecordTail DEF RecordMayEnd
<1>5. /\ Moved(r, u, l) /\ tally' \in Tallies /\ tally' = tally
      /\ ~tally'.overlapped => ~tally.overlapped /\ \A q \in Busy : q = r
      /\ \A q \in Requests : \A j : ~(~tally.overlapped /\ Naming(q, j))
  BY <1>1, <1>2, RecordSent
<1>6. ~l.makes /\ u[1].id = k /\ u[1].do = IF k[1] = "goal" THEN "goalUnname" ELSE "recordDel"
  BY <1>1, <1>3, <1>4 DEF Suits, RecordMayFollow, RecordStores, Looks
<1>7. listed' = listed \ {k} /\ recordPast' = [recordPast EXCEPT !.doomed = @ \cup {k}]
  BY <1>1, <1>3 DEF RecordUnlist, Doomed
<1>8. /\ recordPast' \in [used : SUBSET RecordKeys, kept : SUBSET RecordKeys, doomed : SUBSET RecordKeys,
                       gone : SUBSET RecordKeys, renamed : BOOLEAN]
      /\ recordPast'.used = recordPast.used /\ recordPast'.gone = recordPast.gone /\ recordPast'.kept = recordPast.kept
      /\ recordPast'.doomed = recordPast.doomed \cup {k} /\ recordPast'.renamed = recordPast.renamed
  BY <1>3, <1>7 DEF RecordInv, RecordsTyped
<1>9. RecordsTyped'
  BY <1>2, <1>7, <1>8 DEF RecordInv, RecordsTyped
<1>10. KeptRecordsStay'
  BY <1>2, <1>7, <1>8 DEF RecordInv, KeptRecordsStay
<1>11. RecordsKeep(r)
  BY <1>2, <1>7, <1>8 DEF RecordsKeep
<1>12. RecordInPlace(u, l)' /\ \A j : ~MakesRecord(u, l, j)
  <2>1. HasName(u, l)
    BY <1>4, <1>6 DEF HasName, Looks
  <2> QED BY <1>4, <1>6, <2>1 DEF RecordInPlace, FitsRecord, MakesRecord
<1>13. ASSUME ~tally'.overlapped
       PROVE  AloneStored' /\ FitsAlone(u, l)'
  <2>1. AloneStored /\ FitsAlone(s, l) /\ \A q \in Requests : \A j : ~Naming(q, j)
    BY <1>3, <1>5, <1>13
  <2>2. AloneStored'
    BY <1>2, <1>5, <1>7, <1>8, <2>1 DEF AloneStored
  <2>3. CASE k[1] = "goal"
    <3>1. u[1].how = docs[k] /\ docs[k] \in RecordNames
      BY <1>1, <1>3, <1>4, <2>1, <2>3 DEF FitsAlone
    <3> QED BY <1>2, <1>6, <1>7, <1>8, <2>2, <2>3, <3>1 DEF FitsAlone
  <2>4. CASE k[1] # "goal"
    <3>1. \A n \in RecordNames : goalNames[n] # k
      <4>1. k # NoRecord
        BY <1>3, KindsOfKeys
      <4> QED BY <2>4, <4>1 DEF RecordInv, RecordsTyped
    <3> QED BY <1>2, <1>6, <1>7, <1>8, <2>2, <2>4, <3>1 DEF FitsAlone
  <2> QED BY <2>3, <2>4
<1> QED BY <1>5, <1>9, <1>10, <1>11, <1>12, <1>13, RecordMoves

LEMMA GoalUnnameKeeps ==
    ASSUME RecordInv, NEW r \in Requests, GoalUnname(r)
    PROVE  RecordInv'
<1>1. PICK s, l, u, k : s = request[r].todo /\ l = request[r].loc /\ u = Tail(s) /\ k = s[1].id
  OBVIOUS
<1>2. At(r, "goalUnname") /\ Done(r) /\ docs' = docs /\ listed' = listed /\ recordPast' = recordPast
  BY DEF GoalUnname
<1>3. /\ s # <<>> /\ RecordInPlace(s, l) /\ s[1].do = "goalUnname" /\ This(r) = s[1] /\ k \in RecordKeys
      /\ ~tally.overlapped => AloneStored /\ FitsAlone(s, l)
  BY <1>1, <1>2, RecordHead
<1>4. /\ l \in RecordLocal /\ Suits(s[1], l) /\ u \in Seq(RecordCommand) /\ InRecordOrder(u, l)
      /\ u # <<>> /\ RecordMayFollow(s[1], u[1])
  BY <1>1, <1>3, RecordTail DEF RecordMayEnd
<1>5. /\ Moved(r, u, l) /\ tally' \in Tallies /\ tally' = tally
      /\ ~tally'.overlapped => ~tally.overlapped /\ \A q \in Busy : q = r
      /\ \A q \in Requests : \A j : ~(~tally.overlapped /\ Naming(q, j))
  BY <1>1, <1>2, RecordSent
<1>6. ~l.makes /\ u[1].id = k /\ u[1].do = "recordDel" /\ k[1] = "goal"
  BY <1>1, <1>3, <1>4 DEF Suits, RecordMayFollow, RecordStores, Looks
<1>7. PICK n : n = s[1].how
  OBVIOUS
<1>8. goalNames' = [goalNames EXCEPT ![n] = NoRecord]
  BY <1>1, <1>3, <1>7 DEF GoalUnname
<1>9. /\ goalNames' \in [RecordNames -> {j \in RecordKeys : j[1] = "goal"} \cup {NoRecord}]
      /\ \A m \in RecordNames : goalNames'[m] = IF m = n THEN NoRecord ELSE goalNames[m]
  BY <1>8 DEF RecordInv, RecordsTyped
<1>10. RecordsTyped' /\ KeptRecordsStay' /\ RecordsKeep(r)
  BY <1>2, <1>9 DEF RecordInv, RecordsTyped, KeptRecordsStay, RecordsKeep
<1>11. RecordInPlace(u, l)' /\ \A j : ~MakesRecord(u, l, j)
  <2>1. HasName(u, l)
    BY <1>4, <1>6 DEF HasName, Looks
  <2> QED BY <1>4, <1>6, <2>1 DEF RecordInPlace, FitsRecord, MakesRecord
<1>12. ASSUME ~tally'.overlapped
       PROVE  AloneStored' /\ FitsAlone(u, l)'
  <2>1. AloneStored /\ FitsAlone(s, l) /\ \A q \in Requests : \A j : ~Naming(q, j)
    BY <1>3, <1>5, <1>12
  <2>2. k \notin listed /\ n = docs[k] /\ n \in RecordNames /\ k \in recordPast.doomed /\ n # NoName
    BY <1>1, <1>3, <1>7, <2>1, RecordAssumption DEF FitsAlone
  <2>3. \A m \in RecordNames : goalNames'[m] # NoRecord => docs[goalNames'[m]] = m
    BY <1>9, <2>1 DEF AloneStored
  <2>4. ASSUME tally'.faults = 0, NEW j \in RecordKeys, j[1] = "goal", docs[j] # NoName
        PROVE  goalNames'[docs[j]] = j \/ \E q \in Requests : Naming(q, j)'
    <3>1. goalNames[docs[j]] = j /\ docs[j] \in RecordNames
      BY <1>5, <2>1, <2>4 DEF AloneStored, RecordInv, RecordsTyped
    <3>2. goalNames[n] = k
      BY <1>3, <1>5, <1>6, <2>1, <2>2, <2>4 DEF AloneStored
    <3>3. CASE j = k
      <4>1. request'[r] = [todo |-> u, loc |-> l]
        BY <1>4, <1>5, BusyThen
      <4> QED BY <1>4, <1>6, <3>3, <4>1 DEF Naming
    <3>4. CASE j # k
      BY <1>9, <3>1, <3>2, <3>4
    <3> QED BY <3>3, <3>4
  <2>5. AloneStored'
    BY <1>2, <2>1, <2>3, <2>4 DEF AloneStored
  <2>6. \A m \in RecordNames : goalNames'[m] # k
    <3>1. k # NoRecord
      BY <1>3, KindsOfKeys
    <3> QED BY <1>9, <2>1, <2>2, <3>1 DEF AloneStored
  <2> QED BY <1>2, <1>6, <2>2, <2>5, <2>6 DEF FitsAlone
<1> QED BY <1>5, <1>10, <1>11, <1>12, RecordMoves

LEMMA RecordDelKeeps ==
    ASSUME RecordInv, NEW r \in Requests, RecordDel(r)
    PROVE  RecordInv'
<1>1. PICK s, l, u, k : s = request[r].todo /\ l = request[r].loc /\ u = Tail(s) /\ k = s[1].id
  OBVIOUS
<1>2. At(r, "recordDel") /\ Done(r) /\ listed' = listed /\ goalNames' = goalNames
  BY DEF RecordDel
<1>3. /\ s # <<>> /\ RecordInPlace(s, l) /\ s[1].do = "recordDel" /\ This(r) = s[1] /\ k \in RecordKeys
      /\ ~tally.overlapped => AloneStored /\ FitsAlone(s, l)
  BY <1>1, <1>2, RecordHead
<1>4. u = <<>>
  <2>1. u # <<>> => RecordMayFollow(s[1], u[1])
    BY <1>1, <1>3, RecordTail
  <2> QED BY <1>3, <2>1 DEF RecordMayFollow
<1>5. /\ Moved(r, u, l) /\ tally' \in Tallies /\ tally' = tally
      /\ ~tally'.overlapped => ~tally.overlapped /\ \A q \in Busy : q = r
      /\ \A q \in Requests : \A j : ~tally.overlapped /\ Naming(q, j) => j = k
  BY <1>1, <1>2, RecordSent
<1>6. /\ docs' = [docs EXCEPT ![k] = NoName]
      /\ recordPast' = [[recordPast EXCEPT !.doomed = @ \cup {k}] EXCEPT !.kept = @ \ {k}, !.gone = @ \cup {k}]
  BY <1>1, <1>3 DEF RecordDel, Doomed
<1>7. /\ recordPast' \in [used : SUBSET RecordKeys, kept : SUBSET RecordKeys, doomed : SUBSET RecordKeys,
                       gone : SUBSET RecordKeys, renamed : BOOLEAN]
      /\ recordPast'.used = recordPast.used /\ recordPast'.gone = recordPast.gone \cup {k}
      /\ recordPast'.kept = recordPast.kept \ {k}
      /\ recordPast'.doomed = recordPast.doomed \cup {k} /\ recordPast'.renamed = recordPast.renamed
  BY <1>3, <1>6 DEF RecordInv, RecordsTyped
<1>8. /\ docs' \in [RecordKeys -> RecordNames \cup {NoName}]
      /\ docs'[k] = NoName /\ \A j \in RecordKeys : j # k => docs'[j] = docs[j]
  BY <1>3, <1>6 DEF RecordInv, RecordsTyped
<1>9. RecordsTyped'
  BY <1>2, <1>7, <1>8 DEF RecordInv, RecordsTyped
<1>10. KeptRecordsStay' /\ RecordsKeep(r)
  BY <1>2, <1>7, <1>8 DEF RecordInv, KeptRecordsStay, RecordsKeep
<1>11. RecordInPlace(u, l)' /\ FitsAlone(u, l)' /\ \A j : ~MakesRecord(u, l, j)
  BY <1>4 DEF RecordInPlace, InRecordOrder, HasName, FitsRecord, FitsAlone, MakesRecord
<1>12. ASSUME ~tally'.overlapped
       PROVE  AloneStored'
  <2>1. AloneStored /\ FitsAlone(s, l)
    BY <1>3, <1>5, <1>12
  <2>2. k \notin listed /\ \A n \in RecordNames : goalNames[n] # k
    BY <1>1, <1>3, <2>1 DEF FitsAlone
  <2>3. listed \subseteq RecordKeys /\ recordPast.gone \subseteq RecordKeys
        /\ \A n \in RecordNames : goalNames[n] # NoRecord => goalNames[n] \in RecordKeys
    BY DEF RecordInv, RecordsTyped
  <2>4. (\A j \in listed : docs'[j] # NoName) /\ (\A j \in recordPast'.gone : docs'[j] = NoName)
    BY <1>7, <1>8, <2>1, <2>2, <2>3 DEF AloneStored
  <2>5. \A n \in RecordNames : goalNames[n] # NoRecord => docs'[goalNames[n]] = n
    BY <1>8, <2>1, <2>2, <2>3 DEF AloneStored
  <2>6. ~recordPast'.renamed =>
             \A j, g \in listed : j[1] = "guardrail" /\ g[1] = "guardrail" /\ docs'[j] = docs'[g] => j = g
    BY <1>7, <1>8, <2>1, <2>2, <2>3 DEF AloneStored
  <2>7. ASSUME tally'.faults = 0, NEW j \in RecordKeys, j[1] = "goal", docs'[j] # NoName
        PROVE  goalNames[docs'[j]] = j
    BY <1>5, <1>8, <1>12, <2>1, <2>7 DEF AloneStored
  <2> QED BY <1>2, <2>4, <2>5, <2>6, <2>7 DEF AloneStored
<1> QED BY <1>5, <1>9, <1>10, <1>11, <1>12, RecordMoves

LEMMA RecordInvInit ==
    ASSUME InitRequests, InitRecords
    PROVE  RecordInv
<1>1. PICK kept \in {{}} \cup {{k} : k \in RecordKeys}, n \in RecordNames :
      /\ docs = [k \in RecordKeys |-> IF k \in kept THEN n ELSE NoName]
      /\ listed = {k \in kept : Indexed(k)}
      /\ goalNames = [m \in RecordNames |->
           IF m = n /\ \E k \in kept : k[1] = "goal" THEN CHOOSE k \in kept : TRUE ELSE NoRecord]
      /\ recordPast = [used |-> kept, kept |-> kept, doomed |-> {}, gone |-> {}, renamed |-> FALSE]
  BY DEF InitRecords
<1>2. kept \subseteq RecordKeys /\ (\A k \in kept : kept = {k})
  OBVIOUS
<1>3. ASSUME NEW m \in RecordNames
      PROVE  goalNames[m] = NoRecord \/ (m = n /\ goalNames[m] \in kept /\ goalNames[m][1] = "goal")
  <2>1. ASSUME NEW j \in kept
        PROVE  (CHOOSE k \in kept : TRUE) = j
    <3>1. (CHOOSE k \in kept : TRUE) \in kept
      BY <2>1
    <3>2. kept = {j}
      BY <1>2, <2>1
    <3> QED BY <3>1, <3>2
  <2> QED BY <1>1, <1>3, <2>1
<1>4. \A k \in kept : k[1] = "goal" => goalNames[n] = k
  <2> SUFFICES ASSUME NEW j \in kept, j[1] = "goal"
               PROVE  goalNames[n] = j
    OBVIOUS
  <2>1. goalNames[n] = CHOOSE k \in kept : TRUE
    BY <1>1
  <2>2. (CHOOSE k \in kept : TRUE) \in kept
    OBVIOUS
  <2> QED BY <1>2, <2>1, <2>2
<1>5. goalNames \in [RecordNames -> {k \in RecordKeys : k[1] = "goal"} \cup {NoRecord}]
  <2>1. goalNames = [m \in RecordNames |-> goalNames[m]]
    BY <1>1
  <2>2. \A m \in RecordNames : goalNames[m] \in {k \in RecordKeys : k[1] = "goal"} \cup {NoRecord}
    BY <1>2, <1>3
  <2> QED BY <2>1, <2>2
<1>6. RecordsTyped
  <2>1. docs \in [RecordKeys -> RecordNames \cup {NoName}] /\ \A k \in RecordKeys : docs[k] # NoName => k \in kept
    BY <1>1
  <2> QED BY <1>1, <1>2, <1>5, <2>1 DEF RecordsTyped
<1>7. \A r \in Requests : request[r].todo = <<>>
  BY DEF InitRequests, Idle
<1>8. RecordsInPlace
  <2>1. \A r \in Requests : RecordInPlace(request[r].todo, request[r].loc)
    BY <1>7, NothingToDo
  <2> QED BY <2>1 DEF RecordsInPlace, InitRequests, Tallies
<1>9. OnlyMaker /\ OneBusy
  BY <1>7 DEF OnlyMaker, Makes, MakesRecord, OneBusy, Busy
<1>10. n # NoName
  BY RecordAssumption
<1>11. KeptRecordsStay
  BY <1>1, <1>2, <1>10 DEF KeptRecordsStay
<1>12. AloneStored
  <2>1. \A k \in listed : docs[k] # NoName /\ k \in kept
    BY <1>1, <1>2, <1>10
  <2>2. \A m \in RecordNames : goalNames[m] # NoRecord => docs[goalNames[m]] = m
    BY <1>1, <1>2, <1>3
  <2>3. \A k, g \in listed : k = g
    BY <1>2, <2>1
  <2>4. \A k \in RecordKeys : k[1] = "goal" /\ docs[k] # NoName => goalNames[docs[k]] = k
    BY <1>1, <1>4
  <2>5. recordPast.gone = {}
    BY <1>1
  <2> QED BY <2>1, <2>2, <2>3, <2>4, <2>5 DEF AloneStored
<1>13. AloneFits
  BY <1>7, <1>12, NothingToDo DEF AloneFits
<1> QED BY <1>6, <1>8, <1>9, <1>11, <1>13 DEF RecordInv

LEMMA RecordInvNext ==
    ASSUME RecordInv, [NextRecords]_<<requestVars, recordVars>>
    PROVE  RecordInv'
<1>1. CASE UNCHANGED <<requestVars, recordVars>>
  <2>1. /\ request' = request /\ tally' = tally
        /\ docs' = docs /\ listed' = listed /\ goalNames' = goalNames /\ recordPast' = recordPast
    BY <1>1 DEF requestVars, recordVars
  <2>2. RecordsTyped' /\ KeptRecordsStay'
    BY <2>1 DEF RecordInv, RecordsTyped, KeptRecordsStay
  <2>3. RecordsInPlace'
    BY <2>1 DEF RecordInv, RecordsInPlace, RecordInPlace, FitsRecord
  <2>4. OnlyMaker'
    BY <2>1 DEF RecordInv, OnlyMaker, Makes
  <2>5. OneBusy'
    BY <2>1 DEF RecordInv, OneBusy, Busy
  <2>6. AloneFits'
    <3>1. AloneStored' = AloneStored
      BY <2>1 DEF AloneStored, Naming
    <3>2. \A x, l : FitsAlone(x, l)' = FitsAlone(x, l)
      BY <2>1 DEF FitsAlone
    <3> QED BY <2>1, <3>1, <3>2 DEF RecordInv, AloneFits
  <2> QED BY <2>2, <2>3, <2>4, <2>5, <2>6 DEF RecordInv
<1>2. ASSUME NEW r \in Requests,
             \E k \in Keyed("view", ViewNames) : CreateView(r, k) \/ UpdateView(r, k) \/ DeleteView(r, k)
      PROVE  RecordInv'
  BY <1>2, CreateViewKeeps, UpdateViewKeeps, DeleteViewKeeps
<1>3. \A kind : \A k \in KnownRecords(kind) : k \in RecordKeys /\ k[1] = kind
  BY DEF KnownRecords, RecordInv, RecordsTyped
<1>4. ASSUME NEW r \in Requests,
             \/ \E k \in Keyed("guardrail", GuardrailIds), n \in RecordNames : CreateGuardrail(r, k, n)
             \/ \E k \in KnownRecords("guardrail") :
                  DeleteGuardrail(r, k) \/ \E n \in RecordNames : UpdateGuardrail(r, k, n)
      PROVE  RecordInv'
  BY <1>3, <1>4, CreateGuardrailKeeps, UpdateGuardrailKeeps, DeleteGuardrailKeeps
<1>5. ASSUME NEW r \in Requests,
             \/ \E k \in Keyed("goal", GoalIds), n \in RecordNames : CreateGoal(r, k, n)
             \/ \E k \in KnownRecords("goal") : UpdateGoal(r, k) \/ DeleteGoal(r, k)
      PROVE  RecordInv'
  BY <1>3, <1>5, CreateGoalKeeps, UpdateGoalKeeps, DeleteGoalKeeps
<1>6. ASSUME NEW r \in Requests,
             \E k \in Keyed("narrative", Narrated) : RefreshNarrative(r, k) \/ DeleteNarrative(r, k)
      PROVE  RecordInv'
  BY <1>6, RefreshNarrativeKeeps, DeleteNarrativeKeeps
<1>7. ASSUME NEW r \in Requests,
             \/ RecordNeed(r) \/ RecordNone(r) \/ RecordRead(r) \/ NameFree(r) \/ GoalNone(r) \/ Narrate(r)
             \/ UserIndex(r) \/ RecordSet(r) \/ RecordList(r) \/ GoalName(r)
             \/ GoalIndexes(r) \/ RecordUnlist(r) \/ GoalUnname(r) \/ RecordDel(r)
             \/ CommandFails(r) /\ UNCHANGED recordVars
      PROVE  RecordInv'
  BY <1>7, RecordNeedKeeps, RecordNoneKeeps, RecordReadKeeps, NameFreeKeeps, GoalNoneKeeps, NarrateKeeps,
     UserIndexKeeps, RecordSetKeeps, RecordListKeeps, GoalNameKeeps, GoalIndexesKeeps, RecordUnlistKeeps,
     GoalUnnameKeeps, RecordDelKeeps, RecordFails
<1> QED BY <1>1, <1>2, <1>4, <1>5, <1>6, <1>7 DEF NextRecords

LEMMA RecordInvHolds == RecordSpec => []RecordInv
<1>1. InitRequests /\ InitRecords => RecordInv
  BY RecordInvInit
<1>2. RecordInv /\ [NextRecords]_<<requestVars, recordVars>> => RecordInv'
  BY RecordInvNext
<1> QED BY <1>1, <1>2, PTL DEF RecordSpec

(* What is stored of views, guardrails, goals and narratives has the type    *)
(* that the handlers give it, for any number of requests and records: only   *)
(* keys of records are listed, and a goal's name leads to a record or to     *)
(* none.                                                                     *)
THEOREM RecordTypesCorrect == RecordSpec => []RecordTypeOK
<1>1. RecordInv => RecordTypeOK
  BY DEF RecordInv, RecordsTyped, RecordTypeOK
<1> QED BY <1>1, RecordInvHolds, PTL

(* A record whose creation was answered is readable and listed until a       *)
(* delete of it begins, whatever other requests run, fail or stop beside it; *)
(* requests that run one after the other leave nothing of a deleted record;  *)
(* and when they do not fail either, a goal's name leads to it and no two    *)
(* guardrails share one: the handlers of routes.rs, which look for a name    *)
(* before they store a document and its index entries one after the other.   *)
THEOREM RecordsStayTrue == RecordSpec => []RecordsHold
<1>1. RecordInv => DeletedRecordsAreGone
  <2> SUFFICES ASSUME RecordInv, ~tally.overlapped, NEW k \in recordPast.gone
               PROVE  docs[k] = NoName /\ k \notin listed /\ \A n \in RecordNames : goalNames[n] # k
    BY DEF DeletedRecordsAreGone
  <2>1. AloneStored /\ k \in RecordKeys
    BY DEF RecordInv, AloneFits, RecordsTyped
  <2>2. docs[k] = NoName /\ k \notin listed
    BY <2>1 DEF AloneStored
  <2>3. k # NoRecord
    BY <2>1, KindsOfKeys
  <2>4. \A n \in RecordNames : goalNames[n] # k
    BY <2>1, <2>2, <2>3, RecordAssumption DEF AloneStored
  <2> QED BY <2>2, <2>4
<1>2. RecordInv => NamesTell
  <2> SUFFICES ASSUME RecordInv, ~tally.overlapped
               PROVE  /\ tally.faults = 0 => \A k \in recordPast.kept : k[1] = "goal" =>
                            k \in recordPast.doomed \/ goalNames[docs[k]] = k
                      /\ ~recordPast.renamed => \A k, g \in listed :
                            k[1] = "guardrail" /\ g[1] = "guardrail" /\ docs[k] = docs[g] => k = g
    BY DEF NamesTell
  <2>1. AloneStored /\ \A r \in Requests : FitsAlone(request[r].todo, request[r].loc)
    BY DEF RecordInv, AloneFits
  <2>2. ASSUME tally.faults = 0, NEW k \in recordPast.kept, k[1] = "goal", k \notin recordPast.doomed
        PROVE  goalNames[docs[k]] = k
    <3>1. docs[k] # NoName /\ k \in RecordKeys
      BY <2>2 DEF RecordInv, KeptRecordsStay, RecordsTyped
    <3>2. goalNames[docs[k]] = k \/ \E r \in Requests : Naming(r, k)
      BY <2>1, <2>2, <3>1 DEF AloneStored
    <3>3. ASSUME NEW r \in Requests, Naming(r, k)
          PROVE  FALSE
      <4>1. PICK s, l : s = request[r].todo /\ l = request[r].loc
        OBVIOUS
      <4>2. /\ s # <<>> /\ s[1].id = k /\ FitsAlone(s, l) /\ RecordInPlace(s, l)
            /\ (l.makes /\ s[1].do \in {"recordList", "goalName"}) \/ s[1].do = "recordDel"
        BY <2>1, <3>3, <4>1 DEF Naming, RecordInv, RecordsInPlace
      <4>3. Len(s) \in Nat /\ Len(s) >= 1
        BY <4>2, RecordTail
      <4>4. 1 \in 1 .. Len(s)
        BY <4>3
      <4> QED BY <2>2, <3>1, <4>2, <4>4 DEF FitsAlone
    <3> QED BY <3>2, <3>3
  <2> QED BY <2>1, <2>2 DEF AloneStored
<1>3. RecordInv => RecordsHold
  BY <1>1, <1>2 DEF RecordInv, RecordsHold
<1> QED BY <1>3, RecordInvHolds, PTL

=============================================================================
