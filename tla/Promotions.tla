----------------------------- MODULE Promotions -----------------------------
(***************************************************************************)
(* Promotion proposals of agent identities: create, approve, reject, and   *)
(* the approval policy of the agent (routes.rs over redis_store.rs).  An   *)
(* approval reads the proposal, decides on that copy, updates the identity *)
(* with the commands of AgentIdentity and stores the copy: requests to     *)
(* approve or reject the same proposal run between those commands.         *)
(***************************************************************************)
EXTENDS AgentIdentity

CONSTANTS Proposals,    \* proposal ids, which clients may choose
          Approvers,    \* names of the API keys that approve
          Risks,        \* risk levels of proposals
          Policies,     \* approval policies clients set
          MaxClock      \* bound: hours that pass

VARIABLES proposals,    \* promotion_proposal:<id>, or NoProposal
          policy,       \* approval_policy:<agent>, or the default
          governance,   \* the governance audit rows of promotions
          clock,        \* the hour
          copies,       \* the copy of a proposal each request works on
          promotionPast \* what the properties remember

promotionVars == <<proposals, policy, governance, clock, copies, promotionPast>>

NoLimit == -1
Requirement == [min : 0..2, cooling : 0..MaxClock, deadline : {NoLimit} \cup 0..MaxClock]
PolicyLevels == {"low", "medium", "high"}

ASSUME PromotionAssumption == MaxClock \in Nat /\ Policies \subseteq [PolicyLevels -> Requirement]

NoProposal == [status |-> "none", agent |-> "none", core |-> NoCore, risk |-> "none",
               approvers |-> <<>>, created |-> 0]

\* ApprovalPolicy::default_for_agent
default_for_agent == [l \in PolicyLevels |-> [min |-> 1, cooling |-> 0, deadline |-> NoLimit]]

\* An unknown risk level counts as medium.
requirement_for_risk(pol, risk) == pol[IF risk \in {"low", "high"} THEN risk ELSE "medium"]

is_expired(p, pol) ==
    LET deadline == requirement_for_risk(pol, p.risk).deadline IN
    p.status = "pending" /\ deadline # NoLimit /\ clock >= p.created + deadline

cooling_period_elapsed(p, pol) ==
    clock >= p.created + requirement_for_risk(pol, p.risk).cooling

has_quorum(p, pol) == Len(p.approvers) >= requirement_for_risk(pol, p.risk).min

\* Mutant: an approver counts each time.
WithApproverAgain(p, who) == [p EXCEPT !.approvers = Append(@, who)]

\* The approver is recorded once.
WithApprover(p, who) ==
    IF \E i \in DOMAIN p.approvers : p.approvers[i] = who THEN p
    ELSE [p EXCEPT !.approvers = Append(@, who)]

\* from_request: pending, approved by nobody.
NewProposal(a, c, risk) ==
    [status |-> "pending", agent |-> a, core |-> Plain(c), risk |-> risk,
     approvers |-> <<>>, created |-> clock]

InitPromotions ==
    /\ InitAgents
    /\ clock = 0
    /\ \E some \in SUBSET Proposals, c \in CoreValues, risk \in Risks :
         /\ some # {} => experience.stored # {}
         /\ \E owner \in [Proposals -> Agents] : proposals =
              [p \in Proposals |-> IF p \in some THEN NewProposal(owner[p], c, risk) ELSE NoProposal]
    /\ \E pol \in Policies \cup {default_for_agent} : policy = [a \in Agents |-> pol]
    /\ governance = {}
    /\ copies = [r \in Requests |-> NoProposal]
    /\ promotionPast = [voted |-> [p \in Proposals |-> {}],
                         applied |-> [p \in Proposals |-> <<>>]]

-----------------------------------------------------------------------------
(* Requests                                                                *)

StartPromotion(r, todo, core) == Ask(r, todo, core) /\ UNCHANGED promotionVars

\* create_promotion_proposal: at least three source events, all of which
\* exist; they may be the same and of any agent.
CreateProposal(r, p, a, c, risk) ==
    StartPromotion(r, Cmd("needEvidence", a, "-") \o Cmd("setProposal", p, <<a, c, risk>>)
                        \o Cmd("log", p, "promotion_proposed"), NoCore)

ApproveProposal(r, p, a, who) ==
    StartPromotion(r, Cmd("readProposal", p, a) \o Cmd("decide", p, who), NoCore)

RejectProposal(r, p, a) ==
    StartPromotion(r, Cmd("readProposal", p, a) \o Cmd("saveProposal", p, "rejected")
                        \o Cmd("log", p, "promotion_rejected"), NoCore)

SetPolicy(r, a, pol) ==
    StartPromotion(r, Cmd("setPolicy", a, pol) \o Cmd("log", a, "approval_policy_set"), NoCore)

-----------------------------------------------------------------------------
(* Commands                                                                *)

NeedEvidence(r) ==
    /\ At(r, "needEvidence")
    /\ IF experience.stored # {} THEN Done(r) ELSE Refuse(r)
    /\ UNCHANGED <<agentVars, promotionVars>>

\* The document, whether or not the id is in use, and the index.
SetProposal(r) ==
    /\ At(r, "setProposal")
    /\ LET p == This(r).id  h == This(r).how IN
       /\ proposals' = [proposals EXCEPT ![p] = NewProposal(h[1], h[2], h[3])]
       /\ promotionPast' = [promotionPast EXCEPT !.applied[p] = <<>>]
    /\ Done(r)
    /\ UNCHANGED <<agentVars, policy, governance, clock, copies>>

\* Mutant: a proposal that is no longer pending is decided again.
ReadProposalAnyStatus(r) ==
    /\ At(r, "readProposal")
    /\ LET p == proposals[This(r).id] IN
       IF p.agent = This(r).how THEN Done(r) /\ copies' = [copies EXCEPT ![r] = p]
                                ELSE Refuse(r) /\ UNCHANGED copies
    /\ UNCHANGED <<agentVars, proposals, policy, governance, clock, promotionPast>>

\* get_promotion_proposal, and the check that it is pending.
ReadProposal(r) ==
    /\ At(r, "readProposal")
    /\ LET p == proposals[This(r).id] IN
       IF p.agent = This(r).how /\ p.status = "pending"
       THEN /\ Done(r)
            /\ copies' = [copies EXCEPT ![r] = p]
       ELSE Refuse(r) /\ UNCHANGED copies
    /\ UNCHANGED <<agentVars, proposals, policy, governance, clock, promotionPast>>

\* approve_promotion_proposal reads the policy and decides on its copy:
\* expired, too early, one more approver, or the quorum is met and the
\* candidate becomes the identity before the proposal is stored as approved.
Decide(r) ==
    /\ At(r, "decide")
    /\ LET p   == This(r).id
           who == This(r).how
           pol == policy[copies[r].agent]
           new == WithApprover(copies[r], who)
           go(q, todo) == /\ copies' = [copies EXCEPT ![r] = q]
                          /\ Insert(r, todo, [Loc(r) EXCEPT !.core = q.core])
       IN CASE is_expired(copies[r], pol) ->
                 /\ go(copies[r], Cmd("saveProposal", p, "expired") \o Cmd("log", p, "promotion_expired"))
                 /\ UNCHANGED promotionPast
            [] ~is_expired(copies[r], pol) /\ ~cooling_period_elapsed(copies[r], pol) ->
                 Refuse(r) /\ UNCHANGED <<copies, promotionPast>>
            [] OTHER ->
                 /\ promotionPast' = [promotionPast EXCEPT !.voted[p] = @ \cup {who}]
                 /\ IF has_quorum(new, pol)
                    THEN go(new, update_agent_identity(new.agent) \o Cmd("applied", p, pol)
                                   \o Cmd("saveProposal", p, "approved") \o Cmd("log", p, "promotion_approved"))
                    ELSE go(new, Cmd("saveProposal", p, "pending") \o Cmd("log", p, "promotion_partial_approval"))
    /\ UNCHANGED <<agentVars, proposals, policy, governance, clock>>

\* The identity update has returned: remembered with who had approved and
\* how many approvals the policy asked for.
Applied(r) ==
    /\ At(r, "applied")
    /\ promotionPast' = [promotionPast EXCEPT !.applied[This(r).id] =
          Append(@, [by |-> copies[r].approvers, asked |-> requirement_for_risk(This(r).how, copies[r].risk).min])]
    /\ Done(r)
    /\ UNCHANGED <<agentVars, proposals, policy, governance, clock, copies>>

\* update_promotion_proposal stores the copy under its new status.
SaveProposal(r) ==
    /\ At(r, "saveProposal")
    /\ proposals' = [proposals EXCEPT ![This(r).id] = [copies[r] EXCEPT !.status = This(r).how]]
    /\ copies' = [copies EXCEPT ![r] = NoProposal]
    /\ Done(r)
    /\ UNCHANGED <<agentVars, policy, governance, clock, promotionPast>>

StorePolicy(r) ==
    /\ At(r, "setPolicy")
    /\ policy' = [policy EXCEPT ![This(r).id] = This(r).how]
    /\ Done(r)
    /\ UNCHANGED <<agentVars, proposals, governance, clock, copies, promotionPast>>

\* append_governance_audit
Log(r) ==
    /\ At(r, "log")
    /\ governance' = governance \cup {<<This(r).id, This(r).how>>}
    /\ Done(r)
    /\ UNCHANGED <<agentVars, proposals, policy, clock, copies, promotionPast>>

HourPasses ==
    /\ clock < MaxClock
    /\ clock' = clock + 1
    /\ UNCHANGED <<requestVars, agentVars, proposals, policy, governance, copies, promotionPast>>

NextPromotions ==
    \/ HourPasses
    \/ \E r \in Requests :
         \/ \E p \in Proposals, a \in Agents :
              \/ \E c \in CoreValues, risk \in Risks : CreateProposal(r, p, a, c, risk)
              \/ \E who \in Approvers : ApproveProposal(r, p, a, who)
              \/ RejectProposal(r, p, a)
         \/ \E a \in Agents, pol \in Policies : SetPolicy(r, a, pol)
         \/ NeedEvidence(r) \/ SetProposal(r) \/ ReadProposal(r) \/ Decide(r)
         \/ Applied(r) \/ SaveProposal(r) \/ StorePolicy(r) \/ Log(r)

\* Requests about agents and about proposals, side by side.
NextAgency ==
    \/ (AgentRequests \/ AgentCommands) /\ UNCHANGED promotionVars
    \/ NextPromotions

agencyVars == <<requestVars, agentVars, promotionVars>>
AgencySpec == InitRequests /\ InitPromotions /\ [][NextAgency]_agencyVars

-----------------------------------------------------------------------------
(* Properties                                                              *)

PromotionTypeOK ==
    /\ \A p \in Proposals :
         /\ proposals[p].status \in {"none", "pending", "approved", "rejected", "expired"}
         /\ \A i \in DOMAIN proposals[p].approvers : proposals[p].approvers[i] \in Approvers
    /\ policy \in [Agents -> [PolicyLevels -> Requirement]]
    /\ clock \in 0..MaxClock

\* However requests overlap and fail, a candidate core becomes the identity
\* only after as many different keys as the policy in force asks for sent an
\* approval of this proposal.
QuorumBacked ==
    \A p \in Proposals : \A i \in DOMAIN promotionPast.applied[p] :
      LET by == Range(promotionPast.applied[p][i].by) IN
      by \subseteq promotionPast.voted[p] /\ Cardinality(by) >= promotionPast.applied[p][i].asked

\* What the governance log says of a decision.
Announced == [approved |-> "promotion_approved", rejected |-> "promotion_rejected",
              expired |-> "promotion_expired"]

\* As long as requests run one after the other, a proposal is approved if
\* and only if its candidate was applied, and then once; a failed command
\* may only leave an applied proposal pending.
AppliedUnlessOverlapped ==
    ~tally.overlapped /\ Busy = {} =>
      \A p \in Proposals :
        /\ proposals[p].status = "approved" => promotionPast.applied[p] # <<>>
        /\ promotionPast.applied[p] # <<>> =>
             \/ proposals[p].status = "approved"
             \/ tally.faults > 0 /\ proposals[p].status \in {"pending", "rejected", "expired"}
        /\ Len(promotionPast.applied[p]) <= 1 + tally.faults
        /\ proposals[p].status \in {"approved", "rejected", "expired"} =>
             tally.faults > 0 \/ <<p, Announced[proposals[p].status]>> \in governance

\* A proposal takes effect with its quorum, and as its status says.
PromotionsHold == QuorumBacked /\ AppliedUnlessOverlapped
=============================================================================
