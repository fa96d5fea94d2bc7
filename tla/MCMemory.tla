------------------------------ MODULE MCMemory ------------------------------
(***************************************************************************)
(* What is remembered: the knowledge graph of a user, and the identities   *)
(* of agents with the proposals that change them.  The graph shares no     *)
(* state with the identities, so a behaviour is about one of the two; one  *)
(* about identities is about requests, branches and forks, or about        *)
(* proposals of registered agents.                                         *)
(***************************************************************************)
EXTENDS GraphIngest, Promotions, TLC

VARIABLE subject   \* the part that this behaviour is about

vars == <<graphVars, agencyVars, subject>>

\* No agent's state names an episode or an object.
Symmetry == Permutations(Episodes) \cup Permutations(Objects)

\* Two approvals where the risk is high, an hour's wait and a deadline of two
\* hours for the rest.
MCPolicies ==
    {[l \in PolicyLevels |->
        IF l = "high" THEN [min |-> 2, cooling |-> 0, deadline |-> NoLimit]
        ELSE [min |-> 0, cooling |-> 1, deadline |-> 2]]}

Init ==
    /\ InitGraph /\ InitRequests /\ InitPromotions
    /\ \/ /\ subject = "identities" /\ \A p \in Proposals : proposals[p] = NoProposal
          /\ experience.stored = {} /\ policy = [a \in Agents |-> default_for_agent]
       \/ subject = "promotions" /\ branchIndex = {} /\ agents = Agents
       \/ /\ subject = "graph" /\ \A p \in Proposals : proposals[p] = NoProposal
          /\ experience.stored = {} /\ policy = [a \in Agents |-> default_for_agent]
          /\ branchIndex = {} /\ agents = Agents

NextIdentities ==
    \/ subject = "identities" /\ AgentRequests /\ UNCHANGED promotionVars
    \/ subject = "promotions" /\ NextPromotions
    \/ subject = "promotions" /\ UNCHANGED promotionVars
         /\ \E r \in Requests, id \in Agents, c \in CoreValues : UpdateIdentity(r, id, c)
    \/ subject # "graph" /\ AgentCommands /\ UNCHANGED promotionVars

NextSubject ==
    \/ subject = "graph" /\ NextGraph /\ UNCHANGED agencyVars
    \/ NextIdentities /\ UNCHANGED graphVars

Next == NextSubject /\ UNCHANGED subject

Spec == Init /\ [][Next]_vars

(* All state has its type. *)
TypeOK == GraphTypeOK /\ AgentTypeOK /\ PromotionTypeOK
=============================================================================
