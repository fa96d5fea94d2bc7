---------------------------- MODULE UserPolicies ----------------------------
(***************************************************************************)
(* The policies of users: a map in the server's memory under a lock, saved *)
(* as a whole by persist_webhook_state and restored at the start           *)
(* (routes.rs).  Of a policy the model keeps how strict its memory         *)
(* contract is.  The other keys that persist_webhook_state writes belong   *)
(* to WebhookDelivery.  Deleting the user's data is one command here.      *)
(***************************************************************************)
EXTENDS StoreRequests

CONSTANTS PolicyUsers,       \* users, who exist from the start and may be deleted
          MaxStrictness,     \* contract_strictness of the strictest contract
          MaxPolicyRestarts  \* bound: restarts of the server

ASSUME PolicyAssumption == MaxStrictness \in Nat /\ MaxPolicyRestarts \in Nat

VARIABLES policies,       \* user_policies: the strictness of each, or NoPolicy
          savedPolicies,  \* the Redis key
          userExists,     \* user:<id>
          policyPast      \* what the properties remember

policyVars == <<policies, savedPolicies, userExists, policyPast>>

NoPolicy == -1
DefaultContract == 0
Contracts == 0 .. MaxStrictness
Unspecified == -1

InitPolicies ==
    /\ \E p \in [PolicyUsers -> Contracts \cup {NoPolicy}] : policies = p /\ savedPolicies = p
    /\ userExists = PolicyUsers
    /\ policyPast = [floor |-> [u \in PolicyUsers |-> IF policies[u] = NoPolicy THEN DefaultContract ELSE policies[u]],
                     unsaved |-> {}, deleted |-> {}, restarts |-> 0]

\* Locals: the contract asked for, the caller's role, the copy to save.
PolicyLocals(contract, admin) == [contract |-> contract, admin |-> admin, copy |-> savedPolicies]

AskPolicy(r, todo, contract, admin) ==
    Start(r, todo, PolicyLocals(contract, admin)) /\ UNCHANGED policyVars

\* persist_webhook_state: a copy under the read lock, then SET.
persist_webhook_state == Cmd("policyCopy", "-", "-") \o Cmd("policySave", "-", "-")

\* get_user_policy and every handler that needs the policy of a user.
GetPolicy(r, u)  == AskPolicy(r, Cmd("policyUser", u, "get"), Unspecified, FALSE)
\* The gRPC handlers keep a new policy in memory only.
GrpcPolicy(r, u) == AskPolicy(r, Cmd("policyUser", u, "grpc"), Unspecified, FALSE)
UpsertPolicy(r, u, contract, admin) ==
    AskPolicy(r, Cmd("policyUser", u, "upsert"), contract, admin)
\* delete_user appends to the governance audit first, which saves everything.
DeletePolicyUser(r, u) ==
    AskPolicy(r, persist_webhook_state \o Cmd("userErase", u, "-"), Unspecified, TRUE)

-----------------------------------------------------------------------------

\* find_user_by_identifier
PolicyUser(r) ==
    /\ At(r, "policyUser")
    /\ LET u == This(r).id  how == This(r).how IN
       IF u \notin userExists THEN Refuse(r)
       ELSE IF how = "upsert" /\ Loc(r).contract = Unspecified
       THEN Insert(r, Cmd("policySet", u, "-"), Loc(r))
       ELSE Insert(r, Cmd("policyFind", u, how), Loc(r))
    /\ UNCHANGED policyVars

\* get_or_create_user_policy: find or insert under the lock, and save what is
\* new; an upsert goes on to compare with the policy found.
PolicyFind(r) ==
    /\ At(r, "policyFind")
    /\ LET u == This(r).id  how == This(r).how  new == policies[u] = NoPolicy
           found == IF new THEN DefaultContract ELSE policies[u]
           save == IF new /\ how # "grpc" THEN persist_webhook_state ELSE <<>>
           more == IF how = "upsert" THEN Cmd("policyCheck", u, found) ELSE <<>> IN
       /\ policies' = [policies EXCEPT ![u] = found]
       /\ policyPast' = [policyPast EXCEPT !.unsaved = IF new /\ how = "grpc" THEN @ \cup {u} ELSE @]
       /\ Insert(r, save \o more, Loc(r))
    /\ UNCHANGED <<savedPolicies, userExists>>

\* Mutant: the comparison is the wrong way round.
is_contract_downgrade_swapped(from, to) == from < to

is_contract_downgrade(from, to) == to < from

\* A downgrade needs an admin, and is recorded in the audit, which saves.
PolicyCheck(r) ==
    /\ At(r, "policyCheck")
    /\ LET u == This(r).id  down == is_contract_downgrade(This(r).how, Loc(r).contract)
           set == Cmd("policySet", u, IF down THEN "down" ELSE "-") IN
       IF down /\ ~Loc(r).admin THEN Refuse(r)
       ELSE Insert(r, (IF down THEN persist_webhook_state ELSE <<>>) \o set, Loc(r))
    /\ UNCHANGED policyVars

\* The patch under the lock; then the audit row and the policies are saved.
PolicySet(r) ==
    /\ At(r, "policySet")
    /\ LET u == This(r).id  asked == Loc(r).contract
           old == IF policies[u] = NoPolicy THEN DefaultContract ELSE policies[u] IN
       /\ policies' = [policies EXCEPT ![u] = IF asked = Unspecified THEN old ELSE asked]
       /\ policyPast' = [policyPast EXCEPT !.floor[u] = IF This(r).how = "down" THEN asked ELSE @]
       /\ Insert(r, persist_webhook_state \o persist_webhook_state \o Cmd("policyAnswer", u, asked), Loc(r))
    /\ UNCHANGED <<savedPolicies, userExists>>

\* The client knows that its contract is in force.
PolicyAnswer(r) ==
    /\ At(r, "policyAnswer")
    /\ policyPast' = [policyPast EXCEPT !.floor[This(r).id] =
         IF This(r).how = Unspecified THEN @ ELSE This(r).how]
    /\ Done(r)
    /\ UNCHANGED <<policies, savedPolicies, userExists>>

PolicyCopy(r) ==
    /\ At(r, "policyCopy")
    /\ Sent(r, [Loc(r) EXCEPT !.copy = policies])
    /\ UNCHANGED policyVars

\* A failing SET is logged and the handler goes on.
PolicySave(r) ==
    /\ At(r, "policySave")
    /\ \/ savedPolicies' = Loc(r).copy /\ UNCHANGED tally
       \/ MayFail /\ tally' = [tally EXCEPT !.faults = @ + 1] /\ UNCHANGED savedPolicies
    /\ Continue(r, Rest(r), Loc(r))
    /\ UNCHANGED <<policies, userExists, policyPast>>

UserErase(r) ==
    /\ At(r, "userErase")
    /\ LET u == This(r).id IN
       IF u \notin userExists THEN Refuse(r) /\ UNCHANGED userExists
       ELSE /\ userExists' = userExists \ {u}
            /\ Insert(r, Cmd("policyRemove", u, "-"), Loc(r))
    /\ UNCHANGED <<policies, savedPolicies, policyPast>>

PolicyRemove(r) ==
    /\ At(r, "policyRemove")
    /\ policies' = [policies EXCEPT ![This(r).id] = NoPolicy]
    /\ Insert(r, persist_webhook_state \o Cmd("policyGone", This(r).id, "-"), Loc(r))
    /\ UNCHANGED <<savedPolicies, userExists, policyPast>>

PolicyGone(r) ==
    /\ At(r, "policyGone")
    /\ policyPast' = [policyPast EXCEPT !.deleted = @ \cup {This(r).id}]
    /\ Done(r)
    /\ UNCHANGED <<policies, savedPolicies, userExists>>

\* The server restarts and reads what was saved; its requests are lost.
PolicyRestart ==
    /\ policyPast.restarts < MaxPolicyRestarts
    /\ policies' = savedPolicies
    /\ policyPast' = [policyPast EXCEPT !.restarts = @ + 1, !.unsaved = {}]
    /\ request' = [r \in Requests |-> Idle]
    /\ UNCHANGED <<tally, savedPolicies, userExists>>

NextPolicies ==
    \/ PolicyRestart
    \/ \E r \in Requests :
         \/ \E u \in PolicyUsers :
              \/ GetPolicy(r, u) \/ GrpcPolicy(r, u) \/ DeletePolicyUser(r, u)
              \/ \E c \in Contracts \cup {Unspecified}, admin \in BOOLEAN : UpsertPolicy(r, u, c, admin)
         \/ PolicyUser(r) \/ PolicyFind(r) \/ PolicyCheck(r) \/ PolicySet(r) \/ PolicyAnswer(r)
         \/ PolicyCopy(r) \/ PolicySave(r) \/ UserErase(r) \/ PolicyRemove(r) \/ PolicyGone(r)
         \/ At(r, "policyUser") /\ CommandFails(r) /\ UNCHANGED policyVars
         \/ At(r, "userErase") /\ CommandFails(r) /\ UNCHANGED policyVars

PolicySpec == InitRequests /\ InitPolicies /\ [][NextPolicies]_<<requestVars, policyVars>>

-----------------------------------------------------------------------------
(* Properties                                                              *)

PolicyTypeOK ==
    /\ policies \in [PolicyUsers -> Contracts \cup {NoPolicy}]
    /\ savedPolicies \in [PolicyUsers -> Contracts \cup {NoPolicy}]
    /\ userExists \subseteq PolicyUsers

\* Of requests that run one after the other without a failing SET, whatever
\* restarts come between: a contract never falls below what a client was told
\* is in force unless an admin lowers it.
NoSilentDowngrade ==
    ~tally.overlapped /\ tally.faults = 0 => \A u \in userExists :
      LET inForce == IF policies[u] = NoPolicy THEN DefaultContract ELSE policies[u] IN
      inForce >= policyPast.floor[u]

\* When none runs, the saved policies are those in memory, but for the
\* defaults that gRPC handlers made.
PoliciesAreSaved ==
    ~tally.overlapped /\ tally.faults = 0 /\ Busy = {} => \A u \in PolicyUsers :
      savedPolicies[u] # policies[u] => u \in policyPast.unsaved

\* A deleted user has no policy, now or after a restart.
DeletedUsersHaveNone ==
    ~tally.overlapped /\ tally.faults = 0 => \A u \in policyPast.deleted :
      policies[u] = NoPolicy /\ savedPolicies[u] = NoPolicy

PoliciesHold == NoSilentDowngrade /\ PoliciesAreSaved /\ DeletedUsersHaveNone
=============================================================================
