------------------------------ MODULE MCServer ------------------------------
(***************************************************************************)
(* The server's components over the store in one model.  Keys, regions,    *)
(* digests, records, clarifications, policies and adapters share no state  *)
(* with each other nor with conversations, so a behaviour exercises one of *)
(* them while the others stay in one initial state; imports run over       *)
(* conversations.                                                          *)
(***************************************************************************)
EXTENDS ApiKeys, Regions, ImportJobs, SleepDigests, Records, Clarifications, UserPolicies, LoraAdapters

CONSTANT Subjects   \* the parts to exercise

VARIABLE subject    \* the part that this behaviour is about

records == <<recordVars, clarVars, policyVars, adapterVars>>
vars == <<requestVars, keyVars, regionVars, chatVars, importVars, digestVars, records, subject>>

MaxImportRequests == 2   \* bound: requests of a behaviour about imports

Init ==
    /\ subject \in Subjects
    /\ InitRequests
    /\ InitKeys /\ InitRegions /\ InitConversations /\ InitImports /\ InitDigests
    /\ InitRecords /\ InitClarifications /\ InitPolicies /\ InitAdapters
    /\ subject # "keys" => keys[1] = Made(Forever) /\ keyCache[1] = Absent
    /\ subject # "regions" => regionIndex = {}
    /\ subject # "conversations" => userIndex = {}
    /\ subject # "digests" => \A u \in Sleepers : facts[u] = 0
    /\ subject # "records" => recordPast.used = {}
    /\ subject # "clarifications" => \A f \in ClarFacts : factState[f] = "unknown"
    /\ subject # "policies" => \A u \in PolicyUsers : policies[u] = NoPolicy

NextSubject ==
    \/ subject = "keys" /\ NextKeys
         /\ UNCHANGED <<regionVars, chatVars, importVars, digestVars, records>>
    \/ subject = "regions" /\ NextRegions
         /\ UNCHANGED <<keyVars, chatVars, importVars, digestVars, records>>
    \/ subject = "conversations" /\ NextConversations
         /\ UNCHANGED <<keyVars, regionVars, importVars, digestVars, records>>
    \/ subject = "imports" /\ NextImports
         /\ tally'.started <= MaxImportRequests
         /\ UNCHANGED <<keyVars, regionVars, digestVars, records>>
    \/ subject = "digests" /\ NextDigests
         /\ UNCHANGED <<keyVars, regionVars, chatVars, importVars, records>>
    \/ subject = "records" /\ NextRecords
         /\ UNCHANGED <<keyVars, regionVars, chatVars, importVars, digestVars, clarVars, policyVars, adapterVars>>
    \/ subject = "clarifications" /\ NextClarifications
         /\ UNCHANGED <<keyVars, regionVars, chatVars, importVars, digestVars, recordVars, policyVars, adapterVars>>
    \/ subject = "policies" /\ NextPolicies
         /\ UNCHANGED <<keyVars, regionVars, chatVars, importVars, digestVars, recordVars, clarVars, adapterVars>>
    \/ subject = "adapters" /\ NextAdapters
         /\ UNCHANGED <<keyVars, regionVars, chatVars, importVars, digestVars, recordVars, clarVars, policyVars>>

Next == NextSubject /\ UNCHANGED subject

Spec == Init /\ [][Next]_vars

(* All state has its type. *)
ServerTypeOK ==
    /\ KeyTypeOK /\ RegionTypeOK /\ ConversationTypeOK /\ ImportTypeOK /\ DigestTypeOK
    /\ RecordTypeOK /\ ClarTypeOK /\ PolicyTypeOK /\ AdapterTypeOK
=============================================================================
