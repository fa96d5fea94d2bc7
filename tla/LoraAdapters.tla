---------------------------- MODULE LoraAdapters ----------------------------
(***************************************************************************)
(* The embedding adapters that mnemo-lora learns for a user and an agent,  *)
(* or for a user alone: Redis keeps them, LoraAdaptedEmbedder caches them  *)
(* in memory, searches and feedback train them, a reset deletes them       *)
(* (mnemo-lora/src/lib.rs, LoraStore of redis_store.rs, routes.rs).  The   *)
(* matrices are what the training steps made of them: an adapter is the    *)
(* set of its steps, and update_count their number.  The index of a user's *)
(* adapters is written and never read by the server: its commands appear   *)
(* as steps that may fail and change nothing.  One agent.                  *)
(***************************************************************************)
EXTENDS StoreRequests

CONSTANTS AdapterUsers,       \* users
          MaxTraining,        \* bound: training steps
          MaxRated,           \* bound: facts of one answer, or rated in one feedback
          MaxAdapterRestarts  \* bound: restarts of the server

ASSUME AdapterAssumption == MaxTraining \in Nat /\ MaxRated \in Nat /\ MaxAdapterRestarts \in Nat

VARIABLES weights,      \* lora:<user>:<slot>, {} when there is none: a saved adapter has steps
          adapters,     \* the cache: {} or {the adapter}
          agentUsers,   \* lora_agent_idx:<agent>
          adapterPast   \* what the properties remember

adapterVars == <<weights, adapters, agentUsers, adapterPast>>

AdapterKeys == AdapterUsers \X {"agent", "__global__"}
Training == 1 .. MaxTraining
Untrained == {}

InitAdapters ==
    /\ weights = [k \in AdapterKeys |-> Untrained]
    /\ adapters = [k \in AdapterKeys |-> {}]
    /\ agentUsers = {}
    /\ adapterPast = [steps |-> 0, taken |-> weights, forgotten |-> weights,
                      reset |-> FALSE, restarts |-> 0, cut |-> FALSE, raced |-> FALSE]

\* Locals: the adapter in hand.
AdapterLocals == [adapter |-> Untrained]

AskAdapter(r, todo) == Start(r, todo, AdapterLocals) /\ UNCHANGED adapterVars

\* save_lora_weights; its error is logged.
IndexCmd(do, k) == Cmd("slotIndex", k, "-") \o (IF k[2] = "agent" THEN Cmd(do, k, "-") ELSE <<>>)
save_lora_weights(k) == Cmd("weightsSet", k, "-") \o IndexCmd("agentAdd", k) \o Cmd("catch", k, "-")

\* Some facts of an answer, or rated ones, train the adapter one by one.
Train(k, n) == IF n = 0 THEN <<>> ELSE Cmd("train", k, n)

\* embed_for_agent is all that ingestion asks for.
Search(r, k, n)   == AskAdapter(r, Cmd("getAdapter", k, "-") \o Train(k, n))
Feedback(r, u, n) == AskAdapter(r, Cmd("getAdapter", <<u, "agent">>, "-") \o Train(<<u, "agent">>, n))

delete_lora_weights(k) == Cmd("weightsDel", k, "-") \o IndexCmd("agentRem", k)

Reset(r, u, scope) ==
    LET agent == <<u, "agent">>  global == <<u, "__global__">> IN
    AskAdapter(r,
      CASE scope = "agent"  -> delete_lora_weights(agent) \o Cmd("evict", agent, "-")
        [] scope = "global" -> delete_lora_weights(global) \o Cmd("evict", global, "-")
        [] scope = "all"    -> delete_lora_weights(agent) \o delete_lora_weights(global)
                                 \o Cmd("evict", agent, "-") \o Cmd("evict", global, "-"))

ListUsers(r) == AskAdapter(r, Cmd("listUsers", "-", "-"))

-----------------------------------------------------------------------------

\* get_adapter: the cache, or else Redis and then the cache, under two locks.
GetAdapter(r) ==
    /\ At(r, "getAdapter")
    /\ LET k == This(r).id IN
       IF adapters[k] # {} THEN Done(r)
       ELSE Insert(r, Cmd("load", k, "-") \o Cmd("cacheAdapter", k, "-"), Loc(r))
    /\ UNCHANGED adapterVars

\* An error counts as: no adapter.
Load(r) ==
    /\ At(r, "load")
    /\ \/ Sent(r, [Loc(r) EXCEPT !.adapter = weights[This(r).id]])
       \/ MayFail /\ tally' = [tally EXCEPT !.faults = @ + 1]
            /\ Continue(r, Rest(r), [Loc(r) EXCEPT !.adapter = Untrained])
    /\ UNCHANGED adapterVars

CacheAdapter(r) ==
    /\ At(r, "cacheAdapter")
    /\ LET k == This(r).id IN
       /\ adapters' = [adapters EXCEPT ![k] = {Loc(r).adapter}]
       /\ adapterPast' = [adapterPast EXCEPT !.raced = @ \/ adapters[k] # {}]
    /\ Done(r)
    /\ UNCHANGED <<weights, agentUsers>>

\* The adapter in the cache, or a fresh one.
TrainingFrom(k) == IF adapters[k] = {} THEN Untrained ELSE CHOOSE w \in adapters[k] : TRUE

\* update_from_access, update_with_rating: one step under the write lock.
TrainAdapter(r) ==
    /\ At(r, "train")
    /\ adapterPast.steps < MaxTraining
    /\ LET k == This(r).id  step == adapterPast.steps + 1  trained == TrainingFrom(k) \cup {step} IN
       /\ adapters' = [adapters EXCEPT ![k] = {trained}]
       /\ adapterPast' = [adapterPast EXCEPT !.steps = step, !.taken[k] = @ \cup {step}]
       /\ Insert(r, save_lora_weights(k) \o Train(k, This(r).how - 1), [Loc(r) EXCEPT !.adapter = trained])
    /\ UNCHANGED <<weights, agentUsers>>

WeightsSet(r) ==
    /\ At(r, "weightsSet")
    /\ weights' = [weights EXCEPT ![This(r).id] = Loc(r).adapter]
    /\ Done(r)
    /\ UNCHANGED <<adapters, agentUsers, adapterPast>>

SlotIndex(r) == At(r, "slotIndex") /\ Done(r) /\ UNCHANGED adapterVars

AgentAdd(r) ==
    /\ At(r, "agentAdd")
    /\ agentUsers' = agentUsers \cup {This(r).id[1]}
    /\ Done(r)
    /\ UNCHANGED <<weights, adapters, adapterPast>>

Saved(r) == At(r, "catch") /\ This(r).id \in AdapterKeys /\ Done(r) /\ UNCHANGED adapterVars

WeightsDel(r) ==
    /\ At(r, "weightsDel")
    /\ weights' = [weights EXCEPT ![This(r).id] = Untrained]
    /\ adapterPast' = [adapterPast EXCEPT !.reset = TRUE]
    /\ Done(r)
    /\ UNCHANGED <<adapters, agentUsers>>

AgentRem(r) ==
    /\ At(r, "agentRem")
    /\ agentUsers' = agentUsers \ {This(r).id[1]}
    /\ Done(r)
    /\ UNCHANGED <<weights, adapters, adapterPast>>

\* Mutant: a reset deletes what is stored only.
EvictForgotten(r) ==
    /\ At(r, "evict")
    /\ LET k == This(r).id IN
       adapterPast' = [adapterPast EXCEPT !.forgotten[k] = @ \cup adapterPast.taken[k], !.taken[k] = Untrained]
    /\ Done(r)
    /\ UNCHANGED <<weights, agentUsers, adapters>>

\* evict_cache; what was learnt so far is to be forgotten.
Evict(r) ==
    /\ At(r, "evict")
    /\ LET k == This(r).id IN
       /\ adapters' = [adapters EXCEPT ![k] = {}]
       /\ adapterPast' = [adapterPast EXCEPT !.forgotten[k] = @ \cup adapterPast.taken[k], !.taken[k] = Untrained]
    /\ Done(r)
    /\ UNCHANGED <<weights, agentUsers>>

\* list_lora_weights_for_agent looks up one user after the other and prunes
\* those without an adapter.
Probes(users) == IF users = {} THEN <<>> ELSE Cmd("probe", users, "-")

ListAgentUsers(r) ==
    /\ At(r, "listUsers")
    /\ Insert(r, Probes(agentUsers), Loc(r))
    /\ UNCHANGED adapterVars

ProbeAdapter(r) ==
    /\ At(r, "probe")
    /\ \E u \in This(r).id :
         LET k == <<u, "agent">>
             prune == IF weights[k] = Untrained THEN Cmd("agentRem", k, "-") ELSE <<>> IN
         Insert(r, prune \o Probes(This(r).id \ {u}), Loc(r))
    /\ UNCHANGED adapterVars

\* The server restarts: the cache and the requests are lost, and with them
\* the training that was not saved.
AdapterRestart ==
    /\ adapterPast.restarts < MaxAdapterRestarts
    /\ request' = [r \in Requests |-> Idle]
    /\ adapters' = [k \in AdapterKeys |-> {}]
    /\ adapterPast' = [adapterPast EXCEPT !.restarts = @ + 1, !.cut = @ \/ Busy # {},
                          !.taken = IF Busy = {} THEN @ ELSE weights]
    /\ UNCHANGED <<tally, weights, agentUsers>>

NextAdapters ==
    \/ AdapterRestart
    \/ \E r \in Requests :
         \/ \E n \in 0 .. MaxRated :
              \/ \E k \in AdapterKeys : Search(r, k, n)
              \/ \E u \in AdapterUsers : Feedback(r, u, n)
         \/ \E u \in AdapterUsers, scope \in {"agent", "global", "all"} : Reset(r, u, scope)
         \/ ListUsers(r)
         \/ GetAdapter(r) \/ Load(r) \/ CacheAdapter(r) \/ TrainAdapter(r)
         \/ WeightsSet(r) \/ SlotIndex(r) \/ AgentAdd(r) \/ Saved(r)
         \/ WeightsDel(r) \/ AgentRem(r) \/ Evict(r)
         \/ ListAgentUsers(r) \/ ProbeAdapter(r)
         \/ CommandFails(r) /\ UNCHANGED adapterVars

AdapterSpec == InitRequests /\ InitAdapters /\ [][NextAdapters]_<<requestVars, adapterVars>>

-----------------------------------------------------------------------------
(* Properties                                                              *)

AdapterTypeOK ==
    /\ weights \in [AdapterKeys -> SUBSET Training]
    /\ \A k \in AdapterKeys : Cardinality(adapters[k]) <= 1 /\ UNION adapters[k] \subseteq Training
    /\ agentUsers \subseteq AdapterUsers

\* Requests that run one after the other never bring back what a reset was
\* to forget, whichever commands fail and whenever the server restarts.
ResetsForget ==
    ~tally.overlapped => \A k \in AdapterKeys :
      (weights[k] \cup UNION adapters[k]) \cap adapterPast.forgotten[k] = {}

\* When no command fails either, the stored adapter has every training step
\* since the last reset, the cache holds that one, and the agent's index
\* names the users that have one.
AdaptersRemember ==
    ~tally.overlapped /\ tally.faults = 0 /\ Busy = {} =>
      /\ \A k \in AdapterKeys : weights[k] = adapterPast.taken[k] /\ adapters[k] \subseteq {weights[k]}
      /\ ~adapterPast.cut => agentUsers = {u \in AdapterUsers : weights[<<u, "agent">>] # Untrained}

\* Training at the same time loses nothing in the cache, and the store never
\* has what the cache has not, unless an adapter was loaded twice, reset or
\* lost with the server.
TrainingAddsUp ==
    ~adapterPast.raced /\ ~adapterPast.reset /\ adapterPast.restarts = 0 /\ tally.faults = 0 =>
      \A k \in AdapterKeys : adapters[k] # {} =>
        adapters[k] = {adapterPast.taken[k]} /\ weights[k] \subseteq adapterPast.taken[k]

AdaptersHold == ResetsForget /\ AdaptersRemember /\ TrainingAddsUp
=============================================================================
