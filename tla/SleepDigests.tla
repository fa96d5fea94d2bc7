---------------------------- MODULE SleepDigests ----------------------------
(***************************************************************************)
(* Memory digests: the worker of mnemo-ingest writes one for every user    *)
(* that has been idle, clients read and refresh them over HTTP, Redis      *)
(* keeps them and a cache shared by the worker and the handlers serves     *)
(* them.  A digest is the number of facts it was made from.                *)
(*                                                                         *)
(* The worker is one loop: it processes what is queued and then, one user  *)
(* after the other, consolidates those that are idle; handlers run between *)
(* any two of its steps.  What a digest says, and the scores that the      *)
(* re-ranking writes, are left out.                                        *)
(***************************************************************************)
EXTENDS StoreRequests

CONSTANTS Sleepers,  \* users with episodes
          MaxFacts   \* bound: facts of a user

ASSUME SleepAssumption == MaxFacts \in Nat \ {0}

VARIABLES
    facts,      \* the user's graph: how many facts it has
    activity,   \* user_activity: how long ago, or Unseen
    done,       \* digest_generated and rerank_generated
    saved,      \* digest:<user>, or 0
    cache,      \* memory_digests: user -> digest, or 0
    worker,     \* the loop: where it is, the users to do, the digest in hand
    digestPast  \* what the properties remember

digestVars == <<facts, activity, done, saved, cache, worker, digestPast>>

\* Ages of an activity: within the idle window, after it, after 24 hours.
Unseen == "unseen"
Recent == "recent"
Waiting == "idle"
Old == "old"
Older(a) == CASE a = Recent -> Waiting [] a = Waiting -> Old [] OTHER -> a

Polling == [at |-> "poll", digest |-> {}, rerank |-> {}, user |-> "nobody", from |-> 0]

InitDigests ==
    /\ facts \in [Sleepers -> {0, 1}]
    /\ activity = [u \in Sleepers |-> Unseen]
    /\ done = [digest |-> {}, rerank |-> {}]
    /\ saved \in [Sleepers -> {0, 1}]
    /\ \A u \in Sleepers : saved[u] <= facts[u]
    /\ cache = saved
    /\ worker = Polling
    /\ digestPast = [saved |-> [u \in Sleepers |-> {saved[u]} \ {0}],
                     reranked |-> [u \in Sleepers |-> 0], raced |-> FALSE]

-----------------------------------------------------------------------------
(* The worker.                                                             *)

\* Mutant: a user that is active again still counts as done.
ProcessUserDone(u, learned) ==
    /\ worker.at = "poll"
    /\ learned => facts[u] < MaxFacts
    /\ activity' = [activity EXCEPT ![u] = Recent]
    /\ facts' = [facts EXCEPT ![u] = IF learned THEN @ + 1 ELSE @]
    /\ UNCHANGED <<requestVars, done, saved, cache, worker, digestPast>>

\* process_episode: record_user_activity and then, unless it fails, more
\* facts.
ProcessUser(u, learned) ==
    /\ worker.at = "poll"
    /\ learned => facts[u] < MaxFacts
    /\ activity' = [activity EXCEPT ![u] = Recent]
    /\ done' = [digest |-> done.digest \ {u}, rerank |-> done.rerank \ {u}]
    /\ facts' = [facts EXCEPT ![u] = IF learned THEN @ + 1 ELSE @]
    /\ UNCHANGED <<requestVars, saved, cache, worker, digestPast>>

TimePasses ==
    /\ activity' = [u \in Sleepers |-> Older(activity[u])]
    /\ activity' # activity
    /\ UNCHANGED <<requestVars, facts, done, saved, cache, worker, digestPast>>

\* sleep_time_consolidation lists the idle users, those of more than a day
\* included, and then forgets these.
ListIdle ==
    /\ worker.at = "poll"
    /\ LET idle == {u \in Sleepers : activity[u] \in {Waiting, Old}} IN
       /\ idle \ (done.digest \cap done.rerank) # {}
       /\ worker' = [worker EXCEPT !.at = "pick", !.digest = idle \ done.digest,
                                   !.rerank = idle \ done.rerank]
    /\ LET kept == {u \in Sleepers : activity[u] \in {Recent, Waiting}} IN
       /\ activity' = [u \in Sleepers |-> IF u \in kept THEN activity[u] ELSE Unseen]
       /\ done' = [digest |-> done.digest \cap kept, rerank |-> done.rerank \cap kept]
    /\ UNCHANGED <<requestVars, facts, saved, cache, digestPast>>

\* generate_digest reads the graph and asks the LLM; a user without facts,
\* and one whose digest fails, waits for the next round.
GenerateDigest(u, ok) ==
    /\ worker.at = "pick" /\ u \in worker.digest
    /\ ok => facts[u] > 0
    /\ worker' = [worker EXCEPT !.digest = @ \ {u}, !.user = u, !.from = facts[u],
                                !.at = IF ok THEN "save" ELSE "pick"]
    /\ UNCHANGED <<requestVars, facts, activity, done, saved, cache, digestPast>>

\* Somebody has saved or read a digest and not yet put it in the cache.
Caching == {r \in Busy : At(r, "cacheDigest")} # {} \/ worker.at = "cache"

\* save_digest
Save(u, digest) ==
    /\ saved' = [saved EXCEPT ![u] = digest]
    /\ digestPast' = [digestPast EXCEPT !.saved[u] = @ \cup {digest}, !.raced = @ \/ Caching]

SaveDigest(ok) ==
    /\ worker.at = "save"
    /\ worker' = [worker EXCEPT !.at = IF ok THEN "cache" ELSE "pick"]
    /\ IF ok THEN Save(worker.user, worker.from) ELSE UNCHANGED <<saved, digestPast>>
    /\ UNCHANGED <<requestVars, facts, activity, done, cache>>

\* The cache, and the user is done.
KeepDigest ==
    /\ worker.at = "cache"
    /\ cache' = [cache EXCEPT ![worker.user] = worker.from]
    /\ done' = [done EXCEPT !.digest = @ \cup {worker.user}]
    /\ worker' = [worker EXCEPT !.at = "pick"]
    /\ UNCHANGED <<requestVars, facts, activity, saved, digestPast>>

\* proactive_rerank, after the digests: scores that cannot be written are
\* only logged, a graph that cannot be read waits for the next round.
Rerank(u, ok) ==
    /\ worker.at = "pick" /\ worker.digest = {} /\ u \in worker.rerank
    /\ worker' = [worker EXCEPT !.rerank = @ \ {u}]
    /\ done' = [done EXCEPT !.rerank = IF ok THEN @ \cup {u} ELSE @]
    /\ digestPast' = [digestPast EXCEPT !.reranked[u] = IF ok THEN facts[u] ELSE @]
    /\ UNCHANGED <<requestVars, facts, activity, saved, cache>>

NextCycle ==
    /\ worker.at = "pick" /\ worker.digest = {} /\ worker.rerank = {}
    /\ worker' = Polling
    /\ UNCHANGED <<requestVars, facts, activity, done, saved, cache, digestPast>>

-----------------------------------------------------------------------------
(* The handlers.                                                           *)

DigestLocals == [from |-> 0]

RefreshDigest(r, u) ==
    /\ Start(r, Cmd("gather", u, "-") \o Cmd("saveDigest", u, "-") \o Cmd("cacheDigest", u, "-"),
                DigestLocals)
    /\ UNCHANGED digestVars

GetDigest(r, u) ==
    /\ Start(r, Cmd("cacheRead", u, "-") \o Cmd("digestRead", u, "-") \o Cmd("cacheDigest", u, "-"),
                DigestLocals)
    /\ UNCHANGED digestVars

\* The graph, and the answer of the LLM.
Gather(r) ==
    /\ At(r, "gather")
    /\ LET n == facts[This(r).id] IN
       IF n = 0 THEN Refuse(r) ELSE Sent(r, [Loc(r) EXCEPT !.from = n])
    /\ UNCHANGED digestVars

StoreDigest(r) ==
    /\ At(r, "saveDigest")
    /\ Save(This(r).id, Loc(r).from)
    /\ Done(r)
    /\ UNCHANGED <<facts, activity, done, cache, worker>>

CacheDigest(r) ==
    /\ At(r, "cacheDigest")
    /\ cache' = [cache EXCEPT ![This(r).id] = Loc(r).from]
    /\ Done(r)
    /\ UNCHANGED <<facts, activity, done, saved, worker, digestPast>>

CacheRead(r) ==
    /\ At(r, "cacheRead")
    /\ IF cache[This(r).id] # 0 THEN Refuse(r) ELSE Done(r)
    /\ UNCHANGED digestVars

\* Read-through.
DigestRead(r) ==
    /\ At(r, "digestRead")
    /\ LET d == saved[This(r).id] IN
       IF d = 0 THEN Refuse(r) /\ UNCHANGED digestPast
       ELSE /\ Sent(r, [Loc(r) EXCEPT !.from = d])
            /\ digestPast' = [digestPast EXCEPT !.raced = @ \/ Caching]
    /\ UNCHANGED <<facts, activity, done, saved, cache, worker>>

\* The server stops and starts: the cache is filled from Redis, or stays
\* empty if that fails; who was active is forgotten.
RestartServer(warm) ==
    /\ MayFail
    /\ request' = [r \in Requests |-> Idle]
    /\ tally' = [tally EXCEPT !.faults = @ + 1]
    /\ cache' = IF warm THEN saved ELSE [u \in Sleepers |-> 0]
    /\ activity' = [u \in Sleepers |-> Unseen]
    /\ done' = [digest |-> {}, rerank |-> {}]
    /\ worker' = Polling
    /\ UNCHANGED <<facts, saved, digestPast>>

NextDigests ==
    \/ \E u \in Sleepers, ok \in BOOLEAN : ProcessUser(u, ok) \/ GenerateDigest(u, ok) \/ Rerank(u, ok)
    \/ TimePasses \/ ListIdle \/ KeepDigest \/ NextCycle
    \/ \E ok \in BOOLEAN : SaveDigest(ok) \/ RestartServer(ok)
    \/ \E r \in Requests :
         \/ \E u \in Sleepers : RefreshDigest(r, u) \/ GetDigest(r, u)
         \/ Gather(r) \/ StoreDigest(r) \/ CacheDigest(r) \/ CacheRead(r) \/ DigestRead(r)
         \/ CommandFails(r) /\ UNCHANGED digestVars

DigestSpec == InitRequests /\ InitDigests /\ [][NextDigests]_<<requestVars, digestVars>>

-----------------------------------------------------------------------------
(* Properties                                                              *)

DigestTypeOK ==
    /\ facts \in [Sleepers -> 0..MaxFacts]
    /\ activity \in [Sleepers -> {Unseen, Recent, Waiting, Old}]
    /\ done.digest \subseteq Sleepers /\ done.rerank \subseteq Sleepers
    /\ saved \in [Sleepers -> 0..MaxFacts] /\ cache \in [Sleepers -> 0..MaxFacts]

\* What the cache serves was saved in Redis before.
CacheWasSaved == \A u \in Sleepers : cache[u] # 0 => cache[u] \in digestPast.saved[u]

\* The cache serves what Redis has, or nothing, unless the digest is about to
\* be cached, two requests or a request and the worker did so at a time, or a
\* request was dropped in between.
CacheIsStore ==
    ~Caching /\ ~digestPast.raced /\ tally.faults = 0 =>
      \A u \in Sleepers : cache[u] \in {0, saved[u]}

\* However episodes, failures, refreshes and restarts come, a user that counts
\* as done has had a digest, and scores, made from all the facts there are.
DoneIsUpToDate ==
    /\ \A u \in done.digest : facts[u] \in digestPast.saved[u]
    /\ \A u \in done.rerank : facts[u] = digestPast.reranked[u]

DigestsHold == CacheWasSaved /\ CacheIsStore /\ DoneIsUpToDate
=============================================================================
