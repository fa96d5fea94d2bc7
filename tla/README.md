# A TLA+ model of Mnemo

Mnemo is a memory server for AI agents. Clients post *episodes* (chat messages,
events); a background worker extracts entities and facts from them into a
temporal knowledge graph; retrieval assembles context from it; webhooks tell
other systems what changed. Redis holds the documents and queues, Qdrant the
vectors. `mnemo-core` also has a library of clocks and replicated data types for
syncing nodes.

This directory models the parts in which concurrency, failure and retries decide
whether the system is correct, checks them with TLC on small instances and proves
the central results with TLAPS.

## 1. Inventory

| Component (source) | State | Operations | What is hard | What makes it correct | Module |
|---|---|---|---|---|---|
| Episode queue and worker (`mnemo-ingest/src/lib.rs`, `mnemo-storage/src/redis_store.rs`) | episode documents, sorted set `pending_episodes`, locals of each worker's poll cycle | create, delete, clear; poll, claim, process, retry, give up | several replicas poll one queue with no lock or transaction; every Redis command may fail; workers crash; copies go stale | one worker per episode; nothing lost; finished stays finished; everything finishes | `EpisodeIngest` |
| Graph writes of ingestion (same files) | entities, name index, edges, adjacency lists, belief changes | resolve or create entities, invalidate conflicting and superseded facts, store the new fact; delete an entity, rewrite an edge | many commands per episode, failure anywhere and retry from the start, episodes of one user processed at once | facts point to existing entities; history is kept; the latest fact is the current one | `GraphIngest` |
| Memory webhooks (`mnemo-server/src/routes.rs`) | subscriptions and event rows in memory, rate limiter and circuit breaker, copy in Redis | register, update, delete, emit, deliver, retry by hand, save, restore | spawned delivery tasks beside handlers, timeouts after which the receiver may have the event, restarts, unserialised snapshots | status rows tell the truth; every event ends delivered or dead; what is saved is what is in memory | `WebhookDelivery` |
| Hybrid logical clock (`mnemo-core/src/sync.rs`) | last wall time, counter | `now`, `receive` | wall clocks that stand still, differ and step back | causality; uniqueness; monotonicity | `HybridClock` |
| G-counter, vector clock (same) | per-node counts | increment, merge, compare | snapshots late, twice, never | the counter is exact; comparison is causality | `ReplicatedCounter` |
| LWW register and map (same) | entries with timestamps, tombstones | put, remove, merge | as above | last writer wins; convergence | `LwwMap` |
| OR-set (same) | tags per element, sequence counters | add, remove, merge | as above, removals | unique tags; additions win; (convergence) | `OrSet` |
| Merkle digest (same) | – | build, diff | order of listing, keys not hashed | finds exactly the differing prefixes | `MerkleDigest` |
| Identity allowlist tree (`mnemo-core/src/models/agent.rs`) | – | build, prove, verify | odd layers | listed keys verify, others never | `AllowlistProofs` |
| Users, sessions, session summaries (`redis_store.rs`, `routes.rs`, `mnemo-ingest/src/lib.rs`) | user and session documents, their indexes, episode counts | create, find or create, update, delete, remember, clear; complete, summarise | read-modify-write of the session by handlers and worker; half-created users | no count runs ahead; one home per name; one summary per threshold | `Conversations` |
| Sleep-time consolidation, digests (`mnemo-ingest/src/lib.rs`, `routes.rs`) | idle times, done flags, digest cache, digests in Redis | process, digest, re-rank; refresh, read; restart | one slow loop beside handlers on the same cache | what counts as done is up to date; the cache serves what was saved | `SleepDigests` |
| Agent identity, experience, audit chain; branches and forks (`redis_store.rs`, `routes.rs`, `models/agent.rs`) | current document, versions, index, hash-chained events | register, update, rollback, delete, branch, merge, fork | four commands per update, no transaction | every version kept and announced; the chain verifies | `AgentIdentity` |
| Promotion proposals (same) | proposal documents, policies | create, approve, reject, set policy | decisions on copies; quorum over several requests | applied once, backed by its quorum | `Promotions` |
| API keys (`middleware/auth.rs`, `routes.rs`) | key documents, hash lookup, cache with a lifetime | authenticate, create, revoke, rotate | cache; the key is written back on use | revoked means refused | `ApiKeys` |
| Regions and ACLs (`redis_store.rs`, `routes.rs`) | regions, grants, indexes both ways | create, update, delete, grant, revoke, list | expiry with lazy sweep; two-phase deletion | granted means reachable; deleted means gone | `Regions` |
| Import jobs (`routes.rs`) | job table, idempotency keys, permits | start, run row by row, finalise, evict | two lock scopes; clients that go away; rows that fail | every message accounted for; one job per key | `ImportJobs` |
| Named documents: views, guardrails, goals, narratives (`routes.rs`, `redis_store.rs`) | one document each, listings, names of goals | create, update, delete, refresh | document, listing and name are separate commands; the check of the name is another | kept means readable and listed; deleted means gone; names are unique | `Records` |
| Clarifications (`routes.rs`, `models/clarification.rs`) | requests with their facts, index, validity of the facts | generate, list (with expiry), resolve, dismiss | losers invalidated one by one, errors ignored, two clarifications of one conflict | resolved means one fact is left | `Clarifications` |
| User memory policies (`routes.rs`) | policies in memory, copy in Redis | get, upsert, delete with the user, restore | downgrade check and write under two locks; a save of the whole map; restarts | no contract weakens unasked; what is saved is what is in memory | `UserPolicies` |
| Graph engine (`mnemo-graph/src/lib.rs`) | the locals of a traversal | neighbourhood, shortest path, communities | the store changes between two reads | closest first, shortest, connected; nothing of another user's | `GraphTraversal` |
| Listing and paging (`redis_store.rs`, `routes.rs`, `grpc.rs`) | sorted sets, the client's cursor | page, filter, replay | records come and go between pages; equal scores; filters after the page | who pages to the end has seen what stayed; the end comes | `Paging` |
| Time-travel reports (`routes.rs`, `models/edge.rs`) | none of their own: the two times of every fact | changes since, trace, conflict radar | facts told late, or to begin later; retention; contracts that look at today | windows add up to what was valid; a trace explains its snapshots | `FactTimeline` |
| Attachments (`routes.rs`, `*_blob_store.rs`) | blobs, metadata | upload, analyse | – | – | not modelled |
| DAG pipeline (`mnemo-ingest/src/dag.rs`) | – | – | no binary runs it | – | not modelled |
| LoRA adapters (`mnemo-lora/src/lib.rs`, `redis_store.rs`, `routes.rs`) | adapters in memory, weights in Redis, an index per agent | search, feedback, reset, list | trained in a cache, saved afterwards; loaded on demand under two locks | training adds up; reset means forgotten | `LoraAdapters` |
| Retrieval, reranking, embeddings | read-only or floating point | – | numerics | – | not modelled |
| Encryption, Qdrant, LLM clients, gRPC, MCP, dashboard, SDKs | – | – | I/O | – | not modelled |

Interactions. The server's handlers and the workers share nothing but Redis (and,
in one process, the digest cache); `EpisodeIngest` is that protocol for the queue,
`Conversations` for the session document, `SleepDigests` for digests. `process_episode`, one step of it, is opened up
in `GraphIngest`: there an attempt is a sequence of commands, and failing and
coming back is one action (`Abort`), whose outcome (retry or give up) is what
`EpisodeIngest` does in detail. Ingestion emits webhook events; `WebhookDelivery`
starts where `emit_memory_webhook_event` is called. Timestamps of `LwwMap` come
from `HybridClock`, which shows that they are totally ordered and unique, and
that is all `LwwMap` assumes. `Promotions` applies a candidate with the commands of
`AgentIdentity`, and `ImportJobs` stores its rows with those of `Conversations`: both
extend the module they call, and requests of both run side by side.

`PROJECT.json` lists the components with what is left out of each, the hazards at
their lines, and the map from definitions to source lines.

## 2. The modules and the code

**EpisodeIngest.** One step per Redis command. `status`/`retry` are the fields of
the stored document, `pending`/`score` the sorted set. `posting` and `deleting`
are handlers between two commands. `stage[w][e]` is where worker `w`'s current
cycle is with `e`, from `listed` (ZRANGE) over `loaded`, `selected`, `removed`
(ZREM returned 1), `read`, `claimed` to `completed`, `failing`, `requeueing`;
`copy[w][e]` is the retry count in the copy that the *poll* loaded, which is what
`handle_failure` later stores. `ClaimMissing` and `PollError` are the `?` that
ends a cycle and drops what it had claimed; `SummaryError` is the `?` after the
completed document is stored. Abstracted: which candidates a batch takes
(`PollSelect` takes any set of at most `BatchSize`; the code takes turns over users
and looks at priorities), and the session document, which is in `Conversations`.

**WorkQueue.** What the queue promises, without Redis: an item waits, is taken by one
worker, is given back or is over. `EpisodeIngest` implements it (`IsWorkQueue`): the
mapping `place` says that an id in the sorted set waits and one in a worker's hands
is taken; an id that a crash, a failing claim or a deletion takes out of both is over, which is
exactly what the code never repairs. A stale ZADD that puts a finished id back, or
two owners, would be steps the abstract queue does not have.

**GraphIngest.** Every episode states one fact about one subject, with one label
and one of several objects, because that is the case in which facts compete. The
actions follow `process_episode` from `Extract` to `Complete`, with the two
listings of the subject's edges (`FindConflicts`, `FindBeliefs`), the errors that
end an attempt (`Fail`) and the ones that are ignored (`FindBeliefsError`,
`SupersedeError`, `RecordError`). `RewriteRead`/`RewriteStore` are
`record_edge_access` and `revalidate_fact`; `DeleteDoc`/`DeleteName` are
`delete_entity`. Summaries, embeddings and mention counts are left out.

**WebhookDelivery.** One webhook. Every critical section of a lock and every Redis
command is a step. A process is a handler or a task; a handler that spawns a
delivery as its last act goes on as that delivery. Events are numbered in the
order in which their rows are pushed. `Send(p, got, success)` separates what the
receiver got from what the task learns. Left out: the audit rows (their saves are
there: `SaveThen` with 2), the URL checks, and the branch for a payload that
cannot be serialised, which these types cannot reach.

**HybridClock, ReplicatedCounter, LwwMap, OrSet** (over **SyncNodes**). One action
per method; snapshots sent stay on the network, so they are delivered late, twice,
out of order or never. The histories `before`, `past`, `written`, `added` and
`removed` say what a node knows, to state causality and convergence.

**MerkleDigest, AllowlistProofs.** Two pure algorithms. A hash is the term it was made
of. States are the inputs: two listings that grow item by item, or a list of keys with a
proof drawn up sibling by sibling from the hashes at hand.

**StoreRequests.** How the rest of the server uses Redis: a request is the list of
commands it has still to send with the locals of its handler, one command per step,
commands of other requests between any two. A command that fails ends the request
with what it stored before in place, or goes on at the next `catch`, a `match` on
the result. `tally` counts requests and failures and remembers whether two requests
ever overlapped; whether requests overlap, and whether a command fails, are bounded
together (below).

**AgentIdentity, Promotions.** `identity`, `snapshots`, `versions` are the keys
`agent_identity`, `agent_identity_version`, `agent_identity_versions`; `events` and
`audit` the audit documents and index. An operator named like a store method
(`persist_identity_snapshot`, `append_identity_audit`, `fork_agent`, ...) is the list
of commands it sends; an action named like a handler starts a request with it; the
commands are actions of their own (`SetCurrent`, `SetVersion`, `AddVersion`,
`ReadTail`, `SetEvent`, `AddEvent`). An event's hash is its number, since it covers
the previous hash and a time. A branch is an identity under the key of agent and
branch. `Promotions` adds `Decide`, which judges the copy that `ReadProposal` loaded, and
`AgencySpec`, the requests of both side by side.

**ApiKeys, Regions.** The authentication of a request is `AuthCache`, `AuthLookup` (the
key as Redis has it), `AuthAnswer` (has it expired by now?), `AuthInsert` (`cached_at` is
the time of this step) and `AuthTouch`, which stores the whole key with a new
`last_used_at`; seconds pass between any two of them.
`list_agent_accessible_regions` is `Reach` (the ids), `Probe` (each entry, expired
or not) and `Sweep` (the lazy clean-up).

**Conversations, ImportJobs.** Users, sessions and episodes with the indexes and the
counters, and the worker's completion of an episode with its summary check. The
episode's own life is shortened to queued, in work, completed. An import is one
request whose handler goes on as its task.

**SleepDigests.** The one worker loop of one server process (`ProcessUser`, `ListIdle`, `GenerateDigest`,
`SaveDigest`, `KeepDigest`, `Rerank`, `NextCycle`) beside the two handlers. A digest is
the number of facts it was made from.

**Records, Clarifications, UserPolicies.** A key of `Records` is a kind and an id or
name; `docs` are the documents, `listed` the index the listing reads, `goalNames` the
second index of goals. `Clarifications` is about one conflict: its facts
are valid or not, and `LoseAll`/`FactRead`/`FactInvalidate`/`FactCaught` are the loop over
the losers whose errors are logged. A policy is the strictness of its contract:
`PolicyCheck` and `PolicySet` are the two lock scopes of `upsert_user_policy`,
`PolicyCopy` and `PolicySave` those of `persist_webhook_state`.

**LoraAdapters.** An adapter is the set of the training steps that made it. `TrainAdapter`
is `update_from_access` and `update_with_rating`, one step under the write lock,
followed by the commands of `save_lora_weights`; `GetAdapter`, `Load`, `CacheAdapter` are
`get_adapter` with its two locks; `Reset` is `delete_agent_lora` in its three scopes.

**GraphTraversal.** `Visit`, `Search`, `Propagate` take one entity each, in the order of
the queue; the order in which the store lists edges is left open, and an entity is taken
to have no more edges than the 1000 that a listing returns (redis_store.rs:873, 879). Between any two steps
an entity may be deleted or an edge stored or invalidated. Of the entities other than
the ends one may be another user's or missing.

**Paging.** `index` is the sorted set, `docs` the documents; `Ask`, `ReadIndex`,
`GetItem`, `EndPage` are the call of a client, or of the server's own loops
(`list_all_...`), for one page, `ReplayRows` the replay of a webhook's rows, which
copies them under a lock. `troubles` remembers what the cursor of the code cannot
cope with.

**FactTimeline.** The facts compete for one subject and label; `valid_at`, `invalid_at`
and `ingested_at` are the fields of the edge. `Say` and `Ingest` move them, and the
reports are operators over them, named like the handlers and their variables
(`added_facts`, `SnapshotAt`, `gained_facts`, `timeline`, `conflict_radar`).
`memory_changes_since` is a client that asks for one window after the other and
keeps count in `follower`.

**MC modules.** `MCEpisodeIngest`, `MCWebhookDelivery` add
symmetry sets. `MCSync`, `MCServer` and `MCMemory` put parts that share no state into
one model: `subject` says which of them a behaviour is about, and the others stay in
one initial state.

Definitions marked `Mutant:` are not part of the specification. Each is a way the
code could plausibly be wrong; put in place of the definition that follows it, it
makes TLC refute the property it is listed with in `PROJECT.json`.

## 3. The runs

| Run | Properties | Instance |
|---|---|---|
| `ingest_safety` | `TypeOK`, `NoDoubleClaim`, `NothingStranded`, `QueuedIsPending`, `TerminalIsFinal`, `IsWorkQueue` | 2 workers, 2 episodes, 1 retry, 1 delete, 1 crash, 1 fault; 0.5 M states |
| `ingest_liveness` | `EventuallyProcessed` | 2 workers, 2 episodes, batches of 1, 1 retry, a clock of 2 values; 45 k states |
| `ingest_backoff` (violation) | `BackoffRespected` | 1 worker, 1 episode |
| `webhook_delivery` | `TypeOK`, `RowsAreTrue`, `EventuallySettled` | 2 processes, 2 events, a ring of 1 row, 2 attempts, rate limit 1, threshold 2, 1 delete; 0.3 M states |
| `webhook_requests` | `RequestsAreKept` | 1 process at a time, 2 events, one each of update, delete, retry, DNS block, failed SET, restart; 0.9 M states |
| `webhook_restart` (violation) | `EventuallySettled` | 1 process, 1 event, 1 restart |
| `sync` | `TypeOK`, `CausalOrder`, `ClocksIncrease`, `CountersAreExact`, `LastWriterWins`, `MapsConverged`, `AddsSurvive`, `TreesTell`, `TraversalsAreExact`, `PagesReachAll`, `TimelineHolds` | 3 nodes; 3 operations, 2 snapshots; 3 resources of 2 contents; up to 5 keys, 2 siblings; every graph of 4 entities, depth 2 or 3, 2 or 4 nodes, 1 change; lists of 3 records at 3 times, pages of 1 or 2, a ring of 2 rows, 1 change; 2 facts at 4 times, 1 of retention; 0.7 M states |
| `or_set_converged` (violation) | `SetsConverged` | 2 additions, 1 removal |
| `memory` | `TypeOK`, `FactsAreGrounded`, `BeliefsAreTrue`, `QuietGraphIsTrue`, `SupersededIsFinal`, `ChainUnlessOverlapped`, `HistoryIsTold`, `PromotionsHold` | 2 episodes, 2 objects, 2 attempts, any 2 of: fault, ignored error, deletion, rewrite; or 3 requests one after the other with 1 failing command, or 2 that overlap, on 1 agent, 1 branch, 1 fork, 1 proposal, 2 approvers; 1.0 M states |
| `server` | `ServerTypeOK`, `KeysAreTrusted`, `RegionsAreReached`, `ConversationsHold`, `ImportsAreHonest`, `DigestsHold`, `RecordsHold`, `ClarificationsHold`, `PoliciesHold`, `AdaptersHold` | the same requests for each of nine subjects; 2 keys, 1 region, 2 agents, 1 user and session name with 2 ids each, 2 jobs of up to 2 rows, 1 user with 2 facts, 1 record name with 2 ids, 2 clarifications of 2 facts, contracts of strictness 0 and 1, adapters of 1 user with 3 training steps, 3 seconds, 1 restart; 0.5 M states |
| `session_summary` (violation) | `SummariesAreWritten` | conversations only, threshold 1 |
| `listing_filtered` (violation) | `ListingsEnd` | 2 records, pages of 1 |

Why these bounds are enough for the question asked. Races over an episode are
races of two; a second episode is there because a failing claim drops the
others of its batch. One retry gives both outcomes of `handle_failure`. In the
graph two facts suffice to compete, and two attempts let one start from what
another left; the disturbances are bounded together because each is a guard of
some property on its own, and two of them meet. A ring of one row overflows with
the second event while the first is being delivered; rate limit 1 and threshold 2
make both rejections happen within two attempts. For the clock, two wall times and
one counter step make a clock meet an equal, an older and a newer wall time. For
the data types three nodes let a snapshot reach one node directly and through
another. Five leaves make an odd layer above an even one. Four entities hold a
detour, a cycle and a path of three hops; three records a page, its cursor and a
rest. Two facts suffice to compete and to supersede, four times to hold two windows
with a fact that is told late for the first. Of server requests, three
in a row make a third meet what a failing second left of what the first stored (the
deepest case: update, failed rollback, update); two that overlap reach every
interleaving of two handlers' commands, which is what each race here needs. Overlap and failing
commands are not combined (`MaxOverlappingFaults = 0`), because every property that
tolerates the one is guarded against the other.

All runs say `CHECK_DEADLOCK FALSE`: with bounded requests the system comes to
rest when there is nothing left to do.

**Fairness.** `EpisodeIngest`: `WF` on the ZADD of a begun create request, and on
each worker's own step, because `run()` never returns. Nothing is assumed of
clients, faults or the clock. `WebhookDelivery`: `WF` on each process's step (tokio
runs what is ready, sleeps end, requests have a timeout) and on the passing of the
rate window and of the cooldown (time goes on). No success of a request is assumed.
`Paging`: `WF` on the steps of the one call (the server answers and the client asks on);
the run that uses it has nothing else going on.

**What the guards of the properties say.** Several properties hold only while
something does not happen, and the guard names it, because without it the code
does not keep them:

- `NothingStranded` – no crash, no failing command, no deletion. A worker that
  dies after ZREM, or one failing claim in a batch, leaves episodes in status
  `processing` that nobody has and no queue holds; nothing recovers them, although
  API.md:2143 calls this status "Currently being processed by the ingestion worker".
- `TerminalIsFinal` – no failing command. An error in the summary check after the
  completed document is stored makes `handle_failure` put it back to pending.
- `MaxPosts = 1` – an id that a client posts again while it is in work is
  processed a second time beside the first.
- `OneEntityPerName`, `LatestFactIsCurrent` (in `QuietGraphIsTrue`) – no two episodes at once
  (`overlap`). Find and create, and listing and storing, are separate commands: two
  episodes create the entity twice, or leave two competing facts valid.
- `SupersededIsFinal` – no edge rewritten. `revalidate_fact` and
  `record_edge_access` store a copy read earlier, and a fact superseded in between
  is current again (API.md:786: "superseded facts cannot be revalidated").
- `BeliefsAreTrue` – no ignored error. `auto_superseded = true` is recorded even
  when `update_edge` failed (edge.rs:251).
- `RowsAreTrue` – a row says dead for good reason only if nobody retried it by hand:
  two tasks then report on one row, and a late failure marks a delivered event as dead.
- `QuietMeansSaved`, `DeletedIsGone` (in `RequestsAreKept`) – one request or task at a time, no failed
  SET. Two saves at once may write the older copy last (ARCHITECTURE.md:413), and
  an update that read the subscription before it was deleted inserts it again
  (API.md:1438).
- `EventuallySettled` – no restart and no attempt blocked by `validate_webhook_dns`
  before the last, which ends the task without marking the event dead.

- `ChainUnlessOverlapped`, `HistoryIsKept` (in `HistoryIsTold`), `AppliedUnlessOverlapped`
  (in `PromotionsHold`) – requests one after the other. Two appends at once link to the same event
  (redis_store.rs:1845) and the chain never verifies again; two updates at once store
  the same version number; two approvals at once both apply the candidate.
  `VersionsAnnounced` and `QuorumBacked` need no such guard. `HistoryIsKept` leaves out
  agents that were ever deleted, whose registration starts a new history over the old
  snapshots, and names one edit that is in no snapshot and no event: registering an agent
  that exists writes the description into its core under the version it has
  (redis_store.rs:964-972). API.md:1687 calls the history append-only; after such an edit
  the current core may have a description that its snapshot lacks, and nothing else.
- `RevocationSticks` (in `KeysAreTrusted`) – no authentication with that key under way:
  the write of `last_used_at` stores the key as it was read, and undoes the revocation
  (auth.rs:266), so that "Revoked key returns 401 immediately" (MNEMO_0.6.0.md:136) does
  not hold of that key.
- `TrustIsBounded` (in `KeysAreTrusted`) – no guard, but the bound is `KEY_CACHE_TTL_SECS`
  *plus* the time that passed between the lookup and the insert into the cache, or the
  write of `last_used_at`: auth.rs:241-258 awaits Redis and a lock without a timeout and
  only then takes `cached_at`. Of a key that was revoked meanwhile that is how much longer
  it is trusted.
- `GrantsReach` (in `RegionsAreReached`) – no listing that had found an older, expired
  grant and was still to remove it.
- `AllCounted`, `OneHome` (in `ConversationsHold`) – requests one after the other, one
  miss per failed command. `NeverAhead` needs no such guard. All three are about ids that
  are new. The API takes ids from clients for sessions and episodes (session.rs:124,
  episode.rs:206) and does not look whether they exist: a session posted again starts
  with a count of 0, an episode posted again is counted twice.
- `OneJobPerKey` (in `ImportsAreHonest`) – the two requests did not overlap, the server
  did not restart, the job was not dropped for its age.
- `CacheIsStore` (in `DigestsHold`) – not two writers of the cache at once. What was
  cached was saved (`CacheWasSaved`), and done means up to date (`DoneIsUpToDate`),
  whatever overlaps within one server process: the cache and the done flags are its
  memory, and what a second process stores meanwhile is outside the module.
- `DeletedRecordsAreGone`, `NamesTell` (in `RecordsHold`), `DecidedOnce` (in
  `ClarificationsHold`), all of `PoliciesHold` – requests one after the other. Two creates
  at once take one name, an update that had read a document stores it again after its
  deletion, a downgrade is judged against a policy replaced in between
  (routes.rs:2919). `KeptRecordsStay`, `LosersAreInvalid` and `WinnersStay` hold beside
  other requests; that every loser is invalid needs all of its commands to have worked.
- `ResetsForget`, `AdaptersRemember` (in `AdaptersHold`) – requests one after the other: a
  training step that is saved after the reset brings the adapter back. `TrainingAddsUp`
  holds beside other requests, unless two of them load one adapter for the first time at
  once: the later one caches what it read and drops the training in between. Nor does it
  hold after a failed read, which counts as "no adapter" (lib.rs:236) and lets the next
  training overwrite the stored one.
- `NeighbourhoodIsExact`, `PathIsShortest` (in `TraversalsAreExact`) – the graph did not
  change meanwhile, and no entity has more than 1000 edges. That communities are joined by edges, and that nothing is listed
  twice or beyond the depth, needs no guard. Deletions may leave gaps in a path.
- `PagesReachAll` – two entries with one score, a cursor whose record was erased, an
  entry without a document, an agent updated after it was listed, a filter that matches
  nothing on a page: each of them hides records from the client or shows them twice.
  API.md:3151 says "When `count < limit`, you've reached the last page", which an entry
  without a document refutes; and the cursor of `GET /agents` is the time of the last
  update, while the score is that of the registration (routes.rs:8237,
  redis_store.rs:1020). The replay of a webhook's rows needs none of these guards.
- `FollowersKnow` (in `TimelineHolds`) – facts told, or superseded, behind the time the
  client has asked for (`late`): a fact begins when its episode happened, and nobody is
  told that an old window has changed. "`changes_since` API returns gained/lost facts
  between two timestamps" (CAPABILITIES.md:40) holds for windows whose episodes
  are all processed. `Unborn` are facts that were to begin in the
  future and are superseded before: they count as added although they never held.
- `TracesReplay` (in `TimelineHolds`) – episodes within retention: the timeline leaves out
  the others, while the snapshots keep their facts. The contracts `current_strict` and
  `support_safe` drop whatever is superseded *now* from both snapshots, so that they
  never report a lost fact; what they do report is on the timeline.
- `ConflictsArePast` (in `TimelineHolds`) – facts ingested one after the other, as in
  `LatestFactIsCurrent`: the radar then finds two active facts at past times only.

Five of the disagreements between documents and code are runs of their own
(`expect: violation`, with a finding each): the retry delay that the poll does not
look at, deliveries that a restart forgets, the OR-set that does not converge, the
session summary that is never written, and the filtered listing that starts over for
ever. The models show more of them: retries beyond
the limit with two workers (stale `copy`, lib.rs:962), an episode completed twice after an error in the
summary check (lib.rs:1280), a deleted episode stored again by the worker
that has it, messages that stay `pending` because nothing marks them `skipped`
(API.md:2146), ids without a pending document that fill the poll's window
(redis_store.rs:584), a forced webhook retry that sends nothing (API.md:1364), an open
circuit whose own rejections open it again (ARCHITECTURE.md:412), and the experience
events and the first audit event of a fork, which are stored under keys that no listing
asks for (API.md:1817; redis_store.rs:1708 and 1758 against 1174), and the adapters of a
deleted user, which stay, as `delete_all_lora_weights_for_user` ("called on user deletion",
storage.rs:719) has no caller.

## 4. The proofs

Proved with TLAPS for all values of the constants that satisfy the named `ASSUME`s:

| Theorem | Statement | Needs |
|---|---|---|
| `EpisodeIngestProofs!TypeCorrect` | `Spec => []TypeOK` | – |
| `ClaimIsExclusive` | `Spec => []NoDoubleClaim` | `MaxPosts = 1` |
| `QueueHoldsPending` | `Spec => []QueuedIsPending` | `MaxPosts = 1` |
| `TerminalStatusIsFinal` | `Spec => TerminalIsFinal` | `MaxPosts = 1` |
| `NothingIsStranded` | `Spec => []NothingStranded` | `MaxPosts = 1` |
| `SingleWorkerAttempts` | `Spec => []AttemptsBounded` | `MaxPosts = 1`, one worker |
| `EpisodeIngestProofs!QueueIsImplemented` | `Spec => IsWorkQueue` | `MaxPosts = 1` |
| `SyncProofs!ClockTypeCorrect`, `CausalityIsRespected`, `ClocksAreMonotonic`, `StampsAreUnique` | types, `CausalOrder`, `ClocksIncrease`, `StampsUnique` | – |
| `SyncProofs!HighestStampWins`, `MapsConverge`, `EntriesNeverGoBack` | `LastWriterWins`, `MapsConverged`, `NeverGoesBack` | – |
| `SyncProofs!AddsAreNeverLost` | `SetSpec => []AddsSurvive` | – |
| `SyncProofs!ClocksDecideCausality`, `CountersConverge` | `CounterSpec => []ClockIsCausality`, `[]CountersConverged` | – |
| `GraphIngestProofs!GraphTypeCorrect`, `FactsStayGrounded`, `SupersededStaysSuperseded`, `BeliefsTellTheTruth`, `QuietGraphTellsTheTruth` | types, `FactsAreGrounded`, `SupersededIsFinal`, `BeliefsAreTrue`, `QuietGraphIsTrue` | – |
| `GraphIngestProofs!TimelinesHold` | `TimelineSpec => []TimelineHolds` | – |
| `WebhookDeliveryProofs!WebhookTypeCorrect`, `RowsTellTheTruth` | `TypeOK`, `RowsAreTrue` | – |
| `WebhookDeliveryProofs!SerialRequestsAreKept` | `Spec => []RequestsAreKept` | one process |
| `ServerProofs!KeyTypesCorrect`, `KeysStayTrusted` | `KeySpec => []KeyTypeOK`, `[]KeysAreTrusted` | – |
| `ServerProofs!PolicyTypesCorrect`, `PoliciesStayInForce` | `PolicySpec => []PolicyTypeOK`, `[]PoliciesHold` | – |
| `ServerProofs!DigestTypesCorrect`, `DigestsAreCurrent` | `DigestSpec => []DigestTypeOK`, `[]DigestsHold` | – |
| `ServerProofs!RegionTypesCorrect`, `RegionsStayReached` | `RegionSpec => []RegionTypeOK`, `[]RegionsAreReached` | ids of regions are finitely many, no agent is called `Nobody` |
| `ServerProofs!AdapterTypesCorrect`, `AdaptersStayLearnt` | `AdapterSpec => []AdapterTypeOK`, `[]AdaptersHold` | – |
| `AgentProofs!RecordTypesCorrect`, `RecordsStayTrue` | `RecordSpec => []RecordTypeOK`, `[]RecordsHold` | some name is given to records, and `NoName` is none of them |
| `ConversationProofs!ClarTypesCorrect`, `ClarificationsStayTrue` | `ClarSpec => []ClarTypeOK`, `[]ClarificationsHold` | ids and facts are finitely many |
| `ConversationProofs!ChatTypesCorrect`, `ConversationsStayTrue` | `ConversationSpec => []ConversationTypeOK`, `[]ConversationsHold` | ids are positive, and no person and no session is called as the absent ones are |
| `AgentProofs!AgencyTypesCorrect`, `ChainsVerify`, `QuorumIsBacked`, `PromotionsTakeEffect` | `AgencySpec =>` types, `[]ChainUnlessOverlapped`, `[]QuorumBacked`, `[]PromotionsHold` | agents and branches are finitely many, no agent is called like a fork, and no branch's key is an agent's |

*Ingestion.* `TypeInv` strengthens `TypeOK` with what bounds `retry`. `ClaimInv`
is the invariant of the claim protocol: `NoDoubleClaim` itself is not inductive,
since a new post could meet its id somewhere (`UnpostedIsNowhere`), and finality
needs to know what the document says at each stage (`StatusMatches`).
`ChoosingOwnsNothing` (a worker still choosing its batch owns nothing) makes the
drop of a poll's locals harmless. `StrandInv` adds that without deletions every
posted document is there, so `claim_episode` meets none missing. `AttemptInv` ties
the failures so far to the retry count of the copy; it is here that one worker is
needed.

*Work queue.* `WorkQueue` knows one `place` per episode: new, waiting, with a
worker, over. The refinement mapping reads it off the sorted set, the worker's
locals and the history of posts; the lemmas `PlaceNew`, `PlaceWaiting`,
`PlaceTaken`, `PlaceOver` say when, and rest on `ClaimInv`: without exclusive
claims an episode would have two places. Every step moves at most one episode
(`PlaceMoved`) or none (`PlaceKept`), except a dropped poll and a death, which are
`Lose(w)`: all the worker holds is over at once.

*Clock.* `ClockInv` adds `ClockIsAhead`: a node's clock stands at or above every
timestamp it issued. Both `now` and `receive` step upwards, past their causes
(`NowUpwards`, `ReceiveUpwards`), and `Less` is transitive.

*Map.* `MapInv` carries `LastWriterWins` over to the snapshots on the network
(`SnapshotsAreLast`), and adds that their writes are known to some node and that a
timestamp belongs to one write (`StampsOnce`), from which convergence follows.

*Set.* `SetInv` carries `AddsSurvive` over to the snapshots (`SetSnapshotsFit`): a merge
unites two sets of tags, and keeps an add only because the sender kept it too. That no
two adds share a tag needs `TagsAreCounted`: a node's counter stands above every tag it
has given out, of which there are finitely many.

*Counter.* `CounterInv` is about `States`, the nodes' states and the snapshots alike,
since a merge makes one of each. `PastIsClosed`: whoever has heard of a node's k-th event
has heard of those before it, so a slot of the clock stands for a set of events
(`ClockTells`), and comparing slots compares pasts. `OwnClockLeads`: no state knows more
events of a node than the node. `NewState` says once what a new state must satisfy.

*Graph.* The invariant has three layers. `BaseInv` says what an attempt under way holds
(`LocalsFit`) and that an edge written is stored before it is indexed (`EdgesAreStored`).
`GroundInv` extends `FactsAreGrounded` to the ids an attempt has resolved but not used yet
(`IdsAreGrounded`): they are why a later `create_edge` is grounded. `QuietInv` is about
histories without overlap: at most one attempt works (`OneAtATime`), the name index it
reads does not move under it (`NamesAreStable`), and what it has still to supersede is
what it found (`SupersedingGoesOn`); only with these is `LatestFactIsCurrent` preserved by
the step that indexes the new edge.

*Timeline.* `OneSupersedesTheOther` orders the edges of a relation by ingestion, each
invalidated when the next begins, and gives the radar's property; `FollowerFits` ties
what a client has been told to the times it asked for. That replaying a window's events
ends at its later snapshot (`TimelineReplays`) is a lemma about the two snapshots alone.

*Webhooks.* `PlaceInv` types the state, says what a process in the middle of a handler
works with (`PlacesFit`), and counts the handlers about to emit, each with a number left
(`RoomToEmit`). For `RowsAreTrue` the rows in Redis and in the snapshots on their way
there have to be true as well, since a restart reads them back (`DeliveriesAreTold`,
`DeadLettersAreTold`). A dead letter is true because, as long as nobody retries by hand,
an event has at most one task in all (`OneTask`, counting handlers that are still saving
before they spawn one), and that task's attempt number counts the event's failures
(`FailuresAreCounted`). `LatestIsKept` is inductive up to the size of an interval: the
rows kept after `EmitStore` are those with at most `MaxRows` rows from them on.
`SerialInv` says, place by place, how memory and Redis may differ while one process runs.
With two, `RequestsAreKept` is false: snapshots are copied and written without a lock
around both, so an older one may be written last. `WebhookAssumption` asks for finitely
many processes at once, which a server has.

*API keys.* `KeyInv` says where every request stands and what it knows there
(`InPlace`): a request is the list of the commands it has still to send, so the lemmas of
the first part name each such list (`CacheTodo`, `LookupTodo` ...) and give its first
command and its rest. A request past its lookup holds a copy of the key and the time of
the lookup, when the key was active, if it was active at all (`Authorizes`). Seconds pass
wherever it stands, so what it caches may be younger than `lastActive`, by no more than
it has waited (`ActivityIsKnown`). A key is `Settled` when it
is revoked and nobody holds such a copy. Revoking settles it or marks it raced, no step
unsettles it (`OthersStay`), and eviction comes after, so `RevokedIsSettled` needs the
middle stage: a request about to evict knows its key settled or raced. That a new key
takes a free id is the least-element theorem for the naturals.

*User policies.* `PolicyInv` types the state and says where every request stands: a
handler's last command comes after at most two saves (`EndsWith`), and `FitsPolicy` is
what the handler knows about it. `PoliciesHold` speaks of requests one after the other
without a failing `SET` (`Serial`), restarts included, so what is in force has to be at
or above the floor in memory *and* in Redis (`FloorsHold`). The two agree except for the
defaults of gRPC handlers or while a request is saving (`AllSaved`, `SavesNow`), and the
copy about to be saved is then still what is in memory (`CopyIsFresh`). That the audit row
of a downgrade saves the policies first is what keeps the floor in Redis when an admin
lowers a contract; `HasSaved` carries this to the steps after a save. `PolicyMove` says once
what a command that is not about saving has to preserve.

*Memory digests.* `DigestInv` says where every request is and what it holds there
(`HasDigest`). `WorkerFits` is why a user that is done has a digest of all its facts: the
loop that consolidates is the one that ingests, so the graph does not grow between the
gathering and the save. `StoreWasSaved` carries to the cache that it holds what was saved.
That it holds what Redis has *now* is true only without faults and races, and needs
`OneCaches`: then at most one handler or the worker has a digest for the cache, and that
digest is the saved one. `DoneIsUpToDate` and `CacheWasSaved` are inductive beside these.

*Memory regions.* `RegionInv` says what a handler knows once it has read a region's document
(`Looked`): the owner is still the one read, or the region is deleted, and of requests one
after the other it is not. That carries `LiveOwners` and `LiveGrants` over a late
`region_put` or grant. A listing collects expired entries and removes them all at the end:
every entry it holds is `Removable`, that is, whatever happened since, its removal takes
away no grant but one that `swept` remembers. `IndexesAgree` is why `delete_region`, which
clears what its first phase found in the indexes, misses nothing.

*Embedding adapters.* `AdapterInv` says for every list of commands that a request may still
have to send which adapter may differ meanwhile between the cache, the store and what was
learnt, and whose index entry is late (`Remembered(gone, late)`): a search in the middle of
its save, or a reset that has deleted and not evicted yet (`Deleted`). `Carries` is what
keeps training added up while requests overlap: an adapter in a handler's hands has no step
that the cache has not taken, and, of requests one after the other, none that a reset was to
forget. `AdapterErrors` says where an error leads: to the end, or to the handler of
`save_lora_weights` that only logs it. `AdapterGoesOn` has once what a step of one request
must preserve for the others.

*Records.* `RequestProofs` has the lemmas about lists of commands that the proofs on records,
clarifications, conversations and agents rest on: what a step, a failure or a new request does to the list of a request and
leaves of the others (`Moved`, `GoesOn`, `BusyThen`, `Tallies`). `RecordInv` says which command
may follow which in a request (`MayFollow`, `MayEnd`), that only one request is ever about to
store a given new record (`OnlyMaker`, a new id is nobody else's), and that what it has stored
is still there unless a delete has begun (`FitsRecord`), from which `KeptRecordsStay` follows
beside any other requests and failures. Of requests one after the other, `AloneFits` says what
the one in progress has found out and is still so: the name is free, the goal has
not been named, the index entry is gone before the document. `AloneStored` is then inductive:
listed records exist, and a goal's name leads to it except while a request is between the
document and the name (`Naming`).

*Clarifications.* `ClarInv` says in which order the commands of a request come
(`InClarOrder`) and what a clarification in its hands is worth: the facts are those
stored, whatever else was decided meanwhile (`Carries`), and for every loser that is still
valid a command that invalidates it is to come before the clarification is stored
(`Settles`, until a command fails). Facts only go from valid to invalid, and what `named`
remembers only grows (`ClarsGrow`), so `LosersAreInvalid` and `WinnersStay` hold with any
overlap. `NamedOnce` needs requests one after the other: a clarification that
was resolved and is still pending has a request that is about to store it.

*Conversations.* `ChatInv` has three parts. `ChatShape` types the state and says in which order
the commands of a request or of the worker come (`InChatOrder`, `ChatFollows`) and what it knows
at each of them (`FitsChat`); all else rests on it. `CountInv` holds with any overlap: a session is `Behind`
the episodes created in it *without* those that a request has stored and is still to count
(`Counted`), and so is every copy in the hands of a request about to store one (`HoldsBack`), which is why
a late write of an old copy can lose a count and never run ahead. An episode still to be counted belongs to one
request only (`OwnEpisodes`), as its id is new. `HomeInv` is about requests one after the other. The
copy about to be stored is then the session stored, so no count is lost but by a failed
command (`Tallied`). Of the users made for one person at most one is listed (`OnePlace`), one may be
on its way into the listing, and then none is listed (`FitsHome`, `Makes`), and all others cost a failed command
each (`FewStray`): the code looks for a user before it creates one, and `find_user_by_identifier` falls
back on the listing. While no command failed, a session is listed under its user or a
request is about to list it (`AllListed`). The imports of `ImportJobs`, which send the same commands
from one more kind of request, are not among the requests of `ConversationSpec`.

*Agents and proposals.* `AgencySpec` runs the requests of `AgentIdentity` and `Promotions`
side by side, and `AgencyInv` is about what any of them has still to send. The first half of
the module shows that each store method's list of commands, and each list that an answer puts
before the rest, is in an order a request may go on with (`InAgentOrder`, `AgentList`): `PlainList`
says how a list begins and ends, and `FreeJoin` joins two. `AuditInv` adds that an event about to
be indexed is stored and, of requests one after the other, is linked to the newest event
indexed and newer than it (`FitsChain`), from which `ChainUnlessOverlapped` follows.
`ProposalsBacked` counts the approvers of stored proposals and of applied ones, and
`FitsPromotion` those of the copy a request works on: pending, approved once by each
approver, all of them remembered, and enough for the policy once it is about to be applied. None
of it depends on what others store meanwhile, so `QuorumBacked` holds with any overlap.
`DecisionInv` is about requests one after the other and what the one in progress has still to
send: the proposal it works on is pending until it stores it, one about to be stored as approved has
been applied, and one that is stored is logged or about to be (`Settled`); an application without
its approval has cost a failed command, which is how `AppliedUnlessOverlapped` counts them.

The inductive invariants were model-checked before they were proved, on the instances of
the runs and larger ones.

Only model-checked: liveness (`EventuallyProcessed`, `EventuallySettled`), which
needs fairness and `ENABLED`; what `Value` sums up (`ValueIsExact`), an induction over
data; the lists that Merkle trees fold (`MerkleDigest`, `AllowlistProofs`) and the searches
of `GraphTraversal` and `Paging`, likewise; `HistoryIsTold` of
`AgentIdentity`, whose types and audit chains are proved; and `ImportJobs`.

## 5. Plan

Next proofs: `HistoryIsTold`, from `AgencyInv`; and the accounting of `ImportJobs`.

Next modules: guardrail evaluation and context assembly against their references.

### Not modelled

* *Attachments*: `save_attachment` writes a plain string that every reader asks for
  as JSON, so no request after the upload finds the record; a model of the handlers
  behind it would describe steps that never run.
* *The ingestion DAG*: no binary builds a `DagPipeline`; only its unit tests run it.
* *Floating-point scoring* (retrieval fusion, reranking, coherence, hyperbolic
  geometry) and *cryptography* (envelope encryption, signatures): outside TLC's
  arithmetic.
* *Clients of other services* (LLM, embedding, Qdrant, S3): their answers are the
  nondeterministic outcomes of the calls in the modules above.
* *Front ends* (gRPC, MCP, dashboard, SDKs, configuration, metrics): they translate
  requests into calls of the same handlers and stores and keep no state of their own
  that a request depends on; the MCP server's subscriptions and SSE sessions are
  written and never used to send.
