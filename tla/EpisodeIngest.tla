---------------------------- MODULE EpisodeIngest ----------------------------
(***************************************************************************)
(* The life of an episode: the Redis episode store (documents and the      *)
(* pending_episodes sorted set), the server handlers that create, delete   *)
(* and clear episodes, and the ingestion workers of any number of server   *)
(* replicas that poll, claim, process, retry and give up on them.          *)
(*                                                                         *)
(* Every Redis command is one step: the code takes no lock and opens no    *)
(* transaction, so the commands of different tasks interleave freely.      *)
(* What extraction writes into the graph is the subject of GraphIngest;    *)
(* here processing an episode is one outcome, success or failure.          *)
(***************************************************************************)
EXTENDS Integers, FiniteSets

CONSTANTS
    Episodes,     \* episode ids (UUIDs, chosen by the server or by the client)
    Workers,      \* ingestion workers, one per server replica
    Processable,  \* the episodes whose content should_process() accepts
    BatchSize,    \* IngestConfig.batch_size
    FetchLimit,   \* batch_size * concurrency: how many ids one poll lists
    MaxRetries,   \* IngestConfig.max_retries
    MaxPosts,     \* bound: how often one id may be posted (1: ids are fresh)
    MaxDeletes,   \* bound: delete and clear requests in a behaviour
    MaxCrashes,   \* bound: worker crashes in a behaviour
    MaxFaults,    \* bound: failed Redis commands in a behaviour
    MaxTime       \* bound: the clock, in units of 500 ms

(* Backoff delay of the r-th retry, 500 ms * 2^(r-1), in units of 500 ms. *)
Backoff(r) == 2 ^ (r - 1)

ASSUME ProcessableAssumption == Processable \subseteq Episodes
ASSUME FiniteAssumption == IsFiniteSet(Episodes)
ASSUME BatchAssumption == BatchSize \in Nat \ {0} /\ FetchLimit \in Nat \ {0}
ASSUME RetriesAssumption == MaxRetries \in Nat
ASSUME BoundsAssumption ==
    /\ MaxPosts \in Nat /\ MaxDeletes \in Nat /\ MaxCrashes \in Nat
    /\ MaxFaults \in Nat /\ MaxTime \in Nat
ASSUME BackoffAssumption == \A r \in 1 .. MaxRetries : Backoff(r) \in Nat

VARIABLES
    status,     \* processing_status of the stored document, "absent" if none
    retry,      \* retry_count of the stored document
    pending,    \* members of the sorted set pending_episodes
    score,      \* their scores
    posting,    \* create_episode calls between the SET and the ZADD
    posts,      \* how often each id was posted
    deleting,   \* delete requests in progress: what they have done so far
    stage,      \* stage[w][e]: what worker w's current cycle does with e
    copy,       \* copy[w][e]: retry_count in the copy of e that w loaded
    fresh,      \* fresh[w]: retry_count read inside w's claim_episode
    failures,   \* history: failed attempts at e since it was posted
    deletes, crashes, faults,   \* environment events so far
    now         \* the clock, in units of 500 ms

store  == <<status, retry, pending, score>>
client == <<posting, posts, deleting>>
worker == <<stage, copy, fresh>>
budget == <<deletes, crashes, faults>>
vars   == <<store, client, worker, failures, budget, now>>

Statuses == {"absent", "pending", "processing", "completed", "failed", "skipped"}

(* What a worker's cycle is doing with an episode.                         *)
(*   listed      its id came back from ZRANGE                              *)
(*   loaded      its document was read and was pending                     *)
(*   selected    it is in the batch, claim_episode not yet called          *)
(*   removed     claim_episode: ZREM returned 1                            *)
(*   read        claim_episode: the document was read                      *)
(*   claimed     claim_episode returned true, process_episode runs         *)
(*   completed   the completed document is stored, the summary check runs  *)
(*   failing     process_episode returned an error, handle_failure runs    *)
(*   requeueing  handle_failure: the pending document is stored            *)
Stages == {"none", "listed", "loaded", "selected", "removed", "read",
           "claimed", "completed", "failing", "requeueing"}

(* The stages in which the worker holds the claim on the episode. *)
Owning == {"removed", "read", "claimed", "completed", "failing", "requeueing"}

(* The stages of the polling and claiming half of poll_and_process. *)
Claiming == {"listed", "loaded", "selected", "removed", "read"}

Owns(w, e) == stage[w][e] \in Owning

AllNone == [e \in Episodes |-> "none"]
AllZero == [e \in Episodes |-> 0]

TypeOK ==
    /\ status \in [Episodes -> Statuses]
    /\ retry \in [Episodes -> 0 .. MaxRetries]
    /\ pending \subseteq Episodes
    /\ score \in [Episodes -> Nat]
    /\ posting \subseteq Episodes
    /\ posts \in [Episodes -> 0 .. MaxPosts]
    /\ deleting \in [Episodes -> {"no", "dequeued", "erased"}]
    /\ stage \in [Workers -> [Episodes -> Stages]]
    /\ copy \in [Workers -> [Episodes -> 0 .. MaxRetries]]
    /\ fresh \in [Workers -> 0 .. MaxRetries]
    /\ failures \in [Episodes -> 0 .. MaxRetries + 2]
    /\ deletes \in 0 .. MaxDeletes
    /\ crashes \in 0 .. MaxCrashes
    /\ faults \in 0 .. MaxFaults
    /\ now \in 0 .. MaxTime

Init ==
    /\ status = [e \in Episodes |-> "absent"]
    /\ retry = [e \in Episodes |-> 0]
    /\ pending = {}
    /\ score = [e \in Episodes |-> 0]
    /\ posting = {}
    /\ posts = [e \in Episodes |-> 0]
    /\ deleting = [e \in Episodes |-> "no"]
    /\ stage = [w \in Workers |-> AllNone]
    /\ copy = [w \in Workers |-> AllZero]
    /\ fresh = [w \in Workers |-> 0]
    /\ failures = [e \in Episodes |-> 0]
    /\ deletes = 0 /\ crashes = 0 /\ faults = 0
    /\ now = 0

-----------------------------------------------------------------------------
(* The Redis commands on an episode. *)

PutDoc(e, s, r) == status' = [status EXCEPT ![e] = s] /\ retry' = [retry EXCEPT ![e] = r]

Enqueue(e, at) == pending' = pending \cup {e} /\ score' = [score EXCEPT ![e] = at]

(* A member removed from a sorted set has no score any more. *)
Dequeue(e) == pending' = pending \ {e} /\ score' = [score EXCEPT ![e] = 0]

SetStage(w, e, s) == stage' = [stage EXCEPT ![w][e] = s]

(* The cycle is finished with e, or with everything: the locals go away. *)
Release(w, e) == SetStage(w, e, "none") /\ copy' = [copy EXCEPT ![w][e] = 0]
ReleaseAll(w) ==
    /\ stage' = [stage EXCEPT ![w] = AllNone]
    /\ copy' = [copy EXCEPT ![w] = AllZero]
    /\ fresh' = [fresh EXCEPT ![w] = 0]

-----------------------------------------------------------------------------
(* Creating an episode. *)

(* create_episode stores the document and lists it in its session.  The    *)
(* ids that should_process() accepts have a ZADD to come.                  *)
CreatePut(e) ==
    /\ posts[e] < MaxPosts /\ e \notin posting
    /\ posts' = [posts EXCEPT ![e] = @ + 1]
    /\ PutDoc(e, "pending", 0)
    /\ posting' = IF e \in Processable THEN posting \cup {e} ELSE posting
    /\ failures' = [failures EXCEPT ![e] = 0]
    /\ UNCHANGED <<pending, score, deleting, worker, budget, now>>

CreateEnqueue(e) ==
    /\ e \in posting
    /\ posting' = posting \ {e}
    /\ Enqueue(e, now)
    /\ UNCHANGED <<status, retry, posts, deleting, worker, failures, budget, now>>

(* The ZADD fails, or the server stops between the two commands. *)
CreateAbort(e) ==
    /\ e \in posting /\ faults < MaxFaults
    /\ faults' = faults + 1
    /\ posting' = posting \ {e}
    /\ UNCHANGED <<store, posts, deleting, worker, failures, deletes, crashes, now>>

-----------------------------------------------------------------------------
(* Deleting episodes. *)

(* delete_episode: the document must exist; then ZREM, then DEL. *)
DeleteDequeue(e) ==
    /\ status[e] # "absent" /\ deleting[e] = "no" /\ deletes < MaxDeletes
    /\ deletes' = deletes + 1
    /\ deleting' = [deleting EXCEPT ![e] = "dequeued"]
    /\ Dequeue(e)
    /\ UNCHANGED <<status, retry, posting, posts, worker, failures, crashes, faults, now>>

DeleteErase(e) ==
    /\ deleting[e] = "dequeued"
    /\ deleting' = [deleting EXCEPT ![e] = "no"]
    /\ PutDoc(e, "absent", 0)
    /\ UNCHANGED <<pending, score, posting, posts, worker, failures, budget, now>>

(* delete_session_episodes, for one id of the session: DEL, then ZREM. *)
ClearErase(e) ==
    /\ posts[e] > 0 /\ deleting[e] = "no" /\ deletes < MaxDeletes
    /\ deletes' = deletes + 1
    /\ deleting' = [deleting EXCEPT ![e] = "erased"]
    /\ PutDoc(e, "absent", 0)
    /\ UNCHANGED <<pending, score, posting, posts, worker, failures, crashes, faults, now>>

ClearDequeue(e) ==
    /\ deleting[e] = "erased"
    /\ deleting' = [deleting EXCEPT ![e] = "no"]
    /\ Dequeue(e)
    /\ UNCHANGED <<status, retry, posting, posts, worker, failures, budget, now>>

-----------------------------------------------------------------------------
(* Polling: get_pending_episodes and the choice of the batch. *)

AtMost(n, S) == IF Cardinality(S) < n THEN Cardinality(S) ELSE n

(* The ids ZRANGE 0 .. limit-1 returns: the lowest scores, due or not.     *)
(* Redis breaks ties between equal scores by id; any order is allowed here. *)
Window(S) ==
    /\ S \subseteq pending
    /\ Cardinality(S) = AtMost(FetchLimit, pending)
    /\ \A a \in S, b \in pending \ S : score[a] <= score[b]

Idle(w) == stage[w] = AllNone

PollRange(w) ==
    /\ Idle(w)
    /\ \E S \in SUBSET pending :
          /\ Window(S)
          /\ stage' = [stage EXCEPT ![w] = [e \in Episodes |-> IF e \in S THEN "listed" ELSE "none"]]
    /\ UNCHANGED <<store, client, copy, fresh, failures, budget, now>>

(* The document of a listed id is read: a pending one becomes a candidate  *)
(* and is remembered as it is now.                                         *)
PollLoad(w, e) ==
    /\ stage[w][e] = "listed" /\ status[e] = "pending"
    /\ SetStage(w, e, "loaded")
    /\ copy' = [copy EXCEPT ![w][e] = retry[e]]
    /\ UNCHANGED <<store, client, fresh, failures, budget, now>>

(* A document that is missing or not pending is skipped; its id stays in   *)
(* the sorted set.                                                         *)
PollSkip(w, e) ==
    /\ stage[w][e] = "listed" /\ status[e] # "pending"
    /\ Release(w, e)
    /\ UNCHANGED <<store, client, fresh, failures, budget, now>>

(* Up to BatchSize candidates are selected and the others dropped.  Which  *)
(* ones (round-robin over users, priority within a user) is left open.     *)
PollSelect(w) ==
    LET loaded == {e \in Episodes : stage[w][e] = "loaded"}
    IN  /\ loaded # {}
        /\ \A e \in Episodes : stage[w][e] # "listed"
        /\ \E sel \in SUBSET loaded :
              /\ Cardinality(sel) = AtMost(BatchSize, loaded)
              /\ stage' = [stage EXCEPT ![w] =
                              [e \in Episodes |-> IF e \in sel THEN "selected" ELSE "none"]]
              /\ copy' = [copy EXCEPT ![w] =
                              [e \in Episodes |-> IF e \in sel THEN @[e] ELSE 0]]
        /\ UNCHANGED <<store, client, fresh, failures, budget, now>>

-----------------------------------------------------------------------------
(* Claiming: claim_episode, one selected episode after the other. *)

ClaimNext(w, e) ==
    /\ stage[w][e] = "selected"
    /\ \A f \in Episodes : stage[w][f] \notin {"removed", "read"}

(* Mutant: the number of members ZREM removed is not looked at. *)
ClaimRemoveUnchecked(w, e) ==
    /\ ClaimNext(w, e)
    /\ Dequeue(e)
    /\ SetStage(w, e, "removed")
    /\ UNCHANGED <<status, retry, client, copy, fresh, failures, budget, now>>

(* ZREM pending_episodes: the worker that removes the id owns the episode. *)
ClaimRemove(w, e) ==
    /\ ClaimNext(w, e) /\ e \in pending
    /\ Dequeue(e)
    /\ SetStage(w, e, "removed")
    /\ UNCHANGED <<status, retry, client, copy, fresh, failures, budget, now>>

(* ZREM removed nothing: another worker or a delete was faster. *)
ClaimLost(w, e) ==
    /\ ClaimNext(w, e) /\ e \notin pending
    /\ Release(w, e)
    /\ UNCHANGED <<store, client, fresh, failures, budget, now>>

(* The document is read again before it is marked. *)
ClaimGet(w, e) ==
    /\ stage[w][e] = "removed" /\ status[e] # "absent"
    /\ SetStage(w, e, "read")
    /\ fresh' = [fresh EXCEPT ![w] = retry[e]]
    /\ UNCHANGED <<store, client, copy, failures, budget, now>>

(* If the document is gone claim_episode fails, and the `?` in              *)
(* poll_and_process drops the whole batch, claims included.                 *)
ClaimMissing(w, e) ==
    /\ stage[w][e] = "removed" /\ status[e] = "absent"
    /\ ReleaseAll(w)
    /\ UNCHANGED <<store, client, failures, budget, now>>

ClaimPut(w, e) ==
    /\ stage[w][e] = "read"
    /\ PutDoc(e, "processing", fresh[w])
    /\ SetStage(w, e, "claimed")
    /\ fresh' = [fresh EXCEPT ![w] = 0]
    /\ UNCHANGED <<pending, score, client, copy, failures, budget, now>>

(* A Redis command of a claim fails: the cycle ends, claims included. *)
PollError(w) ==
    /\ faults < MaxFaults
    /\ \E e \in Episodes : stage[w][e] \in {"selected", "removed", "read"}
    /\ faults' = faults + 1
    /\ ReleaseAll(w)
    /\ UNCHANGED <<store, client, failures, deletes, crashes, now>>

-----------------------------------------------------------------------------
(* Processing: the claimed episodes run concurrently, but while a failure  *)
(* is being handled the stream that drives them is not polled.             *)

Running(w, e) ==
    /\ stage[w][e] = "claimed"
    /\ \A f \in Episodes : stage[w][f] \notin Claiming \cup {"failing", "requeueing"}

(* process_episode stores the copy loaded by the poll, marked completed. *)
ProcessOk(w, e) ==
    /\ Running(w, e)
    /\ PutDoc(e, "completed", copy[w][e])
    /\ SetStage(w, e, "completed")
    /\ UNCHANGED <<pending, score, client, copy, fresh, failures, budget, now>>

(* handle_failure is entered; the history counter stops above any limit. *)
Fail(w, e) ==
    /\ SetStage(w, e, "failing")
    /\ failures' = [failures EXCEPT ![e] = IF @ < MaxRetries + 2 THEN @ + 1 ELSE @]

ProcessFail(w, e) ==
    /\ Running(w, e)
    /\ Fail(w, e)
    /\ UNCHANGED <<store, client, copy, fresh, budget, now>>

(* process_episode returns Ok after the session summary check. *)
ProcessDone(w, e) ==
    /\ stage[w][e] = "completed"
    /\ Release(w, e)
    /\ UNCHANGED <<store, client, fresh, failures, budget, now>>

(* list_episodes fails inside the summary check: its `?` makes the whole   *)
(* process_episode an error although the completed document is stored.     *)
SummaryError(w, e) ==
    /\ stage[w][e] = "completed" /\ faults < MaxFaults
    /\ \A f \in Episodes : stage[w][f] \notin {"failing", "requeueing"}
    /\ faults' = faults + 1
    /\ Fail(w, e)
    /\ UNCHANGED <<store, client, copy, fresh, deletes, crashes, now>>

-----------------------------------------------------------------------------
(* handle_failure, on the copy loaded by the poll. *)

(* Mutant: retry_count is compared with > instead of >=. *)
FailRetryOnceMore(w, e) ==
    /\ stage[w][e] = "failing" /\ copy[w][e] <= MaxRetries
    /\ PutDoc(e, "pending", copy[w][e] + 1)
    /\ copy' = [copy EXCEPT ![w][e] = @ + 1]
    /\ SetStage(w, e, "requeueing")
    /\ UNCHANGED <<pending, score, client, fresh, failures, budget, now>>

FailRetry(w, e) ==
    /\ stage[w][e] = "failing" /\ copy[w][e] < MaxRetries
    /\ PutDoc(e, "pending", copy[w][e] + 1)
    /\ copy' = [copy EXCEPT ![w][e] = @ + 1]
    /\ SetStage(w, e, "requeueing")
    /\ UNCHANGED <<pending, score, client, fresh, failures, budget, now>>

(* Mutant: a permanently failed episode is queued again. *)
FailGiveUpQueued(w, e) ==
    /\ stage[w][e] = "failing" /\ copy[w][e] >= MaxRetries
    /\ PutDoc(e, "failed", copy[w][e])
    /\ Enqueue(e, now)
    /\ Release(w, e)
    /\ UNCHANGED <<client, fresh, failures, budget, now>>

FailGiveUp(w, e) ==
    /\ stage[w][e] = "failing" /\ copy[w][e] >= MaxRetries
    /\ PutDoc(e, "failed", copy[w][e])
    /\ Release(w, e)
    /\ UNCHANGED <<pending, score, client, fresh, failures, budget, now>>

(* Mutant: the document is reset to pending but the id is not queued. *)
RequeueForgotten(w, e) ==
    /\ stage[w][e] = "requeueing"
    /\ Release(w, e)
    /\ UNCHANGED <<store, client, fresh, failures, budget, now>>

Requeue(w, e) ==
    /\ stage[w][e] = "requeueing"
    /\ Enqueue(e, now + Backoff(copy[w][e]))
    /\ Release(w, e)
    /\ UNCHANGED <<status, retry, client, fresh, failures, budget, now>>

(* A Redis error that is not passed on: get_episode fails in the poll, or   *)
(* update_episode or requeue_episode in handle_failure.  The cycle goes on  *)
(* without the episode, which is left as it is.                             *)
FailError(w, e) ==
    /\ stage[w][e] \in {"listed", "failing", "requeueing"} /\ faults < MaxFaults
    /\ faults' = faults + 1
    /\ Release(w, e)
    /\ UNCHANGED <<store, client, fresh, failures, deletes, crashes, now>>

-----------------------------------------------------------------------------
(* The server process of w dies and is restarted: run() starts over with   *)
(* an empty cycle, and nothing looks for episodes left in processing.      *)
Crash(w) ==
    /\ ~Idle(w) /\ crashes < MaxCrashes
    /\ crashes' = crashes + 1
    /\ ReleaseAll(w)
    /\ UNCHANGED <<store, client, failures, deletes, faults, now>>

Tick ==
    /\ now < MaxTime
    /\ now' = now + 1
    /\ UNCHANGED <<store, client, worker, failures, budget>>

-----------------------------------------------------------------------------
ClientStep(e) ==
    \/ CreatePut(e) \/ CreateEnqueue(e) \/ CreateAbort(e)
    \/ DeleteDequeue(e) \/ DeleteErase(e)
    \/ ClearErase(e) \/ ClearDequeue(e)

(* One step of the worker's own loop on episode e. *)
EpisodeStep(w, e) ==
    \/ PollLoad(w, e) \/ PollSkip(w, e)
    \/ ClaimRemove(w, e) \/ ClaimLost(w, e)
    \/ ClaimGet(w, e) \/ ClaimMissing(w, e) \/ ClaimPut(w, e)
    \/ ProcessOk(w, e) \/ ProcessFail(w, e) \/ ProcessDone(w, e)
    \/ FailRetry(w, e) \/ FailGiveUp(w, e) \/ Requeue(w, e)

WorkerStep(w) ==
    \/ PollRange(w) \/ PollSelect(w)
    \/ \E e \in Episodes : EpisodeStep(w, e)

WorkerFault(w) ==
    \/ PollError(w) \/ Crash(w)
    \/ \E e \in Episodes : SummaryError(w, e) \/ FailError(w, e)

Next ==
    \/ \E e \in Episodes : ClientStep(e)
    \/ \E w \in Workers : WorkerStep(w) \/ WorkerFault(w)
    \/ Tick

Spec == Init /\ [][Next]_vars

(* A create request that was begun goes on to its ZADD, and run() never    *)
(* returns, so a worker with something to do eventually does it.           *)
Fairness ==
    /\ \A e \in Episodes : WF_vars(CreateEnqueue(e))
    /\ \A w \in Workers : WF_vars(WorkerStep(w))

FairSpec == Spec /\ Fairness

-----------------------------------------------------------------------------
(* Properties. *)

(* "The first instance to ZREM a given episode ID wins": no two workers     *)
(* process the same episode at the same time.                               *)
OneOwner ==
    \A e \in Episodes : \A v, w \in Workers : Owns(v, e) /\ Owns(w, e) => v = w

(* The claim protocol: an id is with its creator, in the queue, or owned   *)
(* by one worker, and never in two of these places, whatever crashes,      *)
(* errors and deletions happen, as long as ids are fresh.                  *)
NoDoubleClaim ==
    /\ OneOwner
    /\ \A e \in posting : e \notin pending
    /\ \A e \in posting \cup pending : \A w \in Workers : ~Owns(w, e)

(* An episode whose document says completed or failed is never put back    *)
(* to pending or processing, unless a Redis command has failed.            *)
TerminalStays ==
    \A e \in Episodes :
        status[e] \in {"completed", "failed"} =>
            status'[e] \in {status[e], "absent"} \/ posts'[e] # posts[e]

TerminalIsFinal == [][faults' = 0 => TerminalStays]_vars

(* Nothing is lost while no command fails, no worker dies and nothing is   *)
(* deleted: a stored episode not yet processed is queued or in hand.       *)
NothingStranded ==
    deletes = 0 /\ crashes = 0 /\ faults = 0 =>
        \A e \in Processable :
            status[e] \in {"pending", "processing"} =>
                e \in posting \cup pending \/ \E w \in Workers : Owns(w, e)

(* A queued id can be processed: its document is pending, unless deleted.  *)
QueuedIsPending == \A e \in pending : status[e] \in {"pending", "absent"}

(* requeue_episode's delay is honoured: no episode is claimed before the   *)
(* time its score stands for.                                              *)
BackoffRespected ==
    [][\A w \in Workers, e \in Episodes :
          stage[w][e] = "selected" /\ stage'[w][e] = "removed" => score[e] <= now]_vars

(* An episode is attempted at most once plus max_retries times. *)
AttemptsBounded == \A e \in Episodes : failures[e] <= MaxRetries + 1

(* Where an episode is, for one who only knows that there is a queue: its  *)
(* creator has it, the sorted set, a worker, or nobody any more.           *)
place ==
    [e \in Episodes |->
        IF e \in pending THEN [at |-> "waiting", by |-> {}]
        ELSE IF \E w \in Workers : Owns(w, e)
             THEN [at |-> "taken", by |-> {w \in Workers : Owns(w, e)}]
        ELSE IF posts[e] = 0 \/ e \in posting THEN [at |-> "new", by |-> {}]
        ELSE [at |-> "over", by |-> {}]]

Queue == INSTANCE WorkQueue WITH Items <- Episodes, Workers <- Workers, place <- place

(* With fresh ids, the commands of all clients and workers together are a   *)
(* queue: an id is with one worker at a time, only that worker gives it     *)
(* back, and an id that is finished, deleted or dropped is never handed out *)
(* again.                                                                   *)
IsWorkQueue == Queue!Spec

(* Every processable episode that is created ends completed or failed. *)
EventuallyProcessed ==
    \A e \in Processable :
        posts[e] > 0 ~> status[e] \in {"completed", "failed"}

=============================================================================
