------------------------ MODULE EpisodeIngestProofs -------------------------
(***************************************************************************)
(* Proofs about EpisodeIngest for any number of episodes and workers and   *)
(* any bounds: type correctness, the claim protocol, the finality of       *)
(* completed and failed documents, and the refinement of WorkQueue: what   *)
(* the clients' and the workers' Redis commands do to an id is what a      *)
(* queue does to an item, for any number of retries, deletions, crashes    *)
(* and faults.                                                             *)
(***************************************************************************)
EXTENDS EpisodeIngest, TLAPS

(* An episode being requeued has been retried at least once, so its backoff *)
(* exponent is a natural number.                                            *)
RequeueingCounted ==
    \A w \in Workers, e \in Episodes : stage[w][e] = "requeueing" => copy[w][e] >= 1

TypeInv == TypeOK /\ RequeueingCounted

USE DEF store, client, worker, budget

(* Init establishes the types, and every step of a client, of a worker and *)
(* of the environment keeps them.                                          *)
LEMMA TypeInit == Init => TypeInv
  BY RetriesAssumption, BoundsAssumption
     DEF Init, TypeInv, TypeOK, RequeueingCounted, Statuses, Stages, AllNone, AllZero

(* The steps of create_episode, delete_episode and delete_session_episodes. *)
LEMMA TypeClient ==
    ASSUME TypeInv, NEW e \in Episodes, ClientStep(e)
    PROVE  TypeInv'
<1> USE RetriesAssumption, BoundsAssumption
        DEF TypeInv, TypeOK, RequeueingCounted, Statuses, PutDoc, Enqueue, Dequeue
<1>1. CASE CreatePut(e)
  BY <1>1 DEF CreatePut
<1>2. CASE CreateEnqueue(e)
  BY <1>2 DEF CreateEnqueue
<1>3. CASE CreateAbort(e)
  BY <1>3 DEF CreateAbort
<1>4. CASE DeleteDequeue(e)
  BY <1>4 DEF DeleteDequeue
<1>5. CASE DeleteErase(e)
  BY <1>5 DEF DeleteErase
<1>6. CASE ClearErase(e)
  BY <1>6 DEF ClearErase
<1>7. CASE ClearDequeue(e)
  BY <1>7 DEF ClearDequeue
<1> QED
  BY <1>1, <1>2, <1>3, <1>4, <1>5, <1>6, <1>7 DEF ClientStep

(* The steps of a worker on one of its episodes. *)
LEMMA TypeEpisode ==
    ASSUME TypeInv, NEW w \in Workers, NEW e \in Episodes, EpisodeStep(w, e)
    PROVE  TypeInv'
<1> USE RetriesAssumption, BoundsAssumption
        DEF TypeInv, TypeOK, RequeueingCounted, Statuses, Stages, PutDoc, Enqueue, Dequeue,
            SetStage, Release, ReleaseAll, AllNone, AllZero
<1>1. CASE PollLoad(w, e)
  BY <1>1 DEF PollLoad
<1>2. CASE PollSkip(w, e)
  BY <1>2 DEF PollSkip
<1>3. CASE ClaimRemove(w, e)
  BY <1>3 DEF ClaimRemove
<1>11. CASE ClaimLost(w, e)
  BY <1>11 DEF ClaimLost
<1>12. CASE ClaimGet(w, e)
  BY <1>12 DEF ClaimGet
<1>13. CASE ClaimMissing(w, e)
  BY <1>13 DEF ClaimMissing
<1>4. CASE ClaimPut(w, e)
  BY <1>4 DEF ClaimPut
<1>5. CASE ProcessOk(w, e)
  BY <1>5 DEF ProcessOk
<1>6. CASE ProcessFail(w, e)
  BY <1>6 DEF ProcessFail, Fail
<1>7. CASE ProcessDone(w, e)
  BY <1>7 DEF ProcessDone
<1>8. CASE FailRetry(w, e)
  BY <1>8 DEF FailRetry
<1>9. CASE FailGiveUp(w, e)
  BY <1>9 DEF FailGiveUp
<1>10. CASE Requeue(w, e)
  <2>1. copy[w][e] \in 1 .. MaxRetries
    BY <1>10 DEF Requeue
  <2>2. now + Backoff(copy[w][e]) \in Nat
    BY <2>1, BackoffAssumption
  <2> QED
    BY <1>10, <2>2 DEF Requeue
<1> QED
  BY <1>1, <1>2, <1>3, <1>4, <1>5, <1>6, <1>7, <1>8, <1>9, <1>10,
     <1>11, <1>12, <1>13 DEF EpisodeStep

(* The steps of a worker on its whole cycle, and what goes wrong with it. *)
LEMMA TypeWorker ==
    ASSUME TypeInv, NEW w \in Workers, WorkerStep(w) \/ WorkerFault(w)
    PROVE  TypeInv'
<1> USE RetriesAssumption, BoundsAssumption
        DEF TypeInv, TypeOK, RequeueingCounted, Stages, SetStage, Release, ReleaseAll,
            AllNone, AllZero
<1>1. CASE PollRange(w)
  BY <1>1 DEF PollRange
<1>2. CASE PollSelect(w)
  BY <1>2 DEF PollSelect
<1>3. CASE \E e \in Episodes : EpisodeStep(w, e)
  BY <1>3, TypeEpisode
<1>4. CASE PollError(w)
  BY <1>4 DEF PollError
<1>5. CASE Crash(w)
  BY <1>5 DEF Crash
<1>6. ASSUME NEW e \in Episodes, SummaryError(w, e)
      PROVE  TypeInv'
  BY <1>6 DEF SummaryError, Fail
<1>7. ASSUME NEW e \in Episodes, FailError(w, e)
      PROVE  TypeInv'
  BY <1>7 DEF FailError
<1> QED
  BY <1>1, <1>2, <1>3, <1>4, <1>5, <1>6, <1>7 DEF WorkerStep, WorkerFault

(* The store, the handlers and the workers keep their types for any         *)
(* configuration: in particular retry_count never exceeds max_retries and   *)
(* every score of the pending set is a number.                              *)
THEOREM TypeCorrect == Spec => []TypeOK
<1>1. TypeInv /\ [Next]_vars => TypeInv'
  <2> SUFFICES ASSUME TypeInv, [Next]_vars
               PROVE  TypeInv'
    OBVIOUS
  <2>1. CASE Tick
    BY <2>1, BoundsAssumption DEF Tick, TypeInv, TypeOK, RequeueingCounted
  <2>2. CASE UNCHANGED vars
    BY <2>2 DEF vars, TypeInv, TypeOK, RequeueingCounted
  <2> QED
    BY <2>1, <2>2, TypeClient, TypeWorker DEF Next
<1>2. TypeInv => TypeOK
  BY DEF TypeInv
<1> QED
  BY TypeInit, <1>1, <1>2, PTL DEF Spec
-----------------------------------------------------------------------------
(* An id that was never posted is nowhere. *)
UnpostedIsNowhere ==
    \A e \in Episodes : posts[e] = 0 =>
        /\ e \notin posting \cup pending
        /\ \A w \in Workers : stage[w][e] = "none"

(* What a document may say while its id is queued or a worker owns it: only *)
(* a failed summary check lets handle_failure meet a completed document.    *)
StatusMatches ==
    /\ \A e \in posting \cup pending : status[e] \in {"pending", "absent"}
    /\ \A w \in Workers, e \in Episodes :
          /\ stage[w][e] \in {"removed", "read", "requeueing"} =>
                status[e] \in {"pending", "absent"}
          /\ stage[w][e] = "claimed" => status[e] \in {"processing", "absent"}
          /\ stage[w][e] = "completed" => status[e] \in {"completed", "absent"}
          /\ stage[w][e] = "failing" =>
                \/ status[e] \in {"processing", "absent"}
                \/ faults > 0 /\ status[e] = "completed"

(* The inductive invariant of the claim protocol.  NoDoubleClaim alone is   *)
(* not inductive: that a new post finds its id nowhere needs                *)
(* UnpostedIsNowhere.                                                       *)
ClaimInv == UnpostedIsNowhere /\ NoDoubleClaim /\ StatusMatches

(* A step of a client on e keeps the claim invariant when ids are fresh. *)
LEMMA ClaimClient ==
    ASSUME MaxPosts = 1, TypeOK, ClaimInv, NEW e \in Episodes, ClientStep(e)
    PROVE  ClaimInv'
<1> USE DEF TypeOK, ClaimInv, UnpostedIsNowhere, NoDoubleClaim, OneOwner, StatusMatches,
            Owns, Owning, PutDoc, Enqueue, Dequeue
<1>1. CASE CreatePut(e)
  BY <1>1 DEF CreatePut
<1>2. CASE CreateEnqueue(e)
  BY <1>2 DEF CreateEnqueue
<1>3. CASE CreateAbort(e)
  BY <1>3 DEF CreateAbort
<1>4. CASE DeleteDequeue(e)
  BY <1>4 DEF DeleteDequeue
<1>5. CASE DeleteErase(e)
  BY <1>5 DEF DeleteErase
<1>6. CASE ClearErase(e)
  BY <1>6 DEF ClearErase
<1>7. CASE ClearDequeue(e)
  BY <1>7 DEF ClearDequeue
<1> QED
  BY <1>1, <1>2, <1>3, <1>4, <1>5, <1>6, <1>7 DEF ClientStep

(* A step of a worker on e keeps it: only ClaimRemove makes an owner, and   *)
(* only of an id that was in the queue.                                     *)
LEMMA ClaimEpisode ==
    ASSUME TypeOK, ClaimInv, NEW w \in Workers, NEW e \in Episodes, EpisodeStep(w, e)
    PROVE  ClaimInv'
<1> USE DEF TypeOK, ClaimInv, UnpostedIsNowhere, NoDoubleClaim, OneOwner, StatusMatches,
            Owns, Owning, PutDoc, Enqueue, Dequeue, SetStage, Release, ReleaseAll, AllNone, AllZero
<1>1. CASE PollLoad(w, e)
  BY <1>1 DEF PollLoad
<1>2. CASE PollSkip(w, e)
  BY <1>2 DEF PollSkip
<1>3. CASE ClaimRemove(w, e)
  BY <1>3 DEF ClaimRemove, ClaimNext
<1>4. CASE ClaimLost(w, e)
  BY <1>4 DEF ClaimLost
<1>5. CASE ClaimGet(w, e)
  BY <1>5 DEF ClaimGet
<1>6. CASE ClaimMissing(w, e)
  BY <1>6 DEF ClaimMissing
<1>7. CASE ClaimPut(w, e)
  BY <1>7 DEF ClaimPut
<1>8. CASE ProcessOk(w, e)
  BY <1>8 DEF ProcessOk, Running
<1>9. CASE ProcessFail(w, e)
  BY <1>9 DEF ProcessFail, Running, Fail
<1>10. CASE ProcessDone(w, e)
  BY <1>10 DEF ProcessDone
<1>11. CASE FailRetry(w, e)
  BY <1>11 DEF FailRetry
<1>12. CASE FailGiveUp(w, e)
  BY <1>12 DEF FailGiveUp
<1>13. CASE Requeue(w, e)
  BY <1>13 DEF Requeue
<1> QED
  BY <1>1, <1>2, <1>3, <1>4, <1>5, <1>6, <1>7, <1>8, <1>9, <1>10, <1>11, <1>12, <1>13
     DEF EpisodeStep

(* So do the steps on a worker's whole cycle, its errors and its crash. *)
LEMMA ClaimWorker ==
    ASSUME TypeOK, ClaimInv, NEW w \in Workers, WorkerStep(w) \/ WorkerFault(w)
    PROVE  ClaimInv'
<1> USE BoundsAssumption
        DEF TypeOK, ClaimInv, UnpostedIsNowhere, NoDoubleClaim, OneOwner, StatusMatches,
            Owns, Owning, SetStage, Release, ReleaseAll, AllNone, AllZero
<1>1. CASE PollRange(w)
  BY <1>1 DEF PollRange
<1>2. CASE PollSelect(w)
  BY <1>2 DEF PollSelect
<1>3. CASE \E e \in Episodes : EpisodeStep(w, e)
  BY <1>3, ClaimEpisode
<1>4. CASE PollError(w)
  BY <1>4 DEF PollError
<1>5. CASE Crash(w)
  BY <1>5 DEF Crash
<1>6. ASSUME NEW e \in Episodes, SummaryError(w, e)
      PROVE  ClaimInv'
  BY <1>6 DEF SummaryError, Fail
<1>7. ASSUME NEW e \in Episodes, FailError(w, e)
      PROVE  ClaimInv'
  BY <1>7 DEF FailError
<1> QED
  BY <1>1, <1>2, <1>3, <1>4, <1>5, <1>6, <1>7 DEF WorkerStep, WorkerFault

(* The claim invariant holds throughout, with the types, when ids are fresh. *)
LEMMA ClaimInvariant ==
    ASSUME MaxPosts = 1
    PROVE  Spec => [](TypeOK /\ ClaimInv)
<1>1. Init => ClaimInv
  BY DEF Init, ClaimInv, UnpostedIsNowhere, NoDoubleClaim, OneOwner, StatusMatches,
         Owns, Owning, AllNone
<1>2. TypeOK /\ ClaimInv /\ [Next]_vars => ClaimInv'
  <2> SUFFICES ASSUME TypeOK, ClaimInv, [Next]_vars
               PROVE  ClaimInv'
    OBVIOUS
  <2>1. CASE Tick \/ UNCHANGED vars
    BY <2>1 DEF Tick, vars, ClaimInv, UnpostedIsNowhere, NoDoubleClaim, OneOwner,
                StatusMatches, Owns
  <2> QED
    BY <2>1, ClaimClient, ClaimWorker DEF Next
<1> QED
  BY TypeCorrect, <1>1, <1>2, PTL DEF Spec

(* claim_episode's ZREM gives each queued episode to one worker only: under *)
(* any interleaving, with any crashes, Redis errors and deletions, an id is *)
(* with its creator, in the queue, or with exactly one worker.              *)
THEOREM ClaimIsExclusive ==
    ASSUME MaxPosts = 1
    PROVE  Spec => []NoDoubleClaim
<1>1. ClaimInv => NoDoubleClaim
  BY DEF ClaimInv
<1> QED
  BY ClaimInvariant, <1>1, PTL

(* An id that get_pending_episodes lists leads to a pending document or to  *)
(* a deleted one, never to one that is being processed or is finished.      *)
THEOREM QueueHoldsPending ==
    ASSUME MaxPosts = 1
    PROVE  Spec => []QueuedIsPending
<1>1. ClaimInv => QueuedIsPending
  BY DEF ClaimInv, StatusMatches, QueuedIsPending
<1> QED
  BY ClaimInvariant, <1>1, PTL

(* Until a Redis command fails, no worker overwrites a completed or failed  *)
(* document: update_episode has no guard of its own, the claim is one.      *)
THEOREM TerminalStatusIsFinal ==
    ASSUME MaxPosts = 1
    PROVE  Spec => TerminalIsFinal
<1>1. TypeOK /\ ClaimInv /\ [Next]_vars => [faults' = 0 => TerminalStays]_vars
  <2> SUFFICES ASSUME TypeOK, ClaimInv, Next, faults' = 0, NEW d \in Episodes,
                      status[d] \in {"completed", "failed"}
               PROVE  status'[d] \in {status[d], "absent"} \/ posts'[d] # posts[d]
    BY DEF TerminalStays, vars
  <2> USE DEF TypeOK, ClaimInv, StatusMatches, PutDoc
  <2>0. faults = 0
    BY BoundsAssumption
       DEF Next, ClientStep, WorkerStep, WorkerFault, EpisodeStep, Tick, CreatePut, CreateEnqueue,
           CreateAbort, DeleteDequeue, DeleteErase, ClearErase, ClearDequeue, PollRange,
           PollSelect, PollLoad, PollSkip, ClaimRemove, ClaimLost, ClaimGet, ClaimMissing,
           ClaimPut, ProcessOk, ProcessFail, ProcessDone, FailRetry, FailGiveUp, Requeue,
           PollError, Crash, SummaryError, FailError
  <2>1. ASSUME NEW e \in Episodes, ClientStep(e)
        PROVE  status'[d] \in {status[d], "absent"} \/ posts'[d] # posts[d]
    BY <2>1 DEF ClientStep, CreatePut, CreateEnqueue, CreateAbort, DeleteDequeue, DeleteErase,
                ClearErase, ClearDequeue
  <2>2. ASSUME NEW w \in Workers, NEW e \in Episodes, EpisodeStep(w, e)
        PROVE  status'[d] = status[d]
    BY <2>0, <2>2
       DEF EpisodeStep, PollLoad, PollSkip, ClaimRemove, ClaimLost, ClaimGet, ClaimMissing,
           ClaimPut, ProcessOk, Running, ProcessFail, ProcessDone, FailRetry, FailGiveUp, Requeue
  <2>3. ASSUME NEW w \in Workers, PollRange(w) \/ PollSelect(w) \/ WorkerFault(w)
        PROVE  status' = status
    BY <2>3 DEF PollRange, PollSelect, WorkerFault, PollError, Crash, SummaryError, FailError
  <2>4. CASE Tick
    BY <2>4 DEF Tick
  <2> QED
    BY <2>1, <2>2, <2>3, <2>4 DEF Next, WorkerStep
<1> QED
  BY ClaimInvariant, <1>1, PTL DEF Spec, TerminalIsFinal

-----------------------------------------------------------------------------
(* Without deletions every posted document is there, so claim_episode never *)
(* fails on a missing one.                                                  *)
PostedIsPresent ==
    /\ \A e \in Episodes : deleting[e] # "no" => deletes > 0
    /\ deletes = 0 => \A e \in Episodes : posts[e] > 0 => status[e] # "absent"

(* A worker that is still choosing its batch owns nothing. *)
ChoosingOwnsNothing ==
    \A w \in Workers, e, f \in Episodes :
        stage[w][e] \in {"listed", "loaded"} => stage[w][f] \in {"none", "listed", "loaded"}

StrandInv == PostedIsPresent /\ NothingStranded

(* PollRange starts from an idle cycle and PollSelect ends the choice, so   *)
(* the other steps never see a listed id next to an owned one.              *)
LEMMA ChoosingInvariant == Spec => []ChoosingOwnsNothing
<1>1. Init => ChoosingOwnsNothing
  BY DEF Init, ChoosingOwnsNothing, AllNone
<1>2. TypeOK /\ ChoosingOwnsNothing /\ [Next]_vars => ChoosingOwnsNothing'
  <2> SUFFICES ASSUME TypeOK, ChoosingOwnsNothing, [Next]_vars
               PROVE  ChoosingOwnsNothing'
    OBVIOUS
  <2> USE DEF TypeOK, ChoosingOwnsNothing, SetStage, Release, ReleaseAll, AllNone
  <2>1. CASE stage' = stage
    BY <2>1
  <2>2. ASSUME NEW w \in Workers, PollRange(w)
        PROVE  ChoosingOwnsNothing'
    BY <2>2 DEF PollRange
  <2>3. ASSUME NEW w \in Workers, PollSelect(w)
        PROVE  ChoosingOwnsNothing'
    BY <2>3 DEF PollSelect
  <2>4. ASSUME NEW w \in Workers, NEW e \in Episodes,
               PollLoad(w, e) \/ PollSkip(w, e)
        PROVE  ChoosingOwnsNothing'
    <3>1. stage[w][e] = "listed"
      BY <2>4 DEF PollLoad, PollSkip
    <3>2. \E t \in {"none", "loaded"} : stage' = [stage EXCEPT ![w][e] = t]
      BY <2>4 DEF PollLoad, PollSkip
    <3> QED
      BY <3>1, <3>2
  <2>5. ASSUME NEW w \in Workers, NEW e \in Episodes,
               stage[w][e] \notin {"none", "listed", "loaded"},
               NEW t \in Stages \ {"listed", "loaded"},
               stage' = [stage EXCEPT ![w][e] = t]
        PROVE  ChoosingOwnsNothing'
    BY <2>5
  <2>6. ASSUME NEW w \in Workers, ReleaseAll(w)
        PROVE  ChoosingOwnsNothing'
    BY <2>6
  <2>7. ASSUME NEW w \in Workers, NEW e \in Episodes, EpisodeStep(w, e)
        PROVE  ChoosingOwnsNothing'
    <3>1. CASE PollLoad(w, e) \/ PollSkip(w, e)
      BY <3>1, <2>4
    <3>2. CASE ClaimMissing(w, e)
      BY <3>2, <2>6 DEF ClaimMissing
    <3>3. CASE ~(PollLoad(w, e) \/ PollSkip(w, e) \/ ClaimMissing(w, e))
      <4>1. stage[w][e] \notin {"none", "listed", "loaded"}
        BY <2>7, <3>3
           DEF EpisodeStep, ClaimRemove, ClaimLost, ClaimNext, ClaimGet, ClaimPut, ProcessOk,
               Running, ProcessFail, ProcessDone, FailRetry, FailGiveUp, Requeue
      <4>2. \E t \in Stages \ {"listed", "loaded"} : stage' = [stage EXCEPT ![w][e] = t]
        BY <2>7, <3>3
           DEF EpisodeStep, ClaimRemove, ClaimLost, ClaimGet, ClaimPut, ProcessOk, ProcessFail,
               Fail, ProcessDone, FailRetry, FailGiveUp, Requeue, Stages
      <4> QED
        BY <4>1, <4>2, <2>5
    <3> QED
      BY <3>1, <3>2, <3>3
  <2>8. ASSUME NEW w \in Workers, WorkerFault(w)
        PROVE  ChoosingOwnsNothing'
    <3>1. CASE PollError(w) \/ Crash(w)
      BY <3>1, <2>6 DEF PollError, Crash
    <3>2. ASSUME NEW e \in Episodes, SummaryError(w, e)
          PROVE  ChoosingOwnsNothing'
      <4>1. stage' = [stage EXCEPT ![w][e] = "failing"] /\ stage[w][e] = "completed"
        BY <3>2 DEF SummaryError, Fail
      <4> QED
        BY <4>1, <2>5 DEF Stages
    <3>3. ASSUME NEW e \in Episodes, FailError(w, e)
          PROVE  ChoosingOwnsNothing'
      BY <3>3 DEF FailError
    <3> QED
      BY <2>8, <3>1, <3>2, <3>3 DEF WorkerFault
  <2>9. CASE UNCHANGED vars \/ Tick \/ \E e \in Episodes : ClientStep(e)
    BY <2>9, <2>1
       DEF vars, Tick, ClientStep, CreatePut, CreateEnqueue, CreateAbort, DeleteDequeue,
           DeleteErase, ClearErase, ClearDequeue
  <2> QED
    BY <2>2, <2>3, <2>7, <2>8, <2>9 DEF Next, WorkerStep
<1> QED
  BY TypeCorrect, <1>1, <1>2, PTL DEF Spec

(* A step of a client keeps it: the ZADD of create_episode is still to come *)
(* or has been done.                                                        *)
LEMMA StrandClient ==
    ASSUME MaxPosts = 1, TypeOK, ClaimInv, StrandInv, NEW e \in Episodes, ClientStep(e)
    PROVE  StrandInv'
<1> USE ProcessableAssumption, BoundsAssumption
        DEF TypeOK, ClaimInv, UnpostedIsNowhere, StrandInv, PostedIsPresent, NothingStranded, Owns, Owning, PutDoc, Enqueue, Dequeue
<1>1. CASE CreatePut(e)
  BY <1>1 DEF CreatePut
<1>2. CASE CreateEnqueue(e)
  BY <1>2 DEF CreateEnqueue
<1>3. CASE CreateAbort(e)
  BY <1>3 DEF CreateAbort
<1>4. CASE DeleteDequeue(e)
  BY <1>4 DEF DeleteDequeue
<1>5. CASE DeleteErase(e)
  BY <1>5 DEF DeleteErase
<1>6. CASE ClearErase(e)
  BY <1>6 DEF ClearErase
<1>7. CASE ClearDequeue(e)
  BY <1>7 DEF ClearDequeue
<1> QED
  BY <1>1, <1>2, <1>3, <1>4, <1>5, <1>6, <1>7 DEF ClientStep

(* A step of a worker keeps it: the claim passes from the queue to the      *)
(* worker and back, and is dropped only when the document is terminal.      *)
LEMMA StrandEpisode ==
    ASSUME TypeOK, ClaimInv, StrandInv, NEW w \in Workers, NEW e \in Episodes,
           EpisodeStep(w, e)
    PROVE  StrandInv'
<1> USE ProcessableAssumption, BoundsAssumption
        DEF TypeOK, ClaimInv, UnpostedIsNowhere, StatusMatches, StrandInv, PostedIsPresent,
            NothingStranded, Owns, Owning, PutDoc, Enqueue, Dequeue, SetStage, Release, AllNone
<1>1. CASE PollLoad(w, e)
  BY <1>1 DEF PollLoad
<1>2. CASE PollSkip(w, e)
  BY <1>2 DEF PollSkip
<1>3. CASE ClaimRemove(w, e)
  BY <1>3 DEF ClaimRemove, ClaimNext
<1>4. CASE ClaimLost(w, e)
  BY <1>4 DEF ClaimLost, ClaimNext
<1>5. CASE ClaimGet(w, e)
  BY <1>5 DEF ClaimGet
<1>6. CASE ClaimMissing(w, e)
  <2>1. posts[e] > 0 /\ deletes > 0
    BY <1>6 DEF ClaimMissing
  <2> QED
    BY <1>6, <2>1 DEF ClaimMissing
<1>7. CASE ClaimPut(w, e)
  BY <1>7 DEF ClaimPut
<1>8. CASE ProcessOk(w, e)
  BY <1>8 DEF ProcessOk, Running
<1>9. CASE ProcessFail(w, e)
  BY <1>9 DEF ProcessFail, Running, Fail
<1>10. CASE ProcessDone(w, e)
  BY <1>10 DEF ProcessDone
<1>11. CASE FailRetry(w, e)
  BY <1>11 DEF FailRetry
<1>12. CASE FailGiveUp(w, e)
  BY <1>12 DEF FailGiveUp
<1>13. CASE Requeue(w, e)
  BY <1>13 DEF Requeue
<1> QED
  BY <1>1, <1>2, <1>3, <1>4, <1>5, <1>6, <1>7, <1>8, <1>9, <1>10, <1>11, <1>12, <1>13
     DEF EpisodeStep

(* While no command fails, no worker dies and nothing is deleted, every     *)
(* stored processable episode that is not finished is queued, about to be   *)
(* queued, or owned by a worker: none is forgotten between two commands.    *)
THEOREM NothingIsStranded ==
    ASSUME MaxPosts = 1
    PROVE  Spec => []NothingStranded
<1>1. Init => StrandInv
  BY ProcessableAssumption
     DEF Init, StrandInv, PostedIsPresent, NothingStranded, AllNone
<1>2. TypeOK /\ ClaimInv /\ ChoosingOwnsNothing /\ StrandInv /\ [Next]_vars => StrandInv'
  <2> SUFFICES ASSUME TypeOK, ClaimInv, ChoosingOwnsNothing, StrandInv, [Next]_vars
               PROVE  StrandInv'
    OBVIOUS
  <2> USE DEF StrandInv, PostedIsPresent, NothingStranded, Owns
  <2>1. CASE Tick \/ UNCHANGED vars
    BY <2>1 DEF Tick, vars
  <2>2. ASSUME NEW w \in Workers, PollRange(w)
        PROVE  StrandInv'
    <3>1. \A v \in Workers, e \in Episodes : Owns(v, e) => Owns(v, e)'
      BY <2>2 DEF PollRange, Idle, AllNone, Owning, TypeOK
    <3> QED
      BY <2>2, <3>1, ProcessableAssumption DEF PollRange
  <2>3. ASSUME NEW w \in Workers, PollSelect(w)
        PROVE  StrandInv'
    <3>1. \A e \in Episodes : stage[w][e] \in {"none", "listed", "loaded"}
      BY <2>3 DEF PollSelect, ChoosingOwnsNothing
    <3>2. \A v \in Workers, e \in Episodes : Owns(v, e) => Owns(v, e)'
      BY <2>3, <3>1 DEF PollSelect, Owning, TypeOK
    <3> QED
      BY <2>3, <3>2, ProcessableAssumption DEF PollSelect
  <2>4. ASSUME NEW w \in Workers, WorkerFault(w)
        PROVE  StrandInv'
    BY <2>4, BoundsAssumption
       DEF WorkerFault, PollError, Crash, SummaryError, FailError, TypeOK
  <2> QED
    BY <2>1, <2>2, <2>3, <2>4, StrandClient, StrandEpisode DEF Next, WorkerStep
<1>3. StrandInv => NothingStranded
  BY DEF StrandInv
<1> QED
  BY ClaimInvariant, ChoosingInvariant, <1>1, <1>2, <1>3, PTL DEF Spec

-----------------------------------------------------------------------------
(* With one worker the copy it loaded is never older than the document: the *)
(* attempts made so far are the copy's retry_count, one more once the       *)
(* current attempt has failed.                                              *)
CountMatches ==
    /\ \A e \in posting : \A w \in Workers : stage[w][e] = "none"
    /\ \A e \in posting \cup pending : status[e] # "absent" => failures[e] = retry[e]
    /\ \A w \in Workers, e \in Episodes :
          /\ stage[w][e] \in {"loaded", "selected"} /\ e \in pending => failures[e] = copy[w][e]
          /\ stage[w][e] \in Owning \ {"failing"} => failures[e] = copy[w][e]
          /\ stage[w][e] = "failing" => failures[e] = copy[w][e] + 1
          /\ stage[w][e] = "requeueing" /\ status[e] # "absent" => retry[e] = copy[w][e]

AttemptInv == CountMatches /\ AttemptsBounded

(* A step of a client keeps the count. *)
LEMMA AttemptClient ==
    ASSUME MaxPosts = 1, TypeOK, ClaimInv, AttemptInv, NEW e \in Episodes, ClientStep(e)
    PROVE  AttemptInv'
<1> USE RetriesAssumption
        DEF TypeOK, ClaimInv, UnpostedIsNowhere, NoDoubleClaim, OneOwner, Owns, Owning,
            AttemptInv, CountMatches, AttemptsBounded, PutDoc, Enqueue, Dequeue
<1>1. CASE CreatePut(e)
  BY <1>1 DEF CreatePut
<1>2. CASE CreateEnqueue(e)
  BY <1>2 DEF CreateEnqueue
<1>3. CASE CreateAbort(e)
  BY <1>3 DEF CreateAbort
<1>4. CASE DeleteDequeue(e)
  BY <1>4 DEF DeleteDequeue
<1>5. CASE DeleteErase(e)
  BY <1>5 DEF DeleteErase
<1>6. CASE ClearErase(e)
  BY <1>6 DEF ClearErase
<1>7. CASE ClearDequeue(e)
  BY <1>7 DEF ClearDequeue
<1> QED
  BY <1>1, <1>2, <1>3, <1>4, <1>5, <1>6, <1>7 DEF ClientStep

(* A step of the only worker on e keeps it. *)
LEMMA AttemptEpisode ==
    ASSUME \A u, v \in Workers : u = v,
           TypeOK, ClaimInv, AttemptInv, NEW w \in Workers, NEW e \in Episodes,
           EpisodeStep(w, e) \/ SummaryError(w, e) \/ FailError(w, e)
    PROVE  AttemptInv'
<1> USE RetriesAssumption
        DEF TypeOK, ClaimInv, NoDoubleClaim, StatusMatches, Owns, Owning,
            AttemptInv, CountMatches, AttemptsBounded, PutDoc, Enqueue, Dequeue, SetStage, Release
<1>1. CASE PollLoad(w, e)
  BY <1>1 DEF PollLoad
<1>2. CASE PollSkip(w, e)
  BY <1>2 DEF PollSkip
<1>3. CASE ClaimRemove(w, e)
  BY <1>3 DEF ClaimRemove, ClaimNext
<1>4. CASE ClaimLost(w, e)
  BY <1>4 DEF ClaimLost
<1>5. CASE ClaimGet(w, e)
  BY <1>5 DEF ClaimGet
<1>6. CASE ClaimMissing(w, e)
  BY <1>6 DEF ClaimMissing, ReleaseAll, AllNone, AllZero
<1>7. CASE ClaimPut(w, e)
  BY <1>7 DEF ClaimPut
<1>8. CASE ProcessOk(w, e)
  BY <1>8 DEF ProcessOk, Running
<1>9. CASE ProcessFail(w, e)
  BY <1>9 DEF ProcessFail, Running, Fail
<1>10. CASE ProcessDone(w, e)
  BY <1>10 DEF ProcessDone
<1>11. CASE FailRetry(w, e)
  BY <1>11 DEF FailRetry
<1>12. CASE FailGiveUp(w, e)
  BY <1>12 DEF FailGiveUp
<1>13. CASE Requeue(w, e)
  BY <1>13 DEF Requeue
<1>14. CASE SummaryError(w, e)
  BY <1>14 DEF SummaryError, Fail
<1>15. CASE FailError(w, e)
  BY <1>15 DEF FailError
<1> QED
  BY <1>1, <1>2, <1>3, <1>4, <1>5, <1>6, <1>7, <1>8, <1>9, <1>10, <1>11, <1>12, <1>13,
     <1>14, <1>15 DEF EpisodeStep

(* One worker attempts an episode at most max_retries + 1 times, crashes,   *)
(* errors and deletions included.  (With two workers it does not hold.)     *)
THEOREM SingleWorkerAttempts ==
    ASSUME MaxPosts = 1, \A u, v \in Workers : u = v
    PROVE  Spec => []AttemptsBounded
<1>1. Init => AttemptInv
  BY RetriesAssumption DEF Init, AttemptInv, CountMatches, AttemptsBounded, AllNone, Owning
<1>2. TypeOK /\ ClaimInv /\ ChoosingOwnsNothing /\ AttemptInv /\ [Next]_vars => AttemptInv'
  <2> SUFFICES ASSUME TypeOK, ClaimInv, ChoosingOwnsNothing, AttemptInv, [Next]_vars
               PROVE  AttemptInv'
    OBVIOUS
  <2> USE DEF TypeOK, AttemptInv, CountMatches, AttemptsBounded, Owning
  <2>1. CASE Tick \/ UNCHANGED vars
    BY <2>1 DEF Tick, vars
  <2>2. ASSUME NEW w \in Workers, PollRange(w)
        PROVE  AttemptInv'
    BY <2>2 DEF PollRange, ClaimInv, NoDoubleClaim
  <2>3. ASSUME NEW w \in Workers, PollSelect(w)
        PROVE  AttemptInv'
    BY <2>3 DEF PollSelect
  <2>4. ASSUME NEW w \in Workers, PollError(w) \/ Crash(w)
        PROVE  AttemptInv'
    BY <2>4 DEF PollError, Crash, ReleaseAll, AllNone, AllZero
  <2> QED
    BY <2>1, <2>2, <2>3, <2>4, AttemptClient, AttemptEpisode DEF Next, WorkerStep, WorkerFault
<1>3. AttemptInv => AttemptsBounded
  BY DEF AttemptInv
<1> QED
  BY ClaimInvariant, ChoosingInvariant, <1>1, <1>2, <1>3, PTL DEF Spec

-----------------------------------------------------------------------------
(* The refinement of WorkQueue.                                             *)

(* An id that nobody has any more was posted and has left the queue. *)
Nowhere(e) ==
    /\ e \notin pending \cup posting /\ posts[e] # 0
    /\ \A w \in Workers : ~Owns(w, e)

(* What place says of an id that is still with its creator, queued, owned or gone. *)
LEMMA PlaceNew ==
    ASSUME NEW e \in Episodes, ClaimInv, posts[e] = 0 \/ e \in posting
    PROVE  place[e] = Queue!New
  BY DEF ClaimInv, UnpostedIsNowhere, NoDoubleClaim, Owns, Owning, place, Queue!New

LEMMA PlaceWaiting ==
    ASSUME NEW e \in Episodes, e \in pending
    PROVE  place[e] = Queue!Waiting
  BY DEF place, Queue!Waiting

LEMMA PlaceTaken ==
    ASSUME NEW e \in Episodes, NEW w \in Workers, NoDoubleClaim, Owns(w, e)
    PROVE  place[e] = Queue!Taken(w)
<1>1. {v \in Workers : Owns(v, e)} = {w}
  BY DEF NoDoubleClaim, OneOwner
<1>2. e \notin pending
  BY DEF NoDoubleClaim
<1> QED
  BY <1>1, <1>2 DEF place, Queue!Taken

LEMMA PlaceOver ==
    ASSUME NEW e \in Episodes, Nowhere(e)
    PROVE  place[e] = Queue!Over
  BY DEF Nowhere, place, Queue!Over

(* The same after a step. *)
LEMMA PlaceNext ==
    ASSUME NEW e \in Episodes
    PROVE  /\ e \in pending' => place'[e] = Queue!Waiting
           /\ ClaimInv' /\ (posts'[e] = 0 \/ e \in posting') => place'[e] = Queue!New
           /\ Nowhere(e)' => place'[e] = Queue!Over
           /\ \A w \in Workers : NoDoubleClaim' /\ Owns(w, e)' => place'[e] = Queue!Taken(w)
<1>1. e \in pending' => place'[e] = Queue!Waiting
  BY DEF place, Queue!Waiting
<1>2. ClaimInv' /\ (posts'[e] = 0 \/ e \in posting') => place'[e] = Queue!New
  BY DEF ClaimInv, UnpostedIsNowhere, NoDoubleClaim, Owns, Owning, place, Queue!New
<1>3. Nowhere(e)' => place'[e] = Queue!Over
  BY DEF Nowhere, place, Queue!Over
<1>4. ASSUME NEW w \in Workers, NoDoubleClaim', Owns(w, e)'
      PROVE  place'[e] = Queue!Taken(w)
  <2>1. {v \in Workers : Owns(v, e)'} = {w}
    BY <1>4 DEF NoDoubleClaim, OneOwner
  <2>2. e \notin pending'
    BY <1>4 DEF NoDoubleClaim
  <2> QED
    BY <1>4, <2>1, <2>2 DEF place, Queue!Taken
<1> QED
  BY <1>1, <1>2, <1>3, <1>4

(* An id that a step does not touch stays where it is. *)
LEMMA PlaceKept ==
    ASSUME NEW e \in Episodes,
           e \in pending' <=> e \in pending,
           posts'[e] = 0 \/ e \in posting' <=> posts[e] = 0 \/ e \in posting,
           \A w \in Workers : Owns(w, e)' <=> Owns(w, e)
    PROVE  place'[e] = place[e]
  BY DEF place

(* place is a function of ids. *)
LEMMA PlaceDomain ==
    /\ place = [e \in Episodes |-> place[e]]
    /\ place' = [e \in Episodes |-> place'[e]]
<1>1. place = [e \in Episodes |-> place[e]]
  BY DEF place
<1>2. place' = [e \in Episodes |-> place'[e]]
  BY DEF place
<1> QED
  BY <1>1, <1>2

(* A step that moves one id moves the item and no other. *)
LEMMA PlaceMoved ==
    ASSUME NEW e \in Episodes, NEW from, NEW to,
           place[e] = from, place'[e] = to,
           \A d \in Episodes \ {e} : place'[d] = place[d]
    PROVE  Queue!Move(e, from, to)
  BY PlaceDomain DEF Queue!Move

LEMMA PlaceUnmoved ==
    ASSUME \A d \in Episodes : place'[d] = place[d]
    PROVE  UNCHANGED place
  BY PlaceDomain
-----------------------------------------------------------------------------
(* Creating an id submits or refuses it; deleting one that is queued        *)
(* withdraws it, and deleting any other does nothing to the queue.          *)
LEMMA QueueClient ==
    ASSUME MaxPosts = 1, TypeOK, ClaimInv, ClaimInv', NEW e \in Episodes, ClientStep(e)
    PROVE  [Queue!Next]_place
<1>1. \A d \in Episodes \ {e} : place'[d] = place[d]
  <2> SUFFICES ASSUME NEW d \in Episodes \ {e}
               PROVE  place'[d] = place[d]
    OBVIOUS
  <2>1. /\ d \in pending' <=> d \in pending
        /\ d \in posting' <=> d \in posting
        /\ posts'[d] = posts[d]
        /\ stage' = stage
    BY DEF ClientStep, CreatePut, CreateEnqueue, CreateAbort, DeleteDequeue, DeleteErase,
           ClearErase, ClearDequeue, Enqueue, Dequeue, PutDoc, TypeOK
  <2> QED
    BY <2>1, PlaceKept DEF Owns
<1>2. CASE CreatePut(e)
  <2>1. place[e] = Queue!New
    BY <1>2, PlaceNew DEF CreatePut, TypeOK
  <2>2. CASE e \in Processable
    <3>1. place'[e] = Queue!New
      BY <1>2, <2>2, PlaceNext DEF CreatePut
    <3> QED
      BY <1>1, <2>1, <3>1, PlaceUnmoved
  <2>3. CASE e \notin Processable
    <3>1. Nowhere(e)'
      BY <1>2, <2>3 DEF CreatePut, Nowhere, ClaimInv, UnpostedIsNowhere, Owns, Owning, TypeOK
    <3>2. Queue!Refuse(e)
      BY <1>1, <2>1, <3>1, PlaceNext, PlaceMoved DEF Queue!Refuse
    <3> QED
      BY <3>2 DEF Queue!Next
  <2> QED
    BY <2>2, <2>3
<1>3. CASE CreateEnqueue(e)
  <2>1. place[e] = Queue!New /\ place'[e] = Queue!Waiting
    BY <1>3, PlaceNew, PlaceNext DEF CreateEnqueue, Enqueue
  <2>2. Queue!Submit(e)
    BY <1>1, <2>1, PlaceMoved DEF Queue!Submit
  <2> QED
    BY <2>2 DEF Queue!Next
<1>4. CASE CreateAbort(e)
  <2>1. place[e] = Queue!New
    BY <1>4, PlaceNew DEF CreateAbort
  <2>2. Nowhere(e)'
    BY <1>4 DEF CreateAbort, Nowhere, ClaimInv, UnpostedIsNowhere, NoDoubleClaim, Owns
  <2>3. Queue!Refuse(e)
    BY <1>1, <2>1, <2>2, PlaceNext, PlaceMoved DEF Queue!Refuse
  <2> QED
    BY <2>3 DEF Queue!Next
<1>5. CASE DeleteDequeue(e) \/ ClearDequeue(e)
  <2>1. CASE e \in pending
    <3>1. place[e] = Queue!Waiting
      BY <2>1, PlaceWaiting
    <3>2. Nowhere(e)'
      BY <1>5, <2>1 DEF DeleteDequeue, ClearDequeue, Dequeue, Nowhere, ClaimInv,
                        UnpostedIsNowhere, NoDoubleClaim, Owns
    <3>3. Queue!Withdraw(e)
      BY <1>1, <3>1, <3>2, PlaceNext, PlaceMoved DEF Queue!Withdraw
    <3> QED
      BY <3>3 DEF Queue!Next
  <2>2. CASE e \notin pending
    <3>1. place'[e] = place[e]
      BY <1>5, <2>2, PlaceKept DEF DeleteDequeue, ClearDequeue, Dequeue, Owns
    <3> QED
      BY <1>1, <3>1, PlaceUnmoved
  <2> QED
    BY <2>1, <2>2
<1>6. CASE DeleteErase(e) \/ ClearErase(e)
  <2>1. place'[e] = place[e]
    BY <1>6, PlaceKept DEF DeleteErase, ClearErase, Owns
  <2> QED
    BY <1>1, <2>1, PlaceUnmoved
<1> QED
  BY <1>2, <1>3, <1>4, <1>5, <1>6 DEF ClientStep

(* What a worker does with one id takes it, gives it back, finishes it, or  *)
(* is not the queue's business.                                             *)
LEMMA QueueEpisode ==
    ASSUME TypeOK, ClaimInv, ClaimInv', NEW w \in Workers, NEW e \in Episodes,
           EpisodeStep(w, e), ~ClaimMissing(w, e)
    PROVE  [Queue!Next]_place
<1> USE DEF Owns, Owning
<1>1. \A d \in Episodes \ {e} : place'[d] = place[d]
  <2> SUFFICES ASSUME NEW d \in Episodes \ {e}
               PROVE  place'[d] = place[d]
    OBVIOUS
  <2>1. /\ d \in pending' <=> d \in pending
        /\ posting' = posting /\ posts' = posts
        /\ \A v \in Workers : stage'[v][d] = stage[v][d]
    <3> USE DEF Enqueue, Dequeue, SetStage, Release, TypeOK
    <3>1. CASE PollLoad(w, e) \/ PollSkip(w, e) \/ ClaimLost(w, e) \/ ClaimGet(w, e) \/ ClaimPut(w, e)
      BY <3>1 DEF PollLoad, PollSkip, ClaimLost, ClaimGet, ClaimPut
    <3>2. CASE ClaimRemove(w, e)
      BY <3>2 DEF ClaimRemove
    <3>3. CASE Requeue(w, e)
      BY <3>3 DEF Requeue
    <3>4. CASE ProcessOk(w, e) \/ FailRetry(w, e) \/ FailGiveUp(w, e)
      BY <3>4 DEF ProcessOk, FailRetry, FailGiveUp
    <3>5. CASE ProcessFail(w, e) \/ ProcessDone(w, e)
      BY <3>5 DEF ProcessFail, ProcessDone, Fail
    <3> QED
      BY <3>1, <3>2, <3>3, <3>4, <3>5 DEF EpisodeStep
  <2> QED
    BY <2>1, PlaceKept
<1>2. CASE \/ PollLoad(w, e) \/ PollSkip(w, e) \/ ClaimLost(w, e) \/ ClaimGet(w, e)
           \/ ClaimPut(w, e) \/ ProcessOk(w, e) \/ ProcessFail(w, e) \/ FailRetry(w, e)
  <2>1. /\ pending' = pending /\ posting' = posting /\ posts' = posts
        /\ \A v \in Workers : Owns(v, e)' <=> Owns(v, e)
    BY <1>2 DEF PollLoad, PollSkip, ClaimLost, ClaimNext, ClaimGet, ClaimPut, ProcessOk,
                ProcessFail, Running, Fail, FailRetry, SetStage, Release, TypeOK
  <2>2. place'[e] = place[e]
    BY <2>1, PlaceKept
  <2> QED
    BY <1>1, <2>2, PlaceUnmoved
<1>3. CASE ClaimRemove(w, e)
  <2>1. place[e] = Queue!Waiting
    BY <1>3, PlaceWaiting DEF ClaimRemove
  <2>2. Owns(w, e)'
    BY <1>3 DEF ClaimRemove, SetStage, TypeOK
  <2>3. place'[e] = Queue!Taken(w)
    BY <2>2, PlaceNext DEF ClaimInv
  <2>4. Queue!Take(w, e)
    BY <1>1, <2>1, <2>3, PlaceMoved DEF Queue!Take
  <2> QED
    BY <2>4 DEF Queue!Next
<1>4. CASE ProcessDone(w, e) \/ FailGiveUp(w, e)
  <2>1. Owns(w, e)
    BY <1>4 DEF ProcessDone, FailGiveUp
  <2>2. place[e] = Queue!Taken(w)
    BY <2>1, PlaceTaken DEF ClaimInv
  <2>3. Nowhere(e)'
    <3>1. /\ UNCHANGED <<pending, posting, posts>>
          /\ \A v \in Workers \ {w} : stage'[v][e] = stage[v][e]
          /\ stage'[w][e] = "none"
      BY <1>4 DEF ProcessDone, FailGiveUp, SetStage, Release, TypeOK
    <3>2. /\ e \notin pending \cup posting /\ posts[e] # 0
          /\ \A v \in Workers \ {w} : ~Owns(v, e)
      BY <2>1 DEF ClaimInv, UnpostedIsNowhere, NoDoubleClaim, OneOwner
    <3> QED
      BY <3>1, <3>2 DEF Nowhere
  <2>4. Queue!Finish(w, e)
    BY <1>1, <2>2, <2>3, PlaceNext, PlaceMoved DEF Queue!Finish
  <2> QED
    BY <2>4 DEF Queue!Next
<1>5. CASE Requeue(w, e)
  <2>1. place[e] = Queue!Taken(w)
    BY <1>5, PlaceTaken DEF Requeue, ClaimInv
  <2>2. place'[e] = Queue!Waiting
    BY <1>5, PlaceNext DEF Requeue, Enqueue
  <2>3. Queue!GiveBack(w, e)
    BY <1>1, <2>1, <2>2, PlaceMoved DEF Queue!GiveBack
  <2> QED
    BY <2>3 DEF Queue!Next
<1> QED
  BY <1>2, <1>3, <1>4, <1>5 DEF EpisodeStep

(* When a cycle drops its locals everything the worker had is lost. *)
LEMMA QueueLoss ==
    ASSUME TypeOK, ClaimInv, NEW w \in Workers,
           UNCHANGED <<pending, posting, posts>>,
           \A v \in Workers \ {w} : stage'[v] = stage[v],
           \A e \in Episodes : ~Owns(w, e)'
    PROVE  Queue!Lose(w)
<1>1. \A e \in Episodes :
        place'[e] = IF place[e] = Queue!Taken(w) THEN Queue!Over ELSE place[e]
  <2> SUFFICES ASSUME NEW e \in Episodes
               PROVE  place'[e] = IF place[e] = Queue!Taken(w) THEN Queue!Over ELSE place[e]
    OBVIOUS
  <2>1. CASE Owns(w, e)
    <3>1. place[e] = Queue!Taken(w)
      BY <2>1, PlaceTaken DEF ClaimInv
    <3>2. Nowhere(e)'
      BY <2>1 DEF Owns, Owning, Nowhere, ClaimInv, UnpostedIsNowhere, NoDoubleClaim, OneOwner
    <3> QED
      BY <3>1, <3>2, PlaceNext
  <2>2. CASE ~Owns(w, e)
    <3>1. place'[e] = place[e]
      BY <2>2, PlaceKept DEF Owns
    <3>2. place[e] # Queue!Taken(w)
      <4>1. CASE e \in pending \/ \A v \in Workers : ~Owns(v, e)
        BY <4>1 DEF place, Queue!Taken
      <4>2. ASSUME NEW v \in Workers, Owns(v, e)
            PROVE  place[e] # Queue!Taken(w)
        <5>1. place[e] = Queue!Taken(v) /\ v # w
          BY <2>2, <4>2, PlaceTaken DEF ClaimInv
        <5> QED
          BY <5>1 DEF Queue!Taken
      <4> QED
        BY <4>1, <4>2
    <3> QED
      BY <3>1, <3>2
  <2> QED
    BY <2>1, <2>2
<1> QED
  BY <1>1, PlaceDomain DEF Queue!Lose

(* A poll, a failing cycle and a crash take, lose or finish what the worker has. *)
LEMMA QueueWorker ==
    ASSUME TypeOK, ClaimInv, ClaimInv', NEW w \in Workers, WorkerStep(w) \/ WorkerFault(w)
    PROVE  [Queue!Next]_place
<1>1. CASE PollRange(w) \/ PollSelect(w) \/ PollError(w) \/ Crash(w)
           \/ \E e \in Episodes : ClaimMissing(w, e)
  <2>1. /\ UNCHANGED <<pending, posting, posts>>
        /\ \A v \in Workers \ {w} : stage'[v] = stage[v]
        /\ \A e \in Episodes : ~Owns(w, e)'
    <3> USE DEF ReleaseAll, AllNone, Owns, Owning, TypeOK
    <3>1. CASE PollRange(w)
      BY <3>1 DEF PollRange
    <3>2. CASE PollSelect(w)
      BY <3>2 DEF PollSelect
    <3>3. CASE PollError(w) \/ Crash(w) \/ \E e \in Episodes : ClaimMissing(w, e)
      BY <3>3 DEF PollError, Crash, ClaimMissing
    <3> QED
      BY <1>1, <3>1, <3>2, <3>3
  <2>2. Queue!Lose(w)
    BY <2>1, QueueLoss
  <2> QED
    BY <2>2 DEF Queue!Next
<1>2. ASSUME NEW e \in Episodes, EpisodeStep(w, e), ~ClaimMissing(w, e)
      PROVE  [Queue!Next]_place
  BY <1>2, QueueEpisode
<1>3. ASSUME NEW e \in Episodes, SummaryError(w, e) \/ FailError(w, e)
      PROVE  [Queue!Next]_place
  <2>1. /\ UNCHANGED <<pending, posting, posts>>
        /\ \A v \in Workers, d \in Episodes : d # e => stage'[v][d] = stage[v][d]
        /\ \A v \in Workers \ {w} : stage'[v] = stage[v]
    BY <1>3 DEF SummaryError, FailError, Fail, SetStage, Release, TypeOK
  <2>2. \A d \in Episodes \ {e} : place'[d] = place[d]
    BY <2>1, PlaceKept DEF Owns
  <2>3. CASE Owns(w, e)' <=> Owns(w, e)
    <3>1. place'[e] = place[e]
      BY <2>1, <2>3, PlaceKept DEF Owns
    <3> QED
      BY <2>2, <3>1, PlaceUnmoved
  <2>4. CASE ~(Owns(w, e)' <=> Owns(w, e))
    <3>1. Owns(w, e) /\ ~Owns(w, e)'
      BY <1>3, <2>4 DEF SummaryError, FailError, Fail, SetStage, Release, Owns, Owning, TypeOK
    <3>2. place[e] = Queue!Taken(w)
      BY <3>1, PlaceTaken DEF ClaimInv
    <3>3. Nowhere(e)'
      BY <2>1, <3>1 DEF Owns, Owning, Nowhere, ClaimInv, UnpostedIsNowhere, NoDoubleClaim,
                        OneOwner
    <3>4. Queue!Finish(w, e)
      BY <2>2, <3>2, <3>3, PlaceNext, PlaceMoved DEF Queue!Finish
    <3> QED
      BY <3>4 DEF Queue!Next
  <2> QED
    BY <2>3, <2>4
<1> QED
  BY <1>1, <1>2, <1>3 DEF WorkerStep, WorkerFault

(* The queue of episodes is a work queue, for fresh ids: whatever commands  *)
(* of clients and workers interleave, fail or are lost with a crash, an id  *)
(* waits, is with one worker, or is over, and what is over stays over.      *)
THEOREM QueueIsImplemented ==
    ASSUME MaxPosts = 1
    PROVE  Spec => IsWorkQueue
<1>1. Init => Queue!Init
  BY DEF Init, Queue!Init, Queue!New, place, Owns, Owning, AllNone
<1>2. TypeOK /\ ClaimInv /\ (TypeOK /\ ClaimInv)' /\ [Next]_vars => [Queue!Next]_place
  <2> SUFFICES ASSUME TypeOK, ClaimInv, ClaimInv', [Next]_vars
               PROVE  [Queue!Next]_place
    OBVIOUS
  <2>1. CASE Tick \/ UNCHANGED vars
    <3>1. \A d \in Episodes : place'[d] = place[d]
      BY <2>1, PlaceKept DEF Tick, vars, Owns
    <3> QED
      BY <3>1, PlaceUnmoved
  <2> QED
    BY <2>1, QueueClient, QueueWorker DEF Next
<1> QED
  BY ClaimInvariant, <1>1, <1>2, PTL DEF Spec, IsWorkQueue, Queue!Spec

=============================================================================
