----------------------------- MODULE ImportJobs -----------------------------
(***************************************************************************)
(* Chat-history imports: import_chat_history and run_import_job in         *)
(* routes.rs.  A request records a job, binds its idempotency key to the   *)
(* job, takes one of the permits and leaves the work to a task, which      *)
(* stores the rows one after the other through Conversations; the jobs and *)
(* the keys are in memory, and a background task drops finished jobs.      *)
(*                                                                         *)
(* A request and the task it spawns are one entry of "request".  Keys are  *)
(* those of one user; what a row says is left out, and a job that a        *)
(* restart interrupts is not resumed.                                      *)
(***************************************************************************)
EXTENDS Conversations

CONSTANTS ImportKeys,    \* idempotency keys
          JobIds,        \* ids of jobs, 1..n in order of creation
          ImportPermits, \* permits of import_semaphore
          MaxRows        \* bound: messages of an import, one if other requests are in progress

ASSUME ImportAssumption == ImportPermits \in Nat /\ MaxRows \in Nat

VARIABLES jobs,        \* import_jobs: the record of a job, or NoJob
          idempotency, \* import_idempotency: key -> job, or None
          eviction,    \* the background task: where it is, the jobs it drops
          importPast   \* what the properties remember

importVars == <<jobs, idempotency, eviction, importPast>>

Unkeyed == "no key"
NoJob == [status |-> "none", total |-> 0, imported |-> 0, failed |-> 0, finished |-> 0]
Final == {"completed", "failed"}

\* What an import brings: text that does not parse, messages of impossible
\* times, a dry run, or messages to store.
Payloads == {"garbled", "untimely", "dry run", "rows"}

\* Locals of the handler and of the task; the first five are those of the
\* commands of Conversations.
ImportLocals ==
    [user |-> None, session |-> None, copy |-> NoSession, episode |-> None, found |-> {},
     person |-> "nobody", key |-> Unkeyed, payload |-> "rows", rows |-> <<>>, job |-> None,
     permit |-> FALSE, cache |-> [n \in SessionNames |-> None], imported |-> 0, failed |-> 0,
     kept |-> {}]

InitImports ==
    /\ jobs = [j \in JobIds |-> NoJob]
    /\ idempotency = [k \in ImportKeys |-> None]
    /\ eviction = [at |-> "rest", jobs |-> {}]
    /\ importPast = [jobs |-> {}, ran |-> {}, kept |-> [j \in JobIds |-> {}],
                     dropped |-> {}, finished |-> 0, restarted |-> FALSE]

Importing == {r \in Busy : "job" \in DOMAIN Loc(r)}

-----------------------------------------------------------------------------
(* The request.                                                            *)

keyed(key, do) == IF key = Unkeyed THEN <<>> ELSE Cmd(do, key, "-")

ImportHistory(r, p, key, payload, rows) ==
    /\ Start(r, keyed(key, "keyLookup") \o Cmd("jobInsert", None, "-")
                  \o keyed(key, "keyInsert") \o Cmd("permit", None, "-"),
                [ImportLocals EXCEPT !.person = p, !.key = key, !.payload = payload, !.rows = rows])
    /\ UNCHANGED <<chatVars, importVars>>

KeyLookup(r) ==
    /\ At(r, "keyLookup")
    /\ LET j == idempotency[This(r).id] IN
       \/ j # None /\ Insert(r, Cmd("jobLookup", j, "-"), Loc(r))
       \/ j = None /\ Done(r)
    /\ UNCHANGED <<chatVars, importVars>>

\* A job that the key leads to is the answer.
JobLookup(r) ==
    /\ At(r, "jobLookup")
    /\ \/ jobs[This(r).id] # NoJob /\ Refuse(r)
       \/ jobs[This(r).id] = NoJob /\ Done(r)
    /\ UNCHANGED <<chatVars, importVars>>

JobInsert(r) ==
    /\ At(r, "jobInsert")
    /\ JobIds \ importPast.jobs # {}
    /\ LET j == Fresh(JobIds, importPast.jobs) IN
       /\ jobs' = [jobs EXCEPT ![j] = [NoJob EXCEPT !.status = "queued"]]
       /\ importPast' = [importPast EXCEPT !.jobs = @ \cup {j}]
       /\ Sent(r, [Loc(r) EXCEPT !.job = j])
    /\ UNCHANGED <<chatVars, idempotency, eviction>>

KeyInsert(r) ==
    /\ At(r, "keyInsert")
    /\ idempotency' = [idempotency EXCEPT ![This(r).id] = Loc(r).job]
    /\ Done(r)
    /\ UNCHANGED <<chatVars, jobs, eviction, importPast>>

-----------------------------------------------------------------------------
(* The task: what it does depends on the payload.                          *)

each_row(rows) == FlattenSeq([i \in DOMAIN rows |-> Cmd("row", rows[i], "-")])

run_import_job(loc) ==
    Cmd("jobRuns", None, "-") \o
    CASE loc.payload = "garbled"  -> Cmd("jobFails", None, "-")
      [] loc.payload = "untimely" -> Cmd("totals", None, "-") \o Cmd("jobFails", None, "-")
      [] loc.payload = "dry run"  -> Cmd("totals", None, "-") \o Cmd("jobEnds", None, "dry run")
      [] loc.payload = "rows"     ->
           Cmd("totals", None, "-") \o Cmd("findUser", loc.person, "-") \o Cmd("catch", "user", "-")
             \o each_row(loc.rows) \o Cmd("jobEnds", None, "rows")

\* try_acquire_owned: a request without a permit fails its job.
Permit(r) ==
    /\ At(r, "permit")
    /\ LET free == Cardinality({q \in Importing : Loc(q).permit}) < ImportPermits IN
       \/ /\ free
          /\ Continue(r, run_import_job(Loc(r)), [Loc(r) EXCEPT !.permit = TRUE])
          /\ importPast' = [importPast EXCEPT !.ran = @ \cup {<<Loc(r).key, Loc(r).job>>}]
       \/ /\ ~free
          /\ Continue(r, Cmd("jobFails", None, "-"), Loc(r))
          /\ UNCHANGED importPast
    /\ UNCHANGED <<tally, chatVars, jobs, idempotency, eviction>>

\* set_import_job_status
JobRuns(r) ==
    /\ At(r, "jobRuns")
    /\ jobs' = [jobs EXCEPT ![Loc(r).job].status = "running"]
    /\ Done(r)
    /\ UNCHANGED <<chatVars, idempotency, eviction, importPast>>

\* update_import_job_totals
Totals(r) ==
    /\ At(r, "totals")
    /\ jobs' = [jobs EXCEPT ![Loc(r).job].total = Len(Loc(r).rows)]
    /\ Done(r)
    /\ UNCHANGED <<chatVars, idempotency, eviction, importPast>>

\* A user that is not found nor created fails the job.
CatchUser(r) ==
    /\ At(r, "catch") /\ This(r).id = "user"
    /\ IF This(r).how = "failed"
       THEN Continue(r, Cmd("jobFails", None, "-"), Loc(r)) /\ UNCHANGED tally
       ELSE Done(r)
    /\ UNCHANGED <<chatVars, importVars>>

\* The sessions of earlier rows are cached.
Row(r) ==
    /\ At(r, "row")
    /\ LET n == This(r).id IN
       IF Loc(r).cache[n] # None
       THEN Insert(r, create_episode \o Cmd("catch", "row", "-"),
                   [Loc(r) EXCEPT !.session = Loc(r).cache[n]])
       ELSE Insert(r, Cmd("findSession", n, "-") \o Cmd("keepSession", n, "-")
                        \o create_episode \o Cmd("catch", "row", "-"), Loc(r))
    /\ UNCHANGED <<chatVars, importVars>>

KeepSession(r) ==
    /\ At(r, "keepSession")
    /\ Sent(r, [Loc(r) EXCEPT !.cache[This(r).id] = Loc(r).session])
    /\ UNCHANGED <<chatVars, importVars>>

\* Mutant: a row that fails is not counted.
CatchRowUncounted(r) ==
    /\ At(r, "catch") /\ This(r).id = "row"
    /\ LET loc == [Loc(r) EXCEPT !.kept = @ \cup ({Loc(r).episode} \ {None})] IN
       IF This(r).how = "failed" THEN Sent(r, loc) ELSE Sent(r, [loc EXCEPT !.imported = @ + 1])
    /\ UNCHANGED <<chatVars, importVars>>

CatchRow(r) ==
    /\ At(r, "catch") /\ This(r).id = "row"
    /\ LET loc == [Loc(r) EXCEPT !.kept = @ \cup ({Loc(r).episode} \ {None})] IN
       IF This(r).how = "failed" THEN Sent(r, [loc EXCEPT !.failed = @ + 1])
                                 ELSE Sent(r, [loc EXCEPT !.imported = @ + 1])
    /\ UNCHANGED <<chatVars, importVars>>

Finished(j, job, kept) ==
    /\ jobs' = [jobs EXCEPT ![j] = [job EXCEPT !.finished = importPast.finished + 1]]
    /\ importPast' = [importPast EXCEPT !.finished = @ + 1, !.kept[j] = kept]

\* finalize_import_job_failure, and the end of a job without a permit
JobFails(r) ==
    /\ At(r, "jobFails")
    /\ LET j == Loc(r).job IN Finished(j, [jobs[j] EXCEPT !.status = "failed"], {})
    /\ Done(r)
    /\ UNCHANGED <<chatVars, idempotency, eviction>>

\* finalize_import_job_success
JobEnds(r) ==
    /\ At(r, "jobEnds")
    /\ LET j == Loc(r).job
           imported == IF This(r).how = "dry run" THEN Len(Loc(r).rows) ELSE Loc(r).imported
           job == [jobs[j] EXCEPT !.imported = imported, !.failed = Loc(r).failed,
                     !.status = IF Loc(r).failed > 0 THEN "failed" ELSE "completed"]
       IN Finished(j, job, Loc(r).kept)
    /\ Done(r)
    /\ UNCHANGED <<chatVars, idempotency, eviction>>

\* The client goes away before the task is spawned, or a command of the task
\* fails; the task's work on its own records cannot fail.
ImportFails(r) ==
    /\ r \in Importing
    /\ \A do \in {"jobRuns", "totals", "row", "keepSession", "jobFails", "jobEnds"} : ~At(r, do)
    /\ CommandFails(r)
    /\ UNCHANGED <<chatVars, importVars>>

-----------------------------------------------------------------------------
(* evict_stale_import_jobs: three lock scopes.  A job is old when it       *)
(* finished long enough ago; which ones are is chosen.                     *)

CollectOld ==
    /\ eviction.at = "rest"
    /\ \E cutoff \in 1..importPast.finished :
         LET old == {j \in JobIds : jobs[j].status \in Final /\ jobs[j].finished <= cutoff} IN
         old # {} /\ eviction' = [at |-> "jobs", jobs |-> old]
    /\ UNCHANGED <<requestVars, chatVars, jobs, idempotency, importPast>>

DropJobs ==
    /\ eviction.at = "jobs"
    /\ jobs' = [j \in JobIds |-> IF j \in eviction.jobs THEN NoJob ELSE jobs[j]]
    /\ importPast' = [importPast EXCEPT !.dropped = @ \cup eviction.jobs]
    /\ eviction' = [eviction EXCEPT !.at = "keys"]
    /\ UNCHANGED <<requestVars, chatVars, idempotency>>

DropKeys ==
    /\ eviction.at = "keys"
    /\ idempotency' = [k \in ImportKeys |->
                         IF idempotency[k] \in eviction.jobs THEN None ELSE idempotency[k]]
    /\ eviction' = [at |-> "rest", jobs |-> {}]
    /\ UNCHANGED <<requestVars, chatVars, jobs, importPast>>

\* The server stops and starts: jobs, keys and tasks are gone, rows that were
\* stored stay.
Restart ==
    /\ ~importPast.restarted /\ MayFail
    /\ request' = [r \in Requests |-> Idle]
    /\ tally' = [tally EXCEPT !.faults = @ + 1]
    /\ jobs' = [j \in JobIds |-> NoJob]
    /\ idempotency' = [k \in ImportKeys |-> None]
    /\ eviction' = [at |-> "rest", jobs |-> {}]
    /\ importPast' = [importPast EXCEPT !.restarted = TRUE]
    /\ UNCHANGED chatVars

ImportRequests ==
    \E r \in Requests, p \in People, key \in ImportKeys \cup {Unkeyed}, payload \in Payloads :
      \E n \in 1..(IF Busy = {} THEN MaxRows ELSE 1) : \E rows \in [1..n -> SessionNames] :
        ImportHistory(r, p, key, payload, rows)

ImportCommands ==
    \/ \E r \in Requests :
         \/ KeyLookup(r) \/ JobLookup(r) \/ JobInsert(r) \/ KeyInsert(r) \/ Permit(r)
         \/ JobRuns(r) \/ Totals(r) \/ CatchUser(r) \/ Row(r) \/ KeepSession(r) \/ CatchRow(r)
         \/ JobFails(r) \/ JobEnds(r) \/ ImportFails(r)
    \/ CollectOld \/ DropJobs \/ DropKeys \/ Restart

\* Imports, with deletions of sessions beside them.
NextImports ==
    \/ ImportRequests \/ ImportCommands
    \/ /\ \/ \E r \in Requests, s \in SessionIds : DeleteSession(r, s)
          \/ ChatCommands
          \/ \E r \in Requests \ Importing : ChatFails(r)
       /\ UNCHANGED importVars

-----------------------------------------------------------------------------
(* Properties                                                              *)

ImportTypeOK ==
    /\ \A j \in JobIds : /\ jobs[j].status \in {"none", "queued", "running"} \cup Final
                         /\ jobs[j].imported + jobs[j].failed <= MaxRows
    /\ idempotency \in [ImportKeys -> JobIds \cup {None}]
    /\ eviction.jobs \subseteq JobIds

\* Whatever fails on the way, a job accounts for every message: a completed
\* job imported all of them (each as an episode of its own, or none in a dry
\* run), and a job that failed on rows counts each one as imported or failed
\* and made an episode for each that it imported.
Accounting ==
    \A j \in JobIds : LET job == jobs[j]  kept == Cardinality(importPast.kept[j]) IN
      /\ job.status = "completed" =>
           job.failed = 0 /\ job.imported = job.total /\ kept \in {0, job.total}
      /\ job.failed > 0 =>
           /\ job.status = "failed" /\ job.imported + job.failed = job.total
           /\ job.imported <= kept /\ kept <= job.total

\* Two jobs of one key both run only if their requests overlapped, if the
\* first was dropped for its age, or if the server restarted.
OneJobPerKey ==
    \A a, b \in importPast.ran :
      /\ a[1] = b[1] /\ a[1] # Unkeyed /\ a[2] < b[2]
      => tally.overlapped \/ importPast.restarted \/ a[2] \in importPast.dropped

\* When no request is in progress every job has ended, unless a client went
\* away before its task was spawned, and a key leads to a job.
NothingHangs ==
    /\ Busy = {} /\ tally.faults = 0 =>
         \A j \in JobIds : jobs[j].status \in Final \cup {"none"}
    /\ Busy = {} /\ eviction.at # "keys" =>
         \A k \in ImportKeys : idempotency[k] # None => jobs[idempotency[k]] # NoJob

ImportsAreHonest == Accounting /\ OneJobPerKey /\ NothingHangs
=============================================================================
