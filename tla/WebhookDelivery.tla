-------------------------- MODULE WebhookDelivery --------------------------
(***************************************************************************)
(* One memory webhook of one server: its subscription, its event rows, the *)
(* rate limiter and circuit breaker, the handlers that register, update    *)
(* and delete it, emit events and retry them by hand, the spawned delivery *)
(* tasks, and the copy of subscription and rows that persist_webhook_state *)
(* writes to Redis and restore_webhook_state reads after a restart.        *)
(*                                                                         *)
(* Every critical section of a lock and every Redis command is one step.   *)
(* A process is a request handler or a spawned task; the handlers that     *)
(* spawn a delivery as their last act go on as that delivery.              *)
(***************************************************************************)
EXTENDS Integers, FiniteSets

CONSTANTS
    Procs,         \* handlers and tasks that run at once
    MaxEvents,     \* bound: events emitted in a behaviour
    MaxRows,       \* max_events_per_webhook: rows kept
    MaxAttempts,   \* max_attempts of one delivery task
    RateLimit,     \* rate_limit_per_minute
    Threshold,     \* circuit_breaker_threshold
    MaxUpdates,    \* bound: update requests
    MaxDeletes,    \* bound: delete requests
    MaxRetries,    \* bound: manual retry requests
    MaxBlocks,     \* bound: attempts stopped by validate_webhook_dns
    MaxFaults,     \* bound: failing SETs of persist_webhook_state
    MaxCrashes     \* bound: restarts of the server

ASSUME WebhookAssumption ==
    /\ IsFiniteSet(Procs)
    /\ MaxEvents \in Nat /\ MaxUpdates \in Nat /\ MaxDeletes \in Nat /\ MaxRetries \in Nat
    /\ MaxBlocks \in Nat /\ MaxFaults \in Nat /\ MaxCrashes \in Nat
    /\ MaxRows \in Nat \ {0} /\ MaxAttempts \in Nat \ {0}
    /\ RateLimit \in Nat \ {0} /\ Threshold \in Nat \ {0}

VARIABLES
    registered,  \* the webhook has been registered
    hook,        \* memory_webhooks: "none", or the subscription, "on" or "off"
    rows,        \* memory_webhook_events: one row per retained event
    sent, failures, circuit,   \* webhook_runtime
    savedHook, savedRows,      \* the two Redis keys
    pc,          \* pc[p]: what p does next
    ev,          \* ev[p]: the event it is about
    attempt,     \* attempt[p]: number of the delivery attempt
    snapHook, snapRows,        \* p's snapshots in persist_webhook_state
    saves,       \* saves[p]: calls of persist_webhook_state still to make
    next,        \* next[p]: what p does after them
    emitted,     \* events so far, numbered in the order of their rows
    accepted,    \* history: events the receiver has got
    failed,      \* history: failed[e]: failed attempts since e was emitted
    gone,        \* history: a delete request has been answered
    updates, deletes, retries, blocks, faults, crashes   \* environment events so far

memory  == <<registered, hook, rows>>
runtime == <<sent, failures, circuit>>
saved   == <<savedHook, savedRows>>
persist == <<snapHook, snapRows, saves, next>>
procs   == <<pc, ev, attempt, persist>>
history == <<accepted, failed, gone>>
budget  == <<updates, deletes, retries, blocks, faults, crashes>>
vars    == <<memory, runtime, saved, procs, emitted, history, budget>>

Events == 1 .. MaxEvents
Hooks  == {"none", "on", "off"}
Row    == [there : BOOLEAN, attempts : 0 .. MaxAttempts, delivered : BOOLEAN, dead : BOOLEAN]
NoRow  == [there |-> FALSE, attempts |-> 0, delivered |-> FALSE, dead |-> FALSE]
NewRow == [NoRow EXCEPT !.there = TRUE]
NoRows == [e \in Events |-> NoRow]

Pcs == {"idle", "update", "delete", "forget", "answer", "emit", "retry",
        "hooks", "events", "setHooks", "setEvents",
        "deliver", "load", "check", "dns", "send",
        "rejected", "blocked", "delivered", "countFailure", "countBlocked", "countSuccess"}

TypeOK ==
    /\ registered \in BOOLEAN
    /\ hook \in Hooks /\ savedHook \in Hooks
    /\ rows \in [Events -> Row] /\ savedRows \in [Events -> Row]
    /\ sent \in 0 .. RateLimit /\ failures \in 0 .. Threshold - 1
    /\ circuit \in {"closed", "open"}
    /\ pc \in [Procs -> Pcs]
    /\ ev \in [Procs -> Events \cup {0}]
    /\ attempt \in [Procs -> 0 .. MaxAttempts]
    /\ snapHook \in [Procs -> Hooks] /\ snapRows \in [Procs -> [Events -> Row]]
    /\ saves \in [Procs -> 0 .. 2] /\ next \in [Procs -> {"idle", "deliver", "answer"}]
    /\ emitted \in 0 .. MaxEvents
    /\ accepted \subseteq Events
    /\ failed \in [Events -> 0 .. MaxAttempts]
    /\ gone \in BOOLEAN

Init ==
    /\ registered = FALSE
    /\ hook = "none" /\ savedHook = "none"
    /\ rows = NoRows /\ savedRows = NoRows
    /\ sent = 0 /\ failures = 0 /\ circuit = "closed"
    /\ pc = [p \in Procs |-> "idle"]
    /\ ev = [p \in Procs |-> 0]
    /\ attempt = [p \in Procs |-> 0]
    /\ snapHook = [p \in Procs |-> "none"] /\ snapRows = [p \in Procs |-> NoRows]
    /\ saves = [p \in Procs |-> 0] /\ next = [p \in Procs |-> "idle"]
    /\ emitted = 0
    /\ accepted = {} /\ failed = [e \in Events |-> 0]
    /\ gone = FALSE
    /\ updates = 0 /\ deletes = 0 /\ retries = 0 /\ blocks = 0 /\ faults = 0
    /\ crashes = 0

Goto(p, l) == pc' = [pc EXCEPT ![p] = l]

(* p calls persist_webhook_state n times and then goes on at l. *)
SaveThen(p, n, l) ==
    /\ Goto(p, "hooks")
    /\ saves' = [saves EXCEPT ![p] = n]
    /\ next' = [next EXCEPT ![p] = l]
    /\ UNCHANGED <<snapHook, snapRows>>

(* The handler or task ends. *)
Finish(p) ==
    /\ Goto(p, "idle")
    /\ ev' = [ev EXCEPT ![p] = 0]
    /\ attempt' = [attempt EXCEPT ![p] = 0]

-----------------------------------------------------------------------------
(* persist_webhook_state: both maps are copied, one lock after the other,   *)
(* and written, one SET after the other.                                    *)
CopyHooks(p) ==
    /\ pc[p] = "hooks"
    /\ snapHook' = [snapHook EXCEPT ![p] = hook]
    /\ Goto(p, "events")
    /\ UNCHANGED <<memory, runtime, saved, ev, attempt, snapRows, saves, next, emitted, history, budget>>

CopyEvents(p) ==
    /\ pc[p] = "events"
    /\ snapRows' = [snapRows EXCEPT ![p] = rows]
    /\ Goto(p, "setHooks")
    /\ UNCHANGED <<memory, runtime, saved, ev, attempt, snapHook, saves, next, emitted, history, budget>>

(* A SET that fails is logged and changes nothing. *)
Set(ok) == IF ok THEN UNCHANGED faults ELSE faults < MaxFaults /\ faults' = faults + 1

SetHooks(p, ok) ==
    /\ pc[p] = "setHooks"
    /\ Set(ok)
    /\ savedHook' = IF ok THEN snapHook[p] ELSE savedHook
    /\ snapHook' = [snapHook EXCEPT ![p] = "none"]
    /\ Goto(p, "setEvents")
    /\ UNCHANGED <<memory, runtime, savedRows, ev, attempt, snapRows, saves, next, emitted, history,
                   updates, deletes, retries, blocks, crashes>>

(* Mutant: the rows are not written. *)
SetEventsForgotten(p, ok) ==
    /\ pc[p] = "setEvents"
    /\ Set(ok)
    /\ snapRows' = [snapRows EXCEPT ![p] = NoRows]
    /\ saves' = [saves EXCEPT ![p] = @ - 1]
    /\ next' = [next EXCEPT ![p] = IF saves[p] > 1 THEN @ ELSE "idle"]
    /\ Goto(p, IF saves[p] > 1 THEN "hooks" ELSE next[p])
    /\ ev' = [ev EXCEPT ![p] = IF saves[p] > 1 \/ next[p] # "idle" THEN @ ELSE 0]
    /\ attempt' = [attempt EXCEPT ![p] = 0]
    /\ UNCHANGED <<memory, runtime, saved, snapHook, emitted, history, updates, deletes, retries,
                   blocks, crashes>>

SetEvents(p, ok) ==
    /\ pc[p] = "setEvents"
    /\ Set(ok)
    /\ savedRows' = IF ok THEN snapRows[p] ELSE savedRows
    /\ snapRows' = [snapRows EXCEPT ![p] = NoRows]
    /\ saves' = [saves EXCEPT ![p] = @ - 1]
    /\ next' = [next EXCEPT ![p] = IF saves[p] > 1 THEN @ ELSE "idle"]
    /\ Goto(p, IF saves[p] > 1 THEN "hooks" ELSE next[p])
    /\ ev' = [ev EXCEPT ![p] = IF saves[p] > 1 \/ next[p] # "idle" THEN @ ELSE 0]
    /\ attempt' = [attempt EXCEPT ![p] = 0]
    /\ UNCHANGED <<memory, runtime, savedHook, snapHook, emitted, history, updates, deletes, retries,
                   blocks, crashes>>

-----------------------------------------------------------------------------
(* The request handlers. *)

(* register_memory_webhook, with a fresh id. *)
Register(p, h) ==
    /\ pc[p] = "idle" /\ ~registered
    /\ registered' = TRUE
    /\ hook' = h
    /\ SaveThen(p, 2, "idle")
    /\ UNCHANGED <<rows, runtime, saved, ev, attempt, emitted, history, budget>>

(* update_memory_webhook reads the subscription ... *)
UpdateRead(p) ==
    /\ pc[p] = "idle" /\ hook # "none" /\ updates < MaxUpdates
    /\ updates' = updates + 1
    /\ Goto(p, "update")
    /\ UNCHANGED <<memory, runtime, saved, ev, attempt, persist, emitted, history, deletes, retries,
                   blocks, faults, crashes>>

(* ... and stores it again, deleted or not, after it has looked at the policy. *)
UpdateStore(p, h) ==
    /\ pc[p] = "update"
    /\ hook' = h
    /\ SaveThen(p, 2, "idle")
    /\ UNCHANGED <<registered, rows, runtime, saved, ev, attempt, emitted, history, budget>>

(* The new URL is rejected: by the domain policy, which is audited and      *)
(* saved, or by the checks before it.                                       *)
UpdateReject(p, audited) ==
    /\ pc[p] = "update"
    /\ IF audited THEN SaveThen(p, 1, "idle") ELSE Goto(p, "idle") /\ UNCHANGED persist
    /\ UNCHANGED <<memory, runtime, saved, ev, attempt, emitted, history, budget>>

(* delete_memory_webhook: the subscription, the rows, the runtime state. *)
DeleteHook(p) ==
    /\ pc[p] = "idle" /\ hook # "none" /\ deletes < MaxDeletes
    /\ deletes' = deletes + 1
    /\ hook' = "none"
    /\ Goto(p, "delete")
    /\ UNCHANGED <<registered, rows, runtime, saved, ev, attempt, persist, emitted, history, updates, retries,
                   blocks, faults, crashes>>

DeleteRows(p) ==
    /\ pc[p] = "delete"
    /\ rows' = NoRows
    /\ Goto(p, "forget")
    /\ UNCHANGED <<registered, hook, runtime, saved, ev, attempt, persist, emitted, history, budget>>

DeleteRuntime(p) ==
    /\ pc[p] = "forget"
    /\ sent' = 0 /\ failures' = 0 /\ circuit' = "closed"
    /\ SaveThen(p, 1, "answer")
    /\ UNCHANGED <<memory, saved, ev, attempt, emitted, history, budget>>

DeleteAnswer(p) ==
    /\ pc[p] = "answer"
    /\ gone' = TRUE
    /\ Finish(p)
    /\ UNCHANGED <<memory, runtime, saved, persist, emitted, accepted, failed, budget>>

(* emit_memory_webhook_event finds the subscription enabled ... *)
EmitRead(p) ==
    /\ pc[p] = "idle" /\ hook = "on"
    /\ emitted + Cardinality({q \in Procs : pc[q] = "emit"}) < MaxEvents
    /\ Goto(p, "emit")
    /\ UNCHANGED <<memory, runtime, saved, ev, attempt, persist, emitted, history, budget>>

(* The rows pushed first are dropped until MaxRows are left. *)
Keep(r) ==
    [e \in Events |->
        IF Cardinality({f \in Events : r[f].there /\ f >= e}) <= MaxRows THEN r[e] ELSE NoRow]

(* ... and adds a row for it, saves, and spawns the delivery. *)
EmitStore(p) ==
    /\ pc[p] = "emit"
    /\ emitted' = emitted + 1
    /\ ev' = [ev EXCEPT ![p] = emitted']
    /\ rows' = Keep([rows EXCEPT ![emitted'] = NewRow])
    /\ SaveThen(p, 1, "deliver")
    /\ UNCHANGED <<registered, hook, runtime, saved, attempt, history, budget>>

(* retry_memory_webhook_event looks the subscription up ... *)
RetryRead(p, e) ==
    /\ pc[p] = "idle" /\ hook # "none" /\ retries < MaxRetries /\ e <= emitted
    /\ retries' = retries + 1
    /\ ev' = [ev EXCEPT ![p] = e]
    /\ Goto(p, "retry")
    /\ UNCHANGED <<memory, runtime, saved, attempt, persist, emitted, history, updates, deletes,
                   blocks, faults, crashes>>

(* ... and the row: 404 without one. *)
RetryMissing(p) ==
    /\ pc[p] = "retry" /\ ~rows[ev[p]].there
    /\ Finish(p)
    /\ UNCHANGED <<memory, runtime, saved, persist, emitted, history, budget>>

(* A delivered event without force: retry_skipped is audited and saved. *)
RetrySkip(p) ==
    /\ pc[p] = "retry" /\ rows[ev[p]].there /\ rows[ev[p]].delivered
    /\ SaveThen(p, 1, "idle")
    /\ UNCHANGED <<memory, runtime, saved, ev, attempt, emitted, history, budget>>

(* The row is no dead letter any more, and a delivery is spawned. *)
RetryQueue(p) ==
    LET e == ev[p]
    IN  /\ pc[p] = "retry" /\ rows[e].there
        /\ rows' = [rows EXCEPT ![e].dead = FALSE]
        /\ failed' = [failed EXCEPT ![e] = 0]
        /\ SaveThen(p, 2, "deliver")
        /\ UNCHANGED <<registered, hook, runtime, saved, ev, attempt, emitted, accepted, gone, budget>>

-----------------------------------------------------------------------------
(* deliver_memory_webhook_event. *)

DeliverFind(p) ==
    /\ pc[p] = "deliver" /\ hook # "none"
    /\ Goto(p, "load")
    /\ UNCHANGED <<memory, runtime, saved, ev, attempt, persist, emitted, history, budget>>

DeliverNoHook(p) ==
    /\ pc[p] = "deliver" /\ hook = "none"
    /\ Finish(p)
    /\ UNCHANGED <<memory, runtime, saved, persist, emitted, history, budget>>

DeliverLoad(p) ==
    /\ pc[p] = "load" /\ rows[ev[p]].there /\ ~rows[ev[p]].delivered
    /\ attempt' = [attempt EXCEPT ![p] = 1]
    /\ Goto(p, "check")
    /\ UNCHANGED <<memory, runtime, saved, ev, persist, emitted, history, budget>>

(* The row was dropped or deleted, or another task has delivered the event. *)
DeliverNothing(p) ==
    /\ pc[p] = "load" /\ (~rows[ev[p]].there \/ rows[ev[p]].delivered)
    /\ Finish(p)
    /\ UNCHANGED <<memory, runtime, saved, persist, emitted, history, budget>>

Permitted == circuit = "closed" /\ sent < RateLimit

(* check_webhook_rate_and_circuit. *)
CheckOk(p) ==
    /\ pc[p] = "check" /\ Permitted
    /\ sent' = sent + 1
    /\ Goto(p, "dns")
    /\ UNCHANGED <<memory, failures, circuit, saved, ev, attempt, persist, emitted, history, budget>>

CheckReject(p) ==
    /\ pc[p] = "check" /\ ~Permitted
    /\ Goto(p, "rejected")
    /\ UNCHANGED <<memory, runtime, saved, ev, attempt, persist, emitted, history, budget>>

DnsOk(p) ==
    /\ pc[p] = "dns"
    /\ Goto(p, "send")
    /\ UNCHANGED <<memory, runtime, saved, ev, attempt, persist, emitted, history, budget>>

DnsBlock(p) ==
    /\ pc[p] = "dns" /\ blocks < MaxBlocks
    /\ blocks' = blocks + 1
    /\ Goto(p, "blocked")
    /\ UNCHANGED <<memory, runtime, saved, ev, attempt, persist, emitted, history, updates, deletes,
                   retries, faults, crashes>>

(* The request is answered with success; or with an error, or not in time, *)
(* whether the receiver has got it or not.                                 *)
Send(p, got, success) ==
    /\ pc[p] = "send" /\ (success => got)
    /\ accepted' = IF got THEN accepted \cup {ev[p]} ELSE accepted
    /\ Goto(p, IF success THEN "delivered" ELSE "rejected")
    /\ UNCHANGED <<memory, runtime, saved, ev, attempt, persist, emitted, failed, gone, budget>>

(* Mutant: dead_letter is never set. *)
SetStatusAlive(e, n, delivered, dead) ==
    rows' = IF ~rows[e].there THEN rows
            ELSE [rows EXCEPT ![e] = [rows[e] EXCEPT !.attempts = n, !.delivered = @ \/ delivered]]

(* update_webhook_delivery_status, on a row that may be gone by now. *)
SetStatus(e, n, delivered, dead) ==
    rows' = IF ~rows[e].there THEN rows
            ELSE [rows EXCEPT ![e] =
                     [rows[e] EXCEPT !.attempts  = n,
                                     !.delivered = @ \/ delivered,
                                     !.dead      = ~delivered /\ dead]]

StatusDelivered(p) ==
    /\ pc[p] = "delivered"
    /\ SetStatus(ev[p], attempt[p], TRUE, FALSE)
    /\ Goto(p, "countSuccess")
    /\ UNCHANGED <<registered, hook, runtime, saved, ev, attempt, persist, emitted, history, budget>>

(* Mutant: the event is given up one attempt too early. *)
LastAttemptEarly(p) == attempt[p] + 1 >= MaxAttempts

LastAttempt(p) == attempt[p] >= MaxAttempts

StatusFailed(p) ==
    /\ pc[p] \in {"rejected", "blocked"}
    /\ SetStatus(ev[p], attempt[p], FALSE, LastAttempt(p))
    /\ failed' = [failed EXCEPT ![ev[p]] = IF @ < MaxAttempts THEN @ + 1 ELSE @]
    /\ Goto(p, IF pc[p] = "blocked" THEN "countBlocked" ELSE "countFailure")
    /\ UNCHANGED <<registered, hook, runtime, saved, ev, attempt, persist, emitted, accepted, gone,
                   budget>>

(* record_webhook_delivery_success. *)
CountSuccess(p) ==
    /\ pc[p] = "countSuccess"
    /\ failures' = 0 /\ circuit' = "closed"
    /\ SaveThen(p, 1, "idle")
    /\ UNCHANGED <<memory, sent, saved, ev, attempt, emitted, history, budget>>

(* Mutant: the failures are not reset when the circuit opens. *)
RecordFailureKept ==
    /\ failures' = failures + 1
    /\ circuit' = IF failures + 1 >= Threshold THEN "open" ELSE circuit

(* record_webhook_delivery_failure: any failure counts, one of the circuit *)
(* breaker itself included.                                                *)
RecordFailure ==
    /\ failures' = IF failures + 1 >= Threshold THEN 0 ELSE failures + 1
    /\ circuit' = IF failures + 1 >= Threshold THEN "open" ELSE circuit

(* The last attempt leaves a dead letter; otherwise the task sleeps and    *)
(* tries again.                                                            *)
CountDead(p) ==
    /\ pc[p] = "countFailure" /\ LastAttempt(p)
    /\ RecordFailure
    /\ SaveThen(p, 2, "idle")
    /\ UNCHANGED <<memory, sent, saved, ev, attempt, emitted, accepted, failed, gone, budget>>

CountRetry(p) ==
    /\ pc[p] = "countFailure" /\ ~LastAttempt(p)
    /\ RecordFailure
    /\ attempt' = [attempt EXCEPT ![p] = @ + 1]
    /\ Goto(p, "check")
    /\ UNCHANGED <<memory, sent, saved, ev, persist, emitted, accepted, failed, gone, budget>>

(* A blocked attempt is the last one, whatever its number. *)
CountBlocked(p) ==
    /\ pc[p] = "countBlocked"
    /\ RecordFailure
    /\ SaveThen(p, IF LastAttempt(p) THEN 2 ELSE 1, "idle")
    /\ UNCHANGED <<memory, sent, saved, ev, attempt, emitted, accepted, failed, gone, budget>>

-----------------------------------------------------------------------------
(* A minute passes: the rate limiter starts a new window. *)
WindowOver ==
    /\ sent > 0
    /\ sent' = 0
    /\ UNCHANGED <<memory, failures, circuit, saved, procs, emitted, history, budget>>

(* The cooldown passes since the circuit was opened last. *)
CooldownOver ==
    /\ circuit = "open"
    /\ circuit' = "closed"
    /\ UNCHANGED <<memory, sent, failures, saved, procs, emitted, history, budget>>

(* The server stops and starts again: restore_webhook_state. *)
Restart ==
    /\ crashes < MaxCrashes
    /\ crashes' = crashes + 1
    /\ hook' = savedHook /\ rows' = savedRows
    /\ sent' = 0 /\ failures' = 0 /\ circuit' = "closed"
    /\ pc' = [p \in Procs |-> "idle"]
    /\ ev' = [p \in Procs |-> 0]
    /\ attempt' = [p \in Procs |-> 0]
    /\ snapHook' = [p \in Procs |-> "none"] /\ snapRows' = [p \in Procs |-> NoRows]
    /\ saves' = [p \in Procs |-> 0] /\ next' = [p \in Procs |-> "idle"]
    /\ UNCHANGED <<registered, saved, emitted, history, updates, deletes, retries, blocks, faults>>

Request(p) ==
    \/ \E h \in {"on", "off"} : Register(p, h)
    \/ UpdateRead(p) \/ DeleteHook(p) \/ EmitRead(p)
    \/ \E e \in Events : RetryRead(p, e)

(* What a handler or a task that has begun does next. *)
Step(p) ==
    \/ CopyHooks(p) \/ CopyEvents(p)
    \/ \E ok \in BOOLEAN : SetHooks(p, ok) \/ SetEvents(p, ok)
    \/ \E h \in {"on", "off"} : UpdateStore(p, h)
    \/ \E audited \in BOOLEAN : UpdateReject(p, audited)
    \/ DeleteRows(p) \/ DeleteRuntime(p) \/ DeleteAnswer(p)
    \/ EmitStore(p)
    \/ RetryMissing(p) \/ RetrySkip(p) \/ RetryQueue(p)
    \/ DeliverFind(p) \/ DeliverNoHook(p) \/ DeliverLoad(p) \/ DeliverNothing(p)
    \/ CheckOk(p) \/ CheckReject(p) \/ DnsOk(p) \/ DnsBlock(p)
    \/ \E got, success \in BOOLEAN : Send(p, got, success)
    \/ StatusDelivered(p) \/ StatusFailed(p)
    \/ CountSuccess(p) \/ CountDead(p) \/ CountRetry(p) \/ CountBlocked(p)

Next ==
    \/ \E p \in Procs : Request(p) \/ Step(p)
    \/ WindowOver \/ CooldownOver \/ Restart

Spec == Init /\ [][Next]_vars

(* tokio runs every task that is ready, sleeps and requests end (timeout), *)
(* and time goes on.                                                       *)
Fairness ==
    /\ \A p \in Procs : WF_vars(Step(p))
    /\ WF_vars(WindowOver) /\ WF_vars(CooldownOver)

FairSpec == Spec /\ Fairness

-----------------------------------------------------------------------------
(* Properties. *)

(* A row says "delivered" only if the receiver has got the event. *)
DeliveredIsTrue == \A e \in Events : rows[e].delivered => e \in accepted

(* An event is a dead letter only after max_attempts failed attempts, and   *)
(* never one that was delivered, as long as nobody retries it by hand.      *)
DeadLettersAreTrue ==
    retries = 0 =>
        \A e \in Events : rows[e].dead => failed[e] = MaxAttempts /\ ~rows[e].delivered

(* The ring of rows holds exactly the events emitted last, however their    *)
(* handlers and deliveries interleave, until a delete or a restart.         *)
LatestIsKept ==
    deletes = 0 /\ crashes = 0 =>
        {e \in Events : rows[e].there} = {e \in 1 .. emitted : e > emitted - MaxRows}

(* What the rows tell of the deliveries is true. *)
RowsAreTrue == DeliveredIsTrue /\ DeadLettersAreTrue /\ LatestIsKept

Quiet == \A p \in Procs : pc[p] = "idle"

(* "Subscriptions and event rows survive server restarts": when nothing is  *)
(* under way and no SET has failed, what a restart would restore is what is *)
(* in memory.                                                               *)
QuietMeansSaved == Quiet /\ faults = 0 => savedHook = hook /\ savedRows = rows

(* "Delete webhook configuration and retained in-memory event records":     *)
(* once the request is answered both are gone, and no task or restart       *)
(* brings them back, as long as no SET has failed.                          *)
DeletedIsGone == gone /\ faults = 0 /\ Quiet => hook = "none" /\ rows = NoRows

(* What a client was told to be saved or deleted is. *)
RequestsAreKept == QuietMeansSaved /\ DeletedIsGone

(* "Delivery is at-least-once", "a failed event is marked dead_letter":     *)
(* every retained event ends delivered or as a dead letter, unless its      *)
(* webhook is deleted.                                                      *)
EventuallySettled ==
    \A e \in Events :
        rows[e].there ~> rows[e].delivered \/ rows[e].dead \/ ~rows[e].there \/ hook = "none"

=============================================================================
