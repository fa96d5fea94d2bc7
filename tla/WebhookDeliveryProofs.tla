----------------------- MODULE WebhookDeliveryProofs -----------------------
(***************************************************************************)
(* Proofs about the memory webhooks, for any number of handlers and        *)
(* delivery tasks, events, rows, attempts, requests and restarts: what the *)
(* rows tell of the deliveries is true, and, when no two handlers or tasks *)
(* run at once, what a client was told to be saved or deleted is.          *)
(***************************************************************************)
EXTENDS WebhookDelivery, FiniteSetTheorems, TLAPS

Saving == {"hooks", "events", "setHooks", "setEvents"}
Trying == {"check", "dns", "send", "rejected", "blocked"}
Delivering ==
    Trying \cup {"deliver", "load", "delivered", "countFailure", "countBlocked", "countSuccess"}

(* p delivers its event, or will as soon as it has saved. *)
Owns(p) == pc[p] \in Delivering \/ (pc[p] \in Saving /\ next[p] = "deliver")

BudgetsCount == deletes \in Nat /\ retries \in Nat /\ faults \in Nat /\ crashes \in Nat

(* A process in the middle of a handler has what the handler works with. *)
PlacesFit ==
    \A p \in Procs :
        /\ pc[p] \in Saving => saves[p] \in 1 .. 2
        /\ Owns(p) \/ pc[p] = "retry" => ev[p] \in 1 .. emitted
        /\ pc[p] = "retry" => retries > 0
        /\ pc[p] = "delete" => deletes > 0

Emitters == {q \in Procs : pc[q] = "emit"}

(* Every handler about to emit an event has a number left for it. *)
RoomToEmit == emitted + Cardinality(Emitters) <= MaxEvents

PlaceInv == TypeOK /\ BudgetsCount /\ PlacesFit /\ RoomToEmit

(* The rows in memory, in Redis and on their way there tell the truth about *)
(* what the receiver has got.                                               *)
Told(r) == \A e \in Events : r[e].delivered => e \in accepted

DeliveriesAreTold ==
    /\ Told(rows) /\ Told(savedRows)
    /\ \A p \in Procs : Told(snapRows[p])
    /\ \A p \in Procs : pc[p] = "delivered" => ev[p] \in accepted

(* Without manual retries an event has at most one delivery task, ... *)
OneTask == \A p, q \in Procs : Owns(p) /\ Owns(q) /\ ev[p] = ev[q] => p = q

(* ... which has counted its failures, ... *)
FailuresAreCounted ==
    /\ \A e \in Events : e > emitted => failed[e] = 0
    /\ \A p \in Procs :
        /\ Owns(p) /\ pc[p] \in Saving \cup {"deliver", "load"} => failed[ev[p]] = 0
        /\ pc[p] \in Trying =>
            attempt[p] >= 1 /\ failed[ev[p]] = attempt[p] - 1 /\ ~rows[ev[p]].delivered
        /\ pc[p] = "countFailure" =>
            attempt[p] >= 1 /\ failed[ev[p]] = attempt[p] /\ ~rows[ev[p]].delivered

(* ... so the rows, wherever they are, tell the truth about dead letters. *)
GivenUp(r) == \A e \in Events : r[e].dead => failed[e] = MaxAttempts /\ ~r[e].delivered

DeadLettersAreTold ==
    GivenUp(rows) /\ GivenUp(savedRows) /\ \A p \in Procs : GivenUp(snapRows[p])

NobodyRetries == retries = 0 => OneTask /\ FailuresAreCounted /\ DeadLettersAreTold

RowsInv == PlaceInv /\ DeliveriesAreTold /\ NobodyRetries /\ LatestIsKept

-----------------------------------------------------------------------------
(* With one handler or task at a time.                                      *)

(* What p, the only one to run, leaves in memory and in Redis. *)
SerialInv ==
    faults = 0 =>
        /\ hook # "none" \/ savedHook # "none" \/ gone => registered
        /\ gone => /\ Quiet /\ hook = "none" /\ rows = NoRows
                   /\ savedHook = "none" /\ savedRows = NoRows
        /\ \A p \in Procs :
            /\ pc[p] # "idle" => registered
            /\ pc[p] \in {"idle", "update", "answer", "emit", "retry", "deliver", "load"} =>
                savedHook = hook /\ savedRows = rows
            /\ pc[p] \in {"events", "setHooks"} => snapHook[p] = hook
            /\ pc[p] \in {"setHooks", "setEvents"} => snapRows[p] = rows
            /\ pc[p] = "setEvents" => savedHook = hook
            /\ pc[p] = "delete" => hook = "none"
            /\ pc[p] \in {"forget", "answer"} \/ (pc[p] \in Saving /\ next[p] = "answer") =>
                hook = "none" /\ rows = NoRows

-----------------------------------------------------------------------------
(* Type correctness.                                                        *)

(* Rows, new, missing or dropped, are rows. *)
LEMMA RowsOf ==
    /\ NoRow \in Row /\ NewRow \in Row /\ NoRows \in [Events -> Row]
    /\ \A r \in [Events -> Row] : Keep(r) \in [Events -> Row]
<1>1. NoRow \in Row /\ NewRow \in Row
  <2>1. NoRow \in Row
    BY WebhookAssumption DEF NoRow, Row
  <2> QED BY <2>1 DEF NewRow, Row
<1>2. NoRows \in [Events -> Row]
  BY <1>1 DEF NoRows
<1>3. ASSUME NEW r \in [Events -> Row] PROVE Keep(r) \in [Events -> Row]
  BY <1>1 DEF Keep
<1> QED BY <1>1, <1>2, <1>3

(* Finitely many handlers run at once. *)
LEMMA EmittersCount == IsFiniteSet(Emitters) /\ Cardinality(Emitters) \in Nat
<1>1. Emitters \subseteq Procs
  BY DEF Emitters
<1> QED BY <1>1, WebhookAssumption, FS_Subset, FS_CardinalityType

(* A step numbers an event only if there is room for it, and leaves room for *)
(* the handlers that are about to.                                           *)
LEMMA RoomStays ==
    ASSUME PlaceInv, [Next]_vars
    PROVE  RoomToEmit' /\ (emitted' = emitted + 1 => emitted < MaxEvents)
<1>0. /\ emitted \in Nat /\ MaxEvents \in Nat /\ pc \in [Procs -> Pcs]
      /\ emitted + Cardinality(Emitters) <= MaxEvents
  BY WebhookAssumption DEF PlaceInv, TypeOK, RoomToEmit
<1>1. CASE emitted' = emitted /\ Emitters' \subseteq Emitters
  <2>1. IsFiniteSet(Emitters') /\ Cardinality(Emitters') <= Cardinality(Emitters)
    BY <1>1, EmittersCount, FS_Subset
  <2>2. Cardinality(Emitters') \in Nat
    BY <2>1, FS_CardinalityType
  <2> QED BY <1>0, <1>1, <2>1, <2>2, EmittersCount DEF RoomToEmit
<1>2. ASSUME NEW p \in Procs, EmitRead(p) PROVE RoomToEmit' /\ emitted < MaxEvents
  <2>1. emitted' = emitted /\ Emitters' = Emitters \cup {p} /\ p \notin Emitters
    BY <1>0, <1>2 DEF EmitRead, Emitters, Goto
  <2>2. Cardinality(Emitters') = Cardinality(Emitters) + 1
    BY <2>1, EmittersCount, FS_AddElement
  <2>3. emitted + Cardinality(Emitters) < MaxEvents
    BY <1>2 DEF EmitRead, Emitters
  <2> QED BY <1>0, <2>1, <2>2, <2>3, EmittersCount DEF RoomToEmit
<1>3. ASSUME NEW p \in Procs, EmitStore(p) PROVE RoomToEmit' /\ emitted < MaxEvents
  <2>1. emitted' = emitted + 1 /\ Emitters' = Emitters \ {p} /\ p \in Emitters
    BY <1>0, <1>3 DEF EmitStore, SaveThen, Emitters, Goto
  <2>2. Cardinality(Emitters') = Cardinality(Emitters) - 1 /\ Cardinality(Emitters') \in Nat
    BY <2>1, EmittersCount, FS_RemoveElement, FS_CardinalityType
  <2> QED BY <1>0, <2>1, <2>2, EmittersCount DEF RoomToEmit
<1>4. ASSUME NEW p \in Procs, \E h \in {"on", "off"} : Register(p, h)
      PROVE  emitted' = emitted /\ Emitters' \subseteq Emitters
  BY <1>0, <1>4 DEF Register, SaveThen, Goto, Emitters
<1>5. ASSUME NEW p \in Procs, UpdateRead(p)
      PROVE  emitted' = emitted /\ Emitters' \subseteq Emitters
  BY <1>0, <1>5 DEF UpdateRead, Goto, Emitters
<1>6. ASSUME NEW p \in Procs, DeleteHook(p)
      PROVE  emitted' = emitted /\ Emitters' \subseteq Emitters
  BY <1>0, <1>6 DEF DeleteHook, Goto, Emitters
<1>7. ASSUME NEW p \in Procs, \E e \in Events : RetryRead(p, e)
      PROVE  emitted' = emitted /\ Emitters' \subseteq Emitters
  BY <1>0, <1>7 DEF RetryRead, Goto, Emitters
<1>8. ASSUME NEW p \in Procs, CopyHooks(p)
      PROVE  emitted' = emitted /\ Emitters' \subseteq Emitters
  BY <1>0, <1>8 DEF CopyHooks, Goto, Emitters
<1>9. ASSUME NEW p \in Procs, CopyEvents(p)
      PROVE  emitted' = emitted /\ Emitters' \subseteq Emitters
  BY <1>0, <1>9 DEF CopyEvents, Goto, Emitters
<1>10. ASSUME NEW p \in Procs, \E ok \in BOOLEAN : SetHooks(p, ok)
      PROVE  emitted' = emitted /\ Emitters' \subseteq Emitters
  BY <1>0, <1>10 DEF SetHooks, Set, Goto, Emitters
<1>11. ASSUME NEW p \in Procs, \E ok \in BOOLEAN : SetEvents(p, ok)
      PROVE  emitted' = emitted /\ Emitters' \subseteq Emitters
  BY <1>0, <1>11 DEF SetEvents, Set, Goto, Emitters, PlaceInv, TypeOK
<1>12. ASSUME NEW p \in Procs, \E h \in {"on", "off"} : UpdateStore(p, h)
      PROVE  emitted' = emitted /\ Emitters' \subseteq Emitters
  BY <1>0, <1>12 DEF UpdateStore, SaveThen, Goto, Emitters
<1>13. ASSUME NEW p \in Procs, \E audited \in BOOLEAN : UpdateReject(p, audited)
      PROVE  emitted' = emitted /\ Emitters' \subseteq Emitters
  BY <1>0, <1>13 DEF UpdateReject, SaveThen, Goto, Emitters
<1>14. ASSUME NEW p \in Procs, DeleteRows(p)
      PROVE  emitted' = emitted /\ Emitters' \subseteq Emitters
  BY <1>0, <1>14 DEF DeleteRows, Goto, Emitters
<1>15. ASSUME NEW p \in Procs, DeleteRuntime(p)
      PROVE  emitted' = emitted /\ Emitters' \subseteq Emitters
  BY <1>0, <1>15 DEF DeleteRuntime, SaveThen, Goto, Emitters
<1>16. ASSUME NEW p \in Procs, DeleteAnswer(p)
      PROVE  emitted' = emitted /\ Emitters' \subseteq Emitters
  BY <1>0, <1>16 DEF DeleteAnswer, Finish, Goto, Emitters
<1>17. ASSUME NEW p \in Procs, RetryMissing(p)
      PROVE  emitted' = emitted /\ Emitters' \subseteq Emitters
  BY <1>0, <1>17 DEF RetryMissing, Finish, Goto, Emitters
<1>18. ASSUME NEW p \in Procs, RetrySkip(p)
      PROVE  emitted' = emitted /\ Emitters' \subseteq Emitters
  BY <1>0, <1>18 DEF RetrySkip, SaveThen, Goto, Emitters
<1>19. ASSUME NEW p \in Procs, RetryQueue(p)
      PROVE  emitted' = emitted /\ Emitters' \subseteq Emitters
  BY <1>0, <1>19 DEF RetryQueue, SaveThen, Goto, Emitters
<1>20. ASSUME NEW p \in Procs, DeliverFind(p)
      PROVE  emitted' = emitted /\ Emitters' \subseteq Emitters
  BY <1>0, <1>20 DEF DeliverFind, Goto, Emitters
<1>21. ASSUME NEW p \in Procs, DeliverNoHook(p)
      PROVE  emitted' = emitted /\ Emitters' \subseteq Emitters
  BY <1>0, <1>21 DEF DeliverNoHook, Finish, Goto, Emitters
<1>22. ASSUME NEW p \in Procs, DeliverLoad(p)
      PROVE  emitted' = emitted /\ Emitters' \subseteq Emitters
  BY <1>0, <1>22 DEF DeliverLoad, Goto, Emitters
<1>23. ASSUME NEW p \in Procs, DeliverNothing(p)
      PROVE  emitted' = emitted /\ Emitters' \subseteq Emitters
  BY <1>0, <1>23 DEF DeliverNothing, Finish, Goto, Emitters
<1>24. ASSUME NEW p \in Procs, CheckOk(p)
      PROVE  emitted' = emitted /\ Emitters' \subseteq Emitters
  BY <1>0, <1>24 DEF CheckOk, Permitted, Goto, Emitters
<1>25. ASSUME NEW p \in Procs, CheckReject(p)
      PROVE  emitted' = emitted /\ Emitters' \subseteq Emitters
  BY <1>0, <1>25 DEF CheckReject, Goto, Emitters
<1>26. ASSUME NEW p \in Procs, DnsOk(p)
      PROVE  emitted' = emitted /\ Emitters' \subseteq Emitters
  BY <1>0, <1>26 DEF DnsOk, Goto, Emitters
<1>27. ASSUME NEW p \in Procs, DnsBlock(p)
      PROVE  emitted' = emitted /\ Emitters' \subseteq Emitters
  BY <1>0, <1>27 DEF DnsBlock, Goto, Emitters
<1>28. ASSUME NEW p \in Procs, \E got, success \in BOOLEAN : Send(p, got, success)
      PROVE  emitted' = emitted /\ Emitters' \subseteq Emitters
  BY <1>0, <1>28 DEF Send, Goto, Emitters
<1>29. ASSUME NEW p \in Procs, StatusDelivered(p)
      PROVE  emitted' = emitted /\ Emitters' \subseteq Emitters
  BY <1>0, <1>29 DEF StatusDelivered, SetStatus, Goto, Emitters
<1>30. ASSUME NEW p \in Procs, StatusFailed(p)
      PROVE  emitted' = emitted /\ Emitters' \subseteq Emitters
  BY <1>0, <1>30 DEF StatusFailed, SetStatus, LastAttempt, Goto, Emitters
<1>31. ASSUME NEW p \in Procs, CountSuccess(p)
      PROVE  emitted' = emitted /\ Emitters' \subseteq Emitters
  BY <1>0, <1>31 DEF CountSuccess, SaveThen, Goto, Emitters
<1>32. ASSUME NEW p \in Procs, CountDead(p)
      PROVE  emitted' = emitted /\ Emitters' \subseteq Emitters
  BY <1>0, <1>32 DEF CountDead, RecordFailure, SaveThen, Goto, Emitters
<1>33. ASSUME NEW p \in Procs, CountRetry(p)
      PROVE  emitted' = emitted /\ Emitters' \subseteq Emitters
  BY <1>0, <1>33 DEF CountRetry, RecordFailure, LastAttempt, Goto, Emitters
<1>34. ASSUME NEW p \in Procs, CountBlocked(p)
      PROVE  emitted' = emitted /\ Emitters' \subseteq Emitters
  BY <1>0, <1>34 DEF CountBlocked, RecordFailure, SaveThen, Goto, Emitters
<1>35. ASSUME WindowOver PROVE emitted' = emitted /\ Emitters' \subseteq Emitters
  BY <1>35 DEF WindowOver, procs, Emitters
<1>36. ASSUME CooldownOver PROVE emitted' = emitted /\ Emitters' \subseteq Emitters
  BY <1>36 DEF CooldownOver, procs, Emitters
<1>37. ASSUME Restart PROVE emitted' = emitted /\ Emitters' \subseteq Emitters
  BY <1>37 DEF Restart, procs, Emitters
<1>38. ASSUME UNCHANGED vars PROVE emitted' = emitted /\ Emitters' \subseteq Emitters
  BY <1>38 DEF vars, procs, Emitters
<1> QED
  BY <1>1, <1>2, <1>3, <1>4, <1>5, <1>6, <1>7, <1>8, <1>9, <1>10, <1>11, <1>12, <1>13,
          <1>14, <1>15, <1>16, <1>17, <1>18, <1>19, <1>20, <1>21, <1>22, <1>23, <1>24,
          <1>25, <1>26, <1>27, <1>28, <1>29, <1>30, <1>31, <1>32, <1>33, <1>34, <1>35,
          <1>36, <1>37, <1>38
     DEF Next, Request, Step

(* What update_webhook_delivery_status and a manual retry do to the rows. *)
LEMMA StatusChanges ==
    ASSUME rows \in [Events -> Row], NEW e \in Events, NEW n \in 0 .. MaxAttempts,
           NEW delivered \in BOOLEAN, NEW dead \in BOOLEAN, SetStatus(e, n, delivered, dead)
    PROVE  /\ rows' \in [Events -> Row]
           /\ \A f \in Events : rows'[f].there = rows[f].there
           /\ \A f \in Events \ {e} : rows'[f] = rows[f]
           /\ ~rows[e].there => rows'[e] = rows[e]
           /\ rows[e].there /\ delivered => rows'[e].delivered /\ ~rows'[e].dead
           /\ rows[e].there /\ ~delivered => rows'[e].delivered = rows[e].delivered
           /\ rows[e].there /\ ~dead => ~rows'[e].dead
<1> DEFINE r == [rows[e] EXCEPT !.attempts = n, !.delivered = @ \/ delivered,
                                !.dead = ~delivered /\ dead]
<1>1. CASE ~rows[e].there
  BY <1>1 DEF SetStatus
<1>2. CASE rows[e].there
  <2>1. rows[e] \in Row
    OBVIOUS
  <2>2. r \in Row
    BY <2>1 DEF Row
  <2>3. r.there = rows[e].there
    BY <2>1 DEF Row
  <2>4. delivered => r.delivered /\ ~r.dead
    BY <2>1 DEF Row
  <2>5. (~delivered => r.delivered = rows[e].delivered) /\ (~dead => ~r.dead)
    BY <2>1 DEF Row
  <2>6. rows' = [rows EXCEPT ![e] = r]
    BY <1>2 DEF SetStatus
  <2> HIDE DEF r
  <2> QED BY <1>2, <2>2, <2>3, <2>4, <2>5, <2>6
<1> QED BY <1>1, <1>2

LEMMA RetryChanges ==
    ASSUME rows \in [Events -> Row], NEW e \in Events,
           rows' = [rows EXCEPT ![e].dead = FALSE]
    PROVE  /\ rows' \in [Events -> Row]
           /\ \A f \in Events : rows'[f].there = rows[f].there
           /\ \A f \in Events : rows'[f].delivered = rows[f].delivered
<1>1. /\ [rows[e] EXCEPT !.dead = FALSE] \in Row
      /\ [rows[e] EXCEPT !.dead = FALSE].there = rows[e].there
      /\ [rows[e] EXCEPT !.dead = FALSE].delivered = rows[e].delivered
  BY DEF Row
<1> QED BY <1>1

-----------------------------------------------------------------------------
(* The program counters, locals and bounds. *)
LEMMA PlaceInvInit == Init => PlaceInv
<1> SUFFICES ASSUME Init PROVE PlaceInv
  OBVIOUS
<1>1. TypeOK /\ BudgetsCount
  <2>1. 0 \in 0 .. RateLimit /\ 0 \in 0 .. Threshold - 1 /\ 0 \in 0 .. MaxAttempts
        /\ 0 \in 0 .. MaxEvents
    BY WebhookAssumption
  <2>2. /\ registered \in BOOLEAN /\ gone \in BOOLEAN /\ circuit \in {"closed", "open"}
        /\ hook \in Hooks /\ savedHook \in Hooks /\ snapHook \in [Procs -> Hooks]
    BY DEF Init, Hooks
  <2>3. /\ rows \in [Events -> Row] /\ savedRows \in [Events -> Row]
        /\ snapRows \in [Procs -> [Events -> Row]]
    BY RowsOf DEF Init
  <2>4. /\ sent \in 0 .. RateLimit /\ failures \in 0 .. Threshold - 1
        /\ emitted \in 0 .. MaxEvents /\ accepted \subseteq Events
        /\ failed \in [Events -> 0 .. MaxAttempts] /\ attempt \in [Procs -> 0 .. MaxAttempts]
    BY <2>1 DEF Init
  <2>5. /\ pc \in [Procs -> Pcs] /\ ev \in [Procs -> Events \cup {0}]
        /\ saves \in [Procs -> 0 .. 2] /\ next \in [Procs -> {"idle", "deliver", "answer"}]
    BY DEF Init, Pcs
  <2>6. BudgetsCount
    BY DEF Init, BudgetsCount
  <2> QED BY <2>2, <2>3, <2>4, <2>5, <2>6 DEF TypeOK
<1>2. PlacesFit
  BY DEF Init, PlacesFit, Owns, Saving, Delivering, Trying
<1>3. Emitters = {}
  BY DEF Init, Emitters
<1> QED BY <1>1, <1>2, <1>3, FS_EmptySet, WebhookAssumption DEF PlaceInv, RoomToEmit, Init

LEMMA PlaceInvNext == PlaceInv /\ [Next]_vars => PlaceInv'
<1> SUFFICES ASSUME PlaceInv, [Next]_vars PROVE PlaceInv'
  OBVIOUS
<1> DEFINE Typed == TypeOK' /\ BudgetsCount' /\ PlacesFit'
<1>0. TypeOK /\ BudgetsCount /\ PlacesFit /\ RoomToEmit'
      /\ (emitted' = emitted + 1 => emitted < MaxEvents)
  BY RoomStays DEF PlaceInv
<1> USE WebhookAssumption, RowsOf
<1>1. ASSUME NEW p \in Procs, \E h \in {"on", "off"} : Register(p, h) PROVE Typed
  BY <1>0, <1>1
     DEF Register, SaveThen, Goto, runtime, saved, history, budget, TypeOK,
          BudgetsCount, PlacesFit, Owns, Saving, Delivering, Trying, Events, Hooks, Pcs
<1>2. ASSUME NEW p \in Procs, UpdateRead(p) PROVE Typed
  BY <1>0, <1>2
     DEF UpdateRead, Goto, memory, runtime, saved, persist, history, TypeOK,
          BudgetsCount, PlacesFit, Owns, Saving, Delivering, Trying, Events, Hooks, Pcs
<1>3. ASSUME NEW p \in Procs, DeleteHook(p) PROVE Typed
  BY <1>0, <1>3
     DEF DeleteHook, Goto, runtime, saved, persist, history, TypeOK, BudgetsCount,
          PlacesFit, Owns, Saving, Delivering, Trying, Events, Hooks, Pcs
<1>4. ASSUME NEW p \in Procs, EmitRead(p) PROVE Typed
  BY <1>0, <1>4
     DEF EmitRead, Goto, memory, runtime, saved, persist, history, budget, TypeOK,
          BudgetsCount, PlacesFit, Owns, Saving, Delivering, Trying, Events, Hooks, Pcs
<1>5. ASSUME NEW p \in Procs, \E e \in Events : RetryRead(p, e) PROVE Typed
  BY <1>0, <1>5
     DEF RetryRead, Goto, memory, runtime, saved, persist, history, TypeOK,
          BudgetsCount, PlacesFit, Owns, Saving, Delivering, Trying, Events, Hooks, Pcs
<1>6. ASSUME NEW p \in Procs, CopyHooks(p) PROVE Typed
  BY <1>0, <1>6
     DEF CopyHooks, Goto, memory, runtime, saved, history, budget, TypeOK, BudgetsCount,
          PlacesFit, Owns, Saving, Delivering, Trying, Events, Hooks, Pcs
<1>7. ASSUME NEW p \in Procs, CopyEvents(p) PROVE Typed
  BY <1>0, <1>7
     DEF CopyEvents, Goto, memory, runtime, saved, history, budget, TypeOK,
          BudgetsCount, PlacesFit, Owns, Saving, Delivering, Trying, Events, Hooks, Pcs
<1>8. ASSUME NEW p \in Procs, \E ok \in BOOLEAN : SetHooks(p, ok) PROVE Typed
  BY <1>0, <1>8
     DEF SetHooks, Set, Goto, memory, runtime, history, TypeOK, BudgetsCount, PlacesFit,
          Owns, Saving, Delivering, Trying, Events, Hooks, Pcs
<1>9. ASSUME NEW p \in Procs, \E ok \in BOOLEAN : SetEvents(p, ok) PROVE Typed
  <2> PICK ok \in BOOLEAN : SetEvents(p, ok)
    BY <1>9
  <2>1. /\ pc[p] = "setEvents" /\ saves[p] \in 1 .. 2 /\ snapRows[p] \in [Events -> Row]
        /\ next[p] \in {"idle", "deliver", "answer"} /\ ev[p] \in Events \cup {0}
        /\ next[p] = "deliver" => ev[p] \in 1 .. emitted
    BY <1>0 DEF SetEvents, TypeOK, PlacesFit, Owns, Saving
  <2>2. /\ UNCHANGED <<memory, runtime, savedHook, snapHook, emitted, history, deletes, retries,
                      crashes>>
        /\ faults' \in Nat /\ savedRows' \in [Events -> Row]
        /\ snapRows' = [snapRows EXCEPT ![p] = NoRows]
        /\ attempt' = [attempt EXCEPT ![p] = 0]
    BY <1>0, <2>1 DEF SetEvents, Set, BudgetsCount, TypeOK
  <2>3. CASE saves[p] > 1
    <3>1. /\ saves' = [saves EXCEPT ![p] = 1] /\ next' = [next EXCEPT ![p] = next[p]]
          /\ ev' = [ev EXCEPT ![p] = ev[p]] /\ pc' = [pc EXCEPT ![p] = "hooks"]
      <4>1. saves[p] = 2
        BY <2>1, <2>3
      <4>2. saves[p] - 1 = 1
        BY <4>1
      <4> QED BY <2>3, <4>2 DEF SetEvents, Goto
    <3>2. TypeOK'
      BY <1>0, <2>1, <2>2, <3>1 DEF TypeOK, Pcs, memory, runtime, history
    <3> QED BY <1>0, <2>1, <2>2, <3>1, <3>2
       DEF BudgetsCount, PlacesFit, Owns, Saving, Delivering, Trying, TypeOK
  <2>4. CASE ~(saves[p] > 1)
    <3>1. /\ saves' = [saves EXCEPT ![p] = 0] /\ next' = [next EXCEPT ![p] = "idle"]
          /\ ev' = [ev EXCEPT ![p] = IF next[p] # "idle" THEN ev[p] ELSE 0]
          /\ pc' = [pc EXCEPT ![p] = next[p]]
      <4>1. saves[p] = 1
        BY <2>1, <2>4
      <4>2. saves[p] - 1 = 0
        BY <4>1
      <4> QED BY <2>4, <4>2 DEF SetEvents, Goto
    <3>2. TypeOK'
      BY <1>0, <2>1, <2>2, <3>1 DEF TypeOK, Pcs, memory, runtime, history
    <3> QED BY <1>0, <2>1, <2>2, <3>1, <3>2
       DEF BudgetsCount, PlacesFit, Owns, Saving, Delivering, Trying, TypeOK
  <2> QED BY <2>3, <2>4
<1>10. ASSUME NEW p \in Procs, \E h \in {"on", "off"} : UpdateStore(p, h) PROVE Typed
  BY <1>0, <1>10
     DEF UpdateStore, SaveThen, Goto, runtime, saved, history, budget, TypeOK,
          BudgetsCount, PlacesFit, Owns, Saving, Delivering, Trying, Events, Hooks, Pcs
<1>11. ASSUME NEW p \in Procs, \E audited \in BOOLEAN : UpdateReject(p, audited) PROVE Typed
  <2> PICK audited \in BOOLEAN : UpdateReject(p, audited)
    BY <1>11
  <2>1. UNCHANGED <<memory, runtime, saved, ev, attempt, emitted, history, budget, snapHook,
                    snapRows>>
    BY DEF UpdateReject, SaveThen, persist
  <2>2. CASE audited
    <3>1. /\ pc' = [pc EXCEPT ![p] = "hooks"] /\ saves' = [saves EXCEPT ![p] = 1]
          /\ next' = [next EXCEPT ![p] = "idle"]
      BY <2>2 DEF UpdateReject, SaveThen, Goto
    <3>2. TypeOK'
      BY <1>0, <2>1, <3>1 DEF TypeOK, Pcs, memory, runtime, saved, history
    <3> QED BY <1>0, <2>1, <3>1, <3>2
       DEF BudgetsCount, PlacesFit, Owns, Saving, Delivering, Trying, TypeOK, budget
  <2>3. CASE ~audited
    <3>1. pc' = [pc EXCEPT ![p] = "idle"] /\ saves' = saves /\ next' = next
      BY <2>3 DEF UpdateReject, Goto, persist
    <3>2. TypeOK'
      BY <1>0, <2>1, <3>1 DEF TypeOK, Pcs, memory, runtime, saved, history
    <3> QED BY <1>0, <2>1, <3>1, <3>2
       DEF BudgetsCount, PlacesFit, Owns, Saving, Delivering, Trying, TypeOK, budget
  <2> QED BY <2>2, <2>3
<1>12. ASSUME NEW p \in Procs, DeleteRows(p) PROVE Typed
  BY <1>0, <1>12
     DEF DeleteRows, Goto, runtime, saved, persist, history, budget, TypeOK,
          BudgetsCount, PlacesFit, Owns, Saving, Delivering, Trying, Events, Hooks, Pcs
<1>13. ASSUME NEW p \in Procs, DeleteRuntime(p) PROVE Typed
  BY <1>0, <1>13
     DEF DeleteRuntime, SaveThen, Goto, memory, saved, history, budget, TypeOK,
          BudgetsCount, PlacesFit, Owns, Saving, Delivering, Trying, Events, Hooks, Pcs
<1>14. ASSUME NEW p \in Procs, DeleteAnswer(p) PROVE Typed
  BY <1>0, <1>14
     DEF DeleteAnswer, Finish, Goto, memory, runtime, saved, persist, budget, TypeOK,
          BudgetsCount, PlacesFit, Owns, Saving, Delivering, Trying, Events, Hooks, Pcs
<1>15. ASSUME NEW p \in Procs, EmitStore(p) PROVE Typed
  <2>1. /\ emitted' = emitted + 1 /\ emitted' \in Events /\ pc[p] = "emit"
        /\ [rows EXCEPT ![emitted'] = NewRow] \in [Events -> Row]
    BY <1>0, <1>15 DEF EmitStore, TypeOK, Events
  <2>2. rows' \in [Events -> Row]
    BY <1>15, <2>1 DEF EmitStore
  <2>3. /\ ev' = [ev EXCEPT ![p] = emitted'] /\ pc' = [pc EXCEPT ![p] = "hooks"]
        /\ saves' = [saves EXCEPT ![p] = 1] /\ next' = [next EXCEPT ![p] = "deliver"]
        /\ UNCHANGED <<registered, hook, runtime, saved, attempt, history, budget, snapHook,
                      snapRows>>
    BY <1>15 DEF EmitStore, SaveThen, Goto
  <2>4. TypeOK'
    BY <1>0, <2>1, <2>2, <2>3 DEF TypeOK, Pcs, Events, runtime, saved, history
  <2> QED BY <1>0, <2>1, <2>3, <2>4
     DEF BudgetsCount, PlacesFit, Owns, Saving, Delivering, Trying, TypeOK, budget
<1>16. ASSUME NEW p \in Procs, RetryMissing(p) PROVE Typed
  BY <1>0, <1>16
     DEF RetryMissing, Finish, Goto, memory, runtime, saved, persist, history, budget,
          TypeOK, BudgetsCount, PlacesFit, Owns, Saving, Delivering, Trying, Events,
          Hooks, Pcs
<1>17. ASSUME NEW p \in Procs, RetrySkip(p) PROVE Typed
  <2>1. TypeOK'
    BY <1>0, <1>17
       DEF RetrySkip, SaveThen, Goto, memory, runtime, saved, history, budget, TypeOK,
          BudgetsCount, PlacesFit, Owns, Saving, Delivering, Trying, Events, Hooks, Pcs
  <2>2. BudgetsCount' /\ PlacesFit'
    BY <1>0, <1>17
       DEF RetrySkip, SaveThen, Goto, memory, runtime, saved, history, budget, TypeOK,
          BudgetsCount, PlacesFit, Owns, Saving, Delivering, Trying, Events, Hooks, Pcs
  <2> QED BY <2>1, <2>2
<1>18. ASSUME NEW p \in Procs, RetryQueue(p) PROVE Typed
  <2>1. ev[p] \in Events /\ pc[p] = "retry" /\ ev[p] \in 1 .. emitted
    BY <1>0, <1>18 DEF TypeOK, PlacesFit, Events, RetryQueue
  <2>2. rows' \in [Events -> Row]
    BY <1>0, <1>18, <2>1, RetryChanges DEF TypeOK, RetryQueue
  <2>3. /\ pc' = [pc EXCEPT ![p] = "hooks"] /\ failed' = [failed EXCEPT ![ev[p]] = 0]
        /\ saves' = [saves EXCEPT ![p] = 2] /\ next' = [next EXCEPT ![p] = "deliver"]
        /\ UNCHANGED <<registered, hook, runtime, saved, ev, attempt, emitted, accepted, gone,
                      budget, snapHook, snapRows>>
    BY <1>18 DEF RetryQueue, SaveThen, Goto
  <2>4. TypeOK'
    BY <1>0, <2>1, <2>2, <2>3 DEF TypeOK, Pcs, runtime, saved
  <2> QED BY <1>0, <2>1, <2>3, <2>4
     DEF BudgetsCount, PlacesFit, Owns, Saving, Delivering, Trying, TypeOK, budget
<1>19. ASSUME NEW p \in Procs, DeliverFind(p) PROVE Typed
  BY <1>0, <1>19
     DEF DeliverFind, Goto, memory, runtime, saved, persist, history, budget, TypeOK,
          BudgetsCount, PlacesFit, Owns, Saving, Delivering, Trying, Events, Hooks, Pcs
<1>20. ASSUME NEW p \in Procs, DeliverNoHook(p) PROVE Typed
  BY <1>0, <1>20
     DEF DeliverNoHook, Finish, Goto, memory, runtime, saved, persist, history, budget,
          TypeOK, BudgetsCount, PlacesFit, Owns, Saving, Delivering, Trying, Events,
          Hooks, Pcs
<1>21. ASSUME NEW p \in Procs, DeliverLoad(p) PROVE Typed
  BY <1>0, <1>21
     DEF DeliverLoad, Goto, memory, runtime, saved, persist, history, budget, TypeOK,
          BudgetsCount, PlacesFit, Owns, Saving, Delivering, Trying, Events, Hooks, Pcs
<1>22. ASSUME NEW p \in Procs, DeliverNothing(p) PROVE Typed
  BY <1>0, <1>22
     DEF DeliverNothing, Finish, Goto, memory, runtime, saved, persist, history, budget,
          TypeOK, BudgetsCount, PlacesFit, Owns, Saving, Delivering, Trying, Events,
          Hooks, Pcs
<1>23. ASSUME NEW p \in Procs, CheckOk(p) PROVE Typed
  <2>1. TypeOK'
    BY <1>0, <1>23
       DEF CheckOk, Permitted, Goto, memory, saved, persist, history, budget, TypeOK,
          BudgetsCount, PlacesFit, Owns, Saving, Delivering, Trying, Events, Hooks, Pcs
  <2>2. BudgetsCount' /\ PlacesFit'
    BY <1>0, <1>23
       DEF CheckOk, Permitted, Goto, memory, saved, persist, history, budget, TypeOK,
          BudgetsCount, PlacesFit, Owns, Saving, Delivering, Trying, Events, Hooks, Pcs
  <2> QED BY <2>1, <2>2
<1>24. ASSUME NEW p \in Procs, CheckReject(p) PROVE Typed
  BY <1>0, <1>24
     DEF CheckReject, Goto, memory, runtime, saved, persist, history, budget, TypeOK,
          BudgetsCount, PlacesFit, Owns, Saving, Delivering, Trying, Events, Hooks, Pcs
<1>25. ASSUME NEW p \in Procs, DnsOk(p) PROVE Typed
  BY <1>0, <1>25
     DEF DnsOk, Goto, memory, runtime, saved, persist, history, budget, TypeOK,
          BudgetsCount, PlacesFit, Owns, Saving, Delivering, Trying, Events, Hooks, Pcs
<1>26. ASSUME NEW p \in Procs, DnsBlock(p) PROVE Typed
  BY <1>0, <1>26
     DEF DnsBlock, Goto, memory, runtime, saved, persist, history, TypeOK, BudgetsCount,
          PlacesFit, Owns, Saving, Delivering, Trying, Events, Hooks, Pcs
<1>27. ASSUME NEW p \in Procs, \E got, success \in BOOLEAN : Send(p, got, success) PROVE Typed
  <2> PICK got \in BOOLEAN, success \in BOOLEAN : Send(p, got, success)
    BY <1>27
  <2>0. pc[p] = "send" /\ ev[p] \in 1 .. emitted /\ ev[p] \in Events
    BY <1>0 DEF Send, TypeOK, PlacesFit, Owns, Delivering, Trying, Events
  <2>1. /\ accepted' \subseteq Events
        /\ \/ pc' = [pc EXCEPT ![p] = "delivered"]
           \/ pc' = [pc EXCEPT ![p] = "rejected"]
        /\ UNCHANGED <<memory, runtime, saved, ev, attempt, persist, emitted, failed, gone, budget>>
    BY <1>0, <2>0 DEF Send, Goto, TypeOK
  <2>2. TypeOK'
    BY <1>0, <2>1 DEF TypeOK, Pcs, memory, runtime, saved, persist
  <2> QED BY <1>0, <2>0, <2>1, <2>2
     DEF BudgetsCount, PlacesFit, Owns, Saving, Delivering, Trying, TypeOK, budget, persist
<1>28. ASSUME NEW p \in Procs, StatusDelivered(p) PROVE Typed
  <2>1. ev[p] \in Events /\ attempt[p] \in 0 .. MaxAttempts
    BY <1>0, <1>28 DEF TypeOK, PlacesFit, Owns, Delivering, Trying, Events, StatusDelivered
  <2>2. SetStatus(ev[p], attempt[p], TRUE, FALSE)
    BY <1>28 DEF StatusDelivered
  <2>3. rows' \in [Events -> Row]
    BY <1>0, <2>1, <2>2, StatusChanges DEF TypeOK
  <2> QED BY <1>0, <1>28, <2>1, <2>3
     DEF StatusDelivered, Goto, runtime, saved, persist, history, budget, TypeOK,
          BudgetsCount, PlacesFit, Owns, Saving, Delivering, Trying, Events, Hooks, Pcs
<1>29. ASSUME NEW p \in Procs, StatusFailed(p) PROVE Typed
  <2>1. /\ ev[p] \in 1 .. emitted /\ ev[p] \in Events /\ attempt[p] \in 0 .. MaxAttempts
        /\ LastAttempt(p) \in BOOLEAN
    BY <1>0, <1>29
     DEF TypeOK, PlacesFit, Owns, Delivering, Trying, Events, StatusFailed, LastAttempt
  <2>2. SetStatus(ev[p], attempt[p], FALSE, LastAttempt(p))
    BY <1>29 DEF StatusFailed
  <2>3. rows \in [Events -> Row]
    BY <1>0 DEF TypeOK
  <2>4. rows' \in [Events -> Row]
    BY <2>1, <2>2, <2>3, StatusChanges
  <2>5. failed' \in [Events -> 0 .. MaxAttempts]
    BY <1>0, <1>29, <2>1 DEF TypeOK, StatusFailed
  <2>6. /\ pc' = [pc EXCEPT ![p] = IF pc[p] = "blocked" THEN "countBlocked" ELSE "countFailure"]
        /\ UNCHANGED <<registered, hook, runtime, saved, ev, attempt, persist, emitted, accepted,
                      gone, budget>>
    BY <1>29 DEF StatusFailed, Goto
  <2>7. TypeOK'
    BY <1>0, <2>4, <2>5, <2>6 DEF TypeOK, Pcs, runtime, saved, persist
  <2> QED BY <1>0, <2>1, <2>6, <2>7
     DEF BudgetsCount, PlacesFit, Owns, Saving, Delivering, Trying, TypeOK, budget, persist
<1>30. ASSUME NEW p \in Procs, CountSuccess(p) PROVE Typed
  BY <1>0, <1>30
     DEF CountSuccess, SaveThen, Goto, memory, saved, history, budget, TypeOK,
          BudgetsCount, PlacesFit, Owns, Saving, Delivering, Trying, Events, Hooks, Pcs
<1>31. ASSUME NEW p \in Procs, CountDead(p) PROVE Typed
  BY <1>0, <1>31
     DEF CountDead, RecordFailure, SaveThen, Goto, memory, saved, budget, TypeOK,
          BudgetsCount, PlacesFit, Owns, Saving, Delivering, Trying, Events, Hooks, Pcs
<1>32. ASSUME NEW p \in Procs, CountRetry(p) PROVE Typed
  BY <1>0, <1>32
     DEF CountRetry, RecordFailure, LastAttempt, Goto, memory, saved, persist, budget,
          TypeOK, BudgetsCount, PlacesFit, Owns, Saving, Delivering, Trying, Events,
          Hooks, Pcs
<1>33. ASSUME NEW p \in Procs, CountBlocked(p) PROVE Typed
  BY <1>0, <1>33
     DEF CountBlocked, RecordFailure, SaveThen, Goto, memory, saved, budget, TypeOK,
          BudgetsCount, PlacesFit, Owns, Saving, Delivering, Trying, Events, Hooks, Pcs
<1>34. ASSUME WindowOver PROVE Typed
  BY <1>0, <1>34
     DEF WindowOver, memory, saved, procs, history, budget, persist, TypeOK,
          BudgetsCount, PlacesFit, Owns, Saving, Delivering, Trying, Events, Hooks, Pcs
<1>35. ASSUME CooldownOver PROVE Typed
  BY <1>0, <1>35
     DEF CooldownOver, memory, saved, procs, history, budget, persist, TypeOK,
          BudgetsCount, PlacesFit, Owns, Saving, Delivering, Trying, Events, Hooks, Pcs
<1>36. ASSUME Restart PROVE Typed
  BY <1>0, <1>36
     DEF Restart, saved, history, TypeOK, BudgetsCount, PlacesFit, Owns, Saving,
          Delivering, Trying, Events, Hooks, Pcs
<1>37. ASSUME UNCHANGED vars PROVE Typed
  BY <1>0, <1>37
     DEF vars, memory, runtime, saved, procs, persist, history, budget, TypeOK,
          BudgetsCount, PlacesFit, Owns, Saving, Delivering, Trying, Events, Hooks, Pcs
<1>38. Typed
  BY <1>1, <1>2, <1>3, <1>4, <1>5, <1>6, <1>7, <1>8, <1>9, <1>10, <1>11, <1>12, <1>13,
          <1>14, <1>15, <1>16, <1>17, <1>18, <1>19, <1>20, <1>21, <1>22, <1>23, <1>24,
          <1>25, <1>26, <1>27, <1>28, <1>29, <1>30, <1>31, <1>32, <1>33, <1>34, <1>35,
          <1>36, <1>37
     DEF Next, Request, Step
<1> QED BY <1>0, <1>38 DEF PlaceInv

-----------------------------------------------------------------------------
(* What the rows tell.                                                      *)

(* What a missing and what a new row say. *)
LEMMA RowFacts ==
    /\ ~NoRow.there /\ ~NoRow.delivered /\ ~NoRow.dead
    /\ NewRow.there /\ ~NewRow.delivered /\ ~NewRow.dead
    /\ \A e \in Events : NoRows[e] = NoRow
BY DEF NoRow, NewRow, NoRows

(* A new event adds its row, and older rows may go. *)
LEMMA EmitChanges ==
    ASSUME PlaceInv, NEW p \in Procs, EmitStore(p)
    PROVE  /\ emitted' = emitted + 1 /\ emitted' \in Events
           /\ \A e \in Events : \/ rows'[e] = NoRow
                                \/ e = emitted' /\ rows'[e] = NewRow
                                \/ e # emitted' /\ rows'[e] = rows[e]
<1>1. /\ emitted' = emitted + 1 /\ pc[p] = "emit" /\ rows \in [Events -> Row]
      /\ rows' = Keep([rows EXCEPT ![emitted'] = NewRow])
  BY DEF EmitStore, PlaceInv, TypeOK
<1>2. emitted' \in Events
  <2>1. emitted < MaxEvents
    BY <1>1, RoomStays DEF Next, Step
  <2> QED BY <1>1, <2>1, WebhookAssumption DEF PlaceInv, TypeOK, Events
<1> QED BY <1>1, <1>2 DEF Keep

(* A success marks its row, if it is still there. *)
LEMMA DeliveredChanges ==
    ASSUME PlaceInv, NEW p \in Procs, StatusDelivered(p)
    PROVE  /\ ev[p] \in Events
           /\ \A f \in Events : rows'[f].there = rows[f].there
           /\ \A f \in Events \ {ev[p]} : rows'[f] = rows[f]
           /\ \/ rows'[ev[p]] = rows[ev[p]]
              \/ rows'[ev[p]].delivered /\ ~rows'[ev[p]].dead
<1>1. ev[p] \in Events /\ attempt[p] \in 0 .. MaxAttempts /\ rows \in [Events -> Row]
  BY DEF PlaceInv, TypeOK, PlacesFit, Owns, Delivering, Trying, Events, StatusDelivered
<1>2. SetStatus(ev[p], attempt[p], TRUE, FALSE)
  BY DEF StatusDelivered
<1> QED BY <1>1, <1>2, StatusChanges

(* A failure marks its row dead on the last attempt only. *)
LEMMA FailedChanges ==
    ASSUME PlaceInv, NEW p \in Procs, StatusFailed(p)
    PROVE  /\ ev[p] \in Events
           /\ \A f \in Events : rows'[f].there = rows[f].there
           /\ \A f \in Events : rows'[f].delivered = rows[f].delivered
           /\ \A f \in Events \ {ev[p]} : rows'[f] = rows[f]
           /\ \/ rows'[ev[p]] = rows[ev[p]]
              \/ rows'[ev[p]].dead => LastAttempt(p)
<1>1. /\ ev[p] \in Events /\ attempt[p] \in 0 .. MaxAttempts /\ rows \in [Events -> Row]
      /\ LastAttempt(p) \in BOOLEAN
  BY DEF PlaceInv, TypeOK, PlacesFit, Owns, Delivering, Trying, Events, StatusFailed, LastAttempt
<1>2. PICK dead \in BOOLEAN :
            SetStatus(ev[p], attempt[p], FALSE, dead) /\ (dead => LastAttempt(p))
  BY <1>1, Zenon DEF StatusFailed
<1>3. /\ \A f \in Events : rows'[f].there = rows[f].there
      /\ \A f \in Events \ {ev[p]} : rows'[f] = rows[f]
      /\ ~rows[ev[p]].there => rows'[ev[p]] = rows[ev[p]]
      /\ rows[ev[p]].there => /\ rows'[ev[p]].delivered = rows[ev[p]].delivered
                              /\ rows'[ev[p]].dead => LastAttempt(p)
  <2>1. /\ \A f \in Events : rows'[f].there = rows[f].there
        /\ \A f \in Events \ {ev[p]} : rows'[f] = rows[f]
        /\ ~rows[ev[p]].there => rows'[ev[p]] = rows[ev[p]]
    BY <1>1, <1>2, StatusChanges
  <2>2. rows[ev[p]].there => rows'[ev[p]].delivered = rows[ev[p]].delivered
    BY <1>1, <1>2, StatusChanges
  <2>3. ASSUME rows[ev[p]].there, ~dead
        PROVE  ~rows'[ev[p]].dead
    <3>1. dead = FALSE
      BY <2>3
    <3>2. SetStatus(ev[p], attempt[p], FALSE, FALSE)
      BY <1>2, <3>1
    <3> QED BY <1>1, <2>3, <3>2, StatusChanges
  <2>4. rows[ev[p]].there => (rows'[ev[p]].dead => LastAttempt(p))
    BY <1>2, <2>3
  <2> QED BY <2>1, <2>2, <2>4
<1> QED BY <1>1, <1>3

(* No step makes a row say delivered before the receiver has got the event. *)
LEMMA ToldNext == PlaceInv /\ DeliveriesAreTold /\ [Next]_vars => DeliveriesAreTold'
<1> SUFFICES ASSUME PlaceInv, DeliveriesAreTold, [Next]_vars PROVE DeliveriesAreTold'
  OBVIOUS
<1>0. /\ PlaceInv /\ DeliveriesAreTold
      /\ rows \in [Events -> Row] /\ savedRows \in [Events -> Row]
      /\ snapRows \in [Procs -> [Events -> Row]]
      /\ pc \in [Procs -> Pcs] /\ ev \in [Procs -> Events \cup {0}]
  BY DEF PlaceInv, TypeOK
<1>1. ASSUME NEW p \in Procs, \E h \in {"on", "off"} : Register(p, h) PROVE DeliveriesAreTold'
  BY <1>0, <1>1
     DEF Register, SaveThen, Goto, runtime, saved, history, budget, DeliveriesAreTold,
          Told
<1>2. ASSUME NEW p \in Procs, UpdateRead(p) PROVE DeliveriesAreTold'
  BY <1>0, <1>2
     DEF UpdateRead, Goto, memory, runtime, saved, persist, history, DeliveriesAreTold,
          Told
<1>3. ASSUME NEW p \in Procs, DeleteHook(p) PROVE DeliveriesAreTold'
  BY <1>0, <1>3
     DEF DeleteHook, Goto, runtime, saved, persist, history, DeliveriesAreTold, Told
<1>4. ASSUME NEW p \in Procs, EmitRead(p) PROVE DeliveriesAreTold'
  BY <1>0, <1>4
     DEF EmitRead, Goto, memory, runtime, saved, persist, history, budget,
          DeliveriesAreTold, Told
<1>5. ASSUME NEW p \in Procs, \E e \in Events : RetryRead(p, e) PROVE DeliveriesAreTold'
  BY <1>0, <1>5
     DEF RetryRead, Goto, memory, runtime, saved, persist, history, DeliveriesAreTold,
          Told
<1>6. ASSUME NEW p \in Procs, CopyHooks(p) PROVE DeliveriesAreTold'
  BY <1>0, <1>6
     DEF CopyHooks, Goto, memory, runtime, saved, history, budget, DeliveriesAreTold,
          Told
<1>7. ASSUME NEW p \in Procs, CopyEvents(p) PROVE DeliveriesAreTold'
  BY <1>0, <1>7
     DEF CopyEvents, Goto, memory, runtime, saved, history, budget, DeliveriesAreTold,
          Told
<1>8. ASSUME NEW p \in Procs, \E ok \in BOOLEAN : SetHooks(p, ok) PROVE DeliveriesAreTold'
  BY <1>0, <1>8 DEF SetHooks, Set, Goto, memory, runtime, history, DeliveriesAreTold, Told
<1>9. ASSUME NEW p \in Procs, \E ok \in BOOLEAN : SetEvents(p, ok) PROVE DeliveriesAreTold'
  <2> PICK ok \in BOOLEAN : SetEvents(p, ok)
    BY <1>9
  <2>1. /\ pc[p] = "setEvents" /\ next[p] # "delivered"
        /\ \A q \in Procs : pc'[q] = "delivered" => pc[q] = "delivered" /\ ev'[q] = ev[q]
    BY <1>0 DEF SetEvents, Goto, PlaceInv, TypeOK
  <2>2. Told(NoRows)
    BY RowFacts DEF Told
  <2>3. rows' = rows /\ accepted' = accepted /\ savedRows' \in {savedRows, snapRows[p]}
        /\ snapRows' = [snapRows EXCEPT ![p] = NoRows]
    BY DEF SetEvents, memory, history
  <2> QED BY <1>0, <2>1, <2>2, <2>3 DEF DeliveriesAreTold, Told
<1>10. ASSUME NEW p \in Procs, \E h \in {"on", "off"} : UpdateStore(p, h)
       PROVE  DeliveriesAreTold'
  BY <1>0, <1>10
     DEF UpdateStore, SaveThen, Goto, runtime, saved, history, budget,
          DeliveriesAreTold, Told
<1>11. ASSUME NEW p \in Procs, \E audited \in BOOLEAN : UpdateReject(p, audited)
       PROVE  DeliveriesAreTold'
  BY <1>0, <1>11
     DEF UpdateReject, SaveThen, Goto, memory, runtime, saved, persist, history, budget,
          DeliveriesAreTold, Told
<1>12. ASSUME NEW p \in Procs, DeleteRows(p) PROVE DeliveriesAreTold'
  BY <1>0, <1>12, RowFacts
     DEF DeleteRows, Goto, runtime, saved, persist, history, budget, DeliveriesAreTold,
          Told
<1>13. ASSUME NEW p \in Procs, DeleteRuntime(p) PROVE DeliveriesAreTold'
  BY <1>0, <1>13
     DEF DeleteRuntime, SaveThen, Goto, memory, saved, history, budget,
          DeliveriesAreTold, Told
<1>14. ASSUME NEW p \in Procs, DeleteAnswer(p) PROVE DeliveriesAreTold'
  BY <1>0, <1>14
     DEF DeleteAnswer, Finish, Goto, memory, runtime, saved, persist, budget,
          DeliveriesAreTold, Told
<1>15. ASSUME NEW p \in Procs, EmitStore(p) PROVE DeliveriesAreTold'
  BY <1>0, <1>15, EmitChanges, RowFacts
     DEF EmitStore, SaveThen, Goto, runtime, saved, history, budget, DeliveriesAreTold,
          Told
<1>16. ASSUME NEW p \in Procs, RetryMissing(p) PROVE DeliveriesAreTold'
  BY <1>0, <1>16
     DEF RetryMissing, Finish, Goto, memory, runtime, saved, persist, history, budget,
          DeliveriesAreTold, Told
<1>17. ASSUME NEW p \in Procs, RetrySkip(p) PROVE DeliveriesAreTold'
  BY <1>0, <1>17
     DEF RetrySkip, SaveThen, Goto, memory, runtime, saved, history, budget,
          DeliveriesAreTold, Told
<1>18. ASSUME NEW p \in Procs, RetryQueue(p) PROVE DeliveriesAreTold'
  <2>1. ev[p] \in Events
    BY <1>0, <1>18 DEF PlaceInv, PlacesFit, TypeOK, Events, RetryQueue
  <2>2. \A f \in Events : rows'[f].delivered = rows[f].delivered
    BY <1>0, <1>18, <2>1, RetryChanges DEF RetryQueue
  <2> QED BY <1>0, <1>18, <2>2
     DEF RetryQueue, SaveThen, Goto, saved, DeliveriesAreTold, Told
<1>19. ASSUME NEW p \in Procs, DeliverFind(p) PROVE DeliveriesAreTold'
  BY <1>0, <1>19
     DEF DeliverFind, Goto, memory, runtime, saved, persist, history, budget,
          DeliveriesAreTold, Told
<1>20. ASSUME NEW p \in Procs, DeliverNoHook(p) PROVE DeliveriesAreTold'
  BY <1>0, <1>20
     DEF DeliverNoHook, Finish, Goto, memory, runtime, saved, persist, history, budget,
          DeliveriesAreTold, Told
<1>21. ASSUME NEW p \in Procs, DeliverLoad(p) PROVE DeliveriesAreTold'
  BY <1>0, <1>21
     DEF DeliverLoad, Goto, memory, runtime, saved, persist, history, budget,
          DeliveriesAreTold, Told
<1>22. ASSUME NEW p \in Procs, DeliverNothing(p) PROVE DeliveriesAreTold'
  BY <1>0, <1>22
     DEF DeliverNothing, Finish, Goto, memory, runtime, saved, persist, history, budget,
          DeliveriesAreTold, Told
<1>23. ASSUME NEW p \in Procs, CheckOk(p) PROVE DeliveriesAreTold'
  BY <1>0, <1>23
     DEF CheckOk, Permitted, Goto, memory, saved, persist, history, budget,
          DeliveriesAreTold, Told
<1>24. ASSUME NEW p \in Procs, CheckReject(p) PROVE DeliveriesAreTold'
  BY <1>0, <1>24
     DEF CheckReject, Goto, memory, runtime, saved, persist, history, budget,
          DeliveriesAreTold, Told
<1>25. ASSUME NEW p \in Procs, DnsOk(p) PROVE DeliveriesAreTold'
  BY <1>0, <1>25
     DEF DnsOk, Goto, memory, runtime, saved, persist, history, budget,
          DeliveriesAreTold, Told
<1>26. ASSUME NEW p \in Procs, DnsBlock(p) PROVE DeliveriesAreTold'
  BY <1>0, <1>26
     DEF DnsBlock, Goto, memory, runtime, saved, persist, history, DeliveriesAreTold,
          Told
<1>27. ASSUME NEW p \in Procs, \E got, success \in BOOLEAN : Send(p, got, success)
       PROVE  DeliveriesAreTold'
  BY <1>0, <1>27
     DEF Send, Goto, memory, runtime, saved, persist, budget, DeliveriesAreTold, Told
<1>28. ASSUME NEW p \in Procs, StatusDelivered(p) PROVE DeliveriesAreTold'
  BY <1>0, <1>28, DeliveredChanges
     DEF StatusDelivered, Goto, runtime, saved, persist, history, budget,
          DeliveriesAreTold, Told
<1>29. ASSUME NEW p \in Procs, StatusFailed(p) PROVE DeliveriesAreTold'
  BY <1>0, <1>29, FailedChanges
     DEF StatusFailed, Goto, runtime, saved, persist, budget, DeliveriesAreTold, Told
<1>30. ASSUME NEW p \in Procs, CountSuccess(p) PROVE DeliveriesAreTold'
  BY <1>0, <1>30
     DEF CountSuccess, SaveThen, Goto, memory, saved, history, budget,
          DeliveriesAreTold, Told
<1>31. ASSUME NEW p \in Procs, CountDead(p) PROVE DeliveriesAreTold'
  BY <1>0, <1>31
     DEF CountDead, RecordFailure, SaveThen, Goto, memory, saved, budget,
          DeliveriesAreTold, Told
<1>32. ASSUME NEW p \in Procs, CountRetry(p) PROVE DeliveriesAreTold'
  BY <1>0, <1>32
     DEF CountRetry, RecordFailure, LastAttempt, Goto, memory, saved, persist, budget,
          DeliveriesAreTold, Told
<1>33. ASSUME NEW p \in Procs, CountBlocked(p) PROVE DeliveriesAreTold'
  BY <1>0, <1>33
     DEF CountBlocked, RecordFailure, SaveThen, Goto, memory, saved, budget,
          DeliveriesAreTold, Told
<1>34. ASSUME WindowOver PROVE DeliveriesAreTold'
  BY <1>0, <1>34
     DEF WindowOver, memory, saved, procs, history, budget, persist, DeliveriesAreTold,
          Told
<1>35. ASSUME CooldownOver PROVE DeliveriesAreTold'
  BY <1>0, <1>35
     DEF CooldownOver, memory, saved, procs, history, budget, persist,
          DeliveriesAreTold, Told
<1>36. ASSUME Restart PROVE DeliveriesAreTold'
  BY <1>0, <1>36, RowFacts DEF Restart, saved, history, DeliveriesAreTold, Told
<1>37. ASSUME UNCHANGED vars PROVE DeliveriesAreTold'
  BY <1>0, <1>37
     DEF vars, memory, runtime, saved, procs, persist, history, budget,
          DeliveriesAreTold, Told
<1> QED
  BY <1>1, <1>2, <1>3, <1>4, <1>5, <1>6, <1>7, <1>8, <1>9, <1>10, <1>11, <1>12, <1>13,
          <1>14, <1>15, <1>16, <1>17, <1>18, <1>19, <1>20, <1>21, <1>22, <1>23, <1>24,
          <1>25, <1>26, <1>27, <1>28, <1>29, <1>30, <1>31, <1>32, <1>33, <1>34, <1>35,
          <1>36, <1>37
     DEF Next, Request, Step

(* Without retries no step gives an event a second task: only the handler    *)
(* that emits it spawns one.                                                 *)
LEMMA OneTaskNext ==
    PlaceInv /\ retries = 0 /\ OneTask /\ FailuresAreCounted /\ DeadLettersAreTold
        /\ retries' = 0 /\ [Next]_vars
    => OneTask'
<1> SUFFICES ASSUME PlaceInv, retries = 0, OneTask, FailuresAreCounted, DeadLettersAreTold,
                    retries' = 0, [Next]_vars
             PROVE  OneTask'
  OBVIOUS
<1>0. /\ PlaceInv /\ OneTask /\ FailuresAreCounted /\ DeadLettersAreTold /\ retries' = 0
      /\ \A q \in Procs : pc[q] # "retry" /\ (Owns(q) => ev[q] \in 1 .. emitted /\ ev[q] \in Events)
      /\ rows \in [Events -> Row] /\ failed \in [Events -> 0 .. MaxAttempts] /\ emitted \in Nat
      /\ pc \in [Procs -> Pcs] /\ ev \in [Procs -> Events \cup {0}]
      /\ next \in [Procs -> {"idle", "deliver", "answer"}]
      /\ saves \in [Procs -> 0 .. 2] /\ attempt \in [Procs -> 0 .. MaxAttempts]
      /\ snapRows \in [Procs -> [Events -> Row]] /\ savedRows \in [Events -> Row]
  BY DEF PlaceInv, TypeOK, PlacesFit, BudgetsCount, Events
<1>1. ASSUME NEW p \in Procs, \E h \in {"on", "off"} : Register(p, h) PROVE OneTask'
  BY <1>0, <1>1
     DEF Register, SaveThen, Goto, runtime, saved, history, budget, OneTask, Owns,
          Saving, Delivering, Trying
<1>2. ASSUME NEW p \in Procs, UpdateRead(p) PROVE OneTask'
  BY <1>0, <1>2
     DEF UpdateRead, Goto, memory, runtime, saved, persist, history, OneTask, Owns,
          Saving, Delivering, Trying
<1>3. ASSUME NEW p \in Procs, DeleteHook(p) PROVE OneTask'
  BY <1>0, <1>3
     DEF DeleteHook, Goto, runtime, saved, persist, history, OneTask, Owns, Saving,
          Delivering, Trying
<1>4. ASSUME NEW p \in Procs, EmitRead(p) PROVE OneTask'
  BY <1>0, <1>4
     DEF EmitRead, Goto, memory, runtime, saved, persist, history, budget, OneTask,
          Owns, Saving, Delivering, Trying
<1>5. ASSUME NEW p \in Procs, \E e \in Events : RetryRead(p, e) PROVE OneTask'
  BY <1>0, <1>5
     DEF RetryRead, Goto, memory, runtime, saved, persist, history, OneTask, Owns,
          Saving, Delivering, Trying
<1>6. ASSUME NEW p \in Procs, CopyHooks(p) PROVE OneTask'
  BY <1>0, <1>6
     DEF CopyHooks, Goto, memory, runtime, saved, history, budget, OneTask, Owns,
          Saving, Delivering, Trying
<1>7. ASSUME NEW p \in Procs, CopyEvents(p) PROVE OneTask'
  BY <1>0, <1>7
     DEF CopyEvents, Goto, memory, runtime, saved, history, budget, OneTask, Owns,
          Saving, Delivering, Trying
<1>8. ASSUME NEW p \in Procs, \E ok \in BOOLEAN : SetHooks(p, ok) PROVE OneTask'
  BY <1>0, <1>8
     DEF SetHooks, Set, Goto, memory, runtime, history, OneTask, Owns, Saving,
          Delivering, Trying
<1>9. ASSUME NEW p \in Procs, \E ok \in BOOLEAN : SetEvents(p, ok) PROVE OneTask'
  BY <1>0, <1>9
     DEF SetEvents, Set, Goto, memory, runtime, history, OneTask, Owns, Saving,
          Delivering, Trying
<1>10. ASSUME NEW p \in Procs, \E h \in {"on", "off"} : UpdateStore(p, h) PROVE OneTask'
  BY <1>0, <1>10
     DEF UpdateStore, SaveThen, Goto, runtime, saved, history, budget, OneTask, Owns,
          Saving, Delivering, Trying
<1>11. ASSUME NEW p \in Procs, \E audited \in BOOLEAN : UpdateReject(p, audited) PROVE OneTask'
  BY <1>0, <1>11
     DEF UpdateReject, SaveThen, Goto, memory, runtime, saved, persist, history, budget,
          OneTask, Owns, Saving, Delivering, Trying
<1>12. ASSUME NEW p \in Procs, DeleteRows(p) PROVE OneTask'
  BY <1>0, <1>12
     DEF DeleteRows, Goto, runtime, saved, persist, history, budget, OneTask, Owns,
          Saving, Delivering, Trying
<1>13. ASSUME NEW p \in Procs, DeleteRuntime(p) PROVE OneTask'
  BY <1>0, <1>13
     DEF DeleteRuntime, SaveThen, Goto, memory, saved, history, budget, OneTask, Owns,
          Saving, Delivering, Trying
<1>14. ASSUME NEW p \in Procs, DeleteAnswer(p) PROVE OneTask'
  BY <1>0, <1>14
     DEF DeleteAnswer, Finish, Goto, memory, runtime, saved, persist, budget, OneTask,
          Owns, Saving, Delivering, Trying
<1>15. ASSUME NEW p \in Procs, EmitStore(p) PROVE OneTask'
  BY <1>0, <1>15, EmitChanges
     DEF EmitStore, SaveThen, Goto, runtime, saved, history, budget, OneTask, Owns,
          Saving, Delivering, Trying
<1>16. ASSUME NEW p \in Procs, RetryMissing(p) PROVE OneTask'
  BY <1>0, <1>16
     DEF RetryMissing, Finish, Goto, memory, runtime, saved, persist, history, budget,
          OneTask, Owns, Saving, Delivering, Trying
<1>17. ASSUME NEW p \in Procs, RetrySkip(p) PROVE OneTask'
  BY <1>0, <1>17
     DEF RetrySkip, SaveThen, Goto, memory, runtime, saved, history, budget, OneTask,
          Owns, Saving, Delivering, Trying
<1>18. ASSUME NEW p \in Procs, RetryQueue(p) PROVE OneTask'
  BY <1>0, <1>18
     DEF RetryQueue, SaveThen, Goto, runtime, saved, budget, OneTask, Owns, Saving,
          Delivering, Trying
<1>19. ASSUME NEW p \in Procs, DeliverFind(p) PROVE OneTask'
  BY <1>0, <1>19
     DEF DeliverFind, Goto, memory, runtime, saved, persist, history, budget, OneTask,
          Owns, Saving, Delivering, Trying
<1>20. ASSUME NEW p \in Procs, DeliverNoHook(p) PROVE OneTask'
  BY <1>0, <1>20
     DEF DeliverNoHook, Finish, Goto, memory, runtime, saved, persist, history, budget,
          OneTask, Owns, Saving, Delivering, Trying
<1>21. ASSUME NEW p \in Procs, DeliverLoad(p) PROVE OneTask'
  BY <1>0, <1>21
     DEF DeliverLoad, Goto, memory, runtime, saved, persist, history, budget, OneTask,
          Owns, Saving, Delivering, Trying
<1>22. ASSUME NEW p \in Procs, DeliverNothing(p) PROVE OneTask'
  BY <1>0, <1>22
     DEF DeliverNothing, Finish, Goto, memory, runtime, saved, persist, history, budget,
          OneTask, Owns, Saving, Delivering, Trying
<1>23. ASSUME NEW p \in Procs, CheckOk(p) PROVE OneTask'
  BY <1>0, <1>23
     DEF CheckOk, Permitted, Goto, memory, saved, persist, history, budget, OneTask,
          Owns, Saving, Delivering, Trying
<1>24. ASSUME NEW p \in Procs, CheckReject(p) PROVE OneTask'
  BY <1>0, <1>24
     DEF CheckReject, Goto, memory, runtime, saved, persist, history, budget, OneTask,
          Owns, Saving, Delivering, Trying
<1>25. ASSUME NEW p \in Procs, DnsOk(p) PROVE OneTask'
  BY <1>0, <1>25
     DEF DnsOk, Goto, memory, runtime, saved, persist, history, budget, OneTask, Owns,
          Saving, Delivering, Trying
<1>26. ASSUME NEW p \in Procs, DnsBlock(p) PROVE OneTask'
  BY <1>0, <1>26
     DEF DnsBlock, Goto, memory, runtime, saved, persist, history, OneTask, Owns,
          Saving, Delivering, Trying
<1>27. ASSUME NEW p \in Procs, \E got, success \in BOOLEAN : Send(p, got, success)
       PROVE  OneTask'
  BY <1>0, <1>27
     DEF Send, Goto, memory, runtime, saved, persist, budget, OneTask, Owns, Saving,
          Delivering, Trying
<1>28. ASSUME NEW p \in Procs, StatusDelivered(p) PROVE OneTask'
  BY <1>0, <1>28
     DEF StatusDelivered, SetStatus, Goto, runtime, saved, persist, history, budget,
          OneTask, Owns, Saving, Delivering, Trying
<1>29. ASSUME NEW p \in Procs, StatusFailed(p) PROVE OneTask'
  BY <1>0, <1>29
     DEF StatusFailed, SetStatus, LastAttempt, Goto, runtime, saved, persist, budget,
          OneTask, Owns, Saving, Delivering, Trying
<1>30. ASSUME NEW p \in Procs, CountSuccess(p) PROVE OneTask'
  BY <1>0, <1>30
     DEF CountSuccess, SaveThen, Goto, memory, saved, history, budget, OneTask, Owns,
          Saving, Delivering, Trying
<1>31. ASSUME NEW p \in Procs, CountDead(p) PROVE OneTask'
  BY <1>0, <1>31
     DEF CountDead, RecordFailure, SaveThen, Goto, memory, saved, budget, OneTask, Owns,
          Saving, Delivering, Trying
<1>32. ASSUME NEW p \in Procs, CountRetry(p) PROVE OneTask'
  BY <1>0, <1>32
     DEF CountRetry, RecordFailure, LastAttempt, Goto, memory, saved, persist, budget,
          OneTask, Owns, Saving, Delivering, Trying
<1>33. ASSUME NEW p \in Procs, CountBlocked(p) PROVE OneTask'
  BY <1>0, <1>33
     DEF CountBlocked, RecordFailure, SaveThen, Goto, memory, saved, budget, OneTask,
          Owns, Saving, Delivering, Trying
<1>34. ASSUME WindowOver PROVE OneTask'
  BY <1>0, <1>34
     DEF WindowOver, memory, saved, procs, history, budget, persist, OneTask, Owns,
          Saving, Delivering, Trying
<1>35. ASSUME CooldownOver PROVE OneTask'
  BY <1>0, <1>35
     DEF CooldownOver, memory, saved, procs, history, budget, persist, OneTask, Owns,
          Saving, Delivering, Trying
<1>36. ASSUME Restart PROVE OneTask'
  BY <1>0, <1>36 DEF Restart, saved, history, OneTask, Owns, Saving, Delivering, Trying
<1>37. ASSUME UNCHANGED vars PROVE OneTask'
  BY <1>0, <1>37
     DEF vars, memory, runtime, saved, procs, persist, history, budget, OneTask, Owns,
          Saving, Delivering, Trying
<1> QED
  BY <1>1, <1>2, <1>3, <1>4, <1>5, <1>6, <1>7, <1>8, <1>9, <1>10, <1>11, <1>12, <1>13,
          <1>14, <1>15, <1>16, <1>17, <1>18, <1>19, <1>20, <1>21, <1>22, <1>23, <1>24,
          <1>25, <1>26, <1>27, <1>28, <1>29, <1>30, <1>31, <1>32, <1>33, <1>34, <1>35,
          <1>36, <1>37
     DEF Next, Request, Step

(* ... and the one task counts the failures of the event. *)
LEMMA CountedNext ==
    PlaceInv /\ retries = 0 /\ OneTask /\ FailuresAreCounted /\ DeadLettersAreTold
        /\ retries' = 0 /\ [Next]_vars
    => FailuresAreCounted'
<1> SUFFICES ASSUME PlaceInv, retries = 0, OneTask, FailuresAreCounted, DeadLettersAreTold,
                    retries' = 0, [Next]_vars
             PROVE  FailuresAreCounted'
  OBVIOUS
<1>0. /\ PlaceInv /\ OneTask /\ FailuresAreCounted /\ DeadLettersAreTold /\ retries' = 0
      /\ \A q \in Procs : pc[q] # "retry" /\ (Owns(q) => ev[q] \in 1 .. emitted /\ ev[q] \in Events)
      /\ rows \in [Events -> Row] /\ failed \in [Events -> 0 .. MaxAttempts] /\ emitted \in Nat
      /\ pc \in [Procs -> Pcs] /\ ev \in [Procs -> Events \cup {0}]
      /\ next \in [Procs -> {"idle", "deliver", "answer"}]
      /\ saves \in [Procs -> 0 .. 2] /\ attempt \in [Procs -> 0 .. MaxAttempts]
      /\ snapRows \in [Procs -> [Events -> Row]] /\ savedRows \in [Events -> Row]
  BY DEF PlaceInv, TypeOK, PlacesFit, BudgetsCount, Events
<1>1. ASSUME NEW p \in Procs, \E h \in {"on", "off"} : Register(p, h) PROVE FailuresAreCounted'
  BY <1>0, <1>1
     DEF Register, SaveThen, Goto, runtime, saved, history, budget, FailuresAreCounted,
          Owns, Saving, Delivering, Trying
<1>2. ASSUME NEW p \in Procs, UpdateRead(p) PROVE FailuresAreCounted'
  BY <1>0, <1>2
     DEF UpdateRead, Goto, memory, runtime, saved, persist, history, FailuresAreCounted,
          Owns, Saving, Delivering, Trying
<1>3. ASSUME NEW p \in Procs, DeleteHook(p) PROVE FailuresAreCounted'
  BY <1>0, <1>3
     DEF DeleteHook, Goto, runtime, saved, persist, history, FailuresAreCounted, Owns,
          Saving, Delivering, Trying
<1>4. ASSUME NEW p \in Procs, EmitRead(p) PROVE FailuresAreCounted'
  BY <1>0, <1>4
     DEF EmitRead, Goto, memory, runtime, saved, persist, history, budget,
          FailuresAreCounted, Owns, Saving, Delivering, Trying
<1>5. ASSUME NEW p \in Procs, \E e \in Events : RetryRead(p, e) PROVE FailuresAreCounted'
  BY <1>0, <1>5
     DEF RetryRead, Goto, memory, runtime, saved, persist, history, FailuresAreCounted,
          Owns, Saving, Delivering, Trying
<1>6. ASSUME NEW p \in Procs, CopyHooks(p) PROVE FailuresAreCounted'
  BY <1>0, <1>6
     DEF CopyHooks, Goto, memory, runtime, saved, history, budget, FailuresAreCounted,
          Owns, Saving, Delivering, Trying
<1>7. ASSUME NEW p \in Procs, CopyEvents(p) PROVE FailuresAreCounted'
  BY <1>0, <1>7
     DEF CopyEvents, Goto, memory, runtime, saved, history, budget, FailuresAreCounted,
          Owns, Saving, Delivering, Trying
<1>8. ASSUME NEW p \in Procs, \E ok \in BOOLEAN : SetHooks(p, ok) PROVE FailuresAreCounted'
  BY <1>0, <1>8
     DEF SetHooks, Set, Goto, memory, runtime, history, FailuresAreCounted, Owns,
          Saving, Delivering, Trying
<1>9. ASSUME NEW p \in Procs, \E ok \in BOOLEAN : SetEvents(p, ok) PROVE FailuresAreCounted'
  BY <1>0, <1>9
     DEF SetEvents, Set, Goto, memory, runtime, history, FailuresAreCounted, Owns,
          Saving, Delivering, Trying
<1>10. ASSUME NEW p \in Procs, \E h \in {"on", "off"} : UpdateStore(p, h)
       PROVE  FailuresAreCounted'
  BY <1>0, <1>10
     DEF UpdateStore, SaveThen, Goto, runtime, saved, history, budget,
          FailuresAreCounted, Owns, Saving, Delivering, Trying
<1>11. ASSUME NEW p \in Procs, \E audited \in BOOLEAN : UpdateReject(p, audited)
       PROVE  FailuresAreCounted'
  BY <1>0, <1>11
     DEF UpdateReject, SaveThen, Goto, memory, runtime, saved, persist, history, budget,
          FailuresAreCounted, Owns, Saving, Delivering, Trying
<1>12. ASSUME NEW p \in Procs, DeleteRows(p) PROVE FailuresAreCounted'
  BY <1>0, <1>12, RowFacts
     DEF DeleteRows, Goto, runtime, saved, persist, history, budget, FailuresAreCounted,
          Owns, Saving, Delivering, Trying
<1>13. ASSUME NEW p \in Procs, DeleteRuntime(p) PROVE FailuresAreCounted'
  BY <1>0, <1>13
     DEF DeleteRuntime, SaveThen, Goto, memory, saved, history, budget,
          FailuresAreCounted, Owns, Saving, Delivering, Trying
<1>14. ASSUME NEW p \in Procs, DeleteAnswer(p) PROVE FailuresAreCounted'
  BY <1>0, <1>14
     DEF DeleteAnswer, Finish, Goto, memory, runtime, saved, persist, budget,
          FailuresAreCounted, Owns, Saving, Delivering, Trying
<1>15. ASSUME NEW p \in Procs, EmitStore(p) PROVE FailuresAreCounted'
  <2>1. /\ emitted' = emitted + 1 /\ emitted' \in Events
        /\ \A f \in Events : rows'[f].delivered => rows[f].delivered
    BY <1>0, <1>15, EmitChanges, RowFacts
  <2>2. /\ pc' = [pc EXCEPT ![p] = "hooks"] /\ ev' = [ev EXCEPT ![p] = emitted']
        /\ next' = [next EXCEPT ![p] = "deliver"] /\ failed' = failed /\ attempt' = attempt
    BY <1>15 DEF EmitStore, SaveThen, Goto, history
  <2>3. \A e \in Events : e > emitted' => failed'[e] = 0
    BY <1>0, <2>1, <2>2 DEF FailuresAreCounted, Events
  <2>4. failed[emitted'] = 0
    BY <1>0, <2>1 DEF FailuresAreCounted
  <2>5. \A q \in Procs \ {p} : /\ pc'[q] = pc[q] /\ ev'[q] = ev[q] /\ attempt'[q] = attempt[q]
                              /\ Owns(q)' = Owns(q)
    BY <1>0, <2>2 DEF Owns
  <2>6. pc'[p] = "hooks" /\ failed'[ev'[p]] = 0
    BY <1>0, <2>2, <2>4
  <2> QED BY <1>0, <2>1, <2>2, <2>3, <2>5, <2>6
     DEF FailuresAreCounted, Owns, Saving, Delivering, Trying
<1>16. ASSUME NEW p \in Procs, RetryMissing(p) PROVE FailuresAreCounted'
  BY <1>0, <1>16
     DEF RetryMissing, Finish, Goto, memory, runtime, saved, persist, history, budget,
          FailuresAreCounted, Owns, Saving, Delivering, Trying
<1>17. ASSUME NEW p \in Procs, RetrySkip(p) PROVE FailuresAreCounted'
  BY <1>0, <1>17
     DEF RetrySkip, SaveThen, Goto, memory, runtime, saved, history, budget,
          FailuresAreCounted, Owns, Saving, Delivering, Trying
<1>18. ASSUME NEW p \in Procs, RetryQueue(p) PROVE FailuresAreCounted'
  BY <1>0, <1>18
     DEF RetryQueue, SaveThen, Goto, runtime, saved, budget, FailuresAreCounted, Owns,
          Saving, Delivering, Trying
<1>19. ASSUME NEW p \in Procs, DeliverFind(p) PROVE FailuresAreCounted'
  BY <1>0, <1>19
     DEF DeliverFind, Goto, memory, runtime, saved, persist, history, budget,
          FailuresAreCounted, Owns, Saving, Delivering, Trying
<1>20. ASSUME NEW p \in Procs, DeliverNoHook(p) PROVE FailuresAreCounted'
  BY <1>0, <1>20
     DEF DeliverNoHook, Finish, Goto, memory, runtime, saved, persist, history, budget,
          FailuresAreCounted, Owns, Saving, Delivering, Trying
<1>21. ASSUME NEW p \in Procs, DeliverLoad(p) PROVE FailuresAreCounted'
  BY <1>0, <1>21
     DEF DeliverLoad, Goto, memory, runtime, saved, persist, history, budget,
          FailuresAreCounted, Owns, Saving, Delivering, Trying
<1>22. ASSUME NEW p \in Procs, DeliverNothing(p) PROVE FailuresAreCounted'
  BY <1>0, <1>22
     DEF DeliverNothing, Finish, Goto, memory, runtime, saved, persist, history, budget,
          FailuresAreCounted, Owns, Saving, Delivering, Trying
<1>23. ASSUME NEW p \in Procs, CheckOk(p) PROVE FailuresAreCounted'
  BY <1>0, <1>23
     DEF CheckOk, Permitted, Goto, memory, saved, persist, history, budget,
          FailuresAreCounted, Owns, Saving, Delivering, Trying
<1>24. ASSUME NEW p \in Procs, CheckReject(p) PROVE FailuresAreCounted'
  BY <1>0, <1>24
     DEF CheckReject, Goto, memory, runtime, saved, persist, history, budget,
          FailuresAreCounted, Owns, Saving, Delivering, Trying
<1>25. ASSUME NEW p \in Procs, DnsOk(p) PROVE FailuresAreCounted'
  BY <1>0, <1>25
     DEF DnsOk, Goto, memory, runtime, saved, persist, history, budget,
          FailuresAreCounted, Owns, Saving, Delivering, Trying
<1>26. ASSUME NEW p \in Procs, DnsBlock(p) PROVE FailuresAreCounted'
  BY <1>0, <1>26
     DEF DnsBlock, Goto, memory, runtime, saved, persist, history, FailuresAreCounted,
          Owns, Saving, Delivering, Trying
<1>27. ASSUME NEW p \in Procs, \E got, success \in BOOLEAN : Send(p, got, success)
       PROVE  FailuresAreCounted'
  BY <1>0, <1>27
     DEF Send, Goto, memory, runtime, saved, persist, budget, FailuresAreCounted, Owns,
          Saving, Delivering, Trying
<1>28. ASSUME NEW p \in Procs, StatusDelivered(p) PROVE FailuresAreCounted'
  <2>1. /\ pc[p] = "delivered" /\ pc' = [pc EXCEPT ![p] = "countSuccess"]
        /\ UNCHANGED <<ev, attempt, next, emitted, failed>>
    BY <1>28 DEF StatusDelivered, Goto, persist, history
  <2>2. \A f \in Events \ {ev[p]} : rows'[f] = rows[f]
    BY <1>0, <1>28, DeliveredChanges
  <2>3. \A q \in Procs \ {p} : pc'[q] = pc[q] /\ (Owns(q)' <=> Owns(q))
    BY <1>0, <2>1 DEF Owns
  <2>4. \A q \in Procs \ {p} : Owns(q) => rows'[ev[q]] = rows[ev[q]]
    <3>1. Owns(p)
      BY <2>1 DEF Owns, Delivering
    <3> QED BY <1>0, <2>2, <3>1 DEF OneTask
  <2>5. pc'[p] = "countSuccess"
    BY <1>0, <2>1
  <2>6. \A q \in Procs : pc[q] \in Trying \cup {"countFailure"} => Owns(q)
    BY DEF Owns, Delivering
  <2>7. \A e \in Events : e > emitted' => failed'[e] = 0
    BY <1>0, <2>1 DEF FailuresAreCounted
  <2>8. ASSUME NEW q \in Procs \ {p}
        PROVE  /\ Owns(q)' /\ pc'[q] \in Saving \cup {"deliver", "load"} => failed'[ev'[q]] = 0
               /\ pc'[q] \in Trying =>
                   attempt'[q] >= 1 /\ failed'[ev'[q]] = attempt'[q] - 1 /\ ~rows'[ev'[q]].delivered
               /\ pc'[q] = "countFailure" =>
                   attempt'[q] >= 1 /\ failed'[ev'[q]] = attempt'[q] /\ ~rows'[ev'[q]].delivered
    BY <1>0, <2>1, <2>3, <2>4, <2>6 DEF FailuresAreCounted
  <2>9. /\ pc'[p] \notin Saving \cup {"deliver", "load"} /\ pc'[p] \notin Trying
        /\ pc'[p] # "countFailure"
    BY <2>5 DEF Saving, Trying
  <2> QED BY <2>7, <2>8, <2>9 DEF FailuresAreCounted
<1>29. ASSUME NEW p \in Procs, StatusFailed(p) PROVE FailuresAreCounted'
  <2>1. /\ pc[p] \in {"rejected", "blocked"}
        /\ pc' = [pc EXCEPT ![p] = IF pc[p] = "blocked" THEN "countBlocked" ELSE "countFailure"]
        /\ failed' = [failed EXCEPT ![ev[p]] = IF @ < MaxAttempts THEN @ + 1 ELSE @]
        /\ UNCHANGED <<ev, attempt, next, emitted>>
    BY <1>29 DEF StatusFailed, Goto, persist
  <2>2. /\ \A f \in Events : rows'[f].delivered = rows[f].delivered
        /\ ev[p] \in Events
    BY <1>0, <1>29, FailedChanges
  <2>3. \A q \in Procs \ {p} : pc'[q] = pc[q] /\ (Owns(q)' <=> Owns(q))
    BY <1>0, <2>1 DEF Owns
  <2>4. \A q \in Procs \ {p} : Owns(q) => failed'[ev[q]] = failed[ev[q]]
    <3>1. Owns(p)
      BY <2>1 DEF Owns, Delivering, Trying
    <3> QED BY <1>0, <2>1, <3>1 DEF OneTask
  <2>5. /\ attempt[p] \in 1 .. MaxAttempts /\ failed[ev[p]] = attempt[p] - 1
        /\ ~rows[ev[p]].delivered /\ ev[p] \in 1 .. emitted
    BY <1>0, <2>1 DEF FailuresAreCounted, Trying, Owns, Delivering
  <2>6. failed'[ev[p]] = attempt[p]
    BY <1>0, <2>1, <2>2, <2>5, WebhookAssumption
  <2>7. pc'[p] \in {"countBlocked", "countFailure"}
    BY <1>0, <2>1
  <2>8. \A q \in Procs : pc[q] \in Trying \cup {"countFailure"} => Owns(q)
    BY DEF Owns, Delivering
  <2>9. \A e \in Events : e > emitted' => failed'[e] = 0
    BY <1>0, <2>1, <2>5 DEF FailuresAreCounted, Events
  <2>10. ASSUME NEW q \in Procs \ {p}
         PROVE  /\ Owns(q)' /\ pc'[q] \in Saving \cup {"deliver", "load"} => failed'[ev'[q]] = 0
                /\ pc'[q] \in Trying =>
                    attempt'[q] >= 1 /\ failed'[ev'[q]] = attempt'[q] - 1 /\ ~rows'[ev'[q]].delivered
                /\ pc'[q] = "countFailure" =>
                    attempt'[q] >= 1 /\ failed'[ev'[q]] = attempt'[q] /\ ~rows'[ev'[q]].delivered
    <3>1. /\ pc'[q] = pc[q] /\ ev'[q] = ev[q] /\ attempt'[q] = attempt[q]
          /\ Owns(q)' => Owns(q)
          /\ Owns(q) => ev[q] \in Events /\ failed'[ev[q]] = failed[ev[q]]
                       /\ rows'[ev[q]].delivered = rows[ev[q]].delivered
      BY <1>0, <2>1, <2>2, <2>3, <2>4
    <3> QED BY <1>0, <2>8, <3>1 DEF FailuresAreCounted
  <2>11. /\ attempt'[p] >= 1 /\ failed'[ev'[p]] = attempt'[p] /\ ~rows'[ev'[p]].delivered
         /\ pc'[p] \notin Saving \cup {"deliver", "load"} /\ pc'[p] \notin Trying
    BY <1>0, <2>1, <2>2, <2>5, <2>6, <2>7 DEF Saving, Trying
  <2> QED BY <2>9, <2>10, <2>11 DEF FailuresAreCounted
<1>30. ASSUME NEW p \in Procs, CountSuccess(p) PROVE FailuresAreCounted'
  BY <1>0, <1>30
     DEF CountSuccess, SaveThen, Goto, memory, saved, history, budget,
          FailuresAreCounted, Owns, Saving, Delivering, Trying
<1>31. ASSUME NEW p \in Procs, CountDead(p) PROVE FailuresAreCounted'
  BY <1>0, <1>31
     DEF CountDead, RecordFailure, SaveThen, Goto, memory, saved, budget,
          FailuresAreCounted, Owns, Saving, Delivering, Trying
<1>32. ASSUME NEW p \in Procs, CountRetry(p) PROVE FailuresAreCounted'
  BY <1>0, <1>32
     DEF CountRetry, RecordFailure, LastAttempt, Goto, memory, saved, persist, budget,
          FailuresAreCounted, Owns, Saving, Delivering, Trying
<1>33. ASSUME NEW p \in Procs, CountBlocked(p) PROVE FailuresAreCounted'
  BY <1>0, <1>33
     DEF CountBlocked, RecordFailure, SaveThen, Goto, memory, saved, budget,
          FailuresAreCounted, Owns, Saving, Delivering, Trying
<1>34. ASSUME WindowOver PROVE FailuresAreCounted'
  BY <1>0, <1>34
     DEF WindowOver, memory, saved, procs, history, budget, persist, FailuresAreCounted,
          Owns, Saving, Delivering, Trying
<1>35. ASSUME CooldownOver PROVE FailuresAreCounted'
  BY <1>0, <1>35
     DEF CooldownOver, memory, saved, procs, history, budget, persist,
          FailuresAreCounted, Owns, Saving, Delivering, Trying
<1>36. ASSUME Restart PROVE FailuresAreCounted'
  BY <1>0, <1>36
     DEF Restart, saved, history, FailuresAreCounted, Owns, Saving, Delivering, Trying
<1>37. ASSUME UNCHANGED vars PROVE FailuresAreCounted'
  BY <1>0, <1>37
     DEF vars, memory, runtime, saved, procs, persist, history, budget,
          FailuresAreCounted, Owns, Saving, Delivering, Trying
<1> QED
  BY <1>1, <1>2, <1>3, <1>4, <1>5, <1>6, <1>7, <1>8, <1>9, <1>10, <1>11, <1>12, <1>13,
          <1>14, <1>15, <1>16, <1>17, <1>18, <1>19, <1>20, <1>21, <1>22, <1>23, <1>24,
          <1>25, <1>26, <1>27, <1>28, <1>29, <1>30, <1>31, <1>32, <1>33, <1>34, <1>35,
          <1>36, <1>37
     DEF Next, Request, Step

(* ... so a dead letter has failed as often as allowed, wherever it is kept. *)
LEMMA DeadNext ==
    PlaceInv /\ retries = 0 /\ OneTask /\ FailuresAreCounted /\ DeadLettersAreTold
        /\ retries' = 0 /\ [Next]_vars
    => DeadLettersAreTold'
<1> SUFFICES ASSUME PlaceInv, retries = 0, OneTask, FailuresAreCounted, DeadLettersAreTold,
                    retries' = 0, [Next]_vars
             PROVE  DeadLettersAreTold'
  OBVIOUS
<1>0. /\ PlaceInv /\ OneTask /\ FailuresAreCounted /\ DeadLettersAreTold /\ retries' = 0
      /\ \A q \in Procs : pc[q] # "retry" /\ (Owns(q) => ev[q] \in 1 .. emitted /\ ev[q] \in Events)
      /\ rows \in [Events -> Row] /\ failed \in [Events -> 0 .. MaxAttempts] /\ emitted \in Nat
      /\ pc \in [Procs -> Pcs] /\ ev \in [Procs -> Events \cup {0}]
      /\ next \in [Procs -> {"idle", "deliver", "answer"}]
      /\ saves \in [Procs -> 0 .. 2] /\ attempt \in [Procs -> 0 .. MaxAttempts]
      /\ snapRows \in [Procs -> [Events -> Row]] /\ savedRows \in [Events -> Row]
  BY DEF PlaceInv, TypeOK, PlacesFit, BudgetsCount, Events
<1>1. ASSUME NEW p \in Procs, \E h \in {"on", "off"} : Register(p, h) PROVE DeadLettersAreTold'
  BY <1>0, <1>1
     DEF Register, SaveThen, Goto, runtime, saved, history, budget, DeadLettersAreTold,
          GivenUp
<1>2. ASSUME NEW p \in Procs, UpdateRead(p) PROVE DeadLettersAreTold'
  BY <1>0, <1>2
     DEF UpdateRead, Goto, memory, runtime, saved, persist, history, DeadLettersAreTold,
          GivenUp
<1>3. ASSUME NEW p \in Procs, DeleteHook(p) PROVE DeadLettersAreTold'
  BY <1>0, <1>3
     DEF DeleteHook, Goto, runtime, saved, persist, history, DeadLettersAreTold, GivenUp
<1>4. ASSUME NEW p \in Procs, EmitRead(p) PROVE DeadLettersAreTold'
  BY <1>0, <1>4
     DEF EmitRead, Goto, memory, runtime, saved, persist, history, budget,
          DeadLettersAreTold, GivenUp
<1>5. ASSUME NEW p \in Procs, \E e \in Events : RetryRead(p, e) PROVE DeadLettersAreTold'
  BY <1>0, <1>5
     DEF RetryRead, Goto, memory, runtime, saved, persist, history, DeadLettersAreTold,
          GivenUp
<1>6. ASSUME NEW p \in Procs, CopyHooks(p) PROVE DeadLettersAreTold'
  BY <1>0, <1>6
     DEF CopyHooks, Goto, memory, runtime, saved, history, budget, DeadLettersAreTold,
          GivenUp
<1>7. ASSUME NEW p \in Procs, CopyEvents(p) PROVE DeadLettersAreTold'
  BY <1>0, <1>7
     DEF CopyEvents, Goto, memory, runtime, saved, history, budget, DeadLettersAreTold,
          GivenUp
<1>8. ASSUME NEW p \in Procs, \E ok \in BOOLEAN : SetHooks(p, ok) PROVE DeadLettersAreTold'
  BY <1>0, <1>8
     DEF SetHooks, Set, Goto, memory, runtime, history, DeadLettersAreTold, GivenUp
<1>9. ASSUME NEW p \in Procs, \E ok \in BOOLEAN : SetEvents(p, ok) PROVE DeadLettersAreTold'
  BY <1>0, <1>9, RowFacts
     DEF SetEvents, Set, Goto, memory, runtime, history, DeadLettersAreTold, GivenUp
<1>10. ASSUME NEW p \in Procs, \E h \in {"on", "off"} : UpdateStore(p, h)
       PROVE  DeadLettersAreTold'
  BY <1>0, <1>10
     DEF UpdateStore, SaveThen, Goto, runtime, saved, history, budget,
          DeadLettersAreTold, GivenUp
<1>11. ASSUME NEW p \in Procs, \E audited \in BOOLEAN : UpdateReject(p, audited)
       PROVE  DeadLettersAreTold'
  BY <1>0, <1>11
     DEF UpdateReject, SaveThen, Goto, memory, runtime, saved, persist, history, budget,
          DeadLettersAreTold, GivenUp
<1>12. ASSUME NEW p \in Procs, DeleteRows(p) PROVE DeadLettersAreTold'
  BY <1>0, <1>12, RowFacts
     DEF DeleteRows, Goto, runtime, saved, persist, history, budget, DeadLettersAreTold,
          GivenUp
<1>13. ASSUME NEW p \in Procs, DeleteRuntime(p) PROVE DeadLettersAreTold'
  BY <1>0, <1>13
     DEF DeleteRuntime, SaveThen, Goto, memory, saved, history, budget,
          DeadLettersAreTold, GivenUp
<1>14. ASSUME NEW p \in Procs, DeleteAnswer(p) PROVE DeadLettersAreTold'
  BY <1>0, <1>14
     DEF DeleteAnswer, Finish, Goto, memory, runtime, saved, persist, budget,
          DeadLettersAreTold, GivenUp
<1>15. ASSUME NEW p \in Procs, EmitStore(p) PROVE DeadLettersAreTold'
  BY <1>0, <1>15, EmitChanges, RowFacts
     DEF EmitStore, SaveThen, Goto, runtime, saved, history, budget, DeadLettersAreTold,
          GivenUp
<1>16. ASSUME NEW p \in Procs, RetryMissing(p) PROVE DeadLettersAreTold'
  BY <1>0, <1>16
     DEF RetryMissing, Finish, Goto, memory, runtime, saved, persist, history, budget,
          DeadLettersAreTold, GivenUp
<1>17. ASSUME NEW p \in Procs, RetrySkip(p) PROVE DeadLettersAreTold'
  BY <1>0, <1>17
     DEF RetrySkip, SaveThen, Goto, memory, runtime, saved, history, budget,
          DeadLettersAreTold, GivenUp
<1>18. ASSUME NEW p \in Procs, RetryQueue(p) PROVE DeadLettersAreTold'
  BY <1>0, <1>18
     DEF RetryQueue, SaveThen, Goto, runtime, saved, budget, DeadLettersAreTold, GivenUp
<1>19. ASSUME NEW p \in Procs, DeliverFind(p) PROVE DeadLettersAreTold'
  BY <1>0, <1>19
     DEF DeliverFind, Goto, memory, runtime, saved, persist, history, budget,
          DeadLettersAreTold, GivenUp
<1>20. ASSUME NEW p \in Procs, DeliverNoHook(p) PROVE DeadLettersAreTold'
  BY <1>0, <1>20
     DEF DeliverNoHook, Finish, Goto, memory, runtime, saved, persist, history, budget,
          DeadLettersAreTold, GivenUp
<1>21. ASSUME NEW p \in Procs, DeliverLoad(p) PROVE DeadLettersAreTold'
  BY <1>0, <1>21
     DEF DeliverLoad, Goto, memory, runtime, saved, persist, history, budget,
          DeadLettersAreTold, GivenUp
<1>22. ASSUME NEW p \in Procs, DeliverNothing(p) PROVE DeadLettersAreTold'
  BY <1>0, <1>22
     DEF DeliverNothing, Finish, Goto, memory, runtime, saved, persist, history, budget,
          DeadLettersAreTold, GivenUp
<1>23. ASSUME NEW p \in Procs, CheckOk(p) PROVE DeadLettersAreTold'
  BY <1>0, <1>23
     DEF CheckOk, Permitted, Goto, memory, saved, persist, history, budget,
          DeadLettersAreTold, GivenUp
<1>24. ASSUME NEW p \in Procs, CheckReject(p) PROVE DeadLettersAreTold'
  BY <1>0, <1>24
     DEF CheckReject, Goto, memory, runtime, saved, persist, history, budget,
          DeadLettersAreTold, GivenUp
<1>25. ASSUME NEW p \in Procs, DnsOk(p) PROVE DeadLettersAreTold'
  BY <1>0, <1>25
     DEF DnsOk, Goto, memory, runtime, saved, persist, history, budget,
          DeadLettersAreTold, GivenUp
<1>26. ASSUME NEW p \in Procs, DnsBlock(p) PROVE DeadLettersAreTold'
  BY <1>0, <1>26
     DEF DnsBlock, Goto, memory, runtime, saved, persist, history, DeadLettersAreTold,
          GivenUp
<1>27. ASSUME NEW p \in Procs, \E got, success \in BOOLEAN : Send(p, got, success)
       PROVE  DeadLettersAreTold'
  BY <1>0, <1>27
     DEF Send, Goto, memory, runtime, saved, persist, budget, DeadLettersAreTold,
          GivenUp
<1>28. ASSUME NEW p \in Procs, StatusDelivered(p) PROVE DeadLettersAreTold'
  BY <1>0, <1>28, DeliveredChanges
     DEF StatusDelivered, Goto, runtime, saved, persist, history, budget,
          DeadLettersAreTold, GivenUp
<1>29. ASSUME NEW p \in Procs, StatusFailed(p) PROVE DeadLettersAreTold'
  <2>1. /\ pc[p] \in {"rejected", "blocked"} /\ UNCHANGED <<saved, snapRows>>
        /\ failed' = [failed EXCEPT ![ev[p]] = IF @ < MaxAttempts THEN @ + 1 ELSE @]
    BY <1>29 DEF StatusFailed, persist
  <2>2. /\ ev[p] \in Events
        /\ \A f \in Events \ {ev[p]} : rows'[f] = rows[f]
        /\ rows'[ev[p]].delivered = rows[ev[p]].delivered
        /\ rows'[ev[p]] = rows[ev[p]] \/ (rows'[ev[p]].dead => LastAttempt(p))
    BY <1>0, <1>29, FailedChanges
  <2>3. /\ attempt[p] \in 1 .. MaxAttempts /\ failed[ev[p]] = attempt[p] - 1
        /\ ~rows[ev[p]].delivered
    BY <1>0, <2>1 DEF FailuresAreCounted, Trying
  <2>4. /\ failed[ev[p]] # MaxAttempts /\ failed'[ev[p]] = attempt[p]
        /\ \A f \in Events \ {ev[p]} : failed'[f] = failed[f]
    BY <1>0, <2>1, <2>2, <2>3, WebhookAssumption
  <2>5. \A r \in [Events -> Row] : GivenUp(r) => ~r[ev[p]].dead /\ GivenUp(r)'
    BY <2>2, <2>4 DEF GivenUp
  <2>6. rows'[ev[p]].dead => failed'[ev[p]] = MaxAttempts
    BY <1>0, <2>2, <2>3, <2>4, <2>5, WebhookAssumption DEF LastAttempt, DeadLettersAreTold
  <2>7. GivenUp(rows)'
    BY <1>0, <2>2, <2>3, <2>4, <2>6 DEF GivenUp, DeadLettersAreTold
  <2>8. GivenUp(savedRows)' /\ \A q \in Procs : GivenUp(snapRows[q])'
    BY <1>0, <2>1, <2>5 DEF DeadLettersAreTold, saved, GivenUp
  <2> QED BY <2>7, <2>8 DEF DeadLettersAreTold
<1>30. ASSUME NEW p \in Procs, CountSuccess(p) PROVE DeadLettersAreTold'
  BY <1>0, <1>30
     DEF CountSuccess, SaveThen, Goto, memory, saved, history, budget,
          DeadLettersAreTold, GivenUp
<1>31. ASSUME NEW p \in Procs, CountDead(p) PROVE DeadLettersAreTold'
  BY <1>0, <1>31
     DEF CountDead, RecordFailure, SaveThen, Goto, memory, saved, budget,
          DeadLettersAreTold, GivenUp
<1>32. ASSUME NEW p \in Procs, CountRetry(p) PROVE DeadLettersAreTold'
  BY <1>0, <1>32
     DEF CountRetry, RecordFailure, LastAttempt, Goto, memory, saved, persist, budget,
          DeadLettersAreTold, GivenUp
<1>33. ASSUME NEW p \in Procs, CountBlocked(p) PROVE DeadLettersAreTold'
  BY <1>0, <1>33
     DEF CountBlocked, RecordFailure, SaveThen, Goto, memory, saved, budget,
          DeadLettersAreTold, GivenUp
<1>34. ASSUME WindowOver PROVE DeadLettersAreTold'
  BY <1>0, <1>34
     DEF WindowOver, memory, saved, procs, history, budget, persist, DeadLettersAreTold,
          GivenUp
<1>35. ASSUME CooldownOver PROVE DeadLettersAreTold'
  BY <1>0, <1>35
     DEF CooldownOver, memory, saved, procs, history, budget, persist,
          DeadLettersAreTold, GivenUp
<1>36. ASSUME Restart PROVE DeadLettersAreTold'
  BY <1>0, <1>36, RowFacts DEF Restart, saved, history, DeadLettersAreTold, GivenUp
<1>37. ASSUME UNCHANGED vars PROVE DeadLettersAreTold'
  BY <1>0, <1>37
     DEF vars, memory, runtime, saved, procs, persist, history, budget,
          DeadLettersAreTold, GivenUp
<1> QED
  BY <1>1, <1>2, <1>3, <1>4, <1>5, <1>6, <1>7, <1>8, <1>9, <1>10, <1>11, <1>12, <1>13,
          <1>14, <1>15, <1>16, <1>17, <1>18, <1>19, <1>20, <1>21, <1>22, <1>23, <1>24,
          <1>25, <1>26, <1>27, <1>28, <1>29, <1>30, <1>31, <1>32, <1>33, <1>34, <1>35,
          <1>36, <1>37
     DEF Next, Request, Step

(* Until a delete or a restart the ring holds the latest events. *)
LEMMA LatestNext ==
    PlaceInv /\ LatestIsKept /\ deletes = 0 /\ crashes = 0 /\ deletes' = 0
        /\ crashes' = 0 /\ [Next]_vars
    => LatestIsKept'
<1> SUFFICES ASSUME PlaceInv, LatestIsKept, deletes = 0, crashes = 0, deletes' = 0,
                    crashes' = 0, [Next]_vars
             PROVE  LatestIsKept'
  OBVIOUS
<1>0. /\ PlaceInv /\ deletes = 0 /\ crashes = 0 /\ deletes' = 0 /\ crashes' = 0
      /\ {e \in Events : rows[e].there} = {e \in 1 .. emitted : e > emitted - MaxRows}
      /\ \A q \in Procs : pc[q] # "delete"
  BY DEF PlaceInv, PlacesFit, LatestIsKept
<1>1. ASSUME NEW p \in Procs, \E h \in {"on", "off"} : Register(p, h) PROVE LatestIsKept'
  BY <1>0, <1>1
     DEF Register, SaveThen, Goto, runtime, saved, history, budget, LatestIsKept
<1>2. ASSUME NEW p \in Procs, UpdateRead(p) PROVE LatestIsKept'
  BY <1>0, <1>2
     DEF UpdateRead, Goto, memory, runtime, saved, persist, history, LatestIsKept
<1>3. ASSUME NEW p \in Procs, DeleteHook(p) PROVE LatestIsKept'
  BY <1>0, <1>3 DEF DeleteHook, Goto, runtime, saved, persist, history, LatestIsKept
<1>4. ASSUME NEW p \in Procs, EmitRead(p) PROVE LatestIsKept'
  BY <1>0, <1>4
     DEF EmitRead, Goto, memory, runtime, saved, persist, history, budget, LatestIsKept
<1>5. ASSUME NEW p \in Procs, \E e \in Events : RetryRead(p, e) PROVE LatestIsKept'
  BY <1>0, <1>5
     DEF RetryRead, Goto, memory, runtime, saved, persist, history, LatestIsKept
<1>6. ASSUME NEW p \in Procs, CopyHooks(p) PROVE LatestIsKept'
  BY <1>0, <1>6 DEF CopyHooks, Goto, memory, runtime, saved, history, budget, LatestIsKept
<1>7. ASSUME NEW p \in Procs, CopyEvents(p) PROVE LatestIsKept'
  BY <1>0, <1>7
     DEF CopyEvents, Goto, memory, runtime, saved, history, budget, LatestIsKept
<1>8. ASSUME NEW p \in Procs, \E ok \in BOOLEAN : SetHooks(p, ok) PROVE LatestIsKept'
  BY <1>0, <1>8 DEF SetHooks, Set, Goto, memory, runtime, history, LatestIsKept
<1>9. ASSUME NEW p \in Procs, \E ok \in BOOLEAN : SetEvents(p, ok) PROVE LatestIsKept'
  BY <1>0, <1>9 DEF SetEvents, Set, Goto, memory, runtime, history, LatestIsKept
<1>10. ASSUME NEW p \in Procs, \E h \in {"on", "off"} : UpdateStore(p, h) PROVE LatestIsKept'
  BY <1>0, <1>10
     DEF UpdateStore, SaveThen, Goto, runtime, saved, history, budget, LatestIsKept
<1>11. ASSUME NEW p \in Procs, \E audited \in BOOLEAN : UpdateReject(p, audited)
       PROVE  LatestIsKept'
  BY <1>0, <1>11
     DEF UpdateReject, SaveThen, Goto, memory, runtime, saved, persist, history, budget,
          LatestIsKept
<1>12. ASSUME NEW p \in Procs, DeleteRows(p) PROVE LatestIsKept'
  BY <1>0, <1>12
     DEF DeleteRows, Goto, runtime, saved, persist, history, budget, LatestIsKept
<1>13. ASSUME NEW p \in Procs, DeleteRuntime(p) PROVE LatestIsKept'
  BY <1>0, <1>13
     DEF DeleteRuntime, SaveThen, Goto, memory, saved, history, budget, LatestIsKept
<1>14. ASSUME NEW p \in Procs, DeleteAnswer(p) PROVE LatestIsKept'
  BY <1>0, <1>14
     DEF DeleteAnswer, Finish, Goto, memory, runtime, saved, persist, budget,
          LatestIsKept
<1>15. ASSUME NEW p \in Procs, EmitStore(p) PROVE LatestIsKept'
  <2> DEFINE n == emitted + 1
             r == [rows EXCEPT ![n] = NewRow]
  <2>1. /\ emitted' = n /\ n \in Events /\ emitted \in Nat /\ rows \in [Events -> Row]
        /\ rows' = Keep(r)
    <3>1. emitted' = n /\ n \in Events
      BY <1>0, <1>15, EmitChanges
    <3>2. rows' = Keep(r)
      BY <1>15, <3>1 DEF EmitStore
    <3> QED BY <1>0, <3>1, <3>2 DEF PlaceInv, TypeOK
  <2>2. /\ Events = 1 .. MaxEvents /\ MaxEvents \in Nat /\ MaxRows \in Nat \ {0} /\ n \in Nat
    BY <2>1, WebhookAssumption DEF Events
  <2>3. \A f \in Events : r[f].there <=> f <= n /\ f > emitted - MaxRows
    <3>1. r[n].there /\ n > emitted - MaxRows
      BY <2>1, <2>2, RowFacts
    <3>2. \A f \in Events \ {n} : r[f] = rows[f]
      BY <2>1
    <3>3. \A f \in Events : rows[f].there <=> f \in 1 .. emitted /\ f > emitted - MaxRows
      BY <1>0
    <3> QED BY <2>1, <2>2, <3>1, <3>2, <3>3
  <2> HIDE DEF r
  <2>4. ASSUME NEW e \in Events, r[e].there
        PROVE  Cardinality({f \in Events : r[f].there /\ f >= e}) = n - e + 1
    <3>1. {f \in Events : r[f].there /\ f >= e} = e .. n
      BY <2>1, <2>2, <2>3, <2>4
    <3>2. e \in Int /\ n \in Int /\ e <= n
      BY <2>1, <2>2, <2>3, <2>4
    <3>3. Cardinality(e .. n) = n - e + 1
      BY <3>2, FS_Interval
    <3> QED BY <3>1, <3>3
  <2>5. ASSUME NEW e \in Events
        PROVE  rows'[e].there <=> e <= n /\ e > n - MaxRows
    <3>1. rows'[e] = IF Cardinality({f \in Events : r[f].there /\ f >= e}) <= MaxRows
                     THEN r[e] ELSE NoRow
      BY <2>1 DEF Keep
    <3>2. CASE r[e].there
      BY <2>1, <2>2, <2>3, <2>4, <3>1, <3>2, RowFacts
    <3>3. CASE ~r[e].there
      <4>1. ~rows'[e].there
        BY <3>1, <3>3, RowFacts
      <4> QED BY <2>1, <2>2, <2>3, <3>3, <4>1
    <3> QED BY <3>2, <3>3
  <2>6. {e \in Events : rows'[e].there} = {e \in 1 .. emitted' : e > emitted' - MaxRows}
    BY <2>1, <2>2, <2>5
  <2> QED BY <2>6 DEF LatestIsKept
<1>16. ASSUME NEW p \in Procs, RetryMissing(p) PROVE LatestIsKept'
  BY <1>0, <1>16
     DEF RetryMissing, Finish, Goto, memory, runtime, saved, persist, history, budget,
          LatestIsKept
<1>17. ASSUME NEW p \in Procs, RetrySkip(p) PROVE LatestIsKept'
  BY <1>0, <1>17
     DEF RetrySkip, SaveThen, Goto, memory, runtime, saved, history, budget,
          LatestIsKept
<1>18. ASSUME NEW p \in Procs, RetryQueue(p) PROVE LatestIsKept'
  <2>1. ev[p] \in Events /\ rows \in [Events -> Row]
    BY <1>0, <1>18 DEF PlaceInv, PlacesFit, TypeOK, Events, RetryQueue
  <2>2. \A f \in Events : rows'[f].there = rows[f].there
    BY <1>0, <1>18, <2>1, RetryChanges DEF RetryQueue
  <2> QED BY <1>0, <1>18, <2>2 DEF RetryQueue, LatestIsKept
<1>19. ASSUME NEW p \in Procs, DeliverFind(p) PROVE LatestIsKept'
  BY <1>0, <1>19
     DEF DeliverFind, Goto, memory, runtime, saved, persist, history, budget,
          LatestIsKept
<1>20. ASSUME NEW p \in Procs, DeliverNoHook(p) PROVE LatestIsKept'
  BY <1>0, <1>20
     DEF DeliverNoHook, Finish, Goto, memory, runtime, saved, persist, history, budget,
          LatestIsKept
<1>21. ASSUME NEW p \in Procs, DeliverLoad(p) PROVE LatestIsKept'
  BY <1>0, <1>21
     DEF DeliverLoad, Goto, memory, runtime, saved, persist, history, budget,
          LatestIsKept
<1>22. ASSUME NEW p \in Procs, DeliverNothing(p) PROVE LatestIsKept'
  BY <1>0, <1>22
     DEF DeliverNothing, Finish, Goto, memory, runtime, saved, persist, history, budget,
          LatestIsKept
<1>23. ASSUME NEW p \in Procs, CheckOk(p) PROVE LatestIsKept'
  BY <1>0, <1>23
     DEF CheckOk, Permitted, Goto, memory, saved, persist, history, budget, LatestIsKept
<1>24. ASSUME NEW p \in Procs, CheckReject(p) PROVE LatestIsKept'
  BY <1>0, <1>24
     DEF CheckReject, Goto, memory, runtime, saved, persist, history, budget,
          LatestIsKept
<1>25. ASSUME NEW p \in Procs, DnsOk(p) PROVE LatestIsKept'
  BY <1>0, <1>25
     DEF DnsOk, Goto, memory, runtime, saved, persist, history, budget, LatestIsKept
<1>26. ASSUME NEW p \in Procs, DnsBlock(p) PROVE LatestIsKept'
  BY <1>0, <1>26
     DEF DnsBlock, Goto, memory, runtime, saved, persist, history, LatestIsKept
<1>27. ASSUME NEW p \in Procs, \E got, success \in BOOLEAN : Send(p, got, success)
       PROVE  LatestIsKept'
  BY <1>0, <1>27 DEF Send, Goto, memory, runtime, saved, persist, budget, LatestIsKept
<1>28. ASSUME NEW p \in Procs, StatusDelivered(p) PROVE LatestIsKept'
  BY <1>0, <1>28, DeliveredChanges
     DEF StatusDelivered, Goto, runtime, saved, persist, history, budget, LatestIsKept
<1>29. ASSUME NEW p \in Procs, StatusFailed(p) PROVE LatestIsKept'
  BY <1>0, <1>29, FailedChanges
     DEF StatusFailed, Goto, runtime, saved, persist, budget, LatestIsKept
<1>30. ASSUME NEW p \in Procs, CountSuccess(p) PROVE LatestIsKept'
  BY <1>0, <1>30
     DEF CountSuccess, SaveThen, Goto, memory, saved, history, budget, LatestIsKept
<1>31. ASSUME NEW p \in Procs, CountDead(p) PROVE LatestIsKept'
  BY <1>0, <1>31
     DEF CountDead, RecordFailure, SaveThen, Goto, memory, saved, budget, LatestIsKept
<1>32. ASSUME NEW p \in Procs, CountRetry(p) PROVE LatestIsKept'
  BY <1>0, <1>32
     DEF CountRetry, RecordFailure, LastAttempt, Goto, memory, saved, persist, budget,
          LatestIsKept
<1>33. ASSUME NEW p \in Procs, CountBlocked(p) PROVE LatestIsKept'
  BY <1>0, <1>33
     DEF CountBlocked, RecordFailure, SaveThen, Goto, memory, saved, budget,
          LatestIsKept
<1>34. ASSUME WindowOver PROVE LatestIsKept'
  BY <1>0, <1>34
     DEF WindowOver, memory, saved, procs, history, budget, persist, LatestIsKept
<1>35. ASSUME CooldownOver PROVE LatestIsKept'
  BY <1>0, <1>35
     DEF CooldownOver, memory, saved, procs, history, budget, persist, LatestIsKept
<1>36. ASSUME Restart PROVE LatestIsKept'
  BY <1>0, <1>36 DEF Restart, saved, history, LatestIsKept
<1>37. ASSUME UNCHANGED vars PROVE LatestIsKept'
  BY <1>0, <1>37
     DEF vars, memory, runtime, saved, procs, persist, history, budget, LatestIsKept
<1> QED
  BY <1>1, <1>2, <1>3, <1>4, <1>5, <1>6, <1>7, <1>8, <1>9, <1>10, <1>11, <1>12, <1>13,
          <1>14, <1>15, <1>16, <1>17, <1>18, <1>19, <1>20, <1>21, <1>22, <1>23, <1>24,
          <1>25, <1>26, <1>27, <1>28, <1>29, <1>30, <1>31, <1>32, <1>33, <1>34, <1>35,
          <1>36, <1>37
     DEF Next, Request, Step

LEMMA RowsInvInit == Init => RowsInv
<1> SUFFICES ASSUME Init PROVE RowsInv
  OBVIOUS
<1>1. PlaceInv
  BY PlaceInvInit
<1>2. \A e \in Events : /\ rows[e] = NoRow /\ savedRows[e] = NoRow
                        /\ \A p \in Procs : snapRows[p][e] = NoRow
  BY RowFacts DEF Init
<1>3. DeliveriesAreTold
  BY <1>2, RowFacts DEF Init, DeliveriesAreTold, Told
<1>4. NobodyRetries
  <2>1. \A p \in Procs : pc[p] = "idle" /\ ~Owns(p)
    BY DEF Init, Owns, Saving, Delivering, Trying
  <2>2. DeadLettersAreTold
    BY <1>2, RowFacts DEF DeadLettersAreTold, GivenUp
  <2>3. FailuresAreCounted
    BY <2>1 DEF Init, FailuresAreCounted, Trying
  <2> QED BY <2>1, <2>2, <2>3 DEF NobodyRetries, OneTask
<1>5. LatestIsKept
  BY <1>2, RowFacts DEF Init, LatestIsKept
<1> QED BY <1>1, <1>3, <1>4, <1>5 DEF RowsInv

(* Retries, deletes and restarts are never taken back. *)
LEMMA CountsGrow ==
    ASSUME PlaceInv, [Next]_vars
    PROVE  /\ retries' = 0 => retries = 0
           /\ deletes' = 0 => deletes = 0
           /\ crashes' = 0 => crashes = 0
<1> DEFINE More == deletes' >= deletes /\ retries' >= retries /\ crashes' >= crashes
<1>0. PlaceInv /\ deletes \in Nat /\ retries \in Nat /\ crashes \in Nat
  BY DEF PlaceInv, BudgetsCount
<1>1. ASSUME NEW p \in Procs, \E h \in {"on", "off"} : Register(p, h) PROVE More
  BY <1>0, <1>1 DEF Register, budget
<1>2. ASSUME NEW p \in Procs, UpdateRead(p) PROVE More
  BY <1>0, <1>2 DEF UpdateRead
<1>3. ASSUME NEW p \in Procs, DeleteHook(p) PROVE More
  BY <1>0, <1>3 DEF DeleteHook
<1>4. ASSUME NEW p \in Procs, EmitRead(p) PROVE More
  BY <1>0, <1>4 DEF EmitRead, budget
<1>5. ASSUME NEW p \in Procs, \E e \in Events : RetryRead(p, e) PROVE More
  BY <1>0, <1>5 DEF RetryRead
<1>6. ASSUME NEW p \in Procs, CopyHooks(p) PROVE More
  BY <1>0, <1>6 DEF CopyHooks, budget
<1>7. ASSUME NEW p \in Procs, CopyEvents(p) PROVE More
  BY <1>0, <1>7 DEF CopyEvents, budget
<1>8. ASSUME NEW p \in Procs, \E ok \in BOOLEAN : SetHooks(p, ok) PROVE More
  BY <1>0, <1>8 DEF SetHooks
<1>9. ASSUME NEW p \in Procs, \E ok \in BOOLEAN : SetEvents(p, ok) PROVE More
  BY <1>0, <1>9 DEF SetEvents
<1>10. ASSUME NEW p \in Procs, \E h \in {"on", "off"} : UpdateStore(p, h) PROVE More
  BY <1>0, <1>10 DEF UpdateStore, budget
<1>11. ASSUME NEW p \in Procs, \E audited \in BOOLEAN : UpdateReject(p, audited) PROVE More
  BY <1>0, <1>11 DEF UpdateReject, budget
<1>12. ASSUME NEW p \in Procs, DeleteRows(p) PROVE More
  BY <1>0, <1>12 DEF DeleteRows, budget
<1>13. ASSUME NEW p \in Procs, DeleteRuntime(p) PROVE More
  BY <1>0, <1>13 DEF DeleteRuntime, budget
<1>14. ASSUME NEW p \in Procs, DeleteAnswer(p) PROVE More
  BY <1>0, <1>14 DEF DeleteAnswer, budget
<1>15. ASSUME NEW p \in Procs, EmitStore(p) PROVE More
  BY <1>0, <1>15 DEF EmitStore, budget
<1>16. ASSUME NEW p \in Procs, RetryMissing(p) PROVE More
  BY <1>0, <1>16 DEF RetryMissing, budget
<1>17. ASSUME NEW p \in Procs, RetrySkip(p) PROVE More
  BY <1>0, <1>17 DEF RetrySkip, budget
<1>18. ASSUME NEW p \in Procs, RetryQueue(p) PROVE More
  BY <1>0, <1>18 DEF RetryQueue, budget
<1>19. ASSUME NEW p \in Procs, DeliverFind(p) PROVE More
  BY <1>0, <1>19 DEF DeliverFind, budget
<1>20. ASSUME NEW p \in Procs, DeliverNoHook(p) PROVE More
  BY <1>0, <1>20 DEF DeliverNoHook, budget
<1>21. ASSUME NEW p \in Procs, DeliverLoad(p) PROVE More
  BY <1>0, <1>21 DEF DeliverLoad, budget
<1>22. ASSUME NEW p \in Procs, DeliverNothing(p) PROVE More
  BY <1>0, <1>22 DEF DeliverNothing, budget
<1>23. ASSUME NEW p \in Procs, CheckOk(p) PROVE More
  BY <1>0, <1>23 DEF CheckOk, budget
<1>24. ASSUME NEW p \in Procs, CheckReject(p) PROVE More
  BY <1>0, <1>24 DEF CheckReject, budget
<1>25. ASSUME NEW p \in Procs, DnsOk(p) PROVE More
  BY <1>0, <1>25 DEF DnsOk, budget
<1>26. ASSUME NEW p \in Procs, DnsBlock(p) PROVE More
  BY <1>0, <1>26 DEF DnsBlock
<1>27. ASSUME NEW p \in Procs, \E got, success \in BOOLEAN : Send(p, got, success) PROVE More
  BY <1>0, <1>27 DEF Send, budget
<1>28. ASSUME NEW p \in Procs, StatusDelivered(p) PROVE More
  BY <1>0, <1>28 DEF StatusDelivered, budget
<1>29. ASSUME NEW p \in Procs, StatusFailed(p) PROVE More
  BY <1>0, <1>29 DEF StatusFailed, budget
<1>30. ASSUME NEW p \in Procs, CountSuccess(p) PROVE More
  BY <1>0, <1>30 DEF CountSuccess, budget
<1>31. ASSUME NEW p \in Procs, CountDead(p) PROVE More
  BY <1>0, <1>31 DEF CountDead, budget
<1>32. ASSUME NEW p \in Procs, CountRetry(p) PROVE More
  BY <1>0, <1>32 DEF CountRetry, budget
<1>33. ASSUME NEW p \in Procs, CountBlocked(p) PROVE More
  BY <1>0, <1>33 DEF CountBlocked, budget
<1>34. ASSUME WindowOver PROVE More
  BY <1>0, <1>34 DEF WindowOver, budget
<1>35. ASSUME CooldownOver PROVE More
  BY <1>0, <1>35 DEF CooldownOver, budget
<1>36. ASSUME Restart PROVE More
  BY <1>0, <1>36 DEF Restart
<1>37. ASSUME UNCHANGED vars PROVE More
  BY <1>0, <1>37 DEF vars, budget
<1>38. More
  BY <1>1, <1>2, <1>3, <1>4, <1>5, <1>6, <1>7, <1>8, <1>9, <1>10, <1>11, <1>12, <1>13,
          <1>14, <1>15, <1>16, <1>17, <1>18, <1>19, <1>20, <1>21, <1>22, <1>23, <1>24,
          <1>25, <1>26, <1>27, <1>28, <1>29, <1>30, <1>31, <1>32, <1>33, <1>34, <1>35,
          <1>36, <1>37
     DEF Next, Request, Step
<1> QED BY <1>0, <1>38

LEMMA RowsInvNext == RowsInv /\ [Next]_vars => RowsInv'
<1> SUFFICES ASSUME RowsInv, [Next]_vars PROVE RowsInv'
  OBVIOUS
<1>1. PlaceInv'
  BY PlaceInvNext DEF RowsInv
<1>2. DeliveriesAreTold'
  BY ToldNext DEF RowsInv
<1>3. NobodyRetries'
  <2> SUFFICES ASSUME retries' = 0 PROVE (OneTask /\ FailuresAreCounted /\ DeadLettersAreTold)'
    BY DEF NobodyRetries
  <2>1. retries = 0 /\ PlaceInv /\ OneTask /\ FailuresAreCounted /\ DeadLettersAreTold
    BY CountsGrow DEF RowsInv, NobodyRetries
  <2> QED BY <2>1, OneTaskNext, CountedNext, DeadNext
<1>4. LatestIsKept'
  <2>1. CASE deletes' = 0 /\ crashes' = 0
    <3>1. deletes = 0 /\ crashes = 0 /\ PlaceInv /\ LatestIsKept
      BY <2>1, CountsGrow DEF RowsInv
    <3> QED BY <2>1, <3>1, LatestNext
  <2>2. CASE ~(deletes' = 0 /\ crashes' = 0)
    BY <2>2 DEF LatestIsKept
  <2> QED BY <2>1, <2>2
<1> QED BY <1>1, <1>2, <1>3, <1>4 DEF RowsInv

(* Every variable of the webhook's state stays within its type, whatever    *)
(* handlers, tasks, failing SETs and restarts do.                           *)
THEOREM WebhookTypeCorrect == Spec => []TypeOK
<1>1. PlaceInv => TypeOK
  BY DEF PlaceInv
<1> QED BY <1>1, PlaceInvInit, PlaceInvNext, PTL DEF Spec

(* A row says "delivered" only of an event the receiver has got; without    *)
(* manual retries it says "dead letter" only after max_attempts failures    *)
(* and no success; and until a delete or a restart the ring of              *)
(* max_events_per_webhook rows holds exactly the events emitted last.       *)
THEOREM RowsTellTheTruth == Spec => []RowsAreTrue
<1>1. RowsInv => RowsAreTrue
  BY DEF RowsInv, RowsAreTrue, DeliveriesAreTold, Told, DeliveredIsTrue, NobodyRetries,
         DeadLettersAreTold, GivenUp, DeadLettersAreTrue
<1> QED BY <1>1, RowsInvInit, RowsInvNext, PTL DEF Spec

-----------------------------------------------------------------------------
(* What a client was told, with one handler or task at a time.              *)

(* Alone, a process leaves memory and Redis as SerialInv says. *)
LEMMA SerialNext ==
    PlaceInv /\ SerialInv /\ (\A p, q \in Procs : p = q) /\ [Next]_vars
    => SerialInv'
<1> SUFFICES ASSUME PlaceInv, SerialInv, \A p, q \in Procs : p = q, [Next]_vars PROVE SerialInv'
  OBVIOUS
<1>0. /\ PlaceInv /\ SerialInv /\ (\A p, q \in Procs : p = q)
      /\ pc \in [Procs -> Pcs] /\ faults \in Nat
      /\ saves \in [Procs -> 0 .. 2] /\ next \in [Procs -> {"idle", "deliver", "answer"}]
      /\ snapHook \in [Procs -> Hooks] /\ snapRows \in [Procs -> [Events -> Row]]
  BY DEF PlaceInv, TypeOK, BudgetsCount
<1>1. ASSUME NEW p \in Procs, \E h \in {"on", "off"} : Register(p, h) PROVE SerialInv'
  BY <1>0, <1>1
     DEF Register, SaveThen, Goto, runtime, saved, history, budget, SerialInv, Quiet,
          Saving
<1>2. ASSUME NEW p \in Procs, UpdateRead(p) PROVE SerialInv'
  BY <1>0, <1>2
     DEF UpdateRead, Goto, memory, runtime, saved, persist, history, SerialInv, Quiet,
          Saving
<1>3. ASSUME NEW p \in Procs, DeleteHook(p) PROVE SerialInv'
  BY <1>0, <1>3
     DEF DeleteHook, Goto, runtime, saved, persist, history, SerialInv, Quiet, Saving
<1>4. ASSUME NEW p \in Procs, EmitRead(p) PROVE SerialInv'
  BY <1>0, <1>4
     DEF EmitRead, Goto, memory, runtime, saved, persist, history, budget, SerialInv,
          Quiet, Saving
<1>5. ASSUME NEW p \in Procs, \E e \in Events : RetryRead(p, e) PROVE SerialInv'
  BY <1>0, <1>5
     DEF RetryRead, Goto, memory, runtime, saved, persist, history, SerialInv, Quiet,
          Saving
<1>6. ASSUME NEW p \in Procs, CopyHooks(p) PROVE SerialInv'
  BY <1>0, <1>6
     DEF CopyHooks, Goto, memory, runtime, saved, history, budget, SerialInv, Quiet,
          Saving
<1>7. ASSUME NEW p \in Procs, CopyEvents(p) PROVE SerialInv'
  BY <1>0, <1>7
     DEF CopyEvents, Goto, memory, runtime, saved, history, budget, SerialInv, Quiet,
          Saving
<1>8. ASSUME NEW p \in Procs, \E ok \in BOOLEAN : SetHooks(p, ok) PROVE SerialInv'
  BY <1>0, <1>8
     DEF SetHooks, Set, Goto, memory, runtime, history, SerialInv, Quiet, Saving
<1>9. ASSUME NEW p \in Procs, \E ok \in BOOLEAN : SetEvents(p, ok) PROVE SerialInv'
  BY <1>0, <1>9
     DEF SetEvents, Set, Goto, memory, runtime, history, SerialInv, Quiet, Saving
<1>10. ASSUME NEW p \in Procs, \E h \in {"on", "off"} : UpdateStore(p, h) PROVE SerialInv'
  BY <1>0, <1>10
     DEF UpdateStore, SaveThen, Goto, runtime, saved, history, budget, SerialInv, Quiet,
          Saving
<1>11. ASSUME NEW p \in Procs, \E audited \in BOOLEAN : UpdateReject(p, audited)
       PROVE  SerialInv'
  BY <1>0, <1>11
     DEF UpdateReject, SaveThen, Goto, memory, runtime, saved, persist, history, budget,
          SerialInv, Quiet, Saving
<1>12. ASSUME NEW p \in Procs, DeleteRows(p) PROVE SerialInv'
  BY <1>0, <1>12
     DEF DeleteRows, Goto, runtime, saved, persist, history, budget, SerialInv, Quiet,
          Saving
<1>13. ASSUME NEW p \in Procs, DeleteRuntime(p) PROVE SerialInv'
  BY <1>0, <1>13
     DEF DeleteRuntime, SaveThen, Goto, memory, saved, history, budget, SerialInv,
          Quiet, Saving
<1>14. ASSUME NEW p \in Procs, DeleteAnswer(p) PROVE SerialInv'
  BY <1>0, <1>14
     DEF DeleteAnswer, Finish, Goto, memory, runtime, saved, persist, budget, SerialInv,
          Quiet, Saving
<1>15. ASSUME NEW p \in Procs, EmitStore(p) PROVE SerialInv'
  BY <1>0, <1>15
     DEF EmitStore, SaveThen, Goto, runtime, saved, history, budget, SerialInv, Quiet,
          Saving
<1>16. ASSUME NEW p \in Procs, RetryMissing(p) PROVE SerialInv'
  BY <1>0, <1>16
     DEF RetryMissing, Finish, Goto, memory, runtime, saved, persist, history, budget,
          SerialInv, Quiet, Saving
<1>17. ASSUME NEW p \in Procs, RetrySkip(p) PROVE SerialInv'
  BY <1>0, <1>17
     DEF RetrySkip, SaveThen, Goto, memory, runtime, saved, history, budget, SerialInv,
          Quiet, Saving
<1>18. ASSUME NEW p \in Procs, RetryQueue(p) PROVE SerialInv'
  BY <1>0, <1>18
     DEF RetryQueue, SaveThen, Goto, runtime, saved, budget, SerialInv, Quiet, Saving
<1>19. ASSUME NEW p \in Procs, DeliverFind(p) PROVE SerialInv'
  BY <1>0, <1>19
     DEF DeliverFind, Goto, memory, runtime, saved, persist, history, budget, SerialInv,
          Quiet, Saving
<1>20. ASSUME NEW p \in Procs, DeliverNoHook(p) PROVE SerialInv'
  BY <1>0, <1>20
     DEF DeliverNoHook, Finish, Goto, memory, runtime, saved, persist, history, budget,
          SerialInv, Quiet, Saving
<1>21. ASSUME NEW p \in Procs, DeliverLoad(p) PROVE SerialInv'
  BY <1>0, <1>21
     DEF DeliverLoad, Goto, memory, runtime, saved, persist, history, budget, SerialInv,
          Quiet, Saving
<1>22. ASSUME NEW p \in Procs, DeliverNothing(p) PROVE SerialInv'
  BY <1>0, <1>22
     DEF DeliverNothing, Finish, Goto, memory, runtime, saved, persist, history, budget,
          SerialInv, Quiet, Saving
<1>23. ASSUME NEW p \in Procs, CheckOk(p) PROVE SerialInv'
  BY <1>0, <1>23
     DEF CheckOk, Permitted, Goto, memory, saved, persist, history, budget, SerialInv,
          Quiet, Saving
<1>24. ASSUME NEW p \in Procs, CheckReject(p) PROVE SerialInv'
  BY <1>0, <1>24
     DEF CheckReject, Goto, memory, runtime, saved, persist, history, budget, SerialInv,
          Quiet, Saving
<1>25. ASSUME NEW p \in Procs, DnsOk(p) PROVE SerialInv'
  BY <1>0, <1>25
     DEF DnsOk, Goto, memory, runtime, saved, persist, history, budget, SerialInv,
          Quiet, Saving
<1>26. ASSUME NEW p \in Procs, DnsBlock(p) PROVE SerialInv'
  BY <1>0, <1>26
     DEF DnsBlock, Goto, memory, runtime, saved, persist, history, SerialInv, Quiet,
          Saving
<1>27. ASSUME NEW p \in Procs, \E got, success \in BOOLEAN : Send(p, got, success)
       PROVE  SerialInv'
  BY <1>0, <1>27
     DEF Send, Goto, memory, runtime, saved, persist, budget, SerialInv, Quiet, Saving
<1>28. ASSUME NEW p \in Procs, StatusDelivered(p) PROVE SerialInv'
  BY <1>0, <1>28
     DEF StatusDelivered, Goto, runtime, saved, persist, history, budget, SerialInv,
          Quiet, Saving
<1>29. ASSUME NEW p \in Procs, StatusFailed(p) PROVE SerialInv'
  BY <1>0, <1>29
     DEF StatusFailed, Goto, runtime, saved, persist, budget, SerialInv, Quiet, Saving
<1>30. ASSUME NEW p \in Procs, CountSuccess(p) PROVE SerialInv'
  BY <1>0, <1>30
     DEF CountSuccess, SaveThen, Goto, memory, saved, history, budget, SerialInv, Quiet,
          Saving
<1>31. ASSUME NEW p \in Procs, CountDead(p) PROVE SerialInv'
  BY <1>0, <1>31
     DEF CountDead, RecordFailure, SaveThen, Goto, memory, saved, budget, SerialInv,
          Quiet, Saving
<1>32. ASSUME NEW p \in Procs, CountRetry(p) PROVE SerialInv'
  BY <1>0, <1>32
     DEF CountRetry, RecordFailure, LastAttempt, Goto, memory, saved, persist, budget,
          SerialInv, Quiet, Saving
<1>33. ASSUME NEW p \in Procs, CountBlocked(p) PROVE SerialInv'
  BY <1>0, <1>33
     DEF CountBlocked, RecordFailure, SaveThen, Goto, memory, saved, budget, SerialInv,
          Quiet, Saving
<1>34. ASSUME WindowOver PROVE SerialInv'
  BY <1>0, <1>34
     DEF WindowOver, memory, saved, procs, history, budget, persist, SerialInv, Quiet,
          Saving
<1>35. ASSUME CooldownOver PROVE SerialInv'
  BY <1>0, <1>35
     DEF CooldownOver, memory, saved, procs, history, budget, persist, SerialInv, Quiet,
          Saving
<1>36. ASSUME Restart PROVE SerialInv'
  BY <1>0, <1>36 DEF Restart, saved, history, SerialInv, Quiet, Saving
<1>37. ASSUME UNCHANGED vars PROVE SerialInv'
  BY <1>0, <1>37
     DEF vars, memory, runtime, saved, procs, persist, history, budget, SerialInv,
          Quiet, Saving
<1> QED
  BY <1>1, <1>2, <1>3, <1>4, <1>5, <1>6, <1>7, <1>8, <1>9, <1>10, <1>11, <1>12, <1>13,
          <1>14, <1>15, <1>16, <1>17, <1>18, <1>19, <1>20, <1>21, <1>22, <1>23, <1>24,
          <1>25, <1>26, <1>27, <1>28, <1>29, <1>30, <1>31, <1>32, <1>33, <1>34, <1>35,
          <1>36, <1>37
     DEF Next, Request, Step

LEMMA SerialInit == Init => SerialInv
BY DEF Init, SerialInv, Quiet, Saving

(* Served one request or task at a time, a client whose request has been    *)
(* answered finds it saved: with nothing under way and no failed SET, a     *)
(* restart restores what is in memory, and a deleted webhook stays deleted. *)
THEOREM SerialRequestsAreKept ==
    ASSUME NEW only, Procs = {only}
    PROVE  Spec => []RequestsAreKept
<1>1. Init => PlaceInv /\ SerialInv
  BY PlaceInvInit, SerialInit
<1>2. PlaceInv /\ SerialInv /\ [Next]_vars => PlaceInv' /\ SerialInv'
  BY PlaceInvNext, SerialNext
<1>3. SerialInv => RequestsAreKept
  <2> SUFFICES ASSUME SerialInv, Quiet, faults = 0
               PROVE  /\ savedHook = hook /\ savedRows = rows
                      /\ gone => hook = "none" /\ rows = NoRows
    BY DEF RequestsAreKept, QuietMeansSaved, DeletedIsGone
  <2>1. only \in Procs
    OBVIOUS
  <2> QED BY <2>1 DEF SerialInv, Quiet
<1> QED BY <1>1, <1>2, <1>3, PTL DEF Spec

=============================================================================
