--------------------------- MODULE StoreRequests ---------------------------
(***************************************************************************)
(* Requests over a store without transactions.  A handler of the server    *)
(* awaits one Redis command after the other; the commands of other         *)
(* requests run between them.  A request in progress is the list of the    *)
(* commands it has still to send and the local variables of its handler:   *)
(* each action of the modules that extend this one sends one command, and  *)
(* a command that fails ends the request with what it stored before still  *)
(* in the store (the handlers return the error of the first failing call), *)
(* unless the handler catches the error further on.                        *)
(***************************************************************************)
EXTENDS Integers, Sequences, FiniteSets

CONSTANTS Requests,       \* requests that may be in progress at the same time
          MaxRequests,    \* bound: requests started
          MaxOverlapping, \* bound: requests of behaviours where requests overlap
          MaxCommandFaults, \* bound: Redis commands that fail
          MaxOverlappingFaults \* bound: those of behaviours where requests overlap

ASSUME RequestAssumption ==
    /\ MaxRequests \in Nat /\ MaxOverlapping \in Nat
    /\ MaxCommandFaults \in Nat /\ MaxOverlappingFaults \in Nat

VARIABLES request,  \* the requests in progress
          tally     \* requests started, commands failed, did requests overlap

requestVars == <<request, tally>>

NoLocals == [none |-> TRUE]
Idle == [todo |-> <<>>, loc |-> NoLocals]

InitRequests ==
    /\ request = [r \in Requests |-> Idle]
    /\ tally = [started |-> 0, faults |-> 0, overlapped |-> FALSE]

Busy == {r \in Requests : request[r].todo # <<>>}

\* A command, the key or object it is about, and a parameter.
Cmd(do, id, how) == <<[do |-> do, id |-> id, how |-> how]>>

At(r, do) == r \in Busy /\ Head(request[r].todo).do = do
This(r)   == Head(request[r].todo)
Rest(r)   == Tail(request[r].todo)
Loc(r)    == request[r].loc

\* The request goes on with these commands and locals, or is over.
Continue(r, todo, loc) ==
    request' = [request EXCEPT ![r] =
                  IF todo = <<>> THEN Idle ELSE [todo |-> todo, loc |-> loc]]

Sent(r, loc) == Continue(r, Rest(r), loc) /\ UNCHANGED tally
Done(r)      == Sent(r, Loc(r))
Insert(r, more, loc) == Continue(r, more \o Rest(r), loc) /\ UNCHANGED tally

\* After an error the handler returns, or goes on where the error is caught.
Unwound(todo) ==
    LET caught == {i \in DOMAIN todo : todo[i].do = "catch"} IN
    IF caught = {} THEN <<>>
    ELSE LET first == CHOOSE i \in caught : \A j \in caught : i <= j IN
         <<[todo[first] EXCEPT !.how = "failed"]>> \o SubSeq(todo, first + 1, Len(todo))

Refuse(r) == Continue(r, Unwound(Rest(r)), Loc(r)) /\ UNCHANGED tally

\* A client sends a request.  Its name means nothing: it takes a free one.
Start(r, todo, loc) ==
    /\ r \notin Busy /\ r = CHOOSE q \in Requests : q \notin Busy
    /\ tally.started < MaxRequests
    /\ \/ tally.started < MaxOverlapping /\ tally.faults <= MaxOverlappingFaults
       \/ Busy = {} /\ ~tally.overlapped
    /\ Continue(r, todo, loc)
    /\ tally' = [tally EXCEPT !.started = @ + 1, !.overlapped = @ \/ Busy # {}]

MayFail == tally.faults < IF tally.overlapped THEN MaxOverlappingFaults ELSE MaxCommandFaults

\* A command fails, or the client goes away and the handler is dropped.  No
\* command is sent to catch an error.
CommandFails(r) ==
    /\ r \in Busy /\ ~At(r, "catch")
    /\ MayFail
    /\ tally' = [tally EXCEPT !.faults = @ + 1]
    /\ Continue(r, Unwound(Rest(r)), Loc(r))
=============================================================================
