----------------------------- MODULE HybridClock -----------------------------
(***************************************************************************)
(* The hybrid logical clocks of mnemo-core's sync module: every node has a *)
(* wall clock that may jump forwards and backwards, and issues timestamps  *)
(* with now() and, for a timestamp it receives, with receive().            *)
(* Timestamps travel between nodes in any order and any number of times.   *)
(***************************************************************************)
EXTENDS SyncNodes

CONSTANTS
    Rank,         \* their order as strings
    MaxWall,      \* bound: wall clocks stay within 0 .. MaxWall
    MaxCounter    \* bound: the counter, a u32, does not reach its limit

ASSUME RankAssumption ==
    /\ Rank \in [Nodes -> Nat]
    /\ \A m, n \in Nodes : Rank[m] = Rank[n] => m = n
ASSUME ClockBoundsAssumption == MaxWall \in Nat /\ MaxCounter \in Nat

VARIABLES
    wall,     \* wall[n]: what Utc::now() returns on n
    last,     \* last[n]: last_wall_ms of n's clock
    counter,  \* counter[n]: its counter
    issued,   \* the timestamps returned so far
    before    \* history: <<s, t>> when s is in the causal past of t

clockVars == <<wall, last, counter, issued, before>>

Stamp == [wall : 0 .. MaxWall, counter : 0 .. MaxCounter, node : Nodes]

(* HlcTimestamp::cmp: wall clock, then counter, then node id. *)
Less(s, t) ==
    \/ s.wall < t.wall
    \/ s.wall = t.wall /\ s.counter < t.counter
    \/ s.wall = t.wall /\ s.counter = t.counter /\ Rank[s.node] < Rank[t.node]

(* The timestamp that n's clock stands at. *)
At(n) == [wall |-> last[n], counter |-> counter[n], node |-> n]

(* In particular, no clock runs ahead of every wall clock. *)
ClockTypeOK ==
    /\ wall \in [Nodes -> 0 .. MaxWall]
    /\ last \in [Nodes -> 0 .. MaxWall]
    /\ counter \in [Nodes -> 0 .. MaxCounter]
    /\ issued \subseteq Stamp
    /\ before \subseteq issued \X issued

(* HybridClock::new on every node. *)
ClockInit ==
    /\ wall \in [Nodes -> 0 .. MaxWall]
    /\ last = [n \in Nodes |-> 0]
    /\ counter = [n \in Nodes |-> 0]
    /\ issued = {}
    /\ before = {}

(* The operating system moves n's wall clock, in either direction. *)
WallClock(n) ==
    /\ \E v \in 0 .. MaxWall : wall' = [wall EXCEPT ![n] = v]
    /\ UNCHANGED <<last, counter, issued, before>>

Past(t) == {s \in issued : <<s, t>> \in before}

(* n's clock moves to (w, c) and the new timestamp is returned.  Its causal *)
(* past holds the causes, n's previous timestamp and their pasts.           *)
Issue(n, w, c, causes) ==
    LET s     == [wall |-> w, counter |-> c, node |-> n]
        roots == (causes \cup {At(n)}) \cap issued
    IN  /\ c <= MaxCounter
        /\ last' = [last EXCEPT ![n] = w]
        /\ counter' = [counter EXCEPT ![n] = c]
        /\ issued' = issued \cup {s}
        /\ before' = before \cup {<<r, s>> : r \in roots \cup UNION {Past(r) : r \in roots}}
        /\ UNCHANGED wall

(* Mutant: the wall clock is taken whatever it says. *)
NowUnguarded(n) == Issue(n, wall[n], IF wall[n] = last[n] THEN counter[n] + 1 ELSE 0, {})

(* Mutant: a wall clock that stands still is counted in milliseconds. *)
NowAhead(n) ==
    \/ wall[n] > last[n] /\ Issue(n, wall[n], 0, {})
    \/ wall[n] <= last[n] /\ Issue(n, last[n] + 1, 0, {})

Now(n) ==
    \/ wall[n] > last[n] /\ Issue(n, wall[n], 0, {})
    \/ wall[n] <= last[n] /\ Issue(n, last[n], counter[n] + 1, {})

(* Mutant: the counter of an equal remote timestamp is not looked at. *)
ReceiveOwnCounter(n, t) ==
    \/ /\ wall[n] > last[n] /\ wall[n] > t.wall
       /\ Issue(n, wall[n], 0, {t})
    \/ /\ ~(wall[n] > last[n] /\ wall[n] > t.wall) /\ t.wall > last[n]
       /\ Issue(n, t.wall, t.counter + 1, {t})
    \/ /\ ~(wall[n] > last[n] /\ wall[n] > t.wall) /\ last[n] >= t.wall
       /\ Issue(n, last[n], counter[n] + 1, {t})

Receive(n, t) ==
    \/ /\ wall[n] > last[n] /\ wall[n] > t.wall
       /\ Issue(n, wall[n], 0, {t})
    \/ /\ ~(wall[n] > last[n] /\ wall[n] > t.wall) /\ t.wall > last[n]
       /\ Issue(n, t.wall, t.counter + 1, {t})
    \/ /\ ~(wall[n] > last[n] /\ wall[n] > t.wall) /\ last[n] > t.wall
       /\ Issue(n, last[n], counter[n] + 1, {t})
    \/ /\ ~(wall[n] > last[n] /\ wall[n] > t.wall) /\ last[n] = t.wall
       /\ Issue(n, last[n], Larger(counter[n], t.counter) + 1, {t})

ClockNext ==
    \E n \in Nodes :
        \/ WallClock(n)
        \/ Now(n)
        \/ \E t \in issued : Receive(n, t)

ClockSpec == ClockInit /\ [][ClockNext]_clockVars

-----------------------------------------------------------------------------
(* "Monotonically increasing even if wall clock goes backward": a clock     *)
(* that moves moves up.                                                     *)
ClocksIncrease == [][\A n \in Nodes : At(n)' # At(n) => Less(At(n), At(n)')]_clockVars

(* The causal order is a part of the timestamp order: whatever happened     *)
(* before a timestamp was issued, on its node or on those it heard from,    *)
(* has a smaller timestamp.                                                 *)
CausalOrder == \A p \in before : Less(p[1], p[2])

(* Timestamps are unique: a timestamp that was returned is never returned   *)
(* again, so last-writer-wins has no ties.                                  *)
StampsUnique == [][last' # last \/ counter' # counter => \E s \in issued' : s \notin issued]_clockVars

=============================================================================
