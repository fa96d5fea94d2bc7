-------------------------- MODULE ReplicatedCounter --------------------------
(***************************************************************************)
(* GCounter and VectorClock of mnemo-core's sync module: every node counts *)
(* in its own slot and ticks its own clock, and nodes exchange snapshots   *)
(* that may be lost, duplicated and delivered in any order.                *)
(***************************************************************************)
EXTENDS SyncNodes, FiniteSetsExt, Functions

CONSTANTS
    MaxOps,      \* bound: increments in a behaviour
    MaxAmount,   \* bound: the largest increment
    MaxCounterSent      \* bound: snapshots sent in a behaviour

ASSUME CounterAssumption == MaxOps \in Nat /\ MaxAmount \in Nat /\ MaxCounterSent \in Nat

VARIABLES
    counts,   \* counts[n][m]: slot of m in n's counter (0: no entry)
    clock,    \* clock[n][m]: entry of m in n's vector clock (0: no entry)
    past,     \* history: the increments that n's state includes
    counterSent      \* snapshots on the network, kept for duplicates

counterVars == <<counts, clock, past, counterSent>>

Op == [node : Nodes, seq : 1 .. MaxOps, amount : 0 .. MaxAmount]

Ops == UNION {past[n] : n \in Nodes}

CounterTypeOK ==
    /\ counts \in [Nodes -> [Nodes -> 0 .. MaxOps * MaxAmount]]
    /\ clock \in [Nodes -> [Nodes -> 0 .. MaxOps]]
    /\ \A n \in Nodes : past[n] \subseteq Op

Zero == [m \in Nodes |-> 0]

CounterInit ==
    /\ counts = [n \in Nodes |-> Zero]
    /\ clock = [n \in Nodes |-> Zero]
    /\ past = [n \in Nodes |-> {}]
    /\ counterSent = {}

-----------------------------------------------------------------------------
(* GCounter::increment_by with VectorClock::increment. *)
Increment(n, amount) ==
    /\ Cardinality(Ops) < MaxOps
    /\ counts' = [counts EXCEPT ![n][n] = @ + amount]
    /\ clock' = [clock EXCEPT ![n][n] = @ + 1]
    /\ past' = [past EXCEPT ![n] = @ \cup {[node |-> n, seq |-> clock[n][n] + 1, amount |-> amount]}]
    /\ UNCHANGED counterSent

(* A node puts its state into an envelope. *)
SendCounter(n) ==
    /\ Cardinality(counterSent) < MaxCounterSent
    /\ counterSent' = counterSent \cup {[counts |-> counts[n], clock |-> clock[n], past |-> past[n]]}
    /\ UNCHANGED <<counts, clock, past>>

(* Mutant: slots are added up. *)
PointwiseSum(f, g) == [m \in Nodes |-> f[m] + g[m]]

(* GCounter::merge and VectorClock::merge: pointwise maximum. *)
PointwiseMax(f, g) == [m \in Nodes |-> Larger(f[m], g[m])]

MergeCounter(n, s) ==
    /\ counts' = [counts EXCEPT ![n] = PointwiseMax(@, s.counts)]
    /\ clock' = [clock EXCEPT ![n] = PointwiseMax(@, s.clock)]
    /\ past' = [past EXCEPT ![n] = @ \cup s.past]
    /\ UNCHANGED counterSent

CounterNext ==
    \E n \in Nodes :
        \/ \E a \in 0 .. MaxAmount : Increment(n, a)
        \/ SendCounter(n)
        \/ \E s \in counterSent : MergeCounter(n, s)

CounterSpec == CounterInit /\ [][CounterNext]_counterVars

-----------------------------------------------------------------------------
(* Mutant: is_before_or_equal asks for one smaller entry only. *)
BeforeOrEqualSome(f, g) == f = g \/ \E m \in Nodes : f[m] < g[m]

(* VectorClock::is_before_or_equal. *)
BeforeOrEqual(f, g) == \A m \in Nodes : f[m] <= g[m]

(* GCounter::value. *)
Value(n) == FoldFunctionOnSet(+, 0, counts[n], Nodes)

(* No increment is lost and none is counted twice, however often and in     *)
(* whatever order snapshots are merged: the value is the sum of the         *)
(* increments that reached the node.                                        *)
ValueIsExact == \A n \in Nodes : Value(n) = MapThenSumSet(LAMBDA o : o.amount, past[n])

(* The vector clock decides causality: one node's clock is before or equal  *)
(* to another's exactly when the other's state includes all of its own.     *)
ClockIsCausality ==
    \A m, n \in Nodes : BeforeOrEqual(clock[m], clock[n]) <=> past[m] \subseteq past[n]

(* The two per-node counters, of increments and of events, stay exact under *)
(* merges that come late, twice or never.                                   *)
CountersAreExact == ValueIsExact /\ ClockIsCausality

=============================================================================
