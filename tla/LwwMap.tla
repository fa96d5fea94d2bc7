------------------------------- MODULE LwwMap -------------------------------
(***************************************************************************)
(* LWWMap (and, per key, LWWRegister) of mnemo-core's sync module: nodes   *)
(* set and remove keys, and exchange snapshots that may be lost,           *)
(* duplicated and delivered in any order.                                  *)
(*                                                                         *)
(* Timestamps come from hybrid logical clocks.  HybridClock shows that no  *)
(* two are equal and that their order is total, so here they are numbers   *)
(* that are used once; nothing relates them to the order of the writes.    *)
(***************************************************************************)
EXTENDS SyncNodes, FiniteSets

CONSTANTS
    Keys,
    Values,
    Removed,    \* the value of a tombstone: Option::None
    MaxStamp,   \* bound: timestamps are 1 .. MaxStamp
    MaxMapSent  \* bound: snapshots sent in a behaviour

ASSUME RemovedAssumption == Removed \notin Values
ASSUME MapBoundsAssumption == MaxStamp \in Nat /\ MaxMapSent \in Nat

VARIABLES
    entries,   \* entries[n][k]: n's entry for k, NoEntry if there is none
    written,      \* history: written[n]: the writes that reached n
    mapSent       \* snapshots on the network, kept for duplicates

mapVars == <<entries, written, mapSent>>

Entry   == [value : Values \cup {Removed}, stamp : 1 .. MaxStamp]
NoEntry == [value |-> Removed, stamp |-> 0]
Write   == [key : Keys, entry : Entry]

EntryMap == [Keys -> Entry \cup {NoEntry}]
Snapshot == [entries : EntryMap, written : SUBSET Write]

MapTypeOK ==
    /\ entries \in [Nodes -> EntryMap]
    /\ written \in [Nodes -> SUBSET Write]
    /\ mapSent \subseteq Snapshot

MapInit ==
    /\ entries = [n \in Nodes |-> [k \in Keys |-> NoEntry]]
    /\ written = [n \in Nodes |-> {}]
    /\ mapSent = {}

-----------------------------------------------------------------------------
(* Mutant: the last write to arrive wins, whatever its timestamp. *)
NewerAlways(old, new) == new

(* Mutant: a tombstone never gives way. *)
NewerUnlessRemoved(old, new) ==
    IF old.stamp >= new.stamp \/ (old.value = Removed /\ old.stamp > 0) THEN old ELSE new

(* The entry that stays: the old one unless the new timestamp is greater. *)
Newer(old, new) == IF old.stamp >= new.stamp THEN old ELSE new

Unused(t) == \A n \in Nodes : \A w \in written[n] : w.entry.stamp # t

(* LWWMap::set, and remove when v is Removed. *)
PutEntry(n, k, v, t) ==
    LET e == [value |-> v, stamp |-> t]
    IN  /\ Unused(t)
        /\ entries' = [entries EXCEPT ![n][k] = Newer(@, e)]
        /\ written' = [written EXCEPT ![n] = @ \cup {[key |-> k, entry |-> e]}]
        /\ UNCHANGED mapSent

(* A node puts its state into an envelope. *)
SendMap(n) ==
    /\ Cardinality(mapSent) < MaxMapSent
    /\ mapSent' = mapSent \cup {[entries |-> entries[n], written |-> written[n]]}
    /\ UNCHANGED <<entries, written>>

(* LWWMap::merge.  A key the other side does not have is left alone. *)
MergeMap(n, s) ==
    /\ entries' = [entries EXCEPT ![n] = [k \in Keys |-> Newer(entries[n][k], s.entries[k])]]
    /\ written' = [written EXCEPT ![n] = @ \cup s.written]
    /\ UNCHANGED mapSent

MapNext ==
    \E n \in Nodes :
        \/ \E k \in Keys, v \in Values \cup {Removed}, t \in 1 .. MaxStamp : PutEntry(n, k, v, t)
        \/ SendMap(n)
        \/ \E s \in mapSent : MergeMap(n, s)

MapSpec == MapInit /\ [][MapNext]_mapVars

-----------------------------------------------------------------------------
(* e is what the last writer in the set W wrote to k. *)
IsLast(e, k, W) ==
    /\ \A w \in W : w.key = k => w.entry.stamp <= e.stamp
    /\ e = NoEntry \/ [key |-> k, entry |-> e] \in W

(* Last writer wins: a node's entry for a key is the write with the highest *)
(* timestamp of all that reached the node, by itself or through others, in  *)
(* whatever order; in particular a removed key does not come back.          *)
LastWriterWins == \A n \in Nodes, k \in Keys : IsLast(entries[n][k], k, written[n])

(* "Converging to identical state regardless of order": nodes that the same *)
(* writes have reached hold the same map.                                   *)
MapsConverged == \A m, n \in Nodes : written[m] = written[n] => entries[m] = entries[n]

(* An entry is only ever replaced by one with a greater timestamp. *)
NeverGoesBack ==
    [][\A n \in Nodes, k \in Keys :
          entries'[n][k] # entries[n][k] => entries'[n][k].stamp > entries[n][k].stamp]_mapVars

=============================================================================
