----------------------------- MODULE SyncProofs -----------------------------
(***************************************************************************)
(* Proofs about mnemo-core's sync module, for any number of nodes, keys,   *)
(* values, operations and messages and any bounds: the timestamps of the   *)
(* hybrid logical clock respect causality and are unique, the last-writer- *)
(* wins map converges, the observed-remove set loses no add, and the       *)
(* vector clock decides causality.                                         *)
(***************************************************************************)
EXTENDS HybridClock, LwwMap, OrSet, ReplicatedCounter, FiniteSetTheorems, TLAPS

-----------------------------------------------------------------------------
(* The hybrid logical clock.                                                *)

(* A node's clock is at or above every timestamp that it has issued.       *)
ClockIsAhead == \A s \in issued : s = At(s.node) \/ Less(s, At(s.node))

ClockInv == ClockTypeOK /\ ClockIsAhead /\ CausalOrder

(* The step of n's clock to <<w, c>> is upwards, past all the causes.      *)
Upwards(n, w, c, causes) ==
    /\ Less(At(n), [wall |-> w, counter |-> c, node |-> n])
    /\ \A t \in causes : Less(t, [wall |-> w, counter |-> c, node |-> n])

(* HlcTimestamp::cmp is transitive. *)
LEMMA LessTransitive ==
    ASSUME NEW s \in Stamp, NEW t \in Stamp, NEW u \in Stamp, Less(s, t), Less(t, u)
    PROVE  Less(s, u)
<1>1. /\ s.wall \in Int /\ t.wall \in Int /\ u.wall \in Int
      /\ s.counter \in Int /\ t.counter \in Int /\ u.counter \in Int
      /\ s.node \in Nodes /\ t.node \in Nodes /\ u.node \in Nodes
  BY ClockBoundsAssumption DEF Stamp
<1>2. Rank[s.node] \in Int /\ Rank[t.node] \in Int /\ Rank[u.node] \in Int
  BY <1>1, RankAssumption
<1> QED BY <1>1, <1>2 DEF Less

(* No timestamp is below itself. *)
LEMMA LessIrreflexive ==
    ASSUME NEW s \in Stamp
    PROVE  ~Less(s, s)
<1>1. s.wall \in Int /\ s.counter \in Int /\ s.node \in Nodes
  BY ClockBoundsAssumption DEF Stamp
<1>2. Rank[s.node] \in Int
  BY <1>1, RankAssumption
<1> QED BY <1>1, <1>2 DEF Less

(* Where a clock stands is a timestamp. *)
LEMMA AtType ==
    ASSUME ClockTypeOK, NEW n \in Nodes
    PROVE  At(n) \in Stamp
BY DEF ClockTypeOK, At, Stamp

(* A clock that issues a timestamp upwards keeps the invariant, and the     *)
(* timestamp is new.                                                        *)
LEMMA IssueKeeps ==
    ASSUME ClockInv, NEW n \in Nodes, NEW w \in 0 .. MaxWall, NEW c \in Nat,
           NEW causes, Issue(n, w, c, causes), Upwards(n, w, c, causes)
    PROVE  /\ ClockInv'
           /\ \A m \in Nodes : At(m)' # At(m) => Less(At(m), At(m)')
           /\ \E s \in issued' : s \notin issued
<1> DEFINE s     == [wall |-> w, counter |-> c, node |-> n]
           roots == (causes \cup {At(n)}) \cap issued
           new   == {<<r, s>> : r \in roots \cup UNION {Past(r) : r \in roots}}
<1>0. /\ c <= MaxCounter
      /\ last' = [last EXCEPT ![n] = w]
      /\ counter' = [counter EXCEPT ![n] = c]
      /\ issued' = issued \cup {s}
      /\ before' = before \cup new
      /\ wall' = wall
  BY DEF Issue
<1>1. c \in 0 .. MaxCounter
  BY <1>0, ClockBoundsAssumption
<1>2. s \in Stamp /\ s.node = n
  BY <1>1 DEF Stamp
<1>3. At(n)' = s
  BY <1>0 DEF At, ClockInv, ClockTypeOK
<1>4. \A m \in Nodes \ {n} : At(m)' = At(m)
  BY <1>0 DEF At, ClockInv, ClockTypeOK
<1>5. At(n) \in Stamp
  BY AtType DEF ClockInv
<1>6. Less(At(n), s)
  BY DEF Upwards
<1>7. issued \subseteq Stamp
  BY DEF ClockInv, ClockTypeOK
<1>8. \A r \in roots : r \in issued /\ r \in Stamp /\ Less(r, s)
  BY <1>6, <1>7 DEF Upwards
<1>9. \A r \in roots : \A q \in Past(r) : q \in issued /\ q \in Stamp /\ Less(q, s)
  <2> SUFFICES ASSUME NEW r \in roots, NEW q \in Past(r)
               PROVE  q \in issued /\ q \in Stamp /\ Less(q, s)
    OBVIOUS
  <2>1. q \in issued /\ <<q, r>> \in before
    BY DEF Past
  <2>2. Less(q, r)
    BY <2>1 DEF ClockInv, CausalOrder
  <2> HIDE DEF roots, s
  <2> QED BY <1>2, <1>7, <1>8, <2>1, <2>2, LessTransitive
<1>10. \A p \in new : p[1] \in issued /\ p[2] = s /\ Less(p[1], p[2]) /\ p = <<p[1], p[2]>>
  <2> SUFFICES ASSUME NEW r \in roots \cup UNION {Past(q) : q \in roots}
               PROVE  r \in issued /\ Less(r, s)
    OBVIOUS
  <2> HIDE DEF roots, s
  <2> QED BY <1>8, <1>9
<1>11. ClockTypeOK'
  <2>1. wall' \in [Nodes -> 0 .. MaxWall]
    BY <1>0 DEF ClockInv, ClockTypeOK
  <2>2. last' \in [Nodes -> 0 .. MaxWall] /\ counter' \in [Nodes -> 0 .. MaxCounter]
    BY <1>0, <1>1 DEF ClockInv, ClockTypeOK
  <2>3. issued' \subseteq Stamp
    BY <1>0, <1>2, <1>7
  <2>4. new \subseteq issued' \X issued'
    <3> HIDE DEF new, s
    <3> QED BY <1>0, <1>10
  <2>5. before \subseteq issued' \X issued'
    <3> HIDE DEF s
    <3> QED BY <1>0 DEF ClockInv, ClockTypeOK
  <2> HIDE DEF new, s
  <2> QED BY <1>0, <2>1, <2>2, <2>3, <2>4, <2>5 DEF ClockTypeOK
<1>12. ClockIsAhead'
  <2> SUFFICES ASSUME NEW t \in issued'
               PROVE  t = At(t.node)' \/ Less(t, At(t.node)')
    BY DEF ClockIsAhead, At, Less
  <2>1. CASE t = s
    BY <2>1, <1>2, <1>3
  <2>2. CASE t \in issued /\ t.node # n
    <3>1. t.node \in Nodes
      BY <2>2, <1>7 DEF Stamp
    <3>2. At(t.node)' = At(t.node)
      BY <2>2, <3>1, <1>4
    <3> QED BY <2>2, <3>2 DEF ClockInv, ClockIsAhead
  <2>3. CASE t \in issued /\ t.node = n
    <3>1. t = At(n) \/ Less(t, At(n))
      BY <2>3 DEF ClockInv, ClockIsAhead
    <3> HIDE DEF s
    <3>2. Less(t, s)
      BY <2>3, <3>1, <1>2, <1>5, <1>6, <1>7, LessTransitive
    <3> QED BY <2>3, <3>2, <1>3
  <2> HIDE DEF s
  <2> QED BY <1>0, <2>1, <2>2, <2>3
<1>13. CausalOrder'
  <2> HIDE DEF new
  <2> QED BY <1>0, <1>10 DEF ClockInv, CausalOrder, Less
<1>14. \A m \in Nodes : At(m)' # At(m) => Less(At(m), At(m)')
  <2> HIDE DEF s
  <2> QED BY <1>3, <1>4, <1>6
<1>15. s \notin issued
  <2> SUFFICES ASSUME s \in issued PROVE FALSE
    OBVIOUS
  <2>1. s = At(n) \/ Less(s, At(n))
    BY <1>2 DEF ClockInv, ClockIsAhead
  <2> HIDE DEF s
  <2>2. Less(s, s)
    BY <2>1, <1>2, <1>5, <1>6, LessTransitive
  <2> QED BY <2>2, <1>2, LessIrreflexive
<1> HIDE DEF s
<1> QED BY <1>0, <1>11, <1>12, <1>13, <1>14, <1>15 DEF ClockInv

(* now() steps upwards, whatever the wall clock says. *)
LEMMA NowUpwards ==
    ASSUME ClockInv, NEW n \in Nodes, Now(n)
    PROVE  \E w \in 0 .. MaxWall, c \in Nat : Issue(n, w, c, {}) /\ Upwards(n, w, c, {})
<1>1. /\ wall[n] \in 0 .. MaxWall /\ last[n] \in 0 .. MaxWall
      /\ counter[n] \in Nat /\ counter[n] + 1 \in Nat
  BY ClockBoundsAssumption DEF ClockInv, ClockTypeOK
<1>2. CASE wall[n] > last[n] /\ Issue(n, wall[n], 0, {})
  <2>1. Upwards(n, wall[n], 0, {})
    BY <1>1, <1>2, ClockBoundsAssumption DEF Upwards, Less, At
  <2> QED BY <1>1, <1>2, <2>1
<1>3. CASE wall[n] <= last[n] /\ Issue(n, last[n], counter[n] + 1, {})
  <2>1. Upwards(n, last[n], counter[n] + 1, {})
    BY <1>1, <1>3, ClockBoundsAssumption DEF Upwards, Less, At
  <2> QED BY <1>1, <1>3, <2>1
<1> QED BY <1>2, <1>3 DEF Now

(* receive(t) steps upwards, past t. *)
LEMMA ReceiveUpwards ==
    ASSUME ClockInv, NEW n \in Nodes, NEW t \in issued, Receive(n, t)
    PROVE  \E w \in 0 .. MaxWall, c \in Nat : Issue(n, w, c, {t}) /\ Upwards(n, w, c, {t})
<1>1. /\ wall[n] \in 0 .. MaxWall /\ last[n] \in 0 .. MaxWall
      /\ counter[n] \in Nat /\ counter[n] + 1 \in Nat
  BY ClockBoundsAssumption DEF ClockInv, ClockTypeOK
<1>2. t.wall \in 0 .. MaxWall /\ t.counter \in Nat /\ t.counter + 1 \in Nat
  BY ClockBoundsAssumption DEF ClockInv, ClockTypeOK, Stamp
<1>3. CASE wall[n] > last[n] /\ wall[n] > t.wall /\ Issue(n, wall[n], 0, {t})
  <2>1. Upwards(n, wall[n], 0, {t})
    BY <1>1, <1>2, <1>3, ClockBoundsAssumption DEF Upwards, Less, At
  <2> QED BY <1>1, <1>3, <2>1
<1>4. CASE t.wall > last[n] /\ Issue(n, t.wall, t.counter + 1, {t})
  <2>1. Upwards(n, t.wall, t.counter + 1, {t})
    BY <1>1, <1>2, <1>4, ClockBoundsAssumption DEF Upwards, Less, At
  <2> QED BY <1>2, <1>4, <2>1
<1>5. CASE last[n] > t.wall /\ Issue(n, last[n], counter[n] + 1, {t})
  <2>1. Upwards(n, last[n], counter[n] + 1, {t})
    BY <1>1, <1>2, <1>5, ClockBoundsAssumption DEF Upwards, Less, At
  <2> QED BY <1>1, <1>5, <2>1
<1>6. CASE last[n] = t.wall /\ Issue(n, last[n], Larger(counter[n], t.counter) + 1, {t})
  <2>1. Larger(counter[n], t.counter) + 1 \in Nat
    BY <1>1, <1>2 DEF Larger
  <2>2. Upwards(n, last[n], Larger(counter[n], t.counter) + 1, {t})
    BY <1>1, <1>2, <1>6, ClockBoundsAssumption DEF Upwards, Less, At, Larger
  <2> QED BY <1>1, <1>6, <2>1, <2>2
<1> QED BY <1>3, <1>4, <1>5, <1>6 DEF Receive

(* Every step keeps the invariant; one that moves a clock moves it up and  *)
(* returns a new timestamp.                                                *)
LEMMA ClockStep ==
    ASSUME ClockInv, [ClockNext]_clockVars
    PROVE  /\ ClockInv'
           /\ \A m \in Nodes : At(m)' # At(m) => Less(At(m), At(m)')
           /\ last' # last \/ counter' # counter => \E s \in issued' : s \notin issued
<1>1. CASE UNCHANGED clockVars
  BY <1>1 DEF ClockInv, ClockTypeOK, ClockIsAhead, CausalOrder, At, Less, clockVars
<1>2. ASSUME NEW n \in Nodes, WallClock(n)
      PROVE  /\ ClockInv'
             /\ UNCHANGED <<last, counter>>
  <2>1. UNCHANGED <<last, counter, issued, before>>
    BY <1>2 DEF WallClock
  <2>2. wall' \in [Nodes -> 0 .. MaxWall]
    BY <1>2 DEF WallClock, ClockInv, ClockTypeOK
  <2> QED BY <2>1, <2>2 DEF ClockInv, ClockTypeOK, ClockIsAhead, CausalOrder, At, Less
<1>3. ASSUME NEW n \in Nodes, Now(n)
      PROVE  /\ ClockInv'
             /\ \A m \in Nodes : At(m)' # At(m) => Less(At(m), At(m)')
             /\ \E s \in issued' : s \notin issued
  <2>1. PICK w \in 0 .. MaxWall, c \in Nat : Issue(n, w, c, {}) /\ Upwards(n, w, c, {})
    BY <1>3, NowUpwards
  <2> QED BY <2>1, IssueKeeps
<1>4. ASSUME NEW n \in Nodes, NEW t \in issued, Receive(n, t)
      PROVE  /\ ClockInv'
             /\ \A m \in Nodes : At(m)' # At(m) => Less(At(m), At(m)')
             /\ \E s \in issued' : s \notin issued
  <2>1. PICK w \in 0 .. MaxWall, c \in Nat : Issue(n, w, c, {t}) /\ Upwards(n, w, c, {t})
    BY <1>4, ReceiveUpwards
  <2> QED BY <2>1, IssueKeeps
<1>5. ASSUME NEW n \in Nodes, WallClock(n)
      PROVE  \A m \in Nodes : At(m)' = At(m)
  BY <1>2, <1>5 DEF At
<1> QED BY <1>1, <1>2, <1>3, <1>4, <1>5 DEF ClockNext, clockVars, At

LEMMA ClockInvInit == ClockInit => ClockInv
BY ClockBoundsAssumption DEF ClockInit, ClockInv, ClockTypeOK, ClockIsAhead, CausalOrder

LEMMA ClockInvariant == ClockSpec => []ClockInv
<1>1. ClockInv /\ [ClockNext]_clockVars => ClockInv'
  BY ClockStep
<1> QED BY <1>1, ClockInvInit, PTL DEF ClockSpec

-----------------------------------------------------------------------------
(* No clock runs ahead of every wall clock, and all state is of its type. *)
THEOREM ClockTypeCorrect == ClockSpec => []ClockTypeOK
<1>1. ClockInv => ClockTypeOK
  BY DEF ClockInv
<1> QED BY <1>1, ClockInvariant, PTL

(* receive() returns "a new local timestamp that is causally after the     *)
(* remote one": causality is part of the timestamp order.                  *)
THEOREM CausalityIsRespected == ClockSpec => []CausalOrder
<1>1. ClockInv => CausalOrder
  BY DEF ClockInv
<1> QED BY <1>1, ClockInvariant, PTL

(* now() and receive() are "monotonically increasing even if wall clock    *)
(* goes backward".                                                         *)
THEOREM ClocksAreMonotonic == ClockSpec => ClocksIncrease
<1>1. ClockInv /\ [ClockNext]_clockVars => [\A n \in Nodes : At(n)' # At(n) => Less(At(n), At(n)')]_clockVars
  BY ClockStep
<1> QED BY <1>1, ClockInvariant, PTL DEF ClockSpec, ClocksIncrease

(* No timestamp is returned twice, by one node or by two. *)
THEOREM StampsAreUnique == ClockSpec => StampsUnique
<1>1. ClockInv /\ [ClockNext]_clockVars =>
         [last' # last \/ counter' # counter => \E s \in issued' : s \notin issued]_clockVars
  BY ClockStep
<1> QED BY <1>1, ClockInvariant, PTL DEF ClockSpec, StampsUnique

-----------------------------------------------------------------------------
(* The last-writer-wins map.                                                *)

(* Every snapshot is, like every node, up to date with the writes in it. *)
SnapshotsAreLast ==
    \A s \in mapSent : \A k \in Keys : IsLast(s.entries[k], k, s.written)

(* The writes of a snapshot are known to some node, so a timestamp that no *)
(* node knows is in no snapshot either.                                    *)
SnapshotsAreKnown ==
    \A s \in mapSent : \A w \in s.written : \E n \in Nodes : w \in written[n]

(* A timestamp belongs to one write. *)
StampsOnce ==
    \A m, n \in Nodes : \A v \in written[m], w \in written[n] :
        v.entry.stamp = w.entry.stamp => v = w

MapInv == MapTypeOK /\ LastWriterWins /\ SnapshotsAreLast /\ SnapshotsAreKnown /\ StampsOnce

LEMMA MapInvInit == MapInit => MapInv
BY DEF MapInit, MapInv, MapTypeOK, EntryMap, LastWriterWins, IsLast, SnapshotsAreLast,
       SnapshotsAreKnown, StampsOnce

(* The newer of two entries that are last in V and in W is last in both. *)
LEMMA NewerIsLast ==
    ASSUME NEW d \in Entry \cup {NoEntry}, NEW e \in Entry \cup {NoEntry}, NEW k \in Keys,
           NEW V \in SUBSET Write, NEW W \in SUBSET Write, IsLast(d, k, V), IsLast(e, k, W)
    PROVE  Newer(d, e) \in Entry \cup {NoEntry} /\ IsLast(Newer(d, e), k, V \cup W)
<1>1. d.stamp \in Int /\ e.stamp \in Int
  BY MapBoundsAssumption DEF Entry, NoEntry
<1>2. \A w \in V \cup W : w.entry.stamp \in Int
  BY MapBoundsAssumption DEF Write, Entry
<1>3. CASE d.stamp >= e.stamp
  <2>1. Newer(d, e) = d
    BY <1>3 DEF Newer
  <2> QED BY <1>1, <1>2, <1>3, <2>1 DEF IsLast
<1>4. CASE ~(d.stamp >= e.stamp)
  <2>1. Newer(d, e) = e
    BY <1>4 DEF Newer
  <2> QED BY <1>1, <1>2, <1>4, <2>1 DEF IsLast
<1> QED BY <1>3, <1>4

(* set and remove keep the invariant. *)
LEMMA PutKeeps ==
    ASSUME MapInv, NEW n \in Nodes, NEW k \in Keys, NEW v \in Values \cup {Removed},
           NEW t \in 1 .. MaxStamp, PutEntry(n, k, v, t)
    PROVE  MapInv'
<1> DEFINE e == [value |-> v, stamp |-> t]
           w == [key |-> k, entry |-> e]
<1>0. /\ Unused(t)
      /\ entries' = [entries EXCEPT ![n][k] = Newer(@, e)]
      /\ written' = [written EXCEPT ![n] = @ \cup {w}]
      /\ mapSent' = mapSent
  BY DEF PutEntry
<1>1. e \in Entry /\ w \in Write /\ w.key = k /\ w.entry = e /\ e.stamp = t
  BY DEF Entry, Write
<1>2. entries \in [Nodes -> [Keys -> Entry \cup {NoEntry}]] /\ written \in [Nodes -> SUBSET Write]
  BY DEF MapInv, MapTypeOK, EntryMap
<1>3. IsLast(e, k, {w})
  BY <1>1, MapBoundsAssumption DEF IsLast
<1>4. IsLast(entries[n][k], k, written[n])
  BY DEF MapInv, LastWriterWins
<1> HIDE DEF e, w
<1>5. /\ Newer(entries[n][k], e) \in Entry \cup {NoEntry}
      /\ IsLast(Newer(entries[n][k], e), k, written[n] \cup {w})
  <2>1. /\ entries[n][k] \in Entry \cup {NoEntry} /\ e \in Entry \cup {NoEntry}
        /\ written[n] \in SUBSET Write /\ {w} \in SUBSET Write
    BY <1>1, <1>2
  <2> QED BY <1>3, <1>4, <2>1, NewerIsLast
<1>6. MapTypeOK'
  <2>1. entries' \in [Nodes -> EntryMap]
    BY <1>0, <1>2, <1>5 DEF EntryMap
  <2>2. written' \in [Nodes -> SUBSET Write]
    BY <1>0, <1>1, <1>2
  <2> QED BY <1>0, <2>1, <2>2 DEF MapInv, MapTypeOK
<1>7. LastWriterWins'
  <2> SUFFICES ASSUME NEW m \in Nodes, NEW j \in Keys
               PROVE  IsLast(entries'[m][j], j, written'[m])
    BY DEF LastWriterWins, IsLast
  <2>1. CASE m = n /\ j = k
    BY <1>0, <1>2, <1>5, <2>1
  <2>2. CASE m = n /\ j # k
    <3>1. entries'[m][j] = entries[m][j] /\ written'[m] = written[m] \cup {w}
      BY <1>0, <1>2, <2>2
    <3>2. IsLast(entries[m][j], j, written[m])
      BY DEF MapInv, LastWriterWins
    <3> QED BY <1>1, <2>2, <3>1, <3>2 DEF IsLast
  <2>3. CASE m # n
    <3>1. entries'[m][j] = entries[m][j] /\ written'[m] = written[m]
      BY <1>0, <1>2, <2>3
    <3> QED BY <3>1 DEF MapInv, LastWriterWins
  <2> QED BY <2>1, <2>2, <2>3
<1>8. SnapshotsAreLast'
  BY <1>0 DEF MapInv, SnapshotsAreLast, IsLast
<1>9. \A m \in Nodes : written[m] \subseteq written'[m]
  BY <1>0, <1>2
<1>10. SnapshotsAreKnown'
  <2> SUFFICES ASSUME NEW s \in mapSent, NEW u \in s.written
               PROVE  \E m \in Nodes : u \in written'[m]
    BY <1>0 DEF SnapshotsAreKnown
  <2> QED BY <1>9 DEF MapInv, SnapshotsAreKnown
<1>11. \A m \in Nodes : \A u \in written'[m] : u = w \/ (u \in written[m] /\ u.entry.stamp # t)
  BY <1>0, <1>2 DEF Unused
<1>12. StampsOnce'
  BY <1>1, <1>11 DEF MapInv, StampsOnce
<1> QED BY <1>6, <1>7, <1>8, <1>10, <1>12 DEF MapInv

(* Sending a snapshot keeps it. *)
LEMMA SendKeeps ==
    ASSUME MapInv, NEW n \in Nodes, SendMap(n)
    PROVE  MapInv'
<1> DEFINE c == [entries |-> entries[n], written |-> written[n]]
<1>0. mapSent' = mapSent \cup {c} /\ entries' = entries /\ written' = written
  BY DEF SendMap
<1>1. c \in Snapshot /\ c.entries = entries[n] /\ c.written = written[n]
  BY DEF MapInv, MapTypeOK, Snapshot
<1> HIDE DEF c
<1>2. MapTypeOK'
  BY <1>0, <1>1 DEF MapInv, MapTypeOK
<1>3. LastWriterWins' /\ StampsOnce'
  BY <1>0 DEF MapInv, LastWriterWins, StampsOnce, IsLast
<1>4. \A k \in Keys : IsLast(c.entries[k], k, c.written)
  BY <1>1 DEF MapInv, LastWriterWins
<1>5. SnapshotsAreLast'
  BY <1>0, <1>4 DEF MapInv, SnapshotsAreLast, IsLast
<1>6. SnapshotsAreKnown'
  BY <1>0, <1>1 DEF MapInv, SnapshotsAreKnown
<1> QED BY <1>2, <1>3, <1>5, <1>6 DEF MapInv

(* Merging a snapshot, however old, keeps it. *)
LEMMA MergeKeeps ==
    ASSUME MapInv, NEW n \in Nodes, NEW s \in mapSent, MergeMap(n, s)
    PROVE  MapInv'
<1>0. /\ entries' = [entries EXCEPT ![n] = [k \in Keys |-> Newer(entries[n][k], s.entries[k])]]
      /\ written' = [written EXCEPT ![n] = @ \cup s.written]
      /\ mapSent' = mapSent
  BY DEF MergeMap
<1>1. entries \in [Nodes -> [Keys -> Entry \cup {NoEntry}]] /\ written \in [Nodes -> SUBSET Write]
  BY DEF MapInv, MapTypeOK, EntryMap
<1>2. s.entries \in [Keys -> Entry \cup {NoEntry}] /\ s.written \in SUBSET Write
  BY DEF MapInv, MapTypeOK, Snapshot, EntryMap
<1>3. \A k \in Keys : /\ Newer(entries[n][k], s.entries[k]) \in Entry \cup {NoEntry}
                      /\ IsLast(Newer(entries[n][k], s.entries[k]), k, written[n] \cup s.written)
  <2> SUFFICES ASSUME NEW k \in Keys
               PROVE  /\ Newer(entries[n][k], s.entries[k]) \in Entry \cup {NoEntry}
                      /\ IsLast(Newer(entries[n][k], s.entries[k]), k, written[n] \cup s.written)
    OBVIOUS
  <2>1. IsLast(entries[n][k], k, written[n]) /\ IsLast(s.entries[k], k, s.written)
    BY DEF MapInv, LastWriterWins, SnapshotsAreLast
  <2> QED BY <1>1, <1>2, <2>1, NewerIsLast
<1>4. MapTypeOK'
  <2>1. entries' \in [Nodes -> EntryMap]
    BY <1>0, <1>1, <1>3 DEF EntryMap
  <2>2. written' \in [Nodes -> SUBSET Write]
    BY <1>0, <1>1, <1>2
  <2> QED BY <1>0, <2>1, <2>2 DEF MapInv, MapTypeOK
<1>5. LastWriterWins'
  <2> SUFFICES ASSUME NEW m \in Nodes, NEW j \in Keys
               PROVE  IsLast(entries'[m][j], j, written'[m])
    BY DEF LastWriterWins, IsLast
  <2>1. CASE m = n
    BY <1>0, <1>1, <1>3, <2>1
  <2>2. CASE m # n
    <3>1. entries'[m] = entries[m] /\ written'[m] = written[m]
      BY <1>0, <1>1, <2>2
    <3> QED BY <3>1 DEF MapInv, LastWriterWins
  <2> QED BY <2>1, <2>2
<1>6. SnapshotsAreLast'
  BY <1>0 DEF MapInv, SnapshotsAreLast, IsLast
<1>7. \A m \in Nodes : written[m] \subseteq written'[m]
  BY <1>0, <1>1
<1>8. SnapshotsAreKnown'
  <2> SUFFICES ASSUME NEW r \in mapSent, NEW u \in r.written
               PROVE  \E m \in Nodes : u \in written'[m]
    BY <1>0 DEF SnapshotsAreKnown
  <2> QED BY <1>7 DEF MapInv, SnapshotsAreKnown
<1>9. \A m \in Nodes : \A u \in written'[m] : \E l \in Nodes : u \in written[l]
  BY <1>0, <1>1 DEF MapInv, SnapshotsAreKnown
<1>10. StampsOnce'
  BY <1>9 DEF MapInv, StampsOnce
<1> QED BY <1>4, <1>5, <1>6, <1>8, <1>10 DEF MapInv

LEMMA MapInvariant == MapSpec => []MapInv
<1>1. MapInv /\ [MapNext]_mapVars => MapInv'
  <2> SUFFICES ASSUME MapInv, [MapNext]_mapVars
               PROVE  MapInv'
    OBVIOUS
  <2>1. CASE UNCHANGED mapVars
    BY <2>1 DEF mapVars, MapInv, MapTypeOK, LastWriterWins, SnapshotsAreLast, SnapshotsAreKnown,
                StampsOnce, IsLast
  <2> QED BY <2>1, PutKeeps, SendKeeps, MergeKeeps DEF MapNext
<1> QED BY <1>1, MapInvInit, PTL DEF MapSpec

-----------------------------------------------------------------------------
(* LWWMap::set, remove and merge leave in every entry the write with the    *)
(* highest timestamp of all that have reached the node.                     *)
THEOREM HighestStampWins == MapSpec => []LastWriterWins
<1>1. MapInv => LastWriterWins
  BY DEF MapInv
<1> QED BY <1>1, MapInvariant, PTL

(* Whatever snapshots are lost, repeated or reordered, nodes that the same  *)
(* writes have reached hold identical maps.                                 *)
THEOREM MapsConverge == MapSpec => []MapsConverged
<1>1. MapInv => MapsConverged
  <2> SUFFICES ASSUME MapInv, NEW m \in Nodes, NEW n \in Nodes, written[m] = written[n], NEW k \in Keys
               PROVE  entries[m][k] = entries[n][k]
    <3>1. MapInv => entries \in [Nodes -> [Keys -> Entry \cup {NoEntry}]]
      BY DEF MapInv, MapTypeOK, EntryMap
    <3> QED BY <3>1 DEF MapsConverged
  <2> DEFINE d == entries[m][k]
             e == entries[n][k]
  <2>1. d \in Entry \cup {NoEntry} /\ e \in Entry \cup {NoEntry}
    BY DEF MapInv, MapTypeOK, EntryMap
  <2>2. IsLast(d, k, written[m]) /\ IsLast(e, k, written[m])
    BY DEF MapInv, LastWriterWins
  <2>3. \A v, w \in written[m] : v.entry.stamp = w.entry.stamp => v = w
    BY DEF MapInv, StampsOnce
  <2>4. NoEntry.stamp = 0 /\ \A x \in Entry : x.stamp \in Int /\ x.stamp >= 1
    BY MapBoundsAssumption DEF NoEntry, Entry
  <2> SUFFICES d = e
    OBVIOUS
  <2> HIDE DEF d, e
  <2>5. CASE d = NoEntry
    BY <2>1, <2>2, <2>4, <2>5 DEF IsLast
  <2>6. CASE e = NoEntry
    BY <2>1, <2>2, <2>4, <2>6 DEF IsLast
  <2>7. CASE d # NoEntry /\ e # NoEntry
    <3>1. /\ [key |-> k, entry |-> d] \in written[m] /\ [key |-> k, entry |-> e] \in written[m]
          /\ d.stamp <= e.stamp /\ e.stamp <= d.stamp
      BY <2>2, <2>7 DEF IsLast
    <3>2. d.stamp = e.stamp
      BY <2>1, <2>4, <2>7, <3>1
    <3>3. [key |-> k, entry |-> d] = [key |-> k, entry |-> e]
      BY <2>3, <3>1, <3>2
    <3> QED BY <3>3
  <2> QED BY <2>5, <2>6, <2>7
<1> QED BY <1>1, MapInvariant, PTL

(* An entry is never replaced by an older one. *)
THEOREM EntriesNeverGoBack == MapSpec => NeverGoesBack
<1>1. MapInv /\ [MapNext]_mapVars =>
         [\A n \in Nodes, k \in Keys :
             entries'[n][k] # entries[n][k] => entries'[n][k].stamp > entries[n][k].stamp]_mapVars
  <2> SUFFICES ASSUME MapInv, MapNext, NEW n \in Nodes, NEW k \in Keys,
                      entries'[n][k] # entries[n][k]
               PROVE  entries'[n][k].stamp > entries[n][k].stamp
    BY DEF mapVars
  <2>1. entries \in [Nodes -> [Keys -> Entry \cup {NoEntry}]]
    BY DEF MapInv, MapTypeOK, EntryMap
  <2>2. entries[n][k].stamp \in Int
    BY <2>1, MapBoundsAssumption DEF Entry, NoEntry
  <2>3. ASSUME NEW x, x.stamp \in Int, entries'[n][k] = Newer(entries[n][k], x)
        PROVE  entries'[n][k].stamp > entries[n][k].stamp
    BY <2>2, <2>3 DEF Newer
  <2>4. ASSUME NEW m \in Nodes, NEW j \in Keys, NEW v \in Values \cup {Removed},
               NEW t \in 1 .. MaxStamp, PutEntry(m, j, v, t)
        PROVE  entries'[n][k].stamp > entries[n][k].stamp
    <3>1. m = n /\ j = k /\ entries'[n][k] = Newer(entries[n][k], [value |-> v, stamp |-> t])
      BY <2>1, <2>4 DEF PutEntry
    <3> QED BY <2>3, <3>1, MapBoundsAssumption
  <2>5. ASSUME NEW m \in Nodes, NEW s \in mapSent, MergeMap(m, s)
        PROVE  entries'[n][k].stamp > entries[n][k].stamp
    <3>1. m = n /\ entries'[n][k] = Newer(entries[n][k], s.entries[k])
      BY <2>1, <2>5 DEF MergeMap
    <3>2. s.entries[k].stamp \in Int
      BY MapBoundsAssumption DEF MapInv, MapTypeOK, Snapshot, EntryMap, Entry, NoEntry
    <3> QED BY <2>3, <3>1, <3>2
  <2>6. ASSUME NEW m \in Nodes, SendMap(m)
        PROVE  FALSE
    BY <2>6 DEF SendMap
  <2> QED BY <2>4, <2>5, <2>6 DEF MapNext
<1> QED BY <1>1, MapInvariant, PTL DEF MapSpec, NeverGoesBack

-----------------------------------------------------------------------------
(* The observed-remove set.                                                 *)

AddedAnywhere == UNION {added[n] : n \in Nodes}
UsedTags      == {p[2] : p \in AddedAnywhere}

(* A snapshot is the state that its sender had: an add that was in it and   *)
(* not removed was in the set, and some node knows it still.                *)
SetSnapshotsFit ==
    \A s \in setSent :
        /\ s.tags \subseteq Pair /\ s.added \subseteq Pair /\ s.removed \subseteq Pair
        /\ s.seqs \in [Nodes -> 0 .. MaxAdds]
        /\ s.added \ s.removed \subseteq s.tags
        /\ s.added \subseteq AddedAnywhere

(* next_tag gives a node's tags out in order: its counter is past them all. *)
TagsAreCounted == \A p \in AddedAnywhere : p[2].seq <= seqs[p[2].node][p[2].node]

SetInv ==
    /\ SetTypeOK /\ SetSnapshotsFit /\ TagsAreCounted
    /\ IsFiniteSet(UsedTags) /\ AddsSurvive

LEMMA SetInvInit == SetInit => SetInv
<1> SUFFICES ASSUME SetInit
             PROVE  SetInv
  OBVIOUS
<1>1. AddedAnywhere = {} /\ UsedTags = {}
  BY DEF SetInit, AddedAnywhere, UsedTags
<1>2. SetTypeOK /\ SetSnapshotsFit /\ TagsAreCounted /\ AddWins
  BY <1>1, OrSetAssumption DEF SetInit, SetTypeOK, SetSnapshotsFit, TagsAreCounted, AddWins
<1>3. IsFiniteSet(UsedTags) /\ TagsUnique
  BY <1>1, FS_EmptySet DEF SetInit, TagsUnique, UsedTags, AddedAnywhere
<1> QED
  BY <1>2, <1>3 DEF SetInv, AddsSurvive

(* add keeps it: its tag is new everywhere. *)
LEMMA AddKeeps ==
    ASSUME SetInv, NEW n \in Nodes, NEW x \in Elements, Add(n, x)
    PROVE  SetInv'
<1> USE DEF SetInv, SetTypeOK
<1> DEFINE tag == [node |-> n, seq |-> seqs[n][n] + 1]
           new == <<x, tag>>
<1>1. /\ seqs[n][n] \in 0 .. MaxAdds /\ seqs[n][n] < MaxAdds
      /\ seqs' = [seqs EXCEPT ![n][n] = @ + 1]
      /\ tags' = [tags EXCEPT ![n] = @ \cup {new}]
      /\ added' = [added EXCEPT ![n] = @ \cup {new}]
      /\ adds' = adds + 1
      /\ UNCHANGED <<removed, setSent, removes>>
  BY DEF Add
<1>2. /\ tag \in Tag /\ new \in Pair /\ new[2] = tag
      /\ tag.node = n /\ tag.seq = seqs[n][n] + 1
  BY <1>1, OrSetAssumption DEF Tag, Pair
<1>3. seqs[n][n] + 1 \in 0 .. MaxAdds
  BY <1>1, OrSetAssumption
<1> HIDE DEF tag, new
<1>4. SetTypeOK'
  <2>1. seqs' \in [Nodes -> [Nodes -> 0 .. MaxAdds]]
    BY <1>1, <1>3
  <2>2. tags' \in [Nodes -> SUBSET Pair] /\ added' \in [Nodes -> SUBSET Pair]
    BY <1>1, <1>2
  <2>3. adds' \in Nat /\ removed' \in [Nodes -> SUBSET Pair] /\ removes' \in 0 .. MaxRemoves
    BY <1>1
  <2> QED
    BY <2>1, <2>2, <2>3
<1>5. AddedAnywhere' = AddedAnywhere \cup {new}
  BY <1>1 DEF AddedAnywhere
<1>6. UsedTags' = UsedTags \cup {tag}
  BY <1>2, <1>5 DEF UsedTags
<1>7. tag \notin UsedTags
  <2>1. ASSUME NEW p \in AddedAnywhere, p[2] = tag
        PROVE  FALSE
    BY <1>1, <1>2, <2>1 DEF TagsAreCounted
  <2> QED
    BY <2>1 DEF UsedTags
<1>8. IsFiniteSet(UsedTags') /\ Cardinality(UsedTags') = adds'
  <2>1. IsFiniteSet(UsedTags) /\ Cardinality(UsedTags) = adds
    BY DEF AddsSurvive, TagsUnique, UsedTags, AddedAnywhere
  <2>2. /\ IsFiniteSet(UsedTags \cup {tag})
        /\ Cardinality(UsedTags \cup {tag}) = Cardinality(UsedTags) + 1
    BY <1>7, <2>1, FS_AddElement, Zenon
  <2> QED
    BY <1>1, <1>6, <2>1, <2>2
<1>9. TagsAreCounted'
  <2> SUFFICES ASSUME NEW p \in AddedAnywhere'
               PROVE  p[2].seq <= seqs'[p[2].node][p[2].node]
    BY DEF TagsAreCounted
  <2>1. CASE p = new
    BY <1>1, <1>2, <1>3, <2>1
  <2>2. CASE p # new
    <3>1. p \in AddedAnywhere /\ p \in Pair /\ p[2].seq <= seqs[p[2].node][p[2].node]
      BY <1>5, <2>2 DEF TagsAreCounted, AddedAnywhere
    <3>2. p[2].node \in Nodes /\ p[2].seq \in Nat
      BY <3>1, OrSetAssumption DEF Pair, Tag
    <3>3. seqs[p[2].node][p[2].node] \in Nat
      BY <3>2, OrSetAssumption
    <3>4. seqs'[p[2].node][p[2].node] \in {seqs[p[2].node][p[2].node], seqs[p[2].node][p[2].node] + 1}
      BY <1>1, <3>2
    <3> QED
      BY <3>1, <3>2, <3>3, <3>4
  <2> QED
    BY <2>1, <2>2
<1>10. SetSnapshotsFit'
  BY <1>1, <1>5 DEF SetSnapshotsFit
<1>11. AddWins'
  BY <1>1 DEF AddsSurvive, AddWins
<1> QED
  BY <1>4, <1>8, <1>9, <1>10, <1>11 DEF AddsSurvive, TagsUnique, UsedTags, AddedAnywhere

(* So do the steps that create no tag. *)
LEMMA NoNewTags ==
    ASSUME SetInv, SetTypeOK', AddedAnywhere' = AddedAnywhere, adds' = adds,
           \A m \in Nodes : seqs'[m][m] >= seqs[m][m]
    PROVE  TagsAreCounted' /\ IsFiniteSet(UsedTags') /\ TagsUnique'
<1>1. UsedTags' = UsedTags
  BY DEF UsedTags
<1>2. IsFiniteSet(UsedTags') /\ TagsUnique'
  BY <1>1 DEF SetInv, AddsSurvive, TagsUnique, UsedTags, AddedAnywhere
<1>3. TagsAreCounted'
  <2> SUFFICES ASSUME NEW p \in AddedAnywhere
               PROVE  p[2].seq <= seqs'[p[2].node][p[2].node]
    BY DEF TagsAreCounted
  <2>1. p \in Pair /\ p[2].seq <= seqs[p[2].node][p[2].node]
    BY DEF SetInv, SetTypeOK, TagsAreCounted, AddedAnywhere
  <2>2. p[2].node \in Nodes /\ p[2].seq \in Nat
    BY <2>1, OrSetAssumption DEF Pair, Tag
  <2>3. seqs[p[2].node][p[2].node] \in Nat /\ seqs'[p[2].node][p[2].node] \in Nat
    BY <2>2, OrSetAssumption DEF SetInv, SetTypeOK
  <2> QED
    BY <2>1, <2>2, <2>3
<1> QED
  BY <1>2, <1>3

LEMMA RemoveKeeps ==
    ASSUME SetInv, NEW n \in Nodes, NEW x \in Elements, Remove(n, x)
    PROVE  SetInv'
<1> DEFINE observed == {p \in tags[n] : p[1] = x}
<1>1. /\ removes < MaxRemoves /\ removes' = removes + 1
      /\ tags' = [tags EXCEPT ![n] = @ \ observed]
      /\ removed' = [removed EXCEPT ![n] = @ \cup observed]
      /\ UNCHANGED <<seqs, added, setSent, adds>>
  BY DEF Remove
<1>2. observed \subseteq Pair
  BY DEF SetInv, SetTypeOK
<1> HIDE DEF observed
<1>3. SetTypeOK'
  BY <1>1, <1>2, OrSetAssumption DEF SetInv, SetTypeOK
<1>4. AddedAnywhere' = AddedAnywhere
  BY <1>1 DEF AddedAnywhere
<1>5. \A m \in Nodes : seqs'[m][m] >= seqs[m][m]
  BY <1>1, OrSetAssumption DEF SetInv, SetTypeOK
<1>6. AddWins' /\ SetSnapshotsFit'
  BY <1>1, <1>4 DEF SetInv, SetTypeOK, AddsSurvive, AddWins, SetSnapshotsFit
<1> QED
  BY <1>1, <1>3, <1>4, <1>5, <1>6, NoNewTags DEF SetInv, AddsSurvive

LEMMA SendSetKeeps ==
    ASSUME SetInv, NEW n \in Nodes, SendSet(n)
    PROVE  SetInv'
<1> DEFINE c == [tags |-> tags[n], seqs |-> seqs[n], added |-> added[n], removed |-> removed[n]]
<1>1. setSent' = setSent \cup {c} /\ UNCHANGED <<tags, seqs, added, removed, adds, removes>>
  BY DEF SendSet
<1>2. c.tags = tags[n] /\ c.seqs = seqs[n] /\ c.added = added[n] /\ c.removed = removed[n]
  OBVIOUS
<1> HIDE DEF c
<1>3. SetTypeOK' /\ AddWins' /\ AddedAnywhere' = AddedAnywhere
  BY <1>1 DEF SetInv, SetTypeOK, AddsSurvive, AddWins, AddedAnywhere
<1>4. /\ c.tags \subseteq Pair /\ c.added \subseteq Pair /\ c.removed \subseteq Pair
      /\ c.seqs \in [Nodes -> 0 .. MaxAdds]
      /\ c.added \ c.removed \subseteq c.tags
      /\ c.added \subseteq AddedAnywhere
  BY <1>2 DEF SetInv, SetTypeOK, AddsSurvive, AddWins, AddedAnywhere
<1>5. SetSnapshotsFit'
  BY <1>1, <1>3, <1>4 DEF SetInv, SetSnapshotsFit
<1>6. \A m \in Nodes : seqs'[m][m] >= seqs[m][m]
  BY <1>1, OrSetAssumption DEF SetInv, SetTypeOK
<1> QED
  BY <1>1, <1>3, <1>5, <1>6, NoNewTags DEF SetInv, AddsSurvive

(* Merging a snapshot, however old, keeps it: no counter goes back. *)
LEMMA MergeSetKeeps ==
    ASSUME SetInv, NEW n \in Nodes, NEW s \in setSent, MergeSet(n, s)
    PROVE  SetInv'
<1>1. /\ tags' = [tags EXCEPT ![n] = @ \cup s.tags]
      /\ seqs' = [seqs EXCEPT ![n] = [m \in Nodes |-> Larger(seqs[n][m], s.seqs[m])]]
      /\ added' = [added EXCEPT ![n] = @ \cup s.added]
      /\ removed' = [removed EXCEPT ![n] = @ \cup s.removed]
      /\ UNCHANGED <<setSent, adds, removes>>
  BY DEF MergeSet, MergedTags, SetInv, SetTypeOK
<1>2. /\ s.tags \subseteq Pair /\ s.added \subseteq Pair /\ s.removed \subseteq Pair
      /\ s.seqs \in [Nodes -> 0 .. MaxAdds]
      /\ s.added \ s.removed \subseteq s.tags
      /\ s.added \subseteq AddedAnywhere
  BY DEF SetInv, SetSnapshotsFit
<1>3. \A m \in Nodes : /\ Larger(seqs[n][m], s.seqs[m]) \in 0 .. MaxAdds
                       /\ Larger(seqs[n][m], s.seqs[m]) >= seqs[n][m]
  BY <1>2, OrSetAssumption DEF SetInv, SetTypeOK, Larger
<1>4. SetTypeOK'
  <2>1. seqs' \in [Nodes -> [Nodes -> 0 .. MaxAdds]]
    BY <1>1, <1>3 DEF SetInv, SetTypeOK
  <2>2. /\ tags' \in [Nodes -> SUBSET Pair] /\ added' \in [Nodes -> SUBSET Pair]
        /\ removed' \in [Nodes -> SUBSET Pair]
    BY <1>1, <1>2 DEF SetInv, SetTypeOK
  <2> QED
    BY <1>1, <2>1, <2>2 DEF SetInv, SetTypeOK
<1>5. AddedAnywhere' = AddedAnywhere
  BY <1>1, <1>2 DEF AddedAnywhere, SetInv, SetTypeOK
<1>6. \A m \in Nodes : seqs'[m][m] >= seqs[m][m]
  BY <1>1, <1>3, OrSetAssumption DEF SetInv, SetTypeOK
<1>7. AddWins'
  BY <1>1, <1>2 DEF SetInv, SetTypeOK, AddsSurvive, AddWins
<1>8. SetSnapshotsFit'
  BY <1>1, <1>5 DEF SetInv, SetSnapshotsFit
<1> QED
  BY <1>1, <1>4, <1>5, <1>6, <1>7, <1>8, NoNewTags DEF SetInv, AddsSurvive

LEMMA SetInvariant == SetSpec => []SetInv
<1>1. SetInv /\ [SetNext]_setVars => SetInv'
  <2> SUFFICES ASSUME SetInv, [SetNext]_setVars
               PROVE  SetInv'
    OBVIOUS
  <2>1. CASE UNCHANGED setVars
    BY <2>1 DEF setVars, SetInv, SetTypeOK, SetSnapshotsFit, TagsAreCounted, UsedTags,
                AddedAnywhere, AddsSurvive, TagsUnique, AddWins
  <2> QED
    BY <2>1, AddKeeps, RemoveKeeps, SendSetKeeps, MergeSetKeeps DEF SetNext
<1> QED
  BY <1>1, SetInvInit, PTL DEF SetSpec

(* Every add has a tag of its own, although the counters that tags come     *)
(* from are merged, and an add that reached a node is in its set unless a   *)
(* remove that observed it did too: ORSet::add, remove and merge.           *)
THEOREM AddsAreNeverLost == SetSpec => []AddsSurvive
<1>1. SetInv => AddsSurvive
  BY DEF SetInv
<1> QED
  BY <1>1, SetInvariant, PTL

-----------------------------------------------------------------------------
(* The counter and the vector clock.  The state of a node and a snapshot of *)
(* one obey the same rules, so they are treated alike.                      *)

CounterState(n) == [counts |-> counts[n], clock |-> clock[n], past |-> past[n]]
States          == {CounterState(n) : n \in Nodes} \cup counterSent

Increments == [node : Nodes, seq : Nat, amount : Nat]

StateType ==
    /\ counts \in [Nodes -> [Nodes -> Nat]]
    /\ clock \in [Nodes -> [Nodes -> Nat]]
    /\ past \in [Nodes -> SUBSET Increments]
    /\ \A s \in States : /\ s.counts \in [Nodes -> Nat]
                         /\ s.clock \in [Nodes -> Nat]
                         /\ s.past \subseteq Increments

(* A clock's entry is the number of the node's last increment known ... *)
ClockTells ==
    \A s \in States :
        /\ \A o \in s.past : o.seq <= s.clock[o.node]
        /\ \A m \in Nodes : s.clock[m] > 0 => \E o \in s.past : o.node = m /\ o.seq = s.clock[m]

(* ... and all earlier ones are known with it ... *)
PastIsClosed ==
    \A s, t \in States : \A o \in t.past : o.seq <= s.clock[o.node] => o \in s.past

(* ... first of all to the node itself. *)
OwnClockLeads == \A s \in States, n \in Nodes : s.clock[n] <= clock[n][n]

(* The slots grow with the clock. *)
CountsFollow ==
    \A s, t \in States, m \in Nodes : s.clock[m] <= t.clock[m] => s.counts[m] <= t.counts[m]

CounterInv == StateType /\ ClockTells /\ PastIsClosed /\ OwnClockLeads /\ CountsFollow

LEMMA CounterInvInit == CounterInit => CounterInv
<1> SUFFICES ASSUME CounterInit
             PROVE  CounterInv
  OBVIOUS
<1>1. \A s \in States : s.counts = Zero /\ s.clock = Zero /\ s.past = {}
  BY DEF CounterInit, States, CounterState
<1>2. Zero \in [Nodes -> Nat] /\ \A m \in Nodes : Zero[m] = 0
  BY DEF Zero
<1>3. StateType
  BY <1>1, <1>2 DEF CounterInit, StateType
<1>4. \A n \in Nodes : clock[n] = Zero
  BY DEF CounterInit
<1>5. ClockTells /\ PastIsClosed /\ OwnClockLeads /\ CountsFollow
  BY <1>1, <1>2, <1>4 DEF ClockTells, PastIsClosed, OwnClockLeads, CountsFollow
<1> QED
  BY <1>3, <1>5 DEF CounterInv

(* One node's state changes to one that obeys the rules among the states    *)
(* that were there.                                                         *)
LEMMA NewState ==
    ASSUME CounterInv, NEW n \in Nodes, UNCHANGED counterSent,
           NEW c \in [Nodes -> Nat], NEW k \in [Nodes -> Nat], NEW p \in SUBSET Increments,
           counts' = [counts EXCEPT ![n] = c],
           clock' = [clock EXCEPT ![n] = k],
           past' = [past EXCEPT ![n] = p],
           \A o \in p : o.seq <= k[o.node],
           \A m \in Nodes : k[m] > 0 => \E o \in p : o.node = m /\ o.seq = k[m],
           \A t \in States : \A o \in t.past : o.seq <= k[o.node] => o \in p,
           \A t \in States : \A o \in p : o.seq <= t.clock[o.node] => o \in t.past,
           k[n] >= clock[n][n],
           \A m \in Nodes : m # n => k[m] <= clock[m][m],
           \A t \in States, m \in Nodes : /\ k[m] <= t.clock[m] => c[m] <= t.counts[m]
                                          /\ t.clock[m] <= k[m] => t.counts[m] <= c[m]
    PROVE  CounterInv'
<1> USE DEF CounterInv
<1> DEFINE u == [counts |-> c, clock |-> k, past |-> p]
<1>0. u.counts = c /\ u.clock = k /\ u.past = p
  OBVIOUS
<1>1. \A m \in Nodes : CounterState(m)' = IF m = n THEN u ELSE CounterState(m)
  BY DEF CounterState, StateType
<1> HIDE DEF u
<1>2. States' \subseteq States \cup {u}
  BY <1>1 DEF States
<1>3. StateType'
  BY <1>0, <1>2 DEF StateType
<1>4. ClockTells'
  BY <1>0, <1>2 DEF ClockTells
<1>5. PastIsClosed'
  BY <1>0, <1>2 DEF PastIsClosed
<1>6. OwnClockLeads'
  <2> SUFFICES ASSUME NEW s \in States', NEW m \in Nodes
               PROVE  s.clock[m] <= clock'[m][m]
    BY DEF OwnClockLeads
  <2>1. clock'[m][m] >= clock[m][m] /\ clock[m][m] \in Nat /\ clock'[m][m] \in Nat
    BY DEF StateType
  <2>2. CASE s \in States
    <3>1. s.clock[m] <= clock[m][m] /\ s.clock[m] \in Nat
      BY <2>2 DEF OwnClockLeads, StateType
    <3> QED
      BY <2>1, <3>1
  <2>3. CASE s = u
    BY <1>0, <2>1, <2>3 DEF StateType
  <2> QED
    BY <1>2, <2>2, <2>3
<1>7. CountsFollow'
  <2> SUFFICES ASSUME NEW s \in States', NEW t \in States', NEW m \in Nodes,
                      s.clock[m] <= t.clock[m]
               PROVE  s.counts[m] <= t.counts[m]
    BY DEF CountsFollow
  <2>1. CASE s \in States /\ t \in States
    BY <2>1 DEF CountsFollow
  <2>2. CASE s = u /\ t \in States
    BY <1>0, <2>2
  <2>3. CASE s \in States /\ t = u
    BY <1>0, <2>3
  <2>4. CASE s = u /\ t = u
    BY <1>0, <2>4
  <2> QED
    BY <1>2, <2>1, <2>2, <2>3, <2>4
<1> QED
  BY <1>3, <1>4, <1>5, <1>6, <1>7

LEMMA IncrementKeeps ==
    ASSUME CounterInv, NEW n \in Nodes, NEW a \in 0 .. MaxAmount, Increment(n, a)
    PROVE  CounterInv'
<1> USE DEF CounterInv
<1> DEFINE new == [node |-> n, seq |-> clock[n][n] + 1, amount |-> a]
           x == CounterState(n)
           c == [counts[n] EXCEPT ![n] = @ + a]
           k == [clock[n] EXCEPT ![n] = @ + 1]
           p == past[n] \cup {new}
<1>0. x \in States /\ x.counts = counts[n] /\ x.clock = clock[n] /\ x.past = past[n]
  BY DEF States, CounterState
<1>1. /\ x \in States /\ x.counts = counts[n] /\ x.clock = clock[n] /\ x.past = past[n]
      /\ counts[n] \in [Nodes -> Nat] /\ clock[n] \in [Nodes -> Nat] /\ a \in Nat
      /\ clock[n][n] \in Nat /\ past[n] \subseteq Increments
  BY <1>0, CounterAssumption DEF StateType
<1>2. /\ c \in [Nodes -> Nat] /\ c[n] = counts[n][n] + a
      /\ \A m \in Nodes : m # n => c[m] = counts[n][m]
      /\ k \in [Nodes -> Nat] /\ k[n] = clock[n][n] + 1
      /\ \A m \in Nodes : m # n => k[m] = clock[n][m]
  BY <1>1
<1>3. new \in Increments /\ new.node = n /\ new.seq = clock[n][n] + 1
  BY <1>1 DEF Increments
<1>4. /\ counts' = [counts EXCEPT ![n] = c] /\ clock' = [clock EXCEPT ![n] = k]
      /\ past' = [past EXCEPT ![n] = p] /\ UNCHANGED counterSent
  BY DEF Increment, StateType
<1>5. p = x.past \cup {new}
  BY <1>1
<1> HIDE DEF new, x, c, k, p
<1>7. \A s \in States : /\ s.clock[n] <= clock[n][n] /\ s.clock[n] \in Nat
                        /\ s.clock \in [Nodes -> Nat] /\ s.counts \in [Nodes -> Nat]
                        /\ s.past \subseteq Increments
  BY DEF OwnClockLeads, StateType
<1>8. p \subseteq Increments
  BY <1>1, <1>3, <1>5
<1>9. \A o \in p : o.seq <= k[o.node]
  <2> SUFFICES ASSUME NEW o \in x.past
               PROVE  o.seq <= k[o.node]
    BY <1>2, <1>3, <1>5
  <2>1. o.seq <= x.clock[o.node] /\ o.node \in Nodes /\ o.seq \in Nat
    BY <1>1 DEF ClockTells, Increments
  <2> QED
    BY <1>1, <1>2, <2>1
<1>10. \A m \in Nodes : k[m] > 0 => \E o \in p : o.node = m /\ o.seq = k[m]
  <2> SUFFICES ASSUME NEW m \in Nodes, k[m] > 0, m # n
               PROVE  \E o \in p : o.node = m /\ o.seq = k[m]
    BY <1>2, <1>3, <1>5
  <2> QED
    BY <1>1, <1>2, <1>5 DEF ClockTells
<1>11. ASSUME NEW t \in States, NEW o \in t.past, o.seq <= k[o.node]
       PROVE  o \in p
  <2>1. o.node \in Nodes /\ o.seq \in Nat /\ o.seq <= t.clock[o.node]
    BY <1>7 DEF ClockTells, Increments
  <2>2. o.seq <= x.clock[o.node]
    BY <1>1, <1>2, <1>7, <1>11, <2>1
  <2> QED
    BY <1>1, <1>5, <2>2 DEF PastIsClosed
<1>12. ASSUME NEW s \in States, NEW o \in p, o.seq <= s.clock[o.node]
       PROVE  o \in s.past
  <2>1. o # new
    BY <1>1, <1>3, <1>7, <1>12
  <2> QED
    BY <1>1, <1>5, <1>12, <2>1 DEF PastIsClosed
<1>13. \A m \in Nodes : m # n => k[m] <= clock[m][m]
  BY <1>1, <1>2 DEF OwnClockLeads
<1>14. ASSUME NEW t \in States, NEW m \in Nodes
       PROVE  /\ k[m] <= t.clock[m] => c[m] <= t.counts[m]
              /\ t.clock[m] <= k[m] => t.counts[m] <= c[m]
  <2>1. /\ x.clock[m] <= t.clock[m] => x.counts[m] <= t.counts[m]
        /\ t.clock[m] <= x.clock[m] => t.counts[m] <= x.counts[m]
    BY <1>1 DEF CountsFollow
  <2>2. CASE m = n
    <3>1. t.counts[n] <= counts[n][n] /\ t.counts[n] \in Nat /\ counts[n][n] \in Nat
      BY <1>1, <1>7, <2>1, <2>2
    <3> QED
      BY <1>1, <1>2, <1>7, <2>2, <3>1
  <2>3. CASE m # n
    BY <1>1, <1>2, <2>1, <2>3
  <2> QED
    BY <2>2, <2>3
<1>15. k[n] >= clock[n][n]
  BY <1>1, <1>2
<1> QED
  BY <1>2, <1>4, <1>8, <1>9, <1>10, <1>11, <1>12, <1>13, <1>14, <1>15, NewState

LEMMA MergeCounterKeeps ==
    ASSUME CounterInv, NEW n \in Nodes, NEW s \in counterSent, MergeCounter(n, s)
    PROVE  CounterInv'
<1> USE DEF CounterInv
<1> DEFINE x == CounterState(n)
           c == PointwiseMax(counts[n], s.counts)
           k == PointwiseMax(clock[n], s.clock)
           p == past[n] \cup s.past
<1>1. /\ x \in States /\ x.counts = counts[n] /\ x.clock = clock[n] /\ x.past = past[n]
      /\ s \in States
  BY DEF States, CounterState
<1>2. /\ counts' = [counts EXCEPT ![n] = c] /\ clock' = [clock EXCEPT ![n] = k]
      /\ past' = [past EXCEPT ![n] = p] /\ UNCHANGED counterSent
  BY DEF MergeCounter, StateType
<1>3. \A t \in States : /\ t.counts \in [Nodes -> Nat] /\ t.clock \in [Nodes -> Nat]
                        /\ t.past \subseteq Increments
  BY DEF StateType
(* Each entry and its slot come from one of the two states. *)
<1>4. ASSUME NEW m \in Nodes
      PROVE  \E w \in {x, s} : k[m] = w.clock[m] /\ c[m] = w.counts[m]
  <2>1. /\ k[m] = Larger(x.clock[m], s.clock[m]) /\ c[m] = Larger(x.counts[m], s.counts[m])
    BY <1>1 DEF PointwiseMax
  <2>2. /\ x.clock[m] \in Nat /\ s.clock[m] \in Nat /\ x.counts[m] \in Nat /\ s.counts[m] \in Nat
    BY <1>1, <1>3
  <2>3. /\ x.clock[m] <= s.clock[m] => x.counts[m] <= s.counts[m]
        /\ s.clock[m] <= x.clock[m] => s.counts[m] <= x.counts[m]
    BY <1>1 DEF CountsFollow
  <2>4. CASE x.clock[m] >= s.clock[m]
    <3>1. k[m] = x.clock[m] /\ c[m] = x.counts[m]
      BY <2>1, <2>2, <2>3, <2>4 DEF Larger
    <3> QED
      BY <3>1
  <2>5. CASE ~(x.clock[m] >= s.clock[m])
    <3>1. k[m] = s.clock[m] /\ c[m] = s.counts[m]
      BY <2>1, <2>2, <2>3, <2>5 DEF Larger
    <3> QED
      BY <3>1
  <2> QED
    BY <2>4, <2>5
<1>5. \A m \in Nodes : k[m] \in Nat /\ c[m] \in Nat /\ x.clock[m] <= k[m] /\ s.clock[m] <= k[m]
  BY <1>1, <1>3 DEF PointwiseMax, Larger
<1>6. c \in [Nodes -> Nat] /\ k \in [Nodes -> Nat]
  BY <1>5 DEF PointwiseMax
<1>7. p = x.past \cup s.past
  BY <1>1
<1> HIDE DEF x, c, k, p
<1>9. p \subseteq Increments
  BY <1>1, <1>3, <1>7
<1>10. \A o \in p : o.seq <= k[o.node]
  <2> SUFFICES ASSUME NEW w \in {x, s}, NEW o \in w.past
               PROVE  o.seq <= k[o.node]
    BY <1>7
  <2>1. o.seq <= w.clock[o.node] /\ o.node \in Nodes /\ o.seq \in Nat
    BY <1>1, <1>3 DEF ClockTells, Increments
  <2> QED
    BY <1>1, <1>3, <1>5, <2>1
<1>11. \A m \in Nodes : k[m] > 0 => \E o \in p : o.node = m /\ o.seq = k[m]
  BY <1>1, <1>4, <1>7 DEF ClockTells
<1>12. ASSUME NEW t \in States, NEW o \in t.past, o.seq <= k[o.node]
       PROVE  o \in p
  <2>1. o.node \in Nodes
    BY <1>3 DEF Increments
  <2>2. PICK w \in {x, s} : k[o.node] = w.clock[o.node]
    BY <1>4, <2>1
  <2> QED
    BY <1>1, <1>7, <1>12, <2>2 DEF PastIsClosed
<1>13. ASSUME NEW t \in States, NEW o \in p, o.seq <= t.clock[o.node]
       PROVE  o \in t.past
  BY <1>1, <1>7, <1>13 DEF PastIsClosed
<1>14. \A m \in Nodes : k[m] <= clock[m][m]
  BY <1>1, <1>4 DEF OwnClockLeads
<1>15. k[n] >= clock[n][n]
  BY <1>1, <1>3, <1>5
<1>16. ASSUME NEW t \in States, NEW m \in Nodes
       PROVE  /\ k[m] <= t.clock[m] => c[m] <= t.counts[m]
              /\ t.clock[m] <= k[m] => t.counts[m] <= c[m]
  BY <1>1, <1>4 DEF CountsFollow
<1> QED
  BY <1>2, <1>6, <1>9, <1>10, <1>11, <1>12, <1>13, <1>14, <1>15, <1>16, NewState

LEMMA CounterInvariant == CounterSpec => []CounterInv
<1>1. CounterInv /\ [CounterNext]_counterVars => CounterInv'
  <2> SUFFICES ASSUME CounterInv, [CounterNext]_counterVars
               PROVE  CounterInv'
    OBVIOUS
  <2>1. ASSUME States' = States, UNCHANGED <<counts, clock, past>>
        PROVE  CounterInv'
    BY <2>1 DEF CounterInv, StateType, ClockTells, PastIsClosed, OwnClockLeads, CountsFollow
  <2>2. ASSUME NEW n \in Nodes, SendCounter(n)
        PROVE  CounterInv'
    <3>1. counterSent' = counterSent \cup {CounterState(n)} /\ UNCHANGED <<counts, clock, past>>
      BY <2>2 DEF SendCounter, CounterState
    <3>2. States' = States
      BY <3>1 DEF States, CounterState
    <3> QED
      BY <2>1, <3>1, <3>2
  <2>3. CASE UNCHANGED counterVars
    BY <2>1, <2>3 DEF counterVars, States, CounterState
  <2> QED
    BY <2>2, <2>3, IncrementKeeps, MergeCounterKeeps DEF CounterNext
<1> QED
  BY <1>1, CounterInvInit, PTL DEF CounterSpec

(* A node's clock is before or equal to another's exactly when the other's  *)
(* state includes all of its own: VectorClock::is_before_or_equal, under    *)
(* merges that come late, twice or never.                                   *)
THEOREM ClocksDecideCausality == CounterSpec => []ClockIsCausality
<1>1. CounterInv => ClockIsCausality
  <2> SUFFICES ASSUME CounterInv, NEW m \in Nodes, NEW n \in Nodes
               PROVE  BeforeOrEqual(clock[m], clock[n]) <=> past[m] \subseteq past[n]
    BY DEF ClockIsCausality
  <2> DEFINE x == CounterState(m)
             y == CounterState(n)
  <2>1. /\ x \in States /\ x.clock = clock[m] /\ x.past = past[m]
        /\ y \in States /\ y.clock = clock[n] /\ y.past = past[n]
    BY DEF States, CounterState
  <2>2. /\ clock[m] \in [Nodes -> Nat] /\ clock[n] \in [Nodes -> Nat]
        /\ past[m] \subseteq Increments /\ past[n] \subseteq Increments
    BY DEF CounterInv, StateType
  <2> HIDE DEF x, y
  <2>3. ASSUME BeforeOrEqual(clock[m], clock[n]), NEW o \in past[m]
        PROVE  o \in past[n]
    <3>1. o.node \in Nodes /\ o.seq \in Nat /\ o.seq <= clock[m][o.node]
      BY <2>1, <2>2 DEF CounterInv, ClockTells, Increments
    <3>2. clock[m][o.node] <= clock[n][o.node]
      BY <2>3, <3>1 DEF BeforeOrEqual
    <3>3. o.seq <= clock[n][o.node]
      BY <2>2, <3>1, <3>2
    <3> QED
      BY <2>1, <3>3 DEF CounterInv, PastIsClosed
  <2>4. ASSUME past[m] \subseteq past[n], NEW k \in Nodes
        PROVE  clock[m][k] <= clock[n][k]
    <3>1. CASE clock[m][k] > 0
      <4>1. PICK o \in past[m] : o.node = k /\ o.seq = clock[m][k]
        BY <2>1, <3>1 DEF CounterInv, ClockTells
      <4> QED
        BY <2>1, <2>4, <4>1 DEF CounterInv, ClockTells
    <3>2. CASE ~(clock[m][k] > 0)
      BY <2>2, <3>2
    <3> QED
      BY <3>1, <3>2
  <2> QED
    BY <2>3, <2>4 DEF BeforeOrEqual
<1> QED
  BY <1>1, CounterInvariant, PTL

(* Nodes that the same increments have reached hold the same slots, and so  *)
(* the same value: GCounter::merge.                                         *)
CountersConverged == \A m, n \in Nodes : past[m] = past[n] => counts[m] = counts[n]

(* The counters converge, whatever snapshots are lost, repeated or late. *)
THEOREM CountersConverge == CounterSpec => []CountersConverged
<1>1. CounterInv /\ ClockIsCausality => CountersConverged
  <2> SUFFICES ASSUME CounterInv, ClockIsCausality,
                      NEW m \in Nodes, NEW n \in Nodes, past[m] = past[n]
               PROVE  counts[m] = counts[n]
    BY DEF CountersConverged
  <2>1. /\ CounterState(m) \in States /\ CounterState(m).clock = clock[m]
        /\ CounterState(m).counts = counts[m]
        /\ CounterState(n) \in States /\ CounterState(n).clock = clock[n]
        /\ CounterState(n).counts = counts[n]
    BY DEF States, CounterState
  <2>2. \A k \in Nodes : clock[m][k] <= clock[n][k] /\ clock[n][k] <= clock[m][k]
    BY DEF ClockIsCausality, BeforeOrEqual
  <2>3. counts[m] \in [Nodes -> Nat] /\ counts[n] \in [Nodes -> Nat]
    BY DEF CounterInv, StateType
  <2>4. \A k \in Nodes : counts[m][k] <= counts[n][k] /\ counts[n][k] <= counts[m][k]
    BY <2>1, <2>2 DEF CounterInv, CountsFollow
  <2>5. ASSUME NEW k \in Nodes
        PROVE  counts[m][k] = counts[n][k]
    <3>1. counts[m][k] \in Nat /\ counts[n][k] \in Nat
      BY <2>3
    <3> QED
      BY <2>4, <3>1
  <2> QED
    BY <2>3, <2>5
<1> QED
  BY <1>1, CounterInvariant, ClocksDecideCausality, PTL

=============================================================================
