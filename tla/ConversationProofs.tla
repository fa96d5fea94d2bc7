-------------------------- MODULE ConversationProofs --------------------------
(***************************************************************************)
(* Proofs about what is said and what is asked, for any number of          *)
(* requests, users, sessions, episodes, clarifications and facts.          *)
(* Clarifications, with everything overlapping and failing: a resolution   *)
(* invalidates the losers and no other fact; one after the other, a        *)
(* clarification is decided once.  Conversations, with everything          *)
(* overlapping and failing: no session counts more episodes than it has;   *)
(* one after the other, every episode is counted, a person is one user and *)
(* a session is listed, but for one per failed command.                    *)
(***************************************************************************)
EXTENDS Conversations, Clarifications, RequestProofs

-----------------------------------------------------------------------------
(* Clarifications: the commands of their requests, and which may come       *)
(* before which.                                                            *)

ClarCalls == [do : {"clarConflict", "clarDismiss", "clarSet", "clarAdd", "clarRead"},
              id : ClarIds, how : {"-"}]
PendingCalls == [do : {"clarPending"}, id : ClarIds, how : ClarFacts \cup {Undecided}]
LoserCalls == [do : {"factRead", "factInvalidate"}, id : ClarFacts, how : {"-"}]
CaughtCalls == [do : {"catch"}, id : ClarFacts, how : {"-", "failed"}]
ListCalls == [do : {"clarList"}, id : {"-"}, how : {"-"}]

ClarCommand == ClarCalls \cup PendingCalls \cup LoserCalls \cup CaughtCalls \cup ListCalls

Losing == {"factRead", "factInvalidate", "catch"}
Opening == {"clarPending", "clarDismiss"}

\* A clarification is decided, the losers lose, it is stored, and indexed.
MayPrecede(x, y) ==
    /\ x.do \in Opening => y.do \in {"clarSet", "clarAdd"} /\ y.id = x.id
    /\ x.do \in Losing => y.do \in Losing \cup {"clarSet", "clarAdd"}
    /\ x.do = "clarSet" => (y.do = "clarAdd" /\ y.id = x.id) \/ y.do = "clarRead"
    /\ x.do = "clarRead" => y.do = "clarRead"
    /\ x.do \notin {"clarConflict", "clarList", "clarAdd"}

InClarOrder(t) == \A i, j \in 1 .. Len(t) : i < j => MayPrecede(t[i], t[j])

-----------------------------------------------------------------------------
(* What is stored.                                                          *)

Known == {f \in ClarFacts : factState[f] # "unknown"}

ClarRecord == [status : {"pending", "resolved", "dismissed", "expired"},
               facts : SUBSET ClarFacts, winner : ClarFacts \cup {Undecided}]

ClarsTyped ==
    /\ clars \in [ClarIds -> ClarRecord \cup {NoClar}]
    /\ clarIndex \subseteq ClarIds
    /\ factState \in [ClarFacts -> {"unknown", "valid", "invalid"}]
    /\ named \subseteq ClarIds \X ClarFacts /\ \A n \in named : clars[n[1]] # NoClar
    /\ \A c \in ClarIds : clars[c].facts \subseteq Known

\* Somebody resolved a clarification of this fact for another one.
HasLost(f) == \E n \in named : n[2] # f /\ f \in clars[n[1]].facts

-----------------------------------------------------------------------------
(* What a request knows.                                                    *)

\* The request makes this clarification, or has read it: a clarification
\* keeps its facts and never becomes pending again.
Carries(x, c) ==
    /\ x \in ClarRecord /\ x.facts \subseteq Known
    /\ clars[c] = NoClar => x.status = "pending"
    /\ clars[c] # NoClar => x.facts = clars[c].facts /\ x.status # "pending"

\* Before a resolution is stored each loser is invalid, or is about to be.
Settles(t, x, i) ==
    tally.faults = 0 /\ x.status = "resolved" /\ x.winner # Undecided =>
      \A f \in (x.facts \cap Valid) \ {x.winner} :
        \E j \in 1 .. i - 1 : t[j].do \in {"factRead", "factInvalidate"} /\ t[j].id = f

FitsClar(t, l) ==
    \A i \in 1 .. Len(t) :
      /\ t[i].do = "clarSet" /\ t[1].do \notin Opening =>
           /\ Carries(l.clar, t[i].id) /\ Settles(t, l.clar, i)
           /\ i > 1 => clars[t[i].id] # NoClar
      /\ t[i].do = "clarConflict" => clars[t[i].id] = NoClar
      /\ t[i].do \in {"factRead", "factInvalidate"} => HasLost(t[i].id)

\* What opens a clarification also stores it.
OpensToStore(t) ==
    t # <<>> /\ t[1].do \in Opening => \E j \in 1 .. Len(t) : t[j].do = "clarSet" /\ t[j].id = t[1].id

ClarInPlace(t, l) == t \in Seq(ClarCommand) /\ InClarOrder(t) /\ OpensToStore(t) /\ FitsClar(t, l)

ClarsInPlace ==
    /\ request = [q \in Requests |-> request[q]] /\ tally \in Tallies
    /\ \A r \in Requests : ClarInPlace(request[r].todo, request[r].loc)

\* The request is to make this clarification.
MakesClar(r, c) ==
    /\ request[r].todo # <<>> /\ clars[c] = NoClar
    /\ request[r].todo[1].do \in {"clarConflict", "clarSet"} /\ request[r].todo[1].id = c

OneMaker == \A q, r \in Requests, c \in ClarIds : MakesClar(q, c) /\ MakesClar(r, c) => q = r

-----------------------------------------------------------------------------
(* Requests one after the other.                                            *)

\* The request is about to store this clarification as resolved.
Resolves(r, c) ==
    /\ request[r].todo # <<>> /\ request[r].todo[1].do \notin Opening
    /\ \E i \in 1 .. Len(request[r].todo) :
         request[r].todo[i].do = "clarSet" /\ request[r].todo[i].id = c
    /\ request[r].loc.clar.status = "resolved"

NamedOnce ==
    ~tally.overlapped /\ tally.faults = 0 =>
      /\ \A n, m \in named : n[1] = m[1] => n = m
      /\ \A n \in named : clars[n[1]].status = "pending" => \E r \in Requests : Resolves(r, n[1])

ClarInv ==
    ClarsTyped /\ ClarsInPlace /\ OneMaker /\ OneBusy /\ NamedOnce /\ LosersAreInvalid /\ WinnersStay

-----------------------------------------------------------------------------
(* Steps.                                                                   *)

\* What every step respects.
ClarsGrow ==
    /\ \A c \in ClarIds : clars[c] # NoClar =>
         /\ clars'[c] # NoClar /\ clars'[c].facts = clars[c].facts
         /\ clars'[c].status = "pending" => clars[c].status = "pending"
    /\ named \subseteq named'
    /\ \A f \in ClarFacts : factState[f] # "unknown" =>
         factState'[f] # "unknown" /\ (factState'[f] = "valid" => factState[f] = "valid")
    /\ tally'.faults = 0 => tally.faults = 0

(* A fact that has lost has lost for good. *)
LEMMA LostStaysLost ==
    ASSUME ClarsTyped, ClarsGrow, NEW f, HasLost(f)
    PROVE  HasLost(f)'
<1>1. PICK n \in named : n[2] # f /\ f \in clars[n[1]].facts
  BY DEF HasLost
<1>2. n \in named' /\ n[1] \in ClarIds /\ clars[n[1]] # NoClar
  BY <1>1 DEF ClarsTyped, ClarsGrow
<1>3. f \in clars'[n[1]].facts
  BY <1>1, <1>2 DEF ClarsGrow
<1> QED BY <1>1, <1>2, <1>3 DEF HasLost

(* What a request knows stays true while others go on, unless one of them *)
(* makes the clarification that it is about to make.                      *)
LEMMA FitGrows ==
    ASSUME ClarsTyped, ClarsGrow, NEW t \in Seq(ClarCommand), NEW l, FitsClar(t, l),
           \A i \in 1 .. Len(t) : t[i].do = "clarConflict" \/ (t[i].do = "clarSet" /\ t[1].do \notin Opening) =>
             t[i].id \in ClarIds /\ (clars[t[i].id] = NoClar => clars'[t[i].id] = NoClar)
    PROVE  FitsClar(t, l)'
<1> SUFFICES ASSUME NEW i \in 1 .. Len(t)
             PROVE  /\ t[i].do = "clarSet" /\ t[1].do \notin Opening =>
                         /\ Carries(l.clar, t[i].id)' /\ Settles(t, l.clar, i)'
                         /\ i > 1 => clars'[t[i].id] # NoClar
                    /\ t[i].do = "clarConflict" => clars'[t[i].id] = NoClar
                    /\ t[i].do \in {"factRead", "factInvalidate"} => HasLost(t[i].id)'
  BY DEF FitsClar
<1>1. ASSUME t[i].do = "clarSet", t[1].do \notin Opening
      PROVE  /\ Carries(l.clar, t[i].id)' /\ Settles(t, l.clar, i)'
             /\ i > 1 => clars'[t[i].id] # NoClar
  <2> DEFINE c == t[i].id
             x == l.clar
  <2>1. /\ Carries(x, c) /\ Settles(t, x, i) /\ (i > 1 => clars[c] # NoClar)
        /\ c \in ClarIds /\ (clars[c] = NoClar => clars'[c] = NoClar)
    BY <1>1 DEF FitsClar
  <2> HIDE DEF c, x
  <2>2. clars[c] # NoClar => clars'[c] # NoClar /\ clars'[c].facts = clars[c].facts
    BY <2>1 DEF ClarsGrow
  <2>3. Known \subseteq Known'
    BY DEF ClarsGrow, Known
  <2>4. Carries(x, c)'
    BY <2>1, <2>2, <2>3 DEF Carries
  <2>5. Settles(t, x, i)'
    <3> SUFFICES ASSUME tally'.faults = 0, x.status = "resolved", x.winner # Undecided,
                        NEW f \in (x.facts \cap Valid') \ {x.winner}
                 PROVE  \E j \in 1 .. i - 1 : t[j].do \in {"factRead", "factInvalidate"} /\ t[j].id = f
      BY DEF Settles
    <3>1. f \in Known /\ f \in ClarFacts
      BY <2>1 DEF Carries, Valid
    <3>2. f \in Valid
      BY <3>1 DEF ClarsGrow, Known, Valid
    <3> QED BY <2>1, <3>2 DEF Settles, ClarsGrow
  <2> QED BY <2>1, <2>2, <2>4, <2>5 DEF c, x
<1>2. ASSUME t[i].do \in {"factRead", "factInvalidate"}
      PROVE  HasLost(t[i].id)'
  <2>1. HasLost(t[i].id)
    BY <1>2 DEF FitsClar
  <2> QED BY <2>1, LostStaysLost
<1>3. t[i].do = "clarConflict" => clars'[t[i].id] = NoClar
  BY DEF FitsClar, ClarsGrow
<1> QED BY <1>1, <1>2, <1>3

(* The clarification to store has an id. *)
LEMMA ClarSetId ==
    ASSUME NEW t \in Seq(ClarCommand), NEW i \in 1 .. Len(t)
    PROVE  /\ t[i] \in ClarCommand
           /\ t[i].do \in {"clarConflict", "clarDismiss", "clarSet", "clarAdd", "clarRead", "clarPending"} =>
                t[i].id \in ClarIds
           /\ t[i].do \in {"factRead", "factInvalidate", "catch"} => t[i].id \in ClarFacts
           /\ t[i].do \in {"clarConflict", "clarDismiss", "clarSet", "clarAdd", "clarRead", "clarPending",
                           "factRead", "factInvalidate", "catch", "clarList"}
<1>1. t[i] \in ClarCommand
  BY ElementOfSeq
<1> QED BY <1>1 DEF ClarCommand, ClarCalls, PendingCalls, LoserCalls, CaughtCalls, ListCalls

(* Only the first command of a list opens a clarification or reads the index. *)
LEMMA OpensFirst ==
    ASSUME NEW t \in Seq(ClarCommand), InClarOrder(t), NEW i \in 2 .. Len(t)
    PROVE  t[i].do \in {"clarSet", "clarAdd", "clarRead", "factRead", "factInvalidate", "catch"}
<1>1. Len(t) \in Nat /\ 1 \in 1 .. Len(t) /\ i \in 1 .. Len(t) /\ 1 < i
  OBVIOUS
<1>2. MayPrecede(t[1], t[i])
  BY <1>1 DEF InClarOrder
<1>3. t[1].do \in {"clarConflict", "clarDismiss", "clarSet", "clarAdd", "clarRead", "clarPending",
                   "factRead", "factInvalidate", "catch", "clarList"}
  BY <1>1, ClarSetId
<1> QED BY <1>2, <1>3 DEF MayPrecede, Opening, Losing

(* A command is sent: the rest is in order and fits. *)
LEMMA ClarRest ==
    ASSUME NEW t, NEW l, t # <<>>, ClarInPlace(t, l), t[1].do \notin Opening,
           t[1].do # "factInvalidate", t[1].do = "factRead" => t[1].id \notin Valid
    PROVE  ClarInPlace(Tail(t), l)
<1> DEFINE u == Tail(t)
<1>1. /\ t \in Seq(ClarCommand) /\ u \in Seq(ClarCommand) /\ Len(u) = Len(t) - 1 /\ Len(t) \in Nat
      /\ \A i \in 1 .. Len(u) : u[i] = t[i + 1]
  BY RestOfList DEF ClarInPlace
<1> HIDE DEF u
<1>2. InClarOrder(u)
  BY <1>1 DEF InClarOrder, ClarInPlace
<1>3. FitsClar(u, l)
  <2> SUFFICES ASSUME NEW i \in 1 .. Len(u)
               PROVE  /\ u[i].do = "clarSet" /\ u[1].do \notin Opening =>
                           /\ Carries(l.clar, u[i].id) /\ Settles(u, l.clar, i)
                           /\ i > 1 => clars[u[i].id] # NoClar
                      /\ u[i].do = "clarConflict" => clars[u[i].id] = NoClar
                      /\ u[i].do \in {"factRead", "factInvalidate"} => HasLost(u[i].id)
    BY DEF FitsClar
  <2>1. i + 1 \in 1 .. Len(t) /\ u[i] = t[i + 1] /\ i + 1 > 1
    BY <1>1
  <2>2. u[i].do = "clarSet" =>
          Carries(l.clar, u[i].id) /\ Settles(t, l.clar, i + 1) /\ clars[u[i].id] # NoClar
    BY <2>1 DEF FitsClar, ClarInPlace
  <2>3. ASSUME Settles(t, l.clar, i + 1)
        PROVE  Settles(u, l.clar, i)
    <3> SUFFICES ASSUME tally.faults = 0, l.clar.status = "resolved", l.clar.winner # Undecided,
                        NEW f \in (l.clar.facts \cap Valid) \ {l.clar.winner}
                 PROVE  \E j \in 1 .. i - 1 : u[j].do \in {"factRead", "factInvalidate"} /\ u[j].id = f
      BY DEF Settles
    <3>1. PICK j \in 1 .. (i + 1) - 1 : t[j].do \in {"factRead", "factInvalidate"} /\ t[j].id = f
      BY <2>3 DEF Settles
    <3>2. j # 1
      BY <3>1
    <3>3. j - 1 \in 1 .. i - 1 /\ u[j - 1] = t[(j - 1) + 1] /\ (j - 1) + 1 = j
      BY <1>1, <2>1, <3>1, <3>2
    <3> QED BY <3>1, <3>3
  <2>4. /\ u[i].do \in {"factRead", "factInvalidate"} => HasLost(u[i].id)
        /\ u[i].do = "clarConflict" => clars[u[i].id] = NoClar
    BY <2>1 DEF FitsClar, ClarInPlace
  <2> QED BY <2>2, <2>3, <2>4
<1>4. OpensToStore(u)
  <2>1. ASSUME u # <<>>
        PROVE  u[1].do \notin Opening
    <3>1. 2 \in 2 .. Len(t) /\ u[1] = t[2]
      BY <1>1, <2>1
    <3> QED BY <1>1, <3>1, OpensFirst DEF ClarInPlace, Opening
  <2> QED BY <2>1 DEF OpensToStore
<1> QED BY <1>1, <1>2, <1>3, <1>4 DEF ClarInPlace, u

(* A request that makes no clarification goes on with these commands. *)
LEMMA ClarMoves ==
    ASSUME ClarsTyped, ClarsInPlace, OneMaker, ClarsGrow, tally' \in Tallies,
           NEW r \in Requests, NEW t, NEW l, Moved(r, t, l),
           ClarInPlace(t, l) \/ ClarInPlace(t, l)',
           \A q \in Requests \ {r}, c \in ClarIds : MakesClar(q, c) => clars'[c] = NoClar,
           \A i \in 1 .. Len(t) : t[i].do = "clarConflict" \/ (t[i].do = "clarSet" /\ t[1].do \notin Opening) =>
             (clars[t[i].id] = NoClar => clars'[t[i].id] = NoClar),
           t # <<>> /\ t[1].do \in {"clarConflict", "clarSet"} /\ clars[t[1].id] = NoClar =>
             \A q \in Requests \ {r} : ~MakesClar(q, t[1].id)
    PROVE  ClarsInPlace' /\ OneMaker'
<1>1. /\ request' = [q \in Requests |-> request'[q]]
      /\ \A q \in Requests : q # r => request'[q] = request[q]
      /\ request'[r] = IF t = <<>> THEN Idle ELSE [todo |-> t, loc |-> l]
      /\ request'[r].todo = t
  BY BusyThen
<1>2. \A c \in ClarIds : clars'[c] = NoClar => clars[c] = NoClar
  BY DEF ClarsGrow
<1>3. ASSUME NEW q \in Requests, q # r
      PROVE  ClarInPlace(request[q].todo, request[q].loc)'
  <2>0. PICK s, x : s = request[q].todo /\ x = request[q].loc
    OBVIOUS
  <2>1. ClarInPlace(s, x) /\ request'[q].todo = s /\ request'[q].loc = x
    BY <1>1, <1>3, <2>0 DEF ClarsInPlace
  <2>2. ASSUME NEW i \in 1 .. Len(s), s[i].do = "clarConflict" \/ (s[i].do = "clarSet" /\ s[1].do \notin Opening)
        PROVE  s[i].id \in ClarIds /\ (clars[s[i].id] = NoClar => clars'[s[i].id] = NoClar)
    <3>1. s[i].id \in ClarIds
      BY <2>1, <2>2, ClarSetId DEF ClarInPlace
    <3>2. clars[s[i].id] = NoClar => i = 1
      <4>1. s[i].do = "clarConflict" => i = 1
        BY <2>1, OpensFirst DEF ClarInPlace
      <4>2. s[i].do = "clarSet" /\ s[1].do \notin Opening /\ clars[s[i].id] = NoClar => i = 1
        BY <2>1, <2>2 DEF ClarInPlace, FitsClar
      <4> QED BY <2>2, <4>1, <4>2
    <3>3. s # <<>>
      BY <2>1, <2>2 DEF ClarInPlace
    <3>4. clars[s[i].id] = NoClar => MakesClar(q, s[i].id)
      BY <2>0, <2>2, <3>2, <3>3 DEF MakesClar
    <3> QED BY <1>3, <3>1, <3>4
  <2>3. FitsClar(s, x)'
    BY <2>1, <2>2, FitGrows DEF ClarInPlace
  <2>4. ClarInPlace(s, x)'
    BY <2>1, <2>3 DEF ClarInPlace
  <2> QED BY <2>1, <2>4
<1>4. ASSUME ClarInPlace(t, l)
      PROVE  ClarInPlace(t, l)'
  <2>1. \A i \in 1 .. Len(t) : t[i].do \in {"clarSet", "clarConflict"} => t[i].id \in ClarIds
    BY <1>4, ClarSetId DEF ClarInPlace
  <2>2. FitsClar(t, l)'
    BY <1>4, <2>1, FitGrows DEF ClarInPlace
  <2> QED BY <1>4, <2>2 DEF ClarInPlace
<1>5. ClarInPlace(request[r].todo, request[r].loc)'
  <2>1. CASE t = <<>>
    <3>1. request'[r].todo = <<>>
      BY <1>1, <2>1
    <3> QED BY <3>1 DEF ClarInPlace, InClarOrder, OpensToStore, FitsClar
  <2>2. CASE t # <<>>
    BY <1>1, <1>4, <2>2
  <2> QED BY <2>1, <2>2
<1>6. ClarsInPlace'
  BY <1>1, <1>3, <1>5 DEF ClarsInPlace
<1>7. ASSUME NEW q \in Requests, q # r, NEW c \in ClarIds, MakesClar(q, c)'
      PROVE  MakesClar(q, c)
  BY <1>1, <1>2, <1>7 DEF MakesClar
<1>8. ASSUME NEW q \in Requests, q # r, NEW c \in ClarIds, MakesClar(q, c)', MakesClar(r, c)'
      PROVE  FALSE
  <2>1. MakesClar(q, c)
    BY <1>7, <1>8
  <2>2. t # <<>> /\ t[1].do \in {"clarConflict", "clarSet"} /\ clars[t[1].id] = NoClar /\ t[1].id = c
    BY <1>1, <1>2, <1>8 DEF MakesClar
  <2> QED BY <1>8, <2>1, <2>2
<1>9. OneMaker'
  <2>1. ASSUME NEW p \in Requests, NEW q \in Requests, NEW c \in ClarIds,
               MakesClar(p, c)', MakesClar(q, c)', p # q
        PROVE  FALSE
    <3>1. CASE p = r
      BY <1>8, <2>1, <3>1
    <3>2. CASE q = r
      BY <1>8, <2>1, <3>2
    <3>3. CASE p # r /\ q # r
      BY <1>7, <2>1, <3>3 DEF OneMaker
    <3> QED BY <3>1, <3>2, <3>3
  <2> QED BY <2>1 DEF OneMaker
<1> QED BY <1>6, <1>9

(* What is stored does not change: no fact loses, no clarification is told. *)
LEMMA NothingStored ==
    ASSUME clars' = clars, factState' = factState, named \subseteq named',
           tally'.faults = 0 => tally.faults = 0
    PROVE  /\ ClarsGrow
           /\ LosersAreInvalid => LosersAreInvalid'
           /\ WinnersStay => WinnersStay'
           /\ \A q \in Requests, c \in ClarIds : MakesClar(q, c) => clars'[c] = NoClar
<1>1. ClarsGrow
  BY DEF ClarsGrow
<1>2. LosersAreInvalid => LosersAreInvalid'
  BY DEF LosersAreInvalid, Valid
<1>3. WinnersStay => WinnersStay'
  BY DEF WinnersStay
<1>4. \A q \in Requests, c \in ClarIds : MakesClar(q, c) => clars'[c] = NoClar
  BY DEF MakesClar
<1> QED BY <1>1, <1>2, <1>3, <1>4

(* The next command of a request. *)
LEMMA ClarHead ==
    ASSUME ClarsInPlace, NEW r \in Requests, NEW do, At(r, do)
    PROVE  /\ request[r].todo # <<>> /\ request[r].todo \in Seq(ClarCommand)
           /\ ClarInPlace(request[r].todo, request[r].loc)
           /\ This(r) = request[r].todo[1] /\ Rest(r) = Tail(request[r].todo)
           /\ request[r].todo[1].do = do /\ Len(request[r].todo) >= 1 /\ Len(request[r].todo) \in Nat
           /\ r \in Busy
<1>1. r \in Busy /\ Head(request[r].todo).do = do
  BY DEF At
<1>2. request[r].todo # <<>> /\ ClarInPlace(request[r].todo, request[r].loc)
  BY <1>1 DEF Busy, ClarsInPlace
<1>3. request[r].todo \in Seq(ClarCommand)
  BY <1>2 DEF ClarInPlace
<1>4. Head(request[r].todo) = request[r].todo[1] /\ Len(request[r].todo) >= 1 /\ Len(request[r].todo) \in Nat
  BY <1>2, <1>3, RestOfList
<1> QED BY <1>1, <1>2, <1>3, <1>4 DEF This, Rest

(* A busy request goes on and stores nothing. *)
LEMMA ClarQuiet ==
    ASSUME ClarInv, NEW r \in Requests, r \in Busy, NEW t, NEW l, Moved(r, t, l),
           ClarInPlace(t, l) \/ ClarInPlace(t, l)',
           UNCHANGED <<clars, factState, named>>, clarIndex' \subseteq ClarIds,
           tally' \in Tallies, tally'.overlapped = tally.overlapped, tally'.faults = 0 => tally.faults = 0,
           t # <<>> /\ t[1].do \in {"clarConflict", "clarSet"} /\ clars[t[1].id] = NoClar =>
             MakesClar(r, t[1].id) /\ t[1].id \in ClarIds,
           tally'.faults = 0 => \A c \in ClarIds : Resolves(r, c) => Resolves(r, c)'
    PROVE  ClarInv'
<1>1. /\ ClarsGrow
      /\ LosersAreInvalid' /\ WinnersStay'
      /\ \A q \in Requests, c \in ClarIds : MakesClar(q, c) => clars'[c] = NoClar
  BY NothingStored DEF ClarInv
<1>2. ClarsInPlace' /\ OneMaker'
  <2>1. t # <<>> /\ t[1].do \in {"clarConflict", "clarSet"} /\ clars[t[1].id] = NoClar =>
          \A q \in Requests \ {r} : ~MakesClar(q, t[1].id)
    BY DEF ClarInv, OneMaker
  <2> QED BY <1>1, <2>1, ClarMoves DEF ClarInv
<1>3. ClarsTyped'
  BY DEF ClarInv, ClarsTyped, Known
<1>4. OneBusy'
  <2>1. Busy' \subseteq Busy
    BY BusyThen
  <2> QED BY <2>1 DEF ClarInv, OneBusy
<1>5. NamedOnce'
  <2> SUFFICES ASSUME ~tally'.overlapped, tally'.faults = 0
               PROVE  /\ \A n, m \in named : n[1] = m[1] => n = m
                      /\ \A n \in named : clars[n[1]].status = "pending" => \E q \in Requests : Resolves(q, n[1])'
    BY DEF NamedOnce
  <2>1. /\ \A n, m \in named : n[1] = m[1] => n = m
        /\ \A n \in named : clars[n[1]].status = "pending" => \E q \in Requests : Resolves(q, n[1])
    BY DEF ClarInv, NamedOnce
  <2>2. ASSUME NEW q \in Requests, NEW c \in ClarIds, Resolves(q, c)
        PROVE  Resolves(q, c)'
    <3>1. CASE q = r
      BY <2>2, <3>1
    <3>2. CASE q # r
      <4>1. request'[q] = request[q]
        BY <3>2, BusyThen
      <4> QED BY <2>2, <4>1 DEF Resolves
    <3> QED BY <3>1, <3>2
  <2>3. \A n \in named : n[1] \in ClarIds
    BY DEF ClarInv, ClarsTyped
  <2> QED BY <2>1, <2>2, <2>3
<1> QED BY <1>1, <1>2, <1>3, <1>4, <1>5 DEF ClarInv

(* A command is sent and the rest remains, with the locals as they are. *)
LEMMA ClarSent ==
    ASSUME ClarInv, NEW r \in Requests, NEW do, At(r, do), do \notin Opening, do # "clarSet",
           do # "factInvalidate", do = "factRead" => This(r).id \notin Valid,
           Done(r), UNCHANGED <<clars, factState, named>>, clarIndex' \subseteq ClarIds
    PROVE  ClarInv'
<1> DEFINE s == request[r].todo
<1>1. /\ s # <<>> /\ s \in Seq(ClarCommand) /\ ClarInPlace(s, request[r].loc)
      /\ This(r) = s[1] /\ Rest(r) = Tail(s) /\ s[1].do = do
      /\ Len(s) >= 1 /\ Len(s) \in Nat /\ r \in Busy
  BY ClarHead DEF ClarInv
<1>2. PICK t, l : t = Tail(s) /\ l = request[r].loc
  OBVIOUS
<1> HIDE DEF s
<1>3. ClarInPlace(t, l)
  BY <1>1, <1>2, ClarRest
<1>4. Moved(r, t, l) /\ tally' = tally
  BY <1>1, <1>2, GoesOn DEF Done, Sent, Loc, ClarInv, ClarsInPlace
<1>5. t \in Seq(ClarCommand) /\ Len(t) = Len(s) - 1 /\ \A i \in 1 .. Len(t) : t[i] = s[i + 1]
  BY <1>1, <1>2, RestOfList
<1>6. t # <<>> => 2 \in 2 .. Len(s) /\ t[1] = s[2]
  BY <1>1, <1>5
<1>7. t # <<>> => t[1].do \in {"clarSet", "clarAdd", "clarRead", "factRead", "factInvalidate", "catch"}
  BY <1>1, <1>6, OpensFirst DEF ClarInPlace
<1>8. t # <<>> /\ t[1].do \in {"clarConflict", "clarSet"} => clars[t[1].id] # NoClar
  <2>1. ASSUME t # <<>>, t[1].do \in {"clarConflict", "clarSet"}
        PROVE  clars[t[1].id] # NoClar
    <3>1. 2 \in 1 .. Len(s) /\ s[2].do = "clarSet" /\ s[1].do \notin Opening /\ t[1] = s[2] /\ 2 > 1
      BY <1>1, <1>6, <1>7, <2>1
    <3> QED BY <1>1, <3>1 DEF ClarInPlace, FitsClar
  <2> QED BY <2>1
<1>9. ASSUME NEW c \in ClarIds, Resolves(r, c)
      PROVE  Resolves(r, c)'
  <2>1. PICK i \in 1 .. Len(s) : s[i].do = "clarSet" /\ s[i].id = c
    BY <1>9 DEF Resolves, s
  <2>2. i - 1 \in 1 .. Len(t) /\ t[i - 1] = s[(i - 1) + 1] /\ (i - 1) + 1 = i
    BY <1>1, <1>5, <2>1
  <2>3. t # <<>> /\ t[1].do \notin Opening
    BY <1>5, <1>7, <2>2 DEF Opening
  <2>4. request'[r].todo = t /\ request'[r].loc = l
    <3>1. Moved(r, t, l) /\ t # <<>>
      BY <1>4, <2>3
    <3>2. request'[r] = IF t = <<>> THEN Idle ELSE [todo |-> t, loc |-> l]
      BY <3>1, BusyThen
    <3> QED BY <3>1, <3>2
  <2> QED BY <1>2, <1>9, <2>1, <2>2, <2>3, <2>4 DEF Resolves
<1>10. tally' \in Tallies /\ tally'.overlapped = tally.overlapped /\ (tally'.faults = 0 => tally.faults = 0)
  BY <1>4 DEF ClarInv, ClarsInPlace
<1> QED BY <1>1, <1>3, <1>4, <1>8, <1>9, <1>10, ClarQuiet

(* A refusal, or an error, leaves a list that fits: what catches an error is *)
(* among the losers.                                                         *)
LEMMA ClarUnwound ==
    ASSUME NEW t, NEW l, t # <<>>, ClarInPlace(t, l),
           UNCHANGED <<clars, factState, named>>, tally'.faults > 0
    PROVE  /\ ClarInPlace(Unwound(Tail(t)), l)'
           /\ Unwound(Tail(t)) # <<>> => Unwound(Tail(t))[1].do = "catch"
<1>0. PICK v, u : v = Tail(t) /\ u = Unwound(v)
  OBVIOUS
<1>1. /\ t \in Seq(ClarCommand) /\ v \in Seq(ClarCommand) /\ Len(v) = Len(t) - 1 /\ Len(t) \in Nat
      /\ \A i \in 1 .. Len(v) : v[i] = t[i + 1]
  BY <1>0, RestOfList DEF ClarInPlace
<1>2. \A c \in ClarCommand : c.do = "catch" => [c EXCEPT !.how = "failed"] \in ClarCommand
  BY DEF ClarCommand, ClarCalls, PendingCalls, LoserCalls, CaughtCalls, ListCalls
<1>3. /\ u \in Seq(ClarCommand)
      /\ \/ u = <<>> /\ \A i \in 1 .. Len(v) : v[i].do # "catch"
         \/ \E k \in 1 .. Len(v) :
              /\ v[k].do = "catch" /\ \A j \in 1 .. k - 1 : v[j].do # "catch"
              /\ Len(u) = Len(v) - k + 1
              /\ u[1] = [v[k] EXCEPT !.how = "failed"]
              /\ \A i \in 2 .. Len(u) : u[i] = v[k + i - 1]
  <2>1. u = Unwound(v)
    BY <1>0
  <2>2. /\ Unwound(v) \in Seq(ClarCommand)
        /\ \/ Unwound(v) = <<>> /\ \A i \in 1 .. Len(v) : v[i].do # "catch"
           \/ \E k \in 1 .. Len(v) :
                /\ v[k].do = "catch" /\ \A j \in 1 .. k - 1 : v[j].do # "catch"
                /\ Len(Unwound(v)) = Len(v) - k + 1
                /\ Unwound(v)[1] = [v[k] EXCEPT !.how = "failed"]
                /\ \A i \in 2 .. Len(Unwound(v)) : Unwound(v)[i] = v[k + i - 1]
    BY <1>1, <1>2, UnwoundIs, ZenonT(30)
  <2> QED BY <2>1, <2>2
<1>4. ASSUME u = <<>>
      PROVE  ClarInPlace(u, l)'
  BY <1>3, <1>4 DEF ClarInPlace, InClarOrder, OpensToStore, FitsClar
<1>5. ASSUME u # <<>>
      PROVE  ClarInPlace(u, l)' /\ u[1].do = "catch"
  <2>1. PICK k \in 1 .. Len(v) :
              /\ v[k].do = "catch"
              /\ Len(u) = Len(v) - k + 1
              /\ u[1] = [v[k] EXCEPT !.how = "failed"]
              /\ \A i \in 2 .. Len(u) : u[i] = v[k + i - 1]
    BY <1>3, <1>5
  <2>2. k + 1 \in 2 .. Len(t) /\ t[k + 1].do = "catch" /\ Len(u) = Len(t) - k
    <3>1. Len(u) = Len(v) - k + 1 /\ k \in 1 .. Len(v) /\ Len(v) = Len(t) - 1 /\ Len(t) \in Int
      BY <1>1, <2>1
    <3>2. k + 1 \in 2 .. Len(t) /\ Len(u) = Len(t) - k
      BY <3>1
    <3>3. v[k].do = "catch" /\ v[k] = t[k + 1]
      BY <1>1, <2>1
    <3> QED BY <3>2, <3>3
  <2>3. t[k + 1] \in ClarCommand
    BY <1>1, <2>2, ElementOfSeq
  <2>4. u[1].do = t[k + 1].do /\ u[1].id = t[k + 1].id
    <3>1. u[1] = [t[k + 1] EXCEPT !.how = "failed"]
      BY <1>1, <2>1
    <3> QED BY <2>3, <3>1 DEF ClarCommand, ClarCalls, PendingCalls, LoserCalls, CaughtCalls, ListCalls
  <2>5. \A i \in 2 .. Len(u) : i + k \in 2 .. Len(t) /\ u[i] = t[i + k]
    <3> SUFFICES ASSUME NEW i \in 2 .. Len(u)
                 PROVE  i + k \in 2 .. Len(t) /\ u[i] = t[i + k]
      OBVIOUS
    <3>0. k \in Nat /\ i \in Nat /\ Len(v) \in Nat /\ k >= 1 /\ i >= 2 /\ i <= Len(v) - k + 1 /\ Len(v) = Len(t) - 1
      <4>1. Len(u) = Len(v) - k + 1 /\ k \in 1 .. Len(v) /\ Len(v) = Len(t) - 1 /\ Len(t) \in Int
        BY <1>1, <2>1
      <4> QED BY <4>1
    <3>1. k + i - 1 \in 1 .. Len(v) /\ (k + i - 1) + 1 = i + k /\ i + k \in 2 .. Len(t)
      BY <1>1, <3>0
    <3>2. u[i] = v[k + i - 1] /\ v[k + i - 1] = t[(k + i - 1) + 1]
      BY <1>1, <2>1, <3>1
    <3> QED BY <3>1, <3>2
  <2>6. \A i \in 1 .. Len(u) : i + k \in 2 .. Len(t) /\ u[i].do = t[i + k].do /\ u[i].id = t[i + k].id
    BY <2>2, <2>4, <2>5
  <2>7. InClarOrder(u)
    <3> SUFFICES ASSUME NEW i \in 1 .. Len(u), NEW j \in 1 .. Len(u), i < j
                 PROVE  MayPrecede(u[i], u[j])
      BY DEF InClarOrder
    <3>1. i + k \in 1 .. Len(t) /\ j + k \in 1 .. Len(t) /\ i + k < j + k
      BY <1>1, <2>6
    <3>2. MayPrecede(t[i + k], t[j + k])
      BY <3>1 DEF InClarOrder, ClarInPlace
    <3> QED BY <2>6, <3>2 DEF MayPrecede
  <2>8. t[1].do \in Losing
    <3>1. 1 \in 1 .. Len(t) /\ MayPrecede(t[1], t[k + 1])
      BY <1>1, <2>2 DEF InClarOrder, ClarInPlace
    <3>2. t[1].do \in {"clarConflict", "clarDismiss", "clarSet", "clarAdd", "clarRead", "clarPending",
                       "factRead", "factInvalidate", "catch", "clarList"}
      BY <1>1, <3>1, ClarSetId
    <3> QED BY <2>2, <3>1, <3>2 DEF MayPrecede, Opening, Losing
  <2>9. FitsClar(u, l)'
    <3> SUFFICES ASSUME NEW i \in 1 .. Len(u)
                 PROVE  /\ u[i].do = "clarSet" /\ u[1].do \notin Opening =>
                             /\ Carries(l.clar, u[i].id)' /\ Settles(u, l.clar, i)'
                             /\ i > 1 => clars[u[i].id] # NoClar
                        /\ u[i].do = "clarConflict" => clars[u[i].id] = NoClar
                        /\ u[i].do \in {"factRead", "factInvalidate"} => HasLost(u[i].id)'
      BY DEF FitsClar
    <3>1. i + k \in 1 .. Len(t) /\ u[i].do = t[i + k].do /\ u[i].id = t[i + k].id /\ i + k > 1
      BY <2>6
    <3>2. u[i].do = "clarSet" => Carries(l.clar, u[i].id) /\ clars[u[i].id] # NoClar
      BY <2>8, <3>1 DEF FitsClar, ClarInPlace, Losing, Opening
    <3>3. /\ u[i].do \in {"factRead", "factInvalidate"} => HasLost(u[i].id)
          /\ u[i].do = "clarConflict" => clars[u[i].id] = NoClar
      BY <3>1 DEF FitsClar, ClarInPlace
    <3>4. Settles(u, l.clar, i)'
      BY DEF Settles
    <3>5. \A c : Carries(l.clar, c) => Carries(l.clar, c)'
      BY DEF Carries, Known
    <3>6. \A f : HasLost(f) => HasLost(f)'
      BY DEF HasLost
    <3> QED BY <3>2, <3>3, <3>4, <3>5, <3>6
  <2>10. OpensToStore(u) /\ u[1].do = "catch"
    BY <2>2, <2>4 DEF OpensToStore, Opening
  <2> QED BY <1>3, <2>7, <2>9, <2>10 DEF ClarInPlace
<1> QED BY <1>0, <1>4, <1>5

(* A request starts. *)
LEMMA ClarStarted ==
    ASSUME ClarInv, NEW r \in Requests, NEW t, NEW l, Start(r, t, l), UNCHANGED clarVars,
           ClarInPlace(t, l),
           t # <<>> /\ t[1].do \in {"clarConflict", "clarSet"} /\ clars[t[1].id] = NoClar =>
             \A q \in Busy : ~MakesClar(q, t[1].id)
    PROVE  ClarInv'
<1>1. /\ r \notin Busy /\ request[r].todo = <<>> /\ Moved(r, t, l)
      /\ tally' \in Tallies /\ tally'.faults = tally.faults
      /\ ~tally'.overlapped => ~tally.overlapped /\ Busy = {}
  BY Starts DEF ClarInv, ClarsInPlace
<1>2. UNCHANGED <<clars, clarIndex, factState, named>>
  BY DEF clarVars
<1>3. /\ ClarsGrow
      /\ LosersAreInvalid' /\ WinnersStay'
      /\ \A q \in Requests, c \in ClarIds : MakesClar(q, c) => clars'[c] = NoClar
  BY <1>1, <1>2, NothingStored DEF ClarInv
<1>4. ClarsInPlace' /\ OneMaker'
  <2>1. \A q \in Requests, c \in ClarIds : MakesClar(q, c) => q \in Busy
    BY DEF MakesClar, Busy
  <2>2. t # <<>> /\ t[1].do \in {"clarConflict", "clarSet"} /\ clars[t[1].id] = NoClar =>
          \A q \in Requests \ {r} : ~MakesClar(q, t[1].id)
    BY DEF MakesClar, Busy
  <2> QED BY <1>1, <1>2, <1>3, <2>2, ClarMoves DEF ClarInv
<1>5. ClarsTyped'
  BY <1>2 DEF ClarInv, ClarsTyped, Known
<1>6. OneBusy'
  <2>1. Busy' \subseteq Busy \cup {r}
    BY <1>1, BusyThen
  <2> QED BY <1>1, <2>1 DEF OneBusy
<1>7. NamedOnce'
  <2> SUFFICES ASSUME ~tally'.overlapped, tally'.faults = 0
               PROVE  /\ \A n, m \in named : n[1] = m[1] => n = m
                      /\ \A n \in named : clars[n[1]].status = "pending" => \E q \in Requests : Resolves(q, n[1])'
    BY <1>2 DEF NamedOnce
  <2>1. /\ \A n, m \in named : n[1] = m[1] => n = m
        /\ \A n \in named : clars[n[1]].status = "pending" => \E q \in Requests : Resolves(q, n[1])
    BY <1>1 DEF ClarInv, NamedOnce
  <2>2. ASSUME NEW q \in Requests, NEW c \in ClarIds, Resolves(q, c)
        PROVE  FALSE
    <3>1. q \in Busy
      BY <2>2 DEF Resolves, Busy
    <3> QED BY <1>1, <3>1
  <2>3. \A n \in named : n[1] \in ClarIds
    BY DEF ClarInv, ClarsTyped
  <2> QED BY <2>1, <2>2, <2>3
<1> QED BY <1>3, <1>4, <1>5, <1>6, <1>7 DEF ClarInv

(* The commands that store a clarification. *)
LEMMA SaveList ==
    ASSUME NEW c \in ClarIds
    PROVE  /\ save_clarification(c) \in Seq(ClarCommand) /\ Len(save_clarification(c)) = 2
           /\ save_clarification(c)[1] = [do |-> "clarSet", id |-> c, how |-> "-"]
           /\ save_clarification(c)[2] = [do |-> "clarAdd", id |-> c, how |-> "-"]
<1> DEFINE x == [do |-> "clarSet", id |-> c, how |-> "-"]
           y == [do |-> "clarAdd", id |-> c, how |-> "-"]
<1>1. x \in ClarCommand /\ y \in ClarCommand
  BY DEF ClarCommand, ClarCalls
<1>2. save_clarification(c) = <<x>> \o <<y>>
  BY DEF save_clarification, Cmd
<1> HIDE DEF x, y
<1>3. PICK rest : rest = <<y>>
  OBVIOUS
<1>4. rest \in Seq(ClarCommand) /\ Len(rest) = 1 /\ rest[1] = y
  BY <1>1, <1>3
<1>5. PICK t : t = <<x>> \o rest
  OBVIOUS
<1>6. t \in Seq(ClarCommand) /\ Len(t) = 2 /\ t[1] = x /\ \A i \in 1 .. 1 : t[i + 1] = rest[i]
  BY <1>1, <1>4, <1>5, FirstOfList
<1>7. t[2] = y
  <2>1. t[1 + 1] = rest[1]
    BY <1>6
  <2> QED BY <1>4, <2>1
<1> QED BY <1>2, <1>3, <1>5, <1>6, <1>7 DEF x, y

(* The commands that decide a clarification and store it. *)
LEMMA OpenList ==
    ASSUME NEW c \in ClarIds, NEW o \in ClarCommand, o.do \in Opening, o.id = c, NEW l
    PROVE  ClarInPlace(<<o>> \o save_clarification(c), l)
<1>1. PICK s : s = save_clarification(c)
  OBVIOUS
<1>2. /\ s \in Seq(ClarCommand) /\ Len(s) = 2
      /\ s[1] = [do |-> "clarSet", id |-> c, how |-> "-"] /\ s[2] = [do |-> "clarAdd", id |-> c, how |-> "-"]
  BY <1>1, SaveList
<1>3. PICK t : t = <<o>> \o s
  OBVIOUS
<1>4. t \in Seq(ClarCommand) /\ t[1] = o /\ Len(t) = 3 /\ \A i \in 1 .. Len(s) : t[i + 1] = s[i]
  BY <1>2, <1>3, FirstOfList, SMTT(30)
<1>5. t[2] = s[1] /\ t[3] = s[2]
  <2>1. 1 \in 1 .. Len(s) /\ 2 \in 1 .. Len(s)
    BY <1>2
  <2>2. t[1 + 1] = s[1] /\ t[2 + 1] = s[2]
    BY <1>4, <2>1
  <2> QED BY <2>2
<1>6. InClarOrder(t)
  <2>1. MayPrecede(t[1], t[2]) /\ MayPrecede(t[1], t[3]) /\ MayPrecede(t[2], t[3])
    BY <1>2, <1>4, <1>5 DEF MayPrecede, Opening, Losing
  <2>2. \A i, j \in 1 .. 3 : i < j => (i = 1 /\ j = 2) \/ (i = 1 /\ j = 3) \/ (i = 2 /\ j = 3)
    OBVIOUS
  <2> QED BY <1>4, <2>1, <2>2 DEF InClarOrder
<1>7. FitsClar(t, l)
  <2>1. \A i \in 1 .. 3 : i = 1 \/ i = 2 \/ i = 3
    OBVIOUS
  <2>2. \A i \in 1 .. 3 : t[i].do \notin {"factRead", "factInvalidate", "clarConflict"}
    BY <1>2, <1>4, <1>5, <2>1 DEF Opening
  <2> QED BY <1>4, <2>2 DEF FitsClar
<1>8. OpensToStore(t)
  <2>1. 2 \in 1 .. Len(t) /\ t[2].do = "clarSet" /\ t[2].id = t[1].id
    BY <1>2, <1>4, <1>5
  <2> QED BY <2>1 DEF OpensToStore
<1> QED BY <1>1, <1>3, <1>4, <1>6, <1>7, <1>8 DEF ClarInPlace

(* A list of one command. *)
LEMMA OneClarCommand ==
    ASSUME NEW o \in ClarCommand, NEW l, o.do \in {"clarConflict", "clarList"},
           o.do = "clarConflict" => clars[o.id] = NoClar
    PROVE  ClarInPlace(<<o>>, l)
<1>1. <<o>> \in Seq(ClarCommand) /\ Len(<<o>>) = 1 /\ <<o>>[1] = o
  OBVIOUS
<1>2. InClarOrder(<<o>>)
  BY <1>1 DEF InClarOrder
<1>3. FitsClar(<<o>>, l) /\ OpensToStore(<<o>>)
  BY <1>1 DEF FitsClar, OpensToStore, Opening
<1> QED BY <1>1, <1>2, <1>3 DEF ClarInPlace

LEMMA StartsKeep ==
    ASSUME ClarInv, NEW r \in Requests
    PROVE  /\ \A c \in ClarIds : GenerateClarifications(r, c) \/ DismissClarification(r, c) => ClarInv'
           /\ \A c \in ClarIds, w \in ClarFacts \cup {Undecided} : ResolveClarification(r, c, w) => ClarInv'
           /\ ListClarifications(r) => ClarInv'
<1> DEFINE l == [clar |-> NoClar]
<1>1. ASSUME NEW c \in ClarIds, GenerateClarifications(r, c)
      PROVE  ClarInv'
  <2> DEFINE o == [do |-> "clarConflict", id |-> c, how |-> "-"]
  <2>1. Start(r, <<o>>, l) /\ UNCHANGED clarVars /\ clars[c] = NoClar
        /\ \A q \in Busy : \A i \in DOMAIN request[q].todo : request[q].todo[i].id # c
    BY <1>1 DEF GenerateClarifications, AskClar, Cmd
  <2>2. o \in ClarCommand /\ o.do = "clarConflict" /\ o.id = c
    BY DEF ClarCommand, ClarCalls
  <2> HIDE DEF o, l
  <2>3. ClarInPlace(<<o>>, l) /\ <<o>>[1] = o
    BY <2>1, <2>2, OneClarCommand
  <2>4. \A q \in Busy : ~MakesClar(q, c)
    <3> SUFFICES ASSUME NEW q \in Busy, MakesClar(q, c)
                 PROVE  FALSE
      OBVIOUS
    <3>1. request[q].todo \in Seq(ClarCommand) /\ request[q].todo # <<>> /\ request[q].todo[1].id = c
      BY DEF MakesClar, ClarInv, ClarsInPlace, ClarInPlace, Busy
    <3>2. 1 \in DOMAIN request[q].todo
      BY <3>1, EmptySeq, LenProperties
    <3> QED BY <2>1, <3>1, <3>2
  <2> QED BY <2>1, <2>2, <2>3, <2>4, ClarStarted
<1>2. ASSUME NEW c \in ClarIds, DismissClarification(r, c)
      PROVE  ClarInv'
  <2> DEFINE o == [do |-> "clarDismiss", id |-> c, how |-> "-"]
  <2>1. Start(r, <<o>> \o save_clarification(c), l) /\ UNCHANGED clarVars
    BY <1>2 DEF DismissClarification, AskClar, Cmd
  <2>2. o \in ClarCommand /\ o.do = "clarDismiss" /\ o.id = c
    BY DEF ClarCommand, ClarCalls
  <2> HIDE DEF o, l
  <2>3. ClarInPlace(<<o>> \o save_clarification(c), l)
    BY <2>2, OpenList DEF Opening
  <2>4. (<<o>> \o save_clarification(c))[1] = o
    BY <2>2, SaveList, FirstOfList
  <2> QED BY <2>1, <2>2, <2>3, <2>4, ClarStarted
<1>3. ASSUME NEW c \in ClarIds, NEW w \in ClarFacts \cup {Undecided}, ResolveClarification(r, c, w)
      PROVE  ClarInv'
  <2> DEFINE o == [do |-> "clarPending", id |-> c, how |-> w]
  <2>1. Start(r, <<o>> \o save_clarification(c), l) /\ UNCHANGED clarVars
    BY <1>3 DEF ResolveClarification, AskClar, Cmd
  <2>2. o \in ClarCommand /\ o.do = "clarPending" /\ o.id = c
    BY DEF ClarCommand, PendingCalls
  <2> HIDE DEF o, l
  <2>3. ClarInPlace(<<o>> \o save_clarification(c), l)
    BY <2>2, OpenList DEF Opening
  <2>4. (<<o>> \o save_clarification(c))[1] = o
    BY <2>2, SaveList, FirstOfList
  <2> QED BY <2>1, <2>2, <2>3, <2>4, ClarStarted
<1>4. ASSUME ListClarifications(r)
      PROVE  ClarInv'
  <2> DEFINE o == [do |-> "clarList", id |-> "-", how |-> "-"]
  <2>1. Start(r, <<o>>, l) /\ UNCHANGED clarVars
    BY <1>4 DEF ListClarifications, AskClar, Cmd
  <2>2. o \in ClarCommand /\ o.do = "clarList"
    BY DEF ClarCommand, ListCalls
  <2> HIDE DEF o, l
  <2>3. ClarInPlace(<<o>>, l) /\ <<o>>[1] = o
    BY <2>2, OneClarCommand
  <2> QED BY <2>1, <2>2, <2>3, ClarStarted
<1> QED BY <1>1, <1>2, <1>3, <1>4

(* After a command that opens, only what stores the clarification comes. *)
LEMMA AfterOpening ==
    ASSUME NEW s, NEW l, s # <<>>, ClarInPlace(s, l), s[1].do \in Opening \cup {"clarConflict", "clarList", "clarRead"}
    PROVE  /\ Tail(s) \in Seq(ClarCommand) /\ Len(Tail(s)) = Len(s) - 1 /\ InClarOrder(Tail(s))
           /\ s[1].do \in {"clarConflict", "clarList"} => Tail(s) = <<>>
           /\ s[1].do \in Opening =>
                \A i \in 1 .. Len(Tail(s)) : Tail(s)[i].do \in {"clarSet", "clarAdd"} /\ Tail(s)[i].id = s[1].id
           /\ s[1].do = "clarRead" => \A i \in 1 .. Len(Tail(s)) : Tail(s)[i].do = "clarRead"
           /\ s[1].do \in Opening => \E i \in 1 .. Len(Tail(s)) : Tail(s)[i].do = "clarSet" /\ Tail(s)[i].id = s[1].id
           /\ Unwound(Tail(s)) = <<>>
<1>0. PICK u : u = Tail(s)
  OBVIOUS
<1>1. /\ s \in Seq(ClarCommand) /\ u \in Seq(ClarCommand) /\ Len(u) = Len(s) - 1 /\ Len(s) \in Nat /\ Len(s) >= 1
      /\ \A i \in 1 .. Len(u) : u[i] = s[i + 1]
  BY <1>0, RestOfList DEF ClarInPlace
<1>2. \A i \in 1 .. Len(u) : i + 1 \in 2 .. Len(s) /\ MayPrecede(s[1], s[i + 1]) /\ u[i] = s[i + 1]
  <2> SUFFICES ASSUME NEW i \in 1 .. Len(u)
               PROVE  i + 1 \in 2 .. Len(s) /\ MayPrecede(s[1], s[i + 1]) /\ u[i] = s[i + 1]
    OBVIOUS
  <2>1. i + 1 \in 1 .. Len(s) /\ 1 \in 1 .. Len(s) /\ 1 < i + 1
    BY <1>1
  <2> QED BY <1>1, <2>1 DEF ClarInPlace, InClarOrder
<1>3. InClarOrder(u)
  BY <1>1, SMTT(30) DEF InClarOrder, ClarInPlace
<1>4. \A i \in 1 .. Len(u) :
        IF s[1].do \in Opening THEN u[i].do \in {"clarSet", "clarAdd"} /\ u[i].id = s[1].id
        ELSE u[i].do = "clarRead"
  BY <1>2 DEF MayPrecede, Opening
<1>5. s[1].do \in {"clarConflict", "clarList"} => u = <<>>
  <2>1. ASSUME s[1].do \in {"clarConflict", "clarList"}, Len(u) # 0
        PROVE  FALSE
    <3>1. 1 \in 1 .. Len(u)
      BY <1>1, <2>1
    <3> QED BY <1>2, <2>1, <3>1 DEF MayPrecede
  <2> QED BY <1>1, <2>1, EmptySeq
<1>6. s[1].do \in Opening => \E i \in 1 .. Len(u) : u[i].do = "clarSet" /\ u[i].id = s[1].id
  <2> SUFFICES ASSUME s[1].do \in Opening
               PROVE  \E i \in 1 .. Len(u) : u[i].do = "clarSet" /\ u[i].id = s[1].id
    OBVIOUS
  <2>1. PICK j \in 1 .. Len(s) : s[j].do = "clarSet" /\ s[j].id = s[1].id
    BY DEF ClarInPlace, OpensToStore
  <2>2. j # 1
    BY <2>1 DEF Opening
  <2>3. j - 1 \in 1 .. Len(u) /\ (j - 1) + 1 = j
    BY <1>1, <2>1, <2>2
  <2> QED BY <1>1, <2>1, <2>3
<1>7. Unwound(u) = <<>>
  <2>1. \A i \in DOMAIN u : u[i].do # "catch"
    BY <1>1, <1>4
  <2> QED BY <2>1 DEF Unwound
<1>8. s[1].do = "clarRead" => s[1].do \notin Opening
  BY DEF Opening
<1> QED BY <1>0, <1>1, <1>3, <1>4, <1>5, <1>6, <1>7, <1>8

(* An empty list fits. *)
LEMMA ClarOver ==
    ASSUME NEW l
    PROVE  ClarInPlace(<<>>, l)
BY DEF ClarInPlace, InClarOrder, OpensToStore, FitsClar

LEMMA ClarConflictKeeps ==
    ASSUME ClarInv, NEW r \in Requests, ClarConflict(r)
    PROVE  ClarInv'
<1>1. PICK s, l : s = request[r].todo /\ l = request[r].loc
  OBVIOUS
<1>2. /\ s # <<>> /\ ClarInPlace(s, l) /\ s[1].do = "clarConflict" /\ r \in Busy
      /\ This(r) = s[1] /\ Rest(r) = Tail(s) /\ Len(s) >= 1 /\ Len(s) \in Nat
      /\ UNCHANGED <<clars, clarIndex, factState, named>> /\ clarIndex' \subseteq ClarIds
  BY <1>1, ClarHead DEF ClarConflict, ClarInv, clarVars, ClarsTyped
<1>3. CASE Done(r)
  <2>1. At(r, "clarConflict")
    BY DEF ClarConflict
  <2> QED BY <1>2, <1>3, <2>1, ClarSent DEF Opening
<1>4. CASE Insert(r, save_clarification(This(r).id), [clar |-> Pending(Valid)])
  <2>1. PICK c, x, t : c = s[1].id /\ x = [clar |-> Pending(Valid)] /\ t = save_clarification(c)
    OBVIOUS
  <2>2. c \in ClarIds /\ clars[c] = NoClar
    BY <1>2, <2>1, ClarSetId DEF ClarInPlace, FitsClar
  <2>3. /\ t \in Seq(ClarCommand) /\ Len(t) = 2
        /\ t[1] = [do |-> "clarSet", id |-> c, how |-> "-"] /\ t[2] = [do |-> "clarAdd", id |-> c, how |-> "-"]
    BY <2>1, <2>2, SaveList
  <2>4. Tail(s) = <<>>
    BY <1>2, AfterOpening
  <2>5. t \o Tail(s) = t
    BY <2>3, <2>4, ConcatEmptySeq
  <2>6. Moved(r, t, x) /\ tally' = tally
    BY <1>2, <1>4, <2>1, <2>5, GoesOn DEF Insert, ClarInv, ClarsInPlace
  <2>7. \A i, j \in 1 .. 2 : (i < j => i = 1 /\ j = 2) /\ (i = 1 \/ i = 2)
    OBVIOUS
  <2>8. InClarOrder(t) /\ OpensToStore(t)
    BY <2>3, <2>7 DEF InClarOrder, MayPrecede, OpensToStore, Opening, Losing
  <2>9. Carries(x.clar, c)
    BY <2>1, <2>2 DEF Carries, Pending, ClarRecord, Valid, Known
  <2>10. x.clar.status = "pending"
    BY <2>1 DEF Pending
  <2>11. FitsClar(t, x)
    BY <2>3, <2>7, <2>9, <2>10 DEF FitsClar, Settles
  <2>12. ClarInPlace(t, x)
    BY <2>3, <2>8, <2>11 DEF ClarInPlace
  <2>13. MakesClar(r, c)
    BY <1>1, <1>2, <2>1, <2>2 DEF MakesClar
  <2>14. \A d : ~Resolves(r, d)
    <3>1. \A i \in 1 .. Len(s) : i = 1
      <4>1. Len(s) = 1
        <5>0. PICK v : v = Tail(s)
          OBVIOUS
        <5>1. Len(v) = Len(s) - 1
          BY <1>2, <5>0, RestOfList DEF ClarInPlace
        <5>2. Len(v) = 0
          BY <2>4, <5>0
        <5> QED BY <1>2, <5>1, <5>2
      <4> QED BY <4>1
    <3> QED BY <1>1, <1>2, <3>1 DEF Resolves
  <2> QED BY <1>2, <2>2, <2>3, <2>6, <2>12, <2>13, <2>14, ClarQuiet DEF ClarInv, ClarsInPlace
<1> QED BY <1>2, <1>3, <1>4 DEF ClarConflict

LEMMA ClarDismissKeeps ==
    ASSUME ClarInv, NEW r \in Requests, ClarDismiss(r)
    PROVE  ClarInv'
<1>1. PICK s, l, u : s = request[r].todo /\ l = request[r].loc /\ u = Tail(s)
  OBVIOUS
<1>2. /\ s # <<>> /\ ClarInPlace(s, l) /\ s[1].do = "clarDismiss" /\ r \in Busy
      /\ This(r) = s[1] /\ Rest(r) = u /\ Len(s) >= 1 /\ Len(s) \in Nat
      /\ UNCHANGED <<clars, clarIndex, factState, named>> /\ clarIndex' \subseteq ClarIds
  BY <1>1, ClarHead DEF ClarDismiss, ClarInv, clarVars, ClarsTyped
<1>3. /\ u \in Seq(ClarCommand) /\ InClarOrder(u) /\ Unwound(u) = <<>>
      /\ \A i \in 1 .. Len(u) : u[i].do \in {"clarSet", "clarAdd"} /\ u[i].id = s[1].id
  <2>1. s[1].do \in Opening
    BY <1>2 DEF Opening
  <2>2. s # <<>> /\ ClarInPlace(s, l) /\ s[1].do \in Opening \cup {"clarConflict", "clarList", "clarRead"} 
    BY <1>1, <1>2, <2>1
  <2>3. /\ u \in Seq(ClarCommand) /\ InClarOrder(u) /\ Unwound(u) = <<>>
        /\ s[1].do \in Opening =>
             \A i \in 1 .. Len(u) : u[i].do \in {"clarSet", "clarAdd"} /\ u[i].id = s[1].id
        /\ s[1].do \in Opening => \E i \in 1 .. Len(u) : u[i].do = "clarSet" /\ u[i].id = s[1].id
    BY <1>1, <2>2, AfterOpening
  <2> QED BY <2>1, <2>3
<1>4. \A d : ~Resolves(r, d)
  BY <1>1, <1>2 DEF Resolves, Opening
<1>5. PICK c, read : c = s[1].id /\ read = clars[c]
  OBVIOUS
<1>6. c \in ClarIds /\ read \in ClarRecord \cup {NoClar} /\ read.facts \subseteq Known
  BY <1>2, <1>5, ClarSetId DEF ClarInPlace, ClarInv, ClarsTyped
<1>7. CASE read = NoClar
  <2>1. Moved(r, <<>>, l) /\ tally' = tally
    BY <1>1, <1>2, <1>3, <1>5, <1>7, GoesOn DEF ClarDismiss, Refuse, Loc, ClarInv, ClarsInPlace
  <2> QED BY <1>2, <1>4, <2>1, ClarOver, ClarQuiet DEF ClarInv, ClarsInPlace
<1>8. CASE read # NoClar
  <2>1. PICK x, m : x = [clar |-> m] /\ m = [read EXCEPT !.status = "dismissed"]
    OBVIOUS
  <2>2. Moved(r, u, x) /\ tally' = tally
    BY <1>2, <1>5, <1>8, <2>1, GoesOn DEF ClarDismiss, Sent, ClarInv, ClarsInPlace
  <2>3. m \in ClarRecord /\ m.facts = read.facts /\ m.status = "dismissed"
    BY <1>6, <1>8, <2>1 DEF ClarRecord
  <2>4. Carries(m, c)
    BY <1>5, <1>6, <1>8, <2>3 DEF Carries
  <2>5. FitsClar(u, x) /\ OpensToStore(u)
    <3>1. x.clar = m
      BY <2>1
    <3>2. \A i \in 1 .. Len(u) : Settles(u, x.clar, i)
      BY <2>3, <3>1 DEF Settles
    <3>3. FitsClar(u, x)
      BY <1>3, <1>5, <1>8, <2>4, <3>1, <3>2 DEF FitsClar
    <3>4. OpensToStore(u)
      <4>1. u # <<>> => 1 \in 1 .. Len(u)
        BY <1>3, EmptySeq, LenProperties
      <4> QED BY <1>3, <4>1 DEF OpensToStore, Opening
    <3> QED BY <3>3, <3>4
  <2>6. ClarInPlace(u, x)
    BY <1>3, <2>5 DEF ClarInPlace
  <2>7. u # <<>> => clars[u[1].id] # NoClar
    <3>1. u # <<>> => 1 \in 1 .. Len(u)
      BY <1>3, EmptySeq, LenProperties
    <3> QED BY <1>3, <1>5, <1>8, <3>1
  <2> QED BY <1>2, <1>4, <2>2, <2>6, <2>7, ClarQuiet DEF ClarInv, ClarsInPlace
<1> QED BY <1>7, <1>8

(* The commands that make the losers lose. *)
LEMMA LoserList ==
    ASSUME NEW L \in SUBSET ClarFacts
    PROVE  /\ LoseAll(L) \in Seq(ClarCommand) /\ Len(LoseAll(L)) \in Nat
           /\ \A i \in 1 .. Len(LoseAll(L)) :
                LoseAll(L)[i].do \in {"factRead", "catch"} /\ LoseAll(L)[i].id \in L
           /\ \A f \in L : \E i \in 1 .. Len(LoseAll(L)) : LoseAll(L)[i].do = "factRead" /\ LoseAll(L)[i].id = f
<1> DEFINE order == SetToSeq(L)
           n == Len(order)
           c(i) == [do |-> IF i % 2 = 1 THEN "factRead" ELSE "catch", id |-> order[(i + 1) \div 2], how |-> "-"]
           t == LoseAll(L)
<1>1. IsFiniteSet(L)
  BY ClarAssumption, FS_Subset
<1>2. /\ n \in Nat /\ \A j \in 1 .. n : order[j] \in L
      /\ \A x \in L : \E j \in 1 .. n : order[j] = x
  BY <1>1, SetAsList
<1>3. t = [i \in 1 .. 2 * n |-> c(i)]
  BY DEF LoseAll
<1> HIDE DEF order, n, t
<1>4. \A i \in 1 .. 2 * n : (i + 1) \div 2 \in 1 .. n
  BY <1>2
<1>5. \A i \in 1 .. 2 * n : c(i) \in ClarCommand /\ c(i).do \in {"factRead", "catch"} /\ c(i).id \in L
  <2> SUFFICES ASSUME NEW i \in 1 .. 2 * n
               PROVE  c(i) \in ClarCommand /\ c(i).do \in {"factRead", "catch"} /\ c(i).id \in L
    OBVIOUS
  <2>1. PICK f, d : f = order[(i + 1) \div 2] /\ d = IF i % 2 = 1 THEN "factRead" ELSE "catch"
    OBVIOUS
  <2>2. f \in L /\ d \in {"factRead", "catch"}
    BY <1>2, <1>4, <2>1
  <2>3. c(i) = [do |-> d, id |-> f, how |-> "-"]
    BY <2>1
  <2> QED BY <2>2, <2>3 DEF ClarCommand, LoserCalls, CaughtCalls
<1>6. t \in Seq(ClarCommand) /\ Len(t) = 2 * n /\ \A i \in 1 .. 2 * n : t[i] = c(i)
  <2> HIDE DEF c
  <2>1. 2 * n \in Nat
    BY <1>2
  <2> QED BY <1>3, <1>5, <2>1
<1>7. \A f \in L : \E i \in 1 .. 2 * n : t[i].do = "factRead" /\ t[i].id = f
  <2> SUFFICES ASSUME NEW f \in L
               PROVE  \E i \in 1 .. 2 * n : t[i].do = "factRead" /\ t[i].id = f
    OBVIOUS
  <2>1. PICK j \in 1 .. n : order[j] = f
    BY <1>2
  <2>2. 2 * j - 1 \in 1 .. 2 * n /\ (2 * j - 1) % 2 = 1 /\ ((2 * j - 1) + 1) \div 2 = j
    BY <1>2
  <2>3. t[2 * j - 1] = c(2 * j - 1)
    BY <1>6, <2>2
  <2>4. c(2 * j - 1) = [do |-> "factRead", id |-> f, how |-> "-"]
    BY <2>1, <2>2
  <2> QED BY <2>2, <2>3, <2>4
<1>8. 2 * n \in Nat
  BY <1>2
<1> HIDE DEF c
<1>9. \A i \in 1 .. 2 * n : t[i].do \in {"factRead", "catch"} /\ t[i].id \in L
  BY <1>5, <1>6
<1> QED BY <1>6, <1>7, <1>8, <1>9 DEF t

LEMMA ClarPendingKeeps ==
    ASSUME ClarInv, NEW r \in Requests, ClarPending(r)
    PROVE  ClarInv'
<1>1. PICK s, l, u : s = request[r].todo /\ l = request[r].loc /\ u = Tail(s)
  OBVIOUS
<1>2. /\ s # <<>> /\ ClarInPlace(s, l) /\ s[1].do = "clarPending" /\ r \in Busy
      /\ This(r) = s[1] /\ Rest(r) = u /\ Len(s) >= 1 /\ Len(s) \in Nat
      /\ UNCHANGED <<clars, clarIndex, factState>> /\ clarIndex' \subseteq ClarIds
  BY <1>1, ClarHead DEF ClarPending, ClarInv, ClarsTyped
<1>3. /\ u \in Seq(ClarCommand) /\ InClarOrder(u) /\ Unwound(u) = <<>>
      /\ \A i \in 1 .. Len(u) : u[i].do \in {"clarSet", "clarAdd"} /\ u[i].id = s[1].id
      /\ \E i \in 1 .. Len(u) : u[i].do = "clarSet" /\ u[i].id = s[1].id
  <2>1. s[1].do \in Opening
    BY <1>2 DEF Opening
  <2>2. s # <<>> /\ ClarInPlace(s, l) /\ s[1].do \in Opening \cup {"clarConflict", "clarList", "clarRead"} 
    BY <1>1, <1>2, <2>1
  <2>3. /\ u \in Seq(ClarCommand) /\ InClarOrder(u) /\ Unwound(u) = <<>>
        /\ s[1].do \in Opening =>
             \A i \in 1 .. Len(u) : u[i].do \in {"clarSet", "clarAdd"} /\ u[i].id = s[1].id
        /\ s[1].do \in Opening => \E i \in 1 .. Len(u) : u[i].do = "clarSet" /\ u[i].id = s[1].id
    BY <1>1, <2>2, AfterOpening
  <2> QED BY <2>1, <2>3
<1>4. \A d : ~Resolves(r, d)
  BY <1>1, <1>2 DEF Resolves, Opening
<1>5. PICK c, w, read : c = s[1].id /\ w = s[1].how /\ read = clars[c]
  OBVIOUS
<1>6. c \in ClarIds /\ w \in ClarFacts \cup {Undecided} /\ read \in ClarRecord \cup {NoClar} /\ read.facts \subseteq Known
  <2>1. s[1] \in ClarCommand /\ c \in ClarIds
    BY <1>2, <1>5, ClarSetId DEF ClarInPlace
  <2>2. s[1] \in PendingCalls
    BY <1>2, <2>1 DEF ClarCommand, ClarCalls, PendingCalls, LoserCalls, CaughtCalls, ListCalls
  <2> QED BY <1>5, <2>1, <2>2 DEF PendingCalls, ClarInv, ClarsTyped
<1>7. CASE read.status # "pending"
  <2>1. Moved(r, <<>>, l) /\ tally' = tally /\ named' = named
    BY <1>1, <1>2, <1>3, <1>5, <1>7, GoesOn DEF ClarPending, Refuse, Loc, ClarInv, ClarsInPlace
  <2> QED BY <1>2, <1>4, <2>1, ClarOver, ClarQuiet DEF ClarInv, ClarsInPlace
<1>8. CASE read.status = "pending"
  <2>1. PICK L, s1, m, x : /\ L = Losers(read.facts, w) /\ s1 = LoseAll(L)
                           /\ m = [read EXCEPT !.status = "resolved", !.winner = w] /\ x = [clar |-> m]
    OBVIOUS
  <2>2. PICK t : t = s1 \o u
    OBVIOUS
  <2>3. /\ Moved(r, t, x) /\ tally' = tally
        /\ named' = IF w = Undecided THEN named ELSE named \cup {<<c, w>>}
    BY <1>2, <1>5, <1>8, <2>1, <2>2, GoesOn DEF ClarPending, Insert, ClarInv, ClarsInPlace
  <2>4. read # NoClar /\ read \in ClarRecord
    BY <1>6, <1>8 DEF NoClar
  <2>5. m \in ClarRecord /\ m.facts = read.facts /\ m.status = "resolved" /\ m.winner = w
    BY <1>6, <2>1, <2>4 DEF ClarRecord
  <2>6. L \in SUBSET ClarFacts /\ (L # {} => w # Undecided) /\ \A f \in L : f \in read.facts /\ f # w
    BY <1>6, <2>1 DEF Losers, Known
  <2>7. /\ s1 \in Seq(ClarCommand)
        /\ \A i \in 1 .. Len(s1) : s1[i].do \in {"factRead", "catch"} /\ s1[i].id \in L
        /\ \A f \in L : \E i \in 1 .. Len(s1) : s1[i].do = "factRead" /\ s1[i].id = f
    BY <2>1, <2>6, LoserList
  <2>8. /\ t \in Seq(ClarCommand) /\ Len(t) = Len(s1) + Len(u) /\ Len(s1) \in Nat /\ Len(u) \in Nat
        /\ \A i \in 1 .. Len(s1) : t[i] = s1[i]
        /\ \A i \in 1 .. Len(u) : t[Len(s1) + i] = u[i]
        /\ \A i \in 1 .. Len(t) :
             \/ i \in 1 .. Len(s1) /\ t[i] = s1[i]
             \/ i - Len(s1) \in 1 .. Len(u) /\ t[i] = u[i - Len(s1)]
    BY <1>3, <2>2, <2>7, ListBefore
  <2>9. InClarOrder(t)
    <3> SUFFICES ASSUME NEW i \in 1 .. Len(t), NEW j \in 1 .. Len(t), i < j
                 PROVE  MayPrecede(t[i], t[j])
      BY DEF InClarOrder
    <3>1. CASE i \in 1 .. Len(s1) /\ j \in 1 .. Len(s1)
      <4>1. t[i] = s1[i] /\ t[j] = s1[j]
        BY <2>8, <3>1
      <4> QED BY <2>7, <3>1, <4>1 DEF MayPrecede, Opening, Losing
    <3>2. CASE i \in 1 .. Len(s1) /\ j - Len(s1) \in 1 .. Len(u)
      <4>1. t[i] = s1[i] /\ t[j] = u[j - Len(s1)]
        <5>1. ~(j \in 1 .. Len(s1))
          BY <2>8, <3>2
        <5> QED BY <2>8, <3>2, <5>1
      <4> QED BY <1>3, <2>7, <3>2, <4>1 DEF MayPrecede, Opening, Losing
    <3>3. CASE i - Len(s1) \in 1 .. Len(u) /\ j - Len(s1) \in 1 .. Len(u)
      <4>1. ~(j \in 1 .. Len(s1)) /\ ~(i \in 1 .. Len(s1)) /\ i - Len(s1) < j - Len(s1)
        BY <2>8, <3>3
      <4>2. t[i] = u[i - Len(s1)] /\ t[j] = u[j - Len(s1)]
        BY <2>8, <4>1
      <4> QED BY <1>3, <3>3, <4>1, <4>2 DEF InClarOrder
    <3> QED BY <2>8, <3>1, <3>2, <3>3
  <2>10. t # <<>> /\ t[1].do \notin Opening /\ t[1].do # "clarConflict"
    <3>1. t # <<>> /\ 1 \in 1 .. Len(t)
      BY <1>3, <2>8, EmptySeq
    <3>2. \/ 1 \in 1 .. Len(s1) /\ t[1] = s1[1]
          \/ 1 - Len(s1) \in 1 .. Len(u) /\ t[1] = u[1 - Len(s1)]
      BY <2>8, <3>1
    <3>3. t[1].do \in {"factRead", "catch", "clarSet", "clarAdd"}
      BY <1>3, <2>7, <3>2
    <3> QED BY <3>1, <3>3 DEF Opening
  <2>11. FitsClar(t, x)'
    <3> SUFFICES ASSUME NEW i \in 1 .. Len(t)
                 PROVE  /\ t[i].do = "clarSet" =>
                             /\ Carries(x.clar, t[i].id)' /\ Settles(t, x.clar, i)'
                             /\ clars'[t[i].id] # NoClar
                        /\ t[i].do # "clarConflict"
                        /\ t[i].do \in {"factRead", "factInvalidate"} => HasLost(t[i].id)'
      BY DEF FitsClar
    <3>1. CASE i \in 1 .. Len(s1) /\ t[i] = s1[i]
      <4>1. t[i].do \in {"factRead", "catch"} /\ t[i].id \in L
        BY <2>7, <3>1
      <4>2. HasLost(t[i].id)'
        <5>1. <<c, w>> \in named' /\ <<c, w>>[1] = c /\ <<c, w>>[2] = w
          BY <2>3, <2>6, <4>1
        <5>2. w # t[i].id /\ t[i].id \in clars'[c].facts
          BY <1>2, <1>5, <2>6, <4>1
        <5> QED BY <5>1, <5>2 DEF HasLost
      <4> QED BY <4>1, <4>2
    <3>2. CASE i - Len(s1) \in 1 .. Len(u) /\ t[i] = u[i - Len(s1)]
      <4>1. t[i].do \in {"clarSet", "clarAdd"} /\ t[i].id = c
        BY <1>3, <1>5, <3>2
      <4>2. Carries(m, c)'
        BY <1>2, <1>5, <1>6, <2>4, <2>5 DEF Carries, Known
      <4>3. Settles(t, m, i)'
        <5> SUFFICES ASSUME m.winner # Undecided, NEW f \in (m.facts \cap Valid) \ {m.winner}
                     PROVE  \E j \in 1 .. i - 1 : t[j].do \in {"factRead", "factInvalidate"} /\ t[j].id = f
          BY <1>2 DEF Settles, Valid
        <5>1. f \in L
          BY <2>1, <2>5 DEF Losers
        <5>2. PICK j \in 1 .. Len(s1) : s1[j].do = "factRead" /\ s1[j].id = f
          BY <2>7, <5>1
        <5>3. j \in 1 .. i - 1 /\ t[j] = s1[j]
          BY <2>8, <3>2, <5>2
        <5> QED BY <5>2, <5>3
      <4> QED BY <1>2, <1>5, <2>1, <2>4, <4>1, <4>2, <4>3
    <3> QED BY <2>8, <3>1, <3>2
  <2>12. ClarInPlace(t, x)'
    BY <2>8, <2>9, <2>10, <2>11 DEF ClarInPlace, OpensToStore
  <2>13. PICK k \in 1 .. Len(t) : t[k].do = "clarSet" /\ t[k].id = c
    <3>1. PICK i \in 1 .. Len(u) : u[i].do = "clarSet" /\ u[i].id = c
      BY <1>3, <1>5
    <3>2. Len(s1) + i \in 1 .. Len(t) /\ t[Len(s1) + i] = u[i]
      BY <2>8
    <3> QED BY <3>1, <3>2
  <2>14. \A i \in 1 .. Len(t) : t[i].do = "clarSet" => clars[t[i].id] # NoClar
    <3> SUFFICES ASSUME NEW i \in 1 .. Len(t), t[i].do = "clarSet"
                 PROVE  clars[t[i].id] # NoClar
      OBVIOUS
    <3>1. \/ i \in 1 .. Len(s1) /\ t[i] = s1[i]
          \/ i - Len(s1) \in 1 .. Len(u) /\ t[i] = u[i - Len(s1)]
      BY <2>8
    <3>2. t[i].id = c
      BY <1>3, <1>5, <2>7, <3>1
    <3> QED BY <1>5, <2>4, <3>2
  <2>15. /\ ClarsGrow
         /\ LosersAreInvalid' /\ WinnersStay'
         /\ \A q \in Requests, d \in ClarIds : MakesClar(q, d) => clars'[d] = NoClar
    BY <1>2, <2>3, NothingStored DEF ClarInv
  <2>16. ClarsInPlace' /\ OneMaker'
    <3>1. t[1].do = "clarSet" => clars[t[1].id] # NoClar
      BY <2>8, <2>10, <2>14, EmptySeq, LenProperties
    <3> QED BY <1>2, <2>3, <2>10, <2>12, <2>15, <3>1, ClarMoves DEF ClarInv, ClarsInPlace
  <2>17. ClarsTyped'
    <3>1. <<c, w>> \in ClarIds \X ClarFacts \/ w = Undecided
      BY <1>6
    <3>2. named' \subseteq ClarIds \X ClarFacts /\ \A n \in named' : clars[n[1]] # NoClar
      BY <1>5, <2>3, <2>4, <3>1 DEF ClarInv, ClarsTyped
    <3> QED BY <1>2, <3>2 DEF ClarInv, ClarsTyped, Known
  <2>18. OneBusy'
    <3>1. Busy' \subseteq Busy
      BY <1>2, <2>3, BusyThen, ZenonT(30)
    <3> QED BY <2>3, <3>1 DEF ClarInv, OneBusy
  <2>19. NamedOnce'
    <3> SUFFICES ASSUME ~tally.overlapped, tally.faults = 0
                 PROVE  /\ \A n, p \in named' : n[1] = p[1] => n = p
                        /\ \A n \in named' : clars[n[1]].status = "pending" => \E q \in Requests : Resolves(q, n[1])'
      BY <1>2, <2>3 DEF NamedOnce
    <3>1. /\ \A n, p \in named : n[1] = p[1] => n = p
          /\ \A n \in named : clars[n[1]].status = "pending" => \E q \in Requests : Resolves(q, n[1])
          /\ \A n \in named : n[1] \in ClarIds
          /\ \A p, q \in Busy : p = q
      BY DEF ClarInv, NamedOnce, ClarsTyped, OneBusy
    <3>2. \A q \in Requests, d \in ClarIds : ~Resolves(q, d)
      <4>1. ASSUME NEW q \in Requests, NEW d \in ClarIds, Resolves(q, d)
            PROVE  q \in Busy
        BY <4>1 DEF Resolves, Busy
      <4> QED BY <1>2, <1>4, <3>1, <4>1
    <3>3. \A n \in named : n[1] # c
      BY <1>5, <1>8, <3>1, <3>2
    <3>4. Resolves(r, c)'
      <4>1. request'[r].todo = t /\ request'[r].loc = x
        <5>1. request'[r] = IF t = <<>> THEN Idle ELSE [todo |-> t, loc |-> x]
          BY <2>3, BusyThen
        <5> QED BY <2>10, <5>1
      <4>2. x.clar.status = "resolved"
        BY <2>1, <2>5
      <4> QED BY <2>10, <2>13, <4>1, <4>2 DEF Resolves
    <3>5. \A n \in named' : n \in named \/ n[1] = c
      BY <2>3
    <3>6. \A n, p \in named' : n[1] = p[1] => n = p
      BY <2>3, <3>1, <3>3
    <3> QED BY <3>1, <3>2, <3>4, <3>5, <3>6
  <2> QED BY <2>15, <2>16, <2>17, <2>18, <2>19 DEF ClarInv
<1> QED BY <1>7, <1>8

LEMMA FactReadKeeps ==
    ASSUME ClarInv, NEW r \in Requests, FactRead(r)
    PROVE  ClarInv'
<1>1. PICK s, l, u, f : s = request[r].todo /\ l = request[r].loc /\ u = Tail(s) /\ f = s[1].id
  OBVIOUS
<1>2. /\ s # <<>> /\ ClarInPlace(s, l) /\ s[1].do = "factRead" /\ r \in Busy
      /\ This(r) = s[1] /\ Rest(r) = u /\ Len(s) >= 1 /\ Len(s) \in Nat
      /\ UNCHANGED <<clars, clarIndex, factState, named>> /\ clarIndex' \subseteq ClarIds
  BY <1>1, ClarHead DEF FactRead, ClarInv, clarVars, ClarsTyped
<1>3. CASE f \notin Valid
  <2>1. At(r, "factRead") /\ Done(r)
    BY <1>1, <1>2, <1>3 DEF FactRead
  <2> QED BY <1>1, <1>2, <1>3, <2>1, ClarSent DEF Opening
<1>4. CASE f \in Valid
  <2>1. PICK o, t : o = [do |-> "factInvalidate", id |-> f, how |-> "-"] /\ t = <<o>> \o u
    OBVIOUS
  <2>2. Moved(r, t, l) /\ tally' = tally
    <3>1. Insert(r, Cmd("factInvalidate", f, "-"), l)
      BY <1>1, <1>2, <1>4 DEF FactRead, Loc
    <3> QED BY <1>2, <2>1, <3>1, GoesOn DEF Insert, Cmd, ClarInv, ClarsInPlace
  <2>3. o \in ClarCommand /\ o.do = "factInvalidate" /\ o.id = f
    BY <1>4, <2>1 DEF ClarCommand, LoserCalls, Valid
  <2>4. s \in Seq(ClarCommand) /\ u \in Seq(ClarCommand) /\ Len(u) = Len(s) - 1 /\ \A i \in 1 .. Len(u) : u[i] = s[i + 1]
    BY <1>1, <1>2, RestOfList DEF ClarInPlace
  <2>5. /\ t \in Seq(ClarCommand) /\ t # <<>> /\ Len(t) = Len(s) /\ t[1] = o
        /\ \A i \in 1 .. Len(u) : t[i + 1] = u[i]
    BY <1>2, <2>1, <2>3, <2>4, FirstOfList
  <2>6. \A i \in 2 .. Len(s) : t[i] = s[i]
    <3> SUFFICES ASSUME NEW i \in 2 .. Len(s)
                 PROVE  t[i] = s[i]
      OBVIOUS
    <3>1. i - 1 \in 1 .. Len(u) /\ (i - 1) + 1 = i
      BY <1>2, <2>4
    <3>2. t[(i - 1) + 1] = u[i - 1] /\ u[i - 1] = s[(i - 1) + 1]
      BY <2>4, <2>5, <3>1
    <3> QED BY <3>1, <3>2
  <2>7. \A i \in 1 .. Len(s) : i = 1 \/ i \in 2 .. Len(s)
    BY <1>2
  <2>8. InClarOrder(t)
    <3> SUFFICES ASSUME NEW i \in 1 .. Len(t), NEW j \in 1 .. Len(t), i < j
                 PROVE  MayPrecede(t[i], t[j])
      BY DEF InClarOrder
    <3>1. MayPrecede(s[i], s[j]) /\ t[j] = s[j]
      BY <1>2, <2>5, <2>6 DEF ClarInPlace, InClarOrder
    <3>2. t[i] = s[i] \/ (t[i] = o /\ s[i].do = "factRead")
      BY <1>2, <2>5, <2>6, <2>7
    <3> QED BY <2>3, <3>1, <3>2 DEF MayPrecede, Opening, Losing
  <2>9. FitsClar(t, l)
    <3> SUFFICES ASSUME NEW i \in 1 .. Len(t)
                 PROVE  /\ t[i].do = "clarSet" /\ t[1].do \notin Opening =>
                             /\ Carries(l.clar, t[i].id) /\ Settles(t, l.clar, i)
                             /\ i > 1 => clars[t[i].id] # NoClar
                        /\ t[i].do = "clarConflict" => clars[t[i].id] = NoClar
                        /\ t[i].do \in {"factRead", "factInvalidate"} => HasLost(t[i].id)
      BY DEF FitsClar
    <3>1. HasLost(f)
      <4>1. 1 \in 1 .. Len(s)
        BY <1>2
      <4> QED BY <1>1, <1>2, <4>1 DEF ClarInPlace, FitsClar
    <3>2. CASE i = 1
      BY <2>3, <2>5, <3>1, <3>2
    <3>3. CASE i \in 2 .. Len(s)
      <4>1. t[i] = s[i] /\ i \in 1 .. Len(s) /\ s[1].do \notin Opening
        BY <1>2, <2>6, <3>3 DEF Opening
      <4>2. /\ s[i].do = "clarSet" =>
                 /\ Carries(l.clar, s[i].id) /\ Settles(s, l.clar, i)
                 /\ i > 1 => clars[s[i].id] # NoClar
            /\ s[i].do = "clarConflict" => clars[s[i].id] = NoClar
            /\ s[i].do \in {"factRead", "factInvalidate"} => HasLost(s[i].id)
        BY <1>2, <4>1 DEF ClarInPlace, FitsClar
      <4>3. ASSUME Settles(s, l.clar, i)
            PROVE  Settles(t, l.clar, i)
        <5> SUFFICES ASSUME tally.faults = 0, l.clar.status = "resolved", l.clar.winner # Undecided,
                            NEW g \in (l.clar.facts \cap Valid) \ {l.clar.winner}
                     PROVE  \E j \in 1 .. i - 1 : t[j].do \in {"factRead", "factInvalidate"} /\ t[j].id = g
          BY DEF Settles
        <5>1. PICK j \in 1 .. i - 1 : s[j].do \in {"factRead", "factInvalidate"} /\ s[j].id = g
          BY <4>3 DEF Settles
        <5>2. j \in 1 .. Len(s)
          BY <1>2, <3>3
        <5>3. CASE j = 1
          BY <1>1, <2>3, <2>5, <5>1, <5>3
        <5>4. CASE j \in 2 .. Len(s)
          BY <2>6, <5>1, <5>4
        <5> QED BY <2>7, <5>2, <5>3, <5>4
      <4> QED BY <4>1, <4>2, <4>3
    <3> QED BY <2>5, <2>7, <3>2, <3>3
  <2>10. ClarInPlace(t, l)
    BY <2>3, <2>5, <2>8, <2>9 DEF ClarInPlace, OpensToStore, Opening
  <2>11. ASSUME NEW c \in ClarIds, Resolves(r, c)
         PROVE  Resolves(r, c)'
    <3>1. PICK i \in 1 .. Len(s) : s[i].do = "clarSet" /\ s[i].id = c
      BY <1>1, <2>11 DEF Resolves
    <3>2. i \in 2 .. Len(s)
      BY <1>2, <2>7, <3>1
    <3>3. i \in 1 .. Len(t) /\ t[i] = s[i]
      BY <2>5, <2>6, <3>2
    <3>4. request'[r].todo = t /\ request'[r].loc = l
      <4>1. request'[r] = IF t = <<>> THEN Idle ELSE [todo |-> t, loc |-> l]
        BY <2>2, BusyThen
      <4> QED BY <2>5, <4>1
    <3>5. l.clar.status = "resolved"
      BY <1>1, <2>11 DEF Resolves
    <3> QED BY <2>3, <2>5, <3>1, <3>3, <3>4, <3>5 DEF Resolves, Opening
  <2> QED BY <1>2, <2>2, <2>3, <2>5, <2>10, <2>11, ClarQuiet DEF ClarInv, ClarsInPlace
<1> QED BY <1>3, <1>4

LEMMA FactCaughtKeeps ==
    ASSUME ClarInv, NEW r \in Requests, FactCaught(r)
    PROVE  ClarInv'
<1>1. At(r, "catch") /\ Done(r) /\ UNCHANGED <<clars, factState, named>> /\ clarIndex' \subseteq ClarIds
  BY DEF FactCaught, clarVars, ClarInv, ClarsTyped
<1> QED BY <1>1, ClarSent DEF Opening

LEMMA ClarAddKeeps ==
    ASSUME ClarInv, NEW r \in Requests, ClarAdd(r)
    PROVE  ClarInv'
<1>1. At(r, "clarAdd") /\ Done(r) /\ UNCHANGED <<clars, factState, named>>
  BY DEF ClarAdd
<1>2. clarIndex' \subseteq ClarIds
  <2>1. PICK s : s = request[r].todo
    OBVIOUS
  <2>2. s \in Seq(ClarCommand) /\ s[1].do = "clarAdd" /\ 1 \in 1 .. Len(s) /\ This(r) = s[1]
    BY <1>1, <2>1, ClarHead DEF ClarInv
  <2>3. This(r).id \in ClarIds
    BY <2>2, ClarSetId
  <2> QED BY <2>3 DEF ClarAdd, ClarInv, ClarsTyped
<1> QED BY <1>1, <1>2, ClarSent DEF Opening

LEMMA ClarListKeeps ==
    ASSUME ClarInv, NEW r \in Requests, ClarList(r)
    PROVE  ClarInv'
<1>1. PICK s, l : s = request[r].todo /\ l = request[r].loc
  OBVIOUS
<1>2. /\ s # <<>> /\ ClarInPlace(s, l) /\ s[1].do = "clarList" /\ r \in Busy
      /\ This(r) = s[1] /\ Rest(r) = Tail(s) /\ Len(s) >= 1 /\ Len(s) \in Nat
      /\ UNCHANGED <<clars, clarIndex, factState, named>> /\ clarIndex' \subseteq ClarIds
  BY <1>1, ClarHead DEF ClarList, ClarInv, clarVars, ClarsTyped
<1>3. PICK order, n : order = SetToSeq(clarIndex) /\ n = Len(order)
  OBVIOUS
<1>4. n \in Nat /\ DOMAIN order = 1 .. n /\ \A i \in 1 .. n : order[i] \in ClarIds
  <2>1. IsFiniteSet(clarIndex) /\ clarIndex \subseteq ClarIds
    BY ClarAssumption, FS_Subset DEF ClarInv, ClarsTyped
  <2> QED BY <1>3, <2>1, SetAsList
<1>5. PICK t : t = [i \in 1 .. n |-> [do |-> "clarRead", id |-> order[i], how |-> "-"]]
  OBVIOUS
<1>6. t \in Seq(ClarCommand) /\ Len(t) = n /\ \A i \in 1 .. n : t[i].do = "clarRead"
  <2>1. \A i \in 1 .. n : [do |-> "clarRead", id |-> order[i], how |-> "-"] \in ClarCommand
    BY <1>4 DEF ClarCommand, ClarCalls
  <2> QED BY <1>4, <1>5, <2>1
<1>7. Tail(s) = <<>>
  BY <1>2, AfterOpening
<1>8. Moved(r, t, l) /\ tally' = tally
  <2>1. Insert(r, t, l)
    BY <1>1, <1>3, <1>4, <1>5 DEF ClarList, Loc
  <2>2. t \o Tail(s) = t
    BY <1>6, <1>7, ConcatEmptySeq
  <2> QED BY <1>2, <2>1, <2>2, GoesOn DEF Insert, ClarInv, ClarsInPlace
<1>9. t # <<>> => t[1].do = "clarRead"
  BY <1>4, <1>6, EmptySeq
<1>10. InClarOrder(t) /\ FitsClar(t, l) /\ OpensToStore(t)
  BY <1>6, <1>9 DEF InClarOrder, MayPrecede, Opening, Losing, FitsClar, OpensToStore
<1>11. ClarInPlace(t, l)
  BY <1>6, <1>10 DEF ClarInPlace
<1>12. \A d : ~Resolves(r, d)
  <2>1. PICK v : v = Tail(s)
    OBVIOUS
  <2>2. Len(v) = Len(s) - 1 /\ Len(v) = 0
    BY <1>2, <1>7, <2>1, RestOfList DEF ClarInPlace
  <2>3. \A i \in 1 .. Len(s) : i = 1
    <3>1. Len(s) - 1 = 0 /\ Len(s) \in Nat
      BY <1>2, <2>2
    <3>2. Len(s) = 1
      BY <3>1
    <3> QED BY <3>2
  <2> QED BY <1>1, <1>2, <2>3 DEF Resolves
<1> QED BY <1>2, <1>8, <1>9, <1>11, <1>12, ClarQuiet DEF ClarInv, ClarsInPlace

LEMMA ClarReadKeeps ==
    ASSUME ClarInv, NEW r \in Requests, ClarRead(r)
    PROVE  ClarInv'
<1>1. PICK s, l, u, c, read : /\ s = request[r].todo /\ l = request[r].loc /\ u = Tail(s)
                              /\ c = s[1].id /\ read = clars[c]
  OBVIOUS
<1>2. /\ s # <<>> /\ ClarInPlace(s, l) /\ s[1].do = "clarRead" /\ r \in Busy
      /\ This(r) = s[1] /\ Rest(r) = u /\ Len(s) >= 1 /\ Len(s) \in Nat
      /\ UNCHANGED <<clars, clarIndex, factState, named>> /\ clarIndex' \subseteq ClarIds
  BY <1>1, ClarHead DEF ClarRead, ClarInv, clarVars, ClarsTyped
<1>3. CASE Done(r)
  <2>1. At(r, "clarRead")
    BY DEF ClarRead
  <2> QED BY <1>2, <1>3, <2>1, ClarSent DEF Opening
<1>4. CASE read.status = "pending" /\ c \in overdue
  <2>1. PICK o, t, m, x : /\ o = [do |-> "clarSet", id |-> c, how |-> "-"] /\ t = <<o>> \o u
                          /\ m = [read EXCEPT !.status = "expired"] /\ x = [clar |-> m]
    OBVIOUS
  <2>2. Moved(r, t, x) /\ tally' = tally
    <3>1. Insert(r, Cmd("clarSet", c, "-"), x)
      BY <1>1, <1>2, <1>4, <2>1 DEF ClarRead
    <3> QED BY <1>2, <2>1, <3>1, GoesOn DEF Insert, Cmd, ClarInv, ClarsInPlace
  <2>3. c \in ClarIds
    BY <1>1, <1>2, ClarSetId DEF ClarInPlace
  <2>4. read # NoClar /\ read \in ClarRecord /\ read.facts \subseteq Known
    BY <1>1, <1>4, <2>3 DEF ClarInv, ClarsTyped, NoClar
  <2>5. m \in ClarRecord /\ m.facts = read.facts /\ m.status = "expired"
    BY <2>1, <2>4 DEF ClarRecord
  <2>6. Carries(m, c)
    BY <1>1, <2>4, <2>5 DEF Carries
  <2>7. o \in ClarCommand /\ o.do = "clarSet" /\ o.id = c
    BY <2>1, <2>3 DEF ClarCommand, ClarCalls
  <2>8. u \in Seq(ClarCommand) /\ InClarOrder(u) /\ Len(u) = Len(s) - 1 /\ \A i \in 1 .. Len(u) : u[i].do = "clarRead"
    <3>1. s[1].do \in Opening \cup {"clarConflict", "clarList", "clarRead"}
      BY <1>2
    <3> QED BY <1>1, <1>2, <3>1, AfterOpening
  <2>9. /\ t \in Seq(ClarCommand) /\ t # <<>> /\ Len(t) = Len(s) /\ t[1] = o
        /\ \A i \in 1 .. Len(u) : t[i + 1] = u[i]
    BY <1>2, <2>1, <2>7, <2>8, FirstOfList
  <2>10. \A i \in 2 .. Len(t) : t[i].do = "clarRead"
    <3> SUFFICES ASSUME NEW i \in 2 .. Len(t)
                 PROVE  t[i].do = "clarRead"
      OBVIOUS
    <3>1. i - 1 \in 1 .. Len(u) /\ (i - 1) + 1 = i
      BY <1>2, <2>8, <2>9
    <3>2. t[(i - 1) + 1] = u[i - 1]
      BY <2>9, <3>1
    <3> QED BY <2>8, <3>1, <3>2
  <2>11. \A i \in 1 .. Len(t) : i = 1 \/ i \in 2 .. Len(t)
    BY <1>2, <2>9
  <2>12. InClarOrder(t)
    <3> SUFFICES ASSUME NEW i \in 1 .. Len(t), NEW j \in 1 .. Len(t), i < j
                 PROVE  MayPrecede(t[i], t[j])
      BY DEF InClarOrder
    <3>1. t[j].do = "clarRead"
      BY <2>10
    <3>2. t[i].do \in {"clarSet", "clarRead"}
      BY <2>7, <2>9, <2>10, <2>11
    <3> QED BY <3>1, <3>2 DEF MayPrecede, Opening, Losing
  <2>13. FitsClar(t, x)
    <3>1. x.clar = m
      BY <2>1
    <3>2. \A i : Settles(t, m, i)
      BY <2>5 DEF Settles
    <3>3. \A i \in 1 .. Len(t) : t[i].do = "clarSet" => i = 1
      BY <2>10, <2>11
    <3>4. \A i \in 1 .. Len(t) : t[i].do \in {"clarSet", "clarRead"}
      BY <2>7, <2>9, <2>10, <2>11
    <3> QED BY <1>1, <2>4, <2>6, <2>7, <2>9, <3>1, <3>2, <3>3, <3>4 DEF FitsClar
  <2>14. ClarInPlace(t, x)
    BY <2>7, <2>9, <2>12, <2>13 DEF ClarInPlace, OpensToStore, Opening
  <2>15. \A d : ~Resolves(r, d)
    <3>1. \A i \in 1 .. Len(s) : i = 1 \/ s[i].do = "clarRead"
      <4> SUFFICES ASSUME NEW i \in 1 .. Len(s), i # 1
                   PROVE  s[i].do = "clarRead"
        OBVIOUS
      <4>1. i - 1 \in 1 .. Len(u) /\ (i - 1) + 1 = i
        BY <1>2, <2>8
      <4>2. s[(i - 1) + 1] = u[i - 1]
        BY <1>1, <1>2, <4>1, RestOfList DEF ClarInPlace
      <4> QED BY <2>8, <4>1, <4>2
    <3> QED BY <1>1, <1>2, <3>1 DEF Resolves
  <2>16. clars[t[1].id] # NoClar
    BY <1>1, <2>4, <2>7, <2>9
  <2> QED BY <1>2, <2>2, <2>14, <2>15, <2>16, ClarQuiet DEF ClarInv, ClarsInPlace
<1> QED BY <1>1, <1>2, <1>3, <1>4 DEF ClarRead

LEMMA ClarSetKeeps ==
    ASSUME ClarInv, NEW r \in Requests, ClarSet(r)
    PROVE  ClarInv'
<1>1. PICK s, l, u, c, x : /\ s = request[r].todo /\ l = request[r].loc /\ u = Tail(s)
                           /\ c = s[1].id /\ x = l.clar
  OBVIOUS
<1>2. /\ s # <<>> /\ ClarInPlace(s, l) /\ s[1].do = "clarSet" /\ r \in Busy
      /\ This(r) = s[1] /\ Rest(r) = u /\ Len(s) >= 1 /\ Len(s) \in Nat /\ 1 \in 1 .. Len(s)
      /\ UNCHANGED <<clarIndex, factState, named>>
  BY <1>1, ClarHead DEF ClarSet, ClarInv
<1>3. c \in ClarIds
  BY <1>1, <1>2, ClarSetId DEF ClarInPlace
<1>4. Carries(x, c) /\ Settles(s, x, 1) /\ x # NoClar
  <2>1. Carries(x, c) /\ Settles(s, x, 1)
    BY <1>1, <1>2 DEF ClarInPlace, FitsClar, Opening
  <2> QED BY <2>1 DEF Carries, ClarRecord, NoClar
<1>5. clars' = [clars EXCEPT ![c] = x] /\ clars \in [ClarIds -> ClarRecord \cup {NoClar}]
  BY <1>1, <1>2 DEF ClarSet, Loc, ClarInv, ClarsTyped
<1>6. clars'[c] = x /\ \A d \in ClarIds : d # c => clars'[d] = clars[d]
  BY <1>3, <1>5
<1>7. Moved(r, u, l) /\ tally' = tally
  BY <1>1, <1>2, GoesOn DEF ClarSet, Done, Sent, Loc, ClarInv, ClarsInPlace
<1>8. ClarInPlace(u, l)
  BY <1>1, <1>2, ClarRest DEF Opening
<1>9. ClarsGrow
  <2>1. ASSUME NEW d \in ClarIds, clars[d] # NoClar
        PROVE  /\ clars'[d] # NoClar /\ clars'[d].facts = clars[d].facts
               /\ clars'[d].status = "pending" => clars[d].status = "pending"
    BY <1>4, <1>6, <2>1 DEF Carries
  <2> QED BY <1>2, <1>7, <2>1 DEF ClarsGrow
<1>10. u \in Seq(ClarCommand) /\ \A i \in 1 .. Len(u) : u[i].do \in {"clarAdd", "clarRead"}
  <2>1. s \in Seq(ClarCommand) /\ u \in Seq(ClarCommand) /\ Len(u) = Len(s) - 1 /\ \A i \in 1 .. Len(u) : u[i] = s[i + 1]
    BY <1>1, <1>2, RestOfList DEF ClarInPlace
  <2>2. \A i \in 1 .. Len(u) : MayPrecede(s[1], s[i + 1])
    <3> SUFFICES ASSUME NEW i \in 1 .. Len(u)
                 PROVE  MayPrecede(s[1], s[i + 1])
      OBVIOUS
    <3>1. i + 1 \in 1 .. Len(s) /\ 1 < i + 1
      BY <1>2, <2>1
    <3> QED BY <1>2, <3>1 DEF ClarInPlace, InClarOrder
  <2> QED BY <1>2, <2>1, <2>2 DEF MayPrecede
<1>11. u # <<>> => u[1].do \in {"clarAdd", "clarRead"}
  <2>1. u # <<>> => 1 \in 1 .. Len(u)
    BY <1>10, EmptySeq, LenProperties
  <2> QED BY <1>10, <2>1
<1>12. \A q \in Requests \ {r}, d \in ClarIds : MakesClar(q, d) => clars'[d] = NoClar
  <2> SUFFICES ASSUME NEW q \in Requests \ {r}, NEW d \in ClarIds, MakesClar(q, d)
               PROVE  clars'[d] = NoClar
    OBVIOUS
  <2>1. clars[d] = NoClar
    BY DEF MakesClar
  <2>2. d = c => MakesClar(r, c)
    BY <1>1, <1>2, <2>1 DEF MakesClar
  <2>3. d # c
    BY <2>2 DEF ClarInv, OneMaker
  <2> QED BY <1>6, <2>1, <2>3
<1>13. ClarsInPlace' /\ OneMaker'
  BY <1>7, <1>8, <1>9, <1>10, <1>11, <1>12, ClarMoves DEF ClarInv, ClarsInPlace
<1>14. ClarsTyped'
  <2>1. clars' \in [ClarIds -> ClarRecord \cup {NoClar}]
    BY <1>4, <1>5 DEF Carries
  <2>2. \A n \in named : n[1] \in ClarIds /\ clars[n[1]] # NoClar
    BY DEF ClarInv, ClarsTyped
  <2>3. \A n \in named : clars'[n[1]] # NoClar
    BY <1>9, <2>2 DEF ClarsGrow
  <2>4. \A d \in ClarIds : clars'[d].facts \subseteq Known
    BY <1>4, <1>6 DEF Carries, ClarInv, ClarsTyped
  <2> QED BY <1>2, <2>1, <2>3, <2>4 DEF ClarInv, ClarsTyped, Known
<1>15. OneBusy'
  <2>1. Busy' \subseteq Busy
    BY <1>2, <1>7, BusyThen, ZenonT(30)
  <2> QED BY <1>7, <2>1 DEF ClarInv, OneBusy
<1>16. LosersAreInvalid'
  <2> SUFFICES ASSUME tally.faults = 0, NEW d \in ClarIds,
                      clars'[d].status = "resolved", clars'[d].winner # Undecided
               PROVE  clars'[d].facts \cap Valid \subseteq {clars'[d].winner}
    BY <1>2, <1>7 DEF LosersAreInvalid, Valid
  <2>1. CASE d = c
    <3>1. (x.facts \cap Valid) \ {x.winner} = {}
      BY <1>4, <1>6, <2>1 DEF Settles
    <3> QED BY <1>6, <2>1, <3>1
  <2>2. CASE d # c
    BY <1>6, <2>2 DEF ClarInv, LosersAreInvalid
  <2> QED BY <2>1, <2>2
<1>17. WinnersStay'
  <2>1. \A n \in named : n[1] \in ClarIds /\ clars[n[1]] # NoClar
    BY DEF ClarInv, ClarsTyped
  <2>2. \A n \in named : clars'[n[1]].facts = clars[n[1]].facts
    BY <1>9, <2>1 DEF ClarsGrow
  <2> QED BY <1>2, <2>2 DEF ClarInv, WinnersStay
<1>18. NamedOnce'
  <2> SUFFICES ASSUME ~tally.overlapped, tally.faults = 0
               PROVE  /\ \A n, p \in named : n[1] = p[1] => n = p
                      /\ \A n \in named : clars'[n[1]].status = "pending" => \E q \in Requests : Resolves(q, n[1])'
    BY <1>2, <1>7 DEF NamedOnce
  <2>1. /\ \A n, p \in named : n[1] = p[1] => n = p
        /\ \A n \in named : clars[n[1]].status = "pending" => \E q \in Requests : Resolves(q, n[1])
        /\ \A n \in named : n[1] \in ClarIds /\ clars[n[1]] # NoClar
    BY DEF ClarInv, NamedOnce, ClarsTyped
  <2>2. ASSUME NEW n \in named, clars'[n[1]].status = "pending"
        PROVE  \E q \in Requests : Resolves(q, n[1])'
    <3>1. clars[n[1]].status = "pending"
      BY <1>9, <2>1, <2>2 DEF ClarsGrow
    <3>2. PICK q \in Requests : Resolves(q, n[1])
      BY <2>1, <3>1
    <3>3. CASE q # r
      <4>1. request'[q] = request[q]
        BY <1>7, <3>3, BusyThen
      <4> QED BY <3>2, <4>1 DEF Resolves
    <3>4. CASE q = r
      <4>1. PICK i \in 1 .. Len(s) : s[i].do = "clarSet" /\ s[i].id = n[1]
        BY <1>1, <3>2, <3>4 DEF Resolves
      <4>2. i = 1
        <5>1. ASSUME 1 < i
              PROVE  FALSE
          <6>1. MayPrecede(s[1], s[i])
            BY <1>2, <5>1 DEF ClarInPlace, InClarOrder
          <6> QED BY <1>2, <4>1, <6>1 DEF MayPrecede
        <5> QED BY <5>1
      <4>3. n[1] = c /\ x.status = "resolved"
        BY <1>1, <3>2, <3>4, <4>1, <4>2 DEF Resolves
      <4> QED BY <1>6, <2>2, <4>3
    <3> QED BY <3>3, <3>4
  <2> QED BY <2>1, <2>2
<1> QED BY <1>13, <1>14, <1>15, <1>16, <1>17, <1>18 DEF ClarInv

LEMMA FactInvalidateKeeps ==
    ASSUME ClarInv, NEW r \in Requests, FactInvalidate(r)
    PROVE  ClarInv'
<1>1. PICK s, l, u, f : s = request[r].todo /\ l = request[r].loc /\ u = Tail(s) /\ f = s[1].id
  OBVIOUS
<1>2. /\ s # <<>> /\ ClarInPlace(s, l) /\ s[1].do = "factInvalidate" /\ r \in Busy
      /\ This(r) = s[1] /\ Rest(r) = u /\ Len(s) >= 1 /\ Len(s) \in Nat /\ 1 \in 1 .. Len(s)
      /\ UNCHANGED <<clars, clarIndex, named>>
  BY <1>1, ClarHead DEF FactInvalidate, ClarInv
<1>3. f \in ClarFacts /\ HasLost(f)
  BY <1>1, <1>2, ClarSetId DEF ClarInPlace, FitsClar
<1>4. factState' = [factState EXCEPT ![f] = "invalid"] /\ factState \in [ClarFacts -> {"unknown", "valid", "invalid"}]
  BY <1>1, <1>2 DEF FactInvalidate, ClarInv, ClarsTyped
<1>5. factState'[f] = "invalid" /\ \A g \in ClarFacts : g # f => factState'[g] = factState[g]
  BY <1>3, <1>4
<1>6. Moved(r, u, l) /\ tally' = tally
  BY <1>1, <1>2, GoesOn DEF FactInvalidate, Done, Sent, Loc, ClarInv, ClarsInPlace
<1>7. ClarsGrow
  BY <1>2, <1>5, <1>6 DEF ClarsGrow
<1>8. f \in Known
  <2>1. \A n \in named : n[1] \in ClarIds
    BY DEF ClarInv, ClarsTyped
  <2> QED BY <1>3, <2>1 DEF HasLost, ClarInv, ClarsTyped
<1>9. Known' = Known /\ Valid' = Valid \ {f}
  BY <1>5, <1>8 DEF Known, Valid
<1>10. /\ s \in Seq(ClarCommand) /\ u \in Seq(ClarCommand) /\ Len(u) = Len(s) - 1 /\ \A i \in 1 .. Len(u) : u[i] = s[i + 1]
  BY <1>1, <1>2, RestOfList DEF ClarInPlace
<1>11. InClarOrder(u)
  BY <1>2, <1>10 DEF InClarOrder, ClarInPlace
<1>12. FitsClar(s, l)'
  <2>1. \A i \in 1 .. Len(s) : s[i].do \in {"clarConflict", "clarSet"} => s[i].id \in ClarIds
    BY <1>10, ClarSetId
  <2> QED BY <1>2, <1>7, <1>10, <2>1, FitGrows DEF ClarInv, ClarInPlace
<1>13. u # <<>> => u[1].do \notin Opening /\ u[1].do # "clarConflict"
  <2>1. ASSUME u # <<>>
        PROVE  u[1].do \in {"clarSet", "clarAdd", "clarRead", "factRead", "factInvalidate", "catch"}
    <3>1. 2 \in 2 .. Len(s) /\ u[1] = s[2]
      <4>1. 1 \in 1 .. Len(u)
        BY <1>10, <2>1, EmptySeq, LenProperties
      <4>2. u[1] = s[1 + 1] /\ 1 + 1 \in 2 .. Len(s)
        BY <1>2, <1>10, <4>1
      <4> QED BY <4>2
    <3> QED BY <1>2, <3>1, OpensFirst DEF ClarInPlace
  <2> QED BY <2>1 DEF Opening
<1>14. FitsClar(u, l)'
  <2> SUFFICES ASSUME NEW i \in 1 .. Len(u)
               PROVE  /\ u[i].do = "clarSet" =>
                           /\ Carries(l.clar, u[i].id)' /\ Settles(u, l.clar, i)'
                           /\ clars'[u[i].id] # NoClar
                      /\ u[i].do = "clarConflict" => clars'[u[i].id] = NoClar
                      /\ u[i].do \in {"factRead", "factInvalidate"} => HasLost(u[i].id)'
    BY DEF FitsClar
  <2>1. i + 1 \in 1 .. Len(s) /\ u[i] = s[i + 1] /\ i + 1 > 1 /\ s[1].do \notin Opening
    BY <1>2, <1>10 DEF Opening
  <2>2. /\ u[i].do = "clarSet" =>
             Carries(l.clar, u[i].id)' /\ Settles(s, l.clar, i + 1)' /\ clars'[u[i].id] # NoClar
        /\ u[i].do = "clarConflict" => clars'[u[i].id] = NoClar
        /\ u[i].do \in {"factRead", "factInvalidate"} => HasLost(u[i].id)'
    BY <1>12, <2>1 DEF FitsClar
  <2>3. ASSUME Settles(s, l.clar, i + 1)'
        PROVE  Settles(u, l.clar, i)'
    <3> SUFFICES ASSUME tally'.faults = 0, l.clar.status = "resolved", l.clar.winner # Undecided,
                        NEW g \in (l.clar.facts \cap Valid') \ {l.clar.winner}
                 PROVE  \E j \in 1 .. i - 1 : u[j].do \in {"factRead", "factInvalidate"} /\ u[j].id = g
      BY DEF Settles
    <3>1. PICK j \in 1 .. (i + 1) - 1 : s[j].do \in {"factRead", "factInvalidate"} /\ s[j].id = g
      BY <2>3 DEF Settles
    <3>2. j # 1
      BY <1>1, <1>9, <3>1
    <3>3. j - 1 \in 1 .. i - 1 /\ u[j - 1] = s[(j - 1) + 1] /\ (j - 1) + 1 = j
      BY <1>10, <2>1, <3>1, <3>2
    <3> QED BY <3>1, <3>3
  <2> QED BY <2>2, <2>3
<1>15. ClarInPlace(u, l)'
  BY <1>10, <1>11, <1>13, <1>14 DEF ClarInPlace, OpensToStore
<1>16. u # <<>> /\ u[1].do \in {"clarConflict", "clarSet"} => clars[u[1].id] # NoClar
  <2> SUFFICES ASSUME u # <<>>, u[1].do = "clarSet"
               PROVE  clars[u[1].id] # NoClar
    BY <1>13
  <2>1. 1 \in 1 .. Len(u)
    BY <1>10, EmptySeq, LenProperties
  <2>2. 2 \in 1 .. Len(s) /\ u[1] = s[2]
    <3>1. u[1] = s[1 + 1] /\ 1 + 1 \in 1 .. Len(s)
      BY <1>2, <1>10, <2>1
    <3> QED BY <3>1
  <2>3. 2 > 1 /\ s[1].do \notin Opening
    BY <1>2 DEF Opening
  <2> QED BY <1>2, <2>2, <2>3 DEF ClarInPlace, FitsClar
<1>17. ClarsInPlace' /\ OneMaker'
  <2>1. \A q \in Requests \ {r}, d \in ClarIds : MakesClar(q, d) => clars'[d] = NoClar
    BY <1>2 DEF MakesClar
  <2> QED BY <1>2, <1>6, <1>7, <1>15, <1>16, <2>1, ClarMoves DEF ClarInv, ClarsInPlace
<1>18. ClarsTyped'
  <2>1. factState' \in [ClarFacts -> {"unknown", "valid", "invalid"}]
    BY <1>4
  <2> QED BY <1>2, <1>9, <2>1 DEF ClarInv, ClarsTyped
<1>19. OneBusy'
  <2>1. Busy' \subseteq Busy
    BY <1>2, <1>6, BusyThen, ZenonT(30)
  <2> QED BY <1>6, <2>1 DEF ClarInv, OneBusy
<1>20. LosersAreInvalid'
  BY <1>2, <1>6, <1>9 DEF ClarInv, LosersAreInvalid
<1>21. WinnersStay'
  BY <1>2, <1>3, <1>5 DEF ClarInv, WinnersStay, HasLost
<1>22. NamedOnce'
  <2> SUFFICES ASSUME ~tally.overlapped, tally.faults = 0
               PROVE  /\ \A n, p \in named : n[1] = p[1] => n = p
                      /\ \A n \in named : clars[n[1]].status = "pending" => \E q \in Requests : Resolves(q, n[1])'
    BY <1>2, <1>6 DEF NamedOnce
  <2>1. /\ \A n, p \in named : n[1] = p[1] => n = p
        /\ \A n \in named : clars[n[1]].status = "pending" => \E q \in Requests : Resolves(q, n[1])
    BY DEF ClarInv, NamedOnce
  <2>2. ASSUME NEW q \in Requests, NEW c, Resolves(q, c)
        PROVE  Resolves(q, c)'
    <3>1. CASE q # r
      <4>1. request'[q] = request[q]
        BY <1>6, <3>1, BusyThen
      <4> QED BY <2>2, <4>1 DEF Resolves
    <3>2. CASE q = r
      <4>1. PICK i \in 1 .. Len(s) : s[i].do = "clarSet" /\ s[i].id = c
        BY <1>1, <2>2, <3>2 DEF Resolves
      <4>2. i # 1
        BY <1>2, <4>1
      <4>3. i - 1 \in 1 .. Len(u) /\ (i - 1) + 1 = i
        BY <1>2, <1>10, <4>1, <4>2
      <4>4. u[i - 1] = s[i] /\ u # <<>>
        <5>1. u[i - 1] = s[(i - 1) + 1]
          BY <1>10, <4>3
        <5> QED BY <1>10, <4>3, <5>1
      <4>5. request'[r].todo = u /\ request'[r].loc = l
        <5>1. request'[r] = IF u = <<>> THEN Idle ELSE [todo |-> u, loc |-> l]
          BY <1>6, BusyThen
        <5> QED BY <4>4, <5>1
      <4>6. l.clar.status = "resolved"
        BY <1>1, <2>2, <3>2 DEF Resolves
      <4> QED BY <1>13, <3>2, <4>1, <4>3, <4>4, <4>5, <4>6 DEF Resolves
    <3> QED BY <3>1, <3>2
  <2> QED BY <2>1, <2>2
<1> QED BY <1>17, <1>18, <1>19, <1>20, <1>21, <1>22 DEF ClarInv

(* A command fails, and the request is over or goes on where the error is *)
(* caught.                                                                 *)
LEMMA ClarFails ==
    ASSUME ClarInv, NEW r \in Requests, CommandFails(r), UNCHANGED clarVars
    PROVE  ClarInv'
<1>1. PICK s, l, t : s = request[r].todo /\ l = request[r].loc /\ t = Unwound(Tail(s))
  OBVIOUS
<1>2. /\ r \in Busy /\ s # <<>> /\ Moved(r, t, l)
      /\ tally' \in Tallies /\ tally'.faults > 0 /\ tally'.overlapped = tally.overlapped
  BY <1>1, Fails DEF Rest, Loc, ClarInv, ClarsInPlace
<1>3. UNCHANGED <<clars, factState, named>> /\ clarIndex' \subseteq ClarIds
  BY DEF clarVars, ClarInv, ClarsTyped
<1>4. ClarInPlace(s, l)
  BY <1>1 DEF ClarInv, ClarsInPlace
<1>5. ClarInPlace(t, l)' /\ (t # <<>> => t[1].do = "catch")
  BY <1>1, <1>2, <1>3, <1>4, ClarUnwound
<1>6. ~(tally'.faults = 0)
  BY <1>2
<1> QED BY <1>2, <1>3, <1>5, <1>6, ClarQuiet

(* What passes without a request: time, and another fact. *)
LEMMA ClarAside ==
    ASSUME ClarInv, UNCHANGED requestVars, UNCHANGED <<clars, clarIndex, named>>,
           \/ UNCHANGED factState
           \/ \E f \in ClarFacts : factState[f] = "unknown" /\ factState' = [factState EXCEPT ![f] = "valid"]
    PROVE  ClarInv'
<1>1. request' = request /\ tally' = tally
  BY DEF requestVars
<1>2. /\ factState' \in [ClarFacts -> {"unknown", "valid", "invalid"}]
      /\ Known \subseteq Known' /\ Valid' \cap Known \subseteq Valid
      /\ \A f \in ClarFacts : factState'[f] = "invalid" => factState[f] = "invalid"
      /\ ClarsGrow
  <2>1. factState \in [ClarFacts -> {"unknown", "valid", "invalid"}]
    BY DEF ClarInv, ClarsTyped
  <2>2. CASE UNCHANGED factState
    BY <1>1, <2>1, <2>2 DEF Known, Valid, ClarsGrow
  <2>3. ASSUME NEW f \in ClarFacts, factState[f] = "unknown", factState' = [factState EXCEPT ![f] = "valid"]
        PROVE  /\ factState' \in [ClarFacts -> {"unknown", "valid", "invalid"}]
               /\ Known \subseteq Known' /\ Valid' \cap Known \subseteq Valid
               /\ \A g \in ClarFacts : factState'[g] = "invalid" => factState[g] = "invalid"
               /\ ClarsGrow
    BY <1>1, <2>1, <2>3 DEF Known, Valid, ClarsGrow
  <2> QED BY <2>2, <2>3
<1>3. ASSUME NEW q \in Requests
      PROVE  ClarInPlace(request[q].todo, request[q].loc)'
  <2>0. PICK s, x : s = request[q].todo /\ x = request[q].loc
    OBVIOUS
  <2>1. ClarInPlace(s, x) /\ request'[q].todo = s /\ request'[q].loc = x
    BY <1>1, <2>0 DEF ClarInv, ClarsInPlace
  <2>2. \A i \in 1 .. Len(s) : s[i].do \in {"clarConflict", "clarSet"} => s[i].id \in ClarIds
    BY <2>1, ClarSetId DEF ClarInPlace
  <2>3. FitsClar(s, x)'
    BY <1>2, <2>1, <2>2, FitGrows DEF ClarInv, ClarInPlace
  <2>4. ClarInPlace(s, x)'
    BY <2>1, <2>3 DEF ClarInPlace
  <2> QED BY <2>1, <2>4
<1>4. ClarsInPlace'
  BY <1>1, <1>3 DEF ClarInv, ClarsInPlace
<1>5. OneMaker' /\ OneBusy' /\ NamedOnce'
  BY <1>1 DEF ClarInv, OneMaker, MakesClar, OneBusy, Busy, NamedOnce, Resolves
<1>6. ClarsTyped'
  <2>1. \A c \in ClarIds : clars[c].facts \subseteq Known'
    BY <1>2 DEF ClarInv, ClarsTyped
  <2> QED BY <1>2, <2>1 DEF ClarInv, ClarsTyped
<1>7. LosersAreInvalid'
  <2>1. \A c \in ClarIds : clars[c].facts \cap Valid' \subseteq clars[c].facts \cap Valid
    BY <1>2 DEF ClarInv, ClarsTyped
  <2> QED BY <1>1, <2>1 DEF ClarInv, LosersAreInvalid
<1>8. WinnersStay'
  BY <1>2 DEF ClarInv, WinnersStay
<1> QED BY <1>4, <1>5, <1>6, <1>7, <1>8 DEF ClarInv

LEMMA ClarInvInit ==
    ASSUME InitRequests, InitClarifications
    PROVE  ClarInv
<1>1. /\ request = [r \in Requests |-> Idle]
      /\ tally = [started |-> 0, faults |-> 0, overlapped |-> FALSE]
  BY DEF InitRequests
<1>2. PICK known \in SUBSET ClarFacts, made \in SUBSET ClarIds :
        /\ factState = [f \in ClarFacts |-> IF f \in known THEN "valid" ELSE "unknown"]
        /\ clars = [c \in ClarIds |-> IF c \in made THEN Pending(known) ELSE NoClar]
        /\ clarIndex = made /\ named = {}
  BY DEF InitClarifications
<1>3. ClarsTyped
  <2>1. Known = known
    BY <1>2 DEF Known
  <2>2. Pending(known) \in ClarRecord /\ Pending(known).facts = known /\ NoClar.facts = {}
    BY DEF Pending, ClarRecord, NoClar
  <2>3. clars \in [ClarIds -> ClarRecord \cup {NoClar}] /\ \A c \in ClarIds : clars[c].facts \subseteq known
    BY <1>2, <2>2
  <2> QED BY <1>2, <2>1, <2>3 DEF ClarsTyped
<1>4. \A r \in Requests : request[r].todo = <<>>
  BY <1>1 DEF Idle
<1>5. ClarsInPlace
  <2>1. \A l : ClarInPlace(<<>>, l)
    BY ClarOver
  <2> QED BY <1>1, <1>4, <2>1 DEF ClarsInPlace, Tallies
<1>6. OneMaker /\ OneBusy
  BY <1>4 DEF OneMaker, MakesClar, OneBusy, Busy
<1>7. NamedOnce
  BY <1>2 DEF NamedOnce
<1>8. LosersAreInvalid /\ WinnersStay
  <2>1. \A c \in ClarIds : clars[c].status # "resolved"
    BY <1>2 DEF Pending, NoClar
  <2>2. \A f \in ClarFacts : factState[f] # "invalid"
    BY <1>2
  <2> QED BY <2>1, <2>2 DEF LosersAreInvalid, WinnersStay
<1> QED BY <1>3, <1>5, <1>6, <1>7, <1>8 DEF ClarInv

LEMMA ClarInvNext ==
    ASSUME ClarInv, [NextClarifications]_<<requestVars, clarVars>>
    PROVE  ClarInv'
<1>1. CASE UNCHANGED <<requestVars, clarVars>>
  BY <1>1, ClarAside DEF clarVars
<1>2. CASE ClarsAge
  BY <1>2, ClarAside DEF ClarsAge
<1>3. ASSUME NEW f \in ClarFacts, FactArrives(f)
      PROVE  ClarInv'
  BY <1>3, ClarAside DEF FactArrives
<1>4. ASSUME NEW r \in Requests,
             \/ \E c \in ClarIds :
                  \/ GenerateClarifications(r, c) \/ DismissClarification(r, c)
                  \/ \E w \in ClarFacts \cup {Undecided} : ResolveClarification(r, c, w)
             \/ ListClarifications(r)
      PROVE  ClarInv'
  BY <1>4, StartsKeep
<1>5. ASSUME NEW r \in Requests,
             \/ ClarConflict(r) \/ ClarPending(r) \/ FactRead(r) \/ FactInvalidate(r) \/ FactCaught(r)
             \/ ClarDismiss(r) \/ ClarSet(r) \/ ClarAdd(r) \/ ClarList(r) \/ ClarRead(r)
             \/ CommandFails(r) /\ UNCHANGED clarVars
      PROVE  ClarInv'
  BY <1>5, ClarConflictKeeps, ClarPendingKeeps, FactReadKeeps, FactInvalidateKeeps, FactCaughtKeeps,
     ClarDismissKeeps, ClarSetKeeps, ClarAddKeeps, ClarListKeeps, ClarReadKeeps, ClarFails
<1> QED BY <1>1, <1>2, <1>3, <1>4, <1>5 DEF NextClarifications

LEMMA ClarInvHolds == ClarSpec => []ClarInv
<1>1. InitRequests /\ InitClarifications => ClarInv
  BY ClarInvInit
<1>2. ClarInv /\ [NextClarifications]_<<requestVars, clarVars>> => ClarInv'
  BY ClarInvNext
<1> QED BY <1>1, <1>2, PTL DEF ClarSpec

(* What is stored of clarifications and of their facts has the type that the *)
(* handlers give it, for any number of requests, clarifications and facts.   *)
THEOREM ClarTypesCorrect == ClarSpec => []ClarTypeOK
<1>1. ClarInv => ClarTypeOK
  <2>1. ASSUME ClarInv, NEW c \in ClarIds
        PROVE  /\ clars[c].status \in Statuses /\ clars[c].facts \subseteq ClarFacts
               /\ clars[c].winner \in ClarFacts \cup {Undecided}
    <3>1. clars[c] \in ClarRecord \cup {NoClar}
      BY <2>1 DEF ClarInv, ClarsTyped
    <3> QED BY <3>1 DEF ClarRecord, NoClar, Statuses
  <2> QED BY <2>1 DEF ClarInv, ClarsTyped, ClarTypeOK
<1> QED BY <1>1, ClarInvHolds, PTL

(* Resolving a clarification for a fact leaves no other fact of it valid     *)
(* unless a command fails, only a resolution for another fact invalidates    *)
(* one, and requests that run one after the other decide a clarification     *)
(* once: resolve_clarification, which reads the clarification and each loser *)
(* before it stores anything, beside listings, dismissals and generations.   *)
THEOREM ClarificationsStayTrue == ClarSpec => []ClarificationsHold
<1>1. ClarInv => ClarificationsHold
  <2>1. ClarInv => DecidedOnce
    <3> SUFFICES ASSUME ClarInv, ~tally.overlapped, NEW n \in named, NEW m \in named, n[1] = m[1], n # m
                 PROVE  tally.faults > 0
      BY DEF DecidedOnce
    <3>1. tally.faults # 0
      BY DEF ClarInv, NamedOnce
    <3>2. tally.faults \in Nat
      BY DEF ClarInv, ClarsInPlace, Tallies
    <3> QED BY <3>1, <3>2
  <2> QED BY <2>1 DEF ClarInv, ClarificationsHold
<1> QED BY <1>1, ClarInvHolds, PTL

-----------------------------------------------------------------------------
(* Conversations: the commands of their requests, and which follows which. *)

UserDo    == {"userSetExt", "userList", "userNeed", "userDel", "userDelExt", "userUnlist",
              "findSession", "sessionSet"}
SessionDo == {"sessionRead", "sessionDel", "sessionUnlist", "episodeUnlist", "episodeUnqueue",
              "episodeErase", "clearRange", "clearIndex", "complete", "summaryDue", "inflight"}
KnownDo   == {"sessionList", "sessionPut", "countRead", "episodeSet", "episodeList", "episodeQueue"}
ChatDo == {"findUser", "userSet", "episodeNeed", "work"} \cup UserDo \cup SessionDo \cup KnownDo

ChatIds == People \cup SessionNames \cup UserIds \cup SessionIds \cup EpisodeIds \cup {None}
ChatCommand == [do : ChatDo, id : ChatIds, how : {"-", "count", "update", "summary"}]

SessionDocs == [user : UserIds, name : SessionNames, count : Nat, head : EpisodeIds \cup {None},
                summary : EpisodeIds \cup {None}]
ChatLocal == [user : UserIds \cup {None}, session : SessionIds \cup {None}, copy : SessionDocs \cup {NoSession},
              episode : EpisodeIds \cup {None}, found : SUBSET People]

\* What a command is about.
ChatSuits(x) ==
    /\ x.do \in {"findUser", "userSet", "userSetExt", "userList"} => x.id \in People
    /\ x.do \in {"findSession", "sessionSet"} => x.id \in SessionNames
    /\ x.do \in {"episodeNeed", "episodeUnlist", "episodeUnqueue", "episodeErase", "work", "complete"} =>
         x.id \in EpisodeIds
    /\ x.do = "sessionPut" <=> x.how # "-"

ChatFollows(x, y) ==
    /\ x.do = "findUser" => y.do = "findSession"
    /\ x.do = "userSet" => y.do = "userSetExt" /\ y.id = x.id
    /\ x.do = "userSetExt" => y.do = "userList" /\ y.id = x.id
    /\ x.do = "userList" => y.do = "findSession"
    /\ x.do = "userNeed" => y.do \in {"sessionSet", "userDel"}
    /\ x.do = "userDel" => y.do = "userDelExt"
    /\ x.do = "userDelExt" => y.do = "userUnlist"
    /\ x.do = "findSession" => y.do = "episodeSet"
    /\ x.do = "sessionSet" => y.do = "sessionList"
    /\ x.do = "sessionList" => y.do = "episodeSet"
    /\ x.do = "sessionRead" =>
         \/ y.do \in {"sessionRead", "sessionDel", "episodeSet", "clearRange"}
         \/ y.do = "sessionPut" /\ y.how # "count"
    /\ x.do = "sessionDel" => y.do = "sessionUnlist"
    /\ x.do = "episodeSet" => y.do = "episodeList"
    /\ x.do = "episodeList" => y.do = "episodeQueue"
    /\ x.do = "episodeQueue" => y.do = "countRead"
    /\ x.do = "countRead" => y.do = "sessionPut" /\ y.how = "count"
    /\ x.do = "episodeNeed" => y.do = "episodeUnlist"
    /\ x.do = "episodeUnlist" => y.do = "episodeUnqueue"
    /\ x.do \in {"clearRange", "episodeUnqueue", "episodeErase"} =>
         y.do \in {"episodeErase", "episodeUnqueue", "clearIndex"}
    /\ x.do = "work" => y.do = "complete"
    /\ x.do = "complete" => y.do = "summaryDue"
    /\ x.do = "summaryDue" => y.do = "inflight"
    /\ x.do = "inflight" => y.do \in {"inflight", "sessionRead"}
    /\ x.do \notin {"userUnlist", "sessionPut", "sessionUnlist", "clearIndex"}

ChatEnds == {"userList", "userUnlist", "sessionList", "sessionPut", "sessionUnlist", "episodeErase", "clearIndex"}

InChatOrder(t) ==
    \A i \in 1 .. Len(t) : ChatSuits(t[i]) /\ IF i = Len(t) THEN t[i].do \in ChatEnds ELSE ChatFollows(t[i], t[i + 1])

-----------------------------------------------------------------------------
(* What is stored, and what a request knows.                               *)

ChatTyped ==
    /\ users \in [UserIds -> People \cup {NoUser}]
    /\ userIndex \subseteq chatPast.users
    /\ userExt \in [People -> chatPast.users \cup {None}]
    /\ sessions \in [SessionIds -> SessionDocs \cup {NoSession}]
    /\ \A s \in SessionIds : sessions[s] # NoSession => s \in chatPast.sessions
    /\ userSessions \in [UserIds -> SUBSET chatPast.sessions]
    /\ episodes \in [EpisodeIds -> [session : SessionIds, status : {"pending", "processing", "completed"}] \cup {NoEpisode}]
    /\ sessionEpisodes \in [SessionIds -> SUBSET EpisodeIds]
    /\ pendingQueue \subseteq EpisodeIds
    /\ chatPast \in [users : SUBSET UserIds, sessions : SUBSET SessionIds, episodes : SUBSET EpisodeIds,
                     made : SUBSET UserIds, in : [SessionIds -> SUBSET EpisodeIds], cleared : SUBSET SessionIds]
    /\ chatPast.made \subseteq chatPast.users
    /\ \A s \in SessionIds : /\ IsFiniteSet(chatPast.in[s]) /\ chatPast.in[s] \subseteq chatPast.episodes
                             /\ sessionEpisodes[s] \subseteq chatPast.in[s]
                             /\ s \notin chatPast.sessions => chatPast.in[s] = {}

\* The request has created an episode that its session does not count yet.
Adding(t) ==
    /\ t # <<>>
    /\ \/ t[1].do \in {"episodeList", "episodeQueue", "countRead"}
       \/ t[1].do = "sessionPut" /\ t[1].how = "count"

FitsChat(t, l) ==
    t # <<>> =>
      /\ l \in ChatLocal
      /\ t[1].do \in UserDo \cup {"sessionList"} => l.user \in UserIds
      /\ t[1].do \in {"userSetExt", "userList"} => l.user \in chatPast.users
      /\ t[1].do \in SessionDo => l.session \in SessionIds
      /\ t[1].do \in KnownDo => l.session \in chatPast.sessions
      /\ t[1].do = "sessionPut" => l.copy \in SessionDocs
      /\ Adding(t) => l.episode \in chatPast.in[l.session]
      /\ (\E i \in 1 .. Len(t) : t[i].how = "summary") => l.episode \in EpisodeIds

ChatInPlace(t, l) == t \in Seq(ChatCommand) /\ InChatOrder(t) /\ FitsChat(t, l)

ChatShape ==
    /\ request = [q \in Requests |-> request[q]] /\ tally \in Tallies
    /\ \A r \in Requests : ChatInPlace(request[r].todo, request[r].loc)
    /\ OneBusy /\ ChatTyped

-----------------------------------------------------------------------------
(* Requests beside each other: what a session counts.                      *)

Adds(r, s) == Adding(request[r].todo) /\ request[r].loc.session = s

\* The episodes of a session, but for those that are still to be counted.
Counted(s) == {e \in chatPast.in[s] : \A r \in Requests : Adds(r, s) => request[r].loc.episode # e}

OwnEpisodes ==
    \A q, r \in Requests :
      Adding(request[q].todo) /\ Adding(request[r].todo) /\ request[q].loc.episode = request[r].loc.episode
        => q = r

\* A document is never ahead of its session's episodes, the copy neither that
\* a request is about to store.
Within(doc, n, in) == doc.count <= n /\ (doc.head # None => doc.head \in in)
Behind(doc, s) == Within(doc, Cardinality(Counted(s)), chatPast.in[s])

HoldsBack(t, l) == t # <<>> /\ t[1].do = "sessionPut" => Behind(l.copy, l.session)

CountInv ==
    /\ OwnEpisodes
    /\ \A s \in SessionIds : Behind(sessions[s], s)
    /\ \A r \in Requests : HoldsBack(request[r].todo, request[r].loc)

-----------------------------------------------------------------------------
(* Requests one after the other.                                           *)

\* The request is about to list the user, or the session.
Hand(r, u) ==
    /\ request[r].todo # <<>> /\ request[r].todo[1].do \in {"userSetExt", "userList"}
    /\ request[r].loc.user = u

Lists(r, s) ==
    request[r].todo # <<>> /\ request[r].todo[1].do = "sessionList" /\ request[r].loc.session = s

\* A user that remember made, whom the listing does not show and who is not
\* about to be listed.
Stray(p) == {u \in chatPast.made \ userIndex : users[u] = p /\ \A r \in Requests : ~Hand(r, u)}

\* The request creates a user for an episode to remember.
Makes(t, l) ==
    \/ t[1].do = "userSet" /\ Len(Tail(t)) > 2
    \/ t[1].do \in {"userSetExt", "userList"} /\ l.user \in chatPast.made

FitsHome(t, l) ==
    t # <<>> =>
      /\ t[1].do = "sessionPut" => l.copy = sessions[l.session]
      /\ Makes(t, l) => \A u \in chatPast.made \cap userIndex : users[u] # t[1].id
      /\ t[1].do \in {"userSetExt", "userList"} => users[l.user] = t[1].id
      /\ t[1].do \in {"userDelExt", "userUnlist"} => users[l.user] = NoUser
      /\ t[1].do = "sessionUnlist" => sessions[l.session] = NoSession
      /\ t[1].do = "sessionList" => sessions[l.session].user = l.user

OnePlace ==
    \A u, v \in chatPast.made \cap userIndex : users[u] = users[v] /\ users[u] # NoUser => u = v

FewStray ==
    \A p \in People : IsFiniteSet(Stray(p)) /\ Cardinality(Stray(p)) <= tally.faults

Tallied ==
    \A s \in SessionIds : sessions[s] # NoSession => Cardinality(Counted(s)) <= sessions[s].count + tally.faults

AllListed ==
    tally.faults = 0 => \A s \in SessionIds : sessions[s] # NoSession =>
      s \in userSessions[sessions[s].user] \/ \E r \in Requests : Lists(r, s)

HomeStored == OnePlace /\ FewStray /\ Tallied /\ AllListed
HomeGood == HomeStored /\ \A r \in Requests : FitsHome(request[r].todo, request[r].loc)

HomeInv == ~tally.overlapped => HomeGood

ChatInv == ChatShape /\ CountInv /\ HomeInv

-----------------------------------------------------------------------------
(* Lists of commands.                                                       *)

(* No command of a request is there to catch an error. *)
LEMMA ChatUnwinds ==
    ASSUME NEW t \in Seq(ChatCommand)
    PROVE  Unwound(t) = <<>>
<1>1. \A i \in 1 .. Len(t) : t[i] \in ChatCommand
  BY ElementOfSeq
<1>2. \A x \in ChatCommand : x.do # "catch"
  BY DEF ChatCommand, ChatDo, UserDo, SessionDo, KnownDo
<1>3. \A i \in DOMAIN t : t[i].do # "catch"
  BY <1>1, <1>2, LenProperties
<1> QED BY <1>3 DEF Unwound

(* The commands, one by one. *)
LEMMA ChatCmds ==
    ASSUME NEW do \in ChatDo, NEW id \in ChatIds, NEW how \in {"-", "count", "update", "summary"}
    PROVE  /\ Cmd(do, id, how) = <<[do |-> do, id |-> id, how |-> how]>>
           /\ [do |-> do, id |-> id, how |-> how] \in ChatCommand
BY DEF Cmd, ChatCommand

(* What comes after the next command. *)
LEMMA ChatTail ==
    ASSUME NEW t, NEW l, t # <<>>, ChatInPlace(t, l)
    PROVE  /\ t \in Seq(ChatCommand) /\ Tail(t) \in Seq(ChatCommand) /\ InChatOrder(Tail(t))
           /\ l \in ChatLocal /\ ChatSuits(t[1]) /\ t[1] \in ChatCommand /\ Head(t) = t[1]
           /\ Len(t) \in Nat /\ Len(t) >= 1 /\ Len(Tail(t)) = Len(t) - 1
           /\ Tail(t) = <<>> => t[1].do \in ChatEnds
           /\ Tail(t) # <<>> => ChatFollows(t[1], Tail(t)[1]) /\ ChatSuits(Tail(t)[1]) /\ Tail(t)[1] \in ChatCommand
           /\ (\E i \in 1 .. Len(Tail(t)) : Tail(t)[i].how = "summary") => l.episode \in EpisodeIds
           /\ Unwound(Tail(t)) = <<>>
<1>1. PICK u : u = Tail(t)
  OBVIOUS
<1>2. /\ t \in Seq(ChatCommand) /\ u \in Seq(ChatCommand) /\ t[1] \in ChatCommand /\ Head(t) = t[1]
      /\ Len(t) \in Nat /\ Len(t) >= 1 /\ Len(u) = Len(t) - 1
      /\ \A i \in 1 .. Len(u) : u[i] = t[i + 1]
  BY <1>1, RestOfList DEF ChatInPlace
<1>3. \A i \in 1 .. Len(t) : ChatSuits(t[i]) /\ IF i = Len(t) THEN t[i].do \in ChatEnds ELSE ChatFollows(t[i], t[i + 1])
  BY DEF ChatInPlace, InChatOrder
<1>4. InChatOrder(u)
  <2> SUFFICES ASSUME NEW i \in 1 .. Len(u)
               PROVE  ChatSuits(u[i]) /\ IF i = Len(u) THEN u[i].do \in ChatEnds ELSE ChatFollows(u[i], u[i + 1])
    BY DEF InChatOrder
  <2>1. i + 1 \in 1 .. Len(t) /\ u[i] = t[i + 1] /\ (i = Len(u) <=> i + 1 = Len(t))
    BY <1>2
  <2>2. i # Len(u) => u[i + 1] = t[(i + 1) + 1]
    <3>1. i # Len(u) => i + 1 \in 1 .. Len(u)
      BY <1>2
    <3> QED BY <1>2, <3>1
  <2> QED BY <1>3, <2>1, <2>2
<1>5. 1 \in 1 .. Len(t)
  BY <1>2
<1>6. u = <<>> => t[1].do \in ChatEnds
  <2>1. u = <<>> => Len(t) = 1
    BY <1>2
  <2> QED BY <1>3, <1>5, <2>1
<1>7. u # <<>> => ChatFollows(t[1], u[1]) /\ ChatSuits(u[1]) /\ u[1] \in ChatCommand
  <2> SUFFICES ASSUME u # <<>>
               PROVE  ChatFollows(t[1], u[1]) /\ ChatSuits(u[1]) /\ u[1] \in ChatCommand
    OBVIOUS
  <2>1. Len(u) >= 1 /\ u[1] \in ChatCommand
    BY <1>2, RestOfList
  <2>2. 1 \in 1 .. Len(u) /\ 1 # Len(t) /\ 1 + 1 = 2 /\ 2 \in 1 .. Len(t)
    BY <1>2, <2>1
  <2>3. u[1] = t[1 + 1] /\ ChatFollows(t[1], t[1 + 1])
    BY <1>2, <1>3, <1>5, <2>2
  <2> QED BY <1>3, <2>1, <2>2, <2>3
<1>8. (\E i \in 1 .. Len(u) : u[i].how = "summary") => l.episode \in EpisodeIds
  <2>1. \A i \in 1 .. Len(u) : i + 1 \in 1 .. Len(t)
    BY <1>2
  <2> QED BY <1>2, <2>1 DEF ChatInPlace, FitsChat
<1>9. Unwound(u) = <<>>
  BY <1>2, ChatUnwinds
<1>10. l \in ChatLocal
  BY DEF ChatInPlace, FitsChat
<1> QED BY <1>1, <1>2, <1>3, <1>4, <1>5, <1>6, <1>7, <1>8, <1>9, <1>10

(* A request that is over waits for nothing. *)
LEMMA NoChat ==
    ASSUME NEW l
    PROVE  ChatInPlace(<<>>, l) /\ ~Adding(<<>>) /\ HoldsBack(<<>>, l) /\ FitsHome(<<>>, l)
BY DEF ChatInPlace, InChatOrder, FitsChat, Adding, HoldsBack, FitsHome

(* The next command of a request. *)
LEMMA ChatHead ==
    ASSUME ChatShape, NEW r \in Requests, NEW do, At(r, do)
    PROVE  /\ request[r].todo # <<>> /\ ChatInPlace(request[r].todo, request[r].loc) /\ r \in Busy
           /\ This(r) = request[r].todo[1] /\ Rest(r) = Tail(request[r].todo) /\ Loc(r) = request[r].loc
           /\ request[r].todo[1].do = do
           /\ tally \in Tallies /\ \A q \in Busy : ~tally.overlapped => q = r
           /\ \A l : Sent(r, l) => Moved(r, Tail(request[r].todo), l) /\ tally' = tally
           /\ Done(r) => Moved(r, Tail(request[r].todo), request[r].loc) /\ tally' = tally
           /\ Refuse(r) => Moved(r, <<>>, request[r].loc) /\ tally' = tally
           /\ \A m, l : Insert(r, m, l) => Moved(r, m \o Tail(request[r].todo), l) /\ tally' = tally
<1>1. PICK s, l : s = request[r].todo /\ l = request[r].loc
  OBVIOUS
<1>2. r \in Busy /\ Head(s).do = do /\ s # <<>>
  BY <1>1 DEF At, Busy
<1>3. ChatInPlace(s, l)
  BY <1>1 DEF ChatShape
<1>4. Head(s) = s[1] /\ Unwound(Tail(s)) = <<>>
  BY <1>2, <1>3, ChatTail
<1>5. tally \in Tallies /\ \A q \in Busy : ~tally.overlapped => q = r
  BY <1>2 DEF ChatShape, OneBusy
<1>6. \A x : Sent(r, x) => Moved(r, Tail(s), x) /\ tally' = tally
  BY <1>1, GoesOn DEF Sent, Rest, ChatShape
<1>7. Refuse(r) => Moved(r, <<>>, l) /\ tally' = tally
  BY <1>1, <1>4, GoesOn DEF Refuse, Rest, Loc, ChatShape
<1>8. \A m, x : Insert(r, m, x) => Moved(r, m \o Tail(s), x) /\ tally' = tally
  BY <1>1, GoesOn DEF Insert, Rest, ChatShape
<1>9. Done(r) => Moved(r, Tail(s), l) /\ tally' = tally
  BY <1>1, <1>6 DEF Done, Loc
<1> QED BY <1>1, <1>2, <1>3, <1>4, <1>5, <1>6, <1>7, <1>8, <1>9 DEF This, Rest, Loc

\* None of the commands stores a summary.
NoSummary(t) == \A i \in 1 .. Len(t) : t[i].how # "summary"

(* A command before a list. *)
LEMMA ChatCons ==
    ASSUME NEW do \in ChatDo, NEW id \in ChatIds, NEW how \in {"-", "count", "update", "summary"},
           ChatSuits([do |-> do, id |-> id, how |-> how]),
           NEW rest \in Seq(ChatCommand), InChatOrder(rest), rest = <<>> => do \in ChatEnds,
           rest # <<>> => ChatFollows([do |-> do, id |-> id, how |-> how], rest[1])
    PROVE  LET t == Cmd(do, id, how) \o rest IN
           /\ t \in Seq(ChatCommand) /\ InChatOrder(t) /\ t # <<>>
           /\ t[1] = [do |-> do, id |-> id, how |-> how] /\ Tail(t) = rest /\ Len(t) = Len(rest) + 1
           /\ how # "summary" /\ NoSummary(rest) => NoSummary(t)
<1>1. PICK c : c = [do |-> do, id |-> id, how |-> how]
  OBVIOUS
<1>2. c \in ChatCommand /\ Cmd(do, id, how) = <<c>> /\ ChatSuits(c) /\ c.do = do /\ c.how = how
  BY <1>1, ChatCmds
<1>3. PICK t : t = <<c>> \o rest
  OBVIOUS
<1>4. /\ t \in Seq(ChatCommand) /\ t # <<>> /\ Len(t) = Len(rest) + 1 /\ Len(rest) \in Nat
      /\ t[1] = c /\ Tail(t) = rest /\ \A i \in 1 .. Len(rest) : t[i + 1] = rest[i]
  BY <1>2, <1>3, FirstOfList
<1>5. InChatOrder(t)
  <2> SUFFICES ASSUME NEW i \in 1 .. Len(t)
               PROVE  ChatSuits(t[i]) /\ IF i = Len(t) THEN t[i].do \in ChatEnds ELSE ChatFollows(t[i], t[i + 1])
    BY DEF InChatOrder
  <2>1. CASE i = 1
    <3>1. rest = <<>> => i = Len(t)
      BY <1>4, <2>1
    <3>2. rest # <<>> => i # Len(t) /\ t[i + 1] = rest[1]
      <4>1. rest # <<>> => Len(rest) >= 1
        BY RestOfList
      <4>2. rest # <<>> => 1 \in 1 .. Len(rest) /\ i # Len(t)
        BY <1>4, <2>1, <4>1
      <4> QED BY <1>4, <2>1, <4>2
    <3> QED BY <1>1, <1>2, <1>4, <2>1, <3>1, <3>2
  <2>2. CASE i # 1
    <3>1. PICK j \in 1 .. Len(rest) : i = j + 1
      <4>1. i - 1 \in 1 .. Len(rest) /\ i = (i - 1) + 1
        BY <1>4, <2>2
      <4> QED BY <4>1
    <3>2. t[i] = rest[j] /\ (i = Len(t) <=> j = Len(rest))
      BY <1>4, <3>1
    <3>3. i # Len(t) => t[i + 1] = rest[j + 1]
      <4>1. i # Len(t) => j + 1 \in 1 .. Len(rest)
        BY <1>4, <3>1
      <4> QED BY <1>4, <3>1, <4>1
    <3> QED BY <3>2, <3>3 DEF InChatOrder
  <2> QED BY <2>1, <2>2
<1>6. how # "summary" /\ NoSummary(rest) => NoSummary(t)
  <2> SUFFICES ASSUME how # "summary", NoSummary(rest), NEW i \in 1 .. Len(t)
               PROVE  t[i].how # "summary"
    BY DEF NoSummary
  <2>1. i = 1 \/ (i - 1 \in 1 .. Len(rest) /\ (i - 1) + 1 = i)
    BY <1>4
  <2>2. i # 1 => t[i] = rest[i - 1] /\ i - 1 \in 1 .. Len(rest)
    BY <1>4, <2>1
  <2> QED BY <1>2, <1>4, <2>2 DEF NoSummary
<1> QED BY <1>1, <1>2, <1>3, <1>4, <1>5, <1>6

(* Lists of lists, read from the right. *)
LEMMA ChatAssociative == \A s, t, u \in Seq(ChatCommand) : (s \o t) \o u = s \o (t \o u)
BY ConcatAssociative

LEMMA ChatClosed == \A s, t \in Seq(ChatCommand) : s \o t \in Seq(ChatCommand)
BY ConcatProperties

LEMMA ChatIdsAre ==
    /\ None \in ChatIds /\ People \subseteq ChatIds /\ SessionNames \subseteq ChatIds /\ UserIds \subseteq ChatIds
    /\ SessionIds \subseteq ChatIds /\ EpisodeIds \subseteq ChatIds
BY DEF ChatIds

LEMMA EmptyChat ==
    <<>> \in Seq(ChatCommand) /\ InChatOrder(<<>>) /\ NoSummary(<<>>) /\ Len(<<>>) = 0
BY DEF InChatOrder, NoSummary

(* A command is a list of one. *)
LEMMA ChatCmdIsList ==
    ASSUME NEW do \in ChatDo, NEW id \in ChatIds, NEW how \in {"-", "count", "update", "summary"}
    PROVE  Cmd(do, id, how) \in Seq(ChatCommand)
<1>1. PICK c \in ChatCommand : Cmd(do, id, how) = <<c>>
  BY ChatCmds
<1> QED BY <1>1

\* A list of commands that starts with this one.
Leads(t, do) == t \in Seq(ChatCommand) /\ InChatOrder(t) /\ t # <<>> /\ t[1].do = do
Opens(t, do) == Leads(t, do) /\ NoSummary(t)

(* create_user, before what needs the user. *)
LEMMA CreateUserList ==
    ASSUME NEW p \in People, NEW rest \in Seq(ChatCommand), InChatOrder(rest),
           rest # <<>> => rest[1].do = "findSession"
    PROVE  /\ Leads(create_user(p) \o rest, "userSet") /\ (NoSummary(rest) => NoSummary(create_user(p) \o rest))
           /\ (create_user(p) \o rest)[1].id = p
           /\ create_user(p) \in Seq(ChatCommand) /\ Len(Tail(create_user(p) \o rest)) = Len(rest) + 2
<1> DEFINE a == Cmd("userSet", p, "-")  b == Cmd("userSetExt", p, "-")  c == Cmd("userList", p, "-")
<1>1. p \in ChatIds /\ Len(rest) \in Nat
  BY ChatIdsAre
<1>2. /\ a \in Seq(ChatCommand) /\ b \in Seq(ChatCommand) /\ c \in Seq(ChatCommand)
  BY <1>1, ChatCmdIsList DEF ChatDo, UserDo
<1> HIDE DEF a, b, c
<1>a. PICK z, y, ab, abc : z = c \o rest /\ y = b \o z /\ ab = a \o b /\ abc = ab \o c
  OBVIOUS
<1>3. abc \o rest = a \o y /\ abc \in Seq(ChatCommand)
  <2>1. ab \in Seq(ChatCommand) /\ z \in Seq(ChatCommand)
    BY <1>2, <1>a, ChatClosed
  <2>2. abc \in Seq(ChatCommand)
    BY <1>2, <1>a, <2>1, ChatClosed
  <2>3. (ab \o c) \o rest = ab \o (c \o rest)
    <3>1. ab \in Seq(ChatCommand) /\ c \in Seq(ChatCommand) /\ rest \in Seq(ChatCommand)
      BY <1>2, <2>1
    <3> QED BY <3>1, ChatAssociative, Zenon
  <2>4. (a \o b) \o z = a \o (b \o z)
    <3>1. a \in Seq(ChatCommand) /\ b \in Seq(ChatCommand) /\ z \in Seq(ChatCommand)
      BY <1>2, <2>1
    <3> QED BY <3>1, ChatAssociative, ZenonT(30)
  <2> QED BY <1>a, <2>2, <2>3, <2>4, Zenon
<1>4. z = c \o rest
  BY <1>a
<1>5. /\ z \in Seq(ChatCommand) /\ InChatOrder(z) /\ z # <<>> /\ (NoSummary(rest) => NoSummary(z))
      /\ z[1] = [do |-> "userList", id |-> p, how |-> "-"] /\ Len(z) = Len(rest) + 1
  BY <1>1, <1>4, ChatCons, ZenonT(30) DEF ChatDo, UserDo, ChatSuits, ChatEnds, ChatFollows, c
<1>6. y = b \o z
  BY <1>a
<1>7. /\ y \in Seq(ChatCommand) /\ InChatOrder(y) /\ y # <<>> /\ (NoSummary(rest) => NoSummary(y))
      /\ y[1] = [do |-> "userSetExt", id |-> p, how |-> "-"] /\ Len(y) = Len(z) + 1
  <2>1. ChatSuits([do |-> "userSetExt", id |-> p, how |-> "-"]) /\ ChatFollows([do |-> "userSetExt", id |-> p, how |-> "-"], z[1])
    BY <1>1, <1>5, <1>6 DEF ChatSuits, ChatFollows
  <2> QED BY <1>1, <1>5, <1>6, <2>1, ChatCons DEF ChatDo, UserDo, b
<1>8. PICK x : x = a \o y
  OBVIOUS
<1>9. /\ x \in Seq(ChatCommand) /\ InChatOrder(x) /\ x # <<>> /\ (NoSummary(rest) => NoSummary(x))
      /\ x[1] = [do |-> "userSet", id |-> p, how |-> "-"] /\ Tail(x) = y
  <2>1. ChatSuits([do |-> "userSet", id |-> p, how |-> "-"]) /\ ChatFollows([do |-> "userSet", id |-> p, how |-> "-"], y[1])
    BY <1>1, <1>7, <1>8 DEF ChatSuits, ChatFollows
  <2> QED BY <1>1, <1>7, <1>8, <2>1, ChatCons DEF ChatDo, UserDo, a
<1>10. create_user(p) = abc
  BY <1>a DEF create_user, a, b, c
<1>11. create_user(p) \o rest = x
  BY <1>3, <1>8, <1>10
<1>12. Len(Tail(x)) = Len(rest) + 2
  BY <1>1, <1>5, <1>7, <1>9
<1>13. Leads(x, "userSet") /\ (NoSummary(rest) => NoSummary(x)) /\ x[1].id = p
  BY <1>9 DEF Leads
<1> QED BY <1>3, <1>10, <1>11, <1>12, <1>13, Zenon

(* create_session, before what needs the session. *)
LEMMA CreateSessionList ==
    ASSUME NEW n \in SessionNames, NEW rest \in Seq(ChatCommand), InChatOrder(rest),
           rest # <<>> => rest[1].do = "episodeSet"
    PROVE  Leads(create_session(n) \o rest, "userNeed") /\ (NoSummary(rest) => NoSummary(create_session(n) \o rest)) /\ create_session(n) \in Seq(ChatCommand)
<1> DEFINE a == Cmd("userNeed", n, "-")  b == Cmd("sessionSet", n, "-")  c == Cmd("sessionList", n, "-")
<1>1. n \in ChatIds /\ Len(rest) \in Nat
  BY ChatIdsAre
<1>2. /\ a \in Seq(ChatCommand) /\ b \in Seq(ChatCommand) /\ c \in Seq(ChatCommand)
  BY <1>1, ChatCmdIsList DEF ChatDo, UserDo, KnownDo
<1> HIDE DEF a, b, c
<1>a. PICK z, y, ab, abc : z = c \o rest /\ y = b \o z /\ ab = a \o b /\ abc = ab \o c
  OBVIOUS
<1>3. abc \o rest = a \o y /\ abc \in Seq(ChatCommand)
  <2>1. ab \in Seq(ChatCommand) /\ z \in Seq(ChatCommand)
    BY <1>2, <1>a, ChatClosed
  <2>2. abc \in Seq(ChatCommand)
    BY <1>2, <1>a, <2>1, ChatClosed
  <2>3. (ab \o c) \o rest = ab \o (c \o rest)
    <3>1. ab \in Seq(ChatCommand) /\ c \in Seq(ChatCommand) /\ rest \in Seq(ChatCommand)
      BY <1>2, <2>1
    <3> QED BY <3>1, ChatAssociative, Zenon
  <2>4. (a \o b) \o z = a \o (b \o z)
    <3>1. a \in Seq(ChatCommand) /\ b \in Seq(ChatCommand) /\ z \in Seq(ChatCommand)
      BY <1>2, <2>1
    <3> QED BY <3>1, ChatAssociative, SMTT(30)
  <2> QED BY <1>a, <2>2, <2>3, <2>4, Zenon
<1>4. z = c \o rest
  BY <1>a
<1>5. /\ z \in Seq(ChatCommand) /\ InChatOrder(z) /\ z # <<>> /\ (NoSummary(rest) => NoSummary(z))
      /\ z[1] = [do |-> "sessionList", id |-> n, how |-> "-"]
  BY <1>1, <1>4, ChatCons DEF ChatDo, KnownDo, ChatSuits, ChatEnds, ChatFollows, c
<1>6. y = b \o z
  BY <1>a
<1>7. /\ y \in Seq(ChatCommand) /\ InChatOrder(y) /\ y # <<>> /\ (NoSummary(rest) => NoSummary(y))
      /\ y[1] = [do |-> "sessionSet", id |-> n, how |-> "-"]
  <2>1. ChatSuits([do |-> "sessionSet", id |-> n, how |-> "-"]) /\ ChatFollows([do |-> "sessionSet", id |-> n, how |-> "-"], z[1])
    BY <1>1, <1>5, <1>6 DEF ChatSuits, ChatFollows
  <2> QED BY <1>1, <1>5, <1>6, <2>1, ChatCons DEF ChatDo, UserDo, b
<1>8. PICK x : x = a \o y
  OBVIOUS
<1>9. /\ x \in Seq(ChatCommand) /\ InChatOrder(x) /\ x # <<>> /\ (NoSummary(rest) => NoSummary(x))
      /\ x[1] = [do |-> "userNeed", id |-> n, how |-> "-"]
  <2>1. ChatSuits([do |-> "userNeed", id |-> n, how |-> "-"]) /\ ChatFollows([do |-> "userNeed", id |-> n, how |-> "-"], y[1])
    BY <1>1, <1>7, <1>8 DEF ChatSuits, ChatFollows
  <2> QED BY <1>1, <1>7, <1>8, <2>1, ChatCons DEF ChatDo, UserDo, a
<1>10. create_session(n) = abc
  BY <1>a DEF create_session, a, b, c
<1>11. create_session(n) \o rest = x
  BY <1>3, <1>8, <1>10
<1>12. Leads(x, "userNeed") /\ (NoSummary(rest) => NoSummary(x))
  BY <1>9 DEF Leads
<1> QED BY <1>3, <1>10, <1>11, <1>12, Zenon

(* create_episode *)
LEMMA CreateEpisodeList == Opens(create_episode, "episodeSet")
<1> DEFINE a == Cmd("episodeSet", None, "-")    b == Cmd("episodeList", None, "-")
           c == Cmd("episodeQueue", None, "-")  d == Cmd("countRead", None, "-")
           e == Cmd("sessionPut", None, "count")
<1>1. None \in ChatIds
  BY ChatIdsAre
<1>2. /\ a \in Seq(ChatCommand) /\ b \in Seq(ChatCommand) /\ c \in Seq(ChatCommand)
      /\ d \in Seq(ChatCommand) /\ e \in Seq(ChatCommand)
  BY <1>1, ChatCmdIsList DEF ChatDo, KnownDo
<1> HIDE DEF a, b, c, d, e
<1>3. PICK ab, abc, abcd, de, cde, bcde :
        /\ ab = a \o b /\ abc = ab \o c /\ abcd = abc \o d /\ de = d \o e /\ cde = c \o de /\ bcde = b \o cde
  OBVIOUS
<1>4. create_episode = a \o bcde
  <2>1. create_episode = abcd \o e
    BY <1>3 DEF create_episode, a, b, c, d, e
  <2>2. ab \in Seq(ChatCommand) /\ de \in Seq(ChatCommand)
    BY <1>2, <1>3, ChatClosed
  <2>3. abc \in Seq(ChatCommand) /\ cde \in Seq(ChatCommand)
    BY <1>2, <1>3, <2>2, ChatClosed
  <2>4. (abc \o d) \o e = abc \o (d \o e)
    <3>1. abc \in Seq(ChatCommand) /\ d \in Seq(ChatCommand) /\ e \in Seq(ChatCommand)
      BY <1>2, <2>3
    <3> QED BY <3>1, ChatAssociative, Zenon
  <2>5. (ab \o c) \o de = ab \o (c \o de)
    <3>1. ab \in Seq(ChatCommand) /\ c \in Seq(ChatCommand) /\ de \in Seq(ChatCommand)
      BY <1>2, <2>2
    <3> QED BY <3>1, ChatAssociative, Zenon
  <2>6. (a \o b) \o cde = a \o (b \o cde)
    <3>1. a \in Seq(ChatCommand) /\ b \in Seq(ChatCommand) /\ cde \in Seq(ChatCommand)
      BY <1>2, <2>3
    <3> QED BY <3>1, ChatAssociative, Zenon
  <2> QED BY <1>3, <2>1, <2>4, <2>5, <2>6, Zenon
<1>5. PICK v : v = e
  OBVIOUS
<1>6. /\ v \in Seq(ChatCommand) /\ InChatOrder(v) /\ v # <<>> /\ NoSummary(v)
      /\ v[1] = [do |-> "sessionPut", id |-> None, how |-> "count"]
  <2>1. PICK w : w = e \o <<>>
    OBVIOUS
  <2>2. /\ w \in Seq(ChatCommand) /\ InChatOrder(w) /\ w # <<>> /\ NoSummary(w)
        /\ w[1] = [do |-> "sessionPut", id |-> None, how |-> "count"]
    BY <1>1, <2>1, EmptyChat, ChatCons DEF ChatDo, KnownDo, ChatSuits, ChatEnds, e
  <2>3. w = v
    BY <1>2, <1>5, <2>1, ConcatSimplifications
  <2> QED BY <2>2, <2>3
<1>7. PICK w : w = d \o v
  OBVIOUS
<1>8. /\ w \in Seq(ChatCommand) /\ InChatOrder(w) /\ w # <<>> /\ NoSummary(w)
      /\ w[1] = [do |-> "countRead", id |-> None, how |-> "-"]
  <2>1. ChatSuits([do |-> "countRead", id |-> None, how |-> "-"]) /\ ChatFollows([do |-> "countRead", id |-> None, how |-> "-"], v[1])
    BY <1>1, <1>6, <1>7 DEF ChatSuits, ChatFollows
  <2> QED BY <1>1, <1>6, <1>7, <2>1, ChatCons DEF ChatDo, KnownDo, d
<1>9. PICK x : x = c \o w
  OBVIOUS
<1>10. /\ x \in Seq(ChatCommand) /\ InChatOrder(x) /\ x # <<>> /\ NoSummary(x)
       /\ x[1] = [do |-> "episodeQueue", id |-> None, how |-> "-"]
  <2>1. ChatSuits([do |-> "episodeQueue", id |-> None, how |-> "-"]) /\ ChatFollows([do |-> "episodeQueue", id |-> None, how |-> "-"], w[1])
    BY <1>1, <1>8, <1>9 DEF ChatSuits, ChatFollows
  <2> QED BY <1>1, <1>8, <1>9, <2>1, ChatCons DEF ChatDo, KnownDo, c
<1>11. PICK y : y = b \o x
  OBVIOUS
<1>12. /\ y \in Seq(ChatCommand) /\ InChatOrder(y) /\ y # <<>> /\ NoSummary(y)
       /\ y[1] = [do |-> "episodeList", id |-> None, how |-> "-"]
  <2>1. ChatSuits([do |-> "episodeList", id |-> None, how |-> "-"]) /\ ChatFollows([do |-> "episodeList", id |-> None, how |-> "-"], x[1])
    BY <1>1, <1>10, <1>11 DEF ChatSuits, ChatFollows
  <2> QED BY <1>1, <1>10, <1>11, <2>1, ChatCons DEF ChatDo, KnownDo, b
<1>13. PICK z : z = a \o y
  OBVIOUS
<1>14. /\ z \in Seq(ChatCommand) /\ InChatOrder(z) /\ z # <<>> /\ NoSummary(z)
       /\ z[1] = [do |-> "episodeSet", id |-> None, how |-> "-"]
  <2>1. ChatSuits([do |-> "episodeSet", id |-> None, how |-> "-"]) /\ ChatFollows([do |-> "episodeSet", id |-> None, how |-> "-"], y[1])
    BY <1>1, <1>12, <1>13 DEF ChatSuits, ChatFollows
  <2> QED BY <1>1, <1>12, <1>13, <2>1, ChatCons DEF ChatDo, KnownDo, a
<1>15. create_episode = z
  BY <1>3, <1>4, <1>5, <1>7, <1>9, <1>11, <1>13
<1> QED BY <1>14, <1>15 DEF Opens, Leads

(* Short lists in order. *)
LEMMA TwoInOrder ==
    ASSUME NEW a \in ChatCommand, NEW b \in ChatCommand,
           ChatSuits(a), ChatSuits(b),
           ChatFollows(a, b), b.do \in ChatEnds
    PROVE  /\ <<a, b>> \in Seq(ChatCommand) /\ InChatOrder(<<a, b>>) /\ <<a, b>> # <<>> /\ <<a, b>>[1] = a
           /\ a.how # "summary" /\ b.how # "summary" => NoSummary(<<a, b>>)
<1>1. PICK t : t = <<a, b>>
  OBVIOUS
<1>2. t \in Seq(ChatCommand) /\ t # <<>> /\ Len(t) = 2 /\ t[1] = a /\ t[2] = b
  BY <1>1
<1>3. \A i \in 1 .. 2 : i = 1 \/ i = 2
  OBVIOUS
<1>4. InChatOrder(t)
  <2> SUFFICES ASSUME NEW i \in 1 .. 2
               PROVE  ChatSuits(t[i]) /\ IF i = 2 THEN t[i].do \in ChatEnds ELSE ChatFollows(t[i], t[i + 1])
    BY <1>2 DEF InChatOrder
  <2>1. 1 + 1 = 2
    OBVIOUS
  <2> QED BY <1>2, <1>3, <2>1
<1>5. a.how # "summary" /\ b.how # "summary" => NoSummary(t)
  BY <1>2, <1>3 DEF NoSummary
<1> QED BY <1>1, <1>2, <1>4, <1>5

LEMMA ThreeInOrder ==
    ASSUME NEW a \in ChatCommand, NEW b \in ChatCommand, NEW c \in ChatCommand,
           ChatSuits(a), ChatSuits(b), ChatSuits(c),
           ChatFollows(a, b), ChatFollows(b, c), c.do \in ChatEnds
    PROVE  /\ <<a, b, c>> \in Seq(ChatCommand) /\ InChatOrder(<<a, b, c>>) /\ <<a, b, c>> # <<>> /\ <<a, b, c>>[1] = a
           /\ a.how # "summary" /\ b.how # "summary" /\ c.how # "summary" => NoSummary(<<a, b, c>>)
<1>1. PICK t : t = <<a, b, c>>
  OBVIOUS
<1>2. t \in Seq(ChatCommand) /\ t # <<>> /\ Len(t) = 3 /\ t[1] = a /\ t[2] = b /\ t[3] = c
  BY <1>1
<1>3. \A i \in 1 .. 3 : i = 1 \/ i = 2 \/ i = 3
  OBVIOUS
<1>4. InChatOrder(t)
  <2> SUFFICES ASSUME NEW i \in 1 .. 3
               PROVE  ChatSuits(t[i]) /\ IF i = 3 THEN t[i].do \in ChatEnds ELSE ChatFollows(t[i], t[i + 1])
    BY <1>2 DEF InChatOrder
  <2>1. 1 + 1 = 2 /\ 2 + 1 = 3
    OBVIOUS
  <2> QED BY <1>2, <1>3, <2>1
<1>5. a.how # "summary" /\ b.how # "summary" /\ c.how # "summary" => NoSummary(t)
  BY <1>2, <1>3 DEF NoSummary
<1> QED BY <1>1, <1>2, <1>4, <1>5

LEMMA FourInOrder ==
    ASSUME NEW a \in ChatCommand, NEW b \in ChatCommand, NEW c \in ChatCommand,
           NEW d \in ChatCommand,
           ChatSuits(a), ChatSuits(b), ChatSuits(c), ChatSuits(d),
           ChatFollows(a, b), ChatFollows(b, c), ChatFollows(c, d), d.do \in ChatEnds
    PROVE  /\ <<a, b, c, d>> \in Seq(ChatCommand) /\ InChatOrder(<<a, b, c, d>>) /\ <<a, b, c, d>> # <<>> /\ <<a, b, c, d>>[1] = a
           /\ a.how # "summary" /\ b.how # "summary" /\ c.how # "summary" /\ d.how # "summary" => NoSummary(<<a, b, c, d>>)
<1>1. PICK t : t = <<a, b, c, d>>
  OBVIOUS
<1>2. t \in Seq(ChatCommand) /\ t # <<>> /\ Len(t) = 4 /\ t[1] = a /\ t[2] = b /\ t[3] = c /\ t[4] = d
  BY <1>1
<1>3. \A i \in 1 .. 4 : i = 1 \/ i = 2 \/ i = 3 \/ i = 4
  OBVIOUS
<1>4. InChatOrder(t)
  <2> SUFFICES ASSUME NEW i \in 1 .. 4
               PROVE  ChatSuits(t[i]) /\ IF i = 4 THEN t[i].do \in ChatEnds ELSE ChatFollows(t[i], t[i + 1])
    BY <1>2 DEF InChatOrder
  <2>1. 1 + 1 = 2 /\ 2 + 1 = 3 /\ 3 + 1 = 4
    OBVIOUS
  <2> QED BY <1>2, <1>3, <2>1
<1>5. a.how # "summary" /\ b.how # "summary" /\ c.how # "summary" /\ d.how # "summary" => NoSummary(t)
  BY <1>2, <1>3 DEF NoSummary
<1> QED BY <1>1, <1>2, <1>4, <1>5

LEMMA SevenInOrder ==
    ASSUME NEW a \in ChatCommand, NEW b \in ChatCommand, NEW c \in ChatCommand,
           NEW d \in ChatCommand, NEW e \in ChatCommand, NEW f \in ChatCommand, NEW g \in ChatCommand,
           ChatSuits(a), ChatSuits(b), ChatSuits(c), ChatSuits(d), ChatSuits(e), ChatSuits(f), ChatSuits(g),
           ChatFollows(a, b), ChatFollows(b, c), ChatFollows(c, d), ChatFollows(d, e), ChatFollows(e, f), ChatFollows(f, g), g.do \in ChatEnds
    PROVE  /\ <<a, b, c, d, e, f, g>> \in Seq(ChatCommand) /\ InChatOrder(<<a, b, c, d, e, f, g>>) /\ <<a, b, c, d, e, f, g>> # <<>> /\ <<a, b, c, d, e, f, g>>[1] = a
           /\ a.how # "summary" /\ b.how # "summary" /\ c.how # "summary" /\ d.how # "summary" /\ e.how # "summary" /\ f.how # "summary" /\ g.how # "summary" => NoSummary(<<a, b, c, d, e, f, g>>)
<1>1. PICK t : t = <<a, b, c, d, e, f, g>>
  OBVIOUS
<1>2. t \in Seq(ChatCommand) /\ t # <<>> /\ Len(t) = 7 /\ t[1] = a /\ t[2] = b /\ t[3] = c /\ t[4] = d /\ t[5] = e /\ t[6] = f /\ t[7] = g
  BY <1>1
<1>3. \A i \in 1 .. 7 : i = 1 \/ i = 2 \/ i = 3 \/ i = 4 \/ i = 5 \/ i = 6 \/ i = 7
  OBVIOUS
<1>4. InChatOrder(t)
  <2> SUFFICES ASSUME NEW i \in 1 .. 7
               PROVE  ChatSuits(t[i]) /\ IF i = 7 THEN t[i].do \in ChatEnds ELSE ChatFollows(t[i], t[i + 1])
    BY <1>2 DEF InChatOrder
  <2>1. 1 + 1 = 2 /\ 2 + 1 = 3 /\ 3 + 1 = 4 /\ 4 + 1 = 5 /\ 5 + 1 = 6 /\ 6 + 1 = 7
    OBVIOUS
  <2> QED BY <1>2, <1>3, <2>1
<1>5. a.how # "summary" /\ b.how # "summary" /\ c.how # "summary" /\ d.how # "summary" /\ e.how # "summary" /\ f.how # "summary" /\ g.how # "summary" => NoSummary(t)
  BY <1>2, <1>3 DEF NoSummary
<1> QED BY <1>1, <1>2, <1>4, <1>5

(* A command after a list. *)
LEMMA FourAreAList ==
    ASSUME NEW a \in ChatCommand, NEW b \in ChatCommand, NEW c \in ChatCommand, NEW d \in ChatCommand
    PROVE  ((<<a>> \o <<b>>) \o <<c>>) \o <<d>> = <<a, b, c, d>>
<1>1. ASSUME NEW x \in Seq(ChatCommand), NEW y \in Seq(ChatCommand), Len(x) = Len(y),
             \A i \in 1 .. Len(y) : x[i] = y[i]
      PROVE  x = y
  BY <1>1, SeqEqual
<1>2. /\ <<a>> \in Seq(ChatCommand) /\ <<b>> \in Seq(ChatCommand) /\ <<c>> \in Seq(ChatCommand)
      /\ <<d>> \in Seq(ChatCommand) /\ <<a, b, c, d>> \in Seq(ChatCommand)
  OBVIOUS
<1> DEFINE z == ((<<a>> \o <<b>>) \o <<c>>) \o <<d>>
<1>3. z \in Seq(ChatCommand) /\ Len(z) = 4 /\ Len(<<a, b, c, d>>) = 4 /\ \A i \in 1 .. 4 : z[i] = <<a, b, c, d>>[i]
  BY <1>2
<1> HIDE DEF z
<1>4. z = <<a, b, c, d>>
  BY <1>1, <1>2, <1>3
<1> QED BY <1>4 DEF z

LEMMA FiveAreAList ==
    ASSUME NEW a \in ChatCommand, NEW b \in ChatCommand, NEW c \in ChatCommand, NEW d \in ChatCommand,
           NEW e \in ChatCommand
    PROVE  <<a, b, c, d>> \o <<e>> = <<a, b, c, d, e>>
<1>1. ASSUME NEW x \in Seq(ChatCommand), NEW y \in Seq(ChatCommand), Len(x) = Len(y),
             \A i \in 1 .. Len(y) : x[i] = y[i]
      PROVE  x = y
  BY <1>1, SeqEqual
<1>2. <<a, b, c, d>> \in Seq(ChatCommand) /\ <<e>> \in Seq(ChatCommand) /\ <<a, b, c, d, e>> \in Seq(ChatCommand)
  OBVIOUS
<1> DEFINE z == <<a, b, c, d>> \o <<e>>
<1>3. z \in Seq(ChatCommand) /\ Len(z) = 5 /\ Len(<<a, b, c, d, e>>) = 5 /\ \A i \in 1 .. 5 : z[i] = <<a, b, c, d, e>>[i]
  BY <1>2
<1> HIDE DEF z
<1>4. z = <<a, b, c, d, e>>
  BY <1>1, <1>2, <1>3
<1> QED BY <1>4 DEF z

LEMMA SixAreAList ==
    ASSUME NEW a \in ChatCommand, NEW b \in ChatCommand, NEW c \in ChatCommand, NEW d \in ChatCommand,
           NEW e \in ChatCommand, NEW f \in ChatCommand
    PROVE  <<a, b, c, d, e>> \o <<f>> = <<a, b, c, d, e, f>>
<1>1. ASSUME NEW x \in Seq(ChatCommand), NEW y \in Seq(ChatCommand), Len(x) = Len(y),
             \A i \in 1 .. Len(y) : x[i] = y[i]
      PROVE  x = y
  BY <1>1, SeqEqual
<1>2. <<a, b, c, d, e>> \in Seq(ChatCommand) /\ <<f>> \in Seq(ChatCommand) /\ <<a, b, c, d, e, f>> \in Seq(ChatCommand)
  OBVIOUS
<1> DEFINE z == <<a, b, c, d, e>> \o <<f>>
<1>3. z \in Seq(ChatCommand) /\ Len(z) = 6 /\ Len(<<a, b, c, d, e, f>>) = 6 /\ \A i \in 1 .. 6 : z[i] = <<a, b, c, d, e, f>>[i]
  BY <1>2
<1> HIDE DEF z
<1>4. z = <<a, b, c, d, e, f>>
  BY <1>1, <1>2, <1>3
<1> QED BY <1>4 DEF z

LEMMA SevenAreAList ==
    ASSUME NEW a \in ChatCommand, NEW b \in ChatCommand, NEW c \in ChatCommand, NEW d \in ChatCommand,
           NEW e \in ChatCommand, NEW f \in ChatCommand, NEW g \in ChatCommand
    PROVE  <<a, b, c, d, e, f>> \o <<g>> = <<a, b, c, d, e, f, g>>
<1>1. ASSUME NEW x \in Seq(ChatCommand), NEW y \in Seq(ChatCommand), Len(x) = Len(y),
             \A i \in 1 .. Len(y) : x[i] = y[i]
      PROVE  x = y
  BY <1>1, SeqEqual
<1>2. <<a, b, c, d, e, f>> \in Seq(ChatCommand) /\ <<g>> \in Seq(ChatCommand) /\ <<a, b, c, d, e, f, g>> \in Seq(ChatCommand)
  OBVIOUS
<1> DEFINE z == <<a, b, c, d, e, f>> \o <<g>>
<1>3. z \in Seq(ChatCommand) /\ Len(z) = 7 /\ Len(<<a, b, c, d, e, f, g>>) = 7 /\ \A i \in 1 .. 7 : z[i] = <<a, b, c, d, e, f, g>>[i]
  BY <1>2
<1> HIDE DEF z
<1>4. z = <<a, b, c, d, e, f, g>>
  BY <1>1, <1>2, <1>3
<1> QED BY <1>4 DEF z

-----------------------------------------------------------------------------
(* Requests start.                                                          *)

\* What a request starts with.
ChatBegun(t, l) ==
    /\ ChatInPlace(t, l) /\ t # <<>>
    /\ t[1].do \in {"findUser", "userSet", "userNeed", "sessionRead", "episodeNeed", "work"}
    /\ t[1].do = "userSet" => Len(Tail(t)) = 2

LEMMA ChatLocalsAre ==
    /\ ChatLocals \in ChatLocal /\ NoUser \notin People
    /\ \A s \in SessionIds : [ChatLocals EXCEPT !.session = s] \in ChatLocal
                             /\ [ChatLocals EXCEPT !.session = s].session = s
    /\ \A u \in UserIds : [ChatLocals EXCEPT !.user = u] \in ChatLocal /\ [ChatLocals EXCEPT !.user = u].user = u
    /\ \A e \in EpisodeIds : [ChatLocals EXCEPT !.episode = e] \in ChatLocal
                             /\ [ChatLocals EXCEPT !.episode = e].episode = e
BY ConversationAssumption DEF ChatLocals, ChatLocal, None, NoUser

(* Lists without a summary. *)
LEMMA UserBegins ==
    ASSUME NEW t, Opens(t, "userNeed"), NEW u \in UserIds
    PROVE  ChatBegun(t, [ChatLocals EXCEPT !.user = u])
<1>1. PICK l : l = [ChatLocals EXCEPT !.user = u]
  OBVIOUS
<1>2. l \in ChatLocal /\ l.user \in UserIds
  BY <1>1, ChatLocalsAre
<1>3. t # <<>> /\ t[1].do = "userNeed" /\ t \in Seq(ChatCommand) /\ InChatOrder(t)
  BY DEF Opens, Leads
<1>4. ~Adding(t) /\ ~(\E i \in 1 .. Len(t) : t[i].how = "summary")
  BY DEF Opens, Leads, NoSummary, Adding
<1>5. FitsChat(t, l)
  BY <1>2, <1>3, <1>4 DEF FitsChat, UserDo, SessionDo, KnownDo
<1>6. ChatBegun(t, l)
  BY <1>3, <1>5 DEF ChatBegun, ChatInPlace
<1> QED BY <1>1, <1>6

LEMMA SessionBegins ==
    ASSUME NEW t, Opens(t, "sessionRead"), NEW s \in SessionIds
    PROVE  ChatBegun(t, [ChatLocals EXCEPT !.session = s])
<1>1. PICK l : l = [ChatLocals EXCEPT !.session = s]
  OBVIOUS
<1>2. l \in ChatLocal /\ l.session \in SessionIds
  BY <1>1, ChatLocalsAre
<1>3. t # <<>> /\ t[1].do = "sessionRead" /\ t \in Seq(ChatCommand) /\ InChatOrder(t)
  BY DEF Opens, Leads
<1>4. ~Adding(t) /\ ~(\E i \in 1 .. Len(t) : t[i].how = "summary")
  BY DEF Opens, Leads, NoSummary, Adding
<1>5. FitsChat(t, l)
  BY <1>2, <1>3, <1>4 DEF FitsChat, UserDo, SessionDo, KnownDo
<1>6. ChatBegun(t, l)
  BY <1>3, <1>5 DEF ChatBegun, ChatInPlace
<1> QED BY <1>1, <1>6

LEMMA OtherBegins ==
    ASSUME NEW t, \/ Opens(t, "findUser") \/ Opens(t, "episodeNeed")
                  \/ Opens(t, "userSet") /\ Len(Tail(t)) = 2
    PROVE  ChatBegun(t, ChatLocals)
<1>1. ChatLocals \in ChatLocal
  BY ChatLocalsAre
<1>2. /\ t # <<>> /\ t \in Seq(ChatCommand) /\ InChatOrder(t)
      /\ t[1].do = "findUser" \/ t[1].do = "episodeNeed" \/ (t[1].do = "userSet" /\ Len(Tail(t)) = 2)
  BY DEF Opens, Leads
<1>3. ~Adding(t) /\ ~(\E i \in 1 .. Len(t) : t[i].how = "summary")
  BY DEF Opens, Leads, NoSummary, Adding
<1>4. FitsChat(t, ChatLocals)
  BY <1>1, <1>2, <1>3 DEF FitsChat, UserDo, SessionDo, KnownDo
<1> QED BY <1>2, <1>4 DEF ChatBegun, ChatInPlace

LEMMA CreateUserBegins ==
    ASSUME NEW p \in People
    PROVE  ChatBegun(create_user(p), ChatLocals)
<1>1. PICK t, z : z = <<>> /\ t = create_user(p) \o z
  OBVIOUS
<1>2. z \in Seq(ChatCommand) /\ InChatOrder(z) /\ NoSummary(z) /\ Len(z) = 0
  BY <1>1, EmptyChat
<1>3. /\ Opens(create_user(p) \o z, "userSet") /\ Len(Tail(create_user(p) \o z)) = Len(z) + 2
      /\ create_user(p) \in Seq(ChatCommand)
  BY <1>1, <1>2, CreateUserList, Zenon DEF Opens
<1>4. Opens(t, "userSet") /\ Len(Tail(t)) = 2
  BY <1>1, <1>2, <1>3
<1>5. t = create_user(p)
  BY <1>1, <1>3, ConcatSimplifications
<1> QED BY <1>4, <1>5, OtherBegins

LEMMA CreateSessionBegins ==
    ASSUME NEW u \in UserIds, NEW n \in SessionNames
    PROVE  ChatBegun(create_session(n), [ChatLocals EXCEPT !.user = u])
<1>1. PICK t, z : z = <<>> /\ t = create_session(n) \o z
  OBVIOUS
<1>2. z \in Seq(ChatCommand) /\ InChatOrder(z) /\ NoSummary(z)
  BY <1>1, EmptyChat
<1>3. Opens(create_session(n) \o z, "userNeed") /\ create_session(n) \in Seq(ChatCommand)
  BY <1>1, <1>2, CreateSessionList, Zenon DEF Opens
<1>4. t = create_session(n)
  BY <1>1, <1>3, ConcatSimplifications
<1>5. ChatBegun(t, [ChatLocals EXCEPT !.user = u])
  BY <1>1, <1>3, UserBegins
<1> QED BY <1>4, <1>5

LEMMA AddEpisodeBegins ==
    ASSUME NEW s \in SessionIds
    PROVE  ChatBegun(Cmd("sessionRead", s, "-") \o create_episode, [ChatLocals EXCEPT !.session = s])
<1>1. PICK m : m = create_episode
  OBVIOUS
<1>2. m \in Seq(ChatCommand) /\ InChatOrder(m) /\ NoSummary(m) /\ m # <<>> /\ m[1].do = "episodeSet"
  BY <1>1, CreateEpisodeList DEF Opens, Leads
<1>3. PICK t : t = Cmd("sessionRead", s, "-") \o m
  OBVIOUS
<1>4. /\ ChatSuits([do |-> "sessionRead", id |-> s, how |-> "-"])
      /\ ChatFollows([do |-> "sessionRead", id |-> s, how |-> "-"], m[1])
  BY <1>2 DEF ChatSuits, ChatFollows
<1>a. s \in ChatIds
  BY ChatIdsAre
<1>b. /\ t \in Seq(ChatCommand) /\ InChatOrder(t) /\ NoSummary(t) /\ t # <<>>
      /\ t[1] = [do |-> "sessionRead", id |-> s, how |-> "-"]
  BY <1>2, <1>3, <1>4, <1>a, ChatCons DEF ChatDo, SessionDo
<1>5. Opens(t, "sessionRead")
  BY <1>b DEF Opens, Leads
<1>6. ChatBegun(t, [ChatLocals EXCEPT !.session = s])
  BY <1>5, SessionBegins
<1> QED BY <1>1, <1>3, <1>6

LEMMA RememberBegins ==
    ASSUME NEW p \in People, NEW n \in SessionNames
    PROVE  ChatBegun(remember(p, n), ChatLocals)
<1>1. PICK a, b, m : a = Cmd("findUser", p, "-") /\ b = Cmd("findSession", n, "-") /\ m = create_episode
  OBVIOUS
<1>2. m \in Seq(ChatCommand) /\ InChatOrder(m) /\ NoSummary(m) /\ m # <<>> /\ m[1].do = "episodeSet"
  BY <1>1, CreateEpisodeList DEF Opens, Leads
<1>3. PICK y : y = b \o m
  OBVIOUS
<1>4. /\ ChatSuits([do |-> "findSession", id |-> n, how |-> "-"])
      /\ ChatFollows([do |-> "findSession", id |-> n, how |-> "-"], m[1])
  BY <1>2 DEF ChatSuits, ChatFollows
<1>5. /\ y \in Seq(ChatCommand) /\ InChatOrder(y) /\ NoSummary(y) /\ y # <<>>
      /\ y[1] = [do |-> "findSession", id |-> n, how |-> "-"]
  <2>1. n \in ChatIds
    BY ChatIdsAre
  <2> QED BY <1>1, <1>2, <1>3, <1>4, <2>1, ChatCons, ZenonT(30) DEF ChatDo, UserDo
<1>6. PICK t : t = a \o y
  OBVIOUS
<1>7. /\ ChatSuits([do |-> "findUser", id |-> p, how |-> "-"])
      /\ ChatFollows([do |-> "findUser", id |-> p, how |-> "-"], y[1])
  BY <1>5 DEF ChatSuits, ChatFollows
<1>8. Opens(t, "findUser")
  <2>1. p \in ChatIds
    BY ChatIdsAre
  <2>2. /\ t \in Seq(ChatCommand) /\ InChatOrder(t) /\ NoSummary(t) /\ t # <<>>
        /\ t[1] = [do |-> "findUser", id |-> p, how |-> "-"]
    BY <1>1, <1>5, <1>6, <1>7, <2>1, ChatCons, ZenonT(30) DEF ChatDo
  <2> QED BY <2>2 DEF Opens, Leads
<1>9. (a \o b) \o m = a \o (b \o m)
  <2>1. a \in Seq(ChatCommand) /\ b \in Seq(ChatCommand)
    BY <1>1, ChatCmdIsList, ChatIdsAre DEF ChatDo, UserDo
  <2>2. a \in Seq(ChatCommand) /\ b \in Seq(ChatCommand) /\ m \in Seq(ChatCommand)
    BY <1>2, <2>1
  <2> QED BY <2>2, ChatAssociative, Zenon
<1>10. remember(p, n) = (a \o b) \o m
  BY <1>1 DEF remember
<1>11. ChatBegun(t, ChatLocals)
  BY <1>8, OtherBegins
<1> QED BY <1>3, <1>6, <1>9, <1>10, <1>11, Zenon

LEMMA DeleteUserBegins ==
    ASSUME NEW u \in UserIds
    PROVE  ChatBegun(Cmd("userNeed", u, "-") \o Cmd("userDel", u, "-") \o Cmd("userDelExt", u, "-")
                       \o Cmd("userUnlist", u, "-"), [ChatLocals EXCEPT !.user = u])
<1>1. PICK a, b, c, d :
        /\ a = [do |-> "userNeed", id |-> u, how |-> "-"] /\ b = [do |-> "userDel", id |-> u, how |-> "-"]
        /\ c = [do |-> "userDelExt", id |-> u, how |-> "-"] /\ d = [do |-> "userUnlist", id |-> u, how |-> "-"]
  OBVIOUS
<1>2. /\ a \in ChatCommand /\ b \in ChatCommand /\ c \in ChatCommand /\ d \in ChatCommand
      /\ Cmd("userNeed", u, "-") = <<a>> /\ Cmd("userDel", u, "-") = <<b>>
      /\ Cmd("userDelExt", u, "-") = <<c>> /\ Cmd("userUnlist", u, "-") = <<d>>
  BY <1>1, ChatCmds, ChatIdsAre DEF ChatDo, UserDo
<1>3. /\ ChatSuits(a) /\ ChatSuits(b) /\ ChatSuits(c) /\ ChatSuits(d) /\ d.do \in ChatEnds
      /\ ChatFollows(a, b) /\ ChatFollows(b, c) /\ ChatFollows(c, d)
  BY <1>1 DEF ChatSuits, ChatFollows, ChatEnds
<1>4. Opens(<<a, b, c, d>>, "userNeed")
  BY <1>1, <1>2, <1>3, FourInOrder DEF Opens, Leads
<1>5. ChatBegun(<<a, b, c, d>>, [ChatLocals EXCEPT !.user = u])
  BY <1>4, UserBegins
<1>6. ((<<a>> \o <<b>>) \o <<c>>) \o <<d>> = <<a, b, c, d>>
  <2>1. a \in ChatCommand /\ b \in ChatCommand /\ c \in ChatCommand /\ d \in ChatCommand
    BY <1>2
  <2> QED BY <2>1, FourAreAList
<1> QED BY <1>2, <1>5, <1>6

LEMMA UpdateSessionBegins ==
    ASSUME NEW s \in SessionIds
    PROVE  ChatBegun(Cmd("sessionRead", s, "-") \o Cmd("sessionPut", s, "update"), [ChatLocals EXCEPT !.session = s])
<1>1. PICK a, b :
        a = [do |-> "sessionRead", id |-> s, how |-> "-"] /\ b = [do |-> "sessionPut", id |-> s, how |-> "update"]
  OBVIOUS
<1>2. /\ a \in ChatCommand /\ b \in ChatCommand
      /\ Cmd("sessionRead", s, "-") = <<a>> /\ Cmd("sessionPut", s, "update") = <<b>>
  BY <1>1, ChatCmds, ChatIdsAre DEF ChatDo, SessionDo, KnownDo
<1>3. ChatSuits(a) /\ ChatSuits(b) /\ b.do \in ChatEnds /\ ChatFollows(a, b)
  BY <1>1 DEF ChatSuits, ChatFollows, ChatEnds
<1>4. Opens(<<a, b>>, "sessionRead")
  BY <1>1, <1>2, <1>3, TwoInOrder DEF Opens, Leads
<1>5. ChatBegun(<<a, b>>, [ChatLocals EXCEPT !.session = s])
  BY <1>4, SessionBegins
<1>6. <<a>> \o <<b>> = <<a, b>>
  BY <1>2, ShortLists
<1> QED BY <1>2, <1>5, <1>6

LEMMA DeleteSessionBegins ==
    ASSUME NEW s \in SessionIds
    PROVE  ChatBegun(Cmd("sessionRead", s, "-") \o Cmd("sessionRead", s, "-") \o Cmd("sessionDel", s, "-")
                       \o Cmd("sessionUnlist", s, "-"), [ChatLocals EXCEPT !.session = s])
<1>1. PICK a, c, d :
        /\ a = [do |-> "sessionRead", id |-> s, how |-> "-"] /\ c = [do |-> "sessionDel", id |-> s, how |-> "-"]
        /\ d = [do |-> "sessionUnlist", id |-> s, how |-> "-"]
  OBVIOUS
<1>2. /\ a \in ChatCommand /\ c \in ChatCommand /\ d \in ChatCommand
      /\ Cmd("sessionRead", s, "-") = <<a>> /\ Cmd("sessionDel", s, "-") = <<c>>
      /\ Cmd("sessionUnlist", s, "-") = <<d>>
  BY <1>1, ChatCmds, ChatIdsAre DEF ChatDo, SessionDo
<1>3. /\ ChatSuits(a) /\ ChatSuits(c) /\ ChatSuits(d) /\ d.do \in ChatEnds
      /\ ChatFollows(a, a) /\ ChatFollows(a, c) /\ ChatFollows(c, d)
  BY <1>1 DEF ChatSuits, ChatFollows, ChatEnds
<1>4. Opens(<<a, a, c, d>>, "sessionRead")
  BY <1>1, <1>2, <1>3, FourInOrder DEF Opens, Leads
<1>5. ChatBegun(<<a, a, c, d>>, [ChatLocals EXCEPT !.session = s])
  BY <1>4, SessionBegins
<1>6. ((<<a>> \o <<a>>) \o <<c>>) \o <<d>> = <<a, a, c, d>>
  BY <1>2, FourAreAList, ZenonT(30)
<1> QED BY <1>2, <1>5, <1>6

LEMMA ClearMessagesBegins ==
    ASSUME NEW s \in SessionIds
    PROVE  ChatBegun(Cmd("sessionRead", s, "-") \o Cmd("clearRange", s, "-") \o Cmd("clearIndex", s, "-"),
                     [ChatLocals EXCEPT !.session = s])
<1>1. PICK a, b, c :
        /\ a = [do |-> "sessionRead", id |-> s, how |-> "-"] /\ b = [do |-> "clearRange", id |-> s, how |-> "-"]
        /\ c = [do |-> "clearIndex", id |-> s, how |-> "-"]
  OBVIOUS
<1>2. /\ a \in ChatCommand /\ b \in ChatCommand /\ c \in ChatCommand
      /\ Cmd("sessionRead", s, "-") = <<a>> /\ Cmd("clearRange", s, "-") = <<b>>
      /\ Cmd("clearIndex", s, "-") = <<c>>
  BY <1>1, ChatCmds, ChatIdsAre DEF ChatDo, SessionDo
<1>3. /\ ChatSuits(a) /\ ChatSuits(b) /\ ChatSuits(c) /\ c.do \in ChatEnds
      /\ ChatFollows(a, b) /\ ChatFollows(b, c)
  BY <1>1 DEF ChatSuits, ChatFollows, ChatEnds
<1>4. Opens(<<a, b, c>>, "sessionRead")
  BY <1>1, <1>2, <1>3, ThreeInOrder DEF Opens, Leads
<1>5. ChatBegun(<<a, b, c>>, [ChatLocals EXCEPT !.session = s])
  BY <1>4, SessionBegins
<1>6. (<<a>> \o <<b>>) \o <<c>> = <<a, b, c>>
  BY <1>2, ListOfThree
<1> QED BY <1>2, <1>5, <1>6

LEMMA DeleteMessageBegins ==
    ASSUME NEW e \in EpisodeIds
    PROVE  ChatBegun(Cmd("episodeNeed", e, "-") \o Cmd("episodeUnlist", e, "-") \o Cmd("episodeUnqueue", e, "-")
                       \o Cmd("episodeErase", e, "-"), ChatLocals)
<1>1. PICK a, b, c, d :
        /\ a = [do |-> "episodeNeed", id |-> e, how |-> "-"] /\ b = [do |-> "episodeUnlist", id |-> e, how |-> "-"]
        /\ c = [do |-> "episodeUnqueue", id |-> e, how |-> "-"] /\ d = [do |-> "episodeErase", id |-> e, how |-> "-"]
  OBVIOUS
<1>2. /\ a \in ChatCommand /\ b \in ChatCommand /\ c \in ChatCommand /\ d \in ChatCommand
      /\ Cmd("episodeNeed", e, "-") = <<a>> /\ Cmd("episodeUnlist", e, "-") = <<b>>
      /\ Cmd("episodeUnqueue", e, "-") = <<c>> /\ Cmd("episodeErase", e, "-") = <<d>>
  BY <1>1, ChatCmds, ChatIdsAre DEF ChatDo, SessionDo
<1>3. /\ ChatSuits(a) /\ ChatSuits(b) /\ ChatSuits(c) /\ ChatSuits(d) /\ d.do \in ChatEnds
      /\ ChatFollows(a, b) /\ ChatFollows(b, c) /\ ChatFollows(c, d)
  BY <1>1 DEF ChatSuits, ChatFollows, ChatEnds
<1>4. Opens(<<a, b, c, d>>, "episodeNeed")
  BY <1>1, <1>2, <1>3, FourInOrder DEF Opens, Leads
<1>5. ChatBegun(<<a, b, c, d>>, ChatLocals)
  BY <1>4, OtherBegins
<1>6. ((<<a>> \o <<b>>) \o <<c>>) \o <<d>> = <<a, b, c, d>>
  <2>1. a \in ChatCommand /\ b \in ChatCommand /\ c \in ChatCommand /\ d \in ChatCommand
    BY <1>2
  <2> QED BY <2>1, FourAreAList
<1> QED BY <1>2, <1>5, <1>6

LEMMA ProcessEpisodeBegins ==
    ASSUME NEW e \in EpisodeIds
    PROVE  ChatBegun(Cmd("work", e, "-") \o Cmd("complete", e, "-") \o Cmd("summaryDue", e, "-")
                       \o Cmd("inflight", e, "-") \o Cmd("inflight", e, "-") \o Cmd("sessionRead", None, "-")
                       \o Cmd("sessionPut", None, "summary"), [ChatLocals EXCEPT !.episode = e])
<1>1. PICK a, b, c, d, f, g :
        /\ a = [do |-> "work", id |-> e, how |-> "-"] /\ b = [do |-> "complete", id |-> e, how |-> "-"]
        /\ c = [do |-> "summaryDue", id |-> e, how |-> "-"] /\ d = [do |-> "inflight", id |-> e, how |-> "-"]
        /\ f = [do |-> "sessionRead", id |-> None, how |-> "-"]
        /\ g = [do |-> "sessionPut", id |-> None, how |-> "summary"]
  OBVIOUS
<1>2. /\ a \in ChatCommand /\ b \in ChatCommand /\ c \in ChatCommand /\ d \in ChatCommand
      /\ f \in ChatCommand /\ g \in ChatCommand
      /\ Cmd("work", e, "-") = <<a>> /\ Cmd("complete", e, "-") = <<b>>
      /\ Cmd("summaryDue", e, "-") = <<c>> /\ Cmd("inflight", e, "-") = <<d>>
      /\ Cmd("sessionRead", None, "-") = <<f>> /\ Cmd("sessionPut", None, "summary") = <<g>>
  BY <1>1, ChatCmds, ChatIdsAre DEF ChatDo, SessionDo, KnownDo
<1>3. /\ ChatSuits(a) /\ ChatSuits(b) /\ ChatSuits(c) /\ ChatSuits(d) /\ ChatSuits(f) /\ ChatSuits(g)
      /\ g.do \in ChatEnds
  BY <1>1 DEF ChatSuits, ChatEnds
<1>4. /\ ChatFollows(a, b) /\ ChatFollows(b, c) /\ ChatFollows(c, d) /\ ChatFollows(d, d) /\ ChatFollows(d, f)
      /\ ChatFollows(f, g)
  BY <1>1 DEF ChatFollows
<1>5. PICK t : t = <<a, b, c, d, d, f, g>>
  OBVIOUS
<1>6. t \in Seq(ChatCommand) /\ InChatOrder(t) /\ t # <<>> /\ t[1] = a
  BY <1>2, <1>3, <1>4, <1>5, SevenInOrder
<1>7. PICK l : l = [ChatLocals EXCEPT !.episode = e]
  OBVIOUS
<1>8. l \in ChatLocal /\ l.episode = e
  BY <1>7, ChatLocalsAre
<1>9. ~Adding(t)
  BY <1>1, <1>6 DEF Adding
<1>10. FitsChat(t, l)
  BY <1>1, <1>6, <1>8, <1>9 DEF FitsChat, UserDo, SessionDo, KnownDo
<1>11. ChatBegun(t, l)
  BY <1>1, <1>6, <1>10 DEF ChatBegun, ChatInPlace
<1>12. (((((<<a>> \o <<b>>) \o <<c>>) \o <<d>>) \o <<d>>) \o <<f>>) \o <<g>> = t
  <2>1. /\ a \in ChatCommand /\ b \in ChatCommand /\ c \in ChatCommand /\ d \in ChatCommand
        /\ f \in ChatCommand /\ g \in ChatCommand
    BY <1>2
  <2>2. PICK s4, s5, s6 : s4 = <<a, b, c, d>> /\ s5 = <<a, b, c, d, d>> /\ s6 = <<a, b, c, d, d, f>>
    OBVIOUS
  <2>3. ((<<a>> \o <<b>>) \o <<c>>) \o <<d>> = s4
    BY <2>1, <2>2, FourAreAList
  <2>4. s4 \o <<d>> = s5
    BY <2>1, <2>2, FiveAreAList
  <2>5. s5 \o <<f>> = s6
    BY <2>1, <2>2, SixAreAList
  <2>6. s6 \o <<g>> = t
    <3>1. <<a, b, c, d, d, f>> \o <<g>> = <<a, b, c, d, d, f, g>>
      BY <2>1, SevenAreAList, SMTT(30)
    <3> QED BY <1>5, <2>2, <3>1, Zenon
  <2> QED BY <2>3, <2>4, <2>5, <2>6, Zenon
<1> QED BY <1>2, <1>7, <1>11, <1>12

(* Whichever request starts. *)
LEMMA ChatRequestBegins ==
    ASSUME ChatRequests
    PROVE  \E r \in Requests : \E t, l : Start(r, t, l) /\ ChatBegun(t, l) /\ UNCHANGED chatVars
<1>1. PICK r \in Requests :
        \/ \E p \in People : CreateUser(r, p) \/ \E n \in SessionNames : Remember(r, p, n)
        \/ \E u \in UserIds : DeleteUser(r, u) \/ \E n \in SessionNames : CreateSession(r, u, n)
        \/ \E s \in SessionIds : \/ UpdateSession(r, s) \/ DeleteSession(r, s)
                                 \/ AddEpisode(r, s) \/ ClearMessages(r, s)
        \/ \E e \in EpisodeIds : DeleteMessage(r, e) \/ ProcessEpisode(r, e)
  BY DEF ChatRequests
<1> SUFFICES \E t, l : Start(r, t, l) /\ ChatBegun(t, l) /\ UNCHANGED chatVars
  BY Zenon
<1>2. ASSUME NEW p \in People, CreateUser(r, p)
      PROVE  \E t, l : Start(r, t, l) /\ ChatBegun(t, l) /\ UNCHANGED chatVars
  BY <1>2, CreateUserBegins, Zenon DEF CreateUser, Chat
<1>3. ASSUME NEW p \in People, NEW n \in SessionNames, Remember(r, p, n)
      PROVE  \E t, l : Start(r, t, l) /\ ChatBegun(t, l) /\ UNCHANGED chatVars
  BY <1>3, RememberBegins, Zenon DEF Remember, Chat
<1>4. ASSUME NEW u \in UserIds, DeleteUser(r, u)
      PROVE  \E t, l : Start(r, t, l) /\ ChatBegun(t, l) /\ UNCHANGED chatVars
  BY <1>4, DeleteUserBegins, Zenon DEF DeleteUser, Chat
<1>5. ASSUME NEW u \in UserIds, NEW n \in SessionNames, CreateSession(r, u, n)
      PROVE  \E t, l : Start(r, t, l) /\ ChatBegun(t, l) /\ UNCHANGED chatVars
  BY <1>5, CreateSessionBegins, Zenon DEF CreateSession, Chat
<1>6. ASSUME NEW s \in SessionIds, UpdateSession(r, s)
      PROVE  \E t, l : Start(r, t, l) /\ ChatBegun(t, l) /\ UNCHANGED chatVars
  BY <1>6, UpdateSessionBegins, Zenon DEF UpdateSession, Chat
<1>7. ASSUME NEW s \in SessionIds, DeleteSession(r, s)
      PROVE  \E t, l : Start(r, t, l) /\ ChatBegun(t, l) /\ UNCHANGED chatVars
  BY <1>7, DeleteSessionBegins, Zenon DEF DeleteSession, Chat
<1>8. ASSUME NEW s \in SessionIds, AddEpisode(r, s)
      PROVE  \E t, l : Start(r, t, l) /\ ChatBegun(t, l) /\ UNCHANGED chatVars
  BY <1>8, AddEpisodeBegins, Zenon DEF AddEpisode, Chat
<1>9. ASSUME NEW s \in SessionIds, ClearMessages(r, s)
      PROVE  \E t, l : Start(r, t, l) /\ ChatBegun(t, l) /\ UNCHANGED chatVars
  BY <1>9, ClearMessagesBegins, Zenon DEF ClearMessages, Chat
<1>10. ASSUME NEW e \in EpisodeIds, DeleteMessage(r, e)
      PROVE  \E t, l : Start(r, t, l) /\ ChatBegun(t, l) /\ UNCHANGED chatVars
  BY <1>10, DeleteMessageBegins, Zenon DEF DeleteMessage, Chat
<1>11. ASSUME NEW e \in EpisodeIds, ProcessEpisode(r, e)
      PROVE  \E t, l : Start(r, t, l) /\ ChatBegun(t, l) /\ UNCHANGED chatVars
  BY <1>11, ProcessEpisodeBegins, Zenon DEF ProcessEpisode
<1> QED BY <1>1, <1>2, <1>3, <1>4, <1>5, <1>6, <1>7, <1>8, <1>9, <1>10, <1>11, Zenon

-----------------------------------------------------------------------------
(* Steps keep requests and documents in shape.                              *)

\* Ids that were given out stay so.
ChatGrows ==
    /\ chatPast.users \subseteq chatPast'.users /\ chatPast.sessions \subseteq chatPast'.sessions
    /\ \A s \in SessionIds : chatPast.in[s] \subseteq chatPast'.in[s]

LEMMA ChatStands ==
    ASSUME ChatTyped, UNCHANGED chatVars
    PROVE  ChatTyped' /\ ChatGrows
BY Zenon DEF ChatTyped, ChatGrows, chatVars, userVars, sessionVars, episodeVars

(* A request goes on with these commands. *)
LEMMA ChatMoves ==
    ASSUME ChatShape, NEW r \in Requests, NEW t, NEW l, Moved(r, t, l), tally' \in Tallies,
           ~tally'.overlapped => ~tally.overlapped /\ \A q \in Busy : q = r,
           ChatTyped', ChatGrows, ChatInPlace(t, l)'
    PROVE  ChatShape'
<1>1. /\ request' = [q \in Requests |-> request'[q]]
      /\ \A q \in Requests : q # r => request'[q] = request[q]
      /\ request'[r] = IF t = <<>> THEN Idle ELSE [todo |-> t, loc |-> l]
      /\ request'[r].todo = t /\ Busy' \subseteq Busy \cup {r}
  BY BusyThen
<1>2. ASSUME NEW q \in Requests, q # r
      PROVE  ChatInPlace(request[q].todo, request[q].loc)'
  <2>1. PICK s, x : s = request[q].todo /\ x = request[q].loc
    OBVIOUS
  <2>2. ChatInPlace(s, x) /\ request'[q].todo = s /\ request'[q].loc = x
    BY <1>1, <1>2, <2>1 DEF ChatShape
  <2>3. FitsChat(s, x)'
    <3>1. Adding(s) => x.session \in SessionIds
      <4>1. Adding(s) => x.session \in chatPast.sessions
        BY <2>2 DEF ChatInPlace, FitsChat, Adding, KnownDo
      <4>2. chatPast.sessions \subseteq SessionIds
        BY DEF ChatShape, ChatTyped
      <4> QED BY <4>1, <4>2
    <3>2. Adding(s)' <=> Adding(s)
      BY DEF Adding
    <3> QED BY <2>2, <3>1, <3>2 DEF ChatInPlace, FitsChat, ChatGrows
  <2>4. ChatInPlace(s, x)'
    BY <2>2, <2>3 DEF ChatInPlace
  <2> QED BY <2>2, <2>4
<1>3. ChatInPlace(request[r].todo, request[r].loc)'
  <2>1. CASE t = <<>>
    <3>1. request'[r].todo = <<>>
      BY <1>1, <2>1
    <3> QED BY <3>1 DEF ChatInPlace, InChatOrder, FitsChat, Adding
  <2>2. CASE t # <<>>
    BY <1>1, <2>2
  <2> QED BY <2>1, <2>2
<1>4. OneBusy'
  BY <1>1 DEF OneBusy
<1> QED BY <1>1, <1>2, <1>3, <1>4 DEF ChatShape

(* A request that is over, or goes on with what comes next. *)
LEMMA ChatStops ==
    ASSUME ChatShape, NEW r \in Requests, r \in Busy, Moved(r, <<>>, request[r].loc), tally' \in Tallies,
           tally'.overlapped = tally.overlapped, ChatTyped', ChatGrows
    PROVE  ChatShape'
<1>1. ~tally'.overlapped => ~tally.overlapped /\ \A q \in Busy : q = r
  BY DEF ChatShape, OneBusy
<1>2. ChatInPlace(<<>>, request[r].loc)'
  BY DEF ChatInPlace, InChatOrder, FitsChat, Adding
<1>3. PICK l : l = request[r].loc
  OBVIOUS
<1>4. ChatInPlace(<<>>, l)'
  BY DEF ChatInPlace, InChatOrder, FitsChat, Adding
<1> QED BY <1>1, <1>3, <1>4, ChatMoves

LEMMA ChatGoesOn ==
    ASSUME ChatShape, NEW r \in Requests, NEW t, NEW l, NEW m, t = request[r].todo, l = request[r].loc, t # <<>>,
           Moved(r, Tail(t), m), tally' = tally, ChatTyped', ChatGrows,
           m \in ChatLocal, m.episode = l.episode \/ m.episode \in EpisodeIds,
           Tail(t) # <<>> =>
             LET do == Tail(t)[1].do IN
             /\ do \in UserDo \cup {"sessionList"} => m.user \in UserIds
             /\ do \in {"userSetExt", "userList"} => m.user \in chatPast'.users
             /\ do \in SessionDo => m.session \in SessionIds
             /\ do \in KnownDo => m.session \in chatPast'.sessions
             /\ do = "sessionPut" => m.copy \in SessionDocs
             /\ Adding(Tail(t)) => m.episode \in chatPast'.in[m.session]
    PROVE  ChatShape'
<1>1. ChatInPlace(t, l)
  BY DEF ChatShape
<1>2. /\ Tail(t) \in Seq(ChatCommand) /\ InChatOrder(Tail(t))
      /\ (\E i \in 1 .. Len(Tail(t)) : Tail(t)[i].how = "summary") => m.episode \in EpisodeIds
  BY <1>1, ChatTail
<1>3. PICK u : u = Tail(t)
  OBVIOUS
<1>4. Adding(u)' <=> Adding(u)
  BY DEF Adding
<1>5. FitsChat(u, m)'
  BY <1>2, <1>3, <1>4 DEF FitsChat
<1>6. ChatInPlace(u, m)'
  BY <1>2, <1>3, <1>5 DEF ChatInPlace
<1>7. ~tally'.overlapped => ~tally.overlapped /\ \A q \in Busy : q = r
  BY DEF ChatShape, OneBusy, Busy
<1>8. tally' \in Tallies
  BY DEF ChatShape
<1> QED BY <1>3, <1>6, <1>7, <1>8, ChatMoves

(* What a request that is about to send a command knows. *)
LEMMA ChatAt ==
    ASSUME ChatShape, NEW r \in Requests, NEW do, At(r, do), NEW t, NEW l,
           t = request[r].todo, l = request[r].loc
    PROVE  /\ t # <<>> /\ ChatInPlace(t, l) /\ r \in Busy /\ This(r) = t[1] /\ Loc(r) = l /\ Rest(r) = Tail(t)
           /\ t[1].do = do /\ ChatSuits(t[1]) /\ l \in ChatLocal /\ ChatTyped
           /\ do \in UserDo \cup {"sessionList"} => l.user \in UserIds
           /\ do \in {"userSetExt", "userList"} => l.user \in chatPast.users
           /\ do \in SessionDo => l.session \in SessionIds
           /\ do \in KnownDo => l.session \in chatPast.sessions /\ l.session \in SessionIds
           /\ do = "sessionPut" => l.copy \in SessionDocs
           /\ Adding(t) => l.episode \in chatPast.in[l.session]
           /\ Tail(t) = <<>> => do \in ChatEnds
           /\ Tail(t) # <<>> => ChatFollows(t[1], Tail(t)[1]) /\ ChatSuits(Tail(t)[1])
           /\ \A m : Sent(r, m) => Moved(r, Tail(t), m) /\ tally' = tally
           /\ Done(r) => Moved(r, Tail(t), l) /\ tally' = tally
           /\ Refuse(r) => Moved(r, <<>>, l) /\ tally' = tally
           /\ \A m, n : Insert(r, m, n) => Moved(r, m \o Tail(t), n) /\ tally' = tally
<1>1. /\ t # <<>> /\ ChatInPlace(t, l) /\ r \in Busy /\ This(r) = t[1] /\ Loc(r) = l /\ Rest(r) = Tail(t)
      /\ t[1].do = do
      /\ \A m : Sent(r, m) => Moved(r, Tail(t), m) /\ tally' = tally
      /\ Done(r) => Moved(r, Tail(t), l) /\ tally' = tally
      /\ Refuse(r) => Moved(r, <<>>, l) /\ tally' = tally
      /\ \A m, n : Insert(r, m, n) => Moved(r, m \o Tail(t), n) /\ tally' = tally
  BY ChatHead
<1>2. /\ ChatSuits(t[1]) /\ l \in ChatLocal
      /\ Tail(t) = <<>> => do \in ChatEnds
      /\ Tail(t) # <<>> => ChatFollows(t[1], Tail(t)[1]) /\ ChatSuits(Tail(t)[1])
  BY <1>1, ChatTail
<1>3. ChatTyped /\ chatPast.sessions \subseteq SessionIds
  BY DEF ChatShape, ChatTyped
<1>4. FitsChat(t, l)
  BY <1>1 DEF ChatInPlace
<1> QED BY <1>1, <1>2, <1>3, <1>4 DEF FitsChat

(* The request is refused. *)
LEMMA ChatRefused ==
    ASSUME ChatShape, NEW r \in Requests, r \in Busy, Moved(r, <<>>, request[r].loc), tally' = tally,
           UNCHANGED chatVars
    PROVE  ChatShape'
<1>1. tally' \in Tallies /\ ChatTyped' /\ ChatGrows
  BY ChatStands DEF ChatShape
<1> QED BY <1>1, ChatStops

(* A new id. *)
LEMMA FreshIs ==
    ASSUME NEW ids, NEW used, ids \subseteq Nat \ {0}, ids \ used # {}
    PROVE  Fresh(ids, used) \in ids /\ Fresh(ids, used) \notin used /\ Fresh(ids, used) # None
<1> DEFINE free == ids \ used
<1>1. free \subseteq Nat /\ free # {}
  OBVIOUS
<1> HIDE DEF free
<1>2. PICK i \in free : \A j \in free : <<j, i>> \notin OpToRel(<, Nat)
  BY <1>1, WFMin, NatLessThanWellFounded
<1>3. \A j \in free : ~(j < i) /\ j \in Nat /\ i \in Nat
  BY <1>1, <1>2 DEF OpToRel
<1>4. \A j \in free : i <= j
  BY <1>3
<1>5. Fresh(ids, used) \in free
  BY <1>2, <1>4 DEF Fresh, free
<1> QED BY <1>5 DEF free, None

(* Users. *)
LEMMA UserSetExtShape ==
    ASSUME ChatShape, NEW r \in Requests, UserSetExt(r)
    PROVE  ChatShape'
<1>1. PICK t, l : t = request[r].todo /\ l = request[r].loc
  OBVIOUS
<1>2. At(r, "userSetExt")
  BY DEF UserSetExt
<1>3. /\ t # <<>> /\ t[1].do = "userSetExt" /\ ChatSuits(t[1]) /\ l \in ChatLocal /\ ChatTyped
      /\ Moved(r, Tail(t), l) /\ tally' = tally /\ This(r) = t[1] /\ Loc(r) = l
      /\ Tail(t) # <<>> => ChatFollows(t[1], Tail(t)[1])
      /\ l.user \in chatPast.users /\ l.user \in UserIds
  BY <1>1, <1>2, ChatAt DEF UserSetExt, ChatEnds, UserDo, SessionDo, KnownDo, Adding
<1>4. ChatTyped' /\ ChatGrows
  BY <1>3 DEF UserSetExt, ChatTyped, ChatGrows, ChatSuits, userVars, sessionVars, episodeVars
<1> QED BY <1>1, <1>3, <1>4, ChatGoesOn DEF ChatFollows, UserDo, SessionDo, KnownDo, Adding, ChatGrows

LEMMA UserListShape ==
    ASSUME ChatShape, NEW r \in Requests, UserList(r)
    PROVE  ChatShape'
<1>1. PICK t, l : t = request[r].todo /\ l = request[r].loc
  OBVIOUS
<1>2. At(r, "userList")
  BY DEF UserList
<1>3. /\ t # <<>> /\ t[1].do = "userList" /\ ChatSuits(t[1]) /\ l \in ChatLocal /\ ChatTyped
      /\ Moved(r, Tail(t), l) /\ tally' = tally /\ This(r) = t[1] /\ Loc(r) = l
      /\ Tail(t) # <<>> => ChatFollows(t[1], Tail(t)[1])
      /\ l.user \in chatPast.users /\ l.user \in UserIds
  BY <1>1, <1>2, ChatAt DEF UserList, ChatEnds, UserDo, SessionDo, KnownDo, Adding
<1>4. ChatTyped' /\ ChatGrows
  BY <1>3 DEF UserList, ChatTyped, ChatGrows, ChatSuits, userVars, sessionVars, episodeVars
<1> QED BY <1>1, <1>3, <1>4, ChatGoesOn DEF ChatFollows, UserDo, SessionDo, KnownDo, Adding, ChatGrows

LEMMA UserDelShape ==
    ASSUME ChatShape, NEW r \in Requests, UserDel(r)
    PROVE  ChatShape'
<1>1. PICK t, l : t = request[r].todo /\ l = request[r].loc
  OBVIOUS
<1>2. At(r, "userDel")
  BY DEF UserDel
<1>3. /\ t # <<>> /\ t[1].do = "userDel" /\ ChatSuits(t[1]) /\ l \in ChatLocal /\ ChatTyped
      /\ Moved(r, Tail(t), l) /\ tally' = tally /\ This(r) = t[1] /\ Loc(r) = l
      /\ Tail(t) # <<>> => ChatFollows(t[1], Tail(t)[1])
      /\ l.user \in UserIds
  BY <1>1, <1>2, ChatAt DEF UserDel, ChatEnds, UserDo, SessionDo, KnownDo, Adding
<1>4. ChatTyped' /\ ChatGrows
  BY <1>3 DEF UserDel, ChatTyped, ChatGrows, ChatSuits, userVars, sessionVars, episodeVars
<1> QED BY <1>1, <1>3, <1>4, ChatGoesOn DEF ChatFollows, UserDo, SessionDo, KnownDo, Adding, ChatGrows

LEMMA UserDelExtShape ==
    ASSUME ChatShape, NEW r \in Requests, UserDelExt(r)
    PROVE  ChatShape'
<1>1. PICK t, l : t = request[r].todo /\ l = request[r].loc
  OBVIOUS
<1>2. At(r, "userDelExt")
  BY DEF UserDelExt
<1>3. /\ t # <<>> /\ t[1].do = "userDelExt" /\ ChatSuits(t[1]) /\ l \in ChatLocal /\ ChatTyped
      /\ Moved(r, Tail(t), l) /\ tally' = tally /\ This(r) = t[1] /\ Loc(r) = l
      /\ Tail(t) # <<>> => ChatFollows(t[1], Tail(t)[1])
      /\ l.user \in UserIds
  BY <1>1, <1>2, ChatAt DEF UserDelExt, ChatEnds, UserDo, SessionDo, KnownDo, Adding
<1>4. ChatTyped' /\ ChatGrows
  BY <1>3 DEF UserDelExt, ChatTyped, ChatGrows, ChatSuits, userVars, sessionVars, episodeVars, None
<1> QED BY <1>1, <1>3, <1>4, ChatGoesOn DEF ChatFollows, UserDo, SessionDo, KnownDo, Adding, ChatGrows

LEMMA UserUnlistShape ==
    ASSUME ChatShape, NEW r \in Requests, UserUnlist(r)
    PROVE  ChatShape'
<1>1. PICK t, l : t = request[r].todo /\ l = request[r].loc
  OBVIOUS
<1>2. At(r, "userUnlist")
  BY DEF UserUnlist
<1>3. /\ t # <<>> /\ t[1].do = "userUnlist" /\ ChatSuits(t[1]) /\ l \in ChatLocal /\ ChatTyped
      /\ Moved(r, Tail(t), l) /\ tally' = tally /\ This(r) = t[1] /\ Loc(r) = l
      /\ Tail(t) # <<>> => ChatFollows(t[1], Tail(t)[1])
      /\ l.user \in UserIds
  BY <1>1, <1>2, ChatAt DEF UserUnlist, ChatEnds, UserDo, SessionDo, KnownDo, Adding
<1>4. ChatTyped' /\ ChatGrows
  BY <1>3 DEF UserUnlist, ChatTyped, ChatGrows, ChatSuits, userVars, sessionVars, episodeVars
<1> QED BY <1>1, <1>3, <1>4, ChatGoesOn DEF ChatFollows, UserDo, SessionDo, KnownDo, Adding, ChatGrows

(* Sessions. *)
LEMMA SessionListShape ==
    ASSUME ChatShape, NEW r \in Requests, SessionList(r)
    PROVE  ChatShape'
<1>1. PICK t, l : t = request[r].todo /\ l = request[r].loc
  OBVIOUS
<1>2. At(r, "sessionList")
  BY DEF SessionList
<1>3. /\ t # <<>> /\ t[1].do = "sessionList" /\ ChatSuits(t[1]) /\ l \in ChatLocal /\ ChatTyped
      /\ Moved(r, Tail(t), l) /\ tally' = tally /\ This(r) = t[1] /\ Loc(r) = l
      /\ Tail(t) # <<>> => ChatFollows(t[1], Tail(t)[1])
      /\ l.user \in UserIds /\ l.session \in chatPast.sessions /\ l.session \in SessionIds
  BY <1>1, <1>2, ChatAt DEF SessionList, ChatEnds, UserDo, SessionDo, KnownDo, Adding
<1>4. ChatTyped' /\ ChatGrows
  BY <1>3 DEF SessionList, ChatTyped, ChatGrows, ChatSuits, userVars, sessionVars, episodeVars
<1> QED BY <1>1, <1>3, <1>4, ChatGoesOn DEF ChatFollows, UserDo, SessionDo, KnownDo, Adding, ChatGrows

LEMMA SessionDelShape ==
    ASSUME ChatShape, NEW r \in Requests, SessionDel(r)
    PROVE  ChatShape'
<1>1. PICK t, l : t = request[r].todo /\ l = request[r].loc
  OBVIOUS
<1>2. At(r, "sessionDel")
  BY DEF SessionDel
<1>3. /\ t # <<>> /\ t[1].do = "sessionDel" /\ ChatSuits(t[1]) /\ l \in ChatLocal /\ ChatTyped
      /\ Moved(r, Tail(t), l) /\ tally' = tally /\ This(r) = t[1] /\ Loc(r) = l
      /\ Tail(t) # <<>> => ChatFollows(t[1], Tail(t)[1])
      /\ l.session \in SessionIds
  BY <1>1, <1>2, ChatAt DEF SessionDel, ChatEnds, UserDo, SessionDo, KnownDo, Adding
<1>4. ChatTyped' /\ ChatGrows
  BY <1>3 DEF SessionDel, ChatTyped, ChatGrows, ChatSuits, userVars, sessionVars, episodeVars
<1> QED BY <1>1, <1>3, <1>4, ChatGoesOn DEF ChatFollows, UserDo, SessionDo, KnownDo, Adding, ChatGrows

LEMMA SessionUnlistShape ==
    ASSUME ChatShape, NEW r \in Requests, SessionUnlist(r)
    PROVE  ChatShape'
<1>1. PICK t, l : t = request[r].todo /\ l = request[r].loc
  OBVIOUS
<1>2. At(r, "sessionUnlist")
  BY DEF SessionUnlist
<1>3. /\ t # <<>> /\ t[1].do = "sessionUnlist" /\ ChatSuits(t[1]) /\ l \in ChatLocal /\ ChatTyped
      /\ Moved(r, Tail(t), l) /\ tally' = tally /\ This(r) = t[1] /\ Loc(r) = l
      /\ Tail(t) # <<>> => ChatFollows(t[1], Tail(t)[1])
      /\ l.session \in SessionIds
  BY <1>1, <1>2, ChatAt DEF SessionUnlist, ChatEnds, UserDo, SessionDo, KnownDo, Adding
<1>4. ChatTyped' /\ ChatGrows
  BY <1>3 DEF SessionUnlist, ChatTyped, ChatGrows, ChatSuits, userVars, sessionVars, episodeVars
<1> QED BY <1>1, <1>3, <1>4, ChatGoesOn DEF ChatFollows, UserDo, SessionDo, KnownDo, Adding, ChatGrows

(* Episodes. *)
LEMMA EpisodeListShape ==
    ASSUME ChatShape, NEW r \in Requests, EpisodeList(r)
    PROVE  ChatShape'
<1>1. PICK t, l : t = request[r].todo /\ l = request[r].loc
  OBVIOUS
<1>2. At(r, "episodeList")
  BY DEF EpisodeList
<1>3. /\ t # <<>> /\ t[1].do = "episodeList" /\ ChatSuits(t[1]) /\ l \in ChatLocal /\ ChatTyped
      /\ Moved(r, Tail(t), l) /\ tally' = tally /\ This(r) = t[1] /\ Loc(r) = l
      /\ Tail(t) # <<>> => ChatFollows(t[1], Tail(t)[1])
      /\ l.session \in chatPast.sessions /\ l.session \in SessionIds /\ l.episode \in chatPast.in[l.session]
  BY <1>1, <1>2, ChatAt DEF EpisodeList, ChatEnds, UserDo, SessionDo, KnownDo, Adding
<1>4. ChatTyped' /\ ChatGrows
  BY <1>3 DEF EpisodeList, ChatTyped, ChatGrows, ChatSuits, userVars, sessionVars, episodeVars
<1> QED BY <1>1, <1>3, <1>4, ChatGoesOn DEF ChatFollows, UserDo, SessionDo, KnownDo, Adding, ChatGrows

LEMMA EpisodeQueueShape ==
    ASSUME ChatShape, NEW r \in Requests, EpisodeQueue(r)
    PROVE  ChatShape'
<1>1. PICK t, l : t = request[r].todo /\ l = request[r].loc
  OBVIOUS
<1>2. At(r, "episodeQueue")
  BY DEF EpisodeQueue
<1>3. /\ t # <<>> /\ t[1].do = "episodeQueue" /\ ChatSuits(t[1]) /\ l \in ChatLocal /\ ChatTyped
      /\ Moved(r, Tail(t), l) /\ tally' = tally /\ This(r) = t[1] /\ Loc(r) = l
      /\ Tail(t) # <<>> => ChatFollows(t[1], Tail(t)[1])
      /\ l.session \in chatPast.sessions /\ l.session \in SessionIds /\ l.episode \in chatPast.in[l.session]
  BY <1>1, <1>2, ChatAt DEF EpisodeQueue, ChatEnds, UserDo, SessionDo, KnownDo, Adding
<1>4. ChatTyped' /\ ChatGrows
  BY <1>3 DEF EpisodeQueue, ChatTyped, ChatGrows, ChatSuits, userVars, sessionVars, episodeVars
<1> QED BY <1>1, <1>3, <1>4, ChatGoesOn DEF ChatFollows, UserDo, SessionDo, KnownDo, Adding, ChatGrows

LEMMA EpisodeUnlistShape ==
    ASSUME ChatShape, NEW r \in Requests, EpisodeUnlist(r)
    PROVE  ChatShape'
<1>1. PICK t, l : t = request[r].todo /\ l = request[r].loc
  OBVIOUS
<1>2. At(r, "episodeUnlist")
  BY DEF EpisodeUnlist
<1>3. /\ t # <<>> /\ t[1].do = "episodeUnlist" /\ ChatSuits(t[1]) /\ l \in ChatLocal /\ ChatTyped
      /\ Moved(r, Tail(t), l) /\ tally' = tally /\ This(r) = t[1] /\ Loc(r) = l
      /\ Tail(t) # <<>> => ChatFollows(t[1], Tail(t)[1])
      /\ l.session \in SessionIds
  BY <1>1, <1>2, ChatAt DEF EpisodeUnlist, ChatEnds, UserDo, SessionDo, KnownDo, Adding
<1>4. ChatTyped' /\ ChatGrows
  BY <1>3 DEF EpisodeUnlist, ChatTyped, ChatGrows, ChatSuits, userVars, sessionVars, episodeVars
<1> QED BY <1>1, <1>3, <1>4, ChatGoesOn DEF ChatFollows, UserDo, SessionDo, KnownDo, Adding, ChatGrows

LEMMA EpisodeUnqueueShape ==
    ASSUME ChatShape, NEW r \in Requests, EpisodeUnqueue(r)
    PROVE  ChatShape'
<1>1. PICK t, l : t = request[r].todo /\ l = request[r].loc
  OBVIOUS
<1>2. At(r, "episodeUnqueue")
  BY DEF EpisodeUnqueue
<1>3. /\ t # <<>> /\ t[1].do = "episodeUnqueue" /\ ChatSuits(t[1]) /\ l \in ChatLocal /\ ChatTyped
      /\ Moved(r, Tail(t), l) /\ tally' = tally /\ This(r) = t[1] /\ Loc(r) = l
      /\ Tail(t) # <<>> => ChatFollows(t[1], Tail(t)[1])
      /\ l.session \in SessionIds
  BY <1>1, <1>2, ChatAt DEF EpisodeUnqueue, ChatEnds, UserDo, SessionDo, KnownDo, Adding
<1>4. ChatTyped' /\ ChatGrows
  BY <1>3 DEF EpisodeUnqueue, ChatTyped, ChatGrows, ChatSuits, userVars, sessionVars, episodeVars
<1> QED BY <1>1, <1>3, <1>4, ChatGoesOn DEF ChatFollows, UserDo, SessionDo, KnownDo, Adding, ChatGrows

LEMMA EpisodeEraseShape ==
    ASSUME ChatShape, NEW r \in Requests, EpisodeErase(r)
    PROVE  ChatShape'
<1>1. PICK t, l : t = request[r].todo /\ l = request[r].loc
  OBVIOUS
<1>2. At(r, "episodeErase")
  BY DEF EpisodeErase
<1>3. /\ t # <<>> /\ t[1].do = "episodeErase" /\ ChatSuits(t[1]) /\ l \in ChatLocal /\ ChatTyped
      /\ Moved(r, Tail(t), l) /\ tally' = tally /\ This(r) = t[1] /\ Loc(r) = l
      /\ Tail(t) # <<>> => ChatFollows(t[1], Tail(t)[1])
      /\ l.session \in SessionIds
  BY <1>1, <1>2, ChatAt DEF EpisodeErase, ChatEnds, UserDo, SessionDo, KnownDo, Adding
<1>4. ChatTyped' /\ ChatGrows
  BY <1>3 DEF EpisodeErase, ChatTyped, ChatGrows, ChatSuits, userVars, sessionVars, episodeVars
<1> QED BY <1>1, <1>3, <1>4, ChatGoesOn DEF ChatFollows, UserDo, SessionDo, KnownDo, Adding, ChatGrows

LEMMA ClearIndexShape ==
    ASSUME ChatShape, NEW r \in Requests, ClearIndex(r)
    PROVE  ChatShape'
<1>1. PICK t, l : t = request[r].todo /\ l = request[r].loc
  OBVIOUS
<1>2. At(r, "clearIndex")
  BY DEF ClearIndex
<1>3. /\ t # <<>> /\ t[1].do = "clearIndex" /\ ChatSuits(t[1]) /\ l \in ChatLocal /\ ChatTyped
      /\ Moved(r, Tail(t), l) /\ tally' = tally /\ This(r) = t[1] /\ Loc(r) = l
      /\ Tail(t) # <<>> => ChatFollows(t[1], Tail(t)[1])
      /\ l.session \in SessionIds
  BY <1>1, <1>2, ChatAt DEF ClearIndex, ChatEnds, UserDo, SessionDo, KnownDo, Adding
<1>4. ChatTyped' /\ ChatGrows
  BY <1>3 DEF ClearIndex, ChatTyped, ChatGrows, ChatSuits, userVars, sessionVars, episodeVars
<1> QED BY <1>1, <1>3, <1>4, ChatGoesOn DEF ChatFollows, UserDo, SessionDo, KnownDo, Adding, ChatGrows

LEMMA CompleteShape ==
    ASSUME ChatShape, NEW r \in Requests, Complete(r)
    PROVE  ChatShape'
<1>1. PICK t, l : t = request[r].todo /\ l = request[r].loc
  OBVIOUS
<1>2. At(r, "complete")
  BY DEF Complete
<1>3. /\ t # <<>> /\ t[1].do = "complete" /\ ChatSuits(t[1]) /\ l \in ChatLocal /\ ChatTyped
      /\ Moved(r, Tail(t), l) /\ tally' = tally /\ This(r) = t[1] /\ Loc(r) = l
      /\ Tail(t) # <<>> => ChatFollows(t[1], Tail(t)[1])
      /\ l.session \in SessionIds
  BY <1>1, <1>2, ChatAt DEF Complete, ChatEnds, UserDo, SessionDo, KnownDo, Adding
<1>4. ChatTyped' /\ ChatGrows
  BY <1>3 DEF Complete, ChatTyped, ChatGrows, ChatSuits, userVars, sessionVars, episodeVars
<1> QED BY <1>1, <1>3, <1>4, ChatGoesOn DEF ChatFollows, UserDo, SessionDo, KnownDo, Adding, ChatGrows

(* What is created, read and stored. *)
LEMMA UserSetShape ==
    ASSUME ChatShape, NEW r \in Requests, UserSet(r)
    PROVE  ChatShape'
<1>1. PICK t, l, u : t = request[r].todo /\ l = request[r].loc /\ u = Fresh(UserIds, chatPast.users)
  OBVIOUS
<1>2. At(r, "userSet") /\ u \in UserIds /\ u \notin chatPast.users
  <2>1. UserIds \subseteq Nat \ {0}
    BY ConversationAssumption
  <2>2. At(r, "userSet") /\ UserIds \ chatPast.users # {}
    BY DEF UserSet
  <2> QED BY <1>1, <2>1, <2>2, FreshIs
<1>3. PICK m : m = [l EXCEPT !.user = u]
  OBVIOUS
<1>4. /\ t # <<>> /\ t[1].do = "userSet" /\ ChatSuits(t[1]) /\ l \in ChatLocal /\ ChatTyped
      /\ Moved(r, Tail(t), m) /\ tally' = tally /\ This(r) = t[1]
      /\ Tail(t) # <<>> => ChatFollows(t[1], Tail(t)[1])
  <2>1. Loc(r) = l
    BY <1>1, <1>2, ChatAt
  <2>2. Sent(r, m)
    BY <1>1, <1>3, <2>1 DEF UserSet
  <2> QED BY <1>1, <1>2, <2>2, ChatAt DEF ChatEnds
<1>5. m \in ChatLocal /\ m.user = u /\ m.episode = l.episode
  BY <1>2, <1>3, <1>4 DEF ChatLocal
<1>6. /\ users' = [users EXCEPT ![u] = t[1].id] /\ t[1].id \in People
      /\ chatPast'.users = chatPast.users \cup {u} /\ chatPast'.made \in {chatPast.made, chatPast.made \cup {u}}
      /\ chatPast' = [chatPast EXCEPT !.users = chatPast'.users, !.made = chatPast'.made]
      /\ UNCHANGED <<userIndex, userExt, sessions, userSessions, episodes, sessionEpisodes, pendingQueue>>
  BY <1>1, <1>4 DEF UserSet, ChatTyped, ChatSuits, sessionVars, episodeVars
<1>7. ChatTyped' /\ ChatGrows
  BY <1>2, <1>4, <1>6, ZenonT(30) DEF ChatTyped, ChatGrows
<1>8. u \in chatPast'.users
  BY <1>6
<1> QED BY <1>1, <1>2, <1>4, <1>5, <1>7, <1>8, ChatGoesOn DEF ChatFollows, UserDo, SessionDo, KnownDo, Adding

LEMMA SessionSetShape ==
    ASSUME ChatShape, NEW r \in Requests, SessionSet(r)
    PROVE  ChatShape'
<1>1. PICK t, l, s : t = request[r].todo /\ l = request[r].loc /\ s = Fresh(SessionIds, chatPast.sessions)
  OBVIOUS
<1>2. At(r, "sessionSet") /\ s \in SessionIds /\ s \notin chatPast.sessions
  <2>1. SessionIds \subseteq Nat \ {0}
    BY ConversationAssumption
  <2>2. At(r, "sessionSet") /\ SessionIds \ chatPast.sessions # {}
    BY DEF SessionSet
  <2> QED BY <1>1, <2>1, <2>2, FreshIs
<1>3. PICK m : m = [l EXCEPT !.session = s]
  OBVIOUS
<1>4. /\ t # <<>> /\ t[1].do = "sessionSet" /\ ChatSuits(t[1]) /\ l \in ChatLocal /\ ChatTyped
      /\ Moved(r, Tail(t), m) /\ tally' = tally /\ This(r) = t[1] /\ Loc(r) = l /\ l.user \in UserIds
      /\ Tail(t) # <<>> => ChatFollows(t[1], Tail(t)[1])
  BY <1>1, <1>2, <1>3, ChatAt DEF SessionSet, ChatEnds, UserDo
<1>5. m \in ChatLocal /\ m.session = s /\ m.episode = l.episode /\ m.user = l.user
  BY <1>2, <1>3, <1>4 DEF ChatLocal
<1>6. PICK doc : doc = [NoSession EXCEPT !.user = l.user, !.name = t[1].id]
  OBVIOUS
<1>7. doc \in SessionDocs
  BY <1>4, <1>6 DEF NoSession, SessionDocs, ChatSuits, None
<1>8. /\ sessions' = [sessions EXCEPT ![s] = doc]
      /\ chatPast' = [chatPast EXCEPT !.sessions = chatPast.sessions \cup {s}]
      /\ UNCHANGED <<users, userIndex, userExt, userSessions, episodes, sessionEpisodes, pendingQueue>>
  BY <1>1, <1>4, <1>6 DEF SessionSet, userVars, episodeVars
<1>9. ChatTyped' /\ ChatGrows
  BY <1>2, <1>4, <1>7, <1>8 DEF ChatTyped, ChatGrows
<1>10. s \in chatPast'.sessions
  BY <1>4, <1>8 DEF ChatTyped
<1> QED BY <1>1, <1>2, <1>4, <1>5, <1>9, <1>10, ChatGoesOn DEF ChatFollows, UserDo, SessionDo, KnownDo, Adding

(* What a request stores in a session is a document of it. *)
LEMMA ChangedIs ==
    ASSUME ChatShape, NEW r \in Requests, At(r, "sessionPut"), NEW t, NEW l,
           t = request[r].todo, l = request[r].loc
    PROVE  /\ Changed(r) \in SessionDocs /\ Changed(r).user = l.copy.user
           /\ t[1].how = "count" => Changed(r).count = l.copy.count + 1 /\ Changed(r).head = l.episode
           /\ t[1].how # "count" => Changed(r).count = l.copy.count /\ Changed(r).head = l.copy.head
<1>1. /\ t # <<>> /\ t[1].do = "sessionPut" /\ ChatSuits(t[1]) /\ l \in ChatLocal /\ l.copy \in SessionDocs
      /\ This(r) = t[1] /\ Loc(r) = l /\ ChatInPlace(t, l)
  BY ChatAt
<1>2. t[1] \in ChatCommand /\ Len(t) \in Nat /\ Len(t) >= 1
  BY <1>1, ChatTail
<1>3. t[1].how \in {"count", "update", "summary"}
  BY <1>1, <1>2 DEF ChatSuits, ChatCommand
<1>4. t[1].how = "summary" => l.episode \in EpisodeIds
  <2>1. 1 \in 1 .. Len(t)
    BY <1>2
  <2> QED BY <1>1, <2>1 DEF ChatInPlace, FitsChat
<1>5. l.episode \in EpisodeIds \cup {None}
  BY <1>1 DEF ChatLocal
<1>6. CASE t[1].how = "count"
  <2>1. Changed(r) = [l.copy EXCEPT !.count = @ + 1, !.head = l.episode]
    BY <1>1, <1>6 DEF Changed
  <2>2. PICK d : d = l.copy /\ d \in SessionDocs
    BY <1>1
  <2>3. PICK x : x = [d EXCEPT !.count = @ + 1, !.head = l.episode]
    OBVIOUS
  <2>4. x \in SessionDocs /\ x.user = d.user /\ x.count = d.count + 1 /\ x.head = l.episode
    <3>1. PICK n, e : n = d.count /\ e = l.episode
      OBVIOUS
    <3>2. n \in Nat /\ n + 1 \in Nat /\ e \in EpisodeIds \cup {None}
      BY <1>5, <2>2, <3>1 DEF SessionDocs
    <3>3. PICK k : k = n + 1
      OBVIOUS
    <3>4. x = [d EXCEPT !.count = k, !.head = e]
      BY <2>3, <3>1, <3>3
    <3> HIDE <2>3
    <3>5. x \in SessionDocs /\ x.user = d.user /\ x.count = k /\ x.head = e
      BY <2>2, <3>2, <3>3, <3>4 DEF SessionDocs
    <3> QED BY <3>1, <3>3, <3>5
  <2> QED BY <1>6, <2>1, <2>2, <2>3, <2>4
<1>7. CASE t[1].how = "update"
  <2>1. Changed(r) = l.copy
    BY <1>1, <1>7 DEF Changed
  <2> QED BY <1>1, <1>7, <2>1
<1>8. CASE t[1].how = "summary"
  <2>1. Changed(r) = [l.copy EXCEPT !.summary = l.episode]
    BY <1>1, <1>8 DEF Changed
  <2> QED BY <1>1, <1>5, <1>8, <2>1 DEF SessionDocs
<1> QED BY <1>3, <1>6, <1>7, <1>8

LEMMA SessionPutShape ==
    ASSUME ChatShape, NEW r \in Requests, SessionPut(r)
    PROVE  ChatShape'
<1>1. PICK t, l : t = request[r].todo /\ l = request[r].loc
  OBVIOUS
<1>2. At(r, "sessionPut")
  BY DEF SessionPut
<1>3. /\ t # <<>> /\ t[1].do = "sessionPut" /\ l \in ChatLocal /\ ChatTyped
      /\ Moved(r, Tail(t), l) /\ tally' = tally /\ Loc(r) = l
      /\ l.session \in SessionIds /\ l.session \in chatPast.sessions
      /\ Tail(t) # <<>> => ChatFollows(t[1], Tail(t)[1])
  BY <1>1, <1>2, ChatAt DEF SessionPut, ChatEnds, KnownDo
<1>4. PICK doc : doc = Changed(r) /\ doc \in SessionDocs
  BY <1>1, <1>2, ChangedIs
<1>5. /\ sessions' = [sessions EXCEPT ![l.session] = doc]
      /\ UNCHANGED <<users, userIndex, userExt, userSessions, episodes, sessionEpisodes, pendingQueue, chatPast>>
  BY <1>3, <1>4 DEF SessionPut, userVars, episodeVars
<1>6. ChatTyped' /\ ChatGrows
  BY <1>3, <1>4, <1>5 DEF ChatTyped, ChatGrows
<1> QED BY <1>1, <1>3, <1>6, ChatGoesOn DEF ChatFollows

LEMMA EpisodeSetShape ==
    ASSUME ChatShape, NEW r \in Requests, EpisodeSet(r)
    PROVE  ChatShape'
<1>1. PICK t, l, e : t = request[r].todo /\ l = request[r].loc /\ e = Fresh(EpisodeIds, chatPast.episodes)
  OBVIOUS
<1>2. At(r, "episodeSet") /\ e \in EpisodeIds /\ e \notin chatPast.episodes
  <2>1. EpisodeIds \subseteq Nat \ {0}
    BY ConversationAssumption
  <2>2. At(r, "episodeSet") /\ EpisodeIds \ chatPast.episodes # {}
    BY DEF EpisodeSet
  <2> QED BY <1>1, <2>1, <2>2, FreshIs
<1>3. PICK m : m = [l EXCEPT !.episode = e]
  OBVIOUS
<1>4. /\ t # <<>> /\ t[1].do = "episodeSet" /\ l \in ChatLocal /\ ChatTyped
      /\ Moved(r, Tail(t), m) /\ tally' = tally /\ Loc(r) = l
      /\ l.session \in SessionIds /\ l.session \in chatPast.sessions
      /\ Tail(t) # <<>> => ChatFollows(t[1], Tail(t)[1])
  BY <1>1, <1>2, <1>3, ChatAt, SMTT(30) DEF EpisodeSet, ChatEnds, KnownDo
<1>5. m \in ChatLocal /\ m.episode = e /\ m.session = l.session
  BY <1>2, <1>3, <1>4 DEF ChatLocal
<1>6. /\ episodes' = [episodes EXCEPT ![e] = [session |-> l.session, status |-> "pending"]]
      /\ chatPast' = [chatPast EXCEPT !.episodes = @ \cup {e}, !.in[l.session] = @ \cup {e}]
      /\ UNCHANGED <<users, userIndex, userExt, sessions, userSessions, sessionEpisodes, pendingQueue>>
  BY <1>1, <1>4 DEF EpisodeSet, userVars, sessionVars
<1>7. /\ chatPast'.in = [chatPast.in EXCEPT ![l.session] = @ \cup {e}]
      /\ chatPast'.episodes = chatPast.episodes \cup {e}
      /\ chatPast'.users = chatPast.users /\ chatPast'.sessions = chatPast.sessions
      /\ chatPast'.made = chatPast.made /\ chatPast'.cleared = chatPast.cleared
      /\ chatPast' = [users |-> chatPast.users, sessions |-> chatPast.sessions, episodes |-> chatPast'.episodes,
                      made |-> chatPast.made, in |-> chatPast'.in, cleared |-> chatPast.cleared]
  BY <1>4, <1>6 DEF ChatTyped
<1>8. \A s \in SessionIds : /\ chatPast.in[s] \subseteq chatPast'.in[s]
                            /\ s # l.session => chatPast'.in[s] = chatPast.in[s]
  BY <1>4, <1>7 DEF ChatTyped
<1>9. chatPast'.in[l.session] = chatPast.in[l.session] \cup {e}
  BY <1>4, <1>7 DEF ChatTyped
<1>10. IsFiniteSet(chatPast'.in[l.session])
  <2>1. IsFiniteSet(chatPast.in[l.session])
    BY <1>4 DEF ChatTyped
  <2> QED BY <1>9, <2>1, FS_AddElement
<1>11. chatPast' \in [users : SUBSET UserIds, sessions : SUBSET SessionIds, episodes : SUBSET EpisodeIds,
                      made : SUBSET UserIds, in : [SessionIds -> SUBSET EpisodeIds], cleared : SUBSET SessionIds]
  BY <1>2, <1>4, <1>7 DEF ChatTyped
<1>12. \A s \in SessionIds : /\ IsFiniteSet(chatPast'.in[s]) /\ chatPast'.in[s] \subseteq chatPast'.episodes
                             /\ sessionEpisodes'[s] \subseteq chatPast'.in[s]
                             /\ s \notin chatPast'.sessions => chatPast'.in[s] = {}
  <2> SUFFICES ASSUME NEW s \in SessionIds
               PROVE  /\ IsFiniteSet(chatPast'.in[s]) /\ chatPast'.in[s] \subseteq chatPast'.episodes
                      /\ sessionEpisodes'[s] \subseteq chatPast'.in[s]
                      /\ s \notin chatPast'.sessions => chatPast'.in[s] = {}
    OBVIOUS
  <2>1. /\ IsFiniteSet(chatPast.in[s]) /\ chatPast.in[s] \subseteq chatPast.episodes
        /\ sessionEpisodes[s] \subseteq chatPast.in[s]
        /\ s \notin chatPast.sessions => chatPast.in[s] = {}
    BY <1>4 DEF ChatTyped
  <2>2. CASE s = l.session
    BY <1>4, <1>6, <1>7, <1>9, <1>10, <2>1, <2>2
  <2>3. CASE s # l.session
    BY <1>6, <1>7, <1>8, <2>1, <2>3
  <2> QED BY <2>2, <2>3
<1>13. ChatTyped'
  <2>1. episodes' \in [EpisodeIds -> [session : SessionIds, status : {"pending", "processing", "completed"}]
                                       \cup {NoEpisode}]
    BY <1>2, <1>4, <1>6 DEF ChatTyped
  <2> QED BY <1>4, <1>6, <1>7, <1>11, <1>12, <2>1 DEF ChatTyped
<1>14. ChatGrows
  BY <1>7, <1>8 DEF ChatGrows
<1>15. e \in chatPast'.in[m.session] /\ m.session \in chatPast'.sessions
  BY <1>4, <1>5, <1>7, <1>9
<1> QED BY <1>1, <1>2, <1>4, <1>5, <1>13, <1>14, <1>15, ChatGoesOn DEF ChatFollows, UserDo, SessionDo, KnownDo, Adding

LEMMA WorkShape ==
    ASSUME ChatShape, NEW r \in Requests, Work(r)
    PROVE  ChatShape'
<1>1. PICK t, l : t = request[r].todo /\ l = request[r].loc
  OBVIOUS
<1>2. At(r, "work")
  BY DEF Work
<1>3. /\ t # <<>> /\ t[1].do = "work" /\ l \in ChatLocal /\ ChatTyped /\ ChatSuits(t[1]) /\ This(r) = t[1] /\ Loc(r) = l
      /\ \A m : Sent(r, m) => Moved(r, Tail(t), m) /\ tally' = tally
      /\ Refuse(r) => Moved(r, <<>>, l) /\ tally' = tally
      /\ Tail(t) # <<>> => ChatFollows(t[1], Tail(t)[1])
      /\ r \in Busy
  BY <1>1, <1>2, ChatAt
<1>4. PICK e : e = t[1].id /\ e \in EpisodeIds
  BY <1>3 DEF ChatSuits
<1>5. UNCHANGED <<users, userIndex, userExt, sessions, userSessions, sessionEpisodes, chatPast>>
  BY DEF Work, userVars, sessionVars
<1>6. pendingQueue' = pendingQueue \ {e}
  BY <1>3, <1>4 DEF Work
<1>7. CASE e \in pendingQueue /\ episodes[e] # NoEpisode
  <2>1. PICK m : m = [l EXCEPT !.session = episodes[e].session]
    OBVIOUS
  <2>2. episodes' = [episodes EXCEPT ![e].status = "processing"] /\ Moved(r, Tail(t), m) /\ tally' = tally
    BY <1>3, <1>4, <1>7, <2>1 DEF Work
  <2>3. episodes[e] \in [session : SessionIds, status : {"pending", "processing", "completed"}]
    BY <1>3, <1>4, <1>7 DEF ChatTyped
  <2>4. m \in ChatLocal /\ m.episode = l.episode /\ m.session \in SessionIds
    BY <1>3, <2>1, <2>3 DEF ChatLocal
  <2>5. [episodes[e] EXCEPT !.status = "processing"]
          \in [session : SessionIds, status : {"pending", "processing", "completed"}]
    BY <2>3
  <2>6. episodes' = [episodes EXCEPT ![e] = [episodes[e] EXCEPT !.status = "processing"]]
    BY <1>3, <1>4, <2>2 DEF ChatTyped
  <2>7. ChatTyped' /\ ChatGrows
    BY <1>3, <1>4, <1>5, <1>6, <2>5, <2>6 DEF ChatTyped, ChatGrows
  <2> QED BY <1>1, <1>3, <2>2, <2>4, <2>7, ChatGoesOn DEF ChatFollows, UserDo, SessionDo, KnownDo, Adding
<1>8. CASE ~(e \in pendingQueue /\ episodes[e] # NoEpisode)
  <2>1. episodes' = episodes /\ Moved(r, <<>>, l) /\ tally' = tally
    BY <1>3, <1>4, <1>8 DEF Work
  <2>2. ChatTyped' /\ ChatGrows
    BY <1>3, <1>5, <1>6, <2>1 DEF ChatTyped, ChatGrows
  <2>3. tally' \in Tallies
    BY <2>1 DEF ChatShape
  <2> QED BY <1>1, <1>3, <2>1, <2>2, <2>3, ChatStops
<1> QED BY <1>7, <1>8

LEMMA UserNeedShape ==
    ASSUME ChatShape, NEW r \in Requests, UserNeed(r)
    PROVE  ChatShape'
<1>1. PICK t, l : t = request[r].todo /\ l = request[r].loc
  OBVIOUS
<1>2. At(r, "userNeed") /\ UNCHANGED chatVars
  BY DEF UserNeed
<1>3. /\ t # <<>> /\ t[1].do = "userNeed" /\ l \in ChatLocal /\ ChatTyped /\ Loc(r) = l /\ l.user \in UserIds
      /\ \A m : Sent(r, m) => Moved(r, Tail(t), m) /\ tally' = tally
      /\ Refuse(r) => Moved(r, <<>>, l) /\ tally' = tally
      /\ Tail(t) # <<>> => ChatFollows(t[1], Tail(t)[1])
      /\ r \in Busy
  BY <1>1, <1>2, ChatAt DEF UserDo
<1>4. ChatTyped' /\ ChatGrows
  BY <1>2, <1>3, ChatStands
<1>5. CASE users[l.user] = NoUser
  <2>1. Refuse(r)
    BY <1>3, <1>5 DEF UserNeed
  <2> QED BY <1>1, <1>2, <1>3, <2>1, ChatRefused
<1>6. CASE users[l.user] # NoUser
  <2>1. PICK m : m = [l EXCEPT !.found = {users[l.user]}]
    OBVIOUS
  <2>2. Sent(r, m)
    BY <1>3, <1>6, <2>1 DEF UserNeed
  <2>3. users[l.user] \in People
    BY <1>3, <1>6 DEF ChatTyped
  <2>4. m \in ChatLocal /\ m.user = l.user /\ m.episode = l.episode
    BY <1>3, <2>1, <2>3 DEF ChatLocal
  <2>5. Moved(r, Tail(t), m) /\ tally' = tally
    BY <1>3, <2>2
  <2> QED BY <1>1, <1>3, <1>4, <2>4, <2>5, ChatGoesOn DEF ChatFollows, UserDo, SessionDo, KnownDo, Adding
<1> QED BY <1>5, <1>6

(* What is looked for, and what is read. *)
LEMMA FindUserShape ==
    ASSUME ChatShape, NEW r \in Requests, FindUser(r)
    PROVE  ChatShape'
<1>1. PICK t, l : t = request[r].todo /\ l = request[r].loc
  OBVIOUS
<1>2. At(r, "findUser") /\ UNCHANGED chatVars
  BY DEF FindUser
<1>3. /\ t # <<>> /\ t[1].do = "findUser" /\ l \in ChatLocal /\ ChatTyped /\ Loc(r) = l /\ ChatSuits(t[1])
      /\ This(r) = t[1] /\ ChatInPlace(t, l)
      /\ \A m : Sent(r, m) => Moved(r, Tail(t), m) /\ tally' = tally
      /\ \A m, n : Insert(r, m, n) => Moved(r, m \o Tail(t), n) /\ tally' = tally
      /\ Tail(t) # <<>> => ChatFollows(t[1], Tail(t)[1])
      /\ r \in Busy
  BY <1>1, <1>2, ChatAt
<1>4. ChatTyped' /\ ChatGrows
  BY <1>2, <1>3, ChatStands
<1>5. PICK p : p = t[1].id /\ p \in People
  BY <1>3 DEF ChatSuits
<1>6. ASSUME NEW u \in UserIds, Sent(r, [Loc(r) EXCEPT !.user = u])
      PROVE  ChatShape'
  <2>1. PICK m : m = [l EXCEPT !.user = u]
    OBVIOUS
  <2>2. m \in ChatLocal /\ m.user = u /\ m.episode = l.episode
    BY <1>3, <2>1 DEF ChatLocal
  <2>3. Moved(r, Tail(t), m) /\ tally' = tally
    BY <1>3, <1>6, <2>1
  <2> QED BY <1>1, <1>3, <1>4, <2>2, <2>3, ChatGoesOn DEF ChatFollows, UserDo, SessionDo, KnownDo, Adding
<1>7. ASSUME Insert(r, create_user(p), Loc(r))
      PROVE  ChatShape'
  <2>1. PICK y, u : y = Tail(t) /\ u = create_user(p) \o y
    OBVIOUS
  <2>2. Moved(r, u, l) /\ tally' = tally
    BY <1>3, <1>7, <2>1
  <2>3. /\ y \in Seq(ChatCommand) /\ InChatOrder(y) /\ (y # <<>> => y[1].do = "findSession")
        /\ (\E i \in 1 .. Len(y) : y[i].how = "summary") => l.episode \in EpisodeIds
    BY <1>3, <2>1, ChatTail DEF ChatFollows
  <2>4. Leads(create_user(p) \o y, "userSet") /\ (NoSummary(y) => NoSummary(create_user(p) \o y))
    BY <1>5, <2>3, CreateUserList, Zenon
  <2>5. Leads(u, "userSet") /\ (NoSummary(y) => NoSummary(u))
    BY <2>1, <2>4
  <2>6. ChatInPlace(u, l)'
    BY <1>3, <2>3, <2>5 DEF ChatInPlace, FitsChat, Leads, NoSummary, Adding, UserDo, SessionDo, KnownDo
  <2>7. ~tally'.overlapped => ~tally.overlapped /\ \A q \in Busy : q = r
    BY <1>3, <2>2 DEF ChatShape, OneBusy
  <2>8. tally' \in Tallies
    BY <2>2 DEF ChatShape
  <2> QED BY <1>4, <2>2, <2>6, <2>7, <2>8, ChatMoves
<1>8. userIndex \subseteq UserIds /\ (userExt[p] # None => userExt[p] \in UserIds)
  BY <1>3, <1>5 DEF ChatTyped
<1> QED BY <1>3, <1>5, <1>6, <1>7, <1>8 DEF FindUser

LEMMA FindSessionShape ==
    ASSUME ChatShape, NEW r \in Requests, FindSession(r)
    PROVE  ChatShape'
<1>1. PICK t, l : t = request[r].todo /\ l = request[r].loc
  OBVIOUS
<1>2. At(r, "findSession") /\ UNCHANGED chatVars
  BY DEF FindSession
<1>3. /\ t # <<>> /\ t[1].do = "findSession" /\ l \in ChatLocal /\ ChatTyped /\ Loc(r) = l /\ ChatSuits(t[1])
      /\ This(r) = t[1] /\ ChatInPlace(t, l) /\ l.user \in UserIds
      /\ \A m : Sent(r, m) => Moved(r, Tail(t), m) /\ tally' = tally
      /\ \A m, n : Insert(r, m, n) => Moved(r, m \o Tail(t), n) /\ tally' = tally
      /\ Tail(t) # <<>> => ChatFollows(t[1], Tail(t)[1])
      /\ r \in Busy
  BY <1>1, <1>2, ChatAt DEF UserDo
<1>4. ChatTyped' /\ ChatGrows
  BY <1>2, <1>3, ChatStands
<1>5. PICK n : n = t[1].id /\ n \in SessionNames
  BY <1>3 DEF ChatSuits
<1>6. ASSUME NEW s \in chatPast.sessions, s \in SessionIds, Sent(r, [Loc(r) EXCEPT !.session = s, !.copy = sessions[s]])
      PROVE  ChatShape'
  <2>1. PICK d : d = sessions[s] /\ d \in SessionDocs \cup {NoSession}
    BY <1>3, <1>6 DEF ChatTyped
  <2>2. PICK m : m = [l EXCEPT !.session = s, !.copy = d]
    OBVIOUS
  <2>3. m \in ChatLocal /\ m.session = s /\ m.episode = l.episode
    BY <1>3, <1>6, <2>1, <2>2 DEF ChatLocal
  <2>4. Moved(r, Tail(t), m) /\ tally' = tally
    BY <1>3, <1>6, <2>1, <2>2
  <2>5. s \in chatPast'.sessions
    BY <1>4 DEF ChatGrows
  <2> QED BY <1>1, <1>3, <1>4, <2>3, <2>4, <2>5, ChatGoesOn DEF ChatFollows, UserDo, SessionDo, KnownDo, Adding
<1>7. ASSUME Insert(r, create_session(n), Loc(r))
      PROVE  ChatShape'
  <2>1. PICK y, u : y = Tail(t) /\ u = create_session(n) \o y
    OBVIOUS
  <2>2. Moved(r, u, l) /\ tally' = tally
    BY <1>3, <1>7, <2>1
  <2>3. /\ y \in Seq(ChatCommand) /\ InChatOrder(y) /\ (y # <<>> => y[1].do = "episodeSet")
        /\ (\E i \in 1 .. Len(y) : y[i].how = "summary") => l.episode \in EpisodeIds
    BY <1>3, <2>1, ChatTail DEF ChatFollows
  <2>4. Leads(create_session(n) \o y, "userNeed") /\ (NoSummary(y) => NoSummary(create_session(n) \o y))
    BY <1>5, <2>3, CreateSessionList, Zenon
  <2>5. Leads(u, "userNeed") /\ (NoSummary(y) => NoSummary(u))
    BY <2>1, <2>4
  <2>6. ChatInPlace(u, l)'
    BY <1>3, <2>3, <2>5 DEF ChatInPlace, FitsChat, Leads, NoSummary, Adding, UserDo, SessionDo, KnownDo
  <2>7. ~tally'.overlapped => ~tally.overlapped /\ \A q \in Busy : q = r
    BY <1>3, <2>2 DEF ChatShape, OneBusy
  <2>8. tally' \in Tallies
    BY <2>2 DEF ChatShape
  <2> QED BY <1>4, <2>2, <2>6, <2>7, <2>8, ChatMoves
<1>8. userSessions[l.user] \subseteq chatPast.sessions /\ chatPast.sessions \subseteq SessionIds
  BY <1>3 DEF ChatTyped
<1> QED BY <1>3, <1>5, <1>6, <1>7, <1>8 DEF FindSession

LEMMA SessionReadShape ==
    ASSUME ChatShape, NEW r \in Requests, SessionRead(r)
    PROVE  ChatShape'
<1>1. PICK t, l : t = request[r].todo /\ l = request[r].loc
  OBVIOUS
<1>2. At(r, "sessionRead") /\ UNCHANGED chatVars
  BY DEF SessionRead
<1>3. /\ t # <<>> /\ t[1].do = "sessionRead" /\ l \in ChatLocal /\ ChatTyped /\ Loc(r) = l /\ l.session \in SessionIds
      /\ \A m : Sent(r, m) => Moved(r, Tail(t), m) /\ tally' = tally
      /\ Refuse(r) => Moved(r, <<>>, l) /\ tally' = tally
      /\ Tail(t) # <<>> => ChatFollows(t[1], Tail(t)[1])
      /\ r \in Busy
  BY <1>1, <1>2, ChatAt DEF SessionDo
<1>4. ChatTyped' /\ ChatGrows
  BY <1>2, <1>3, ChatStands
<1>5. CASE sessions[l.session] = NoSession
  <2>1. Refuse(r)
    BY <1>3, <1>5 DEF SessionRead
  <2> QED BY <1>1, <1>2, <1>3, <2>1, ChatRefused
<1>6. CASE sessions[l.session] # NoSession
  <2>1. PICK d : d = sessions[l.session]
    OBVIOUS
  <2>2. d \in SessionDocs /\ l.session \in chatPast.sessions
    BY <1>3, <1>6, <2>1 DEF ChatTyped
  <2>3. PICK m : m = [l EXCEPT !.copy = d]
    OBVIOUS
  <2>4. Sent(r, m)
    BY <1>3, <1>6, <2>1, <2>3 DEF SessionRead
  <2>5. m \in ChatLocal /\ m.session = l.session /\ m.copy = d /\ m.episode = l.episode
    BY <1>3, <2>2, <2>3 DEF ChatLocal
  <2>6. Moved(r, Tail(t), m) /\ tally' = tally
    BY <1>3, <2>4
  <2>7. m.session \in chatPast'.sessions
    BY <1>4, <2>2, <2>5 DEF ChatGrows
  <2> QED BY <1>1, <1>3, <1>4, <2>2, <2>5, <2>6, <2>7, ChatGoesOn DEF ChatFollows, UserDo, SessionDo, KnownDo, Adding
<1> QED BY <1>5, <1>6

LEMMA CountReadShape ==
    ASSUME ChatShape, NEW r \in Requests, CountRead(r)
    PROVE  ChatShape'
<1>1. PICK t, l : t = request[r].todo /\ l = request[r].loc
  OBVIOUS
<1>2. At(r, "countRead") /\ UNCHANGED chatVars
  BY DEF CountRead
<1>3. /\ t # <<>> /\ t[1].do = "countRead" /\ l \in ChatLocal /\ ChatTyped /\ Loc(r) = l
      /\ l.session \in SessionIds /\ l.session \in chatPast.sessions /\ l.episode \in chatPast.in[l.session]
      /\ \A m : Sent(r, m) => Moved(r, Tail(t), m) /\ tally' = tally
      /\ Refuse(r) => Moved(r, <<>>, l) /\ tally' = tally
      /\ Tail(t) # <<>> => ChatFollows(t[1], Tail(t)[1])
      /\ r \in Busy
  BY <1>1, <1>2, ChatAt DEF KnownDo, Adding
<1>4. ChatTyped' /\ ChatGrows
  BY <1>2, <1>3, ChatStands
<1>5. CASE sessions[l.session] = NoSession
  <2>1. Refuse(r)
    BY <1>3, <1>5 DEF CountRead
  <2> QED BY <1>1, <1>2, <1>3, <2>1, ChatRefused
<1>6. CASE sessions[l.session] # NoSession
  <2>1. PICK d : d = sessions[l.session]
    OBVIOUS
  <2>2. d \in SessionDocs
    BY <1>3, <1>6, <2>1 DEF ChatTyped
  <2>3. PICK m : m = [l EXCEPT !.copy = d]
    OBVIOUS
  <2>4. Sent(r, m)
    BY <1>3, <1>6, <2>1, <2>3 DEF CountRead
  <2>5. m \in ChatLocal /\ m.session = l.session /\ m.copy = d /\ m.episode = l.episode
    BY <1>3, <2>2, <2>3 DEF ChatLocal
  <2>6. Moved(r, Tail(t), m) /\ tally' = tally
    BY <1>3, <2>4
  <2>7. m.session \in chatPast'.sessions /\ m.episode \in chatPast'.in[m.session]
    BY <1>3, <1>4, <2>5 DEF ChatGrows
  <2> QED BY <1>1, <1>3, <1>4, <2>2, <2>5, <2>6, <2>7, ChatGoesOn DEF ChatFollows, UserDo, SessionDo, KnownDo, Adding
<1> QED BY <1>5, <1>6

LEMMA EpisodeNeedShape ==
    ASSUME ChatShape, NEW r \in Requests, EpisodeNeed(r)
    PROVE  ChatShape'
<1>1. PICK t, l : t = request[r].todo /\ l = request[r].loc
  OBVIOUS
<1>2. At(r, "episodeNeed") /\ UNCHANGED chatVars
  BY DEF EpisodeNeed
<1>3. /\ t # <<>> /\ t[1].do = "episodeNeed" /\ l \in ChatLocal /\ ChatTyped /\ Loc(r) = l /\ ChatSuits(t[1])
      /\ This(r) = t[1]
      /\ \A m : Sent(r, m) => Moved(r, Tail(t), m) /\ tally' = tally
      /\ Refuse(r) => Moved(r, <<>>, l) /\ tally' = tally
      /\ Tail(t) # <<>> => ChatFollows(t[1], Tail(t)[1])
      /\ r \in Busy
  BY <1>1, <1>2, ChatAt
<1>4. ChatTyped' /\ ChatGrows
  BY <1>2, <1>3, ChatStands
<1>5. PICK e : e = t[1].id /\ e \in EpisodeIds
  BY <1>3 DEF ChatSuits
<1>6. CASE episodes[e] = NoEpisode
  <2>1. Refuse(r)
    BY <1>3, <1>5, <1>6 DEF EpisodeNeed
  <2> QED BY <1>1, <1>2, <1>3, <2>1, ChatRefused
<1>7. CASE episodes[e] # NoEpisode
  <2>1. PICK s : s = episodes[e].session
    OBVIOUS
  <2>2. s \in SessionIds
    BY <1>3, <1>5, <1>7, <2>1 DEF ChatTyped
  <2>3. PICK m : m = [l EXCEPT !.session = s]
    OBVIOUS
  <2>4. Sent(r, m)
    BY <1>3, <1>5, <1>7, <2>1, <2>3 DEF EpisodeNeed
  <2>5. m \in ChatLocal /\ m.session = s /\ m.episode = l.episode
    BY <1>3, <2>2, <2>3 DEF ChatLocal
  <2>6. Moved(r, Tail(t), m) /\ tally' = tally
    BY <1>3, <2>4
  <2> QED BY <1>1, <1>3, <1>4, <2>2, <2>5, <2>6, ChatGoesOn DEF ChatFollows, UserDo, SessionDo, KnownDo, Adding
<1> QED BY <1>6, <1>7

LEMMA SummaryDueShape ==
    ASSUME ChatShape, NEW r \in Requests, SummaryDue(r) \/ Inflight(r)
    PROVE  ChatShape'
<1>1. PICK t, l : t = request[r].todo /\ l = request[r].loc
  OBVIOUS
<1>2. PICK do \in {"summaryDue", "inflight"} : At(r, do)
  BY DEF SummaryDue, Inflight
<1>3. UNCHANGED chatVars /\ (Done(r) \/ Refuse(r))
  BY DEF SummaryDue, Inflight
<1>4. /\ t # <<>> /\ t[1].do = do /\ l \in ChatLocal /\ ChatTyped /\ l.session \in SessionIds
      /\ Done(r) => Moved(r, Tail(t), l) /\ tally' = tally
      /\ Refuse(r) => Moved(r, <<>>, l) /\ tally' = tally
      /\ Tail(t) # <<>> => ChatFollows(t[1], Tail(t)[1])
      /\ r \in Busy
  BY <1>1, <1>2, ChatAt DEF SessionDo
<1>5. ChatTyped' /\ ChatGrows
  BY <1>3, <1>4, ChatStands
<1>6. CASE Refuse(r)
  BY <1>1, <1>3, <1>4, <1>6, ChatRefused
<1>7. CASE Done(r)
  BY <1>1, <1>2, <1>4, <1>5, <1>7, ChatGoesOn DEF ChatFollows, UserDo, SessionDo, KnownDo, Adding
<1> QED BY <1>3, <1>6, <1>7

(* The episodes of a range, one after the other. *)
LEMMA ChatJoins ==
    ASSUME NEW m \in Seq(ChatCommand), NEW y \in Seq(ChatCommand), InChatOrder(y), y # <<>>,
           \A i \in 1 .. Len(m) : m[i].do \in {"episodeErase", "episodeUnqueue"} /\ m[i].how = "-" /\ m[i].id \in EpisodeIds,
           y[1].do \in {"episodeErase", "episodeUnqueue", "clearIndex"}
    PROVE  /\ m \o y \in Seq(ChatCommand) /\ InChatOrder(m \o y) /\ m \o y # <<>>
           /\ (m \o y)[1].do \in {"episodeErase", "episodeUnqueue", "clearIndex"}
           /\ NoSummary(y) => NoSummary(m \o y)
<1>1. PICK u : u = m \o y
  OBVIOUS
<1>2. /\ u \in Seq(ChatCommand) /\ Len(u) = Len(m) + Len(y) /\ Len(m) \in Nat /\ Len(y) \in Nat
      /\ \A i \in 1 .. Len(m) : u[i] = m[i]
      /\ \A i \in 1 .. Len(y) : u[Len(m) + i] = y[i]
  BY <1>1, ListBefore
<1>3. Len(y) >= 1 /\ 1 \in 1 .. Len(y)
  BY <1>2, RestOfList
<1>4. \A i \in 1 .. Len(u) : i \in 1 .. Len(m) \/ (i - Len(m) \in 1 .. Len(y) /\ i = Len(m) + (i - Len(m)))
  BY <1>2
<1>5. \A i \in 1 .. Len(m) : u[i].do \in {"episodeErase", "episodeUnqueue"} /\ u[i].how = "-" /\ ChatSuits(u[i])
  BY <1>2 DEF ChatSuits
<1>6. u[Len(m) + 1] = y[1]
  BY <1>2, <1>3
<1>7. InChatOrder(u)
  <2> SUFFICES ASSUME NEW i \in 1 .. Len(u)
               PROVE  ChatSuits(u[i]) /\ IF i = Len(u) THEN u[i].do \in ChatEnds ELSE ChatFollows(u[i], u[i + 1])
    BY DEF InChatOrder
  <2>1. CASE i \in 1 .. Len(m)
    <3>1. i # Len(u) /\ (i = Len(m) \/ i + 1 \in 1 .. Len(m))
      BY <1>2, <1>3, <2>1
    <3>2. u[i + 1].do \in {"episodeErase", "episodeUnqueue", "clearIndex"}
      BY <1>5, <1>6, <3>1
    <3>3. ChatFollows(u[i], u[i + 1])
      BY <1>5, <2>1, <3>2 DEF ChatFollows
    <3> QED BY <1>5, <2>1, <3>1, <3>3
  <2>2. CASE i \notin 1 .. Len(m)
    <3>1. PICK j \in 1 .. Len(y) : i = Len(m) + j
      BY <1>4, <2>2
    <3>2. u[i] = y[j] /\ (i = Len(u) <=> j = Len(y))
      <4>1. u[Len(m) + j] = y[j]
        BY <1>2
      <4>2. Len(u) = Len(m) + Len(y) /\ Len(m) \in Nat /\ Len(y) \in Nat
        BY <1>2
      <4>3. i = Len(u) <=> j = Len(y)
        BY <3>1, <4>2, SMTT(30)
      <4> QED BY <3>1, <4>1, <4>3
    <3>3. i # Len(u) => u[i + 1] = y[j + 1]
      <4>1. Len(m) \in Nat /\ Len(y) \in Nat
        BY <1>2
      <4>2. i # Len(u) => j + 1 \in 1 .. Len(y) /\ i + 1 = Len(m) + (j + 1)
        BY <3>1, <3>2, <4>1
      <4>3. \A k \in 1 .. Len(y) : u[Len(m) + k] = y[k]
        BY <1>2
      <4> QED BY <4>2, <4>3
    <3> QED BY <3>2, <3>3 DEF InChatOrder
  <2> QED BY <2>1, <2>2
<1>8. u # <<>>
  BY <1>2, <1>3
<1>9. u[1].do \in {"episodeErase", "episodeUnqueue", "clearIndex"}
  <2>1. Len(m) = 0 \/ 1 \in 1 .. Len(m)
    BY <1>2
  <2>2. Len(m) = 0 => u[1] = y[1]
    BY <1>6
  <2> QED BY <1>5, <2>1, <2>2
<1>10. NoSummary(y) => NoSummary(u)
  <2> SUFFICES ASSUME NoSummary(y), NEW i \in 1 .. Len(u)
               PROVE  u[i].how # "summary"
    BY DEF NoSummary
  <2>1. CASE i \in 1 .. Len(m)
    BY <1>5, <2>1
  <2>2. CASE i \notin 1 .. Len(m)
    <3>1. PICK j \in 1 .. Len(y) : i = Len(m) + j
      BY <1>4, <2>2
    <3>2. u[i] = y[j]
      BY <1>2, <3>1
    <3> QED BY <3>2 DEF NoSummary
  <2> QED BY <2>1, <2>2
<1> QED BY <1>1, <1>2, <1>7, <1>8, <1>9, <1>10

LEMMA ClearRangeShape ==
    ASSUME ChatShape, NEW r \in Requests, ClearRange(r)
    PROVE  ChatShape' /\ \E m : Moved(r, m, Loc(r)) /\ tally' = tally /\ m # <<>>
                                /\ m[1].do \in {"episodeErase", "episodeUnqueue", "clearIndex"}
<1>1. PICK t, l : t = request[r].todo /\ l = request[r].loc
  OBVIOUS
<1>2. At(r, "clearRange") /\ UNCHANGED chatVars
  BY DEF ClearRange
<1>3. /\ t # <<>> /\ t[1].do = "clearRange" /\ l \in ChatLocal /\ ChatTyped /\ Loc(r) = l
      /\ ChatInPlace(t, l) /\ l.session \in SessionIds
      /\ \A m, n : Insert(r, m, n) => Moved(r, m \o Tail(t), n) /\ tally' = tally
      /\ Tail(t) # <<>> /\ ChatFollows(t[1], Tail(t)[1])
      /\ r \in Busy
  BY <1>1, <1>2, ChatAt DEF SessionDo, ChatEnds
<1>4. ChatTyped' /\ ChatGrows
  BY <1>2, <1>3, ChatStands
<1>5. PICK S, ids : S = sessionEpisodes[l.session] /\ ids = SetToSeq(S)
  OBVIOUS
<1>6. IsFiniteSet(S) /\ S \subseteq EpisodeIds
  <2>1. S \subseteq chatPast.in[l.session] /\ IsFiniteSet(chatPast.in[l.session]) /\ S \subseteq EpisodeIds
    BY <1>3, <1>5 DEF ChatTyped
  <2> QED BY <2>1, FS_Subset
<1>7. Len(ids) \in Nat /\ \A i \in 1 .. Len(ids) : ids[i] \in EpisodeIds
  BY <1>5, <1>6, SetAsList
<1>8. PICK m : m = [i \in 1 .. 2 * Len(ids) |->
                      Cmd(IF i % 2 = 1 THEN "episodeErase" ELSE "episodeUnqueue", ids[(i + 1) \div 2], "-")[1]]
  OBVIOUS
<1>9. Insert(r, m, l)
  BY <1>3, <1>5, <1>8 DEF ClearRange
<1>10. ASSUME NEW i \in 1 .. 2 * Len(ids)
       PROVE  m[i] \in ChatCommand /\ m[i].do \in {"episodeErase", "episodeUnqueue"} /\ m[i].how = "-" /\ m[i].id \in EpisodeIds
  <2>1. PICK do \in {"episodeErase", "episodeUnqueue"} : do = IF i % 2 = 1 THEN "episodeErase" ELSE "episodeUnqueue"
    OBVIOUS
  <2>2. (i + 1) \div 2 \in 1 .. Len(ids)
    BY <1>7
  <2>3. PICK e \in EpisodeIds : e = ids[(i + 1) \div 2]
    BY <1>7, <2>2
  <2>4. m[i] = [do |-> do, id |-> e, how |-> "-"]
    BY <1>8, <2>1, <2>3 DEF Cmd
  <2> QED BY <2>4, ChatIdsAre DEF ChatCommand, ChatDo, SessionDo
<1>11. m \in Seq(ChatCommand) /\ Len(m) = 2 * Len(ids)
  <2>1. 2 * Len(ids) \in Nat
    BY <1>7
  <2>2. m \in [1 .. 2 * Len(ids) -> ChatCommand]
    BY <1>8, <1>10
  <2> QED BY <2>1, <2>2
<1>12. PICK y, u : y = Tail(t) /\ u = m \o y
  OBVIOUS
<1>13. Moved(r, u, l) /\ tally' = tally
  BY <1>3, <1>9, <1>12
<1>14. /\ y \in Seq(ChatCommand) /\ InChatOrder(y) /\ y # <<>>
       /\ y[1].do \in {"episodeErase", "episodeUnqueue", "clearIndex"}
       /\ (\E i \in 1 .. Len(y) : y[i].how = "summary") => l.episode \in EpisodeIds
  BY <1>3, <1>12, ChatTail DEF ChatFollows
<1>15. /\ u \in Seq(ChatCommand) /\ InChatOrder(u) /\ u # <<>>
       /\ u[1].do \in {"episodeErase", "episodeUnqueue", "clearIndex"}
       /\ NoSummary(y) => NoSummary(u)
  BY <1>10, <1>11, <1>12, <1>14, ChatJoins
<1>16. ChatInPlace(u, l)'
  BY <1>3, <1>14, <1>15 DEF ChatInPlace, FitsChat, NoSummary, Adding, UserDo, SessionDo, KnownDo
<1>17. ~tally'.overlapped => ~tally.overlapped /\ \A q \in Busy : q = r
  BY <1>3, <1>13 DEF ChatShape, OneBusy
<1>18. tally' \in Tallies
  BY <1>13 DEF ChatShape
<1>19. ChatShape'
  BY <1>4, <1>13, <1>16, <1>17, <1>18, ChatMoves
<1> QED BY <1>3, <1>13, <1>15, <1>19

(* A command fails. *)
LEMMA ChatFailsIs ==
    ASSUME ChatShape, NEW r \in Requests, ChatFails(r)
    PROVE  /\ r \in Busy /\ Moved(r, <<>>, request[r].loc) /\ tally' \in Tallies
           /\ tally'.faults = tally.faults + 1 /\ tally'.overlapped = tally.overlapped
           /\ ChatTyped' /\ ChatGrows
           /\ UNCHANGED <<users, userIndex, userExt, sessions, userSessions, sessionEpisodes, chatPast>>
<1>1. PICK t, l : t = request[r].todo /\ l = request[r].loc
  OBVIOUS
<1>2. /\ CommandFails(r) /\ UNCHANGED <<users, userIndex, userExt, sessions, userSessions, sessionEpisodes, chatPast>>
  BY DEF ChatFails, userVars, sessionVars
<1>3. /\ r \in Busy /\ t # <<>> /\ Moved(r, Unwound(Rest(r)), Loc(r)) /\ tally' \in Tallies
      /\ tally'.faults = tally.faults + 1 /\ tally'.overlapped = tally.overlapped
  BY <1>1, <1>2, Fails DEF ChatShape
<1>4. ChatInPlace(t, l) /\ ChatTyped
  BY <1>1 DEF ChatShape
<1>5. Rest(r) = Tail(t) /\ Loc(r) = l /\ Unwound(Tail(t)) = <<>>
  BY <1>1, <1>3, <1>4, ChatTail DEF Rest, Loc
<1>6. Moved(r, <<>>, l)
  BY <1>3, <1>5
<1>7. ChatTyped'
  <2>1. CASE Worker(r) /\ (At(r, "complete") \/ At(r, "inflight"))
    <3>1. l.episode \in EpisodeIds
      <4>1. t \in Seq(ChatCommand) /\ DOMAIN t = 1 .. Len(t)
        BY <1>4 DEF ChatInPlace
      <4> QED BY <1>1, <1>3, <1>4, <2>1, <4>1 DEF ChatInPlace, FitsChat, Worker
    <3>2. l.session \in SessionIds
      BY <1>1, <2>1, ChatAt DEF SessionDo
    <3>3. /\ episodes' = [episodes EXCEPT ![l.episode] = [session |-> l.session, status |-> "pending"]]
          /\ pendingQueue' = pendingQueue \cup {l.episode}
      BY <1>5, <2>1 DEF ChatFails
    <3> QED BY <1>2, <1>4, <3>1, <3>2, <3>3 DEF ChatTyped
  <2>2. CASE ~(Worker(r) /\ (At(r, "complete") \/ At(r, "inflight")))
    <3>1. UNCHANGED <<episodes, pendingQueue>>
      BY <2>2 DEF ChatFails
    <3> QED BY <1>2, <1>4, <3>1 DEF ChatTyped
  <2> QED BY <2>1, <2>2
<1>8. ChatGrows
  BY <1>2 DEF ChatGrows
<1> QED BY <1>1, <1>2, <1>3, <1>6, <1>7, <1>8

(* The first state. *)
LEMMA ChatFirst ==
    ASSUME InitRequests, InitConversations
    PROVE  ChatShape /\ Busy = {} /\ tally.faults = 0
<1>1. /\ \A r \in Requests : request[r].todo = <<>>
      /\ request = [q \in Requests |-> request[q]] /\ tally \in Tallies /\ tally.faults = 0
  BY DEF InitRequests, Idle, Tallies
<1>2. Busy = {} /\ OneBusy
  BY <1>1 DEF Busy, OneBusy
<1>3. \A r \in Requests : ChatInPlace(request[r].todo, request[r].loc)
  BY <1>1, NoChat
<1>4. PICK p \in People, n \in SessionNames, known \in BOOLEAN :
         /\ users = [u \in UserIds |-> IF known /\ u = 1 THEN p ELSE NoUser]
         /\ userIndex = IF known THEN {1} ELSE {}
         /\ userExt = [q \in People |-> IF known /\ q = p THEN 1 ELSE None]
         /\ sessions = [s \in SessionIds |->
              IF known /\ s = 1 THEN [NoSession EXCEPT !.user = 1, !.name = n] ELSE NoSession]
         /\ userSessions = [u \in UserIds |-> IF known /\ u = 1 THEN {1} ELSE {}]
         /\ chatPast = [users |-> userIndex, sessions |-> userIndex, episodes |-> {},
                        made |-> {}, in |-> [s \in SessionIds |-> {}], cleared |-> {}]
  BY DEF InitConversations
<1>5. 1 \in UserIds /\ 1 \in SessionIds
  BY ConversationAssumption
<1>6. PICK d : d = [NoSession EXCEPT !.user = 1, !.name = n]
  OBVIOUS
<1>7. d \in SessionDocs
  BY <1>5, <1>6 DEF NoSession, SessionDocs, None
<1>8. /\ episodes = [e \in EpisodeIds |-> NoEpisode] /\ sessionEpisodes = [s \in SessionIds |-> {}] /\ pendingQueue = {}
  BY DEF InitConversations
<1>9. /\ users \in [UserIds -> People \cup {NoUser}]
      /\ userIndex \subseteq chatPast.users /\ userIndex \subseteq UserIds /\ userIndex \subseteq SessionIds
      /\ userExt \in [People -> chatPast.users \cup {None}]
  BY <1>4, <1>5
<1>10. /\ sessions \in [SessionIds -> SessionDocs \cup {NoSession}]
       /\ \A s \in SessionIds : sessions[s] # NoSession => s \in chatPast.sessions
       /\ userSessions \in [UserIds -> SUBSET chatPast.sessions]
  <2>1. sessions = [s \in SessionIds |-> IF known /\ s = 1 THEN d ELSE NoSession]
    BY <1>4, <1>6
  <2> QED BY <1>4, <1>7, <2>1
<1>11. /\ chatPast \in [users : SUBSET UserIds, sessions : SUBSET SessionIds, episodes : SUBSET EpisodeIds,
                     made : SUBSET UserIds, in : [SessionIds -> SUBSET EpisodeIds], cleared : SUBSET SessionIds]
       /\ \A s \in SessionIds : chatPast.in[s] = {}
       /\ chatPast.made = {}
  BY <1>4, <1>9
<1>12. IsFiniteSet({})
  BY FS_EmptySet
<1>13. ChatTyped
  BY <1>8, <1>9, <1>10, <1>11, <1>12 DEF ChatTyped
<1> QED BY <1>1, <1>2, <1>3, <1>13 DEF ChatShape

(* Every step. *)
LEMMA ChatCommandShape ==
    ASSUME ChatShape, ChatCommands
    PROVE  ChatShape'
BY UserSetExtShape, UserListShape, UserDelShape, UserDelExtShape, UserUnlistShape, SessionListShape,
   SessionDelShape, SessionUnlistShape, EpisodeListShape, EpisodeQueueShape, EpisodeUnlistShape,
   EpisodeUnqueueShape, EpisodeEraseShape, ClearIndexShape, CompleteShape, UserSetShape, SessionSetShape,
   SessionPutShape, EpisodeSetShape, WorkShape, UserNeedShape, FindUserShape, FindSessionShape,
   SessionReadShape, CountReadShape, EpisodeNeedShape, SummaryDueShape, ClearRangeShape, Zenon DEF ChatCommands

LEMMA ChatShapeKept ==
    ASSUME ChatShape, [NextConversations]_<<requestVars, chatVars>>
    PROVE  ChatShape'
<1>1. CASE ChatRequests
  <2>1. PICK r \in Requests : \E t, l : Start(r, t, l) /\ ChatBegun(t, l) /\ UNCHANGED chatVars
    BY <1>1, ChatRequestBegins
  <2>2. PICK t, l : Start(r, t, l) /\ ChatBegun(t, l) /\ UNCHANGED chatVars
    BY <2>1
  <2>3. ChatTyped' /\ ChatGrows
    BY <2>2, ChatStands DEF ChatShape
  <2>4. Moved(r, t, l) /\ tally' \in Tallies /\ (~tally'.overlapped => ~tally.overlapped /\ Busy = {})
    BY <2>2, Starts DEF ChatShape
  <2>5. ChatInPlace(t, l)'
    <3>1. ChatInPlace(t, l)
      BY <2>2 DEF ChatBegun
    <3>2. chatPast' = chatPast
      BY <2>2 DEF chatVars
    <3>3. Adding(t)' <=> Adding(t)
      BY DEF Adding
    <3> QED BY <3>1, <3>2, <3>3 DEF ChatInPlace, FitsChat
  <2> QED BY <2>3, <2>4, <2>5, ChatMoves
<1>2. CASE ChatCommands
  BY <1>2, ChatCommandShape
<1>3. ASSUME NEW r \in Requests, ChatFails(r)
      PROVE  ChatShape'
  BY <1>3, ChatFailsIs, ChatStops
<1>4. CASE UNCHANGED <<requestVars, chatVars>>
  <2>1. ChatTyped'
    BY <1>4, ChatStands DEF ChatShape
  <2>2. request' = request /\ tally' = tally /\ chatPast' = chatPast
    BY <1>4 DEF requestVars, chatVars
  <2>3. OneBusy'
    BY <2>2 DEF ChatShape, OneBusy, Busy
  <2>4. ASSUME NEW q \in Requests
        PROVE  ChatInPlace(request[q].todo, request[q].loc)'
    <3>1. PICK t, l : t = request[q].todo /\ l = request[q].loc
      OBVIOUS
    <3>2. ChatInPlace(t, l) /\ request'[q].todo = t /\ request'[q].loc = l
      BY <2>2, <3>1 DEF ChatShape
    <3>3. Adding(t)' <=> Adding(t)
      BY DEF Adding
    <3>4. ChatInPlace(t, l)'
      BY <2>2, <3>2, <3>3 DEF ChatInPlace, FitsChat
    <3> QED BY <3>2, <3>4
  <2> QED BY <2>1, <2>2, <2>3, <2>4 DEF ChatShape
<1> QED BY <1>1, <1>2, <1>3, <1>4 DEF NextConversations

(* The documents, indexes and ids keep their types in every reachable state. *)
THEOREM ChatTypesCorrect == ConversationSpec => []ConversationTypeOK
<1>1. InitRequests /\ InitConversations => ChatShape
  BY ChatFirst
<1>2. ChatShape /\ [NextConversations]_<<requestVars, chatVars>> => ChatShape'
  BY ChatShapeKept
<1>3. ChatShape => ConversationTypeOK
  <2> SUFFICES ASSUME ChatTyped
               PROVE  ConversationTypeOK
    BY DEF ChatShape
  <2>1. \A s \in SessionIds : sessions[s].user \in UserIds \cup {None} /\ sessions[s].head \in EpisodeIds \cup {None}
    <3> SUFFICES ASSUME NEW s \in SessionIds
                 PROVE  sessions[s].user \in UserIds \cup {None} /\ sessions[s].head \in EpisodeIds \cup {None}
      OBVIOUS
    <3>1. sessions[s] \in SessionDocs \/ sessions[s] = NoSession
      BY DEF ChatTyped
    <3> QED BY <3>1 DEF SessionDocs, NoSession, None
  <2> QED BY <2>1 DEF ChatTyped, ConversationTypeOK
<1> QED BY <1>1, <1>2, <1>3, PTL DEF ConversationSpec

-----------------------------------------------------------------------------
(* What a session counts.                                                   *)

(* An episode that is being added belongs to its session. *)
LEMMA AddersOwn ==
    ASSUME ChatShape, NEW r \in Requests, Adding(request[r].todo)
    PROVE  /\ request[r].loc.session \in SessionIds /\ request[r].loc.session \in chatPast.sessions
           /\ request[r].loc.episode \in chatPast.in[request[r].loc.session]
           /\ request[r].loc.episode \in chatPast.episodes
<1>1. PICK t, l : t = request[r].todo /\ l = request[r].loc
  OBVIOUS
<1>2. FitsChat(t, l) /\ ChatTyped /\ Adding(t)
  BY <1>1 DEF ChatShape, ChatInPlace
<1>3. t # <<>> /\ t[1].do \in KnownDo
  BY <1>2 DEF Adding, KnownDo
<1>4. l.session \in chatPast.sessions /\ l.episode \in chatPast.in[l.session]
  BY <1>2, <1>3 DEF FitsChat
<1>5. l.session \in SessionIds
  BY <1>2, <1>4 DEF ChatTyped
<1>6. l.episode \in chatPast.episodes
  BY <1>2, <1>4, <1>5 DEF ChatTyped
<1> QED BY <1>1, <1>4, <1>5, <1>6

(* The episodes that a session counts are finitely many. *)
LEMMA CountedFinite ==
    ASSUME ChatShape, NEW s \in SessionIds
    PROVE  IsFiniteSet(Counted(s)) /\ Cardinality(Counted(s)) \in Nat /\ Counted(s) \subseteq chatPast.in[s]
           /\ Counted(s) \subseteq chatPast.episodes
<1>1. IsFiniteSet(chatPast.in[s]) /\ chatPast.in[s] \subseteq chatPast.episodes
  BY DEF ChatShape, ChatTyped
<1>2. Counted(s) \subseteq chatPast.in[s]
  BY DEF Counted
<1>3. IsFiniteSet(Counted(s)) /\ Cardinality(Counted(s)) \in Nat
  BY <1>1, <1>2, FS_Subset, FS_CardinalityType
<1> QED BY <1>1, <1>2, <1>3

LEMMA WithinMore ==
    ASSUME NEW doc \in SessionDocs \cup {NoSession}, NEW n \in Nat, NEW k \in Nat, n <= k, NEW in, NEW more, in \subseteq more,
           Within(doc, n, in)
    PROVE  Within(doc, k, more)
<1>1. doc.count \in Nat
  BY DEF SessionDocs, NoSession
<1>2. PICK c : c = doc.count
  OBVIOUS
<1>3. c \in Nat /\ c <= n
  BY <1>1, <1>2 DEF Within
<1>4. c <= k
  BY <1>3
<1> QED BY <1>2, <1>4 DEF Within

(* Where no session counts less than before, what was behind stays so. *)
LEMMA CountMoves ==
    ASSUME ChatShape, ChatShape', CountInv, OwnEpisodes', NEW r \in Requests, NEW u, NEW m, Moved(r, u, m),
           \A s \in SessionIds : chatPast.in[s] \subseteq chatPast'.in[s] /\ Counted(s) \subseteq Counted(s)',
           \A s \in SessionIds : sessions'[s] = sessions[s] \/ Within(sessions'[s], Cardinality(Counted(s)'), chatPast'.in[s]),
           u # <<>> /\ u[1].do = "sessionPut" => Behind(m.copy, m.session)
    PROVE  CountInv'
<1>1. ASSUME NEW s \in SessionIds
      PROVE  /\ Cardinality(Counted(s)) \in Nat /\ Cardinality(Counted(s)') \in Nat
             /\ Cardinality(Counted(s)) <= Cardinality(Counted(s)')
  <2>1. Counted(s)' \subseteq chatPast'.in[s]
    BY DEF Counted
  <2>2. IsFiniteSet(chatPast'.in[s])
    BY DEF ChatShape, ChatTyped
  <2>3. PICK c : c = Counted(s)'
    OBVIOUS
  <2>4. IsFiniteSet(c) /\ Counted(s) \subseteq c
    BY <2>1, <2>2, <2>3, FS_Subset
  <2> QED BY <2>3, <2>4, FS_Subset, FS_CardinalityType
<1>2. ASSUME NEW s \in SessionIds, NEW doc \in SessionDocs \cup {NoSession}, Behind(doc, s)
      PROVE  Within(doc, Cardinality(Counted(s)'), chatPast'.in[s])
  BY <1>1, <1>2, WithinMore DEF Behind
<1>3. \A s \in SessionIds : sessions[s] \in SessionDocs \cup {NoSession}
  BY DEF ChatShape, ChatTyped
<1>4. \A s \in SessionIds : Behind(sessions[s], s)'
  <2> SUFFICES ASSUME NEW s \in SessionIds
               PROVE  Within(sessions'[s], Cardinality(Counted(s)'), chatPast'.in[s])
    BY DEF Behind
  <2>1. Behind(sessions[s], s)
    BY DEF CountInv
  <2> QED BY <1>2, <1>3, <2>1
<1>5. ASSUME NEW t, NEW l, HoldsBack(t, l), FitsChat(t, l)
      PROVE  HoldsBack(t, l)'
  <2> SUFFICES ASSUME t # <<>>, t[1].do = "sessionPut"
               PROVE  Behind(l.copy, l.session)'
    BY DEF HoldsBack
  <2>1. l.copy \in SessionDocs /\ l.session \in SessionIds
    BY <1>5 DEF FitsChat, KnownDo, ChatShape, ChatTyped
  <2>2. Behind(l.copy, l.session)
    BY <1>5 DEF HoldsBack
  <2> QED BY <1>2, <2>1, <2>2 DEF Behind
<1>6. ASSUME NEW q \in Requests
      PROVE  HoldsBack(request[q].todo, request[q].loc)'
  <2>1. CASE q # r
    <3>1. PICK t, l : t = request[q].todo /\ l = request[q].loc
      OBVIOUS
    <3>2. request'[q] = request[q]
      BY <2>1, BusyThen
    <3>3. HoldsBack(t, l) /\ FitsChat(t, l)
      BY <3>1 DEF CountInv, ChatShape, ChatInPlace
    <3>4. HoldsBack(t, l)'
      BY <1>5, <3>3
    <3> QED BY <3>1, <3>2, <3>4
  <2>2. CASE q = r
    <3>1. request'[r].todo = u /\ (u # <<>> => request'[r].loc = m)
      <4>1. /\ request'[r] = IF u = <<>> THEN Idle ELSE [todo |-> u, loc |-> m]
            /\ request'[r].todo = u
        BY BusyThen
      <4> QED BY <4>1
    <3>2. CASE u # <<>> /\ u[1].do = "sessionPut"
      <4>1. PICK t, l : t = request'[r].todo /\ l = request'[r].loc
        OBVIOUS
      <4>2. FitsChat(u, m)'
        <5>1. FitsChat(request[r].todo, request[r].loc)'
          BY DEF ChatShape, ChatInPlace
        <5> QED BY <3>1, <3>2, <5>1
      <4>3. m.copy \in SessionDocs /\ m.session \in SessionIds
        BY <3>2, <4>2 DEF FitsChat, KnownDo, ChatShape, ChatTyped
      <4>4. Within(m.copy, Cardinality(Counted(m.session)'), chatPast'.in[m.session])
        BY <1>2, <3>2, <4>3
      <4>5. Behind(m.copy, m.session)'
        BY <4>4 DEF Behind
      <4>6. HoldsBack(u, m)'
        BY <4>5 DEF HoldsBack
      <4> QED BY <2>2, <3>1, <3>2, <4>6
    <3>3. CASE ~(u # <<>> /\ u[1].do = "sessionPut")
      BY <2>2, <3>1, <3>3 DEF HoldsBack
    <3> QED BY <3>2, <3>3
  <2> QED BY <2>1, <2>2
<1> QED BY <1>4, <1>6 DEF CountInv

(* A request that adds no other episode than before leaves what is counted. *)
LEMMA CountedStays ==
    ASSUME ChatShape, CountInv, NEW r \in Requests, NEW u, NEW m, Moved(r, u, m), chatPast'.in = chatPast.in,
           Adding(u) => /\ Adding(request[r].todo) /\ m.episode = request[r].loc.episode
                        /\ m.session = request[r].loc.session
    PROVE  /\ OwnEpisodes'
           /\ \A s \in SessionIds : chatPast.in[s] \subseteq chatPast'.in[s] /\ Counted(s) \subseteq Counted(s)'
<1>1. ASSUME NEW q \in Requests, Adding(request'[q].todo)
      PROVE  /\ Adding(request[q].todo) /\ request'[q].loc.episode = request[q].loc.episode
             /\ request'[q].loc.session = request[q].loc.session
  <2>1. CASE q # r
    BY <1>1, <2>1, BusyThen
  <2>2. CASE q = r
    <3>1. request'[r].todo = u /\ (u # <<>> => request'[r].loc = m)
      <4>1. /\ request'[r] = IF u = <<>> THEN Idle ELSE [todo |-> u, loc |-> m]
            /\ request'[r].todo = u
        BY BusyThen
      <4> QED BY <4>1
    <3> QED BY <1>1, <2>2, <3>1 DEF Adding
  <2> QED BY <2>1, <2>2
<1>2. OwnEpisodes'
  <2> SUFFICES ASSUME NEW p \in Requests, NEW q \in Requests, Adding(request'[p].todo), Adding(request'[q].todo),
                      request'[p].loc.episode = request'[q].loc.episode
               PROVE  p = q
    BY DEF OwnEpisodes, Adding
  <2> QED BY <1>1 DEF CountInv, OwnEpisodes
<1>3. ASSUME NEW s \in SessionIds
      PROVE  Counted(s) \subseteq Counted(s)'
  <2> SUFFICES ASSUME NEW e \in Counted(s)
               PROVE  e \in Counted(s)'
    OBVIOUS
  <2>1. e \in chatPast'.in[s]
    BY DEF Counted
  <2>2. ASSUME NEW q \in Requests, Adding(request'[q].todo), request'[q].loc.session = s
        PROVE  request'[q].loc.episode # e
    BY <1>1, <2>2 DEF Counted, Adds
  <2> QED BY <2>1, <2>2 DEF Counted, Adds, Adding
<1> QED BY <1>2, <1>3

(* A document that counts nothing is never ahead. *)
LEMMA EmptyBehind ==
    ASSUME ChatShape', NEW s \in SessionIds, NEW doc, doc.count = 0, doc.head = None
    PROVE  Within(doc, Cardinality(Counted(s)'), chatPast'.in[s])
<1>1. Counted(s)' \subseteq chatPast'.in[s] /\ IsFiniteSet(chatPast'.in[s])
  BY DEF Counted, ChatShape, ChatTyped
<1>2. PICK c : c = Counted(s)'
  OBVIOUS
<1>3. Cardinality(c) \in Nat
  BY <1>1, <1>2, FS_Subset, FS_CardinalityType
<1>4. 0 <= Cardinality(c)
  BY <1>3
<1> QED BY <1>2, <1>4 DEF Within

(* The request stops, or goes on with what adds no episode. *)
LEMMA CountFree ==
    ASSUME ChatShape, ChatShape', CountInv, NEW r \in Requests, NEW u, NEW m, Moved(r, u, m), chatPast'.in = chatPast.in,
           sessions' = sessions,
           u # <<>> => u[1].do \notin {"episodeList", "episodeQueue", "countRead", "sessionPut"}
    PROVE  CountInv'
<1>1. ~Adding(u)
  BY DEF Adding
<1>2. OwnEpisodes' /\ \A s \in SessionIds : chatPast.in[s] \subseteq chatPast'.in[s] /\ Counted(s) \subseteq Counted(s)'
  BY <1>1, CountedStays
<1> QED BY <1>2, CountMoves

(* The request goes on with its next command. *)
LEMMA CountGoesOn ==
    ASSUME ChatShape, ChatShape', CountInv, NEW r \in Requests, NEW t, NEW l, t = request[r].todo, l = request[r].loc,
           t # <<>>, t[1].do \notin {"episodeSet", "sessionPut"},
           NEW m, Moved(r, Tail(t), m), chatPast'.in = chatPast.in,
           \A s \in SessionIds : sessions'[s] = sessions[s] \/ (sessions'[s].count = 0 /\ sessions'[s].head = None),
           t[1].do \in {"episodeList", "episodeQueue", "countRead"} => m.episode = l.episode /\ m.session = l.session,
           t[1].do \in {"sessionRead", "countRead"} => m.session \in SessionIds /\ m.copy = sessions[m.session]
    PROVE  CountInv'
<1>1. PICK u, do : u = Tail(t) /\ do = t[1].do
  OBVIOUS
<1>2. ChatInPlace(t, l)
  BY DEF ChatShape
<1>3. /\ t[1] \in ChatCommand
      /\ u # <<>> => ChatFollows(t[1], u[1]) /\ ChatSuits(u[1]) /\ u[1] \in ChatCommand
  BY <1>1, <1>2, ChatTail
<1>4. ASSUME u # <<>>, u[1].do \in {"episodeList", "episodeQueue", "countRead"} \/ (u[1].do = "sessionPut" /\ u[1].how = "count")
      PROVE  do \in {"episodeList", "episodeQueue", "countRead"}
  BY <1>1, <1>3, <1>4 DEF ChatFollows, ChatCommand, ChatDo, UserDo, SessionDo, KnownDo
<1>5. ASSUME u # <<>>, u[1].do = "sessionPut"
      PROVE  do \in {"sessionRead", "countRead"}
  BY <1>1, <1>3, <1>5 DEF ChatFollows, ChatCommand, ChatDo, UserDo, SessionDo, KnownDo
<1>6. do \in {"episodeList", "episodeQueue", "countRead"} => Adding(t)
  BY <1>1 DEF Adding
<1>7. Adding(u) => Adding(t) /\ m.episode = l.episode /\ m.session = l.session
  BY <1>1, <1>4, <1>6 DEF Adding
<1>8. OwnEpisodes' /\ \A s \in SessionIds : chatPast.in[s] \subseteq chatPast'.in[s] /\ Counted(s) \subseteq Counted(s)'
  BY <1>1, <1>7, CountedStays
<1>9. \A s \in SessionIds : sessions'[s] = sessions[s] \/ Within(sessions'[s], Cardinality(Counted(s)'), chatPast'.in[s])
  BY EmptyBehind
<1>10. u # <<>> /\ u[1].do = "sessionPut" => Behind(m.copy, m.session)
  BY <1>1, <1>5 DEF CountInv
<1> QED BY <1>1, <1>8, <1>9, <1>10, CountMoves

(* The commands that change no session. *)
LEMMA UserSetExtCount ==
    ASSUME ChatShape, ChatShape', CountInv, NEW r \in Requests, UserSetExt(r)
    PROVE  CountInv'
<1>1. PICK t, l : t = request[r].todo /\ l = request[r].loc
  OBVIOUS
<1>2. At(r, "userSetExt") /\ Done(r) /\ sessions' = sessions
  BY DEF UserSetExt, sessionVars
<1>3. chatPast'.in = chatPast.in
  BY DEF UserSetExt, ChatShape, ChatTyped
<1>4. t # <<>> /\ t[1].do = "userSetExt" /\ Moved(r, Tail(t), l)
  BY <1>1, <1>2, ChatAt
<1> QED BY <1>1, <1>2, <1>3, <1>4, CountGoesOn

LEMMA UserListCount ==
    ASSUME ChatShape, ChatShape', CountInv, NEW r \in Requests, UserList(r)
    PROVE  CountInv'
<1>1. PICK t, l : t = request[r].todo /\ l = request[r].loc
  OBVIOUS
<1>2. At(r, "userList") /\ Done(r) /\ sessions' = sessions
  BY DEF UserList, sessionVars
<1>3. chatPast'.in = chatPast.in
  BY DEF UserList, ChatShape, ChatTyped
<1>4. t # <<>> /\ t[1].do = "userList" /\ Moved(r, Tail(t), l)
  BY <1>1, <1>2, ChatAt
<1> QED BY <1>1, <1>2, <1>3, <1>4, CountGoesOn

LEMMA UserDelCount ==
    ASSUME ChatShape, ChatShape', CountInv, NEW r \in Requests, UserDel(r)
    PROVE  CountInv'
<1>1. PICK t, l : t = request[r].todo /\ l = request[r].loc
  OBVIOUS
<1>2. At(r, "userDel") /\ Done(r) /\ sessions' = sessions
  BY DEF UserDel, sessionVars
<1>3. chatPast'.in = chatPast.in
  BY DEF UserDel, ChatShape, ChatTyped
<1>4. t # <<>> /\ t[1].do = "userDel" /\ Moved(r, Tail(t), l)
  BY <1>1, <1>2, ChatAt
<1> QED BY <1>1, <1>2, <1>3, <1>4, CountGoesOn

LEMMA UserDelExtCount ==
    ASSUME ChatShape, ChatShape', CountInv, NEW r \in Requests, UserDelExt(r)
    PROVE  CountInv'
<1>1. PICK t, l : t = request[r].todo /\ l = request[r].loc
  OBVIOUS
<1>2. At(r, "userDelExt") /\ Done(r) /\ sessions' = sessions
  BY DEF UserDelExt, sessionVars
<1>3. chatPast'.in = chatPast.in
  BY DEF UserDelExt, ChatShape, ChatTyped
<1>4. t # <<>> /\ t[1].do = "userDelExt" /\ Moved(r, Tail(t), l)
  BY <1>1, <1>2, ChatAt
<1> QED BY <1>1, <1>2, <1>3, <1>4, CountGoesOn

LEMMA UserUnlistCount ==
    ASSUME ChatShape, ChatShape', CountInv, NEW r \in Requests, UserUnlist(r)
    PROVE  CountInv'
<1>1. PICK t, l : t = request[r].todo /\ l = request[r].loc
  OBVIOUS
<1>2. At(r, "userUnlist") /\ Done(r) /\ sessions' = sessions
  BY DEF UserUnlist, sessionVars
<1>3. chatPast'.in = chatPast.in
  BY DEF UserUnlist, ChatShape, ChatTyped
<1>4. t # <<>> /\ t[1].do = "userUnlist" /\ Moved(r, Tail(t), l)
  BY <1>1, <1>2, ChatAt
<1> QED BY <1>1, <1>2, <1>3, <1>4, CountGoesOn

LEMMA SessionListCount ==
    ASSUME ChatShape, ChatShape', CountInv, NEW r \in Requests, SessionList(r)
    PROVE  CountInv'
<1>1. PICK t, l : t = request[r].todo /\ l = request[r].loc
  OBVIOUS
<1>2. At(r, "sessionList") /\ Done(r) /\ sessions' = sessions
  BY DEF SessionList, sessionVars
<1>3. chatPast'.in = chatPast.in
  BY DEF SessionList, ChatShape, ChatTyped
<1>4. t # <<>> /\ t[1].do = "sessionList" /\ Moved(r, Tail(t), l)
  BY <1>1, <1>2, ChatAt
<1> QED BY <1>1, <1>2, <1>3, <1>4, CountGoesOn

LEMMA SessionUnlistCount ==
    ASSUME ChatShape, ChatShape', CountInv, NEW r \in Requests, SessionUnlist(r)
    PROVE  CountInv'
<1>1. PICK t, l : t = request[r].todo /\ l = request[r].loc
  OBVIOUS
<1>2. At(r, "sessionUnlist") /\ Done(r) /\ sessions' = sessions
  BY DEF SessionUnlist, sessionVars
<1>3. chatPast'.in = chatPast.in
  BY DEF SessionUnlist, ChatShape, ChatTyped
<1>4. t # <<>> /\ t[1].do = "sessionUnlist" /\ Moved(r, Tail(t), l)
  BY <1>1, <1>2, ChatAt
<1> QED BY <1>1, <1>2, <1>3, <1>4, CountGoesOn

LEMMA EpisodeListCount ==
    ASSUME ChatShape, ChatShape', CountInv, NEW r \in Requests, EpisodeList(r)
    PROVE  CountInv'
<1>1. PICK t, l : t = request[r].todo /\ l = request[r].loc
  OBVIOUS
<1>2. At(r, "episodeList") /\ Done(r) /\ sessions' = sessions
  BY DEF EpisodeList, sessionVars
<1>3. chatPast'.in = chatPast.in
  BY DEF EpisodeList, ChatShape, ChatTyped
<1>4. t # <<>> /\ t[1].do = "episodeList" /\ Moved(r, Tail(t), l)
  BY <1>1, <1>2, ChatAt
<1> QED BY <1>1, <1>2, <1>3, <1>4, CountGoesOn

LEMMA EpisodeQueueCount ==
    ASSUME ChatShape, ChatShape', CountInv, NEW r \in Requests, EpisodeQueue(r)
    PROVE  CountInv'
<1>1. PICK t, l : t = request[r].todo /\ l = request[r].loc
  OBVIOUS
<1>2. At(r, "episodeQueue") /\ Done(r) /\ sessions' = sessions
  BY DEF EpisodeQueue, sessionVars
<1>3. chatPast'.in = chatPast.in
  BY DEF EpisodeQueue, ChatShape, ChatTyped
<1>4. t # <<>> /\ t[1].do = "episodeQueue" /\ Moved(r, Tail(t), l)
  BY <1>1, <1>2, ChatAt
<1> QED BY <1>1, <1>2, <1>3, <1>4, CountGoesOn

LEMMA EpisodeUnlistCount ==
    ASSUME ChatShape, ChatShape', CountInv, NEW r \in Requests, EpisodeUnlist(r)
    PROVE  CountInv'
<1>1. PICK t, l : t = request[r].todo /\ l = request[r].loc
  OBVIOUS
<1>2. At(r, "episodeUnlist") /\ Done(r) /\ sessions' = sessions
  BY DEF EpisodeUnlist, sessionVars
<1>3. chatPast'.in = chatPast.in
  BY DEF EpisodeUnlist, ChatShape, ChatTyped
<1>4. t # <<>> /\ t[1].do = "episodeUnlist" /\ Moved(r, Tail(t), l)
  BY <1>1, <1>2, ChatAt
<1> QED BY <1>1, <1>2, <1>3, <1>4, CountGoesOn

LEMMA EpisodeUnqueueCount ==
    ASSUME ChatShape, ChatShape', CountInv, NEW r \in Requests, EpisodeUnqueue(r)
    PROVE  CountInv'
<1>1. PICK t, l : t = request[r].todo /\ l = request[r].loc
  OBVIOUS
<1>2. At(r, "episodeUnqueue") /\ Done(r) /\ sessions' = sessions
  BY DEF EpisodeUnqueue, sessionVars
<1>3. chatPast'.in = chatPast.in
  BY DEF EpisodeUnqueue, ChatShape, ChatTyped
<1>4. t # <<>> /\ t[1].do = "episodeUnqueue" /\ Moved(r, Tail(t), l)
  BY <1>1, <1>2, ChatAt
<1> QED BY <1>1, <1>2, <1>3, <1>4, CountGoesOn

LEMMA EpisodeEraseCount ==
    ASSUME ChatShape, ChatShape', CountInv, NEW r \in Requests, EpisodeErase(r)
    PROVE  CountInv'
<1>1. PICK t, l : t = request[r].todo /\ l = request[r].loc
  OBVIOUS
<1>2. At(r, "episodeErase") /\ Done(r) /\ sessions' = sessions
  BY DEF EpisodeErase, sessionVars
<1>3. chatPast'.in = chatPast.in
  BY DEF EpisodeErase, ChatShape, ChatTyped
<1>4. t # <<>> /\ t[1].do = "episodeErase" /\ Moved(r, Tail(t), l)
  BY <1>1, <1>2, ChatAt
<1> QED BY <1>1, <1>2, <1>3, <1>4, CountGoesOn

LEMMA ClearIndexCount ==
    ASSUME ChatShape, ChatShape', CountInv, NEW r \in Requests, ClearIndex(r)
    PROVE  CountInv'
<1>1. PICK t, l : t = request[r].todo /\ l = request[r].loc
  OBVIOUS
<1>2. At(r, "clearIndex") /\ Done(r) /\ sessions' = sessions
  BY DEF ClearIndex, sessionVars
<1>3. chatPast'.in = chatPast.in
  BY DEF ClearIndex, ChatShape, ChatTyped
<1>4. t # <<>> /\ t[1].do = "clearIndex" /\ Moved(r, Tail(t), l)
  BY <1>1, <1>2, ChatAt
<1> QED BY <1>1, <1>2, <1>3, <1>4, CountGoesOn

LEMMA CompleteCount ==
    ASSUME ChatShape, ChatShape', CountInv, NEW r \in Requests, Complete(r)
    PROVE  CountInv'
<1>1. PICK t, l : t = request[r].todo /\ l = request[r].loc
  OBVIOUS
<1>2. At(r, "complete") /\ Done(r) /\ sessions' = sessions
  BY DEF Complete, sessionVars
<1>3. chatPast'.in = chatPast.in
  BY DEF Complete, ChatShape, ChatTyped
<1>4. t # <<>> /\ t[1].do = "complete" /\ Moved(r, Tail(t), l)
  BY <1>1, <1>2, ChatAt
<1> QED BY <1>1, <1>2, <1>3, <1>4, CountGoesOn

LEMMA SessionDelCount ==
    ASSUME ChatShape, ChatShape', CountInv, NEW r \in Requests, SessionDel(r)
    PROVE  CountInv'
<1>1. PICK t, l : t = request[r].todo /\ l = request[r].loc
  OBVIOUS
<1>2. At(r, "sessionDel") /\ Done(r) /\ chatPast' = chatPast /\ sessions' = [sessions EXCEPT ![Loc(r).session] = NoSession]
  BY DEF SessionDel
<1>3. t # <<>> /\ t[1].do = "sessionDel" /\ Moved(r, Tail(t), l) /\ ChatTyped
  BY <1>1, <1>2, ChatAt
<1>4. \A s \in SessionIds : sessions'[s] = sessions[s] \/ sessions'[s] = NoSession
  BY <1>2, <1>3 DEF ChatTyped
<1>5. NoSession.count = 0 /\ NoSession.head = None
  BY DEF NoSession
<1> QED BY <1>1, <1>2, <1>3, <1>4, <1>5, CountGoesOn

LEMMA UserSetCount ==
    ASSUME ChatShape, ChatShape', CountInv, NEW r \in Requests, UserSet(r)
    PROVE  CountInv'
<1>1. PICK t, l, m : t = request[r].todo /\ l = request[r].loc /\ m = [l EXCEPT !.user = Fresh(UserIds, chatPast.users)]
  OBVIOUS
<1>2. At(r, "userSet") /\ sessions' = sessions
  BY DEF UserSet, sessionVars
<1>3. chatPast'.in = chatPast.in
  BY DEF UserSet, ChatShape, ChatTyped
<1>4. Loc(r) = l /\ t # <<>> /\ t[1].do = "userSet" /\ (Sent(r, m) => Moved(r, Tail(t), m))
  BY <1>1, <1>2, ChatAt
<1>5. Moved(r, Tail(t), m)
  BY <1>1, <1>4 DEF UserSet
<1> QED BY <1>1, <1>2, <1>3, <1>4, <1>5, CountGoesOn

LEMMA SessionSetCount ==
    ASSUME ChatShape, ChatShape', CountInv, NEW r \in Requests, SessionSet(r)
    PROVE  CountInv'
<1>1. PICK t, l, s, m : t = request[r].todo /\ l = request[r].loc /\ s = Fresh(SessionIds, chatPast.sessions)
                        /\ m = [l EXCEPT !.session = s]
  OBVIOUS
<1>2. At(r, "sessionSet") /\ chatPast' = [chatPast EXCEPT !.sessions = @ \cup {s}]
  BY <1>1 DEF SessionSet
<1>3. chatPast'.in = chatPast.in
  BY <1>2 DEF ChatShape, ChatTyped
<1>4. Loc(r) = l /\ t # <<>> /\ t[1].do = "sessionSet" /\ ChatTyped /\ (Sent(r, m) => Moved(r, Tail(t), m))
  BY <1>1, <1>2, ChatAt
<1>5. PICK doc : doc = [NoSession EXCEPT !.user = l.user, !.name = This(r).id]
  OBVIOUS
<1>6. Moved(r, Tail(t), m) /\ sessions' = [sessions EXCEPT ![s] = doc]
  BY <1>1, <1>4, <1>5 DEF SessionSet
<1>7. doc.count = 0 /\ doc.head = None
  BY <1>5 DEF NoSession
<1>8. \A x \in SessionIds : sessions'[x] = sessions[x] \/ sessions'[x] = doc
  BY <1>4, <1>6 DEF ChatTyped
<1> QED BY <1>1, <1>3, <1>4, <1>6, <1>7, <1>8, CountGoesOn

(* What is looked for, and what is read. *)
LEMMA UserNeedCount ==
    ASSUME ChatShape, ChatShape', CountInv, NEW r \in Requests, UserNeed(r)
    PROVE  CountInv'
<1>1. PICK t, l : t = request[r].todo /\ l = request[r].loc
  OBVIOUS
<1>2. PICK m : m = [l EXCEPT !.found = {users[l.user]}]
  OBVIOUS
<1>3. At(r, "userNeed") /\ chatPast' = chatPast /\ sessions' = sessions
  BY DEF UserNeed, chatVars, sessionVars
<1>4. /\ Loc(r) = l /\ This(r) = t[1] /\ t # <<>> /\ t[1].do = "userNeed" /\ (Sent(r, m) => Moved(r, Tail(t), m))
      /\ Refuse(r) => Moved(r, <<>>, l)
  BY <1>1, <1>3, ChatAt
<1>5. Refuse(r) \/ Sent(r, m)
  BY <1>2, <1>4 DEF UserNeed
<1>6. CASE Refuse(r)
  BY <1>3, <1>4, <1>6, CountFree
<1>7. CASE Sent(r, m)
  BY <1>1, <1>3, <1>4, <1>7, CountGoesOn
<1> QED BY <1>5, <1>6, <1>7

LEMMA EpisodeNeedCount ==
    ASSUME ChatShape, ChatShape', CountInv, NEW r \in Requests, EpisodeNeed(r)
    PROVE  CountInv'
<1>1. PICK t, l : t = request[r].todo /\ l = request[r].loc
  OBVIOUS
<1>2. PICK m : m = [l EXCEPT !.session = episodes[t[1].id].session]
  OBVIOUS
<1>3. At(r, "episodeNeed") /\ chatPast' = chatPast /\ sessions' = sessions
  BY DEF EpisodeNeed, chatVars, sessionVars
<1>4. /\ Loc(r) = l /\ This(r) = t[1] /\ t # <<>> /\ t[1].do = "episodeNeed" /\ (Sent(r, m) => Moved(r, Tail(t), m))
      /\ Refuse(r) => Moved(r, <<>>, l)
  BY <1>1, <1>3, ChatAt
<1>5. Refuse(r) \/ Sent(r, m)
  BY <1>2, <1>4 DEF EpisodeNeed
<1>6. CASE Refuse(r)
  BY <1>3, <1>4, <1>6, CountFree
<1>7. CASE Sent(r, m)
  BY <1>1, <1>3, <1>4, <1>7, CountGoesOn
<1> QED BY <1>5, <1>6, <1>7

LEMMA SessionReadCount ==
    ASSUME ChatShape, ChatShape', CountInv, NEW r \in Requests, SessionRead(r)
    PROVE  CountInv'
<1>1. PICK t, l : t = request[r].todo /\ l = request[r].loc
  OBVIOUS
<1>2. PICK m : m = [l EXCEPT !.copy = sessions[l.session]]
  OBVIOUS
<1>3. At(r, "sessionRead") /\ chatPast' = chatPast /\ sessions' = sessions
  BY DEF SessionRead, chatVars, sessionVars
<1>4. /\ Loc(r) = l /\ t # <<>> /\ t[1].do = "sessionRead" /\ (Sent(r, m) => Moved(r, Tail(t), m))
      /\ Refuse(r) => Moved(r, <<>>, l)
      /\ l.session \in SessionIds /\ l \in ChatLocal
  BY <1>1, <1>3, ChatAt DEF SessionDo, KnownDo
<1>5. Refuse(r) \/ Sent(r, m)
  BY <1>2, <1>4 DEF SessionRead
<1>6. CASE Refuse(r)
  BY <1>3, <1>4, <1>6, CountFree
<1>7. CASE Sent(r, m)
  <2>1. m.episode = l.episode /\ m.session = l.session /\ m.copy = sessions[m.session]
    BY <1>2, <1>4 DEF ChatLocal
  <2> QED BY <1>1, <1>3, <1>4, <1>7, <2>1, CountGoesOn
<1> QED BY <1>5, <1>6, <1>7

LEMMA CountReadCount ==
    ASSUME ChatShape, ChatShape', CountInv, NEW r \in Requests, CountRead(r)
    PROVE  CountInv'
<1>1. PICK t, l : t = request[r].todo /\ l = request[r].loc
  OBVIOUS
<1>2. PICK m : m = [l EXCEPT !.copy = sessions[l.session]]
  OBVIOUS
<1>3. At(r, "countRead") /\ chatPast' = chatPast /\ sessions' = sessions
  BY DEF CountRead, chatVars, sessionVars
<1>4. /\ Loc(r) = l /\ t # <<>> /\ t[1].do = "countRead" /\ (Sent(r, m) => Moved(r, Tail(t), m))
      /\ Refuse(r) => Moved(r, <<>>, l)
      /\ l.session \in SessionIds /\ l \in ChatLocal
  BY <1>1, <1>3, ChatAt DEF SessionDo, KnownDo
<1>5. Refuse(r) \/ Sent(r, m)
  BY <1>2, <1>4 DEF CountRead
<1>6. CASE Refuse(r)
  BY <1>3, <1>4, <1>6, CountFree
<1>7. CASE Sent(r, m)
  <2>1. m.episode = l.episode /\ m.session = l.session /\ m.copy = sessions[m.session]
    BY <1>2, <1>4 DEF ChatLocal
  <2> QED BY <1>1, <1>3, <1>4, <1>7, <2>1, CountGoesOn
<1> QED BY <1>5, <1>6, <1>7

(* What find_user_by_identifier puts before the rest. *)
LEMMA InsertsUser ==
    ASSUME ChatShape, NEW r \in Requests, At(r, "findUser"), Insert(r, create_user(This(r).id), Loc(r))
    PROVE  \E u : Moved(r, u, request[r].loc) /\ u # <<>> /\ u[1].do = "userSet" /\ u[1].id = This(r).id
<1>1. PICK t, l : t = request[r].todo /\ l = request[r].loc
  OBVIOUS
<1>2. /\ t # <<>> /\ t[1].do = "findUser" /\ Loc(r) = l /\ ChatSuits(t[1]) /\ This(r) = t[1] /\ ChatInPlace(t, l)
      /\ \A m, n : Insert(r, m, n) => Moved(r, m \o Tail(t), n)
      /\ Tail(t) # <<>> => ChatFollows(t[1], Tail(t)[1])
  BY <1>1, ChatAt
<1>3. PICK p : p = t[1].id /\ p \in People
  BY <1>2 DEF ChatSuits
<1>4. PICK y, u : y = Tail(t) /\ u = create_user(p) \o y
  OBVIOUS
<1>5. y \in Seq(ChatCommand) /\ InChatOrder(y) /\ (y # <<>> => y[1].do = "findSession")
  BY <1>2, <1>4, ChatTail DEF ChatFollows
<1>6. Leads(create_user(p) \o y, "userSet") /\ (create_user(p) \o y)[1].id = p
  BY <1>3, <1>5, CreateUserList, Zenon
<1>7. Leads(u, "userSet") /\ u[1].id = p
  BY <1>4, <1>6
<1>8. Moved(r, u, l)
  BY <1>2, <1>3, <1>4
<1> QED BY <1>1, <1>2, <1>3, <1>7, <1>8 DEF Leads

(* What find_or_create_session puts before the rest. *)
LEMMA InsertsSession ==
    ASSUME ChatShape, NEW r \in Requests, At(r, "findSession"), Insert(r, create_session(This(r).id), Loc(r))
    PROVE  \E u : Moved(r, u, request[r].loc) /\ u # <<>> /\ u[1].do = "userNeed"
<1>1. PICK t, l : t = request[r].todo /\ l = request[r].loc
  OBVIOUS
<1>2. /\ t # <<>> /\ t[1].do = "findSession" /\ Loc(r) = l /\ ChatSuits(t[1]) /\ This(r) = t[1] /\ ChatInPlace(t, l)
      /\ \A m, n : Insert(r, m, n) => Moved(r, m \o Tail(t), n)
      /\ Tail(t) # <<>> => ChatFollows(t[1], Tail(t)[1])
  BY <1>1, ChatAt
<1>3. PICK n : n = t[1].id /\ n \in SessionNames
  BY <1>2 DEF ChatSuits
<1>4. PICK y, u : y = Tail(t) /\ u = create_session(n) \o y
  OBVIOUS
<1>5. y \in Seq(ChatCommand) /\ InChatOrder(y) /\ (y # <<>> => y[1].do = "episodeSet")
  BY <1>2, <1>4, ChatTail DEF ChatFollows
<1>6. Leads(create_session(n) \o y, "userNeed")
  BY <1>3, <1>5, CreateSessionList, Zenon
<1>7. Leads(u, "userNeed")
  BY <1>4, <1>6
<1>8. Moved(r, u, l)
  BY <1>2, <1>3, <1>4
<1> QED BY <1>1, <1>2, <1>7, <1>8 DEF Leads

(* What the searches set or start. *)
LEMMA FindUserCount ==
    ASSUME ChatShape, ChatShape', CountInv, NEW r \in Requests, FindUser(r)
    PROVE  CountInv'
<1>1. PICK t, l : t = request[r].todo /\ l = request[r].loc
  OBVIOUS
<1>2. At(r, "findUser") /\ chatPast' = chatPast /\ sessions' = sessions
  BY DEF FindUser, chatVars, sessionVars
<1>3. t # <<>> /\ t[1].do = "findUser" /\ \A m : Sent(r, m) => Moved(r, Tail(t), m)
  BY <1>1, <1>2, ChatAt
<1>4. (\E m : Sent(r, m)) \/ Insert(r, create_user(This(r).id), Loc(r))
  BY DEF FindUser
<1>5. ASSUME NEW m, Sent(r, m)
      PROVE  CountInv'
  <2>1. Moved(r, Tail(t), m)
    BY <1>3, <1>5
  <2> QED BY <1>1, <1>2, <1>3, <2>1, CountGoesOn
<1>6. CASE Insert(r, create_user(This(r).id), Loc(r))
  <2>1. PICK u : Moved(r, u, request[r].loc) /\ u # <<>> /\ u[1].do = "userSet"
    BY <1>2, <1>6, InsertsUser
  <2> QED BY <1>2, <2>1, CountFree
<1> QED BY <1>4, <1>5, <1>6

LEMMA FindSessionCount ==
    ASSUME ChatShape, ChatShape', CountInv, NEW r \in Requests, FindSession(r)
    PROVE  CountInv'
<1>1. PICK t, l : t = request[r].todo /\ l = request[r].loc
  OBVIOUS
<1>2. At(r, "findSession") /\ chatPast' = chatPast /\ sessions' = sessions
  BY DEF FindSession, chatVars, sessionVars
<1>3. t # <<>> /\ t[1].do = "findSession" /\ \A m : Sent(r, m) => Moved(r, Tail(t), m)
  BY <1>1, <1>2, ChatAt
<1>4. (\E m : Sent(r, m)) \/ Insert(r, create_session(This(r).id), Loc(r))
  BY DEF FindSession
<1>5. ASSUME NEW m, Sent(r, m)
      PROVE  CountInv'
  <2>1. Moved(r, Tail(t), m)
    BY <1>3, <1>5
  <2> QED BY <1>1, <1>2, <1>3, <2>1, CountGoesOn
<1>6. CASE Insert(r, create_session(This(r).id), Loc(r))
  <2>1. PICK u : Moved(r, u, request[r].loc) /\ u # <<>> /\ u[1].do = "userNeed"
    BY <1>2, <1>6, InsertsSession
  <2> QED BY <1>2, <2>1, CountFree
<1> QED BY <1>4, <1>5, <1>6

LEMMA SummaryDueCount ==
    ASSUME ChatShape, ChatShape', CountInv, NEW r \in Requests, SummaryDue(r) \/ Inflight(r)
    PROVE  CountInv'
<1>1. PICK t, l : t = request[r].todo /\ l = request[r].loc
  OBVIOUS
<1>2. PICK do \in {"summaryDue", "inflight"} : At(r, do)
  BY DEF SummaryDue, Inflight
<1>3. chatPast' = chatPast /\ sessions' = sessions /\ (Done(r) \/ Refuse(r))
  BY DEF SummaryDue, Inflight, chatVars, sessionVars
<1>4. /\ t # <<>> /\ t[1].do = do
      /\ Done(r) => Moved(r, Tail(t), l)
      /\ Refuse(r) => Moved(r, <<>>, l)
  BY <1>1, <1>2, ChatAt
<1>5. CASE Refuse(r)
  BY <1>3, <1>4, <1>5, CountFree
<1>6. CASE Done(r)
  BY <1>1, <1>2, <1>3, <1>4, <1>6, CountGoesOn
<1> QED BY <1>3, <1>5, <1>6

LEMMA ClearRangeCount ==
    ASSUME ChatShape, ChatShape', CountInv, NEW r \in Requests, ClearRange(r)
    PROVE  CountInv'
<1>1. chatPast' = chatPast /\ sessions' = sessions
  BY DEF ClearRange, chatVars, sessionVars
<1>2. PICK u : /\ Moved(r, u, Loc(r)) /\ u # <<>>
               /\ u[1].do \in {"episodeErase", "episodeUnqueue", "clearIndex"}
  BY ClearRangeShape
<1> QED BY <1>1, <1>2, CountFree

LEMMA WorkCount ==
    ASSUME ChatShape, ChatShape', CountInv, NEW r \in Requests, Work(r)
    PROVE  CountInv'
<1>1. PICK t, l : t = request[r].todo /\ l = request[r].loc
  OBVIOUS
<1>2. At(r, "work") /\ chatPast' = chatPast /\ sessions' = sessions
  BY DEF Work, sessionVars
<1>3. /\ t # <<>> /\ t[1].do = "work"
      /\ \A m : Sent(r, m) => Moved(r, Tail(t), m)
      /\ Refuse(r) => Moved(r, <<>>, l)
  BY <1>1, <1>2, ChatAt
<1>4. (\E m : Sent(r, m)) \/ Refuse(r)
  BY DEF Work
<1>5. ASSUME NEW m, Sent(r, m)
      PROVE  CountInv'
  <2>1. Moved(r, Tail(t), m)
    BY <1>3, <1>5
  <2> QED BY <1>1, <1>2, <1>3, <2>1, CountGoesOn
<1>6. CASE Refuse(r)
  BY <1>2, <1>3, <1>6, CountFree
<1> QED BY <1>4, <1>5, <1>6

(* A session counts an episode. *)
LEMMA SessionPutCount ==
    ASSUME ChatShape, ChatShape', CountInv, NEW r \in Requests, SessionPut(r)
    PROVE  CountInv'
<1>1. PICK t, l, s : t = request[r].todo /\ l = request[r].loc /\ s = l.session
  OBVIOUS
<1>2. At(r, "sessionPut")
  BY DEF SessionPut
<1>3. /\ t # <<>> /\ t[1].do = "sessionPut" /\ ChatTyped /\ Moved(r, Tail(t), l) /\ Loc(r) = l
      /\ s \in SessionIds /\ l.copy \in SessionDocs
      /\ Tail(t) # <<>> => ChatFollows(t[1], Tail(t)[1])
      /\ Adding(t) => l.episode \in chatPast.in[s]
  BY <1>1, <1>2, ChatAt DEF SessionPut, KnownDo
<1>4. Tail(t) = <<>>
  BY <1>3 DEF ChatFollows
<1>5. PICK doc : doc = Changed(r)
  OBVIOUS
<1>6. /\ sessions' = [sessions EXCEPT ![s] = doc] /\ chatPast' = chatPast
      /\ doc \in SessionDocs
      /\ t[1].how = "count" => doc.count = l.copy.count + 1 /\ doc.head = l.episode
      /\ t[1].how # "count" => doc.count = l.copy.count /\ doc.head = l.copy.head
  BY <1>1, <1>2, <1>3, <1>5, ChangedIs DEF SessionPut
<1>7. Behind(l.copy, s)
  BY <1>1, <1>3 DEF CountInv, HoldsBack
<1>8. OwnEpisodes' /\ \A x \in SessionIds : chatPast.in[x] \subseteq chatPast'.in[x] /\ Counted(x) \subseteq Counted(x)'
  BY <1>3, <1>4, <1>6, CountedStays DEF Adding
<1>9. PICK old, new, n, k : old = Counted(s) /\ new = Counted(s)' /\ n = Cardinality(old) /\ k = Cardinality(new)
  OBVIOUS
<1>10. IsFiniteSet(new) /\ old \subseteq new /\ n \in Nat /\ k \in Nat /\ n <= k
  <2>1. Counted(s)' \subseteq chatPast'.in[s] /\ IsFiniteSet(chatPast'.in[s])
    BY <1>3 DEF Counted, ChatShape, ChatTyped
  <2>2. IsFiniteSet(new) /\ old \subseteq new
    BY <1>3, <1>8, <1>9, <2>1, FS_Subset
  <2> QED BY <1>9, <2>2, FS_Subset, FS_CardinalityType
<1>11. PICK c : c = l.copy.count /\ c \in Nat /\ c <= n
  BY <1>3, <1>7, <1>9 DEF SessionDocs, Behind, Within
<1>12. CASE t[1].how = "count"
  <2>1. Adding(t)
    BY <1>3, <1>12 DEF Adding
  <2>2. PICK e : e = l.episode /\ e \in chatPast.in[s]
    BY <1>3, <2>1
  <2>3. e \notin old
    BY <1>1, <1>9, <2>1, <2>2 DEF Counted, Adds
  <2>4. e \in new
    <3> SUFFICES ASSUME NEW q \in Requests, Adding(request'[q].todo), request'[q].loc.episode = e
                 PROVE  FALSE
      BY <1>6, <1>9, <2>2 DEF Counted, Adds, Adding
    <3>1. q # r
      <4>1. request'[r].todo = <<>>
        BY <1>3, <1>4, BusyThen
      <4> QED BY <4>1 DEF Adding
    <3>2. request'[q] = request[q]
      BY <1>3, <3>1, BusyThen
    <3> QED BY <1>1, <2>1, <2>2, <3>1, <3>2 DEF CountInv, OwnEpisodes
  <2>5. n + 1 <= k
    <3>1. IsFiniteSet(old)
      BY <1>10, FS_Subset
    <3>2. IsFiniteSet(old \cup {e}) /\ Cardinality(old \cup {e}) = n + 1
      BY <1>9, <2>3, <3>1, FS_AddElement
    <3>3. old \cup {e} \subseteq new
      BY <1>10, <2>4
    <3> QED BY <1>9, <1>10, <3>2, <3>3, FS_Subset
  <2>6. Within(doc, k, chatPast'.in[s])
    <3>1. c + 1 <= k
      BY <1>10, <1>11, <2>5
    <3>2. doc.count = c + 1 /\ doc.head = e
      BY <1>6, <1>11, <1>12, <2>2
    <3> QED BY <1>6, <2>2, <3>1, <3>2 DEF Within
  <2>7. \A x \in SessionIds : sessions'[x] = sessions[x] \/ Within(sessions'[x], Cardinality(Counted(x)'), chatPast'.in[x])
    BY <1>3, <1>6, <1>9, <2>6 DEF ChatTyped
  <2> QED BY <1>3, <1>4, <1>8, <2>7, CountMoves
<1>13. CASE t[1].how # "count"
  <2>1. Within(doc, k, chatPast'.in[s])
    <3>1. doc.count = c /\ c <= k
      BY <1>6, <1>10, <1>11, <1>13
    <3>2. doc.head # None => doc.head \in chatPast.in[s]
      BY <1>6, <1>7, <1>13 DEF Behind, Within
    <3> QED BY <1>6, <3>1, <3>2 DEF Within
  <2>2. \A x \in SessionIds : sessions'[x] = sessions[x] \/ Within(sessions'[x], Cardinality(Counted(x)'), chatPast'.in[x])
    BY <1>3, <1>6, <1>9, <2>1 DEF ChatTyped
  <2> QED BY <1>3, <1>4, <1>8, <2>2, CountMoves
<1> QED BY <1>12, <1>13

\* The request, at the command t[1], has created the episode e, which nobody had.
Enters(r, t, l, e, m) ==
    /\ e \in EpisodeIds \ chatPast.episodes
    /\ Moved(r, Tail(t), m) /\ m.episode = e /\ m.session = l.session /\ t # <<>> /\ t[1].do = "episodeSet"
    /\ Tail(t) # <<>> /\ Tail(t)[1].do = "episodeList" /\ l.session \in SessionIds
    /\ \A s \in SessionIds : chatPast'.in[s] = IF s = l.session THEN chatPast.in[s] \cup {e} ELSE chatPast.in[s]
    /\ UNCHANGED <<users, userIndex, sessions, userSessions>> /\ chatPast'.made = chatPast.made
    /\ tally' = tally

(* A new episode is nobody else's. *)
LEMMA EpisodeSetIs ==
    ASSUME ChatShape, NEW r \in Requests, EpisodeSet(r), NEW t, NEW l, t = request[r].todo, l = request[r].loc
    PROVE  \E e, m : Enters(r, t, l, e, m)
<1>1. PICK e : e = Fresh(EpisodeIds, chatPast.episodes)
  OBVIOUS
<1>2. At(r, "episodeSet") /\ e \in EpisodeIds /\ e \notin chatPast.episodes
  <2>1. EpisodeIds \subseteq Nat \ {0}
    BY ConversationAssumption
  <2>2. At(r, "episodeSet") /\ EpisodeIds \ chatPast.episodes # {}
    BY DEF EpisodeSet
  <2> QED BY <1>1, <2>1, <2>2, FreshIs
<1>3. PICK m : m = [l EXCEPT !.episode = e]
  OBVIOUS
<1>4. /\ t # <<>> /\ t[1].do = "episodeSet" /\ l \in ChatLocal /\ ChatTyped
      /\ Moved(r, Tail(t), m) /\ tally' = tally /\ Loc(r) = l
      /\ l.session \in SessionIds
      /\ Tail(t) # <<>> /\ ChatFollows(t[1], Tail(t)[1])
  BY <1>1, <1>2, <1>3, ChatAt DEF EpisodeSet, ChatEnds, KnownDo
<1>5. m.episode = e /\ m.session = l.session
  BY <1>3, <1>4 DEF ChatLocal
<1>6. Tail(t)[1].do = "episodeList"
  BY <1>4 DEF ChatFollows
<1>7. PICK s : s = l.session /\ s \in SessionIds
  BY <1>4
<1>8. chatPast' = [chatPast EXCEPT !.episodes = @ \cup {e}, !.in[s] = @ \cup {e}]
  BY <1>1, <1>4, <1>7 DEF EpisodeSet
<1>9. /\ chatPast'.in = [chatPast.in EXCEPT ![s] = @ \cup {e}] /\ chatPast'.made = chatPast.made
  BY <1>4, <1>8 DEF ChatTyped
<1>10. \A x \in SessionIds : chatPast'.in[x] = IF x = s THEN chatPast.in[x] \cup {e} ELSE chatPast.in[x]
  BY <1>4, <1>7, <1>9, ZenonT(30) DEF ChatTyped
<1>11. UNCHANGED <<users, userIndex, sessions, userSessions>>
  BY DEF EpisodeSet, userVars, sessionVars
<1> QED BY <1>2, <1>3, <1>4, <1>5, <1>6, <1>7, <1>9, <1>10, <1>11, ZenonT(30) DEF Enters

LEMMA EpisodeSetCount ==
    ASSUME ChatShape, ChatShape', CountInv, NEW r \in Requests, EpisodeSet(r)
    PROVE  CountInv'
<1>1. PICK t, l : t = request[r].todo /\ l = request[r].loc
  OBVIOUS
<1>a. PICK e, m : Enters(r, t, l, e, m)
  BY <1>1, EpisodeSetIs
<1>2. /\ e \in EpisodeIds \ chatPast.episodes
      /\ Moved(r, Tail(t), m) /\ m.episode = e /\ m.session = l.session /\ t # <<>> /\ t[1].do = "episodeSet"
      /\ Tail(t) # <<>> /\ Tail(t)[1].do = "episodeList" /\ l.session \in SessionIds
      /\ \A s \in SessionIds : chatPast'.in[s] = IF s = l.session THEN chatPast.in[s] \cup {e} ELSE chatPast.in[s]
      /\ UNCHANGED <<users, userIndex, sessions, userSessions>> /\ chatPast'.made = chatPast.made
      /\ tally' = tally
  BY <1>a DEF Enters
<1>3. PICK u : u = Tail(t)
  OBVIOUS
<1>4. /\ Moved(r, u, m) /\ m.episode = e /\ m.session = l.session /\ u # <<>> /\ u[1].do = "episodeList"
      /\ request'[r] = [todo |-> u, loc |-> m]
      /\ \A q \in Requests : q # r => request'[q] = request[q]
  <2>1. /\ Moved(r, u, m) /\ m.episode = e /\ m.session = l.session /\ u # <<>> /\ u[1].do = "episodeList"
    BY <1>2, <1>3
  <2>2. /\ request'[r] = IF u = <<>> THEN Idle ELSE [todo |-> u, loc |-> m]
        /\ \A q \in Requests : q # r => request'[q] = request[q]
    BY <2>1, BusyThen
  <2> QED BY <2>1, <2>2
<1>5. \A q \in Requests : q # r /\ Adding(request[q].todo) => request[q].loc.episode # e
  BY <1>2, AddersOwn
<1>6. OwnEpisodes'
  <2> SUFFICES ASSUME NEW p \in Requests, NEW q \in Requests, Adding(request'[p].todo), Adding(request'[q].todo),
                      request'[p].loc.episode = request'[q].loc.episode
               PROVE  p = q
    BY DEF OwnEpisodes, Adding
  <2>1. CASE p # r /\ q # r
    BY <1>4, <2>1 DEF CountInv, OwnEpisodes
  <2>2. CASE p = r /\ q # r
    BY <1>4, <1>5, <2>2
  <2>3. CASE p # r /\ q = r
    BY <1>4, <1>5, <2>3
  <2> QED BY <2>1, <2>2, <2>3
<1>7. ASSUME NEW s \in SessionIds
      PROVE  chatPast.in[s] \subseteq chatPast'.in[s] /\ Counted(s) \subseteq Counted(s)'
  <2>1. chatPast.in[s] \subseteq chatPast'.in[s]
    BY <1>2
  <2>2. ASSUME NEW x \in Counted(s)
        PROVE  x \in Counted(s)'
    <3>1. x \in chatPast'.in[s] /\ x \in chatPast.episodes
      BY <2>1, CountedFinite DEF Counted
    <3>2. ASSUME NEW q \in Requests, Adding(request'[q].todo), request'[q].loc.session = s
          PROVE  request'[q].loc.episode # x
      <4>1. CASE q = r
        BY <1>2, <1>4, <3>1, <4>1
      <4>2. CASE q # r
        BY <1>4, <3>2, <4>2 DEF Counted, Adds
      <4> QED BY <4>1, <4>2
    <3> QED BY <3>1, <3>2 DEF Counted, Adds, Adding
  <2> QED BY <2>1, <2>2
<1> QED BY <1>2, <1>4, <1>6, <1>7, CountMoves

(* Every step. *)
LEMMA CommandCount ==
    ASSUME ChatShape, ChatShape', CountInv, ChatCommands
    PROVE  CountInv'
BY UserSetExtCount, UserListCount, UserDelCount, UserDelExtCount, UserUnlistCount, SessionListCount,
   SessionDelCount, SessionUnlistCount, EpisodeListCount, EpisodeQueueCount, EpisodeUnlistCount,
   EpisodeUnqueueCount, EpisodeEraseCount, ClearIndexCount, CompleteCount, UserSetCount, SessionSetCount,
   SessionPutCount, EpisodeSetCount, WorkCount, UserNeedCount, FindUserCount, FindSessionCount,
   SessionReadCount, CountReadCount, EpisodeNeedCount, SummaryDueCount, ClearRangeCount, Zenon DEF ChatCommands

LEMMA CountKept ==
    ASSUME ChatShape, ChatShape', CountInv, [NextConversations]_<<requestVars, chatVars>>
    PROVE  CountInv'
<1>1. CASE ChatRequests
  <2>1. PICK r \in Requests : \E t, l : Start(r, t, l) /\ ChatBegun(t, l) /\ UNCHANGED chatVars
    BY <1>1, ChatRequestBegins
  <2>2. PICK t, l : Start(r, t, l) /\ ChatBegun(t, l) /\ UNCHANGED chatVars
    BY <2>1
  <2>3. Moved(r, t, l)
    BY <2>2, Starts DEF ChatShape
  <2>4. chatPast' = chatPast /\ sessions' = sessions
    BY <2>2 DEF chatVars, sessionVars
  <2> QED BY <2>2, <2>3, <2>4, CountFree DEF ChatBegun
<1>2. CASE ChatCommands
  BY <1>2, CommandCount
<1>3. ASSUME NEW r \in Requests, ChatFails(r)
      PROVE  CountInv'
  BY <1>3, ChatFailsIs, CountFree
<1>4. CASE UNCHANGED <<requestVars, chatVars>>
  <2>1. request' = request /\ chatPast' = chatPast /\ sessions' = sessions
    BY <1>4 DEF requestVars, chatVars, sessionVars
  <2> QED BY <2>1 DEF CountInv, OwnEpisodes, Behind, HoldsBack, Counted, Adds, Adding
<1> QED BY <1>1, <1>2, <1>3, <1>4 DEF NextConversations

LEMMA CountFirst ==
    ASSUME InitRequests, InitConversations
    PROVE  CountInv
<1>1. ChatShape
  BY ChatFirst
<1>2. \A r \in Requests : request[r].todo = <<>>
  BY DEF InitRequests, Idle
<1>3. OwnEpisodes /\ \A r \in Requests : HoldsBack(request[r].todo, request[r].loc)
  BY <1>2 DEF OwnEpisodes, HoldsBack, Adding
<1>4. \A s \in SessionIds : sessions[s].count = 0 /\ sessions[s].head = None
  BY DEF InitConversations, NoSession
<1>5. ASSUME NEW s \in SessionIds
      PROVE  Behind(sessions[s], s)
  <2>1. Cardinality(Counted(s)) \in Nat
    BY <1>1, CountedFinite
  <2>2. 0 <= Cardinality(Counted(s))
    BY <2>1
  <2> QED BY <1>4, <2>2 DEF Behind, Within
<1> QED BY <1>3, <1>5 DEF CountInv

LEMMA CountTells ==
    ASSUME ChatShape, CountInv
    PROVE  NeverAhead
<1> SUFFICES ASSUME NEW s \in SessionIds
             PROVE  /\ sessions[s].count <= Cardinality(chatPast.in[s])
                    /\ sessions[s].head # None => sessions[s].head \in chatPast.in[s]
                    /\ sessionEpisodes[s] \subseteq chatPast.in[s]
  BY DEF NeverAhead
<1>1. Within(sessions[s], Cardinality(Counted(s)), chatPast.in[s])
  BY DEF CountInv, Behind
<1>2. sessions[s] \in SessionDocs \cup {NoSession} /\ IsFiniteSet(chatPast.in[s]) /\ sessionEpisodes[s] \subseteq chatPast.in[s]
  BY DEF ChatShape, ChatTyped
<1>3. Counted(s) \subseteq chatPast.in[s]
  BY DEF Counted
<1>4. PICK c, n, k : c = sessions[s].count /\ n = Cardinality(Counted(s)) /\ k = Cardinality(chatPast.in[s])
  OBVIOUS
<1>5. n \in Nat /\ k \in Nat /\ n <= k
  BY <1>2, <1>3, <1>4, FS_Subset, FS_CardinalityType
<1>6. c \in Nat
  BY <1>2, <1>4 DEF SessionDocs, NoSession
<1>7. c <= n
  BY <1>1, <1>4 DEF Within
<1>8. c <= k
  BY <1>5, <1>6, <1>7
<1> QED BY <1>1, <1>2, <1>4, <1>8 DEF Within

-----------------------------------------------------------------------------
(* Requests one after the other.                                            *)

(* A set that is no larger, or larger by one. *)
LEMMA NoLarger ==
    ASSUME NEW S, NEW T, IsFiniteSet(T), S \subseteq T, NEW n \in Int, Cardinality(T) <= n
    PROVE  IsFiniteSet(S) /\ Cardinality(S) <= n
<1>1. IsFiniteSet(S) /\ Cardinality(S) \in Nat /\ Cardinality(T) \in Nat /\ Cardinality(S) <= Cardinality(T)
  BY FS_Subset, FS_CardinalityType
<1> QED BY <1>1

LEMMA OneLarger ==
    ASSUME NEW S, NEW T, NEW x, IsFiniteSet(T), S \subseteq T \cup {x}, NEW n \in Int, Cardinality(T) <= n
    PROVE  IsFiniteSet(S) /\ Cardinality(S) <= n + 1
<1>1. IsFiniteSet(T \cup {x}) /\ Cardinality(T \cup {x}) \in {Cardinality(T), Cardinality(T) + 1} /\ Cardinality(T) \in Nat
  BY FS_AddElement, FS_CardinalityType
<1>2. PICK k : k = Cardinality(T \cup {x})
  OBVIOUS
<1>3. k <= n + 1
  BY <1>1, <1>2
<1> QED BY <1>1, <1>2, <1>3, NoLarger

(* The users stay, whoever was about to be listed still is. *)
LEMMA UsersStay ==
    ASSUME ChatShape, HomeStored, NEW r \in Requests, NEW u, NEW m, Moved(r, u, m),
           tally'.faults = tally.faults, chatPast'.made = chatPast.made, UNCHANGED <<users, userIndex>>,
           LET t == request[r].todo IN
             t # <<>> /\ t[1].do \in {"userSetExt", "userList"} =>
               u # <<>> /\ u[1].do \in {"userSetExt", "userList"} /\ m.user = request[r].loc.user
    PROVE  OnePlace' /\ FewStray'
<1>1. ASSUME NEW p \in People
      PROVE  Stray(p)' \subseteq Stray(p)
  <2> SUFFICES ASSUME NEW v \in Stray(p)', NEW q \in Requests, Hand(q, v)
               PROVE  Hand(q, v)'
    BY DEF Stray
  <2>1. CASE q = r
    <3>1. u # <<>> /\ u[1].do \in {"userSetExt", "userList"} /\ m.user = v
      BY <2>1 DEF Hand
    <3>2. request'[r] = IF u = <<>> THEN Idle ELSE [todo |-> u, loc |-> m]
      BY BusyThen
    <3>3. request'[r].todo = u /\ request'[r].loc = m
      BY <3>1, <3>2
    <3> QED BY <2>1, <3>1, <3>3 DEF Hand
  <2>2. CASE q # r
    <3>1. request'[q] = request[q]
      BY <2>2, BusyThen
    <3> QED BY <3>1 DEF Hand
  <2> QED BY <2>1, <2>2
<1>2. OnePlace'
  BY DEF HomeStored, OnePlace
<1>3. FewStray'
  <2> SUFFICES ASSUME NEW p \in People
               PROVE  IsFiniteSet(Stray(p)') /\ Cardinality(Stray(p)') <= tally.faults
    BY DEF FewStray
  <2>1. IsFiniteSet(Stray(p)) /\ Cardinality(Stray(p)) <= tally.faults /\ tally.faults \in Nat
    BY DEF HomeStored, FewStray, ChatShape, Tallies
  <2> QED BY <1>1, <2>1, NoLarger
<1> QED BY <1>2, <1>3

(* What a session counts and where it is listed stays, whatever was being *)
(* added or listed still is.                                              *)
LEMMA CountedKept ==
    ASSUME NEW r \in Requests, NEW u, NEW m, Moved(r, u, m), chatPast'.in = chatPast.in,
           Adding(request[r].todo) => /\ Adding(u) /\ m.episode = request[r].loc.episode
                                      /\ m.session = request[r].loc.session
    PROVE  \A s \in SessionIds : Counted(s)' \subseteq Counted(s)
<1> SUFFICES ASSUME NEW s \in SessionIds, NEW e \in Counted(s)', NEW q \in Requests, Adds(q, s)
             PROVE  request[q].loc.episode # e
  BY DEF Counted
<1>1. CASE q = r
  <2>1. Adding(u) /\ m.episode = request[r].loc.episode /\ m.session = s
    BY <1>1 DEF Adds
  <2>2. request'[r] = IF u = <<>> THEN Idle ELSE [todo |-> u, loc |-> m]
    BY BusyThen
  <2>3. request'[r].todo = u /\ request'[r].loc = m
    BY <2>1, <2>2 DEF Adding
  <2> QED BY <1>1, <2>1, <2>3 DEF Counted, Adds, Adding
<1>2. CASE q # r
  <2>1. request'[q] = request[q]
    BY <1>2, BusyThen
  <2> QED BY <2>1 DEF Counted, Adds, Adding
<1> QED BY <1>1, <1>2

(* The sessions that are still there count what they did. *)
LEMMA CountsKept ==
    ASSUME ChatShape, HomeStored, tally'.faults = tally.faults,
           \A s \in SessionIds : sessions'[s] # NoSession =>
             \/ Counted(s)' = {} /\ sessions'[s].count = 0
             \/ sessions'[s] = sessions[s] /\ Counted(s)' \subseteq Counted(s)
    PROVE  Tallied'
<1> SUFFICES ASSUME NEW s \in SessionIds, sessions'[s] # NoSession
             PROVE  Cardinality(Counted(s)') <= sessions'[s].count + tally.faults
  BY DEF Tallied
<1>1. tally.faults \in Nat
  BY DEF ChatShape, Tallies
<1>2. CASE Counted(s)' = {} /\ sessions'[s].count = 0
  BY <1>1, <1>2, FS_EmptySet
<1>3. CASE sessions'[s] = sessions[s] /\ Counted(s)' \subseteq Counted(s)
  <2>1. Cardinality(Counted(s)) <= sessions[s].count + tally.faults /\ IsFiniteSet(Counted(s))
    BY <1>3, CountedFinite DEF HomeStored, Tallied
  <2>2. sessions[s].count + tally.faults \in Int
    BY <1>1 DEF ChatShape, ChatTyped, SessionDocs, NoSession
  <2> QED BY <1>3, <2>1, <2>2, NoLarger
<1> QED BY <1>2, <1>3

(* The sessions stay listed. *)
LEMMA ListedStays ==
    ASSUME HomeStored, NEW r \in Requests, NEW u, NEW m, Moved(r, u, m),
           tally'.faults = tally.faults, UNCHANGED <<sessions, userSessions>>,
           LET t == request[r].todo IN
             t # <<>> /\ t[1].do = "sessionList" =>
               u # <<>> /\ u[1].do = "sessionList" /\ m.session = request[r].loc.session
    PROVE  AllListed'
<1> SUFFICES ASSUME tally.faults = 0, NEW s \in SessionIds, sessions[s] # NoSession,
                    s \notin userSessions[sessions[s].user]
             PROVE  \E q \in Requests : Lists(q, s)'
  BY DEF AllListed
<1>1. PICK q \in Requests : Lists(q, s)
  BY DEF HomeStored, AllListed
<1>2. CASE q = r
  <2>1. u # <<>> /\ u[1].do = "sessionList" /\ m.session = s
    BY <1>1, <1>2 DEF Lists
  <2>2. request'[r] = IF u = <<>> THEN Idle ELSE [todo |-> u, loc |-> m]
    BY BusyThen
  <2>3. request'[r].todo = u /\ request'[r].loc = m
    BY <2>1, <2>2
  <2> QED BY <1>2, <2>1, <2>3 DEF Lists
<1>3. CASE q # r
  <2>1. request'[q] = request[q]
    BY <1>3, BusyThen
  <2> QED BY <1>1, <2>1 DEF Lists
<1> QED BY <1>2, <1>3

LEMMA SessionsStay ==
    ASSUME ChatShape, HomeStored, NEW r \in Requests, NEW u, NEW m, Moved(r, u, m),
           tally'.faults = tally.faults, chatPast'.in = chatPast.in, UNCHANGED <<sessions, userSessions>>,
           Adding(request[r].todo) => /\ Adding(u) /\ m.episode = request[r].loc.episode
                                      /\ m.session = request[r].loc.session,
           LET t == request[r].todo IN
             t # <<>> /\ t[1].do = "sessionList" =>
               u # <<>> /\ u[1].do = "sessionList" /\ m.session = request[r].loc.session
    PROVE  Tallied' /\ AllListed'
BY CountedKept, CountsKept, ListedStays

(* What the only request knows is all there is to know. *)
LEMMA HomeMoves ==
    ASSUME NEW r \in Requests, NEW u, NEW m, Moved(r, u, m), \A q \in Busy : q = r, HomeStored', FitsHome(u, m)'
    PROVE  HomeGood'
<1> SUFFICES ASSUME NEW q \in Requests
             PROVE  FitsHome(request[q].todo, request[q].loc)'
  BY DEF HomeGood
<1>1. CASE q # r
  <2>1. request'[q].todo = <<>>
    <3>1. request'[q] = request[q] /\ request[q].todo = <<>>
      BY <1>1, BusyThen DEF Busy
    <3> QED BY <3>1
  <2> QED BY <2>1 DEF FitsHome
<1>2. CASE q = r
  <2>1. request'[r] = (IF u = <<>> THEN Idle ELSE [todo |-> u, loc |-> m]) /\ request'[r].todo = u
    BY BusyThen
  <2>2. CASE u = <<>>
    BY <1>2, <2>1, <2>2 DEF FitsHome
  <2>3. CASE u # <<>>
    <3>1. request'[r].todo = u /\ request'[r].loc = m
      BY <2>1, <2>3
    <3> QED BY <1>2, <3>1
  <2> QED BY <2>2, <2>3
<1> QED BY <1>1, <1>2

\* What the properties of requests one after the other are about stays.
(* A step of the only request that changes nothing stored. *)
LEMMA HomeStep ==
    ASSUME ChatShape, HomeInv, NEW r \in Requests, r \in Busy, NEW t, NEW l, t = request[r].todo, l = request[r].loc,
           NEW u, NEW m, Moved(r, u, m), tally' = tally, UNCHANGED <<users, userIndex, sessions, userSessions>>,
           chatPast'.made = chatPast.made, chatPast'.in = chatPast.in,
           t[1].do \in {"userSetExt", "userList"} => u # <<>> /\ u[1].do \in {"userSetExt", "userList"} /\ m.user = l.user,
           Adding(t) => Adding(u) /\ m.episode = l.episode /\ m.session = l.session,
           t[1].do # "sessionList",
           ~tally.overlapped /\ FitsHome(t, l) => FitsHome(u, m)
    PROVE  HomeInv'
<1> SUFFICES ASSUME ~tally.overlapped
             PROVE  HomeGood'
  BY DEF HomeInv
<1>1. HomeStored /\ FitsHome(t, l) /\ \A q \in Busy : q = r
  BY DEF HomeInv, HomeGood, ChatShape, OneBusy
<1>2. OnePlace' /\ FewStray'
  BY <1>1, UsersStay
<1>3. Tallied' /\ AllListed'
  BY <1>1, SessionsStay
<1>4. FitsHome(u, m)'
  BY <1>1 DEF FitsHome, Makes
<1>5. HomeStored'
  BY <1>2, <1>3 DEF HomeStored
<1> QED BY <1>1, <1>4, <1>5, HomeMoves

(* It stops, or goes on with what knows nothing of what is stored. *)
LEMMA HomeFree ==
    ASSUME ChatShape, HomeInv, NEW r \in Requests, r \in Busy, NEW t, t = request[r].todo,
           NEW u, NEW m, Moved(r, u, m), tally' = tally, UNCHANGED <<users, userIndex, sessions, userSessions>>,
           chatPast'.made = chatPast.made, chatPast'.in = chatPast.in,
           t[1].do \notin {"userSetExt", "userList", "sessionList", "episodeList", "episodeQueue", "countRead", "sessionPut"},
           u # <<>> => u[1].do \notin {"sessionPut", "userSet", "userSetExt", "userList", "userDelExt", "userUnlist",
                                       "sessionUnlist", "sessionList"}
    PROVE  HomeInv'
<1>1. FitsHome(u, m) /\ ~Adding(t)
  BY DEF FitsHome, Makes, Adding
<1>2. PICK l : l = request[r].loc
  OBVIOUS
<1> QED BY <1>1, <1>2, HomeStep

(* It goes on with its next command. *)
LEMMA HomeGoesOn ==
    ASSUME ChatShape, HomeInv, NEW r \in Requests, r \in Busy, NEW t, NEW l, t = request[r].todo, l = request[r].loc,
           t # <<>>, NEW m, Moved(r, Tail(t), m), tally' = tally, UNCHANGED <<users, userIndex, sessions, userSessions>>,
           chatPast'.made = chatPast.made, chatPast'.in = chatPast.in,
           t[1].do \notin {"userSet", "userList", "userDel", "sessionSet", "sessionList", "sessionPut", "sessionDel", "episodeSet"},
           t[1].do \in {"userSetExt", "userDelExt", "episodeList", "episodeQueue"} => m = l,
           t[1].do = "countRead" => m.episode = l.episode /\ m.session = l.session,
           t[1].do \in {"sessionRead", "countRead"} => m.copy = sessions[m.session]
    PROVE  HomeInv'
<1>1. PICK u, do : u = Tail(t) /\ do = t[1].do
  OBVIOUS
<1>2. ChatInPlace(t, l)
  BY DEF ChatShape
<1>3. /\ t[1] \in ChatCommand
      /\ u = <<>> => t[1].do \in ChatEnds
      /\ u # <<>> => ChatFollows(t[1], u[1]) /\ ChatSuits(u[1]) /\ u[1] \in ChatCommand
  BY <1>1, <1>2, ChatTail
<1>4. do \in {"userSetExt", "userList"} => u # <<>> /\ u[1].do = "userList" /\ u[1].id = t[1].id /\ m = l
  BY <1>1, <1>3 DEF ChatFollows, ChatEnds
<1>5. Adding(t) => do \in {"episodeList", "episodeQueue", "countRead"}
  BY <1>1 DEF Adding
<1>6. do = "countRead" => u # <<>> /\ u[1].do = "sessionPut" /\ u[1].how = "count"
  BY <1>1, <1>3 DEF ChatFollows, ChatEnds
<1>7. do = "episodeList" => u # <<>> /\ u[1].do = "episodeQueue"
  BY <1>1, <1>3 DEF ChatFollows, ChatEnds
<1>8. do = "episodeQueue" => u # <<>> /\ u[1].do = "countRead"
  BY <1>1, <1>3 DEF ChatFollows, ChatEnds
<1>9. Adding(t) => Adding(u) /\ m.episode = l.episode /\ m.session = l.session
  BY <1>1, <1>5, <1>6, <1>7, <1>8 DEF Adding
<1>10. ASSUME FitsHome(t, l), u # <<>>
       PROVE  FitsHome(u, m)
  <2>1. do \in ChatDo
    BY <1>1, <1>3 DEF ChatCommand
  <2>2. u[1].do = "sessionPut" => m.copy = sessions[m.session]
    BY <1>1, <1>3, <1>10, <2>1 DEF ChatFollows, ChatDo, UserDo, SessionDo, KnownDo
  <2>3. u[1].do \notin {"userSet", "userSetExt"}
    BY <1>1, <1>3, <1>10, <2>1 DEF ChatFollows, ChatDo, UserDo, SessionDo, KnownDo
  <2>4. u[1].do = "userList" => do = "userSetExt"
    BY <1>1, <1>3, <1>10, <2>1 DEF ChatFollows, ChatDo, UserDo, SessionDo, KnownDo
  <2>5. u[1].do \in {"userDelExt", "userUnlist"} => do = "userDelExt"
    BY <1>1, <1>3, <1>10, <2>1 DEF ChatFollows, ChatDo, UserDo, SessionDo, KnownDo
  <2>6. u[1].do \notin {"sessionUnlist", "sessionList"}
    BY <1>1, <1>3, <1>10, <2>1 DEF ChatFollows, ChatDo, UserDo, SessionDo, KnownDo
  <2>7. u[1].do = "userList" => /\ users[m.user] = u[1].id
                                /\ m.user \in chatPast.made => \A v \in chatPast.made \cap userIndex : users[v] # u[1].id
    BY <1>1, <1>4, <1>10, <2>4 DEF FitsHome, Makes
  <2>8. u[1].do \in {"userDelExt", "userUnlist"} => users[m.user] = NoUser
    BY <1>1, <1>10, <2>5 DEF FitsHome
  <2> QED BY <2>2, <2>3, <2>6, <2>7, <2>8 DEF FitsHome, Makes
<1>11. u = <<>> => FitsHome(u, m)
  BY DEF FitsHome
<1>12. t[1].do \in {"userSetExt", "userList"} => u # <<>> /\ u[1].do \in {"userSetExt", "userList"} /\ m.user = l.user
  BY <1>1, <1>4
<1> QED BY <1>1, <1>9, <1>10, <1>11, <1>12, HomeStep

(* The commands that change neither users nor sessions. *)
LEMMA UserSetExtHome ==
    ASSUME ChatShape, HomeInv, NEW r \in Requests, UserSetExt(r)
    PROVE  HomeInv'
<1>1. PICK t, l : t = request[r].todo /\ l = request[r].loc
  OBVIOUS
<1>2. At(r, "userSetExt") /\ Done(r) /\ UNCHANGED <<users, userIndex, sessions, userSessions>>
  BY DEF UserSetExt, userVars, sessionVars
<1>3. chatPast'.in = chatPast.in /\ chatPast'.made = chatPast.made
  BY DEF UserSetExt, ChatShape, ChatTyped
<1>4. t # <<>> /\ t[1].do = "userSetExt" /\ Moved(r, Tail(t), l) /\ tally' = tally /\ r \in Busy
  BY <1>1, <1>2, ChatAt
<1> QED BY <1>1, <1>2, <1>3, <1>4, HomeGoesOn

LEMMA UserDelExtHome ==
    ASSUME ChatShape, HomeInv, NEW r \in Requests, UserDelExt(r)
    PROVE  HomeInv'
<1>1. PICK t, l : t = request[r].todo /\ l = request[r].loc
  OBVIOUS
<1>2. At(r, "userDelExt") /\ Done(r) /\ UNCHANGED <<users, userIndex, sessions, userSessions>>
  BY DEF UserDelExt, userVars, sessionVars
<1>3. chatPast'.in = chatPast.in /\ chatPast'.made = chatPast.made
  BY DEF UserDelExt, ChatShape, ChatTyped
<1>4. t # <<>> /\ t[1].do = "userDelExt" /\ Moved(r, Tail(t), l) /\ tally' = tally /\ r \in Busy
  BY <1>1, <1>2, ChatAt
<1> QED BY <1>1, <1>2, <1>3, <1>4, HomeGoesOn

LEMMA EpisodeListHome ==
    ASSUME ChatShape, HomeInv, NEW r \in Requests, EpisodeList(r)
    PROVE  HomeInv'
<1>1. PICK t, l : t = request[r].todo /\ l = request[r].loc
  OBVIOUS
<1>2. At(r, "episodeList") /\ Done(r) /\ UNCHANGED <<users, userIndex, sessions, userSessions>>
  BY DEF EpisodeList, userVars, sessionVars
<1>3. chatPast'.in = chatPast.in /\ chatPast'.made = chatPast.made
  BY DEF EpisodeList, ChatShape, ChatTyped
<1>4. t # <<>> /\ t[1].do = "episodeList" /\ Moved(r, Tail(t), l) /\ tally' = tally /\ r \in Busy
  BY <1>1, <1>2, ChatAt
<1> QED BY <1>1, <1>2, <1>3, <1>4, HomeGoesOn

LEMMA EpisodeQueueHome ==
    ASSUME ChatShape, HomeInv, NEW r \in Requests, EpisodeQueue(r)
    PROVE  HomeInv'
<1>1. PICK t, l : t = request[r].todo /\ l = request[r].loc
  OBVIOUS
<1>2. At(r, "episodeQueue") /\ Done(r) /\ UNCHANGED <<users, userIndex, sessions, userSessions>>
  BY DEF EpisodeQueue, userVars, sessionVars
<1>3. chatPast'.in = chatPast.in /\ chatPast'.made = chatPast.made
  BY DEF EpisodeQueue, ChatShape, ChatTyped
<1>4. t # <<>> /\ t[1].do = "episodeQueue" /\ Moved(r, Tail(t), l) /\ tally' = tally /\ r \in Busy
  BY <1>1, <1>2, ChatAt
<1> QED BY <1>1, <1>2, <1>3, <1>4, HomeGoesOn

LEMMA EpisodeUnlistHome ==
    ASSUME ChatShape, HomeInv, NEW r \in Requests, EpisodeUnlist(r)
    PROVE  HomeInv'
<1>1. PICK t, l : t = request[r].todo /\ l = request[r].loc
  OBVIOUS
<1>2. At(r, "episodeUnlist") /\ Done(r) /\ UNCHANGED <<users, userIndex, sessions, userSessions>>
  BY DEF EpisodeUnlist, userVars, sessionVars
<1>3. chatPast'.in = chatPast.in /\ chatPast'.made = chatPast.made
  BY DEF EpisodeUnlist, ChatShape, ChatTyped
<1>4. t # <<>> /\ t[1].do = "episodeUnlist" /\ Moved(r, Tail(t), l) /\ tally' = tally /\ r \in Busy
  BY <1>1, <1>2, ChatAt
<1> QED BY <1>1, <1>2, <1>3, <1>4, HomeGoesOn

LEMMA EpisodeUnqueueHome ==
    ASSUME ChatShape, HomeInv, NEW r \in Requests, EpisodeUnqueue(r)
    PROVE  HomeInv'
<1>1. PICK t, l : t = request[r].todo /\ l = request[r].loc
  OBVIOUS
<1>2. At(r, "episodeUnqueue") /\ Done(r) /\ UNCHANGED <<users, userIndex, sessions, userSessions>>
  BY DEF EpisodeUnqueue, userVars, sessionVars
<1>3. chatPast'.in = chatPast.in /\ chatPast'.made = chatPast.made
  BY DEF EpisodeUnqueue, ChatShape, ChatTyped
<1>4. t # <<>> /\ t[1].do = "episodeUnqueue" /\ Moved(r, Tail(t), l) /\ tally' = tally /\ r \in Busy
  BY <1>1, <1>2, ChatAt
<1> QED BY <1>1, <1>2, <1>3, <1>4, HomeGoesOn

LEMMA EpisodeEraseHome ==
    ASSUME ChatShape, HomeInv, NEW r \in Requests, EpisodeErase(r)
    PROVE  HomeInv'
<1>1. PICK t, l : t = request[r].todo /\ l = request[r].loc
  OBVIOUS
<1>2. At(r, "episodeErase") /\ Done(r) /\ UNCHANGED <<users, userIndex, sessions, userSessions>>
  BY DEF EpisodeErase, userVars, sessionVars
<1>3. chatPast'.in = chatPast.in /\ chatPast'.made = chatPast.made
  BY DEF EpisodeErase, ChatShape, ChatTyped
<1>4. t # <<>> /\ t[1].do = "episodeErase" /\ Moved(r, Tail(t), l) /\ tally' = tally /\ r \in Busy
  BY <1>1, <1>2, ChatAt
<1> QED BY <1>1, <1>2, <1>3, <1>4, HomeGoesOn

LEMMA ClearIndexHome ==
    ASSUME ChatShape, HomeInv, NEW r \in Requests, ClearIndex(r)
    PROVE  HomeInv'
<1>1. PICK t, l : t = request[r].todo /\ l = request[r].loc
  OBVIOUS
<1>2. At(r, "clearIndex") /\ Done(r) /\ UNCHANGED <<users, userIndex, sessions, userSessions>>
  BY DEF ClearIndex, userVars, sessionVars
<1>3. chatPast'.in = chatPast.in /\ chatPast'.made = chatPast.made
  BY DEF ClearIndex, ChatShape, ChatTyped
<1>4. t # <<>> /\ t[1].do = "clearIndex" /\ Moved(r, Tail(t), l) /\ tally' = tally /\ r \in Busy
  BY <1>1, <1>2, ChatAt
<1> QED BY <1>1, <1>2, <1>3, <1>4, HomeGoesOn

LEMMA CompleteHome ==
    ASSUME ChatShape, HomeInv, NEW r \in Requests, Complete(r)
    PROVE  HomeInv'
<1>1. PICK t, l : t = request[r].todo /\ l = request[r].loc
  OBVIOUS
<1>2. At(r, "complete") /\ Done(r) /\ UNCHANGED <<users, userIndex, sessions, userSessions>>
  BY DEF Complete, userVars, sessionVars
<1>3. chatPast'.in = chatPast.in /\ chatPast'.made = chatPast.made
  BY DEF Complete, ChatShape, ChatTyped
<1>4. t # <<>> /\ t[1].do = "complete" /\ Moved(r, Tail(t), l) /\ tally' = tally /\ r \in Busy
  BY <1>1, <1>2, ChatAt
<1> QED BY <1>1, <1>2, <1>3, <1>4, HomeGoesOn

(* What is looked for, and what is read. *)
LEMMA UserNeedHome ==
    ASSUME ChatShape, HomeInv, NEW r \in Requests, UserNeed(r)
    PROVE  HomeInv'
<1>1. PICK t, l : t = request[r].todo /\ l = request[r].loc
  OBVIOUS
<1>2. PICK m : m = [l EXCEPT !.found = {users[l.user]}]
  OBVIOUS
<1>3. At(r, "userNeed") /\ chatPast' = chatPast /\ UNCHANGED <<users, userIndex, sessions, userSessions>>
  BY DEF UserNeed, chatVars, userVars, sessionVars
<1>4. /\ Loc(r) = l /\ This(r) = t[1] /\ t # <<>> /\ t[1].do = "userNeed" /\ l \in ChatLocal /\ r \in Busy
      /\ Sent(r, m) => Moved(r, Tail(t), m) /\ tally' = tally
      /\ Refuse(r) => Moved(r, <<>>, l) /\ tally' = tally
  BY <1>1, <1>3, ChatAt
<1>5. Refuse(r) \/ Sent(r, m)
  BY <1>2, <1>4 DEF UserNeed
<1>6. CASE Refuse(r)
  BY <1>1, <1>3, <1>4, <1>6, HomeFree
<1>7. CASE Sent(r, m)
  BY <1>1, <1>3, <1>4, <1>7, HomeGoesOn
<1> QED BY <1>5, <1>6, <1>7

LEMMA EpisodeNeedHome ==
    ASSUME ChatShape, HomeInv, NEW r \in Requests, EpisodeNeed(r)
    PROVE  HomeInv'
<1>1. PICK t, l : t = request[r].todo /\ l = request[r].loc
  OBVIOUS
<1>2. PICK m : m = [l EXCEPT !.session = episodes[t[1].id].session]
  OBVIOUS
<1>3. At(r, "episodeNeed") /\ chatPast' = chatPast /\ UNCHANGED <<users, userIndex, sessions, userSessions>>
  BY DEF EpisodeNeed, chatVars, userVars, sessionVars
<1>4. /\ Loc(r) = l /\ This(r) = t[1] /\ t # <<>> /\ t[1].do = "episodeNeed" /\ l \in ChatLocal /\ r \in Busy
      /\ Sent(r, m) => Moved(r, Tail(t), m) /\ tally' = tally
      /\ Refuse(r) => Moved(r, <<>>, l) /\ tally' = tally
  BY <1>1, <1>3, ChatAt
<1>5. Refuse(r) \/ Sent(r, m)
  BY <1>2, <1>4 DEF EpisodeNeed
<1>6. CASE Refuse(r)
  BY <1>1, <1>3, <1>4, <1>6, HomeFree
<1>7. CASE Sent(r, m)
  BY <1>1, <1>3, <1>4, <1>7, HomeGoesOn
<1> QED BY <1>5, <1>6, <1>7

LEMMA SessionReadHome ==
    ASSUME ChatShape, HomeInv, NEW r \in Requests, SessionRead(r)
    PROVE  HomeInv'
<1>1. PICK t, l : t = request[r].todo /\ l = request[r].loc
  OBVIOUS
<1>2. PICK m : m = [l EXCEPT !.copy = sessions[l.session]]
  OBVIOUS
<1>3. At(r, "sessionRead") /\ chatPast' = chatPast /\ UNCHANGED <<users, userIndex, sessions, userSessions>>
  BY DEF SessionRead, chatVars, userVars, sessionVars
<1>4. /\ Loc(r) = l /\ This(r) = t[1] /\ t # <<>> /\ t[1].do = "sessionRead" /\ l \in ChatLocal /\ r \in Busy
      /\ Sent(r, m) => Moved(r, Tail(t), m) /\ tally' = tally
      /\ Refuse(r) => Moved(r, <<>>, l) /\ tally' = tally
  BY <1>1, <1>3, ChatAt
<1>5. Refuse(r) \/ Sent(r, m)
  BY <1>2, <1>4 DEF SessionRead
<1>6. CASE Refuse(r)
  BY <1>1, <1>3, <1>4, <1>6, HomeFree
<1>7. CASE Sent(r, m)
  <2>1. m.copy = sessions[m.session]
    BY <1>2, <1>4 DEF ChatLocal
  <2> QED BY <1>1, <1>3, <1>4, <1>7, <2>1, HomeGoesOn
<1> QED BY <1>5, <1>6, <1>7

LEMMA SummaryDueHome ==
    ASSUME ChatShape, HomeInv, NEW r \in Requests, SummaryDue(r) \/ Inflight(r)
    PROVE  HomeInv'
<1>1. PICK t, l : t = request[r].todo /\ l = request[r].loc
  OBVIOUS
<1>2. PICK do \in {"summaryDue", "inflight"} : At(r, do)
  BY DEF SummaryDue, Inflight
<1>3. chatPast' = chatPast /\ UNCHANGED <<users, userIndex, sessions, userSessions>> /\ (Done(r) \/ Refuse(r))
  BY DEF SummaryDue, Inflight, chatVars, userVars, sessionVars
<1>4. /\ t # <<>> /\ t[1].do = do /\ r \in Busy
      /\ Done(r) => Moved(r, Tail(t), l) /\ tally' = tally
      /\ Refuse(r) => Moved(r, <<>>, l) /\ tally' = tally
  BY <1>1, <1>2, ChatAt
<1>5. CASE Refuse(r)
  BY <1>1, <1>2, <1>3, <1>4, <1>5, HomeFree
<1>6. CASE Done(r)
  BY <1>1, <1>2, <1>3, <1>4, <1>6, HomeGoesOn
<1> QED BY <1>3, <1>5, <1>6

LEMMA ClearRangeHome ==
    ASSUME ChatShape, HomeInv, NEW r \in Requests, ClearRange(r)
    PROVE  HomeInv'
<1>1. PICK t, l : t = request[r].todo /\ l = request[r].loc
  OBVIOUS
<1>2. At(r, "clearRange") /\ chatPast' = chatPast /\ UNCHANGED <<users, userIndex, sessions, userSessions>>
  BY DEF ClearRange, chatVars, userVars, sessionVars
<1>3. t[1].do = "clearRange" /\ r \in Busy
  BY <1>1, <1>2, ChatAt
<1>4. PICK u : /\ Moved(r, u, Loc(r)) /\ tally' = tally /\ u # <<>>
               /\ u[1].do \in {"episodeErase", "episodeUnqueue", "clearIndex"}
  BY ClearRangeShape
<1> QED BY <1>1, <1>2, <1>3, <1>4, HomeFree

LEMMA WorkHome ==
    ASSUME ChatShape, HomeInv, NEW r \in Requests, Work(r)
    PROVE  HomeInv'
<1>1. PICK t, l : t = request[r].todo /\ l = request[r].loc
  OBVIOUS
<1>2. At(r, "work") /\ chatPast' = chatPast /\ UNCHANGED <<users, userIndex, sessions, userSessions>>
  BY DEF Work, userVars, sessionVars
<1>3. /\ t # <<>> /\ t[1].do = "work" /\ r \in Busy
      /\ \A m : Sent(r, m) => Moved(r, Tail(t), m) /\ tally' = tally
      /\ Refuse(r) => Moved(r, <<>>, l) /\ tally' = tally
  BY <1>1, <1>2, ChatAt
<1>4. (\E m : Sent(r, m)) \/ Refuse(r)
  BY DEF Work
<1>5. ASSUME NEW m, Sent(r, m)
      PROVE  HomeInv'
  <2>1. Moved(r, Tail(t), m) /\ tally' = tally
    BY <1>3, <1>5
  <2> QED BY <1>1, <1>2, <1>3, <2>1, HomeGoesOn
<1>6. CASE Refuse(r)
  BY <1>1, <1>2, <1>3, <1>6, HomeFree
<1> QED BY <1>4, <1>5, <1>6

LEMMA FindSessionHome ==
    ASSUME ChatShape, HomeInv, NEW r \in Requests, FindSession(r)
    PROVE  HomeInv'
<1>1. PICK t, l : t = request[r].todo /\ l = request[r].loc
  OBVIOUS
<1>2. At(r, "findSession") /\ chatPast' = chatPast /\ UNCHANGED <<users, userIndex, sessions, userSessions>>
  BY DEF FindSession, chatVars, userVars, sessionVars
<1>3. /\ t # <<>> /\ t[1].do = "findSession" /\ r \in Busy
      /\ \A m : Sent(r, m) => Moved(r, Tail(t), m) /\ tally' = tally
  BY <1>1, <1>2, ChatAt
<1>4. (\E m : Sent(r, m)) \/ Insert(r, create_session(This(r).id), Loc(r))
  BY DEF FindSession
<1>5. ASSUME NEW m, Sent(r, m)
      PROVE  HomeInv'
  <2>1. Moved(r, Tail(t), m) /\ tally' = tally
    BY <1>3, <1>5
  <2> QED BY <1>1, <1>2, <1>3, <2>1, HomeGoesOn
<1>6. CASE Insert(r, create_session(This(r).id), Loc(r))
  <2>1. PICK u : Moved(r, u, request[r].loc) /\ u # <<>> /\ u[1].do = "userNeed"
    BY <1>2, <1>6, InsertsSession
  <2>2. tally' = tally
    BY <1>6 DEF Insert
  <2> QED BY <1>1, <1>2, <1>3, <2>1, <2>2, HomeFree
<1> QED BY <1>4, <1>5, <1>6

(* A user is created for an episode to remember only where none is listed. *)
LEMMA FindUserHome ==
    ASSUME ChatShape, HomeInv, NEW r \in Requests, FindUser(r)
    PROVE  HomeInv'
<1>1. PICK t, l : t = request[r].todo /\ l = request[r].loc
  OBVIOUS
<1>2. At(r, "findUser") /\ chatPast' = chatPast /\ UNCHANGED <<users, userIndex, sessions, userSessions>>
  BY DEF FindUser, chatVars, userVars, sessionVars
<1>3. /\ t # <<>> /\ t[1].do = "findUser" /\ r \in Busy
      /\ \A m : Sent(r, m) => Moved(r, Tail(t), m) /\ tally' = tally
  BY <1>1, <1>2, ChatAt
<1>4. \/ \E m : Sent(r, m)
      \/ {u \in userIndex : users[u] = This(r).id} = {} /\ Insert(r, create_user(This(r).id), Loc(r))
  BY DEF FindUser
<1>5. ASSUME NEW m, Sent(r, m)
      PROVE  HomeInv'
  <2>1. Moved(r, Tail(t), m) /\ tally' = tally
    BY <1>3, <1>5
  <2> QED BY <1>1, <1>2, <1>3, <2>1, HomeGoesOn
<1>6. CASE {u \in userIndex : users[u] = This(r).id} = {} /\ Insert(r, create_user(This(r).id), Loc(r))
  <2>1. PICK u : Moved(r, u, request[r].loc) /\ u # <<>> /\ u[1].do = "userSet" /\ u[1].id = This(r).id
    BY <1>2, <1>6, InsertsUser
  <2>2. tally' = tally
    BY <1>6 DEF Insert
  <2>3. FitsHome(u, l)
    BY <1>6, <2>1 DEF FitsHome, Makes
  <2>4. ~Adding(t)
    BY <1>3 DEF Adding
  <2> QED BY <1>1, <1>2, <1>3, <2>1, <2>2, <2>3, <2>4, HomeStep
<1> QED BY <1>4, <1>5, <1>6

(* What the only request may rely on. *)
LEMMA OnlyRequest ==
    ASSUME ChatShape, HomeInv, ~tally.overlapped, NEW r \in Requests, r \in Busy
    PROVE  HomeStored /\ FitsHome(request[r].todo, request[r].loc) /\ \A q \in Busy : q = r
BY DEF HomeInv, HomeGood, ChatShape, OneBusy

(* It has moved, and the others have not. *)
LEMMA OthersStand ==
    ASSUME NEW r \in Requests, NEW u, NEW m, Moved(r, u, m)
    PROVE  /\ request'[r].todo = u /\ (u # <<>> => request'[r].loc = m)
           /\ \A q \in Requests : q # r => \A v, s : (Hand(q, v)' <=> Hand(q, v)) /\ (Lists(q, s)' <=> Lists(q, s))
           /\ \A v : Hand(r, v)' <=> u # <<>> /\ u[1].do \in {"userSetExt", "userList"} /\ m.user = v
           /\ \A s : Lists(r, s)' <=> u # <<>> /\ u[1].do = "sessionList" /\ m.session = s
<1>1. /\ request'[r] = IF u = <<>> THEN Idle ELSE [todo |-> u, loc |-> m]
      /\ request'[r].todo = u /\ \A q \in Requests : q # r => request'[q] = request[q]
  BY BusyThen
<1>2. u # <<>> => request'[r].loc = m
  BY <1>1
<1>3. \A q \in Requests : q # r => \A v, s : (Hand(q, v)' <=> Hand(q, v)) /\ (Lists(q, s)' <=> Lists(q, s))
  BY <1>1 DEF Hand, Lists
<1>4. \A v : Hand(r, v)' <=> u # <<>> /\ u[1].do \in {"userSetExt", "userList"} /\ m.user = v
  BY <1>1, <1>2 DEF Hand
<1>5. \A s : Lists(r, s)' <=> u # <<>> /\ u[1].do = "sessionList" /\ m.session = s
  BY <1>1, <1>2 DEF Lists
<1> QED BY <1>1, <1>2, <1>3, <1>4, <1>5

(* The users that nobody lists are no more than before. *)
LEMMA StraysStay ==
    ASSUME ChatShape, HomeStored, tally'.faults = tally.faults, \A p \in People : Stray(p)' \subseteq Stray(p)
    PROVE  FewStray'
<1> SUFFICES ASSUME NEW p \in People
             PROVE  IsFiniteSet(Stray(p)') /\ Cardinality(Stray(p)') <= tally.faults
  BY DEF FewStray
<1>1. IsFiniteSet(Stray(p)) /\ Cardinality(Stray(p)) <= tally.faults /\ tally.faults \in Nat
  BY DEF HomeStored, FewStray, ChatShape, Tallies
<1> QED BY <1>1, NoLarger

(* A user is created. *)
LEMMA UserSetHome ==
    ASSUME ChatShape, HomeInv, NEW r \in Requests, UserSet(r)
    PROVE  HomeInv'
<1>1. PICK t, l, v : t = request[r].todo /\ l = request[r].loc /\ v = Fresh(UserIds, chatPast.users)
  OBVIOUS
<1>2. At(r, "userSet") /\ v \in UserIds /\ v \notin chatPast.users
  <2>1. UserIds \subseteq Nat \ {0}
    BY ConversationAssumption
  <2>2. At(r, "userSet") /\ UserIds \ chatPast.users # {}
    BY DEF UserSet
  <2> QED BY <1>1, <2>1, <2>2, FreshIs
<1>3. PICK m, y : m = [l EXCEPT !.user = v] /\ y = Tail(t)
  OBVIOUS
<1>4. /\ t # <<>> /\ t[1].do = "userSet" /\ l \in ChatLocal /\ ChatTyped /\ r \in Busy
      /\ (Sent(r, m) => Moved(r, y, m) /\ tally' = tally) /\ This(r) = t[1] /\ Loc(r) = l /\ Rest(r) = y
      /\ y # <<>> /\ ChatFollows(t[1], y[1])
  BY <1>1, <1>2, <1>3, ChatAt, SMTT(30) DEF ChatEnds
<1>5. Moved(r, y, m) /\ tally' = tally /\ m.user = v /\ y[1].do = "userSetExt" /\ y[1].id = t[1].id
  BY <1>1, <1>3, <1>4 DEF UserSet, ChatFollows, ChatLocal
<1>6. /\ users' = [users EXCEPT ![v] = t[1].id]
      /\ chatPast'.made = IF Len(y) > 2 THEN chatPast.made \cup {v} ELSE chatPast.made
      /\ chatPast'.in = chatPast.in
      /\ UNCHANGED <<userIndex, sessions, userSessions>>
  BY <1>1, <1>4 DEF UserSet, ChatTyped, sessionVars
<1>7. v \notin userIndex /\ v \notin chatPast.made /\ users \in [UserIds -> People \cup {NoUser}]
  BY <1>2, <1>4 DEF ChatTyped
<1> SUFFICES ASSUME ~tally.overlapped
             PROVE  HomeGood'
  BY <1>5 DEF HomeInv
<1>8. HomeStored /\ FitsHome(t, l) /\ \A q \in Busy : q = r
  BY <1>1, <1>4, OnlyRequest
<1>9. chatPast.made \cap userIndex = chatPast'.made \cap userIndex'
  BY <1>6, <1>7
<1>10. \A x : x # v => users'[x] = users[x]
  BY <1>6, <1>7
<1>11. users'[v] = t[1].id
  BY <1>2, <1>6, <1>7
<1>12. OnePlace'
  BY <1>7, <1>8, <1>9, <1>10 DEF HomeStored, OnePlace
<1>13. FewStray'
  <2>1. ASSUME NEW p \in People, NEW x \in Stray(p)'
        PROVE  x \in Stray(p)
    <3>1. x # v
      BY <1>4, <1>5, OthersStand DEF Stray
    <3>2. x \in chatPast.made \ userIndex /\ users[x] = p
      BY <1>6, <1>10, <3>1 DEF Stray
    <3>3. \A q \in Requests : q # r => ~Hand(q, x)
      BY <1>5, OthersStand DEF Stray
    <3>4. ~Hand(r, x)
      BY <1>1, <1>4 DEF Hand
    <3> QED BY <3>2, <3>3, <3>4 DEF Stray
  <2> QED BY <1>5, <1>8, <2>1, StraysStay
<1>14. Tallied' /\ AllListed'
  BY <1>1, <1>4, <1>5, <1>6, <1>8, SessionsStay DEF Adding
<1>15. FitsHome(y, m)'
  <2>1. Makes(y, m)' => Makes(t, l)
    BY <1>3, <1>4, <1>5, <1>6, <1>7 DEF Makes
  <2>2. Makes(t, l) => \A x \in chatPast.made \cap userIndex : users[x] # t[1].id
    BY <1>4, <1>8 DEF FitsHome
  <2>3. Makes(y, m)' => \A x \in chatPast'.made \cap userIndex' : users'[x] # y[1].id
    BY <1>5, <1>7, <1>9, <1>10, <2>1, <2>2
  <2> QED BY <1>4, <1>5, <1>11, <2>3 DEF FitsHome
<1> QED BY <1>5, <1>8, <1>12, <1>13, <1>14, <1>15, HomeMoves DEF HomeStored

(* A user is listed. *)
LEMMA UserListHome ==
    ASSUME ChatShape, HomeInv, NEW r \in Requests, UserList(r)
    PROVE  HomeInv'
<1>1. PICK t, l, y : t = request[r].todo /\ l = request[r].loc /\ y = Tail(t)
  OBVIOUS
<1>2. At(r, "userList") /\ Done(r)
  BY DEF UserList
<1>3. /\ t # <<>> /\ t[1].do = "userList" /\ r \in Busy /\ Moved(r, y, l) /\ tally' = tally /\ Loc(r) = l
      /\ y # <<>> => ChatFollows(t[1], y[1])
  BY <1>1, <1>2, ChatAt
<1>4. userIndex' = userIndex \cup {l.user} /\ UNCHANGED <<users, sessions, userSessions, chatPast>>
  BY <1>3 DEF UserList, sessionVars
<1> SUFFICES ASSUME ~tally.overlapped
             PROVE  HomeGood'
  BY <1>3 DEF HomeInv
<1>5. HomeStored /\ FitsHome(t, l) /\ \A q \in Busy : q = r
  BY <1>1, <1>3, OnlyRequest
<1>6. /\ users[l.user] = t[1].id
      /\ l.user \in chatPast.made => \A x \in chatPast.made \cap userIndex : users[x] # t[1].id
  BY <1>3, <1>5 DEF FitsHome, Makes
<1>7. OnePlace'
  <2> SUFFICES ASSUME NEW a \in chatPast.made \cap userIndex', NEW b \in chatPast.made \cap userIndex',
                      users[a] = users[b], users[a] # NoUser
               PROVE  a = b
    BY <1>4 DEF OnePlace
  <2> QED BY <1>4, <1>5, <1>6 DEF HomeStored, OnePlace
<1>8. FewStray'
  <2>1. ASSUME NEW p \in People, NEW x \in Stray(p)'
        PROVE  x \in Stray(p)
    <3>1. x \in chatPast.made \ userIndex /\ users[x] = p /\ x # l.user
      BY <1>4 DEF Stray
    <3>2. \A q \in Requests : q # r => ~Hand(q, x)
      BY <1>3, OthersStand DEF Stray
    <3>3. ~Hand(r, x)
      BY <1>1, <3>1 DEF Hand
    <3> QED BY <3>1, <3>2, <3>3 DEF Stray
  <2> QED BY <1>3, <1>5, <2>1, StraysStay
<1>9. Tallied' /\ AllListed'
  BY <1>1, <1>3, <1>4, <1>5, SessionsStay DEF Adding
<1>10. FitsHome(y, l)'
  BY <1>3 DEF FitsHome, Makes, ChatFollows
<1> QED BY <1>3, <1>5, <1>7, <1>8, <1>9, <1>10, HomeMoves DEF HomeStored

(* A user is deleted. *)
LEMMA UserDelHome ==
    ASSUME ChatShape, HomeInv, NEW r \in Requests, UserDel(r)
    PROVE  HomeInv'
<1>1. PICK t, l, y : t = request[r].todo /\ l = request[r].loc /\ y = Tail(t)
  OBVIOUS
<1>2. At(r, "userDel") /\ Done(r)
  BY DEF UserDel
<1>3. /\ t # <<>> /\ t[1].do = "userDel" /\ r \in Busy /\ Moved(r, y, l) /\ tally' = tally /\ Loc(r) = l /\ ChatTyped
      /\ y # <<>> => ChatFollows(t[1], y[1])
      /\ l.user \in UserIds
  BY <1>1, <1>2, ChatAt DEF UserDo
<1>4. users' = [users EXCEPT ![l.user] = NoUser] /\ UNCHANGED <<userIndex, sessions, userSessions, chatPast>>
  BY <1>3 DEF UserDel, sessionVars
<1> SUFFICES ASSUME ~tally.overlapped
             PROVE  HomeGood'
  BY <1>3 DEF HomeInv
<1>5. HomeStored /\ FitsHome(t, l) /\ \A q \in Busy : q = r
  BY <1>1, <1>3, OnlyRequest
<1>6. users'[l.user] = NoUser /\ \A x : x # l.user => users'[x] = users[x]
  BY <1>3, <1>4 DEF ChatTyped
<1>7. OnePlace'
  BY <1>4, <1>5, <1>6 DEF HomeStored, OnePlace
<1>8. FewStray'
  <2>1. ASSUME NEW p \in People, NEW x \in Stray(p)'
        PROVE  x \in Stray(p)
    <3>1. p # NoUser
      BY ConversationAssumption DEF NoUser
    <3>2. x \in chatPast.made \ userIndex /\ users[x] = p
      BY <1>4, <1>6, <3>1 DEF Stray
    <3>3. \A q \in Requests : q # r => ~Hand(q, x)
      BY <1>3, OthersStand DEF Stray
    <3>4. ~Hand(r, x)
      BY <1>1, <1>3 DEF Hand
    <3> QED BY <3>2, <3>3, <3>4 DEF Stray
  <2> QED BY <1>3, <1>5, <2>1, StraysStay
<1>9. Tallied' /\ AllListed'
  BY <1>1, <1>3, <1>4, <1>5, SessionsStay DEF Adding
<1>10. FitsHome(y, l)'
  BY <1>3, <1>6 DEF FitsHome, Makes, ChatFollows
<1> QED BY <1>3, <1>5, <1>7, <1>8, <1>9, <1>10, HomeMoves DEF HomeStored

LEMMA UserUnlistHome ==
    ASSUME ChatShape, HomeInv, NEW r \in Requests, UserUnlist(r)
    PROVE  HomeInv'
<1>1. PICK t, l, y : t = request[r].todo /\ l = request[r].loc /\ y = Tail(t)
  OBVIOUS
<1>2. At(r, "userUnlist") /\ Done(r)
  BY DEF UserUnlist
<1>3. /\ t # <<>> /\ t[1].do = "userUnlist" /\ r \in Busy /\ Moved(r, y, l) /\ tally' = tally /\ Loc(r) = l
      /\ y # <<>> => ChatFollows(t[1], y[1])
  BY <1>1, <1>2, ChatAt
<1>4. userIndex' = userIndex \ {l.user} /\ UNCHANGED <<users, sessions, userSessions, chatPast>>
  BY <1>3 DEF UserUnlist, sessionVars
<1> SUFFICES ASSUME ~tally.overlapped
             PROVE  HomeGood'
  BY <1>3 DEF HomeInv
<1>5. HomeStored /\ FitsHome(t, l) /\ \A q \in Busy : q = r
  BY <1>1, <1>3, OnlyRequest
<1>6. users[l.user] = NoUser
  BY <1>3, <1>5 DEF FitsHome
<1>7. OnePlace'
  BY <1>4, <1>5 DEF HomeStored, OnePlace
<1>8. FewStray'
  <2>1. ASSUME NEW p \in People, NEW x \in Stray(p)'
        PROVE  x \in Stray(p)
    <3>1. p # NoUser
      BY ConversationAssumption DEF NoUser
    <3>2. x \in chatPast.made \ userIndex /\ users[x] = p
      BY <1>4, <1>6, <3>1 DEF Stray
    <3>3. \A q \in Requests : q # r => ~Hand(q, x)
      BY <1>3, OthersStand DEF Stray
    <3>4. ~Hand(r, x)
      BY <1>1, <1>3 DEF Hand
    <3> QED BY <3>2, <3>3, <3>4 DEF Stray
  <2> QED BY <1>3, <1>5, <2>1, StraysStay
<1>9. Tallied' /\ AllListed'
  BY <1>1, <1>3, <1>4, <1>5, SessionsStay DEF Adding
<1>10. FitsHome(y, l)'
  BY <1>3 DEF FitsHome, Makes, ChatFollows
<1> QED BY <1>3, <1>5, <1>7, <1>8, <1>9, <1>10, HomeMoves DEF HomeStored

(* A session is created. *)
LEMMA SessionSetHome ==
    ASSUME ChatShape, HomeInv, NEW r \in Requests, SessionSet(r)
    PROVE  HomeInv'
<1>1. PICK t, l, s : t = request[r].todo /\ l = request[r].loc /\ s = Fresh(SessionIds, chatPast.sessions)
  OBVIOUS
<1>2. At(r, "sessionSet") /\ s \in SessionIds /\ s \notin chatPast.sessions /\ s # None
  <2>1. SessionIds \subseteq Nat \ {0}
    BY ConversationAssumption
  <2>2. At(r, "sessionSet") /\ SessionIds \ chatPast.sessions # {}
    BY DEF SessionSet
  <2> QED BY <1>1, <2>1, <2>2, FreshIs
<1>3. PICK m, y : m = [l EXCEPT !.session = s] /\ y = Tail(t)
  OBVIOUS
<1>4. /\ t # <<>> /\ t[1].do = "sessionSet" /\ l \in ChatLocal /\ ChatTyped /\ r \in Busy
      /\ (Sent(r, m) => Moved(r, y, m) /\ tally' = tally) /\ This(r) = t[1] /\ Loc(r) = l
      /\ y # <<>> /\ ChatFollows(t[1], y[1])
  BY <1>1, <1>2, <1>3, ChatAt DEF ChatEnds
<1>5. Moved(r, y, m) /\ tally' = tally /\ m.session = s /\ m.user = l.user /\ y[1].do = "sessionList"
  BY <1>1, <1>3, <1>4 DEF SessionSet, ChatFollows, ChatLocal
<1>6. PICK doc : doc = [NoSession EXCEPT !.user = l.user, !.name = t[1].id]
  OBVIOUS
<1>7. /\ sessions' = [sessions EXCEPT ![s] = doc]
      /\ chatPast'.made = chatPast.made /\ chatPast'.in = chatPast.in
      /\ UNCHANGED <<users, userIndex, userSessions>>
  BY <1>1, <1>4, <1>6 DEF SessionSet, ChatTyped, userVars
<1>8. /\ sessions'[s] = doc /\ doc.user = l.user /\ doc.count = 0
      /\ \A x \in SessionIds : x # s => sessions'[x] = sessions[x]
      /\ chatPast.in[s] = {}
  BY <1>2, <1>4, <1>6, <1>7 DEF ChatTyped, NoSession
<1> SUFFICES ASSUME ~tally.overlapped
             PROVE  HomeGood'
  BY <1>5 DEF HomeInv
<1>9. HomeStored /\ \A q \in Busy : q = r
  BY <1>4, OnlyRequest
<1>10. OnePlace' /\ FewStray'
  BY <1>1, <1>4, <1>5, <1>7, <1>9, UsersStay
<1>11. Tallied'
  <2>1. \A x \in SessionIds : Counted(x)' \subseteq Counted(x)
    BY <1>1, <1>4, <1>5, <1>7, CountedKept DEF Adding
  <2>2. Counted(s)' = {}
    BY <1>7, <1>8 DEF Counted
  <2> QED BY <1>5, <1>8, <1>9, <2>1, <2>2, CountsKept
<1>12. AllListed'
  <2> SUFFICES ASSUME tally.faults = 0, NEW x \in SessionIds, sessions'[x] # NoSession,
                      x \notin userSessions'[sessions'[x].user]
               PROVE  \E q \in Requests : Lists(q, x)'
    BY <1>5 DEF AllListed
  <2>1. CASE x = s
    <3>1. Lists(r, s)'
      BY <1>4, <1>5, OthersStand
    <3> QED BY <2>1, <3>1
  <2>2. CASE x # s
    <3>1. PICK q \in Requests : Lists(q, x)
      BY <1>7, <1>8, <1>9, <2>2 DEF HomeStored, AllListed
    <3>2. q # r
      BY <1>1, <1>4, <3>1 DEF Lists
    <3>3. Lists(q, x)'
      BY <1>5, <3>1, <3>2, OthersStand
    <3> QED BY <3>3
  <2> QED BY <2>1, <2>2
<1>13. FitsHome(y, m)'
  BY <1>4, <1>5, <1>8 DEF FitsHome, Makes
<1> QED BY <1>5, <1>9, <1>10, <1>11, <1>12, <1>13, HomeMoves DEF HomeStored

(* A session is listed. *)
LEMMA SessionListHome ==
    ASSUME ChatShape, HomeInv, NEW r \in Requests, SessionList(r)
    PROVE  HomeInv'
<1>1. PICK t, l, y : t = request[r].todo /\ l = request[r].loc /\ y = Tail(t)
  OBVIOUS
<1>2. At(r, "sessionList") /\ Done(r)
  BY DEF SessionList
<1>3. /\ t # <<>> /\ t[1].do = "sessionList" /\ r \in Busy /\ Moved(r, y, l) /\ tally' = tally /\ Loc(r) = l
      /\ y # <<>> => ChatFollows(t[1], y[1])
      /\ ChatTyped /\ l.user \in UserIds
  BY <1>1, <1>2, ChatAt
<1>4. /\ userSessions' = [userSessions EXCEPT ![l.user] = @ \cup {l.session}]
      /\ UNCHANGED <<users, userIndex, sessions, chatPast>>
  BY <1>3 DEF SessionList, userVars
<1> SUFFICES ASSUME ~tally.overlapped
             PROVE  HomeGood'
  BY <1>3 DEF HomeInv
<1>5. HomeStored /\ FitsHome(t, l) /\ \A q \in Busy : q = r
  BY <1>1, <1>3, OnlyRequest
<1>6. sessions[l.session].user = l.user
  BY <1>3, <1>5 DEF FitsHome
<1>7. OnePlace' /\ FewStray'
  BY <1>1, <1>3, <1>4, <1>5, UsersStay
<1>8. Tallied'
  BY <1>1, <1>3, <1>4, <1>5, CountedKept, CountsKept DEF Adding
<1>9. AllListed'
  <2> SUFFICES ASSUME tally.faults = 0, NEW x \in SessionIds, sessions[x] # NoSession,
                      x \notin userSessions'[sessions[x].user]
               PROVE  \E q \in Requests : Lists(q, x)'
    BY <1>3, <1>4 DEF AllListed
  <2>1. x # l.session
    BY <1>3, <1>4, <1>6 DEF ChatTyped
  <2>2. sessions[x].user \in UserIds
    BY <1>3 DEF ChatTyped, SessionDocs
  <2>3. x \notin userSessions[sessions[x].user]
    BY <1>3, <1>4, <2>2 DEF ChatTyped
  <2>4. PICK q \in Requests : Lists(q, x)
    BY <1>5, <2>3 DEF HomeStored, AllListed
  <2>5. q # r
    BY <1>1, <2>1, <2>4 DEF Lists
  <2> QED BY <1>3, <2>4, <2>5, OthersStand
<1>10. FitsHome(y, l)'
  BY <1>3 DEF FitsHome, Makes, ChatFollows
<1> QED BY <1>3, <1>5, <1>7, <1>8, <1>9, <1>10, HomeMoves DEF HomeStored

(* A session is deleted. *)
LEMMA SessionDelHome ==
    ASSUME ChatShape, HomeInv, NEW r \in Requests, SessionDel(r)
    PROVE  HomeInv'
<1>1. PICK t, l, y, s : t = request[r].todo /\ l = request[r].loc /\ y = Tail(t) /\ s = l.session
  OBVIOUS
<1>2. At(r, "sessionDel") /\ Done(r)
  BY DEF SessionDel
<1>3. /\ t # <<>> /\ t[1].do = "sessionDel" /\ r \in Busy /\ Moved(r, y, l) /\ tally' = tally /\ Loc(r) = l
      /\ y # <<>> => ChatFollows(t[1], y[1])
      /\ ChatTyped /\ s \in SessionIds
  BY <1>1, <1>2, ChatAt DEF SessionDo
<1>4. /\ sessions' = [sessions EXCEPT ![s] = NoSession]
      /\ UNCHANGED <<users, userIndex, userSessions, chatPast>>
  BY <1>1, <1>3 DEF SessionDel, userVars
<1>5. sessions'[s] = NoSession /\ \A x \in SessionIds : x # s => sessions'[x] = sessions[x]
  BY <1>3, <1>4 DEF ChatTyped
<1> SUFFICES ASSUME ~tally.overlapped
             PROVE  HomeGood'
  BY <1>3 DEF HomeInv
<1>6. HomeStored /\ \A q \in Busy : q = r
  BY <1>3, OnlyRequest
<1>7. OnePlace' /\ FewStray'
  BY <1>1, <1>3, <1>4, <1>6, UsersStay
<1>8. Tallied'
  <2>1. \A x \in SessionIds : Counted(x)' \subseteq Counted(x)
    BY <1>1, <1>3, <1>4, CountedKept DEF Adding
  <2> QED BY <1>3, <1>5, <1>6, <2>1, CountsKept
<1>9. AllListed'
  <2> SUFFICES ASSUME tally.faults = 0, NEW x \in SessionIds, sessions'[x] # NoSession,
                      x \notin userSessions[sessions'[x].user]
               PROVE  \E q \in Requests : Lists(q, x)'
    BY <1>3, <1>4 DEF AllListed
  <2>1. PICK q \in Requests : Lists(q, x)
    BY <1>5, <1>6 DEF HomeStored, AllListed
  <2>2. q # r
    BY <1>1, <1>3, <2>1 DEF Lists
  <2> QED BY <1>3, <2>1, <2>2, OthersStand
<1>10. FitsHome(y, l)'
  BY <1>1, <1>3, <1>5 DEF FitsHome, Makes, ChatFollows
<1> QED BY <1>3, <1>6, <1>7, <1>8, <1>9, <1>10, HomeMoves DEF HomeStored

LEMMA SessionUnlistHome ==
    ASSUME ChatShape, HomeInv, NEW r \in Requests, SessionUnlist(r)
    PROVE  HomeInv'
<1>1. PICK t, l, y : t = request[r].todo /\ l = request[r].loc /\ y = Tail(t)
  OBVIOUS
<1>2. At(r, "sessionUnlist") /\ Done(r)
  BY DEF SessionUnlist
<1>3. /\ t # <<>> /\ t[1].do = "sessionUnlist" /\ r \in Busy /\ Moved(r, y, l) /\ tally' = tally /\ Loc(r) = l
      /\ y # <<>> => ChatFollows(t[1], y[1])
      /\ ChatTyped
  BY <1>1, <1>2, ChatAt
<1>4. /\ userSessions' = [userSessions EXCEPT ![l.copy.user] = @ \ {l.session}]
      /\ UNCHANGED <<users, userIndex, sessions, chatPast>>
  BY <1>3 DEF SessionUnlist, userVars
<1> SUFFICES ASSUME ~tally.overlapped
             PROVE  HomeGood'
  BY <1>3 DEF HomeInv
<1>5. HomeStored /\ FitsHome(t, l) /\ \A q \in Busy : q = r
  BY <1>1, <1>3, OnlyRequest
<1>6. sessions[l.session] = NoSession
  BY <1>3, <1>5 DEF FitsHome
<1>7. OnePlace' /\ FewStray'
  BY <1>1, <1>3, <1>4, <1>5, UsersStay
<1>8. Tallied'
  BY <1>1, <1>3, <1>4, <1>5, CountedKept, CountsKept DEF Adding
<1>9. AllListed'
  <2> SUFFICES ASSUME tally.faults = 0, NEW x \in SessionIds, sessions[x] # NoSession,
                      x \notin userSessions'[sessions[x].user]
               PROVE  \E q \in Requests : Lists(q, x)'
    BY <1>3, <1>4 DEF AllListed
  <2>1. x # l.session
    BY <1>6
  <2>2. sessions[x].user \in UserIds
    BY <1>3 DEF ChatTyped, SessionDocs
  <2>3. x \notin userSessions[sessions[x].user]
    BY <1>3, <1>4, <2>1, <2>2 DEF ChatTyped
  <2>4. PICK q \in Requests : Lists(q, x)
    BY <1>5, <2>3 DEF HomeStored, AllListed
  <2>5. q # r
    BY <1>1, <1>3, <2>4 DEF Lists
  <2> QED BY <1>3, <2>4, <2>5, OthersStand
<1>10. FitsHome(y, l)'
  BY <1>3 DEF FitsHome, Makes, ChatFollows
<1> QED BY <1>3, <1>5, <1>7, <1>8, <1>9, <1>10, HomeMoves DEF HomeStored

(* Who stops adding an episode leaves it to be counted. *)
LEMMA CountedMore ==
    ASSUME NEW r \in Requests, NEW u, NEW m, Moved(r, u, m), chatPast'.in = chatPast.in
    PROVE  \A s \in SessionIds : /\ Counted(s)' \subseteq Counted(s) \cup {request[r].loc.episode}
                                 /\ ~Adds(r, s) => Counted(s)' \subseteq Counted(s)
<1> SUFFICES ASSUME NEW s \in SessionIds, NEW e \in Counted(s)', e \notin Counted(s)
             PROVE  Adds(r, s) /\ e = request[r].loc.episode
  OBVIOUS
<1>1. PICK q \in Requests : Adds(q, s) /\ request[q].loc.episode = e
  BY DEF Counted
<1>2. CASE q # r
  <2>1. request'[q] = request[q]
    BY <1>2, BusyThen
  <2> QED BY <1>1, <2>1 DEF Counted, Adds, Adding
<1> QED BY <1>1, <1>2

(* The only request stores the session it has just read. *)
LEMMA SessionPutHome ==
    ASSUME ChatShape, HomeInv, NEW r \in Requests, SessionPut(r)
    PROVE  HomeInv'
<1>1. PICK t, l, s, doc : t = request[r].todo /\ l = request[r].loc /\ s = l.session /\ doc = Changed(r)
  OBVIOUS
<1>2. At(r, "sessionPut") /\ Done(r)
  BY DEF SessionPut
<1>3. /\ t # <<>> /\ t[1].do = "sessionPut" /\ r \in Busy /\ Moved(r, Tail(t), l) /\ tally' = tally /\ Loc(r) = l
      /\ Tail(t) # <<>> => ChatFollows(t[1], Tail(t)[1])
      /\ ChatTyped /\ s \in SessionIds /\ l.copy \in SessionDocs
  BY <1>1, <1>2, ChatAt DEF KnownDo
<1>4. Moved(r, <<>>, l)
  BY <1>3 DEF ChatFollows
<1>5. /\ sessions' = [sessions EXCEPT ![s] = doc]
      /\ UNCHANGED <<users, userIndex, userSessions, chatPast>>
  BY <1>1, <1>3 DEF SessionPut, userVars
<1>6. /\ doc \in SessionDocs /\ doc.user = l.copy.user
      /\ t[1].how = "count" => doc.count = l.copy.count + 1
      /\ t[1].how # "count" => doc.count = l.copy.count
  BY <1>1, <1>2, ChangedIs
<1>7. sessions'[s] = doc /\ \A x \in SessionIds : x # s => sessions'[x] = sessions[x]
  BY <1>3, <1>5 DEF ChatTyped
<1> SUFFICES ASSUME ~tally.overlapped
             PROVE  HomeGood'
  BY <1>3 DEF HomeInv
<1>8. HomeStored /\ FitsHome(t, l) /\ \A q \in Busy : q = r
  BY <1>1, <1>3, OnlyRequest
<1>9. sessions[s] = l.copy /\ sessions[s] # NoSession
  <2>1. None \notin UserIds
    BY ConversationAssumption DEF None
  <2> QED BY <1>1, <1>3, <1>8, <2>1 DEF FitsHome, SessionDocs, NoSession
<1>10. OnePlace' /\ FewStray'
  BY <1>1, <1>3, <1>4, <1>5, <1>8, UsersStay
<1>11. Tallied'
  <2> SUFFICES ASSUME NEW x \in SessionIds, sessions'[x] # NoSession
               PROVE  Cardinality(Counted(x)') <= sessions'[x].count + tally.faults
    BY <1>3 DEF Tallied
  <2>1. PICK f, n : f = tally.faults /\ f \in Nat /\ n = sessions[x].count /\ n \in Nat
    BY <1>3 DEF ChatShape, Tallies, ChatTyped, SessionDocs, NoSession
  <2>2. n + f \in Int /\ IsFiniteSet(Counted(x)) /\ Cardinality(Counted(x)) <= n + f
    BY <1>7, <1>9, <1>8, <2>1, CountedFinite DEF HomeStored, Tallied
  <2>3. /\ Counted(x)' \subseteq Counted(x) \cup {l.episode}
        /\ ~Adds(r, x) => Counted(x)' \subseteq Counted(x)
    BY <1>1, <1>4, <1>5, CountedMore
  <2>4. CASE ~Adds(r, x)
    <3>1. Cardinality(Counted(x)') <= n + f
      BY <2>2, <2>3, <2>4, NoLarger
    <3>2. sessions'[x].count \in {n, n + 1}
      BY <1>6, <1>7, <1>9, <2>1
    <3>3. PICK k : k = Cardinality(Counted(x)') /\ k \in Nat
      <4>1. IsFiniteSet(Counted(x)')
        BY <2>2, <2>3, <2>4, NoLarger
      <4> QED BY <4>1, FS_CardinalityType
    <3>4. k <= n + f /\ k <= (n + 1) + f
      BY <2>1, <3>1, <3>3
    <3> QED BY <2>1, <3>2, <3>3, <3>4
  <2>5. CASE Adds(r, x)
    <3>1. x = s /\ t[1].how = "count"
      BY <1>1, <1>3, <2>5 DEF Adds, Adding
    <3>2. sessions'[x].count = n + 1
      BY <1>6, <1>7, <1>9, <2>1, <3>1
    <3>3. Cardinality(Counted(x)') <= (n + f) + 1
      BY <2>2, <2>3, OneLarger
    <3>4. (n + f) + 1 = (n + 1) + f
      BY <2>1
    <3> QED BY <2>1, <3>2, <3>3, <3>4
  <2> QED BY <2>4, <2>5
<1>12. AllListed'
  <2> SUFFICES ASSUME tally.faults = 0, NEW x \in SessionIds, sessions'[x] # NoSession,
                      x \notin userSessions[sessions'[x].user]
               PROVE  \E q \in Requests : Lists(q, x)'
    BY <1>3, <1>5 DEF AllListed
  <2>1. sessions[x] # NoSession /\ sessions[x].user = sessions'[x].user
    BY <1>6, <1>7, <1>9
  <2>2. PICK q \in Requests : Lists(q, x)
    BY <1>8, <2>1 DEF HomeStored, AllListed
  <2>3. q # r
    BY <1>1, <1>3, <2>2 DEF Lists
  <2> QED BY <1>3, <2>2, <2>3, OthersStand
<1>13. FitsHome(<<>>, l)'
  BY DEF FitsHome
<1> QED BY <1>4, <1>8, <1>10, <1>11, <1>12, <1>13, HomeMoves DEF HomeStored

(* An episode is created. *)
LEMMA EpisodeSetHome ==
    ASSUME ChatShape, HomeInv, NEW r \in Requests, EpisodeSet(r)
    PROVE  HomeInv'
<1>1. PICK t, l, y : t = request[r].todo /\ l = request[r].loc /\ y = Tail(t)
  OBVIOUS
<1>2. PICK e, m : Enters(r, t, l, e, m)
  BY <1>1, EpisodeSetIs
<1>3. /\ Moved(r, y, m) /\ m.episode = e /\ m.session = l.session /\ t # <<>> /\ t[1].do = "episodeSet"
      /\ y # <<>> /\ y[1].do = "episodeList" /\ r \in Busy
      /\ \A s \in SessionIds : chatPast'.in[s] = IF s = l.session THEN chatPast.in[s] \cup {e} ELSE chatPast.in[s]
      /\ UNCHANGED <<users, userIndex, sessions, userSessions>> /\ chatPast'.made = chatPast.made
      /\ tally' = tally
  BY <1>1, <1>2 DEF Enters, Busy
<1> SUFFICES ASSUME ~tally.overlapped
             PROVE  HomeGood'
  BY <1>3 DEF HomeInv
<1>4. HomeStored /\ \A q \in Busy : q = r
  BY <1>3, OnlyRequest
<1>5. OnePlace' /\ FewStray'
  BY <1>1, <1>3, <1>4, UsersStay
<1>6. ASSUME NEW s \in SessionIds
      PROVE  Counted(s)' \subseteq Counted(s)
  <2>1. request'[r].todo = y /\ request'[r].loc = m /\ \A q \in Requests : q # r => request'[q] = request[q]
    <3>1. /\ request'[r] = IF y = <<>> THEN Idle ELSE [todo |-> y, loc |-> m]
          /\ \A q \in Requests : q # r => request'[q] = request[q]
      BY <1>3, BusyThen
    <3> QED BY <1>3, <3>1
  <2> SUFFICES ASSUME NEW x \in Counted(s)'
               PROVE  x \in Counted(s)
    OBVIOUS
  <2>2. x \in chatPast'.in[s] /\ \A q \in Requests : Adding(request'[q].todo) /\ request'[q].loc.session = s => request'[q].loc.episode # x
    BY DEF Counted, Adds, Adding
  <2>3. s = l.session => x # e
    BY <1>3, <2>1, <2>2 DEF Adding
  <2>4. x \in chatPast.in[s]
    BY <1>3, <2>2, <2>3
  <2>5. \A q \in Requests : Adds(q, s) => request[q].loc.episode # x
    BY <1>1, <1>3, <2>1, <2>2 DEF Adds, Adding
  <2> QED BY <2>4, <2>5 DEF Counted
<1>7. Tallied'
  BY <1>3, <1>4, <1>6, CountsKept
<1>8. AllListed'
  BY <1>1, <1>3, <1>4, ListedStays
<1>9. FitsHome(y, m)'
  BY <1>3 DEF FitsHome, Makes
<1> QED BY <1>3, <1>4, <1>5, <1>7, <1>8, <1>9, HomeMoves DEF HomeStored

LEMMA CountReadHome ==
    ASSUME ChatShape, HomeInv, NEW r \in Requests, CountRead(r)
    PROVE  HomeInv'
<1>1. PICK t, l, s : t = request[r].todo /\ l = request[r].loc /\ s = l.session
  OBVIOUS
<1>2. At(r, "countRead")
  BY DEF CountRead
<1>3. /\ t # <<>> /\ t[1].do = "countRead" /\ r \in Busy /\ Loc(r) = l /\ l \in ChatLocal
      /\ \A m : Sent(r, m) => Moved(r, Tail(t), m) /\ tally' = tally
      /\ Refuse(r) => Moved(r, <<>>, l) /\ tally' = tally
  BY <1>1, <1>2, ChatAt
<1>4. UNCHANGED <<users, userIndex, sessions, userSessions, chatPast>>
  BY DEF CountRead, chatVars, userVars, sessionVars
<1>5. CASE sessions[s] # NoSession
  <2>1. PICK m : m = [l EXCEPT !.copy = sessions[s]]
    OBVIOUS
  <2>2. Sent(r, m)
    BY <1>1, <1>3, <1>5, <2>1 DEF CountRead
  <2>3. m.episode = l.episode /\ m.session = s /\ m.copy = sessions[s]
    BY <1>1, <1>3, <2>1 DEF ChatLocal
  <2> QED BY <1>1, <1>3, <1>4, <2>2, <2>3, HomeGoesOn
<1>6. CASE sessions[s] = NoSession
  <2>1. Moved(r, <<>>, l) /\ tally' = tally
    BY <1>1, <1>3, <1>6 DEF CountRead
  <2> SUFFICES ASSUME ~tally.overlapped
               PROVE  HomeGood'
    BY <2>1 DEF HomeInv
  <2>2. HomeStored /\ \A q \in Busy : q = r
    BY <1>3, OnlyRequest
  <2>3. OnePlace' /\ FewStray'
    BY <1>1, <1>3, <1>4, <2>1, <2>2, UsersStay
  <2>4. \A x \in SessionIds : sessions[x] # NoSession => Counted(x)' \subseteq Counted(x)
    BY <1>1, <1>4, <1>6, <2>1, CountedMore DEF Adds
  <2>5. Tallied'
    BY <1>4, <2>1, <2>2, <2>4, CountsKept
  <2>6. AllListed'
    BY <1>1, <1>3, <1>4, <2>1, <2>2, ListedStays
  <2>7. FitsHome(<<>>, l)'
    BY DEF FitsHome
  <2> QED BY <2>1, <2>2, <2>3, <2>5, <2>6, <2>7, HomeMoves DEF HomeStored
<1> QED BY <1>5, <1>6

(* A command fails: what was in hand is one more that went astray. *)
LEMMA ChatFailsHome ==
    ASSUME ChatShape, HomeInv, NEW r \in Requests, ChatFails(r)
    PROVE  HomeInv'
<1>1. PICK l, f : l = request[r].loc /\ f = tally.faults
  OBVIOUS
<1>2. /\ r \in Busy /\ Moved(r, <<>>, l) /\ f \in Nat
      /\ tally'.faults = f + 1 /\ tally'.overlapped = tally.overlapped
      /\ UNCHANGED <<users, userIndex, sessions, userSessions, chatPast>>
  BY <1>1, ChatFailsIs DEF ChatShape, Tallies
<1> SUFFICES ASSUME ~tally.overlapped
             PROVE  HomeGood'
  BY <1>2 DEF HomeInv
<1>3. HomeStored /\ \A q \in Busy : q = r
  BY <1>2, OnlyRequest
<1>4. OnePlace'
  BY <1>2, <1>3 DEF HomeStored, OnePlace
<1>5. FewStray'
  <2> SUFFICES ASSUME NEW p \in People
               PROVE  IsFiniteSet(Stray(p)') /\ Cardinality(Stray(p)') <= f + 1
    BY <1>2 DEF FewStray
  <2>1. IsFiniteSet(Stray(p)) /\ Cardinality(Stray(p)) <= f /\ f \in Int
    BY <1>1, <1>2, <1>3 DEF HomeStored, FewStray
  <2>2. ASSUME NEW x \in Stray(p)', x # l.user
        PROVE  x \in Stray(p)
    <3>1. x \in chatPast.made \ userIndex /\ users[x] = p
      BY <1>2 DEF Stray
    <3>2. \A q \in Requests : q # r => ~Hand(q, x)
      BY <1>2, OthersStand DEF Stray
    <3>3. ~Hand(r, x)
      BY <1>1, <2>2 DEF Hand
    <3> QED BY <3>1, <3>2, <3>3 DEF Stray
  <2>3. Stray(p)' \subseteq Stray(p) \cup {l.user}
    BY <2>2
  <2> QED BY <2>1, <2>3, OneLarger
<1>6. Tallied'
  <2> SUFFICES ASSUME NEW x \in SessionIds, sessions[x] # NoSession
               PROVE  Cardinality(Counted(x)') <= sessions[x].count + (f + 1)
    BY <1>2 DEF Tallied
  <2>1. PICK n : n = sessions[x].count /\ n \in Nat
    BY DEF ChatShape, ChatTyped, SessionDocs, NoSession
  <2>2. n + f \in Int /\ IsFiniteSet(Counted(x)) /\ Cardinality(Counted(x)) <= n + f
    BY <1>1, <1>2, <1>3, <2>1, CountedFinite DEF HomeStored, Tallied
  <2>3. Counted(x)' \subseteq Counted(x) \cup {l.episode}
    BY <1>1, <1>2, CountedMore
  <2>4. Cardinality(Counted(x)') <= (n + f) + 1
    BY <2>2, <2>3, OneLarger
  <2>5. (n + f) + 1 = n + (f + 1)
    BY <1>2, <2>1
  <2> QED BY <2>1, <2>4, <2>5
<1>7. AllListed'
  <2>1. f + 1 # 0
    BY <1>2
  <2> QED BY <1>2, <2>1 DEF AllListed
<1>8. FitsHome(<<>>, l)'
  BY DEF FitsHome
<1> QED BY <1>2, <1>3, <1>4, <1>5, <1>6, <1>7, <1>8, HomeMoves DEF HomeStored

(* Every step. *)
LEMMA CommandHome ==
    ASSUME ChatShape, HomeInv, ChatCommands
    PROVE  HomeInv'
BY UserSetExtHome, UserListHome, UserDelHome, UserDelExtHome, UserUnlistHome, SessionListHome,
   SessionDelHome, SessionUnlistHome, EpisodeListHome, EpisodeQueueHome, EpisodeUnlistHome,
   EpisodeUnqueueHome, EpisodeEraseHome, ClearIndexHome, CompleteHome, UserSetHome, SessionSetHome,
   SessionPutHome, EpisodeSetHome, WorkHome, UserNeedHome, FindUserHome, FindSessionHome,
   SessionReadHome, CountReadHome, EpisodeNeedHome, SummaryDueHome, ClearRangeHome, Zenon DEF ChatCommands

LEMMA StartHome ==
    ASSUME ChatShape, HomeInv, ChatRequests
    PROVE  HomeInv'
<1>1. PICK r \in Requests : \E t, l : Start(r, t, l) /\ ChatBegun(t, l) /\ UNCHANGED chatVars
  BY ChatRequestBegins
<1>2. PICK t, l : Start(r, t, l) /\ ChatBegun(t, l) /\ UNCHANGED chatVars
  BY <1>1
<1>3. /\ request[r].todo = <<>> /\ Moved(r, t, l) /\ tally'.faults = tally.faults
      /\ ~tally'.overlapped => ~tally.overlapped /\ Busy = {}
  BY <1>2, Starts DEF ChatShape
<1>4. UNCHANGED <<users, userIndex, sessions, userSessions, chatPast>>
  BY <1>2 DEF chatVars, userVars, sessionVars
<1> SUFFICES ASSUME ~tally'.overlapped
             PROVE  HomeGood'
  BY DEF HomeInv
<1>5. HomeStored
  BY <1>3 DEF HomeInv, HomeGood
<1>6. OnePlace' /\ FewStray'
  BY <1>3, <1>4, <1>5, UsersStay
<1>7. Tallied' /\ AllListed'
  BY <1>3, <1>4, <1>5, SessionsStay DEF Adding
<1>8. FitsHome(t, l)'
  <2>1. ~(2 > 2)
    OBVIOUS
  <2> QED BY <1>2, <2>1 DEF ChatBegun, FitsHome, Makes
<1> QED BY <1>3, <1>6, <1>7, <1>8, HomeMoves DEF HomeStored

LEMMA HomeKept ==
    ASSUME ChatShape, HomeInv, [NextConversations]_<<requestVars, chatVars>>
    PROVE  HomeInv'
<1>1. CASE UNCHANGED <<requestVars, chatVars>>
  <2>1. /\ request' = request /\ tally' = tally /\ chatPast' = chatPast
        /\ users' = users /\ userIndex' = userIndex /\ sessions' = sessions /\ userSessions' = userSessions
    BY <1>1 DEF requestVars, chatVars, userVars, sessionVars
  <2>2. (OnePlace' <=> OnePlace) /\ (FewStray' <=> FewStray)
    BY <2>1 DEF OnePlace, FewStray, Stray, Hand
  <2>3. (Tallied' <=> Tallied) /\ (AllListed' <=> AllListed)
    BY <2>1 DEF Tallied, Counted, Adds, Adding, AllListed, Lists
  <2>4. \A r \in Requests : FitsHome(request[r].todo, request[r].loc)' <=> FitsHome(request[r].todo, request[r].loc)
    BY <2>1 DEF FitsHome, Makes
  <2> QED BY <2>1, <2>2, <2>3, <2>4 DEF HomeInv, HomeGood, HomeStored
<1> QED BY <1>1, StartHome, CommandHome, ChatFailsHome DEF NextConversations

LEMMA HomeFirst ==
    ASSUME InitRequests, InitConversations
    PROVE  HomeInv
<1>1. ChatShape /\ Busy = {} /\ tally.faults = 0
  BY ChatFirst
<1>2. \A r \in Requests : request[r].todo = <<>>
  BY <1>1 DEF Busy
<1>3. chatPast.made = {} /\ \A s \in SessionIds : chatPast.in[s] = {}
  BY DEF InitConversations
<1>4. IsFiniteSet({}) /\ Cardinality({}) = 0
  BY FS_EmptySet
<1>5. OnePlace
  BY <1>3 DEF OnePlace
<1>6. FewStray
  BY <1>1, <1>3, <1>4 DEF FewStray, Stray
<1>7. Tallied
  <2> SUFFICES ASSUME NEW s \in SessionIds
               PROVE  Cardinality(Counted(s)) <= sessions[s].count + tally.faults
    BY DEF Tallied
  <2>1. Counted(s) = {}
    BY <1>3 DEF Counted
  <2>2. sessions[s].count = 0
    BY DEF InitConversations, NoSession
  <2> QED BY <1>1, <1>4, <2>1, <2>2
<1>8. AllListed
  <2> SUFFICES ASSUME NEW s \in SessionIds, sessions[s] # NoSession
               PROVE  s \in userSessions[sessions[s].user]
    BY DEF AllListed
  <2>1. 1 \in UserIds
    BY ConversationAssumption
  <2> QED BY <2>1 DEF InitConversations, NoSession
<1>9. \A r \in Requests : FitsHome(request[r].todo, request[r].loc)
  BY <1>2 DEF FitsHome
<1> QED BY <1>5, <1>6, <1>7, <1>8, <1>9 DEF HomeInv, HomeGood, HomeStored

(* What it tells. *)
LEMMA HomeCounts ==
    ASSUME ChatShape, HomeInv
    PROVE  AllCounted
<1> SUFFICES ASSUME ~tally.overlapped, Busy = {}, NEW s \in SessionIds, sessions[s] # NoSession
             PROVE  Cardinality(chatPast.in[s]) <= sessions[s].count + tally.faults
  BY DEF AllCounted
<1>1. \A r \in Requests : request[r].todo = <<>>
  BY DEF Busy
<1>2. Counted(s) = chatPast.in[s]
  BY <1>1 DEF Counted, Adds, Adding
<1> QED BY <1>2 DEF HomeInv, HomeGood, HomeStored, Tallied

LEMMA HomeIsOne ==
    ASSUME ChatShape, HomeInv
    PROVE  OneHome
<1> SUFFICES ASSUME ~tally.overlapped
             PROVE  /\ \A p \in People :
                         Cardinality({u \in chatPast.made : users[u] = p}) <= 1 + tally.faults
                    /\ tally.faults = 0 /\ Busy = {} =>
                         \A e \in EpisodeIds : episodes[e] # NoEpisode => sessions[episodes[e].session] \in {NoSession}
                           \/ episodes[e].session \in userSessions[sessions[episodes[e].session].user]
  BY DEF OneHome
<1>1. HomeStored /\ \A r \in Requests : FitsHome(request[r].todo, request[r].loc)
  BY DEF HomeInv, HomeGood
<1>2. \A q, r \in Busy : q = r
  BY DEF ChatShape, OneBusy
<1>3. ASSUME NEW p \in People
      PROVE  Cardinality({u \in chatPast.made : users[u] = p}) <= 1 + tally.faults
  <2>1. PICK M : M = {u \in chatPast.made : users[u] = p}
    OBVIOUS
  <2>2. p # NoUser
    BY ConversationAssumption DEF NoUser
  <2>3. \A r \in Requests : \A u : Hand(r, u) =>
          /\ r \in Busy /\ u = request[r].loc.user
          /\ u \in M => \A x \in chatPast.made \cap userIndex : users[x] # p
    <3> SUFFICES ASSUME NEW r \in Requests, NEW u, Hand(r, u)
                 PROVE  /\ r \in Busy /\ u = request[r].loc.user
                        /\ u \in M => \A x \in chatPast.made \cap userIndex : users[x] # p
      OBVIOUS
    <3>1. PICK t, l : t = request[r].todo /\ l = request[r].loc
      OBVIOUS
    <3>2. t # <<>> /\ t[1].do \in {"userSetExt", "userList"} /\ l.user = u /\ FitsHome(t, l)
      BY <1>1, <3>1 DEF Hand
    <3>3. users[u] = t[1].id
      BY <3>2 DEF FitsHome
    <3>4. u \in M => Makes(t, l)
      BY <2>1, <3>2 DEF Makes
    <3>5. Makes(t, l) => \A x \in chatPast.made \cap userIndex : users[x] # t[1].id
      BY <3>2 DEF FitsHome
    <3> QED BY <2>1, <3>1, <3>2, <3>3, <3>4, <3>5 DEF Busy
  <2>4. \E x : M \subseteq Stray(p) \cup {x}
    <3>1. CASE \E x \in chatPast.made \cap userIndex : users[x] = p
      <4>1. PICK x \in chatPast.made \cap userIndex : users[x] = p
        BY <3>1
      <4>2. M \subseteq Stray(p) \cup {x}
        BY <1>1, <2>1, <2>2, <2>3, <4>1 DEF HomeStored, OnePlace, Stray
      <4> QED BY <4>2
    <3>2. CASE ~\E x \in chatPast.made \cap userIndex : users[x] = p
      <4>1. CASE \E r \in Requests, u \in M : Hand(r, u)
        <5>1. PICK r \in Requests, u \in M : Hand(r, u)
          BY <4>1
        <5>2. \A q \in Requests, v \in M : Hand(q, v) => v = u
          BY <1>2, <2>3, <5>1
        <5>3. M \subseteq Stray(p) \cup {u}
          BY <2>1, <3>2, <5>2 DEF Stray
        <5> QED BY <5>3
      <4>2. CASE ~\E r \in Requests, u \in M : Hand(r, u)
        <5>1. M \subseteq Stray(p) \cup {None}
          BY <2>1, <3>2, <4>2 DEF Stray
        <5> QED BY <5>1
      <4> QED BY <4>1, <4>2
    <3> QED BY <3>1, <3>2
  <2>5. PICK x : M \subseteq Stray(p) \cup {x}
    BY <2>4
  <2>6. IsFiniteSet(Stray(p)) /\ Cardinality(Stray(p)) <= tally.faults /\ tally.faults \in Int
    BY <1>1 DEF HomeStored, FewStray, ChatShape, Tallies
  <2>7. IsFiniteSet(M) /\ Cardinality(M) <= tally.faults + 1
    BY <2>5, <2>6, OneLarger
  <2>8. tally.faults + 1 = 1 + tally.faults
    BY <2>6
  <2> QED BY <2>1, <2>7, <2>8
<1>4. ASSUME tally.faults = 0, Busy = {}, NEW e \in EpisodeIds, episodes[e] # NoEpisode
      PROVE  \/ sessions[episodes[e].session] \in {NoSession}
             \/ episodes[e].session \in userSessions[sessions[episodes[e].session].user]
  <2>1. episodes[e].session \in SessionIds
    BY <1>4 DEF ChatShape, ChatTyped
  <2>2. \A r \in Requests : request[r].todo = <<>>
    BY <1>4 DEF Busy
  <2>3. \A r \in Requests : \A s : ~Lists(r, s)
    BY <2>2 DEF Lists
  <2> QED BY <1>1, <1>4, <2>1, <2>3 DEF HomeStored, AllListed
<1> QED BY <1>3, <1>4

(* However requests overlap and fail, a session counts no more episodes than *)
(* were created in it and its head is one of them (the copy a request is     *)
(* about to store is behind, too).  Requests that run one after the other    *)
(* count every episode, and make one user per external id and list every     *)
(* session, but for one per failed command.                                  *)
THEOREM ConversationsStayTrue == ConversationSpec => []ConversationsHold
<1>1. InitRequests /\ InitConversations => ChatInv
  BY ChatFirst, CountFirst, HomeFirst DEF ChatInv
<1>2. ChatInv /\ [NextConversations]_<<requestVars, chatVars>> => ChatInv'
  <2> SUFFICES ASSUME ChatInv, [NextConversations]_<<requestVars, chatVars>>
               PROVE  ChatInv'
    OBVIOUS
  <2>1. ChatShape /\ CountInv /\ HomeInv
    BY DEF ChatInv
  <2>2. ChatShape'
    BY <2>1, ChatShapeKept
  <2>3. CountInv'
    BY <2>1, <2>2, CountKept
  <2>4. HomeInv'
    BY <2>1, HomeKept
  <2> QED BY <2>2, <2>3, <2>4 DEF ChatInv
<1>3. ChatInv => ConversationsHold
  BY CountTells, HomeCounts, HomeIsOne DEF ChatInv, ConversationsHold
<1> QED BY <1>1, <1>2, <1>3, PTL DEF ConversationSpec

==============================================================================
