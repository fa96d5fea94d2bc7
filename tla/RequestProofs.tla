---------------------------- MODULE RequestProofs ----------------------------
(***************************************************************************)
(* Lemmas about the lists of commands that requests work through, and      *)
(* about what a step of StoreRequests does to them: what is left of a list *)
(* when its first command is sent, when more commands are put before it,   *)
(* and when a command fails.                                               *)
(***************************************************************************)
EXTENDS StoreRequests, SequencesExt,
        FiniteSetTheorems, SequenceTheorems, WellFoundedInduction, TLAPS

-----------------------------------------------------------------------------
(* Lists.                                                                   *)

(* What comes after the first command of a list. *)
LEMMA RestOfList ==
    ASSUME NEW S, NEW t \in Seq(S), t # <<>>
    PROVE  /\ Head(t) = t[1] /\ Len(t) \in Nat /\ Len(t) >= 1 /\ t[1] \in S
           /\ Tail(t) \in Seq(S) /\ Len(Tail(t)) = Len(t) - 1
           /\ \A i \in 1 .. Len(Tail(t)) : Tail(t)[i] = t[i + 1]
<1>1. Len(t) \in Nat \ {0}
  BY EmptySeq
<1>2. t[1] \in S
  BY <1>1, ElementOfSeq
<1>3. Head(t) = t[1]
  BY <1>1
<1> QED BY <1>1, <1>2, <1>3, HeadTailProperties

(* A command before a list. *)
LEMMA FirstOfList ==
    ASSUME NEW S, NEW c \in S, NEW rest \in Seq(S)
    PROVE  /\ <<c>> \o rest \in Seq(S) /\ <<c>> \o rest # <<>>
           /\ Len(<<c>> \o rest) = Len(rest) + 1 /\ Len(rest) \in Nat
           /\ (<<c>> \o rest)[1] = c
           /\ \A i \in 1 .. Len(rest) : (<<c>> \o rest)[i + 1] = rest[i]
           /\ Head(<<c>> \o rest) = c /\ Tail(<<c>> \o rest) = rest
<1> DEFINE todo == <<c>> \o rest
<1>1. <<c>> \in Seq(S) /\ Len(<<c>>) = 1 /\ <<c>>[1] = c
  OBVIOUS
<1>2. /\ todo \in Seq(S) /\ Len(todo) = 1 + Len(rest)
      /\ \A i \in 1 .. 1 + Len(rest) : todo[i] = IF i <= 1 THEN <<c>>[i] ELSE rest[i - 1]
  BY <1>1, ConcatProperties
<1>3. Len(rest) \in Nat
  OBVIOUS
<1> HIDE DEF todo
<1>4. todo[1] = c /\ todo # <<>>
  BY <1>1, <1>2, <1>3
<1>5. \A i \in 1 .. Len(rest) : todo[i + 1] = rest[i]
  BY <1>2, <1>3
<1>6. /\ Head(todo) = c /\ Tail(todo) \in Seq(S) /\ Len(Tail(todo)) = Len(rest)
      /\ \A i \in 1 .. Len(Tail(todo)) : Tail(todo)[i] = rest[i]
  BY <1>2, <1>3, <1>4, <1>5, RestOfList
<1>7. Tail(todo) = rest
  BY <1>6, SeqEqual
<1> QED BY <1>2, <1>3, <1>4, <1>5, <1>6, <1>7 DEF todo

(* One list before another. *)
LEMMA ListBefore ==
    ASSUME NEW S, NEW s \in Seq(S), NEW t \in Seq(S)
    PROVE  /\ s \o t \in Seq(S) /\ Len(s \o t) = Len(s) + Len(t)
           /\ Len(s) \in Nat /\ Len(t) \in Nat
           /\ \A i \in 1 .. Len(s) : (s \o t)[i] = s[i]
           /\ \A i \in 1 .. Len(t) : (s \o t)[Len(s) + i] = t[i]
           /\ \A i \in 1 .. Len(s \o t) :
                \/ i \in 1 .. Len(s) /\ (s \o t)[i] = s[i]
                \/ i - Len(s) \in 1 .. Len(t) /\ (s \o t)[i] = t[i - Len(s)]
<1>1. Len(s) \in Nat /\ Len(t) \in Nat
  OBVIOUS
<1>2. /\ s \o t \in Seq(S) /\ Len(s \o t) = Len(s) + Len(t)
      /\ \A i \in 1 .. Len(s) + Len(t) : (s \o t)[i] = IF i <= Len(s) THEN s[i] ELSE t[i - Len(s)]
  BY ConcatProperties
<1> QED BY <1>1, <1>2

(* The elements of a finite set, each once. *)
LEMMA SetAsList ==
    ASSUME NEW S, IsFiniteSet(S)
    PROVE  /\ SetToSeq(S) \in Seq(S)
           /\ DOMAIN SetToSeq(S) = 1 .. Len(SetToSeq(S)) /\ Len(SetToSeq(S)) \in Nat
           /\ \A i \in 1 .. Len(SetToSeq(S)) : SetToSeq(S)[i] \in S
           /\ \A x \in S : \E i \in 1 .. Len(SetToSeq(S)) : SetToSeq(S)[i] = x
           /\ \A i, j \in 1 .. Len(SetToSeq(S)) : SetToSeq(S)[i] = SetToSeq(S)[j] => i = j
           /\ Len(SetToSeq(S)) = Cardinality(S)
<1> DEFINE n == Cardinality(S)
           order == SetToSeq(S)
<1>1. n \in Nat /\ ExistsBijection(1 .. n, S)
  BY FS_CardinalityType
<1> HIDE DEF n
<1>2. PICK f : f \in Bijection(1 .. n, S)
  BY <1>1 DEF ExistsBijection
<1>3. f \in [1 .. n -> S] /\ \A a, b \in 1 .. n : f[a] = f[b] => a = b
  BY <1>2 DEF Bijection, Injection, IsInjective
<1>4. IsInjective(f)
  BY <1>3 DEF IsInjective
<1>5. order = CHOOSE g \in [1 .. n -> S] : IsInjective(g)
  BY DEF SetToSeq, n
<1>6. order \in [1 .. n -> S] /\ IsInjective(order)
  BY <1>3, <1>4, <1>5
<1> HIDE DEF order
<1>7. order \in Seq(S) /\ Len(order) = n /\ DOMAIN order = 1 .. n
  BY <1>1, <1>6
<1>8. \A i, j \in 1 .. n : order[i] = order[j] => i = j
  BY <1>6 DEF IsInjective
<1>9. order \in Injection(1 .. n, S)
  BY <1>6, <1>8 DEF Injection, IsInjective
<1>10. IsFiniteSet(1 .. n) /\ Cardinality(1 .. n) = n
  BY <1>1, FS_Interval
<1>11. order \in Surjection(1 .. n, S)
  BY <1>9, <1>10, FS_Injection DEF n
<1>12. \A x \in S : \E i \in 1 .. n : order[i] = x
  BY <1>11 DEF Surjection
<1> QED BY <1>1, <1>6, <1>7, <1>8, <1>12 DEF order, n

(* What is left of a list after an error: nothing, or the first command that *)
(* catches it, told of the error, and what comes after it.                   *)
LEMMA UnwoundIs ==
    ASSUME NEW S, NEW t \in Seq(S),
           \A c \in S : c.do = "catch" => [c EXCEPT !.how = "failed"] \in S
    PROVE  /\ Unwound(t) \in Seq(S)
           /\ \/ Unwound(t) = <<>> /\ \A i \in 1 .. Len(t) : t[i].do # "catch"
              \/ \E k \in 1 .. Len(t) :
                   /\ t[k].do = "catch" /\ \A j \in 1 .. k - 1 : t[j].do # "catch"
                   /\ Len(Unwound(t)) = Len(t) - k + 1
                   /\ Unwound(t)[1] = [t[k] EXCEPT !.how = "failed"]
                   /\ \A i \in 2 .. Len(Unwound(t)) : Unwound(t)[i] = t[k + i - 1]
<1> DEFINE caught == {i \in DOMAIN t : t[i].do = "catch"}
<1>1. Len(t) \in Nat /\ DOMAIN t = 1 .. Len(t) /\ \A i \in 1 .. Len(t) : t[i] \in S
  BY LenProperties, ElementOfSeq
<1>2. caught \subseteq Nat
  BY <1>1
<1>3. CASE caught = {}
  BY <1>1, <1>3 DEF Unwound
<1>4. CASE caught # {}
  <2> DEFINE k == CHOOSE i \in caught : \A j \in caught : i <= j
  <2> HIDE DEF caught
  <2>1. \E i \in caught : \A j \in caught : i <= j
    <3>1. PICK i \in caught : \A j \in caught : <<j, i>> \notin OpToRel(<, Nat)
      BY <1>2, <1>4, WFMin, NatLessThanWellFounded
    <3>2. \A j \in caught : ~(j < i)
      BY <1>2, <3>1 DEF OpToRel
    <3>3. \A j \in caught : i \in Nat /\ j \in Nat
      BY <1>2
    <3>4. \A j \in caught : i <= j
      BY <3>2, <3>3
    <3> QED BY <3>1, <3>4
  <2>2. k \in caught /\ \A j \in caught : k <= j
    BY <2>1
  <2> HIDE DEF k
  <2>3. k \in 1 .. Len(t) /\ t[k].do = "catch" /\ \A j \in 1 .. k - 1 : t[j].do # "catch"
    BY <1>1, <2>2 DEF caught
  <2> DEFINE c == [t[k] EXCEPT !.how = "failed"]
             more == SubSeq(t, k + 1, Len(t))
  <2>4. c \in S
    BY <1>1, <2>3
  <2>5. /\ more \in Seq(S) /\ Len(more) = Len(t) - k
        /\ \A i \in 1 .. Len(t) - k : more[i] = t[k + i]
    <3>1. k + 1 \in Int /\ Len(t) \in Int /\ \A i \in k + 1 .. Len(t) : t[i] \in S
      BY <1>1, <2>3
    <3>2. /\ more \in Seq(S) /\ Len(more) = (IF k + 1 <= Len(t) THEN Len(t) - (k + 1) + 1 ELSE 0)
          /\ \A i \in 1 .. Len(t) - (k + 1) + 1 : more[i] = t[(k + 1) + i - 1]
      BY <3>1, SubSeqProperties
    <3> HIDE DEF more
    <3>3. k \in Nat /\ Len(t) - (k + 1) + 1 = Len(t) - k
      BY <1>1, <2>3
    <3>4. \A i \in 1 .. Len(t) - k : (k + 1) + i - 1 = k + i
      BY <3>3
    <3>5. Len(more) = Len(t) - k
      BY <1>1, <2>3, <3>2, <3>3
    <3> QED BY <3>2, <3>3, <3>4, <3>5
  <2>6. Unwound(t) = <<c>> \o more
    BY <1>4 DEF Unwound, caught, k
  <2> HIDE DEF c, more
  <2>7. /\ <<c>> \o more \in Seq(S) /\ Len(<<c>> \o more) = Len(more) + 1 /\ (<<c>> \o more)[1] = c
        /\ \A i \in 1 .. Len(more) : (<<c>> \o more)[i + 1] = more[i]
    BY <2>4, <2>5, FirstOfList
  <2>8. \A i \in 2 .. Len(Unwound(t)) : Unwound(t)[i] = t[k + i - 1]
    <3> SUFFICES ASSUME NEW i \in 2 .. Len(Unwound(t))
                 PROVE  Unwound(t)[i] = t[k + i - 1]
      OBVIOUS
    <3>1. i - 1 \in 1 .. Len(more) /\ (i - 1) + 1 = i
      BY <1>1, <2>3, <2>5, <2>6, <2>7
    <3>2. more[i - 1] = t[k + (i - 1)] /\ k + (i - 1) = k + i - 1
      BY <1>1, <2>3, <2>5, <3>1
    <3>3. (<<c>> \o more)[(i - 1) + 1] = more[i - 1]
      BY <2>7, <3>1
    <3>4. (<<c>> \o more)[i] = more[i - 1]
      BY <3>1, <3>3
    <3> QED BY <2>6, <3>2, <3>4
  <2>9. Len(Unwound(t)) = Len(t) - k + 1
    BY <1>1, <2>3, <2>5, <2>6, <2>7
  <2> QED BY <2>3, <2>6, <2>7, <2>8, <2>9 DEF c
<1> QED BY <1>3, <1>4

-----------------------------------------------------------------------------
(* Steps.                                                                   *)

\* The request has these commands and locals now; no other has moved.
Moved(r, todo, loc) ==
    request' = [q \in Requests |-> IF q # r THEN request[q]
                                   ELSE IF todo = <<>> THEN Idle ELSE [todo |-> todo, loc |-> loc]]

(* A command is sent, or more are put before the rest. *)
LEMMA GoesOn ==
    ASSUME request = [q \in Requests |-> request[q]], NEW r \in Requests, NEW todo, NEW loc,
           Continue(r, todo, loc)
    PROVE  Moved(r, todo, loc)
BY Zenon DEF Continue, Moved

(* Who is busy after a step. *)
LEMMA BusyThen ==
    ASSUME NEW r \in Requests, NEW todo, NEW loc, Moved(r, todo, loc)
    PROVE  /\ request' = [q \in Requests |-> request'[q]]
           /\ \A q \in Requests : q # r => request'[q] = request[q]
           /\ request'[r] = IF todo = <<>> THEN Idle ELSE [todo |-> todo, loc |-> loc]
           /\ request'[r].todo = todo
           /\ Busy' \subseteq Busy \cup {r}
           /\ r \in Busy' <=> todo # <<>>
BY DEF Moved, Busy, Idle

Tallies == [started : Nat, faults : Nat, overlapped : BOOLEAN]

(* A request starts. *)
LEMMA Starts ==
    ASSUME request = [q \in Requests |-> request[q]], tally \in Tallies,
           NEW r \in Requests, NEW todo, NEW loc, Start(r, todo, loc)
    PROVE  /\ r \notin Busy /\ request[r].todo = <<>> /\ Moved(r, todo, loc)
           /\ tally' \in Tallies /\ tally'.faults = tally.faults
           /\ ~tally'.overlapped => ~tally.overlapped /\ Busy = {}
<1>1. r \notin Busy /\ request[r].todo = <<>>
  BY DEF Start, Busy
<1>2. Moved(r, todo, loc)
  BY GoesOn DEF Start
<1>3. tally' = [tally EXCEPT !.started = @ + 1, !.overlapped = @ \/ Busy # {}]
  BY DEF Start
<1>4. tally' = [started |-> tally.started + 1, faults |-> tally.faults,
                overlapped |-> (tally.overlapped \/ Busy # {})]
  BY <1>3 DEF Tallies
<1>5. (tally.overlapped \/ Busy # {}) \in BOOLEAN
  OBVIOUS
<1>6. tally' \in Tallies /\ tally'.faults = tally.faults
  BY <1>4, <1>5 DEF Tallies
<1>7. tally'.overlapped = (tally.overlapped \/ Busy # {})
  BY <1>4
<1> QED BY <1>1, <1>2, <1>6, <1>7

(* A command fails. *)
LEMMA Fails ==
    ASSUME request = [q \in Requests |-> request[q]], tally \in Tallies,
           NEW r \in Requests, CommandFails(r)
    PROVE  /\ r \in Busy /\ request[r].todo # <<>> /\ ~At(r, "catch")
           /\ Moved(r, Unwound(Rest(r)), Loc(r))
           /\ tally' \in Tallies /\ tally'.faults = tally.faults + 1 /\ tally'.faults > 0
           /\ tally'.overlapped = tally.overlapped
<1>1. r \in Busy /\ ~At(r, "catch") /\ request[r].todo # <<>>
  BY DEF CommandFails, Busy
<1>2. Moved(r, Unwound(Rest(r)), Loc(r))
  BY GoesOn DEF CommandFails
<1>3. tally' = [started |-> tally.started, faults |-> tally.faults + 1, overlapped |-> tally.overlapped]
  BY DEF CommandFails, Tallies
<1> QED BY <1>1, <1>2, <1>3 DEF Tallies

\* Requests run one after the other, unless the history says otherwise.
OneBusy == ~tally.overlapped => \A q, r \in Busy : q = r

(* Short lists, written one command after the other. *)
LEMMA ShortLists ==
    ASSUME NEW S, NEW a \in S, NEW b \in S, NEW c \in S
    PROVE  /\ <<a>> \o <<b>> = <<a, b>> /\ <<a, b>> \o <<c>> = <<a, b, c>>
           /\ <<a, b>> \o <<>> = <<a, b>> /\ <<a, b, c>> \o <<>> = <<a, b, c>>
<1>1. /\ <<a>> \in Seq(S) /\ <<b>> \in Seq(S) /\ <<c>> \in Seq(S) /\ <<>> \in Seq(S)
      /\ <<a, b>> \in Seq(S) /\ <<a, b, c>> \in Seq(S)
  OBVIOUS
<1>2. ASSUME NEW x \in Seq(S), NEW y \in Seq(S), Len(x) = Len(y), \A i \in 1 .. Len(y) : x[i] = y[i]
      PROVE  x = y
  BY <1>2, SeqEqual
<1>3. <<a>> \o <<b>> = <<a, b>>
  <2> DEFINE x == <<a>> \o <<b>>
  <2>1. x \in Seq(S) /\ Len(x) = 2 /\ Len(<<a, b>>) = 2 /\ \A i \in 1 .. 2 : x[i] = <<a, b>>[i]
    BY <1>1
  <2> HIDE DEF x
  <2>2. x = <<a, b>>
    BY <1>1, <1>2, <2>1
  <2> QED BY <2>2 DEF x
<1>4. <<a, b>> \o <<c>> = <<a, b, c>>
  <2> DEFINE x == <<a, b>> \o <<c>>
  <2>1. x \in Seq(S) /\ Len(x) = 3 /\ Len(<<a, b, c>>) = 3 /\ \A i \in 1 .. 3 : x[i] = <<a, b, c>>[i]
    BY <1>1
  <2> HIDE DEF x
  <2>2. x = <<a, b, c>>
    BY <1>1, <1>2, <2>1
  <2> QED BY <2>2 DEF x
<1>5. \A x \in Seq(S) : x \o <<>> = x
  BY ConcatSimplifications
<1>6. <<a, b>> \o <<>> = <<a, b>> /\ <<a, b, c>> \o <<>> = <<a, b, c>>
  BY <1>1, <1>5
<1> QED BY <1>3, <1>4, <1>6

LEMMA ListOfThree ==
    ASSUME NEW S, NEW a \in S, NEW b \in S, NEW c \in S
    PROVE  (<<a>> \o <<b>>) \o <<c>> = <<a, b, c>>
<1>1. <<a>> \o <<b>> = <<a, b>>
  BY ShortLists
<1>2. <<a, b>> \o <<c>> = <<a, b, c>>
  BY ShortLists
<1> QED BY <1>1, <1>2

LEMMA ListOfFour ==
    ASSUME NEW S, NEW a \in S, NEW b \in S, NEW c \in S, NEW d \in S
    PROVE  /\ ((<<a>> \o <<b>>) \o <<c>>) \o <<d>> = <<a, b, c, d>>
           /\ <<a>> \o ((<<b>> \o <<c>>) \o <<d>>) = <<a, b, c, d>>
<1>1. (<<a>> \o <<b>>) \o <<c>> = <<a, b, c>> /\ (<<b>> \o <<c>>) \o <<d>> = <<b, c, d>>
  BY ListOfThree
<1>2. /\ <<a>> \in Seq(S) /\ <<d>> \in Seq(S) /\ <<a, b, c>> \in Seq(S) /\ <<b, c, d>> \in Seq(S)
      /\ <<a, b, c, d>> \in Seq(S)
  OBVIOUS
<1>3. ASSUME NEW x \in Seq(S), NEW y \in Seq(S), Len(x) = Len(y), \A i \in 1 .. Len(y) : x[i] = y[i]
      PROVE  x = y
  BY <1>3, SeqEqual
<1>4. <<a, b, c>> \o <<d>> = <<a, b, c, d>>
  <2> DEFINE x == <<a, b, c>> \o <<d>>
  <2>1. x \in Seq(S) /\ Len(x) = 4 /\ Len(<<a, b, c, d>>) = 4 /\ \A i \in 1 .. 4 : x[i] = <<a, b, c, d>>[i]
    BY <1>2
  <2> HIDE DEF x
  <2>2. x = <<a, b, c, d>>
    BY <1>2, <1>3, <2>1
  <2> QED BY <2>2 DEF x
<1>5. <<a>> \o <<b, c, d>> = <<a, b, c, d>>
  <2> DEFINE x == <<a>> \o <<b, c, d>>
  <2>1. x \in Seq(S) /\ Len(x) = 4 /\ Len(<<a, b, c, d>>) = 4 /\ \A i \in 1 .. 4 : x[i] = <<a, b, c, d>>[i]
    BY <1>2
  <2> HIDE DEF x
  <2>2. x = <<a, b, c, d>>
    BY <1>2, <1>3, <2>1
  <2> QED BY <2>2 DEF x
<1> QED BY <1>1, <1>4, <1>5

=============================================================================
