---------------------------- MODULE ServerProofs ----------------------------
(***************************************************************************)
(* Proofs about five components of the server, for any number of requests. *)
(* Scoped API keys, with any commands overlapping and failing: a           *)
(* revocation sticks, and a request is let through only with a key that    *)
(* was active a short while ago.  User policies, with requests one after   *)
(* the other and restarts between them: no contract is lowered silently.   *)
(* Memory digests, with everything overlapping: what the cache serves was  *)
(* saved, and a user that counts as done has a digest of all its facts.    *)
(* Memory regions, with everything overlapping: who was granted access     *)
(* reaches the region.  Embedding adapters: what a reset forgets stays     *)
(* forgotten, and what was learnt since is kept.                           *)
(***************************************************************************)
EXTENDS ApiKeys, UserPolicies, SleepDigests, Regions, LoraAdapters,
        FiniteSetTheorems, SequenceTheorems, WellFoundedInduction, TLAPS

-----------------------------------------------------------------------------
(* The commands that a request has still to send.                           *)

TouchTodo(k)  == Cmd("authTouch", k, "-")
InsertTodo(k) == Cmd("authInsert", k, "-") \o TouchTodo(k)
AnswerTodo(k) == Cmd("authAnswer", k, "-") \o InsertTodo(k)
LookupTodo(k) == Cmd("authLookup", k, "-") \o AnswerTodo(k)
CacheTodo(k)  == Cmd("authCache", k, "-") \o LookupTodo(k)

HashTodo(k) == Cmd("keyHash", k, "-")
ListTodo(k) == Cmd("keyList", k, "-") \o HashTodo(k)
SaveTodo    == Cmd("keySet", 0, "-") \o ListTodo(0)

\* A rotation saves a new key after the old one is revoked.
Afterwards == {<<>>, SaveTodo}

EvictTodo(k, after)  == Cmd("keyEvict", k, "-") \o after
RevokeTodo(k, after) == Cmd("keyRevoke", k, "-") \o EvictTodo(k, after)
GetTodo(k, after)    == Cmd("keyGet", k, "-") \o RevokeTodo(k, after)

-----------------------------------------------------------------------------
(* The inductive invariant.                                                 *)

MadeKey == [expires : Nat, revoked : BOOLEAN, made : {TRUE}]

KeyMemory == [lastActive : [KeyIds -> Nat], waited : [KeyIds -> Nat],
              revoked : SUBSET KeyIds, raced : SUBSET KeyIds, worst : Nat]

KeysTyped ==
    /\ keys \in [KeyIds -> MadeKey \cup {NoKey}]
    /\ keyHashes \subseteq keyIndex /\ keyIndex \subseteq {k \in KeyIds : keys[k] # NoKey}
    /\ keyClock \in Nat
    /\ keyCache \in [KeyIds -> {Absent} \cup Nat]
    /\ keyPast \in KeyMemory

\* A key that is active is remembered to be; an entry of the cache is no
\* younger than the last second in which its key was active, but for the time
\* that its lookup waited.
ActivityIsKnown ==
    \A k \in KeyIds :
        /\ keyPast.lastActive[k] <= keyClock
        /\ is_active(keys[k], keyClock) => keyPast.lastActive[k] = keyClock
        /\ keyCache[k] # Absent =>
             keyCache[k] <= keyClock /\ keyCache[k] <= keyPast.lastActive[k] + keyPast.waited[k]

\* An authentication with this key has read it and may still store its copy.
Authenticating(k) ==
    {r \in Requests : request[r].todo \in {AnswerTodo(k), InsertTodo(k), TouchTodo(k)}}

\* The key is revoked, and nobody holds a copy from before.
Settled(k) == keys[k] # NoKey /\ keys[k].revoked /\ Authenticating(k) = {}

\* A key as it was at a lookup.
KeyCopy == [key : MadeKey, at : Nat]

\* Where a request is, and what it knows there: an authentication that has
\* its answer and found the key active knows when the key was active.
Authorizes(r) ==
    \E k \in KeyIds :
        \/ request[r].todo \in {CacheTodo(k), LookupTodo(k)}
        \/ /\ request[r].todo = AnswerTodo(k)
           /\ Loc(r) \in KeyCopy /\ Loc(r).at <= keyClock
           /\ is_active(Loc(r).key, Loc(r).at) => Loc(r).at <= keyPast.lastActive[k]
        \/ /\ request[r].todo \in {InsertTodo(k), TouchTodo(k)}
           /\ Loc(r) \in KeyCopy /\ Loc(r).at <= keyClock /\ Loc(r).at <= keyPast.lastActive[k]

Revokes(r) ==
    \E k \in KeyIds, after \in Afterwards :
        \/ request[r].todo = GetTodo(k, after)
        \/ request[r].todo = RevokeTodo(k, after) /\ Loc(r) \in MadeKey
        \/ /\ request[r].todo = EvictTodo(k, after) /\ Loc(r) \in MadeKey
           /\ k \in keyPast.raced \/ Settled(k)

Saves(r) ==
    \/ request[r].todo = SaveTodo /\ Loc(r) \in MadeKey
    \/ \E k \in KeyIds :
        \/ request[r].todo = ListTodo(k) /\ keys[k] # NoKey
        \/ request[r].todo = HashTodo(k) /\ k \in keyIndex

InPlace(r) == request[r].todo = <<>> \/ Authorizes(r) \/ Revokes(r) \/ Saves(r)

RequestsInPlace == DOMAIN request = Requests /\ \A r \in Requests : InPlace(r)

RevokedIsSettled ==
    \A k \in keyPast.revoked \ keyPast.raced : Settled(k) /\ keyCache[k] = Absent

KeyInv == KeysTyped /\ ActivityIsKnown /\ RequestsInPlace /\ RevokedIsSettled /\ TrustIsBounded

-----------------------------------------------------------------------------
(* Lists of commands.                                                       *)

Verbs == {"authCache", "authLookup", "authAnswer", "authInsert", "authTouch",
          "keyGet", "keyRevoke", "keyEvict", "keySet", "keyList", "keyHash"}

Command == [do : Verbs, id : Nat, how : {"-"}]

\* The commands of a list.
Sends(todo) == {todo[i] : i \in DOMAIN todo}

(* One command and the rest: what its head, its tail and its elements are. *)
LEMMA CmdThen ==
    ASSUME NEW do \in Verbs, NEW k \in Nat, NEW rest \in Seq(Command)
    PROVE  /\ Cmd(do, k, "-") \o rest \in Seq(Command)
           /\ Cmd(do, k, "-") \o rest # <<>>
           /\ Head(Cmd(do, k, "-") \o rest) = [do |-> do, id |-> k, how |-> "-"]
           /\ Tail(Cmd(do, k, "-") \o rest) = rest
           /\ Sends(Cmd(do, k, "-") \o rest) = {[do |-> do, id |-> k, how |-> "-"]} \cup Sends(rest)
<1> DEFINE c == [do |-> do, id |-> k, how |-> "-"]
           todo == <<c>> \o rest
<1>1. <<c>> \in Seq(Command) /\ Len(<<c>>) = 1 /\ <<c>>[1] = c
  BY DEF Command
<1>2. /\ todo \in Seq(Command) /\ Len(todo) = 1 + Len(rest)
      /\ \A i \in 1 .. 1 + Len(rest) : todo[i] = IF i <= 1 THEN <<c>>[i] ELSE rest[i - 1]
  BY <1>1, ConcatProperties
<1>3. Len(rest) \in Nat /\ DOMAIN rest = 1 .. Len(rest) /\ DOMAIN todo = 1 .. Len(todo)
  BY <1>2
<1>4. todo # <<>> /\ Head(todo) = c
  BY <1>1, <1>2, <1>3
<1>5. Tail(todo) = rest
  <2>1. /\ Tail(todo) \in Seq(Command) /\ Len(Tail(todo)) = Len(rest)
        /\ \A i \in 1 .. Len(Tail(todo)) : Tail(todo)[i] = todo[i + 1]
    BY <1>2, <1>3, <1>4, HeadTailProperties
  <2>2. \A i \in 1 .. Len(Tail(todo)) : Tail(todo)[i] = rest[i]
    BY <1>2, <1>3, <2>1
  <2> QED BY <2>1, <2>2, SeqEqual
<1>6. Sends(todo) = {c} \cup Sends(rest)
  <2>1. todo[1] = c /\ 1 \in DOMAIN todo
    BY <1>1, <1>2, <1>3
  <2>2. \A i \in DOMAIN rest : i + 1 \in DOMAIN todo /\ todo[i + 1] = rest[i]
    BY <1>2, <1>3
  <2>3. \A i \in DOMAIN todo : i = 1 \/ (i - 1 \in DOMAIN rest /\ todo[i] = rest[i - 1])
    BY <1>2, <1>3
  <2>4. ASSUME NEW x \in Sends(todo)
        PROVE  x \in {c} \cup Sends(rest)
    <3>1. PICK i \in DOMAIN todo : x = todo[i]
      BY DEF Sends
    <3> HIDE DEF todo, c
    <3> QED BY <2>1, <2>3, <3>1 DEF Sends
  <2>5. ASSUME NEW i \in DOMAIN rest
        PROVE  rest[i] \in Sends(todo)
    <3> HIDE DEF todo
    <3> QED BY <2>2 DEF Sends
  <2>6. c \in Sends(todo)
    <3> HIDE DEF todo, c
    <3> QED BY <2>1 DEF Sends
  <2>7. Sends(rest) \subseteq Sends(todo)
    <3> HIDE DEF todo, c
    <3> QED BY <2>5 DEF Sends
  <2> HIDE DEF todo, c
  <2> QED BY <2>4, <2>6, <2>7
<1> QED BY <1>2, <1>4, <1>5, <1>6 DEF Cmd

(* The same of a single command. *)
LEMMA CmdAlone ==
    ASSUME NEW do \in Verbs, NEW k \in Nat
    PROVE  /\ Cmd(do, k, "-") \in Seq(Command)
           /\ Cmd(do, k, "-") # <<>>
           /\ Head(Cmd(do, k, "-")) = [do |-> do, id |-> k, how |-> "-"]
           /\ Tail(Cmd(do, k, "-")) = <<>>
           /\ Sends(Cmd(do, k, "-")) = {[do |-> do, id |-> k, how |-> "-"]}
BY DEF Cmd, Command, Sends

(* The lists that requests are given when they start are these. *)
LEMMA StartTodos ==
    ASSUME NEW k \in KeyIds
    PROVE  /\ CacheTodo(k) = Cmd("authCache", k, "-") \o Cmd("authLookup", k, "-")
                               \o Cmd("authAnswer", k, "-")
                               \o Cmd("authInsert", k, "-") \o Cmd("authTouch", k, "-")
           /\ SaveTodo = save_api_key
           /\ GetTodo(k, <<>>) = Cmd("keyGet", k, "-") \o Cmd("keyRevoke", k, "-") \o Cmd("keyEvict", k, "-")
           /\ GetTodo(k, SaveTodo) = Cmd("keyGet", k, "-") \o Cmd("keyRevoke", k, "-")
                                       \o Cmd("keyEvict", k, "-") \o save_api_key
<1> USE KeyAssumption DEF Verbs
<1>1. \A do \in Verbs, i \in Nat : Cmd(do, i, "-") \in Seq(Command)
  BY CmdAlone
<1>2. \A s, t \in Seq(Command) : s \o t \in Seq(Command)
  BY ConcatProperties
<1>3. \A s, t, u \in Seq(Command) : (s \o t) \o u = s \o (t \o u)
  BY ConcatAssociative
<1>4. CacheTodo(k) = Cmd("authCache", k, "-") \o Cmd("authLookup", k, "-") \o Cmd("authAnswer", k, "-")
                       \o Cmd("authInsert", k, "-") \o Cmd("authTouch", k, "-")
  <2> DEFINE a == Cmd("authCache", k, "-")
             b == Cmd("authLookup", k, "-")
             c == Cmd("authInsert", k, "-")
             d == Cmd("authTouch", k, "-")
             e == Cmd("authAnswer", k, "-")
  <2>1. /\ a \in Seq(Command) /\ b \in Seq(Command) /\ c \in Seq(Command) /\ d \in Seq(Command)
        /\ e \in Seq(Command)
    BY <1>1
  <2> HIDE DEF a, b, c, d, e
  <2>2. PICK p, q, v, w : p = a \o b /\ q = p \o e /\ v = c \o d /\ w = e \o v
    OBVIOUS
  <2>a. a \in Seq(Command)
    BY <2>1
  <2>b. b \in Seq(Command)
    BY <2>1
  <2>c. c \in Seq(Command)
    BY <2>1
  <2>d. d \in Seq(Command)
    BY <2>1
  <2>e. e \in Seq(Command)
    BY <2>1
  <2>p. p \in Seq(Command)
    BY <1>2, <2>a, <2>b, <2>2
  <2>q. q \in Seq(Command)
    BY <1>2, <2>p, <2>e, <2>2
  <2>v. v \in Seq(Command)
    BY <1>2, <2>c, <2>d, <2>2
  <2>w. w \in Seq(Command)
    BY <1>2, <2>e, <2>v, <2>2
  <2>5. (q \o c) \o d = q \o (c \o d)
    BY <1>3, <2>q, <2>c, <2>d, Zenon
  <2>6. (p \o e) \o v = p \o (e \o v)
    BY <1>3, <2>p, <2>e, <2>v, Zenon
  <2>7. (a \o b) \o w = a \o (b \o w)
    BY <1>3, <2>a, <2>b, <2>w, Zenon
  <2>8. (((a \o b) \o e) \o c) \o d = a \o (b \o (e \o (c \o d)))
    BY <2>2, <2>5, <2>6, <2>7
  <2> QED BY <2>8, Zenon
          DEF CacheTodo, LookupTodo, AnswerTodo, InsertTodo, TouchTodo, a, b, c, d, e
<1>5. SaveTodo = save_api_key
  <2> DEFINE a == Cmd("keySet", 0, "-")
             b == Cmd("keyList", 0, "-")
             c == Cmd("keyHash", 0, "-")
  <2>1. a \in Seq(Command) /\ b \in Seq(Command) /\ c \in Seq(Command)
    BY <1>1
  <2> HIDE DEF a, b, c
  <2>2. a \o (b \o c) = a \o b \o c
    BY <1>3, <2>1
  <2> QED BY <2>2 DEF SaveTodo, ListTodo, HashTodo, save_api_key, a, b, c
<1>6. SaveTodo \in Seq(Command)
  BY <1>1, <1>2 DEF SaveTodo, ListTodo, HashTodo
<1>7. ASSUME NEW after \in {<<>>, SaveTodo}
      PROVE  GetTodo(k, after) = Cmd("keyGet", k, "-") \o Cmd("keyRevoke", k, "-")
                                   \o Cmd("keyEvict", k, "-") \o after
  <2> DEFINE a == Cmd("keyGet", k, "-")
             b == Cmd("keyRevoke", k, "-")
             c == Cmd("keyEvict", k, "-")
  <2>1. a \in Seq(Command) /\ b \in Seq(Command) /\ c \in Seq(Command) /\ after \in Seq(Command)
    <3>1. <<>> \in Seq(Command)
      OBVIOUS
    <3> HIDE DEF Verbs
    <3>2. after \in Seq(Command)
      BY <1>6, <3>1, Zenon
    <3> QED BY <1>1, <3>2 DEF Verbs
  <2> HIDE DEF a, b, c
  <2>a. a \o b \o c = a \o (b \o c)
    BY <1>3, <2>1, ZenonT(30)
  <2>b. (b \o c) \o after = b \o (c \o after)
    BY <1>3, <2>1, ZenonT(30)
  <2>c. b \o c \in Seq(Command)
    BY <1>2, <2>1, Zenon
  <2>d. \A x \in Seq(Command) : (a \o x) \o after = a \o (x \o after)
    BY <1>3, <2>1, ZenonT(30)
  <2>3. (a \o (b \o c)) \o after = a \o ((b \o c) \o after)
    BY <2>c, <2>d, Zenon
  <2> QED BY <2>a, <2>b, <2>3, Zenon DEF GetTodo, RevokeTodo, EvictTodo, a, b, c
<1>8. Cmd("keyGet", k, "-") \o Cmd("keyRevoke", k, "-") \o Cmd("keyEvict", k, "-") \o <<>>
        = Cmd("keyGet", k, "-") \o Cmd("keyRevoke", k, "-") \o Cmd("keyEvict", k, "-")
  <2> DEFINE a == Cmd("keyGet", k, "-")
             b == Cmd("keyRevoke", k, "-")
             c == Cmd("keyEvict", k, "-")
  <2>1. a \in Seq(Command) /\ b \in Seq(Command) /\ c \in Seq(Command)
    BY <1>1
  <2> HIDE DEF a, b, c
  <2>2. (a \o b) \o c \in Seq(Command)
    BY <1>2, <2>1, Zenon
  <2>3. ((a \o b) \o c) \o <<>> = (a \o b) \o c
    BY <2>2, ConcatEmptySeq, Zenon
  <2> QED BY <2>3 DEF a, b, c
<1> QED BY <1>4, <1>5, <1>7, <1>8

(* The first command of every list, and what is left after it.  Only an  *)
(* authentication past its lookup has a copy to store, that of its key. *)
LEMMA Todos ==
    ASSUME NEW k \in KeyIds, NEW after \in Afterwards
    PROVE  /\ CacheTodo(k) # <<>> /\ LookupTodo(k) # <<>> /\ InsertTodo(k) # <<>> /\ TouchTodo(k) # <<>>
           /\ AnswerTodo(k) # <<>> /\ AnswerTodo(k) \in Seq(Command)
           /\ Head(AnswerTodo(k)) = [do |-> "authAnswer", id |-> k, how |-> "-"]
           /\ Tail(AnswerTodo(k)) = InsertTodo(k)
           /\ GetTodo(k, after) # <<>> /\ RevokeTodo(k, after) # <<>> /\ EvictTodo(k, after) # <<>>
           /\ SaveTodo # <<>> /\ ListTodo(k) # <<>> /\ HashTodo(k) # <<>>
           /\ Head(CacheTodo(k)) = [do |-> "authCache", id |-> k, how |-> "-"]
           /\ Head(LookupTodo(k)) = [do |-> "authLookup", id |-> k, how |-> "-"]
           /\ Head(InsertTodo(k)) = [do |-> "authInsert", id |-> k, how |-> "-"]
           /\ Head(TouchTodo(k)) = [do |-> "authTouch", id |-> k, how |-> "-"]
           /\ Head(GetTodo(k, after)) = [do |-> "keyGet", id |-> k, how |-> "-"]
           /\ Head(RevokeTodo(k, after)) = [do |-> "keyRevoke", id |-> k, how |-> "-"]
           /\ Head(EvictTodo(k, after)) = [do |-> "keyEvict", id |-> k, how |-> "-"]
           /\ Head(SaveTodo) = [do |-> "keySet", id |-> 0, how |-> "-"]
           /\ Head(ListTodo(k)) = [do |-> "keyList", id |-> k, how |-> "-"]
           /\ Head(HashTodo(k)) = [do |-> "keyHash", id |-> k, how |-> "-"]
           /\ Tail(CacheTodo(k)) = LookupTodo(k) /\ Tail(LookupTodo(k)) = AnswerTodo(k)
           /\ Tail(InsertTodo(k)) = TouchTodo(k) /\ Tail(TouchTodo(k)) = <<>>
           /\ Tail(GetTodo(k, after)) = RevokeTodo(k, after)
           /\ Tail(RevokeTodo(k, after)) = EvictTodo(k, after)
           /\ Tail(EvictTodo(k, after)) = after
           /\ Tail(SaveTodo) = ListTodo(0)
           /\ Tail(ListTodo(k)) = HashTodo(k) /\ Tail(HashTodo(k)) = <<>>
           /\ CacheTodo(k) \in Seq(Command) /\ LookupTodo(k) \in Seq(Command)
           /\ InsertTodo(k) \in Seq(Command) /\ TouchTodo(k) \in Seq(Command)
           /\ GetTodo(k, after) \in Seq(Command) /\ RevokeTodo(k, after) \in Seq(Command)
           /\ EvictTodo(k, after) \in Seq(Command) /\ SaveTodo \in Seq(Command)
           /\ ListTodo(k) \in Seq(Command) /\ ListTodo(0) \in Seq(Command)
           /\ HashTodo(k) \in Seq(Command) /\ <<>> \in Seq(Command)
           /\ \A todo \in {AnswerTodo(k), InsertTodo(k), TouchTodo(k)} :
                 [do |-> "authTouch", id |-> k, how |-> "-"] \in Sends(todo)
<1>0. k \in Nat /\ 0 \in Nat
  BY KeyAssumption
<1>a. /\ "authCache" \in Verbs /\ "authLookup" \in Verbs /\ "authAnswer" \in Verbs /\ "authInsert" \in Verbs
      /\ "authTouch" \in Verbs /\ "keyGet" \in Verbs /\ "keyRevoke" \in Verbs
      /\ "keyEvict" \in Verbs /\ "keySet" \in Verbs /\ "keyList" \in Verbs /\ "keyHash" \in Verbs
  BY DEF Verbs
<1>1. /\ TouchTodo(k) \in Seq(Command) /\ TouchTodo(k) # <<>> /\ Tail(TouchTodo(k)) = <<>>
      /\ Head(TouchTodo(k)) = [do |-> "authTouch", id |-> k, how |-> "-"]
      /\ Sends(TouchTodo(k)) = {[do |-> "authTouch", id |-> k, how |-> "-"]}
  BY <1>a, <1>0, CmdAlone, Zenon DEF TouchTodo
<1>2. /\ InsertTodo(k) \in Seq(Command) /\ InsertTodo(k) # <<>> /\ Tail(InsertTodo(k)) = TouchTodo(k)
      /\ Head(InsertTodo(k)) = [do |-> "authInsert", id |-> k, how |-> "-"]
      /\ Sends(InsertTodo(k)) = {[do |-> "authInsert", id |-> k, how |-> "-"]} \cup Sends(TouchTodo(k))
  <2>1. "authInsert" \in Verbs /\ TouchTodo(k) \in Seq(Command)
    BY <1>a, <1>1, Zenon
  <2> QED BY <1>0, <2>1, CmdThen, Zenon DEF InsertTodo
<1>b. /\ AnswerTodo(k) \in Seq(Command) /\ AnswerTodo(k) # <<>> /\ Tail(AnswerTodo(k)) = InsertTodo(k)
      /\ Head(AnswerTodo(k)) = [do |-> "authAnswer", id |-> k, how |-> "-"]
      /\ Sends(AnswerTodo(k)) = {[do |-> "authAnswer", id |-> k, how |-> "-"]} \cup Sends(InsertTodo(k))
  <2>1. "authAnswer" \in Verbs /\ InsertTodo(k) \in Seq(Command)
    BY <1>a, <1>2, Zenon
  <2> QED BY <1>0, <2>1, CmdThen, Zenon DEF AnswerTodo
<1>3. /\ LookupTodo(k) \in Seq(Command) /\ LookupTodo(k) # <<>> /\ Tail(LookupTodo(k)) = AnswerTodo(k)
      /\ Head(LookupTodo(k)) = [do |-> "authLookup", id |-> k, how |-> "-"]
  <2>1. "authLookup" \in Verbs /\ AnswerTodo(k) \in Seq(Command)
    BY <1>a, <1>b, Zenon
  <2> QED BY <1>0, <2>1, CmdThen, Zenon DEF LookupTodo
<1>4. /\ CacheTodo(k) \in Seq(Command) /\ CacheTodo(k) # <<>> /\ Tail(CacheTodo(k)) = LookupTodo(k)
      /\ Head(CacheTodo(k)) = [do |-> "authCache", id |-> k, how |-> "-"]
  <2>1. "authCache" \in Verbs /\ LookupTodo(k) \in Seq(Command)
    BY <1>a, <1>3, Zenon
  <2> QED BY <1>0, <2>1, CmdThen, Zenon DEF CacheTodo
<1>5. ASSUME NEW i \in Nat
      PROVE  /\ HashTodo(i) \in Seq(Command) /\ HashTodo(i) # <<>> /\ Tail(HashTodo(i)) = <<>>
             /\ Head(HashTodo(i)) = [do |-> "keyHash", id |-> i, how |-> "-"]
             /\ Sends(HashTodo(i)) = {[do |-> "keyHash", id |-> i, how |-> "-"]}
  BY <1>a, CmdAlone, Zenon DEF HashTodo
<1>6. ASSUME NEW i \in Nat
      PROVE  /\ ListTodo(i) \in Seq(Command) /\ ListTodo(i) # <<>> /\ Tail(ListTodo(i)) = HashTodo(i)
             /\ Head(ListTodo(i)) = [do |-> "keyList", id |-> i, how |-> "-"]
             /\ Sends(ListTodo(i)) = {[do |-> "keyList", id |-> i, how |-> "-"]} \cup Sends(HashTodo(i))
  BY <1>a, <1>5, CmdThen, ZenonT(30) DEF ListTodo
<1>7. /\ SaveTodo \in Seq(Command) /\ SaveTodo # <<>> /\ Tail(SaveTodo) = ListTodo(0)
      /\ Head(SaveTodo) = [do |-> "keySet", id |-> 0, how |-> "-"]
      /\ Sends(SaveTodo) = {[do |-> "keySet", id |-> 0, how |-> "-"]} \cup Sends(ListTodo(0))
  <2>1. "keySet" \in Verbs /\ ListTodo(0) \in Seq(Command)
    BY <1>0, <1>a, <1>6, Zenon
  <2> QED BY <1>0, <2>1, CmdThen, Zenon DEF SaveTodo
<1>8. after \in Seq(Command)
  <2>1. <<>> \in Seq(Command)
    OBVIOUS
  <2> QED BY <1>7, <2>1 DEF Afterwards
<1>9. /\ EvictTodo(k, after) \in Seq(Command) /\ EvictTodo(k, after) # <<>>
      /\ Tail(EvictTodo(k, after)) = after
      /\ Head(EvictTodo(k, after)) = [do |-> "keyEvict", id |-> k, how |-> "-"]
      /\ Sends(EvictTodo(k, after)) = {[do |-> "keyEvict", id |-> k, how |-> "-"]} \cup Sends(after)
  <2>1. "keyEvict" \in Verbs /\ after \in Seq(Command)
    BY <1>a, <1>8, Zenon
  <2> QED BY <1>0, <2>1, CmdThen, Zenon DEF EvictTodo
<1>10. /\ RevokeTodo(k, after) \in Seq(Command) /\ RevokeTodo(k, after) # <<>>
       /\ Tail(RevokeTodo(k, after)) = EvictTodo(k, after)
       /\ Head(RevokeTodo(k, after)) = [do |-> "keyRevoke", id |-> k, how |-> "-"]
       /\ Sends(RevokeTodo(k, after)) = {[do |-> "keyRevoke", id |-> k, how |-> "-"]}
                                        \cup Sends(EvictTodo(k, after))
  <2>1. "keyRevoke" \in Verbs /\ EvictTodo(k, after) \in Seq(Command)
    BY <1>a, <1>9, Zenon
  <2> QED BY <1>0, <2>1, CmdThen, Zenon DEF RevokeTodo
<1>11. /\ GetTodo(k, after) \in Seq(Command) /\ GetTodo(k, after) # <<>>
       /\ Tail(GetTodo(k, after)) = RevokeTodo(k, after)
       /\ Head(GetTodo(k, after)) = [do |-> "keyGet", id |-> k, how |-> "-"]
       /\ Sends(GetTodo(k, after)) = {[do |-> "keyGet", id |-> k, how |-> "-"]}
                                     \cup Sends(RevokeTodo(k, after))
  <2>1. "keyGet" \in Verbs /\ RevokeTodo(k, after) \in Seq(Command)
    BY <1>a, <1>10, Zenon
  <2> QED BY <1>0, <2>1, CmdThen, Zenon DEF GetTodo
<1>12. <<>> \in Seq(Command)
  OBVIOUS
<1>13. ListTodo(k) \in Seq(Command) /\ ListTodo(k) # <<>> /\ Tail(ListTodo(k)) = HashTodo(k)
       /\ Head(ListTodo(k)) = [do |-> "keyList", id |-> k, how |-> "-"] /\ ListTodo(0) \in Seq(Command)
       /\ HashTodo(k) \in Seq(Command) /\ HashTodo(k) # <<>> /\ Tail(HashTodo(k)) = <<>>
       /\ Head(HashTodo(k)) = [do |-> "keyHash", id |-> k, how |-> "-"]
  BY <1>0, <1>5, <1>6, Zenon
<1>14. \A todo \in {AnswerTodo(k), InsertTodo(k), TouchTodo(k)} :
         [do |-> "authTouch", id |-> k, how |-> "-"] \in Sends(todo)
  BY <1>1, <1>2, <1>b
<1> QED BY <1>1, <1>2, <1>b, <1>3, <1>4, <1>7, <1>9, <1>10, <1>11, <1>12, <1>13, <1>14, Zenon


-----------------------------------------------------------------------------
(* Where requests are.                                                      *)

(* Lists are told apart by their first commands. *)
LEMMA TodoNames ==
    ASSUME NEW k \in KeyIds, NEW after \in Afterwards
    PROVE  /\ Head(CacheTodo(k)).do = "authCache" /\ Head(LookupTodo(k)).do = "authLookup"
           /\ Head(AnswerTodo(k)).do = "authAnswer"
           /\ Head(InsertTodo(k)).do = "authInsert" /\ Head(TouchTodo(k)).do = "authTouch"
           /\ Head(GetTodo(k, after)).do = "keyGet" /\ Head(RevokeTodo(k, after)).do = "keyRevoke"
           /\ Head(EvictTodo(k, after)).do = "keyEvict" /\ Head(SaveTodo).do = "keySet"
           /\ Head(ListTodo(k)).do = "keyList" /\ Head(HashTodo(k)).do = "keyHash"
<1>1. /\ Head(CacheTodo(k)) = [do |-> "authCache", id |-> k, how |-> "-"]
      /\ Head(AnswerTodo(k)) = [do |-> "authAnswer", id |-> k, how |-> "-"]
      /\ Head(LookupTodo(k)) = [do |-> "authLookup", id |-> k, how |-> "-"]
      /\ Head(InsertTodo(k)) = [do |-> "authInsert", id |-> k, how |-> "-"]
      /\ Head(TouchTodo(k)) = [do |-> "authTouch", id |-> k, how |-> "-"]
      /\ Head(GetTodo(k, after)) = [do |-> "keyGet", id |-> k, how |-> "-"]
      /\ Head(RevokeTodo(k, after)) = [do |-> "keyRevoke", id |-> k, how |-> "-"]
      /\ Head(EvictTodo(k, after)) = [do |-> "keyEvict", id |-> k, how |-> "-"]
      /\ Head(SaveTodo) = [do |-> "keySet", id |-> 0, how |-> "-"]
      /\ Head(ListTodo(k)) = [do |-> "keyList", id |-> k, how |-> "-"]
      /\ Head(HashTodo(k)) = [do |-> "keyHash", id |-> k, how |-> "-"]
  BY Todos, Zenon
<1> QED BY <1>1

(* The next command of a request says where it is. *)
LEMMA Stages ==
    ASSUME RequestsInPlace, NEW r \in Requests, r \in Busy
    PROVE  /\ request[r].todo \in Seq(Command)
           /\ At(r, "authCache") => \E k \in KeyIds : request[r].todo = CacheTodo(k)
           /\ At(r, "authLookup") => \E k \in KeyIds : request[r].todo = LookupTodo(k)
           /\ At(r, "authAnswer") => \E k \in KeyIds :
                 /\ request[r].todo = AnswerTodo(k)
                 /\ Loc(r) \in KeyCopy /\ Loc(r).at <= keyClock
                 /\ is_active(Loc(r).key, Loc(r).at) => Loc(r).at <= keyPast.lastActive[k]
           /\ At(r, "authInsert") => \E k \in KeyIds :
                 /\ request[r].todo = InsertTodo(k)
                 /\ Loc(r) \in KeyCopy /\ Loc(r).at <= keyClock /\ Loc(r).at <= keyPast.lastActive[k]
           /\ At(r, "authTouch") => \E k \in KeyIds :
                 /\ request[r].todo = TouchTodo(k)
                 /\ Loc(r) \in KeyCopy /\ Loc(r).at <= keyClock /\ Loc(r).at <= keyPast.lastActive[k]
           /\ At(r, "keyGet") => \E k \in KeyIds, after \in Afterwards : request[r].todo = GetTodo(k, after)
           /\ At(r, "keyRevoke") => \E k \in KeyIds, after \in Afterwards :
                 request[r].todo = RevokeTodo(k, after) /\ Loc(r) \in MadeKey
           /\ At(r, "keyEvict") => \E k \in KeyIds, after \in Afterwards :
                 /\ request[r].todo = EvictTodo(k, after) /\ Loc(r) \in MadeKey
                 /\ k \in keyPast.raced \/ Settled(k)
           /\ At(r, "keySet") => request[r].todo = SaveTodo /\ Loc(r) \in MadeKey
           /\ At(r, "keyList") => \E k \in KeyIds : request[r].todo = ListTodo(k) /\ keys[k] # NoKey
           /\ At(r, "keyHash") => \E k \in KeyIds : request[r].todo = HashTodo(k) /\ k \in keyIndex
<1>1. Authorizes(r) \/ Revokes(r) \/ Saves(r)
  BY DEF RequestsInPlace, InPlace, Busy
<1>2. CASE Authorizes(r)
  <2>1. PICK k \in KeyIds :
           \/ request[r].todo \in {CacheTodo(k), LookupTodo(k)}
           \/ /\ request[r].todo = AnswerTodo(k)
              /\ Loc(r) \in KeyCopy /\ Loc(r).at <= keyClock
              /\ is_active(Loc(r).key, Loc(r).at) => Loc(r).at <= keyPast.lastActive[k]
           \/ /\ request[r].todo \in {InsertTodo(k), TouchTodo(k)}
              /\ Loc(r) \in KeyCopy /\ Loc(r).at <= keyClock /\ Loc(r).at <= keyPast.lastActive[k]
    BY <1>2 DEF Authorizes
  <2>2. <<>> \in Afterwards
    BY DEF Afterwards
  <2>3. /\ CacheTodo(k) \in Seq(Command) /\ LookupTodo(k) \in Seq(Command)
        /\ AnswerTodo(k) \in Seq(Command)
        /\ InsertTodo(k) \in Seq(Command) /\ TouchTodo(k) \in Seq(Command)
    BY <2>2, Todos, Zenon
  <2>4. /\ Head(CacheTodo(k)).do = "authCache" /\ Head(LookupTodo(k)).do = "authLookup"
        /\ Head(AnswerTodo(k)).do = "authAnswer"
        /\ Head(InsertTodo(k)).do = "authInsert" /\ Head(TouchTodo(k)).do = "authTouch"
    BY <2>2, TodoNames, Zenon
  <2> QED BY <2>1, <2>3, <2>4 DEF At
<1>3. CASE Revokes(r)
  <2>1. PICK k \in KeyIds, after \in Afterwards :
          \/ request[r].todo = GetTodo(k, after)
          \/ request[r].todo = RevokeTodo(k, after) /\ Loc(r) \in MadeKey
          \/ /\ request[r].todo = EvictTodo(k, after) /\ Loc(r) \in MadeKey
             /\ k \in keyPast.raced \/ Settled(k)
    BY <1>3 DEF Revokes
  <2>2. /\ GetTodo(k, after) \in Seq(Command) /\ RevokeTodo(k, after) \in Seq(Command)
        /\ EvictTodo(k, after) \in Seq(Command)
    BY Todos, Zenon
  <2>3. /\ Head(GetTodo(k, after)).do = "keyGet" /\ Head(RevokeTodo(k, after)).do = "keyRevoke"
        /\ Head(EvictTodo(k, after)).do = "keyEvict"
    BY TodoNames, Zenon
  <2> QED BY <2>1, <2>2, <2>3 DEF At
<1>4. CASE Saves(r)
  <2>1. PICK k \in KeyIds :
          \/ request[r].todo = SaveTodo /\ Loc(r) \in MadeKey
          \/ request[r].todo = ListTodo(k) /\ keys[k] # NoKey
          \/ request[r].todo = HashTodo(k) /\ k \in keyIndex
    BY <1>4, KeyAssumption DEF Saves
  <2>2. <<>> \in Afterwards
    BY DEF Afterwards
  <2>3. SaveTodo \in Seq(Command) /\ ListTodo(k) \in Seq(Command) /\ HashTodo(k) \in Seq(Command)
    BY <2>2, Todos, Zenon
  <2>4. /\ Head(SaveTodo).do = "keySet" /\ Head(ListTodo(k)).do = "keyList"
        /\ Head(HashTodo(k)).do = "keyHash"
    BY <2>2, TodoNames, Zenon
  <2> QED BY <2>1, <2>3, <2>4 DEF At
<1> QED BY <1>1, <1>2, <1>3, <1>4

(* A request that fails or is refused is over: nothing catches an error. *)
LEMMA Unwinds ==
    ASSUME RequestsInPlace, NEW r \in Requests, r \in Busy
    PROVE  Unwound(Rest(r)) = <<>>
<1>1. request[r].todo \in Seq(Command) /\ request[r].todo # <<>>
  BY Stages DEF Busy
<1>2. Rest(r) \in Seq(Command)
  BY <1>1 DEF Rest
<1>3. \A i \in DOMAIN Rest(r) : Rest(r)[i] \in Command
  BY <1>2
<1>4. \A c \in Command : c.do # "catch"
  BY DEF Command, Verbs
<1> QED BY <1>3, <1>4 DEF Unwound

(* Requests past the lookup of a key may store their copy of it. *)
LEMMA CopiesTouch ==
    ASSUME NEW k \in KeyIds
    PROVE  Authenticating(k) \subseteq Touching(k)
<1> SUFFICES ASSUME NEW r \in Authenticating(k)
             PROVE  r \in Touching(k)
  OBVIOUS
<1>1. r \in Requests /\ request[r].todo \in {AnswerTodo(k), InsertTodo(k), TouchTodo(k)}
  BY DEF Authenticating
<1>2. <<>> \in Afterwards
  BY DEF Afterwards
<1>3. r \in Busy /\ ~At(r, "authCache") /\ ~At(r, "authLookup")
  <2>1. AnswerTodo(k) # <<>> /\ InsertTodo(k) # <<>> /\ TouchTodo(k) # <<>>
    BY <1>2, Todos, Zenon
  <2>2. /\ Head(AnswerTodo(k)).do = "authAnswer" /\ Head(InsertTodo(k)).do = "authInsert"
        /\ Head(TouchTodo(k)).do = "authTouch"
    BY <1>2, TodoNames, Zenon
  <2> QED BY <1>1, <2>1, <2>2 DEF Busy, At
<1>4. [do |-> "authTouch", id |-> k, how |-> "-"] \in Sends(request[r].todo)
  BY <1>1, <1>2, Todos, Zenon
<1>5. PICK i \in DOMAIN request[r].todo :
         request[r].todo[i] = [do |-> "authTouch", id |-> k, how |-> "-"]
  BY <1>4 DEF Sends
<1> QED BY <1>3, <1>5 DEF Touching

(* The first free id, if an id is free. *)
LEMMA NewKeyIsFree ==
    ASSUME NEW j \in KeyIds, keys[j] = NoKey
    PROVE  NewKey \in KeyIds /\ keys[NewKey] = NoKey
<1> DEFINE free == {k \in KeyIds : keys[k] = NoKey}
<1>1. free \subseteq Nat /\ free # {}
  BY KeyAssumption
<1> HIDE DEF free
<1>2. PICK k \in free : \A i \in free : <<i, k>> \notin OpToRel(<, Nat)
  BY <1>1, WFMin, NatLessThanWellFounded
<1>3. \A i \in free : ~(i < k)
  BY <1>1, <1>2 DEF OpToRel
<1>4. k \in KeyIds /\ keys[k] = NoKey /\ \A i \in KeyIds : i < k => keys[i] # NoKey
  BY <1>2, <1>3 DEF free
<1> QED BY <1>4 DEF NewKey

(* A request moves on: the others stay where they are, and settled keys *)
(* stay settled.                                                        *)
LEMMA OthersStay ==
    ASSUME RequestsInPlace, NEW r \in Requests, NEW x,
           request' = [request EXCEPT ![r] = x],
           keyClock' = keyClock, keyPast.raced \subseteq keyPast'.raced, keyIndex \subseteq keyIndex',
           \A k \in KeyIds : \A n \in Nat : n <= keyPast.lastActive[k] => n <= keyPast'.lastActive[k],
           \A k \in KeyIds : keys[k] # NoKey => keys'[k] # NoKey,
           \A k \in KeyIds : Settled(k) =>
               keys'[k].revoked /\ (x.todo \in {AnswerTodo(k), InsertTodo(k), TouchTodo(k)} => r \in Authenticating(k)),
           InPlace(r)'
    PROVE  RequestsInPlace' /\ \A k \in KeyIds : Settled(k) => Settled(k)'
<1>1. DOMAIN request' = Requests /\ request'[r] = x /\ \A q \in Requests \ {r} : request'[q] = request[q]
  BY DEF RequestsInPlace
<1>2. ASSUME NEW k \in KeyIds, Settled(k)
      PROVE  Settled(k)'
  <2>1. Authenticating(k)' \subseteq Authenticating(k)
    BY <1>1, <1>2 DEF Authenticating
  <2> QED BY <1>2, <2>1 DEF Settled
<1>3. ASSUME NEW q \in Requests \ {r}
      PROVE  InPlace(q)'
  <2>1. request'[q] = request[q] /\ InPlace(q)
    BY <1>1, <1>3 DEF RequestsInPlace
  <2>2. ASSUME Authorizes(q)
        PROVE  Authorizes(q)'
    <3>1. Loc(q)' = Loc(q)
      BY <2>1 DEF Loc
    <3>2. Loc(q) \in KeyCopy => Loc(q).at \in Nat
      BY DEF KeyCopy
    <3>3. PICK k \in KeyIds :
             \/ request[q].todo \in {CacheTodo(k), LookupTodo(k)}
             \/ /\ request[q].todo = AnswerTodo(k)
                /\ Loc(q) \in KeyCopy /\ Loc(q).at <= keyClock
                /\ is_active(Loc(q).key, Loc(q).at) => Loc(q).at <= keyPast.lastActive[k]
             \/ /\ request[q].todo \in {InsertTodo(k), TouchTodo(k)}
                /\ Loc(q) \in KeyCopy /\ Loc(q).at <= keyClock /\ Loc(q).at <= keyPast.lastActive[k]
      BY <2>2 DEF Authorizes
    <3> QED BY <2>1, <3>1, <3>2, <3>3 DEF Authorizes
  <2>3. Revokes(q) => Revokes(q)'
    BY <1>2, <2>1 DEF Revokes, Loc
  <2>4. Saves(q) => Saves(q)'
    BY <2>1 DEF Saves, Loc
  <2> QED BY <2>1, <2>2, <2>3, <2>4 DEF InPlace
<1> QED BY <1>1, <1>2, <1>3 DEF RequestsInPlace

(* A list with another command first is not that of a copy to be stored. *)
LEMMA NoCopy ==
    ASSUME NEW t, t = <<>> \/ Head(t).do \notin {"authAnswer", "authInsert", "authTouch"}, NEW k \in KeyIds
    PROVE  t \notin {AnswerTodo(k), InsertTodo(k), TouchTodo(k)}
<1>1. <<>> \in Afterwards
  BY DEF Afterwards
<1>2. /\ Head(AnswerTodo(k)).do = "authAnswer" /\ AnswerTodo(k) # <<>>
      /\ Head(InsertTodo(k)).do = "authInsert" /\ Head(TouchTodo(k)).do = "authTouch"
      /\ InsertTodo(k) # <<>> /\ TouchTodo(k) # <<>>
  BY <1>1, TodoNames, Todos, Zenon
<1> QED BY <1>2

-----------------------------------------------------------------------------
(* Steps that change no key.                                                *)

LEMMA QuietStep ==
    ASSUME KeyInv, NEW r \in Requests, NEW x, request' = [request EXCEPT ![r] = x],
           UNCHANGED keyVars,
           \A k \in KeyIds : Settled(k) =>
               (x.todo \in {AnswerTodo(k), InsertTodo(k), TouchTodo(k)} => r \in Authenticating(k)),
           InPlace(r)'
    PROVE  KeyInv'
<1>1. RequestsInPlace' /\ \A k \in KeyIds : Settled(k) => Settled(k)'
  BY OthersStay DEF KeyInv, keyVars, Settled
<1>2. KeysTyped' /\ ActivityIsKnown' /\ TrustIsBounded'
  BY DEF KeyInv, keyVars, KeysTyped, KeyMemory, ActivityIsKnown, TrustIsBounded, is_active
<1>3. RevokedIsSettled'
  BY <1>1 DEF KeyInv, keyVars, RevokedIsSettled, KeysTyped, KeyMemory
<1> QED BY <1>1, <1>2, <1>3 DEF KeyInv

(* The request is over. *)
LEMMA OverStep ==
    ASSUME KeyInv, NEW r \in Requests, request' = [request EXCEPT ![r] = Idle], UNCHANGED keyVars
    PROVE  KeyInv'
<1>1. request'[r].todo = <<>> /\ Idle.todo = <<>>
  BY DEF KeyInv, RequestsInPlace, Idle
<1>2. \A k \in KeyIds : Idle.todo \notin {AnswerTodo(k), InsertTodo(k), TouchTodo(k)}
  BY <1>1, NoCopy
<1>3. InPlace(r)'
  BY <1>1 DEF InPlace
<1> QED BY <1>2, <1>3, QuietStep

(* A refusal, and an error, end the request. *)
LEMMA RefuseEnds ==
    ASSUME RequestsInPlace, NEW r \in Requests, r \in Busy, Continue(r, Unwound(Rest(r)), Loc(r))
    PROVE  request' = [request EXCEPT ![r] = Idle]
BY Unwinds DEF Continue

(* Requests start at the beginning of their lists. *)
LEMMA StartKeeps ==
    ASSUME KeyInv, NEW r \in Requests, NEW t, NEW loc, Start(r, t, loc), UNCHANGED keyVars,
           \/ \E k \in KeyIds : t = CacheTodo(k) \/ \E after \in Afterwards : t = GetTodo(k, after)
           \/ t = SaveTodo /\ loc \in MadeKey
    PROVE  KeyInv'
<1> DEFINE x == [todo |-> t, loc |-> loc]
<1>a. <<>> \in Afterwards /\ 1 \in KeyIds
  BY KeyAssumption DEF Afterwards
<1>1. t # <<>> /\ Head(t).do \in {"authCache", "keyGet", "keySet"}
  <2>1. \A k \in KeyIds : CacheTodo(k) # <<>> /\ Head(CacheTodo(k)).do = "authCache"
    BY <1>a, Todos, TodoNames, Zenon
  <2>2. \A k \in KeyIds : \A after \in Afterwards :
           GetTodo(k, after) # <<>> /\ Head(GetTodo(k, after)).do = "keyGet"
    BY Todos, TodoNames, Zenon
  <2>3. SaveTodo # <<>> /\ Head(SaveTodo).do = "keySet"
    BY <1>a, Todos, TodoNames, Zenon
  <2> QED BY <2>1, <2>2, <2>3
<1>2. request' = [request EXCEPT ![r] = x]
  BY <1>1 DEF Start, Continue
<1>3. request'[r].todo = t /\ Loc(r)' = loc
  BY <1>2 DEF KeyInv, RequestsInPlace, Loc
<1>4. \A k \in KeyIds : x.todo \notin {AnswerTodo(k), InsertTodo(k), TouchTodo(k)}
  BY <1>1, NoCopy
<1>5. InPlace(r)'
  <2>1. CASE \E k \in KeyIds : t = CacheTodo(k)
    BY <1>3, <2>1 DEF InPlace, Authorizes
  <2>2. CASE \E k \in KeyIds : \E after \in Afterwards : t = GetTodo(k, after)
    BY <1>3, <2>2 DEF InPlace, Revokes
  <2>3. CASE t = SaveTodo /\ loc \in MadeKey
    BY <1>3, <2>3 DEF InPlace, Saves
  <2> QED BY <2>1, <2>2, <2>3
<1> HIDE DEF x
<1> QED BY <1>2, <1>4, <1>5, QuietStep

(* New requests: authenticate, create, revoke and rotate. *)
LEMMA AuthenticateKeeps ==
    ASSUME KeyInv, NEW r \in Requests, NEW k \in KeyIds, Authenticate(r, k)
    PROVE  KeyInv'
<1>1. Start(r, CacheTodo(k), NoKey) /\ UNCHANGED keyVars
  BY StartTodos DEF Authenticate
<1> QED BY <1>1, StartKeeps

LEMMA CreateKeyKeeps ==
    ASSUME KeyInv, NEW r \in Requests, NEW life \in Lifetimes, CreateKey(r, life)
    PROVE  KeyInv'
<1> DEFINE expires == IF life = Forever THEN Forever ELSE keyClock + life
<1>1. Start(r, SaveTodo, Made(expires)) /\ UNCHANGED keyVars
  BY StartTodos, KeyAssumption DEF CreateKey
<1>2. Made(expires) \in MadeKey
  BY KeyAssumption DEF Made, MadeKey, KeyInv, KeysTyped, KeyMemory, Forever
<1> HIDE DEF expires
<1> QED BY <1>1, <1>2, StartKeeps

LEMMA RevokeKeyKeeps ==
    ASSUME KeyInv, NEW r \in Requests, NEW k \in KeyIds, RevokeKey(r, k) \/ RotateKey(r, k)
    PROVE  KeyInv'
<1>1. PICK after \in Afterwards : Start(r, GetTodo(k, after), NoKey) /\ UNCHANGED keyVars
  BY StartTodos DEF RevokeKey, RotateKey, Afterwards
<1> QED BY <1>1, StartKeeps

(* A command fails, or the client goes away. *)
LEMMA KeyCommandFails ==
    ASSUME KeyInv, NEW r \in Requests, CommandFails(r), UNCHANGED keyVars
    PROVE  KeyInv'
BY RefuseEnds, OverStep DEF CommandFails, KeyInv

-----------------------------------------------------------------------------
(* The middleware.                                                          *)

(* A fresh entry lets the request through.  Its key was active when the *)
(* entry was made, or later.                                            *)
LEMMA AuthCacheKeeps ==
    ASSUME KeyInv, NEW r \in Requests, AuthCache(r)
    PROVE  KeyInv'
<1>0. r \in Busy /\ RequestsInPlace
  BY DEF AuthCache, At, KeyInv
<1>1. PICK k \in KeyIds : request[r].todo = CacheTodo(k)
  BY <1>0, Stages DEF AuthCache
<1>a. <<>> \in Afterwards
  BY DEF Afterwards
<1>2. This(r).id = k /\ Rest(r) = LookupTodo(k) /\ LookupTodo(k) # <<>>
  <2>1. /\ Head(CacheTodo(k)) = [do |-> "authCache", id |-> k, how |-> "-"]
        /\ Tail(CacheTodo(k)) = LookupTodo(k) /\ LookupTodo(k) # <<>>
    BY <1>a, Todos, Zenon
  <2> QED BY <1>1, <2>1 DEF This, Rest
<1>3. CASE keyCache[k] # Absent /\ keyClock - keyCache[k] < KeyCacheTtl
  <2>1. Refuse(r) /\ Accept(k) /\ UNCHANGED <<keys, keyHashes, keyIndex, keyCache, keyClock>>
    BY <1>2, <1>3 DEF AuthCache
  <2>2. request' = [request EXCEPT ![r] = Idle]
    BY <1>0, <2>1, RefuseEnds DEF Refuse
  <2>3. /\ keyPast'.lastActive = keyPast.lastActive /\ keyPast'.revoked = keyPast.revoked
        /\ keyPast'.raced = keyPast.raced
        /\ keyPast'.waited = keyPast.waited
        /\ keyPast'.worst \in Nat /\ keyPast'.worst < KeyCacheTtl
        /\ keyPast' \in KeyMemory
    <3> DEFINE late == keyClock - keyPast.lastActive[k] - keyPast.waited[k]
               worst == IF late > keyPast.worst THEN late ELSE keyPast.worst
    <3>1. late \in Int /\ late < KeyCacheTtl /\ keyPast.worst \in Nat /\ keyPast.worst < KeyCacheTtl
      BY <1>3, KeyAssumption
         DEF KeyInv, KeysTyped, KeyMemory, ActivityIsKnown, TrustIsBounded, Absent
    <3>2. keyPast' = [keyPast EXCEPT !.worst = worst]
      BY <2>1 DEF Accept, Longest
    <3> HIDE DEF late
    <3>3. worst \in Nat /\ worst < KeyCacheTtl
      BY <3>1
    <3> HIDE DEF worst
    <3> QED BY <3>2, <3>3 DEF KeyInv, KeysTyped, KeyMemory
  <2>4. request'[r].todo = <<>> /\ InPlace(r)'
    BY <2>2 DEF KeyInv, RequestsInPlace, InPlace, Idle
  <2>5. \A j \in KeyIds : Idle.todo \notin {AnswerTodo(j), InsertTodo(j), TouchTodo(j)}
    BY NoCopy DEF Idle
  <2>6. RequestsInPlace' /\ \A j \in KeyIds : Settled(j) => Settled(j)'
    BY <1>0, <2>1, <2>2, <2>3, <2>4, <2>5, OthersStay DEF Settled
  <2>7. KeysTyped' /\ ActivityIsKnown' /\ TrustIsBounded'
    BY <2>1, <2>3 DEF KeyInv, KeysTyped, KeyMemory, ActivityIsKnown, TrustIsBounded, is_active
  <2>8. RevokedIsSettled'
    BY <2>1, <2>3, <2>6 DEF KeyInv, KeysTyped, KeyMemory, RevokedIsSettled
  <2> QED BY <2>6, <2>7, <2>8 DEF KeyInv
<1>4. CASE ~(keyCache[k] # Absent /\ keyClock - keyCache[k] < KeyCacheTtl)
  <2> DEFINE x == [todo |-> LookupTodo(k), loc |-> Loc(r)]
  <2>1. Done(r) /\ UNCHANGED keyVars
    BY <1>2, <1>4 DEF AuthCache, keyVars
  <2>2. request' = [request EXCEPT ![r] = x]
    BY <1>2, <2>1 DEF Done, Sent, Continue
  <2>3. request'[r].todo = LookupTodo(k)
    BY <2>2 DEF KeyInv, RequestsInPlace
  <2>4. InPlace(r)'
    BY <2>3 DEF InPlace, Authorizes
  <2>5. \A j \in KeyIds : x.todo \notin {AnswerTodo(j), InsertTodo(j), TouchTodo(j)}
    <3>1. Head(LookupTodo(k)).do = "authLookup"
      BY <1>a, TodoNames, Zenon
    <3> QED BY <3>1, NoCopy
  <2> HIDE DEF x
  <2> QED BY <2>1, <2>2, <2>4, <2>5, QuietStep
<1> QED BY <1>3, <1>4

(* The list of an authentication with a copy names the key. *)
LEMMA OneCopy ==
    ASSUME NEW k \in KeyIds, NEW j \in KeyIds, NEW t \in {AnswerTodo(k), InsertTodo(k), TouchTodo(k)},
           t \in {AnswerTodo(j), InsertTodo(j), TouchTodo(j)}
    PROVE  j = k
<1>1. <<>> \in Afterwards
  BY DEF Afterwards
<1>2. /\ Head(AnswerTodo(k)).id = k /\ Head(InsertTodo(k)).id = k /\ Head(TouchTodo(k)).id = k
      /\ Head(AnswerTodo(j)).id = j /\ Head(InsertTodo(j)).id = j /\ Head(TouchTodo(j)).id = j
  <2>1. ASSUME NEW i \in KeyIds
        PROVE  /\ Head(AnswerTodo(i)) = [do |-> "authAnswer", id |-> i, how |-> "-"]
               /\ Head(InsertTodo(i)) = [do |-> "authInsert", id |-> i, how |-> "-"]
               /\ Head(TouchTodo(i)) = [do |-> "authTouch", id |-> i, how |-> "-"]
    BY <1>1, Todos, Zenon
  <2> QED BY <2>1
<1> QED BY <1>2

(* A key that the store does not know, or knows as revoked, is turned away. *)
(* No settled key gets past this.                                           *)
LEMMA AuthLookupKeeps ==
    ASSUME KeyInv, NEW r \in Requests, AuthLookup(r)
    PROVE  KeyInv'
<1>0. r \in Busy /\ RequestsInPlace
  BY DEF AuthLookup, At, KeyInv
<1>1. PICK k \in KeyIds : request[r].todo = LookupTodo(k)
  BY <1>0, Stages DEF AuthLookup
<1>a. <<>> \in Afterwards
  BY DEF Afterwards
<1>2. This(r).id = k /\ Rest(r) = AnswerTodo(k) /\ AnswerTodo(k) # <<>>
  <2>1. /\ Head(LookupTodo(k)) = [do |-> "authLookup", id |-> k, how |-> "-"]
        /\ Tail(LookupTodo(k)) = AnswerTodo(k) /\ AnswerTodo(k) # <<>>
    BY <1>a, Todos, Zenon
  <2> QED BY <1>1, <2>1 DEF This, Rest
<1>3. CASE k \in keyHashes /\ ~keys[k].revoked
  <2> DEFINE copy == [key |-> keys[k], at |-> keyClock]
             x == [todo |-> AnswerTodo(k), loc |-> copy]
  <2>1. Sent(r, copy) /\ UNCHANGED keyVars
    BY <1>2, <1>3 DEF AuthLookup
  <2>2. request' = [request EXCEPT ![r] = x]
    BY <1>2, <2>1 DEF Sent, Continue
  <2>3. request'[r].todo = AnswerTodo(k) /\ Loc(r)' = copy
    BY <2>2 DEF KeyInv, RequestsInPlace, Loc
  <2>4. /\ copy \in KeyCopy /\ copy.at <= keyClock
        /\ is_active(copy.key, copy.at) => copy.at <= keyPast.lastActive[k]
    <3>1. keys[k] \in MadeKey
      BY <1>3 DEF KeyInv, KeysTyped, KeyMemory, NoKey
    <3>2. is_active(keys[k], keyClock) => keyPast.lastActive[k] = keyClock
      BY DEF KeyInv, ActivityIsKnown
    <3> QED BY <3>1, <3>2 DEF KeyCopy, KeyInv, KeysTyped, KeyMemory
  <2> HIDE DEF copy
  <2>5. InPlace(r)'
    <3>1. /\ Loc(r)' \in KeyCopy /\ Loc(r)'.at <= keyClock'
          /\ is_active(Loc(r)'.key, Loc(r)'.at) => Loc(r)'.at <= keyPast'.lastActive[k]
      BY <2>1, <2>3, <2>4 DEF keyVars
    <3> QED BY <2>3, <3>1 DEF InPlace, Authorizes
  <2>6. \A j \in KeyIds : x.todo \in {AnswerTodo(j), InsertTodo(j), TouchTodo(j)} => j = k
    <3> SUFFICES ASSUME NEW j \in KeyIds, AnswerTodo(k) \in {AnswerTodo(j), InsertTodo(j), TouchTodo(j)}
                 PROVE  j = k
      OBVIOUS
    <3> QED BY OneCopy
  <2> HIDE DEF x
  <2> QED BY <1>3, <2>1, <2>2, <2>5, <2>6, QuietStep DEF Settled
<1>4. CASE ~(k \in keyHashes /\ ~keys[k].revoked)
  <2>1. Refuse(r) /\ UNCHANGED keyVars
    BY <1>2, <1>4 DEF AuthLookup
  <2> QED BY <1>0, <2>1, RefuseEnds, OverStep DEF Refuse
<1> QED BY <1>3, <1>4

(* A key that has not expired when the answer is in had not at the lookup. *)
LEMMA AuthAnswerKeeps ==
    ASSUME KeyInv, NEW r \in Requests, AuthAnswer(r)
    PROVE  KeyInv'
<1>0. r \in Busy /\ RequestsInPlace
  BY DEF AuthAnswer, At, KeyInv
<1>1. PICK k \in KeyIds : /\ request[r].todo = AnswerTodo(k)
                          /\ Loc(r) \in KeyCopy /\ Loc(r).at <= keyClock
                          /\ is_active(Loc(r).key, Loc(r).at) => Loc(r).at <= keyPast.lastActive[k]
  BY <1>0, Stages DEF AuthAnswer
<1>a. <<>> \in Afterwards
  BY DEF Afterwards
<1>2. Rest(r) = InsertTodo(k) /\ InsertTodo(k) # <<>>
  <2>1. Tail(AnswerTodo(k)) = InsertTodo(k) /\ InsertTodo(k) # <<>>
    BY <1>a, Todos, Zenon
  <2> QED BY <1>1, <2>1 DEF Rest
<1>3. CASE is_active(Loc(r).key, keyClock)
  <2> DEFINE x == [todo |-> InsertTodo(k), loc |-> Loc(r)]
  <2>1. Done(r) /\ UNCHANGED keyVars
    BY <1>3 DEF AuthAnswer
  <2>2. request' = [request EXCEPT ![r] = x]
    BY <1>2, <2>1 DEF Done, Sent, Continue
  <2>3. request'[r].todo = InsertTodo(k) /\ Loc(r)' = Loc(r)
    BY <2>2 DEF KeyInv, RequestsInPlace, Loc
  <2>4. is_active(Loc(r).key, Loc(r).at)
    <3>1. Loc(r).at \in Nat /\ keyClock \in Nat /\ Loc(r).key.expires \in Nat
      BY <1>1 DEF KeyCopy, MadeKey, KeyInv, KeysTyped, KeyMemory
    <3> QED BY <1>1, <1>3, <3>1 DEF is_active
  <2>5. InPlace(r)'
    <3>1. /\ Loc(r)' \in KeyCopy /\ Loc(r)'.at <= keyClock' /\ Loc(r)'.at <= keyPast'.lastActive[k]
      BY <1>1, <2>1, <2>3, <2>4 DEF keyVars
    <3> QED BY <2>3, <3>1 DEF InPlace, Authorizes
  <2>6. r \in Authenticating(k)
    BY <1>1 DEF Authenticating
  <2>7. \A j \in KeyIds : x.todo \in {AnswerTodo(j), InsertTodo(j), TouchTodo(j)} => j = k
    <3> SUFFICES ASSUME NEW j \in KeyIds, InsertTodo(k) \in {AnswerTodo(j), InsertTodo(j), TouchTodo(j)}
                 PROVE  j = k
      OBVIOUS
    <3> QED BY OneCopy
  <2> HIDE DEF x
  <2> QED BY <2>1, <2>2, <2>5, <2>6, <2>7, QuietStep
<1>4. CASE ~is_active(Loc(r).key, keyClock)
  <2>1. Refuse(r) /\ UNCHANGED keyVars
    BY <1>4 DEF AuthAnswer
  <2> QED BY <1>0, <2>1, RefuseEnds, OverStep DEF Refuse
<1> QED BY <1>3, <1>4

(* The entry is made later than the lookup by the time that is remembered. *)
LEMMA AuthInsertKeeps ==
    ASSUME KeyInv, NEW r \in Requests, AuthInsert(r)
    PROVE  KeyInv'
<1>0. r \in Busy /\ RequestsInPlace
  BY DEF AuthInsert, At, KeyInv
<1>1. PICK k \in KeyIds : /\ request[r].todo = InsertTodo(k) /\ Loc(r) \in KeyCopy
                          /\ Loc(r).at <= keyClock /\ Loc(r).at <= keyPast.lastActive[k]
  BY <1>0, Stages DEF AuthInsert
<1>a. <<>> \in Afterwards
  BY DEF Afterwards
<1>2. This(r).id = k /\ Rest(r) = TouchTodo(k) /\ TouchTodo(k) # <<>>
  <2>1. /\ Head(InsertTodo(k)) = [do |-> "authInsert", id |-> k, how |-> "-"]
        /\ Tail(InsertTodo(k)) = TouchTodo(k) /\ TouchTodo(k) # <<>>
    BY <1>a, Todos, Zenon
  <2> QED BY <1>1, <2>1 DEF This, Rest
<1> DEFINE x == [todo |-> TouchTodo(k), loc |-> Loc(r)]
           wait == keyClock - Loc(r).at
<1>3. /\ keyCache' = [keyCache EXCEPT ![k] = keyClock] /\ Done(r)
      /\ keyPast' = [keyPast EXCEPT !.waited[k] = wait]
      /\ UNCHANGED <<keys, keyHashes, keyIndex, keyClock>>
  BY <1>2 DEF AuthInsert
<1>4. request' = [request EXCEPT ![r] = x]
  BY <1>2, <1>3 DEF Done, Sent, Continue
<1>5. request'[r].todo = TouchTodo(k) /\ Loc(r)' = Loc(r)
  BY <1>4 DEF KeyInv, RequestsInPlace, Loc
<1>b. wait \in Nat /\ keyClock = Loc(r).at + wait /\ keyClock <= keyPast.lastActive[k] + wait
  BY <1>1 DEF KeyCopy, KeyInv, KeysTyped, KeyMemory
<1> HIDE DEF wait
<1>c. /\ keyPast'.lastActive = keyPast.lastActive /\ keyPast'.revoked = keyPast.revoked
      /\ keyPast'.raced = keyPast.raced /\ keyPast'.worst = keyPast.worst
      /\ keyPast'.waited = [keyPast.waited EXCEPT ![k] = wait]
      /\ keyPast' \in KeyMemory
  BY <1>3, <1>b DEF KeyInv, KeysTyped, KeyMemory
<1>6. InPlace(r)'
  <2>1. Loc(r)' \in KeyCopy /\ Loc(r)'.at <= keyClock' /\ Loc(r)'.at <= keyPast'.lastActive[k]
    BY <1>1, <1>3, <1>5, <1>c
  <2> QED BY <1>5, <2>1 DEF InPlace, Authorizes
<1>7. r \in Authenticating(k) /\ ~Settled(k)
  BY <1>1 DEF Authenticating, Settled
<1>8. \A j \in KeyIds : x.todo \in {AnswerTodo(j), InsertTodo(j), TouchTodo(j)} => j = k
  <2> SUFFICES ASSUME NEW j \in KeyIds, TouchTodo(k) \in {AnswerTodo(j), InsertTodo(j), TouchTodo(j)}
               PROVE  j = k
    OBVIOUS
  <2> QED BY OneCopy
<1> HIDE DEF x
<1>9. RequestsInPlace' /\ \A j \in KeyIds : Settled(j) => Settled(j)'
  BY <1>0, <1>3, <1>4, <1>6, <1>7, <1>8, <1>c, OthersStay DEF Settled
<1>10. KeysTyped' /\ TrustIsBounded'
  BY <1>3, <1>c DEF KeyInv, KeysTyped, KeyMemory, TrustIsBounded
<1>11. ActivityIsKnown'
  <2> SUFFICES ASSUME NEW j \in KeyIds
               PROVE  /\ keyPast.lastActive[j] <= keyClock
                      /\ is_active(keys[j], keyClock) => keyPast.lastActive[j] = keyClock
                      /\ keyCache'[j] # Absent =>
                           /\ keyCache'[j] <= keyClock
                           /\ keyCache'[j] <= keyPast.lastActive[j] + keyPast'.waited[j]
    BY <1>3, <1>c DEF ActivityIsKnown, is_active
  <2>1. CASE j = k
    <3>1. keyCache'[j] = keyClock /\ keyPast'.waited[j] = wait
      BY <1>3, <1>c, <2>1 DEF KeyInv, KeysTyped, KeyMemory
    <3> QED BY <1>b, <2>1, <3>1 DEF KeyInv, KeysTyped, KeyMemory, ActivityIsKnown
  <2>2. CASE j # k
    <3>1. keyCache'[j] = keyCache[j] /\ keyPast'.waited[j] = keyPast.waited[j]
      BY <1>3, <1>c, <2>2 DEF KeyInv, KeysTyped, KeyMemory
    <3> QED BY <3>1 DEF KeyInv, ActivityIsKnown
  <2> QED BY <2>1, <2>2
<1>12. RevokedIsSettled'
  BY <1>3, <1>7, <1>9, <1>c DEF KeyInv, KeysTyped, KeyMemory, RevokedIsSettled
<1> QED BY <1>9, <1>10, <1>11, <1>12 DEF KeyInv

(* The copy of a key is stored, or is not.  The request is let through on a *)
(* lookup that found the key active.                                        *)
LEMMA AuthTouchKeeps ==
    ASSUME KeyInv, NEW r \in Requests, AuthTouch(r)
    PROVE  KeyInv'
<1>0. r \in Busy /\ RequestsInPlace
  BY DEF AuthTouch, At, KeyInv
<1>1. PICK k \in KeyIds : /\ request[r].todo = TouchTodo(k) /\ Loc(r) \in KeyCopy
                          /\ Loc(r).at <= keyClock /\ Loc(r).at <= keyPast.lastActive[k]
  BY <1>0, Stages DEF AuthTouch
<1>a. <<>> \in Afterwards
  BY DEF Afterwards
<1>2. This(r).id = k /\ Rest(r) = <<>>
  <2>1. /\ Head(TouchTodo(k)) = [do |-> "authTouch", id |-> k, how |-> "-"]
        /\ Tail(TouchTodo(k)) = <<>>
    BY <1>a, Todos, Zenon
  <2> QED BY <1>1, <2>1 DEF This, Rest
<1> DEFINE seen == IF is_active(keys'[k], keyClock) THEN keyClock ELSE keyPast.lastActive[k]
<1>3. /\ keys' \in {keys, [keys EXCEPT ![k] = Loc(r).key]} /\ Done(r)
      /\ keyPast' = [keyPast EXCEPT !.worst = Longest(k, keyClock - Loc(r).at), !.lastActive[k] = seen]
      /\ UNCHANGED <<keyHashes, keyIndex, keyCache, keyClock>>
  BY <1>2 DEF AuthTouch
<1>4. request' = [request EXCEPT ![r] = Idle]
  BY <1>2, <1>3 DEF Done, Sent, Continue
<1>b. /\ keyPast.lastActive[k] \in Nat /\ keyClock \in Nat /\ Loc(r).at \in Nat /\ keyPast.worst \in Nat
      /\ Loc(r).key \in MadeKey /\ keyPast.lastActive[k] <= keyClock
  BY <1>1 DEF KeyCopy, KeyInv, KeysTyped, KeyMemory, ActivityIsKnown
<1>c. Longest(k, keyClock - Loc(r).at) = keyPast.worst
  <2>1. ~(keyClock - keyPast.lastActive[k] - (keyClock - Loc(r).at) > keyPast.worst)
    BY <1>1, <1>b
  <2> QED BY <2>1 DEF Longest
<1>d. seen \in Nat /\ keyPast.lastActive[k] <= seen /\ seen <= keyClock
      /\ (is_active(keys'[k], keyClock) => seen = keyClock)
  BY <1>b
<1> HIDE DEF seen
<1>5. /\ keyPast'.lastActive = [keyPast.lastActive EXCEPT ![k] = seen]
      /\ keyPast'.waited = keyPast.waited /\ keyPast'.revoked = keyPast.revoked
      /\ keyPast'.raced = keyPast.raced /\ keyPast'.worst = keyPast.worst
      /\ keyPast' \in KeyMemory
  BY <1>3, <1>c, <1>d DEF KeyInv, KeysTyped, KeyMemory
<1>6. r \in Authenticating(k) /\ ~Settled(k)
  BY <1>1 DEF Authenticating, Settled
<1>7. /\ keys' \in [KeyIds -> MadeKey \cup {NoKey}]
      /\ \A j \in KeyIds \ {k} : keys'[j] = keys[j]
      /\ \A j \in KeyIds : keys[j] # NoKey => keys'[j] # NoKey
  <2>1. Loc(r).key # NoKey
    <3>1. Loc(r).key.made /\ ~NoKey.made
      BY <1>b DEF MadeKey, NoKey
    <3> QED BY <3>1
  <2>2. CASE keys' = keys
    BY <2>2 DEF KeyInv, KeysTyped, KeyMemory
  <2>3. CASE keys' = [keys EXCEPT ![k] = Loc(r).key]
    BY <1>b, <2>1, <2>3 DEF KeyInv, KeysTyped, KeyMemory
  <2> QED BY <1>3, <2>2, <2>3
<1>8. request'[r].todo = <<>> /\ InPlace(r)'
  BY <1>4 DEF KeyInv, RequestsInPlace, InPlace, Idle
<1>9. \A j \in KeyIds : Idle.todo \notin {AnswerTodo(j), InsertTodo(j), TouchTodo(j)}
  BY NoCopy DEF Idle
<1>e. \A j \in KeyIds : /\ keyPast'.lastActive[j] \in Nat /\ keyPast.lastActive[j] \in Nat
                        /\ keyPast.lastActive[j] <= keyPast'.lastActive[j]
                        /\ j # k => keyPast'.lastActive[j] = keyPast.lastActive[j]
                        /\ j = k => keyPast'.lastActive[j] = seen
  BY <1>5, <1>d DEF KeyInv, KeysTyped, KeyMemory
<1>10. RequestsInPlace' /\ \A j \in KeyIds : Settled(j) => Settled(j)'
  <2>1. \A j \in KeyIds : Settled(j) => keys'[j].revoked
    BY <1>6, <1>7 DEF Settled
  <2>2. \A j \in KeyIds : \A n \in Nat : n <= keyPast.lastActive[j] => n <= keyPast'.lastActive[j]
    BY <1>e
  <2> QED BY <1>0, <1>3, <1>4, <1>5, <1>7, <1>8, <1>9, <2>1, <2>2, OthersStay
<1>11. KeysTyped' /\ TrustIsBounded'
  BY <1>3, <1>5, <1>7 DEF KeyInv, KeysTyped, KeyMemory, TrustIsBounded
<1>12. ActivityIsKnown'
  <2> SUFFICES ASSUME NEW j \in KeyIds
               PROVE  /\ keyPast'.lastActive[j] <= keyClock
                      /\ is_active(keys'[j], keyClock) => keyPast'.lastActive[j] = keyClock
                      /\ keyCache[j] # Absent =>
                           /\ keyCache[j] <= keyClock
                           /\ keyCache[j] <= keyPast'.lastActive[j] + keyPast.waited[j]
    BY <1>3, <1>5 DEF ActivityIsKnown, is_active
  <2>1. /\ keyPast.lastActive[j] <= keyClock
        /\ is_active(keys[j], keyClock) => keyPast.lastActive[j] = keyClock
        /\ keyCache[j] # Absent =>
             keyCache[j] <= keyClock /\ keyCache[j] <= keyPast.lastActive[j] + keyPast.waited[j]
        /\ keyCache[j] \in {Absent} \cup Nat /\ keyPast.waited[j] \in Nat
    BY DEF KeyInv, KeysTyped, KeyMemory, ActivityIsKnown
  <2>2. keyCache[j] # Absent => keyCache[j] <= keyPast'.lastActive[j] + keyPast.waited[j]
    BY <1>e, <2>1
  <2> QED BY <1>7, <1>d, <1>e, <2>1, <2>2
<1>13. RevokedIsSettled'
  BY <1>3, <1>5, <1>10 DEF KeyInv, KeysTyped, KeyMemory, RevokedIsSettled
<1> QED BY <1>10, <1>11, <1>12, <1>13 DEF KeyInv

-----------------------------------------------------------------------------
(* Revocations.                                                             *)

LEMMA KeyGetKeeps ==
    ASSUME KeyInv, NEW r \in Requests, KeyGet(r)
    PROVE  KeyInv'
<1>0. r \in Busy /\ RequestsInPlace
  BY DEF KeyGet, At, KeyInv
<1>1. PICK k \in KeyIds, after \in Afterwards : request[r].todo = GetTodo(k, after)
  BY <1>0, Stages DEF KeyGet
<1>2. This(r).id = k /\ Rest(r) = RevokeTodo(k, after) /\ RevokeTodo(k, after) # <<>>
  <2>1. /\ Head(GetTodo(k, after)) = [do |-> "keyGet", id |-> k, how |-> "-"]
        /\ Tail(GetTodo(k, after)) = RevokeTodo(k, after) /\ RevokeTodo(k, after) # <<>>
    BY Todos, Zenon
  <2> QED BY <1>1, <2>1 DEF This, Rest
<1>3. CASE keys[k] = NoKey
  <2>1. Refuse(r) /\ UNCHANGED keyVars
    BY <1>2, <1>3 DEF KeyGet
  <2> QED BY <1>0, <2>1, RefuseEnds, OverStep DEF Refuse
<1>4. CASE keys[k] # NoKey
  <2> DEFINE x == [todo |-> RevokeTodo(k, after), loc |-> keys[k]]
  <2>1. Sent(r, keys[k]) /\ UNCHANGED keyVars
    BY <1>2, <1>4 DEF KeyGet
  <2>2. request' = [request EXCEPT ![r] = x]
    BY <1>2, <2>1 DEF Sent, Continue
  <2>3. request'[r].todo = RevokeTodo(k, after) /\ Loc(r)' = keys[k]
    BY <2>2 DEF KeyInv, RequestsInPlace, Loc
  <2>4. keys[k] \in MadeKey
    BY <1>4 DEF KeyInv, KeysTyped, KeyMemory
  <2>5. InPlace(r)'
    BY <2>3, <2>4 DEF InPlace, Revokes
  <2>6. \A j \in KeyIds : x.todo \notin {AnswerTodo(j), InsertTodo(j), TouchTodo(j)}
    <3>1. Head(RevokeTodo(k, after)).do = "keyRevoke"
      BY TodoNames, Zenon
    <3> QED BY <3>1, NoCopy
  <2> HIDE DEF x
  <2> QED BY <2>1, <2>2, <2>5, <2>6, QuietStep
<1> QED BY <1>3, <1>4

(* The key is revoked.  An authentication that has read it may undo this, *)
(* and then the revocation raced; else the key is settled.                *)
LEMMA KeyRevokeKeeps ==
    ASSUME KeyInv, NEW r \in Requests, KeyRevoke(r)
    PROVE  KeyInv'
<1>0. r \in Busy /\ RequestsInPlace
  BY DEF KeyRevoke, At, KeyInv
<1>1. PICK k \in KeyIds, after \in Afterwards :
         request[r].todo = RevokeTodo(k, after) /\ Loc(r) \in MadeKey
  BY <1>0, Stages DEF KeyRevoke
<1>2. This(r).id = k /\ Rest(r) = EvictTodo(k, after) /\ EvictTodo(k, after) # <<>>
  <2>1. /\ Head(RevokeTodo(k, after)) = [do |-> "keyRevoke", id |-> k, how |-> "-"]
        /\ Tail(RevokeTodo(k, after)) = EvictTodo(k, after) /\ EvictTodo(k, after) # <<>>
    BY Todos, Zenon
  <2> QED BY <1>1, <2>1 DEF This, Rest
<1> DEFINE x == [todo |-> EvictTodo(k, after), loc |-> Loc(r)]
           raced == IF Touching(k) # {} THEN keyPast.raced \cup {k} ELSE keyPast.raced
<1>3. /\ keys' = [keys EXCEPT ![k] = [Loc(r) EXCEPT !.revoked = TRUE]]
      /\ keyPast' = [keyPast EXCEPT !.raced = raced] /\ Done(r)
      /\ UNCHANGED <<keyHashes, keyIndex, keyCache, keyClock>>
  BY <1>2 DEF KeyRevoke
<1>4. request' = [request EXCEPT ![r] = x]
  BY <1>2, <1>3 DEF Done, Sent, Continue
<1>5. /\ request'[r].todo = EvictTodo(k, after) /\ Loc(r)' = Loc(r)
      /\ \A q \in Requests \ {r} : request'[q] = request[q]
  BY <1>4 DEF KeyInv, RequestsInPlace, Loc
<1>6. /\ raced \in SUBSET KeyIds /\ keyPast.raced \subseteq raced
      /\ keyPast'.lastActive = keyPast.lastActive /\ keyPast'.revoked = keyPast.revoked
      /\ keyPast'.raced = raced /\ keyPast'.worst = keyPast.worst
      /\ keyPast' \in KeyMemory
  BY <1>3 DEF KeyInv, KeysTyped, KeyMemory
<1>7. /\ keys' \in [KeyIds -> MadeKey \cup {NoKey}]
      /\ keys'[k] # NoKey /\ keys'[k].revoked
      /\ \A j \in KeyIds \ {k} : keys'[j] = keys[j]
  <2> DEFINE gone == [Loc(r) EXCEPT !.revoked = TRUE]
  <2>1. gone \in MadeKey /\ gone.revoked /\ gone.made
    BY <1>1 DEF MadeKey
  <2>2. gone # NoKey
    BY <2>1 DEF NoKey
  <2>3. keys' = [keys EXCEPT ![k] = gone]
    BY <1>3
  <2> HIDE DEF gone
  <2> QED BY <2>1, <2>2, <2>3 DEF KeyInv, KeysTyped, KeyMemory
<1>8. \A j \in KeyIds : EvictTodo(k, after) \notin {AnswerTodo(j), InsertTodo(j), TouchTodo(j)}
  <2>1. Head(EvictTodo(k, after)).do = "keyEvict"
    BY TodoNames, Zenon
  <2> QED BY <2>1, NoCopy
<1>9. k \in keyPast'.raced \/ Settled(k)'
  <2>1. CASE Touching(k) # {}
    BY <1>6, <2>1
  <2>2. CASE Touching(k) = {}
    <3>1. Authenticating(k) = {}
      BY <2>2, CopiesTouch
    <3>2. Authenticating(k)' = {}
      BY <1>5, <1>8, <3>1 DEF Authenticating
    <3> QED BY <1>7, <3>2 DEF Settled
  <2> QED BY <2>1, <2>2
<1>10. InPlace(r)'
  BY <1>1, <1>5, <1>9 DEF InPlace, Revokes
<1> HIDE DEF raced
<1>11. RequestsInPlace' /\ \A j \in KeyIds : Settled(j) => Settled(j)'
  <2>1. \A j \in KeyIds : keys[j] # NoKey => keys'[j] # NoKey
    BY <1>7
  <2>2. \A j \in KeyIds : Settled(j) => keys'[j].revoked
    BY <1>7 DEF Settled
  <2>3. \A j \in KeyIds : x.todo \notin {AnswerTodo(j), InsertTodo(j), TouchTodo(j)}
    BY <1>8
  <2> HIDE DEF x
  <2> QED BY <1>0, <1>3, <1>4, <1>6, <1>10, <2>1, <2>2, <2>3, OthersStay
<1>12. KeysTyped' /\ ActivityIsKnown' /\ TrustIsBounded'
  BY <1>3, <1>6, <1>7 DEF KeyInv, KeysTyped, KeyMemory, ActivityIsKnown, TrustIsBounded, is_active
<1>13. RevokedIsSettled'
  BY <1>3, <1>6, <1>11 DEF KeyInv, KeysTyped, KeyMemory, RevokedIsSettled
<1> QED BY <1>11, <1>12, <1>13 DEF KeyInv

(* The revocation returns: the key is settled and out of the cache. *)
LEMMA KeyEvictKeeps ==
    ASSUME KeyInv, NEW r \in Requests, KeyEvict(r)
    PROVE  KeyInv'
<1>0. r \in Busy /\ RequestsInPlace
  BY DEF KeyEvict, At, KeyInv
<1>1. PICK k \in KeyIds, after \in Afterwards :
         /\ request[r].todo = EvictTodo(k, after) /\ Loc(r) \in MadeKey
         /\ k \in keyPast.raced \/ Settled(k)
  BY <1>0, Stages DEF KeyEvict
<1>2. This(r).id = k /\ Rest(r) = after
  <2>1. /\ Head(EvictTodo(k, after)) = [do |-> "keyEvict", id |-> k, how |-> "-"]
        /\ Tail(EvictTodo(k, after)) = after
    BY Todos, Zenon
  <2> QED BY <1>1, <2>1 DEF This, Rest
<1> DEFINE x == IF after = <<>> THEN Idle ELSE [todo |-> after, loc |-> Loc(r)]
<1>3. /\ keyCache' = [keyCache EXCEPT ![k] = Absent]
      /\ keyPast' = [keyPast EXCEPT !.revoked = keyPast.revoked \cup {k}] /\ Done(r)
      /\ UNCHANGED <<keys, keyHashes, keyIndex, keyClock>>
  BY <1>2 DEF KeyEvict
<1>4. request' = [request EXCEPT ![r] = x]
  BY <1>2, <1>3 DEF Done, Sent, Continue
<1>5. x.todo = after /\ (after # <<>> => x.loc = Loc(r))
  BY DEF Idle
<1>6. request'[r] = x
  BY <1>4 DEF KeyInv, RequestsInPlace
<1>7. InPlace(r)'
  <2>1. CASE after = <<>>
    BY <1>5, <1>6, <2>1 DEF InPlace
  <2>2. CASE after = SaveTodo /\ after # <<>>
    <3>1. request'[r].todo = SaveTodo /\ Loc(r)' \in MadeKey
      BY <1>1, <1>5, <1>6, <2>2 DEF Loc
    <3> QED BY <3>1 DEF InPlace, Saves
  <2> QED BY <2>1, <2>2 DEF Afterwards
<1>8. \A j \in KeyIds : x.todo \notin {AnswerTodo(j), InsertTodo(j), TouchTodo(j)}
  <2>1. Head(SaveTodo).do = "keySet"
    BY TodoNames, Zenon
  <2> QED BY <1>5, <2>1, NoCopy DEF Afterwards
<1> HIDE DEF x
<1>9. /\ keyPast'.lastActive = keyPast.lastActive /\ keyPast'.raced = keyPast.raced
      /\ keyPast'.revoked = keyPast.revoked \cup {k} /\ keyPast'.worst = keyPast.worst
      /\ keyPast' \in KeyMemory
  BY <1>3 DEF KeyInv, KeysTyped, KeyMemory
<1>10. RequestsInPlace' /\ \A j \in KeyIds : Settled(j) => Settled(j)'
  BY <1>0, <1>3, <1>4, <1>7, <1>8, <1>9, OthersStay DEF Settled
<1>11. KeysTyped' /\ ActivityIsKnown' /\ TrustIsBounded'
  BY <1>3, <1>9 DEF KeyInv, KeysTyped, KeyMemory, ActivityIsKnown, TrustIsBounded, is_active
<1>12. RevokedIsSettled'
  BY <1>1, <1>3, <1>9, <1>10 DEF KeyInv, KeysTyped, KeyMemory, RevokedIsSettled
<1> QED BY <1>10, <1>11, <1>12 DEF KeyInv

-----------------------------------------------------------------------------
(* New keys.                                                                *)

(* Once the key has an id, the commands that follow are about it. *)
LEMMA ListRenamed ==
    ASSUME NEW n \in KeyIds
    PROVE  [i \in DOMAIN ListTodo(0) |-> [ListTodo(0)[i] EXCEPT !.id = n]] = ListTodo(n)
<1> DEFINE list(j) == [do |-> "keyList", id |-> j, how |-> "-"]
           hash(j) == [do |-> "keyHash", id |-> j, how |-> "-"]
           renamed == [i \in DOMAIN ListTodo(0) |-> [ListTodo(0)[i] EXCEPT !.id = n]]
<1>0. n \in Nat /\ 0 \in Nat
  BY KeyAssumption
<1>1. ASSUME NEW j \in Nat
      PROVE  /\ ListTodo(j) \in Seq(Command) /\ Len(ListTodo(j)) = 2
             /\ ListTodo(j)[1] = list(j) /\ ListTodo(j)[2] = hash(j)
  <2>1. <<list(j)>> \in Seq(Command) /\ <<hash(j)>> \in Seq(Command)
    BY DEF Command, Verbs
  <2>2. ListTodo(j) = <<list(j)>> \o <<hash(j)>>
    BY DEF ListTodo, HashTodo, Cmd
  <2> QED BY <2>1, <2>2
<1>2. DOMAIN ListTodo(0) = 1 .. 2
  <2>1. ListTodo(0) \in Seq(Command) /\ Len(ListTodo(0)) = 2
    BY <1>0, <1>1
  <2> QED BY <2>1, LenProperties
<1>3. renamed[1] = list(n) /\ renamed[2] = hash(n) /\ DOMAIN renamed = 1 .. 2
  <2>1. ListTodo(0)[1] = list(0) /\ ListTodo(0)[2] = hash(0)
    BY <1>0, <1>1
  <2>2. [list(0) EXCEPT !.id = n] = list(n) /\ [hash(0) EXCEPT !.id = n] = hash(n)
    OBVIOUS
  <2> HIDE DEF list, hash
  <2> QED BY <1>2, <2>1, <2>2
<1>4. list(n) \in Command /\ hash(n) \in Command
  BY <1>0 DEF Command, Verbs
<1>5. renamed \in Seq(Command) /\ Len(renamed) = 2
  <2>1. \A i \in 1 .. 2 : renamed[i] \in Command
    <3>1. \A i \in 1 .. 2 : i = 1 \/ i = 2
      OBVIOUS
    <3> HIDE DEF renamed, list, hash
    <3> QED BY <1>3, <1>4, <3>1
  <2>2. renamed = [i \in 1 .. 2 |-> renamed[i]]
    BY <1>2
  <2> HIDE DEF renamed
  <2> QED BY <2>1, <2>2, IsASeq
<1>6. \A i \in 1 .. Len(renamed) : renamed[i] = ListTodo(n)[i]
  <2>1. \A i \in 1 .. 2 : i = 1 \/ i = 2
    OBVIOUS
  <2>2. ListTodo(n)[1] = list(n) /\ ListTodo(n)[2] = hash(n)
    BY <1>0, <1>1
  <2> HIDE DEF renamed, list, hash
  <2> QED BY <1>3, <1>5, <2>1, <2>2
<1>7. ListTodo(n) \in Seq(Command) /\ Len(ListTodo(n)) = 2
  BY <1>0, <1>1
<1> HIDE DEF renamed
<1>8. renamed = ListTodo(n)
  BY <1>5, <1>6, <1>7, SeqEqual
<1> QED BY <1>8 DEF renamed

(* A free id gets the new key, active from now on. *)
LEMMA KeySetKeeps ==
    ASSUME KeyInv, NEW r \in Requests, KeySet(r)
    PROVE  KeyInv'
<1>0. r \in Busy /\ RequestsInPlace
  BY DEF KeySet, At, KeyInv
<1>1. request[r].todo = SaveTodo /\ Loc(r) \in MadeKey
  BY <1>0, Stages DEF KeySet
<1>a. <<>> \in Afterwards /\ 1 \in KeyIds
  BY KeyAssumption DEF Afterwards
<1>2. Rest(r) = ListTodo(0)
  <2>1. Tail(SaveTodo) = ListTodo(0)
    BY <1>a, Todos, Zenon
  <2> QED BY <1>1, <2>1 DEF Rest
<1>3. NewKey \in KeyIds /\ keys[NewKey] = NoKey
  BY NewKeyIsFree DEF KeySet
<1> DEFINE n == NewKey
           key == [Loc(r) EXCEPT !.revoked = FALSE]
           x == [todo |-> ListTodo(n), loc |-> Loc(r)]
<1>b. n \in KeyIds /\ keys[n] = NoKey
  BY <1>3
<1>4. /\ keys' = [keys EXCEPT ![n] = key]
      /\ keyPast' = [keyPast EXCEPT !.lastActive[n] = keyClock]
      /\ Continue(r, [i \in DOMAIN ListTodo(0) |-> [ListTodo(0)[i] EXCEPT !.id = n]], Loc(r))
      /\ UNCHANGED <<tally, keyHashes, keyIndex, keyCache, keyClock>>
  BY <1>2 DEF KeySet
<1>5. ListTodo(n) # <<>> /\ Head(ListTodo(n)).do = "keyList"
  BY <1>a, <1>b, Todos, TodoNames, Zenon
<1> HIDE DEF n
<1>6. request' = [request EXCEPT ![r] = x]
  <2>1. Continue(r, ListTodo(n), Loc(r))
    BY <1>4, <1>b, ListRenamed
  <2> QED BY <1>5, <2>1 DEF Continue
<1>7. key \in MadeKey /\ ~key.revoked /\ key # NoKey
  <2>1. key \in MadeKey /\ ~key.revoked
    BY <1>1 DEF MadeKey
  <2> QED BY <2>1 DEF NoKey
<1> HIDE DEF key
<1>8. /\ keys' \in [KeyIds -> MadeKey \cup {NoKey}]
      /\ keys'[n] = key /\ \A j \in KeyIds \ {n} : keys'[j] = keys[j]
      /\ \A j \in KeyIds : keys[j] # NoKey => keys'[j] # NoKey
  BY <1>4, <1>7, <1>b DEF KeyInv, KeysTyped, KeyMemory
<1>9. /\ keyPast'.lastActive = [keyPast.lastActive EXCEPT ![n] = keyClock]
      /\ keyPast'.raced = keyPast.raced /\ keyPast'.revoked = keyPast.revoked
      /\ keyPast'.worst = keyPast.worst
      /\ keyPast' \in KeyMemory
  BY <1>4, <1>b DEF KeyInv, KeysTyped, KeyMemory
<1>10. request'[r].todo = ListTodo(n) /\ InPlace(r)'
  <2>1. request'[r].todo = ListTodo(n)
    BY <1>6 DEF KeyInv, RequestsInPlace
  <2> QED BY <1>7, <1>8, <1>b, <2>1 DEF InPlace, Saves
<1>11. RequestsInPlace' /\ \A j \in KeyIds : Settled(j) => Settled(j)'
  <2>1. \A j \in KeyIds : x.todo \notin {AnswerTodo(j), InsertTodo(j), TouchTodo(j)}
    BY <1>5, NoCopy
  <2>2. \A j \in KeyIds : Settled(j) => keys'[j].revoked
    BY <1>8, <1>b DEF Settled
  <2>3. \A j \in KeyIds : \A i \in Nat : i <= keyPast.lastActive[j] => i <= keyPast'.lastActive[j]
    <3>1. \A j \in KeyIds : /\ keyPast.lastActive[j] \in Nat /\ keyPast'.lastActive[j] \in Nat
                            /\ keyPast.lastActive[j] <= keyPast'.lastActive[j]
      BY <1>9, <1>b DEF KeyInv, KeysTyped, KeyMemory, ActivityIsKnown
    <3> QED BY <3>1
  <2> HIDE DEF x
  <2> QED BY <1>0, <1>4, <1>6, <1>8, <1>9, <1>10, <2>1, <2>2, <2>3, OthersStay
<1>12. KeysTyped' /\ TrustIsBounded'
  BY <1>4, <1>8, <1>9 DEF KeyInv, KeysTyped, KeyMemory, TrustIsBounded
<1>13. ActivityIsKnown'
  BY <1>4, <1>8, <1>9, <1>b DEF KeyInv, KeysTyped, KeyMemory, ActivityIsKnown, is_active
<1>14. RevokedIsSettled'
  BY <1>4, <1>9, <1>11 DEF KeyInv, KeysTyped, KeyMemory, RevokedIsSettled
<1> QED BY <1>11, <1>12, <1>13, <1>14 DEF KeyInv

LEMMA KeyListKeeps ==
    ASSUME KeyInv, NEW r \in Requests, KeyList(r)
    PROVE  KeyInv'
<1>0. r \in Busy /\ RequestsInPlace
  BY DEF KeyList, At, KeyInv
<1>1. PICK k \in KeyIds : request[r].todo = ListTodo(k) /\ keys[k] # NoKey
  BY <1>0, Stages DEF KeyList
<1>a. <<>> \in Afterwards
  BY DEF Afterwards
<1>2. This(r).id = k /\ Rest(r) = HashTodo(k) /\ HashTodo(k) # <<>>
  <2>1. /\ Head(ListTodo(k)) = [do |-> "keyList", id |-> k, how |-> "-"]
        /\ Tail(ListTodo(k)) = HashTodo(k) /\ HashTodo(k) # <<>>
    BY <1>a, Todos, Zenon
  <2> QED BY <1>1, <2>1 DEF This, Rest
<1> DEFINE x == [todo |-> HashTodo(k), loc |-> Loc(r)]
<1>3. /\ keyIndex' = keyIndex \cup {k} /\ Done(r)
      /\ UNCHANGED <<keys, keyHashes, keyCache, keyClock, keyPast>>
  BY <1>2 DEF KeyList
<1>4. request' = [request EXCEPT ![r] = x]
  BY <1>2, <1>3 DEF Done, Sent, Continue
<1>5. InPlace(r)'
  <2>1. request'[r].todo = HashTodo(k)
    BY <1>4 DEF KeyInv, RequestsInPlace
  <2> QED BY <1>3, <2>1 DEF InPlace, Saves
<1>6. \A j \in KeyIds : x.todo \notin {AnswerTodo(j), InsertTodo(j), TouchTodo(j)}
  <2>1. Head(HashTodo(k)).do = "keyHash"
    BY <1>a, TodoNames, Zenon
  <2> QED BY <2>1, NoCopy
<1> HIDE DEF x
<1>7. RequestsInPlace' /\ \A j \in KeyIds : Settled(j) => Settled(j)'
  BY <1>0, <1>3, <1>4, <1>5, <1>6, OthersStay DEF Settled
<1>8. KeysTyped' /\ ActivityIsKnown' /\ TrustIsBounded'
  BY <1>1, <1>3 DEF KeyInv, KeysTyped, KeyMemory, ActivityIsKnown, TrustIsBounded, is_active
<1>9. RevokedIsSettled'
  BY <1>3, <1>7 DEF KeyInv, KeysTyped, KeyMemory, RevokedIsSettled
<1> QED BY <1>7, <1>8, <1>9 DEF KeyInv

LEMMA KeyHashKeeps ==
    ASSUME KeyInv, NEW r \in Requests, KeyHash(r)
    PROVE  KeyInv'
<1>0. r \in Busy /\ RequestsInPlace
  BY DEF KeyHash, At, KeyInv
<1>1. PICK k \in KeyIds : request[r].todo = HashTodo(k) /\ k \in keyIndex
  BY <1>0, Stages DEF KeyHash
<1>a. <<>> \in Afterwards
  BY DEF Afterwards
<1>2. This(r).id = k /\ Rest(r) = <<>>
  <2>1. /\ Head(HashTodo(k)) = [do |-> "keyHash", id |-> k, how |-> "-"]
        /\ Tail(HashTodo(k)) = <<>>
    BY <1>a, Todos, Zenon
  <2> QED BY <1>1, <2>1 DEF This, Rest
<1>3. /\ keyHashes' = keyHashes \cup {k} /\ Done(r)
      /\ UNCHANGED <<keys, keyIndex, keyCache, keyClock, keyPast>>
  BY <1>2 DEF KeyHash
<1>4. request' = [request EXCEPT ![r] = Idle]
  BY <1>2, <1>3 DEF Done, Sent, Continue
<1>5. request'[r].todo = <<>> /\ InPlace(r)'
  BY <1>4 DEF KeyInv, RequestsInPlace, InPlace, Idle
<1>6. \A j \in KeyIds : Idle.todo \notin {AnswerTodo(j), InsertTodo(j), TouchTodo(j)}
  BY NoCopy DEF Idle
<1>7. RequestsInPlace' /\ \A j \in KeyIds : Settled(j) => Settled(j)'
  BY <1>0, <1>3, <1>4, <1>5, <1>6, OthersStay DEF Settled
<1>8. KeysTyped' /\ ActivityIsKnown' /\ TrustIsBounded'
  BY <1>1, <1>3 DEF KeyInv, KeysTyped, KeyMemory, ActivityIsKnown, TrustIsBounded, is_active
<1>9. RevokedIsSettled'
  BY <1>3, <1>7 DEF KeyInv, KeysTyped, KeyMemory, RevokedIsSettled
<1> QED BY <1>7, <1>8, <1>9 DEF KeyInv

-----------------------------------------------------------------------------
(* Time, and the sweep of the cache.                                        *)

LEMMA EvictStaleKeeps ==
    ASSUME KeyInv, EvictStale
    PROVE  KeyInv'
<1> DEFINE fresh == {k \in KeyIds : keyCache[k] # Absent /\ keyClock - keyCache[k] < KeyCacheTtl}
<1>1. PICK gone \in SUBSET fresh :
         /\ keyCache' = [k \in KeyIds |-> IF k \in fresh \ gone THEN keyCache[k] ELSE Absent]
         /\ UNCHANGED <<requestVars, keys, keyHashes, keyIndex, keyClock, keyPast>>
  BY DEF EvictStale
<1>2. request' = request
  BY <1>1 DEF requestVars
<1>3. /\ keyCache' \in [KeyIds -> {Absent} \cup Nat]
      /\ \A k \in KeyIds : keyCache'[k] = keyCache[k] \/ keyCache'[k] = Absent
  BY <1>1 DEF KeyInv, KeysTyped, KeyMemory
<1>4. KeysTyped' /\ ActivityIsKnown' /\ TrustIsBounded'
  BY <1>1, <1>3 DEF KeyInv, KeysTyped, KeyMemory, ActivityIsKnown, TrustIsBounded, is_active
<1>5. RequestsInPlace'
  BY <1>1, <1>2 DEF KeyInv, RequestsInPlace, InPlace, Authorizes, Revokes, Saves, Settled, Authenticating, Loc
<1>6. RevokedIsSettled'
  BY <1>1, <1>2, <1>3 DEF KeyInv, KeysTyped, KeyMemory, RevokedIsSettled, Settled, Authenticating
<1> QED BY <1>4, <1>5, <1>6 DEF KeyInv

(* A second passes.  What requests know of the past stays true. *)
LEMMA KeyTickKeeps ==
    ASSUME KeyInv, KeyTick
    PROVE  KeyInv'
<1> DEFINE seen == [k \in KeyIds |-> IF is_active(keys[k], keyClock + 1) THEN keyClock + 1
                                     ELSE keyPast.lastActive[k]]
<1>1. /\ keyClock \in Nat
      /\ \A k \in KeyIds : keyPast.lastActive[k] \in Nat /\ keyPast.lastActive[k] <= keyClock
  BY DEF KeyInv, KeysTyped, KeyMemory, ActivityIsKnown
<1>2. /\ keyClock' = keyClock + 1 /\ keyPast' = [keyPast EXCEPT !.lastActive = seen]
      /\ UNCHANGED <<request, keys, keyHashes, keyIndex, keyCache>>
  BY DEF KeyTick, requestVars
<1>a. \A k \in KeyIds : /\ seen[k] \in Nat /\ keyPast.lastActive[k] <= seen[k] /\ seen[k] <= keyClock + 1
                        /\ is_active(keys[k], keyClock + 1) => seen[k] = keyClock + 1
  BY <1>1
<1>3. /\ keyPast'.lastActive = seen /\ seen \in [KeyIds -> Nat]
      /\ keyPast'.raced = keyPast.raced /\ keyPast'.revoked = keyPast.revoked
      /\ keyPast'.worst = keyPast.worst /\ keyPast'.waited = keyPast.waited
      /\ keyPast' \in KeyMemory
  <2>1. seen \in [KeyIds -> Nat]
    BY <1>a
  <2> HIDE DEF seen
  <2> QED BY <1>2, <2>1 DEF KeyInv, KeysTyped, KeyMemory
<1> HIDE DEF seen
<1>4. KeysTyped' /\ TrustIsBounded'
  BY <1>2, <1>3 DEF KeyInv, KeysTyped, KeyMemory, TrustIsBounded
<1>5. ActivityIsKnown'
  <2> SUFFICES ASSUME NEW k \in KeyIds
               PROVE  /\ seen[k] <= keyClock + 1
                      /\ is_active(keys[k], keyClock + 1) => seen[k] = keyClock + 1
                      /\ keyCache[k] # Absent =>
                           keyCache[k] <= keyClock + 1 /\ keyCache[k] <= seen[k] + keyPast.waited[k]
    BY <1>2, <1>3 DEF ActivityIsKnown, is_active
  <2>1. /\ keyCache[k] # Absent =>
             keyCache[k] <= keyClock /\ keyCache[k] <= keyPast.lastActive[k] + keyPast.waited[k]
        /\ keyCache[k] \in {Absent} \cup Nat /\ keyPast.waited[k] \in Nat
    BY DEF KeyInv, KeysTyped, KeyMemory, ActivityIsKnown
  <2> QED BY <1>1, <1>a, <2>1
<1>6. RequestsInPlace'
  <2> SUFFICES ASSUME NEW r \in Requests
               PROVE  InPlace(r)'
    BY <1>2 DEF KeyInv, RequestsInPlace
  <2>1. InPlace(r)
    BY DEF KeyInv, RequestsInPlace
  <2>2. ASSUME Authorizes(r)
        PROVE  Authorizes(r)'
    <3>1. Loc(r)' = Loc(r) /\ request'[r] = request[r] /\ (Loc(r) \in KeyCopy => Loc(r).at \in Nat)
      BY <1>2 DEF Loc, KeyCopy
    <3>2. \A n \in Nat : n <= keyClock => n <= keyClock'
      BY <1>1, <1>2
    <3>3. \A k \in KeyIds : \A n \in Nat : n <= keyPast.lastActive[k] => n <= keyPast'.lastActive[k]
      BY <1>1, <1>a, <1>3
    <3>4. PICK k \in KeyIds :
             \/ request[r].todo \in {CacheTodo(k), LookupTodo(k)}
             \/ /\ request[r].todo = AnswerTodo(k)
                /\ Loc(r) \in KeyCopy /\ Loc(r).at <= keyClock
                /\ is_active(Loc(r).key, Loc(r).at) => Loc(r).at <= keyPast.lastActive[k]
             \/ /\ request[r].todo \in {InsertTodo(k), TouchTodo(k)}
                /\ Loc(r) \in KeyCopy /\ Loc(r).at <= keyClock /\ Loc(r).at <= keyPast.lastActive[k]
      BY <2>2 DEF Authorizes
    <3> QED BY <3>1, <3>2, <3>3, <3>4 DEF Authorizes
  <2>3. Revokes(r) => Revokes(r)'
    BY <1>2, <1>3 DEF Revokes, Settled, Authenticating, Loc
  <2>4. Saves(r) => Saves(r)'
    BY <1>2 DEF Saves, Loc
  <2> QED BY <1>2, <2>1, <2>2, <2>3, <2>4 DEF InPlace
<1>7. RevokedIsSettled'
  BY <1>2, <1>3 DEF KeyInv, RevokedIsSettled, Settled, Authenticating
<1> QED BY <1>4, <1>5, <1>6, <1>7 DEF KeyInv

-----------------------------------------------------------------------------
(* The invariant, and what it says of every behaviour.                      *)

LEMMA KeyInvInit == InitRequests /\ InitKeys => KeyInv
<1> SUFFICES ASSUME InitRequests, InitKeys
             PROVE  KeyInv
  OBVIOUS
<1> USE KeyAssumption
<1>1. PICK life \in Lifetimes : keys = [k \in KeyIds |-> IF k = 1 THEN Made(life) ELSE NoKey]
  BY DEF InitKeys
<1>2. PICK used \in {Absent, 0} : keyCache = [k \in KeyIds |-> IF k = 1 THEN used ELSE Absent]
  BY DEF InitKeys
<1>3. keyHashes = {1} /\ keyIndex = {1} /\ keyClock = 0
      /\ keyPast = [lastActive |-> [k \in KeyIds |-> 0], waited |-> [k \in KeyIds |-> 0],
                    revoked |-> {}, raced |-> {}, worst |-> 0]
  BY DEF InitKeys
<1>4. Made(life) \in MadeKey /\ Made(life) # NoKey
  BY DEF Made, MadeKey, NoKey
<1>5. KeysTyped
  BY <1>1, <1>2, <1>3, <1>4 DEF KeysTyped, KeyMemory
<1>6. ActivityIsKnown
  BY <1>2, <1>3 DEF ActivityIsKnown, Absent
<1>7. RequestsInPlace
  BY DEF InitRequests, RequestsInPlace, InPlace, Idle
<1>8. RevokedIsSettled /\ TrustIsBounded
  BY <1>3 DEF RevokedIsSettled, TrustIsBounded
<1> QED BY <1>5, <1>6, <1>7, <1>8 DEF KeyInv

LEMMA KeyInvNext == KeyInv /\ [NextKeys]_<<requestVars, keyVars>> => KeyInv'
<1> SUFFICES ASSUME KeyInv, [NextKeys]_<<requestVars, keyVars>>
             PROVE  KeyInv'
  OBVIOUS
<1>1. ASSUME NEW r \in Requests, NEW k \in KeyIds, Authenticate(r, k)
      PROVE  KeyInv'
  BY <1>1, AuthenticateKeeps
<1>2. ASSUME NEW r \in Requests, NEW life \in Lifetimes, CreateKey(r, life)
      PROVE  KeyInv'
  BY <1>2, CreateKeyKeeps
<1>3. ASSUME NEW r \in Requests, NEW k \in KeyIds, RevokeKey(r, k) \/ RotateKey(r, k)
      PROVE  KeyInv'
  BY <1>3, RevokeKeyKeeps
<1>4. ASSUME NEW r \in Requests,
             AuthCache(r) \/ AuthLookup(r) \/ AuthAnswer(r) \/ AuthInsert(r) \/ AuthTouch(r)
      PROVE  KeyInv'
  BY <1>4, AuthCacheKeeps, AuthLookupKeeps, AuthAnswerKeeps, AuthInsertKeeps, AuthTouchKeeps
<1>5. ASSUME NEW r \in Requests, KeyGet(r) \/ KeyRevoke(r) \/ KeyEvict(r)
      PROVE  KeyInv'
  BY <1>5, KeyGetKeeps, KeyRevokeKeeps, KeyEvictKeeps
<1>6. ASSUME NEW r \in Requests, KeySet(r) \/ KeyList(r) \/ KeyHash(r)
      PROVE  KeyInv'
  BY <1>6, KeySetKeeps, KeyListKeeps, KeyHashKeeps
<1>7. ASSUME NEW r \in Requests, CommandFails(r) /\ UNCHANGED keyVars
      PROVE  KeyInv'
  BY <1>7, KeyCommandFails
<1>8. CASE EvictStale \/ KeyTick
  BY <1>8, EvictStaleKeeps, KeyTickKeeps
<1>9. CASE UNCHANGED <<requestVars, keyVars>>
  <2>1. UNCHANGED <<request, keys, keyHashes, keyIndex, keyCache, keyClock, keyPast>>
    BY <1>9 DEF requestVars, keyVars
  <2> QED BY <2>1 DEF KeyInv, KeysTyped, KeyMemory, ActivityIsKnown, RequestsInPlace, InPlace, Authorizes, Revokes,
             Saves, Settled, Authenticating, RevokedIsSettled, TrustIsBounded, Loc
<1>10. CASE NextKeys
  BY <1>10, <1>1, <1>2, <1>3, <1>4, <1>5, <1>6, <1>7, <1>8 DEF NextKeys
<1> QED BY <1>9, <1>10

(* Keys, their hashes, the list of keys and the cache have their types; a  *)
(* key can be found by its hash only when it is stored and listed, with    *)
(* requests to create, revoke and rotate keys failing half way             *)
(* (save_api_key, get_api_key_by_hash).                                    *)
THEOREM KeyTypesCorrect == KeySpec => []KeyTypeOK
<1>1. KeyInv => KeyTypeOK
  <2> SUFFICES ASSUME KeyInv
               PROVE  KeyTypeOK
    OBVIOUS
  <2>1. \A k \in KeyIds : keys[k].revoked \in BOOLEAN
    <3>1. \A key \in MadeKey : key.revoked \in BOOLEAN
      BY DEF MadeKey
    <3>2. NoKey.revoked \in BOOLEAN
      BY DEF NoKey
    <3> QED BY <3>1, <3>2 DEF KeyInv, KeysTyped, KeyMemory
  <2>2. \A k \in KeyIds : keyCache[k] \in {Absent} \cup 0 .. keyClock
    BY DEF KeyInv, KeysTyped, KeyMemory, ActivityIsKnown
  <2> QED BY <2>1, <2>2 DEF KeyTypeOK, KeyInv, KeysTyped, KeyMemory
<1> QED BY <1>1, KeyInvInit, KeyInvNext, PTL DEF KeySpec

(* Whatever requests overlap and fail, and however long they take: once a  *)
(* revocation has returned the key is revoked and out of the cache, unless *)
(* an authentication with it was under way; and a request is let through   *)
(* only with a key that was active less than KEY_CACHE_TTL_SECS ago, plus  *)
(* the time from the lookup behind it to the insert into the cache         *)
(* (AuthMiddleware::call).                                                 *)
THEOREM KeysStayTrusted == KeySpec => []KeysAreTrusted
<1>1. KeyInv => KeysAreTrusted
  BY DEF KeyInv, RevokedIsSettled, Settled, KeysAreTrusted, RevocationSticks
<1> QED BY <1>1, KeyInvInit, KeyInvNext, PTL DEF KeySpec

-----------------------------------------------------------------------------
(* User policies: what a request has still to do.                           *)

\* The two commands of persist_webhook_state.
CopyCmd == [do |-> "policyCopy", id |-> "-", how |-> "-"]
SaveCmd == [do |-> "policySave", id |-> "-", how |-> "-"]

\* The requests ran one after the other, and no command failed.
Serial == ~tally.overlapped /\ tally.faults = 0

PolicyMap == [PolicyUsers -> Contracts \cup {NoPolicy}]
PolicyLoc == [contract : Contracts \cup {Unspecified}, admin : BOOLEAN, copy : PolicyMap]

InForce(p) == IF p = NoPolicy THEN DefaultContract ELSE p

\* A request saves at most twice before its last command.
EndsWith(r, c) ==
    request[r].todo \in {<<c>>, <<SaveCmd, c>>, <<CopyCmd, SaveCmd, c>>,
                         <<SaveCmd, CopyCmd, SaveCmd, c>>,
                         <<CopyCmd, SaveCmd, CopyCmd, SaveCmd, c>>}

PolicyVerbs == {"policyUser", "policyFind", "policyCheck", "policySet", "policyAnswer",
                "userErase", "policyRemove", "policyGone"}

\* What a request knows when it has saved.
HasSaved(r, c) == Serial /\ request[r].todo = <<c>> => savedPolicies = policies

\* What a request knows about its last command.
FitsPolicy(r, c) ==
    /\ c.do \in PolicyVerbs /\ c.id \in PolicyUsers
    /\ c.do = "policyFind" =>
         /\ c.how = "upsert" => Loc(r).contract # Unspecified
         /\ Serial => c.id \in userExists
    /\ c.do = "policyCheck" =>
         /\ c.how \in Contracts /\ Loc(r).contract # Unspecified
         /\ Serial => c.id \in userExists /\ policies[c.id] = c.how
    /\ c.do = "policySet" /\ c.how = "down" =>
         /\ Loc(r).contract # Unspecified /\ HasSaved(r, c)
         /\ Serial => c.id \in userExists /\ Loc(r).contract <= InForce(policies[c.id])
    /\ c.do = "policySet" /\ c.how # "down" =>
         (Serial => /\ c.id \in userExists
                    /\ Loc(r).contract # Unspecified => Loc(r).contract >= InForce(policies[c.id]))
    /\ c.do = "policyAnswer" =>
         /\ c.how \in Contracts \cup {Unspecified} /\ HasSaved(r, c)
         /\ Serial /\ c.how # Unspecified => policies[c.id] = c.how
    /\ c.do = "policyRemove" => (Serial => c.id \notin userExists)
    /\ c.do = "policyGone" =>
         /\ HasSaved(r, c)
         /\ Serial => c.id \notin userExists /\ policies[c.id] = NoPolicy

PolicyPlace(r) ==
    \/ request[r].todo \in {<<>>, <<SaveCmd>>, <<CopyCmd, SaveCmd>>}
    \/ \E c : EndsWith(r, c) /\ FitsPolicy(r, c)

\* The copy about to be saved is still what is in memory.
CopyIsFresh(r) ==
    /\ r \in Busy => Loc(r) \in PolicyLoc
    /\ Serial /\ At(r, "policySave") => Loc(r).copy = policies

PoliciesInPlace ==
    DOMAIN request = Requests /\ \A r \in Requests : PolicyPlace(r) /\ CopyIsFresh(r)

PolicyTyped ==
    /\ PolicyTypeOK
    /\ policyPast \in [floor : [PolicyUsers -> Contracts], unsaved : SUBSET PolicyUsers,
                       deleted : SUBSET PolicyUsers, restarts : Nat]
    /\ tally \in [started : Nat, faults : Nat, overlapped : BOOLEAN]

OnePolicyRequest == \A q, r \in Busy : q = r

\* No contract is below what is in force, in memory and after a restart.
FloorsHold ==
    \A u \in userExists : /\ InForce(policies[u]) >= policyPast.floor[u]
                          /\ InForce(savedPolicies[u]) >= policyPast.floor[u]

DeletedAreGone ==
    \A u \in policyPast.deleted :
        u \notin userExists /\ policies[u] = NoPolicy /\ savedPolicies[u] = NoPolicy

AllSaved == \A u \in PolicyUsers : savedPolicies[u] # policies[u] => u \in policyPast.unsaved
SavesNow(r) == At(r, "policyCopy") \/ At(r, "policySave")

SerialPolicies ==
    Serial => /\ OnePolicyRequest /\ FloorsHold /\ DeletedAreGone
              /\ AllSaved \/ \E r \in Busy : SavesNow(r)

PolicyInv == PolicyTyped /\ PoliciesInPlace /\ SerialPolicies

-----------------------------------------------------------------------------

(* What persist_webhook_state puts before a command. *)
LEMMA PolicyLists ==
    ASSUME NEW c
    PROVE  /\ persist_webhook_state \o <<>> = <<CopyCmd, SaveCmd>>
           /\ (persist_webhook_state \o <<c>>) \o <<>> = <<CopyCmd, SaveCmd, c>>
           /\ (persist_webhook_state \o <<>>) \o <<>> = <<CopyCmd, SaveCmd>>
           /\ (persist_webhook_state \o persist_webhook_state \o <<c>>) \o <<>>
                = <<CopyCmd, SaveCmd, CopyCmd, SaveCmd, c>>
           /\ persist_webhook_state \o <<c>> = <<CopyCmd, SaveCmd, c>>
           /\ (<<>> \o <<c>>) \o <<>> = <<c>> /\ <<c>> \o <<>> = <<c>>
           /\ (<<>> \o <<>>) \o <<>> = <<>>
<1> DEFINE S == {c, CopyCmd, SaveCmd}
           both == <<CopyCmd, SaveCmd>>
<1>1. /\ <<CopyCmd>> \in Seq(S) /\ <<SaveCmd>> \in Seq(S) /\ <<c>> \in Seq(S) /\ both \in Seq(S)
      /\ <<>> \in Seq(S) /\ <<CopyCmd, SaveCmd, c>> \in Seq(S)
      /\ <<CopyCmd, SaveCmd, CopyCmd, SaveCmd>> \in Seq(S)
      /\ <<CopyCmd, SaveCmd, CopyCmd, SaveCmd, c>> \in Seq(S)
  OBVIOUS
<1>2. persist_webhook_state = both
  <2>1. persist_webhook_state = <<CopyCmd>> \o <<SaveCmd>>
    BY DEF persist_webhook_state, Cmd, CopyCmd, SaveCmd
  <2>2. <<CopyCmd>> \o <<SaveCmd>> \in Seq(S) /\ Len(<<CopyCmd>> \o <<SaveCmd>>) = 2 /\ Len(both) = 2
    BY <1>1
  <2>3. \A i \in 1 .. 2 : (<<CopyCmd>> \o <<SaveCmd>>)[i] = both[i]
    BY <1>1
  <2>4. <<CopyCmd>> \o <<SaveCmd>> = both
    BY <1>1, <2>2, <2>3, SeqEqual, Zenon
  <2> QED BY <2>1, <2>4
<1>3. both \o <<c>> = <<CopyCmd, SaveCmd, c>>
  <2>1. both \o <<c>> \in Seq(S) /\ Len(both \o <<c>>) = 3 /\ Len(<<CopyCmd, SaveCmd, c>>) = 3
    BY <1>1
  <2>2. \A i \in 1 .. 3 : (both \o <<c>>)[i] = <<CopyCmd, SaveCmd, c>>[i]
    BY <1>1
  <2> QED BY <1>1, <2>1, <2>2, SeqEqual, Zenon
<1>4. both \o both = <<CopyCmd, SaveCmd, CopyCmd, SaveCmd>>
  <2>1. both \o both \in Seq(S) /\ Len(both \o both) = 4
        /\ Len(<<CopyCmd, SaveCmd, CopyCmd, SaveCmd>>) = 4
    BY <1>1
  <2>2. \A i \in 1 .. 4 : (both \o both)[i] = <<CopyCmd, SaveCmd, CopyCmd, SaveCmd>>[i]
    BY <1>1
  <2> QED BY <1>1, <2>1, <2>2, SeqEqual, Zenon
<1>5. <<CopyCmd, SaveCmd, CopyCmd, SaveCmd>> \o <<c>> = <<CopyCmd, SaveCmd, CopyCmd, SaveCmd, c>>
  <2> DEFINE four == <<CopyCmd, SaveCmd, CopyCmd, SaveCmd>>
  <2>1. four \o <<c>> \in Seq(S) /\ Len(four \o <<c>>) = 5
        /\ Len(<<CopyCmd, SaveCmd, CopyCmd, SaveCmd, c>>) = 5
    BY <1>1
  <2>2. \A i \in 1 .. 5 : (four \o <<c>>)[i] = <<CopyCmd, SaveCmd, CopyCmd, SaveCmd, c>>[i]
    BY <1>1
  <2> QED BY <1>1, <2>1, <2>2, SeqEqual, Zenon
<1>6. \A s \in Seq(S) : s \o <<>> = s /\ <<>> \o s = s
  BY ConcatEmptySeq, Zenon
<1> HIDE DEF S, both
<1>7. both \o <<>> = both /\ <<CopyCmd, SaveCmd, c>> \o <<>> = <<CopyCmd, SaveCmd, c>>
  BY <1>1, <1>6, Zenon
<1>8. /\ <<CopyCmd, SaveCmd, CopyCmd, SaveCmd, c>> \o <<>> = <<CopyCmd, SaveCmd, CopyCmd, SaveCmd, c>>
      /\ <<>> \o <<c>> = <<c>> /\ <<c>> \o <<>> = <<c>> /\ <<>> \o <<>> = <<>>
  BY <1>1, <1>6, Zenon
<1> QED BY <1>2, <1>3, <1>4, <1>5, <1>7, <1>8, Zenon DEF both

(* What is left of a list after its first command. *)
LEMMA PolicyTails ==
    ASSUME NEW c
    PROVE  /\ Tail(<<c>>) = <<>> /\ Tail(<<SaveCmd>>) = <<>> /\ Tail(<<CopyCmd, SaveCmd>>) = <<SaveCmd>>
           /\ Tail(<<SaveCmd, c>>) = <<c>> /\ Tail(<<CopyCmd, SaveCmd, c>>) = <<SaveCmd, c>>
           /\ Tail(<<SaveCmd, CopyCmd, SaveCmd, c>>) = <<CopyCmd, SaveCmd, c>>
           /\ Tail(<<CopyCmd, SaveCmd, CopyCmd, SaveCmd, c>>) = <<SaveCmd, CopyCmd, SaveCmd, c>>
OBVIOUS

(* What comes first in a list. *)
LEMMA PolicyHeads ==
    ASSUME NEW c, NEW t,
           t \in {<<c>>, <<CopyCmd, SaveCmd, c>>, <<CopyCmd, SaveCmd, CopyCmd, SaveCmd, c>>}
    PROVE  t # <<>> /\ Head(t) \in {c, CopyCmd}
<1>1. CASE t = <<c>>
  BY <1>1
<1>2. CASE t = <<CopyCmd, SaveCmd, c>>
  BY <1>2
<1>3. CASE t = <<CopyCmd, SaveCmd, CopyCmd, SaveCmd, c>>
  BY <1>3
<1> QED BY <1>1, <1>2, <1>3

(* A command that is not about saving is the last one. *)
LEMMA LastCommand ==
    ASSUME PoliciesInPlace, NEW r \in Requests, NEW d \in PolicyVerbs, At(r, d)
    PROVE  /\ r \in Busy
           /\ request[r].todo = <<This(r)>> /\ Rest(r) = <<>>
           /\ This(r).do = d /\ FitsPolicy(r, This(r)) /\ Loc(r) \in PolicyLoc
<1>1. r \in Busy /\ Head(request[r].todo).do = d /\ d # "policyCopy" /\ d # "policySave"
  BY DEF At, PolicyVerbs
<1>2. request[r].todo # <<>> /\ Loc(r) \in PolicyLoc
  BY <1>1 DEF Busy, PoliciesInPlace, CopyIsFresh
<1>3. CopyCmd.do = "policyCopy" /\ SaveCmd.do = "policySave"
  BY DEF CopyCmd, SaveCmd
<1>4. ~(request[r].todo \in {<<>>, <<SaveCmd>>, <<CopyCmd, SaveCmd>>})
  BY <1>1, <1>2, <1>3
<1>5. PICK c : EndsWith(r, c) /\ FitsPolicy(r, c)
  BY <1>4 DEF PoliciesInPlace, PolicyPlace
<1>6. request[r].todo = <<c>>
  BY <1>1, <1>3, <1>5 DEF EndsWith
<1> QED BY <1>1, <1>2, <1>5, <1>6 DEF This, Rest

(* A request that copies what it will save ... *)
LEMMA BeforeCopy ==
    ASSUME PoliciesInPlace, NEW r \in Requests, At(r, "policyCopy")
    PROVE  /\ r \in Busy /\ Loc(r) \in PolicyLoc
           /\ \/ Rest(r) = <<SaveCmd>>
              \/ \E c : /\ Rest(r) \in {<<SaveCmd, c>>, <<SaveCmd, CopyCmd, SaveCmd, c>>}
                        /\ FitsPolicy(r, c)
<1>1. r \in Busy /\ request[r].todo # <<>> /\ Head(request[r].todo).do = "policyCopy"
  BY DEF At, Busy
<1>2. Loc(r) \in PolicyLoc
  BY <1>1 DEF Busy, PoliciesInPlace, CopyIsFresh
<1>3. CopyCmd.do = "policyCopy" /\ SaveCmd.do = "policySave"
  BY DEF CopyCmd, SaveCmd
<1>4. CASE request[r].todo \in {<<>>, <<SaveCmd>>, <<CopyCmd, SaveCmd>>}
  <2>1. request[r].todo = <<CopyCmd, SaveCmd>>
    BY <1>1, <1>3, <1>4
  <2> QED BY <1>1, <1>2, <2>1, PolicyTails, Zenon DEF Rest
<1>5. CASE \E c : EndsWith(r, c) /\ FitsPolicy(r, c)
  <2>1. PICK c : EndsWith(r, c) /\ FitsPolicy(r, c)
    BY <1>5
  <2>2. request[r].todo \in {<<CopyCmd, SaveCmd, c>>, <<CopyCmd, SaveCmd, CopyCmd, SaveCmd, c>>}
    BY <1>1, <1>3, <2>1 DEF EndsWith, FitsPolicy, PolicyVerbs
  <2>3. Rest(r) \in {<<SaveCmd, c>>, <<SaveCmd, CopyCmd, SaveCmd, c>>}
    BY <2>2, PolicyTails, Zenon DEF Rest
  <2> QED BY <1>1, <1>2, <2>1, <2>3
<1> QED BY <1>4, <1>5 DEF PoliciesInPlace, PolicyPlace

(* ... and one that saves its copy. *)
LEMMA BeforeSave ==
    ASSUME PoliciesInPlace, NEW r \in Requests, At(r, "policySave")
    PROVE  /\ r \in Busy /\ Loc(r) \in PolicyLoc
           /\ Serial => Loc(r).copy = policies
           /\ \/ Rest(r) = <<>>
              \/ \E c : /\ Rest(r) \in {<<c>>, <<CopyCmd, SaveCmd, c>>}
                        /\ FitsPolicy(r, c)
<1>1. r \in Busy /\ request[r].todo # <<>> /\ Head(request[r].todo).do = "policySave"
  BY DEF At, Busy
<1>2. Loc(r) \in PolicyLoc /\ (Serial => Loc(r).copy = policies)
  BY <1>1 DEF Busy, PoliciesInPlace, CopyIsFresh
<1>3. CopyCmd.do = "policyCopy" /\ SaveCmd.do = "policySave"
  BY DEF CopyCmd, SaveCmd
<1>4. CASE request[r].todo \in {<<>>, <<SaveCmd>>, <<CopyCmd, SaveCmd>>}
  <2>1. request[r].todo = <<SaveCmd>>
    BY <1>1, <1>3, <1>4
  <2> QED BY <1>1, <1>2, <2>1, PolicyTails, Zenon DEF Rest
<1>5. CASE \E c : EndsWith(r, c) /\ FitsPolicy(r, c)
  <2>1. PICK c : EndsWith(r, c) /\ FitsPolicy(r, c)
    BY <1>5
  <2>2. request[r].todo \in {<<SaveCmd, c>>, <<SaveCmd, CopyCmd, SaveCmd, c>>}
    BY <1>1, <1>3, <2>1 DEF EndsWith, FitsPolicy, PolicyVerbs
  <2>3. Rest(r) \in {<<c>>, <<CopyCmd, SaveCmd, c>>}
    BY <2>2, PolicyTails, Zenon DEF Rest
  <2> QED BY <1>1, <1>2, <2>1, <2>3
<1> QED BY <1>4, <1>5 DEF PoliciesInPlace, PolicyPlace

(* One request moves.  Where requests overlap nothing is known but where *)
(* they are; where they do not, the others have nothing to do.           *)
LEMMA OtherPoliciesStay ==
    ASSUME PolicyInv, NEW r \in Requests, NEW x, request' = [request EXCEPT ![r] = x],
           Serial' => Serial /\ \A q \in Requests \ {r} : request[q].todo = <<>>,
           PolicyPlace(r)', CopyIsFresh(r)'
    PROVE  PoliciesInPlace' /\ (Serial' => OnePolicyRequest')
<1>1. DOMAIN request' = Requests /\ request'[r] = x /\ \A q \in Requests \ {r} : request'[q] = request[q]
  BY DEF PolicyInv, PoliciesInPlace
<1>2. ASSUME NEW q \in Requests \ {r}
      PROVE  PolicyPlace(q)' /\ CopyIsFresh(q)'
  <2>1. request'[q] = request[q] /\ PolicyPlace(q) /\ CopyIsFresh(q)
    BY <1>1 DEF PolicyInv, PoliciesInPlace
  <2>2. CASE Serial'
    <3>1. request'[q].todo = <<>>
      BY <2>1, <2>2
    <3> QED BY <3>1 DEF PolicyPlace, CopyIsFresh, Busy, At
  <2>3. CASE ~Serial'
    <3>1. \A c : EndsWith(q, c) /\ FitsPolicy(q, c) => EndsWith(q, c)' /\ FitsPolicy(q, c)'
      BY <2>1, <2>3 DEF EndsWith, FitsPolicy, HasSaved, Loc
    <3>2. PolicyPlace(q)'
      BY <2>1, <3>1 DEF PolicyPlace
    <3> QED BY <2>1, <2>3, <3>2 DEF CopyIsFresh, Busy, Loc
  <2> QED BY <2>2, <2>3
<1>3. Serial' => OnePolicyRequest'
  BY <1>1 DEF OnePolicyRequest, Busy
<1> QED BY <1>1, <1>2, <1>3 DEF PoliciesInPlace

(* Without overlap the request that moves is the only one. *)
LEMMA AloneAtWork ==
    ASSUME PolicyInv, Serial, NEW r \in Busy
    PROVE  \A q \in Requests \ {r} : request[q].todo = <<>>
BY DEF PolicyInv, SerialPolicies, OnePolicyRequest, Busy

(* And if it does not save, all is saved. *)
LEMMA SavedBetween ==
    ASSUME PolicyInv, Serial, NEW r \in Requests, NEW d \in PolicyVerbs, At(r, d)
    PROVE  AllSaved
<1>1. \A q \in Busy : q = r
  BY DEF PolicyInv, SerialPolicies, OnePolicyRequest, At
<1>2. ~SavesNow(r)
  BY DEF SavesNow, At, PolicyVerbs
<1> QED BY <1>1, <1>2 DEF PolicyInv, SerialPolicies

-----------------------------------------------------------------------------
(* One lemma per kind of step.                                              *)

(* Requests start, be it to answer a question or to save what comes first. *)
LEMMA PolicyStart ==
    ASSUME PolicyInv, NEW r \in Requests, NEW t, NEW u \in PolicyUsers,
           NEW contract \in Contracts \cup {Unspecified}, NEW admin \in BOOLEAN,
           AskPolicy(r, t, contract, admin),
           \E d, h : /\ d \in {"policyUser", "userErase"}
                     /\ LET c == [do |-> d, id |-> u, how |-> h] IN
                        t \in {<<c>>, <<CopyCmd, SaveCmd, c>>}
    PROVE  PolicyInv'
<1>1. PICK d, h : /\ d \in {"policyUser", "userErase"}
                  /\ t \in {<<[do |-> d, id |-> u, how |-> h]>>,
                            <<CopyCmd, SaveCmd, [do |-> d, id |-> u, how |-> h]>>}
  OBVIOUS
<1> DEFINE c == [do |-> d, id |-> u, how |-> h]
           x == [todo |-> t, loc |-> PolicyLocals(contract, admin)]
<1>2. c.do = d /\ c.id = u
  OBVIOUS
<1>3. t \in {<<c>>, <<CopyCmd, SaveCmd, c>>}
  BY <1>1
<1> HIDE DEF c
<1>4. Start(r, t, PolicyLocals(contract, admin)) /\ UNCHANGED policyVars
  BY DEF AskPolicy
<1>a. t # <<>> /\ Head(t) \in {c, CopyCmd}
  BY <1>3, PolicyHeads
<1>5. request' = [request EXCEPT ![r] = x]
  BY <1>4, <1>a DEF Start, Continue
<1>6. /\ tally' \in [started : Nat, faults : Nat, overlapped : BOOLEAN]
      /\ Serial' => Serial /\ Busy = {}
  <2> DEFINE over == tally.overlapped \/ Busy # {}
  <2>1. tally \in [started : Nat, faults : Nat, overlapped : BOOLEAN] /\ over \in BOOLEAN
    BY DEF PolicyInv, PolicyTyped
  <2>2. tally' = [tally EXCEPT !.started = tally.started + 1, !.overlapped = over]
    BY <1>4 DEF Start
  <2> HIDE DEF over
  <2>a. tally' = [started |-> tally.started + 1, faults |-> tally.faults, overlapped |-> over]
    BY <2>1, <2>2
  <2>3. /\ tally' \in [started : Nat, faults : Nat, overlapped : BOOLEAN]
        /\ tally'.overlapped = over /\ tally'.faults = tally.faults
    BY <2>1, <2>a
  <2> QED BY <2>3 DEF Serial, over
<1>7. request'[r].todo = t /\ Loc(r)' = PolicyLocals(contract, admin)
  BY <1>5 DEF PolicyInv, PoliciesInPlace, Loc
<1>8. PolicyPlace(r)'
  <2>1. EndsWith(r, c)' /\ FitsPolicy(r, c)'
    BY <1>1, <1>2, <1>3, <1>7 DEF EndsWith, FitsPolicy, PolicyVerbs
  <2> QED BY <2>1 DEF PolicyPlace
<1>9. CopyIsFresh(r)'
  <2>1. PolicyLocals(contract, admin) \in PolicyLoc
    BY DEF PolicyLocals, PolicyLoc, PolicyMap, PolicyInv, PolicyTyped, PolicyTypeOK
  <2>2. Head(t).do # "policySave"
    BY <1>1, <1>2, <1>a DEF CopyCmd
  <2> QED BY <1>7, <2>1, <2>2 DEF CopyIsFresh, At
<1> HIDE DEF x
<1>10. PoliciesInPlace' /\ (Serial' => OnePolicyRequest')
  BY <1>5, <1>6, <1>8, <1>9, OtherPoliciesStay DEF Busy
<1>11. PolicyTyped'
  BY <1>4, <1>6 DEF PolicyInv, PolicyTyped, PolicyTypeOK, policyVars
<1>12. SerialPolicies'
  <2> SUFFICES ASSUME Serial'
               PROVE  FloorsHold' /\ DeletedAreGone' /\ AllSaved'
    BY <1>10 DEF SerialPolicies
  <2>1. FloorsHold /\ DeletedAreGone /\ AllSaved
    BY <1>6 DEF PolicyInv, SerialPolicies
  <2> QED BY <1>4, <2>1 DEF FloorsHold, DeletedAreGone, AllSaved, policyVars, InForce
<1> QED BY <1>10, <1>11, <1>12 DEF PolicyInv

(* The last command of a request, which goes on with others or is over. *)
LEMMA PolicyMove ==
    ASSUME PolicyInv, NEW r \in Requests, NEW d \in PolicyVerbs, At(r, d),
           NEW t, NEW loc \in PolicyLoc, Continue(r, t, loc),
           tally' \in [started : Nat, faults : Nat, overlapped : BOOLEAN],
           Serial' => Serial,
           PolicyTypeOK',
           policyPast' \in [floor : [PolicyUsers -> Contracts], unsaved : SUBSET PolicyUsers,
                            deleted : SUBSET PolicyUsers, restarts : Nat],
           \/ t \in {<<>>, <<CopyCmd, SaveCmd>>}
           \/ \E c : /\ t \in {<<c>>, <<CopyCmd, SaveCmd, c>>, <<CopyCmd, SaveCmd, CopyCmd, SaveCmd, c>>}
                     /\ request'[r] = [todo |-> t, loc |-> loc] => FitsPolicy(r, c)',
           Serial' /\ FloorsHold /\ DeletedAreGone /\ AllSaved =>
             FloorsHold' /\ DeletedAreGone' /\ (AllSaved' \/ (t # <<>> /\ Head(t) = CopyCmd))
    PROVE  PolicyInv'
<1> DEFINE x == IF t = <<>> THEN Idle ELSE [todo |-> t, loc |-> loc]
<1>1. request' = [request EXCEPT ![r] = x]
  BY DEF Continue
<1>2. request'[r] = x
  BY <1>1 DEF PolicyInv, PoliciesInPlace
<1>3. request'[r].todo = t /\ (t # <<>> => request'[r] = [todo |-> t, loc |-> loc] /\ Loc(r)' = loc)
  BY <1>2 DEF Idle, Loc
<1> HIDE DEF x
<1>4. PolicyPlace(r)'
  <2>1. CASE t \in {<<>>, <<CopyCmd, SaveCmd>>}
    BY <1>3, <2>1 DEF PolicyPlace
  <2>2. CASE \E c : /\ t \in {<<c>>, <<CopyCmd, SaveCmd, c>>, <<CopyCmd, SaveCmd, CopyCmd, SaveCmd, c>>}
                    /\ request'[r] = [todo |-> t, loc |-> loc] => FitsPolicy(r, c)'
    <3>1. PICK c : /\ t \in {<<c>>, <<CopyCmd, SaveCmd, c>>, <<CopyCmd, SaveCmd, CopyCmd, SaveCmd, c>>}
                   /\ request'[r] = [todo |-> t, loc |-> loc] => FitsPolicy(r, c)'
      BY <2>2
    <3>2. t # <<>>
      BY <3>1, PolicyHeads, Zenon
    <3>3. EndsWith(r, c)' /\ FitsPolicy(r, c)'
      BY <1>3, <3>1, <3>2 DEF EndsWith
    <3> QED BY <3>3 DEF PolicyPlace
  <2> QED BY <2>1, <2>2
<1>5. t # <<>> => Head(t).do # "policySave"
  <2>1. CASE t \in {<<>>, <<CopyCmd, SaveCmd>>}
    BY <2>1 DEF CopyCmd
  <2>2. CASE \E c : /\ t \in {<<c>>, <<CopyCmd, SaveCmd, c>>, <<CopyCmd, SaveCmd, CopyCmd, SaveCmd, c>>}
                    /\ request'[r] = [todo |-> t, loc |-> loc] => FitsPolicy(r, c)'
    <3>1. PICK c : /\ t \in {<<c>>, <<CopyCmd, SaveCmd, c>>, <<CopyCmd, SaveCmd, CopyCmd, SaveCmd, c>>}
                   /\ request'[r] = [todo |-> t, loc |-> loc] => FitsPolicy(r, c)'
      BY <2>2
    <3>3. t # <<>> /\ Head(t) \in {c, CopyCmd}
      BY <3>1, PolicyHeads, Zenon
    <3>2. c.do \in PolicyVerbs
      BY <1>3, <3>1, <3>3 DEF FitsPolicy
    <3> QED BY <3>2, <3>3 DEF PolicyVerbs, CopyCmd
  <2> QED BY <2>1, <2>2
<1>6. CopyIsFresh(r)'
  BY <1>3, <1>5 DEF CopyIsFresh, Busy, At
<1>7. r \in Busy /\ (Serial' => \A q \in Requests \ {r} : request[q].todo = <<>>)
  BY AloneAtWork DEF At
<1>8. PoliciesInPlace' /\ (Serial' => OnePolicyRequest')
  BY <1>1, <1>4, <1>6, <1>7, OtherPoliciesStay
<1>9. PolicyTyped'
  BY DEF PolicyTyped
<1>10. SerialPolicies'
  <2> SUFFICES ASSUME Serial'
               PROVE  FloorsHold' /\ DeletedAreGone' /\ (AllSaved' \/ \E q \in Busy' : SavesNow(q)')
    BY <1>8 DEF SerialPolicies
  <2>1. Serial /\ AllSaved /\ FloorsHold /\ DeletedAreGone
    BY SavedBetween DEF PolicyInv, SerialPolicies
  <2>2. t # <<>> /\ Head(t) = CopyCmd => r \in Busy' /\ SavesNow(r)'
    BY <1>3 DEF SavesNow, At, Busy, CopyCmd
  <2> QED BY <2>1, <2>2
<1> QED BY <1>8, <1>9, <1>10 DEF PolicyInv

(* A request ends without having changed a policy. *)
LEMMA PolicyOver ==
    ASSUME PolicyInv, NEW r \in Requests, NEW d \in PolicyVerbs, At(r, d),
           Continue(r, <<>>, Loc(r)), UNCHANGED policyVars,
           tally' \in [started : Nat, faults : Nat, overlapped : BOOLEAN], Serial' => Serial
    PROVE  PolicyInv'
<1>1. Loc(r) \in PolicyLoc
  BY LastCommand DEF PolicyInv
<1>2. /\ PolicyTypeOK'
      /\ policyPast' \in [floor : [PolicyUsers -> Contracts], unsaved : SUBSET PolicyUsers,
                          deleted : SUBSET PolicyUsers, restarts : Nat]
  BY DEF PolicyInv, PolicyTyped, PolicyTypeOK, policyVars
<1>3. FloorsHold /\ DeletedAreGone /\ AllSaved => FloorsHold' /\ DeletedAreGone' /\ AllSaved'
  BY DEF FloorsHold, DeletedAreGone, AllSaved, policyVars, InForce
<1> QED BY <1>1, <1>2, <1>3, PolicyMove

LEMMA PolicyRefused ==
    ASSUME PolicyInv, NEW r \in Requests, NEW d \in PolicyVerbs, At(r, d), UNCHANGED policyVars,
           Refuse(r) \/ CommandFails(r)
    PROVE  PolicyInv'
<1>1. Rest(r) = <<>>
  BY LastCommand DEF PolicyInv
<1>2. Unwound(<<>>) = <<>>
  BY DEF Unwound
<1>3. Continue(r, <<>>, Loc(r))
  BY <1>1, <1>2 DEF Refuse, CommandFails
<1>4. tally' \in [started : Nat, faults : Nat, overlapped : BOOLEAN] /\ (Serial' => Serial)
  BY DEF Refuse, CommandFails, PolicyInv, PolicyTyped, Serial
<1> QED BY <1>3, <1>4, PolicyOver

-----------------------------------------------------------------------------
(* The steps of handlers.                                                   *)

(* find_user_by_identifier refuses or goes on to the policy. *)
LEMMA PolicyUserKeeps ==
    ASSUME PolicyInv, NEW r \in Requests, PolicyUser(r)
    PROVE  PolicyInv'
<1> DEFINE u == This(r).id
<1>1. /\ request[r].todo = <<This(r)>> /\ Rest(r) = <<>> /\ Loc(r) \in PolicyLoc
      /\ u \in PolicyUsers /\ "policyUser" \in PolicyVerbs /\ At(r, "policyUser")
  BY LastCommand DEF PolicyUser, PolicyInv, PolicyVerbs, FitsPolicy
<1>2. UNCHANGED policyVars
  BY DEF PolicyUser
<1>3. CASE u \notin userExists
  <2>1. Refuse(r)
    BY <1>3 DEF PolicyUser
  <2> QED BY <1>1, <1>2, <2>1, PolicyRefused
<1>4. CASE u \in userExists
  <2>1. PICK c : /\ Insert(r, <<c>>, Loc(r)) /\ c.id = u
                 /\ \/ c.do = "policySet" /\ c.how # "down" /\ Loc(r).contract = Unspecified
                    \/ c.do = "policyFind" /\ (c.how = "upsert" => Loc(r).contract # Unspecified)
    <3>1. CASE This(r).how = "upsert" /\ Loc(r).contract = Unspecified
      BY <1>4, <3>1 DEF PolicyUser, Cmd
    <3>2. CASE ~(This(r).how = "upsert" /\ Loc(r).contract = Unspecified)
      <4> DEFINE c == [do |-> "policyFind", id |-> u, how |-> This(r).how]
      <4>1. Insert(r, <<c>>, Loc(r))
        BY <1>4, <3>2 DEF PolicyUser, Cmd
      <4>2. c.do = "policyFind" /\ c.id = u /\ c.how = This(r).how
        OBVIOUS
      <4> HIDE DEF c
      <4> QED BY <3>2, <4>1, <4>2
    <3> QED BY <3>1, <3>2
  <2>2. Continue(r, <<c>>, Loc(r)) /\ tally' = tally
    BY <1>1, <2>1, PolicyLists DEF Insert
  <2>3. request'[r] = [todo |-> <<c>>, loc |-> Loc(r)] => FitsPolicy(r, c)'
    <3> SUFFICES ASSUME request'[r] = [todo |-> <<c>>, loc |-> Loc(r)]
                 PROVE  FitsPolicy(r, c)'
      OBVIOUS
    <3>1. Loc(r)' = Loc(r)
      BY DEF Loc
    <3>2. userExists' = userExists
      BY <1>2 DEF policyVars
    <3> QED BY <1>1, <1>4, <2>1, <3>1, <3>2 DEF FitsPolicy, PolicyVerbs
  <2>4. /\ PolicyTypeOK'
        /\ policyPast' \in [floor : [PolicyUsers -> Contracts], unsaved : SUBSET PolicyUsers,
                            deleted : SUBSET PolicyUsers, restarts : Nat]
        /\ tally' \in [started : Nat, faults : Nat, overlapped : BOOLEAN] /\ (Serial' => Serial)
    BY <1>2, <2>2 DEF PolicyInv, PolicyTyped, PolicyTypeOK, policyVars, Serial
  <2>5. FloorsHold /\ DeletedAreGone /\ AllSaved => FloorsHold' /\ DeletedAreGone' /\ AllSaved'
    BY <1>2 DEF FloorsHold, DeletedAreGone, AllSaved, policyVars, InForce
  <2> HIDE DEF u
  <2> QED BY <1>1, <2>2, <2>3, <2>4, <2>5, PolicyMove
<1> QED BY <1>3, <1>4

(* get_or_create_user_policy: the default is what was in force without it. *)
LEMMA PolicyFindKeeps ==
    ASSUME PolicyInv, NEW r \in Requests, PolicyFind(r)
    PROVE  PolicyInv'
<1>1. /\ request[r].todo = <<This(r)>> /\ Rest(r) = <<>> /\ Loc(r) \in PolicyLoc
      /\ FitsPolicy(r, This(r)) /\ This(r).do = "policyFind"
      /\ This(r).id \in PolicyUsers /\ "policyFind" \in PolicyVerbs /\ At(r, "policyFind")
  BY LastCommand DEF PolicyFind, PolicyInv, PolicyVerbs, FitsPolicy
<1>a. PICK u \in PolicyUsers : u = This(r).id
  BY <1>1
<1>b. PICK loc \in PolicyLoc : loc = Loc(r)
  BY <1>1
<1>c. PICK how : how = This(r).how
  OBVIOUS
<1>d. PICK found : found = InForce(policies[u])
  OBVIOUS
<1>2. u = This(r).id /\ how = This(r).how /\ loc = Loc(r) /\ found = InForce(policies[u])
  BY <1>a, <1>b, <1>c, <1>d
<1>e. PICK c : c = [do |-> "policyCheck", id |-> u, how |-> found]
  OBVIOUS
<1> DEFINE new == policies[u] = NoPolicy
           save == IF new /\ how # "grpc" THEN persist_webhook_state ELSE <<>>
           more == IF how = "upsert" THEN <<c>> ELSE <<>>
           t == (save \o more) \o <<>>
           unsaved == IF new /\ how = "grpc" THEN policyPast.unsaved \cup {u}
                      ELSE policyPast.unsaved
<1>3. /\ policies' = [policies EXCEPT ![u] = found]
      /\ policyPast' = [policyPast EXCEPT !.unsaved = unsaved]
      /\ Continue(r, t, loc) /\ tally' = tally
      /\ UNCHANGED <<savedPolicies, userExists>>
  BY <1>1, <1>2, <1>e DEF PolicyFind, Insert, Cmd, InForce
<1>4. found \in Contracts /\ InForce(found) = InForce(policies[u]) /\ (~new => found = policies[u])
  BY <1>2, PolicyAssumption
     DEF PolicyInv, PolicyTyped, PolicyTypeOK, Contracts, NoPolicy, DefaultContract, InForce
<1>5. c.do = "policyCheck" /\ c.id = u /\ c.how = found
  BY <1>e
<1>6. /\ how = "upsert" => t \in {<<c>>, <<CopyCmd, SaveCmd, c>>}
      /\ how # "upsert" => t \in {<<>>, <<CopyCmd, SaveCmd>>}
      /\ new /\ how # "grpc" => t # <<>> /\ Head(t) = CopyCmd
  <2> HIDE DEF new
  <2>1. CASE new /\ how # "grpc" /\ how = "upsert"
    <3>1. t = <<CopyCmd, SaveCmd, c>>
      BY <2>1, PolicyLists
    <3> HIDE DEF t
    <3> QED BY <2>1, <3>1
  <2>2. CASE new /\ how # "grpc" /\ how # "upsert"
    <3>1. t = <<CopyCmd, SaveCmd>>
      BY <2>2, PolicyLists
    <3> HIDE DEF t
    <3> QED BY <2>2, <3>1
  <2>3. CASE ~(new /\ how # "grpc") /\ how = "upsert"
    <3>1. t = <<c>>
      BY <2>3, PolicyLists
    <3> HIDE DEF t
    <3> QED BY <2>3, <3>1
  <2>4. CASE ~(new /\ how # "grpc") /\ how # "upsert"
    <3>1. t = <<>>
      BY <2>4, PolicyLists
    <3> HIDE DEF t
    <3> QED BY <2>4, <3>1
  <2> QED BY <2>1, <2>2, <2>3, <2>4
<1> HIDE DEF t
<1>7. /\ policyPast'.floor = policyPast.floor /\ policyPast'.deleted = policyPast.deleted
      /\ policyPast'.unsaved = unsaved
      /\ policyPast' \in [floor : [PolicyUsers -> Contracts], unsaved : SUBSET PolicyUsers,
                          deleted : SUBSET PolicyUsers, restarts : Nat]
  <2>1. unsaved \in SUBSET PolicyUsers
    BY DEF PolicyInv, PolicyTyped
  <2> HIDE DEF unsaved
  <2> QED BY <1>3, <2>1 DEF PolicyInv, PolicyTyped
<1>8. /\ policies' \in PolicyMap /\ policies'[u] = found
      /\ \A v \in PolicyUsers \ {u} : policies'[v] = policies[v]
      /\ PolicyTypeOK'
      /\ tally' \in [started : Nat, faults : Nat, overlapped : BOOLEAN] /\ (Serial' => Serial)
  BY <1>3, <1>4 DEF PolicyInv, PolicyTyped, PolicyTypeOK, PolicyMap, Serial
<1>9. how = "upsert" => (request'[r] = [todo |-> t, loc |-> loc] => FitsPolicy(r, c)')
  <2> SUFFICES ASSUME how = "upsert", request'[r] = [todo |-> t, loc |-> loc]
               PROVE  FitsPolicy(r, c)'
    OBVIOUS
  <2>1. Loc(r)' = loc
    BY DEF Loc
  <2>2. loc.contract # Unspecified /\ (Serial => u \in userExists)
    BY <1>1, <1>2 DEF FitsPolicy
  <2> QED BY <1>3, <1>4, <1>5, <1>8, <2>1, <2>2 DEF FitsPolicy, PolicyVerbs
<1>10. ASSUME Serial', FloorsHold, DeletedAreGone, AllSaved
       PROVE  FloorsHold' /\ DeletedAreGone' /\ (AllSaved' \/ (t # <<>> /\ Head(t) = CopyCmd))
  <2>1. u \in userExists /\ u \notin policyPast.deleted
    BY <1>1, <1>2, <1>8, <1>10 DEF FitsPolicy, DeletedAreGone
  <2>2. FloorsHold'
    <3>1. \A v \in PolicyUsers : InForce(policies'[v]) = InForce(policies[v])
      BY <1>4, <1>8
    <3>2. userExists \subseteq PolicyUsers
      BY DEF PolicyInv, PolicyTyped, PolicyTypeOK
    <3> QED BY <1>3, <1>7, <1>10, <3>1, <3>2 DEF FloorsHold, InForce
  <2>3. DeletedAreGone'
    <3>1. \A v \in policyPast.deleted : v \in PolicyUsers /\ v # u
      BY <2>1 DEF PolicyInv, PolicyTyped
    <3> QED BY <1>3, <1>7, <1>8, <1>10, <3>1 DEF DeletedAreGone
  <2>4. CASE new /\ how # "grpc"
    BY <1>6, <2>2, <2>3, <2>4
  <2>5. CASE new /\ how = "grpc"
    <3>1. AllSaved'
      BY <1>3, <1>7, <1>8, <1>10, <2>5 DEF AllSaved
    <3> QED BY <2>2, <2>3, <3>1
  <2>6. CASE ~new
    <3>1. \A v \in PolicyUsers : policies'[v] = policies[v]
      BY <1>4, <1>8, <2>6
    <3>2. AllSaved'
      BY <1>3, <1>7, <1>10, <2>6, <3>1 DEF AllSaved
    <3> QED BY <2>2, <2>3, <3>2
  <2> QED BY <2>4, <2>5, <2>6
<1> HIDE DEF new, unsaved
<1>11. CASE how = "upsert"
  <2>1. \E e : /\ t \in {<<e>>, <<CopyCmd, SaveCmd, e>>, <<CopyCmd, SaveCmd, CopyCmd, SaveCmd, e>>}
               /\ request'[r] = [todo |-> t, loc |-> loc] => FitsPolicy(r, e)'
    BY <1>6, <1>9, <1>11
  <2> QED BY <1>1, <1>3, <1>7, <1>8, <1>10, <2>1, PolicyMove
<1>12. CASE how # "upsert"
  BY <1>1, <1>3, <1>6, <1>7, <1>8, <1>10, <1>12, PolicyMove
<1> QED BY <1>11, <1>12

(* is_contract_downgrade: without an admin nothing is lowered. *)
LEMMA PolicyCheckKeeps ==
    ASSUME PolicyInv, NEW r \in Requests, PolicyCheck(r)
    PROVE  PolicyInv'
<1>1. /\ request[r].todo = <<This(r)>> /\ Rest(r) = <<>> /\ Loc(r) \in PolicyLoc
      /\ FitsPolicy(r, This(r)) /\ This(r).do = "policyCheck"
      /\ This(r).id \in PolicyUsers /\ "policyCheck" \in PolicyVerbs /\ At(r, "policyCheck")
  BY LastCommand DEF PolicyCheck, PolicyInv, PolicyVerbs, FitsPolicy
<1>2. UNCHANGED policyVars
  BY DEF PolicyCheck
<1>a. PICK u \in PolicyUsers : u = This(r).id
  BY <1>1
<1>b. PICK loc \in PolicyLoc : loc = Loc(r)
  BY <1>1
<1>c. PICK from \in Contracts : from = This(r).how
  BY <1>1 DEF FitsPolicy
<1>3. u = This(r).id /\ from = This(r).how /\ loc = Loc(r)
  BY <1>a, <1>b, <1>c
<1> DEFINE down == loc.contract < from
<1>4. CASE down /\ ~loc.admin
  <2>1. Refuse(r)
    BY <1>3, <1>4 DEF PolicyCheck, is_contract_downgrade
  <2> QED BY <1>1, <1>2, <2>1, PolicyRefused
<1>5. CASE ~(down /\ ~loc.admin)
  <2>a. PICK c : c = [do |-> "policySet", id |-> u, how |-> IF down THEN "down" ELSE "-"]
    OBVIOUS
  <2> DEFINE t == ((IF down THEN persist_webhook_state ELSE <<>>) \o <<c>>) \o <<>>
  <2>1. Continue(r, t, loc) /\ tally' = tally
    BY <1>1, <1>3, <1>5, <2>a DEF PolicyCheck, Insert, Cmd, is_contract_downgrade
  <2>2. c.do = "policySet" /\ c.id = u /\ (c.how = "down" <=> down)
    BY <2>a
  <2>3. /\ down => t = <<CopyCmd, SaveCmd, c>>
        /\ ~down => t = <<c>>
    <3> HIDE DEF down
    <3> QED BY PolicyLists
  <2> HIDE DEF t
  <2>4. request'[r] = [todo |-> t, loc |-> loc] => FitsPolicy(r, c)'
    <3> SUFFICES ASSUME request'[r] = [todo |-> t, loc |-> loc]
                 PROVE  FitsPolicy(r, c)'
      OBVIOUS
    <3>1. Loc(r)' = loc /\ request'[r].todo = t
      BY DEF Loc
    <3>2. userExists' = userExists /\ policies' = policies /\ tally' = tally
      BY <1>2, <2>1 DEF policyVars
    <3>3. /\ loc.contract \in Contracts /\ from \in Contracts /\ loc.contract # Unspecified
          /\ Serial => u \in userExists /\ policies[u] = from
      BY <1>1, <1>3 DEF FitsPolicy, PolicyLoc
    <3>4. InForce(from) = from /\ from \in Int /\ loc.contract \in Int
      BY <3>3, PolicyAssumption DEF InForce, Contracts, NoPolicy
    <3>5. Serial' => u \in userExists' /\ InForce(policies'[u]) = from
      BY <3>2, <3>3, <3>4 DEF Serial
    <3>6. CASE down
      <4>1. t # <<c>> /\ loc.contract < from
        BY <1>3, <2>3, <3>6
      <4>2. HasSaved(r, c)'
        BY <2>2, <3>1, <4>1 DEF HasSaved
      <4>3. Serial' => u \in userExists' /\ loc.contract <= InForce(policies'[u])
        BY <3>4, <3>5, <4>1
      <4> QED BY <2>2, <3>1, <3>3, <3>6, <4>2, <4>3 DEF FitsPolicy, PolicyVerbs, InForce
    <3>7. CASE ~down
      <4>1. Serial' => u \in userExists' /\ loc.contract >= InForce(policies'[u])
        BY <1>3, <3>4, <3>5, <3>7
      <4> QED BY <2>2, <3>1, <3>3, <3>7, <4>1 DEF FitsPolicy, PolicyVerbs, InForce
    <3> QED BY <3>6, <3>7
  <2>5. /\ PolicyTypeOK'
        /\ policyPast' \in [floor : [PolicyUsers -> Contracts], unsaved : SUBSET PolicyUsers,
                            deleted : SUBSET PolicyUsers, restarts : Nat]
        /\ tally' \in [started : Nat, faults : Nat, overlapped : BOOLEAN] /\ (Serial' => Serial)
    BY <1>2, <2>1 DEF PolicyInv, PolicyTyped, PolicyTypeOK, policyVars, Serial
  <2>6. FloorsHold /\ DeletedAreGone /\ AllSaved => FloorsHold' /\ DeletedAreGone' /\ AllSaved'
    BY <1>2 DEF FloorsHold, DeletedAreGone, AllSaved, policyVars, InForce
  <2>7. \E e : /\ t \in {<<e>>, <<CopyCmd, SaveCmd, e>>, <<CopyCmd, SaveCmd, CopyCmd, SaveCmd, e>>}
               /\ request'[r] = [todo |-> t, loc |-> loc] => FitsPolicy(r, e)'
    BY <2>3, <2>4
  <2>8. Serial' /\ FloorsHold /\ DeletedAreGone /\ AllSaved =>
          FloorsHold' /\ DeletedAreGone' /\ (AllSaved' \/ (t # <<>> /\ Head(t) = CopyCmd))
    BY <2>6
  <2> HIDE DEF down
  <2> QED BY <1>1, <2>1, <2>5, <2>7, <2>8, PolicyMove
<1> QED BY <1>4, <1>5

(* What PolicyMove asks of types, of steps that leave these variables alone. *)
LEMMA PolicyTypesStay ==
    ASSUME PolicyInv, UNCHANGED <<policyPast, tally>>
    PROVE  /\ policyPast' \in [floor : [PolicyUsers -> Contracts], unsaved : SUBSET PolicyUsers,
                               deleted : SUBSET PolicyUsers, restarts : Nat]
           /\ tally' \in [started : Nat, faults : Nat, overlapped : BOOLEAN]
           /\ (Serial' => Serial)
BY DEF PolicyInv, PolicyTyped, Serial

(* A contract is set: a lower one by an admin, whose audit row is saved with *)
(* the policies that it is compared with.                                    *)
LEMMA PolicySetKeeps ==
    ASSUME PolicyInv, NEW r \in Requests, PolicySet(r)
    PROVE  PolicyInv'
<1>1. /\ request[r].todo = <<This(r)>> /\ Rest(r) = <<>> /\ Loc(r) \in PolicyLoc
      /\ FitsPolicy(r, This(r)) /\ This(r).do = "policySet"
      /\ This(r).id \in PolicyUsers /\ "policySet" \in PolicyVerbs /\ At(r, "policySet")
  BY LastCommand DEF PolicySet, PolicyInv, PolicyVerbs, FitsPolicy
<1>a. PICK u \in PolicyUsers : u = This(r).id
  BY <1>1
<1>b. PICK loc \in PolicyLoc : loc = Loc(r)
  BY <1>1
<1>c. PICK how : how = This(r).how
  OBVIOUS
<1>d. PICK asked \in Contracts \cup {Unspecified} : asked = loc.contract
  BY DEF PolicyLoc
<1>e. PICK c : c = [do |-> "policyAnswer", id |-> u, how |-> asked]
  OBVIOUS
<1>2. /\ how = "down" =>
           /\ asked # Unspecified
           /\ Serial => u \in userExists /\ asked <= InForce(policies[u]) /\ savedPolicies = policies
      /\ how # "down" =>
           (Serial => /\ u \in userExists
                      /\ asked # Unspecified => asked >= InForce(policies[u]))
  BY <1>1, <1>a, <1>b, <1>c, <1>d DEF FitsPolicy, HasSaved
<1> DEFINE old == InForce(policies[u])
           val == IF asked = Unspecified THEN old ELSE asked
           floor == [policyPast.floor EXCEPT ![u] = IF how = "down" THEN asked ELSE @]
           t == (persist_webhook_state \o persist_webhook_state \o <<c>>) \o <<>>
<1>3. /\ policies' = [policies EXCEPT ![u] = val]
      /\ policyPast' = [policyPast EXCEPT !.floor = floor]
      /\ Continue(r, t, loc) /\ tally' = tally
      /\ UNCHANGED <<savedPolicies, userExists>>
  BY <1>1, <1>a, <1>b, <1>c, <1>d, <1>e DEF PolicySet, Insert, Cmd, InForce
<1>4. t = <<CopyCmd, SaveCmd, CopyCmd, SaveCmd, c>>
  BY PolicyLists
<1> HIDE DEF t
<1>5. old \in Contracts /\ val \in Contracts /\ InForce(val) = val
  BY PolicyAssumption
     DEF PolicyInv, PolicyTyped, PolicyTypeOK, Contracts, NoPolicy, DefaultContract, InForce, Unspecified
<1>6. /\ floor \in [PolicyUsers -> Contracts]
      /\ floor[u] = IF how = "down" THEN asked ELSE policyPast.floor[u]
      /\ \A v \in PolicyUsers \ {u} : floor[v] = policyPast.floor[v]
  BY <1>2 DEF PolicyInv, PolicyTyped
<1> HIDE DEF floor, val, old
<1>7. /\ policyPast'.floor = floor /\ policyPast'.deleted = policyPast.deleted
      /\ policyPast'.unsaved = policyPast.unsaved
      /\ policyPast' \in [floor : [PolicyUsers -> Contracts], unsaved : SUBSET PolicyUsers,
                          deleted : SUBSET PolicyUsers, restarts : Nat]
  BY <1>3, <1>6 DEF PolicyInv, PolicyTyped
<1>8. /\ policies'[u] = val
      /\ \A v \in PolicyUsers \ {u} : policies'[v] = policies[v]
      /\ PolicyTypeOK'
      /\ tally' \in [started : Nat, faults : Nat, overlapped : BOOLEAN] /\ (Serial' => Serial)
  BY <1>3, <1>5 DEF PolicyInv, PolicyTyped, PolicyTypeOK, Serial
<1>9. request'[r] = [todo |-> t, loc |-> loc] => FitsPolicy(r, c)'
  <2> SUFFICES ASSUME request'[r] = [todo |-> t, loc |-> loc]
               PROVE  FitsPolicy(r, c)'
    OBVIOUS
  <2>1. request'[r].todo # <<c>>
    BY <1>4
  <2>2. asked # Unspecified => val = asked
    BY DEF val
  <2> QED BY <1>8, <1>e, <2>1, <2>2 DEF FitsPolicy, PolicyVerbs, HasSaved
<1>10. ASSUME Serial', FloorsHold, DeletedAreGone, AllSaved
       PROVE  FloorsHold' /\ DeletedAreGone' /\ (AllSaved' \/ (t # <<>> /\ Head(t) = CopyCmd))
  <2>1. u \in userExists /\ u \notin policyPast.deleted /\ Serial
    BY <1>2, <1>8, <1>10 DEF DeletedAreGone
  <2>2. FloorsHold'
    <3>1. val >= floor[u] /\ InForce(savedPolicies[u]) >= floor[u]
      <4>1. /\ old >= policyPast.floor[u] /\ InForce(savedPolicies[u]) >= policyPast.floor[u]
            /\ policyPast.floor[u] \in Int /\ old \in Int /\ asked \in Int
        BY <1>5, <1>10, <2>1, PolicyAssumption
           DEF FloorsHold, old, PolicyInv, PolicyTyped, Contracts, Unspecified
      <4>2. CASE how = "down"
        BY <1>2, <1>6, <2>1, <4>1, <4>2 DEF val, old
      <4>3. CASE how # "down"
        BY <1>2, <1>6, <2>1, <4>1, <4>3 DEF val, old
      <4> QED BY <4>2, <4>3
    <3>2. userExists \subseteq PolicyUsers
      BY DEF PolicyInv, PolicyTyped, PolicyTypeOK
    <3>3. ASSUME NEW v \in userExists
          PROVE  InForce(policies'[v]) >= floor[v] /\ InForce(savedPolicies[v]) >= floor[v]
      <4>1. CASE v = u
        BY <1>5, <1>8, <3>1, <4>1
      <4>2. CASE v # u
        BY <1>6, <1>8, <1>10, <3>2, <4>2 DEF FloorsHold
      <4> QED BY <4>1, <4>2
    <3> QED BY <1>3, <1>7, <3>3 DEF FloorsHold, InForce
  <2>3. DeletedAreGone'
    <3>1. \A v \in policyPast.deleted : v \in PolicyUsers /\ v # u
      BY <2>1 DEF PolicyInv, PolicyTyped
    <3> QED BY <1>3, <1>7, <1>8, <1>10, <3>1 DEF DeletedAreGone
  <2>4. t # <<>> /\ Head(t) = CopyCmd
    BY <1>4
  <2> QED BY <2>2, <2>3, <2>4
<1>11. \E e : /\ t \in {<<e>>, <<CopyCmd, SaveCmd, e>>, <<CopyCmd, SaveCmd, CopyCmd, SaveCmd, e>>}
              /\ request'[r] = [todo |-> t, loc |-> loc] => FitsPolicy(r, e)'
  BY <1>4, <1>9
<1> QED BY <1>1, <1>3, <1>7, <1>8, <1>10, <1>11, PolicyMove

(* The client learns that its contract is in force. *)
LEMMA PolicyAnswerKeeps ==
    ASSUME PolicyInv, NEW r \in Requests, PolicyAnswer(r)
    PROVE  PolicyInv'
<1>1. /\ request[r].todo = <<This(r)>> /\ Rest(r) = <<>> /\ Loc(r) \in PolicyLoc
      /\ FitsPolicy(r, This(r)) /\ This(r).do = "policyAnswer"
      /\ This(r).id \in PolicyUsers /\ "policyAnswer" \in PolicyVerbs /\ At(r, "policyAnswer")
  BY LastCommand DEF PolicyAnswer, PolicyInv, PolicyVerbs, FitsPolicy
<1>a. PICK u \in PolicyUsers : u = This(r).id
  BY <1>1
<1>b. PICK how \in Contracts \cup {Unspecified} : how = This(r).how
  BY <1>1 DEF FitsPolicy
<1>2. Serial => /\ savedPolicies = policies
                /\ how # Unspecified => policies[u] = how
  BY <1>1, <1>a, <1>b DEF FitsPolicy, HasSaved
<1> DEFINE floor == [policyPast.floor EXCEPT ![u] = IF how = Unspecified THEN @ ELSE how]
<1>3. /\ policyPast' = [policyPast EXCEPT !.floor = floor]
      /\ Continue(r, <<>>, Loc(r)) /\ tally' = tally
      /\ UNCHANGED <<policies, savedPolicies, userExists>>
  BY <1>1, <1>a, <1>b DEF PolicyAnswer, Done, Sent
<1>6. /\ floor \in [PolicyUsers -> Contracts]
      /\ floor[u] = IF how = Unspecified THEN policyPast.floor[u] ELSE how
      /\ \A v \in PolicyUsers \ {u} : floor[v] = policyPast.floor[v]
  BY DEF PolicyInv, PolicyTyped
<1> HIDE DEF floor
<1>7. /\ policyPast'.floor = floor /\ policyPast'.deleted = policyPast.deleted
      /\ policyPast'.unsaved = policyPast.unsaved
      /\ policyPast' \in [floor : [PolicyUsers -> Contracts], unsaved : SUBSET PolicyUsers,
                          deleted : SUBSET PolicyUsers, restarts : Nat]
  BY <1>3, <1>6 DEF PolicyInv, PolicyTyped
<1>8. /\ PolicyTypeOK'
      /\ tally' \in [started : Nat, faults : Nat, overlapped : BOOLEAN] /\ (Serial' => Serial)
  BY <1>3 DEF PolicyInv, PolicyTyped, PolicyTypeOK, Serial
<1>9. ASSUME Serial', FloorsHold, DeletedAreGone, AllSaved
      PROVE  FloorsHold' /\ DeletedAreGone' /\ AllSaved'
  <2>1. FloorsHold'
    <3>1. ASSUME NEW v \in userExists
          PROVE  InForce(policies[v]) >= floor[v] /\ InForce(savedPolicies[v]) >= floor[v]
      <4>1. v \in PolicyUsers
        BY DEF PolicyInv, PolicyTyped, PolicyTypeOK
      <4>2. CASE v = u /\ how # Unspecified
        <5>1. policies[v] = how /\ savedPolicies[v] = how /\ how \in Contracts
          BY <1>2, <1>8, <1>9, <4>2
        <5>2. InForce(how) = how /\ how \in Int
          BY <5>1, PolicyAssumption DEF InForce, Contracts, NoPolicy
        <5> QED BY <1>6, <4>2, <5>1, <5>2
      <4>3. CASE v # u \/ how = Unspecified
        <5>1. floor[v] = policyPast.floor[v]
          BY <1>6, <4>1, <4>3
        <5> QED BY <1>9, <5>1 DEF FloorsHold
      <4> QED BY <4>2, <4>3
    <3> QED BY <1>3, <1>7, <3>1 DEF FloorsHold, InForce
  <2>2. DeletedAreGone' /\ AllSaved'
    BY <1>3, <1>7, <1>9 DEF DeletedAreGone, AllSaved
  <2> QED BY <2>1, <2>2
<1> QED BY <1>1, <1>3, <1>7, <1>8, <1>9, PolicyMove

(* A user is erased, and then its policy is forgotten. *)
LEMMA UserEraseKeeps ==
    ASSUME PolicyInv, NEW r \in Requests, UserErase(r)
    PROVE  PolicyInv'
<1>1. /\ request[r].todo = <<This(r)>> /\ Rest(r) = <<>> /\ Loc(r) \in PolicyLoc
      /\ This(r).id \in PolicyUsers /\ "userErase" \in PolicyVerbs /\ At(r, "userErase")
  BY LastCommand DEF UserErase, PolicyInv, PolicyVerbs, FitsPolicy
<1>a. PICK u \in PolicyUsers : u = This(r).id
  BY <1>1
<1>2. CASE u \notin userExists
  BY <1>1, <1>a, <1>2, PolicyRefused DEF UserErase, policyVars
<1>3. CASE u \in userExists
  <2>a. PICK c : c = [do |-> "policyRemove", id |-> u, how |-> "-"]
    OBVIOUS
  <2>1. /\ Continue(r, <<c>>, Loc(r)) /\ userExists' = userExists \ {u}
        /\ UNCHANGED <<policies, savedPolicies, policyPast, tally>>
    BY <1>1, <1>a, <1>3, <2>a, PolicyLists DEF UserErase, Insert, Cmd
  <2>2. PolicyTypeOK'
    BY <2>1 DEF PolicyInv, PolicyTyped, PolicyTypeOK
  <2>3. FitsPolicy(r, c)'
    BY <2>1, <2>a DEF FitsPolicy, PolicyVerbs
  <2>4. FloorsHold /\ DeletedAreGone /\ AllSaved => FloorsHold' /\ DeletedAreGone' /\ AllSaved'
    BY <2>1 DEF FloorsHold, DeletedAreGone, AllSaved, InForce
  <2>5. \E e : /\ <<c>> \in {<<e>>, <<CopyCmd, SaveCmd, e>>, <<CopyCmd, SaveCmd, CopyCmd, SaveCmd, e>>}
               /\ request'[r] = [todo |-> <<c>>, loc |-> Loc(r)] => FitsPolicy(r, e)'
    BY <2>3
  <2> QED BY <1>1, <2>1, <2>2, <2>4, <2>5, PolicyTypesStay, PolicyMove
<1> QED BY <1>2, <1>3

LEMMA PolicyRemoveKeeps ==
    ASSUME PolicyInv, NEW r \in Requests, PolicyRemove(r)
    PROVE  PolicyInv'
<1>1. /\ request[r].todo = <<This(r)>> /\ Rest(r) = <<>> /\ Loc(r) \in PolicyLoc
      /\ FitsPolicy(r, This(r)) /\ This(r).do = "policyRemove"
      /\ This(r).id \in PolicyUsers /\ "policyRemove" \in PolicyVerbs /\ At(r, "policyRemove")
  BY LastCommand DEF PolicyRemove, PolicyInv, PolicyVerbs, FitsPolicy
<1>a. PICK u \in PolicyUsers : u = This(r).id
  BY <1>1
<1>b. PICK c : c = [do |-> "policyGone", id |-> u, how |-> "-"]
  OBVIOUS
<1>c. PICK t : t = <<CopyCmd, SaveCmd, c>>
  OBVIOUS
<1>2. /\ Continue(r, t, Loc(r)) /\ policies' = [policies EXCEPT ![u] = NoPolicy]
      /\ UNCHANGED <<savedPolicies, userExists, policyPast, tally>>
  BY <1>1, <1>a, <1>b, <1>c, PolicyLists DEF PolicyRemove, Insert, Cmd
<1>3. PolicyTypeOK' /\ policies'[u] = NoPolicy /\ \A v \in PolicyUsers \ {u} : policies'[v] = policies[v]
  BY <1>2 DEF PolicyInv, PolicyTyped, PolicyTypeOK
<1>4. Serial => u \notin userExists
  BY <1>1, <1>a DEF FitsPolicy
<1>5. request'[r] = [todo |-> t, loc |-> Loc(r)] => FitsPolicy(r, c)'
  <2> SUFFICES ASSUME request'[r] = [todo |-> t, loc |-> Loc(r)]
               PROVE  FitsPolicy(r, c)'
    OBVIOUS
  <2>1. request'[r].todo # <<c>>
    BY <1>c
  <2> QED BY <1>2, <1>3, <1>4, <1>b, <2>1 DEF FitsPolicy, PolicyVerbs, HasSaved, Serial
<1>6. ASSUME Serial', FloorsHold, DeletedAreGone, AllSaved
      PROVE  FloorsHold' /\ DeletedAreGone' /\ t # <<>> /\ Head(t) = CopyCmd
  <2>1. u \notin userExists /\ userExists \subseteq PolicyUsers /\ policyPast.deleted \subseteq PolicyUsers
    BY <1>2, <1>4, <1>6 DEF Serial, PolicyInv, PolicyTyped, PolicyTypeOK
  <2>2. \A v \in userExists : policies'[v] = policies[v]
    BY <1>3, <2>1
  <2>3. FloorsHold'
    BY <1>2, <1>6, <2>2 DEF FloorsHold, InForce
  <2>4. \A v \in policyPast.deleted : policies'[v] = NoPolicy
    BY <1>3, <1>6, <2>1 DEF DeletedAreGone
  <2>5. DeletedAreGone'
    BY <1>2, <1>6, <2>4 DEF DeletedAreGone
  <2> QED BY <1>c, <2>3, <2>5
<1>7. \E e : /\ t \in {<<e>>, <<CopyCmd, SaveCmd, e>>, <<CopyCmd, SaveCmd, CopyCmd, SaveCmd, e>>}
             /\ request'[r] = [todo |-> t, loc |-> Loc(r)] => FitsPolicy(r, e)'
  BY <1>5, <1>c
<1>8. /\ policyPast' \in [floor : [PolicyUsers -> Contracts], unsaved : SUBSET PolicyUsers,
                          deleted : SUBSET PolicyUsers, restarts : Nat]
      /\ tally' \in [started : Nat, faults : Nat, overlapped : BOOLEAN] /\ (Serial' => Serial)
  BY <1>2, PolicyTypesStay
<1> QED BY <1>1, <1>2, <1>3, <1>6, <1>7, <1>8, PolicyMove

LEMMA PolicyGoneKeeps ==
    ASSUME PolicyInv, NEW r \in Requests, PolicyGone(r)
    PROVE  PolicyInv'
<1>1. /\ request[r].todo = <<This(r)>> /\ Rest(r) = <<>> /\ Loc(r) \in PolicyLoc
      /\ FitsPolicy(r, This(r)) /\ This(r).do = "policyGone"
      /\ This(r).id \in PolicyUsers /\ "policyGone" \in PolicyVerbs /\ At(r, "policyGone")
  BY LastCommand DEF PolicyGone, PolicyInv, PolicyVerbs, FitsPolicy
<1>a. PICK u \in PolicyUsers : u = This(r).id
  BY <1>1
<1> DEFINE deleted == policyPast.deleted \cup {u}
<1>2. /\ Continue(r, <<>>, Loc(r)) /\ policyPast' = [policyPast EXCEPT !.deleted = deleted]
      /\ UNCHANGED <<policies, savedPolicies, userExists, tally>>
  BY <1>1, <1>a DEF PolicyGone, Done, Sent
<1>3. Serial => u \notin userExists /\ policies[u] = NoPolicy /\ savedPolicies[u] = NoPolicy
  BY <1>1, <1>a DEF FitsPolicy, HasSaved
<1>4. deleted \in SUBSET PolicyUsers
  BY DEF PolicyInv, PolicyTyped
<1> HIDE DEF deleted
<1>5. /\ policyPast'.deleted = deleted /\ policyPast'.floor = policyPast.floor
      /\ policyPast'.unsaved = policyPast.unsaved
      /\ policyPast' \in [floor : [PolicyUsers -> Contracts], unsaved : SUBSET PolicyUsers,
                          deleted : SUBSET PolicyUsers, restarts : Nat]
      /\ tally' \in [started : Nat, faults : Nat, overlapped : BOOLEAN] /\ (Serial' => Serial)
      /\ PolicyTypeOK'
  BY <1>2, <1>4 DEF PolicyInv, PolicyTyped, PolicyTypeOK, Serial
<1>6. ASSUME Serial', FloorsHold, DeletedAreGone, AllSaved
      PROVE  FloorsHold' /\ DeletedAreGone' /\ AllSaved'
  <2>1. DeletedAreGone'
    BY <1>2, <1>3, <1>5, <1>6 DEF DeletedAreGone, deleted
  <2> QED BY <1>2, <1>5, <1>6, <2>1 DEF FloorsHold, AllSaved, InForce
<1> QED BY <1>1, <1>2, <1>5, <1>6, PolicyMove

-----------------------------------------------------------------------------
(* persist_webhook_state, restarts, and requests that start.                *)

(* What a request knows about its last command stays true while it saves. *)
LEMMA FitsStays ==
    ASSUME NEW r \in Requests, NEW c, FitsPolicy(r, c), Loc(r).contract = Loc(r)'.contract,
           Serial' => Serial, UNCHANGED <<policies, userExists>>, HasSaved(r, c)'
    PROVE  FitsPolicy(r, c)'
BY DEF FitsPolicy, InForce

(* The policies are copied under the lock ... *)
LEMMA PolicyCopyKeeps ==
    ASSUME PolicyInv, NEW r \in Requests, PolicyCopy(r)
    PROVE  PolicyInv'
<1>1. /\ r \in Busy /\ Loc(r) \in PolicyLoc
      /\ \/ Rest(r) = <<SaveCmd>>
         \/ \E c : /\ Rest(r) \in {<<SaveCmd, c>>, <<SaveCmd, CopyCmd, SaveCmd, c>>}
                   /\ FitsPolicy(r, c)
  BY BeforeCopy DEF PolicyCopy, PolicyInv
<1>2. PICK loc : loc = [Loc(r) EXCEPT !.copy = policies]
  OBVIOUS
<1>3. loc \in PolicyLoc /\ loc.contract = Loc(r).contract /\ loc.copy = policies
  BY <1>1, <1>2 DEF PolicyLoc, PolicyMap, PolicyInv, PolicyTyped, PolicyTypeOK
<1>4. Rest(r) # <<>> /\ Head(Rest(r)) = SaveCmd
  <2>1. CASE Rest(r) = <<SaveCmd>>
    BY <2>1
  <2>2. CASE \E c : Rest(r) \in {<<SaveCmd, c>>, <<SaveCmd, CopyCmd, SaveCmd, c>>}
    BY <2>2
  <2> QED BY <1>1, <2>1, <2>2
<1>5. PICK t : t = Rest(r)
  OBVIOUS
<1>6. request' = [request EXCEPT ![r] = [todo |-> t, loc |-> loc]] /\ UNCHANGED policyVars /\ tally' = tally
  BY <1>2, <1>4, <1>5 DEF PolicyCopy, Sent, Continue
<1>7. request'[r].todo = t /\ Loc(r)' = loc /\ (Serial' => Serial)
  BY <1>6 DEF PolicyInv, PoliciesInPlace, Loc, Serial
<1>8. PolicyPlace(r)'
  <2>1. CASE t = <<SaveCmd>>
    BY <1>7, <2>1 DEF PolicyPlace
  <2>2. CASE \E c : t \in {<<SaveCmd, c>>, <<SaveCmd, CopyCmd, SaveCmd, c>>} /\ FitsPolicy(r, c)
    <3>1. PICK c : t \in {<<SaveCmd, c>>, <<SaveCmd, CopyCmd, SaveCmd, c>>} /\ FitsPolicy(r, c)
      BY <2>2
    <3>2. t # <<c>>
      BY <3>1
    <3>3. HasSaved(r, c)'
      BY <1>7, <3>2 DEF HasSaved
    <3>4. FitsPolicy(r, c)'
      BY <1>3, <1>6, <1>7, <3>1, <3>3, FitsStays DEF policyVars
    <3>5. EndsWith(r, c)'
      BY <1>7, <3>1 DEF EndsWith
    <3> QED BY <3>4, <3>5 DEF PolicyPlace
  <2> QED BY <1>1, <1>5, <2>1, <2>2
<1>9. CopyIsFresh(r)'
  BY <1>3, <1>6, <1>7 DEF CopyIsFresh, policyVars
<1>10. Serial' => Serial /\ \A q \in Requests \ {r} : request[q].todo = <<>>
  BY <1>1, <1>7, AloneAtWork
<1>11. PoliciesInPlace' /\ (Serial' => OnePolicyRequest')
  BY <1>6, <1>8, <1>9, <1>10, OtherPoliciesStay
<1>12. PolicyTyped'
  BY <1>6 DEF PolicyInv, PolicyTyped, PolicyTypeOK, policyVars
<1>13. r \in Busy' /\ SavesNow(r)'
  BY <1>4, <1>5, <1>7 DEF SavesNow, At, Busy, SaveCmd
<1>14. FloorsHold /\ DeletedAreGone => FloorsHold' /\ DeletedAreGone'
  BY <1>6 DEF FloorsHold, DeletedAreGone, policyVars, InForce
<1>15. SerialPolicies'
  BY <1>7, <1>11, <1>13, <1>14 DEF SerialPolicies, PolicyInv
<1> QED BY <1>11, <1>12, <1>15 DEF PolicyInv

(* ... and the copy is saved, or the error is logged. *)
LEMMA PolicySaveKeeps ==
    ASSUME PolicyInv, NEW r \in Requests, PolicySave(r)
    PROVE  PolicyInv'
<1>1. /\ r \in Busy /\ Loc(r) \in PolicyLoc
      /\ Serial => Loc(r).copy = policies
      /\ \/ Rest(r) = <<>>
         \/ \E c : /\ Rest(r) \in {<<c>>, <<CopyCmd, SaveCmd, c>>}
                   /\ FitsPolicy(r, c)
  BY BeforeSave DEF PolicySave, PolicyInv
<1>2. PICK t : t = Rest(r)
  OBVIOUS
<1>3. PICK loc : loc = Loc(r)
  OBVIOUS
<1> DEFINE x == IF t = <<>> THEN Idle ELSE [todo |-> t, loc |-> loc]
<1>4. request' = [request EXCEPT ![r] = x] /\ UNCHANGED <<policies, userExists, policyPast>>
  BY <1>2, <1>3 DEF PolicySave, Continue
<1>5. /\ tally' \in [started : Nat, faults : Nat, overlapped : BOOLEAN]
      /\ savedPolicies' \in PolicyMap
      /\ Serial' => Serial /\ savedPolicies' = policies
  <2>1. CASE savedPolicies' = Loc(r).copy /\ UNCHANGED tally
    BY <1>1, <2>1 DEF PolicyInv, PolicyTyped, Serial, PolicyLoc
  <2>2. CASE tally' = [tally EXCEPT !.faults = @ + 1] /\ UNCHANGED savedPolicies
    BY <2>2 DEF PolicyInv, PolicyTyped, PolicyTypeOK, PolicyMap, Serial
  <2> QED BY <2>1, <2>2 DEF PolicySave
<1>6. request'[r] = x
  BY <1>4 DEF PolicyInv, PoliciesInPlace
<1>7. request'[r].todo = t /\ (t # <<>> => Loc(r)' = loc)
  BY <1>6 DEF Idle, Loc
<1> HIDE DEF x
<1>8. PolicyPlace(r)'
  <2>1. CASE t = <<>>
    BY <1>7, <2>1 DEF PolicyPlace
  <2>2. CASE \E c : t \in {<<c>>, <<CopyCmd, SaveCmd, c>>} /\ FitsPolicy(r, c)
    <3>1. PICK c : t \in {<<c>>, <<CopyCmd, SaveCmd, c>>} /\ FitsPolicy(r, c)
      BY <2>2
    <3>2. t # <<>>
      BY <3>1, PolicyHeads, Zenon
    <3>3. HasSaved(r, c)'
      BY <1>4, <1>5 DEF HasSaved
    <3>4. FitsPolicy(r, c)'
      BY <1>3, <1>4, <1>5, <1>7, <3>1, <3>2, <3>3, FitsStays
    <3>5. EndsWith(r, c)'
      BY <1>7, <3>1 DEF EndsWith
    <3> QED BY <3>4, <3>5 DEF PolicyPlace
  <2> QED BY <1>1, <1>2, <2>1, <2>2
<1>9. CopyIsFresh(r)'
  <2>1. t # <<>> => Head(t).do # "policySave"
    <3>1. CASE \E c : t \in {<<c>>, <<CopyCmd, SaveCmd, c>>} /\ FitsPolicy(r, c)
      BY <3>1 DEF FitsPolicy, PolicyVerbs, CopyCmd
    <3> QED BY <1>1, <1>2, <3>1
  <2> QED BY <1>1, <1>3, <1>7, <2>1 DEF CopyIsFresh, Busy, At
<1>10. Serial' => Serial /\ \A q \in Requests \ {r} : request[q].todo = <<>>
  BY <1>1, <1>5, AloneAtWork
<1>11. PoliciesInPlace' /\ (Serial' => OnePolicyRequest')
  BY <1>4, <1>8, <1>9, <1>10, OtherPoliciesStay
<1>12. PolicyTyped'
  BY <1>4, <1>5 DEF PolicyInv, PolicyTyped, PolicyTypeOK, PolicyMap
<1>13. SerialPolicies'
  <2> SUFFICES ASSUME Serial'
               PROVE  FloorsHold' /\ DeletedAreGone' /\ AllSaved'
    BY <1>11 DEF SerialPolicies
  <2>1. FloorsHold /\ DeletedAreGone
    BY <1>5 DEF PolicyInv, SerialPolicies
  <2> QED BY <1>4, <1>5, <2>1 DEF FloorsHold, DeletedAreGone, AllSaved, InForce
<1> QED BY <1>11, <1>12, <1>13 DEF PolicyInv

(* A restart reads what was saved. *)
LEMMA PolicyRestartKeeps ==
    ASSUME PolicyInv, PolicyRestart
    PROVE  PolicyInv'
<1>1. /\ request' = [r \in Requests |-> Idle] /\ policies' = savedPolicies
      /\ UNCHANGED <<tally, savedPolicies, userExists>>
  BY DEF PolicyRestart
<1>2. /\ policyPast'.floor = policyPast.floor /\ policyPast'.deleted = policyPast.deleted
      /\ policyPast' \in [floor : [PolicyUsers -> Contracts], unsaved : SUBSET PolicyUsers,
                          deleted : SUBSET PolicyUsers, restarts : Nat]
  <2>1. PICK n \in Nat : n = policyPast.restarts + 1
    BY DEF PolicyInv, PolicyTyped
  <2>2. policyPast' = [floor |-> policyPast.floor, unsaved |-> {}, deleted |-> policyPast.deleted, restarts |-> n]
    BY <2>1 DEF PolicyRestart, PolicyInv, PolicyTyped
  <2> QED BY <2>1, <2>2 DEF PolicyInv, PolicyTyped
<1>3. PolicyTyped'
  BY <1>1, <1>2 DEF PolicyInv, PolicyTyped, PolicyTypeOK
<1>4. Busy' = {} /\ DOMAIN request' = Requests /\ \A r \in Requests : request'[r].todo = <<>>
  BY <1>1 DEF Busy, Idle
<1>5. PoliciesInPlace'
  BY <1>4 DEF PoliciesInPlace, PolicyPlace, CopyIsFresh, At
<1>6. SerialPolicies'
  BY <1>1, <1>2, <1>4
     DEF SerialPolicies, PolicyInv, Serial, OnePolicyRequest, FloorsHold, DeletedAreGone, AllSaved, InForce
<1> QED BY <1>3, <1>5, <1>6 DEF PolicyInv

LEMMA PolicyInit == InitRequests /\ InitPolicies => PolicyInv
<1> SUFFICES ASSUME InitRequests, InitPolicies
             PROVE  PolicyInv
  OBVIOUS
<1>1. policies \in PolicyMap /\ savedPolicies = policies /\ userExists = PolicyUsers
  BY DEF InitPolicies, PolicyMap
<1>2. \A u \in PolicyUsers : InForce(policies[u]) \in Contracts
  BY <1>1, PolicyAssumption DEF PolicyMap, InForce, Contracts, NoPolicy, DefaultContract
<1>3. policyPast = [floor |-> [u \in PolicyUsers |-> InForce(policies[u])],
                    unsaved |-> {}, deleted |-> {}, restarts |-> 0]
  BY DEF InitPolicies, InForce
<1>4. PolicyTyped
  BY <1>1, <1>2, <1>3 DEF PolicyTyped, PolicyTypeOK, PolicyMap, InitRequests
<1>5. DOMAIN request = Requests /\ \A r \in Requests : request[r].todo = <<>>
  BY DEF InitRequests, Idle
<1>6. PoliciesInPlace
  BY <1>5 DEF PoliciesInPlace, PolicyPlace, CopyIsFresh, Busy, At
<1>7. \A u \in PolicyUsers : InForce(policies[u]) >= policyPast.floor[u]
  BY <1>2, <1>3 DEF Contracts
<1>8. FloorsHold /\ DeletedAreGone /\ AllSaved /\ OnePolicyRequest
  BY <1>1, <1>3, <1>5, <1>7 DEF FloorsHold, DeletedAreGone, AllSaved, OnePolicyRequest, Busy
<1> QED BY <1>4, <1>6, <1>8 DEF PolicyInv, SerialPolicies

(* A request for one user starts. *)
LEMMA PolicyStarts ==
    ASSUME PolicyInv, NEW r \in Requests, NEW u \in PolicyUsers,
           \/ GetPolicy(r, u) \/ GrpcPolicy(r, u) \/ DeletePolicyUser(r, u)
           \/ \E c \in Contracts \cup {Unspecified}, admin \in BOOLEAN : UpsertPolicy(r, u, c, admin)
    PROVE  PolicyInv'
<1> DEFINE cmd(d, h) == [do |-> d, id |-> u, how |-> h]
<1>a. PICK none \in Contracts \cup {Unspecified} : none = Unspecified
  OBVIOUS
<1>b. PICK yes \in BOOLEAN : yes = TRUE
  OBVIOUS
<1>c. PICK no \in BOOLEAN : no = FALSE
  OBVIOUS
<1>2. ASSUME NEW t, NEW d \in {"policyUser", "userErase"}, NEW h,
             t \in {<<cmd(d, h)>>, <<CopyCmd, SaveCmd, cmd(d, h)>>},
             NEW contract \in Contracts \cup {Unspecified}, NEW admin \in BOOLEAN,
             AskPolicy(r, t, contract, admin)
      PROVE  PolicyInv'
  <2>1. \E e, k : /\ e \in {"policyUser", "userErase"}
                  /\ LET c == [do |-> e, id |-> u, how |-> k] IN t \in {<<c>>, <<CopyCmd, SaveCmd, c>>}
    BY <1>2
  <2> QED BY <1>2, <2>1, PolicyStart
<1>3. CASE GetPolicy(r, u)
  <2>1. AskPolicy(r, <<cmd("policyUser", "get")>>, none, no)
    BY <1>3, <1>a, <1>c DEF GetPolicy, Cmd
  <2> QED BY <1>2, <2>1
<1>4. CASE GrpcPolicy(r, u)
  <2>1. AskPolicy(r, <<cmd("policyUser", "grpc")>>, none, no)
    BY <1>4, <1>a, <1>c DEF GrpcPolicy, Cmd
  <2> QED BY <1>2, <2>1
<1>5. CASE DeletePolicyUser(r, u)
  <2>a. PICK t : t = persist_webhook_state \o <<cmd("userErase", "-")>>
    OBVIOUS
  <2>1. AskPolicy(r, t, none, yes)
    BY <1>5, <1>a, <1>b, <2>a DEF DeletePolicyUser, Cmd
  <2>2. t = <<CopyCmd, SaveCmd, cmd("userErase", "-")>>
    BY <2>a, PolicyLists
  <2> QED BY <1>2, <2>1, <2>2
<1>6. CASE \E c \in Contracts \cup {Unspecified}, admin \in BOOLEAN : UpsertPolicy(r, u, c, admin)
  <2>1. PICK c \in Contracts \cup {Unspecified}, admin \in BOOLEAN :
          AskPolicy(r, <<cmd("policyUser", "upsert")>>, c, admin)
    BY <1>6 DEF UpsertPolicy, Cmd
  <2> QED BY <1>2, <2>1
<1> QED BY <1>3, <1>4, <1>5, <1>6

LEMMA PolicyNext == PolicyInv /\ [NextPolicies]_<<requestVars, policyVars>> => PolicyInv'
<1> SUFFICES ASSUME PolicyInv, [NextPolicies]_<<requestVars, policyVars>>
             PROVE  PolicyInv'
  OBVIOUS
<1>1. CASE PolicyRestart
  BY <1>1, PolicyRestartKeeps
<1>2. ASSUME NEW r \in Requests, NEW u \in PolicyUsers,
             \/ GetPolicy(r, u) \/ GrpcPolicy(r, u) \/ DeletePolicyUser(r, u)
             \/ \E c \in Contracts \cup {Unspecified}, admin \in BOOLEAN : UpsertPolicy(r, u, c, admin)
      PROVE  PolicyInv'
  BY <1>2, PolicyStarts
<1>3. ASSUME NEW r \in Requests,
             \/ PolicyUser(r) \/ PolicyFind(r) \/ PolicyCheck(r) \/ PolicySet(r) \/ PolicyAnswer(r)
             \/ PolicyCopy(r) \/ PolicySave(r) \/ UserErase(r) \/ PolicyRemove(r) \/ PolicyGone(r)
      PROVE  PolicyInv'
  BY <1>3, PolicyUserKeeps, PolicyFindKeeps, PolicyCheckKeeps, PolicySetKeeps, PolicyAnswerKeeps,
     PolicyCopyKeeps, PolicySaveKeeps, UserEraseKeeps, PolicyRemoveKeeps, PolicyGoneKeeps
<1>4. ASSUME NEW r \in Requests, NEW d \in {"policyUser", "userErase"}, At(r, d), CommandFails(r),
             UNCHANGED policyVars
      PROVE  PolicyInv'
  BY <1>4, PolicyRefused DEF PolicyVerbs
<1>5. CASE UNCHANGED <<requestVars, policyVars>>
  <2> USE <1>5 DEF requestVars, policyVars
  <2>1. PolicyTyped' /\ (Serial' <=> Serial)
    BY DEF PolicyInv, PolicyTyped, PolicyTypeOK, Serial
  <2>2. \A r \in Requests : \A c : EndsWith(r, c) /\ FitsPolicy(r, c) => EndsWith(r, c)' /\ FitsPolicy(r, c)'
    BY <2>1 DEF EndsWith, FitsPolicy, HasSaved, Loc, InForce
  <2>3. \A r \in Requests : PolicyPlace(r)'
    BY <2>2 DEF PolicyInv, PoliciesInPlace, PolicyPlace
  <2>4. \A r \in Requests : CopyIsFresh(r)'
    BY <2>1 DEF PolicyInv, PoliciesInPlace, CopyIsFresh, Loc, At, Busy
  <2>5. SerialPolicies'
    BY <2>1 DEF PolicyInv, SerialPolicies, OnePolicyRequest, FloorsHold, DeletedAreGone, AllSaved,
                SavesNow, At, Busy, InForce
  <2> QED BY <2>1, <2>3, <2>4, <2>5 DEF PolicyInv, PoliciesInPlace
<1> QED BY <1>1, <1>2, <1>3, <1>4, <1>5 DEF NextPolicies

(* The map, the saved one and what is remembered of users have their types, *)
(* whatever requests do at the same time.                                   *)
THEOREM PolicyTypesCorrect == PolicySpec => []PolicyTypeOK
<1>1. PolicyInv => PolicyTypeOK
  BY DEF PolicyInv, PolicyTyped
<1> QED BY <1>1, PolicyInit, PolicyNext, PTL DEF PolicySpec

(* Of requests that run one after the other, with restarts between them: no *)
(* contract falls below what a client was told is in force unless an admin  *)
(* lowers it, what is saved is what is in memory but for the defaults that  *)
(* gRPC handlers made, and a deleted user has no policy (delete_user,       *)
(* get_or_create_user_policy, upsert_user_policy and persist_webhook_state).*)
THEOREM PoliciesStayInForce == PolicySpec => []PoliciesHold
<1>1. PolicyInv => PoliciesHold
  <2> SUFFICES ASSUME PolicyInv
               PROVE  PoliciesHold
    OBVIOUS
  <2>1. NoSilentDowngrade
    BY DEF PolicyInv, SerialPolicies, Serial, NoSilentDowngrade, FloorsHold, InForce
  <2>2. PoliciesAreSaved
    BY DEF PolicyInv, SerialPolicies, Serial, PoliciesAreSaved, AllSaved
  <2>3. DeletedUsersHaveNone
    BY DEF PolicyInv, SerialPolicies, Serial, DeletedUsersHaveNone, DeletedAreGone
  <2> QED BY <2>1, <2>2, <2>3 DEF PoliciesHold
<1> QED BY <1>1, PolicyInit, PolicyNext, PTL DEF PolicySpec

-----------------------------------------------------------------------------
(* Memory digests: what a request has still to do.                          *)

CacheTail(u) == <<[do |-> "cacheDigest", id |-> u, how |-> "-"]>>
SaveTail(u)  == <<[do |-> "saveDigest", id |-> u, how |-> "-"], [do |-> "cacheDigest", id |-> u, how |-> "-"]>>
GatherList(u) == <<[do |-> "gather", id |-> u, how |-> "-"], [do |-> "saveDigest", id |-> u, how |-> "-"],
                   [do |-> "cacheDigest", id |-> u, how |-> "-"]>>
ReadTail(u)  == <<[do |-> "digestRead", id |-> u, how |-> "-"], [do |-> "cacheDigest", id |-> u, how |-> "-"]>>
ReadList(u)  == <<[do |-> "cacheRead", id |-> u, how |-> "-"], [do |-> "digestRead", id |-> u, how |-> "-"],
                  [do |-> "cacheDigest", id |-> u, how |-> "-"]>>

\* Requests that are about to put a digest in the cache.
CachesFor(r, u) == request[r].todo = CacheTail(u)

\* Where a request is, and what it holds there.
HasDigest(r) ==
    \/ request[r].todo = <<>>
    \/ \E u \in Sleepers :
         \/ request[r].todo \in {GatherList(u), ReadList(u), ReadTail(u)} /\ Loc(r) = DigestLocals
         \/ request[r].todo = SaveTail(u) /\ \E n \in 1 .. MaxFacts : Loc(r) = [from |-> n]
         \/ CachesFor(r, u) /\ \E n \in digestPast.saved[u] \ {0} : Loc(r) = [from |-> n]

DigestTyped ==
    /\ facts \in [Sleepers -> 0 .. MaxFacts]
    /\ activity \in [Sleepers -> {Unseen, Recent, Waiting, Old}]
    /\ done \in [digest : SUBSET Sleepers, rerank : SUBSET Sleepers]
    /\ saved \in [Sleepers -> 0 .. MaxFacts] /\ cache \in [Sleepers -> 0 .. MaxFacts]
    /\ digestPast \in [saved : [Sleepers -> SUBSET (0 .. MaxFacts)], reranked : [Sleepers -> 0 .. MaxFacts],
                       raced : BOOLEAN]
    /\ tally \in [started : Nat, faults : Nat, overlapped : BOOLEAN]
    /\ DOMAIN request = Requests

\* The graph does not grow while the worker consolidates: the digest that it
\* holds is made from all the facts there are.
WorkerFits ==
    /\ worker \in [at : {"poll", "pick", "save", "cache"}, digest : SUBSET Sleepers,
                   rerank : SUBSET Sleepers, user : Sleepers \cup {"nobody"}, from : 0 .. MaxFacts]
    /\ worker.at \in {"save", "cache"} =>
         worker.user \in Sleepers /\ worker.from = facts[worker.user] /\ worker.from # 0
    /\ worker.at = "cache" => worker.from \in digestPast.saved[worker.user]

StoreWasSaved == \A u \in Sleepers : saved[u] # 0 => saved[u] \in digestPast.saved[u]

\* Without a race at most one holds a digest for the cache, and what it holds
\* is what Redis has.
OneCaches ==
    ~digestPast.raced /\ tally.faults = 0 =>
      /\ worker.at = "cache" =>
           worker.from = saved[worker.user] /\ \A r \in Requests, u \in Sleepers : ~CachesFor(r, u)
      /\ \A r \in Requests, u \in Sleepers : CachesFor(r, u) => Loc(r).from = saved[u]
      /\ \A q, r \in Requests : (\E u, v \in Sleepers : CachesFor(q, u) /\ CachesFor(r, v)) => q = r
      /\ \A u \in Sleepers : \/ cache[u] \in {0, saved[u]}
                             \/ worker.at = "cache" /\ worker.user = u
                             \/ \E r \in Requests : CachesFor(r, u)

DigestInv ==
    /\ DigestTyped /\ WorkerFits /\ \A r \in Requests : HasDigest(r)
    /\ StoreWasSaved /\ CacheWasSaved /\ OneCaches /\ DoneIsUpToDate

-----------------------------------------------------------------------------

LEMMA ThreeCommands ==
    ASSUME NEW a, NEW b, NEW c
    PROVE  (<<a>> \o <<b>>) \o <<c>> = <<a, b, c>>
<1> DEFINE S == {a, b, c}
<1>1. /\ <<a>> \in Seq(S) /\ <<b>> \in Seq(S) /\ <<c>> \in Seq(S) /\ <<a, b, c>> \in Seq(S)
      /\ <<a>> \o <<b>> \in Seq(S)
  OBVIOUS
<1>2. /\ (<<a>> \o <<b>>) \o <<c>> \in Seq(S) /\ Len((<<a>> \o <<b>>) \o <<c>>) = 3
      /\ Len(<<a, b, c>>) = 3
  BY <1>1
<1>3. \A i \in 1 .. 3 : ((<<a>> \o <<b>>) \o <<c>>)[i] = <<a, b, c>>[i]
  BY <1>1
<1> QED BY <1>1, <1>2, <1>3, SeqEqual, Zenon

LEMMA DigestLists ==
    ASSUME NEW u
    PROVE  /\ Head(GatherList(u)) = [do |-> "gather", id |-> u, how |-> "-"]
           /\ Head(SaveTail(u)) = [do |-> "saveDigest", id |-> u, how |-> "-"]
           /\ Head(CacheTail(u)) = [do |-> "cacheDigest", id |-> u, how |-> "-"]
           /\ Head(ReadList(u)) = [do |-> "cacheRead", id |-> u, how |-> "-"]
           /\ Head(ReadTail(u)) = [do |-> "digestRead", id |-> u, how |-> "-"]
           /\ Tail(GatherList(u)) = SaveTail(u) /\ Tail(SaveTail(u)) = CacheTail(u)
           /\ Tail(CacheTail(u)) = <<>>
           /\ Tail(ReadList(u)) = ReadTail(u) /\ Tail(ReadTail(u)) = CacheTail(u)
           /\ GatherList(u) # <<>> /\ SaveTail(u) # <<>> /\ CacheTail(u) # <<>>
           /\ ReadList(u) # <<>> /\ ReadTail(u) # <<>>
BY DEF GatherList, SaveTail, CacheTail, ReadList, ReadTail

(* Where a request is, by its next command. *)
LEMMA AtDigest ==
    ASSUME NEW r \in Requests, HasDigest(r), NEW d, At(r, d)
    PROVE  \E u \in Sleepers :
             /\ This(r).id = u /\ r \in Busy
             /\ \/ d = "gather" /\ Rest(r) = SaveTail(u) /\ Loc(r) = DigestLocals
                \/ d = "cacheRead" /\ Rest(r) = ReadTail(u) /\ Loc(r) = DigestLocals
                \/ d = "digestRead" /\ Rest(r) = CacheTail(u) /\ Loc(r) = DigestLocals
                \/ d = "saveDigest" /\ Rest(r) = CacheTail(u) /\ \E n \in 1 .. MaxFacts : Loc(r) = [from |-> n]
                \/ /\ d = "cacheDigest" /\ CachesFor(r, u) /\ Rest(r) = <<>>
                   /\ \E n \in digestPast.saved[u] \ {0} : Loc(r) = [from |-> n]
<1>1. r \in Busy /\ request[r].todo # <<>> /\ Head(request[r].todo).do = d
  BY DEF At, Busy
<1>2. PICK u \in Sleepers :
         \/ request[r].todo \in {GatherList(u), ReadList(u), ReadTail(u)} /\ Loc(r) = DigestLocals
         \/ request[r].todo = SaveTail(u) /\ \E n \in 1 .. MaxFacts : Loc(r) = [from |-> n]
         \/ CachesFor(r, u) /\ \E n \in digestPast.saved[u] \ {0} : Loc(r) = [from |-> n]
  BY <1>1 DEF HasDigest
<1> USE DigestLists DEF This, Rest
<1>3. CASE request[r].todo = GatherList(u) /\ Loc(r) = DigestLocals
  BY <1>1, <1>3
<1>4. CASE request[r].todo = ReadList(u) /\ Loc(r) = DigestLocals
  BY <1>1, <1>4
<1>5. CASE request[r].todo = ReadTail(u) /\ Loc(r) = DigestLocals
  BY <1>1, <1>5
<1>6. CASE request[r].todo = SaveTail(u) /\ \E n \in 1 .. MaxFacts : Loc(r) = [from |-> n]
  BY <1>1, <1>6
<1>7. CASE CachesFor(r, u) /\ \E n \in digestPast.saved[u] \ {0} : Loc(r) = [from |-> n]
  BY <1>1, <1>7 DEF CachesFor
<1> QED BY <1>2, <1>3, <1>4, <1>5, <1>6, <1>7

(* Nothing catches an error. *)
LEMMA DigestErrors ==
    ASSUME NEW r \in Requests, HasDigest(r), r \in Busy
    PROVE  Unwound(Rest(r)) = <<>>
<1>1. PICK d : At(r, d)
  BY DEF At
<1>2. PICK u \in Sleepers : Rest(r) \in {SaveTail(u), ReadTail(u), CacheTail(u), <<>>}
  BY <1>1, AtDigest
<1>3. \A i \in DOMAIN Rest(r) : Rest(r)[i].do # "catch"
  BY <1>2 DEF SaveTail, ReadTail, CacheTail
<1> QED BY <1>3 DEF Unwound

(* Who is caching a digest. *)
LEMMA CachersKnown ==
    ASSUME DigestInv
    PROVE  Caching <=> worker.at = "cache" \/ \E r \in Requests, u \in Sleepers : CachesFor(r, u)
<1>1. \A r \in Requests : At(r, "cacheDigest") => \E u \in Sleepers : CachesFor(r, u)
  BY AtDigest DEF DigestInv
<1>2. ASSUME NEW r \in Requests, NEW u \in Sleepers, CachesFor(r, u)
      PROVE  r \in Busy /\ At(r, "cacheDigest")
  BY <1>2, DigestLists DEF CachesFor, Busy, At
<1> QED BY <1>1, <1>2 DEF Caching, Busy

(* A request stays where it is: what was saved once stays known. *)
LEMMA OtherDigestsStay ==
    ASSUME NEW q \in Requests, HasDigest(q), request'[q] = request[q],
           \A u \in Sleepers : digestPast.saved[u] \subseteq digestPast'.saved[u]
    PROVE  HasDigest(q)'
BY DEF HasDigest, CachesFor, Loc

(* A save: of what is known nothing is forgotten. *)
LEMMA SaveKnown ==
    ASSUME DigestInv, NEW u \in Sleepers, NEW n \in 1 .. MaxFacts, Save(u, n)
    PROVE  /\ saved' \in [Sleepers -> 0 .. MaxFacts] /\ saved'[u] = n
           /\ \A v \in Sleepers \ {u} : saved'[v] = saved[v]
           /\ digestPast' \in [saved : [Sleepers -> SUBSET (0 .. MaxFacts)], reranked : [Sleepers -> 0 .. MaxFacts],
                               raced : BOOLEAN]
           /\ n \in digestPast'.saved[u]
           /\ \A v \in Sleepers : digestPast.saved[v] \subseteq digestPast'.saved[v]
           /\ digestPast'.reranked = digestPast.reranked
           /\ ~digestPast'.raced => ~digestPast.raced /\ ~Caching
           /\ StoreWasSaved'
<1>1. /\ saved \in [Sleepers -> 0 .. MaxFacts]
      /\ digestPast \in [saved : [Sleepers -> SUBSET (0 .. MaxFacts)], reranked : [Sleepers -> 0 .. MaxFacts],
                         raced : BOOLEAN]
      /\ n \in 0 .. MaxFacts
  BY SleepAssumption DEF DigestInv, DigestTyped
<1>2. PICK raced \in BOOLEAN : raced = (digestPast.raced \/ Caching)
  BY <1>1
<1>3. PICK f : f = [digestPast.saved EXCEPT ![u] = @ \cup {n}]
  OBVIOUS
<1>4. digestPast' = [digestPast EXCEPT !.saved = f, !.raced = raced] /\ saved' = [saved EXCEPT ![u] = n]
  BY <1>2, <1>3 DEF Save
<1>5. /\ f \in [Sleepers -> SUBSET (0 .. MaxFacts)] /\ n \in f[u]
      /\ \A v \in Sleepers : digestPast.saved[v] \subseteq f[v]
  BY <1>1, <1>3
<1>6. digestPast' = [saved |-> f, reranked |-> digestPast.reranked, raced |-> raced]
  BY <1>1, <1>4
<1>7. digestPast'.saved = f /\ digestPast'.reranked = digestPast.reranked /\ digestPast'.raced = raced
  BY <1>6
<1>8. /\ saved' \in [Sleepers -> 0 .. MaxFacts] /\ saved'[u] = n
      /\ \A v \in Sleepers \ {u} : saved'[v] = saved[v]
  BY <1>1, <1>4
<1>9. StoreWasSaved'
  BY <1>5, <1>7, <1>8 DEF DigestInv, StoreWasSaved
<1>10. digestPast' \in [saved : [Sleepers -> SUBSET (0 .. MaxFacts)], reranked : [Sleepers -> 0 .. MaxFacts],
                        raced : BOOLEAN]
  BY <1>1, <1>5, <1>6
<1> QED BY <1>2, <1>5, <1>7, <1>8, <1>9, <1>10

-----------------------------------------------------------------------------
(* One lemma per kind of step.                                              *)

(* A request goes on or ends, and no digest is saved or cached. *)
LEMMA RequestGoesOn ==
    ASSUME DigestInv, NEW r \in Requests, NEW t, NEW loc, Continue(r, t, loc), UNCHANGED digestVars,
           tally' \in [started : Nat, faults : Nat, overlapped : BOOLEAN],
           tally'.faults = 0 => tally.faults = 0 /\ \A u \in Sleepers : ~CachesFor(r, u),
           \/ t = <<>>
           \/ \E u \in Sleepers :
                \/ t \in {GatherList(u), ReadList(u), ReadTail(u)} /\ loc = DigestLocals
                \/ t = SaveTail(u) /\ \E n \in 1 .. MaxFacts : loc = [from |-> n]
    PROVE  DigestInv'
<1> DEFINE x == IF t = <<>> THEN Idle ELSE [todo |-> t, loc |-> loc]
<1>1. request' = [request EXCEPT ![r] = x]
  BY DEF Continue
<1>2. request'[r] = x /\ DOMAIN request' = Requests /\ \A q \in Requests \ {r} : request'[q] = request[q]
  BY <1>1 DEF DigestInv, DigestTyped
<1>3. request'[r].todo = t /\ (t # <<>> => Loc(r)' = loc)
  BY <1>2 DEF Idle, Loc
<1>4. HasDigest(r)'
  <2>1. CASE t = <<>>
    BY <1>3, <2>1 DEF HasDigest
  <2>2. CASE t # <<>>
    <3>1. PICK u \in Sleepers :
            \/ t \in {GatherList(u), ReadList(u), ReadTail(u)} /\ loc = DigestLocals
            \/ t = SaveTail(u) /\ \E n \in 1 .. MaxFacts : loc = [from |-> n]
      BY <2>2
    <3> QED BY <1>3, <2>2, <3>1 DEF HasDigest, GatherList, ReadList, ReadTail, SaveTail
  <2> QED BY <2>1, <2>2
<1>5. \A u \in Sleepers : ~CachesFor(r, u)'
  <2>1. \A u, v \in Sleepers :
          /\ CacheTail(u) \notin {GatherList(v), ReadList(v), ReadTail(v), SaveTail(v)}
          /\ CacheTail(u) # <<>>
    BY DEF CacheTail, GatherList, ReadList, ReadTail, SaveTail
  <2> QED BY <1>3, <2>1 DEF CachesFor
<1> HIDE DEF x
<1>6. \A q \in Requests \ {r} : HasDigest(q)'
  BY <1>2, OtherDigestsStay DEF DigestInv, digestVars
<1>7. \A q \in Requests \ {r}, u \in Sleepers : (CachesFor(q, u)' <=> CachesFor(q, u)) /\ Loc(q)' = Loc(q)
  BY <1>2 DEF CachesFor, Loc
<1>8. OneCaches'
  <2> SUFFICES ASSUME ~digestPast.raced, tally'.faults = 0
               PROVE  OneCaches'
    BY DEF OneCaches, digestVars
  <2>1. /\ worker.at = "cache" =>
             worker.from = saved[worker.user] /\ \A q \in Requests, u \in Sleepers : ~CachesFor(q, u)
        /\ \A q \in Requests, u \in Sleepers : CachesFor(q, u) => Loc(q).from = saved[u]
        /\ \A p, q \in Requests : (\E u, v \in Sleepers : CachesFor(p, u) /\ CachesFor(q, v)) => p = q
        /\ \A u \in Sleepers : \/ cache[u] \in {0, saved[u]}
                               \/ worker.at = "cache" /\ worker.user = u
                               \/ \E q \in Requests : CachesFor(q, u)
    BY DEF DigestInv, OneCaches
  <2>2. \A u \in Sleepers : ~CachesFor(r, u)
    OBVIOUS
  <2>3. \A q \in Requests, u \in Sleepers : CachesFor(q, u)' => CachesFor(q, u) /\ Loc(q)' = Loc(q)
    BY <1>5, <1>7
  <2>4. \A q \in Requests, u \in Sleepers : CachesFor(q, u) => CachesFor(q, u)'
    BY <1>7, <2>2
  <2>5. UNCHANGED <<worker, saved, cache>>
    BY DEF digestVars
  <2> QED BY <2>1, <2>3, <2>4, <2>5 DEF OneCaches
<1>9. DigestTyped' /\ WorkerFits' /\ StoreWasSaved' /\ CacheWasSaved' /\ DoneIsUpToDate'
  BY <1>2 DEF DigestInv, DigestTyped, WorkerFits, StoreWasSaved, CacheWasSaved, DoneIsUpToDate, digestVars
<1> QED BY <1>4, <1>6, <1>8, <1>9 DEF DigestInv

LEMMA DigestRefused ==
    ASSUME DigestInv, NEW r \in Requests, UNCHANGED digestVars,
           \/ Refuse(r) /\ \E d \in {"gather", "cacheRead", "digestRead"} : At(r, d)
           \/ CommandFails(r)
    PROVE  DigestInv'
<1>1. r \in Busy /\ Continue(r, <<>>, Loc(r))
  BY DigestErrors DEF Refuse, CommandFails, At, DigestInv
<1>2. tally \in [started : Nat, faults : Nat, overlapped : BOOLEAN]
  BY DEF DigestInv, DigestTyped
<1>3. CASE CommandFails(r)
  <2>1. tally' \in [started : Nat, faults : Nat, overlapped : BOOLEAN] /\ tally'.faults # 0
    BY <1>2, <1>3 DEF CommandFails
  <2> QED BY <1>1, <2>1, RequestGoesOn
<1>4. CASE Refuse(r) /\ \E d \in {"gather", "cacheRead", "digestRead"} : At(r, d)
  <2>1. \A u \in Sleepers : ~CachesFor(r, u)
    BY <1>4, DigestLists DEF CachesFor, At
  <2>2. tally' = tally
    BY <1>4 DEF Refuse
  <2> QED BY <1>1, <1>2, <2>1, <2>2, RequestGoesOn
<1> QED BY <1>3, <1>4

LEMMA DigestStarts ==
    ASSUME DigestInv, NEW r \in Requests, NEW u \in Sleepers, RefreshDigest(r, u) \/ GetDigest(r, u)
    PROVE  DigestInv'
<1>1. PICK t : t \in {GatherList(u), ReadList(u)} /\ Start(r, t, DigestLocals)
  BY ThreeCommands DEF RefreshDigest, GetDigest, Cmd, GatherList, ReadList
<1>2. UNCHANGED digestVars
  BY DEF RefreshDigest, GetDigest
<1>3. Continue(r, t, DigestLocals) /\ request[r].todo = <<>>
  BY <1>1 DEF Start, Busy
<1>4. tally' \in [started : Nat, faults : Nat, overlapped : BOOLEAN] /\ tally'.faults = tally.faults
  <2>1. tally \in [started : Nat, faults : Nat, overlapped : BOOLEAN]
    BY DEF DigestInv, DigestTyped
  <2>2. PICK over \in BOOLEAN : over = (tally.overlapped \/ Busy # {})
    BY <2>1
  <2>3. tally' = [tally EXCEPT !.started = tally.started + 1, !.overlapped = over]
    BY <1>1, <2>2 DEF Start
  <2>4. tally' = [started |-> tally.started + 1, faults |-> tally.faults, overlapped |-> over]
    BY <2>1, <2>3
  <2> QED BY <2>1, <2>4
<1>5. \A v \in Sleepers : ~CachesFor(r, v)
  BY <1>3, DigestLists DEF CachesFor
<1> QED BY <1>1, <1>2, <1>3, <1>4, <1>5, RequestGoesOn

LEMMA GatherKeeps ==
    ASSUME DigestInv, NEW r \in Requests, Gather(r)
    PROVE  DigestInv'
<1>1. UNCHANGED digestVars /\ At(r, "gather") /\ HasDigest(r)
  BY DEF Gather, DigestInv
<1>2. PICK u \in Sleepers : This(r).id = u /\ Rest(r) = SaveTail(u) /\ Loc(r) = DigestLocals
  BY <1>1, AtDigest
<1>3. CASE facts[u] = 0
  BY <1>1, <1>2, <1>3, DigestRefused DEF Gather
<1>4. CASE facts[u] # 0
  <2>1. PICK n \in 1 .. MaxFacts : n = facts[u]
    BY <1>4, SleepAssumption DEF DigestInv, DigestTyped
  <2>2. Continue(r, SaveTail(u), [from |-> n]) /\ tally' = tally
    BY <1>2, <1>4, <2>1 DEF Gather, Sent, DigestLocals
  <2>3. \A v \in Sleepers : ~CachesFor(r, v)
    BY <1>1, DigestLists DEF CachesFor, At
  <2>4. tally \in [started : Nat, faults : Nat, overlapped : BOOLEAN]
    BY DEF DigestInv, DigestTyped
  <2> QED BY <1>1, <2>2, <2>3, <2>4, RequestGoesOn
<1> QED BY <1>3, <1>4

LEMMA CacheReadKeeps ==
    ASSUME DigestInv, NEW r \in Requests, CacheRead(r)
    PROVE  DigestInv'
<1>1. UNCHANGED digestVars /\ At(r, "cacheRead") /\ HasDigest(r)
  BY DEF CacheRead, DigestInv
<1>2. PICK u \in Sleepers : This(r).id = u /\ Rest(r) = ReadTail(u) /\ Loc(r) = DigestLocals
  BY <1>1, AtDigest
<1>3. CASE Refuse(r)
  BY <1>1, <1>3, DigestRefused
<1>4. CASE Done(r)
  <2>2. Continue(r, ReadTail(u), DigestLocals) /\ tally' = tally
    BY <1>2, <1>4 DEF Done, Sent
  <2>3. \A v \in Sleepers : ~CachesFor(r, v)
    BY <1>1, DigestLists DEF CachesFor, At
  <2>4. tally \in [started : Nat, faults : Nat, overlapped : BOOLEAN]
    BY DEF DigestInv, DigestTyped
  <2> QED BY <1>1, <2>2, <2>3, <2>4, RequestGoesOn
<1> QED BY <1>3, <1>4 DEF CacheRead

(* A request comes to hold a digest that Redis has: read-through, or its own. *)
LEMMA RequestHolds ==
    ASSUME DigestInv, NEW r \in Requests, NEW u \in Sleepers, NEW n \in 1 .. MaxFacts,
           Continue(r, CacheTail(u), [from |-> n]), UNCHANGED <<facts, activity, done, cache, worker, tally>>,
           \A v \in Sleepers : ~CachesFor(r, v),
           saved' \in [Sleepers -> 0 .. MaxFacts], saved'[u] = n,
           \A v \in Sleepers \ {u} : saved'[v] = saved[v],
           digestPast' \in [saved : [Sleepers -> SUBSET (0 .. MaxFacts)], reranked : [Sleepers -> 0 .. MaxFacts],
                            raced : BOOLEAN],
           n \in digestPast'.saved[u],
           \A v \in Sleepers : digestPast.saved[v] \subseteq digestPast'.saved[v],
           digestPast'.reranked = digestPast.reranked,
           ~digestPast'.raced => ~digestPast.raced /\ ~Caching,
           StoreWasSaved'
    PROVE  DigestInv'
<1>1. request' = [request EXCEPT ![r] = [todo |-> CacheTail(u), loc |-> [from |-> n]]]
  BY DigestLists DEF Continue
<1>2. /\ DOMAIN request' = Requests /\ CachesFor(r, u)' /\ Loc(r)' = [from |-> n]
      /\ \A q \in Requests \ {r} : request'[q] = request[q]
  BY <1>1 DEF DigestInv, DigestTyped, CachesFor, Loc, CacheTail
<1>3. HasDigest(r)'
  BY <1>2 DEF HasDigest
<1>4. \A q \in Requests \ {r} : HasDigest(q)'
  BY <1>2, OtherDigestsStay DEF DigestInv
<1>5. DigestTyped'
  BY <1>2 DEF DigestInv, DigestTyped
<1>6. WorkerFits' /\ DoneIsUpToDate' /\ CacheWasSaved'
  <2>1. WorkerFits'
    <3>1. WorkerFits
      BY DEF DigestInv
    <3> QED BY <3>1 DEF WorkerFits
  <2>2. DoneIsUpToDate'
    <3>1. DoneIsUpToDate /\ done.digest \subseteq Sleepers
      BY DEF DigestInv, DigestTyped
    <3> QED BY <3>1 DEF DoneIsUpToDate
  <2>3. CacheWasSaved'
    <3>1. CacheWasSaved
      BY DEF DigestInv
    <3> QED BY <3>1 DEF CacheWasSaved
  <2> QED BY <2>1, <2>2, <2>3
<1>7. OneCaches'
  <2> SUFFICES ASSUME ~digestPast'.raced, tally.faults = 0
               PROVE  OneCaches'
    BY DEF OneCaches
  <2>1. worker.at # "cache" /\ \A q \in Requests, v \in Sleepers : ~CachesFor(q, v)
    BY CachersKnown
  <2>2. \A v \in Sleepers : cache[v] \in {0, saved[v]}
    BY <2>1 DEF DigestInv, OneCaches
  <2>3. \A q \in Requests, v \in Sleepers : CachesFor(q, v)' => q = r /\ v = u
    <3>1. \A v \in Sleepers : CacheTail(v) = CacheTail(u) => v = u
      BY DEF CacheTail
    <3> QED BY <1>2, <2>1, <3>1 DEF CachesFor
  <2> QED BY <1>2, <2>1, <2>2, <2>3 DEF OneCaches
<1> QED BY <1>3, <1>4, <1>5, <1>6, <1>7 DEF DigestInv

LEMMA StoreDigestKeeps ==
    ASSUME DigestInv, NEW r \in Requests, StoreDigest(r)
    PROVE  DigestInv'
<1>1. At(r, "saveDigest") /\ HasDigest(r) /\ UNCHANGED <<facts, activity, done, cache, worker>>
  BY DEF StoreDigest, DigestInv
<1>2. PICK u \in Sleepers : /\ This(r).id = u /\ Rest(r) = CacheTail(u)
                            /\ \E n \in 1 .. MaxFacts : Loc(r) = [from |-> n]
  BY <1>1, AtDigest
<1>3. PICK n \in 1 .. MaxFacts : Loc(r) = [from |-> n]
  BY <1>2
<1>4. Save(u, n) /\ Continue(r, CacheTail(u), [from |-> n]) /\ tally' = tally
  BY <1>2, <1>3 DEF StoreDigest, Done, Sent
<1>5. \A v \in Sleepers : ~CachesFor(r, v)
  BY <1>1, DigestLists DEF CachesFor, At
<1>6. /\ saved' \in [Sleepers -> 0 .. MaxFacts] /\ saved'[u] = n
      /\ \A v \in Sleepers \ {u} : saved'[v] = saved[v]
      /\ digestPast' \in [saved : [Sleepers -> SUBSET (0 .. MaxFacts)], reranked : [Sleepers -> 0 .. MaxFacts],
                          raced : BOOLEAN]
      /\ n \in digestPast'.saved[u]
      /\ \A v \in Sleepers : digestPast.saved[v] \subseteq digestPast'.saved[v]
      /\ digestPast'.reranked = digestPast.reranked
      /\ ~digestPast'.raced => ~digestPast.raced /\ ~Caching
      /\ StoreWasSaved'
  BY <1>4, SaveKnown
<1> QED BY <1>1, <1>4, <1>5, <1>6, RequestHolds

LEMMA DigestReadKeeps ==
    ASSUME DigestInv, NEW r \in Requests, DigestRead(r)
    PROVE  DigestInv'
<1>1. At(r, "digestRead") /\ HasDigest(r) /\ UNCHANGED <<facts, activity, done, saved, cache, worker>>
  BY DEF DigestRead, DigestInv
<1>2. PICK u \in Sleepers : This(r).id = u /\ Rest(r) = CacheTail(u) /\ Loc(r) = DigestLocals
  BY <1>1, AtDigest
<1>3. CASE saved[u] = 0
  BY <1>1, <1>2, <1>3, DigestRefused DEF DigestRead, digestVars
<1>4. CASE saved[u] # 0
  <2>1. PICK n \in 1 .. MaxFacts : n = saved[u]
    BY <1>4, SleepAssumption DEF DigestInv, DigestTyped
  <2>2. Continue(r, CacheTail(u), [from |-> n]) /\ tally' = tally
    BY <1>2, <1>4, <2>1 DEF DigestRead, Sent, DigestLocals
  <2>3. \A v \in Sleepers : ~CachesFor(r, v)
    BY <1>1, DigestLists DEF CachesFor, At
  <2>4. /\ saved \in [Sleepers -> 0 .. MaxFacts]
        /\ digestPast \in [saved : [Sleepers -> SUBSET (0 .. MaxFacts)], reranked : [Sleepers -> 0 .. MaxFacts],
                           raced : BOOLEAN]
    BY DEF DigestInv, DigestTyped
  <2>5. PICK raced \in BOOLEAN : raced = (digestPast.raced \/ Caching)
    BY <2>4
  <2>6. digestPast' = [digestPast EXCEPT !.raced = raced]
    BY <1>2, <1>4, <2>5 DEF DigestRead
  <2>7. digestPast' = [saved |-> digestPast.saved, reranked |-> digestPast.reranked, raced |-> raced]
    BY <2>4, <2>6
  <2>8. /\ digestPast' \in [saved : [Sleepers -> SUBSET (0 .. MaxFacts)], reranked : [Sleepers -> 0 .. MaxFacts],
                            raced : BOOLEAN]
        /\ digestPast'.saved = digestPast.saved /\ digestPast'.reranked = digestPast.reranked
        /\ ~digestPast'.raced => ~digestPast.raced /\ ~Caching
    BY <2>4, <2>5, <2>7
  <2>9. n \in digestPast.saved[u] /\ StoreWasSaved'
    BY <1>1, <1>4, <2>1, <2>8 DEF DigestInv, StoreWasSaved
  <2> QED BY <1>1, <2>1, <2>2, <2>3, <2>4, <2>8, <2>9, RequestHolds
<1> QED BY <1>3, <1>4

LEMMA CacheDigestKeeps ==
    ASSUME DigestInv, NEW r \in Requests, CacheDigest(r)
    PROVE  DigestInv'
<1>1. At(r, "cacheDigest") /\ HasDigest(r) /\ UNCHANGED <<facts, activity, done, saved, worker, digestPast, tally>>
  BY DEF CacheDigest, DigestInv, Done, Sent
<1>2. PICK u \in Sleepers : /\ This(r).id = u /\ CachesFor(r, u) /\ Rest(r) = <<>>
                            /\ \E n \in digestPast.saved[u] \ {0} : Loc(r) = [from |-> n]
  BY <1>1, AtDigest
<1>3. PICK n \in digestPast.saved[u] \ {0} : Loc(r) = [from |-> n]
  BY <1>2
<1>4. n \in 0 .. MaxFacts
  BY DEF DigestInv, DigestTyped
<1>5. request' = [request EXCEPT ![r] = Idle] /\ cache' = [cache EXCEPT ![u] = n]
  <2>1. Continue(r, <<>>, Loc(r)) /\ cache' = [cache EXCEPT ![u] = Loc(r).from]
    BY <1>2 DEF CacheDigest, Done, Sent
  <2>2. Loc(r).from = n
    BY <1>3
  <2>3. request' = [request EXCEPT ![r] = Idle]
    BY <2>1 DEF Continue
  <2> QED BY <2>1, <2>2, <2>3
<1>6. /\ DOMAIN request' = Requests /\ request'[r] = Idle /\ \A q \in Requests \ {r} : request'[q] = request[q]
      /\ cache' \in [Sleepers -> 0 .. MaxFacts] /\ cache'[u] = n /\ \A v \in Sleepers \ {u} : cache'[v] = cache[v]
  BY <1>4, <1>5 DEF DigestInv, DigestTyped
<1>7. \A q \in Requests : HasDigest(q)'
  <2>1. HasDigest(r)'
    BY <1>6 DEF HasDigest, Idle
  <2>2. \A q \in Requests \ {r} : HasDigest(q)'
    BY <1>1, <1>6, OtherDigestsStay DEF DigestInv
  <2> QED BY <2>1, <2>2
<1>8. DigestTyped' /\ WorkerFits' /\ StoreWasSaved' /\ DoneIsUpToDate'
  BY <1>1, <1>6 DEF DigestInv, DigestTyped, WorkerFits, StoreWasSaved, DoneIsUpToDate
<1>9. CacheWasSaved'
  BY <1>1, <1>6 DEF DigestInv, CacheWasSaved
<1>10. OneCaches'
  <2> SUFFICES ASSUME ~digestPast.raced, tally.faults = 0
               PROVE  OneCaches'
    BY <1>1 DEF OneCaches
  <2>1. /\ worker.at # "cache" /\ n = saved[u]
        /\ \A q \in Requests, v \in Sleepers : CachesFor(q, v) => q = r
        /\ \A v \in Sleepers : cache[v] \in {0, saved[v]} \/ \E q \in Requests : CachesFor(q, v)
    BY <1>2, <1>3 DEF DigestInv, OneCaches
  <2>2. \A v \in Sleepers : CachesFor(r, v) => v = u
    BY <1>2 DEF CachesFor, CacheTail
  <2>3. \A q \in Requests, v \in Sleepers : ~CachesFor(q, v)'
    BY <1>6, <2>1, DigestLists DEF CachesFor, Idle
  <2>4. \A v \in Sleepers : cache'[v] \in {0, saved[v]}
    BY <1>6, <2>1, <2>2
  <2> QED BY <1>1, <2>1, <2>3, <2>4 DEF OneCaches
<1> QED BY <1>7, <1>8, <1>9, <1>10 DEF DigestInv

-----------------------------------------------------------------------------
(* The worker.                                                              *)

(* The worker leaves the requests alone; what it changes is typed, fits and  *)
(* is up to date.  Where it neither saves nor caches, OneCaches stays.       *)
LEMMA WorkerGoesOn ==
    ASSUME DigestInv, UNCHANGED <<requestVars, saved, cache>>, worker'.at # "cache", worker.at # "cache",
           facts' \in [Sleepers -> 0 .. MaxFacts],
           activity' \in [Sleepers -> {Unseen, Recent, Waiting, Old}],
           done' \in [digest : SUBSET Sleepers, rerank : SUBSET Sleepers],
           digestPast' \in [saved : [Sleepers -> SUBSET (0 .. MaxFacts)], reranked : [Sleepers -> 0 .. MaxFacts],
                            raced : BOOLEAN],
           digestPast'.saved = digestPast.saved, digestPast'.raced = digestPast.raced,
           WorkerFits', DoneIsUpToDate'
    PROVE  DigestInv'
<1>1. DigestTyped'
  BY DEF DigestInv, DigestTyped, requestVars
<1>2. \A r \in Requests : HasDigest(r)'
  BY OtherDigestsStay DEF DigestInv, requestVars
<1>3. StoreWasSaved' /\ CacheWasSaved'
  BY DEF DigestInv, StoreWasSaved, CacheWasSaved
<1>4. OneCaches'
  <2>1. \A r \in Requests, u \in Sleepers : (CachesFor(r, u)' <=> CachesFor(r, u)) /\ Loc(r)' = Loc(r)
    BY DEF requestVars, CachesFor, Loc
  <2>2. tally' = tally
    BY DEF requestVars
  <2> QED BY <2>1, <2>2 DEF DigestInv, OneCaches
<1> QED BY <1>1, <1>2, <1>3, <1>4 DEF DigestInv

LEMMA ProcessUserKeeps ==
    ASSUME DigestInv, NEW u \in Sleepers, NEW learned \in BOOLEAN, ProcessUser(u, learned)
    PROVE  DigestInv'
<1>1. /\ facts \in [Sleepers -> 0 .. MaxFacts] /\ activity \in [Sleepers -> {Unseen, Recent, Waiting, Old}]
      /\ done \in [digest : SUBSET Sleepers, rerank : SUBSET Sleepers]
      /\ WorkerFits /\ DoneIsUpToDate
      /\ digestPast \in [saved : [Sleepers -> SUBSET (0 .. MaxFacts)], reranked : [Sleepers -> 0 .. MaxFacts],
                         raced : BOOLEAN]
  BY DEF DigestInv, DigestTyped
<1>2. /\ worker.at = "poll" /\ UNCHANGED <<requestVars, saved, cache, worker, digestPast>>
      /\ learned => facts[u] < MaxFacts
      /\ facts' = [facts EXCEPT ![u] = IF learned THEN @ + 1 ELSE @]
      /\ activity' = [activity EXCEPT ![u] = Recent]
      /\ done' = [digest |-> done.digest \ {u}, rerank |-> done.rerank \ {u}]
  BY DEF ProcessUser
<1>3. (IF learned THEN facts[u] + 1 ELSE facts[u]) \in 0 .. MaxFacts
  BY <1>1, <1>2, SleepAssumption
<1>4. facts' \in [Sleepers -> 0 .. MaxFacts] /\ \A v \in Sleepers \ {u} : facts'[v] = facts[v]
  BY <1>1, <1>2, <1>3
<1>5. activity' \in [Sleepers -> {Unseen, Recent, Waiting, Old}]
  BY <1>1, <1>2
<1>6. /\ done' \in [digest : SUBSET Sleepers, rerank : SUBSET Sleepers]
      /\ done'.digest = done.digest \ {u} /\ done'.rerank = done.rerank \ {u}
  BY <1>1, <1>2
<1>7. DoneIsUpToDate'
  BY <1>1, <1>2, <1>4, <1>6 DEF DoneIsUpToDate
<1>8. WorkerFits'
  BY <1>1, <1>2 DEF WorkerFits
<1> QED BY <1>1, <1>2, <1>4, <1>5, <1>6, <1>7, <1>8, WorkerGoesOn

LEMMA ListIdleKeeps ==
    ASSUME DigestInv, ListIdle
    PROVE  DigestInv'
<1>1. /\ facts \in [Sleepers -> 0 .. MaxFacts] /\ activity \in [Sleepers -> {Unseen, Recent, Waiting, Old}]
      /\ done \in [digest : SUBSET Sleepers, rerank : SUBSET Sleepers]
      /\ WorkerFits /\ DoneIsUpToDate
      /\ digestPast \in [saved : [Sleepers -> SUBSET (0 .. MaxFacts)], reranked : [Sleepers -> 0 .. MaxFacts],
                         raced : BOOLEAN]
  BY DEF DigestInv, DigestTyped
<1>a. PICK idle \in SUBSET Sleepers : idle = {u \in Sleepers : activity[u] \in {Waiting, Old}}
  OBVIOUS
<1>b. PICK kept \in SUBSET Sleepers : kept = {u \in Sleepers : activity[u] \in {Recent, Waiting}}
  OBVIOUS
<1>2. /\ worker.at = "poll" /\ UNCHANGED <<requestVars, facts, saved, cache, digestPast>>
      /\ worker' = [worker EXCEPT !.at = "pick", !.digest = idle \ done.digest, !.rerank = idle \ done.rerank]
      /\ activity' = [u \in Sleepers |-> IF u \in kept THEN activity[u] ELSE Unseen]
      /\ done' = [digest |-> done.digest \cap kept, rerank |-> done.rerank \cap kept]
  BY <1>a, <1>b DEF ListIdle
<1>3. /\ done' \in [digest : SUBSET Sleepers, rerank : SUBSET Sleepers]
      /\ done'.digest = done.digest \cap kept /\ done'.rerank = done.rerank \cap kept
  BY <1>1, <1>2
<1>4. DoneIsUpToDate'
  BY <1>1, <1>2, <1>3 DEF DoneIsUpToDate
<1>5. WorkerFits' /\ worker'.at = "pick"
  BY <1>1, <1>2 DEF WorkerFits
<1>6. activity' \in [Sleepers -> {Unseen, Recent, Waiting, Old}]
  BY <1>1, <1>2
<1> QED BY <1>1, <1>2, <1>3, <1>4, <1>5, <1>6, WorkerGoesOn

LEMMA GenerateDigestKeeps ==
    ASSUME DigestInv, NEW u \in Sleepers, NEW ok \in BOOLEAN, GenerateDigest(u, ok)
    PROVE  DigestInv'
<1>1. /\ facts \in [Sleepers -> 0 .. MaxFacts] /\ activity \in [Sleepers -> {Unseen, Recent, Waiting, Old}]
      /\ done \in [digest : SUBSET Sleepers, rerank : SUBSET Sleepers]
      /\ WorkerFits /\ DoneIsUpToDate
      /\ digestPast \in [saved : [Sleepers -> SUBSET (0 .. MaxFacts)], reranked : [Sleepers -> 0 .. MaxFacts],
                         raced : BOOLEAN]
  BY DEF DigestInv, DigestTyped
<1>2. /\ worker.at = "pick" /\ UNCHANGED <<requestVars, facts, activity, done, saved, cache, digestPast>>
      /\ ok => facts[u] > 0
      /\ worker' = [worker EXCEPT !.digest = worker.digest \ {u}, !.user = u, !.from = facts[u],
                                  !.at = IF ok THEN "save" ELSE "pick"]
  BY DEF GenerateDigest
<1>3. /\ worker' \in [at : {"poll", "pick", "save", "cache"}, digest : SUBSET Sleepers,
                      rerank : SUBSET Sleepers, user : Sleepers \cup {"nobody"}, from : 0 .. MaxFacts]
      /\ worker'.user = u /\ worker'.from = facts[u] /\ worker'.at = (IF ok THEN "save" ELSE "pick")
  BY <1>1, <1>2 DEF WorkerFits
<1>4. WorkerFits' /\ worker'.at # "cache"
  BY <1>1, <1>2, <1>3 DEF WorkerFits
<1>5. DoneIsUpToDate'
  BY <1>1, <1>2 DEF DoneIsUpToDate
<1> QED BY <1>1, <1>2, <1>4, <1>5, WorkerGoesOn

LEMMA RerankKeeps ==
    ASSUME DigestInv, NEW u \in Sleepers, NEW ok \in BOOLEAN, Rerank(u, ok)
    PROVE  DigestInv'
<1>1. /\ facts \in [Sleepers -> 0 .. MaxFacts] /\ activity \in [Sleepers -> {Unseen, Recent, Waiting, Old}]
      /\ done \in [digest : SUBSET Sleepers, rerank : SUBSET Sleepers]
      /\ WorkerFits /\ DoneIsUpToDate
      /\ digestPast \in [saved : [Sleepers -> SUBSET (0 .. MaxFacts)], reranked : [Sleepers -> 0 .. MaxFacts],
                         raced : BOOLEAN]
  BY DEF DigestInv, DigestTyped
<1>a. PICK again : again = IF ok THEN done.rerank \cup {u} ELSE done.rerank
  OBVIOUS
<1>b. PICK scores : scores = [digestPast.reranked EXCEPT ![u] = IF ok THEN facts[u] ELSE @]
  OBVIOUS
<1>2. /\ worker.at = "pick" /\ UNCHANGED <<requestVars, facts, activity, saved, cache>>
      /\ worker' = [worker EXCEPT !.rerank = worker.rerank \ {u}]
      /\ done' = [done EXCEPT !.rerank = again]
      /\ digestPast' = [digestPast EXCEPT !.reranked = scores]
  BY <1>a, <1>b DEF Rerank
<1>3. /\ again \subseteq Sleepers /\ scores \in [Sleepers -> 0 .. MaxFacts]
      /\ \A v \in again :
           \/ v \in done.rerank /\ scores[v] = digestPast.reranked[v]
           \/ v = u /\ scores[v] = facts[v]
  <2>1. digestPast.reranked \in [Sleepers -> 0 .. MaxFacts] /\ done.rerank \subseteq Sleepers
    BY <1>1
  <2>2. CASE ok
    BY <1>1, <1>a, <1>b, <2>1, <2>2
  <2>3. CASE ~ok
    <3>1. scores = digestPast.reranked /\ again = done.rerank
      BY <1>a, <1>b, <2>1, <2>3
    <3> QED BY <2>1, <3>1
  <2> QED BY <2>2, <2>3
<1>4. /\ done' \in [digest : SUBSET Sleepers, rerank : SUBSET Sleepers]
      /\ done'.digest = done.digest /\ done'.rerank = again
      /\ digestPast'.saved = digestPast.saved /\ digestPast'.raced = digestPast.raced
      /\ digestPast'.reranked = scores
      /\ digestPast' \in [saved : [Sleepers -> SUBSET (0 .. MaxFacts)], reranked : [Sleepers -> 0 .. MaxFacts],
                          raced : BOOLEAN]
  BY <1>1, <1>2, <1>3
<1>5. DoneIsUpToDate'
  <2>1. \A v \in again : facts[v] = scores[v]
    BY <1>1, <1>3 DEF DoneIsUpToDate
  <2> QED BY <1>1, <1>2, <1>4, <2>1 DEF DoneIsUpToDate
<1>6. WorkerFits' /\ worker'.at = "pick"
  BY <1>1, <1>2 DEF WorkerFits
<1> QED BY <1>1, <1>2, <1>4, <1>5, <1>6, WorkerGoesOn

LEMMA WorkerWaits ==
    ASSUME DigestInv, TimePasses \/ NextCycle
    PROVE  DigestInv'
<1>1. /\ facts \in [Sleepers -> 0 .. MaxFacts] /\ activity \in [Sleepers -> {Unseen, Recent, Waiting, Old}]
      /\ done \in [digest : SUBSET Sleepers, rerank : SUBSET Sleepers]
      /\ WorkerFits /\ DoneIsUpToDate /\ OneCaches
      /\ digestPast \in [saved : [Sleepers -> SUBSET (0 .. MaxFacts)], reranked : [Sleepers -> 0 .. MaxFacts],
                         raced : BOOLEAN]
  BY DEF DigestInv, DigestTyped
<1>2. CASE NextCycle
  <2>1. worker' = Polling /\ worker.at = "pick" /\ UNCHANGED <<requestVars, facts, activity, done, saved, cache, digestPast>>
    BY <1>2 DEF NextCycle
  <2>2. WorkerFits' /\ worker'.at = "poll"
    BY <2>1, SleepAssumption DEF WorkerFits, Polling
  <2>3. DoneIsUpToDate'
    BY <1>1, <2>1 DEF DoneIsUpToDate
  <2> QED BY <1>1, <2>1, <2>2, <2>3, WorkerGoesOn
<1>3. CASE TimePasses
  <2>1. /\ activity' = [u \in Sleepers |-> Older(activity[u])]
        /\ UNCHANGED <<request, tally, facts, done, saved, cache, worker, digestPast>>
    BY <1>3 DEF TimePasses, requestVars
  <2>2. \A a \in {Unseen, Recent, Waiting, Old} : Older(a) \in {Unseen, Recent, Waiting, Old}
    BY DEF Older
  <2>3. activity' \in [Sleepers -> {Unseen, Recent, Waiting, Old}]
    BY <1>1, <2>1, <2>2
  <2>4. DigestTyped'
    BY <2>1, <2>3 DEF DigestInv, DigestTyped
  <2>5. \A r \in Requests : HasDigest(r)'
    BY <2>1, OtherDigestsStay DEF DigestInv
  <2>6. OneCaches'
    <3>1. \A r \in Requests, u \in Sleepers : (CachesFor(r, u)' <=> CachesFor(r, u)) /\ Loc(r)' = Loc(r)
      BY <2>1 DEF CachesFor, Loc
    <3> QED BY <1>1, <2>1, <3>1 DEF OneCaches
  <2>7. WorkerFits' /\ StoreWasSaved' /\ CacheWasSaved' /\ DoneIsUpToDate'
    BY <2>1 DEF DigestInv, WorkerFits, StoreWasSaved, CacheWasSaved, DoneIsUpToDate
  <2> QED BY <2>4, <2>5, <2>6, <2>7 DEF DigestInv
<1> QED BY <1>2, <1>3

LEMMA SaveDigestKeeps ==
    ASSUME DigestInv, NEW ok \in BOOLEAN, SaveDigest(ok)
    PROVE  DigestInv'
<1>1. /\ worker.at = "save" /\ UNCHANGED <<requestVars, facts, activity, done, cache>>
      /\ worker' = [worker EXCEPT !.at = IF ok THEN "cache" ELSE "pick"]
      /\ WorkerFits /\ DoneIsUpToDate /\ DigestTyped
  BY DEF SaveDigest, DigestInv
<1>2. /\ worker' \in [at : {"poll", "pick", "save", "cache"}, digest : SUBSET Sleepers,
                      rerank : SUBSET Sleepers, user : Sleepers \cup {"nobody"}, from : 0 .. MaxFacts]
      /\ worker'.at = (IF ok THEN "cache" ELSE "pick")
      /\ worker'.user = worker.user /\ worker'.from = worker.from
  BY <1>1 DEF WorkerFits
<1>3. CASE ~ok
  <2>1. UNCHANGED <<saved, digestPast>>
    BY <1>3 DEF SaveDigest
  <2>2. WorkerFits' /\ DoneIsUpToDate'
    BY <1>1, <1>2, <1>3, <2>1 DEF WorkerFits, DoneIsUpToDate
  <2> QED BY <1>1, <1>2, <1>3, <2>1, <2>2, WorkerGoesOn DEF DigestTyped
<1>4. CASE ok
  <2>a. PICK u \in Sleepers : u = worker.user
    BY <1>1 DEF WorkerFits
  <2>b. PICK n \in 1 .. MaxFacts : n = worker.from /\ n = facts[u]
    BY <1>1, <2>a, SleepAssumption DEF WorkerFits
  <2>1. Save(u, n)
    BY <1>4, <2>a, <2>b DEF SaveDigest
  <2>2. /\ saved' \in [Sleepers -> 0 .. MaxFacts] /\ saved'[u] = n
        /\ \A v \in Sleepers \ {u} : saved'[v] = saved[v]
        /\ digestPast' \in [saved : [Sleepers -> SUBSET (0 .. MaxFacts)], reranked : [Sleepers -> 0 .. MaxFacts],
                            raced : BOOLEAN]
        /\ n \in digestPast'.saved[u]
        /\ \A v \in Sleepers : digestPast.saved[v] \subseteq digestPast'.saved[v]
        /\ digestPast'.reranked = digestPast.reranked
        /\ ~digestPast'.raced => ~digestPast.raced /\ ~Caching
        /\ StoreWasSaved'
    BY <2>1, SaveKnown
  <2>3. DigestTyped'
    BY <1>1, <2>2 DEF DigestTyped, requestVars
  <2>4. WorkerFits'
    BY <1>1, <1>2, <1>4, <2>a, <2>b, <2>2 DEF WorkerFits
  <2>5. CacheWasSaved'
    BY <1>1, <2>2 DEF DigestInv, CacheWasSaved
  <2>6. DoneIsUpToDate'
    BY <1>1, <2>2 DEF DoneIsUpToDate, DigestTyped
  <2>7. \A r \in Requests : HasDigest(r)'
    BY <1>1, <2>2, OtherDigestsStay DEF DigestInv, requestVars
  <2>8. OneCaches'
    <3> SUFFICES ASSUME ~digestPast'.raced, tally'.faults = 0
                 PROVE  OneCaches'
      BY DEF OneCaches
    <3>1. tally.faults = 0 /\ ~digestPast.raced /\ worker.at # "cache"
          /\ \A r \in Requests, v \in Sleepers : ~CachesFor(r, v)
      BY <1>1, <2>2, CachersKnown DEF requestVars
    <3>2. \A v \in Sleepers : cache[v] \in {0, saved[v]}
      BY <3>1 DEF DigestInv, OneCaches
    <3>3. \A r \in Requests, v \in Sleepers : ~CachesFor(r, v)'
      BY <1>1, <3>1 DEF CachesFor, requestVars
    <3>4. \A v \in Sleepers : cache'[v] \in {0, saved'[v]} \/ v = u
      BY <1>1, <2>2, <3>2
    <3> QED BY <1>2, <1>4, <2>a, <2>b, <2>2, <3>3, <3>4 DEF OneCaches
  <2> QED BY <2>2, <2>3, <2>4, <2>5, <2>6, <2>7, <2>8 DEF DigestInv
<1> QED BY <1>3, <1>4

LEMMA KeepDigestKeeps ==
    ASSUME DigestInv, KeepDigest
    PROVE  DigestInv'
<1>1. WorkerFits /\ DoneIsUpToDate /\ DigestTyped
  BY DEF DigestInv
<1>a. PICK u \in Sleepers : u = worker.user
  BY <1>1 DEF KeepDigest, WorkerFits
<1>b. PICK n \in 0 .. MaxFacts : n = worker.from
  BY <1>1 DEF WorkerFits
<1>2. /\ worker.at = "cache" /\ UNCHANGED <<requestVars, facts, activity, saved, digestPast>>
      /\ cache' = [cache EXCEPT ![u] = n]
      /\ done' = [done EXCEPT !.digest = done.digest \cup {u}]
      /\ worker' = [worker EXCEPT !.at = "pick"]
  BY <1>a, <1>b DEF KeepDigest
<1>3. n = facts[u] /\ n \in digestPast.saved[u]
  BY <1>1, <1>2, <1>a, <1>b DEF WorkerFits
<1>4. /\ cache' \in [Sleepers -> 0 .. MaxFacts] /\ cache'[u] = n /\ \A v \in Sleepers \ {u} : cache'[v] = cache[v]
      /\ done' \in [digest : SUBSET Sleepers, rerank : SUBSET Sleepers]
      /\ done'.digest = done.digest \cup {u} /\ done'.rerank = done.rerank
  BY <1>1, <1>2 DEF DigestTyped
<1>5. DigestTyped'
  BY <1>1, <1>2, <1>4 DEF DigestTyped, requestVars
<1>6. WorkerFits' /\ worker'.at = "pick"
  BY <1>1, <1>2 DEF WorkerFits
<1>7. DoneIsUpToDate' /\ CacheWasSaved'
  BY <1>1, <1>2, <1>3, <1>4 DEF DigestInv, DoneIsUpToDate, CacheWasSaved
<1>8. \A r \in Requests : HasDigest(r)'
  BY <1>2, OtherDigestsStay DEF DigestInv, requestVars
<1>9. StoreWasSaved'
  BY <1>2 DEF DigestInv, StoreWasSaved
<1>10. OneCaches'
  <2> SUFFICES ASSUME ~digestPast.raced, tally.faults = 0
               PROVE  OneCaches'
    BY <1>2 DEF OneCaches, requestVars
  <2>1. /\ n = saved[u] /\ \A r \in Requests, v \in Sleepers : ~CachesFor(r, v)
        /\ \A v \in Sleepers : cache[v] \in {0, saved[v]} \/ v = u
    BY <1>2, <1>a, <1>b DEF DigestInv, OneCaches
  <2>2. \A r \in Requests, v \in Sleepers : ~CachesFor(r, v)'
    BY <1>2, <2>1 DEF CachesFor, requestVars
  <2>3. \A v \in Sleepers : cache'[v] \in {0, saved'[v]}
    BY <1>2, <1>4, <2>1
  <2> QED BY <1>6, <2>2, <2>3 DEF OneCaches
<1> QED BY <1>5, <1>6, <1>7, <1>8, <1>9, <1>10 DEF DigestInv

LEMMA RestartServerKeeps ==
    ASSUME DigestInv, NEW warm \in BOOLEAN, RestartServer(warm)
    PROVE  DigestInv'
<1>1. /\ DigestTyped /\ request' = [r \in Requests |-> Idle] /\ tally' = [tally EXCEPT !.faults = @ + 1]
      /\ cache' = (IF warm THEN saved ELSE [u \in Sleepers |-> 0])
      /\ activity' = [u \in Sleepers |-> Unseen] /\ done' = [digest |-> {}, rerank |-> {}]
      /\ worker' = Polling /\ UNCHANGED <<facts, saved, digestPast>>
  BY DEF RestartServer, DigestInv
<1>2. tally' \in [started : Nat, faults : Nat, overlapped : BOOLEAN] /\ tally'.faults # 0
  BY <1>1 DEF DigestTyped
<1>3. cache' \in [Sleepers -> 0 .. MaxFacts] /\ \A u \in Sleepers : cache'[u] \in {0, saved[u]}
  BY <1>1, SleepAssumption DEF DigestTyped
<1>4. DigestTyped'
  BY <1>1, <1>2, <1>3 DEF DigestTyped
<1>5. WorkerFits' /\ DoneIsUpToDate' /\ StoreWasSaved'
  BY <1>1, SleepAssumption DEF WorkerFits, Polling, DoneIsUpToDate, StoreWasSaved, DigestInv
<1>6. CacheWasSaved'
  BY <1>1, <1>3 DEF CacheWasSaved, StoreWasSaved, DigestInv
<1>7. OneCaches'
  BY <1>2 DEF OneCaches
<1>8. \A r \in Requests : HasDigest(r)'
  BY <1>1 DEF HasDigest, Idle
<1> QED BY <1>4, <1>5, <1>6, <1>7, <1>8 DEF DigestInv

LEMMA DigestInit == InitRequests /\ InitDigests => DigestInv
<1> SUFFICES ASSUME InitRequests, InitDigests
             PROVE  DigestInv
  OBVIOUS
<1>1. /\ facts \in [Sleepers -> {0, 1}] /\ saved \in [Sleepers -> {0, 1}] /\ cache = saved
      /\ \A u \in Sleepers : saved[u] <= facts[u]
      /\ activity = [u \in Sleepers |-> Unseen] /\ done = [digest |-> {}, rerank |-> {}]
      /\ worker = Polling
      /\ digestPast = [saved |-> [u \in Sleepers |-> {saved[u]} \ {0}],
                       reranked |-> [u \in Sleepers |-> 0], raced |-> FALSE]
  BY DEF InitDigests
<1>2. \A r \in Requests : request[r].todo = <<>>
  BY DEF InitRequests, Idle
<1>3. 0 \in 0 .. MaxFacts /\ 1 \in 0 .. MaxFacts
  BY SleepAssumption
<1>4. /\ digestPast.saved = [u \in Sleepers |-> {saved[u]} \ {0}] /\ digestPast.raced = FALSE
      /\ digestPast \in [saved : [Sleepers -> SUBSET (0 .. MaxFacts)], reranked : [Sleepers -> 0 .. MaxFacts],
                         raced : BOOLEAN]
  <2>1. [u \in Sleepers |-> {saved[u]} \ {0}] \in [Sleepers -> SUBSET (0 .. MaxFacts)]
    BY <1>1, <1>3
  <2>2. [u \in Sleepers |-> 0] \in [Sleepers -> 0 .. MaxFacts]
    BY <1>3
  <2> QED BY <1>1, <2>1, <2>2
<1>5. tally \in [started : Nat, faults : Nat, overlapped : BOOLEAN] /\ DOMAIN request = Requests
  BY DEF InitRequests
<1>6. DigestTyped
  BY <1>1, <1>3, <1>4, <1>5 DEF DigestTyped
<1>7. WorkerFits
  BY <1>1, <1>3 DEF WorkerFits, Polling
<1>8. StoreWasSaved /\ CacheWasSaved
  BY <1>1, <1>4 DEF StoreWasSaved, CacheWasSaved
<1>9. OneCaches
  BY <1>1, <1>2, DigestLists DEF OneCaches, CachesFor, Polling
<1>10. DoneIsUpToDate /\ \A r \in Requests : HasDigest(r)
  BY <1>1, <1>2 DEF DoneIsUpToDate, HasDigest
<1> QED BY <1>6, <1>7, <1>8, <1>9, <1>10 DEF DigestInv

LEMMA DigestNext == DigestInv /\ [NextDigests]_<<requestVars, digestVars>> => DigestInv'
<1> SUFFICES ASSUME DigestInv, [NextDigests]_<<requestVars, digestVars>>
             PROVE  DigestInv'
  OBVIOUS
<1>1. ASSUME NEW u \in Sleepers, NEW ok \in BOOLEAN,
             ProcessUser(u, ok) \/ GenerateDigest(u, ok) \/ Rerank(u, ok)
      PROVE  DigestInv'
  BY <1>1, ProcessUserKeeps, GenerateDigestKeeps, RerankKeeps
<1>2. CASE TimePasses \/ ListIdle \/ KeepDigest \/ NextCycle
  BY <1>2, WorkerWaits, ListIdleKeeps, KeepDigestKeeps
<1>3. ASSUME NEW ok \in BOOLEAN, SaveDigest(ok) \/ RestartServer(ok)
      PROVE  DigestInv'
  BY <1>3, SaveDigestKeeps, RestartServerKeeps
<1>4. ASSUME NEW r \in Requests, NEW u \in Sleepers, RefreshDigest(r, u) \/ GetDigest(r, u)
      PROVE  DigestInv'
  BY <1>4, DigestStarts
<1>5. ASSUME NEW r \in Requests,
             \/ Gather(r) \/ StoreDigest(r) \/ CacheDigest(r) \/ CacheRead(r) \/ DigestRead(r)
             \/ CommandFails(r) /\ UNCHANGED digestVars
      PROVE  DigestInv'
  BY <1>5, GatherKeeps, StoreDigestKeeps, CacheDigestKeeps, CacheReadKeeps, DigestReadKeeps, DigestRefused
<1>6. CASE UNCHANGED <<requestVars, digestVars>>
  <2>1. UNCHANGED <<request, tally, facts, activity, done, saved, cache, worker, digestPast>>
    BY <1>6 DEF requestVars, digestVars
  <2>2. \A r \in Requests : HasDigest(r)'
    BY <2>1, OtherDigestsStay DEF DigestInv
  <2>3. \A r \in Requests, u \in Sleepers : (CachesFor(r, u)' <=> CachesFor(r, u)) /\ Loc(r)' = Loc(r)
    BY <2>1 DEF CachesFor, Loc
  <2>4. OneCaches'
    BY <2>1, <2>3 DEF DigestInv, OneCaches
  <2> QED BY <2>1, <2>2, <2>4
          DEF DigestInv, DigestTyped, WorkerFits, StoreWasSaved, CacheWasSaved, DoneIsUpToDate
<1> QED BY <1>1, <1>2, <1>3, <1>4, <1>5, <1>6 DEF NextDigests

(* Graphs, activities, digests in Redis and in the cache have their types. *)
THEOREM DigestTypesCorrect == DigestSpec => []DigestTypeOK
<1>1. DigestInv => DigestTypeOK
  BY DEF DigestInv, DigestTyped, DigestTypeOK
<1> QED BY <1>1, DigestInit, DigestNext, PTL DEF DigestSpec

(* Whatever requests overlap, fail and are lost with the server: the cache  *)
(* serves what was saved; without faults and races it serves what Redis has *)
(* now; and a user that the worker counts as done has a digest and scores   *)
(* made from all the facts (sleep_time_consolidation, process_episode,      *)
(* get_memory_digest, refresh_memory_digest).                               *)
THEOREM DigestsAreCurrent == DigestSpec => []DigestsHold
<1>1. DigestInv => DigestsHold
  <2> SUFFICES ASSUME DigestInv
               PROVE  DigestsHold
    OBVIOUS
  <2>1. CacheIsStore
    BY CachersKnown DEF DigestInv, OneCaches, CacheIsStore
  <2> QED BY <2>1 DEF DigestsHold, DigestInv
<1> QED BY <1>1, DigestInit, DigestNext, PTL DEF DigestSpec

-----------------------------------------------------------------------------
(* Memory regions: what a request has still to do.                          *)

Call(do, id, how) == [do |-> do, id |-> id, how |-> how]

RegionLoc == [owner : RegionAgents \cup {Nobody}, expires : Expiries,
              agents : SUBSET RegionAgents, old : SUBSET RegionIds]

RegionTyped ==
    /\ regions \in [RegionIds -> RegionAgents \cup {Nobody}]
    /\ regionIndex \subseteq RegionIds
    /\ agentRegions \in [RegionAgents -> SUBSET RegionIds]
    /\ acl \in [Pairs -> {NoEntry} \cup Expiries]
    /\ aclIndex \in [RegionIds -> SUBSET RegionAgents]
    /\ regionClock \in Nat
    /\ regionPast \in [used : SUBSET RegionIds, deleted : SUBSET RegionIds,
                       granted : [Pairs -> {NoEntry} \cup Expiries],
                       swept : SUBSET Pairs, disowned : SUBSET RegionIds]
    /\ tally \in [started : Nat, faults : Nat, overlapped : BOOLEAN]
    /\ DOMAIN request = Requests

\* A handler has read the document of region g.
Looked(loc, g) ==
    /\ loc.owner \in RegionAgents /\ g \in regionPast.used
    /\ loc.owner = regions[g] \/ g \in regionPast.deleted
    /\ ~tally.overlapped => g \notin regionPast.deleted

\* A listing may take a's entry of g away without a grant or an owner losing g.
Removable(g, a) ==
    /\ g \in regionPast.used
    /\ g \in regionPast.deleted \/ regions[g] # a
    /\ \/ g \in regionPast.deleted \/ <<g, a>> \in regionPast.swept
       \/ regionPast.granted[<<g, a>>] = NoEntry \/ expired(regionPast.granted[<<g, a>>])

\* The entries that a listing has still to look at, and the removal.
ProbesFor(a) == [do : {"probe"}, id : RegionIds, how : {a}]
EndsInSweep(todo, a) ==
    /\ todo \in Seq(ProbesFor(a) \cup {Call("sweep", a, "-")}) /\ todo # <<>>
    /\ todo[Len(todo)] = Call("sweep", a, "-")
    /\ \A i \in 1 .. Len(todo) - 1 : todo[i] \in ProbesFor(a)
Lists(todo, loc, a) ==
    /\ \/ todo = <<Call("reach", a, "-"), Call("sweep", a, "-")>> /\ loc.old = {}
       \/ EndsInSweep(todo, a)
    /\ \A g \in loc.old : Removable(g, a)

Logged == {"region_created", "region_access_granted", "region_access_revoked"}

\* Handlers that have not read the document of g, and those that have.
Asks(todo, g) ==
    \/ \E x \in Logged : todo = <<Call("regionLog", g, x)>>
    \/ \E a \in RegionAgents : /\ todo = <<Call("regionSet", g, a), Call("regionLog", g, "region_created")>>
                               /\ g \notin regionPast.used
    \/ \E who \in RegionAgents \cup {"admin"} :
         \/ todo = <<Call("regionOwned", g, who), Call("regionPut", g, "-")>>
         \/ \E a \in RegionAgents :
              \/ todo = <<Call("regionOwned", g, who), Call("aclSet", g, a), Call("regionLog", g, "region_access_granted")>>
              \/ todo = <<Call("regionOwned", g, who), Call("aclDrop", g, a), Call("regionLog", g, "region_access_revoked")>>
    \/ todo = <<Call("regionNeed", g, "-"), Call("regionNeed", g, "-"), Call("aclList", g, "-"), Call("regionDrop", g, "-")>>
Knows(todo, loc, g) ==
    \/ todo = <<Call("regionPut", g, "-")>>
    \/ \E a \in RegionAgents :
         \/ /\ todo = <<Call("aclSet", g, a), Call("regionLog", g, "region_access_granted")>>
            /\ a # loc.owner
         \/ todo = <<Call("aclDrop", g, a), Call("regionLog", g, "region_access_revoked")>>
    \/ todo = <<Call("regionNeed", g, "-"), Call("aclList", g, "-"), Call("regionDrop", g, "-")>>
    \/ todo = <<Call("aclList", g, "-"), Call("regionDrop", g, "-")>>
    \/ todo = <<Call("regionDrop", g, "-")>> /\ (~tally.overlapped => loc.agents = aclIndex[g])

PlaceOf(todo, loc) ==
    \/ todo = <<>>
    \/ loc \in RegionLoc /\ \E g \in RegionIds : Asks(todo, g) \/ (Looked(loc, g) /\ Knows(todo, loc, g))
    \/ loc \in RegionLoc /\ \E a \in RegionAgents : Lists(todo, loc, a)

Places == \A r \in Requests : PlaceOf(request[r].todo, Loc(r))

OneCreator == \A q, r \in Requests : At(q, "regionSet") /\ At(r, "regionSet") /\ This(q).id = This(r).id => q = r
OneRequest == ~tally.overlapped => \A q, r \in Busy : q = r

UnusedAreNew ==
    \A g \in RegionIds \ regionPast.used :
      /\ g \notin regionPast.deleted /\ regions[g] = Nobody
      /\ \A a \in RegionAgents :
           acl[<<g, a>>] = NoEntry /\ regionPast.granted[<<g, a>>] = NoEntry /\ g \notin agentRegions[a]

LiveGrants ==
    \A g \in RegionIds, a \in RegionAgents :
      LET e == regionPast.granted[<<g, a>>] IN
      e # NoEntry /\ g \notin regionPast.deleted /\ <<g, a>> \notin regionPast.swept /\ ~expired(e) =>
        acl[<<g, a>>] = e /\ g \in agentRegions[a] /\ a \in aclIndex[g]

LiveOwners ==
    \A g \in RegionIds : g \notin regionPast.deleted /\ regions[g] # Nobody =>
      /\ acl[<<g, regions[g]>>] = NoEntry
      /\ g \notin regionPast.disowned => g \in agentRegions[regions[g]]

\* The indexes of a region know of every entry and of every agent's list.
IndexesAgree ==
    \A g \in RegionIds, a \in RegionAgents : g \notin regionPast.deleted =>
      /\ acl[<<g, a>>] # NoEntry => a \in aclIndex[g]
      /\ g \in agentRegions[a] => a = regions[g] \/ a \in aclIndex[g]

RegionStore == UnusedAreNew /\ LiveGrants /\ LiveOwners /\ IndexesAgree /\ DeletedRegionsAreGone
RegionInv == RegionTyped /\ Places /\ OneCreator /\ OneRequest /\ RegionStore

-----------------------------------------------------------------------------

LEMMA TwoCommands ==
    ASSUME NEW a, NEW b
    PROVE  <<a>> \o <<b>> = <<a, b>>
<1> DEFINE S == {a, b}
<1>1. <<a>> \in Seq(S) /\ <<b>> \in Seq(S) /\ <<a, b>> \in Seq(S)
  OBVIOUS
<1>2. <<a>> \o <<b>> \in Seq(S) /\ Len(<<a>> \o <<b>>) = 2 /\ Len(<<a, b>>) = 2
  BY <1>1
<1>3. \A i \in 1 .. 2 : (<<a>> \o <<b>>)[i] = <<a, b>>[i]
  BY <1>1
<1> QED BY <1>1, <1>2, <1>3, SeqEqual, Zenon

LEMMA FourCommands ==
    ASSUME NEW a, NEW b, NEW c, NEW d
    PROVE  <<a, b, c>> \o <<d>> = <<a, b, c, d>>
<1> DEFINE S == {a, b, c, d}
<1>1. <<a, b, c>> \in Seq(S) /\ <<d>> \in Seq(S) /\ <<a, b, c, d>> \in Seq(S)
  OBVIOUS
<1>2. /\ <<a, b, c>> \o <<d>> \in Seq(S) /\ Len(<<a, b, c>> \o <<d>>) = 4
      /\ Len(<<a, b, c, d>>) = 4
  BY <1>1
<1>3. \A i \in 1 .. 4 : (<<a, b, c>> \o <<d>>)[i] = <<a, b, c, d>>[i]
  BY <1>1
<1> QED BY <1>1, <1>2, <1>3, SeqEqual, Zenon

(* The head and the rest of a short list. *)
LEMMA ShortLists ==
    ASSUME NEW a, NEW b, NEW c, NEW d
    PROVE  /\ Head(<<a>>) = a /\ Tail(<<a>>) = <<>>
           /\ Head(<<a, b>>) = a /\ Tail(<<a, b>>) = <<b>>
           /\ Head(<<a, b, c>>) = a /\ Tail(<<a, b, c>>) = <<b, c>>
           /\ Head(<<a, b, c, d>>) = a /\ Tail(<<a, b, c, d>>) = <<b, c, d>>
OBVIOUS

(* Where a request is, by its next command. *)
LEMMA AtRegion ==
    ASSUME NEW r \in Requests, PlaceOf(request[r].todo, Loc(r)), NEW d, At(r, d)
    PROVE  /\ r \in Busy /\ Loc(r) \in RegionLoc
           /\ \/ \E g \in RegionIds :
                   \/ d = "regionLog" /\ This(r).id = g /\ Rest(r) = <<>>
                   \/ \E a \in RegionAgents :
                        /\ d = "regionSet" /\ This(r).id = g /\ This(r).how = a /\ g \notin regionPast.used
                        /\ Rest(r) = <<Call("regionLog", g, "region_created")>>
                   \/ /\ d = "regionOwned" /\ This(r).id = g
                      /\ \/ Rest(r) = <<Call("regionPut", g, "-")>>
                         \/ \E a \in RegionAgents :
                              \/ Rest(r) = <<Call("aclSet", g, a), Call("regionLog", g, "region_access_granted")>>
                              \/ Rest(r) = <<Call("aclDrop", g, a), Call("regionLog", g, "region_access_revoked")>>
                   \/ /\ d = "regionNeed" /\ This(r).id = g
                      /\ \/ Rest(r) = <<Call("regionNeed", g, "-"), Call("aclList", g, "-"), Call("regionDrop", g, "-")>>
                         \/ Rest(r) = <<Call("aclList", g, "-"), Call("regionDrop", g, "-")>>
                   \/ /\ This(r).id = g /\ Looked(Loc(r), g)
                      /\ \/ d = "regionPut" /\ Rest(r) = <<>>
                         \/ \E a \in RegionAgents :
                              /\ This(r).how = a
                              /\ \/ /\ d = "aclSet" /\ a # Loc(r).owner
                                    /\ Rest(r) = <<Call("regionLog", g, "region_access_granted")>>
                                 \/ d = "aclDrop" /\ Rest(r) = <<Call("regionLog", g, "region_access_revoked")>>
                         \/ d = "aclList" /\ Rest(r) = <<Call("regionDrop", g, "-")>>
                         \/ /\ d = "regionDrop" /\ Rest(r) = <<>>
                            /\ ~tally.overlapped => Loc(r).agents = aclIndex[g]
              \/ \E a \in RegionAgents :
                   /\ \A g \in Loc(r).old : Removable(g, a)
                   /\ \/ /\ d = "reach" /\ This(r).id = a /\ Rest(r) = <<Call("sweep", a, "-")>>
                      \/ d = "probe" /\ This(r) \in ProbesFor(a) /\ EndsInSweep(Rest(r), a)
                      \/ d = "sweep" /\ This(r).id = a /\ Rest(r) = <<>>
<1> DEFINE t == request[r].todo
<1>1. r \in Busy /\ t # <<>> /\ Head(t).do = d
  BY DEF At, Busy
<1>2. Loc(r) \in RegionLoc
  BY <1>1 DEF PlaceOf
<1>3. CASE \E g \in RegionIds : Asks(t, g)
  <2>1. PICK g \in RegionIds : Asks(t, g)
    BY <1>3
  <2>2. CASE \E x \in Logged : t = <<Call("regionLog", g, x)>>
    BY <1>1, <1>2, <2>2, ShortLists DEF This, Rest, Call
  <2>3. CASE \E a \in RegionAgents :
               /\ t = <<Call("regionSet", g, a), Call("regionLog", g, "region_created")>> /\ g \notin regionPast.used
    <3>1. PICK a \in RegionAgents : t = <<Call("regionSet", g, a), Call("regionLog", g, "region_created")>>
      BY <2>3
    <3>2. Head(t) = Call("regionSet", g, a) /\ Tail(t) = <<Call("regionLog", g, "region_created")>>
      BY <3>1, ShortLists
    <3>3. d = "regionSet" /\ This(r).id = g /\ This(r).how = a /\ g \notin regionPast.used
          /\ Rest(r) = <<Call("regionLog", g, "region_created")>>
      BY <1>1, <2>3, <3>2 DEF This, Rest, Call
    <3> QED BY <1>1, <1>2, <3>3
  <2>4. CASE \E who \in RegionAgents \cup {"admin"} :
               \/ t = <<Call("regionOwned", g, who), Call("regionPut", g, "-")>>
               \/ \E a \in RegionAgents :
                    \/ t = <<Call("regionOwned", g, who), Call("aclSet", g, a), Call("regionLog", g, "region_access_granted")>>
                    \/ t = <<Call("regionOwned", g, who), Call("aclDrop", g, a), Call("regionLog", g, "region_access_revoked")>>
    <3>1. PICK who \in RegionAgents \cup {"admin"} :
               \/ t = <<Call("regionOwned", g, who), Call("regionPut", g, "-")>>
               \/ \E a \in RegionAgents :
                    \/ t = <<Call("regionOwned", g, who), Call("aclSet", g, a), Call("regionLog", g, "region_access_granted")>>
                    \/ t = <<Call("regionOwned", g, who), Call("aclDrop", g, a), Call("regionLog", g, "region_access_revoked")>>
      BY <2>4
    <3>2. /\ Head(t) = Call("regionOwned", g, who)
          /\ \/ Tail(t) = <<Call("regionPut", g, "-")>>
             \/ \E a \in RegionAgents :
                  \/ Tail(t) = <<Call("aclSet", g, a), Call("regionLog", g, "region_access_granted")>>
                  \/ Tail(t) = <<Call("aclDrop", g, a), Call("regionLog", g, "region_access_revoked")>>
      <4>1. ASSUME t = <<Call("regionOwned", g, who), Call("regionPut", g, "-")>>
            PROVE  Head(t) = Call("regionOwned", g, who) /\ Tail(t) = <<Call("regionPut", g, "-")>>
        BY <4>1, ShortLists
      <4>2. ASSUME NEW c, NEW x, t = <<Call("regionOwned", g, who), c, x>>
            PROVE  Head(t) = Call("regionOwned", g, who) /\ Tail(t) = <<c, x>>
        BY <4>2, ShortLists
      <4> QED BY <3>1, <4>1, <4>2
    <3>3. d = "regionOwned" /\ This(r).id = g
      BY <1>1, <3>2 DEF This, Call
    <3> QED BY <1>1, <1>2, <3>2, <3>3 DEF Rest
  <2>5. CASE t = <<Call("regionNeed", g, "-"), Call("regionNeed", g, "-"), Call("aclList", g, "-"), Call("regionDrop", g, "-")>>
    <3>1. Head(t) = Call("regionNeed", g, "-") /\ Tail(t) = <<Call("regionNeed", g, "-"), Call("aclList", g, "-"), Call("regionDrop", g, "-")>>
      BY <2>5, ShortLists
    <3> QED BY <1>1, <1>2, <3>1 DEF This, Rest, Call
  <2> QED BY <2>1, <2>2, <2>3, <2>4, <2>5 DEF Asks
<1>4. CASE \E g \in RegionIds : Looked(Loc(r), g) /\ Knows(t, Loc(r), g)
  <2>1. PICK g \in RegionIds : Looked(Loc(r), g) /\ Knows(t, Loc(r), g)
    BY <1>4
  <2>2. CASE t = <<Call("regionPut", g, "-")>>
    BY <1>1, <1>2, <2>1, <2>2, ShortLists DEF This, Rest, Call
  <2>3. CASE \E a \in RegionAgents :
               \/ /\ t = <<Call("aclSet", g, a), Call("regionLog", g, "region_access_granted")>>
                  /\ a # Loc(r).owner
               \/ t = <<Call("aclDrop", g, a), Call("regionLog", g, "region_access_revoked")>>
    <3>1. PICK a \in RegionAgents :
               \/ /\ t = <<Call("aclSet", g, a), Call("regionLog", g, "region_access_granted")>>
                  /\ a # Loc(r).owner
               \/ t = <<Call("aclDrop", g, a), Call("regionLog", g, "region_access_revoked")>>
      BY <2>3
    <3>2. \/ /\ Head(t) = Call("aclSet", g, a) /\ Tail(t) = <<Call("regionLog", g, "region_access_granted")>>
             /\ a # Loc(r).owner
          \/ Head(t) = Call("aclDrop", g, a) /\ Tail(t) = <<Call("regionLog", g, "region_access_revoked")>>
      <4>1. ASSUME NEW c, NEW x, t = <<c, x>>
            PROVE  Head(t) = c /\ Tail(t) = <<x>>
        BY <4>1, ShortLists
      <4> QED BY <3>1, <4>1
    <3>3. /\ This(r).id = g /\ This(r).how = a
          /\ \/ /\ d = "aclSet" /\ a # Loc(r).owner
                /\ Rest(r) = <<Call("regionLog", g, "region_access_granted")>>
             \/ d = "aclDrop" /\ Rest(r) = <<Call("regionLog", g, "region_access_revoked")>>
      BY <1>1, <3>2 DEF This, Rest, Call
    <3> QED BY <1>1, <1>2, <2>1, <3>3
  <2>4. CASE t = <<Call("regionNeed", g, "-"), Call("aclList", g, "-"), Call("regionDrop", g, "-")>>
    <3>1. Head(t) = Call("regionNeed", g, "-") /\ Tail(t) = <<Call("aclList", g, "-"), Call("regionDrop", g, "-")>>
      BY <2>4, ShortLists
    <3> QED BY <1>1, <1>2, <3>1 DEF This, Rest, Call
  <2>5. CASE t = <<Call("aclList", g, "-"), Call("regionDrop", g, "-")>>
    <3>1. Head(t) = Call("aclList", g, "-") /\ Tail(t) = <<Call("regionDrop", g, "-")>>
      BY <2>5, ShortLists
    <3> QED BY <1>1, <1>2, <2>1, <3>1 DEF This, Rest, Call
  <2>6. CASE t = <<Call("regionDrop", g, "-")>> /\ (~tally.overlapped => Loc(r).agents = aclIndex[g])
    <3>1. Head(t) = Call("regionDrop", g, "-") /\ Tail(t) = <<>>
      BY <2>6, ShortLists
    <3> QED BY <1>1, <1>2, <2>1, <2>6, <3>1 DEF This, Rest, Call
  <2> QED BY <2>1, <2>2, <2>3, <2>4, <2>5, <2>6 DEF Knows
<1>5. CASE \E a \in RegionAgents : Lists(t, Loc(r), a)
  <2>1. PICK a \in RegionAgents : Lists(t, Loc(r), a)
    BY <1>5
  <2>2. CASE t = <<Call("reach", a, "-"), Call("sweep", a, "-")>>
    BY <1>1, <1>2, <2>1, <2>2 DEF Lists, This, Rest, Call
  <2>3. CASE EndsInSweep(t, a)
    <3> DEFINE S == ProbesFor(a) \cup {Call("sweep", a, "-")}
    <3>0. t \in Seq(S) /\ t # <<>>
      BY <2>3 DEF EndsInSweep
    <3> HIDE DEF t, S
    <3>1. t \in Seq(S) /\ Len(t) \in Nat \ {0} /\ Head(t) = t[1] /\ Tail(t) \in Seq(S) /\ Len(Tail(t)) = Len(t) - 1
          /\ \A i \in 1 .. Len(t) - 1 : Tail(t)[i] = t[i + 1]
      BY <3>0
    <3>4. Len(<<>>) = 0 /\ \A q \in Seq(S) : q # <<>> => Len(q) \in Nat \ {0}
      BY EmptySeq
    <3>2. CASE Len(t) = 1
      <4>1. Tail(t) = <<>>
        <5>1. Tail(t) \in Seq(S) /\ Len(Tail(t)) \notin Nat \ {0}
          BY <3>1, <3>2
        <5> QED BY <3>4, <5>1, Zenon
      <4>2. Head(t) = Call("sweep", a, "-")
        BY <2>3, <3>1, <3>2 DEF EndsInSweep
      <4> QED BY <1>1, <1>2, <2>1, <4>1, <4>2 DEF Lists, This, Rest, Call, t
    <3>3. CASE Len(t) > 1
      <4>1. Head(t) \in ProbesFor(a)
        BY <2>3, <3>1, <3>3 DEF EndsInSweep
      <4>2. EndsInSweep(Tail(t), a)
        <5>1. t[Len(t)] = Call("sweep", a, "-")
          BY <2>3 DEF EndsInSweep
        <5>3. Tail(t) # <<>>
          <6>1. Len(Tail(t)) # 0
            BY <3>1, <3>3
          <6> QED BY <3>4, <6>1, Zenon
        <5>4. Tail(t)[Len(Tail(t))] = t[Len(t)]
          <6>1. Len(t) - 1 \in 1 .. Len(t) - 1 /\ (Len(t) - 1) + 1 = Len(t)
            BY <3>1, <3>3
          <6> QED BY <3>1, <6>1
        <5>2. \A i \in 1 .. Len(Tail(t)) - 1 : Tail(t)[i] \in ProbesFor(a)
          BY <2>3, <3>1, <3>3 DEF EndsInSweep
        <5> QED BY <3>1, <5>1, <5>2, <5>3, <5>4 DEF EndsInSweep, S
      <4> QED BY <1>1, <1>2, <2>1, <4>1, <4>2 DEF Lists, This, Rest, ProbesFor, t
    <3> QED BY <3>1, <3>2, <3>3
  <2> QED BY <2>1, <2>2, <2>3 DEF Lists
<1> QED BY <1>1, <1>3, <1>4, <1>5 DEF PlaceOf

(* Nothing catches an error. *)
LEMMA RegionErrors ==
    ASSUME NEW r \in Requests, PlaceOf(request[r].todo, Loc(r)), r \in Busy
    PROVE  Unwound(Rest(r)) = <<>>
<1>1. PICK d : At(r, d)
  BY DEF At
<1>2. ASSUME NEW a, EndsInSweep(Rest(r), a)
      PROVE  \A i \in DOMAIN Rest(r) : Rest(r)[i].do # "catch"
  <2> DEFINE S == ProbesFor(a) \cup {Call("sweep", a, "-")}
  <2>1. Rest(r) \in Seq(S) /\ \A c \in S : c.do # "catch"
    BY <1>2 DEF EndsInSweep, ProbesFor, Call
  <2> HIDE DEF S
  <2> QED BY <2>1
<1>3. \A g : \A c \in {Call("regionPut", g, "-"), Call("regionDrop", g, "-"), Call("aclList", g, "-"), Call("regionNeed", g, "-")} :
        c.do # "catch"
  BY DEF Call
<1>4. \A g, a : Call("aclSet", g, a).do # "catch" /\ Call("aclDrop", g, a).do # "catch" /\ Call("regionLog", g, a).do # "catch"
                /\ Call("sweep", g, a).do # "catch"
  BY DEF Call
<1>5. \A x, y, z : /\ \A i \in DOMAIN <<x>> : <<x>>[i] = x
                   /\ \A i \in DOMAIN <<x, y>> : <<x, y>>[i] \in {x, y}
                   /\ \A i \in DOMAIN <<x, y, z>> : <<x, y, z>>[i] \in {x, y, z}
  OBVIOUS
<1>6. \A i \in DOMAIN Rest(r) : Rest(r)[i].do # "catch"
  <2>1. CASE Rest(r) = <<>>
    BY <2>1
  <2>2. CASE \E a : EndsInSweep(Rest(r), a)
    BY <1>2, <2>2
  <2>3. CASE \E g, a : Rest(r) \in {<<Call("regionLog", g, a)>>, <<Call("sweep", g, a)>>}
    BY <1>4, <1>5, <2>3
  <2>4. CASE \E g : Rest(r) \in {<<Call("regionPut", g, "-")>>, <<Call("regionDrop", g, "-")>>,
                                 <<Call("aclList", g, "-"), Call("regionDrop", g, "-")>>}
    BY <1>3, <1>5, <2>4
  <2>5. CASE \E g : Rest(r) = <<Call("regionNeed", g, "-"), Call("aclList", g, "-"), Call("regionDrop", g, "-")>>
    <3>1. PICK g : Rest(r) = <<Call("regionNeed", g, "-"), Call("aclList", g, "-"), Call("regionDrop", g, "-")>>
      BY <2>5
    <3>2. \A i \in DOMAIN Rest(r) : Rest(r)[i] \in {Call("regionNeed", g, "-"), Call("aclList", g, "-"), Call("regionDrop", g, "-")}
      BY <1>5, <3>1
    <3> QED BY <1>3, <3>2
  <2>6. CASE \E g, a, x : Rest(r) \in {<<Call("aclSet", g, a), Call("regionLog", g, x)>>,
                                       <<Call("aclDrop", g, a), Call("regionLog", g, x)>>}
    <3>1. PICK g, a, x : Rest(r) \in {<<Call("aclSet", g, a), Call("regionLog", g, x)>>,
                                       <<Call("aclDrop", g, a), Call("regionLog", g, x)>>}
      BY <2>6
    <3>2. \A i \in DOMAIN Rest(r) : Rest(r)[i] \in {Call("aclSet", g, a), Call("aclDrop", g, a), Call("regionLog", g, x)}
      BY <1>5, <3>1
    <3> QED BY <1>4, <3>2
  <2>7. \/ \E g \in RegionIds :
             \/ Rest(r) = <<>>
             \/ \E x : Rest(r) = <<Call("regionLog", g, x)>>
             \/ Rest(r) = <<Call("regionPut", g, "-")>>
             \/ \E a, x : Rest(r) = <<Call("aclSet", g, a), Call("regionLog", g, x)>>
             \/ \E a, x : Rest(r) = <<Call("aclDrop", g, a), Call("regionLog", g, x)>>
             \/ Rest(r) = <<Call("regionNeed", g, "-"), Call("aclList", g, "-"), Call("regionDrop", g, "-")>>
             \/ Rest(r) = <<Call("aclList", g, "-"), Call("regionDrop", g, "-")>>
             \/ Rest(r) = <<Call("regionDrop", g, "-")>>
        \/ \E a \in RegionAgents :
             Rest(r) = <<Call("sweep", a, "-")>> \/ EndsInSweep(Rest(r), a) \/ Rest(r) = <<>>
    BY <1>1, AtRegion, Zenon
  <2> QED BY <2>1, <2>2, <2>3, <2>4, <2>5, <2>6, <2>7
<1> QED BY <1>6 DEF Unwound

(* A request stays where it is, beside steps that take back nothing it has  *)
(* read and that leave alone what its listing may take away.                *)
LEMMA OtherRegionsStay ==
    ASSUME NEW todo, NEW loc, PlaceOf(todo, loc),
           regionPast.used \subseteq regionPast'.used, regionPast.deleted \subseteq regionPast'.deleted,
           \A g \in RegionIds : \A a : todo = <<Call("regionSet", g, a), Call("regionLog", g, "region_created")>> =>
             (g \in regionPast'.used => g \in regionPast.used),
           \A g \in regionPast.used : regions'[g] = regions[g] \/ g \in regionPast'.deleted,
           ~tally'.overlapped => ~tally.overlapped /\ (todo # <<>> =>
             regionPast'.deleted = regionPast.deleted /\ aclIndex' = aclIndex),
           \A g \in RegionIds, a \in RegionAgents :
             Lists(todo, loc, a) /\ g \in loc.old /\ Removable(g, a) => Removable(g, a)'
    PROVE  PlaceOf(todo, loc)'
<1>1. CASE todo = <<>>
  BY <1>1 DEF PlaceOf
<1>2. CASE todo # <<>> /\ loc \in RegionLoc /\ \E g \in RegionIds : Asks(todo, g)
  <2>1. PICK g \in RegionIds : Asks(todo, g)
    BY <1>2
  <2>2. Asks(todo, g)'
    BY <2>1 DEF Asks
  <2> QED BY <1>2, <2>2 DEF PlaceOf
<1>3. CASE todo # <<>> /\ loc \in RegionLoc /\ \E g \in RegionIds : Looked(loc, g) /\ Knows(todo, loc, g)
  <2>1. PICK g \in RegionIds : Looked(loc, g) /\ Knows(todo, loc, g)
    BY <1>3
  <2>2. Looked(loc, g)'
    BY <1>3, <2>1 DEF Looked
  <2>3. Knows(todo, loc, g)'
    BY <1>3, <2>1 DEF Knows
  <2> QED BY <1>3, <2>2, <2>3 DEF PlaceOf
<1>4. CASE loc \in RegionLoc /\ \E a \in RegionAgents : Lists(todo, loc, a)
  <2>1. PICK a \in RegionAgents : Lists(todo, loc, a)
    BY <1>4
  <2>2. loc.old \subseteq RegionIds
    BY <1>4 DEF RegionLoc
  <2>3. Lists(todo, loc, a)'
    BY <2>1, <2>2 DEF Lists, EndsInSweep
  <2> QED BY <1>4, <2>3 DEF PlaceOf
<1> QED BY <1>1, <1>2, <1>3, <1>4 DEF PlaceOf

(* A request goes on or ends, and the store of regions stays as it is but   *)
(* for the audit rows.                                                      *)
LEMMA RegionGoesOn ==
    ASSUME RegionInv, NEW r \in Requests, NEW t, NEW loc, Continue(r, t, loc), PlaceOf(t, loc),
           UNCHANGED <<regions, regionIndex, agentRegions, acl, aclIndex, regionClock, regionPast>>,
           tally' \in [started : Nat, faults : Nat, overlapped : BOOLEAN],
           ~tally'.overlapped => ~tally.overlapped /\ (t # <<>> => Busy \subseteq {r}),
           \A q \in Requests \ {r} : At(q, "regionSet") /\ t # <<>> /\ Head(t).do = "regionSet" => This(q).id # Head(t).id
    PROVE  RegionInv'
<1> DEFINE x == IF t = <<>> THEN Idle ELSE [todo |-> t, loc |-> loc]
<1>1. request' = [request EXCEPT ![r] = x] /\ DOMAIN request = Requests
  BY DEF Continue, RegionInv, RegionTyped
<1>2. request'[r] = x /\ DOMAIN request' = Requests /\ \A q \in Requests \ {r} : request'[q] = request[q]
  BY <1>1
<1>3. request'[r].todo = t /\ (t # <<>> => Loc(r)' = loc)
  BY <1>2 DEF Idle, Loc
<1> HIDE DEF x
<1>4. \A g, a : Removable(g, a)' <=> Removable(g, a)
  BY DEF Removable, expired
<1>5. \A todo, l : PlaceOf(todo, l) => PlaceOf(todo, l)'
  BY <1>4, OtherRegionsStay
<1>6. Places'
  <2>1. PlaceOf(request[r].todo, Loc(r))'
    <3>1. CASE t = <<>>
      BY <1>3, <3>1 DEF PlaceOf
    <3>2. CASE t # <<>>
      BY <1>3, <1>5, <3>2
    <3> QED BY <3>1, <3>2
  <2>2. ASSUME NEW q \in Requests \ {r}
        PROVE  PlaceOf(request[q].todo, Loc(q))'
    BY <1>2, <1>5 DEF RegionInv, Places, Loc
  <2> QED BY <2>1, <2>2 DEF Places
<1>7. \A q \in Requests \ {r} : (At(q, "regionSet")' <=> At(q, "regionSet")) /\ This(q)' = This(q)
                                /\ (q \in Busy' <=> q \in Busy)
  BY <1>2 DEF At, This, Busy
<1>8. /\ r \in Busy' => t # <<>>
      /\ At(r, "regionSet")' => t # <<>> /\ Head(t).do = "regionSet"
      /\ This(r)' = Head(t)
  BY <1>3 DEF At, This, Busy
<1>9. OneCreator'
  BY <1>7, <1>8 DEF RegionInv, OneCreator
<1>10. OneRequest'
  BY <1>7, <1>8 DEF RegionInv, OneRequest, Busy
<1>11. RegionTyped'
  BY <1>2 DEF RegionInv, RegionTyped
<1>12. RegionStore'
  BY DEF RegionInv, RegionStore, UnusedAreNew, LiveGrants, LiveOwners, IndexesAgree, DeletedRegionsAreGone, expired
<1> QED BY <1>6, <1>9, <1>10, <1>11, <1>12 DEF RegionInv

(* A request begins. *)
LEMMA RegionStarts ==
    ASSUME RegionInv, NEW r \in Requests, NEW t, NEW loc, AskRegion(r, t, loc), PlaceOf(t, loc), t # <<>>,
           \A q \in Requests \ {r} : At(q, "regionSet") /\ Head(t).do = "regionSet" => This(q).id # Head(t).id
    PROVE  RegionInv'
<1>1. Continue(r, t, loc) /\ UNCHANGED regionVars
  BY DEF AskRegion, Start
<1>2. tally \in [started : Nat, faults : Nat, overlapped : BOOLEAN]
  BY DEF RegionInv, RegionTyped
<1>3. PICK over \in BOOLEAN : over = (tally.overlapped \/ Busy # {})
  BY <1>2
<1>4. tally' = [tally EXCEPT !.started = tally.started + 1, !.overlapped = over]
  BY <1>3 DEF AskRegion, Start
<1>5. tally' = [started |-> tally.started + 1, faults |-> tally.faults, overlapped |-> over]
  BY <1>2, <1>4
<1>6. tally' \in [started : Nat, faults : Nat, overlapped : BOOLEAN] /\ tally'.overlapped = over
  BY <1>2, <1>5
<1> QED BY <1>1, <1>3, <1>6, RegionGoesOn DEF regionVars

(* A request begins: what it has to do. *)
LEMMA CreateRegionKeeps ==
    ASSUME RegionInv, NEW r \in Requests, NEW g \in RegionIds, NEW a \in RegionAgents, CreateRegion(r, g, a)
    PROVE  RegionInv'
<1> DEFINE t == <<Call("regionSet", g, a), Call("regionLog", g, "region_created")>>
<1>1. AskRegion(r, t, RegionLocals) /\ g \notin regionPast.used
  BY TwoCommands DEF CreateRegion, Cmd, Call
<1>2. RegionLocals \in RegionLoc
  BY RegionAssumption DEF RegionLocals, RegionLoc, Never, Expiries
<1>3. PlaceOf(t, RegionLocals)
  BY <1>1, <1>2 DEF PlaceOf, Asks
<1>4. Head(t).id = g /\ t # <<>>
  BY DEF Call
<1>5. \A q \in Requests : At(q, "regionSet") => This(q).id # g
  BY DEF CreateRegion, At
<1> HIDE DEF t
<1> QED BY <1>1, <1>3, <1>4, <1>5, RegionStarts

LEMMA OtherStarts ==
    ASSUME RegionInv, NEW r \in Requests,
           \/ \E g \in RegionIds :
                \/ DeleteRegion(r, g)
                \/ \E who \in RegionAgents \cup {"admin"} :
                     \/ UpdateRegion(r, g, who)
                     \/ \E a \in RegionAgents :
                          (\E e \in Expiries : GrantAccess(r, g, a, e, who)) \/ RevokeAccess(r, g, a, who)
           \/ \E a \in RegionAgents : ListAccessible(r, a)
    PROVE  RegionInv'
<1>1. RegionLocals \in RegionLoc /\ \A e \in Expiries : [RegionLocals EXCEPT !.expires = e] \in RegionLoc
  BY RegionAssumption DEF RegionLocals, RegionLoc, Never, Expiries
<1>2. ASSUME NEW g \in RegionIds, DeleteRegion(r, g)
      PROVE  RegionInv'
  <2> DEFINE t == <<Call("regionNeed", g, "-"), Call("regionNeed", g, "-"), Call("aclList", g, "-"), Call("regionDrop", g, "-")>>
  <2>1. AskRegion(r, t, RegionLocals)
    <3>1. ((<<Call("regionNeed", g, "-")>> \o <<Call("regionNeed", g, "-")>>) \o <<Call("aclList", g, "-")>>)
            \o <<Call("regionDrop", g, "-")>> = t
      <4>1. (<<Call("regionNeed", g, "-")>> \o <<Call("regionNeed", g, "-")>>) \o <<Call("aclList", g, "-")>>
              = <<Call("regionNeed", g, "-"), Call("regionNeed", g, "-"), Call("aclList", g, "-")>>
        BY ThreeCommands
      <4> QED BY <4>1, FourCommands
    <3> QED BY <1>2, <3>1 DEF DeleteRegion, Cmd, Call
  <2>2. PlaceOf(t, RegionLocals)
    BY <1>1 DEF PlaceOf, Asks
  <2>3. t # <<>> /\ Head(t).do # "regionSet"
    BY DEF Call
  <2> HIDE DEF t
  <2> QED BY <2>1, <2>2, <2>3, RegionStarts
<1>3. ASSUME NEW g \in RegionIds, NEW who \in RegionAgents \cup {"admin"}, UpdateRegion(r, g, who)
      PROVE  RegionInv'
  <2> DEFINE t == <<Call("regionOwned", g, who), Call("regionPut", g, "-")>>
  <2>1. AskRegion(r, t, RegionLocals)
    BY <1>3, TwoCommands DEF UpdateRegion, Cmd, Call
  <2>2. PlaceOf(t, RegionLocals)
    BY <1>1 DEF PlaceOf, Asks
  <2>3. t # <<>> /\ Head(t).do # "regionSet"
    BY DEF Call
  <2> HIDE DEF t
  <2> QED BY <2>1, <2>2, <2>3, RegionStarts
<1>4. ASSUME NEW g \in RegionIds, NEW who \in RegionAgents \cup {"admin"}, NEW a \in RegionAgents, NEW e \in Expiries,
             GrantAccess(r, g, a, e, who)
      PROVE  RegionInv'
  <2> DEFINE t == <<Call("regionOwned", g, who), Call("aclSet", g, a), Call("regionLog", g, "region_access_granted")>>
             l == [RegionLocals EXCEPT !.expires = e]
  <2>1. AskRegion(r, t, l)
    BY <1>4, ThreeCommands DEF GrantAccess, Cmd, Call
  <2>2. PlaceOf(t, l)
    BY <1>1 DEF PlaceOf, Asks
  <2>3. t # <<>> /\ Head(t).do # "regionSet"
    BY DEF Call
  <2> HIDE DEF t, l
  <2> QED BY <2>1, <2>2, <2>3, RegionStarts
<1>5. ASSUME NEW g \in RegionIds, NEW who \in RegionAgents \cup {"admin"}, NEW a \in RegionAgents, RevokeAccess(r, g, a, who)
      PROVE  RegionInv'
  <2> DEFINE t == <<Call("regionOwned", g, who), Call("aclDrop", g, a), Call("regionLog", g, "region_access_revoked")>>
  <2>1. AskRegion(r, t, RegionLocals)
    BY <1>5, ThreeCommands DEF RevokeAccess, Cmd, Call
  <2>2. PlaceOf(t, RegionLocals)
    BY <1>1 DEF PlaceOf, Asks
  <2>3. t # <<>> /\ Head(t).do # "regionSet"
    BY DEF Call
  <2> HIDE DEF t
  <2> QED BY <2>1, <2>2, <2>3, RegionStarts
<1>6. ASSUME NEW a \in RegionAgents, ListAccessible(r, a)
      PROVE  RegionInv'
  <2> DEFINE t == <<Call("reach", a, "-"), Call("sweep", a, "-")>>
  <2>1. AskRegion(r, t, RegionLocals)
    BY <1>6, TwoCommands DEF ListAccessible, Cmd, Call
  <2>2. PlaceOf(t, RegionLocals)
    BY <1>1 DEF PlaceOf, Lists, RegionLocals
  <2>3. t # <<>> /\ Head(t).do # "regionSet"
    BY DEF Call
  <2> HIDE DEF t
  <2> QED BY <2>1, <2>2, <2>3, RegionStarts
<1> QED BY <1>2, <1>3, <1>4, <1>5, <1>6

(* A busy request goes on, with nothing new to create. *)
LEMMA RegionContinues ==
    ASSUME RegionInv, NEW r \in Busy, NEW t, NEW loc, Continue(r, t, loc), PlaceOf(t, loc),
           UNCHANGED <<regions, regionIndex, agentRegions, acl, aclIndex, regionClock, regionPast>>,
           tally' \in [started : Nat, faults : Nat, overlapped : BOOLEAN], tally'.overlapped = tally.overlapped,
           t # <<>> => Head(t).do # "regionSet"
    PROVE  RegionInv'
<1>1. r \in Requests /\ (~tally.overlapped => Busy \subseteq {r})
  BY DEF Busy, RegionInv, OneRequest
<1> QED BY <1>1, RegionGoesOn

LEMMA RegionRefused ==
    ASSUME RegionInv, NEW r \in Requests, r \in Busy, UNCHANGED regionVars, Refuse(r) \/ CommandFails(r)
    PROVE  RegionInv'
<1>1. Continue(r, <<>>, Loc(r))
  BY RegionErrors DEF Refuse, CommandFails, RegionInv, Places
<1>2. tally \in [started : Nat, faults : Nat, overlapped : BOOLEAN]
  BY DEF RegionInv, RegionTyped
<1>3. tally' \in [started : Nat, faults : Nat, overlapped : BOOLEAN] /\ tally'.overlapped = tally.overlapped
  BY <1>2 DEF Refuse, CommandFails
<1>4. PlaceOf(<<>>, Loc(r))
  BY DEF PlaceOf
<1> QED BY <1>1, <1>3, <1>4, RegionContinues DEF regionVars

LEMMA LogRegionKeeps ==
    ASSUME RegionInv, NEW r \in Requests, LogRegion(r)
    PROVE  RegionInv'
<1>1. At(r, "regionLog") /\ r \in Busy /\ PlaceOf(request[r].todo, Loc(r)) /\ Continue(r, Rest(r), Loc(r)) /\ tally' = tally
  BY DEF LogRegion, At, RegionInv, Places, Done, Sent
<1>2. Rest(r) = <<>>
  BY <1>1, AtRegion DEF ProbesFor
<1>3. PlaceOf(<<>>, Loc(r)) /\ tally \in [started : Nat, faults : Nat, overlapped : BOOLEAN]
  BY DEF PlaceOf, RegionInv, RegionTyped
<1> QED BY <1>1, <1>2, <1>3, RegionContinues DEF LogRegion

LEMMA RegionNeedKeeps ==
    ASSUME RegionInv, NEW r \in Requests, RegionNeed(r)
    PROVE  RegionInv'
<1>1. At(r, "regionNeed") /\ r \in Busy /\ PlaceOf(request[r].todo, Loc(r)) /\ UNCHANGED regionVars
  BY DEF RegionNeed, At, RegionInv, Places
<1>2. CASE Refuse(r)
  BY <1>1, <1>2, RegionRefused
<1>3. CASE ~Refuse(r)
  <2> DEFINE g == This(r).id
             l == [Loc(r) EXCEPT !.owner = regions[g]]
  <2>1. /\ g \in RegionIds /\ Loc(r) \in RegionLoc
        /\ \/ Rest(r) = <<Call("regionNeed", g, "-"), Call("aclList", g, "-"), Call("regionDrop", g, "-")>>
           \/ Rest(r) = <<Call("aclList", g, "-"), Call("regionDrop", g, "-")>>
    BY <1>1, AtRegion DEF ProbesFor
  <2>2. regions[g] # Nobody /\ Continue(r, Rest(r), l) /\ tally' = tally
    BY <1>3 DEF RegionNeed, Sent
  <2>3. l \in RegionLoc /\ l.owner = regions[g] /\ regions[g] \in RegionAgents
    BY <2>1, <2>2 DEF RegionInv, RegionTyped, RegionLoc
  <2>4. g \in regionPast.used
    BY <2>1, <2>2 DEF RegionInv, RegionStore, UnusedAreNew
  <2>5. ~tally.overlapped => g \notin regionPast.deleted
    BY <2>2 DEF RegionInv, RegionStore, DeletedRegionsAreGone
  <2>6. Looked(l, g)
    BY <2>3, <2>4, <2>5 DEF Looked
  <2>7. Knows(Rest(r), l, g)
    BY <2>1 DEF Knows
  <2> HIDE DEF l, g
  <2>8. PlaceOf(Rest(r), l)
    BY <2>1, <2>3, <2>6, <2>7 DEF PlaceOf
  <2>9. Rest(r) # <<>> => Head(Rest(r)).do # "regionSet"
    BY <2>1, ShortLists DEF Call
  <2>10. tally \in [started : Nat, faults : Nat, overlapped : BOOLEAN]
    BY DEF RegionInv, RegionTyped
  <2> QED BY <1>1, <2>2, <2>8, <2>9, <2>10, RegionContinues DEF regionVars
<1> QED BY <1>2, <1>3

LEMMA RegionOwnedKeeps ==
    ASSUME RegionInv, NEW r \in Requests, RegionOwned(r)
    PROVE  RegionInv'
<1>1. At(r, "regionOwned") /\ r \in Busy /\ PlaceOf(request[r].todo, Loc(r)) /\ UNCHANGED regionVars
  BY DEF RegionOwned, At, RegionInv, Places
<1>2. CASE Refuse(r)
  BY <1>1, <1>2, RegionRefused
<1>3. CASE ~Refuse(r)
  <2> DEFINE g == This(r).id
             l == [Loc(r) EXCEPT !.owner = regions[g]]
  <2>1. /\ g \in RegionIds /\ Loc(r) \in RegionLoc
        /\ \/ Rest(r) = <<Call("regionPut", g, "-")>>
           \/ \E a \in RegionAgents :
                \/ Rest(r) = <<Call("aclSet", g, a), Call("regionLog", g, "region_access_granted")>>
                \/ Rest(r) = <<Call("aclDrop", g, a), Call("regionLog", g, "region_access_revoked")>>
    BY <1>1, AtRegion DEF ProbesFor
  <2>2. /\ regions[g] # Nobody /\ Continue(r, Rest(r), l) /\ tally' = tally
        /\ Rest(r)[1].do = "aclSet" => Rest(r)[1].how # regions[g]
    BY <1>3 DEF RegionOwned, Sent
  <2>3. l \in RegionLoc /\ l.owner = regions[g] /\ regions[g] \in RegionAgents
    BY <2>1, <2>2 DEF RegionInv, RegionTyped, RegionLoc
  <2>4. g \in regionPast.used
    BY <2>1, <2>2 DEF RegionInv, RegionStore, UnusedAreNew
  <2>5. ~tally.overlapped => g \notin regionPast.deleted
    BY <2>2 DEF RegionInv, RegionStore, DeletedRegionsAreGone
  <2>6. Looked(l, g)
    BY <2>3, <2>4, <2>5 DEF Looked
  <2>7. Knows(Rest(r), l, g)
    <3>1. CASE Rest(r) = <<Call("regionPut", g, "-")>>
      BY <3>1 DEF Knows
    <3>2. ASSUME NEW a \in RegionAgents, Rest(r) = <<Call("aclSet", g, a), Call("regionLog", g, "region_access_granted")>>
          PROVE  Knows(Rest(r), l, g)
      <4>1. Rest(r)[1] = Call("aclSet", g, a)
        BY <3>2
      <4>2. a # l.owner
        BY <2>2, <2>3, <4>1 DEF Call
      <4> QED BY <3>2, <4>2 DEF Knows
    <3>3. ASSUME NEW a \in RegionAgents, Rest(r) = <<Call("aclDrop", g, a), Call("regionLog", g, "region_access_revoked")>>
          PROVE  Knows(Rest(r), l, g)
      BY <3>3 DEF Knows
    <3> QED BY <2>1, <3>1, <3>2, <3>3
  <2> HIDE DEF l, g
  <2>8. PlaceOf(Rest(r), l)
    BY <2>1, <2>3, <2>6, <2>7 DEF PlaceOf
  <2>9. Rest(r) # <<>> => Head(Rest(r)).do # "regionSet"
    BY <2>1, ShortLists DEF Call
  <2>10. tally \in [started : Nat, faults : Nat, overlapped : BOOLEAN]
    BY DEF RegionInv, RegionTyped
  <2> QED BY <1>1, <2>2, <2>8, <2>9, <2>10, RegionContinues DEF regionVars
<1> QED BY <1>2, <1>3

LEMMA AclListKeeps ==
    ASSUME RegionInv, NEW r \in Requests, AclList(r)
    PROVE  RegionInv'
<1> DEFINE g == This(r).id
           l == [Loc(r) EXCEPT !.agents = aclIndex[g]]
<1>1. At(r, "aclList") /\ r \in Busy /\ PlaceOf(request[r].todo, Loc(r)) /\ UNCHANGED regionVars
      /\ Continue(r, Rest(r), l) /\ tally' = tally
  BY DEF AclList, At, RegionInv, Places, Sent
<1>2. g \in RegionIds /\ Loc(r) \in RegionLoc /\ Looked(Loc(r), g) /\ Rest(r) = <<Call("regionDrop", g, "-")>>
  BY <1>1, AtRegion DEF ProbesFor
<1>3. l \in RegionLoc /\ l.agents = aclIndex[g] /\ l.owner = Loc(r).owner
  BY <1>2 DEF RegionInv, RegionTyped, RegionLoc
<1>4. Looked(l, g) /\ Knows(Rest(r), l, g)
  BY <1>2, <1>3 DEF Looked, Knows
<1> HIDE DEF l, g
<1>5. PlaceOf(Rest(r), l)
  BY <1>2, <1>3, <1>4 DEF PlaceOf
<1>6. Rest(r) # <<>> => Head(Rest(r)).do # "regionSet"
  BY <1>2, ShortLists DEF Call
<1>7. tally \in [started : Nat, faults : Nat, overlapped : BOOLEAN]
  BY DEF RegionInv, RegionTyped
<1> QED BY <1>1, <1>5, <1>6, <1>7, RegionContinues DEF regionVars

LEMMA ProbeKeeps ==
    ASSUME RegionInv, NEW r \in Requests, Probe(r)
    PROVE  RegionInv'
<1> DEFINE g == This(r).id
           b == This(r).how
           l == IF expired(acl[<<g, b>>]) THEN [Loc(r) EXCEPT !.old = @ \cup {g}] ELSE Loc(r)
<1>1. At(r, "probe") /\ r \in Busy /\ PlaceOf(request[r].todo, Loc(r)) /\ UNCHANGED regionVars
      /\ Continue(r, Rest(r), l) /\ tally' = tally
  BY DEF Probe, At, RegionInv, Places, Sent
<1>2. PICK a \in RegionAgents : /\ \A h \in Loc(r).old : Removable(h, a)
                                /\ This(r) \in ProbesFor(a) /\ EndsInSweep(Rest(r), a) /\ Loc(r) \in RegionLoc
  BY <1>1, AtRegion
<1>3. g \in RegionIds /\ b = a
  BY <1>2 DEF ProbesFor
<1>4. l \in RegionLoc /\ l.old \in {Loc(r).old, Loc(r).old \cup {g}} /\ (g \in l.old => g \in Loc(r).old \/ expired(acl[<<g, a>>]))
  BY <1>2, <1>3 DEF RegionLoc
<1> HIDE DEF l
<1>5. ASSUME expired(acl[<<g, a>>])
      PROVE  Removable(g, a)
  <2>1. acl[<<g, a>>] # NoEntry
    BY <1>5 DEF expired
  <2>2. g \in regionPast.used
    BY <1>3, <2>1 DEF RegionInv, RegionStore, UnusedAreNew
  <2>3. g \in regionPast.deleted \/ regions[g] # a
    <3> SUFFICES ASSUME g \notin regionPast.deleted, regions[g] = a
                 PROVE  FALSE
      OBVIOUS
    <3>1. regions[g] # Nobody
      BY RegionAssumption
    <3> QED BY <1>3, <2>1, <3>1 DEF RegionInv, RegionStore, LiveOwners
  <2>4. \/ g \in regionPast.deleted \/ <<g, a>> \in regionPast.swept
        \/ regionPast.granted[<<g, a>>] = NoEntry \/ expired(regionPast.granted[<<g, a>>])
    BY <1>3, <1>5 DEF RegionInv, RegionStore, LiveGrants
  <2> QED BY <2>2, <2>3, <2>4 DEF Removable
<1>6. Lists(Rest(r), l, a)
  BY <1>2, <1>4, <1>5 DEF Lists
<1>7. PlaceOf(Rest(r), l)
  BY <1>4, <1>6 DEF PlaceOf
<1>8. Rest(r) # <<>> => Head(Rest(r)).do # "regionSet"
  <2> DEFINE S == ProbesFor(a) \cup {Call("sweep", a, "-")}
  <2>1. Rest(r) \in Seq(S) /\ \A c \in S : c.do # "regionSet"
    BY <1>2 DEF EndsInSweep, ProbesFor, Call
  <2> HIDE DEF S
  <2> QED BY <2>1
<1>9. tally \in [started : Nat, faults : Nat, overlapped : BOOLEAN]
  BY DEF RegionInv, RegionTyped
<1> QED BY <1>1, <1>7, <1>8, <1>9, RegionContinues DEF regionVars

(* The entries to look at, in some order (SetToSeq). *)
LEMMA Enumerated ==
    ASSUME NEW S, IsFiniteSet(S)
    PROVE  /\ Cardinality(S) \in Nat
           /\ SetToSeq(S) \in [1 .. Cardinality(S) -> S]
           /\ SetToSeq(S) \in Seq(S) /\ Len(SetToSeq(S)) = Cardinality(S)
<1> DEFINE n == Cardinality(S)
<1>1. n \in Nat /\ ExistsBijection(1 .. n, S)
  BY FS_CardinalityType
<1>2. \E f \in [1 .. n -> S] : IsInjective(f)
  BY <1>1 DEF ExistsBijection, Bijection, Injection, IsInjective
<1>3. SetToSeq(S) \in [1 .. n -> S]
  BY <1>2 DEF SetToSeq
<1> HIDE DEF n
<1>4. SetToSeq(S) \in Seq(S)
  BY <1>1, <1>3
<1>5. Len(SetToSeq(S)) = n
  BY <1>1, <1>3, <1>4
<1> QED BY <1>1, <1>3, <1>4, <1>5 DEF n

LEMMA ReachKeeps ==
    ASSUME RegionInv, NEW r \in Requests, Reach(r)
    PROVE  RegionInv'
<1>1. At(r, "reach") /\ r \in Busy /\ PlaceOf(request[r].todo, Loc(r)) /\ UNCHANGED regionVars
  BY DEF Reach, At, RegionInv, Places
<1>2. PICK a \in RegionAgents : /\ \A h \in Loc(r).old : Removable(h, a)
                                /\ This(r).id = a /\ Rest(r) = <<Call("sweep", a, "-")>> /\ Loc(r) \in RegionLoc
  BY <1>1, AtRegion
<1> DEFINE seen == SetToSeq(agentRegions[a])
           n == Len(seen)
           more == [i \in 1 .. n |-> [do |-> "probe", id |-> seen[i], how |-> a]]
           t == more \o Rest(r)
           S == ProbesFor(a) \cup {Call("sweep", a, "-")}
<1>3. agentRegions[a] \subseteq RegionIds /\ IsFiniteSet(agentRegions[a])
  <2>1. agentRegions[a] \subseteq RegionIds
    BY DEF RegionInv, RegionTyped
  <2> QED BY <2>1, FS_Subset, RegionAssumption
<1>4. n \in Nat /\ seen \in [1 .. n -> RegionIds]
  BY <1>3, Enumerated
<1>5. Continue(r, t, Loc(r)) /\ tally' = tally
  BY <1>2 DEF Reach, Insert
<1> HIDE DEF seen, n
<1>6. more \in Seq(ProbesFor(a)) /\ Len(more) = n
  BY <1>4 DEF ProbesFor
<1> HIDE DEF more
<1>7. more \in Seq(S) /\ Rest(r) \in Seq(S) /\ Len(Rest(r)) = 1 /\ Rest(r)[1] = Call("sweep", a, "-")
  BY <1>2, <1>6
<1> HIDE DEF S
<1>8. t \in Seq(S) /\ Len(t) = n + 1 /\ t[n + 1] = Call("sweep", a, "-") /\ \A i \in 1 .. n : t[i] = more[i]
  <2>1. t \in Seq(S) /\ Len(t) = Len(more) + Len(Rest(r))
    BY <1>7, ConcatProperties
  <2>2. \A i \in 1 .. Len(more) + Len(Rest(r)) :
          t[i] = IF i <= Len(more) THEN more[i] ELSE Rest(r)[i - Len(more)]
    BY <1>7, ConcatProperties
  <2>3. n + 1 \in 1 .. Len(more) + Len(Rest(r)) /\ ~(n + 1 <= Len(more)) /\ (n + 1) - Len(more) = 1
    BY <1>4, <1>6, <1>7
  <2>4. t[n + 1] = Rest(r)[1]
    BY <2>2, <2>3
  <2>5. \A i \in 1 .. n : t[i] = more[i]
    BY <1>4, <1>6, <1>7, <2>2
  <2> HIDE DEF t
  <2> QED BY <1>6, <1>7, <2>1, <2>4, <2>5
<1>9. t # <<>>
  BY <1>4, <1>8
<1>10. \A i \in 1 .. n : more[i] \in ProbesFor(a)
  BY <1>6
<1>11. EndsInSweep(t, a)
  BY <1>4, <1>8, <1>9, <1>10 DEF EndsInSweep, S
<1>12. PlaceOf(t, Loc(r))
  BY <1>2, <1>11 DEF PlaceOf, Lists
<1>13. t # <<>> => Head(t).do # "regionSet"
  <2>1. \A c \in S : c.do # "regionSet"
    BY DEF S, ProbesFor, Call
  <2> QED BY <1>8, <1>9, <2>1
<1>14. tally \in [started : Nat, faults : Nat, overlapped : BOOLEAN]
  BY DEF RegionInv, RegionTyped
<1> HIDE DEF t
<1> QED BY <1>1, <1>5, <1>12, <1>13, <1>14, RegionContinues DEF regionVars

-----------------------------------------------------------------------------
(* Commands that change the regions: their handlers are then done but for   *)
(* an audit row.                                                            *)

LEMMA RegionWritten ==
    ASSUME RegionInv, NEW r \in Requests, r \in Busy, Done(r), Loc(r) \in RegionLoc,
           Rest(r) = <<>> \/ \E g \in RegionIds : \E x \in Logged : Rest(r) = <<Call("regionLog", g, x)>>,
           regionPast.used \subseteq regionPast'.used, regionPast.deleted \subseteq regionPast'.deleted,
           \A q \in Requests \ {r} : At(q, "regionSet") =>
             (This(q).id \in regionPast'.used => This(q).id \in regionPast.used),
           \A g \in regionPast.used : regions'[g] = regions[g] \/ g \in regionPast'.deleted,
           \A g \in RegionIds, a \in RegionAgents : \A q \in Requests \ {r} :
             Lists(request[q].todo, Loc(q), a) /\ g \in Loc(q).old /\ Removable(g, a) => Removable(g, a)'
    PROVE  DOMAIN request' = Requests /\ tally' = tally /\ Places' /\ OneCreator' /\ OneRequest'
<1> DEFINE x == IF Rest(r) = <<>> THEN Idle ELSE [todo |-> Rest(r), loc |-> Loc(r)]
<1>1. request' = [request EXCEPT ![r] = x] /\ DOMAIN request = Requests /\ tally' = tally
  BY DEF Done, Sent, Continue, RegionInv, RegionTyped
<1>2. request'[r] = x /\ DOMAIN request' = Requests /\ \A q \in Requests \ {r} : request'[q] = request[q]
  BY <1>1
<1>3. request'[r].todo = Rest(r) /\ (Rest(r) # <<>> => Loc(r)' = Loc(r))
  BY <1>2 DEF Idle, Loc
<1> HIDE DEF x
<1>4. ASSUME NEW q \in Requests \ {r}
      PROVE  PlaceOf(request[q].todo, Loc(q))'
  <2>1. PlaceOf(request[q].todo, Loc(q))
    BY DEF RegionInv, Places
  <2>2. \A g \in RegionIds : \A a : request[q].todo = <<Call("regionSet", g, a), Call("regionLog", g, "region_created")>> =>
             (g \in regionPast'.used => g \in regionPast.used)
    <3> SUFFICES ASSUME NEW g \in RegionIds, NEW a,
                        request[q].todo = <<Call("regionSet", g, a), Call("regionLog", g, "region_created")>>
                 PROVE  g \in regionPast'.used => g \in regionPast.used
      OBVIOUS
    <3>1. At(q, "regionSet") /\ This(q).id = g
      BY DEF At, Busy, This, Call
    <3> QED BY <3>1
  <2>3. ~tally'.overlapped => ~tally.overlapped /\ request[q].todo = <<>>
    BY <1>1 DEF RegionInv, OneRequest, Busy
  <2>4. \A g \in RegionIds, a \in RegionAgents :
             Lists(request[q].todo, Loc(q), a) /\ g \in Loc(q).old /\ Removable(g, a) => Removable(g, a)'
    OBVIOUS
  <2>5. \A todo, loc : todo = request[q].todo /\ loc = Loc(q) => PlaceOf(todo, loc)'
    BY <2>1, <2>2, <2>3, <2>4, OtherRegionsStay
  <2> QED BY <1>2, <2>5 DEF Loc
<1>5. PlaceOf(request[r].todo, Loc(r))'
  <2>1. CASE Rest(r) = <<>>
    BY <1>3, <2>1 DEF PlaceOf
  <2>2. CASE \E g \in RegionIds : \E y \in Logged : Rest(r) = <<Call("regionLog", g, y)>>
    BY <1>3, <2>2 DEF PlaceOf, Asks
  <2> QED BY <2>1, <2>2
<1>6. Places'
  BY <1>4, <1>5 DEF Places
<1>7. \A q \in Requests \ {r} : (At(q, "regionSet")' <=> At(q, "regionSet")) /\ This(q)' = This(q)
                                /\ (q \in Busy' <=> q \in Busy)
  BY <1>2 DEF At, This, Busy
<1>8. ~At(r, "regionSet")'
  BY <1>3 DEF At, Busy, Call
<1>9. OneCreator' /\ OneRequest'
  BY <1>1, <1>7, <1>8 DEF RegionInv, OneCreator, OneRequest, Busy
<1> QED BY <1>1, <1>2, <1>6, <1>9

LEMMA RegionSetKeeps ==
    ASSUME RegionInv, NEW r \in Requests, RegionSet(r)
    PROVE  RegionInv'
<1>1. At(r, "regionSet") /\ r \in Busy /\ PlaceOf(request[r].todo, Loc(r)) /\ Done(r)
  BY DEF RegionSet, At, RegionInv, Places
<1>2. PICK g \in RegionIds, a \in RegionAgents :
        /\ This(r).id = g /\ This(r).how = a /\ g \notin regionPast.used /\ Loc(r) \in RegionLoc
        /\ Rest(r) = <<Call("regionLog", g, "region_created")>>
  BY <1>1, AtRegion DEF ProbesFor
<1>3. RegionTyped
  BY DEF RegionInv
<1>4. /\ regionPast' = [regionPast EXCEPT !.used = @ \cup {g}]
      /\ regions' = [regions EXCEPT ![g] = a] /\ regionIndex' = regionIndex \cup {g}
      /\ agentRegions' = [agentRegions EXCEPT ![a] = @ \cup {g}]
      /\ UNCHANGED <<acl, aclIndex, regionLog, regionClock>>
  BY <1>2 DEF RegionSet
<1>5. /\ regionPast'.used = regionPast.used \cup {g} /\ regionPast'.deleted = regionPast.deleted
      /\ regionPast'.granted = regionPast.granted /\ regionPast'.swept = regionPast.swept
      /\ regionPast'.disowned = regionPast.disowned
      /\ regionPast' \in [used : SUBSET RegionIds, deleted : SUBSET RegionIds,
                       granted : [Pairs -> {NoEntry} \cup Expiries],
                       swept : SUBSET Pairs, disowned : SUBSET RegionIds]
  BY <1>3, <1>4 DEF RegionTyped
<1>6. /\ regions' \in [RegionIds -> RegionAgents \cup {Nobody}] /\ regions'[g] = a
      /\ \A h \in RegionIds \ {g} : regions'[h] = regions[h]
      /\ agentRegions' \in [RegionAgents -> SUBSET RegionIds] /\ agentRegions'[a] = agentRegions[a] \cup {g}
      /\ \A b \in RegionAgents : b # a => agentRegions'[b] = agentRegions[b]
  BY <1>3, <1>4 DEF RegionTyped
<1>7. DOMAIN request' = Requests /\ tally' = tally /\ Places' /\ OneCreator' /\ OneRequest'
  <2>1. \A q \in Requests \ {r} : At(q, "regionSet") => This(q).id # g
    BY <1>1, <1>2 DEF RegionInv, OneCreator
  <2>2. \A h \in regionPast.used : regions'[h] = regions[h]
    BY <1>2, <1>3, <1>6 DEF RegionTyped
  <2>3. \A h \in RegionIds : \A b : Removable(h, b) => Removable(h, b)'
    BY <1>2, <1>4, <1>5, <1>6 DEF Removable, expired
  <2>4. regionPast.used \subseteq regionPast'.used /\ regionPast.deleted \subseteq regionPast'.deleted
    BY <1>5
  <2>5. \A q \in Requests \ {r} : At(q, "regionSet") =>
             (This(q).id \in regionPast'.used => This(q).id \in regionPast.used)
    BY <1>5, <2>1
  <2> QED BY <1>1, <1>2, <2>2, <2>3, <2>4, <2>5, RegionWritten DEF Logged
<1>8. RegionTyped'
  BY <1>3, <1>4, <1>5, <1>6, <1>7 DEF RegionTyped
<1>9. g \notin regionPast.deleted /\ \A b \in RegionAgents :
        acl[<<g, b>>] = NoEntry /\ regionPast.granted[<<g, b>>] = NoEntry /\ g \notin agentRegions[b]
  BY <1>2 DEF RegionInv, RegionStore, UnusedAreNew
<1>10. UnusedAreNew'
  BY <1>4, <1>5, <1>6 DEF RegionInv, RegionStore, UnusedAreNew
<1>11. LiveGrants'
  BY <1>4, <1>5, <1>6, <1>9 DEF RegionInv, RegionStore, LiveGrants, expired
<1>12. LiveOwners'
  BY <1>4, <1>5, <1>6, <1>9 DEF RegionInv, RegionStore, LiveOwners
<1>13. IndexesAgree'
  BY <1>4, <1>5, <1>6, <1>9 DEF RegionInv, RegionStore, IndexesAgree
<1>14. DeletedRegionsAreGone'
  <2> SUFFICES ASSUME ~tally'.overlapped, NEW h \in regionPast'.deleted
               PROVE  /\ regions'[h] = Nobody /\ h \notin regionIndex' /\ aclIndex'[h] = {}
                      /\ \A b \in RegionAgents : acl'[<<h, b>>] = NoEntry /\ h \notin agentRegions'[b]
    BY DEF DeletedRegionsAreGone
  <2>1. h \in regionPast.deleted /\ h # g /\ h \in RegionIds
    BY <1>3, <1>5, <1>9 DEF RegionTyped
  <2>2. /\ regions[h] = Nobody /\ h \notin regionIndex /\ aclIndex[h] = {}
        /\ \A b \in RegionAgents : acl[<<h, b>>] = NoEntry /\ h \notin agentRegions[b]
    BY <1>7, <2>1 DEF RegionInv, RegionStore, DeletedRegionsAreGone
  <2> QED BY <1>4, <1>6, <2>1, <2>2
<1> QED BY <1>7, <1>8, <1>10, <1>11, <1>12, <1>13, <1>14 DEF RegionInv, RegionStore

LEMMA RegionPutKeeps ==
    ASSUME RegionInv, NEW r \in Requests, RegionPut(r)
    PROVE  RegionInv'
<1>1. At(r, "regionPut") /\ r \in Busy /\ PlaceOf(request[r].todo, Loc(r)) /\ Done(r)
  BY DEF RegionPut, At, RegionInv, Places
<1>2. PICK g \in RegionIds : This(r).id = g /\ Looked(Loc(r), g) /\ Rest(r) = <<>> /\ Loc(r) \in RegionLoc
  BY <1>1, AtRegion DEF ProbesFor
<1>3. RegionTyped
  BY DEF RegionInv
<1>4. /\ regions' = [regions EXCEPT ![g] = Loc(r).owner]
      /\ UNCHANGED <<regionIndex, agentRegions, acl, aclIndex, regionLog, regionClock, regionPast>>
  BY <1>2 DEF RegionPut
<1>5. /\ regions' \in [RegionIds -> RegionAgents \cup {Nobody}]
      /\ \A h \in RegionIds : regions'[h] = regions[h] \/ (h = g /\ g \in regionPast.deleted)
      /\ ~tally.overlapped => g \notin regionPast.deleted
      /\ g \in regionPast.used
  BY <1>2, <1>3, <1>4 DEF RegionTyped, Looked
<1>6. DOMAIN request' = Requests /\ tally' = tally /\ Places' /\ OneCreator' /\ OneRequest'
  <2>1. \A h \in regionPast.used : regions'[h] = regions[h] \/ h \in regionPast'.deleted
    BY <1>3, <1>4, <1>5 DEF RegionTyped
  <2>2. \A h \in RegionIds : \A b : Removable(h, b) => Removable(h, b)'
    BY <1>4, <1>5 DEF Removable, expired
  <2> QED BY <1>1, <1>2, <1>4, <2>1, <2>2, RegionWritten
<1>7. RegionTyped'
  BY <1>3, <1>4, <1>5, <1>6 DEF RegionTyped
<1>8. UnusedAreNew' /\ LiveGrants'
  BY <1>4, <1>5 DEF RegionInv, RegionStore, UnusedAreNew, LiveGrants, expired
<1>9. LiveOwners' /\ IndexesAgree'
  BY <1>4, <1>5 DEF RegionInv, RegionStore, LiveOwners, IndexesAgree
<1>10. DeletedRegionsAreGone'
  BY <1>3, <1>4, <1>5, <1>6 DEF RegionInv, RegionStore, DeletedRegionsAreGone, RegionTyped
<1> QED BY <1>6, <1>7, <1>8, <1>9, <1>10 DEF RegionInv, RegionStore

LEMMA RegionTickKeeps ==
    ASSUME RegionInv, RegionTick
    PROVE  RegionInv'
<1>1. /\ regionClock' = regionClock + 1 /\ regionClock \in Nat
      /\ UNCHANGED <<requestVars, regions, regionIndex, agentRegions, acl, aclIndex, regionPast>>
  BY DEF RegionTick, RegionInv, RegionTyped
<1>2. \A e \in {NoEntry} \cup Expiries : expired(e) => expired(e)'
  BY <1>1, RegionAssumption DEF expired, NoEntry, Expiries, Never
<1>3. regionPast.granted \in [Pairs -> {NoEntry} \cup Expiries] /\ acl \in [Pairs -> {NoEntry} \cup Expiries]
  BY DEF RegionInv, RegionTyped
<1>4. \A g \in RegionIds, a \in RegionAgents : Removable(g, a) => Removable(g, a)'
  BY <1>1, <1>2, <1>3 DEF Removable, Pairs
<1>5. Places'
  <2>1. \A todo, loc : PlaceOf(todo, loc) => PlaceOf(todo, loc)'
    BY <1>1, <1>4, OtherRegionsStay DEF requestVars
  <2> QED BY <1>1, <2>1 DEF RegionInv, Places, requestVars, Loc
<1>6. OneCreator' /\ OneRequest'
  BY <1>1 DEF RegionInv, OneCreator, OneRequest, requestVars, At, Busy, This
<1>7. LiveGrants'
  BY <1>1, <1>2, <1>3 DEF RegionInv, RegionStore, LiveGrants, Pairs
<1>8. RegionTyped'
  BY <1>1 DEF RegionInv, RegionTyped, requestVars
<1>9. UnusedAreNew' /\ LiveOwners' /\ IndexesAgree' /\ DeletedRegionsAreGone'
  BY <1>1 DEF RegionInv, RegionStore, UnusedAreNew, LiveOwners, IndexesAgree, DeletedRegionsAreGone, requestVars
<1> QED BY <1>5, <1>6, <1>7, <1>8, <1>9 DEF RegionInv, RegionStore

LEMMA AclSetKeeps ==
    ASSUME RegionInv, NEW r \in Requests, AclSet(r)
    PROVE  RegionInv'
<1>1. At(r, "aclSet") /\ r \in Busy /\ PlaceOf(request[r].todo, Loc(r)) /\ Done(r)
  BY DEF AclSet, At, RegionInv, Places
<1>2. PICK g \in RegionIds, a \in RegionAgents :
        /\ This(r).id = g /\ This(r).how = a /\ Looked(Loc(r), g) /\ a # Loc(r).owner /\ Loc(r) \in RegionLoc
        /\ Rest(r) = <<Call("regionLog", g, "region_access_granted")>>
  BY <1>1, AtRegion DEF ProbesFor
<1> DEFINE e == Loc(r).expires
           late == \E q \in Busy : Sweeping(q, a) /\ g \in Loc(q).old
<1>3. RegionTyped /\ e \in Expiries /\ <<g, a>> \in Pairs /\ e # NoEntry
  BY <1>2, RegionAssumption DEF RegionInv, RegionLoc, Pairs, NoEntry, Expiries, Never
<1>4. PICK swept : swept = IF late THEN regionPast.swept \cup {<<g, a>>} ELSE regionPast.swept
  OBVIOUS
<1>5. /\ acl' = [acl EXCEPT ![<<g, a>>] = e]
      /\ aclIndex' = [aclIndex EXCEPT ![g] = @ \cup {a}]
      /\ agentRegions' = [agentRegions EXCEPT ![a] = @ \cup {g}]
      /\ regionPast' = [regionPast EXCEPT !.granted[<<g, a>>] = e, !.swept = swept]
      /\ UNCHANGED <<regions, regionIndex, regionLog, regionClock>>
  BY <1>2, <1>4 DEF AclSet
<1> HIDE DEF e
<1>6. /\ regionPast'.used = regionPast.used /\ regionPast'.deleted = regionPast.deleted
      /\ regionPast'.granted = [regionPast.granted EXCEPT ![<<g, a>>] = e] /\ regionPast'.swept = swept
      /\ regionPast'.disowned = regionPast.disowned
      /\ regionPast' \in [used : SUBSET RegionIds, deleted : SUBSET RegionIds,
                       granted : [Pairs -> {NoEntry} \cup Expiries],
                       swept : SUBSET Pairs, disowned : SUBSET RegionIds]
  <2>1. regionPast \in [used : SUBSET RegionIds, deleted : SUBSET RegionIds,
                       granted : [Pairs -> {NoEntry} \cup Expiries],
                       swept : SUBSET Pairs, disowned : SUBSET RegionIds]
    BY <1>3 DEF RegionTyped
  <2>2. regionPast' = [used |-> regionPast.used, deleted |-> regionPast.deleted,
                       granted |-> [regionPast.granted EXCEPT ![<<g, a>>] = e],
                       swept |-> swept, disowned |-> regionPast.disowned]
    BY <1>5, <2>1
  <2>3. [regionPast.granted EXCEPT ![<<g, a>>] = e] \in [Pairs -> {NoEntry} \cup Expiries]
    BY <1>3, <2>1
  <2>4. swept \subseteq Pairs
    BY <1>3, <1>4, <2>1
  <2> QED BY <2>1, <2>2, <2>3, <2>4
<1>7. /\ acl' \in [Pairs -> {NoEntry} \cup Expiries] /\ acl'[<<g, a>>] = e /\ regionPast'.granted[<<g, a>>] = e
      /\ \A h \in RegionIds, b \in RegionAgents : h # g \/ b # a =>
           acl'[<<h, b>>] = acl[<<h, b>>] /\ regionPast'.granted[<<h, b>>] = regionPast.granted[<<h, b>>]
  <2>1. \A h \in RegionIds, b \in RegionAgents : <<h, b>> \in Pairs /\ (h # g \/ b # a => <<h, b>> # <<g, a>>)
    BY DEF Pairs
  <2>2. acl \in [Pairs -> {NoEntry} \cup Expiries] /\ regionPast.granted \in [Pairs -> {NoEntry} \cup Expiries]
    BY <1>3 DEF RegionTyped
  <2> QED BY <1>3, <1>5, <1>6, <2>1, <2>2
<1>8. /\ aclIndex' \in [RegionIds -> SUBSET RegionAgents] /\ agentRegions' \in [RegionAgents -> SUBSET RegionIds]
      /\ \A h \in RegionIds : aclIndex[h] \subseteq aclIndex'[h] /\ (h # g => aclIndex'[h] = aclIndex[h])
      /\ a \in aclIndex'[g] /\ g \in agentRegions'[a]
      /\ \A h \in RegionIds, b \in RegionAgents :
           /\ h \in agentRegions[b] => h \in agentRegions'[b]
           /\ h \in agentRegions'[b] => h \in agentRegions[b] \/ (h = g /\ b = a)
  BY <1>3, <1>5 DEF RegionTyped
<1>9. /\ g \in regionPast.used /\ (~tally.overlapped => g \notin regionPast.deleted)
      /\ g \in regionPast.deleted \/ regions[g] # a
  BY <1>2 DEF Looked
<1>10. DOMAIN request' = Requests /\ tally' = tally /\ Places' /\ OneCreator' /\ OneRequest'
  <2>1. ASSUME NEW h \in RegionIds, NEW b \in RegionAgents, NEW q \in Requests \ {r},
               Lists(request[q].todo, Loc(q), b), h \in Loc(q).old, Removable(h, b)
        PROVE  Removable(h, b)'
    <3>1. CASE h # g \/ b # a
      <4>1. regionPast'.granted[<<h, b>>] = regionPast.granted[<<h, b>>]
        BY <1>7, <3>1
      <4>2. <<h, b>> \in regionPast.swept => <<h, b>> \in regionPast'.swept
        BY <1>4, <1>6
      <4> QED BY <1>5, <1>6, <2>1, <4>1, <4>2 DEF Removable, expired
    <3>2. CASE h = g /\ b = a
      <4>1. q \in Busy /\ Sweeping(q, a)
        <5>1. CASE EndsInSweep(request[q].todo, b)
          <6> DEFINE S == ProbesFor(b) \cup {Call("sweep", b, "-")}
                     t == request[q].todo
          <6>1. t \in Seq(S) /\ t # <<>> /\ t[Len(t)] = Call("sweep", b, "-")
            BY <5>1 DEF EndsInSweep
          <6> HIDE DEF S, t
          <6>2. Len(t) \in DOMAIN t
            BY <6>1
          <6>3. Cmd("sweep", a, "-")[1] = Call("sweep", b, "-")
            BY <3>2 DEF Cmd, Call
          <6> QED BY <6>1, <6>2, <6>3 DEF Sweeping, Busy, t
        <5>2. CASE request[q].todo = <<Call("reach", b, "-"), Call("sweep", b, "-")>> /\ Loc(q).old = {}
          BY <2>1, <5>2
        <5> QED BY <2>1, <5>1, <5>2 DEF Lists
      <4>2. <<g, a>> \in swept
        BY <1>4, <2>1, <3>2, <4>1
      <4> QED BY <1>5, <1>6, <2>1, <3>2, <4>2 DEF Removable
    <3> QED BY <3>1, <3>2
  <2> QED BY <1>1, <1>2, <1>5, <1>6, <2>1, RegionWritten DEF Logged
<1>11. RegionTyped'
  BY <1>3, <1>5, <1>6, <1>7, <1>8, <1>10 DEF RegionTyped
<1>12. UnusedAreNew'
  BY <1>5, <1>6, <1>7, <1>8, <1>9 DEF RegionInv, RegionStore, UnusedAreNew
<1>13. LiveGrants'
  <2> SUFFICES ASSUME NEW h \in RegionIds, NEW b \in RegionAgents,
                      regionPast'.granted[<<h, b>>] # NoEntry, h \notin regionPast'.deleted,
                      <<h, b>> \notin regionPast'.swept, ~expired(regionPast'.granted[<<h, b>>])
               PROVE  acl'[<<h, b>>] = regionPast'.granted[<<h, b>>] /\ h \in agentRegions'[b] /\ b \in aclIndex'[h]
    BY <1>5 DEF LiveGrants, expired
  <2>1. CASE h = g /\ b = a
    BY <1>7, <1>8, <2>1
  <2>2. CASE h # g \/ b # a
    <3>1. regionPast.granted[<<h, b>>] # NoEntry /\ h \notin regionPast.deleted /\ <<h, b>> \notin regionPast.swept
          /\ ~expired(regionPast.granted[<<h, b>>])
      BY <1>4, <1>6, <1>7, <2>2
    <3>2. acl[<<h, b>>] = regionPast.granted[<<h, b>>] /\ h \in agentRegions[b] /\ b \in aclIndex[h]
      BY <3>1 DEF RegionInv, RegionStore, LiveGrants
    <3> QED BY <1>7, <1>8, <2>2, <3>2
  <2> QED BY <2>1, <2>2
<1>14. LiveOwners'
  <2> SUFFICES ASSUME NEW h \in RegionIds, h \notin regionPast.deleted, regions[h] # Nobody
               PROVE  /\ acl'[<<h, regions[h]>>] = NoEntry
                      /\ h \notin regionPast.disowned => h \in agentRegions'[regions[h]]
    BY <1>5, <1>6 DEF LiveOwners
  <2>1. regions[h] \in RegionAgents /\ (h = g => regions[h] # a)
    BY <1>3, <1>9 DEF RegionTyped
  <2> QED BY <1>7, <1>8, <2>1 DEF RegionInv, RegionStore, LiveOwners
<1>15. IndexesAgree'
  BY <1>5, <1>6, <1>7, <1>8 DEF RegionInv, RegionStore, IndexesAgree
<1>16. DeletedRegionsAreGone'
  <2> SUFFICES ASSUME ~tally'.overlapped, NEW h \in regionPast'.deleted
               PROVE  /\ regions'[h] = Nobody /\ h \notin regionIndex' /\ aclIndex'[h] = {}
                      /\ \A b \in RegionAgents : acl'[<<h, b>>] = NoEntry /\ h \notin agentRegions'[b]
    BY DEF DeletedRegionsAreGone
  <2>1. h \in regionPast.deleted /\ h # g /\ h \in RegionIds
    BY <1>3, <1>6, <1>9, <1>10 DEF RegionTyped
  <2>2. /\ regions[h] = Nobody /\ h \notin regionIndex /\ aclIndex[h] = {}
        /\ \A b \in RegionAgents : acl[<<h, b>>] = NoEntry /\ h \notin agentRegions[b]
    BY <1>10, <2>1 DEF RegionInv, RegionStore, DeletedRegionsAreGone
  <2> QED BY <1>5, <1>7, <1>8, <2>1, <2>2
<1> QED BY <1>10, <1>11, <1>12, <1>13, <1>14, <1>15, <1>16 DEF RegionInv, RegionStore

LEMMA AclDropKeeps ==
    ASSUME RegionInv, NEW r \in Requests, AclDrop(r)
    PROVE  RegionInv'
<1>1. At(r, "aclDrop") /\ r \in Busy /\ PlaceOf(request[r].todo, Loc(r)) /\ Done(r)
  BY DEF AclDrop, At, RegionInv, Places
<1>2. PICK g \in RegionIds, a \in RegionAgents :
        /\ This(r).id = g /\ This(r).how = a /\ Looked(Loc(r), g) /\ Loc(r) \in RegionLoc
        /\ Rest(r) = <<Call("regionLog", g, "region_access_revoked")>>
  BY <1>1, AtRegion DEF ProbesFor
<1>3. RegionTyped /\ <<g, a>> \in Pairs
  BY <1>2 DEF RegionInv, Pairs
<1>4. PICK disowned : disowned = IF regions[g] = a THEN regionPast.disowned \cup {g} ELSE regionPast.disowned
  OBVIOUS
<1>5. /\ acl' = [acl EXCEPT ![<<g, a>>] = NoEntry]
      /\ aclIndex' = [aclIndex EXCEPT ![g] = @ \ {a}]
      /\ agentRegions' = [agentRegions EXCEPT ![a] = @ \ {g}]
      /\ regionPast' = [regionPast EXCEPT !.granted[<<g, a>>] = NoEntry, !.disowned = disowned]
      /\ UNCHANGED <<regions, regionIndex, regionLog, regionClock>>
  BY <1>2, <1>4 DEF AclDrop
<1>6. /\ regionPast'.used = regionPast.used /\ regionPast'.deleted = regionPast.deleted
      /\ regionPast'.granted = [regionPast.granted EXCEPT ![<<g, a>>] = NoEntry] /\ regionPast'.swept = regionPast.swept
      /\ regionPast'.disowned = disowned
      /\ regionPast' \in [used : SUBSET RegionIds, deleted : SUBSET RegionIds,
                       granted : [Pairs -> {NoEntry} \cup Expiries],
                       swept : SUBSET Pairs, disowned : SUBSET RegionIds]
  <2>1. regionPast \in [used : SUBSET RegionIds, deleted : SUBSET RegionIds,
                       granted : [Pairs -> {NoEntry} \cup Expiries],
                       swept : SUBSET Pairs, disowned : SUBSET RegionIds]
    BY <1>3 DEF RegionTyped
  <2>2. regionPast' = [used |-> regionPast.used, deleted |-> regionPast.deleted,
                       granted |-> [regionPast.granted EXCEPT ![<<g, a>>] = NoEntry],
                       swept |-> regionPast.swept, disowned |-> disowned]
    BY <1>5, <2>1
  <2>3. [regionPast.granted EXCEPT ![<<g, a>>] = NoEntry] \in [Pairs -> {NoEntry} \cup Expiries]
    BY <1>3, <2>1
  <2>4. disowned \subseteq RegionIds
    BY <1>4, <2>1
  <2> QED BY <2>1, <2>2, <2>3, <2>4
<1>7. /\ acl' \in [Pairs -> {NoEntry} \cup Expiries] /\ acl'[<<g, a>>] = NoEntry /\ regionPast'.granted[<<g, a>>] = NoEntry
      /\ \A h \in RegionIds, b \in RegionAgents : h # g \/ b # a =>
           acl'[<<h, b>>] = acl[<<h, b>>] /\ regionPast'.granted[<<h, b>>] = regionPast.granted[<<h, b>>]
  <2>1. \A h \in RegionIds, b \in RegionAgents : <<h, b>> \in Pairs /\ (h # g \/ b # a => <<h, b>> # <<g, a>>)
    BY DEF Pairs
  <2>2. acl \in [Pairs -> {NoEntry} \cup Expiries] /\ regionPast.granted \in [Pairs -> {NoEntry} \cup Expiries]
    BY <1>3 DEF RegionTyped
  <2> QED BY <1>3, <1>5, <1>6, <2>1, <2>2
<1>8. /\ aclIndex' \in [RegionIds -> SUBSET RegionAgents] /\ agentRegions' \in [RegionAgents -> SUBSET RegionIds]
      /\ \A h \in RegionIds, b \in RegionAgents :
           /\ h # g \/ b # a => (b \in aclIndex'[h] <=> b \in aclIndex[h]) /\ (h \in agentRegions'[b] <=> h \in agentRegions[b])
      /\ g \notin agentRegions'[a]
      /\ \A h \in RegionIds : aclIndex'[h] \subseteq aclIndex[h]
  BY <1>3, <1>5 DEF RegionTyped
<1>9. DOMAIN request' = Requests /\ tally' = tally /\ Places' /\ OneCreator' /\ OneRequest'
  <2>1. ASSUME NEW h \in RegionIds, NEW b \in RegionAgents, Removable(h, b)
        PROVE  Removable(h, b)'
    <3>1. CASE h # g \/ b # a
      BY <1>5, <1>6, <1>7, <2>1, <3>1 DEF Removable, expired
    <3>2. CASE h = g /\ b = a
      BY <1>5, <1>6, <1>7, <2>1, <3>2 DEF Removable
    <3> QED BY <3>1, <3>2
  <2> QED BY <1>1, <1>2, <1>5, <1>6, <2>1, RegionWritten DEF Logged
<1>10. RegionTyped'
  BY <1>3, <1>5, <1>6, <1>7, <1>8, <1>9 DEF RegionTyped
<1>11. UnusedAreNew'
  <2> SUFFICES ASSUME NEW h \in RegionIds \ regionPast.used
               PROVE  /\ h \notin regionPast.deleted /\ regions[h] = Nobody
                      /\ \A b \in RegionAgents :
                           acl'[<<h, b>>] = NoEntry /\ regionPast'.granted[<<h, b>>] = NoEntry /\ h \notin agentRegions'[b]
    BY <1>5, <1>6 DEF UnusedAreNew
  <2>1. h # g
    BY <1>2 DEF Looked
  <2> QED BY <1>7, <1>8, <2>1 DEF RegionInv, RegionStore, UnusedAreNew
<1>12. LiveGrants'
  <2> SUFFICES ASSUME NEW h \in RegionIds, NEW b \in RegionAgents,
                      regionPast'.granted[<<h, b>>] # NoEntry, h \notin regionPast'.deleted,
                      <<h, b>> \notin regionPast'.swept, ~expired(regionPast'.granted[<<h, b>>])
               PROVE  acl'[<<h, b>>] = regionPast'.granted[<<h, b>>] /\ h \in agentRegions'[b] /\ b \in aclIndex'[h]
    BY <1>5 DEF LiveGrants, expired
  <2>1. h # g \/ b # a
    BY <1>7
  <2>2. acl[<<h, b>>] = regionPast.granted[<<h, b>>] /\ h \in agentRegions[b] /\ b \in aclIndex[h]
    BY <1>6, <1>7, <2>1 DEF RegionInv, RegionStore, LiveGrants
  <2> QED BY <1>7, <1>8, <2>1, <2>2
<1>13. LiveOwners'
  <2> SUFFICES ASSUME NEW h \in RegionIds, h \notin regionPast.deleted, regions[h] # Nobody
               PROVE  /\ acl'[<<h, regions[h]>>] = NoEntry
                      /\ h \notin disowned => h \in agentRegions'[regions[h]]
    BY <1>5, <1>6 DEF LiveOwners
  <2>1. regions[h] \in RegionAgents
    BY <1>3 DEF RegionTyped
  <2> QED BY <1>4, <1>7, <1>8, <2>1 DEF RegionInv, RegionStore, LiveOwners
<1>14. IndexesAgree'
  BY <1>5, <1>6, <1>7, <1>8 DEF RegionInv, RegionStore, IndexesAgree
<1>15. DeletedRegionsAreGone'
  <2> SUFFICES ASSUME ~tally'.overlapped, NEW h \in regionPast'.deleted
               PROVE  /\ regions'[h] = Nobody /\ h \notin regionIndex' /\ aclIndex'[h] = {}
                      /\ \A b \in RegionAgents : acl'[<<h, b>>] = NoEntry /\ h \notin agentRegions'[b]
    BY DEF DeletedRegionsAreGone
  <2>1. h \in regionPast.deleted /\ h \in RegionIds
    BY <1>3, <1>6 DEF RegionTyped
  <2>2. /\ regions[h] = Nobody /\ h \notin regionIndex /\ aclIndex[h] = {}
        /\ \A b \in RegionAgents : acl[<<h, b>>] = NoEntry /\ h \notin agentRegions[b]
    BY <1>9, <2>1 DEF RegionInv, RegionStore, DeletedRegionsAreGone
  <2> QED BY <1>5, <1>7, <1>8, <2>1, <2>2
<1> QED BY <1>9, <1>10, <1>11, <1>12, <1>13, <1>14, <1>15 DEF RegionInv, RegionStore

LEMMA SweepKeeps ==
    ASSUME RegionInv, NEW r \in Requests, Sweep(r)
    PROVE  RegionInv'
<1>1. At(r, "sweep") /\ r \in Busy /\ PlaceOf(request[r].todo, Loc(r)) /\ Done(r)
  BY DEF Sweep, At, RegionInv, Places
<1>2. PICK a \in RegionAgents : /\ \A g \in Loc(r).old : Removable(g, a)
                                /\ This(r).id = a /\ Rest(r) = <<>> /\ Loc(r) \in RegionLoc
  BY <1>1, AtRegion DEF ProbesFor
<1> DEFINE old == Loc(r).old
<1>3. RegionTyped /\ old \subseteq RegionIds
  BY <1>2 DEF RegionInv, RegionLoc
<1>4. /\ acl' = [p \in Pairs |-> IF p[2] = a /\ p[1] \in old THEN NoEntry ELSE acl[p]]
      /\ aclIndex' = [g \in RegionIds |-> IF g \in old THEN aclIndex[g] \ {a} ELSE aclIndex[g]]
      /\ agentRegions' = [agentRegions EXCEPT ![a] = @ \ old]
      /\ UNCHANGED <<regions, regionIndex, regionLog, regionClock, regionPast>>
  BY <1>2 DEF Sweep
<1>5. \A g \in old : Removable(g, a)
  BY <1>2
<1> HIDE DEF old
<1>6. /\ acl' \in [Pairs -> {NoEntry} \cup Expiries]
      /\ \A h \in RegionIds, b \in RegionAgents :
           acl'[<<h, b>>] = IF b = a /\ h \in old THEN NoEntry ELSE acl[<<h, b>>]
  BY <1>3, <1>4 DEF RegionTyped, Pairs
<1>7. /\ aclIndex' \in [RegionIds -> SUBSET RegionAgents] /\ agentRegions' \in [RegionAgents -> SUBSET RegionIds]
      /\ \A h \in RegionIds, b \in RegionAgents :
           /\ b \in aclIndex'[h] <=> b \in aclIndex[h] /\ ~(b = a /\ h \in old)
           /\ h \in agentRegions'[b] <=> h \in agentRegions[b] /\ ~(b = a /\ h \in old)
  BY <1>3, <1>4 DEF RegionTyped
<1>8. DOMAIN request' = Requests /\ tally' = tally /\ Places' /\ OneCreator' /\ OneRequest'
  <2>1. \A h \in RegionIds, b \in RegionAgents : Removable(h, b) => Removable(h, b)'
    BY <1>4 DEF Removable, expired
  <2> QED BY <1>1, <1>2, <1>4, <2>1, RegionWritten
<1>9. RegionTyped'
  BY <1>3, <1>4, <1>6, <1>7, <1>8 DEF RegionTyped
<1>10. UnusedAreNew'
  BY <1>4, <1>6, <1>7 DEF RegionInv, RegionStore, UnusedAreNew
<1>11. LiveGrants'
  <2> SUFFICES ASSUME NEW h \in RegionIds, NEW b \in RegionAgents,
                      regionPast.granted[<<h, b>>] # NoEntry, h \notin regionPast.deleted,
                      <<h, b>> \notin regionPast.swept, ~expired(regionPast.granted[<<h, b>>])
               PROVE  acl'[<<h, b>>] = regionPast.granted[<<h, b>>] /\ h \in agentRegions'[b] /\ b \in aclIndex'[h]
    BY <1>4 DEF LiveGrants, expired
  <2>1. ~(b = a /\ h \in old)
    BY <1>5 DEF Removable
  <2>2. acl[<<h, b>>] = regionPast.granted[<<h, b>>] /\ h \in agentRegions[b] /\ b \in aclIndex[h]
    BY DEF RegionInv, RegionStore, LiveGrants
  <2> QED BY <1>6, <1>7, <2>1, <2>2
<1>12. LiveOwners'
  <2> SUFFICES ASSUME NEW h \in RegionIds, h \notin regionPast.deleted, regions[h] # Nobody
               PROVE  /\ acl'[<<h, regions[h]>>] = NoEntry
                      /\ h \notin regionPast.disowned => h \in agentRegions'[regions[h]]
    BY <1>4 DEF LiveOwners
  <2>1. regions[h] \in RegionAgents /\ ~(regions[h] = a /\ h \in old)
    BY <1>3, <1>5 DEF RegionTyped, Removable
  <2> QED BY <1>6, <1>7, <2>1 DEF RegionInv, RegionStore, LiveOwners
<1>13. IndexesAgree'
  BY <1>4, <1>6, <1>7 DEF RegionInv, RegionStore, IndexesAgree
<1>14. DeletedRegionsAreGone'
  <2> SUFFICES ASSUME ~tally'.overlapped, NEW h \in regionPast.deleted
               PROVE  /\ regions'[h] = Nobody /\ h \notin regionIndex' /\ aclIndex'[h] = {}
                      /\ \A b \in RegionAgents : acl'[<<h, b>>] = NoEntry /\ h \notin agentRegions'[b]
    BY <1>4 DEF DeletedRegionsAreGone
  <2>1. h \in RegionIds
    BY <1>3 DEF RegionTyped
  <2>2. /\ regions[h] = Nobody /\ h \notin regionIndex /\ aclIndex[h] = {}
        /\ \A b \in RegionAgents : acl[<<h, b>>] = NoEntry /\ h \notin agentRegions[b]
    BY <1>8, <2>1 DEF RegionInv, RegionStore, DeletedRegionsAreGone
  <2>3. aclIndex'[h] = {}
    BY <1>7, <2>1, <2>2
  <2> QED BY <1>4, <1>6, <1>7, <2>1, <2>2, <2>3
<1> QED BY <1>8, <1>9, <1>10, <1>11, <1>12, <1>13, <1>14 DEF RegionInv, RegionStore

LEMMA RegionDropKeeps ==
    ASSUME RegionInv, NEW r \in Requests, RegionDrop(r)
    PROVE  RegionInv'
<1>1. At(r, "regionDrop") /\ r \in Busy /\ PlaceOf(request[r].todo, Loc(r)) /\ Done(r)
  BY DEF RegionDrop, At, RegionInv, Places
<1>2. PICK g \in RegionIds :
        /\ This(r).id = g /\ Looked(Loc(r), g) /\ Rest(r) = <<>> /\ Loc(r) \in RegionLoc
        /\ ~tally.overlapped => Loc(r).agents = aclIndex[g]
  BY <1>1, AtRegion DEF ProbesFor
<1> DEFINE owner == Loc(r).owner
           agents == Loc(r).agents
<1>3. RegionTyped
  BY DEF RegionInv
<1>4. /\ regions' = [regions EXCEPT ![g] = Nobody]
      /\ regionIndex' = regionIndex \ {g}
      /\ agentRegions' = [a \in RegionAgents |->
           IF a = owner \/ a \in agents THEN agentRegions[a] \ {g} ELSE agentRegions[a]]
      /\ acl' = [p \in Pairs |-> IF p[1] = g /\ p[2] \in agents THEN NoEntry ELSE acl[p]]
      /\ aclIndex' = [aclIndex EXCEPT ![g] = {}]
      /\ regionPast' = [regionPast EXCEPT !.deleted = @ \cup {g}]
      /\ UNCHANGED <<regionLog, regionClock>>
  BY <1>2 DEF RegionDrop
<1>5. /\ g \in regionPast.used
      /\ ~tally.overlapped => g \notin regionPast.deleted /\ owner = regions[g] /\ agents = aclIndex[g]
  BY <1>2 DEF Looked
<1> HIDE DEF owner, agents
<1>6. /\ regionPast'.used = regionPast.used /\ regionPast'.deleted = regionPast.deleted \cup {g}
      /\ regionPast'.granted = regionPast.granted /\ regionPast'.swept = regionPast.swept
      /\ regionPast'.disowned = regionPast.disowned
      /\ regionPast' \in [used : SUBSET RegionIds, deleted : SUBSET RegionIds,
                       granted : [Pairs -> {NoEntry} \cup Expiries],
                       swept : SUBSET Pairs, disowned : SUBSET RegionIds]
  BY <1>3, <1>4 DEF RegionTyped
<1>7. /\ acl' \in [Pairs -> {NoEntry} \cup Expiries]
      /\ \A h \in RegionIds, b \in RegionAgents :
           acl'[<<h, b>>] = IF h = g /\ b \in agents THEN NoEntry ELSE acl[<<h, b>>]
  BY <1>3, <1>4 DEF RegionTyped, Pairs
<1>8. /\ regions' \in [RegionIds -> RegionAgents \cup {Nobody}] /\ aclIndex' \in [RegionIds -> SUBSET RegionAgents]
      /\ agentRegions' \in [RegionAgents -> SUBSET RegionIds]
      /\ regions'[g] = Nobody /\ aclIndex'[g] = {}
      /\ \A h \in RegionIds \ {g} : regions'[h] = regions[h] /\ aclIndex'[h] = aclIndex[h]
      /\ \A h \in RegionIds, b \in RegionAgents :
           h \in agentRegions'[b] <=> h \in agentRegions[b] /\ ~(h = g /\ (b = owner \/ b \in agents))
  BY <1>3, <1>4 DEF RegionTyped
<1>9. DOMAIN request' = Requests /\ tally' = tally /\ Places' /\ OneCreator' /\ OneRequest'
  <2>1. \A h \in RegionIds, b \in RegionAgents : Removable(h, b) => Removable(h, b)'
    BY <1>4, <1>6, <1>8 DEF Removable, expired
  <2>2. \A h \in regionPast.used : regions'[h] = regions[h] \/ h \in regionPast'.deleted
    BY <1>3, <1>6, <1>8 DEF RegionTyped
  <2>3. regionPast.used \subseteq regionPast'.used /\ regionPast.deleted \subseteq regionPast'.deleted
    BY <1>6
  <2> QED BY <1>1, <1>2, <1>6, <2>1, <2>2, <2>3, RegionWritten
<1>10. RegionTyped'
  BY <1>3, <1>4, <1>6, <1>7, <1>8, <1>9 DEF RegionTyped
<1>11. UnusedAreNew'
  BY <1>5, <1>6, <1>7, <1>8 DEF RegionInv, RegionStore, UnusedAreNew
<1>12. LiveGrants'
  BY <1>4, <1>6, <1>7, <1>8 DEF RegionInv, RegionStore, LiveGrants, expired
<1>13. LiveOwners'
  <2> SUFFICES ASSUME NEW h \in RegionIds, h \notin regionPast.deleted, h # g, regions[h] # Nobody
               PROVE  /\ acl'[<<h, regions[h]>>] = NoEntry
                      /\ h \notin regionPast.disowned => h \in agentRegions'[regions[h]]
    BY <1>6, <1>8 DEF LiveOwners
  <2>1. regions[h] \in RegionAgents
    BY <1>3 DEF RegionTyped
  <2> QED BY <1>7, <1>8, <2>1 DEF RegionInv, RegionStore, LiveOwners
<1>14. IndexesAgree'
  BY <1>6, <1>7, <1>8 DEF RegionInv, RegionStore, IndexesAgree
<1>15. DeletedRegionsAreGone'
  <2> SUFFICES ASSUME ~tally'.overlapped, NEW h \in regionPast'.deleted
               PROVE  /\ regions'[h] = Nobody /\ h \notin regionIndex' /\ aclIndex'[h] = {}
                      /\ \A b \in RegionAgents : acl'[<<h, b>>] = NoEntry /\ h \notin agentRegions'[b]
    BY DEF DeletedRegionsAreGone
  <2>1. CASE h # g
    <3>1. h \in regionPast.deleted /\ h \in RegionIds
      BY <1>3, <1>6, <2>1 DEF RegionTyped
    <3>2. /\ regions[h] = Nobody /\ h \notin regionIndex /\ aclIndex[h] = {}
          /\ \A b \in RegionAgents : acl[<<h, b>>] = NoEntry /\ h \notin agentRegions[b]
      BY <1>9, <3>1 DEF RegionInv, RegionStore, DeletedRegionsAreGone
    <3> QED BY <1>4, <1>7, <1>8, <2>1, <3>1, <3>2
  <2>2. CASE h = g
    <3>1. g \notin regionPast.deleted /\ owner = regions[g] /\ agents = aclIndex[g]
      BY <1>5, <1>9
    <3>2. \A b \in RegionAgents : /\ acl[<<g, b>>] # NoEntry => b \in agents
                                  /\ g \in agentRegions[b] => b = owner \/ b \in agents
      BY <3>1 DEF RegionInv, RegionStore, IndexesAgree
    <3> QED BY <1>4, <1>7, <1>8, <2>2, <3>2
  <2> QED BY <2>1, <2>2
<1> QED BY <1>9, <1>10, <1>11, <1>12, <1>13, <1>14, <1>15 DEF RegionInv, RegionStore

-----------------------------------------------------------------------------

LEMMA RegionInit == InitRequests /\ InitRegions => RegionInv
<1> SUFFICES ASSUME InitRequests, InitRegions
             PROVE  RegionInv
  OBVIOUS
<1>1. PICK shared \in SUBSET RegionIds, owner \in RegionAgents, with \in RegionAgents, e \in Expiries :
      /\ Cardinality(shared) <= 1 /\ owner # with
      /\ regions = [g \in RegionIds |-> IF g \in shared THEN owner ELSE Nobody]
      /\ regionIndex = shared
      /\ agentRegions = [a \in RegionAgents |-> IF a \in {owner, with} THEN shared ELSE {}]
      /\ acl = [p \in Pairs |-> IF p[1] \in shared /\ p[2] = with THEN e ELSE NoEntry]
      /\ aclIndex = [g \in RegionIds |-> IF g \in shared THEN {with} ELSE {}]
      /\ regionLog = {}
      /\ regionClock = 0
      /\ regionPast = [used |-> shared, deleted |-> {}, granted |-> acl, swept |-> {}, disowned |-> {}]
  BY DEF InitRegions
<1>2. \A r \in Requests : request[r].todo = <<>>
  BY DEF InitRequests, Idle
<1>3. Busy = {}
  BY <1>2 DEF Busy
<1>4. \A g \in RegionIds, a \in RegionAgents :
        acl[<<g, a>>] = IF g \in shared /\ a = with THEN e ELSE NoEntry
  BY <1>1 DEF Pairs
<1>5. RegionTyped
  <2>1. acl \in [Pairs -> {NoEntry} \cup Expiries]
    BY <1>1
  <2> QED BY <1>1, <2>1 DEF RegionTyped, InitRequests
<1>6. Places /\ OneCreator /\ OneRequest
  BY <1>2, <1>3 DEF Places, PlaceOf, OneCreator, OneRequest, At
<1>7. UnusedAreNew /\ DeletedRegionsAreGone
  BY <1>1, <1>4 DEF UnusedAreNew, DeletedRegionsAreGone
<1>8. LiveGrants
  BY <1>1, <1>4 DEF LiveGrants
<1>9. LiveOwners
  BY <1>1, <1>4, RegionAssumption DEF LiveOwners
<1>10. IndexesAgree
  BY <1>1, <1>4 DEF IndexesAgree
<1> QED BY <1>5, <1>6, <1>7, <1>8, <1>9, <1>10 DEF RegionInv, RegionStore

LEMMA RegionNext == RegionInv /\ [NextRegions]_<<requestVars, regionVars>> => RegionInv'
<1> SUFFICES ASSUME RegionInv, [NextRegions]_<<requestVars, regionVars>>
             PROVE  RegionInv'
  OBVIOUS
<1>1. ASSUME NEW r \in Requests, NEW g \in RegionIds, NEW a \in RegionAgents, CreateRegion(r, g, a)
      PROVE  RegionInv'
  BY <1>1, CreateRegionKeeps
<1>2. ASSUME NEW r \in Requests,
             \/ \E g \in RegionIds :
                  \/ DeleteRegion(r, g)
                  \/ \E who \in RegionAgents \cup {"admin"} :
                       \/ UpdateRegion(r, g, who)
                       \/ \E a \in RegionAgents :
                            (\E e \in Expiries : GrantAccess(r, g, a, e, who)) \/ RevokeAccess(r, g, a, who)
             \/ \E a \in RegionAgents : ListAccessible(r, a)
      PROVE  RegionInv'
  BY <1>2, OtherStarts
<1>3. ASSUME NEW r \in Requests,
             \/ RegionSet(r) \/ RegionNeed(r) \/ RegionOwned(r) \/ RegionPut(r)
             \/ AclList(r) \/ RegionDrop(r) \/ AclSet(r) \/ AclDrop(r) \/ Reach(r) \/ Probe(r) \/ Sweep(r)
             \/ LogRegion(r)
      PROVE  RegionInv'
  BY <1>3, RegionSetKeeps, RegionNeedKeeps, RegionOwnedKeeps, RegionPutKeeps, AclListKeeps, RegionDropKeeps,
     AclSetKeeps, AclDropKeeps, ReachKeeps, ProbeKeeps, SweepKeeps, LogRegionKeeps
<1>4. ASSUME NEW r \in Requests, CommandFails(r), UNCHANGED regionVars
      PROVE  RegionInv'
  BY <1>4, RegionRefused DEF CommandFails
<1>5. CASE UNCHANGED <<requestVars, regionVars>>
  <2>1. \A todo, loc : PlaceOf(todo, loc)' <=> PlaceOf(todo, loc)
    BY <1>5 DEF PlaceOf, Asks, Looked, Knows, Lists, EndsInSweep, Removable, expired, requestVars, regionVars
  <2>2. Places'
    BY <1>5, <2>1 DEF RegionInv, Places, requestVars, Loc
  <2>3. OneCreator' /\ OneRequest' /\ RegionTyped'
    BY <1>5 DEF RegionInv, OneCreator, OneRequest, RegionTyped, requestVars, regionVars, At, Busy, This
  <2>4. RegionStore'
    BY <1>5 DEF RegionInv, RegionStore, UnusedAreNew, LiveGrants, LiveOwners, IndexesAgree, DeletedRegionsAreGone,
                expired, requestVars, regionVars
  <2> QED BY <2>2, <2>3, <2>4 DEF RegionInv
<1> QED BY <1>1, <1>2, <1>3, <1>4, <1>5, RegionTickKeeps DEF NextRegions

(* The documents, entries and indexes of regions keep their types, whichever *)
(* requests overlap, fail or time passes (RegionStore).                      *)
THEOREM RegionTypesCorrect == RegionSpec => []RegionTypeOK
<1>1. RegionInv => RegionTypeOK
  BY DEF RegionInv, RegionTyped, RegionTypeOK
<1> QED BY <1>1, RegionInit, RegionNext, PTL DEF RegionSpec

(* However requests overlap and fail: an agent that was granted access      *)
(* reaches the region until the grant expires, is revoked or is taken by a  *)
(* listing that found an older grant expired; an owner reaches its region   *)
(* unless its own access was revoked; and requests that run one after the   *)
(* other leave nothing of a deleted region (grant_region_access,            *)
(* revoke_region_access, delete_region, list_agent_accessible_regions).     *)
THEOREM RegionsStayReached == RegionSpec => []RegionsAreReached
<1>1. RegionInv => RegionsAreReached
  <2> SUFFICES ASSUME RegionInv
               PROVE  RegionsAreReached
    OBVIOUS
  <2>1. GrantsReach
    <3> SUFFICES ASSUME NEW g \in RegionIds, NEW a \in RegionAgents,
                        regionPast.granted[<<g, a>>] # NoEntry, Alive(g), ~expired(regionPast.granted[<<g, a>>]),
                        <<g, a>> \notin regionPast.swept
                 PROVE  g \in list_agent_accessible_regions(a) /\ a \in aclIndex[g]
      BY DEF GrantsReach, Pairs
    <3>1. acl[<<g, a>>] = regionPast.granted[<<g, a>>] /\ g \in agentRegions[a] /\ a \in aclIndex[g]
      BY DEF RegionInv, RegionStore, LiveGrants, Alive
    <3> QED BY <3>1 DEF list_agent_accessible_regions, Alive
  <2>2. OwnersReach
    <3> SUFFICES ASSUME NEW g \in RegionIds, Alive(g), g \notin regionPast.disowned
                 PROVE  g \in list_agent_accessible_regions(regions[g])
      BY DEF OwnersReach
    <3>1. acl[<<g, regions[g]>>] = NoEntry /\ g \in agentRegions[regions[g]]
      BY DEF RegionInv, RegionStore, LiveOwners, Alive
    <3> QED BY <3>1 DEF list_agent_accessible_regions
  <2> QED BY <2>1, <2>2 DEF RegionsAreReached, RegionInv, RegionStore
<1> QED BY <1>1, RegionInit, RegionNext, PTL DEF RegionSpec

-----------------------------------------------------------------------------
(* Embedding adapters: what a request has still to do.                      *)

\* A search, or feedback, that has n facts still to train the adapter with.
CatchList(k, how, n) == <<Call("catch", k, how)>> \o Train(k, n)
AddList(k, n)   == <<Call("agentAdd", k, "-")>> \o CatchList(k, "-", n)
SlotList(k, n)  == <<Call("slotIndex", k, "-")>> \o (IF k[2] = "agent" THEN AddList(k, n) ELSE CatchList(k, "-", n))
SetList(k, n)   == <<Call("weightsSet", k, "-")>> \o SlotList(k, n)
CacheList(k, n) == <<Call("cacheAdapter", k, "-")>> \o Train(k, n)
LoadList(k, n)  == <<Call("load", k, "-")>> \o CacheList(k, n)
GetList(k, n)   == <<Call("getAdapter", k, "-")>> \o Train(k, n)

\* A reset deletes one adapter or two, then evicts them.
RemList(k, rest)    == <<Call("agentRem", k, "-")>> \o rest
UnslotList(k, rest) == <<Call("slotIndex", k, "-")>> \o (IF k[2] = "agent" THEN RemList(k, rest) ELSE rest)
DelList(k, rest)    == <<Call("weightsDel", k, "-")>> \o UnslotList(k, rest)
EvictList(k, rest)  == <<Call("evict", k, "-")>> \o rest

EvictBoth(u) == EvictList(<<u, "agent">>, EvictList(<<u, "__global__">>, <<>>))

\* A deletion of a reset: of which key, what comes after it, and what is
\* deleted by then and not evicted.
Drops(u) ==
    LET agent == <<u, "agent">>  global == <<u, "__global__">> IN
    {[key |-> agent, rest |-> EvictList(agent, <<>>), gone |-> {}],
     [key |-> global, rest |-> EvictList(global, <<>>), gone |-> {}],
     [key |-> agent, rest |-> DelList(global, EvictBoth(u)), gone |-> {}],
     [key |-> global, rest |-> EvictBoth(u), gone |-> {agent}]}

-----------------------------------------------------------------------------
(* The inductive invariant.                                                 *)

Given == 1 .. adapterPast.steps

AdapterPast == [steps : Nat, taken : [AdapterKeys -> SUBSET Given], forgotten : [AdapterKeys -> SUBSET Given],
                reset : BOOLEAN, restarts : Nat, cut : BOOLEAN, raced : BOOLEAN]

AdapterTyped ==
    /\ adapterPast \in AdapterPast /\ adapterPast.steps <= MaxTraining
    /\ weights \in [AdapterKeys -> SUBSET Given]
    /\ adapters \in [AdapterKeys -> {{}} \cup {{w} : w \in SUBSET Given}]
    /\ agentUsers \subseteq AdapterUsers

RequestsTyped ==
    /\ tally \in [started : Nat, faults : Nat, overlapped : BOOLEAN]
    /\ DOMAIN request = Requests

\* When requests run one after the other and no command fails: the adapter is
\* stored as it was trained, and the index knows whether the user has one.
InOrder == ~tally.overlapped /\ tally.faults = 0
Learnt(k) == weights[k] = adapterPast.taken[k] /\ adapters[k] \subseteq {weights[k]}
Indexed(u) == adapterPast.cut \/ (u \in agentUsers <=> weights[<<u, "agent">>] # Untrained)

Remembered(gone, late) ==
    InOrder => /\ \A k \in AdapterKeys \ gone : Learnt(k)
               /\ \A u \in AdapterUsers \ late : Indexed(u)

\* The users whose index entry a deletion or a save of this key is about.
Late(k) == IF k[2] = "agent" THEN {k[1]} ELSE {}

\* Deleted and not evicted yet.
Deleted(gone) ==
    /\ gone # {} => adapterPast.reset
    /\ ~tally.overlapped => \A k \in gone : weights[k] = Untrained

\* When nothing else happened to the adapters, the store and who is about to
\* write know nothing but what the cache was trained with.
Undisturbed == ~adapterPast.raced /\ ~adapterPast.reset /\ adapterPast.restarts = 0 /\ tally.faults = 0

Carries(loc, k) ==
    /\ Undisturbed => loc.adapter \subseteq adapterPast.taken[k]
    /\ ~tally.overlapped => loc.adapter \cap adapterPast.forgotten[k] = {}

\* What a request knows of the adapter that it loaded, trained or saved.
Loaded(loc, k)  == InOrder => loc.adapter = weights[k]
Trained(loc, k) ==
    InOrder => adapters[k] = {loc.adapter} /\ loc.adapter = adapterPast.taken[k] /\ loc.adapter # Untrained
Stored(k)       == InOrder => weights[k] # Untrained /\ adapters[k] # {}
Kept(k)         == InOrder => adapters[k] # {}

Learns(todo, loc, k, n) ==
    \/ todo \in {GetList(k, n), LoadList(k, n)} /\ Remembered({}, {})
    \/ /\ todo = CacheList(k, n) /\ Remembered({}, {}) /\ Carries(loc, k)
       /\ Loaded(loc, k)
    \/ /\ todo = SetList(k, n) /\ Remembered({k}, {}) /\ Carries(loc, k)
       /\ Trained(loc, k)
    \/ /\ todo = SlotList(k, n) \/ (k[2] = "agent" /\ todo = AddList(k, n))
       /\ Remembered({}, Late(k))
       /\ Stored(k)
    \/ /\ todo \in {CatchList(k, "-", n), CatchList(k, "failed", n), Train(k, n)}
       /\ Remembered({}, {})
       /\ Kept(k)

Forgets(todo, u) ==
    \/ \E d \in Drops(u) :
         \/ todo = DelList(d.key, d.rest) /\ Remembered(d.gone, {}) /\ Deleted(d.gone)
         \/ /\ todo = UnslotList(d.key, d.rest) \/ (d.key[2] = "agent" /\ todo = RemList(d.key, d.rest))
            /\ Remembered(d.gone \cup {d.key}, Late(d.key)) /\ Deleted(d.gone \cup {d.key})
    \/ LET both == {<<u, "agent">>, <<u, "__global__">>} IN
         \/ todo = EvictBoth(u) /\ Remembered(both, {}) /\ Deleted(both)
         \/ \E k \in both : todo = EvictList(k, <<>>) /\ Remembered({k}, {}) /\ Deleted({k})

ListsUsers(todo) ==
    \/ /\ todo = <<Call("listUsers", "-", "-")>> \/ \E users \in SUBSET AdapterUsers : todo = Probes(users)
       /\ Remembered({}, {})
    \/ \E users \in SUBSET AdapterUsers, u \in AdapterUsers :
         /\ todo = RemList(<<u, "agent">>, Probes(users)) /\ Remembered({}, {u})
         /\ InOrder => weights[<<u, "agent">>] = Untrained

AdapterPlace(todo, loc) ==
    \/ todo = <<>>
    \/ /\ loc \in [adapter : SUBSET Given]
       /\ \/ \E k \in AdapterKeys, n \in 0 .. MaxRated : Learns(todo, loc, k, n)
          \/ \E u \in AdapterUsers : Forgets(todo, u)
          \/ ListsUsers(todo)

AdapterPlaces == \A r \in Requests : AdapterPlace(request[r].todo, Loc(r))

NothingComesBack ==
    ~tally.overlapped => \A k \in AdapterKeys :
      (weights[k] \cup UNION adapters[k]) \cap adapterPast.forgotten[k] = {}

CacheIsTaken ==
    Undisturbed => \A k \in AdapterKeys :
      /\ (adapters[k] = {} /\ adapterPast.taken[k] = {}) \/ adapters[k] = {adapterPast.taken[k]}
      /\ weights[k] \subseteq adapterPast.taken[k]

AdapterStore == NothingComesBack /\ CacheIsTaken /\ (Busy = {} => Remembered({}, {}))
AdapterInv == AdapterTyped /\ RequestsTyped /\ AdapterPlaces /\ OneRequest /\ AdapterStore

-----------------------------------------------------------------------------
(* Lists of commands.                                                       *)

AdapterVerbs == {"getAdapter", "load", "cacheAdapter", "train", "weightsSet", "slotIndex", "agentAdd", "catch",
                 "weightsDel", "agentRem", "evict", "listUsers", "probe"}
AdapterCall == [do : AdapterVerbs, id : {"-"} \cup AdapterKeys \cup SUBSET AdapterUsers,
                how : {"-", "failed"} \cup Nat]

(* A command before others. *)
LEMMA FirstOfList ==
    ASSUME NEW S, NEW c \in S, NEW rest \in Seq(S)
    PROVE  /\ <<c>> \o rest \in Seq(S) /\ <<c>> \o rest # <<>>
           /\ Head(<<c>> \o rest) = c /\ Tail(<<c>> \o rest) = rest
<1> DEFINE todo == <<c>> \o rest
<1>1. <<c>> \in Seq(S) /\ Len(<<c>>) = 1 /\ <<c>>[1] = c
  OBVIOUS
<1>2. /\ todo \in Seq(S) /\ Len(todo) = 1 + Len(rest)
      /\ \A i \in 1 .. 1 + Len(rest) : todo[i] = IF i <= 1 THEN <<c>>[i] ELSE rest[i - 1]
  BY <1>1, ConcatProperties
<1>3. Len(rest) \in Nat /\ DOMAIN rest = 1 .. Len(rest) /\ DOMAIN todo = 1 .. Len(todo)
  BY <1>2
<1>4. todo # <<>> /\ Head(todo) = c
  BY <1>1, <1>2, <1>3
<1>5. /\ Tail(todo) \in Seq(S) /\ Len(Tail(todo)) = Len(rest)
      /\ \A i \in 1 .. Len(Tail(todo)) : Tail(todo)[i] = todo[i + 1]
  BY <1>2, <1>3, <1>4, HeadTailProperties
<1>6. \A i \in 1 .. Len(Tail(todo)) : Tail(todo)[i] = rest[i]
  BY <1>2, <1>3, <1>5
<1>7. Tail(todo) = rest
  BY <1>5, <1>6, SeqEqual
<1> QED BY <1>2, <1>4, <1>7

(* An error goes past a command to the first that catches it. *)
LEMMA UnwoundList ==
    ASSUME NEW c \in AdapterCall, NEW rest \in Seq(AdapterCall)
    PROVE  Unwound(<<c>> \o rest) = IF c.do = "catch" THEN <<[c EXCEPT !.how = "failed"]>> \o rest ELSE Unwound(rest)
<1> DEFINE todo == <<c>> \o rest
           caught == {i \in DOMAIN todo : todo[i].do = "catch"}
           later == {i \in DOMAIN rest : rest[i].do = "catch"}
<1>1. <<c>> \in Seq(AdapterCall) /\ Len(<<c>>) = 1 /\ <<c>>[1] = c
  OBVIOUS
<1>2. /\ todo \in Seq(AdapterCall) /\ Len(todo) = 1 + Len(rest)
      /\ \A i \in 1 .. 1 + Len(rest) : todo[i] = IF i <= 1 THEN <<c>>[i] ELSE rest[i - 1]
  BY <1>1, ConcatProperties
<1>3. Len(rest) \in Nat /\ DOMAIN rest = 1 .. Len(rest) /\ DOMAIN todo = 1 .. Len(rest) + 1
  BY <1>2
<1>4. todo[1] = c /\ \A i \in DOMAIN rest : todo[i + 1] = rest[i]
  BY <1>1, <1>2, <1>3
<1>5. Head(todo) = c /\ Tail(todo) = rest
  BY FirstOfList
<1> HIDE DEF todo
<1>6. CASE c.do = "catch"
  <2>1. 1 \in caught /\ \A i \in caught : 1 <= i
    BY <1>3, <1>4, <1>6
  <2>2. \A i : (i \in caught /\ \A j \in caught : i <= j) => i = 1
    BY <1>3, <2>1
  <2>3. (CHOOSE i \in caught : \A j \in caught : i <= j) = 1
    <3> HIDE DEF caught
    <3> QED BY <2>1, <2>2
  <2>4. SubSeq(todo, 1 + 1, Len(todo)) = rest
    BY <1>2, <1>3, <1>5
  <2>5. Unwound(todo) = <<[todo[1] EXCEPT !.how = "failed"]>> \o rest
    BY <2>1, <2>3, <2>4 DEF Unwound
  <2> QED BY <1>4, <1>6, <2>5 DEF todo
<1>7. CASE c.do # "catch"
  <2>1. \A i \in caught : i - 1 \in later
    BY <1>3, <1>4, <1>7
  <2>2. \A i \in later : i + 1 \in caught
    BY <1>3, <1>4
  <2>3. caught \subseteq Nat /\ later \subseteq Nat
    BY <1>3
  <2>4. CASE later = {}
    <3>1. caught = {}
      BY <2>1, <2>4
    <3>2. Unwound(todo) = <<>> /\ Unwound(rest) = <<>>
      BY <2>4, <3>1 DEF Unwound
    <3> QED BY <1>7, <3>2 DEF todo
  <2>5. CASE later # {}
    <3> HIDE DEF later, caught
    <3>1. PICK m \in later : \A i \in later : <<i, m>> \notin OpToRel(<, Nat)
      BY <2>3, <2>5, WFMin, NatLessThanWellFounded
    <3>2. \A i \in later : m <= i
      <4>1. \A i \in later : ~(i < m)
        BY <2>3, <3>1 DEF OpToRel
      <4> QED BY <2>3, <4>1
    <3>3. (CHOOSE i \in later : \A j \in later : i <= j) = m
      <4>1. \A i : (i \in later /\ \A j \in later : i <= j) => i = m
        BY <2>3, <3>2
      <4> QED BY <3>2, <4>1
    <3>4. m + 1 \in caught /\ \A i \in caught : m + 1 <= i
      BY <2>1, <2>2, <2>3, <3>2
    <3>5. (CHOOSE i \in caught : \A j \in caught : i <= j) = m + 1
      <4>1. \A i : (i \in caught /\ \A j \in caught : i <= j) => i = m + 1
        BY <2>3, <3>4
      <4> QED BY <3>4, <4>1
    <3>6. m \in DOMAIN rest /\ m \in 1 .. Len(rest)
      BY <1>3 DEF later
    <3>7. todo[m + 1] = rest[m]
      BY <1>4, <3>6
    <3>8. SubSeq(todo, (m + 1) + 1, Len(todo)) = SubSeq(rest, m + 1, Len(rest))
      <4>1. /\ SubSeq(todo, (m + 1) + 1, Len(todo)) \in Seq(AdapterCall)
            /\ SubSeq(rest, m + 1, Len(rest)) \in Seq(AdapterCall)
        BY <1>2, <1>3, <3>6, SubSeqProperties
      <4>2. /\ Len(SubSeq(todo, (m + 1) + 1, Len(todo))) = Len(rest) - m
            /\ Len(SubSeq(rest, m + 1, Len(rest))) = Len(rest) - m
        BY <1>2, <1>3, <3>6, SubSeqProperties
      <4>3. \A i \in 1 .. Len(rest) - m :
              /\ SubSeq(todo, (m + 1) + 1, Len(todo))[i] = todo[((m + 1) + 1) + i - 1]
              /\ SubSeq(rest, m + 1, Len(rest))[i] = rest[(m + 1) + i - 1]
        <5>1. \A i \in 1 .. Len(todo) - ((m + 1) + 1) + 1 :
                SubSeq(todo, (m + 1) + 1, Len(todo))[i] = todo[((m + 1) + 1) + i - 1]
          BY <1>2, <1>3, <3>6, SubSeqProperties
        <5>2. \A i \in 1 .. Len(rest) - (m + 1) + 1 :
                SubSeq(rest, m + 1, Len(rest))[i] = rest[(m + 1) + i - 1]
          BY <1>3, <3>6, SubSeqProperties
        <5> QED BY <1>2, <1>3, <3>6, <5>1, <5>2
      <4>4. ASSUME NEW i \in 1 .. Len(rest) - m
            PROVE  todo[((m + 1) + 1) + i - 1] = rest[(m + 1) + i - 1]
        <5>1. m + i \in DOMAIN rest /\ ((m + 1) + 1) + i - 1 = (m + i) + 1 /\ (m + 1) + i - 1 = m + i
          BY <1>3, <3>6
        <5>2. todo[(m + i) + 1] = rest[m + i]
          BY <1>4, <5>1
        <5> QED BY <5>1, <5>2
      <4> QED BY <4>1, <4>2, <4>3, <4>4, SeqEqual
    <3>9. caught # {} /\ later # {}
      BY <3>4, <2>5
    <3>10. Unwound(todo) = <<[todo[m + 1] EXCEPT !.how = "failed"]>> \o SubSeq(todo, (m + 1) + 1, Len(todo))
      BY <3>5, <3>9 DEF Unwound, caught
    <3>11. Unwound(rest) = <<[rest[m] EXCEPT !.how = "failed"]>> \o SubSeq(rest, m + 1, Len(rest))
      BY <3>3, <3>9 DEF Unwound, later
    <3> QED BY <1>7, <3>7, <3>8, <3>10, <3>11 DEF todo
  <2> QED BY <2>4, <2>5
<1> QED BY <1>6, <1>7

(* Commands after commands. *)
LEMMA ListAfter ==
    ASSUME NEW c \in AdapterCall, NEW more \in Seq(AdapterCall), NEW rest \in Seq(AdapterCall)
    PROVE  (<<c>> \o more) \o rest = <<c>> \o (more \o rest)
BY ConcatAssociative

LEMMA AdapterCalls ==
    ASSUME NEW k \in AdapterKeys
    PROVE  /\ \A do \in AdapterVerbs : Call(do, k, "-") \in AdapterCall /\ Call(do, k, "failed") \in AdapterCall
           /\ \A n \in Nat : Call("train", k, n) \in AdapterCall
           /\ \A users \in SUBSET AdapterUsers : Call("probe", users, "-") \in AdapterCall
           /\ Call("listUsers", "-", "-") \in AdapterCall
<1>1. ASSUME NEW do \in AdapterVerbs
      PROVE  Call(do, k, "-") \in AdapterCall /\ Call(do, k, "failed") \in AdapterCall
  BY DEF Call, AdapterCall
<1>2. "train" \in AdapterVerbs /\ "probe" \in AdapterVerbs /\ "listUsers" \in AdapterVerbs
  BY DEF AdapterVerbs
<1>3. \A n \in Nat : Call("train", k, n) \in AdapterCall
  BY <1>2 DEF Call, AdapterCall
<1>4. \A users \in SUBSET AdapterUsers : Call("probe", users, "-") \in AdapterCall
  BY <1>2 DEF Call, AdapterCall
<1>5. Call("listUsers", "-", "-") \in AdapterCall
  BY <1>2 DEF Call, AdapterCall
<1> QED BY <1>1, <1>3, <1>4, <1>5

(* Of the lists of a search: the first command, and what is left after it. *)
LEMMA SearchLists ==
    ASSUME NEW k \in AdapterKeys, NEW n \in Nat
    PROVE  /\ Train(k, n) \in Seq(AdapterCall)
           /\ n = 0 => Train(k, n) = <<>>
           /\ n # 0 => Train(k, n) # <<>> /\ Head(Train(k, n)) = Call("train", k, n) /\ Tail(Train(k, n)) = <<>>
           /\ \A how \in {"-", "failed"} :
                /\ CatchList(k, how, n) \in Seq(AdapterCall) /\ CatchList(k, how, n) # <<>>
                /\ Head(CatchList(k, how, n)) = Call("catch", k, how) /\ Tail(CatchList(k, how, n)) = Train(k, n)
           /\ AddList(k, n) \in Seq(AdapterCall) /\ AddList(k, n) # <<>>
           /\ Head(AddList(k, n)) = Call("agentAdd", k, "-") /\ Tail(AddList(k, n)) = CatchList(k, "-", n)
           /\ SlotList(k, n) \in Seq(AdapterCall) /\ SlotList(k, n) # <<>>
           /\ Head(SlotList(k, n)) = Call("slotIndex", k, "-")
           /\ Tail(SlotList(k, n)) = IF k[2] = "agent" THEN AddList(k, n) ELSE CatchList(k, "-", n)
           /\ SetList(k, n) \in Seq(AdapterCall) /\ SetList(k, n) # <<>>
           /\ Head(SetList(k, n)) = Call("weightsSet", k, "-") /\ Tail(SetList(k, n)) = SlotList(k, n)
           /\ CacheList(k, n) \in Seq(AdapterCall) /\ CacheList(k, n) # <<>>
           /\ Head(CacheList(k, n)) = Call("cacheAdapter", k, "-") /\ Tail(CacheList(k, n)) = Train(k, n)
           /\ LoadList(k, n) \in Seq(AdapterCall) /\ LoadList(k, n) # <<>>
           /\ Head(LoadList(k, n)) = Call("load", k, "-") /\ Tail(LoadList(k, n)) = CacheList(k, n)
           /\ GetList(k, n) \in Seq(AdapterCall) /\ GetList(k, n) # <<>>
           /\ Head(GetList(k, n)) = Call("getAdapter", k, "-") /\ Tail(GetList(k, n)) = Train(k, n)
<1>1. /\ \A do \in AdapterVerbs : Call(do, k, "-") \in AdapterCall /\ Call(do, k, "failed") \in AdapterCall
      /\ Call("train", k, n) \in AdapterCall
  BY AdapterCalls, Zenon
<1>2. /\ Train(k, n) \in Seq(AdapterCall)
      /\ n = 0 => Train(k, n) = <<>>
      /\ n # 0 => Train(k, n) # <<>> /\ Head(Train(k, n)) = Call("train", k, n) /\ Tail(Train(k, n)) = <<>>
  BY <1>1 DEF Train, Cmd, Call
<1>3. ASSUME NEW how \in {"-", "failed"}
      PROVE  /\ CatchList(k, how, n) \in Seq(AdapterCall) /\ CatchList(k, how, n) # <<>>
             /\ Head(CatchList(k, how, n)) = Call("catch", k, how) /\ Tail(CatchList(k, how, n)) = Train(k, n)
  <2>1. Call("catch", k, how) \in AdapterCall
    BY <1>1 DEF AdapterVerbs
  <2> QED BY <1>2, <2>1, FirstOfList, Zenon DEF CatchList
<1>4. /\ AddList(k, n) \in Seq(AdapterCall) /\ AddList(k, n) # <<>>
      /\ Head(AddList(k, n)) = Call("agentAdd", k, "-") /\ Tail(AddList(k, n)) = CatchList(k, "-", n)
  <2>1. Call("agentAdd", k, "-") \in AdapterCall
    BY <1>1 DEF AdapterVerbs
  <2> QED BY <1>3, <2>1, FirstOfList, Zenon DEF AddList
<1>5. /\ SlotList(k, n) \in Seq(AdapterCall) /\ SlotList(k, n) # <<>>
      /\ Head(SlotList(k, n)) = Call("slotIndex", k, "-")
      /\ Tail(SlotList(k, n)) = IF k[2] = "agent" THEN AddList(k, n) ELSE CatchList(k, "-", n)
  <2>1. Call("slotIndex", k, "-") \in AdapterCall
    BY <1>1 DEF AdapterVerbs
  <2>2. PICK rest \in Seq(AdapterCall) : rest = IF k[2] = "agent" THEN AddList(k, n) ELSE CatchList(k, "-", n)
    BY <1>3, <1>4
  <2>3. SlotList(k, n) = <<Call("slotIndex", k, "-")>> \o rest
    BY <2>2 DEF SlotList
  <2>4. /\ <<Call("slotIndex", k, "-")>> \o rest \in Seq(AdapterCall) /\ <<Call("slotIndex", k, "-")>> \o rest # <<>>
        /\ Head(<<Call("slotIndex", k, "-")>> \o rest) = Call("slotIndex", k, "-")
        /\ Tail(<<Call("slotIndex", k, "-")>> \o rest) = rest
    BY <2>1, FirstOfList, Zenon
  <2> QED BY <2>2, <2>3, <2>4, Zenon
<1>6. /\ SetList(k, n) \in Seq(AdapterCall) /\ SetList(k, n) # <<>>
      /\ Head(SetList(k, n)) = Call("weightsSet", k, "-") /\ Tail(SetList(k, n)) = SlotList(k, n)
  <2>1. Call("weightsSet", k, "-") \in AdapterCall
    BY <1>1 DEF AdapterVerbs
  <2> QED BY <1>5, <2>1, FirstOfList, Zenon DEF SetList
<1>7. /\ CacheList(k, n) \in Seq(AdapterCall) /\ CacheList(k, n) # <<>>
      /\ Head(CacheList(k, n)) = Call("cacheAdapter", k, "-") /\ Tail(CacheList(k, n)) = Train(k, n)
  <2>1. Call("cacheAdapter", k, "-") \in AdapterCall
    BY <1>1 DEF AdapterVerbs
  <2> QED BY <1>2, <2>1, FirstOfList, Zenon DEF CacheList
<1>8. /\ LoadList(k, n) \in Seq(AdapterCall) /\ LoadList(k, n) # <<>>
      /\ Head(LoadList(k, n)) = Call("load", k, "-") /\ Tail(LoadList(k, n)) = CacheList(k, n)
  <2>1. Call("load", k, "-") \in AdapterCall
    BY <1>1 DEF AdapterVerbs
  <2> QED BY <1>7, <2>1, FirstOfList, Zenon DEF LoadList
<1>9. /\ GetList(k, n) \in Seq(AdapterCall) /\ GetList(k, n) # <<>>
      /\ Head(GetList(k, n)) = Call("getAdapter", k, "-") /\ Tail(GetList(k, n)) = Train(k, n)
  <2>1. Call("getAdapter", k, "-") \in AdapterCall
    BY <1>1 DEF AdapterVerbs
  <2> QED BY <1>2, <2>1, FirstOfList, Zenon DEF GetList
<1> QED BY <1>2, <1>3, <1>4, <1>5, <1>6, <1>7, <1>8, <1>9, Zenon

(* The same of the lists of a reset and of a listing. *)
LEMMA ResetLists ==
    ASSUME NEW k \in AdapterKeys, NEW rest \in Seq(AdapterCall)
    PROVE  /\ EvictList(k, rest) \in Seq(AdapterCall) /\ EvictList(k, rest) # <<>>
           /\ Head(EvictList(k, rest)) = Call("evict", k, "-") /\ Tail(EvictList(k, rest)) = rest
           /\ RemList(k, rest) \in Seq(AdapterCall) /\ RemList(k, rest) # <<>>
           /\ Head(RemList(k, rest)) = Call("agentRem", k, "-") /\ Tail(RemList(k, rest)) = rest
           /\ UnslotList(k, rest) \in Seq(AdapterCall) /\ UnslotList(k, rest) # <<>>
           /\ Head(UnslotList(k, rest)) = Call("slotIndex", k, "-")
           /\ Tail(UnslotList(k, rest)) = IF k[2] = "agent" THEN RemList(k, rest) ELSE rest
           /\ DelList(k, rest) \in Seq(AdapterCall) /\ DelList(k, rest) # <<>>
           /\ Head(DelList(k, rest)) = Call("weightsDel", k, "-") /\ Tail(DelList(k, rest)) = UnslotList(k, rest)
<1>1. /\ Call("evict", k, "-") \in AdapterCall /\ Call("agentRem", k, "-") \in AdapterCall
      /\ Call("slotIndex", k, "-") \in AdapterCall /\ Call("weightsDel", k, "-") \in AdapterCall
  BY AdapterCalls DEF AdapterVerbs
<1>2. /\ EvictList(k, rest) \in Seq(AdapterCall) /\ EvictList(k, rest) # <<>>
      /\ Head(EvictList(k, rest)) = Call("evict", k, "-") /\ Tail(EvictList(k, rest)) = rest
  BY <1>1, FirstOfList, Zenon DEF EvictList
<1>3. /\ RemList(k, rest) \in Seq(AdapterCall) /\ RemList(k, rest) # <<>>
      /\ Head(RemList(k, rest)) = Call("agentRem", k, "-") /\ Tail(RemList(k, rest)) = rest
  BY <1>1, FirstOfList, Zenon DEF RemList
<1>4. /\ UnslotList(k, rest) \in Seq(AdapterCall) /\ UnslotList(k, rest) # <<>>
      /\ Head(UnslotList(k, rest)) = Call("slotIndex", k, "-")
      /\ Tail(UnslotList(k, rest)) = IF k[2] = "agent" THEN RemList(k, rest) ELSE rest
  <2>1. PICK more \in Seq(AdapterCall) : more = IF k[2] = "agent" THEN RemList(k, rest) ELSE rest
    BY <1>3
  <2>2. UnslotList(k, rest) = <<Call("slotIndex", k, "-")>> \o more
    BY <2>1 DEF UnslotList
  <2>3. /\ <<Call("slotIndex", k, "-")>> \o more \in Seq(AdapterCall) /\ <<Call("slotIndex", k, "-")>> \o more # <<>>
        /\ Head(<<Call("slotIndex", k, "-")>> \o more) = Call("slotIndex", k, "-")
        /\ Tail(<<Call("slotIndex", k, "-")>> \o more) = more
    BY <1>1, FirstOfList, Zenon
  <2> QED BY <2>1, <2>2, <2>3, Zenon
<1>5. /\ DelList(k, rest) \in Seq(AdapterCall) /\ DelList(k, rest) # <<>>
      /\ Head(DelList(k, rest)) = Call("weightsDel", k, "-") /\ Tail(DelList(k, rest)) = UnslotList(k, rest)
  BY <1>1, <1>4, FirstOfList, Zenon DEF DelList
<1> QED BY <1>2, <1>3, <1>4, <1>5, Zenon

LEMMA ProbeLists ==
    ASSUME NEW users \in SUBSET AdapterUsers
    PROVE  /\ Probes(users) \in Seq(AdapterCall)
           /\ users = {} => Probes(users) = <<>>
           /\ users # {} => /\ Probes(users) # <<>> /\ Head(Probes(users)) = Call("probe", users, "-")
                            /\ Tail(Probes(users)) = <<>>
<1>1. Call("probe", users, "-") \in AdapterCall
  BY DEF Call, AdapterCall, AdapterVerbs
<1> QED BY <1>1 DEF Probes, Cmd, Call

(* Lists one after the other, however they are put together. *)
LEMMA Associative == \A s, t, u \in Seq(AdapterCall) : (s \o t) \o u = s \o (t \o u)
BY ConcatAssociative

(* The lists that requests are given are these. *)
LEMMA StartLists ==
    ASSUME NEW k \in AdapterKeys, NEW n \in Nat
    PROVE  /\ Cmd("getAdapter", k, "-") \o Train(k, n) = GetList(k, n)
           /\ (Cmd("load", k, "-") \o Cmd("cacheAdapter", k, "-")) \o Train(k, n) = LoadList(k, n)
           /\ (save_lora_weights(k) \o Train(k, n)) \o <<>> = SetList(k, n)
<1> DEFINE a == <<Call("weightsSet", k, "-")>>
           b == <<Call("slotIndex", k, "-")>>
           c == IF k[2] = "agent" THEN <<Call("agentAdd", k, "-")>> ELSE <<>>
           d == <<Call("catch", k, "-")>>
           e == <<Call("load", k, "-")>>
           f == <<Call("cacheAdapter", k, "-")>>
           m == Train(k, n)
<1>1. /\ a \in Seq(AdapterCall) /\ b \in Seq(AdapterCall) /\ c \in Seq(AdapterCall) /\ d \in Seq(AdapterCall)
      /\ e \in Seq(AdapterCall) /\ f \in Seq(AdapterCall)
  BY AdapterCalls DEF AdapterVerbs
<1>2. m \in Seq(AdapterCall)
  BY SearchLists
<1>3. Cmd("getAdapter", k, "-") \o Train(k, n) = GetList(k, n)
  BY DEF Cmd, Call, GetList
<1>4. (Cmd("load", k, "-") \o Cmd("cacheAdapter", k, "-")) \o m = LoadList(k, n)
  <2>1. LoadList(k, n) = e \o (f \o m) /\ Cmd("load", k, "-") = e /\ Cmd("cacheAdapter", k, "-") = f
    BY DEF LoadList, CacheList, Cmd, Call
  <2> HIDE DEF a, b, c, d, e, f, m
  <2>2. e \in Seq(AdapterCall) /\ f \in Seq(AdapterCall)
    BY <1>1
  <2>3. (e \o f) \o m = e \o (f \o m)
    BY Associative, <1>2, <2>2, Zenon
  <2> QED BY <2>1, <2>3
<1>5. (save_lora_weights(k) \o m) \o <<>> = SetList(k, n)
  <2>1. save_lora_weights(k) = (a \o (b \o c)) \o d
    BY DEF save_lora_weights, IndexCmd, Cmd, Call
  <2>2. SetList(k, n) = a \o (b \o (c \o (d \o m)))
    <3>1. SlotList(k, n) = b \o (c \o (d \o m))
      <4>1. CASE k[2] = "agent"
        BY <4>1 DEF SlotList, AddList, CatchList
      <4>2. CASE k[2] # "agent"
        <5>1. SlotList(k, n) = b \o (d \o m) /\ c = <<>>
          BY <4>2 DEF SlotList, CatchList
        <5>2. c \o (d \o m) = d \o m
          <6>1. d \o m \in Seq(AdapterCall)
            BY <1>1, <1>2, ConcatProperties
          <6> HIDE DEF c, d, m
          <6> QED BY <5>1, <6>1, ConcatEmptySeq
        <5> HIDE DEF b, c, d, m
        <5> QED BY <5>1, <5>2
      <4> QED BY <4>1, <4>2
    <3> QED BY <3>1 DEF SetList
  <2> HIDE DEF a, b, c, d, e, f, m
  <2>3. d \o m \in Seq(AdapterCall) /\ b \o c \in Seq(AdapterCall) /\ a \o (b \o c) \in Seq(AdapterCall)
    <3>1. d \o m \in Seq(AdapterCall) /\ b \o c \in Seq(AdapterCall)
      BY <1>1, <1>2, ConcatProperties, Zenon
    <3> QED BY <1>1, <3>1, ConcatProperties, Zenon
  <2>a. /\ a \in Seq(AdapterCall) /\ b \in Seq(AdapterCall) /\ c \in Seq(AdapterCall) /\ d \o m \in Seq(AdapterCall)
    BY <1>1, <2>3
  <2>4. (a \o (b \o c)) \o (d \o m) = a \o (b \o (c \o (d \o m)))
    <3>1. b \o c \in Seq(AdapterCall)
      BY <2>3
    <3>2. (a \o (b \o c)) \o (d \o m) = a \o ((b \o c) \o (d \o m))
      BY <2>a, <3>1, Associative, Zenon
    <3>3. (b \o c) \o (d \o m) = b \o (c \o (d \o m))
      BY <2>a, Associative, Zenon
    <3> QED BY <3>2, <3>3
  <2>b. a \o (b \o c) \in Seq(AdapterCall) /\ d \in Seq(AdapterCall)
    BY <1>1, <2>3
  <2>5. ((a \o (b \o c)) \o d) \o m = (a \o (b \o c)) \o (d \o m)
    BY Associative, <1>2, <2>b, Zenon
  <2>6. (a \o (b \o c)) \o (d \o m) \in Seq(AdapterCall)
    BY <2>3, ConcatProperties, Zenon
  <2>7. \A x \in Seq(AdapterCall) : x \o <<>> = x
    BY ConcatEmptySeq
  <2> QED BY <2>1, <2>2, <2>4, <2>5, <2>6, <2>7, Zenon
<1> QED BY <1>3, <1>4, <1>5 DEF m

LEMMA ResetStartLists ==
    ASSUME NEW u \in AdapterUsers
    PROVE  LET agent == <<u, "agent">>  global == <<u, "__global__">> IN
           /\ delete_lora_weights(agent) \o Cmd("evict", agent, "-") = DelList(agent, EvictList(agent, <<>>))
           /\ delete_lora_weights(global) \o Cmd("evict", global, "-") = DelList(global, EvictList(global, <<>>))
           /\ ((delete_lora_weights(agent) \o delete_lora_weights(global)) \o Cmd("evict", agent, "-"))
                \o Cmd("evict", global, "-") = DelList(agent, DelList(global, EvictBoth(u)))
<1> DEFINE agent == <<u, "agent">>
           global == <<u, "__global__">>
           a == <<Call("weightsDel", agent, "-")>>
           b == <<Call("slotIndex", agent, "-")>>
           c == <<Call("agentRem", agent, "-")>>
           d == <<Call("weightsDel", global, "-")>>
           e == <<Call("slotIndex", global, "-")>>
           f == <<Call("evict", agent, "-")>>
           g == <<Call("evict", global, "-")>>
           deleteA == a \o (b \o c)
           deleteG == d \o e
<1>0. agent \in AdapterKeys /\ global \in AdapterKeys
  BY DEF AdapterKeys
<1>1. /\ a \in Seq(AdapterCall) /\ b \in Seq(AdapterCall) /\ c \in Seq(AdapterCall) /\ d \in Seq(AdapterCall)
      /\ e \in Seq(AdapterCall) /\ f \in Seq(AdapterCall) /\ g \in Seq(AdapterCall)
  <2>1. \A k \in AdapterKeys, do \in AdapterVerbs : Call(do, k, "-") \in AdapterCall
    BY AdapterCalls, Zenon
  <2>2. \A x : x \in AdapterCall => <<x>> \in Seq(AdapterCall)
    OBVIOUS
  <2> HIDE DEF agent, global
  <2> QED BY <1>0, <2>1, <2>2 DEF AdapterVerbs
<1>5. /\ delete_lora_weights(agent) = deleteA
      /\ Cmd("evict", agent, "-") = f /\ Cmd("evict", global, "-") = g
  BY DEF delete_lora_weights, IndexCmd, Cmd, Call
<1>6. delete_lora_weights(global) = deleteG
  <2>1. delete_lora_weights(global) = d \o (e \o <<>>)
    BY DEF delete_lora_weights, IndexCmd, Cmd, Call
  <2>2. e \o <<>> = e
    OBVIOUS
  <2> HIDE DEF d, e
  <2> QED BY <2>1, <2>2 DEF deleteG
<1>7. \A rest : DelList(agent, rest) = a \o (b \o (c \o rest)) /\ DelList(global, rest) = d \o (e \o rest)
  BY DEF DelList, UnslotList, RemList
<1>8. EvictList(agent, <<>>) = f /\ EvictList(global, <<>>) = g /\ EvictBoth(u) = f \o g
  <2>1. f \o <<>> = f /\ g \o <<>> = g
    OBVIOUS
  <2>2. EvictList(agent, <<>>) = f \o <<>> /\ EvictList(global, <<>>) = g \o <<>>
        /\ EvictBoth(u) = f \o EvictList(global, <<>>)
    BY DEF EvictList, EvictBoth
  <2> HIDE DEF f, g
  <2> QED BY <2>1, <2>2
<1> HIDE DEF agent, global, a, b, c, d, e, f, g
<1>9. \A rest \in Seq(AdapterCall) : deleteA \o rest = DelList(agent, rest) /\ deleteG \o rest = DelList(global, rest)
  <2> SUFFICES ASSUME NEW rest \in Seq(AdapterCall)
               PROVE  deleteA \o rest = DelList(agent, rest) /\ deleteG \o rest = DelList(global, rest)
    OBVIOUS
  <2>a. a \in Seq(AdapterCall) /\ b \in Seq(AdapterCall) /\ c \in Seq(AdapterCall)
    BY <1>1
  <2>1. (a \o (b \o c)) \o rest = a \o (b \o (c \o rest))
    <3>1. b \o c \in Seq(AdapterCall)
      BY <2>a, ConcatProperties, Zenon
    <3>2. (a \o (b \o c)) \o rest = a \o ((b \o c) \o rest)
      BY <2>a, <3>1, Associative, Zenon
    <3>3. (b \o c) \o rest = b \o (c \o rest)
      BY <2>a, Associative, Zenon
    <3> QED BY <3>2, <3>3
  <2>b. d \in Seq(AdapterCall) /\ e \in Seq(AdapterCall)
    BY <1>1
  <2>2. (d \o e) \o rest = d \o (e \o rest)
    BY Associative, <2>b, Zenon
  <2> QED BY <1>7, <2>1, <2>2, Zenon DEF deleteA, deleteG
<1>10. deleteA \in Seq(AdapterCall) /\ deleteG \in Seq(AdapterCall) /\ f \o g \in Seq(AdapterCall)
  <2>1. b \o c \in Seq(AdapterCall)
    BY <1>1, ConcatProperties, Zenon
  <2> QED BY <1>1, <2>1, ConcatProperties, Zenon DEF deleteA, deleteG
<1>b. f \in Seq(AdapterCall) /\ g \in Seq(AdapterCall)
  BY <1>1
<1> HIDE DEF deleteA, deleteG
<1>11. ((deleteA \o deleteG) \o f) \o g = DelList(agent, DelList(global, EvictBoth(u)))
  <2>1. deleteA \o deleteG \in Seq(AdapterCall) /\ deleteG \o (f \o g) \in Seq(AdapterCall)
    BY <1>10, ConcatProperties, Zenon
  <2>2. ((deleteA \o deleteG) \o f) \o g = (deleteA \o deleteG) \o (f \o g)
    BY Associative, <1>b, <2>1, Zenon
  <2>3. (deleteA \o deleteG) \o (f \o g) = deleteA \o (deleteG \o (f \o g))
    BY Associative, <1>10, Zenon
  <2>4. deleteG \o (f \o g) = DelList(global, EvictBoth(u))
    BY <1>8, <1>9, <1>10, Zenon
  <2> QED BY <1>9, <2>1, <2>2, <2>3, <2>4, Zenon
<1> QED BY <1>5, <1>6, <1>8, <1>9, <1>11, <1>b, Zenon DEF agent, global

-----------------------------------------------------------------------------
(* Where a request is.                                                      *)

LEMMA DropsAre ==
    ASSUME NEW u \in AdapterUsers, NEW drop \in Drops(u)
    PROVE  /\ drop.key \in {<<u, "agent">>, <<u, "__global__">>} /\ drop.key \in AdapterKeys
           /\ drop.rest \in Seq(AdapterCall) /\ drop.rest # <<>>
           /\ drop.gone \subseteq {<<u, "agent">>}
           /\ \/ drop.rest = EvictList(drop.key, <<>>) /\ drop.gone = {}
              \/ /\ drop.key = <<u, "agent">> /\ drop.gone = {}
                 /\ drop.rest = DelList(<<u, "__global__">>, EvictBoth(u))
              \/ /\ drop.key = <<u, "__global__">> /\ drop.gone = {<<u, "agent">>}
                 /\ drop.rest = EvictBoth(u)
<1> DEFINE agent == <<u, "agent">>
           global == <<u, "__global__">>
<1>1. agent \in AdapterKeys /\ global \in AdapterKeys
  BY DEF AdapterKeys
<1>2. <<>> \in Seq(AdapterCall)
  OBVIOUS
<1>3. /\ EvictList(agent, <<>>) \in Seq(AdapterCall) /\ EvictList(agent, <<>>) # <<>>
      /\ EvictList(global, <<>>) \in Seq(AdapterCall) /\ EvictList(global, <<>>) # <<>>
  BY <1>1, <1>2, ResetLists, Zenon
<1>4. EvictBoth(u) \in Seq(AdapterCall) /\ EvictBoth(u) # <<>>
  BY <1>1, <1>3, ResetLists, Zenon DEF EvictBoth
<1>5. DelList(global, EvictBoth(u)) \in Seq(AdapterCall) /\ DelList(global, EvictBoth(u)) # <<>>
  BY <1>1, <1>4, ResetLists, Zenon
<1>6. \/ drop = [key |-> agent, rest |-> EvictList(agent, <<>>), gone |-> {}]
      \/ drop = [key |-> global, rest |-> EvictList(global, <<>>), gone |-> {}]
      \/ drop = [key |-> agent, rest |-> DelList(global, EvictBoth(u)), gone |-> {}]
      \/ drop = [key |-> global, rest |-> EvictBoth(u), gone |-> {agent}]
  BY DEF Drops
<1> HIDE DEF agent, global
<1>7. /\ drop.key \in {agent, global}
      /\ drop.rest \in Seq(AdapterCall) /\ drop.rest # <<>>
      /\ drop.gone \subseteq {agent}
  BY <1>3, <1>4, <1>5, <1>6
<1>8. \/ drop.rest = EvictList(drop.key, <<>>) /\ drop.gone = {}
      \/ drop.key = agent /\ drop.gone = {} /\ drop.rest = DelList(global, EvictBoth(u))
      \/ drop.key = global /\ drop.gone = {agent} /\ drop.rest = EvictBoth(u)
  BY <1>6
<1> QED BY <1>1, <1>7, <1>8 DEF agent, global

(* A request that searches or learns, by its next command. *)
LEMMA AtLearning ==
    ASSUME NEW r \in Requests, NEW d, At(r, d), NEW k \in AdapterKeys, NEW n \in 0 .. MaxRated,
           Learns(request[r].todo, Loc(r), k, n)
    PROVE  /\ This(r).id = k
           /\ \/ d = "getAdapter" /\ Rest(r) = Train(k, n) /\ Remembered({}, {})
              \/ d = "load" /\ Rest(r) = CacheList(k, n) /\ Remembered({}, {})
              \/ /\ d = "cacheAdapter" /\ Rest(r) = Train(k, n) /\ Remembered({}, {}) /\ Carries(Loc(r), k)
                 /\ Loaded(Loc(r), k)
              \/ /\ d = "weightsSet" /\ Rest(r) = SlotList(k, n) /\ Remembered({k}, {}) /\ Carries(Loc(r), k)
                 /\ Trained(Loc(r), k)
              \/ /\ \/ d = "slotIndex" /\ Rest(r) = IF k[2] = "agent" THEN AddList(k, n) ELSE CatchList(k, "-", n)
                    \/ d = "agentAdd" /\ k[2] = "agent" /\ Rest(r) = CatchList(k, "-", n)
                 /\ Remembered({}, Late(k))
                 /\ Stored(k)
              \/ /\ \/ d = "catch" /\ Rest(r) = Train(k, n)
                    \/ d = "train" /\ This(r).how = n /\ n # 0 /\ Rest(r) = <<>>
                 /\ Remembered({}, {})
                 /\ Kept(k)
<1> DEFINE t == request[r].todo
<1>0. n \in Nat
  BY AdapterAssumption
<1>1. t # <<>> /\ Head(t).do = d /\ This(r) = Head(t) /\ Rest(r) = Tail(t)
  BY DEF At, Busy, This, Rest
<1>2. \A do, how : Call(do, k, how).do = do /\ Call(do, k, how).id = k /\ Call(do, k, how).how = how
  BY DEF Call
<1> HIDE DEF t
<1>3. CASE t = GetList(k, n) /\ Remembered({}, {})
  <2>1. Head(t) = Call("getAdapter", k, "-") /\ Tail(t) = Train(k, n)
    BY <1>0, <1>3, SearchLists, Zenon
  <2> QED BY <1>1, <1>2, <1>3, <2>1
<1>4. CASE t = LoadList(k, n) /\ Remembered({}, {})
  <2>1. Head(t) = Call("load", k, "-") /\ Tail(t) = CacheList(k, n)
    BY <1>0, <1>4, SearchLists, Zenon
  <2> QED BY <1>1, <1>2, <1>4, <2>1
<1>5. CASE /\ t = CacheList(k, n) /\ Remembered({}, {}) /\ Carries(Loc(r), k)
           /\ Loaded(Loc(r), k)
  <2>1. Head(t) = Call("cacheAdapter", k, "-") /\ Tail(t) = Train(k, n)
    BY <1>0, <1>5, SearchLists, Zenon
  <2> QED BY <1>1, <1>2, <1>5, <2>1
<1>6. CASE /\ t = SetList(k, n) /\ Remembered({k}, {}) /\ Carries(Loc(r), k)
           /\ Trained(Loc(r), k)
  <2>1. Head(t) = Call("weightsSet", k, "-") /\ Tail(t) = SlotList(k, n)
    BY <1>0, <1>6, SearchLists, Zenon
  <2> QED BY <1>1, <1>2, <1>6, <2>1
<1>7. CASE /\ t = SlotList(k, n) \/ (k[2] = "agent" /\ t = AddList(k, n))
           /\ Remembered({}, Late(k))
           /\ Stored(k)
  <2>1. CASE t = SlotList(k, n)
    <3>1. Head(t) = Call("slotIndex", k, "-") /\ Tail(t) = IF k[2] = "agent" THEN AddList(k, n) ELSE CatchList(k, "-", n)
      BY <1>0, <2>1, SearchLists, Zenon
    <3> QED BY <1>1, <1>2, <1>7, <3>1
  <2>2. CASE k[2] = "agent" /\ t = AddList(k, n)
    <3>1. Head(t) = Call("agentAdd", k, "-") /\ Tail(t) = CatchList(k, "-", n)
      BY <1>0, <2>2, SearchLists, Zenon
    <3> QED BY <1>1, <1>2, <1>7, <2>2, <3>1
  <2> QED BY <1>7, <2>1, <2>2
<1>8. CASE /\ t \in {CatchList(k, "-", n), CatchList(k, "failed", n), Train(k, n)}
           /\ Remembered({}, {})
           /\ Kept(k)
  <2>1. ASSUME NEW how \in {"-", "failed"}, t = CatchList(k, how, n)
        PROVE  Head(t) = Call("catch", k, how) /\ Tail(t) = Train(k, n)
    BY <1>0, <2>1, SearchLists, Zenon
  <2>2. CASE t = Train(k, n)
    <3>1. n # 0 /\ Head(t) = Call("train", k, n) /\ Tail(t) = <<>>
      BY <1>0, <1>1, <2>2, SearchLists, Zenon
    <3> QED BY <1>1, <1>2, <1>8, <3>1
  <2> QED BY <1>1, <1>2, <1>8, <2>1, <2>2
<1> QED BY <1>3, <1>4, <1>5, <1>6, <1>7, <1>8 DEF Learns, t

(* The same, command by command. *)
LEMMA LearningSteps ==
    ASSUME NEW r \in Requests, NEW d, At(r, d), NEW k \in AdapterKeys, NEW n \in 0 .. MaxRated,
           Learns(request[r].todo, Loc(r), k, n)
    PROVE  /\ This(r).id = k
           /\ d = "getAdapter" => Rest(r) = Train(k, n) /\ Remembered({}, {})
           /\ d = "load" => Rest(r) = CacheList(k, n) /\ Remembered({}, {})
           /\ d = "cacheAdapter" =>
                Rest(r) = Train(k, n) /\ Remembered({}, {}) /\ Carries(Loc(r), k) /\ Loaded(Loc(r), k)
           /\ d = "weightsSet" =>
                Rest(r) = SlotList(k, n) /\ Remembered({k}, {}) /\ Carries(Loc(r), k) /\ Trained(Loc(r), k)
           /\ d = "slotIndex" =>
                /\ Remembered({}, Late(k)) /\ Stored(k)
                /\ Rest(r) = IF k[2] = "agent" THEN AddList(k, n) ELSE CatchList(k, "-", n)
           /\ d = "agentAdd" => Remembered({}, Late(k)) /\ Stored(k) /\ k[2] = "agent" /\ Rest(r) = CatchList(k, "-", n)
           /\ d = "catch" => Remembered({}, {}) /\ Kept(k) /\ Rest(r) = Train(k, n)
           /\ d = "train" => Remembered({}, {}) /\ Kept(k) /\ This(r).how = n /\ n # 0 /\ Rest(r) = <<>>
<1>1. /\ This(r).id = k
      /\ \/ d = "getAdapter" /\ Rest(r) = Train(k, n) /\ Remembered({}, {})
         \/ d = "load" /\ Rest(r) = CacheList(k, n) /\ Remembered({}, {})
         \/ /\ d = "cacheAdapter" /\ Rest(r) = Train(k, n) /\ Remembered({}, {}) /\ Carries(Loc(r), k)
            /\ Loaded(Loc(r), k)
         \/ /\ d = "weightsSet" /\ Rest(r) = SlotList(k, n) /\ Remembered({k}, {}) /\ Carries(Loc(r), k)
            /\ Trained(Loc(r), k)
         \/ /\ \/ d = "slotIndex" /\ Rest(r) = IF k[2] = "agent" THEN AddList(k, n) ELSE CatchList(k, "-", n)
               \/ d = "agentAdd" /\ k[2] = "agent" /\ Rest(r) = CatchList(k, "-", n)
            /\ Remembered({}, Late(k))
            /\ Stored(k)
         \/ /\ \/ d = "catch" /\ Rest(r) = Train(k, n)
               \/ d = "train" /\ This(r).how = n /\ n # 0 /\ Rest(r) = <<>>
            /\ Remembered({}, {})
            /\ Kept(k)
  BY AtLearning
<1> QED BY <1>1

(* A reset, by its next command. *)
LEMMA AtReset ==
    ASSUME NEW r \in Requests, NEW d, At(r, d), NEW u \in AdapterUsers, Forgets(request[r].todo, u)
    PROVE  \/ \E drop \in Drops(u) :
                /\ This(r).id = drop.key
                /\ \/ /\ d = "weightsDel" /\ Rest(r) = UnslotList(drop.key, drop.rest)
                      /\ Remembered(drop.gone, {}) /\ Deleted(drop.gone)
                   \/ /\ \/ /\ d = "slotIndex"
                            /\ Rest(r) = IF drop.key[2] = "agent" THEN RemList(drop.key, drop.rest) ELSE drop.rest
                         \/ d = "agentRem" /\ drop.key[2] = "agent" /\ Rest(r) = drop.rest
                      /\ Remembered(drop.gone \cup {drop.key}, Late(drop.key))
                      /\ Deleted(drop.gone \cup {drop.key})
           \/ /\ d = "evict"
              /\ \/ /\ This(r).id = <<u, "agent">> /\ Rest(r) = EvictList(<<u, "__global__">>, <<>>)
                    /\ Remembered({<<u, "agent">>, <<u, "__global__">>}, {})
                    /\ Deleted({<<u, "agent">>, <<u, "__global__">>})
                 \/ \E k \in {<<u, "agent">>, <<u, "__global__">>} :
                      This(r).id = k /\ Rest(r) = <<>> /\ Remembered({k}, {}) /\ Deleted({k})
<1> DEFINE t == request[r].todo
           agent == <<u, "agent">>
           global == <<u, "__global__">>
<1>1. t # <<>> /\ Head(t).do = d /\ This(r) = Head(t) /\ Rest(r) = Tail(t)
  BY DEF At, Busy, This, Rest
<1>2. \A do, k : Call(do, k, "-").do = do /\ Call(do, k, "-").id = k
  BY DEF Call
<1>3. agent \in AdapterKeys /\ global \in AdapterKeys /\ <<>> \in Seq(AdapterCall)
  BY DEF AdapterKeys
<1>4. \/ \E drop \in Drops(u) :
         \/ t = DelList(drop.key, drop.rest) /\ Remembered(drop.gone, {}) /\ Deleted(drop.gone)
         \/ /\ t = UnslotList(drop.key, drop.rest) \/ (drop.key[2] = "agent" /\ t = RemList(drop.key, drop.rest))
            /\ Remembered(drop.gone \cup {drop.key}, Late(drop.key)) /\ Deleted(drop.gone \cup {drop.key})
      \/ t = EvictBoth(u) /\ Remembered({agent, global}, {}) /\ Deleted({agent, global})
      \/ \E k \in {agent, global} : t = EvictList(k, <<>>) /\ Remembered({k}, {}) /\ Deleted({k})
  BY DEF Forgets
<1> HIDE DEF t, agent, global
<1>5. ASSUME NEW drop \in Drops(u),
             t = DelList(drop.key, drop.rest) /\ Remembered(drop.gone, {}) /\ Deleted(drop.gone)
      PROVE  /\ This(r).id = drop.key /\ d = "weightsDel" /\ Rest(r) = UnslotList(drop.key, drop.rest)
             /\ Remembered(drop.gone, {}) /\ Deleted(drop.gone)
  <2>1. Head(t) = Call("weightsDel", drop.key, "-") /\ Tail(t) = UnslotList(drop.key, drop.rest)
    BY <1>5, DropsAre, ResetLists, Zenon
  <2> QED BY <1>1, <1>2, <1>5, <2>1
<1>6. ASSUME NEW drop \in Drops(u), t = UnslotList(drop.key, drop.rest)
      PROVE  /\ This(r).id = drop.key /\ d = "slotIndex"
             /\ Rest(r) = IF drop.key[2] = "agent" THEN RemList(drop.key, drop.rest) ELSE drop.rest
  <2>1. /\ Head(t) = Call("slotIndex", drop.key, "-")
        /\ Tail(t) = IF drop.key[2] = "agent" THEN RemList(drop.key, drop.rest) ELSE drop.rest
    BY <1>6, DropsAre, ResetLists, Zenon
  <2> QED BY <1>1, <1>2, <2>1
<1>7. ASSUME NEW drop \in Drops(u), t = RemList(drop.key, drop.rest)
      PROVE  This(r).id = drop.key /\ d = "agentRem" /\ Rest(r) = drop.rest
  <2>1. Head(t) = Call("agentRem", drop.key, "-") /\ Tail(t) = drop.rest
    BY <1>7, DropsAre, ResetLists, Zenon
  <2> QED BY <1>1, <1>2, <2>1
<1>8. ASSUME t = EvictBoth(u)
      PROVE  d = "evict" /\ This(r).id = agent /\ Rest(r) = EvictList(global, <<>>)
  <2>1. EvictList(global, <<>>) \in Seq(AdapterCall) /\ EvictBoth(u) = EvictList(agent, EvictList(global, <<>>))
    BY <1>3, ResetLists, Zenon DEF EvictBoth, agent, global
  <2>2. Head(t) = Call("evict", agent, "-") /\ Tail(t) = EvictList(global, <<>>)
    <3>1. PICK rest \in Seq(AdapterCall) : rest = EvictList(global, <<>>)
      BY <2>1
    <3>2. Head(EvictList(agent, rest)) = Call("evict", agent, "-") /\ Tail(EvictList(agent, rest)) = rest
      BY <1>3, ResetLists, Zenon
    <3> QED BY <1>8, <2>1, <3>1, <3>2
  <2> QED BY <1>1, <1>2, <2>2
<1>9. ASSUME NEW k \in {agent, global}, t = EvictList(k, <<>>)
      PROVE  d = "evict" /\ This(r).id = k /\ Rest(r) = <<>>
  <2>1. Head(t) = Call("evict", k, "-") /\ Tail(t) = <<>>
    BY <1>3, <1>9, ResetLists, Zenon
  <2> QED BY <1>1, <1>2, <2>1
<1>10. \/ \E drop \in Drops(u) :
                /\ This(r).id = drop.key
                /\ \/ /\ d = "weightsDel" /\ Rest(r) = UnslotList(drop.key, drop.rest)
                      /\ Remembered(drop.gone, {}) /\ Deleted(drop.gone)
                   \/ /\ \/ /\ d = "slotIndex"
                            /\ Rest(r) = IF drop.key[2] = "agent" THEN RemList(drop.key, drop.rest) ELSE drop.rest
                         \/ d = "agentRem" /\ drop.key[2] = "agent" /\ Rest(r) = drop.rest
                      /\ Remembered(drop.gone \cup {drop.key}, Late(drop.key))
                      /\ Deleted(drop.gone \cup {drop.key})
       \/ /\ d = "evict"
          /\ \/ /\ This(r).id = agent /\ Rest(r) = EvictList(global, <<>>)
                /\ Remembered({agent, global}, {}) /\ Deleted({agent, global})
             \/ \E k \in {agent, global} : This(r).id = k /\ Rest(r) = <<>> /\ Remembered({k}, {}) /\ Deleted({k})
  BY <1>4, <1>5, <1>6, <1>7, <1>8, <1>9, Zenon
<1> QED BY <1>10 DEF agent, global

(* A listing, by its next command. *)
LEMMA AtListing ==
    ASSUME NEW r \in Requests, NEW d, At(r, d), ListsUsers(request[r].todo)
    PROVE  \/ d = "listUsers" /\ Rest(r) = <<>> /\ Remembered({}, {})
           \/ \E users \in SUBSET AdapterUsers :
                \/ d = "probe" /\ This(r).id = users /\ Rest(r) = <<>> /\ Remembered({}, {})
                \/ \E u \in AdapterUsers :
                     /\ d = "agentRem" /\ This(r).id = <<u, "agent">> /\ Rest(r) = Probes(users)
                     /\ Remembered({}, {u})
                     /\ InOrder => weights[<<u, "agent">>] = Untrained
<1> DEFINE t == request[r].todo
<1>1. t # <<>> /\ Head(t).do = d /\ This(r) = Head(t) /\ Rest(r) = Tail(t)
  BY DEF At, Busy, This, Rest
<1>2. \A do, k : Call(do, k, "-").do = do /\ Call(do, k, "-").id = k
  BY DEF Call
<1> HIDE DEF t
<1>3. CASE t = <<Call("listUsers", "-", "-")>> /\ Remembered({}, {})
  BY <1>1, <1>2, <1>3
<1>4. CASE \E users \in SUBSET AdapterUsers : t = Probes(users) /\ Remembered({}, {})
  <2>1. PICK users \in SUBSET AdapterUsers : t = Probes(users)
    BY <1>4
  <2>2. Head(t) = Call("probe", users, "-") /\ Tail(t) = <<>>
    BY <1>1, <2>1, ProbeLists, Zenon
  <2>3. d = "probe" /\ This(r).id = users /\ Rest(r) = <<>>
    BY <1>1, <1>2, <2>2
  <2> QED BY <1>4, <2>3
<1>5. CASE \E users \in SUBSET AdapterUsers, u \in AdapterUsers :
             /\ t = RemList(<<u, "agent">>, Probes(users)) /\ Remembered({}, {u})
             /\ InOrder => weights[<<u, "agent">>] = Untrained
  <2>1. PICK users \in SUBSET AdapterUsers, u \in AdapterUsers :
             /\ t = RemList(<<u, "agent">>, Probes(users)) /\ Remembered({}, {u})
             /\ InOrder => weights[<<u, "agent">>] = Untrained
    BY <1>5
  <2>2. <<u, "agent">> \in AdapterKeys
    BY DEF AdapterKeys
  <2>3. Head(t) = Call("agentRem", <<u, "agent">>, "-") /\ Tail(t) = Probes(users)
    BY <2>1, <2>2, ProbeLists, ResetLists, Zenon
  <2>4. d = "agentRem" /\ This(r).id = <<u, "agent">> /\ Rest(r) = Probes(users)
    BY <1>1, <1>2, <2>3
  <2> QED BY <2>1, <2>4
<1> QED BY <1>3, <1>4, <1>5 DEF ListsUsers, t

(* An error ends a request, or goes on where the save of an adapter catches it. *)
LEMMA AdapterErrors ==
    ASSUME NEW r \in Requests, AdapterPlace(request[r].todo, Loc(r)), r \in Busy, ~At(r, "catch")
    PROVE  \/ Unwound(Rest(r)) = <<>>
           \/ \E k \in AdapterKeys, n \in 0 .. MaxRated : Unwound(Rest(r)) = CatchList(k, "failed", n)
<1>0. Unwound(<<>>) = <<>>
  BY DEF Unwound
<1>1. PICK d : At(r, d)
  BY DEF At
<1>2. \A do, k, how : Call(do, k, how).do = do
  BY DEF Call
<1>3. CASE \E k \in AdapterKeys, n \in 0 .. MaxRated : Learns(request[r].todo, Loc(r), k, n)
  <2>1. PICK k \in AdapterKeys, n \in 0 .. MaxRated : Learns(request[r].todo, Loc(r), k, n)
    BY <1>3
  <2>2. n \in Nat
    BY AdapterAssumption
  <2>3. Unwound(Train(k, n)) = <<>>
    <3>1. CASE n = 0
      BY <1>0, <2>2, <3>1, SearchLists
    <3>2. CASE n # 0
      BY <3>2 DEF Train, Cmd, Unwound
    <3> QED BY <3>1, <3>2
  <2>4. Unwound(CatchList(k, "-", n)) = CatchList(k, "failed", n)
    <3>1. Call("catch", k, "-") \in AdapterCall /\ Train(k, n) \in Seq(AdapterCall)
      BY <2>2, AdapterCalls, SearchLists DEF AdapterVerbs
    <3>2. [Call("catch", k, "-") EXCEPT !.how = "failed"] = Call("catch", k, "failed")
      BY DEF Call
    <3>3. Call("catch", k, "-").do = "catch"
      BY <1>2
    <3>4. \A rest \in Seq(AdapterCall) :
            Unwound(<<Call("catch", k, "-")>> \o rest) = <<[Call("catch", k, "-") EXCEPT !.how = "failed"]>> \o rest
      BY <3>1, <3>3, UnwoundList
    <3> QED BY <3>1, <3>2, <3>4, Zenon DEF CatchList
  <2>5. Unwound(AddList(k, n)) = CatchList(k, "failed", n)
    <3>1. Call("agentAdd", k, "-") \in AdapterCall
      BY AdapterCalls DEF AdapterVerbs
    <3>2. CatchList(k, "-", n) \in Seq(AdapterCall)
      BY <2>2, SearchLists, Zenon
    <3>3. Call("agentAdd", k, "-").do # "catch"
      BY <1>2
    <3>4. \A rest \in Seq(AdapterCall) : Unwound(<<Call("agentAdd", k, "-")>> \o rest) = Unwound(rest)
      BY <3>1, <3>3, UnwoundList
    <3>5. Unwound(<<Call("agentAdd", k, "-")>> \o CatchList(k, "-", n)) = Unwound(CatchList(k, "-", n))
      BY <3>2, <3>4, Zenon
    <3> QED BY <2>4, <3>5, Zenon DEF AddList
  <2>6. Unwound(SlotList(k, n)) = CatchList(k, "failed", n)
    <3>1. Call("slotIndex", k, "-") \in AdapterCall
      BY AdapterCalls DEF AdapterVerbs
    <3>2. CatchList(k, "-", n) \in Seq(AdapterCall) /\ AddList(k, n) \in Seq(AdapterCall)
      BY <2>2, SearchLists, Zenon
    <3>3. PICK rest \in Seq(AdapterCall) : rest = IF k[2] = "agent" THEN AddList(k, n) ELSE CatchList(k, "-", n)
      BY <3>2
    <3>4. Unwound(<<Call("slotIndex", k, "-")>> \o rest) = Unwound(rest)
      <4>1. Call("slotIndex", k, "-").do # "catch"
        BY <1>2
      <4> QED BY <3>1, <4>1, UnwoundList
    <3>5. SlotList(k, n) = <<Call("slotIndex", k, "-")>> \o rest
      BY <3>3 DEF SlotList
    <3> QED BY <2>4, <2>5, <3>3, <3>4, <3>5
  <2>7. Unwound(CacheList(k, n)) = <<>>
    <3>1. Call("cacheAdapter", k, "-") \in AdapterCall /\ Train(k, n) \in Seq(AdapterCall)
      BY <2>2, AdapterCalls, SearchLists DEF AdapterVerbs
    <3>2. Unwound(<<Call("cacheAdapter", k, "-")>> \o Train(k, n)) = Unwound(Train(k, n))
      BY <1>2, <3>1, UnwoundList
    <3> QED BY <2>3, <3>2 DEF CacheList
  <2>8. \/ Rest(r) \in {Train(k, n), CacheList(k, n), SlotList(k, n), CatchList(k, "-", n), <<>>}
        \/ Rest(r) = IF k[2] = "agent" THEN AddList(k, n) ELSE CatchList(k, "-", n)
    BY <1>1, <2>1, AtLearning
  <2> QED BY <1>0, <2>3, <2>4, <2>5, <2>6, <2>7, <2>8
<1>4. ASSUME NEW u \in AdapterUsers, Forgets(request[r].todo, u)
      PROVE  Unwound(Rest(r)) = <<>>
  <2> DEFINE agent == <<u, "agent">>
             global == <<u, "__global__">>
  <2>1. agent \in AdapterKeys /\ global \in AdapterKeys /\ <<>> \in Seq(AdapterCall)
    BY DEF AdapterKeys
  <2>2. ASSUME NEW k \in AdapterKeys, NEW rest \in Seq(AdapterCall), Unwound(rest) = <<>>
        PROVE  /\ Unwound(EvictList(k, rest)) = <<>> /\ Unwound(RemList(k, rest)) = <<>>
               /\ Unwound(UnslotList(k, rest)) = <<>> /\ Unwound(DelList(k, rest)) = <<>>
    <3>1. /\ Call("evict", k, "-") \in AdapterCall /\ Call("agentRem", k, "-") \in AdapterCall
          /\ Call("slotIndex", k, "-") \in AdapterCall /\ Call("weightsDel", k, "-") \in AdapterCall
      BY AdapterCalls DEF AdapterVerbs
    <3>2. /\ Call("evict", k, "-").do # "catch" /\ Call("agentRem", k, "-").do # "catch"
          /\ Call("slotIndex", k, "-").do # "catch" /\ Call("weightsDel", k, "-").do # "catch"
      BY <1>2
    <3>3. Unwound(EvictList(k, rest)) = <<>> /\ Unwound(RemList(k, rest)) = <<>>
      <4>1. Unwound(<<Call("evict", k, "-")>> \o rest) = Unwound(rest)
        BY <3>1, <3>2, UnwoundList
      <4>2. Unwound(<<Call("agentRem", k, "-")>> \o rest) = Unwound(rest)
        BY <3>1, <3>2, UnwoundList
      <4> QED BY <2>2, <4>1, <4>2 DEF EvictList, RemList
    <3>4. Unwound(UnslotList(k, rest)) = <<>>
      <4>1. RemList(k, rest) \in Seq(AdapterCall)
        BY ResetLists, Zenon
      <4>2. PICK more \in Seq(AdapterCall) : more = IF k[2] = "agent" THEN RemList(k, rest) ELSE rest
        BY <4>1
      <4>3. Unwound(<<Call("slotIndex", k, "-")>> \o more) = Unwound(more)
        BY <3>1, <3>2, UnwoundList
      <4>4. UnslotList(k, rest) = <<Call("slotIndex", k, "-")>> \o more
        BY <4>2 DEF UnslotList
      <4> QED BY <2>2, <3>3, <4>2, <4>3, <4>4
    <3>5. Unwound(DelList(k, rest)) = <<>>
      <4>1. UnslotList(k, rest) \in Seq(AdapterCall)
        BY ResetLists, Zenon
      <4>2. Unwound(<<Call("weightsDel", k, "-")>> \o UnslotList(k, rest)) = Unwound(UnslotList(k, rest))
        BY <3>1, <3>2, <4>1, UnwoundList
      <4> QED BY <3>4, <4>2 DEF DelList
    <3> QED BY <3>3, <3>4, <3>5
  <2>3. /\ Unwound(EvictList(agent, <<>>)) = <<>> /\ Unwound(EvictList(global, <<>>)) = <<>>
        /\ EvictList(global, <<>>) \in Seq(AdapterCall)
    BY <1>0, <2>1, <2>2, ResetLists, Zenon
  <2>4. Unwound(EvictBoth(u)) = <<>> /\ EvictBoth(u) \in Seq(AdapterCall)
    BY <2>1, <2>2, <2>3, ResetLists, Zenon DEF EvictBoth
  <2>5. Unwound(DelList(global, EvictBoth(u))) = <<>>
    BY <2>1, <2>2, <2>4, Zenon
  <2>6. ASSUME NEW drop \in Drops(u)
        PROVE  /\ drop.key \in AdapterKeys /\ drop.rest \in Seq(AdapterCall) /\ Unwound(drop.rest) = <<>>
    <3>1. /\ drop.key \in {agent, global} /\ drop.key \in AdapterKeys /\ drop.rest \in Seq(AdapterCall)
          /\ drop.rest \in {EvictList(drop.key, <<>>), DelList(global, EvictBoth(u)), EvictBoth(u)}
      BY DropsAre, Zenon
    <3> HIDE DEF agent, global
    <3> QED BY <2>3, <2>4, <2>5, <3>1
  <2>7. \/ \E drop \in Drops(u) :
             \/ Rest(r) = UnslotList(drop.key, drop.rest)
             \/ Rest(r) = IF drop.key[2] = "agent" THEN RemList(drop.key, drop.rest) ELSE drop.rest
             \/ Rest(r) = drop.rest
        \/ Rest(r) = EvictList(global, <<>>)
        \/ Rest(r) = <<>>
    <3>1. CASE \E drop \in Drops(u) :
                 \/ Rest(r) = UnslotList(drop.key, drop.rest)
                 \/ Rest(r) = IF drop.key[2] = "agent" THEN RemList(drop.key, drop.rest) ELSE drop.rest
                 \/ Rest(r) = drop.rest
      BY <3>1
    <3>2. CASE Rest(r) = EvictList(<<u, "__global__">>, <<>>) \/ Rest(r) = <<>>
      BY <3>2
    <3>3. \/ \E drop \in Drops(u) :
                \/ Rest(r) = UnslotList(drop.key, drop.rest)
                \/ Rest(r) = IF drop.key[2] = "agent" THEN RemList(drop.key, drop.rest) ELSE drop.rest
                \/ Rest(r) = drop.rest
          \/ Rest(r) = EvictList(<<u, "__global__">>, <<>>)
          \/ Rest(r) = <<>>
      <4>1. At(r, d) /\ Forgets(request[r].todo, u)
        BY <1>1, <1>4
      <4>2. \/ \E drop \in Drops(u) :
                   /\ This(r).id = drop.key
                   /\ \/ /\ d = "weightsDel" /\ Rest(r) = UnslotList(drop.key, drop.rest)
                         /\ Remembered(drop.gone, {}) /\ Deleted(drop.gone)
                      \/ /\ \/ /\ d = "slotIndex"
                               /\ Rest(r) = IF drop.key[2] = "agent" THEN RemList(drop.key, drop.rest) ELSE drop.rest
                            \/ d = "agentRem" /\ drop.key[2] = "agent" /\ Rest(r) = drop.rest
                         /\ Remembered(drop.gone \cup {drop.key}, Late(drop.key))
                         /\ Deleted(drop.gone \cup {drop.key})
            \/ /\ d = "evict"
               /\ \/ /\ This(r).id = <<u, "agent">> /\ Rest(r) = EvictList(<<u, "__global__">>, <<>>)
                     /\ Remembered({<<u, "agent">>, <<u, "__global__">>}, {})
                     /\ Deleted({<<u, "agent">>, <<u, "__global__">>})
                  \/ \E k \in {<<u, "agent">>, <<u, "__global__">>} :
                       This(r).id = k /\ Rest(r) = <<>> /\ Remembered({k}, {}) /\ Deleted({k})
        BY <4>1, AtReset
      <4> QED BY <4>2, Zenon
    <3> QED BY <3>1, <3>2, <3>3, Zenon
  <2> HIDE DEF agent, global
  <2> QED BY <1>0, <2>2, <2>3, <2>6, <2>7
<1>5. CASE ListsUsers(request[r].todo)
  <2>1. ASSUME NEW users \in SUBSET AdapterUsers
        PROVE  Unwound(Probes(users)) = <<>>
    <3>1. CASE users = {}
      BY <1>0, <3>1, ProbeLists
    <3>2. CASE users # {}
      BY <3>2 DEF Probes, Cmd, Unwound
    <3> QED BY <3>1, <3>2
  <2>2. Rest(r) = <<>> \/ \E users \in SUBSET AdapterUsers : Rest(r) = Probes(users)
    BY <1>1, <1>5, AtListing
  <2> QED BY <1>0, <2>1, <2>2
<1> QED BY <1>3, <1>4, <1>5 DEF AdapterPlace, Busy

-----------------------------------------------------------------------------
(* What a step leaves alone.                                                *)

Tallies == [started : Nat, faults : Nat, overlapped : BOOLEAN]

LEMMA SamePlace ==
    ASSUME NEW t, NEW loc, AdapterPlace(t, loc), UNCHANGED <<adapterVars, tally>>
    PROVE  AdapterPlace(t, loc)'
<1>1. /\ weights' = weights /\ adapters' = adapters /\ agentUsers' = agentUsers
      /\ adapterPast' = adapterPast /\ tally' = tally
  BY DEF adapterVars
<1>2. Given' = Given /\ (InOrder' <=> InOrder) /\ (Undisturbed' <=> Undisturbed)
  BY <1>1 DEF Given, InOrder, Undisturbed
<1>3. \A gone, late : Remembered(gone, late)' <=> Remembered(gone, late)
  BY <1>1, <1>2 DEF Remembered, Learnt, Indexed
<1>4. \A gone : Deleted(gone)' <=> Deleted(gone)
  BY <1>1 DEF Deleted
<1>5. \A k : Carries(loc, k)' <=> Carries(loc, k)
  BY <1>1, <1>2 DEF Carries
<1>6. ASSUME NEW k \in AdapterKeys, NEW n \in 0 .. MaxRated, Learns(t, loc, k, n)
      PROVE  Learns(t, loc, k, n)'
  BY <1>1, <1>2, <1>3, <1>5, <1>6 DEF Learns, Loaded, Trained, Stored, Kept
<1>7. ASSUME NEW u \in AdapterUsers, Forgets(t, u)
      PROVE  Forgets(t, u)'
  BY <1>3, <1>4, <1>7 DEF Forgets
<1>8. ListsUsers(t) => ListsUsers(t)'
  BY <1>1, <1>2, <1>3 DEF ListsUsers
<1> QED BY <1>2, <1>6, <1>7, <1>8 DEF AdapterPlace

(* A request that another one overlaps. *)
LEMMA OtherAdaptersStay ==
    ASSUME NEW t, NEW loc, AdapterPlace(t, loc), tally'.overlapped,
           Given \subseteq Given', adapterPast.reset => adapterPast'.reset,
           Undisturbed' => Undisturbed /\ \A k \in AdapterKeys : adapterPast.taken[k] \subseteq adapterPast'.taken[k]
    PROVE  AdapterPlace(t, loc)'
<1>1. \A gone, late : Remembered(gone, late)'
  BY DEF Remembered, InOrder
<1>2. ~InOrder'
  BY DEF InOrder
<1>3. \A gone : Deleted(gone) => Deleted(gone)'
  BY DEF Deleted
<1>4. \A k \in AdapterKeys : Carries(loc, k) => Carries(loc, k)'
  BY DEF Carries
<1>5. ASSUME NEW k \in AdapterKeys, NEW n \in 0 .. MaxRated, Learns(t, loc, k, n)
      PROVE  Learns(t, loc, k, n)'
  BY <1>1, <1>2, <1>4, <1>5 DEF Learns, Loaded, Trained, Stored, Kept
<1>6. ASSUME NEW u \in AdapterUsers, Forgets(t, u)
      PROVE  Forgets(t, u)'
  BY <1>1, <1>3, <1>6 DEF Forgets
<1>7. ListsUsers(t) => ListsUsers(t)'
  BY <1>1, <1>2 DEF ListsUsers
<1>8. loc \in [adapter : SUBSET Given] => loc \in [adapter : SUBSET Given']
  <2>1. SUBSET Given \subseteq SUBSET Given'
    OBVIOUS
  <2> QED BY <2>1
<1> QED BY <1>5, <1>6, <1>7, <1>8 DEF AdapterPlace

(* One request goes on. *)
LEMMA AdapterGoesOn ==
    ASSUME AdapterInv, NEW r \in Requests, NEW t, NEW loc, Continue(r, t, loc), AdapterPlace(t, loc)',
           tally' \in Tallies, ~tally'.overlapped => ~tally.overlapped /\ Busy \subseteq {r},
           Given \subseteq Given', adapterPast.reset => adapterPast'.reset,
           Undisturbed' => Undisturbed /\ \A k \in AdapterKeys : adapterPast.taken[k] \subseteq adapterPast'.taken[k],
           AdapterTyped', NothingComesBack', CacheIsTaken', t = <<>> => Remembered({}, {})'
    PROVE  AdapterInv'
<1> DEFINE x == IF t = <<>> THEN Idle ELSE [todo |-> t, loc |-> loc]
<1>1. request' = [request EXCEPT ![r] = x] /\ DOMAIN request = Requests
  BY DEF Continue, AdapterInv, RequestsTyped
<1>2. request'[r] = x /\ DOMAIN request' = Requests /\ \A q \in Requests \ {r} : request'[q] = request[q]
  BY <1>1
<1>3. request'[r].todo = t /\ (t # <<>> => Loc(r)' = loc)
  BY <1>2 DEF Idle, Loc
<1> HIDE DEF x
<1>4. AdapterPlaces'
  <2>1. AdapterPlace(request[r].todo, Loc(r))'
    <3>1. CASE t = <<>>
      BY <1>3, <3>1 DEF AdapterPlace
    <3>2. CASE t # <<>>
      BY <1>3, <3>2
    <3> QED BY <3>1, <3>2
  <2>2. ASSUME NEW q \in Requests \ {r}
        PROVE  AdapterPlace(request[q].todo, Loc(q))'
    <3>1. PICK todo, l : todo = request[q].todo /\ l = Loc(q)
      OBVIOUS
    <3>2. AdapterPlace(todo, l)
      BY <3>1 DEF AdapterInv, AdapterPlaces
    <3>3. AdapterPlace(todo, l)'
      <4>1. CASE todo = <<>>
        BY <4>1 DEF AdapterPlace
      <4>2. CASE todo # <<>>
        <5>1. tally'.overlapped
          BY <3>1, <4>2 DEF Busy, Tallies
        <5> QED BY <3>2, <5>1, OtherAdaptersStay
      <4> QED BY <4>1, <4>2
    <3>4. request'[q].todo = todo /\ Loc(q)' = l
      BY <1>2, <3>1 DEF Loc
    <3> QED BY <3>3, <3>4
  <2> QED BY <2>1, <2>2 DEF AdapterPlaces
<1>5. OneRequest'
  BY <1>2 DEF OneRequest, Busy
<1>6. RequestsTyped'
  BY <1>2 DEF RequestsTyped, Tallies
<1>7. AdapterStore'
  <2>1. Busy' = {} => t = <<>>
    BY <1>3 DEF Busy
  <2> QED BY <2>1 DEF AdapterStore
<1> QED BY <1>4, <1>5, <1>6, <1>7 DEF AdapterInv

(* The adapters stay as they are. *)
LEMMA SameAdapters ==
    ASSUME AdapterInv, UNCHANGED adapterVars, tally'.overlapped \in BOOLEAN, tally'.faults \in Nat,
           ~tally'.overlapped => ~tally.overlapped, tally'.faults = 0 => tally.faults = 0
    PROVE  /\ Given' = Given /\ adapterPast' = adapterPast
           /\ Undisturbed' => Undisturbed
           /\ AdapterTyped' /\ NothingComesBack' /\ CacheIsTaken'
<1>1. /\ weights' = weights /\ adapters' = adapters /\ agentUsers' = agentUsers /\ adapterPast' = adapterPast
  BY DEF adapterVars
<1>2. Given' = Given /\ (Undisturbed' => Undisturbed)
  BY <1>1 DEF Given, Undisturbed
<1>3. AdapterTyped'
  BY <1>1, <1>2 DEF AdapterInv, AdapterTyped, AdapterPast
<1>4. NothingComesBack' /\ CacheIsTaken'
  BY <1>1, <1>2 DEF AdapterInv, AdapterStore, NothingComesBack, CacheIsTaken
<1> QED BY <1>1, <1>2, <1>3, <1>4

(* A request goes on, or ends, and the adapters are as before. *)
LEMMA AdapterMoves ==
    ASSUME AdapterInv, NEW r \in Busy, NEW t, NEW loc, Continue(r, t, loc), UNCHANGED <<adapterVars, tally>>,
           AdapterPlace(t, loc), t = <<>> => Remembered({}, {})
    PROVE  AdapterInv'
<1>1. r \in Requests /\ (~tally.overlapped => Busy \subseteq {r})
  BY DEF Busy, AdapterInv, OneRequest
<1>2. AdapterPlace(t, loc)'
  BY SamePlace
<1>3. tally \in Tallies /\ tally' = tally
  BY DEF AdapterInv, RequestsTyped, Tallies
<1>4. /\ Given' = Given /\ adapterPast' = adapterPast
      /\ Undisturbed' => Undisturbed
      /\ AdapterTyped' /\ NothingComesBack' /\ CacheIsTaken'
  BY <1>3, SameAdapters DEF Tallies
<1>5. t = <<>> => Remembered({}, {})'
  BY <1>3 DEF Remembered, InOrder, Learnt, Indexed, adapterVars
<1> QED BY <1>1, <1>2, <1>3, <1>4, <1>5, AdapterGoesOn

(* A command fails. *)
LEMMA AdapterFaults ==
    ASSUME AdapterInv, NEW r \in Busy, NEW t, NEW loc, Continue(r, t, loc), UNCHANGED adapterVars,
           tally' = [tally EXCEPT !.faults = @ + 1],
           t = <<>> \/ (loc \in [adapter : SUBSET Given]
                        /\ \E k \in AdapterKeys, n \in 0 .. MaxRated : Learns(t, loc, k, n)')
    PROVE  AdapterInv'
<1>1. r \in Requests /\ (~tally.overlapped => Busy \subseteq {r})
  BY DEF Busy, AdapterInv, OneRequest
<1>2. tally \in Tallies
  BY DEF AdapterInv, RequestsTyped, Tallies
<1>3. tally' = [started |-> tally.started, faults |-> tally.faults + 1, overlapped |-> tally.overlapped]
  BY <1>2 DEF Tallies
<1>4. tally' \in Tallies /\ tally'.overlapped = tally.overlapped /\ tally'.faults # 0 /\ tally'.faults \in Nat
  BY <1>2, <1>3 DEF Tallies
<1>5. /\ Given' = Given /\ adapterPast' = adapterPast
      /\ Undisturbed' => Undisturbed
      /\ AdapterTyped' /\ NothingComesBack' /\ CacheIsTaken'
  BY <1>2, <1>4, SameAdapters DEF Tallies
<1>6. AdapterPlace(t, loc)'
  BY <1>5 DEF AdapterPlace
<1>7. t = <<>> => Remembered({}, {})'
  BY <1>4 DEF Remembered, InOrder
<1> QED BY <1>1, <1>4, <1>5, <1>6, <1>7, AdapterGoesOn

(* A request begins. *)
LEMMA AdapterBegins ==
    ASSUME AdapterInv, NEW r \in Requests, NEW t, AskAdapter(r, t),
           \/ \E k \in AdapterKeys, n \in 0 .. MaxRated : t = GetList(k, n)
           \/ \E u \in AdapterUsers : \E d \in Drops(u) : t = DelList(d.key, d.rest) /\ d.gone = {}
           \/ t = <<Call("listUsers", "-", "-")>>
    PROVE  AdapterInv'
<1>1. Continue(r, t, AdapterLocals) /\ UNCHANGED adapterVars
  BY DEF AskAdapter, Start
<1>2. tally \in Tallies
  BY DEF AdapterInv, RequestsTyped, Tallies
<1>3. PICK over \in BOOLEAN : over = (tally.overlapped \/ Busy # {})
  BY <1>2 DEF Tallies
<1>4. tally' = [tally EXCEPT !.started = tally.started + 1, !.overlapped = over]
  BY <1>3 DEF AskAdapter, Start
<1>5. tally' = [started |-> tally.started + 1, faults |-> tally.faults, overlapped |-> over]
  BY <1>2, <1>4 DEF Tallies
<1>6. /\ tally' \in Tallies /\ tally'.overlapped = over /\ tally'.faults = tally.faults
      /\ ~tally'.overlapped => ~tally.overlapped /\ Busy = {}
  <2>1. tally' \in Tallies /\ tally'.overlapped = over /\ tally'.faults = tally.faults
    BY <1>2, <1>3, <1>5 DEF Tallies
  <2>2. ~over => ~tally.overlapped /\ Busy = {}
    BY <1>3
  <2> QED BY <2>1, <2>2
<1>7. /\ Given' = Given /\ adapterPast' = adapterPast
      /\ Undisturbed' => Undisturbed
      /\ AdapterTyped' /\ NothingComesBack' /\ CacheIsTaken'
  <2>1. tally'.overlapped \in BOOLEAN /\ tally'.faults \in Nat /\ (tally'.faults = 0 => tally.faults = 0)
    BY <1>6 DEF Tallies
  <2>2. ~tally'.overlapped => ~tally.overlapped
    BY <1>6
  <2> QED BY <1>1, <2>1, <2>2, SameAdapters
<1>8. Remembered({}, {})'
  <2>1. InOrder' => InOrder /\ Busy = {}
    BY <1>6 DEF InOrder
  <2>2. InOrder' => Remembered({}, {})
    BY <2>1 DEF AdapterInv, AdapterStore
  <2> QED BY <1>1, <2>1, <2>2 DEF Remembered, Learnt, Indexed, adapterVars
<1>9. Deleted({})'
  BY DEF Deleted
<1>10. AdapterLocals \in [adapter : SUBSET Given]
  BY DEF AdapterLocals, Untrained
<1>11. AdapterPlace(t, AdapterLocals)'
  <2>1. ASSUME NEW k \in AdapterKeys, NEW n \in 0 .. MaxRated, t = GetList(k, n)
        PROVE  Learns(t, AdapterLocals, k, n)'
    BY <1>8, <2>1 DEF Learns
  <2>2. ASSUME NEW u \in AdapterUsers, NEW d \in Drops(u), t = DelList(d.key, d.rest), d.gone = {}
        PROVE  Forgets(t, u)'
    BY <1>8, <1>9, <2>2 DEF Forgets
  <2>3. ASSUME t = <<Call("listUsers", "-", "-")>>
        PROVE  ListsUsers(t)'
    BY <1>8, <2>3 DEF ListsUsers
  <2>4. AdapterLocals \in [adapter : SUBSET Given']
    BY <1>7, <1>10
  <2> QED BY <2>1, <2>2, <2>3, <2>4 DEF AdapterPlace
<1> QED BY <1>1, <1>6, <1>7, <1>8, <1>11, AdapterGoesOn

(* A command is of a search, of a reset or of a listing. *)
LEMMA WhoseCommand ==
    ASSUME AdapterInv, NEW r \in Requests, NEW d, At(r, d)
    PROVE  /\ r \in Busy /\ Loc(r) \in [adapter : SUBSET Given] /\ AdapterPlace(request[r].todo, Loc(r))
           /\ \/ /\ d \in {"getAdapter", "load", "cacheAdapter", "train", "weightsSet", "slotIndex", "agentAdd", "catch"}
                 /\ \E k \in AdapterKeys, n \in 0 .. MaxRated : Learns(request[r].todo, Loc(r), k, n)
              \/ /\ d \in {"weightsDel", "slotIndex", "agentRem", "evict"}
                 /\ \E u \in AdapterUsers : Forgets(request[r].todo, u)
              \/ d \in {"listUsers", "probe", "agentRem"} /\ ListsUsers(request[r].todo)
<1>1. r \in Busy /\ request[r].todo # <<>> /\ AdapterPlace(request[r].todo, Loc(r))
  BY DEF At, Busy, AdapterInv, AdapterPlaces
<1>2. ASSUME NEW k \in AdapterKeys, NEW n \in 0 .. MaxRated, Learns(request[r].todo, Loc(r), k, n)
      PROVE  d \in {"getAdapter", "load", "cacheAdapter", "train", "weightsSet", "slotIndex", "agentAdd", "catch"}
  <2>1. \/ d = "getAdapter" \/ d = "load" \/ d = "cacheAdapter" \/ d = "weightsSet" \/ d = "slotIndex"
        \/ d = "agentAdd" \/ d = "catch" \/ d = "train"
    BY <1>2, AtLearning
  <2> QED BY <2>1
<1>3. ASSUME NEW u \in AdapterUsers, Forgets(request[r].todo, u)
      PROVE  d \in {"weightsDel", "slotIndex", "agentRem", "evict"}
  <2>1. d = "weightsDel" \/ d = "slotIndex" \/ d = "agentRem" \/ d = "evict"
    BY <1>3, AtReset
  <2> QED BY <2>1
<1>4. ASSUME ListsUsers(request[r].todo)
      PROVE  d \in {"listUsers", "probe", "agentRem"}
  <2>1. d = "listUsers" \/ d = "probe" \/ d = "agentRem"
    BY <1>4, AtListing
  <2> QED BY <2>1
<1> QED BY <1>1, <1>2, <1>3, <1>4 DEF AdapterPlace

-----------------------------------------------------------------------------
(* Each step keeps the invariant.                                           *)

LEMMA SearchKeeps ==
    ASSUME AdapterInv, NEW r \in Requests, NEW n \in 0 .. MaxRated,
           (\E k \in AdapterKeys : Search(r, k, n)) \/ (\E u \in AdapterUsers : Feedback(r, u, n))
    PROVE  AdapterInv'
<1>1. n \in Nat
  BY AdapterAssumption
<1>2. \A k \in AdapterKeys : AskAdapter(r, GetList(k, n)) => AdapterInv'
  BY AdapterBegins
<1>3. \A k \in AdapterKeys : Cmd("getAdapter", k, "-") \o Train(k, n) = GetList(k, n)
  BY <1>1, StartLists
<1>4. \A u \in AdapterUsers : <<u, "agent">> \in AdapterKeys
  BY DEF AdapterKeys
<1> QED BY <1>2, <1>3, <1>4 DEF Search, Feedback

LEMMA ResetKeeps ==
    ASSUME AdapterInv, NEW r \in Requests, NEW u \in AdapterUsers, NEW scope \in {"agent", "global", "all"},
           Reset(r, u, scope)
    PROVE  AdapterInv'
<1> DEFINE agent == <<u, "agent">>
           global == <<u, "__global__">>
<1>1. PICK t : AskAdapter(r, t)
               /\ t \in {DelList(agent, EvictList(agent, <<>>)), DelList(global, EvictList(global, <<>>)),
                         DelList(agent, DelList(global, EvictBoth(u)))}
  <2>1. /\ delete_lora_weights(agent) \o Cmd("evict", agent, "-") = DelList(agent, EvictList(agent, <<>>))
        /\ delete_lora_weights(global) \o Cmd("evict", global, "-") = DelList(global, EvictList(global, <<>>))
        /\ ((delete_lora_weights(agent) \o delete_lora_weights(global)) \o Cmd("evict", agent, "-"))
             \o Cmd("evict", global, "-") = DelList(agent, DelList(global, EvictBoth(u)))
    BY ResetStartLists
  <2>2. CASE scope = "agent"
    BY <2>1, <2>2 DEF Reset
  <2>3. CASE scope = "global"
    BY <2>1, <2>3 DEF Reset
  <2>4. CASE scope = "all"
    BY <2>1, <2>4 DEF Reset
  <2> QED BY <2>2, <2>3, <2>4
<1>2. \E d \in Drops(u) : t = DelList(d.key, d.rest) /\ d.gone = {}
  <2>1. /\ [key |-> agent, rest |-> EvictList(agent, <<>>), gone |-> {}] \in Drops(u)
        /\ [key |-> global, rest |-> EvictList(global, <<>>), gone |-> {}] \in Drops(u)
        /\ [key |-> agent, rest |-> DelList(global, EvictBoth(u)), gone |-> {}] \in Drops(u)
    BY DEF Drops
  <2> HIDE DEF agent, global
  <2> QED BY <1>1, <2>1
<1> QED BY <1>1, <1>2, AdapterBegins

LEMMA ListUsersKeeps ==
    ASSUME AdapterInv, NEW r \in Requests, ListUsers(r)
    PROVE  AdapterInv'
<1>1. AskAdapter(r, <<Call("listUsers", "-", "-")>>)
  BY DEF ListUsers, Cmd, Call
<1> QED BY <1>1, AdapterBegins

LEMMA AdapterCommandFails ==
    ASSUME AdapterInv, NEW r \in Requests, CommandFails(r), UNCHANGED adapterVars
    PROVE  AdapterInv'
<1>1. /\ r \in Busy /\ ~At(r, "catch") /\ Continue(r, Unwound(Rest(r)), Loc(r))
      /\ tally' = [tally EXCEPT !.faults = @ + 1]
  BY DEF CommandFails
<1>2. PICK d : At(r, d)
  BY <1>1 DEF At
<1>3. Loc(r) \in [adapter : SUBSET Given] /\ AdapterPlace(request[r].todo, Loc(r))
  BY <1>2, WhoseCommand
<1>4. PICK t, loc : t = Unwound(Rest(r)) /\ loc = Loc(r)
  OBVIOUS
<1>5. ~InOrder'
  <2>1. tally \in Tallies
    BY DEF AdapterInv, RequestsTyped, Tallies
  <2> QED BY <1>1, <2>1 DEF InOrder, Tallies
<1>6. Remembered({}, {})'
  BY <1>5 DEF Remembered
<1>7. t = <<>> \/ \E k \in AdapterKeys, n \in 0 .. MaxRated : t = CatchList(k, "failed", n)
  BY <1>1, <1>3, <1>4, AdapterErrors
<1>8. \A k \in AdapterKeys, n \in 0 .. MaxRated : t = CatchList(k, "failed", n) => Learns(t, loc, k, n)'
  BY <1>5, <1>6 DEF Learns, Kept
<1> QED BY <1>1, <1>3, <1>4, <1>7, <1>8, AdapterFaults

LEMMA GetAdapterKeeps ==
    ASSUME AdapterInv, NEW r \in Requests, GetAdapter(r)
    PROVE  AdapterInv'
<1>1. At(r, "getAdapter") /\ UNCHANGED <<adapterVars, tally>>
  BY DEF GetAdapter, Done, Sent, Insert
<1>2. /\ r \in Busy /\ Loc(r) \in [adapter : SUBSET Given]
      /\ \E k \in AdapterKeys, n \in 0 .. MaxRated : Learns(request[r].todo, Loc(r), k, n)
  BY <1>1, WhoseCommand
<1>3. PICK k \in AdapterKeys, n \in 0 .. MaxRated : Learns(request[r].todo, Loc(r), k, n)
  BY <1>2
<1>4. This(r).id = k /\ Rest(r) = Train(k, n) /\ Remembered({}, {})
  <2>1. PICK d : d = "getAdapter" /\ At(r, d)
    BY <1>1
  <2>2. This(r).id = k /\ (d = "getAdapter" => Rest(r) = Train(k, n) /\ Remembered({}, {}))
    BY <1>3, <2>1, LearningSteps
  <2> QED BY <2>1, <2>2
<1>5. CASE adapters[k] # {}
  <2>1. Continue(r, Train(k, n), Loc(r))
    BY <1>4, <1>5 DEF GetAdapter, Done, Sent
  <2>2. Learns(Train(k, n), Loc(r), k, n)
    BY <1>4, <1>5 DEF Learns, Kept
  <2>3. AdapterPlace(Train(k, n), Loc(r))
    BY <1>2, <2>2 DEF AdapterPlace
  <2> QED BY <1>1, <1>2, <1>4, <2>1, <2>3, AdapterMoves
<1>6. CASE adapters[k] = {}
  <2>1. Continue(r, LoadList(k, n), Loc(r))
    <3>1. n \in Nat
      BY AdapterAssumption
    <3> QED BY <1>4, <1>6, <3>1, StartLists DEF GetAdapter, Insert
  <2>2. Learns(LoadList(k, n), Loc(r), k, n)
    BY <1>4 DEF Learns
  <2>3. AdapterPlace(LoadList(k, n), Loc(r))
    BY <1>2, <2>2 DEF AdapterPlace
  <2> QED BY <1>1, <1>2, <1>4, <2>1, <2>3, AdapterMoves
<1> QED BY <1>5, <1>6

LEMMA LoadKeeps ==
    ASSUME AdapterInv, NEW r \in Requests, Load(r)
    PROVE  AdapterInv'
<1>1. PICK d : d = "load" /\ At(r, d)
  BY DEF Load
<1>2. /\ r \in Busy /\ Loc(r) \in [adapter : SUBSET Given]
      /\ \E k \in AdapterKeys, n \in 0 .. MaxRated : Learns(request[r].todo, Loc(r), k, n)
  BY <1>1, WhoseCommand
<1>3. PICK k \in AdapterKeys, n \in 0 .. MaxRated : Learns(request[r].todo, Loc(r), k, n)
  BY <1>2
<1>4. This(r).id = k /\ (d = "load" => Rest(r) = CacheList(k, n) /\ Remembered({}, {}))
  BY <1>1, <1>3, LearningSteps
<1>5. CASE Sent(r, [Loc(r) EXCEPT !.adapter = weights[This(r).id]])
  <2>1. PICK loc : loc = [Loc(r) EXCEPT !.adapter = weights[k]]
    OBVIOUS
  <2>2. Continue(r, CacheList(k, n), loc) /\ UNCHANGED <<adapterVars, tally>>
    BY <1>1, <1>4, <1>5, <2>1 DEF Load, Sent
  <2>3. loc = [adapter |-> weights[k]] /\ weights[k] \in SUBSET Given
    BY <1>2, <2>1 DEF AdapterInv, AdapterTyped
  <2>4. Carries(loc, k)
    BY <2>3 DEF AdapterInv, AdapterStore, NothingComesBack, CacheIsTaken, Carries
  <2>5. Learns(CacheList(k, n), loc, k, n)
    BY <1>1, <1>4, <2>3, <2>4 DEF Learns, Loaded
  <2>6. AdapterPlace(CacheList(k, n), loc)
    BY <2>3, <2>5 DEF AdapterPlace
  <2> QED BY <1>1, <1>2, <1>4, <2>2, <2>6, AdapterMoves
<1>6. CASE /\ tally' = [tally EXCEPT !.faults = @ + 1]
           /\ Continue(r, Rest(r), [Loc(r) EXCEPT !.adapter = Untrained])
  <2>1. PICK loc : loc = [Loc(r) EXCEPT !.adapter = Untrained]
    OBVIOUS
  <2>2. Continue(r, CacheList(k, n), loc) /\ UNCHANGED adapterVars
    BY <1>1, <1>4, <1>6, <2>1 DEF Load
  <2>3. loc = [adapter |-> {}] /\ loc \in [adapter : SUBSET Given]
    BY <1>2, <2>1 DEF Untrained
  <2>4. ~InOrder'
    <3>1. tally \in Tallies
      BY DEF AdapterInv, RequestsTyped, Tallies
    <3> QED BY <1>6, <3>1 DEF InOrder, Tallies
  <2>5. Remembered({}, {})' /\ Carries(loc, k)'
    BY <2>3, <2>4 DEF Remembered, Carries
  <2>6. Learns(CacheList(k, n), loc, k, n)'
    BY <2>4, <2>5 DEF Learns, Loaded
  <2> QED BY <1>2, <1>6, <2>2, <2>3, <2>6, AdapterFaults
<1> QED BY <1>5, <1>6 DEF Load

LEMMA SavedKeeps ==
    ASSUME AdapterInv, NEW r \in Requests, Saved(r)
    PROVE  AdapterInv'
<1>1. PICK d : d = "catch" /\ At(r, d)
  BY DEF Saved
<1>2. /\ r \in Busy /\ Loc(r) \in [adapter : SUBSET Given]
      /\ \E k \in AdapterKeys, n \in 0 .. MaxRated : Learns(request[r].todo, Loc(r), k, n)
  BY <1>1, WhoseCommand
<1>3. PICK k \in AdapterKeys, n \in 0 .. MaxRated : Learns(request[r].todo, Loc(r), k, n)
  BY <1>2
<1>4. d = "catch" => Remembered({}, {}) /\ Kept(k) /\ Rest(r) = Train(k, n)
  BY <1>1, <1>3, LearningSteps
<1>5. Learns(Train(k, n), Loc(r), k, n)
  BY <1>1, <1>4 DEF Learns
<1>6. AdapterPlace(Train(k, n), Loc(r))
  BY <1>2, <1>5 DEF AdapterPlace
<1>7. Continue(r, Train(k, n), Loc(r)) /\ UNCHANGED <<adapterVars, tally>>
  BY <1>1, <1>4 DEF Saved, Done, Sent
<1> QED BY <1>1, <1>2, <1>4, <1>6, <1>7, AdapterMoves

LEMMA CacheAdapterKeeps ==
    ASSUME AdapterInv, NEW r \in Requests, CacheAdapter(r)
    PROVE  AdapterInv'
<1>1. PICK d : d = "cacheAdapter" /\ At(r, d)
  BY DEF CacheAdapter
<1>2. /\ r \in Busy /\ Loc(r) \in [adapter : SUBSET Given]
      /\ \E k \in AdapterKeys, n \in 0 .. MaxRated : Learns(request[r].todo, Loc(r), k, n)
  BY <1>1, WhoseCommand
<1>3. PICK k \in AdapterKeys, n \in 0 .. MaxRated : Learns(request[r].todo, Loc(r), k, n)
  BY <1>2
<1>4. /\ This(r).id = k
      /\ d = "cacheAdapter" => Rest(r) = Train(k, n) /\ Remembered({}, {}) /\ Carries(Loc(r), k) /\ Loaded(Loc(r), k)
  BY <1>1, <1>3, LearningSteps
<1>5. PICK w : w = Loc(r).adapter /\ w \in SUBSET Given
  BY <1>2
<1>6. PICK raced \in BOOLEAN : raced = (adapterPast.raced \/ adapters[k] # {})
  OBVIOUS
<1>7. /\ Continue(r, Train(k, n), Loc(r)) /\ tally' = tally
      /\ weights' = weights /\ agentUsers' = agentUsers
      /\ adapters' = [adapters EXCEPT ![k] = {w}]
      /\ adapterPast' = [adapterPast EXCEPT !.raced = raced]
  BY <1>1, <1>4, <1>5, <1>6 DEF CacheAdapter, Done, Sent
<1>8. /\ AdapterTyped /\ tally \in Tallies /\ NothingComesBack /\ CacheIsTaken
  BY DEF AdapterInv, AdapterStore, RequestsTyped, Tallies
<1>9. /\ adapterPast'.steps = adapterPast.steps /\ adapterPast'.taken = adapterPast.taken
      /\ adapterPast'.forgotten = adapterPast.forgotten /\ adapterPast'.reset = adapterPast.reset
      /\ adapterPast'.restarts = adapterPast.restarts /\ adapterPast'.cut = adapterPast.cut
      /\ adapterPast'.raced = raced /\ Given' = Given
      /\ adapterPast' \in AdapterPast
  BY <1>7, <1>8 DEF AdapterTyped, AdapterPast, Given
<1>10. adapters'[k] = {w} /\ \A j \in AdapterKeys : j # k => adapters'[j] = adapters[j]
  BY <1>7, <1>8 DEF AdapterTyped
<1>11. AdapterTyped'
  BY <1>5, <1>7, <1>8, <1>9 DEF AdapterTyped, AdapterPast
<1>12. Undisturbed' => Undisturbed /\ adapters[k] = {}
  BY <1>6, <1>7, <1>9 DEF Undisturbed
<1>13. CacheIsTaken'
  <2>1. Undisturbed' => w = {} /\ adapterPast.taken[k] = {}
    BY <1>1, <1>4, <1>5, <1>8, <1>12 DEF CacheIsTaken, Carries
  <2> QED BY <1>7, <1>8, <1>9, <1>10, <1>12, <2>1 DEF CacheIsTaken
<1>14. NothingComesBack'
  <2>1. ~tally.overlapped => w \cap adapterPast.forgotten[k] = {}
    BY <1>1, <1>4, <1>5 DEF Carries
  <2>2. UNION adapters'[k] = w
    BY <1>10
  <2> QED BY <1>7, <1>8, <1>9, <1>10, <2>1, <2>2 DEF NothingComesBack
<1>15. Remembered({}, {})' /\ (InOrder' => adapters'[k] # {})
  <2>1. InOrder' <=> InOrder
    BY <1>7 DEF InOrder
  <2>2. InOrder => /\ \A j \in AdapterKeys : Learnt(j)
                   /\ \A u \in AdapterUsers : Indexed(u)
                   /\ w = weights[k]
    BY <1>1, <1>4, <1>5 DEF Remembered, Loaded
  <2>3. InOrder => \A j \in AdapterKeys : Learnt(j)'
    BY <1>7, <1>9, <1>10, <2>2 DEF Learnt
  <2>4. InOrder => \A u \in AdapterUsers : Indexed(u)'
    BY <1>7, <1>9, <2>2 DEF Indexed
  <2> QED BY <1>10, <2>1, <2>3, <2>4 DEF Remembered
<1>16. PICK t, loc : t = Train(k, n) /\ loc = Loc(r)
  OBVIOUS
<1>17. AdapterPlace(t, loc)'
  <2>1. Learns(t, loc, k, n)'
    BY <1>15, <1>16 DEF Learns, Kept
  <2> QED BY <1>2, <1>9, <1>16, <2>1 DEF AdapterPlace
<1>18. ~tally'.overlapped => ~tally.overlapped /\ Busy \subseteq {r}
  BY <1>2, <1>7 DEF AdapterInv, OneRequest
<1> QED BY <1>7, <1>8, <1>9, <1>11, <1>12, <1>13, <1>14, <1>15, <1>16, <1>17, <1>18, AdapterGoesOn

LEMMA TrainAdapterKeeps ==
    ASSUME AdapterInv, NEW r \in Requests, TrainAdapter(r)
    PROVE  AdapterInv'
<1>1. PICK d : d = "train" /\ At(r, d)
  BY DEF TrainAdapter
<1>2. /\ r \in Busy /\ Loc(r) \in [adapter : SUBSET Given]
      /\ \E k \in AdapterKeys, n \in 0 .. MaxRated : Learns(request[r].todo, Loc(r), k, n)
  BY <1>1, WhoseCommand
<1>3. PICK k \in AdapterKeys, n \in 0 .. MaxRated : Learns(request[r].todo, Loc(r), k, n)
  BY <1>2
<1>4. /\ This(r).id = k
      /\ d = "train" => Remembered({}, {}) /\ Kept(k) /\ This(r).how = n /\ n # 0 /\ Rest(r) = <<>>
  BY <1>1, <1>3, LearningSteps
<1>5. PICK m : m = n - 1 /\ m \in 0 .. MaxRated /\ m \in Nat
  BY <1>1, <1>4, AdapterAssumption
<1>6. PICK step, w, loc :
         step = adapterPast.steps + 1 /\ w = TrainingFrom(k) \cup {step} /\ loc = [Loc(r) EXCEPT !.adapter = w]
  OBVIOUS
<1>7. /\ Continue(r, SetList(k, m), loc) /\ tally' = tally /\ adapterPast.steps < MaxTraining
      /\ weights' = weights /\ agentUsers' = agentUsers
      /\ adapters' = [adapters EXCEPT ![k] = {w}]
      /\ adapterPast' = [adapterPast EXCEPT !.steps = step, !.taken[k] = @ \cup {step}]
  <2>1. (save_lora_weights(k) \o Train(k, m)) \o <<>> = SetList(k, m)
    BY <1>5, StartLists
  <2> QED BY <1>1, <1>4, <1>5, <1>6, <2>1 DEF TrainAdapter, Insert
<1>8. AdapterTyped /\ tally \in Tallies /\ NothingComesBack /\ CacheIsTaken
  BY DEF AdapterInv, AdapterStore, RequestsTyped, Tallies
<1>9. step \in Nat /\ step = adapterPast.steps + 1 /\ step <= MaxTraining /\ adapterPast.steps \in Nat
      /\ step \notin Given /\ 1 .. step = Given \cup {step}
  BY <1>6, <1>7, <1>8, AdapterAssumption DEF AdapterTyped, AdapterPast, Given
<1>10. /\ adapterPast'.steps = step /\ adapterPast'.forgotten = adapterPast.forgotten
       /\ adapterPast'.reset = adapterPast.reset /\ adapterPast'.restarts = adapterPast.restarts
       /\ adapterPast'.cut = adapterPast.cut /\ adapterPast'.raced = adapterPast.raced
       /\ adapterPast'.taken = [adapterPast.taken EXCEPT ![k] = @ \cup {step}]
       /\ DOMAIN adapterPast' = DOMAIN adapterPast
  BY <1>7, <1>8 DEF AdapterTyped, AdapterPast
<1>11. Given' = Given \cup {step}
  BY <1>9, <1>10 DEF Given
<1>12. /\ adapterPast'.taken[k] = adapterPast.taken[k] \cup {step}
       /\ \A j \in AdapterKeys : j # k => adapterPast'.taken[j] = adapterPast.taken[j]
       /\ adapters'[k] = {w} /\ \A j \in AdapterKeys : j # k => adapters'[j] = adapters[j]
  BY <1>7, <1>8, <1>10 DEF AdapterTyped, AdapterPast
<1>13. /\ TrainingFrom(k) \in SUBSET Given
       /\ adapters[k] = {} => TrainingFrom(k) = {}
       /\ adapters[k] # {} => adapters[k] = {TrainingFrom(k)}
  <2>1. PICK ws : ws = adapters[k] /\ (ws = {} \/ \E v \in SUBSET Given : ws = {v})
    BY <1>8 DEF AdapterTyped
  <2>2. CASE ws = {}
    BY <2>1, <2>2 DEF TrainingFrom, Untrained
  <2>3. ASSUME NEW v \in SUBSET Given, ws = {v}
        PROVE  TrainingFrom(k) = v
    <3>1. (CHOOSE x \in {v} : TRUE) = v
      OBVIOUS
    <3> QED BY <2>1, <2>3, <3>1 DEF TrainingFrom
  <2> QED BY <2>1, <2>2, <2>3
<1>14. AdapterTyped'
  <2>1. /\ adapterPast' \in [steps : Nat, taken : [AdapterKeys -> SUBSET (Given \cup {step})],
                             forgotten : [AdapterKeys -> SUBSET (Given \cup {step})],
                             reset : BOOLEAN, restarts : Nat, cut : BOOLEAN, raced : BOOLEAN]
    <3>1. adapterPast'.taken \in [AdapterKeys -> SUBSET (Given \cup {step})]
      BY <1>8, <1>10 DEF AdapterTyped, AdapterPast
    <3>2. adapterPast'.forgotten \in [AdapterKeys -> SUBSET (Given \cup {step})]
      BY <1>8, <1>10 DEF AdapterTyped, AdapterPast
    <3>3. PICK taken \in [AdapterKeys -> SUBSET (Given \cup {step})] : taken = adapterPast'.taken
      BY <3>1
    <3>4. adapterPast' = [steps |-> step, taken |-> taken, forgotten |-> adapterPast.forgotten,
                          reset |-> adapterPast.reset, restarts |-> adapterPast.restarts,
                          cut |-> adapterPast.cut, raced |-> adapterPast.raced]
      BY <1>7, <1>8, <3>3 DEF AdapterTyped, AdapterPast
    <3>5. /\ adapterPast.reset \in BOOLEAN /\ adapterPast.restarts \in Nat
          /\ adapterPast.cut \in BOOLEAN /\ adapterPast.raced \in BOOLEAN
      BY <1>8 DEF AdapterTyped, AdapterPast
    <3> QED BY <1>9, <1>10, <3>2, <3>4, <3>5
  <2>2. adapterPast'.steps <= MaxTraining
    BY <1>9, <1>10
  <2>3. weights' \in [AdapterKeys -> SUBSET (Given \cup {step})]
    BY <1>7, <1>8 DEF AdapterTyped
  <2>4. adapters' \in [AdapterKeys -> {{}} \cup {{v} : v \in SUBSET (Given \cup {step})}]
    <3>1. w \in SUBSET (Given \cup {step})
      BY <1>6, <1>13
    <3>2. \A j \in AdapterKeys : adapters[j] \in {{}} \cup {{v} : v \in SUBSET (Given \cup {step})}
      BY <1>8 DEF AdapterTyped
    <3>3. adapters' = [j \in AdapterKeys |-> IF j = k THEN {w} ELSE adapters[j]]
      BY <1>7, <1>8 DEF AdapterTyped
    <3>4. \A j \in AdapterKeys :
            (IF j = k THEN {w} ELSE adapters[j]) \in {{}} \cup {{v} : v \in SUBSET (Given \cup {step})}
      BY <3>1, <3>2
    <3> QED BY <3>3, <3>4
  <2> QED BY <1>7, <1>8, <1>11, <2>1, <2>2, <2>3, <2>4 DEF AdapterTyped, AdapterPast
<1>15. Undisturbed' <=> Undisturbed
  BY <1>7, <1>10 DEF Undisturbed
<1>16. Undisturbed => w = adapterPast'.taken[k]
  BY <1>6, <1>8, <1>12, <1>13 DEF CacheIsTaken
<1>17. CacheIsTaken'
  BY <1>7, <1>8, <1>12, <1>15, <1>16 DEF CacheIsTaken
<1>18. ~tally.overlapped => w \cap adapterPast.forgotten[k] = {}
  <2>1. ~tally.overlapped => TrainingFrom(k) \cap adapterPast.forgotten[k] = {}
    BY <1>8, <1>13 DEF NothingComesBack
  <2>2. step \notin adapterPast.forgotten[k]
    BY <1>8, <1>9 DEF AdapterTyped, AdapterPast
  <2> QED BY <1>6, <2>1, <2>2
<1>19. NothingComesBack'
  <2>1. UNION adapters'[k] = w
    BY <1>12
  <2> QED BY <1>7, <1>8, <1>10, <1>12, <1>18, <2>1 DEF NothingComesBack
<1>20. loc = [adapter |-> w] /\ w \in SUBSET Given'
  BY <1>2, <1>6, <1>11, <1>13
<1>21. Carries(loc, k)'
  BY <1>7, <1>10, <1>15, <1>16, <1>18, <1>20 DEF Carries
<1>22. Remembered({k}, {})' /\ Trained(loc, k)'
  <2>1. InOrder' <=> InOrder
    BY <1>7 DEF InOrder
  <2>2. InOrder => /\ \A j \in AdapterKeys : Learnt(j)
                   /\ \A u \in AdapterUsers : Indexed(u)
                   /\ adapters[k] # {}
    BY <1>1, <1>4 DEF Remembered, Kept
  <2>3. InOrder => \A j \in AdapterKeys \ {k} : Learnt(j)'
    BY <1>7, <1>12, <2>2 DEF Learnt
  <2>4. InOrder => \A u \in AdapterUsers : Indexed(u)'
    BY <1>7, <1>10, <2>2 DEF Indexed
  <2>5. InOrder => w = adapterPast'.taken[k]
    BY <1>6, <1>12, <1>13, <2>2 DEF Learnt
  <2>6. w # Untrained
    BY <1>6 DEF Untrained
  <2> QED BY <1>12, <1>20, <2>1, <2>3, <2>4, <2>5, <2>6 DEF Remembered, Trained
<1>23. PICK t : t = SetList(k, m)
  OBVIOUS
<1>24. AdapterPlace(t, loc)'
  <2>1. Learns(t, loc, k, m)'
    BY <1>21, <1>22, <1>23 DEF Learns
  <2> QED BY <1>5, <1>20, <2>1 DEF AdapterPlace
<1>25. t # <<>>
  BY <1>5, <1>23, SearchLists, Zenon
<1>26. ~tally'.overlapped => ~tally.overlapped /\ Busy \subseteq {r}
  BY <1>2, <1>7 DEF AdapterInv, OneRequest
<1>27. \A j \in AdapterKeys : adapterPast.taken[j] \subseteq adapterPast'.taken[j]
  BY <1>12
<1> QED BY <1>7, <1>8, <1>10, <1>11, <1>14, <1>15, <1>17, <1>19, <1>23, <1>24, <1>25, <1>26, <1>27, AdapterGoesOn

LEMMA WeightsSetKeeps ==
    ASSUME AdapterInv, NEW r \in Requests, WeightsSet(r)
    PROVE  AdapterInv'
<1>1. PICK d : d = "weightsSet" /\ At(r, d)
  BY DEF WeightsSet
<1>2. /\ r \in Busy /\ Loc(r) \in [adapter : SUBSET Given]
      /\ \E k \in AdapterKeys, n \in 0 .. MaxRated : Learns(request[r].todo, Loc(r), k, n)
  BY <1>1, WhoseCommand
<1>3. PICK k \in AdapterKeys, n \in 0 .. MaxRated : Learns(request[r].todo, Loc(r), k, n)
  BY <1>2
<1>4. /\ This(r).id = k
      /\ d = "weightsSet" =>
           Rest(r) = SlotList(k, n) /\ Remembered({k}, {}) /\ Carries(Loc(r), k) /\ Trained(Loc(r), k)
  BY <1>1, <1>3, LearningSteps
<1>5. PICK w : w = Loc(r).adapter /\ w \in SUBSET Given
  BY <1>2
<1>6. /\ Continue(r, SlotList(k, n), Loc(r)) /\ tally' = tally
      /\ weights' = [weights EXCEPT ![k] = w] /\ UNCHANGED <<adapters, agentUsers, adapterPast>>
  BY <1>1, <1>4, <1>5 DEF WeightsSet, Done, Sent
<1>7. AdapterTyped /\ tally \in Tallies /\ NothingComesBack /\ CacheIsTaken
  BY DEF AdapterInv, AdapterStore, RequestsTyped, Tallies
<1>8. weights'[k] = w /\ \A j \in AdapterKeys : j # k => weights'[j] = weights[j]
  BY <1>6, <1>7 DEF AdapterTyped
<1>9. Given' = Given /\ (Undisturbed' <=> Undisturbed) /\ (InOrder' <=> InOrder)
  BY <1>6 DEF Given, Undisturbed, InOrder
<1>10. AdapterTyped'
  BY <1>5, <1>6, <1>7, <1>9 DEF AdapterTyped, AdapterPast
<1>11. CacheIsTaken'
  <2>1. Undisturbed => w \subseteq adapterPast.taken[k]
    BY <1>1, <1>4, <1>5 DEF Carries
  <2> QED BY <1>6, <1>7, <1>8, <1>9, <2>1 DEF CacheIsTaken
<1>12. NothingComesBack'
  <2>1. ~tally.overlapped => w \cap adapterPast.forgotten[k] = {}
    BY <1>1, <1>4, <1>5 DEF Carries
  <2> QED BY <1>6, <1>7, <1>8, <2>1 DEF NothingComesBack
<1>13. Remembered({}, Late(k))' /\ Stored(k)'
  <2>1. InOrder => /\ \A j \in AdapterKeys \ {k} : Learnt(j)
                   /\ \A u \in AdapterUsers : Indexed(u)
                   /\ adapters[k] = {w} /\ w = adapterPast.taken[k] /\ w # Untrained
    BY <1>1, <1>4, <1>5 DEF Remembered, Trained
  <2>2. InOrder => \A j \in AdapterKeys : Learnt(j)'
    BY <1>6, <1>8, <2>1 DEF Learnt
  <2>3. ASSUME NEW u \in AdapterUsers, u \notin Late(k), Indexed(u)
        PROVE  Indexed(u)'
    <3>1. <<u, "agent">> # k /\ <<u, "agent">> \in AdapterKeys
      BY <2>3 DEF Late, AdapterKeys
    <3> QED BY <1>6, <1>8, <2>3, <3>1 DEF Indexed
  <2>4. Late(k)' = Late(k)
    OBVIOUS
  <2> QED BY <1>6, <1>8, <1>9, <2>1, <2>2, <2>3, <2>4 DEF Remembered, Stored
<1>14. PICK t, loc : t = SlotList(k, n) /\ loc = Loc(r)
  OBVIOUS
<1>15. AdapterPlace(t, loc)'
  <2>1. Learns(t, loc, k, n)'
    BY <1>13, <1>14 DEF Learns
  <2> QED BY <1>2, <1>9, <1>14, <2>1 DEF AdapterPlace
<1>16. t # <<>>
  <2>1. n \in Nat
    BY AdapterAssumption
  <2> QED BY <1>14, <2>1, SearchLists, Zenon
<1>17. ~tally'.overlapped => ~tally.overlapped /\ Busy \subseteq {r}
  BY <1>2, <1>6 DEF AdapterInv, OneRequest
<1> QED BY <1>6, <1>7, <1>9, <1>10, <1>11, <1>12, <1>14, <1>15, <1>16, <1>17, AdapterGoesOn

LEMMA AgentAddKeeps ==
    ASSUME AdapterInv, NEW r \in Requests, AgentAdd(r)
    PROVE  AdapterInv'
<1>1. PICK d : d = "agentAdd" /\ At(r, d)
  BY DEF AgentAdd
<1>2. /\ r \in Busy /\ Loc(r) \in [adapter : SUBSET Given]
      /\ \E k \in AdapterKeys, n \in 0 .. MaxRated : Learns(request[r].todo, Loc(r), k, n)
  BY <1>1, WhoseCommand
<1>3. PICK k \in AdapterKeys, n \in 0 .. MaxRated : Learns(request[r].todo, Loc(r), k, n)
  BY <1>2
<1>4. /\ This(r).id = k
      /\ d = "agentAdd" => Remembered({}, Late(k)) /\ Stored(k) /\ k[2] = "agent" /\ Rest(r) = CatchList(k, "-", n)
  BY <1>1, <1>3, LearningSteps
<1>5. PICK u \in AdapterUsers : k = <<u, "agent">> /\ k[1] = u
  BY <1>1, <1>4 DEF AdapterKeys
<1>6. /\ Continue(r, CatchList(k, "-", n), Loc(r)) /\ tally' = tally
      /\ agentUsers' = agentUsers \cup {u} /\ UNCHANGED <<weights, adapters, adapterPast>>
  BY <1>1, <1>4, <1>5 DEF AgentAdd, Done, Sent
<1>7. AdapterTyped /\ tally \in Tallies /\ NothingComesBack /\ CacheIsTaken
  BY DEF AdapterInv, AdapterStore, RequestsTyped, Tallies
<1>8. Given' = Given /\ (Undisturbed' <=> Undisturbed) /\ (InOrder' <=> InOrder)
  BY <1>6 DEF Given, Undisturbed, InOrder
<1>9. AdapterTyped' /\ CacheIsTaken' /\ NothingComesBack'
  BY <1>6, <1>7, <1>8 DEF AdapterTyped, AdapterPast, CacheIsTaken, NothingComesBack
<1>10. Remembered({}, {})' /\ Kept(k)'
  <2>1. InOrder => /\ \A j \in AdapterKeys : Learnt(j)
                   /\ \A v \in AdapterUsers \ {u} : Indexed(v)
                   /\ weights[k] # Untrained /\ adapters[k] # {}
    BY <1>1, <1>4, <1>5 DEF Remembered, Stored, Late
  <2>2. InOrder => \A j \in AdapterKeys : Learnt(j)'
    BY <1>6, <2>1 DEF Learnt
  <2>3. InOrder => \A v \in AdapterUsers : Indexed(v)'
    BY <1>5, <1>6, <2>1 DEF Indexed
  <2> QED BY <1>6, <1>8, <2>1, <2>2, <2>3 DEF Remembered, Kept
<1>11. PICK t, loc : t = CatchList(k, "-", n) /\ loc = Loc(r)
  OBVIOUS
<1>12. AdapterPlace(t, loc)'
  <2>1. Learns(t, loc, k, n)'
    BY <1>10, <1>11 DEF Learns
  <2> QED BY <1>2, <1>8, <1>11, <2>1 DEF AdapterPlace
<1>13. ~tally'.overlapped => ~tally.overlapped /\ Busy \subseteq {r}
  BY <1>2, <1>6 DEF AdapterInv, OneRequest
<1> QED BY <1>6, <1>7, <1>8, <1>9, <1>10, <1>11, <1>12, <1>13, AdapterGoesOn

(* What a reset does after a deletion. *)
LEMMA AfterDrop ==
    ASSUME NEW u \in AdapterUsers, NEW drop \in Drops(u)
    PROVE  \/ \E next \in Drops(u) : drop.rest = DelList(next.key, next.rest) /\ next.gone = drop.gone \cup {drop.key}
           \/ drop.rest = EvictBoth(u) /\ drop.gone \cup {drop.key} = {<<u, "agent">>, <<u, "__global__">>}
           \/ /\ drop.key \in {<<u, "agent">>, <<u, "__global__">>}
              /\ drop.rest = EvictList(drop.key, <<>>) /\ drop.gone \cup {drop.key} = {drop.key}
<1> DEFINE agent == <<u, "agent">>
           global == <<u, "__global__">>
           last == [key |-> global, rest |-> EvictBoth(u), gone |-> {agent}]
<1>1. last \in Drops(u)
  BY DEF Drops
<1>2. /\ drop.key \in {agent, global}
      /\ \/ drop.rest = EvictList(drop.key, <<>>) /\ drop.gone = {}
         \/ drop.key = agent /\ drop.gone = {} /\ drop.rest = DelList(global, EvictBoth(u))
         \/ drop.key = global /\ drop.gone = {agent} /\ drop.rest = EvictBoth(u)
  BY DropsAre
<1> HIDE DEF agent, global
<1>3. last.key = global /\ last.rest = EvictBoth(u) /\ last.gone = {agent}
  OBVIOUS
<1> HIDE DEF last
<1>4. CASE drop.rest = EvictList(drop.key, <<>>) /\ drop.gone = {}
  BY <1>2, <1>4 DEF agent, global
<1>5. CASE drop.key = agent /\ drop.gone = {} /\ drop.rest = DelList(global, EvictBoth(u))
  BY <1>1, <1>3, <1>5
<1>6. CASE drop.key = global /\ drop.gone = {agent} /\ drop.rest = EvictBoth(u)
  BY <1>6 DEF agent, global
<1> QED BY <1>2, <1>4, <1>5, <1>6

LEMMA ResetSteps ==
    ASSUME NEW r \in Requests, NEW d, At(r, d), NEW u \in AdapterUsers, Forgets(request[r].todo, u)
    PROVE  /\ d = "weightsDel" => \E drop \in Drops(u) :
                /\ This(r).id = drop.key /\ Rest(r) = UnslotList(drop.key, drop.rest)
                /\ Remembered(drop.gone, {}) /\ Deleted(drop.gone)
           /\ d = "slotIndex" => \E drop \in Drops(u) :
                /\ This(r).id = drop.key
                /\ Rest(r) = IF drop.key[2] = "agent" THEN RemList(drop.key, drop.rest) ELSE drop.rest
                /\ Remembered(drop.gone \cup {drop.key}, Late(drop.key)) /\ Deleted(drop.gone \cup {drop.key})
           /\ d = "agentRem" => \E drop \in Drops(u) :
                /\ This(r).id = drop.key /\ drop.key[2] = "agent" /\ Rest(r) = drop.rest
                /\ Remembered(drop.gone \cup {drop.key}, Late(drop.key)) /\ Deleted(drop.gone \cup {drop.key})
           /\ d = "evict" =>
                \/ /\ This(r).id = <<u, "agent">> /\ Rest(r) = EvictList(<<u, "__global__">>, <<>>)
                   /\ Remembered({<<u, "agent">>, <<u, "__global__">>}, {})
                   /\ Deleted({<<u, "agent">>, <<u, "__global__">>})
                \/ \E k \in {<<u, "agent">>, <<u, "__global__">>} :
                     This(r).id = k /\ Rest(r) = <<>> /\ Remembered({k}, {}) /\ Deleted({k})
<1>1. \/ \E drop \in Drops(u) :
           /\ This(r).id = drop.key
           /\ \/ /\ d = "weightsDel" /\ Rest(r) = UnslotList(drop.key, drop.rest)
                 /\ Remembered(drop.gone, {}) /\ Deleted(drop.gone)
              \/ /\ \/ /\ d = "slotIndex"
                       /\ Rest(r) = IF drop.key[2] = "agent" THEN RemList(drop.key, drop.rest) ELSE drop.rest
                    \/ d = "agentRem" /\ drop.key[2] = "agent" /\ Rest(r) = drop.rest
                 /\ Remembered(drop.gone \cup {drop.key}, Late(drop.key))
                 /\ Deleted(drop.gone \cup {drop.key})
      \/ /\ d = "evict"
         /\ \/ /\ This(r).id = <<u, "agent">> /\ Rest(r) = EvictList(<<u, "__global__">>, <<>>)
               /\ Remembered({<<u, "agent">>, <<u, "__global__">>}, {})
               /\ Deleted({<<u, "agent">>, <<u, "__global__">>})
            \/ \E k \in {<<u, "agent">>, <<u, "__global__">>} :
                 This(r).id = k /\ Rest(r) = <<>> /\ Remembered({k}, {}) /\ Deleted({k})
  BY AtReset
<1> QED BY <1>1, Zenon

LEMMA SlotIndexKeeps ==
    ASSUME AdapterInv, NEW r \in Requests, SlotIndex(r)
    PROVE  AdapterInv'
<1>1. PICK d : d = "slotIndex" /\ At(r, d)
  BY DEF SlotIndex
<1>2. /\ r \in Busy /\ Loc(r) \in [adapter : SUBSET Given]
      /\ \/ \E k \in AdapterKeys, n \in 0 .. MaxRated : Learns(request[r].todo, Loc(r), k, n)
         \/ \E u \in AdapterUsers : Forgets(request[r].todo, u)
  BY <1>1, WhoseCommand
<1>3. Continue(r, Rest(r), Loc(r)) /\ UNCHANGED <<adapterVars, tally>>
  BY DEF SlotIndex, Done, Sent
<1>4. ASSUME NEW k \in AdapterKeys, NEW n \in 0 .. MaxRated, Learns(request[r].todo, Loc(r), k, n)
      PROVE  AdapterInv'
  <2>1. d = "slotIndex" =>
          /\ Remembered({}, Late(k)) /\ Stored(k)
          /\ Rest(r) = IF k[2] = "agent" THEN AddList(k, n) ELSE CatchList(k, "-", n)
    BY <1>1, <1>4, LearningSteps
  <2>2. n \in Nat
    BY AdapterAssumption
  <2>3. CASE k[2] = "agent"
    <3>1. Learns(AddList(k, n), Loc(r), k, n)
      BY <1>1, <2>1, <2>3 DEF Learns
    <3>2. AdapterPlace(AddList(k, n), Loc(r))
      BY <1>2, <3>1 DEF AdapterPlace
    <3>3. AddList(k, n) # <<>>
      BY <2>2, SearchLists, Zenon
    <3> QED BY <1>1, <1>2, <1>3, <2>1, <2>3, <3>2, <3>3, AdapterMoves
  <2>4. CASE k[2] # "agent"
    <3>1. Remembered({}, {}) /\ Kept(k)
      BY <1>1, <2>1, <2>4 DEF Late, Stored, Kept
    <3>2. Learns(CatchList(k, "-", n), Loc(r), k, n)
      BY <3>1 DEF Learns
    <3>3. AdapterPlace(CatchList(k, "-", n), Loc(r))
      BY <1>2, <3>2 DEF AdapterPlace
    <3> QED BY <1>1, <1>2, <1>3, <2>1, <2>4, <3>1, <3>3, AdapterMoves
  <2> QED BY <2>3, <2>4
<1>5. ASSUME NEW u \in AdapterUsers, Forgets(request[r].todo, u)
      PROVE  AdapterInv'
  <2>1. d = "slotIndex" => \E drop \in Drops(u) :
          /\ This(r).id = drop.key
          /\ Rest(r) = IF drop.key[2] = "agent" THEN RemList(drop.key, drop.rest) ELSE drop.rest
          /\ Remembered(drop.gone \cup {drop.key}, Late(drop.key)) /\ Deleted(drop.gone \cup {drop.key})
    BY <1>1, <1>5, ResetSteps
  <2>2. PICK drop \in Drops(u) :
          /\ Rest(r) = IF drop.key[2] = "agent" THEN RemList(drop.key, drop.rest) ELSE drop.rest
          /\ Remembered(drop.gone \cup {drop.key}, Late(drop.key)) /\ Deleted(drop.gone \cup {drop.key})
    BY <1>1, <2>1
  <2>3. drop.key \in AdapterKeys /\ drop.rest \in Seq(AdapterCall) /\ drop.rest # <<>>
    BY DropsAre
  <2>4. CASE drop.key[2] = "agent"
    <3>1. Forgets(RemList(drop.key, drop.rest), u)
      BY <2>2, <2>4 DEF Forgets
    <3>2. AdapterPlace(RemList(drop.key, drop.rest), Loc(r))
      BY <1>2, <3>1 DEF AdapterPlace
    <3>3. RemList(drop.key, drop.rest) # <<>>
      BY <2>3, ResetLists, Zenon
    <3> QED BY <1>2, <1>3, <2>2, <2>4, <3>2, <3>3, AdapterMoves
  <2>5. CASE drop.key[2] # "agent"
    <3>1. Remembered(drop.gone \cup {drop.key}, {}) /\ Deleted(drop.gone \cup {drop.key}) /\ Rest(r) = drop.rest
      BY <2>2, <2>5 DEF Late
    <3>2. Forgets(drop.rest, u)
      <4>1. \/ \E next \in Drops(u) : drop.rest = DelList(next.key, next.rest) /\ next.gone = drop.gone \cup {drop.key}
            \/ drop.rest = EvictBoth(u) /\ drop.gone \cup {drop.key} = {<<u, "agent">>, <<u, "__global__">>}
            \/ /\ drop.key \in {<<u, "agent">>, <<u, "__global__">>}
               /\ drop.rest = EvictList(drop.key, <<>>) /\ drop.gone \cup {drop.key} = {drop.key}
        BY AfterDrop
      <4> QED BY <3>1, <4>1 DEF Forgets
    <3>3. AdapterPlace(drop.rest, Loc(r))
      BY <1>2, <3>2 DEF AdapterPlace
    <3> QED BY <1>2, <1>3, <2>3, <3>1, <3>3, AdapterMoves
  <2> QED BY <2>4, <2>5
<1> QED BY <1>2, <1>4, <1>5

LEMMA WeightsDelKeeps ==
    ASSUME AdapterInv, NEW r \in Requests, WeightsDel(r)
    PROVE  AdapterInv'
<1>1. PICK d : d = "weightsDel" /\ At(r, d)
  BY DEF WeightsDel
<1>2. /\ r \in Busy /\ Loc(r) \in [adapter : SUBSET Given]
      /\ \E u \in AdapterUsers : Forgets(request[r].todo, u)
  BY <1>1, WhoseCommand
<1>3. PICK u \in AdapterUsers : Forgets(request[r].todo, u)
  BY <1>2
<1>4. d = "weightsDel" => \E drop \in Drops(u) :
        /\ This(r).id = drop.key /\ Rest(r) = UnslotList(drop.key, drop.rest)
        /\ Remembered(drop.gone, {}) /\ Deleted(drop.gone)
  BY <1>1, <1>3, ResetSteps
<1>5. PICK drop \in Drops(u) :
        /\ This(r).id = drop.key /\ Rest(r) = UnslotList(drop.key, drop.rest)
        /\ Remembered(drop.gone, {}) /\ Deleted(drop.gone)
  BY <1>1, <1>4
<1>6. PICK k \in AdapterKeys : k = drop.key /\ drop.rest \in Seq(AdapterCall)
  BY DropsAre
<1>7. /\ Continue(r, UnslotList(k, drop.rest), Loc(r)) /\ tally' = tally
      /\ weights' = [weights EXCEPT ![k] = {}] /\ adapters' = adapters /\ agentUsers' = agentUsers
      /\ adapterPast' = [adapterPast EXCEPT !.reset = TRUE]
  BY <1>5, <1>6 DEF WeightsDel, Done, Sent, Untrained
<1>8. AdapterTyped /\ tally \in Tallies /\ NothingComesBack /\ CacheIsTaken
  BY DEF AdapterInv, AdapterStore, RequestsTyped, Tallies
<1>9. weights'[k] = {} /\ \A j \in AdapterKeys : j # k => weights'[j] = weights[j]
  BY <1>7, <1>8 DEF AdapterTyped
<1>10. /\ adapterPast'.steps = adapterPast.steps /\ adapterPast'.taken = adapterPast.taken
       /\ adapterPast'.forgotten = adapterPast.forgotten /\ adapterPast'.reset
       /\ adapterPast'.cut = adapterPast.cut /\ Given' = Given
       /\ adapterPast' \in AdapterPast
  BY <1>7, <1>8 DEF AdapterTyped, AdapterPast, Given
<1>11. ~Undisturbed' /\ (InOrder' <=> InOrder)
  BY <1>7, <1>10 DEF Undisturbed, InOrder
<1>12. AdapterTyped'
  BY <1>7, <1>8, <1>10 DEF AdapterTyped, AdapterPast
<1>13. CacheIsTaken'
  BY <1>11 DEF CacheIsTaken
<1>14. NothingComesBack'
  BY <1>7, <1>8, <1>9, <1>10 DEF NothingComesBack
<1>15. PICK gone : gone = drop.gone \cup {k}
  OBVIOUS
<1>16. Remembered(gone, Late(k))'
  <2>1. InOrder => /\ \A j \in AdapterKeys \ gone : Learnt(j)
                   /\ \A v \in AdapterUsers : Indexed(v)
    BY <1>5, <1>15 DEF Remembered
  <2>2. \A j \in AdapterKeys \ gone : Learnt(j) => Learnt(j)'
    BY <1>7, <1>9, <1>10, <1>15 DEF Learnt
  <2>3. ASSUME NEW v \in AdapterUsers, v \notin Late(k), Indexed(v)
        PROVE  Indexed(v)'
    <3>1. <<v, "agent">> # k /\ <<v, "agent">> \in AdapterKeys
      BY <2>3 DEF Late, AdapterKeys
    <3> QED BY <1>7, <1>9, <1>10, <2>3, <3>1 DEF Indexed
  <2> QED BY <1>11, <2>1, <2>2, <2>3 DEF Remembered
<1>17. Deleted(gone)'
  <2>1. ~tally.overlapped => \A j \in drop.gone : weights[j] = {}
    BY <1>5 DEF Deleted, Untrained
  <2>2. drop.gone \subseteq AdapterKeys
    <3>1. drop.gone \subseteq {<<u, "agent">>}
      BY DropsAre
    <3> QED BY <3>1 DEF AdapterKeys
  <2> QED BY <1>7, <1>9, <1>10, <1>15, <2>1, <2>2 DEF Deleted, Untrained
<1>18. PICK t, loc : t = UnslotList(k, drop.rest) /\ loc = Loc(r)
  OBVIOUS
<1>19. AdapterPlace(t, loc)'
  <2>1. Forgets(t, u)'
    BY <1>6, <1>15, <1>16, <1>17, <1>18 DEF Forgets
  <2> QED BY <1>2, <1>10, <1>18, <2>1 DEF AdapterPlace
<1>20. t # <<>>
  BY <1>6, <1>18, ResetLists, Zenon
<1>21. ~tally'.overlapped => ~tally.overlapped /\ Busy \subseteq {r}
  BY <1>2, <1>7 DEF AdapterInv, OneRequest
<1> QED BY <1>7, <1>8, <1>10, <1>11, <1>12, <1>13, <1>14, <1>18, <1>19, <1>20, <1>21, AdapterGoesOn

(* A user is taken from the index. *)
LEMMA Unindexed ==
    ASSUME AdapterInv, NEW r \in Busy, NEW t, NEW loc, Continue(r, t, loc), loc \in [adapter : SUBSET Given],
           tally' = tally, NEW u \in AdapterUsers, agentUsers' = agentUsers \ {u},
           UNCHANGED <<weights, adapters, adapterPast>>,
           NEW gone, Remembered(gone, {u}), InOrder => weights[<<u, "agent">>] = Untrained,
           t = <<>> => gone = {},
           Remembered(gone, {})' => t = <<>> \/ (\E v \in AdapterUsers : Forgets(t, v)') \/ ListsUsers(t)'
    PROVE  AdapterInv'
<1>1. AdapterTyped /\ tally \in Tallies /\ NothingComesBack /\ CacheIsTaken
  BY DEF AdapterInv, AdapterStore, RequestsTyped, Tallies
<1>2. Given' = Given /\ (Undisturbed' <=> Undisturbed) /\ (InOrder' <=> InOrder)
  BY DEF Given, Undisturbed, InOrder
<1>3. AdapterTyped' /\ CacheIsTaken' /\ NothingComesBack'
  BY <1>1, <1>2 DEF AdapterTyped, AdapterPast, CacheIsTaken, NothingComesBack
<1>4. Remembered(gone, {})'
  <2>1. \A j : Learnt(j) => Learnt(j)'
    BY DEF Learnt
  <2>2. \A v \in AdapterUsers \ {u} : Indexed(v) => Indexed(v)'
    BY DEF Indexed
  <2>3. InOrder => Indexed(u)'
    BY DEF Indexed
  <2> QED BY <1>2, <2>1, <2>2, <2>3 DEF Remembered
<1>5. AdapterPlace(t, loc)'
  BY <1>2, <1>4 DEF AdapterPlace
<1>6. t = <<>> => Remembered({}, {})'
  BY <1>4
<1>7. r \in Requests /\ (~tally'.overlapped => ~tally.overlapped /\ Busy \subseteq {r})
  BY DEF AdapterInv, OneRequest, Busy
<1> QED BY <1>1, <1>2, <1>3, <1>5, <1>6, <1>7, AdapterGoesOn

LEMMA AgentRemKeeps ==
    ASSUME AdapterInv, NEW r \in Requests, AgentRem(r)
    PROVE  AdapterInv'
<1>1. PICK d : d = "agentRem" /\ At(r, d)
  BY DEF AgentRem
<1>2. /\ r \in Busy /\ Loc(r) \in [adapter : SUBSET Given]
      /\ (\E u \in AdapterUsers : Forgets(request[r].todo, u)) \/ ListsUsers(request[r].todo)
  BY <1>1, WhoseCommand
<1>3. /\ Continue(r, Rest(r), Loc(r)) /\ tally' = tally
      /\ agentUsers' = agentUsers \ {This(r).id[1]} /\ UNCHANGED <<weights, adapters, adapterPast>>
  BY DEF AgentRem, Done, Sent
<1>4. PICK t, loc : t = Rest(r) /\ loc = Loc(r)
  OBVIOUS
<1>5. ASSUME NEW u \in AdapterUsers, Forgets(request[r].todo, u)
      PROVE  AdapterInv'
  <2>1. d = "agentRem" => \E drop \in Drops(u) :
          /\ This(r).id = drop.key /\ drop.key[2] = "agent" /\ Rest(r) = drop.rest
          /\ Remembered(drop.gone \cup {drop.key}, Late(drop.key)) /\ Deleted(drop.gone \cup {drop.key})
    BY <1>1, <1>5, ResetSteps
  <2>2. PICK drop \in Drops(u) :
          /\ This(r).id = drop.key /\ drop.key[2] = "agent" /\ Rest(r) = drop.rest
          /\ Remembered(drop.gone \cup {drop.key}, Late(drop.key)) /\ Deleted(drop.gone \cup {drop.key})
    BY <1>1, <2>1
  <2>3. drop.key \in {<<u, "agent">>, <<u, "__global__">>} /\ drop.rest # <<>>
    BY DropsAre
  <2>4. drop.key = <<u, "agent">> /\ This(r).id[1] = u /\ Late(drop.key) = {u}
    BY <2>2, <2>3 DEF Late
  <2>5. PICK gone : gone = drop.gone \cup {drop.key}
    OBVIOUS
  <2>6. Remembered(gone, {u}) /\ (InOrder => weights[<<u, "agent">>] = Untrained) /\ Deleted(gone)
    BY <2>2, <2>4, <2>5 DEF Deleted, InOrder
  <2>7. Deleted(gone)'
    BY <1>3, <2>6 DEF Deleted
  <2>8. Remembered(gone, {})' => Forgets(t, u)'
    <3>1. \/ \E next \in Drops(u) : t = DelList(next.key, next.rest) /\ next.gone = gone
          \/ t = EvictBoth(u) /\ gone = {<<u, "agent">>, <<u, "__global__">>}
          \/ \E k \in {<<u, "agent">>, <<u, "__global__">>} : t = EvictList(k, <<>>) /\ gone = {k}
      <4>1. \/ \E next \in Drops(u) : drop.rest = DelList(next.key, next.rest) /\ next.gone = drop.gone \cup {drop.key}
            \/ drop.rest = EvictBoth(u) /\ drop.gone \cup {drop.key} = {<<u, "agent">>, <<u, "__global__">>}
            \/ /\ drop.key \in {<<u, "agent">>, <<u, "__global__">>}
               /\ drop.rest = EvictList(drop.key, <<>>) /\ drop.gone \cup {drop.key} = {drop.key}
        BY AfterDrop
      <4>2. t = drop.rest
        BY <1>4, <2>2
      <4> QED BY <2>5, <4>1, <4>2, Zenon
    <3> QED BY <2>7, <3>1 DEF Forgets
  <2> QED BY <1>2, <1>3, <1>4, <2>2, <2>3, <2>4, <2>6, <2>8, Unindexed
<1>6. ASSUME ListsUsers(request[r].todo)
      PROVE  AdapterInv'
  <2>1. \/ d = "listUsers" /\ Rest(r) = <<>> /\ Remembered({}, {})
        \/ \E users \in SUBSET AdapterUsers :
             \/ d = "probe" /\ This(r).id = users /\ Rest(r) = <<>> /\ Remembered({}, {})
             \/ \E u \in AdapterUsers :
                  /\ d = "agentRem" /\ This(r).id = <<u, "agent">> /\ Rest(r) = Probes(users)
                  /\ Remembered({}, {u})
                  /\ InOrder => weights[<<u, "agent">>] = Untrained
    BY <1>1, <1>6, AtListing
  <2>2. PICK users \in SUBSET AdapterUsers, u \in AdapterUsers :
          /\ This(r).id = <<u, "agent">> /\ Rest(r) = Probes(users)
          /\ Remembered({}, {u})
          /\ InOrder => weights[<<u, "agent">>] = Untrained
    BY <1>1, <2>1
  <2>3. This(r).id[1] = u
    BY <2>2
  <2>4. Remembered({}, {})' => ListsUsers(t)'
    BY <1>4, <2>2 DEF ListsUsers
  <2> QED BY <1>2, <1>3, <1>4, <2>2, <2>3, <2>4, Unindexed
<1> QED BY <1>2, <1>5, <1>6

(* An adapter is evicted. *)
LEMMA Evicted ==
    ASSUME AdapterInv, NEW r \in Busy, NEW t, NEW loc, Continue(r, t, loc), loc \in [adapter : SUBSET Given],
           tally' = tally, UNCHANGED <<weights, agentUsers>>, NEW k \in AdapterKeys,
           adapters' = [adapters EXCEPT ![k] = {}],
           adapterPast' = [adapterPast EXCEPT !.forgotten[k] = @ \cup adapterPast.taken[k], !.taken[k] = Untrained],
           NEW gone, Remembered(gone, {}), Deleted(gone), k \in gone,
           t = <<>> => gone = {k},
           Remembered(gone \ {k}, {})' /\ Deleted(gone \ {k})' => t = <<>> \/ \E u \in AdapterUsers : Forgets(t, u)'
    PROVE  AdapterInv'
<1>1. AdapterTyped /\ tally \in Tallies /\ NothingComesBack
  BY DEF AdapterInv, AdapterStore, RequestsTyped, Tallies
<1>2. PICK old, taken, forgotten :
         /\ old = adapterPast.taken[k] /\ old \in SUBSET Given
         /\ taken = [adapterPast.taken EXCEPT ![k] = {}]
         /\ forgotten = [adapterPast.forgotten EXCEPT ![k] = @ \cup old]
  <2>1. adapterPast.taken[k] \in SUBSET Given
    BY <1>1 DEF AdapterTyped, AdapterPast
  <2> QED BY <2>1
<1>3. adapterPast' = [adapterPast EXCEPT !.forgotten = forgotten, !.taken = taken]
  BY <1>1, <1>2 DEF AdapterTyped, AdapterPast, Untrained
<1>4. /\ adapterPast'.steps = adapterPast.steps /\ adapterPast'.reset = adapterPast.reset
      /\ adapterPast'.cut = adapterPast.cut /\ adapterPast'.taken = taken /\ adapterPast'.forgotten = forgotten
      /\ Given' = Given
  BY <1>1, <1>3 DEF AdapterTyped, AdapterPast, Given
<1>5. /\ taken \in [AdapterKeys -> SUBSET Given] /\ forgotten \in [AdapterKeys -> SUBSET Given]
      /\ taken[k] = {} /\ \A j \in AdapterKeys : j # k => taken[j] = adapterPast.taken[j]
      /\ \A j \in AdapterKeys : j # k => forgotten[j] = adapterPast.forgotten[j]
      /\ adapters'[k] = {} /\ \A j \in AdapterKeys : j # k => adapters'[j] = adapters[j]
  BY <1>1, <1>2 DEF AdapterTyped, AdapterPast
<1>6. AdapterTyped'
  <2>1. adapterPast' \in AdapterPast
    BY <1>1, <1>3, <1>5 DEF AdapterTyped, AdapterPast
  <2> QED BY <1>1, <1>4, <2>1 DEF AdapterTyped, AdapterPast
<1>7. adapterPast.reset /\ (~tally.overlapped => weights[k] = {})
  BY DEF Deleted, Untrained
<1>8. ~Undisturbed' /\ (InOrder' <=> InOrder)
  BY <1>4, <1>7 DEF Undisturbed, InOrder
<1>9. CacheIsTaken'
  BY <1>8 DEF CacheIsTaken
<1>10. NothingComesBack'
  <2>1. ~tally.overlapped => (weights[k] \cup UNION adapters'[k]) \cap forgotten[k] = {}
    BY <1>5, <1>7
  <2> QED BY <1>1, <1>4, <1>5, <2>1 DEF NothingComesBack
<1>11. Remembered(gone \ {k}, {})'
  <2>1. InOrder => /\ \A j \in AdapterKeys \ gone : Learnt(j)
                   /\ \A u \in AdapterUsers : Indexed(u)
    BY DEF Remembered
  <2>2. \A j \in AdapterKeys : j # k => (Learnt(j) => Learnt(j)')
    BY <1>4, <1>5 DEF Learnt
  <2>3. InOrder => Learnt(k)'
    BY <1>4, <1>5, <1>7 DEF Learnt, InOrder
  <2>4. \A u \in AdapterUsers : Indexed(u) => Indexed(u)'
    BY <1>4 DEF Indexed
  <2> QED BY <1>8, <2>1, <2>2, <2>3, <2>4 DEF Remembered
<1>12. Deleted(gone \ {k})'
  BY <1>4, <1>7 DEF Deleted
<1>13. AdapterPlace(t, loc)'
  BY <1>4, <1>11, <1>12 DEF AdapterPlace
<1>14. t = <<>> => Remembered({}, {})'
  <2>1. gone = {k} => gone \ {k} = {}
    OBVIOUS
  <2> QED BY <1>11, <2>1
<1>15. r \in Requests /\ (~tally'.overlapped => ~tally.overlapped /\ Busy \subseteq {r})
  BY DEF AdapterInv, OneRequest, Busy
<1> QED BY <1>1, <1>4, <1>6, <1>8, <1>9, <1>10, <1>13, <1>14, <1>15, AdapterGoesOn

LEMMA EvictKeeps ==
    ASSUME AdapterInv, NEW r \in Requests, Evict(r)
    PROVE  AdapterInv'
<1>1. PICK d : d = "evict" /\ At(r, d)
  BY DEF Evict
<1>2. /\ r \in Busy /\ Loc(r) \in [adapter : SUBSET Given]
      /\ \E u \in AdapterUsers : Forgets(request[r].todo, u)
  BY <1>1, WhoseCommand
<1>3. PICK u \in AdapterUsers : Forgets(request[r].todo, u)
  BY <1>2
<1>4. PICK agent, global : agent = <<u, "agent">> /\ global = <<u, "__global__">>
  OBVIOUS
<1>5. agent \in AdapterKeys /\ global \in AdapterKeys /\ agent # global
  BY <1>4 DEF AdapterKeys
<1>6. d = "evict" =>
        \/ /\ This(r).id = <<u, "agent">> /\ Rest(r) = EvictList(<<u, "__global__">>, <<>>)
           /\ Remembered({<<u, "agent">>, <<u, "__global__">>}, {})
           /\ Deleted({<<u, "agent">>, <<u, "__global__">>})
        \/ \E k \in {<<u, "agent">>, <<u, "__global__">>} :
             This(r).id = k /\ Rest(r) = <<>> /\ Remembered({k}, {}) /\ Deleted({k})
  BY <1>1, <1>3, ResetSteps
<1>7. PICK t, loc : t = Rest(r) /\ loc = Loc(r)
  OBVIOUS
<1>8. PICK k : k = This(r).id
  OBVIOUS
<1>9. /\ Continue(r, t, loc) /\ tally' = tally /\ UNCHANGED <<weights, agentUsers>>
      /\ adapters' = [adapters EXCEPT ![k] = {}]
      /\ adapterPast' = [adapterPast EXCEPT !.forgotten[k] = @ \cup adapterPast.taken[k], !.taken[k] = Untrained]
  BY <1>7, <1>8 DEF Evict, Done, Sent
<1>10. CASE k = agent /\ t = EvictList(global, <<>>) /\ Remembered({agent, global}, {}) /\ Deleted({agent, global})
  <2>1. {agent, global} \ {agent} = {global}
    BY <1>5
  <2>2. Remembered({global}, {})' /\ Deleted({global})' => Forgets(t, u)'
    BY <1>4, <1>10 DEF Forgets
  <2>3. t # <<>>
    <3>1. <<>> \in Seq(AdapterCall)
      OBVIOUS
    <3> QED BY <1>5, <1>10, <3>1, ResetLists, Zenon
  <2>4. PICK gone : gone = {agent, global}
    OBVIOUS
  <2>5. Remembered(gone \ {k}, {})' /\ Deleted(gone \ {k})' => Forgets(t, u)'
    BY <1>10, <2>1, <2>2, <2>4
  <2> QED BY <1>2, <1>5, <1>7, <1>9, <1>10, <2>3, <2>4, <2>5, Evicted
<1>11. CASE k \in {agent, global} /\ t = <<>> /\ Remembered({k}, {}) /\ Deleted({k})
  <2>1. PICK gone : gone = {k}
    OBVIOUS
  <2> QED BY <1>2, <1>5, <1>7, <1>9, <1>11, <2>1, Evicted
<1> QED BY <1>1, <1>4, <1>6, <1>7, <1>8, <1>10, <1>11

LEMMA ListAgentUsersKeeps ==
    ASSUME AdapterInv, NEW r \in Requests, ListAgentUsers(r)
    PROVE  AdapterInv'
<1>1. PICK d : d = "listUsers" /\ At(r, d)
  BY DEF ListAgentUsers
<1>2. r \in Busy /\ Loc(r) \in [adapter : SUBSET Given] /\ ListsUsers(request[r].todo)
  BY <1>1, WhoseCommand
<1>3. \/ d = "listUsers" /\ Rest(r) = <<>> /\ Remembered({}, {})
      \/ \E users \in SUBSET AdapterUsers :
           \/ d = "probe" /\ This(r).id = users /\ Rest(r) = <<>> /\ Remembered({}, {})
           \/ \E u \in AdapterUsers :
                /\ d = "agentRem" /\ This(r).id = <<u, "agent">> /\ Rest(r) = Probes(users)
                /\ Remembered({}, {u})
                /\ InOrder => weights[<<u, "agent">>] = Untrained
  BY <1>1, <1>2, AtListing
<1>4. Rest(r) = <<>> /\ Remembered({}, {})
  BY <1>1, <1>3
<1>5. PICK users \in SUBSET AdapterUsers : users = agentUsers
  BY DEF AdapterInv, AdapterTyped
<1>6. Probes(users) \o <<>> = Probes(users)
  <2>1. Probes(users) \in Seq(AdapterCall)
    BY ProbeLists
  <2> QED BY <2>1, ConcatEmptySeq, Zenon
<1>7. Continue(r, Probes(users), Loc(r)) /\ UNCHANGED <<adapterVars, tally>>
  BY <1>4, <1>5, <1>6 DEF ListAgentUsers, Insert
<1>8. AdapterPlace(Probes(users), Loc(r))
  BY <1>2, <1>4 DEF AdapterPlace, ListsUsers
<1> QED BY <1>2, <1>4, <1>7, <1>8, AdapterMoves

LEMMA ProbeAdapterKeeps ==
    ASSUME AdapterInv, NEW r \in Requests, ProbeAdapter(r)
    PROVE  AdapterInv'
<1>1. PICK d : d = "probe" /\ At(r, d)
  BY DEF ProbeAdapter
<1>2. r \in Busy /\ Loc(r) \in [adapter : SUBSET Given] /\ ListsUsers(request[r].todo)
  BY <1>1, WhoseCommand
<1>3. \/ d = "listUsers" /\ Rest(r) = <<>> /\ Remembered({}, {})
      \/ \E users \in SUBSET AdapterUsers :
           \/ d = "probe" /\ This(r).id = users /\ Rest(r) = <<>> /\ Remembered({}, {})
           \/ \E u \in AdapterUsers :
                /\ d = "agentRem" /\ This(r).id = <<u, "agent">> /\ Rest(r) = Probes(users)
                /\ Remembered({}, {u})
                /\ InOrder => weights[<<u, "agent">>] = Untrained
  BY <1>1, <1>2, AtListing
<1>4. PICK users \in SUBSET AdapterUsers : This(r).id = users /\ Rest(r) = <<>> /\ Remembered({}, {})
  BY <1>1, <1>3
<1>5. PICK u \in users :
        /\ Insert(r, (IF weights[<<u, "agent">>] = Untrained THEN Cmd("agentRem", <<u, "agent">>, "-") ELSE <<>>)
                       \o Probes(users \ {u}), Loc(r))
        /\ UNCHANGED adapterVars
  BY <1>4 DEF ProbeAdapter
<1>6. PICK others \in SUBSET AdapterUsers : others = users \ {u}
  BY <1>4
<1>7. u \in AdapterUsers /\ <<u, "agent">> \in AdapterKeys
  BY <1>4, <1>5 DEF AdapterKeys
<1>8. \A x \in Seq(AdapterCall) : x \o <<>> = x /\ <<>> \o x = x
  BY ConcatEmptySeq
<1>9. Probes(others) \in Seq(AdapterCall)
  BY ProbeLists
<1>10. CASE weights[<<u, "agent">>] = Untrained
  <2>1. RemList(<<u, "agent">>, Probes(others)) \in Seq(AdapterCall)
        /\ RemList(<<u, "agent">>, Probes(others)) # <<>>
    BY <1>7, <1>9, ResetLists, Zenon
  <2>2. Cmd("agentRem", <<u, "agent">>, "-") \o Probes(others) = RemList(<<u, "agent">>, Probes(others))
    BY DEF Cmd, RemList, Call
  <2>3. Continue(r, RemList(<<u, "agent">>, Probes(others)), Loc(r)) /\ UNCHANGED <<adapterVars, tally>>
    BY <1>4, <1>5, <1>6, <1>8, <1>10, <2>1, <2>2 DEF Insert
  <2>4. Remembered({}, {u})
    BY <1>4 DEF Remembered
  <2>5. AdapterPlace(RemList(<<u, "agent">>, Probes(others)), Loc(r))
    <3>1. ListsUsers(RemList(<<u, "agent">>, Probes(others)))
      BY <1>7, <1>10, <2>4 DEF ListsUsers
    <3> QED BY <1>2, <3>1 DEF AdapterPlace
  <2> QED BY <1>2, <2>1, <2>3, <2>5, AdapterMoves
<1>11. CASE weights[<<u, "agent">>] # Untrained
  <2>1. Continue(r, Probes(others), Loc(r)) /\ UNCHANGED <<adapterVars, tally>>
    BY <1>4, <1>5, <1>6, <1>8, <1>9, <1>11 DEF Insert
  <2>2. AdapterPlace(Probes(others), Loc(r))
    BY <1>2, <1>4 DEF AdapterPlace, ListsUsers
  <2> QED BY <1>2, <1>4, <2>1, <2>2, AdapterMoves
<1> QED BY <1>10, <1>11

LEMMA AdapterRestartKeeps ==
    ASSUME AdapterInv, AdapterRestart
    PROVE  AdapterInv'
<1>a. PICK taken : taken = IF Busy = {} THEN adapterPast.taken ELSE weights
  OBVIOUS
<1>b. PICK cut \in BOOLEAN : cut = (adapterPast.cut \/ Busy # {})
  OBVIOUS
<1>1. taken = (IF Busy = {} THEN adapterPast.taken ELSE weights) /\ cut = (adapterPast.cut \/ Busy # {})
  BY <1>a, <1>b
<1>2. AdapterTyped /\ tally \in Tallies /\ NothingComesBack /\ (Busy = {} => Remembered({}, {}))
  BY DEF AdapterInv, AdapterStore, RequestsTyped, Tallies
<1>3. /\ adapterPast' = [adapterPast EXCEPT !.restarts = @ + 1, !.cut = cut, !.taken = taken]
      /\ tally' = tally /\ weights' = weights /\ agentUsers' = agentUsers
      /\ adapters' = [k \in AdapterKeys |-> {}] /\ request' = [r \in Requests |-> Idle]
  BY <1>1 DEF AdapterRestart
<1>4. taken \in [AdapterKeys -> SUBSET Given]
  BY <1>1, <1>2 DEF AdapterTyped, AdapterPast
<1>5. /\ adapterPast'.steps = adapterPast.steps /\ adapterPast'.forgotten = adapterPast.forgotten
      /\ adapterPast'.restarts = adapterPast.restarts + 1 /\ adapterPast.restarts \in Nat
      /\ adapterPast'.cut = cut /\ adapterPast'.taken = taken /\ Given' = Given
  BY <1>2, <1>3 DEF AdapterTyped, AdapterPast, Given
<1>6. adapterPast' \in AdapterPast
  <2>1. adapterPast' = [steps |-> adapterPast.steps, taken |-> taken, forgotten |-> adapterPast.forgotten,
                        reset |-> adapterPast.reset, restarts |-> adapterPast.restarts + 1,
                        cut |-> cut, raced |-> adapterPast.raced]
    BY <1>2, <1>3 DEF AdapterTyped, AdapterPast
  <2>2. /\ adapterPast.steps \in Nat /\ adapterPast.restarts + 1 \in Nat
        /\ adapterPast.reset \in BOOLEAN /\ adapterPast.raced \in BOOLEAN
        /\ adapterPast.forgotten \in [AdapterKeys -> SUBSET Given]
    BY <1>2 DEF AdapterTyped, AdapterPast
  <2> QED BY <1>b, <1>4, <2>1, <2>2 DEF AdapterPast
<1>7. AdapterTyped'
  BY <1>2, <1>3, <1>5, <1>6 DEF AdapterTyped, AdapterPast
<1>8. \A r \in Requests : request'[r].todo = <<>>
  BY <1>3 DEF Idle
<1>9. AdapterPlaces'
  BY <1>8 DEF AdapterPlaces, AdapterPlace
<1>10. RequestsTyped' /\ OneRequest'
  BY <1>2, <1>3, <1>8 DEF RequestsTyped, Tallies, OneRequest, Busy
<1>11. CacheIsTaken'
  BY <1>5 DEF CacheIsTaken, Undisturbed
<1>12. NothingComesBack'
  <2>1. \A k \in AdapterKeys : UNION adapters'[k] = {}
    BY <1>3
  <2> QED BY <1>2, <1>3, <1>5, <2>1 DEF NothingComesBack
<1>13. Remembered({}, {})'
  <2>1. InOrder' <=> InOrder
    BY <1>3 DEF InOrder
  <2>2. CASE Busy = {}
    <3>1. InOrder => (\A k \in AdapterKeys : Learnt(k)) /\ (\A u \in AdapterUsers : Indexed(u))
      BY <1>2, <2>2 DEF Remembered
    <3>2. \A k \in AdapterKeys : Learnt(k) => Learnt(k)'
      BY <1>1, <1>3, <1>5, <2>2 DEF Learnt
    <3>3. \A u \in AdapterUsers : Indexed(u) => Indexed(u)'
      BY <1>1, <1>3, <1>5, <2>2 DEF Indexed
    <3> QED BY <2>1, <3>1, <3>2, <3>3 DEF Remembered
  <2>3. CASE Busy # {}
    <3>1. \A k \in AdapterKeys : Learnt(k)'
      BY <1>1, <1>3, <1>5, <2>3 DEF Learnt
    <3>2. \A u \in AdapterUsers : Indexed(u)'
      BY <1>1, <1>5, <2>3 DEF Indexed
    <3> QED BY <3>1, <3>2 DEF Remembered
  <2> QED BY <2>2, <2>3
<1> QED BY <1>7, <1>9, <1>10, <1>11, <1>12, <1>13 DEF AdapterInv, AdapterStore

-----------------------------------------------------------------------------
(* The theorems.                                                            *)

LEMMA AdapterInit == InitRequests /\ InitAdapters => AdapterInv
<1> SUFFICES ASSUME InitRequests, InitAdapters
             PROVE  AdapterInv
  OBVIOUS
<1> USE DEF InitAdapters, Untrained
<1>1. AdapterTyped
  <2>1. Given = {}
    BY DEF Given
  <2>2. adapterPast \in AdapterPast
    BY <2>1 DEF AdapterPast
  <2> QED BY <2>1, <2>2, AdapterAssumption DEF AdapterTyped
<1>2. \A r \in Requests : request[r].todo = <<>>
  BY DEF InitRequests, Idle
<1>3. RequestsTyped /\ OneRequest
  BY <1>2 DEF InitRequests, RequestsTyped, OneRequest, Busy
<1>4. AdapterPlaces
  BY <1>2 DEF AdapterPlaces, AdapterPlace
<1>5. NothingComesBack /\ CacheIsTaken
  BY DEF NothingComesBack, CacheIsTaken
<1>6. Remembered({}, {})
  <2>1. \A k \in AdapterKeys : Learnt(k)
    BY DEF Learnt
  <2>2. \A u \in AdapterUsers : <<u, "agent">> \in AdapterKeys
    BY DEF AdapterKeys
  <2>3. \A u \in AdapterUsers : Indexed(u)
    BY <2>2 DEF Indexed
  <2> QED BY <2>1, <2>3 DEF Remembered
<1> QED BY <1>1, <1>3, <1>4, <1>5, <1>6 DEF AdapterInv, AdapterStore

LEMMA AdapterNext == AdapterInv /\ [NextAdapters]_<<requestVars, adapterVars>> => AdapterInv'
<1> SUFFICES ASSUME AdapterInv, [NextAdapters]_<<requestVars, adapterVars>>
             PROVE  AdapterInv'
  OBVIOUS
<1>1. CASE AdapterRestart
  BY <1>1, AdapterRestartKeeps
<1>2. ASSUME NEW r \in Requests, NEW n \in 0 .. MaxRated,
             (\E k \in AdapterKeys : Search(r, k, n)) \/ (\E u \in AdapterUsers : Feedback(r, u, n))
      PROVE  AdapterInv'
  BY <1>2, SearchKeeps
<1>3. ASSUME NEW r \in Requests, NEW u \in AdapterUsers, NEW scope \in {"agent", "global", "all"}, Reset(r, u, scope)
      PROVE  AdapterInv'
  BY <1>3, ResetKeeps
<1>4. ASSUME NEW r \in Requests, ListUsers(r) \/ GetAdapter(r) \/ Load(r) \/ CacheAdapter(r) \/ TrainAdapter(r)
      PROVE  AdapterInv'
  BY <1>4, ListUsersKeeps, GetAdapterKeeps, LoadKeeps, CacheAdapterKeeps, TrainAdapterKeeps
<1>5. ASSUME NEW r \in Requests, WeightsSet(r) \/ SlotIndex(r) \/ AgentAdd(r) \/ Saved(r)
      PROVE  AdapterInv'
  BY <1>5, WeightsSetKeeps, SlotIndexKeeps, AgentAddKeeps, SavedKeeps
<1>6. ASSUME NEW r \in Requests, WeightsDel(r) \/ AgentRem(r) \/ Evict(r) \/ ListAgentUsers(r) \/ ProbeAdapter(r)
      PROVE  AdapterInv'
  BY <1>6, WeightsDelKeeps, AgentRemKeeps, EvictKeeps, ListAgentUsersKeeps, ProbeAdapterKeeps
<1>7. ASSUME NEW r \in Requests, CommandFails(r), UNCHANGED adapterVars
      PROVE  AdapterInv'
  BY <1>7, AdapterCommandFails
<1>8. CASE UNCHANGED <<requestVars, adapterVars>>
  <2>1. /\ request' = request /\ tally' = tally /\ weights' = weights /\ adapters' = adapters
        /\ agentUsers' = agentUsers /\ adapterPast' = adapterPast
    BY <1>8 DEF requestVars, adapterVars
  <2>2. AdapterTyped' /\ RequestsTyped' /\ OneRequest'
    BY <2>1 DEF AdapterInv, AdapterTyped, RequestsTyped, OneRequest, Busy, AdapterPast, Given
  <2>3. AdapterStore'
    BY <2>1 DEF AdapterInv, AdapterStore, NothingComesBack, CacheIsTaken, Undisturbed, Busy, Remembered, InOrder, Learnt, Indexed
  <2>4. AdapterPlaces'
    <3>1. ASSUME NEW r \in Requests
          PROVE  AdapterPlace(request[r].todo, Loc(r))'
      <4>1. PICK t, loc : t = request[r].todo /\ loc = Loc(r)
        OBVIOUS
      <4>2. AdapterPlace(t, loc)
        BY <4>1 DEF AdapterInv, AdapterPlaces
      <4>3. AdapterPlace(t, loc)'
        BY <2>1, <4>2, SamePlace DEF adapterVars
      <4>4. request'[r].todo = t /\ Loc(r)' = loc
        BY <2>1, <4>1 DEF Loc
      <4> QED BY <4>3, <4>4
    <3> QED BY <3>1 DEF AdapterPlaces
  <2> QED BY <2>2, <2>3, <2>4 DEF AdapterInv
<1> QED BY <1>1, <1>2, <1>3, <1>4, <1>5, <1>6, <1>7, <1>8 DEF NextAdapters

(* The cache has at most one adapter per user and agent, and adapters are   *)
(* made of training steps that were done.                                   *)
THEOREM AdapterTypesCorrect == AdapterSpec => []AdapterTypeOK
<1>1. AdapterInv => AdapterTypeOK
  <2> SUFFICES ASSUME AdapterInv
               PROVE  AdapterTypeOK
    OBVIOUS
  <2>1. Given \subseteq Training
    BY AdapterAssumption DEF AdapterInv, AdapterTyped, AdapterPast, Given, Training
  <2>2. weights \in [AdapterKeys -> SUBSET Training] /\ agentUsers \subseteq AdapterUsers
    BY <2>1 DEF AdapterInv, AdapterTyped
  <2>3. ASSUME NEW k \in AdapterKeys
        PROVE  Cardinality(adapters[k]) <= 1 /\ UNION adapters[k] \subseteq Training
    <3>1. PICK ws : ws = adapters[k] /\ (ws = {} \/ \E w \in SUBSET Given : ws = {w})
      BY DEF AdapterInv, AdapterTyped
    <3>2. CASE ws = {}
      BY <3>1, <3>2, FS_EmptySet
    <3>3. ASSUME NEW w \in SUBSET Given, ws = {w}
          PROVE  Cardinality(ws) <= 1 /\ UNION ws \subseteq Training
      <4>1. Cardinality({w}) = 1
        BY FS_Singleton
      <4>2. UNION {w} = w
        OBVIOUS
      <4> QED BY <2>1, <3>3, <4>1, <4>2
    <3> QED BY <3>1, <3>2, <3>3
  <2> QED BY <2>2, <2>3 DEF AdapterTypeOK
<1> QED BY <1>1, AdapterInit, AdapterNext, PTL DEF AdapterSpec

(* Adapters, whichever searches, feedback and resets overlap or fail: what   *)
(* a reset forgets stays forgotten when requests do not overlap; when none   *)
(* fails either, what was learnt since is stored, cached and indexed; and    *)
(* training at the same time adds up in the cache.                           *)
THEOREM AdaptersStayLearnt == AdapterSpec => []AdaptersHold
<1>1. AdapterInv => AdaptersHold
  <2> SUFFICES ASSUME AdapterInv
               PROVE  AdaptersHold
    OBVIOUS
  <2>1. ResetsForget
    BY DEF AdapterInv, AdapterStore, NothingComesBack, ResetsForget
  <2>2. AdaptersRemember
    <3> SUFFICES ASSUME InOrder, Busy = {}
                 PROVE  /\ \A k \in AdapterKeys :
                             weights[k] = adapterPast.taken[k] /\ adapters[k] \subseteq {weights[k]}
                        /\ ~adapterPast.cut => agentUsers = {u \in AdapterUsers : weights[<<u, "agent">>] # Untrained}
      BY DEF AdaptersRemember, InOrder
    <3>1. /\ \A k \in AdapterKeys : Learnt(k)
          /\ \A u \in AdapterUsers : Indexed(u)
          /\ agentUsers \subseteq AdapterUsers
      BY DEF AdapterInv, AdapterStore, AdapterTyped, Remembered
    <3> QED BY <3>1 DEF Learnt, Indexed
  <2>3. TrainingAddsUp
    <3> SUFFICES ASSUME Undisturbed, NEW k \in AdapterKeys, adapters[k] # {}
                 PROVE  adapters[k] = {adapterPast.taken[k]} /\ weights[k] \subseteq adapterPast.taken[k]
      BY DEF TrainingAddsUp, Undisturbed
    <3> QED BY DEF AdapterInv, AdapterStore, CacheIsTaken
  <2> QED BY <2>1, <2>2, <2>3 DEF AdaptersHold
<1> QED BY <1>1, AdapterInit, AdapterNext, PTL DEF AdapterSpec

=============================================================================
