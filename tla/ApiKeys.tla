------------------------------ MODULE ApiKeys ------------------------------
(***************************************************************************)
(* Scoped API keys: the authentication middleware with its cache of looked *)
(* up keys (middleware/auth.rs) and the requests that create, revoke and   *)
(* rotate keys (routes.rs over redis_store.rs).  Bootstrap keys and exempt *)
(* paths never touch this state, and the role checks only refuse requests: *)
(* those here come from admins.  Names, roles, scopes and hashes are       *)
(* opaque: a key is its id, and its hash names it.                         *)
(***************************************************************************)
EXTENDS StoreRequests

CONSTANTS KeyIds,          \* ids of keys, in order of creation
          Lifetimes,       \* expires_at - created_at of new keys, or Forever
          KeyCacheTtl,     \* KEY_CACHE_TTL_SECS
          KeyCacheMax,     \* KEY_CACHE_MAX_ENTRIES
          MaxKeyClock      \* bound: seconds that pass

ASSUME KeyAssumption ==
    /\ KeyIds \subseteq Nat /\ 1 \in KeyIds /\ Lifetimes \subseteq Nat
    /\ KeyCacheTtl \in Nat \ {0} /\ KeyCacheMax \in Nat /\ MaxKeyClock \in Nat

VARIABLES keys,       \* api_key:<id>, or NoKey
          keyHashes,  \* ids that api_key_hash:<hash> leads to
          keyIndex,   \* api_keys, the ids that are listed
          keyCache,   \* hash -> cached_at, or Absent
          keyClock,   \* Utc::now()
          keyPast     \* what the properties remember

keyVars == <<keys, keyHashes, keyIndex, keyCache, keyClock, keyPast>>

Forever == 0
Absent  == -1
NoKey   == [expires |-> 0, revoked |-> TRUE, made |-> FALSE]

is_active(k, now) == ~k.revoked /\ (k.expires = Forever \/ now < k.expires)

Made(expires) == [expires |-> expires, revoked |-> FALSE, made |-> TRUE]

\* One key exists; somebody has just used it, or not.
InitKeys ==
    /\ \E life \in Lifetimes : keys = [k \in KeyIds |-> IF k = 1 THEN Made(life) ELSE NoKey]
    /\ keyHashes = {1} /\ keyIndex = {1}
    /\ \E used \in {Absent, 0} : keyCache = [k \in KeyIds |-> IF k = 1 THEN used ELSE Absent]
    /\ keyClock = 0
    /\ keyPast = [lastActive |-> [k \in KeyIds |-> 0], waited |-> [k \in KeyIds |-> 0],
                  revoked |-> {}, raced |-> {}, worst |-> 0]

NewKey == CHOOSE k \in KeyIds : keys[k] = NoKey /\ \A j \in KeyIds : j < k => keys[j] # NoKey

\* Mutant: a key can be used before it is listed.
save_api_keyHashFirst == Cmd("keySet", 0, "-") \o Cmd("keyHash", 0, "-") \o Cmd("keyList", 0, "-")

\* save_api_key
save_api_key == Cmd("keySet", 0, "-") \o Cmd("keyList", 0, "-") \o Cmd("keyHash", 0, "-")

\* What AuthMiddleware::call does for a key it is given.
Authenticate(r, k) ==
    /\ Start(r, Cmd("authCache", k, "-") \o Cmd("authLookup", k, "-") \o Cmd("authAnswer", k, "-")
                  \o Cmd("authInsert", k, "-") \o Cmd("authTouch", k, "-"), NoKey)
    /\ UNCHANGED keyVars

CreateKey(r, life) ==
    /\ Start(r, save_api_key, Made(IF life = Forever THEN Forever ELSE keyClock + life))
    /\ UNCHANGED keyVars

RevokeKey(r, k) ==
    /\ Start(r, Cmd("keyGet", k, "-") \o Cmd("keyRevoke", k, "-") \o Cmd("keyEvict", k, "-"), NoKey)
    /\ UNCHANGED keyVars

\* The old key is revoked, a new one has its name, role, scope and expiry.
RotateKey(r, k) ==
    /\ Start(r, Cmd("keyGet", k, "-") \o Cmd("keyRevoke", k, "-") \o Cmd("keyEvict", k, "-")
                  \o save_api_key, NoKey)
    /\ UNCHANGED keyVars

-----------------------------------------------------------------------------

\* The request is let through on a lookup that waited so many seconds before
\* it counted.  How long ago was the key last active, the wait aside?
Longest(k, wait) ==
    LET late == keyClock - keyPast.lastActive[k] - wait IN
    IF late > keyPast.worst THEN late ELSE keyPast.worst

\* The word of the cache: the wait is that of the lookup that made the entry.
Accept(k) == keyPast' = [keyPast EXCEPT !.worst = Longest(k, keyPast.waited[k])]

\* Mutant: an entry is trusted one second too long.
AuthCacheLate(r) ==
    /\ At(r, "authCache")
    /\ LET k == This(r).id IN
       IF keyCache[k] # Absent /\ keyClock - keyCache[k] <= KeyCacheTtl
       THEN Refuse(r) /\ Accept(k)
       ELSE Done(r) /\ UNCHANGED keyPast
    /\ UNCHANGED <<keys, keyHashes, keyIndex, keyCache, keyClock>>

\* A fresh cache entry is enough, whatever the store says.
AuthCache(r) ==
    /\ At(r, "authCache")
    /\ LET k == This(r).id IN
       IF keyCache[k] # Absent /\ keyClock - keyCache[k] < KeyCacheTtl
       THEN Refuse(r) /\ Accept(k)
       ELSE Done(r) /\ UNCHANGED keyPast
    /\ UNCHANGED <<keys, keyHashes, keyIndex, keyCache, keyClock>>

\* get_api_key_by_hash: the key as the store has it.  One that is unknown or
\* revoked will be turned away when the answer is in.
AuthLookup(r) ==
    /\ At(r, "authLookup")
    /\ LET k == This(r).id IN
       IF k \in keyHashes /\ ~keys[k].revoked THEN Sent(r, [key |-> keys[k], at |-> keyClock])
       ELSE Refuse(r)
    /\ UNCHANGED keyVars

\* The answer is in: has the key expired by now?
AuthAnswer(r) ==
    /\ At(r, "authAnswer")
    /\ IF is_active(Loc(r).key, keyClock) THEN Done(r) ELSE Refuse(r)
    /\ UNCHANGED keyVars

\* The lock of the cache is held: cached_at is the time of this, not of the
\* lookup.
AuthInsert(r) ==
    /\ At(r, "authInsert")
    /\ keyCache' = [keyCache EXCEPT ![This(r).id] = keyClock]
    /\ keyPast' = [keyPast EXCEPT !.waited[This(r).id] = keyClock - Loc(r).at]
    /\ Done(r)
    /\ UNCHANGED <<keys, keyHashes, keyIndex, keyClock>>

\* last_used_at: the copy read at the lookup is stored, and the key may be
\* active again.  A failure is ignored.
AuthTouch(r) ==
    /\ At(r, "authTouch")
    /\ LET k == This(r).id IN
       /\ keys' \in {keys, [keys EXCEPT ![k] = Loc(r).key]}
       /\ keyPast' = [keyPast EXCEPT !.worst = Longest(k, keyClock - Loc(r).at),
                         !.lastActive[k] = IF is_active(keys'[k], keyClock) THEN keyClock ELSE @]
    /\ Done(r)
    /\ UNCHANGED <<keyHashes, keyIndex, keyCache, keyClock>>

KeyGet(r) ==
    /\ At(r, "keyGet")
    /\ IF keys[This(r).id] = NoKey THEN Refuse(r) ELSE Sent(r, keys[This(r).id])
    /\ UNCHANGED keyVars

\* Requests whose middleware has read the key and not yet stored its copy.
Touching(k) == {r \in Busy : \E i \in DOMAIN request[r].todo :
                  /\ request[r].todo[i].do = "authTouch" /\ request[r].todo[i].id = k
                  /\ ~At(r, "authCache") /\ ~At(r, "authLookup")}

KeyRevoke(r) ==
    /\ At(r, "keyRevoke")
    /\ keys' = [keys EXCEPT ![This(r).id] = [Loc(r) EXCEPT !.revoked = TRUE]]
    /\ keyPast' = [keyPast EXCEPT !.raced = IF Touching(This(r).id) # {} THEN @ \cup {This(r).id} ELSE @]
    /\ Done(r)
    /\ UNCHANGED <<keyHashes, keyIndex, keyCache, keyClock>>

KeyEvict(r) ==
    /\ At(r, "keyEvict")
    /\ keyCache' = [keyCache EXCEPT ![This(r).id] = Absent]
    /\ keyPast' = [keyPast EXCEPT !.revoked = @ \cup {This(r).id}]
    /\ Done(r)
    /\ UNCHANGED <<keys, keyHashes, keyIndex, keyClock>>

KeySet(r) ==
    /\ At(r, "keySet")
    /\ \E k \in KeyIds : keys[k] = NoKey
    /\ keys' = [keys EXCEPT ![NewKey] = [Loc(r) EXCEPT !.revoked = FALSE]]
    /\ keyPast' = [keyPast EXCEPT !.lastActive[NewKey] = keyClock]
    /\ Continue(r, [i \in DOMAIN Rest(r) |-> [Rest(r)[i] EXCEPT !.id = NewKey]], Loc(r))
    /\ UNCHANGED <<tally, keyHashes, keyIndex, keyCache, keyClock>>

KeyList(r) ==
    /\ At(r, "keyList")
    /\ keyIndex' = keyIndex \cup {This(r).id}
    /\ Done(r)
    /\ UNCHANGED <<keys, keyHashes, keyCache, keyClock, keyPast>>

KeyHash(r) ==
    /\ At(r, "keyHash")
    /\ keyHashes' = keyHashes \cup {This(r).id}
    /\ Done(r)
    /\ UNCHANGED <<keys, keyIndex, keyCache, keyClock, keyPast>>

\* evict_stale_cache_entries, every minute: entries past their time go, and
\* the oldest of what is left if there are too many.
EvictStale ==
    LET fresh == {k \in KeyIds : keyCache[k] # Absent /\ keyClock - keyCache[k] < KeyCacheTtl}
        excess == Cardinality(fresh) - KeyCacheMax
    IN \E gone \in SUBSET fresh :
         /\ Cardinality(gone) = IF excess > 0 THEN excess ELSE 0
         /\ \A k \in gone, j \in fresh \ gone : keyCache[k] <= keyCache[j]
         /\ keyCache' = [k \in KeyIds |-> IF k \in fresh \ gone THEN keyCache[k] ELSE Absent]
         /\ UNCHANGED <<requestVars, keys, keyHashes, keyIndex, keyClock, keyPast>>

\* A second passes, wherever requests are: nothing bounds the time that a
\* lookup or the lock of the cache takes.
KeyTick ==
    /\ keyClock < MaxKeyClock
    /\ keyClock' = keyClock + 1
    /\ keyPast' = [keyPast EXCEPT !.lastActive =
          [k \in KeyIds |-> IF is_active(keys[k], keyClock + 1) THEN keyClock + 1 ELSE @[k]]]
    /\ UNCHANGED <<requestVars, keys, keyHashes, keyIndex, keyCache>>

NextKeys ==
    \/ EvictStale \/ KeyTick
    \/ \E r \in Requests :
         \/ \E k \in KeyIds : Authenticate(r, k)
         \/ \E life \in Lifetimes : CreateKey(r, life)
         \/ \E k \in KeyIds : RevokeKey(r, k) \/ RotateKey(r, k)
         \/ AuthCache(r) \/ AuthLookup(r) \/ AuthAnswer(r) \/ AuthInsert(r) \/ AuthTouch(r)
         \/ KeyGet(r) \/ KeyRevoke(r) \/ KeyEvict(r) \/ KeySet(r) \/ KeyList(r) \/ KeyHash(r)
         \/ CommandFails(r) /\ UNCHANGED keyVars

KeySpec == InitRequests /\ InitKeys /\ [][NextKeys]_<<requestVars, keyVars>>

-----------------------------------------------------------------------------
(* Properties                                                              *)

KeyTypeOK ==
    /\ \A k \in KeyIds : /\ keys[k].revoked \in BOOLEAN
                         /\ keyCache[k] \in {Absent} \cup 0..keyClock
    /\ keyHashes \subseteq keyIndex /\ keyIndex \subseteq {k \in KeyIds : keys[k] # NoKey}

\* Once a revocation has returned, the key is revoked in the store and not
\* in the cache, unless an authentication with it was under way: that one
\* stores the copy it read and caches it.
RevocationSticks ==
    \A k \in keyPast.revoked \ keyPast.raced : keys[k].revoked /\ keyCache[k] = Absent

\* A request is let through only with a key that was active less than
\* KEY_CACHE_TTL_SECS ago, plus the time that passed between the store's answer
\* to the lookup behind it and the insert into the cache: cached_at is taken
\* after the lookup and the lock were awaited, without a timeout, so a key
\* revoked in between is trusted that much longer.  (A key whose revocation was
\* undone by a stored copy is active again.)
TrustIsBounded == keyPast.worst < KeyCacheTtl

KeysAreTrusted == RevocationSticks /\ TrustIsBounded
=============================================================================
