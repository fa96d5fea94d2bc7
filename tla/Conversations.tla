--------------------------- MODULE Conversations ---------------------------
(***************************************************************************)
(* Users, their sessions and the episodes of a session: UserStore,         *)
(* SessionStore and the session side of EpisodeStore in redis_store.rs,    *)
(* the handlers of routes.rs that find or create them, and the worker's    *)
(* progressive summary of a session.  EpisodeIngest models the queue of    *)
(* episodes in detail; here an episode is queued, in work or completed.    *)
(*                                                                         *)
(* Ids are new with every creation.  The reads with which                  *)
(* find_user_by_identifier and find_session_by_name look for one document  *)
(* are one step.  Metadata, contents and paging are left out.              *)
(***************************************************************************)
EXTENDS StoreRequests, SequencesExt

CONSTANTS People,        \* external ids of users
          SessionNames,  \* names of sessions
          UserIds, SessionIds, EpisodeIds,  \* ids, 1..n in order of creation
          SummaryThreshold  \* session_summary_threshold

ASSUME ConversationAssumption ==
    /\ SummaryThreshold \in Nat
    /\ UserIds \subseteq Nat \ {0} /\ SessionIds \subseteq Nat \ {0} /\ EpisodeIds \subseteq Nat \ {0}
    /\ 1 \in UserIds /\ 1 \in SessionIds
    /\ "no user" \notin People /\ "none" \notin SessionNames

VARIABLES
    users,           \* user:<id>: its external id, or NoUser
    userIndex,       \* users
    userExt,         \* user_ext:<external id>: the id, or None
    sessions,        \* session:<id>, or NoSession
    userSessions,    \* user_sessions:<user>
    episodes,        \* episode:<id>: its session and status, or NoEpisode
    sessionEpisodes, \* session_episodes:<session>
    pendingQueue,    \* pending_episodes
    chatPast         \* ids given out, and what the properties remember

userVars    == <<users, userIndex, userExt>>
sessionVars == <<sessions, userSessions>>
episodeVars == <<episodes, sessionEpisodes, pendingQueue>>
chatVars    == <<userVars, sessionVars, episodeVars, chatPast>>

None      == 0
NoUser    == "no user"
NoSession == [user |-> None, name |-> "none", count |-> 0, head |-> None, summary |-> None]
NoEpisode == [session |-> None, status |-> "none"]

\* Locals: the documents a request works on.
ChatLocals == [user |-> None, session |-> None, copy |-> NoSession, episode |-> None, found |-> {}]

InitConversations ==
    /\ \E p \in People, n \in SessionNames, known \in BOOLEAN :
         /\ users = [u \in UserIds |-> IF known /\ u = 1 THEN p ELSE NoUser]
         /\ userIndex = IF known THEN {1} ELSE {}
         /\ userExt = [q \in People |-> IF known /\ q = p THEN 1 ELSE None]
         /\ sessions = [s \in SessionIds |->
              IF known /\ s = 1 THEN [NoSession EXCEPT !.user = 1, !.name = n] ELSE NoSession]
         /\ userSessions = [u \in UserIds |-> IF known /\ u = 1 THEN {1} ELSE {}]
         /\ chatPast = [users |-> userIndex, sessions |-> userIndex, episodes |-> {},
                        made |-> {}, in |-> [s \in SessionIds |-> {}], cleared |-> {}]
    /\ episodes = [e \in EpisodeIds |-> NoEpisode]
    /\ sessionEpisodes = [s \in SessionIds |-> {}]
    /\ pendingQueue = {}

Chat(r, todo, loc) == Start(r, todo, loc) /\ UNCHANGED chatVars

\* Uuid::now_v7
Fresh(ids, used) == CHOOSE i \in ids \ used : \A j \in ids \ used : i <= j

-----------------------------------------------------------------------------
(* The commands of the requests.                                           *)

create_user(p)  == Cmd("userSet", p, "-") \o Cmd("userSetExt", p, "-") \o Cmd("userList", p, "-")
create_session(n) == Cmd("userNeed", n, "-") \o Cmd("sessionSet", n, "-") \o Cmd("sessionList", n, "-")
\* Mutant: the session counts an episode before it is stored.
create_episodeCounted ==
    Cmd("countRead", None, "-") \o Cmd("sessionPut", None, "count") \o Cmd("episodeSet", None, "-")
      \o Cmd("episodeList", None, "-") \o Cmd("episodeQueue", None, "-")

create_episode == Cmd("episodeSet", None, "-") \o Cmd("episodeList", None, "-")
                     \o Cmd("episodeQueue", None, "-") \o Cmd("countRead", None, "-")
                     \o Cmd("sessionPut", None, "count")

\* remember_memory, and each row of an import, find or create what they need.
remember(p, n) == Cmd("findUser", p, "-") \o Cmd("findSession", n, "-") \o create_episode

CreateUser(r, p) == Chat(r, create_user(p), ChatLocals)
DeleteUser(r, u) ==
    Chat(r, Cmd("userNeed", u, "-") \o Cmd("userDel", u, "-") \o Cmd("userDelExt", u, "-")
              \o Cmd("userUnlist", u, "-"), [ChatLocals EXCEPT !.user = u])
CreateSession(r, u, n) == Chat(r, create_session(n), [ChatLocals EXCEPT !.user = u])
UpdateSession(r, s) ==
    Chat(r, Cmd("sessionRead", s, "-") \o Cmd("sessionPut", s, "update"), [ChatLocals EXCEPT !.session = s])
DeleteSession(r, s) ==
    Chat(r, Cmd("sessionRead", s, "-") \o Cmd("sessionRead", s, "-") \o Cmd("sessionDel", s, "-")
              \o Cmd("sessionUnlist", s, "-"), [ChatLocals EXCEPT !.session = s])
AddEpisode(r, s) ==
    Chat(r, Cmd("sessionRead", s, "-") \o create_episode, [ChatLocals EXCEPT !.session = s])
Remember(r, p, n) == Chat(r, remember(p, n), ChatLocals)
ClearMessages(r, s) ==
    Chat(r, Cmd("sessionRead", s, "-") \o Cmd("clearRange", s, "-") \o Cmd("clearIndex", s, "-"),
            [ChatLocals EXCEPT !.session = s])
DeleteMessage(r, e) ==
    /\ e \in UNION Range(sessionEpisodes)
    /\ Chat(r, Cmd("episodeNeed", e, "-") \o Cmd("episodeUnlist", e, "-") \o Cmd("episodeUnqueue", e, "-")
                 \o Cmd("episodeErase", e, "-"), ChatLocals)

\* The worker claims a queued episode, stores it completed and then looks
\* whether the session is due for a summary.
ProcessEpisode(r, e) ==
    /\ e \in pendingQueue
    /\ Start(r, Cmd("work", e, "-") \o Cmd("complete", e, "-") \o Cmd("summaryDue", e, "-")
                  \o Cmd("inflight", e, "-") \o Cmd("inflight", e, "-") \o Cmd("sessionRead", None, "-")
                  \o Cmd("sessionPut", None, "summary"), [ChatLocals EXCEPT !.episode = e])
    /\ UNCHANGED chatVars

-----------------------------------------------------------------------------
(* Users.                                                                  *)

\* find_user_by_identifier, by the index of external ids and else by the
\* listing; a user that is not found is created.
FindUser(r) ==
    /\ At(r, "findUser")
    /\ LET p == This(r).id
           hit == userExt[p] # None /\ users[userExt[p]] # NoUser
           listed == {u \in userIndex : users[u] = p}
       IN \/ hit /\ Sent(r, [Loc(r) EXCEPT !.user = userExt[p]])
          \/ ~hit /\ \E u \in listed : Sent(r, [Loc(r) EXCEPT !.user = u])
          \/ ~hit /\ listed = {} /\ Insert(r, create_user(p), Loc(r))
    /\ UNCHANGED chatVars

\* create_user: the id is new, so it is never a duplicate.
UserSet(r) ==
    /\ At(r, "userSet")
    /\ UserIds \ chatPast.users # {}
    /\ LET u == Fresh(UserIds, chatPast.users) IN
       /\ users' = [users EXCEPT ![u] = This(r).id]
       /\ chatPast' = [chatPast EXCEPT !.users = @ \cup {u},
                         !.made = IF Len(Rest(r)) > 2 THEN @ \cup {u} ELSE @]
       /\ Sent(r, [Loc(r) EXCEPT !.user = u])
    /\ UNCHANGED <<userIndex, userExt, sessionVars, episodeVars>>

UserSetExt(r) ==
    /\ At(r, "userSetExt")
    /\ userExt' = [userExt EXCEPT ![This(r).id] = Loc(r).user]
    /\ Done(r)
    /\ UNCHANGED <<users, userIndex, sessionVars, episodeVars, chatPast>>

UserList(r) ==
    /\ At(r, "userList")
    /\ userIndex' = userIndex \cup {Loc(r).user}
    /\ Done(r)
    /\ UNCHANGED <<users, userExt, sessionVars, episodeVars, chatPast>>

UserNeed(r) ==
    /\ At(r, "userNeed")
    /\ IF users[Loc(r).user] = NoUser THEN Refuse(r) ELSE Sent(r, [Loc(r) EXCEPT !.found = {users[Loc(r).user]}])
    /\ UNCHANGED chatVars

UserDel(r) ==
    /\ At(r, "userDel")
    /\ users' = [users EXCEPT ![Loc(r).user] = NoUser]
    /\ Done(r)
    /\ UNCHANGED <<userIndex, userExt, sessionVars, episodeVars, chatPast>>

\* The key of the external id goes, whichever user it leads to by now.
UserDelExt(r) ==
    /\ At(r, "userDelExt")
    /\ userExt' = [p \in People |-> IF p \in Loc(r).found THEN None ELSE userExt[p]]
    /\ Done(r)
    /\ UNCHANGED <<users, userIndex, sessionVars, episodeVars, chatPast>>

UserUnlist(r) ==
    /\ At(r, "userUnlist")
    /\ userIndex' = userIndex \ {Loc(r).user}
    /\ Done(r)
    /\ UNCHANGED <<users, userExt, sessionVars, episodeVars, chatPast>>

-----------------------------------------------------------------------------
(* Sessions.                                                               *)

\* find_or_create_session
FindSession(r) ==
    /\ At(r, "findSession")
    /\ LET n == This(r).id
           named == {s \in userSessions[Loc(r).user] : sessions[s].name = n}
       IN \/ \E s \in named : Sent(r, [Loc(r) EXCEPT !.session = s, !.copy = sessions[s]])
          \/ named = {} /\ Insert(r, create_session(n), Loc(r))
    /\ UNCHANGED chatVars

SessionSet(r) ==
    /\ At(r, "sessionSet")
    /\ SessionIds \ chatPast.sessions # {}
    /\ LET s == Fresh(SessionIds, chatPast.sessions) IN
       /\ sessions' = [sessions EXCEPT ![s] = [NoSession EXCEPT !.user = Loc(r).user, !.name = This(r).id]]
       /\ chatPast' = [chatPast EXCEPT !.sessions = @ \cup {s}]
       /\ Sent(r, [Loc(r) EXCEPT !.session = s])
    /\ UNCHANGED <<userVars, userSessions, episodeVars>>

SessionList(r) ==
    /\ At(r, "sessionList")
    /\ userSessions' = [userSessions EXCEPT ![Loc(r).user] = @ \cup {Loc(r).session}]
    /\ Done(r)
    /\ UNCHANGED <<userVars, sessions, episodeVars, chatPast>>

SessionRead(r) ==
    /\ At(r, "sessionRead")
    /\ LET s == Loc(r).session IN
       IF sessions[s] = NoSession THEN Refuse(r) ELSE Sent(r, [Loc(r) EXCEPT !.copy = sessions[s]])
    /\ UNCHANGED chatVars

\* create_episode reads the session again, after it stored the episode.
CountRead(r) ==
    /\ At(r, "countRead")
    /\ LET s == Loc(r).session IN
       IF sessions[s] = NoSession THEN Refuse(r) ELSE Sent(r, [Loc(r) EXCEPT !.copy = sessions[s]])
    /\ UNCHANGED chatVars

\* record_episode, apply_update, or apply_update with a summary: the copy read
\* before is stored, changed.
Changed(r) ==
    CASE This(r).how = "count"   -> [Loc(r).copy EXCEPT !.count = @ + 1, !.head = Loc(r).episode]
      [] This(r).how = "update"  -> Loc(r).copy
      [] This(r).how = "summary" -> [Loc(r).copy EXCEPT !.summary = Loc(r).episode]

SessionPut(r) ==
    /\ At(r, "sessionPut")
    /\ sessions' = [sessions EXCEPT ![Loc(r).session] = Changed(r)]
    /\ Done(r)
    /\ UNCHANGED <<userVars, userSessions, episodeVars, chatPast>>

SessionDel(r) ==
    /\ At(r, "sessionDel")
    /\ sessions' = [sessions EXCEPT ![Loc(r).session] = NoSession]
    /\ Done(r)
    /\ UNCHANGED <<userVars, userSessions, episodeVars, chatPast>>

SessionUnlist(r) ==
    /\ At(r, "sessionUnlist")
    /\ userSessions' = [userSessions EXCEPT ![Loc(r).copy.user] = @ \ {Loc(r).session}]
    /\ Done(r)
    /\ UNCHANGED <<userVars, sessions, episodeVars, chatPast>>

-----------------------------------------------------------------------------
(* Episodes.                                                               *)

EpisodeSet(r) ==
    /\ At(r, "episodeSet")
    /\ EpisodeIds \ chatPast.episodes # {}
    /\ LET e == Fresh(EpisodeIds, chatPast.episodes)  s == Loc(r).session IN
       /\ episodes' = [episodes EXCEPT ![e] = [session |-> s, status |-> "pending"]]
       /\ chatPast' = [chatPast EXCEPT !.episodes = @ \cup {e}, !.in[s] = @ \cup {e}]
       /\ Sent(r, [Loc(r) EXCEPT !.episode = e])
    /\ UNCHANGED <<userVars, sessionVars, sessionEpisodes, pendingQueue>>

EpisodeList(r) ==
    /\ At(r, "episodeList")
    /\ sessionEpisodes' = [sessionEpisodes EXCEPT ![Loc(r).session] = @ \cup {Loc(r).episode}]
    /\ Done(r)
    /\ UNCHANGED <<userVars, sessionVars, episodes, pendingQueue, chatPast>>

EpisodeQueue(r) ==
    /\ At(r, "episodeQueue")
    /\ pendingQueue' = pendingQueue \cup {Loc(r).episode}
    /\ Done(r)
    /\ UNCHANGED <<userVars, sessionVars, episodes, sessionEpisodes, chatPast>>

\* delete_episode
EpisodeNeed(r) ==
    /\ At(r, "episodeNeed")
    /\ LET e == This(r).id IN
       IF episodes[e] = NoEpisode THEN Refuse(r) ELSE Sent(r, [Loc(r) EXCEPT !.session = episodes[e].session])
    /\ UNCHANGED chatVars

EpisodeUnlist(r) ==
    /\ At(r, "episodeUnlist")
    /\ sessionEpisodes' = [sessionEpisodes EXCEPT ![Loc(r).session] = @ \ {This(r).id}]
    /\ chatPast' = [chatPast EXCEPT !.cleared = @ \cup {Loc(r).session}]
    /\ Done(r)
    /\ UNCHANGED <<userVars, sessionVars, episodes, pendingQueue>>

EpisodeUnqueue(r) ==
    /\ At(r, "episodeUnqueue")
    /\ pendingQueue' = pendingQueue \ {This(r).id}
    /\ Done(r)
    /\ UNCHANGED <<userVars, sessionVars, episodes, sessionEpisodes, chatPast>>

EpisodeErase(r) ==
    /\ At(r, "episodeErase")
    /\ episodes' = [episodes EXCEPT ![This(r).id] = NoEpisode]
    /\ Done(r)
    /\ UNCHANGED <<userVars, sessionVars, sessionEpisodes, pendingQueue, chatPast>>

\* delete_session_episodes: each episode of the range, then the range.
ClearRange(r) ==
    /\ At(r, "clearRange")
    /\ LET ids == SetToSeq(sessionEpisodes[Loc(r).session])
           delete_episode(i) == Cmd(IF i % 2 = 1 THEN "episodeErase" ELSE "episodeUnqueue",
                                    ids[(i + 1) \div 2], "-")[1]
       IN Insert(r, [i \in 1..2 * Len(ids) |-> delete_episode(i)], Loc(r))
    /\ UNCHANGED chatVars

ClearIndex(r) ==
    /\ At(r, "clearIndex")
    /\ sessionEpisodes' = [sessionEpisodes EXCEPT ![Loc(r).session] = {}]
    /\ chatPast' = [chatPast EXCEPT !.cleared = @ \cup {Loc(r).session}]
    /\ Done(r)
    /\ UNCHANGED <<userVars, sessionVars, episodes, pendingQueue>>

-----------------------------------------------------------------------------
(* The worker.                                                             *)

\* claim_episode
Work(r) ==
    /\ At(r, "work")
    /\ LET e == This(r).id IN
       IF e \in pendingQueue /\ episodes[e] # NoEpisode
       THEN /\ pendingQueue' = pendingQueue \ {e}
            /\ episodes' = [episodes EXCEPT ![e].status = "processing"]
            /\ Sent(r, [Loc(r) EXCEPT !.session = episodes[e].session])
       ELSE /\ pendingQueue' = pendingQueue \ {e}
            /\ Refuse(r) /\ UNCHANGED episodes
    /\ UNCHANGED <<userVars, sessionVars, sessionEpisodes, chatPast>>

Complete(r) ==
    /\ At(r, "complete")
    /\ episodes' = [episodes EXCEPT ![This(r).id] = [session |-> Loc(r).session, status |-> "completed"]]
    /\ Done(r)
    /\ UNCHANGED <<userVars, sessionVars, sessionEpisodes, pendingQueue, chatPast>>

\* The session exists and its count is a multiple of the threshold.
SummaryDue(r) ==
    /\ At(r, "summaryDue")
    /\ LET n == sessions[Loc(r).session].count IN
       IF SummaryThreshold > 0 /\ n > 0 /\ n % SummaryThreshold = 0 THEN Done(r) ELSE Refuse(r)
    /\ UNCHANGED chatVars

\* list_episodes, which ignores the status asked for: whatever the session
\* lists first counts as in flight.
list_episodes(s) == {e \in sessionEpisodes[s] : episodes[e] # NoEpisode}

\* session_has_inflight_episodes, asked for pending and then for processing
\* episodes; a summary that fails is only logged.
Inflight(r) ==
    /\ At(r, "inflight")
    /\ \/ list_episodes(Loc(r).session) # {} /\ Refuse(r)
       \/ list_episodes(Loc(r).session) = {} /\ Done(r)
    /\ UNCHANGED chatVars

Worker(r) == \E i \in DOMAIN request[r].todo : request[r].todo[i].how = "summary"

\* A command of a request fails; the worker's episode goes back to the queue.
ChatFails(r) ==
    /\ CommandFails(r)
    /\ LET e == Loc(r).episode IN
       IF Worker(r) /\ (At(r, "complete") \/ At(r, "inflight"))
       THEN /\ episodes' = [episodes EXCEPT ![e] = [session |-> Loc(r).session, status |-> "pending"]]
            /\ pendingQueue' = pendingQueue \cup {e}
       ELSE UNCHANGED <<episodes, pendingQueue>>
    /\ UNCHANGED <<userVars, sessionVars, sessionEpisodes, chatPast>>

ChatRequests ==
    \E r \in Requests :
      \/ \E p \in People : CreateUser(r, p) \/ \E n \in SessionNames : Remember(r, p, n)
      \/ \E u \in UserIds : DeleteUser(r, u) \/ \E n \in SessionNames : CreateSession(r, u, n)
      \/ \E s \in SessionIds : \/ UpdateSession(r, s) \/ DeleteSession(r, s)
                               \/ AddEpisode(r, s) \/ ClearMessages(r, s)
      \/ \E e \in EpisodeIds : DeleteMessage(r, e) \/ ProcessEpisode(r, e)

ChatCommands ==
    \E r \in Requests :
      \/ FindUser(r) \/ UserSet(r) \/ UserSetExt(r) \/ UserList(r) \/ UserNeed(r)
      \/ UserDel(r) \/ UserDelExt(r) \/ UserUnlist(r)
      \/ FindSession(r) \/ SessionSet(r) \/ SessionList(r) \/ SessionRead(r) \/ CountRead(r)
      \/ SessionPut(r) \/ SessionDel(r) \/ SessionUnlist(r)
      \/ EpisodeSet(r) \/ EpisodeList(r) \/ EpisodeQueue(r) \/ EpisodeNeed(r)
      \/ EpisodeUnlist(r) \/ EpisodeUnqueue(r) \/ EpisodeErase(r)
      \/ ClearRange(r) \/ ClearIndex(r)
      \/ Work(r) \/ Complete(r) \/ SummaryDue(r) \/ Inflight(r)

NextConversations == ChatRequests \/ ChatCommands \/ \E r \in Requests : ChatFails(r)

ConversationSpec ==
    InitRequests /\ InitConversations /\ [][NextConversations]_<<requestVars, chatVars>>

-----------------------------------------------------------------------------
(* Properties                                                              *)

ConversationTypeOK ==
    /\ users \in [UserIds -> People \cup {NoUser}]
    /\ userIndex \subseteq UserIds /\ userExt \in [People -> UserIds \cup {None}]
    /\ \A s \in SessionIds : /\ sessions[s].user \in UserIds \cup {None}
                             /\ sessions[s].head \in EpisodeIds \cup {None}
                             /\ sessionEpisodes[s] \subseteq EpisodeIds
    /\ pendingQueue \subseteq EpisodeIds

\* However requests overlap and fail, a session counts no more episodes than
\* were created in it, its head is one of them, and so is every episode it
\* lists.  (Two requests that count at a time lose an episode.)
NeverAhead ==
    \A s \in SessionIds :
      /\ sessions[s].count <= Cardinality(chatPast.in[s])
      /\ sessions[s].head # None => sessions[s].head \in chatPast.in[s]
      /\ sessionEpisodes[s] \subseteq chatPast.in[s]

\* Requests that run one after the other count every episode, but for one per
\* failed command.
AllCounted ==
    ~tally.overlapped /\ Busy = {} =>
      \A s \in SessionIds : sessions[s] # NoSession =>
        Cardinality(chatPast.in[s]) <= sessions[s].count + tally.faults

\* Requests that run one after the other remember what they are told under
\* one user per external id and one session per name, but for one that a
\* failed command left half created.
OneHome ==
    ~tally.overlapped =>
      /\ \A p \in People :
           Cardinality({u \in chatPast.made : users[u] = p}) <= 1 + tally.faults
      /\ tally.faults = 0 /\ Busy = {} =>
           \A e \in EpisodeIds : episodes[e] # NoEpisode => sessions[episodes[e].session] \in {NoSession}
             \/ episodes[e].session \in userSessions[sessions[episodes[e].session].user]

ConversationsHold == NeverAhead /\ AllCounted /\ OneHome

\* Once the worker has completed every episode of a session and their number
\* is the threshold, the session has a summary.
SummariesAreWritten ==
    \A s \in SessionIds :
      /\ Busy = {} /\ tally.faults = 0 /\ ~tally.overlapped
      /\ sessions[s] # NoSession /\ s \notin chatPast.cleared
      /\ SummaryThreshold > 0 /\ sessions[s].count = SummaryThreshold
      /\ \A e \in chatPast.in[s] : episodes[e].status = "completed"
      => sessions[s].summary # None
=============================================================================
