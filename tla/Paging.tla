------------------------------- MODULE Paging -------------------------------
(***************************************************************************)
(* A client that pages through a list while records come and go.  Five     *)
(* kinds of list: those of list_from_zset (users, sessions, episodes,      *)
(* entities; newest first, the cursor is an id), the same read to the end  *)
(* by the server itself, the same with the type filter of the gRPC call,   *)
(* the registry of agents (oldest first, the cursor is a time), and the    *)
(* replay of a webhook's rows.  A record is an entry of a sorted set and a *)
(* document, written and erased one after the other.  An id stands for its *)
(* place in the order of ids too.                                          *)
(***************************************************************************)
EXTENDS Naturals, FiniteSets, Sequences
LOCAL INSTANCE SequencesExt

CONSTANTS PageKinds,      \* kinds of list to page through
          MaxPageId,      \* bound: records 1 .. MaxPageId
          MaxPageTime,    \* bound: times in milliseconds are 1 .. MaxPageTime
          PageLimits,     \* page sizes
          PageRing,       \* rows kept for a webhook
          MaxPageChanges  \* bound: changes of the list by others

ASSUME PageAssumption ==
    /\ PageKinds \subseteq {"list", "all", "filtered", "agents", "replay"}
    /\ MaxPageId \in Nat /\ MaxPageTime \in Nat /\ MaxPageChanges \in Nat
    /\ PageLimits \subseteq Nat \ {0} /\ PageRing \in Nat \ {0}

VARIABLES index,   \* index[i]: score of the entry, 0 if there is none
          docs,    \* docs[i]: created_at (updated_at of an agent), 0 if there is none
          pager,   \* the client and its request in progress
          pagePast \* records there since the start, ids used, what went wrong

pageVars == <<index, docs, pager, pagePast>>

PageIds   == 1 .. MaxPageId
PageTimes == 1 .. MaxPageTime
Listed    == {i \in PageIds : index[i] # 0}

Later(i, j) == index[i] > index[j] \/ (index[i] = index[j] /\ i > j)
NewestFirst(set) == SetToSortSeq(set, Later)
OldestFirst(set) == Reverse(NewestFirst(set))
Page(ids) == SubSeq(ids, 1, IF Len(ids) < pager.limit THEN Len(ids) ELSE pager.limit)

Tied(scores) == \E i, j \in PageIds : i # j /\ scores[i] # 0 /\ scores[i] = scores[j]

\* What keeps a walk from reaching every record once: entries with one score,
\* a cursor that is no longer listed, an entry without a document, an agent
\* changed after it was listed, a page on which nothing matches the filter.
Troubles == {"tie", "gone", "hollow", "moved", "barren"}
Trouble(t, happens) == IF happens THEN {t} ELSE {}

\* A client that is to page through a list with these scores and documents.
StartPaging(kind, limit, typed, scores, times) ==
    /\ index = scores /\ docs = times
    /\ pager = [kind |-> kind, limit |-> limit, typed |-> typed, after |-> 0, cursor |-> 0,
                ids |-> <<>>, read |-> 0, hits |-> 0, got |-> <<>>, seen |-> {}, twice |-> FALSE, status |-> "ask"]
    /\ pagePast = [kept |-> Listed \cap typed, used |-> Listed, changes |-> 0,
                   troubles |-> Trouble("tie", Tied(index)) \cup Trouble("moved", docs # index)]

Unlisted == [i \in PageIds |-> 0]
InitPaging ==
    \E kind \in PageKinds, limit \in PageLimits, typed \in SUBSET PageIds :
      /\ kind = "filtered" \/ typed = PageIds
      /\ \E scores \in [PageIds -> 0 .. MaxPageTime], times \in [PageIds -> 0 .. MaxPageTime] :
           /\ \A i \in PageIds : times[i] = scores[i] \/ (kind = "agents" /\ times[i] > scores[i] /\ scores[i] # 0)
           /\ StartPaging(kind, limit, typed, scores, times)
           /\ kind = "replay" =>
                /\ Cardinality(Listed) <= PageRing
                /\ \A i, j \in PageIds : i < j /\ index[j] # 0 => index[i] # 0

\* The client asks for a page, after the last item of the one before.
Ask ==
    /\ pager.status = "ask"
    /\ pager' = [pager EXCEPT !.status = IF pager.kind = "replay" THEN "rows" ELSE "read",
                   !.cursor = pager.after, !.got = <<>>]
    /\ UNCHANGED <<index, docs, pagePast>>

\* The entries that follow the cursor in the sorted set.
Following ==
    IF pager.kind = "agents" THEN OldestFirst({i \in Listed : index[i] > pager.cursor})
    ELSE IF pager.cursor = 0 THEN NewestFirst(Listed)
    ELSE NewestFirst({i \in Listed : index[i] < index[pager.cursor]})

\* ZSCORE and the range are one step: of the changes in between only the
\* removal of the cursor matters, and that may as well come after the range.
ReadIndex ==
    /\ pager.status = "read"
    /\ pager' = [pager EXCEPT !.status = "get", !.ids = Page(Following), !.read = 0, !.hits = 0]
    /\ pagePast' = [pagePast EXCEPT !.troubles = @ \cup Trouble("gone",
                      pager.kind # "agents" /\ pager.cursor # 0 /\ pager.cursor \notin Listed)]
    /\ UNCHANGED <<index, docs>>

\* The document of an entry; one without a document is skipped.
GetItem ==
    /\ pager.status = "get" /\ pager.ids # <<>>
    /\ LET i == Head(pager.ids)
           hit == docs[i] # 0 /\ i \in pager.typed IN
       /\ pager.kind = "agents" => docs[i] # 0
       /\ pager' = [pager EXCEPT !.ids = Tail(@),
                      !.read = IF docs[i] # 0 THEN @ + 1 ELSE @,
                      !.hits = IF hit THEN @ + 1 ELSE @,
                      !.got = IF hit /\ Len(@) < pager.limit THEN Append(@, <<i, docs[i]>>) ELSE @]
       /\ pagePast' = [pagePast EXCEPT !.troubles = @ \cup Trouble("hollow", docs[i] = 0)]
    /\ UNCHANGED <<index, docs>>

\* get_agent_identity registers an agent that has no document.
NoneAfter(t) == \A i \in PageIds : docs[i] <= t /\ index[i] <= t
RecreateAgent ==
    /\ pager.status = "get" /\ pager.ids # <<>> /\ pager.kind = "agents"
    /\ LET i == Head(pager.ids) IN
       /\ docs[i] = 0
       /\ \E t \in PageTimes :
            /\ NoneAfter(t)
            /\ docs' = [docs EXCEPT ![i] = t] /\ index' = [index EXCEPT ![i] = t]
            /\ pager' = [pager EXCEPT !.ids = Tail(@), !.read = @ + 1, !.got = Append(@, <<i, t>>)]
    /\ pagePast' = [pagePast EXCEPT !.troubles = @ \cup {"moved"}]

\* A client goes on while pages are full, the server until one is empty.
GoesOn(got) == IF pager.kind = "all" THEN got # <<>> ELSE Len(got) = pager.limit

Items(got) == {got[n][1] : n \in DOMAIN got}
Answer(got, next) ==
    pager' = [pager EXCEPT !.seen = @ \cup Items(got), !.got = <<>>,
                !.twice = @ \/ Items(got) \cap pager.seen # {} \/ Cardinality(Items(got)) < Len(got),
                !.after = IF GoesOn(got) THEN next ELSE 0,
                !.status = IF GoesOn(got) THEN "ask" ELSE "over"]

\* Mutant: the cursor is the first item of the page.
CursorFirst(got) == IF pager.kind = "agents" THEN Head(got)[2] ELSE Head(got)[1]

Cursor(got) == IF pager.kind = "agents" THEN Last(got)[2] ELSE Last(got)[1]

\* With a filter the call goes on until the page is full or the list at its
\* end, from the last item that matched.
MorePages == pager.kind = "filtered" /\ Len(pager.got) < pager.limit /\ pager.read >= pager.limit

EndPage ==
    /\ pager.status = "get" /\ pager.ids = <<>>
    /\ IF MorePages
       THEN /\ pager' = [pager EXCEPT !.status = "read",
                           !.cursor = IF pager.got = <<>> THEN 0 ELSE Last(pager.got)[1]]
            /\ pagePast' = [pagePast EXCEPT !.troubles = @ \cup Trouble("barren", pager.hits = 0)]
       ELSE /\ Answer(pager.got, IF pager.got = <<>> THEN 0 ELSE Cursor(pager.got))
            /\ UNCHANGED pagePast
    /\ UNCHANGED <<index, docs>>

\* replay_memory_webhook_events copies the rows and starts over when the row
\* of the cursor is no longer there.
ReplayRows ==
    /\ pager.status = "rows"
    /\ LET rows == OldestFirst(Listed)
           page == Page(IF pager.cursor \in Listed
                        THEN SelectSeq(rows, LAMBDA i : Later(i, pager.cursor)) ELSE rows)
           got == [n \in DOMAIN page |-> <<page[n], index[page[n]]>>] IN
       Answer(got, IF got = <<>> THEN 0 ELSE Cursor(got))
    /\ pagePast' = [pagePast EXCEPT !.troubles = @ \cup
                      Trouble("gone", pager.cursor # 0 /\ pager.cursor \notin Listed)]
    /\ UNCHANGED <<index, docs>>

Changes ==
    /\ pager.status # "over" /\ pagePast.changes < MaxPageChanges

\* Others store a record (an imported one with a time of its own), erase a
\* document and then its entry, register or update an agent.
AddRecord ==
    /\ Changes /\ pager.kind # "replay"
    /\ \E i \in PageIds \ pagePast.used, t \in PageTimes :
         /\ pager.kind = "agents" => NoneAfter(t)
         /\ index' = [index EXCEPT ![i] = t] /\ docs' = [docs EXCEPT ![i] = t]
         /\ pagePast' = [pagePast EXCEPT !.changes = @ + 1, !.used = @ \cup {i},
                           !.troubles = @ \cup Trouble("tie", \E j \in PageIds : index[j] = t)]
    /\ UNCHANGED pager

EraseDocument ==
    /\ Changes /\ pager.kind # "replay"
    /\ \E i \in PageIds :
         /\ docs[i] # 0
         /\ docs' = [docs EXCEPT ![i] = 0]
         /\ pagePast' = [pagePast EXCEPT !.changes = @ + 1, !.kept = @ \ {i}]
    /\ UNCHANGED <<index, pager>>

RemoveEntry ==
    /\ pager.status # "over"
    /\ \E i \in Listed :
         /\ docs[i] = 0
         /\ index' = [index EXCEPT ![i] = 0]
    /\ UNCHANGED <<docs, pager, pagePast>>

TouchAgent ==
    /\ Changes /\ pager.kind = "agents"
    /\ \E i \in PageIds, t \in PageTimes :
         /\ docs[i] # 0 /\ NoneAfter(t)
         /\ docs' = [docs EXCEPT ![i] = t]
         /\ \E again \in BOOLEAN : index' = IF again THEN [index EXCEPT ![i] = t] ELSE index
    /\ pagePast' = [pagePast EXCEPT !.changes = @ + 1, !.troubles = @ \cup {"moved"}]
    /\ UNCHANGED pager

\* An event is emitted, with a time taken before the lock: rows may be in
\* another order than their times.  The ring drops the row it has longest.
EmitRow ==
    /\ Changes /\ pager.kind = "replay" /\ Cardinality(pagePast.used) < MaxPageId
    /\ LET i == Cardinality(pagePast.used) + 1
           dropped == IF Cardinality(Listed) < PageRing THEN {}
                    ELSE {j \in Listed : \A k \in Listed : j <= k} IN
       \E t \in PageTimes :
         /\ index' = [j \in PageIds |-> IF j = i THEN t ELSE IF j \in dropped THEN 0 ELSE index[j]]
         /\ docs' = index'
         /\ pagePast' = [pagePast EXCEPT !.changes = @ + 1, !.used = @ \cup {i}, !.kept = @ \ dropped]
    /\ UNCHANGED pager

PageStep == Ask \/ ReadIndex \/ GetItem \/ RecreateAgent \/ EndPage \/ ReplayRows
PageNext ==
    \/ PageStep
    \/ AddRecord \/ EraseDocument \/ RemoveEntry \/ TouchAgent \/ EmitRow

\* The server answers and the client asks on.
PageSpec == InitPaging /\ [][PageNext]_pageVars /\ WF_pageVars(PageStep)

-----------------------------------------------------------------------------
(* Properties                                                              *)

PageTypeOK ==
    /\ index \in [PageIds -> 0 .. MaxPageTime] /\ docs \in [PageIds -> 0 .. MaxPageTime]
    /\ pager.status \in {"ask", "read", "get", "rows", "over"}
    /\ Len(pager.got) <= pager.limit /\ pagePast.troubles \subseteq Troubles

\* However records come and go, a client that pages to the end has seen every
\* record that stayed: always when it replays a webhook's rows, and otherwise
\* unless one of the troubles came up.  It sees none twice, unless its row was
\* dropped, an agent moved or the filter found nothing on a page.
PagesReachAll ==
    /\ pager.status = "over" /\ (pager.kind = "replay" \/ pagePast.troubles = {}) =>
         pagePast.kept \subseteq pager.seen
    /\ \/ ~pager.twice
       \/ pager.kind = "replay" /\ "gone" \in pagePast.troubles
       \/ pager.kind = "agents" /\ "moved" \in pagePast.troubles
       \/ pager.kind = "filtered" /\ "barren" \in pagePast.troubles

\* Every request for a page is answered, and the client comes to the end.
\* ("Loop until we have `limit` matching results or exhaust all pages".)
ListingsEnd == <>(pager.status = "over")
=============================================================================
