--------------------------- MODULE Clarifications ---------------------------
(***************************************************************************)
(* Clarification requests about one conflict: the facts that one user has  *)
(* on one subject and label (handlers of routes.rs over ClarificationStore *)
(* of redis_store.rs).  A clarification lists the facts that were valid    *)
(* when it was made; resolving it for one of them invalidates the others.  *)
(* Severities, limits and texts are left out: a conflict may be passed     *)
(* over when clarifications are generated.                                 *)
(***************************************************************************)
EXTENDS StoreRequests, SequencesExt

CONSTANTS ClarIds,       \* ids of clarifications, never used twice
          ClarFacts      \* the facts of the conflict

VARIABLES clars,         \* clarification:<id>
          clarIndex,     \* user_clarifications:<user>
          factState,     \* edge:<id> of each fact: unknown, valid or invalid
          overdue,       \* clarifications past their time to live
          named          \* history: <<id, winner>> of resolutions that have begun

clarVars == <<clars, clarIndex, factState, overdue, named>>

Undecided == "none"

ASSUME ClarAssumption ==
    IsFiniteSet(ClarIds) /\ IsFiniteSet(ClarFacts) /\ Undecided \notin ClarFacts

NoClar == [status |-> "none", facts |-> {}, winner |-> Undecided]
Statuses == {"none", "pending", "resolved", "dismissed", "expired"}
Valid == {f \in ClarFacts : factState[f] = "valid"}

Pending(facts) == [status |-> "pending", facts |-> facts, winner |-> Undecided]

\* Some facts are known, and clarifications of them pending.
InitClarifications ==
    \E known \in SUBSET ClarFacts, made \in SUBSET ClarIds :
      /\ made # {} => Cardinality(known) > 1
      /\ factState = [f \in ClarFacts |-> IF f \in known THEN "valid" ELSE "unknown"]
      /\ clars = [c \in ClarIds |-> IF c \in made THEN Pending(known) ELSE NoClar]
      /\ clarIndex = made /\ overdue = {} /\ named = {}

\* Local: the clarification to store.
AskClar(r, todo) == Start(r, todo, [clar |-> NoClar]) /\ UNCHANGED clarVars

\* save_clarification
save_clarification(c) == Cmd("clarSet", c, "-") \o Cmd("clarAdd", c, "-")

GenerateClarifications(r, c) ==
    /\ clars[c] = NoClar
    /\ \A q \in Busy : \A i \in DOMAIN request[q].todo : request[q].todo[i].id # c
    /\ AskClar(r, Cmd("clarConflict", c, "-"))
ResolveClarification(r, c, w) == AskClar(r, Cmd("clarPending", c, w) \o save_clarification(c))
DismissClarification(r, c) == AskClar(r, Cmd("clarDismiss", c, "-") \o save_clarification(c))
ListClarifications(r) == AskClar(r, Cmd("clarList", "-", "-"))

-----------------------------------------------------------------------------

\* The facts valid now, if they are several, make a clarification.
ClarConflict(r) ==
    /\ At(r, "clarConflict")
    /\ \/ Done(r)
       \/ /\ Cardinality(Valid) > 1
          /\ Insert(r, save_clarification(This(r).id), [clar |-> Pending(Valid)])
    /\ UNCHANGED clarVars

\* The losers in some order: two commands for each, whose errors are ignored.
LoseAll(losers) ==
    LET order == SetToSeq(losers) IN
    [i \in 1..2 * Len(order) |->
       [do |-> IF i % 2 = 1 THEN "factRead" ELSE "catch", id |-> order[(i + 1) \div 2], how |-> "-"]]

\* Mutant: the winner is among the losers.
LosersAll(facts, w) == IF w = Undecided THEN {} ELSE facts

Losers(facts, w) == IF w = Undecided THEN {} ELSE facts \ {w}

\* resolve_clarification reads a pending clarification, its losers one by
\* one, and stores the copy as resolved.
ClarPending(r) ==
    /\ At(r, "clarPending")
    /\ LET c == This(r).id  w == This(r).how  read == clars[c] IN
       IF read.status # "pending" THEN Refuse(r) /\ UNCHANGED named
       ELSE /\ Insert(r, LoseAll(Losers(read.facts, w)),
                      [clar |-> [read EXCEPT !.status = "resolved", !.winner = w]])
            /\ named' = IF w = Undecided THEN named ELSE named \cup {<<c, w>>}
    /\ UNCHANGED <<clars, clarIndex, factState, overdue>>

FactRead(r) ==
    /\ At(r, "factRead")
    /\ IF This(r).id \in Valid THEN Insert(r, Cmd("factInvalidate", This(r).id, "-"), Loc(r)) ELSE Done(r)
    /\ UNCHANGED clarVars

FactInvalidate(r) ==
    /\ At(r, "factInvalidate")
    /\ factState' = [factState EXCEPT ![This(r).id] = "invalid"]
    /\ Done(r)
    /\ UNCHANGED <<clars, clarIndex, overdue, named>>

FactCaught(r) == At(r, "catch") /\ This(r).id \in ClarFacts /\ Done(r) /\ UNCHANGED clarVars

\* dismiss_clarification does not look at the status.
ClarDismiss(r) ==
    /\ At(r, "clarDismiss")
    /\ LET read == clars[This(r).id] IN
       IF read = NoClar THEN Refuse(r) ELSE Sent(r, [clar |-> [read EXCEPT !.status = "dismissed"]])
    /\ UNCHANGED clarVars

ClarSet(r) ==
    /\ At(r, "clarSet")
    /\ clars' = [clars EXCEPT ![This(r).id] = Loc(r).clar]
    /\ Done(r)
    /\ UNCHANGED <<clarIndex, factState, overdue, named>>

ClarAdd(r) ==
    /\ At(r, "clarAdd")
    /\ clarIndex' = clarIndex \cup {This(r).id}
    /\ Done(r)
    /\ UNCHANGED <<clars, factState, overdue, named>>

\* The listing reads the index, then each clarification; a pending one past
\* its time is stored as expired.
ClarList(r) ==
    /\ At(r, "clarList")
    /\ LET order == SetToSeq(clarIndex) IN
       Insert(r, [i \in DOMAIN order |-> [do |-> "clarRead", id |-> order[i], how |-> "-"]], Loc(r))
    /\ UNCHANGED clarVars

ClarRead(r) ==
    /\ At(r, "clarRead")
    /\ LET c == This(r).id  read == clars[c] IN
       IF read.status = "pending" /\ c \in overdue
       THEN Insert(r, Cmd("clarSet", c, "-"), [clar |-> [read EXCEPT !.status = "expired"]])
       ELSE Done(r)
    /\ UNCHANGED clarVars

\* Seven days pass.
ClarsAge ==
    /\ overdue' = {c \in ClarIds : clars[c] # NoClar}
    /\ overdue' # overdue
    /\ UNCHANGED <<requestVars, clars, clarIndex, factState, named>>

\* Ingestion stores another fact of the conflict.
FactArrives(f) ==
    /\ factState[f] = "unknown"
    /\ factState' = [factState EXCEPT ![f] = "valid"]
    /\ UNCHANGED <<requestVars, clars, clarIndex, overdue, named>>

NextClarifications ==
    \/ ClarsAge
    \/ \E f \in ClarFacts : FactArrives(f)
    \/ \E r \in Requests :
         \/ \E c \in ClarIds :
              \/ GenerateClarifications(r, c) \/ DismissClarification(r, c)
              \/ \E w \in ClarFacts \cup {Undecided} : ResolveClarification(r, c, w)
         \/ ListClarifications(r)
         \/ ClarConflict(r) \/ ClarPending(r) \/ FactRead(r) \/ FactInvalidate(r) \/ FactCaught(r)
         \/ ClarDismiss(r) \/ ClarSet(r) \/ ClarAdd(r) \/ ClarList(r) \/ ClarRead(r)
         \/ CommandFails(r) /\ UNCHANGED clarVars

ClarSpec == InitRequests /\ InitClarifications /\ [][NextClarifications]_<<requestVars, clarVars>>

-----------------------------------------------------------------------------
(* Properties                                                              *)

ClarTypeOK ==
    /\ \A c \in ClarIds : /\ clars[c].status \in Statuses
                          /\ clars[c].facts \subseteq ClarFacts
                          /\ clars[c].winner \in ClarFacts \cup {Undecided}
    /\ clarIndex \subseteq ClarIds
    /\ factState \in [ClarFacts -> {"unknown", "valid", "invalid"}]

\* Unless a command failed, a clarification that is resolved for a fact left
\* no other fact of it valid, however many resolutions ran at once.
LosersAreInvalid ==
    tally.faults = 0 => \A c \in ClarIds :
      clars[c].status = "resolved" /\ clars[c].winner # Undecided =>
        clars[c].facts \cap Valid \subseteq {clars[c].winner}

\* A fact is invalidated only by a resolution for another fact: the winner
\* stays valid unless another clarification of the conflict, or a request
\* that ran beside, was resolved for a different one.
WinnersStay ==
    \A f \in ClarFacts : factState[f] = "invalid" => \E n \in named :
      n[2] # f /\ f \in clars[n[1]].facts

\* Requests that run one after the other decide a clarification once.
DecidedOnce ==
    ~tally.overlapped => \A n, m \in named :
      n[1] = m[1] /\ n # m => clars[n[1]].status = "pending" \/ tally.faults > 0

ClarificationsHold == LosersAreInvalid /\ WinnersStay /\ DecidedOnce
=============================================================================
