---------------------------- MODULE FactTimeline ----------------------------
(***************************************************************************)
(* What the server tells of its facts over time: the diff of a window      *)
(* (changes_since), two snapshots with the timeline between them           *)
(* (time_travel) and the clusters of competing facts (conflict_radar), all *)
(* in routes.rs over the two times of an Edge (mnemo-core/models/edge.rs). *)
(* The facts compete: one subject, one label, one statement of an episode  *)
(* each.  An ingestion is one step here; GraphIngest opens it up.  Ticks   *)
(* are longer than the request; retention is counted in them.              *)
(* Confidences, episodes and heads, which the same windows filter, are     *)
(* left out, and retrieval finds every fact.                               *)
(***************************************************************************)
EXTENDS Integers

CONSTANTS Statements,     \* the facts, each of an episode of its own
          MaxTime,        \* bound: times are 0 .. MaxTime
          RetentionTicks  \* how old an episode may be

ASSUME TimelineAssumption ==
    MaxTime \in Nat /\ RetentionTicks \in Nat

VARIABLES now,       \* the server's clock
          said,      \* created_at of the statement's episode
          edges,     \* valid_at, invalid_at and ingested_at of the fact
          follower   \* a client that asks for window after window

timelineVars == <<now, said, edges, follower>>

Times  == 0 .. MaxTime
Never  == MaxTime + 1
Unsaid == -1
NoEdge == [valid_at |-> Never, invalid_at |-> Never, ingested_at |-> Never]

InitTimeline ==
    /\ now = 0
    /\ said = [s \in Statements |-> Unsaid]
    /\ edges = [s \in Statements |-> NoEdge]
    /\ follower = [asked |-> 0, known |-> {}, late |-> {}]

Stated == {s \in Statements : edges[s] # NoEdge}

\* Mutant: still valid at the time it is superseded.
is_valid_at_the_end(s, t) == edges[s].valid_at <= t /\ t <= edges[s].invalid_at

is_valid_at(s, t) == edges[s].valid_at <= t /\ t < edges[s].invalid_at

is_valid(s) == s \in Stated /\ edges[s].invalid_at = Never
ValidAt(t)  == {s \in Stated : is_valid_at(s, t)}

is_episode_within_retention(s) == said[s] >= now - RetentionTicks

\* A client posts an episode and may say when it happened.
Say(s) ==
    /\ said[s] = Unsaid
    /\ \E at \in Times :
         /\ at >= now - RetentionTicks
         /\ said' = [said EXCEPT ![s] = at]
    /\ UNCHANGED <<now, edges, follower>>

\* The fact is valid from the time its text names or its episode happened; the
\* facts it replaces are valid until this moment.
Ingest(s) ==
    /\ said[s] # Unsaid /\ s \notin Stated
    /\ \E from \in Times :
         /\ edges' = [e \in Statements |->
              IF e = s THEN [valid_at |-> from, invalid_at |-> Never, ingested_at |-> now]
              ELSE IF is_valid(e) THEN [edges[e] EXCEPT !.invalid_at = now]
              ELSE edges[e]]
         /\ follower' = [follower EXCEPT !.late = @
              \cup (IF from <= follower.asked THEN {s} ELSE {})
              \cup (IF now <= follower.asked THEN {e \in Statements : is_valid(e)} ELSE {})]
    /\ UNCHANGED <<now, said>>

TimePasses ==
    /\ now < MaxTime
    /\ now' = now + 1
    /\ UNCHANGED <<said, edges, follower>>

-----------------------------------------------------------------------------
(* The reports.  A window is a record of from and to.                      *)

Windows == {w \in [from : Times, to : Times] : w.from < w.to}
In(t, w) == w.from < t /\ t <= w.to

added_facts(w)      == {s \in Stated : In(edges[s].valid_at, w)}
superseded_facts(w) == {s \in Stated : In(edges[s].invalid_at, w)}

\* Contracts drop the facts that are superseded by now.
Contracts == {"default", "support_safe", "current_strict", "historical_strict"}
apply_memory_contract(found, c) ==
    IF c \in {"support_safe", "current_strict"} THEN {s \in found : is_valid(s)} ELSE found
SnapshotAt(t, c) == apply_memory_contract(ValidAt(t), c)

gained_facts(w, c) == SnapshotAt(w.to, c) \ SnapshotAt(w.from, c)
lost_facts(w, c)   == SnapshotAt(w.from, c) \ SnapshotAt(w.to, c)

Event(t, type, s) == [at |-> t, type |-> type, fact |-> s]
timeline(w) ==
    {e \in {Event(edges[s].valid_at, "fact_added", s) : s \in added_facts(w)}
             \cup {Event(edges[s].invalid_at, "fact_superseded", s) : s \in superseded_facts(w)} :
       is_episode_within_retention(e.fact)}

\* Sorted by time, and "fact_added" before "fact_superseded".
Before(e, f) == e.at < f.at \/ (e.at = f.at /\ e.type = "fact_added" /\ f.type # "fact_added")

\* The radar's clusters of several facts active at one time.  (How often facts
\* were superseded of late only adds to the severity.)
conflict_radar(t) == {pair \in ValidAt(t) \X ValidAt(t) : pair[1] # pair[2]}

\* The client asks for the changes since it asked last, and keeps count.
memory_changes_since ==
    \E to \in follower.asked + 1 .. now :
      LET w == [from |-> follower.asked, to |-> to] IN
      /\ follower' = [follower EXCEPT !.asked = to,
                        !.known = (@ \cup added_facts(w)) \ superseded_facts(w)]
      /\ UNCHANGED <<now, said, edges>>

NextTimeline ==
    \/ TimePasses
    \/ memory_changes_since
    \/ \E s \in Statements : Say(s) \/ Ingest(s)

TimelineSpec == InitTimeline /\ [][NextTimeline]_timelineVars

-----------------------------------------------------------------------------
(* Properties                                                              *)

TimelineTypeOK ==
    /\ now \in Times /\ said \in [Statements -> Times \cup {Unsaid}]
    /\ edges \in [Statements -> [valid_at : Times \cup {Never}, invalid_at : Times \cup {Never},
                                 ingested_at : Times \cup {Never}]]
    /\ follower \in [asked : Times, known : SUBSET Statements, late : SUBSET Statements]

\* Facts told to begin in the future and superseded before: never valid.
Unborn == {s \in Stated : edges[s].invalid_at < edges[s].valid_at}

\* A client that asks for window after window knows the valid facts, up to
\* those that were told, or superseded, behind the time it had asked for.
FollowersKnow ==
    LET known == follower.known \ Unborn IN
    known \ follower.late = ValidAt(follower.asked) \ follower.late

\* What a trace gained or lost is on its timeline, under every contract, and
\* who replays the timeline of a window, started from one snapshot, arrives
\* at the other, as far as the episodes are retained.
TracesReplay ==
    \A s \in {f \in Stated \ Unborn : is_episode_within_retention(f)} : \A w \in Windows :
      LET told == {e \in timeline(w) : e.fact = s}
          Told(type) == \E e \in told : e.type = type
          replayed == IF told = {} THEN s \in ValidAt(w.from)
                      ELSE \E e \in told : e.type = "fact_added" /\ \A f \in told : ~Before(e, f)
      IN
      /\ replayed <=> s \in ValidAt(w.to)
      /\ \A c \in Contracts :
           /\ s \in gained_facts(w, c) => Told("fact_added")
           /\ s \in lost_facts(w, c) => Told("fact_superseded")

\* Facts ingested one after the other compete only at times before the last
\* of them was known: the radar of this moment finds no two active facts.
ConflictsArePast ==
    \A s1, s2 \in Stated : \A t \in Times :
      <<s1, s2>> \in conflict_radar(t) =>
        t < edges[s1].ingested_at \/ t < edges[s2].ingested_at

TimelineHolds == FollowersKnow /\ TracesReplay /\ ConflictsArePast
=============================================================================
