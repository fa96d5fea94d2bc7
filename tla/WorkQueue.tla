------------------------------ MODULE WorkQueue ------------------------------
(***************************************************************************)
(* What the queue of episodes promises, with no Redis, documents, polls or *)
(* retries: an item waits, is taken by one worker, is given back or is     *)
(* over, and what is over never comes back.  EpisodeIngest implements it.  *)
(***************************************************************************)
CONSTANTS Items, Workers

VARIABLE place   \* place[i]: where the item is, and the workers that have it

New     == [at |-> "new", by |-> {}]
Waiting == [at |-> "waiting", by |-> {}]
Taken(w) == [at |-> "taken", by |-> {w}]
Over    == [at |-> "over", by |-> {}]

Init == place = [i \in Items |-> New]

Move(i, from, to) == place[i] = from /\ place' = [place EXCEPT ![i] = to]

Submit(i)      == Move(i, New, Waiting)
Refuse(i)      == Move(i, New, Over)
Withdraw(i)    == Move(i, Waiting, Over)
Take(w, i)     == Move(i, Waiting, Taken(w))
GiveBack(w, i) == Move(i, Taken(w), Waiting)
Finish(w, i)   == Move(i, Taken(w), Over)

\* A worker fails and everything it had taken is over.
Lose(w) == place' = [i \in Items |-> IF place[i] = Taken(w) THEN Over ELSE place[i]]

Next ==
    \/ \E i \in Items : Submit(i) \/ Refuse(i) \/ Withdraw(i)
    \/ \E w \in Workers : Lose(w) \/ \E i \in Items : Take(w, i) \/ GiveBack(w, i) \/ Finish(w, i)

Spec == Init /\ [][Next]_place
=============================================================================
