----------------------------- MODULE Governance ------------------------------
(***************************************************************************)
(* The audit log of the catalog.  Every governed change of a tool or of a  *)
(* skill appends one event, in the transaction that makes the change; a    *)
(* rollback appends the reverse of an event and never rewrites it.  An     *)
(* event keeps the state it found and the state it left.                   *)
(***************************************************************************)
EXTENDS Naturals, Sequences

\* undoes: the position of the event that a rollback reverses, else 0.
Event(key, action, before, after, undoes) ==
  [key |-> key, action |-> action, before |-> before, after |-> after, undoes |-> undoes]

\* The unique index on rollback_of_event_id.
AlreadyRolledBack(events, i) == \E j \in DOMAIN events : events[j].undoes = i

\* No event of a key lies between two positions.
NoneBetween(events, key, i, j) == \A x \in DOMAIN events : i < x /\ x < j => events[x].key # key

\* What each event of a key left is what the next one found.
IsChained(events, key, Agrees(_, _)) ==
  \A i, j \in DOMAIN events :
    /\ i < j /\ events[i].key = key /\ events[j].key = key
    /\ NoneBetween(events, key, i, j)
    => Agrees(events[i].after, events[j].before)

\* What the last event of a key left is what the catalog has.
Describes(events, key, row, Agrees(_, _)) ==
  \A i \in DOMAIN events :
    events[i].key = key /\ NoneBetween(events, key, i, Len(events) + 1) => Agrees(events[i].after, row)

\* A rollback found what its event left, restored what its event had found,
\* and is the only one of that event.
ReversesOnce(events) ==
  \A i \in DOMAIN events : LET j == events[i].undoes IN j # 0 =>
    /\ events[i].before = events[j].after /\ events[i].after = events[j].before
    /\ \A x \in DOMAIN events \ {i} : events[x].undoes # j
=============================================================================
