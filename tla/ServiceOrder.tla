---------------------------- MODULE ServiceOrder -----------------------------
(***************************************************************************)
(* External services of one kind: search engines or crawlers, tried in the *)
(* order the administrators set, each with a key.  A save holds a lock for *)
(* its kind and, if the service is there, the lock of its row; a reorder   *)
(* sees the rows of one moment and locks them one by one, while those it   *)
(* has not reached are deleted, saved and reordered by others.  A deleted  *)
(* service leaves a tombstone that keeps its key.  Channels of models are  *)
(* saved and deleted by the same statements, without an order.             *)
(***************************************************************************)
EXTENDS Integers, FiniteSets, Sequences, SequencesExt

CONSTANTS
  Services,   \* keys of services
  Savers,     \* requests that save
  Orderers,   \* requests that reorder
  MaxChanges  \* bounds the changes

\* The rows of one kind are finitely many.
ASSUME ServicesAssumption == IsFiniteSet(Services)

VARIABLES
  service, \* the row of each: "none", "live" or "deleted", its order and key
  saver,   \* of each saving request, what it has read
  reorder, \* of each request that reorders: rows it has seen, rows it has locked
  changes,
  overtaken, \* history: reorders that do not know the services of now
  tangled    \* history: such a reorder has written

serviceVars == <<service, saver, reorder, changes, overtaken, tangled>>

Step == 10
NoRequest == [step |-> "idle"]

\* The key of a row: "own", if it was given to the service as it is now; "dead",
\* if to what it was before it was deleted; or "none".
NoService == [state |-> "none", order |-> 0, key |-> "none"]

Live == {s \in Services : service[s].state = "live"}
Orders == {service[s].order : s \in Live}
LastOrder == IF Orders = {} THEN 0 ELSE Max(Orders)

OrderInit ==
  /\ service = [s \in Services |-> NoService]
  /\ saver = [r \in Savers |-> NoRequest]
  /\ reorder = [o \in Orderers |-> NoRequest]
  /\ changes = 0 /\ overtaken = {} /\ tangled = FALSE

\* Rows whose lock a save or a reorder holds, and the lock for the kind.
HeldBySave(s) == \E r \in Savers : saver[r].step = "read" /\ saver[r].service = s /\ saver[r].held
Reorders == {o \in Orderers : reorder[o] # NoRequest}
RowLocked(s) == HeldBySave(s) \/ \E o \in Reorders : s \in reorder[o].rows
SavesOfKind == {r \in Savers : saver[r].step = "read"}

MayRead(s) == SavesOfKind = {} /\ ~RowLocked(s)

\* An order that is there stays; a new service goes last.
ReadOrder(r, s, replaced) ==
  /\ saver[r] = NoRequest /\ MayRead(s) /\ changes < MaxChanges
  /\ saver' = [saver EXCEPT ![r] =
       [step |-> "read", service |-> s, held |-> s \in Live, replaced |-> replaced,
        order |-> IF s \in Live THEN service[s].order ELSE LastOrder + Step]]
  /\ changes' = changes + 1
  /\ UNCHANGED <<service, reorder, overtaken, tangled>>

\* A key that the request does not replace stays, but a service that comes
\* back from its tombstone has none.
SavedKey(row, replaced) ==
  IF replaced THEN "own" ELSE IF row.state = "deleted" THEN "none" ELSE row.key

SaveService(r) ==
  LET s == saver[r].service IN
  /\ saver[r].step = "read"
  /\ service' \in {service, [service EXCEPT ![s] =
       [state |-> "live", order |-> saver[r].order,
        key |-> SavedKey(service[s], saver[r].replaced)]]}
  /\ saver' = [saver EXCEPT ![r] = NoRequest]
  /\ overtaken' = IF service' = service \/ s \in Live THEN overtaken
                  ELSE overtaken \union {o \in Reorders : s \in reorder[o].seen}
  /\ UNCHANGED <<reorder, changes, tangled>>

DeleteService(s) ==
  /\ s \in Live /\ ~RowLocked(s) /\ changes < MaxChanges
  /\ service' = [service EXCEPT ![s].state = "deleted", ![s].key = IF @ = "own" THEN "dead" ELSE @]
  /\ changes' = changes + 1
  /\ UNCHANGED <<saver, reorder, overtaken, tangled>>

\* The query sees the rows of the kind at one moment.
ReorderBegins(o) ==
  /\ reorder[o] = NoRequest /\ changes < MaxChanges
  /\ reorder' = [reorder EXCEPT ![o] = [step |-> "locks", seen |-> Live, rows |-> {}]]
  /\ changes' = changes + 1
  /\ UNCHANGED <<service, saver, overtaken, tangled>>

\* It then locks one after the other, waiting for whoever holds it, and leaves
\* out those that are deleted by then.
ReorderLocks(o, s) ==
  /\ o \in Reorders /\ s \in reorder[o].seen /\ ~RowLocked(s)
  /\ reorder' = [reorder EXCEPT ![o].seen = @ \ {s},
                                ![o].rows = IF s \in Live THEN @ \union {s} ELSE @]
  /\ UNCHANGED <<service, saver, changes, overtaken, tangled>>

\* Here the request's keys are first looked at: every row that is locked must
\* be named, once, and nothing else.
NamesAll(keys, existing) ==
  existing = ToSet(keys) /\ Len(keys) = Cardinality(existing)
Placed(keys, existing) ==
  [s \in Services |-> IF s \in existing
     THEN [service[s] EXCEPT !.order = Step * (CHOOSE i \in DOMAIN keys : keys[i] = s)]
     ELSE service[s]]

ReorderWrites(o, keys) ==
  LET existing == reorder[o].rows IN
  /\ o \in Reorders /\ reorder[o].seen = {} /\ NamesAll(keys, existing)
  /\ service' = Placed(keys, existing)
  /\ reorder' = [reorder EXCEPT ![o] = NoRequest]
  /\ overtaken' = (overtaken \ {o}) \union
       {q \in Reorders \ {o} : ~(existing \subseteq reorder[q].seen \union reorder[q].rows)}
  /\ tangled' = (tangled \/ o \in overtaken)
  /\ UNCHANGED <<saver, changes>>

\* The keys do not fit, the time of the request is over, or the database ends
\* one of two reorders that wait for each other.
ReorderEnds(o) ==
  /\ o \in Reorders /\ reorder' = [reorder EXCEPT ![o] = NoRequest]
  /\ overtaken' = overtaken \ {o}
  /\ UNCHANGED <<service, saver, changes, tangled>>

OrderNext ==
  \/ \E r \in Savers :
       \/ \E s \in Services, replaced \in BOOLEAN : ReadOrder(r, s, replaced)
       \/ SaveService(r)
  \/ \E s \in Services : DeleteService(s)
  \/ \E o \in Orderers :
       \/ ReorderBegins(o) \/ ReorderEnds(o)
       \/ \E s \in Services : ReorderLocks(o, s)
       \/ \E keys \in SeqOf(Services, Cardinality(Services)) : keys # <<>> /\ ReorderWrites(o, keys)

OrderSpec == OrderInit /\ [][OrderNext]_serviceVars

-----------------------------------------------------------------------------
\* Two services of a kind share no place, however saves, deletions and reorders
\* meet, as long as no reorder writes that was overtaken: a service it had seen
\* came back from its tombstone before it was locked, or another reorder placed
\* a service it had not seen.  The order of the administrators decides what is
\* tried first, not the names.  A service that comes back never has a key from
\* its former life.
OrderIsDecided ==
  /\ tangled \/ \A s, t \in Live : s # t => service[s].order # service[t].order
  /\ \A s \in Live : service[s].key # "dead"
=============================================================================
