---------------------------- MODULE ConfigPolicy -----------------------------
(***************************************************************************)
(* System settings that decide what a request may do.  Administrators save *)
(* them one by one or in batches; requests read them from the database,    *)
(* and a read that fails, or finds a value no parser accepts, may reuse    *)
(* only what this process has read before.  A key is a size (a positive    *)
(* number below the ceiling of the deployment), a select (a number among   *)
(* its options) or a switch, of which the first two may hold values from   *)
(* before their rules existed.                                             *)
(***************************************************************************)
EXTENDS Integers, FiniteSets

CONSTANTS
  Sizes, Selects, Switches,  \* keys by kind
  Numbers,                   \* numbers a size or a select may hold
  Positions,                 \* of a switch
  Options,                   \* of every select
  Ceiling,                   \* the largest size the deployment can take
  Default,                   \* of each key, the default of its schema
  Missing,                   \* no row
  Malformed,                 \* a value of another type
  Unread,                    \* nothing to fall back on
  Refused,                   \* nothing to go by
  Readers,                   \* requests
  MaxSaves                   \* bounds the saves

ASSUME OptionsAssumption == Options # {} /\ Options \subseteq Numbers
\* A key has one type, and what no parser accepts is not the lack of a row.
ASSUME KindsAssumption == Sizes \cap Selects = {} /\ Missing # Malformed
ASSUME CeilingAssumption == Ceiling \in Nat \ {0}

VARIABLES
  stored,   \* of each key, what the database has
  accepted, \* the last value this process has parsed
  reader,   \* what each request has read, and what it goes by
  saves,    \* how many saves there were
  shown     \* ghost: what the settings page could show since the process runs

policyVars == <<stored, accepted, reader, saves, shown>>

Keys == Sizes \union Selects \union Switches
Values(k) == IF k \in Switches THEN Positions ELSE Numbers

Distance(x, y) == IF x < y THEN y - x ELSE x - y

\* The nearest option, of two equally near ones the smaller, which comes first.
Clamped(k, v) ==
  IF k \notin Selects THEN v
  ELSE CHOOSE o \in Options : \A x \in Options \ {o} :
         Distance(v, o) < Distance(v, x) \/ (Distance(v, o) = Distance(v, x) /\ o < x)

\* The page shows the default for a missing row, options for selects, and no
\* size above the ceiling.
Shown(k, v) ==
  IF v = Malformed THEN v
  ELSE LET known == IF v = Missing THEN Default[k] ELSE v
       IN IF k \in Sizes /\ known > Ceiling THEN Ceiling ELSE Clamped(k, known)

\* The rules of a save: a select must be among its options, a size positive
\* and below the ceiling; the type of a switch is not looked at.
IsAcceptable(k, v) ==
  /\ k \in Selects => v \in Options
  /\ k \in Sizes => v # Malformed /\ v > 0 /\ v <= Ceiling

PolicyInit ==
  /\ stored \in {s \in [Keys -> Numbers \union Positions \union {Missing, Malformed}] :
                   \A k \in Keys : s[k] \in Values(k) \union {Missing, Malformed}}
  /\ accepted = [k \in Keys |-> Unread]
  /\ reader = [r \in Readers |-> [step |-> "idle"]]
  /\ saves = 0
  /\ shown = [k \in Keys |-> {Shown(k, stored[k])}]

\* A batch is validated as a whole and written in one transaction.
SaveBatch(updates) ==
  /\ saves < MaxSaves
  /\ \A k \in DOMAIN updates : IsAcceptable(k, updates[k])
  /\ stored' = [k \in Keys |-> IF k \in DOMAIN updates THEN updates[k] ELSE stored[k]]
  /\ shown' = [k \in Keys |-> shown[k] \union {Shown(k, stored'[k])}]
  /\ saves' = saves + 1
  /\ UNCHANGED <<accepted, reader>>

\* The query of a request, which takes the slot of one that has ended or was
\* canceled: what it finds, the schema's default, or an error.
PolicyItem(k) == IF stored[k] = Missing THEN Default[k] ELSE stored[k]

ReadPolicy(r, k) ==
  /\ \E item \in {PolicyItem(k), Malformed} :
       reader' = [reader EXCEPT ![r] = [step |-> "read", key |-> k, item |-> item]]
  /\ UNCHANGED <<stored, accepted, saves, shown>>

\* What a parsed value means to the request: uploads refuse a size that is not
\* positive and cut one above the ceiling.
Enforced(k, v) ==
  IF k \notin Sizes THEN v
  ELSE IF v <= 0 THEN Refused ELSE IF v > Ceiling THEN Ceiling ELSE v

\* A cold process has nothing to go by: the request is refused, and content is
\* not shared.  The default of the caller would have been at hand.
FallbackOfCaller(k) == Enforced(k, IF accepted[k] = Unread THEN Default[k] ELSE accepted[k])
LastKnownGood(k) == IF accepted[k] = Unread THEN Refused ELSE Enforced(k, accepted[k])

\* Parsing keeps the value for later; only then does the request use it.
UsePolicy(r) ==
  LET k == reader[r].key
      item == reader[r].item IN
  /\ reader[r].step = "read"
  /\ IF item = Malformed
     THEN /\ reader' = [reader EXCEPT ![r] = [step |-> "used", key |-> k, value |-> LastKnownGood(k)]]
          /\ UNCHANGED accepted
     ELSE /\ accepted' = [accepted EXCEPT ![k] = Clamped(k, item)]
          /\ reader' = [reader EXCEPT ![r] = [step |-> "used", key |-> k, value |-> Enforced(k, Clamped(k, item))]]
  /\ UNCHANGED <<stored, saves, shown>>

PolicyRestart ==
  /\ accepted' = [k \in Keys |-> Unread]
  /\ reader' = [r \in Readers |-> [step |-> "idle"]]
  /\ shown' = [k \in Keys |-> {Shown(k, stored[k])}]
  /\ UNCHANGED <<stored, saves>>

PolicyNext ==
  \/ \E some \in SUBSET Keys : \E updates \in [some -> Numbers \union Positions \union {Malformed}] :
       /\ some # {} /\ \A k \in some : updates[k] \in Values(k) \union {Malformed}
       /\ SaveBatch(updates)
  \/ \E r \in Readers :
       \/ \E k \in Keys : ReadPolicy(r, k)
       \/ UsePolicy(r)
  \/ PolicyRestart

PolicySpec == PolicyInit /\ [][PolicyNext]_policyVars

-----------------------------------------------------------------------------
\* What a request goes by is what the settings page could show to somebody
\* since the process runs: a failing database, a malformed or outdated row and
\* two requests that read at once never make it a default nobody chose.
PolicyWasShown ==
  \A r \in Readers : reader[r].step = "used" =>
    reader[r].value \in shown[reader[r].key] \union {Refused}
=============================================================================
