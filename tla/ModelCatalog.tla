---------------------------- MODULE ModelCatalog -----------------------------
(***************************************************************************)
(* The table of models, the copy of it that the process works with, the    *)
(* default model and the sessions that are created from them.  A request   *)
(* that writes a model reloads the copy afterwards, from a list it reads   *)
(* without a lock: an older list may be loaded last.  A session takes the  *)
(* channel of its model from the copy and then checks it with the table.   *)
(* Of a model's fields those are kept that decide who may use it.          *)
(***************************************************************************)
EXTENDS Naturals, FiniteSets

CONSTANTS
  Models,
  Channels,
  NoModel,    \* no row; no default
  Editors,    \* requests of administrators
  MaxWrites   \* bounds the writes

VARIABLES
  table,     \* of each model its row [channel, enabled, public], or NoModel
  registry,  \* what the process has loaded
  usable,    \* channels that are there, enabled and have a key
  default,   \* the configured default model
  editor,    \* what each request has yet to do
  creation,  \* the creation of a session
  writes,
  offered    \* ghost: models as users could have them since the creation began

catalogVars == <<table, registry, usable, default, editor, creation, writes, offered>>

Rows == [channel : Channels, enabled : BOOLEAN, public : BOOLEAN]
Idle == [step |-> "idle"]

Offered(t) == {<<m, t[m].channel>> : m \in {x \in Models : t[x] # NoModel /\ t[x].enabled}}

CatalogInit ==
  /\ table \in [Models -> Rows \union {NoModel}]
  /\ registry = table
  /\ usable \in SUBSET Channels
  /\ default \in Models \union {NoModel}
  /\ editor = [e \in Editors |-> Idle]
  /\ creation = Idle
  /\ writes = 0
  /\ offered = Offered(table)

CanWrite == writes < MaxWrites
Wrote == writes' = writes + 1 /\ offered' = offered \union Offered(table')

-----------------------------------------------------------------------------
(* Administrators.                                                         *)

\* A creation looks for the row first and then writes over whatever is there.
CreateLooks(e, m) ==
  /\ editor[e] = Idle /\ table[m] = NoModel
  /\ editor' = [editor EXCEPT ![e] = [step |-> "create", model |-> m]]
  /\ UNCHANGED <<table, registry, usable, default, creation, writes, offered>>

Reloads(e) == editor' = [editor EXCEPT ![e] = [step |-> "reload"]]

CreateWrites(e, row) ==
  /\ editor[e].step = "create" /\ CanWrite
  /\ table' = [table EXCEPT ![editor[e].model] = row]
  /\ Reloads(e) /\ Wrote
  /\ UNCHANGED <<registry, usable, default, creation>>

\* A patch is applied to the row under its lock.
UpdateModel(e, m, row) ==
  /\ editor[e] = Idle /\ table[m] # NoModel /\ CanWrite
  /\ table' = [table EXCEPT ![m] = row]
  /\ Reloads(e) /\ Wrote
  /\ UNCHANGED <<registry, usable, default, creation>>

DeleteModel(e, m) ==
  /\ editor[e] = Idle /\ table[m] # NoModel /\ CanWrite
  /\ table' = [table EXCEPT ![m] = NoModel]
  /\ Reloads(e) /\ Wrote
  /\ UNCHANGED <<registry, usable, default, creation>>

\* The list may fail after the write has succeeded; the registry stays then.
ListModels(e) ==
  /\ editor[e].step = "reload"
  /\ editor' \in {[editor EXCEPT ![e] = [step |-> "load", list |-> table]], [editor EXCEPT ![e] = Idle]}
  /\ UNCHANGED <<table, registry, usable, default, creation, writes, offered>>

LoadModels(e) ==
  /\ editor[e].step = "load"
  /\ registry' = editor[e].list
  /\ editor' = [editor EXCEPT ![e] = Idle]
  /\ UNCHANGED <<table, usable, default, creation, writes, offered>>

\* A default is an enabled public model with a usable channel; none is allowed
\* only while there is no such model.  It is checked before it is written.
IsRunnable(m) == table[m] # NoModel /\ table[m].enabled /\ table[m].public /\ table[m].channel \in usable

ValidateDefault(e, m) ==
  /\ editor[e] = Idle
  /\ IF m = NoModel THEN ~\E x \in Models : IsRunnable(x) ELSE IsRunnable(m)
  /\ editor' = [editor EXCEPT ![e] = [step |-> "default", model |-> m]]
  /\ UNCHANGED <<table, registry, usable, default, creation, writes, offered>>

SaveDefault(e) ==
  /\ editor[e].step = "default"
  /\ default' = editor[e].model
  /\ editor' = [editor EXCEPT ![e] = Idle]
  /\ UNCHANGED <<table, registry, usable, creation, writes, offered>>

ChangeChannel(k) ==
  /\ CanWrite /\ writes' = writes + 1
  /\ usable' = IF k \in usable THEN usable \ {k} ELSE usable \union {k}
  /\ UNCHANGED <<table, registry, default, editor, creation, offered>>

-----------------------------------------------------------------------------
(* A user creates a session.                                               *)

\* The channel of a model in the copy; an unknown model has none.
ProviderOf(m) == IF registry[m] = NoModel THEN NoModel ELSE registry[m].channel

Begins(m, channel) ==
  /\ creation' = [step |-> "model", model |-> m, channel |-> channel, checked |-> 0]
  /\ offered' = Offered(table)
  /\ UNCHANGED <<table, registry, usable, default, editor, writes>>

\* With no model named, the default decides, whatever channel was named; a
\* default that has no channel ends the request.
CreateWithDefault ==
  /\ creation = Idle /\ default # NoModel /\ ProviderOf(default) # NoModel
  /\ Begins(default, ProviderOf(default))

CreateWithModel(m, channel) ==
  /\ creation = Idle
  /\ IF channel = NoModel THEN ProviderOf(m) # NoModel /\ Begins(m, ProviderOf(m)) ELSE Begins(m, channel)

\* Without the comparison a stale copy would choose the channel.
IsEnabledModel == table[creation.model] # NoModel /\ table[creation.model].enabled

Matches == IsEnabledModel /\ table[creation.model].channel = creation.channel

\* The row of the model and then that of the channel are read twice, once
\* with the level of the user and once for the limits of the model.
CheckModel(level) ==
  /\ creation.step = "model"
  /\ creation' = IF Matches /\ (creation.checked = 1 \/ level \/ table[creation.model].public)
                 THEN [creation EXCEPT !.step = "channel"] ELSE Idle
  /\ UNCHANGED <<table, registry, usable, default, editor, writes, offered>>

CheckChannel ==
  /\ creation.step = "channel"
  /\ creation' = IF creation.channel \notin usable THEN Idle
                 ELSE IF creation.checked = 0 THEN [creation EXCEPT !.step = "model", !.checked = 1]
                 ELSE [creation EXCEPT !.step = "created"]
  /\ UNCHANGED <<table, registry, usable, default, editor, writes, offered>>

CreationEnds ==
  /\ creation.step = "created" /\ creation' = Idle
  /\ UNCHANGED <<table, registry, usable, default, editor, writes, offered>>

\* The copy stays empty when the table cannot be read at the start.
CatalogRestart ==
  /\ registry' \in {table, [m \in Models |-> NoModel]}
  /\ editor' = [e \in Editors |-> Idle] /\ creation' = Idle
  /\ UNCHANGED <<table, usable, default, writes, offered>>

ModelsNext ==
  \/ \E e \in Editors :
       \/ \E m \in Models : CreateLooks(e, m) \/ DeleteModel(e, m)
       \/ \E row \in Rows : CreateWrites(e, row) \/ \E m \in Models : UpdateModel(e, m, row)
       \/ ListModels(e) \/ LoadModels(e)
       \/ \E m \in Models \union {NoModel} : ValidateDefault(e, m)
       \/ SaveDefault(e)
  \/ \E k \in Channels : ChangeChannel(k)
  \/ CreateWithDefault
  \/ \E m \in Models, k \in Channels \union {NoModel} : CreateWithModel(m, k)
  \/ \E level \in BOOLEAN : CheckModel(level)
  \/ CheckChannel
  \/ CreationEnds
  \/ CatalogRestart

ModelsSpec == CatalogInit /\ [][ModelsNext]_catalogVars

-----------------------------------------------------------------------------
\* Whatever the copy says, a session is created only with a model and a channel
\* that the table offered together, enabled, while the request was served: a
\* copy that is out of date refuses sessions but never gives one a wrong channel.
SessionsFitTheTable ==
  creation.step = "created" => <<creation.model, creation.channel>> \in offered
=============================================================================
