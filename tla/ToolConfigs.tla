----------------------------- MODULE ToolConfigs -----------------------------
(***************************************************************************)
(* The governed configuration of the tools.  The migrations seed one row   *)
(* for every tool of the built-in catalog, so a save always finds a row;   *)
(* order and display name are saved and restored like the timeout.  A run  *)
(* reads all rows once, when it starts; a read that fails gives it no tool *)
(* at all rather than the defaults.                                        *)
(***************************************************************************)
EXTENDS Governance, Integers, FiniteSets

CONSTANTS
  Tools,         \* keys of the catalog
  Timeouts,      \* timeouts a request may name, in seconds
  MaxToolEvents  \* bounds the history

ASSUME TimeoutsAssumption == Timeouts \subseteq Int

VARIABLES
  config,    \* the row of each tool
  toolLog,   \* its events
  snapshot   \* the configuration the newest run works with

toolVars == <<config, toolLog, snapshot>>

DefaultTimeout == 20
MaxTimeout == 120

\* A timeout of zero or less is the default; a longer one is cut.
NormalizedTimeout(seconds) ==
  IF seconds <= 0 THEN DefaultTimeout ELSE IF seconds > MaxTimeout THEN MaxTimeout ELSE seconds

Saved(enabled, seconds) == [enabled |-> enabled, timeout |-> NormalizedTimeout(seconds)]

ToolsInit ==
  /\ config = [t \in Tools |-> [enabled |-> TRUE, timeout |-> DefaultTimeout]]
  /\ toolLog = <<>>
  /\ snapshot = [t \in Tools |-> [enabled |-> FALSE, timeout |-> DefaultTimeout]]

\* Save and audit in one transaction, under the lock of the row.
SaveTool(t, enabled, seconds) ==
  /\ Len(toolLog) < MaxToolEvents
  /\ config' = [config EXCEPT ![t] = Saved(enabled, seconds)]
  /\ toolLog' = Append(toolLog, Event(t, "update", config[t], config'[t], 0))
  /\ UNCHANGED snapshot

\* The newest decision only; a rollback can be rolled back in its turn.
MayReverse(i) == ~AlreadyRolledBack(toolLog, i) /\ config[toolLog[i].key] = toolLog[i].after

RollbackTool(i) ==
  LET source == toolLog[i] IN
  /\ Len(toolLog) < MaxToolEvents
  /\ MayReverse(i)
  /\ config' = [config EXCEPT ![source.key] = source.before]
  /\ toolLog' = Append(toolLog, Event(source.key, "rollback", config[source.key], source.before, i))
  /\ UNCHANGED snapshot

\* What a run starts with.
Unavailable == [t \in Tools |-> [enabled |-> FALSE, timeout |-> DefaultTimeout]]
ResolveTools == snapshot' \in {config, Unavailable} /\ UNCHANGED <<config, toolLog>>

ToolsNext ==
  \/ \E t \in Tools, enabled \in BOOLEAN, seconds \in Timeouts : SaveTool(t, enabled, seconds)
  \/ \E i \in DOMAIN toolLog : RollbackTool(i)
  \/ ResolveTools

ToolsSpec == ToolsInit /\ [][ToolsNext]_toolVars

-----------------------------------------------------------------------------
\* A state is restored and described whole.
IsSame(after, row) == after = row

\* The log tells the whole history of every tool: each event found what the
\* one before it left, the last one left what the row has, and a rollback
\* reverses one event exactly, once.
ToolHistoryIsExact ==
  /\ \A t \in Tools : IsChained(toolLog, t, IsSame) /\ Describes(toolLog, t, config[t], IsSame)
  /\ ReversesOnce(toolLog)
=============================================================================
