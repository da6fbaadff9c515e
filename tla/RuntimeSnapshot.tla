--------------------------- MODULE RuntimeSnapshot ---------------------------
(***************************************************************************)
(* What a run is accepted with: model, channel, prompt template, memory,   *)
(* tools, services and settings, read one after the other while others     *)
(* change them.  The run starts after a queue and a lock; it reads them     *)
(* all again, and is refused unless it finds what it was accepted with.    *)
(* Settings that only decide whether pages are refined are policies: the    *)
(* process keeps the last value of each that any request has parsed, and a  *)
(* reading that fails uses that one and says so.                            *)
(***************************************************************************)
EXTENDS Naturals, Sequences, FiniteSets

CONSTANTS
  ReadingOrder, \* the things read, in the order they are read
  Optional,     \* those a run may do without
  Policies,     \* extract_summary_enabled, extract_summary_model
  Unreadable,   \* what stands for one that could not be read
  MaxRevision   \* bounds the changes of each

Dependencies == {ReadingOrder[i] : i \in DOMAIN ReadingOrder}
ASSUME SnapshotAssumption ==
  /\ ReadingOrder \in Seq(Dependencies) /\ Optional \subseteq Dependencies
  /\ Policies \subseteq Dependencies
  /\ Unreadable \notin Nat /\ MaxRevision \in Nat

VARIABLES
  revision, \* of each thing; every change makes a new one
  kept,     \* policyCache: of each policy the revision last parsed, if any
  start,    \* the run: its step, what it has read and was accepted with, and
            \* whether a policy of either is only what the process had kept
  moments   \* the revisions that were there together since it was accepted

snapshotVars == <<revision, kept, start, moments>>

NoStart ==
  [step |-> "none", seen |-> <<>>, stale |-> FALSE, accepted |-> <<>>, acceptedStale |-> FALSE]

SnapshotInit ==
  /\ revision = [d \in Dependencies |-> 0]
  /\ kept = [d \in Policies |-> Unreadable]
  /\ start = NoStart
  /\ moments = {}

StillReading == start.step \in {"capture", "validate"} /\ Len(start.seen) < Len(ReadingOrder)
AllRead == Len(start.seen) = Len(ReadingOrder)
NextThing == ReadingOrder[Len(start.seen) + 1]

\* A request, or the retry of one, is prepared.
CaptureBegins ==
  /\ start.step = "none"
  /\ start' = [NoStart EXCEPT !.step = "capture"]
  /\ moments' = {revision} /\ UNCHANGED <<revision, kept>>

\* A thing the run can do without is put down as unavailable when it cannot be
\* read.
Readings(d) == {revision[d]} \union (IF d \in Optional THEN {Unreadable} ELSE {})

\* Without one of the others, or once the request is over, there is no run.
ReadDependency ==
  /\ StillReading /\ NextThing \notin Policies
  /\ \/ \E value \in Readings(NextThing) : start' = [start EXCEPT !.seen = Append(@, value)]
     \/ start' = NoStart
  /\ UNCHANGED <<revision, kept, moments>>

\* One policy that is nowhere to be had leaves none: pages are not refined.
WithoutPolicies(seen) ==
  [i \in DOMAIN seen |-> IF ReadingOrder[i] \in Policies THEN Unreadable ELSE seen[i]]
HasGivenUp == \E i \in DOMAIN start.seen : ReadingOrder[i] \in Policies /\ start.seen[i] = Unreadable

\* The value parsed is kept; a query that fails, or a row that cannot be parsed,
\* falls back on what is kept.
ReadPolicy ==
  /\ StillReading /\ NextThing \in Policies
  /\ \/ /\ ~HasGivenUp
        /\ start' = [start EXCEPT !.seen = Append(@, revision[NextThing])]
        /\ kept' = [kept EXCEPT ![NextThing] = revision[NextThing]]
     \/ /\ ~HasGivenUp /\ kept[NextThing] # Unreadable
        /\ start' = [start EXCEPT !.seen = Append(@, kept[NextThing]), !.stale = TRUE]
        /\ UNCHANGED kept
     \/ /\ HasGivenUp \/ kept[NextThing] = Unreadable
        /\ start' = [start EXCEPT !.seen = Append(WithoutPolicies(@), Unreadable), !.stale = FALSE]
        /\ UNCHANGED kept
     \/ start' = NoStart /\ UNCHANGED kept
  /\ UNCHANGED <<revision, moments>>

\* The row of the run keeps it, if the run is admitted.
Admit ==
  /\ start.step = "capture" /\ AllRead
  /\ start' \in {NoStart, [NoStart EXCEPT !.step = "admitted", !.accepted = start.seen,
                                          !.acceptedStale = start.stale]}
  /\ UNCHANGED <<revision, kept, moments>>

ValidateBegins ==
  /\ start.step = "admitted" /\ start' = [start EXCEPT !.step = "validate"]
  /\ UNCHANGED <<revision, kept, moments>>

\* The checksum over all that was read is compared, not only that both parse.
ParsesAsAccepted(run) == Len(run.seen) = Len(run.accepted)
IsUnchanged(run) == run.seen = run.accepted /\ run.stale = run.acceptedStale

\* The run goes on with the copies it has just read, not with the things.
ValidateEnds ==
  /\ start.step = "validate" /\ AllRead
  /\ start' = IF IsUnchanged(start) THEN [start EXCEPT !.step = "running"] ELSE NoStart
  /\ UNCHANGED <<revision, kept, moments>>

RunEnds == start.step = "running" /\ start' = NoStart /\ UNCHANGED <<revision, kept, moments>>

\* An administrator, the user, or the task that keeps the memory.  What is
\* compared are checksums of contents: a change that puts an older content back
\* would go unnoticed, and is left out.
ChangeDependency(d) ==
  /\ revision[d] < MaxRevision
  /\ revision' = [revision EXCEPT ![d] = @ + 1]
  /\ moments' = IF start.step = "none" THEN moments ELSE moments \union {revision'}
  /\ UNCHANGED <<kept, start>>

\* Any other request of the process parses a policy: one that has asked before
\* the latest changes may keep its answer after them.
ReadElsewhere(d) ==
  /\ \E value \in 0..revision[d] : kept' = [kept EXCEPT ![d] = value]
  /\ UNCHANGED <<revision, start, moments>>

\* The run and what was kept are gone with the process.
SnapshotRestart ==
  /\ start' = NoStart /\ kept' = [d \in Policies |-> Unreadable]
  /\ UNCHANGED <<revision, moments>>

SnapshotNext ==
  \/ CaptureBegins \/ ReadDependency \/ ReadPolicy \/ Admit \/ ValidateBegins \/ ValidateEnds \/ RunEnds
  \/ \E d \in Dependencies : ChangeDependency(d)
  \/ \E d \in Policies : ReadElsewhere(d)
  \/ SnapshotRestart

SnapshotSpec == SnapshotInit /\ [][SnapshotNext]_snapshotVars

-----------------------------------------------------------------------------
\* A run uses what was there together at one moment since it was accepted,
\* save for what it does without, though both readings take many queries
\* between which anything may change.  Only policies may be from before that
\* moment, never from after it, and then the run is marked for it: it was
\* accepted with what the process had kept.
RunUsesOneMoment ==
  start.step = "running" =>
    \E m \in moments : \A i \in DOMAIN ReadingOrder :
      \/ start.seen[i] \in {m[ReadingOrder[i]], Unreadable}
      \/ ReadingOrder[i] \in Policies /\ start.stale /\ start.seen[i] <= m[ReadingOrder[i]]
=============================================================================
