---------------------------- MODULE SessionMemory ----------------------------
(***************************************************************************)
(* The memory card of one session: the document, the history of its         *)
(* changes, and its writers.  The user edits it in the memory panel and     *)
(* undoes its last organisation, the agent edits it through the memory      *)
(* tool, background tasks maintain it after a turn, and a maintenance run   *)
(* that the user starts organises it.  Every writer reads, thinks, and      *)
(* saves in a transaction of its own; a transaction is one step.            *)
(*                                                                         *)
(* A document is its sections in order, a section the sequence of its       *)
(* items, and its size the number of items.  One item stands for a          *)
(* credential, one for what it is replaced by.                              *)
(***************************************************************************)
EXTENDS Naturals, Sequences, FiniteSets, SequencesExt

CONSTANTS
  Facts,            \* items that may be remembered
  Secret,           \* an item that holds a credential
  Placeholder,      \* what stands for a credential
  NumSections,      \* SectionDefs; the last is do_not_remember
  MaxItems,         \* limits.MaxChars
  MaxChangeList,    \* changes kept per session
  Tasks,            \* the background maintenance tasks
  InitialStates,    \* documents and histories written by earlier versions
  MaxEvents         \* bound of the instance: what users, agents, timers begin

ASSUME SizesAssumption ==
  /\ NumSections \in Nat \ {0} /\ MaxItems \in Nat \ {0}
  /\ MaxChangeList \in Nat \ {0} /\ MaxEvents \in Nat
ASSUME ItemsAssumption == Secret # Placeholder /\ {Secret, Placeholder} \cap Facts = {}

VARIABLES
  memory,    \* session_memories: the document and updated_at (0: no row)
  changes,   \* session_memory_changes, oldest first
  session,   \* answer_selection_revision, memory_enabled, deleted_at
  page,      \* the memory panel of the user and its PUT request
  tool,      \* the memory tool of the agent at work in the session
  task,      \* the goroutines of MaintainSessionMemoryAsync
  claimed,   \* memoryAutoClaims of the session
  latest,    \* model_task_runs: starts so far, the latest start recorded, retry_after
  drain,     \* DrainMemoryTasks: "no", "draining" or "drained"
  run,       \* the maintenance run in the process
  row,       \* its row and terminal event
  applied,   \* history: how many changes the run's transactions have made
  events     \* how much of MaxEvents is spent

vars == <<memory, changes, session, page, tool, task, claimed, latest, drain,
          run, row, applied, events>>

-----------------------------------------------------------------------------
(* Documents *)

Section == 1 .. NumSections
DoNotRemember == NumSections
Item == Facts \cup {Secret, Placeholder}

Empty == [s \in Section |-> <<>>]

Size(doc) == FoldFunction(LAMBDA items, n : n + Len(items), 0, doc)

HasSecret(doc) == \E s \in Section : Secret \in Range(doc[s])

(* RedactSensitiveValues. *)
Redact(doc) ==
  [s \in Section |-> [i \in DOMAIN doc[s] |->
     IF doc[s][i] = Secret THEN Placeholder ELSE doc[s][i]]]

(* A credential in do_not_remember leaves the category only. *)
Serialize(doc) ==
  [doc EXCEPT ![DoNotRemember] = IF Secret \in Range(@) THEN <<Placeholder>> ELSE @]

(* NormalizeWithLimits: the documents that may be stored, as they are stored. *)
RejectSensitiveValues(doc) ==
  \E s \in Section \ {DoNotRemember} : Secret \in Range(doc[s])

Normalized(doc) ==
  {d \in {Serialize(doc)} : ~RejectSensitiveValues(doc) /\ Size(d) <= MaxItems}

(* memoryItems: the lines that a view shows, with their sections. *)
Lines(doc) ==
  FlattenSeq([s \in Section |-> [i \in DOMAIN doc[s] |-> <<s, i>>]])

(* The entry that a section and a line number address: the line within the   *)
(* section, or else the line of the whole card.  Section 0 is none.          *)
EntryAt(doc, s, line) ==
  LET all == Lines(doc)
  IN IF s = 0
     THEN {all[n] : n \in {line} \cap DOMAIN all}
     ELSE IF line <= Len(doc[s])
          THEN {<<s, line>>}
          ELSE {all[n] : n \in {l \in {line} \cap DOMAIN all : all[l][1] = s}}

(* The entry whose text is given, if there is only one. *)
EntryOf(doc, item) ==
  LET found == {n \in DOMAIN Lines(doc) : doc[Lines(doc)[n][1]][Lines(doc)[n][2]] = item}
  IN {Lines(doc)[n] : n \in {m \in found : Cardinality(found) = 1}}

Without(doc, entry) == [doc EXCEPT ![entry[1]] = RemoveAt(@, entry[2])]

(* What the memory tool makes of the document: the results of its actions    *)
(* add, replace, remove, clear and write over all arguments.                 *)
ToolAdded(doc) ==
  UNION {Normalized([doc EXCEPT ![s] = Append(@, x)]) :
           s \in Section, x \in {y \in Facts \cup {Secret} :
             \A t \in Section : y \notin Range(doc[t])}}

ToolReplaced(doc) ==
  UNION {Normalized([doc EXCEPT ![e[1]][e[2]] = x]) : x \in Facts \cup {Secret},
           e \in UNION {EntryAt(doc, s, n) : s \in Section \cup {0}, n \in 1 .. MaxItems}}

ToolRemoved(doc) ==
  {Serialize(Without(doc, e)) :
     e \in (UNION {EntryAt(doc, s, n) : s \in Section \cup {0}, n \in 1 .. MaxItems})
           \cup (UNION {EntryOf(doc, x) : x \in Item})}

ToolWritten == UNION {Normalized([Empty EXCEPT ![s] = <<x>>]) : s \in Section, x \in Facts \cup {Secret}}

ToolResults(doc) ==
  ToolAdded(doc) \cup ToolReplaced(doc) \cup ToolRemoved(doc) \cup ToolWritten \cup {Empty}

(* applyMemoryMaintenanceDecision for a patch of one operation: update and   *)
(* delete take the first item that matches exactly.                          *)
FirstOf(doc, s, x) == {i \in DOMAIN doc[s] : doc[s][i] = x /\ \A j \in 1 .. i - 1 : doc[s][j] # x}

Patched(doc) ==
  LET text    == Facts \cup {Secret}
      found   == UNION {{<<s, i>> : i \in FirstOf(doc, s, y)} : s \in Section, y \in Item}
      added   == {[doc EXCEPT ![s] = Append(@, x)] : s \in Section, x \in text}
      updated == {[doc EXCEPT ![e[1]][e[2]] = x] : e \in found, x \in text}
      deleted == {Without(doc, e) : e \in found}
  IN  UNION {Normalized(d) : d \in added \cup updated \cup deleted}

(* validateMemoryMaintenanceUpdate, and the result that changes nothing.     *)
Maintained(doc, mayEmpty) ==
  {d \in Patched(doc) : d # doc /\ (Size(d) = 0 => Size(doc) = 0 \/ mayEmpty)}

-----------------------------------------------------------------------------
(* State *)

Documents == [Section -> Seq(Item)]
Changes   == [source : {"manual", "undo", "tool", "auto", "compact"},
              before : Documents, after : Documents, undone : BOOLEAN]

(* Each kept change begins where the one before it ended, and the last ended *)
(* in the document, secrets aside.                                           *)
Tells(log, doc) ==
  /\ \A i \in 1 .. Len(log) - 1 : Redact(log[i].after) = Redact(log[i + 1].before)
  /\ log # <<>> => Redact(log[Len(log)].after) = Redact(doc)

(* Earlier versions saved a change with the document too.                    *)
ASSUME InitialStatesAssumption ==
  \A i \in InitialStates :
    i.content \in Documents /\ i.changes \in Seq(Changes) /\ Tells(i.changes, i.content)

NoPage == [pc |-> "closed", seen |-> Empty, stamp |-> 0, before |-> Empty, text |-> Empty]
NoTool == [pc |-> "idle", base |-> Empty, text |-> Empty]
NoTask == [pc |-> "none", kind |-> "auto", base |-> Empty, text |-> Empty,
           revision |-> 0, started |-> 0, result |-> "none"]
NoRun  == [pc |-> "none", kind |-> "compact", base |-> Empty, text |-> Empty, saves |-> FALSE,
           revision |-> 0, started |-> 0, stopped |-> FALSE, result |-> "completed",
           decided |-> "none"]
NoRow  == [status |-> "none", updated |-> FALSE]

Init ==
  /\ \E i \in InitialStates :
       /\ memory = [content |-> i.content, stamp |-> IF i.content = Empty THEN 0 ELSE 1]
       /\ changes = i.changes
  /\ session = [revision |-> 0, enabled |-> TRUE, deleted |-> FALSE]
  /\ page = NoPage /\ tool = NoTool
  /\ task = [t \in Tasks |-> NoTask] /\ claimed = FALSE
  /\ latest = [starts |-> 0, started |-> 0, cooling |-> FALSE] /\ drain = "no"
  /\ run = NoRun /\ row = NoRow /\ applied = 0
  /\ events = 0

Event    == events < MaxEvents /\ events' = events + 1
Expected == UNCHANGED events

-----------------------------------------------------------------------------
(* The transaction that saves the memory *)

(* insertSessionMemoryChange redacts what it records, and                    *)
(* pruneSessionMemoryChanges keeps the latest.                               *)
Recorded(source, before, after) ==
  LET all == Append(changes, [source |-> source, before |-> Redact(before),
                              after |-> Redact(after), undone |-> FALSE])
  IN SubSeq(all, IF Len(all) > MaxChangeList THEN Len(all) - MaxChangeList + 1 ELSE 1, Len(all))

(* upsertSessionMemory: updated_at is the time of the transaction. *)
Upserted(text) == [content |-> text, stamp |-> memory.stamp + 1]

(* What saveSessionMemoryWithChange asks before it writes: the session is    *)
(* there, the selection of answers is the one expected, and the memory is    *)
(* what the writer has read.                                                 *)
EnsureAnswerSelectionRevision(revision) == revision \in {0, session.revision + 1}

MaySave(base, text, revision) ==
  /\ ~session.deleted /\ EnsureAnswerSelectionRevision(revision)
  /\ memory.content = base
  /\ Normalized(text) # {}

(* Saving what is there already makes the row, if there is none, and no      *)
(* change.                                                                   *)
Saved(source, text) ==
  IF memory.content = text
  THEN /\ memory' = [memory EXCEPT !.stamp = IF @ = 0 THEN 1 ELSE @]
       /\ UNCHANGED changes
  ELSE /\ memory' = Upserted(text)
       /\ changes' = Recorded(source, memory.content, text)

-----------------------------------------------------------------------------
(* The panel *)

(* GetSessionMemoryHandler: the page keeps the document and updated_at.      *)
PageLoad ==
  /\ page.pc = "closed" /\ ~session.deleted
  /\ page' = [NoPage EXCEPT !.pc = "open", !.seen = memory.content, !.stamp = memory.stamp]
  /\ Event
  /\ UNCHANGED <<memory, changes, session, tool, task, claimed, latest, drain, run, row, applied>>

(* Fault: expected_updated_at is not compared. *)
UnchangedUnasked(stamp) == TRUE

(* SaveSessionMemoryHandler up to its transaction: a request with            *)
(* expected_updated_at is refused if the row has another one, and the memory *)
(* the handler has read is what it expects to replace.                       *)
Unchanged(stamp) == stamp = 0 \/ memory.stamp = stamp

PageSubmit ==
  /\ page.pc = "open" /\ ~session.deleted
  /\ \E text \in ToolResults(page.seen) :
       IF Unchanged(page.stamp)
       THEN page' = [page EXCEPT !.pc = "save", !.before = memory.content, !.text = text]
       ELSE page' = NoPage
  /\ Expected
  /\ UNCHANGED <<memory, changes, session, tool, task, claimed, latest, drain, run, row, applied>>

(* Its transaction, which stores memory_enabled as well.                     *)
PageSave ==
  /\ page.pc = "save"
  /\ page' = NoPage
  /\ \/ /\ MaySave(page.before, page.text, 0)
        /\ Saved("manual", page.text)
        /\ \E enabled \in BOOLEAN : session' = [session EXCEPT !.enabled = enabled]
     \/ /\ ~MaySave(page.before, page.text, 0)
        /\ UNCHANGED <<memory, changes, session>>
  /\ Expected
  /\ UNCHANGED <<tool, task, claimed, latest, drain, run, row, applied>>

(* UndoChange: only a compaction, only once, only the latest change, and     *)
(* only if the memory is still what it made.                                 *)
Undoable(i) ==
  /\ changes[i].source = "compact" /\ ~changes[i].undone
  /\ i = Len(changes)
  /\ memory.content = changes[i].after

Restored(i) == Redact(changes[i].before)

(* Fault: an undo is only marked. *)
UndoneChangesMarked(i) == [changes EXCEPT ![i].undone = TRUE]

(* The history of an undo: the mark, and a change of its own.                *)
UndoneChanges(i) ==
  LET marked == [changes EXCEPT ![i].undone = TRUE]
      all == Append(marked, [source |-> "undo", before |-> Redact(memory.content),
                             after |-> Redact(Restored(i)), undone |-> FALSE])
  IN SubSeq(all, IF Len(all) > MaxChangeList THEN Len(all) - MaxChangeList + 1 ELSE 1, Len(all))

Undo ==
  /\ ~session.deleted
  /\ \E i \in DOMAIN changes :
       /\ Undoable(i)
       /\ memory' = Upserted(Restored(i))
       /\ changes' = UndoneChanges(i)
  /\ Event
  /\ UNCHANGED <<session, page, tool, task, claimed, latest, drain, run, row, applied>>

(* The switch of the panel is a change of the session only.                  *)
ToggleMemory ==
  /\ ~session.deleted
  /\ session' = [session EXCEPT !.enabled = ~@]
  /\ Event
  /\ UNCHANGED <<memory, changes, page, tool, task, claimed, latest, drain, run, row, applied>>

-----------------------------------------------------------------------------
(* The memory tool *)

(* An action reads the card and computes its text from what it read ...      *)
ToolEdit ==
  /\ tool.pc = "idle" /\ ~session.deleted
  /\ \E text \in ToolResults(memory.content) :
       tool' = [pc |-> "save", base |-> memory.content, text |-> text]
  /\ Event
  /\ UNCHANGED <<memory, changes, session, page, task, claimed, latest, drain, run, row, applied>>

(* ... and CompareAndSetWithChange saves it, or tells the model that the     *)
(* memory changed.                                                           *)
ToolSave ==
  /\ tool.pc = "save"
  /\ tool' = NoTool
  /\ \/ MaySave(tool.base, tool.text, 0) /\ Saved("tool", tool.text)
     \/ ~MaySave(tool.base, tool.text, 0) /\ UNCHANGED <<memory, changes>>
  /\ Expected
  /\ UNCHANGED <<session, page, task, claimed, latest, drain, run, row, applied>>

-----------------------------------------------------------------------------
(* Background maintenance *)

Active(t) == task[t].pc # "none"

(* startMemoryBackgroundTask. *)
MayStart == drain = "no"

(* What a turn that ended well leaves to do, and the selection of another    *)
(* answer, if the session still has its memory on.                           *)
TriggerKinds == {k \in {"auto", "explicit"} : session.enabled /\ ~session.deleted}

Selected == {k \in {"selection"} : session.enabled /\ ~session.deleted}

(* MaintainSessionMemoryAsync after a turn ("auto"), after a turn in which   *)
(* the user asked to remember ("explicit"), and after another answer was     *)
(* selected ("selection").  Only the first needs the claim of the session.   *)
TaskBegin(t) ==
  /\ ~Active(t) /\ MayStart
  /\ \E kind \in TriggerKinds \cup Selected :
       /\ kind = "auto" => ~claimed
       /\ claimed' = (claimed \/ kind = "auto")
       /\ task' = [task EXCEPT ![t] =
            [NoTask EXCEPT !.pc = "start", !.kind = kind, !.revision = session.revision + 1]]
  /\ Event
  /\ UNCHANGED <<memory, changes, session, page, tool, latest, drain, run, row, applied>>

(* runMemoryMaintenance looks at the cooldown, unless an answer was selected *)
TaskStart(t) ==
  /\ task[t].pc = "start"
  /\ IF drain # "no" \/ (latest.cooling /\ task[t].kind # "selection")
     THEN task' = [task EXCEPT ![t].pc = "done"] /\ UNCHANGED latest
     ELSE /\ latest' = [latest EXCEPT !.starts = @ + 1]
          /\ task' = [task EXCEPT ![t].pc = "read", ![t].started = latest.starts + 1]
  /\ Expected
  /\ UNCHANGED <<memory, changes, session, page, tool, claimed, drain, run, row, applied>>

(* From here on only the result of the attempt counts. *)
Attempted(t, result) ==
  task' = [task EXCEPT ![t] = [@ EXCEPT !.pc = "record", !.result = result, !.base = Empty, !.text = Empty]]

(* ... reads the card (a canceled read fails) ...                            *)
TaskRead(t) ==
  /\ task[t].pc = "read"
  /\ IF drain = "no"
     THEN task' = [task EXCEPT ![t].pc = "think", ![t].base = memory.content]
     ELSE Attempted(t, "failed")
  /\ Expected
  /\ UNCHANGED <<memory, changes, session, page, tool, claimed, latest, drain, run, row, applied>>

(* What the model may answer instead of a patch. *)
WithoutPatch == {"failed", "skipped"}

(* ... asks the model for a patch of the redacted card, which may fail, be   *)
(* invalid, change nothing or be saved; a turn that asked to forget may empty *)
(* the card ...                                                              *)
TaskThink(t) ==
  /\ task[t].pc = "think"
  /\ \/ \E result \in WithoutPatch : Attempted(t, result)
     \/ \E forget \in BOOLEAN : \E text \in Maintained(Redact(task[t].base), forget) :
            task' = [task EXCEPT ![t].pc = "save", ![t].text = text]
  /\ Expected
  /\ UNCHANGED <<memory, changes, session, page, tool, claimed, latest, drain, run, row, applied>>

(* ... saves what the model made of it ...                                   *)
TaskSave(t) ==
  /\ task[t].pc = "save"
  /\ \/ /\ drain = "no" /\ MaySave(task[t].base, task[t].text, task[t].revision)
        /\ Saved("auto", task[t].text)
        /\ Attempted(t, "success")
     \/ /\ ~MaySave(task[t].base, task[t].text, task[t].revision) \/ drain # "no"
        /\ UNCHANGED <<memory, changes>>
        /\ Attempted(t, IF drain = "no" /\ ~session.deleted THEN "skipped" ELSE "failed")
  /\ Expected
  /\ UNCHANGED <<session, page, tool, claimed, latest, drain, run, row, applied>>

(* ... and records the attempt.  Cooldown is what the attempt that started   *)
(* last says.  After a cancellation there is nobody to write the record.     *)
RecordedRun(started, cooling) ==
  IF started >= latest.started
  THEN [latest EXCEPT !.started = started, !.cooling = cooling] ELSE latest

TaskRecord(t) ==
  /\ task[t].pc = "record"
  /\ task' = [task EXCEPT ![t].pc = "done"]
  /\ \/ drain = "no" /\ latest' = RecordedRun(task[t].started, task[t].result = "failed")
     \/ drain # "no" /\ UNCHANGED latest
  /\ Expected
  /\ UNCHANGED <<memory, changes, session, page, tool, claimed, drain, run, row, applied>>

TaskEnd(t) ==
  /\ task[t].pc = "done"
  /\ task' = [task EXCEPT ![t] = NoTask]
  /\ claimed' = (claimed /\ task[t].kind # "auto")
  /\ Expected
  /\ UNCHANGED <<memory, changes, session, page, tool, latest, drain, run, row, applied>>

(* retry_after passes. *)
CooldownEnds ==
  /\ latest.cooling
  /\ latest' = [latest EXCEPT !.cooling = FALSE]
  /\ Expected
  /\ UNCHANGED <<memory, changes, session, page, tool, task, claimed, drain, run, row, applied>>

(* DrainMemoryTasks closes the door and cancels the tasks, and returns when  *)
(* they are gone, or with nothing to say when its time is over.              *)
BeginDrain ==
  /\ drain = "no" /\ drain' = "draining"
  /\ Event
  /\ UNCHANGED <<memory, changes, session, page, tool, task, claimed, latest, run, row, applied>>

Drained ==
  /\ drain = "draining" /\ \A t \in Tasks : ~Active(t)
  /\ drain' = "drained"
  /\ Expected
  /\ UNCHANGED <<memory, changes, session, page, tool, task, claimed, latest, run, row, applied>>

-----------------------------------------------------------------------------
(* The maintenance run of the user: compact or retry *)

RunOver == run' = [NoRun EXCEPT !.pc = "end"]

(* Admission is RunLifecycle's; a retry is refused if the memory is off.     *)
RunAdmit ==
  /\ run.pc = "none" /\ row.status # "running" /\ ~session.deleted
  /\ \E kind \in {"compact", "retry"} :
       /\ kind = "retry" => session.enabled
       /\ run' = [NoRun EXCEPT !.pc = "setup", !.kind = kind]
  /\ row' = [NoRow EXCEPT !.status = "running"] /\ applied' = 0
  /\ Event
  /\ UNCHANGED <<memory, changes, session, page, tool, task, claimed, latest, drain>>

(* latestMemoryRetryUserText, of a conversation that may have none.          *)
RetryNeedsMessage(found) == run.kind = "retry" => found /\ session.enabled

(* The handler reads the session and, to retry, the last message of the      *)
(* user, and ends the run if that fails or the run was stopped.              *)
RunSetup ==
  /\ run.pc = "setup"
  /\ \/ /\ ~session.deleted /\ ~run.stopped /\ RetryNeedsMessage(TRUE)
        /\ latest' = [latest EXCEPT !.starts = @ + 1]
        /\ run' = [run EXCEPT !.pc = "read", !.revision = session.revision + 1,
                             !.started = latest.starts + 1]
     \/ run' = [run EXCEPT !.pc = "decide",
                          !.result = IF run.stopped THEN "canceled" ELSE "failed"]
        /\ UNCHANGED latest
  /\ Expected
  /\ UNCHANGED <<memory, changes, session, page, tool, task, claimed, drain, row, applied>>

(* runMemoryMaintenance with a PreparedResult: an empty card is not          *)
(* compacted, and what the model made of another is kept for the commit.     *)
RunRead ==
  /\ run.pc = "read"
  /\ run' = [run EXCEPT !.base = memory.content,
       !.pc = IF run.kind = "compact" /\ Size(memory.content) = 0 THEN "check" ELSE "think"]
  /\ Expected
  /\ UNCHANGED <<memory, changes, session, page, tool, task, claimed, latest, drain, row, applied>>

RunThink ==
  /\ run.pc = "think"
  /\ \/ \E result \in {"failed", "completed"} :
            run' = [run EXCEPT !.pc = "check", !.result = result]
     \/ \E forget \in {FALSE, run.kind = "retry"} :
          \E text \in Maintained(Redact(run.base), forget) :
            run' = [run EXCEPT !.pc = "check", !.text = text, !.saves = TRUE]
  /\ Expected
  /\ UNCHANGED <<memory, changes, session, page, tool, task, claimed, latest, drain, row, applied>>

(* effectiveRunCancelCause: a stopped run commits no memory ...              *)
RunCheck ==
  /\ run.pc = "check"
  /\ run' = IF run.stopped
            THEN [run EXCEPT !.pc = "decide", !.result = "canceled", !.saves = FALSE, !.text = Empty]
            ELSE [run EXCEPT !.pc = "decide"]
  /\ Expected
  /\ UNCHANGED <<memory, changes, session, page, tool, task, claimed, latest, drain, row, applied>>

(* ... and TransitionWithCommit decides: a stop that came after the check    *)
(* changes the status of the run, and nothing else.                          *)
RunDecide ==
  /\ run.pc = "decide"
  /\ run' = [run EXCEPT !.pc = "commit",
                       !.decided = IF run.stopped THEN "canceled" ELSE run.result]
  /\ Expected
  /\ UNCHANGED <<memory, changes, session, page, tool, task, claimed, latest, drain, row, applied>>

(* Fault: the save does not depend on the end of the row. *)
CommitsAgain == row.status # "none"

(* CommitMaintenanceRun: the row ends first, and only if it was running is   *)
(* the memory saved and the attempt recorded with it.                        *)
Commits == row.status = "running"

CommitRow ==
  /\ row' = [status |-> run.decided, updated |-> run.saves /\ run.decided = "completed"]
  /\ latest' = RecordedRun(run.started, FALSE)
  /\ IF run.saves
     THEN /\ MaySave(run.base, run.text, run.revision)
          /\ Saved(IF run.kind = "compact" THEN "compact" ELSE "manual", run.text)
          /\ applied' = applied + IF memory.content = run.text THEN 0 ELSE 1
     ELSE UNCHANGED <<memory, changes, applied>>

(* The commit is retried until it is answered; a commit whose answer is lost *)
(* is found done.                                                            *)
RunCommit ==
  /\ run.pc = "commit" /\ Commits /\ CommitRow
  /\ \/ RunOver
     \/ UNCHANGED run
  /\ Expected
  /\ UNCHANGED <<session, page, tool, task, claimed, drain>>

(* A save that is refused rolls the row back.  The run completes without it  *)
(* if the memory or the selected answers changed, and fails otherwise.       *)
RunRefused ==
  /\ run.pc = "commit" /\ Commits /\ run.saves
  /\ ~MaySave(run.base, run.text, run.revision)
  /\ run' = [run EXCEPT !.pc = "decide", !.saves = FALSE, !.text = Empty,
       !.result = IF session.deleted THEN "failed" ELSE "completed"]
  /\ Expected
  /\ UNCHANGED <<memory, changes, session, page, tool, task, claimed, latest, drain, row, applied>>

RunSettled ==
  /\ run.pc = "commit" /\ ~Commits
  /\ RunOver
  /\ Expected
  /\ UNCHANGED <<memory, changes, session, page, tool, task, claimed, latest, drain, row, applied>>

RunEnd ==
  /\ run.pc = "end"
  /\ run' = NoRun
  /\ Expected
  /\ UNCHANGED <<memory, changes, session, page, tool, task, claimed, latest, drain, row, applied>>

(* CancelWithCause: accepted until the outcome is decided.                   *)
Stop ==
  /\ run.pc \in {"setup", "read", "think", "check", "decide"} /\ ~run.stopped
  /\ run' = [run EXCEPT !.stopped = TRUE]
  /\ Event
  /\ UNCHANGED <<memory, changes, session, page, tool, task, claimed, latest, drain, row, applied>>

-----------------------------------------------------------------------------
(* The session and the process *)

(* Another answer of a turn is selected. *)
SelectAnswer ==
  /\ ~session.deleted
  /\ session' = [session EXCEPT !.revision = @ + 1]
  /\ Event
  /\ UNCHANGED <<memory, changes, page, tool, task, claimed, latest, drain, run, row, applied>>

(* The deletion of the session ends its running row. *)
DeleteSession ==
  /\ ~session.deleted
  /\ session' = [session EXCEPT !.deleted = TRUE]
  /\ row' = IF row.status = "running" THEN [row EXCEPT !.status = "canceled"] ELSE row
  /\ Event
  /\ UNCHANGED <<memory, changes, page, tool, task, claimed, latest, drain, run, applied>>

(* The process ends, and the startup of the next fails the row it left.      *)
Restart ==
  /\ page' = IF page.pc = "save" THEN NoPage ELSE page
  /\ tool' = NoTool /\ task' = [t \in Tasks |-> NoTask] /\ claimed' = FALSE
  /\ drain' = "no" /\ run' = NoRun
  /\ row' = IF row.status = "running" THEN [row EXCEPT !.status = "failed"] ELSE row
  /\ Event
  /\ UNCHANGED <<memory, changes, session, latest, applied>>

Background(t) == TaskStart(t) \/ TaskRead(t) \/ TaskThink(t) \/ TaskSave(t) \/ TaskRecord(t) \/ TaskEnd(t)

Next ==
  \/ PageLoad \/ PageSubmit \/ PageSave \/ Undo \/ ToggleMemory
  \/ ToolEdit \/ ToolSave
  \/ \E t \in Tasks : TaskBegin(t) \/ Background(t)
  \/ CooldownEnds \/ BeginDrain \/ Drained
  \/ RunAdmit \/ RunSetup \/ RunRead \/ RunThink \/ RunCheck \/ RunDecide
  \/ RunCommit \/ RunRefused \/ RunSettled \/ RunEnd \/ Stop
  \/ SelectAnswer \/ DeleteSession \/ Restart

Spec == Init /\ [][Next]_vars

-----------------------------------------------------------------------------
(* Properties *)

(* The history tells the memory: each kept change begins where the one       *)
(* before it ended, and the last ended in the memory, secrets aside -        *)
(* whatever writers raced and whatever was undone.                           *)
ChangesTellTheMemory == Tells(changes, memory.content)

(* A maintenance run changes the memory at most once, and exactly if it says *)
(* so - across lost commit answers, refused saves and restarts.              *)
RunRecordsItsChange ==
  /\ applied <= 1
  /\ row.status = "completed" => (row.updated <=> applied = 1)
  /\ row.status = "failed" => applied = 0

(* A maintenance run that ends as canceled, and is reported so by the panel, *)
(* has changed nothing.                                                      *)
CanceledRunChangesNothing == row.status = "canceled" => applied = 0

(* DrainMemoryTasks returns TRUE only when no background task is at work or  *)
(* ever will be in this process.                                             *)
NothingAfterDrain == drain = "drained" => \A t \in Tasks : ~Active(t)

(* Maintenance is accounted for, whether a run of its own or a background     *)
(* task, and whoever stops the process.                                       *)
MaintenanceIsAccounted == RunRecordsItsChange /\ NothingAfterDrain

(* No writer stores a credential, whatever an older version left in the      *)
(* card and in the history.                                                  *)
SecretsAreNeverSaved ==
  [][memory'.content # memory.content => ~HasSecret(memory'.content)]_vars

(* A panel that knows what the memory was replaces no other: between the     *)
(* load and the save of a page nobody else changed it.                       *)
PageOverwritesOnlyWhatItShowed ==
  [][page.pc = "save" /\ page.stamp # 0 /\ memory'.content # memory.content /\ page'.pc = "closed"
       => memory.content = page.seen]_vars

(* What a write may never do, whoever of the writers makes it.                *)
WritesAreGuarded == SecretsAreNeverSaved /\ PageOverwritesOnlyWhatItShowed
=============================================================================
