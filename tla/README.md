# EffChat in TLA+

Specifications of the parts of EffChat where order matters: how a chat run is
admitted, executed, stopped and recorded; how its events reach browsers that
come and go; what the agent does with a stream that fails halfway and with tools
that run side by side; how a session keeps one selected answer per turn, one
checkpoint and one memory; how accounts, uploads, skills and settings survive
requests that race and commits that are lost. Each module is checked by TLC on
small instances. Most of their safety is proved with TLAPS as well, for any
number of runs, sessions, events, messages, files, calls, accounts and settings.
Paths below are relative to `src/backend/internal/` unless they
start with `src/`.

Contents: [inventory](#1-inventory) ·
[modules and code](#2-modules-and-the-code-they-model) · [runs](#3-runs) ·
[bounds](#4-bounds) · [fairness](#5-fairness) · [proofs](#6-proofs) ·
[findings](#7-where-code-and-documents-disagree) ·
[left out](#8-what-is-not-modelled) · [plan](#9-plan)

## 1. Inventory

EffChat is one Go process (`src/backend`), a Postgres database, a Python
sidecar that extracts text from files (`src/py-extractor`), and a React page
(`src/frontend`). A message takes this way (`src/ARCHITECTURE.md:98`): the page
invents a run id and posts the message; the handler reads everything the run
depends on, reserves the run in the in-memory hub, then admits it in one
transaction that checks account, session and quotas and stores the message and
the run's row; a worker reads the dependencies again, runs the agent and records
its events in the hub; subscribers forward the events to pages as SSE; a
finalizer stores the answer and the end of the row in one transaction, and only
then publishes the terminal event. Title and memory tasks start afterwards.

| Component | State it keeps | Operations | What is hard | What makes it correct |
|---|---|---|---|---|
| **Run lifecycle** (`service/run_hub.go`, `service/run_terminal.go`, `handler/stream_handler.go`, `handler/stream_run_handler.go`, `repository/chat_run_repository.go`, `cmd/server/main.go`, `agent/runtime_snapshot.go`) | hub state of each run, `transitionMu`, row in `chat_run_reservations` with the snapshot of its dependencies | reserve, admit, validate, execute, stop, time out, cancel by account or session, finalize, drain, reconcile, expire | three finalizers and two cancelling transactions race; commits whose answer is lost; crash between row and hub; drain deadlines; dependencies read one by one | one running row per session; hub and row end alike; an acknowledged stop wins; the answer stored once; every run ends; a run works with one moment's configuration |
| **Run event stream** (`service/run_hub.go`, `handler/run_handler.go`) | log bounded in bytes, replay position, a bounded channel per subscriber | record, trim, subscribe, resume, replay, forward, close | slow or absent clients; events dropped from full channels; resume from a trimmed cursor | nothing missed in silence; a finished stream has the end |
| **Answers, history, checkpoints** (`repository/answer_attempt_repository.go`, `repository/message_repository.go`, `repository/chat_run_admission_repository.go`, `service/message_service.go`, `agent/eino_compact.go`) | messages, attempts with one selected per turn, selection revision, checkpoints and what they compress | send, retry, edit, finish, select, delete, compact, undo, derive | switches between the steps of runs and jobs; two orders of a checkpoint (by row, by boundary) | one selected attempt; answers kept; one active checkpoint; the agent has each shown answer or its summary |
| **Model calls** (`agent/model_retry.go`, `agent/eino_stream.go`, `agent/eino_agent.go`, `modelstream/`) | attempts, first-output gate, chunks on the wire, text held back | call, retry, collect, split, show, store | a retry after output; a timer beside a chunk; parallel compression and maintenance | shown is stored; output is never repeated; a silent run ends |
| **Tool budget, quotas, usage** (`agent/tool_budget.go`, `agent/tool_governance.go`, `repository/quota_repository.go`, `usage/`) | grants of a run, reserved rows of the day, usage rows | reserve, execute, settle, record | parallel calls at a limit; midnight; crash between reservation and outcome | no leak of budget; limits of the day hold; statistics add up |
| **Session memory** (`repository/session_memory_repository.go`, `service/session_memory_service.go`, `agent/memory_maintenance.go`, `handler/memory_stream_handler.go`) | the card, its changes, undo history, task records, maintenance runs | save with change, undo, tool edit, background task, maintenance run, drain | four writers against a moved base; a lost commit; drain | history tells the card; a run changes it once and says so; no write over what was not shown |
| **Files and OCR** (`handler/file_ocr_recovery.go`, `repository/file_repository.go`, `handler/file_handler.go`) | row of the file with its job, lease and generation; original and sidecars on disk | queue, claim, submit, poll, complete, retry, delete, clean up | an overrun worker that finishes late; a crash around submission or rename; cleanup beside workers | submitted once per request; one winner, whose text is on disk; ended jobs stay ended; every job ends |
| **Accounts** (`service/auth_service.go`, `service/user_admin_service.go`, `repository/user_repository.go`, `handler/auth_rate_limiter.go`, `handler/avatar_handler.go`, `service/user_group_service.go`) | rows with `auth_version`, failure windows, groups, avatars | register, sign in, change password, disable, demote, limit, assign, upload | requests that carry a row read earlier; in-doubt commits | no session outlives a change; one owner; bounded failures; one group for all; rows and files agree |
| **Titles** (`service/title_service.go`) | claim and cooldown per session | generate, drain | tasks beside renames, switches and deletions | no title the user gave is replaced; made of the selected answers |
| **Skills and tools** (`service/skill_service.go`, `service/skill_update.go`, `repository/skill_governance_repository.go`, `service/tool_config_service.go`) | packages on disk, rows, import records, governance events | create, import, update, delete, roll back, sweep | disk and database in two steps; rollback beside updates | every package named has its files; history is exact |
| **Configuration, models, services** (`repository/config_repository.go`, `service/model_service.go`, `modelbank/`, `service/channel_service.go`, `repository/channel_repository.go`) | settings, cached policy, model table and registry, order of services | save, read, reload, select, reorder | failing reads; a stale registry; reorders | a policy was shown; sessions fit the table; no shared place |
| **Prompts, fonts** (`repository/prompt_repository.go`, `handler/font_handler.go`) | prompts with a copied group name; selected fonts and files | patch, rename, delete; upload, select, remove | row locks between two tables | copies follow; what is selected can be shown |
| **Web tools** (`tool/web_search.go`, `tool/web_extract.go`, `agent/extract_summarizer.go`) | chain of services, refiner with slots and breaker | search, read, refine | shared time budget; an outage in a batch | results say what happened |
| **Chat frontend** (`src/frontend/src/hooks/useSSE.ts`, `src/frontend/src/lib/runReconciliation.ts`) | streams, pending runs | send, resume, reconcile | late events of another session | a page ends up with the durable history |
| Provider adapters | — | wire conversion | — | — |

**Interactions.** The handler calls the hub and the admission transaction under
`transitionMu`; the worker calls the hub to record events and to end the run;
account changes and session deletions commit first and tell the hub afterwards;
`main.go` calls the hub to drain and the database to reconcile. Streams read
the log of the hub. The agent's loop produces what the finalizer stores; its tools
reserve and settle rows that the admission of the next run counts. Runs of kind
chat end in the attempt of their turn (`finishAnswerAttemptTx`), runs of kind
compaction in a checkpoint; switches and deletions of answers, undo, memory and
title jobs ask for no run and share only the session's row lock and
`answer_selection_revision` with them. OCR workers, retries and the cleanup meet
in the rows of table `files` and on disk. A changed account ends its chats in
the transaction that changes it. The catalog is read by runs at their start
(`RuntimeSnapshot`) and by the creation of sessions (`ModelCatalog`).

The hazards of this code, at their lines, are listed in `PROJECT.json`, each
with the properties that would catch it.

## 2. Modules and the code they model

| Module | Models | Refines, composes, is checked in |
|---|---|---|
| `RunLedger` | the contract of `chat_run_reservations`: a run enters once, ends once together with its answer, a deleted session ends its run and no other | abstract |
| `RunLifecycle` | hub, handler, worker, finalizers, cancellations, drain, crash, restart, expiry | implements `RunLedger` with `ledger <- row, open <- Sessions \ deleted`; `MCRunLifecycle`, `MCRunHub` |
| `RuntimeSnapshot` | what a run is accepted with and validates before it works | `MCRunHub` |
| `RunStream` | the event log of one run, subscribers and SSE handlers | its `Terminate` is the publication in `RunLifecycle`; `MCRunStream`, `MCRunHub` |
| `AnswerHistory` | messages, attempts, checkpoints and derived writes of one session | its single `work` is what `OneLiveRunPerSession` shows; `MCAnswerHistory`, `MCConversation` |
| `SessionMemory` | the memory card, its history and its four writers | `MCSessionMemory`, `MCConversation` |
| `AgentLoop` | one run of the agent: attempts, stream, turns, end | `MCAgentLoop` |
| `ToolCalls` | tool budget, governance, daily quota, usage | `MCToolCalls` |
| `OcrJob` | job rows of uploads, their workers, files on disk, retry, deletion, cleanup | `MCOcrJob` |
| `Accounts`, `AuthLimiter`, `UserGroups`, `Avatars` | accounts and what belongs to them | `MCAccess` |
| `SessionTitles` | title tasks of a session | `MCAccess` |
| `WebTools` | searches and page reads of a run | `MCAccess` |
| `SkillPackages`, `ToolConfigs`, with the operators of `Governance` | skills and tools under an audit log | `MCCatalog` |
| `ConfigPolicy`, `ModelCatalog`, `ServiceOrder` | settings, models, services | `MCCatalog` |
| `Prompts`, `Fonts` | prompts with groups; fonts with files | `MCCatalog` |
| `RunLifecycle_proofs` | theorems about runs, and that they implement `RunLedger` | |
| `OneRun_proofs` | theorems about `RunStream`, `RuntimeSnapshot` and `AgentLoop` | |
| `Conversation_proofs` | theorems about `AnswerHistory` and `SessionMemory` | |
| `OcrJob_proofs`, `ToolCalls_proofs` | theorems about their modules | |
| `Access_proofs` | theorems about the modules of `MCAccess` | |
| `Catalog_proofs` | theorems about the modules of `MCCatalog` | |
| `Counting` | lemmas: least elements, induction over numbers and subsets, functions defined by recursion, sums | |

`PROJECT.json` maps every definition to its lines. The instances `MCRunHub`,
`MCConversation`, `MCAccess` and `MCCatalog` each take several modules that share
no variable: a behaviour picks one (`part`) and moves only that, so the state
space is the sum of the parts and not their product.

In every module a transaction is one step, and so is one critical section of a
mutex; what lies between two of them is a separate step, so any other actor may
come in. Where a transaction waits for row locks between its statements and the
order matters (`Prompts`, `Fonts`, `ServiceOrder`, the completion of an OCR claim),
it is several steps with the locks between them. Beside some definitions stands
a faulty twin, the definition as a plausible bug would have it; its comment
begins with `Fault:` or "As it would be if". The specifications use none of them;
they show which bug each property catches.

### RunLifecycle

* `hub` is `runState`; `lock` is who holds `transitionMu`; `row` is the row
  with the number of answer batches stored with it; `handler` and `worker` are
  the program counters of the request and of `executeAgentRun`.
* `call[r][f]` is the transition that finalizer `f` (handler, worker, drain)
  has in progress, and `decided[r]` the facts its lock holder froze:
  `Freeze` decides (`Decide`, the stop wins over the result), `PersistTerminal`
  writes and takes over the canonical record if somebody else ended the row
  (`Recorded`), `Publish` shows it. `PersistAnswerLost` commits and loses the
  answer, after which the write is retried; `PersistRejected` is an error that
  is not retried.
* `NextCall` is what callers do when a transition fails: the batch falls back to
  a plain end, the deferred one gives up.
* `ChangeAccount`/`CancelByUser` and `DeleteSession`/`CancelSession` are the two
  halves of the cancellations that reach the row before the hub; `notify` is the
  window between them.
* `BeginDrain`..`Exit` are `main.go`'s shutdown, `Crash` forgets `memory`,
  `Restart` reconciles before it listens.
* `acked`, `seen` and `execs` are history: they appear in no guard.

One run id has one request in flight: the second `Start` of a known id returns
`Reused` and takes the replay path. `Reserve` makes no use of the handler's
earlier checks, which may be stale by then. `Cleanup` needs the handler and the
worker to be gone: this is the timing assumption that the ten minutes of
retention outlast both.

### RuntimeSnapshot

`ReadDependency` is one query of `captureAcceptedRuntimeSnapshot`, the same for the
acceptance and for the validation at the start of the work; `ChangeDependency` is
any writer of what was read. A query that fails ends the request, or leaves out
what the run can do without (`Readings`). The two settings that decide whether
pages are refined are read otherwise (`ReadPolicy`): `GetPolicyBoolContext` and
`GetPolicyStringContext` keep what was last parsed (`kept`), and fall back on it
when the query fails or the row cannot be parsed; without it both are given up
(`WithoutPolicies`) and refinement is off. Every other request of the process
moves what is kept (`ReadElsewhere`), also back, since a slow one may store what
it read before a change. That a policy was not read but kept is part of the
snapshot (the state `last_known_good`, here `stale`) and so of its checksum. A content is known by its revision; what the code
compares are checksums, which would not tell a content that was put back from
one that never changed. `moments` is history: the configurations there were since
the acceptance, of which the run must use one.

### RunStream

Cursors are contiguous, so the log is the sequence `kinds` and the last trimmed
cursor. `Record` appends, offers the event to each open channel and drops it
where the channel is full, then trims; `Terminate` is the publication of the
end, which closes the channels. A connection holds what its handler has in hand
(`hand`, `chan`) and what its client was given (`sent`, `announced`).
`Resume` announces a gap (`replayGapPayload`), `Replay` does not. `LastLook` is
the final read of the log after the channel was closed. An event weighs one
unit: trimming depends on the sum only, and the sequences of trims are the
same as with bytes up to how many events one append pushes out.

### AnswerHistory

A message id is its position in `messages`; a batch of assistant and tool
messages is one `answer`, an ephemeral error notice an `error`, a checkpoint a
`summary` that remembers, for the properties only, which messages it was
written `of`. `Listed` is the list of the retry and edit transactions,
`AgentView` that of `listForAgentContext`, with the logical place of a
checkpoint (`Place`) and the user message that goes with an error notice
(`DroppedWithError`). A compaction reads the session, reads the messages and
commits in three steps; a derived job likewise. `Current` is
`ensureAnswerSelectionRevision`.

### SessionMemory

A document is a sequence of sections of items; one item stands for a credential.
`Saved` is `saveSessionMemoryWithChange`, with the check of `updated_at` and of the
selection revision (`MaySave`), the redaction of what an older version left in
the card, the change recorded (`Recorded`) and the pruning of the history. Its
callers read, think and save in steps of their own: the panel (`PageLoad`,
`PageSubmit`, `PageSave`), the agent's tool (`ToolEdit`, `ToolSave`), a background
task (`TaskBegin`..`TaskEnd`, with claim, cooldown and task record), and a
maintenance run (`RunAdmit`..`RunEnd`), whose row and change are one transaction
(`RunCommit`). `Undo` restores what the
latest organisation replaced, if the card is still what it made.

### AgentLoop

Two goroutines read a model's stream: the retry layer of the framework reads it
raw (`RawChunk`, `RawEnd`, `RawStops`) and the loop takes from `wire` what was left
there (`Take`, `AtEnd`). `gate` is the first-output guard, which a chunk closes when
either reader has seen output (`Observed`, through the `Chain` of middleware);
`Fire` is its timer. `Reset` takes back the last attempt's text on the client
(`DropLast`), `Respond` is what `RunPreparedChat` or `RunPreparedCompaction` makes of
the end, `Canonical` the messages it keeps, `Conclude` what `executeAgentRun`
stores. A compression runs beside maintenance (`MemoryOpen`..`JoinTasks`).
`Category` and `Transient` are the classification of errors, by status and by
kind of text. Text is a sequence of chunks, each with what the properties tell
apart: is it reasoning, is it blank, may the splitter hold it back.

### ToolCalls

`Prepare`..`Record` are the life of a call: the grant under `budgetMu`
(`Limit`, `Spent`, `Refuses`), the reserved row (`Exceeds` under the user's row lock),
the execution, and the settlement of both, or the refunds of the paths that end
earlier. `BeforeModel` closes the round: the calls are refused once the budget is
spent for good. `ByTool` and `ModelTotals` are the sums of the statistics page.
The token numbers are computed by the code's formulas from `Window`.
`Return` is in the order of the code: the result is cut to what was granted
(`Bounded`), and what is left of it is inspected (`Inspected`). An excerpt says `ok`
and `truncated` and no more, so a degraded result that was cut is recorded as a
success. 

### OcrJob

A worker is the goroutine of one claim, known by its file and the generation it
was given; `workers` is the set of those at work, so an overrun worker and its
successor are two members. Each statement on `files` is one step with the WHERE
clause it carries (`Fenced`, `Owned`, `InWork`), each operation on a file is
another. `CompleteOCRClaim` renames inside its transaction and is three steps,
`LockCompletion`, `Promote`, `CommitCompletion`, between which `lock` keeps the
other statements off the row. `disk.final[f]` is the generation whose text the
final sidecar holds, `disk.temps` the temporary sidecars by generation.

`ClaimTasks` is `recoverOnce`: stale submissions are failed, then jobs claimed
up to what the unexpired leases leave. `Start` is the call to MinerU, which may
have been taken although the answer was lost (`submitted`, history). Delays of a
retry are left to the scheduler. `RetryRead`..`RetryCompensate` are the steps of
`RetryOCRFileHandler`, `CleanExpire`..`CleanReturn` those of the cleanup with a
cutoff of a day or of hours. One cleanup is under way at a time, so its claim
token never differs, and its limit is never reached. Whether a message refers to
a file is its status `formal`; an age is `old`, more than a day.

### Accounts, AuthLimiter, UserGroups, Avatars

`Accounts`: a slot is one request being served; it carries the row it read
(`LoginRead`, `Authenticate`) to where it acts (`LoginCompare`, `ChatAdmission`,
`PasswordWrite`, `UpdateUser`). A token holds the version it was given for; its
password and role are history. `WithFields` and `WithPassword` raise the version
when role, state or password change, and the same transaction ends the account's
chats. `IsProtected` is the guard of the owner.
`AuthLimiter`: `Allow` before the service and `RecordFailure` or `Reset` after it are
two critical sections. It keeps failures by `KeyOf` the name that was typed, trimmed
and in lower case, while accounts are told apart by case and blanks; a blank name
has the key `BlankKey`, whose failures count but are never given back. `UserGroups`: each change holds one advisory lock and is one
step; the statements that move the default follow each other in it. `Avatars`:
stage, swap, clean; `SwapUnknown` is a commit in doubt, after which
`Candidates` are removed only if no row names them.

### SessionTitles, WebTools

`SessionTitles`: `Claim` after `Evaluate` is the order of the code, `AskModel` and
`StoreTitle` are apart, `MayTitle` and `ExpectedRevision` the guards of the write.
`WebTools`: `AskService` asks the next of a chain within `Budget`, `Finalize` to
`FinishRefinement` are the refinement, with `AcquireRefinement` for the slots and
`MarkUnavailable` for the breaker. What a service may answer is one operator each.

### SkillPackages, ToolConfigs

`Decide` is what a request knows before it takes the lock, `WriteNext` writes one
package to disk, `Activate` the transaction that upserts row, import record and
event. `Sweep` removes the roots that `RetainedRoots` leaves out. `Rollback` restores
what an event found if the row is still what it left. The operators `IsChained`,
`Describes` and `ReversesOnce` of `Governance` state what an exact history is for both
modules.

### ConfigPolicy, ModelCatalog, ServiceOrder, Prompts, Fonts

`ConfigPolicy`: a row may hold a value from before its rule existed or one no
parser accepts; `LastKnownGood` is the copy of what was read before.
`ModelCatalog`: a writer reloads the registry from a list it read without a lock
(`ListModels`, `LoadModels`); a session takes its channel from the registry and
checks it with the table (`CheckModel`, `CheckChannel`).
`ServiceOrder`: a save locks its kind, and its row if it is there. A reorder sees the
rows of one moment (`ReorderBegins`), locks them one by one, waiting for whoever
holds them and leaving out those deleted meanwhile (`ReorderLocks`), and only then
compares them with the keys of its request (`ReorderWrites`). `overtaken` and
`tangled` are history, see 7. What `basic` is exempted from does not arise: it is
never stored (`service/channel_service.go:338`). Channels are saved without an order.
`Prompts`: a group's name is read under a shared lock (`GroupNameForWrite`) before
the prompt that copies it is written; two writers that wait for each other end by
`Abort`, which is Postgres's deadlock detection.
`Fonts`: a selection locks the row of its font, so does every change of the font;
`RemoveFontFile` follows the transaction. An upload whose INSERT returns an error
removes its file again (`CreateFont`), also when the row is there and only the
answer was lost; `unanswered` remembers those fonts.

## 3. Runs

| Run | Question | Result |
|---|---|---|
| `RunSole` | One run under every external event but a rejected write: do hub and row agree, does an acknowledged stop win, is nothing left behind, is the ledger implemented, and does every reservation end? | yes |
| `RunRestart` | Two runs of one session, crashes, expiry, lost answers, rejected writes: one running row, known to the hub, executed at most once? Does a resumed client get or get told of every output and see the end? Does a run use what was there together at one moment? | yes |
| `HistoryAnswers` | With every operation: one selected attempt, answers kept, nothing saved from a lost selection? | yes |
| `Conversation` | Compactions, undo, retries and deletions: one active checkpoint, and every shown answer in context? Four writers of a memory, undo, drain, stop and restart: does the history tell the card, does a run change it once and say so, is nothing overwritten unseen? | yes |
| `OcrJobs` | One upload, any three interferences: submitted once per request, completed with the winner's text, never revived, always ended? | yes |
| `ToolCalls` | Parallel calls of two runs: is the budget shared without leak, do the day's limits hold, does every call end in the statistics as what it was? | yes |
| `AgentLoop` | Attempts, turns, tools, timer and stop: is what was shown stored, is output neither repeated nor cut off as silence, does a silent run end? | yes |
| `Access` | Sign-ins, password changes, administrators, failures, groups, avatars, title tasks and web reads: see the properties below | yes |
| `Catalog` | Skills, tools, settings, models, services, prompts and fonts: see the properties below | yes |
| `StreamReplay` | Is a replayed run id as honest as a resumed one? | no, see 7 |
| `HistoryEdit` | Is the context whole with edits as well? | no, see 7 |
| `MemoryStop` | Has a stopped maintenance run changed nothing? | no, see 7 |

Some properties are conjunctions of two or three that were found apart and hold
together; the parts are named and commented in their modules:

* `NoRunIsLeftBehind`: an answer is stored once, a clean drain leaves no running
  row, and a running run has a handler, a worker or a finalizer that will end it. With `StopIsHonoured` and
  `ShownOutcomeIsDurable` it is what a client relies on.
* `NothingIsMissedSilently`: `ResumeMissesNothingSilently` and
  `FinishedStreamHasTheEnd`.
* `CheckpointsAreSound`: `AtMostOneActiveCheckpoint` and `ContextIsCovered`.
* `MaintenanceIsAccounted`: `RunRecordsItsChange` and `NothingAfterDrain`;
  `WritesAreGuarded`: `SecretsAreNeverSaved` and `PageOverwritesOnlyWhatItShowed`.
* `FilesMatchRows`: `RowDescribesText` and `RemovedStaysRemoved`.
* `BudgetIsFair`: `BudgetIsKept` and `FinalMeansSpent`; `UsageIsCounted`:
  `DailyLimitsHold`, `OutcomesAreRecorded` and `StatisticsAddUp`.
* `OutputIsFinal`: `TimeoutMeansSilence` and `OutputIsNeverWithdrawn`.
* `Access`: `SessionsAreCurrent` (no session outlives the password or role it was
  given for), `RunsAreCurrent` (no chat runs for an account as it was),
  `OwnerRemains`, `AttemptsAreBounded`, `BelongingsAreKept` (`EveryoneHasOneGroup`,
  `AvatarsMatchFiles`), `TitlesFitTheTalk`, `ReadingIsHonest` (`OutageStopsTheBatch`,
  `ResultIsHonest`).
* `Catalog`: `PackagesAreKept` (a rollback finds its files), `HistoriesAreExact` (of
  skills and of tools), `PolicyWasShown`, `SessionsFitTheTable`, `ArrangementIsKept`
  (`OrderIsDecided`, `PromptsFollowTheirGroup`, `SelectionIsUsable`).

Each property of a passing run is shown to depend on the code: one definition
is changed as a bug would change it, and TLC finds the violation. For
instance `Recorded` without adopting the canonical row breaks
`HubAgreesWithRow`; `Decide` by the result alone breaks `StopIsHonoured`;
`Reconciled` doing nothing breaks `LiveRowIsInHub` and `LedgerSpec`;
`TakesOver` for any end of a retry breaks `AnswerIsKept`; `Claimable` blind to
the receipt of a submission breaks `SubmittedOncePerRequest`; `Commits` whatever
became of the row breaks `MaintenanceIsAccounted`; `Chain` with the maintenance
inside the run's guard breaks `SilentRunsEnd`; `TokenFor` with the version of the
moment instead of the row compared breaks `SessionsAreCurrent`; a sweep that
keeps only the active packages breaks `PackagesAreKept`.

`Conversation` leaves out edits and switches because of the counterexamples
of 7: within its operations the context is whole. All runs but `RunSole`,
`RunRestart` and `StreamReplay` set `CHECK_DEADLOCK FALSE`: there the system comes to
rest when users do nothing more.

## 4. Bounds

* `RunLifecycle` needs no bound: one or two runs, whose states are finite. Two
  runs suffice for one session because every conflict (reservation,
  reconciliation, deletion) is between two runs; the theorems of 6 hold for any
  number. Events are switched on per run of TLC to keep two runs tractable; with
  one run all are on together, except a rejected write, which liveness excludes.
* `RuntimeSnapshot`: four things read, one of them optional and two of them policies,
  each changed once, before, between or after two readings, with a restart of the
  process and other readers of the policies at any time; the theorem has no bound.
* `RunStream`: `MaxOutputs = 6` against `LogLimit = 3` trims before, between and
  after two resumes; `Capacity = 1` fills at the second event. One connection is
  enough: connections share only the log, which none of them changes.
* `AnswerHistory`: `MaxMessages`, `MaxAttempts` and `MaxRevision` bound what is
  stored, and a run starts only if what it will store fits. Five messages and
  four attempts hold two turns, a checkpoint and retries of both; seven messages
  and three attempts hold a second checkpoint over the first, and its undo. `MaxRevision` stops
  switches only. Without edits and switches, eight messages and five attempts
  were explored to twenty million states as well without another outcome.
* `SessionMemory`: two sections and two items, a history of two changes, so that
  the third is pruned; `MaxEvents = 3` is what users, runs and restarts may do beside
  the writers' own steps. The initial states include a card with a credential
  from an older version, and a history that ends in it.
* `OcrJob`: `MaxEvents = 3` is one budget for everything that interferes with a
  job that would go well, so any three of them meet in any order, at any step.
  `MaxAttempts = 2` has a last attempt and one that is not. One file: files meet
  only in the count of leases, and the cap on that count is not checked.
* `AgentLoop`: two turns of two chunks, one retry, one cancellation. A third chunk
  or retry repeats the second. The errors are one of each kind the classification
  tells apart.
* `ToolCalls`: a window of 4096 tokens whose budget holds one full result, so the
  second of three parallel calls meets what the first holds; a limit of one call a
  day; one disturbance.
* `Access`: two accounts, two requests at a time, three changes; two requests at
  the limiter with two failures allowed, from one source, for sources share nothing
  but an administrator's reset, and with four names, two of which have one key and
  one of which is blank; three groups, two members; two uploads
  for two owners; two title tasks; three calls for two slots of the refiner.
* `Catalog`: one skill with two packages and three events; two tools and four
  events; a setting of each kind; two editors of one model with two channels;
  three services, two saves and two reorders at a time and six changes, enough to
  overtake a reorder in either way and to see a place given twice then;
  two prompts in two groups, two writers; two fonts.

## 5. Fairness

`RunLifecycle!Fairness`: weak fairness of the steps of handlers, workers,
finalizers, notifications, drain and restart. The Go scheduler runs every
goroutine that can proceed; a terminal write is retried until it succeeds or is
rejected for good (`persistFrozenRunTerminal`), so Postgres answers in the end;
a generation ends because contexts and provider timeouts end it; a stopped
process is started again by its supervisor. No client action, timer, crash or
lost answer is fair, so none is needed for progress. `RunSole` leaves out the
event `reject`: a plain write rejected for good does strand its row until the
next restart.

`MCRunHub!HubFairness`: handlers forward, and the run ends (`ReservationsEnd`). No
client has to connect or to stay.

`AgentLoop!Fairness`: the loop, the tools and the canceled readers go on, and the
timer fires. No provider owes a chunk or an end: `SilentRunsEnd` says that the
timer is enough, also while the maintenance beside a compression talks.

`OcrJob!FairSpec`: weak fairness of the workers' steps, of the loop and of the
running out of a lease. Workers are bounded by the timeouts of their calls,
`OCRRecoveryRunner` wakes by a ticker, and a lease runs out by the clock.
`JobsEnd` needs that interferences stop, which their budget says, and that
MinerU stays configured.

The other modules have no liveness: their users owe nothing.

## 6. Proofs

Every theorem holds for all values of the constants that satisfy the assumptions
named in the modules; `MaxEvents` and the like may be any number. The assumptions
are what the code has by itself (a session has one user, a limit is positive) or
say that a set is finite where something is counted: the attempts of a window, the
calls of the day, the services of a kind.

`TypeOK` alone is inductive only in the simpler modules. Each theorem below rests
on one inductive invariant, whose named parts are stated and commented where the
proofs begin. The proof that a step keeps it has one lemma per action or per
group of actions, and one step per part the action can disturb.

### Runs

`RunLifecycle_proofs`, for any `Runs`, `Sessions`, `Users`, `SessionOf`, `UserOf` and
`Events` that satisfy the three assumptions of `RunLifecycle`:

| Theorem | Statement |
|---|---|
| `TypeCorrect` | `Spec => []TypeOK` |
| `OneLiveRow` | `Spec => []OneLiveRunPerSession` |
| `LiveRowsAreInHub` | `Spec => []LiveRowIsInHub` |
| `HubNeverDisagrees` | `Spec => []HubAgreesWithRow` |
| `ShownOutcomesLast` | `Spec => []ShownOutcomeIsDurable` |
| `ImplementsLedger` | `Spec => Ledger!Spec` |
| `AnswersAreStoredOnce` | `Spec => []AnswersStoredOnce` |
| `StopsAreHonoured` | `Spec => []StopIsHonoured` |
| `RunsExecuteOnce` | `Spec => []ExecutedAtMostOnce` |
| `NothingIsLeftBehind` | `Spec => []NoRunIsLeftBehind` |

`TypeOK` is not inductive: a replayed admission copies the row's status into the
hub, a status of the hub only because the row has ended; `TypeInv` adds that.
The safety theorems share `HubInv`. It says that no two running runs of the hub
share a session, and of each run (`RunInv`) that

1. a finalizer past its decision, and a handler inside its admission, hold
   `transitionMu` while the run is running: nobody else decides meanwhile;
2. what a finalizer is about to publish is what the row says, if there is one;
3. a process that is down knows no run, and one that is up knows every running
   row as running;
4. an ended run of the hub has the facts of its row, and what was shown is the
   row's status.

None of 2–4 is inductive alone: the row can be ended by a cancelling
transaction between decision and write, and 2 carries the adoption of the
canonical row over that gap; 3 needs 1 to see that no admission inserts a row
for a run that was published as ended. One row per session follows from 3 with
the sole reservation, across restarts because reconciliation leaves no running
row. The proof has one step per action; `Same` says what an action must leave of
a run for the invariant to stay, so each step argues about the run it touches.

Upon `HubInv` stand four more:

* `LedgerInv` carries the refinement: rows are rows of the ledger (`RowsInv`), a row of a
  deleted session has ended once the hub is told (`NotifyInv`), what a finalizer froze
  may be written (`DecidedInv`) and is accountable (`CallsInv`). Then every step is
  a step of the ledger or stutters. That an answer is stored once is a property of
  the ledger, and comes through the refinement.
* `StopInv`: a finalizer that holds the lock has marked the run as finishing, and
  a stopped run keeps its cause while it is running, so no decision frozen
  afterwards completes it.
* `OnceInv`: a run not yet admitted has no running row and was never executed; an
  admitted one has a row and waits for its first execution; an executed one has a
  row, which is what refuses to admit its id again after a restart.
* `AttendedInv` says who owes the end of a run: the holder of a lock is somebody who
  exists (`LockIsHeld`), a finalizer in progress has its caller (`CallsHaveCallers`), the
  handler is gone only after it gave the run to the worker (`HandedOver`), and the drain
  reaches what is running (`DrainReaches`).

### Streams and snapshots

`OneRun_proofs`: `MissesNothing` is `StreamSpec => []NothingIsMissedSilently`, for any
capacity, log limit of at least three, and number of outputs. `LogInv` says that the
log is trimmed from its front, never of its newest event, and knows whether output
was lost. `ConnInv` says of a connection that what its handler has in hand is
consecutive and continues what was sent, unless the gap was announced; that the
channel ends with the newest event offered (`KnowsLast`); and that a closed one that
is empty leaves the rest to the last look.

`RunsUseOneMoment` is `SnapshotSpec => []RunUsesOneMoment`, for any sequence of things
read and any number of changes. The property says nothing of a run that is still
reading. `MomentBetween` does: when the validation begins, the present is a moment
no older than anything accepted and no newer than anything that will be read, but
for what was only kept, which is older than the present (`KeptIsPast`) and marks the
reading. Whatever agrees in both readings has the revision of that moment, or is a
policy from before it, of a run that is marked.

### The agent's loop

`OneRun_proofs` too, for any set of errors and any numbers of retries, turns, chunks and
tries, with `BoundsAssumption` alone:

| Theorem | Statement |
|---|---|
| `OutputStaysFinal` | `Spec => OutputIsFinal` |
| `WhatIsShownIsStored` | `Spec => []ShownIsStored` |

Both compare sequences, so the proof begins with what `FlattenSeq` and `Only` do. They
are recursive functions: `JoinsAgree` and `KeepsAgree` show that one more element changes
none of the values before, `SequenceInduction` carries that to every sequence, and the
rest follows by appending one element at a time: flattening and selecting commute with
concatenation (`FlattenMaps`, `OnlyConcat`), and keep the elements they should
(`FlattenElements`, `OnlyElements`). `CanonicalFacts` is what the loop needs of them:
cutting the turns into pairs of a call and its result loses nothing of what they say and
think, if every message is complete, that is, without calls, answered in part at least, or
kept as a partial one. `Spoken` and `Thought` stand for what messages say and think.

`OutputStaysFinal` rests on `LoopInv`:

1. `GuardInv`: the guard has seen output or has fired, or nothing a client could use is
   anywhere, collected, on its way, shown or in a message (`Quiet`);
2. `HeldInv`: nothing but white space is held back;
3. `EmittedInv`: the screen ends with exactly as many chunks of the attempt as the
   counters say, and an attempt marked for a retry has no output. So what a reset drops
   said nothing.

`WhatIsShownIsStored` adds

4. `CallsInv`: while a message's calls are executed it is followed by results alone and
   every message before it is complete (`AtWork`), and a chunk belongs to its turn, so
   that the results are this message's and not an earlier turn's. When all calls of the
   turn have results the messages are complete again (`ResultsComplete`). `Results` looks
   a call up anywhere; without the turns it could be answered from the past;
5. `KindInv`: a compression has no turns, and only a compression joins two tasks;
6. `ScreenInv`: the screen shows the turns so far and what the loop has of the attempt;
   once returned or stored, the messages cover the screen, and equal it unless the run
   failed or was canceled.

Each action has its lemma (`TakeSays`, `EndSays`, `FinishSays`, `ConcludeSays`, ...); the
four ways out of the loop share `BreakCovers`.

### Answers

`Conversation_proofs`, for any numbers of messages, attempts and revisions and with
any set of operations switched on, edits and switches included, except for the last,
whose hypotheses are `"edit" \notin Operations` and `"select" \notin Operations`:

| Theorem | Statement |
|---|---|
| `OneAttemptSelected` | `HistorySpec => []OneSelectedAttempt` |
| `AnswersAreKept` | `HistorySpec => AnswerIsKept` |
| `DerivedWritesFollow` | `HistorySpec => DerivedWritesFollowSelection` |
| `ContextStaysCovered` | `HistorySpec => []CheckpointsAreSound` |

`HistoryInv` is about the stored log (`LogInv`: attempts, messages and turns point at
each other, and what is compressed begins at the beginning of the log), the run at work
(`WorkInv`) and what compactions and jobs have read (`ReadInv`): it is still shown as
long as the selection revision is the one they read. The last is what makes the
commit of a derived job sound although it read steps before.

`ContextStaysCovered` needs `ContextInv` besides. A checkpoint is stored at the end of
the log but stands before the first message it keeps, so two orders have to agree:
every checkpoint but the last is compressed by a later one with a later boundary
(`FollowedBy`), everything before a boundary is compressed (`Behind`), and a checkpoint
stands for the shown answers compressed by it or by its predecessors (`KnowsShown`),
which is what makes an undo safe. The difficult part is what a checkpoint leaves out:
turns between its boundary and itself that an earlier reader could not see. They
failed and show no answer (`LeavesFailed`), and go on doing so, because an error notice
is stored right after its turn, a retry asks the last turn only (`RetriedIsLast`), and
the heir of a deleted answer belongs to a turn that showed one. `AllIsCovered` and
`PreservedIsCovered` then show that what a compaction has read stands for all that its
commit compresses (`Covers`). Both hypotheses are needed: an edit hides a
checkpoint (7.1), and a switch brings a failed turn back (7, the first of those that no
run shows), which is how the attempt to prove the theorem without them ended.

### Session memory

`Conversation_proofs` too, for any sections, items, limits, tasks and histories left by
earlier versions:

| Theorem | Statement |
|---|---|
| `HistoryTellsTheMemory` | `Spec => []ChangesTellTheMemory` |
| `MaintenanceStaysAccounted` | `Spec => []MaintenanceIsAccounted` |
| `WritesStayGuarded` | `Spec => WritesAreGuarded` |

`MemoryMoves` says what any step, of whichever writer, makes of the card: the history still
ends in it, its stamp does not fall, and rises when the content changes, which then
holds no credential. `MemoryInv` adds what the writers carry from one of their steps to
the next: a panel whose stamp is the card's shows the card (`PageFits`); what is about to
be saved is free of credentials, or has one only in the section where the transaction
refuses it (`TextsFit`); a run that will save has neither failed nor changed
anything before (`RunFits`). Most of the lemmas are about the document operators
(`Redact`, `Normalized`, the tool's edits): each returns a document, and redaction leaves
nothing to redact. A history that is pruned stays a chain, as
`Tells` asks nothing of where it begins. The only assumption on earlier versions is
`InitialStatesAssumption`: what they left is a history that ends in the document.

### Files

`OcrJob_proofs`, for any files, workers, attempts and interferences:

| Theorem | Statement |
|---|---|
| `SubmittedOnce` | `Spec => []SubmittedOncePerRequest` |
| `FilesAgree` | `Spec => []FilesMatchRows` |
| `EndedJobsStay` | `Spec => EndedStaysEnded` |

`JobsInv` speaks of each file (`JobInv`), for a step of one touches no other: what a worker
of a generation may still do (`WorkerInv`), that of two workers of a file one has lost
its lease (`PairInv`), which submissions a row explains (`SubmitInv`), whose text
the sidecar holds (`TextInv`) and which retries, deletions and cleanings are under way
(`EventInv`). `CleanerInv` is about the one cleanup.

### Tool calls

`ToolCalls_proofs`, for finitely many calls and any runs, tools and limits:

| Theorem | Statement |
|---|---|
| `BudgetStaysFair` | `Spec => []BudgetIsFair` |
| `UsageStaysCounted` | `Spec => []UsageIsCounted` |

`BudgetInv` says that what a run has reserved is the sum of what its calls hold, that
used and reserved fit the budget, that what calls returned and what they hold is within what
was issued, and that a run told that the budget is spent has no call at work. The
daily limits of `UsageInv` are about cardinalities: the rows of a day, unfinished ones
included, are at most the limit, because the one that is added was counted under
the row lock. That the statistics add up needs each row to be that of one call
(`RowFits`), and sums over a partition of the rows.

### Accounts, titles and web tools

`Access_proofs`:

| Theorem | Statement |
|---|---|
| `AccountsTypeCorrect` | `AccountsSpec => []AccountsTypeOK` |
| `SessionsStayCurrent` | `AccountsSpec => []SessionsAreCurrent` |
| `RunsStayCurrent` | `AccountsSpec => []RunsAreCurrent` |
| `OwnerStays` | `AccountsSpec => []OwnerRemains` |
| `OneGroupEach` | `GroupsSpec => []EveryoneHasOneGroup` |
| `AvatarsAgree` | `AvatarsSpec => []AvatarsMatchFiles` |
| `GuessesAreBounded` | `LimiterSpec => []AttemptsAreBounded` |
| `TitlesFit` | `TitlesSpec => []TitlesFitTheTalk` |
| `ReadingsAreHonest` | `WebSpec => []ReadingIsHonest` |
| `BelongingsStay` | `AccessSpec => []BelongingsAreKept` |

A behaviour of `AccessSpec` moves one part of `MCAccess`, so the theorem follows from
those about groups and avatars.

* Accounts. A token is given by a request that read a row some steps before, so the
  invariant speaks of every place a reading can be: `TokensFit` (a token no newer than
  the row; of the same version, of the same password and role), `ReadsFit` (the same of
  every row a request holds), and `NobodyIsActive`, `SendersExist`, which keep names
  without a row out of all of them. Every step is shown to be an evolution of the
  rows (`Evolves`: the version never falls, and the same version means the same
  password, role and state), and `TokensFit`, `ReadsFit` and `RunsAreCurrent` survive any
  evolution whose changed accounts lose their runs. Each action then only has to
  show that it evolves the rows and that what it hands out was read.
* Groups. There is exactly one default, it exists, and so does every assigned
  group. A group that may be taken from the defaults is not the default
  (`DefaultIsKept`), so no patch and no deletion leaves an account without a group.
* Avatars. `AvatarsInv`: a staged file belongs to one request, and every file is
  referred to, staged, on the list of a request that will look, or an orphan of a crash.
* Limiter. Guesses at a key are at most its live failures and those whose result is
  outstanding (`SourceFits`); a source that is not blocked has fewer live failures than
  allowed. Of the keys only `KeyOf` is assumed, so any names may share one. The bound is `MaxAttempts` plus the attempts that may be in flight, no less.
* Titles. `TitlesInv`: the revision a task expects is no newer than the messages it
  was made of, and these no newer than the session.
* Web tools. `WebInv`: a call says what its services did (`CallFits`), no more calls learn
  of an outage than there are slots before the others are told, and what is left of
  the time exceeds what the asked service was given (`TimeIsLeft`).

### Catalog

`Catalog_proofs`:

| Theorem | Statement |
|---|---|
| `SessionsFit` | `ModelsSpec => []SessionsFitTheTable` |
| `PoliciesWereShown` | `PolicySpec => []PolicyWasShown` |
| `SelectionsStayUsable` | `FontsSpec => []SelectionIsUsable` |
| `PromptsFollow` | `PromptsSpec => []PromptsFollowTheirGroup` |
| `OrdersAreDecided` | `OrderSpec => []OrderIsDecided` |
| `ArrangementsAreKept` | `ArrangedSpec => []ArrangementIsKept` |
| `PackagesStayKept` | `PackagesSpec => []PackagesAreKept` |
| `SkillHistoriesAreExact` | `PackagesSpec => []HistoryIsExact` |
| `ToolHistoriesAreExact` | `ToolsSpec => []ToolHistoryIsExact` |
| `HistoriesStayExact` | `ArrangedSpec => []HistoriesAreExact` |

* Models. `CreationInv`: a creation that has passed its check of the table uses what
  the table offered at that moment, however old its registry was.
* Policies. `PolicyInv`: the copy, and everything read, was showable when it was read.
* Fonts, prompts, services. `FontsInv` and `PromptsInv` say what the row locks protect: a
  writer that holds a group's name under the shared lock has the name, and excludes who
  would change it. The files of `FontsInv` are those of fonts whose INSERT was answered.
  `OrderInv`, as long as nothing is tangled: what a reorder will place (`Placing`) are
  the rows it has locked and those it has yet to lock that are still there; every
  service it does not know is behind the places it will give (`OthersBehind`); and one
  that is being saved for the first time gets a place behind all that are there, and
  behind those of any reorder on its way (`SavedBehind`).
* Skills. `HistoryFits` says of a database that its history is exact, speaks only of
  skills that have a row and of import records that exist, and that a deleted skill has a
  record to come back from. Every transaction on skills is shown to be a `Transacts`: the
  event it adds found the row that was there and left the one that is there now. That
  keeps `HistoryFits` whatever the transaction does otherwise. A rollback is one too,
  because it refuses when the row is not what the event left. A save of several packages is a
  chain of them, by induction over the items. `PackagesInv` adds the disk: each root
  that is retained is whole, one request at most holds the mutex, and what it has
  written so far is whole. A commit that fails or whose answer is lost plans the same
  sweep as one that succeeds, and the sweep asks the database, not the request.
* Tools. `ToolsInv` is the history itself: each change continues what the last event of
  the tool left, which is what the settings are.

`ArrangedSpec`, like `AccessSpec`, lets a behaviour move one of its parts; a theorem about it
says that the part that moves follows its own specification and the others stay as
they began. `SkillsAssumption` asks for finitely many skills and that "no skill" is
neither a row nor a state, `TimeoutsAssumption` that timeouts are integers, the others
likewise that a placeholder is no value.

### What is left to TLC

**Safety.** Every invariant and action property that a passing run checks is stated by a
theorem above.

**Out of the prover's reach:** liveness under fairness and `ENABLED`, so
`ReservationsEnd`, that every admitted run ends (the liveness in `LedgerSpec`),
`OpenStreamsFinish`, `SilentRunsEnd` and `JobsEnd` stay with TLC, as would anything about
a `RECURSIVE` operator. Induction is proved where it is needed, with sets in the place of
the library's operators: over numbers and the subsets of a finite set in `Counting`,
for sums and folds, over sequences in `OneRun_proofs`, for recursive functions on them.

## 7. Where code and documents disagree

1. **An edit hides the checkpoint made for it** (`HistoryEdit`).
   `AdmitEditedRetryChatRun` deletes every row from the edited message on, by id.
   A compaction run because the edit was answered `compaction_required` stores
   its checkpoint after that message, so the repeated edit deletes it while the
   older messages stay compressed: the agent has neither them nor a summary.
   The page runs this very sequence.
2. **A replay may begin in the middle** (`StreamReplay`). A run id sent again is
   replayed from what is left of its log, without the `replay_gap` of a resume.
3. **A stopped maintenance run may have changed the memory** (`MemoryStop`). The
   handler looks for a stop before the decision is taken (`memory_stream_handler.go:179`).
   A stop between the two makes the run canceled and keeps its save. The panel is
   sent `memory_maintenance_canceled` and says 记忆维护已取消 (`lib/sseProtocol.ts:146`),
   while the memory is changed and the task record stored with it says success. A
   stop that is seen in time saves nothing and is recorded as skipped.

Seen while modelling, and shown by no run. History and runs:

* A preserving compaction chooses its input by row id and what it supersedes by
  logical boundary (`service/message_service.go:811`), so an older checkpoint stored
  after the preserved message is superseded without having been read. Switches make
  it happen: two turns fail, and a retry of each, stopped half-way, leaves an answer
  that is not selected; a compaction stands for what precedes them; the user switches to
  the stopped answers, and the retry of the last turn asks for a compaction that
  preserves it. The answers of the first checkpoint are then in no context. In the
  model this takes ten messages and twenty steps, more than the runs hold.
* Walking back from an answer to its question does not skip checkpoints
  (`repository/message_repository.go:540`): an answer stored after one is retried
  as an attempt of the checkpoint.
* The list in which a preserved message is looked for omits the user message
  before an error notice (`service/message_service.go:806`), so a failed turn
  cannot be compacted for its retry.
* An unselected attempt stored behind a checkpoint's boundary stays selectable
  after its sibling was summarised, and the checkpoint does not follow the switch.
* A run restored from its row starts its log at cursor 1 (`service/run_terminal.go:189`),
  while a client may resume with a higher one. An admission whose connection broke
  may commit after the handler looked for its row (`:567`), and a terminal write
  rejected for good leaves its row running until a restart (`:608`).
* While the table of settings cannot be read, runs are accepted and validated with the
  policies the process has kept, which may have been changed since by an
  administrator (`agent/runtime_snapshot_context.go:119`). The run is marked
  `last_known_good`; `RunUsesOneMoment` allows it there and nowhere else.
* The snapshot of a run also holds the memory, so the maintenance of the previous
  turn may refuse the next message as `runtime_dependency_changed` although nobody
  changed a configuration; so does one failed read of the memory. The error is
  marked retryable and the handler sends `retryable: false`. An empty snapshot `{}`
  is not validated.
* An unreadable tool result drops the whole response (`agent/eino_agent.go:600`), and
  a chunk that is late after a cancellation is stored without having been shown.
  When parallel calls are split into messages, each gets a copy of the reasoning.
* A skill call refused because calls of other tools hold the context closes skills
  for the rest of the run (`agent/tool_budget.go:233`), though the tokens come back.
* A crash or a slow update leaves a reserved tool row counted as a success for ever.
* A result is cut to the budget before its outcome is looked at
  (`agent/tool_governance.go:142`, `:154`), and the cut leaves out `degraded`, `blocked`,
  `search_failed` and `error_code` (`agent/tool_budget.go:503`): a degraded result that was
  cut counts as a success in the statistics.

Memory and titles:

* The first save of a session without a card sends no `expected_updated_at`, so two
  pages may overwrite each other. A removal by the text of a line finds the first
  section that has it. An explicit "remember this" that loses its save to a conflict
  is not tried again. The audit record of a task is dropped during a drain.
* The cooldown of a title is checked before the claim; summaries of compactions
  count as user messages.

Files:

* Between two polls a running OCR job has no lease, so the cleanup after its
  session was deleted fails it at once (`CleanExpire`), although
  `src/docs/administration.md:100` and the comment at `handler/file_handler.go:824`
  say that the cleanup waits for a running OCR to end or fail.
* With `older_than_hours` below 24 a user may restart a job that the cleanup has
  expired and whose original it is about to remove; the job then fails for want
  of it (`CleanOriginal`).
* A worker that dies with its temporary sidecar written may leave it for good; a
  successor may remove that of a predecessor which is still at work. Whether a
  failed submission is retried depends on the wording of its error.

Accounts:

* The limiter's key of an account is its name trimmed and in lower case
  (`handler/auth_rate_limiter.go:88`), while names of accounts are told apart by both: a
  sign-in as `ada` gives back the failures at `Ada` from the same address. Failures
  at a blank name can be given back by nobody.
* A failure that was under way when its window ended replaces the limiter's entry
  and lifts a block. A password change that compared before an administrator's
  reset overwrites it. A failed write of an avatar leaves a partial file. When an
  administrator's update commits without an answer, its rows cancel the runs but
  the hub is not told (`repository/user_repository.go:415`).

Catalog:

* Concurrent readers store a policy out of order, so the copy may go back; limits
  are read key by key. Two reloads of the registry may end with the older list,
  against the comment of `reloadRegistry` in `service/model_service.go`, until the
  next write; `SessionsFitTheTable` shows that sessions do not suffer. A model's
  `Create` looks and then upserts, so one of two is overwritten.
* Whether an import creates or updates a skill is decided before the lock, so one
  racing an administrator's creation overwrites the switch and the group level,
  against `repository/skill_governance_repository.go:21`. A package update racing
  a deletion brings the skill back. An error that reads a whole package makes the
  writer remove the live root. No sweep runs at start-up.
* A reorder may be overtaken: while it waits for the lock of one row
  (`repository/channel_repository.go:294`), a service it had seen is deleted and comes back
  with a new place, or another reorder places a service that was created since. What
  it then writes may give two services one place, and their names decide who
  is tried first. `OrderIsDecided` holds until such a reorder writes (`tangled`).
* An upload removes its file after any error of the INSERT (`handler/font_handler.go:130`).
  When only the answer was lost, the font is there, enabled, can be selected and has
  no file. `SelectionIsUsable` excepts these fonts (`unanswered`) from what it says of
  files; avatars look for the row first.
* A description of a prompt cannot be cleared. A patch that clears the group alone
  keeps its name. An upload of a font with `make_current` writes only the old key.

Page:

* A `loadMessages` that answers late replaces the window that
  `syncSessionMessages` has just put there.

## 8. What is not modelled

* Text: prompts, answers, titles, tool results. A chunk, an item of a memory, a
  page of the web is one of the few kinds the code treats differently.
* Lock order between transactions, except in `Prompts`: that the maintenance run
  locks run and session in another order than the message terminals can only end
  in Postgres's deadlock error, which is an error path like any other.
* Of the run: the sums of file limits in the admission, the compaction handler's
  own admission, snapshots' contents on the wire, the expiry of a hub entry while
  a writer is stalled.
* Of the history: attachments, pagination, search, folders, the purge of old rows.
* Of the files: upload and extraction of other formats, image tokens, previews,
  the quota of OCR pages, several cleanups at a time.
* Of accounts: profile fields no other code reads, the limiter's cap of entries,
  the expiry of tokens.
* Of skills: the parsing of packages, the transport from repositories, and the
  permissions by group; the age a root must have before a sweep.
* Of the catalog: the metadata catalog of models.dev, the form fields of models
  and channels, provider probes.
* The page: it keeps its state in TypeScript; the server's side of reconnection is
  in `RunStream`, the taking back of an attempt in `AgentLoop`.
* Provider adapters: wire conversion; to `AgentLoop` an adapter is any stream of
  chunks. The Python extractor is an answer to `OcrJob` and `WebTools`.

## 9. Plan

Done, in this order: `RunLedger` and `RunLifecycle` with their refinement and
proofs, `RunStream`, `AnswerHistory`, `OcrJob`; then `SessionMemory`, `ToolCalls`,
`AgentLoop`, the modules of `MCAccess` and `MCCatalog`, `RuntimeSnapshot`; then the
theorems of 6: runs, streams and snapshots, the agent's loop, answers, the session memory, files, tool
calls, accounts, titles, web tools and the catalog.

To be done, most important first:

| Work | Why |
|---|---|
| a run of the switch that loses a checkpoint (7, the first seen while modelling), from an initial log of ten messages | so far it is replayed by hand only |
| `FencedJob`, the contract of `OcrJob` | a job with one owner by generation, ended once per request; then the same with two files and leases within the cap |
| the page's send, resume and reconciliation composed with `RunStream` | losing a run it sent |
