----------------------------- MODULE AnswerHistory -----------------------------
(***************************************************************************)
(* The history of one chat session: its messages, the answer attempts of   *)
(* each user turn with the one that is selected, and the checkpoints that  *)
(* stand for compressed messages in the context of the agent.              *)
(*                                                                         *)
(* Message ids are the positions of a log.  A run of the session is in     *)
(* progress or not: that there is at most one is what RunLifecycle shows.  *)
(* Selecting or deleting an answer, undoing a checkpoint and saving what   *)
(* was derived from the conversation ask for no run, so they come in       *)
(* between.  Every transaction is one step; what a compaction or a derived *)
(* write reads before its transaction is read in steps of its own.         *)
(***************************************************************************)
EXTENDS Naturals, Sequences, FiniteSets

CONSTANTS
  MaxMessages,  \* bound: messages ever stored
  MaxAttempts,  \* bound: answer attempts ever stored
  MaxRevision,  \* bound: the revision at which users stop switching answers
  Operations    \* the operations of the instance besides sending messages

AllOperations == {"retry", "edit", "select", "delete", "compact", "auto",
                  "preserve", "undo", "derive"}

ASSUME MaxMessagesAssumption == MaxMessages \in Nat \ {0}
ASSUME MaxAttemptsAssumption == MaxAttempts \in Nat \ {0}
ASSUME MaxRevisionAssumption == MaxRevision \in Nat
ASSUME OperationsAssumption  == Operations \subseteq AllOperations

VARIABLES
  messages,  \* the messages of the session, an id being its position
  attempts,  \* answer_attempts of the session
  revision,  \* sessions.answer_selection_revision
  work,       \* the running reservation of the session
  derived    \* a memory or title job that works from what it has read

historyVars == <<messages, attempts, revision, work, derived>>

-----------------------------------------------------------------------------
(* Data *)

Ids      == 1..Len(messages)
Attempts == 1..Len(attempts)

Kinds   == {"turn", "answer", "error", "summary"}
Message == [kind : Kinds,
            attempt : Nat,        \* answer_attempt_id, 0 is NULL
            deleted : BOOLEAN,    \* deleted_at, or erased from the table
            by : Nat,             \* compression_summary_id, 0 is not compressed
            before : Nat,         \* compaction_before_message_id of a summary
            manual : BOOLEAN,     \* compaction_kind of a summary
            of : SUBSET Nat]      \* the messages a summary was written from
Attempt == [turn : Nat, selected : BOOLEAN,
            status : {"running", "completed", "incomplete", "failed", "erased"}]
Run     == [kind : {"none", "chat", "admitted", "session", "prepared"},
            attempt : Nat, manual : BOOLEAN, preserve : Nat,
            revision : Nat, source : SUBSET Nat, boundary : Nat]
Derived == [step : {"idle", "revision", "history", "saved"},
            revision : Nat, view : SUBSET Nat]

Plain(kind, k) == [kind |-> kind, attempt |-> k, deleted |-> FALSE, by |-> 0,
                   before |-> 0, manual |-> FALSE, of |-> {}]
NoWork   == [kind |-> "none", attempt |-> 0, manual |-> FALSE, preserve |-> 0,
            revision |-> 0, source |-> {}, boundary |-> 0]
NoJob   == [step |-> "idle", revision |-> 0, view |-> {}]

TypeOK ==
  /\ messages \in Seq(Message)
  /\ attempts \in Seq(Attempt)
  /\ revision \in Nat
  /\ work \in Run
  /\ derived \in Derived

HistoryInit ==
  /\ messages = <<>> /\ attempts = <<>> /\ revision = 0
  /\ work = NoWork /\ derived = NoJob

Kind(i)    == messages[i].kind
Alive(i)   == ~messages[i].deleted
IsUser(i)  == Kind(i) \in {"turn", "summary"}     \* a checkpoint has role user
OfTurn(t)  == {k \in Attempts : attempts[k].turn = t /\ attempts[k].status # "erased"}
Greatest(S) == CHOOSE i \in S : \A j \in S : j <= i

(* What both the agent and a retry list: not deleted, not compressed, and   *)
(* of the selected attempt where the message belongs to one.                *)
Shown(i) == messages[i].attempt = 0 \/ attempts[messages[i].attempt].selected
Listed   == {i \in Ids : Alive(i) /\ messages[i].by \in {0, i} /\ Shown(i)}

(* The agent's order puts a checkpoint before the first message it keeps. *)
Place(i) == IF Kind(i) = "summary" THEN 2 * messages[i].before ELSE 2 * i + 1
Precedes(i, j) == Place(i) < Place(j) \/ (Place(i) = Place(j) /\ i < j)
Latest(S) == CHOOSE i \in S : \A j \in S \ {i} : Precedes(j, i)

(* listForAgentContext: an error notice goes, and with it the user message   *)
(* right before it.  (At most one notice of a turn is shown at a time.)     *)
DroppedWithError(i) ==
  /\ IsUser(i)
  /\ \E e \in Listed :
       /\ Kind(e) = "error" /\ Precedes(i, e)
       /\ ~\E j \in Listed : Kind(j) # "error" /\ Precedes(i, j) /\ Precedes(j, e)

AgentView == {i \in Listed : Kind(i) # "error" /\ ~DroppedWithError(i)}

-----------------------------------------------------------------------------
(* Admissions *)

(* Bounds: a run is admitted while there is room for all it will store. *)
Room(new) == Len(messages) + new <= MaxMessages
ChatRoom(new) == Room(new) /\ Len(attempts) < MaxAttempts

Begin(t, selected) ==
  /\ attempts' = Append(attempts, [turn |-> t, selected |-> selected, status |-> "running"])
  /\ work' = [NoWork EXCEPT !.kind = "chat", !.attempt = Len(attempts) + 1]

(* AdmitChatMessage: a new turn, whose first attempt is selected at once. *)
Send ==
  /\ work.kind = "none" /\ ChatRoom(2)
  /\ messages' = Append(messages, Plain("turn", 0))
  /\ Begin(Len(messages) + 1, TRUE)
  /\ UNCHANGED <<revision, derived>>

(* prepareRetryForActiveSessionTx: only the last message may be retried; of   *)
(* an answer, the nearest earlier message of role user is asked again.       *)
RetryTargets == LET S == {i \in Listed : Kind(i) # "summary"}
                IN  IF S = {} THEN {} ELSE {Greatest(S)}
UsersBefore(i) == {j \in Listed : j < i /\ IsUser(j)}
RetriedUsers ==
  {Greatest(UsersBefore(i)) : i \in {t \in RetryTargets : Kind(t) # "turn" /\ UsersBefore(t) # {}}}
    \cup {t \in RetryTargets : Kind(t) = "turn"}

Retry ==
  /\ "retry" \in Operations /\ work.kind = "none" /\ ChatRoom(1)
  /\ \E u \in RetriedUsers : Begin(u, FALSE)
  /\ UNCHANGED <<messages, revision, derived>>

(* prepareEditRetryForActiveSessionTx: the last user message, while no       *)
(* attempt of it has any output but error notices.                          *)
HasOutput(t) == \E i \in Ids : /\ Alive(i) /\ Kind(i) = "answer"
                               /\ attempts[messages[i].attempt].turn = t
EditTargets ==
  LET S == {i \in Listed : Kind(i) = "turn"}
  IN  {t \in S : /\ \A i \in S : i <= t
                 /\ ~\E i \in Listed : i > t /\ Kind(i) = "answer"
                 /\ ~HasOutput(t)}

(* What an edit hides of the log: its target and all that was stored since. *)
HideFrom(log, t) == [i \in DOMAIN log |->
                       IF i >= t THEN [log[i] EXCEPT !.deleted = TRUE] ELSE log[i]]

(* Fault: the hidden turn keeps its selected attempt. *)
UnselectNothing(t) == attempts

Unselected(t) ==
  [k \in Attempts |-> IF attempts[k].turn = t
                        THEN [attempts[k] EXCEPT !.selected = FALSE] ELSE attempts[k]]

(* AdmitEditedRetryChatRun. *)
Edit ==
  /\ "edit" \in Operations /\ work.kind = "none" /\ ChatRoom(2)
  /\ \E t \in EditTargets :
       /\ messages' = Append(HideFrom(messages, t), Plain("turn", 0))
       /\ attempts' = Append(Unselected(t), [turn |-> Len(messages) + 1,
                                             selected |-> TRUE, status |-> "running"])
  /\ work' = [NoWork EXCEPT !.kind = "chat", !.attempt = Len(attempts) + 1]
  /\ revision' = revision + 1
  /\ UNCHANGED derived

-----------------------------------------------------------------------------
(* The end of a chat run *)

AttemptStatus(status, output) ==
  IF output # "answer" THEN "failed"
  ELSE IF status = "completed" THEN "completed"
  ELSE "incomplete"

(* Fault: whatever a retry stored is selected. *)
TakesOverAlways(k, outcome) == ~attempts[k].selected

(* finishAnswerAttemptTx: only a completed retry takes the selection over. *)
TakesOver(k, outcome) == outcome = "completed" /\ ~attempts[k].selected

FinishAttempt(k, outcome) ==
  /\ attempts' = [j \in Attempts |->
       CASE j = k -> [attempts[j] EXCEPT !.status = outcome,
                                         !.selected = @ \/ TakesOver(k, outcome)]
         [] j # k /\ TakesOver(k, outcome) /\ attempts[j].turn = attempts[k].turn ->
              [attempts[j] EXCEPT !.selected = FALSE]
         [] OTHER -> attempts[j]]
  /\ revision' = IF TakesOver(k, outcome) THEN revision + 1 ELSE revision

(* CreateBatchAndTransitionActiveRun: a whole answer, what there was of one  *)
(* when the run was stopped or failed, or an error notice.                  *)
EndWithMessages ==
  /\ work.kind = "chat"
  /\ \E end \in {<<"completed", "answer">>, <<"canceled", "answer">>,
                 <<"failed", "answer">>, <<"failed", "error">>} :
       /\ messages' = Append(messages, Plain(end[2], work.attempt))
       /\ FinishAttempt(work.attempt, AttemptStatus(end[1], end[2]))
  /\ work' = NoWork
  /\ UNCHANGED derived

(* TransitionChatRun, a canceled row or the reconciliation of a restart. *)
EndWithoutMessages ==
  /\ work.kind = "chat"
  /\ attempts' = [attempts EXCEPT ![work.attempt].status = "failed"]
  /\ work' = NoWork
  /\ UNCHANGED <<messages, revision, derived>>

-----------------------------------------------------------------------------
(* Switching and deleting answers *)

Selectable(k) ==
  /\ attempts[k].status \in {"completed", "incomplete"}
  /\ \E i \in Ids : /\ messages[i].attempt = k /\ Alive(i)
                    /\ messages[i].by = 0 /\ Kind(i) = "answer"

(* SelectForActiveSession of an attempt that is not selected yet. *)
Select ==
  /\ "select" \in Operations /\ revision < MaxRevision
  /\ \E k \in Attempts :
       /\ Selectable(k) /\ ~attempts[k].selected
       /\ attempts' = [Unselected(attempts[k].turn) EXCEPT ![k].selected = TRUE]
  /\ revision' = revision + 1
  /\ UNCHANGED <<messages, work, derived>>

(* The answer that takes the place of a deleted one: the one before it, or   *)
(* the one after it if it was the first.                                    *)
Neighbour(k, others) ==
  LET earlier == {j \in others : j < k}
  IN  IF earlier # {} THEN Greatest(earlier)
      ELSE CHOOSE j \in others : \A i \in others : j <= i

Revised(replaced) == IF replaced THEN revision + 1 ELSE revision

Deletable(k) ==
  Selectable(k) /\ \E j \in OfTurn(attempts[k].turn) \ {k} : Selectable(j)

Erased(k) == [i \in Ids |-> IF messages[i].attempt = k
                              THEN [messages[i] EXCEPT !.deleted = TRUE, !.attempt = 0]
                              ELSE messages[i]]

(* DeleteForActiveSession. *)
Delete ==
  /\ "delete" \in Operations
  /\ \E k \in Attempts :
       LET others == {j \in OfTurn(attempts[k].turn) \ {k} : Selectable(j)}
           heir == IF attempts[k].selected /\ others # {} THEN {Neighbour(k, others)} ELSE {}
       IN  /\ Deletable(k)
           /\ messages' = Erased(k)
           /\ attempts' = [j \in Attempts |->
                CASE j = k     -> [attempts[j] EXCEPT !.status = "erased", !.selected = FALSE]
                  [] j \in heir -> [attempts[j] EXCEPT !.selected = TRUE]
                  [] OTHER     -> attempts[j]]
           /\ revision' = Revised(heir # {})
  /\ UNCHANGED <<work, derived>>

-----------------------------------------------------------------------------
(* Checkpoints *)

(* CompactSessionHandler up to its admission.  A user asks for a compaction,  *)
(* or the page does because a message, a retry or an edit was answered       *)
(* compaction_required, the last two with the user message to preserve.     *)
StartCompaction(manual, preserve) ==
  /\ work.kind = "none" /\ Room(1)
  /\ work' = [NoWork EXCEPT !.kind = "admitted", !.manual = manual, !.preserve = preserve]
  /\ UNCHANGED <<messages, attempts, revision, derived>>

Preservable == RetriedUsers \cup EditTargets

Compact ==
  \/ /\ "compact" \in Operations
     /\ StartCompaction(TRUE, 0)
  \/ /\ "auto" \in Operations
     /\ StartCompaction(FALSE, 0)
  \/ /\ "preserve" \in Operations
     /\ \E p \in Preservable : StartCompaction(FALSE, p)

EndCompaction == work' = NoWork

(* The session, and with it the revision, is read before the messages. *)
CompactionReadsSession ==
  /\ work.kind = "admitted"
  /\ work' = [work EXCEPT !.kind = "session", !.revision = revision]
  /\ UNCHANGED <<messages, attempts, revision, derived>>

(* ListForCompactionBeforeMessageContext: is this the latest user message? *)
LatestUserIs(p) ==
  LET users == {i \in AgentView : Kind(i) = "turn"}
  IN  users # {} /\ Latest(users) = p

CompactionReadsMessages ==
  /\ work.kind = "session"
  /\ LET source == IF work.preserve = 0 THEN AgentView
                   ELSE {i \in AgentView : i < work.preserve}
         boundary == IF work.preserve = 0 THEN Latest(source) + 1 ELSE work.preserve
     IN  IF source = {} \/ (work.preserve > 0 /\ ~LatestUserIs(work.preserve))
           THEN EndCompaction
           ELSE work' = [work EXCEPT !.kind = "prepared", !.source = source,
                                   !.boundary = boundary]
  /\ UNCHANGED <<messages, attempts, revision, derived>>

(* Fault: an older checkpoint is looked for by its id only. *)
CoveredById(i, boundary) ==
  Alive(i) /\ messages[i].by \in {0, i} /\ i < boundary

(* markAsCompressed: by id, and an active checkpoint by its own boundary. *)
Covered(i, boundary) ==
  /\ Alive(i) /\ messages[i].by \in {0, i}
  /\ i < boundary \/ (/\ messages[i].by = 0 /\ Kind(i) = "summary"
                      /\ messages[i].before < boundary)

Stands(i) == IF Kind(i) = "summary" THEN messages[i].of ELSE {i}

(* Fault: the checkpoint is written although another answer is selected. *)
CurrentAlways(expected) == TRUE

(* ensureAnswerSelectionRevision. *)
Current(expected) == revision = expected

(* PersistCheckpointAndTransitionActiveRun, or the skip it ends in. *)
CommitCheckpoint ==
  /\ work.kind = "prepared"
  /\ messages' =
       IF Current(work.revision)
         THEN LET s == Len(messages) + 1
              IN  Append([i \in Ids |-> IF Covered(i, work.boundary)
                                          THEN [messages[i] EXCEPT !.by = s] ELSE messages[i]],
                         [Plain("summary", 0) EXCEPT
                            !.before = work.boundary, !.manual = work.manual,
                            !.of = UNION {Stands(i) : i \in work.source}])
         ELSE messages
  /\ EndCompaction
  /\ UNCHANGED <<attempts, revision, derived>>

(* A compaction that is stopped, fails or is lost in a crash. *)
AbandonCompaction ==
  /\ work.kind \in {"admitted", "session", "prepared"}
  /\ EndCompaction
  /\ UNCHANGED <<messages, attempts, revision, derived>>

Uncompressed(i, s) == IF messages[i].by = s /\ Alive(i)
                    THEN [messages[i] EXCEPT !.by = 0] ELSE messages[i]

(* UndoLatestManualCheckpointForActiveSession. *)
UndoCheckpoint ==
  /\ "undo" \in Operations
  /\ LET S == {i \in Ids : Alive(i) /\ Kind(i) = "summary"}
         s == Greatest(S)
     IN  /\ S # {} /\ messages[s].manual
         /\ ~\E i \in Ids : i > s /\ Alive(i) /\ Kind(i) # "error"
         /\ messages' = [i \in Ids |-> IF i = s THEN [messages[i] EXCEPT !.deleted = TRUE]
                                       ELSE Uncompressed(i, s)]
  /\ UNCHANGED <<attempts, revision, work, derived>>

-----------------------------------------------------------------------------
(* Derived writes: session memory, title *)

(* The job reads the revision first and the conversation after it. *)
DeriveReadsRevision ==
  /\ "derive" \in Operations /\ derived.step \in {"idle", "saved"}
  /\ derived' = [step |-> "revision", revision |-> revision, view |-> {}]
  /\ UNCHANGED <<messages, attempts, revision, work>>

SelectedAnswers == {messages[i].attempt :
                      i \in {j \in Ids : Alive(j) /\ Kind(j) = "answer" /\ Shown(j)}}

DeriveReadsHistory ==
  /\ derived.step = "revision"
  /\ derived' = [derived EXCEPT !.step = "history", !.view = SelectedAnswers]
  /\ UNCHANGED <<messages, attempts, revision, work>>

(* saveSessionMemoryWithChange: the revision is checked under the session's  *)
(* lock, and a conflict drops the result.                                   *)
DeriveSaves ==
  /\ derived.step = "history"
  /\ derived' = IF Current(derived.revision) THEN [NoJob EXCEPT !.step = "saved"]
                ELSE NoJob
  /\ UNCHANGED <<messages, attempts, revision, work>>

-----------------------------------------------------------------------------

HistoryNext ==
  \/ Send \/ Retry \/ Edit \/ EndWithMessages \/ EndWithoutMessages
  \/ Select \/ Delete
  \/ Compact \/ CompactionReadsSession \/ CompactionReadsMessages
  \/ CommitCheckpoint \/ AbandonCompaction \/ UndoCheckpoint
  \/ DeriveReadsRevision \/ DeriveReadsHistory \/ DeriveSaves

HistorySpec == HistoryInit /\ [][HistoryNext]_historyVars

-----------------------------------------------------------------------------
(* Properties *)

TurnOf(i) == attempts[messages[i].attempt].turn
Answers   == {i \in Ids : Kind(i) = "answer" /\ Alive(i)}
ShownAnswers == {i \in Answers : Shown(i)}
Turns     == {i \in Ids : Kind(i) = "turn"}
ActiveCheckpoints ==
  {i \in Ids : Kind(i) = "summary" /\ Alive(i) /\ messages[i].by = 0}

(* A user turn has exactly one selected attempt from its admission on, through *)
(* retries, switches and deletions, and none once an edit has hidden it: the  *)
(* answer an agent reads is never ambiguous.  (AdmitChatMessage,              *)
(* finishAnswerAttemptTx, SelectForActiveSession, DeleteForActiveSession.)    *)
OneSelectedAttempt ==
  \A t \in Turns :
    Cardinality({k \in OfTurn(t) : attempts[k].selected}) = (IF Alive(t) THEN 1 ELSE 0)

(* A turn that shows an answer goes on showing one until an edit hides the    *)
(* turn: a retry that fails or is stopped, and the deletion of an answer,     *)
(* never leave it blank.  (finishAnswerAttemptTx, DeleteForActiveSession.)    *)
AnswerIsKept ==
  [][\A t \in Turns :
       (\E i \in ShownAnswers : TurnOf(i) = t) =>
         ~Alive(t)' \/ (\E i \in ShownAnswers : TurnOf(i) = t)']_historyVars

(* A memory, a title or a checkpoint is written only while every answer it    *)
(* was written from is still the selected one, though both were read long     *)
(* before.  (ensureAnswerSelectionRevision, saveSessionMemoryWithChange.)     *)
DerivedWritesFollowSelection ==
  [][/\ derived'.step = "saved" /\ derived.step # "saved" =>
          derived.view \subseteq SelectedAnswers
     /\ work.kind = "prepared" /\ messages' # messages /\ work' = NoWork =>
          \A i \in work.source : Kind(i) = "answer" => i \in ShownAnswers]_historyVars

(* A session has at most one active checkpoint: a new one takes in the old    *)
(* one wherever its row lies.  (markAsCompressed; ARCHITECTURE.md:163.)       *)
AtMostOneActiveCheckpoint == Cardinality(ActiveCheckpoints) <= 1

(* A shown answer that is compressed away is part of what an active           *)
(* checkpoint was written from: the agent has it or a summary of it.          *)
(* (PersistCheckpointAndTransitionActiveRun, UndoLatestManualCheckpoint;      *)
(* ARCHITECTURE.md:121.)                                                      *)
ContextIsCovered ==
  \A i \in ShownAnswers :
    messages[i].by # 0 => \E s \in ActiveCheckpoints : i \in messages[s].of

(* What an active checkpoint stands for is known, and there is one to ask. *)
CheckpointsAreSound == TypeOK /\ AtMostOneActiveCheckpoint /\ ContextIsCovered
=============================================================================
