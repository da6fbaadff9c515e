---------------------------- MODULE SessionTitles ----------------------------
(***************************************************************************)
(* The title of one session.  After every run a background task may ask a  *)
(* model for a title, while the user renames the session, switches or      *)
(* edits its answers, deletes it, and the process drains its tasks.        *)
(***************************************************************************)
EXTENDS Naturals, FiniteSets

CONSTANTS
  Tasks,        \* background tasks, one after each run
  Triggers,     \* values of title_generation_trigger
  MaxTurns,     \* bounds the messages of the user
  MaxSelections \* bounds the switches and edits of answers

VARIABLES
  titled,  \* the row: the kind of its title, the selection it was made from
  talk,    \* its messages: how many turns, which selection of answers
  task,    \* of each task, its step and what it has read
  cooling, \* the newest task record asks to wait, and has not expired
  drain    \* "no", "asked" or "done": a drain found no task left

titleVars == <<titled, talk, task, cooling, drain>>

\* The user may name a session as a new one is named.
NewTitle == [kind |-> "default", basis |-> 0, stored |-> 0, over |-> "default"]
UserTitle == [kind |-> "custom", basis |-> 0, stored |-> 0, over |-> "default"]
\* With the selection when it is stored, and the kind of title it replaces.
Automatic(t) == [kind |-> "auto", basis |-> task[t].basis, stored |-> talk.revision, over |-> titled.kind]

NoTask == [step |-> "idle", expected |-> 0, basis |-> 0]
Finished == {t \in Tasks : task[t].step = "idle"}
\* The claim of a session in the memory of the process.
Claimed == \E t \in Tasks : task[t].step \in {"list", "ask", "store", "fallback"}

TitlesInit ==
  /\ titled = NewTitle
  /\ talk = [turns |-> 1, revision |-> 0, deleted |-> FALSE]
  /\ task = [t \in Tasks |-> NoTask]
  /\ cooling \in BOOLEAN
  /\ drain = "no"

Canceled == drain # "no"
Moves(t, step) == task' = [task EXCEPT ![t].step = step]
Ends(t) == task' = [task EXCEPT ![t] = NoTask]
\* Best effort: the record of a task may be lost.  A canceled task leaves no
\* wait behind, nor does one that has stored or skipped its title.
Records(failed) == cooling' \in {cooling, failed /\ ~Canceled}

StartTask(t) ==
  /\ task[t].step = "idle" /\ drain = "no"
  /\ Moves(t, "evaluate")
  /\ UNCHANGED <<titled, talk, cooling, drain>>

\* Title and wait are read first, then the messages and the policy.  A query
\* that fails ends the task.
Evaluate(t) ==
  /\ task[t].step = "evaluate"
  /\ \/ titled.kind = "default" /\ ~talk.deleted /\ ~cooling /\ ~Canceled /\ Moves(t, "count")
     \/ Ends(t)
  /\ UNCHANGED <<titled, talk, cooling, drain>>

Count(t, trigger) ==
  /\ task[t].step = "count"
  /\ \/ trigger > 0 /\ talk.turns >= trigger /\ ~Canceled /\ Moves(t, "claim")
     \/ Ends(t)
  /\ UNCHANGED <<titled, talk, cooling, drain>>

\* A second task for the session gives up; the first reads the title and the
\* revision of the answers once more.
Claim(t) ==
  /\ task[t].step = "claim"
  /\ \/ /\ ~Claimed /\ titled.kind = "default" /\ ~talk.deleted /\ ~Canceled
        /\ task' = [task EXCEPT ![t] = [step |-> "list", expected |-> talk.revision, basis |-> 0]]
     \/ Ends(t)
  /\ UNCHANGED <<titled, talk, cooling, drain>>

\* Fewer than two messages, or none a title may be made from, leave the first
\* words of the user.
ListMessages(t) ==
  /\ task[t].step = "list"
  /\ \/ /\ ~Canceled
        /\ \E step \in {"ask", "fallback"} :
             task' = [task EXCEPT ![t].step = step, ![t].basis = talk.revision]
     \/ Ends(t)
  /\ UNCHANGED <<titled, talk, cooling, drain>>

\* No model, a failed or an empty answer: the failure is recorded.
AskModel(t) ==
  /\ task[t].step = "ask"
  /\ \/ ~Canceled /\ Moves(t, "store") /\ UNCHANGED cooling
     \/ Moves(t, "fallback") /\ Records(TRUE)
  /\ UNCHANGED <<titled, talk, drain>>

\* One statement: the session is there, still has its first title, and no
\* answer was switched or edited since the task claimed it.
LatestRevision(t) == talk.revision
ExpectedRevision(t) == task[t].expected
MayTitle(t) == ~talk.deleted /\ titled.kind = "default" /\ talk.revision = ExpectedRevision(t)

StoreTitle(t) ==
  /\ task[t].step = "store"
  /\ \/ ~Canceled /\ MayTitle(t) /\ titled' = Automatic(t) /\ Records(FALSE)
     \/ ~Canceled /\ ~MayTitle(t) /\ Records(FALSE) /\ UNCHANGED titled
     \/ Records(TRUE) /\ (titled' = titled \/ (MayTitle(t) /\ titled' = Automatic(t)))
  /\ Ends(t) /\ UNCHANGED <<talk, drain>>

\* The words of the user, or the title of a new session when there are none.
StoreFallback(t) ==
  /\ task[t].step = "fallback"
  /\ \/ ~Canceled /\ MayTitle(t) /\ titled' \in {Automatic(t), NewTitle}
     \/ UNCHANGED titled
  /\ Ends(t) /\ UNCHANGED <<talk, cooling, drain>>

-----------------------------------------------------------------------------
Rename(new) ==
  /\ ~talk.deleted /\ titled' = new /\ UNCHANGED <<talk, task, cooling, drain>>

Talk ==
  /\ ~talk.deleted /\ talk.turns < MaxTurns
  /\ talk' = [talk EXCEPT !.turns = @ + 1] /\ UNCHANGED <<titled, task, cooling, drain>>

\* A switched, edited or taken over answer.
Reselect ==
  /\ ~talk.deleted /\ talk.revision < MaxSelections
  /\ talk' = [talk EXCEPT !.revision = @ + 1] /\ UNCHANGED <<titled, task, cooling, drain>>

DeleteSession ==
  /\ ~talk.deleted
  /\ talk' = [talk EXCEPT !.deleted = TRUE] /\ UNCHANGED <<titled, task, cooling, drain>>

WaitExpires == cooling /\ cooling' = FALSE /\ UNCHANGED <<titled, talk, task, drain>>

\* The context of every task is canceled; the drain waits for all of them,
\* or gives up when its own time is over.
DrainTasks == drain = "no" /\ drain' = "asked" /\ UNCHANGED <<titled, talk, task, cooling>>
DrainEnds ==
  /\ drain = "asked" /\ Finished = Tasks
  /\ drain' = "done" /\ UNCHANGED <<titled, talk, task, cooling>>

TitlesNext ==
  \/ \E t \in Tasks :
       \/ StartTask(t) \/ Evaluate(t) \/ (\E trigger \in Triggers : Count(t, trigger)) \/ Claim(t)
       \/ ListMessages(t) \/ AskModel(t) \/ StoreTitle(t) \/ StoreFallback(t)
  \/ (\E new \in {NewTitle, UserTitle} : Rename(new)) \/ Talk \/ Reselect \/ DeleteSession
  \/ WaitExpires \/ DrainTasks \/ DrainEnds

TitlesSpec == TitlesInit /\ [][TitlesNext]_titleVars

-----------------------------------------------------------------------------
\* An automatic title was made from the answers that were selected when it
\* was stored, though the model answered in between, and took the place of no
\* title the user gave; no task is left, and none starts, once a drain has
\* succeeded.
TitlesFitTheTalk ==
  /\ titled.kind = "auto" => titled.basis = titled.stored /\ titled.over = "default"
  /\ drain = "done" => Finished = Tasks
=============================================================================
