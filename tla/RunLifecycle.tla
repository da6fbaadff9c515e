----------------------------- MODULE RunLifecycle -----------------------------
(***************************************************************************)
(* The life of a chat run: the in-memory RunHub, the durable row of        *)
(* chat_run_reservations, the HTTP handler that admits the run, the worker *)
(* that executes it, the finalizers that end it, the two database          *)
(* transactions that cancel it behind the hub's back (account change,      *)
(* session deletion), the drain of the server, its crash and its restart.  *)
(*                                                                         *)
(* Every Postgres transaction is one atomic step.  Everything the process  *)
(* does between two transactions, or between two critical sections of      *)
(* RunHub.mu, is a step of its own.                                        *)
(***************************************************************************)
EXTENDS Naturals, FiniteSets

CONSTANTS
  Runs,          \* the run ids (client_run_id) of the instance
  Sessions,      \* the chat sessions
  Users,         \* the accounts
  SessionOf,     \* the session a run id is sent to
  UserOf,        \* the owner of a session
  Events         \* the external events that may happen (see AllEvents)

ASSUME SessionOfAssumption == SessionOf \in [Runs -> Sessions]
ASSUME UserOfAssumption    == UserOf \in [Sessions -> Users]

(* What clients, administrators, timers, the network and the machine may do. *)
AllEvents == {"stop", "first_output_timeout", "panic", "account", "delete",
              "drain", "crash", "expiry", "lost_answer", "reject"}

ASSUME EventsAssumption == Events \subseteq AllEvents

VARIABLES
  hub,      \* RunHub.runs: the in-memory state of each run
  row,      \* chat_run_reservations, with the answer batches stored for it
  lock,     \* who holds runState.transitionMu
  call,     \* the RunHub.transition call each finalizer has in progress
  decided,  \* the terminal facts frozen by the holder of transitionMu
  handler,  \* the HTTP request that reserved the run
  worker,   \* executeAgentRun
  stale,    \* requests whose auth version a later account change superseded
  deleted,  \* sessions with deleted_at set
  notify,   \* committed cancellations the hub has not been told about yet
  phase,    \* main.go: serving, draining, ..., down
  failedDrain, \* did FinalizeForDrain collect an error?
  acked,    \* history: runs of the hub whose stop was acknowledged
  seen,     \* history: the durable terminal status a client was shown
  execs     \* history: how often the run was handed to a worker

memory  == <<hub, lock, call, decided, handler, worker, stale, notify>>
history == <<acked, seen, execs>>
vars    == <<memory, row, deleted, phase, failedDrain, history>>

-----------------------------------------------------------------------------
(* Data *)

Terminal   == {"completed", "failed", "canceled"}
Causes     == {"user_stop", "first_output_timeout", "server_draining",
               "account_changed", "session_deleted", "upstream_canceled"}
MaybeCause == Causes \cup {""}
Finalizers == {"handler", "worker", "drain"}
Phases     == {"serving", "draining", "canceling", "finalizing",
               "drained", "forced", "down"}

HubState == [status : Terminal \cup {"absent", "running"}, cause : MaybeCause,
             ctx : MaybeCause, finishing : BOOLEAN, durable : BOOLEAN,
             owned : BOOLEAN, armed : BOOLEAN]
Row      == [status : Terminal \cup {"none", "running"}, cause : MaybeCause,
             answers : Nat]
Call     == [step : {"idle", "waiting", "frozen", "recorded"},
             stage : {"plain", "batch", "deferred"},
             status : Terminal, cause : MaybeCause, force : BOOLEAN]
Decision == [status : Terminal, cause : MaybeCause]

Absent   == [status |-> "absent", cause |-> "", ctx |-> "", finishing |-> FALSE,
             durable |-> FALSE, owned |-> FALSE, armed |-> FALSE]
Started  == [Absent EXCEPT !.status = "running"]
NoRow    == [status |-> "none", cause |-> "", answers |-> 0]
NoCall   == [step |-> "idle", stage |-> "plain", status |-> "failed",
             cause |-> "", force |-> FALSE]
Undecided == [status |-> "failed", cause |-> ""]

UserOfRun(r)  == UserOf[SessionOf[r]]
Up            == phase # "down"
Running(r)    == hub[r].status = "running"
Open(r)       == Running(r) /\ ~hub[r].finishing
Live(r)       == row[r].status = "running"
Ended(r)      == row[r].status \in Terminal

(* effectiveRunCancelCause: the hub's cause first, then the cause of the     *)
(* run's context (which the first-output timer cancels without the hub).    *)
Effective(r)  == IF hub[r].cause # "" THEN hub[r].cause ELSE hub[r].ctx

(* A context keeps the first cause it is canceled with. *)
Interrupted(h, c) == [h EXCEPT !.cause = c, !.ctx = IF @ = "" THEN c ELSE @]

(* applyStoredRunTerminal: the hub takes its terminal facts from the row. *)
FromDecision(h, d) ==
  [h EXCEPT !.status = d.status, !.cause = d.cause,
            !.finishing = FALSE, !.armed = FALSE]
FactsOf(w)    == [status |-> w.status, cause |-> w.cause]
EndRow(w, d, n) == [status |-> d.status, cause |-> d.cause, answers |-> w.answers + n]

TypeOK ==
  /\ hub \in [Runs -> HubState]
  /\ row \in [Runs -> Row]
  /\ lock \in [Runs -> Finalizers \cup {"free", "admission"}]
  /\ call \in [Runs -> [Finalizers -> Call]]
  /\ decided \in [Runs -> Decision]
  /\ handler \in [Runs -> {"idle", "reserved", "admitting", "read_running",
                           "read_terminal", "no_auth", "refused", "admitted",
                           "rejected_auth", "rejected", "failing"}]
  /\ worker \in [Runs -> {"none", "started", "setup", "generating",
                          "finalizing", "done"}]
  /\ stale \in SUBSET Runs
  /\ deleted \in SUBSET Sessions
  /\ notify \in SUBSET (({"account"} \X Users) \cup ({"session"} \X Sessions))
  /\ phase \in Phases
  /\ failedDrain \in BOOLEAN
  /\ acked \in SUBSET Runs
  /\ seen \in [Runs -> Terminal \cup {"none"}]
  /\ execs \in [Runs -> Nat]

Init ==
  /\ hub = [r \in Runs |-> Absent]
  /\ row = [r \in Runs |-> NoRow]
  /\ lock = [r \in Runs |-> "free"]
  /\ call = [r \in Runs |-> [f \in Finalizers |-> NoCall]]
  /\ decided = [r \in Runs |-> Undecided]
  /\ handler = [r \in Runs |-> "idle"]
  /\ worker = [r \in Runs |-> "none"]
  /\ stale = {}
  /\ deleted = {}
  /\ notify = {}
  /\ phase = "serving"
  /\ failedDrain = FALSE
  /\ acked = {}
  /\ seen = [r \in Runs |-> "none"]
  /\ execs = [r \in Runs |-> 0]

(* A call of RunHub.transition that has yet to take transitionMu. *)
Waiting(stage, status, cause, force) ==
  [step |-> "waiting", stage |-> stage, status |-> status, cause |-> cause,
   force |-> force]

Propose(r, f, stage, status, cause, force) ==
  call' = [call EXCEPT ![r][f] = Waiting(stage, status, cause, force)]

-----------------------------------------------------------------------------
(* Admission: the request handler *)

(* Fault: only a second reservation of the same run id is noticed. *)
SessionIsFreeOfThisRun(r) == ~Running(r)

(* Fault: a draining server still takes new runs. *)
AcceptingWhileDraining == Up

(* StartWithIntentAndFirstOutputTimeout for a run id the hub does not hold.  *)
(* The checks before it (MatchChatRun, preflight) may be out of date by now: *)
(* the row and the session are whatever they have become since.             *)
SessionIsFree(r) == \A q \in Runs : SessionOf[q] = SessionOf[r] => ~Running(q)

Accepting == phase = "serving"

Reserve(r) ==
  /\ Up /\ hub[r].status = "absent" /\ handler[r] = "idle"
  /\ Accepting /\ SessionIsFree(r)
  /\ hub' = [hub EXCEPT ![r] = Started]
  /\ handler' = [handler EXCEPT ![r] = "reserved"]
  /\ UNCHANGED <<row, lock, call, decided, worker, stale, deleted, notify,
                 phase, failedDrain, history>>

(* PersistAdmission up to its callback: a run a drain has ended is refused. *)
EnterAdmission(r) ==
  /\ handler[r] = "reserved" /\ lock[r] = "free"
  /\ IF Open(r)
       THEN /\ lock' = [lock EXCEPT ![r] = "admission"]
            /\ handler' = [handler EXCEPT ![r] = "admitting"]
       ELSE /\ handler' = [handler EXCEPT ![r] = "idle"]
            /\ UNCHANGED lock
  /\ stale' = IF Open(r) THEN stale ELSE stale \ {r}
  /\ UNCHANGED <<hub, row, call, decided, worker, deleted, notify, phase,
                 failedDrain, history>>

(* AdmitChatMessage: user (auth version), session, then the row.  A row that *)
(* exists is read back; a new one is inserted as running with its message.  *)
(* The limits, a claimed attachment or a lost connection refuse it.         *)
AdmissionReads(r, answer) ==
  /\ handler' = [handler EXCEPT ![r] = answer]
  /\ stale' = stale \ {r}
  /\ UNCHANGED <<hub, lock, call, decided, worker, deleted, notify, phase,
                 failedDrain, history>>

AdmissionRefused(r) ==
  /\ handler[r] = "admitting"
  /\ AdmissionReads(r, IF r \in stale THEN "no_auth" ELSE "refused")
  /\ UNCHANGED row

MayAdmit(r) ==
  /\ handler[r] = "admitting" /\ hub[r].ctx = ""
  /\ r \notin stale /\ SessionOf[r] \notin deleted

(* Fault: an admission replay forgets that the row has ended. *)
ReadBackRunning(r) == "read_running"

ReadBack(r) == IF Live(r) THEN "read_running" ELSE "read_terminal"

AdmissionExisting(r) ==
  /\ MayAdmit(r) /\ row[r].status # "none"
  /\ AdmissionReads(r, ReadBack(r))
  /\ UNCHANGED row

(* The commit may take effect although its answer is lost: "refused". *)
AdmissionCreated(r) ==
  /\ MayAdmit(r) /\ row[r].status = "none"
  /\ row' = [row EXCEPT ![r].status = "running"]
  /\ \/ AdmissionReads(r, "read_running")
     \/ "lost_answer" \in Events /\ AdmissionReads(r, "refused")

(* The rest of PersistAdmission, under transitionMu until it returns: the row *)
(* is running, had ended in an earlier life of the run id, or is not there. *)
LeaveAdmission(r) ==
  /\ lock' = [lock EXCEPT ![r] = "free"]
  /\ UNCHANGED <<row, call, decided, worker, stale, deleted, notify, phase,
                 failedDrain, acked, execs>>

AdmissionDurable(r) ==
  /\ handler[r] = "read_running"
  /\ hub' = [hub EXCEPT ![r].durable = TRUE]
  /\ handler' = [handler EXCEPT ![r] = "admitted"]
  /\ UNCHANGED seen
  /\ LeaveAdmission(r)

AdmissionReplayed(r) ==
  /\ handler[r] = "read_terminal"
  /\ hub' = [hub EXCEPT ![r] =
               [FromDecision(@, FactsOf(row[r])) EXCEPT !.durable = TRUE]]
  /\ handler' = [handler EXCEPT ![r] = "idle"]
  /\ seen' = [seen EXCEPT ![r] = row[r].status]
  /\ LeaveAdmission(r)

AdmissionFailed(r) ==
  /\ handler[r] \in {"no_auth", "refused"}
  /\ handler' = [handler EXCEPT ![r] =
                   IF @ = "no_auth" THEN "rejected_auth" ELSE "rejected"]
  /\ UNCHANGED <<hub, seen>>
  /\ LeaveAdmission(r)

(* The error paths of the handler: a superseded login cancels the run as     *)
(* account_changed, a cancellation already requested keeps its cause, and   *)
(* everything else fails the run.                                           *)
RejectAdmission(r) ==
  /\ handler[r] \in {"rejected_auth", "rejected"}
  /\ LET h == IF handler[r] = "rejected_auth" /\ Open(r) /\ hub[r].cause = ""
                THEN Interrupted(hub[r], "account_changed")
                ELSE hub[r]
         cause == IF h.cause # "" THEN h.cause ELSE h.ctx
     IN  /\ hub' = [hub EXCEPT ![r] = h]
         /\ Propose(r, "handler", "plain",
                    IF cause # "" THEN "canceled" ELSE "failed", cause, FALSE)
  /\ handler' = [handler EXCEPT ![r] = "failing"]
  /\ UNCHANGED <<row, lock, decided, worker, stale, deleted, notify, phase,
                 failedDrain, history>>

(* BeginExecution and the launch of the worker; a run that ended or is being *)
(* ended meanwhile is replayed instead.                                     *)
BeginExecution(r) ==
  /\ handler[r] = "admitted"
  /\ IF Open(r) /\ hub[r].durable /\ ~hub[r].owned
       THEN /\ hub' = [hub EXCEPT ![r] =
                         [@ EXCEPT !.owned = TRUE, !.armed = (hub[r].ctx = "")]]
            /\ worker' = [worker EXCEPT ![r] = "started"]
            /\ execs' = [execs EXCEPT ![r] = @ + 1]
       ELSE UNCHANGED <<hub, worker, execs>>
  /\ handler' = [handler EXCEPT ![r] = "idle"]
  /\ UNCHANGED <<row, lock, call, decided, stale, deleted, notify, phase,
                 failedDrain, acked, seen>>

(* replayKnownSessionRun with a terminal row: RestoreTerminal. *)
RestoreTerminal(r) ==
  /\ Up /\ hub[r].status = "absent" /\ handler[r] = "idle"
  /\ Ended(r)
  /\ hub' = [hub EXCEPT ![r] =
               [FromDecision(Absent, FactsOf(row[r])) EXCEPT !.durable = TRUE]]
  /\ seen' = [seen EXCEPT ![r] = row[r].status]
  /\ UNCHANGED <<row, lock, call, decided, handler, worker, stale, deleted,
                 notify, phase, failedDrain, acked, execs>>

-----------------------------------------------------------------------------
(* Execution: executeAgentRun *)

WorkerFrame == UNCHANGED <<row, lock, decided, handler, stale, deleted, notify,
                           phase, failedDrain, history>>

Finish(r, stage, status, cause, force) ==
  /\ Propose(r, "worker", stage, status, cause, force)
  /\ worker' = [worker EXCEPT ![r] = "finalizing"]

(* Record(message_start) comes first: it is refused once the run is frozen. *)
WorkerStart(r) ==
  /\ worker[r] = "started"
  /\ CASE ~Open(r)         -> Finish(r, "deferred", "failed", "", FALSE)
       [] Open(r) /\ hub[r].ctx # "" ->
            Finish(r, "plain", "canceled", Effective(r), FALSE)
       [] OTHER -> /\ worker' = [worker EXCEPT ![r] = "setup"]
                   /\ UNCHANGED call
  /\ UNCHANGED hub /\ WorkerFrame

(* Session, profile, skills, history, snapshot and PrepareChat.  Semantic    *)
(* cancellation goes before any error of the setup.                         *)
WorkerSetup(r) ==
  /\ worker[r] = "setup"
  /\ IF Effective(r) # ""
       THEN Finish(r, "plain", "canceled", Effective(r), FALSE)
       ELSE \/ /\ worker' = [worker EXCEPT ![r] = "generating"]
               /\ UNCHANGED call
            \/ \E stage \in {"plain", "batch"} :
                 Finish(r, stage, "failed", "", FALSE)
  /\ UNCHANGED hub /\ WorkerFrame

FirstOutput(r) ==
  /\ worker[r] = "generating" /\ hub[r].armed
  /\ hub' = [hub EXCEPT ![r].armed = FALSE]
  /\ UNCHANGED <<call, worker>> /\ WorkerFrame

(* The run-level first-output guard cancels the context, not the hub. *)
FirstOutputTimeout(r) ==
  /\ "first_output_timeout" \in Events /\ hub[r].armed
  /\ hub' = [hub EXCEPT ![r].armed = FALSE,
               ![r].ctx = IF @ = "" THEN "first_output_timeout" ELSE @]
  /\ UNCHANGED <<call, worker>> /\ WorkerFrame

(* RunPreparedChat returned.  A cancellation decides before the result; its  *)
(* partial answer is stored unless the session is gone.                     *)
WorkerOutcome(r) ==
  /\ worker[r] = "generating"
  /\ \/ /\ Effective(r) # ""
        /\ \E stage \in IF Effective(r) = "session_deleted"
                          THEN {"plain"} ELSE {"plain", "batch"} :
             Finish(r, stage, "canceled", Effective(r), FALSE)
     \/ /\ Effective(r) = ""
        /\ \/ \E stage \in {"plain", "batch"} :
                Finish(r, stage, "canceled", "upstream_canceled", FALSE)
           \/ Finish(r, "batch", "failed", "", FALSE)
           \/ Finish(r, "batch", "completed", "", FALSE)
  /\ UNCHANGED hub /\ WorkerFrame

(* The deferred recover: agent_run_panic. *)
WorkerPanic(r) ==
  /\ "panic" \in Events
  /\ worker[r] \in {"started", "setup", "generating"}
  /\ Finish(r, "deferred", "failed", "", TRUE)
  /\ UNCHANGED hub /\ WorkerFrame

-----------------------------------------------------------------------------
(* The terminal transition: RunHub.transition, one call per finalizer *)

(* What the caller does with the result.  The worker tries its fallback      *)
(* terminal after a failed message batch, then always its deferred one.     *)
Fallback(c, cause) ==
  IF c.status # "canceled" /\ cause = "session_deleted"
    THEN Waiting("plain", "canceled", cause, FALSE)
    ELSE Waiting("plain", "failed", IF c.status = "canceled" THEN c.cause ELSE "", TRUE)

(* Fault: the worker gives up after its first terminal attempt. *)
NextCallNever(c, f, ok, cause) == NoCall

NextCall(c, f, ok, cause) ==
  IF f # "worker" \/ c.stage = "deferred" THEN NoCall
  ELSE IF c.stage = "batch" /\ ~ok THEN Fallback(c, cause)
  ELSE Waiting("deferred", "failed", "", FALSE)

Return(r, f, ok) ==
  /\ call' = [call EXCEPT ![r][f] = NextCall(@, f, ok, Effective(r))]
  /\ handler' = IF f = "handler" THEN [handler EXCEPT ![r] = "idle"] ELSE handler
  /\ worker' = IF f = "worker" /\ call'[r][f].step = "idle"
                 THEN [worker EXCEPT ![r] = "done"] ELSE worker
  /\ failedDrain' = (failedDrain \/ (f = "drain" /\ ~ok))
  /\ UNCHANGED <<stale, deleted, notify, phase, acked, execs>>

(* transitionMu taken, but somebody ended the run first. *)
TransitionMoot(r, f) ==
  /\ call[r][f].step = "waiting" /\ lock[r] = "free" /\ ~Running(r)
  /\ Return(r, f, TRUE)
  /\ UNCHANGED <<hub, row, lock, decided, seen>>

(* The caller's context expired while it waited for transitionMu. *)
TransitionExpired(r, f) ==
  /\ call[r][f].step = "waiting" /\ lock[r] # "free"
  /\ Return(r, f, FALSE)
  /\ UNCHANGED <<hub, row, lock, decided, seen>>

(* Fault: the outcome of the worker wins over a requested cancellation. *)
DecideByResult(h, c) ==
  [status |-> c.status, cause |-> IF c.status = "completed" THEN "" ELSE h.cause]

(* The terminal decision.  A requested cancellation turns any other outcome  *)
(* into canceled unless the caller reports a finalization failure.          *)
Decide(h, c) ==
  [status |-> IF h.cause # "" /\ ~c.force THEN "canceled" ELSE c.status,
   cause  |-> IF h.cause # "" THEN h.cause ELSE c.cause]

Adopted(h, c) ==
  [h EXCEPT !.cause = IF @ = "" /\ c.cause = "" THEN h.ctx ELSE @]

Freeze(r, f) ==
  /\ call[r][f].step = "waiting" /\ lock[r] = "free" /\ Running(r)
  /\ LET c == call[r][f]
         h == Adopted(hub[r], c)
     IN  /\ hub' = [hub EXCEPT ![r] = [h EXCEPT !.finishing = TRUE]]
         /\ decided' = [decided EXCEPT ![r] = Decide(h, c)]
  /\ lock' = [lock EXCEPT ![r] = f]
  /\ call' = [call EXCEPT ![r][f].step = "frozen"]
  /\ UNCHANGED <<row, handler, worker, stale, deleted, notify, phase,
                 failedDrain, history>>

(* One attempt of persistFrozenRunTerminal: TransitionChatRun, or for a batch *)
(* CreateBatchAndTransitionActiveRun, which needs the session.  Both only    *)
(* move a row that is running and otherwise read back what it became; a run *)
(* that never was admitted has no row and ends in memory only.              *)
Persistable(r, c) ==
  IF c.stage = "batch" THEN SessionOf[r] \notin deleted /\ row[r].status # "none"
  ELSE row[r].status # "none" \/ ~hub[r].durable

StoredRow(r, c) ==
  IF Live(r) THEN EndRow(row[r], decided[r], IF c.stage = "batch" THEN 1 ELSE 0)
             ELSE row[r]

(* Fault: the transition reports its own decision. *)
RecordedDecision(r, c) == decided[r]

(* The canonical record the repository returns, whoever wrote it. *)
Recorded(r, c) ==
  IF row[r].status = "none" THEN decided[r] ELSE FactsOf(StoredRow(r, c))

(* Fault: the transition publishes without waiting for the database. *)
PersistTerminalOptimistic(r, f) ==
  /\ call[r][f].step = "frozen"
  /\ call' = [call EXCEPT ![r][f].step = "recorded"]
  /\ UNCHANGED <<hub, row, lock, decided, handler, worker, stale, deleted,
                 notify, phase, failedDrain, history>>

PersistTerminal(r, f) ==
  /\ call[r][f].step = "frozen"
  /\ Persistable(r, call[r][f])
  /\ row' = [row EXCEPT ![r] = StoredRow(r, call[r][f])]
  /\ decided' = [decided EXCEPT ![r] = Recorded(r, call[r][f])]
  /\ call' = [call EXCEPT ![r][f].step = "recorded"]
  /\ UNCHANGED <<hub, lock, handler, worker, stale, deleted, notify, phase,
                 failedDrain, history>>

(* The commit took effect but its answer was lost: the loop tries again. *)
PersistAnswerLost(r, f) ==
  /\ "lost_answer" \in Events
  /\ call[r][f].step = "frozen"
  /\ Persistable(r, call[r][f])
  /\ row' = [row EXCEPT ![r] = StoredRow(r, call[r][f])]
  /\ UNCHANGED <<hub, lock, call, decided, handler, worker, stale, deleted,
                 notify, phase, failedDrain, history>>

(* An error that is not retried: clearFinishing, and the run stays running. *)
PersistRejected(r, f) ==
  /\ call[r][f].step = "frozen"
  /\ \/ call[r][f].stage = "batch"
     \/ "reject" \in Events
     \/ ~Persistable(r, call[r][f])
  /\ hub' = [hub EXCEPT ![r].finishing = FALSE]
  /\ lock' = [lock EXCEPT ![r] = "free"]
  /\ decided' = [decided EXCEPT ![r] = Undecided]
  /\ Return(r, f, FALSE)
  /\ UNCHANGED <<row, seen>>

Publish(r, f) ==
  /\ call[r][f].step = "recorded"
  /\ hub' = [hub EXCEPT ![r] = FromDecision(@, decided[r])]
  /\ seen' = [seen EXCEPT ![r] = IF row[r].status = "none" THEN @
                                 ELSE decided[r].status]
  /\ lock' = [lock EXCEPT ![r] = "free"]
  /\ decided' = [decided EXCEPT ![r] = Undecided]
  /\ Return(r, f, TRUE)
  /\ UNCHANGED row

-----------------------------------------------------------------------------
(* Cancellation *)

(* CancelWithCause(user_stop): the answer "canceled: true" is the            *)
(* acknowledgment.  It counts only if the run has not already ended in the  *)
(* database.                                                                *)
UserStop(r) ==
  /\ "stop" \in Events
  /\ Open(r) /\ hub[r].cause \in {"", "user_stop"}
  /\ hub' = [hub EXCEPT ![r] = Interrupted(@, "user_stop")]
  /\ acked' = IF Ended(r) THEN acked ELSE acked \cup {r}
  /\ UNCHANGED <<row, lock, call, decided, handler, worker, stale, deleted,
                 notify, phase, failedDrain, seen, execs>>

ShouldReplace(current, next) ==
  /\ current # next
  /\ \/ next = "session_deleted"
     \/ next = "account_changed" /\ current # "session_deleted"

(* cancelMatching: frozen runs are skipped. *)
CancelMatching(S, cause) ==
  hub' = [r \in Runs |->
            IF /\ r \in S /\ Open(r)
               /\ hub[r].cause = "" \/ ShouldReplace(hub[r].cause, cause)
              THEN Interrupted(hub[r], cause) ELSE hub[r]]

(* cancelRunningChatRuns, in the transaction that changes the account or     *)
(* deletes the session.                                                     *)
CancelRows(S, cause) ==
  row' = [r \in Runs |->
            IF r \in S /\ Live(r)
              THEN EndRow(row[r], [status |-> "canceled", cause |-> cause], 0)
              ELSE row[r]]

(* The caller tells the hub once the commit is answered.  A lost answer is    *)
(* reported as an error, and the hub is not told at all.                    *)
Announced(change) ==
  {notify \cup {change}} \cup (IF "lost_answer" \in Events THEN {notify} ELSE {})

(* Role, activity or password change: the transaction bumps the auth version *)
(* and cancels the user's rows; the hub hears of it afterwards.             *)
ChangeAccount(u) ==
  /\ "account" \in Events /\ Up /\ <<"account", u>> \notin notify
  /\ LET mine == {r \in Runs : UserOfRun(r) = u}
     IN  /\ CancelRows(mine, "account_changed")
         /\ stale' = stale \cup
              {r \in mine : handler[r] \in {"reserved", "admitting"}}
  /\ notify' \in Announced(<<"account", u>>)
  /\ UNCHANGED <<hub, lock, call, decided, handler, worker, deleted, phase,
                 failedDrain, history>>

CancelByUser(u) ==
  /\ <<"account", u>> \in notify
  /\ CancelMatching({r \in Runs : UserOfRun(r) = u}, "account_changed")
  /\ notify' = notify \ {<<"account", u>>}
  /\ UNCHANGED <<row, lock, call, decided, handler, worker, stale, deleted,
                 phase, failedDrain, history>>

DeleteSession(s) ==
  /\ "delete" \in Events /\ Up /\ s \notin deleted
  /\ deleted' = deleted \cup {s}
  /\ CancelRows({r \in Runs : SessionOf[r] = s}, "session_deleted")
  /\ notify' \in Announced(<<"session", s>>)
  /\ UNCHANGED <<hub, lock, call, decided, handler, worker, stale, phase,
                 failedDrain, history>>

CancelSession(s) ==
  /\ <<"session", s>> \in notify
  /\ CancelMatching({r \in Runs : SessionOf[r] = s}, "session_deleted")
  /\ notify' = notify \ {<<"session", s>>}
  /\ UNCHANGED <<row, lock, call, decided, handler, worker, stale, deleted,
                 phase, failedDrain, history>>

-----------------------------------------------------------------------------
(* The process: drain, exit, crash, restart, expiry *)

ProcessFrame == UNCHANGED <<row, deleted, seen, execs>>

BeginDrain ==
  /\ "drain" \in Events
  /\ phase = "serving" /\ phase' = "draining"
  /\ UNCHANGED <<memory, failedDrain, acked>> /\ ProcessFrame

(* WaitForIdle timed out. *)
CancelForDrain ==
  /\ phase = "draining" /\ phase' = "canceling"
  /\ CancelMatching(Runs, "server_draining")
  /\ UNCHANGED <<lock, call, decided, handler, worker, stale, notify,
                 failedDrain, acked>>
  /\ ProcessFrame

(* It timed out again: one forced transition per run that is still running. *)
FinalizeForDrain ==
  /\ phase = "canceling" /\ phase' = "finalizing"
  /\ call' = [r \in Runs |->
       IF Running(r)
         THEN [call[r] EXCEPT !["drain"] =
                 Waiting("plain", "canceled",
                   IF hub[r].cause # "" THEN hub[r].cause ELSE "server_draining",
                   FALSE)]
         ELSE call[r]]
  /\ failedDrain' = FALSE
  /\ UNCHANGED <<hub, lock, decided, handler, worker, stale, notify, acked>>
  /\ ProcessFrame

WaitForIdle ==
  /\ phase \in {"draining", "canceling"}
  /\ \A r \in Runs : ~Running(r)
  /\ phase' = "drained"
  /\ UNCHANGED <<memory, failedDrain, acked>> /\ ProcessFrame

FinalizeReturns ==
  /\ phase = "finalizing"
  /\ \A r \in Runs : call[r]["drain"].step = "idle"
  /\ phase' = IF failedDrain THEN "forced" ELSE "drained"
  /\ UNCHANGED <<memory, failedDrain, acked>> /\ ProcessFrame

(* serverForceTerminalLimit passed with transitions outstanding. *)
FinalizeTimesOut ==
  /\ phase = "finalizing"
  /\ \E r \in Runs : call[r]["drain"].step # "idle"
  /\ phase' = "forced"
  /\ UNCHANGED <<memory, failedDrain, acked>> /\ ProcessFrame

LoseMemory ==
  /\ phase' = "down"
  /\ hub' = [r \in Runs |-> Absent]
  /\ lock' = [r \in Runs |-> "free"]
  /\ call' = [r \in Runs |-> [f \in Finalizers |-> NoCall]]
  /\ decided' = [r \in Runs |-> Undecided]
  /\ handler' = [r \in Runs |-> "idle"]
  /\ worker' = [r \in Runs |-> "none"]
  /\ stale' = {}
  /\ notify' = {}
  /\ failedDrain' = FALSE
  /\ acked' = {}
  /\ ProcessFrame

Exit  == phase \in {"drained", "forced"} /\ LoseMemory
Crash == "crash" \in Events /\ Up /\ LoseMemory

(* Fault: the process starts without reconciling. *)
ReconciledNothing(r) == row[r]

(* ReconcileRunningChatRuns runs before the server listens. *)
Reconciled(r) ==
  IF Live(r) THEN EndRow(row[r], [status |-> "failed", cause |-> ""], 0)
             ELSE row[r]

Restart ==
  /\ phase = "down" /\ phase' = "serving"
  /\ row' = [r \in Runs |-> Reconciled(r)]
  /\ UNCHANGED <<memory, deleted, failedDrain, history>>

(* cleanup: the state of an ended run expires.  Its time to live outlasts    *)
(* the handler and the worker of the run.                                   *)
Cleanup(r) ==
  /\ "expiry" \in Events
  /\ hub[r].status \in Terminal
  /\ handler[r] = "idle" /\ worker[r] \in {"none", "done"}
  /\ \A f \in Finalizers : call[r][f].step = "idle"
  /\ hub' = [hub EXCEPT ![r] = Absent]
  /\ worker' = [worker EXCEPT ![r] = "none"]
  /\ acked' = acked \ {r}
  /\ UNCHANGED <<row, lock, call, decided, handler, stale, deleted, notify,
                 phase, failedDrain, seen, execs>>

-----------------------------------------------------------------------------

HandlerStep(r) ==
  \/ EnterAdmission(r) \/ AdmissionRefused(r) \/ AdmissionExisting(r)
  \/ AdmissionCreated(r) \/ AdmissionDurable(r) \/ AdmissionReplayed(r)
  \/ AdmissionFailed(r) \/ RejectAdmission(r) \/ BeginExecution(r)

WorkerStep(r) ==
  WorkerStart(r) \/ WorkerSetup(r) \/ WorkerOutcome(r) \/ WorkerPanic(r)

TransitionStep(r, f) ==
  \/ TransitionMoot(r, f) \/ TransitionExpired(r, f) \/ Freeze(r, f)
  \/ PersistTerminal(r, f) \/ PersistAnswerLost(r, f) \/ PersistRejected(r, f)
  \/ Publish(r, f)

RunStep(r) ==
  \/ Reserve(r) \/ RestoreTerminal(r) \/ HandlerStep(r) \/ WorkerStep(r)
  \/ FirstOutput(r) \/ FirstOutputTimeout(r) \/ UserStop(r) \/ Cleanup(r)
  \/ \E f \in Finalizers : TransitionStep(r, f)

ProcessStep ==
  \/ BeginDrain \/ CancelForDrain \/ FinalizeForDrain \/ WaitForIdle
  \/ FinalizeReturns \/ FinalizeTimesOut \/ Exit \/ Crash \/ Restart

Next ==
  \/ \E r \in Runs : RunStep(r)
  \/ \E u \in Users : ChangeAccount(u) \/ CancelByUser(u)
  \/ \E s \in Sessions : DeleteSession(s) \/ CancelSession(s)
  \/ ProcessStep

Spec == Init /\ [][Next]_vars

(* The scheduler runs every goroutine that can proceed; Postgres answers a    *)
(* retried statement in the end; the provider ends a generation; a stopped  *)
(* process is started again.  Nothing obliges a client, an administrator or *)
(* a crash to act, a timer to fire, or a lost answer to happen.             *)
Fairness ==
  /\ \A r \in Runs :
       /\ WF_vars(HandlerStep(r)) /\ WF_vars(WorkerStep(r))
       /\ \A f \in Finalizers :
            /\ WF_vars(TransitionMoot(r, f) \/ Freeze(r, f))
            /\ WF_vars(PersistTerminal(r, f) \/ PersistRejected(r, f))
            /\ WF_vars(Publish(r, f))
  /\ \A u \in Users : WF_vars(CancelByUser(u))
  /\ \A s \in Sessions : WF_vars(CancelSession(s))
  /\ WF_vars(CancelForDrain \/ FinalizeForDrain \/ WaitForIdle)
  /\ WF_vars(FinalizeReturns \/ FinalizeTimesOut) /\ WF_vars(Exit)
  /\ WF_vars(Restart)

FairSpec == Spec /\ Fairness

-----------------------------------------------------------------------------
(* Properties *)

(* A session never has two running rows, although the database has no        *)
(* constraint for it: only RunHub's in-memory check keeps the rows apart.   *)
OneLiveRunPerSession ==
  \A q, r \in Runs :
    Live(q) /\ Live(r) /\ SessionOf[q] = SessionOf[r] => q = r

(* While the process is up, every running row is a running run of the hub:   *)
(* neither an ambiguous admission, nor an expired state, nor a cancellation *)
(* in the database leaves a row that nobody in this process will end.       *)
LiveRowIsInHub == Up => \A r \in Runs : Live(r) => Running(r)

(* ... and somebody is still working on it: its handler, its worker or a     *)
(* terminal transition.  (Only a plain terminal write that is rejected for  *)
(* good can strand a run.)                                                  *)
Attended(r) ==
  \/ handler[r] # "idle"
  \/ worker[r] \notin {"none", "done"}
  \/ \E f \in Finalizers : call[r][f].step # "idle"

RunningRunIsAttended ==
  "reject" \notin Events => \A r \in Runs : Running(r) => Attended(r)

(* The hub never shows another outcome than the row, whoever ended the row:  *)
(* the transition publishes the canonical record, not its own decision.     *)
HubAgreesWithRow ==
  \A r \in Runs : hub[r].status \in Terminal /\ row[r].status # "none" =>
    FactsOf(hub[r]) = FactsOf(row[r])

(* An outcome shown to a client is durable: it is the outcome of the row     *)
(* from then on, through crash, restart and restore.                        *)
ShownOutcomeIsDurable ==
  \A r \in Runs : seen[r] # "none" => row[r].status = seen[r]

(* A stop that was acknowledged while the run was going is never followed    *)
(* by a completed run.                                                      *)
StopIsHonoured == \A r \in acked : row[r].status # "completed"

(* A retried commit never stores the answer twice, and a run is completed    *)
(* exactly when its full answer went in with the status.                    *)
AnswersStoredOnce ==
  \A r \in Runs :
    /\ row[r].answers <= 1
    /\ row[r].answers = 1 => Ended(r)
    /\ row[r].status = "completed" => row[r].answers = 1

(* However often a run id is sent, across expiry, crash and restart, the     *)
(* model is called for it at most once.                                     *)
ExecutedAtMostOnce == \A r \in Runs : execs[r] <= 1

(* A drain that reports success leaves no running row for the next process   *)
(* to reconcile.                                                            *)
CleanDrainLeavesNothing == phase = "drained" => \A r \in Runs : ~Live(r)

(* No run is left behind, or stored twice, by whoever should end it: worker,  *)
(* handler or drain.                                                          *)
NoRunIsLeftBehind == TypeOK /\ AnswersStoredOnce /\ RunningRunIsAttended /\ CleanDrainLeavesNothing

(* No reservation blocks its session for ever. *)
ReservationsEnd == \A r \in Runs : Running(r) ~> ~Running(r)

-----------------------------------------------------------------------------
(* The durable contract this module implements: see RunLedger. *)
Ledger == INSTANCE RunLedger WITH ledger <- row, open <- Sessions \ deleted

(* Every step of hub, worker, cancellation, drain, crash or restart is, on    *)
(* the rows, a step of the ledger: rows end once, together with their answer, *)
(* and a deletion ends the running row of its own session and no other;       *)
(* every admitted run ends in the database, by its worker, by a cancellation, *)
(* by the drain or by the reconciliation after a crash.                       *)
LedgerSpec == Ledger!FairSpec
=============================================================================
