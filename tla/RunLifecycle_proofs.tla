-------------------------- MODULE RunLifecycle_proofs --------------------------
(***************************************************************************)
(* Proofs about RunLifecycle, for every set of runs, sessions, users and   *)
(* events: type correctness; the hub and the durable rows agree; the rows  *)
(* only make steps of RunLedger, whatever the hub, the workers, the drain, *)
(* a crash or a lost answer do; a stop that was acknowledged while the run *)
(* was going is honoured; the model is called at most once for a run id;   *)
(* and no run is left behind by whoever should end it.                     *)
(***************************************************************************)
EXTENDS RunLifecycle, TLAPS

-----------------------------------------------------------------------------
(* The records of the specification and the operators that build them *)

Stages == {"plain", "batch", "deferred"}

(* The initial records are records of their sets. *)
LEMMA ConstantsTyped ==
  /\ Absent \in HubState /\ Started \in HubState
  /\ NoRow \in Row
  /\ NoCall \in Call
  /\ Undecided \in Decision
BY DEF Absent, Started, HubState, NoRow, Row, NoCall, Call, Undecided, Decision,
       MaybeCause, Terminal

(* Whatever is done to the state of a run in the hub leaves such a state. *)
LEMMA HubUpdates ==
  ASSUME NEW h \in HubState
  PROVE  /\ \A c \in Causes : Interrupted(h, c) \in HubState
         /\ \A d \in Decision : FromDecision(h, d) \in HubState
         /\ [h EXCEPT !.durable = TRUE] \in HubState
         /\ [h EXCEPT !.finishing = TRUE] \in HubState
         /\ [h EXCEPT !.finishing = FALSE] \in HubState
         /\ [h EXCEPT !.armed = FALSE] \in HubState
         /\ [h EXCEPT !.owned = TRUE, !.armed = (h.ctx = "")] \in HubState
         /\ [h EXCEPT !.armed = FALSE,
               !.ctx = IF @ = "" THEN "first_output_timeout" ELSE @] \in HubState
         /\ h.cause \in MaybeCause /\ h.ctx \in MaybeCause
<1>. USE DEF HubState
<1>1. \A c \in Causes : Interrupted(h, c) \in HubState
  BY DEF Interrupted, MaybeCause
<1>2. \A d \in Decision : FromDecision(h, d) \in HubState
  BY DEF FromDecision, Decision
<1>3. [h EXCEPT !.durable = TRUE] \in HubState
  OBVIOUS
<1>4. /\ [h EXCEPT !.finishing = TRUE] \in HubState
      /\ [h EXCEPT !.finishing = FALSE] \in HubState
      /\ [h EXCEPT !.armed = FALSE] \in HubState
  OBVIOUS
<1>5. [h EXCEPT !.owned = TRUE, !.armed = (h.ctx = "")] \in HubState
  OBVIOUS
<1>6. [h EXCEPT !.armed = FALSE,
               !.ctx = IF @ = "" THEN "first_output_timeout" ELSE @] \in HubState
  BY DEF MaybeCause, Causes
<1>. QED
  BY <1>1, <1>2, <1>3, <1>4, <1>5, <1>6

(* The terminal decision is one, and adopting it leaves a state of the hub. *)
LEMMA DecideTyped ==
  ASSUME NEW h \in HubState, NEW c \in Call
  PROVE  Adopted(h, c) \in HubState /\ Decide(h, c) \in Decision
<1>1. Adopted(h, c) \in HubState
  BY DEF Adopted, HubState
<1>2. Decide(h, c) \in Decision
  BY DEF Decide, HubState, Call, Decision, Terminal
<1>. QED
  BY <1>1, <1>2

(* The follow-up of a call is a call again. *)
LEMMA CallUpdates ==
  /\ \A stage \in Stages, status \in Terminal, cause \in MaybeCause, force \in BOOLEAN :
       Waiting(stage, status, cause, force) \in Call
  /\ \A c \in Call : /\ [c EXCEPT !.step = "frozen"] \in Call
                     /\ [c EXCEPT !.step = "recorded"] \in Call
  /\ \A c \in Call, f \in Finalizers, ok \in BOOLEAN, cause \in MaybeCause :
       NextCall(c, f, ok, cause) \in Call
<1>1. \A stage \in Stages, status \in Terminal, cause \in MaybeCause, force \in BOOLEAN :
        Waiting(stage, status, cause, force) \in Call
  BY DEF Waiting, Call, Stages
<1>2. \A c \in Call : /\ [c EXCEPT !.step = "frozen"] \in Call
                     /\ [c EXCEPT !.step = "recorded"] \in Call
                     /\ c.cause \in MaybeCause
  BY DEF Call
<1>3. \A c \in Call, cause \in MaybeCause : Fallback(c, cause) \in Call
  BY <1>1, <1>2 DEF Fallback, Stages, Terminal, MaybeCause
<1>4. \A c \in Call, f \in Finalizers, ok \in BOOLEAN, cause \in MaybeCause :
        NextCall(c, f, ok, cause) \in Call
  BY <1>1, <1>3, ConstantsTyped DEF NextCall, Stages, Terminal, MaybeCause
<1>. QED
  BY <1>1, <1>2, <1>4

(* Proposing a terminal outcome leaves a well-typed table of calls. *)
LEMMA ProposeTyped ==
  ASSUME call \in [Runs -> [Finalizers -> Call]],
         NEW r \in Runs, NEW f \in Finalizers, NEW stage \in Stages,
         NEW status \in Terminal, NEW cause \in MaybeCause, NEW force \in BOOLEAN,
         Propose(r, f, stage, status, cause, force)
  PROVE  call' \in [Runs -> [Finalizers -> Call]]
<1>1. Waiting(stage, status, cause, force) \in Call
  BY CallUpdates
<1>. QED
  BY <1>1 DEF Propose

(* Ending a row leaves a row, and its facts are a terminal decision. *)
LEMMA RowUpdates ==
  ASSUME NEW w \in Row
  PROVE  /\ [w EXCEPT !.status = "running"] \in Row
         /\ w.status \in Terminal => FactsOf(w) \in Decision
         /\ \A d \in Decision : EndRow(w, d, 0) \in Row /\ EndRow(w, d, 1) \in Row
BY DEF Row, FactsOf, EndRow, Decision

-----------------------------------------------------------------------------
(* Type correctness *)

(* TypeOK is not inductive alone: a replayed admission copies the status of  *)
(* the row into the hub, which is a status of the hub because the row has   *)
(* ended and stays so.                                                      *)
ReadTerminalEnded == \A r \in Runs : handler[r] = "read_terminal" => Ended(r)

TypeInv == TypeOK /\ ReadTerminalEnded

(* The initial state is well typed. *)
LEMMA TypeInit == Init => TypeInv
<1>. SUFFICES ASSUME Init PROVE TypeInv
  OBVIOUS
<1>1. hub \in [Runs -> HubState] /\ row \in [Runs -> Row]
  BY ConstantsTyped DEF Init
<1>2. call \in [Runs -> [Finalizers -> Call]] /\ decided \in [Runs -> Decision]
  BY ConstantsTyped DEF Init
<1>. QED
  BY <1>1, <1>2 DEF Init, TypeInv, TypeOK, ReadTerminalEnded, Phases

(* The effective cause of a run is a cause or none. *)
LEMMA EffectiveTyped ==
  ASSUME TypeInv, NEW r \in Runs
  PROVE  Effective(r) \in MaybeCause
BY HubUpdates DEF Effective, TypeInv, TypeOK

(* The worker ends with some well-typed outcome. *)
Finishes(r) ==
  \E stage \in Stages, status \in Terminal, cause \in MaybeCause, force \in BOOLEAN :
    Finish(r, stage, status, cause, force)

(* The worker ends in a well-typed call. *)
LEMMA FinishTyped ==
  ASSUME TypeInv, NEW r \in Runs, Finishes(r)
  PROVE  call' \in [Runs -> [Finalizers -> Call]]
BY ProposeTyped, SMTT(30) DEF Finishes, Finish, TypeInv, TypeOK, Finalizers

(* Every step leaves the state well typed. *)
LEMMA TypeNext == TypeInv /\ [Next]_vars => TypeInv'
<1>. SUFFICES ASSUME TypeInv, [Next]_vars PROVE TypeInv'
  OBVIOUS
<1>. USE DEF TypeInv, TypeOK, ReadTerminalEnded
<1>1. ASSUME NEW r \in Runs, Reserve(r) PROVE TypeInv'
  BY <1>1, ConstantsTyped DEF Reserve, Ended, history
<1>2. ASSUME NEW r \in Runs, EnterAdmission(r) PROVE TypeInv'
  BY <1>2 DEF EnterAdmission, Ended, history
<1>3. ASSUME NEW r \in Runs, AdmissionRefused(r) PROVE TypeInv'
  BY <1>3 DEF AdmissionRefused, AdmissionReads, Ended, history
<1>4. ASSUME NEW r \in Runs, AdmissionExisting(r) PROVE TypeInv'
  <2>1. ReadTerminalEnded'
    BY <1>4 DEF AdmissionExisting, AdmissionReads, ReadBack, Ended, Live,
       Row
  <2>. QED
    BY <1>4, <2>1 DEF AdmissionExisting, AdmissionReads, ReadBack, history
<1>5. ASSUME NEW r \in Runs, AdmissionCreated(r) PROVE TypeInv'
  <2>1. row' \in [Runs -> Row]
    BY <1>5, RowUpdates DEF AdmissionCreated
  <2>2. ReadTerminalEnded'
    BY <1>5, ZenonT(60) DEF AdmissionCreated, AdmissionReads, MayAdmit, Ended,
       Terminal
  <2>. QED
    BY <1>5, <2>1, <2>2 DEF AdmissionCreated, AdmissionReads, history
<1>6. ASSUME NEW r \in Runs, AdmissionDurable(r) PROVE TypeInv'
  <2>1. hub' \in [Runs -> HubState]
    BY <1>6, HubUpdates, ZenonT(60) DEF AdmissionDurable
  <2>. QED
    BY <1>6, <2>1 DEF AdmissionDurable, LeaveAdmission, Ended
<1>7. ASSUME NEW r \in Runs, AdmissionReplayed(r) PROVE TypeInv'
  <2>1. FromDecision(hub[r], FactsOf(row[r])) \in HubState
    BY <1>7, HubUpdates, RowUpdates, ZenonT(60) DEF AdmissionReplayed, Ended
  <2>2. hub' \in [Runs -> HubState]
    BY <1>7, <2>1, HubUpdates DEF AdmissionReplayed
  <2>. QED
    BY <1>7, <2>1, <2>2 DEF AdmissionReplayed, LeaveAdmission, Ended
<1>8. ASSUME NEW r \in Runs, AdmissionFailed(r) PROVE TypeInv'
  BY <1>8 DEF AdmissionFailed, LeaveAdmission, Ended
<1>9. ASSUME NEW r \in Runs, RejectAdmission(r) PROVE TypeInv'
  <2>1. PICK h \in HubState :
          /\ hub' = [hub EXCEPT ![r] = h]
          /\ LET cause == IF h.cause # "" THEN h.cause ELSE h.ctx
             IN  Propose(r, "handler", "plain",
                         IF cause # "" THEN "canceled" ELSE "failed", cause, FALSE)
    BY <1>9, HubUpdates, ZenonT(60) DEF RejectAdmission, Causes
  <2>2. h.cause \in MaybeCause /\ h.ctx \in MaybeCause
    BY HubUpdates
  <2>3. call' \in [Runs -> [Finalizers -> Call]]
    BY <2>1, <2>2, ProposeTyped DEF Stages, Terminal, Finalizers
  <2>4. hub' \in [Runs -> HubState]
    BY <2>1
  <2>5. /\ handler' = [handler EXCEPT ![r] = "failing"]
        /\ UNCHANGED <<row, lock, decided, worker, stale, deleted, notify,
                       phase, failedDrain, history>>
    BY <1>9 DEF RejectAdmission
  <2>. QED
    BY <2>3, <2>4, <2>5, SMTT(30) DEF history, Ended
<1>10. ASSUME NEW r \in Runs, BeginExecution(r) PROVE TypeInv'
  <2>1. CASE ~(Open(r) /\ hub[r].durable /\ ~hub[r].owned)
    BY <1>10, <2>1 DEF BeginExecution, Ended
  <2>2. CASE Open(r) /\ hub[r].durable /\ ~hub[r].owned
    <3>1. PICK h \in HubState :
            h = [hub[r] EXCEPT !.owned = TRUE, !.armed = (hub[r].ctx = "")]
      BY HubUpdates
    <3>2. /\ hub' = [hub EXCEPT ![r] = h]
          /\ worker' = [worker EXCEPT ![r] = "started"]
          /\ execs' = [execs EXCEPT ![r] = @ + 1]
      BY <1>10, <2>2, <3>1 DEF BeginExecution
    <3>. QED
      BY <1>10, <3>2, SMTT(30) DEF BeginExecution, Ended
  <2>. QED
    BY <2>1, <2>2
<1>11. ASSUME NEW r \in Runs, RestoreTerminal(r) PROVE TypeInv'
  <2>1. FromDecision(Absent, FactsOf(row[r])) \in HubState
    BY <1>11, HubUpdates, RowUpdates, ConstantsTyped, ZenonT(60) DEF RestoreTerminal,
       Ended
  <2>2. hub' \in [Runs -> HubState]
    BY <1>11, <2>1, HubUpdates DEF RestoreTerminal
  <2>3. seen' \in [Runs -> Terminal \cup {"none"}]
    BY <1>11 DEF RestoreTerminal, Ended
  <2>. QED
    BY <1>11, <2>1, <2>2, <2>3, SMTT(30) DEF RestoreTerminal, Ended
<1>12. ASSUME NEW r \in Runs, WorkerStart(r) PROVE TypeInv'
  <2>1. CASE Finishes(r)
    BY <1>12, <2>1, FinishTyped DEF WorkerStart, Finish, WorkerFrame,
       history, Ended
  <2>2. CASE UNCHANGED call
    BY <1>12, <2>2 DEF WorkerStart, Finish, WorkerFrame, history, Ended
  <2>. QED
    BY <1>12, <2>1, <2>2, EffectiveTyped DEF WorkerStart, Finishes, Stages,
       Terminal, MaybeCause
<1>13. ASSUME NEW r \in Runs, WorkerSetup(r) PROVE TypeInv'
  <2>1. CASE Finishes(r)
    BY <1>13, <2>1, FinishTyped DEF WorkerSetup, Finish, WorkerFrame,
       history, Ended
  <2>2. CASE UNCHANGED call
    BY <1>13, <2>2 DEF WorkerSetup, Finish, WorkerFrame, history, Ended
  <2>. QED
    BY <1>13, <2>1, <2>2, EffectiveTyped DEF WorkerSetup, Finishes, Stages,
       Terminal, MaybeCause
<1>14. ASSUME NEW r \in Runs, WorkerOutcome(r) PROVE TypeInv'
  <2>1. ASSUME Effective(r) # "" PROVE Finishes(r)
    BY <1>14, <2>1, EffectiveTyped DEF WorkerOutcome, Finishes, Stages, Terminal
  <2>2. ASSUME Effective(r) = "" PROVE Finishes(r)
    BY <1>14, <2>2 DEF WorkerOutcome, Finishes, Stages, Terminal, MaybeCause, Causes
  <2>3. call' \in [Runs -> [Finalizers -> Call]]
    BY <2>1, <2>2, FinishTyped
  <2>. QED
    BY <1>14, <2>3 DEF WorkerOutcome, Finish, WorkerFrame, history, Ended
<1>15. ASSUME NEW r \in Runs, WorkerPanic(r) PROVE TypeInv'
  <2>1. call' \in [Runs -> [Finalizers -> Call]]
    BY <1>15, FinishTyped DEF WorkerPanic, Finishes, Stages, Terminal, MaybeCause
  <2>. QED
    BY <1>15, <2>1 DEF WorkerPanic, Finish, WorkerFrame, history, Ended
<1>16. ASSUME NEW r \in Runs, FirstOutput(r) PROVE TypeInv'
  <2>1. hub' \in [Runs -> HubState]
    BY <1>16, HubUpdates, ZenonT(60) DEF FirstOutput
  <2>. QED
    BY <1>16, <2>1, SMTT(30) DEF FirstOutput, WorkerFrame, history, Ended
<1>17. ASSUME NEW r \in Runs, FirstOutputTimeout(r) PROVE TypeInv'
  <2>1. hub' \in [Runs -> HubState]
    BY <1>17, HubUpdates DEF FirstOutputTimeout
  <2>. QED
    BY <1>17, <2>1 DEF FirstOutputTimeout, WorkerFrame, history, Ended
<1>18. ASSUME NEW r \in Runs, NEW f \in Finalizers, TransitionMoot(r, f) PROVE TypeInv'
  <2>1. call' \in [Runs -> [Finalizers -> Call]]
    BY <1>18, EffectiveTyped, CallUpdates DEF TransitionMoot, Return
  <2>. QED
    BY <1>18, <2>1 DEF TransitionMoot, Return, Ended
<1>19. ASSUME NEW r \in Runs, NEW f \in Finalizers, TransitionExpired(r, f) PROVE TypeInv'
  <2>1. call' \in [Runs -> [Finalizers -> Call]]
    BY <1>19, EffectiveTyped, CallUpdates DEF TransitionExpired, Return
  <2>. QED
    BY <1>19, <2>1 DEF TransitionExpired, Return, Ended
<1>20. ASSUME NEW r \in Runs, NEW f \in Finalizers, Freeze(r, f) PROVE TypeInv'
  <2>1. PICK h \in HubState : /\ h = Adopted(hub[r], call[r][f])
                         /\ Decide(h, call[r][f]) \in Decision
    BY DecideTyped
  <2>2. hub' \in [Runs -> HubState]
    BY <1>20, <2>1, HubUpdates DEF Freeze
  <2>3. decided' \in [Runs -> Decision]
    BY <1>20, <2>1 DEF Freeze
  <2>4. call' \in [Runs -> [Finalizers -> Call]]
    BY <1>20, CallUpdates, ZenonT(60) DEF Freeze
  <2>. QED
    BY <1>20, <2>1, <2>2, <2>3, <2>4 DEF Freeze, history, Ended
<1>21. ASSUME NEW r \in Runs, NEW f \in Finalizers, PersistTerminal(r, f) PROVE TypeInv'
  <2>1. StoredRow(r, call[r][f]) \in Row
    BY <1>21, RowUpdates DEF StoredRow
  <2>2. row[r].status # "none" => StoredRow(r, call[r][f]).status \in Terminal
    BY <1>21 DEF StoredRow, EndRow, Live, Decision, Row
  <2>3. Recorded(r, call[r][f]) \in Decision
    BY <1>21, <2>1, <2>2, RowUpdates DEF Recorded
  <2>4. row' \in [Runs -> Row] /\ decided' \in [Runs -> Decision]
    BY <1>21, <2>1, <2>3 DEF PersistTerminal
  <2>5. call' \in [Runs -> [Finalizers -> Call]]
    BY <1>21, CallUpdates, ZenonT(60) DEF PersistTerminal
  <2>6. ReadTerminalEnded'
    BY <1>21 DEF PersistTerminal, Ended, StoredRow, EndRow, Decision, Live
  <2>. QED
    BY <1>21, <2>1, <2>2, <2>3, <2>4, <2>5, <2>6 DEF PersistTerminal,
       history
<1>22. ASSUME NEW r \in Runs, NEW f \in Finalizers, PersistAnswerLost(r, f) PROVE TypeInv'
  <2>1. row' \in [Runs -> Row]
    BY <1>22, RowUpdates DEF PersistAnswerLost, StoredRow
  <2>2. ReadTerminalEnded'
    BY <1>22 DEF PersistAnswerLost, Ended, StoredRow, EndRow, Decision,
       Live
  <2>. QED
    BY <1>22, <2>1, <2>2 DEF PersistAnswerLost, history
<1>23. ASSUME NEW r \in Runs, NEW f \in Finalizers, PersistRejected(r, f) PROVE TypeInv'
  <2>1. call' \in [Runs -> [Finalizers -> Call]]
    BY <1>23, EffectiveTyped, CallUpdates DEF PersistRejected, Return
  <2>2. hub' \in [Runs -> HubState]
    BY <1>23, HubUpdates DEF PersistRejected
  <2>3. decided' \in [Runs -> Decision]
    BY <1>23, ConstantsTyped DEF PersistRejected
  <2>. QED
    BY <1>23, <2>1, <2>2, <2>3 DEF PersistRejected, Return, Ended
<1>24. ASSUME NEW r \in Runs, NEW f \in Finalizers, Publish(r, f) PROVE TypeInv'
  <2>1. call' \in [Runs -> [Finalizers -> Call]]
    BY <1>24, EffectiveTyped, CallUpdates, ZenonT(60) DEF Publish, Return
  <2>2. hub' \in [Runs -> HubState]
    BY <1>24, HubUpdates DEF Publish
  <2>3. decided' \in [Runs -> Decision]
    BY <1>24, ConstantsTyped DEF Publish
  <2>4. seen' \in [Runs -> Terminal \cup {"none"}]
    BY <1>24 DEF Publish, Decision
  <2>. QED
    BY <1>24, <2>1, <2>2, <2>3, <2>4, ZenonT(60) DEF Publish, Return, Ended
<1>25. ASSUME NEW r \in Runs, UserStop(r) PROVE TypeInv'
  <2>1. hub' \in [Runs -> HubState]
    BY <1>25, HubUpdates DEF UserStop, Causes
  <2>. QED
    BY <1>25, <2>1, ZenonT(60) DEF UserStop, Ended
<1>26. ASSUME NEW r \in Runs, Cleanup(r) PROVE TypeInv'
  <2>1. hub' \in [Runs -> HubState]
    BY <1>26, ConstantsTyped DEF Cleanup
  <2>. QED
    BY <1>26, <2>1 DEF Cleanup, Ended
<1>27. ASSUME NEW u \in Users, ChangeAccount(u) PROVE TypeInv'
  <2>1. row' \in [Runs -> Row]
    BY <1>27, RowUpdates DEF ChangeAccount, CancelRows, Decision,
       Terminal, Causes, MaybeCause
  <2>2. ReadTerminalEnded'
    BY <1>27 DEF ChangeAccount, CancelRows, Ended, Live, EndRow, Terminal
  <2>. QED
    BY <1>27, <2>1, <2>2 DEF ChangeAccount, Announced, history
<1>28. ASSUME NEW s \in Sessions, DeleteSession(s) PROVE TypeInv'
  <2>1. row' \in [Runs -> Row]
    BY <1>28, RowUpdates DEF DeleteSession, CancelRows, Decision,
       Terminal, Causes, MaybeCause
  <2>2. ReadTerminalEnded'
    BY <1>28 DEF DeleteSession, CancelRows, Ended, Live, EndRow, Terminal
  <2>. QED
    BY <1>28, <2>1, <2>2 DEF DeleteSession, Announced, history
<1>29. ASSUME NEW u \in Users, CancelByUser(u) PROVE TypeInv'
  <2>1. hub' \in [Runs -> HubState]
    BY <1>29, HubUpdates DEF CancelByUser, CancelMatching, Causes
  <2>. QED
    BY <1>29, <2>1, SMTT(30) DEF CancelByUser, history, Ended
<1>30. ASSUME NEW s \in Sessions, CancelSession(s) PROVE TypeInv'
  <2>1. hub' \in [Runs -> HubState]
    BY <1>30, HubUpdates DEF CancelSession, CancelMatching, Causes
  <2>. QED
    BY <1>30, <2>1, SMTT(30) DEF CancelSession, history, Ended
<1>31. ASSUME BeginDrain PROVE TypeInv'
  BY <1>31 DEF BeginDrain, ProcessFrame, memory, Ended, Phases
<1>32. ASSUME WaitForIdle PROVE TypeInv'
  BY <1>32 DEF WaitForIdle, ProcessFrame, memory, Ended, Phases
<1>33. ASSUME FinalizeReturns PROVE TypeInv'
  BY <1>33 DEF FinalizeReturns, ProcessFrame, memory, Ended, Phases
<1>34. ASSUME FinalizeTimesOut PROVE TypeInv'
  BY <1>34 DEF FinalizeTimesOut, ProcessFrame, memory, Ended, Phases
<1>35. ASSUME CancelForDrain PROVE TypeInv'
  <2>1. hub' \in [Runs -> HubState]
    BY <1>35, HubUpdates DEF CancelForDrain, CancelMatching, Causes
  <2>. QED
    BY <1>35, <2>1, SMTT(30) DEF CancelForDrain, ProcessFrame, Ended, Phases
<1>36. ASSUME FinalizeForDrain PROVE TypeInv'
  <2>1. call' \in [Runs -> [Finalizers -> Call]]
    BY <1>36, CallUpdates, HubUpdates, ZenonT(60) DEF FinalizeForDrain, Stages,
       Terminal, MaybeCause, Causes, Finalizers
  <2>. QED
    BY <1>36, <2>1, ZenonT(60) DEF FinalizeForDrain, ProcessFrame, Ended, Phases
<1>37. ASSUME LoseMemory PROVE TypeInv'
  <2>1. hub' \in [Runs -> HubState]
    BY <1>37, ConstantsTyped DEF LoseMemory
  <2>2. call' \in [Runs -> [Finalizers -> Call]]
    BY <1>37, ConstantsTyped DEF LoseMemory
  <2>3. decided' \in [Runs -> Decision]
    BY <1>37, ConstantsTyped DEF LoseMemory
  <2>. QED
    BY <1>37, <2>1, <2>2, <2>3 DEF LoseMemory, ProcessFrame, Ended, Phases
<1>38. ASSUME Restart PROVE TypeInv'
  <2>1. row' \in [Runs -> Row]
    BY <1>38, RowUpdates DEF Restart, Reconciled, Decision, MaybeCause,
       Terminal
  <2>2. ReadTerminalEnded'
    BY <1>38 DEF Restart, Reconciled, Ended, Live, EndRow, Terminal,
       memory
  <2>. QED
    BY <1>38, <2>1, <2>2 DEF Restart, memory, history, Phases
<1>39. CASE UNCHANGED vars
  BY <1>39 DEF vars, memory, history, Ended
<1>. QED
  BY <1>1, <1>2, <1>3, <1>4, <1>5, <1>6, <1>7, <1>8, <1>9, <1>10, <1>11,
     <1>12, <1>13, <1>14, <1>15, <1>16, <1>17, <1>18, <1>19, <1>20, <1>21,
     <1>22, <1>23, <1>24, <1>25, <1>26, <1>27, <1>28, <1>29, <1>30, <1>31,
     <1>32, <1>33, <1>34, <1>35, <1>36, <1>37, <1>38, <1>39 DEF Next,
     RunStep, HandlerStep, WorkerStep, TransitionStep, ProcessStep, Exit,
     Crash

(* Every reachable state of the run lifecycle is well typed. *)
THEOREM TypeCorrect == Spec => []TypeOK
<1>1. TypeInv => TypeOK
  BY DEF TypeInv
<1>. QED
  BY <1>1, TypeInit, TypeNext, PTL DEF Spec

-----------------------------------------------------------------------------
(* Safety: the hub and the rows agree *)

InAdmission == {"admitting", "read_running", "read_terminal", "no_auth", "refused"}
Holding     == {"frozen", "recorded"}

(* transitionMu: a finalizer past its decision, or a handler inside the       *)
(* admission callback, holds it, and the run is running meanwhile.          *)
FinalizerHolds(r) ==
  \A f \in Finalizers : call[r][f].step \in Holding => lock[r] = f /\ Running(r)

AdmissionHolds(r) ==
  handler[r] \in InAdmission => lock[r] = "admission" /\ Running(r)

(* What a finalizer is about to publish is what the row says, if there is one. *)
RecordIsCanonical(r) ==
  \A f \in Finalizers : call[r][f].step = "recorded" =>
    ~Live(r) /\ (row[r].status # "none" => decided[r] = FactsOf(row[r]))

(* The parts of the invariant that concern one run. *)
RunInv(r) ==
  /\ FinalizerHolds(r) /\ AdmissionHolds(r) /\ RecordIsCanonical(r)
  /\ phase = "down" => hub[r].status = "absent"
  /\ phase # "down" /\ Live(r) => Running(r)
  /\ hub[r].status \in Terminal /\ row[r].status # "none" =>
       FactsOf(hub[r]) = FactsOf(row[r])
  /\ seen[r] # "none" => row[r].status = seen[r]

(* Two running runs of the hub belong to two sessions. *)
SoleReservation ==
  \A q, r \in Runs : Running(q) /\ Running(r) /\ SessionOf[q] = SessionOf[r] => q = r

HubInv == SoleReservation /\ \A r \in Runs : RunInv(r)

(* A step leaves alone what the invariant reads of a run. *)
Same(q) ==
  /\ hub'[q].status = hub[q].status
  /\ hub[q].status \in Terminal => FactsOf(hub'[q]) = FactsOf(hub[q])
  /\ row'[q] = row[q] /\ lock'[q] = lock[q] /\ decided'[q] = decided[q]
  /\ seen'[q] = seen[q]
  /\ \A f \in Finalizers :
       call'[q][f].step \in Holding => call'[q][f].step = call[q][f].step
  /\ handler'[q] \in InAdmission => handler[q] \in InAdmission

SameProcess == (phase' = "down") <=> (phase = "down")

(* What holds of a run still holds after a step that leaves it alone. *)
LEMMA SameKeeps ==
  ASSUME NEW q \in Runs, RunInv(q), SameProcess, Same(q)
  PROVE  RunInv(q)'
BY DEF RunInv, SameProcess, Same, FinalizerHolds, AdmissionHolds, RecordIsCanonical,
       Holding, Running, Live, FactsOf

(* A step that leaves every run alone keeps the invariant ... *)
LEMMA AllSame ==
  ASSUME HubInv, SameProcess, \A q \in Runs : Same(q)
  PROVE  HubInv'
<1>1. \A q \in Runs : RunInv(q)'
  BY SameKeeps DEF HubInv
<1>2. SoleReservation'
  BY DEF HubInv, SoleReservation, Same, Running
<1>. QED
  BY <1>1, <1>2 DEF HubInv

(* ... and so does a step of one run that keeps its part and starts nothing. *)
LEMMA OthersSame ==
  ASSUME HubInv, SameProcess, NEW r \in Runs,
         \A q \in Runs \ {r} : Same(q),
         RunInv(r)', Running(r)' => Running(r)
  PROVE  HubInv'
<1>1. \A q \in Runs : RunInv(q)'
  BY SameKeeps DEF HubInv
<1>2. SoleReservation'
  BY DEF HubInv, SoleReservation, Same, Running
<1>. QED
  BY <1>1, <1>2 DEF HubInv

(* A fresh process with no rows satisfies the invariant. *)
LEMMA HubInit == Init => HubInv
<1>. SUFFICES ASSUME Init PROVE HubInv
  OBVIOUS
<1>1. \A r \in Runs : hub[r].status = "absent"
  BY DEF Init, Absent
<1>2. SoleReservation
  BY <1>1 DEF SoleReservation, Running
<1>3. ASSUME NEW r \in Runs PROVE RunInv(r)
  BY <1>1 DEF Init, RunInv, FinalizerHolds, AdmissionHolds, RecordIsCanonical, Holding,
     InAdmission, Absent, NoRow, NoCall, Live, Terminal
<1>. QED
  BY <1>2, <1>3 DEF HubInv

(* A follow-up call has not decided anything yet. *)
LEMMA NextCallIsNew ==
  ASSUME NEW c, NEW f, NEW ok, NEW cause
  PROVE  NextCall(c, f, ok, cause).step \notin Holding
BY DEF NextCall, NoCall, Fallback, Waiting, Holding

(* Cancellation and the timer of the first output end no run in the hub. *)
LEMMA StatusKept ==
  ASSUME NEW h \in HubState
  PROVE  /\ \A c : Interrupted(h, c).status = h.status
         /\ \A c : Adopted(h, c).status = h.status
         /\ [h EXCEPT !.armed = FALSE].status = h.status
         /\ FactsOf([h EXCEPT !.armed = FALSE]) = FactsOf(h)
         /\ \A c : LET g == [h EXCEPT !.armed = FALSE, !.ctx = c]
                  IN  g.status = h.status /\ FactsOf(g) = FactsOf(h)
         /\ LET g == [h EXCEPT !.owned = TRUE, !.armed = (h.ctx = "")]
            IN  g.status = h.status /\ FactsOf(g) = FactsOf(h)
BY DEF HubState, Interrupted, Adopted, FactsOf

(* Steps that touch the hub or the calls without ending, deciding or writing  *)
(* anything.                                                                *)
HubQuiet ==
  \A q \in Runs : /\ hub'[q].status = hub[q].status
                  /\ hub[q].status \in Terminal => FactsOf(hub'[q]) = FactsOf(hub[q])

CallsQuiet ==
  \A q \in Runs, f \in Finalizers :
    call'[q][f].step \in Holding => call'[q][f].step = call[q][f].step

(* Replacing the state of one run by one with the same outcome is quiet. *)
LEMMA HubSame ==
  ASSUME hub \in [Runs -> HubState], NEW r \in Runs, NEW g,
         hub' = [hub EXCEPT ![r] = g], g.status = hub[r].status,
         hub[r].status \in Terminal => FactsOf(g) = FactsOf(hub[r])
  PROVE  HubQuiet
BY DEF HubQuiet

(* A proposed outcome has not been decided yet. *)
LEMMA ProposeQuiet ==
  ASSUME TypeInv, NEW r \in Runs, NEW f \in Finalizers,
         NEW stage, NEW status, NEW cause, NEW force,
         Propose(r, f, stage, status, cause, force)
  PROVE  CallsQuiet
BY DEF TypeInv, TypeOK, Propose, Waiting, Holding, CallsQuiet

(* Whatever the worker proposes, or nothing at all. *)
LEMMA FinishQuiet ==
  ASSUME TypeInv, NEW r \in Runs,
         \/ UNCHANGED call
         \/ \E stage, status, cause, force : Finish(r, stage, status, cause, force)
  PROVE  CallsQuiet
BY ProposeQuiet DEF Finish, CallsQuiet, Finalizers

(* The database cancels running rows: no other row changes. *)
LEMMA CancelRowsKeeps ==
  ASSUME TypeInv, HubInv, phase # "down", NEW S, NEW c, CancelRows(S, c),
         UNCHANGED <<hub, lock, call, decided, handler, phase, seen>>
  PROVE  HubInv'
<1>. USE DEF TypeInv, TypeOK, HubInv
<1>1. ASSUME NEW q \in Runs PROVE RunInv(q)'
  <2>1. /\ row'[q].status # "none" => row[q].status # "none"
        /\ ~Live(q) => row'[q] = row[q]
        /\ Live(q)' => Live(q)
    BY DEF CancelRows, Live
  <2>. QED
    BY <2>1 DEF RunInv, FinalizerHolds, AdmissionHolds, RecordIsCanonical, Running,
       Live, Holding, Terminal
<1>2. SoleReservation'
  BY DEF SoleReservation, Running
<1>. QED
  BY <1>1, <1>2

(* Every step preserves the invariant: one step of the proof per action. *)
LEMMA HubNext == TypeInv /\ HubInv /\ [Next]_vars => HubInv'
<1>. SUFFICES ASSUME TypeInv, HubInv, [Next]_vars PROVE HubInv'
  OBVIOUS
<1>. USE DEF TypeInv, TypeOK
<1>1. ASSUME NEW r \in Runs, Reserve(r) PROVE HubInv'
  <2>1. \A q \in Runs \ {r} : Same(q)
    BY <1>1 DEF Reserve, Same, history, InAdmission
  <2>2. hub'[r].status = "running"
    BY <1>1 DEF Reserve, Started, Absent
  <2>3. SoleReservation'
    BY <1>1, <2>1, <2>2 DEF Reserve, SessionIsFree, SoleReservation,
       Running, Same, HubInv
  <2>4. RunInv(r)'
    BY <1>1, <2>2 DEF Reserve, Up, RunInv, FinalizerHolds, AdmissionHolds,
       RecordIsCanonical, Holding, InAdmission, Running, Live, history,
       Terminal, HubInv
  <2>5. SameProcess
    BY <1>1 DEF Reserve, SameProcess
  <2>. QED
    BY <2>1, <2>3, <2>4, <2>5, SameKeeps DEF HubInv
<1>2. ASSUME NEW r \in Runs, EnterAdmission(r) PROVE HubInv'
  <2>1. RunInv(r) /\ hub'[r] = hub[r]
    BY <1>2 DEF HubInv, EnterAdmission
  <2>2. \A q \in Runs \ {r} : Same(q)
    BY <1>2 DEF EnterAdmission, Same, history
  <2>3. \A f \in Finalizers : call[r][f].step \notin Holding
    BY <1>2, <2>1 DEF EnterAdmission, RunInv, FinalizerHolds,
       AdmissionHolds, InAdmission, Finalizers
  <2>4. RunInv(r)'
    BY <1>2, <2>1, <2>3 DEF EnterAdmission, Open, RunInv, FinalizerHolds,
       AdmissionHolds, RecordIsCanonical, Holding, InAdmission, Running,
       Live, history
  <2>5. SameProcess
    BY <1>2 DEF EnterAdmission, SameProcess
  <2>. QED
    BY <2>1, <2>2, <2>4, <2>5, OthersSame DEF Running
<1>3. ASSUME NEW r \in Runs, AdmissionRefused(r) PROVE HubInv'
  <2>1. \A q \in Runs : Same(q)
    BY <1>3 DEF AdmissionRefused, AdmissionReads, InAdmission, history,
       Same, Open, Running, Terminal
  <2>2. SameProcess
    BY <1>3 DEF AdmissionRefused, AdmissionReads, InAdmission, history,
       SameProcess
  <2>. QED
    BY <2>1, <2>2, AllSame
<1>4. ASSUME NEW r \in Runs, AdmissionExisting(r) PROVE HubInv'
  <2>1. \A q \in Runs : Same(q)
    BY <1>4 DEF AdmissionExisting, AdmissionReads, InAdmission, ReadBack,
       MayAdmit, history, Same, Open, Running, Terminal
  <2>2. SameProcess
    BY <1>4 DEF AdmissionExisting, AdmissionReads, InAdmission, ReadBack,
       MayAdmit, history, SameProcess
  <2>. QED
    BY <2>1, <2>2, AllSame
<1>5. ASSUME NEW r \in Runs, AdmissionCreated(r) PROVE HubInv'
  <2>1. RunInv(r) /\ hub'[r] = hub[r] /\ row[r].status = "none" /\ row'[r].status = "running"
    BY <1>5 DEF HubInv, AdmissionCreated, AdmissionReads, Row
  <2>2. \A q \in Runs \ {r} : Same(q)
    BY <1>5 DEF AdmissionCreated, AdmissionReads, Same, history
  <2>3. \A f \in Finalizers : call[r][f].step \notin Holding
    BY <1>5, <2>1 DEF AdmissionCreated, MayAdmit, RunInv, FinalizerHolds,
       AdmissionHolds, InAdmission, Finalizers
  <2>4. lock[r] = "admission" /\ Running(r) /\ seen[r] = "none" /\ phase # "down"
    BY <1>5, <2>1 DEF AdmissionCreated, MayAdmit, RunInv, AdmissionHolds,
       InAdmission, Running, Terminal
  <2>5. UNCHANGED <<hub, call, lock, decided, seen, phase>>
    BY <1>5 DEF AdmissionCreated, AdmissionReads, history
  <2>6. RunInv(r)'
    BY <2>1, <2>3, <2>4, <2>5 DEF RunInv, FinalizerHolds, AdmissionHolds,
       RecordIsCanonical, Holding, Running, Terminal
  <2>7. SameProcess
    BY <1>5 DEF AdmissionCreated, AdmissionReads, SameProcess
  <2>. QED
    BY <2>1, <2>2, <2>6, <2>7, OthersSame DEF Running
<1>6. ASSUME NEW r \in Runs, AdmissionDurable(r) PROVE HubInv'
  <2>1. RunInv(r) /\ hub'[r].status = "running" /\ Running(r)
    BY <1>6 DEF HubInv, AdmissionDurable, HubState, RunInv,
       AdmissionHolds, InAdmission, Running
  <2>2. \A q \in Runs \ {r} : Same(q)
    BY <1>6 DEF AdmissionDurable, LeaveAdmission, Same
  <2>3. \A f \in Finalizers : call[r][f].step \notin Holding
    BY <1>6, <2>1 DEF AdmissionDurable, RunInv, FinalizerHolds,
       AdmissionHolds, InAdmission, Finalizers
  <2>4. RunInv(r)'
    BY <1>6, <2>1, <2>3 DEF AdmissionDurable, LeaveAdmission, RunInv,
       FinalizerHolds, AdmissionHolds, RecordIsCanonical, Holding,
       InAdmission, Running, Live, Terminal
  <2>5. SameProcess
    BY <1>6 DEF AdmissionDurable, LeaveAdmission, SameProcess
  <2>. QED
    BY <2>1, <2>2, <2>4, <2>5, OthersSame DEF Running
<1>7. ASSUME NEW r \in Runs, AdmissionReplayed(r) PROVE HubInv'
  <2>1. RunInv(r) /\ hub'[r].status = row[r].status /\ FactsOf(hub'[r]) = FactsOf(row[r]) /\ Ended(r)
    BY <1>7 DEF HubInv, AdmissionReplayed, HubState, FromDecision,
       FactsOf, ReadTerminalEnded
  <2>2. \A q \in Runs \ {r} : Same(q)
    BY <1>7 DEF AdmissionReplayed, LeaveAdmission, Same
  <2>3. \A f \in Finalizers : call[r][f].step \notin Holding
    BY <1>7, <2>1 DEF AdmissionReplayed, RunInv, FinalizerHolds,
       AdmissionHolds, InAdmission, Finalizers
  <2>4. RunInv(r)'
    BY <1>7, <2>1, <2>3 DEF AdmissionReplayed, LeaveAdmission, RunInv,
       FinalizerHolds, AdmissionHolds, RecordIsCanonical, Holding,
       InAdmission, Running, Live, Terminal, Ended
  <2>5. SameProcess
    BY <1>7 DEF AdmissionReplayed, LeaveAdmission, SameProcess
  <2>. QED
    BY <2>1, <2>2, <2>4, <2>5, OthersSame DEF Running, Ended, Terminal
<1>8. ASSUME NEW r \in Runs, AdmissionFailed(r) PROVE HubInv'
  <2>1. RunInv(r) /\ hub'[r] = hub[r]
    BY <1>8 DEF HubInv, AdmissionFailed
  <2>2. \A q \in Runs \ {r} : Same(q)
    BY <1>8 DEF AdmissionFailed, LeaveAdmission, Same, InAdmission
  <2>3. \A f \in Finalizers : call[r][f].step \notin Holding
    BY <1>8, <2>1 DEF AdmissionFailed, RunInv, FinalizerHolds,
       AdmissionHolds, InAdmission, Finalizers
  <2>4. RunInv(r)'
    BY <1>8, <2>1, <2>3 DEF AdmissionFailed, LeaveAdmission, RunInv,
       FinalizerHolds, AdmissionHolds, RecordIsCanonical, Holding,
       InAdmission, Running, Live
  <2>5. SameProcess
    BY <1>8 DEF AdmissionFailed, LeaveAdmission, SameProcess
  <2>. QED
    BY <2>1, <2>2, <2>4, <2>5, OthersSame DEF Running
<1>9. ASSUME NEW r \in Runs, RejectAdmission(r) PROVE HubInv'
  <2>1. CallsQuiet
    BY <1>9, ProposeQuiet DEF RejectAdmission, Finalizers
  <2>2. ASSUME Running(r),
               hub' = [hub EXCEPT ![r] = Interrupted(hub[r], "account_changed")]
        PROVE  HubQuiet
    <3>1. Interrupted(hub[r], "account_changed").status = hub[r].status
      BY StatusKept
    <3>. QED
      BY <2>2, <3>1, HubSame DEF Running, Terminal
  <2>3. ASSUME hub' = [hub EXCEPT ![r] = hub[r]] PROVE HubQuiet
    BY <2>3 DEF HubQuiet
  <2>4. HubQuiet
    BY <1>9, <2>2, <2>3 DEF RejectAdmission, Open
  <2>5. \A q \in Runs : Same(q)
    BY <1>9, <2>1, <2>4, ZenonT(60) DEF RejectAdmission, Same, InAdmission,
       CallsQuiet, history, HubQuiet
  <2>6. SameProcess
    BY <1>9 DEF RejectAdmission, SameProcess
  <2>. QED
    BY <2>5, <2>6, AllSame
<1>10. ASSUME NEW r \in Runs, BeginExecution(r) PROVE HubInv'
  <2>1. ASSUME UNCHANGED hub PROVE HubQuiet
    BY <2>1 DEF HubQuiet
  <2>2. ASSUME hub' = [hub EXCEPT ![r] =
                 [hub[r] EXCEPT !.owned = TRUE, !.armed = (hub[r].ctx = "")]]
        PROVE  HubQuiet
    BY <2>2, StatusKept, HubSame
  <2>3. HubQuiet
    BY <1>10, <2>1, <2>2 DEF BeginExecution
  <2>4. \A q \in Runs : Same(q)
    BY <1>10, <2>3 DEF BeginExecution, HubQuiet, Same, InAdmission
  <2>5. SameProcess
    BY <1>10 DEF BeginExecution, SameProcess
  <2>. QED
    BY <2>4, <2>5, AllSame
<1>11. ASSUME NEW r \in Runs, RestoreTerminal(r) PROVE HubInv'
  <2>1. RunInv(r) /\ hub'[r].status = row[r].status /\ FactsOf(hub'[r]) = FactsOf(row[r]) /\ Ended(r)
    BY <1>11 DEF HubInv, RestoreTerminal, HubState, FromDecision, FactsOf,
       Absent
  <2>2. \A q \in Runs \ {r} : Same(q)
    BY <1>11 DEF RestoreTerminal, Same
  <2>3. RunInv(r)'
    BY <1>11, <2>1 DEF RestoreTerminal, Up, RunInv, FinalizerHolds,
       AdmissionHolds, RecordIsCanonical, Holding, InAdmission, Running,
       Live, Terminal, Ended
  <2>4. SameProcess
    BY <1>11 DEF RestoreTerminal, SameProcess
  <2>. QED
    BY <2>1, <2>2, <2>3, <2>4, OthersSame DEF Running, Ended, Terminal
<1>12. ASSUME NEW r \in Runs, WorkerStart(r) PROVE HubInv'
  <2>1. CallsQuiet
    BY <1>12, FinishQuiet DEF WorkerStart
  <2>2. \A q \in Runs : Same(q)
    BY <1>12, <2>1 DEF WorkerStart, Finish, WorkerFrame, Same, CallsQuiet,
       history
  <2>3. SameProcess
    BY <1>12 DEF WorkerStart, WorkerFrame, SameProcess
  <2>. QED
    BY <2>2, <2>3, AllSame
<1>13. ASSUME NEW r \in Runs, WorkerSetup(r) PROVE HubInv'
  <2>1. CallsQuiet
    BY <1>13, FinishQuiet DEF WorkerSetup
  <2>2. \A q \in Runs : Same(q)
    BY <1>13, <2>1 DEF WorkerSetup, Finish, WorkerFrame, Same, CallsQuiet,
       history
  <2>3. SameProcess
    BY <1>13 DEF WorkerSetup, WorkerFrame, SameProcess
  <2>. QED
    BY <2>2, <2>3, AllSame
<1>14. ASSUME NEW r \in Runs, WorkerOutcome(r) PROVE HubInv'
  <2>1. CallsQuiet
    BY <1>14, FinishQuiet DEF WorkerOutcome
  <2>2. \A q \in Runs : Same(q)
    BY <1>14, <2>1 DEF WorkerOutcome, Finish, WorkerFrame, Same,
       CallsQuiet, history
  <2>3. SameProcess
    BY <1>14 DEF WorkerOutcome, WorkerFrame, SameProcess
  <2>. QED
    BY <2>2, <2>3, AllSame
<1>15. ASSUME NEW r \in Runs, WorkerPanic(r) PROVE HubInv'
  <2>1. CallsQuiet
    BY <1>15, FinishQuiet DEF WorkerPanic
  <2>2. \A q \in Runs : Same(q)
    BY <1>15, <2>1 DEF WorkerPanic, Finish, WorkerFrame, Same, CallsQuiet,
       history
  <2>3. SameProcess
    BY <1>15, ZenonT(60) DEF WorkerPanic, WorkerFrame, SameProcess
  <2>. QED
    BY <2>2, <2>3, AllSame
<1>16. ASSUME NEW r \in Runs, FirstOutput(r) PROVE HubInv'
  <2>1. \A q \in Runs : Same(q)
    BY <1>16, StatusKept, ZenonT(60) DEF FirstOutput, WorkerFrame, history, Same,
       Open, Running, Terminal
  <2>2. SameProcess
    BY <1>16 DEF FirstOutput, WorkerFrame, history, SameProcess
  <2>. QED
    BY <2>1, <2>2, AllSame
<1>17. ASSUME NEW r \in Runs, FirstOutputTimeout(r) PROVE HubInv'
  <2>1. PICK c : hub' = [hub EXCEPT ![r] = [hub[r] EXCEPT !.armed = FALSE, !.ctx = c]]
    BY <1>17, ZenonT(60) DEF FirstOutputTimeout
  <2>2. LET g == [hub[r] EXCEPT !.armed = FALSE, !.ctx = c]
        IN  g.status = hub[r].status /\ FactsOf(g) = FactsOf(hub[r])
    BY StatusKept
  <2>3. HubQuiet
    BY <2>1, <2>2, HubSame
  <2>4. \A q \in Runs : Same(q)
    BY <1>17, <2>3 DEF FirstOutputTimeout, WorkerFrame, history, Same, HubQuiet
  <2>5. SameProcess
    BY <1>17 DEF FirstOutputTimeout, WorkerFrame, SameProcess
  <2>. QED
    BY <2>4, <2>5, AllSame
<1>18. ASSUME NEW r \in Runs, NEW f \in Finalizers, TransitionMoot(r, f) PROVE HubInv'
  <2>1. \A q \in Runs : Same(q)
    BY <1>18, NextCallIsNew DEF TransitionMoot, Return, InAdmission,
       history, Same, Open, Running, Terminal
  <2>2. SameProcess
    BY <1>18 DEF TransitionMoot, Return, InAdmission, history, SameProcess
  <2>. QED
    BY <2>1, <2>2, AllSame
<1>19. ASSUME NEW r \in Runs, NEW f \in Finalizers, TransitionExpired(r, f) PROVE HubInv'
  <2>1. \A q \in Runs : Same(q)
    BY <1>19, NextCallIsNew DEF TransitionExpired, Return, InAdmission,
       history, Same, Open, Running, Terminal
  <2>2. SameProcess
    BY <1>19 DEF TransitionExpired, Return, InAdmission, history,
       SameProcess
  <2>. QED
    BY <2>1, <2>2, AllSame
<1>20. ASSUME NEW r \in Runs, NEW f \in Finalizers, Freeze(r, f) PROVE HubInv'
  <2>1. RunInv(r) /\ hub'[r].status = "running" /\ Running(r)
    <3>1. PICK g : g = Adopted(hub[r], call[r][f]) /\ hub' = [hub EXCEPT ![r] = [g EXCEPT !.finishing = TRUE]]
      BY <1>20 DEF Freeze
    <3>2. g \in HubState
      BY <3>1, DecideTyped
    <3>3. g.status = hub[r].status
      BY <3>1, StatusKept
    <3>. QED
      BY <1>20, <3>1, <3>2, <3>3 DEF HubInv, Freeze, Running, HubState
  <2>2. \A q \in Runs \ {r} : Same(q)
    BY <1>20 DEF Freeze, Same, history
  <2>3. \A g \in Finalizers : call[r][g].step \notin Holding
    BY <1>20, <2>1 DEF Freeze, RunInv, FinalizerHolds, Finalizers
  <2>4. \A g \in Finalizers : call'[r][g].step \in Holding => g = f /\ call'[r][g].step = "frozen"
    BY <1>20, <2>3 DEF Freeze, Call
  <2>5. UNCHANGED <<row, handler, seen, phase>> /\ lock'[r] = f /\ lock[r] = "free" /\ phase # "down"
    BY <1>20, <2>1 DEF Freeze, history, RunInv, Running
  <2>6. RunInv(r)'
    BY <2>1, <2>4, <2>5 DEF RunInv, FinalizerHolds, AdmissionHolds,
       RecordIsCanonical, Running, Terminal, Holding, Live
  <2>7. SameProcess
    BY <1>20 DEF Freeze, SameProcess
  <2>. QED
    BY <2>1, <2>2, <2>6, <2>7, OthersSame DEF Running
<1>21. ASSUME NEW r \in Runs, NEW f \in Finalizers, PersistTerminal(r, f) PROVE HubInv'
  <2>1. /\ RunInv(r) /\ Running(r) /\ hub'[r] = hub[r] /\ lock[r] = f
    BY <1>21 DEF HubInv, PersistTerminal, RunInv, FinalizerHolds, Holding
  <2>2. \A q \in Runs \ {r} : Same(q)
    BY <1>21 DEF PersistTerminal, Same, history
  <2>3. /\ row'[r].status # "running" /\ (~Live(r) => row'[r] = row[r])
        /\ row'[r].status # "none" => decided'[r] = FactsOf(row'[r])
        /\ row[r].status = "none" => row'[r].status = "none"
    BY <1>21 DEF PersistTerminal, StoredRow, Recorded, EndRow, FactsOf,
       Live, Decision, Terminal, Row
  <2>4. \A g \in Finalizers : call'[r][g].step \in Holding => g = f
    BY <1>21, <2>1 DEF PersistTerminal, RunInv, FinalizerHolds
  <2>5. UNCHANGED <<lock, handler, seen, phase>> /\ phase # "down"
    BY <1>21, <2>1 DEF PersistTerminal, history, RunInv, Running
  <2>6. handler[r] \notin InAdmission
    BY <2>1 DEF RunInv, AdmissionHolds, Finalizers
  <2>7. RunInv(r)'
    <3>1. FinalizerHolds(r)'
      BY <2>1, <2>4, <2>5 DEF FinalizerHolds, Running
    <3>2. AdmissionHolds(r)'
      BY <2>5, <2>6 DEF AdmissionHolds
    <3>3. RecordIsCanonical(r)'
      BY <2>3 DEF RecordIsCanonical, Live
    <3>4. seen[r] # "none" => ~Live(r) /\ row[r].status = seen[r]
      BY <2>1 DEF RunInv, Live, Terminal
    <3>5. seen'[r] # "none" => row'[r].status = seen'[r]
      BY <3>4, <2>3, <2>5
    <3>. QED
      BY <2>1, <2>5, <2>3, <3>1, <3>2, <3>3, <3>5 DEF RunInv, Running,
         Live, Terminal
  <2>8. SameProcess
    BY <1>21 DEF PersistTerminal, SameProcess
  <2>. QED
    BY <2>1, <2>2, <2>7, <2>8, OthersSame DEF Running
<1>22. ASSUME NEW r \in Runs, NEW f \in Finalizers, PersistAnswerLost(r, f) PROVE HubInv'
  <2>1. /\ RunInv(r) /\ Running(r) /\ hub'[r] = hub[r] /\ lock[r] = f
    BY <1>22 DEF HubInv, PersistAnswerLost, RunInv, FinalizerHolds,
       Holding
  <2>2. \A q \in Runs \ {r} : Same(q)
    BY <1>22 DEF PersistAnswerLost, Same, history
  <2>3. /\ row'[r].status # "running" /\ (~Live(r) => row'[r] = row[r])
    BY <1>22 DEF PersistAnswerLost, StoredRow, EndRow, Live, Decision,
       Terminal, Row
  <2>4. \A g \in Finalizers : call[r][g].step # "recorded"
    BY <1>22, <2>1 DEF PersistAnswerLost, RunInv, FinalizerHolds, Holding
  <2>5. RunInv(r)'
    BY <1>22, <2>1, <2>4, <2>3 DEF PersistAnswerLost, RunInv,
       FinalizerHolds, AdmissionHolds, RecordIsCanonical, InAdmission,
       Running, Live, Terminal, history, Finalizers
  <2>6. SameProcess
    BY <1>22 DEF PersistAnswerLost, SameProcess
  <2>. QED
    BY <2>1, <2>2, <2>5, <2>6, OthersSame DEF Running
<1>23. ASSUME NEW r \in Runs, NEW f \in Finalizers, PersistRejected(r, f) PROVE HubInv'
  <2>1. /\ RunInv(r) /\ Running(r) /\ hub'[r].status = "running" /\ lock[r] = f
    BY <1>23 DEF HubInv, PersistRejected, RunInv, FinalizerHolds, Holding,
       HubState, Running
  <2>2. \A q \in Runs \ {r} : Same(q)
    BY <1>23 DEF PersistRejected, Return, Same, InAdmission
  <2>3. \A g \in Finalizers : call'[r][g].step \notin Holding
    BY <1>23, <2>1, NextCallIsNew, ZenonT(60) DEF PersistRejected, Return, RunInv,
       FinalizerHolds
  <2>4. handler'[r] \notin InAdmission
    BY <1>23, <2>1 DEF PersistRejected, Return, RunInv, AdmissionHolds,
       InAdmission, Finalizers
  <2>5. RunInv(r)'
    BY <1>23, <2>1, <2>3, <2>4 DEF PersistRejected, Return, RunInv,
       FinalizerHolds, AdmissionHolds, RecordIsCanonical, Running, Live,
       Terminal, Holding
  <2>6. SameProcess
    BY <1>23 DEF PersistRejected, Return, SameProcess
  <2>. QED
    BY <2>1, <2>2, <2>5, <2>6, OthersSame DEF Running
<1>24. ASSUME NEW r \in Runs, NEW f \in Finalizers, Publish(r, f) PROVE HubInv'
  <2>1. /\ RunInv(r) /\ Running(r) /\ lock[r] = f /\ ~Live(r)
        /\ row[r].status # "none" => decided[r] = FactsOf(row[r])
    BY <1>24 DEF HubInv, Publish, RunInv, FinalizerHolds, Holding,
       RecordIsCanonical
  <2>2. \A q \in Runs \ {r} : Same(q)
    BY <1>24 DEF Publish, Return, Same, InAdmission
  <2>3. hub'[r].status = decided[r].status /\ FactsOf(hub'[r]) = FactsOf(decided[r])
    BY <1>24 DEF Publish, FromDecision, FactsOf, HubState
  <2>4. \A g \in Finalizers : call'[r][g].step \notin Holding
    BY <1>24, <2>1, NextCallIsNew, ZenonT(60) DEF Publish, Return, RunInv,
       FinalizerHolds
  <2>5. handler'[r] \notin InAdmission
    BY <1>24, <2>1 DEF Publish, Return, RunInv, AdmissionHolds,
       InAdmission, Finalizers
  <2>6. phase' = phase /\ phase # "down"
    BY <1>24, <2>1 DEF Publish, Return, RunInv, Running
  <2>7. /\ row' = row /\ seen'[r] = IF row[r].status = "none" THEN seen[r] ELSE decided[r].status
    BY <1>24 DEF Publish
  <2>8. RunInv(r)'
    BY <2>1, <2>4, <2>5, <2>3, <2>6, <2>7 DEF RunInv, FinalizerHolds,
       AdmissionHolds, RecordIsCanonical, Running, Live, Holding, FactsOf
  <2>9. SameProcess
    BY <1>24 DEF Publish, Return, SameProcess
  <2>. QED
    BY <2>1, <2>2, <2>8, <2>9, OthersSame DEF Running
<1>25. ASSUME NEW r \in Runs, UserStop(r) PROVE HubInv'
  <2>1. PICK g : hub' = [hub EXCEPT ![r] = g] /\ g = Interrupted(hub[r], "user_stop")
    BY <1>25, ZenonT(60) DEF UserStop
  <2>2. g.status = hub[r].status /\ hub[r].status \notin Terminal
    BY <1>25, <2>1, StatusKept, ZenonT(60) DEF UserStop, Open, Running, Terminal
  <2>3. HubQuiet
    BY <2>1, <2>2, HubSame
  <2>4. \A q \in Runs : Same(q)
    BY <1>25, <2>3 DEF UserStop, Same, HubQuiet
  <2>5. SameProcess
    BY <1>25 DEF UserStop, SameProcess
  <2>. QED
    BY <2>4, <2>5, AllSame
<1>26. ASSUME NEW r \in Runs, Cleanup(r) PROVE HubInv'
  <2>1. RunInv(r) /\ hub'[r].status = "absent" /\ hub[r].status \in Terminal
    BY <1>26 DEF HubInv, Cleanup, Absent
  <2>2. \A q \in Runs \ {r} : Same(q)
    BY <1>26 DEF Cleanup, Same
  <2>3. RunInv(r)'
    BY <1>26, <2>1 DEF Cleanup, RunInv, FinalizerHolds, AdmissionHolds,
       RecordIsCanonical, Holding, InAdmission, Running, Live, Terminal
  <2>4. SameProcess
    BY <1>26 DEF Cleanup, SameProcess
  <2>. QED
    BY <2>1, <2>2, <2>3, <2>4, OthersSame DEF Running
<1>27. ASSUME NEW u \in Users, ChangeAccount(u) PROVE HubInv'
  BY <1>27, CancelRowsKeeps DEF ChangeAccount, Up, history
<1>28. ASSUME NEW s \in Sessions, DeleteSession(s) PROVE HubInv'
  BY <1>28, CancelRowsKeeps DEF DeleteSession, Up, history
<1>29. ASSUME NEW u \in Users, CancelByUser(u) PROVE HubInv'
  <2>1. \A q \in Runs : Same(q)
    BY <1>29, StatusKept, ZenonT(60) DEF CancelByUser, CancelMatching, history, Same,
       Open, Running, Terminal
  <2>2. SameProcess
    BY <1>29 DEF CancelByUser, CancelMatching, history, SameProcess
  <2>. QED
    BY <2>1, <2>2, AllSame
<1>30. ASSUME NEW s \in Sessions, CancelSession(s) PROVE HubInv'
  <2>1. \A q \in Runs : Same(q)
    BY <1>30, StatusKept, ZenonT(60) DEF CancelSession, CancelMatching, history, Same,
       Open, Running, Terminal
  <2>2. SameProcess
    BY <1>30 DEF CancelSession, CancelMatching, history, SameProcess
  <2>. QED
    BY <2>1, <2>2, AllSame, SMTT(30)
<1>31. ASSUME BeginDrain PROVE HubInv'
  <2>1. \A q \in Runs : Same(q)
    BY <1>31 DEF BeginDrain, ProcessFrame, memory, history, Same, Open,
       Running, Terminal
  <2>2. SameProcess
    BY <1>31 DEF BeginDrain, ProcessFrame, memory, history, SameProcess
  <2>. QED
    BY <2>1, <2>2, AllSame
<1>32. ASSUME WaitForIdle PROVE HubInv'
  <2>1. \A q \in Runs : Same(q)
    BY <1>32 DEF WaitForIdle, ProcessFrame, memory, history, Same, Open,
       Running, Terminal
  <2>2. SameProcess
    BY <1>32 DEF WaitForIdle, ProcessFrame, memory, history, SameProcess
  <2>. QED
    BY <2>1, <2>2, AllSame
<1>33. ASSUME FinalizeReturns PROVE HubInv'
  <2>1. \A q \in Runs : Same(q)
    BY <1>33, NextCallIsNew DEF FinalizeReturns, ProcessFrame, memory,
       history, Same, Open, Running, Terminal
  <2>2. SameProcess
    BY <1>33 DEF FinalizeReturns, ProcessFrame, memory, history,
       SameProcess
  <2>. QED
    BY <2>1, <2>2, AllSame
<1>34. ASSUME FinalizeTimesOut PROVE HubInv'
  <2>1. \A q \in Runs : Same(q)
    BY <1>34 DEF FinalizeTimesOut, ProcessFrame, memory, history, Same,
       Open, Running, Terminal
  <2>2. SameProcess
    BY <1>34 DEF FinalizeTimesOut, ProcessFrame, memory, history,
       SameProcess
  <2>. QED
    BY <2>1, <2>2, AllSame
<1>35. ASSUME CancelForDrain PROVE HubInv'
  <2>1. \A q \in Runs : Same(q)
    BY <1>35, StatusKept, ZenonT(60) DEF CancelForDrain, CancelMatching, ProcessFrame,
       history, Same, Open, Running, Terminal
  <2>2. SameProcess
    BY <1>35 DEF CancelForDrain, CancelMatching, ProcessFrame, history,
       SameProcess
  <2>. QED
    BY <2>1, <2>2, AllSame
<1>36. ASSUME FinalizeForDrain PROVE HubInv'
  <2>1. \A q \in Runs : Same(q)
    BY <1>36 DEF FinalizeForDrain, Waiting, Holding, ProcessFrame,
       history, Same, Open, Running, Terminal
  <2>2. SameProcess
    BY <1>36 DEF FinalizeForDrain, Waiting, Holding, ProcessFrame,
       history, SameProcess
  <2>. QED
    BY <2>1, <2>2, AllSame
<1>37. ASSUME LoseMemory PROVE HubInv'
  <2>1. \A q \in Runs : hub'[q].status = "absent"
    BY <1>37 DEF LoseMemory, Absent
  <2>2. \A q \in Runs, f \in Finalizers : call'[q][f].step \notin Holding
    BY <1>37 DEF LoseMemory, NoCall, Holding
  <2>3. ASSUME NEW q \in Runs PROVE RunInv(q)'
    BY <1>37, <2>1, <2>2 DEF LoseMemory, ProcessFrame, RunInv,
       FinalizerHolds, AdmissionHolds, RecordIsCanonical, InAdmission,
       Terminal, Holding, HubInv
  <2>4. SoleReservation'
    BY <2>1 DEF SoleReservation, Running, HubInv
  <2>. QED
    BY <2>3, <2>4 DEF HubInv
<1>38. ASSUME Restart PROVE HubInv'
  <2>1. \A q \in Runs : hub'[q].status = "absent"
    BY <1>38 DEF Restart, RunInv, memory, HubInv
  <2>2. \A q \in Runs, f \in Finalizers : call'[q][f].step \notin Holding
    BY <1>38 DEF Restart, RunInv, memory, FinalizerHolds, Running, HubInv
  <2>3. \A q \in Runs : handler'[q] \notin InAdmission
    BY <1>38 DEF Restart, RunInv, memory, AdmissionHolds, Running, HubInv
  <2>4. ASSUME NEW q \in Runs PROVE RunInv(q)'
    <3>1. row'[q].status # "running" /\ (~Live(q) => row'[q] = row[q])
      BY <1>38 DEF Restart, Reconciled, Live, EndRow
    <3>. QED
      BY <1>38, <2>1, <2>2, <2>3, <3>1, SMTT(30) DEF Restart, memory, history,
         RunInv, FinalizerHolds, AdmissionHolds, RecordIsCanonical,
         Terminal, Holding, Live, HubInv
  <2>5. SoleReservation'
    BY <2>1 DEF SoleReservation, Running, HubInv
  <2>. QED
    BY <2>4, <2>5 DEF HubInv
<1>39. CASE UNCHANGED vars
  <2>1. \A q \in Runs : Same(q)
    BY <1>39 DEF vars, memory, history, Same
  <2>. QED
    BY <1>39, <2>1, AllSame DEF vars, SameProcess
<1>. QED
  BY <1>1, <1>2, <1>3, <1>4, <1>5, <1>6, <1>7, <1>8, <1>9, <1>10, <1>11,
     <1>12, <1>13, <1>14, <1>15, <1>16, <1>17, <1>18, <1>19, <1>20, <1>21,
     <1>22, <1>23, <1>24, <1>25, <1>26, <1>27, <1>28, <1>29, <1>30, <1>31,
     <1>32, <1>33, <1>34, <1>35, <1>36, <1>37, <1>38, <1>39 DEF Next,
     RunStep, HandlerStep, WorkerStep, TransitionStep, ProcessStep, Exit,
     Crash

(* Rows start to run in AdmissionCreated only, while the server is up. *)
LEMMA LiveRowsAreOld ==
  ASSUME TypeInv, HubInv, [Next]_vars, phase' = "down"
  PROVE  \A r \in Runs : Live(r)' => Live(r)
<1>. USE DEF TypeInv, TypeOK
<1>1. CASE UNCHANGED row
  BY <1>1 DEF Live
<1>2. ASSUME NEW r \in Runs, HandlerStep(r) PROVE UNCHANGED row
  <2>1. ~AdmissionCreated(r)
    BY DEF AdmissionCreated, AdmissionReads, MayAdmit, HubInv, RunInv, AdmissionHolds,
       InAdmission, Running
  <2>. QED
    BY <1>2, <2>1 DEF HandlerStep, EnterAdmission, AdmissionRefused, AdmissionExisting,
       AdmissionDurable, AdmissionReplayed, AdmissionFailed, LeaveAdmission,
       RejectAdmission, BeginExecution
<1>3. ASSUME NEW r \in Runs, WorkerStep(r) PROVE UNCHANGED row
  BY <1>3 DEF WorkerStep, WorkerStart, WorkerSetup, WorkerOutcome, WorkerPanic, WorkerFrame
<1>4. ASSUME NEW r \in Runs, NEW f \in Finalizers, TransitionStep(r, f)
      PROVE  \A q \in Runs : Live(q)' => Live(q)
  <2>1. CASE PersistTerminal(r, f) \/ PersistAnswerLost(r, f)
    BY <2>1 DEF PersistTerminal, PersistAnswerLost, StoredRow, Live
  <2>2. CASE UNCHANGED row
    BY <2>2 DEF Live
  <2>. QED
    BY <1>4, <2>1, <2>2 DEF TransitionStep, TransitionMoot, TransitionExpired, Freeze,
       PersistRejected, Publish
<1>5. ASSUME NEW r \in Runs, RunStep(r) PROVE \A q \in Runs : Live(q)' => Live(q)
  BY <1>1, <1>2, <1>3, <1>4, <1>5 DEF RunStep, Reserve, RestoreTerminal, FirstOutput,
     FirstOutputTimeout, UserStop, Cleanup, WorkerFrame
<1>6. ASSUME NEW u \in Users, ChangeAccount(u) \/ CancelByUser(u)
      PROVE  \A q \in Runs : Live(q)' => Live(q)
  BY <1>6 DEF ChangeAccount, CancelByUser, CancelRows, Live
<1>7. ASSUME NEW s \in Sessions, DeleteSession(s) \/ CancelSession(s)
      PROVE  \A q \in Runs : Live(q)' => Live(q)
  BY <1>7 DEF DeleteSession, CancelSession, CancelRows, Live
<1>8. CASE ProcessStep
  BY <1>1, <1>8 DEF ProcessStep, BeginDrain, CancelForDrain, FinalizeForDrain,
     WaitForIdle, FinalizeReturns, FinalizeTimesOut, Exit, Crash, LoseMemory,
     Restart, ProcessFrame
<1>9. CASE UNCHANGED vars
  BY <1>1, <1>9 DEF vars
<1>. QED
  BY <1>5, <1>6, <1>7, <1>8, <1>9 DEF Next


(* The running rows of a session are one row: up, because they are runs of    *)
(* the hub; down, because they were when the server went down.              *)
LEMMA SoleRowNext ==
  TypeInv /\ HubInv /\ OneLiveRunPerSession /\ [Next]_vars => OneLiveRunPerSession'
<1>. SUFFICES ASSUME TypeInv, HubInv, OneLiveRunPerSession, [Next]_vars
              PROVE  OneLiveRunPerSession'
  OBVIOUS
<1>1. CASE phase' = "down"
  BY <1>1, LiveRowsAreOld DEF OneLiveRunPerSession
<1>2. CASE phase' # "down"
  <2>1. HubInv'
    BY HubNext
  <2>. QED
    BY <1>2, <2>1 DEF HubInv, RunInv, SoleReservation, OneLiveRunPerSession
<1>. QED
  BY <1>1, <1>2

(* The inductive invariant holds in every reachable state. *)
LEMMA SafetyInductive == Spec => [](TypeInv /\ HubInv /\ OneLiveRunPerSession)
<1>1. ASSUME Init PROVE OneLiveRunPerSession
  <2>1. \A r \in Runs : row[r].status = "none"
    BY <1>1 DEF Init, NoRow
  <2>. QED
    BY <2>1 DEF OneLiveRunPerSession, Live
<1>. QED
  BY <1>1, TypeInit, TypeNext, HubInit, HubNext, SoleRowNext, PTL DEF Spec

(* No session ever has two running rows, although only the hub's memory, lost *)
(* in every crash, keeps them apart.                                        *)
THEOREM OneLiveRow == Spec => []OneLiveRunPerSession
BY SafetyInductive, PTL

(* While the server is up, every running row is a running run of its hub, for *)
(* any number of runs and sessions and whatever is lost or crashes.         *)
THEOREM LiveRowsAreInHub == Spec => []LiveRowIsInHub
<1>1. HubInv => LiveRowIsInHub
  BY DEF HubInv, RunInv, LiveRowIsInHub, Up
<1>. QED
  BY <1>1, SafetyInductive, PTL

(* The hub never shows another outcome than the durable row. *)
THEOREM HubNeverDisagrees == Spec => []HubAgreesWithRow
<1>1. HubInv => HubAgreesWithRow
  BY DEF HubInv, RunInv, HubAgreesWithRow
<1>. QED
  BY <1>1, SafetyInductive, PTL

(* An outcome that a client was shown is the outcome of the row for ever. *)
THEOREM ShownOutcomesLast == Spec => []ShownOutcomeIsDurable
<1>1. HubInv => ShownOutcomeIsDurable
  BY DEF HubInv, RunInv, ShownOutcomeIsDurable
<1>. QED
  BY <1>1, SafetyInductive, PTL

-----------------------------------------------------------------------------
(* The inductive invariant *)

(* A run is said to end for the deletion of its session only if the session  *)
(* is deleted.                                                              *)
Honest(r, cause) == cause = "session_deleted" => SessionOf[r] \in deleted

HonestHub(r)   == Honest(r, hub[r].cause) /\ Honest(r, hub[r].ctx)
HonestCalls(r) == \A f \in Finalizers : Honest(r, call[r][f].cause)

(* An outcome is proposed as the ledger wants it: completed with its answer   *)
(* and without a cause, never forced past a cancellation; canceled with one. *)
Accountable(c) ==
  /\ c.status = "completed" => c.stage = "batch" /\ c.cause = "" /\ ~c.force
  /\ c.status = "canceled" => c.cause # ""

(* ... and it is still so when the decision has mixed in a cancellation. *)
DecidedSoundly(r) ==
  \A f \in Finalizers : call[r][f].step = "frozen" =>
    /\ decided[r].status = "completed" => call[r][f].stage = "batch" /\ decided[r].cause = ""
    /\ decided[r].status = "canceled" => decided[r].cause # ""

(* A row is new, runs without an answer in an open session, or has ended. *)
RowSound(r) ==
  /\ row[r].status = "none" => row[r] = NoRow
  /\ Live(r) => row[r].answers = 0 /\ row[r].cause = "" /\ SessionOf[r] \notin deleted
  /\ Honest(r, row[r].cause)

RowsInv    == \A r \in Runs : RowSound(r)
HubsInv    == \A r \in Runs : HonestHub(r)
CallsInv   == \A r \in Runs : HonestCalls(r) /\ \A f \in Finalizers : Accountable(call[r][f])
DecidedInv == \A r \in Runs : Honest(r, decided[r].cause) /\ DecidedSoundly(r)
NotifyInv  == \A s \in Sessions : <<"session", s>> \in notify => s \in deleted

LedgerInv == RowsInv /\ HubsInv /\ CallsInv /\ DecidedInv /\ NotifyInv

(* At the start there are no rows and no causes. *)
LEMMA LedgerInit == Init => LedgerInv
<1>. SUFFICES ASSUME Init PROVE LedgerInv
  OBVIOUS
<1>1. RowsInv
  BY DEF Init, RowsInv, RowSound, NoRow, Live, Honest
<1>2. HubsInv
  BY DEF Init, HubsInv, HonestHub, Honest, Absent
<1>3. CallsInv
  BY DEF Init, CallsInv, HonestCalls, Honest, Accountable, NoCall
<1>4. DecidedInv
  BY DEF Init, DecidedInv, DecidedSoundly, Honest, Undecided, NoCall
<1>. QED
  BY <1>1, <1>2, <1>3, <1>4 DEF LedgerInv, NotifyInv, Init

-----------------------------------------------------------------------------
(* Which steps touch what *)

(* Only a deletion changes the set of deleted sessions. *)
LEMMA DeletedSteps ==
  ASSUME [Next]_vars
  PROVE  UNCHANGED deleted \/ \E s \in Sessions : DeleteSession(s)
<1>1. ASSUME NEW r \in Runs, RunStep(r) PROVE UNCHANGED deleted
  <2>1. CASE HandlerStep(r)
    BY <2>1 DEF HandlerStep, EnterAdmission, AdmissionRefused, AdmissionExisting,
       AdmissionCreated, AdmissionReads, AdmissionDurable, AdmissionReplayed,
       AdmissionFailed, LeaveAdmission, RejectAdmission, BeginExecution
  <2>2. CASE WorkerStep(r)
    BY <2>2 DEF WorkerStep, WorkerStart, WorkerSetup, WorkerOutcome, WorkerPanic, WorkerFrame
  <2>3. ASSUME NEW f \in Finalizers, TransitionStep(r, f) PROVE UNCHANGED deleted
    BY <2>3 DEF TransitionStep, TransitionMoot, TransitionExpired, Freeze, PersistTerminal,
       PersistAnswerLost, PersistRejected, Publish, Return
  <2>. QED
    BY <1>1, <2>1, <2>2, <2>3 DEF RunStep, Reserve, RestoreTerminal, FirstOutput,
       FirstOutputTimeout, UserStop, Cleanup, WorkerFrame
<1>2. ASSUME NEW u \in Users, ChangeAccount(u) \/ CancelByUser(u) PROVE UNCHANGED deleted
  BY <1>2 DEF ChangeAccount, CancelByUser
<1>3. ASSUME NEW s \in Sessions, CancelSession(s) PROVE UNCHANGED deleted
  BY <1>3 DEF CancelSession
<1>4. CASE ProcessStep
  BY <1>4 DEF ProcessStep, BeginDrain, CancelForDrain, FinalizeForDrain, WaitForIdle,
     FinalizeReturns, FinalizeTimesOut, Exit, Crash, LoseMemory, Restart, ProcessFrame
<1>. QED
  BY <1>1, <1>2, <1>3, <1>4 DEF Next, vars

(* A deleted session stays deleted. *)
LEMMA DeletedGrows ==
  ASSUME [Next]_vars
  PROVE  deleted \subseteq deleted'
BY DeletedSteps DEF DeleteSession

(* The transactions: the steps that write a row. *)
LEMMA RowSteps ==
  ASSUME [Next]_vars
  PROVE  \/ UNCHANGED row
         \/ \E r \in Runs : AdmissionCreated(r)
         \/ \E r \in Runs, f \in Finalizers :
              PersistTerminal(r, f) \/ PersistAnswerLost(r, f)
         \/ \E u \in Users : ChangeAccount(u)
         \/ \E s \in Sessions : DeleteSession(s)
         \/ Restart
<1>1. ASSUME NEW r \in Runs, HandlerStep(r) PROVE UNCHANGED row \/ AdmissionCreated(r)
  BY <1>1 DEF HandlerStep, EnterAdmission, AdmissionRefused, AdmissionExisting,
     AdmissionDurable, AdmissionReplayed, AdmissionFailed, LeaveAdmission,
     RejectAdmission, BeginExecution
<1>2. ASSUME NEW r \in Runs, WorkerStep(r) PROVE UNCHANGED row
  BY <1>2 DEF WorkerStep, WorkerStart, WorkerSetup, WorkerOutcome, WorkerPanic, WorkerFrame
<1>3. ASSUME NEW r \in Runs, NEW f \in Finalizers, TransitionStep(r, f)
      PROVE  UNCHANGED row \/ PersistTerminal(r, f) \/ PersistAnswerLost(r, f)
  BY <1>3 DEF TransitionStep, TransitionMoot, TransitionExpired, Freeze,
     PersistRejected, Publish
<1>4. ASSUME NEW r \in Runs,
             \/ Reserve(r) \/ RestoreTerminal(r) \/ FirstOutput(r) \/ FirstOutputTimeout(r)
             \/ UserStop(r) \/ Cleanup(r)
      PROVE  UNCHANGED row
  BY <1>4 DEF Reserve, RestoreTerminal, FirstOutput, FirstOutputTimeout, UserStop,
     Cleanup, WorkerFrame
<1>5. ASSUME NEW u \in Users, CancelByUser(u) PROVE UNCHANGED row
  BY <1>5 DEF CancelByUser
<1>6. ASSUME NEW s \in Sessions, CancelSession(s) PROVE UNCHANGED row
  BY <1>6 DEF CancelSession
<1>7. ASSUME ProcessStep PROVE UNCHANGED row \/ Restart
  BY <1>7 DEF ProcessStep, BeginDrain, CancelForDrain, FinalizeForDrain, WaitForIdle,
     FinalizeReturns, FinalizeTimesOut, Exit, Crash, LoseMemory, ProcessFrame
<1>. QED
  BY <1>1, <1>2, <1>3, <1>4, <1>5, <1>6, <1>7 DEF Next, RunStep, vars

(* The steps that write the hub. *)
HubWrites ==
  \/ \E r \in Runs :
       \/ Reserve(r) \/ AdmissionDurable(r) \/ AdmissionReplayed(r) \/ RejectAdmission(r)
       \/ BeginExecution(r) \/ RestoreTerminal(r) \/ FirstOutput(r) \/ FirstOutputTimeout(r)
       \/ UserStop(r) \/ Cleanup(r)
       \/ \E f \in Finalizers : Freeze(r, f) \/ PersistRejected(r, f) \/ Publish(r, f)
  \/ \E u \in Users : CancelByUser(u)
  \/ \E s \in Sessions : CancelSession(s)
  \/ CancelForDrain \/ LoseMemory

(* Every other step leaves the hub alone. *)
LEMMA HubSteps ==
  ASSUME [Next]_vars
  PROVE  UNCHANGED hub \/ HubWrites
<1>. USE DEF HubWrites
<1>1. ASSUME NEW r \in Runs, HandlerStep(r) PROVE UNCHANGED hub \/ HubWrites
  BY <1>1 DEF HandlerStep, EnterAdmission, AdmissionRefused, AdmissionExisting,
     AdmissionCreated, AdmissionReads, AdmissionFailed, LeaveAdmission
<1>2. ASSUME NEW r \in Runs, WorkerStep(r) PROVE UNCHANGED hub
  BY <1>2 DEF WorkerStep, WorkerStart, WorkerSetup, WorkerOutcome, WorkerPanic
<1>3. ASSUME NEW r \in Runs, NEW f \in Finalizers, TransitionStep(r, f)
      PROVE  UNCHANGED hub \/ HubWrites
  BY <1>3 DEF TransitionStep, TransitionMoot, TransitionExpired, PersistTerminal,
     PersistAnswerLost
<1>4. ASSUME NEW u \in Users, ChangeAccount(u) PROVE UNCHANGED hub
  BY <1>4 DEF ChangeAccount
<1>5. ASSUME NEW s \in Sessions, DeleteSession(s) PROVE UNCHANGED hub
  BY <1>5 DEF DeleteSession
<1>6. CASE ProcessStep
  BY <1>6 DEF ProcessStep, BeginDrain, FinalizeForDrain, WaitForIdle, FinalizeReturns,
     FinalizeTimesOut, Exit, Crash, Restart, memory
<1>. QED
  BY <1>1, <1>2, <1>3, <1>4, <1>5, <1>6 DEF Next, RunStep, vars, memory

(* The steps that write the table of calls, other than a deferred answer. *)
CallWrites ==
  \/ \E r \in Runs :
       \/ RejectAdmission(r) \/ WorkerStep(r)
       \/ \E f \in Finalizers :
            \/ TransitionMoot(r, f) \/ TransitionExpired(r, f) \/ Freeze(r, f)
            \/ PersistTerminal(r, f) \/ PersistRejected(r, f) \/ Publish(r, f)
  \/ FinalizeForDrain \/ LoseMemory

(* Every other step leaves the calls alone. *)
LEMMA CallSteps ==
  ASSUME [Next]_vars
  PROVE  UNCHANGED call \/ CallWrites
<1>. USE DEF CallWrites
<1>1. ASSUME NEW r \in Runs, HandlerStep(r) PROVE UNCHANGED call \/ CallWrites
  BY <1>1 DEF HandlerStep, EnterAdmission, AdmissionRefused, AdmissionExisting,
     AdmissionCreated, AdmissionReads, AdmissionDurable, AdmissionReplayed,
     AdmissionFailed, LeaveAdmission, BeginExecution
<1>2. ASSUME NEW r \in Runs,
             \/ Reserve(r) \/ RestoreTerminal(r) \/ FirstOutput(r) \/ FirstOutputTimeout(r)
             \/ UserStop(r) \/ Cleanup(r)
      PROVE  UNCHANGED call
  BY <1>2 DEF Reserve, RestoreTerminal, FirstOutput, FirstOutputTimeout, UserStop, Cleanup
<1>3. ASSUME NEW r \in Runs, NEW f \in Finalizers, TransitionStep(r, f)
      PROVE  UNCHANGED call \/ CallWrites
  BY <1>3 DEF TransitionStep, PersistAnswerLost
<1>4. ASSUME NEW u \in Users, ChangeAccount(u) \/ CancelByUser(u) PROVE UNCHANGED call
  BY <1>4 DEF ChangeAccount, CancelByUser
<1>5. ASSUME NEW s \in Sessions, DeleteSession(s) \/ CancelSession(s) PROVE UNCHANGED call
  BY <1>5 DEF DeleteSession, CancelSession
<1>6. CASE ProcessStep
  BY <1>6 DEF ProcessStep, BeginDrain, CancelForDrain, WaitForIdle, FinalizeReturns,
     FinalizeTimesOut, Exit, Crash, Restart, memory
<1>. QED
  BY <1>1, <1>2, <1>3, <1>4, <1>5, <1>6 DEF Next, RunStep, vars, memory

(* The steps that write a decision. *)
LEMMA DecidedSteps ==
  ASSUME [Next]_vars
  PROVE  \/ UNCHANGED decided
         \/ \E r \in Runs, f \in Finalizers :
              \/ Freeze(r, f) \/ PersistTerminal(r, f)
              \/ PersistRejected(r, f) \/ Publish(r, f)
         \/ LoseMemory
<1>1. ASSUME NEW r \in Runs, HandlerStep(r) PROVE UNCHANGED decided
  BY <1>1 DEF HandlerStep, EnterAdmission, AdmissionRefused, AdmissionExisting,
     AdmissionCreated, AdmissionReads, AdmissionDurable, AdmissionReplayed,
     AdmissionFailed, LeaveAdmission, RejectAdmission, BeginExecution
<1>2. ASSUME NEW r \in Runs,
             \/ Reserve(r) \/ RestoreTerminal(r) \/ FirstOutput(r) \/ FirstOutputTimeout(r)
             \/ UserStop(r) \/ Cleanup(r) \/ WorkerStep(r)
      PROVE  UNCHANGED decided
  BY <1>2 DEF Reserve, RestoreTerminal, FirstOutput, FirstOutputTimeout, UserStop, Cleanup,
     WorkerStep, WorkerStart, WorkerSetup, WorkerOutcome, WorkerPanic, WorkerFrame
<1>3. ASSUME NEW r \in Runs, NEW f \in Finalizers,
             TransitionMoot(r, f) \/ TransitionExpired(r, f) \/ PersistAnswerLost(r, f)
      PROVE  UNCHANGED decided
  BY <1>3 DEF TransitionMoot, TransitionExpired, PersistAnswerLost
<1>4. ASSUME NEW u \in Users, ChangeAccount(u) \/ CancelByUser(u) PROVE UNCHANGED decided
  BY <1>4 DEF ChangeAccount, CancelByUser
<1>5. ASSUME NEW s \in Sessions, DeleteSession(s) \/ CancelSession(s) PROVE UNCHANGED decided
  BY <1>5 DEF DeleteSession, CancelSession
<1>6. ASSUME ProcessStep PROVE UNCHANGED decided \/ LoseMemory
  BY <1>6 DEF ProcessStep, BeginDrain, CancelForDrain, FinalizeForDrain, WaitForIdle,
     FinalizeReturns, FinalizeTimesOut, Exit, Crash, Restart, memory
<1>. QED
  BY <1>1, <1>2, <1>3, <1>4, <1>5, <1>6 DEF Next, RunStep, TransitionStep, vars, memory

-----------------------------------------------------------------------------
(* The invariant is inductive *)

(* An announced deletion has been committed. *)
LEMMA NotifyNext == LedgerInv /\ [Next]_vars => NotifyInv'
<1>. SUFFICES ASSUME LedgerInv, [Next]_vars PROVE NotifyInv'
  OBVIOUS
<1>. USE DEF LedgerInv, NotifyInv
<1>1. CASE notify' \subseteq notify
  BY <1>1, DeletedGrows
<1>2. ASSUME NEW u \in Users, ChangeAccount(u) PROVE NotifyInv'
  BY <1>2 DEF ChangeAccount, Announced
<1>3. ASSUME NEW s \in Sessions, DeleteSession(s) PROVE NotifyInv'
  BY <1>3 DEF DeleteSession, Announced
<1>4. ASSUME NEW r \in Runs, RunStep(r) PROVE notify' \subseteq notify
  <2>1. CASE HandlerStep(r)
    BY <2>1 DEF HandlerStep, EnterAdmission, AdmissionRefused, AdmissionExisting,
       AdmissionCreated, AdmissionReads, AdmissionDurable, AdmissionReplayed,
       AdmissionFailed, LeaveAdmission, RejectAdmission, BeginExecution
  <2>2. CASE WorkerStep(r)
    BY <2>2 DEF WorkerStep, WorkerStart, WorkerSetup, WorkerOutcome, WorkerPanic, WorkerFrame
  <2>3. ASSUME NEW f \in Finalizers, TransitionStep(r, f) PROVE notify' \subseteq notify
    BY <2>3 DEF TransitionStep, TransitionMoot, TransitionExpired, Freeze, PersistTerminal,
       PersistAnswerLost, PersistRejected, Publish, Return
  <2>. QED
    BY <1>4, <2>1, <2>2, <2>3 DEF RunStep, Reserve, RestoreTerminal, FirstOutput,
       FirstOutputTimeout, UserStop, Cleanup, WorkerFrame
<1>5. ASSUME NEW u \in Users, CancelByUser(u) PROVE notify' \subseteq notify
  BY <1>5 DEF CancelByUser
<1>6. ASSUME NEW s \in Sessions, CancelSession(s) PROVE notify' \subseteq notify
  BY <1>6 DEF CancelSession
<1>7. ASSUME ProcessStep PROVE notify' \subseteq notify
  BY <1>7 DEF ProcessStep, BeginDrain, CancelForDrain, FinalizeForDrain, WaitForIdle,
     FinalizeReturns, FinalizeTimesOut, Exit, Crash, LoseMemory, Restart, memory
<1>. QED
  BY <1>1, <1>2, <1>3, <1>4, <1>5, <1>6, <1>7 DEF Next, vars, memory

(* A run starts without a cause. *)
LEMMA FreshCauses ==
  /\ Absent.cause = "" /\ Absent.ctx = ""
  /\ Started.cause = "" /\ Started.ctx = ""
BY DEF Absent, Started

(* What each update of the hub does to the two causes of a run. *)
LEMMA CausesOfUpdates ==
  ASSUME NEW h \in HubState
  PROVE  /\ \A c \in Causes : Interrupted(h, c).cause = c /\ Interrupted(h, c).ctx \in {h.ctx, c}
         /\ \A d \in Decision : FromDecision(h, d).cause = d.cause /\ FromDecision(h, d).ctx = h.ctx
         /\ \A c \in Call : Adopted(h, c).cause \in {h.cause, h.ctx} /\ Adopted(h, c).ctx = h.ctx
<1>1. \A c \in Causes : Interrupted(h, c).cause = c /\ Interrupted(h, c).ctx \in {h.ctx, c}
  BY DEF Interrupted, HubState
<1>2. \A d \in Decision : FromDecision(h, d).cause = d.cause /\ FromDecision(h, d).ctx = h.ctx
  BY DEF FromDecision, HubState
<1>3. \A c \in Call : Adopted(h, c).cause \in {h.cause, h.ctx} /\ Adopted(h, c).ctx = h.ctx
  BY DEF Adopted, HubState
<1>. QED
  BY <1>1, <1>2, <1>3

(* A run of the hub is canceled for a deletion only after the deletion. *)
LEMMA HubsNext == TypeInv /\ LedgerInv /\ [Next]_vars => HubsInv'
<1>. SUFFICES ASSUME TypeInv, LedgerInv, [Next]_vars PROVE HubsInv'
  OBVIOUS
<1>. USE DEF TypeInv, TypeOK, LedgerInv, HubsInv, HonestHub
<1>. DEFINE Good == \A q \in Runs : Honest(q, hub'[q].cause) /\ Honest(q, hub'[q].ctx)
<1>1. ASSUME Good PROVE HubsInv'
  BY <1>1, DeletedGrows DEF Honest
<1>2. ASSUME NEW r \in Runs, NEW g, hub' = [hub EXCEPT ![r] = g],
             Honest(r, g.cause), Honest(r, g.ctx)
      PROVE  Good
  BY <1>2
<1>3. ASSUME NEW r \in Runs, Reserve(r) \/ Cleanup(r) PROVE Good
  <2>1. PICK g : g \in {Started, Absent} /\ hub' = [hub EXCEPT ![r] = g]
    BY <1>3 DEF Reserve, Cleanup
  <2>2. g.cause = "" /\ g.ctx = ""
    BY <2>1, FreshCauses
  <2>. QED
    BY <1>2, <2>1, <2>2 DEF Honest
<1>4. ASSUME NEW r \in Runs,
             \/ AdmissionDurable(r) \/ BeginExecution(r) \/ FirstOutput(r)
             \/ \E f \in Finalizers : PersistRejected(r, f)
      PROVE  Good
  <2>1. PICK g \in HubState : /\ hub' = [hub EXCEPT ![r] = g] \/ hub' = hub
                              /\ g.cause = hub[r].cause /\ g.ctx = hub[r].ctx
    <3>1. CASE AdmissionDurable(r)
      <4>1. [hub[r] EXCEPT !.durable = TRUE] \in HubState
        BY HubUpdates
      <4>. QED
        BY <3>1, <4>1 DEF AdmissionDurable, HubState
    <3>2. CASE BeginExecution(r)
      <4>1. [hub[r] EXCEPT !.owned = TRUE, !.armed = (hub[r].ctx = "")] \in HubState
        BY HubUpdates
      <4>. QED
        BY <3>2, <4>1 DEF BeginExecution, HubState
    <3>3. CASE FirstOutput(r)
      <4>1. [hub[r] EXCEPT !.armed = FALSE] \in HubState
        BY HubUpdates
      <4>. QED
        BY <3>3, <4>1 DEF FirstOutput, HubState
    <3>4. ASSUME NEW f \in Finalizers, PersistRejected(r, f)
          PROVE  \E g \in HubState : /\ hub' = [hub EXCEPT ![r] = g]
                                     /\ g.cause = hub[r].cause /\ g.ctx = hub[r].ctx
      <4>1. [hub[r] EXCEPT !.finishing = FALSE] \in HubState
        BY HubUpdates
      <4>. QED
        BY <3>4, <4>1 DEF PersistRejected, HubState
    <3>. QED
      BY <1>4, <3>1, <3>2, <3>3, <3>4
  <2>. QED
    BY <1>2, <2>1
<1>5. ASSUME NEW r \in Runs, FirstOutputTimeout(r) PROVE Good
  <2>1. PICK g : g = [hub[r] EXCEPT !.armed = FALSE,
                        !.ctx = IF @ = "" THEN "first_output_timeout" ELSE @]
    OBVIOUS
  <2>2. hub' = [hub EXCEPT ![r] = g]
    BY <1>5, <2>1 DEF FirstOutputTimeout
  <2>3. hub[r] \in HubState
    OBVIOUS
  <2>4. g.cause = hub[r].cause /\ g.ctx \in {hub[r].ctx, "first_output_timeout"}
    BY <2>1, <2>3 DEF HubState
  <2>. QED
    BY <1>2, <2>2, <2>4 DEF Honest
<1>6. ASSUME NEW r \in Runs, AdmissionReplayed(r) PROVE Good
  <2>1. FactsOf(row[r]) \in Decision
    BY <1>6, RowUpdates DEF AdmissionReplayed, ReadTerminalEnded, Ended
  <2>2. PICK h \in HubState : h = FromDecision(hub[r], FactsOf(row[r]))
    BY <2>1, HubUpdates
  <2>3. h.cause = row[r].cause /\ h.ctx = hub[r].ctx
    BY <2>1, <2>2, CausesOfUpdates DEF FactsOf
  <2>4. PICK g : g = [h EXCEPT !.durable = TRUE] /\ hub' = [hub EXCEPT ![r] = g]
    BY <1>6, <2>2 DEF AdmissionReplayed
  <2>5. g.cause = h.cause /\ g.ctx = h.ctx
    BY <2>4 DEF HubState
  <2>. QED
    BY <1>2, <2>3, <2>4, <2>5, ZenonT(60) DEF RowsInv, RowSound
<1>7. ASSUME NEW r \in Runs, RestoreTerminal(r) PROVE Good
  <2>1. FactsOf(row[r]) \in Decision
    BY <1>7, RowUpdates DEF RestoreTerminal, Ended
  <2>2. PICK h \in HubState : h = FromDecision(Absent, FactsOf(row[r]))
    BY <2>1, HubUpdates, ConstantsTyped
  <2>3. h.cause = row[r].cause /\ h.ctx = ""
    BY <2>1, <2>2, CausesOfUpdates, ConstantsTyped, FreshCauses, ZenonT(60) DEF FactsOf
  <2>4. PICK g : g = [h EXCEPT !.durable = TRUE] /\ hub' = [hub EXCEPT ![r] = g]
    BY <1>7, <2>2 DEF RestoreTerminal
  <2>5. g.cause = h.cause /\ g.ctx = h.ctx
    BY <2>4 DEF HubState
  <2>. QED
    BY <1>2, <2>3, <2>4, <2>5 DEF RowsInv, RowSound, Honest
<1>8. ASSUME NEW r \in Runs, RejectAdmission(r) PROVE Good
  <2>1. PICK h : /\ h = hub[r] \/ h = Interrupted(hub[r], "account_changed")
                 /\ hub' = [hub EXCEPT ![r] = h]
    BY <1>8 DEF RejectAdmission
  <2>2. Honest(r, h.cause) /\ Honest(r, h.ctx)
    BY <2>1, CausesOfUpdates DEF Honest, Causes
  <2>. QED
    BY <1>2, <2>1, <2>2
<1>9. ASSUME NEW r \in Runs, UserStop(r) PROVE Good
  <2>1. PICK h : h = Interrupted(hub[r], "user_stop") /\ hub' = [hub EXCEPT ![r] = h]
    BY <1>9 DEF UserStop
  <2>2. h.cause = "user_stop" /\ h.ctx \in {hub[r].ctx, "user_stop"}
    BY <2>1, CausesOfUpdates DEF Causes
  <2>. QED
    BY <1>2, <2>1, <2>2 DEF Honest
<1>10. ASSUME NEW r \in Runs, NEW f \in Finalizers, Freeze(r, f) PROVE Good
  <2>1. PICK h \in HubState : h = Adopted(hub[r], call[r][f])
    BY DecideTyped
  <2>2. h.cause \in {hub[r].cause, hub[r].ctx} /\ h.ctx = hub[r].ctx
    BY <2>1, CausesOfUpdates
  <2>3. PICK g : g = [h EXCEPT !.finishing = TRUE] /\ hub' = [hub EXCEPT ![r] = g]
    BY <1>10, <2>1 DEF Freeze
  <2>4. g.cause = h.cause /\ g.ctx = h.ctx
    BY <2>3 DEF HubState
  <2>. QED
    BY <1>2, <2>2, <2>3, <2>4
<1>11. ASSUME NEW r \in Runs, NEW f \in Finalizers, Publish(r, f) PROVE Good
  <2>1. PICK g : g = FromDecision(hub[r], decided[r]) /\ hub' = [hub EXCEPT ![r] = g]
    BY <1>11 DEF Publish
  <2>2. g.cause = decided[r].cause /\ g.ctx = hub[r].ctx
    BY <2>1, CausesOfUpdates
  <2>. QED
    BY <1>2, <2>1, <2>2 DEF DecidedInv
<1>12. ASSUME NEW S, NEW c \in Causes, CancelMatching(S, c),
              \A r \in S \cap Runs : Honest(r, c)
       PROVE  Good
  <2>1. ASSUME NEW q \in Runs
        PROVE  hub'[q] = hub[q] \/ (q \in S /\ hub'[q] = Interrupted(hub[q], c))
    BY <1>12 DEF CancelMatching
  <2>2. ASSUME NEW q \in Runs, q \in S, hub'[q] = Interrupted(hub[q], c)
        PROVE  Honest(q, hub'[q].cause) /\ Honest(q, hub'[q].ctx)
    <3>1. hub'[q].cause = c /\ hub'[q].ctx \in {hub[q].ctx, c}
      BY <2>2, CausesOfUpdates
    <3>. QED
      BY <1>12, <2>2, <3>1
  <2>. QED
    BY <2>1, <2>2
<1>13. ASSUME NEW u \in Users, CancelByUser(u) PROVE Good
  BY <1>12, <1>13 DEF CancelByUser, Causes, Honest
<1>14. ASSUME NEW s \in Sessions, CancelSession(s) PROVE Good
  BY <1>12, <1>14 DEF CancelSession, Causes, Honest, NotifyInv
<1>15. ASSUME CancelForDrain PROVE Good
  BY <1>12, <1>15 DEF CancelForDrain, Causes, Honest
<1>16. ASSUME LoseMemory PROVE Good
  BY <1>16 DEF LoseMemory, Absent, Honest
<1>17. ASSUME UNCHANGED hub PROVE Good
  BY <1>17
<1>. QED
  BY <1>1, <1>3, <1>4, <1>5, <1>6, <1>7, <1>8, <1>9, <1>10, <1>11, <1>13, <1>14,
     <1>15, <1>16, <1>17, HubSteps DEF HubWrites

(* A follow-up call fails the run, or cancels it for the deletion it met. *)
LEMMA NextCallSound ==
  ASSUME NEW r \in Runs, NEW c, NEW f, NEW ok, NEW cause,
         Honest(r, c.cause), Honest(r, cause)
  PROVE  /\ Honest(r, NextCall(c, f, ok, cause).cause)
         /\ Accountable(NextCall(c, f, ok, cause))
<1>. DEFINE n == NextCall(c, f, ok, cause)
<1>1. \/ n.status = "failed" /\ n.cause \in {c.cause, ""}
      \/ n.status = "canceled" /\ n.cause = cause /\ cause = "session_deleted"
  BY DEF NextCall, NoCall, Fallback, Waiting
<1>. HIDE DEF n
<1>2. Honest(r, n.cause)
  BY <1>1 DEF Honest
<1>3. Accountable(n)
  BY <1>1 DEF Accountable
<1>. QED
  BY <1>2, <1>3 DEF n

(* The cause a run ends with is as honest as the two it is taken from. *)
LEMMA EffectiveHonest ==
  ASSUME HubsInv, NEW r \in Runs
  PROVE  Honest(r, Effective(r))
BY DEF HubsInv, HonestHub, Effective

(* Whatever a handler, a worker or the drain proposes is sound. *)
LEMMA CallsNext == TypeInv /\ LedgerInv /\ [Next]_vars => CallsInv'
<1>. SUFFICES ASSUME TypeInv, LedgerInv, [Next]_vars PROVE CallsInv'
  OBVIOUS
<1>. USE DEF TypeInv, TypeOK, LedgerInv, CallsInv, HonestCalls
<1>. DEFINE Sound(q, c) == Honest(q, c.cause) /\ Accountable(c)
            Good == \A q \in Runs, f \in Finalizers : Sound(q, call'[q][f])
<1>1. ASSUME Good PROVE CallsInv'
  BY <1>1, DeletedGrows DEF Honest, Accountable
<1>2. ASSUME NEW r \in Runs, NEW f \in Finalizers, NEW c,
             call' = [call EXCEPT ![r][f] = c], Sound(r, c)
      PROVE  Good
  <2>1. ASSUME NEW q \in Runs, NEW g \in Finalizers PROVE Sound(q, call'[q][g])
    <3>1. call'[q][g] = IF q = r /\ g = f THEN c ELSE call[q][g]
      BY <1>2
    <3>2. Sound(q, call[q][g])
      OBVIOUS
    <3>. QED
      BY <1>2, <3>1, <3>2
  <2>. QED
    BY <2>1
<1>3. ASSUME NEW r \in Runs, NEW f \in Finalizers, NEW stage, NEW status, NEW cause, NEW force,
             Propose(r, f, stage, status, cause, force), Honest(r, cause),
             status = "completed" => stage = "batch" /\ cause = "" /\ ~force,
             status = "canceled" => cause # ""
      PROVE  Good
  <2>1. Sound(r, Waiting(stage, status, cause, force))
    BY <1>3 DEF Waiting, Accountable
  <2>. QED
    BY <1>2, <1>3, <2>1 DEF Propose
<1>4. ASSUME NEW r \in Runs, RejectAdmission(r) PROVE Good
  <2>1. PICK h : /\ h = hub[r] \/ h = Interrupted(hub[r], "account_changed")
                 /\ LET cause == IF h.cause # "" THEN h.cause ELSE h.ctx
                    IN  Propose(r, "handler", "plain",
                                IF cause # "" THEN "canceled" ELSE "failed", cause, FALSE)
    BY <1>4 DEF RejectAdmission
  <2>2. h = hub[r] \/ h.cause = "account_changed"
    <3>1. Interrupted(hub[r], "account_changed").cause = "account_changed"
      BY CausesOfUpdates DEF Causes
    <3>. QED
      BY <2>1, <3>1
  <2>3. Honest(r, IF h.cause # "" THEN h.cause ELSE h.ctx)
    BY <2>2 DEF Honest, HubsInv, HonestHub
  <2>. QED
    BY <1>3, <2>1, <2>3 DEF Finalizers
<1>5. ASSUME NEW r \in Runs, NEW stage, NEW status, NEW cause, NEW force,
             Finish(r, stage, status, cause, force), Honest(r, cause),
             status = "completed" => stage = "batch" /\ cause = "" /\ ~force,
             status = "canceled" => cause # ""
      PROVE  Good
  BY <1>3, <1>5 DEF Finish, Finalizers
<1>6. ASSUME UNCHANGED call PROVE Good
  BY <1>6
<1>7. ASSUME NEW r \in Runs, WorkerStep(r) PROVE Good
  <2>1. Honest(r, Effective(r)) /\ Honest(r, "") /\ Honest(r, "upstream_canceled")
    BY EffectiveHonest DEF Honest
  <2>2. CASE WorkerStart(r)
    <3>1. \/ UNCHANGED call
          \/ Finish(r, "deferred", "failed", "", FALSE)
          \/ Effective(r) # "" /\ Finish(r, "plain", "canceled", Effective(r), FALSE)
      BY <2>2 DEF WorkerStart, Effective
    <3>. QED
      BY <1>5, <1>6, <2>1, <3>1
  <2>3. CASE WorkerSetup(r)
    <3>1. \/ UNCHANGED call
          \/ Effective(r) # "" /\ Finish(r, "plain", "canceled", Effective(r), FALSE)
          \/ \E stage \in {"plain", "batch"} : Finish(r, stage, "failed", "", FALSE)
      BY <2>3 DEF WorkerSetup
    <3>. QED
      BY <1>5, <1>6, <2>1, <3>1
  <2>4. CASE WorkerOutcome(r)
    <3>1. \/ /\ Effective(r) # ""
             /\ \E stage \in {"plain", "batch"} :
                  Finish(r, stage, "canceled", Effective(r), FALSE)
          \/ \E stage \in {"plain", "batch"} :
               Finish(r, stage, "canceled", "upstream_canceled", FALSE)
          \/ Finish(r, "batch", "failed", "", FALSE)
          \/ Finish(r, "batch", "completed", "", FALSE)
      BY <2>4 DEF WorkerOutcome
    <3>. QED
      BY <1>5, <2>1, <3>1
  <2>5. CASE WorkerPanic(r)
    BY <1>5, <2>1, <2>5 DEF WorkerPanic
  <2>. QED
    BY <1>7, <2>2, <2>3, <2>4, <2>5 DEF WorkerStep
<1>8. ASSUME NEW r \in Runs, NEW f \in Finalizers, NEW step,
             call' = [call EXCEPT ![r][f].step = step]
      PROVE  Good
  <2>1. PICK c : c = [call[r][f] EXCEPT !.step = step]
    OBVIOUS
  <2>2. call' = [call EXCEPT ![r][f] = c]
    BY <1>8, <2>1
  <2>3. call[r][f] \in Call /\ Sound(r, call[r][f])
    OBVIOUS
  <2>4. Sound(r, c)
    BY <2>1, <2>3 DEF Call, Accountable
  <2>. QED
    BY <1>2, <2>2, <2>4
<1>9. ASSUME NEW r \in Runs, NEW f \in Finalizers, Freeze(r, f) \/ PersistTerminal(r, f)
      PROVE  Good
  <2>1. \E step \in {"frozen", "recorded"} : call' = [call EXCEPT ![r][f].step = step]
    BY <1>9 DEF Freeze, PersistTerminal
  <2>. QED
    BY <1>8, <2>1
<1>10. ASSUME NEW r \in Runs, NEW f \in Finalizers, NEW ok \in BOOLEAN, Return(r, f, ok)
       PROVE  Good
  <2>1. PICK c : c = NextCall(call[r][f], f, ok, Effective(r))
    OBVIOUS
  <2>2. call' = [call EXCEPT ![r][f] = c]
    BY <1>10, <2>1 DEF Return
  <2>3. call[r][f] \in Call /\ Sound(r, call[r][f])
    OBVIOUS
  <2>4. Sound(r, c)
    BY <2>1, <2>3, NextCallSound, EffectiveHonest, EffectiveTyped
  <2>. QED
    BY <1>2, <2>2, <2>4
<1>11. ASSUME NEW r \in Runs, NEW f \in Finalizers,
              \/ TransitionMoot(r, f) \/ TransitionExpired(r, f)
              \/ PersistRejected(r, f) \/ Publish(r, f)
       PROVE  Good
  BY <1>10, <1>11 DEF TransitionMoot, TransitionExpired, PersistRejected, Publish
<1>12. ASSUME FinalizeForDrain PROVE Good
  <2>1. ASSUME NEW q \in Runs, NEW g \in Finalizers PROVE Sound(q, call'[q][g])
    <3>. DEFINE cause == IF hub[q].cause # "" THEN hub[q].cause ELSE "server_draining"
    <3>1. call'[q][g] = call[q][g] \/ call'[q][g] = Waiting("plain", "canceled", cause, FALSE)
      BY <1>12 DEF FinalizeForDrain
    <3>2. Sound(q, Waiting("plain", "canceled", cause, FALSE))
      BY DEF Waiting, Accountable, Honest, HubsInv, HonestHub
    <3>. QED
      BY <3>1, <3>2
  <2>. QED
    BY <2>1
<1>13. ASSUME LoseMemory PROVE Good
  BY <1>13 DEF LoseMemory, NoCall, Honest, Accountable
<1>. QED
  BY <1>1, <1>4, <1>6, <1>7, <1>9, <1>11, <1>12, <1>13, CallSteps DEF CallWrites

(* What a finalizer decides is sound when its call and the hub are. *)
LEMMA DecideSound ==
  ASSUME NEW r \in Runs, NEW h \in HubState, NEW c \in Call,
         Honest(r, h.cause), Honest(r, c.cause), Accountable(c)
  PROVE  /\ Honest(r, Decide(h, c).cause)
         /\ Decide(h, c).status = "completed" => c.stage = "batch" /\ Decide(h, c).cause = ""
         /\ Decide(h, c).status = "canceled" => Decide(h, c).cause # ""
BY DEF Decide, Honest, Accountable

(* The holder of transitionMu is the only finalizer past its decision. *)
LEMMA SoleHolder ==
  ASSUME HubInv, NEW r \in Runs, NEW f \in Finalizers, NEW g \in Finalizers,
         call[r][f].step \in Holding, call[r][g].step \in Holding
  PROVE  g = f
BY DEF HubInv, RunInv, FinalizerHolds

(* The facts of the row a terminal write leaves are honest. *)
LEMMA StoredHonest ==
  ASSUME TypeInv, LedgerInv, NEW r \in Runs, NEW c
  PROVE  Honest(r, StoredRow(r, c).cause)
<1>1. CASE Live(r)
  BY <1>1 DEF StoredRow, EndRow, LedgerInv, DecidedInv
<1>2. CASE ~Live(r)
  BY <1>2 DEF StoredRow, LedgerInv, RowsInv, RowSound
<1>. QED
  BY <1>1, <1>2

(* A finalizer holds transitionMu because it did before, or freezes the run,  *)
(* or has just stored its outcome.                                          *)
LEMMA HoldingIsOld ==
  ASSUME TypeInv, [Next]_vars, NEW q \in Runs, NEW g \in Finalizers,
         call'[q][g].step \in Holding
  PROVE  call'[q][g] = call[q][g] \/ Freeze(q, g) \/ PersistTerminal(q, g)
<1>. USE DEF TypeInv, TypeOK
<1>1. ASSUME NEW r \in Runs, NEW f \in Finalizers, NEW stage, NEW status, NEW cause, NEW force,
             Propose(r, f, stage, status, cause, force)
      PROVE  call'[q][g] = call[q][g]
  BY <1>1 DEF Propose, Waiting, Holding
<1>2. ASSUME NEW r \in Runs, RejectAdmission(r) PROVE call'[q][g] = call[q][g]
  BY <1>1, <1>2 DEF RejectAdmission, Finalizers
<1>3. ASSUME NEW r \in Runs, WorkerStep(r) PROVE call'[q][g] = call[q][g]
  <2>1. ASSUME NEW stage, NEW status, NEW cause, NEW force,
               Finish(r, stage, status, cause, force)
        PROVE  call'[q][g] = call[q][g]
    BY <1>1, <2>1 DEF Finish, Finalizers
  <2>. QED
    BY <1>3, <2>1 DEF WorkerStep, WorkerStart, WorkerSetup, WorkerOutcome, WorkerPanic
<1>4. ASSUME NEW r \in Runs, NEW f \in Finalizers, NEW ok, Return(r, f, ok)
      PROVE  call'[q][g] = call[q][g]
  BY <1>4, NextCallIsNew DEF Return
<1>5. ASSUME NEW r \in Runs, NEW f \in Finalizers,
             \/ TransitionMoot(r, f) \/ TransitionExpired(r, f)
             \/ PersistRejected(r, f) \/ Publish(r, f)
      PROVE  call'[q][g] = call[q][g]
  BY <1>4, <1>5 DEF TransitionMoot, TransitionExpired, PersistRejected, Publish
<1>6. ASSUME NEW r \in Runs, NEW f \in Finalizers, Freeze(r, f) \/ PersistTerminal(r, f),
             q # r \/ g # f
      PROVE  call'[q][g] = call[q][g]
  BY <1>6 DEF Freeze, PersistTerminal
<1>7. ASSUME FinalizeForDrain PROVE call'[q][g] = call[q][g]
  BY <1>7 DEF FinalizeForDrain, Waiting, Holding
<1>8. ASSUME LoseMemory PROVE FALSE
  BY <1>8 DEF LoseMemory, NoCall, Holding
<1>. QED
  BY <1>2, <1>3, <1>5, <1>6, <1>7, <1>8, CallSteps DEF CallWrites

(* Every decision is sound until it is stored, and honest ever after. *)
LEMMA DecidedNext == TypeInv /\ HubInv /\ LedgerInv /\ [Next]_vars => DecidedInv'
<1>. SUFFICES ASSUME TypeInv, HubInv, LedgerInv, [Next]_vars PROVE DecidedInv'
  OBVIOUS
<1>. USE DEF TypeInv, TypeOK, LedgerInv, DecidedInv
<1>. DEFINE Sound(d, c) == c.step = "frozen" =>
              /\ d.status = "completed" => c.stage = "batch" /\ d.cause = ""
              /\ d.status = "canceled" => d.cause # ""
            Good(q) == /\ Honest(q, decided'[q].cause)
                       /\ \A g \in Finalizers : Sound(decided'[q], call'[q][g])
<1>1. ASSUME \A q \in Runs : Good(q) PROVE DecidedInv'
  BY <1>1, DeletedGrows DEF Honest, DecidedSoundly
<1>2. ASSUME NEW q \in Runs, decided'[q] = decided[q],
             \A g \in Finalizers : call'[q][g].step = "frozen" => call'[q][g] = call[q][g]
      PROVE  Good(q)
  <2>1. Honest(q, decided[q].cause) /\ DecidedSoundly(q)
    OBVIOUS
  <2>2. ASSUME NEW g \in Finalizers PROVE Sound(decided'[q], call'[q][g])
    BY <1>2, <2>1, ZenonT(60) DEF DecidedSoundly
  <2>. QED
    BY <1>2, <2>1, <2>2
<1>3. ASSUME NEW r \in Runs, NEW f \in Finalizers, Freeze(r, f) PROVE \A q \in Runs : Good(q)
  <2>1. PICK h \in HubState : h = Adopted(hub[r], call[r][f])
    BY DecideTyped
  <2>2. PICK c \in Call : c = call[r][f]
    OBVIOUS
  <2>3. Honest(r, h.cause) /\ Honest(r, c.cause) /\ Accountable(c)
    <3>1. h.cause \in {hub[r].cause, hub[r].ctx}
      BY <2>1, CausesOfUpdates
    <3>2. HonestHub(r) /\ HonestCalls(r) /\ Accountable(call[r][f])
      BY DEF HubsInv, CallsInv
    <3>. QED
      BY <2>2, <3>1, <3>2 DEF HonestHub, HonestCalls
  <2>4. /\ decided' = [decided EXCEPT ![r] = Decide(h, c)]
        /\ call' = [call EXCEPT ![r][f].step = "frozen"]
    BY <1>3, <2>1, <2>2 DEF Freeze
  <2>5. \A g \in Finalizers \ {f} : call'[r][g].step # "frozen"
    BY <1>3, <2>4 DEF Freeze, HubInv, RunInv, FinalizerHolds, Holding, Finalizers
  <2>6. call'[r][f].stage = c.stage
    BY <2>2, <2>4 DEF Call
  <2>7. Good(r)
    <3>1. decided'[r] = Decide(h, c)
      BY <2>4
    <3>2. Honest(r, decided'[r].cause) /\ Sound(decided'[r], call'[r][f])
      BY <2>3, <2>6, <3>1, DecideSound, ZenonT(60)
    <3>. QED
      BY <2>5, <3>2
  <2>. QED
    BY <1>2, <2>4, <2>7, ZenonT(60)
<1>4. ASSUME NEW r \in Runs, NEW f \in Finalizers, PersistTerminal(r, f)
      PROVE  \A q \in Runs : Good(q)
  <2>1. /\ call' = [call EXCEPT ![r][f].step = "recorded"]
        /\ decided' = [decided EXCEPT ![r] = Recorded(r, call[r][f])]
        /\ call[r][f].step = "frozen"
    BY <1>4 DEF PersistTerminal
  <2>2. \A g \in Finalizers : call'[r][g].step # "frozen"
    <3>1. \A g \in Finalizers \ {f} : call[r][g].step # "frozen"
      BY <2>1, SoleHolder DEF Holding
    <3>. QED
      BY <2>1, <3>1 DEF Call
  <2>3. Honest(r, Recorded(r, call[r][f]).cause)
    BY StoredHonest DEF Recorded, FactsOf
  <2>. QED
    BY <1>2, <2>1, <2>2, <2>3, ZenonT(60)
<1>5. ASSUME NEW r \in Runs, NEW f \in Finalizers, PersistRejected(r, f) \/ Publish(r, f)
      PROVE  \A q \in Runs : Good(q)
  <2>1. decided' = [decided EXCEPT ![r] = Undecided] /\ \A q \in Runs \ {r} : call'[q] = call[q]
    BY <1>5 DEF PersistRejected, Publish, Return
  <2>2. Good(r)
    BY <2>1 DEF Undecided, Honest
  <2>3. ASSUME NEW q \in Runs \ {r} PROVE Good(q)
    BY <1>2, <2>1, ZenonT(60)
  <2>. QED
    BY <2>2, <2>3, ZenonT(60)
<1>6. ASSUME LoseMemory PROVE \A q \in Runs : Good(q)
  BY <1>6 DEF LoseMemory, Undecided, NoCall, Honest
<1>7. ASSUME UNCHANGED decided,
             \A r \in Runs, f \in Finalizers : ~(Freeze(r, f) \/ PersistTerminal(r, f))
      PROVE  \A q \in Runs : Good(q)
  <2>1. ASSUME NEW q \in Runs, NEW g \in Finalizers, call'[q][g].step = "frozen"
        PROVE  call'[q][g] = call[q][g]
    BY <1>7, <2>1, HoldingIsOld DEF Holding
  <2>. QED
    BY <1>2, <1>7, <2>1
<1>. QED
  BY <1>1, <1>3, <1>4, <1>5, <1>6, <1>7, DecidedSteps

(* What a new row holds, and how the restart ends one. *)
LEMMA RowFacts ==
  ASSUME NEW w
  PROVE  /\ NoRow.cause = "" /\ NoRow.answers = 0
         /\ LET e == EndRow(w, [status |-> "failed", cause |-> ""], 0)
            IN  e.status = "failed" /\ e.cause = "" /\ e.answers = w.answers + 0
BY DEF NoRow, EndRow

(* A running row holds no answer: it ends with those of its last step. *)
LEMMA NoAnswerYet ==
  ASSUME TypeInv, LedgerInv, NEW r \in Runs, Live(r)
  PROVE  row[r].answers + 0 = 0 /\ row[r].answers + 1 = 1
<1>1. row[r].answers = 0
  BY DEF LedgerInv, RowsInv, RowSound
<1>. QED
  BY <1>1

(* A canceled row keeps what a row must be; so does one that is left alone. *)
LEMMA CancelRowsSound ==
  ASSUME TypeInv, LedgerInv, NEW S, NEW cause, CancelRows(S, cause), cause # "",
         \A r \in S \cap Runs : cause = "session_deleted" => SessionOf[r] \in deleted',
         \A r \in Runs \ S : SessionOf[r] \in deleted' => SessionOf[r] \in deleted,
         deleted \subseteq deleted'
  PROVE  RowsInv'
<1>. USE DEF TypeInv, TypeOK, LedgerInv, RowsInv, RowSound
<1>1. ASSUME NEW r \in Runs, r \in S, Live(r) PROVE RowSound(r)'
  <2>1. row'[r].status = "canceled" /\ row'[r].cause = cause
    BY <1>1 DEF CancelRows, EndRow
  <2>. QED
    BY <1>1, <2>1 DEF Live, Honest
<1>2. ASSUME NEW r \in Runs, ~(r \in S /\ Live(r)) PROVE RowSound(r)'
  <2>1. row'[r] = row[r]
    BY <1>2 DEF CancelRows
  <2>. QED
    BY <1>2, <2>1 DEF Live, Honest
<1>. QED
  BY <1>1, <1>2

(* A row runs without an answer until it ends, in a session that is open. *)
LEMMA RowsNext == TypeInv /\ LedgerInv /\ [Next]_vars => RowsInv'
<1>. SUFFICES ASSUME TypeInv, LedgerInv, [Next]_vars PROVE RowsInv'
  OBVIOUS
<1>. USE DEF TypeInv, TypeOK, LedgerInv, RowsInv, RowSound
<1>1. CASE UNCHANGED <<row, deleted>>
  BY <1>1 DEF Live, Honest
<1>2. ASSUME NEW r \in Runs, AdmissionCreated(r) PROVE RowsInv'
  <2>1. /\ row' = [row EXCEPT ![r].status = "running"] /\ UNCHANGED deleted
        /\ row[r] = NoRow /\ SessionOf[r] \notin deleted
    BY <1>2 DEF AdmissionCreated, AdmissionReads, MayAdmit
  <2>2. RowSound(r)'
    <3>1. row[r].cause = "" /\ row[r].answers = 0
      BY <2>1, RowFacts
    <3>2. PICK e : e = [row[r] EXCEPT !.status = "running"]
      OBVIOUS
    <3>3. row[r] \in Row /\ row'[r] = e
      BY <2>1, <3>2
    <3>4. e.status = "running" /\ e.cause = row[r].cause /\ e.answers = row[r].answers
      BY <3>2, <3>3 DEF Row
    <3>. QED
      BY <2>1, <3>1, <3>3, <3>4 DEF Live, Honest
  <2>3. ASSUME NEW q \in Runs \ {r} PROVE RowSound(q)'
    BY <2>1 DEF Live, Honest
  <2>. QED
    BY <2>2, <2>3
<1>3. ASSUME NEW r \in Runs, NEW f \in Finalizers, PersistTerminal(r, f) \/ PersistAnswerLost(r, f)
      PROVE  RowsInv'
  <2>. DEFINE w == StoredRow(r, call[r][f])
  <2>1. row' = [row EXCEPT ![r] = w] /\ UNCHANGED deleted
    BY <1>3 DEF PersistTerminal, PersistAnswerLost, history
  <2>2. Honest(r, w.cause)
    BY StoredHonest
  <2>3. /\ w.status # "running"
        /\ w.status = "none" => w = NoRow
    BY DEF StoredRow, EndRow, Live, Decision, Terminal
  <2>4. RowSound(r)'
    <3>. HIDE DEF w
    <3>. QED
      BY <2>1, <2>2, <2>3 DEF Live, Honest
  <2>5. ASSUME NEW q \in Runs \ {r} PROVE RowSound(q)'
    BY <2>1 DEF Live, Honest
  <2>. QED
    BY <2>4, <2>5
<1>4. ASSUME NEW u \in Users, ChangeAccount(u) PROVE RowsInv'
  <2>1. CancelRows({r \in Runs : UserOfRun(r) = u}, "account_changed") /\ UNCHANGED deleted
    BY <1>4 DEF ChangeAccount
  <2>. QED
    BY <2>1, CancelRowsSound
<1>5. ASSUME NEW s \in Sessions, DeleteSession(s) PROVE RowsInv'
  <2>1. /\ CancelRows({r \in Runs : SessionOf[r] = s}, "session_deleted")
        /\ deleted' = deleted \cup {s}
    BY <1>5 DEF DeleteSession
  <2>. QED
    BY <2>1, CancelRowsSound
<1>6. ASSUME Restart PROVE RowsInv'
  <2>1. ASSUME NEW r \in Runs PROVE RowSound(r)'
    <3>1. row'[r] = Reconciled(r) /\ UNCHANGED deleted
      BY <1>6 DEF Restart
    <3>2. CASE Live(r)
      <4>1. PICK o : o = row'[r]
        OBVIOUS
      <4>2. o.status = "failed" /\ o.cause = ""
        BY <3>1, <3>2, <4>1, RowFacts, ZenonT(60) DEF Reconciled
      <4>. QED
        BY <4>1, <4>2 DEF Live, Honest
    <3>3. CASE ~Live(r)
      BY <3>1, <3>3 DEF Reconciled, Live, Honest
    <3>. QED
      BY <3>2, <3>3
  <2>. QED
    BY <2>1
<1>. QED
  BY <1>1, <1>2, <1>3, <1>4, <1>5, <1>6, RowSteps, DeletedSteps

(* Every step preserves the invariant. *)
LEMMA LedgerNext == TypeInv /\ HubInv /\ LedgerInv /\ [Next]_vars => LedgerInv'
BY RowsNext, HubsNext, CallsNext, DecidedNext, NotifyNext DEF LedgerInv

-----------------------------------------------------------------------------
(* The refinement *)

(* The ways to end that the ledger knows. *)
LEMMA Outcomes ==
  ASSUME NEW o \in Row, o.status \in Terminal, o.cause # "session_deleted",
         o.answers \in {0, 1},
         o.status = "completed" => o.answers = 1 /\ o.cause = "",
         o.status = "canceled" => o.cause # ""
  PROVE  o \in Ledger!Outcome
<1>1. o.status \in Ledger!Terminal /\ o.cause \in Ledger!Causes
  BY DEF Row, Terminal, Ledger!Terminal, MaybeCause, Causes, Ledger!Causes
<1>2. o \in [status : Ledger!Terminal, cause : Ledger!Causes, answers : {0, 1}]
  BY <1>1 DEF Row
<1>. QED
  BY <1>2 DEF Ledger!Outcome

(* What a finalizer stores into a running row is an outcome of the ledger. *)
LEMMA StoredIsOutcome ==
  ASSUME TypeInv, LedgerInv, NEW r \in Runs, NEW f \in Finalizers,
         call[r][f].step = "frozen", Live(r)
  PROVE  StoredRow(r, call[r][f]) \in Ledger!Outcome
<1>. USE DEF TypeInv, TypeOK
<1>1. PICK o : o = StoredRow(r, call[r][f])
  OBVIOUS
<1>2. /\ o.status = decided[r].status /\ o.cause = decided[r].cause
      /\ o.answers = IF call[r][f].stage = "batch" THEN 1 ELSE 0
  BY <1>1, NoAnswerYet DEF StoredRow, EndRow
<1>3. o \in Row
  BY <1>1, RowUpdates DEF StoredRow
<1>4. decided[r].status \in Terminal
  BY DEF Decision
<1>5. decided[r].cause # "session_deleted"
  BY DEF LedgerInv, RowsInv, RowSound, DecidedInv, Honest
<1>6. /\ decided[r].status = "completed" => call[r][f].stage = "batch" /\ decided[r].cause = ""
      /\ decided[r].status = "canceled" => decided[r].cause # ""
  BY DEF LedgerInv, DecidedInv, DecidedSoundly
<1>7. o \in Ledger!Outcome
  BY <1>2, <1>3, <1>4, <1>5, <1>6, Outcomes
<1>. QED
  BY <1>1, <1>7

(* Ending rows with outcomes is a step of the ledger, or none at all. *)
LEMMA EndingIsAStep ==
  ASSUME TypeInv, UNCHANGED deleted, row' \in [Runs -> Row],
         \A r \in Runs : row'[r] # row[r] => Live(r) /\ row'[r] \in Ledger!Outcome
  PROVE  [Ledger!Next]_Ledger!vars
<1>. USE DEF TypeInv, TypeOK
<1>. DEFINE S == {r \in Runs : row'[r] # row[r]}
<1>1. CASE S = {}
  <2>1. row' = row
    BY <1>1
  <2>. QED
    BY <2>1 DEF Ledger!vars
<1>2. CASE S # {}
  <2>1. S \in (SUBSET Runs) \ {{}}
    BY <1>2
  <2>. DEFINE end == [r \in S |-> row'[r]]
  <2>2. end \in [S -> Ledger!Outcome]
    OBVIOUS
  <2>3. row' = [r \in Runs |-> IF r \in S THEN end[r] ELSE row[r]]
    OBVIOUS
  <2>4. Ledger!EndSome(S)
    BY <2>2, <2>3 DEF Ledger!EndSome, Ledger!Live, Live
  <2>. QED
    BY <2>1, <2>4 DEF Ledger!Next, Ledger!End
<1>. QED
  BY <1>1, <1>2

(* Every step of the system is a step of the ledger on the rows. *)
LEMMA StepIsLedgerStep ==
  ASSUME TypeInv, HubInv, OneLiveRunPerSession, LedgerInv, [Next]_vars
  PROVE  [Ledger!Next]_Ledger!vars
<1>. USE DEF TypeInv, TypeOK
<1>0. row' \in [Runs -> Row] /\ OneLiveRunPerSession'
  BY TypeNext, SoleRowNext
<1>1. CASE UNCHANGED <<row, deleted>>
  BY <1>1 DEF Ledger!vars
<1>2. ASSUME NEW r \in Runs, AdmissionCreated(r) PROVE Ledger!Next
  <2>1. /\ row' = [row EXCEPT ![r].status = "running"] /\ UNCHANGED deleted
        /\ row[r] = NoRow /\ SessionOf[r] \notin deleted
    BY <1>2 DEF AdmissionCreated, AdmissionReads, MayAdmit, LedgerInv, RowsInv, RowSound
  <2>2. row' = [row EXCEPT ![r] = Ledger!Begun] /\ row[r] = Ledger!NoEntry
    BY <2>1 DEF NoRow, Ledger!Begun, Ledger!NoEntry
  <2>3. Live(r)' /\ ~Live(r)
    <3>1. row[r].status = "none"
      BY <1>2 DEF AdmissionCreated
    <3>. QED
      BY <2>1, <3>1 DEF Live, Row
  <2>4. ASSUME NEW q \in Runs, SessionOf[q] = SessionOf[r], Live(q) PROVE FALSE
    <3>1. q # r /\ Live(q)'
      BY <2>1, <2>3, <2>4 DEF Live
    <3>. QED
      BY <1>0, <2>3, <2>4, <3>1 DEF OneLiveRunPerSession
  <2>5. SessionOf[r] \in Sessions \ deleted
    BY <2>1, SessionOfAssumption
  <2>6. Ledger!Admit(r)
    BY <2>1, <2>2, <2>4, <2>5 DEF Ledger!Admit, Ledger!Live, Live
  <2>. QED
    BY <2>6 DEF Ledger!Next
<1>3. ASSUME NEW r \in Runs, NEW f \in Finalizers, PersistTerminal(r, f) \/ PersistAnswerLost(r, f)
      PROVE  [Ledger!Next]_Ledger!vars
  <2>1. /\ row' = [row EXCEPT ![r] = StoredRow(r, call[r][f])] /\ UNCHANGED deleted
        /\ call[r][f].step = "frozen"
    BY <1>3 DEF PersistTerminal, PersistAnswerLost, history
  <2>2. CASE Live(r)
    <3>1. row'[r] \in Ledger!Outcome /\ \A q \in Runs \ {r} : row'[q] = row[q]
      BY <2>1, <2>2, StoredIsOutcome
    <3>. QED
      BY <1>0, <2>1, <2>2, <3>1, EndingIsAStep
  <2>3. CASE ~Live(r)
    BY <2>1, <2>3 DEF StoredRow, Ledger!vars
  <2>. QED
    BY <2>2, <2>3
<1>4. ASSUME NEW S, NEW cause \in Causes \ {"session_deleted"}, CancelRows(S, cause),
             UNCHANGED deleted
      PROVE  [Ledger!Next]_Ledger!vars
  <2>1. ASSUME NEW r \in Runs, row'[r] # row[r]
        PROVE  Live(r) /\ row'[r] \in Ledger!Outcome
    <3>1. Live(r) /\ row'[r] = EndRow(row[r], [status |-> "canceled", cause |-> cause], 0)
      BY <1>4, <2>1 DEF CancelRows
    <3>2. PICK o : o = row'[r]
      OBVIOUS
    <3>3. o.status = "canceled" /\ o.cause = cause /\ o.answers = 0
      BY <3>1, <3>2, NoAnswerYet DEF EndRow
    <3>4. o \in Row /\ cause # "session_deleted" /\ cause # ""
      BY <1>0, <3>2 DEF Causes
    <3>. QED
      BY <3>1, <3>2, <3>3, <3>4, Outcomes DEF Terminal
  <2>. QED
    BY <1>0, <1>4, <2>1, EndingIsAStep
<1>5. ASSUME NEW u \in Users, ChangeAccount(u) PROVE [Ledger!Next]_Ledger!vars
  BY <1>4, <1>5 DEF ChangeAccount, Causes
<1>6. ASSUME NEW s \in Sessions, DeleteSession(s) PROVE Ledger!Next
  <2>1. /\ CancelRows({r \in Runs : SessionOf[r] = s}, "session_deleted")
        /\ deleted' = deleted \cup {s} /\ s \notin deleted
    BY <1>6 DEF DeleteSession
  <2>2. \A r \in Runs : Live(r) =>
          EndRow(row[r], [status |-> "canceled", cause |-> "session_deleted"], 0)
            = [status |-> "canceled", cause |-> "session_deleted", answers |-> 0]
    BY NoAnswerYet DEF EndRow
  <2>3. row' = [r \in Runs |->
          IF SessionOf[r] = s /\ Live(r)
            THEN [status |-> "canceled", cause |-> "session_deleted", answers |-> 0]
            ELSE row[r]]
    BY <2>1, <2>2 DEF CancelRows
  <2>4. s \in Sessions \ deleted /\ Sessions \ deleted' = (Sessions \ deleted) \ {s}
    BY <2>1
  <2>5. Ledger!CloseSession(s)
    BY <2>3, <2>4 DEF Ledger!CloseSession, Ledger!Live, Live
  <2>. QED
    BY <2>5 DEF Ledger!Next
<1>7. ASSUME Restart PROVE [Ledger!Next]_Ledger!vars
  <2>1. ASSUME NEW r \in Runs, row'[r] # row[r]
        PROVE  Live(r) /\ row'[r] \in Ledger!Outcome
    <3>1. Live(r) /\ row'[r] = EndRow(row[r], [status |-> "failed", cause |-> ""], 0)
      BY <1>7, <2>1 DEF Restart, Reconciled
    <3>2. PICK o : o = row'[r]
      OBVIOUS
    <3>3. o.status = "failed" /\ o.cause = "" /\ o.answers = 0
      BY <3>1, <3>2, NoAnswerYet, RowFacts, ZenonT(60)
    <3>4. o \in Row /\ "" # "session_deleted"
      BY <1>0, <3>2
    <3>. QED
      BY <3>1, <3>2, <3>3, <3>4, Outcomes DEF Terminal
  <2>. QED
    BY <1>0, <1>7, <2>1, EndingIsAStep DEF Restart
<1>. QED
  BY <1>1, <1>2, <1>3, <1>5, <1>6, <1>7, RowSteps, DeletedSteps

(* RunLifecycle implements the safety of the ledger: rows end once, together  *)
(* with their answer, a deletion ends the running row of its own session and  *)
(* no other, and no row is ever said to end for a deletion that did not end   *)
(* it, for any number of runs and sessions and whatever crashes or is lost.   *)
THEOREM ImplementsLedger == Spec => Ledger!Spec
<1>1. Init => Ledger!Init
  BY DEF Init, Ledger!Init, NoRow, Ledger!NoEntry
<1>2. TypeInv /\ HubInv /\ OneLiveRunPerSession /\ LedgerInv /\ [Next]_vars
        => [Ledger!Next]_Ledger!vars
  BY StepIsLedgerStep
<1>3. Spec => [](TypeInv /\ HubInv /\ LedgerInv)
  BY TypeInit, TypeNext, HubInit, HubNext, LedgerInit, LedgerNext, PTL DEF Spec
<1>. QED
  BY <1>1, <1>2, <1>3, SafetyInductive, PTL DEF Spec, Ledger!Spec

-----------------------------------------------------------------------------
(* What follows for the rows from their being a ledger *)

(* A row that has not ended has no answer, one that has ended at most one, and *)
(* a completed one exactly one.                                             *)
AnswerFits(r) ==
  /\ row[r].answers \in {0, 1}
  /\ ~Ended(r) => row[r].answers = 0
  /\ row[r].status = "completed" => row[r].answers = 1

(* A step of the ledger leaves an entry, begins it, or ends it. *)
LEMMA EntrySteps ==
  ASSUME [Ledger!Next]_Ledger!vars, row \in [Runs -> Row], NEW r \in Runs
  PROVE  \/ row'[r] = row[r]
         \/ row'[r] = Ledger!Begun
         \/ row'[r] \in Ledger!Outcome
         \/ row'[r] = [status |-> "canceled", cause |-> "session_deleted", answers |-> 0]
<1>1. ASSUME NEW q \in Runs, Ledger!Admit(q)
      PROVE  row'[r] = row[r] \/ row'[r] = Ledger!Begun
  BY <1>1 DEF Ledger!Admit
<1>2. ASSUME Ledger!End PROVE row'[r] = row[r] \/ row'[r] \in Ledger!Outcome
  BY <1>2 DEF Ledger!End, Ledger!EndSome
<1>3. ASSUME NEW s \in Sessions, Ledger!CloseSession(s)
      PROVE  \/ row'[r] = row[r]
             \/ row'[r] = [status |-> "canceled", cause |-> "session_deleted", answers |-> 0]
  BY <1>3 DEF Ledger!CloseSession
<1>. QED
  BY <1>1, <1>2, <1>3 DEF Ledger!Next, Ledger!vars

LEMMA AnswerFitsNext ==
  ASSUME [Ledger!Next]_Ledger!vars, row \in [Runs -> Row], NEW r \in Runs, AnswerFits(r)
  PROVE  AnswerFits(r)'
<1>1. CASE row'[r] = row[r]
  BY <1>1 DEF AnswerFits, Ended
<1>2. CASE row'[r] = Ledger!Begun
  BY <1>2 DEF AnswerFits, Ended, Terminal, Ledger!Begun, Ledger!NoEntry
<1>3. ASSUME row'[r] \in Ledger!Outcome PROVE AnswerFits(r)'
  BY <1>3 DEF AnswerFits, Ended, Terminal, Ledger!Outcome, Ledger!Terminal
<1>4. CASE row'[r] = [status |-> "canceled", cause |-> "session_deleted", answers |-> 0]
  BY <1>4 DEF AnswerFits, Ended, Terminal
<1>. QED
  BY <1>1, <1>2, <1>3, <1>4, EntrySteps

(* A commit that is retried after its answer was lost never stores the run's  *)
(* messages twice, and a run is completed only together with its answer.    *)
THEOREM AnswersAreStoredOnce == Spec => []AnswersStoredOnce
<1>. DEFINE Fit == \A r \in Runs : AnswerFits(r)
<1>1. Init => Fit
  <2>. SUFFICES ASSUME Init, NEW r \in Runs PROVE AnswerFits(r)
    OBVIOUS
  <2>1. row[r].status = "none" /\ row[r].answers = 0
    BY DEF Init, NoRow
  <2>. QED
    BY <2>1 DEF AnswerFits, Ended, Terminal
<1>2. TypeInv /\ HubInv /\ OneLiveRunPerSession /\ LedgerInv /\ Fit /\ [Next]_vars => Fit'
  BY StepIsLedgerStep, AnswerFitsNext DEF TypeInv, TypeOK
<1>3. Fit => AnswersStoredOnce
  BY DEF AnswerFits, AnswersStoredOnce
<1>4. Spec => [](TypeInv /\ HubInv /\ LedgerInv)
  BY TypeInit, TypeNext, HubInit, HubNext, LedgerInit, LedgerNext, PTL DEF Spec
<1>. QED
  BY <1>1, <1>2, <1>3, <1>4, SafetyInductive, PTL DEF Spec

-----------------------------------------------------------------------------
(* A stop is honoured: the cause stays with the run until its row has ended,  *)
(* and no decision completes a run that has one.                            *)

(* A finalizer that holds the run has frozen it: no stop is acknowledged from *)
(* then on.                                                                 *)
HoldingFinishes(r) ==
  \A f \in Finalizers : call[r][f].step \in Holding => hub[r].finishing

(* A stopped run keeps a cause for as long as it runs, is not decided to be   *)
(* completed, and its row is not.                                           *)
StopInForce(r) ==
  /\ hub[r].status # "absent"
  /\ Running(r) => hub[r].cause # ""
  /\ \A f \in Finalizers : call[r][f].step = "frozen" => decided[r].status # "completed"
  /\ row[r].status # "completed"

StopInv == /\ \A r \in Runs : HoldingFinishes(r)
           /\ \A r \in acked : StopInForce(r)

-----------------------------------------------------------------------------
(* What a step does to the hub, and to the acknowledged stops *)

(* The run goes on as it did, and keeps its cause. *)
GoesOn(q) ==
  /\ hub'[q].status = hub[q].status /\ hub'[q].finishing = hub[q].finishing
  /\ hub[q].cause # "" => hub'[q].cause # ""

(* A cancellation only gives the run its cause. *)
LEMMA InterruptedGoesOn ==
  ASSUME NEW h \in HubState, NEW c \in Causes
  PROVE  /\ Interrupted(h, c).status = h.status
         /\ Interrupted(h, c).finishing = h.finishing
         /\ Interrupted(h, c).cause = c
BY DEF Interrupted, HubState

(* A run of the hub goes on, or one of a few steps has begun or ended it. *)
LEMMA HubChanges ==
  ASSUME TypeInv, [Next]_vars, NEW q \in Runs
  PROVE  \/ GoesOn(q)
         \/ Reserve(q) \/ AdmissionReplayed(q) \/ RestoreTerminal(q) \/ Cleanup(q)
         \/ \E f \in Finalizers : Freeze(q, f) \/ PersistRejected(q, f) \/ Publish(q, f)
         \/ LoseMemory
<1>. USE DEF TypeInv, TypeOK
<1>1. ASSUME hub'[q] = hub[q] PROVE GoesOn(q)
  BY <1>1 DEF GoesOn
<1>2. ASSUME NEW c \in Causes, hub'[q] = Interrupted(hub[q], c) PROVE GoesOn(q)
  <2>1. PICK h \in HubState : h = hub[q]
    OBVIOUS
  <2>2. hub'[q].status = h.status /\ hub'[q].finishing = h.finishing /\ hub'[q].cause = c
    BY <1>2, <2>1, InterruptedGoesOn
  <2>. QED
    BY <2>1, <2>2 DEF GoesOn, Causes
<1>3. ASSUME NEW r \in Runs, r # q,
             \/ Reserve(r) \/ AdmissionReplayed(r) \/ RestoreTerminal(r) \/ Cleanup(r)
             \/ \E f \in Finalizers : Freeze(r, f) \/ PersistRejected(r, f) \/ Publish(r, f)
      PROVE  hub'[q] = hub[q]
  BY <1>3, ZenonT(60) DEF Reserve, AdmissionReplayed, RestoreTerminal, Cleanup, Freeze,
     PersistRejected, Publish
<1>4. ASSUME NEW r \in Runs, RejectAdmission(r) PROVE GoesOn(q)
  <2>1. hub'[q] = hub[q] \/ hub'[q] = Interrupted(hub[q], "account_changed")
    BY <1>4 DEF RejectAdmission
  <2>. QED
    BY <1>1, <1>2, <2>1 DEF Causes
<1>5. ASSUME NEW r \in Runs, UserStop(r) PROVE GoesOn(q)
  <2>1. hub'[q] = hub[q] \/ hub'[q] = Interrupted(hub[q], "user_stop")
    BY <1>5 DEF UserStop
  <2>. QED
    BY <1>1, <1>2, <2>1 DEF Causes
<1>6. ASSUME NEW S, NEW c \in Causes, CancelMatching(S, c) PROVE GoesOn(q)
  <2>1. hub'[q] = hub[q] \/ hub'[q] = Interrupted(hub[q], c)
    BY <1>6 DEF CancelMatching
  <2>. QED
    BY <1>1, <1>2, <2>1
<1>7. ASSUME \/ \E u \in Users : CancelByUser(u)
             \/ \E s \in Sessions : CancelSession(s)
             \/ CancelForDrain
      PROVE  GoesOn(q)
  BY <1>6, <1>7 DEF CancelByUser, CancelSession, CancelForDrain, Causes
<1>8. ASSUME NEW r \in Runs,
             AdmissionDurable(r) \/ BeginExecution(r) \/ FirstOutput(r) \/ FirstOutputTimeout(r)
      PROVE  GoesOn(q)
  <2>1. CASE q # r
    BY <1>1, <1>8, <2>1, ZenonT(60) DEF AdmissionDurable, BeginExecution, FirstOutput,
       FirstOutputTimeout
  <2>2. CASE q = r
    <3>1. PICK h \in HubState : h = hub[q]
      OBVIOUS
    <3>2. ASSUME NEW g, hub' = [hub EXCEPT ![r] = g],
                 g.status = h.status, g.finishing = h.finishing, g.cause = h.cause
          PROVE  GoesOn(q)
      BY <2>2, <3>1, <3>2 DEF GoesOn
    <3>3. CASE AdmissionDurable(r)
      <4>1. PICK g : g = [h EXCEPT !.durable = TRUE]
        OBVIOUS
      <4>2. hub' = [hub EXCEPT ![r] = g]
        BY <2>2, <3>1, <3>3, <4>1 DEF AdmissionDurable
      <4>. QED
        BY <3>2, <4>1, <4>2 DEF HubState
    <3>4. CASE BeginExecution(r) /\ hub' # hub
      <4>1. PICK g : g = [h EXCEPT !.owned = TRUE, !.armed = (h.ctx = "")]
        OBVIOUS
      <4>2. hub' = [hub EXCEPT ![r] = g]
        BY <2>2, <3>1, <3>4, <4>1 DEF BeginExecution
      <4>. QED
        BY <3>2, <4>1, <4>2 DEF HubState
    <3>5. CASE FirstOutput(r)
      <4>1. PICK g : g = [h EXCEPT !.armed = FALSE]
        OBVIOUS
      <4>2. hub' = [hub EXCEPT ![r] = g]
        BY <2>2, <3>1, <3>5, <4>1 DEF FirstOutput
      <4>. QED
        BY <3>2, <4>1, <4>2 DEF HubState
    <3>6. CASE FirstOutputTimeout(r)
      <4>1. PICK g : g = [h EXCEPT !.armed = FALSE,
                            !.ctx = IF @ = "" THEN "first_output_timeout" ELSE @]
        OBVIOUS
      <4>2. hub' = [hub EXCEPT ![r] = g]
        BY <2>2, <3>1, <3>6, <4>1 DEF FirstOutputTimeout
      <4>3. g.status = h.status /\ g.finishing = h.finishing /\ g.cause = h.cause
        BY <4>1 DEF HubState
      <4>. QED
        BY <3>2, <4>2, <4>3
    <3>. QED
      BY <1>1, <1>8, <3>3, <3>4, <3>5, <3>6
  <2>. QED
    BY <2>1, <2>2
<1>. QED
  BY <1>1, <1>3, <1>4, <1>5, <1>7, <1>8, HubSteps DEF HubWrites

(* Only a stop is acknowledged, of a run that has not ended. *)
LEMMA AckedSteps ==
  ASSUME TypeInv, [Next]_vars, NEW q \in acked', q \notin acked
  PROVE  UserStop(q) /\ ~Ended(q)
<1>1. ASSUME NEW r \in Runs, UserStop(r) PROVE UserStop(q) /\ ~Ended(q)
  BY <1>1 DEF UserStop
<1>2. ASSUME NEW r \in Runs, HandlerStep(r) PROVE acked' = acked
  BY <1>2 DEF HandlerStep, EnterAdmission, AdmissionRefused, AdmissionExisting,
     AdmissionCreated, AdmissionReads, AdmissionDurable, AdmissionReplayed,
     AdmissionFailed, LeaveAdmission, RejectAdmission, BeginExecution, history
<1>3. ASSUME NEW r \in Runs, WorkerStep(r) PROVE acked' = acked
  BY <1>3 DEF WorkerStep, WorkerStart, WorkerSetup, WorkerOutcome, WorkerPanic,
     WorkerFrame, history
<1>4. ASSUME NEW r \in Runs, NEW f \in Finalizers, TransitionStep(r, f) PROVE acked' = acked
  BY <1>4 DEF TransitionStep, TransitionMoot, TransitionExpired, Freeze, PersistTerminal,
     PersistAnswerLost, PersistRejected, Publish, Return, history
<1>5. ASSUME NEW r \in Runs,
             \/ Reserve(r) \/ RestoreTerminal(r) \/ FirstOutput(r) \/ FirstOutputTimeout(r)
             \/ Cleanup(r)
      PROVE  acked' \subseteq acked
  BY <1>5 DEF Reserve, RestoreTerminal, FirstOutput, FirstOutputTimeout, Cleanup,
     WorkerFrame, history
<1>6. ASSUME NEW u \in Users, ChangeAccount(u) \/ CancelByUser(u) PROVE acked' = acked
  BY <1>6 DEF ChangeAccount, CancelByUser, history
<1>7. ASSUME NEW s \in Sessions, DeleteSession(s) \/ CancelSession(s) PROVE acked' = acked
  BY <1>7 DEF DeleteSession, CancelSession, history
<1>8. ASSUME ProcessStep PROVE acked' \subseteq acked
  BY <1>8 DEF ProcessStep, BeginDrain, CancelForDrain, FinalizeForDrain, WaitForIdle,
     FinalizeReturns, FinalizeTimesOut, Exit, Crash, LoseMemory, Restart, history
<1>. QED
  BY <1>1, <1>2, <1>3, <1>4, <1>5, <1>6, <1>7, <1>8 DEF Next, RunStep, vars, history

-----------------------------------------------------------------------------
(* The invariant is inductive *)

(* No run is stopped or frozen at the start. *)
LEMMA StopInit == Init => StopInv
<1>. SUFFICES ASSUME Init PROVE StopInv
  OBVIOUS
<1>1. ASSUME NEW r \in Runs, NEW f \in Finalizers PROVE call[r][f].step \notin Holding
  BY DEF Init, NoCall, Holding
<1>2. acked = {}
  BY DEF Init
<1>. QED
  BY <1>1, <1>2 DEF StopInv, HoldingFinishes

(* Whoever holds a run has frozen it. *)
LEMMA FinishingNext ==
  TypeInv /\ HubInv /\ StopInv /\ [Next]_vars => \A r \in Runs : HoldingFinishes(r)'
<1>. SUFFICES ASSUME TypeInv, HubInv, StopInv, [Next]_vars, NEW q \in Runs,
                     NEW g \in Finalizers, call'[q][g].step \in Holding
              PROVE  hub'[q].finishing
  BY DEF HoldingFinishes
<1>. USE DEF TypeInv, TypeOK
<1>1. CASE Freeze(q, g)
  <2>1. PICK h \in HubState : h = Adopted(hub[q], call[q][g])
    BY DecideTyped
  <2>2. hub'[q] = [h EXCEPT !.finishing = TRUE]
    BY <1>1, <2>1 DEF Freeze
  <2>. QED
    BY <2>2 DEF HubState
<1>2. CASE PersistTerminal(q, g)
  <2>1. call[q][g].step \in Holding /\ hub' = hub
    BY <1>2 DEF PersistTerminal, Holding
  <2>. QED
    BY <2>1 DEF StopInv, HoldingFinishes
<1>3. CASE call'[q][g] = call[q][g]
  <2>1. call[q][g].step \in Holding /\ lock[q] = g /\ Running(q) /\ hub[q].finishing
    BY <1>3 DEF HubInv, RunInv, FinalizerHolds, StopInv, HoldingFinishes
  <2>2. CASE GoesOn(q)
    BY <2>1, <2>2 DEF GoesOn
  <2>3. ASSUME Reserve(q) \/ AdmissionReplayed(q) \/ RestoreTerminal(q) \/ Cleanup(q)
        PROVE  FALSE
    BY <2>1, <2>3 DEF Reserve, AdmissionReplayed, RestoreTerminal, Cleanup, Running, Terminal,
       HubInv, RunInv, AdmissionHolds, InAdmission, Finalizers
  <2>4. ASSUME NEW f \in Finalizers, Freeze(q, f) PROVE FALSE
    BY <2>1, <2>4 DEF Freeze, Finalizers
  <2>5. ASSUME NEW f \in Finalizers, PersistRejected(q, f) \/ Publish(q, f) PROVE FALSE
    <3>1. call[q][f].step \in Holding
      BY <2>5 DEF PersistRejected, Publish, Holding
    <3>2. f = g
      BY <2>1, <3>1, SoleHolder
    <3>3. \E ok : call' = [call EXCEPT ![q][g] = NextCall(@, g, ok, Effective(q))]
      BY <2>5, <3>2 DEF PersistRejected, Publish, Return
    <3>. QED
      BY <3>3, NextCallIsNew
  <2>6. ASSUME LoseMemory PROVE FALSE
    BY <2>6 DEF LoseMemory, NoCall, Holding
  <2>. QED
    BY <2>2, <2>3, <2>4, <2>5, <2>6, HubChanges
<1>. QED
  BY <1>1, <1>2, <1>3, HoldingIsOld

(* A stop is acknowledged only of a run that nobody has frozen. *)
LEMMA StopStarts ==
  ASSUME TypeInv, HubInv, StopInv, [Next]_vars, NEW q \in acked', q \notin acked
  PROVE  StopInForce(q)'
<1>. USE DEF TypeInv, TypeOK
<1>1. UserStop(q) /\ ~Ended(q) /\ q \in Runs
  BY AckedSteps, TypeNext
<1>2. /\ UNCHANGED <<row, call, decided>>
      /\ hub' = [hub EXCEPT ![q] = Interrupted(@, "user_stop")]
      /\ Running(q) /\ ~hub[q].finishing
  BY <1>1 DEF UserStop, Open
<1>3. hub'[q].status = hub[q].status /\ hub'[q].cause = "user_stop"
  BY <1>1, <1>2, InterruptedGoesOn DEF Causes
<1>4. \A f \in Finalizers : call[q][f].step \notin Holding
  BY <1>1, <1>2 DEF StopInv, HoldingFinishes
<1>5. hub[q].status = "running" /\ row[q].status # "completed"
  BY <1>1, <1>2 DEF Running, Ended, Terminal
<1>. QED
  BY <1>2, <1>3, <1>4, <1>5 DEF StopInForce, Running, Holding

(* A run with a cause is not decided to be completed, nor is one undecided. *)
LEMMA NeverCompleted ==
  /\ \A h \in HubState, c \in Call :
       h.cause # "" /\ Accountable(c) => Decide(h, c).status # "completed"
  /\ Undecided.status # "completed"
BY DEF Decide, Accountable, Undecided

(* What an acknowledged stop has brought about lasts until the process ends   *)
(* or forgets the run.                                                      *)
LEMMA StopLasts ==
  ASSUME TypeInv, HubInv, LedgerInv, StopInv, [Next]_vars, NEW q \in acked, q \in acked'
  PROVE  StopInForce(q)'
<1>. USE DEF TypeInv, TypeOK
<1>1. q \in Runs /\ StopInForce(q)
  BY DEF StopInv
<1>2. ~LoseMemory /\ ~Cleanup(q)
  BY DEF LoseMemory, Cleanup
<1>3. hub'[q].status # "absent" /\ (Running(q)' => hub'[q].cause # "")
  <2>1. CASE GoesOn(q)
    BY <1>1, <2>1 DEF GoesOn, StopInForce, Running
  <2>2. ASSUME Reserve(q) \/ RestoreTerminal(q) PROVE FALSE
    BY <1>1, <2>2 DEF Reserve, RestoreTerminal, StopInForce
  <2>3. CASE AdmissionReplayed(q)
    <3>1. hub'[q].status \in Terminal
      <4>1. FactsOf(row[q]) \in Decision /\ Ended(q)
        BY <1>1, <2>3, RowUpdates DEF AdmissionReplayed, ReadTerminalEnded, Ended
      <4>2. PICK h \in HubState : h = FromDecision(hub[q], FactsOf(row[q]))
        BY <1>1, <4>1, HubUpdates
      <4>3. hub'[q] = [h EXCEPT !.durable = TRUE] /\ h.status = row[q].status
        BY <1>1, <2>3, <4>2 DEF AdmissionReplayed, FromDecision, FactsOf, HubState
      <4>4. hub'[q].status = h.status
        BY <4>3 DEF HubState
      <4>. QED
        BY <4>1, <4>3, <4>4 DEF Ended
    <3>. QED
      BY <3>1 DEF Running, Terminal
  <2>4. ASSUME NEW f \in Finalizers, Freeze(q, f)
        PROVE  hub'[q].status # "absent" /\ (Running(q)' => hub'[q].cause # "")
    <3>1. PICK h \in HubState : h = Adopted(hub[q], call[q][f])
      BY <1>1, DecideTyped
    <3>2. hub[q].cause # "" /\ hub[q].status = "running"
      BY <1>1, <2>4 DEF Freeze, Running, StopInForce
    <3>3. h.cause = hub[q].cause /\ h.status = hub[q].status
      BY <1>1, <3>1, <3>2 DEF Adopted, HubState
    <3>4. hub'[q] = [h EXCEPT !.finishing = TRUE]
      BY <1>1, <2>4, <3>1 DEF Freeze
    <3>5. hub'[q].cause = h.cause /\ hub'[q].status = h.status
      BY <3>4 DEF HubState
    <3>. QED
      BY <3>2, <3>3, <3>5
  <2>5. ASSUME NEW f \in Finalizers, PersistRejected(q, f)
        PROVE  hub'[q].status # "absent" /\ (Running(q)' => hub'[q].cause # "")
    <3>1. PICK h \in HubState : h = hub[q]
      BY <1>1
    <3>2. hub'[q] = [h EXCEPT !.finishing = FALSE]
      BY <1>1, <2>5, <3>1 DEF PersistRejected
    <3>3. hub'[q].cause = h.cause /\ hub'[q].status = h.status
      BY <3>2 DEF HubState
    <3>. QED
      BY <1>1, <3>1, <3>3 DEF StopInForce, Running
  <2>6. ASSUME NEW f \in Finalizers, Publish(q, f)
        PROVE  hub'[q].status # "absent" /\ (Running(q)' => hub'[q].cause # "")
    <3>1. PICK h \in HubState : h = hub[q]
      BY <1>1
    <3>2. hub'[q].status = decided[q].status
      BY <1>1, <2>6, <3>1 DEF Publish, FromDecision, HubState
    <3>3. decided[q].status \in Terminal
      BY <1>1 DEF Decision
    <3>. QED
      BY <3>2, <3>3 DEF Running, Terminal
  <2>. QED
    BY <1>1, <1>2, <2>1, <2>2, <2>3, <2>4, <2>5, <2>6, HubChanges
<1>4. ASSUME NEW g \in Finalizers, call'[q][g].step = "frozen"
      PROVE  decided'[q].status # "completed"
  <2>1. CASE Freeze(q, g)
    <3>1. PICK h \in HubState, c \in Call : h = Adopted(hub[q], call[q][g]) /\ c = call[q][g]
      BY <1>1, DecideTyped
    <3>2. hub[q].cause # ""
      BY <1>1, <2>1 DEF Freeze, StopInForce
    <3>3. h.cause # ""
      BY <1>1, <3>1, <3>2 DEF Adopted, HubState
    <3>4. Accountable(c)
      BY <1>1, <3>1 DEF LedgerInv, CallsInv
    <3>5. decided'[q] = Decide(h, c)
      BY <1>1, <2>1, <3>1 DEF Freeze
    <3>. QED
      BY <3>3, <3>4, <3>5, NeverCompleted
  <2>2. CASE PersistTerminal(q, g)
    BY <1>1, <1>4, <2>2 DEF PersistTerminal, Call
  <2>3. CASE call'[q][g] = call[q][g]
    <3>1. call[q][g].step = "frozen" /\ decided[q].status # "completed"
      BY <1>1, <1>4, <2>3 DEF StopInForce
    <3>2. CASE decided'[q] = decided[q]
      BY <3>1, <3>2
    <3>3. ASSUME NEW f \in Finalizers, Freeze(q, f) PROVE FALSE
      BY <1>1, <3>1, <3>3 DEF Freeze, HubInv, RunInv, FinalizerHolds, Holding, Finalizers
    <3>4. ASSUME NEW f \in Finalizers,
                 PersistTerminal(q, f) \/ PersistRejected(q, f) \/ Publish(q, f)
          PROVE  decided'[q].status # "completed"
      <4>1. call[q][f].step \in Holding
        BY <3>4 DEF PersistTerminal, PersistRejected, Publish, Holding
      <4>2. f = g
        BY <1>1, <3>1, <4>1, SoleHolder DEF Holding
      <4>3. CASE PersistTerminal(q, f)
        BY <1>1, <1>4, <4>2, <4>3 DEF PersistTerminal, Call
      <4>4. CASE PersistRejected(q, f) \/ Publish(q, f)
        BY <1>1, <4>4, NeverCompleted DEF PersistRejected, Publish
      <4>. QED
        BY <3>4, <4>3, <4>4
    <3>5. ASSUME NEW r \in Runs, NEW f \in Finalizers, r # q,
                 \/ Freeze(r, f) \/ PersistTerminal(r, f)
                 \/ PersistRejected(r, f) \/ Publish(r, f)
          PROVE  decided'[q] = decided[q]
      BY <1>1, <3>5, ZenonT(60) DEF Freeze, PersistTerminal, PersistRejected, Publish
    <3>. QED
      BY <1>1, <1>2, <3>2, <3>3, <3>4, <3>5, DecidedSteps
  <2>. QED
    BY <1>1, <1>4, <2>1, <2>2, <2>3, HoldingIsOld DEF Holding
<1>5. row'[q].status # "completed"
  <2>1. row[q].status # "completed"
    BY <1>1 DEF StopInForce
  <2>2. ASSUME NEW r \in Runs, AdmissionCreated(r) PROVE row'[q].status # "completed"
    <3>1. row[r] \in Row /\ row' = [row EXCEPT ![r].status = "running"]
      BY <2>2 DEF AdmissionCreated
    <3>. QED
      BY <1>1, <2>1, <3>1 DEF Row
  <2>3. ASSUME NEW r \in Runs, NEW f \in Finalizers,
               PersistTerminal(r, f) \/ PersistAnswerLost(r, f)
        PROVE  row'[q].status # "completed"
    <3>1. row' = [row EXCEPT ![r] = StoredRow(r, call[r][f])] /\ call[r][f].step = "frozen"
      BY <2>3 DEF PersistTerminal, PersistAnswerLost
    <3>2. r = q => decided[q].status # "completed"
      BY <1>1, <3>1 DEF StopInForce
    <3>. QED
      BY <1>1, <2>1, <3>1, <3>2 DEF StoredRow, EndRow
  <2>4. ASSUME NEW S, NEW cause, CancelRows(S, cause) PROVE row'[q].status # "completed"
    BY <1>1, <2>1, <2>4 DEF CancelRows, EndRow
  <2>5. ASSUME (\E u \in Users : ChangeAccount(u)) \/ (\E s \in Sessions : DeleteSession(s))
        PROVE  row'[q].status # "completed"
    BY <2>4, <2>5 DEF ChangeAccount, DeleteSession
  <2>6. ASSUME Restart PROVE row'[q].status # "completed"
    BY <1>1, <2>1, <2>6 DEF Restart, Reconciled, EndRow
  <2>. QED
    BY <2>1, <2>2, <2>3, <2>5, <2>6, RowSteps
<1>. QED
  BY <1>3, <1>4, <1>5 DEF StopInForce

(* Every step preserves the invariant. *)
LEMMA StopNext ==
  TypeInv /\ HubInv /\ LedgerInv /\ StopInv /\ [Next]_vars => StopInv'
BY FinishingNext, StopStarts, StopLasts DEF StopInv

(* A stop that was acknowledged while the run was going is never followed by  *)
(* a completed run, whoever ends the run and however often its outcome is     *)
(* stored.                                                                  *)
THEOREM StopsAreHonoured == Spec => []StopIsHonoured
<1>1. TypeInv /\ StopInv => StopIsHonoured
  BY DEF StopInv, StopInForce, StopIsHonoured
<1>2. Spec => [](TypeInv /\ HubInv /\ LedgerInv /\ StopInv)
  BY TypeInit, TypeNext, HubInit, HubNext, LedgerInit, LedgerNext, StopInit, StopNext,
     PTL DEF Spec
<1>. QED
  BY <1>1, <1>2, PTL

-----------------------------------------------------------------------------
(* The model is called once: an execution follows an insertion of the row, a  *)
(* row is inserted once, and a run id that comes again while its row is     *)
(* there is either still in the hub or has ended.                           *)

(* Before its admission a run has no running row; an admitted run has its row *)
(* and was not executed; an executed run keeps its row.                     *)
OnceInv(r) ==
  /\ handler[r] \in {"reserved", "admitting"} => ~Live(r)
  /\ handler[r] \in {"read_running", "admitted"} =>
       execs[r] = 0 /\ row[r].status # "none"
  /\ execs[r] \in {0, 1}
  /\ execs[r] = 1 => row[r].status # "none"

(* The request of a run moves in the steps of the handler, and is over when   *)
(* a call returns or the process ends.                                      *)
LEMMA RequestSteps ==
  ASSUME TypeInv, [Next]_vars, NEW q \in Runs
  PROVE  handler'[q] = handler[q] \/ handler'[q] = "idle" \/ Reserve(q) \/ HandlerStep(q)
<1>. USE DEF TypeInv, TypeOK
<1>1. ASSUME NEW r \in Runs, HandlerStep(r) PROVE r = q \/ handler'[q] = handler[q]
  BY <1>1, ZenonT(60) DEF HandlerStep, EnterAdmission, AdmissionRefused, AdmissionExisting,
     AdmissionCreated, AdmissionReads, AdmissionDurable, AdmissionReplayed,
     AdmissionFailed, LeaveAdmission, RejectAdmission, BeginExecution
<1>2. ASSUME NEW r \in Runs, Reserve(r) PROVE r = q \/ handler'[q] = handler[q]
  BY <1>2 DEF Reserve
<1>3. ASSUME NEW r \in Runs,
             \/ RestoreTerminal(r) \/ FirstOutput(r) \/ FirstOutputTimeout(r)
             \/ UserStop(r) \/ Cleanup(r) \/ WorkerStep(r)
      PROVE  UNCHANGED handler
  BY <1>3 DEF RestoreTerminal, FirstOutput, FirstOutputTimeout, UserStop, Cleanup,
     WorkerStep, WorkerStart, WorkerSetup, WorkerOutcome, WorkerPanic, WorkerFrame
<1>4. ASSUME NEW r \in Runs, NEW f \in Finalizers, TransitionStep(r, f)
      PROVE  handler'[q] \in {handler[q], "idle"}
  <2>1. ASSUME NEW ok \in BOOLEAN, Return(r, f, ok) PROVE handler'[q] \in {handler[q], "idle"}
    <3>1. handler' = handler \/ handler' = [handler EXCEPT ![r] = "idle"]
      BY <2>1 DEF Return
    <3>. QED
      BY <3>1
  <2>2. CASE UNCHANGED handler
    BY <2>2
  <2>. QED
    BY <1>4, <2>1, <2>2 DEF TransitionStep, TransitionMoot, TransitionExpired, Freeze,
       PersistTerminal, PersistAnswerLost, PersistRejected, Publish
<1>5. ASSUME NEW u \in Users, ChangeAccount(u) \/ CancelByUser(u) PROVE UNCHANGED handler
  BY <1>5 DEF ChangeAccount, CancelByUser
<1>6. ASSUME NEW s \in Sessions, DeleteSession(s) \/ CancelSession(s) PROVE UNCHANGED handler
  BY <1>6 DEF DeleteSession, CancelSession
<1>7. ASSUME ProcessStep PROVE handler'[q] \in {handler[q], "idle"}
  <2>1. CASE LoseMemory
    BY <2>1 DEF LoseMemory
  <2>2. LoseMemory \/ UNCHANGED handler
    BY <1>7 DEF ProcessStep, BeginDrain, CancelForDrain, FinalizeForDrain, WaitForIdle,
       FinalizeReturns, FinalizeTimesOut, Exit, Crash, Restart, memory
  <2>. QED
    BY <2>1, <2>2
<1>. QED
  BY <1>1, <1>2, <1>3, <1>4, <1>5, <1>6, <1>7 DEF Next, RunStep, vars, memory

(* Only the beginning of an execution counts. *)
LEMMA ExecSteps ==
  ASSUME TypeInv, [Next]_vars, NEW q \in Runs
  PROVE  execs'[q] = execs[q] \/ BeginExecution(q)
<1>. USE DEF TypeInv, TypeOK
<1>1. ASSUME NEW r \in Runs, HandlerStep(r) PROVE execs'[q] = execs[q] \/ BeginExecution(q)
  BY <1>1, ZenonT(60) DEF HandlerStep, EnterAdmission, AdmissionRefused, AdmissionExisting,
     AdmissionCreated, AdmissionReads, AdmissionDurable, AdmissionReplayed,
     AdmissionFailed, LeaveAdmission, RejectAdmission, BeginExecution, history
<1>2. ASSUME NEW r \in Runs, WorkerStep(r) PROVE execs' = execs
  BY <1>2 DEF WorkerStep, WorkerStart, WorkerSetup, WorkerOutcome, WorkerPanic,
     WorkerFrame, history
<1>3. ASSUME NEW r \in Runs, NEW f \in Finalizers, TransitionStep(r, f) PROVE execs' = execs
  BY <1>3 DEF TransitionStep, TransitionMoot, TransitionExpired, Freeze, PersistTerminal,
     PersistAnswerLost, PersistRejected, Publish, Return, history
<1>4. ASSUME NEW r \in Runs,
             \/ Reserve(r) \/ RestoreTerminal(r) \/ FirstOutput(r) \/ FirstOutputTimeout(r)
             \/ UserStop(r) \/ Cleanup(r)
      PROVE  execs' = execs
  BY <1>4 DEF Reserve, RestoreTerminal, FirstOutput, FirstOutputTimeout, UserStop, Cleanup,
     WorkerFrame, history
<1>5. ASSUME NEW u \in Users, ChangeAccount(u) \/ CancelByUser(u) PROVE execs' = execs
  BY <1>5 DEF ChangeAccount, CancelByUser, history
<1>6. ASSUME NEW s \in Sessions, DeleteSession(s) \/ CancelSession(s) PROVE execs' = execs
  BY <1>6 DEF DeleteSession, CancelSession, history
<1>7. ASSUME ProcessStep PROVE execs' = execs
  BY <1>7 DEF ProcessStep, BeginDrain, CancelForDrain, FinalizeForDrain, WaitForIdle,
     FinalizeReturns, FinalizeTimesOut, Exit, Crash, LoseMemory, Restart, ProcessFrame,
     history
<1>. QED
  BY <1>1, <1>2, <1>3, <1>4, <1>5, <1>6, <1>7 DEF Next, RunStep, vars, history

(* A row is running only after its own admission, and no row is ever removed. *)
LEMMA RowGoesOn ==
  ASSUME TypeInv, HubInv, LedgerInv, [Next]_vars, NEW q \in Runs
  PROVE  /\ Live(q)' => Live(q) \/ AdmissionCreated(q)
         /\ row[q].status # "none" => row'[q].status # "none"
<1>. USE DEF TypeInv, TypeOK
<1>1. CASE UNCHANGED row
  BY <1>1 DEF Live
<1>2. ASSUME NEW r \in Runs, AdmissionCreated(r)
      PROVE  /\ Live(q)' => Live(q) \/ r = q
             /\ row[q].status # "none" => row'[q].status # "none"
  BY <1>2 DEF AdmissionCreated, MayAdmit, Live
<1>3. ASSUME NEW r \in Runs, NEW f \in Finalizers,
             PersistTerminal(r, f) \/ PersistAnswerLost(r, f)
      PROVE  /\ Live(q)' => Live(q)
             /\ row[q].status # "none" => row'[q].status # "none"
  <2>1. StoredRow(r, call[r][f]).status \in {row[r].status, decided[r].status}
    BY DEF StoredRow, EndRow
  <2>2. decided[r].status \in Terminal
    BY DEF Decision
  <2>3. StoredRow(r, call[r][f]).status \in Terminal \/ ~Live(r)
    BY <2>2 DEF StoredRow, EndRow
  <2>4. row'[q] = row[q] \/ (q = r /\ row'[q] = StoredRow(r, call[r][f]))
    BY <1>3 DEF PersistTerminal, PersistAnswerLost
  <2>. QED
    BY <2>1, <2>2, <2>3, <2>4 DEF Live, Terminal
<1>4. ASSUME NEW S, NEW cause, CancelRows(S, cause)
      PROVE  /\ Live(q)' => Live(q)
             /\ row[q].status # "none" => row'[q].status # "none"
  BY <1>4 DEF CancelRows, EndRow, Live
<1>5. CASE \/ \E u \in Users : ChangeAccount(u)
           \/ \E s \in Sessions : DeleteSession(s)
  BY <1>4, <1>5 DEF ChangeAccount, DeleteSession
<1>6. CASE Restart
  BY <1>6 DEF Restart, Reconciled, EndRow, Live
<1>. QED
  BY <1>1, <1>2, <1>3, <1>5, <1>6, RowSteps

-----------------------------------------------------------------------------
(* Every step preserves the invariant of a run. *)
LEMMA OnceNext ==
  ASSUME TypeInv, HubInv, LedgerInv, [Next]_vars, NEW q \in Runs, OnceInv(q)
  PROVE  OnceInv(q)'
<1>. USE DEF TypeInv, TypeOK
(* The handler did not move, or is done. *)
<1>1. CASE handler'[q] = "idle" /\ ~BeginExecution(q)
  BY <1>1, ExecSteps, RowGoesOn DEF OnceInv
<1>2. CASE handler'[q] = handler[q] /\ ~BeginExecution(q) /\ ~AdmissionCreated(q)
  BY <1>2, ExecSteps, RowGoesOn DEF OnceInv
(* A run the hub does not hold has no running row: it is reserved once more   *)
(* only to be replayed.                                                     *)
<1>3. CASE Reserve(q)
  <2>1. ~Live(q)
    BY <1>3 DEF Reserve, HubInv, RunInv, Up, Running
  <2>2. handler'[q] = "reserved" /\ UNCHANGED <<row, execs>>
    BY <1>3 DEF Reserve, history
  <2>. QED
    BY <2>1, <2>2 DEF OnceInv, Live
<1>4. CASE EnterAdmission(q)
  <2>1. handler[q] = "reserved" /\ handler'[q] \in {"admitting", "idle"}
        /\ UNCHANGED <<row, execs>>
    BY <1>4 DEF EnterAdmission, history
  <2>. QED
    BY <2>1 DEF OnceInv, Live
<1>5. CASE AdmissionRefused(q) \/ AdmissionFailed(q) \/ RejectAdmission(q)
  <2>1. handler'[q] \in {"no_auth", "refused", "rejected_auth", "rejected", "failing"}
        /\ UNCHANGED <<row, execs>>
    BY <1>5 DEF AdmissionRefused, AdmissionReads, AdmissionFailed, LeaveAdmission,
       RejectAdmission, history
  <2>. QED
    BY <2>1 DEF OnceInv
<1>6. CASE AdmissionExisting(q)
  <2>1. handler[q] = "admitting" /\ UNCHANGED <<row, execs>>
    BY <1>6 DEF AdmissionExisting, MayAdmit, AdmissionReads, history
  <2>2. handler'[q] = "read_terminal"
    BY <1>6, <2>1 DEF AdmissionExisting, AdmissionReads, ReadBack, OnceInv
  <2>. QED
    BY <2>1, <2>2 DEF OnceInv
<1>7. CASE AdmissionCreated(q)
  <2>1. row[q].status = "none" /\ row'[q].status = "running"
    BY <1>7 DEF AdmissionCreated, MayAdmit, Row
  <2>2. PICK answer \in {"read_running", "refused"} : AdmissionReads(q, answer)
    BY <1>7 DEF AdmissionCreated
  <2>3. handler'[q] = answer /\ UNCHANGED execs
    BY <2>2 DEF AdmissionReads, history
  <2>. QED
    BY <2>1, <2>3 DEF OnceInv
<1>8. CASE AdmissionDurable(q) \/ AdmissionReplayed(q)
  <2>1. UNCHANGED <<row, execs>>
    BY <1>8 DEF AdmissionDurable, AdmissionReplayed, LeaveAdmission
  <2>2. \/ handler'[q] = "idle"
        \/ handler[q] = "read_running" /\ handler'[q] = "admitted"
    BY <1>8 DEF AdmissionDurable, AdmissionReplayed
  <2>. QED
    BY <2>1, <2>2 DEF OnceInv
(* The one execution is the first. *)
<1>9. CASE BeginExecution(q)
  <2>1. handler[q] = "admitted" /\ handler'[q] = "idle" /\ UNCHANGED row
        /\ execs'[q] \in {execs[q], execs[q] + 1}
    BY <1>9 DEF BeginExecution
  <2>. QED
    BY <2>1 DEF OnceInv
<1>. QED
  BY <1>1, <1>2, <1>3, <1>4, <1>5, <1>6, <1>7, <1>8, <1>9, RequestSteps DEF HandlerStep

(* However often a run id is sent, across expiry, crash and restart, and      *)
(* however many answers of the database are lost, the run is handed to a    *)
(* worker at most once.                                                     *)
THEOREM RunsExecuteOnce == Spec => []ExecutedAtMostOnce
<1>. DEFINE Once == \A r \in Runs : OnceInv(r)
<1>1. Init => Once
  <2>. SUFFICES ASSUME Init, NEW r \in Runs PROVE OnceInv(r)
    OBVIOUS
  <2>1. handler[r] = "idle" /\ execs[r] = 0
    BY DEF Init
  <2>. QED
    BY <2>1 DEF OnceInv
<1>2. TypeInv /\ HubInv /\ LedgerInv /\ Once /\ [Next]_vars => Once'
  BY OnceNext
<1>3. Once => ExecutedAtMostOnce
  BY DEF OnceInv, ExecutedAtMostOnce
<1>4. Spec => [](TypeInv /\ HubInv /\ LedgerInv)
  BY TypeInit, TypeNext, HubInit, HubNext, LedgerInit, LedgerNext, PTL DEF Spec
<1>. QED
  BY <1>1, <1>2, <1>3, <1>4, PTL DEF Spec

-----------------------------------------------------------------------------
(* No run is left behind: transitionMu is held by somebody at work, a call    *)
(* has a caller that waits for it, and whoever leaves a run leaves it to    *)
(* such a holder or ended.                                                  *)

(* transitionMu and the mark of a frozen run belong to somebody at work. *)
LockIsHeld(r) ==
  /\ hub[r].finishing => lock[r] \in Finalizers
  /\ \A f \in Finalizers : lock[r] = f => call[r][f].step \in Holding
  /\ lock[r] = "admission" => handler[r] \in InAdmission

(* A call is in progress only while its caller waits for it, and the one that *)
(* may store messages is the worker's.                                      *)
CallsHaveCallers(r) ==
  /\ handler[r] # "failing" => call[r]["handler"].step = "idle"
  /\ worker[r] # "finalizing" => call[r]["worker"].step = "idle"
  /\ phase \in {"serving", "draining", "canceling", "down"} =>
       call[r]["drain"].step = "idle"
  /\ call[r]["handler"].stage # "batch" /\ call[r]["drain"].stage # "batch"

(* A run has no worker before its request has handed it over, and a durable   *)
(* run has a row.                                                           *)
HandedOver(r) ==
  /\ worker[r] # "none" => hub[r].owned /\ hub[r].status # "absent"
  /\ handler[r] # "idle" => ~hub[r].owned
  /\ hub[r].durable => row[r].status # "none"
  /\ handler[r] = "read_running" => row[r].status # "none"
  /\ handler[r] = "admitted" => hub[r].durable

(* The drain has not failed while it still has a call for every running run,  *)
(* and afterwards none is running.                                          *)
DrainReaches(r) ==
  /\ phase = "finalizing" /\ ~failedDrain /\ Running(r) =>
       call[r]["drain"].step # "idle"
  /\ phase = "drained" => ~Running(r)

AttendedInv(r) ==
  /\ LockIsHeld(r) /\ CallsHaveCallers(r) /\ HandedOver(r) /\ DrainReaches(r)
  /\ "reject" \notin Events /\ Running(r) => Attended(r)

(* What the invariant reads of the hub. *)
Marks(h) == <<h.status, h.finishing, h.durable, h.owned>>

Undisturbed(q) ==
  /\ Marks(hub'[q]) = Marks(hub[q])
  /\ lock'[q] = lock[q] /\ call'[q] = call[q]
  /\ handler'[q] = handler[q] /\ worker'[q] = worker[q]

SameDrain == phase' = phase /\ (failedDrain => failedDrain')

(* Cancellations and the timer of the first output leave the marks. *)
LEMMA MarksKept ==
  ASSUME NEW h \in HubState
  PROVE  /\ \A c : Marks(Interrupted(h, c)) = Marks(h)
         /\ Marks([h EXCEPT !.armed = FALSE]) = Marks(h)
         /\ \A c : Marks([h EXCEPT !.armed = FALSE, !.ctx = c]) = Marks(h)
BY DEF HubState, Interrupted, Marks

LEMMA CancelKeepsMarks ==
  ASSUME TypeInv, NEW S, NEW c, CancelMatching(S, c), NEW q \in Runs
  PROVE  Marks(hub'[q]) = Marks(hub[q])
<1>1. PICK h \in HubState : h = hub[q]
  BY DEF TypeInv, TypeOK
<1>2. hub'[q] = h \/ hub'[q] = Interrupted(h, c)
  BY <1>1 DEF CancelMatching
<1>. QED
  BY <1>1, <1>2, MarksKept, ZenonT(60)

(* What holds of a run still holds after a step that does not disturb it. *)
LEMMA UndisturbedStays ==
  ASSUME NEW q \in Runs, AttendedInv(q), Undisturbed(q), SameDrain,
         row[q].status # "none" => row'[q].status # "none"
  PROVE  AttendedInv(q)'
BY DEF AttendedInv, LockIsHeld, CallsHaveCallers, HandedOver, DrainReaches, Undisturbed,
       SameDrain, Marks, Running, Attended

(* A step of one run does not disturb another one. *)
LEMMA OthersUndisturbed ==
  ASSUME TypeInv, NEW r \in Runs, RunStep(r), NEW q \in Runs \ {r}
  PROVE  Undisturbed(q) /\ SameDrain
<1>. USE DEF TypeInv, TypeOK, Undisturbed, SameDrain
<1>1. CASE Reserve(r) \/ RestoreTerminal(r) \/ FirstOutput(r) \/ FirstOutputTimeout(r)
           \/ UserStop(r) \/ Cleanup(r)
  BY <1>1, ZenonT(60) DEF Reserve, RestoreTerminal, FirstOutput, FirstOutputTimeout,
     UserStop, Cleanup,
     WorkerFrame
<1>2. CASE HandlerStep(r)
  BY <1>2, ZenonT(60) DEF HandlerStep, EnterAdmission, AdmissionRefused, AdmissionExisting,
     AdmissionCreated, AdmissionReads, AdmissionDurable, AdmissionReplayed,
     AdmissionFailed, LeaveAdmission, RejectAdmission, BeginExecution, Propose
<1>3. CASE WorkerStep(r)
  <2>1. hub' = hub /\ WorkerFrame
    BY <1>3 DEF WorkerStep, WorkerStart, WorkerSetup, WorkerOutcome, WorkerPanic
  <2>2. call'[q] = call[q] /\ worker'[q] = worker[q]
    BY <1>3, ZenonT(60) DEF WorkerStep, WorkerStart, WorkerSetup, WorkerOutcome, WorkerPanic,
       Finish,
       Propose
  <2>. QED
    BY <2>1, <2>2 DEF WorkerFrame
<1>4. ASSUME NEW f \in Finalizers, TransitionStep(r, f) PROVE Undisturbed(q) /\ SameDrain
  <2>1. ASSUME NEW ok \in BOOLEAN, Return(r, f, ok)
        PROVE  /\ call'[q] = call[q] /\ worker'[q] = worker[q] /\ handler'[q] = handler[q]
               /\ SameDrain
    BY <2>1 DEF Return
  <2>2. hub'[q] = hub[q] /\ lock'[q] = lock[q]
    BY <1>4 DEF TransitionStep, TransitionMoot, TransitionExpired, Freeze, PersistTerminal,
       PersistAnswerLost, PersistRejected, Publish
  <2>3. CASE \E ok \in BOOLEAN : Return(r, f, ok)
    BY <2>1, <2>2, <2>3
  <2>4. CASE Freeze(r, f) \/ PersistTerminal(r, f) \/ PersistAnswerLost(r, f)
    BY <2>2, <2>4 DEF Freeze, PersistTerminal, PersistAnswerLost
  <2>. QED
    BY <1>4, <2>3, <2>4 DEF TransitionStep, TransitionMoot, TransitionExpired,
       PersistRejected, Publish
<1>. QED
  BY <1>1, <1>2, <1>3, <1>4 DEF RunStep

(* The request of a run keeps its invariant: it leaves the run to its worker, *)
(* to a finalizer that holds transitionMu, or ended.                        *)
LEMMA RequestKeeps ==
  ASSUME TypeInv, HubInv, NEW r \in Runs, AttendedInv(r),
         Reserve(r) \/ RestoreTerminal(r) \/ HandlerStep(r)
  PROVE  AttendedInv(r)'
<1>. USE DEF TypeInv, TypeOK
<1>0. PICK h \in HubState : h = hub[r]
  OBVIOUS
<1>h. FinalizerHolds(r) /\ AdmissionHolds(r) /\ ReadTerminalEnded
  BY DEF HubInv, RunInv
<1>1. CASE Reserve(r)
  <2>1. /\ hub[r].status = "absent" /\ phase = "serving" /\ handler[r] = "idle"
        /\ hub'[r] = Started /\ handler'[r] = "reserved"
        /\ UNCHANGED <<row, lock, call, worker, phase, failedDrain>>
    BY <1>1 DEF Reserve, Accepting
  <2>2. Marks(hub'[r]) = <<"running", FALSE, FALSE, FALSE>>
    BY <2>1 DEF Marks, Started, Absent
  <2>3. worker[r] = "none"
    BY <2>1 DEF AttendedInv, HandedOver
  <2>4. \A f \in Finalizers : call[r][f].step \notin Holding
    BY <2>1, <1>h DEF FinalizerHolds, Running
  <2>. QED
    BY <2>1, <2>2, <2>3, <2>4 DEF AttendedInv, LockIsHeld, CallsHaveCallers, HandedOver,
       DrainReaches, Attended, Running, Marks, InAdmission
<1>2. CASE RestoreTerminal(r)
  <2>1. /\ hub[r].status = "absent" /\ handler[r] = "idle" /\ Ended(r)
        /\ hub'[r] = [FromDecision(Absent, FactsOf(row[r])) EXCEPT !.durable = TRUE]
        /\ UNCHANGED <<row, lock, call, handler, worker, phase, failedDrain>>
    BY <1>2 DEF RestoreTerminal
  <2>2. Marks(hub'[r]) = <<row[r].status, FALSE, TRUE, FALSE>>
    BY <2>1 DEF Marks, FromDecision, FactsOf, Absent
  <2>3. worker[r] = "none"
    BY <2>1 DEF AttendedInv, HandedOver
  <2>. QED
    BY <2>1, <2>2, <2>3 DEF AttendedInv, LockIsHeld, CallsHaveCallers, HandedOver,
       DrainReaches, Attended, Running, Marks, Ended, Terminal
<1>3. CASE EnterAdmission(r)
  <2>1. /\ handler[r] = "reserved" /\ lock[r] = "free"
        /\ UNCHANGED <<hub, row, call, worker, phase, failedDrain>>
    BY <1>3 DEF EnterAdmission
  <2>2. CASE Open(r)
    <3>1. lock'[r] = "admission" /\ handler'[r] = "admitting"
      BY <1>3, <2>2 DEF EnterAdmission
    <3>2. \A f \in Finalizers : call[r][f].step \notin Holding
      BY <2>1, <1>h DEF FinalizerHolds, Finalizers
    <3>. QED
      BY <2>1, <2>2, <3>1, <3>2 DEF AttendedInv, LockIsHeld, CallsHaveCallers, HandedOver,
         DrainReaches, Attended, Running, Open, InAdmission, Finalizers
  <2>3. CASE ~Open(r)
    <3>1. lock' = lock /\ handler'[r] = "idle"
      BY <1>3, <2>3 DEF EnterAdmission
    <3>2. ~Running(r)
      BY <2>1, <2>3 DEF AttendedInv, LockIsHeld, Open, Finalizers
    <3>. QED
      BY <2>1, <3>1, <3>2 DEF AttendedInv, LockIsHeld, CallsHaveCallers, HandedOver,
         DrainReaches, Attended, Running
  <2>. QED
    BY <2>2, <2>3
<1>4. CASE AdmissionRefused(r) \/ AdmissionExisting(r) \/ AdmissionCreated(r)
  <2>1. /\ handler[r] = "admitting"
        /\ UNCHANGED <<hub, lock, call, worker, phase, failedDrain>>
    BY <1>4 DEF AdmissionRefused, AdmissionExisting, AdmissionCreated, MayAdmit, AdmissionReads
  <2>2. /\ handler'[r] \in {"no_auth", "refused", "read_running", "read_terminal"}
        /\ handler'[r] = "read_running" => row'[r].status # "none"
        /\ row[r].status # "none" => row'[r].status # "none"
    BY <1>4 DEF AdmissionRefused, AdmissionExisting, AdmissionCreated, AdmissionReads,
       ReadBack, Row
  <2>. QED
    BY <2>1, <2>2 DEF AttendedInv, LockIsHeld, CallsHaveCallers, HandedOver, DrainReaches,
       Attended, Running, InAdmission
<1>5. CASE AdmissionDurable(r)
  <2>1. /\ handler[r] = "read_running" /\ handler'[r] = "admitted" /\ lock'[r] = "free"
        /\ hub'[r] = [h EXCEPT !.durable = TRUE]
        /\ UNCHANGED <<row, call, worker, phase, failedDrain>>
    BY <1>5, <1>0 DEF AdmissionDurable, LeaveAdmission
  <2>2. Marks(hub'[r]) = <<hub[r].status, hub[r].finishing, TRUE, hub[r].owned>>
    BY <2>1, <1>0 DEF Marks, HubState
  <2>3. lock[r] = "admission"
    BY <2>1, <1>h DEF AdmissionHolds, InAdmission
  <2>. QED
    BY <2>1, <2>2, <2>3 DEF AttendedInv, LockIsHeld, CallsHaveCallers, HandedOver,
       DrainReaches, Attended, Running, Marks, Finalizers
<1>6. CASE AdmissionReplayed(r)
  <2>1. /\ handler[r] = "read_terminal" /\ handler'[r] = "idle" /\ lock'[r] = "free"
        /\ hub'[r] = [FromDecision(h, FactsOf(row[r])) EXCEPT !.durable = TRUE]
        /\ UNCHANGED <<row, call, worker, phase, failedDrain>>
    BY <1>6, <1>0 DEF AdmissionReplayed, LeaveAdmission
  <2>2. Marks(hub'[r]) = <<row[r].status, FALSE, TRUE, hub[r].owned>>
    BY <2>1, <1>0 DEF Marks, FromDecision, FactsOf, HubState
  <2>3. lock[r] = "admission" /\ Ended(r)
    BY <2>1, <1>h DEF AdmissionHolds, InAdmission, ReadTerminalEnded
  <2>. QED
    BY <2>1, <2>2, <2>3 DEF AttendedInv, LockIsHeld, CallsHaveCallers, HandedOver,
       DrainReaches, Attended, Running, Marks, Finalizers, Ended, Terminal
<1>7. CASE AdmissionFailed(r)
  <2>1. /\ handler[r] \in InAdmission /\ handler'[r] \in {"rejected_auth", "rejected"}
        /\ lock'[r] = "free"
        /\ UNCHANGED <<hub, row, call, worker, phase, failedDrain>>
    BY <1>7 DEF AdmissionFailed, LeaveAdmission, InAdmission
  <2>2. lock[r] = "admission"
    BY <2>1, <1>h DEF AdmissionHolds
  <2>. QED
    BY <2>1, <2>2 DEF AttendedInv, LockIsHeld, CallsHaveCallers, HandedOver, DrainReaches,
       Attended, Running, Finalizers, InAdmission
<1>8. CASE RejectAdmission(r)
  <2>1. /\ handler[r] \in {"rejected_auth", "rejected"} /\ handler'[r] = "failing"
        /\ UNCHANGED <<row, lock, worker, phase, failedDrain>>
    BY <1>8 DEF RejectAdmission
  <2>2. hub'[r] = h \/ hub'[r] = Interrupted(h, "account_changed")
    BY <1>8, <1>0 DEF RejectAdmission
  <2>3. Marks(hub'[r]) = Marks(hub[r])
    BY <2>2, <1>0, ZenonT(60) DEF Marks, Interrupted, HubState
  <2>4. /\ call'[r]["handler"].step = "waiting" /\ call'[r]["handler"].stage = "plain"
        /\ call'[r]["worker"] = call[r]["worker"] /\ call'[r]["drain"] = call[r]["drain"]
    BY <1>8, ZenonT(60) DEF RejectAdmission, Propose, Waiting, Finalizers
  <2>5. lock[r] # "handler"
    BY <2>1 DEF AttendedInv, LockIsHeld, CallsHaveCallers, Finalizers, Holding
  <2>. QED
    BY <2>1, <2>3, <2>4, <2>5 DEF AttendedInv, LockIsHeld, CallsHaveCallers, HandedOver,
       DrainReaches, Attended, Running, Marks, Finalizers, InAdmission
<1>9. CASE BeginExecution(r)
  <2>1. /\ handler[r] = "admitted" /\ handler'[r] = "idle"
        /\ UNCHANGED <<row, lock, call, phase, failedDrain>>
    BY <1>9 DEF BeginExecution
  <2>2. CASE Open(r) /\ hub[r].durable /\ ~hub[r].owned
    <3>1. worker'[r] = "started"
          /\ hub'[r] = [h EXCEPT !.owned = TRUE, !.armed = (hub[r].ctx = "")]
      BY <1>9, <2>2, <1>0 DEF BeginExecution
    <3>2. Marks(hub'[r]) = <<hub[r].status, hub[r].finishing, hub[r].durable, TRUE>>
      BY <3>1, <1>0 DEF Marks, HubState
    <3>3. worker[r] = "none"
      BY <2>2 DEF AttendedInv, HandedOver
    <3>. QED
      BY <2>1, <2>2, <3>1, <3>2, <3>3 DEF AttendedInv, LockIsHeld, CallsHaveCallers,
         HandedOver, DrainReaches, Attended, Running, Open, Marks, InAdmission
  <2>3. CASE ~(Open(r) /\ hub[r].durable /\ ~hub[r].owned)
    <3>1. UNCHANGED <<hub, worker>>
      BY <1>9, <2>3 DEF BeginExecution
    <3>2. hub[r].durable /\ ~hub[r].owned
      BY <2>1 DEF AttendedInv, HandedOver
    <3>3. Running(r) => hub[r].finishing
      BY <2>3, <3>2 DEF Open
    <3>4. Running(r) => \E f \in Finalizers : call[r][f].step # "idle"
      BY <3>3 DEF AttendedInv, LockIsHeld, Holding
    <3>. QED
      BY <2>1, <3>1, <3>4 DEF AttendedInv, LockIsHeld, CallsHaveCallers, HandedOver,
         DrainReaches, Attended, Running, InAdmission
  <2>. QED
    BY <2>2, <2>3
<1>. QED
  BY <1>1, <1>2, <1>3, <1>4, <1>5, <1>6, <1>7, <1>8, <1>9 DEF HandlerStep

(* So does its worker: until it proposes an outcome it is at work, and then   *)
(* its call is in progress.                                                 *)
LEMMA WorkerKeeps ==
  ASSUME TypeInv, HubInv, NEW r \in Runs, AttendedInv(r), WorkerStep(r)
  PROVE  AttendedInv(r)'
<1>. USE DEF TypeInv, TypeOK
<1>. DEFINE Ends   == \E stage, status, cause, force : Finish(r, stage, status, cause, force)
            AtWork == worker'[r] \in {"setup", "generating"} /\ call' = call
<1>1. /\ worker[r] \in {"started", "setup", "generating"}
      /\ UNCHANGED <<hub, row, lock, handler, phase, failedDrain>>
  BY DEF WorkerStep, WorkerStart, WorkerSetup, WorkerOutcome, WorkerPanic, WorkerFrame
<1>2. ASSUME Ends
      PROVE  /\ worker'[r] = "finalizing" /\ call'[r]["worker"].step = "waiting"
             /\ call'[r]["handler"] = call[r]["handler"]
             /\ call'[r]["drain"] = call[r]["drain"]
  BY <1>2 DEF Finish, Propose, Waiting, Finalizers
<1>3. ASSUME WorkerStart(r) \/ WorkerSetup(r) PROVE Ends \/ AtWork
  <2>1. CASE \/ worker' = [worker EXCEPT ![r] = "setup"] /\ UNCHANGED call
             \/ worker' = [worker EXCEPT ![r] = "generating"] /\ UNCHANGED call
    BY <2>1
  <2>. QED
    BY <1>3, <2>1 DEF WorkerStart, WorkerSetup
<1>4. ASSUME WorkerOutcome(r) \/ WorkerPanic(r) PROVE Ends
  BY <1>4 DEF WorkerOutcome, WorkerPanic
<1>5. Ends \/ AtWork
  BY <1>3, <1>4 DEF WorkerStep
<1>6. call[r]["worker"].step = "idle" /\ lock[r] # "worker"
  BY <1>1 DEF AttendedInv, LockIsHeld, CallsHaveCallers, Finalizers, Holding
<1>7. CASE Ends
  BY <1>1, <1>2, <1>6, <1>7 DEF AttendedInv, LockIsHeld, CallsHaveCallers, HandedOver,
     DrainReaches, Attended, Running, Finalizers
<1>8. CASE AtWork
  BY <1>1, <1>6, <1>8 DEF AttendedInv, LockIsHeld, CallsHaveCallers, HandedOver,
     DrainReaches, Attended, Running, Finalizers
<1>. QED
  BY <1>5, <1>7, <1>8

(* What a returned call leaves of its run. *)
LEMMA ReturnFacts ==
  ASSUME TypeInv, NEW r \in Runs, NEW f \in Finalizers, NEW ok \in BOOLEAN,
         Return(r, f, ok)
  PROVE  /\ call'[r][f].step \in {"idle", "waiting"}
         /\ call'[r][f].step = "idle" <=> f # "worker" \/ call[r][f].stage = "deferred"
         /\ f # "worker" => call'[r][f].stage = "plain"
         /\ \A g \in Finalizers \ {f} : call'[r][g] = call[r][g]
         /\ f = "handler" => handler'[r] = "idle"
         /\ f # "handler" => handler'[r] = handler[r]
         /\ worker'[r] = IF f = "worker" /\ call'[r][f].step = "idle"
                           THEN "done" ELSE worker[r]
         /\ phase' = phase
<1>. USE DEF TypeInv, TypeOK
<1>1. PICK c \in Call : c = call[r][f]
  OBVIOUS
<1>2. PICK n : n = NextCall(c, f, ok, Effective(r))
  OBVIOUS
<1>3. call'[r][f] = n /\ \A g \in Finalizers \ {f} : call'[r][g] = call[r][g]
  BY <1>1, <1>2 DEF Return
<1>4. /\ n.step \in {"idle", "waiting"}
      /\ n.step = "idle" <=> f # "worker" \/ c.stage = "deferred"
      /\ f # "worker" => n.stage = "plain"
  BY <1>1, <1>2 DEF NextCall, NoCall, Fallback, Waiting, Call
<1>5. /\ f = "handler" => handler'[r] = "idle"
      /\ f # "handler" => handler'[r] = handler[r]
      /\ phase' = phase
  BY DEF Return
<1>6. worker'[r] = IF f = "worker" /\ call'[r][f].step = "idle" THEN "done" ELSE worker[r]
  BY DEF Return
<1>. QED
  BY <1>1, <1>3, <1>4, <1>5, <1>6

(* A call that returns gives transitionMu back, if it had it, and leaves the  *)
(* run ended or to somebody else.                                           *)
LEMMA ReturnKeeps ==
  ASSUME TypeInv, HubInv, NEW r \in Runs, AttendedInv(r),
         NEW f \in Finalizers, NEW ok \in BOOLEAN, Return(r, f, ok),
         call[r][f].step # "idle", UNCHANGED row,
         \/ UNCHANGED <<hub, lock>> /\ lock[r] # f
         \/ /\ lock[r] = f /\ lock'[r] = "free" /\ ~hub'[r].finishing
            /\ hub'[r].durable = hub[r].durable /\ hub'[r].owned = hub[r].owned
            /\ hub'[r].status # "absent",
         Running(r)' => Running(r),
         ok => ~Running(r)',
         "reject" \notin Events /\ Running(r)' => Attended(r)'
  PROVE  AttendedInv(r)'
<1>. USE DEF TypeInv, TypeOK
<1>0. /\ call'[r][f].step \in {"idle", "waiting"}
      /\ call'[r][f].step = "idle" <=> f # "worker" \/ call[r][f].stage = "deferred"
      /\ f # "worker" => call'[r][f].stage = "plain"
      /\ \A g \in Finalizers \ {f} : call'[r][g] = call[r][g]
      /\ f = "handler" => handler'[r] = "idle"
      /\ f # "handler" => handler'[r] = handler[r]
      /\ worker'[r] = IF f = "worker" /\ call'[r][f].step = "idle"
                        THEN "done" ELSE worker[r]
      /\ phase' = phase
  BY ReturnFacts
<1>1. LockIsHeld(r)'
  <2>1. lock'[r] \in Finalizers => lock'[r] # f /\ lock[r] = lock'[r] /\ UNCHANGED hub
    BY DEF Finalizers
  <2>2. hub'[r].finishing => lock'[r] \in Finalizers
    BY DEF AttendedInv, LockIsHeld
  <2>3. lock'[r] = "admission" => handler'[r] \in InAdmission
    <3>1. f = "handler" => handler[r] = "failing"
      BY DEF AttendedInv, CallsHaveCallers
    <3>. QED
      BY <1>0, <3>1 DEF AttendedInv, LockIsHeld, InAdmission
  <2>. QED
    BY <1>0, <2>1, <2>2, <2>3 DEF AttendedInv, LockIsHeld
<1>2. CallsHaveCallers(r)'
  <2>1. CASE f = "handler"
    BY <1>0, <2>1 DEF AttendedInv, CallsHaveCallers, Finalizers
  <2>2. CASE f = "worker"
    BY <1>0, <2>2 DEF AttendedInv, CallsHaveCallers, Finalizers
  <2>3. CASE f = "drain"
    BY <1>0, <2>3, SMTT(30) DEF AttendedInv, CallsHaveCallers, Finalizers
  <2>. QED
    BY <2>1, <2>2, <2>3 DEF Finalizers
<1>3. HandedOver(r)'
  BY <1>0 DEF AttendedInv, CallsHaveCallers, HandedOver, Finalizers
<1>4. DrainReaches(r)'
  <2>1. /\ failedDrain => failedDrain'
        /\ f = "drain" /\ ~ok => failedDrain'
    BY DEF Return
  <2>2. CASE f = "drain"
    BY <1>0, <2>1, <2>2 DEF AttendedInv, DrainReaches
  <2>3. CASE f # "drain"
    BY <1>0, <2>1, <2>3 DEF AttendedInv, DrainReaches, Finalizers
  <2>. QED
    BY <2>2, <2>3
<1>. QED
  BY <1>1, <1>2, <1>3, <1>4 DEF AttendedInv

(* So do the terminal transitions of a run: an attempt that fails leaves the  *)
(* run to the holder of transitionMu or, after a rejected batch, to the     *)
(* fallback of the worker.                                                  *)
LEMMA TransitionKeeps ==
  ASSUME TypeInv, HubInv, NEW r \in Runs, AttendedInv(r), NEW f \in Finalizers,
         TransitionStep(r, f)
  PROVE  AttendedInv(r)'
<1>. USE DEF TypeInv, TypeOK
<1>0. FinalizerHolds(r) /\ AdmissionHolds(r)
  BY DEF HubInv, RunInv
<1>h. PICK h \in HubState : h = hub[r]
  OBVIOUS
<1>1. CASE TransitionMoot(r, f)
  <2>1. /\ call[r][f].step # "idle" /\ ~Running(r) /\ lock[r] = "free"
        /\ UNCHANGED <<hub, row, lock>>
    BY <1>1 DEF TransitionMoot
  <2>2. Return(r, f, TRUE)
    BY <1>1 DEF TransitionMoot
  <2>3. ~Running(r)' /\ lock[r] # f
    BY <2>1 DEF Running, Finalizers
  <2>. QED
    BY <2>1, <2>2, <2>3, ReturnKeeps
<1>2. CASE TransitionExpired(r, f)
  <2>1. /\ call[r][f].step = "waiting" /\ lock[r] # "free"
        /\ UNCHANGED <<hub, row, lock>>
    BY <1>2 DEF TransitionExpired
  <2>2. Return(r, f, FALSE)
    BY <1>2 DEF TransitionExpired
  <2>3. lock[r] # f
    BY <2>1 DEF AttendedInv, LockIsHeld, Holding
  <2>4. Attended(r)'
    <3>1. CASE lock[r] = "admission"
      <4>1. handler[r] \in InAdmission
        BY <3>1 DEF AttendedInv, LockIsHeld
      <4>2. f # "handler"
        BY <2>1, <4>1 DEF AttendedInv, CallsHaveCallers, InAdmission
      <4>. QED
        BY <2>2, <4>1, <4>2, ReturnFacts, ZenonT(60) DEF Attended, InAdmission
    <3>2. CASE lock[r] \in Finalizers
      <4>1. PICK g \in Finalizers \ {f} : g = lock[r]
        BY <3>2, <2>3
      <4>2. call[r][g].step \in Holding
        BY <4>1 DEF AttendedInv, LockIsHeld
      <4>3. call'[r][g] = call[r][g]
        BY <2>2 DEF Return
      <4>. QED
        BY <4>2, <4>3 DEF Attended, Holding
    <3>. QED
      BY <2>1, <3>1, <3>2
  <2>5. Running(r)' => Running(r)
    BY <2>1 DEF Running
  <2>. QED
    BY <2>1, <2>2, <2>3, <2>4, <2>5, ReturnKeeps
<1>3. CASE Freeze(r, f)
  <2>1. /\ call[r][f].step = "waiting" /\ lock[r] = "free" /\ Running(r)
        /\ lock'[r] = f
        /\ hub'[r] = [Adopted(h, call[r][f]) EXCEPT !.finishing = TRUE]
        /\ UNCHANGED <<row, handler, worker, phase, failedDrain>>
    BY <1>3, <1>h DEF Freeze
  <2>2. Marks(hub'[r]) = <<hub[r].status, TRUE, hub[r].durable, hub[r].owned>>
    BY <2>1, <1>h DEF Marks, Adopted, HubState
  <2>3. /\ call'[r][f].step = "frozen" /\ call'[r][f].stage = call[r][f].stage
        /\ \A g \in Finalizers \ {f} : call'[r][g] = call[r][g]
    BY <1>3 DEF Freeze, Call
  <2>4. LockIsHeld(r)'
    BY <2>1, <2>2, <2>3 DEF AttendedInv, LockIsHeld, Marks, Holding, Finalizers
  <2>5. CallsHaveCallers(r)'
    BY <2>1, <2>3, SMTT(30) DEF AttendedInv, CallsHaveCallers, Finalizers
  <2>6. HandedOver(r)'
    BY <2>1, <2>2 DEF AttendedInv, HandedOver, Marks
  <2>7. DrainReaches(r)' /\ Attended(r)'
    BY <2>1, <2>2, <2>3 DEF AttendedInv, DrainReaches, Running, Marks, Attended, Finalizers
  <2>. QED
    BY <2>4, <2>5, <2>6, <2>7 DEF AttendedInv
<1>4. CASE PersistTerminal(r, f) \/ PersistAnswerLost(r, f)
  <2>1. /\ call[r][f].step = "frozen"
        /\ row'[r] = StoredRow(r, call[r][f])
        /\ UNCHANGED <<hub, lock, handler, worker, phase, failedDrain>>
    BY <1>4 DEF PersistTerminal, PersistAnswerLost
  <2>2. /\ call'[r][f].step \in {"frozen", "recorded"}
        /\ call'[r][f].stage = call[r][f].stage
        /\ \A g \in Finalizers \ {f} : call'[r][g] = call[r][g]
    BY <1>4 DEF PersistTerminal, PersistAnswerLost, Call
  <2>3. row[r].status # "none" => row'[r].status # "none"
    <3>1. StoredRow(r, call[r][f]).status \in {row[r].status, decided[r].status}
      BY DEF StoredRow, EndRow
    <3>2. decided[r].status \in Terminal
      BY DEF Decision
    <3>. QED
      BY <2>1, <3>1, <3>2 DEF Terminal
  <2>4. LockIsHeld(r)'
    BY <2>1, <2>2, SMTT(30) DEF AttendedInv, LockIsHeld, Holding, Finalizers
  <2>5. CallsHaveCallers(r)'
    <3>1. ASSUME NEW g \in Finalizers
          PROVE  /\ call'[r][g].stage = call[r][g].stage
                 /\ call[r][g].step = "idle" => call'[r][g].step = "idle"
      <4>1. g # f => call'[r][g] = call[r][g]
        BY <2>2
      <4>. QED
        BY <2>1, <2>2, <4>1
    <3>. QED
      BY <2>1, <3>1 DEF AttendedInv, CallsHaveCallers, Finalizers
  <2>6. HandedOver(r)'
    BY <2>1, <2>3 DEF AttendedInv, HandedOver
  <2>7. DrainReaches(r)' /\ Attended(r)'
    BY <2>1, <2>2 DEF AttendedInv, DrainReaches, Running, Attended, Finalizers
  <2>. QED
    BY <2>4, <2>5, <2>6, <2>7 DEF AttendedInv
<1>5. CASE PersistRejected(r, f)
  <2>1. /\ call[r][f].step = "frozen" /\ lock'[r] = "free"
        /\ hub'[r] = [h EXCEPT !.finishing = FALSE]
        /\ UNCHANGED row
    BY <1>5, <1>h DEF PersistRejected
  <2>2. Return(r, f, FALSE)
    BY <1>5 DEF PersistRejected
  <2>3. Marks(hub'[r]) = <<hub[r].status, FALSE, hub[r].durable, hub[r].owned>>
    BY <2>1, <1>h DEF Marks, HubState
  <2>4. lock[r] = f /\ Running(r)
    BY <2>1, <1>0 DEF FinalizerHolds, Holding
  <2>5. ASSUME "reject" \notin Events PROVE Attended(r)'
    <3>1. row[r].status # "none" \/ ~hub[r].durable
      BY DEF AttendedInv, HandedOver
    <3>2. call[r][f].stage = "batch"
      BY <1>5, <2>5, <3>1 DEF PersistRejected, Persistable
    <3>3. f = "worker"
      BY <3>2 DEF AttendedInv, CallsHaveCallers, Finalizers
    <3>4. call'[r][f].step # "idle"
      BY <2>2, <3>2, <3>3, ReturnFacts
    <3>. QED
      BY <3>4 DEF Attended
  <2>6. Running(r)' => Running(r)
    BY <2>4
  <2>7. /\ ~hub'[r].finishing
        /\ hub'[r].durable = hub[r].durable /\ hub'[r].owned = hub[r].owned
        /\ hub'[r].status # "absent"
    BY <2>3, <2>4 DEF Marks, Running
  <2>8. call[r][f].step # "idle"
    BY <2>1
  <2>. QED
    BY <2>1, <2>2, <2>4, <2>5, <2>6, <2>7, <2>8, ReturnKeeps
<1>6. CASE Publish(r, f)
  <2>1. /\ call[r][f].step = "recorded" /\ lock'[r] = "free"
        /\ hub'[r] = FromDecision(h, decided[r])
        /\ UNCHANGED row
    BY <1>6, <1>h DEF Publish
  <2>2. Return(r, f, TRUE)
    BY <1>6 DEF Publish
  <2>3. Marks(hub'[r]) = <<decided[r].status, FALSE, hub[r].durable, hub[r].owned>>
    BY <2>1, <1>h DEF Marks, FromDecision, HubState
  <2>4. lock[r] = f /\ Running(r)
    BY <2>1, <1>0 DEF FinalizerHolds, Holding
  <2>5. decided[r].status \in Terminal
    BY DEF Decision
  <2>6. /\ ~hub'[r].finishing
        /\ hub'[r].durable = hub[r].durable /\ hub'[r].owned = hub[r].owned
        /\ hub'[r].status # "absent" /\ hub'[r].status # "running"
    BY <2>3, <2>5 DEF Marks, Terminal
  <2>7. ~Running(r)' /\ call[r][f].step # "idle"
    BY <2>1, <2>6 DEF Running
  <2>. QED
    BY <2>1, <2>2, <2>4, <2>6, <2>7, ReturnKeeps
<1>. QED
  BY <1>1, <1>2, <1>3, <1>4, <1>5, <1>6 DEF TransitionStep

(* What else happens to a run: a timer, a stop, its expiry. *)
LEMMA TimersKeep ==
  ASSUME TypeInv, NEW r \in Runs, AttendedInv(r),
         FirstOutput(r) \/ FirstOutputTimeout(r) \/ UserStop(r) \/ Cleanup(r)
  PROVE  AttendedInv(r)'
<1>. USE DEF TypeInv, TypeOK
<1>h. PICK h \in HubState : h = hub[r]
  OBVIOUS
<1>1. CASE FirstOutput(r) \/ FirstOutputTimeout(r) \/ UserStop(r)
  <2>1. UNCHANGED <<row, lock, call, handler, worker, phase, failedDrain>>
    BY <1>1 DEF FirstOutput, FirstOutputTimeout, UserStop, WorkerFrame
  <2>2. \/ hub'[r] = [h EXCEPT !.armed = FALSE]
        \/ hub'[r] = [h EXCEPT !.armed = FALSE,
                             !.ctx = IF @ = "" THEN "first_output_timeout" ELSE @]
        \/ hub'[r] = Interrupted(h, "user_stop")
    BY <1>1, <1>h DEF FirstOutput, FirstOutputTimeout, UserStop
  <2>3. Marks(hub'[r]) = Marks(hub[r])
    BY <2>2, <1>h, ZenonT(60) DEF Marks, Interrupted, HubState
  <2>. QED
    BY <2>1, <2>3, UndisturbedStays DEF Undisturbed, SameDrain
<1>2. CASE Cleanup(r)
  <2>1. /\ hub'[r] = Absent /\ worker'[r] = "none" /\ handler[r] = "idle"
        /\ \A f \in Finalizers : call[r][f].step = "idle"
        /\ UNCHANGED <<row, lock, call, handler, phase, failedDrain>>
    BY <1>2 DEF Cleanup
  <2>2. /\ hub'[r].status = "absent" /\ hub'[r].finishing = FALSE
        /\ hub'[r].durable = FALSE /\ hub'[r].owned = FALSE
    <3>1. /\ Absent.status = "absent" /\ Absent.finishing = FALSE
          /\ Absent.durable = FALSE /\ Absent.owned = FALSE
      BY DEF Absent
    <3>. QED
      BY <2>1, <3>1
  <2>3. LockIsHeld(r)'
    BY <2>1, <2>2 DEF AttendedInv, LockIsHeld
  <2>4. CallsHaveCallers(r)'
    BY <2>1 DEF AttendedInv, CallsHaveCallers, Finalizers
  <2>5. HandedOver(r)' /\ DrainReaches(r)' /\ ~Running(r)'
    BY <2>1, <2>2 DEF HandedOver, DrainReaches, Running
  <2>. QED
    BY <2>3, <2>4, <2>5 DEF AttendedInv
<1>. QED
  BY <1>1, <1>2

(* A step of one run preserves the invariant of every run. *)
LEMMA RunKeeps ==
  ASSUME TypeInv, HubInv, LedgerInv, [Next]_vars, NEW r \in Runs, RunStep(r),
         NEW q \in Runs, AttendedInv(q)
  PROVE  AttendedInv(q)'
<1>1. CASE q # r
  BY <1>1, OthersUndisturbed, UndisturbedStays, RowGoesOn
<1>2. CASE q = r
  BY <1>2, RequestKeeps, WorkerKeeps, TransitionKeeps, TimersKeep DEF RunStep
<1>. QED
  BY <1>1, <1>2

(* The changes of accounts and sessions leave who works on a run. *)
LEMMA CancellationKeeps ==
  ASSUME TypeInv, HubInv, LedgerInv, [Next]_vars, NEW q \in Runs, AttendedInv(q),
         \/ \E u \in Users : ChangeAccount(u) \/ CancelByUser(u)
         \/ \E s \in Sessions : DeleteSession(s) \/ CancelSession(s)
  PROVE  AttendedInv(q)'
<1>1. UNCHANGED <<lock, call, handler, worker, phase, failedDrain>>
  BY DEF ChangeAccount, CancelByUser, DeleteSession, CancelSession
<1>2. ASSUME NEW S, NEW c, CancelMatching(S, c) PROVE Marks(hub'[q]) = Marks(hub[q])
  BY <1>2, CancelKeepsMarks
<1>3. Marks(hub'[q]) = Marks(hub[q])
  <2>1. CASE UNCHANGED hub
    BY <2>1 DEF Marks
  <2>. QED
    BY <1>2, <2>1 DEF ChangeAccount, CancelByUser, DeleteSession, CancelSession
<1>. QED
  BY <1>1, <1>3, RowGoesOn, UndisturbedStays DEF Undisturbed, SameDrain

(* So do the steps of the process: the drain starts its calls once for every  *)
(* running run, and reports success only when none is left.                 *)
LEMMA ProcessKeeps ==
  ASSUME TypeInv, HubInv, LedgerInv, [Next]_vars, NEW q \in Runs, AttendedInv(q),
         ProcessStep
  PROVE  AttendedInv(q)'
<1>. USE DEF TypeInv, TypeOK
<1>0. row[q].status # "none" => row'[q].status # "none"
  BY RowGoesOn
<1>1. CASE BeginDrain \/ CancelForDrain \/ Restart
  <2>1. /\ UNCHANGED <<lock, call, handler, worker, failedDrain>>
        /\ phase \in {"serving", "draining", "down"}
        /\ phase' \in {"serving", "draining", "canceling"}
    BY <1>1 DEF BeginDrain, CancelForDrain, Restart, memory
  <2>2. Marks(hub'[q]) = Marks(hub[q])
    <3>1. CASE UNCHANGED hub
      BY <3>1 DEF Marks
    <3>2. CASE CancelMatching(Runs, "server_draining")
      BY <3>2, CancelKeepsMarks
    <3>. QED
      BY <1>1, <3>1, <3>2 DEF BeginDrain, CancelForDrain, Restart, memory
  <2>. QED
    BY <1>0, <2>1, <2>2 DEF AttendedInv, LockIsHeld, CallsHaveCallers, HandedOver,
       DrainReaches, Marks, Running, Attended
<1>2. CASE FinalizeForDrain
  <2>1. /\ phase = "canceling" /\ phase' = "finalizing"
        /\ UNCHANGED <<hub, row, lock, handler, worker>>
    BY <1>2 DEF FinalizeForDrain, ProcessFrame
  <2>2. call[q]["drain"].step = "idle" /\ call[q]["drain"].stage # "batch"
    BY <2>1 DEF AttendedInv, CallsHaveCallers
  <2>3. lock[q] # "drain"
    BY <2>2 DEF AttendedInv, LockIsHeld, Finalizers, Holding
  <2>4. /\ call'[q]["handler"] = call[q]["handler"]
        /\ call'[q]["worker"] = call[q]["worker"]
        /\ Running(q) => call'[q]["drain"].step = "waiting"
        /\ call'[q]["drain"].stage # "batch"
    <3>1. CASE Running(q)
      BY <1>2, <3>1, ZenonT(60) DEF FinalizeForDrain, Waiting, Finalizers
    <3>2. CASE ~Running(q)
      BY <1>2, <2>2, <3>2 DEF FinalizeForDrain
    <3>. QED
      BY <3>1, <3>2
  <2>. QED
    BY <2>1, <2>3, <2>4 DEF AttendedInv, LockIsHeld, CallsHaveCallers, HandedOver,
       DrainReaches, Running, Attended, Finalizers
<1>3. CASE WaitForIdle \/ FinalizeReturns \/ FinalizeTimesOut
  <2>1. /\ UNCHANGED <<hub, row, lock, call, handler, worker, failedDrain>>
        /\ phase' \in {"drained", "forced"}
    BY <1>3 DEF WaitForIdle, FinalizeReturns, FinalizeTimesOut, memory, ProcessFrame
  <2>2. phase' = "drained" => ~Running(q)
    BY <1>3 DEF WaitForIdle, FinalizeReturns, FinalizeTimesOut, AttendedInv, DrainReaches
  <2>. QED
    BY <2>1, <2>2 DEF AttendedInv, LockIsHeld, CallsHaveCallers, HandedOver,
       DrainReaches, Running, Attended
<1>4. CASE LoseMemory
  <2>1. /\ hub'[q] = Absent /\ lock'[q] = "free" /\ handler'[q] = "idle"
        /\ worker'[q] = "none" /\ phase' = "down"
        /\ \A f \in Finalizers : call'[q][f] = NoCall
    BY <1>4 DEF LoseMemory
  <2>2. /\ Absent.status = "absent" /\ Absent.finishing = FALSE
        /\ Absent.durable = FALSE /\ Absent.owned = FALSE
    BY DEF Absent
  <2>3. NoCall.step = "idle" /\ NoCall.stage = "plain"
    BY DEF NoCall
  <2>4. LockIsHeld(q)'
    BY <2>1, <2>2 DEF LockIsHeld, Finalizers
  <2>5. CallsHaveCallers(q)'
    BY <2>1, <2>3 DEF CallsHaveCallers, Finalizers
  <2>6. HandedOver(q)' /\ DrainReaches(q)' /\ ~Running(q)'
    BY <2>1, <2>2 DEF HandedOver, DrainReaches, Running
  <2>. QED
    BY <2>4, <2>5, <2>6 DEF AttendedInv
<1>. QED
  BY <1>1, <1>2, <1>3, <1>4 DEF ProcessStep, Exit, Crash

(* Nobody is at work yet. *)
LEMMA AttendedInit ==
  ASSUME Init, NEW r \in Runs
  PROVE  AttendedInv(r)
<1>1. /\ hub[r] = Absent /\ lock[r] = "free" /\ handler[r] = "idle"
      /\ worker[r] = "none" /\ phase = "serving"
      /\ \A f \in Finalizers : call[r][f] = NoCall
  BY DEF Init
<1>2. /\ Absent.status = "absent" /\ Absent.finishing = FALSE
      /\ Absent.durable = FALSE /\ Absent.owned = FALSE
  BY DEF Absent
<1>3. NoCall.step = "idle" /\ NoCall.stage = "plain"
  BY DEF NoCall
<1>4. LockIsHeld(r)
  BY <1>1, <1>2 DEF LockIsHeld, Finalizers
<1>5. CallsHaveCallers(r)
  BY <1>1, <1>3 DEF CallsHaveCallers, Finalizers
<1>6. HandedOver(r) /\ DrainReaches(r) /\ ~Running(r)
  BY <1>1, <1>2 DEF HandedOver, DrainReaches, Running
<1>. QED
  BY <1>4, <1>5, <1>6 DEF AttendedInv

(* Every step preserves the invariant of a run. *)
LEMMA AttendedNext ==
  ASSUME TypeInv, HubInv, LedgerInv, [Next]_vars, NEW q \in Runs, AttendedInv(q)
  PROVE  AttendedInv(q)'
<1>1. CASE UNCHANGED vars
  BY <1>1, UndisturbedStays DEF vars, memory, Undisturbed, SameDrain, Marks
<1>2. CASE \E r \in Runs : RunStep(r)
  BY <1>2, RunKeeps
<1>3. CASE \/ \E u \in Users : ChangeAccount(u) \/ CancelByUser(u)
           \/ \E s \in Sessions : DeleteSession(s) \/ CancelSession(s)
  BY <1>3, CancellationKeeps
<1>4. CASE ProcessStep
  BY <1>4, ProcessKeeps
<1>. QED
  BY <1>1, <1>2, <1>3, <1>4 DEF Next

(* A drain that reports success has ended every run of the hub, and with it   *)
(* every running row: no row runs whose run the hub does not hold.          *)
LEMMA NothingRunsAfterDrain ==
  ASSUME HubInv, \A r \in Runs : AttendedInv(r)
  PROVE  RunningRunIsAttended /\ CleanDrainLeavesNothing
<1>1. RunningRunIsAttended
  BY DEF RunningRunIsAttended, AttendedInv
<1>2. ASSUME phase = "drained", NEW r \in Runs PROVE ~Live(r)
  BY <1>2 DEF HubInv, RunInv, AttendedInv, DrainReaches
<1>. QED
  BY <1>1, <1>2 DEF CleanDrainLeavesNothing

(* As long as no terminal write is rejected for good, somebody is at work on  *)
(* every running run, whatever stops, panics, cancellations, lost answers,  *)
(* crashes and restarts happened; a drain that reports success leaves no    *)
(* running row behind; and no answer is stored twice.                       *)
THEOREM NothingIsLeftBehind == Spec => []NoRunIsLeftBehind
<1>. DEFINE Attending == \A r \in Runs : AttendedInv(r)
<1>1. Init => Attending
  BY AttendedInit
<1>2. TypeInv /\ HubInv /\ LedgerInv /\ Attending /\ [Next]_vars => Attending'
  BY AttendedNext
<1>3. HubInv /\ Attending => RunningRunIsAttended /\ CleanDrainLeavesNothing
  BY NothingRunsAfterDrain
<1>4. Spec => [](TypeInv /\ HubInv /\ LedgerInv)
  BY TypeInit, TypeNext, HubInit, HubNext, LedgerInit, LedgerNext, PTL DEF Spec
<1>5. Spec => [](HubInv /\ Attending)
  BY <1>1, <1>2, <1>4, PTL DEF Spec
<1>6. TypeOK /\ AnswersStoredOnce /\ RunningRunIsAttended /\ CleanDrainLeavesNothing
        => NoRunIsLeftBehind
  BY DEF NoRunIsLeftBehind
<1>. QED
  BY <1>3, <1>5, <1>6, TypeCorrect, AnswersAreStoredOnce, PTL

================================================================================
