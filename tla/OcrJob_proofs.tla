----------------------------- MODULE OcrJob_proofs -----------------------------
(***************************************************************************)
(* Proofs about OcrJob, for any number of uploads, of jobs at once, of     *)
(* attempts and of interferences: a job is submitted at most once for each *)
(* time the user asked for it, rows and files agree, and a job that ended  *)
(* stays as it ended.                                                      *)
(***************************************************************************)
EXTENDS OcrJob, TLAPS

-----------------------------------------------------------------------------
(* Types *)

Disk == [sources : SUBSET Files, final : [Files -> Nat], temps : SUBSET (Files \X Nat)]

Cleaner == [pc : {"idle", "claim", "remove"}, cutoff : {"hours", "day"},
            expired : SUBSET Files, claimed : SUBSET Files,
            removed : SUBSET Files, originals : SUBSET Files]

Typed ==
  /\ row \in [Files -> Row]
  /\ disk \in Disk
  /\ lock \in [Files -> Nat]
  /\ workers \subseteq Worker
  /\ retry \in [Files -> {"idle", "update", "stat", "compensate"}]
  /\ cleaner \in Cleaner
  /\ session \in {"live", "deleted", "lapsed"}
  /\ old \subseteq Files
  /\ submitted \subseteq Files \X Nat
  /\ epoch \in [Files -> Nat]
  /\ events \in 0 .. MaxEvents

(* What the statements of the code make of a row is a row. *)
LEMMA RowUpdates ==
  ASSUME NEW r \in Row
  PROVE  /\ \A error \in {"source_expired", "other"} : Failed(r, error) \in Row
         /\ Fenced(r) \in Row /\ Claimed(r) \in Row /\ Restarted(r) \in Row
         /\ Expired(r) \in Row /\ Compensated(r) \in Row
<1>1. \A error \in {"source_expired", "other"} : Failed(r, error) \in Row
  BY DEF Failed, Row
<1>2. ASSUME NEW q \in Row PROVE Fenced(q) \in Row
  <2>1. PICK n \in Nat : n = q.generation + 1
    BY DEF Row
  <2>2. Fenced(q) = [q EXCEPT !.generation = n, !.lease = "none"]
    BY <2>1 DEF Fenced
  <2>. QED
    BY <2>2, ZenonT(60) DEF Row
<1>3. Claimed(r) \in Row
  <2>1. PICK n \in Nat : n = r.generation + 1
    BY DEF Row
  <2>2. Claimed(r) = [r EXCEPT !.lease = "live", !.generation = n]
    BY <2>1 DEF Claimed
  <2>. QED
    BY <2>2 DEF Row
<1>4. Restarted(r) \in Row
  <2>1. PICK q \in Row : q = Fenced(r)
    BY <1>2
  <2>2. PICK p \in Row : p = [q EXCEPT !.extract = "ocr_pending", !.error = "none"]
    BY DEF Row, Pending
  <2>3. [p EXCEPT !.task = FALSE, !.attempts = 0] \in Row
    BY DEF Row
  <2>4. Restarted(r) = [p EXCEPT !.task = FALSE, !.attempts = 0]
    BY <2>1, <2>2 DEF Restarted
  <2>. QED
    BY <2>3, <2>4
<1>5. Expired(r) \in Row
  <2>1. PICK q \in Row : q = Fenced(Failed(r, "source_expired"))
    BY <1>1, <1>2
  <2>2. [q EXCEPT !.task = FALSE] \in Row
    BY DEF Row
  <2>. QED
    BY <1>2, <2>1, <2>2 DEF Expired
<1>6. Compensated(r) \in Row
  BY <1>1, <1>2 DEF Compensated
<1>. QED
  BY <1>1, <1>2, <1>3, <1>4, <1>5, <1>6

(* A worker moves on, or has written its attempt down, or returns. *)
LEMMA WorkerUpdates ==
  ASSUME Typed, NEW w \in workers
  PROVE  /\ \A pc \in {"inspect", "reserve", "start", "record", "poll", "attempt",
                       "pollAttempt", "write", "lock", "promote", "commit", "source",
                       "clear", "retry", "release", "fail"} :
              Goto(w, pc) => workers' \subseteq Worker
         /\ Return(w) => workers' \subseteq Worker /\ disk' \in Disk
<1>1. w \in Worker
  BY DEF Typed
<1>2. ASSUME Return(w) PROVE workers' \subseteq Worker /\ disk' \in Disk
  <2>1. [disk EXCEPT !.temps = @ \ {Temp(w)}] \in Disk
    BY DEF Typed, Disk
  <2>. QED
    BY <1>2, <2>1 DEF Typed, Return
<1>3. ASSUME NEW pc \in {"inspect", "reserve", "start", "record", "poll", "attempt",
                         "pollAttempt", "write", "lock", "promote", "commit", "source",
                         "clear", "retry", "release", "fail"},
             Goto(w, pc)
      PROVE  workers' \subseteq Worker
  <2>1. [w EXCEPT !.pc = pc] \in Worker
    BY <1>1 DEF Worker
  <2>. QED
    BY <1>3, <2>1 DEF Typed, Goto
<1>. QED
  BY <1>2, <1>3

(* Every statement leaves a row where there was one. *)
LEMMA RowTyped ==
  ASSUME Typed, [Next]_vars
  PROVE  row' \in [Files -> Row]
<1>. USE DEF Typed
<1>1. CASE UNCHANGED row
  BY <1>1
<1>2. ASSUME NEW f \in Files, NEW r \in Row, row' = [row EXCEPT ![f] = r]
      PROVE  row' \in [Files -> Row]
  BY <1>2
<1>3. CASE Work
  <2>. SUFFICES ASSUME NEW w \in workers, WorkerStep(w), row' # row PROVE row' \in [Files -> Row]
    BY <1>1, <1>3 DEF Work
  <2>0. w \in Worker /\ w.file \in Files
    BY DEF Worker
  <2>1. PICK r \in Row : r = row[w.file]
    BY <2>0
  <2>2. CASE RecordAttempt(w)
    <3>1. PICK n \in Nat : n = r.attempts + 1
      BY DEF Row
    <3>2. [r EXCEPT !.attempts = n] \in Row
      BY DEF Row
    <3>. QED
      BY <2>0, <2>1, <2>2, <3>1, <3>2, <1>2 DEF RecordAttempt
  <2>3. CASE Reserve(w)
    <3>1. [r EXCEPT !.error = "submission_started", !.started = TRUE] \in Row
      BY DEF Row
    <3>2. row' = [row EXCEPT ![w.file] = [r EXCEPT !.error = "submission_started",
                                                   !.started = TRUE]]
      BY <2>0, <2>1, <2>3 DEF Reserve
    <3>. QED
      BY <2>0, <3>1, <3>2
  <2>4. CASE Record(w)
    <3>1. [r EXCEPT !.task = TRUE, !.error = "none", !.extract = "ocr_running"] \in Row
      BY DEF Row, Pending
    <3>2. row' = [row EXCEPT ![w.file] = [r EXCEPT !.task = TRUE, !.error = "none",
                                                   !.extract = "ocr_running"]]
      BY <2>0, <2>1, <2>4 DEF Record
    <3>. QED
      BY <2>0, <3>1, <3>2
  <2>5. CASE Release(w) \/ Fail(w) \/ Retry(w)
    <3>1. ReleasedRow(w) \in Row
      BY <2>1, ZenonT(60) DEF ReleasedRow, Row
    <3>2. Failed(row[w.file], "other") \in Row
      BY <2>1, RowUpdates
    <3>. QED
      BY <2>0, <2>5, <3>1, <3>2 DEF Release, Fail, Retry, WriteAndReturn
  <2>6. CASE CommitCompletion(w)
    <3>1. Completed(w) \in Row
      BY <2>0, <2>1, ZenonT(60) DEF Completed, Row, Worker
    <3>. QED
      BY <2>0, <2>6, <3>1 DEF CommitCompletion
  <2>7. CASE ClearSource(w)
    <3>1. [r EXCEPT !.path = FALSE] \in Row
      BY DEF Row
    <3>. QED
      BY <2>0, <2>1, <2>7, <3>1 DEF ClearSource
  <2>. QED
    BY <2>2, <2>3, <2>4, <2>5, <2>6, <2>7 DEF WorkerStep, Process, Inspect, Start, Poll,
       WriteTemp, LockCompletion, Promote, RemoveSource, GiveUp
<1>4. CASE Loop
  <2>1. \A f \in Files : /\ Fenced(Failed(row[f], "other")) \in Row
                         /\ Claimed(row[f]) \in Row
    BY RowUpdates
  <2>. QED
    BY <1>4, <2>1, ZenonT(60) DEF Loop, FailStaleSubmissions, ClaimTasks
<1>5. ASSUME NEW f \in Files, UserStep(f) PROVE row' \in [Files -> Row]
  <2>1. PICK r \in Row : r = row[f]
    OBVIOUS
  <2>2. /\ [r EXCEPT !.status = "staged"] \in Row /\ [r EXCEPT !.status = "formal"] \in Row
        /\ Restarted(r) \in Row /\ Compensated(r) \in Row
    BY RowUpdates DEF Row
  <2>3. CASE RequestDeletion(f)
    <3>1. PICK q \in Row : q = IF r.extract \in Pending THEN Failed(r, "other") ELSE r
      BY RowUpdates
    <3>2. PICK p \in Row : p = Fenced(q)
      BY RowUpdates
    <3>3. PICK due \in BOOLEAN :
            row' = [row EXCEPT ![f] = [p EXCEPT !.status = "cleanup_claimed",
                                                !.due = due, !.cleaning = FALSE]]
      BY <2>1, <2>3, <3>1, <3>2 DEF RequestDeletion
    <3>4. [p EXCEPT !.status = "cleanup_claimed", !.due = due, !.cleaning = FALSE] \in Row
      BY ZenonT(60) DEF Row
    <3>. QED
      BY <3>3, <3>4
  <2>. QED
    BY <1>5, <1>1, <1>2, <2>1, <2>2, <2>3 DEF UserStep, QueueOcr, RetryRead, RetryUpdate,
       RetryStat, RetryCompensate, AttachToMessage
<1>6. CASE CleanStep
  <2>1. ASSUME NEW r \in Row
        PROVE  /\ Expired(r) \in Row
               /\ [r EXCEPT !.status = "cleanup_claimed", !.due = TRUE, !.cleaning = TRUE] \in Row
               /\ [r EXCEPT !.cleaning = FALSE] \in Row /\ [r EXCEPT !.path = FALSE] \in Row
               /\ [r EXCEPT !.status = "storage_removed", !.cleaning = FALSE] \in Row
    <3>1. Expired(r) \in Row
      BY RowUpdates
    <3>2. [r EXCEPT !.status = "cleanup_claimed", !.due = TRUE, !.cleaning = TRUE] \in Row
      BY DEF Row
    <3>3. /\ [r EXCEPT !.cleaning = FALSE] \in Row /\ [r EXCEPT !.path = FALSE] \in Row
          /\ [r EXCEPT !.status = "storage_removed", !.cleaning = FALSE] \in Row
      BY DEF Row
    <3>. QED
      BY <3>1, <3>2, <3>3
  <2>2. CASE CleanExpire \/ CleanClaim \/ CleanReturn
    <3>1. ASSUME NEW S, row' = [f \in Files |-> IF f \in S THEN Expired(row[f]) ELSE row[f]]
          PROVE  row' \in [Files -> Row]
      BY <2>1, <3>1
    <3>2. ASSUME NEW S,
                 row' = [f \in Files |->
                           IF f \in S THEN [row[f] EXCEPT !.status = "cleanup_claimed",
                                                          !.due = TRUE, !.cleaning = TRUE]
                           ELSE row[f]]
          PROVE  row' \in [Files -> Row]
      BY <2>1, <3>2
    <3>. QED
      BY <1>1, <2>2, <3>1, <3>2 DEF CleanExpire, CleanClaim, CleanReturn
  <2>3. ASSUME NEW f \in Files,
               CleanRemove(f) \/ CleanFinalize(f) \/ CleanOriginal(f) \/ CleanPath(f)
        PROVE  row' \in [Files -> Row]
    <3>1. PICK r \in Row : r = row[f]
      OBVIOUS
    <3>2. \/ row' = row
          \/ row' = [row EXCEPT ![f] = [r EXCEPT !.cleaning = FALSE]]
          \/ row' = [row EXCEPT ![f] = [r EXCEPT !.path = FALSE]]
          \/ row' = [row EXCEPT ![f] = [r EXCEPT !.status = "storage_removed",
                                                 !.cleaning = FALSE]]
      BY <2>3, <3>1 DEF CleanRemove, CleanFinalize, CleanOriginal, CleanPath
    <3>. QED
      BY <2>1, <3>2
  <2>. QED
    BY <1>6, <2>2, <2>3 DEF CleanStep
<1>7. CASE Time
  <2>1. ASSUME NEW f \in Files, LeaseExpires(f) \/ GrowOld(f) \/ RetentionEnds(f)
        PROVE  row' \in [Files -> Row]
    <3>1. PICK r \in Row : r = row[f]
      OBVIOUS
    <3>2. /\ [r EXCEPT !.lease = "expired"] \in Row /\ [r EXCEPT !.due = TRUE] \in Row
          /\ [r EXCEPT !.cleaning = FALSE] \in Row
      BY DEF Row
    <3>. QED
      BY <2>1, <3>1, <3>2 DEF LeaseExpires, GrowOld, RetentionEnds
  <2>. QED
    BY <1>7, <2>1, <1>1 DEF Time, EndSession
<1>. QED
  BY <1>1, <1>3, <1>4, <1>5, <1>6, <1>7 DEF Next, Crash, vars

(* A worker at work, and what it leaves on the disk. *)
LEMMA WorkTyped ==
  ASSUME Typed, NEW w \in workers, WorkerStep(w)
  PROVE  /\ workers' \subseteq Worker /\ disk' \in Disk
         /\ lock' \in [Files -> Nat] /\ submitted' \subseteq Files \X Nat
         /\ UNCHANGED <<retry, cleaner, session, old, epoch>>
         /\ events' \in {events, events + 1} /\ events' <= MaxEvents
<1>. USE DEF Typed
<1>0. w \in Worker /\ w.file \in Files /\ w.gen \in Nat /\ w.epoch \in Nat
  BY DEF Worker
<1>1. workers' \subseteq Worker
  <2>1. CASE RecordAttempt(w)
    <3>1. PICK n \in Nat : n = row[w.file].attempts + 1
      BY <1>0 DEF Row
    <3>2. \A pc \in {"inspect", "fail", "release"} :
            [w EXCEPT !.attempts = n, !.pc = pc] \in Worker
      BY <1>0 DEF Worker
    <3>3. \/ Return(w)
          \/ \E pc \in {"inspect", "fail", "release"} :
               workers' = (workers \ {w}) \cup {[w EXCEPT !.attempts = n, !.pc = pc]}
      BY <2>1, <3>1 DEF RecordAttempt
    <3>. QED
      BY <3>2, <3>3, WorkerUpdates
  <2>2. CASE ~RecordAttempt(w)
    BY <2>2, WorkerUpdates DEF WorkerStep, Process, Inspect, Reserve, Start, Record, Poll,
       Release, Fail, Retry, WriteAndReturn, WriteTemp, LockCompletion, Promote,
       CommitCompletion, RemoveSource, ClearSource, GiveUp
  <2>. QED
    BY <2>1, <2>2
<1>2. disk' \in Disk
  <2>1. PICK d \in Disk : d = disk
    OBVIOUS
  <2>2. /\ [d EXCEPT !.temps = @ \ Reclaimed(w)] \in Disk
        /\ [d EXCEPT !.temps = @ \cup {Temp(w)}] \in Disk
        /\ [d EXCEPT !.sources = @ \ {w.file}] \in Disk
        /\ [d EXCEPT !.temps = @ \ {Temp(w)}, !.final[w.file] = w.gen] \in Disk
    <3>1. PICK F \in [Files -> Nat] : F = [d.final EXCEPT ![w.file] = w.gen]
      BY <1>0 DEF Disk
    <3>2. [d EXCEPT !.temps = @ \ {Temp(w)}, !.final = F] \in Disk
      BY DEF Disk
    <3>3. [d EXCEPT !.temps = @ \ {Temp(w)}, !.final[w.file] = w.gen]
            = [d EXCEPT !.temps = @ \ {Temp(w)}, !.final = F]
      BY <3>1 DEF Disk
    <3>4. /\ [d EXCEPT !.temps = @ \ Reclaimed(w)] \in Disk
          /\ [d EXCEPT !.sources = @ \ {w.file}] \in Disk
      BY DEF Disk
    <3>5. [d EXCEPT !.temps = @ \cup {Temp(w)}] \in Disk
      BY <1>0 DEF Disk, Temp
    <3>. QED
      BY <3>2, <3>3, <3>4, <3>5
  <2>. QED
    BY <2>1, <2>2, WorkerUpdates DEF WorkerStep, Process, RecordAttempt, Inspect, Reserve,
       Start, Record, Poll, Release, Fail, Retry, WriteAndReturn, WriteTemp,
       LockCompletion, Promote, CommitCompletion, RemoveSource, ClearSource, GiveUp
<1>3. lock' \in [Files -> Nat] /\ submitted' \subseteq Files \X Nat
  <2>1. lock' \in {lock, [lock EXCEPT ![w.file] = w.gen], [lock EXCEPT ![w.file] = 0]}
    BY DEF WorkerStep, Process, RecordAttempt, Inspect, Reserve, Start, Record, Poll,
       Release, Fail, Retry, WriteTemp, LockCompletion, Unlock, Promote, CommitCompletion,
       RemoveSource, ClearSource, GiveUp, Rest
  <2>2. submitted' \in {submitted, submitted \cup {<<w.file, w.epoch>>}}
    BY DEF WorkerStep, Process, RecordAttempt, Inspect, Reserve, Start, Record, Poll,
       Release, Fail, Retry, WriteTemp, LockCompletion, Promote, CommitCompletion,
       RemoveSource, ClearSource, GiveUp, history
  <2>. QED
    BY <1>0, <2>1, <2>2
<1>4. UNCHANGED <<retry, cleaner, session, old, epoch>>
  BY DEF WorkerStep, Process, RecordAttempt, Inspect, Reserve, Start, Record, Poll,
     Release, Fail, Retry, WriteTemp, LockCompletion, Promote, CommitCompletion,
     RemoveSource, ClearSource, GiveUp, Rest, history, user
<1>5. Event \/ Expected
  BY DEF WorkerStep, Process, RecordAttempt, Inspect, Reserve, Start, Record, Poll,
     Release, Fail, Retry, WriteTemp, LockCompletion, Promote, CommitCompletion,
     RemoveSource, ClearSource, GiveUp
<1>6. events' \in {events, events + 1} /\ events' <= MaxEvents
  BY <1>5, EventsAssumption DEF Event, Expected
<1>. QED
  BY <1>1, <1>2, <1>3, <1>4, <1>6

(* Every step leaves the state well typed. *)
LEMMA TypedNext == Typed /\ [Next]_vars => Typed'
<1>. SUFFICES ASSUME Typed, [Next]_vars PROVE Typed'
  OBVIOUS
<1>. USE DEF Typed
<1>0. row' \in [Files -> Row]
  BY RowTyped
<1>e. Event \/ Expected => events' \in 0 .. MaxEvents
  BY EventsAssumption DEF Event, Expected
<1>1. CASE UNCHANGED vars
  BY <1>1 DEF vars, user, history
<1>2. CASE Work
  <2>1. PICK w \in workers : WorkerStep(w)
    BY <1>2 DEF Work
  <2>2. events' \in 0 .. MaxEvents
    BY <2>1, WorkTyped, EventsAssumption
  <2>. QED
    BY <1>0, <2>1, <2>2, WorkTyped
<1>3. CASE Loop
  <2>1. ASSUME NEW f \in Files
        PROVE  [file |-> f, gen |-> Claimed(row[f]).generation, task |-> row[f].task,
                attempts |-> 0, epoch |-> epoch[f], pc |-> "process"] \in Worker
    <3>1. row[f] \in Row /\ Claimed(row[f]) \in Row /\ epoch[f] \in Nat
      BY RowUpdates
    <3>. QED
      BY <3>1 DEF Row, Worker
  <2>2. workers' \subseteq Worker
    <3>1. CASE FailStaleSubmissions
      BY <3>1 DEF FailStaleSubmissions
    <3>2. ASSUME NEW chosen \in SUBSET Files, ClaimTasks(chosen)
          PROVE  workers' \subseteq Worker
      BY <2>1, <3>2 DEF ClaimTasks
    <3>. QED
      BY <1>3, <3>1, <3>2 DEF Loop
  <2>3. UNCHANGED <<disk, lock, retry, cleaner, user, history, events>>
    BY <1>3 DEF Loop, FailStaleSubmissions, ClaimTasks, Expected
  <2>. QED
    BY <1>0, <2>2, <2>3 DEF user, history
<1>4. ASSUME NEW f \in Files, UserStep(f) PROVE Typed'
  <2>1. UNCHANGED <<lock, workers, cleaner, session, old, submitted>>
    BY <1>4 DEF UserStep, QueueOcr, RetryRead, RetryUpdate, RetryStat, RetryCompensate,
       AttachToMessage, RequestDeletion, user, history
  <2>2. disk' \in Disk
    <3>1. [disk EXCEPT !.sources = @ \cup {f}] \in Disk
      BY DEF Disk
    <3>. QED
      BY <1>4, <3>1 DEF UserStep, QueueOcr, RetryRead, RetryUpdate, RetryStat,
         RetryCompensate, AttachToMessage, RequestDeletion
  <2>3. retry' \in [Files -> {"idle", "update", "stat", "compensate"}]
    BY <1>4 DEF UserStep, QueueOcr, RetryRead, RetryUpdate, RetryStat, RetryCompensate,
       AttachToMessage, RequestDeletion
  <2>4. epoch' \in [Files -> Nat]
    <3>1. epoch' = epoch \/ epoch' = [epoch EXCEPT ![f] = @ + 1]
      BY <1>4 DEF UserStep, QueueOcr, RetryRead, RetryUpdate, RetryStat, RetryCompensate,
         AttachToMessage, RequestDeletion, history
    <3>. QED
      BY <3>1
  <2>5. Event \/ Expected
    BY <1>4 DEF UserStep, QueueOcr, RetryRead, RetryUpdate, RetryStat, RetryCompensate,
       AttachToMessage, RequestDeletion
  <2>. QED
    BY <1>0, <1>e, <2>1, <2>2, <2>3, <2>4, <2>5
<1>5. CASE CleanStep
  <2>1. UNCHANGED <<lock, workers, retry, user, history>>
    BY <1>5, ZenonT(60) DEF CleanStep, CleanExpire, CleanClaim, CleanReturn, CleanRemove,
       CleanFinalize,
       CleanOriginal, CleanPath
  <2>2. Event \/ Expected
    BY <1>5, ZenonT(60) DEF CleanStep, CleanExpire, CleanClaim, CleanReturn, CleanRemove,
       CleanFinalize,
       CleanOriginal, CleanPath
  <2>3. disk' \in Disk
    <3>1. ASSUME NEW f \in Files
          PROVE  /\ [disk EXCEPT !.sources = @ \ {f}, !.final[f] = 0] \in Disk
                 /\ [disk EXCEPT !.sources = @ \ {f}] \in Disk
      BY DEF Disk
    <3>. QED
      BY <1>5, <3>1, ZenonT(60) DEF CleanStep, CleanExpire, CleanClaim, CleanReturn,
         CleanRemove,
         CleanFinalize, CleanOriginal, CleanPath
  <2>4. cleaner' \in Cleaner
    <3>1. NoCleaner \in Cleaner
      BY DEF NoCleaner, Cleaner
    <3>2. CASE CleanExpire
      <4>1. PICK cutoff \in {"hours", "day"}, stale \in SUBSET Files :
              cleaner' = [NoCleaner EXCEPT !.pc = "claim", !.cutoff = cutoff,
                                           !.expired = stale]
        BY <3>2 DEF CleanExpire
      <4>. QED
        BY <3>1, <4>1 DEF Cleaner
    <3>3. CASE CleanClaim
      BY <3>3 DEF CleanClaim, Cleaner
    <3>4. CASE CleanReturn
      BY <3>1, <3>4 DEF CleanReturn
    <3>5. ASSUME NEW f \in Files,
                 CleanRemove(f) \/ CleanFinalize(f) \/ CleanOriginal(f) \/ CleanPath(f)
          PROVE  cleaner' \in Cleaner
      <4>1. PICK c \in Cleaner : c = cleaner
        OBVIOUS
      <4>2. /\ [c EXCEPT !.claimed = @ \ {f}, !.removed = @ \cup {f}] \in Cleaner
            /\ [c EXCEPT !.claimed = @ \ {f}] \in Cleaner
        BY DEF Cleaner
      <4>3. /\ [c EXCEPT !.removed = @ \ {f}, !.expired = @ \ {f}] \in Cleaner
            /\ [c EXCEPT !.expired = @ \ {f}] \in Cleaner
        BY DEF Cleaner
      <4>4. /\ [c EXCEPT !.expired = @ \ {f}, !.originals = @ \cup {f}] \in Cleaner
            /\ [c EXCEPT !.originals = @ \ {f}] \in Cleaner
        BY DEF Cleaner
      <4>. QED
        BY <3>5, <4>1, <4>2, <4>3, <4>4 DEF CleanRemove, CleanFinalize, CleanOriginal, CleanPath
    <3>. QED
      BY <1>5, <3>2, <3>3, <3>4, <3>5 DEF CleanStep
  <2>. QED
    BY <1>0, <1>e, <2>1, <2>2, <2>3, <2>4, SMTT(30) DEF user, history
<1>6. CASE Time
  <2>1. UNCHANGED <<disk, lock, workers, retry, cleaner, history>>
    BY <1>6 DEF Time, EndSession, LeaseExpires, GrowOld, RetentionEnds
  <2>2. /\ Event \/ Expected
        /\ session' \in {"live", "deleted", "lapsed"} /\ old' \subseteq Files
    BY <1>6 DEF Time, EndSession, LeaseExpires, GrowOld, RetentionEnds, user
  <2>. QED
    BY <1>0, <1>e, <2>1, <2>2 DEF history
<1>7. CASE Crash
  <2>1. NoCleaner \in Cleaner
    BY DEF NoCleaner, Cleaner
  <2>. QED
    BY <1>0, <1>e, <1>7, <2>1 DEF Crash, user, history
<1>. QED
  BY <1>1, <1>2, <1>3, <1>4, <1>5, <1>6, <1>7 DEF Next

-----------------------------------------------------------------------------
(* The invariant of a job *)

(* A submission is not reserved again in this epoch, and: the receipt of one  *)
(* is there, and the job in work.                                           *)
Closed(f)  == ~(InWork(row[f]) /\ ~row[f].task /\ row[f].error = "none")
InDoubt(f) == InWork(row[f]) /\ row[f].error = "submission_started"
Mark(f)    == <<f, epoch[f]>>

(* A worker is as old as its claim.  One that is about to submit has not      *)
(* before, and closed the job for its epoch; a job in doubt belongs to the  *)
(* worker that has the receipt, and one that may hand it back has not       *)
(* submitted.  A worker that completes the job holds the lock of its row.   *)
WorkerInv(v) ==
  /\ 0 < v.gen /\ v.gen <= row[v.file].generation /\ row[v.file].status # "none"
  /\ v.epoch <= epoch[v.file]
  /\ v.gen = row[v.file].generation => v.epoch = epoch[v.file]
  /\ v.pc = "start" => /\ <<v.file, v.epoch>> \notin submitted
                       /\ v.epoch = epoch[v.file] => Closed(v.file)
  /\ InDoubt(v.file) /\ Owned(v) =>
       /\ v.pc \in {"start", "record", "retry", "fail"}
       /\ v.pc \in {"start", "retry"} => Mark(v.file) \notin submitted
  /\ v.pc \in {"promote", "commit"} => lock[v.file] = v.gen /\ Owned(v)
  /\ v.pc = "commit" => disk.final[v.file] = v.gen

(* Two workers of a job are of two claims, never submit in one epoch, and the *)
(* one that may hand the job back is the only one that may have submitted.  *)
PairInv(v, w) ==
  v # w =>
    /\ v.gen # w.gen
    /\ ~(v.pc = "start" /\ w.pc = "start" /\ v.epoch = w.epoch)
    /\ InDoubt(v.file) /\ Owned(v) /\ v.pc \in {"start", "retry"} =>
         ~(w.pc = "start" /\ w.epoch = epoch[v.file])

(* A submitted job is closed for its epoch.                                  *)
SubmitInv(f) ==
  /\ Mark(f) \in submitted => Closed(f)
  /\ \A e \in Nat : <<f, e>> \in submitted => e <= epoch[f] /\ row[f].status # "none"
  /\ row[f].extract \in Pending => row[f].error \in {"none", "submission_started"}
  /\ row[f].status = "none" => row[f].extract \in Pending

(* The text is the one of the row, and the cleanup removes what it claimed.   *)
TextInv(f) ==
  /\ row[f].status \in {"staged", "formal"} /\ row[f].extract = "ready" =>
       row[f].estimate > 0 /\ disk.final[f] = row[f].estimate
  /\ row[f].status = "storage_removed" => disk.final[f] = 0 /\ f \notin disk.sources
  /\ f \in cleaner.claimed \cup cleaner.removed => row[f].status = "cleanup_claimed"
  /\ f \in cleaner.removed =>
       disk.final[f] = 0 /\ f \notin disk.sources /\ f \notin cleaner.claimed

(* Every restart is paid for.                                                *)
EventInv(f) == epoch[f] <= events /\ (retry[f] = "update" => epoch[f] < events)

JobInv(f) ==
  /\ \A v \in workers : v.file = f => WorkerInv(v)
  /\ \A v, w \in workers : v.file = f /\ w.file = f => PairInv(v, w)
  /\ SubmitInv(f) /\ TextInv(f) /\ EventInv(f)

(* What the invariant reads of a row. *)
Facts(r) == <<r.status, r.extract, r.error, r.task, r.generation, r.estimate>>

(* The surroundings of a job: nothing comes back to the disk, and the cleanup *)
(* claims no more.                                                          *)
Around(f) ==
  /\ disk'.final[f] = disk.final[f] /\ (f \in disk'.sources => f \in disk.sources)
  /\ f \in cleaner'.claimed => f \in cleaner.claimed
  /\ f \in cleaner'.removed => f \in cleaner.removed
  /\ events' >= events /\ (retry'[f] = "update" => retry[f] = "update" \/ epoch[f] < events')

SameMarks(f) == \A e \in Nat : <<f, e>> \in submitted' <=> <<f, e>> \in submitted
NoNewWorker(f) == \A v \in workers' : v.file = f => v \in workers

Untouched(f) ==
  /\ Facts(row'[f]) = Facts(row[f]) /\ epoch'[f] = epoch[f] /\ lock'[f] = lock[f]
  /\ NoNewWorker(f) /\ SameMarks(f) /\ Around(f)

(* A job that a step does not touch, or only takes a worker from. *)
LEMMA UntouchedKeeps ==
  ASSUME Typed, Typed', NEW f \in Files, JobInv(f), Untouched(f)
  PROVE  JobInv(f)'
<1>. USE DEF Typed, Untouched
<1>1. /\ row'[f].status = row[f].status /\ row'[f].extract = row[f].extract
      /\ row'[f].error = row[f].error /\ row'[f].task = row[f].task
      /\ row'[f].generation = row[f].generation /\ row'[f].estimate = row[f].estimate
  BY DEF Facts
<1>2. epoch[f] \in Nat
  OBVIOUS
<1>3. Mark(f)' \in submitted' <=> Mark(f) \in submitted
  BY <1>2 DEF SameMarks, Mark
<1>4. (Closed(f)' <=> Closed(f)) /\ (InDoubt(f)' <=> InDoubt(f))
  BY <1>1 DEF Closed, InDoubt, InWork
<1>5. ASSUME NEW v \in workers', v.file = f PROVE WorkerInv(v)'
  <2>1. v \in workers /\ WorkerInv(v) /\ v \in Worker
    BY <1>5 DEF NoNewWorker, JobInv
  <2>2. v.epoch \in Nat
    BY <2>1 DEF Worker
  <2>3. <<f, v.epoch>> \in submitted' <=> <<f, v.epoch>> \in submitted
    BY <2>2 DEF SameMarks
  <2>4. Owned(v)' <=> Owned(v)
    BY <1>1, <1>5 DEF Owned, InWork
  <2>5. disk'.final[f] = disk.final[f]
    BY DEF Around
  <2>. QED
    BY <1>1, <1>3, <1>4, <1>5, <2>1, <2>3, <2>4, <2>5 DEF WorkerInv
<1>6. ASSUME NEW v \in workers', NEW w \in workers', v.file = f, w.file = f
      PROVE  PairInv(v, w)'
  <2>1. v \in workers /\ w \in workers /\ PairInv(v, w)
    BY <1>6 DEF NoNewWorker, JobInv
  <2>2. Owned(v)' <=> Owned(v)
    BY <1>1, <1>6 DEF Owned, InWork
  <2>. QED
    BY <1>4, <1>6, <2>1, <2>2 DEF PairInv
<1>7. SubmitInv(f)'
  BY <1>1, <1>3, <1>4 DEF JobInv, SubmitInv, SameMarks
<1>8. TextInv(f)'
  BY <1>1 DEF JobInv, TextInv, Around
<1>9. EventInv(f)'
  BY DEF JobInv, EventInv, Around
<1>. QED
  BY <1>5, <1>6, <1>7, <1>8, <1>9 DEF JobInv

(* A statement that ends a job, or takes one that had ended to a message or   *)
(* to the cleanup.                                                          *)
Ends(r, s) ==
  /\ r.status # "none" /\ s.status # "none" /\ ~InWork(s)
  /\ s.generation >= r.generation /\ s.estimate = r.estimate
  /\ s.extract \in Pending => r.extract \in Pending /\ s.error = r.error
  /\ s.extract = "ready" => r.extract = "ready"
  /\ s.status \in {"staged", "formal"} => r.status \in {"staged", "formal"}
  /\ s.status = "storage_removed" => r.status = "storage_removed"

(* A job that ends while nobody holds its row keeps its invariant. *)
LEMMA EndedKeeps ==
  ASSUME Typed, Typed', NEW f \in Files, JobInv(f),
         Ends(row[f], row'[f]), lock[f] = 0, NoNewWorker(f),
         disk'.final = disk.final, disk'.sources \subseteq disk.sources,
         UNCHANGED <<epoch, submitted>>, events' >= events,
         retry'[f] = "update" => retry[f] = "update",
         f \in cleaner'.claimed \cup cleaner'.removed => row'[f].status = "cleanup_claimed",
         f \in cleaner'.removed => f \in cleaner.removed /\ f \notin cleaner'.claimed
  PROVE  JobInv(f)'
<1>. USE DEF Typed
<1>0. row[f] \in Row /\ row'[f] \in Row /\ epoch[f] \in Nat
  OBVIOUS
<1>1. ~InWork(row'[f])
  BY DEF Ends
<1>2. ASSUME NEW v \in workers', v.file = f PROVE WorkerInv(v)'
  <2>1. v \in workers /\ WorkerInv(v) /\ v \in Worker
    BY <1>2 DEF NoNewWorker, JobInv
  <2>2. v.gen \in Nat /\ row[f].generation \in Nat /\ row'[f].generation \in Nat
    BY <1>0, <2>1 DEF Worker, Row
  <2>3. v.pc \notin {"promote", "commit"}
    BY <1>2, <2>1, <2>2 DEF WorkerInv
  <2>4. ~Owned(v)' /\ ~InDoubt(f)' /\ Closed(f)'
    BY <1>1, <1>2 DEF Owned, InDoubt, Closed
  <2>5. row'[f].generation >= row[f].generation /\ row'[f].status # "none"
    BY DEF Ends
  <2>. QED
    BY <1>2, <2>1, <2>2, <2>3, <2>4, <2>5 DEF WorkerInv
<1>3. ASSUME NEW v \in workers', NEW w \in workers', v.file = f, w.file = f
      PROVE  PairInv(v, w)'
  <2>1. v \in workers /\ w \in workers /\ PairInv(v, w)
    BY <1>3 DEF NoNewWorker, JobInv
  <2>2. ~InDoubt(f)'
    BY <1>1 DEF InDoubt
  <2>. QED
    BY <1>3, <2>1, <2>2 DEF PairInv
<1>4. SubmitInv(f)'
  BY <1>1 DEF JobInv, SubmitInv, Ends, Closed, Mark
<1>5. TextInv(f)'
  BY DEF JobInv, TextInv, Ends
<1>6. EventInv(f)'
  BY <1>0 DEF JobInv, EventInv
<1>. QED
  BY <1>2, <1>3, <1>4, <1>5, <1>6 DEF JobInv

(* The worker w of a job becomes v. *)
Becomes(w, v) ==
  /\ v.file = w.file /\ v.gen = w.gen /\ v.epoch = w.epoch
  /\ \A u \in workers' : u.file = w.file => u = v \/ (u \in workers /\ u # w)

(* A worker that goes on without touching the row, or gives its lock back: in *)
(* doubt only to an end of the job, or back from a refused submission.      *)
LEMMA MovedKeeps ==
  ASSUME Typed, Typed', NEW f \in Files, JobInv(f),
         NEW w \in workers, NEW v \in Worker, w.file = f, Becomes(w, v),
         v.pc \notin {"start", "promote", "commit"},
         w.pc \in {"start", "record", "retry", "fail"} =>
           v.pc = "fail" \/ (w.pc = "start" /\ v.pc = "retry"),
         Facts(row'[f]) = Facts(row[f]), epoch'[f] = epoch[f], SameMarks(f), Around(f),
         lock'[f] = lock[f] \/ lock[f] = w.gen
  PROVE  JobInv(f)'
<1>. USE DEF Typed
<1>1. /\ row'[f].status = row[f].status /\ row'[f].extract = row[f].extract
      /\ row'[f].error = row[f].error /\ row'[f].task = row[f].task
      /\ row'[f].generation = row[f].generation /\ row'[f].estimate = row[f].estimate
  BY DEF Facts
<1>2. epoch[f] \in Nat
  OBVIOUS
<1>3. Mark(f)' \in submitted' <=> Mark(f) \in submitted
  BY <1>2 DEF SameMarks, Mark
<1>4. (Closed(f)' <=> Closed(f)) /\ (InDoubt(f)' <=> InDoubt(f))
  BY <1>1 DEF Closed, InDoubt, InWork
<1>5. WorkerInv(w) /\ (Owned(v)' <=> Owned(w)) /\ v.file = f
  BY <1>1 DEF JobInv, Becomes, Owned, InWork
<1>6. WorkerInv(v)'
  BY <1>1, <1>3, <1>4, <1>5 DEF WorkerInv, Becomes
<1>7. ASSUME NEW u \in workers, u # w, u.file = f
      PROVE  WorkerInv(u)' /\ PairInv(u, v)' /\ PairInv(v, u)'
  <2>1. WorkerInv(u) /\ PairInv(u, w) /\ PairInv(w, u) /\ u \in Worker
    BY <1>7 DEF JobInv
  <2>2. u.epoch \in Nat
    BY <2>1 DEF Worker
  <2>3. <<f, u.epoch>> \in submitted' <=> <<f, u.epoch>> \in submitted
    BY <2>2 DEF SameMarks
  <2>4. Owned(u)' <=> Owned(u)
    BY <1>1, <1>7 DEF Owned, InWork
  <2>5. disk'.final[f] = disk.final[f]
    BY DEF Around
  <2>6. u.pc \in {"promote", "commit"} => lock'[f] = u.gen
    BY <1>7, <2>1 DEF WorkerInv, PairInv
  <2>7. WorkerInv(u)'
    BY <1>1, <1>3, <1>4, <1>7, <2>1, <2>3, <2>4, <2>5, <2>6 DEF WorkerInv
  <2>8. PairInv(u, v)'
    BY <1>4, <1>5, <1>7, <2>1, <2>4 DEF PairInv, Becomes
  <2>9. PairInv(v, u)'
    BY <1>4, <1>5, <1>7, <2>1 DEF PairInv, Becomes, WorkerInv
  <2>. QED
    BY <2>7, <2>8, <2>9
<1>8. ASSUME NEW t \in workers, NEW u \in workers, t.file = f, u.file = f
      PROVE  PairInv(t, u)'
  <2>1. PairInv(t, u) /\ (Owned(t)' <=> Owned(t))
    BY <1>1, <1>8 DEF JobInv, Owned, InWork
  <2>. QED
    BY <1>4, <1>8, <2>1 DEF PairInv
<1>9. PairInv(v, v)'
  BY DEF PairInv
<1>10. SubmitInv(f)'
  BY <1>1, <1>3, <1>4 DEF JobInv, SubmitInv, SameMarks
<1>11. TextInv(f)'
  BY <1>1 DEF JobInv, TextInv, Around
<1>12. EventInv(f)'
  BY DEF JobInv, EventInv, Around
<1>. QED
  BY <1>6, <1>7, <1>8, <1>9, <1>10, <1>11, <1>12 DEF JobInv, Becomes

(* The worker that owns its job is the only one: no other completes it or     *)
(* answers for its receipt.                                                 *)
LEMMA SoleOwner ==
  ASSUME Typed, NEW f \in Files, JobInv(f),
         NEW w \in workers, w.file = f, Owned(w),
         NEW u \in workers, u.file = f, u # w
  PROVE  ~Owned(u) /\ u.pc \notin {"promote", "commit"} /\ u.gen # row[f].generation
<1>1. WorkerInv(u) /\ PairInv(u, w)
  BY DEF JobInv
<1>2. w.gen = row[f].generation
  BY DEF Owned
<1>3. u.gen # row[f].generation
  BY <1>1, <1>2 DEF PairInv
<1>4. ~Owned(u)
  BY <1>3 DEF Owned
<1>. QED
  BY <1>1, <1>3, <1>4 DEF WorkerInv

(* The owner changes its job. *)
LEMMA OwnerKeeps ==
  ASSUME Typed, Typed', NEW f \in Files, JobInv(f),
         NEW w \in workers, NEW v \in Worker, w.file = f, Becomes(w, v), Owned(w),
         row'[f].generation = row[f].generation, row'[f].status = row[f].status,
         UNCHANGED <<epoch, submitted>>,
         WorkerInv(v)', SubmitInv(f)', TextInv(f)', EventInv(f)',
         \A u \in workers : u.file = f /\ u # w /\ u.pc = "start" /\ u.epoch = epoch[f] =>
           Closed(f)' /\ v.pc # "start" /\ ~(InDoubt(f)' /\ v.pc = "retry")
  PROVE  JobInv(f)'
<1>. USE DEF Typed
<1>1. ASSUME NEW u \in workers, u # w, u.file = f
      PROVE  WorkerInv(u)' /\ PairInv(u, v)' /\ PairInv(v, u)' /\ ~Owned(u)'
  <2>1. /\ WorkerInv(u) /\ PairInv(u, w) /\ PairInv(w, u)
        /\ u.pc \notin {"promote", "commit"} /\ u.gen # row[f].generation
    BY <1>1, SoleOwner DEF JobInv
  <2>2. ~Owned(u)'
    BY <1>1, <2>1 DEF Owned
  <2>3. WorkerInv(u)'
    BY <1>1, <2>1, <2>2 DEF WorkerInv
  <2>4. v.epoch = epoch[f] /\ v.gen # u.gen /\ v.file = f
    BY <1>1, <2>1 DEF JobInv, WorkerInv, PairInv, Owned, Becomes
  <2>5. PairInv(u, v)'
    BY <1>1, <2>2, <2>4 DEF PairInv
  <2>6. PairInv(v, u)'
    BY <1>1, <2>4 DEF PairInv
  <2>. QED
    BY <2>2, <2>3, <2>5, <2>6
<1>2. ASSUME NEW t \in workers, NEW u \in workers, t.file = f, u.file = f, t # w, u # w
      PROVE  PairInv(t, u)'
  <2>1. PairInv(t, u) /\ ~Owned(t)'
    BY <1>1, <1>2 DEF JobInv
  <2>. QED
    BY <1>2, <2>1 DEF PairInv
<1>3. PairInv(v, v)'
  BY DEF PairInv
<1>. QED
  BY <1>1, <1>2, <1>3 DEF JobInv, Becomes

(* ReserveOCRSubmission: the receipt closes the job. *)
LEMMA ReserveKeeps ==
  ASSUME Typed, Typed', NEW f \in Files, JobInv(f),
         NEW w \in workers, w.file = f, Owned(w), ~Closed(f), lock' = lock,
         UNCHANGED <<epoch, submitted>>, Around(f),
         row' = [row EXCEPT ![f].error = "submission_started", ![f].started = TRUE],
         NEW v \in Worker, Becomes(w, v), v.pc = "start"
  PROVE  JobInv(f)'
<1>. USE DEF Typed
<1>1. /\ row'[f].status = row[f].status /\ row'[f].extract = row[f].extract
      /\ row'[f].error = "submission_started" /\ row'[f].task = row[f].task
      /\ row'[f].generation = row[f].generation /\ row'[f].estimate = row[f].estimate
  <2>1. PICK r \in Row : r = row[f]
    OBVIOUS
  <2>2. row'[f] = [r EXCEPT !.error = "submission_started", !.started = TRUE]
    BY <2>1
  <2>. QED
    BY <2>1, <2>2 DEF Row
<1>2. WorkerInv(w) /\ v.epoch = epoch[f] /\ v.gen = row[f].generation /\ v.file = f
  BY DEF JobInv, WorkerInv, Owned, Becomes
<1>3. Mark(f) \notin submitted /\ Closed(f)'
  BY <1>1 DEF JobInv, SubmitInv, Closed
<1>4. WorkerInv(v)'
  <2>1. w.gen = v.gen /\ row'[f].status = row[f].status
    BY <1>1 DEF Becomes
  <2>. QED
    BY <1>1, <1>2, <1>3, <2>1 DEF WorkerInv, Mark
<1>5. SubmitInv(f)'
  BY <1>1, <1>3 DEF JobInv, SubmitInv, Mark
<1>6. TextInv(f)' /\ EventInv(f)'
  BY <1>1 DEF JobInv, TextInv, EventInv, Around
<1>7. \A u \in workers : u.file = f /\ u.pc = "start" => u.epoch # epoch[f]
  BY DEF JobInv, WorkerInv
<1>. QED
  BY <1>1, <1>4, <1>5, <1>6, <1>7, OwnerKeeps

(* StartMinerUOCR: the job may be submitted now. *)
LEMMA SubmittedKeeps ==
  ASSUME Typed, Typed', NEW f \in Files, JobInv(f),
         NEW w \in workers, w.file = f, w.pc = "start",
         UNCHANGED <<row, disk, lock, epoch, cleaner, retry>>, events' >= events,
         submitted' = submitted \cup {<<f, w.epoch>>},
         NEW v \in Worker, Becomes(w, v), v.pc \in {"record", "fail"}
  PROVE  JobInv(f)'
<1>. USE DEF Typed
<1>1. WorkerInv(w) /\ v.file = f
  BY DEF JobInv, Becomes
<1>2. /\ Owned(v)' <=> Owned(w)
      /\ InDoubt(f)' <=> InDoubt(f)
      /\ Closed(f)' <=> Closed(f)
  BY <1>1 DEF Becomes, Owned, InDoubt, Closed
<1>3. WorkerInv(v)'
  BY <1>1, <1>2 DEF WorkerInv, Becomes
<1>4. ASSUME NEW u \in workers, u # w, u.file = f
      PROVE  WorkerInv(u)' /\ PairInv(u, v)' /\ PairInv(v, u)'
  <2>1. WorkerInv(u) /\ PairInv(u, w) /\ PairInv(w, u) /\ (Owned(u)' <=> Owned(u))
    BY <1>4 DEF JobInv, Owned
  <2>2. u.pc = "start" => <<f, u.epoch>> \notin submitted'
    BY <1>4, <2>1 DEF WorkerInv, PairInv
  <2>3. InDoubt(f) /\ Owned(u) /\ u.pc \in {"start", "retry"} => Mark(f)' \notin submitted'
    BY <1>4, <2>1 DEF WorkerInv, PairInv, Mark
  <2>4. WorkerInv(u)'
    BY <1>2, <1>4, <2>1, <2>2, <2>3 DEF WorkerInv
  <2>5. PairInv(u, v)' /\ PairInv(v, u)'
    BY <1>2, <1>4, <2>1 DEF PairInv, Becomes
  <2>. QED
    BY <2>4, <2>5
<1>5. ASSUME NEW t \in workers, NEW u \in workers, t.file = f, u.file = f
      PROVE  PairInv(t, u)'
  <2>1. PairInv(t, u) /\ (Owned(t)' <=> Owned(t))
    BY <1>5 DEF JobInv, Owned
  <2>. QED
    BY <1>2, <1>5, <2>1 DEF PairInv
<1>6. PairInv(v, v)'
  BY DEF PairInv
<1>7. SubmitInv(f)'
  BY <1>1, <1>2 DEF JobInv, SubmitInv, WorkerInv, Mark
<1>8. TextInv(f)' /\ EventInv(f)'
  BY DEF JobInv, TextInv, EventInv
<1>. QED
  BY <1>3, <1>4, <1>5, <1>6, <1>7, <1>8 DEF JobInv, Becomes

(* StartOCRTask: the job has its task, or the worker will end it. *)
LEMMA RecordKeeps ==
  ASSUME Typed, Typed', NEW f \in Files, JobInv(f),
         NEW w \in workers, w.file = f, Owned(w),
         UNCHANGED <<disk, lock, epoch, submitted, cleaner, retry>>, events' >= events,
         row' = [row EXCEPT ![f].task = TRUE, ![f].error = "none",
                            ![f].extract = "ocr_running"],
         NEW v \in Worker, Becomes(w, v), v.pc \in {"release", "fail"}
  PROVE  JobInv(f)'
<1>. USE DEF Typed
<1>1. /\ row'[f].status = row[f].status /\ row'[f].extract = "ocr_running"
      /\ row'[f].error = "none" /\ row'[f].task = TRUE
      /\ row'[f].generation = row[f].generation /\ row'[f].estimate = row[f].estimate
  <2>1. PICK r \in Row : r = row[f]
    OBVIOUS
  <2>2. row'[f] = [r EXCEPT !.task = TRUE, !.error = "none", !.extract = "ocr_running"]
    BY <2>1
  <2>. QED
    BY <2>1, <2>2 DEF Row
<1>2. WorkerInv(w) /\ v.gen = w.gen /\ v.epoch = w.epoch /\ v.file = f
  BY DEF JobInv, Becomes
<1>3. Closed(f)' /\ ~InDoubt(f)' /\ row[f].status = "staged"
  BY <1>1 DEF Closed, InDoubt, Owned, InWork
<1>4. WorkerInv(v)'
  BY <1>1, <1>2, <1>3 DEF WorkerInv
<1>5. SubmitInv(f)'
  BY <1>1, <1>3 DEF JobInv, SubmitInv, Pending
<1>6. TextInv(f)' /\ EventInv(f)'
  BY <1>1, <1>3 DEF JobInv, TextInv, EventInv
<1>. QED
  BY <1>1, <1>3, <1>4, <1>5, <1>6, OwnerKeeps

(* ReleaseOCRLease and scheduleOCRRetry hand a job back without a receipt:    *)
(* there was none, or it belonged to this worker and MinerU had not answered. *)
LEMMA ReleasedKeeps ==
  ASSUME Typed, Typed', NEW f \in Files, JobInv(f),
         NEW w \in workers, w.file = f, Owned(w), w.pc \in {"release", "retry"},
         UNCHANGED <<epoch, submitted, lock>>, Around(f),
         row' = [row EXCEPT ![f] = ReleasedRow(w)], workers' = workers \ {w}
  PROVE  JobInv(f)'
<1>. USE DEF Typed
<1>0. w \in Worker
  OBVIOUS
<1>1. /\ row'[f].status = row[f].status /\ row'[f].extract = row[f].extract
      /\ row'[f].error = "none" /\ row'[f].task = row[f].task
      /\ row'[f].generation = row[f].generation /\ row'[f].estimate = row[f].estimate
  <2>1. PICK r \in Row : r = row[f]
    OBVIOUS
  <2>2. row'[f] = [r EXCEPT !.lease = "none", !.error = "none"]
    BY <2>1 DEF ReleasedRow
  <2>. QED
    BY <2>1, <2>2, ZenonT(60) DEF Row
<1>2. row[f].status = "staged" /\ row[f].extract \in Pending
  BY DEF Owned, InWork
<1>3. CASE ~InDoubt(f)
  <2>1. row[f].error = "none"
    BY <1>2, <1>3 DEF InDoubt, InWork, JobInv, SubmitInv
  <2>2. Untouched(f)
    BY <1>1, <2>1 DEF Untouched, Facts, NoNewWorker, SameMarks
  <2>. QED
    BY <2>2, UntouchedKeeps
<1>4. CASE InDoubt(f)
  <2>1. WorkerInv(w) /\ w.pc = "retry" /\ Mark(f) \notin submitted
    BY <1>4 DEF JobInv, WorkerInv
  <2>2. PICK v \in Worker : v = [w EXCEPT !.pc = "clear"]
    BY <1>0 DEF Worker
  <2>3. v.file = f /\ v.gen = w.gen /\ v.epoch = w.epoch /\ v.pc = "clear"
    BY <1>0, <2>2 DEF Worker
  <2>4. Becomes(w, v)
    BY <2>3 DEF Becomes
  <2>5. ~InDoubt(f)' /\ Mark(f)' \notin submitted'
    BY <1>1, <2>1 DEF InDoubt, Mark
  <2>6. WorkerInv(v)'
    BY <1>1, <2>1, <2>3, <2>5 DEF WorkerInv
  <2>7. SubmitInv(f)'
    BY <1>1, <2>5 DEF JobInv, SubmitInv
  <2>8. TextInv(f)' /\ EventInv(f)'
    BY <1>1 DEF JobInv, TextInv, EventInv, Around
  <2>9. \A u \in workers : u.file = f /\ u # w /\ u.pc = "start" => u.epoch # epoch[f]
    BY <1>4, <2>1 DEF JobInv, PairInv
  <2>. QED
    BY <1>1, <2>3, <2>4, <2>6, <2>7, <2>8, <2>9, OwnerKeeps
<1>. QED
  BY <1>3, <1>4

(* CompleteOCRClaim takes the lock of the row, and later renames the text.    *)
LEMMA CompletingKeeps ==
  ASSUME Typed, Typed', NEW f \in Files, JobInv(f),
         NEW w \in workers, w.file = f, Owned(w),
         UNCHANGED <<row, epoch, submitted, cleaner, retry>>, events' >= events,
         disk'.sources = disk.sources, lock'[f] = w.gen,
         NEW v \in Worker, Becomes(w, v),
         \/ w.pc = "lock" /\ v.pc = "promote"
         \/ w.pc = "promote" /\ v.pc = "commit" /\ disk'.final[f] = w.gen
  PROVE  JobInv(f)'
<1>. USE DEF Typed
<1>1. WorkerInv(w) /\ v.gen = w.gen /\ v.epoch = w.epoch /\ v.file = f
  BY DEF JobInv, Becomes
<1>2. row[f].status = "staged" /\ row[f].extract \in Pending /\ ~InDoubt(f)
  BY <1>1 DEF Owned, InWork, WorkerInv
<1>3. Owned(v)' /\ ~InDoubt(f)' /\ (Closed(f)' <=> Closed(f))
  BY <1>1, <1>2 DEF Owned, InDoubt, Closed
<1>4. WorkerInv(v)'
  BY <1>1, <1>3 DEF WorkerInv
<1>5. SubmitInv(f)'
  BY <1>3 DEF JobInv, SubmitInv, Mark
<1>6. TextInv(f)' /\ EventInv(f)'
  BY <1>2 DEF JobInv, TextInv, EventInv, Pending
<1>7. \A u \in workers : u.file = f /\ u.pc = "start" /\ u.epoch = epoch[f] => Closed(f)'
  BY <1>3 DEF JobInv, WorkerInv
<1>. QED
  BY <1>3, <1>4, <1>5, <1>6, <1>7, OwnerKeeps

(* The commit of CompleteOCRClaim: the row describes the text on disk. *)
LEMMA CompletedKeeps ==
  ASSUME Typed, Typed', NEW f \in Files, JobInv(f),
         NEW w \in workers, w.file = f, w.pc = "commit",
         UNCHANGED <<epoch, submitted, cleaner, retry>>, events' >= events,
         disk'.sources = disk.sources, disk'.final = disk.final,
         row' = [row EXCEPT ![f] = Completed(w)],
         NEW v \in Worker, Becomes(w, v), v.pc \in {"source", "clear"}
  PROVE  JobInv(f)'
<1>. USE DEF Typed
<1>0. w \in Worker /\ w.gen \in Nat
  BY DEF Worker
<1>1. /\ row'[f].status = row[f].status /\ row'[f].extract = "ready"
      /\ row'[f].generation = row[f].generation /\ row'[f].estimate = w.gen
  <2>1. PICK r \in Row : r = row[f]
    OBVIOUS
  <2>2. row'[f] = [r EXCEPT !.extract = "ready", !.error = "none", !.lease = "none",
                            !.estimate = w.gen]
    BY <2>1 DEF Completed
  <2>. QED
    BY <2>1, <2>2, ZenonT(60) DEF Row
<1>2. WorkerInv(w) /\ Owned(w) /\ disk.final[f] = w.gen /\ 0 < w.gen
  BY DEF JobInv, WorkerInv
<1>3. v.gen = w.gen /\ v.epoch = w.epoch /\ v.file = f /\ row[f].status = "staged"
  BY <1>2 DEF Becomes, Owned, InWork
<1>4. Closed(f)' /\ ~InDoubt(f)'
  BY <1>1 DEF Closed, InDoubt, InWork, Pending
<1>5. WorkerInv(v)'
  BY <1>1, <1>2, <1>3, <1>4 DEF WorkerInv
<1>6. SubmitInv(f)'
  BY <1>1, <1>3, <1>4 DEF JobInv, SubmitInv, Pending
<1>7. TextInv(f)' /\ EventInv(f)'
  BY <1>1, <1>2, <1>3 DEF JobInv, TextInv, EventInv
<1>. QED
  BY <1>1, <1>2, <1>3, <1>4, <1>5, <1>6, <1>7, OwnerKeeps

(* ClaimRecoverableOCRTasks: a new generation, with a worker of its own. *)
LEMMA ClaimedKeeps ==
  ASSUME Typed, Typed', NEW f \in Files, JobInv(f), lock[f] = 0, Claimable(row[f]),
         UNCHANGED <<disk, lock, epoch, submitted, cleaner, retry, events>>,
         row'[f] = Claimed(row[f]),
         NEW n, n = [file |-> f, gen |-> Claimed(row[f]).generation, task |-> row[f].task,
                     attempts |-> 0, epoch |-> epoch[f], pc |-> "process"],
         \A v \in workers' : v.file = f => v = n \/ v \in workers
  PROVE  JobInv(f)'
<1>. USE DEF Typed
<1>1. /\ row'[f].status = row[f].status /\ row'[f].extract = row[f].extract
      /\ row'[f].error = row[f].error /\ row'[f].task = row[f].task
      /\ row'[f].generation = row[f].generation + 1 /\ row'[f].estimate = row[f].estimate
      /\ row[f].generation \in Nat
  <2>1. PICK r \in Row : r = row[f]
    OBVIOUS
  <2>2. PICK g \in Nat : g = r.generation + 1
    BY DEF Row
  <2>3. row'[f] = [r EXCEPT !.lease = "live", !.generation = g]
    BY <2>1, <2>2 DEF Claimed
  <2>. QED
    BY <2>1, <2>2, <2>3 DEF Row
<1>2. n.file = f /\ n.gen = row[f].generation + 1 /\ n.epoch = epoch[f] /\ n.pc = "process"
  BY <1>1
<1>3. ~InDoubt(f)' /\ (Closed(f)' <=> Closed(f)) /\ row[f].status = "staged"
  BY <1>1 DEF Closed, InDoubt, InWork, Claimable
<1>4. WorkerInv(n)'
  BY <1>1, <1>2, <1>3 DEF WorkerInv
<1>5. ASSUME NEW v \in workers, v.file = f
      PROVE  WorkerInv(v)' /\ v.gen # n.gen /\ v.gen \in Nat
  <2>1. WorkerInv(v) /\ v.gen \in Nat /\ v.gen # n.gen
    BY <1>1, <1>2, <1>5 DEF JobInv, Worker, WorkerInv
  <2>2. WorkerInv(v)'
    BY <1>1, <1>2, <1>3, <1>5, <2>1 DEF WorkerInv, Owned
  <2>. QED
    BY <2>1, <2>2
<1>6. ASSUME NEW v \in workers', NEW w \in workers', v.file = f, w.file = f
      PROVE  PairInv(v, w)'
  <2>1. v \in workers /\ w \in workers => PairInv(v, w)
    BY <1>6 DEF JobInv
  <2>. QED
    BY <1>2, <1>3, <1>5, <1>6, <2>1 DEF PairInv
<1>7. SubmitInv(f)'
  BY <1>1, <1>3 DEF JobInv, SubmitInv, Mark
<1>8. TextInv(f)' /\ EventInv(f)'
  BY <1>1 DEF JobInv, TextInv, EventInv
<1>. QED
  BY <1>2, <1>4, <1>5, <1>6, <1>7, <1>8 DEF JobInv

(* RetryOCRFileHandler restarts a job: a new generation in a new epoch. *)
LEMMA RestartedKeeps ==
  ASSUME Typed, Typed', NEW f \in Files, JobInv(f), lock[f] = 0,
         row[f].status = "staged", retry[f] = "update", retry'[f] = "stat",
         UNCHANGED <<disk, lock, workers, submitted, cleaner, events>>,
         row' = [row EXCEPT ![f] = Restarted(@)], epoch' = [epoch EXCEPT ![f] = @ + 1]
  PROVE  JobInv(f)'
<1>. USE DEF Typed
<1>1. /\ row'[f].status = "staged" /\ row'[f].extract = "ocr_pending"
      /\ row'[f].error = "none" /\ row'[f].task = FALSE
      /\ row'[f].generation = row[f].generation + 1 /\ row'[f].estimate = row[f].estimate
      /\ row[f].generation \in Nat
  <2>1. PICK r \in Row : r = row[f]
    OBVIOUS
  <2>2. PICK g \in Nat : g = r.generation + 1
    BY DEF Row
  <2>3. PICK q \in Row : q = [r EXCEPT !.generation = g, !.lease = "none"]
    BY DEF Row
  <2>4. PICK p \in Row : p = [q EXCEPT !.extract = "ocr_pending", !.error = "none"]
    BY ZenonT(60) DEF Row, Pending
  <2>5. row'[f] = [p EXCEPT !.task = FALSE, !.attempts = 0]
    BY <2>1, <2>2, <2>3, <2>4 DEF Restarted, Fenced
  <2>6. p.status = "staged" /\ p.extract = "ocr_pending" /\ p.error = "none"
        /\ p.generation = g /\ p.estimate = r.estimate
    BY <2>1, <2>3, <2>4 DEF Row
  <2>7. /\ row'[f].status = p.status /\ row'[f].extract = p.extract
        /\ row'[f].error = p.error /\ row'[f].task = FALSE
        /\ row'[f].generation = p.generation /\ row'[f].estimate = p.estimate
    BY <2>5, ZenonT(60) DEF Row
  <2>8. r.generation \in Nat
    BY DEF Row
  <2>. QED
    BY <2>1, <2>2, <2>6, <2>7, <2>8
<1>2. epoch[f] \in Nat /\ epoch'[f] = epoch[f] + 1
  OBVIOUS
<1>3. ~InDoubt(f)' /\ Mark(f)' \notin submitted'
  BY <1>1, <1>2 DEF InDoubt, Mark, JobInv, SubmitInv
<1>4. ASSUME NEW v \in workers, v.file = f PROVE WorkerInv(v)'
  <2>1. WorkerInv(v) /\ v.gen \in Nat /\ v.epoch \in Nat
    BY <1>4 DEF JobInv, Worker
  <2>. QED
    BY <1>1, <1>2, <1>3, <1>4, <2>1 DEF WorkerInv
<1>5. ASSUME NEW v \in workers, NEW w \in workers, v.file = f, w.file = f
      PROVE  PairInv(v, w)'
  BY <1>3, <1>5 DEF JobInv, PairInv
<1>6. SubmitInv(f)'
  BY <1>1, <1>2, <1>3 DEF JobInv, SubmitInv, Pending
<1>7. TextInv(f)'
  BY <1>1 DEF JobInv, TextInv
<1>8. EventInv(f)'
  BY <1>2 DEF JobInv, EventInv
<1>. QED
  BY <1>4, <1>5, <1>6, <1>7, <1>8 DEF JobInv

(* queueMinerUOCR: a row nobody has worked on yet. *)
LEMMA QueuedKeeps ==
  ASSUME Typed, Typed', NEW f \in Files, JobInv(f), row[f].status = "none",
         UNCHANGED <<lock, workers, epoch, submitted, cleaner, retry, events>>,
         row' = [row EXCEPT ![f].status = "staged"]
  PROVE  JobInv(f)'
<1>. USE DEF Typed
<1>1. /\ row'[f].status = "staged" /\ row'[f].extract = row[f].extract
      /\ row'[f].error = row[f].error
  <2>1. PICK r \in Row : r = row[f]
    OBVIOUS
  <2>2. row'[f] = [r EXCEPT !.status = "staged"]
    BY <2>1
  <2>. QED
    BY <2>1, <2>2 DEF Row
<1>2. \A v \in workers : v.file # f
  BY DEF JobInv, WorkerInv
<1>3. row[f].extract \in Pending /\ \A e \in Nat : <<f, e>> \notin submitted
  BY DEF JobInv, SubmitInv
<1>4. SubmitInv(f)'
  BY <1>1, <1>3 DEF JobInv, SubmitInv, Mark
<1>5. TextInv(f)'
  BY <1>1, <1>3 DEF JobInv, TextInv, Pending
<1>6. EventInv(f)'
  BY DEF JobInv, EventInv
<1>. QED
  BY <1>2, <1>4, <1>5, <1>6 DEF JobInv

(* The cleanup removes the bytes of a file it claimed, and then the row's     *)
(* claim to them.                                                           *)
LEMMA RemovedKeeps ==
  ASSUME Typed, Typed', NEW f \in Files, JobInv(f),
         UNCHANGED <<lock, workers, epoch, submitted, retry>>, events' >= events,
         row'[f].extract = row[f].extract, row'[f].error = row[f].error,
         row'[f].task = row[f].task, row'[f].generation = row[f].generation,
         row[f].status = "cleanup_claimed",
         disk'.final[f] = 0, f \notin disk'.sources, f \notin cleaner'.claimed,
         \/ row'[f].status = "cleanup_claimed"
         \/ row'[f].status = "storage_removed" /\ f \notin cleaner'.removed
  PROVE  JobInv(f)'
<1>. USE DEF Typed
<1>1. ~InWork(row[f]) /\ ~InWork(row'[f])
  BY DEF InWork
<1>2. ~InDoubt(f)' /\ Closed(f)' /\ \A v \in workers : v.file = f => ~Owned(v) /\ ~Owned(v)'
  BY <1>1 DEF InDoubt, Closed, Owned
<1>3. ASSUME NEW v \in workers, v.file = f PROVE WorkerInv(v)'
  <2>1. WorkerInv(v) /\ ~Owned(v) /\ ~Owned(v)'
    BY <1>2, <1>3 DEF JobInv
  <2>. QED
    BY <1>2, <1>3, <2>1 DEF WorkerInv
<1>4. ASSUME NEW v \in workers, NEW w \in workers, v.file = f, w.file = f
      PROVE  PairInv(v, w)'
  BY <1>2, <1>4 DEF JobInv, PairInv
<1>5. SubmitInv(f)'
  BY <1>2 DEF JobInv, SubmitInv, Mark
<1>6. TextInv(f)' /\ EventInv(f)'
  BY DEF JobInv, TextInv, EventInv
<1>. QED
  BY <1>3, <1>4, <1>5, <1>6 DEF JobInv

-----------------------------------------------------------------------------
(* The steps of a worker *)

(* A worker touches nothing but its own file. *)
LEMMA WorkerAround ==
  ASSUME Typed, NEW w \in workers, WorkerStep(w)
  PROVE  /\ \A g \in Files : g # w.file =>
              /\ row'[g] = row[g] /\ lock'[g] = lock[g]
              /\ disk'.final[g] = disk.final[g]
              /\ \A e \in Nat : <<g, e>> \in submitted' <=> <<g, e>> \in submitted
         /\ w.pc # "promote" => disk'.final = disk.final
         /\ disk'.sources \subseteq disk.sources
         /\ \A v \in workers' : v \in workers \/ v.file = w.file
         /\ w.pc # "start" => submitted' = submitted
<1>. USE DEF Typed
<1>0. w \in Worker /\ w.file \in Files
  BY DEF Worker
<1>1. \/ row' = row
      \/ \E r : row' = [row EXCEPT ![w.file] = r]
  <2>1. CASE Reserve(w) \/ Record(w) \/ RecordAttempt(w)
    BY <2>1, SMTT(30) DEF Reserve, Record, RecordAttempt
  <2>2. CASE ~(Reserve(w) \/ Record(w) \/ RecordAttempt(w))
    BY <2>2 DEF WorkerStep, Process, Inspect, Start, Poll, Release, Fail, Retry,
       WriteAndReturn, WriteTemp, LockCompletion, Promote, CommitCompletion, RemoveSource,
       ClearSource, GiveUp
  <2>. QED
    BY <2>1, <2>2
<1>2. lock' \in {lock, [lock EXCEPT ![w.file] = w.gen], [lock EXCEPT ![w.file] = 0]}
  BY DEF WorkerStep, Process, RecordAttempt, Inspect, Reserve, Start, Record, Poll,
     Release, Fail, Retry, WriteTemp, LockCompletion, Unlock, Promote, CommitCompletion,
     RemoveSource, ClearSource, GiveUp, Rest
<1>3. /\ submitted' \in {submitted, submitted \cup {<<w.file, w.epoch>>}}
      /\ w.pc # "start" => submitted' = submitted
  BY DEF WorkerStep, Process, RecordAttempt, Inspect, Reserve, Start, Record, Poll,
     Release, Fail, Retry, WriteTemp, LockCompletion, Promote, CommitCompletion,
     RemoveSource, ClearSource, GiveUp, history
<1>4. /\ disk'.sources \subseteq disk.sources
      /\ w.pc # "promote" => disk'.final = disk.final
      /\ \A g \in Files : g # w.file => disk'.final[g] = disk.final[g]
  <2>1. \/ disk' = disk
        \/ \E T : disk' = [disk EXCEPT !.temps = T]
        \/ disk' = [disk EXCEPT !.sources = @ \ {w.file}]
        \/ /\ w.pc = "promote"
           /\ disk' = [disk EXCEPT !.temps = @ \ {Temp(w)}, !.final[w.file] = w.gen]
    BY DEF WorkerStep, Process, RecordAttempt, Inspect, Reserve, Start, Record, Poll,
       Release, Fail, Retry, WriteAndReturn, Return, WriteTemp, LockCompletion, Promote,
       CommitCompletion, RemoveSource, ClearSource, GiveUp
  <2>. QED
    BY <1>0, <2>1, ZenonT(60) DEF Disk
<1>5. \A v \in workers' : v \in workers \/ v.file = w.file
  <2>1. \/ workers' = workers \ {w}
        \/ \E pc : workers' = (workers \ {w}) \cup {[w EXCEPT !.pc = pc]}
        \/ \E pc, n : workers' = (workers \ {w}) \cup {[w EXCEPT !.attempts = n, !.pc = pc]}
    <3>1. CASE RecordAttempt(w)
      BY <3>1 DEF RecordAttempt, Return
    <3>2. CASE ~RecordAttempt(w)
      BY <3>2 DEF WorkerStep, Process, Inspect, Reserve, Start, Record, Poll,
         Release, Fail, Retry, WriteAndReturn, Return, Goto, WriteTemp, LockCompletion,
         Promote, CommitCompletion, RemoveSource, ClearSource, GiveUp
    <3>. QED
      BY <3>1, <3>2
  <2>2. ASSUME NEW pc, NEW n
        PROVE  /\ [w EXCEPT !.pc = pc].file = w.file
               /\ [w EXCEPT !.attempts = n, !.pc = pc].file = w.file
    BY <1>0 DEF Worker
  <2>3. ASSUME NEW x, x.file = w.file, workers' = (workers \ {w}) \cup {x}
        PROVE  \A v \in workers' : v \in workers \/ v.file = w.file
    BY <2>3
  <2>. QED
    BY <2>1, <2>2, <2>3
<1>. QED
  BY <1>0, <1>1, <1>2, <1>3, <1>4, <1>5

(* Going on, and what is left when a worker has returned. *)
LEMMA GoingOn ==
  ASSUME Typed, NEW w \in workers,
         NEW pc \in {"inspect", "reserve", "start", "record", "poll", "attempt",
                     "pollAttempt", "write", "lock", "promote", "commit", "source",
                     "clear", "retry", "release", "fail"},
         Goto(w, pc) \/ Return(w)
  PROVE  \E v \in Worker : v.pc = pc /\ Becomes(w, v)
<1>0. w \in Worker
  BY DEF Typed
<1>1. PICK v \in Worker : v = [w EXCEPT !.pc = pc]
  BY <1>0 DEF Worker
<1>2. v.file = w.file /\ v.gen = w.gen /\ v.epoch = w.epoch /\ v.pc = pc
  BY <1>0, <1>1 DEF Worker
<1>3. workers' \subseteq (workers \ {w}) \cup {v}
  BY <1>1 DEF Goto, Return
<1>. QED
  BY <1>2, <1>3 DEF Becomes

(* A job whose worker takes a step keeps its invariant. *)
LEMMA WorkerKeeps ==
  ASSUME Typed, Typed', NEW w \in workers, WorkerStep(w), NEW f \in Files, JobInv(f)
  PROVE  JobInv(f)'
<1>. USE DEF Typed
<1>0. w \in Worker /\ w.file \in Files
  BY DEF Worker
<1>1. /\ UNCHANGED <<retry, cleaner, epoch>> /\ events' >= events /\ events \in Nat
  BY WorkTyped, EventsAssumption
<1>2. CASE f # w.file
  <2>1. Untouched(f)
    BY <1>1, <1>2, WorkerAround DEF Untouched, Facts, NoNewWorker, SameMarks, Around
  <2>. QED
    BY <2>1, UntouchedKeeps
<1>3. SUFFICES ASSUME f = w.file PROVE JobInv(f)'
  BY <1>2
<1>4. WorkerInv(w)
  BY <1>3 DEF JobInv
<1>5. w.pc # "promote" => Around(f)
  BY <1>1, WorkerAround DEF Around
<1>6. w.pc # "start" => SameMarks(f)
  BY WorkerAround DEF SameMarks
(* A worker that returns, or goes on, and leaves the row as it was. *)
<1>7. ASSUME Return(w), Facts(row'[f]) = Facts(row[f]), lock' = lock,
             w.pc \notin {"start", "promote"}
      PROVE  JobInv(f)'
  <2>1. NoNewWorker(f)
    BY <1>7 DEF Return, NoNewWorker
  <2>2. Untouched(f)
    BY <1>1, <1>5, <1>6, <1>7, <2>1 DEF Untouched
  <2>. QED
    BY <2>2, UntouchedKeeps
<1>8. ASSUME NEW pc \in {"inspect", "reserve", "record", "poll", "attempt", "pollAttempt",
                         "write", "lock", "source", "clear", "retry", "release", "fail"},
             Goto(w, pc), row' = row, lock' = lock, submitted' = submitted,
             w.pc # "promote",
             w.pc \in {"start", "record", "retry", "fail"} =>
               pc = "fail" \/ (w.pc = "start" /\ pc = "retry")
      PROVE  JobInv(f)'
  <2>1. PICK v \in Worker : v.pc = pc /\ Becomes(w, v)
    BY <1>8, GoingOn
  <2>2. SameMarks(f) /\ Around(f)
    BY <1>5, <1>8 DEF SameMarks
  <2>. QED
    BY <1>1, <1>3, <1>8, <2>1, <2>2, MovedKeeps
<1>9. CASE Process(w) \/ Inspect(w) \/ Poll(w) \/ WriteTemp(w) \/ RemoveSource(w)
  BY <1>8, <1>9 DEF Process, Inspect, Poll, WriteTemp, RemoveSource, Rest
<1>10. CASE RecordAttempt(w)
  <2>1. row[f] \in Row
    OBVIOUS
  <2>2. CASE Owned(w)
    <3>1. PICK n \in Nat : n = row[f].attempts + 1
      BY <2>1 DEF Row
    <3>2. PICK pc \in {"inspect", "fail", "release"} :
            /\ row' = [row EXCEPT ![f].attempts = n]
            /\ workers' = (workers \ {w}) \cup {[w EXCEPT !.attempts = n, !.pc = pc]}
      BY <1>3, <1>10, <2>2, <3>1 DEF RecordAttempt
    <3>3. Facts(row'[f]) = Facts(row[f])
      BY <2>1, <3>2 DEF Facts, Row
    <3>4. PICK v \in Worker : v = [w EXCEPT !.attempts = n, !.pc = pc]
      BY <1>0 DEF Worker
    <3>5. v.file = w.file /\ v.gen = w.gen /\ v.epoch = w.epoch /\ v.pc = pc
      BY <1>0, <3>4 DEF Worker
    <3>6. Becomes(w, v)
      BY <3>2, <3>4, <3>5 DEF Becomes
    <3>7. w.pc \in {"attempt", "pollAttempt"} /\ lock' = lock
      BY <1>10 DEF RecordAttempt, Rest
    <3>. QED
      BY <1>1, <1>3, <1>5, <1>6, <3>3, <3>5, <3>6, <3>7, MovedKeeps
  <2>3. CASE ~Owned(w)
    BY <1>7, <1>10, <2>3 DEF RecordAttempt, Rest
  <2>. QED
    BY <2>2, <2>3
<1>11. CASE Reserve(w)
  <2>1. w.pc = "reserve" /\ lock' = lock /\ submitted' = submitted /\ Around(f)
    BY <1>5, <1>11 DEF Reserve, Rest
  <2>2. CASE row' = row
    <3>1. Return(w) \/ Goto(w, "fail") \/ Goto(w, "start")
      BY <1>11 DEF Reserve
    <3>2. ASSUME row' # [row EXCEPT ![f].error = "submission_started", ![f].started = TRUE]
          PROVE  JobInv(f)'
      <4>1. Return(w) \/ Goto(w, "fail")
        BY <1>3, <1>11, <3>2 DEF Reserve
      <4>. QED
        BY <1>7, <1>8, <2>1, <2>2, <4>1
    <3>3. ASSUME row' = [row EXCEPT ![f].error = "submission_started", ![f].started = TRUE]
          PROVE  JobInv(f)'
      <4>1. row[f] \in Row /\ row'[f].error = "submission_started"
        BY <3>3 DEF Row
      <4>2. Return(w) \/ Goto(w, "fail")
        BY <1>3, <1>11, <2>2, <4>1 DEF Reserve
      <4>. QED
        BY <1>7, <1>8, <2>1, <2>2, <4>2
    <3>. QED
      BY <3>2, <3>3
  <2>3. CASE row' # row
    <3>1. /\ row' = [row EXCEPT ![f].error = "submission_started", ![f].started = TRUE]
          /\ Goto(w, "start") \/ Return(w)
          /\ Owned(w) /\ ~row[f].task /\ row[f].error = "none"
      BY <1>3, <1>11, <2>3 DEF Reserve
    <3>2. ~Closed(f)
      BY <1>3, <3>1 DEF Closed, Owned
    <3>3. PICK v \in Worker : v.pc = "start" /\ Becomes(w, v)
      BY <3>1, GoingOn
    <3>. QED
      BY <1>1, <1>3, <2>1, <3>1, <3>2, <3>3, ReserveKeeps
  <2>. QED
    BY <2>2, <2>3
<1>12. CASE Start(w)
  <2>1. w.pc = "start" /\ UNCHANGED <<row, disk, lock>>
    BY <1>12 DEF Start, Rest
  <2>2. CASE submitted' = submitted
    <3>1. <<f, w.epoch>> \notin submitted
      BY <1>3, <1>4, <2>1 DEF WorkerInv
    <3>2. Goto(w, "fail") \/ Goto(w, "retry")
      BY <1>3, <1>12, <2>2, <3>1 DEF Start
    <3>. QED
      BY <1>8, <2>1, <2>2, <3>2
  <2>3. CASE submitted' # submitted
    <3>1. PICK pc \in {"record", "fail"} :
            submitted' = submitted \cup {<<f, w.epoch>>} /\ Goto(w, pc)
      BY <1>3, <1>12, <2>3 DEF Start
    <3>2. PICK v \in Worker : v.pc = pc /\ Becomes(w, v)
      BY <3>1, GoingOn
    <3>. QED
      BY <1>1, <1>3, <2>1, <3>1, <3>2, SubmittedKeeps
  <2>. QED
    BY <2>2, <2>3
<1>13. CASE Record(w)
  <2>1. w.pc = "record" /\ lock' = lock /\ submitted' = submitted
    BY <1>13 DEF Record, Rest
  <2>2. \/ Return(w) /\ row' = row
        \/ Goto(w, "fail") /\ row' = row
        \/ \E pc \in {"release", "fail"} :
             /\ Owned(w) /\ Goto(w, pc) /\ UNCHANGED disk
             /\ row' = [row EXCEPT ![f].task = TRUE, ![f].error = "none",
                                   ![f].extract = "ocr_running"]
    BY <1>3, <1>13 DEF Record
  <2>3. ASSUME NEW pc \in {"release", "fail"}, Owned(w), Goto(w, pc), UNCHANGED disk,
               row' = [row EXCEPT ![f].task = TRUE, ![f].error = "none",
                                  ![f].extract = "ocr_running"]
        PROVE  JobInv(f)'
    <3>1. PICK v \in Worker : v.pc = pc /\ Becomes(w, v)
      BY <2>3, GoingOn
    <3>. QED
      BY <1>1, <1>3, <2>1, <2>3, <3>1, RecordKeeps
  <2>. QED
    BY <1>7, <1>8, <2>1, <2>2, <2>3
<1>14. CASE Release(w) \/ Fail(w) \/ Retry(w)
  <2>1. /\ w.pc \in {"release", "fail", "retry"} /\ Free(f) /\ Return(w)
        /\ lock' = lock /\ submitted' = submitted
        /\ \/ row' = row
           \/ Owned(w) /\ row' = [row EXCEPT ![f] = Failed(row[f], "other")]
           \/ /\ Owned(w) /\ w.pc # "fail"
              /\ row' = [row EXCEPT ![f] = ReleasedRow(w)]
    BY <1>3, <1>14 DEF Release, Fail, Retry, WriteAndReturn, Rest
  <2>2. workers' = workers \ {w} /\ Around(f)
    BY <1>5, <2>1 DEF Return
  <2>3. ASSUME Owned(w), row' = [row EXCEPT ![f] = Failed(row[f], "other")]
        PROVE  JobInv(f)'
    <3>1. row[f] \in Row /\ row'[f] = [row[f] EXCEPT !.extract = "failed", !.error = "other",
                                                    !.lease = "none"]
      BY <2>3 DEF Failed
    <3>2. /\ row'[f].status = row[f].status /\ row'[f].extract = "failed"
          /\ row'[f].generation = row[f].generation /\ row'[f].estimate = row[f].estimate
          /\ row[f].generation \in Nat
      BY <3>1 DEF Row
    <3>3. row[f].status = "staged"
      BY <1>3, <2>3 DEF Owned, InWork
    <3>4. Ends(row[f], row'[f])
      BY <3>2, <3>3 DEF Ends, InWork, Pending
    <3>5. /\ lock[f] = 0 /\ NoNewWorker(f)
      BY <2>1, <2>2 DEF Free, NoNewWorker
    <3>6. disk'.final = disk.final /\ disk'.sources \subseteq disk.sources
      BY <2>1, WorkerAround
    <3>7. f \notin cleaner.claimed \cup cleaner.removed
      BY <3>3 DEF JobInv, TextInv
    <3>. QED
      BY <1>1, <2>1, <3>4, <3>5, <3>6, <3>7, EndedKeeps
  <2>. QED
    BY <1>1, <1>3, <1>7, <2>1, <2>2, <2>3, ReleasedKeeps DEF Facts
<1>15. CASE LockCompletion(w)
  <2>1. w.pc = "lock" /\ UNCHANGED <<row, submitted>> /\ Free(f)
    BY <1>3, <1>15 DEF LockCompletion, history
  <2>2. CASE Owned(w)
    <3>1. lock' = [lock EXCEPT ![f] = w.gen] /\ Goto(w, "promote") /\ UNCHANGED disk
      BY <1>3, <1>15, <2>2 DEF LockCompletion
    <3>2. PICK v \in Worker : v.pc = "promote" /\ Becomes(w, v)
      BY <3>1, GoingOn
    <3>. QED
      BY <1>1, <1>3, <2>1, <2>2, <3>1, <3>2, CompletingKeeps
  <2>3. CASE ~Owned(w)
    BY <1>7, <1>15, <2>1, <2>3 DEF LockCompletion
  <2>. QED
    BY <2>2, <2>3
<1>16. CASE Promote(w)
  <2>1. /\ w.pc = "promote" /\ UNCHANGED <<row, submitted>>
        /\ lock[f] = w.gen /\ Owned(w)
    BY <1>3, <1>4, <1>16 DEF Promote, history, WorkerInv
  <2>2. CASE Goto(w, "commit") /\ UNCHANGED lock
             /\ disk' = [disk EXCEPT !.temps = @ \ {Temp(w)}, !.final[w.file] = w.gen]
    <3>1. PICK v \in Worker : v.pc = "commit" /\ Becomes(w, v)
      BY <2>2, GoingOn
    <3>2. disk'.sources = disk.sources /\ disk'.final[f] = w.gen
      BY <1>3, <2>2 DEF Disk
    <3>. QED
      BY <1>1, <1>3, <2>1, <2>2, <3>1, <3>2, CompletingKeeps
  <2>3. CASE Goto(w, "fail") /\ Unlock(w) /\ UNCHANGED disk
    <3>1. PICK v \in Worker : v.pc = "fail" /\ Becomes(w, v)
      BY <2>3, GoingOn
    <3>2. Around(f) /\ SameMarks(f)
      BY <1>1, <2>1, <2>3 DEF Around, SameMarks
    <3>. QED
      BY <1>1, <1>3, <2>1, <3>1, <3>2, MovedKeeps
  <2>. QED
    BY <1>16, <2>2, <2>3 DEF Promote
<1>17. CASE CommitCompletion(w)
  <2>1. /\ w.pc = "commit" /\ submitted' = submitted /\ lock[f] = w.gen
        /\ \/ row' = row /\ Return(w)
           \/ /\ row' = [row EXCEPT ![f] = Completed(w)]
              /\ Goto(w, "source") \/ Return(w)
    BY <1>3, <1>4, <1>17 DEF CommitCompletion, history, WorkerInv
  <2>2. CASE row' = row /\ Return(w)
    <3>1. PICK v \in Worker : v.pc = "clear" /\ Becomes(w, v)
      BY <2>2, GoingOn
    <3>. QED
      BY <1>1, <1>3, <1>5, <1>6, <2>1, <2>2, <3>1, MovedKeeps
  <2>3. CASE /\ row' = [row EXCEPT ![f] = Completed(w)]
             /\ Goto(w, "source") \/ Return(w)
    <3>1. PICK v \in Worker : v.pc = "source" /\ Becomes(w, v)
      BY <2>3, GoingOn
    <3>2. disk'.sources = disk.sources /\ disk'.final = disk.final
      BY <1>17 DEF CommitCompletion, Return, Disk
    <3>. QED
      BY <1>1, <1>3, <2>1, <2>3, <3>1, <3>2, CompletedKeeps
  <2>. QED
    BY <2>1, <2>2, <2>3
<1>18. CASE ClearSource(w)
  <2>1. row[f] \in Row /\ (row' = row \/ row' = [row EXCEPT ![f].path = FALSE])
    BY <1>3, <1>18 DEF ClearSource
  <2>2. Facts(row'[f]) = Facts(row[f])
    BY <2>1 DEF Facts, Row
  <2>. QED
    BY <1>7, <1>18, <2>2 DEF ClearSource, Rest
<1>19. CASE GiveUp(w)
  BY <1>7, <1>19 DEF GiveUp, Rest
<1>. QED
  BY <1>9, <1>10, <1>11, <1>12, <1>13, <1>14, <1>15, <1>16, <1>17, <1>18, <1>19 DEF WorkerStep

-----------------------------------------------------------------------------
(* The steps of the loop, the user, the cleanup and the clock *)

(* The cleanup claims nothing before it looked for what to claim. *)
CleanerInv == cleaner.pc \in {"idle", "claim"} => cleaner.claimed \cup cleaner.removed = {}

(* And goes on so. *)
LEMMA CleanerKeeps == Typed /\ CleanerInv /\ [Next]_vars => CleanerInv'
<1>. SUFFICES ASSUME Typed, CleanerInv, [Next]_vars PROVE CleanerInv'
  OBVIOUS
<1>0. cleaner \in Cleaner
  BY DEF Typed
<1>1. CASE UNCHANGED cleaner
  BY <1>1 DEF CleanerInv
<1>2. ASSUME NEW c \in Cleaner, cleaner' = c,
             c.pc \in {"idle", "claim"} => c.claimed = {} /\ c.removed = {}
      PROVE  CleanerInv'
  BY <1>2 DEF CleanerInv
<1>3. NoCleaner.claimed = {} /\ NoCleaner.removed = {} /\ NoCleaner \in Cleaner
  BY DEF NoCleaner, Cleaner
<1>4. CASE CleanExpire
  <2>1. PICK cutoff \in {"hours", "day"}, stale \in SUBSET Files :
          cleaner' = [NoCleaner EXCEPT !.pc = "claim", !.cutoff = cutoff, !.expired = stale]
    BY <1>4 DEF CleanExpire
  <2>2. cleaner'.claimed = {} /\ cleaner'.removed = {}
    BY <1>3, <2>1 DEF Cleaner
  <2>. QED
    BY <2>2 DEF CleanerInv
<1>5. CASE CleanClaim
  <2>1. cleaner'.pc = "remove"
    BY <1>0, <1>5 DEF CleanClaim, Cleaner
  <2>. QED
    BY <2>1 DEF CleanerInv
<1>6. CASE cleaner' = NoCleaner
  BY <1>3, <1>6 DEF CleanerInv
<1>7. ASSUME NEW f \in Files, CleanRemove(f) PROVE CleanerInv'
  <2>1. cleaner.pc \notin {"idle", "claim"}
    BY <1>7 DEF CleanerInv, CleanRemove
  <2>2. cleaner'.pc = cleaner.pc
    BY <1>0, <1>7 DEF CleanRemove, Cleaner
  <2>. QED
    BY <2>1, <2>2 DEF CleanerInv
<1>8. ASSUME NEW f \in Files, CleanFinalize(f) PROVE CleanerInv'
  BY <1>0, <1>8 DEF CleanFinalize, CleanerInv, Cleaner
<1>9. ASSUME NEW f \in Files, CleanOriginal(f) \/ CleanPath(f) PROVE CleanerInv'
  <2>1. cleaner'.pc = cleaner.pc /\ cleaner'.claimed = cleaner.claimed
        /\ cleaner'.removed = cleaner.removed
    BY <1>0, <1>9 DEF CleanOriginal, CleanPath, Cleaner
  <2>. QED
    BY <2>1 DEF CleanerInv
<1>10. CASE Work
  BY <1>1, <1>10, WorkTyped DEF Work
<1>11. CASE Loop \/ Time \/ UNCHANGED vars \/ \E f \in Files : UserStep(f)
  BY <1>1, <1>11 DEF Loop, FailStaleSubmissions, ClaimTasks, Time, EndSession, LeaseExpires,
     GrowOld, RetentionEnds, vars, UserStep, QueueOcr, RetryRead, RetryUpdate, RetryStat,
     RetryCompensate, AttachToMessage, RequestDeletion
<1>12. CASE CleanStep \/ Crash
  BY <1>4, <1>5, <1>6, <1>7, <1>8, <1>9, <1>12 DEF CleanStep, CleanReturn, Crash
<1>. QED
  BY <1>10, <1>11, <1>12 DEF Next

(* A row whose lease, path or cleanup claim changes says the same of its job. *)
LEMMA SameFacts ==
  ASSUME Typed, NEW f \in Files, NEW g \in Files, NEW x,
         \/ row' = row
         \/ row' = [row EXCEPT ![g].lease = x]
         \/ row' = [row EXCEPT ![g].path = x]
         \/ row' = [row EXCEPT ![g].due = x]
         \/ row' = [row EXCEPT ![g].cleaning = x]
  PROVE  Facts(row'[f]) = Facts(row[f])
<1>1. row \in [Files -> Row] /\ row[f] \in Row /\ row[g] \in Row
  BY DEF Typed
<1>. QED
  BY <1>1 DEF Facts, Row

(* The statements that end a job do. *)
LEMMA EndingRows ==
  ASSUME NEW r \in Row
  PROVE  /\ InWork(r) => Ends(r, Fenced(Failed(r, "other")))
         /\ r.status \in {"staged", "formal"} => Ends(r, Expired(r))
         /\ \A due \in BOOLEAN, ended \in {r, Failed(r, "other")} :
              r.status \in {"staged", "formal"} /\ ended.extract \notin Pending =>
                Ends(r, [Fenced(ended) EXCEPT !.status = "cleanup_claimed", !.due = due,
                                              !.cleaning = FALSE])
         /\ r.status \in {"staged", "formal", "cleanup_claimed"} =>
              Ends(r, [r EXCEPT !.status = "cleanup_claimed", !.due = TRUE,
                                !.cleaning = TRUE])
         /\ r.status = "staged" /\ r.extract = "ready" => Ends(r, [r EXCEPT !.status = "formal"])
<1>0. r.generation \in Nat
  BY DEF Row
<1>1. ASSUME NEW q \in Row
      PROVE  /\ Fenced(q) \in Row
             /\ Fenced(q).status = q.status /\ Fenced(q).extract = q.extract
             /\ Fenced(q).error = q.error /\ Fenced(q).estimate = q.estimate
             /\ Fenced(q).generation = q.generation + 1
  <2>1. PICK n \in Nat : n = q.generation + 1
    BY DEF Row
  <2>2. Fenced(q) = [q EXCEPT !.generation = n, !.lease = "none"]
    BY <2>1 DEF Fenced
  <2>. QED
    BY <2>1, <2>2, RowUpdates DEF Row
<1>2. ASSUME NEW error \in {"source_expired", "other"}
      PROVE  /\ Failed(r, error) \in Row
             /\ Failed(r, error).status = r.status /\ Failed(r, error).extract = "failed"
             /\ Failed(r, error).estimate = r.estimate
             /\ Failed(r, error).generation = r.generation
  <2>1. Failed(r, error) \in Row
    BY RowUpdates
  <2>. QED
    BY <2>1 DEF Failed, Row
<1>3. InWork(r) => Ends(r, Fenced(Failed(r, "other")))
  BY <1>0, <1>1, <1>2 DEF Ends, InWork, Pending
<1>4. r.status \in {"staged", "formal"} => Ends(r, Expired(r))
  <2>1. CASE r.extract \in Pending
    <3>1. PICK q \in Row : q = Fenced(Failed(r, "source_expired"))
      BY <1>1, <1>2
    <3>2. Expired(r) = [q EXCEPT !.task = FALSE]
      BY <2>1, <3>1 DEF Expired
    <3>3. /\ Expired(r).status = q.status /\ Expired(r).extract = q.extract
          /\ Expired(r).estimate = q.estimate /\ Expired(r).generation = q.generation
      BY <3>2 DEF Row
    <3>4. /\ q.status = r.status /\ q.extract = "failed" /\ q.estimate = r.estimate
          /\ q.generation = r.generation + 1
      BY <1>1, <1>2, <3>1
    <3>. QED
      BY <1>0, <3>3, <3>4 DEF Ends, InWork, Pending
  <2>2. CASE r.extract \notin Pending
    <3>1. Expired(r) = Fenced(r)
      BY <2>2 DEF Expired
    <3>. QED
      BY <1>0, <1>1, <2>2, <3>1 DEF Ends, InWork
  <2>. QED
    BY <2>1, <2>2
<1>5. ASSUME NEW due \in BOOLEAN, NEW ended \in {r, Failed(r, "other")},
             r.status \in {"staged", "formal"}, ended.extract \notin Pending
      PROVE  Ends(r, [Fenced(ended) EXCEPT !.status = "cleanup_claimed", !.due = due,
                                           !.cleaning = FALSE])
  <2>1. PICK q \in Row : q = Fenced(ended)
    BY <1>1, <1>2
  <2>2. /\ q.extract = ended.extract /\ q.estimate = r.estimate
        /\ q.generation = r.generation + 1
    BY <1>1, <1>2, <2>1
  <2>3. DEFINE s == [q EXCEPT !.status = "cleanup_claimed", !.due = due, !.cleaning = FALSE]
  <2>4. /\ s.status = "cleanup_claimed" /\ s.extract = q.extract
        /\ s.estimate = q.estimate /\ s.generation = q.generation
    BY DEF Row
  <2>5. s.extract = "ready" => r.extract = "ready"
    BY <1>2, <2>2, <2>4
  <2>6. Ends(r, s)
    BY <1>0, <1>5, <2>2, <2>4, <2>5 DEF Ends, InWork
  <2>. QED
    BY <2>1, <2>6
<1>6. ASSUME r.status \in {"staged", "formal", "cleanup_claimed"}
      PROVE  Ends(r, [r EXCEPT !.status = "cleanup_claimed", !.due = TRUE,
                               !.cleaning = TRUE])
  BY <1>0, <1>6 DEF Ends, InWork, Row
<1>7. ASSUME r.status = "staged", r.extract = "ready"
      PROVE  Ends(r, [r EXCEPT !.status = "formal"])
  BY <1>0, <1>7 DEF Ends, InWork, Row
<1>. QED
  BY <1>3, <1>4, <1>5, <1>6, <1>7

(* No step breaks the invariant of a job. *)
LEMMA JobNext ==
  ASSUME Typed, Typed', CleanerInv, [Next]_vars, NEW f \in Files, JobInv(f)
  PROVE  JobInv(f)'
<1>. USE DEF Typed
<1>0. /\ row[f] \in Row /\ row'[f] \in Row /\ cleaner \in Cleaner /\ disk \in Disk
      /\ epoch[f] \in Nat /\ events \in Nat
  BY EventsAssumption
<1>1. Event \/ Expected => events' >= events
  BY <1>0 DEF Event, Expected
<1>2. /\ f \in cleaner.claimed \cup cleaner.removed => row[f].status = "cleanup_claimed"
      /\ f \in cleaner.removed => /\ disk.final[f] = 0 /\ f \notin disk.sources
                                 /\ f \notin cleaner.claimed
      /\ epoch[f] <= events /\ (retry[f] = "update" => epoch[f] < events)
  BY DEF JobInv, TextInv, EventInv
(* What touches neither the job nor what is around it. *)
<1>3. ASSUME Facts(row'[f]) = Facts(row[f]),
             UNCHANGED <<disk, lock, workers, retry, cleaner, epoch, submitted>>,
             events' >= events
      PROVE  JobInv(f)'
  BY <1>2, <1>3, UntouchedKeeps DEF Untouched, NoNewWorker, SameMarks, Around
(* What ends the job in a statement of its own. *)
<1>4. ASSUME Ends(row[f], row'[f]), Free(f), events' >= events,
             UNCHANGED <<disk, workers, epoch, submitted, cleaner>>,
             retry'[f] = "update" => retry[f] = "update",
             row'[f].status = "cleanup_claimed" \/ row[f].status # "cleanup_claimed"
      PROVE  JobInv(f)'
  BY <1>2, <1>4, EndedKeeps DEF Free, NoNewWorker
<1>5. CASE UNCHANGED vars
  BY <1>0, <1>3, <1>5 DEF vars, history
<1>6. CASE Work
  BY <1>6, WorkerKeeps DEF Work
<1>7. CASE FailStaleSubmissions
  <2>1. /\ UNCHANGED <<disk, lock, workers, retry, cleaner, epoch, submitted>>
        /\ events' >= events
    BY <1>1, <1>7 DEF FailStaleSubmissions, history
  <2>2. \/ row'[f] = row[f]
        \/ InWork(row[f]) /\ Free(f) /\ row'[f] = Fenced(Failed(row[f], "other"))
    BY <1>7 DEF FailStaleSubmissions
  <2>3. CASE row'[f] = row[f]
    BY <1>3, <2>1, <2>3
  <2>4. CASE InWork(row[f]) /\ Free(f) /\ row'[f] = Fenced(Failed(row[f], "other"))
    <3>1. Ends(row[f], row'[f]) /\ row[f].status # "cleanup_claimed"
      BY <1>0, <2>4, EndingRows DEF InWork
    <3>. QED
      BY <1>4, <2>1, <2>4, <3>1, SMTT(30)
  <2>. QED
    BY <2>2, <2>3, <2>4
<1>8. ASSUME NEW chosen \in SUBSET Files, ClaimTasks(chosen) PROVE JobInv(f)'
  <2>1. /\ UNCHANGED <<disk, lock, retry, cleaner, epoch, submitted, events>>
        /\ row' = [g \in Files |-> IF g \in chosen THEN Claimed(row[g]) ELSE row[g]]
        /\ workers' = workers \cup
             {[file |-> g, gen |-> Claimed(row[g]).generation, task |-> row[g].task,
               attempts |-> 0, epoch |-> epoch[g], pc |-> "process"] : g \in chosen}
        /\ \A g \in chosen : Claimable(row[g]) /\ Free(g)
    BY <1>8 DEF ClaimTasks, Expected, history
  <2>2. CASE f \in chosen
    <3>1. DEFINE n == [file |-> f, gen |-> Claimed(row[f]).generation, task |-> row[f].task,
                       attempts |-> 0, epoch |-> epoch[f], pc |-> "process"]
    <3>2. \A v \in workers' : v.file = f => v = n \/ v \in workers
      BY <2>1
    <3>3. /\ lock[f] = 0 /\ Claimable(row[f]) /\ row'[f] = Claimed(row[f])
      BY <2>1, <2>2 DEF Free
    <3>. HIDE DEF n
    <3>4. n = [file |-> f, gen |-> Claimed(row[f]).generation, task |-> row[f].task,
               attempts |-> 0, epoch |-> epoch[f], pc |-> "process"]
      BY DEF n
    <3>. QED
      BY <2>1, <3>2, <3>3, <3>4, ClaimedKeeps
  <2>3. CASE f \notin chosen
    <3>1. NoNewWorker(f) /\ row'[f] = row[f]
      BY <2>1, <2>3 DEF NoNewWorker
    <3>2. Untouched(f)
      BY <1>0, <2>1, <3>1 DEF Untouched, SameMarks, Around
    <3>. QED
      BY <3>2, UntouchedKeeps
  <2>. QED
    BY <2>2, <2>3
<1>9. CASE Time
  <2>1. /\ UNCHANGED <<disk, lock, workers, retry, cleaner, epoch, submitted>>
        /\ events' >= events
    BY <1>1, <1>9 DEF Time, EndSession, LeaseExpires, GrowOld, RetentionEnds, history
  <2>2. Facts(row'[f]) = Facts(row[f])
    BY <1>9, SameFacts, SMTT(30) DEF Time, EndSession, LeaseExpires, GrowOld, RetentionEnds
  <2>. QED
    BY <1>3, <2>1, <2>2
<1>10. CASE Crash
  <2>1. /\ workers' = {} /\ UNCHANGED <<row, disk, epoch, submitted>>
        /\ events' >= events /\ retry'[f] = "idle"
        /\ cleaner'.claimed = {} /\ cleaner'.removed = {}
    BY <1>1, <1>10 DEF Crash, history, NoCleaner
  <2>. QED
    BY <1>0, <2>1 DEF JobInv, SubmitInv, TextInv, EventInv, Closed, Mark
<1>11. ASSUME NEW g \in Files, UserStep(g) PROVE JobInv(f)'
  <2>1. /\ UNCHANGED <<lock, workers, cleaner, submitted>> /\ events' >= events
    BY <1>1, <1>11 DEF UserStep, QueueOcr, RetryRead, RetryUpdate, RetryStat, RetryCompensate,
       AttachToMessage, RequestDeletion, user, history
  <2>2. CASE f # g
    <3>1. row'[f] = row[f] /\ retry'[f] = retry[f] /\ epoch'[f] = epoch[f]
      BY <1>11, <2>2, ZenonT(60) DEF UserStep, QueueOcr, RetryRead, RetryUpdate, RetryStat,
         RetryCompensate, AttachToMessage, RequestDeletion, history
    <3>2. disk'.final = disk.final /\ (f \in disk'.sources => f \in disk.sources)
      <4>1. disk' = disk \/ disk' = [disk EXCEPT !.sources = @ \cup {g}]
        BY <1>11 DEF UserStep, QueueOcr, RetryRead, RetryUpdate, RetryStat,
           RetryCompensate, AttachToMessage, RequestDeletion
      <4>. QED
        BY <1>0, <2>2, <4>1 DEF Disk
    <3>3. Untouched(f)
      BY <2>1, <3>1, <3>2 DEF Untouched, NoNewWorker, SameMarks, Around
    <3>. QED
      BY <3>3, UntouchedKeeps
  <2>. SUFFICES ASSUME f = g PROVE JobInv(f)'
    BY <2>2
  <2>3. CASE QueueOcr(f)
    BY <2>1, <2>3, QueuedKeeps DEF QueueOcr, Expected, history
  <2>4. CASE RetryRead(f)
    <3>1. UNCHANGED <<row, disk, epoch>> /\ (retry'[f] = "update" => events < events')
      BY <1>0, <2>4 DEF RetryRead, Event, history
    <3>2. Untouched(f)
      BY <1>0, <1>2, <2>1, <3>1 DEF Untouched, NoNewWorker, SameMarks, Around
    <3>. QED
      BY <3>2, UntouchedKeeps
  <2>5. CASE RetryUpdate(f)
    <3>1. CASE row[f].status = "staged" /\ row[f].extract = "failed"
      BY <2>1, <2>5, <3>1, RestartedKeeps DEF RetryUpdate, Free, Expected
    <3>2. CASE ~(row[f].status = "staged" /\ row[f].extract = "failed")
      <4>1. UNCHANGED <<row, disk, epoch>> /\ retry'[f] = "idle"
        BY <2>5, <3>2 DEF RetryUpdate
      <4>2. Untouched(f)
        BY <1>0, <2>1, <4>1 DEF Untouched, NoNewWorker, SameMarks, Around
      <4>. QED
        BY <4>2, UntouchedKeeps
    <3>. QED
      BY <3>1, <3>2
  <2>6. CASE RetryStat(f)
    <3>1. UNCHANGED <<row, disk, epoch>> /\ retry'[f] # "update"
      BY <2>6 DEF RetryStat, history
    <3>2. Untouched(f)
      BY <1>0, <2>1, <3>1 DEF Untouched, NoNewWorker, SameMarks, Around
    <3>. QED
      BY <3>2, UntouchedKeeps
  <2>7. CASE RetryCompensate(f)
    <3>1. UNCHANGED <<disk, epoch>> /\ retry'[f] = "idle" /\ row'[f] = Compensated(row[f])
          /\ Free(f)
      BY <2>7 DEF RetryCompensate, history
    <3>2. CASE InWork(row[f])
      <4>1. Ends(row[f], row'[f]) /\ row[f].status # "cleanup_claimed"
        BY <1>0, <3>1, <3>2, EndingRows DEF InWork, Compensated
      <4>. QED
        BY <1>4, <2>1, <3>1, <4>1, SMTT(30)
    <3>3. CASE ~InWork(row[f])
      <4>1. row'[f] = row[f]
        BY <3>1, <3>3 DEF Compensated
      <4>2. Untouched(f)
        BY <1>0, <2>1, <3>1, <4>1 DEF Untouched, NoNewWorker, SameMarks, Around
      <4>. QED
        BY <4>2, UntouchedKeeps
    <3>. QED
      BY <3>2, <3>3
  <2>8. CASE AttachToMessage(f)
    <3>1. PICK r \in Row : r = row[f]
      BY <1>0
    <3>2. /\ UNCHANGED <<disk, epoch, retry>> /\ Free(f)
          /\ r.status = "staged" /\ r.extract = "ready"
          /\ row'[f] = [r EXCEPT !.status = "formal"]
      BY <2>8, <3>1, SMTT(30) DEF AttachToMessage, history
    <3>3. Ends(row[f], row'[f])
      BY <3>1, <3>2, EndingRows
    <3>. QED
      BY <1>4, <2>1, <3>1, <3>2, <3>3
  <2>9. CASE RequestDeletion(f)
    <3>1. PICK r \in Row : r = row[f]
      BY <1>0
    <3>2. PICK ended \in {r, Failed(r, "other")} :
            /\ ended = (IF r.extract \in Pending THEN Failed(r, "other") ELSE r)
            /\ ended.extract \notin Pending
      BY <3>1 DEF Failed, Row, Pending
    <3>3. PICK due \in BOOLEAN :
            row'[f] = [Fenced(ended) EXCEPT !.status = "cleanup_claimed", !.due = due,
                                            !.cleaning = FALSE]
      BY <2>9, <3>1, <3>2, ZenonT(60) DEF RequestDeletion
    <3>4. /\ UNCHANGED <<disk, epoch, retry>> /\ Free(f)
          /\ r.status \in {"staged", "formal"}
      BY <2>9, <3>1 DEF RequestDeletion, history
    <3>5. Ends(r, [Fenced(ended) EXCEPT !.status = "cleanup_claimed", !.due = due,
                                        !.cleaning = FALSE])
      BY <3>2, <3>4, EndingRows
    <3>6. Ends(row[f], row'[f]) /\ row[f].status # "cleanup_claimed"
      BY <3>1, <3>3, <3>4, <3>5
    <3>. QED
      BY <1>4, <2>1, <3>4, <3>6
  <2>. QED
    BY <1>11, <2>3, <2>4, <2>5, <2>6, <2>7, <2>8, <2>9 DEF UserStep
<1>12. CASE CleanExpire
  <2>1. /\ UNCHANGED <<disk, lock, workers, retry, epoch, submitted>> /\ events' >= events
    BY <1>1, <1>12 DEF CleanExpire, history
  <2>2. cleaner'.claimed = {} /\ cleaner'.removed = {}
    BY <1>12 DEF CleanExpire, NoCleaner
  <2>3. \/ row'[f] = row[f]
        \/ /\ row[f].status \in {"staged", "formal"} /\ Free(f)
           /\ row'[f] = Expired(row[f])
    BY <1>12 DEF CleanExpire, Expirable
  <2>4. CASE row'[f] = row[f]
    <3>1. Untouched(f)
      BY <1>0, <2>1, <2>2, <2>4 DEF Untouched, NoNewWorker, SameMarks, Around
    <3>. QED
      BY <3>1, UntouchedKeeps
  <2>5. CASE /\ row[f].status \in {"staged", "formal"} /\ Free(f)
             /\ row'[f] = Expired(row[f])
    <3>1. Ends(row[f], row'[f])
      BY <1>0, <2>5, EndingRows
    <3>. QED
      BY <2>1, <2>2, <2>5, <3>1, EndedKeeps, SMTT(30) DEF Free, NoNewWorker
  <2>. QED
    BY <2>3, <2>4, <2>5
<1>13. CASE CleanClaim
  <2>1. /\ UNCHANGED <<disk, lock, workers, retry, epoch, submitted>> /\ events' >= events
    BY <1>1, <1>13, ZenonT(60) DEF CleanClaim, history
  <2>2. PICK claim \in SUBSET Files :
          /\ \A g \in claim : Removable(g) /\ Free(g)
          /\ row' = [g \in Files |->
                      IF g \in claim
                      THEN [row[g] EXCEPT !.status = "cleanup_claimed", !.due = TRUE,
                                          !.cleaning = TRUE]
                      ELSE row[g]]
          /\ cleaner' = [cleaner EXCEPT !.pc = "remove", !.cutoff = "day", !.claimed = claim]
    BY <1>13 DEF CleanClaim
  <2>3. cleaner'.claimed = claim /\ cleaner'.removed = {}
    BY <1>0, <1>13, <2>2 DEF CleanClaim, CleanerInv, Cleaner
  <2>4. CASE f \notin claim
    <3>1. Untouched(f)
      BY <1>0, <2>1, <2>2, <2>3, <2>4 DEF Untouched, NoNewWorker, SameMarks, Around
    <3>. QED
      BY <3>1, UntouchedKeeps
  <2>5. CASE f \in claim
    <3>1. PICK r \in Row : r = row[f]
      BY <1>0
    <3>2. /\ r.status \in {"staged", "formal", "cleanup_claimed"} /\ Free(f)
          /\ row'[f] = [r EXCEPT !.status = "cleanup_claimed", !.due = TRUE, !.cleaning = TRUE]
      BY <2>2, <2>5, <3>1 DEF Removable
    <3>3. Ends(row[f], row'[f]) /\ row'[f].status = "cleanup_claimed"
      BY <3>1, <3>2, EndingRows, ZenonT(60) DEF Row
    <3>. QED
      BY <2>1, <2>3, <3>2, <3>3, EndedKeeps DEF Free, NoNewWorker
  <2>. QED
    BY <2>4, <2>5
<1>14. CASE CleanReturn
  <2>1. /\ UNCHANGED <<row, disk, lock, workers, retry, epoch, submitted>>
        /\ events' >= events /\ cleaner'.claimed = {} /\ cleaner'.removed = {}
    BY <1>1, <1>14 DEF CleanReturn, history, NoCleaner
  <2>2. Untouched(f)
    BY <1>0, <2>1 DEF Untouched, NoNewWorker, SameMarks, Around
  <2>. QED
    BY <2>2, UntouchedKeeps
<1>15. ASSUME NEW g \in Files,
              CleanRemove(g) \/ CleanFinalize(g) \/ CleanOriginal(g) \/ CleanPath(g)
       PROVE  JobInv(f)'
  <2>1. /\ UNCHANGED <<lock, workers, retry, epoch, submitted>> /\ events' >= events
    BY <1>1, <1>15 DEF CleanRemove, CleanFinalize, CleanOriginal, CleanPath, history
  <2>2. ASSUME Facts(row'[f]) = Facts(row[f]), disk'.final[f] = disk.final[f],
               f \in disk'.sources => f \in disk.sources,
               f \in cleaner'.claimed => f \in cleaner.claimed,
               f \in cleaner'.removed => f \in cleaner.removed
        PROVE  JobInv(f)'
    BY <2>1, <2>2, UntouchedKeeps DEF Untouched, NoNewWorker, SameMarks, Around
  <2>3. CASE f # g
    <3>1. row'[f] = row[f]
      <4>1. \/ row' = row
            \/ \E r : row' = [row EXCEPT ![g] = r]
        BY <1>15 DEF CleanRemove, CleanFinalize, CleanOriginal, CleanPath
      <4>. QED
        BY <2>3, <4>1
    <3>2. disk'.final[f] = disk.final[f] /\ (f \in disk'.sources => f \in disk.sources)
      <4>1. \/ disk' = disk
            \/ disk' = [disk EXCEPT !.sources = @ \ {g}]
            \/ disk' = [disk EXCEPT !.sources = @ \ {g}, !.final[g] = 0]
        <5>1. CASE CleanRemove(g)
          BY <5>1 DEF CleanRemove
        <5>. QED
          BY <1>15, <5>1 DEF CleanFinalize, CleanOriginal, CleanPath
      <4>2. CASE disk' = [disk EXCEPT !.sources = @ \ {g}, !.final[g] = 0]
        <5>1. disk'.sources = disk.sources \ {g} /\ disk'.final = [disk.final EXCEPT ![g] = 0]
          BY <1>0, <4>2 DEF Disk
        <5>. QED
          BY <1>0, <2>3, <5>1 DEF Disk
      <4>3. CASE disk' = disk \/ disk' = [disk EXCEPT !.sources = @ \ {g}]
        BY <1>0, <4>3 DEF Disk
      <4>. QED
        BY <4>1, <4>2, <4>3
    <3>3. /\ f \in cleaner'.claimed => f \in cleaner.claimed
          /\ f \in cleaner'.removed => f \in cleaner.removed
      <4>1. CASE CleanRemove(g)
        <5>1. /\ cleaner'.claimed = cleaner.claimed \ {g}
              /\ cleaner'.removed \in {cleaner.removed, cleaner.removed \cup {g}}
          BY <1>0, <4>1 DEF CleanRemove, Cleaner
        <5>. QED
          BY <2>3, <5>1
      <4>2. CASE CleanFinalize(g)
        BY <1>0, <4>2 DEF CleanFinalize, Cleaner
      <4>3. CASE CleanOriginal(g)
        BY <1>0, <4>3 DEF CleanOriginal, Cleaner
      <4>4. CASE CleanPath(g)
        BY <1>0, <4>4 DEF CleanPath, Cleaner
      <4>. QED
        BY <1>15, <4>1, <4>2, <4>3, <4>4
    <3>. QED
      BY <2>2, <3>1, <3>2, <3>3
  <2>4. CASE f = g /\ CleanRemove(f) /\ disk' # disk
    <3>1. /\ disk' = [disk EXCEPT !.sources = @ \ {f}, !.final[f] = 0]
          /\ cleaner' = [cleaner EXCEPT !.claimed = @ \ {f}, !.removed = @ \cup {f}]
          /\ row' = row /\ f \in cleaner.claimed
      BY <2>4 DEF CleanRemove
    <3>2. disk'.final[f] = 0 /\ f \notin disk'.sources /\ f \notin cleaner'.claimed
      BY <1>0, <3>1 DEF Disk, Cleaner
    <3>. QED
      BY <1>2, <2>1, <3>1, <3>2, RemovedKeeps
  <2>5. CASE f = g /\ CleanRemove(f) /\ disk' = disk
    <3>1. /\ \/ cleaner' = [cleaner EXCEPT !.claimed = @ \ {f}]
             \/ /\ cleaner' = [cleaner EXCEPT !.claimed = @ \ {f}, !.removed = @ \cup {f}]
                /\ disk' = [disk EXCEPT !.sources = @ \ {f}, !.final[f] = 0]
          /\ row' = row \/ \E x : row' = [row EXCEPT ![f].cleaning = x]
          /\ f \in cleaner.claimed
      BY <2>5 DEF CleanRemove
    <3>2. Facts(row'[f]) = Facts(row[f])
      BY <3>1, SameFacts, SMTT(30)
    <3>3. CASE cleaner' = [cleaner EXCEPT !.claimed = @ \ {f}]
      <4>1. cleaner'.claimed \subseteq cleaner.claimed /\ cleaner'.removed = cleaner.removed
        BY <1>0, <3>3 DEF Cleaner
      <4>. QED
        BY <2>2, <2>5, <3>2, <4>1
    <3>4. CASE /\ cleaner' = [cleaner EXCEPT !.claimed = @ \ {f}, !.removed = @ \cup {f}]
               /\ disk' = [disk EXCEPT !.sources = @ \ {f}, !.final[f] = 0]
      <4>1. disk'.final[f] = 0 /\ f \notin disk'.sources /\ f \notin cleaner'.claimed
        BY <1>0, <3>4 DEF Disk, Cleaner
      <4>2. /\ row'[f].status = row[f].status /\ row'[f].extract = row[f].extract
            /\ row'[f].error = row[f].error /\ row'[f].task = row[f].task
            /\ row'[f].generation = row[f].generation
        BY <3>2 DEF Facts
      <4>. QED
        BY <1>2, <2>1, <3>1, <4>1, <4>2, RemovedKeeps
    <3>. QED
      BY <3>1, <3>3, <3>4
  <2>6. CASE f = g /\ CleanFinalize(f)
    <3>1. PICK r \in Row : r = row[f]
      BY <1>0
    <3>2. row'[f] = [r EXCEPT !.status = "storage_removed", !.cleaning = FALSE]
      BY <2>6, <3>1 DEF CleanFinalize
    <3>3. /\ row'[f].status = "storage_removed" /\ row'[f].extract = row[f].extract
          /\ row'[f].error = row[f].error /\ row'[f].task = row[f].task
          /\ row'[f].generation = row[f].generation
      BY <3>1, <3>2 DEF Row
    <3>4. /\ f \in cleaner.removed /\ disk' = disk
          /\ cleaner'.claimed = cleaner.claimed /\ f \notin cleaner'.removed
      BY <1>0, <2>6 DEF CleanFinalize, Cleaner
    <3>. QED
      BY <1>2, <2>1, <3>3, <3>4, RemovedKeeps
  <2>7. CASE f = g /\ (CleanOriginal(f) \/ CleanPath(f))
    <3>1. Facts(row'[f]) = Facts(row[f])
      BY <2>7, SameFacts DEF CleanOriginal, CleanPath
    <3>2. disk'.final = disk.final /\ disk'.sources \subseteq disk.sources
      BY <1>0, <2>7 DEF CleanOriginal, CleanPath, Disk
    <3>3. cleaner'.claimed = cleaner.claimed /\ cleaner'.removed = cleaner.removed
      BY <1>0, <2>7 DEF CleanOriginal, CleanPath, Cleaner
    <3>. QED
      BY <2>2, <3>1, <3>2, <3>3
  <2>. QED
    BY <1>15, <2>3, <2>4, <2>5, <2>6, <2>7
<1>. QED
  BY <1>5, <1>6, <1>7, <1>8, <1>9, <1>10, <1>11, <1>12, <1>13, <1>14, <1>15
     DEF Next, Loop, CleanStep

-----------------------------------------------------------------------------
(* The theorems *)

JobsInv == Typed /\ CleanerInv /\ \A f \in Files : JobInv(f)

(* A new database satisfies the invariant. *)
LEMMA JobsInit == Init => JobsInv
<1>. SUFFICES ASSUME Init PROVE JobsInv
  OBVIOUS
<1>1. NoRow \in Row /\ NoRow.status = "none" /\ NoRow.extract = "ocr_pending"
      /\ NoRow.error = "none"
  BY DEF NoRow, Row, Pending
<1>2. NoCleaner \in Cleaner /\ NoCleaner.claimed = {} /\ NoCleaner.removed = {}
  BY DEF NoCleaner, Cleaner
<1>3. disk \in Disk /\ 0 \in 0 .. MaxEvents
  BY EventsAssumption DEF Init, Disk
<1>4. Typed
  BY <1>1, <1>2, <1>3 DEF Typed, Init
<1>5. CleanerInv
  BY <1>2 DEF CleanerInv, Init
<1>6. ASSUME NEW f \in Files PROVE JobInv(f)
  <2>1. row[f] = NoRow /\ workers = {} /\ cleaner = NoCleaner /\ submitted = {}
        /\ epoch[f] = 0 /\ events = 0 /\ retry[f] = "idle"
    BY DEF Init
  <2>. QED
    BY <1>1, <1>2, <2>1 DEF JobInv, SubmitInv, TextInv, EventInv, Pending, Mark
<1>. QED
  BY <1>4, <1>5, <1>6 DEF JobsInv

(* Every step keeps it. *)
LEMMA JobsNext == JobsInv /\ [Next]_vars => JobsInv'
<1>. SUFFICES ASSUME JobsInv, [Next]_vars PROVE JobsInv'
  OBVIOUS
<1>1. Typed /\ CleanerInv /\ \A f \in Files : JobInv(f)
  BY DEF JobsInv
<1>2. Typed' /\ CleanerInv'
  BY <1>1, TypedNext, CleanerKeeps
<1>3. \A f \in Files : JobInv(f)'
  BY <1>1, <1>2, JobNext
<1>. QED
  BY <1>2, <1>3 DEF JobsInv

(* The invariant of every job holds in every state of the system. *)
LEMMA JobsInvariant == Spec => []JobsInv
BY JobsInit, JobsNext, PTL DEF Spec

(* A job is submitted to MinerU at most once for each time the user asked for *)
(* it, whatever leases expire, workers are late or processes die: of all that *)
(* are about to submit, each is alone in its epoch and nobody was before it. *)
THEOREM SubmittedOnce == Spec => []SubmittedOncePerRequest
<1>1. JobsInv => SubmittedOncePerRequest
  <2>. SUFFICES ASSUME JobsInv, NEW w \in workers, w.pc = "start"
                PROVE  /\ <<w.file, w.epoch>> \notin submitted
                       /\ \A v \in workers : /\ v.pc = "start" /\ v.file = w.file
                                               /\ v.epoch = w.epoch => v = w
    BY DEF SubmittedOncePerRequest
  <2>1. w.file \in Files
    BY DEF JobsInv, Typed, Worker
  <2>2. JobInv(w.file)
    BY <2>1 DEF JobsInv
  <2>. QED
    BY <2>2 DEF JobInv, WorkerInv, PairInv
<1>. QED
  BY <1>1, JobsInvariant, PTL

(* Rows and disk agree: a finished row describes the text on disk, whichever  *)
(* worker came late, and what the cleanup removed does not come back.       *)
THEOREM FilesAgree == Spec => []FilesMatchRows
<1>1. JobsInv => TypeOK
  <2>. SUFFICES ASSUME JobsInv PROVE TypeOK
    OBVIOUS
  <2>1. Typed /\ \A f \in Files : JobInv(f)
    BY DEF JobsInv
  <2>2. \A v, w \in workers : v.file = w.file /\ v.gen = w.gen => v = w
    BY <2>1 DEF Typed, Worker, JobInv, PairInv
  <2>3. epoch \in [Files -> 0 .. MaxEvents]
    <3>1. \A f \in Files : epoch[f] \in Nat /\ epoch[f] <= events
      BY <2>1 DEF Typed, JobInv, EventInv
    <3>2. epoch \in [Files -> Nat] /\ events \in 0 .. MaxEvents
      BY <2>1 DEF Typed
    <3>3. \A f \in Files : epoch[f] \in 0 .. MaxEvents
      BY <3>1, <3>2, EventsAssumption
    <3>. QED
      BY <3>2, <3>3
  <2>. QED
    BY <2>1, <2>2, <2>3 DEF TypeOK, Typed, Disk, Cleaner
<1>2. JobsInv => RowDescribesText /\ RemovedStaysRemoved
  BY DEF JobsInv, JobInv, TextInv, RowDescribesText, RemovedStaysRemoved
<1>3. JobsInv => FilesMatchRows
  BY <1>1, <1>2 DEF FilesMatchRows
<1>. QED
  BY <1>3, JobsInvariant, PTL

(* What an ended job takes from a step: nothing, or the restart of a user. *)
LEMMA EndedSteps ==
  ASSUME Typed, [Next]_vars, NEW f \in Files, row[f].extract \in {"ready", "failed"},
         row'[f].extract # row[f].extract
  PROVE  row[f].extract = "failed" /\ epoch'[f] = epoch[f] + 1
<1>. USE DEF Typed
<1>1. ~InWork(row[f]) /\ row[f].extract \notin Pending /\ row[f] \in Row
  BY DEF InWork, Pending
<1>2. Facts(row'[f]) # Facts(row[f]) /\ row'[f] # row[f]
  BY DEF Facts
<1>3. ASSUME NEW q \in Row PROVE Fenced(q).extract = q.extract /\ Fenced(q) \in Row
  BY RowUpdates, ZenonT(60) DEF Fenced, Row
<1>4. ASSUME NEW w \in workers PROVE ~WorkerStep(w)
  <2>1. w.file = f => ~Owned(w)
    BY <1>1 DEF Owned
  <2>2. ~ClearSource(w)
    <3>1. ClearSource(w) => row' = row \/ row' = [row EXCEPT ![w.file].path = FALSE]
      BY DEF ClearSource
    <3>2. w.file \in Files
      BY DEF Worker
    <3>. QED
      BY <1>2, <3>1, <3>2, SameFacts
  <2>3. ~Reserve(w) /\ ~Record(w) /\ ~RecordAttempt(w) /\ ~CommitCompletion(w)
    <3>1. ASSUME Reserve(w) \/ Record(w) \/ RecordAttempt(w) \/ CommitCompletion(w)
          PROVE  row' = row \/ (Owned(w) /\ \E r : row' = [row EXCEPT ![w.file] = r])
      BY <3>1, ZenonT(60) DEF Reserve, Record, RecordAttempt, CommitCompletion
    <3>. QED
      BY <1>2, <2>1, <3>1
  <2>4. ~Release(w) /\ ~Fail(w) /\ ~Retry(w)
    <3>1. ASSUME Release(w) \/ Fail(w) \/ Retry(w)
          PROVE  row' = row \/ (Owned(w) /\ \E r : row' = [row EXCEPT ![w.file] = r])
      BY <3>1 DEF Release, Fail, Retry, WriteAndReturn
    <3>. QED
      BY <1>2, <2>1, <3>1
  <2>. QED
    BY <1>2, <2>2, <2>3, <2>4 DEF WorkerStep, Process, Inspect, Start, Poll, WriteTemp,
       LockCompletion, Promote, RemoveSource, GiveUp
<1>5. ~Loop
  BY <1>1, <1>2 DEF Loop, FailStaleSubmissions, ClaimTasks, Claimable
<1>6. ~Time /\ ~Crash /\ ~UNCHANGED vars
  <2>1. ASSUME Time PROVE FALSE
    <3>1. \/ row' = row
          \/ \E g \in Files : \E x : \/ row' = [row EXCEPT ![g].lease = x]
                                     \/ row' = [row EXCEPT ![g].due = x]
                                     \/ row' = [row EXCEPT ![g].cleaning = x]
      BY <2>1 DEF Time, EndSession, LeaseExpires, GrowOld, RetentionEnds
    <3>. QED
      BY <1>2, <3>1, SameFacts
  <2>. QED
    BY <1>2, <2>1 DEF Crash, vars
<1>7. ~CleanStep
  <2>1. ~CleanExpire
    <3>1. Expired(row[f]).extract = row[f].extract
      BY <1>1, <1>3 DEF Expired
    <3>2. CleanExpire => row'[f] \in {row[f], Expired(row[f])}
      BY DEF CleanExpire
    <3>. QED
      BY <3>1, <3>2
  <2>2. ~CleanClaim
    <3>1. [row[f] EXCEPT !.status = "cleanup_claimed", !.due = TRUE,
                         !.cleaning = TRUE].extract = row[f].extract
      BY <1>1 DEF Row
    <3>2. CleanClaim => row'[f] \in {row[f], [row[f] EXCEPT !.status = "cleanup_claimed",
                                                          !.due = TRUE, !.cleaning = TRUE]}
      BY DEF CleanClaim
    <3>. QED
      BY <3>1, <3>2
  <2>3. ASSUME NEW g \in Files
        PROVE  ~CleanRemove(g) /\ ~CleanOriginal(g) /\ ~CleanPath(g) /\ ~CleanFinalize(g)
    <3>1. ASSUME CleanRemove(g) \/ CleanOriginal(g) \/ CleanPath(g)
          PROVE  \/ row' = row
                 \/ \E x : \/ row' = [row EXCEPT ![g].cleaning = x]
                         \/ row' = [row EXCEPT ![g].path = x]
      BY <3>1 DEF CleanRemove, CleanOriginal, CleanPath
    <3>2. ASSUME CleanFinalize(g) PROVE row'[f].extract = row[f].extract
      <4>1. row'[f] \in {row[f], [row[f] EXCEPT !.status = "storage_removed",
                                             !.cleaning = FALSE]}
        BY <3>2 DEF CleanFinalize
      <4>. QED
        BY <1>1, <4>1 DEF Row
    <3>. QED
      BY <1>2, <3>1, <3>2, SameFacts
  <2>. QED
    BY <1>2, <2>1, <2>2, <2>3 DEF CleanStep, CleanReturn
<1>8. ASSUME NEW g \in Files, UserStep(g)
      PROVE  row[f].extract = "failed" /\ epoch'[f] = epoch[f] + 1
  <2>1. g = f
    BY <1>2, <1>8 DEF UserStep, QueueOcr, RetryRead, RetryUpdate, RetryStat,
       RetryCompensate, AttachToMessage, RequestDeletion
  <2>2. ~QueueOcr(f) /\ ~AttachToMessage(f)
    <3>1. QueueOcr(f) => row'[f] = [row[f] EXCEPT !.status = "staged"]
      BY DEF QueueOcr
    <3>2. AttachToMessage(f) => row'[f] = [row[f] EXCEPT !.status = "formal"]
      BY DEF AttachToMessage
    <3>. QED
      BY <1>1, <3>1, <3>2 DEF Row
  <2>3. ~RequestDeletion(f)
    <3>1. PICK q \in Row : q = Fenced(row[f]) /\ q.extract = row[f].extract
      BY <1>1, <1>3
    <3>2. RequestDeletion(f) =>
            \E due \in BOOLEAN : row'[f] = [q EXCEPT !.status = "cleanup_claimed", !.due = due,
                                                   !.cleaning = FALSE]
      BY <1>1, <3>1 DEF RequestDeletion
    <3>. QED
      BY <3>1, <3>2, ZenonT(60) DEF Row
  <2>4. ~RetryCompensate(f) /\ ~RetryRead(f) /\ ~RetryStat(f)
    BY <1>1, <1>2 DEF RetryCompensate, RetryRead, RetryStat, Compensated
  <2>. QED
    BY <1>2, <1>8, <2>1, <2>2, <2>3, <2>4 DEF UserStep, RetryUpdate
<1>. QED
  BY <1>4, <1>5, <1>6, <1>7, <1>8 DEF Next, Work

(* A job that ended stays as it ended until the user restarts it, and a       *)
(* finished one is never run again.                                         *)
THEOREM EndedJobsStay == Spec => EndedStaysEnded
<1>1. JobsInv /\ [Next]_vars =>
        [\A f \in Files : row[f].extract \in {"ready", "failed"}
                          /\ row'[f].extract # row[f].extract
           => row[f].extract = "failed" /\ epoch'[f] = epoch[f] + 1]_vars
  BY EndedSteps DEF JobsInv
<1>. QED
  BY <1>1, JobsInvariant, PTL DEF Spec, EndedStaysEnded

=============================================================================
