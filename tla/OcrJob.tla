-------------------------------- MODULE OcrJob --------------------------------
(***************************************************************************)
(* The OCR job of an uploaded PDF: its row in table files, the workers that *)
(* OCRRecoveryRunner starts under a lease with a generation, the managed    *)
(* files on disk, and the handlers that retry, delete and clean up.         *)
(*                                                                         *)
(* A worker is one goroutine, started by one claim: it is known by its file *)
(* and the generation of the claim.  A statement of the code on table files *)
(* is one step; CompleteOCRClaim, which renames a file inside its           *)
(* transaction, is three, with the row lock between them.  MinerU, the      *)
(* remote service, is an answer each call gets.  Retry delays are left to   *)
(* the scheduler: a claim may come any time after the lease was released.   *)
(***************************************************************************)
EXTENDS Naturals, FiniteSets

CONSTANTS
  Files,            \* the uploads of one session
  MaxConcurrency,   \* MinerUOCRConfig.MaxConcurrency
  MaxAttempts,      \* ocrMaxAttempts (5 in the code)
  MaxEvents         \* bound of the instance: how often something interferes,
                    \* a crash, an outage, an overrun, a user, a cleanup

ASSUME ConcurrencyAssumption == MaxConcurrency \in Nat \ {0}
ASSUME AttemptsAssumption    == MaxAttempts \in Nat \ {0}
ASSUME EventsAssumption      == MaxEvents \in Nat

VARIABLES
  row,        \* table files
  disk,       \* the managed files: originals, final and temporary sidecars
  lock,       \* the generation whose worker holds the row's lock, or 0
  workers,    \* the goroutines at work
  retry,      \* where RetryOCRFileHandler is, per file
  cleaner,    \* where CleanupOrphanFilesHandler is
  session,    \* of the session the files belong to
  old,        \* the uploads of more than a day ago (ocrSourceRetention)
  submitted,  \* history: <<file, epoch>> of the submissions MinerU may have taken
  epoch,      \* history: how often the user restarted the job
  events      \* how much of MaxEvents is spent

vars == <<row, disk, lock, workers, retry, cleaner, session, old,
          submitted, epoch, events>>

user    == <<session, old>>
history == <<submitted, epoch>>

-----------------------------------------------------------------------------

Pending == {"ocr_pending", "ocr_running"}

Row ==
  [status : {"none", "staged", "formal", "cleanup_claimed", "storage_removed"},
   extract : Pending \cup {"ready", "failed"},
   error : {"none", "submission_started", "source_expired", "other"},
   task : BOOLEAN,                       \* ocr_task_id is set
   lease : {"none", "live", "expired"},  \* ocr_lease_until against the clock
   generation : Nat, attempts : Nat,
   path : BOOLEAN,                       \* ocr_source_path is set
   started : BOOLEAN,                    \* ocr_started_at is set
   estimate : Nat,                       \* the generation token_estimate is from
   due : BOOLEAN,                        \* cleanup_after is past
   cleaning : BOOLEAN]                   \* cleanup_lease_until is ahead

NoRow == [status |-> "none", extract |-> "ocr_pending", error |-> "none",
          task |-> FALSE, lease |-> "none", generation |-> 0, attempts |-> 0,
          path |-> TRUE, started |-> FALSE, estimate |-> 0,
          due |-> FALSE, cleaning |-> FALSE]

Worker ==
  [file : Files, gen : Nat,
   task : BOOLEAN,    \* OCRTaskID of the row as it was claimed
   attempts : Nat,    \* what RecordOCRAttempt returned
   epoch : Nat,       \* history: the epoch of the claim
   pc : {"process", "attempt", "inspect", "reserve", "start", "record",
         "poll", "pollAttempt", "write", "lock", "promote", "commit",
         "source", "clear", "retry", "release", "fail"}]

NoCleaner == [pc |-> "idle", cutoff |-> "day", expired |-> {}, claimed |-> {},
              removed |-> {}, originals |-> {}]

TypeOK ==
  /\ row \in [Files -> Row]
  /\ disk.sources \subseteq Files
  /\ disk.final \in [Files -> Nat]
  /\ disk.temps \subseteq Files \X Nat
  /\ lock \in [Files -> Nat]
  /\ workers \subseteq Worker
  /\ \A v, w \in workers : v.file = w.file /\ v.gen = w.gen => v = w
  /\ retry \in [Files -> {"idle", "update", "stat", "compensate"}]
  /\ cleaner.pc \in {"idle", "claim", "remove"}
  /\ cleaner.cutoff \in {"hours", "day"}
  /\ cleaner.expired \cup cleaner.claimed \cup cleaner.removed
        \cup cleaner.originals \subseteq Files
  /\ session \in {"live", "deleted", "lapsed"}
  /\ old \subseteq Files
  /\ submitted \subseteq Files \X Nat
  /\ epoch \in [Files -> 0 .. MaxEvents]
  /\ events \in 0 .. MaxEvents

Init ==
  /\ row = [f \in Files |-> NoRow]
  /\ disk = [sources |-> {}, final |-> [f \in Files |-> 0], temps |-> {}]
  /\ lock = [f \in Files |-> 0]
  /\ workers = {}
  /\ retry = [f \in Files |-> "idle"]
  /\ cleaner = NoCleaner
  /\ session = "live"
  /\ old = {}
  /\ submitted = {}
  /\ epoch = [f \in Files |-> 0]
  /\ events = 0

Event  == events < MaxEvents /\ events' = events + 1
Expected == UNCHANGED events

(* Fault: nobody takes or waits for the row lock. *)
FreeAlways(f) == TRUE

Free(f) == lock[f] = 0

(* The WHERE clause every statement of a worker carries.                     *)
InWork(r) == r.status = "staged" /\ r.extract \in Pending
Owned(w)  == InWork(row[w.file]) /\ row[w.file].generation = w.gen

Live(r) == InWork(r) /\ r.lease = "live"

-----------------------------------------------------------------------------
(* The upload and the recovery loop *)

(* queueMinerUOCR: the original is written before the row that names it.     *)
QueueOcr(f) ==
  /\ row[f].status = "none" /\ session = "live"
  /\ row' = [row EXCEPT ![f].status = "staged"]
  /\ disk' = [disk EXCEPT !.sources = @ \cup {f}]
  /\ Expected
  /\ UNCHANGED <<lock, workers, retry, cleaner, user, history>>

(* Failed: an end that takes the lease with it.  Fenced: one that also       *)
(* leaves the worker that may still hold it without its generation.          *)
Failed(r, error) == [r EXCEPT !.extract = "failed", !.error = error, !.lease = "none"]
Fenced(r)        == [r EXCEPT !.generation = @ + 1, !.lease = "none"]

FailStaleSubmissions ==
  LET stale == {f \in Files : /\ InWork(row[f])
                              /\ row[f].error = "submission_started"
                              /\ row[f].lease = "expired"}
  IN /\ stale # {} /\ \A f \in stale : Free(f)
     /\ row' = [f \in Files |-> IF f \in stale THEN Fenced(Failed(row[f], "other"))
                                ELSE row[f]]
     /\ Expected
     /\ UNCHANGED <<disk, lock, workers, retry, cleaner, user, history>>

Available == MaxConcurrency - Cardinality({f \in Files : Live(row[f])})

(* Fault: the claim does not look at the receipt of a submission. *)
ClaimableInDoubt(r) == InWork(r) /\ r.lease # "live"

Claimable(r) ==
  InWork(r) /\ r.error # "submission_started" /\ r.lease # "live"

Claimed(r) == [r EXCEPT !.lease = "live", !.generation = @ + 1]

(* ClaimRecoverableOCRTasks: jobs that have a task first, locked rows are    *)
(* skipped, and each claim is a new generation with a worker of its own.     *)
ClaimTasks(chosen) ==
  LET candidates == {f \in Files : Claimable(row[f]) /\ Free(f)}
      wanted == IF Cardinality(candidates) <= Available
                THEN Cardinality(candidates) ELSE Available
  IN /\ chosen # {} /\ chosen \subseteq candidates
     /\ Cardinality(chosen) = wanted
     /\ \A f \in chosen, g \in candidates \ chosen : row[g].task => row[f].task
     /\ row' = [f \in Files |->
                  IF f \in chosen THEN Claimed(row[f]) ELSE row[f]]
     /\ workers' = workers \cup
          {[file |-> f, gen |-> Claimed(row[f]).generation, task |-> row[f].task,
            attempts |-> 0, epoch |-> epoch[f], pc |-> "process"] : f \in chosen}
     /\ Expected
     /\ UNCHANGED <<disk, lock, retry, cleaner, user, history>>

(* The clock passes ocr_lease_until.  While its worker still runs, that is    *)
(* an overrun: the calls took longer than the lease allows for.              *)
LeaseExpires(f) ==
  /\ row[f].lease = "live"
  /\ row' = [row EXCEPT ![f].lease = "expired"]
  /\ IF \E w \in workers : w.file = f /\ w.gen = row[f].generation THEN Event ELSE Expected
  /\ UNCHANGED <<disk, lock, workers, retry, cleaner, user, history>>

-----------------------------------------------------------------------------
(* One worker, step by step *)

Goto(w, pc) == workers' = (workers \ {w}) \cup {[w EXCEPT !.pc = pc]}

Temp(w) == <<w.file, w.gen>>

(* The worker returns; what complete deferred, the removal of its temporary  *)
(* sidecar, happens now (no other path has written one).                     *)
Return(w) ==
  /\ workers' = workers \ {w}
  /\ disk' = [disk EXCEPT !.temps = @ \ {Temp(w)}]

Rest == <<lock, retry, cleaner, user, epoch>>

(* What process reclaims: the temporary sidecar of the generation before.    *)
Reclaimed(w) == {<<w.file, w.gen - 1>>}

(* A job that was never submitted waits while the policy forbids it; one     *)
(* that has a task is polled whatever the policy says.                       *)
Process(w) ==
  /\ w.pc = "process"
  /\ disk' = [disk EXCEPT !.temps = @ \ Reclaimed(w)]
  /\ \/ w.task /\ Goto(w, "poll") /\ Expected
     \/ ~w.task /\ Goto(w, "attempt") /\ Expected
     \/ ~w.task /\ Goto(w, "release") /\ Event
  /\ UNCHANGED <<row, submitted, Rest>>

(* An UPDATE under the WHERE clause of the lease, after which the worker      *)
(* returns whether or not the lease was still its own.                       *)
WriteAndReturn(w, r) ==
  /\ Free(w.file)
  /\ row' = IF Owned(w) THEN [row EXCEPT ![w.file] = r] ELSE row
  /\ Return(w)

(* Fault: the receipt of the submission outlives the lease. *)
ReleasedWithReceipt(w) == [row[w.file] EXCEPT !.lease = "none"]

ReleasedRow(w) == [row[w.file] EXCEPT !.lease = "none", !.error = "none"]

(* RecordOCRAttempt, before a submission or after a failed poll. *)
RecordAttempt(w) ==
  LET attempts == row[w.file].attempts + 1
      next == IF w.pc = "attempt" THEN "inspect"
              ELSE IF attempts >= MaxAttempts THEN "fail" ELSE "release"
  IN /\ w.pc \in {"attempt", "pollAttempt"}
     /\ Free(w.file)
     /\ IF Owned(w)
        THEN /\ row' = [row EXCEPT ![w.file].attempts = attempts]
             /\ workers' = (workers \ {w}) \cup
                             {[w EXCEPT !.attempts = attempts, !.pc = next]}
             /\ UNCHANGED disk
        ELSE Return(w) /\ UNCHANGED row
     /\ Expected
     /\ UNCHANGED <<submitted, Rest>>

(* The original is read and inspected: it is gone or refused, or there is an  *)
(* outage.                                                                   *)
Inspect(w) ==
  /\ w.pc = "inspect"
  /\ \/ Goto(w, "fail") /\ Expected
     \/ w.file \in disk.sources /\ Goto(w, "reserve") /\ Expected
     \/ w.file \in disk.sources /\ Goto(w, "retry") /\ Event
  /\ UNCHANGED <<row, disk, submitted, Rest>>

(* ReserveOCRSubmission: the receipt that a submission is about to happen,    *)
(* and the quota of the day unless the file was charged before.  The answer  *)
(* of the commit may be lost.                                                *)
Reserve(w) ==
  LET r == row[w.file]
      receipt == [row EXCEPT ![w.file].error = "submission_started",
                             ![w.file].started = TRUE]
  IN /\ w.pc = "reserve"
     /\ Free(w.file)
     /\ \/ /\ ~(Owned(w) /\ ~r.task /\ r.error = "none")
           /\ Return(w) /\ UNCHANGED row /\ Expected
        \/ /\ Owned(w) /\ ~r.task /\ r.error = "none"
           /\ \/ row' = receipt /\ Goto(w, "start") /\ UNCHANGED disk /\ Expected
              \/ row' = receipt /\ Return(w) /\ Event
              \/ ~r.started /\ Goto(w, "fail") /\ UNCHANGED <<row, disk>> /\ Expected
     /\ UNCHANGED <<submitted, Rest>>

(* StartMinerUOCR: taken; taken with the answer lost, or refused, which both  *)
(* end the job; or out of reach, which alone is tried again.                 *)
Start(w) ==
  LET mark == {<<w.file, w.epoch>>}
  IN /\ w.pc = "start"
     /\ \/ submitted' = submitted \cup mark /\ Goto(w, "record") /\ Expected
        \/ submitted' = submitted \cup mark /\ Goto(w, "fail") /\ Expected
        \/ UNCHANGED submitted /\ Goto(w, "fail") /\ Expected
        \/ UNCHANGED submitted /\ Goto(w, "retry") /\ Event
     /\ UNCHANGED <<row, disk, Rest>>

(* StartOCRTask.  An error of the database leads to FailOCRClaim, whether or *)
(* not the row has the task by then.                                         *)
Record(w) ==
  LET known == [row EXCEPT ![w.file].task = TRUE, ![w.file].error = "none",
                           ![w.file].extract = "ocr_running"]
  IN /\ w.pc = "record"
     /\ Free(w.file)
     /\ \/ ~Owned(w) /\ Return(w) /\ UNCHANGED row /\ Expected
        \/ Owned(w) /\ row' = known /\ Goto(w, "release") /\ UNCHANGED disk /\ Expected
        \/ Owned(w) /\ row' \in {known, row} /\ Goto(w, "fail") /\ UNCHANGED disk /\ Event
     /\ UNCHANGED <<submitted, Rest>>

(* PollMinerUOCR: done, failed, out of reach, or (also when the policy is     *)
(* not known) to be asked again later.                                       *)
Poll(w) ==
  /\ w.pc = "poll"
  /\ \/ \E pc \in {"write", "fail"} : Goto(w, pc) /\ Expected
     \/ \E pc \in {"pollAttempt", "release"} : Goto(w, pc) /\ Event
  /\ UNCHANGED <<row, disk, submitted, Rest>>

(* ReleaseOCRLease (after UpdateOCRRunning, which changes nothing here: the   *)
(* row of a task is ocr_running since Record).                               *)
Release(w) ==
  /\ w.pc = "release"
  /\ WriteAndReturn(w, ReleasedRow(w)) /\ Expected
  /\ UNCHANGED <<submitted, Rest>>

(* FailOCRClaim. *)
Fail(w) ==
  /\ w.pc = "fail"
  /\ WriteAndReturn(w, Failed(row[w.file], "other")) /\ Expected
  /\ UNCHANGED <<submitted, Rest>>

(* scheduleOCRRetry. *)
Retry(w) ==
  /\ w.pc = "retry"
  /\ WriteAndReturn(w, IF w.attempts >= MaxAttempts
                       THEN Failed(row[w.file], "other") ELSE ReleasedRow(w))
  /\ Expected
  /\ UNCHANGED <<submitted, Rest>>

(* complete: the text goes to a temporary sidecar of this generation, unless *)
(* it is empty, too large or cannot be written.                              *)
WriteTemp(w) ==
  /\ w.pc = "write"
  /\ \/ /\ disk' = [disk EXCEPT !.temps = @ \cup {Temp(w)}]
        /\ Goto(w, "lock")
     \/ Goto(w, "fail") /\ UNCHANGED disk
  /\ Expected
  /\ UNCHANGED <<row, submitted, Rest>>

(* CompleteOCRClaim: SELECT ... FOR UPDATE, and whose lease it is.           *)
LockCompletion(w) ==
  /\ w.pc = "lock"
  /\ Free(w.file)
  /\ IF Owned(w)
     THEN /\ lock' = [lock EXCEPT ![w.file] = w.gen]
          /\ Goto(w, "promote") /\ UNCHANGED disk
     ELSE Return(w) /\ UNCHANGED lock
  /\ Expected
  /\ UNCHANGED <<row, retry, cleaner, user, history>>

Unlock(w) == lock' = [lock EXCEPT ![w.file] = 0]

(* The rename of the sidecar; its failure rolls the transaction back.        *)
Promote(w) ==
  /\ w.pc = "promote"
  /\ \/ /\ Temp(w) \in disk.temps
        /\ disk' = [disk EXCEPT !.temps = @ \ {Temp(w)}, !.final[w.file] = w.gen]
        /\ Goto(w, "commit") /\ Expected /\ UNCHANGED lock
     \/ /\ Goto(w, "fail") /\ Unlock(w) /\ UNCHANGED disk
        /\ IF Temp(w) \in disk.temps THEN Event ELSE Expected
  /\ UNCHANGED <<row, retry, cleaner, user, history>>

Completed(w) ==
  [row[w.file] EXCEPT !.extract = "ready", !.error = "none", !.lease = "none",
                      !.estimate = w.gen]

(* The UPDATE, whose WHERE clause holds while the row is locked, and the      *)
(* commit.  When the commit reports an error, the transaction may have taken *)
(* effect or not, and the worker leaves the sidecar where it is.             *)
CommitCompletion(w) ==
  /\ w.pc = "commit" /\ Owned(w)
  /\ Unlock(w)
  /\ \/ /\ row' = [row EXCEPT ![w.file] = Completed(w)]
        /\ Goto(w, "source") /\ UNCHANGED disk /\ Expected
     \/ /\ row' \in {row, [row EXCEPT ![w.file] = Completed(w)]}
        /\ Return(w) /\ Event
  /\ UNCHANGED <<retry, cleaner, user, history>>

(* The original goes once its text is stored, and then its path; the row may *)
(* have become part of a message meanwhile, and then it keeps the path.      *)
RemoveSource(w) ==
  /\ w.pc = "source"
  /\ disk' = [disk EXCEPT !.sources = @ \ {w.file}]
  /\ Goto(w, "clear") /\ Expected
  /\ UNCHANGED <<row, submitted, Rest>>

ClearSource(w) ==
  LET r == row[w.file]
  IN /\ w.pc = "clear"
     /\ Free(w.file)
     /\ row' = IF r.generation = w.gen /\ r.status = "staged" /\ r.extract = "ready"
               THEN [row EXCEPT ![w.file].path = FALSE] ELSE row
     /\ Return(w) /\ Expected
     /\ UNCHANGED <<submitted, Rest>>

(* A statement or a removal fails and is logged, which is all: the lease is  *)
(* left to expire.                                                           *)
GiveUp(w) ==
  /\ w.pc \in {"attempt", "pollAttempt", "reserve", "release", "fail", "retry",
               "lock", "source", "clear"}
  /\ Return(w) /\ Event
  /\ UNCHANGED <<row, submitted, Rest>>

WorkerStep(w) ==
  \/ Process(w) \/ RecordAttempt(w) \/ Inspect(w) \/ Reserve(w) \/ Start(w)
  \/ Record(w) \/ Poll(w) \/ Release(w) \/ Fail(w) \/ Retry(w) \/ WriteTemp(w)
  \/ LockCompletion(w) \/ Promote(w) \/ CommitCompletion(w)
  \/ RemoveSource(w) \/ ClearSource(w) \/ GiveUp(w)

-----------------------------------------------------------------------------
(* The user: retry, message, deletion *)

(* RetryOCRFileHandler reads the row: a job in work goes straight to the     *)
(* check of its original, a failed one less than a day old is restarted.     *)
RetryRead(f) ==
  /\ retry[f] = "idle" /\ row[f].status \in {"staged", "formal"}
  /\ \/ /\ row[f].extract \in Pending
        /\ retry' = [retry EXCEPT ![f] = "stat"] /\ Expected
     \/ /\ row[f].extract = "failed" /\ row[f].path /\ f \notin old
        /\ retry' = [retry EXCEPT ![f] = "update"] /\ Event
  /\ UNCHANGED <<row, disk, lock, workers, cleaner, user, history>>

Restarted(r) ==
  [Fenced(r) EXCEPT !.extract = "ocr_pending", !.error = "none", !.task = FALSE,
                    !.attempts = 0]

RetryUpdate(f) ==
  /\ retry[f] = "update" /\ Free(f)
  /\ IF row[f].status = "staged" /\ row[f].extract = "failed"
     THEN /\ row' = [row EXCEPT ![f] = Restarted(@)]
          /\ epoch' = [epoch EXCEPT ![f] = @ + 1]
          /\ retry' = [retry EXCEPT ![f] = "stat"]
     ELSE /\ retry' = [retry EXCEPT ![f] = "idle"]
          /\ UNCHANGED <<row, epoch>>
  /\ Expected
  /\ UNCHANGED <<disk, lock, workers, cleaner, user, submitted>>

(* The row is read again and its original is looked for.                     *)
RetryStat(f) ==
  /\ retry[f] = "stat"
  /\ retry' = [retry EXCEPT ![f] = IF row[f].path /\ f \in disk.sources
                                   THEN "idle" ELSE "compensate"]
  /\ Expected
  /\ UNCHANGED <<row, disk, lock, workers, cleaner, user, history>>

(* Fault: the compensation trusts what the handler read before. *)
CompensatedBlindly(r) == Fenced(Failed(r, "other"))

(* markOCRSourceUnavailable: FailOCR knows no generation, but ends no job    *)
(* that is not in work.                                                      *)
Compensated(r) == IF InWork(r) THEN Fenced(Failed(r, "other")) ELSE r

RetryCompensate(f) ==
  /\ retry[f] = "compensate" /\ Free(f)
  /\ row' = [row EXCEPT ![f] = Compensated(@)]
  /\ retry' = [retry EXCEPT ![f] = "idle"]
  /\ Expected
  /\ UNCHANGED <<disk, lock, workers, cleaner, user, history>>

(* claimStagedAttachmentsForMessages: only a finished attachment is sent.    *)
AttachToMessage(f) ==
  /\ row[f].status = "staged" /\ row[f].extract = "ready" /\ Free(f)
  /\ session = "live"
  /\ row' = [row EXCEPT ![f].status = "formal"]
  /\ Expected
  /\ UNCHANGED <<disk, lock, workers, retry, cleaner, user, history>>

(* RequestDeletion, by the user or for an upload the browser cancelled (its   *)
(* retention is over at once).                                               *)
RequestDeletion(f) ==
  LET r == row[f]
      ended == IF r.extract \in Pending THEN Failed(r, "other") ELSE r
  IN /\ r.status \in {"staged", "formal"} /\ Free(f)
     /\ \E due \in BOOLEAN :
          row' = [row EXCEPT ![f] = [Fenced(ended) EXCEPT !.status = "cleanup_claimed",
                                                          !.due = due, !.cleaning = FALSE]]
     /\ Event
     /\ UNCHANGED <<disk, lock, workers, retry, cleaner, user, history>>

-----------------------------------------------------------------------------
(* The administrator's cleanup, one call at a time *)

(* older_than_hours is a day, as by default, or less; an upload that is not    *)
(* old may be old enough for the latter.                                     *)
PastCutoff(f, cutoff) == cutoff = "hours" \/ f \in old

Expirable(f, cutoff) ==
  /\ row[f].status \in {"staged", "formal"} /\ row[f].path /\ row[f].lease # "live"
  /\ \/ session = "lapsed"
     \/ row[f].status = "staged" /\ session = "live" /\ PastCutoff(f, cutoff)

Expired(r) ==
  IF r.extract \in Pending
  THEN [Fenced(Failed(r, "source_expired")) EXCEPT !.task = FALSE]
  ELSE Fenced(r)

(* ExpireStaleOCROriginals; locked rows are skipped.                         *)
CleanExpire ==
  /\ cleaner.pc = "idle" /\ Event
  /\ \E cutoff \in {"hours", "day"} :
       LET stale == {f \in Files : Expirable(f, cutoff) /\ Free(f)}
       IN /\ row' = [f \in Files |-> IF f \in stale THEN Expired(row[f]) ELSE row[f]]
          /\ cleaner' = [NoCleaner EXCEPT !.pc = "claim", !.cutoff = cutoff,
                                          !.expired = stale]
  /\ UNCHANGED <<disk, lock, workers, retry, user, history>>

(* Whether a row may be given to the cleanup of the storage. *)
Removable(f) ==
  LET r == row[f]
      idle == r.lease # "live" /\ r.extract \notin Pending
  IN \/ r.status = "staged" /\ PastCutoff(f, cleaner.cutoff) /\ idle
     \/ r.status = "formal" /\ session = "lapsed" /\ idle
     \/ r.status = "cleanup_claimed" /\ r.due /\ ~r.cleaning

(* ClaimFilesForStorageCleanup. *)
CleanClaim ==
  LET claim == {f \in Files : Removable(f) /\ Free(f)}
  IN /\ cleaner.pc = "claim"
     /\ row' = [f \in Files |->
                  IF f \in claim
                  THEN [row[f] EXCEPT !.status = "cleanup_claimed", !.due = TRUE,
                                      !.cleaning = TRUE]
                  ELSE row[f]]
     /\ cleaner' = [cleaner EXCEPT !.pc = "remove", !.cutoff = "day",
                                     !.claimed = claim]
     /\ Expected
     /\ UNCHANGED <<disk, lock, workers, retry, user, history>>

(* The bytes go first; a failure gives the claim back. *)
CleanRemove(f) ==
  /\ f \in cleaner.claimed
  /\ \/ /\ disk' = [disk EXCEPT !.sources = @ \ {f}, !.final[f] = 0]
        /\ cleaner' = [cleaner EXCEPT !.claimed = @ \ {f}, !.removed = @ \cup {f}]
        /\ UNCHANGED row /\ Expected
     \/ /\ cleaner' = [cleaner EXCEPT !.claimed = @ \ {f}]
        /\ row' = [row EXCEPT ![f].cleaning = FALSE]
        /\ UNCHANGED disk /\ Event
  /\ UNCHANGED <<lock, workers, retry, user, history>>

(* FinalizeFileStorageRemoval: with one call at a time, the claim token is   *)
(* still the one of this call.                                               *)
CleanFinalize(f) ==
  /\ f \in cleaner.removed
  /\ row' = [row EXCEPT ![f].status = "storage_removed", ![f].cleaning = FALSE]
  /\ cleaner' = [cleaner EXCEPT !.removed = @ \ {f}, !.expired = @ \ {f}]
  /\ Expected
  /\ UNCHANGED <<disk, lock, workers, retry, user, history>>

ClaimsAreDone == cleaner.pc = "remove" /\ cleaner.claimed \cup cleaner.removed = {}

(* The original of a row that expired at the start of the call; the row may  *)
(* have been restarted since.                                                *)
CleanOriginal(f) ==
  /\ ClaimsAreDone /\ f \in cleaner.expired
  /\ \/ /\ disk' = [disk EXCEPT !.sources = @ \ {f}]
        /\ cleaner' = [cleaner EXCEPT !.expired = @ \ {f}, !.originals = @ \cup {f}]
        /\ Expected
     \/ cleaner' = [cleaner EXCEPT !.expired = @ \ {f}] /\ UNCHANGED disk /\ Event
  /\ UNCHANGED <<row, lock, workers, retry, user, history>>

(* ClearOCRSourcePath. *)
CleanPath(f) ==
  LET r == row[f]
      over == r.extract = "ready" \/ (r.extract = "failed" /\ r.error = "source_expired")
  IN /\ f \in cleaner.originals /\ Free(f)
     /\ row' = IF r.status = "staged" /\ over THEN [row EXCEPT ![f].path = FALSE] ELSE row
     /\ cleaner' = [cleaner EXCEPT !.originals = @ \ {f}]
     /\ Expected
     /\ UNCHANGED <<disk, lock, workers, retry, user, history>>

CleanReturn ==
  /\ ClaimsAreDone /\ cleaner.expired \cup cleaner.originals = {}
  /\ cleaner' = NoCleaner
  /\ Expected
  /\ UNCHANGED <<row, disk, lock, workers, retry, user, history>>

-----------------------------------------------------------------------------
(* Time, and the process *)

(* A day after the upload.                                                   *)
GrowOld(f) ==
  /\ row[f].status # "none" /\ f \notin old
  /\ old' = old \cup {f}
  /\ Event
  /\ UNCHANGED <<row, disk, lock, workers, retry, cleaner, session, history>>

(* The session is deleted, and its files are kept for the time of retention. *)
EndSession ==
  /\ \/ session = "live" /\ session' = "deleted" /\ Event
     \/ session = "deleted" /\ session' = "lapsed" /\ Expected
  /\ UNCHANGED <<row, disk, lock, workers, retry, cleaner, old, history>>

(* cleanup_after and cleanup_lease_until pass. *)
RetentionEnds(f) ==
  /\ row[f].status = "cleanup_claimed"
  /\ \/ ~row[f].due /\ row' = [row EXCEPT ![f].due = TRUE]
     \/ /\ row[f].cleaning /\ f \notin cleaner.claimed \cup cleaner.removed
        /\ row' = [row EXCEPT ![f].cleaning = FALSE]
  /\ Expected
  /\ UNCHANGED <<disk, lock, workers, retry, cleaner, user, history>>

(* The process dies: its transactions roll back, its goroutines are gone, the *)
(* database and the disk stay, and the next process begins.                  *)
Crash ==
  /\ workers # {} \/ cleaner.pc # "idle" \/ \E f \in Files : retry[f] # "idle"
  /\ workers' = {}
  /\ lock' = [f \in Files |-> 0]
  /\ retry' = [f \in Files |-> "idle"]
  /\ cleaner' = NoCleaner
  /\ Event
  /\ UNCHANGED <<row, disk, user, history>>

Work == \E w \in workers : WorkerStep(w)

Loop == FailStaleSubmissions \/ \E chosen \in SUBSET Files : ClaimTasks(chosen)

UserStep(f) ==
  \/ QueueOcr(f) \/ RetryRead(f) \/ RetryUpdate(f) \/ RetryStat(f)
  \/ RetryCompensate(f) \/ AttachToMessage(f) \/ RequestDeletion(f)

CleanStep ==
  \/ CleanExpire \/ CleanClaim \/ CleanReturn
  \/ \E f \in Files : CleanRemove(f) \/ CleanFinalize(f) \/ CleanOriginal(f) \/ CleanPath(f)

Time == EndSession \/ \E f \in Files : LeaseExpires(f) \/ GrowOld(f) \/ RetentionEnds(f)

Next == Work \/ Loop \/ CleanStep \/ Time \/ Crash \/ \E f \in Files : UserStep(f)

Spec == Init /\ [][Next]_vars

(* The scheduler runs the workers, the ticker runs the loop, the clock moves, *)
(* and a transaction ends.  A worker takes finitely many steps, so no one of  *)
(* them can hold up another.  Nobody has to retry, delete or clean.           *)
FairSpec ==
  /\ Spec
  /\ WF_vars(Work) /\ WF_vars(Loop)
  /\ \A f \in Files : WF_vars(LeaseExpires(f))

-----------------------------------------------------------------------------
(* Safety *)

(* Whatever happens to leases, workers and the process, a job is submitted to *)
(* MinerU at most once for each time the user asked for it, unless the        *)
(* service refused it: when a worker is about to submit, no other worker is,  *)
(* and none has before in this epoch.  (The receipt ocr_submission_started,   *)
(* FailStaleOCRSubmissions and the claim that skips it.)                      *)
SubmittedOncePerRequest ==
  \A w \in workers : w.pc = "start" =>
    /\ <<w.file, w.epoch>> \notin submitted
    /\ \A v \in workers : v.pc = "start" /\ v.file = w.file /\ v.epoch = w.epoch => v = w

(* The text on disk is the text the row was completed with: no late worker    *)
(* replaces the sidecar of the winner, before or after its commit.            *)
(* (CompleteOCRClaim: the rename happens under the row's lock.)               *)
RowDescribesText ==
  \A f \in Files : row[f].status \in {"staged", "formal"} /\ row[f].extract = "ready"
    => row[f].estimate > 0 /\ disk.final[f] = row[f].estimate

(* After the storage of a file was removed, no late result or retry brings    *)
(* its text or its original back (the promise of CleanupOrphanFilesHandler).  *)
RemovedStaysRemoved ==
  \A f \in Files : row[f].status = "storage_removed" =>
    disk.final[f] = 0 /\ f \notin disk.sources

(* Rows and disk agree, from the promotion of a text to its removal. *)
FilesMatchRows == TypeOK /\ RowDescribesText /\ RemovedStaysRemoved

(* A job that ended stays as it ended until the user restarts it, and a       *)
(* finished one is never run again: not by a worker whose lease is gone, a    *)
(* stale reconciliation, or the compensation of a retry (FailOCR).            *)
EndedStaysEnded ==
  [][\A f \in Files : row[f].extract \in {"ready", "failed"} /\ row'[f].extract # row[f].extract
       => row[f].extract = "failed" /\ epoch'[f] = epoch[f] + 1]_vars

(* Every queued job ends, or its file is deleted, whatever worker or process  *)
(* is lost on the way, once crashes and outages stop.                         *)
JobsEnd == \A f \in Files : InWork(row[f]) ~> ~InWork(row[f])
=============================================================================
