------------------------------- MODULE RunLedger -------------------------------
(***************************************************************************)
(* What the chat service promises about its runs, stated on the durable    *)
(* rows alone: the contract behind chat_run_reservations that RunLifecycle *)
(* implements with its hub, workers, finalizers, crashes and restarts.     *)
(***************************************************************************)
EXTENDS Naturals

CONSTANTS Runs, Sessions, SessionOf

VARIABLES
  ledger,  \* for each run: its status, cancel cause and stored answer batches
  open     \* the sessions that are not deleted

vars == <<ledger, open>>

Terminal == {"completed", "failed", "canceled"}
Causes   == {"", "user_stop", "first_output_timeout", "server_draining",
             "account_changed", "upstream_canceled"}
NoEntry  == [status |-> "none", cause |-> "", answers |-> 0]
Begun    == [NoEntry EXCEPT !.status = "running"]

(* How a run may end: completed with its answer and without a cause, or      *)
(* failed or canceled with at most one batch of what it had produced.  The   *)
(* deletion of its session is not among the ways: that is CloseSession.      *)
Outcome ==
  {o \in [status : Terminal, cause : Causes, answers : {0, 1}] :
     /\ o.status = "completed" => o.answers = 1 /\ o.cause = ""
     /\ o.status = "canceled" => o.cause # ""}

Live(r) == ledger[r].status = "running"

Init == /\ ledger = [r \in Runs |-> NoEntry]
        /\ open = Sessions

(* A run enters the ledger once, into an open session without a running one. *)
Admit(r) ==
  /\ ledger[r] = NoEntry /\ SessionOf[r] \in open
  /\ \A q \in Runs : SessionOf[q] = SessionOf[r] => ~Live(q)
  /\ ledger' = [ledger EXCEPT ![r] = Begun]
  /\ UNCHANGED open

(* Running entries end, together with their answer, and never change again. *)
EndSome(S) ==
  /\ \A r \in S : Live(r)
  /\ \E end \in [S -> Outcome] :
       ledger' = [r \in Runs |-> IF r \in S THEN end[r] ELSE ledger[r]]

End == \E S \in (SUBSET Runs) \ {{}} : EndSome(S) /\ UNCHANGED open

(* Deleting a session ends its run in the same step, without an answer. *)
CloseSession(s) ==
  /\ s \in open /\ open' = open \ {s}
  /\ ledger' = [r \in Runs |->
       IF SessionOf[r] = s /\ Live(r)
         THEN [status |-> "canceled", cause |-> "session_deleted", answers |-> 0]
         ELSE ledger[r]]

Next == \/ \E r \in Runs : Admit(r)
        \/ End
        \/ \E s \in Sessions : CloseSession(s)

Spec == Init /\ [][Next]_vars

(* Every admitted run ends. *)
FairSpec == Spec /\ \A r \in Runs : Live(r) ~> ledger[r].status \in Terminal
=============================================================================
