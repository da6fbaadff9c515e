---------------------------- MODULE AuthLimiter ----------------------------
(***************************************************************************)
(* AuthRateLimiter: how many sign-ins may fail from one address.           *)
(*                                                                         *)
(* Allow is asked before the service and RecordFailure or Reset told after *)
(* it, so requests served at the same time are all let in by the same      *)
(* count.  The failures of an entry are also kept per account, so that a   *)
(* success takes back the failures of its own account.  The limiter knows  *)
(* an account by the name that was typed, trimmed and in lower case, while *)
(* accounts are told apart by case and blanks; and a name that is blank is *)
(* counted, but never given back.                                          *)
(***************************************************************************)
EXTENDS Naturals, FiniteSets, Functions

CONSTANTS
  Sources,     \* addresses of clients
  Names,       \* account names they try, as typed
  AccountKeys, \* what the limiter keeps accounts by
  KeyOf,       \* strings.ToLower(strings.TrimSpace(account)) of a name
  BlankKey,    \* "", the key of a name of blanks
  Attempts,    \* requests served at the same time
  MaxAttempts  \* AUTH_RATE_LIMIT_MAX_ATTEMPTS

ASSUME LimiterAssumption ==
  /\ MaxAttempts \in Nat \ {0} /\ IsFiniteSet(Attempts)
  /\ IsFiniteSet(AccountKeys) /\ KeyOf \in [Names -> AccountKeys]

VARIABLES
  limiter,   \* per source: failures by key, whether the window is open, the block
  attempt,   \* the requests being served
  guesses    \* history: failed sign-ins per source and key, less those given back

limiterVars == <<limiter, attempt, guesses>>

Forgotten == [failures |-> [k \in AccountKeys |-> 0], open |-> FALSE, blocked |-> FALSE]
NoAttempt == [phase |-> "none"]
Attempt == {NoAttempt} \union [phase: {"allowed", "failed", "passed"}, source: Sources, name: Names]

\* An entry whose window has passed counts for nothing, unless it blocks.
Counted(s) == IF limiter[s].open THEN limiter[s] ELSE Forgotten

\* RecordFailure: a failure opens a window, or joins the open one.  One that
\* was let in before a block and fails after its window starts from nothing
\* too, and takes the block with it.
Failed(s, n) ==
  LET entry == Counted(s)
      failures == [entry.failures EXCEPT ![KeyOf[n]] = @ + 1]
  IN [failures |-> failures, open |-> TRUE,
      blocked |-> entry.blocked \/ SumFunction(failures) >= MaxAttempts]

\* A success that clears the source.
ForgivenAll(s, n) == Forgotten

\* removeAccountFailuresLocked: the failures of one key are taken back, and the
\* block when too few others are left to justify it.
TakenBack(s, k) ==
  LET failures == [limiter[s].failures EXCEPT ![k] = 0]
  IN IF limiter[s].failures[k] = 0 THEN limiter[s]
     ELSE IF SumFunction(failures) = 0 THEN Forgotten
     ELSE [limiter[s] EXCEPT !.failures = failures,
                             !.blocked = @ /\ SumFunction(failures) >= MaxAttempts]

\* Reset: a success takes back the failures of all names with its key.
Forgiven(s, n) == IF KeyOf[n] = BlankKey THEN limiter[s] ELSE TakenBack(s, KeyOf[n])

\* The guesses at a source, when those at a name are given back.
Unguessed(s, n) ==
  IF KeyOf[n] = BlankKey THEN guesses[s] ELSE [guesses[s] EXCEPT ![KeyOf[n]] = 0]

-----------------------------------------------------------------------------
LimiterInit ==
  /\ limiter = [s \in Sources |-> Forgotten]
  /\ attempt = [t \in Attempts |-> NoAttempt]
  /\ guesses = [s \in Sources |-> [k \in AccountKeys |-> 0]]

\* Allow: a blocked source is turned away; an expired entry goes.
Allow(t, s, n) ==
  /\ attempt[t].phase = "none"
  /\ ~limiter[s].blocked
  /\ limiter' = [limiter EXCEPT ![s] = Counted(s)]
  /\ attempt' = [attempt EXCEPT ![t] = [phase |-> "allowed", source |-> s, name |-> n]]
  /\ UNCHANGED guesses

\* The service decides: any error counts, a wrong password or a name taken.
Decide(t, passed) ==
  LET a == attempt[t] IN
  /\ a.phase = "allowed"
  /\ attempt' = [attempt EXCEPT ![t].phase = IF passed THEN "passed" ELSE "failed"]
  /\ guesses' = IF passed THEN guesses ELSE [guesses EXCEPT ![a.source][KeyOf[a.name]] = @ + 1]
  /\ UNCHANGED limiter

RecordFailure(t) ==
  LET a == attempt[t] IN
  /\ a.phase = "failed"
  /\ limiter' = [limiter EXCEPT ![a.source] = Failed(a.source, a.name)]
  /\ attempt' = [attempt EXCEPT ![t] = NoAttempt]
  /\ UNCHANGED guesses

Reset(t) ==
  LET a == attempt[t] IN
  /\ a.phase = "passed"
  /\ limiter' = [limiter EXCEPT ![a.source] = Forgiven(a.source, a.name)]
  /\ guesses' = [guesses EXCEPT ![a.source] = Unguessed(a.source, a.name)]
  /\ attempt' = [attempt EXCEPT ![t] = NoAttempt]

\* An administrator activates an account: it may be tried again from anywhere.
ResetAccount(n) ==
  /\ limiter' = [s \in Sources |-> Forgiven(s, n)]
  /\ guesses' = [s \in Sources |-> Unguessed(s, n)]
  /\ UNCHANGED attempt

\* The window of a source ends, after which its guesses count afresh; what is
\* left is the block, if there is one.
WindowEnds(s) ==
  /\ limiter[s].open
  /\ limiter' = [limiter EXCEPT ![s] =
       IF limiter[s].blocked THEN [@ EXCEPT !.open = FALSE] ELSE Forgotten]
  /\ guesses' = [guesses EXCEPT ![s] = [k \in AccountKeys |-> 0]]
  /\ UNCHANGED attempt

\* A block lasts longer than the window it was set in (15 and 10 minutes).
BlockEnds(s) ==
  /\ limiter[s].blocked /\ ~limiter[s].open
  /\ limiter' = [limiter EXCEPT ![s] = Forgotten]
  /\ UNCHANGED <<attempt, guesses>>

LimiterNext ==
  \/ \E t \in Attempts :
       \/ \E s \in Sources, n \in Names : Allow(t, s, n)
       \/ \E passed \in BOOLEAN : Decide(t, passed)
       \/ RecordFailure(t) \/ Reset(t)
  \/ \E n \in Names : ResetAccount(n)
  \/ \E s \in Sources : WindowEnds(s) \/ BlockEnds(s)

LimiterSpec == LimiterInit /\ [][LimiterNext]_limiterVars

-----------------------------------------------------------------------------
\* In one window a source fails at most MaxAttempts times, and once more for
\* each other request that was let in before the last failure was counted;
\* only a success of the same name, but for case and outer blanks, or an
\* administrator gives attempts at a name back, never a success of another
\* name, and nobody those at a blank one.
AttemptsAreBounded ==
  \A s \in Sources : SumFunction(guesses[s]) < MaxAttempts + Cardinality(Attempts)
=============================================================================
