------------------------------- MODULE ToolCalls -------------------------------
(***************************************************************************)
(* The tool calls of the agent's runs, all of one user: the context budget  *)
(* a run shares among its parallel calls (tool_budget.go), the governance   *)
(* every call goes through (tool_governance.go), the daily quota that is    *)
(* reserved before a call executes (quota_repository.go), and the usage     *)
(* rows of tool and model calls (package usage).                            *)
(*                                                                         *)
(* A call is a goroutine.  Its steps are the sections under budgetMu, the   *)
(* transactions on tool_usage_events and the tool's execution; the stop of  *)
(* a run, a failing database, a crash and midnight come between any two.    *)
(* Token counts are those of the code for a model with the given Window.    *)
(***************************************************************************)
EXTENDS Integers, FiniteSets, FiniteSetsExt

CONSTANTS
  Runs,           \* chat runs of the user
  Calls,          \* the tool calls the model may make in them
  Tools,          \* names of mounted tools
  SkillTools,     \* isSkillTool: those whose name starts with skill_
  None,           \* no run, no tool
  Window,         \* ContextWindow of the model
  MaxRounds,      \* defaultToolRoundLimit (8 in the code)
  MaxCalls,       \* defaultToolCallLimit (24 in the code)
  Small,          \* tokens of a short tool result
  CallLimit,      \* daily_tool_call_limit of the user's group, 0 for none
  ToolLimit,      \* daily_web_search_limit, daily_web_extract_limit; 0 for none
  TokenLimit,     \* daily_token_limit, counted in model calls; 0 for none
  MaxEvents       \* bound of the instance: stops, failures, crashes, midnights

ASSUME SkillToolsAssumption == SkillTools \subseteq Tools
ASSUME LimitsAssumption ==
  /\ MaxRounds \in Nat \ {0} /\ MaxCalls \in Nat \ {0} /\ Window \in Nat \ {0}
  /\ CallLimit \in Nat /\ TokenLimit \in Nat /\ ToolLimit \in [Tools -> Nat]
ASSUME CallsAssumption == IsFiniteSet(Calls) /\ Small \in Nat
ASSUME NoneAssumption == None \notin Runs \cup Tools

VARIABLES
  run,      \* where a run is
  stopped,  \* the runs whose context is canceled
  budget,   \* toolBudgetMiddleware of a run, as new once the run is over
  call,     \* the calls
  rows,     \* tool_usage_events: the row of each call, or NoRow
  models,   \* model_usage_events
  tasks,    \* the goroutines of Service.Record that have not written yet
  service,  \* of the usage service: "open", "draining" or "drained"
  day,
  executed, \* history: the calls whose tool was started
  unheard,  \* history: the calls whose usage row a fault kept from its outcome
  events    \* how much of MaxEvents is spent

vars == <<run, stopped, budget, call, rows, models, tasks, service, day,
          executed, unheard, events>>

usage   == <<models, tasks, service>>
history == <<executed, unheard>>

Interferes == events < MaxEvents /\ events' = events + 1

-----------------------------------------------------------------------------
(* The numbers of newToolBudgetMiddleware.                                   *)

MinOf(a, b) == IF a < b THEN a ELSE b
MaxOf(a, b) == IF a > b THEN a ELSE b

MinGrant == 512                                     \* minToolResultGrantTokens

\* terminalToolReserveTokens: kept for notices, unless no result would fit then.
TerminalReserve(maximum) ==
  LET reserve == MinOf(576, maximum \div 4)
  IN  IF maximum - reserve < MinGrant THEN maximum ELSE reserve

MaxContext == MinOf(MaxOf(Window \div 8, MinOf(2048, Window \div 4)), 32000)
Usable     == MaxContext - TerminalReserve(MaxContext)
MaxResult  == MinOf(8000, IF MaxContext \div 4 < MinGrant /\ Usable >= MinGrant
                          THEN MinGrant ELSE MaxContext \div 4)
MaxSkill   == MinOf(MaxContext \div 2, 12000)
PerNotice  == MaxOf(TerminalReserve(MaxContext) \div MaxCalls, 8)

NewBudget ==
  [used |-> 0, reserved |-> 0, skillUsed |-> 0, skillReserved |-> 0,
   skillBlocked |-> FALSE, actual |-> 0, forceFinal |-> FALSE,
   noted |-> FALSE, rounds |-> 0, generated |-> 0]

-----------------------------------------------------------------------------
(* The sections under budgetMu; b is the budget, g the grant of the call.    *)

\* prepareToolCall: what is left for one result of the tool.
Limit(b, tool) ==
  LET context == MinOf(MaxResult, Usable - b.used - b.reserved)
  IN  IF tool \in SkillTools
      THEN MinOf(context, MaxSkill - b.skillUsed - b.skillReserved)
      ELSE context

\* As it would be without a look at the calls in flight.
SpentOrPending(b) == TRUE

\* Nothing in flight will give tokens back.
Spent(b)       == b.reserved = 0
SkillsSpent(b) == b.skillReserved = 0

\* prepareToolCall refuses the call, and may close the budget.
Refuses(b, tool) ==
  \/ b.forceFinal
  \/ tool \in SkillTools /\ b.skillBlocked
  \/ b.actual >= MaxCalls
  \/ Limit(b, tool) < MinGrant

Closed(b, tool) ==
  IF b.forceFinal \/ (tool \in SkillTools /\ b.skillBlocked) THEN b
  ELSE IF b.actual >= MaxCalls THEN [b EXCEPT !.forceFinal = TRUE]
  ELSE IF tool \in SkillTools /\ SkillsSpent(b) THEN [b EXCEPT !.skillBlocked = TRUE]
  ELSE IF Spent(b) THEN [b EXCEPT !.forceFinal = TRUE]
  ELSE b                      \* "pending": parallel calls hold the rest

Granted(b, tool, g) ==
  [b EXCEPT !.reserved = @ + g, !.actual = @ + 1,
            !.skillReserved = IF tool \in SkillTools THEN @ + g ELSE @]

\* Both ways a grant ends give its tokens back.
Returned(b, tool, g) ==
  [b EXCEPT !.reserved = MaxOf(@ - g, 0),
            !.skillReserved = IF tool \in SkillTools THEN MaxOf(@ - g, 0) ELSE @]

\* cancelToolGrant.
GrantCanceled(b, tool, g, releaseCall) ==
  [Returned(b, tool, g) EXCEPT !.actual = IF releaseCall THEN @ - 1 ELSE @]

\* The test at the end of finishToolResult and accountUnreservedResult.
FinalIfSpent(b) ==
  IF MaxContext - b.used < MinGrant /\ b.reserved = 0
  THEN [b EXCEPT !.forceFinal = TRUE] ELSE b

\* finishToolResult: the result was cut to the grant and takes consumed tokens.
Finished(b, tool, g, consumed) ==
  LET r == [Returned(b, tool, g) EXCEPT !.used = @ + consumed]
      s == IF tool \in SkillTools THEN [r EXCEPT !.skillUsed = @ + consumed] ELSE r
  IN  FinalIfSpent(IF /\ tool \in SkillTools
                      /\ MaxSkill - s.skillUsed < MinGrant
                      /\ s.skillReserved = 0
                   THEN [s EXCEPT !.skillBlocked = TRUE] ELSE s)

\* accountUnreservedResult: a notice takes what the reserve has for it.
Noticed(b) ==
  LET remaining == MaxContext - b.used - b.reserved
  IN  IF remaining <= 0 THEN b
      ELSE FinalIfSpent([b EXCEPT !.used = @ + MinOf(remaining, PerNotice)])

\* boundToolResultToTokens: whatever a tool returns fits its grant, cut or not.
ResultSizes(g) == {MinOf(Small, g), g}

\* truncateToolResultForContext: the envelope of a cut result keeps whether it was
\* ok, and not that it was degraded.
Bounded(outcome, cut) == IF cut /\ outcome = "degraded" THEN "excerpt" ELSE outcome

\* BeforeModelRewriteState, at the start of a model turn.
BeforeModel(b) ==
  IF \/ b.rounds >= MaxRounds \/ b.generated >= MaxCalls
     \/ b.actual >= MaxCalls \/ b.forceFinal
  THEN [b EXCEPT !.forceFinal = TRUE, !.noted = TRUE] ELSE b

-----------------------------------------------------------------------------
(* Quota and usage rows.                                                     *)

NoRow == [day |-> 0, tool |-> None, success |-> FALSE, error |-> "none"]

\* ReserveToolCall inserts the row as a success, before anything has run.
Reserved(tool) == [day |-> day, tool |-> tool, success |-> TRUE, error |-> "none"]

\* usageForTodayInTx, the tool counts: every row of today, finished or not.
Today       == {c \in Calls : rows[c].tool # None /\ rows[c].day = day}
UsedToday   == Cardinality(Today)
UsedOf(tool) == Cardinality({c \in Today : rows[c].tool = tool})
TokensToday == Cardinality({m \in models : m.day = day})

\* As it would be if only finished calls were counted.
ExceedsFinished(tool) ==
  LET ended == {c \in Today : call[c].pc = "done"}
  IN  \/ CallLimit > 0 /\ Cardinality(ended) >= CallLimit
      \/ ToolLimit[tool] > 0
         /\ Cardinality({c \in ended : rows[c].tool = tool}) >= ToolLimit[tool]

\* checkToolQuota.
Exceeds(tool) ==
  \/ CallLimit > 0 /\ UsedToday >= CallLimit
  \/ ToolLimit[tool] > 0 /\ UsedOf(tool) >= ToolLimit[tool]

\* inspectToolTerminalOutcome: what finishToolUsage writes about a result as the
\* model was given it; the excerpt of a degraded one looks like any other.
Inspected(outcome) ==
  [success |-> outcome \in {"ok", "excerpt"},
   error   |-> CASE outcome \in {"ok", "excerpt"} -> "none"
                 [] outcome = "degraded" -> "degraded"
                 [] outcome = "canceled" -> "canceled"
                 [] OTHER -> "failed"]

\* The filters of aggregateToolTotals, over the rows of the calls in S.
Degraded(c) == rows[c].tool = "web_extract" /\ rows[c].error = "degraded"

ToolTotals(S) ==
  [calls     |-> Cardinality(S),
   successes |-> Cardinality({c \in S : rows[c].success}),
   failures  |-> Cardinality({c \in S : ~rows[c].success /\ ~Degraded(c)}),
   degraded  |-> Cardinality({c \in S : Degraded(c)})]

\* aggregateByTool: the same filters, grouped.
Counted      == {c \in Calls : rows[c].tool # None}
ByTool(tool) == ToolTotals({c \in Counted : rows[c].tool = tool})

\* aggregateTotals.
ModelTotals ==
  [requests  |-> Cardinality(models),
   successes |-> Cardinality({m \in models : m.success}),
   failures  |-> Cardinality({m \in models : ~m.success /\ m.error # "canceled"}),
   canceled  |-> Cardinality({m \in models : ~m.success /\ m.error = "canceled"})]

-----------------------------------------------------------------------------
(* Runs and model turns.                                                     *)

Idle == [pc |-> "unused", run |-> None, tool |-> None, grant |-> 0, outcome |-> "none"]

CallsOf(r)  == {c \in Calls : call[c].run = r}
Unused      == {c \in Calls : call[c].pc = "unused"}
InFlight(r) == {c \in CallsOf(r) : call[c].pc \notin {"done", "lost"}}

\* The calls of r that hold a grant.
Granting(r) ==
  {c \in CallsOf(r) : call[c].pc \in {"granted", "refused", "refunded", "reserved", "executing"}}

Set(c, pc)           == call' = [call EXCEPT ![c].pc = pc]
SetOutcome(c, pc, o) == call' = [call EXCEPT ![c].pc = pc, ![c].outcome = o, ![c].grant = 0]
SetBudget(r, b)      == budget' = [budget EXCEPT ![r] = b]
Tool(c)  == call[c].tool
RunOf(c) == call[c].run
Grant(c) == call[c].grant
Budget(c) == budget[RunOf(c)]

\* CheckBeforeRun: the tokens are those recorded so far.
StartRun(r) ==
  /\ run[r] = "idle" /\ service = "open"
  /\ TokenLimit = 0 \/ TokensToday < TokenLimit
  /\ run' = [run EXCEPT ![r] = "model"]
  /\ UNCHANGED <<stopped, budget, call, rows, usage, day, history, events>>

\* recordingChatModel: a model call that ended, however it ended, is one event.
\* Service.Record takes it unless the service is draining.
Recorded(r, turn, ending) ==
  IF service # "open" THEN tasks
  ELSE tasks \cup {[run |-> r, turn |-> turn, success |-> ending = "ok",
                    error |-> IF ending = "ok" THEN "none" ELSE ending]}

\* A model turn: BeforeModelRewriteState, the model's stream, and the calls it
\* asks for.  With no call the turn is the answer.  A model that was forbidden
\* to call tools may call them all the same.
Turn(r, wanted, toolOf) ==
  LET b == BeforeModel(budget[r])
  IN  /\ run[r] = "model" /\ r \notin stopped
      /\ tasks' = Recorded(r, b.rounds, "ok")
      /\ SetBudget(r, IF wanted = {} THEN NewBudget
                      ELSE [b EXCEPT !.rounds = @ + 1, !.generated = @ + Cardinality(wanted)])
      /\ call' = [c \in Calls |-> IF c \in wanted
                                  THEN [Idle EXCEPT !.pc = "issued", !.run = r, !.tool = toolOf[c]]
                                  ELSE call[c]]
      /\ run' = [run EXCEPT ![r] = IF wanted = {} THEN "over" ELSE "tools"]
      /\ UNCHANGED <<stopped, rows, models, service, day, history, events>>

\* The model call fails, or its stream is closed by the stop of the run.
TurnFails(r) ==
  /\ run[r] = "model"
  /\ \/ r \in stopped /\ tasks' = Recorded(r, budget[r].rounds, "canceled") /\ UNCHANGED events
     \/ r \notin stopped /\ tasks' = Recorded(r, budget[r].rounds, "failed") /\ Interferes
  /\ SetBudget(r, NewBudget)
  /\ run' = [run EXCEPT ![r] = "over"]
  /\ UNCHANGED <<stopped, call, rows, models, service, day, history>>

\* The tools node returns when all calls of the round have.
RoundEnds(r) ==
  /\ run[r] = "tools" /\ InFlight(r) = {}
  /\ run' = [run EXCEPT ![r] = IF r \in stopped THEN "over" ELSE "model"]
  /\ SetBudget(r, IF r \in stopped THEN NewBudget ELSE budget[r])
  /\ UNCHANGED <<stopped, call, rows, usage, day, history, events>>

-----------------------------------------------------------------------------
(* One call through toolGovernanceMiddleware.                                *)

Prepare(c) ==
  /\ call[c].pc = "issued"
  /\ IF RunOf(c) \in stopped
     THEN SetOutcome(c, "done", "canceled") /\ UNCHANGED budget
     ELSE IF Refuses(Budget(c), Tool(c))
     THEN /\ SetBudget(RunOf(c), Closed(Budget(c), Tool(c)))
          /\ Set(c, "blocked")
     ELSE LET g == Limit(Budget(c), Tool(c))
          IN  /\ SetBudget(RunOf(c), Granted(Budget(c), Tool(c), g))
              /\ call' = [call EXCEPT ![c].pc = "granted", ![c].grant = g]
  /\ UNCHANGED <<run, stopped, rows, usage, day, history, events>>

\* A blocked call returns a notice, unless its run was stopped.
Notice(c) ==
  /\ call[c].pc = "blocked"
  /\ IF RunOf(c) \in stopped
     THEN SetOutcome(c, "done", "canceled") /\ UNCHANGED budget
     ELSE SetOutcome(c, "done", "blocked") /\ SetBudget(RunOf(c), Noticed(Budget(c)))
  /\ UNCHANGED <<run, stopped, rows, usage, day, history, events>>

\* ReserveToolCall, one transaction under the lock of the user's row.
Reserve(c) ==
  /\ call[c].pc = "granted"
  /\ \/ /\ ~Exceeds(Tool(c))
        /\ rows' = [rows EXCEPT ![c] = Reserved(Tool(c))]
        /\ Set(c, "reserved") /\ UNCHANGED <<unheard, events>>
     \/ /\ Exceeds(Tool(c))
        /\ Set(c, "refused") /\ UNCHANGED <<rows, unheard, events>>
     \/ /\ ~Exceeds(Tool(c))          \* the commit stands, its answer is lost
        /\ rows' = [rows EXCEPT ![c] = Reserved(Tool(c))]
        /\ unheard' = unheard \cup {c}
        /\ Set(c, "refused") /\ Interferes
     \/ Set(c, "refused") /\ UNCHANGED <<rows, unheard>> /\ Interferes
  /\ UNCHANGED <<run, stopped, budget, usage, day, executed>>

\* After a refusal the call is given back, and the error takes the grant.
Refund(c) ==
  /\ call[c].pc = "refused"
  /\ IF RunOf(c) \in stopped
     THEN /\ SetBudget(RunOf(c), GrantCanceled(Budget(c), Tool(c), Grant(c), TRUE))
          /\ SetOutcome(c, "done", "canceled")
     ELSE /\ SetBudget(RunOf(c), [Budget(c) EXCEPT !.actual = @ - 1])
          /\ Set(c, "refunded")
  /\ UNCHANGED <<run, stopped, rows, usage, day, history, events>>

FinishRefused(c) ==
  /\ call[c].pc = "refunded"
  /\ SetBudget(RunOf(c), Finished(Budget(c), Tool(c), Grant(c), MinOf(Small, Grant(c))))
  /\ SetOutcome(c, "done", "refused")
  /\ UNCHANGED <<run, stopped, rows, usage, day, history, events>>

\* The last look at the run's context before the tool starts.
Execute(c) ==
  /\ call[c].pc = "reserved"
  /\ IF RunOf(c) \in stopped
     THEN /\ SetBudget(RunOf(c), GrantCanceled(Budget(c), Tool(c), Grant(c), TRUE))
          /\ SetOutcome(c, "record", "canceled") /\ UNCHANGED executed
     ELSE /\ Set(c, "executing") /\ executed' = executed \cup {c} /\ UNCHANGED budget
  /\ UNCHANGED <<run, stopped, rows, usage, day, unheard, events>>

\* The tool returned, failed, ran into its timeout or was canceled.  The result is
\* cut to the grant before it is looked at.  One that is missing or blank gives
\* its tokens back and is replaced by a notice.
Return(c) ==
  /\ call[c].pc = "executing"
  /\ IF RunOf(c) \in stopped
     THEN /\ SetBudget(RunOf(c), GrantCanceled(Budget(c), Tool(c), Grant(c), FALSE))
          /\ SetOutcome(c, "record", "canceled")
     ELSE \/ \E size \in ResultSizes(Grant(c)), o \in {"ok", "degraded", "failed"}, cut \in BOOLEAN :
               /\ cut => size = Grant(c)
               /\ o = "degraded" => Tool(c) = "web_extract"
               /\ SetBudget(RunOf(c), Finished(Budget(c), Tool(c), Grant(c), size))
               /\ SetOutcome(c, "record", Bounded(o, cut))
          \/ /\ SetBudget(RunOf(c), Finished(Budget(c), Tool(c), Grant(c), 0))
             /\ Set(c, "blank")
          \/ /\ SetBudget(RunOf(c), GrantCanceled(Budget(c), Tool(c), Grant(c), FALSE))
             /\ Set(c, "blank")
  /\ UNCHANGED <<run, stopped, rows, usage, day, history, events>>

ReplaceBlank(c) ==
  /\ call[c].pc = "blank"
  /\ SetBudget(RunOf(c), Noticed(Budget(c)))
  /\ SetOutcome(c, "record", "failed")
  /\ UNCHANGED <<run, stopped, rows, usage, day, history, events>>

\* FinishToolSync: two seconds to write the outcome, then it is only logged.
Record(c) ==
  /\ call[c].pc = "record"
  /\ \/ /\ rows' = [rows EXCEPT ![c].success = Inspected(call[c].outcome).success,
                                ![c].error   = Inspected(call[c].outcome).error]
        /\ UNCHANGED <<unheard, events>>
     \/ unheard' = unheard \cup {c} /\ UNCHANGED rows /\ Interferes
  /\ Set(c, "done")
  /\ UNCHANGED <<run, stopped, budget, usage, day, executed>>

-----------------------------------------------------------------------------
(* Model usage, drain, and what interferes.                                  *)

\* recordSync: the row of a model call, or nothing but a line in the log.
WriteModel(t) ==
  /\ t \in tasks /\ tasks' = tasks \ {t}
  /\ \/ /\ models' = models \cup {[run |-> t.run, turn |-> t.turn, success |-> t.success,
                                   error |-> t.error, day |-> day]}
        /\ UNCHANGED events
     \/ UNCHANGED models /\ Interferes
  /\ UNCHANGED <<run, stopped, budget, call, rows, service, day, history>>

Stop(r) ==
  /\ run[r] \in {"model", "tools"} /\ r \notin stopped /\ Interferes
  /\ stopped' = stopped \cup {r}
  /\ UNCHANGED <<run, budget, call, rows, usage, day, history>>

\* Service.Drain: no new task, and the wait for those under way.
BeginDrain ==
  /\ service = "open" /\ Interferes /\ service' = "draining"
  /\ UNCHANGED <<run, stopped, budget, call, rows, models, tasks, day, history>>

Drained ==
  /\ service = "draining" /\ tasks = {} /\ service' = "drained"
  /\ UNCHANGED <<run, stopped, budget, call, rows, models, tasks, day, history, events>>

Crash ==
  /\ Interferes
  /\ run' = [r \in Runs |-> IF run[r] \in {"model", "tools"} THEN "over" ELSE run[r]]
  /\ call' = [c \in Calls |-> IF call[c].pc \in {"unused", "done"} THEN call[c]
                              ELSE [call[c] EXCEPT !.pc = "lost", !.grant = 0]]
  /\ budget' = [r \in Runs |-> NewBudget]
  /\ tasks' = {} /\ service' = "open"
  /\ UNCHANGED <<stopped, rows, models, day, history>>

Midnight ==
  /\ Interferes /\ day' = day + 1
  /\ UNCHANGED <<run, stopped, budget, call, rows, usage, history>>

Init ==
  /\ run = [r \in Runs |-> "idle"] /\ stopped = {}
  /\ budget = [r \in Runs |-> NewBudget]
  /\ call = [c \in Calls |-> Idle] /\ rows = [c \in Calls |-> NoRow]
  /\ models = {} /\ tasks = {} /\ service = "open"
  /\ day = 1 /\ executed = {} /\ unheard = {} /\ events = 0

OfRun(r) ==
  \/ StartRun(r) \/ TurnFails(r) \/ RoundEnds(r) \/ Stop(r)
  \/ \E wanted \in SUBSET Unused : \E toolOf \in [wanted -> Tools] : Turn(r, wanted, toolOf)

OfCall(c) ==
  \/ Prepare(c) \/ Notice(c) \/ Reserve(c) \/ Refund(c) \/ FinishRefused(c)
  \/ Execute(c) \/ Return(c) \/ ReplaceBlank(c) \/ Record(c)

Next ==
  \/ \E r \in Runs : OfRun(r)
  \/ \E c \in Calls : OfCall(c)
  \/ \E t \in tasks : WriteModel(t)
  \/ BeginDrain \/ Drained \/ Crash \/ Midnight

Spec == Init /\ [][Next]_vars

-----------------------------------------------------------------------------
(* Properties.                                                               *)

\* Parallel calls of a run never take more of the context than the run has,
\* notices included, and never more for skills; and what is reserved is what
\* the calls in flight hold, so no way a call can end leaks its grant.
BudgetIsKept ==
  \A r \in Runs :
    /\ budget[r].used + budget[r].reserved <= MaxContext
    /\ budget[r].skillUsed + budget[r].skillReserved <= MaxSkill
    /\ budget[r].reserved = MapThenSumSet(Grant, Granting(r))
    /\ budget[r].skillReserved =
         MapThenSumSet(Grant, {c \in Granting(r) : Tool(c) \in SkillTools})

\* A run is told to answer only when its budget is spent for good: tokens that
\* parallel calls will give back are not a reason.  Once told, no tool starts.
FinalMeansSpent ==
  \A r \in Runs :
    /\ budget[r].forceFinal =>
         \/ budget[r].rounds >= MaxRounds \/ budget[r].generated >= MaxCalls
         \/ Usable - budget[r].used < MinGrant
    /\ budget[r].noted => \A c \in CallsOf(r) : call[c].pc # "executing"

\* However calls of parallel runs interleave, the tools that ran on a day are
\* never more than the limits of that day.
DailyLimitsHold ==
  \A d \in 1..day :
    LET ran == {c \in executed : rows[c].day = d}
    IN  /\ CallLimit > 0 => Cardinality(ran) <= CallLimit
        /\ \A tool \in Tools : ToolLimit[tool] > 0 =>
             Cardinality({c \in ran : rows[c].tool = tool}) <= ToolLimit[tool]

\* When a call is over its row tells whether the model was given a result that
\* was fine, unless a fault kept it from being written; only the excerpt of a
\* degraded result counts as fine though it is not.  A call whose tool ran has a
\* row; a call that never reserved has none.
OutcomesAreRecorded ==
  \A c \in Calls :
    /\ c \in executed => rows[c].tool = call[c].tool
    /\ call[c].pc = "done" /\ c \notin unheard =>
         \/ rows[c] = NoRow /\ call[c].outcome \in {"canceled", "blocked", "refused"}
         \/ /\ rows[c].success = (call[c].outcome \in {"ok", "excerpt"})
            /\ Degraded(c) <=> call[c].outcome = "degraded"
            /\ call[c].outcome \in {"ok", "degraded", "excerpt", "failed", "canceled"}

\* The statistics page splits the tool calls into successes, failures and
\* degraded ones, and the requests into successes, failures and canceled ones:
\* each is counted exactly once.
StatisticsAddUp ==
  /\ \A tool \in Tools :
       ByTool(tool).calls = ByTool(tool).successes + ByTool(tool).failures + ByTool(tool).degraded
  /\ ModelTotals.requests = ModelTotals.successes + ModelTotals.failures + ModelTotals.canceled

\* Parallel calls share the budget without leak, and it is not closed before its time.
BudgetIsFair == BudgetIsKept /\ FinalMeansSpent

\* The day's limits hold, and every call is in the statistics as what it was.
UsageIsCounted == DailyLimitsHold /\ OutcomesAreRecorded /\ StatisticsAddUp
=============================================================================
