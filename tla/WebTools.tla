------------------------------ MODULE WebTools ------------------------------
(***************************************************************************)
(* The web searches and page reads one run makes in parallel.  Each asks   *)
(* its services one after the other, within one budget.  A page that was   *)
(* read may be refined by a small model the reads of the run share: two    *)
(* may hold it, and the first outage of the model ends its use.            *)
(***************************************************************************)
EXTENDS Integers, Sequences, FiniteSetsExt

CONSTANTS
  Calls,      \* calls of the two tools
  Searchers,  \* configured search services, in their order
  Crawlers,   \* configured page services, in their order
  Keyed,      \* services that have the key or the address they need
  Utilities,  \* models that may refine, in the order of their channels
  Preferred,  \* the one the setting names
  Timeout,    \* the budget of a call
  SlotCount   \* reads that may hold the model

ASSUME WebAssumption == Timeout \in Nat \ {0} /\ SlotCount \in Nat \ {0} /\ Utilities \subseteq Nat \ {0}

\* A search without a list of services asks the one that is named.
ASSUME CallsAssumption == /\ IsFiniteSet(Calls) /\ Crawlers \in Seq(STRING)
                          /\ Searchers \in Seq(STRING) /\ Searchers # <<>>

VARIABLES
  call,     \* of each call, its step and what it has
  refiner,  \* the model of the run, 0 for none
  down,     \* the model is known to fail
  cooldown,  \* the newest task record of the session asks to wait: "no", "before" or "now"
  stopped,  \* the context of the run has ended
  outages   \* calls for which the model really failed

webVars == <<call, refiner, down, cooldown, stopped, outages>>

NewCall == [step |-> "new"]
\* The page service that needs no provider goes last.
Providers[i \in 0..Len(Crawlers)] ==
  IF i = 0 THEN <<>> ELSE IF Crawlers[i] = "basic" THEN Providers[i - 1] ELSE Append(Providers[i - 1], Crawlers[i])
Chain(kind) == IF kind = "search" THEN Searchers ELSE Append(Providers[Len(Crawlers)], "basic")

\* The preferred model if it is enabled and its channel answers, or the first that is.
UtilityModel(usable) ==
  IF Preferred \in usable THEN Preferred
  ELSE IF usable = {} THEN 0 ELSE CHOOSE m \in usable : \A n \in usable : m <= n
RefinerOf(enabled, usable) == IF enabled THEN UtilityModel(usable) ELSE 0

WebInit ==
  /\ call = [c \in Calls |-> NewCall]
  /\ \E enabled \in BOOLEAN, usable \in SUBSET Utilities : refiner = RefinerOf(enabled, usable)
  /\ down = FALSE /\ cooldown \in {"no", "before"} /\ stopped = FALSE /\ outages = {}

Step(c) == call[c].step
Steps(c, entry) == call' = [call EXCEPT ![c] = entry] /\ UNCHANGED <<refiner, stopped>>
Advances(c, step) == Steps(c, [call[c] EXCEPT !.step = step])
Untouched == UNCHANGED <<down, cooldown, outages>>

\* What the model of the run is given; "late" when the run had ended by then.
Gives(c, result) == Steps(c, [step |-> "done", result |-> result, late |-> stopped])
Error == [kind |-> "error"]
GiveUp(c) == Gives(c, Error) /\ Untouched

-----------------------------------------------------------------------------
\* Half of what is left or more for the services at the head of a chain.
Weight(i) == CASE i = 1 -> 4 [] i = 2 -> 2 [] OTHER -> 1
WeightFrom(i, total) == MapThenSumSet(Weight, i..total)
\* As it would be if every service could use all the time that is left.
WholeBudget(left, i, total) == left
Budget(left, i, total) == (left * Weight(i)) \div WeightFrom(i, total)

\* A service fails, finds nothing, or has a page: "cut" if it was too long to
\* be read to its end, "long" if it is longer than an answer may be.
Nothing == [ok |-> FALSE, cut |-> FALSE, long |-> FALSE]
Pages == {p \in [ok : {TRUE}, cut : BOOLEAN, long : BOOLEAN] : p.cut => p.long}
Found == [ok |-> TRUE, cut |-> FALSE, long |-> FALSE]
Needs(service, answers) == IF service \in Keyed THEN answers ELSE {Nothing}

JinaAnswers == {Nothing} \union Pages
FirecrawlAnswers == {Nothing} \union Pages
TavilyAnswers == Needs("tavily", {Nothing} \union Pages)
ExaAnswers == Needs("exa", {Nothing} \union Pages)
\* An address that is not public, a status, a type, an encoding or a
\* challenge it cannot take, and a page without text, are failures.
BasicAnswers == {Nothing} \union Pages
PageAnswers(service) ==
  CASE service = "jina" -> JinaAnswers [] service = "firecrawl" -> FirecrawlAnswers
    [] service = "tavily" -> TavilyAnswers [] service = "exa" -> ExaAnswers
    [] service = "basic" -> BasicAnswers [] OTHER -> {Nothing}

SearXNGAnswers == Needs("searxng", {Nothing, Found})
TavilySearchAnswers == {Nothing, Found}
BraveAnswers == Needs("brave", {Nothing, Found})
ExaSearchAnswers == Needs("exa", {Nothing, Found})
BochaAnswers == Needs("bocha", {Nothing, Found})
SearchAnswers(service) ==
  CASE service = "searxng" -> SearXNGAnswers [] service = "tavily" -> TavilySearchAnswers
    [] service = "brave" -> BraveAnswers [] service = "exa" -> ExaSearchAnswers
    [] service = "bocha" -> BochaAnswers [] OTHER -> {Nothing}
Answers(kind, service) == IF kind = "search" THEN SearchAnswers(service) ELSE PageAnswers(service)

\* A malformed request, or an address the policy refuses, asks no service.
BeginCall(c, kind) ==
  /\ Step(c) = "new"
  /\ \/ ~(kind = "extract" /\ stopped) /\ Steps(c, [step |-> "ask", kind |-> kind, at |-> 1, left |-> Timeout]) /\ Untouched
     \/ GiveUp(c)
     \/ kind = "extract" /\ ~stopped /\ Gives(c, [kind |-> "refused"]) /\ Untouched

\* After a failure the next service is asked, unless the time or the run is
\* over.  A read whose run is over is an error; a search says that it failed.
ServiceFailed(c, left) ==
  LET chain == Chain(call[c].kind)  at == call[c].at IN
  IF call[c].kind = "extract" /\ stopped THEN Gives(c, Error)
  ELSE IF at < Len(chain) /\ left > 0 /\ ~stopped THEN Steps(c, [call[c] EXCEPT !.at = at + 1, !.left = left])
  ELSE Gives(c, [kind |-> "failed", of |-> call[c].kind, tried |-> at])
AskService(c) ==
  LET kind == call[c].kind  chain == Chain(kind)  left == call[c].left IN
  /\ Step(c) = "ask"
  /\ \E answer \in Answers(kind, chain[call[c].at]), used \in 0..Budget(left, call[c].at, Len(chain)) :
       IF ~answer.ok \/ (kind = "extract" /\ stopped) THEN ServiceFailed(c, left - used)
       ELSE IF kind = "search" THEN Gives(c, [kind |-> "found"])
       ELSE Steps(c, [step |-> "read", cut |-> answer.cut, long |-> answer.long,
                      basic |-> chain[call[c].at] = "basic"])
  /\ Untouched

-----------------------------------------------------------------------------
Page(summarized, reason, truncated) ==
  [kind |-> "page", summarized |-> summarized, reason |-> reason, truncated |-> truncated]
\* The text of the page itself, as much of it as an answer may hold.
Falls(c, reason) == Gives(c, Page(FALSE, reason, call[c].cut \/ call[c].long))

\* The source was asked for, or a short page of the local service: no model.
Finalize(c, source) ==
  /\ Step(c) = "read"
  /\ \/ stopped /\ Gives(c, Error)
     \/ /\ ~stopped
        /\ IF source \/ (call[c].basic /\ ~call[c].long) THEN Falls(c, "none")
           ELSE IF refiner # 0 THEN Steps(c, [step |-> "queue", cut |-> call[c].cut, long |-> call[c].long])
           ELSE IF call[c].basic THEN Falls(c, "none") ELSE Falls(c, "disabled")
  /\ Untouched

HoldsSlot(c) == Step(c) \in {"check", "ask model", "mark", "release"}
AcquireRefinement(c) ==
  /\ Step(c) = "queue"
  /\ \/ Cardinality({d \in Calls : HoldsSlot(d)}) < SlotCount /\ Advances(c, "check")
     \/ stopped /\ Gives(c, Error)
  /\ Untouched

Fallback(c, reason) == IF stopped THEN Gives(c, Error) ELSE Falls(c, reason)
\* What is known in the run first, then what the session's records say.
CheckModel(c) ==
  /\ Step(c) = "check"
  /\ \/ stopped /\ Gives(c, Error)
     \/ down /\ Fallback(c, "cooldown")
     \/ ~down /\ cooldown # "no" /\ Fallback(c, "cooldown")
     \/ ~down /\ Fallback(c, "unavailable")
     \/ ~stopped /\ ~down /\ cooldown = "no" /\ Advances(c, "ask model")
  /\ Untouched

\* No output in time, a broken stream and an empty answer are outages; so is,
\* here, the end of the run.
AskRefiner(c) ==
  /\ Step(c) = "ask model"
  /\ \/ \E long \in BOOLEAN :
          Steps(c, [step |-> "release", cut |-> call[c].cut, long |-> call[c].long, answered |-> TRUE, over |-> long])
          /\ UNCHANGED outages
     \/ /\ Steps(c, [step |-> "mark", cut |-> call[c].cut, long |-> call[c].long, answered |-> FALSE, over |-> FALSE])
        /\ outages' \in {outages \union {c}} \union (IF stopped THEN {outages} ELSE {})
  /\ UNCHANGED <<down, cooldown>>

\* The end of the run says nothing of the model.
MarkUnavailable(c) ==
  /\ Step(c) = "mark"
  /\ down' = (down \/ ~stopped) /\ Advances(c, "release") /\ UNCHANGED <<cooldown, outages>>
ReleaseRefinement(c) == Step(c) = "release" /\ Advances(c, "record") /\ Untouched

\* Best effort.  Only the newest record of the session counts.
RecordTaskRun(c) ==
  /\ Step(c) = "record"
  /\ cooldown' \in {cooldown, IF ~call[c].answered /\ ~stopped THEN "now" ELSE "no"}
  /\ Advances(c, "refined") /\ UNCHANGED <<down, outages>>

FinishRefinement(c) ==
  /\ Step(c) = "refined"
  /\ IF stopped THEN Gives(c, Error)
     ELSE IF call[c].answered THEN Gives(c, Page(TRUE, IF call[c].cut THEN "source_truncated" ELSE "none", call[c].cut \/ call[c].over))
     ELSE Falls(c, "failed")
  /\ Untouched

\* The user stops the run, the process drains.
StopRun == ~stopped /\ stopped' = TRUE /\ UNCHANGED <<call, refiner, down, cooldown, outages>>
CooldownEnds == cooldown # "no" /\ cooldown' = "no" /\ UNCHANGED <<call, refiner, down, stopped, outages>>

WebNext ==
  \/ \E c \in Calls :
       \/ (\E kind \in {"search", "extract"} : BeginCall(c, kind)) \/ AskService(c)
       \/ (\E source \in BOOLEAN : Finalize(c, source)) \/ AcquireRefinement(c) \/ CheckModel(c) \/ AskRefiner(c)
       \/ MarkUnavailable(c) \/ ReleaseRefinement(c) \/ RecordTaskRun(c) \/ FinishRefinement(c)
  \/ StopRun \/ CooldownEnds

WebSpec == WebInit /\ [][WebNext]_webVars

-----------------------------------------------------------------------------
\* However the reads of a run wait for the model, an outage reaches no more of
\* them than may hold it at a time, and the model is held to be out, in the
\* run and in the session, only after it was.
OutageStopsTheBatch ==
  /\ Cardinality(outages) <= SlotCount
  /\ down \/ cooldown = "now" => outages # {}

\* Every configured service has had its turn, whatever time the ones before it
\* took, when a call says that all failed in a run that goes on; no page is
\* given once the run has ended; the text of a page stands in for a summary as
\* a failure only where the model failed.
ResultIsHonest ==
  \A c \in Calls : Step(c) = "done" =>
    LET result == call[c].result IN
    /\ result.kind = "failed" => result.tried = Len(Chain(result.of)) \/ call[c].late
    /\ result.kind = "page" =>
         /\ ~call[c].late
         /\ result.reason = "failed" => c \in outages
         /\ result.summarized => c \notin outages /\ refiner # 0

\* What a call of the web says of the services and of the model is what happened.
ReadingIsHonest == OutageStopsTheBatch /\ ResultIsHonest
=============================================================================
