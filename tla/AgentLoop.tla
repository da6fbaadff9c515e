------------------------------- MODULE AgentLoop -------------------------------
(***************************************************************************)
(* One run of the agent, from the arming of its first-output guard to what  *)
(* is stored: the attempts of a model call and their retry                  *)
(* (model_retry.go), the stream seen at the provider's edge (observer.go)   *)
(* and again by the loop that shows it to the client (eino_stream.go), the  *)
(* turns of RunPreparedChat (eino_agent.go), the messages it makes of them  *)
(* (eino_messages.go, eino_response.go), and the run's end                  *)
(* (stream_run_handler.go).  A run compresses its session instead when kind *)
(* is "compact": two model tasks side by side (stream_handler.go).          *)
(*                                                                         *)
(* Two goroutines read a stream: the retry layer of the agent framework,    *)
(* which is external, reads it raw, and the loop takes from wire what the   *)
(* raw reader left there.  A timer, a stop and the deletion of the session  *)
(* come between any two steps.  Rejected writes are left to RunLifecycle.   *)
(***************************************************************************)
EXTENDS Naturals, Sequences, FiniteSets, SequencesExt

CONSTANTS
  RunKinds,     \* subset of {"chat", "compact"}
  Errors,       \* what a provider's failure looks like: [status, text]
  MaxRetries,   \* maxModelRetries (1 in the code)
  MaxTurns,     \* defaultAgentMaxIterations: model turns of a run (20 in the code)
  MaxChunks,    \* bound of the instance: chunks of an attempt
  MaxTries      \* tries of memory maintenance beside a compression (2 in the code)

ASSUME BoundsAssumption ==
  /\ RunKinds \subseteq {"chat", "compact"}
  /\ MaxRetries \in Nat /\ MaxTurns \in Nat \ {0} /\ MaxChunks \in Nat /\ MaxTries \in Nat \ {0}

VARIABLES
  kind,      \* of the run
  pc,        \* where the owner of the run's output is
  gate,      \* outputGate of the run, and of memory maintenance
  cause,     \* of the end of the run's context: "none", "timeout", "stop" or "deleted"
  turn,      \* the turn of the model, from 1
  attempt,   \* the attempt of the turn, from 1
  wire,      \* chunks the raw reader has and the loop has not
  got,       \* chunks the loop has of this attempt
  end,       \* how the raw stream ended: "open", "stop", "limit", "retry" or "error"
  held,      \* text thinkSplitter holds back
  emitted,   \* runes shown of this attempt
  shown,     \* what the client has on its screen
  produced,  \* messages of the turns so far
  response,  \* what RunPreparedChat or RunPreparedCompaction returned
  memory,    \* the maintenance beside a compression
  outcome,   \* of the run: "none", "completed", "failed" or "canceled"
  stored,    \* messages committed with the outcome
  lost       \* history: a tool result could not be read

vars == <<kind, pc, gate, cause, turn, attempt, wire, got, end, held, emitted,
          shown, produced, response, memory, outcome, stored, lost>>

stream  == <<wire, got, end, held, emitted>>
verdict == <<response, outcome, stored, lost>>

-----------------------------------------------------------------------------
(* Errors of a provider: classifyModelRuntimeError.                          *)

\* classifyModelHTTPStatus.
OfStatus(status) ==
  CASE status \in {408, 409, 425, 429} -> "transient"
    [] status \in {401, 403} -> "access"
    [] status \in {400, 404, 422} -> "configuration"
    [] status \in 500..599 -> "transient"
    [] OTHER -> "configuration"

\* classifyModelHTTPError: the text tells a spent quota and a missing channel.
OfHTTPError(e) ==
  IF e.status = 402 \/ e.text = "quota" THEN "access"
  ELSE IF e.text = "channel" THEN "transient"
  ELSE OfStatus(e.status)

\* classifyModelRuntimeError; "update" is a failure nobody can classify.
Category(e) ==
  IF e.text = "transport" THEN "connection"
  ELSE IF e.status = 413 \/ e.text = "context" THEN "context"
  ELSE IF e.status > 0 \/ e.text \in {"quota", "channel"} THEN OfHTTPError(e)
  ELSE CASE e.text = "network" -> "connection"
         [] e.text = "unavailable" -> "transient"
         [] e.text = "denied" -> "access"
         [] e.text = "page" -> "configuration"
         [] OTHER -> "update"

\* shouldAutomaticallyRetryModelError; these two categories are retryable.
Transient(e) == Category(e) \in {"transient", "connection"}

-----------------------------------------------------------------------------
(* Chunks.  "blank" is white space in the text, "space" in the reasoning, a  *)
(* "call" names a tool, "meta" is all the rest.                              *)

ChunkKinds == {"meta", "blank", "space", "text", "reason", "call"}

\* HasMeaningfulOutput.
Meaningful(k) == k \in {"text", "reason", "call"}
HasOutput(s)  == \E i \in DOMAIN s : Meaningful(s[i].k)

\* The chunks of these kinds.
Only(s, ks) ==
  LET kept[i \in 0 .. Len(s)] ==
        IF i = 0 THEN <<>>
        ELSE IF s[i].k \in ks THEN Append(kept[i - 1], s[i]) ELSE kept[i - 1]
  IN  kept[Len(s)]

Content(s)   == Only(s, {"text", "blank"})
Reasoning(s) == Only(s, {"reason", "space"})
CallsIn(s)   == {s[i] : i \in {j \in DOMAIN s : s[j].k = "call"}}

\* schema.ConcatMessages and messageToData.
Message(s) ==
  [role |-> "assistant", content |-> Content(s), reasoning |-> Reasoning(s),
   calls |-> CallsIn(s), id |-> 0]

ToolMessage(c) ==
  [role |-> "tool", content |-> <<>>, reasoning |-> <<>>, calls |-> {}, id |-> c]

\* thinkSplitter holds white space back until it knows what follows.
Holds(k)      == k = "blank" /\ Content(got) = held
Fed(c)        == held \o <<c>>

-----------------------------------------------------------------------------
(* The first-output guard.                                                   *)

NewGate == [armed |-> FALSE, observed |-> FALSE, fired |-> FALSE]

\* As it would be if the maintenance beside a compression carried the run's guard.
ChainShared(owner) == IF owner = "memory" THEN {"memory", "run"} ELSE {"run"}

\* outputGateFromContext: the guards an owner's output disarms.  Collect gives a
\* compression a guard of its own without a timer, whose parent is the run's.
Chain(owner) == IF owner = "memory" THEN {"memory"} ELSE {"run"}

\* outputGate.mark.
Marked(owner) ==
  [g \in DOMAIN gate |->
     IF g \in Chain(owner) /\ \A h \in Chain(owner) : ~gate[h].fired
     THEN [gate[g] EXCEPT !.observed = TRUE] ELSE gate[g]]

\* As it would be if a chunk counted only once its message is whole.
ObservedUnwrapped(owner, k) == gate

\* What a raw chunk does: observingChatModel, next to the provider.
Observed(owner, k) == IF Meaningful(k) THEN Marked(owner) ELSE gate

Interrupted == cause # "none"

\* outputGate.fire: the timer of the run, and that of memory maintenance.
Fire ==
  /\ gate["run"].armed /\ ~gate["run"].observed /\ ~gate["run"].fired /\ pc # "over"
  /\ gate' = [gate EXCEPT !["run"].fired = TRUE]
  /\ cause' = IF Interrupted THEN cause ELSE "timeout"
  /\ UNCHANGED <<kind, pc, turn, attempt, stream, shown, produced, memory, verdict>>

\* A stop, or the deletion of the session.
Cancel(c) ==
  /\ pc # "over" /\ ~Interrupted /\ cause' = c
  /\ UNCHANGED <<kind, pc, gate, turn, attempt, stream, shown, produced, memory, verdict>>

-----------------------------------------------------------------------------
(* Before the model: BeginExecution has armed the guard.                     *)

Respond(messages, error, canceled) ==
  /\ response' = [messages |-> messages, error |-> error, canceled |-> canceled]
  /\ pc' = "return"

\* PrepareChat, bounded by its own deadline.
Prepare ==
  /\ pc = "setup"
  /\ \/ ~Interrupted /\ pc' = "open" /\ UNCHANGED response
     \/ Respond(<<>>, ~Interrupted, FALSE)
  /\ memory' = IF kind = "compact" /\ pc' = "open" THEN [memory EXCEPT !.pc = "open"] ELSE memory
  /\ UNCHANGED <<kind, gate, cause, turn, attempt, stream, shown, produced, outcome, stored, lost>>

-----------------------------------------------------------------------------
(* The raw stream, read by the retry layer.                                  *)

NewStream == wire' = <<>> /\ got' = <<>> /\ end' = "open" /\ held' = <<>>
             /\ emitted' = [content |-> 0, reasoning |-> 0]

\* ShouldRetry: nothing the caller could use has come, and the run still wants it.
Retries(e) ==
  ~Interrupted /\ ~HasOutput(got \o wire) /\ Transient(e) /\ attempt <= MaxRetries

\* Collect and the compression never retry.
EndOf(e) == IF kind = "chat" /\ Retries(e) THEN "retry" ELSE "error"

Open ==
  /\ pc = "open" /\ pc' = "streaming" /\ NewStream
  /\ UNCHANGED <<kind, gate, cause, turn, attempt, shown, produced, memory, verdict>>

\* A canceled request may have a chunk on its way still.
RawChunk(k) ==
  /\ pc = "streaming" /\ end = "open"
  /\ Len(got) + Len(wire) < MaxChunks
  /\ wire' = Append(wire, [t |-> turn, a |-> attempt, i |-> Len(got) + Len(wire), k |-> k])
  /\ gate' = Observed(kind, k)
  /\ UNCHANGED <<kind, pc, cause, turn, attempt, got, end, held, emitted, shown, produced,
                 memory, verdict>>

RawEnd(e) ==
  /\ pc = "streaming" /\ end = "open"
  /\ end' = e
  /\ UNCHANGED <<kind, pc, gate, cause, turn, attempt, wire, got, held, emitted, shown,
                 produced, memory, verdict>>

RawFails == \E e \in Errors : RawEnd(EndOf(e))
RawStops == \E e \in {"stop", "limit"} : RawEnd(e)

\* The transport closes the stream of a canceled request.
RawCanceled == Interrupted /\ RawEnd("error")

-----------------------------------------------------------------------------
(* The loop: consumeAssistantEvent around modelstream.Consume.               *)

Show(s) ==
  /\ shown' = [content   |-> shown.content \o Content(s),
               reasoning |-> shown.reasoning \o Reasoning(s)]
  /\ emitted' = [content   |-> emitted.content + Len(Content(s)),
                 reasoning |-> emitted.reasoning + Len(Reasoning(s))]

\* partialChatResponse: canonicalizePartialProducedMessages.
Answered(m, i, ms) ==
  {c \in m.calls : \E j \in i+1..Len(ms) :
     ms[j].id = c /\ \A l \in i+1..j : ms[l].role = "tool"}

Displayable(m) == HasOutput(m.content) \/ m.calls # {}

\* canonicalizeProducedMessagesWithPartial: one message for each answered call,
\* the first with the text, all with the reasoning; without an answer, if partial,
\* what the message says and thinks alone, unless that is nothing.
Normalized(ms, i, partial) ==
  LET m == ms[i]
      bare == [m EXCEPT !.calls = {}]
      answered == SetToSeq(Answered(m, i, ms))
      pair(n) == <<[m EXCEPT !.calls = {answered[n]}, !.content = IF n = 1 THEN @ ELSE <<>>],
                   ToolMessage(answered[n])>>
  IN  IF m.role = "tool" THEN <<>>
      ELSE IF m.calls = {} /\ ~partial THEN <<m>>
      ELSE IF answered # <<>> THEN FlattenSeq([n \in DOMAIN answered |-> pair(n)])
      ELSE IF partial /\ (Displayable(bare) \/ HasOutput(m.reasoning)) THEN <<bare>>
      ELSE <<>>

\* As it would be if an unanswered call took its text with it.
CanonicalStrict(ms, partial) ==
  FlattenSeq([i \in DOMAIN ms |-> Normalized(ms, i, FALSE)])

Canonical(ms, partial) ==
  FlattenSeq([i \in DOMAIN ms |-> Normalized(ms, i, partial)])

\* The two ways RunPreparedChat leaves its loop early.
Break(ms) ==
  IF Interrupted THEN Respond(Canonical(ms, TRUE), FALSE, TRUE)
  ELSE Respond(Canonical(ms, TRUE), TRUE, FALSE)

WithPartial(s) == IF s = <<>> THEN produced ELSE Append(produced, Message(s))

\* Consume takes a chunk; one that comes after the cancellation is kept but not
\* shown, and what the splitter held is flushed.
Take ==
  /\ kind = "chat" /\ pc = "streaming" /\ wire # <<>>
  /\ LET c == Head(wire) s == Append(got, c)
     IN  /\ got' = s /\ wire' = Tail(wire)
         /\ IF Interrupted
            THEN /\ Show(held) /\ held' = <<>>
                 /\ produced' = WithPartial(s) /\ Break(produced')
            ELSE /\ IF Holds(c.k)
                    THEN held' = Fed(c) /\ UNCHANGED <<shown, emitted>>
                    ELSE IF c.k = "text"
                    THEN held' = <<>> /\ Show(Fed(c))
                    ELSE UNCHANGED held /\ Show(<<c>>)
                 /\ UNCHANGED <<pc, produced, response>>
  /\ UNCHANGED <<kind, gate, cause, turn, attempt, end, memory, outcome, stored, lost>>

AtEnd == pc = "streaming" /\ wire = <<>> /\ end # "open"

DropLast(s, n) == SubSeq(s, 1, Len(s) - n)

\* A retried attempt leaves the screen again: attempt_reset.
Reset ==
  /\ kind = "chat" /\ AtEnd /\ end = "retry" /\ ~Interrupted
  /\ shown' = [content   |-> DropLast(shown.content, emitted.content),
               reasoning |-> DropLast(shown.reasoning, emitted.reasoning)]
  /\ attempt' = attempt + 1 /\ pc' = "backoff" /\ NewStream
  /\ UNCHANGED <<kind, gate, cause, turn, produced, memory, verdict>>

\* The delay of the retry layer; a canceled run does not wait for it.
Backoff ==
  /\ pc = "backoff"
  /\ IF Interrupted THEN Break(produced) ELSE pc' = "open" /\ UNCHANGED response
  /\ UNCHANGED <<kind, gate, cause, turn, attempt, stream, shown, produced, memory,
                 outcome, stored, lost>>

\* The stream fails, or has ended when the run is canceled: the partial counts.
TakeError ==
  /\ kind = "chat" /\ AtEnd /\ (end = "error" \/ Interrupted)
  /\ Show(held) /\ held' = <<>>
  /\ produced' = WithPartial(got) /\ Break(produced')
  /\ UNCHANGED <<kind, gate, cause, turn, attempt, wire, got, end, memory, outcome, stored, lost>>

\* A whole message: its calls are executed, or it is the answer.
TakeMessage ==
  /\ kind = "chat" /\ AtEnd /\ end \in {"stop", "limit"} /\ ~Interrupted
  /\ Show(held) /\ held' = <<>> /\ produced' = WithPartial(got)
  /\ pc' = IF CallsIn(got) # {} THEN "tools" ELSE "answered"
  /\ UNCHANGED <<kind, gate, cause, turn, attempt, wire, got, end, memory, verdict>>

-----------------------------------------------------------------------------
(* Tools, and the end of the loop.                                           *)

Results == {produced[i].id : i \in {j \in DOMAIN produced : produced[j].role = "tool"}}

ToolResult(c) ==
  /\ pc = "tools" /\ c \in CallsIn(got) \ Results
  /\ produced' = Append(produced, ToolMessage(c))
  /\ UNCHANGED <<kind, pc, gate, cause, turn, attempt, stream, shown, memory, verdict>>

\* The results go to the model: the next turn, or the framework's error that
\* there are too many.
NextTurn ==
  /\ pc = "tools" /\ CallsIn(got) \subseteq Results
  /\ IF turn < MaxTurns
     THEN pc' = "open" /\ turn' = turn + 1 /\ attempt' = 1 /\ UNCHANGED response
     ELSE Break(produced) /\ UNCHANGED <<turn, attempt>>
  /\ UNCHANGED <<kind, gate, cause, stream, shown, produced, memory, outcome, stored, lost>>

\* A call fails, or its run is canceled: the framework's last event is the error.
ToolFails ==
  /\ pc = "tools" /\ Break(produced)
  /\ UNCHANGED <<kind, gate, cause, turn, attempt, stream, shown, produced, memory,
                 outcome, stored, lost>>

\* A result that cannot be read takes the response with it.
ToolUnreadable ==
  /\ pc = "tools" /\ CallsIn(got) \ Results # {}
  /\ Respond(<<>>, TRUE, FALSE) /\ lost' = TRUE
  /\ UNCHANGED <<kind, gate, cause, turn, attempt, stream, shown, produced, memory,
                 outcome, stored>>

Fallback == [t |-> turn, a |-> attempt, i |-> MaxChunks, k |-> "text"]

\* materializeReasoningOnlyAssistantOutput: the last message of reasoning alone.
OnlyReasoned(ms) == {i \in DOMAIN ms : ms[i].role = "assistant" /\ HasOutput(ms[i].reasoning)}

\* The iterator is at its end.
Finish ==
  /\ pc = "answered"
  /\ LET ms == Canonical(produced, FALSE)
         answers == \E i \in DOMAIN ms : ms[i].role = "assistant" /\ Displayable(ms[i])
     IN  CASE answers -> Respond(ms, FALSE, FALSE) /\ UNCHANGED shown
           [] ~answers /\ OnlyReasoned(ms) # {} ->
                /\ Respond([ms EXCEPT ![Max(OnlyReasoned(ms))].content = <<Fallback>>], FALSE, FALSE)
                /\ shown' = [shown EXCEPT !.content = Append(@, Fallback)]
           [] OTHER -> Respond(<<>>, TRUE, FALSE) /\ UNCHANGED shown
  /\ UNCHANGED <<kind, gate, cause, turn, attempt, stream, produced, memory, outcome, stored, lost>>

-----------------------------------------------------------------------------
(* A compression, and the memory maintenance beside it.                      *)

\* Collect and validateCompactionCompletion: no more than the whole summary counts,
\* and reasoning is no summary.
Collected ==
  /\ kind = "compact" /\ pc = "streaming" /\ end # "open"
  /\ pc' = IF end = "stop" /\ HasOutput(got \o wire) /\ Content(got \o wire) # <<>> /\ ~Interrupted
           THEN "compacted" ELSE "uncompacted"
  /\ UNCHANGED <<kind, gate, cause, turn, attempt, stream, shown, produced, memory, verdict>>

\* taskCtx: a failed compression cancels the maintenance.
TaskCanceled == Interrupted \/ pc = "uncompacted"

MemoryOpen ==
  /\ memory.pc = "open" /\ memory' = [pc |-> "streaming", try |-> memory.try + 1]
  /\ gate' = [gate EXCEPT !["memory"] = [NewGate EXCEPT !.armed = TRUE]]
  /\ UNCHANGED <<kind, pc, cause, turn, attempt, stream, shown, produced, verdict>>

MemoryChunk ==
  /\ memory.pc = "streaming" /\ gate' = Observed("memory", "text")
  /\ UNCHANGED <<kind, pc, cause, turn, attempt, stream, shown, produced, memory, verdict>>

\* Its own timer, its provider, or taskCtx: maintenance tries again unless canceled.
MemoryEnds(ok) ==
  /\ memory.pc = "streaming"
  /\ memory' = [memory EXCEPT !.pc = IF ok \/ TaskCanceled \/ memory.try >= MaxTries
                                     THEN "done" ELSE "open"]
  /\ UNCHANGED <<kind, pc, gate, cause, turn, attempt, stream, shown, produced, verdict>>

\* runCompactionTasks returns when both tasks have.
JoinTasks ==
  /\ pc \in {"compacted", "uncompacted"} /\ memory.pc = "done"
  /\ Respond(<<>>, pc = "uncompacted" \/ Interrupted, FALSE)
  /\ UNCHANGED <<kind, gate, cause, turn, attempt, stream, shown, produced, memory,
                 outcome, stored, lost>>

-----------------------------------------------------------------------------
(* The end of the run: runAgentStream after RunPreparedChat.                 *)

ErrorMessage ==
  [role |-> "error", content |-> <<>>, reasoning |-> <<>>, calls |-> {}, id |-> 0]

\* shouldPersistCanceledPartial.
Kept == IF cause = "deleted" THEN <<>> ELSE response.messages

HasAnswer(ms) == \E i \in DOMAIN ms : ms[i].role = "assistant"

Conclude ==
  /\ pc = "return" /\ pc' = "over"
  /\ CASE Interrupted \/ response.canceled -> outcome' = "canceled" /\ stored' = Kept
       [] ~Interrupted /\ ~response.canceled /\ response.error ->
            /\ outcome' = "failed"
            /\ stored' = IF kind = "compact" \/ HasAnswer(response.messages) THEN response.messages
                         ELSE Append(response.messages, ErrorMessage)
       [] OTHER -> outcome' = "completed" /\ stored' = response.messages
  /\ UNCHANGED <<kind, gate, cause, turn, attempt, stream, shown, produced, memory, response, lost>>

-----------------------------------------------------------------------------

Init ==
  /\ kind \in RunKinds /\ pc = "setup"
  /\ gate = [run |-> [NewGate EXCEPT !.armed = TRUE], memory |-> NewGate]
  /\ cause = "none" /\ turn = 1 /\ attempt = 1
  /\ wire = <<>> /\ got = <<>> /\ end = "open" /\ held = <<>>
  /\ emitted = [content |-> 0, reasoning |-> 0]
  /\ shown = [content |-> <<>>, reasoning |-> <<>>] /\ produced = <<>>
  /\ response = [messages |-> <<>>, error |-> FALSE, canceled |-> FALSE]
  /\ memory = [pc |-> "none", try |-> 0]
  /\ outcome = "none" /\ stored = <<>> /\ lost = FALSE

Provider ==
  \/ \E k \in ChunkKinds : RawChunk(k)
  \/ RawFails \/ RawStops \/ MemoryChunk \/ \E ok \in BOOLEAN : MemoryEnds(ok)

Loop ==
  \/ Prepare \/ Open \/ Take \/ Reset \/ Backoff \/ TakeError \/ TakeMessage
  \/ NextTurn \/ Finish \/ Collected \/ JoinTasks \/ Conclude \/ MemoryOpen

ToolsRun == \E c \in CallsIn(got) : ToolResult(c)

Next ==
  \/ Provider \/ Loop \/ RawCanceled \/ ToolsRun \/ ToolFails \/ ToolUnreadable \/ Fire
  \/ \E c \in {"stop", "deleted"} : Cancel(c)

\* The process runs its goroutines and timers, every tool has a deadline, and a
\* canceled request ends; a provider owes nothing.
Fairness ==
  /\ WF_vars(Loop) /\ WF_vars(RawCanceled) /\ WF_vars(ToolsRun) /\ WF_vars(Fire)
  /\ WF_vars(TaskCanceled /\ MemoryEnds(FALSE))

Spec == Init /\ [][Next]_vars /\ Fairness

-----------------------------------------------------------------------------
(* Properties.                                                               *)

Said(s)  == Only(s, {"text", "reason", "call"})
Texts    == FlattenSeq([i \in DOMAIN stored |-> stored[i].content])
Thoughts == FlattenSeq([i \in DOMAIN stored |-> stored[i].reasoning])

\* What the client has on its screen when the run ends is what the session then
\* holds, whatever was retried, canceled or cut into messages on the way: all of
\* it after a completed run, and at least what was shown after another, unless
\* the session is gone or a tool's result could not be read.
ShownIsStored ==
  pc = "over" /\ cause # "deleted" /\ ~lost =>
    /\ IsPrefix(Said(shown.content), Said(Texts))
    /\ Range(Said(shown.reasoning)) \subseteq Range(Thoughts)
    /\ outcome = "completed" =>
         /\ Said(shown.content) = Said(Texts)
         /\ Range(Said(shown.reasoning)) = Range(Said(Thoughts))

\* A run times out only before its first output: nothing a client could use had
\* arrived from the provider when the timer fired, shown or still on its way.
TimeoutMeansSilence ==
  [][gate'["run"].fired /\ ~gate["run"].fired =>
       /\ ~HasOutput(got \o wire) /\ Results = {}
       /\ Said(shown.content \o shown.reasoning) = <<>>]_vars

\* Output the client has seen is never taken back: only an attempt without any is
\* repeated.
OutputIsNeverWithdrawn ==
  [][/\ IsPrefix(Said(shown.content), Said(shown'.content))
     /\ IsPrefix(Said(shown.reasoning), Said(shown'.reasoning))]_vars

\* What was shown or is about to be is neither cut off by the timer of the silent
\* nor said again by a repeated attempt.
OutputIsFinal == TimeoutMeansSilence /\ OutputIsNeverWithdrawn

Silent == pc # "over" /\ turn = 1 /\ ~HasOutput(got \o wire)

\* A run whose provider stays silent ends, whatever is said beside it.
SilentRunsEnd == Silent ~> ~Silent

=============================================================================
