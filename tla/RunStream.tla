------------------------------- MODULE RunStream -------------------------------
(***************************************************************************)
(* The event stream of one run: the log RunHub keeps of it, the bounded    *)
(* channel of every subscriber, and the SSE handlers that forward log and  *)
(* channel to a client, which may disconnect and come back at any time.    *)
(*                                                                         *)
(* The log is a contiguous range of cursors, replayFrom + 1 .. Cursor, so  *)
(* it is kept as the kinds of all events ever recorded and the cursor of   *)
(* the last one dropped.  Every event weighs one unit of RunHub.maxBytes.  *)
(***************************************************************************)
EXTENDS Integers, Sequences

CONSTANTS
  Clients,     \* the connections that may be open at the same time
  Capacity,    \* the buffer of a subscriber channel (32 in the code)
  LogLimit,    \* RunHub.maxBytes, in events
  MaxOutputs   \* bound of the instance: events before the terminal one

ASSUME CapacityAssumption   == Capacity \in Nat \ {0}
ASSUME LogLimitAssumption   == LogLimit \in Nat /\ LogLimit >= 3
ASSUME MaxOutputsAssumption == MaxOutputs \in Nat

VARIABLES
  kinds,       \* what each event is, by cursor; its length is state.Cursor
  replayFrom,  \* RunSnapshot.ReplayFrom: the last cursor trimmed from the log
  truncated,   \* RunSnapshot.OutputTruncated
  ended,       \* Status # running
  conn         \* the SSE request each client has open

streamVars == <<kinds, replayFrom, truncated, ended, conn>>

-----------------------------------------------------------------------------

(* "output": content_delta, thinking_delta, tool_call_start and _result.     *)
Kinds  == {"output", "other"}
Cursor == Len(kinds)
IsOutput(i) == kinds[i] = "output"

(* A connection: how it was opened and from which cursor, lastCursor, the    *)
(* events it has in hand, its channel, and what its client has been sent.   *)
Off == [state |-> "off", path |-> "resume", from |-> 0, last |-> 0,
        hand |-> <<>>, chan |-> <<>>, channel |-> "none",
        sent |-> {}, announced |-> 0]

(* A run starts with an empty log; one restored from its durable row has     *)
(* nothing but its terminal event.                                          *)
StreamInit ==
  /\ \/ kinds = <<>> /\ ended = FALSE
     \/ kinds = <<"other">> /\ ended = TRUE
  /\ replayFrom = 0
  /\ truncated = FALSE
  /\ conn = [c \in Clients |-> Off]

-----------------------------------------------------------------------------
(* RunHub: recording *)

(* trimLocked: past the limit, the oldest events go until a third is left.   *)
Trimmed(n, from) == IF n - from > LogLimit THEN n - LogLimit \div 3 ELSE from

(* Fault: dropped output is only noticed when it is what the client waits for. *)
TruncatedByNewest(ks, from, to) == truncated \/ (to > from /\ ks[to] = "output")

TruncatedBy(ks, from, to) ==
  truncated \/ \E i \in from + 1 .. to : ks[i] = "output"

(* A subscriber whose channel is full misses the event. *)
Offered(cn, i) ==
  IF cn.channel = "open" /\ Len(cn.chan) < Capacity
    THEN [cn EXCEPT !.chan = Append(@, i)] ELSE cn

(* appendEventLocked *)
AppendEvent(k) ==
  LET ks == Append(kinds, k)
  IN  /\ kinds' = ks
      /\ replayFrom' = Trimmed(Len(ks), replayFrom)
      /\ truncated' = TruncatedBy(ks, replayFrom, replayFrom')

Record(k) ==
  /\ ~ended /\ Cursor < MaxOutputs
  /\ AppendEvent(k)
  /\ conn' = [c \in Clients |-> Offered(conn[c], Cursor + 1)]
  /\ UNCHANGED ended

(* Fault: the channels stay open. *)
ClosedNever(cn) == cn

(* closeSubscribersLocked: what is buffered can still be received. *)
Closed(cn) ==
  [cn EXCEPT !.channel = IF @ = "open" THEN "closed" ELSE @]

(* The end of a transition: the terminal event, then the channels. *)
Terminate ==
  /\ ~ended /\ ended' = TRUE
  /\ AppendEvent("other")
  /\ conn' = [c \in Clients |-> Closed(Offered(conn[c], Cursor + 1))]

-----------------------------------------------------------------------------
(* The SSE handlers *)

(* eventsAfterCursor *)
Larger(a, b) == IF a >= b THEN a ELSE b
EventsAfter(i) ==
  LET first == Larger(i, replayFrom)
  IN  [j \in 1 .. Cursor - first |-> first + j]

(* replayGapPayload *)
Gap(i) == truncated /\ replayFrom > 0 /\ i < replayFrom

(* replay_gap and run_snapshot are written and stand for everything so far.  *)
Announce(cn) == [cn EXCEPT !.announced = Cursor, !.last = Cursor]

(* EventsAfter subscribes and reads in one critical section.  Only           *)
(* ResumeRunHandler then looks for a gap: runAgentStream and                *)
(* replayExistingRun start to forward at once, from cursor 0.               *)
Opened(path, from) ==
  [Off EXCEPT !.state = "open", !.path = path, !.from = from, !.last = from,
     !.hand = EventsAfter(from), !.channel = IF ended THEN "none" ELSE "open"]

Resume(c, from) ==
  /\ conn[c].state # "open"
  /\ LET cn == Opened("resume", from)
     IN  conn' = [conn EXCEPT ![c] = IF Gap(from) THEN Announce(cn) ELSE cn]
  /\ UNCHANGED <<kinds, replayFrom, truncated, ended>>

Replay(c) ==
  /\ conn[c].state # "open"
  /\ conn' = [conn EXCEPT ![c] = Opened("replay", 0)]
  /\ UNCHANGED <<kinds, replayFrom, truncated, ended>>

(* writeRunEvents: one event in hand; those up to lastCursor are skipped. *)
Write(c) ==
  /\ conn[c].state = "open" /\ conn[c].hand # <<>>
  /\ LET cn == conn[c]
         i  == Head(cn.hand)
     IN  conn' = [conn EXCEPT ![c] =
           IF i <= cn.last
             THEN [cn EXCEPT !.hand = Tail(@)]
             ELSE [cn EXCEPT !.hand = Tail(@), !.last = i, !.sent = @ \cup {i}]]
  /\ UNCHANGED <<kinds, replayFrom, truncated, ended>>

(* writeMissedRunEvents: EventsSince under the lock, then a gap or events. *)
CatchUp(cn) ==
  IF Gap(cn.last) THEN Announce(cn) ELSE [cn EXCEPT !.hand = EventsAfter(cn.last)]

(* An event from the channel; one that leaves out others makes the handler   *)
(* go back to the log.                                                      *)
Receive(c) ==
  /\ conn[c].state = "open" /\ conn[c].hand = <<>> /\ conn[c].chan # <<>>
  /\ LET i  == Head(conn[c].chan)
         cn == [conn[c] EXCEPT !.chan = Tail(@)]
     IN  conn' = [conn EXCEPT ![c] =
           IF i > cn.last + 1 THEN CatchUp(cn) ELSE [cn EXCEPT !.hand = <<i>>]]
  /\ UNCHANGED <<kinds, replayFrom, truncated, ended>>

(* The channel was closed: the handler looks at the log for the last time. *)
LastLook(c) ==
  /\ conn[c].state = "open" /\ conn[c].hand = <<>> /\ conn[c].chan = <<>>
  /\ conn[c].channel = "closed"
  /\ conn' = [conn EXCEPT ![c] = [CatchUp(@) EXCEPT !.channel = "none"]]
  /\ UNCHANGED <<kinds, replayFrom, truncated, ended>>

EndStream(c) ==
  /\ conn[c].state = "open" /\ conn[c].hand = <<>> /\ conn[c].chan = <<>>
  /\ conn[c].channel = "none"
  /\ conn' = [conn EXCEPT ![c].state = "finished"]
  /\ UNCHANGED <<kinds, replayFrom, truncated, ended>>

(* The client goes away, or a write fails: cleanup drops the subscription. *)
Disconnect(c) ==
  /\ conn[c].state = "open"
  /\ conn' = [conn EXCEPT ![c] = Off]
  /\ UNCHANGED <<kinds, replayFrom, truncated, ended>>

-----------------------------------------------------------------------------

Forward(c) == Write(c) \/ Receive(c) \/ LastLook(c) \/ EndStream(c)

(* A client resumes from any cursor it may have learnt from a snapshot, even  *)
(* from one of the log this process has lost.                               *)
StreamNext ==
  \/ \E k \in Kinds : Record(k)
  \/ Terminate
  \/ \E c \in Clients :
       \/ Forward(c) \/ Replay(c) \/ Disconnect(c)
       \/ \E from \in 0 .. MaxOutputs : Resume(c, from)

StreamSpec == StreamInit /\ [][StreamNext]_streamVars

-----------------------------------------------------------------------------
(* Properties *)

(* What the client of a connection has of the events it asked for. *)
OutputIsCovered(cn) ==
  \A i \in cn.from + 1 .. cn.last :
    IsOutput(i) => i \in cn.sent \/ i <= cn.announced

(* A resumed client never misses output without being told: whatever was     *)
(* trimmed, or dropped because its channel was full, is written after all   *)
(* or covered by a replay_gap with its snapshot.                            *)
ResumeMissesNothingSilently ==
  \A c \in Clients : conn[c].path = "resume" => OutputIsCovered(conn[c])

(* The same for a connection that replays a known run from its first event,  *)
(* which starts to forward without looking for a gap.                       *)
ReplayMissesNothingSilently ==
  \A c \in Clients : conn[c].path = "replay" => OutputIsCovered(conn[c])

(* A stream that ends by itself has shown the terminal event or a snapshot    *)
(* of the ended run, unless the client claimed to have it already.          *)
FinishedStreamHasTheEnd ==
  \A c \in Clients : conn[c].state = "finished" =>
    ended /\ (Cursor \in conn[c].sent \/ conn[c].announced = Cursor
              \/ conn[c].from >= Cursor)

(* What a client of a finished or resumed stream can rely on: the end and,    *)
(* until there, no silent gap.  The log is trimmed, full channels drop, and  *)
(* the terminal event is no exception.                                      *)
NothingIsMissedSilently == ResumeMissesNothingSilently /\ FinishedStreamHasTheEnd

(* A client that stays connected is not left hanging once the run is over. *)
OpenStreamsFinish ==
  \A c \in Clients : conn[c].state = "open" ~> conn[c].state # "open"
=============================================================================
