----------------------------- MODULE OneRun_proofs -----------------------------
(***************************************************************************)
(* Proofs about three parts of one run.  RunStream, for any number of      *)
(* clients, any size of the log and of the channels and any number of      *)
(* events: a resumed client misses no output silently, and a stream that   *)
(* ends has shown the end.  RuntimeSnapshot, for any number of things      *)
(* read, however often they change: a run works with what was there        *)
(* together at one moment since it was accepted.  And AgentLoop, for any   *)
(* errors, chunks, retries and turns: output is final, and what the client *)
(* has on its screen is what the session stores.                           *)
(***************************************************************************)
EXTENDS RunStream, RuntimeSnapshot, AgentLoop, Counting, SequenceTheorems, TLAPS

-----------------------------------------------------------------------------
(* Types *)

Conn == [state : {"off", "open", "finished"}, path : {"resume", "replay"},
         from : Nat, last : Nat, hand : Seq(Nat), chan : Seq(Nat),
         channel : {"none", "open", "closed"}, sent : SUBSET Nat, announced : Nat]

(* The log has lost a part of it at most, never its newest event, and knows   *)
(* when output was in that part; an ended run has its terminal event.        *)
LogInv ==
  /\ kinds \in Seq(Kinds) /\ truncated \in BOOLEAN /\ ended \in BOOLEAN
  /\ replayFrom \in Nat /\ replayFrom <= Cursor
  /\ (Cursor > 0 => replayFrom < Cursor) /\ (ended => Cursor > 0)
  /\ \A i \in 1 .. replayFrom : IsOutput(i) => truncated

(* Consecutive events of the log. *)
InLog(s) == \A j \in 1 .. Len(s) : s[j] \in 1 .. Cursor
Run(s)   == \A j \in 1 .. Len(s) : s[j] = s[1] + j - 1

(* Nothing of the output is between what a client has and what comes next.    *)
NoGapBefore(cn) ==
  cn.hand # <<>> => \A m \in cn.last + 1 .. cn.hand[1] - 1 : ~IsOutput(m)

(* The last cursor is one the client began with, was sent or told about.      *)
KnowsLast(cn) == cn.last = cn.from \/ cn.last \in cn.sent \/ cn.last = cn.announced

(* The end is written or in hand. *)
HasEnd(cn) ==
  ended /\ (cn.last >= Cursor \/ (cn.hand # <<>> /\ cn.hand[Len(cn.hand)] = Cursor))

ChannelInv(cn) ==
  /\ cn.channel = "open" => ~ended
  /\ cn.channel = "closed" => ended
  /\ cn.channel = "none" => cn.chan = <<>>
  /\ cn.channel = "none" /\ cn.state # "off" => HasEnd(cn)
  /\ cn.state = "finished" => cn.channel = "none" /\ cn.hand = <<>>
  /\ cn.state = "off" => cn.channel = "none"

BodyInv(cn) ==
  /\ cn \in Conn
  /\ InLog(cn.hand) /\ Run(cn.hand) /\ InLog(cn.chan)
  /\ cn.sent \subseteq 1 .. Cursor /\ cn.announced <= Cursor
  /\ KnowsLast(cn)
  /\ cn.path = "resume" => OutputIsCovered(cn) /\ NoGapBefore(cn)

ConnInv(cn) == BodyInv(cn) /\ ChannelInv(cn)

(* eventsAfterCursor reads the rest of the log, to its newest event. *)
LEMMA EventsAfterReads ==
  ASSUME LogInv, NEW i \in Nat
  PROVE  /\ EventsAfter(i) \in Seq(Nat)
         /\ InLog(EventsAfter(i)) /\ Run(EventsAfter(i))
         /\ EventsAfter(i) # <<>> =>
              /\ EventsAfter(i)[1] = Larger(i, replayFrom) + 1
              /\ EventsAfter(i)[Len(EventsAfter(i))] = Cursor
         /\ EventsAfter(i) = <<>> /\ Cursor > 0 => i >= Cursor
<1>1. Cursor \in Nat /\ replayFrom \in Nat /\ replayFrom <= Cursor
  BY DEF LogInv, Cursor
<1>2. PICK first \in Nat : first = Larger(i, replayFrom)
  BY <1>1 DEF Larger
<1>3. EventsAfter(i) = [j \in 1 .. Cursor - first |-> first + j]
  BY <1>2 DEF EventsAfter
<1>4. CASE first <= Cursor
  <2>1. PICK n \in Nat : n = Cursor - first
    BY <1>1, <1>4
  <2>2. EventsAfter(i) \in [1 .. n -> Nat]
    BY <1>2, <1>3, <2>1
  <2>3. EventsAfter(i) \in Seq(Nat) /\ Len(EventsAfter(i)) = n
    BY <2>2
  <2>4. \A j \in 1 .. n : EventsAfter(i)[j] = first + j
    BY <1>3, <2>1
  <2>5. EventsAfter(i) = <<>> <=> n = 0
    BY <2>3
  <2>6. InLog(EventsAfter(i)) /\ Run(EventsAfter(i))
    BY <1>1, <2>1, <2>3, <2>4, SMTT(30) DEF InLog, Run
  <2>7. n > 0 => EventsAfter(i)[1] = first + 1 /\ EventsAfter(i)[n] = Cursor
    BY <1>1, <2>1, <2>4
  <2>8. n = 0 /\ Cursor > 0 => i >= Cursor
    BY <1>1, <1>2, <2>1 DEF Larger, LogInv
  <2>. QED
    BY <1>2, <2>3, <2>5, <2>6, <2>7, <2>8
<1>5. CASE first > Cursor
  <2>1. 1 .. Cursor - first = 1 .. 0
    BY <1>1, <1>5
  <2>2. EventsAfter(i) = <<>>
    BY <1>3, <2>1
  <2>3. i >= Cursor
    BY <1>1, <1>2, <1>5 DEF Larger
  <2>. QED
    BY <2>2, <2>3 DEF InLog, Run
<1>. QED
  BY <1>1, <1>2, <1>4, <1>5

(* Whoever reads the rest of the log and needs no replay_gap misses nothing   *)
(* that was trimmed.                                                        *)
LEMMA ReadWithoutGap ==
  ASSUME LogInv, NEW i \in Nat, ~Gap(i), EventsAfter(i) # <<>>
  PROVE  \A m \in i + 1 .. EventsAfter(i)[1] - 1 : ~IsOutput(m)
<1>1. EventsAfter(i)[1] = Larger(i, replayFrom) + 1 /\ replayFrom \in Nat
  BY EventsAfterReads DEF LogInv
<1>2. CASE i >= replayFrom
  BY <1>1, <1>2 DEF Larger
<1>3. CASE i < replayFrom
  <2>1. ~truncated
    BY <1>1, <1>3 DEF Gap, LogInv
  <2>. QED
    BY <1>1, <1>3, <2>1 DEF Larger, LogInv
<1>. QED
  BY <1>1, <1>2, <1>3

-----------------------------------------------------------------------------
(* One connection *)

(* A replay_gap stands for everything so far. *)
LEMMA AnnouncedBody ==
  ASSUME LogInv, NEW cn \in Conn, InLog(cn.hand), Run(cn.hand), InLog(cn.chan),
         cn.sent \subseteq 1 .. Cursor
  PROVE  /\ BodyInv(Announce(cn))
         /\ Announce(cn).state = cn.state /\ Announce(cn).channel = cn.channel
         /\ Announce(cn).chan = cn.chan /\ Announce(cn).hand = cn.hand
         /\ Announce(cn).last = Cursor
<1>1. PICK n \in Nat : n = Cursor
  BY DEF LogInv, Cursor
<1>2. PICK a \in Conn : a = [cn EXCEPT !.announced = n, !.last = n]
  BY DEF Conn
<1>3. /\ a.state = cn.state /\ a.channel = cn.channel /\ a.chan = cn.chan
      /\ a.hand = cn.hand /\ a.last = n /\ a.announced = n /\ a.sent = cn.sent
      /\ a.from = cn.from
  BY <1>2 DEF Conn
<1>4. OutputIsCovered(a)
  BY <1>3 DEF OutputIsCovered, Conn
<1>5. NoGapBefore(a)
  <2>. SUFFICES ASSUME a.hand # <<>> PROVE \A m \in n + 1 .. a.hand[1] - 1 : ~IsOutput(m)
    BY <1>3 DEF NoGapBefore
  <2>1. Len(a.hand) \in Nat \ {0}
    BY DEF Conn
  <2>2. a.hand[1] \in 1 .. n
    BY <1>1, <1>3, <2>1 DEF InLog
  <2>. QED
    BY <2>2
<1>6. BodyInv(a)
  BY <1>1, <1>3, <1>4, <1>5 DEF BodyInv, KnowsLast
<1>. QED
  BY <1>1, <1>2, <1>3, <1>6 DEF Announce

(* writeMissedRunEvents misses nothing, and after the end it reaches it. *)
LEMMA CaughtUp ==
  ASSUME LogInv, NEW cn, BodyInv(cn), cn.hand = <<>>
  PROVE  /\ BodyInv(CatchUp(cn))
         /\ CatchUp(cn).state = cn.state /\ CatchUp(cn).channel = cn.channel
         /\ CatchUp(cn).chan = cn.chan
         /\ ended => HasEnd(CatchUp(cn))
<1>0. cn \in Conn /\ cn.last \in Nat /\ Cursor \in Nat
  BY DEF BodyInv, Conn, LogInv, Cursor
<1>1. CASE Gap(cn.last)
  <2>1. CatchUp(cn) = Announce(cn)
    BY <1>1 DEF CatchUp
  <2>2. /\ BodyInv(Announce(cn))
        /\ Announce(cn).state = cn.state /\ Announce(cn).channel = cn.channel
        /\ Announce(cn).chan = cn.chan /\ Announce(cn).last = Cursor
    BY <1>0, AnnouncedBody DEF BodyInv
  <2>. QED
    BY <1>0, <2>1, <2>2 DEF HasEnd
<1>2. CASE ~Gap(cn.last)
  <2>1. PICK h \in Seq(Nat) : h = EventsAfter(cn.last)
    BY <1>0, EventsAfterReads
  <2>2. PICK a \in Conn : a = [cn EXCEPT !.hand = h]
    BY <1>0 DEF Conn
  <2>3. CatchUp(cn) = a
    BY <1>2, <2>1, <2>2 DEF CatchUp
  <2>4. /\ a.state = cn.state /\ a.channel = cn.channel /\ a.chan = cn.chan
        /\ a.hand = h /\ a.last = cn.last /\ a.announced = cn.announced
        /\ a.sent = cn.sent /\ a.from = cn.from /\ a.path = cn.path
    BY <1>0, <2>2 DEF Conn
  <2>5. InLog(h) /\ Run(h)
    BY <1>0, <2>1, EventsAfterReads
  <2>6. NoGapBefore(a)
    BY <1>0, <1>2, <2>1, <2>4, ReadWithoutGap DEF NoGapBefore
  <2>7. BodyInv(a)
    BY <2>4, <2>5, <2>6 DEF BodyInv, KnowsLast, OutputIsCovered
  <2>8. ended => HasEnd(a)
    BY <1>0, <2>1, <2>4, EventsAfterReads, ZenonT(60) DEF HasEnd, LogInv
  <2>. QED
    BY <2>3, <2>4, <2>7, <2>8
<1>. QED
  BY <1>1, <1>2

(* No connection at all. *)
LEMMA OffConn ==
  /\ Off \in Conn /\ Off.state = "off" /\ Off.path = "resume" /\ Off.channel = "none"
  /\ Off.from = 0 /\ Off.last = 0 /\ Off.announced = 0
  /\ Off.hand = <<>> /\ Off.chan = <<>> /\ Off.sent = {}
<1>1. <<>> \in Seq(Nat) /\ {} \in SUBSET Nat
  OBVIOUS
<1>. QED
  BY <1>1 DEF Off, Conn

(* A new connection, whatever cursor it resumes from. *)
LEMMA OpenedConn ==
  ASSUME LogInv, NEW from \in Nat, NEW path \in {"resume", "replay"},
         NEW x, x = IF path = "resume" /\ Gap(from) THEN Announce(Opened(path, from))
                    ELSE Opened(path, from)
  PROVE  ConnInv(x)
<1>0. Cursor \in Nat
  BY DEF LogInv, Cursor
<1>1. PICK h \in Seq(Nat) : h = EventsAfter(from)
  BY EventsAfterReads
<1>2. InLog(h) /\ Run(h)
  BY <1>1, EventsAfterReads
<1>3. PICK ch \in {"none", "open"} : ch = IF ended THEN "none" ELSE "open"
  OBVIOUS
<1>4. PICK o \in Conn : /\ o = Off
                       /\ o.chan = <<>> /\ o.sent = {} /\ o.announced = 0
  BY OffConn
<1>5. PICK a \in Conn : a = Opened(path, from)
  <2>1. PICK q \in Conn : q = [o EXCEPT !.state = "open", !.path = path, !.from = from]
    BY DEF Conn
  <2>2. [q EXCEPT !.last = from, !.hand = h, !.channel = ch] \in Conn
    BY DEF Conn
  <2>3. Opened(path, from) = [q EXCEPT !.last = from, !.hand = h, !.channel = ch]
    BY <1>1, <1>3, <1>4, <2>1 DEF Opened
  <2>. QED
    BY <2>2, <2>3
<1>6. /\ a.state = "open" /\ a.path = path /\ a.from = from /\ a.last = from
      /\ a.hand = h /\ a.chan = <<>> /\ a.channel = ch /\ a.sent = {} /\ a.announced = 0
  <2>1. a = [o EXCEPT !.state = "open", !.path = path, !.from = from, !.last = from,
                      !.hand = h, !.channel = ch]
    BY <1>1, <1>3, <1>4, <1>5 DEF Opened
  <2>. QED
    BY <1>4, <2>1 DEF Conn
<1>7. InLog(a.chan)
  BY <1>6 DEF InLog
<1>8. CASE path = "resume" /\ Gap(from)
  <2>1. x = Announce(a)
    BY <1>5, <1>8
  <2>2. /\ BodyInv(x) /\ x.state = "open" /\ x.channel = ch /\ x.chan = <<>>
        /\ x.last = Cursor
    BY <1>2, <1>6, <1>7, <2>1, AnnouncedBody
  <2>3. ChannelInv(x)
    BY <1>0, <1>3, <2>2 DEF ChannelInv, HasEnd, LogInv
  <2>. QED
    BY <2>2, <2>3 DEF ConnInv
<1>9. CASE ~(path = "resume" /\ Gap(from))
  <2>1. x = a
    BY <1>5, <1>9
  <2>2. OutputIsCovered(a)
    BY <1>6 DEF OutputIsCovered
  <2>3. path = "resume" => NoGapBefore(a)
    BY <1>1, <1>6, <1>9, ReadWithoutGap DEF NoGapBefore
  <2>4. BodyInv(a)
    BY <1>0, <1>2, <1>6, <1>7, <2>2, <2>3 DEF BodyInv, KnowsLast
  <2>5. ended => HasEnd(a)
    BY <1>0, <1>1, <1>6, EventsAfterReads DEF HasEnd, LogInv
  <2>6. ChannelInv(a)
    BY <1>3, <1>6, <2>5 DEF ChannelInv, LogInv
  <2>. QED
    BY <2>1, <2>4, <2>6 DEF ConnInv
<1>. QED
  BY <1>8, <1>9

(* What follows the first event of a channel is in the log. *)
LEMMA TailInLog ==
  ASSUME NEW h \in Seq(Nat), h # <<>>, InLog(h)
  PROVE  Tail(h) \in Seq(Nat) /\ InLog(Tail(h))
<1>1. Len(h) \in Nat \ {0}
  OBVIOUS
<1>2. Tail(h) \in Seq(Nat) /\ Len(Tail(h)) = Len(h) - 1
  OBVIOUS
<1>3. \A j \in 1 .. Len(h) - 1 : Tail(h)[j] = h[j + 1]
  OBVIOUS
<1>. QED
  BY <1>1, <1>2, <1>3 DEF InLog

(* Without its first event, a hand is still a part of the log. *)
LEMMA TailOfHand ==
  ASSUME LogInv, NEW h \in Seq(Nat), h # <<>>, InLog(h), Run(h)
  PROVE  /\ Tail(h) \in Seq(Nat) /\ InLog(Tail(h)) /\ Run(Tail(h))
         /\ h[1] \in 1 .. Cursor
         /\ Tail(h) # <<>> => Tail(h)[1] = h[1] + 1
         /\ h[Len(h)] = Cursor => h[1] = Cursor \/ (Tail(h) # <<>> /\ Tail(h)[Len(Tail(h))] = Cursor)
<1>1. Len(h) \in Nat \ {0} /\ Cursor \in Nat
  BY DEF LogInv, Cursor
<1>2. Tail(h) \in Seq(Nat) /\ Len(Tail(h)) = Len(h) - 1
  OBVIOUS
<1>3. \A j \in 1 .. Len(h) - 1 : Tail(h)[j] = h[j + 1]
  OBVIOUS
<1>4. InLog(Tail(h)) /\ h[1] \in 1 .. Cursor
  BY <1>1, <1>2, <1>3 DEF InLog
<1>5. \A j \in 1 .. Len(h) - 1 : h[j + 1] = h[1] + j
  BY <1>1 DEF Run
<1>6. Run(Tail(h))
  <2>. SUFFICES ASSUME NEW j \in 1 .. Len(h) - 1 PROVE Tail(h)[j] = Tail(h)[1] + j - 1
    BY <1>2 DEF Run
  <2>1. 1 \in 1 .. Len(h) - 1 /\ h[1] \in Nat
    BY <1>1
  <2>2. Tail(h)[j] = h[1] + j /\ Tail(h)[1] = h[1] + 1
    BY <1>3, <1>5, <2>1
  <2>. QED
    BY <2>1, <2>2
<1>7. Tail(h) # <<>> => Tail(h)[1] = h[1] + 1
  BY <1>1, <1>2, <1>3, <1>5
<1>8. h[Len(h)] = Cursor => h[1] = Cursor \/ (Tail(h) # <<>> /\ Tail(h)[Len(Tail(h))] = Cursor)
  BY <1>1, <1>2, <1>3, SMTT(30)
<1>. QED
  BY <1>2, <1>4, <1>6, <1>7, <1>8

(* writeRunEvents: what is skipped the client has, what is written it gets. *)
LEMMA WrittenConn ==
  ASSUME LogInv, NEW cn, ConnInv(cn), cn.state = "open", cn.hand # <<>>
  PROVE  ConnInv(IF Head(cn.hand) <= cn.last
                 THEN [cn EXCEPT !.hand = Tail(@)]
                 ELSE [cn EXCEPT !.hand = Tail(@), !.last = Head(cn.hand),
                                 !.sent = @ \cup {Head(cn.hand)}])
<1>0. /\ cn \in Conn /\ BodyInv(cn) /\ ChannelInv(cn) /\ cn.hand \in Seq(Nat)
      /\ cn.last \in Nat /\ cn.from \in Nat /\ Cursor \in Nat
  BY DEF ConnInv, BodyInv, Conn, LogInv, Cursor
<1>1. PICK t \in Seq(Nat) : t = Tail(cn.hand)
  <2>1. Tail(cn.hand) \in Seq(Nat)
    BY <1>0, TailOfHand DEF BodyInv
  <2>. QED
    BY <2>1
<1>2. PICK i \in Nat : i = Head(cn.hand) /\ i = cn.hand[1]
  <2>1. Head(cn.hand) = cn.hand[1]
    BY <1>0
  <2>2. Len(cn.hand) \in Nat \ {0}
    BY <1>0
  <2>3. cn.hand[1] \in Nat
    BY <1>0, <2>2
  <2>. QED
    BY <2>1, <2>3
<1>3. /\ InLog(t) /\ Run(t) /\ i \in 1 .. Cursor
      /\ t # <<>> => t[1] = i + 1
      /\ cn.hand[Len(cn.hand)] = Cursor => i = Cursor \/ (t # <<>> /\ t[Len(t)] = Cursor)
  BY <1>0, <1>1, <1>2, TailOfHand DEF BodyInv
<1>4. CASE i <= cn.last
  <2>1. PICK a \in Conn : a = [cn EXCEPT !.hand = t]
    BY <1>0 DEF Conn
  <2>2. /\ a.state = cn.state /\ a.channel = cn.channel /\ a.chan = cn.chan
        /\ a.hand = t /\ a.last = cn.last /\ a.announced = cn.announced
        /\ a.sent = cn.sent /\ a.from = cn.from /\ a.path = cn.path
    BY <1>0, <2>1 DEF Conn
  <2>3. NoGapBefore(a)
    BY <1>0, <1>3, <1>4, <2>2, SMTT(30) DEF NoGapBefore
  <2>4. BodyInv(a)
    BY <1>0, <1>3, <2>2, <2>3 DEF BodyInv, KnowsLast, OutputIsCovered
  <2>5. HasEnd(cn) => HasEnd(a)
    BY <1>0, <1>3, <1>4, <2>2 DEF HasEnd
  <2>6. ChannelInv(a)
    BY <1>0, <2>2, <2>5 DEF ChannelInv
  <2>. QED
    BY <1>1, <1>2, <1>4, <2>1, <2>4, <2>6 DEF ConnInv
<1>5. CASE ~(i <= cn.last)
  <2>1. PICK a \in Conn : a = [cn EXCEPT !.hand = t, !.last = i, !.sent = @ \cup {i}]
    BY <1>0 DEF Conn
  <2>2. /\ a.state = cn.state /\ a.channel = cn.channel /\ a.chan = cn.chan
        /\ a.hand = t /\ a.last = i /\ a.announced = cn.announced
        /\ a.sent = cn.sent \cup {i} /\ a.from = cn.from /\ a.path = cn.path
    BY <1>0, <2>1 DEF Conn
  <2>3. NoGapBefore(a)
    BY <1>3, <2>2 DEF NoGapBefore
  <2>4. cn.path = "resume" => OutputIsCovered(a)
    <3>. SUFFICES ASSUME cn.path = "resume", NEW m \in cn.from + 1 .. i, IsOutput(m)
                  PROVE  m \in cn.sent \cup {i} \/ m <= cn.announced
      BY <2>2 DEF OutputIsCovered
    <3>1. \A k \in cn.last + 1 .. i - 1 : ~IsOutput(k)
      BY <1>0, <1>2 DEF BodyInv, NoGapBefore
    <3>2. m \in cn.from + 1 .. cn.last \/ m = i
      BY <1>0, <1>5, <3>1
    <3>. QED
      BY <1>0, <3>2 DEF BodyInv, OutputIsCovered
  <2>5. BodyInv(a)
    BY <1>0, <1>3, <2>2, <2>3, <2>4 DEF BodyInv, KnowsLast
  <2>6. HasEnd(cn) => HasEnd(a)
    BY <1>0, <1>3, <1>5, <2>2 DEF HasEnd
  <2>7. ChannelInv(a)
    BY <1>0, <2>2, <2>6 DEF ChannelInv
  <2>. QED
    BY <1>1, <1>2, <1>5, <2>1, <2>5, <2>7 DEF ConnInv
<1>. QED
  BY <1>4, <1>5

(* An event from the channel is the next one, or makes the handler go back to *)
(* the log.                                                                 *)
LEMMA ReceivedConn ==
  ASSUME LogInv, NEW cn, ConnInv(cn), cn.state = "open", cn.hand = <<>>, cn.chan # <<>>,
         NEW b, b = [cn EXCEPT !.chan = Tail(@)]
  PROVE  ConnInv(IF Head(cn.chan) > b.last + 1 THEN CatchUp(b)
                 ELSE [b EXCEPT !.hand = <<Head(cn.chan)>>])
<1>0. /\ cn \in Conn /\ BodyInv(cn) /\ ChannelInv(cn) /\ cn.chan \in Seq(Nat)
      /\ cn.last \in Nat /\ cn.from \in Nat /\ Cursor \in Nat
  BY SMTT(30) DEF ConnInv, BodyInv, Conn, LogInv, Cursor
<1>1. PICK t \in Seq(Nat) : t = Tail(cn.chan) /\ InLog(t)
  <2>1. Tail(cn.chan) \in Seq(Nat) /\ InLog(Tail(cn.chan))
    BY <1>0, TailInLog DEF BodyInv
  <2>. QED
    BY <2>1
<1>2. PICK i \in Nat : i = Head(cn.chan) /\ i = cn.chan[1]
  <2>1. Head(cn.chan) = cn.chan[1]
    BY <1>0
  <2>2. Len(cn.chan) \in Nat \ {0}
    BY <1>0
  <2>3. cn.chan[1] \in Nat
    BY <1>0, <2>2
  <2>. QED
    BY <2>1, <2>3
<1>3. Len(cn.chan) \in Nat \ {0}
  BY <1>0
<1>4. i \in 1 .. Cursor /\ InLog(t)
  BY <1>0, <1>1, <1>2, <1>3, SMTT(30) DEF BodyInv, InLog
<1>5. b \in Conn /\ b = [cn EXCEPT !.chan = t]
  BY <1>0, <1>1 DEF Conn
<1>6. /\ b.state = cn.state /\ b.channel = cn.channel /\ b.chan = t
      /\ b.hand = cn.hand /\ b.last = cn.last /\ b.announced = cn.announced
      /\ b.sent = cn.sent /\ b.from = cn.from /\ b.path = cn.path
  BY <1>0, <1>5 DEF Conn
<1>7. BodyInv(b)
  BY <1>0, <1>4, <1>5, <1>6 DEF BodyInv, KnowsLast, OutputIsCovered, NoGapBefore
<1>8. cn.channel \in {"open", "closed"} /\ (cn.channel = "open" => ~ended)
      /\ (cn.channel = "closed" => ended)
  BY <1>0 DEF ChannelInv, Conn
<1>9. CASE i > b.last + 1
  <2>1. /\ BodyInv(CatchUp(b)) /\ CatchUp(b).state = "open"
        /\ CatchUp(b).channel = cn.channel
    BY <1>6, <1>7, CaughtUp, ZenonT(60)
  <2>2. ChannelInv(CatchUp(b))
    BY <1>8, <2>1 DEF ChannelInv
  <2>. QED
    BY <1>2, <1>9, <2>1, <2>2 DEF ConnInv
<1>10. CASE ~(i > b.last + 1)
  <2>1. PICK h \in Seq(Nat) : h = <<i>> /\ Len(h) = 1 /\ h[1] = i
    <3>1. <<i>> \in Seq(Nat) /\ Len(<<i>>) = 1 /\ <<i>>[1] = i
      OBVIOUS
    <3>. QED
      BY <3>1
  <2>2. PICK a \in Conn : a = [b EXCEPT !.hand = h]
    BY <1>5 DEF Conn
  <2>3. /\ a.state = cn.state /\ a.channel = cn.channel /\ a.chan = t
        /\ a.hand = h /\ a.last = cn.last /\ a.announced = cn.announced
        /\ a.sent = cn.sent /\ a.from = cn.from /\ a.path = cn.path
    BY <1>5, <1>6, <2>2 DEF Conn
  <2>4. InLog(h) /\ Run(h)
    BY <1>4, <2>1 DEF InLog, Run
  <2>5. NoGapBefore(a)
    BY <1>0, <1>6, <1>10, <2>1, <2>3 DEF NoGapBefore
  <2>6. BodyInv(a)
    BY <1>0, <1>4, <2>3, <2>4, <2>5 DEF BodyInv, KnowsLast, OutputIsCovered
  <2>7. ChannelInv(a)
    BY <1>8, <2>3 DEF ChannelInv
  <2>. QED
    BY <1>2, <1>10, <2>1, <2>2, <2>6, <2>7 DEF ConnInv
<1>. QED
  BY <1>2, <1>9, <1>10

(* The last look at the log, and the end of a stream. *)
LEMMA EndingConn ==
  ASSUME LogInv, NEW cn, ConnInv(cn), cn.state = "open", cn.hand = <<>>, cn.chan = <<>>
  PROVE  /\ cn.channel = "closed" => ConnInv([CatchUp(cn) EXCEPT !.channel = "none"])
         /\ cn.channel = "none" => ConnInv([cn EXCEPT !.state = "finished"])
<1>0. cn \in Conn /\ BodyInv(cn) /\ ChannelInv(cn)
  BY DEF ConnInv, BodyInv
<1>1. ASSUME cn.channel = "closed" PROVE ConnInv([CatchUp(cn) EXCEPT !.channel = "none"])
  <2>1. PICK b \in Conn : b = CatchUp(cn) /\ BodyInv(b)
    BY <1>0, CaughtUp DEF BodyInv
  <2>2. ended /\ HasEnd(b) /\ b.state = "open" /\ b.chan = <<>>
    BY <1>0, <1>1, <2>1, CaughtUp DEF ChannelInv
  <2>3. PICK a \in Conn : a = [b EXCEPT !.channel = "none"]
    BY DEF Conn
  <2>4. /\ a.state = b.state /\ a.channel = "none" /\ a.chan = b.chan
        /\ a.hand = b.hand /\ a.last = b.last /\ a.announced = b.announced
        /\ a.sent = b.sent /\ a.from = b.from /\ a.path = b.path
    BY <2>3 DEF Conn
  <2>5. BodyInv(a)
    BY <2>1, <2>4 DEF BodyInv, KnowsLast, OutputIsCovered, NoGapBefore
  <2>6. ChannelInv(a)
    BY <2>2, <2>4 DEF ChannelInv, HasEnd
  <2>. QED
    BY <2>1, <2>3, <2>5, <2>6 DEF ConnInv
<1>2. ASSUME cn.channel = "none" PROVE ConnInv([cn EXCEPT !.state = "finished"])
  <2>1. PICK a \in Conn : a = [cn EXCEPT !.state = "finished"]
    BY <1>0 DEF Conn
  <2>2. /\ a.state = "finished" /\ a.channel = cn.channel /\ a.chan = cn.chan
        /\ a.hand = cn.hand /\ a.last = cn.last /\ a.announced = cn.announced
        /\ a.sent = cn.sent /\ a.from = cn.from /\ a.path = cn.path
    BY <1>0, <2>1 DEF Conn
  <2>3. BodyInv(a)
    BY <1>0, <2>2 DEF BodyInv, KnowsLast, OutputIsCovered, NoGapBefore
  <2>4. ChannelInv(a)
    BY <1>0, <1>2, <2>2 DEF ChannelInv, HasEnd
  <2>. QED
    BY <2>1, <2>3, <2>4 DEF ConnInv
<1>. QED
  BY <1>1, <1>2

-----------------------------------------------------------------------------
(* The log grows *)

(* appendEventLocked and trimLocked: the newest event stays, and the log      *)
(* remembers that it dropped output.                                        *)
LEMMA AppendedLog ==
  ASSUME LogInv, NEW k \in Kinds, AppendEvent(k), ended' \in BOOLEAN
  PROVE  /\ LogInv' /\ Cursor' = Cursor + 1 /\ Cursor \in Nat
         /\ \A i \in 1 .. Cursor : IsOutput(i)' <=> IsOutput(i)
<1>1. Cursor \in Nat /\ replayFrom \in Nat /\ kinds \in Seq(Kinds)
  BY DEF LogInv, Cursor
<1>2. PICK ks \in Seq(Kinds) : ks = Append(kinds, k)
  <2>1. Append(kinds, k) \in Seq(Kinds)
    BY <1>1
  <2>. QED
    BY <2>1
<1>a. /\ kinds' = ks /\ replayFrom' = Trimmed(Len(ks), replayFrom)
      /\ truncated' = TruncatedBy(ks, replayFrom, replayFrom')
  BY <1>2 DEF AppendEvent
<1>3. /\ kinds' = ks /\ Len(ks) = Cursor + 1
      /\ \A i \in 1 .. Cursor : ks[i] = kinds[i]
  BY <1>1, <1>2, <1>a DEF Cursor
<1>4. Cursor' = Cursor + 1 /\ \A i \in 1 .. Cursor : IsOutput(i)' <=> IsOutput(i)
  BY <1>3 DEF Cursor, IsOutput
<1>5. PICK d \in Nat : d = LogLimit \div 3 /\ 1 <= d /\ d <= LogLimit
  BY LogLimitAssumption
<1>6. replayFrom' \in Nat /\ replayFrom <= replayFrom' /\ replayFrom' < Cursor + 1
  <2>1. replayFrom' = IF Cursor + 1 - replayFrom > LogLimit THEN Cursor + 1 - d
                      ELSE replayFrom
    BY <1>1, <1>3, <1>5, <1>a DEF Trimmed
  <2>2. replayFrom <= Cursor
    BY DEF LogInv
  <2>. QED
    BY <1>1, <1>5, <2>1, <2>2, LogLimitAssumption
<1>7. truncated' \in BOOLEAN
  BY <1>a DEF TruncatedBy, LogInv
<1>8. ASSUME NEW i \in 1 .. replayFrom', IsOutput(i)' PROVE truncated' = TRUE
  <2>1. truncated' = TruncatedBy(ks, replayFrom, replayFrom')
    BY <1>a
  <2>2. CASE i \in 1 .. replayFrom
    <3>1. i \in 1 .. Cursor /\ IsOutput(i)
      BY <1>1, <1>4, <1>8, <2>2 DEF LogInv
    <3>2. truncated
      BY <2>2, <3>1 DEF LogInv
    <3>. QED
      BY <2>1, <3>2 DEF TruncatedBy
  <2>3. CASE i \notin 1 .. replayFrom
    <3>1. i \in replayFrom + 1 .. replayFrom' /\ ks[i] = "output"
      BY <1>1, <1>3, <1>6, <1>8, <2>3 DEF IsOutput
    <3>. QED
      BY <2>1, <3>1 DEF TruncatedBy
  <2>. QED
    BY <2>2, <2>3
<1>9. kinds' \in Seq(Kinds) /\ Cursor' > 0
  BY <1>1, <1>3, <1>4
<1>10. \A i \in 1 .. replayFrom' : IsOutput(i)' => truncated'
  BY <1>8
<1>11. LogInv'
  BY <1>1, <1>4, <1>6, <1>7, <1>9, <1>10 DEF LogInv
<1>. QED
  BY <1>1, <1>4, <1>11

(* A connection and an event that is recorded, offered to its channel or      *)
(* dropped; the terminal event closes the channel behind itself.            *)
LEMMA RecordedConn ==
  ASSUME LogInv, NEW k \in Kinds, AppendEvent(k), ended = FALSE,
         NEW cn, ConnInv(cn), NEW x,
         \/ ended' = FALSE /\ x = Offered(cn, Cursor + 1)
         \/ ended' = TRUE /\ x = Closed(Offered(cn, Cursor + 1))
  PROVE  ConnInv(x)'
<1>0. /\ cn \in Conn /\ BodyInv(cn) /\ ChannelInv(cn) /\ cn.chan \in Seq(Nat)
      /\ cn.last \in Nat /\ cn.from \in Nat /\ cn.announced \in Nat
      /\ cn.hand \in Seq(Nat)
  BY DEF ConnInv, BodyInv, Conn
<1>1. /\ Cursor' = Cursor + 1 /\ Cursor \in Nat
      /\ \A i \in 1 .. Cursor : IsOutput(i)' <=> IsOutput(i)
  BY AppendedLog
<1>2. cn.channel = "open" \/ (cn.channel = "none" /\ cn.state = "off" /\ cn.chan = <<>>)
  BY <1>0 DEF ChannelInv, HasEnd, Conn
<1>3. PICK t \in Seq(Nat) :
        /\ t = cn.chan \/ (t = Append(cn.chan, Cursor + 1) /\ cn.channel = "open")
        /\ Offered(cn, Cursor + 1) = [cn EXCEPT !.chan = t]
  <2>1. CASE cn.channel = "open" /\ Len(cn.chan) < Capacity
    <3>1. PICK t \in Seq(Nat) : t = Append(cn.chan, Cursor + 1)
      <4>1. Append(cn.chan, Cursor + 1) \in Seq(Nat)
        BY <1>0, <1>1
      <4>. QED
        BY <4>1
    <3>2. Offered(cn, Cursor + 1) = [cn EXCEPT !.chan = t]
      BY <1>0, <2>1, <3>1 DEF Offered
    <3>. QED
      BY <2>1, <3>1, <3>2
  <2>2. CASE ~(cn.channel = "open" /\ Len(cn.chan) < Capacity)
    <3>1. Offered(cn, Cursor + 1) = cn /\ cn = [cn EXCEPT !.chan = cn.chan]
      BY <1>0, <2>2 DEF Offered, Conn
    <3>. QED
      BY <1>0, <3>1
  <2>. QED
    BY <2>1, <2>2
<1>4. PICK ch \in {"none", "open", "closed"} :
        ch = IF ended' = TRUE /\ cn.channel = "open" THEN "closed" ELSE cn.channel
  BY <1>2
<1>5. PICK a \in Conn : a = [cn EXCEPT !.chan = t, !.channel = ch]
  BY <1>0 DEF Conn
<1>6. x = a
  <2>1. PICK b \in Conn : b = [cn EXCEPT !.chan = t]
    BY <1>0 DEF Conn
  <2>2. b.channel = cn.channel
    BY <1>0, <2>1 DEF Conn
  <2>3. a = [b EXCEPT !.channel = ch]
    BY <1>0, <1>5, <2>1 DEF Conn
  <2>4. CASE ended' = FALSE
    <3>1. x = b /\ ch = b.channel
      BY <1>3, <1>4, <2>1, <2>2, <2>4
    <3>. QED
      BY <2>3, <3>1 DEF Conn
  <2>5. CASE ended' = TRUE
    <3>1. x = [b EXCEPT !.channel = IF @ = "open" THEN "closed" ELSE @]
      BY <1>3, <2>1, <2>5 DEF Closed
    <3>. QED
      BY <1>4, <2>2, <2>3, <2>5, <3>1
  <2>. QED
    BY <2>4, <2>5
<1>7. /\ a.state = cn.state /\ a.channel = ch /\ a.chan = t
      /\ a.hand = cn.hand /\ a.last = cn.last /\ a.announced = cn.announced
      /\ a.sent = cn.sent /\ a.from = cn.from /\ a.path = cn.path
  BY <1>0, <1>5 DEF Conn
<1>8. InLog(cn.hand)' /\ InLog(t)'
  <2>1. InLog(cn.hand) /\ InLog(cn.chan)
    BY <1>0 DEF BodyInv
  <2>2. InLog(cn.hand)' /\ InLog(cn.chan)'
    BY <1>1, <2>1 DEF InLog
  <2>3. ASSUME t = Append(cn.chan, Cursor + 1) PROVE InLog(t)'
    <3>1. /\ Len(t) = Len(cn.chan) + 1 /\ t[Len(cn.chan) + 1] = Cursor + 1
          /\ \A j \in 1 .. Len(cn.chan) : t[j] = cn.chan[j]
          /\ Len(cn.chan) \in Nat
      BY <1>0, <1>1, <2>3
    <3>2. \A j \in 1 .. Len(t) : j \in 1 .. Len(cn.chan) \/ j = Len(cn.chan) + 1
      BY <3>1
    <3>3. \A j \in 1 .. Len(cn.chan) : cn.chan[j] \in 1 .. Cursor
      BY <2>1 DEF InLog
    <3>4. ASSUME NEW j \in 1 .. Len(t) PROVE t[j] \in 1 .. Cursor + 1
      <4>1. CASE j \in 1 .. Len(cn.chan)
        <5>1. t[j] \in 1 .. Cursor
          BY <3>1, <3>3, <4>1
        <5>. QED
          BY <1>1, <5>1
      <4>2. CASE j = Len(cn.chan) + 1
        BY <1>1, <3>1, <4>2
      <4>. QED
        BY <3>2, <4>1, <4>2
    <3>. QED
      BY <1>1, <3>4 DEF InLog
  <2>. QED
    BY <1>3, <2>2, <2>3
<1>9. cn.path = "resume" => OutputIsCovered(cn)' /\ NoGapBefore(cn)'
  <2>. SUFFICES ASSUME cn.path = "resume" PROVE OutputIsCovered(cn)' /\ NoGapBefore(cn)'
    OBVIOUS
  <2>1. OutputIsCovered(cn) /\ NoGapBefore(cn) /\ KnowsLast(cn)
        /\ cn.sent \subseteq 1 .. Cursor /\ cn.announced <= Cursor /\ InLog(cn.hand)
    BY <1>0 DEF BodyInv
  <2>2. cn.last <= Cursor \/ cn.last = cn.from
    BY <1>0, <1>1, <2>1 DEF KnowsLast
  <2>3. OutputIsCovered(cn)'
    BY <1>0, <1>1, <2>1, <2>2 DEF OutputIsCovered
  <2>4. cn.hand # <<>> => cn.hand[1] \in 1 .. Cursor
    <3>1. cn.hand # <<>> => Len(cn.hand) \in Nat \ {0}
      BY <1>0
    <3>. QED
      BY <2>1, <3>1 DEF InLog
  <2>5. NoGapBefore(cn)'
    BY <1>0, <1>1, <2>1, <2>4, SMTT(30) DEF NoGapBefore
  <2>. QED
    BY <2>3, <2>5
<1>10. BodyInv(a)'
  <2>1. /\ Run(cn.hand) /\ cn.sent \subseteq 1 .. Cursor /\ cn.announced <= Cursor
        /\ KnowsLast(cn)
    BY <1>0 DEF BodyInv
  <2>2. OutputIsCovered(a)' <=> OutputIsCovered(cn)'
    BY <1>7 DEF OutputIsCovered
  <2>3. NoGapBefore(a)' <=> NoGapBefore(cn)'
    BY <1>7 DEF NoGapBefore
  <2>. QED
    BY <1>0, <1>1, <1>7, <1>8, <1>9, <2>1, <2>2, <2>3 DEF BodyInv, KnowsLast
<1>11. ChannelInv(a)'
  BY <1>0, <1>2, <1>3, <1>4, <1>7 DEF ChannelInv, HasEnd
<1>. QED
  BY <1>6, <1>10, <1>11 DEF ConnInv

-----------------------------------------------------------------------------
(* The theorem *)

StreamInv == LogInv /\ conn \in [Clients -> Conn] /\ \A c \in Clients : ConnInv(conn[c])

(* A connection that nobody opened says nothing. *)
LEMMA OffHolds == LogInv => ConnInv(Off)
<1>. SUFFICES ASSUME LogInv PROVE ConnInv(Off)
  OBVIOUS
<1>1. Cursor \in Nat
  BY DEF LogInv, Cursor
<1>. QED
  BY <1>1, OffConn DEF ConnInv, BodyInv, ChannelInv, KnowsLast, OutputIsCovered,
     NoGapBefore, InLog, Run

(* A run starts with an empty log, or is restored with its terminal event. *)
LEMMA StreamStarts == StreamInit => StreamInv
<1>. SUFFICES ASSUME StreamInit PROVE StreamInv
  OBVIOUS
<1>1. kinds \in Seq(Kinds) /\ Cursor \in Nat /\ (ended => Cursor > 0) /\ ended \in BOOLEAN
  <2>1. <<>> \in Seq(Kinds) /\ Len(<<>>) = 0
    OBVIOUS
  <2>2. <<"other">> \in Seq(Kinds) /\ Len(<<"other">>) = 1
    BY DEF Kinds
  <2>3. CASE kinds = <<>> /\ ended = FALSE
    BY <2>1, <2>3 DEF Cursor
  <2>4. CASE kinds = <<"other">> /\ ended = TRUE
    BY <2>2, <2>4 DEF Cursor
  <2>. QED
    BY <2>3, <2>4 DEF StreamInit
<1>2. LogInv
  <2>1. replayFrom = 0 /\ truncated = FALSE
    BY DEF StreamInit
  <2>2. \A i \in 1 .. replayFrom : IsOutput(i) => truncated
    BY <2>1
  <2>3. truncated \in BOOLEAN
    BY <2>1
  <2>4. replayFrom \in Nat /\ replayFrom <= Cursor /\ (Cursor > 0 => replayFrom < Cursor)
    BY <1>1, <2>1
  <2>. QED
    BY <1>1, <2>2, <2>3, <2>4 DEF LogInv
<1>. QED
  BY <1>2, OffConn, OffHolds DEF StreamInv, StreamInit

(* Every step keeps the invariant. *)
LEMMA StreamKeeps == StreamInv /\ [StreamNext]_streamVars => StreamInv'
<1>. SUFFICES ASSUME StreamInv, [StreamNext]_streamVars PROVE StreamInv'
  OBVIOUS
<1>0. LogInv /\ conn \in [Clients -> Conn] /\ \A c \in Clients : ConnInv(conn[c])
  BY DEF StreamInv
(* A step of one connection. *)
<1>1. ASSUME NEW x, ConnInv(x), NEW c \in Clients, conn' = [conn EXCEPT ![c] = x],
             UNCHANGED <<kinds, replayFrom, truncated, ended>>
      PROVE  StreamInv'
  <2>1. LogInv' /\ Cursor' = Cursor /\ \A i : IsOutput(i)' <=> IsOutput(i)
    BY <1>0, <1>1 DEF LogInv, Cursor, IsOutput
  <2>2. \A d \in Clients : ConnInv(conn'[d])
    BY <1>0, <1>1
  <2>3. conn' \in [Clients -> Conn]
    BY <1>0, <1>1 DEF ConnInv, BodyInv
  <2>4. ASSUME NEW d \in Clients PROVE ConnInv(conn[d])'
    <3>1. ConnInv(conn'[d])
      BY <2>2
    <3>. QED
      BY <1>1, <2>1, <3>1 DEF ConnInv, BodyInv, ChannelInv, InLog, Run, KnowsLast,
         OutputIsCovered, NoGapBefore, HasEnd
  <2>. QED
    BY <2>1, <2>3, <2>4 DEF StreamInv
(* A step of the log. *)
<1>2. ASSUME NEW k \in Kinds, AppendEvent(k), ended = FALSE,
             \/ /\ ended' = FALSE
                /\ conn' = [c \in Clients |-> Offered(conn[c], Cursor + 1)]
             \/ /\ ended' = TRUE
                /\ conn' = [c \in Clients |-> Closed(Offered(conn[c], Cursor + 1))]
      PROVE  StreamInv'
  <2>1. LogInv'
    BY <1>0, <1>2, AppendedLog
  <2>2. ASSUME NEW c \in Clients PROVE ConnInv(conn[c])'
    <3>1. PICK cn : cn = conn[c]
      OBVIOUS
    <3>2. PICK x : x = conn'[c]
      OBVIOUS
    <3>3. \/ ended' = FALSE /\ x = Offered(cn, Cursor + 1)
          \/ ended' = TRUE /\ x = Closed(Offered(cn, Cursor + 1))
      BY <1>2, <3>1, <3>2
    <3>4. ConnInv(x)'
      BY <1>0, <1>2, <3>1, <3>3, RecordedConn
    <3>. QED
      BY <3>2, <3>4
  <2>3. conn' \in [Clients -> Conn]
    <3>1. \A c \in Clients : conn'[c] \in Conn
      BY <2>2 DEF ConnInv, BodyInv
    <3>2. \E F : conn' = [c \in Clients |-> F[c]]
      <4>1. CASE conn' = [c \in Clients |-> Offered(conn[c], Cursor + 1)]
        <5>1. PICK F : F = [c \in Clients |-> Offered(conn[c], Cursor + 1)]
          OBVIOUS
        <5>. QED
          BY <4>1, <5>1
      <4>2. CASE conn' = [c \in Clients |-> Closed(Offered(conn[c], Cursor + 1))]
        <5>1. PICK F : F = [c \in Clients |-> Closed(Offered(conn[c], Cursor + 1))]
          OBVIOUS
        <5>. QED
          BY <4>2, <5>1
      <4>. QED
        BY <1>2, <4>1, <4>2
    <3>. QED
      BY <3>1, <3>2
  <2>. QED
    BY <2>1, <2>2, <2>3 DEF StreamInv
<1>3. CASE UNCHANGED streamVars
  BY <1>0, <1>3 DEF streamVars, StreamInv, LogInv, Cursor, IsOutput, ConnInv, BodyInv,
     ChannelInv, InLog, Run, KnowsLast, OutputIsCovered, NoGapBefore, HasEnd
<1>4. ASSUME NEW k \in Kinds, Record(k) PROVE StreamInv'
  BY <1>0, <1>2, <1>4 DEF Record, LogInv
<1>5. CASE Terminate
  BY <1>0, <1>2, <1>5 DEF Terminate, LogInv, Kinds
<1>6. ASSUME NEW c \in Clients, NEW from \in 0 .. MaxOutputs, Resume(c, from)
      PROVE  StreamInv'
  <2>1. from \in Nat
    BY MaxOutputsAssumption
  <2>2. PICK x : x = IF Gap(from) THEN Announce(Opened("resume", from))
                     ELSE Opened("resume", from)
    OBVIOUS
  <2>3. ConnInv(x)
    BY <1>0, <2>1, <2>2, OpenedConn
  <2>. QED
    BY <1>1, <1>6, <2>2, <2>3 DEF Resume
<1>7. ASSUME NEW c \in Clients, Replay(c) PROVE StreamInv'
  <2>1. ConnInv(Opened("replay", 0))
    BY <1>0, OpenedConn
  <2>. QED
    BY <1>1, <1>7, <2>1 DEF Replay
<1>8. ASSUME NEW c \in Clients, Write(c) PROVE StreamInv'
  <2>1. PICK cn : cn = conn[c]
    OBVIOUS
  <2>2. PICK x : x = IF Head(cn.hand) <= cn.last
                     THEN [cn EXCEPT !.hand = Tail(@)]
                     ELSE [cn EXCEPT !.hand = Tail(@), !.last = Head(cn.hand),
                                     !.sent = @ \cup {Head(cn.hand)}]
    OBVIOUS
  <2>3. ConnInv(x)
    BY <1>0, <1>8, <2>1, <2>2, WrittenConn DEF Write
  <2>4. conn' = [conn EXCEPT ![c] = x]
    BY <1>8, <2>1, <2>2 DEF Write
  <2>. QED
    BY <1>1, <1>8, <2>3, <2>4 DEF Write
<1>9. ASSUME NEW c \in Clients, Receive(c) PROVE StreamInv'
  <2>1. PICK cn : cn = conn[c]
    OBVIOUS
  <2>2. PICK b : b = [cn EXCEPT !.chan = Tail(@)]
    OBVIOUS
  <2>3. PICK x : x = IF Head(cn.chan) > b.last + 1 THEN CatchUp(b)
                     ELSE [b EXCEPT !.hand = <<Head(cn.chan)>>]
    OBVIOUS
  <2>4. ConnInv(x)
    BY <1>0, <1>9, <2>1, <2>2, <2>3, ReceivedConn DEF Receive
  <2>. QED
    BY <1>1, <1>9, <2>1, <2>2, <2>3, <2>4 DEF Receive
<1>10. ASSUME NEW c \in Clients, LastLook(c) PROVE StreamInv'
  <2>1. PICK cn : cn = conn[c]
    OBVIOUS
  <2>2. ConnInv([CatchUp(cn) EXCEPT !.channel = "none"])
    BY <1>0, <1>10, <2>1, EndingConn DEF LastLook
  <2>. QED
    BY <1>1, <1>10, <2>1, <2>2 DEF LastLook
<1>11. ASSUME NEW c \in Clients, EndStream(c) PROVE StreamInv'
  <2>1. PICK cn : cn = conn[c]
    OBVIOUS
  <2>2. ConnInv([cn EXCEPT !.state = "finished"])
    BY <1>0, <1>11, <2>1, EndingConn DEF EndStream
  <2>. QED
    BY <1>1, <1>11, <2>1, <2>2 DEF EndStream
<1>12. ASSUME NEW c \in Clients, Disconnect(c) PROVE StreamInv'
  BY <1>0, <1>1, <1>12, OffHolds DEF Disconnect
<1>. QED
  BY <1>3, <1>4, <1>5, <1>6, <1>7, <1>8, <1>9, <1>10, <1>11, <1>12 DEF StreamNext, Forward

(* A resumed client never misses output without being told, and a stream that *)
(* ends by itself has shown the end, however far the log is trimmed and      *)
(* whatever a full channel drops.                                           *)
THEOREM MissesNothing == StreamSpec => []NothingIsMissedSilently
<1>1. StreamInv => NothingIsMissedSilently
  <2>. SUFFICES ASSUME StreamInv, NEW c \in Clients
                PROVE  /\ conn[c].path = "resume" => OutputIsCovered(conn[c])
                       /\ conn[c].state = "finished" =>
                            ended /\ (Cursor \in conn[c].sent \/ conn[c].announced = Cursor
                                      \/ conn[c].from >= Cursor)
    BY DEF NothingIsMissedSilently, ResumeMissesNothingSilently, FinishedStreamHasTheEnd
  <2>1. PICK cn : cn = conn[c]
    OBVIOUS
  <2>2. /\ BodyInv(cn) /\ ChannelInv(cn) /\ cn.last \in Nat /\ cn.from \in Nat
        /\ cn.announced \in Nat /\ Cursor \in Nat
    BY <2>1 DEF StreamInv, ConnInv, BodyInv, Conn, LogInv, Cursor
  <2>3. cn.state = "finished" => ended /\ cn.last >= Cursor
    BY <2>2 DEF ChannelInv, HasEnd
  <2>4. cn.last >= Cursor =>
          Cursor \in cn.sent \/ cn.announced = Cursor \/ cn.from >= Cursor
    BY <2>2 DEF BodyInv, KnowsLast
  <2>. QED
    BY <2>1, <2>2, <2>3, <2>4 DEF BodyInv
<1>. QED
  BY <1>1, StreamStarts, StreamKeeps, PTL DEF StreamSpec

-----------------------------------------------------------------------------
(* The snapshot of a run.  The moment is the one at which the second reading   *)
(* begins: whatever was accepted is no newer than it, whatever is read from    *)
(* then on is no older; where both agree they are of that moment.  A policy    *)
(* taken from what the process keeps may be older, and marks the reading.      *)

Values == Nat \union {Unreadable}
Revisions == [Dependencies -> Nat]
Steps == {"none", "capture", "admitted", "validate", "running"}

NoNewer(seen, m) == \A i \in DOMAIN seen : seen[i] \in Nat => seen[i] <= m[ReadingOrder[i]]
NoOlder(seen, stale, m) ==
  \A i \in DOMAIN seen :
    seen[i] \in Nat /\ (stale => ReadingOrder[i] \notin Policies) => m[ReadingOrder[i]] <= seen[i]
Precedes(m, n) == \A d \in Dependencies : m[d] <= n[d]

SnapshotTypeOK ==
  /\ revision \in Revisions /\ moments \subseteq Revisions
  /\ start \in [step : Steps, seen : Seq(Values), stale : BOOLEAN,
                accepted : Seq(Values), acceptedStale : BOOLEAN]
  /\ Len(start.seen) <= Len(ReadingOrder)

\* What the process keeps of a policy was there once.
KeptIsPast ==
  /\ kept \in [Policies -> Values]
  /\ \A d \in Policies : kept[d] \in Nat => kept[d] <= revision[d]

\* The moment of the present is among those that count, once a run is on its way.
PresentCounts == start.step # "none" => revision \in moments

\* What was read for the acceptance is no newer than the present.
AcceptanceIsPast ==
  /\ start.step = "capture" => NoNewer(start.seen, revision)
  /\ start.step = "admitted" =>
       Len(start.seen) = 0 /\ Len(start.accepted) = Len(ReadingOrder) /\ NoNewer(start.accepted, revision)

\* The second reading goes on from a moment that parts it from the first.
MomentBetween ==
  start.step = "validate" =>
    \E m \in moments :
      Precedes(m, revision) /\ NoNewer(start.accepted, m) /\ NoOlder(start.seen, start.stale, m)

SnapshotInv ==
  SnapshotTypeOK /\ KeptIsPast /\ PresentCounts /\ AcceptanceIsPast /\ MomentBetween /\ RunUsesOneMoment

\* The things read are there in their order.
LEMMA ReadingOrderFits ==
  /\ DOMAIN ReadingOrder = 1..Len(ReadingOrder) /\ Len(ReadingOrder) \in Nat
  /\ \A i \in 1..Len(ReadingOrder) : ReadingOrder[i] \in Dependencies
  BY SnapshotAssumption DEF Dependencies

\* One more value read keeps the earlier ones where they are.
LEMMA OneMoreRead ==
  ASSUME NEW seen \in Seq(Values), NEW value \in Values
  PROVE  /\ Append(seen, value) \in Seq(Values) /\ Len(Append(seen, value)) = Len(seen) + 1
         /\ DOMAIN Append(seen, value) = DOMAIN seen \union {Len(seen) + 1}
         /\ \A i \in DOMAIN seen : Append(seen, value)[i] = seen[i]
         /\ Append(seen, value)[Len(seen) + 1] = value
  OBVIOUS

\* At the start nothing has been read and no run is on its way.
LEMMA InitSatisfiesInv == SnapshotInit => SnapshotInv
<1> SUFFICES ASSUME SnapshotInit PROVE SnapshotInv
  OBVIOUS
<1> USE DEF SnapshotInit, NoStart
<1>1. SnapshotTypeOK
  BY ReadingOrderFits DEF SnapshotTypeOK, Revisions, Steps
<1>2. PresentCounts /\ AcceptanceIsPast /\ MomentBetween /\ RunUsesOneMoment
  BY DEF PresentCounts, AcceptanceIsPast, MomentBetween, RunUsesOneMoment
<1>3. KeptIsPast
  BY SnapshotAssumption DEF KeptIsPast, Values
<1> QED
  BY <1>1, <1>2, <1>3 DEF SnapshotInv

\* Where no run is on its way there is nothing to keep but the types.
LEMMA WithoutARun ==
  ASSUME SnapshotInv, start' = NoStart, revision' = revision, moments' = moments, KeptIsPast'
  PROVE  SnapshotInv'
<1> USE DEF NoStart
<1>1. SnapshotTypeOK'
  BY ReadingOrderFits DEF SnapshotInv, SnapshotTypeOK, Steps
<1>2. PresentCounts' /\ AcceptanceIsPast' /\ MomentBetween' /\ RunUsesOneMoment'
  BY DEF PresentCounts, AcceptanceIsPast, MomentBetween, RunUsesOneMoment
<1> QED
  BY <1>1, <1>2 DEF SnapshotInv

\* What is kept stays of the past when nothing is kept anew.
LEMMA KeptStays ==
  ASSUME SnapshotInv, revision' = revision, kept' = kept
  PROVE  KeptIsPast'
  BY DEF SnapshotInv, KeptIsPast

\* The record of a reading that goes on.
OneMore(seen, value, stale) ==
  [step |-> start.step, seen |-> Append(seen, value), stale |-> stale,
   accepted |-> start.accepted, acceptedStale |-> start.acceptedStale]

\* One more thing is read: the value is no newer than the present, and is the
\* present one unless it marks the reading; of what was read before, some may
\* be given up.
LEMMA OneMoreKeepsInv ==
  ASSUME SnapshotInv, StillReading, revision' = revision, moments' = moments, KeptIsPast',
         NEW seen \in Seq(Values), Len(seen) = Len(start.seen), NEW value \in Values, NEW stale \in BOOLEAN,
         start' = OneMore(seen, value, stale),
         \A i \in DOMAIN seen : seen[i] \in Nat =>
           /\ seen[i] = start.seen[i]
           /\ start.stale /\ ~stale => ReadingOrder[i] \notin Policies,
         value \in Nat =>
           /\ value <= revision[NextThing]
           /\ value = revision[NextThing] \/ (stale /\ NextThing \in Policies)
  PROVE  SnapshotInv'
<1> DEFINE n == Len(start.seen) + 1
<1>1. /\ n \in Nat /\ n <= Len(ReadingOrder) /\ NextThing \in Dependencies
      /\ NextThing = ReadingOrder[n] /\ start.step \in {"capture", "validate"}
      /\ start.seen \in Seq(Values) /\ revision[NextThing] \in Nat
  BY ReadingOrderFits DEF SnapshotInv, SnapshotTypeOK, StillReading, NextThing, Revisions
<1>2. /\ start'.step = start.step /\ start'.accepted = start.accepted
      /\ start'.seen = Append(seen, value) /\ start'.stale = stale
  BY DEF OneMore
<1>3. /\ start'.seen \in Seq(Values) /\ Len(start'.seen) = n
      /\ DOMAIN start'.seen = DOMAIN start.seen \union {n} /\ DOMAIN seen = DOMAIN start.seen
      /\ \A i \in DOMAIN seen : start'.seen[i] = seen[i]
      /\ start'.seen[n] = value
  <2>1. DOMAIN seen = 1..Len(seen) /\ DOMAIN start.seen = 1..Len(start.seen)
    BY <1>1
  <2> QED
    BY <1>2, <2>1, OneMoreRead
<1>4. SnapshotTypeOK'
  BY <1>1, <1>2, <1>3 DEF SnapshotInv, SnapshotTypeOK, OneMore
<1>5. PresentCounts' /\ RunUsesOneMoment'
  BY <1>1, <1>2 DEF SnapshotInv, PresentCounts, RunUsesOneMoment
<1>6. AcceptanceIsPast'
  <2> SUFFICES ASSUME start.step = "capture" PROVE NoNewer(start'.seen, revision)
    BY <1>1, <1>2 DEF AcceptanceIsPast, NoNewer
  <2>1. NoNewer(start.seen, revision)
    BY DEF SnapshotInv, AcceptanceIsPast
  <2> SUFFICES ASSUME NEW i \in DOMAIN start'.seen, start'.seen[i] \in Nat
               PROVE  start'.seen[i] <= revision[ReadingOrder[i]]
    BY DEF NoNewer
  <2>2. CASE i = n
    BY <1>1, <1>3, <2>2
  <2>3. CASE i \in DOMAIN seen
    BY <1>3, <2>1, <2>3 DEF NoNewer
  <2> QED
    BY <1>3, <2>2, <2>3
<1>7. MomentBetween'
  <2> SUFFICES ASSUME start.step = "validate" PROVE MomentBetween'
    BY <1>2 DEF MomentBetween
  <2>1. PICK m \in moments :
          Precedes(m, revision) /\ NoNewer(start.accepted, m) /\ NoOlder(start.seen, start.stale, m)
    BY DEF SnapshotInv, MomentBetween
  <2>2. NoOlder(start'.seen, stale, m)
    <3> SUFFICES ASSUME NEW i \in DOMAIN start'.seen, start'.seen[i] \in Nat,
                        stale => ReadingOrder[i] \notin Policies
                 PROVE  m[ReadingOrder[i]] <= start'.seen[i]
      BY DEF NoOlder
    <3>1. CASE i = n
      BY <1>1, <1>3, <2>1, <3>1 DEF Precedes
    <3>2. CASE i \in DOMAIN seen
      BY <1>3, <2>1, <3>2 DEF NoOlder
    <3> QED
      BY <1>3, <3>1, <3>2
  <2> QED
    BY <1>2, <2>1, <2>2 DEF MomentBetween
<1> QED
  BY <1>4, <1>5, <1>6, <1>7 DEF SnapshotInv

\* A thing that is no policy is read as it is, or put down as unavailable.
LEMMA ReadingKeepsInv ==
  ASSUME SnapshotInv, ReadDependency
  PROVE  SnapshotInv'
<1>1. KeptIsPast' /\ revision' = revision /\ moments' = moments /\ StillReading
  BY KeptStays DEF ReadDependency
<1>2. CASE start' = NoStart
  BY <1>1, <1>2, WithoutARun
<1>3. ASSUME NEW value \in Readings(NextThing),
             start' = [start EXCEPT !.seen = Append(@, value)]
      PROVE  SnapshotInv'
  <2>1. /\ start.seen \in Seq(Values) /\ start.stale \in BOOLEAN
        /\ start' = OneMore(start.seen, value, start.stale)
    BY <1>3 DEF SnapshotInv, SnapshotTypeOK, OneMore
  <2>2. revision[NextThing] \in Nat
    BY <1>1, ReadingOrderFits DEF SnapshotInv, SnapshotTypeOK, StillReading, NextThing, Revisions
  <2>3. value \in Values /\ (value \in Nat => value = revision[NextThing])
    BY <1>3, <2>2, SnapshotAssumption DEF Values, Readings
  <2> HIDE DEF NextThing
  <2>4. value \in Nat =>
           /\ value <= revision[NextThing]
           /\ value = revision[NextThing] \/ (start.stale /\ NextThing \in Policies)
    BY <2>2, <2>3
  <2> QED
    BY <1>1, <2>1, <2>3, <2>4, OneMoreKeepsInv
<1> QED
  BY <1>2, <1>3 DEF ReadDependency

\* A policy is read as it is, or as it was kept, which marks the reading, or is
\* given up with all others.
LEMMA PolicyKeepsInv ==
  ASSUME SnapshotInv, ReadPolicy
  PROVE  SnapshotInv'
<1>1. /\ revision' = revision /\ moments' = moments /\ StillReading /\ NextThing \in Policies
      /\ start.seen \in Seq(Values) /\ start.stale \in BOOLEAN
      /\ start \in [step : Steps, seen : Seq(Values), stale : BOOLEAN,
                    accepted : Seq(Values), acceptedStale : BOOLEAN]
  BY DEF ReadPolicy, SnapshotInv, SnapshotTypeOK
<1>2. revision[NextThing] \in Nat /\ kept \in [Policies -> Values]
  BY <1>1, SnapshotAssumption DEF SnapshotInv, SnapshotTypeOK, Revisions, KeptIsPast
<1>3. CASE start' = NoStart /\ kept' = kept
  BY <1>1, <1>3, WithoutARun, KeptStays
<1>4. CASE /\ start' = [start EXCEPT !.seen = Append(@, revision[NextThing])]
           /\ kept' = [kept EXCEPT ![NextThing] = revision[NextThing]]
  <2>1. KeptIsPast'
    <3>1. kept' \in [Policies -> Values]
      BY <1>2, <1>4 DEF Values
    <3>2. ASSUME NEW d \in Policies, kept'[d] \in Nat PROVE kept'[d] <= revision[d]
      BY <1>1, <1>2, <1>4, <3>2 DEF SnapshotInv, KeptIsPast
    <3> QED
      BY <1>1, <3>1, <3>2 DEF KeptIsPast
  <2>2. start' = OneMore(start.seen, revision[NextThing], start.stale)
    BY <1>1, <1>4 DEF OneMore
  <2>3. revision[NextThing] \in Values /\ revision[NextThing] <= revision[NextThing]
    BY <1>2 DEF Values
  <2> QED
    BY <1>1, <2>1, <2>2, <2>3, OneMoreKeepsInv
<1>5. CASE /\ start' = [start EXCEPT !.seen = Append(@, kept[NextThing]), !.stale = TRUE]
           /\ kept' = kept
  <2>1. /\ kept[NextThing] \in Values
        /\ kept[NextThing] \in Nat => kept[NextThing] <= revision[NextThing]
        /\ start' = OneMore(start.seen, kept[NextThing], TRUE)
    BY <1>1, <1>2, <1>5 DEF SnapshotInv, KeptIsPast, OneMore
  <2> QED
    BY <1>1, <1>5, <2>1, KeptStays, OneMoreKeepsInv
<1>6. CASE /\ start' = [start EXCEPT !.seen = Append(WithoutPolicies(@), Unreadable), !.stale = FALSE]
           /\ kept' = kept
  <2> DEFINE seen == WithoutPolicies(start.seen)
  <2>1. /\ DOMAIN seen = DOMAIN start.seen
        /\ \A i \in DOMAIN seen : seen[i] \in Values
        /\ \A i \in DOMAIN seen : seen[i] = IF ReadingOrder[i] \in Policies THEN Unreadable ELSE start.seen[i]
    BY <1>1 DEF WithoutPolicies, Values
  <2>2. seen \in Seq(Values) /\ Len(seen) = Len(start.seen)
    <3>1. DOMAIN start.seen = 1..Len(start.seen) /\ Len(start.seen) \in Nat
      BY <1>1
    <3>2. seen = [i \in 1..Len(start.seen) |-> seen[i]]
      BY <3>1 DEF WithoutPolicies
    <3>3. seen \in [1..Len(start.seen) -> Values]
      BY <2>1, <3>1, <3>2
    <3> HIDE DEF seen
    <3> QED
      BY <3>1, <3>3
  <2>3. \A i \in DOMAIN seen : seen[i] \in Nat => seen[i] = start.seen[i] /\ ReadingOrder[i] \notin Policies
    BY <2>1, SnapshotAssumption
  <2>4. Unreadable \in Values /\ Unreadable \notin Nat
    BY SnapshotAssumption DEF Values
  <2>5. start' = OneMore(seen, Unreadable, FALSE)
    BY <1>1, <1>6 DEF OneMore
  <2> HIDE DEF seen
  <2>6. KeptIsPast'
    BY <1>1, <1>6, KeptStays
  <2>7. \A i \in DOMAIN seen : seen[i] \in Nat =>
           /\ seen[i] = start.seen[i]
           /\ start.stale /\ ~FALSE => ReadingOrder[i] \notin Policies
    BY <2>3
  <2> HIDE <1>6, <2>3
  <2> QED
    BY <1>1, <2>2, <2>4, <2>5, <2>6, <2>7, OneMoreKeepsInv
<1> QED
  BY <1>3, <1>4, <1>5, <1>6 DEF ReadPolicy

\* Everything accepted is of the past when the second reading begins, and
\* nothing of that has been read yet: the present is the moment between.
LEMMA SecondReadingBegins ==
  ASSUME SnapshotInv, ValidateBegins
  PROVE  SnapshotInv'
<1>1. /\ start.step = "admitted" /\ start'.step = "validate"
      /\ start'.seen = start.seen /\ start'.accepted = start.accepted /\ start'.stale = start.stale
      /\ revision' = revision /\ moments' = moments /\ kept' = kept
  BY DEF SnapshotInv, SnapshotTypeOK, ValidateBegins
<1>2. SnapshotTypeOK'
  BY <1>1 DEF SnapshotInv, SnapshotTypeOK, ValidateBegins, Steps
<1>3. revision \in moments /\ Len(start.seen) = 0 /\ NoNewer(start.accepted, revision)
  BY <1>1 DEF SnapshotInv, PresentCounts, AcceptanceIsPast
<1>4. Precedes(revision, revision) /\ NoOlder(start.seen, start.stale, revision)
  BY <1>3 DEF SnapshotInv, SnapshotTypeOK, Revisions, Precedes, NoOlder
<1>5. MomentBetween'
  BY <1>1, <1>3, <1>4 DEF MomentBetween
<1>6. PresentCounts' /\ AcceptanceIsPast' /\ RunUsesOneMoment'
  BY <1>1, <1>3 DEF PresentCounts, AcceptanceIsPast, RunUsesOneMoment
<1> QED
  BY <1>1, <1>2, <1>5, <1>6, KeptStays DEF SnapshotInv

\* A value that is no newer than a moment and no older than it is of it.
LEMMA SecondReadingEnds ==
  ASSUME SnapshotInv, ValidateEnds
  PROVE  SnapshotInv'
<1>0. KeptIsPast' /\ revision' = revision /\ moments' = moments
  BY KeptStays DEF ValidateEnds
<1>1. CASE start' = NoStart
  BY <1>0, <1>1, WithoutARun
<1>2. CASE start' = [start EXCEPT !.step = "running"] /\ IsUnchanged(start)
  <2>1. /\ start.step = "validate" /\ start'.step = "running"
        /\ start'.seen = start.seen /\ start.seen = start.accepted /\ start'.stale = start.stale
        /\ Len(start.seen) = Len(ReadingOrder) /\ start.stale \in BOOLEAN
    BY <1>2 DEF SnapshotInv, SnapshotTypeOK, ValidateEnds, AllRead, IsUnchanged
  <2>2. SnapshotTypeOK'
    BY <1>0, <1>2, <2>1 DEF SnapshotInv, SnapshotTypeOK, Steps
  <2>3. PICK m \in moments : NoNewer(start.seen, m) /\ NoOlder(start.seen, start.stale, m)
    BY <2>1 DEF SnapshotInv, MomentBetween
  <2>4. ASSUME NEW i \in DOMAIN ReadingOrder
        PROVE  \/ start.seen[i] \in {m[ReadingOrder[i]], Unreadable}
               \/ ReadingOrder[i] \in Policies /\ start.stale /\ start.seen[i] <= m[ReadingOrder[i]]
    <3>1. i \in DOMAIN start.seen /\ start.seen[i] \in Values /\ m[ReadingOrder[i]] \in Nat
      BY <2>1, <2>4, ReadingOrderFits DEF SnapshotInv, SnapshotTypeOK, Revisions
    <3> QED
      BY <2>1, <2>3, <3>1 DEF Values, NoNewer, NoOlder
  <2>5. RunUsesOneMoment'
    BY <1>0, <2>1, <2>4 DEF RunUsesOneMoment
  <2>6. PresentCounts' /\ AcceptanceIsPast' /\ MomentBetween'
    BY <1>0, <2>1 DEF SnapshotInv, PresentCounts, AcceptanceIsPast, MomentBetween
  <2> QED
    BY <1>0, <2>2, <2>5, <2>6 DEF SnapshotInv
<1> QED
  BY <1>1, <1>2 DEF ValidateEnds

\* A change makes the present newer, never older, and adds it to the moments.
LEMMA ChangesKeepInv ==
  ASSUME SnapshotInv, NEW d \in Dependencies, ChangeDependency(d)
  PROVE  SnapshotInv'
<1>1. /\ start' = start /\ revision' \in Revisions
      /\ \A e \in Dependencies : revision[e] \in Nat /\ revision'[e] \in Nat /\ revision[e] <= revision'[e]
      /\ moments \subseteq moments' /\ moments' \subseteq Revisions
      /\ start.step # "none" => revision' \in moments'
  <2>1. revision \in Revisions /\ moments \subseteq Revisions
    BY DEF SnapshotInv, SnapshotTypeOK
  <2>2. revision' = [revision EXCEPT ![d] = @ + 1] /\ start' = start
    BY DEF ChangeDependency
  <2>3. /\ revision' \in Revisions
        /\ \A e \in Dependencies : revision[e] \in Nat /\ revision'[e] \in Nat /\ revision[e] <= revision'[e]
    BY <2>1, <2>2 DEF Revisions
  <2>4. moments' = IF start.step = "none" THEN moments ELSE moments \union {revision'}
    BY DEF ChangeDependency
  <2> QED
    BY <2>1, <2>2, <2>3, <2>4
<1>2. SnapshotTypeOK' /\ PresentCounts' /\ RunUsesOneMoment'
  BY <1>1 DEF SnapshotInv, SnapshotTypeOK, PresentCounts, RunUsesOneMoment
<1>6. KeptIsPast'
  <2>1. kept' = kept /\ kept \in [Policies -> Values]
    BY DEF ChangeDependency, SnapshotInv, KeptIsPast
  <2>2. ASSUME NEW p \in Policies, kept[p] \in Nat PROVE kept[p] <= revision'[p]
    <3>1. p \in Dependencies /\ kept[p] <= revision[p]
      BY <2>2, SnapshotAssumption DEF SnapshotInv, KeptIsPast
    <3> QED
      BY <1>1, <2>2, <3>1
  <2> QED
    BY <2>1, <2>2 DEF KeptIsPast
<1>3. ASSUME NEW seen \in Seq(Values), Len(seen) <= Len(ReadingOrder), NoNewer(seen, revision)
      PROVE  NoNewer(seen, revision')
  <2> SUFFICES ASSUME NEW i \in DOMAIN seen, seen[i] \in Nat PROVE seen[i] <= revision'[ReadingOrder[i]]
    BY DEF NoNewer
  <2>1. ReadingOrder[i] \in Dependencies
    BY <1>3, ReadingOrderFits
  <2> QED
    BY <1>1, <1>3, <2>1 DEF NoNewer
<1>4. AcceptanceIsPast'
  <2>1. /\ start.seen \in Seq(Values) /\ Len(start.seen) <= Len(ReadingOrder)
        /\ start.accepted \in Seq(Values)
    BY DEF SnapshotInv, SnapshotTypeOK
  <2>2. start.step = "capture" => NoNewer(start.seen, revision')
    BY <1>3, <2>1 DEF SnapshotInv, AcceptanceIsPast
  <2>3. start.step = "admitted" =>
          /\ Len(start.seen) = 0 /\ Len(start.accepted) = Len(ReadingOrder)
          /\ NoNewer(start.accepted, revision')
    BY <1>3, <2>1 DEF SnapshotInv, SnapshotTypeOK, AcceptanceIsPast
  <2> QED
    BY <1>1, <2>2, <2>3 DEF AcceptanceIsPast
<1>5. MomentBetween'
  <2> SUFFICES ASSUME start.step = "validate" PROVE MomentBetween'
    BY <1>1 DEF MomentBetween
  <2>1. PICK m \in moments :
          Precedes(m, revision) /\ NoNewer(start.accepted, m) /\ NoOlder(start.seen, start.stale, m)
    BY DEF SnapshotInv, MomentBetween
  <2>2. Precedes(m, revision')
    BY <1>1, <2>1 DEF SnapshotInv, SnapshotTypeOK, Revisions, Precedes
  <2> QED
    BY <1>1, <2>1, <2>2 DEF MomentBetween
<1> QED
  BY <1>2, <1>4, <1>5, <1>6 DEF SnapshotInv

\* Whatever another request has parsed was there once.
LEMMA ReadElsewhereKeepsInv ==
  ASSUME SnapshotInv, NEW d \in Policies, ReadElsewhere(d)
  PROVE  SnapshotInv'
<1>1. PICK value \in 0..revision[d] : kept' = [kept EXCEPT ![d] = value]
  BY DEF ReadElsewhere
<1>2. start' = start /\ revision' = revision /\ moments' = moments /\ revision[d] \in Nat
  BY SnapshotAssumption DEF ReadElsewhere, SnapshotInv, SnapshotTypeOK, Revisions
<1>3. KeptIsPast'
  BY <1>1, <1>2 DEF SnapshotInv, KeptIsPast, Values
<1> QED
  BY <1>2, <1>3
     DEF SnapshotInv, SnapshotTypeOK, PresentCounts, AcceptanceIsPast, MomentBetween, RunUsesOneMoment

\* The invariant is kept by every step.
LEMMA StepKeepsInv == SnapshotInv /\ [SnapshotNext]_snapshotVars => SnapshotInv'
<1> SUFFICES ASSUME SnapshotInv, [SnapshotNext]_snapshotVars PROVE SnapshotInv'
  OBVIOUS
<1>1. CASE CaptureBegins
  <2>1. /\ start' = [NoStart EXCEPT !.step = "capture"]
        /\ revision' = revision /\ moments' = {revision} /\ kept' = kept
    BY <1>1 DEF CaptureBegins
  <2>2. start' = [step |-> "capture", seen |-> <<>>, stale |-> FALSE,
                  accepted |-> <<>>, acceptedStale |-> FALSE]
    BY <2>1 DEF NoStart
  <2>3. SnapshotTypeOK'
    <3>1. revision' \in Revisions /\ moments' \subseteq Revisions
      BY <2>1 DEF SnapshotInv, SnapshotTypeOK
    <3>2. start' \in [step : Steps, seen : Seq(Values), stale : BOOLEAN,
                      accepted : Seq(Values), acceptedStale : BOOLEAN]
      BY <2>2 DEF Steps
    <3>3. Len(start'.seen) <= Len(ReadingOrder)
      BY <2>2, ReadingOrderFits
    <3> QED
      BY <3>1, <3>2, <3>3 DEF SnapshotTypeOK
  <2>4. PresentCounts' /\ MomentBetween' /\ RunUsesOneMoment'
    BY <2>1, <2>2 DEF PresentCounts, MomentBetween, RunUsesOneMoment
  <2>5. AcceptanceIsPast'
    BY <2>2 DEF AcceptanceIsPast, NoNewer
  <2> QED
    BY <2>1, <2>3, <2>4, <2>5, KeptStays DEF SnapshotInv
<1>2. CASE ReadDependency
  BY <1>2, ReadingKeepsInv
<1>9. CASE ReadPolicy
  BY <1>9, PolicyKeepsInv
<1>3. CASE Admit
  <2>0. KeptIsPast' /\ revision' = revision /\ moments' = moments
    BY <1>3, KeptStays DEF Admit
  <2>1. CASE start' = NoStart
    BY <2>0, <2>1, WithoutARun
  <2>2. CASE start' = [NoStart EXCEPT !.step = "admitted", !.accepted = start.seen,
                                     !.acceptedStale = start.stale]
    <3>0. start' = [step |-> "admitted", seen |-> <<>>, stale |-> FALSE,
                    accepted |-> start.seen, acceptedStale |-> start.stale]
      BY <2>2 DEF NoStart
    <3>1. SnapshotTypeOK'
      BY <2>0, <3>0, ReadingOrderFits DEF SnapshotInv, SnapshotTypeOK, Steps
    <3>2. /\ start.step = "capture" /\ Len(start.seen) = Len(ReadingOrder)
          /\ revision' = revision /\ moments' = moments
      BY <1>3 DEF Admit, AllRead
    <3>3. start'.step = "admitted" /\ start'.seen = <<>> /\ start'.accepted = start.seen
      BY <3>0
    <3>4. PresentCounts' /\ MomentBetween' /\ RunUsesOneMoment'
      BY <3>2, <3>3 DEF SnapshotInv, PresentCounts, MomentBetween, RunUsesOneMoment
    <3>5. NoNewer(start'.accepted, revision')
      BY <3>2, <3>3 DEF SnapshotInv, AcceptanceIsPast
    <3>6. AcceptanceIsPast'
      BY <3>2, <3>3, <3>5 DEF AcceptanceIsPast
    <3> QED
      BY <2>0, <3>1, <3>4, <3>6 DEF SnapshotInv
  <2> QED
    BY <1>3, <2>1, <2>2 DEF Admit
<1>4. CASE ValidateBegins
  BY <1>4, SecondReadingBegins
<1>5. CASE ValidateEnds
  BY <1>5, SecondReadingEnds
<1>6. CASE RunEnds
  BY <1>6, WithoutARun, KeptStays DEF RunEnds
<1>7. ASSUME NEW d \in Dependencies, ChangeDependency(d) PROVE SnapshotInv'
  BY <1>7, ChangesKeepInv
<1>8. CASE UNCHANGED snapshotVars
  BY <1>8
     DEF SnapshotInv, SnapshotTypeOK, KeptIsPast, PresentCounts, AcceptanceIsPast, MomentBetween, RunUsesOneMoment,
         snapshotVars
<1>10. ASSUME NEW d \in Policies, ReadElsewhere(d) PROVE SnapshotInv'
  BY <1>10, ReadElsewhereKeepsInv
<1>11. CASE SnapshotRestart
  <2>1. KeptIsPast'
    BY <1>11, SnapshotAssumption DEF SnapshotRestart, KeptIsPast, Values
  <2> QED
    BY <1>11, <2>1, WithoutARun DEF SnapshotRestart
<1> QED
  BY <1>1, <1>2, <1>3, <1>4, <1>5, <1>6, <1>7, <1>8, <1>9, <1>10, <1>11 DEF SnapshotNext

\* A run uses what was there together at one moment since it was accepted, and
\* of policies nothing newer: comparing two readings that each take many
\* queries (captureAcceptedRuntimeSnapshot, ValidateAcceptedRuntimeSnapshot) is
\* enough, however many things there are and whatever the process keeps.
THEOREM RunsUseOneMoment == SnapshotSpec => []RunUsesOneMoment
<1>1. SnapshotInv => RunUsesOneMoment
  BY DEF SnapshotInv
<1> QED
  BY InitSatisfiesInv, StepKeepsInv, <1>1, PTL DEF SnapshotSpec

-----------------------------------------------------------------------------
(* AgentLoop.  Flattening sequences of sequences.  FlattenSeq and Only are     *)
(* recursive functions: the functions are unique, and what one more element   *)
(* does to them is theirs for all sequences.                                  *)

(* The sequences made so far, each from the one before. *)
Joins(m, ss, f) == f = [i \in 1 .. m |-> IF i = 1 THEN ss[i] ELSE f[i - 1] \o ss[i]]

(* There are such joins, for any sequences. *)
LEMMA JoinsExists ==
  ASSUME NEW ss, NEW n \in Nat
  PROVE  \E f : Joins(n, ss, f)
<1> DEFINE Exist == {m \in Nat : \E f : Joins(m, ss, f)}
<1>1. 0 \in Exist
  <2> DEFINE f == [i \in 1 .. 0 |-> ss[i]]
             h == [i \in 1 .. 0 |-> IF i = 1 THEN ss[i] ELSE f[i - 1] \o ss[i]]
  <2>1. f = h
    OBVIOUS
  <2>2. Joins(0, ss, f)
    BY <2>1 DEF Joins
  <2> HIDE DEF f
  <2>3. QED
    BY <2>2
<1>2. ASSUME NEW m \in Nat, m \in Exist PROVE m + 1 \in Exist
  <2>1. PICK f : Joins(m, ss, f)
    BY <1>2
  <2> DEFINE g == [i \in 1 .. m + 1 |-> IF i = 1 THEN ss[i] ELSE f[i - 1] \o ss[i]]
             h == [i \in 1 .. m + 1 |-> IF i = 1 THEN ss[i] ELSE g[i - 1] \o ss[i]]
  <2>2. ASSUME NEW i \in 1 .. m + 1, i # 1 PROVE g[i - 1] = f[i - 1]
    <3>1. i - 1 \in 1 .. m /\ i - 1 \in 1 .. m + 1
      BY <2>2
    <3>2. QED
      BY <2>1, <3>1 DEF Joins
  <2>3. \A i \in 1 .. m + 1 : g[i] = h[i]
    BY <2>2
  <2>4. g = h
    BY <2>3
  <2>5. Joins(m + 1, ss, g)
    BY <2>4 DEF Joins
  <2> HIDE DEF g
  <2>6. m + 1 \in Nat /\ \E p : Joins(m + 1, ss, p)
    BY <2>5
  <2>7. QED
    BY <2>6
<1> HIDE DEF Exist
<1>3. n \in Exist
  BY <1>1, <1>2, NumberInduction
<1>4. QED
  BY <1>3 DEF Exist

(* FlattenSeq joins. *)
LEMMA FlattenJoins ==
  ASSUME NEW S, NEW ss \in Seq(Seq(S)), ss # <<>>
  PROVE  \E f : Joins(Len(ss), ss, f) /\ FlattenSeq(ss) = f[Len(ss)]
<1> DEFINE N == Len(ss)
           flatten == CHOOSE f : Joins(N, ss, f)
<1>1. N \in Nat /\ N # 0
  OBVIOUS
<1>2. Joins(N, ss, flatten)
  BY <1>1, JoinsExists
<1>3. FlattenSeq(ss) = IF N = 0 THEN ss ELSE flatten[N]
  BY DEF FlattenSeq, Joins
<1> HIDE DEF flatten, N
<1>4. QED
  BY <1>1, <1>2, <1>3 DEF N

(* Joining more does not change what was joined. *)
LEMMA JoinsAgree ==
  ASSUME NEW S, NEW ss \in Seq(Seq(S)), NEW t \in Seq(S), NEW f, NEW g,
         Joins(Len(ss), ss, f), Joins(Len(ss) + 1, Append(ss, t), g)
  PROVE  \A i \in 1 .. Len(ss) : f[i] = g[i]
<1> DEFINE N == Len(ss)
           tt == Append(ss, t)
           Good == {n \in Nat : n \in 1 .. N => f[n] = g[n]}
<1>1. N \in Nat /\ \A i \in 1 .. N : ss[i] = tt[i]
  OBVIOUS
<1> HIDE DEF tt
<1>2. 0 \in Good
  OBVIOUS
<1>3. ASSUME NEW n \in Nat, n \in Good PROVE n + 1 \in Good
  <2>1. SUFFICES ASSUME n + 1 \in 1 .. N PROVE f[n + 1] = g[n + 1]
    OBVIOUS
  <2>2. f[n + 1] = IF n + 1 = 1 THEN ss[n + 1] ELSE f[(n + 1) - 1] \o ss[n + 1]
    BY <2>1 DEF Joins
  <2>3. n + 1 \in 1 .. N + 1
    BY <1>1, <2>1
  <2>4. g[n + 1] = IF n + 1 = 1 THEN tt[n + 1] ELSE g[(n + 1) - 1] \o tt[n + 1]
    BY <2>3 DEF Joins, tt
  <2>5. ss[n + 1] = tt[n + 1] /\ (n + 1) - 1 = n
    BY <1>1, <2>1
  <2>6. n # 0 => f[n] = g[n]
    BY <1>3, <2>1, <1>1
  <2>7. QED
    BY <2>2, <2>4, <2>5, <2>6
<1> HIDE DEF Good
<1>4. Nat \subseteq Good
  BY <1>2, <1>3, NumberInduction
<1>5. QED
  BY <1>1, <1>4 DEF Good

(* Nothing flattens to nothing. *)
LEMMA FlattenEmpty ==
  FlattenSeq(<<>>) = <<>>
BY DEF FlattenSeq

(* One more sequence comes at the end. *)
LEMMA FlattenAppends ==
  ASSUME NEW S, NEW ss \in Seq(Seq(S)), NEW t \in Seq(S)
  PROVE  FlattenSeq(Append(ss, t)) = FlattenSeq(ss) \o t
<1> DEFINE tt == Append(ss, t)
           N == Len(ss)
<1>1. N \in Nat /\ tt \in Seq(Seq(S)) /\ tt # <<>> /\ Len(tt) = N + 1 /\ tt[N + 1] = t
  BY SMTT(30), AppendProperties, LenProperties
<1>2. PICK g : Joins(N + 1, tt, g) /\ FlattenSeq(tt) = g[N + 1]
  <2> HIDE DEF tt
  <2>1. QED
    BY <1>1, FlattenJoins
<1>3. g[N + 1] = IF N + 1 = 1 THEN tt[N + 1] ELSE g[(N + 1) - 1] \o tt[N + 1]
  <2> HIDE DEF tt, N
  <2>1. N + 1 \in 1 .. N + 1
    BY <1>1
  <2>2. QED
    BY <1>2, <2>1 DEF Joins
<1>4. CASE ss = <<>>
  <2>1. N = 0
    BY <1>4
  <2>2. FlattenSeq(tt) = t
    BY <1>1, <1>2, <1>3, <2>1
  <2>3. FlattenSeq(ss) = <<>> /\ <<>> \o t = t
    BY <1>4, FlattenEmpty
  <2> HIDE DEF tt
  <2>4. FlattenSeq(tt) = FlattenSeq(ss) \o t
    BY <2>2, <2>3
  <2>5. QED
    BY <2>4 DEF tt
<1>5. CASE ss # <<>>
  <2>1. PICK f : Joins(N, ss, f) /\ FlattenSeq(ss) = f[N]
    BY <1>5, FlattenJoins
  <2>2. \A i \in 1 .. N : f[i] = g[i]
    BY <1>2, <2>1, JoinsAgree
  <2>3. N # 0 /\ N \in 1 .. N /\ (N + 1) - 1 = N
    BY <1>5
  <2> HIDE DEF N, tt
  <2>4. N + 1 # 1
    BY <1>1, <2>3
  <2>5. g[N + 1] = g[N] \o t
    BY <1>1, <1>3, <2>3, <2>4
  <2>6. FlattenSeq(tt) = FlattenSeq(ss) \o t
    BY <1>2, <2>1, <2>2, <2>3, <2>5
  <2>7. QED
    BY <2>6 DEF tt
<1>6. QED
  BY <1>4, <1>5

(* What the empty sequence has and each sequence gives to a longer one, all have. *)
LEMMA SequenceInduction ==
  ASSUME NEW S, NEW Good, <<>> \in Good,
         \A s \in Seq(S), e \in S : s \in Good => Append(s, e) \in Good
  PROVE  Seq(S) \subseteq Good
<1> DEFINE Right == {n \in Nat : \A s \in Seq(S) : Len(s) = n => s \in Good}
<1>1. 0 \in Right
  OBVIOUS
<1>2. ASSUME NEW n \in Nat, n \in Right PROVE n + 1 \in Right
  <2>1. SUFFICES ASSUME NEW s \in Seq(S), Len(s) = n + 1 PROVE s \in Good
    OBVIOUS
  <2>2. PICK r \in Seq(S), e \in S : s = Append(r, e)
    BY <2>1, SequenceEmptyOrAppend
  <2>3. Len(r) = n
    BY <2>1, <2>2
  <2>4. QED
    BY <1>2, <2>2, <2>3
<1> HIDE DEF Right
<1>3. Nat \subseteq Right
  BY <1>1, <1>2, NumberInduction
<1>4. ASSUME NEW s \in Seq(S) PROVE s \in Good
  <2>1. Len(s) \in Nat
    OBVIOUS
  <2>2. QED
    BY <1>3, <2>1 DEF Right
<1>5. QED
  BY <1>4

(* Flattening keeps to the elements' set. *)
LEMMA FlattenType ==
  ASSUME NEW S
  PROVE  \A ss \in Seq(Seq(S)) : FlattenSeq(ss) \in Seq(S)
<1> DEFINE Good == {ss \in Seq(Seq(S)) : FlattenSeq(ss) \in Seq(S)}
<1>1. <<>> \in Good
  <2>1. <<>> \in Seq(Seq(S)) /\ <<>> \in Seq(S)
    BY EmptySeq
  <2>2. QED
    BY <2>1, FlattenEmpty
<1>2. ASSUME NEW ss \in Seq(Seq(S)), NEW t \in Seq(S), ss \in Good PROVE Append(ss, t) \in Good
  <2>1. FlattenSeq(Append(ss, t)) = FlattenSeq(ss) \o t
    BY FlattenAppends
  <2>2. FlattenSeq(ss) \in Seq(S)
    BY <1>2
  <2>3. FlattenSeq(Append(ss, t)) \in Seq(S)
    BY <2>1, <2>2
  <2>4. Append(ss, t) \in Seq(Seq(S))
    OBVIOUS
  <2>5. QED
    BY <2>3, <2>4
<1> HIDE DEF Good
<1>3. Seq(Seq(S)) \subseteq Good
  BY <1>1, <1>2, SequenceInduction
<1>4. QED
  BY <1>3 DEF Good

(* Flattened sequences hold what those hold. *)
LEMMA FlattenElements ==
  ASSUME NEW S
  PROVE  \A ss \in Seq(Seq(S)) :
           Range(FlattenSeq(ss)) = UNION {Range(ss[i]) : i \in DOMAIN ss}
<1> DEFINE All(ss) == UNION {Range(ss[i]) : i \in DOMAIN ss}
           Good == {ss \in Seq(Seq(S)) : Range(FlattenSeq(ss)) = All(ss)}
<1>1. <<>> \in Good
  BY FlattenEmpty DEF Range
<1>2. ASSUME NEW ss \in Seq(Seq(S)), NEW t \in Seq(S), ss \in Good PROVE Append(ss, t) \in Good
  <2>1. FlattenSeq(Append(ss, t)) = FlattenSeq(ss) \o t /\ FlattenSeq(ss) \in Seq(S)
    BY FlattenAppends, FlattenType
  <2>2. Range(FlattenSeq(Append(ss, t))) = Range(FlattenSeq(ss)) \cup Range(t)
    BY <2>1, RangeConcatenation
  <2> DEFINE tt == Append(ss, t)
             N == Len(ss)
  <2>3. /\ tt \in Seq(Seq(S)) /\ DOMAIN tt = DOMAIN ss \cup {N + 1} /\ tt[N + 1] = t
        /\ \A i \in DOMAIN ss : tt[i] = ss[i]
    OBVIOUS
  <2> HIDE DEF tt, N
  <2>4. All(tt) = All(ss) \cup Range(t)
    <3>1. \A x : x \in All(tt) <=> \E i \in DOMAIN tt : x \in Range(tt[i])
      OBVIOUS
    <3>2. \A x : x \in All(ss) <=> \E i \in DOMAIN ss : x \in Range(ss[i])
      OBVIOUS
    <3> HIDE DEF All
    <3>3. QED
      BY <3>1, <3>2, <2>3
  <2> HIDE DEF All
  <2>5. Range(FlattenSeq(tt)) = All(tt)
    BY <1>2, <2>2, <2>4 DEF tt
  <2>6. QED
    BY <2>3, <2>5 DEF tt
<1> HIDE DEF Good
<1>3. Seq(Seq(S)) \subseteq Good
  BY <1>1, <1>2, SequenceInduction
<1>4. QED
  BY <1>3 DEF Good

(* The sequence of what h makes of the elements of s. *)
Each(s, h) == [i \in DOMAIN s |-> h[s[i]]]

(* As many elements as before, each what h makes of it. *)
LEMMA EachType ==
  ASSUME NEW S, NEW T, NEW h \in [S -> T], NEW s \in Seq(S)
  PROVE  /\ Each(s, h) \in Seq(T) /\ Len(Each(s, h)) = Len(s)
         /\ DOMAIN Each(s, h) = DOMAIN s /\ \A i \in DOMAIN s : Each(s, h)[i] = h[s[i]]
BY SMTT(30) DEF Each

(* One more element comes at the end. *)
LEMMA EachAppends ==
  ASSUME NEW S, NEW T, NEW h \in [S -> T], NEW s \in Seq(S), NEW x \in S
  PROVE  Each(Append(s, x), h) = Append(Each(s, h), h[x])
<1> DEFINE r == Append(s, x)
           a == Each(r, h)
           b == Append(Each(s, h), h[x])
           N == Len(s)
<1>1. /\ r \in Seq(S) /\ Len(r) = N + 1 /\ DOMAIN r = 1 .. N + 1 /\ DOMAIN s = 1 .. N
      /\ r[N + 1] = x /\ \A i \in 1 .. N : r[i] = s[i]
  OBVIOUS
<1>2. /\ Each(s, h) \in Seq(T) /\ Len(Each(s, h)) = N /\ h[x] \in T
      /\ \A i \in 1 .. N : Each(s, h)[i] = h[s[i]]
  <2>1. Each(s, h) \in Seq(T) /\ Len(Each(s, h)) = N
    BY EachType
  <2>2. \A i \in 1 .. N : Each(s, h)[i] = h[s[i]]
    BY <1>1 DEF Each
  <2>3. QED
    BY <2>1, <2>2
<1>3. /\ b \in Seq(T) /\ Len(b) = N + 1 /\ b[N + 1] = h[x]
      /\ \A i \in 1 .. N : b[i] = Each(s, h)[i]
  <2> HIDE DEF N
  <2>1. QED
    BY <1>2, AppendProperties
<1> HIDE DEF r
<1>4. a \in Seq(T) /\ Len(a) = N + 1 /\ \A i \in 1 .. N + 1 : a[i] = h[r[i]]
  BY <1>1, EachType
<1> HIDE DEF a, b
<1>5. ASSUME NEW i \in 1 .. N + 1 PROVE a[i] = b[i]
  <2>1. CASE i = N + 1
    BY <1>1, <1>3, <1>4, <2>1
  <2>2. CASE i \in 1 .. N
    <3>1. r[i] = s[i] /\ b[i] = h[s[i]]
      BY <1>1, <1>2, <1>3, <2>2
    <3>2. a[i] = h[r[i]]
      BY <1>4
    <3>3. QED
      BY <3>1, <3>2
  <2>3. QED
    BY <2>1, <2>2
<1>6. a = b
  BY <1>3, <1>4, <1>5, SeqEqual
<1>7. QED
  BY <1>6 DEF a, b, r

(* Nothing makes nothing. *)
LEMMA EachEmpty ==
  ASSUME NEW h PROVE Each(<<>>, h) = <<>>
BY DEF Each

(* Flattening commutes with what respects concatenation. *)
LEMMA FlattenMaps ==
  ASSUME NEW S, NEW T, NEW h \in [Seq(S) -> Seq(T)], h[<<>>] = <<>>,
         \A s, t \in Seq(S) : h[s \o t] = h[s] \o h[t]
  PROVE  \A ss \in Seq(Seq(S)) : h[FlattenSeq(ss)] = FlattenSeq(Each(ss, h))
<1> DEFINE Good == {ss \in Seq(Seq(S)) : h[FlattenSeq(ss)] = FlattenSeq(Each(ss, h))}
<1>1. <<>> \in Good
  BY FlattenEmpty, EachEmpty, EmptySeq
<1>2. ASSUME NEW ss \in Seq(Seq(S)), NEW t \in Seq(S), ss \in Good PROVE Append(ss, t) \in Good
  <2>1. FlattenSeq(Append(ss, t)) = FlattenSeq(ss) \o t /\ FlattenSeq(ss) \in Seq(S)
    BY FlattenAppends, FlattenType
  <2>2. h[FlattenSeq(Append(ss, t))] = h[FlattenSeq(ss)] \o h[t]
    BY <2>1
  <2>3. Each(Append(ss, t), h) = Append(Each(ss, h), h[t])
    BY EachAppends, ZenonT(60)
  <2>4. Each(ss, h) \in Seq(Seq(T)) /\ h[t] \in Seq(T)
    BY EachType
  <2>5. FlattenSeq(Append(Each(ss, h), h[t])) = FlattenSeq(Each(ss, h)) \o h[t]
    BY <2>4, FlattenAppends
  <2>6. h[FlattenSeq(ss)] = FlattenSeq(Each(ss, h))
    BY <1>2
  <2>7. Append(ss, t) \in Seq(Seq(S))
    OBVIOUS
  <2>8. QED
    BY <2>2, <2>3, <2>5, <2>6, <2>7
<1> HIDE DEF Good
<1>3. Seq(Seq(S)) \subseteq Good
  BY <1>1, <1>2, SequenceInduction
<1>4. QED
  BY <1>3 DEF Good

(* What f makes of the elements, joined. *)
Bind(s, f) == FlattenSeq(Each(s, f))

(* The joined elements are of the set f leads to. *)
LEMMA BindType ==
  ASSUME NEW S, NEW T, NEW f \in [S -> Seq(T)], NEW s \in Seq(S)
  PROVE  Bind(s, f) \in Seq(T)
BY EachType, FlattenType DEF Bind

(* Nothing makes nothing, joined. *)
LEMMA BindEmpty ==
  ASSUME NEW f PROVE Bind(<<>>, f) = <<>>
BY EachEmpty, FlattenEmpty DEF Bind

(* One more element comes at the end. *)
LEMMA BindAppends ==
  ASSUME NEW S, NEW T, NEW f \in [S -> Seq(T)], NEW s \in Seq(S), NEW x \in S
  PROVE  Bind(Append(s, x), f) = Bind(s, f) \o f[x]
<1>1. Each(s, f) \in Seq(Seq(T)) /\ f[x] \in Seq(T)
  BY EachType
<1>2. Each(Append(s, x), f) = Append(Each(s, f), f[x])
  BY EachAppends, ZenonT(60)
<1>3. QED
  BY <1>1, <1>2, FlattenAppends DEF Bind

(* What follows comes at the end. *)
LEMMA BindConcat ==
  ASSUME NEW S, NEW T, NEW f \in [S -> Seq(T)], NEW s \in Seq(S)
  PROVE  \A t \in Seq(S) : Bind(s \o t, f) = Bind(s, f) \o Bind(t, f)
<1> DEFINE Good == {t \in Seq(S) : Bind(s \o t, f) = Bind(s, f) \o Bind(t, f)}
<1>0. Bind(s, f) \in Seq(T)
  BY BindType
<1>1. <<>> \in Good
  <2>1. s \o <<>> = s /\ Bind(s, f) \o <<>> = Bind(s, f)
    BY <1>0, ConcatEmptySeq
  <2>2. QED
    BY <2>1, BindEmpty, EmptySeq
<1>2. ASSUME NEW t \in Seq(S), NEW x \in S, t \in Good PROVE Append(t, x) \in Good
  <2>1. s \o Append(t, x) = Append(s \o t, x) /\ s \o t \in Seq(S) /\ Append(t, x) \in Seq(S)
    BY SMTT(30)
  <2>2. Bind(Append(s \o t, x), f) = Bind(s \o t, f) \o f[x]
    BY <2>1, BindAppends
  <2>3. Bind(Append(t, x), f) = Bind(t, f) \o f[x]
    BY BindAppends
  <2>4. Bind(s \o t, f) = Bind(s, f) \o Bind(t, f)
    BY <1>2
  <2>5. Bind(t, f) \in Seq(T) /\ f[x] \in Seq(T)
    BY BindType
  <2>6. (Bind(s, f) \o Bind(t, f)) \o f[x] = Bind(s, f) \o (Bind(t, f) \o f[x])
    BY <1>0, <2>5, ConcatAssociative, SMTT(30)
  <2>7. QED
    BY <2>1, <2>2, <2>3, <2>4, <2>6
<1> HIDE DEF Good
<1>3. Seq(S) \subseteq Good
  BY <1>1, <1>2, SequenceInduction
<1>4. QED
  BY <1>3 DEF Good

(* The elements are those that f makes of each. *)
LEMMA BindElements ==
  ASSUME NEW S, NEW T, NEW f \in [S -> Seq(T)], NEW s \in Seq(S)
  PROVE  Range(Bind(s, f)) = UNION {Range(f[s[i]]) : i \in DOMAIN s}
<1>1. Each(s, f) \in Seq(Seq(T))
  BY EachType
<1>2. Range(Bind(s, f)) = UNION {Range(Each(s, f)[i]) : i \in DOMAIN Each(s, f)}
  BY <1>1, FlattenElements DEF Bind
<1>3. DOMAIN Each(s, f) = DOMAIN s /\ \A i \in DOMAIN s : Each(s, f)[i] = f[s[i]]
  BY DEF Each
<1>4. {Range(Each(s, f)[i]) : i \in DOMAIN Each(s, f)} = {Range(f[s[i]]) : i \in DOMAIN s}
  BY <1>3
<1>5. QED
  BY <1>2, <1>4

(* A sequence that holds nothing is empty. *)
LEMMA EmptyRange ==
  ASSUME NEW S, NEW s \in Seq(S) PROVE s = <<>> <=> Range(s) = {}
<1>1. CASE s = <<>>
  BY <1>1 DEF Range
<1>2. CASE s # <<>>
  <2>1. 1 \in DOMAIN s
    BY <1>2
  <2>2. s[1] \in Range(s)
    BY <2>1 DEF Range
  <2>3. QED
    BY <1>2, <2>2
<1>3. QED
  BY <1>1, <1>2
-----------------------------------------------------------------------------
(* Chunks *)

Chunk == [t : Nat, a : Nat, i : Nat, k : ChunkKinds]

(* The chunks kept so far. *)
Keeps(m, s, ks, f) ==
  f = [i \in 0 .. m |->
         IF i = 0 THEN <<>>
         ELSE IF s[i].k \in ks THEN Append(f[i - 1], s[i]) ELSE f[i - 1]]

(* There are such chunks kept, for any sequence. *)
LEMMA KeepsExists ==
  ASSUME NEW s, NEW ks, NEW n \in Nat
  PROVE  \E f : Keeps(n, s, ks, f)
<1> DEFINE Exist == {m \in Nat : \E f : Keeps(m, s, ks, f)}
<1>1. 0 \in Exist
  <2> DEFINE f == [i \in 0 .. 0 |-> <<>>]
             h == [i \in 0 .. 0 |->
                     IF i = 0 THEN <<>>
                     ELSE IF s[i].k \in ks THEN Append(f[i - 1], s[i]) ELSE f[i - 1]]
  <2>1. f = h
    OBVIOUS
  <2>2. Keeps(0, s, ks, f)
    BY <2>1 DEF Keeps
  <2> HIDE DEF f
  <2>3. QED
    BY <2>2
<1>2. ASSUME NEW m \in Nat, m \in Exist PROVE m + 1 \in Exist
  <2>1. PICK f : Keeps(m, s, ks, f)
    BY <1>2
  <2> DEFINE g == [i \in 0 .. m + 1 |->
                     IF i = 0 THEN <<>>
                     ELSE IF s[i].k \in ks THEN Append(f[i - 1], s[i]) ELSE f[i - 1]]
             h == [i \in 0 .. m + 1 |->
                     IF i = 0 THEN <<>>
                     ELSE IF s[i].k \in ks THEN Append(g[i - 1], s[i]) ELSE g[i - 1]]
  <2>2. ASSUME NEW i \in 0 .. m + 1, i # 0 PROVE g[i - 1] = f[i - 1]
    <3>1. i - 1 \in 0 .. m /\ i - 1 \in 0 .. m + 1
      BY <2>2
    <3>2. QED
      BY <2>1, <3>1 DEF Keeps
  <2>3. \A i \in 0 .. m + 1 : g[i] = h[i]
    BY <2>2
  <2>4. g = h
    BY <2>3
  <2>5. Keeps(m + 1, s, ks, g)
    BY <2>4 DEF Keeps
  <2> HIDE DEF g
  <2>6. m + 1 \in Nat /\ \E p : Keeps(m + 1, s, ks, p)
    BY <2>5
  <2>7. QED
    BY <2>6
<1> HIDE DEF Exist
<1>3. n \in Exist
  BY <1>1, <1>2, NumberInduction
<1>4. QED
  BY <1>3 DEF Exist

(* Only keeps. *)
LEMMA OnlyKeeps ==
  ASSUME NEW ks, NEW s \in Seq(Chunk)
  PROVE  \E f : Keeps(Len(s), s, ks, f) /\ Only(s, ks) = f[Len(s)]
<1> DEFINE N == Len(s)
           chosen == CHOOSE f : Keeps(N, s, ks, f)
<1>1. N \in Nat
  OBVIOUS
<1>2. Keeps(N, s, ks, chosen)
  BY <1>1, KeepsExists
<1>3. Only(s, ks) = chosen[N]
  BY DEF Only, Keeps
<1> HIDE DEF chosen, N
<1>4. QED
  BY <1>2, <1>3 DEF N

(* Keeping more does not change what was kept. *)
LEMMA KeepsAgree ==
  ASSUME NEW ks, NEW s \in Seq(Chunk), NEW c \in Chunk, NEW f, NEW g,
         Keeps(Len(s), s, ks, f), Keeps(Len(s) + 1, Append(s, c), ks, g)
  PROVE  \A i \in 0 .. Len(s) : f[i] = g[i]
<1> DEFINE N == Len(s)
           r == Append(s, c)
           Good == {n \in Nat : n \in 0 .. N => f[n] = g[n]}
<1>1. N \in Nat /\ \A i \in 1 .. N : s[i] = r[i]
  OBVIOUS
<1> HIDE DEF r
<1>2. 0 \in Good
  BY <1>1 DEF Keeps, r
<1>3. ASSUME NEW n \in Nat, n \in Good PROVE n + 1 \in Good
  <2>1. SUFFICES ASSUME n + 1 \in 0 .. N PROVE f[n + 1] = g[n + 1]
    OBVIOUS
  <2>2. n + 1 \in 0 .. N + 1 /\ n + 1 # 0 /\ n \in 0 .. N /\ n + 1 \in 1 .. N /\ (n + 1) - 1 = n
    BY <1>1, <2>1
  <2>3. f[n + 1] = IF s[n + 1].k \in ks THEN Append(f[n], s[n + 1]) ELSE f[n]
    BY <2>1, <2>2 DEF Keeps
  <2>4. g[n + 1] = IF r[n + 1].k \in ks THEN Append(g[n], r[n + 1]) ELSE g[n]
    BY <2>2 DEF Keeps, r
  <2>5. f[n] = g[n]
    BY <1>3, <2>2
  <2>6. s[n + 1] = r[n + 1]
    BY <1>1, <2>2
  <2>7. QED
    BY <2>3, <2>4, <2>5, <2>6
<1> HIDE DEF Good
<1>4. Nat \subseteq Good
  BY <1>2, <1>3, NumberInduction
<1>5. QED
  BY <1>1, <1>4 DEF Good

(* Nothing is kept of nothing. *)
LEMMA OnlyEmpty ==
  ASSUME NEW ks PROVE Only(<<>>, ks) = <<>>
<1>1. <<>> \in Seq(Chunk) /\ Len(<<>>) = 0
  BY EmptySeq
<1>2. PICK f : Keeps(0, <<>>, ks, f) /\ Only(<<>>, ks) = f[0]
  BY <1>1, OnlyKeeps
<1>3. QED
  BY <1>2 DEF Keeps

(* One more chunk is kept if it is of those kinds. *)
LEMMA OnlyAppends ==
  ASSUME NEW ks, NEW s \in Seq(Chunk), NEW c \in Chunk
  PROVE  Only(Append(s, c), ks) = IF c.k \in ks THEN Append(Only(s, ks), c) ELSE Only(s, ks)
<1> DEFINE N == Len(s)
           r == Append(s, c)
<1>1. N \in Nat /\ r \in Seq(Chunk) /\ Len(r) = N + 1 /\ r[N + 1] = c
  OBVIOUS
<1>2. PICK f : Keeps(N, s, ks, f) /\ Only(s, ks) = f[N]
  BY OnlyKeeps
<1>3. PICK g : Keeps(N + 1, r, ks, g) /\ Only(r, ks) = g[N + 1]
  <2> HIDE DEF r
  <2>1. QED
    BY <1>1, OnlyKeeps
<1>4. f[N] = g[N]
  <2>1. N \in 0 .. N
    BY <1>1
  <2>2. \A i \in 0 .. N : f[i] = g[i]
    BY <1>2, <1>3, KeepsAgree
  <2>3. QED
    BY <2>1, <2>2
<1> HIDE DEF r, N
<1>5. N + 1 \in 0 .. N + 1 /\ N + 1 # 0 /\ (N + 1) - 1 = N
  BY <1>1
<1>6. g[N + 1] = IF r[N + 1].k \in ks THEN Append(g[N], r[N + 1]) ELSE g[N]
  BY <1>3, <1>5 DEF Keeps
<1>7. Only(r, ks) = IF c.k \in ks THEN Append(Only(s, ks), c) ELSE Only(s, ks)
  BY <1>1, <1>2, <1>3, <1>4, <1>6
<1>8. QED
  BY <1>7 DEF r

(* What is kept is of those kinds, and all that is. *)
LEMMA OnlyElements ==
  ASSUME NEW ks
  PROVE  \A s \in Seq(Chunk) :
           Only(s, ks) \in Seq(Chunk) /\ Range(Only(s, ks)) = {c \in Range(s) : c.k \in ks}
<1> DEFINE Right(s) == /\ Only(s, ks) \in Seq(Chunk)
                       /\ Range(Only(s, ks)) = {c \in Range(s) : c.k \in ks}
           Good == {s \in Seq(Chunk) : Right(s)}
<1>1. <<>> \in Good
  <2>1. <<>> \in Seq(Chunk) /\ Only(<<>>, ks) = <<>> /\ Range(<<>>) = {}
    BY OnlyEmpty, EmptySeq DEF Range
  <2>2. QED
    BY <2>1
<1>2. ASSUME NEW s \in Seq(Chunk), NEW c \in Chunk, s \in Good PROVE Append(s, c) \in Good
  <2>1. Right(s) /\ Append(s, c) \in Seq(Chunk)
    BY <1>2
  <2>2. \A t \in Seq(Chunk) : Range(Append(t, c)) = Range(t) \cup {c}
    <3>1. Range(<<c>>) = {c} /\ <<c>> \in Seq(Chunk)
      BY DEF Range
    <3>2. ASSUME NEW t \in Seq(Chunk) PROVE Range(Append(t, c)) = Range(t) \cup {c}
      <4>1. Append(t, c) = t \o <<c>>
        BY AppendIsConcat
      <4>2. Range(t \o <<c>>) = Range(t) \cup Range(<<c>>)
        BY <3>1, RangeConcatenation, ZenonT(60)
      <4>3. QED
        BY <3>1, <4>1, <4>2
    <3>3. QED
      BY <3>2
  <2>3. CASE c.k \in ks
    <3>1. Only(Append(s, c), ks) = Append(Only(s, ks), c)
      BY <2>3, OnlyAppends
    <3>2. Append(Only(s, ks), c) \in Seq(Chunk) /\ Only(s, ks) \in Seq(Chunk)
      BY <2>1
    <3>3. Range(Only(Append(s, c), ks)) = Range(Only(s, ks)) \cup {c}
      BY <2>2, <3>1, <3>2
    <3>4. Range(Append(s, c)) = Range(s) \cup {c}
      BY <2>2
    <3>5. Right(Append(s, c))
      BY <2>1, <2>3, <3>1, <3>2, <3>3, <3>4
    <3>6. QED
      BY <2>1, <3>5
  <2>4. CASE c.k \notin ks
    <3>1. Only(Append(s, c), ks) = Only(s, ks)
      BY <2>4, OnlyAppends
    <3>2. QED
      BY <2>1, <2>2, <2>4, <3>1
  <2>5. QED
    BY <2>3, <2>4
<1> HIDE DEF Good
<1>3. Seq(Chunk) \subseteq Good
  BY <1>1, <1>2, SequenceInduction
<1>4. QED
  BY <1>3 DEF Good

(* Chunks kept are chunks. *)
LEMMA OnlyType ==
  ASSUME NEW ks, NEW s \in Seq(Chunk) PROVE Only(s, ks) \in Seq(Chunk)
BY OnlyElements

(* What follows is kept behind. *)
LEMMA OnlyConcat ==
  ASSUME NEW ks, NEW s \in Seq(Chunk)
  PROVE  \A t \in Seq(Chunk) : Only(s \o t, ks) = Only(s, ks) \o Only(t, ks)
<1> DEFINE Good == {t \in Seq(Chunk) : Only(s \o t, ks) = Only(s, ks) \o Only(t, ks)}
<1>0. Only(s, ks) \in Seq(Chunk)
  BY OnlyType
<1>1. <<>> \in Good
  <2>1. s \o <<>> = s /\ Only(s, ks) \o <<>> = Only(s, ks) /\ <<>> \in Seq(Chunk)
    BY <1>0, ConcatEmptySeq, EmptySeq
  <2>2. QED
    BY <2>1, OnlyEmpty
<1>2. ASSUME NEW t \in Seq(Chunk), NEW c \in Chunk, t \in Good PROVE Append(t, c) \in Good
  <2>1. s \o Append(t, c) = Append(s \o t, c)
       /\ s \o t \in Seq(Chunk) /\ Append(t, c) \in Seq(Chunk)
    OBVIOUS
  <2>2. Only(Append(s \o t, c), ks)
         = IF c.k \in ks THEN Append(Only(s \o t, ks), c) ELSE Only(s \o t, ks)
    BY <2>1, OnlyAppends
  <2>3. Only(Append(t, c), ks) = IF c.k \in ks THEN Append(Only(t, ks), c) ELSE Only(t, ks)
    BY OnlyAppends
  <2>4. Only(s \o t, ks) = Only(s, ks) \o Only(t, ks)
    BY <1>2
  <2>5. Only(t, ks) \in Seq(Chunk)
    BY OnlyType
  <2>6. Only(s, ks) \o Append(Only(t, ks), c) = Append(Only(s, ks) \o Only(t, ks), c)
    BY <1>0, <2>5
  <2>7. QED
    BY <2>1, <2>2, <2>3, <2>4, <2>6
<1> HIDE DEF Good
<1>3. Seq(Chunk) \subseteq Good
  BY <1>1, <1>2, SequenceInduction
<1>4. QED
  BY <1>3 DEF Good

(* Nothing is kept where no chunk is of those kinds. *)
LEMMA OnlyNone ==
  ASSUME NEW ks, NEW s \in Seq(Chunk)
  PROVE  Only(s, ks) = <<>> <=> \A i \in DOMAIN s : s[i].k \notin ks
<1>1. Only(s, ks) = <<>> <=> {c \in Range(s) : c.k \in ks} = {}
  BY OnlyElements, OnlyType, EmptyRange
<1>2. QED
  BY <1>1 DEF Range

(* Keeping some of what was kept. *)
LEMMA OnlyTwice ==
  ASSUME NEW ks, NEW ls
  PROVE  \A s \in Seq(Chunk) : Only(Only(s, ks), ls) = Only(s, ks \cap ls)
<1> DEFINE Good == {s \in Seq(Chunk) : Only(Only(s, ks), ls) = Only(s, ks \cap ls)}
<1>1. <<>> \in Good
  BY OnlyEmpty, EmptySeq
<1>2. ASSUME NEW s \in Seq(Chunk), NEW c \in Chunk, s \in Good PROVE Append(s, c) \in Good
  <2>1. Append(s, c) \in Seq(Chunk) /\ Only(s, ks) \in Seq(Chunk)
    BY OnlyType
  <2>2. Only(Append(s, c), ks) = IF c.k \in ks THEN Append(Only(s, ks), c) ELSE Only(s, ks)
    BY OnlyAppends
  <2>3. Only(Append(Only(s, ks), c), ls)
        = IF c.k \in ls THEN Append(Only(Only(s, ks), ls), c) ELSE Only(Only(s, ks), ls)
    BY <2>1, OnlyAppends
  <2>4. Only(Append(s, c), ks \cap ls)
        = IF c.k \in ks \cap ls THEN Append(Only(s, ks \cap ls), c) ELSE Only(s, ks \cap ls)
    BY OnlyAppends
  <2>5. Only(Only(s, ks), ls) = Only(s, ks \cap ls)
    BY <1>2
  <2>6. CASE c.k \in ks
    <3>1. Only(Append(s, c), ks) = Append(Only(s, ks), c) /\ (c.k \in ls <=> c.k \in ks \cap ls)
      BY <2>2, <2>6
    <3>2. Only(Only(Append(s, c), ks), ls) = Only(Append(s, c), ks \cap ls)
      BY <2>3, <2>4, <2>5, <3>1
    <3>3. QED
      BY <2>1, <3>2
  <2>7. CASE c.k \notin ks
    <3>1. Only(Append(s, c), ks) = Only(s, ks) /\ c.k \notin ks \cap ls
      BY <2>2, <2>7
    <3>2. Only(Only(Append(s, c), ks), ls) = Only(Append(s, c), ks \cap ls)
      BY <2>4, <2>5, <3>1
    <3>3. QED
      BY <2>1, <3>2
  <2>8. QED
    BY <2>6, <2>7
<1> HIDE DEF Good
<1>3. Seq(Chunk) \subseteq Good
  BY <1>1, <1>2, SequenceInduction
<1>4. QED
  BY <1>3 DEF Good

(* Empty sequences flatten to nothing. *)
LEMMA FlattenNothing ==
  ASSUME NEW S, NEW ss \in Seq(Seq(S)), \A i \in DOMAIN ss : ss[i] = <<>>
  PROVE  FlattenSeq(ss) = <<>>
<1>1. Range(FlattenSeq(ss)) = UNION {Range(ss[i]) : i \in DOMAIN ss}
  BY FlattenElements
<1>2. \A i \in DOMAIN ss : Range(ss[i]) = {}
  BY DEF Range
<1>3. Range(FlattenSeq(ss)) = {}
  BY <1>1, <1>2
<1>4. QED
  BY <1>3, FlattenType, EmptyRange

(* If one of the sequences is not empty, at most, flattening gives that one. *)
LEMMA FlattenOne ==
  ASSUME NEW S
  PROVE  \A ss \in Seq(Seq(S)) : \A x \in DOMAIN ss :
           (\A i \in DOMAIN ss : i # x => ss[i] = <<>>) => FlattenSeq(ss) = ss[x]
<1> DEFINE One(ss) == \A x \in DOMAIN ss :
                        (\A i \in DOMAIN ss : i # x => ss[i] = <<>>) => FlattenSeq(ss) = ss[x]
           Good == {ss \in Seq(Seq(S)) : One(ss)}
<1>1. <<>> \in Good
  BY EmptySeq
<1>2. ASSUME NEW ss \in Seq(Seq(S)), NEW t \in Seq(S), ss \in Good PROVE Append(ss, t) \in Good
  <2> DEFINE tt == Append(ss, t)
             N == Len(ss)
  <2>1. /\ tt \in Seq(Seq(S)) /\ DOMAIN tt = 1 .. N + 1 /\ DOMAIN ss = 1 .. N /\ N \in Nat
        /\ tt[N + 1] = t /\ \A i \in 1 .. N : tt[i] = ss[i]
    OBVIOUS
  <2>2. FlattenSeq(tt) = FlattenSeq(ss) \o t /\ FlattenSeq(ss) \in Seq(S)
    BY FlattenAppends, FlattenType
  <2>3. One(ss)
    BY <1>2
  <2> HIDE DEF tt, N, Good
  <2>4. ASSUME NEW x \in DOMAIN tt, \A i \in DOMAIN tt : i # x => tt[i] = <<>>
        PROVE  FlattenSeq(tt) = tt[x]
    <3>1. CASE x = N + 1
      <4>1. \A i \in DOMAIN ss : ss[i] = <<>>
        BY <2>1, <2>4, <3>1
      <4>2. FlattenSeq(ss) = <<>>
        BY <4>1, FlattenNothing
      <4>3. <<>> \o t = t
        BY ConcatEmptySeq
      <4>4. QED
        BY <2>1, <2>2, <3>1, <4>2, <4>3
    <3>2. CASE x # N + 1
      <4>0. x \in 1 .. N + 1 /\ x \in 1 .. N /\ N + 1 \in 1 .. N + 1
        BY <2>1, <3>2
      <4>1. x \in DOMAIN ss /\ t = <<>> /\ tt[x] = ss[x]
        BY <2>1, <2>4, <3>2, <4>0
      <4>2. \A i \in DOMAIN ss : i # x => ss[i] = <<>>
        BY <2>1, <2>4
      <4>3. FlattenSeq(ss) = ss[x]
        BY <2>3, <4>1, <4>2
      <4>4. FlattenSeq(ss) \o <<>> = FlattenSeq(ss)
        BY <2>2, ConcatEmptySeq
      <4>5. QED
        BY <2>2, <4>1, <4>3, <4>4
    <3>3. QED
      BY <3>1, <3>2
  <2>5. One(tt)
    BY <2>4
  <2> HIDE DEF One
  <2>6. QED
    BY <2>1, <2>5 DEF Good, tt
<1> HIDE DEF Good
<1>3. Seq(Seq(S)) \subseteq Good
  BY <1>1, <1>2, SequenceInduction
<1>4. QED
  BY <1>3 DEF Good

-----------------------------------------------------------------------------
(* Messages *)

Voice == {"text", "reason", "call"}

(* Nobody but the assistant says, thinks or calls anything. *)
Shape == [role : {"assistant", "tool", "error"}, content : Seq(Chunk), reasoning : Seq(Chunk),
          calls : SUBSET Chunk, id : Chunk \cup {0}]

Silence(m) == m.role # "assistant" => m.content = <<>> /\ m.reasoning = <<>> /\ m.calls = {}

Msg == {m \in Shape : IsFiniteSet(m.calls) /\ Silence(m)}

(* What a message holds. *)
LEMMA MsgFacts ==
  ASSUME NEW m \in Msg
  PROVE  /\ m.content \in Seq(Chunk) /\ m.reasoning \in Seq(Chunk)
         /\ m.calls \subseteq Chunk /\ IsFiniteSet(m.calls)
         /\ m.role # "assistant" => m.content = <<>> /\ m.reasoning = <<>> /\ m.calls = {}
BY DEF Msg, Shape, Silence

(* What the messages say, one after the other. *)
Spoken(ms) == Said(FlattenSeq([i \in DOMAIN ms |-> ms[i].content]))

(* What they think. *)
Thought(ms) == {c \in Chunk : c.k \in Voice /\ \E i \in DOMAIN ms : c \in Range(ms[i].reasoning)}

(* What is said are chunks. *)
LEMMA SaidType ==
  ASSUME NEW s \in Seq(Chunk) PROVE Said(s) \in Seq(Chunk)
BY OnlyType DEF Said

(* Nothing says nothing. *)
LEMMA SaidEmpty == Said(<<>>) = <<>>
BY OnlyEmpty DEF Said

(* What follows is said after it. *)
LEMMA SaidConcat ==
  ASSUME NEW s \in Seq(Chunk), NEW t \in Seq(Chunk) PROVE Said(s \o t) = Said(s) \o Said(t)
BY OnlyConcat DEF Said

(* Nothing is said where no chunk is meaningful. *)
LEMMA SaidNothing ==
  ASSUME NEW s \in Seq(Chunk) PROVE Said(s) = <<>> <=> ~HasOutput(s)
BY OnlyNone DEF Said, HasOutput, Meaningful

SpokenOf == [m \in Msg |-> Said(m.content)]

(* What a message says are chunks. *)
LEMMA SpokenOfType == SpokenOf \in [Msg -> Seq(Chunk)]
BY MsgFacts, SaidType DEF SpokenOf

(* What messages say is what each says, joined. *)
LEMMA SpokenBinds ==
  ASSUME NEW ms \in Seq(Msg) PROVE Spoken(ms) = Bind(ms, SpokenOf)
<1> DEFINE h == [s \in Seq(Chunk) |-> Said(s)]
           ss == [i \in DOMAIN ms |-> ms[i].content]
<1>1. \A i \in DOMAIN ms : ms[i] \in Msg /\ ms[i].content \in Seq(Chunk)
  BY MsgFacts
<1>2. ss \in Seq(Seq(Chunk)) /\ DOMAIN ss = DOMAIN ms /\ \A i \in DOMAIN ms : ss[i] = ms[i].content
  BY <1>1
<1>3. h \in [Seq(Chunk) -> Seq(Chunk)] /\ \A s \in Seq(Chunk) : h[s] = Said(s)
  BY SaidType
<1> HIDE DEF h, ss
<1>4. h[<<>>] = <<>> /\ \A s, t \in Seq(Chunk) : h[s \o t] = h[s] \o h[t]
  <2>1. <<>> \in Seq(Chunk) /\ \A s, t \in Seq(Chunk) : s \o t \in Seq(Chunk)
    BY EmptySeq
  <2>2. h[<<>>] = <<>>
    BY <1>3, <2>1, SaidEmpty
  <2>3. ASSUME NEW s \in Seq(Chunk), NEW t \in Seq(Chunk) PROVE h[s \o t] = h[s] \o h[t]
    BY <1>3, <2>1, SaidConcat, ZenonT(60)
  <2>4. QED
    BY <2>2, <2>3
<1>5. h[FlattenSeq(ss)] = FlattenSeq(Each(ss, h))
  BY <1>2, <1>3, <1>4, FlattenMaps
<1>6. \A i \in DOMAIN ms : h[ss[i]] = SpokenOf[ms[i]]
  BY <1>1, <1>2, <1>3 DEF SpokenOf
<1>7. Each(ss, h) = Each(ms, SpokenOf)
  BY <1>2, <1>6 DEF Each
<1>8. FlattenSeq(ss) \in Seq(Chunk)
  BY <1>2, FlattenType
<1>9. QED
  BY <1>3, <1>5, <1>7, <1>8 DEF Spoken, Bind, ss

(* What messages say are chunks. *)
LEMMA SpokenType ==
  ASSUME NEW ms \in Seq(Msg) PROVE Spoken(ms) \in Seq(Chunk)
BY SpokenBinds, BindType, SpokenOfType

(* No message says nothing. *)
LEMMA SpokenEmpty == Spoken(<<>>) = <<>>
BY SpokenBinds, BindEmpty, EmptySeq

(* Messages that follow speak after those. *)
LEMMA SpokenConcat ==
  ASSUME NEW ms \in Seq(Msg), NEW ns \in Seq(Msg)
  PROVE  Spoken(ms \o ns) = Spoken(ms) \o Spoken(ns)
<1>1. ms \o ns \in Seq(Msg)
  OBVIOUS
<1>2. Bind(ms \o ns, SpokenOf) = Bind(ms, SpokenOf) \o Bind(ns, SpokenOf)
  BY BindConcat, SpokenOfType
<1>3. QED
  BY <1>1, <1>2, SpokenBinds

(* The last message speaks last. *)
LEMMA SpokenAppends ==
  ASSUME NEW ms \in Seq(Msg), NEW m \in Msg
  PROVE  Spoken(Append(ms, m)) = Spoken(ms) \o Said(m.content)
<1>1. Append(ms, m) \in Seq(Msg) /\ SpokenOf[m] = Said(m.content)
  BY DEF SpokenOf
<1>2. Bind(Append(ms, m), SpokenOf) = Bind(ms, SpokenOf) \o SpokenOf[m]
  BY BindAppends, SpokenOfType
<1>3. QED
  BY <1>1, <1>2, SpokenBinds

(* One message says what it says. *)
LEMMA SpokenOne ==
  ASSUME NEW m \in Msg PROVE Spoken(<<m>>) = Said(m.content)
<1>1. <<m>> = Append(<<>>, m) /\ <<>> \in Seq(Msg) /\ Said(m.content) \in Seq(Chunk)
  BY SaidType, MsgFacts
<1>2. Spoken(<<m>>) = Spoken(<<>>) \o Said(m.content)
  BY <1>1, SpokenAppends
<1>3. QED
  BY <1>1, <1>2, SpokenEmpty, ConcatEmptySeq

(* Messages in groups say what the groups say, joined. *)
LEMMA SpokenFlat ==
  ASSUME NEW ss \in Seq(Seq(Msg)), NEW ts, DOMAIN ts = DOMAIN ss, ts = [i \in DOMAIN ts |-> ts[i]],
         \A i \in DOMAIN ss : ts[i] = Spoken(ss[i])
  PROVE  Spoken(FlattenSeq(ss)) = FlattenSeq(ts)
<1> DEFINE h == [s \in Seq(Msg) |-> Spoken(s)]
<1>1. h \in [Seq(Msg) -> Seq(Chunk)] /\ \A s \in Seq(Msg) : h[s] = Spoken(s)
  BY SpokenType
<1> HIDE DEF h
<1>2. h[<<>>] = <<>> /\ \A s, t \in Seq(Msg) : h[s \o t] = h[s] \o h[t]
  <2>1. <<>> \in Seq(Msg) /\ \A s, t \in Seq(Msg) : s \o t \in Seq(Msg)
    BY EmptySeq
  <2>2. h[<<>>] = <<>>
    BY <1>1, <2>1, SpokenEmpty
  <2>3. ASSUME NEW s \in Seq(Msg), NEW t \in Seq(Msg) PROVE h[s \o t] = h[s] \o h[t]
    <3>1. h[s \o t] = Spoken(s \o t) /\ h[s] = Spoken(s) /\ h[t] = Spoken(t)
      BY <1>1, <2>1
    <3>2. QED
      BY <3>1, SpokenConcat
  <2>4. QED
    BY <2>2, <2>3
<1>3. h[FlattenSeq(ss)] = FlattenSeq(Each(ss, h))
  BY <1>1, <1>2, FlattenMaps
<1>4. FlattenSeq(ss) \in Seq(Msg)
  BY FlattenType
<1>5. \A i \in DOMAIN ss : ss[i] \in Seq(Msg)
  OBVIOUS
<1>6. Each(ss, h) = ts
  BY <1>1, <1>5 DEF Each
<1>7. QED
  BY <1>1, <1>3, <1>4, <1>6

(* A finite set as a sequence. *)
LEMMA SetToSeqFacts ==
  ASSUME NEW S, IsFiniteSet(S)
  PROVE  SetToSeq(S) \in Seq(S) /\ (SetToSeq(S) = <<>> <=> S = {})
<1> DEFINE N == Cardinality(S)
<1>1. N \in Nat /\ ExistsBijection(1 .. N, S)
  BY FS_CardinalityType
<1>2. PICK f \in [1 .. N -> S] : IsInjective(f)
  <2>1. PICK f : f \in Bijection(1 .. N, S)
    BY <1>1 DEF ExistsBijection
  <2>2. f \in [1 .. N -> S] /\ IsInjective(f)
    BY <2>1 DEF Bijection, Injection
  <2>3. QED
    BY <2>2
<1>3. SetToSeq(S) \in [1 .. N -> S]
  BY <1>2 DEF SetToSeq
<1>4. S = {} <=> N = 0
  BY FS_EmptySet
<1> HIDE DEF N
<1>5. SetToSeq(S) \in Seq(S) /\ Len(SetToSeq(S)) = N
  BY <1>1, <1>3
<1>6. QED
  BY <1>4, <1>5

(* The call is answered in what follows at once. *)
HasAnswers(ms, i) == Answered(ms[i], i, ms) # {}

(* The answered calls are calls of the message, and finitely many. *)
LEMMA AnsweredType ==
  ASSUME NEW ms \in Seq(Msg), NEW i \in DOMAIN ms
  PROVE  /\ Answered(ms[i], i, ms) \subseteq Chunk /\ Answered(ms[i], i, ms) \subseteq ms[i].calls
         /\ IsFiniteSet(Answered(ms[i], i, ms))
<1>1. ms[i] \in Msg
  OBVIOUS
<1>2. ms[i].calls \subseteq Chunk /\ IsFiniteSet(ms[i].calls)
  BY <1>1, MsgFacts
<1>3. Answered(ms[i], i, ms) \subseteq ms[i].calls
  BY DEF Answered
<1>4. QED
  BY <1>2, <1>3, FS_Subset

(* A result is a message that says nothing. *)
LEMMA ToolMessageFacts ==
  ASSUME NEW c \in Chunk
  PROVE  /\ ToolMessage(c) \in Msg /\ ToolMessage(c).role = "tool" /\ ToolMessage(c).id = c
         /\ ToolMessage(c).content = <<>> /\ ToolMessage(c).reasoning = <<>>
         /\ ToolMessage(c).calls = {}
<1>1. <<>> \in Seq(Chunk) /\ IsFiniteSet({})
  BY EmptySeq, FS_EmptySet
<1>2. QED
  BY <1>1 DEF ToolMessage, Msg, Shape, Silence

(* A message with other calls and another text. *)
Changed(m, calls, text) == [m EXCEPT !.calls = calls, !.content = text]

(* A message that is changed thinks what it thought. *)
LEMMA ChangedFacts ==
  ASSUME NEW m \in Msg, m.role = "assistant", NEW calls \in SUBSET Chunk, IsFiniteSet(calls),
         NEW text \in Seq(Chunk)
  PROVE  /\ Changed(m, calls, text) \in Msg /\ Changed(m, calls, text).content = text
         /\ Changed(m, calls, text).reasoning = m.reasoning
<1> DEFINE x == Changed(m, calls, text)
<1>1. m \in Shape
  BY DEF Msg
<1>2. x \in Shape /\ x.content = text /\ x.calls = calls
  BY <1>1 DEF Shape, Changed
<1>3. x.reasoning = m.reasoning /\ x.role = "assistant"
  BY <1>1 DEF Shape, Changed
<1>4. QED
  BY <1>2, <1>3 DEF Msg, Silence

(* Without its calls. *)
LEMMA MsgBare ==
  ASSUME NEW m \in Msg, NEW x, x = [m EXCEPT !.calls = {}]
  PROVE  x \in Msg /\ x.content = m.content /\ x.reasoning = m.reasoning /\ x.calls = {}
<1>1. m \in Shape /\ IsFiniteSet({}) /\ Silence(m)
  BY FS_EmptySet DEF Msg
<1>2. x \in Shape /\ x.content = m.content /\ x.calls = {}
  BY <1>1 DEF Shape
<1>3. x.reasoning = m.reasoning /\ x.role = m.role
  BY <1>1 DEF Shape
<1>4. QED
  BY <1>1, <1>2, <1>3 DEF Msg, Silence

(* A message and the result of one of its calls. *)
PairOf(m, c, first) ==
  <<Changed(m, {c}, IF first THEN m.content ELSE <<>>), ToolMessage(c)>>

(* The pair says what the message does if it is the first, else nothing. *)
LEMMA PairFacts ==
  ASSUME NEW m \in Msg, m.role = "assistant", NEW c \in Chunk, NEW first \in BOOLEAN
  PROVE  /\ PairOf(m, c, first) \in Seq(Msg)
         /\ Spoken(PairOf(m, c, first)) = IF first THEN Said(m.content) ELSE <<>>
         /\ DOMAIN PairOf(m, c, first) = {1, 2}
         /\ PairOf(m, c, first)[1].reasoning = m.reasoning
         /\ PairOf(m, c, first)[2].reasoning = <<>>
<1> DEFINE a == Changed(m, {c}, IF first THEN m.content ELSE <<>>)
           b == ToolMessage(c)
           p == PairOf(m, c, first)
<1>1. IsFiniteSet({c})
  BY FS_Singleton
<1>2. a \in Msg /\ a.content = (IF first THEN m.content ELSE <<>>) /\ a.reasoning = m.reasoning
  <2> DEFINE text == IF first THEN m.content ELSE <<>>
  <2>1. text \in Seq(Chunk) /\ {c} \in SUBSET Chunk
    BY MsgFacts, EmptySeq
  <2> HIDE DEF text
  <2>2. LET x == Changed(m, {c}, text)
        IN  x \in Msg /\ x.content = text /\ x.reasoning = m.reasoning
    BY <1>1, <2>1, ChangedFacts
  <2>3. QED
    BY <2>2 DEF text
<1>3. b \in Msg /\ b.content = <<>> /\ b.reasoning = <<>>
  BY ToolMessageFacts
<1>4. p = <<a, b>>
  BY DEF PairOf
<1> HIDE DEF a, b, p
<1>5. p \in Seq(Msg) /\ DOMAIN p = {1, 2} /\ p[1] = a /\ p[2] = b /\ p = Append(<<a>>, b)
      /\ <<a>> \in Seq(Msg)
  BY <1>2, <1>3, <1>4
<1>6. Spoken(p) = Said(a.content) \o Said(b.content)
  BY <1>2, <1>3, <1>5, SpokenAppends, SpokenOne
<1>7. Said(b.content) = <<>>
  BY <1>3, SaidEmpty
<1>8. Said(a.content) = (IF first THEN Said(m.content) ELSE <<>>) /\ Said(a.content) \in Seq(Chunk)
  BY <1>2, SaidEmpty, SaidType, MsgFacts
<1>9. Spoken(p) = IF first THEN Said(m.content) ELSE <<>>
  BY <1>6, <1>7, <1>8, ConcatEmptySeq
<1>10. QED
  BY <1>2, <1>3, <1>5, <1>9 DEF p

Pairs(m, answered) == [n \in DOMAIN answered |-> PairOf(m, answered[n], n = 1)]

(* All pairs say what the message does, once, and think nothing else. *)
LEMMA PairsFacts ==
  ASSUME NEW m \in Msg, m.role = "assistant", NEW answered \in Seq(Chunk), answered # <<>>
  PROVE  /\ FlattenSeq(Pairs(m, answered)) \in Seq(Msg)
         /\ Spoken(FlattenSeq(Pairs(m, answered))) = Said(m.content)
         /\ \A n \in DOMAIN FlattenSeq(Pairs(m, answered)) :
              FlattenSeq(Pairs(m, answered))[n].reasoning \in {<<>>, m.reasoning}
         /\ \E n \in DOMAIN FlattenSeq(Pairs(m, answered)) :
              FlattenSeq(Pairs(m, answered))[n].reasoning = m.reasoning
<1> DEFINE ps == Pairs(m, answered)
           ts == [n \in DOMAIN answered |-> IF n = 1 THEN Said(m.content) ELSE <<>>]
           flat == FlattenSeq(ps)
<1>1. DOMAIN answered = 1 .. Len(answered) /\ Len(answered) \in Nat \ {0}
      /\ \A n \in DOMAIN answered : answered[n] \in Chunk
  OBVIOUS
<1>2. 1 \in DOMAIN answered
  BY <1>1
<1>3. \A n \in DOMAIN answered : ps[n] = PairOf(m, answered[n], n = 1)
  BY DEF Pairs
<1>4. ASSUME NEW n \in DOMAIN answered
      PROVE  /\ ps[n] \in Seq(Msg) /\ Spoken(ps[n]) = ts[n]
             /\ DOMAIN ps[n] = {1, 2} /\ ps[n][1].reasoning = m.reasoning
             /\ ps[n][2].reasoning = <<>>
  <2>1. answered[n] \in Chunk /\ (n = 1) \in BOOLEAN
    BY <1>1
  <2>2. PICK first \in BOOLEAN : first = (n = 1)
    BY <2>1
  <2>3. ps[n] = PairOf(m, answered[n], first)
    BY <1>3, <2>2
  <2>4. ts[n] = IF first THEN Said(m.content) ELSE <<>>
    BY <2>2
  <2> HIDE DEF ps, ts
  <2> DEFINE c == answered[n]
             p == PairOf(m, c, first)
  <2>5. c \in Chunk /\ ps[n] = p
    BY <2>1, <2>3
  <2> HIDE DEF c
  <2>6. /\ p \in Seq(Msg) /\ Spoken(p) = IF first THEN Said(m.content) ELSE <<>>
        /\ DOMAIN p = {1, 2} /\ p[1].reasoning = m.reasoning /\ p[2].reasoning = <<>>
    BY <2>5, PairFacts
  <2> HIDE DEF p
  <2>7. QED
    BY <2>4, <2>5, <2>6
<1>5. ps \in Seq(Seq(Msg)) /\ DOMAIN ps = DOMAIN answered
  BY <1>1, <1>4 DEF Pairs
<1>6. ts \in Seq(Seq(Chunk)) /\ DOMAIN ts = DOMAIN answered /\ ts = [n \in DOMAIN ts |-> ts[n]]
  BY <1>1, SaidType, MsgFacts, EmptySeq
<1>7. Said(m.content) = ts[1] /\ \A n \in DOMAIN ts : n # 1 => ts[n] = <<>>
  BY <1>2
<1> HIDE DEF ps, ts
<1>8. Spoken(FlattenSeq(ps)) = FlattenSeq(ts)
  BY <1>4, <1>5, <1>6, SpokenFlat
<1>9. FlattenSeq(ts) = ts[1]
  BY <1>2, <1>6, <1>7, FlattenOne
<1>10. flat \in Seq(Msg)
  BY <1>5, FlattenType
<1>11. Range(flat) = UNION {Range(ps[n]) : n \in DOMAIN ps}
  BY <1>5, FlattenElements
<1> HIDE DEF flat
<1>12. ASSUME NEW n \in DOMAIN flat PROVE flat[n].reasoning \in {<<>>, m.reasoning}
  <2>1. flat[n] \in Range(flat)
    BY DEF Range
  <2>2. PICK x \in DOMAIN ps : flat[n] \in Range(ps[x])
    BY <1>11, <2>1
  <2>3. flat[n] = ps[x][1] \/ flat[n] = ps[x][2]
    BY <1>4, <1>5, <2>2 DEF Range
  <2>4. QED
    BY <1>4, <1>5, <2>3
<1>13. \E n \in DOMAIN flat : flat[n].reasoning = m.reasoning
  <2>1. ps[1][1] \in Range(ps[1])
    BY <1>2, <1>4 DEF Range
  <2>2. ps[1][1] \in Range(flat)
    BY <1>2, <1>5, <1>11, <2>1
  <2>3. PICK n \in DOMAIN flat : flat[n] = ps[1][1]
    BY <2>2 DEF Range
  <2>4. QED
    BY <1>2, <1>4, <2>3
<1>14. QED
  BY <1>7, <1>8, <1>9, <1>10, <1>12, <1>13 DEF flat, ps

(* Whether the normalized message says and thinks what the message does. *)
Complete(ms, i, partial) == partial \/ ms[i].calls = {} \/ HasAnswers(ms, i)

NormalizedWell(ms, i, partial, ns) ==
  /\ ns \in Seq(Msg)
  /\ \A n \in DOMAIN ns : ns[n].reasoning \in {<<>>, ms[i].reasoning}
  /\ Complete(ms, i, partial) =>
       /\ Spoken(ns) = Said(ms[i].content)
       /\ HasOutput(ms[i].reasoning) => \E n \in DOMAIN ns : ns[n].reasoning = ms[i].reasoning

(* canonicalizeProducedMessagesWithPartial loses nothing of a complete message. *)
LEMMA NormalizedFacts ==
  ASSUME NEW ms \in Seq(Msg), NEW i \in DOMAIN ms, NEW partial \in BOOLEAN
  PROVE  NormalizedWell(ms, i, partial, Normalized(ms, i, partial))
<1> DEFINE m == ms[i]
           ns == Normalized(ms, i, partial)
           bare == [m EXCEPT !.calls = {}]
           answered == SetToSeq(Answered(m, i, ms))
<1>1. m \in Msg /\ m.content \in Seq(Chunk) /\ m.reasoning \in Seq(Chunk)
      /\ (m.role # "assistant" => m.content = <<>> /\ m.reasoning = <<>> /\ m.calls = {})
  BY MsgFacts
<1>2. answered \in Seq(Chunk) /\ (answered = <<>> <=> ~HasAnswers(ms, i))
  <2>1. Answered(m, i, ms) \subseteq Chunk /\ IsFiniteSet(Answered(m, i, ms))
    BY AnsweredType
  <2>2. answered \in Seq(Answered(m, i, ms)) /\ (answered = <<>> <=> Answered(m, i, ms) = {})
    BY <2>1, SetToSeqFacts
  <2> HIDE DEF answered
  <2>3. answered \in Seq(Chunk)
    BY <2>1, <2>2, SeqMonotonic
  <2>4. QED
    BY <2>2, <2>3 DEF HasAnswers
<1>3. HasAnswers(ms, i) => m.calls # {}
  BY AnsweredType DEF HasAnswers
<1>4. ns = IF m.role = "tool" THEN <<>>
           ELSE IF m.calls = {} /\ ~partial THEN <<m>>
           ELSE IF answered # <<>> THEN FlattenSeq(Pairs(m, answered))
           ELSE IF partial /\ (Displayable(bare) \/ HasOutput(m.reasoning)) THEN <<bare>>
           ELSE <<>>
  BY DEF Normalized, Pairs, PairOf, Changed
<1> HIDE DEF ns, answered, bare
<1>5. ASSUME NEW x \in Msg, x.content = m.content, x.reasoning = m.reasoning, ns = <<x>>
      PROVE  NormalizedWell(ms, i, partial, ns)
  <2>1. ns \in Seq(Msg) /\ DOMAIN ns = {1} /\ ns[1] = x
    BY <1>5
  <2>2. Spoken(ns) = Said(m.content)
    BY <1>5, SpokenOne
  <2>3. QED
    BY <1>5, <2>1, <2>2 DEF NormalizedWell
<1>6. ASSUME ns = <<>>, Complete(ms, i, partial) => Said(m.content) = <<>> /\ ~HasOutput(m.reasoning)
      PROVE  NormalizedWell(ms, i, partial, ns)
  <2>1. ns \in Seq(Msg) /\ DOMAIN ns = {} /\ Spoken(ns) = <<>>
    BY <1>6, EmptySeq, SpokenEmpty
  <2>2. QED
    BY <1>6, <2>1 DEF NormalizedWell
<1>7. CASE m.role = "tool"
  <2>1. Said(m.content) = <<>> /\ ~HasOutput(m.reasoning)
    BY <1>1, <1>7, SaidEmpty DEF HasOutput
  <2>2. QED
    BY <1>4, <1>6, <1>7, <2>1 DEF ns
<1>8. CASE m.role # "tool" /\ m.calls = {} /\ ~partial
  BY <1>1, <1>4, <1>5, <1>8 DEF ns
<1>9. CASE m.role # "tool" /\ answered # <<>> /\ ~(m.calls = {} /\ ~partial)
  <2>1. m.role = "assistant"
    BY <1>1, <1>2, <1>3, <1>9
  <2>2. ns = FlattenSeq(Pairs(m, answered))
    BY <1>4, <1>9
  <2>3. QED
    BY <1>1, <1>2, <1>9, <2>1, <2>2, PairsFacts DEF NormalizedWell, ns
<1>10. CASE m.role # "tool" /\ answered = <<>> /\ ~(m.calls = {} /\ ~partial)
  <2>1. CASE partial /\ (Displayable(bare) \/ HasOutput(m.reasoning))
    <3>1. m.role = "assistant"
      <4>1. m.role # "assistant" => ~HasOutput(m.reasoning)
        BY <1>1 DEF HasOutput
      <4>2. m.role # "assistant" => bare.content = <<>> /\ bare.calls = {}
        BY <1>1, MsgBare DEF bare
      <4>3. QED
        BY <2>1, <4>1, <4>2 DEF Displayable, HasOutput
    <3>2. bare \in Msg /\ bare.content = m.content /\ bare.reasoning = m.reasoning
      BY <1>1, MsgBare DEF bare
    <3>3. ns = <<bare>>
      BY <1>4, <1>10, <2>1
    <3>4. QED
      BY <1>5, <3>2, <3>3 DEF ns
  <2>2. CASE ~(partial /\ (Displayable(bare) \/ HasOutput(m.reasoning)))
    <3>1. ns = <<>>
      BY <1>4, <1>10, <2>2
    <3>2. ASSUME Complete(ms, i, partial) PROVE Said(m.content) = <<>> /\ ~HasOutput(m.reasoning)
      <4>1. partial
        BY <1>2, <1>10, <3>2 DEF Complete
      <4>2. ~HasOutput(m.reasoning) /\ ~HasOutput(bare.content) /\ bare.content = m.content
        BY <1>1, <2>2, <4>1, MsgBare DEF Displayable, bare
      <4>3. QED
        BY <1>1, <4>2, SaidNothing
    <3>3. QED
      BY <1>6, <3>1, <3>2 DEF ns
  <2>3. QED
    BY <2>1, <2>2
<1>11. QED
  BY <1>7, <1>8, <1>9, <1>10

(* The last message adds what it thinks. *)
LEMMA ThoughtAppends ==
  ASSUME NEW ms \in Seq(Msg), NEW m \in Msg
  PROVE  Thought(Append(ms, m))
           = Thought(ms) \cup {c \in Chunk : c.k \in Voice /\ c \in Range(m.reasoning)}
<1> DEFINE r == Append(ms, m)
           N == Len(ms)
<1>1. /\ DOMAIN r = DOMAIN ms \cup {N + 1} /\ r[N + 1] = m
      /\ \A i \in DOMAIN ms : r[i] = ms[i]
  OBVIOUS
<1> HIDE DEF r, N
<1>2. ASSUME NEW c
      PROVE  (\E i \in DOMAIN r : c \in Range(r[i].reasoning))
             <=> (\E i \in DOMAIN ms : c \in Range(ms[i].reasoning)) \/ c \in Range(m.reasoning)
  BY <1>1
<1>3. Thought(r) = Thought(ms) \cup {c \in Chunk : c.k \in Voice /\ c \in Range(m.reasoning)}
  BY <1>2 DEF Thought
<1>4. QED
  BY <1>3 DEF r

(* What the messages think, as the session holds it. *)
LEMMA ThoughtsRange ==
  ASSUME NEW ms \in Seq(Msg)
  PROVE  LET all == FlattenSeq([i \in DOMAIN ms |-> ms[i].reasoning])
         IN  all \in Seq(Chunk) /\ Range(Said(all)) = Thought(ms) /\ Thought(ms) \subseteq Range(all)
<1> DEFINE ss == [i \in DOMAIN ms |-> ms[i].reasoning]
           all == FlattenSeq(ss)
<1>1. \A i \in DOMAIN ms : ms[i] \in Msg /\ ms[i].reasoning \in Seq(Chunk)
  BY MsgFacts
<1>2. ss \in Seq(Seq(Chunk)) /\ DOMAIN ss = DOMAIN ms /\ \A i \in DOMAIN ms : ss[i] = ms[i].reasoning
  BY <1>1
<1> HIDE DEF ss
<1>3. all \in Seq(Chunk) /\ Range(all) = UNION {Range(ss[i]) : i \in DOMAIN ss}
  BY <1>2, FlattenType, FlattenElements
<1>4. \A c : c \in Range(all) <=> \E i \in DOMAIN ms : c \in Range(ms[i].reasoning)
  BY <1>2, <1>3
<1> HIDE DEF all
<1>5. Range(Said(all)) = {c \in Range(all) : c.k \in Voice} /\ Range(all) \subseteq Chunk
  BY <1>3, OnlyElements, RangeOfSeq DEF Said, Voice
<1>6. Range(Said(all)) = Thought(ms)
  BY <1>4, <1>5 DEF Thought
<1>7. QED
  BY <1>3, <1>5, <1>6 DEF all, ss

(* Where one message speaks, at most, that is all that is said. *)
LEMMA SpokenSingle ==
  ASSUME NEW ms \in Seq(Msg), NEW x \in DOMAIN ms,
         \A i \in DOMAIN ms : i # x => ~HasOutput(ms[i].content)
  PROVE  Spoken(ms) = Said(ms[x].content)
<1> DEFINE ss == Each(ms, SpokenOf)
<1>1. ss \in Seq(Seq(Chunk))
  BY EachType, SpokenOfType
<1>2. DOMAIN ss = DOMAIN ms /\ \A i \in DOMAIN ms : ss[i] = Said(ms[i].content)
  BY DEF Each, SpokenOf
<1>3. \A i \in DOMAIN ms : i # x => ss[i] = <<>>
  BY <1>2, SaidNothing, MsgFacts
<1> HIDE DEF ss
<1>4. FlattenSeq(ss) = ss[x]
  BY <1>1, <1>2, <1>3, FlattenOne
<1>5. QED
  BY <1>2, <1>4, SpokenBinds DEF ss, Bind

(* Where no message speaks nothing is said. *)
LEMMA SpokenNothing ==
  ASSUME NEW ms \in Seq(Msg), \A i \in DOMAIN ms : ~HasOutput(ms[i].content)
  PROVE  Spoken(ms) = <<>>
<1>1. CASE ms = <<>>
  BY <1>1, SpokenEmpty
<1>2. CASE ms # <<>>
  <2>1. 1 \in DOMAIN ms /\ ms[1] \in Msg
    BY <1>2
  <2>2. Spoken(ms) = Said(ms[1].content)
    BY <2>1, SpokenSingle
  <2>3. Said(ms[1].content) = <<>>
    BY <2>1, SaidNothing, MsgFacts
  <2>4. QED
    BY <2>2, <2>3
<1>3. QED
  BY <1>1, <1>2

(* Storing the turns of a run in pairs of a call and its result loses nothing of  *)
(* what they said and thought, unless a call is not answered and nobody asks for  *)
(* the partial message.                                                           *)
LEMMA CanonicalFacts ==
  ASSUME NEW ms \in Seq(Msg), NEW partial \in BOOLEAN
  PROVE  /\ Canonical(ms, partial) \in Seq(Msg)
         /\ Thought(Canonical(ms, partial)) \subseteq Thought(ms)
         /\ (\A i \in DOMAIN ms : Complete(ms, i, partial)) =>
              /\ Spoken(Canonical(ms, partial)) = Spoken(ms)
              /\ Thought(Canonical(ms, partial)) = Thought(ms)
<1> DEFINE nn == [i \in DOMAIN ms |-> Normalized(ms, i, partial)]
           flat == FlattenSeq(nn)
<1>1. DOMAIN ms = 1 .. Len(ms) /\ Len(ms) \in Nat /\ \A i \in DOMAIN ms : ms[i] \in Msg
  OBVIOUS
<1>2. DOMAIN nn = DOMAIN ms /\ \A i \in DOMAIN ms : nn[i] = Normalized(ms, i, partial)
  OBVIOUS
<1>3. \A i \in DOMAIN ms : NormalizedWell(ms, i, partial, nn[i])
  BY <1>2, NormalizedFacts
<1>4. nn \in Seq(Seq(Msg))
  <2>1. \A i \in 1 .. Len(ms) : Normalized(ms, i, partial) \in Seq(Msg)
    BY <1>1, NormalizedFacts DEF NormalizedWell
  <2>2. QED
    BY <1>1, <2>1
<1> HIDE DEF nn
<1>5. flat \in Seq(Msg) /\ Range(flat) = UNION {Range(nn[i]) : i \in DOMAIN nn}
  BY <1>4, FlattenType, FlattenElements
<1>6. Canonical(ms, partial) = flat
  BY DEF Canonical, nn
<1> HIDE DEF flat
<1>7. ASSUME NEW c \in Thought(flat) PROVE c \in Thought(ms)
  <2>1. PICK n \in DOMAIN flat : c \in Range(flat[n].reasoning)
    BY <1>7 DEF Thought
  <2>2. flat[n] \in Range(flat)
    BY DEF Range
  <2>3. PICK i \in DOMAIN ms : flat[n] \in Range(nn[i])
    BY <1>2, <1>5, <2>2
  <2>4. PICK j \in DOMAIN nn[i] : flat[n] = nn[i][j]
    BY <2>3 DEF Range
  <2>5. flat[n].reasoning \in {<<>>, ms[i].reasoning}
    BY <1>3, <2>4 DEF NormalizedWell
  <2>6. c \in Range(ms[i].reasoning)
    BY <2>1, <2>5 DEF Range
  <2>7. QED
    BY <1>7, <2>6 DEF Thought
<1>8. ASSUME \A i \in DOMAIN ms : Complete(ms, i, partial) PROVE Spoken(flat) = Spoken(ms)
  <2> DEFINE ts == Each(ms, SpokenOf)
  <2>1. /\ DOMAIN ts = DOMAIN nn /\ ts = [i \in DOMAIN ts |-> ts[i]]
        /\ \A i \in DOMAIN ms : ts[i] = Said(ms[i].content)
    BY <1>1, <1>2 DEF Each, SpokenOf
  <2> HIDE DEF ts
  <2>2. \A i \in DOMAIN nn : ts[i] = Spoken(nn[i])
    BY <1>2, <1>3, <1>8, <2>1 DEF NormalizedWell
  <2>3. Spoken(FlattenSeq(nn)) = FlattenSeq(ts)
    BY <1>4, <2>1, <2>2, SpokenFlat
  <2>4. QED
    BY <2>3, SpokenBinds DEF flat, ts, Bind
<1>9. ASSUME \A i \in DOMAIN ms : Complete(ms, i, partial), NEW c \in Thought(ms)
      PROVE  c \in Thought(flat)
  <2>1. PICK i \in DOMAIN ms : c \in Range(ms[i].reasoning)
    BY <1>9 DEF Thought
  <2>2. HasOutput(ms[i].reasoning)
    BY <1>9, <2>1 DEF Thought, HasOutput, Meaningful, Voice, Range
  <2>3. PICK n \in DOMAIN nn[i] : nn[i][n].reasoning = ms[i].reasoning
    BY <1>3, <1>9, <2>2 DEF NormalizedWell
  <2>4. nn[i][n] \in Range(flat)
    BY <1>2, <1>5, <2>3, SMTT(30) DEF Range
  <2>5. PICK j \in DOMAIN flat : flat[j] = nn[i][n]
    BY <2>4 DEF Range
  <2>6. c \in Range(flat[j].reasoning)
    BY <2>1, <2>3, <2>5
  <2>7. QED
    BY <1>9, <2>6 DEF Thought
<1>10. QED
  BY <1>5, <1>6, <1>7, <1>8, <1>9

-----------------------------------------------------------------------------
(* Types of the loop *)

Places == {"setup", "open", "streaming", "backoff", "tools", "answered", "compacted", "uncompacted",
           "return", "over"}

Guard == [armed : BOOLEAN, observed : BOOLEAN, fired : BOOLEAN]

StreamTyped ==
  /\ wire \in Seq(Chunk) /\ got \in Seq(Chunk) /\ held \in Seq(Chunk)
  /\ emitted \in [content : Nat, reasoning : Nat]
  /\ shown \in [content : Seq(Chunk), reasoning : Seq(Chunk)]

StoreTyped ==
  /\ produced \in Seq(Msg) /\ stored \in Seq(Msg)
  /\ response \in [messages : Seq(Msg), error : BOOLEAN, canceled : BOOLEAN]

LoopTyped ==
  /\ kind \in {"chat", "compact"} /\ pc \in Places
  /\ gate \in [{"run", "memory"} -> Guard]
  /\ turn \in Nat /\ attempt \in Nat
  /\ StreamTyped /\ StoreTyped

(* Text and reasoning are chunks. *)
LEMMA ContentType ==
  ASSUME NEW s \in Seq(Chunk)
  PROVE  Content(s) \in Seq(Chunk) /\ Reasoning(s) \in Seq(Chunk)
BY OnlyType DEF Content, Reasoning

(* The calls are chunks of the attempt, and finitely many. *)
LEMMA CallsInFacts ==
  ASSUME NEW s \in Seq(Chunk)
  PROVE  CallsIn(s) \subseteq Chunk /\ CallsIn(s) \subseteq Range(s) /\ IsFiniteSet(CallsIn(s))
<1>1. CallsIn(s) \subseteq Range(s) /\ Range(s) \subseteq Chunk
  BY RangeOfSeq DEF CallsIn, Range
<1>2. IsFiniteSet(Range(s))
  <2>1. DOMAIN s = 1 .. Len(s) /\ Len(s) \in Nat
    OBVIOUS
  <2>2. IsFiniteSet(1 .. Len(s))
    BY <2>1, FS_Interval
  <2>3. s \in Surjection(1 .. Len(s), Range(s))
    BY <2>1 DEF Surjection, Range
  <2>4. QED
    BY <2>2, <2>3, FS_Surjection
<1>3. QED
  BY <1>1, <1>2, FS_Subset

(* The message of an attempt. *)
LEMMA MessageFacts ==
  ASSUME NEW s \in Seq(Chunk)
  PROVE  /\ Message(s) \in Msg /\ Message(s).role = "assistant"
         /\ Message(s).content = Content(s) /\ Message(s).reasoning = Reasoning(s)
         /\ Message(s).calls = CallsIn(s)
BY ContentType, CallsInFacts DEF Message, Msg, Shape, Silence

(* With the message of an attempt there are still messages. *)
LEMMA WithPartialType ==
  ASSUME produced \in Seq(Msg), NEW s \in Seq(Chunk)
  PROVE  WithPartial(s) \in Seq(Msg)
BY MessageFacts DEF WithPartial

(* What leaves the loop early is a response. *)
LEMMA BreakType ==
  ASSUME NEW ms \in Seq(Msg), Break(ms)
  PROVE  response' \in [messages : Seq(Msg), error : BOOLEAN, canceled : BOOLEAN] /\ pc' \in Places
<1> DEFINE c == Canonical(ms, TRUE)
<1>1. c \in Seq(Msg)
  BY CanonicalFacts
<1>2. PICK e \in BOOLEAN, k \in BOOLEAN : Respond(c, e, k)
  BY DEF Break
<1> HIDE DEF c
<1>3. response' = [messages |-> c, error |-> e, canceled |-> k] /\ pc' = "return"
  BY <1>2 DEF Respond
<1>4. QED
  BY <1>1, <1>3 DEF Places

(* What is shown are chunks. *)
LEMMA ShowType ==
  ASSUME StreamTyped, NEW s \in Seq(Chunk), Show(s)
  PROVE  /\ emitted' \in [content : Nat, reasoning : Nat]
         /\ shown' \in [content : Seq(Chunk), reasoning : Seq(Chunk)]
<1>1. Content(s) \in Seq(Chunk) /\ Reasoning(s) \in Seq(Chunk)
  BY ContentType
<1>2. Len(Content(s)) \in Nat /\ Len(Reasoning(s)) \in Nat
  BY <1>1
<1>3. QED
  BY <1>1, <1>2, SMTT(30) DEF Show, StreamTyped

(* A new stream is one. *)
LEMMA NewStreamType ==
  ASSUME NewStream
  PROVE  /\ wire' \in Seq(Chunk) /\ got' \in Seq(Chunk) /\ held' \in Seq(Chunk)
         /\ emitted' \in [content : Nat, reasoning : Nat]
BY EmptySeq DEF NewStream

(* A guard that is marked is one. *)
LEMMA MarkedType ==
  ASSUME gate \in [{"run", "memory"} -> Guard], NEW owner
  PROVE  Marked(owner) \in [{"run", "memory"} -> Guard]
<1>1. ASSUME NEW g \in {"run", "memory"} PROVE [gate[g] EXCEPT !.observed = TRUE] \in Guard /\ gate[g] \in Guard
  BY DEF Guard
<1>2. DOMAIN gate = {"run", "memory"}
  OBVIOUS
<1>3. QED
  BY <1>1, <1>2 DEF Marked

(* The stand-in for an answer is a chunk. *)
LEMMA FallbackType ==
  ASSUME LoopTyped PROVE Fallback \in Chunk
BY BoundsAssumption DEF LoopTyped, Fallback, Chunk, ChunkKinds

(* A run begins with values of the types. *)
LEMMA LoopTypedInit ==
  ASSUME Init PROVE LoopTyped
<1>1. <<>> \in Seq(Chunk) /\ <<>> \in Seq(Msg)
  BY EmptySeq
<1>2. gate \in [{"run", "memory"} -> Guard]
  <2> DEFINE a == [NewGate EXCEPT !.armed = TRUE]
             b == NewGate
  <2>1. a \in Guard /\ b \in Guard
    BY DEF NewGate, Guard
  <2>2. gate = [run |-> a, memory |-> b]
    BY DEF Init
  <2> HIDE DEF a, b
  <2>3. QED
    BY <2>1, <2>2
<1>3. kind \in {"chat", "compact"}
  BY BoundsAssumption DEF Init
<1>4. QED
  BY <1>1, <1>2, <1>3 DEF Init, LoopTyped, StreamTyped, StoreTyped, Places

(* The message the loop falls back to, in the place of the last reasoning.        *)
LEMMA FinishType ==
  ASSUME LoopTyped, NEW ms \in Seq(Msg), NEW x \in DOMAIN ms, ms[x].role = "assistant"
  PROVE  /\ [ms EXCEPT ![x].content = <<Fallback>>] \in Seq(Msg)
         /\ DOMAIN [ms EXCEPT ![x].content = <<Fallback>>] = DOMAIN ms
         /\ \A i \in DOMAIN ms :
              /\ [ms EXCEPT ![x].content = <<Fallback>>][i].reasoning = ms[i].reasoning
              /\ [ms EXCEPT ![x].content = <<Fallback>>][i].content
                   = IF i = x THEN <<Fallback>> ELSE ms[i].content
<1>1. Fallback \in Chunk /\ <<Fallback>> \in Seq(Chunk)
  BY FallbackType
<1> DEFINE m == [ms[x] EXCEPT !.content = <<Fallback>>]
           r == [ms EXCEPT ![x].content = <<Fallback>>]
<1>2. m \in Msg /\ m.content = <<Fallback>> /\ m.reasoning = ms[x].reasoning
  <2>1. PICK y \in Msg : y = ms[x]
    OBVIOUS
  <2>2. y \in Shape /\ IsFiniteSet(y.calls) /\ y.role = "assistant"
    BY <2>1 DEF Msg
  <2>3. PICK z : z = [y EXCEPT !.content = <<Fallback>>]
    OBVIOUS
  <2>4. z \in Shape /\ z.content = <<Fallback>> /\ z.calls = y.calls
    BY <1>1, <2>2, <2>3 DEF Shape
  <2>5. z.reasoning = y.reasoning /\ z.role = y.role
    BY <2>2, <2>3 DEF Shape
  <2>6. z \in Msg
    BY <2>2, <2>4, <2>5 DEF Msg, Silence
  <2>7. QED
    BY <2>1, <2>3, <2>4, <2>5, <2>6
<1>3. r = [ms EXCEPT ![x] = m]
  OBVIOUS
<1> HIDE DEF m, r
<1>4. r \in Seq(Msg) /\ DOMAIN r = DOMAIN ms /\ \A i \in DOMAIN ms : r[i] = IF i = x THEN m ELSE ms[i]
  BY <1>2, <1>3
<1>5. QED
  BY <1>2, <1>4 DEF r

(* The last message of reasoning alone is one of them. *)
LEMMA MaxIn ==
  ASSUME NEW ms \in Seq(Msg), OnlyReasoned(ms) # {}
  PROVE  Max(OnlyReasoned(ms)) \in OnlyReasoned(ms)
<1>1. OnlyReasoned(ms) \subseteq 1 .. Len(ms) /\ Len(ms) \in Nat
  BY DEF OnlyReasoned
<1>2. IsFiniteSet(OnlyReasoned(ms)) /\ OnlyReasoned(ms) \subseteq Nat
  <2>1. IsFiniteSet(1 .. Len(ms))
    BY <1>1, FS_Interval
  <2>2. QED
    BY <1>1, <2>1, FS_Subset
<1>3. \E x \in OnlyReasoned(ms) : \A y \in OnlyReasoned(ms) : y <= x
  BY <1>2, LastExists
<1>4. \E x \in OnlyReasoned(ms) : \A y \in OnlyReasoned(ms) : x >= y
  BY <1>2, <1>3
<1>5. QED
  BY <1>4 DEF Max

(* Every step keeps the types. *)
LEMMA LoopTypedNext ==
  ASSUME LoopTyped, [Next]_vars PROVE LoopTyped'
<1> USE DEF LoopTyped
<1>1. ASSUME UNCHANGED vars PROVE LoopTyped'
  BY <1>1 DEF vars, StreamTyped, StoreTyped
<1>2. ASSUME Fire PROVE LoopTyped'
  <2>1. gate' \in [{"run", "memory"} -> Guard]
    BY <1>2 DEF Fire, Guard
  <2>2. QED
    BY <1>2, <2>1 DEF Fire, stream, verdict, StreamTyped, StoreTyped
<1>3. ASSUME NEW c, Cancel(c) PROVE LoopTyped'
  BY <1>3 DEF Cancel, stream, verdict, StreamTyped, StoreTyped
<1>4. ASSUME Prepare PROVE LoopTyped'
  <2>1. response' \in [messages : Seq(Msg), error : BOOLEAN, canceled : BOOLEAN] /\ pc' \in Places
    <3>1. CASE UNCHANGED response /\ pc' = "open"
      BY <3>1 DEF StoreTyped, Places
    <3>2. CASE Respond(<<>>, ~Interrupted, FALSE)
      BY <3>2, EmptySeq DEF Respond, Places, Interrupted
    <3>3. QED
      BY <1>4, <3>1, <3>2 DEF Prepare
  <2>2. QED
    BY <1>4, <2>1 DEF Prepare, stream, StreamTyped, StoreTyped
<1>5. ASSUME Open PROVE LoopTyped'
  <2>1. /\ wire' \in Seq(Chunk) /\ got' \in Seq(Chunk) /\ held' \in Seq(Chunk)
        /\ emitted' \in [content : Nat, reasoning : Nat]
    BY <1>5, NewStreamType DEF Open
  <2>2. QED
    BY <1>5, <2>1 DEF Open, verdict, StreamTyped, StoreTyped, Places
<1>6. ASSUME NEW k \in ChunkKinds, RawChunk(k) PROVE LoopTyped'
  <2>1. gate' \in [{"run", "memory"} -> Guard]
    BY <1>6, MarkedType DEF RawChunk, Observed
  <2>2. wire' \in Seq(Chunk)
    <3>1. Len(got) \in Nat /\ Len(wire) \in Nat /\ wire \in Seq(Chunk)
      BY DEF StreamTyped
    <3>2. [t |-> turn, a |-> attempt, i |-> Len(got) + Len(wire), k |-> k] \in Chunk
      BY <3>1 DEF Chunk
    <3>3. QED
      BY <1>6, <3>1, <3>2 DEF RawChunk
  <2>3. QED
    BY <1>6, <2>1, <2>2 DEF RawChunk, verdict, StreamTyped, StoreTyped
<1>7. ASSUME NEW e, RawEnd(e) PROVE LoopTyped'
  BY <1>7 DEF RawEnd, verdict, StreamTyped, StoreTyped
<1>8. ASSUME Take PROVE LoopTyped'
  <2>1. PICK c \in Chunk : c = Head(wire)
    BY <1>8 DEF Take, StreamTyped
  <2>2. PICK s \in Seq(Chunk) : s = Append(got, c)
    <3>1. Append(got, c) \in Seq(Chunk)
      BY <2>1 DEF StreamTyped
    <3>2. QED
      BY <3>1
  <2>3. got' = s /\ wire' = Tail(wire) /\ wire' \in Seq(Chunk)
    BY <1>8, <2>1, <2>2 DEF Take, StreamTyped
  <2>4. CASE Interrupted
    <3>1. Show(held) /\ held' = <<>> /\ produced' = WithPartial(s) /\ Break(produced')
      BY <1>8, <2>1, <2>2, <2>4 DEF Take
    <3>2. produced' \in Seq(Msg)
      BY <3>1, WithPartialType DEF StoreTyped
    <3>3. response' \in [messages : Seq(Msg), error : BOOLEAN, canceled : BOOLEAN] /\ pc' \in Places
      BY <3>1, <3>2, BreakType
    <3>4. held' \in Seq(Chunk) /\ held \in Seq(Chunk)
      BY <3>1, EmptySeq DEF StreamTyped
    <3>5. /\ emitted' \in [content : Nat, reasoning : Nat]
          /\ shown' \in [content : Seq(Chunk), reasoning : Seq(Chunk)]
      BY <3>1, <3>4, ShowType
    <3>6. QED
      BY <1>8, <2>2, <2>3, <3>2, <3>3, <3>4, <3>5 DEF Take, StreamTyped, StoreTyped
  <2>5. CASE ~Interrupted
    <3>1. \/ held' = Fed(c) /\ UNCHANGED <<shown, emitted>>
          \/ held' = <<>> /\ Show(Fed(c))
          \/ UNCHANGED held /\ Show(<<c>>)
      BY <1>8, <2>1, <2>2, <2>5 DEF Take
    <3>2. Fed(c) \in Seq(Chunk) /\ <<c>> \in Seq(Chunk) /\ <<>> \in Seq(Chunk)
      BY <2>1, EmptySeq DEF Fed, StreamTyped
    <3>3. /\ held' \in Seq(Chunk)
          /\ emitted' \in [content : Nat, reasoning : Nat]
          /\ shown' \in [content : Seq(Chunk), reasoning : Seq(Chunk)]
      <4>1. CASE held' = Fed(c) /\ UNCHANGED <<shown, emitted>>
        BY <3>2, <4>1 DEF StreamTyped
      <4>2. CASE held' = <<>> /\ Show(Fed(c))
        BY <3>2, <4>2, ShowType
      <4>3. CASE UNCHANGED held /\ Show(<<c>>)
        <5>1. held' \in Seq(Chunk)
          BY <4>3 DEF StreamTyped
        <5>2. QED
          BY <3>2, <4>3, <5>1, ShowType
      <4>4. QED
        BY <3>1, <4>1, <4>2, <4>3
    <3>4. UNCHANGED <<pc, produced, response>>
      BY <1>8, <2>5 DEF Take
    <3>5. QED
      BY <1>8, <2>2, <2>3, <3>3, <3>4 DEF Take, StreamTyped, StoreTyped
  <2>6. QED
    BY <2>4, <2>5
<1>9. ASSUME Reset PROVE LoopTyped'
  <2>1. /\ wire' \in Seq(Chunk) /\ got' \in Seq(Chunk) /\ held' \in Seq(Chunk)
        /\ emitted' \in [content : Nat, reasoning : Nat]
    BY <1>9, NewStreamType DEF Reset
  <2>2. shown' \in [content : Seq(Chunk), reasoning : Seq(Chunk)]
    <3>1. ASSUME NEW s \in Seq(Chunk), NEW n \in Nat PROVE DropLast(s, n) \in Seq(Chunk)
      <4>1. \A i \in 1 .. Len(s) - n : s[i] \in Chunk
        OBVIOUS
      <4>2. Len(s) - n \in Int
        OBVIOUS
      <4>3. QED
        BY <4>1, <4>2, SubSeqProperties DEF DropLast
    <3>2. /\ DropLast(shown.content, emitted.content) \in Seq(Chunk)
          /\ DropLast(shown.reasoning, emitted.reasoning) \in Seq(Chunk)
      BY <3>1 DEF StreamTyped
    <3>3. QED
      BY <1>9, <3>2 DEF Reset
  <2>3. QED
    BY <1>9, <2>1, <2>2 DEF Reset, verdict, StreamTyped, StoreTyped, Places
<1>10. ASSUME Backoff PROVE LoopTyped'
  <2>1. response' \in [messages : Seq(Msg), error : BOOLEAN, canceled : BOOLEAN] /\ pc' \in Places
    <3>1. CASE Interrupted
      BY <1>10, <3>1, BreakType DEF Backoff, StoreTyped
    <3>2. CASE ~Interrupted
      BY <1>10, <3>2 DEF Backoff, StoreTyped, Places
    <3>3. QED
      BY <3>1, <3>2
  <2>2. QED
    BY <1>10, <2>1 DEF Backoff, stream, StreamTyped, StoreTyped
<1>11. ASSUME TakeError PROVE LoopTyped'
  <2>1. Show(held) /\ held' = <<>> /\ produced' = WithPartial(got) /\ Break(produced')
    BY <1>11 DEF TakeError
  <2>2. produced' \in Seq(Msg)
    BY <2>1, WithPartialType DEF StoreTyped, StreamTyped
  <2>3. response' \in [messages : Seq(Msg), error : BOOLEAN, canceled : BOOLEAN] /\ pc' \in Places
    BY <2>1, <2>2, BreakType
  <2>4. held' \in Seq(Chunk) /\ held \in Seq(Chunk)
    BY <2>1, EmptySeq DEF StreamTyped
  <2>5. /\ emitted' \in [content : Nat, reasoning : Nat]
        /\ shown' \in [content : Seq(Chunk), reasoning : Seq(Chunk)]
    BY <2>1, <2>4, ShowType
  <2>6. QED
    BY <1>11, <2>2, <2>3, <2>4, <2>5 DEF TakeError, StreamTyped, StoreTyped
<1>12. ASSUME TakeMessage PROVE LoopTyped'
  <2>1. Show(held) /\ held' = <<>> /\ produced' = WithPartial(got)
    BY <1>12 DEF TakeMessage
  <2>2. produced' \in Seq(Msg)
    BY <2>1, WithPartialType DEF StoreTyped, StreamTyped
  <2>3. held' \in Seq(Chunk) /\ held \in Seq(Chunk)
    BY <2>1, EmptySeq DEF StreamTyped
  <2>4. /\ emitted' \in [content : Nat, reasoning : Nat]
        /\ shown' \in [content : Seq(Chunk), reasoning : Seq(Chunk)]
    BY <2>1, <2>3, ShowType
  <2>5. pc' \in Places
    BY <1>12 DEF TakeMessage, Places
  <2>6. QED
    BY <1>12, <2>2, <2>3, <2>4, <2>5 DEF TakeMessage, verdict, StreamTyped, StoreTyped
<1>13. ASSUME NEW c \in CallsIn(got), ToolResult(c) PROVE LoopTyped'
  <2>1. ToolMessage(c) \in Msg
    BY CallsInFacts, ToolMessageFacts DEF StreamTyped
  <2>2. produced' \in Seq(Msg)
    BY <1>13, <2>1 DEF ToolResult, StoreTyped
  <2>3. QED
    BY <1>13, <2>2 DEF ToolResult, stream, verdict, StreamTyped, StoreTyped
<1>14. ASSUME NextTurn PROVE LoopTyped'
  <2>1. response' \in [messages : Seq(Msg), error : BOOLEAN, canceled : BOOLEAN] /\ pc' \in Places
    <3>1. CASE turn < MaxTurns
      BY <1>14, <3>1 DEF NextTurn, StoreTyped, Places
    <3>2. CASE ~(turn < MaxTurns)
      BY <1>14, <3>2, BreakType DEF NextTurn, StoreTyped
    <3>3. QED
      BY <3>1, <3>2
  <2>2. turn' \in Nat /\ attempt' \in Nat
    BY <1>14 DEF NextTurn
  <2>3. QED
    BY <1>14, <2>1, <2>2 DEF NextTurn, stream, StreamTyped, StoreTyped
<1>15. ASSUME ToolFails PROVE LoopTyped'
  <2>1. response' \in [messages : Seq(Msg), error : BOOLEAN, canceled : BOOLEAN] /\ pc' \in Places
    BY <1>15, BreakType DEF ToolFails, StoreTyped
  <2>2. QED
    BY <1>15, <2>1 DEF ToolFails, stream, StreamTyped, StoreTyped
<1>16. ASSUME ToolUnreadable PROVE LoopTyped'
  <2>1. response' \in [messages : Seq(Msg), error : BOOLEAN, canceled : BOOLEAN] /\ pc' \in Places
    BY <1>16, EmptySeq DEF ToolUnreadable, Respond, Places
  <2>2. QED
    BY <1>16, <2>1 DEF ToolUnreadable, stream, StreamTyped, StoreTyped
<1>17. ASSUME Finish PROVE LoopTyped'
  <2>1. PICK ms : ms = Canonical(produced, FALSE)
    OBVIOUS
  <2>2. ms \in Seq(Msg)
    BY <2>1, CanonicalFacts DEF StoreTyped
  <2>3. PICK answers \in BOOLEAN :
          answers = (\E i \in DOMAIN ms : ms[i].role = "assistant" /\ Displayable(ms[i]))
    OBVIOUS
  <2>4. CASE answers
    <3>1. Respond(ms, FALSE, FALSE) /\ UNCHANGED shown
      BY <1>17, <2>1, <2>3, <2>4 DEF Finish
    <3>2. QED
      BY <1>17, <2>2, <3>1 DEF Finish, Respond, Places, stream, StreamTyped, StoreTyped
  <2>5. CASE ~answers /\ OnlyReasoned(ms) # {}
    <3> DEFINE x == Max(OnlyReasoned(ms))
               r == [ms EXCEPT ![x].content = <<Fallback>>]
    <3>1. Respond(r, FALSE, FALSE) /\ shown' = [shown EXCEPT !.content = Append(@, Fallback)]
      BY <1>17, <2>1, <2>3, <2>5 DEF Finish
    <3>2. x \in DOMAIN ms /\ ms[x].role = "assistant"
      BY <2>2, <2>5, MaxIn DEF OnlyReasoned
    <3> HIDE DEF x
    <3>3. r \in Seq(Msg)
      BY <2>2, <3>2, FinishType
    <3> HIDE DEF r
    <3>4. shown' \in [content : Seq(Chunk), reasoning : Seq(Chunk)]
      <4>1. PICK f \in Chunk : f = Fallback
        BY FallbackType
      <4>2. Append(shown.content, f) \in Seq(Chunk)
        BY <4>1 DEF StreamTyped
      <4>3. QED
        BY <3>1, <4>1, <4>2 DEF StreamTyped
    <3>5. QED
      BY <1>17, <3>1, <3>3, <3>4 DEF Finish, Respond, Places, stream, StreamTyped, StoreTyped
  <2>6. CASE ~answers /\ OnlyReasoned(ms) = {}
    <3>1. Respond(<<>>, TRUE, FALSE) /\ UNCHANGED shown
      BY <1>17, <2>1, <2>3, <2>6 DEF Finish
    <3>2. QED
      BY <1>17, <3>1, EmptySeq DEF Finish, Respond, Places, stream, StreamTyped, StoreTyped
  <2>7. QED
    BY <2>4, <2>5, <2>6
<1>18. ASSUME Collected PROVE LoopTyped'
  BY <1>18 DEF Collected, stream, verdict, StreamTyped, StoreTyped, Places
<1>19. ASSUME MemoryOpen \/ MemoryChunk \/ \E ok \in BOOLEAN : MemoryEnds(ok) PROVE LoopTyped'
  <2>1. gate' \in [{"run", "memory"} -> Guard]
    <3>1. CASE MemoryOpen
      <4>1. [NewGate EXCEPT !.armed = TRUE] \in Guard
        BY DEF NewGate, Guard
      <4>2. QED
        BY <3>1, <4>1 DEF MemoryOpen
    <3>2. CASE MemoryChunk
      BY <3>2, MarkedType DEF MemoryChunk, Observed
    <3>3. QED
      BY <1>19, <3>1, <3>2 DEF MemoryEnds
  <2>2. UNCHANGED <<kind, pc, turn, attempt, stream, shown, produced, verdict>>
    BY <1>19 DEF MemoryOpen, MemoryChunk, MemoryEnds
  <2>3. QED
    BY <2>1, <2>2 DEF stream, verdict, StreamTyped, StoreTyped
<1>20. ASSUME JoinTasks PROVE LoopTyped'
  <2>1. response' \in [messages : Seq(Msg), error : BOOLEAN, canceled : BOOLEAN] /\ pc' \in Places
    BY <1>20, EmptySeq DEF JoinTasks, Respond, Places, Interrupted
  <2>2. QED
    BY <1>20, <2>1 DEF JoinTasks, stream, StreamTyped, StoreTyped
<1>21. ASSUME Conclude PROVE LoopTyped'
  <2>1. ErrorMessage \in Msg
    BY EmptySeq, FS_EmptySet DEF ErrorMessage, Msg, Shape, Silence
  <2>2. PICK ms \in Seq(Msg) : ms = response.messages
    BY DEF StoreTyped
  <2>3. stored' \in {<<>>, ms, Append(ms, ErrorMessage)}
    BY <1>21, <2>2 DEF Conclude, Kept
  <2>4. stored' \in Seq(Msg)
    <3>1. Append(ms, ErrorMessage) \in Seq(Msg) /\ <<>> \in Seq(Msg)
      BY <2>1, EmptySeq
    <3>2. QED
      BY <2>3, <3>1
  <2>5. QED
    BY <1>21, <2>4 DEF Conclude, stream, StreamTyped, StoreTyped, Places
<1>22. QED
  BY <1>1, <1>2, <1>3, <1>4, <1>5, <1>6, <1>7, <1>8, <1>9, <1>10, <1>11, <1>12, <1>13, <1>14,
     <1>15, <1>16, <1>17, <1>18, <1>19, <1>20, <1>21
     DEF Next, Provider, Loop, RawFails, RawStops, RawCanceled, ToolsRun

-----------------------------------------------------------------------------
(* Silence *)

(* Whether there is output depends on the chunks alone. *)
LEMMA HasOutputRange ==
  ASSUME NEW s PROVE HasOutput(s) <=> \E c \in Range(s) : Meaningful(c.k)
BY DEF HasOutput, Range

(* Part of silence is silent. *)
LEMMA SilentPart ==
  ASSUME NEW s, NEW t, ~HasOutput(s), Range(t) \subseteq Range(s) PROVE ~HasOutput(t)
BY HasOutputRange

(* Output is in the one or in the other. *)
LEMMA SilentConcat ==
  ASSUME NEW s \in Seq(Chunk), NEW t \in Seq(Chunk)
  PROVE  HasOutput(s \o t) <=> HasOutput(s) \/ HasOutput(t)
<1>1. Range(s \o t) = Range(s) \cup Range(t)
  BY RangeConcatenation
<1>2. QED
  BY <1>1, HasOutputRange

(* Output is in what was there or in the last. *)
LEMMA SilentAppend ==
  ASSUME NEW s \in Seq(Chunk), NEW c \in Chunk
  PROVE  HasOutput(Append(s, c)) <=> HasOutput(s) \/ Meaningful(c.k)
<1>1. Append(s, c) = s \o <<c>> /\ <<c>> \in Seq(Chunk)
  BY AppendIsConcat
<1>2. HasOutput(<<c>>) <=> Meaningful(c.k)
  BY DEF HasOutput
<1>3. HasOutput(s \o <<c>>) <=> HasOutput(s) \/ HasOutput(<<c>>)
  BY <1>1, SilentConcat
<1>4. QED
  BY <1>1, <1>2, <1>3

(* Silence has no text, no reasoning and no call. *)
LEMMA SilentKinds ==
  ASSUME NEW s \in Seq(Chunk), ~HasOutput(s)
  PROVE  ~HasOutput(Content(s)) /\ ~HasOutput(Reasoning(s)) /\ CallsIn(s) = {}
<1>1. Range(Content(s)) \subseteq Range(s) /\ Range(Reasoning(s)) \subseteq Range(s)
  BY OnlyElements DEF Content, Reasoning
<1>2. CallsIn(s) = {}
  BY DEF CallsIn, HasOutput, Meaningful
<1>3. QED
  BY <1>1, <1>2, SilentPart

Mute(m) == m.role # "tool" /\ m.calls = {} /\ ~HasOutput(m.content) /\ ~HasOutput(m.reasoning)

(* Nothing a client could use has arrived. *)
Quiet ==
  /\ ~HasOutput(got) /\ ~HasOutput(wire)
  /\ ~HasOutput(shown.content) /\ ~HasOutput(shown.reasoning)
  /\ \A i \in DOMAIN produced : Mute(produced[i])

HeldInv == \A i \in DOMAIN held : held[i].k = "blank"

(* The guard of the run has seen the first output, or there is none.          *)
GuardInv == gate["run"].observed \/ gate["run"].fired \/ Quiet

(* The message of a silent attempt is mute. *)
LEMMA MutePartial ==
  ASSUME produced \in Seq(Msg), \A i \in DOMAIN produced : Mute(produced[i]),
         NEW s \in Seq(Chunk), ~HasOutput(s)
  PROVE  \A i \in DOMAIN WithPartial(s) : Mute(WithPartial(s)[i])
<1>1. CASE s = <<>>
  BY <1>1 DEF WithPartial
<1>2. CASE s # <<>>
  <2>1. Mute(Message(s)) /\ Message(s) \in Msg
    BY MessageFacts, SilentKinds DEF Mute
  <2>2. WithPartial(s) = Append(produced, Message(s))
    BY <1>2 DEF WithPartial
  <2>3. QED
    BY <2>1, <2>2
<1>3. QED
  BY <1>1, <1>2

(* Showing silence keeps the screen silent. *)
LEMMA ShowSilent ==
  ASSUME StreamTyped, NEW s \in Seq(Chunk), ~HasOutput(s), Show(s),
         ~HasOutput(shown.content), ~HasOutput(shown.reasoning)
  PROVE  ~HasOutput(shown'.content) /\ ~HasOutput(shown'.reasoning)
<1>1. /\ shown'.content = shown.content \o Content(s)
      /\ shown'.reasoning = shown.reasoning \o Reasoning(s)
  BY DEF Show
<1>2. Content(s) \in Seq(Chunk) /\ Reasoning(s) \in Seq(Chunk)
  BY ContentType
<1>3. QED
  BY <1>1, <1>2, SilentKinds, SilentConcat DEF StreamTyped

(* What the guard of the run has seen stays seen. *)
LEMMA GuardKeeps ==
  ASSUME LoopTyped, [Next]_vars
  PROVE  /\ gate["run"].observed => gate'["run"].observed
         /\ gate["run"].fired => gate'["run"].fired
         /\ gate'["run"].fired /\ ~gate["run"].fired => Fire
<1> DEFINE Stays == /\ gate["run"].observed => gate'["run"].observed
                   /\ gate'["run"].fired = gate["run"].fired
<1>1. ASSUME NEW owner, gate' = Marked(owner) PROVE Stays
  <2>1. "run" \in DOMAIN gate /\ gate["run"] \in Guard
    BY DEF LoopTyped
  <2>2. gate'["run"] \in {gate["run"], [gate["run"] EXCEPT !.observed = TRUE]}
    BY <1>1, <2>1 DEF Marked
  <2>3. QED
    BY <2>1, <2>2 DEF Guard
<1>2. ASSUME NEW k, RawChunk(k) PROVE Stays
  BY <1>1, <1>2 DEF RawChunk, Observed
<1>3. ASSUME MemoryChunk PROVE Stays
  BY <1>1, <1>3 DEF MemoryChunk, Observed
<1>4. ASSUME MemoryOpen PROVE Stays
  BY <1>4 DEF MemoryOpen, LoopTyped
<1>5. ASSUME Fire PROVE gate'["run"].observed = gate["run"].observed /\ gate'["run"].fired
  BY <1>5 DEF Fire, LoopTyped, Guard
<1>6. ASSUME UNCHANGED gate PROVE Stays
  BY <1>6
<1>7. (\E k \in ChunkKinds : RawChunk(k)) \/ MemoryChunk \/ MemoryOpen \/ Fire \/ UNCHANGED gate
  BY DEF Next, vars, Provider, Loop, RawFails, RawStops, RawCanceled, ToolsRun, RawEnd, MemoryEnds,
         Prepare, Open, Take, Reset, Backoff, TakeError, TakeMessage, NextTurn, Finish, Collected,
         JoinTasks, Conclude, ToolResult, ToolFails, ToolUnreadable, Cancel
<1>8. QED
  BY <1>2, <1>3, <1>4, <1>5, <1>6, <1>7

(* Nothing but white space is ever held back. *)
LEMMA HeldNext ==
  ASSUME LoopTyped, HeldInv, [Next]_vars PROVE HeldInv'
<1>1. CASE held' = <<>>
  BY <1>1 DEF HeldInv
<1>2. CASE UNCHANGED held
  BY <1>2 DEF HeldInv
<1>3. CASE Take /\ held' # <<>> /\ held' # held
  <2>1. PICK c \in Chunk : c = Head(wire)
    BY <1>3 DEF Take, LoopTyped, StreamTyped
  <2>2. Holds(c.k) /\ held' = Fed(c)
    BY <1>3, <2>1 DEF Take
  <2>3. held' = Append(held, c) /\ c.k = "blank"
    BY <2>1, <2>2 DEF Fed, Holds, LoopTyped, StreamTyped
  <2>4. QED
    BY <2>1, <2>3, SMTT(30) DEF HeldInv, LoopTyped, StreamTyped
<1>4. QED
  BY <1>1, <1>2, <1>3
     DEF Next, vars, Provider, Loop, RawFails, RawStops, RawCanceled, ToolsRun, RawEnd, MemoryEnds,
         Prepare, Open, Reset, Backoff, TakeError, TakeMessage, NextTurn, Finish, Collected,
         JoinTasks, Conclude, ToolResult, ToolFails, ToolUnreadable, Cancel, Fire, RawChunk,
         MemoryOpen, MemoryChunk, stream, NewStream

(* What is held back is no output. *)
LEMMA HeldSilent ==
  ASSUME HeldInv PROVE ~HasOutput(held)
BY DEF HeldInv, HasOutput, Meaningful

(* A chunk nobody could use is no output. *)
LEMMA BlankSilent ==
  ASSUME NEW c \in Chunk, ~Meaningful(c.k) PROVE <<c>> \in Seq(Chunk) /\ ~HasOutput(<<c>>)
BY DEF HasOutput

(* A muted conversation has no thought to answer with. *)
LEMMA MuteCanonical ==
  ASSUME NEW ms \in Seq(Msg), \A i \in DOMAIN ms : Mute(ms[i])
  PROVE  OnlyReasoned(Canonical(ms, FALSE)) = {}
<1> DEFINE cs == Canonical(ms, FALSE)
<1>1. cs \in Seq(Msg) /\ Thought(cs) \subseteq Thought(ms)
  BY CanonicalFacts
<1>2. Thought(ms) = {}
  <2>1. \A i \in DOMAIN ms : \A c \in Range(ms[i].reasoning) : ~Meaningful(c.k)
    BY HasOutputRange DEF Mute
  <2>2. QED
    BY <2>1 DEF Thought, Voice, Meaningful
<1> HIDE DEF cs
<1>3. ASSUME NEW i \in OnlyReasoned(cs) PROVE FALSE
  <2>1. i \in DOMAIN cs /\ HasOutput(cs[i].reasoning)
    BY DEF OnlyReasoned
  <2>2. PICK c \in Range(cs[i].reasoning) : Meaningful(c.k)
    BY <2>1, HasOutputRange
  <2>3. cs[i] \in Msg /\ cs[i].reasoning \in Seq(Chunk)
    BY <1>1, <2>1, MsgFacts
  <2>4. c \in Chunk
    BY <2>3, RangeOfSeq
  <2>5. c \in Thought(cs)
    BY <2>1, <2>2, <2>4 DEF Thought, Voice, Meaningful
  <2>6. QED
    BY <1>1, <1>2, <2>5
<1>4. QED
  BY <1>3 DEF cs

(* No output passes the guard unseen, whoever reads it first. *)
LEMMA GuardNext ==
  ASSUME LoopTyped, HeldInv, GuardInv, [Next]_vars PROVE GuardInv'
<1>1. SUFFICES ASSUME Quiet, ~gate["run"].fired, ~gate'["run"].observed, ~gate'["run"].fired
      PROVE Quiet'
  BY GuardKeeps DEF GuardInv
<1>2. ~HasOutput(held) /\ held \in Seq(Chunk) /\ produced \in Seq(Msg) /\ StreamTyped
      /\ wire \in Seq(Chunk) /\ got \in Seq(Chunk)
  BY HeldSilent DEF LoopTyped, StreamTyped, StoreTyped
<1>3. ASSUME UNCHANGED <<wire, got, shown, produced>> PROVE Quiet'
  BY <1>1, <1>3 DEF Quiet
<1>4. ASSUME NewStream, UNCHANGED <<shown, produced>> PROVE Quiet'
  BY <1>1, <1>4 DEF Quiet, NewStream, HasOutput
<1>5. ASSUME NEW k \in ChunkKinds, RawChunk(k) PROVE Quiet'
  <2>1. ~Meaningful(k)
    <3>1. SUFFICES ASSUME Meaningful(k) PROVE FALSE
      OBVIOUS
    <3>2. /\ gate' = Marked(kind) /\ Chain(kind) = {"run"}
          /\ "run" \in DOMAIN gate /\ gate["run"] \in Guard
      BY <1>5, <3>1 DEF RawChunk, Observed, Chain, LoopTyped
    <3>3. gate'["run"] = [gate["run"] EXCEPT !.observed = TRUE]
      BY <1>1, <3>2 DEF Marked
    <3>4. gate'["run"].observed
      BY <3>2, <3>3 DEF Guard
    <3>5. QED
      BY <1>1, <3>4
  <2>2. PICK c \in Chunk : wire' = Append(wire, c) /\ c.k = k
    <3>1. Len(got) \in Nat /\ Len(wire) \in Nat /\ turn \in Nat /\ attempt \in Nat
      BY <1>2 DEF LoopTyped
    <3>2. [t |-> turn, a |-> attempt, i |-> Len(got) + Len(wire), k |-> k] \in Chunk
      BY <3>1 DEF Chunk
    <3>3. QED
      BY <1>5, <3>2 DEF RawChunk
  <2>3. ~HasOutput(wire')
    BY <1>1, <1>2, <2>1, <2>2, SilentAppend DEF Quiet
  <2>4. UNCHANGED <<got, shown, produced>>
    BY <1>5 DEF RawChunk
  <2>5. QED
    BY <1>1, <2>3, <2>4 DEF Quiet
<1>6. ASSUME Take PROVE Quiet'
  <2>1. PICK c \in Chunk : c = Head(wire) /\ ~Meaningful(c.k)
    <3>1. Head(wire) \in Chunk /\ Head(wire) \in Range(wire)
      BY <1>2, <1>6 DEF Take, Range
    <3>2. QED
      BY <1>1, <3>1, HasOutputRange DEF Quiet
  <2>2. PICK s \in Seq(Chunk) : s = Append(got, c)
    <3>1. Append(got, c) \in Seq(Chunk)
      BY <1>2, <2>1
    <3>2. QED
      BY <3>1
  <2>3. got' = s /\ ~HasOutput(s)
    BY <1>1, <1>2, <1>6, <2>1, <2>2, SilentAppend DEF Take, Quiet
  <2>4. ~HasOutput(wire')
    <3>1. wire # <<>> /\ wire' = Tail(wire)
      BY <1>6 DEF Take
    <3>2. Range(wire') \subseteq Range(wire)
      BY <1>2, <3>1 DEF Range
    <3>3. QED
      BY <1>1, <3>2, SilentPart DEF Quiet
  <2>5. /\ produced' \in {produced, WithPartial(s)}
        /\ UNCHANGED shown \/ Show(held) \/ Show(Fed(c)) \/ Show(<<c>>)
    BY <1>6, <2>1, <2>2 DEF Take
  <2>6. ~HasOutput(shown'.content) /\ ~HasOutput(shown'.reasoning)
    <3>1. <<c>> \in Seq(Chunk) /\ ~HasOutput(<<c>>)
      BY <2>1, BlankSilent
    <3>2. Fed(c) \in Seq(Chunk) /\ ~HasOutput(Fed(c))
      <4>1. PICK t \in Seq(Chunk) : t = <<c>> /\ ~HasOutput(t)
        BY <3>1
      <4>2. held \in Seq(Chunk) /\ ~HasOutput(held)
        BY <1>2
      <4>3. held \o t \in Seq(Chunk)
        BY <4>2
      <4>4. HasOutput(held \o t) <=> HasOutput(held) \/ HasOutput(t)
        BY <4>2, SilentConcat
      <4>5. QED
        BY <4>1, <4>2, <4>3, <4>4 DEF Fed
    <3>3. ~HasOutput(shown.content) /\ ~HasOutput(shown.reasoning)
      BY <1>1 DEF Quiet
    <3>4. QED
      BY <1>2, <2>5, <3>1, <3>2, <3>3, ShowSilent
  <2>7. \A i \in DOMAIN WithPartial(s) : Mute(WithPartial(s)[i])
    BY <1>1, <1>2, <2>3, MutePartial DEF Quiet
  <2>8. QED
    BY <1>1, <2>3, <2>4, <2>5, <2>6, <2>7 DEF Quiet
<1>7. ASSUME Reset PROVE Quiet'
  <2>1. /\ wire' = <<>> /\ got' = <<>> /\ UNCHANGED produced
        /\ shown' = [content   |-> DropLast(shown.content, emitted.content),
                     reasoning |-> DropLast(shown.reasoning, emitted.reasoning)]
    BY <1>7 DEF Reset, NewStream
  <2>2. ASSUME NEW s \in Seq(Chunk), NEW n \in Nat PROVE Range(DropLast(s, n)) \subseteq Range(s)
    BY DEF DropLast, Range
  <2>3. /\ Range(shown'.content) \subseteq Range(shown.content)
        /\ Range(shown'.reasoning) \subseteq Range(shown.reasoning)
    BY <1>2, <2>1, <2>2 DEF StreamTyped
  <2>4. ~HasOutput(shown'.content) /\ ~HasOutput(shown'.reasoning)
    BY <1>1, <2>3, SilentPart DEF Quiet
  <2>5. ~HasOutput(wire') /\ ~HasOutput(got')
    BY <2>1 DEF HasOutput
  <2>6. QED
    BY <1>1, <2>1, <2>4, <2>5 DEF Quiet
<1>8. ASSUME TakeError \/ TakeMessage PROVE Quiet'
  <2>1. Show(held) /\ produced' = WithPartial(got) /\ UNCHANGED <<wire, got>>
    BY <1>8 DEF TakeError, TakeMessage
  <2>2. ~HasOutput(shown'.content) /\ ~HasOutput(shown'.reasoning)
    BY <1>1, <1>2, <2>1, ShowSilent DEF Quiet
  <2>3. \A i \in DOMAIN WithPartial(got) : Mute(WithPartial(got)[i])
    BY <1>1, <1>2, MutePartial DEF Quiet
  <2>4. QED
    BY <1>1, <2>1, <2>2, <2>3 DEF Quiet
<1>9. ASSUME NEW c \in CallsIn(got), ToolResult(c) PROVE Quiet'
  BY <1>1, <1>2, SilentKinds DEF Quiet
<1>10. ASSUME Finish PROVE Quiet'
  <2>1. OnlyReasoned(Canonical(produced, FALSE)) = {}
    BY <1>1, <1>2, MuteCanonical DEF Quiet
  <2>2. UNCHANGED shown
    BY <1>10, <2>1 DEF Finish
  <2>3. QED
    BY <1>3, <1>10, <2>2 DEF Finish, stream
<1>11. QED
  BY <1>3, <1>4, <1>5, <1>6, <1>7, <1>8, <1>9, <1>10
     DEF Next, vars, Provider, Loop, RawFails, RawStops, RawCanceled, ToolsRun, RawEnd, MemoryEnds,
         Prepare, Open, Backoff, NextTurn, Collected, JoinTasks, Conclude, ToolFails,
         ToolUnreadable, Cancel, Fire, MemoryOpen, MemoryChunk, stream

(* The timer of the silent. *)
LEMMA FireIsSilent ==
  ASSUME LoopTyped, HeldInv, GuardInv, [Next]_vars, gate'["run"].fired, ~gate["run"].fired
  PROVE  /\ ~HasOutput(got \o wire) /\ Results = {}
         /\ Said(shown.content \o shown.reasoning) = <<>>
<1>1. Fire
  BY GuardKeeps
<1>2. Quiet
  BY <1>1 DEF Fire, GuardInv
<1>3. /\ got \in Seq(Chunk) /\ wire \in Seq(Chunk)
      /\ shown.content \in Seq(Chunk) /\ shown.reasoning \in Seq(Chunk)
  BY DEF LoopTyped, StreamTyped
<1>4. ~HasOutput(got \o wire)
  BY <1>2, <1>3, SilentConcat DEF Quiet
<1>5. Results = {}
  BY <1>2 DEF Quiet, Results, Mute
<1>6. /\ ~HasOutput(shown.content \o shown.reasoning)
      /\ shown.content \o shown.reasoning \in Seq(Chunk)
  BY <1>2, <1>3, SilentConcat DEF Quiet
<1>7. QED
  BY <1>4, <1>5, <1>6, SaidNothing

-----------------------------------------------------------------------------
(* What is shown of an attempt *)

(* The screen ends with n chunks of this attempt. *)
Emits(s, n, g) ==
  \E p, e \in Seq(Chunk) : s = p \o e /\ Len(e) = n /\ Range(e) \subseteq Range(g)

ShownOf(s, em, g) == Emits(s.content, em.content, g) /\ Emits(s.reasoning, em.reasoning, g)

EmittedInv ==
  pc = "streaming" =>
    /\ ShownOf(shown, emitted, got) /\ Range(held) \subseteq Range(got)
    /\ end = "retry" => ~HasOutput(got) /\ ~HasOutput(wire)

(* Of a new attempt nothing is shown. *)
LEMMA EmitsNothing ==
  ASSUME NEW s \in Seq(Chunk), NEW g PROVE Emits(s, 0, g)
<1>1. s = s \o <<>> /\ <<>> \in Seq(Chunk) /\ Len(<<>>) = 0 /\ Range(<<>>) \subseteq Range(g)
  BY ConcatEmptySeq, EmptySeq DEF Range
<1>2. QED
  BY <1>1 DEF Emits

(* What is shown now was emitted last. *)
LEMMA EmitsMore ==
  ASSUME NEW s, NEW n \in Nat, NEW g, NEW h, Emits(s, n, g), Range(g) \subseteq Range(h),
         NEW t \in Seq(Chunk), Range(t) \subseteq Range(h)
  PROVE  Emits(s \o t, n + Len(t), h)
<1>1. PICK p, e \in Seq(Chunk) : s = p \o e /\ Len(e) = n /\ Range(e) \subseteq Range(g)
  BY DEF Emits
<1>2. s \o t = p \o (e \o t)
  BY <1>1, ConcatAssociative, SMTT(30)
<1>3. e \o t \in Seq(Chunk) /\ Len(e \o t) = n + Len(t)
  <2>1. e \o t \in Seq(Chunk) /\ Len(e \o t) = Len(e) + Len(t)
    BY ConcatProperties
  <2>2. QED
    BY <1>1, <2>1
<1>4. Range(e \o t) = Range(e) \cup Range(t)
  BY RangeConcatenation
<1>5. Range(e \o t) \subseteq Range(h)
  BY <1>1, <1>4
<1>6. QED
  BY <1>2, <1>3, <1>5 DEF Emits

(* The attempt goes on. *)
LEMMA EmitsSame ==
  ASSUME NEW s, NEW n, NEW g, NEW h, Emits(s, n, g), Range(g) \subseteq Range(h)
  PROVE  Emits(s, n, h)
<1>1. PICK p, e \in Seq(Chunk) : s = p \o e /\ Len(e) = n /\ Range(e) \subseteq Range(g)
  BY DEF Emits
<1>2. Range(e) \subseteq Range(h)
  BY <1>1
<1>3. QED
  BY <1>1, <1>2 DEF Emits

(* Showing chunks of the attempt counts them. *)
LEMMA ShowEmits ==
  ASSUME StreamTyped, ShownOf(shown, emitted, got), NEW h \in Seq(Chunk),
         Range(got) \subseteq Range(h), NEW s \in Seq(Chunk), Range(s) \subseteq Range(h), Show(s)
  PROVE  ShownOf(shown', emitted', h)
<1> DEFINE a == Content(s)
           b == Reasoning(s)
<1>1. /\ shown' = [content |-> shown.content \o a, reasoning |-> shown.reasoning \o b]
      /\ emitted' = [content |-> emitted.content + Len(a), reasoning |-> emitted.reasoning + Len(b)]
  BY DEF Show
<1>2. /\ a \in Seq(Chunk) /\ b \in Seq(Chunk)
      /\ Range(a) \subseteq Range(s) /\ Range(b) \subseteq Range(s)
  BY ContentType, OnlyElements DEF Content, Reasoning
<1> HIDE DEF a, b
<1>3. Range(a) \subseteq Range(h) /\ Range(b) \subseteq Range(h)
  BY <1>2
<1>4. emitted.content \in Nat /\ emitted.reasoning \in Nat
  BY DEF StreamTyped
<1>5. Emits(shown.content \o a, emitted.content + Len(a), h)
  BY <1>2, <1>3, <1>4, EmitsMore DEF ShownOf
<1>6. Emits(shown.reasoning \o b, emitted.reasoning + Len(b), h)
  BY <1>2, <1>3, <1>4, EmitsMore DEF ShownOf
<1>7. QED
  BY <1>1, <1>5, <1>6 DEF ShownOf

(* The counters of an attempt tell how much of the screen is its own. *)
LEMMA EmittedNext ==
  ASSUME LoopTyped, HeldInv, EmittedInv, [Next]_vars PROVE EmittedInv'
<1>1. CASE pc' # "streaming"
  BY <1>1 DEF EmittedInv
<1>2. /\ StreamTyped /\ got \in Seq(Chunk) /\ wire \in Seq(Chunk) /\ held \in Seq(Chunk)
      /\ shown.content \in Seq(Chunk) /\ shown.reasoning \in Seq(Chunk)
  BY DEF LoopTyped, StreamTyped
<1>3. ASSUME pc = "streaming", UNCHANGED <<got, held, shown, emitted, wire, end>> PROVE EmittedInv'
  BY <1>3 DEF EmittedInv
<1>4. ASSUME Open PROVE EmittedInv'
  <2>1. /\ got' = <<>> /\ held' = <<>> /\ end' = "open" /\ shown' = shown
        /\ emitted' = [content |-> 0, reasoning |-> 0]
    BY <1>4 DEF Open, NewStream
  <2>2. ShownOf(shown', emitted', got')
    BY <1>2, <2>1, EmitsNothing DEF ShownOf
  <2>3. QED
    BY <2>1, <2>2 DEF EmittedInv
<1>5. ASSUME NEW k, RawChunk(k) PROVE EmittedInv'
  BY <1>5 DEF RawChunk, EmittedInv
<1>6. ASSUME NEW e, RawEnd(e), e = "retry" => ~HasOutput(got \o wire) PROVE EmittedInv'
  BY <1>2, <1>6, SilentConcat DEF RawEnd, EmittedInv
<1>7. ASSUME Take, pc' = "streaming" PROVE EmittedInv'
  <2>1. PICK c \in Chunk : c = Head(wire) /\ c \in Range(wire)
    <3>1. Head(wire) \in Chunk /\ Head(wire) \in Range(wire)
      BY <1>2, <1>7 DEF Take, Range
    <3>2. QED
      BY <3>1
  <2>2. PICK t \in Seq(Chunk) : t = <<c>> /\ Range(t) = {c}
    <3>1. <<c>> \in Seq(Chunk) /\ Range(<<c>>) = {c}
      BY <2>1 DEF Range
    <3>2. QED
      BY <3>1
  <2>3. PICK s \in Seq(Chunk) : s = got \o t /\ s = Append(got, c) /\ Range(s) = Range(got) \cup {c}
    <3>1. got \o t \in Seq(Chunk) /\ got \o t = Append(got, c)
      BY <1>2, <2>1, <2>2
    <3>2. Range(got \o t) = Range(got) \cup {c}
      <4>1. got \in Seq(Chunk)
        BY <1>2
      <4>2. Range(got \o t) = Range(got) \cup Range(t)
        BY <4>1, RangeConcatenation
      <4>3. QED
        BY <2>2, <4>2
    <3>3. QED
      BY <3>1, <3>2
  <2>4. pc = "streaming" /\ got' = s /\ wire' = Tail(wire) /\ end' = end
    BY <1>7, <2>1, <2>3 DEF Take
  <2>5. ShownOf(shown, emitted, got) /\ Range(held) \subseteq Range(got)
    BY <2>4 DEF EmittedInv
  <2>6. ~Interrupted
    <3>1. Interrupted => Break(produced')
      BY <1>7 DEF Take
    <3>2. Break(produced') => pc' = "return"
      BY DEF Break, Respond
    <3>3. QED
      BY <1>7, <3>1, <3>2
  <2>7. \/ held' = Fed(c) /\ UNCHANGED <<shown, emitted>>
        \/ held' = <<>> /\ Show(Fed(c))
        \/ UNCHANGED held /\ Show(t)
    BY <1>7, <2>1, <2>2, <2>6 DEF Take
  <2>8. Fed(c) \in Seq(Chunk) /\ Range(Fed(c)) = Range(held) \cup {c}
    <3>1. Fed(c) = held \o t /\ held \in Seq(Chunk)
      BY <1>2, <2>2 DEF Fed
    <3>2. held \o t \in Seq(Chunk)
      BY <3>1
    <3>3. Range(held \o t) = Range(held) \cup Range(t)
      BY <3>1, RangeConcatenation
    <3>4. QED
      BY <2>2, <3>1, <3>2, <3>3
  <2>9. ShownOf(shown', emitted', s)
    <3>1. CASE UNCHANGED <<shown, emitted>>
      BY <2>3, <2>5, <3>1, EmitsSame DEF ShownOf
    <3>2. CASE Show(Fed(c))
      <4>1. Range(Fed(c)) \subseteq Range(s) /\ Range(got) \subseteq Range(s)
        BY <2>3, <2>5, <2>8
      <4>2. QED
        BY <1>2, <2>5, <2>8, <3>2, <4>1, ShowEmits
    <3>3. CASE Show(t)
      <4>1. Range(t) \subseteq Range(s) /\ Range(got) \subseteq Range(s)
        BY <2>2, <2>3
      <4>2. QED
        BY <1>2, <2>5, <3>3, <4>1, ShowEmits
    <3>4. QED
      BY <2>7, <3>1, <3>2, <3>3
  <2>10. Range(held') \subseteq Range(s)
    <3>1. Range(<<>>) = {}
      BY DEF Range
    <3>2. QED
      BY <2>3, <2>5, <2>7, <2>8, <3>1
  <2>11. ASSUME end = "retry" PROVE ~HasOutput(s) /\ ~HasOutput(Tail(wire))
    <3>1. ~HasOutput(got) /\ ~HasOutput(wire)
      BY <2>4, <2>11 DEF EmittedInv
    <3>2. ~Meaningful(c.k)
      BY <2>1, <3>1, HasOutputRange
    <3>3. Range(Tail(wire)) \subseteq Range(wire)
      BY <1>2, <1>7, SMTT(30) DEF Take, Range
    <3>4. QED
      BY <1>2, <2>1, <2>3, <3>1, <3>2, <3>3, SilentAppend, SilentPart
  <2>12. QED
    BY <2>4, <2>9, <2>10, <2>11 DEF EmittedInv
<1>8. ASSUME RawFails PROVE EmittedInv'
  <2>1. PICK e \in Errors : RawEnd(EndOf(e))
    BY <1>8 DEF RawFails
  <2>2. EndOf(e) = "retry" => ~HasOutput(got \o wire)
    BY DEF EndOf, Retries
  <2>3. QED
    BY <1>6, <2>1, <2>2
<1>9. ASSUME RawStops \/ RawCanceled PROVE EmittedInv'
  BY <1>6, <1>9 DEF RawStops, RawCanceled
<1>10. QED
  BY <1>1, <1>3, <1>4, <1>5, <1>7, <1>8, <1>9
     DEF Next, vars, Provider, Loop, ToolsRun, MemoryEnds, Prepare, Reset, Backoff, TakeError,
         TakeMessage, NextTurn, Finish, Collected, JoinTasks, Conclude, ToolResult, ToolFails,
         ToolUnreadable, Cancel, Fire, MemoryOpen, MemoryChunk, stream, Break, Respond

(* What comes later is behind what was said. *)
LEMMA PrefixOfConcat ==
  ASSUME NEW s \in Seq(Chunk), NEW t \in Seq(Chunk) PROVE IsPrefix(s, s \o t)
<1>1. Len(s) <= Len(s \o t)
  OBVIOUS
<1>2. SubSeq(s, 1, Len(s)) = SubSeq(s \o t, 1, Len(s))
  <2>1. CASE s = <<>>
    <3>1. Len(s) = 0 /\ 0 < 1
      BY <2>1
    <3>2. SubSeq(s, 1, 0) = <<>> /\ SubSeq(s \o t, 1, 0) = <<>>
      BY SubSeqEmpty
    <3>3. QED
      BY <3>1, <3>2
  <2>2. CASE s # <<>>
    <3>1. 1 \in 1 .. Len(s) /\ Len(s) \in 1 .. Len(s)
      BY <2>2
    <3>2. QED
      BY <3>1, SubSeqFull, SubSeqOfConcat1
  <2>3. QED
    BY <2>1, <2>2
<1>3. QED
  BY <1>1, <1>2 DEF IsPrefix

(* What comes later is said later. *)
LEMMA SaidPrefix ==
  ASSUME NEW s \in Seq(Chunk), NEW t \in Seq(Chunk) PROVE IsPrefix(Said(s), Said(s \o t))
BY SaidConcat, SaidType, PrefixOfConcat

(* Everything begins with itself. *)
LEMMA SamePrefix ==
  ASSUME NEW s \in Seq(Chunk) PROVE IsPrefix(s, s)
<1>1. s \o <<>> = s /\ <<>> \in Seq(Chunk)
  BY ConcatEmptySeq, EmptySeq
<1>2. QED
  BY <1>1, PrefixOfConcat

(* What is dropped said nothing. *)
LEMMA DropSilent ==
  ASSUME NEW s \in Seq(Chunk), NEW n \in Nat, NEW g, Emits(s, n, g), ~HasOutput(g)
  PROVE  DropLast(s, n) \in Seq(Chunk) /\ Said(DropLast(s, n)) = Said(s)
<1>1. PICK p, e \in Seq(Chunk) : s = p \o e /\ Len(e) = n /\ Range(e) \subseteq Range(g)
  BY DEF Emits
<1>2. DropLast(s, n) = p
  <2>1. Len(s) = Len(p) + Len(e) /\ Len(s) - n = Len(p) /\ Len(p) \in Nat
    <3>1. Len(p \o e) = Len(p) + Len(e) /\ Len(p) \in Nat /\ Len(e) \in Nat
      BY ConcatProperties, LenProperties
    <3>2. QED
      BY <1>1, <3>1
  <2>2. DropLast(s, n) = SubSeq(p \o e, 1, Len(p))
    BY <1>1, <2>1 DEF DropLast
  <2>3. CASE p = <<>>
    <3>1. SubSeq(p \o e, 1, 0) = <<>> /\ Len(p) = 0
      BY <2>3, SubSeqEmpty
    <3>2. QED
      BY <2>2, <2>3, <3>1
  <2>4. CASE p # <<>>
    <3>1. 1 \in 1 .. Len(p) /\ Len(p) \in 1 .. Len(p)
      BY <2>4
    <3>2. QED
      BY <2>2, <3>1, SubSeqFull, SubSeqOfConcat1
  <2>5. QED
    BY <2>3, <2>4
<1>3. Said(e) = <<>>
  BY <1>1, SilentPart, SaidNothing
<1>4. Said(s) = Said(p) \o <<>> /\ Said(p) \in Seq(Chunk)
  <2>1. Said(p \o e) = Said(p) \o Said(e)
    BY SaidConcat
  <2>2. Said(p) \in Seq(Chunk)
    BY SaidType
  <2>3. QED
    BY <1>1, <1>3, <2>1, <2>2
<1>5. Said(s) = Said(p)
  BY <1>4, ConcatEmptySeq
<1>6. QED
  BY <1>2, <1>5

(* An attempt that is repeated takes nothing from the screen a client could use. *)
LEMMA ResetKeepsSaid ==
  ASSUME LoopTyped, EmittedInv, Reset
  PROVE  /\ Said(shown'.content) = Said(shown.content)
         /\ Said(shown'.reasoning) = Said(shown.reasoning)
<1>1. pc = "streaming" /\ end = "retry"
  BY DEF Reset, AtEnd
<1>2. ~HasOutput(got) /\ ShownOf(shown, emitted, got)
  BY <1>1 DEF EmittedInv
<1>3. /\ shown.content \in Seq(Chunk) /\ shown.reasoning \in Seq(Chunk)
      /\ emitted.content \in Nat /\ emitted.reasoning \in Nat
  BY DEF LoopTyped, StreamTyped
<1>4. Said(DropLast(shown.content, emitted.content)) = Said(shown.content)
  BY <1>2, <1>3, DropSilent DEF ShownOf
<1>5. Said(DropLast(shown.reasoning, emitted.reasoning)) = Said(shown.reasoning)
  BY <1>2, <1>3, DropSilent DEF ShownOf
<1>6. QED
  BY <1>4, <1>5 DEF Reset

(* No step takes back what was said. *)
LEMMA NothingWithdrawn ==
  ASSUME LoopTyped, EmittedInv, [Next]_vars
  PROVE  /\ IsPrefix(Said(shown.content), Said(shown'.content))
         /\ IsPrefix(Said(shown.reasoning), Said(shown'.reasoning))
<1>1. /\ shown.content \in Seq(Chunk) /\ shown.reasoning \in Seq(Chunk)
      /\ Said(shown.content) \in Seq(Chunk) /\ Said(shown.reasoning) \in Seq(Chunk)
      /\ held \in Seq(Chunk) /\ wire \in Seq(Chunk)
  BY SaidType DEF LoopTyped, StreamTyped
<1> DEFINE Stays == /\ IsPrefix(Said(shown.content), Said(shown'.content))
                   /\ IsPrefix(Said(shown.reasoning), Said(shown'.reasoning))
<1>2. ASSUME UNCHANGED shown PROVE Stays
  BY <1>1, <1>2, SamePrefix
<1>3. ASSUME NEW s \in Seq(Chunk), Show(s) PROVE Stays
  <2>1. Content(s) \in Seq(Chunk) /\ Reasoning(s) \in Seq(Chunk)
    BY ContentType
  <2>2. /\ shown'.content = shown.content \o Content(s)
        /\ shown'.reasoning = shown.reasoning \o Reasoning(s)
    BY <1>3 DEF Show
  <2>3. QED
    BY <1>1, <2>1, <2>2, SaidPrefix
<1>4. ASSUME Take PROVE Stays
  <2>1. PICK c \in Chunk : c = Head(wire)
    BY <1>1, <1>4 DEF Take
  <2>2. Fed(c) \in Seq(Chunk) /\ <<c>> \in Seq(Chunk)
    BY <1>1, <2>1 DEF Fed
  <2>3. UNCHANGED shown \/ Show(held) \/ Show(Fed(c)) \/ Show(<<c>>)
    BY <1>4, <2>1 DEF Take
  <2>4. QED
    BY <1>1, <1>2, <1>3, <2>2, <2>3
<1>5. ASSUME Reset PROVE Stays
  BY <1>1, <1>5, ResetKeepsSaid, SamePrefix
<1>6. ASSUME TakeError \/ TakeMessage PROVE Stays
  BY <1>1, <1>3, <1>6 DEF TakeError, TakeMessage
<1>7. ASSUME Finish PROVE Stays
  <2>1. CASE UNCHANGED shown
    BY <1>2, <2>1
  <2>2. CASE shown' = [shown EXCEPT !.content = Append(@, Fallback)]
    <3>1. PICK t \in Seq(Chunk) : /\ t = <<Fallback>>
                                  /\ Append(shown.content, Fallback) = shown.content \o t
      <4>1. PICK f \in Chunk : f = Fallback
        BY FallbackType
      <4>2. Append(shown.content, f) = shown.content \o <<f>> /\ <<f>> \in Seq(Chunk)
        BY <1>1, AppendIsConcat
      <4>3. QED
        BY <4>1, <4>2
    <3>2. shown'.content = shown.content \o t /\ shown'.reasoning = shown.reasoning
      BY <2>2, <3>1 DEF LoopTyped, StreamTyped
    <3>3. QED
      BY <1>1, <3>2, SaidPrefix, SamePrefix
  <2>3. QED
    BY <1>7, <2>1, <2>2 DEF Finish
<1>8. QED
  BY <1>2, <1>4, <1>5, <1>6, <1>7
     DEF Next, vars, Provider, Loop, RawFails, RawStops, RawCanceled, ToolsRun, RawEnd, MemoryEnds,
         Prepare, Open, Backoff, NextTurn, Collected, JoinTasks, Conclude, ToolResult, ToolFails,
         ToolUnreadable, Cancel, Fire, RawChunk, MemoryOpen, MemoryChunk, stream

LoopInv == LoopTyped /\ HeldInv /\ GuardInv /\ EmittedInv

(* The invariant of the loop holds as a run begins. *)
LEMMA LoopInvInit == Init => LoopInv
<1>1. SUFFICES ASSUME Init PROVE LoopInv
  OBVIOUS
<1>2. HeldInv /\ Quiet /\ EmittedInv
  BY <1>1 DEF Init, HeldInv, Quiet, EmittedInv, HasOutput
<1>3. QED
  BY <1>1, <1>2, LoopTypedInit DEF LoopInv, GuardInv

(* Every step keeps the invariant of the loop. *)
LEMMA LoopInvNext == LoopInv /\ [Next]_vars => LoopInv'
BY LoopTypedNext, HeldNext, GuardNext, EmittedNext DEF LoopInv

(* The timer that fires before the first output has seen none: nothing a client   *)
(* could use had come from the provider, was on its way or had been shown; and    *)
(* nothing the client has seen is taken from its screen again, by a repeated      *)
(* attempt or otherwise (outputGate.fire, attempt_reset).                         *)
THEOREM OutputStaysFinal == Spec => OutputIsFinal
<1>1. Init => LoopInv
  BY LoopInvInit
<1>2. LoopInv /\ [Next]_vars => LoopInv'
  BY LoopInvNext
<1>3. LoopInv /\ [Next]_vars =>
        [gate'["run"].fired /\ ~gate["run"].fired =>
           /\ ~HasOutput(got \o wire) /\ Results = {}
           /\ Said(shown.content \o shown.reasoning) = <<>>]_vars
  BY FireIsSilent DEF LoopInv
<1>4. LoopInv /\ [Next]_vars =>
        [/\ IsPrefix(Said(shown.content), Said(shown'.content))
         /\ IsPrefix(Said(shown.reasoning), Said(shown'.reasoning))]_vars
  BY NothingWithdrawn DEF LoopInv
<1>5. QED
  BY <1>1, <1>2, <1>3, <1>4, PTL
     DEF Spec, OutputIsFinal, TimeoutMeansSilence, OutputIsNeverWithdrawn

-----------------------------------------------------------------------------
(* Calls and their results *)

Whole(ms) == \A i \in DOMAIN ms : Complete(ms, i, FALSE)

IdsBefore(ms, n) == \A j \in DOMAIN ms : ms[j].role = "tool" => ms[j].id \in Chunk /\ ms[j].id.t < n

OfTurn(s) == \A c \in Range(s) : c.t = turn

(* The calls of a message are at work: what follows it are their results.         *)
AtWork(ms, s) ==
  \E l \in DOMAIN ms :
    /\ ms[l] = Message(s)
    /\ \A i \in DOMAIN ms : i < l => Complete(ms, i, FALSE)
    /\ \A j \in DOMAIN ms : j > l => ms[j].role = "tool"
    /\ \A j \in DOMAIN ms : j < l /\ ms[j].role = "tool" => ms[j].id \in Chunk /\ ms[j].id.t < turn

CallsInv ==
  /\ pc \in {"setup", "open", "streaming", "backoff", "answered"} => Whole(produced)
  /\ pc \in {"setup", "open", "streaming", "backoff"} => IdsBefore(produced, turn)
  /\ pc = "streaming" => OfTurn(got) /\ OfTurn(wire)
  /\ pc = "tools" => OfTurn(got) /\ CallsIn(got) # {} /\ AtWork(produced, got)
  /\ pc = "tools" => \A j \in DOMAIN produced :
       produced[j].role = "tool" => produced[j].id \in Chunk /\ produced[j].id.t <= turn

KindInv ==
  /\ kind = "compact" => produced = <<>> /\ got = <<>>
  /\ pc \in {"compacted", "uncompacted"} => kind = "compact"
  /\ pc = "setup" => produced = <<>>

(* An answered call stays answered. *)
LEMMA CompleteStays ==
  ASSUME NEW ms \in Seq(Msg), NEW m \in Msg, NEW i \in DOMAIN ms, Complete(ms, i, FALSE)
  PROVE  Complete(Append(ms, m), i, FALSE)
<1> DEFINE r == Append(ms, m)
           N == Len(ms)
<1>1. N \in Nat /\ Len(r) = N + 1 /\ i \in 1 .. N /\ \A j \in 1 .. N : r[j] = ms[j]
  OBVIOUS
<1> HIDE DEF r, N
<1>2. r[i] = ms[i]
  BY <1>1
<1>3. Answered(ms[i], i, ms) \subseteq Answered(r[i], i, r)
  <2>1. SUFFICES ASSUME NEW c \in Answered(ms[i], i, ms) PROVE c \in Answered(r[i], i, r)
    OBVIOUS
  <2>2. PICK j \in i + 1 .. N : ms[j].id = c /\ \A l \in i + 1 .. j : ms[l].role = "tool"
    BY <2>1 DEF Answered, N
  <2>3. j \in i + 1 .. Len(r) /\ \A l \in i + 1 .. j : l \in 1 .. N
    BY <1>1, <2>2
  <2>4. r[j].id = c /\ \A l \in i + 1 .. j : r[l].role = "tool"
    BY <1>1, <2>2, <2>3
  <2>5. c \in r[i].calls
    BY <1>2, <2>1 DEF Answered
  <2>6. QED
    BY <2>3, <2>4, <2>5 DEF Answered
<1>4. QED
  BY <1>2, <1>3 DEF Complete, HasAnswers, r

(* A message without calls leaves nothing unanswered. *)
LEMMA WholeAppends ==
  ASSUME NEW ms \in Seq(Msg), Whole(ms), NEW m \in Msg, m.calls = {}
  PROVE  Whole(Append(ms, m))
<1>1. ASSUME NEW i \in DOMAIN Append(ms, m) PROVE Complete(Append(ms, m), i, FALSE)
  <2>1. CASE i \in DOMAIN ms
    BY <2>1, CompleteStays DEF Whole
  <2>2. CASE i \notin DOMAIN ms
    <3>1. Append(ms, m)[i] = m
      BY <2>2
    <3>2. QED
      BY <3>1 DEF Complete
  <2>3. QED
    BY <2>1, <2>2
<1>2. QED
  BY <1>1 DEF Whole

(* Every call of the turn has its result: the message's are among them.           *)
LEMMA ResultsComplete ==
  ASSUME LoopTyped, CallsInv, pc = "tools", CallsIn(got) \subseteq Results
  PROVE  Whole(produced) /\ IdsBefore(produced, turn + 1)
<1>1. PICK l \in DOMAIN produced :
        /\ produced[l] = Message(got)
        /\ \A i \in DOMAIN produced : i < l => Complete(produced, i, FALSE)
        /\ \A j \in DOMAIN produced : j > l => produced[j].role = "tool"
        /\ \A j \in DOMAIN produced :
             j < l /\ produced[j].role = "tool" => produced[j].id \in Chunk /\ produced[j].id.t < turn
  BY DEF CallsInv, AtWork
<1>2. /\ got \in Seq(Chunk) /\ produced \in Seq(Msg) /\ turn \in Nat
      /\ DOMAIN produced = 1 .. Len(produced) /\ Len(produced) \in Nat
  BY DEF LoopTyped, StreamTyped, StoreTyped
<1>3. /\ produced[l].role = "assistant" /\ produced[l].calls = CallsIn(got)
  BY <1>1, <1>2, MessageFacts
<1>4. PICK c \in CallsIn(got) : c \in Results /\ c.t = turn
  BY <1>2, CallsInFacts DEF CallsInv, OfTurn
<1>5. PICK j \in DOMAIN produced : produced[j].role = "tool" /\ produced[j].id = c
  BY <1>4 DEF Results
<1>6. j > l
  BY <1>1, <1>2, <1>3, <1>4, <1>5
<1>7. c \in Answered(produced[l], l, produced)
  <2>1. j \in l + 1 .. Len(produced)
    BY <1>2, <1>6
  <2>2. \A k \in l + 1 .. j : k \in DOMAIN produced /\ k > l
    BY <1>2, <2>1
  <2>3. \A k \in l + 1 .. j : produced[k].role = "tool"
    BY <1>1, <2>2
  <2>4. QED
    BY <1>3, <1>5, <2>1, <2>3 DEF Answered
<1>8. ASSUME NEW i \in DOMAIN produced PROVE Complete(produced, i, FALSE)
  <2>1. CASE i < l
    BY <1>1, <2>1
  <2>2. CASE i = l
    BY <1>7, <2>2 DEF Complete, HasAnswers
  <2>3. CASE i > l
    <3>1. produced[i].role = "tool" /\ produced[i] \in Msg
      BY <1>1, <1>2, <2>3
    <3>2. QED
      BY <3>1, MsgFacts DEF Complete
  <2>4. i \in Nat /\ l \in Nat
    BY <1>2
  <2>5. i < l \/ i = l \/ i > l
    BY <2>4
  <2>6. QED
    BY <2>1, <2>2, <2>3, <2>5
<1>9. IdsBefore(produced, turn + 1)
  <2>1. ASSUME NEW i \in DOMAIN produced, produced[i].role = "tool"
        PROVE  produced[i].id \in Chunk /\ produced[i].id.t < turn + 1
    <3>1. produced[i].id \in Chunk /\ produced[i].id.t <= turn
      BY <2>1 DEF CallsInv
    <3>2. produced[i].id.t \in Nat
      BY <3>1 DEF Chunk
    <3>3. QED
      BY <1>2, <3>1, <3>2
  <2>2. QED
    BY <2>1 DEF IdsBefore
<1>10. QED
  BY <1>8, <1>9 DEF Whole

(* A compression has no turns, and only it has tasks. *)
LEMMA KindNext ==
  ASSUME LoopTyped, KindInv, [Next]_vars PROVE KindInv'
<1>1. ASSUME UNCHANGED <<kind, produced>>, got' = got \/ got' = <<>>,
             pc' \in {pc, "open", "streaming", "backoff", "answered", "tools", "return", "over"}
      PROVE  KindInv'
  BY <1>1 DEF KindInv
<1>2. ASSUME Collected PROVE KindInv'
  BY <1>2 DEF Collected, KindInv, stream
<1>3. ASSUME kind = "chat", kind' = kind,
             pc' \in {"streaming", "return", "tools", "answered"} PROVE KindInv'
  BY <1>3 DEF KindInv
<1>4. ASSUME Take \/ TakeError \/ TakeMessage PROVE KindInv'
  BY <1>3, <1>4 DEF Take, TakeError, TakeMessage, Break, Respond
<1>5. ASSUME NEW c \in CallsIn(got), ToolResult(c) PROVE KindInv'
  <2>1. got # <<>>
    BY DEF CallsIn
  <2>2. kind = "chat"
    BY <2>1 DEF KindInv, LoopTyped
  <2>3. QED
    BY <1>3, <1>5, <2>2 DEF ToolResult
<1>6. QED
  BY <1>1, <1>2, <1>4, <1>5
     DEF Next, vars, Provider, Loop, RawFails, RawStops, RawCanceled, ToolsRun, RawEnd, MemoryEnds,
         Prepare, Open, Reset, Backoff, NextTurn, Finish, JoinTasks, Conclude, ToolFails,
         ToolUnreadable, Cancel, Fire, RawChunk, MemoryOpen, MemoryChunk, stream, NewStream, Break,
         Respond

(* One more element is one more of the elements. *)
LEMMA RangeAppends ==
  ASSUME NEW S, NEW s \in Seq(S), NEW c \in S PROVE Range(Append(s, c)) = Range(s) \cup {c}
<1>1. Append(s, c) = s \o <<c>>
  BY AppendIsConcat
<1>2. <<c>> \in Seq(S) /\ Range(<<c>>) = {c}
  BY DEF Range
<1>3. Range(s \o <<c>>) = Range(s) \cup Range(<<c>>)
  BY <1>2, RangeConcatenation, ZenonT(60)
<1>4. QED
  BY <1>1, <1>2, <1>3

(* The chunks of an attempt are of its turn. *)
LEMMA OfTurnStays ==
  ASSUME LoopTyped, NEW s \in Seq(Chunk), OfTurn(s), NEW c \in Chunk, c.t = turn
  PROVE  OfTurn(Append(s, c))
<1>1. Range(Append(s, c)) = Range(s) \cup {c}
  BY RangeAppends
<1>2. QED
  BY <1>1 DEF OfTurn

(* A new message of the turn is at work.                                          *)
LEMMA MessageAtWork ==
  ASSUME LoopTyped, Whole(produced), IdsBefore(produced, turn), NEW s \in Seq(Chunk), OfTurn(s),
         NEW ms, ms = Append(produced, Message(s))
  PROVE  /\ AtWork(ms, s)
         /\ \A j \in DOMAIN ms : ms[j].role = "tool" => ms[j].id \in Chunk /\ ms[j].id.t <= turn
<1>1. produced \in Seq(Msg) /\ Message(s) \in Msg /\ Message(s).role = "assistant"
      /\ turn \in Nat
  BY MessageFacts DEF LoopTyped, StoreTyped
<1> DEFINE l == Len(produced) + 1
<1>2. PICK m \in Msg : m = Message(s)
  BY <1>1
<1>3. /\ DOMAIN ms = 1 .. l /\ l \in DOMAIN ms /\ ms[l] = m /\ DOMAIN produced = 1 .. l - 1
      /\ \A i \in DOMAIN ms : i # l => i < l /\ i \in DOMAIN produced /\ ms[i] = produced[i]
      /\ \A i \in DOMAIN ms : i \in Nat /\ ~(i < i)
      /\ l \in Nat /\ ~(l < l)
  BY <1>1, <1>2
<1> HIDE DEF l
<1>4. \A i \in DOMAIN ms : i < l => Complete(ms, i, FALSE)
  <2>1. ASSUME NEW i \in DOMAIN ms, i < l PROVE Complete(ms, i, FALSE)
    <3>1. i \in DOMAIN produced
      BY <1>3, <2>1
    <3>2. Complete(produced, i, FALSE)
      BY <3>1 DEF Whole
    <3>3. QED
      BY <1>1, <1>2, <3>1, <3>2, CompleteStays
  <2>2. QED
    BY <2>1
<1>5. \A j \in DOMAIN ms : ms[j].role = "tool" => j # l /\ j \in DOMAIN produced /\ ms[j] = produced[j]
  BY <1>1, <1>2, <1>3
<1>6. ASSUME NEW j \in DOMAIN ms, ms[j].role = "tool" PROVE ms[j].id \in Chunk /\ ms[j].id.t < turn
  BY <1>5, <1>6 DEF IdsBefore
<1>7. \A j \in DOMAIN ms : ~(j > l)
  <2>1. ASSUME NEW j \in DOMAIN ms PROVE ~(j > l)
    <3>1. j \in 1 .. l
      BY <1>3
    <3>2. QED
      BY <1>3, <3>1
  <2>2. QED
    BY <2>1
<1>8. AtWork(ms, s)
  BY <1>2, <1>3, <1>4, <1>6, <1>7 DEF AtWork
<1>9. ASSUME NEW j \in DOMAIN ms, ms[j].role = "tool" PROVE ms[j].id \in Chunk /\ ms[j].id.t <= turn
  <2>1. ms[j].id \in Chunk /\ ms[j].id.t < turn
    BY <1>6, <1>9
  <2>2. ms[j].id.t \in Nat
    BY <2>1 DEF Chunk
  <2>3. QED
    BY <1>1, <2>1, <2>2
<1>10. QED
  BY <1>8, <1>9

(* A result leaves the message at work. *)
LEMMA ResultAtWork ==
  ASSUME LoopTyped, AtWork(produced, got), NEW c \in Chunk
  PROVE  AtWork(Append(produced, ToolMessage(c)), got)
<1>1. produced \in Seq(Msg) /\ ToolMessage(c) \in Msg /\ ToolMessage(c).role = "tool"
  BY ToolMessageFacts DEF LoopTyped, StoreTyped
<1>2. PICK m \in Msg : m = ToolMessage(c)
  BY <1>1
<1>3. PICK ms \in Seq(Msg) : ms = Append(produced, m)
  <2>1. Append(produced, m) \in Seq(Msg)
    BY <1>1
  <2>2. QED
    BY <2>1
<1>4. /\ \A i \in DOMAIN ms : (i \in DOMAIN produced /\ ms[i] = produced[i]) \/ (ms[i] = m /\ i = Len(produced) + 1)
      /\ \A i \in DOMAIN produced : i \in DOMAIN ms /\ ms[i] = produced[i]
      /\ \A i \in DOMAIN produced : i < Len(produced) + 1 /\ ~(Len(produced) + 1 < i)
  <2> DEFINE n == Len(produced)
  <2>1. n \in Nat /\ DOMAIN produced = 1 .. n
    BY <1>1
  <2>2. /\ DOMAIN ms = 1 .. n + 1 /\ ms[n + 1] = m
        /\ \A i \in 1 .. n : ms[i] = produced[i]
    BY <1>1, <1>3
  <2> HIDE DEF n
  <2>3. \A i : (i \in 1 .. n + 1 <=> i \in 1 .. n \/ i = n + 1) /\ (i \in 1 .. n => i < n + 1 /\ ~(n + 1 < i))
    BY <2>1
  <2>4. /\ \A i \in DOMAIN ms : (i \in DOMAIN produced /\ ms[i] = produced[i]) \/ (ms[i] = m /\ i = n + 1)
        /\ \A i \in DOMAIN produced : i \in DOMAIN ms /\ ms[i] = produced[i]
        /\ \A i \in DOMAIN produced : i < n + 1 /\ ~(n + 1 < i)
    <3>1. \A i \in DOMAIN ms : i \in DOMAIN produced \/ i = n + 1
      BY <2>1, <2>2, <2>3
    <3>2. \A i \in DOMAIN produced : i \in DOMAIN ms /\ ms[i] = produced[i] /\ i < n + 1 /\ ~(n + 1 < i)
      BY <2>1, <2>2, <2>3
    <3>3. ms[n + 1] = m
      BY <2>2
    <3>4. \A i \in DOMAIN ms : (i \in DOMAIN produced /\ ms[i] = produced[i]) \/ (ms[i] = m /\ i = n + 1)
      BY <3>1, <3>2, <3>3, Zenon
    <3>5. QED
      BY <3>2, <3>4, Zenon
  <2>5. QED
    BY <2>4 DEF n
<1>5. PICK l \in DOMAIN produced :
        /\ produced[l] = Message(got)
        /\ \A i \in DOMAIN produced : i < l => Complete(produced, i, FALSE)
        /\ \A j \in DOMAIN produced : j > l => produced[j].role = "tool"
        /\ \A j \in DOMAIN produced :
             j < l /\ produced[j].role = "tool" => produced[j].id \in Chunk /\ produced[j].id.t < turn
  BY DEF AtWork
<1>6. l \in DOMAIN ms /\ ms[l] = Message(got)
  BY <1>4, <1>5
<1>7. \A i \in DOMAIN ms : i < l => i \in DOMAIN produced /\ ms[i] = produced[i]
  BY <1>4, <1>5
<1>8. ASSUME NEW i \in DOMAIN ms, i < l PROVE Complete(ms, i, FALSE)
  <2>1. i \in DOMAIN produced /\ Complete(produced, i, FALSE)
    BY <1>5, <1>7, <1>8
  <2>2. QED
    BY <1>1, <1>3, <2>1, CompleteStays
<1>9. \A j \in DOMAIN ms : j > l => ms[j].role = "tool"
  BY <1>1, <1>2, <1>4, <1>5
<1>10. \A j \in DOMAIN ms : j < l /\ ms[j].role = "tool" => ms[j].id \in Chunk /\ ms[j].id.t < turn
  BY <1>5, <1>7
<1>11. AtWork(ms, got)
  BY <1>6, <1>8, <1>9, <1>10 DEF AtWork
<1>12. QED
  BY <1>2, <1>3, <1>11

(* Every step keeps the calls with their results. *)
LEMMA CallsNext ==
  ASSUME LoopTyped, CallsInv, [Next]_vars PROVE CallsInv'
<1>1. /\ got \in Seq(Chunk) /\ wire \in Seq(Chunk) /\ produced \in Seq(Msg)
      /\ turn \in Nat /\ attempt \in Nat
  BY DEF LoopTyped, StreamTyped, StoreTyped
<1>2. ASSUME UNCHANGED <<produced, turn, got, wire>>, pc' = pc PROVE CallsInv'
  BY <1>2 DEF CallsInv, OfTurn, AtWork
<1>3. ASSUME pc' \in {"compacted", "uncompacted", "return", "over"} PROVE CallsInv'
  BY <1>3 DEF CallsInv
<1>4. ASSUME pc \in {"setup", "open", "streaming", "backoff"}, pc' \in {"setup", "open", "backoff"},
             UNCHANGED <<produced, turn>> PROVE CallsInv'
  BY <1>4 DEF CallsInv
<1>5. ASSUME Open PROVE CallsInv'
  <2>1. /\ pc = "open" /\ pc' = "streaming" /\ got' = <<>>
        /\ wire' = <<>> /\ UNCHANGED <<produced, turn>>
    BY <1>5 DEF Open, NewStream
  <2>2. OfTurn(got)' /\ OfTurn(wire)'
    <3>1. Range(<<>>) = {}
      BY DEF Range
    <3>2. QED
      BY <2>1, <3>1 DEF OfTurn
  <2>3. QED
    BY <2>1, <2>2 DEF CallsInv
<1>6. ASSUME NEW k \in ChunkKinds, RawChunk(k) PROVE CallsInv'
  <2>1. PICK c \in Chunk : c.t = turn /\ wire' = Append(wire, c)
    <3>1. Len(got) + Len(wire) \in Nat
      BY <1>1
    <3>2. [t |-> turn, a |-> attempt, i |-> Len(got) + Len(wire), k |-> k] \in Chunk
      BY <1>1, <3>1 DEF Chunk
    <3>3. QED
      BY <1>6, <3>2 DEF RawChunk
  <2>2. pc = "streaming" /\ pc' = pc /\ UNCHANGED <<produced, turn, got>>
    BY <1>6 DEF RawChunk
  <2>3. OfTurn(wire) /\ OfTurn(got)
    BY <2>2 DEF CallsInv
  <2>4. OfTurn(Append(wire, c))
    BY <1>1, <2>1, <2>3, OfTurnStays
  <2>5. QED
    BY <2>1, <2>2, <2>3, <2>4 DEF CallsInv, OfTurn
<1>7. ASSUME Take, pc' \notin {"return"} PROVE CallsInv'
  <2>1. PICK c \in Chunk : c = Head(wire) /\ c \in Range(wire)
    <3>1. Head(wire) \in Chunk /\ Head(wire) \in Range(wire)
      BY <1>1, <1>7 DEF Take, Range
    <3>2. QED
      BY <3>1
  <2>2. pc = "streaming" /\ got' = Append(got, c) /\ wire' = Tail(wire) /\ turn' = turn
    BY <1>7, <2>1 DEF Take
  <2>3. UNCHANGED <<pc, produced>>
    BY <1>7 DEF Take, Break, Respond
  <2>4. OfTurn(wire) /\ OfTurn(got)
    BY <2>2 DEF CallsInv
  <2>5. Range(Tail(wire)) \subseteq Range(wire)
    BY <1>1, <1>7 DEF Take, Range
  <2>6. OfTurn(Append(got, c))
    BY <1>1, <2>1, <2>4, OfTurnStays DEF OfTurn
  <2>7. QED
    BY <2>2, <2>3, <2>4, <2>5, <2>6 DEF CallsInv, OfTurn
<1>8. ASSUME TakeMessage PROVE CallsInv'
  <2>1. /\ pc = "streaming" /\ UNCHANGED <<got, turn>> /\ produced' = WithPartial(got)
        /\ pc' = IF CallsIn(got) # {} THEN "tools" ELSE "answered"
    BY <1>8 DEF TakeMessage, AtEnd
  <2>2. Whole(produced) /\ IdsBefore(produced, turn) /\ OfTurn(got)
    BY <2>1 DEF CallsInv
  <2>3. CASE CallsIn(got) = {}
    <3>1. Whole(produced')
      <4>1. CASE got = <<>>
        BY <2>1, <2>2, <4>1 DEF WithPartial
      <4>2. CASE got # <<>>
        <5>1. produced' = Append(produced, Message(got))
          BY <2>1, <4>2 DEF WithPartial
        <5>2. QED
          BY <1>1, <2>2, <2>3, <5>1, MessageFacts, WholeAppends
      <4>3. QED
        BY <4>1, <4>2
    <3>2. QED
      BY <2>1, <2>3, <3>1 DEF CallsInv
  <2>4. CASE CallsIn(got) # {}
    <3>1. got # <<>>
      BY <2>4 DEF CallsIn
    <3>2. produced' = Append(produced, Message(got))
      BY <2>1, <3>1 DEF WithPartial
    <3>3. /\ AtWork(produced', got)
          /\ \A j \in DOMAIN produced' :
               produced'[j].role = "tool" => produced'[j].id \in Chunk /\ produced'[j].id.t <= turn
      BY <1>1, <2>2, <3>2, MessageAtWork
    <3>4. AtWork(produced, got)'
      BY <2>1, <3>3 DEF AtWork
    <3>5. OfTurn(got)' /\ CallsIn(got') # {}
      BY <2>1, <2>2, <2>4 DEF OfTurn
    <3>6. QED
      BY <2>1, <2>4, <3>3, <3>4, <3>5 DEF CallsInv
  <2>5. QED
    BY <2>3, <2>4
<1>9. ASSUME NEW c \in CallsIn(got), ToolResult(c) PROVE CallsInv'
  <2>1. /\ pc = "tools" /\ pc' = pc
        /\ UNCHANGED <<got, turn>> /\ produced' = Append(produced, ToolMessage(c))
    BY <1>9 DEF ToolResult, stream
  <2>2. /\ OfTurn(got) /\ CallsIn(got) # {} /\ AtWork(produced, got)
        /\ \A j \in DOMAIN produced :
             produced[j].role = "tool" => produced[j].id \in Chunk /\ produced[j].id.t <= turn
    BY <2>1 DEF CallsInv
  <2>3. c \in Chunk /\ c.t = turn
    BY <1>1, <2>2, CallsInFacts DEF OfTurn
  <2>4. AtWork(produced', got)
    BY <2>1, <2>2, <2>3, ResultAtWork
  <2>5. AtWork(produced, got)' /\ OfTurn(got)' /\ CallsIn(got') # {}
    BY <2>1, <2>2, <2>4 DEF AtWork, OfTurn
  <2>6. ASSUME NEW j \in DOMAIN produced', produced'[j].role = "tool"
        PROVE  produced'[j].id \in Chunk /\ produced'[j].id.t <= turn
    <3>1. PICK m : m = ToolMessage(c) /\ m \in Msg /\ m.id = c
      BY <2>3, ToolMessageFacts
    <3>2. produced' = Append(produced, m)
      BY <2>1, <3>1
    <3>3. (j \in DOMAIN produced /\ produced'[j] = produced[j]) \/ produced'[j] = m
      BY <1>1, <3>1, <3>2
    <3>4. CASE produced'[j] = m
      <4>1. turn <= turn
        BY <1>1
      <4>2. QED
        BY <2>3, <3>1, <3>4, <4>1
    <3>5. CASE j \in DOMAIN produced /\ produced'[j] = produced[j]
      BY <2>2, <2>6, <3>5
    <3>6. QED
      BY <3>3, <3>4, <3>5
  <2>7. QED
    BY <2>1, <2>5, <2>6 DEF CallsInv
<1>10. ASSUME NextTurn, pc' # "return" PROVE CallsInv'
  <2>1. /\ pc = "tools" /\ pc' = "open" /\ turn' = turn + 1 /\ produced' = produced
        /\ CallsIn(got) \subseteq Results
    BY <1>10 DEF NextTurn, Break, Respond
  <2>2. Whole(produced) /\ IdsBefore(produced, turn + 1)
    BY <2>1, ResultsComplete
  <2>3. QED
    BY <2>1, <2>2 DEF CallsInv
<1>11. ASSUME Reset PROVE CallsInv'
  BY <1>4, <1>11 DEF Reset, AtEnd
<1>12. ASSUME Prepare \/ Backoff PROVE CallsInv'
  BY <1>3, <1>4, <1>12 DEF Prepare, Backoff, Break, Respond
<1>13. ASSUME TakeError \/ Finish \/ Collected \/ JoinTasks \/ Conclude \/ ToolFails \/ ToolUnreadable
       PROVE  CallsInv'
  BY <1>3, <1>13
     DEF TakeError, Finish, Collected, JoinTasks, Conclude, ToolFails, ToolUnreadable, Break, Respond
<1>14. ASSUME Take \/ NextTurn PROVE CallsInv'
  BY <1>3, <1>7, <1>10, <1>14
<1>15. ASSUME \/ RawFails \/ RawStops \/ RawCanceled \/ MemoryChunk \/ MemoryOpen \/ Fire
              \/ \E ok \in BOOLEAN : MemoryEnds(ok)
              \/ \E c \in {"stop", "deleted"} : Cancel(c)
              \/ UNCHANGED vars
       PROVE  CallsInv'
  BY <1>2, <1>15
     DEF vars, RawFails, RawStops, RawCanceled, RawEnd, MemoryChunk, MemoryOpen, Fire, MemoryEnds,
         Cancel, stream
<1>16. QED
  BY <1>5, <1>6, <1>8, <1>9, <1>11, <1>12, <1>13, <1>14, <1>15 DEF Next, Provider, Loop, ToolsRun

-----------------------------------------------------------------------------
(* The screen and the messages *)

(* What a message of these chunks says and thinks. *)
Say(s)   == Said(Content(s))
Think(s) == Range(Said(Reasoning(s)))

Equal(ms) ==
  Said(shown.content) = Spoken(ms) /\ Range(Said(shown.reasoning)) = Thought(ms)

Covers(ms) ==
  IsPrefix(Said(shown.content), Spoken(ms)) /\ Range(Said(shown.reasoning)) \subseteq Thought(ms)

(* The screen shows the turns so far and what the loop has of this attempt, and   *)
(* what is returned and stored covers it.                                         *)
ScreenInv ==
  /\ pc \in {"setup", "open", "backoff", "tools", "answered", "compacted", "uncompacted"} =>
       Equal(produced)
  /\ pc = "streaming" =>
       /\ Said(shown.content) = Spoken(produced) \o Say(got)
       /\ Range(Said(shown.reasoning)) = Thought(produced) \cup Think(got)
  /\ pc = "return" /\ ~lost =>
       /\ Covers(response.messages)
       /\ ~response.error /\ ~response.canceled => Equal(response.messages)
  /\ pc = "over" /\ cause # "deleted" /\ ~lost =>
       /\ Covers(stored)
       /\ outcome = "completed" => Equal(stored)

(* What a message would say are chunks. *)
LEMMA SayType ==
  ASSUME NEW s \in Seq(Chunk) PROVE Say(s) \in Seq(Chunk)
BY ContentType, SaidType DEF Say

(* What follows is said and thought as well. *)
LEMMA SayConcat ==
  ASSUME NEW s \in Seq(Chunk), NEW t \in Seq(Chunk)
  PROVE  Say(s \o t) = Say(s) \o Say(t) /\ Think(s \o t) = Think(s) \cup Think(t)
<1>1. Content(s \o t) = Content(s) \o Content(t) /\ Reasoning(s \o t) = Reasoning(s) \o Reasoning(t)
  BY OnlyConcat DEF Content, Reasoning
<1>2. /\ Content(s) \in Seq(Chunk) /\ Content(t) \in Seq(Chunk)
      /\ Reasoning(s) \in Seq(Chunk) /\ Reasoning(t) \in Seq(Chunk)
  BY ContentType
<1>3. Said(Content(s) \o Content(t)) = Said(Content(s)) \o Said(Content(t))
  BY <1>2, SaidConcat
<1>4. /\ Said(Reasoning(s) \o Reasoning(t)) = Said(Reasoning(s)) \o Said(Reasoning(t))
      /\ Said(Reasoning(s)) \in Seq(Chunk) /\ Said(Reasoning(t)) \in Seq(Chunk)
  BY <1>2, SaidConcat, SaidType
<1>5. Range(Said(Reasoning(s)) \o Said(Reasoning(t)))
        = Range(Said(Reasoning(s))) \cup Range(Said(Reasoning(t)))
  BY <1>4, RangeConcatenation
<1>6. QED
  BY <1>1, <1>3, <1>4, <1>5 DEF Say, Think

(* Silence is neither said nor thought. *)
LEMMA SaySilent ==
  ASSUME NEW s \in Seq(Chunk), ~HasOutput(s)
  PROVE  Say(s) = <<>> /\ Think(s) = {}
<1>1. ~HasOutput(Content(s)) /\ ~HasOutput(Reasoning(s))
  BY SilentKinds
<1>2. Said(Content(s)) = <<>> /\ Said(Reasoning(s)) = <<>>
  BY <1>1, ContentType, SaidNothing
<1>3. Range(<<>>) = {}
  BY DEF Range
<1>4. QED
  BY <1>2, <1>3 DEF Say, Think

(* Showing chunks adds what they say and think to the screen. *)
LEMMA ShowSays ==
  ASSUME StreamTyped, NEW s \in Seq(Chunk), Show(s)
  PROVE  /\ Said(shown'.content) = Said(shown.content) \o Say(s)
         /\ Range(Said(shown'.reasoning)) = Range(Said(shown.reasoning)) \cup Think(s)
<1>1. /\ shown.content \in Seq(Chunk) /\ shown.reasoning \in Seq(Chunk)
      /\ Content(s) \in Seq(Chunk) /\ Reasoning(s) \in Seq(Chunk)
  BY ContentType DEF StreamTyped
<1>2. /\ shown'.content = shown.content \o Content(s)
      /\ shown'.reasoning = shown.reasoning \o Reasoning(s)
  BY DEF Show
<1>3. Said(shown'.content) = Said(shown.content) \o Say(s)
  BY <1>1, <1>2, SaidConcat, ZenonT(60) DEF Say
<1>4. /\ Said(shown'.reasoning) = Said(shown.reasoning) \o Said(Reasoning(s))
      /\ Said(shown.reasoning) \in Seq(Chunk) /\ Said(Reasoning(s)) \in Seq(Chunk)
  BY <1>1, <1>2, SaidConcat, SaidType, ZenonT(60)
<1>5. Range(Said(shown.reasoning) \o Said(Reasoning(s)))
        = Range(Said(shown.reasoning)) \cup Range(Said(Reasoning(s)))
  BY <1>4, RangeConcatenation
<1>6. QED
  BY <1>3, <1>4, <1>5 DEF Think

(* The messages with that of the chunks, if there are any, say and think both.    *)
LEMMA PartialSays ==
  ASSUME LoopTyped, NEW s \in Seq(Chunk)
  PROVE  /\ WithPartial(s) \in Seq(Msg)
         /\ Spoken(WithPartial(s)) = Spoken(produced) \o Say(s)
         /\ Thought(WithPartial(s)) = Thought(produced) \cup Think(s)
<1>1. produced \in Seq(Msg) /\ Message(s) \in Msg
  BY MessageFacts DEF LoopTyped, StoreTyped
<1>2. CASE s = <<>>
  <2>1. Say(s) = <<>> /\ Think(s) = {}
    <3>1. ~HasOutput(s)
      BY <1>2 DEF HasOutput
    <3>2. QED
      BY <3>1, SaySilent
  <2>2. Spoken(produced) \o <<>> = Spoken(produced)
    BY <1>1, SpokenType, ConcatEmptySeq
  <2>3. QED
    BY <1>1, <1>2, <2>1, <2>2 DEF WithPartial
<1>3. CASE s # <<>>
  <2>1. WithPartial(s) = Append(produced, Message(s))
    BY <1>3 DEF WithPartial
  <2>2. Spoken(Append(produced, Message(s))) = Spoken(produced) \o Say(s)
    BY <1>1, SpokenAppends, MessageFacts DEF Say
  <2>3. Thought(Append(produced, Message(s))) = Thought(produced) \cup Think(s)
    <3>1. Thought(Append(produced, Message(s)))
            = Thought(produced) \cup {c \in Chunk : c.k \in Voice /\ c \in Range(Reasoning(s))}
      BY <1>1, ThoughtAppends, MessageFacts
    <3>2. Reasoning(s) \in Seq(Chunk)
      BY ContentType
    <3>3. /\ Range(Said(Reasoning(s))) = {c \in Range(Reasoning(s)) : c.k \in Voice}
          /\ Range(Reasoning(s)) \subseteq Chunk
      BY <3>2, OnlyElements, RangeOfSeq DEF Said, Voice
    <3>4. QED
      BY <3>1, <3>3 DEF Think
  <2>4. Append(produced, Message(s)) \in Seq(Msg)
    BY <1>1
  <2>5. QED
    BY <2>1, <2>2, <2>3, <2>4
<1>4. QED
  BY <1>2, <1>3

(* Leaving the loop early loses nothing of the messages, and is no completion.    *)
LEMMA BreakSays ==
  ASSUME NEW ms \in Seq(Msg), Break(ms)
  PROVE  /\ pc' = "return" /\ (response'.error \/ response'.canceled)
         /\ Spoken(response'.messages) = Spoken(ms) /\ Thought(response'.messages) = Thought(ms)
<1>1. /\ response'.messages = Canonical(ms, TRUE) /\ pc' = "return"
      /\ (response'.error \/ response'.canceled)
  <2> DEFINE cs == Canonical(ms, TRUE)
  <2>1. \/ response' = [messages |-> cs, error |-> FALSE, canceled |-> TRUE]
        \/ response' = [messages |-> cs, error |-> TRUE, canceled |-> FALSE]
    BY DEF Break, Respond
  <2>2. pc' = "return"
    BY DEF Break, Respond
  <2> HIDE DEF cs
  <2>3. response'.messages = cs /\ (response'.error \/ response'.canceled)
    BY <2>1
  <2>4. QED
    BY <2>2, <2>3 DEF cs
<1>2. \A i \in DOMAIN ms : Complete(ms, i, TRUE)
  BY DEF Complete
<1>3. /\ Spoken(Canonical(ms, TRUE)) = Spoken(ms)
      /\ Thought(Canonical(ms, TRUE)) = Thought(ms)
  BY <1>2, CanonicalFacts
<1>4. QED
  BY <1>1, <1>3

(* What leaves the loop early covers the screen. *)
LEMMA BreakCovers ==
  ASSUME NEW ms \in Seq(Msg), Break(ms),
         IsPrefix(Said(shown'.content), Spoken(ms)),
         Range(Said(shown'.reasoning)) \subseteq Thought(ms)
  PROVE  ScreenInv'
<1>1. /\ pc' = "return" /\ (response'.error \/ response'.canceled)
      /\ Spoken(response'.messages) = Spoken(ms) /\ Thought(response'.messages) = Thought(ms)
  BY BreakSays
<1>2. Covers(response.messages)'
  BY <1>1 DEF Covers
<1>3. QED
  BY <1>1, <1>2 DEF ScreenInv

(* The same of what equals it. *)
LEMMA BreakEqual ==
  ASSUME NEW ms \in Seq(Msg), Break(ms),
         Said(shown'.content) = Spoken(ms), Range(Said(shown'.reasoning)) = Thought(ms)
  PROVE  ScreenInv'
<1>1. IsPrefix(Said(shown'.content), Spoken(ms))
  BY SpokenType, SamePrefix
<1>2. QED
  BY <1>1, BreakCovers

(* What was held back is white space. *)
LEMMA HeldSays ==
  ASSUME LoopTyped, HeldInv, Show(held)
  PROVE  /\ Said(shown'.content) = Said(shown.content)
         /\ Range(Said(shown'.reasoning)) = Range(Said(shown.reasoning))
<1>1. StreamTyped /\ held \in Seq(Chunk) /\ Said(shown.content) \in Seq(Chunk)
  BY SaidType DEF LoopTyped, StreamTyped
<1>2. Say(held) = <<>> /\ Think(held) = {}
  BY <1>1, HeldSilent, SaySilent
<1>3. Said(shown.content) \o <<>> = Said(shown.content)
  BY <1>1, ConcatEmptySeq
<1>4. QED
  BY <1>1, <1>2, <1>3, ShowSays

(* A chunk is shown, or it is white space that is held back. *)
LEMMA TakeSays ==
  ASSUME LoopTyped, HeldInv, ScreenInv, Take PROVE ScreenInv'
<1>1. /\ got \in Seq(Chunk) /\ wire \in Seq(Chunk) /\ held \in Seq(Chunk) /\ StreamTyped
      /\ Said(shown.content) \in Seq(Chunk)
  BY SaidType DEF LoopTyped, StreamTyped
<1>2. PICK c \in Chunk : c = Head(wire)
  BY <1>1 DEF Take
<1>3. PICK t \in Seq(Chunk) : t = <<c>>
  <2>1. <<c>> \in Seq(Chunk)
    BY <1>2
  <2>2. QED
    BY <2>1
<1>4. PICK s \in Seq(Chunk) : s = Append(got, c) /\ s = got \o t
  <2>1. Append(got, c) \in Seq(Chunk) /\ Append(got, c) = got \o t
    BY <1>1, <1>3, AppendIsConcat
  <2>2. QED
    BY <2>1
<1>5. pc = "streaming" /\ got' = s
  BY <1>2, <1>4 DEF Take
<1>6. /\ Said(shown.content) = Spoken(produced) \o Say(got)
      /\ Range(Said(shown.reasoning)) = Thought(produced) \cup Think(got)
  BY <1>5 DEF ScreenInv
<1>7. /\ Say(s) = Say(got) \o Say(t) /\ Think(s) = Think(got) \cup Think(t)
      /\ Say(got) \in Seq(Chunk) /\ Say(t) \in Seq(Chunk) /\ Spoken(produced) \in Seq(Chunk)
  BY <1>1, <1>4, SayConcat, SayType, SpokenType DEF LoopTyped, StoreTyped
<1>8. Spoken(produced) \o Say(s) = Said(shown.content) \o Say(t)
  <2>1. (Spoken(produced) \o Say(got)) \o Say(t) = Spoken(produced) \o (Say(got) \o Say(t))
    BY <1>7, ConcatAssociative, SMTT(30)
  <2>2. QED
    BY <1>6, <1>7, <2>1
<1>9. CASE Interrupted
  <2>1. Show(held) /\ produced' = WithPartial(s) /\ Break(produced')
    BY <1>2, <1>4, <1>9 DEF Take
  <2>2. PICK ms \in Seq(Msg) : /\ ms = produced'
                               /\ Spoken(ms) = Spoken(produced) \o Say(s)
                               /\ Thought(ms) = Thought(produced) \cup Think(s)
    <3>1. /\ WithPartial(s) \in Seq(Msg)
          /\ Spoken(WithPartial(s)) = Spoken(produced) \o Say(s)
          /\ Thought(WithPartial(s)) = Thought(produced) \cup Think(s)
      BY PartialSays
    <3>2. QED
      BY <2>1, <3>1
  <2>3. /\ Said(shown'.content) = Said(shown.content)
        /\ Range(Said(shown'.reasoning)) = Range(Said(shown.reasoning))
    BY <2>1, HeldSays
  <2>4. IsPrefix(Said(shown'.content), Spoken(ms))
    BY <1>1, <1>7, <1>8, <2>2, <2>3, PrefixOfConcat
  <2>5. Range(Said(shown'.reasoning)) \subseteq Thought(ms)
    BY <1>6, <1>7, <2>2, <2>3
  <2>6. QED
    BY <2>1, <2>2, <2>4, <2>5, BreakCovers
<1>10. CASE ~Interrupted
  <2>1. UNCHANGED <<pc, produced>>
    BY <1>10 DEF Take
  <2>2. \/ c.k = "blank" /\ UNCHANGED shown
        \/ Show(Fed(c))
        \/ Show(t)
    BY <1>2, <1>3, <1>10 DEF Take, Holds
  <2>3. /\ Said(shown'.content) = Said(shown.content) \o Say(t)
        /\ Range(Said(shown'.reasoning)) = Range(Said(shown.reasoning)) \cup Think(t)
    <3>1. CASE c.k = "blank" /\ UNCHANGED shown
      <4>1. ~HasOutput(t)
        BY <1>3, <3>1 DEF HasOutput, Meaningful
      <4>2. Say(t) = <<>> /\ Think(t) = {}
        BY <4>1, SaySilent
      <4>3. Said(shown.content) \o <<>> = Said(shown.content)
        BY <1>1, ConcatEmptySeq
      <4>4. QED
        BY <3>1, <4>2, <4>3
    <3>2. CASE Show(Fed(c))
      <4>1. Fed(c) = held \o t /\ held \o t \in Seq(Chunk)
        BY <1>1, <1>3 DEF Fed
      <4>2. Say(held \o t) = Say(held) \o Say(t) /\ Think(held \o t) = Think(held) \cup Think(t)
        BY <1>1, SayConcat
      <4>3. Say(held) = <<>> /\ Think(held) = {}
        BY <1>1, HeldSilent, SaySilent
      <4>4. <<>> \o Say(t) = Say(t)
        BY <1>7, ConcatEmptySeq
      <4>5. Show(held \o t)
        BY <3>2, <4>1
      <4>6. /\ Said(shown'.content) = Said(shown.content) \o Say(held \o t)
            /\ Range(Said(shown'.reasoning)) = Range(Said(shown.reasoning)) \cup Think(held \o t)
        BY <1>1, <4>1, <4>5, ShowSays
      <4>7. QED
        BY <4>2, <4>3, <4>4, <4>6
    <3>3. CASE Show(t)
      BY <1>1, <3>3, ShowSays
    <3>4. QED
      BY <2>2, <3>1, <3>2, <3>3
  <2>4. /\ Said(shown'.content) = Spoken(produced) \o Say(s)
        /\ Range(Said(shown'.reasoning)) = Thought(produced) \cup Think(s)
    BY <1>6, <1>7, <1>8, <2>3
  <2>5. QED
    BY <1>5, <2>1, <2>4 DEF ScreenInv
<1>11. QED
  BY <1>9, <1>10

(* The stream's end makes a message of what the screen shows.                     *)
LEMMA EndSays ==
  ASSUME LoopTyped, HeldInv, ScreenInv, TakeError \/ TakeMessage PROVE ScreenInv'
<1>1. /\ pc = "streaming" /\ Show(held) /\ produced' = WithPartial(got) /\ got \in Seq(Chunk)
  BY DEF TakeError, TakeMessage, AtEnd, LoopTyped, StreamTyped
<1>2. /\ Said(shown.content) = Spoken(produced) \o Say(got)
      /\ Range(Said(shown.reasoning)) = Thought(produced) \cup Think(got)
  BY <1>1 DEF ScreenInv
<1>3. PICK ms \in Seq(Msg) : /\ ms = produced'
                             /\ Spoken(ms) = Spoken(produced) \o Say(got)
                             /\ Thought(ms) = Thought(produced) \cup Think(got)
  <2>1. /\ WithPartial(got) \in Seq(Msg)
        /\ Spoken(WithPartial(got)) = Spoken(produced) \o Say(got)
        /\ Thought(WithPartial(got)) = Thought(produced) \cup Think(got)
    BY <1>1, PartialSays
  <2>2. QED
    BY <1>1, <2>1
<1>4. /\ Said(shown'.content) = Said(shown.content)
      /\ Range(Said(shown'.reasoning)) = Range(Said(shown.reasoning))
  BY <1>1, HeldSays
<1>5. Said(shown'.content) = Spoken(ms) /\ Range(Said(shown'.reasoning)) = Thought(ms)
  BY <1>2, <1>3, <1>4
<1>6. CASE TakeError
  <2>1. Break(ms)
    BY <1>3, <1>6 DEF TakeError
  <2>2. QED
    BY <1>5, <2>1, BreakEqual
<1>7. CASE TakeMessage
  <2>1. pc' \in {"tools", "answered"}
    BY <1>7 DEF TakeMessage
  <2>2. Equal(produced)'
    BY <1>3, <1>5 DEF Equal
  <2>3. QED
    BY <2>1, <2>2 DEF ScreenInv
<1>8. QED
  BY <1>6, <1>7

(* The end of the run stores what was returned, unless the session is gone.       *)
LEMMA ConcludeSays ==
  ASSUME LoopTyped, ScreenInv, Conclude PROVE ScreenInv'
<1>1. /\ pc = "return" /\ pc' = "over" /\ UNCHANGED <<shown, cause, lost, response>>
  BY DEF Conclude
<1>2. SUFFICES ASSUME cause # "deleted", ~lost
               PROVE  Covers(stored)' /\ (outcome' = "completed" => Equal(stored)')
  BY <1>1 DEF ScreenInv
<1>3. PICK ms \in Seq(Msg) : ms = response.messages
  BY DEF LoopTyped, StoreTyped
<1>4. Covers(ms) /\ (~response.error /\ ~response.canceled => Equal(ms))
  BY <1>1, <1>2, <1>3 DEF ScreenInv
<1>5. CASE stored' = ms /\ (outcome' = "completed" => ~response.error /\ ~response.canceled)
  BY <1>1, <1>4, <1>5 DEF Covers, Equal
<1>6. CASE stored' = Append(ms, ErrorMessage) /\ outcome' = "failed"
  <2>1. PICK m \in Msg : m = ErrorMessage /\ m.content = <<>>
    <3>1. ErrorMessage \in Msg /\ ErrorMessage.content = <<>>
      <4>1. ErrorMessage \in Shape
        BY EmptySeq DEF Shape, ErrorMessage
      <4>2. ErrorMessage.calls = {} /\ Silence(ErrorMessage) /\ ErrorMessage.content = <<>>
        BY DEF ErrorMessage, Silence
      <4>3. QED
        BY <4>1, <4>2, FS_EmptySet DEF Msg
    <3>2. QED
      BY <3>1
  <2>2. Spoken(Append(ms, m)) = Spoken(ms) \o Said(m.content) /\ Spoken(ms) \in Seq(Chunk)
    BY SpokenAppends, SpokenType
  <2>3. Spoken(Append(ms, m)) = Spoken(ms)
    BY <2>1, <2>2, SaidEmpty, ConcatEmptySeq
  <2>4. Thought(ms) \subseteq Thought(Append(ms, m))
    BY ThoughtAppends
  <2>5. Covers(Append(ms, m))
    BY <1>4, <2>3, <2>4 DEF Covers
  <2>6. QED
    BY <1>1, <1>6, <2>1, <2>5 DEF Covers
<1>7. QED
  <2>1. CASE Interrupted \/ response.canceled
    <3>1. outcome' = "canceled" /\ stored' = ms
      <4>1. outcome' = "canceled" /\ stored' = Kept
        BY <2>1 DEF Conclude
      <4>2. Kept = ms
        BY <1>2, <1>3 DEF Kept
      <4>3. QED
        BY <4>1, <4>2
    <3>2. QED
      BY <1>5, <3>1
  <2>2. CASE ~(Interrupted \/ response.canceled) /\ response.error
    <3>1. /\ outcome' = "failed"
          /\ stored' \in {ms, Append(ms, ErrorMessage)}
      BY <1>3, <2>2 DEF Conclude
    <3>2. QED
      BY <1>5, <1>6, <3>1
  <2>3. CASE ~(Interrupted \/ response.canceled) /\ ~response.error
    <3>1. stored' = ms
      BY <1>3, <2>3 DEF Conclude
    <3>2. QED
      BY <1>5, <2>3, <3>1
  <2>4. QED
    BY <2>1, <2>2, <2>3

(* The answer returned is what the screen shows; where the model only thought,    *)
(* both show the thoughts' stand-in.                                              *)
LEMMA FinishSays ==
  ASSUME LoopTyped, CallsInv, ScreenInv, Finish PROVE ScreenInv'
<1>1. /\ pc = "answered" /\ pc' = "return" /\ Whole(produced) /\ Equal(produced)
      /\ produced \in Seq(Msg) /\ shown.content \in Seq(Chunk) /\ shown.reasoning \in Seq(Chunk)
  BY DEF Finish, Respond, CallsInv, ScreenInv, LoopTyped, StoreTyped, StreamTyped
<1>2. PICK ms \in Seq(Msg) : /\ ms = Canonical(produced, FALSE)
                             /\ Spoken(ms) = Spoken(produced) /\ Thought(ms) = Thought(produced)
  BY <1>1, CanonicalFacts DEF Whole
<1>3. Said(shown.content) = Spoken(ms) /\ Range(Said(shown.reasoning)) = Thought(ms)
  BY <1>1, <1>2 DEF Equal
<1> DEFINE answers == \E i \in DOMAIN ms : ms[i].role = "assistant" /\ Displayable(ms[i])
           x == Max(OnlyReasoned(ms))
           es == [ms EXCEPT ![x].content = <<Fallback>>]
<1>4. CASE answers
  <2>1. Respond(ms, FALSE, FALSE) /\ UNCHANGED shown
    BY <1>2, <1>4 DEF Finish
  <2>2. response'.messages = ms /\ IsPrefix(Spoken(ms), Spoken(ms))
    BY <2>1, SpokenType, SamePrefix DEF Respond
  <2>3. Covers(response.messages)' /\ Equal(response.messages)'
    BY <1>3, <2>1, <2>2 DEF Covers, Equal
  <2>4. QED
    BY <1>1, <2>3 DEF ScreenInv
<1>5. ASSUME ~answers PROVE Spoken(ms) = <<>> /\ \A i \in DOMAIN ms : ~HasOutput(ms[i].content)
  <2>1. ASSUME NEW i \in DOMAIN ms PROVE ~HasOutput(ms[i].content)
    <3>1. ms[i] \in Msg
      OBVIOUS
    <3>2. CASE ms[i].role = "assistant"
      BY <1>5, <3>2 DEF Displayable
    <3>3. CASE ms[i].role # "assistant"
      BY <3>1, <3>3, MsgFacts DEF HasOutput
    <3>4. QED
      BY <3>2, <3>3
  <2>2. QED
    BY <2>1, SpokenNothing
<1>6. CASE ~answers /\ OnlyReasoned(ms) # {}
  <2>1. Respond(es, FALSE, FALSE) /\ shown' = [shown EXCEPT !.content = Append(@, Fallback)]
    BY <1>2, <1>6 DEF Finish
  <2>2. x \in DOMAIN ms /\ ms[x].role = "assistant"
    BY <1>6, MaxIn DEF OnlyReasoned
  <2> HIDE DEF x
  <2>3. /\ es \in Seq(Msg) /\ DOMAIN es = DOMAIN ms
        /\ \A i \in DOMAIN ms : /\ es[i].reasoning = ms[i].reasoning
                                /\ es[i].content = IF i = x THEN <<Fallback>> ELSE ms[i].content
    BY <2>2, FinishType
  <2>4. response'.messages = es
    BY <2>1 DEF Respond
  <2> HIDE DEF es
  <2>5. Thought(es) = Thought(ms)
    BY <2>3 DEF Thought
  <2>6. PICK t \in Seq(Chunk) : /\ t = <<Fallback>>
                                /\ Append(shown.content, Fallback) = shown.content \o t
    <3>1. PICK f \in Chunk : f = Fallback
      BY FallbackType
    <3>2. Append(shown.content, f) = shown.content \o <<f>> /\ <<f>> \in Seq(Chunk)
      BY <1>1, AppendIsConcat
    <3>3. QED
      BY <3>1, <3>2
  <2>7. Spoken(es) = Said(t)
    <3>1. \A i \in DOMAIN es : i # x => ~HasOutput(es[i].content)
      BY <1>5, <1>6, <2>3
    <3>2. Spoken(es) = Said(es[x].content)
      BY <2>2, <2>3, <3>1, SpokenSingle
    <3>3. QED
      BY <2>2, <2>3, <2>6, <3>2
  <2>8. shown'.content = shown.content \o t /\ shown'.reasoning = shown.reasoning
    BY <2>1, <2>6 DEF LoopTyped, StreamTyped
  <2>9. Said(shown'.content) = Spoken(es)
    <3>1. Said(shown.content \o t) = Said(shown.content) \o Said(t) /\ Said(t) \in Seq(Chunk)
      BY <1>1, SaidConcat, SaidType
    <3>2. Said(shown.content) = <<>>
      BY <1>3, <1>5, <1>6
    <3>3. <<>> \o Said(t) = Said(t)
      BY <3>1, ConcatEmptySeq
    <3>4. QED
      BY <2>7, <2>8, <3>1, <3>2, <3>3
  <2>10. IsPrefix(Spoken(es), Spoken(es))
    BY <2>3, SpokenType, SamePrefix
  <2>11. Covers(response.messages)' /\ Equal(response.messages)'
    BY <1>3, <2>4, <2>5, <2>8, <2>9, <2>10 DEF Covers, Equal
  <2>12. QED
    BY <1>1, <2>11 DEF ScreenInv
<1>7. CASE ~answers /\ OnlyReasoned(ms) = {}
  <2>1. Respond(<<>>, TRUE, FALSE) /\ UNCHANGED shown
    BY <1>2, <1>7 DEF Finish
  <2>2. Thought(ms) = {}
    <3>1. ASSUME NEW i \in DOMAIN ms, NEW c \in Range(ms[i].reasoning) PROVE c.k \notin Voice
      <4>1. ms[i] \in Msg
        OBVIOUS
      <4>2. CASE ms[i].role = "assistant"
        <5>1. ~HasOutput(ms[i].reasoning)
          BY <1>7, <4>2 DEF OnlyReasoned
        <5>2. QED
          BY <3>1, <5>1, HasOutputRange DEF Meaningful, Voice
      <4>3. CASE ms[i].role # "assistant"
        BY <3>1, <4>1, <4>3, MsgFacts DEF Range
      <4>4. QED
        BY <4>2, <4>3
    <3>2. QED
      BY <3>1 DEF Thought
  <2>3. response'.messages = <<>> /\ response'.error
    BY <2>1 DEF Respond
  <2>4. Covers(response.messages)'
    <3>1. IsPrefix(<<>>, <<>>)
      BY EmptySeq, SamePrefix
    <3>2. Said(shown'.content) = <<>> /\ Range(Said(shown'.reasoning)) = {}
      BY <1>3, <1>5, <1>7, <2>1, <2>2
    <3>3. QED
      BY <2>3, <3>1, <3>2, SpokenEmpty DEF Covers
  <2>5. QED
    BY <1>1, <2>3, <2>4 DEF ScreenInv
<1>8. QED
  BY <1>4, <1>6, <1>7

(* Nothing was said or thought, and nothing is returned. *)
LEMMA NothingSays ==
  ASSUME Equal(produced), produced = <<>>, UNCHANGED shown, pc' = "return",
         response'.messages = <<>>
  PROVE  ScreenInv'
<1>1. IsPrefix(<<>>, <<>>)
  BY EmptySeq, SamePrefix
<1>2. Covers(response.messages)' /\ Equal(response.messages)'
  BY <1>1, SpokenEmpty DEF Covers, Equal
<1>3. QED
  BY <1>2 DEF ScreenInv

(* Nothing is neither said nor thought. *)
LEMMA SayEmpty == Say(<<>>) = <<>> /\ Think(<<>>) = {}
<1>1. <<>> \in Seq(Chunk) /\ ~HasOutput(<<>>)
  BY EmptySeq DEF HasOutput
<1>2. QED
  BY <1>1, SaySilent

(* An attempt begins, or is given up, with nothing of it on the screen.           *)
LEMMA AttemptSays ==
  ASSUME LoopTyped, EmittedInv, KindInv, ScreenInv, Open \/ Reset \/ Collected PROVE ScreenInv'
<1>1. Spoken(produced) \o <<>> = Spoken(produced)
  BY SpokenType, ConcatEmptySeq DEF LoopTyped, StoreTyped
<1>2. CASE Open
  <2>1. pc = "open" /\ pc' = "streaming" /\ got' = <<>> /\ UNCHANGED <<shown, produced>>
    BY <1>2 DEF Open, NewStream
  <2>2. Equal(produced)
    BY <2>1 DEF ScreenInv
  <2>3. QED
    BY <1>1, <2>1, <2>2, SayEmpty DEF ScreenInv, Equal
<1>3. ASSUME pc = "streaming", ~HasOutput(got) PROVE Equal(produced)
  <2>1. Say(got) = <<>> /\ Think(got) = {}
    BY <1>3, SaySilent DEF LoopTyped, StreamTyped
  <2>2. QED
    BY <1>1, <1>3, <2>1 DEF ScreenInv, Equal
<1>4. CASE Reset
  <2>1. pc = "streaming" /\ end = "retry" /\ pc' = "backoff" /\ UNCHANGED produced
    BY <1>4 DEF Reset, AtEnd
  <2>2. Equal(produced)
    BY <1>3, <2>1 DEF EmittedInv
  <2>3. Equal(produced)'
    BY <1>4, <2>1, <2>2, ResetKeepsSaid DEF Equal
  <2>4. QED
    BY <2>1, <2>3 DEF ScreenInv
<1>5. CASE Collected
  <2>1. /\ kind = "compact" /\ pc = "streaming" /\ pc' \in {"compacted", "uncompacted"}
        /\ UNCHANGED <<shown, produced>>
    BY <1>5 DEF Collected
  <2>2. ~HasOutput(got)
    BY <2>1 DEF KindInv, HasOutput
  <2>3. Equal(produced)
    BY <1>3, <2>1, <2>2
  <2>4. QED
    BY <2>1, <2>3 DEF ScreenInv, Equal
<1>6. QED
  BY <1>2, <1>4, <1>5

(* A result says nothing. *)
LEMMA ResultSays ==
  ASSUME LoopTyped, ScreenInv, NEW c \in CallsIn(got), ToolResult(c) PROVE ScreenInv'
<1>1. pc = "tools" /\ pc' = pc /\ UNCHANGED shown /\ produced' = Append(produced, ToolMessage(c))
  BY DEF ToolResult
<1>2. Equal(produced) /\ produced \in Seq(Msg) /\ c \in Chunk
  BY <1>1, CallsInFacts DEF ScreenInv, LoopTyped, StoreTyped, StreamTyped
<1>3. PICK m \in Msg : m = ToolMessage(c) /\ m.content = <<>> /\ m.reasoning = <<>>
  BY <1>2, ToolMessageFacts
<1>4. Spoken(Append(produced, m)) = Spoken(produced)
  <2>1. /\ Spoken(Append(produced, m)) = Spoken(produced) \o Said(m.content)
        /\ Spoken(produced) \in Seq(Chunk)
    BY <1>2, SpokenAppends, SpokenType
  <2>2. QED
    BY <1>3, <2>1, SaidEmpty, ConcatEmptySeq
<1>5. Thought(Append(produced, m)) = Thought(produced)
  <2>1. Range(m.reasoning) = {}
    BY <1>3 DEF Range
  <2>2. QED
    BY <1>2, <2>1, ThoughtAppends
<1>6. Equal(produced)'
  BY <1>1, <1>2, <1>3, <1>4, <1>5 DEF Equal
<1>7. QED
  BY <1>1, <1>6 DEF ScreenInv

(* Every step keeps the screen and the messages together. *)
LEMMA ScreenNext ==
  ASSUME LoopInv, KindInv, CallsInv, ScreenInv, [Next]_vars PROVE ScreenInv'
<1>1. LoopTyped /\ HeldInv /\ EmittedInv /\ produced \in Seq(Msg)
  BY DEF LoopInv, LoopTyped, StoreTyped
<1>2. ASSUME pc # "over", pc' = pc,
             UNCHANGED <<shown, produced, got, response, lost>>
      PROVE  ScreenInv'
  BY <1>2 DEF ScreenInv, Equal, Covers
<1>3. ASSUME pc \in {"setup", "tools", "backoff"}, pc' = "open",
             UNCHANGED <<shown, produced>>
      PROVE  ScreenInv'
  BY <1>3 DEF ScreenInv, Equal
<1>4. ASSUME pc \in {"tools", "backoff"}, Break(produced), UNCHANGED shown PROVE ScreenInv'
  <2>1. Equal(produced)
    BY <1>4 DEF ScreenInv
  <2>2. QED
    BY <1>1, <1>4, <2>1, BreakEqual DEF Equal
<1>5. ASSUME Prepare PROVE ScreenInv'
  <2>1. pc = "setup" /\ UNCHANGED <<shown, produced>>
    BY <1>5 DEF Prepare
  <2>2. CASE pc' = "open"
    BY <1>3, <2>1, <2>2
  <2>3. CASE Respond(<<>>, ~Interrupted, FALSE)
    <3>1. Equal(produced) /\ produced = <<>>
      BY <2>1 DEF ScreenInv, KindInv
    <3>2. QED
      BY <2>1, <2>3, <3>1, NothingSays DEF Respond
  <2>4. QED
    BY <1>5, <2>2, <2>3 DEF Prepare
<1>6. ASSUME JoinTasks PROVE ScreenInv'
  <2>1. /\ pc \in {"compacted", "uncompacted"} /\ UNCHANGED <<shown, produced>>
        /\ pc' = "return" /\ response'.messages = <<>>
    BY <1>6 DEF JoinTasks, Respond
  <2>2. Equal(produced) /\ produced = <<>>
    BY <2>1 DEF ScreenInv, KindInv
  <2>3. QED
    BY <2>1, <2>2, NothingSays
<1>7. ASSUME Backoff \/ NextTurn \/ ToolFails PROVE ScreenInv'
  BY <1>3, <1>4, <1>7 DEF Backoff, NextTurn, ToolFails
<1>8. ASSUME ToolUnreadable PROVE ScreenInv'
  BY <1>8 DEF ToolUnreadable, Respond, ScreenInv
<1>9. ASSUME \/ RawFails \/ RawStops \/ RawCanceled \/ \E k \in ChunkKinds : RawChunk(k)
      PROVE  ScreenInv'
  BY <1>2, <1>9 DEF RawFails, RawStops, RawCanceled, RawEnd, RawChunk, verdict
<1>10. ASSUME Fire \/ \E c \in {"stop", "deleted"} : Cancel(c) PROVE ScreenInv'
  BY <1>2, <1>10 DEF Fire, Cancel, stream, verdict
<1>11. ASSUME MemoryChunk \/ MemoryOpen \/ (\E ok \in BOOLEAN : MemoryEnds(ok)) \/ UNCHANGED vars
       PROVE  ScreenInv'
  <2>1. UNCHANGED <<pc, cause, shown, produced, got, response, outcome, stored, lost>>
    BY <1>11 DEF MemoryChunk, MemoryOpen, MemoryEnds, vars, stream, verdict
  <2>2. QED
    BY <2>1 DEF ScreenInv, Equal, Covers
<1>12. QED
  BY <1>1, <1>5, <1>6, <1>7, <1>8, <1>9, <1>10, <1>11, FinishSays, AttemptSays, ResultSays,
     TakeSays, EndSays, ConcludeSays DEF Next, Provider, Loop, ToolsRun

ScreenAll == LoopInv /\ KindInv /\ CallsInv /\ ScreenInv

(* A run begins with an empty screen and no messages. *)
LEMMA ScreenInit == Init => ScreenAll
<1>1. SUFFICES ASSUME Init PROVE ScreenAll
  OBVIOUS
<1>2. LoopInv
  BY <1>1, LoopInvInit
<1>3. KindInv /\ CallsInv
  BY <1>1 DEF Init, KindInv, CallsInv, Whole, IdsBefore
<1>4. Equal(produced)
  <2>1. /\ produced = <<>> /\ Said(shown.content) = <<>> /\ Range(Said(shown.reasoning)) = {}
    BY <1>1, SaidEmpty DEF Init, Range
  <2>2. Thought(<<>>) = {}
    BY DEF Thought
  <2>3. QED
    BY <2>1, <2>2, SpokenEmpty DEF Equal
<1>5. ScreenInv
  BY <1>1, <1>4 DEF Init, ScreenInv
<1>6. QED
  BY <1>2, <1>3, <1>5 DEF ScreenAll

(* What the stored messages say and think is what the session holds.              *)
LEMMA StoredSays ==
  ASSUME ScreenAll PROVE ShownIsStored
<1>1. stored \in Seq(Msg)
  BY DEF ScreenAll, LoopInv, LoopTyped, StoreTyped
<1>2. Spoken(stored) = Said(Texts)
  BY DEF Spoken, Texts
<1>3. Range(Said(Thoughts)) = Thought(stored) /\ Thought(stored) \subseteq Range(Thoughts)
  BY <1>1, ThoughtsRange DEF Thoughts
<1>4. ASSUME pc = "over", cause # "deleted", ~lost
      PROVE  Covers(stored) /\ (outcome = "completed" => Equal(stored))
  BY <1>4 DEF ScreenAll, ScreenInv
<1>5. QED
  BY <1>2, <1>3, <1>4 DEF ShownIsStored, Covers, Equal

(* What the client has on its screen at the end of a run is what the session      *)
(* holds: all of it and nothing else after a completed run, and at least what was *)
(* shown after one that failed or was canceled, whatever was retried, cut into    *)
(* pairs of a call and its result or broken off on the way                        *)
(* (canonicalizeProducedMessagesWithPartial, shouldPersistCanceledPartial).       *)
THEOREM WhatIsShownIsStored == Spec => []ShownIsStored
<1>1. Init => ScreenAll
  BY ScreenInit
<1>2. ScreenAll /\ [Next]_vars => ScreenAll'
  <2>1. SUFFICES ASSUME ScreenAll, [Next]_vars PROVE ScreenAll'
    OBVIOUS
  <2>2. LoopInv /\ LoopTyped /\ KindInv /\ CallsInv /\ ScreenInv
    BY <2>1 DEF ScreenAll, LoopInv
  <2>3. LoopInv' /\ KindInv' /\ CallsInv' /\ ScreenInv'
    BY <2>1, <2>2, LoopInvNext, KindNext, CallsNext, ScreenNext
  <2>4. QED
    BY <2>3 DEF ScreenAll
<1>3. ScreenAll => ShownIsStored
  BY StoredSays
<1>4. QED
  BY <1>1, <1>2, <1>3, PTL DEF Spec
=============================================================================
