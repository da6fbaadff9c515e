------------------------- MODULE Conversation_proofs -------------------------
(***************************************************************************)
(* Proofs about a conversation.  AnswerHistory, for any number of messages, *)
(* attempts and switches and any set of operations: a turn has one selected *)
(* attempt, a turn that shows an answer goes on showing one, and what is    *)
(* derived from the conversation is saved only while the same answers are   *)
(* selected; without edits and switches, the checkpoints stand for all that *)
(* is compressed.  SessionMemory, for documents of any size and any number  *)
(* of tasks: the history of changes ends in the memory, a maintenance run   *)
(* changes it once and says so, and no writer stores a credential or        *)
(* replaces what it was not shown.                                          *)
(***************************************************************************)
EXTENDS AnswerHistory, SessionMemory, FiniteSetTheorems, SequenceTheorems, Counting

-----------------------------------------------------------------------------
(* The invariant *)

(* Attempt k is the selected one of turn t. *)
Picked(k, t) == attempts[k].turn = t /\ attempts[k].selected = TRUE

HasOne(t)  == \E k \in Attempts : /\ Picked(k, t)
                                  /\ \A j \in Attempts : Picked(j, t) => j = k
HasNone(t) == \A k \in Attempts : ~Picked(k, t)

TurnInv(t) ==
  Kind(t) = "turn" => /\ messages[t].deleted = FALSE => HasOne(t)
                      /\ messages[t].deleted = TRUE  => HasNone(t)

(* What an attempt was made for is there, if it is a turn. *)
TurnIsAlive(k) ==
  Kind(attempts[k].turn) = "turn" => messages[attempts[k].turn].deleted = FALSE

AttemptInv(k) ==
  /\ attempts[k].turn \in Ids
  /\ attempts[k].status = "erased" => attempts[k].selected = FALSE

(* Answers belong to an attempt of an earlier turn, which is not hidden. *)
MessageInv(i) ==
  /\ messages[i].attempt \in Attempts \cup {0} /\ messages[i].before <= i
  /\ IsUser(i) => messages[i].attempt = 0
  /\ messages[i].deleted = FALSE /\ Kind(i) = "answer" => messages[i].attempt # 0
  /\ messages[i].attempt # 0 /\ messages[i].deleted = FALSE =>
       attempts[messages[i].attempt].turn < i /\ TurnIsAlive(messages[i].attempt)

(* What is compressed is so by a checkpoint that cannot be undone unnoticed:  *)
(* it is there, or an edit hid it, which left a later turn.                  *)
Compressed(i) ==
  Kind(i) # "summary" /\ messages[i].deleted = FALSE /\ messages[i].by # 0

ByInv(i) ==
  Compressed(i) =>
    /\ messages[i].by \in Ids /\ Kind(messages[i].by) = "summary"
    /\ \/ messages[messages[i].by].deleted = FALSE
       \/ \E u \in Ids : /\ Kind(u) = "turn" /\ messages[u].deleted = FALSE
                         /\ u > messages[i].by

(* The log is compressed from its beginning on. *)
OrderInv(i, j) ==
  i < j /\ Compressed(j) /\ Kind(i) # "summary" /\ messages[i].deleted = FALSE =>
    Compressed(i) /\ messages[i].by <= messages[j].by

LogInv ==
  /\ \A k \in Attempts : AttemptInv(k)
  /\ \A i \in Ids : MessageInv(i)
  /\ \A i \in Ids : TurnInv(i)
  /\ \A i \in Ids : ByInv(i)
  /\ \A i, j \in Ids : OrderInv(i, j)

WorkInv ==
  /\ work.kind = "chat" =>
       /\ work.attempt \in Attempts /\ attempts[work.attempt].status = "running"
       /\ TurnIsAlive(work.attempt)
  /\ work.preserve <= Len(messages)
  /\ work.kind = "prepared" => work.boundary <= Len(messages) + 1

(* What was read is still shown while the revision is the one read before. *)
ReadInv ==
  /\ derived.step \in {"revision", "history"} => derived.revision <= revision
  /\ derived.step = "history" /\ derived.revision = revision =>
       derived.view \subseteq SelectedAnswers
  /\ work.kind \in {"session", "prepared"} => work.revision <= revision
  /\ work.kind = "prepared" => work.source \subseteq Ids
  /\ work.kind = "prepared" /\ work.revision = revision =>
       \A i \in work.source : Kind(i) = "answer" => i \in ShownAnswers

HistoryInv == TypeOK /\ LogInv /\ WorkInv /\ ReadInv

-----------------------------------------------------------------------------
(* Choices *)

(* A bounded set of numbers that is not empty has a greatest one. *)
LEMMA GreatestExists ==
  ASSUME NEW n \in Nat, NEW S, S \subseteq 0 .. n, S # {}
  PROVE  Greatest(S) \in S /\ \A j \in S : j <= Greatest(S)
<1> DEFINE T == {n - i : i \in S}
<1>0. \A i \in S : i \in Nat /\ n - i \in Nat
  OBVIOUS
<1>1. T \subseteq Nat /\ T # {}
  BY <1>0
<1>2. PICK x \in T : \A y \in T : x <= y
  BY <1>1, LeastExists
<1>3. PICK i \in S : x = n - i
  BY <1>2
<1>4. ASSUME NEW j \in S PROVE j <= i
  <2>1. n - i <= n - j
    BY <1>2, <1>3
  <2>2. QED
    BY <1>0, <2>1
<1>5. QED
  BY <1>4 DEF Greatest

(* What the type invariant says of each message and each attempt. *)
LEMMA Fields ==
  ASSUME TypeOK
  PROVE  /\ Len(messages) \in Nat /\ Len(attempts) \in Nat
         /\ DOMAIN messages = Ids /\ DOMAIN attempts = Attempts
         /\ \A i \in Ids : messages[i] \in Message
         /\ \A k \in Attempts : attempts[k] \in Attempt
BY LenProperties DEF TypeOK, Ids, Attempts

(* The messages of a view have a latest one: the greatest of those that take  *)
(* the last place.                                                            *)
LEMMA LatestExists ==
  ASSUME TypeOK, LogInv, NEW S, S \subseteq Ids, S # {}
  PROVE  Latest(S) \in S /\ \A i \in S \ {Latest(S)} : Precedes(i, Latest(S))
<1> DEFINE n == Len(messages)
           Q == {Place(i) : i \in S}
<1>1. n \in Nat /\ \A i \in S : i \in Nat /\ i <= n
  BY Fields DEF Ids
<1>2. \A i \in S : messages[i].before \in Nat /\ messages[i].before <= n
  <2>1. \A i \in S : messages[i] \in Message /\ messages[i].before <= i
    BY Fields DEF LogInv, MessageInv
  <2>2. \A i \in S : messages[i].before \in Nat
    BY <2>1 DEF Message
  <2>3. QED
    BY <1>1, <2>1, <2>2
<1>3. \A i \in S : Place(i) \in Nat /\ Place(i) <= 2 * n + 1
  BY <1>1, <1>2 DEF Place
<1>4. Q \subseteq 0 .. 2 * n + 1 /\ Q # {} /\ 2 * n + 1 \in Nat
  BY <1>1, <1>3
<1>5. PICK q \in Q : \A r \in Q : r <= q
  BY <1>4, GreatestExists
<1> DEFINE L == {i \in S : Place(i) = q}
<1>6. L \subseteq 0 .. n /\ L # {}
  BY <1>1, <1>5
<1>7. PICK l \in L : \A i \in L : i <= l
  BY <1>1, <1>6, GreatestExists
<1>8. \A i \in S \ {l} : Precedes(i, l)
  <2>1. SUFFICES ASSUME NEW i \in S, i # l
                 PROVE  Precedes(i, l)
    OBVIOUS
  <2>2. i \in Nat /\ l \in Nat /\ Place(i) \in Nat /\ Place(l) = q /\ q \in Nat
    BY <1>1, <1>3, <1>7
  <2>3. Place(i) <= q /\ (Place(i) = q => i <= l)
    BY <1>5, <1>7
  <2>4. QED
    BY <2>1, <2>2, <2>3 DEF Precedes
<1>9. QED
  BY <1>7, <1>8 DEF Latest

-----------------------------------------------------------------------------
(* What steps do to the log and to the attempts *)

(* A message is stored at the end of a log. *)
LEMMA MessageAppended ==
  ASSUME NEW log \in Seq(Message), NEW x \in Message, messages' = Append(log, x)
  PROVE  /\ messages' \in Seq(Message) /\ Len(messages') = Len(log) + 1
         /\ Ids' = 1 .. Len(log) + 1
         /\ messages'[Len(log) + 1] = x
         /\ \A i \in 1 .. Len(log) : messages'[i] = log[i]
BY AppendProperties DEF Ids

(* An attempt is stored after the others. *)
LEMMA AttemptAppended ==
  ASSUME NEW list \in Seq(Attempt), NEW x \in Attempt, attempts' = Append(list, x)
  PROVE  /\ attempts' \in Seq(Attempt) /\ Len(attempts') = Len(list) + 1
         /\ Attempts' = 1 .. Len(list) + 1
         /\ attempts'[Len(list) + 1] = x
         /\ \A k \in 1 .. Len(list) : attempts'[k] = list[k]
BY AppendProperties DEF Attempts

(* A turn keeps its selected attempt when its message and what is selected    *)
(* of its attempts stay the same.                                             *)
LEMMA TurnIsKept ==
  ASSUME NEW t \in Ids, TurnInv(t), Attempts \subseteq Attempts',
         messages'[t].kind = messages[t].kind,
         messages'[t].deleted = messages[t].deleted,
         \A k \in Attempts : Picked(k, t)' <=> Picked(k, t),
         \A k \in Attempts' \ Attempts : ~Picked(k, t)'
  PROVE  TurnInv(t)'
<1>1. HasOne(t) => HasOne(t)'
  <2>1. SUFFICES ASSUME HasOne(t) PROVE HasOne(t)'
    OBVIOUS
  <2>2. PICK k \in Attempts : Picked(k, t) /\ \A j \in Attempts : Picked(j, t) => j = k
    BY <2>1 DEF HasOne
  <2>3. k \in Attempts' /\ Picked(k, t)'
    BY <2>2
  <2>4. \A j \in Attempts' : Picked(j, t)' => j = k
    BY <2>2
  <2>5. QED
    BY <2>3, <2>4 DEF HasOne
<1>2. HasNone(t) => HasNone(t)'
  BY DEF HasNone
<1>3. QED
  BY <1>1, <1>2 DEF TurnInv, Kind

(* A message that is not hidden keeps its place in the invariant when what it   *)
(* says and the turn of its attempt stay the same.                            *)
LEMMA MessageIsKept ==
  ASSUME TypeOK, LogInv, NEW i \in Ids,
         Attempts \subseteq Attempts', Ids \subseteq Ids',
         messages'[i].kind = messages[i].kind,
         messages'[i].attempt = messages[i].attempt,
         messages'[i].before = messages[i].before,
         messages'[i].deleted = FALSE => messages[i].deleted = FALSE,
         \A k \in Attempts : attempts'[k].turn = attempts[k].turn,
         \A t \in Ids : /\ messages'[t].kind = messages[t].kind
                        /\ Kind(t) = "turn" => messages'[t].deleted = messages[t].deleted
  PROVE  MessageInv(i)'
<1>1. MessageInv(i) /\ \A k \in Attempts : attempts[k].turn \in Ids
  BY DEF LogInv, AttemptInv
<1>2. ASSUME messages[i].attempt # 0, messages'[i].deleted = FALSE
      PROVE  attempts'[messages[i].attempt].turn < i /\ TurnIsAlive(messages[i].attempt)'
  <2>1. PICK k \in Attempts : k = messages[i].attempt
    BY <1>1, <1>2 DEF MessageInv
  <2>2. attempts[k].turn < i /\ TurnIsAlive(k)
    BY <1>1, <1>2, <2>1 DEF MessageInv
  <2>3. TurnIsAlive(k)'
    BY <1>1, <2>2 DEF TurnIsAlive, Kind
  <2>4. attempts'[k].turn = attempts[k].turn /\ messages'[i].attempt = k
    BY <2>1
  <2>5. QED
    BY <2>1, <2>2, <2>3, <2>4
<1>3. QED
  BY <1>1, <1>2 DEF MessageInv, IsUser, Kind

(* A new message is neither deleted nor compressed. *)
IsNew(x, kind, k) ==
  /\ x = Plain(kind, k) /\ x.kind = kind /\ x.attempt = k
  /\ x.deleted = FALSE /\ x.by = 0 /\ x.before = 0

LEMMA NewMessage ==
  ASSUME NEW kind \in Kinds, NEW k \in Nat
  PROVE  \E x \in Message : IsNew(x, kind, k)
<1>1. Plain(kind, k) \in Message
  BY DEF Plain, Message
<1>2. IsNew(Plain(kind, k), kind, k)
  BY DEF IsNew, Plain
<1>3. QED
  BY ONLY <1>1, <1>2

LEMMA NewTurn == \E x \in Message : IsNew(x, "turn", 0)
<1>1. "turn" \in Kinds /\ 0 \in Nat
  BY DEF Kinds
<1>2. QED
  BY <1>1, NewMessage

LEMMA NewSummary == \E x \in Message : IsNew(x, "summary", 0)
<1>1. "summary" \in Kinds /\ 0 \in Nat
  BY DEF Kinds
<1>2. QED
  BY <1>1, NewMessage

(* A chat run works for its attempt. *)
LEMMA ChatRun ==
  ASSUME NEW k \in Nat
  PROVE  /\ [NoWork EXCEPT !.kind = "chat", !.attempt = k] \in Run
         /\ [NoWork EXCEPT !.kind = "chat", !.attempt = k].kind = "chat"
         /\ [NoWork EXCEPT !.kind = "chat", !.attempt = k].attempt = k
         /\ [NoWork EXCEPT !.kind = "chat", !.attempt = k].preserve = 0
         /\ NoWork \in Run
<1>1. {} \in SUBSET Nat
  OBVIOUS
<1>2. QED
  BY <1>1 DEF NoWork, Run

(* A message stored at the end leaves what is compressed as it was. *)
LEMMA OrderOfGrownLog ==
  ASSUME TypeOK, LogInv, NEW x \in Message, x.by = 0, messages' = Append(messages, x)
  PROVE  /\ \A i \in Ids' : ByInv(i)'
         /\ \A i, j \in Ids' : OrderInv(i, j)'
<1>0. PICK n \in Nat : n = Len(messages)
  BY Fields
<1>1. /\ Ids' = 1 .. n + 1 /\ Ids = 1 .. n
      /\ messages'[n + 1] = x /\ \A i \in Ids : messages'[i] = messages[i]
  BY <1>0, MessageAppended DEF TypeOK, Ids
<1>2. /\ \A i \in Ids : i \in Ids'
      /\ \A i \in Ids : Compressed(i)' <=> Compressed(i)
  <2>1. \A i \in Ids : i \in Ids'
    BY <1>1
  <2>2. \A i \in Ids : Compressed(i)' <=> Compressed(i)
    BY <1>1 DEF Compressed, Kind
  <2>3. QED
    BY <2>1, <2>2
<1>3. ~Compressed(n + 1)'
  BY <1>1 DEF Compressed
<1>4. ASSUME NEW i \in Ids' PROVE ByInv(i)'
  <2>1. SUFFICES ASSUME Compressed(i)' PROVE ByInv(i)'
    BY DEF ByInv
  <2>2. i \in Ids /\ ByInv(i) /\ Compressed(i)
    BY <1>1, <1>2, <1>3, <2>1 DEF LogInv
  <2>3. QED
    BY <1>1, <1>2, <2>2 DEF ByInv, Kind
<1>5. ASSUME NEW i \in Ids', NEW j \in Ids' PROVE OrderInv(i, j)'
  <2>1. SUFFICES ASSUME i < j, Compressed(j)' PROVE OrderInv(i, j)'
    BY DEF OrderInv
  <2>2. j \in Ids /\ i \in Ids
    BY <1>1, <1>3, <2>1
  <2>3. OrderInv(i, j)
    BY <2>2 DEF LogInv
  <2>4. QED
    BY <1>1, <1>2, <2>2, <2>3 DEF OrderInv, Kind
<1>6. QED
  BY <1>4, <1>5

(* An answer that is shown goes on being shown, as an answer to its turn. *)
ShowsOn(i) ==
  i \in ShownAnswers' /\ messages'[i].attempt = messages[i].attempt /\ TurnOf(i)' = TurnOf(i)

(* Whoever goes by the revision sees a step that takes a shown answer away. *)
SelectionStep ==
  \/ revision' = revision + 1
  \/ revision' = revision /\ \A i \in ShownAnswers : ShowsOn(i)

(* Messages are kept, deleted or not, and stay what they are. *)
KindsStay == \A i \in Ids : i \in Ids' /\ messages'[i].kind = messages[i].kind

(* A turn that shows an answer still does, unless it is hidden. *)
StaysAnswered ==
  \A t \in Turns : (\E i \in ShownAnswers : TurnOf(i) = t) =>
                     ~Alive(t)' \/ (\E i \in ShownAnswers : TurnOf(i) = t)'

(* A shown answer belongs to a selected attempt of a turn or checkpoint       *)
(* before it.                                                                 *)
LEMMA ShownFacts ==
  ASSUME TypeOK, LogInv, NEW i \in ShownAnswers
  PROVE  /\ i \in Ids /\ Kind(i) = "answer" /\ messages[i].deleted = FALSE
         /\ messages[i].attempt \in Attempts
         /\ attempts[messages[i].attempt].selected = TRUE
         /\ TurnOf(i) \in Ids /\ TurnOf(i) < i
<1>1. i \in Ids /\ Kind(i) = "answer" /\ ~messages[i].deleted /\ Shown(i)
  BY DEF ShownAnswers, Answers, Alive
<1>2. messages[i] \in Message
  BY <1>1, Fields
<1>3. messages[i].deleted = FALSE
  BY <1>1, <1>2 DEF Message
<1>4. messages[i].attempt \in Attempts /\ messages[i].attempt # 0
  BY <1>1, <1>3 DEF LogInv, MessageInv
<1>5. attempts[messages[i].attempt].selected
  BY <1>1, <1>4 DEF Shown
<1>6. attempts[messages[i].attempt] \in Attempt
  BY <1>4, Fields
<1>7. attempts[messages[i].attempt].selected = TRUE
  BY <1>5, <1>6 DEF Attempt
<1>8. TurnOf(i) \in Ids
  BY <1>4 DEF LogInv, AttemptInv, TurnOf
<1>9. TurnOf(i) < i
  BY <1>1, <1>3, <1>4 DEF LogInv, MessageInv, TurnOf
<1>10. QED
  BY <1>1, <1>3, <1>4, <1>7, <1>8, <1>9

(* What makes a message a shown answer. *)
LEMMA ShownWhen ==
  ASSUME NEW i \in Ids, Kind(i) = "answer", messages[i].deleted = FALSE,
         attempts[messages[i].attempt].selected = TRUE
  PROVE  i \in ShownAnswers
BY DEF ShownAnswers, Answers, Alive, Shown

(* An answer is shown on when it and its attempt stay as they are. *)
LEMMA ShownByFields ==
  ASSUME TypeOK, LogInv, NEW i \in ShownAnswers, i \in Ids',
         messages'[i].kind = messages[i].kind,
         messages'[i].deleted = messages[i].deleted,
         messages'[i].attempt = messages[i].attempt,
         attempts'[messages[i].attempt].selected = attempts[messages[i].attempt].selected,
         attempts'[messages[i].attempt].turn = attempts[messages[i].attempt].turn
  PROVE  ShowsOn(i)
<1>1. i \in ShownAnswers'
  BY ShownFacts DEF ShownAnswers, Answers, Alive, Shown, Kind
<1>2. QED
  BY <1>1 DEF ShowsOn, TurnOf

(* Then no turn is left blank. *)
LEMMA AnsweredByShown ==
  ASSUME \A i \in ShownAnswers : ShowsOn(i)
  PROVE  StaysAnswered
BY DEF StaysAnswered, ShowsOn

-----------------------------------------------------------------------------
(* Admissions *)

(* A new turn has its first attempt selected; the others are as they were. *)
LEMMA SendKeepsLog ==
  ASSUME TypeOK, LogInv, Send
  PROVE  TypeOK' /\ LogInv' /\ WorkInv' /\ SelectionStep /\ KindsStay
<1>0. PICK n \in Nat, m \in Nat : n = Len(messages) /\ m = Len(attempts)
  BY Fields
<1> DEFINE a == [turn |-> n + 1, selected |-> TRUE, status |-> "running"]
<1>1. /\ messages' = Append(messages, Plain("turn", 0)) /\ attempts' = Append(attempts, a)
      /\ work' = [NoWork EXCEPT !.kind = "chat", !.attempt = m + 1]
      /\ revision' = revision /\ derived' = derived
  BY <1>0 DEF Send, Begin
<1>2. Ids = 1 .. n /\ Attempts = 1 .. m
  BY <1>0 DEF Ids, Attempts
<1>3a. PICK x \in Message : IsNew(x, "turn", 0)
  BY NewTurn
<1>3. /\ x \in Message /\ x = Plain("turn", 0) /\ x.by = 0 /\ x.kind = "turn"
      /\ x.deleted = FALSE /\ x.attempt = 0 /\ x.before = 0
  BY <1>3a DEF IsNew
<1>4. a \in Attempt
  BY DEF Attempt
<1>5. /\ messages' \in Seq(Message) /\ Len(messages') = n + 1 /\ Ids' = 1 .. n + 1
      /\ messages'[n + 1] = x /\ \A i \in Ids : messages'[i] = messages[i]
  BY <1>0, <1>1, <1>2, <1>3, MessageAppended DEF TypeOK
<1>6. /\ attempts' \in Seq(Attempt) /\ Attempts' = 1 .. m + 1
      /\ attempts'[m + 1] = a /\ \A k \in Attempts : attempts'[k] = attempts[k]
  BY <1>0, <1>1, <1>2, <1>4, AttemptAppended DEF TypeOK
<1>7. TypeOK'
  <2>1. work' \in Run
    <3>1. m + 1 \in Nat
      OBVIOUS
    <3>2. QED
      BY <1>1, <3>1, ChatRun
  <2>2. messages' \in Seq(Message) /\ attempts' \in Seq(Attempt)
    BY <1>5, <1>6
  <2>3. revision' \in Nat /\ derived' \in Derived
    BY <1>1 DEF TypeOK
  <2>4. QED
    BY <2>1, <2>2, <2>3 DEF TypeOK
<1>8. \A k \in Attempts : attempts[k].turn \in Ids
  BY DEF LogInv, AttemptInv
<1>9. ASSUME NEW k \in Attempts' PROVE AttemptInv(k)'
  <2>1. CASE k = m + 1
    BY <1>2, <1>5, <1>6, <2>1 DEF AttemptInv
  <2>2. CASE k \in Attempts
    BY <1>2, <1>5, <1>6, <1>8, <2>2, SMTT(30) DEF AttemptInv, LogInv
  <2>3. QED
    BY <1>2, <1>6, <2>1, <2>2
<1>10. ASSUME NEW i \in Ids' PROVE MessageInv(i)'
  <2>1. CASE i = n + 1
    BY <1>2, <1>3, <1>5, <2>1 DEF MessageInv, Kind
  <2>2. CASE i \in Ids
    <3>1. Attempts \subseteq Attempts' /\ Ids \subseteq Ids'
      BY <1>2, <1>5, <1>6
    <3>2. QED
      BY <1>5, <1>6, <2>2, <3>1, MessageIsKept
  <2>3. QED
    BY <1>2, <1>5, <2>1, <2>2
<1>11. ASSUME NEW t \in Ids' PROVE TurnInv(t)'
  <2>1. CASE t = n + 1
    <3>1. Picked(m + 1, t)' /\ m + 1 \in Attempts'
      BY <1>2, <1>6, <2>1 DEF Picked
    <3>2. \A j \in Attempts' : Picked(j, t)' => j = m + 1
      BY <1>2, <1>6, <1>8, <2>1 DEF Picked
    <3>3. HasOne(t)'
      BY <3>1, <3>2 DEF HasOne
    <3>4. QED
      BY <1>3, <1>5, <2>1, <3>3 DEF TurnInv
  <2>2. CASE t \in Ids
    <3>1. \A k \in Attempts : Picked(k, t)' <=> Picked(k, t)
      BY <1>6 DEF Picked
    <3>2. \A k \in Attempts' \ Attempts : ~Picked(k, t)'
      BY <1>2, <1>6, <2>2 DEF Picked
    <3>3. Attempts \subseteq Attempts' /\ TurnInv(t)
      BY <1>2, <1>6, <2>2 DEF LogInv
    <3>4. QED
      BY <1>5, <2>2, <3>1, <3>2, <3>3, TurnIsKept
  <2>3. QED
    BY <1>2, <1>5, <2>1, <2>2
<1>12. /\ \A i \in Ids' : ByInv(i)'
       /\ \A i, j \in Ids' : OrderInv(i, j)'
  BY <1>1, <1>3, OrderOfGrownLog
<1>13. LogInv'
  BY <1>9, <1>10, <1>11, <1>12 DEF LogInv
<1>14. WorkInv'
  <2>1. work'.kind = "chat" /\ work'.attempt = m + 1 /\ work'.preserve = 0
    <3>1. m + 1 \in Nat
      OBVIOUS
    <3>2. QED
      BY <1>1, <3>1, ChatRun
  <2>2. TurnIsAlive(work.attempt)'
    BY <1>3, <1>5, <1>6, <2>1 DEF TurnIsAlive
  <2>3. QED
    BY <1>5, <1>6, <2>1, <2>2 DEF WorkInv
<1>15. ASSUME NEW i \in ShownAnswers PROVE ShowsOn(i)
  <2>1. i \in Ids /\ messages[i].attempt \in Attempts
    BY ShownFacts
  <2>2. i \in Ids'
    BY <1>2, <1>5, <2>1
  <2>3. QED
    BY <1>5, <1>6, <2>1, <2>2, ShownByFields
<1>16. KindsStay
  BY <1>2, <1>5 DEF KindsStay
<1>17. QED
  BY <1>16, <1>1, <1>7, <1>13, <1>14, <1>15 DEF SelectionStep

(* What a retry asks again, or a compaction preserves, is a listed message. *)
LEMMA RetriedAreListed ==
  ASSUME TypeOK
  PROVE  RetriedUsers \subseteq Listed
<1>1. SUFFICES ASSUME NEW u \in RetriedUsers PROVE u \in Listed
  OBVIOUS
<1>2. PICK n \in Nat : n = Len(messages)
  BY Fields
<1>3. ASSUME NEW S, S \subseteq Listed, S # {} PROVE Greatest(S) \in Listed
  <2>1. S \subseteq 0 .. n
    BY <1>2, <1>3 DEF Listed, Ids
  <2>2. QED
    BY <1>3, <2>1, GreatestExists
<1>4. RetryTargets \subseteq Listed
  <2>1. {i \in Listed : Kind(i) # "summary"} \subseteq Listed
    OBVIOUS
  <2>2. QED
    BY <1>3, <2>1 DEF RetryTargets
<1>5. CASE u \in {t \in RetryTargets : Kind(t) = "turn"}
  BY <1>4, <1>5
<1>6. CASE u \in {Greatest(UsersBefore(i)) :
                   i \in {t \in RetryTargets : Kind(t) # "turn" /\ UsersBefore(t) # {}}}
  <2>1. PICK i \in RetryTargets : u = Greatest(UsersBefore(i)) /\ UsersBefore(i) # {}
    BY <1>6
  <2>2. UsersBefore(i) \subseteq Listed
    BY DEF UsersBefore
  <2>3. QED
    BY <1>3, <2>1, <2>2
<1>7. QED
  BY <1>5, <1>6 DEF RetriedUsers

(* A retry begins an attempt that is not selected. *)
LEMMA RetryKeepsLog ==
  ASSUME TypeOK, LogInv, Retry
  PROVE  TypeOK' /\ LogInv' /\ WorkInv' /\ SelectionStep /\ KindsStay
<1>0. PICK n \in Nat, m \in Nat : n = Len(messages) /\ m = Len(attempts)
  BY Fields
<1>1. PICK u \in RetriedUsers : Begin(u, FALSE)
  BY DEF Retry
<1>2. Ids = 1 .. n /\ Attempts = 1 .. m
  BY <1>0 DEF Ids, Attempts
<1>3. u \in Ids /\ messages[u].deleted = FALSE
  <2>1. u \in Listed
    BY <1>1, RetriedAreListed
  <2>2. u \in Ids /\ ~messages[u].deleted
    BY <2>1 DEF Listed, Alive
  <2>3. messages[u] \in Message
    BY <2>2, Fields
  <2>4. QED
    BY <2>2, <2>3 DEF Message
<1> DEFINE a == [turn |-> u, selected |-> FALSE, status |-> "running"]
<1>4. a \in Attempt
  BY <1>2, <1>3 DEF Attempt
<1>5. /\ attempts' = Append(attempts, a)
      /\ work' = [NoWork EXCEPT !.kind = "chat", !.attempt = m + 1]
      /\ messages' = messages /\ revision' = revision /\ derived' = derived
      /\ Ids' = Ids
  BY <1>0, <1>1 DEF Retry, Begin, Ids
<1>6. /\ attempts' \in Seq(Attempt) /\ Attempts' = 1 .. m + 1
      /\ attempts'[m + 1] = a /\ \A k \in Attempts : attempts'[k] = attempts[k]
      /\ attempts'[m + 1].turn = u /\ attempts'[m + 1].status = "running"
  BY <1>0, <1>2, <1>4, <1>5, AttemptAppended DEF TypeOK
<1>7. /\ work' \in Run /\ work'.kind = "chat" /\ work'.attempt = m + 1
      /\ work'.preserve = 0
  <2>1. m + 1 \in Nat
    OBVIOUS
  <2>2. QED
    BY <1>5, <2>1, ChatRun
<1>8. TypeOK'
  BY <1>5, <1>6, <1>7 DEF TypeOK
<1>9. Attempts \subseteq Attempts' /\ m + 1 \in Attempts'
  BY <1>2, <1>6
<1>10. ASSUME NEW k \in Attempts' PROVE AttemptInv(k)'
  <2>1. CASE k = m + 1
    <3>1. attempts'[k].turn \in Ids'
      BY <1>3, <1>5, <1>6, <2>1
    <3>2. QED
      BY <1>6, <2>1, <3>1 DEF AttemptInv
  <2>2. CASE k \in Attempts
    BY <1>5, <1>6, <2>2 DEF AttemptInv, LogInv
  <2>3. QED
    BY <1>2, <1>6, <2>1, <2>2
<1>11. ASSUME NEW i \in Ids' PROVE MessageInv(i)'
  BY <1>5, <1>6, <1>9, MessageIsKept
<1>12. ASSUME NEW t \in Ids' PROVE TurnInv(t)'
  <2>1. \A k \in Attempts : Picked(k, t)' <=> Picked(k, t)
    BY <1>6 DEF Picked
  <2>2. \A k \in Attempts' \ Attempts : ~Picked(k, t)'
    BY <1>2, <1>6 DEF Picked
  <2>3. TurnInv(t) /\ t \in Ids
    BY <1>5 DEF LogInv
  <2>4. QED
    BY <1>5, <1>9, <2>1, <2>2, <2>3, TurnIsKept
<1>13. /\ \A i \in Ids' : ByInv(i)'
       /\ \A i, j \in Ids' : OrderInv(i, j)'
  BY <1>5 DEF LogInv, ByInv, OrderInv, Compressed, Kind
<1>14. LogInv'
  BY <1>10, <1>11, <1>12, <1>13 DEF LogInv
<1>15. WorkInv'
  <2>1. TurnIsAlive(work.attempt)'
    <3>1. attempts'[work'.attempt].turn = u
      BY <1>6, <1>7
    <3>2. messages'[u].deleted = FALSE
      BY <1>3, <1>5
    <3>3. QED
      BY <3>1, <3>2 DEF TurnIsAlive
  <2>2. work'.preserve <= Len(messages')
    BY <1>0, <1>5, <1>7
  <2>3. QED
    BY <1>6, <1>7, <1>9, <2>1, <2>2 DEF WorkInv
<1>16. ASSUME NEW i \in ShownAnswers PROVE ShowsOn(i)
  <2>1. i \in Ids /\ messages[i].attempt \in Attempts
    BY ShownFacts
  <2>2. QED
    BY <1>5, <1>6, <2>1, ShownByFields
<1>17. KindsStay
  BY <1>5 DEF KindsStay
<1>18. QED
  BY <1>17, <1>5, <1>8, <1>14, <1>15, <1>16 DEF SelectionStep

(* The last listed turn is the last turn there is, and no answer is shown      *)
(* after it, unless it has one itself: an edit hides nothing else.            *)
LEMMA NothingAfterEdited ==
  ASSUME TypeOK, LogInv, NEW t \in EditTargets
  PROVE  /\ t \in Ids /\ Kind(t) = "turn" /\ messages[t].deleted = FALSE
         /\ \A i \in Ids : Kind(i) = "turn" /\ messages[i].deleted = FALSE => i <= t
         /\ \A i \in ShownAnswers : i < t
<1>0. PICK n \in Nat : n = Len(messages)
  BY Fields
<1>1. /\ t \in Listed /\ Kind(t) = "turn"
      /\ \A i \in Listed : Kind(i) = "turn" => i <= t
      /\ \A i \in Listed : i > t => Kind(i) # "answer"
  BY DEF EditTargets
<1>2. t \in Ids /\ ~messages[t].deleted /\ messages[t].by \in {0, t}
  BY <1>1 DEF Listed, Alive
<1>3. messages[t].deleted = FALSE
  BY <1>2, Fields DEF Message
<1>4. ~Compressed(t)
  <2>1. Compressed(t) => Kind(messages[t].by) = "summary"
    BY <1>2 DEF LogInv, ByInv
  <2>2. Compressed(t) => messages[t].by = t
    BY <1>2 DEF Compressed
  <2>3. QED
    BY <1>1, <2>1, <2>2
<1>5. ASSUME NEW i \in Ids, i > t, messages[i].deleted = FALSE,
             Kind(i) \in {"turn", "answer"}, Shown(i)
      PROVE  i \in Listed
  <2>1. OrderInv(t, i) /\ t < i
    BY <1>0, <1>2, <1>5 DEF LogInv, Ids
  <2>2. ~Compressed(i)
    BY <1>1, <1>3, <1>4, <2>1 DEF OrderInv
  <2>3. messages[i].by = 0
    BY <1>5, <2>2 DEF Compressed
  <2>4. QED
    BY <1>5, <2>3 DEF Listed, Alive
<1>6. ASSUME NEW i \in Ids, Kind(i) = "turn", messages[i].deleted = FALSE
      PROVE  i <= t
  <2>1. SUFFICES ASSUME i > t PROVE FALSE
    BY <1>0, <1>2 DEF Ids
  <2>2. messages[i].attempt = 0
    BY <1>6 DEF LogInv, MessageInv, IsUser
  <2>3. i \in Listed
    BY <1>5, <1>6, <2>1, <2>2 DEF Shown
  <2>4. i <= t
    BY <1>1, <1>6, <2>3
  <2>5. QED
    BY <1>0, <1>2, <2>1, <2>4 DEF Ids
<1>7. ASSUME NEW i \in ShownAnswers
      PROVE  i < t
  <2>1. i \in Ids /\ Kind(i) = "answer" /\ messages[i].deleted = FALSE /\ Shown(i)
    BY ShownFacts DEF ShownAnswers
  <2>2. i # t
    BY <1>1, <2>1
  <2>3. ~(i > t)
    BY <1>1, <1>5, <2>1
  <2>4. QED
    BY <1>0, <1>2, <2>1, <2>2, <2>3 DEF Ids
<1>8. QED
  BY <1>1, <1>2, <1>3, <1>6, <1>7

(* What hiding the end of the log does to its messages. *)
LEMMA HiddenFields ==
  ASSUME TypeOK, NEW t \in Ids
  PROVE  LET log == HideFrom(messages, t)
         IN  /\ log \in Seq(Message) /\ Len(log) = Len(messages)
             /\ \A i \in Ids : /\ log[i].kind = messages[i].kind
                               /\ log[i].attempt = messages[i].attempt
                               /\ log[i].before = messages[i].before
                               /\ i >= t => log[i].deleted = TRUE
                               /\ ~(i >= t) => log[i] = messages[i]
<1>0. PICK n \in Nat : n = Len(messages)
  BY Fields
<1> DEFINE log == HideFrom(messages, t)
<1>1. Ids = 1 .. n /\ DOMAIN messages = 1 .. n /\ \A i \in 1 .. n : messages[i] \in Message
  BY <1>0, Fields DEF Ids
<1>2. log = [i \in 1 .. n |-> IF i >= t THEN [messages[i] EXCEPT !.deleted = TRUE]
                                        ELSE messages[i]]
  BY <1>1 DEF HideFrom
<1>3. ASSUME NEW x \in Message
      PROVE  /\ [x EXCEPT !.deleted = TRUE] \in Message
             /\ [x EXCEPT !.deleted = TRUE].deleted = TRUE
             /\ [x EXCEPT !.deleted = TRUE].kind = x.kind
             /\ [x EXCEPT !.deleted = TRUE].attempt = x.attempt
             /\ [x EXCEPT !.deleted = TRUE].before = x.before
  BY DEF Message
<1>4. log \in [1 .. n -> Message]
  BY <1>1, <1>2, <1>3
<1>5. log \in Seq(Message) /\ Len(log) = n
  BY <1>4
<1>6. ASSUME NEW i \in Ids
      PROVE  /\ log[i].kind = messages[i].kind
             /\ log[i].attempt = messages[i].attempt
             /\ log[i].before = messages[i].before
             /\ i >= t => log[i].deleted = TRUE
             /\ ~(i >= t) => log[i] = messages[i]
  <2>1. CASE i >= t
    BY <1>1, <1>2, <1>3, <2>1, ZenonT(60)
  <2>2. CASE ~(i >= t)
    BY <1>1, <1>2, <2>2
  <2>3. QED
    BY <2>1, <2>2
<1>7. QED
  BY <1>0, <1>5, <1>6

(* What taking the selection of a turn away does to the attempts. *)
LEMMA UnselectedFields ==
  ASSUME TypeOK, NEW t
  PROVE  LET list == Unselected(t)
         IN  /\ list \in Seq(Attempt) /\ Len(list) = Len(attempts)
             /\ \A k \in Attempts : /\ list[k].turn = attempts[k].turn
                                    /\ list[k].status = attempts[k].status
                                    /\ attempts[k].turn = t => list[k].selected = FALSE
                                    /\ attempts[k].turn # t => list[k] = attempts[k]
<1>0. PICK m \in Nat : m = Len(attempts)
  BY Fields
<1> DEFINE list == Unselected(t)
<1>1. Attempts = 1 .. m /\ \A k \in 1 .. m : attempts[k] \in Attempt
  BY <1>0, Fields DEF Attempts
<1>2. list = [k \in 1 .. m |-> IF attempts[k].turn = t
                                 THEN [attempts[k] EXCEPT !.selected = FALSE] ELSE attempts[k]]
  BY <1>1 DEF Unselected
<1>3. ASSUME NEW x \in Attempt
      PROVE  /\ [x EXCEPT !.selected = FALSE] \in Attempt
             /\ [x EXCEPT !.selected = FALSE].selected = FALSE
             /\ [x EXCEPT !.selected = FALSE].turn = x.turn
             /\ [x EXCEPT !.selected = FALSE].status = x.status
  BY DEF Attempt
<1>4. list \in [1 .. m -> Attempt]
  BY <1>1, <1>2, <1>3
<1>5. list \in Seq(Attempt) /\ Len(list) = m
  BY <1>4
<1>6. ASSUME NEW k \in Attempts
      PROVE  /\ list[k].turn = attempts[k].turn
             /\ list[k].status = attempts[k].status
             /\ attempts[k].turn = t => list[k].selected = FALSE
             /\ attempts[k].turn # t => list[k] = attempts[k]
  <2>1. CASE attempts[k].turn = t
    BY <1>1, <1>2, <1>3, <2>1
  <2>2. CASE attempts[k].turn # t
    BY <1>1, <1>2, <2>2
  <2>3. QED
    BY <2>1, <2>2
<1>7. QED
  BY <1>0, <1>5, <1>6

(* An edit hides its turn, and with it the selection of the turn, and nothing  *)
(* that another turn needs; its new turn has the new attempt selected.        *)
LEMMA EditKeepsLog ==
  ASSUME TypeOK, LogInv, Edit
  PROVE  TypeOK' /\ LogInv' /\ WorkInv' /\ SelectionStep /\ KindsStay /\ StaysAnswered
<1>0. PICK n \in Nat, m \in Nat : n = Len(messages) /\ m = Len(attempts)
  BY Fields
<1> DEFINE a == [turn |-> n + 1, selected |-> TRUE, status |-> "running"]
<1>1. PICK t \in EditTargets :
        /\ messages' = Append(HideFrom(messages, t), Plain("turn", 0))
        /\ attempts' = Append(Unselected(t), a)
  BY <1>0 DEF Edit
<1>2. /\ work' = [NoWork EXCEPT !.kind = "chat", !.attempt = m + 1]
      /\ revision' = revision + 1 /\ derived' = derived
  BY <1>0 DEF Edit
<1>3. Ids = 1 .. n /\ Attempts = 1 .. m
  BY <1>0 DEF Ids, Attempts
<1>4. /\ t \in Ids /\ Kind(t) = "turn" /\ messages[t].deleted = FALSE
      /\ \A i \in Ids : Kind(i) = "turn" /\ messages[i].deleted = FALSE => i <= t
      /\ \A i \in ShownAnswers : i < t
  BY <1>1, NothingAfterEdited
<1>5a. PICK x \in Message : IsNew(x, "turn", 0)
  BY NewTurn
<1>5. /\ x \in Message /\ x = Plain("turn", 0) /\ x.by = 0 /\ x.kind = "turn"
      /\ x.deleted = FALSE /\ x.attempt = 0 /\ x.before = 0
  BY <1>5a DEF IsNew
<1>6. PICK log \in Seq(Message) :
        /\ log = HideFrom(messages, t) /\ Len(log) = n
        /\ \A i \in Ids : /\ log[i].kind = messages[i].kind
                          /\ log[i].attempt = messages[i].attempt
                          /\ log[i].before = messages[i].before
                          /\ i >= t => log[i].deleted = TRUE
                          /\ ~(i >= t) => log[i] = messages[i]
  BY <1>0, <1>4, HiddenFields
<1>7. /\ messages' \in Seq(Message) /\ Len(messages') = n + 1 /\ Ids' = 1 .. n + 1
      /\ messages'[n + 1] = x /\ \A i \in Ids : messages'[i] = log[i]
  BY <1>1, <1>3, <1>5, <1>6, MessageAppended
<1>8. PICK list \in Seq(Attempt) :
        /\ list = Unselected(t) /\ Len(list) = m
        /\ \A k \in Attempts : /\ list[k].turn = attempts[k].turn
                               /\ list[k].status = attempts[k].status
                               /\ attempts[k].turn = t => list[k].selected = FALSE
                               /\ attempts[k].turn # t => list[k] = attempts[k]
  BY <1>0, UnselectedFields, ZenonT(60)
<1>9. a \in Attempt
  BY DEF Attempt
<1>10. /\ attempts' \in Seq(Attempt) /\ Attempts' = 1 .. m + 1
       /\ attempts'[m + 1] = a /\ \A k \in Attempts : attempts'[k] = list[k]
  BY <1>1, <1>3, <1>8, <1>9, AttemptAppended, SMTT(30)
<1>11. /\ work' \in Run /\ work'.kind = "chat" /\ work'.attempt = m + 1
       /\ work'.preserve = 0
  <2>1. m + 1 \in Nat
    OBVIOUS
  <2>2. QED
    BY <1>2, <2>1, ChatRun
<1>12. TypeOK'
  BY <1>2, <1>7, <1>10, <1>11, SMTT(30) DEF TypeOK
<1>13. \A k \in Attempts : attempts[k].turn \in Ids /\ k \in Attempts'
  BY <1>3, <1>10 DEF LogInv, AttemptInv
<1>14. ASSUME NEW k \in Attempts' PROVE AttemptInv(k)'
  <2>1. CASE k = m + 1
    BY <1>3, <1>7, <1>10, <2>1 DEF AttemptInv
  <2>2. CASE k \in Attempts
    <3>1. AttemptInv(k) /\ attempts[k].turn \in Ids'
      BY <1>3, <1>7, <2>2 DEF LogInv, AttemptInv
    <3>2. attempts'[k].turn = attempts[k].turn /\ attempts'[k].status = attempts[k].status
      BY <1>8, <1>10, <2>2
    <3>3. attempts'[k].selected = FALSE \/ attempts'[k].selected = attempts[k].selected
      BY <1>8, <1>10, <2>2
    <3>4. QED
      BY <3>1, <3>2, <3>3 DEF AttemptInv
  <2>3. QED
    BY <1>3, <1>10, <2>1, <2>2
<1>15. ASSUME NEW i \in Ids, i < t
       PROVE  i \in Ids' /\ messages'[i] = messages[i]
  BY <1>3, <1>4, <1>6, <1>7, <1>15
<1>16. ASSUME NEW i \in Ids, messages'[i].deleted = FALSE
       PROVE  i < t /\ messages'[i] = messages[i]
  BY <1>3, <1>4, <1>6, <1>7, <1>16
<1>17. ASSUME NEW i \in Ids' PROVE MessageInv(i)'
  <2>1. CASE i = n + 1
    BY <1>3, <1>5, <1>7, <2>1 DEF MessageInv, Kind
  <2>2. CASE i \in Ids
    <3>1. MessageInv(i)
      BY <2>2 DEF LogInv
    <3>2. /\ messages'[i].kind = messages[i].kind
          /\ messages'[i].attempt = messages[i].attempt
          /\ messages'[i].before = messages[i].before
      BY <1>6, <1>7, <2>2
    <3>3. messages'[i].attempt \in Attempts' \cup {0} /\ messages'[i].before <= i
      BY <1>13, <3>1, <3>2 DEF MessageInv
    <3>4. ASSUME messages'[i].attempt # 0, messages'[i].deleted = FALSE
          PROVE  attempts'[messages'[i].attempt].turn < i /\ TurnIsAlive(messages[i].attempt)'
      <4>1. i < t /\ messages'[i] = messages[i]
        BY <1>16, <2>2, <3>4
      <4>2. PICK k \in Attempts : k = messages[i].attempt
        BY <3>1, <3>2, <3>4 DEF MessageInv
      <4>3. attempts[k].turn < i /\ TurnIsAlive(k)
        BY <3>1, <3>4, <4>1, <4>2 DEF MessageInv
      <4>4. PICK s \in Ids : s = attempts[k].turn /\ s < t
        BY <1>3, <1>4, <1>13, <2>2, <4>1, <4>3
      <4>5. messages'[s] = messages[s] /\ attempts'[k].turn = s
        BY <1>8, <1>10, <1>15, <4>4
      <4>6. TurnIsAlive(k)'
        BY <4>3, <4>4, <4>5 DEF TurnIsAlive, Kind
      <4>7. QED
        BY <3>2, <4>2, <4>3, <4>4, <4>5, <4>6
    <3>5. messages'[i].deleted = FALSE => messages[i].deleted = FALSE
      BY <1>16, <2>2
    <3>6. QED
      BY <3>1, <3>2, <3>3, <3>4, <3>5 DEF MessageInv, IsUser, Kind
  <2>3. QED
    BY <1>3, <1>7, <2>1, <2>2
<1>18. ASSUME NEW s \in Ids' PROVE TurnInv(s)'
  <2>1. CASE s = n + 1
    <3>1. Picked(m + 1, s)' /\ m + 1 \in Attempts'
      BY <1>3, <1>10, <2>1 DEF Picked
    <3>2. \A j \in Attempts' : Picked(j, s)' => j = m + 1
      BY <1>3, <1>8, <1>10, <1>13, <2>1 DEF Picked
    <3>3. HasOne(s)'
      BY <3>1, <3>2 DEF HasOne
    <3>4. QED
      BY <1>5, <1>7, <2>1, <3>3 DEF TurnInv
  <2>2. CASE s = t
    <3>1. \A k \in Attempts : ~Picked(k, s)'
      BY <1>8, <1>10, <2>2 DEF Picked
    <3>2. ~Picked(m + 1, s)'
      BY <1>3, <1>4, <1>10, <2>2 DEF Picked
    <3>3. HasNone(s)'
      BY <1>3, <1>10, <3>1, <3>2 DEF HasNone
    <3>4. messages'[s].deleted = TRUE
      BY <1>3, <1>4, <1>6, <1>7, <2>2
    <3>5. QED
      BY <3>3, <3>4 DEF TurnInv
  <2>3. CASE s \in Ids /\ s # t
    <3>1. SUFFICES ASSUME Kind(s)' = "turn" PROVE TurnInv(s)'
      BY DEF TurnInv
    <3>2. Kind(s) = "turn" /\ messages'[s].kind = messages[s].kind
      BY <1>6, <1>7, <2>3, <3>1 DEF Kind
    <3>3. messages'[s].deleted = messages[s].deleted
      <4>1. CASE s < t
        BY <1>15, <2>3, <4>1
      <4>2. CASE s > t
        <5>1. messages[s] \in Message
          BY <2>3, Fields
        <5>2. messages[s].deleted # FALSE
          <6>1. messages[s].deleted = FALSE => s <= t
            BY <1>4, <2>3, <3>2
          <6>2. ~(s <= t)
            BY <1>3, <1>4, <2>3, <4>2
          <6>3. QED
            BY <6>1, <6>2
        <5>3. messages[s].deleted = TRUE
          BY <5>1, <5>2 DEF Message
        <5>4. messages'[s].deleted = TRUE
          BY <1>3, <1>4, <1>6, <1>7, <2>3, <4>2
        <5>5. QED
          BY <5>3, <5>4
      <4>3. QED
        BY <1>3, <1>4, <2>3, <4>1, <4>2
    <3>4. \A k \in Attempts : Picked(k, s)' <=> Picked(k, s)
      BY <1>8, <1>10, <2>3 DEF Picked
    <3>5. \A k \in Attempts' \ Attempts : ~Picked(k, s)'
      BY <1>3, <1>10, <2>3 DEF Picked
    <3>6. Attempts \subseteq Attempts' /\ TurnInv(s)
      BY <1>13, <2>3 DEF LogInv
    <3>7. QED
      BY <2>3, <3>2, <3>3, <3>4, <3>5, <3>6, TurnIsKept
  <2>4. QED
    BY <1>3, <1>7, <2>1, <2>2, <2>3
<1>19. ASSUME NEW i \in Ids', Compressed(i)'
       PROVE  i \in Ids /\ i < t /\ messages'[i] = messages[i] /\ Compressed(i)
  <2>1. i # n + 1
    BY <1>5, <1>7, <1>19 DEF Compressed
  <2>2. i \in Ids
    BY <1>3, <1>7, <2>1
  <2>3. i < t /\ messages'[i] = messages[i]
    BY <1>16, <1>19, <2>2 DEF Compressed
  <2>4. QED
    BY <1>19, <2>2, <2>3 DEF Compressed, Kind
<1>20. ASSUME NEW i \in Ids' PROVE ByInv(i)'
  <2>1. SUFFICES ASSUME Compressed(i)' PROVE ByInv(i)'
    BY DEF ByInv
  <2>2. i \in Ids /\ messages'[i] = messages[i] /\ Compressed(i)
    BY <1>19, <2>1
  <2>3. messages[i].by \in Ids /\ Kind(messages[i].by) = "summary"
    BY <2>2 DEF LogInv, ByInv
  <2>4. PICK b \in Ids : b = messages[i].by
    BY <2>3
  <2>5. b \in Ids' /\ messages'[b].kind = "summary"
    BY <1>3, <1>6, <1>7, <2>3, <2>4 DEF Kind
  <2>6. n + 1 \in Ids' /\ n + 1 > b
    BY <1>3, <1>7
  <2>7. messages'[n + 1].kind = "turn" /\ messages'[n + 1].deleted = FALSE
    BY <1>5, <1>7
  <2>8. QED
    BY <2>2, <2>4, <2>5, <2>6, <2>7 DEF ByInv, Kind
<1>21. ASSUME NEW i \in Ids', NEW j \in Ids' PROVE OrderInv(i, j)'
  <2>1. SUFFICES ASSUME i < j, Compressed(j)' PROVE OrderInv(i, j)'
    BY DEF OrderInv
  <2>2. j \in Ids /\ j < t /\ messages'[j] = messages[j] /\ Compressed(j)
    BY <1>19, <2>1
  <2>3. i \in Ids /\ messages'[i] = messages[i]
    BY <1>3, <1>4, <1>7, <1>15, <2>1, <2>2
  <2>4. OrderInv(i, j)
    BY <2>2, <2>3 DEF LogInv
  <2>5. QED
    BY <2>1, <2>2, <2>3, <2>4 DEF OrderInv, Compressed, Kind
<1>22. LogInv'
  BY <1>14, <1>17, <1>18, <1>20, <1>21 DEF LogInv
<1>23. WorkInv'
  <2>1. TurnIsAlive(work.attempt)'
    BY <1>5, <1>7, <1>10, <1>11 DEF TurnIsAlive
  <2>2. QED
    BY <1>3, <1>7, <1>10, <1>11, <2>1 DEF WorkInv
<1>24. ASSUME NEW s \in Turns, NEW i \in ShownAnswers, TurnOf(i) = s
       PROVE  ~Alive(s)' \/ (\E j \in ShownAnswers : TurnOf(j) = s)'
  <2>1. PICK k \in Attempts : k = messages[i].attempt
    BY ShownFacts
  <2>2. /\ i \in Ids /\ i < t /\ attempts[k].turn = s /\ s \in Ids /\ s < i
        /\ Kind(i) = "answer" /\ messages[i].deleted = FALSE
        /\ attempts[k].selected = TRUE
    BY <1>4, <1>24, <2>1, ShownFacts DEF TurnOf
  <2>3. s # t
    BY <1>3, <1>4, <2>2
  <2>4. attempts'[k] = attempts[k]
    BY <1>8, <1>10, <2>2, <2>3
  <2>5. messages'[i] = messages[i] /\ i \in Ids'
    BY <1>15, <2>2
  <2>6. ShowsOn(i)
    BY <2>1, <2>4, <2>5, ShownByFields
  <2>7. QED
    BY <1>24, <2>6 DEF ShowsOn
<1>25. KindsStay
  BY <1>3, <1>6, <1>7 DEF KindsStay
<1>26. QED
  BY <1>25, <1>2, <1>12, <1>22, <1>23, <1>24 DEF SelectionStep, StaysAnswered

-----------------------------------------------------------------------------
(* The end of a chat run *)

(* What the end of its run does to an attempt and to the others of the turn. *)
LEMMA FinishedFields ==
  ASSUME TypeOK, NEW k \in Attempts, NEW outcome \in {"completed", "incomplete", "failed"},
         FinishAttempt(k, outcome)
  PROVE  /\ attempts' \in Seq(Attempt) /\ Len(attempts') = Len(attempts)
         /\ \A j \in Attempts : attempts'[j].turn = attempts[j].turn
         /\ \A j \in Attempts \ {k} : attempts'[j].status = attempts[j].status
         /\ attempts'[k].status = outcome
         /\ ~TakesOver(k, outcome) =>
              /\ \A j \in Attempts : attempts'[j].selected = attempts[j].selected
              /\ revision' = revision
         /\ TakesOver(k, outcome) =>
              /\ attempts'[k].selected = TRUE
              /\ \A j \in Attempts \ {k} :
                   IF attempts[j].turn = attempts[k].turn
                     THEN attempts'[j].selected = FALSE
                     ELSE attempts'[j].selected = attempts[j].selected
              /\ revision' = revision + 1
<1>0. PICK m \in Nat : m = Len(attempts)
  BY Fields
<1>1. Attempts = 1 .. m /\ \A j \in 1 .. m : attempts[j] \in Attempt
  BY <1>0, Fields DEF Attempts
<1>2. PICK takes \in BOOLEAN : takes = TakesOver(k, outcome)
  BY DEF TakesOver
<1> DEFINE at(j) ==
      CASE j = k -> [attempts[j] EXCEPT !.status = outcome, !.selected = @ \/ takes]
        [] j # k /\ takes /\ attempts[j].turn = attempts[k].turn ->
             [attempts[j] EXCEPT !.selected = FALSE]
        [] OTHER -> attempts[j]
<1>3. attempts' = [j \in 1 .. m |-> at(j)] /\ revision' = IF takes THEN revision + 1 ELSE revision
  BY <1>1, <1>2 DEF FinishAttempt
<1>4. ASSUME NEW x \in Attempt, NEW b \in BOOLEAN
      PROVE  /\ [x EXCEPT !.status = outcome, !.selected = @ \/ b] \in Attempt
             /\ [x EXCEPT !.status = outcome, !.selected = @ \/ b].status = outcome
             /\ [x EXCEPT !.status = outcome, !.selected = @ \/ b].turn = x.turn
             /\ b = TRUE => [x EXCEPT !.status = outcome, !.selected = @ \/ b].selected = TRUE
             /\ b = FALSE => [x EXCEPT !.status = outcome, !.selected = @ \/ b].selected = x.selected
  BY DEF Attempt
<1>5. ASSUME NEW x \in Attempt
      PROVE  /\ [x EXCEPT !.selected = FALSE] \in Attempt
             /\ [x EXCEPT !.selected = FALSE].selected = FALSE
             /\ [x EXCEPT !.selected = FALSE].turn = x.turn
             /\ [x EXCEPT !.selected = FALSE].status = x.status
  BY DEF Attempt
<1>6. /\ at(k) \in Attempt /\ at(k).status = outcome /\ at(k).turn = attempts[k].turn
      /\ takes = TRUE => at(k).selected = TRUE
      /\ takes = FALSE => at(k).selected = attempts[k].selected
  <2>1. PICK x \in Attempt : x = attempts[k]
    BY <1>1
  <2> DEFINE y == [x EXCEPT !.status = outcome, !.selected = @ \/ takes]
  <2>2. at(k) = y
    BY <2>1
  <2>3. /\ y \in Attempt /\ y.status = outcome /\ y.turn = x.turn
        /\ takes = TRUE => y.selected = TRUE
        /\ takes = FALSE => y.selected = x.selected
    BY <1>4
  <2> HIDE DEF at, y
  <2>4. QED
    BY <2>1, <2>2, <2>3
<1>7. ASSUME NEW j \in Attempts, j # k
      PROVE  /\ at(j) \in Attempt /\ at(j).status = attempts[j].status
             /\ at(j).turn = attempts[j].turn
             /\ takes = FALSE => at(j).selected = attempts[j].selected
             /\ takes = TRUE => IF attempts[j].turn = attempts[k].turn
                                  THEN at(j).selected = FALSE
                                  ELSE at(j).selected = attempts[j].selected
  <2>1. CASE takes = TRUE /\ attempts[j].turn = attempts[k].turn
    <3>1. PICK x \in Attempt : x = attempts[j]
      BY <1>1, <1>7
    <3>2. at(j) = [x EXCEPT !.selected = FALSE]
      BY <1>7, <2>1, <3>1
    <3> HIDE DEF at
    <3>3. QED
      BY <1>5, <2>1, <3>1, <3>2
  <2>2. CASE ~(takes = TRUE /\ attempts[j].turn = attempts[k].turn)
    <3>1. at(j) = attempts[j]
      BY <1>7, <2>2
    <3>2. QED
      BY <1>1, <2>2, <3>1
  <2>3. QED
    BY <2>1, <2>2
<1> HIDE DEF at
<1>8. \A j \in 1 .. m : at(j) \in Attempt
  BY <1>1, <1>6, <1>7
<1>9. attempts' \in [1 .. m -> Attempt] /\ \A j \in 1 .. m : attempts'[j] = at(j)
  BY <1>3, <1>8
<1>10. attempts' \in Seq(Attempt) /\ Len(attempts') = m
  BY <1>9
<1>11. attempts'[k] = at(k) /\ \A j \in Attempts \ {k} : attempts'[j] = at(j)
  BY <1>1, <1>9
<1>12. CASE takes = TRUE
  <2>1. revision' = revision + 1 /\ TakesOver(k, outcome)
    BY <1>2, <1>3, <1>12
  <2>2. QED
    BY <1>0, <1>6, <1>7, <1>10, <1>11, <1>12, <2>1, ZenonT(60)
<1>13. CASE takes = FALSE
  <2>1. revision' = revision /\ ~TakesOver(k, outcome)
    BY <1>2, <1>3, <1>13
  <2>2. QED
    BY <1>0, <1>6, <1>7, <1>10, <1>11, <1>13, <2>1
<1>14. QED
  BY <1>12, <1>13

(* A run ends with a message of its attempt; a completed retry takes the       *)
(* selection of its turn over, which then shows the new answer.               *)
LEMMA EndWithMessagesKeepsLog ==
  ASSUME TypeOK, LogInv, WorkInv, EndWithMessages
  PROVE  TypeOK' /\ LogInv' /\ WorkInv' /\ SelectionStep /\ KindsStay /\ StaysAnswered
<1>0. PICK n \in Nat, m \in Nat : n = Len(messages) /\ m = Len(attempts)
  BY Fields
<1>1. PICK k \in Attempts : k = work.attempt /\ attempts[k].status = "running" /\ TurnIsAlive(k)
  BY DEF EndWithMessages, WorkInv
<1>2. PICK kind \in {"answer", "error"}, outcome \in {"completed", "incomplete", "failed"} :
        /\ messages' = Append(messages, Plain(kind, k))
        /\ FinishAttempt(k, outcome)
        /\ outcome = "completed" => kind = "answer"
  <2>1. PICK end \in {<<"completed", "answer">>, <<"canceled", "answer">>,
                      <<"failed", "answer">>, <<"failed", "error">>} :
          /\ messages' = Append(messages, Plain(end[2], k))
          /\ FinishAttempt(k, AttemptStatus(end[1], end[2]))
    BY <1>1 DEF EndWithMessages
  <2>2. end[2] \in {"answer", "error"}
    BY <2>1
  <2>3. /\ AttemptStatus(end[1], end[2]) \in {"completed", "incomplete", "failed"}
        /\ AttemptStatus(end[1], end[2]) = "completed" => end[2] = "answer"
    BY <2>2 DEF AttemptStatus
  <2>4. QED
    BY <2>1, <2>2, <2>3
<1>3. work' = NoWork /\ derived' = derived
  BY DEF EndWithMessages
<1>4. Ids = 1 .. n /\ Attempts = 1 .. m /\ k \in Nat /\ k # 0
  BY <1>0 DEF Ids, Attempts
<1>5a. PICK x \in Message : IsNew(x, kind, k)
  <2>1. kind \in Kinds /\ k \in Nat
    BY <1>4 DEF Kinds
  <2>2. QED
    BY ONLY <2>1, NewMessage
<1>5. /\ x \in Message /\ x = Plain(kind, k) /\ x.kind = kind /\ x.attempt = k
      /\ x.deleted = FALSE /\ x.by = 0 /\ x.before = 0
  BY <1>5a DEF IsNew
<1>6. /\ messages' \in Seq(Message) /\ Len(messages') = n + 1 /\ Ids' = 1 .. n + 1
      /\ messages'[n + 1] = x /\ \A i \in Ids : messages'[i] = messages[i]
  BY <1>0, <1>2, <1>4, <1>5, MessageAppended DEF TypeOK
<1>7. /\ attempts' \in Seq(Attempt) /\ Attempts' = Attempts
      /\ \A j \in Attempts : attempts'[j].turn = attempts[j].turn
      /\ \A j \in Attempts \ {k} : attempts'[j].status = attempts[j].status
      /\ attempts'[k].status = outcome
  BY <1>2, FinishedFields DEF Attempts
<1>8. ASSUME ~TakesOver(k, outcome)
      PROVE  /\ \A j \in Attempts : attempts'[j].selected = attempts[j].selected
             /\ revision' = revision
  BY <1>2, <1>8, FinishedFields
<1>9. ASSUME TakesOver(k, outcome)
      PROVE  /\ attempts'[k].selected = TRUE
             /\ \A j \in Attempts \ {k} :
                  IF attempts[j].turn = attempts[k].turn
                    THEN attempts'[j].selected = FALSE
                    ELSE attempts'[j].selected = attempts[j].selected
             /\ revision' = revision + 1 /\ kind = "answer"
  <2>1. kind = "answer"
    BY <1>2, <1>9 DEF TakesOver
  <2>2. QED
    BY <1>2, <1>9, <2>1, FinishedFields
<1>10. TypeOK'
  <2>1. revision' \in Nat
    <3>1. revision \in Nat
      BY DEF TypeOK
    <3>2. revision' = revision \/ revision' = revision + 1
      BY <1>8, <1>9
    <3>3. QED
      BY <3>1, <3>2
  <2>2. NoWork \in Run
    BY <1>4, ChatRun
  <2>3. QED
    BY <1>3, <1>6, <1>7, <2>1, <2>2 DEF TypeOK
<1>11. \A j \in Attempts : attempts[j].turn \in Ids
  BY DEF LogInv, AttemptInv
<1>12. \A i \in Ids : i \in Ids'
  BY <1>4, <1>6
<1>13. ASSUME NEW j \in Attempts' PROVE AttemptInv(j)'
  <2>1. attempts'[j].turn \in Ids'
    BY <1>7, <1>11, <1>12
  <2>2. CASE j = k
    BY <1>7, <2>1, <2>2 DEF AttemptInv
  <2>3. CASE j # k
    <3>1. AttemptInv(j) /\ attempts'[j].status = attempts[j].status
      BY <1>7, <2>3 DEF LogInv
    <3>2. attempts'[j].selected = attempts[j].selected \/ attempts'[j].selected = FALSE
      BY <1>7, <1>8, <1>9, <2>3
    <3>3. QED
      BY <2>1, <3>1, <3>2 DEF AttemptInv
  <2>4. QED
    BY <2>2, <2>3
<1>14. ASSUME NEW i \in Ids' PROVE MessageInv(i)'
  <2>1. CASE i = n + 1
    <3>1. attempts'[k].turn < i
      BY <1>4, <1>7, <1>11, <2>1
    <3>2. TurnIsAlive(k)'
      BY <1>1, <1>6, <1>7, <1>11 DEF TurnIsAlive, Kind
    <3>3. messages'[i].attempt = k /\ messages'[i].before <= i
      BY <1>5, <1>6, <2>1
    <3>4. messages'[i].kind \notin {"turn", "summary"}
      BY <1>5, <1>6, <2>1
    <3>5. QED
      BY <1>4, <1>7, <3>1, <3>2, <3>3, <3>4 DEF MessageInv, IsUser, Kind
  <2>2. CASE i \in Ids
    BY <1>6, <1>7, <1>12, <2>2, MessageIsKept
  <2>3. QED
    BY <1>4, <1>6, <2>1, <2>2
<1>15. ASSUME NEW t \in Ids' PROVE TurnInv(t)'
  <2>1. CASE t = n + 1
    BY <1>5, <1>6, <2>1 DEF TurnInv, Kind
  <2>2. CASE t \in Ids /\ (TakesOver(k, outcome) => attempts[k].turn # t)
    <3>1. \A j \in Attempts : Picked(j, t)' <=> Picked(j, t)
      BY <1>7, <1>8, <1>9, <2>2 DEF Picked
    <3>2. TurnInv(t) /\ messages'[t] = messages[t]
      BY <1>6, <2>2 DEF LogInv
    <3>3. QED
      BY <1>7, <2>2, <3>1, <3>2, TurnIsKept
  <2>3. CASE TakesOver(k, outcome) /\ attempts[k].turn = t /\ t \in Ids
    <3>1. SUFFICES ASSUME Kind(t)' = "turn" PROVE TurnInv(t)'
      BY DEF TurnInv
    <3>2. messages'[t].deleted = FALSE
      BY <1>1, <1>6, <2>3, <3>1 DEF TurnIsAlive, Kind
    <3>3. Picked(k, t)'
      BY <1>7, <1>9, <2>3 DEF Picked
    <3>4. \A j \in Attempts' : Picked(j, t)' => j = k
      BY <1>7, <1>9, <2>3 DEF Picked
    <3>5. HasOne(t)'
      BY <1>7, <3>3, <3>4 DEF HasOne
    <3>6. QED
      BY <3>2, <3>5 DEF TurnInv
  <2>4. QED
    BY <1>4, <1>6, <2>1, <2>2, <2>3
<1>16. /\ \A i \in Ids' : ByInv(i)'
       /\ \A i, j \in Ids' : OrderInv(i, j)'
  BY <1>2, <1>5, OrderOfGrownLog
<1>17. LogInv'
  BY <1>13, <1>14, <1>15, <1>16 DEF LogInv
<1>18. WorkInv'
  BY <1>3, <1>6 DEF WorkInv, NoWork
<1>19. ASSUME NEW i \in ShownAnswers,
              TakesOver(k, outcome) => TurnOf(i) # attempts[k].turn
       PROVE  ShowsOn(i)
  <2>1. PICK j \in Attempts : j = messages[i].attempt
    BY ShownFacts
  <2>2. i \in Ids /\ i \in Ids' /\ attempts[j].turn = TurnOf(i)
    BY <1>12, <2>1, ShownFacts DEF TurnOf
  <2>3. attempts'[j].selected = attempts[j].selected
    BY <1>8, <1>9, <1>19, <2>2
  <2>4. QED
    BY <1>6, <1>7, <2>1, <2>2, <2>3, ShownByFields
<1>20. SelectionStep
  BY <1>8, <1>9, <1>19 DEF SelectionStep
<1>21. ASSUME NEW t \in Turns, NEW i \in ShownAnswers, TurnOf(i) = t
       PROVE  ~Alive(t)' \/ (\E j \in ShownAnswers : TurnOf(j) = t)'
  <2>1. CASE ~(TakesOver(k, outcome) /\ t = attempts[k].turn)
    <3>1. ShowsOn(i)
      BY <1>19, <1>21, <2>1
    <3>2. QED
      BY <1>21, <3>1 DEF ShowsOn
  <2>2. CASE TakesOver(k, outcome) /\ t = attempts[k].turn
    <3>1. /\ n + 1 \in Ids' /\ messages'[n + 1].kind = "answer"
          /\ messages'[n + 1].deleted = FALSE /\ messages'[n + 1].attempt = k
      BY <1>5, <1>6, <1>9, <2>2
    <3>2. attempts'[k].selected = TRUE /\ attempts'[k].turn = t
      BY <1>7, <1>9, <2>2
    <3>3. n + 1 \in ShownAnswers'
      BY <3>1, <3>2 DEF ShownAnswers, Answers, Alive, Shown, Kind
    <3>4. attempts'[messages'[n + 1].attempt].turn = t
      BY <3>1, <3>2
    <3>5. QED
      BY <3>3, <3>4 DEF TurnOf
  <2>3. QED
    BY <2>1, <2>2
<1>22. KindsStay
  BY <1>6, <1>12 DEF KindsStay
<1>23. QED
  BY <1>22, <1>10, <1>17, <1>18, <1>20, <1>21 DEF StaysAnswered

(* A step that leaves the messages and the turns of the attempts alone.       *)
LEMMA SameMessages ==
  ASSUME TypeOK, LogInv, messages' = messages, Attempts' = Attempts,
         \A k \in Attempts : attempts'[k].turn = attempts[k].turn
  PROVE  /\ \A i \in Ids' : MessageInv(i)'
         /\ \A i \in Ids' : ByInv(i)'
         /\ \A i, j \in Ids' : OrderInv(i, j)'
<1>1. Ids' = Ids
  BY DEF Ids
<1>2. ASSUME NEW i \in Ids' PROVE MessageInv(i)'
  BY <1>1, MessageIsKept
<1>3. /\ \A i \in Ids' : ByInv(i)'
      /\ \A i, j \in Ids' : OrderInv(i, j)'
  BY <1>1 DEF LogInv, ByInv, OrderInv, Compressed, Kind
<1>4. QED
  BY <1>2, <1>3

(* A run that stores no message leaves its attempt failed, selected or not. *)
LEMMA EndWithoutMessagesKeepsLog ==
  ASSUME TypeOK, LogInv, WorkInv, EndWithoutMessages
  PROVE  TypeOK' /\ LogInv' /\ WorkInv' /\ SelectionStep /\ KindsStay
<1>1. PICK k \in Attempts : k = work.attempt /\ attempts[k].status = "running"
  BY DEF EndWithoutMessages, WorkInv
<1>2. /\ attempts' = [attempts EXCEPT ![k] = [attempts[k] EXCEPT !.status = "failed"]]
      /\ work' = NoWork /\ messages' = messages /\ revision' = revision /\ derived' = derived
      /\ Ids' = Ids
  BY <1>1 DEF EndWithoutMessages, Ids
<1>3. PICK x \in Attempt : x = attempts[k]
  BY Fields
<1>4. PICK y \in Attempt : /\ y = [x EXCEPT !.status = "failed"] /\ y.status = "failed"
                           /\ y.turn = x.turn /\ y.selected = x.selected
  <2> DEFINE y == [x EXCEPT !.status = "failed"]
  <2>1. y \in Attempt /\ y.status = "failed" /\ y.turn = x.turn /\ y.selected = x.selected
    BY DEF Attempt
  <2>2. y = [x EXCEPT !.status = "failed"]
    OBVIOUS
  <2> HIDE DEF y
  <2>3. QED
    BY <2>1, <2>2
<1>5. /\ attempts' \in Seq(Attempt) /\ Len(attempts') = Len(attempts)
      /\ attempts'[k] = y /\ \A j \in Attempts \ {k} : attempts'[j] = attempts[j]
  <2>1. attempts' = [attempts EXCEPT ![k] = y]
    BY <1>2, <1>3, <1>4
  <2>2. QED
    BY <2>1, ExceptSeq DEF TypeOK, Attempts
<1>6. /\ Attempts' = Attempts
      /\ \A j \in Attempts : attempts'[j].turn = attempts[j].turn
      /\ \A j \in Attempts : attempts'[j].selected = attempts[j].selected
  <2>1. Attempts' = Attempts
    BY <1>5 DEF Attempts
  <2>2. ASSUME NEW j \in Attempts
        PROVE  attempts'[j].turn = attempts[j].turn /\ attempts'[j].selected = attempts[j].selected
    BY <1>3, <1>4, <1>5
  <2>3. QED
    BY <2>1, <2>2
<1>7. TypeOK'
  <2>1. 0 \in Nat
    OBVIOUS
  <2>2. NoWork \in Run
    BY <2>1, ChatRun
  <2>3. QED
    BY <1>2, <1>5, <2>2 DEF TypeOK
<1>8. ASSUME NEW j \in Attempts' PROVE AttemptInv(j)'
  <2>1. AttemptInv(j)
    BY <1>6 DEF LogInv
  <2>2. attempts'[j].status = attempts[j].status \/ attempts'[j].status = "failed"
    BY <1>3, <1>4, <1>5, <1>6
  <2>3. QED
    BY <1>2, <1>6, <2>1, <2>2 DEF AttemptInv
<1>9. ASSUME NEW t \in Ids' PROVE TurnInv(t)'
  <2>1. \A j \in Attempts : Picked(j, t)' <=> Picked(j, t)
    BY <1>6 DEF Picked
  <2>2. TurnInv(t)
    BY <1>2 DEF LogInv
  <2>3. QED
    BY <1>2, <1>6, <2>1, <2>2, TurnIsKept
<1>10. LogInv'
  <2>1. /\ \A i \in Ids' : MessageInv(i)'
        /\ \A i \in Ids' : ByInv(i)'
        /\ \A i, j \in Ids' : OrderInv(i, j)'
    BY <1>2, <1>6, SameMessages
  <2>2. QED
    BY <1>8, <1>9, <2>1 DEF LogInv
<1>11. WorkInv'
  BY <1>2, Fields DEF WorkInv, NoWork
<1>12. ASSUME NEW i \in ShownAnswers PROVE ShowsOn(i)
  <2>1. i \in Ids' /\ messages[i].attempt \in Attempts
    BY <1>2, ShownFacts
  <2>2. QED
    BY <1>2, <1>6, <2>1, ShownByFields
<1>13. KindsStay
  BY <1>2 DEF KindsStay
<1>14. QED
  BY <1>13, <1>2, <1>7, <1>10, <1>11, <1>12 DEF SelectionStep

-----------------------------------------------------------------------------
(* Switching and deleting answers *)

(* What can be selected is finished, shows an answer, and its turn is there. *)
LEMMA SelectableFacts ==
  ASSUME TypeOK, LogInv, NEW k \in Attempts, Selectable(k)
  PROVE  /\ attempts[k].status \in {"completed", "incomplete"}
         /\ TurnIsAlive(k)
         /\ \E i \in Ids : /\ messages[i].attempt = k /\ Kind(i) = "answer"
                           /\ messages[i].deleted = FALSE
<1>1. PICK i \in Ids : messages[i].attempt = k /\ Kind(i) = "answer" /\ ~messages[i].deleted
  BY DEF Selectable, Alive
<1>2. messages[i] \in Message
  BY Fields
<1>3. messages[i].deleted = FALSE
  BY <1>1, <1>2 DEF Message
<1>4. TurnIsAlive(k)
  <2>1. k # 0
    BY DEF Attempts
  <2>2. QED
    BY <1>1, <1>3, <2>1 DEF LogInv, MessageInv
<1>5. QED
  BY <1>1, <1>3, <1>4 DEF Selectable

(* A switch takes the selection from one attempt of a turn to another. *)
LEMMA SelectKeepsLog ==
  ASSUME TypeOK, LogInv, WorkInv, Select
  PROVE  TypeOK' /\ LogInv' /\ WorkInv' /\ SelectionStep /\ KindsStay /\ StaysAnswered
<1>0. PICK k \in Attempts :
        /\ Selectable(k)
        /\ attempts' = [Unselected(attempts[k].turn) EXCEPT ![k].selected = TRUE]
  BY DEF Select
<1>1. /\ revision' = revision + 1 /\ messages' = messages /\ work' = work
      /\ derived' = derived /\ Ids' = Ids
  BY DEF Select, Ids
<1>2. PICK u \in Ids : u = attempts[k].turn
  BY DEF LogInv, AttemptInv
<1>3. PICK list \in Seq(Attempt) :
        /\ list = Unselected(u) /\ Len(list) = Len(attempts)
        /\ \A j \in Attempts : /\ list[j].turn = attempts[j].turn
                               /\ list[j].status = attempts[j].status
                               /\ attempts[j].turn = u => list[j].selected = FALSE
                               /\ attempts[j].turn # u => list[j] = attempts[j]
  BY UnselectedFields, ZenonT(60)
<1>4. k \in 1 .. Len(list) /\ Attempts = 1 .. Len(list)
  BY <1>3 DEF Attempts
<1>5. PICK x \in Attempt : x = list[k]
  BY <1>4, ElementOfSeq
<1>6. PICK y \in Attempt : /\ y = [x EXCEPT !.selected = TRUE] /\ y.selected = TRUE
                           /\ y.turn = x.turn /\ y.status = x.status
  <2> DEFINE y == [x EXCEPT !.selected = TRUE]
  <2>1. y \in Attempt /\ y.selected = TRUE /\ y.turn = x.turn /\ y.status = x.status
    BY DEF Attempt
  <2>2. y = [x EXCEPT !.selected = TRUE]
    OBVIOUS
  <2> HIDE DEF y
  <2>3. QED
    BY <2>1, <2>2
<1>7. /\ attempts' \in Seq(Attempt) /\ Len(attempts') = Len(list)
      /\ attempts'[k] = y /\ \A j \in Attempts \ {k} : attempts'[j] = list[j]
  <2>1. attempts' = [list EXCEPT ![k] = y]
    BY <1>0, <1>2, <1>3, <1>5, <1>6
  <2>2. QED
    BY <1>4, <2>1, ExceptSeq
<1>8. /\ Attempts' = Attempts
      /\ \A j \in Attempts : attempts'[j].turn = attempts[j].turn
      /\ \A j \in Attempts : attempts'[j].status = attempts[j].status
      /\ attempts'[k].selected = TRUE
      /\ \A j \in Attempts \ {k} : attempts[j].turn = u => attempts'[j].selected = FALSE
      /\ \A j \in Attempts : attempts[j].turn # u => attempts'[j].selected = attempts[j].selected
  <2>1. Attempts' = Attempts
    BY <1>3, <1>7 DEF Attempts
  <2>2. ASSUME NEW j \in Attempts
        PROVE  attempts'[j].turn = attempts[j].turn /\ attempts'[j].status = attempts[j].status
    <3>1. list[j].turn = attempts[j].turn /\ list[j].status = attempts[j].status
      BY <1>3
    <3>2. CASE j = k
      <4>1. attempts'[j] = y /\ x = list[j]
        BY <1>5, <1>7, <3>2
      <4>2. QED
        BY ONLY <1>6, <3>1, <4>1
    <3>3. CASE j # k
      <4>1. attempts'[j] = list[j]
        BY <1>7, <3>3
      <4>2. QED
        BY ONLY <3>1, <4>1
    <3>4. QED
      BY <3>2, <3>3
  <2>3. attempts'[k].selected = TRUE
    <3>1. attempts'[k] = y /\ y.selected = TRUE
      BY <1>6, <1>7, Zenon
    <3>2. QED
      BY ONLY <3>1
  <2>4. \A j \in Attempts \ {k} : attempts[j].turn = u => attempts'[j].selected = FALSE
    BY <1>3, <1>7
  <2>5. \A j \in Attempts : attempts[j].turn # u => attempts'[j].selected = attempts[j].selected
    BY <1>2, <1>3, <1>7
  <2>6. QED
    BY <2>1, <2>2, <2>3, <2>4, <2>5
<1>9. TypeOK'
  BY <1>1, <1>7 DEF TypeOK
<1>10. /\ attempts[k].status \in {"completed", "incomplete"} /\ TurnIsAlive(k)
       /\ \E i \in Ids : /\ messages[i].attempt = k /\ Kind(i) = "answer"
                         /\ messages[i].deleted = FALSE
  BY <1>0, SelectableFacts
<1>11. ASSUME NEW j \in Attempts' PROVE AttemptInv(j)'
  <2>1. AttemptInv(j) /\ j \in Attempts
    BY <1>8 DEF LogInv
  <2>2. CASE j = k
    BY <1>1, <1>8, <1>10, <2>1, <2>2 DEF AttemptInv
  <2>3. CASE j # k
    <3>1. attempts'[j].selected = FALSE \/ attempts'[j].selected = attempts[j].selected
      BY <1>8, <2>1, <2>3
    <3>2. QED
      BY <1>1, <1>8, <2>1, <3>1 DEF AttemptInv
  <2>4. QED
    BY <2>2, <2>3
<1>12. ASSUME NEW t \in Ids' PROVE TurnInv(t)'
  <2>1. CASE t # u
    <3>1. \A j \in Attempts : Picked(j, t)' <=> Picked(j, t)
      BY <1>8, <2>1 DEF Picked
    <3>2. TurnInv(t)
      BY <1>1 DEF LogInv
    <3>3. QED
      BY <1>1, <1>8, <3>1, <3>2, TurnIsKept
  <2>2. CASE t = u
    <3>1. SUFFICES ASSUME Kind(t)' = "turn" PROVE TurnInv(t)'
      BY DEF TurnInv
    <3>2. messages'[t].deleted = FALSE
      BY <1>1, <1>2, <1>10, <2>2, <3>1 DEF TurnIsAlive, Kind
    <3>3. Picked(k, t)' /\ k \in Attempts'
      BY <1>2, <1>8, <2>2 DEF Picked
    <3>4. \A j \in Attempts' : Picked(j, t)' => j = k
      BY <1>8, <2>2 DEF Picked
    <3>5. HasOne(t)'
      BY <3>3, <3>4 DEF HasOne
    <3>6. QED
      BY <3>2, <3>5 DEF TurnInv
  <2>3. QED
    BY <2>1, <2>2
<1>13. LogInv'
  <2>1. /\ \A i \in Ids' : MessageInv(i)'
        /\ \A i \in Ids' : ByInv(i)'
        /\ \A i, j \in Ids' : OrderInv(i, j)'
    BY <1>1, <1>8, SameMessages
  <2>2. QED
    BY <1>11, <1>12, <2>1 DEF LogInv
<1>14. WorkInv'
  <2>1. ASSUME work.kind = "chat"
        PROVE  /\ work.attempt \in Attempts' /\ attempts'[work.attempt].status = "running"
               /\ TurnIsAlive(work.attempt)'
    <3>1. PICK w \in Attempts : w = work.attempt /\ attempts[w].status = "running"
                                /\ TurnIsAlive(w)
      BY <2>1 DEF WorkInv
    <3>2. QED
      BY <1>1, <1>8, <3>1 DEF TurnIsAlive, Kind
  <2>2. QED
    BY <1>1, <2>1 DEF WorkInv
<1>15. ASSUME NEW t \in Turns, NEW i \in ShownAnswers, TurnOf(i) = t
       PROVE  ~Alive(t)' \/ (\E j \in ShownAnswers : TurnOf(j) = t)'
  <2>1. CASE t # u
    <3>1. PICK j \in Attempts : j = messages[i].attempt
      BY ShownFacts
    <3>2. i \in Ids' /\ attempts[j].turn # u
      BY <1>1, <1>15, <2>1, <3>1, ShownFacts DEF TurnOf
    <3>3. ShowsOn(i)
      BY <1>1, <1>8, <3>1, <3>2, ShownByFields
    <3>4. QED
      BY <1>15, <3>3 DEF ShowsOn
  <2>2. CASE t = u
    <3>1. PICK l \in Ids : /\ messages[l].attempt = k /\ Kind(l) = "answer"
                           /\ messages[l].deleted = FALSE
      BY <1>10
    <3>2. l \in ShownAnswers'
      BY <1>1, <1>8, <3>1 DEF ShownAnswers, Answers, Alive, Shown, Kind
    <3>3. attempts'[messages'[l].attempt].turn = t
      BY <1>1, <1>2, <1>8, <2>2, <3>1
    <3>4. QED
      BY <3>2, <3>3 DEF TurnOf
  <2>3. QED
    BY <2>1, <2>2
<1>16. KindsStay
  BY <1>1 DEF KindsStay
<1>17. QED
  BY <1>16, <1>1, <1>9, <1>13, <1>14, <1>15 DEF SelectionStep, StaysAnswered

(* What erasing the messages of an attempt does to the log. *)
ErasesOnly(k, log) ==
  /\ log \in Seq(Message) /\ Len(log) = Len(messages)
  /\ \A i \in Ids : /\ log[i].kind = messages[i].kind
                    /\ log[i].before = messages[i].before
                    /\ log[i].by = messages[i].by
                    /\ log[i].of = messages[i].of
                    /\ messages[i].attempt = k => log[i].deleted = TRUE /\ log[i].attempt = 0
                    /\ messages[i].attempt # k => log[i] = messages[i]

LEMMA ErasedFields ==
  ASSUME TypeOK, NEW k \in Attempts
  PROVE  ErasesOnly(k, Erased(k))
<1>0. PICK n \in Nat : n = Len(messages)
  BY Fields
<1> DEFINE log == Erased(k)
           gone(x) == [x EXCEPT !.deleted = TRUE, !.attempt = 0]
<1>1. Ids = 1 .. n /\ \A i \in 1 .. n : messages[i] \in Message
  BY <1>0, Fields DEF Ids
<1>2. log = [i \in 1 .. n |-> IF messages[i].attempt = k THEN gone(messages[i]) ELSE messages[i]]
  BY <1>1 DEF Erased
<1>3. ASSUME NEW x \in Message
      PROVE  /\ gone(x) \in Message /\ gone(x).deleted = TRUE /\ gone(x).attempt = 0
             /\ gone(x).kind = x.kind /\ gone(x).before = x.before /\ gone(x).by = x.by
             /\ gone(x).of = x.of
  BY DEF Message
<1> HIDE DEF gone
<1>4. log \in [1 .. n -> Message]
  BY <1>1, <1>2, <1>3
<1>5. log \in Seq(Message) /\ Len(log) = n
  BY <1>4
<1>6. ASSUME NEW i \in Ids
      PROVE  /\ log[i].kind = messages[i].kind
             /\ log[i].before = messages[i].before
             /\ log[i].by = messages[i].by
             /\ log[i].of = messages[i].of
             /\ messages[i].attempt = k => log[i].deleted = TRUE /\ log[i].attempt = 0
             /\ messages[i].attempt # k => log[i] = messages[i]
  <2>1. CASE messages[i].attempt = k
    <3>1. log[i] = gone(messages[i]) /\ messages[i] \in Message
      BY <1>1, <1>2, <2>1
    <3>2. QED
      BY <1>3, <2>1, <3>1
  <2>2. CASE messages[i].attempt # k
    BY <1>1, <1>2, <2>2
  <2>3. QED
    BY <2>1, <2>2
<1>7. QED
  BY <1>0, <1>5, <1>6 DEF ErasesOnly

(* A deletion erases an attempt; a selected one has an heir, the neighbour     *)
(* that can be selected.                                                      *)
LEMMA DeletedFields ==
  ASSUME TypeOK, LogInv, Delete
  PROVE  \E k \in Attempts :
           /\ Selectable(k) /\ messages' = Erased(k)
           /\ attempts' \in Seq(Attempt) /\ Len(attempts') = Len(attempts)
           /\ \A j \in Attempts : attempts'[j].turn = attempts[j].turn
           /\ attempts'[k].status = "erased" /\ attempts'[k].selected = FALSE
           /\ \A j \in Attempts \ {k} : attempts'[j].status = attempts[j].status
           /\ attempts[k].selected = FALSE =>
                /\ revision' = revision
                /\ \A j \in Attempts \ {k} : attempts'[j].selected = attempts[j].selected
           /\ attempts[k].selected = TRUE =>
                /\ revision' = revision + 1
                /\ \E h \in Attempts \ {k} :
                     /\ Selectable(h) /\ attempts[h].turn = attempts[k].turn
                     /\ attempts'[h].selected = TRUE
                     /\ \A j \in Attempts \ {k, h} :
                          attempts'[j].selected = attempts[j].selected
<1>0. PICK m \in Nat : m = Len(attempts)
  BY Fields
<1>1. Attempts = 1 .. m /\ \A j \in 1 .. m : attempts[j] \in Attempt
  BY <1>0, Fields DEF Attempts
<1> DEFINE others(k) == {j \in OfTurn(attempts[k].turn) \ {k} : Selectable(j)}
           heirs(k) == IF attempts[k].selected /\ others(k) # {}
                         THEN {Neighbour(k, others(k))} ELSE {}
<1>2. PICK k \in Attempts :
        /\ Deletable(k) /\ messages' = Erased(k)
        /\ attempts' = [j \in Attempts |->
             CASE j = k         -> [attempts[j] EXCEPT !.status = "erased", !.selected = FALSE]
               [] j \in heirs(k) -> [attempts[j] EXCEPT !.selected = TRUE]
               [] OTHER         -> attempts[j]]
        /\ revision' = Revised(heirs(k) # {})
  BY DEF Delete
<1>3. /\ Selectable(k) /\ others(k) # {}
      /\ others(k) \subseteq {j \in Attempts \ {k} :
                                Selectable(j) /\ attempts[j].turn = attempts[k].turn}
  BY <1>2 DEF Deletable, OfTurn
<1>4. Neighbour(k, others(k)) \in others(k)
  <2> DEFINE earlier == {j \in others(k) : j < k}
  <2>1. others(k) \subseteq 0 .. m /\ others(k) \subseteq Nat
    BY <1>1, <1>3
  <2>2. CASE earlier # {}
    <3>1. Greatest(earlier) \in earlier
      <4>1. earlier \subseteq 0 .. m
        BY <2>1
      <4>2. QED
        BY <2>2, <4>1, GreatestExists
    <3>2. Neighbour(k, others(k)) = Greatest(earlier)
      BY <2>2 DEF Neighbour
    <3>3. QED
      BY <3>1, <3>2
  <2>3. CASE earlier = {}
    <3>1. \E j \in others(k) : \A i \in others(k) : j <= i
      BY <1>3, <2>1, LeastExists
    <3>2. Neighbour(k, others(k)) = CHOOSE j \in others(k) : \A i \in others(k) : j <= i
      BY <2>3 DEF Neighbour
    <3>3. QED
      BY <3>1, <3>2
  <2>4. QED
    BY <2>2, <2>3
<1>5. PICK h \in Attempts \ {k} :
        /\ h = Neighbour(k, others(k))
        /\ Selectable(h) /\ attempts[h].turn = attempts[k].turn
  BY <1>3, <1>4
<1>6. PICK x \in Attempt : x = attempts[k]
  BY <1>1
<1>7. PICK z \in Attempt : z = attempts[h]
  BY <1>1
<1> DEFINE dead == [x EXCEPT !.status = "erased", !.selected = FALSE]
           heir == [z EXCEPT !.selected = TRUE]
<1>8. /\ dead \in Attempt /\ dead.status = "erased" /\ dead.selected = FALSE
      /\ dead.turn = x.turn
  BY DEF Attempt
<1>9. /\ heir \in Attempt /\ heir.status = z.status /\ heir.selected = TRUE
      /\ heir.turn = z.turn
  BY DEF Attempt
<1>10. CASE x.selected = TRUE
  <2>1. heirs(k) = {h}
    BY <1>3, <1>5, <1>6, <1>10
  <2> HIDE DEF heirs, others
  <2>2. attempts' = [j \in Attempts |-> CASE j = k -> dead [] j = h -> heir [] OTHER -> attempts[j]]
    BY <1>2, <1>5, <1>6, <1>7, <2>1
  <2>3. revision' = revision + 1
    BY <1>2, <2>1 DEF Revised
  <2> HIDE DEF dead, heir
  <2>4. /\ attempts'[k] = dead /\ attempts'[h] = heir
        /\ \A j \in Attempts \ {k, h} : attempts'[j] = attempts[j]
    BY <1>5, <2>2
  <2>5. attempts' \in [1 .. m -> Attempt]
    BY <1>1, <1>8, <1>9, <2>2
  <2>6. attempts' \in Seq(Attempt) /\ Len(attempts') = m
    BY <2>5
  <2>7. /\ \A j \in Attempts : attempts'[j].turn = attempts[j].turn
        /\ \A j \in Attempts \ {k} : attempts'[j].status = attempts[j].status
    BY <1>6, <1>7, <1>8, <1>9, <2>4
  <2>8. QED
    BY <1>0, <1>2, <1>3, <1>5, <1>6, <1>8, <1>9, <1>10, <2>3, <2>4, <2>6, <2>7, ZenonT(60)
<1>11. CASE x.selected = FALSE
  <2>1. heirs(k) = {}
    BY <1>6, <1>11
  <2> HIDE DEF heirs, others
  <2>2. attempts' = [j \in Attempts |-> IF j = k THEN dead ELSE attempts[j]]
    BY <1>2, <1>6, <2>1
  <2>3. revision' = revision
    BY <1>2, <2>1 DEF Revised
  <2> HIDE DEF dead, heir
  <2>4. attempts'[k] = dead /\ \A j \in Attempts \ {k} : attempts'[j] = attempts[j]
    BY <2>2
  <2>5. attempts' \in [1 .. m -> Attempt]
    BY <1>1, <1>8, <2>2
  <2>6. attempts' \in Seq(Attempt) /\ Len(attempts') = m
    BY <2>5
  <2>7. /\ \A j \in Attempts : attempts'[j].turn = attempts[j].turn
        /\ \A j \in Attempts \ {k} : attempts'[j].status = attempts[j].status
    BY <1>6, <1>8, <2>4
  <2>8. QED
    BY <1>0, <1>2, <1>3, <1>6, <1>8, <1>11, <2>3, <2>4, <2>6, <2>7
<1>12. QED
  BY <1>10, <1>11 DEF Attempt

(* A deletion takes the messages and the selection of one attempt only; the    *)
(* turn of a selected one shows the answer of the heir.                       *)
LEMMA DeleteKeepsLog ==
  ASSUME TypeOK, LogInv, WorkInv, Delete
  PROVE  TypeOK' /\ LogInv' /\ WorkInv' /\ SelectionStep /\ KindsStay /\ StaysAnswered
<1>1. PICK k \in Attempts :
        /\ Selectable(k) /\ messages' = Erased(k)
        /\ attempts' \in Seq(Attempt) /\ Len(attempts') = Len(attempts)
        /\ \A j \in Attempts : attempts'[j].turn = attempts[j].turn
        /\ attempts'[k].status = "erased" /\ attempts'[k].selected = FALSE
        /\ \A j \in Attempts \ {k} : attempts'[j].status = attempts[j].status
        /\ attempts[k].selected = FALSE =>
             /\ revision' = revision
             /\ \A j \in Attempts \ {k} : attempts'[j].selected = attempts[j].selected
        /\ attempts[k].selected = TRUE =>
             /\ revision' = revision + 1
             /\ \E h \in Attempts \ {k} :
                  /\ Selectable(h) /\ attempts[h].turn = attempts[k].turn
                  /\ attempts'[h].selected = TRUE
                  /\ \A j \in Attempts \ {k, h} :
                       attempts'[j].selected = attempts[j].selected
  BY DeletedFields
<1>2. work' = work /\ derived' = derived
  BY DEF Delete
<1>3. /\ Len(messages') = Len(messages) /\ Ids' = Ids /\ Attempts' = Attempts
      /\ messages' \in Seq(Message)
      /\ \A i \in Ids : /\ messages'[i].kind = messages[i].kind
                        /\ messages'[i].before = messages[i].before
                        /\ messages'[i].by = messages[i].by
                        /\ messages[i].attempt = k =>
                             messages'[i].deleted = TRUE /\ messages'[i].attempt = 0
                        /\ messages[i].attempt # k => messages'[i] = messages[i]
  <2>1. Attempts' = Attempts
    BY <1>1 DEF Attempts
  <2>2. ErasesOnly(k, messages')
    BY <1>1, ErasedFields
  <2>3. Len(messages') = Len(messages)
    BY <2>2 DEF ErasesOnly
  <2>4. Ids' = Ids
    BY <2>3 DEF Ids
  <2>5. QED
    BY ONLY <2>1, <2>2, <2>4 DEF ErasesOnly
<1>4. k # 0 /\ \A i \in Ids : IsUser(i) => messages[i].attempt # k
  <2>1. k # 0
    BY DEF Attempts
  <2>2. QED
    BY <2>1 DEF LogInv, MessageInv
<1>5. /\ attempts[k].status \in {"completed", "incomplete"} /\ TurnIsAlive(k)
  BY <1>1, SelectableFacts
<1>6. attempts[k].selected \in BOOLEAN /\ revision \in Nat
  BY Fields DEF Attempt, TypeOK
<1>7. TypeOK'
  <2>1. revision' \in Nat
    BY <1>1, <1>6
  <2>2. QED
    BY <1>1, <1>2, <1>3, <2>1 DEF TypeOK
<1>8. ASSUME NEW i \in Ids, messages'[i].deleted = FALSE
      PROVE  messages'[i] = messages[i] /\ messages[i].attempt # k
  BY <1>3, <1>8
<1>9. \A t \in Ids : IsUser(t) => messages'[t] = messages[t]
  BY <1>3, <1>4
<1>10. ASSUME NEW j \in Attempts' PROVE AttemptInv(j)'
  <2>1. AttemptInv(j) /\ j \in Attempts
    BY <1>3 DEF LogInv
  <2>2. CASE j = k
    BY <1>1, <1>3, <2>1, <2>2 DEF AttemptInv
  <2>3. CASE j # k /\ attempts[j].status # "erased"
    BY <1>1, <1>3, <2>1, <2>3 DEF AttemptInv
  <2>4. CASE j # k /\ attempts[j].status = "erased"
    <3>1. attempts'[j].selected = attempts[j].selected
      <4>1. CASE attempts[k].selected = FALSE
        BY <1>1, <2>1, <2>4, <4>1
      <4>2. CASE attempts[k].selected = TRUE
        <5>1. PICK h \in Attempts \ {k} :
                /\ Selectable(h)
                /\ \A l \in Attempts \ {k, h} : attempts'[l].selected = attempts[l].selected
          BY <1>1, <4>2
        <5>2. j # h
          BY <2>4, <5>1 DEF Selectable
        <5>3. QED
          BY <2>1, <2>4, <5>1, <5>2
      <4>3. QED
        BY <1>6, <4>1, <4>2
    <3>2. QED
      BY <1>1, <1>3, <2>1, <2>4, <3>1 DEF AttemptInv
  <2>5. QED
    BY <2>2, <2>3, <2>4
<1>11. ASSUME NEW i \in Ids' PROVE MessageInv(i)'
  <2>1. i \in Ids /\ MessageInv(i)
    BY <1>3 DEF LogInv
  <2>2. CASE messages[i].attempt = k
    <3>1. /\ messages'[i].deleted = TRUE /\ messages'[i].attempt = 0
          /\ messages'[i].before = messages[i].before
      BY <1>3, <2>1, <2>2
    <3>2. QED
      BY <2>1, <3>1 DEF MessageInv
  <2>3. CASE messages[i].attempt # k
    <3>1. messages'[i] = messages[i]
      BY <1>3, <2>1, <2>3
    <3>2. \A t \in Ids : /\ messages'[t].kind = messages[t].kind
                         /\ Kind(t) = "turn" => messages'[t].deleted = messages[t].deleted
      BY <1>3, <1>9 DEF IsUser
    <3>3. QED
      BY <1>1, <1>3, <2>1, <3>1, <3>2, MessageIsKept, ZenonT(60)
  <2>4. QED
    BY <2>2, <2>3
<1>12. ASSUME NEW t \in Ids' PROVE TurnInv(t)'
  <2>1. SUFFICES ASSUME Kind(t)' = "turn" PROVE TurnInv(t)'
    BY DEF TurnInv
  <2>2. t \in Ids /\ TurnInv(t) /\ Kind(t) = "turn"
    BY <1>3, <2>1 DEF LogInv, Kind
  <2>3. messages'[t] = messages[t]
    BY <1>9, <2>2 DEF IsUser
  <2>4. CASE attempts[k].selected = FALSE
    <3>1. \A j \in Attempts : Picked(j, t)' <=> Picked(j, t)
      BY <1>1, <2>4 DEF Picked
    <3>2. QED
      BY <1>3, <2>2, <2>3, <3>1, TurnIsKept
  <2>5. CASE attempts[k].selected = TRUE
    <3>1. PICK h \in Attempts \ {k} :
            /\ attempts[h].turn = attempts[k].turn /\ attempts'[h].selected = TRUE
            /\ \A j \in Attempts \ {k, h} : attempts'[j].selected = attempts[j].selected
      BY <1>1, <2>5
    <3>2. CASE attempts[k].turn # t
      <4>1. \A j \in Attempts : Picked(j, t)' <=> Picked(j, t)
        BY <1>1, <3>1, <3>2 DEF Picked
      <4>2. QED
        BY <1>3, <2>2, <2>3, <4>1, TurnIsKept
    <3>3. CASE attempts[k].turn = t
      <4>1. messages[t].deleted = FALSE
        BY <1>5, <2>2, <3>3 DEF TurnIsAlive
      <4>2. \A j \in Attempts : Picked(j, t) => j = k
        <5>1. Picked(k, t)
          BY <2>5, <3>3 DEF Picked
        <5>2. HasOne(t)
          BY <2>2, <4>1 DEF TurnInv
        <5>3. QED
          BY <5>1, <5>2 DEF HasOne
      <4>3. Picked(h, t)' /\ h \in Attempts'
        BY <1>1, <1>3, <3>1, <3>3 DEF Picked
      <4>4. \A j \in Attempts' : Picked(j, t)' => j = h
        BY <1>1, <1>3, <3>1, <4>2 DEF Picked
      <4>5. HasOne(t)'
        BY <4>3, <4>4 DEF HasOne
      <4>6. QED
        BY <2>3, <4>1, <4>5 DEF TurnInv
    <3>4. QED
      BY <3>2, <3>3
  <2>6. QED
    BY <1>6, <2>4, <2>5
<1>13. ASSUME NEW i \in Ids', Compressed(i)'
       PROVE  messages'[i] = messages[i] /\ Compressed(i)
  BY <1>3, <1>8, <1>13 DEF Compressed, Kind
<1>14. ASSUME NEW i \in Ids' PROVE ByInv(i)'
  <2>1. SUFFICES ASSUME Compressed(i)' PROVE ByInv(i)'
    BY DEF ByInv
  <2>2. i \in Ids /\ messages'[i] = messages[i] /\ Compressed(i) /\ ByInv(i)
    BY <1>3, <1>13, <2>1 DEF LogInv
  <2>3. PICK b \in Ids :
          /\ b = messages[i].by /\ Kind(b) = "summary"
          /\ \/ messages[b].deleted = FALSE
             \/ \E u \in Ids : /\ Kind(u) = "turn" /\ messages[u].deleted = FALSE
                               /\ u > b
    BY <2>2 DEF ByInv
  <2>4. messages'[b] = messages[b]
    BY <1>9, <2>3 DEF IsUser
  <2>5. \A u \in Ids : Kind(u) = "turn" => messages'[u] = messages[u]
    BY <1>9 DEF IsUser
  <2>6. QED
    BY <1>3, <2>2, <2>3, <2>4, <2>5 DEF ByInv, Kind
<1>15. ASSUME NEW i \in Ids', NEW j \in Ids' PROVE OrderInv(i, j)'
  <2>1. SUFFICES ASSUME Compressed(j)', messages'[i].deleted = FALSE
                 PROVE  OrderInv(i, j)'
    BY DEF OrderInv
  <2>2. messages'[j] = messages[j] /\ Compressed(j) /\ messages'[i] = messages[i]
    BY <1>3, <1>8, <1>13, <2>1
  <2>3. OrderInv(i, j)
    BY <1>3 DEF LogInv
  <2>4. QED
    BY <2>2, <2>3 DEF OrderInv, Compressed, Kind
<1>16. LogInv'
  BY <1>10, <1>11, <1>12, <1>14, <1>15 DEF LogInv
<1>17. WorkInv'
  <2>1. ASSUME work.kind = "chat"
        PROVE  /\ work.attempt \in Attempts' /\ attempts'[work.attempt].status = "running"
               /\ TurnIsAlive(work.attempt)'
    <3>1. PICK w \in Attempts : w = work.attempt /\ attempts[w].status = "running"
                                /\ TurnIsAlive(w)
      BY <2>1 DEF WorkInv
    <3>2. w # k
      BY <1>5, <3>1
    <3>3. attempts'[w].status = "running" /\ attempts'[w].turn = attempts[w].turn
      BY <1>1, <3>1, <3>2
    <3>4. attempts[w].turn \in Ids
      BY DEF LogInv, AttemptInv
    <3>5. TurnIsAlive(w)'
      BY <1>3, <1>9, <3>1, <3>3, <3>4 DEF TurnIsAlive, Kind, IsUser
    <3>6. QED
      BY <1>2, <1>3, <3>1, <3>3, <3>5
  <2>2. QED
    BY <1>2, <1>3, <2>1 DEF WorkInv
<1>18. ASSUME NEW i \in ShownAnswers, messages[i].attempt # k,
              attempts'[messages[i].attempt].selected = attempts[messages[i].attempt].selected
       PROVE  ShowsOn(i)
  <2>1. i \in Ids /\ messages[i].attempt \in Attempts
    BY ShownFacts
  <2>2. messages'[i] = messages[i]
    BY <1>3, <1>18, <2>1
  <2>3. QED
    BY <1>1, <1>3, <1>18, <2>1, <2>2, ShownByFields
<1>19. KindsStay
  BY <1>3 DEF KindsStay
<1>20. CASE attempts[k].selected = FALSE
  <2>1. ASSUME NEW i \in ShownAnswers PROVE ShowsOn(i)
    <3>1. messages[i].attempt # k /\ messages[i].attempt \in Attempts
      BY <1>20, ShownFacts
    <3>2. QED
      BY <1>1, <1>18, <1>20, <3>1
  <2>2. SelectionStep /\ StaysAnswered
    BY <1>1, <1>20, <2>1, AnsweredByShown DEF SelectionStep
  <2>3. QED
    BY <1>7, <1>16, <1>17, <1>19, <2>2
<1>21. CASE attempts[k].selected = TRUE
  <2>1. PICK h \in Attempts \ {k} :
          /\ Selectable(h) /\ attempts[h].turn = attempts[k].turn
          /\ attempts'[h].selected = TRUE
          /\ \A j \in Attempts \ {k, h} : attempts'[j].selected = attempts[j].selected
    BY <1>1, <1>21
  <2>2. ASSUME NEW t \in Turns, NEW i \in ShownAnswers, TurnOf(i) = t
        PROVE  ~Alive(t)' \/ (\E j \in ShownAnswers : TurnOf(j) = t)'
    <3>1. PICK j \in Attempts : j = messages[i].attempt /\ attempts[j].turn = t
      BY <2>2, ShownFacts DEF TurnOf
    <3>2. CASE t # attempts[k].turn
      <4>1. j # k /\ attempts'[j].selected = attempts[j].selected
        BY <2>1, <3>1, <3>2
      <4>2. ShowsOn(i)
        BY <1>18, <3>1, <4>1
      <4>3. QED
        BY <2>2, <4>2 DEF ShowsOn
    <3>3. CASE t = attempts[k].turn
      <4>1. PICK l \in Ids : /\ messages[l].attempt = h /\ Kind(l) = "answer"
                             /\ messages[l].deleted = FALSE
        BY <2>1, SelectableFacts
      <4>2. messages'[l] = messages[l] /\ l \in Ids'
        BY <1>3, <2>1, <4>1
      <4>3. l \in ShownAnswers'
        BY <2>1, <4>1, <4>2 DEF ShownAnswers, Answers, Alive, Shown, Kind
      <4>4. attempts'[messages'[l].attempt].turn = t
        BY <1>1, <2>1, <3>3, <4>1, <4>2
      <4>5. QED
        BY <4>3, <4>4 DEF TurnOf
    <3>4. QED
      BY <3>2, <3>3
  <2>3. QED
    BY <1>1, <1>7, <1>16, <1>17, <1>19, <1>21, <2>2 DEF SelectionStep, StaysAnswered
<1>22. QED
  BY <1>6, <1>20, <1>21

-----------------------------------------------------------------------------
(* Checkpoints *)

(* What the commit of a checkpoint does to the log: it compresses what it      *)
(* covers and stores the checkpoint.                                          *)
Compresses(n, b) ==
  /\ messages' \in Seq(Message) /\ Len(messages') = n + 1 /\ Ids' = 1 .. n + 1
  /\ messages'[n + 1].kind = "summary" /\ messages'[n + 1].attempt = 0
  /\ messages'[n + 1].deleted = FALSE /\ messages'[n + 1].by = 0
  /\ messages'[n + 1].before = b
  /\ messages'[n + 1].of = UNION {Stands(i) : i \in work.source}
  /\ \A i \in Ids :
       /\ messages'[i].kind = messages[i].kind
       /\ messages'[i].attempt = messages[i].attempt
       /\ messages'[i].deleted = messages[i].deleted
       /\ messages'[i].before = messages[i].before
       /\ messages'[i].of = messages[i].of
       /\ Covered(i, b) => messages'[i].by = n + 1
       /\ ~Covered(i, b) => messages'[i] = messages[i]

LEMMA CommittedFields ==
  ASSUME TypeOK, ReadInv, CommitCheckpoint, revision = work.revision,
         NEW n \in Nat, n = Len(messages)
  PROVE  Compresses(n, work.boundary)
<1> DEFINE into(x) == [x EXCEPT !.by = n + 1]
           of == UNION {Stands(i) : i \in work.source}
           x == [Plain("summary", 0) EXCEPT
                   !.before = work.boundary, !.manual = work.manual, !.of = of]
           log == [i \in Ids |-> IF Covered(i, work.boundary) THEN into(messages[i])
                                                             ELSE messages[i]]
<1>1. Ids = 1 .. n /\ \A i \in Ids : messages[i] \in Message
  BY Fields DEF Ids
<1>2. messages' = Append(log, x)
  BY DEF CommitCheckpoint, Current
<1>3. work.boundary \in Nat /\ work.manual \in BOOLEAN /\ work.source \subseteq Ids
  BY DEF TypeOK, Run, ReadInv, CommitCheckpoint
<1>4. of \in SUBSET Nat
  <2>1. \A i \in Ids : messages[i].of \in SUBSET Nat /\ i \in Nat
    BY <1>1 DEF Message
  <2>2. \A i \in work.source : Stands(i) \in SUBSET Nat
    BY <1>3, <2>1 DEF Stands
  <2>3. QED
    BY <2>2
<1> HIDE DEF of
<1>5. /\ x \in Message /\ x.kind = "summary" /\ x.attempt = 0 /\ x.deleted = FALSE
      /\ x.by = 0 /\ x.before = work.boundary /\ x.of = of
  <2>1a. PICK p \in Message : IsNew(p, "summary", 0)
    BY NewSummary
  <2>1. /\ p \in Message /\ p = Plain("summary", 0) /\ p.by = 0 /\ p.kind = "summary"
        /\ p.deleted = FALSE /\ p.attempt = 0
    BY <2>1a DEF IsNew
  <2>2. x = [p EXCEPT !.before = work.boundary, !.manual = work.manual, !.of = of]
    BY <2>1
  <2>3. QED
    BY <1>3, <1>4, <2>1, <2>2 DEF Message
<1>6. ASSUME NEW y \in Message
      PROVE  /\ into(y) \in Message /\ into(y).by = n + 1 /\ into(y).kind = y.kind
             /\ into(y).attempt = y.attempt /\ into(y).deleted = y.deleted
             /\ into(y).before = y.before /\ into(y).of = y.of
  BY DEF Message
<1> HIDE DEF into, x
<1>7. log \in [1 .. n -> Message]
  BY <1>1, <1>6
<1>8. log \in Seq(Message) /\ Len(log) = n
  BY <1>7
<1>9. ASSUME NEW i \in Ids
      PROVE  /\ log[i].kind = messages[i].kind
             /\ log[i].attempt = messages[i].attempt
             /\ log[i].deleted = messages[i].deleted
             /\ log[i].before = messages[i].before
             /\ log[i].of = messages[i].of
             /\ Covered(i, work.boundary) => log[i].by = n + 1
             /\ ~Covered(i, work.boundary) => log[i] = messages[i]
  <2>1. CASE Covered(i, work.boundary)
    <3>1. log[i] = into(messages[i]) /\ messages[i] \in Message
      BY <1>1, <2>1
    <3>2. QED
      BY <1>6, <2>1, <3>1
  <2>2. CASE ~Covered(i, work.boundary)
    <3>1. log[i] = messages[i]
      BY <2>2
    <3>2. QED
      BY <2>2, <3>1
  <2>3. QED
    BY <2>1, <2>2
<1> HIDE DEF log
<1>10. /\ messages' \in Seq(Message) /\ Len(messages') = n + 1 /\ Ids' = 1 .. n + 1
       /\ messages'[n + 1] = x /\ \A i \in Ids : messages'[i] = log[i]
  BY <1>1, <1>2, <1>5, <1>8, MessageAppended
<1>11. QED
  BY <1>5, <1>9, <1>10 DEF of, Compresses

(* A checkpoint compresses, of what is compressed by id, all that is not yet. *)
LEMMA CoveredIs ==
  ASSUME TypeOK, LogInv, NEW i \in Ids, Kind(i) # "summary", messages[i].deleted = FALSE,
         NEW b
  PROVE  Covered(i, b) <=> messages[i].by = 0 /\ i < b
<1>1. Compressed(i) => messages[i].by # i
  BY DEF LogInv, ByInv, Compressed
<1>2. messages[i].by = i => Compressed(i)
  BY DEF Compressed, Ids
<1>3. QED
  BY <1>1, <1>2 DEF Covered, Alive

(* A checkpoint compresses the beginning of the log and leaves the turns and   *)
(* the attempts as they are.                                                  *)
LEMMA CommitKeepsLog ==
  ASSUME TypeOK, LogInv, WorkInv, ReadInv, CommitCheckpoint, revision = work.revision
  PROVE  TypeOK' /\ LogInv' /\ WorkInv' /\ SelectionStep /\ KindsStay
<1>0. PICK n \in Nat : n = Len(messages)
  BY Fields
<1>1. PICK b \in Nat : b = work.boundary /\ b <= n + 1
  BY <1>0 DEF CommitCheckpoint, WorkInv, TypeOK, Run
<1>2. /\ work' = NoWork /\ attempts' = attempts /\ revision' = revision
      /\ derived' = derived /\ Attempts' = Attempts
  BY DEF CommitCheckpoint, EndCompaction, Attempts
<1>3. Ids = 1 .. n
  BY <1>0 DEF Ids
<1>4. /\ messages' \in Seq(Message) /\ Len(messages') = n + 1 /\ Ids' = 1 .. n + 1
      /\ messages'[n + 1].kind = "summary" /\ messages'[n + 1].attempt = 0
      /\ messages'[n + 1].deleted = FALSE /\ messages'[n + 1].before = b
      /\ \A i \in Ids :
           /\ messages'[i].kind = messages[i].kind
           /\ messages'[i].attempt = messages[i].attempt
           /\ messages'[i].deleted = messages[i].deleted
           /\ messages'[i].before = messages[i].before
           /\ Covered(i, b) => messages'[i].by = n + 1
           /\ ~Covered(i, b) => messages'[i] = messages[i]
  <2>1. Compresses(n, b)
    BY <1>0, <1>1, CommittedFields
  <2>2. QED
    BY ONLY <2>1 DEF Compresses
<1>5. TypeOK'
  <2>1. 0 \in Nat
    OBVIOUS
  <2>2. NoWork \in Run
    BY <2>1, ChatRun
  <2>3. QED
    BY <1>2, <1>4, <2>2 DEF TypeOK
<1>6. \A i \in Ids : i \in Ids'
  BY <1>3, <1>4
<1>7. ASSUME NEW k \in Attempts' PROVE AttemptInv(k)'
  BY <1>2, <1>6 DEF LogInv, AttemptInv
<1>8. ASSUME NEW i \in Ids' PROVE MessageInv(i)'
  <2>1. CASE i = n + 1
    <3>1. messages'[i].before <= i
      BY <1>1, <1>4, <2>1
    <3>2. QED
      BY <1>4, <2>1, <3>1 DEF MessageInv, Kind
  <2>2. CASE i \in Ids
    BY <1>2, <1>4, <1>6, <2>2, MessageIsKept
  <2>3. QED
    BY <1>3, <1>4, <2>1, <2>2
<1>9. ASSUME NEW t \in Ids' PROVE TurnInv(t)'
  <2>1. CASE t = n + 1
    BY <1>4, <2>1 DEF TurnInv, Kind
  <2>2. CASE t \in Ids
    <3>1. TurnInv(t) /\ \A k \in Attempts : Picked(k, t)' <=> Picked(k, t)
      BY <1>2, <2>2 DEF LogInv, Picked
    <3>2. QED
      BY <1>2, <1>4, <2>2, <3>1, TurnIsKept
  <2>3. QED
    BY <1>3, <1>4, <2>1, <2>2
<1>10. ASSUME NEW i \in Ids', Kind(i)' # "summary", messages'[i].deleted = FALSE
       PROVE  /\ i \in Ids /\ Kind(i) # "summary" /\ messages[i].deleted = FALSE
              /\ messages[i].by = 0 /\ i < b => messages'[i].by = n + 1
              /\ ~(messages[i].by = 0 /\ i < b) => messages'[i] = messages[i]
  <2>1. i \in Ids
    BY <1>3, <1>4, <1>10 DEF Kind
  <2>2. Kind(i) # "summary" /\ messages[i].deleted = FALSE
    BY <1>4, <1>10, <2>1 DEF Kind
  <2>3. Covered(i, b) <=> messages[i].by = 0 /\ i < b
    BY <2>1, <2>2, CoveredIs
  <2>4. QED
    BY <1>4, <2>1, <2>2, <2>3
<1>11. ASSUME NEW i \in Ids' PROVE ByInv(i)'
  <2>1. SUFFICES ASSUME Compressed(i)' PROVE ByInv(i)'
    BY DEF ByInv
  <2>2. Kind(i)' # "summary" /\ messages'[i].deleted = FALSE /\ messages'[i].by # 0
    BY <2>1 DEF Compressed
  <2>3. i \in Ids /\ Kind(i) # "summary" /\ messages[i].deleted = FALSE
    BY <1>10, <2>2
  <2>4. CASE messages[i].by = 0 /\ i < b
    <3>1. n + 1 \in Ids'
      BY <1>4
    <3>2. messages'[i].by = n + 1
      BY <1>10, <2>2, <2>4
    <3>3. QED
      BY <1>4, <3>1, <3>2 DEF ByInv, Kind
  <2>5. CASE ~(messages[i].by = 0 /\ i < b)
    <3>1. messages'[i] = messages[i]
      BY <1>10, <2>2, <2>5
    <3>2. Compressed(i)
      BY <2>2, <2>3, <3>1 DEF Compressed
    <3>3. PICK c \in Ids :
            /\ c = messages[i].by /\ Kind(c) = "summary"
            /\ \/ messages[c].deleted = FALSE
               \/ \E u \in Ids : /\ Kind(u) = "turn" /\ messages[u].deleted = FALSE
                                 /\ u > c
      BY <2>3, <3>2 DEF LogInv, ByInv
    <3>4. c \in Ids' /\ messages'[c].kind = "summary"
      BY <1>4, <1>6, <3>3 DEF Kind
    <3>5. \/ messages'[c].deleted = FALSE
          \/ \E u \in Ids' : /\ messages'[u].kind = "turn" /\ messages'[u].deleted = FALSE
                             /\ u > c
      BY <1>4, <1>6, <3>3 DEF Kind
    <3>6. QED
      BY <3>1, <3>3, <3>4, <3>5 DEF ByInv, Kind
  <2>6. QED
    BY <2>4, <2>5
<1>12. ASSUME NEW i \in Ids', NEW j \in Ids' PROVE OrderInv(i, j)'
  <2>1. SUFFICES ASSUME i < j, Compressed(j)', Kind(i)' # "summary",
                        messages'[i].deleted = FALSE
                 PROVE  Compressed(i)' /\ messages'[i].by <= messages'[j].by
    BY DEF OrderInv
  <2>2. Kind(j)' # "summary" /\ messages'[j].deleted = FALSE /\ messages'[j].by # 0
    BY <2>1 DEF Compressed
  <2>3. /\ i \in Ids /\ Kind(i) # "summary" /\ messages[i].deleted = FALSE
        /\ j \in Ids /\ Kind(j) # "summary" /\ messages[j].deleted = FALSE
    BY <1>10, <2>1, <2>2
  <2>4. OrderInv(i, j) /\ ByInv(i)
    BY <2>3 DEF LogInv
  <2>5. messages[i].by # 0 => /\ messages'[i] = messages[i] /\ messages[i].by \in Ids
                              /\ Compressed(i)
    <3>1. SUFFICES ASSUME messages[i].by # 0
                   PROVE  /\ messages'[i] = messages[i] /\ messages[i].by \in Ids
                          /\ Compressed(i)
      OBVIOUS
    <3>2. messages'[i] = messages[i]
      BY <1>10, <2>1, <3>1
    <3>3. Compressed(i)
      BY <2>3, <3>1 DEF Compressed
    <3>4. QED
      BY <2>4, <3>2, <3>3 DEF ByInv
  <2>6. CASE messages[j].by = 0 /\ j < b
    <3>0. i < b
      BY <1>3, <2>1, <2>3, <2>6
    <3>1. messages'[j].by = n + 1 /\ i < b
      BY <1>10, <2>2, <2>6, <3>0
    <3>2. CASE messages[i].by = 0
      <4>1. messages'[i].by = n + 1
        BY <1>10, <2>1, <3>1, <3>2
      <4>2. QED
        BY <2>1, <3>1, <4>1 DEF Compressed
    <3>3. CASE messages[i].by # 0
      <4>1. messages'[i].by # 0 /\ messages'[i].by \in 1 .. n
        BY <1>3, <2>5, <3>3
      <4>2. Compressed(i)'
        BY <2>1, <4>1 DEF Compressed
      <4>3. QED
        BY <3>1, <4>1, <4>2
    <3>4. QED
      BY <3>2, <3>3
  <2>7. CASE ~(messages[j].by = 0 /\ j < b)
    <3>1. messages'[j] = messages[j]
      BY <1>10, <2>2, <2>7
    <3>2. Compressed(j)
      BY <2>2, <2>3, <3>1 DEF Compressed
    <3>3. Compressed(i) /\ messages[i].by <= messages[j].by
      BY <2>1, <2>3, <2>4, <3>2 DEF OrderInv
    <3>4. messages[i].by # 0
      BY <3>3 DEF Compressed
    <3>5. messages'[i] = messages[i]
      BY <2>5, <3>4
    <3>6. Compressed(i)'
      BY <2>1, <3>4, <3>5 DEF Compressed
    <3>7. QED
      BY <3>1, <3>3, <3>5, <3>6
  <2>8. QED
    BY <2>6, <2>7
<1>13. LogInv'
  BY <1>7, <1>8, <1>9, <1>11, <1>12 DEF LogInv
<1>14. WorkInv'
  BY <1>2, <1>4 DEF WorkInv, NoWork
<1>15. ASSUME NEW i \in ShownAnswers PROVE ShowsOn(i)
  <2>1. i \in Ids
    BY ShownFacts
  <2>2. i \in Ids'
    BY <1>6, <2>1
  <2>3. QED
    BY <1>2, <1>4, <2>1, <2>2, ShownByFields
<1>16. KindsStay
  BY <1>4, <1>6 DEF KindsStay
<1>17. QED
  BY <1>16, <1>2, <1>5, <1>13, <1>14, <1>15 DEF SelectionStep

(* What undoing the latest checkpoint does to the log: it deletes it and frees *)
(* what it compressed, while no message but error notices came after it.      *)
Undoes(s) ==
  /\ Kind(s) = "summary" /\ messages[s].deleted = FALSE
  /\ \A i \in Ids : Kind(i) = "summary" /\ messages[i].deleted = FALSE => i <= s
  /\ \A i \in Ids : i > s /\ messages[i].deleted = FALSE => Kind(i) = "error"
  /\ messages' \in Seq(Message) /\ Len(messages') = Len(messages)
  /\ messages'[s].deleted = TRUE
  /\ \A i \in Ids :
       /\ messages'[i].kind = messages[i].kind
       /\ messages'[i].attempt = messages[i].attempt
       /\ messages'[i].before = messages[i].before
       /\ messages'[i].of = messages[i].of
       /\ i # s => messages'[i].deleted = messages[i].deleted
       /\ i # s /\ messages[i].deleted = FALSE /\ messages[i].by = s => messages'[i].by = 0
       /\ i # s /\ messages[i].by # s => messages'[i] = messages[i]

LEMMA UndoneFields ==
  ASSUME TypeOK, UndoCheckpoint
  PROVE  \E s \in Ids : Undoes(s)
<1>0. PICK n \in Nat : n = Len(messages)
  BY Fields
<1>1. Ids = 1 .. n /\ \A i \in Ids : messages[i] \in Message
  BY <1>0, Fields DEF Ids
<1> DEFINE S == {i \in Ids : Alive(i) /\ Kind(i) = "summary"}
           s == Greatest(S)
           gone(x) == [x EXCEPT !.deleted = TRUE]
           free(x) == [x EXCEPT !.by = 0]
<1>2. /\ S # {} /\ ~\E i \in Ids : i > s /\ Alive(i) /\ Kind(i) # "error"
      /\ messages' = [i \in Ids |-> IF i = s THEN gone(messages[i]) ELSE Uncompressed(i, s)]
  BY DEF UndoCheckpoint
<1>3. s \in S /\ \A j \in S : j <= s
  <2>1. S \subseteq 0 .. n
    BY <1>1
  <2>2. QED
    BY <1>2, <2>1, GreatestExists
<1> HIDE DEF s
<1>4. \A i \in Ids : messages[i].deleted \in BOOLEAN
  BY <1>1 DEF Message
<1>5. s \in Ids /\ Kind(s) = "summary" /\ messages[s].deleted = FALSE
  BY <1>3, <1>4 DEF Alive
<1>6. /\ \A i \in Ids : Kind(i) = "summary" /\ messages[i].deleted = FALSE => i <= s
      /\ \A i \in Ids : i > s /\ messages[i].deleted = FALSE => Kind(i) = "error"
  BY <1>2, <1>3 DEF Alive
<1>7. ASSUME NEW x \in Message
      PROVE  /\ gone(x) \in Message /\ gone(x).deleted = TRUE /\ gone(x).kind = x.kind
             /\ gone(x).attempt = x.attempt /\ gone(x).before = x.before
             /\ gone(x).of = x.of /\ free(x).of = x.of
             /\ free(x) \in Message /\ free(x).deleted = x.deleted /\ free(x).kind = x.kind
             /\ free(x).attempt = x.attempt /\ free(x).before = x.before /\ free(x).by = 0
  BY DEF Message
<1>8. \A i \in Ids : Uncompressed(i, s) = IF messages[i].by = s /\ messages[i].deleted = FALSE
                                            THEN free(messages[i]) ELSE messages[i]
  BY <1>4 DEF Uncompressed, Alive
<1> HIDE DEF gone, free
<1>9. \A i \in Ids : Uncompressed(i, s) \in Message
  BY <1>1, <1>7, <1>8
<1>10. messages' \in [1 .. n -> Message]
  BY <1>1, <1>2, <1>7, <1>9
<1>11. messages' \in Seq(Message) /\ Len(messages') = n
  BY <1>10
<1>12. messages'[s] = gone(messages[s]) /\ messages[s] \in Message
  BY <1>1, <1>2, <1>5
<1>13. ASSUME NEW i \in Ids
       PROVE  /\ messages'[i].kind = messages[i].kind
              /\ messages'[i].attempt = messages[i].attempt
              /\ messages'[i].before = messages[i].before
              /\ messages'[i].of = messages[i].of
              /\ i # s => messages'[i].deleted = messages[i].deleted
              /\ i # s /\ messages[i].deleted = FALSE /\ messages[i].by = s =>
                   messages'[i].by = 0
              /\ i # s /\ messages[i].by # s => messages'[i] = messages[i]
  <2>1. CASE i = s
    <3>1. messages'[i] = gone(messages[i])
      BY <1>12, <2>1
    <3>2. PICK y \in Message : y = messages[i]
      BY <1>1
    <3>3. /\ gone(y).kind = y.kind /\ gone(y).attempt = y.attempt
          /\ gone(y).before = y.before /\ gone(y).of = y.of
      BY <1>7
    <3>4. QED
      BY <2>1, <3>1, <3>2, <3>3
  <2>2. CASE i # s /\ messages[i].by = s /\ messages[i].deleted = FALSE
    <3>1. messages'[i] = free(messages[i])
      BY <1>2, <1>8, <2>2
    <3>2. PICK y \in Message : y = messages[i]
      BY <1>1
    <3>3. /\ free(y).deleted = y.deleted /\ free(y).kind = y.kind
          /\ free(y).attempt = y.attempt /\ free(y).before = y.before /\ free(y).by = 0
          /\ free(y).of = y.of
      BY <1>7
    <3>4. QED
      BY <2>2, <3>1, <3>2, <3>3
  <2>3. CASE i # s /\ ~(messages[i].by = s /\ messages[i].deleted = FALSE)
    <3>1. messages'[i] = messages[i]
      BY <1>2, <1>8, <2>3
    <3>2. QED
      BY <2>3, <3>1
  <2>4. QED
    BY <2>1, <2>2, <2>3
<1>14. messages'[s].deleted = TRUE
  BY <1>7, <1>12, ZenonT(60)
<1>15. PICK r \in Ids : r = s
  BY <1>5
<1>16. /\ Kind(r) = "summary" /\ messages[r].deleted = FALSE
       /\ messages'[r].deleted = TRUE /\ Len(messages') = Len(messages)
  BY <1>0, <1>5, <1>11, <1>14, <1>15
<1>17. Undoes(r)
  BY <1>6, <1>11, <1>13, <1>15, <1>16 DEF Undoes
<1>18. QED
  BY <1>17

(* An undo leaves the turns and the attempts as they are, and what is still    *)
(* compressed was so before what it frees.                                    *)
LEMMA UndoKeepsLog ==
  ASSUME TypeOK, LogInv, WorkInv, UndoCheckpoint
  PROVE  TypeOK' /\ LogInv' /\ WorkInv' /\ SelectionStep /\ KindsStay
<1>0. PICK n \in Nat : n = Len(messages)
  BY Fields
<1>p. PICK s \in Ids : Undoes(s)
  BY UndoneFields
<1>1. /\ Kind(s) = "summary" /\ messages[s].deleted = FALSE
      /\ \A i \in Ids : Kind(i) = "summary" /\ messages[i].deleted = FALSE => i <= s
      /\ \A i \in Ids : i > s /\ messages[i].deleted = FALSE => Kind(i) = "error"
      /\ messages' \in Seq(Message) /\ Len(messages') = Len(messages)
      /\ messages'[s].deleted = TRUE
      /\ \A i \in Ids :
           /\ messages'[i].kind = messages[i].kind
           /\ messages'[i].attempt = messages[i].attempt
           /\ messages'[i].before = messages[i].before
           /\ messages'[i].of = messages[i].of
           /\ i # s => messages'[i].deleted = messages[i].deleted
           /\ i # s /\ messages[i].deleted = FALSE /\ messages[i].by = s =>
                messages'[i].by = 0
           /\ i # s /\ messages[i].by # s => messages'[i] = messages[i]
  BY <1>p DEF Undoes
<1>2. /\ attempts' = attempts /\ revision' = revision /\ work' = work
      /\ derived' = derived /\ Attempts' = Attempts
  BY DEF UndoCheckpoint, Attempts
<1>3. Ids' = Ids /\ Ids = 1 .. n
  BY <1>0, <1>1 DEF Ids
<1>4. TypeOK'
  <2>1. messages' \in Seq(Message)
    BY <1>1
  <2>2. QED
    BY <1>2, <2>1 DEF TypeOK
<1>5. \A i \in Ids : messages'[i].deleted = FALSE => i # s /\ messages[i].deleted = FALSE
  BY <1>1
<1>6. \A t \in Ids : Kind(t) = "turn" => messages'[t].deleted = messages[t].deleted
  BY <1>1
<1>7. ASSUME NEW i \in Ids' PROVE MessageInv(i)'
  BY <1>1, <1>2, <1>3, <1>5, <1>6, MessageIsKept, ZenonT(60)
<1>8. ASSUME NEW t \in Ids' PROVE TurnInv(t)'
  <2>1. SUFFICES ASSUME Kind(t)' = "turn" PROVE TurnInv(t)'
    BY DEF TurnInv
  <2>2. t \in Ids /\ Kind(t) = "turn"
    BY <1>1, <1>3, <2>1 DEF Kind
  <2>3. TurnInv(t) /\ \A k \in Attempts : Picked(k, t)' <=> Picked(k, t)
    BY <1>2, <2>2 DEF LogInv, Picked
  <2>4. QED
    BY <1>1, <1>2, <1>6, <2>2, <2>3, TurnIsKept
<1>9. ASSUME NEW i \in Ids', Compressed(i)'
      PROVE  /\ i \in Ids /\ i # s /\ messages[i].by # s /\ messages'[i] = messages[i]
             /\ Compressed(i)
  <2>1. i \in Ids /\ messages'[i].deleted = FALSE /\ messages'[i].by # 0
    BY <1>3, <1>9 DEF Compressed
  <2>2. i # s /\ messages[i].deleted = FALSE
    BY <1>5, <2>1
  <2>3. messages[i].by # s
    BY <1>1, <2>1, <2>2
  <2>4. messages'[i] = messages[i]
    BY <1>1, <2>1, <2>2, <2>3
  <2>5. QED
    BY <1>9, <2>1, <2>2, <2>3, <2>4 DEF Compressed, Kind
<1>10. ASSUME NEW i \in Ids' PROVE ByInv(i)'
  <2>1. SUFFICES ASSUME Compressed(i)' PROVE ByInv(i)'
    BY DEF ByInv
  <2>2. /\ i \in Ids /\ messages[i].by # s /\ messages'[i] = messages[i]
        /\ Compressed(i)
    BY <1>9, <2>1
  <2>3. PICK c \in Ids :
          /\ c = messages[i].by /\ Kind(c) = "summary"
          /\ \/ messages[c].deleted = FALSE
             \/ \E u \in Ids : /\ Kind(u) = "turn" /\ messages[u].deleted = FALSE
                               /\ u > c
    BY <2>2 DEF LogInv, ByInv
  <2>4. messages'[c].kind = "summary" /\ messages'[c].deleted = messages[c].deleted
    BY <1>1, <2>2, <2>3 DEF Kind
  <2>5. \/ messages'[c].deleted = FALSE
        \/ \E u \in Ids : /\ messages'[u].kind = "turn" /\ messages'[u].deleted = FALSE
                          /\ u > c
    BY <1>1, <1>6, <2>3, <2>4 DEF Kind
  <2>6. QED
    BY <1>3, <2>2, <2>3, <2>4, <2>5 DEF ByInv, Kind
<1>11. ASSUME NEW i \in Ids', NEW j \in Ids' PROVE OrderInv(i, j)'
  <2>1. SUFFICES ASSUME i < j, Compressed(j)', Kind(i)' # "summary",
                        messages'[i].deleted = FALSE
                 PROVE  Compressed(i)' /\ messages'[i].by <= messages'[j].by
    BY DEF OrderInv
  <2>2. /\ j \in Ids /\ messages[j].by # s /\ messages'[j] = messages[j]
        /\ Compressed(j)
    BY <1>9, <2>1
  <2>3. i \in Ids /\ i # s /\ Kind(i) # "summary" /\ messages[i].deleted = FALSE
    BY <1>1, <1>3, <1>5, <2>1 DEF Kind
  <2>4. Compressed(i) /\ messages[i].by <= messages[j].by
    BY <2>1, <2>2, <2>3 DEF LogInv, OrderInv
  <2>5. messages[i].by # s
    <3>1. SUFFICES ASSUME messages[i].by = s PROVE FALSE
      OBVIOUS
    <3>2. PICK c \in Ids :
            /\ c = messages[j].by /\ Kind(c) = "summary"
            /\ \/ messages[c].deleted = FALSE
               \/ \E u \in Ids : /\ Kind(u) = "turn" /\ messages[u].deleted = FALSE
                                 /\ u > c
      BY <2>2 DEF LogInv, ByInv
    <3>3. c > s
      BY <1>3, <2>2, <2>4, <3>1, <3>2
    <3>4. CASE messages[c].deleted = FALSE
      <4>1. c <= s
        BY <1>1, <3>2, <3>4
      <4>2. QED
        BY <1>3, <3>3, <4>1
    <3>5. CASE \E u \in Ids : /\ Kind(u) = "turn" /\ messages[u].deleted = FALSE
                              /\ u > c
      <4>1. PICK u \in Ids : Kind(u) = "turn" /\ messages[u].deleted = FALSE /\ u > c
        BY <3>5
      <4>2. u > s
        BY <1>3, <3>3, <4>1
      <4>3. QED
        BY <1>1, <4>1, <4>2
    <3>6. QED
      BY <3>2, <3>4, <3>5
  <2>6. messages'[i] = messages[i]
    BY <1>1, <2>3, <2>5
  <2>7. QED
    BY <2>2, <2>4, <2>6 DEF Compressed, Kind
<1>12. LogInv'
  <2>1. ASSUME NEW k \in Attempts' PROVE AttemptInv(k)'
    BY <1>2, <1>3 DEF LogInv, AttemptInv
  <2>2. QED
    BY <1>7, <1>8, <1>10, <1>11, <2>1 DEF LogInv
<1>13. WorkInv'
  <2>1. ASSUME work.kind = "chat" PROVE TurnIsAlive(work.attempt)'
    <3>1. PICK w \in Attempts : w = work.attempt /\ TurnIsAlive(w)
      BY <2>1 DEF WorkInv
    <3>2. attempts[w].turn \in Ids
      BY DEF LogInv, AttemptInv
    <3>3. QED
      BY <1>1, <1>2, <1>6, <3>1, <3>2 DEF TurnIsAlive, Kind
  <2>2. QED
    BY <1>1, <1>2, <2>1 DEF WorkInv
<1>14. ASSUME NEW i \in ShownAnswers PROVE ShowsOn(i)
  <2>1. i \in Ids /\ Kind(i) = "answer"
    BY ShownFacts
  <2>2. i # s /\ i \in Ids'
    BY <1>1, <1>3, <2>1
  <2>3. QED
    BY <1>1, <1>2, <2>1, <2>2, ShownByFields
<1>15. KindsStay
  BY <1>1, <1>3 DEF KindsStay
<1>16. QED
  BY <1>15, <1>2, <1>4, <1>12, <1>13, <1>14 DEF SelectionStep

-----------------------------------------------------------------------------
(* Steps that read, and what they have read *)

(* A step that leaves the log alone. *)
LEMMA QuietStep ==
  ASSUME TypeOK, LogInv, messages' = messages, attempts' = attempts, revision' = revision
  PROVE  LogInv' /\ SelectionStep /\ KindsStay
<1>1. Ids' = Ids /\ Attempts' = Attempts
  BY DEF Ids, Attempts
<1>2. /\ \A i \in Ids' : MessageInv(i)'
      /\ \A i \in Ids' : ByInv(i)'
      /\ \A i, j \in Ids' : OrderInv(i, j)'
  BY <1>1, SameMessages
<1>3. \A k \in Attempts' : AttemptInv(k)'
  BY <1>1 DEF LogInv, AttemptInv
<1>4. ASSUME NEW t \in Ids' PROVE TurnInv(t)'
  <2>1. TurnInv(t) /\ \A k \in Attempts : Picked(k, t)' <=> Picked(k, t)
    BY <1>1 DEF LogInv, Picked
  <2>2. QED
    BY <1>1, <2>1, TurnIsKept
<1>5. ASSUME NEW i \in ShownAnswers PROVE ShowsOn(i)
  <2>1. i \in Ids'
    BY <1>1, ShownFacts
  <2>2. QED
    BY <2>1, ShownByFields
<1>6. KindsStay
  BY <1>1 DEF KindsStay
<1>7. QED
  BY <1>2, <1>3, <1>4, <1>5, <1>6 DEF LogInv, SelectionStep

(* A run that is not a chat run needs nothing of the attempts. *)
LEMMA WorkWithoutAttempt ==
  ASSUME Len(messages') = Len(messages), work'.kind # "chat",
         work'.preserve <= Len(messages),
         work'.kind = "prepared" => work'.boundary <= Len(messages) + 1
  PROVE  WorkInv'
BY DEF WorkInv

(* What is preserved is a message of the session. *)
LEMMA PreservableIsListed ==
  ASSUME TypeOK
  PROVE  \A p \in Preservable : p \in Nat /\ p <= Len(messages)
<1>1. \A p \in Preservable : p \in Ids
  BY RetriedAreListed DEF Preservable, EditTargets, Listed
<1>2. QED
  BY <1>1, Fields DEF Ids

(* A compaction is admitted. *)
LEMMA StartKeepsWork ==
  ASSUME TypeOK, NEW manual \in BOOLEAN, NEW p \in Nat, p <= Len(messages),
         StartCompaction(manual, p)
  PROVE  TypeOK' /\ WorkInv' /\ work'.kind = "admitted"
<1> DEFINE w == [NoWork EXCEPT !.kind = "admitted", !.manual = manual, !.preserve = p]
<1>1. w \in Run /\ w.kind = "admitted" /\ w.preserve = p
  <2>1. {} \in SUBSET Nat
    OBVIOUS
  <2>2. QED
    BY <2>1 DEF NoWork, Run
<1>2. work' = w
  BY DEF StartCompaction
<1> HIDE DEF w
<1>3. messages' = messages /\ attempts' = attempts /\ revision' = revision /\ derived' = derived
  BY DEF StartCompaction
<1>4. TypeOK'
  BY <1>1, <1>2, <1>3 DEF TypeOK
<1>5. WorkInv'
  BY <1>1, <1>2, <1>3, WorkWithoutAttempt
<1>6. QED
  BY <1>1, <1>2, <1>4, <1>5

(* However a compaction comes to be asked for. *)
LEMMA CompactKeepsWork ==
  ASSUME TypeOK, Compact
  PROVE  /\ TypeOK' /\ WorkInv' /\ work'.kind = "admitted"
         /\ messages' = messages /\ attempts' = attempts /\ revision' = revision
         /\ derived' = derived
<1>1. PICK manual \in BOOLEAN, p \in Nat :
        StartCompaction(manual, p) /\ p <= Len(messages)
  <2>1. 0 \in Nat /\ 0 <= Len(messages)
    BY Fields
  <2>2. CASE StartCompaction(TRUE, 0)
    BY <2>1, <2>2
  <2>3. CASE StartCompaction(FALSE, 0)
    BY <2>1, <2>3
  <2>4. CASE \E p \in Preservable : StartCompaction(FALSE, p)
    BY <2>4, PreservableIsListed
  <2>5. QED
    BY <2>2, <2>3, <2>4 DEF Compact
<1>2. TypeOK' /\ WorkInv' /\ work'.kind = "admitted"
  BY <1>1, StartKeepsWork
<1>3. QED
  BY <1>1, <1>2 DEF StartCompaction

(* A compaction works from messages of the agent's view, up to a boundary.     *)
LEMMA ReadMessagesFields ==
  ASSUME TypeOK, LogInv, WorkInv, CompactionReadsMessages
  PROVE  \/ work' = NoWork
         \/ /\ work' \in Run /\ work'.kind = "prepared" /\ work'.revision = work.revision
            /\ work'.source \subseteq AgentView
            /\ work'.boundary <= Len(messages) + 1 /\ work'.preserve = work.preserve
<1>0. PICK n \in Nat : n = Len(messages)
  BY Fields
<1> DEFINE source == IF work.preserve = 0 THEN AgentView
                     ELSE {i \in AgentView : i < work.preserve}
           boundary == IF work.preserve = 0 THEN Latest(source) + 1 ELSE work.preserve
<1>1. \/ work' = NoWork
      \/ /\ source # {}
         /\ work' = [work EXCEPT !.kind = "prepared", !.source = source, !.boundary = boundary]
  BY DEF CompactionReadsMessages, EndCompaction
<1>2. AgentView \subseteq Ids /\ source \subseteq AgentView
  BY DEF AgentView, Listed
<1>3. work.preserve \in Nat /\ work.preserve <= n /\ work \in Run
  BY <1>0 DEF TypeOK, Run, WorkInv
<1>4. ASSUME source # {}
      PROVE  boundary \in Nat /\ boundary <= n + 1
  <2>1. CASE work.preserve = 0
    <3>1. Latest(source) \in source
      BY <1>2, <1>4, LatestExists
    <3>2. Latest(source) \in 1 .. n
      BY <1>0, <1>2, <3>1 DEF Ids
    <3> HIDE DEF source
    <3>3. QED
      BY <2>1, <3>2
  <2>2. CASE work.preserve # 0
    BY <1>3, <2>2
  <2>3. QED
    BY <2>1, <2>2
<1>5. source \in SUBSET Nat
  <2>1. Ids \subseteq Nat
    BY <1>0 DEF Ids
  <2> HIDE DEF source
  <2>2. QED
    BY <1>2, <2>1
<1> HIDE DEF source, boundary
<1>6. CASE source # {} /\ work' = [work EXCEPT !.kind = "prepared", !.source = source,
                                               !.boundary = boundary]
  <2>1. PICK b \in Nat : b = boundary /\ b <= n + 1
    BY <1>4, <1>6
  <2>2. PICK w \in Run : w = work
    BY <1>3
  <2>3. work' = [w EXCEPT !.kind = "prepared", !.source = source, !.boundary = b]
    BY <1>6, <2>1, <2>2
  <2>4. /\ work' \in Run /\ work'.kind = "prepared" /\ work'.revision = w.revision
        /\ work'.source = source /\ work'.boundary = b /\ work'.preserve = w.preserve
    BY <1>5, <2>3 DEF Run
  <2>5. QED
    BY <1>0, <1>2, <2>1, <2>2, <2>4
<1>7. QED
  BY <1>1, <1>6

(* What a compaction reads is shown. *)
LEMMA ViewIsShown ==
  ASSUME NEW i \in AgentView, Kind(i) = "answer"
  PROVE  i \in ShownAnswers
BY DEF AgentView, Listed, ShownAnswers, Answers

(* What was read stays shown as long as the revision stays the same. *)
LEMMA ReadsAreKept ==
  ASSUME TypeOK, LogInv, ReadInv, SelectionStep, KindsStay, derived' = derived,
         work' = work \/ work'.kind \notin {"session", "prepared"}
  PROVE  ReadInv'
<1>1. /\ revision \in Nat /\ derived.revision \in Nat /\ work.revision \in Nat
  BY DEF TypeOK, Derived, Run
<1>2. CASE revision' = revision + 1
  <2>1. derived.step \in {"revision", "history"} => derived.revision <= revision /\ derived.revision # revision'
    BY <1>1, <1>2 DEF ReadInv
  <2>2. work.kind \in {"session", "prepared"} => work.revision <= revision /\ work.revision # revision'
    BY <1>1, <1>2 DEF ReadInv
  <2>3. work.kind = "prepared" => work.source \subseteq Ids'
    BY DEF ReadInv, KindsStay
  <2>4. \A r \in Nat : r <= revision => r <= revision'
    BY <1>1, <1>2
  <2>5. /\ derived.step \in {"revision", "history"} => derived.revision <= revision'
        /\ work.kind \in {"session", "prepared"} => work.revision <= revision'
    BY <1>1, <2>1, <2>2, <2>4
  <2>6. QED
    BY <2>1, <2>2, <2>3, <2>5 DEF ReadInv
<1>3. CASE revision' = revision /\ \A i \in ShownAnswers : ShowsOn(i)
  <2>1. SelectedAnswers \subseteq SelectedAnswers'
    <3>1. SUFFICES ASSUME NEW a \in SelectedAnswers PROVE a \in SelectedAnswers'
      OBVIOUS
    <3>2. PICK i \in Ids : Alive(i) /\ Kind(i) = "answer" /\ Shown(i) /\ a = messages[i].attempt
      BY DEF SelectedAnswers
    <3>3. i \in ShownAnswers
      BY <3>2 DEF ShownAnswers, Answers
    <3>4. i \in ShownAnswers' /\ messages'[i].attempt = a
      BY <1>3, <3>2, <3>3 DEF ShowsOn
    <3>5. QED
      BY <3>4 DEF ShownAnswers, Answers, SelectedAnswers
  <2>2. derived.step = "history" /\ derived.revision = revision =>
          derived.view \subseteq SelectedAnswers'
    BY <2>1 DEF ReadInv
  <2>3. work.kind = "prepared" => work.source \subseteq Ids'
    BY DEF ReadInv, KindsStay
  <2>4. ASSUME work.kind = "prepared", work.revision = revision, NEW i \in work.source,
               Kind(i)' = "answer"
        PROVE  i \in ShownAnswers'
    <3>1. i \in Ids
      BY <2>4 DEF ReadInv
    <3>2. Kind(i) = "answer"
      BY <2>4, <3>1 DEF KindsStay, Kind
    <3>3. i \in ShownAnswers
      BY <2>4, <3>2 DEF ReadInv
    <3>4. QED
      BY <1>3, <3>3 DEF ShowsOn
  <2>5. QED
    BY <1>3, <2>2, <2>3, <2>4 DEF ReadInv
<1>4. QED
  BY <1>2, <1>3 DEF SelectionStep

-----------------------------------------------------------------------------
(* The invariant is inductive *)

(* The steps of a chat run and of its user. *)
LogStep == \/ Send \/ Retry \/ Edit \/ EndWithMessages \/ EndWithoutMessages
           \/ Select \/ Delete \/ UndoCheckpoint

(* They keep the log, and what was read of it, in order. *)
LEMMA LogSteps ==
  ASSUME HistoryInv, LogStep
  PROVE  HistoryInv' /\ SelectionStep /\ StaysAnswered
<1>1. TypeOK /\ LogInv /\ WorkInv /\ ReadInv
  BY DEF HistoryInv
<1>2. /\ TypeOK' /\ LogInv' /\ WorkInv' /\ SelectionStep /\ KindsStay
      /\ derived' = derived
      /\ work' = work \/ work' = NoWork \/ work'.kind = "chat"
  <2>1. CASE Send
    <3>1. work' = [NoWork EXCEPT !.kind = "chat", !.attempt = Len(attempts) + 1]
      BY <2>1 DEF Send, Begin
    <3>2. work'.kind = "chat"
      BY <3>1 DEF NoWork
    <3>3. derived' = derived
      BY <2>1 DEF Send
    <3>4. QED
      BY <1>1, <2>1, <3>2, <3>3, SendKeepsLog
  <2>2. CASE Retry
    <3>1. work' = [NoWork EXCEPT !.kind = "chat", !.attempt = Len(attempts) + 1]
      BY <2>2 DEF Retry, Begin
    <3>2. work'.kind = "chat"
      BY <3>1 DEF NoWork
    <3>3. derived' = derived
      BY <2>2 DEF Retry
    <3>4. QED
      BY <1>1, <2>2, <3>2, <3>3, RetryKeepsLog
  <2>3. CASE Edit
    <3>1. work' = [NoWork EXCEPT !.kind = "chat", !.attempt = Len(attempts) + 1]
      BY <2>3 DEF Edit
    <3>2. work'.kind = "chat"
      BY <3>1 DEF NoWork
    <3>3. derived' = derived
      BY <2>3 DEF Edit
    <3>4. QED
      BY <1>1, <2>3, <3>2, <3>3, EditKeepsLog
  <2>4. CASE EndWithMessages
    <3>1. derived' = derived /\ work' = NoWork
      BY <2>4 DEF EndWithMessages
    <3>2. QED
      BY <1>1, <2>4, <3>1, EndWithMessagesKeepsLog
  <2>5. CASE EndWithoutMessages
    <3>1. derived' = derived /\ work' = NoWork
      BY <2>5 DEF EndWithoutMessages
    <3>2. QED
      BY <1>1, <2>5, <3>1, EndWithoutMessagesKeepsLog
  <2>6. CASE Select
    <3>1. derived' = derived /\ work' = work
      BY <2>6 DEF Select
    <3>2. QED
      BY <1>1, <2>6, <3>1, SelectKeepsLog
  <2>7. CASE Delete
    <3>1. derived' = derived /\ work' = work
      BY <2>7 DEF Delete
    <3>2. QED
      BY <1>1, <2>7, <3>1, DeleteKeepsLog
  <2>8. CASE UndoCheckpoint
    <3>1. derived' = derived /\ work' = work
      BY <2>8 DEF UndoCheckpoint
    <3>2. QED
      BY <1>1, <2>8, <3>1, UndoKeepsLog
  <2>9. QED
    BY <2>1, <2>2, <2>3, <2>4, <2>5, <2>6, <2>7, <2>8 DEF LogStep
<1>3. work' = work \/ work'.kind \notin {"session", "prepared"}
  BY <1>2 DEF NoWork
<1>4. ReadInv'
  BY <1>1, <1>2, <1>3, ReadsAreKept
<1>5. StaysAnswered
  <2>1. CASE Edit
    BY <1>1, <2>1, EditKeepsLog
  <2>2. CASE EndWithMessages
    BY <1>1, <2>2, EndWithMessagesKeepsLog
  <2>3. CASE Select
    BY <1>1, <2>3, SelectKeepsLog
  <2>4. CASE Delete
    BY <1>1, <2>4, DeleteKeepsLog
  <2>5. CASE Send \/ Retry \/ EndWithoutMessages \/ UndoCheckpoint
    <3>1. revision' = revision /\ revision \in Nat
      BY <1>1, <2>5 DEF Send, Retry, EndWithoutMessages, UndoCheckpoint, TypeOK
    <3>2. \A i \in ShownAnswers : ShowsOn(i)
      BY <1>2, <3>1 DEF SelectionStep
    <3>3. QED
      BY <3>2, AnsweredByShown
  <2>6. QED
    BY <2>1, <2>2, <2>3, <2>4, <2>5 DEF LogStep
<1>6. QED
  BY <1>2, <1>4, <1>5 DEF HistoryInv

(* A compaction reads, and works from, what is shown. *)
LEMMA CompactionSteps ==
  ASSUME HistoryInv,
         \/ Compact \/ CompactionReadsSession \/ CompactionReadsMessages
         \/ CommitCheckpoint \/ AbandonCompaction
  PROVE  HistoryInv' /\ SelectionStep /\ StaysAnswered
<1>1. TypeOK /\ LogInv /\ WorkInv /\ ReadInv
  BY DEF HistoryInv
<1>2. revision \in Nat /\ work \in Run /\ Len(messages) \in Nat
  BY <1>1, Fields DEF TypeOK
<1>3. ASSUME messages' = messages, attempts' = attempts, revision' = revision,
             derived' = derived, work' \in Run
      PROVE  /\ TypeOK' /\ LogInv' /\ SelectionStep /\ KindsStay /\ StaysAnswered
  <2>1. LogInv' /\ SelectionStep /\ KindsStay
    BY <1>1, <1>3, QuietStep
  <2>2. \A i \in ShownAnswers : ShowsOn(i)
    BY <1>2, <1>3, <2>1 DEF SelectionStep
  <2>3. QED
    BY <1>1, <1>3, <2>1, <2>2, AnsweredByShown DEF TypeOK
<1>4. NoWork \in Run /\ NoWork.kind = "none" /\ NoWork.preserve = 0
  <2>1. 0 \in Nat
    OBVIOUS
  <2>2. QED
    BY <2>1, ChatRun DEF NoWork
<1>5. CASE Compact
  <2>1. /\ TypeOK' /\ WorkInv' /\ work'.kind = "admitted"
        /\ messages' = messages /\ attempts' = attempts /\ revision' = revision
        /\ derived' = derived
    BY <1>1, <1>5, CompactKeepsWork
  <2>2. LogInv' /\ SelectionStep /\ KindsStay /\ StaysAnswered
    BY <1>3, <2>1 DEF TypeOK
  <2>3. ReadInv'
    BY <1>1, <2>1, <2>2, ReadsAreKept
  <2>4. QED
    BY <2>1, <2>2, <2>3 DEF HistoryInv
<1>6. ASSUME messages' = messages, attempts' = attempts, revision' = revision,
             derived' = derived, work' = NoWork
      PROVE  HistoryInv' /\ SelectionStep /\ StaysAnswered
  <2>1. /\ TypeOK' /\ LogInv' /\ SelectionStep /\ KindsStay /\ StaysAnswered
    BY <1>3, <1>4, <1>6
  <2>2. WorkInv'
    BY <1>2, <1>4, <1>6, WorkWithoutAttempt
  <2>3. ReadInv'
    BY <1>1, <1>4, <1>6, <2>1, ReadsAreKept
  <2>4. QED
    BY <2>1, <2>2, <2>3 DEF HistoryInv
<1>7. CASE CompactionReadsSession
  <2>1. PICK w \in Run : w = work
    BY <1>2
  <2>2. /\ work' = [w EXCEPT !.kind = "session", !.revision = revision]
        /\ messages' = messages /\ attempts' = attempts /\ revision' = revision
        /\ derived' = derived
    BY <1>7, <2>1 DEF CompactionReadsSession
  <2>3. /\ work' \in Run /\ work'.kind = "session" /\ work'.revision = revision
        /\ work'.preserve = w.preserve
    BY <1>2, <2>2 DEF Run
  <2>4. /\ TypeOK' /\ LogInv' /\ SelectionStep /\ KindsStay /\ StaysAnswered
    BY <1>3, <2>2, <2>3
  <2>5. WorkInv'
    BY <1>1, <2>1, <2>2, <2>3, WorkWithoutAttempt DEF WorkInv
  <2>6. SelectedAnswers' = SelectedAnswers
    BY <2>2 DEF SelectedAnswers, Ids, Alive, Kind, Shown
  <2>7. ReadInv'
    BY <1>1, <1>2, <2>2, <2>3, <2>6 DEF ReadInv
  <2>8. QED
    BY <2>4, <2>5, <2>7 DEF HistoryInv
<1>8. CASE CompactionReadsMessages
  <2>1. /\ messages' = messages /\ attempts' = attempts /\ revision' = revision
        /\ derived' = derived /\ work.kind = "session"
    BY <1>8 DEF CompactionReadsMessages
  <2>2. CASE work' = NoWork
    BY <1>6, <2>1, <2>2
  <2>3. CASE /\ work' \in Run /\ work'.kind = "prepared" /\ work'.revision = work.revision
             /\ work'.source \subseteq AgentView
             /\ work'.boundary <= Len(messages) + 1 /\ work'.preserve = work.preserve
    <3>1. /\ TypeOK' /\ LogInv' /\ SelectionStep /\ KindsStay /\ StaysAnswered
      BY <1>3, <2>1, <2>3
    <3>2. WorkInv'
      BY <1>1, <2>1, <2>3, WorkWithoutAttempt DEF WorkInv
    <3>3. /\ SelectedAnswers' = SelectedAnswers /\ ShownAnswers' = ShownAnswers
          /\ Ids' = Ids
      BY <2>1 DEF SelectedAnswers, ShownAnswers, Answers, Ids, Alive, Kind, Shown
    <3>4. work'.source \subseteq Ids
      BY <2>3 DEF AgentView, Listed
    <3>5. \A i \in work'.source : messages'[i].kind = "answer" => i \in ShownAnswers'
      BY <2>1, <2>3, <3>3, ViewIsShown DEF Kind
    <3>6. work'.revision <= revision'
      BY <1>1, <2>1, <2>3 DEF ReadInv
    <3>7. ReadInv'
      BY <1>1, <2>1, <2>3, <3>3, <3>4, <3>5, <3>6 DEF ReadInv, Kind
    <3>8. QED
      BY <3>1, <3>2, <3>7 DEF HistoryInv
  <2>4. QED
    BY <1>1, <1>8, <2>2, <2>3, ReadMessagesFields
<1>9. CASE CommitCheckpoint
  <2>1. /\ work' = NoWork /\ attempts' = attempts /\ revision' = revision
        /\ derived' = derived
    BY <1>9 DEF CommitCheckpoint, EndCompaction
  <2>2. CASE revision = work.revision
    <3>1. TypeOK' /\ LogInv' /\ WorkInv' /\ SelectionStep /\ KindsStay
      BY <1>1, <1>9, <2>2, CommitKeepsLog
    <3>2. \A i \in ShownAnswers : ShowsOn(i)
      BY <1>2, <2>1, <3>1 DEF SelectionStep
    <3>3. ReadInv'
      BY <1>1, <1>4, <2>1, <3>1, ReadsAreKept
    <3>4. QED
      BY <3>1, <3>2, <3>3, AnsweredByShown DEF HistoryInv
  <2>3. CASE revision # work.revision
    <3>1. messages' = messages
      BY <1>9, <2>3 DEF CommitCheckpoint, Current
    <3>2. QED
      BY <1>6, <2>1, <3>1
  <2>4. QED
    BY <2>2, <2>3
<1>10. CASE AbandonCompaction
  <2>1. /\ work' = NoWork /\ attempts' = attempts /\ revision' = revision
        /\ derived' = derived /\ messages' = messages
    BY <1>10 DEF AbandonCompaction, EndCompaction
  <2>2. QED
    BY <1>6, <2>1
<1>11. QED
  BY <1>5, <1>7, <1>8, <1>9, <1>10

(* So does a job that derives from the conversation. *)
LEMMA DeriveSteps ==
  ASSUME HistoryInv, DeriveReadsRevision \/ DeriveReadsHistory \/ DeriveSaves
  PROVE  HistoryInv' /\ SelectionStep /\ StaysAnswered
<1>1. TypeOK /\ LogInv /\ WorkInv /\ ReadInv
  BY DEF HistoryInv
<1>2. /\ messages' = messages /\ attempts' = attempts /\ revision' = revision
      /\ work' = work
  BY DEF DeriveReadsRevision, DeriveReadsHistory, DeriveSaves
<1>3. revision \in Nat /\ derived \in Derived
  BY <1>1 DEF TypeOK
<1>4. SelectedAnswers \subseteq Nat
  <2>1. \A i \in Ids : messages[i].attempt \in Nat
    BY <1>1, Fields DEF Message
  <2>2. QED
    BY <2>1 DEF SelectedAnswers
<1>5. /\ SelectedAnswers' = SelectedAnswers /\ ShownAnswers' = ShownAnswers
      /\ Ids' = Ids
  BY <1>2 DEF SelectedAnswers, ShownAnswers, Answers, Ids, Alive, Kind, Shown
<1>6. /\ derived' \in Derived
      /\ derived'.step \in {"revision", "history"} => derived'.revision <= revision
      /\ derived'.step = "history" => derived'.view \subseteq SelectedAnswers
  <2>1. CASE DeriveReadsRevision
    <3>1. derived' = [step |-> "revision", revision |-> revision, view |-> {}]
      BY <2>1 DEF DeriveReadsRevision
    <3>2. {} \in SUBSET Nat
      OBVIOUS
    <3>3. QED
      BY <1>3, <3>1, <3>2 DEF Derived
  <2>2. CASE DeriveReadsHistory
    <3>1. PICK d \in Derived : d = derived
      BY <1>3
    <3>2. derived' = [d EXCEPT !.step = "history", !.view = SelectedAnswers]
      BY <2>2, <3>1 DEF DeriveReadsHistory
    <3>3. /\ derived' \in Derived /\ derived'.revision = d.revision
          /\ derived'.view = SelectedAnswers
      BY <1>4, <3>2 DEF Derived
    <3>4. d.revision <= revision
      BY <1>1, <2>2, <3>1 DEF ReadInv, DeriveReadsHistory
    <3>5. QED
      BY <3>3, <3>4
  <2>3. CASE DeriveSaves
    <3>1. derived' = [NoJob EXCEPT !.step = "saved"] \/ derived' = NoJob
      BY <2>3 DEF DeriveSaves
    <3>2. {} \in SUBSET Nat
      OBVIOUS
    <3>3. QED
      BY <3>1, <3>2 DEF NoJob, Derived
  <2>4. QED
    BY <2>1, <2>2, <2>3
<1>7. LogInv' /\ SelectionStep
  BY <1>1, <1>2, QuietStep
<1>8. TypeOK'
  BY <1>1, <1>2, <1>6 DEF TypeOK
<1>9. WorkInv'
  BY <1>1, <1>2 DEF WorkInv, TurnIsAlive, Kind, Attempts
<1>10. ReadInv'
  BY <1>1, <1>2, <1>5, <1>6 DEF ReadInv, Kind
<1>11. \A i \in ShownAnswers : ShowsOn(i)
  BY <1>2, <1>3, <1>7 DEF SelectionStep
<1>12. QED
  BY <1>7, <1>8, <1>9, <1>10, <1>11, AnsweredByShown DEF HistoryInv

(* Every step keeps the invariant. *)
LEMMA Steps ==
  ASSUME HistoryInv, HistoryNext
  PROVE  HistoryInv' /\ SelectionStep /\ StaysAnswered
<1>1. CASE LogStep
  BY <1>1, LogSteps
<1>2. CASE \/ Compact \/ CompactionReadsSession \/ CompactionReadsMessages
           \/ CommitCheckpoint \/ AbandonCompaction
  BY <1>2, CompactionSteps
<1>3. CASE DeriveReadsRevision \/ DeriveReadsHistory \/ DeriveSaves
  BY <1>3, DeriveSteps
<1>4. QED
  BY <1>1, <1>2, <1>3 DEF HistoryNext, LogStep

(* An empty session satisfies it. *)
LEMMA Initially == HistoryInit => HistoryInv
<1>1. SUFFICES ASSUME HistoryInit PROVE HistoryInv
  OBVIOUS
<1>2. Len(messages) = 0 /\ Ids = {} /\ Attempts = {}
  BY <1>1 DEF HistoryInit, Ids, Attempts
<1>3. TypeOK
  <2>1. 0 \in Nat /\ {} \in SUBSET Nat
    OBVIOUS
  <2>2. NoWork \in Run
    BY <2>1, ChatRun
  <2>3. NoJob \in Derived
    BY <2>1 DEF NoJob, Derived
  <2>4. QED
    BY <1>1, <2>2, <2>3 DEF HistoryInit, TypeOK
<1>4. LogInv
  BY <1>2 DEF LogInv
<1>5. WorkInv /\ ReadInv
  BY <1>1, <1>2 DEF HistoryInit, WorkInv, ReadInv, NoWork, NoJob
<1>6. QED
  BY <1>3, <1>4, <1>5 DEF HistoryInv

(* A step that changes nothing keeps it. *)
LEMMA Stutters ==
  ASSUME HistoryInv, UNCHANGED historyVars
  PROVE  HistoryInv'
<1>1. /\ messages' = messages /\ attempts' = attempts /\ revision' = revision
      /\ work' = work /\ derived' = derived
  BY DEF historyVars
<1>2. TypeOK /\ LogInv /\ WorkInv /\ ReadInv
  BY DEF HistoryInv
<1>3. LogInv' /\ SelectionStep /\ KindsStay
  BY <1>1, <1>2, QuietStep
<1>4. TypeOK' /\ WorkInv'
  BY <1>1, <1>2 DEF TypeOK, WorkInv, TurnIsAlive, Kind, Attempts
<1>5. ReadInv'
  BY <1>1, <1>2, <1>3, ReadsAreKept
<1>6. QED
  BY <1>3, <1>4, <1>5 DEF HistoryInv

(* The invariant holds in every state of a session. *)
LEMMA InvariantHolds == HistorySpec => []HistoryInv
<1>1. HistoryInv /\ [HistoryNext]_historyVars => HistoryInv'
  BY Steps, Stutters
<1>2. QED
  BY Initially, <1>1, PTL DEF HistorySpec

-----------------------------------------------------------------------------
(* Theorems *)

(* A turn of the log has one selected attempt, and a hidden one has none. *)
LEMMA OneSelected == HistoryInv => OneSelectedAttempt
<1>1. SUFFICES ASSUME HistoryInv, NEW t \in Turns
               PROVE  Cardinality({k \in OfTurn(t) : attempts[k].selected})
                        = (IF Alive(t) THEN 1 ELSE 0)
  BY DEF OneSelectedAttempt
<1>2. TypeOK /\ LogInv /\ t \in Ids /\ Kind(t) = "turn"
  BY <1>1 DEF HistoryInv, Turns
<1>3. messages[t].deleted \in BOOLEAN /\ \A k \in Attempts : attempts[k].selected \in BOOLEAN
  BY <1>2, Fields DEF Message, Attempt
<1>4. TurnInv(t) /\ \A k \in Attempts : AttemptInv(k)
  BY <1>2 DEF LogInv
<1> DEFINE S == {k \in OfTurn(t) : attempts[k].selected}
<1>5. \A k : k \in S <=> k \in Attempts /\ Picked(k, t)
  <2>1. \A k \in Attempts : Picked(k, t) => attempts[k].status # "erased"
    BY <1>4 DEF AttemptInv, Picked
  <2>2. \A k \in Attempts : attempts[k].selected <=> attempts[k].selected = TRUE
    BY <1>3
  <2>3. QED
    BY <2>1, <2>2 DEF OfTurn, Picked
<1>6. CASE messages[t].deleted = FALSE
  <2>1. HasOne(t)
    BY <1>2, <1>4, <1>6 DEF TurnInv
  <2>2. PICK k \in Attempts : Picked(k, t) /\ \A j \in Attempts : Picked(j, t) => j = k
    BY <2>1 DEF HasOne
  <2>3. S = {k}
    BY <1>5, <2>2
  <2>4. Cardinality(S) = 1
    BY <2>3, FS_Singleton
  <2>5. QED
    BY <1>6, <2>4 DEF Alive
<1>7. CASE messages[t].deleted = TRUE
  <2>1. HasNone(t)
    BY <1>2, <1>4, <1>7 DEF TurnInv
  <2>2. S = {}
    BY <1>5, <2>1 DEF HasNone
  <2>3. Cardinality(S) = 0
    BY <2>2, FS_EmptySet
  <2>4. QED
    BY <1>7, <2>3 DEF Alive
<1>8. QED
  BY <1>3, <1>6, <1>7

(* A turn that is there has exactly one selected attempt from its admission   *)
(* on, and none once an edit has hidden it, whatever retries, switches,       *)
(* deletions and compactions come in between.  (AdmitChatMessage,             *)
(* finishAnswerAttemptTx, SelectForActiveSession, DeleteForActiveSession.)    *)
THEOREM OneAttemptSelected == HistorySpec => []OneSelectedAttempt
<1>1. HistorySpec => []HistoryInv
  BY InvariantHolds
<1>2. QED
  BY <1>1, OneSelected, PTL

(* A turn that shows an answer goes on showing one until an edit hides the    *)
(* turn.  (finishAnswerAttemptTx, SelectForActiveSession,                     *)
(* DeleteForActiveSession.)                                                   *)
THEOREM AnswersAreKept == HistorySpec => AnswerIsKept
<1>1. ASSUME HistoryInv, HistoryNext
      PROVE  \A t \in Turns :
               (\E i \in ShownAnswers : TurnOf(i) = t) =>
                 ~Alive(t)' \/ (\E i \in ShownAnswers : TurnOf(i) = t)'
  BY <1>1, Steps DEF StaysAnswered
<1>2. HistorySpec => []HistoryInv
  BY InvariantHolds
<1>3. QED
  BY <1>1, <1>2, PTL DEF HistorySpec, AnswerIsKept

(* The two parts of what a derived write asks for. *)
SavedFollows ==
  derived'.step = "saved" /\ derived.step # "saved" =>
    derived.view \subseteq SelectedAnswers
WrittenFollows ==
  work.kind = "prepared" /\ messages' # messages /\ work' = NoWork =>
    \A i \in work.source : Kind(i) = "answer" => i \in ShownAnswers

(* Only a save at the revision read first makes a job saved. *)
LEMMA SaveFollows == ASSUME HistoryInv, HistoryNext PROVE SavedFollows
<1>1. SUFFICES ASSUME derived'.step = "saved", derived.step # "saved"
               PROVE  derived.view \subseteq SelectedAnswers
  BY DEF SavedFollows
<1>2. derived \in Derived /\ ReadInv
  BY DEF HistoryInv, TypeOK
<1>3. ~DeriveReadsRevision
  BY <1>1 DEF DeriveReadsRevision
<1>4. ~DeriveReadsHistory
  <2>1. PICK d \in Derived : d = derived
    BY <1>2
  <2>2. \A S : [d EXCEPT !.step = "history", !.view = S].step = "history"
    BY DEF Derived
  <2>3. QED
    BY <1>1, <2>1, <2>2 DEF DeriveReadsHistory
<1>5. derived' # derived
  BY <1>1
<1>6. DeriveSaves
  BY <1>3, <1>4, <1>5 DEF HistoryNext, Send, Retry, Edit, EndWithMessages,
     EndWithoutMessages, Select, Delete, Compact, StartCompaction,
     CompactionReadsSession, CompactionReadsMessages, CommitCheckpoint,
     AbandonCompaction, UndoCheckpoint
<1>7. derived.step = "history" /\ revision = derived.revision
  BY <1>1, <1>6 DEF DeriveSaves, Current, NoJob
<1>8. QED
  BY <1>2, <1>7 DEF ReadInv

(* Only a commit at the revision read first writes while a checkpoint is made. *)
LEMMA WriteFollows == ASSUME HistoryInv, HistoryNext PROVE WrittenFollows
<1>1. SUFFICES ASSUME work.kind = "prepared", messages' # messages, work' = NoWork
               PROVE  \A i \in work.source : Kind(i) = "answer" => i \in ShownAnswers
  BY DEF WrittenFollows
<1>2. work # NoWork
  BY <1>1 DEF NoWork
<1>3. work' # work
  BY <1>1, <1>2, SMTT(30)
<1>4. CommitCheckpoint
  BY <1>1, <1>3 DEF HistoryNext, Send, Retry, Edit, EndWithMessages,
     EndWithoutMessages, Select, Delete, Compact, StartCompaction,
     CompactionReadsSession, CompactionReadsMessages, AbandonCompaction,
     UndoCheckpoint, DeriveReadsRevision, DeriveReadsHistory, DeriveSaves
<1>5. revision = work.revision
  BY <1>1, <1>4 DEF CommitCheckpoint, Current
<1>6. QED
  BY <1>1, <1>5 DEF HistoryInv, ReadInv

(* A memory, a title or a checkpoint is written only while every answer it    *)
(* was written from is still the selected one.                                *)
(* (ensureAnswerSelectionRevision, saveSessionMemoryWithChange.)              *)
THEOREM DerivedWritesFollow == HistorySpec => DerivedWritesFollowSelection
<1>1. ASSUME HistoryInv, HistoryNext
      PROVE  /\ derived'.step = "saved" /\ derived.step # "saved" =>
                  derived.view \subseteq SelectedAnswers
             /\ work.kind = "prepared" /\ messages' # messages /\ work' = NoWork =>
                  \A i \in work.source : Kind(i) = "answer" => i \in ShownAnswers
  BY <1>1, SaveFollows, WriteFollows DEF SavedFollows, WrittenFollows
<1>2. HistorySpec => []HistoryInv
  BY InvariantHolds
<1>3. QED
  BY <1>1, <1>2, PTL DEF HistorySpec, DerivedWritesFollowSelection

-----------------------------------------------------------------------------
(* Checkpoints, while no answer is switched and no turn is edited *)

(* The checkpoints of the session, undone ones left out, and the error notices *)
(* that are shown.                                                            *)
Checkpoints == {s \in Ids : Kind(s) = "summary" /\ messages[s].deleted = FALSE}
ShownErrors == {e \in Ids : Kind(e) = "error" /\ messages[e].deleted = FALSE /\ Shown(e)}

(* No turn is hidden, and an attempt stores one message, before the next turn. *)
TurnStays(i)   == Kind(i) = "turn" => messages[i].deleted = FALSE
AttemptFits(i) ==
  messages[i].attempt # 0 =>
    /\ \A j \in Ids : messages[j].attempt = messages[i].attempt => j = i
    /\ \A p \in Turns : ~(attempts[messages[i].attempt].turn < p /\ p < i)

(* An error notice is shown right after its turn. *)
ErrorFits(e) ==
  /\ messages[e].attempt # 0
  /\ \E t \in Turns : e = t + 1 /\ attempts[messages[e].attempt].turn = t

TextsFitTurns ==
  /\ \A i \in Ids : TurnStays(i) /\ AttemptFits(i)
  /\ \A e \in ShownErrors : ErrorFits(e)

(* What is compressed is so by a checkpoint that stands behind it; a          *)
(* checkpoint compresses all before it, checkpoints included, each by the     *)
(* next, whose boundary is a later one.                                       *)
CompressedFits(i) ==
  Compressed(i) => messages[i].by \in Checkpoints /\ i < messages[messages[i].by].before
LinkFits(s) == messages[s].by # 0 => messages[s].by \in Checkpoints /\ s < messages[s].by
Behind(s, i) ==
  Kind(i) # "summary" /\ messages[i].deleted = FALSE /\ i < messages[s].before =>
    messages[i].by # 0 /\ messages[i].by <= s
FollowedBy(s, z) ==
  s < z => /\ messages[s].by # 0 /\ messages[s].by <= z
           /\ messages[s].before < messages[z].before

(* It stands for the answers that are compressed by it and by those before it. *)
KnowsShown(s) ==
  \A i \in ShownAnswers : messages[i].by # 0 /\ messages[i].by <= s => i \in messages[s].of

(* Of what follows the boundary b, up to the last turn before s, the agent sees *)
(* nothing: turns that failed, and no answer.                                 *)
LeavesFailed(b, s) ==
  \A p \in Turns : b < p /\ p < s =>
    /\ \A i \in ShownAnswers : ~(b <= i /\ i < p)
    /\ \A t \in Turns : b <= t /\ t < p => t + 1 \in ShownErrors

ChecksFit ==
  /\ \A i \in Ids : CompressedFits(i)
  /\ \A s \in Checkpoints : /\ LinkFits(s) /\ KnowsShown(s)
                            /\ LeavesFailed(messages[s].before, s)
                            /\ messages[s].before \notin ShownErrors
  /\ \A s \in Checkpoints, i \in Ids : Behind(s, i)
  /\ \A s, z \in Checkpoints : FollowedBy(s, z)

(* The run at work stores the first message of its attempt, of the last turn; *)
(* so does a compaction preserve it.                                          *)
ChatFits ==
  work.kind = "chat" =>
    /\ \A i \in Ids : messages[i].attempt # work.attempt
    /\ \A p \in Turns : p <= attempts[work.attempt].turn
    /\ attempts[work.attempt].selected = TRUE =>
         attempts[work.attempt].turn = Len(messages) /\ Len(messages) \in Turns
PreserveFits ==
  work.kind \in {"admitted", "session"} /\ work.preserve # 0 =>
    \A p \in Turns : p <= work.preserve

(* A checkpoint that is about to be committed stands for all that will be     *)
(* compressed, if the same answers are selected.                              *)
Covers(source, b) ==
  /\ \A s \in Checkpoints : messages[s].before < b
  /\ \A i \in ShownAnswers :
       i < b \/ messages[i].by # 0 => \E j \in source : i \in Stands(j)
  /\ LeavesFailed(b, Len(messages) + 1)
  /\ b \notin ShownErrors
PreparedFits ==
  work.kind = "prepared" /\ work.revision = revision =>
    Covers(work.source, work.boundary)

ContextInv == TextsFitTurns /\ ChecksFit /\ ChatFits /\ PreserveFits /\ PreparedFits

(* Numbers. *)
LEMMA Numbers ==
  ASSUME TypeOK, LogInv
  PROVE  /\ Len(messages) \in Nat /\ Ids = 1 .. Len(messages)
         /\ \A i \in Ids : /\ messages[i] \in Message /\ messages[i].by \in Nat
                           /\ messages[i].before \in Nat /\ messages[i].before <= i
                           /\ messages[i].deleted \in BOOLEAN
<1>1. Len(messages) \in Nat /\ \A i \in Ids : messages[i] \in Message
  BY Fields
<1>2. \A i \in Ids : messages[i].before <= i
  BY DEF LogInv, MessageInv
<1>3. QED
  BY <1>1, <1>2 DEF Ids, Message

(* Messages and attempts come to be, but no error notice is shown that was not, *)
(* and no attempt gets a message.                                             *)
TextsStay ==
  /\ \A i \in Ids : /\ i \in Ids' /\ messages'[i].kind = messages[i].kind
                    /\ Kind(i) = "turn" => messages'[i].deleted = messages[i].deleted
                    /\ messages'[i].attempt \in {0, messages[i].attempt}
  /\ \A i \in Ids' \ Ids : /\ i > Len(messages) /\ messages'[i].attempt = 0
                           /\ messages'[i].deleted = FALSE
  /\ \A k \in Attempts : attempts'[k].turn = attempts[k].turn
  /\ \A e \in ShownErrors' : e \in ShownErrors /\ messages'[e].attempt = messages[e].attempt

LEMMA TextsGoOn ==
  ASSUME TypeOK, LogInv, TextsFitTurns, TextsStay
  PROVE  TextsFitTurns'
<1>1. \A i \in Ids : messages[i].attempt \in Attempts \cup {0}
  BY DEF LogInv, MessageInv
<1>2. \A p \in Turns : p \in Turns'
  BY DEF Turns, TextsStay, Kind
<1>3. \A p \in Turns' : p \in Turns \/ p > Len(messages)
  BY DEF Turns, TextsStay, Kind
<1>4. ASSUME NEW i \in Ids' PROVE TurnStays(i)'
  <2>1. CASE i \in Ids
    <3>1. TurnStays(i) /\ messages'[i].kind = messages[i].kind
      BY <2>1 DEF TextsFitTurns, TextsStay
    <3>2. Kind(i) = "turn" => messages'[i].deleted = messages[i].deleted
      BY <2>1 DEF TextsStay
    <3>3. QED
      BY <3>1, <3>2 DEF TurnStays, Kind
  <2>2. CASE i \notin Ids
    <3>1. messages'[i].deleted = FALSE
      BY <2>2 DEF TextsStay
    <3>2. QED
      BY <3>1 DEF TurnStays
  <2>3. QED
    BY <2>1, <2>2
<1>5. ASSUME NEW i \in Ids' PROVE AttemptFits(i)'
  <2>1. SUFFICES ASSUME messages'[i].attempt # 0 PROVE AttemptFits(i)'
    BY DEF AttemptFits
  <2>2. /\ i \in Ids /\ messages'[i].attempt = messages[i].attempt
        /\ messages[i].attempt \in Attempts /\ AttemptFits(i)
    BY <1>1, <2>1 DEF TextsStay, TextsFitTurns
  <2>3. ASSUME NEW j \in Ids', messages'[j].attempt = messages'[i].attempt PROVE j = i
    <3>1. j \in Ids /\ messages[j].attempt = messages[i].attempt
      BY <2>1, <2>2, <2>3 DEF TextsStay
    <3>2. QED
      BY <2>1, <2>2, <3>1 DEF AttemptFits
  <2>4. ASSUME NEW p \in Turns', attempts'[messages'[i].attempt].turn < p, p < i PROVE FALSE
    <3>1. attempts[messages[i].attempt].turn < p
      BY <2>2, <2>4 DEF TextsStay
    <3>2. p \in Turns
      <4>1. p \in Int /\ i <= Len(messages) /\ i \in Int
        BY <2>2, <2>4, Numbers DEF Turns, Ids
      <4>2. QED
        BY <1>3, <2>4, <4>1, Numbers
    <3>3. QED
      BY <2>1, <2>2, <2>4, <3>1, <3>2 DEF AttemptFits
  <2>5. QED
    BY <2>3, <2>4 DEF AttemptFits
<1>6. ASSUME NEW e \in ShownErrors' PROVE ErrorFits(e)'
  <2>1. e \in ShownErrors /\ messages'[e].attempt = messages[e].attempt /\ ErrorFits(e)
    BY DEF TextsStay, TextsFitTurns
  <2>2. messages[e].attempt \in Attempts
    BY <1>1, <2>1 DEF ErrorFits, ShownErrors
  <2>3. QED
    BY <1>2, <2>1, <2>2 DEF ErrorFits, TextsStay
<1>7. QED
  BY <1>4, <1>5, <1>6 DEF TextsFitTurns

(* The checkpoints stay, and so does what is compressed. *)
ChecksStay ==
  /\ \A i \in Ids : /\ i \in Ids' /\ messages'[i].kind = messages[i].kind
                    /\ messages'[i].by = messages[i].by
                    /\ messages'[i].before = messages[i].before
                    /\ messages'[i].of = messages[i].of
                    /\ messages'[i].deleted = FALSE => messages[i].deleted = FALSE
                    /\ Kind(i) = "summary" => messages'[i].deleted = messages[i].deleted
  /\ \A i \in Ids' \ Ids : /\ i > Len(messages) /\ messages'[i].kind # "summary"
                           /\ messages'[i].by = 0

(* What comes to be shown is not compressed; where the checkpoints left no     *)
(* answer there is none; turns that failed go on being failed.                *)
ShowsNoOther ==
  /\ \A i \in ShownAnswers' : messages'[i].by # 0 => i \in ShownAnswers
  /\ \A s \in Checkpoints, i \in ShownAnswers', p \in Turns :
       messages[s].before <= i /\ i < p /\ p < s =>
         \E a \in ShownAnswers : messages[s].before <= a /\ a < p
  /\ \A e \in ShownErrors' : e \in ShownErrors \/ e > Len(messages)
  /\ \A t, p \in Turns : t < p /\ t + 1 \in ShownErrors => t + 1 \in ShownErrors'

LEMMA ChecksGoOn ==
  ASSUME TypeOK, LogInv, ChecksFit, ChecksStay, ShowsNoOther
  PROVE  ChecksFit'
<1>1. Checkpoints' = Checkpoints
  BY DEF Checkpoints, ChecksStay, Kind
<1>2. \A s \in Checkpoints : /\ s \in Ids /\ messages'[s].by = messages[s].by
                             /\ messages'[s].before = messages[s].before
                             /\ messages'[s].of = messages[s].of
  BY DEF Checkpoints, ChecksStay
<1>3. ASSUME NEW i \in Ids' PROVE CompressedFits(i)'
  <2>1. SUFFICES ASSUME Compressed(i)' PROVE CompressedFits(i)'
    BY DEF CompressedFits
  <2>2. i \in Ids /\ Compressed(i) /\ messages'[i].by = messages[i].by
    BY <2>1 DEF Compressed, ChecksStay, Kind
  <2>3. messages[i].by \in Checkpoints /\ i < messages[messages[i].by].before
    BY <2>2 DEF ChecksFit, CompressedFits
  <2>4. QED
    BY <1>1, <1>2, <2>2, <2>3 DEF CompressedFits
<1>4. ASSUME NEW s \in Checkpoints', NEW i \in Ids' PROVE Behind(s, i)'
  <2>1. s \in Checkpoints
    BY <1>1
  <2>2. CASE i \in Ids
    <3>1. Behind(s, i)
      BY <2>1, <2>2 DEF ChecksFit
    <3>2. QED
      BY <1>2, <2>1, <2>2, <3>1 DEF Behind, ChecksStay, Kind
  <2>3. CASE i \notin Ids
    <3>1. i > Len(messages) /\ i \in Nat
      BY <2>3 DEF ChecksStay, Ids
    <3>2. ~(i < messages'[s].before)
      BY <1>2, <2>1, <3>1, Numbers
    <3>3. QED
      BY <3>2 DEF Behind
  <2>4. QED
    BY <2>2, <2>3
<1>5. ASSUME NEW s \in Checkpoints', NEW z \in Checkpoints' PROVE FollowedBy(s, z)'
  BY <1>1, <1>2 DEF ChecksFit, FollowedBy
<1>6. ASSUME NEW s \in Checkpoints' PROVE LinkFits(s)'
  BY <1>1, <1>2 DEF ChecksFit, LinkFits
<1>7. ASSUME NEW s \in Checkpoints' PROVE KnowsShown(s)'
  <2>1. SUFFICES ASSUME NEW i \in ShownAnswers', messages'[i].by # 0, messages'[i].by <= s
                 PROVE  i \in messages'[s].of
    BY DEF KnowsShown
  <2>2. i \in ShownAnswers
    BY <2>1 DEF ShowsNoOther
  <2>3. i \in Ids
    BY <2>2 DEF ShownAnswers, Answers
  <2>4. s \in Checkpoints /\ KnowsShown(s)
    BY <1>1 DEF ChecksFit
  <2>5. QED
    BY <1>2, <2>1, <2>2, <2>3, <2>4 DEF KnowsShown, ChecksStay
<1>8. ASSUME NEW s \in Checkpoints' PROVE LeavesFailed(messages[s].before, s)'
  <2>1. s \in Checkpoints /\ messages'[s].before = messages[s].before /\ s \in Ids
    BY <1>1, <1>2
  <2>2. LeavesFailed(messages[s].before, s)
    BY <2>1 DEF ChecksFit
  <2>3. PICK b \in Nat : b = messages[s].before /\ b <= s
    BY <2>1, Numbers
  <2>4. SUFFICES ASSUME NEW p \in Turns', b < p, p < s
                 PROVE  /\ \A i \in ShownAnswers' : ~(b <= i /\ i < p)
                        /\ \A t \in Turns' : b <= t /\ t < p => t + 1 \in ShownErrors'
    BY <2>1, <2>3 DEF LeavesFailed
  <2>5. p \in Turns
    <3>1. p \in Ids
      BY <2>1, <2>4, Numbers DEF Turns, ChecksStay, Ids
    <3>2. QED
      BY <3>1 DEF Turns, ChecksStay, Kind
  <2>6. \A i \in ShownAnswers' : ~(b <= i /\ i < p)
    BY <2>1, <2>2, <2>3, <2>4, <2>5 DEF ShowsNoOther, LeavesFailed
  <2>7. ASSUME NEW t \in Turns', b <= t, t < p PROVE t + 1 \in ShownErrors'
    <3>1. t \in Ids
      BY <2>1, <2>4, <2>7, Numbers DEF Turns, ChecksStay, Ids
    <3>2. t \in Turns
      BY <3>1 DEF Turns, ChecksStay, Kind
    <3>3. t + 1 \in ShownErrors
      BY <2>2, <2>3, <2>4, <2>5, <2>7, <3>2 DEF LeavesFailed
    <3>4. QED
      BY <2>5, <2>7, <3>2, <3>3 DEF ShowsNoOther
  <2>8. QED
    BY <2>6, <2>7
<1>9. ASSUME NEW s \in Checkpoints' PROVE messages'[s].before \notin ShownErrors'
  <2>1. s \in Checkpoints /\ messages'[s].before = messages[s].before /\ s \in Ids
    BY <1>1, <1>2
  <2>2. messages[s].before \notin ShownErrors
    BY <2>1 DEF ChecksFit
  <2>3. ~(messages[s].before > Len(messages))
    BY <2>1, Numbers
  <2>4. QED
    BY <2>1, <2>2, <2>3 DEF ShowsNoOther
<1>10. QED
  BY <1>3, <1>4, <1>5, <1>6, <1>7, <1>8, <1>9 DEF ChecksFit

(* What is listed: what is there, not compressed and of a selected attempt. *)
LEMMA ListedIs ==
  ASSUME TypeOK, LogInv, ChecksFit, NEW i
  PROVE  i \in Listed <=> /\ i \in Ids /\ messages[i].deleted = FALSE
                          /\ messages[i].by = 0 /\ Shown(i)
<1>1. ASSUME i \in Ids, messages[i].deleted = FALSE, messages[i].by = i PROVE FALSE
  <2>1. messages[i].by # 0 /\ i \in Nat
    BY <1>1, Numbers
  <2>2. CASE Kind(i) = "summary"
    <3>1. i \in Checkpoints
      BY <1>1, <2>2 DEF Checkpoints
    <3>2. i < i
      BY <1>1, <2>1, <3>1 DEF ChecksFit, LinkFits
    <3>3. QED
      BY <2>1, <3>2
  <2>3. CASE Kind(i) # "summary"
    <3>1. i \in Checkpoints
      BY <1>1, <2>1, <2>3 DEF ChecksFit, CompressedFits, Compressed
    <3>2. QED
      BY <2>3, <3>1 DEF Checkpoints
  <2>4. QED
    BY <2>2, <2>3
<1>2. i \in Ids => messages[i].deleted \in BOOLEAN
  BY Numbers
<1>3. QED
  BY <1>1, <1>2 DEF Listed, Alive

(* What follows a message that is not compressed is not compressed either. *)
LEMMA LaterIsThere ==
  ASSUME TypeOK, LogInv, ChecksFit, NEW i \in Ids, NEW j \in Ids, i <= j,
         Kind(i) # "summary", messages[i].deleted = FALSE, messages[i].by = 0,
         Kind(j) # "summary", messages[j].deleted = FALSE
  PROVE  messages[j].by = 0
<1>1. SUFFICES ASSUME messages[j].by # 0 PROVE FALSE
  OBVIOUS
<1>2. PICK c \in Checkpoints : c = messages[j].by /\ j < messages[c].before
  BY <1>1 DEF ChecksFit, CompressedFits, Compressed
<1>3. i < messages[c].before
  BY <1>2, Numbers DEF Checkpoints
<1>4. Behind(c, i)
  BY DEF ChecksFit
<1>5. QED
  BY <1>3, <1>4 DEF Behind

(* A turn is there and belongs to no attempt. *)
LEMMA TurnFacts ==
  ASSUME TypeOK, LogInv, TextsFitTurns, NEW p \in Turns
  PROVE  /\ p \in Ids /\ p \in Nat /\ Kind(p) = "turn" /\ messages[p].deleted = FALSE
         /\ messages[p].attempt = 0 /\ Shown(p) /\ p <= Len(messages)
<1>1. p \in Ids /\ Kind(p) = "turn" /\ p \in Nat /\ p <= Len(messages)
  BY Numbers DEF Turns
<1>2. messages[p].deleted = FALSE
  BY <1>1 DEF TextsFitTurns, TurnStays
<1>3. messages[p].attempt = 0
  BY <1>1 DEF LogInv, MessageInv, IsUser
<1>4. QED
  BY <1>1, <1>2, <1>3 DEF Shown

(* No turn comes after a listed turn or checkpoint but listed ones. *)
LEMMA LaterTurns ==
  ASSUME TypeOK, LogInv, TextsFitTurns, ChecksFit, NEW u \in Listed, IsUser(u),
         NEW p \in Turns, u < p
  PROVE  p \in Listed
<1>1. u \in Ids /\ messages[u].deleted = FALSE /\ messages[u].by = 0
  BY ListedIs
<1>2. p \in Ids /\ p \in Nat /\ Kind(p) = "turn" /\ messages[p].deleted = FALSE /\ Shown(p)
  BY TurnFacts
<1>3. SUFFICES ASSUME messages[p].by # 0 PROVE FALSE
  BY <1>2, ListedIs
<1>4. CASE Kind(u) = "turn"
  <2>1. u <= p /\ Kind(u) # "summary" /\ Kind(p) # "summary"
    BY <1>1, <1>2, <1>4, Numbers
  <2>2. messages[p].by = 0
    BY <1>1, <1>2, <2>1, LaterIsThere
  <2>3. QED
    BY <1>3, <2>2
<1>5. CASE Kind(u) = "summary"
  <2>1. u \in Checkpoints
    BY <1>1, <1>5 DEF Checkpoints
  <2>2. PICK c \in Checkpoints : c = messages[p].by /\ p < messages[c].before
    BY <1>2, <1>3 DEF ChecksFit, CompressedFits, Compressed
  <2>3. u < c
    BY <1>1, <1>2, <2>2, Numbers DEF Checkpoints
  <2>4. messages[u].by # 0
    BY <2>1, <2>2, <2>3 DEF ChecksFit, FollowedBy
  <2>5. QED
    BY <1>1, <2>4
<1>6. QED
  BY <1>4, <1>5 DEF IsUser

(* A retry asks the last turn again, or a checkpoint after it. *)
LEMMA RetriedIsLast ==
  ASSUME TypeOK, LogInv, TextsFitTurns, ChecksFit, NEW u \in RetriedUsers, NEW p \in Turns
  PROVE  p <= u
<1>0. PICK n \in Nat : n = Len(messages)
  BY Fields
<1> DEFINE S == {i \in Listed : Kind(i) # "summary"}
           g == Greatest(S)
<1>1. Listed \subseteq Ids /\ Ids = 1 .. n
  BY <1>0 DEF Listed, Ids
<1>2. \A i \in Listed : i \in Nat /\ i \in 0 .. n
  BY <1>1
<1>3. p \in Nat /\ Kind(p) = "turn"
  BY TurnFacts
<1>4. S # {} /\ RetryTargets = {g}
  <2>1. RetryTargets # {}
    BY DEF RetriedUsers
  <2>2. QED
    BY <2>1 DEF RetryTargets
<1>5. g \in S /\ \A i \in S : i <= g
  <2>1. S \subseteq 0 .. n
    BY <1>2
  <2>2. QED
    BY <1>4, <2>1, GreatestExists
<1> HIDE DEF g
<1>6. CASE Kind(g) = "turn" /\ u = g
  <2>1. u \in Listed /\ IsUser(u) /\ u \in Nat
    BY <1>5, <1>6, <1>2 DEF IsUser
  <2>2. u < p => p \in S
    BY <1>3, <2>1, LaterTurns
  <2>3. QED
    BY <1>5, <1>6, <1>3, <2>1, <2>2
<1>7. CASE Kind(g) # "turn" /\ u = Greatest(UsersBefore(g)) /\ UsersBefore(g) # {}
  <2>0. \A j \in UsersBefore(g) : j \in Listed /\ IsUser(j)
    BY DEF UsersBefore
  <2>1. UsersBefore(g) \subseteq 0 .. n
    BY <1>2, <2>0
  <2>2. u \in UsersBefore(g) /\ \A j \in UsersBefore(g) : j <= u
    BY <1>7, <2>1, GreatestExists
  <2>3. u \in Listed /\ IsUser(u) /\ u \in Nat /\ g \in Nat
    BY <1>5, <1>2, <2>0, <2>2
  <2>4. SUFFICES ASSUME u < p PROVE FALSE
    BY <1>3, <2>3
  <2>5. p \in Listed
    BY <2>3, <2>4, LaterTurns
  <2>6. p <= g /\ p # g
    BY <1>5, <1>7, <1>3, <2>5
  <2>7. p \in UsersBefore(g)
    BY <1>3, <2>3, <2>5, <2>6 DEF UsersBefore, IsUser
  <2>8. QED
    BY <1>3, <2>2, <2>3, <2>4, <2>7
<1>8. QED
  <2>1. \/ u \in {t \in {g} : Kind(t) = "turn"}
        \/ u \in {Greatest(UsersBefore(i)) :
                    i \in {t \in {g} : Kind(t) # "turn" /\ UsersBefore(t) # {}}}
    BY <1>4 DEF RetriedUsers
  <2>2. QED
    BY <1>6, <1>7, <2>1

(* So does an edit, and so what a compaction preserves is the last turn. *)
LEMMA PreservedIsLast ==
  ASSUME TypeOK, LogInv, TextsFitTurns, ChecksFit, NEW u \in Preservable, NEW p \in Turns
  PROVE  p <= u
<1>1. CASE u \in RetriedUsers
  BY <1>1, RetriedIsLast
<1>2. CASE u \in EditTargets
  <2>1. u \in Listed /\ Kind(u) = "turn" /\ \A i \in Listed : Kind(i) = "turn" => i <= u
    BY <1>2 DEF EditTargets
  <2>2. u \in Nat /\ p \in Nat /\ Kind(p) = "turn"
    <3>1. u \in Ids
      BY <2>1 DEF Listed
    <3>2. p \in Nat /\ Kind(p) = "turn"
      BY TurnFacts
    <3>3. QED
      BY <3>1, <3>2, Numbers
  <2>3. u < p => p \in Listed
    BY <2>1, LaterTurns DEF IsUser
  <2>4. QED
    BY <2>1, <2>2, <2>3
<1>3. QED
  BY <1>1, <1>2 DEF Preservable

(* The greatest checkpoint is the one that is active. *)
LEMMA ActiveExists ==
  ASSUME TypeOK, LogInv, ChecksFit, Checkpoints # {}
  PROVE  \E x \in Checkpoints : messages[x].by = 0 /\ \A y \in Checkpoints : y <= x
<1>0. PICK n \in Nat : n = Len(messages) /\ Ids = 1 .. n
  BY Fields DEF Ids
<1>1. Checkpoints \subseteq 0 .. n
  BY <1>0 DEF Checkpoints
<1>2. PICK x \in Checkpoints : \A y \in Checkpoints : y <= x
  BY <1>0, <1>1, GreatestExists
<1>3. messages[x].by # 0 => messages[x].by \in Checkpoints /\ x < messages[x].by
  BY DEF ChecksFit, LinkFits
<1>4. x \in Nat /\ messages[x].by \in Nat
  BY Numbers DEF Checkpoints
<1>5. QED
  BY <1>2, <1>3, <1>4

(* Nothing that is shown is lost, and there is one checkpoint to ask. *)
LEMMA ChecksAreSound ==
  ASSUME TypeOK, LogInv, ChecksFit
  PROVE  CheckpointsAreSound
<1>0. PICK n \in Nat : n = Len(messages) /\ Ids = 1 .. n
  BY Fields DEF Ids
<1>1. ActiveCheckpoints = {s \in Checkpoints : messages[s].by = 0}
  <2>1. \A i \in Ids : messages[i].deleted \in BOOLEAN
    BY Numbers
  <2>2. QED
    BY <2>1 DEF ActiveCheckpoints, Checkpoints, Alive
<1>2. ASSUME NEW x \in ActiveCheckpoints, NEW y \in ActiveCheckpoints PROVE x = y
  <2>1. x \in Nat /\ y \in Nat
    BY <1>1, Numbers DEF Checkpoints
  <2>2. FollowedBy(x, y) /\ FollowedBy(y, x)
    BY <1>1 DEF ChecksFit
  <2>3. ~(x < y) /\ ~(y < x)
    BY <1>1, <2>2 DEF FollowedBy
  <2>4. QED
    BY <2>1, <2>3
<1>3. AtMostOneActiveCheckpoint
  <2>1. CASE ActiveCheckpoints = {}
    BY <2>1, FS_EmptySet DEF AtMostOneActiveCheckpoint
  <2>2. CASE ActiveCheckpoints # {}
    <3>1. PICK x : ActiveCheckpoints = {x}
      BY <1>2, <2>2
    <3>2. Cardinality({x}) = 1
      BY FS_Singleton
    <3>3. QED
      BY <3>1, <3>2 DEF AtMostOneActiveCheckpoint
  <2>3. QED
    BY <2>1, <2>2
<1>4. ASSUME NEW i \in ShownAnswers, messages[i].by # 0
      PROVE  \E s \in ActiveCheckpoints : i \in messages[s].of
  <2>1. Compressed(i) /\ i \in Ids
    BY <1>4, ShownFacts DEF Compressed
  <2>2. messages[i].by \in Checkpoints
    BY <2>1 DEF ChecksFit, CompressedFits
  <2>3. PICK x \in Checkpoints : messages[x].by = 0 /\ \A y \in Checkpoints : y <= x
    BY <2>2, ActiveExists
  <2>4. messages[i].by <= x
    BY <2>2, <2>3
  <2>5. i \in messages[x].of
    BY <1>4, <2>4 DEF ChecksFit, KnowsShown
  <2>6. QED
    BY <1>1, <2>3, <2>5
<1>5. QED
  BY <1>3, <1>4 DEF CheckpointsAreSound, ContextIsCovered

(* The messages of a session whose attempts are selected as before are shown   *)
(* as before.                                                                 *)
LEMMA ShownAsBefore ==
  ASSUME TypeOK, LogInv, \A i \in Ids : i \in Ids' /\ messages'[i] = messages[i],
         \A k \in Attempts : attempts'[k].selected = attempts[k].selected
  PROVE  \A i \in Ids : /\ i \in ShownAnswers' <=> i \in ShownAnswers
                        /\ i \in ShownErrors' <=> i \in ShownErrors
<1>1. SUFFICES ASSUME NEW i \in Ids
               PROVE  /\ i \in ShownAnswers' <=> i \in ShownAnswers
                      /\ i \in ShownErrors' <=> i \in ShownErrors
  OBVIOUS
<1>2. messages'[i] = messages[i] /\ i \in Ids' /\ messages[i].attempt \in Attempts \cup {0}
  BY DEF LogInv, MessageInv
<1>3. Shown(i)' <=> Shown(i)
  BY <1>2 DEF Shown
<1>4. QED
  BY <1>2, <1>3 DEF ShownAnswers, Answers, ShownErrors, Kind, Alive

(* A step that leaves the messages alone and selects no other attempt. *)
LEMMA QuietFits ==
  ASSUME TypeOK, LogInv, TextsFitTurns, ChecksFit, messages' = messages,
         \A k \in Attempts : /\ attempts'[k].turn = attempts[k].turn
                             /\ attempts'[k].selected = attempts[k].selected
  PROVE  /\ TextsFitTurns' /\ ChecksFit'
         /\ ShownAnswers' = ShownAnswers /\ ShownErrors' = ShownErrors
         /\ Checkpoints' = Checkpoints /\ Turns' = Turns /\ Ids' = Ids
<1>1. Ids' = Ids /\ Turns' = Turns /\ Checkpoints' = Checkpoints
  BY DEF Ids, Turns, Checkpoints, Kind
<1>2. ShownAnswers' = ShownAnswers /\ ShownErrors' = ShownErrors
  <2>1. \A i \in Ids : /\ i \in ShownAnswers' <=> i \in ShownAnswers
                       /\ i \in ShownErrors' <=> i \in ShownErrors
    BY <1>1, ShownAsBefore
  <2>2. QED
    BY <1>1, <2>1 DEF ShownAnswers, Answers, ShownErrors
<1>3. TextsStay
  BY <1>1, <1>2 DEF TextsStay
<1>4. ChecksStay
  BY <1>1 DEF ChecksStay
<1>5. ShowsNoOther
  BY <1>2 DEF ShowsNoOther
<1>6. QED
  BY <1>1, <1>2, <1>3, <1>4, <1>5, TextsGoOn, ChecksGoOn

(* What a compaction has prepared still fits, or its revision is of the past. *)
PreparedStays ==
  /\ Len(messages') = Len(messages)
  /\ \A s \in Checkpoints' : s \in Checkpoints /\ messages'[s].before = messages[s].before
  /\ \A i \in ShownAnswers' : i \in ShownAnswers /\ (messages'[i].by # 0 => messages[i].by # 0)
  /\ \A i \in Ids : messages'[i].kind = messages[i].kind /\ messages'[i].of = messages[i].of
  /\ Turns' = Turns /\ ShownErrors' = ShownErrors

LEMMA PreparedGoesOn ==
  ASSUME TypeOK, LogInv, ReadInv, PreparedFits, work' = work,
         \/ revision' = revision + 1
         \/ revision' = revision /\ PreparedStays
  PROVE  PreparedFits'
<1>1. revision \in Nat /\ work.revision \in Nat
  BY DEF TypeOK, Run
<1>2. SUFFICES ASSUME work.kind = "prepared", work.revision = revision'
               PROVE  PreparedFits'
  BY DEF PreparedFits
<1>3. work.revision <= revision
  BY <1>2 DEF ReadInv
<1>4. revision' = revision /\ PreparedStays
  BY <1>1, <1>2, <1>3
<1>5. /\ \A s \in Checkpoints : messages[s].before < work.boundary
      /\ \A i \in ShownAnswers : i < work.boundary \/ messages[i].by # 0 =>
           \E j \in work.source : i \in Stands(j)
      /\ LeavesFailed(work.boundary, Len(messages) + 1)
      /\ work.boundary \notin ShownErrors
  BY <1>2, <1>4 DEF PreparedFits, Covers
<1>6. \A s \in Checkpoints' : messages'[s].before < work.boundary
  BY <1>4, <1>5 DEF PreparedStays
<1>7. ASSUME NEW i \in ShownAnswers', i < work.boundary \/ messages'[i].by # 0
      PROVE  \E j \in work.source : i \in Stands(j)'
  <2>1. PICK j \in work.source : i \in Stands(j)
    BY <1>4, <1>5, <1>7 DEF PreparedStays
  <2>2. j \in Ids
    BY <1>2 DEF ReadInv
  <2>3. QED
    BY <1>4, <2>1, <2>2 DEF PreparedStays, Stands, Kind
<1>8. LeavesFailed(work.boundary, Len(messages) + 1)'
  <2>1. ASSUME NEW p \in Turns', work.boundary < p, p < Len(messages) + 1
        PROVE  /\ \A i \in ShownAnswers' : ~(work.boundary <= i /\ i < p)
               /\ \A t \in Turns' : work.boundary <= t /\ t < p => t + 1 \in ShownErrors'
    BY <1>4, <1>5, <2>1 DEF PreparedStays, LeavesFailed
  <2>2. Len(messages') = Len(messages)
    BY <1>4 DEF PreparedStays
  <2>3. QED
    BY <2>1, <2>2 DEF LeavesFailed
<1>9. QED
  BY <1>4, <1>5, <1>6, <1>7, <1>8 DEF PreparedFits, Covers, PreparedStays

(* A new turn has the first attempt, which has no message yet. *)
LEMMA SendFits ==
  ASSUME TypeOK, LogInv, TextsFitTurns, ChecksFit, Send
  PROVE  ContextInv'
<1>0. PICK n \in Nat, m \in Nat : n = Len(messages) /\ m = Len(attempts)
  BY Fields
<1> DEFINE a == [turn |-> n + 1, selected |-> TRUE, status |-> "running"]
<1>1. /\ messages' = Append(messages, Plain("turn", 0)) /\ attempts' = Append(attempts, a)
      /\ work' = [NoWork EXCEPT !.kind = "chat", !.attempt = m + 1]
  BY <1>0 DEF Send, Begin
<1>2. Ids = 1 .. n /\ Attempts = 1 .. m
  BY <1>0 DEF Ids, Attempts
<1>3a. PICK x \in Message : IsNew(x, "turn", 0)
  BY NewTurn
<1>3. /\ x \in Message /\ x = Plain("turn", 0) /\ x.by = 0 /\ x.kind = "turn"
      /\ x.attempt = 0 /\ x.deleted = FALSE
  BY <1>3a DEF IsNew
<1>4. /\ Len(messages') = n + 1 /\ Ids' = 1 .. n + 1
      /\ messages'[n + 1] = x /\ \A i \in Ids : messages'[i] = messages[i]
  BY <1>0, <1>1, <1>2, <1>3, MessageAppended DEF TypeOK
<1>5. a \in Attempt /\ a.turn = n + 1
  BY DEF Attempt
<1> HIDE DEF a
<1>6. attempts'[m + 1] = a /\ \A k \in Attempts : attempts'[k] = attempts[k]
  BY <1>0, <1>1, <1>2, <1>5, AttemptAppended DEF TypeOK
<1>7. work'.kind = "chat" /\ work'.attempt = m + 1
  <2>1. m + 1 \in Nat
    OBVIOUS
  <2>2. QED
    BY <1>1, <2>1, ChatRun
<1>8. \A i \in Ids : i \in Ids'
  BY <1>2, <1>4
<1>9. \A i \in Ids : /\ i \in ShownAnswers' <=> i \in ShownAnswers
                     /\ i \in ShownErrors' <=> i \in ShownErrors
  BY <1>4, <1>6, <1>8, ShownAsBefore
<1>10. n + 1 \notin ShownAnswers' /\ n + 1 \notin ShownErrors'
  BY <1>3, <1>4 DEF ShownAnswers, Answers, ShownErrors, Kind
<1>11. /\ \A i \in ShownAnswers' : i \in ShownAnswers
       /\ \A i \in ShownErrors' : i \in ShownErrors /\ i \in Ids
       /\ \A i \in ShownErrors : i \in ShownErrors'
  <2>1. \A i \in Ids' : i \in Ids \/ i = n + 1
    BY <1>2, <1>4
  <2>2. /\ \A i \in ShownAnswers' : i \in Ids'
        /\ \A i \in ShownErrors' : i \in Ids' 
        /\ \A i \in ShownErrors : i \in Ids
    BY DEF ShownAnswers, Answers, ShownErrors
  <2>3. QED
    BY <1>9, <1>10, <2>1, <2>2
<1>12. \A i \in Ids' \ Ids : i = n + 1 /\ i > Len(messages)
  BY <1>0, <1>2, <1>4
<1>13. TextsStay
  BY <1>3, <1>4, <1>6, <1>8, <1>11, <1>12 DEF TextsStay
<1>14. ChecksStay
  BY <1>3, <1>4, <1>8, <1>12 DEF ChecksStay
<1>15. ShowsNoOther
  BY <1>11 DEF ShowsNoOther
<1>16. ChatFits'
  <2>1. \A i \in Ids' : messages'[i].attempt # m + 1
    <3>1. \A i \in Ids : messages[i].attempt \in Attempts \cup {0}
      BY DEF LogInv, MessageInv
    <3>2. \A i \in Ids' : messages'[i].attempt \in Attempts \cup {0}
      BY <1>3, <1>4, <1>12, <3>1
    <3>3. m + 1 \notin Attempts \cup {0}
      BY <1>2
    <3>4. QED
      BY <3>2, <3>3
  <2>2. attempts'[work'.attempt].turn = n + 1
    BY <1>5, <1>6, <1>7
  <2>3. \A p \in Turns' : p <= n + 1
    BY <1>4 DEF Turns
  <2>4. n + 1 \in Turns'
    BY <1>3, <1>4 DEF Turns, Kind
  <2>5. QED
    BY <1>4, <1>7, <2>1, <2>2, <2>3, <2>4 DEF ChatFits
<1>17. PreserveFits' /\ PreparedFits'
  BY <1>7 DEF PreserveFits, PreparedFits
<1>18. QED
  BY <1>13, <1>14, <1>15, <1>16, <1>17, TextsGoOn, ChecksGoOn DEF ContextInv

(* A retry begins an attempt of the last turn, or of a checkpoint after it. *)
LEMMA RetryFits ==
  ASSUME TypeOK, LogInv, TextsFitTurns, ChecksFit, Retry
  PROVE  ContextInv'
<1>0. PICK m \in Nat : m = Len(attempts)
  BY Fields
<1>1. PICK u \in RetriedUsers : Begin(u, FALSE)
  BY DEF Retry
<1>2. u \in Ids
  BY RetriedAreListed DEF Listed
<1> DEFINE a == [turn |-> u, selected |-> FALSE, status |-> "running"]
<1>3. a \in Attempt /\ a.turn = u /\ a.selected = FALSE
  BY <1>2, Numbers DEF Attempt
<1>4. /\ attempts' = Append(attempts, a) /\ messages' = messages
      /\ work' = [NoWork EXCEPT !.kind = "chat", !.attempt = m + 1]
  BY <1>0, <1>1 DEF Begin, Retry
<1> HIDE DEF a
<1>5. Attempts = 1 .. m
  BY <1>0 DEF Attempts
<1>6. attempts'[m + 1] = a /\ \A k \in Attempts : attempts'[k] = attempts[k]
  BY <1>0, <1>3, <1>4, <1>5, AttemptAppended DEF TypeOK
<1>7. work'.kind = "chat" /\ work'.attempt = m + 1
  <2>1. m + 1 \in Nat
    OBVIOUS
  <2>2. QED
    BY <1>4, <2>1, ChatRun
<1>8. TextsFitTurns' /\ ChecksFit' /\ Turns' = Turns /\ Ids' = Ids
  BY <1>4, <1>6, QuietFits
<1>9. ChatFits'
  <2>1. \A i \in Ids : messages[i].attempt \in Attempts \cup {0}
    BY DEF LogInv, MessageInv
  <2>2. m + 1 \notin Attempts \cup {0}
    BY <1>5
  <2>3. \A i \in Ids' : messages'[i].attempt # work'.attempt
    BY <1>4, <1>7, <1>8, <2>1, <2>2
  <2>4. \A p \in Turns' : p <= u
    BY <1>8, RetriedIsLast
  <2>5. QED
    BY <1>3, <1>6, <1>7, <2>3, <2>4 DEF ChatFits
<1>10. PreserveFits' /\ PreparedFits'
  BY <1>7 DEF PreserveFits, PreparedFits
<1>11. QED
  BY <1>8, <1>9, <1>10 DEF ContextInv

(* Without a run at work there is nothing to know of one. *)
LEMMA NoWorkFits ==
  ASSUME work' = NoWork
  PROVE  ChatFits' /\ PreserveFits' /\ PreparedFits'
BY DEF NoWork, ChatFits, PreserveFits, PreparedFits

(* A run ends with the first message of its attempt, which is of the last turn. *)
LEMMA FinishFits ==
  ASSUME TypeOK, LogInv, WorkInv, TextsFitTurns, ChecksFit, ChatFits, EndWithMessages
  PROVE  ContextInv'
<1>0. PICK n \in Nat : n = Len(messages)
  BY Fields
<1>1. PICK k \in Attempts : k = work.attempt /\ k \in Nat
  BY Fields DEF EndWithMessages, WorkInv, Attempts
<1>2. PICK kind \in {"answer", "error"}, outcome \in {"completed", "incomplete", "failed"} :
        /\ messages' = Append(messages, Plain(kind, k))
        /\ FinishAttempt(k, outcome)
        /\ outcome = "completed" => kind = "answer"
  <2>1. PICK end \in {<<"completed", "answer">>, <<"canceled", "answer">>,
                      <<"failed", "answer">>, <<"failed", "error">>} :
          /\ messages' = Append(messages, Plain(end[2], k))
          /\ FinishAttempt(k, AttemptStatus(end[1], end[2]))
    BY <1>1 DEF EndWithMessages
  <2>2. end[2] \in {"answer", "error"}
    BY <2>1
  <2>3. /\ AttemptStatus(end[1], end[2]) \in {"completed", "incomplete", "failed"}
        /\ AttemptStatus(end[1], end[2]) = "completed" => end[2] = "answer"
    BY <2>2 DEF AttemptStatus
  <2>4. QED
    BY <2>1, <2>2, <2>3
<1>3a. PICK x \in Message : IsNew(x, kind, k)
  <2>1. kind \in Kinds /\ k \in Nat
    BY <1>1 DEF Kinds
  <2>2. QED
    BY ONLY <2>1, NewMessage
<1>3. /\ x \in Message /\ x = Plain(kind, k) /\ x.kind = kind /\ x.attempt = k
      /\ x.deleted = FALSE /\ x.by = 0
  BY <1>3a DEF IsNew
<1>4. Ids = 1 .. n /\ k # 0
  BY <1>0 DEF Ids, Attempts
<1>5. /\ Len(messages') = n + 1 /\ Ids' = 1 .. n + 1
      /\ messages'[n + 1] = x /\ \A i \in Ids : messages'[i] = messages[i]
  BY <1>0, <1>2, <1>3, <1>4, MessageAppended DEF TypeOK
<1>6. \A i \in Ids : i \in Ids'
  BY <1>4, <1>5
<1>7. \A i \in Ids' \ Ids : i = n + 1 /\ i > Len(messages)
  BY <1>0, <1>4, <1>5
<1>8. \A j \in Attempts : attempts'[j].turn = attempts[j].turn
  BY <1>2, FinishedFields
<1>9. ASSUME NEW j \in Attempts \ {k}
      PROVE  /\ attempts'[j].selected = TRUE => attempts[j].selected = TRUE
             /\ attempts[j].turn # attempts[k].turn =>
                  attempts'[j].selected = attempts[j].selected
  <2>1. CASE TakesOver(k, outcome)
    BY <1>2, <2>1, FinishedFields
  <2>2. CASE ~TakesOver(k, outcome)
    BY <1>2, <2>2, FinishedFields
  <2>3. QED
    BY <2>1, <2>2
<1>10. kind = "error" => attempts'[k].selected = attempts[k].selected
  <2>1. kind = "error" => ~TakesOver(k, outcome)
    BY <1>2 DEF TakesOver
  <2>2. QED
    BY <1>2, <2>1, FinishedFields
<1>11. /\ \A i \in Ids : messages[i].attempt \in (Attempts \ {k}) \cup {0}
       /\ \A p \in Turns : p <= attempts[k].turn
       /\ attempts[k].selected = TRUE => attempts[k].turn = n /\ n \in Turns
  <2>1. \A i \in Ids : messages[i].attempt \in Attempts \cup {0}
    BY DEF LogInv, MessageInv
  <2>2. /\ \A i \in Ids : messages[i].attempt # k
        /\ \A p \in Turns : p <= attempts[k].turn
        /\ attempts[k].selected = TRUE => attempts[k].turn = n /\ n \in Turns
    BY <1>0, <1>1 DEF ChatFits, EndWithMessages
  <2>3. QED
    BY <2>1, <2>2
<1>12. Turns' = Turns
  <2>1. \A p \in Turns' : p \in Ids
    BY <1>3, <1>5, <1>7 DEF Turns, Kind
  <2>2. QED
    BY <1>5, <1>6, <2>1 DEF Turns, Kind
<1>13. \A j \in Attempts : attempts[j].selected \in BOOLEAN /\ attempts'[j].selected \in BOOLEAN
  <2>1. attempts' \in Seq(Attempt) /\ Len(attempts') = Len(attempts)
    BY <1>2, FinishedFields
  <2>2. \A j \in Attempts : attempts[j] \in Attempt /\ attempts'[j] \in Attempt
    BY <2>1, Fields DEF Attempts
  <2>3. QED
    BY <2>2 DEF Attempt
<1>14. ASSUME NEW i \in Ids
       PROVE  /\ i \in ShownAnswers' => i \in ShownAnswers
              /\ i \in ShownErrors' => i \in ShownErrors
  <2>1. messages'[i] = messages[i] /\ (Shown(i)' => Shown(i))
    BY <1>5, <1>9, <1>11, <1>13 DEF Shown
  <2>2. QED
    BY <2>1 DEF ShownAnswers, Answers, ShownErrors, Kind, Alive
<1>15. /\ \A i \in ShownAnswers' : i \in ShownAnswers \/ i = n + 1
       /\ \A i \in ShownErrors' : i \in ShownErrors \/ i = n + 1
  <2>1. /\ \A i \in ShownAnswers' : i \in Ids'
        /\ \A i \in ShownErrors' : i \in Ids'
    BY DEF ShownAnswers, Answers, ShownErrors
  <2>2. QED
    BY <1>7, <1>14, <2>1
<1>16. ASSUME NEW i \in Ids' PROVE TurnStays(i)'
  BY <1>3, <1>5, <1>7 DEF TextsFitTurns, TurnStays, Kind
<1>17. ASSUME NEW i \in Ids' PROVE AttemptFits(i)'
  <2>2. CASE i \in Ids
    <3>1. AttemptFits(i) /\ messages'[i] = messages[i]
      BY <1>5, <2>2 DEF TextsFitTurns
    <3>2. SUFFICES ASSUME messages[i].attempt # 0 PROVE AttemptFits(i)'
      BY <3>1 DEF AttemptFits
    <3>3. messages[i].attempt \in Attempts /\ messages[i].attempt # k
      BY <1>11, <2>2, <3>2
    <3>4. \A j \in Ids' : messages'[j].attempt = messages[i].attempt => j = i
      BY <1>3, <1>5, <1>7, <3>1, <3>2, <3>3 DEF AttemptFits
    <3>5. QED
      BY <1>8, <1>12, <3>1, <3>2, <3>3, <3>4 DEF AttemptFits
  <2>3. CASE i = n + 1
    <3>1. messages'[i].attempt = k
      BY <1>3, <1>5, <2>3
    <3>2. \A j \in Ids' : messages'[j].attempt = k => j = i
      BY <1>5, <1>7, <1>11, <1>4, <2>3
    <3>3. \A p \in Turns' : ~(attempts'[k].turn < p /\ p < i)
      <4>1. \A p \in Turns : p <= attempts[k].turn /\ p \in Nat /\ attempts[k].turn \in Nat
        BY <1>11, TurnFacts, Fields DEF Attempt
      <4>2. QED
        BY <1>8, <1>12, <4>1
    <3>4. QED
      BY <3>1, <3>2, <3>3 DEF AttemptFits
  <2>4. QED
    BY <1>7, <2>2, <2>3
<1>18. ASSUME NEW e \in ShownErrors' PROVE ErrorFits(e)'
  <2>1. CASE e \in ShownErrors
    <3>1. ErrorFits(e) /\ e \in Ids /\ messages'[e] = messages[e]
      BY <1>5, <2>1 DEF TextsFitTurns, ShownErrors
    <3>2. messages[e].attempt \in Attempts
      BY <1>11, <3>1 DEF ErrorFits
    <3>3. QED
      BY <1>8, <1>12, <3>1, <3>2 DEF ErrorFits
  <2>2. CASE e = n + 1
    <3>1. kind = "error" /\ messages'[e].attempt = k
      BY <1>3, <1>5, <2>2 DEF ShownErrors, Kind
    <3>2. attempts'[k].selected = TRUE
      BY <1>4, <1>13, <3>1 DEF ShownErrors, Shown
    <3>3. attempts[k].turn = n /\ n \in Turns
      BY <1>10, <1>11, <3>1, <3>2
    <3>4. QED
      BY <1>4, <1>8, <1>12, <2>2, <3>1, <3>3 DEF ErrorFits
  <2>3. QED
    BY <1>15, <2>1, <2>2
<1>19. TextsFitTurns'
  BY <1>17, <1>18, <1>16 DEF TextsFitTurns
<1>20. ChecksStay
  BY <1>3, <1>5, <1>6, <1>7 DEF ChecksStay
<1>21. ShowsNoOther
  <2>1. \A i \in ShownAnswers' : messages'[i].by # 0 => i \in ShownAnswers
    BY <1>3, <1>5, <1>15
  <2>2. ASSUME NEW s \in Checkpoints, NEW i \in ShownAnswers', NEW p \in Turns,
               messages[s].before <= i, i < p, p < s
        PROVE  \E a \in ShownAnswers : messages[s].before <= a /\ a < p
    <3>1. p <= n /\ p \in Nat
      BY <1>0, TurnFacts
    <3>2. i \in ShownAnswers
      BY <1>15, <2>2, <3>1
    <3>3. QED
      BY <2>2, <3>2
  <2>3. \A e \in ShownErrors' : e \in ShownErrors \/ e > Len(messages)
    BY <1>0, <1>15
  <2>4. ASSUME NEW t \in Turns, NEW p \in Turns, t < p, t + 1 \in ShownErrors
        PROVE  t + 1 \in ShownErrors'
    <3>1. PICK e \in ShownErrors : e = t + 1
      BY <2>4
    <3>2. PICK u \in Turns : e = u + 1 /\ attempts[messages[e].attempt].turn = u
      BY DEF TextsFitTurns, ErrorFits
    <3>3. u = t
      <4>1. u \in Nat /\ t \in Nat
        BY TurnFacts
      <4>2. QED
        BY <3>1, <3>2, <4>1
    <3>4. p <= attempts[k].turn
      BY <1>11
    <3>5. attempts[k].turn \in Nat
      BY Fields DEF Attempt
    <3>6. attempts[k].turn # t
      <4>1. p \in Nat /\ t \in Nat
        BY TurnFacts
      <4>2. QED
        BY <2>4, <3>4, <3>5, <4>1
    <3>7. messages[e].attempt \in Attempts \ {k} /\ e \in Ids
      BY <1>11 DEF ShownErrors, TextsFitTurns, ErrorFits
    <3>8. attempts'[messages[e].attempt].selected = attempts[messages[e].attempt].selected
      BY <1>9, <3>2, <3>3, <3>6, <3>7
    <3>9. messages'[e] = messages[e] /\ e \in Ids'
      BY <1>5, <1>6, <3>7
    <3>10. e \in ShownErrors'
      BY <3>8, <3>9 DEF ShownErrors, Shown, Kind
    <3>11. QED
      BY <3>1, <3>10
  <2>5. QED
    BY <2>1, <2>2, <2>3, <2>4 DEF ShowsNoOther
<1>22. work' = NoWork
  BY DEF EndWithMessages
<1>23. QED
  BY <1>19, <1>20, <1>21, <1>22, ChecksGoOn, NoWorkFits DEF ContextInv

(* A run that ends without a message leaves nothing of it. *)
LEMMA LostFits ==
  ASSUME TypeOK, LogInv, WorkInv, TextsFitTurns, ChecksFit, EndWithoutMessages
  PROVE  ContextInv'
<1>1. PICK k \in Attempts : k = work.attempt
  BY DEF EndWithoutMessages, WorkInv
<1>2. /\ attempts' = [attempts EXCEPT ![k].status = "failed"]
      /\ work' = NoWork /\ messages' = messages
  BY <1>1 DEF EndWithoutMessages
<1>3. DOMAIN attempts = Attempts /\ \A j \in Attempts : attempts[j] \in Attempt
  BY Fields
<1>4. \A j \in Attempts : /\ attempts'[j].turn = attempts[j].turn
                          /\ attempts'[j].selected = attempts[j].selected
  BY <1>2, <1>3 DEF Attempt
<1>5. QED
  BY <1>2, <1>4, QuietFits, NoWorkFits DEF ContextInv

(* A deletion takes a selected answer away where the checkpoints left none, so *)
(* its heir does not come to be shown there.                                  *)
LEMMA DeleteFits ==
  ASSUME TypeOK, LogInv, WorkInv, ReadInv, ContextInv, Delete
  PROVE  ContextInv'
<1>0. TextsFitTurns /\ ChecksFit /\ ChatFits /\ PreserveFits /\ PreparedFits
  BY DEF ContextInv
<1>1. PICK k \in Attempts :
        /\ Selectable(k) /\ messages' = Erased(k)
        /\ \A j \in Attempts : attempts'[j].turn = attempts[j].turn
        /\ attempts'[k].selected = FALSE
        /\ attempts[k].selected = FALSE =>
             /\ revision' = revision
             /\ \A j \in Attempts \ {k} : attempts'[j].selected = attempts[j].selected
        /\ attempts[k].selected = TRUE =>
             /\ revision' = revision + 1
             /\ \E h \in Attempts \ {k} :
                  /\ Selectable(h) /\ attempts[h].turn = attempts[k].turn
                  /\ attempts'[h].selected = TRUE
                  /\ \A j \in Attempts \ {k, h} :
                       attempts'[j].selected = attempts[j].selected
  BY DeletedFields
<1>2. /\ Len(messages') = Len(messages) /\ Ids' = Ids
      /\ \A i \in Ids : /\ messages'[i].kind = messages[i].kind
                        /\ messages'[i].before = messages[i].before
                        /\ messages'[i].by = messages[i].by
                        /\ messages'[i].of = messages[i].of
                        /\ messages[i].attempt = k =>
                             messages'[i].deleted = TRUE /\ messages'[i].attempt = 0
                        /\ messages[i].attempt # k => messages'[i] = messages[i]
  <2>1. ErasesOnly(k, messages')
    BY <1>1, ErasedFields
  <2>2. Len(messages') = Len(messages)
    BY <2>1 DEF ErasesOnly
  <2>3. Ids' = Ids
    BY <2>2 DEF Ids
  <2>4. QED
    BY ONLY <2>1, <2>3 DEF ErasesOnly
<1>3. work' = work
  BY DEF Delete
<1>4. k # 0 /\ \A i \in Ids : messages[i].attempt \in Attempts \cup {0}
  BY DEF LogInv, MessageInv, Attempts
<1>5. attempts[k].selected \in BOOLEAN
  BY Fields DEF Attempt
<1>6. ASSUME NEW h \in Attempts, Selectable(h)
      PROVE  \E a \in Ids : /\ messages[a].attempt = h /\ Kind(a) = "answer"
                            /\ messages[a].deleted = FALSE /\ messages[a].by = 0
                            /\ \A i \in Ids : messages[i].attempt = h => i = a
  <2>1. PICK a \in Ids : /\ messages[a].attempt = h /\ Alive(a)
                         /\ messages[a].by = 0 /\ Kind(a) = "answer"
    BY <1>6 DEF Selectable
  <2>2. messages[a].deleted = FALSE
    BY <2>1, Numbers DEF Alive
  <2>3. AttemptFits(a) /\ h # 0
    BY <1>0 DEF TextsFitTurns, Attempts
  <2>4. \A i \in Ids : messages[i].attempt = h => i = a
    BY <2>1, <2>3 DEF AttemptFits
  <2>5. QED
    BY <2>1, <2>2, <2>4
<1>7. PICK a \in Ids : /\ messages[a].attempt = k /\ Kind(a) = "answer"
                       /\ messages[a].deleted = FALSE /\ messages[a].by = 0
                       /\ \A i \in Ids : messages[i].attempt = k => i = a
  BY <1>1, <1>6
<1>8. ASSUME NEW i \in Ids, messages'[i].deleted = FALSE
      PROVE  messages'[i] = messages[i] /\ messages[i].attempt \in (Attempts \ {k}) \cup {0}
  BY <1>2, <1>4, <1>8
(* What comes to be shown is the answer of the heir.                          *)
<1>9. ASSUME NEW i \in Ids, messages'[i].deleted = FALSE, Shown(i)', ~Shown(i)
      PROVE  /\ Kind(i) = "answer" /\ messages[i].by = 0 /\ attempts[k].selected = TRUE
             /\ messages[i].attempt \in Attempts
             /\ attempts[messages[i].attempt].turn = attempts[k].turn
             /\ messages'[i] = messages[i]
  <2>1. messages'[i] = messages[i] /\ messages[i].attempt \in Attempts \ {k}
    BY <1>8, <1>9 DEF Shown
  <2>2. attempts'[messages[i].attempt].selected # attempts[messages[i].attempt].selected
    BY <1>9, <2>1 DEF Shown
  <2>3. attempts[k].selected = TRUE
    BY <1>1, <1>5, <2>1, <2>2
  <2>4. PICK h \in Attempts \ {k} :
          /\ Selectable(h) /\ attempts[h].turn = attempts[k].turn
          /\ \A j \in Attempts \ {k, h} : attempts'[j].selected = attempts[j].selected
    BY <1>1, <2>3
  <2>5. messages[i].attempt = h
    BY <2>1, <2>2, <2>4
  <2>6. QED
    BY <1>6, <2>1, <2>3, <2>4, <2>5
<1>10. ASSUME NEW i \in ShownAnswers', i \notin ShownAnswers
       PROVE  /\ i \in Ids /\ messages'[i] = messages[i] /\ messages[i].deleted = FALSE
              /\ messages[i].by = 0 /\ attempts[k].selected = TRUE
              /\ messages[i].attempt \in Attempts
              /\ attempts[messages[i].attempt].turn = attempts[k].turn
  <2>1. i \in Ids /\ messages'[i].kind = "answer" /\ ~messages'[i].deleted /\ Shown(i)'
    BY <1>2, <1>10 DEF ShownAnswers, Answers, Kind, Alive
  <2>2. messages'[i] = messages[i]
    BY <1>2, <2>1
  <2>3. messages[i].deleted = FALSE /\ Kind(i) = "answer"
    BY <2>1, <2>2, Numbers DEF Kind
  <2>4. ~Shown(i)
    BY <1>10, <2>1, <2>3 DEF ShownAnswers, Answers, Alive
  <2>5. QED
    BY <1>9, <2>1, <2>2, <2>3, <2>4
<1>11. ShownErrors' = ShownErrors
  <2>1. ASSUME NEW e \in ShownErrors' PROVE e \in ShownErrors
    <3>1. e \in Ids /\ messages'[e].kind = "error" /\ messages'[e].deleted = FALSE /\ Shown(e)'
      BY <1>2, <2>1 DEF ShownErrors, Kind
    <3>2. messages'[e] = messages[e] /\ Kind(e) = "error"
      BY <1>8, <3>1 DEF Kind
    <3>3. Shown(e)
      BY <1>9, <3>1, <3>2
    <3>4. QED
      BY <3>1, <3>2, <3>3 DEF ShownErrors
  <2>2. ASSUME NEW e \in ShownErrors PROVE e \in ShownErrors'
    <3>1. e \in Ids /\ Kind(e) = "error" /\ messages[e].deleted = FALSE /\ Shown(e)
      BY DEF ShownErrors
    <3>2. messages[e].attempt # k /\ messages[e].attempt # 0
      BY <1>0, <1>7, <3>1 DEF TextsFitTurns, ErrorFits
    <3>3. messages'[e] = messages[e] /\ messages[e].attempt \in Attempts \ {k}
      BY <1>2, <1>4, <3>1, <3>2
    <3>4. attempts'[messages[e].attempt].selected = attempts[messages[e].attempt].selected
      <4>1. CASE attempts[k].selected = FALSE
        BY <1>1, <3>3, <4>1
      <4>2. CASE attempts[k].selected = TRUE
        <5>1. PICK h \in Attempts \ {k} :
                /\ Selectable(h)
                /\ \A j \in Attempts \ {k, h} : attempts'[j].selected = attempts[j].selected
          BY <1>1, <4>2
        <5>2. messages[e].attempt # h
          BY <1>6, <3>1, <5>1
        <5>3. QED
          BY <3>3, <5>1, <5>2
      <4>3. QED
        BY <1>5, <4>1, <4>2
    <3>5. QED
      BY <1>2, <3>1, <3>3, <3>4 DEF ShownErrors, Shown, Kind
  <2>3. QED
    BY <2>1, <2>2
<1>12. \A i \in Ids : Kind(i) # "answer" /\ messages[i].attempt = 0 =>
                        messages'[i] = messages[i]
  BY <1>2, <1>4
<1>13. \A i \in Ids : Kind(i) \in {"turn", "summary"} => messages'[i] = messages[i]
  <2>1. \A i \in Ids : Kind(i) \in {"turn", "summary"} => messages[i].attempt = 0
    BY DEF LogInv, MessageInv, IsUser
  <2>2. QED
    BY <1>12, <2>1
<1>14. Turns' = Turns /\ Checkpoints' = Checkpoints
  BY <1>2, <1>13 DEF Turns, Checkpoints, Kind
<1>15. TextsStay
  <2>1. \A i \in Ids : messages'[i].attempt \in {0, messages[i].attempt}
    BY <1>2
  <2>2. \A e \in ShownErrors' : messages'[e].attempt = messages[e].attempt
    BY <1>2, <1>8 DEF ShownErrors
  <2>3. \A i \in Ids : /\ i \in Ids' /\ messages'[i].kind = messages[i].kind
                       /\ Kind(i) = "turn" => messages'[i].deleted = messages[i].deleted
    BY <1>2, <1>13
  <2>4. QED
    BY <1>1, <1>2, <1>11, <2>1, <2>2, <2>3 DEF TextsStay
<1>16. ChecksStay
  BY <1>2, <1>8, <1>13 DEF ChecksStay
<1>17. ShowsNoOther
  <2>1. \A i \in ShownAnswers' : messages'[i].by # 0 => i \in ShownAnswers
    BY <1>10
  <2>2. ASSUME NEW s \in Checkpoints, NEW i \in ShownAnswers', NEW p \in Turns,
               messages[s].before <= i, i < p, p < s
        PROVE  \E b \in ShownAnswers : messages[s].before <= b /\ b < p
    <3>1. CASE i \in ShownAnswers
      BY <2>2, <3>1
    <3>2. CASE i \notin ShownAnswers
      <4>1. /\ i \in Ids /\ messages[i].deleted = FALSE /\ attempts[k].selected = TRUE
            /\ messages[i].attempt \in Attempts /\ messages[i].attempt # 0
            /\ attempts[messages[i].attempt].turn = attempts[k].turn
        <5>1. i \in ShownAnswers'
          BY <2>2
        <5>2. /\ i \in Ids /\ messages[i].deleted = FALSE /\ attempts[k].selected = TRUE
              /\ messages[i].attempt \in Attempts
              /\ attempts[messages[i].attempt].turn = attempts[k].turn
          BY <1>10, <3>2, <5>1
        <5>3. messages[i].attempt # 0
          BY <5>2 DEF Attempts
        <5>4. QED
          BY <5>2, <5>3
      <4>2. PICK u \in Ids : u = attempts[k].turn
        BY DEF LogInv, AttemptInv
      <4>3. u < i
        BY <4>1, <4>2 DEF LogInv, MessageInv
      <4>4. p \in Nat /\ i \in Nat /\ u \in Nat /\ a \in Nat /\ messages[s].before \in Nat
        <5>1. p \in Nat
          BY <1>0, TurnFacts
        <5>2. s \in Ids
          BY DEF Checkpoints
        <5>3. QED
          BY <4>1, <4>2, <1>7, <5>1, <5>2, Numbers
      <4>5. ~(u < p /\ p < a)
        BY <1>0, <1>4, <1>7, <4>2 DEF TextsFitTurns, AttemptFits
      <4>6. a < p
        <5>1. a # p
          <6>1. Kind(p) = "turn"
            BY <1>0, TurnFacts
          <6>2. QED
            BY <1>7, <6>1
        <5>2. QED
          BY <2>2, <4>3, <4>4, <4>5, <5>1
      <4>7. messages[s].before <= a
        <5>1. Behind(s, a)
          BY <1>0 DEF ChecksFit
        <5>2. QED
          BY <1>7, <4>4, <5>1 DEF Behind
      <4>8. a \in ShownAnswers
        BY <1>7, <4>1, ShownWhen
      <4>9. QED
        BY <4>6, <4>7, <4>8
    <3>3. QED
      BY <3>1, <3>2
  <2>3. QED
    BY <1>11, <2>1, <2>2 DEF ShowsNoOther
<1>18. ChatFits'
  <2>1. SUFFICES ASSUME work.kind = "chat" PROVE ChatFits'
    BY <1>3 DEF ChatFits
  <2>2. PICK w \in Attempts : w = work.attempt /\ w # 0 /\ attempts[w].status = "running"
    BY <2>1 DEF WorkInv, Attempts
  <2>3. \A j \in Attempts : Selectable(j) => j # w
    BY <2>2 DEF Selectable
  <2>4. attempts'[w].selected = attempts[w].selected
    BY <1>1, <1>5, <2>2, <2>3
  <2>5. \A i \in Ids : messages'[i].attempt # w
    BY <1>2, <1>0, <2>1, <2>2 DEF ChatFits
  <2>6. QED
    BY <1>0, <1>1, <1>2, <1>3, <1>14, <2>1, <2>2, <2>4, <2>5 DEF ChatFits
<1>19. PreserveFits'
  BY <1>0, <1>3, <1>14 DEF PreserveFits
<1>20. PreparedFits'
  <2>1. attempts[k].selected = FALSE => PreparedStays
    <3>1. SUFFICES ASSUME attempts[k].selected = FALSE PROVE PreparedStays
      OBVIOUS
    <3>2. \A i \in ShownAnswers' : i \in ShownAnswers /\ i \in Ids
      BY <1>10, <3>1 DEF ShownAnswers, Answers
    <3>3. QED
      BY <1>2, <1>11, <1>14, <3>2 DEF PreparedStays, Checkpoints
  <2>2. QED
    BY <1>0, <1>1, <1>3, <1>5, <2>1, PreparedGoesOn
<1>21. QED
  BY <1>0, <1>15, <1>16, <1>17, <1>18, <1>19, <1>20, TextsGoOn, ChecksGoOn DEF ContextInv

(* An undo makes the checkpoint before it the active one. *)
LEMMA UndoFits ==
  ASSUME TypeOK, LogInv, ReadInv, ContextInv, UndoCheckpoint
  PROVE  ContextInv'
<1>0. TextsFitTurns /\ ChecksFit /\ ChatFits /\ PreserveFits /\ PreparedFits
  BY DEF ContextInv
<1>p. PICK s \in Ids : Undoes(s)
  BY UndoneFields
<1>1. /\ Kind(s) = "summary" /\ messages[s].deleted = FALSE
      /\ \A i \in Ids : Kind(i) = "summary" /\ messages[i].deleted = FALSE => i <= s
      /\ Len(messages') = Len(messages)
      /\ messages'[s].deleted = TRUE
      /\ \A i \in Ids :
           /\ messages'[i].kind = messages[i].kind
           /\ messages'[i].attempt = messages[i].attempt
           /\ messages'[i].before = messages[i].before
           /\ messages'[i].of = messages[i].of
           /\ i # s => messages'[i].deleted = messages[i].deleted
           /\ i # s /\ messages[i].deleted = FALSE /\ messages[i].by = s =>
                messages'[i].by = 0
           /\ i # s /\ messages[i].by # s => messages'[i] = messages[i]
  BY <1>p DEF Undoes
<1>2. /\ attempts' = attempts /\ revision' = revision /\ work' = work /\ Ids' = Ids
  BY <1>1 DEF UndoCheckpoint, Ids
<1>3. \A i \in Ids : Shown(i)' <=> Shown(i)
  BY <1>1, <1>2 DEF Shown
<1>4. /\ ShownErrors' = ShownErrors /\ ShownAnswers' = ShownAnswers /\ Turns' = Turns
  BY <1>1, <1>2, <1>3 DEF ShownErrors, ShownAnswers, Answers, Turns, Kind, Alive
<1>5. Checkpoints' = Checkpoints \ {s} /\ s \in Checkpoints /\ \A y \in Checkpoints : y <= s
  BY <1>1, <1>2 DEF Checkpoints, Kind
<1>6. ASSUME NEW i \in Ids, i # s, messages[i].deleted = FALSE
      PROVE  IF messages[i].by = s THEN messages'[i].by = 0
                                   ELSE messages'[i].by = messages[i].by
  BY <1>1, <1>6
<1>7. \A y \in Checkpoints : /\ y \in Nat /\ y \in Ids /\ messages[y].by \in Nat
                             /\ messages[y].deleted = FALSE
  BY Numbers DEF Checkpoints
<1>8. TextsStay
  <2>1. \A i \in Ids : Kind(i) = "turn" => i # s
    BY <1>1
  <2>2. QED
    BY <1>1, <1>2, <1>4, <2>1 DEF TextsStay, ShownErrors
<1>9. ASSUME NEW i \in Ids' PROVE CompressedFits(i)'
  <2>1. SUFFICES ASSUME Compressed(i)' PROVE CompressedFits(i)'
    BY DEF CompressedFits
  <2>2. i \in Ids /\ i # s /\ messages[i].deleted = FALSE /\ Kind(i) # "summary"
    BY <1>1, <1>2, <2>1 DEF Compressed, Kind
  <2>3. messages[i].by # s /\ messages'[i].by = messages[i].by /\ messages[i].by # 0
    BY <1>6, <2>1, <2>2 DEF Compressed
  <2>4. messages[i].by \in Checkpoints /\ i < messages[messages[i].by].before
    BY <1>0, <2>2, <2>3 DEF ChecksFit, CompressedFits, Compressed
  <2>5. QED
    BY <1>1, <1>5, <1>7, <2>3, <2>4 DEF CompressedFits
<1>10. ASSUME NEW y \in Checkpoints'
       PROVE  /\ y \in Checkpoints /\ y < s /\ messages'[y].before = messages[y].before
              /\ messages'[y].of = messages[y].of
              /\ IF messages[y].by = s THEN messages'[y].by = 0
                                       ELSE messages'[y].by = messages[y].by
  BY <1>1, <1>5, <1>6, <1>7
<1>11. ASSUME NEW y \in Checkpoints', NEW i \in Ids' PROVE Behind(y, i)'
  <2>1. SUFFICES ASSUME Kind(i)' # "summary", messages'[i].deleted = FALSE,
                        i < messages'[y].before
                 PROVE  messages'[i].by # 0 /\ messages'[i].by <= y
    BY DEF Behind
  <2>2. /\ i \in Ids /\ i # s /\ messages[i].deleted = FALSE /\ Kind(i) # "summary"
        /\ i < messages[y].before
    BY <1>1, <1>2, <1>10, <2>1 DEF Kind
  <2>3. messages[i].by # 0 /\ messages[i].by <= y
    BY <1>0, <1>10, <2>2 DEF ChecksFit, Behind
  <2>4. messages[i].by # s
    BY <1>5, <1>7, <1>10, <2>2, <2>3, Numbers
  <2>5. QED
    BY <1>6, <2>2, <2>3, <2>4
<1>12. ASSUME NEW y \in Checkpoints', NEW z \in Checkpoints' PROVE FollowedBy(y, z)'
  <2>1. SUFFICES ASSUME y < z PROVE FollowedBy(y, z)'
    BY DEF FollowedBy
  <2>2. y \in Checkpoints /\ z \in Checkpoints /\ z < s
    BY <1>10
  <2>3. messages[y].by # 0 /\ messages[y].by <= z /\ messages[y].before < messages[z].before
    BY <1>0, <2>1, <2>2 DEF ChecksFit, FollowedBy
  <2>4. messages[y].by # s
    BY <1>5, <1>7, <2>2, <2>3
  <2>5. QED
    BY <1>10, <2>3, <2>4 DEF FollowedBy
<1>13. ASSUME NEW y \in Checkpoints' PROVE LinkFits(y)'
  <2>1. LinkFits(y)
    BY <1>0, <1>10 DEF ChecksFit
  <2>2. QED
    BY <1>5, <1>10, <2>1 DEF LinkFits
<1>14. ASSUME NEW y \in Checkpoints' PROVE KnowsShown(y)'
  <2>1. SUFFICES ASSUME NEW i \in ShownAnswers, messages'[i].by # 0, messages'[i].by <= y
                 PROVE  i \in messages[y].of
    BY <1>4, <1>10 DEF KnowsShown
  <2>2. i \in Ids /\ i # s /\ messages[i].deleted = FALSE
    BY <1>1, ShownFacts
  <2>3. messages'[i].by = messages[i].by
    BY <1>6, <2>1, <2>2
  <2>4. QED
    BY <1>0, <1>10, <2>1, <2>3 DEF ChecksFit, KnowsShown
<1>15. ASSUME NEW y \in Checkpoints'
       PROVE  LeavesFailed(messages[y].before, y)' /\ messages'[y].before \notin ShownErrors'
  <2>1. LeavesFailed(messages[y].before, y) /\ messages[y].before \notin ShownErrors
    BY <1>0, <1>10 DEF ChecksFit
  <2>2. QED
    BY <1>4, <1>10, <2>1 DEF LeavesFailed
<1>16. ChecksFit'
  BY <1>9, <1>11, <1>12, <1>13, <1>14, <1>15 DEF ChecksFit
<1>17. ChatFits' /\ PreserveFits'
  BY <1>0, <1>1, <1>2, <1>4 DEF ChatFits, PreserveFits
<1>18. PreparedFits'
  <2>1. \A i \in ShownAnswers : messages'[i].by # 0 => messages[i].by # 0
    <3>1. \A i \in ShownAnswers : i \in Ids /\ i # s /\ messages[i].deleted = FALSE
      BY <1>1, ShownFacts
    <3>2. QED
      BY <1>6, <3>1
  <2>2. PreparedStays
    BY <1>1, <1>4, <1>10, <2>1 DEF PreparedStays
  <2>3. QED
    BY <1>0, <1>2, <2>2, PreparedGoesOn
<1>19. QED
  BY <1>0, <1>8, <1>16, <1>17, <1>18, TextsGoOn DEF ContextInv

(* A checkpoint that is committed takes in all that was compressed before. *)
LEMMA CheckpointFits ==
  ASSUME TypeOK, LogInv, WorkInv, ReadInv, ContextInv, CommitCheckpoint,
         revision = work.revision
  PROVE  ContextInv'
<1>0. TextsFitTurns /\ ChecksFit /\ PreparedFits
  BY SMTT(30) DEF ContextInv
<1>1. PICK n \in Nat : n = Len(messages) /\ Ids = 1 .. n
  BY Fields DEF Ids
<1>2. PICK b \in Nat : b = work.boundary /\ b <= n + 1
  BY <1>1 DEF CommitCheckpoint, WorkInv, TypeOK, Run
<1>3. work' = NoWork /\ attempts' = attempts /\ revision' = revision
  BY DEF CommitCheckpoint, EndCompaction
<1>4. /\ Len(messages') = n + 1 /\ Ids' = 1 .. n + 1
      /\ messages'[n + 1].kind = "summary" /\ messages'[n + 1].attempt = 0
      /\ messages'[n + 1].deleted = FALSE /\ messages'[n + 1].by = 0
      /\ messages'[n + 1].before = b
      /\ messages'[n + 1].of = UNION {Stands(i) : i \in work.source}
      /\ \A i \in Ids :
           /\ messages'[i].kind = messages[i].kind
           /\ messages'[i].attempt = messages[i].attempt
           /\ messages'[i].deleted = messages[i].deleted
           /\ messages'[i].before = messages[i].before
           /\ messages'[i].of = messages[i].of
           /\ Covered(i, b) => messages'[i].by = n + 1
           /\ ~Covered(i, b) => messages'[i] = messages[i]
  <2>1. Compresses(n, b)
    BY <1>1, <1>2, CommittedFields
  <2>2. QED
    BY ONLY <2>1 DEF Compresses
<1>5. /\ \A s \in Checkpoints : messages[s].before < b
      /\ \A i \in ShownAnswers : i < b \/ messages[i].by # 0 =>
           \E j \in work.source : i \in Stands(j)
      /\ LeavesFailed(b, n + 1) /\ b \notin ShownErrors
  BY <1>0, <1>1, <1>2 DEF PreparedFits, Covers, CommitCheckpoint
<1>6. (\A i \in Ids : i \in Ids' /\ i # n + 1) /\ (\A i \in Ids' : i \in Ids \/ i = n + 1)
  BY <1>1, <1>4
<1>7. Checkpoints' = Checkpoints \cup {n + 1}
  BY <1>4, <1>6 DEF Checkpoints, Kind
<1>8. \A i \in Ids : Shown(i)' <=> Shown(i)
  BY <1>3, <1>4 DEF Shown
<1>9. ShownErrors' = ShownErrors /\ ShownAnswers' = ShownAnswers /\ Turns' = Turns
  <2>1. ShownErrors' = ShownErrors
    BY <1>4, <1>6, <1>8 DEF ShownErrors, Kind
  <2>2. ShownAnswers' = ShownAnswers
    BY <1>4, <1>6, <1>8 DEF ShownAnswers, Answers, Kind, Alive
  <2>3. Turns' = Turns
    BY <1>4, <1>6 DEF Turns, Kind
  <2>4. QED
    BY <2>1, <2>2, <2>3
(* What it compresses.                                                        *)
<1>10. ASSUME NEW i \in Ids, Kind(i) # "summary", messages[i].deleted = FALSE
       PROVE  IF messages[i].by = 0 /\ i < b THEN messages'[i].by = n + 1
                                             ELSE messages'[i].by = messages[i].by
  <2>1. Covered(i, b) <=> messages[i].by = 0 /\ i < b
    BY <1>10, CoveredIs
  <2>2. QED
    BY <1>4, <2>1
<1>11. ASSUME NEW s \in Checkpoints
       PROVE  /\ s \in Ids /\ s \in Nat /\ s <= n /\ messages'[s].before = messages[s].before
              /\ messages'[s].of = messages[s].of
              /\ IF messages[s].by = 0 THEN messages'[s].by = n + 1
                                       ELSE messages'[s].by = messages[s].by
  <2>1. s \in Ids /\ Kind(s) = "summary" /\ messages[s].deleted = FALSE
    BY DEF Checkpoints
  <2>2. s \in Nat /\ s <= n
    BY <1>1, <2>1
  <2>3. messages[s].by # s
    <3>1. messages[s].by # 0 => s < messages[s].by
      BY <1>0 DEF ChecksFit, LinkFits
    <3>2. QED
      BY <1>1, <2>1, <3>1
  <2>4. Covered(s, b) <=> messages[s].by = 0
    BY <1>5, <2>1, <2>3 DEF Covered, Alive
  <2>5. QED
    BY <1>4, <2>1, <2>2, <2>4
<1>12. TextsStay
  <2>1. \A e \in ShownErrors : messages'[e].attempt = messages[e].attempt
    BY <1>4 DEF ShownErrors
  <2>2. QED
    BY <1>1, <1>3, <1>4, <1>6, <1>9, <2>1 DEF TextsStay
<1>13. ASSUME NEW i \in Ids' PROVE CompressedFits(i)'
  <2>1. SUFFICES ASSUME Compressed(i)' PROVE CompressedFits(i)'
    BY DEF CompressedFits
  <2>2. i \in Ids /\ messages[i].deleted = FALSE /\ Kind(i) # "summary" /\ messages'[i].by # 0
    BY <1>4, <1>6, <2>1 DEF Compressed, Kind
  <2>3. CASE messages[i].by = 0
    <3>1. messages'[i].by = n + 1 /\ i < b
      BY <1>10, <2>2, <2>3
    <3>2. QED
      BY <1>4, <1>7, <3>1 DEF CompressedFits
  <2>4. CASE messages[i].by # 0
    <3>1. messages'[i].by = messages[i].by
      BY <1>10, <2>2, <2>4
    <3>2. messages[i].by \in Checkpoints /\ i < messages[messages[i].by].before
      BY <1>0, <2>2, <2>4 DEF ChecksFit, CompressedFits, Compressed
    <3>3. QED
      BY <1>7, <1>11, <3>1, <3>2 DEF CompressedFits
  <2>5. QED
    BY <2>3, <2>4
<1>14. ASSUME NEW s \in Checkpoints' PROVE LinkFits(s)'
  <2>1. CASE s = n + 1
    BY <1>4, <2>1 DEF LinkFits
  <2>2. CASE s \in Checkpoints
    <3>1. LinkFits(s)
      BY <1>0, <2>2 DEF ChecksFit
    <3>2. QED
      BY <1>7, <1>11, <2>2, <3>1 DEF LinkFits
  <2>3. QED
    BY <1>7, <2>1, <2>2
<1>15. ASSUME NEW s \in Checkpoints', NEW i \in Ids' PROVE Behind(s, i)'
  <2>1. SUFFICES ASSUME Kind(i)' # "summary", messages'[i].deleted = FALSE,
                        i < messages'[s].before
                 PROVE  messages'[i].by # 0 /\ messages'[i].by <= s
    BY DEF Behind
  <2>2. i \in Ids /\ messages[i].deleted = FALSE /\ Kind(i) # "summary"
    BY <1>4, <1>6, <2>1 DEF Kind
  <2>3. CASE s = n + 1
    <3>1. i < b
      BY <1>4, <2>1, <2>3
    <3>2. CASE messages[i].by = 0
      <4>1. messages'[i].by = n + 1
        BY <1>10, <2>2, <3>1, <3>2
      <4>2. n + 1 # 0 /\ n + 1 <= n + 1
        BY <1>1
      <4>3. QED
        BY <2>3, <4>1, <4>2
    <3>3. CASE messages[i].by # 0
      <4>1. messages[i].by \in Checkpoints
        BY <1>0, <2>2, <3>3 DEF ChecksFit, CompressedFits, Compressed
      <4>2. messages[i].by <= n /\ messages[i].by \in Nat
        BY <1>11, <4>1
      <4>3. messages'[i].by = messages[i].by
        BY <1>10, <2>2, <3>3
      <4>4. QED
        BY <1>1, <2>3, <3>3, <4>2, <4>3
    <3>4. QED
      BY <3>2, <3>3
  <2>4. CASE s \in Checkpoints
    <3>1. messages[i].by # 0 /\ messages[i].by <= s
      BY <1>0, <1>11, <2>1, <2>2, <2>4 DEF ChecksFit, Behind
    <3>2. QED
      BY <1>10, <2>2, <3>1
  <2>5. QED
    BY <1>7, <2>3, <2>4
<1>16. ASSUME NEW s \in Checkpoints', NEW z \in Checkpoints' PROVE FollowedBy(s, z)'
  <2>1. SUFFICES ASSUME s < z PROVE FollowedBy(s, z)'
    BY DEF FollowedBy
  <2>2. z \in Nat /\ z <= n + 1
    BY <1>7, <1>11
  <2>3. s \in Checkpoints
    BY <1>7, <2>1, <2>2
  <2>4. CASE z = n + 1
    <3>1. messages[s].by # 0 => messages[s].by \in Checkpoints
      BY <1>0, <2>3 DEF ChecksFit, LinkFits
    <3>2. messages'[s].by # 0 /\ messages'[s].by <= n + 1
      BY <1>11, <2>3, <3>1
    <3>3. QED
      BY <1>4, <1>5, <1>11, <2>3, <2>4, <3>2 DEF FollowedBy
  <2>5. CASE z \in Checkpoints
    <3>1. FollowedBy(s, z)
      BY <1>0, <2>3, <2>5 DEF ChecksFit
    <3>2. QED
      BY <1>11, <2>1, <2>3, <2>5, <3>1 DEF FollowedBy
  <2>6. QED
    BY <1>7, <2>4, <2>5
<1>17. ASSUME NEW s \in Checkpoints' PROVE KnowsShown(s)'
  <2>1. SUFFICES ASSUME NEW i \in ShownAnswers, messages'[i].by # 0, messages'[i].by <= s
                 PROVE  i \in messages'[s].of
    BY <1>9 DEF KnowsShown
  <2>2. i \in Ids /\ messages[i].deleted = FALSE /\ Kind(i) # "summary"
    BY ShownFacts
  <2>3. CASE s = n + 1
    <3>1. i < b \/ messages[i].by # 0
      BY <1>10, <2>1, <2>2
    <3>2. PICK j \in work.source : i \in Stands(j)
      BY <1>5, <3>1
    <3>3. QED
      BY <1>4, <2>3, <3>2
  <2>4. CASE s \in Checkpoints
    <3>0. ~(n + 1 <= s)
      BY <1>1, <1>11, <2>4
    <3>1. messages'[i].by = messages[i].by
      <4>1. messages'[i].by # n + 1
        BY <2>1, <3>0
      <4>2. QED
        BY <1>10, <2>2, <4>1
    <3>2. i \in messages[s].of
      BY <1>0, <2>1, <2>4, <3>1 DEF ChecksFit, KnowsShown
    <3>3. QED
      BY <1>11, <2>4, <3>2
  <2>5. QED
    BY <1>7, <2>3, <2>4
<1>18. ASSUME NEW s \in Checkpoints'
       PROVE  LeavesFailed(messages[s].before, s)' /\ messages'[s].before \notin ShownErrors'
  <2>1. PICK c : c = messages'[s].before
    OBVIOUS
  <2>2. LeavesFailed(c, s) /\ c \notin ShownErrors
    <3>1. CASE s = n + 1
      BY <1>4, <1>5, <2>1, <3>1
    <3>2. CASE s \in Checkpoints
      BY <1>0, <1>11, <2>1, <3>2 DEF ChecksFit
    <3>3. QED
      BY <1>7, <3>1, <3>2
  <2>3. QED
    BY <1>9, <2>1, <2>2 DEF LeavesFailed
<1>19. ChecksFit'
  BY <1>13, <1>14, <1>15, <1>16, <1>17, <1>18 DEF ChecksFit
<1>20. TextsFitTurns'
  BY <1>0, <1>12, TextsGoOn
<1>21. ChatFits' /\ PreserveFits' /\ PreparedFits'
  BY <1>3, NoWorkFits
<1>22. QED
  BY <1>19, <1>20, <1>21 DEF ContextInv

(* A step of a compaction or of a derived write that leaves the history alone. *)
LEMMA IdleFits ==
  ASSUME TypeOK, LogInv, ReadInv, ContextInv, messages' = messages, attempts' = attempts,
         revision' = revision, \/ work' = work \/ work' = NoWork
  PROVE  ContextInv'
<1>1. /\ TextsFitTurns' /\ ChecksFit' /\ ShownAnswers' = ShownAnswers
      /\ ShownErrors' = ShownErrors /\ Checkpoints' = Checkpoints
      /\ Turns' = Turns /\ Ids' = Ids
  BY QuietFits DEF ContextInv
<1>2. CASE work' = NoWork
  BY <1>1, <1>2, NoWorkFits DEF ContextInv
<1>3. CASE work' = work
  <2>1. PreparedStays
    BY <1>1 DEF PreparedStays
  <2>2. PreparedFits'
    BY <1>3, <2>1, PreparedGoesOn DEF ContextInv
  <2>3. ChatFits' /\ PreserveFits'
    BY <1>1, <1>3 DEF ChatFits, PreserveFits, ContextInv
  <2>4. QED
    BY <1>1, <2>2, <2>3 DEF ContextInv
<1>4. QED
  BY <1>2, <1>3

(* A compaction that is admitted preserves the last turn, or none. *)
LEMMA AdmitFits ==
  ASSUME TypeOK, LogInv, ContextInv, Compact
  PROVE  ContextInv'
<1>1. PICK manual \in BOOLEAN, p \in Nat :
        StartCompaction(manual, p) /\ (p = 0 \/ p \in Preservable)
  <2>1. 0 \in Nat
    OBVIOUS
  <2>2. CASE StartCompaction(TRUE, 0)
    BY <2>1, <2>2
  <2>3. CASE StartCompaction(FALSE, 0)
    BY <2>1, <2>3
  <2>4. CASE \E p \in Preservable : StartCompaction(FALSE, p)
    BY <2>4, PreservableIsListed
  <2>5. QED
    BY <2>2, <2>3, <2>4 DEF Compact
<1>2. messages' = messages /\ attempts' = attempts
  BY <1>1 DEF StartCompaction
<1>3. work'.kind = "admitted" /\ work'.preserve = p
  <2>1. work' = [NoWork EXCEPT !.kind = "admitted", !.manual = manual, !.preserve = p]
    BY <1>1 DEF StartCompaction
  <2>2. QED
    BY <2>1 DEF NoWork
<1>4. TextsFitTurns' /\ ChecksFit' /\ Turns' = Turns
  BY <1>2, QuietFits DEF ContextInv
<1>5. PreserveFits'
  <2>1. p # 0 => \A q \in Turns : q <= p
    BY <1>1, PreservedIsLast DEF ContextInv
  <2>2. QED
    BY <1>3, <1>4, <2>1 DEF PreserveFits
<1>6. ChatFits' /\ PreparedFits'
  BY <1>3 DEF ChatFits, PreparedFits
<1>7. QED
  BY <1>4, <1>5, <1>6 DEF ContextInv

(* The session is read before the messages. *)
LEMMA ReadsSessionFits ==
  ASSUME TypeOK, LogInv, ContextInv, CompactionReadsSession
  PROVE  ContextInv'
<1>1. PICK w \in Run : w = work
  BY DEF TypeOK
<1>2. /\ w.kind = "admitted" /\ work' = [w EXCEPT !.kind = "session", !.revision = revision]
      /\ messages' = messages /\ attempts' = attempts
  BY <1>1 DEF CompactionReadsSession
<1>3. work'.kind = "session" /\ work'.preserve = w.preserve
  BY <1>2 DEF Run
<1>4. TextsFitTurns' /\ ChecksFit' /\ Turns' = Turns
  BY <1>2, QuietFits DEF ContextInv
<1>5. PreserveFits'
  BY <1>1, <1>2, <1>3, <1>4 DEF PreserveFits, ContextInv
<1>6. ChatFits' /\ PreparedFits'
  BY <1>3 DEF ChatFits, PreparedFits
<1>7. QED
  BY <1>4, <1>5, <1>6 DEF ContextInv

(* The last checkpoint is the one that is active: it is listed, with no other, *)
(* and what is compressed lies before its boundary.                           *)
IsLastCheckpoint(x) == x \in Checkpoints /\ \A y \in Checkpoints : y <= x

LEMMA LastIsListed ==
  ASSUME TypeOK, LogInv, ChecksFit, NEW x, IsLastCheckpoint(x)
  PROVE  /\ x \in Ids /\ x \in Nat /\ Kind(x) = "summary" /\ messages[x].before \in Nat
         /\ messages[x].before <= x /\ x \in Listed
         /\ \A j \in Listed : Kind(j) = "summary" => j = x
         /\ \A y \in Checkpoints : messages[y].before <= messages[x].before
         /\ \A i \in Ids : Compressed(i) => i < messages[x].before
<1>1. /\ x \in Ids /\ x \in Nat /\ Kind(x) = "summary" /\ messages[x].deleted = FALSE
      /\ messages[x].before \in Nat /\ messages[x].by \in Nat /\ messages[x].before <= x
  BY Numbers DEF IsLastCheckpoint, Checkpoints
<1>2. messages[x].by = 0
  <2>1. messages[x].by # 0 => messages[x].by \in Checkpoints /\ x < messages[x].by
    BY DEF IsLastCheckpoint, ChecksFit, LinkFits
  <2>2. QED
    BY <1>1, <2>1 DEF IsLastCheckpoint
<1>3. x \in Listed
  <2>1. Shown(x)
    BY <1>1 DEF Shown, LogInv, MessageInv, IsUser
  <2>2. QED
    BY <1>1, <1>2, <2>1, ListedIs
<1>4. ASSUME NEW y \in Checkpoints, y # x
      PROVE  messages[y].by # 0 /\ messages[y].before < messages[x].before
  <2>1. y \in Nat /\ y <= x
    BY Numbers DEF IsLastCheckpoint, Checkpoints
  <2>2. FollowedBy(y, x) /\ y < x
    BY <1>1, <1>4, <2>1 DEF IsLastCheckpoint, ChecksFit
  <2>3. QED
    BY <2>2 DEF FollowedBy
<1>5. ASSUME NEW j \in Listed, Kind(j) = "summary" PROVE j = x
  <2>1. j \in Checkpoints /\ messages[j].by = 0
    BY <1>5, ListedIs DEF Checkpoints
  <2>2. QED
    BY <1>4, <2>1
<1>6. ASSUME NEW y \in Checkpoints PROVE messages[y].before <= messages[x].before
  <2>1. messages[y].before \in Nat
    BY Numbers DEF Checkpoints
  <2>2. QED
    BY <1>1, <1>4, <2>1
<1>7. ASSUME NEW i \in Ids, Compressed(i) PROVE i < messages[x].before
  <2>1. messages[i].by \in Checkpoints /\ i < messages[messages[i].by].before
    BY <1>7 DEF ChecksFit, CompressedFits
  <2>2. PICK y \in Checkpoints : y = messages[i].by /\ i < messages[y].before
    BY <2>1
  <2>3. i \in Nat /\ messages[y].before \in Nat
    BY Numbers DEF Checkpoints
  <2>4. QED
    BY <1>1, <1>6, <2>2, <2>3
<1>8. QED
  BY <1>1, <1>3, <1>5, <1>6, <1>7

(* If there are checkpoints, there is a last one. *)
LEMMA LastCheckpointExists ==
  ASSUME TypeOK, LogInv, ChecksFit, NEW s \in Checkpoints
  PROVE  \E x \in Checkpoints : IsLastCheckpoint(x)
<1>1. PICK x \in Checkpoints : \A y \in Checkpoints : y <= x
  BY ActiveExists
<1>2. QED
  BY <1>1 DEF IsLastCheckpoint

(* Where the agent's order puts a message. *)
LEMMA Places ==
  ASSUME TypeOK, LogInv, NEW i \in Ids
  PROVE  /\ i \in Nat /\ messages[i].before \in Nat
         /\ Kind(i) = "summary" => Place(i) = 2 * messages[i].before
         /\ Kind(i) # "summary" => Place(i) = 2 * i + 1
BY Numbers DEF Place

(* The agent does not see a listed turn if and only if its error notice is    *)
(* shown.                                                                     *)
LEMMA FailedTurn ==
  ASSUME TypeOK, LogInv, TextsFitTurns, ChecksFit, NEW t \in Turns, t \in Listed
  PROVE  t \in AgentView <=> t + 1 \notin ShownErrors
<1>1. /\ t \in Ids /\ t \in Nat /\ Kind(t) = "turn" /\ messages[t].deleted = FALSE
      /\ messages[t].by = 0
  BY TurnFacts, ListedIs
<1>2. Place(t) = 2 * t + 1
  BY <1>1 DEF Place
<1>3. ASSUME t + 1 \in ShownErrors PROVE DroppedWithError(t)
  <2>1. PICK e \in ShownErrors : e = t + 1
    BY <1>3
  <2>2. e \in Ids /\ Kind(e) = "error" /\ messages[e].deleted = FALSE /\ Shown(e)
    BY DEF ShownErrors
  <2>3. messages[e].by = 0
    <3>1. t <= e
      BY <1>1, <2>1
    <3>2. QED
      BY <1>1, <2>2, <3>1, LaterIsThere
  <2>4. e \in Listed
    BY <2>2, <2>3, ListedIs
  <2>5. Place(e) = 2 * t + 3
    BY <1>1, <2>1, <2>2 DEF Place
  <2>6. ASSUME NEW j \in Listed, Kind(j) # "error", Precedes(t, j), Precedes(j, e)
        PROVE  FALSE
    <3>1. j \in Ids
      BY DEF Listed
    <3>2. CASE Kind(j) = "summary"
      <4>1. j \in Checkpoints
        BY <3>1, <3>2, ListedIs DEF Checkpoints
      <4>2. Place(j) = 2 * messages[j].before /\ messages[j].before \in Nat
        BY <3>1, <3>2, Places
      <4>3. messages[j].before = t + 1
        BY <1>1, <1>2, <2>5, <2>6, <4>2 DEF Precedes
      <4>4. QED
        BY <1>3, <4>1, <4>3 DEF ChecksFit
    <3>3. CASE Kind(j) # "summary"
      <4>1. Place(j) = 2 * j + 1 /\ j \in Nat
        BY <3>1, <3>3, Places
      <4>2. j = e
        BY <1>1, <1>2, <2>1, <2>5, <2>6, <4>1 DEF Precedes
      <4>3. QED
        BY <2>2, <2>6, <4>2
    <3>4. QED
      BY <3>2, <3>3
  <2>7. Precedes(t, e)
    BY <1>1, <1>2, <2>5 DEF Precedes
  <2>8. QED
    BY <1>1, <2>2, <2>4, <2>6, <2>7 DEF DroppedWithError, IsUser
<1>4. ASSUME DroppedWithError(t) PROVE t + 1 \in ShownErrors
  <2>1. PICK e \in Listed :
          /\ Kind(e) = "error" /\ Precedes(t, e)
          /\ ~\E j \in Listed : Kind(j) # "error" /\ Precedes(t, j) /\ Precedes(j, e)
    BY <1>4 DEF DroppedWithError
  <2>2. e \in ShownErrors
    BY <2>1, ListedIs DEF ShownErrors
  <2>3. PICK u \in Turns : e = u + 1
    BY <2>2 DEF TextsFitTurns, ErrorFits
  <2>4. u \in Ids /\ u \in Nat /\ Kind(u) = "turn" /\ messages[u].deleted = FALSE /\ Shown(u)
    BY TurnFacts
  <2>5. Place(u) = 2 * u + 1 /\ Place(e) = 2 * u + 3
    BY <2>1, <2>3, <2>4 DEF Place
  <2>6. t <= u
    BY <1>1, <1>2, <2>1, <2>3, <2>4, <2>5 DEF Precedes
  <2>7. u \in Listed
    BY <1>1, <2>4, <2>6, LaterIsThere, ListedIs
  <2>8. Precedes(u, e)
    BY <2>4, <2>5 DEF Precedes
  <2>9. ~Precedes(t, u)
    BY <2>1, <2>4, <2>7, <2>8
  <2>10. t = u
    BY <1>1, <1>2, <2>4, <2>5, <2>6, <2>9 DEF Precedes
  <2>11. QED
    BY <2>2, <2>3, <2>10
<1>5. QED
  BY <1>1, <1>3, <1>4 DEF AgentView

(* The agent sees the last checkpoint, and every answer that is shown and not *)
(* compressed.                                                                *)
LEMMA LastIsSeen ==
  ASSUME TypeOK, LogInv, TextsFitTurns, ChecksFit, NEW x, IsLastCheckpoint(x)
  PROVE  x \in AgentView
<1>1. /\ x \in Ids /\ x \in Nat /\ Kind(x) = "summary" /\ x \in Listed
      /\ messages[x].before \in Nat /\ x \in Checkpoints
  BY LastIsListed DEF IsLastCheckpoint
<1>2. Place(x) = 2 * messages[x].before
  BY <1>1 DEF Place
<1>3. SUFFICES ASSUME DroppedWithError(x) PROVE FALSE
  BY <1>1 DEF AgentView
<1>4. PICK e \in Listed :
        /\ Kind(e) = "error" /\ Precedes(x, e)
        /\ ~\E j \in Listed : Kind(j) # "error" /\ Precedes(x, j) /\ Precedes(j, e)
  BY <1>3 DEF DroppedWithError
<1>5. e \in ShownErrors
  BY <1>4, ListedIs DEF ShownErrors
<1>6. PICK t \in Turns : e = t + 1
  BY <1>5 DEF TextsFitTurns, ErrorFits
<1>7. t \in Ids /\ t \in Nat /\ Kind(t) = "turn" /\ messages[t].deleted = FALSE /\ Shown(t)
  BY TurnFacts
<1>8. Place(t) = 2 * t + 1 /\ Place(e) = 2 * t + 3
  BY <1>4, <1>6, <1>7 DEF Place
<1>9. messages[x].before <= t + 1
  BY <1>1, <1>2, <1>4, <1>7, <1>8 DEF Precedes
<1>10. messages[x].before # t + 1
  BY <1>1, <1>5, <1>6 DEF ChecksFit
<1>11. Precedes(x, t) /\ Precedes(t, e)
  BY <1>1, <1>2, <1>7, <1>8, <1>9, <1>10 DEF Precedes
<1>12. t \in Listed
  <2>1. ~(t < messages[x].before)
    BY <1>1, <1>7, <1>9, <1>10
  <2>2. ~Compressed(t)
    BY <1>7, <2>1, LastIsListed
  <2>3. messages[t].by = 0
    BY <1>7, <2>2 DEF Compressed
  <2>4. QED
    BY <1>7, <2>3, ListedIs
<1>13. QED
  BY <1>4, <1>7, <1>11, <1>12

LEMMA AnswerIsSeen ==
  ASSUME TypeOK, LogInv, ChecksFit, NEW i \in ShownAnswers, messages[i].by = 0
  PROVE  i \in AgentView
<1>1. i \in Ids /\ Kind(i) = "answer" /\ messages[i].deleted = FALSE /\ Shown(i)
  BY ShownFacts DEF ShownAnswers, Answers
<1>2. i \in Listed
  BY <1>1, ListedIs
<1>3. ~DroppedWithError(i)
  BY <1>1 DEF DroppedWithError, IsUser
<1>4. QED
  BY <1>1, <1>2, <1>3 DEF AgentView

(* A checkpoint from which the last one is at hand stands for what is         *)
(* compressed.                                                                *)
LEMMA CompressedIsKnown ==
  ASSUME TypeOK, LogInv, ChecksFit, NEW i \in ShownAnswers, messages[i].by # 0
  PROVE  \E x \in Checkpoints : IsLastCheckpoint(x) /\ i \in Stands(x)
<1>1. Compressed(i) /\ i \in Ids
  BY ShownFacts DEF Compressed
<1>2. messages[i].by \in Checkpoints
  BY <1>1 DEF ChecksFit, CompressedFits
<1>3. PICK x \in Checkpoints : IsLastCheckpoint(x)
  BY <1>2, LastCheckpointExists
<1>4. messages[i].by <= x
  BY <1>2, <1>3 DEF IsLastCheckpoint
<1>5. i \in messages[x].of
  BY <1>4 DEF ChecksFit, KnowsShown
<1>6. QED
  BY <1>3, <1>5 DEF Stands, Checkpoints

(* What the agent sees. *)
LEMMA SeenFacts ==
  ASSUME TypeOK, LogInv, ChecksFit, NEW i \in AgentView
  PROVE  /\ i \in Listed /\ i \in Ids /\ i \in Nat /\ Kind(i) # "error"
         /\ messages[i].by = 0 /\ messages[i].deleted = FALSE
         /\ messages[i].before \in Nat /\ messages[i].before <= i
<1>1. i \in Listed /\ i \in Ids /\ Kind(i) # "error"
  BY DEF AgentView, Listed
<1>2. messages[i].by = 0 /\ messages[i].deleted = FALSE
  BY <1>1, ListedIs
<1>3. i \in Nat /\ messages[i].before \in Nat /\ messages[i].before <= i
  BY <1>1, Numbers
<1>4. QED
  BY <1>1, <1>2, <1>3

(* A compaction of all the agent sees leaves only turns that failed.          *)
LEMMA AllIsCovered ==
  ASSUME TypeOK, LogInv, TextsFitTurns, ChecksFit, AgentView # {}
  PROVE  Covers(AgentView, Latest(AgentView) + 1)
<1>1. AgentView \subseteq Ids
  BY DEF AgentView, Listed
<1>2. PICK l \in AgentView :
        l = Latest(AgentView) /\ \A i \in AgentView \ {l} : Precedes(i, l)
  BY <1>1, LatestExists
<1>3. /\ l \in Ids /\ l \in Nat /\ l \in Listed /\ Kind(l) # "error"
      /\ messages[l].before \in Nat /\ messages[l].before <= l
      /\ messages[l].by = 0 /\ messages[l].deleted = FALSE
  BY SeenFacts
<1>4. ASSUME NEW i \in AgentView, Kind(i) # "summary", l < i PROVE FALSE
  <2>1. Place(i) = 2 * i + 1 /\ i \in Nat /\ i # l /\ Precedes(i, l)
    BY <1>1, <1>2, <1>3, <1>4, Places
  <2>2. Place(l) = 2 * messages[l].before \/ Place(l) = 2 * l + 1
    BY <1>3, Places
  <2>3. QED
    BY <1>3, <1>4, <2>1, <2>2 DEF Precedes
<1>5. ASSUME NEW s \in Checkpoints
      PROVE  messages[s].before \in Nat /\ messages[s].before < l + 1
  <2>1. PICK x \in Checkpoints : IsLastCheckpoint(x)
    BY LastCheckpointExists
  <2>2. /\ x \in AgentView /\ x \in Ids /\ Kind(x) = "summary" /\ messages[x].before \in Nat
        /\ messages[s].before <= messages[x].before
        /\ Kind(l) = "summary" => l = x
    BY <1>3, <2>1, LastIsSeen, LastIsListed
  <2>3. messages[x].before <= l
    <3>1. CASE x = l
      BY <1>3, <3>1
    <3>2. CASE x # l
      <4>1. Precedes(x, l) /\ Place(l) = 2 * l + 1
        BY <1>2, <1>3, <2>2, <3>2, Places
      <4>2. Place(x) = 2 * messages[x].before
        BY <2>2, Places
      <4>3. QED
        BY <1>3, <2>2, <4>1, <4>2 DEF Precedes
    <3>3. QED
      BY <3>1, <3>2
  <2>4. messages[s].before \in Nat
    BY Numbers DEF Checkpoints
  <2>5. QED
    BY <1>3, <2>2, <2>3, <2>4
(* What follows the latest is not compressed.                                 *)
<1>6. ASSUME NEW i \in Ids, Kind(i) # "summary", messages[i].deleted = FALSE, l < i
      PROVE  messages[i].by = 0
  <2>1. SUFFICES ASSUME messages[i].by # 0 PROVE FALSE
    OBVIOUS
  <2>2. PICK c \in Checkpoints : i < messages[c].before
    BY <1>6, <2>1 DEF ChecksFit, CompressedFits, Compressed
  <2>3. i \in Nat /\ messages[c].before < l + 1 /\ messages[c].before \in Nat
    BY <1>5, Numbers
  <2>4. QED
    BY <1>3, <1>6, <2>2, <2>3
<1>7. ASSUME NEW i \in ShownAnswers PROVE \E j \in AgentView : i \in Stands(j)
  <2>1. CASE messages[i].by = 0
    <3>1. i \in AgentView /\ Kind(i) = "answer"
      BY <2>1, AnswerIsSeen, ShownFacts
    <3>2. QED
      BY <3>1 DEF Stands
  <2>2. CASE messages[i].by # 0
    BY <2>2, CompressedIsKnown, LastIsSeen
  <2>3. QED
    BY <2>1, <2>2
<1>8. ASSUME NEW i \in ShownAnswers, l + 1 <= i PROVE FALSE
  <2>1. i \in Ids /\ Kind(i) = "answer" /\ messages[i].deleted = FALSE /\ i \in Nat
    <3>1. i \in Ids /\ Kind(i) = "answer" /\ messages[i].deleted = FALSE
      BY ShownFacts
    <3>2. QED
      BY <3>1, Numbers
  <2>2. l < i
    BY <1>3, <1>8, <2>1
  <2>3. i \in AgentView
    BY <1>6, <2>1, <2>2, AnswerIsSeen
  <2>4. QED
    BY <1>4, <2>1, <2>2, <2>3
<1>9. ASSUME NEW t \in Turns, l + 1 <= t PROVE t + 1 \in ShownErrors
  <2>1. /\ t \in Ids /\ Kind(t) = "turn" /\ messages[t].deleted = FALSE /\ t \in Nat
        /\ Shown(t)
    BY TurnFacts
  <2>2. l < t
    BY <1>3, <1>9, <2>1
  <2>3. t \in Listed
    BY <1>6, <2>1, <2>2, ListedIs
  <2>4. t \notin AgentView
    BY <1>4, <2>1, <2>2
  <2>5. QED
    BY <2>3, <2>4, FailedTurn
<1>10. LeavesFailed(l + 1, Len(messages) + 1)
  BY <1>8, <1>9 DEF LeavesFailed
<1>11. l + 1 \notin ShownErrors
  <2>1. SUFFICES ASSUME l + 1 \in ShownErrors PROVE FALSE
    OBVIOUS
  <2>2. PICK t \in Turns : l + 1 = t + 1
    BY <2>1 DEF TextsFitTurns, ErrorFits
  <2>3. t \in Nat
    BY TurnFacts
  <2>4. t = l
    BY <1>3, <2>2, <2>3
  <2>5. QED
    BY <1>2, <1>3, <2>1, <2>4, FailedTurn
<1>12. QED
  BY <1>2, <1>5, <1>7, <1>10, <1>11 DEF Covers

(* A compaction that preserves the last turn compresses all before it.        *)
LEMMA PreservedIsCovered ==
  ASSUME TypeOK, LogInv, TextsFitTurns, ChecksFit, NEW p \in AgentView, Kind(p) = "turn",
         \A q \in Turns : q <= p, NEW a \in AgentView, a < p
  PROVE  Covers({i \in AgentView : i < p}, p)
<1>1. /\ p \in Listed /\ p \in Ids /\ p \in Nat /\ messages[p].by = 0
      /\ messages[p].deleted = FALSE /\ p \in Turns
  BY SeenFacts DEF Turns
<1>2. /\ a \in Listed /\ a \in Ids /\ a \in Nat /\ messages[a].by = 0
      /\ messages[a].deleted = FALSE /\ Kind(a) # "error"
  BY SeenFacts
<1>3. ASSUME NEW x \in Checkpoints, IsLastCheckpoint(x)
      PROVE  messages[x].before < p /\ x < p /\ x \in AgentView
  <2>1. /\ x \in Ids /\ x \in Nat /\ Kind(x) = "summary" /\ messages[x].before \in Nat
        /\ messages[x].before <= x /\ x \in AgentView
        /\ Kind(a) = "summary" => a = x
    BY <1>2, <1>3, LastIsListed, LastIsSeen
  <2>2. Behind(x, p) /\ Behind(x, a)
    BY <1>1, <1>2 DEF ChecksFit
  <2>3. messages[x].before <= p
    BY <1>1, <2>1, <2>2 DEF Behind
  <2>4. Kind(a) # "summary" => messages[x].before <= a
    BY <1>2, <2>1, <2>2 DEF Behind
  <2>5. messages[x].before < p
    BY <1>1, <1>2, <2>1, <2>3, <2>4
  <2>6. x < p
    <3>1. x # p
      BY <2>1
    <3>2. SUFFICES ASSUME p < x PROVE FALSE
      BY <1>1, <2>1, <3>1
    <3>3. LeavesFailed(messages[x].before, x)
      BY DEF ChecksFit
    <3>4. /\ \A i \in ShownAnswers : ~(messages[x].before <= i /\ i < p)
          /\ \A t \in Turns : messages[x].before <= t /\ t < p => t + 1 \in ShownErrors
      BY <1>1, <2>5, <3>2, <3>3 DEF LeavesFailed
    <3>5. Kind(a) # "summary" /\ messages[x].before <= a
      BY <1>1, <1>2, <2>1, <2>4, <3>2
    <3>6. Kind(a) \in {"turn", "answer"}
      BY <1>2, <3>5, Numbers DEF Message, Kinds, Kind
    <3>7. CASE Kind(a) = "answer"
      <4>1. a \in ShownAnswers
        BY <3>7, ViewIsShown
      <4>2. QED
        BY <3>4, <3>5, <4>1
    <3>8. CASE Kind(a) = "turn"
      <4>1. a \in Turns
        BY <1>2, <3>8 DEF Turns
      <4>2. a + 1 \in ShownErrors
        BY <3>4, <3>5, <4>1
      <4>3. QED
        BY <1>2, <4>1, <4>2, FailedTurn
    <3>9. QED
      BY <3>6, <3>7, <3>8
  <2>7. QED
    BY <2>1, <2>5, <2>6
<1>4. ASSUME NEW s \in Checkpoints PROVE messages[s].before < p
  <2>1. PICK x \in Checkpoints : IsLastCheckpoint(x)
    BY LastCheckpointExists
  <2>2. messages[s].before <= messages[x].before /\ messages[x].before \in Nat
    BY <2>1, LastIsListed
  <2>3. messages[s].before \in Nat
    BY Numbers DEF Checkpoints
  <2>4. QED
    BY <1>1, <1>3, <2>1, <2>2, <2>3
<1>5. ASSUME NEW i \in ShownAnswers, i < p \/ messages[i].by # 0
      PROVE  \E j \in {k \in AgentView : k < p} : i \in Stands(j)
  <2>1. CASE messages[i].by = 0
    <3>1. i \in AgentView /\ Kind(i) = "answer" /\ i < p
      BY <1>5, <2>1, AnswerIsSeen, ShownFacts
    <3>2. i \in Stands(i)
      BY <3>1 DEF Stands
    <3>3. QED
      BY <3>1, <3>2
  <2>2. CASE messages[i].by # 0
    <3>1. PICK x \in Checkpoints : IsLastCheckpoint(x) /\ i \in Stands(x)
      BY <2>2, CompressedIsKnown
    <3>2. x \in AgentView /\ x < p
      BY <1>3, <3>1
    <3>3. QED
      BY <3>1, <3>2
  <2>3. QED
    BY <2>1, <2>2
<1>6. LeavesFailed(p, Len(messages) + 1)
  <2>1. \A q \in Turns : ~(p < q)
    <3>1. \A q \in Turns : q \in Nat /\ q <= p
      BY TurnFacts
    <3>2. QED
      BY <1>1, <3>1
  <2>2. QED
    BY <2>1 DEF LeavesFailed
<1>7. p \notin ShownErrors
  BY DEF ShownErrors
<1>8. QED
  BY <1>4, <1>5, <1>6, <1>7 DEF Covers

(* What a compaction prepares from what it has read. *)
LEMMA ReadMessagesChoice ==
  ASSUME TypeOK, LogInv, CompactionReadsMessages
  PROVE  \/ work' = NoWork
         \/ /\ work'.kind = "prepared"
            /\ \/ /\ work'.source = AgentView /\ AgentView # {}
                  /\ work'.boundary = Latest(AgentView) + 1
               \/ /\ work.preserve # 0 /\ LatestUserIs(work.preserve)
                  /\ work'.source = {i \in AgentView : i < work.preserve}
                  /\ work'.source # {} /\ work'.boundary = work.preserve
<1> DEFINE source == IF work.preserve = 0 THEN AgentView
                     ELSE {i \in AgentView : i < work.preserve}
           boundary == IF work.preserve = 0 THEN Latest(source) + 1 ELSE work.preserve
<1>1. PICK w \in Run : w = work
  BY DEF TypeOK
<1>2. w.preserve \in Nat
  BY DEF Run
<1>3. \/ work' = NoWork
      \/ /\ source # {} /\ (w.preserve > 0 => LatestUserIs(w.preserve))
         /\ work' = [w EXCEPT !.kind = "prepared", !.source = source, !.boundary = boundary]
  BY <1>1 DEF CompactionReadsMessages, EndCompaction
<1>4. PICK S, b : S = source /\ b = boundary
  OBVIOUS
<1>5. (source = AgentView /\ boundary = Latest(AgentView) + 1) \/ w.preserve # 0
  BY <1>1
<1>6. w.preserve # 0 => /\ source = {i \in AgentView : i < work.preserve}
                        /\ boundary = work.preserve
  BY <1>1
<1> HIDE DEF source, boundary
<1>7. work' = [w EXCEPT !.kind = "prepared", !.source = S, !.boundary = b] =>
        work'.kind = "prepared" /\ work'.source = S /\ work'.boundary = b
  BY DEF Run
<1>8. w.preserve # 0 => w.preserve > 0
  BY <1>2
<1>9. QED
  BY <1>1, <1>3, <1>4, <1>5, <1>6, <1>7, <1>8

(* What it has prepared stands for all it will compress. *)
LEMMA ReadMessagesFit ==
  ASSUME TypeOK, LogInv, ContextInv, CompactionReadsMessages
  PROVE  ContextInv'
<1>0. TextsFitTurns /\ ChecksFit /\ PreserveFits
  BY DEF ContextInv
<1>1. /\ messages' = messages /\ attempts' = attempts /\ work.kind = "session"
  BY DEF CompactionReadsMessages
<1>2. /\ TextsFitTurns' /\ ChecksFit' /\ ShownAnswers' = ShownAnswers
      /\ ShownErrors' = ShownErrors /\ Checkpoints' = Checkpoints /\ Turns' = Turns
  BY <1>0, <1>1, QuietFits
<1>3. ASSUME NEW S, NEW b, Covers(S, b), work'.source = S, work'.boundary = b
      PROVE  PreparedFits'
  <2>1. LeavesFailed(b, Len(messages) + 1)' <=> LeavesFailed(b, Len(messages) + 1)
    BY <1>1, <1>2 DEF LeavesFailed
  <2>2. \A j : Stands(j)' = Stands(j)
    BY <1>1 DEF Stands, Kind
  <2>3. Covers(S, b)'
    BY <1>1, <1>2, <1>3, <2>1, <2>2 DEF Covers
  <2>4. QED
    BY <1>3, <2>3 DEF PreparedFits
<1>4. CASE work' = NoWork
  BY <1>2, <1>4, NoWorkFits DEF ContextInv
<1>5. CASE work'.kind = "prepared" /\ PreparedFits'
  BY <1>2, <1>5 DEF ContextInv, ChatFits, PreserveFits
<1>6. CASE /\ work'.kind = "prepared"
           /\ work'.source = AgentView /\ AgentView # {}
           /\ work'.boundary = Latest(AgentView) + 1
  BY <1>0, <1>3, <1>5, <1>6, AllIsCovered
<1>7. CASE /\ work'.kind = "prepared"
           /\ work.preserve # 0 /\ LatestUserIs(work.preserve)
           /\ work'.source = {i \in AgentView : i < work.preserve}
           /\ work'.source # {} /\ work'.boundary = work.preserve
  <2>1. PICK p : p = work.preserve
    OBVIOUS
  <2>2. p \in AgentView /\ Kind(p) = "turn"
    <3> DEFINE users == {i \in AgentView : Kind(i) = "turn"}
    <3>1. users # {} /\ Latest(users) = p /\ users \subseteq Ids
      BY <1>7, <2>1 DEF LatestUserIs, AgentView, Listed
    <3>2. p \in users
      <4> HIDE DEF users
      <4>1. QED
        BY <3>1, LatestExists
    <3>3. QED
      BY <3>2
  <2>3. \A q \in Turns : q <= p
    BY <1>0, <1>1, <1>7, <2>1 DEF PreserveFits
  <2>4. PICK a \in AgentView : a < p
    BY <1>7, <2>1
  <2>5. Covers({i \in AgentView : i < p}, p)
    BY <1>0, <2>2, <2>3, <2>4, PreservedIsCovered
  <2>6. QED
    BY <1>3, <1>5, <1>7, <2>1, <2>5
<1>8. QED
  BY <1>4, <1>6, <1>7, ReadMessagesChoice

(* Without edits and switches every step keeps it. *)
LEMMA ContextSteps ==
  ASSUME HistoryInv, ContextInv, HistoryNext, "edit" \notin Operations,
         "select" \notin Operations
  PROVE  ContextInv'
<1>0. /\ TypeOK /\ LogInv /\ WorkInv /\ ReadInv
      /\ TextsFitTurns /\ ChecksFit /\ ChatFits
  BY DEF HistoryInv, ContextInv
<1>1. CASE Send
  BY <1>0, <1>1, SendFits
<1>2. CASE Retry
  BY <1>0, <1>2, RetryFits
<1>3. CASE EndWithMessages
  BY <1>0, <1>3, FinishFits
<1>4. CASE EndWithoutMessages
  BY <1>0, <1>4, LostFits
<1>5. CASE Delete
  BY <1>0, <1>5, DeleteFits
<1>6. CASE Compact
  BY <1>0, <1>6, AdmitFits
<1>7. CASE CompactionReadsSession
  BY <1>0, <1>7, ReadsSessionFits
<1>8. CASE CompactionReadsMessages
  BY <1>0, <1>8, ReadMessagesFit
<1>9. CASE CommitCheckpoint
  <2>1. CASE revision = work.revision
    BY <1>0, <1>9, <2>1, CheckpointFits
  <2>2. CASE revision # work.revision
    <3>1. /\ messages' = messages /\ attempts' = attempts /\ revision' = revision
          /\ work' = NoWork
      BY <1>9, <2>2 DEF CommitCheckpoint, Current, EndCompaction
    <3>2. QED
      BY <1>0, <3>1, IdleFits
  <2>3. QED
    BY <2>1, <2>2
<1>10. CASE \/ AbandonCompaction \/ DeriveReadsRevision \/ DeriveReadsHistory \/ DeriveSaves
  <2>1. /\ messages' = messages /\ attempts' = attempts /\ revision' = revision
        /\ work' = work \/ work' = NoWork
    BY <1>10 DEF AbandonCompaction, EndCompaction, DeriveReadsRevision, DeriveReadsHistory,
                 DeriveSaves
  <2>2. QED
    BY <1>0, <2>1, IdleFits
<1>11. CASE UndoCheckpoint
  BY <1>0, <1>11, UndoFits
<1>12. ~Edit /\ ~Select
  BY DEF Edit, Select
<1>13. QED
  BY <1>1, <1>2, <1>3, <1>4, <1>5, <1>6, <1>7, <1>8, <1>9, <1>10, <1>11, <1>12
     DEF HistoryNext

(* An empty session satisfies it. *)
LEMMA ContextStarts == HistoryInit => ContextInv
<1>1. SUFFICES ASSUME HistoryInit PROVE ContextInv
  OBVIOUS
<1>2. Ids = {} /\ Turns = {} /\ Checkpoints = {} /\ ShownErrors = {}
  BY <1>1 DEF HistoryInit, Ids, Turns, Checkpoints, ShownErrors
<1>3. TextsFitTurns /\ ChecksFit
  BY <1>2 DEF TextsFitTurns, ChecksFit
<1>4. ChatFits /\ PreserveFits /\ PreparedFits
  BY <1>1 DEF HistoryInit, NoWork, ChatFits, PreserveFits, PreparedFits
<1>5. QED
  BY <1>3, <1>4 DEF ContextInv

(* A step that changes nothing keeps it. *)
LEMMA ContextStutters ==
  ASSUME HistoryInv, ContextInv, UNCHANGED historyVars
  PROVE  ContextInv'
<1>1. TypeOK /\ LogInv /\ ReadInv
  BY DEF HistoryInv
<1>2. messages' = messages /\ attempts' = attempts /\ revision' = revision /\ work' = work
  BY DEF historyVars
<1>3. QED
  BY <1>1, <1>2, IdleFits

(* In a session whose answers are retried, deleted and compacted, but not     *)
(* switched or edited, there is at most one active checkpoint, and a shown    *)
(* answer that is compressed is part of what it was written from, however     *)
(* the runs, the compactions and the undoing of a checkpoint follow each      *)
(* other.  (PersistCheckpointAndTransitionActiveRun, markAsCompressed,        *)
(* UndoLatestManualCheckpointForActiveSession.)                               *)
THEOREM ContextStaysCovered ==
  ASSUME "edit" \notin Operations, "select" \notin Operations
  PROVE  HistorySpec => []CheckpointsAreSound
<1>1. HistoryInit => HistoryInv /\ ContextInv
  BY Initially, ContextStarts
<1>2. HistoryInv /\ ContextInv /\ [HistoryNext]_historyVars => (HistoryInv /\ ContextInv)'
  BY Steps, Stutters, ContextSteps, ContextStutters
<1>3. HistoryInv /\ ContextInv => CheckpointsAreSound
  BY ChecksAreSound DEF HistoryInv, ContextInv
<1>4. QED
  BY <1>1, <1>2, <1>3, PTL DEF HistorySpec

-----------------------------------------------------------------------------
(* Documents *)

Masked(doc) == Secret \notin Range(doc[DoNotRemember])

(* What is redacted holds no credential, and redacting it again changes      *)
(* nothing.                                                                  *)
LEMMA RedactTwice ==
  ASSUME NEW doc
  PROVE  Redact(Redact(doc)) = Redact(doc)
<1> DEFINE once == Redact(doc)
<1>1. \A s \in Section : once[s] = [i \in DOMAIN doc[s] |-> IF doc[s][i] = Secret THEN Placeholder ELSE doc[s][i]]
  BY DEF Redact
<1>2. \A s \in Section : DOMAIN once[s] = DOMAIN doc[s]
  BY <1>1
<1>3. ASSUME NEW s \in Section
      PROVE  [i \in DOMAIN once[s] |-> IF once[s][i] = Secret THEN Placeholder ELSE once[s][i]] = once[s]
  <2>1. \A i \in DOMAIN doc[s] : once[s][i] # Secret
    BY <1>1, ItemsAssumption, ZenonT(60)
  <2>2. PICK D, o : D = DOMAIN doc[s] /\ o = once[s]
    OBVIOUS
  <2>3. DOMAIN o = D /\ \A i \in D : o[i] # Secret
    BY <1>2, <2>1, <2>2
  <2>4. [i \in DOMAIN o |-> IF o[i] = Secret THEN Placeholder ELSE o[i]] = [i \in D |-> o[i]]
    BY ONLY <2>3
  <2>5. o = [i \in D |-> o[i]]
    BY <1>1, <2>2
  <2>6. QED
    BY ONLY <2>2, <2>4, <2>5
<1>4. once = [s \in Section |-> once[s]]
  BY DEF Redact
<1> HIDE DEF once
<1>5. Redact(once) = [s \in Section |-> once[s]]
  BY <1>3 DEF Redact
<1>6. QED
  BY <1>4, <1>5 DEF once

LEMMA RedactType ==
  ASSUME NEW doc \in Documents
  PROVE  Redact(doc) \in Documents /\ ~HasSecret(Redact(doc))
<1>1. ASSUME NEW s \in Section
      PROVE  /\ Redact(doc)[s] \in Seq(Item)
             /\ Secret \notin Range(Redact(doc)[s])
  <2>1. doc[s] \in Seq(Item)
    BY DEF Documents
  <2>2. Redact(doc)[s] = [i \in 1 .. Len(doc[s]) |-> IF doc[s][i] = Secret THEN Placeholder ELSE doc[s][i]]
    BY <2>1 DEF Redact
  <2>3. \A i \in 1 .. Len(doc[s]) : doc[s][i] \in Item
    BY <2>1
  <2>4. Placeholder \in Item /\ Placeholder # Secret
    BY ItemsAssumption DEF Item
  <2>5. QED
    BY <2>1, <2>2, <2>3, <2>4 DEF Range
<1>2. DOMAIN Redact(doc) = Section /\ Redact(doc) = [s \in Section |-> Redact(doc)[s]]
  BY DEF Redact
<1>3. QED
  BY <1>1, <1>2 DEF Documents, HasSecret

LEMMA RedactClean ==
  ASSUME NEW doc \in Documents, ~HasSecret(doc)
  PROVE  Redact(doc) = doc
<1>1. ASSUME NEW s \in Section
      PROVE  [i \in DOMAIN doc[s] |-> IF doc[s][i] = Secret THEN Placeholder ELSE doc[s][i]] = doc[s]
  <2>1. doc[s] \in Seq(Item) /\ \A i \in DOMAIN doc[s] : doc[s][i] # Secret
    BY DEF Documents, HasSecret, Range
  <2>2. doc[s] = [i \in DOMAIN doc[s] |-> doc[s][i]]
    BY <2>1
  <2>3. QED
    BY <2>1, <2>2
<1>2. doc = [s \in Section |-> doc[s]]
  BY DEF Documents
<1>3. QED
  BY <1>1, <1>2 DEF Redact

LEMMA DoNotRememberIsSection == DoNotRemember \in Section
  BY SizesAssumption DEF DoNotRemember, Section

LEMMA EmptyFits == Empty \in Documents /\ ~HasSecret(Empty) /\ Masked(Empty)
<1>1. \A s \in Section : Empty[s] = <<>> /\ Range(Empty[s]) = {}
  BY DEF Empty, Range
<1>2. Empty \in Documents
  BY DEF Empty, Documents
<1>3. QED
  BY <1>1, <1>2, DoNotRememberIsSection DEF HasSecret, Masked

(* A section of its own replaced leaves a document. *)
LEMMA SectionReplaced ==
  ASSUME NEW doc \in Documents, NEW s, NEW items, s \in Section => items \in Seq(Item)
  PROVE  [doc EXCEPT ![s] = items] \in Documents
BY DEF Documents

LEMMA SerializeType ==
  ASSUME NEW doc \in Documents
  PROVE  /\ Serialize(doc) \in Documents /\ Masked(Serialize(doc))
         /\ \A s \in Section \ {DoNotRemember} : Serialize(doc)[s] = doc[s]
<1> DEFINE kept == IF Secret \in Range(doc[DoNotRemember]) THEN <<Placeholder>> ELSE doc[DoNotRemember]
<1>1. Serialize(doc) = [doc EXCEPT ![DoNotRemember] = kept]
  BY DEF Serialize
<1>2. doc[DoNotRemember] \in Seq(Item) /\ <<Placeholder>> \in Seq(Item)
  BY DoNotRememberIsSection DEF Documents, Item
<1>3. Secret \notin Range(<<Placeholder>>)
  BY ItemsAssumption DEF Range
<1>4. kept \in Seq(Item) /\ Secret \notin Range(kept)
  BY <1>2, <1>3
<1> HIDE DEF kept
<1>5. QED
  BY <1>1, <1>4, DoNotRememberIsSection DEF Documents, Masked

LEMMA NormalizedType ==
  ASSUME NEW doc \in Documents, NEW d \in Normalized(doc)
  PROVE  d \in Documents /\ Masked(d) /\ ~HasSecret(d)
<1>1. d = Serialize(doc) /\ ~RejectSensitiveValues(doc)
  BY DEF Normalized
<1>2. d \in Documents /\ Masked(d)
  BY <1>1, SerializeType
<1>3. \A s \in Section \ {DoNotRemember} : Secret \notin Range(d[s])
  BY <1>1, SerializeType DEF RejectSensitiveValues
<1>4. QED
  BY <1>2, <1>3 DEF HasSecret, Masked

-----------------------------------------------------------------------------
(* Lines and entries *)

Entries(doc) == UNION {{<<s, i>> : i \in DOMAIN doc[s]} : s \in Section}

(* What sequences hold, their concatenation holds: each number of them makes *)
(* the next.                                                                 *)
LEMMA FlattenType ==
  ASSUME NEW S, NEW seqs \in Seq(Seq(S))
  PROVE  FlattenSeq(seqs) \in Seq(S)
<1> DEFINE Joins(m, f) == f = [i \in 1 .. m |-> IF i = 1 THEN seqs[i] ELSE f[i - 1] \o seqs[i]]
           Exist == {m \in Nat : \E f : Joins(m, f)}
           N == Len(seqs)
<1>1. 0 \in Exist
  <2> DEFINE f == [i \in 1 .. 0 |-> seqs[i]]
             h == [i \in 1 .. 0 |-> IF i = 1 THEN seqs[i] ELSE f[i - 1] \o seqs[i]]
  <2>1. f = h
    OBVIOUS
  <2>2. Joins(0, f)
    BY <2>1
  <2> HIDE DEF f
  <2>3. QED
    BY <2>2
<1>2. ASSUME NEW m \in Nat, m \in Exist PROVE m + 1 \in Exist
  <2>1. PICK f : Joins(m, f)
    BY <1>2
  <2> DEFINE g == [i \in 1 .. m + 1 |-> IF i = 1 THEN seqs[i] ELSE f[i - 1] \o seqs[i]]
             h == [i \in 1 .. m + 1 |-> IF i = 1 THEN seqs[i] ELSE g[i - 1] \o seqs[i]]
  <2>2. ASSUME NEW i \in 1 .. m + 1, i # 1 PROVE g[i - 1] = f[i - 1]
    <3>1. i - 1 \in 1 .. m /\ i - 1 \in 1 .. m + 1
      BY <2>2
    <3>2. QED
      BY <2>1, <3>1
  <2>3. \A i \in 1 .. m + 1 : g[i] = h[i]
    BY <2>2
  <2>4. g = h
    BY <2>3
  <2>5. Joins(m + 1, g)
    BY <2>4
  <2> HIDE DEF g, Joins
  <2>6. m + 1 \in Nat /\ \E p : Joins(m + 1, p)
    BY <2>5
  <2>7. QED
    BY <2>6
<1> HIDE DEF Exist
<1>3. N \in Nat /\ \A i \in 1 .. N : seqs[i] \in Seq(S)
  OBVIOUS
<1>4. \E f : Joins(N, f)
  <2>1. N \in Exist
    BY <1>1, <1>2, <1>3, NumberInduction
  <2>2. QED
    BY <2>1 DEF Exist
<1> DEFINE flatten == CHOOSE f : Joins(N, f)
<1>5. Joins(N, flatten)
  BY <1>4
<1>6. FlattenSeq(seqs) = IF N = 0 THEN seqs ELSE flatten[N]
  BY DEF FlattenSeq
<1> HIDE DEF flatten, N
<1> DEFINE Good == {n \in Nat : n \in 1 .. N => flatten[n] \in Seq(S)}
<1>7. 0 \in Good
  OBVIOUS
<1>8. ASSUME NEW n \in Nat, n \in Good PROVE n + 1 \in Good
  <2>1. SUFFICES ASSUME n + 1 \in 1 .. N PROVE flatten[n + 1] \in Seq(S)
    OBVIOUS
  <2>2. flatten[n + 1] = IF n + 1 = 1 THEN seqs[n + 1] ELSE flatten[(n + 1) - 1] \o seqs[n + 1]
    BY <1>5, <2>1
  <2>3. CASE n = 0
    BY <1>3, <2>1, <2>2, <2>3
  <2>4. CASE n # 0
    <3>1. n \in 1 .. N /\ (n + 1) - 1 = n /\ n + 1 # 1
      BY <1>3, <2>1, <2>4
    <3>2. flatten[n] \in Seq(S) /\ seqs[n + 1] \in Seq(S)
      BY <1>3, <1>8, <2>1, <3>1
    <3>3. QED
      BY <2>2, <3>1, <3>2
  <2>5. QED
    BY <2>3, <2>4
<1> HIDE DEF Good
<1>9. Nat \subseteq Good
  BY <1>7, <1>8, NumberInduction
<1>10. CASE N = 0
  <2>1. seqs = <<>>
    BY <1>10 DEF N
  <2>2. QED
    BY <1>6, <1>10, <2>1
<1>11. CASE N # 0
  <2>1. N \in 1 .. N
    BY <1>3, <1>11
  <2>2. QED
    BY <1>6, <1>9, <1>11, <2>1, <1>3 DEF Good
<1>12. QED
  BY <1>10, <1>11

LEMMA LinesAreEntries ==
  ASSUME NEW doc \in Documents
  PROVE  Lines(doc) \in Seq(Entries(doc))
<1> DEFINE parts == [s \in Section |-> [i \in DOMAIN doc[s] |-> <<s, i>>]]
<1>1. ASSUME NEW s \in Section PROVE parts[s] \in Seq(Entries(doc))
  <2>1. doc[s] \in Seq(Item)
    BY DEF Documents
  <2>2. parts[s] = [i \in 1 .. Len(doc[s]) |-> <<s, i>>] /\ Len(doc[s]) \in Nat
    BY <2>1
  <2>3. \A i \in 1 .. Len(doc[s]) : <<s, i>> \in Entries(doc)
    BY <2>1 DEF Entries
  <2>4. QED
    BY <2>2, <2>3
<1>2. NumSections \in Nat /\ Section = 1 .. NumSections
  BY SizesAssumption DEF Section
<1>3. parts = [s \in 1 .. NumSections |-> parts[s]]
  BY <1>2
<1> HIDE DEF parts
<1>4. parts \in Seq(Seq(Entries(doc)))
  BY <1>1, <1>2, <1>3
<1>5. QED
  BY <1>4, FlattenType DEF Lines, parts

LEMMA EntryAtType ==
  ASSUME NEW doc \in Documents, NEW s \in Section \union {0}, NEW n \in 1 .. MaxItems
  PROVE  EntryAt(doc, s, n) \subseteq Entries(doc)
<1> DEFINE all == Lines(doc)
<1>1. \A l \in DOMAIN all : all[l] \in Entries(doc)
  BY LinesAreEntries
<1> HIDE DEF all
<1>2. s # 0 /\ n <= Len(doc[s]) => <<s, n>> \in Entries(doc)
  <2>1. SUFFICES ASSUME s \in Section, n <= Len(doc[s]) PROVE <<s, n>> \in Entries(doc)
    BY DEF Section
  <2>2. doc[s] \in Seq(Item)
    BY <2>1 DEF Documents
  <2>3. n \in DOMAIN doc[s]
    BY <2>1, <2>2, SizesAssumption
  <2>4. QED
    BY <2>1, <2>3 DEF Entries
<1>3. EntryAt(doc, s, n) =
        IF s = 0 THEN {all[m] : m \in {n} \intersect DOMAIN all}
        ELSE IF n <= Len(doc[s]) THEN {<<s, n>>}
        ELSE {all[m] : m \in {l \in {n} \intersect DOMAIN all : all[l][1] = s}}
  BY DEF EntryAt, all
<1>4. QED
  BY <1>1, <1>2, <1>3

LEMMA EntryOfType ==
  ASSUME NEW doc \in Documents, NEW x
  PROVE  EntryOf(doc, x) \subseteq Entries(doc)
<1> DEFINE all == Lines(doc)
           found == {n \in DOMAIN all : doc[all[n][1]][all[n][2]] = x}
<1>1. \A l \in DOMAIN all : all[l] \in Entries(doc)
  BY LinesAreEntries
<1>2. EntryOf(doc, x) = {all[n] : n \in {m \in found : Cardinality(found) = 1}}
  BY DEF EntryOf
<1>3. QED
  BY <1>1, <1>2

LEMMA WithoutType ==
  ASSUME NEW doc \in Documents, NEW e \in Entries(doc)
  PROVE  Without(doc, e) \in Documents
<1>1. PICK s \in Section : \E i \in DOMAIN doc[s] : e = <<s, i>>
  BY DEF Entries
<1>7. PICK i \in DOMAIN doc[s] : e = <<s, i>>
  BY <1>1
<1>2. doc[s] \in Seq(Item)
  BY DEF Documents
<1>3. i \in 1 .. Len(doc[s]) /\ Len(doc[s]) \in Nat
  BY <1>2, <1>7
<1> DEFINE n == Len(doc[s])
           rest == SubSeq(doc[s], 1, i - 1) \o SubSeq(doc[s], i + 1, n)
<1>4. rest \in Seq(Item)
  <2>1. \A j \in 1 .. i - 1 : doc[s][j] \in Item
    BY <1>2, <1>3
  <2>2. \A j \in i + 1 .. n : doc[s][j] \in Item
    BY <1>2, <1>3
  <2>3. SubSeq(doc[s], 1, i - 1) \in Seq(Item) /\ SubSeq(doc[s], i + 1, n) \in Seq(Item)
    BY <1>2, <1>3, <2>1, <2>2, SubSeqProperties
  <2>4. QED
    BY <2>3
<1>5. Without(doc, e) = [doc EXCEPT ![s] = rest]
  BY <1>7 DEF Without, RemoveAt
<1> HIDE DEF rest
<1>6. [doc EXCEPT ![s] = rest] \in Documents
  BY <1>4, SectionReplaced
<1>8. QED
  BY <1>5, <1>6, Zenon

(* An item written over an entry, or behind a section. *)
LEMMA WrittenType ==
  ASSUME NEW doc \in Documents, NEW s \in Section, NEW i, NEW x \in Item
  PROVE  [doc EXCEPT ![s][i] = x] \in Documents
<1>1. doc[s] \in Seq(Item)
  BY DEF Documents
<1>2. [doc[s] EXCEPT ![i] = x] \in Seq(Item)
  <2>1. [doc[s] EXCEPT ![i] = x] = [j \in 1 .. Len(doc[s]) |-> IF j = i THEN x ELSE doc[s][j]]
    BY <1>1
  <2>2. \A j \in 1 .. Len(doc[s]) : (IF j = i THEN x ELSE doc[s][j]) \in Item
    BY <1>1
  <2> DEFINE w == [j \in 1 .. Len(doc[s]) |-> IF j = i THEN x ELSE doc[s][j]]
  <2>3. Len(doc[s]) \in Nat /\ DOMAIN w = 1 .. Len(doc[s]) /\ \A j \in 1 .. Len(doc[s]) : w[j] \in Item
    BY <1>1, <2>2
  <2>4. w = [j \in 1 .. Len(doc[s]) |-> w[j]]
    OBVIOUS
  <2>5. [doc[s] EXCEPT ![i] = x] = w
    BY <2>1
  <2> HIDE DEF w
  <2>6. w \in Seq(Item)
    BY <2>3, <2>4
  <2>7. QED
    BY <2>5, <2>6, Zenon
<1>3. [doc EXCEPT ![s][i] = x] = [doc EXCEPT ![s] = [doc[s] EXCEPT ![i] = x]]
  OBVIOUS
<1>4. QED
  BY <1>2, <1>3, SectionReplaced

LEMMA AddedType ==
  ASSUME NEW doc \in Documents, NEW s \in Section, NEW x \in Item
  PROVE  [doc EXCEPT ![s] = Append(@, x)] \in Documents
<1>1. doc[s] \in Seq(Item)
  BY DEF Documents
<1>2. Append(doc[s], x) \in Seq(Item)
  BY <1>1
<1>3. [doc EXCEPT ![s] = Append(@, x)] = [doc EXCEPT ![s] = Append(doc[s], x)]
  OBVIOUS
<1>4. QED
  BY <1>2, <1>3, SectionReplaced

-----------------------------------------------------------------------------
(* What the tool and the maintenance make of a document *)

LEMMA ToolResultsType ==
  ASSUME NEW doc \in Documents, NEW text \in ToolResults(doc)
  PROVE  text \in Documents /\ Masked(text)
<1>1. Facts \union {Secret} \subseteq Item
  BY DEF Item
<1>2. CASE text \in ToolAdded(doc)
  <2> DEFINE Made(s, x) == Normalized([doc EXCEPT ![s] = Append(@, x)])
             news == {y \in Facts \union {Secret} : \A t \in Section : y \notin Range(doc[t])}
  <2>4. ToolAdded(doc) = UNION {Made(s, x) : s \in Section, x \in news}
    BY DEF ToolAdded
  <2>5. news \subseteq Facts \union {Secret}
    OBVIOUS
  <2> HIDE DEF Made, news
  <2>6. PICK s \in Section, x \in Facts \union {Secret} : text \in Made(s, x)
    BY <1>2, <2>4, <2>5
  <2>1. text \in Normalized([doc EXCEPT ![s] = Append(@, x)])
    BY <2>6 DEF Made
  <2>2. [doc EXCEPT ![s] = Append(@, x)] \in Documents
    BY <1>1, AddedType
  <2>7. QED
    BY <2>1, <2>2, NormalizedType
<1>3. CASE text \in ToolReplaced(doc)
  <2> DEFINE Made(x, e) == Normalized([doc EXCEPT ![e[1]][e[2]] = x])
             At == UNION {EntryAt(doc, s, n) : s \in Section \union {0}, n \in 1 .. MaxItems}
  <2>8. ToolReplaced(doc) = UNION {Made(x, e) : x \in Facts \union {Secret}, e \in At}
    BY DEF ToolReplaced
  <2>9. At \subseteq Entries(doc)
    BY EntryAtType
  <2> HIDE DEF Made, At
  <2>1. PICK x \in Facts \union {Secret}, e \in Entries(doc) : text \in Made(x, e)
    BY <1>3, <2>8, <2>9
  <2>6. text \in Normalized([doc EXCEPT ![e[1]][e[2]] = x])
    BY <2>1 DEF Made
  <2>7. PICK u \in Section : \E i \in DOMAIN doc[u] : e = <<u, i>>
    BY DEF Entries
  <2>2. PICK i \in DOMAIN doc[u] : e = <<u, i>>
    BY <2>7
  <2>3. [doc EXCEPT ![u][i] = x] \in Documents
    BY <1>1, WrittenType
  <2>4. [doc EXCEPT ![e[1]][e[2]] = x] = [doc EXCEPT ![u][i] = x]
    BY <2>2
  <2>10. QED
    BY <2>6, <2>3, <2>4, NormalizedType
<1>4. CASE text \in ToolRemoved(doc)
  <2>1. PICK e \in Entries(doc) : text = Serialize(Without(doc, e))
    <3> DEFINE Made(e) == Serialize(Without(doc, e))
               numbered == UNION {EntryAt(doc, s, n) : s \in Section \union {0}, n \in 1 .. MaxItems}
               named == UNION {EntryOf(doc, x) : x \in Item}
    <3>1. ToolRemoved(doc) = {Made(e) : e \in numbered \union named}
      BY DEF ToolRemoved
    <3>2. numbered \subseteq Entries(doc)
      BY EntryAtType
    <3>5. \A x \in Item : EntryOf(doc, x) \subseteq Entries(doc)
      BY EntryOfType
    <3>6. ASSUME NEW e \in named PROVE e \in Entries(doc)
      <4>1. PICK x \in Item : e \in EntryOf(doc, x)
        OBVIOUS
      <4>2. QED
        BY <3>5, <4>1
    <3> HIDE DEF Made, numbered, named
    <3>3. PICK e \in Entries(doc) : text = Made(e)
      BY <1>4, <3>1, <3>2, <3>6
    <3>4. QED
      BY <3>3 DEF Made
  <2>2. QED
    BY <2>1, WithoutType, SerializeType
<1>5. CASE text \in ToolWritten
  <2> DEFINE Made(s, x) == Normalized([Empty EXCEPT ![s] = <<x>>])
  <2>4. ToolWritten = UNION {Made(s, x) : s \in Section, x \in Facts \union {Secret}}
    BY DEF ToolWritten
  <2> HIDE DEF Made
  <2>5. PICK s \in Section, x \in Facts \union {Secret} : text \in Made(s, x)
    BY <1>5, <2>4
  <2>1. text \in Normalized([Empty EXCEPT ![s] = <<x>>])
    BY <2>5 DEF Made
  <2>2. <<x>> \in Seq(Item)
    BY <1>1
  <2>3. [Empty EXCEPT ![s] = <<x>>] \in Documents
    BY <2>2, EmptyFits, SectionReplaced
  <2>6. QED
    BY <2>1, <2>3, NormalizedType
<1>6. QED
  BY <1>2, <1>3, <1>4, <1>5, EmptyFits DEF ToolResults

LEMMA MaintainedType ==
  ASSUME NEW doc \in Documents, NEW forget, NEW text \in Maintained(doc, forget)
  PROVE  text \in Documents /\ ~HasSecret(text) /\ text # doc
<1> DEFINE found == UNION {{<<s, i>> : i \in FirstOf(doc, s, y)} : s \in Section, y \in Item}
           words == Facts \union {Secret}
           Added(s, x) == [doc EXCEPT ![s] = Append(@, x)]
           Updated(e, x) == [doc EXCEPT ![e[1]][e[2]] = x]
           edited == {Added(s, x) : s \in Section, x \in words}
                     \union {Updated(e, x) : e \in found, x \in words}
                     \union {Without(doc, e) : e \in found}
<1>1. words \subseteq Item
  BY DEF Item
<1>2. text # doc /\ \E d \in edited : text \in Normalized(d)
  <2>1. Patched(doc) = UNION {Normalized(d) : d \in edited}
    BY DEF Patched
  <2>2. text \in Patched(doc) /\ text # doc
    BY DEF Maintained
  <2> HIDE DEF edited
  <2>3. QED
    BY <2>1, <2>2
<1>3. \A e \in found : \E s \in Section : \E i \in DOMAIN doc[s] : e = <<s, i>>
  BY DEF FirstOf
<1>4. found \subseteq Entries(doc)
  BY <1>3 DEF Entries
<1> HIDE DEF found, words
<1>5. ASSUME NEW s \in Section, NEW x \in words PROVE Added(s, x) \in Documents
  BY <1>1, AddedType
<1>6. ASSUME NEW e \in found, NEW x \in words PROVE Updated(e, x) \in Documents
  <2>1. PICK s \in Section : \E i \in DOMAIN doc[s] : e = <<s, i>>
    BY <1>3
  <2>2. PICK i \in DOMAIN doc[s] : e = <<s, i>>
    BY <2>1
  <2>3. x \in Item
    BY <1>1
  <2>4. [doc EXCEPT ![s][i] = x] \in Documents
    BY <2>3, WrittenType
  <2>5. e[1] = s /\ e[2] = i
    BY <2>2
  <2>6. QED
    BY <2>4, <2>5
<1>7. ASSUME NEW e \in found PROVE Without(doc, e) \in Documents
  BY <1>4, WithoutType
<1> HIDE DEF Added, Updated
<1>8. edited \subseteq Documents
  BY <1>5, <1>6, <1>7
<1> HIDE DEF edited
<1>9. QED
  BY <1>2, <1>8, NormalizedType

-----------------------------------------------------------------------------
(* The memory and its history *)

PageStates == [pc : {"closed", "open", "save"}, seen : Documents, stamp : Nat, before : Documents, text : Documents]
ToolStates == [pc : {"idle", "save"}, base : Documents, text : Documents]
TaskStates == [pc : {"none", "start", "read", "think", "save", "record", "done"},
               kind : {"auto", "explicit", "selection"}, base : Documents, text : Documents,
               revision : Nat, started : Nat, result : {"none", "failed", "skipped", "success"}]
RunStates  == [pc : {"none", "setup", "read", "think", "check", "decide", "commit", "end"},
               kind : {"compact", "retry"}, base : Documents, text : Documents, saves : BOOLEAN,
               revision : Nat, started : Nat, stopped : BOOLEAN,
               result : {"completed", "failed", "canceled"},
               decided : {"none", "completed", "failed", "canceled"}]
RowStates  == [status : {"none", "running", "completed", "failed", "canceled"}, updated : BOOLEAN]

MemoryTypeOK ==
  /\ memory \in [content : Documents, stamp : Nat] /\ changes \in Seq(Changes)
  /\ session \in [revision : Nat, enabled : BOOLEAN, deleted : BOOLEAN]
  /\ page \in PageStates /\ tool \in ToolStates
  /\ task \in [Tasks -> TaskStates] /\ drain \in {"no", "draining", "drained"}
  /\ latest \in [starts : Nat, started : Nat, cooling : BOOLEAN]
  /\ run \in RunStates /\ row \in RowStates /\ applied \in Nat

(* A panel that is open is of the past, and of the present if the stamps     *)
(* agree; a request that asked for that replaces what the page showed.       *)
PageFits ==
  /\ page.pc = "open" => page.stamp <= memory.stamp
  /\ page.pc = "open" /\ page.stamp = memory.stamp => memory.content = page.seen
  /\ page.pc = "save" /\ page.stamp # 0 => page.before = page.seen

(* What writers are about to save holds no credential, or a tool's and a     *)
(* page's text may, in a section in which the transaction refuses it.        *)
TextsFit ==
  /\ Masked(page.text) /\ Masked(tool.text)
  /\ \A t \in Tasks : ~HasSecret(task[t].text)
  /\ ~HasSecret(run.text)

(* A run that has something to save changes the card, and has not failed.    *)
RunFits ==
  /\ run.saves => run.pc \in {"check", "decide", "commit"} /\ run.result = "completed" /\ run.text # run.base
  /\ run.pc \in {"setup", "read", "think"} => run.result = "completed"
  /\ run.pc = "commit" => run.decided # "none" /\ (run.saves => run.decided # "failed")
  /\ row.status = "running" => applied = 0

MemoryInv ==
  /\ MemoryTypeOK /\ ChangesTellTheMemory
  /\ PageFits /\ TextsFit /\ RunFits /\ MaintenanceIsAccounted

(* What any step makes of the card and of its history.                       *)
MemoryMoves ==
  /\ memory' \in [content : Documents, stamp : Nat] /\ changes' \in Seq(Changes)
  /\ ChangesTellTheMemory'
  /\ memory'.stamp >= memory.stamp
  /\ memory'.content # memory.content => memory'.stamp > memory.stamp /\ ~HasSecret(memory'.content)

LEMMA MemoryStarts == Init => MemoryInv
<1>1. SUFFICES ASSUME Init PROVE MemoryInv
  OBVIOUS
<1>2. PICK i \in InitialStates :
         /\ memory = [content |-> i.content, stamp |-> IF i.content = Empty THEN 0 ELSE 1]
         /\ changes = i.changes
  BY <1>1 DEF Init
<1>3. i.content \in Documents /\ i.changes \in Seq(Changes) /\ Tells(i.changes, i.content)
  BY InitialStatesAssumption
<1>4. /\ page = NoPage /\ tool = NoTool /\ task = [t \in Tasks |-> NoTask] /\ run = NoRun /\ row = NoRow
      /\ applied = 0 /\ drain = "no"
      /\ session = [revision |-> 0, enabled |-> TRUE, deleted |-> FALSE]
      /\ latest = [starts |-> 0, started |-> 0, cooling |-> FALSE]
  BY <1>1 DEF Init
<1>5. MemoryTypeOK
  <2>1. memory \in [content : Documents, stamp : Nat] /\ changes \in Seq(Changes)
    BY <1>2, <1>3
  <2>2. page \in PageStates /\ tool \in ToolStates /\ run \in RunStates /\ row \in RowStates
    BY <1>4, EmptyFits DEF NoPage, NoTool, NoRun, NoRow, PageStates, ToolStates, RunStates, RowStates
  <2>3. task \in [Tasks -> TaskStates]
    BY <1>4, EmptyFits DEF NoTask, TaskStates
  <2>4. QED
    BY <1>4, <2>1, <2>2, <2>3 DEF MemoryTypeOK
<1>6. ChangesTellTheMemory
  BY <1>2, <1>3 DEF ChangesTellTheMemory
<1>7. PageFits /\ RunFits /\ MaintenanceIsAccounted
  BY <1>4 DEF PageFits, RunFits, MaintenanceIsAccounted, RunRecordsItsChange, NothingAfterDrain,
              NoPage, NoRun, NoRow
<1>8. TextsFit
  BY <1>4, EmptyFits DEF TextsFit, NoPage, NoTool, NoTask, NoRun
<1>9. QED
  BY <1>5, <1>6, <1>7, <1>8 DEF MemoryInv

(* A change that begins where the history ends is told by it, however much   *)
(* of the past is forgotten.                                                 *)
LEMMA HistoryGoesOn ==
  ASSUME NEW log \in Seq(Changes), NEW doc, Tells(log, doc), NEW c \in Changes, NEW k \in 1 .. Len(log) + 1,
         Redact(c.before) = Redact(doc)
  PROVE  /\ SubSeq(Append(log, c), k, Len(log) + 1) \in Seq(Changes)
         /\ Tells(SubSeq(Append(log, c), k, Len(log) + 1), c.after)
<1> DEFINE n == Len(log)
           all == Append(log, c)
           kept == SubSeq(all, k, n + 1)
           m == (n + 1) - k + 1
<1>1. n \in Nat /\ k \in Nat /\ m \in Nat /\ m >= 1 /\ k <= n + 1
  OBVIOUS
<1>2. /\ all \in Seq(Changes) /\ Len(all) = n + 1 /\ all[n + 1] = c
      /\ \A i \in 1 .. n : all[i] = log[i]
  OBVIOUS
<1> HIDE DEF n, all
<1>3. \A i \in k .. n + 1 : all[i] \in Changes
  BY <1>1, <1>2
<1>4. kept \in Seq(Changes) /\ Len(kept) = m /\ \A i \in 1 .. m : kept[i] = all[k + i - 1]
  BY <1>1, <1>3, SubSeqProperties
<1>5. ASSUME NEW i \in 1 .. n PROVE Redact(all[i].after) = Redact(all[i + 1].before)
  <2>1. CASE i = n
    <3>1. log # <<>> /\ Redact(log[n].after) = Redact(doc)
      BY <1>1, <2>1 DEF Tells, n
    <3>2. all[i] = log[n] /\ all[i + 1] = c
      BY <1>1, <1>2, <2>1
    <3>3. QED
      BY <3>1, <3>2
  <2>2. CASE i # n
    <3>1. i \in 1 .. n - 1 /\ i + 1 \in 1 .. n
      BY <1>1, <2>2
    <3>2. QED
      BY <1>2, <3>1 DEF Tells, n
  <2>3. QED
    BY <2>1, <2>2
<1> HIDE DEF kept
<1>6. ASSUME NEW i \in 1 .. m - 1 PROVE Redact(kept[i].after) = Redact(kept[i + 1].before)
  <2>1. i \in 1 .. m /\ i + 1 \in 1 .. m /\ k + i - 1 \in 1 .. n /\ k + (i + 1) - 1 = (k + i - 1) + 1
    BY <1>1
  <2>2. kept[i] = all[k + i - 1] /\ kept[i + 1] = all[(k + i - 1) + 1]
    BY <1>4, <2>1
  <2>3. QED
    BY <1>5, <2>1, <2>2
<1>7. kept[m] = c
  <2>1. m \in 1 .. m /\ k + m - 1 = n + 1
    BY <1>1
  <2>2. QED
    BY <1>2, <1>4, <2>1
<1> HIDE DEF m
<1>8. Tells(kept, c.after)
  BY <1>4, <1>6, <1>7 DEF Tells
<1>9. QED
  BY <1>4, <1>8 DEF kept, all, n

(* How much of a history is kept.                                            *)
LEMMA KeptFrom ==
  ASSUME NEW n \in Nat
  PROVE  (IF n + 1 > MaxChangeList THEN (n + 1) - MaxChangeList + 1 ELSE 1) \in 1 .. n + 1
BY SizesAssumption

LEMMA SavedMoves ==
  ASSUME MemoryInv, NEW text \in Documents, ~HasSecret(text),
         NEW source \in {"manual", "tool", "auto", "compact"}, Saved(source, text)
  PROVE  MemoryMoves
<1>1. memory \in [content : Documents, stamp : Nat] /\ changes \in Seq(Changes) /\ Tells(changes, memory.content)
  BY DEF MemoryInv, MemoryTypeOK, ChangesTellTheMemory
<1>2. CASE memory.content = text
  <2>1. /\ memory' = [memory EXCEPT !.stamp = IF @ = 0 THEN 1 ELSE @]
        /\ changes' = changes
    BY <1>2 DEF Saved
  <2>2. memory'.content = memory.content /\ memory' \in [content : Documents, stamp : Nat] /\ memory'.stamp >= memory.stamp
    BY <1>1, <2>1
  <2>3. QED
    BY <1>1, <2>1, <2>2 DEF MemoryMoves, ChangesTellTheMemory
<1>3. CASE memory.content # text
  <2> DEFINE c == [source |-> source, before |-> Redact(memory.content), after |-> Redact(text), undone |-> FALSE]
             n == Len(changes)
             k == IF n + 1 > MaxChangeList THEN (n + 1) - MaxChangeList + 1 ELSE 1
  <2>1. memory' = [content |-> text, stamp |-> memory.stamp + 1]
    BY <1>3 DEF Saved, Upserted
  <2>2. changes' = SubSeq(Append(changes, c), k, n + 1)
    <3>1. changes' = Recorded(source, memory.content, text)
      BY <1>3 DEF Saved
    <3>2. Len(Append(changes, c)) = n + 1
      BY <1>1
    <3> DEFINE all == Append(changes, c)
    <3>3. Recorded(source, memory.content, text)
            = SubSeq(all, IF Len(all) > MaxChangeList THEN Len(all) - MaxChangeList + 1 ELSE 1, Len(all))
      BY DEF Recorded
    <3> HIDE DEF all, n
    <3>4. QED
      BY <3>1, <3>2, <3>3 DEF all
  <2>3. n \in Nat /\ k \in 1 .. n + 1
    <3>1. n \in Nat
      BY <1>1
    <3> HIDE DEF n
    <3>2. QED
      BY <3>1, KeptFrom
  <2>4. c \in Changes /\ Redact(c.before) = Redact(memory.content) /\ c.after = text
    <3>1. Redact(text) = text /\ Redact(memory.content) \in Documents
      BY <1>1, RedactClean, RedactType
    <3>2. QED
      BY <3>1, RedactTwice DEF Changes
  <2> HIDE DEF c, k
  <2>5. changes' \in Seq(Changes) /\ Tells(changes', text)
    BY <1>1, <2>2, <2>3, <2>4, HistoryGoesOn
  <2>6. QED
    BY <1>1, <2>1, <2>5 DEF MemoryMoves, ChangesTellTheMemory
<1>4. QED
  BY <1>2, <1>3

LEMMA UndoMoves ==
  ASSUME MemoryInv, Undo
  PROVE  MemoryMoves
<1>1. memory \in [content : Documents, stamp : Nat] /\ changes \in Seq(Changes) /\ Tells(changes, memory.content)
  BY DEF MemoryInv, MemoryTypeOK, ChangesTellTheMemory
<1>2. PICK i \in DOMAIN changes : memory' = Upserted(Restored(i)) /\ changes' = UndoneChanges(i)
  BY DEF Undo
<1> DEFINE text == Restored(i)
           marked == [changes EXCEPT ![i].undone = TRUE]
           n == Len(changes)
           c == [source |-> "undo", before |-> Redact(memory.content), after |-> Redact(text), undone |-> FALSE]
           k == IF n + 1 > MaxChangeList THEN (n + 1) - MaxChangeList + 1 ELSE 1
<1>3. changes[i] \in Changes /\ n \in Nat /\ DOMAIN changes = 1 .. n
  BY <1>1
<1>4. text \in Documents /\ ~HasSecret(text) /\ Redact(text) = text
  <2>1. changes[i].before \in Documents
    BY <1>3 DEF Changes
  <2>2. QED
    BY <2>1, RedactType, RedactTwice DEF Restored
<1>5. /\ marked \in Seq(Changes) /\ Len(marked) = n
      /\ \A j \in 1 .. n : marked[j].before = changes[j].before /\ marked[j].after = changes[j].after
  <2> DEFINE done == [changes[i] EXCEPT !.undone = TRUE]
  <2>1. done \in Changes /\ done.before = changes[i].before /\ done.after = changes[i].after
    BY <1>3 DEF Changes
  <2>2. marked = [changes EXCEPT ![i] = done]
    OBVIOUS
  <2> HIDE DEF done, marked
  <2>3. marked \in Seq(Changes) /\ Len(marked) = n /\ marked[i] = done /\ \A j \in (1 .. n) \ {i} : marked[j] = changes[j]
    BY <1>1, <1>3, <2>1, <2>2
  <2>4. QED
    BY <2>1, <2>3
<1> HIDE DEF marked
<1>6. Tells(marked, memory.content)
  <2>1. changes # <<>> /\ n \in 1 .. n
    BY <1>1, <1>3
  <2>2. \A j \in 1 .. n - 1 : j \in 1 .. n /\ j + 1 \in 1 .. n
    BY <1>3
  <2> HIDE DEF text
  <2>3. QED
    BY <1>1, <1>5, <2>1, <2>2 DEF Tells
<1>7. c \in Changes /\ Redact(c.before) = Redact(memory.content) /\ c.after = text
  <2>1. Redact(memory.content) \in Documents
    BY <1>1, RedactType
  <2>2. QED
    BY <1>4, <2>1, RedactTwice DEF Changes
<1>8. changes' = SubSeq(Append(marked, c), k, n + 1)
  <2> DEFINE all == Append(marked, c)
  <2>1. Len(all) = n + 1
    BY <1>5
  <2>2. changes' = SubSeq(all, IF Len(all) > MaxChangeList THEN Len(all) - MaxChangeList + 1 ELSE 1, Len(all))
    BY <1>2 DEF UndoneChanges, marked
  <2> HIDE DEF all, n
  <2>3. QED
    BY <2>1, <2>2 DEF all
<1>9. k \in 1 .. n + 1
  <2> HIDE DEF n
  <2>1. QED
    BY <1>3, KeptFrom
<1>10. memory' = [content |-> text, stamp |-> memory.stamp + 1]
  BY <1>2 DEF Upserted
<1> HIDE DEF c, k, text, n
<1>11. changes' \in Seq(Changes) /\ Tells(changes', text)
  <2>1. Len(marked) = n
    BY <1>5
  <2>2. QED
    BY <1>5, <1>6, <1>7, <1>8, <1>9, <2>1, HistoryGoesOn
<1>12. QED
  BY <1>1, <1>4, <1>10, <1>11 DEF MemoryMoves, ChangesTellTheMemory

(* What a transaction of a writer saves holds no credential.                 *)
LEMMA SavesClean ==
  ASSUME NEW text \in Documents, Masked(text), NEW base, NEW expected, MaySave(base, text, expected)
  PROVE  ~HasSecret(text)
<1>1. Normalized(text) # {}
  BY DEF MaySave
<1>2. ~RejectSensitiveValues(text)
  BY <1>1 DEF Normalized
<1>3. QED
  BY <1>2 DEF RejectSensitiveValues, HasSecret, Masked

(* Who writes what.                                                          *)
LEMMA WhoWrites ==
  ASSUME [Next]_vars
  PROVE  /\ \/ PageSave \/ Undo \/ ToolSave \/ (\E t \in Tasks : TaskSave(t)) \/ RunCommit
            \/ UNCHANGED <<memory, changes>>
         /\ \/ PageLoad \/ PageSubmit \/ PageSave \/ Restart \/ UNCHANGED page
         /\ \/ ToolEdit \/ ToolSave \/ Restart \/ UNCHANGED tool
         /\ \/ \E t \in Tasks : TaskBegin(t) \/ Background(t)
            \/ BeginDrain \/ Drained \/ Restart \/ UNCHANGED <<task, drain>>
         /\ \/ RunAdmit \/ RunSetup \/ RunRead \/ RunThink \/ RunCheck \/ RunDecide
            \/ RunCommit \/ RunRefused \/ RunSettled \/ RunEnd \/ Stop \/ DeleteSession \/ Restart
            \/ UNCHANGED <<run, row, applied>>
         /\ \/ PageSave \/ ToggleMemory \/ SelectAnswer \/ DeleteSession \/ UNCHANGED session
         /\ \/ (\E t \in Tasks : TaskStart(t) \/ TaskRecord(t)) \/ CooldownEnds \/ RunSetup \/ RunCommit
            \/ UNCHANGED latest
<1>1. CASE PageLoad
  BY <1>1 DEF PageLoad
<1>2. CASE PageSubmit
  BY <1>2 DEF PageSubmit
<1>3. CASE PageSave
  BY <1>3 DEF PageSave
<1>4. CASE Undo
  BY <1>4 DEF Undo
<1>5. CASE ToggleMemory
  BY <1>5 DEF ToggleMemory
<1>6. CASE ToolEdit
  BY <1>6 DEF ToolEdit
<1>7. CASE ToolSave
  BY <1>7 DEF ToolSave
<1>8. ASSUME NEW t \in Tasks, TaskBegin(t) PROVE UNCHANGED <<memory, changes, session, page, tool, latest, run, row, applied>>
  BY <1>8 DEF TaskBegin
<1>9. ASSUME NEW t \in Tasks, Background(t), ~TaskSave(t)
      PROVE  /\ UNCHANGED <<memory, changes, session, page, tool, run, row, applied>>
             /\ TaskStart(t) \/ TaskRecord(t) \/ UNCHANGED latest
  BY <1>9 DEF Background, TaskStart, TaskRead, TaskThink, TaskRecord, TaskEnd
<1>10. ASSUME NEW t \in Tasks, TaskSave(t) PROVE UNCHANGED <<session, page, tool, latest, run, row, applied>>
  BY <1>10 DEF TaskSave
<1>11. CASE CooldownEnds
  BY <1>11 DEF CooldownEnds
<1>12. CASE BeginDrain
  BY <1>12 DEF BeginDrain
<1>13. CASE Drained
  BY <1>13 DEF Drained
<1>14. CASE RunAdmit
  BY <1>14 DEF RunAdmit
<1>15. CASE RunSetup
  BY <1>15 DEF RunSetup
<1>16. CASE RunRead
  BY <1>16 DEF RunRead
<1>17. CASE RunThink
  BY <1>17 DEF RunThink
<1>18. CASE RunCheck
  BY <1>18 DEF RunCheck
<1>19. CASE RunDecide
  BY <1>19 DEF RunDecide
<1>20. CASE RunCommit
  BY <1>20 DEF RunCommit
<1>21. CASE RunRefused
  BY <1>21 DEF RunRefused
<1>22. CASE RunSettled
  BY <1>22 DEF RunSettled
<1>23. CASE RunEnd
  BY <1>23 DEF RunEnd
<1>24. CASE Stop
  BY <1>24 DEF Stop
<1>25. CASE SelectAnswer
  BY <1>25 DEF SelectAnswer
<1>26. CASE DeleteSession
  BY <1>26 DEF DeleteSession
<1>27. CASE Restart
  BY <1>27 DEF Restart
<1>28. CASE UNCHANGED vars
  BY <1>28 DEF vars
<1>29. CASE \E t \in Tasks : TaskBegin(t) \/ Background(t)
  <2>1. PICK t \in Tasks : TaskBegin(t) \/ Background(t)
    BY <1>29
  <2>2. QED
    BY <1>8, <1>9, <1>10, <2>1
<1>30. QED
  BY <1>1, <1>2, <1>3, <1>4, <1>5, <1>6, <1>7, <1>11, <1>12, <1>13, <1>14, <1>15, <1>16, <1>17, <1>18, <1>19,
     <1>20, <1>21, <1>22, <1>23, <1>24, <1>25, <1>26, <1>27, <1>28, <1>29 DEF Next

LEMMA MemoryAlwaysMoves ==
  ASSUME MemoryInv, [Next]_vars
  PROVE  MemoryMoves
<1>1. page.text \in Documents /\ Masked(page.text) /\ tool.text \in Documents /\ Masked(tool.text)
  BY DEF MemoryInv, MemoryTypeOK, PageStates, ToolStates, TextsFit
<1>2. \A t \in Tasks : task[t].text \in Documents /\ ~HasSecret(task[t].text)
  BY DEF MemoryInv, MemoryTypeOK, TaskStates, TextsFit
<1>3. run.text \in Documents /\ ~HasSecret(run.text)
  BY DEF MemoryInv, MemoryTypeOK, RunStates, TextsFit
<1>4. CASE UNCHANGED <<memory, changes>>
  BY <1>4 DEF MemoryInv, MemoryTypeOK, MemoryMoves, ChangesTellTheMemory
<1>5. CASE PageSave
  <2>1. UNCHANGED <<memory, changes>> \/ (MaySave(page.before, page.text, 0) /\ Saved("manual", page.text))
    BY <1>5 DEF PageSave
  <2>2. ASSUME MaySave(page.before, page.text, 0) PROVE ~HasSecret(page.text)
    BY <1>1, <2>2, SavesClean
  <2>3. QED
    BY <1>1, <1>4, <2>1, <2>2, SavedMoves
<1>6. CASE Undo
  BY <1>6, UndoMoves
<1>7. CASE ToolSave
  <2>1. UNCHANGED <<memory, changes>> \/ (MaySave(tool.base, tool.text, 0) /\ Saved("tool", tool.text))
    BY <1>7 DEF ToolSave
  <2>2. ASSUME MaySave(tool.base, tool.text, 0) PROVE ~HasSecret(tool.text)
    BY <1>1, <2>2, SavesClean
  <2>3. QED
    BY <1>1, <1>4, <2>1, <2>2, SavedMoves
<1>8. ASSUME NEW t \in Tasks, TaskSave(t) PROVE MemoryMoves
  <2>1. UNCHANGED <<memory, changes>> \/ Saved("auto", task[t].text)
    BY <1>8 DEF TaskSave
  <2>2. QED
    BY <1>2, <1>4, <2>1, SavedMoves
<1>9. CASE RunCommit
  <2>1. UNCHANGED <<memory, changes>> \/ Saved(IF run.kind = "compact" THEN "compact" ELSE "manual", run.text)
    BY <1>9 DEF RunCommit, CommitRow
  <2>2. QED
    BY <1>3, <1>4, <2>1, SavedMoves
<1>10. QED
  BY <1>4, <1>5, <1>6, <1>7, <1>8, <1>9, WhoWrites

(* The panel.                                                                *)
LEMMA PageGoesOn ==
  ASSUME MemoryInv, [Next]_vars, MemoryMoves
  PROVE  /\ page' \in PageStates /\ Masked(page'.text)
         /\ PageFits'
         /\ page.pc = "save" /\ page.stamp # 0 /\ memory'.content # memory.content /\ page'.pc = "closed"
              => memory.content = page.seen
<1>1. page \in PageStates /\ Masked(page.text) /\ PageFits /\ memory \in [content : Documents, stamp : Nat]
  BY DEF MemoryInv, MemoryTypeOK, TextsFit
<1>2. /\ memory' \in [content : Documents, stamp : Nat] /\ memory'.stamp >= memory.stamp
      /\ memory'.content # memory.content => memory'.stamp > memory.stamp
  BY DEF MemoryMoves
<1>3. NoPage \in PageStates /\ Masked(NoPage.text) /\ NoPage.pc = "closed"
  BY EmptyFits DEF NoPage, PageStates
<1>4. CASE PageLoad
  <2>1. /\ page' = [NoPage EXCEPT !.pc = "open", !.seen = memory.content, !.stamp = memory.stamp]
        /\ memory' = memory /\ page.pc = "closed"
    BY <1>4 DEF PageLoad
  <2>2. page' \in PageStates /\ page'.pc = "open" /\ page'.seen = memory.content /\ page'.stamp = memory.stamp
        /\ page'.text = NoPage.text
    BY <1>1, <1>3, <2>1 DEF PageStates
  <2>3. QED
    BY <1>1, <1>3, <2>1, <2>2 DEF PageFits
<1>5. CASE PageSubmit
  <2>1. /\ memory' = memory /\ page.pc = "open"
        /\ \E text \in ToolResults(page.seen) :
             IF Unchanged(page.stamp)
             THEN page' = [page EXCEPT !.pc = "save", !.before = memory.content, !.text = text]
             ELSE page' = NoPage
    BY <1>5 DEF PageSubmit
  <2>2. page.seen \in Documents
    BY <1>1 DEF PageStates
  <2>3. CASE page' = NoPage
    BY <1>3, <2>1, <2>3 DEF PageFits
  <2>4. ASSUME NEW text \in ToolResults(page.seen), Unchanged(page.stamp),
               page' = [page EXCEPT !.pc = "save", !.before = memory.content, !.text = text]
        PROVE  page' \in PageStates /\ Masked(page'.text) /\ PageFits'
    <3>1. text \in Documents /\ Masked(text)
      BY <2>2, <2>4, ToolResultsType
    <3>2. /\ page' \in PageStates /\ page'.pc = "save" /\ page'.before = memory.content /\ page'.text = text
          /\ page'.stamp = page.stamp /\ page'.seen = page.seen
      BY <1>1, <2>4, <3>1 DEF PageStates
    <3>3. page.stamp # 0 => memory.content = page.seen
      BY <1>1, <2>1, <2>4 DEF Unchanged, PageFits
    <3>4. QED
      BY <3>1, <3>2, <3>3 DEF PageFits
  <2>5. QED
    BY <2>1, <2>3, <2>4
<1>6. CASE PageSave
  <2>1. page' = NoPage /\ page.pc = "save"
    BY <1>6 DEF PageSave
  <2>2. memory'.content # memory.content => memory.content = page.before
    BY <1>6 DEF PageSave, MaySave
  <2>3. QED
    BY <1>1, <1>3, <2>1, <2>2 DEF PageFits
<1>7. CASE Restart
  <2>1. page' = NoPage \/ (page' = page /\ page.pc # "save")
    BY <1>7 DEF Restart
  <2>2. memory' = memory
    BY <1>7 DEF Restart
  <2>3. QED
    BY <1>1, <1>3, <2>1, <2>2 DEF PageFits
<1>8. CASE UNCHANGED page
  <2>1. page' = page
    BY <1>8
  <2>2. page.stamp \in Nat /\ memory.stamp \in Nat /\ memory'.stamp \in Nat
    BY <1>1, <1>2 DEF PageStates
  <2>3. QED
    BY <1>1, <1>2, <2>1, <2>2 DEF PageFits
<1>9. QED
  BY <1>4, <1>5, <1>6, <1>7, <1>8, WhoWrites

(* The tool.                                                                 *)
LEMMA ToolGoesOn ==
  ASSUME MemoryInv, [Next]_vars
  PROVE  tool' \in ToolStates /\ Masked(tool'.text)
<1>1. tool \in ToolStates /\ Masked(tool.text) /\ memory.content \in Documents
  BY DEF MemoryInv, MemoryTypeOK, TextsFit
<1>2. NoTool \in ToolStates /\ Masked(NoTool.text)
  BY EmptyFits DEF NoTool, ToolStates
<1>3. CASE ToolEdit
  <2>1. PICK text \in ToolResults(memory.content) : tool' = [pc |-> "save", base |-> memory.content, text |-> text]
    BY <1>3 DEF ToolEdit
  <2>2. text \in Documents /\ Masked(text)
    BY <1>1, ToolResultsType
  <2>3. QED
    BY <1>1, <2>1, <2>2 DEF ToolStates
<1>4. CASE ToolSave \/ Restart
  BY <1>2, <1>4 DEF ToolSave, Restart
<1>5. QED
  BY <1>1, <1>3, <1>4, WhoWrites

(* The background tasks and the drain.                                       *)
TasksFit ==
  /\ task \in [Tasks -> TaskStates] /\ drain \in {"no", "draining", "drained"}
  /\ \A t \in Tasks : ~HasSecret(task[t].text)
  /\ NothingAfterDrain

\* One task becomes another state, and only a drain that has not begun lets it begin.
TaskBecomes(t, next) ==
  /\ next \in TaskStates /\ ~HasSecret(next.text) /\ task' = [task EXCEPT ![t] = next]
  /\ Active(t) \/ drain = "no"
  /\ drain' = drain

LEMMA TaskBecomesFits ==
  ASSUME TasksFit, NEW t \in Tasks, NEW next, TaskBecomes(t, next)
  PROVE  TasksFit'
<1>1. /\ task' \in [Tasks -> TaskStates] /\ task'[t] = next /\ \A u \in Tasks \ {t} : task'[u] = task[u]
      /\ drain' = drain
  BY DEF TasksFit, TaskBecomes
<1>2. drain # "drained"
  BY DEF TasksFit, TaskBecomes, NothingAfterDrain
<1>3. QED
  BY <1>1, <1>2 DEF TasksFit, TaskBecomes, NothingAfterDrain

LEMMA AttemptedBecomes ==
  ASSUME TasksFit, NEW t \in Tasks, NEW result \in {"failed", "skipped", "success"}, Active(t),
         Attempted(t, result), drain' = drain
  PROVE  \E next : TaskBecomes(t, next)
<1> DEFINE next == [task[t] EXCEPT !.pc = "record", !.result = result, !.base = Empty, !.text = Empty]
<1>1. task[t] \in TaskStates
  BY DEF TasksFit
<1>2. next \in TaskStates /\ next.text = Empty
  BY <1>1, EmptyFits DEF TaskStates
<1>3. task' = [task EXCEPT ![t] = next]
  BY DEF Attempted
<1> HIDE DEF next
<1>4. TaskBecomes(t, next)
  BY <1>2, <1>3, EmptyFits DEF TaskBecomes
<1>5. QED
  BY <1>4

LEMMA TasksGoOn ==
  ASSUME MemoryInv, [Next]_vars
  PROVE  TasksFit'
<1>1. TasksFit
  BY DEF MemoryInv, MemoryTypeOK, TextsFit, TasksFit, MaintenanceIsAccounted
<1>2. memory.content \in Documents /\ session.revision \in Nat /\ latest.starts \in Nat
  BY DEF MemoryInv, MemoryTypeOK
<1>3. NoTask \in TaskStates /\ ~HasSecret(NoTask.text) /\ NoTask.pc = "none"
  BY EmptyFits DEF NoTask, TaskStates
<1>4. ASSUME NEW t \in Tasks, TaskBegin(t) \/ Background(t)
      PROVE  \E next : TaskBecomes(t, next)
  <2> DEFINE w == task[t]
  <2>1. w \in TaskStates /\ ~HasSecret(w.text)
    BY <1>1, SMTT(30) DEF TasksFit
  <2>2. drain' = drain
    BY <1>4 DEF TaskBegin, Background, TaskStart, TaskRead, TaskThink, TaskSave, TaskRecord, TaskEnd
  <2>3. CASE TaskBegin(t)
    <3>6. PICK expected \in Nat : expected = session.revision + 1
      BY <1>2
    <3>1. PICK kind \in {"auto", "explicit", "selection"} :
            task' = [task EXCEPT ![t] = [NoTask EXCEPT !.pc = "start", !.kind = kind, !.revision = expected]]
      BY <2>3, <3>6 DEF TaskBegin, TriggerKinds, Selected
    <3> DEFINE next == [NoTask EXCEPT !.pc = "start", !.kind = kind, !.revision = expected]
    <3>2. next \in TaskStates /\ next.text = NoTask.text
      BY <1>3 DEF TaskStates
    <3>3. task' = [task EXCEPT ![t] = next] /\ drain = "no"
      BY <2>3, <3>1 DEF TaskBegin, MayStart
    <3> HIDE DEF next
    <3>4. TaskBecomes(t, next)
      BY <1>3, <2>2, <3>2, <3>3 DEF TaskBecomes
    <3>5. QED
      BY <3>4
  <2>4. CASE TaskStart(t)
    <3>1. PICK next \in {[w EXCEPT !.pc = "done"], [w EXCEPT !.pc = "read", !.started = latest.starts + 1]} :
            task' = [task EXCEPT ![t] = next]
      BY <2>4 DEF TaskStart
    <3>5. latest.starts + 1 \in Nat
      BY <1>2
    <3>2. next \in TaskStates /\ next.text = w.text
      <4>1. CASE next = [w EXCEPT !.pc = "done"]
        BY <2>1, <4>1 DEF TaskStates
      <4>2. CASE next = [w EXCEPT !.pc = "read", !.started = latest.starts + 1]
        BY <2>1, <3>5, <4>2 DEF TaskStates
      <4>3. QED
        BY <3>1, <4>1, <4>2
    <3>3. Active(t)
      BY <2>4 DEF TaskStart, Active
    <3>4. TaskBecomes(t, next)
      BY <2>1, <2>2, <3>1, <3>2, <3>3 DEF TaskBecomes
    <3>6. QED
      BY <3>4
  <2>5. CASE TaskRead(t)
    <3>1. Active(t)
      BY <2>5 DEF TaskRead, Active
    <3>2. CASE Attempted(t, "failed")
      BY <1>1, <2>2, <3>1, <3>2, AttemptedBecomes
    <3>3. CASE ~Attempted(t, "failed")
      <4> DEFINE next == [w EXCEPT !.pc = "think", !.base = memory.content]
      <4>1. task' = [task EXCEPT ![t] = next]
        BY <2>5, <3>3 DEF TaskRead
      <4>2. next \in TaskStates /\ next.text = w.text
        BY <1>2, <2>1 DEF TaskStates
      <4> HIDE DEF next
      <4>3. TaskBecomes(t, next)
        BY <2>1, <2>2, <3>1, <4>1, <4>2 DEF TaskBecomes
      <4>4. QED
        BY <4>3
    <3>4. QED
      BY <3>2, <3>3
  <2>6. CASE TaskThink(t)
    <3>1. Active(t)
      BY <2>6 DEF TaskThink, Active
    <3>2. CASE \E result \in WithoutPatch : Attempted(t, result)
      BY <1>1, <2>2, <3>1, <3>2, AttemptedBecomes DEF WithoutPatch
    <3>3. ASSUME NEW forget \in BOOLEAN, NEW text \in Maintained(Redact(w.base), forget),
                 task' = [task EXCEPT ![t].pc = "save", ![t].text = text]
          PROVE  \E next : TaskBecomes(t, next)
      <4> DEFINE next == [w EXCEPT !.pc = "save", !.text = text]
      <4>1. text \in Documents /\ ~HasSecret(text)
        <5>1. w.base \in Documents
          BY <2>1 DEF TaskStates
        <5>2. QED
          BY <3>3, <5>1, RedactType, MaintainedType
      <4>2. next \in TaskStates /\ next.text = text
        BY <2>1, <4>1 DEF TaskStates
      <4>3. task' = [task EXCEPT ![t] = next]
        BY <1>1, <3>3 DEF TasksFit
      <4> HIDE DEF next
      <4>4. TaskBecomes(t, next)
        BY <2>2, <3>1, <4>1, <4>2, <4>3 DEF TaskBecomes
      <4>5. QED
        BY <4>4
    <3>4. QED
      BY <2>6, <3>2, <3>3 DEF TaskThink
  <2>7. CASE TaskSave(t)
    <3>1. Active(t)
      BY <2>7 DEF TaskSave, Active
    <3>2. PICK result \in {"failed", "skipped", "success"} : Attempted(t, result)
      BY <2>7 DEF TaskSave
    <3>3. QED
      BY <1>1, <2>2, <3>1, <3>2, AttemptedBecomes
  <2>8. CASE TaskRecord(t)
    <3> DEFINE next == [w EXCEPT !.pc = "done"]
    <3>1. task' = [task EXCEPT ![t] = next] /\ Active(t)
      BY <2>8 DEF TaskRecord, Active
    <3>2. next \in TaskStates /\ next.text = w.text
      BY <2>1 DEF TaskStates
    <3> HIDE DEF next
    <3>3. TaskBecomes(t, next)
      BY <2>1, <2>2, <3>1, <3>2 DEF TaskBecomes
    <3>4. QED
      BY <3>3
  <2>9. CASE TaskEnd(t)
    <3>1. TaskBecomes(t, NoTask)
      BY <1>3, <2>2, <2>9 DEF TaskBecomes, TaskEnd, Active
    <3>2. QED
      BY <3>1
  <2>10. QED
    BY <1>4, <2>3, <2>4, <2>5, <2>6, <2>7, <2>8, <2>9 DEF Background
<1>5. CASE \E t \in Tasks : TaskBegin(t) \/ Background(t)
  BY <1>1, <1>4, <1>5, TaskBecomesFits
<1>6. CASE BeginDrain \/ Drained
  BY <1>1, <1>6 DEF BeginDrain, Drained, TasksFit, NothingAfterDrain, Active
<1>7. CASE Restart
  <2>1. task' = [t \in Tasks |-> NoTask] /\ drain' = "no"
    BY <1>7 DEF Restart
  <2>2. QED
    BY <1>3, <2>1 DEF TasksFit, NothingAfterDrain
<1>8. CASE UNCHANGED <<task, drain>>
  BY <1>1, <1>8 DEF TasksFit, NothingAfterDrain, Active
<1>9. QED
  BY <1>5, <1>6, <1>7, <1>8, WhoWrites

(* The maintenance run and its row.                                          *)
RunsFit ==
  /\ run \in RunStates /\ ~HasSecret(run.text) /\ row \in RowStates /\ applied \in Nat
  /\ RunFits /\ RunRecordsItsChange

\* The run goes on, or ends, beside its row.
RunBecomes(next) ==
  /\ run' = next /\ next \in RunStates /\ ~HasSecret(next.text)
  /\ next.saves => next.pc \in {"check", "decide", "commit"} /\ next.result = "completed" /\ next.text # next.base
  /\ next.pc \in {"setup", "read", "think"} => next.result = "completed"
  /\ next.pc = "commit" => next.decided # "none" /\ (next.saves => next.decided # "failed")

LEMMA RunBecomesFits ==
  ASSUME RunsFit, NEW next, RunBecomes(next),
         \/ row' = row /\ applied' = applied
         \/ row' = [row EXCEPT !.status = "canceled"] /\ applied' = applied
         \/ row.status = "running" /\ row' = [row EXCEPT !.status = "failed"] /\ applied' = applied
         \/ row' = [NoRow EXCEPT !.status = "running"] /\ applied' = 0
  PROVE  RunsFit'
<1>1. row \in RowStates /\ applied \in Nat /\ RunRecordsItsChange /\ (row.status = "running" => applied = 0)
  BY DEF RunsFit, RunFits
<1>2. /\ row' \in RowStates /\ applied' \in Nat /\ RunRecordsItsChange' /\ (row'.status = "running" => applied' = 0)
  <2>1. CASE row' = row /\ applied' = applied
    BY <1>1, <2>1 DEF RunRecordsItsChange
  <2>2. CASE row' = [row EXCEPT !.status = "canceled"] /\ applied' = applied
    BY <1>1, <2>2 DEF RunRecordsItsChange, RowStates
  <2>3. CASE row.status = "running" /\ row' = [row EXCEPT !.status = "failed"] /\ applied' = applied
    BY <1>1, <2>3 DEF RunRecordsItsChange, RowStates
  <2>4. CASE row' = [NoRow EXCEPT !.status = "running"] /\ applied' = 0
    <3>1. row' = [status |-> "running", updated |-> FALSE]
      BY <2>4 DEF NoRow
    <3>2. row' \in RowStates /\ row'.status = "running"
      BY <3>1 DEF RowStates
    <3>3. applied' = 0 /\ applied' <= 1 /\ applied' \in Nat
      BY <2>4
    <3>4. RunRecordsItsChange'
      BY <3>2, <3>3 DEF RunRecordsItsChange
    <3>5. QED
      BY <3>2, <3>3, <3>4
  <2>5. QED
    BY <2>1, <2>2, <2>3, <2>4
<1>3. QED
  BY <1>2 DEF RunBecomes, RunsFit, RunFits

(* A run that commits ends its row and saves what it has to save, which is a *)
(* change of the card.                                                       *)
LEMMA CommitFits ==
  ASSUME RunsFit, run.pc = "commit", Commits, CommitRow, run' \in {run, [NoRun EXCEPT !.pc = "end"]}
  PROVE  RunsFit'
<1>1. /\ run \in RunStates /\ RunFits /\ applied = 0 /\ run.decided \in {"completed", "failed", "canceled"}
      /\ run.saves => run.decided # "failed" /\ run.text # run.base
      /\ run.saves \in BOOLEAN
  BY DEF RunsFit, RunFits, Commits, RunStates
<1>2. row' = [status |-> run.decided, updated |-> run.saves /\ run.decided = "completed"]
  BY DEF CommitRow
<1>3. row' \in RowStates /\ row'.status = run.decided /\ row'.updated = (run.saves /\ run.decided = "completed")
  BY <1>1, <1>2 DEF RowStates
<1>4. applied' = IF run.saves THEN 1 ELSE 0
  BY <1>1 DEF CommitRow, MaySave
<1>5. applied' \in Nat /\ RunRecordsItsChange' /\ row'.status # "running"
  BY <1>1, <1>3, <1>4 DEF RunRecordsItsChange
<1>6. RunBecomes(run')
  <2>1. CASE run' = run
    BY <1>1, <2>1 DEF RunBecomes, RunsFit, RunFits
  <2>2. CASE run' = [NoRun EXCEPT !.pc = "end"]
    BY <2>2, EmptyFits DEF RunBecomes, NoRun, RunStates
  <2>3. QED
    BY <2>1, <2>2
<1>7. QED
  BY <1>3, <1>5, <1>6 DEF RunBecomes, RunsFit, RunFits

LEMMA RunsGoOn ==
  ASSUME MemoryInv, [Next]_vars
  PROVE  RunsFit'
<1>1. RunsFit
  BY DEF MemoryInv, MemoryTypeOK, TextsFit, RunsFit, MaintenanceIsAccounted
<1>2. run \in RunStates /\ ~HasSecret(run.text) /\ RunFits /\ row \in RowStates
  BY <1>1 DEF RunsFit
<1>3. memory.content \in Documents /\ run.base \in Documents /\ run.text \in Documents
  BY <1>2 DEF MemoryInv, MemoryTypeOK, RunStates
<1>4. ASSUME NEW pc \in {"none", "setup", "end"}, NEW kind \in {"compact", "retry"},
             run' = [NoRun EXCEPT !.pc = pc, !.kind = kind]
      PROVE  RunBecomes(run')
  BY <1>4, EmptyFits DEF RunBecomes, NoRun, RunStates
<1>5. CASE RunAdmit
  <2>1. PICK kind \in {"compact", "retry"} : run' = [NoRun EXCEPT !.pc = "setup", !.kind = kind]
    BY <1>5 DEF RunAdmit
  <2>2. row' = [NoRow EXCEPT !.status = "running"] /\ applied' = 0
    BY <1>5 DEF RunAdmit
  <2>3. QED
    BY <1>1, <1>4, <2>1, <2>2, RunBecomesFits
<1>6. CASE RunSetup
  <2>1. run.pc = "setup" /\ row' = row /\ applied' = applied /\ ~run.saves /\ run.result = "completed"
    BY <1>2, <1>6 DEF RunSetup, RunFits
  <2>2. PICK expected \in Nat, started \in Nat : expected = session.revision + 1 /\ started = latest.starts + 1
    BY DEF MemoryInv, MemoryTypeOK
  <2>3. CASE run' = [run EXCEPT !.pc = "read", !.revision = expected, !.started = started]
    <3>1. RunBecomes(run')
      BY <1>1, <1>2, <2>1, <2>3 DEF RunBecomes, RunStates
    <3>2. QED
      BY <1>1, <2>1, <3>1, RunBecomesFits
  <2>4. CASE \E result \in {"failed", "canceled"} : run' = [run EXCEPT !.pc = "decide", !.result = result]
    <3>1. RunBecomes(run')
      BY <1>1, <1>2, <2>1, <2>4 DEF RunBecomes, RunStates
    <3>2. QED
      BY <1>1, <2>1, <3>1, RunBecomesFits
  <2>5. QED
    BY <1>6, <2>2, <2>3, <2>4 DEF RunSetup
<1>7. CASE RunRead
  <2>1. /\ run.pc = "read" /\ row' = row /\ applied' = applied /\ ~run.saves /\ run.result = "completed"
        /\ \E pc \in {"check", "think"} : run' = [run EXCEPT !.base = memory.content, !.pc = pc]
    BY <1>2, <1>7 DEF RunRead, RunFits
  <2>2. QED
    <3>1. RunBecomes(run')
      BY <1>1, <1>2, <1>3, <2>1 DEF RunBecomes, RunStates
    <3>2. QED
      BY <1>1, <2>1, <3>1, RunBecomesFits
<1>8. CASE RunThink
  <2>1. run.pc = "think" /\ row' = row /\ applied' = applied /\ ~run.saves /\ run.result = "completed"
    BY <1>2, <1>8 DEF RunThink, RunFits
  <2>2. CASE \E result \in {"failed", "completed"} : run' = [run EXCEPT !.pc = "check", !.result = result]
    <3>1. RunBecomes(run')
      BY <1>1, <1>2, <2>1, <2>2 DEF RunBecomes, RunStates
    <3>2. QED
      BY <1>1, <2>1, <3>1, RunBecomesFits
  <2>3. ASSUME NEW forget, NEW text \in Maintained(Redact(run.base), forget),
               run' = [run EXCEPT !.pc = "check", !.text = text, !.saves = TRUE]
        PROVE  RunsFit'
    <3>1. text \in Documents /\ ~HasSecret(text) /\ text # Redact(run.base)
      BY <1>3, <2>3, RedactType, MaintainedType
    <3>2. text # run.base
      BY <1>3, <3>1, RedactClean
    <3>3. RunBecomes(run')
      BY <1>2, <2>1, <2>3, <3>1, <3>2 DEF RunBecomes, RunStates
    <3>4. QED
      BY <1>1, <2>1, <3>3, RunBecomesFits
  <2>4. QED
    BY <1>8, <2>2, <2>3 DEF RunThink
<1>9. CASE RunCheck
  <2>1. run.pc = "check" /\ row' = row /\ applied' = applied
    BY <1>9 DEF RunCheck
  <2>2. CASE run' = [run EXCEPT !.pc = "decide", !.result = "canceled", !.saves = FALSE, !.text = Empty]
    <3>1. RunBecomes(run')
      BY <1>1, <1>2, <2>1, <2>2, EmptyFits DEF RunBecomes, RunStates
    <3>2. QED
      BY <1>1, <2>1, <3>1, RunBecomesFits
  <2>3. CASE run' = [run EXCEPT !.pc = "decide"]
    <3>1. RunBecomes(run')
      BY <1>1, <1>2, <2>1, <2>3 DEF RunBecomes, RunStates, RunFits
    <3>2. QED
      BY <1>1, <2>1, <3>1, RunBecomesFits
  <2>4. QED
    BY <1>9, <2>2, <2>3 DEF RunCheck
<1>10. CASE RunDecide
  <2>1. run.pc = "decide" /\ row' = row /\ applied' = applied
    BY <1>10 DEF RunDecide
  <2>2. PICK decided \in {"completed", "failed", "canceled"} :
          /\ run' = [run EXCEPT !.pc = "commit", !.decided = decided]
          /\ decided = (IF run.stopped THEN "canceled" ELSE run.result)
    BY <1>2, <1>10 DEF RunDecide, RunStates
  <2>3. QED
    <3>1. RunBecomes(run')
      BY <1>1, <1>2, <2>1, <2>2 DEF RunBecomes, RunStates, RunFits
    <3>2. QED
      BY <1>1, <2>1, <3>1, RunBecomesFits
<1>11. CASE RunCommit
  BY <1>1, <1>11, CommitFits DEF RunCommit, RunOver
<1>12. CASE RunRefused
  <2>1. run.pc = "commit" /\ row' = row /\ applied' = applied
    BY <1>12 DEF RunRefused
  <2>2. PICK result \in {"failed", "completed"} :
          run' = [run EXCEPT !.pc = "decide", !.saves = FALSE, !.text = Empty, !.result = result]
    BY <1>12 DEF RunRefused
  <2>3. QED
    <3>1. RunBecomes(run')
      BY <1>1, <1>2, <2>1, <2>2, EmptyFits DEF RunBecomes, RunStates
    <3>2. QED
      BY <1>1, <2>1, <3>1, RunBecomesFits
<1>13. CASE RunSettled \/ RunEnd
  <2>1. row' = row /\ applied' = applied /\ run' \in {NoRun, [NoRun EXCEPT !.pc = "end"]}
    BY <1>13 DEF RunSettled, RunEnd, RunOver
  <2>2. RunBecomes(run')
    <3>1. CASE run' = NoRun
      BY <3>1, EmptyFits DEF RunBecomes, NoRun, RunStates
    <3>2. CASE run' = [NoRun EXCEPT !.pc = "end"]
      BY <3>2, EmptyFits DEF RunBecomes, NoRun, RunStates
    <3>3. QED
      BY <2>1, <3>1, <3>2
  <2>3. QED
    BY <1>1, <2>1, <2>2, RunBecomesFits
<1>14. CASE Stop
  <2>1. row' = row /\ applied' = applied /\ run' = [run EXCEPT !.stopped = TRUE]
    BY <1>14 DEF Stop
  <2>2. QED
    <3>1. RunBecomes(run')
      BY <1>1, <1>2, <2>1 DEF RunBecomes, RunStates, RunFits
    <3>2. QED
      BY <1>1, <2>1, <3>1, RunBecomesFits
<1>15. RunBecomes(run') \/ run' # run
  BY <1>2 DEF RunBecomes, RunFits
<1>16. CASE DeleteSession
  <2>1. run' = run /\ applied' = applied /\ row' \in {row, [row EXCEPT !.status = "canceled"]}
    BY <1>16 DEF DeleteSession
  <2>2. QED
    BY <1>1, <1>15, <2>1, RunBecomesFits
<1>17. CASE Restart
  <2>1. run' = NoRun /\ applied' = applied
    BY <1>17 DEF Restart
  <2>2. row' = row \/ (row.status = "running" /\ row' = [row EXCEPT !.status = "failed"])
    BY <1>17 DEF Restart
  <2>3. RunBecomes(run')
    BY <2>1, EmptyFits DEF RunBecomes, NoRun, RunStates
  <2>4. QED
    BY <1>1, <2>1, <2>2, <2>3, RunBecomesFits
<1>18. CASE UNCHANGED <<run, row, applied>>
  BY <1>1, <1>15, <1>18, RunBecomesFits
<1>19. QED
  BY <1>5, <1>6, <1>7, <1>8, <1>9, <1>10, <1>11, <1>12, <1>13, <1>14, <1>16, <1>17, <1>18, WhoWrites

(* The session, and the latest attempt of which cooldown speaks.             *)
LEMMA SessionGoesOn ==
  ASSUME MemoryInv, [Next]_vars
  PROVE  /\ session' \in [revision : Nat, enabled : BOOLEAN, deleted : BOOLEAN]
         /\ latest' \in [starts : Nat, started : Nat, cooling : BOOLEAN]
<1>1. /\ session \in [revision : Nat, enabled : BOOLEAN, deleted : BOOLEAN]
      /\ latest \in [starts : Nat, started : Nat, cooling : BOOLEAN]
      /\ run.started \in Nat /\ \A t \in Tasks : task[t].started \in Nat
  BY DEF MemoryInv, MemoryTypeOK, RunStates, TaskStates
<1>2. session' \in [revision : Nat, enabled : BOOLEAN, deleted : BOOLEAN]
  <2>1. CASE PageSave
    BY <1>1, <2>1 DEF PageSave
  <2>2. CASE ToggleMemory
    BY <1>1, <2>2 DEF ToggleMemory
  <2>3. CASE SelectAnswer
    BY <1>1, <2>3 DEF SelectAnswer
  <2>4. CASE DeleteSession
    BY <1>1, <2>4 DEF DeleteSession
  <2>5. QED
    BY <1>1, <2>1, <2>2, <2>3, <2>4, WhoWrites
<1>3. latest' \in [starts : Nat, started : Nat, cooling : BOOLEAN]
  <2>1. ASSUME NEW started \in Nat, NEW cooling \in BOOLEAN
        PROVE  RecordedRun(started, cooling) \in [starts : Nat, started : Nat, cooling : BOOLEAN]
    BY <1>1 DEF RecordedRun
  <2>2. ASSUME NEW t \in Tasks, TaskStart(t) \/ TaskRecord(t)
        PROVE  latest' \in [starts : Nat, started : Nat, cooling : BOOLEAN]
    <3>1. CASE TaskStart(t)
      BY <1>1, <3>1 DEF TaskStart
    <3>2. CASE TaskRecord(t)
      <4>1. PICK cooling \in BOOLEAN : cooling = (task[t].result = "failed")
        OBVIOUS
      <4>2. latest' = latest \/ latest' = RecordedRun(task[t].started, cooling)
        BY <3>2, <4>1 DEF TaskRecord
      <4>3. QED
        BY <1>1, <2>1, <4>2
    <3>3. QED
      BY <2>2, <3>1, <3>2
  <2>3. CASE CooldownEnds
    BY <1>1, <2>3 DEF CooldownEnds
  <2>4. CASE RunSetup
    <3>1. latest' = latest \/ latest' = [latest EXCEPT !.starts = @ + 1]
      BY <2>4 DEF RunSetup
    <3>2. QED
      BY <1>1, <3>1
  <2>5. CASE RunCommit
    BY <1>1, <2>1, <2>5 DEF RunCommit, CommitRow
  <2>6. QED
    BY <1>1, <2>2, <2>3, <2>4, <2>5, WhoWrites
<1>4. QED
  BY <1>2, <1>3

LEMMA MemoryStep ==
  ASSUME MemoryInv, [Next]_vars
  PROVE  /\ MemoryInv'
         /\ memory'.content # memory.content => ~HasSecret(memory'.content)
         /\ page.pc = "save" /\ page.stamp # 0 /\ memory'.content # memory.content /\ page'.pc = "closed"
              => memory.content = page.seen
<1>1. MemoryMoves
  BY MemoryAlwaysMoves
<1>2. /\ page' \in PageStates /\ Masked(page'.text) /\ PageFits'
      /\ page.pc = "save" /\ page.stamp # 0 /\ memory'.content # memory.content /\ page'.pc = "closed"
           => memory.content = page.seen
  BY <1>1, PageGoesOn
<1>3. tool' \in ToolStates /\ Masked(tool'.text)
  BY ToolGoesOn
<1>4. TasksFit' /\ RunsFit'
  BY TasksGoOn, RunsGoOn
<1>5. MemoryTypeOK'
  BY <1>1, <1>2, <1>3, <1>4, SessionGoesOn DEF MemoryTypeOK, MemoryMoves, TasksFit, RunsFit
<1>6. TextsFit' /\ RunFits' /\ MaintenanceIsAccounted' /\ ChangesTellTheMemory'
  BY <1>1, <1>2, <1>3, <1>4 DEF TextsFit, TasksFit, RunsFit, MaintenanceIsAccounted, MemoryMoves
<1>7. QED
  BY <1>1, <1>2, <1>5, <1>6 DEF MemoryInv, MemoryMoves

LEMMA MemoryAlwaysFits == Spec => []MemoryInv
<1>1. MemoryInv /\ [Next]_vars => MemoryInv'
  BY MemoryStep
<1>2. QED
  BY <1>1, MemoryStarts, PTL DEF Spec

(* The history of a memory's changes ends in the memory, and each kept       *)
(* change begins where the one before it ended.                              *)
THEOREM HistoryTellsTheMemory == Spec => []ChangesTellTheMemory
<1>1. MemoryInv => ChangesTellTheMemory
  BY DEF MemoryInv
<1>2. QED
  BY <1>1, MemoryAlwaysFits, PTL

(* A maintenance run changes the memory at most once, and if it says so; and *)
(* nothing is at work after a drain.                                         *)
THEOREM MaintenanceStaysAccounted == Spec => []MaintenanceIsAccounted
<1>1. MemoryInv => MaintenanceIsAccounted
  BY DEF MemoryInv
<1>2. QED
  BY <1>1, MemoryAlwaysFits, PTL

(* No step stores a credential, and a panel that knows what the memory was   *)
(* replaces nothing else.                                                    *)
THEOREM WritesStayGuarded == Spec => WritesAreGuarded
<1>1. MemoryInv /\ [Next]_vars =>
        /\ [memory'.content # memory.content => ~HasSecret(memory'.content)]_vars
        /\ [page.pc = "save" /\ page.stamp # 0 /\ memory'.content # memory.content /\ page'.pc = "closed"
              => memory.content = page.seen]_vars
  BY MemoryStep
<1>2. QED
  BY <1>1, MemoryAlwaysFits, PTL DEF Spec, WritesAreGuarded, SecretsAreNeverSaved, PageOverwritesOnlyWhatItShowed
=============================================================================
