---------------------------- MODULE ToolCalls_proofs ----------------------------
(***************************************************************************)
(* Proofs about ToolCalls, for any runs, calls, tools, window and limits:  *)
(* the budget that the parallel calls of a run share is never overdrawn,   *)
(* never leaks and is closed only for a reason that stays; and the rows    *)
(* that are reserved before a call runs keep the limits of every day,      *)
(* tell what became of each call and are counted once in the statistics.   *)
(***************************************************************************)
EXTENDS ToolCalls, Counting
-----------------------------------------------------------------------------
(* What a budget and a call may hold *)

BudgetRecord ==
  [used : Nat, reserved : Nat, skillUsed : Nat, skillReserved : Nat, skillBlocked : BOOLEAN,
   actual : Int, forceFinal : BOOLEAN, noted : BOOLEAN, rounds : Nat, generated : Nat]

Outcomes == {"none", "ok", "degraded", "excerpt", "failed", "canceled", "blocked", "refused"}
Holding  == {"granted", "refused", "refunded", "reserved", "executing"}
Waiting  == {"issued", "blocked", "done", "lost"}
Steps    == {"unused", "issued", "blocked", "granted", "refused", "refunded", "reserved",
             "executing", "blank", "record", "done", "lost"}

CallRecord ==
  [pc : Steps, run : Runs \cup {None}, tool : Tools \cup {None}, grant : Nat, outcome : Outcomes]

(* A call that was asked for belongs to a run and names a tool. *)
CallFits(k) == /\ k \in CallRecord
               /\ k.pc = "unused" => k.run = None
               /\ k.pc # "unused" => k.run \in Runs /\ k.tool \in Tools

(* The numbers the middleware computes from the window. *)
LEMMA Numbers ==
  /\ MaxContext \in Nat /\ Usable \in Nat /\ Usable <= MaxContext
  /\ MaxResult \in Nat /\ MaxSkill \in Nat /\ PerNotice \in Nat \ {0}
  /\ MinGrant = 512
  /\ MaxResult < MinGrant => Usable < MinGrant
<1> DEFINE a == Window \div 8
           b == Window \div 4
<1>1. a \in Nat /\ b \in Nat
  BY LimitsAssumption
<1> HIDE DEF a, b
<1>2. MaxContext \in Nat
  <2>1. MaxContext = MinOf(MaxOf(a, MinOf(2048, b)), 32000)
    BY SMTT(30) DEF MaxContext, a, b
  <2>2. QED
    BY <1>1, <2>1 DEF MinOf, MaxOf
<1> DEFINE m == MaxContext
           q == m \div 4
           reserve == MinOf(576, q)
<1>3. q \in Nat /\ q <= m /\ m \div 2 \in Nat
  BY <1>2
<1>4. reserve \in Nat /\ reserve <= m
  BY <1>2, <1>3 DEF MinOf
<1>5. TerminalReserve(m) = IF m - reserve < MinGrant THEN m ELSE reserve
  BY ZenonT(60) DEF TerminalReserve
<1>6. Usable = m - TerminalReserve(m)
  BY ZenonT(60) DEF Usable
<1>7. MaxResult = MinOf(8000, IF q < MinGrant /\ Usable >= MinGrant THEN MinGrant ELSE q)
  BY ZenonT(60) DEF MaxResult
<1>8. MaxSkill = MinOf(m \div 2, 12000)
  BY SMTT(30) DEF MaxSkill
<1>9. PerNotice = MaxOf(TerminalReserve(m) \div MaxCalls, 8)
  BY ZenonT(60) DEF PerNotice
<1> HIDE DEF reserve, q, m
<1>10. TerminalReserve(m) \in Nat /\ Usable \in Nat /\ Usable <= m
  <2>1. m \in Nat
    BY <1>2 DEF m
  <2>2. QED
    BY <1>4, <1>5, <1>6, <2>1
<1>11. MaxSkill \in Nat
  BY <1>3, <1>8 DEF MinOf, m
<1>12. MaxResult \in Nat /\ (MaxResult < MinGrant => Usable < MinGrant)
  BY <1>3, <1>7, <1>10 DEF MinOf, MinGrant
<1>13. PerNotice \in Nat \ {0}
  <2>1. TerminalReserve(m) \div MaxCalls \in Int
    BY <1>10, LimitsAssumption
  <2>2. QED
    BY <1>9, <2>1 DEF MaxOf
<1>14. QED
  BY <1>2, <1>10, <1>11, <1>12, <1>13 DEF m, MinGrant

(* A fresh budget holds nothing. *)
LEMMA NewBudgetType == NewBudget \in BudgetRecord
BY DEF NewBudget, BudgetRecord

-----------------------------------------------------------------------------
(* The sections under budgetMu *)

(* The budget was told to end for a reason that stays. *)
ClosedRightly(b) ==
  b.rounds >= MaxRounds \/ b.generated >= MaxCalls \/ Usable - b.used < MinGrant

(* A budget by itself: no more is given than there is. *)
BudgetGood(b) ==
  /\ b \in BudgetRecord
  /\ b.used + b.reserved <= MaxContext
  /\ b.skillUsed + b.skillReserved <= MaxSkill
  /\ b.forceFinal => ClosedRightly(b)

(* A call of the tool that held g tokens of budget b holds h of budget f. *)
Moved(b, f, tool, g, h) ==
  /\ BudgetGood(f)
  /\ f.reserved = b.reserved - g + h
  /\ f.skillReserved = IF tool \in SkillTools THEN b.skillReserved - g + h ELSE b.skillReserved
  /\ f.rounds = b.rounds /\ f.generated = b.generated /\ f.noted = b.noted
  /\ b.forceFinal => f.forceFinal

(* The call holds g tokens of the budget. *)
Covers(b, tool, g) ==
  g \in Nat /\ g <= b.reserved /\ (tool \in SkillTools => g <= b.skillReserved)

(* Fields of a budget, for the lemmas below. *)
LEMMA BudgetFields ==
  ASSUME NEW b \in BudgetRecord
  PROVE  /\ b.used \in Nat /\ b.reserved \in Nat /\ b.skillUsed \in Nat /\ b.skillReserved \in Nat
         /\ b.actual \in Int /\ b.rounds \in Nat /\ b.generated \in Nat
         /\ b.skillBlocked \in BOOLEAN /\ b.forceFinal \in BOOLEAN /\ b.noted \in BOOLEAN
BY DEF BudgetRecord

(* A grant is within what is left, of the context and of the skills. *)
LEMMA GrantMoves ==
  ASSUME NEW b, BudgetGood(b), NEW tool, ~Refuses(b, tool)
  PROVE  LET g == Limit(b, tool) IN
         /\ g \in Nat /\ ~b.forceFinal
         /\ Moved(b, Granted(b, tool, g), tool, 0, g)
         /\ Granted(b, tool, g).actual = b.actual + 1
<1> DEFINE g == Limit(b, tool)
           f == Granted(b, tool, g)
<1>1. b \in BudgetRecord /\ ~b.forceFinal /\ ~(g < MinGrant)
  BY DEF BudgetGood, Refuses
<1>2. /\ b.used \in Nat /\ b.reserved \in Nat /\ b.skillUsed \in Nat /\ b.skillReserved \in Nat
      /\ b.actual \in Int
  BY <1>1, BudgetFields
<1>3. g \in Int /\ g <= Usable - b.used - b.reserved
      /\ (tool \in SkillTools => g <= MaxSkill - b.skillUsed - b.skillReserved)
  BY <1>2, Numbers DEF Limit, MinOf
<1> HIDE DEF g
<1>4. g \in Nat
  BY <1>1, <1>3, Numbers
<1>5. f = [b EXCEPT !.reserved = @ + g, !.actual = @ + 1,
                    !.skillReserved = IF tool \in SkillTools THEN @ + g ELSE @]
  BY DEF Granted
<1> HIDE DEF f
<1>6. /\ f \in BudgetRecord /\ f.reserved = b.reserved + g /\ f.used = b.used /\ f.skillUsed = b.skillUsed
      /\ f.skillReserved = IF tool \in SkillTools THEN b.skillReserved + g ELSE b.skillReserved
      /\ f.rounds = b.rounds /\ f.generated = b.generated /\ f.noted = b.noted
      /\ f.forceFinal = b.forceFinal /\ f.actual = b.actual + 1
  <2> DEFINE s == IF tool \in SkillTools THEN b.skillReserved + g ELSE b.skillReserved
  <2>1. s \in Nat
    BY <1>2, <1>4
  <2>2. f = [b EXCEPT !.reserved = b.reserved + g, !.actual = b.actual + 1, !.skillReserved = s]
    BY <1>5
  <2> DEFINE r == b.reserved + g
             n == b.actual + 1
  <2>3. r \in Nat /\ n \in Int
    BY <1>2, <1>4
  <2> HIDE DEF s, r, n
  <2>4. f = [b EXCEPT !.reserved = r, !.actual = n, !.skillReserved = s]
    BY <2>2 DEF r, n
  <2>5. f \in BudgetRecord
    BY <1>1, <2>1, <2>3, <2>4 DEF BudgetRecord
  <2>6. /\ f.reserved = r /\ f.used = b.used
        /\ f.skillUsed = b.skillUsed /\ f.skillReserved = s
        /\ f.rounds = b.rounds /\ f.generated = b.generated /\ f.noted = b.noted
        /\ f.forceFinal = b.forceFinal /\ f.actual = n
    BY <1>1, <2>4 DEF BudgetRecord
  <2>7. QED
    BY <2>5, <2>6 DEF s, r, n
<1>7. f.used + f.reserved <= MaxContext
  BY <1>2, <1>3, <1>4, <1>6, Numbers
<1>8. f.skillUsed + f.skillReserved <= MaxSkill
  <2>1. CASE tool \in SkillTools
    BY <1>2, <1>3, <1>4, <1>6, <2>1, Numbers
  <2>2. CASE tool \notin SkillTools
    BY <1>6, <2>2 DEF BudgetGood
  <2>3. QED
    BY <2>1, <2>2
<1>9. Moved(b, f, tool, 0, g)
  BY <1>1, <1>2, <1>4, <1>6, <1>7, <1>8 DEF Moved, BudgetGood
<1>10. QED
  BY <1>1, <1>4, <1>6, <1>9 DEF f, g

(* A refusal closes the budget only when nothing in flight gives tokens back. *)
LEMMA RefusalMoves ==
  ASSUME NEW b, BudgetGood(b), NEW tool, Refuses(b, tool),
         b.actual <= b.generated, b.skillReserved <= b.reserved
  PROVE  Moved(b, Closed(b, tool), tool, 0, 0) /\ Closed(b, tool).actual = b.actual
<1> DEFINE f == Closed(b, tool)
<1>1. b \in BudgetRecord
  BY DEF BudgetGood
<1>2. /\ b.used \in Nat /\ b.reserved \in Nat /\ b.skillUsed \in Nat /\ b.skillReserved \in Nat
      /\ b.actual \in Int /\ b.generated \in Nat /\ b.rounds \in Nat
  BY <1>1, BudgetFields
<1>3. CASE f = b
  BY <1>2, <1>3 DEF Moved, BudgetGood
<1>4. CASE f = [b EXCEPT !.skillBlocked = TRUE]
  <2>1. f \in BudgetRecord
    BY <1>1, <1>4 DEF BudgetRecord
  <2>2. /\ f.reserved = b.reserved /\ f.used = b.used /\ f.skillUsed = b.skillUsed
        /\ f.skillReserved = b.skillReserved /\ f.actual = b.actual
        /\ f.rounds = b.rounds /\ f.generated = b.generated /\ f.noted = b.noted
        /\ f.forceFinal = b.forceFinal
    BY <1>1, <1>4 DEF BudgetRecord
  <2>3. QED
    BY <1>2, <2>1, <2>2 DEF Moved, BudgetGood, ClosedRightly
<1>5. CASE f = [b EXCEPT !.forceFinal = TRUE] /\ ClosedRightly(b)
  <2>1. f \in BudgetRecord
    BY <1>1, <1>5 DEF BudgetRecord
  <2>2. /\ f.reserved = b.reserved /\ f.used = b.used /\ f.skillUsed = b.skillUsed
        /\ f.skillReserved = b.skillReserved /\ f.actual = b.actual
        /\ f.rounds = b.rounds /\ f.generated = b.generated /\ f.noted = b.noted
        /\ f.forceFinal
    BY <1>1, <1>5 DEF BudgetRecord
  <2>3. QED
    BY <1>2, <1>5, <2>1, <2>2 DEF Moved, BudgetGood, ClosedRightly
<1>6. CASE b.forceFinal \/ (tool \in SkillTools /\ b.skillBlocked)
  <2>1. f = b
    BY <1>6, Zenon DEF Closed
  <2>2. QED
    BY <1>3, <2>1
<1>7. CASE ~(b.forceFinal \/ (tool \in SkillTools /\ b.skillBlocked)) /\ b.actual >= MaxCalls
  <2>1. f = [b EXCEPT !.forceFinal = TRUE]
    BY <1>7, Zenon DEF Closed
  <2>2. ClosedRightly(b)
    BY <1>2, <1>7, LimitsAssumption DEF ClosedRightly
  <2>3. QED
    BY <1>5, <2>1, <2>2
<1>8. CASE ~(b.forceFinal \/ (tool \in SkillTools /\ b.skillBlocked)) /\ ~(b.actual >= MaxCalls)
  <2>1. Limit(b, tool) < MinGrant
    BY <1>8 DEF Refuses
  <2>2. CASE tool \in SkillTools /\ SkillsSpent(b)
    <3>1. f = [b EXCEPT !.skillBlocked = TRUE]
      BY <1>8, <2>2, Zenon DEF Closed
    <3>2. QED
      BY <1>4, <3>1
  <2>3. CASE ~(tool \in SkillTools /\ SkillsSpent(b)) /\ Spent(b)
    <3>1. f = [b EXCEPT !.forceFinal = TRUE] /\ b.reserved = 0
      BY <1>8, <2>3, Zenon DEF Closed, Spent
    <3>2. tool \notin SkillTools
      BY <1>2, <2>3, <3>1 DEF SkillsSpent
    <3>3. Limit(b, tool) = MinOf(MaxResult, Usable - b.used - b.reserved)
      BY <3>2, Zenon DEF Limit
    <3>4. Usable - b.used < MinGrant
      BY <1>2, <2>1, <3>1, <3>3, Numbers DEF MinOf
    <3>5. QED
      BY <1>5, <3>1, <3>4 DEF ClosedRightly
  <2>4. CASE ~(tool \in SkillTools /\ SkillsSpent(b)) /\ ~Spent(b)
    <3>1. f = b
      BY <1>8, <2>4, Zenon DEF Closed
    <3>2. QED
      BY <1>3, <3>1
  <2>5. QED
    BY <2>2, <2>3, <2>4
<1>9. QED
  BY <1>6, <1>7, <1>8

(* Fields that the end of a grant leaves alone. *)
Keeps(b, f) ==
  /\ f.rounds = b.rounds /\ f.generated = b.generated /\ f.noted = b.noted
  /\ f.forceFinal = b.forceFinal

(* A grant that ends gives back exactly its tokens. *)
LEMMA ReturnFields ==
  ASSUME NEW b, BudgetGood(b), NEW tool, NEW g, Covers(b, tool, g)
  PROVE  LET f == Returned(b, tool, g) IN
         /\ f \in BudgetRecord /\ Keeps(b, f)
         /\ f.used = b.used /\ f.skillUsed = b.skillUsed /\ f.actual = b.actual
         /\ f.reserved = b.reserved - g
         /\ f.skillReserved = IF tool \in SkillTools THEN b.skillReserved - g ELSE b.skillReserved
<1> DEFINE f == Returned(b, tool, g)
           r == MaxOf(b.reserved - g, 0)
           s == IF tool \in SkillTools THEN MaxOf(b.skillReserved - g, 0) ELSE b.skillReserved
<1>1. /\ b \in BudgetRecord /\ b.reserved \in Nat /\ b.skillReserved \in Nat /\ g \in Nat
      /\ g <= b.reserved
  BY BudgetFields DEF BudgetGood, Covers
<1>2. r = b.reserved - g /\ r \in Nat
  BY <1>1 DEF MaxOf
<1>3. s \in Nat /\ s = IF tool \in SkillTools THEN b.skillReserved - g ELSE b.skillReserved
  <2>1. CASE tool \in SkillTools
    BY <1>1, <2>1 DEF MaxOf, Covers
  <2>2. CASE tool \notin SkillTools
    BY <1>1, <2>2
  <2>3. QED
    BY <2>1, <2>2
<1>4. f = [b EXCEPT !.reserved = r, !.skillReserved = s]
  BY DEF Returned
<1> HIDE DEF f, r, s
<1>5. f \in BudgetRecord
  BY <1>1, <1>2, <1>3, <1>4 DEF BudgetRecord
<1>6. /\ f.used = b.used /\ f.skillUsed = b.skillUsed /\ f.actual = b.actual
      /\ f.reserved = r /\ f.skillReserved = s /\ Keeps(b, f)
  BY <1>1, <1>4 DEF BudgetRecord, Keeps
<1>7. QED
  BY <1>2, <1>3, <1>5, <1>6 DEF f

(* A canceled grant is given back, and with it the call if it did not start. *)
LEMMA CancelMoves ==
  ASSUME NEW b, BudgetGood(b), NEW tool, NEW g, Covers(b, tool, g), NEW releaseCall \in BOOLEAN
  PROVE  LET f == GrantCanceled(b, tool, g, releaseCall) IN
         Moved(b, f, tool, g, 0) /\ f.actual <= b.actual
<1> DEFINE r == Returned(b, tool, g)
           f == GrantCanceled(b, tool, g, releaseCall)
           n == IF releaseCall THEN r.actual - 1 ELSE r.actual
<1>1. /\ r \in BudgetRecord /\ Keeps(b, r)
      /\ r.used = b.used /\ r.skillUsed = b.skillUsed /\ r.actual = b.actual
      /\ r.reserved = b.reserved - g
      /\ r.skillReserved = IF tool \in SkillTools THEN b.skillReserved - g ELSE b.skillReserved
  BY ReturnFields
<1>2. f = [r EXCEPT !.actual = n]
  BY DEF GrantCanceled
<1> HIDE DEF r
<1>3. b \in BudgetRecord /\ b.actual \in Int /\ g \in Nat
  BY BudgetFields DEF BudgetGood, Covers
<1>4. n \in Int /\ n <= b.actual
  BY <1>1, <1>3
<1> HIDE DEF f, n
<1>5. f \in BudgetRecord
  BY <1>1, <1>2, <1>4 DEF BudgetRecord
<1>6. /\ f.used = r.used /\ f.skillUsed = r.skillUsed /\ f.actual = n
      /\ f.reserved = r.reserved /\ f.skillReserved = r.skillReserved /\ Keeps(r, f)
  BY <1>1, <1>2 DEF BudgetRecord, Keeps
<1>7. /\ b.used \in Nat /\ b.reserved \in Nat /\ b.skillUsed \in Nat /\ b.skillReserved \in Nat
  BY <1>3, BudgetFields
<1>8. BudgetGood(f)
  <2>1. f.used + f.reserved <= MaxContext
    BY <1>1, <1>3, <1>6, <1>7, Numbers DEF BudgetGood
  <2>2. f.skillUsed + f.skillReserved <= MaxSkill
    BY <1>1, <1>3, <1>6, <1>7, Numbers DEF BudgetGood
  <2>3. f.forceFinal => ClosedRightly(f)
    BY <1>1, <1>6 DEF Keeps, BudgetGood, ClosedRightly
  <2>4. QED
    BY <1>5, <2>1, <2>2, <2>3 DEF BudgetGood
<1>9. QED
  BY <1>1, <1>3, <1>4, <1>6, <1>7, <1>8 DEF Moved, Keeps, f

(* The test at the end closes the budget only when nothing is left of it. *)
LEMMA FinalMoves ==
  ASSUME NEW b, BudgetGood(b)
  PROVE  LET f == FinalIfSpent(b) IN
         /\ BudgetGood(f)
         /\ f.reserved = b.reserved /\ f.skillReserved = b.skillReserved /\ f.actual = b.actual
         /\ f.rounds = b.rounds /\ f.generated = b.generated /\ f.noted = b.noted
         /\ b.forceFinal => f.forceFinal
<1> DEFINE f == FinalIfSpent(b)
<1>1. CASE f = b
  BY <1>1
<1>2. CASE MaxContext - b.used < MinGrant /\ f = [b EXCEPT !.forceFinal = TRUE]
  <2> HIDE DEF f
  <2>1. b \in BudgetRecord /\ b.used \in Nat
    BY BudgetFields DEF BudgetGood
  <2>2. /\ f \in BudgetRecord /\ f.used = b.used /\ f.skillUsed = b.skillUsed
        /\ f.reserved = b.reserved /\ f.skillReserved = b.skillReserved /\ f.actual = b.actual
        /\ f.rounds = b.rounds /\ f.generated = b.generated /\ f.noted = b.noted /\ f.forceFinal = TRUE
    BY <1>2, <2>1 DEF BudgetRecord
  <2>3. ClosedRightly(f)
    BY <1>2, <2>1, <2>2, Numbers DEF ClosedRightly
  <2>4. BudgetGood(f)
    BY <2>2, <2>3 DEF BudgetGood
  <2>5. QED
    BY <2>2, <2>4 DEF f
<1>3. QED
  BY <1>1, <1>2 DEF FinalIfSpent

(* A result takes no more than its grant, and gives the rest back. *)
LEMMA FinishMoves ==
  ASSUME NEW b, BudgetGood(b), NEW tool, NEW g, Covers(b, tool, g), NEW consumed \in Nat, consumed <= g
  PROVE  LET f == Finished(b, tool, g, consumed) IN
         Moved(b, f, tool, g, 0) /\ f.actual <= b.actual
<1> DEFINE o == Returned(b, tool, g)
           u == o.used + consumed
           r == [o EXCEPT !.used = u]
           v == r.skillUsed + consumed
           s == IF tool \in SkillTools THEN [r EXCEPT !.skillUsed = v] ELSE r
           t == IF /\ tool \in SkillTools
                   /\ MaxSkill - s.skillUsed < MinGrant
                   /\ s.skillReserved = 0
                THEN [s EXCEPT !.skillBlocked = TRUE] ELSE s
           f == Finished(b, tool, g, consumed)
<1>1. /\ o \in BudgetRecord /\ Keeps(b, o)
      /\ o.used = b.used /\ o.skillUsed = b.skillUsed /\ o.actual = b.actual
      /\ o.reserved = b.reserved - g
      /\ o.skillReserved = IF tool \in SkillTools THEN b.skillReserved - g ELSE b.skillReserved
  BY ReturnFields
<1>2. f = FinalIfSpent(t)
  BY DEF Finished
<1> HIDE DEF o
<1>3. b \in BudgetRecord /\ g \in Nat
  BY DEF BudgetGood, Covers
<1>4. /\ b.used \in Nat /\ b.reserved \in Nat /\ b.skillUsed \in Nat /\ b.skillReserved \in Nat
      /\ b.actual \in Int
  BY <1>3, BudgetFields
<1>5. u \in Nat /\ u = b.used + consumed
  BY <1>1, <1>4
<1> HIDE DEF u
<1>6. /\ r \in BudgetRecord /\ Keeps(b, r) /\ r.used = u /\ r.skillUsed = b.skillUsed
      /\ r.actual = b.actual /\ r.reserved = o.reserved /\ r.skillReserved = o.skillReserved
  BY <1>1, <1>5 DEF BudgetRecord, Keeps
<1> HIDE DEF r
<1>7. v \in Nat /\ v = b.skillUsed + consumed
  BY <1>4, <1>6
<1> HIDE DEF v
<1>8. /\ s \in BudgetRecord /\ Keeps(b, s) /\ s.used = u
      /\ s.skillUsed = (IF tool \in SkillTools THEN v ELSE b.skillUsed)
      /\ s.actual = b.actual /\ s.reserved = o.reserved /\ s.skillReserved = o.skillReserved
  <2>1. CASE tool \in SkillTools
    <3>1. s = [r EXCEPT !.skillUsed = v]
      BY <2>1
    <3> HIDE DEF s
    <3>2. /\ s \in BudgetRecord /\ s.used = r.used /\ s.skillUsed = v /\ Keeps(r, s)
          /\ s.actual = r.actual /\ s.reserved = r.reserved /\ s.skillReserved = r.skillReserved
      BY <1>6, <1>7, <3>1 DEF BudgetRecord, Keeps
    <3>3. QED
      BY <1>6, <2>1, <3>2 DEF Keeps
  <2>2. CASE tool \notin SkillTools
    BY <1>6, <2>2
  <2>3. QED
    BY <2>1, <2>2
<1> HIDE DEF s
<1>9. /\ t \in BudgetRecord /\ Keeps(b, t) /\ t.used = u
      /\ t.skillUsed = (IF tool \in SkillTools THEN v ELSE b.skillUsed)
      /\ t.actual = b.actual /\ t.reserved = o.reserved /\ t.skillReserved = o.skillReserved
  <2>1. CASE t = s
    BY <1>8, <2>1
  <2>2. CASE t = [s EXCEPT !.skillBlocked = TRUE]
    <3> HIDE DEF t
    <3>1. /\ t \in BudgetRecord /\ t.used = s.used /\ t.skillUsed = s.skillUsed /\ Keeps(s, t)
          /\ t.actual = s.actual /\ t.reserved = s.reserved /\ t.skillReserved = s.skillReserved
      BY <1>8, <2>2 DEF BudgetRecord, Keeps
    <3>2. QED
      BY <1>8, <3>1 DEF Keeps
  <2>3. QED
    BY <2>1, <2>2
<1> HIDE DEF t
<1>10. BudgetGood(t)
  <2>1. t.used + t.reserved <= MaxContext
    BY <1>1, <1>3, <1>4, <1>5, <1>9, Numbers DEF BudgetGood
  <2>2. t.skillUsed + t.skillReserved <= MaxSkill
    <3>1. CASE tool \in SkillTools
      BY <1>1, <1>3, <1>4, <1>7, <1>9, <3>1, Numbers DEF BudgetGood
    <3>2. CASE tool \notin SkillTools
      BY <1>1, <1>9, <3>2 DEF BudgetGood
    <3>3. QED
      BY <3>1, <3>2
  <2>3. t.forceFinal => ClosedRightly(t)
    BY <1>3, <1>4, <1>5, <1>9, Numbers DEF Keeps, BudgetGood, ClosedRightly
  <2>4. QED
    BY <1>9, <2>1, <2>2, <2>3 DEF BudgetGood
<1>11. /\ BudgetGood(f)
       /\ f.reserved = t.reserved /\ f.skillReserved = t.skillReserved /\ f.actual = t.actual
       /\ f.rounds = t.rounds /\ f.generated = t.generated /\ f.noted = t.noted
       /\ t.forceFinal => f.forceFinal
  BY <1>2, <1>10, FinalMoves
<1> HIDE DEF f
<1>12. QED
  BY <1>1, <1>3, <1>4, <1>9, <1>11 DEF Moved, Keeps, f

(* A notice takes what is left at most. *)
LEMMA NoticeMoves ==
  ASSUME NEW b, BudgetGood(b), NEW tool
  PROVE  Moved(b, Noticed(b), tool, 0, 0) /\ Noticed(b).actual <= b.actual
<1> DEFINE remaining == MaxContext - b.used - b.reserved
           u == b.used + MinOf(remaining, PerNotice)
           t == [b EXCEPT !.used = u]
           f == Noticed(b)
<1>1. b \in BudgetRecord
  BY DEF BudgetGood
<1>2. /\ b.used \in Nat /\ b.reserved \in Nat /\ b.skillUsed \in Nat /\ b.skillReserved \in Nat
      /\ b.actual \in Int
  BY <1>1, BudgetFields
<1>3. CASE remaining <= 0
  <2>1. f = b
    BY <1>3 DEF Noticed
  <2>2. QED
    BY <1>2, <2>1 DEF Moved
<1>4. CASE ~(remaining <= 0)
  <2>1. f = FinalIfSpent(t)
    BY <1>4 DEF Noticed
  <2>2. u \in Nat /\ u >= b.used /\ u <= MaxContext - b.reserved
    BY <1>2, <1>4, Numbers DEF MinOf
  <2> HIDE DEF u, f
  <2>3. /\ t \in BudgetRecord /\ Keeps(b, t) /\ t.used = u /\ t.skillUsed = b.skillUsed
        /\ t.actual = b.actual /\ t.reserved = b.reserved /\ t.skillReserved = b.skillReserved
    BY <1>1, <2>2 DEF BudgetRecord, Keeps
  <2> HIDE DEF t
  <2>4. BudgetGood(t)
    <3>1. t.forceFinal => ClosedRightly(t)
      BY <1>2, <2>2, <2>3, Numbers DEF Keeps, BudgetGood, ClosedRightly
    <3>2. t.used + t.reserved <= MaxContext
      BY <1>2, <2>2, <2>3, Numbers
    <3>3. QED
      BY <2>3, <3>1, <3>2 DEF BudgetGood
  <2>5. /\ BudgetGood(f)
        /\ f.reserved = t.reserved /\ f.skillReserved = t.skillReserved /\ f.actual = t.actual
        /\ f.rounds = t.rounds /\ f.generated = t.generated /\ f.noted = t.noted
        /\ t.forceFinal => f.forceFinal
    BY <2>1, <2>4, FinalMoves
  <2>6. QED
    BY <1>2, <2>3, <2>5 DEF Moved, Keeps, f
<1>5. QED
  BY <1>3, <1>4

(* A call that was refused is not counted. *)
LEMMA UncountMoves ==
  ASSUME NEW b, BudgetGood(b), NEW tool, NEW g \in Nat
  PROVE  LET f == [b EXCEPT !.actual = @ - 1] IN
         Moved(b, f, tool, g, g) /\ f.actual <= b.actual
<1> DEFINE n == b.actual - 1
           f == [b EXCEPT !.actual = n]
<1>1. b \in BudgetRecord
  BY DEF BudgetGood
<1>2. b.reserved \in Nat /\ b.skillReserved \in Nat /\ b.actual \in Int
  BY <1>1, BudgetFields
<1>3. n \in Int /\ n <= b.actual
  BY <1>2
<1> HIDE DEF n
<1>4. /\ f \in BudgetRecord /\ Keeps(b, f) /\ f.used = b.used /\ f.skillUsed = b.skillUsed
      /\ f.actual = n /\ f.reserved = b.reserved /\ f.skillReserved = b.skillReserved
  BY <1>1, <1>3 DEF BudgetRecord, Keeps
<1> HIDE DEF f
<1>5. BudgetGood(f)
  BY <1>4 DEF BudgetGood, Keeps, ClosedRightly
<1>6. QED
  BY <1>2, <1>3, <1>4, <1>5 DEF Moved, Keeps, f, n

-----------------------------------------------------------------------------
(* The budgets of all runs *)

(* The tokens that call k holds of the budget of r, and those of skills. *)
Held(k, r)      == IF k.run = r /\ k.pc \in Holding THEN k.grant ELSE 0
SkillHeld(k, r) == IF k.tool \in SkillTools THEN Held(k, r) ELSE 0

HeldBy(r)      == [c \in Calls |-> Held(call[c], r)]
SkillHeldBy(r) == [c \in Calls |-> SkillHeld(call[c], r)]
IssuedOf(r)    == {c \in Calls : call[c].run = r /\ call[c].pc = "issued"}

(* What is reserved is held by the calls in flight; the calls that were asked *)
(* for and not yet counted leave room below what was generated; a run that was *)
(* told to answer has no call at work, nor has one that is not in a round.    *)
BudgetFits(r) ==
  /\ BudgetGood(budget[r])
  /\ budget[r].reserved = SumFunctionOnSet(HeldBy(r), Calls)
  /\ budget[r].skillReserved = SumFunctionOnSet(SkillHeldBy(r), Calls)
  /\ budget[r].actual + Cardinality(IssuedOf(r)) <= budget[r].generated
  /\ budget[r].noted => /\ budget[r].forceFinal
                        /\ \A c \in CallsOf(r) : call[c].pc \in Waiting
  /\ run[r] # "tools" => InFlight(r) = {}

CallsType == call \in [Calls -> CallRecord] /\ \A c \in Calls : CallFits(call[c])

BudgetInv ==
  /\ CallsType
  /\ run \in [Runs -> {"idle", "model", "tools", "over"}]
  /\ budget \in [Runs -> BudgetRecord]
  /\ \A r \in Runs : BudgetFits(r)

(* The calls as sets of few. *)
LEMMA CallsFinite ==
  \A r : IsFiniteSet(IssuedOf(r)) /\ Cardinality(IssuedOf(r)) \in Nat
<1>1. \A r : IssuedOf(r) \subseteq Calls
  BY DEF IssuedOf
<1>2. QED
  BY <1>1, CallsAssumption, FS_Subset, FS_CardinalityType

(* What calls hold are numbers. *)
LEMMA HeldType ==
  ASSUME NEW k, CallFits(k), NEW r
  PROVE  Held(k, r) \in Nat /\ SkillHeld(k, r) \in Nat
         /\ Held(k, r) \in Int /\ SkillHeld(k, r) \in Int /\ SkillHeld(k, r) <= Held(k, r)
<1>1. Held(k, r) \in Nat
  BY DEF Held, CallFits, CallRecord
<1>2. QED
  BY <1>1 DEF SkillHeld

(* Skills hold no more than all calls do. *)
LEMMA SkillsWithin ==
  ASSUME CallsType, NEW r
  PROVE  /\ SumFunctionOnSet(HeldBy(r), Calls) \in Nat /\ SumFunctionOnSet(SkillHeldBy(r), Calls) \in Nat
         /\ SumFunctionOnSet(SkillHeldBy(r), Calls) <= SumFunctionOnSet(HeldBy(r), Calls)
         /\ \A c \in Calls : /\ HeldBy(r)[c] <= SumFunctionOnSet(HeldBy(r), Calls)
                             /\ SkillHeldBy(r)[c] <= SumFunctionOnSet(SkillHeldBy(r), Calls)
<1> DEFINE F == HeldBy(r)
           G == SkillHeldBy(r)
           Z == [c \in Calls |-> 0]
<1>1. \A c \in Calls : F[c] \in Nat /\ G[c] \in Nat /\ Z[c] = 0 /\ G[c] <= F[c]
  BY HeldType DEF CallsType, HeldBy, SkillHeldBy
<1> HIDE DEF F, G, Z
<1>2. \A c \in Calls : F[c] \in Nat /\ G[c] \in Nat /\ Z[c] \in Nat /\ G[c] <= F[c] + Z[c]
  BY <1>1
<1>3. SumFunctionOnSet(G, Calls) <= SumFunctionOnSet(F, Calls) + SumFunctionOnSet(Z, Calls)
  BY <1>2, CallsAssumption, SumAtMost
<1>4. SumFunctionOnSet(Z, Calls) = 0
  BY <1>1, <1>2, CallsAssumption, SumBounds
<1>5. /\ SumFunctionOnSet(F, Calls) \in Nat /\ SumFunctionOnSet(G, Calls) \in Nat
      /\ \A c \in Calls : F[c] <= SumFunctionOnSet(F, Calls) /\ G[c] <= SumFunctionOnSet(G, Calls)
  BY <1>1, CallsAssumption, SumBounds
<1>6. SumFunctionOnSet(G, Calls) <= SumFunctionOnSet(F, Calls)
  BY <1>3, <1>4, <1>5
<1>7. QED
  BY <1>5, <1>6 DEF F, G

(* Nobody holds anything of a run that is not in a round. *)
LEMMA NothingHeld ==
  ASSUME CallsType, NEW r, \A c \in Calls : call[c].run = r => call[c].pc \notin Holding
  PROVE  /\ SumFunctionOnSet(HeldBy(r), Calls) = 0
         /\ SumFunctionOnSet(SkillHeldBy(r), Calls) = 0
<1>1. \A c \in Calls : HeldBy(r)[c] = 0 /\ SkillHeldBy(r)[c] = 0
  BY DEF HeldBy, SkillHeldBy, Held, SkillHeld
<1>2. \A c \in Calls : HeldBy(r)[c] \in Nat /\ SkillHeldBy(r)[c] \in Nat
  BY <1>1
<1>3. QED
  BY <1>1, <1>2, CallsAssumption, SumBounds

(* A call that steps *)
Steps1(c, d, f) ==
  /\ call[c].pc \notin {"unused", "done", "lost"}
  /\ CallFits(d) /\ d.run = call[c].run /\ d.tool = call[c].tool /\ d.pc \notin {"unused", "issued"}
  /\ call' = [call EXCEPT ![c] = d]
  /\ budget' = [budget EXCEPT ![call[c].run] = f]
  /\ run' = run
  /\ Moved(budget[call[c].run], f, call[c].tool, Held(call[c], call[c].run), Held(d, call[c].run))
  /\ f.actual <= budget[call[c].run].actual + (IF call[c].pc = "issued" THEN 1 ELSE 0)
  /\ f.noted /\ call[c].pc \in Waiting => d.pc \in Waiting

(* A step of one call changes the sums by what the call holds. *)
LEMMA SumsMove ==
  ASSUME CallsType, NEW c \in Calls, NEW d, CallFits(d), d.run = call[c].run, d.tool = call[c].tool,
         call' = [call EXCEPT ![c] = d], NEW r
  PROVE  /\ SumFunctionOnSet(HeldBy(r)', Calls)
              = SumFunctionOnSet(HeldBy(r), Calls) - Held(call[c], r) + Held(d, r)
         /\ SumFunctionOnSet(SkillHeldBy(r)', Calls)
              = SumFunctionOnSet(SkillHeldBy(r), Calls) - SkillHeld(call[c], r) + SkillHeld(d, r)
<1> DEFINE F == HeldBy(r)
           G == HeldBy(r)'
           P == SkillHeldBy(r)
           Q == SkillHeldBy(r)'
<1>1. call'[c] = d /\ \A x \in Calls \ {c} : call'[x] = call[x]
  BY DEF CallsType
<1>2. \A x \in Calls : CallFits(call'[x]) /\ CallFits(call[x])
  BY <1>1 DEF CallsType
<1>3. \A x \in Calls : /\ F[x] = Held(call[x], r) /\ G[x] = Held(call'[x], r)
                       /\ P[x] = SkillHeld(call[x], r) /\ Q[x] = SkillHeld(call'[x], r)
  BY DEF HeldBy, SkillHeldBy
<1>4. \A x \in Calls : F[x] \in Int /\ G[x] \in Int /\ P[x] \in Int /\ Q[x] \in Int
  BY <1>2, <1>3, HeldType
<1>5. \A x \in Calls \ {c} : F[x] = G[x] /\ P[x] = Q[x]
  BY <1>1, <1>3
<1>6. F[c] = Held(call[c], r) /\ G[c] = Held(d, r) /\ P[c] = SkillHeld(call[c], r) /\ Q[c] = SkillHeld(d, r)
  BY <1>1, <1>3
<1> HIDE DEF F, G, P, Q
<1>7. SumFunctionOnSet(G, Calls) = SumFunctionOnSet(F, Calls) - F[c] + G[c]
  <2>1. PICK f, g : f = F /\ g = G
    OBVIOUS
  <2>2. (\A x \in Calls : f[x] \in Int /\ g[x] \in Int) /\ (\A x \in Calls \ {c} : f[x] = g[x])
    BY <1>4, <1>5, <2>1
  <2>3. IsFiniteSet(Calls)
    BY CallsAssumption
  <2>4. SumFunctionOnSet(g, Calls) = SumFunctionOnSet(f, Calls) - f[c] + g[c]
    BY <2>2, <2>3, SumChanges
  <2>5. QED
    BY <2>1, <2>4
<1>8. SumFunctionOnSet(Q, Calls) = SumFunctionOnSet(P, Calls) - P[c] + Q[c]
  <2>1. PICK f, g : f = P /\ g = Q
    OBVIOUS
  <2>2. (\A x \in Calls : f[x] \in Int /\ g[x] \in Int) /\ (\A x \in Calls \ {c} : f[x] = g[x])
    BY <1>4, <1>5, <2>1
  <2>3. IsFiniteSet(Calls)
    BY CallsAssumption
  <2>4. SumFunctionOnSet(g, Calls) = SumFunctionOnSet(f, Calls) - f[c] + g[c]
    BY <2>2, <2>3, SumChanges
  <2>5. QED
    BY <2>1, <2>4
<1>9. QED
  BY <1>6, <1>7, <1>8 DEF F, G, P, Q

(* Whatever a call does with the budget of its run, all budgets still fit. *)
LEMMA CallSteps ==
  ASSUME BudgetInv, NEW c \in Calls, NEW d, NEW f, Steps1(c, d, f)
  PROVE  BudgetInv'
<1>0. PICK r \in Runs : r = call[c].run
  BY DEF BudgetInv, CallsType, CallFits, Steps1
<1> DEFINE b == budget[r]
<1>1. /\ r \in Runs /\ call[c].tool \in Tools /\ call[c].pc \in Steps /\ CallsType /\ BudgetFits(r)
      /\ b \in BudgetRecord /\ r = call[c].run
  BY <1>0 DEF BudgetInv, CallsType, CallFits, CallRecord, Steps1
<1>2. call'[c] = d /\ (\A x \in Calls \ {c} : call'[x] = call[x]) /\ call' \in [Calls -> CallRecord]
  BY <1>1 DEF CallsType, Steps1, CallFits
<1>3. CallsType'
  BY <1>1, <1>2 DEF CallsType, Steps1
<1>4. f \in BudgetRecord /\ budget'[r] = f /\ (\A q \in Runs \ {r} : budget'[q] = budget[q])
      /\ budget' \in [Runs -> BudgetRecord]
  BY <1>1 DEF BudgetInv, Steps1, Moved, BudgetGood
<1>5. run' = run
  BY DEF Steps1
<1>6. \A q : /\ SumFunctionOnSet(HeldBy(q)', Calls)
                  = SumFunctionOnSet(HeldBy(q), Calls) - Held(call[c], q) + Held(d, q)
             /\ SumFunctionOnSet(SkillHeldBy(q)', Calls)
                  = SumFunctionOnSet(SkillHeldBy(q), Calls) - SkillHeld(call[c], q) + SkillHeld(d, q)
  BY <1>1, SumsMove DEF Steps1
<1>7. ASSUME NEW q \in Runs, q # r PROVE BudgetFits(q)'
  <2>1. Held(call[c], q) = 0 /\ Held(d, q) = 0 /\ SkillHeld(call[c], q) = 0 /\ SkillHeld(d, q) = 0
    BY <1>1, <1>7 DEF Held, SkillHeld, Steps1
  <2>2. /\ SumFunctionOnSet(HeldBy(q), Calls) \in Nat /\ SumFunctionOnSet(SkillHeldBy(q), Calls) \in Nat
    BY <1>1, SkillsWithin
  <2>3. /\ SumFunctionOnSet(HeldBy(q)', Calls) = SumFunctionOnSet(HeldBy(q), Calls)
        /\ SumFunctionOnSet(SkillHeldBy(q)', Calls) = SumFunctionOnSet(SkillHeldBy(q), Calls)
    BY <1>6, <2>1, <2>2
  <2>4. IssuedOf(q)' = IssuedOf(q) /\ CallsOf(q)' = CallsOf(q) /\ InFlight(q)' = InFlight(q)
    BY <1>1, <1>2, <1>7 DEF IssuedOf, CallsOf, InFlight, Steps1
  <2>5. \A x \in CallsOf(q) : call'[x] = call[x]
    BY <1>1, <1>2, <1>7 DEF CallsOf
  <2>6. BudgetFits(q)
    BY DEF BudgetInv
  <2>7. QED
    BY <1>4, <1>5, <1>7, <2>3, <2>4, <2>5, <2>6 DEF BudgetFits
<1>8. BudgetFits(r)'
  <2> DEFINE h == Held(call[c], r)
             k == Held(d, r)
  <2>1. /\ BudgetGood(f)
        /\ f.reserved = b.reserved - h + k
        /\ f.skillReserved = IF call[c].tool \in SkillTools THEN b.skillReserved - h + k ELSE b.skillReserved
        /\ f.generated = b.generated /\ f.noted = b.noted /\ (b.forceFinal => f.forceFinal)
    BY <1>1 DEF Steps1, Moved
  <2>2. h \in Nat /\ k \in Nat
    BY <1>1, HeldType DEF CallsType, Steps1
  <2>3. /\ SumFunctionOnSet(HeldBy(r), Calls) \in Nat /\ SumFunctionOnSet(SkillHeldBy(r), Calls) \in Nat
    BY <1>1, SkillsWithin
  <2>4. b.reserved = SumFunctionOnSet(HeldBy(r), Calls) /\ b.skillReserved = SumFunctionOnSet(SkillHeldBy(r), Calls)
    BY <1>1 DEF BudgetFits
  <2>5. SkillHeld(call[c], r) = (IF call[c].tool \in SkillTools THEN h ELSE 0)
        /\ SkillHeld(d, r) = (IF call[c].tool \in SkillTools THEN k ELSE 0)
    BY <1>1 DEF SkillHeld, Steps1
  <2>6. f.reserved = SumFunctionOnSet(HeldBy(r)', Calls)
    BY <1>6, <2>1, <2>4
  <2>7. f.skillReserved = SumFunctionOnSet(SkillHeldBy(r)', Calls)
    <3>1. SumFunctionOnSet(SkillHeldBy(r)', Calls)
            = SumFunctionOnSet(SkillHeldBy(r), Calls) - SkillHeld(call[c], r) + SkillHeld(d, r)
      BY <1>6
    <3> HIDE DEF h, k, b
    <3>2. QED
      BY <2>1, <2>2, <2>3, <2>4, <2>5, <3>1
  <2>8. f.actual + Cardinality(IssuedOf(r)') <= f.generated
    <3>1. f.actual \in Int /\ b.actual \in Int /\ b.generated \in Nat
      BY <1>1, <1>4, BudgetFields
    <3>2. b.actual + Cardinality(IssuedOf(r)) <= b.generated
      BY <1>1 DEF BudgetFits
    <3>3. Cardinality(IssuedOf(r)) \in Nat /\ IsFiniteSet(IssuedOf(r))
      BY CallsFinite
    <3>4. CASE call[c].pc = "issued"
      <4>1. IssuedOf(r)' = IssuedOf(r) \ {c} /\ c \in IssuedOf(r)
        BY <1>1, <1>2, <3>4 DEF IssuedOf, Steps1
      <4>2. Cardinality(IssuedOf(r)') = Cardinality(IssuedOf(r)) - 1
        BY <3>3, <4>1, FS_RemoveElement
      <4>3. f.actual <= b.actual + 1
        BY <1>1, <3>4 DEF Steps1
      <4> HIDE DEF b
      <4>4. QED
        BY <2>1, <3>1, <3>2, <3>3, <4>2, <4>3
    <3>5. CASE call[c].pc # "issued"
      <4>1. IssuedOf(r)' = IssuedOf(r)
        BY <1>1, <1>2, <3>5 DEF IssuedOf, Steps1
      <4>2. f.actual <= b.actual
        BY <1>1, <3>1, <3>5 DEF Steps1
      <4> HIDE DEF b
      <4>3. QED
        BY <2>1, <3>1, <3>2, <3>3, <4>1, <4>2
    <3>6. QED
      BY <3>4, <3>5
  <2>9. ASSUME f.noted PROVE f.forceFinal /\ \A x \in CallsOf(r)' : call'[x].pc \in Waiting
    <3>1. b.forceFinal /\ \A x \in CallsOf(r) : call[x].pc \in Waiting
      BY <1>1, <2>1, <2>9 DEF BudgetFits
    <3>2. c \in CallsOf(r) /\ CallsOf(r)' = CallsOf(r)
      BY <1>1, <1>2 DEF CallsOf, Steps1
    <3>3. d.pc \in Waiting
      BY <2>9, <3>1, <3>2 DEF Steps1
    <3>4. \A x \in CallsOf(r) : call'[x].pc \in Waiting
      <4>1. CallsOf(r) \subseteq Calls
        BY DEF CallsOf
      <4>2. QED
        BY <1>2, <3>1, <3>3, <4>1
    <3>5. QED
      BY <2>1, <3>1, <3>2, <3>4
  <2>10. run[r] = "tools"
    <3>1. c \in InFlight(r)
      BY <1>1 DEF InFlight, CallsOf, Steps1
    <3>2. QED
      BY <1>1, <3>1 DEF BudgetFits
  <2>11. QED
    BY <1>4, <1>5, <2>1, <2>6, <2>7, <2>8, <2>9, <2>10 DEF BudgetFits
<1>9. QED
  BY <1>3, <1>4, <1>5, <1>7, <1>8 DEF BudgetInv

(* A step of a call that leaves its budget alone. *)
LEMMA QuietSteps ==
  ASSUME BudgetInv, NEW c \in Calls, NEW d,
         call[c].pc \notin {"unused", "done", "lost"},
         CallFits(d), d.run = call[c].run, d.tool = call[c].tool, d.pc \notin {"unused", "issued"},
         Held(d, call[c].run) = Held(call[c], call[c].run),
         call[c].pc \in Waiting => d.pc \in Waiting,
         call' = [call EXCEPT ![c] = d], budget' = budget, run' = run
  PROVE  BudgetInv'
<1>1. PICK r \in Runs : r = call[c].run
  BY DEF BudgetInv, CallsType, CallFits
<1> DEFINE b == budget[r]
<1>2. BudgetGood(b) /\ b \in BudgetRecord /\ CallFits(call[c])
  BY DEF BudgetInv, BudgetFits, CallsType
<1>3. /\ b.reserved \in Nat /\ b.skillReserved \in Nat /\ b.actual \in Int
      /\ Held(call[c], r) \in Nat
  BY <1>2, BudgetFields, HeldType
<1>4. Moved(b, b, call[c].tool, Held(call[c], r), Held(d, r))
  BY <1>1, <1>2, <1>3 DEF Moved
<1>5. budget' = [budget EXCEPT ![r] = b]
  BY DEF BudgetInv
<1>6. b.actual <= b.actual + (IF call[c].pc = "issued" THEN 1 ELSE 0)
  BY <1>3
<1>7. Steps1(c, d, b)
  BY <1>1, <1>4, <1>5, <1>6 DEF Steps1
<1>8. QED
  BY <1>7, CallSteps

(* What a call holds is covered by the budget of its run. *)
LEMMA HeldIsCovered ==
  ASSUME BudgetInv, NEW c \in Calls, call[c].pc \in Holding
  PROVE  /\ call[c].run \in Runs /\ call[c].tool \in Tools /\ call[c].grant \in Nat
         /\ BudgetGood(Budget(c)) /\ Held(call[c], call[c].run) = call[c].grant
         /\ Covers(Budget(c), call[c].tool, call[c].grant)
         /\ Budget(c) = budget[call[c].run]
<1>1. PICK r \in Runs : r = call[c].run
  BY DEF BudgetInv, CallsType, CallFits, Holding
<1>2. /\ call[c].tool \in Tools /\ call[c].grant \in Nat /\ CallsType /\ BudgetFits(r)
  BY DEF BudgetInv, CallsType, CallFits, CallRecord, Holding
<1>3. Held(call[c], r) = call[c].grant
  BY <1>1 DEF Held
<1>4. HeldBy(r)[c] = call[c].grant /\ SkillHeldBy(r)[c] = IF call[c].tool \in SkillTools THEN call[c].grant ELSE 0
  BY <1>3 DEF HeldBy, SkillHeldBy, SkillHeld
<1>5. /\ HeldBy(r)[c] <= SumFunctionOnSet(HeldBy(r), Calls)
      /\ SkillHeldBy(r)[c] <= SumFunctionOnSet(SkillHeldBy(r), Calls)
  BY <1>2, SkillsWithin
<1>6. Covers(budget[r], call[c].tool, call[c].grant)
  BY <1>2, <1>4, <1>5 DEF Covers, BudgetFits
<1>7. QED
  BY <1>1, <1>2, <1>3, <1>6 DEF BudgetFits, Budget, RunOf

(* Call k at another step, and at its end. *)
At(k, pc)       == [k EXCEPT !.pc = pc]
Ended(k, pc, o) == [k EXCEPT !.pc = pc, !.outcome = o, !.grant = 0]

(* A new step of a call, with the fields it keeps. *)
LEMMA NextPc ==
  ASSUME BudgetInv, NEW c \in Calls, call[c].pc # "unused", NEW pc \in Steps \ {"unused"}
  PROVE  /\ CallFits(At(call[c], pc)) /\ At(call[c], pc).run = call[c].run
         /\ At(call[c], pc).tool = call[c].tool /\ At(call[c], pc).pc = pc
         /\ At(call[c], pc).grant = call[c].grant /\ At(call[c], pc).outcome = call[c].outcome
         /\ Set(c, pc) => call' = [call EXCEPT ![c] = At(call[c], pc)]
<1>1. call[c] \in CallRecord /\ call[c].run \in Runs /\ call[c].tool \in Tools
  BY DEF BudgetInv, CallsType, CallFits
<1>2. Set(c, pc) => call' = [call EXCEPT ![c] = At(call[c], pc)]
  BY DEF Set, At
<1>3. QED
  BY <1>1, <1>2 DEF CallFits, CallRecord, At

(* The end of a call's hold, with its outcome. *)
LEMMA NextOutcome ==
  ASSUME BudgetInv, NEW c \in Calls, call[c].pc # "unused", NEW pc \in Steps \ {"unused"},
         NEW o \in Outcomes
  PROVE  /\ CallFits(Ended(call[c], pc, o)) /\ Ended(call[c], pc, o).run = call[c].run
         /\ Ended(call[c], pc, o).tool = call[c].tool /\ Ended(call[c], pc, o).pc = pc
         /\ Ended(call[c], pc, o).grant = 0 /\ Ended(call[c], pc, o).outcome = o
         /\ SetOutcome(c, pc, o) => call' = [call EXCEPT ![c] = Ended(call[c], pc, o)]
<1> DEFINE d == Ended(call[c], pc, o)
<1>1. call[c] \in CallRecord /\ call[c].run \in Runs /\ call[c].tool \in Tools
  BY DEF BudgetInv, CallsType, CallFits
<1>2. SetOutcome(c, pc, o) => call' = [call EXCEPT ![c] = d]
  BY DEF SetOutcome, Ended
<1>3. /\ d.run = call[c].run /\ d.tool = call[c].tool /\ d.pc = pc
      /\ d.grant = 0 /\ d.outcome = o
  BY <1>1 DEF CallRecord, Ended
<1>4. d \in CallRecord
  BY <1>1 DEF CallRecord, Ended
<1> HIDE DEF d
<1>5. CallFits(d)
  BY <1>1, <1>3, <1>4 DEF CallFits
<1>6. QED
  BY <1>2, <1>3, <1>5 DEF d

(* A call that holds nothing of the kind of its step. *)
LEMMA NotHeld ==
  ASSUME NEW k, k.pc \notin Holding, NEW r PROVE Held(k, r) = 0
BY DEF Held

(* The grants and refusals of prepareToolCall. *)
LEMMA PrepareFits ==
  ASSUME BudgetInv, NEW c \in Calls, Prepare(c) PROVE BudgetInv'
<1>1. call[c].pc = "issued" /\ run' = run
  BY DEF Prepare
<1>2. PICK r \in Runs : r = call[c].run /\ BudgetGood(budget[r]) /\ BudgetFits(r) /\ call[c].tool \in Tools
                        /\ budget[r] \in BudgetRecord /\ CallsType /\ CallFits(call[c])
  BY <1>1 DEF BudgetInv, BudgetFits, CallsType, CallFits
<1> DEFINE b == budget[r]
           tool == call[c].tool
<1>3. Held(call[c], r) = 0 /\ call[c].pc \in Waiting
  BY <1>1 DEF Held, Holding, Waiting
<1>4. Budget(c) = b /\ Tool(c) = tool /\ RunOf(c) = r
  BY <1>2 DEF Budget, RunOf, Tool
<1>5. CASE RunOf(c) \in stopped
  <2>1. SetOutcome(c, "done", "canceled") /\ budget' = budget
    BY <1>5 DEF Prepare
  <2> DEFINE d == Ended(call[c], "done", "canceled")
  <2>2. /\ CallFits(d) /\ d.run = call[c].run /\ d.tool = call[c].tool /\ d.pc = "done"
        /\ call' = [call EXCEPT ![c] = d]
    <3>1. call[c].pc # "unused" /\ "done" \in Steps \ {"unused"} /\ "canceled" \in Outcomes
      BY <1>1 DEF Steps, Outcomes
    <3>2. QED
      BY <2>1, <3>1, NextOutcome
  <2> HIDE DEF d
  <2>3. Held(d, r) = 0 /\ d.pc \in Waiting
    BY <2>2, NotHeld DEF Holding, Waiting
  <2>4. QED
    BY <1>1, <1>2, <1>3, <2>1, <2>2, <2>3, QuietSteps
<1>6. CASE RunOf(c) \notin stopped /\ Refuses(b, tool)
  <2>1. Set(c, "blocked") /\ budget' = [budget EXCEPT ![r] = Closed(b, tool)]
    BY <1>4, <1>6 DEF Prepare, SetBudget
  <2> DEFINE d == At(call[c], "blocked")
             f == Closed(b, tool)
  <2>2. /\ CallFits(d) /\ d.run = call[c].run /\ d.tool = call[c].tool /\ d.pc = "blocked"
        /\ call' = [call EXCEPT ![c] = d]
    BY <1>1, <2>1, NextPc DEF Steps
  <2>3. b.actual <= b.generated /\ b.skillReserved <= b.reserved
    <3>1. /\ b.actual \in Int /\ b.generated \in Nat /\ Cardinality(IssuedOf(r)) \in Nat
          /\ b.actual + Cardinality(IssuedOf(r)) <= b.generated
      BY <1>2, CallsFinite, BudgetFields DEF BudgetFits
    <3>2. b.skillReserved <= b.reserved
      BY <1>2, SkillsWithin DEF BudgetFits
    <3> HIDE DEF b
    <3>3. QED
      BY <3>1, <3>2
  <2>4. Moved(b, f, tool, 0, 0) /\ f.actual = b.actual
    BY <1>2, <1>6, <2>3, RefusalMoves
  <2> HIDE DEF d, f
  <2>5. Held(d, r) = 0 /\ d.pc \in Waiting
    BY <2>2, NotHeld DEF Holding, Waiting
  <2>6. f.actual <= b.actual + (IF call[c].pc = "issued" THEN 1 ELSE 0)
    <3>1. b.actual \in Int
      BY <1>2, BudgetFields
    <3>2. QED
      BY <2>4, <3>1
  <2>7. Steps1(c, d, f)
    BY <1>1, <1>2, <1>3, <2>1, <2>2, <2>4, <2>5, <2>6 DEF Steps1, f
  <2>8. QED
    BY <2>7, CallSteps
<1>7. CASE RunOf(c) \notin stopped /\ ~Refuses(b, tool)
  <2> DEFINE g == Limit(b, tool)
             f == Granted(b, tool, g)
             d == [call[c] EXCEPT !.pc = "granted", !.grant = g]
  <2>1. call' = [call EXCEPT ![c] = d] /\ budget' = [budget EXCEPT ![r] = f]
    <3>1. call' = [call EXCEPT ![c].pc = "granted", ![c].grant = g]
      BY <1>4, <1>7 DEF Prepare
    <3>2. budget' = [budget EXCEPT ![r] = f]
      BY <1>4, <1>7 DEF Prepare, SetBudget
    <3>3. QED
      BY <3>1, <3>2
  <2>2. /\ g \in Nat /\ ~b.forceFinal /\ Moved(b, f, tool, 0, g) /\ f.actual = b.actual + 1
    BY <1>2, <1>7, GrantMoves
  <2> HIDE DEF g, f
  <2>3. /\ CallFits(d) /\ d.run = call[c].run /\ d.tool = tool /\ d.pc = "granted" /\ d.grant = g
    <3>1. call[c] \in CallRecord /\ call[c].run \in Runs
      BY <1>2 DEF CallFits
    <3>2. QED
      BY <1>2, <2>2, <3>1 DEF CallFits, CallRecord, Steps
  <2> HIDE DEF d
  <2>4. Held(d, r) = g
    BY <1>2, <2>3 DEF Held, Holding
  <2>5. ~f.noted
    <3>1. ~b.noted
      BY <1>2, <2>2 DEF BudgetFits
    <3>2. QED
      BY <2>2, <3>1 DEF Moved
  <2>6. f.actual <= b.actual + (IF call[c].pc = "issued" THEN 1 ELSE 0)
    <3>1. b.actual \in Int
      BY <1>2, BudgetFields
    <3>2. QED
      BY <1>1, <2>2, <3>1
  <2>7. Steps1(c, d, f)
    BY <1>1, <1>2, <1>3, <2>1, <2>2, <2>3, <2>4, <2>5, <2>6 DEF Steps1
  <2>8. QED
    BY <2>7, CallSteps
<1>8. QED
  BY <1>5, <1>6, <1>7

(* A call that has its grant or its notice behind it goes on, and the budget *)
(* of its run moves with it.                                                 *)
LEMMA Advances ==
  ASSUME BudgetInv, NEW c \in Calls, call[c].pc \notin {"unused", "issued", "done", "lost"},
         NEW d, CallFits(d), d.run = call[c].run, d.tool = call[c].tool, d.pc \notin {"unused", "issued"},
         call' = [call EXCEPT ![c] = d], run' = run,
         NEW f, SetBudget(RunOf(c), f), f.actual <= Budget(c).actual,
         Moved(Budget(c), f, Tool(c), Held(call[c], RunOf(c)), Held(d, RunOf(c))),
         call[c].pc \in Waiting => d.pc \in Waiting
  PROVE  BudgetInv'
<1>1. Steps1(c, d, f)
  <2>1. Budget(c).actual \in Int
    BY BudgetFields DEF BudgetInv, Budget, RunOf, CallsType, CallFits
  <2>2. f.actual <= Budget(c).actual + (IF call[c].pc = "issued" THEN 1 ELSE 0)
    BY <2>1
  <2>3. QED
    BY <2>2 DEF Steps1, SetBudget, RunOf, Budget, Tool
<1>2. QED
  BY <1>1, CallSteps

(* Whatever way a grant ends, the call lets go of it. *)
LEMMA HolderEnds ==
  ASSUME BudgetInv, NEW c \in Calls, call[c].pc \in Holding, run' = run,
         NEW f, SetBudget(RunOf(c), f), f.actual <= Budget(c).actual,
         Moved(Budget(c), f, Tool(c), Grant(c), 0),
         NEW pc \in {"done", "record", "blank"},
         Set(c, pc) \/ \E o \in Outcomes : SetOutcome(c, pc, o)
  PROVE  BudgetInv'
<1>1. /\ call[c].pc \notin {"unused", "issued", "done", "lost"} /\ call[c].pc \notin Waiting
      /\ pc \in Steps \ {"unused"} /\ pc \notin {"unused", "issued"} /\ pc \notin Holding
  BY DEF Holding, Waiting, Steps
<1>2. Held(call[c], RunOf(c)) = Grant(c)
  BY HeldIsCovered DEF RunOf, Grant
<1>3. CASE Set(c, pc)
  <2>1. PICK d : d = At(call[c], pc)
    OBVIOUS
  <2>2. /\ CallFits(d) /\ d.run = call[c].run /\ d.tool = call[c].tool /\ d.pc = pc
        /\ call' = [call EXCEPT ![c] = d]
    BY <1>1, <1>3, <2>1, NextPc
  <2>3. Held(d, RunOf(c)) = 0
    BY <1>1, <2>2, NotHeld
  <2>4. QED
    BY <1>1, <1>2, <2>2, <2>3, Advances
<1>4. ASSUME NEW o \in Outcomes, SetOutcome(c, pc, o) PROVE BudgetInv'
  <2>1. PICK d : d = Ended(call[c], pc, o)
    OBVIOUS
  <2>2. /\ CallFits(d) /\ d.run = call[c].run /\ d.tool = call[c].tool /\ d.pc = pc
        /\ call' = [call EXCEPT ![c] = d]
    BY <1>1, <1>4, <2>1, NextOutcome
  <2>3. Held(d, RunOf(c)) = 0
    BY <1>1, <2>2, NotHeld
  <2>4. QED
    BY <1>1, <1>2, <2>2, <2>3, Advances
<1>5. QED
  BY <1>3, <1>4

(* A notice, of a call that was blocked or whose result was blank. *)
LEMMA NoticeFits ==
  ASSUME BudgetInv, NEW c \in Calls, Notice(c) \/ ReplaceBlank(c) PROVE BudgetInv'
<1>1. PICK pc \in {"done", "record"}, o \in Outcomes :
        /\ SetOutcome(c, pc, o)
        /\ SetBudget(RunOf(c), Noticed(Budget(c))) \/ budget' = budget
        /\ call[c].pc \in {"blocked", "blank"}
        /\ call[c].pc \in Waiting => pc \in Waiting
        /\ run' = run
  <2>1. CASE Notice(c)
    <3>1. /\ call[c].pc = "blocked" /\ run' = run
          /\ \/ SetOutcome(c, "done", "canceled") /\ budget' = budget
             \/ SetOutcome(c, "done", "blocked") /\ SetBudget(RunOf(c), Noticed(Budget(c)))
      BY <2>1 DEF Notice
    <3>2. "canceled" \in Outcomes /\ "blocked" \in Outcomes /\ "done" \in Waiting
      BY DEF Outcomes, Waiting
    <3>3. QED
      BY <3>1, <3>2
  <2>2. CASE ReplaceBlank(c)
    <3>1. /\ call[c].pc = "blank" /\ run' = run
          /\ SetOutcome(c, "record", "failed") /\ SetBudget(RunOf(c), Noticed(Budget(c)))
      BY <2>2 DEF ReplaceBlank
    <3>2. "failed" \in Outcomes /\ "blank" \notin Waiting
      BY DEF Outcomes, Waiting
    <3>3. QED
      BY <3>1, <3>2
  <2>3. QED
    BY <2>1, <2>2
<1>2. PICK d : d = Ended(call[c], pc, o)
  OBVIOUS
<1>3. call[c].pc # "unused" /\ pc \in Steps \ {"unused"} /\ pc \notin Holding /\ call[c].pc \notin Holding
      /\ call[c].pc \notin {"unused", "issued", "done", "lost"} /\ pc \notin {"unused", "issued"}
  BY <1>1 DEF Steps, Holding
<1>4. /\ CallFits(d) /\ d.run = call[c].run /\ d.tool = call[c].tool /\ d.pc = pc
      /\ call' = [call EXCEPT ![c] = d]
  BY <1>1, <1>2, <1>3, NextOutcome
<1>5. Held(d, call[c].run) = 0 /\ Held(call[c], call[c].run) = 0
  BY <1>3, <1>4, NotHeld
<1>6. CASE budget' = budget
  BY <1>1, <1>3, <1>4, <1>5, <1>6, QuietSteps
<1>7. CASE SetBudget(RunOf(c), Noticed(Budget(c)))
  <2>1. BudgetGood(Budget(c))
    BY <1>3 DEF BudgetInv, BudgetFits, CallsType, CallFits, Budget, RunOf
  <2>2. PICK f : f = Noticed(Budget(c))
    OBVIOUS
  <2>3. Moved(Budget(c), f, Tool(c), 0, 0) /\ f.actual <= Budget(c).actual
    BY <2>1, <2>2, NoticeMoves
  <2>4. Moved(Budget(c), f, Tool(c), Held(call[c], RunOf(c)), Held(d, RunOf(c)))
    BY <1>5, <2>3 DEF RunOf
  <2>5. QED
    BY <1>1, <1>3, <1>4, <1>7, <2>2, <2>3, <2>4, Advances
<1>8. QED
  BY <1>1, <1>6, <1>7

(* Steps of a call that leave the budget alone. *)
LEMMA QuietFits ==
  ASSUME BudgetInv, NEW c \in Calls, budget' = budget, run' = run,
         NEW pc \in Steps \ {"unused", "issued"}, Set(c, pc),
         \/ call[c].pc \in Holding /\ pc \in Holding
         \/ call[c].pc = "record" /\ pc = "done"
  PROVE  BudgetInv'
<1>1. PICK d : d = At(call[c], pc)
  OBVIOUS
<1>2. /\ call[c].pc \notin {"unused", "done", "lost"} /\ call[c].pc \notin Waiting
      /\ pc \in Steps \ {"unused"} /\ pc \notin {"unused", "issued"}
  BY DEF Holding, Waiting, Steps
<1>3. /\ CallFits(d) /\ d.run = call[c].run /\ d.tool = call[c].tool /\ d.pc = pc
      /\ d.grant = call[c].grant
      /\ call' = [call EXCEPT ![c] = d]
  BY <1>1, <1>2, NextPc
<1>4. Held(d, call[c].run) = Held(call[c], call[c].run)
  BY <1>3 DEF Held, Holding
<1>5. QED
  BY <1>2, <1>3, <1>4, QuietSteps

(* The quota reserved, or not. *)
LEMMA ReserveFits ==
  ASSUME BudgetInv, NEW c \in Calls, Reserve(c) PROVE BudgetInv'
<1>1. /\ call[c].pc \in Holding /\ budget' = budget /\ run' = run
      /\ Set(c, "reserved") \/ Set(c, "refused")
  BY DEF Reserve, Holding
<1>2. "reserved" \in Holding /\ "refused" \in Holding /\ "reserved" \in Steps \ {"unused", "issued"}
      /\ "refused" \in Steps \ {"unused", "issued"}
  BY DEF Holding, Steps
<1>3. QED
  BY <1>1, <1>2, QuietFits

(* A refusal gives the call back, and the grant now or with the error. *)
LEMMA RefundFits ==
  ASSUME BudgetInv, NEW c \in Calls, Refund(c) PROVE BudgetInv'
<1>1. call[c].pc = "refused" /\ call[c].pc \in Holding /\ run' = run
  BY DEF Refund, Holding
<1>2. /\ call[c].tool \in Tools /\ Grant(c) \in Nat
      /\ BudgetGood(Budget(c)) /\ Held(call[c], RunOf(c)) = Grant(c)
      /\ Covers(Budget(c), Tool(c), Grant(c))
  BY <1>1, HeldIsCovered DEF RunOf, Grant, Tool
<1>3. CASE RunOf(c) \in stopped
  <2>1. PICK f : f = GrantCanceled(Budget(c), Tool(c), Grant(c), TRUE)
    OBVIOUS
  <2>2. SetBudget(RunOf(c), f) /\ SetOutcome(c, "done", "canceled") /\ "canceled" \in Outcomes
    BY <1>3, <2>1 DEF Refund, Outcomes
  <2>3. Moved(Budget(c), f, Tool(c), Grant(c), 0) /\ f.actual <= Budget(c).actual
    BY <1>2, <2>1, CancelMoves
  <2>4. QED
    BY <1>1, <2>2, <2>3, HolderEnds
<1>4. CASE RunOf(c) \notin stopped
  <2>1. PICK f : f = [Budget(c) EXCEPT !.actual = @ - 1]
    OBVIOUS
  <2>2. SetBudget(RunOf(c), f) /\ Set(c, "refunded")
    BY <1>4, <2>1 DEF Refund
  <2>3. Moved(Budget(c), f, Tool(c), Grant(c), Grant(c)) /\ f.actual <= Budget(c).actual
    BY <1>2, <2>1, UncountMoves
  <2>4. PICK d : d = At(call[c], "refunded")
    OBVIOUS
  <2>5. "refunded" \in Steps \ {"unused"} /\ "refunded" \in Holding /\ call[c].pc \notin Waiting
    BY <1>1 DEF Steps, Holding, Waiting
  <2>6. /\ CallFits(d) /\ d.run = call[c].run /\ d.tool = call[c].tool /\ d.pc = "refunded"
        /\ d.grant = call[c].grant
        /\ call' = [call EXCEPT ![c] = d]
    BY <1>1, <2>2, <2>4, <2>5, NextPc
  <2>7. Held(d, RunOf(c)) = Grant(c)
    BY <2>5, <2>6 DEF Held, RunOf, Grant
  <2>8. QED
    BY <1>1, <1>2, <2>2, <2>3, <2>5, <2>6, <2>7, Advances
<1>5. QED
  BY <1>3, <1>4

(* The error of a refused call takes its grant. *)
LEMMA FinishRefusedFits ==
  ASSUME BudgetInv, NEW c \in Calls, FinishRefused(c) PROVE BudgetInv'
<1>1. call[c].pc \in Holding /\ run' = run
  BY DEF FinishRefused, Holding
<1>2. /\ Grant(c) \in Nat /\ BudgetGood(Budget(c)) /\ Covers(Budget(c), Tool(c), Grant(c))
  BY <1>1, HeldIsCovered DEF RunOf, Grant, Tool
<1>3. MinOf(Small, Grant(c)) \in Nat /\ MinOf(Small, Grant(c)) <= Grant(c)
  BY <1>2, CallsAssumption DEF MinOf
<1>4. PICK f : f = Finished(Budget(c), Tool(c), Grant(c), MinOf(Small, Grant(c)))
  OBVIOUS
<1>5. SetBudget(RunOf(c), f) /\ SetOutcome(c, "done", "refused") /\ "refused" \in Outcomes
  BY <1>4 DEF FinishRefused, Outcomes
<1>6. Moved(Budget(c), f, Tool(c), Grant(c), 0) /\ f.actual <= Budget(c).actual
  BY <1>2, <1>3, <1>4, FinishMoves
<1>7. QED
  BY <1>1, <1>5, <1>6, HolderEnds

(* The tool starts, or its run was stopped. *)
LEMMA ExecuteFits ==
  ASSUME BudgetInv, NEW c \in Calls, Execute(c) PROVE BudgetInv'
<1>1. call[c].pc \in Holding /\ run' = run
  BY DEF Execute, Holding
<1>2. /\ Grant(c) \in Nat /\ BudgetGood(Budget(c)) /\ Covers(Budget(c), Tool(c), Grant(c))
  BY <1>1, HeldIsCovered DEF RunOf, Grant, Tool
<1>3. CASE RunOf(c) \in stopped
  <2>1. PICK f : f = GrantCanceled(Budget(c), Tool(c), Grant(c), TRUE)
    OBVIOUS
  <2>2. SetBudget(RunOf(c), f) /\ SetOutcome(c, "record", "canceled") /\ "canceled" \in Outcomes
    BY <1>3, <2>1 DEF Execute, Outcomes
  <2>3. Moved(Budget(c), f, Tool(c), Grant(c), 0) /\ f.actual <= Budget(c).actual
    BY <1>2, <2>1, CancelMoves
  <2>4. QED
    BY <1>1, <2>2, <2>3, HolderEnds
<1>4. CASE RunOf(c) \notin stopped
  <2>1. Set(c, "executing") /\ budget' = budget /\ "executing" \in Holding
        /\ "executing" \in Steps \ {"unused", "issued"}
    BY <1>4 DEF Execute, Holding, Steps
  <2>2. QED
    BY <1>1, <2>1, QuietFits
<1>5. QED
  BY <1>3, <1>4

(* However the tool ends, its grant comes back but for what the result takes. *)
LEMMA ReturnFits ==
  ASSUME BudgetInv, NEW c \in Calls, Return(c) PROVE BudgetInv'
<1>1. call[c].pc \in Holding /\ run' = run
  BY DEF Return, Holding
<1>2. /\ Grant(c) \in Nat /\ BudgetGood(Budget(c)) /\ Covers(Budget(c), Tool(c), Grant(c))
  BY <1>1, HeldIsCovered DEF RunOf, Grant, Tool
<1>3. /\ {"ok", "degraded", "excerpt", "failed", "canceled"} \subseteq Outcomes
      /\ \A o \in {"ok", "degraded", "failed"}, cut \in BOOLEAN : Bounded(o, cut) \in Outcomes
  BY DEF Outcomes, Bounded
<1>4. ASSUME NEW pc \in {"record", "blank"}, SetBudget(RunOf(c), GrantCanceled(Budget(c), Tool(c), Grant(c), FALSE)),
             Set(c, pc) \/ \E o \in Outcomes : SetOutcome(c, pc, o)
      PROVE  BudgetInv'
  <2>1. PICK f : f = GrantCanceled(Budget(c), Tool(c), Grant(c), FALSE)
    OBVIOUS
  <2>2. Moved(Budget(c), f, Tool(c), Grant(c), 0) /\ f.actual <= Budget(c).actual
    BY <1>2, <2>1, CancelMoves
  <2>3. QED
    BY <1>1, <1>4, <2>1, <2>2, HolderEnds
<1>5. ASSUME NEW pc \in {"record", "blank"}, NEW size \in Nat, size <= Grant(c),
             SetBudget(RunOf(c), Finished(Budget(c), Tool(c), Grant(c), size)),
             Set(c, pc) \/ \E o \in Outcomes : SetOutcome(c, pc, o)
      PROVE  BudgetInv'
  <2>1. PICK f : f = Finished(Budget(c), Tool(c), Grant(c), size)
    OBVIOUS
  <2>2. Moved(Budget(c), f, Tool(c), Grant(c), 0) /\ f.actual <= Budget(c).actual
    BY <1>2, <1>5, <2>1, FinishMoves
  <2>3. QED
    BY <1>1, <1>5, <2>1, <2>2, HolderEnds
<1>6. CASE RunOf(c) \in stopped
  <2>1. SetBudget(RunOf(c), GrantCanceled(Budget(c), Tool(c), Grant(c), FALSE)) /\ SetOutcome(c, "record", "canceled")
    BY <1>6 DEF Return
  <2>2. QED
    BY <1>3, <1>4, <2>1
<1>7. CASE RunOf(c) \notin stopped
  <2>1. \/ \E size \in ResultSizes(Grant(c)), o \in {"ok", "degraded", "failed"}, cut \in BOOLEAN :
             /\ SetBudget(RunOf(c), Finished(Budget(c), Tool(c), Grant(c), size))
             /\ SetOutcome(c, "record", Bounded(o, cut))
        \/ SetBudget(RunOf(c), Finished(Budget(c), Tool(c), Grant(c), 0)) /\ Set(c, "blank")
        \/ SetBudget(RunOf(c), GrantCanceled(Budget(c), Tool(c), Grant(c), FALSE)) /\ Set(c, "blank")
    BY <1>7 DEF Return
  <2>2. \A size \in ResultSizes(Grant(c)) : size \in Nat /\ size <= Grant(c)
    BY <1>2, CallsAssumption DEF ResultSizes, MinOf
  <2>3. 0 \in Nat /\ 0 <= Grant(c)
    BY <1>2
  <2>4. QED
    BY <1>3, <1>4, <1>5, <2>1, <2>2, <2>3
<1>8. QED
  BY <1>6, <1>7

(* The outcome written, or not. *)
LEMMA RecordFits ==
  ASSUME BudgetInv, NEW c \in Calls, Record(c) PROVE BudgetInv'
<1>1. call[c].pc = "record" /\ Set(c, "done") /\ budget' = budget /\ run' = run
      /\ "done" \in Steps \ {"unused", "issued"}
  BY DEF Record, Steps
<1>2. QED
  BY <1>1, QuietFits

(* A step of a call leaves all budgets fitting. *)
LEMMA OfCallFits ==
  ASSUME BudgetInv, NEW c \in Calls, OfCall(c) PROVE BudgetInv'
BY PrepareFits, NoticeFits, ReserveFits, RefundFits, FinishRefusedFits, ExecuteFits, ReturnFits, RecordFits
   DEF OfCall

-----------------------------------------------------------------------------
(* The steps of a run *)

(* A run that has no call in flight: nothing is held, nothing to be counted. *)
LEMMA Resting ==
  ASSUME BudgetInv, NEW r \in Runs, InFlight(r) = {}
  PROVE  /\ \A c \in Calls : call[c].run = r => call[c].pc \in {"done", "lost"}
         /\ SumFunctionOnSet(HeldBy(r), Calls) = 0 /\ SumFunctionOnSet(SkillHeldBy(r), Calls) = 0
         /\ IssuedOf(r) = {} /\ budget[r].reserved = 0 /\ budget[r].skillReserved = 0
         /\ budget[r].actual <= budget[r].generated
<1>1. \A c \in Calls : call[c].run = r => call[c].pc \in {"done", "lost"}
  BY DEF InFlight, CallsOf
<1>2. CallsType /\ BudgetFits(r) /\ budget[r] \in BudgetRecord
  BY DEF BudgetInv
<1>3. \A c \in Calls : call[c].run = r => call[c].pc \notin Holding
  BY <1>1 DEF Holding
<1>4. SumFunctionOnSet(HeldBy(r), Calls) = 0 /\ SumFunctionOnSet(SkillHeldBy(r), Calls) = 0
  BY <1>2, <1>3, NothingHeld
<1>5. IssuedOf(r) = {}
  BY <1>1 DEF IssuedOf
<1>6. Cardinality(IssuedOf(r)) = 0
  BY <1>5, FS_EmptySet
<1>7. budget[r].actual \in Int /\ budget[r].generated \in Nat
  BY <1>2, BudgetFields
<1>8. QED
  BY <1>1, <1>2, <1>4, <1>5, <1>6, <1>7 DEF BudgetFits

(* The budget a run may have between its rounds. *)
Rested(f) ==
  /\ BudgetGood(f) /\ f.reserved = 0 /\ f.skillReserved = 0
  /\ f.actual <= f.generated /\ (f.noted => f.forceFinal)

(* A run steps while none of its calls is in flight. *)
LEMMA RunSteps ==
  ASSUME BudgetInv, NEW r \in Runs, InFlight(r) = {}, call' = call,
         NEW f, Rested(f), budget' = [budget EXCEPT ![r] = f],
         NEW s \in {"idle", "model", "tools", "over"}, run' = [run EXCEPT ![r] = s]
  PROVE  BudgetInv'
<1>1. /\ \A c \in Calls : call[c].run = r => call[c].pc \in {"done", "lost"}
      /\ SumFunctionOnSet(HeldBy(r), Calls) = 0 /\ SumFunctionOnSet(SkillHeldBy(r), Calls) = 0
      /\ IssuedOf(r) = {}
  BY Resting
<1>2. f \in BudgetRecord
  BY DEF Rested, BudgetGood
<1>3. budget' \in [Runs -> BudgetRecord] /\ budget'[r] = f /\ \A q \in Runs \ {r} : budget'[q] = budget[q]
  BY <1>2 DEF BudgetInv
<1>4. run' \in [Runs -> {"idle", "model", "tools", "over"}] /\ \A q \in Runs \ {r} : run'[q] = run[q]
  BY DEF BudgetInv
<1>5. CallsType'
  BY DEF BudgetInv, CallsType
<1>6. \A q : /\ HeldBy(q)' = HeldBy(q) /\ SkillHeldBy(q)' = SkillHeldBy(q) /\ IssuedOf(q)' = IssuedOf(q)
             /\ CallsOf(q)' = CallsOf(q) /\ InFlight(q)' = InFlight(q)
  BY DEF HeldBy, SkillHeldBy, IssuedOf, CallsOf, InFlight
<1>7. ASSUME NEW q \in Runs, q # r PROVE BudgetFits(q)'
  <2>1. BudgetFits(q)
    BY DEF BudgetInv
  <2>2. QED
    BY <1>3, <1>4, <1>6, <1>7, <2>1 DEF BudgetFits
<1>8. BudgetFits(r)'
  <2>1. f.actual \in Int /\ f.generated \in Nat
    BY <1>2, BudgetFields
  <2>2. Cardinality(IssuedOf(r)) = 0
    BY <1>1, FS_EmptySet
  <2>3. f.actual + Cardinality(IssuedOf(r)) <= f.generated
    BY <2>1, <2>2 DEF Rested
  <2>4. \A c \in CallsOf(r) : call[c].pc \in Waiting
    BY <1>1 DEF CallsOf, Waiting
  <2>5. QED
    BY <1>1, <1>3, <1>6, <2>3, <2>4 DEF BudgetFits, Rested
<1>9. QED
  BY <1>3, <1>4, <1>5, <1>7, <1>8 DEF BudgetInv

(* A fresh budget, and that of a run between its rounds. *)
LEMMA RestedBudgets ==
  /\ Rested(NewBudget)
  /\ \A r \in Runs : BudgetInv /\ InFlight(r) = {} => Rested(budget[r])
<1>1. Rested(NewBudget)
  BY NewBudgetType, Numbers DEF Rested, BudgetGood, NewBudget
<1>2. ASSUME BudgetInv, NEW r \in Runs, InFlight(r) = {} PROVE Rested(budget[r])
  BY <1>2, Resting DEF Rested, BudgetInv, BudgetFits
<1>3. QED
  BY <1>1, <1>2

(* A run that starts, fails or comes to the end of a round. *)
LEMMA RunFits ==
  ASSUME BudgetInv, NEW r \in Runs, StartRun(r) \/ TurnFails(r) \/ RoundEnds(r)
  PROVE  BudgetInv'
<1>1. InFlight(r) = {} /\ call' = call
  BY DEF BudgetInv, BudgetFits, StartRun, TurnFails, RoundEnds
<1>2. \E f \in {budget[r], NewBudget}, s \in {"idle", "model", "tools", "over"} :
        budget' = [budget EXCEPT ![r] = f] /\ run' = [run EXCEPT ![r] = s]
  <2>1. budget = [budget EXCEPT ![r] = budget[r]]
    BY DEF BudgetInv
  <2>2. CASE StartRun(r)
    BY <2>1, <2>2 DEF StartRun
  <2>3. CASE TurnFails(r)
    BY <2>3 DEF TurnFails, SetBudget
  <2>4. CASE RoundEnds(r)
    BY <2>4 DEF RoundEnds, SetBudget
  <2>5. QED
    BY <2>2, <2>3, <2>4
<1>3. Rested(NewBudget) /\ Rested(budget[r])
  BY <1>1, RestedBudgets
<1>4. QED
  BY <1>1, <1>2, <1>3, RunSteps

(* The start of a turn closes a budget whose rounds or calls are used up. *)
LEMMA BeforeModelRests ==
  ASSUME NEW b, Rested(b)
  PROVE  LET f == BeforeModel(b) IN
         /\ Rested(f) /\ f.actual = b.actual /\ f.rounds = b.rounds /\ f.generated = b.generated
<1> DEFINE f == BeforeModel(b)
<1>1. b \in BudgetRecord
  BY DEF Rested, BudgetGood
<1>2. b.actual \in Int /\ b.generated \in Nat /\ b.rounds \in Nat
  BY <1>1, BudgetFields
<1>3. CASE f = b
  BY <1>3
<1>4. CASE /\ \/ b.rounds >= MaxRounds \/ b.generated >= MaxCalls
              \/ b.actual >= MaxCalls \/ b.forceFinal
           /\ f = [b EXCEPT !.forceFinal = TRUE, !.noted = TRUE]
  <2> HIDE DEF f
  <2>1. /\ f \in BudgetRecord /\ f.used = b.used /\ f.skillUsed = b.skillUsed
        /\ f.reserved = b.reserved /\ f.skillReserved = b.skillReserved /\ f.actual = b.actual
        /\ f.rounds = b.rounds /\ f.generated = b.generated /\ f.noted = TRUE /\ f.forceFinal = TRUE
    BY <1>1, <1>4 DEF BudgetRecord
  <2>2. ClosedRightly(b)
    BY <1>2, <1>4, LimitsAssumption DEF Rested, BudgetGood, ClosedRightly
  <2>3. ClosedRightly(f)
    BY <2>1, <2>2 DEF ClosedRightly
  <2>4. QED
    BY <2>1, <2>3 DEF Rested, BudgetGood, f
<1>5. QED
  BY <1>3, <1>4 DEF BeforeModel

(* A turn asks for calls, which belong to nobody before. *)
LEMMA TurnFits ==
  ASSUME BudgetInv, NEW r \in Runs, NEW wanted \in SUBSET Unused, NEW toolOf \in [wanted -> Tools],
         Turn(r, wanted, toolOf)
  PROVE  BudgetInv'
<1> DEFINE b == BeforeModel(budget[r])
<1>1. run[r] = "model" /\ InFlight(r) = {}
  BY DEF Turn, BudgetInv, BudgetFits
<1>2. Rested(b) /\ b \in BudgetRecord
  BY <1>1, RestedBudgets, BeforeModelRests DEF Rested, BudgetGood
<1>3. call' = [c \in Calls |-> IF c \in wanted
                               THEN [Idle EXCEPT !.pc = "issued", !.run = r, !.tool = toolOf[c]]
                               ELSE call[c]]
  BY DEF Turn
<1>4. CASE wanted = {}
  <2>1. budget' = [budget EXCEPT ![r] = NewBudget] /\ run' = [run EXCEPT ![r] = "over"]
    BY <1>4 DEF Turn, SetBudget
  <2>2. call' = call
    BY <1>3, <1>4 DEF BudgetInv, CallsType
  <2>3. QED
    BY <1>1, <2>1, <2>2, RestedBudgets, RunSteps
<1>5. CASE wanted # {}
  <2> DEFINE n == b.rounds + 1
             m == b.generated + Cardinality(wanted)
             f == [b EXCEPT !.rounds = n, !.generated = m]
  <2>1. budget' = [budget EXCEPT ![r] = f] /\ run' = [run EXCEPT ![r] = "tools"]
    BY <1>5 DEF Turn, SetBudget
  <2>2. Unused \subseteq Calls /\ wanted \subseteq Calls /\ IsFiniteSet(wanted) /\ Cardinality(wanted) \in Nat
    <3>1. Unused \subseteq Calls
      BY DEF Unused
    <3>2. wanted \subseteq Calls
      BY <3>1
    <3>3. QED
      BY <3>1, <3>2, CallsAssumption, FS_Subset, FS_CardinalityType
  <2>3. /\ b.rounds \in Nat /\ b.generated \in Nat /\ b.actual \in Int
    BY <1>2, BudgetFields
  <2>4. n \in Nat /\ m \in Nat /\ n >= b.rounds /\ m >= b.generated /\ b.actual + Cardinality(wanted) <= m
    BY <1>2, <2>2, <2>3 DEF Rested
  <2> HIDE DEF n, m, b
  <2>5. /\ f \in BudgetRecord /\ f.used = b.used /\ f.skillUsed = b.skillUsed
        /\ f.reserved = b.reserved /\ f.skillReserved = b.skillReserved /\ f.actual = b.actual
        /\ f.rounds = n /\ f.generated = m /\ f.noted = b.noted /\ f.forceFinal = b.forceFinal
    BY <1>2, <2>4 DEF BudgetRecord
  <2> HIDE DEF f
  <2>6. BudgetGood(f)
    <3>1. ClosedRightly(b) => ClosedRightly(f)
      BY <2>3, <2>4, <2>5, LimitsAssumption DEF ClosedRightly
    <3>2. QED
      BY <1>2, <2>5, <3>1 DEF Rested, BudgetGood
  <2>7. \A c \in wanted : /\ call'[c].pc = "issued" /\ call'[c].run = r /\ CallFits(call'[c])
                          /\ call[c].run = None /\ call[c].pc = "unused"
    <3>1. ASSUME NEW c \in wanted PROVE /\ call'[c].pc = "issued" /\ call'[c].run = r /\ CallFits(call'[c])
                                        /\ call[c].run = None /\ call[c].pc = "unused"
      <4>1. call'[c] = [pc |-> "issued", run |-> r, tool |-> toolOf[c], grant |-> 0, outcome |-> "none"]
        BY <1>3, <2>2 DEF Idle
      <4>2. toolOf[c] \in Tools
        OBVIOUS
      <4>3. c \in Calls /\ call[c].pc = "unused"
        BY <2>2 DEF Unused
      <4>4. QED
        BY <4>1, <4>2, <4>3 DEF CallFits, CallRecord, Steps, Outcomes, BudgetInv, CallsType
    <3>2. QED
      BY <3>1
  <2>8. \A c \in Calls \ wanted : call'[c] = call[c]
    BY <1>3
  <2>9. CallsType'
    <3>1. \A c \in Calls : CallFits(call'[c])
      BY <2>7, <2>8 DEF BudgetInv, CallsType
    <3>2. call' \in [Calls -> CallRecord]
      BY <1>3, <3>1 DEF CallFits
    <3>3. QED
      BY <3>1, <3>2 DEF CallsType
  <2>10. None \notin Runs
    BY NoneAssumption
  <2>11. ASSUME NEW q \in Runs
         PROVE  /\ SumFunctionOnSet(HeldBy(q)', Calls) = SumFunctionOnSet(HeldBy(q), Calls)
                /\ SumFunctionOnSet(SkillHeldBy(q)', Calls) = SumFunctionOnSet(SkillHeldBy(q), Calls)
    <3>1. ASSUME NEW c \in Calls
          PROVE  Held(call'[c], q) = Held(call[c], q) /\ SkillHeld(call'[c], q) = SkillHeld(call[c], q)
      <4>1. CASE c \in wanted
        BY <2>7, <2>10, <4>1 DEF Held, SkillHeld, Holding
      <4>2. CASE c \notin wanted
        BY <2>8, <4>2
      <4>3. QED
        BY <4>1, <4>2
    <3>2. HeldBy(q)' = HeldBy(q) /\ SkillHeldBy(q)' = SkillHeldBy(q)
      BY <3>1 DEF HeldBy, SkillHeldBy
    <3>3. QED
      BY <3>2
  <2>12. ASSUME NEW q \in Runs, q # r PROVE BudgetFits(q)'
    <3>1. IssuedOf(q)' = IssuedOf(q) /\ CallsOf(q)' = CallsOf(q) /\ InFlight(q)' = InFlight(q)
      BY <2>7, <2>8, <2>10, <2>12 DEF IssuedOf, CallsOf, InFlight
    <3>2. \A x \in CallsOf(q) : call'[x] = call[x]
      BY <2>7, <2>8, <2>10 DEF CallsOf
    <3>3. BudgetFits(q) /\ budget'[q] = budget[q] /\ run'[q] = run[q]
      BY <2>1, <2>12 DEF BudgetInv
    <3>4. QED
      BY <2>11, <3>1, <3>2, <3>3 DEF BudgetFits
  <2>13. BudgetFits(r)'
    <3>1. budget'[r] = f /\ run'[r] = "tools"
      BY <2>1 DEF BudgetInv
    <3>2. SumFunctionOnSet(HeldBy(r), Calls) = 0 /\ SumFunctionOnSet(SkillHeldBy(r), Calls) = 0
          /\ \A c \in Calls : call[c].run = r => call[c].pc \in {"done", "lost"}
      BY <1>1, Resting
    <3>3. IssuedOf(r)' = wanted
      BY <2>2, <2>7, <2>8, <3>2 DEF IssuedOf
    <3>4. f.actual + Cardinality(wanted) <= f.generated
      BY <2>4, <2>5
    <3>5. \A c \in CallsOf(r)' : call'[c].pc \in Waiting
      BY <2>7, <2>8, <3>2 DEF CallsOf, Waiting
    <3>6. f.reserved = 0 /\ f.skillReserved = 0 /\ (f.noted => f.forceFinal)
      BY <1>2, <2>5 DEF Rested
    <3>7. QED
      BY <2>6, <2>11, <3>1, <3>2, <3>3, <3>4, <3>5, <3>6 DEF BudgetFits
  <2>14. budget' \in [Runs -> BudgetRecord] /\ run' \in [Runs -> {"idle", "model", "tools", "over"}]
    BY <2>1, <2>5 DEF BudgetInv
  <2>15. QED
    BY <2>9, <2>12, <2>13, <2>14 DEF BudgetInv
<1>6. QED
  BY <1>4, <1>5

(* Nothing is in flight of any run. *)
AllRest ==
  /\ CallsType /\ \A r \in Runs : InFlight(r) = {}
  /\ run \in [Runs -> {"idle", "model", "tools", "over"}] /\ budget = [r \in Runs |-> NewBudget]

(* Then all budgets fit. *)
LEMMA AllRestFits == AllRest => BudgetInv
<1>. SUFFICES ASSUME AllRest PROVE BudgetInv
  OBVIOUS
<1>. USE DEF AllRest
<1>1. \A r \in Runs : budget[r] = NewBudget
  OBVIOUS
<1>2. budget \in [Runs -> BudgetRecord]
  BY NewBudgetType
<1>3. ASSUME NEW r \in Runs PROVE BudgetFits(r)
  <2>1. \A c \in Calls : call[c].run = r => call[c].pc \in {"done", "lost"}
    BY DEF InFlight, CallsOf
  <2>2. \A c \in Calls : call[c].run = r => call[c].pc \notin Holding
    BY <2>1 DEF Holding
  <2>3. SumFunctionOnSet(HeldBy(r), Calls) = 0 /\ SumFunctionOnSet(SkillHeldBy(r), Calls) = 0
    BY <2>2, NothingHeld
  <2>4. IssuedOf(r) = {}
    BY <2>1 DEF IssuedOf
  <2>5. Cardinality(IssuedOf(r)) = 0
    BY <2>4, FS_EmptySet
  <2>6. /\ BudgetGood(NewBudget) /\ NewBudget.reserved = 0 /\ NewBudget.skillReserved = 0
        /\ NewBudget.actual = 0 /\ NewBudget.generated = 0 /\ ~NewBudget.noted
    BY RestedBudgets DEF Rested, NewBudget
  <2>7. NewBudget.actual + Cardinality(IssuedOf(r)) <= NewBudget.generated
    BY <2>5, <2>6
  <2>8. QED
    BY <1>1, <2>3, <2>6, <2>7 DEF BudgetFits
<1>4. QED
  BY <1>2, <1>3 DEF BudgetInv

(* The budgets fit at the start. *)
LEMMA BudgetStarts == Init => BudgetInv
<1> SUFFICES ASSUME Init PROVE BudgetInv
  OBVIOUS
<1>1. /\ call = [c \in Calls |-> Idle] /\ run = [r \in Runs |-> "idle"]
      /\ budget = [r \in Runs |-> NewBudget]
  BY DEF Init
<1>2. Idle.pc = "unused" /\ Idle.run = None /\ Idle \in CallRecord /\ CallFits(Idle)
  BY DEF Idle, CallRecord, CallFits, Steps, Outcomes
<1>3. CallsType
  BY <1>1, <1>2 DEF CallsType
<1>4. \A r \in Runs : InFlight(r) = {}
  BY <1>1, <1>2, NoneAssumption DEF InFlight, CallsOf
<1>5. run \in [Runs -> {"idle", "model", "tools", "over"}]
  BY <1>1
<1>6. QED
  BY <1>1, <1>3, <1>4, <1>5, AllRestFits DEF AllRest

(* A crash takes the calls in flight and the budgets with it. *)
LEMMA CrashFits ==
  ASSUME BudgetInv, Crash PROVE BudgetInv'
<1>1. /\ call' = [c \in Calls |-> IF call[c].pc \in {"unused", "done"} THEN call[c]
                                  ELSE [call[c] EXCEPT !.pc = "lost", !.grant = 0]]
      /\ run' = [r \in Runs |-> IF run[r] \in {"model", "tools"} THEN "over" ELSE run[r]]
      /\ budget' = [r \in Runs |-> NewBudget]
  BY DEF Crash
<1>2. ASSUME NEW c \in Calls
      PROVE  /\ CallFits(call'[c]) /\ call'[c].pc \in {"unused", "done", "lost"}
             /\ call'[c].pc = "unused" => call'[c].run = None
  <2>1. CallFits(call[c])
    BY DEF BudgetInv, CallsType
  <2>2. CASE call[c].pc \in {"unused", "done"}
    BY <1>1, <2>1, <2>2 DEF CallFits
  <2>3. CASE call[c].pc \notin {"unused", "done"}
    <3>1. PICK d : d = [call[c] EXCEPT !.pc = "lost", !.grant = 0]
      OBVIOUS
    <3>2. call'[c] = d
      BY <1>1, <2>3, <3>1
    <3>3. d \in CallRecord /\ d.pc = "lost" /\ d.run = call[c].run /\ d.tool = call[c].tool
      BY <2>1, <3>1 DEF CallFits, CallRecord, Steps
    <3>4. QED
      BY <2>1, <2>3, <3>2, <3>3 DEF CallFits
  <2>4. QED
    BY <2>2, <2>3
<1>3. CallsType'
  <2>1. call' \in [Calls -> CallRecord]
    BY <1>1, <1>2 DEF CallFits
  <2>2. QED
    BY <1>2, <2>1 DEF CallsType
<1>4. \A r \in Runs : InFlight(r)' = {}
  BY <1>2, NoneAssumption DEF InFlight, CallsOf
<1>5. run' \in [Runs -> {"idle", "model", "tools", "over"}]
  BY <1>1 DEF BudgetInv
<1>6. AllRest'
  BY <1>1, <1>3, <1>4, <1>5 DEF AllRest
<1>7. QED
  BY <1>6, AllRestFits, PTL

(* What else happens touches no budget. *)
LEMMA BudgetStep ==
  ASSUME BudgetInv, [Next]_vars PROVE BudgetInv'
<1>1. ASSUME run' = run, call' = call, budget' = budget PROVE BudgetInv'
  BY <1>1 DEF BudgetInv, CallsType, BudgetFits, HeldBy, SkillHeldBy, IssuedOf, CallsOf, InFlight
<1>2. CASE \E r \in Runs : OfRun(r)
  <2>1. PICK r \in Runs : OfRun(r)
    BY <1>2
  <2>2. CASE Stop(r)
    BY <1>1, <2>2 DEF Stop
  <2>3. QED
    BY <2>1, <2>2, RunFits, TurnFits DEF OfRun
<1>3. CASE \E c \in Calls : OfCall(c)
  BY <1>3, OfCallFits
<1>4. CASE \E t \in tasks : WriteModel(t)
  BY <1>1, <1>4 DEF WriteModel
<1>5. CASE BeginDrain \/ Drained \/ Midnight
  BY <1>1, <1>5 DEF BeginDrain, Drained, Midnight, usage
<1>6. CASE UNCHANGED vars
  BY <1>1, <1>6 DEF vars
<1>7. QED
  BY <1>2, <1>3, <1>4, <1>5, <1>6, CrashFits DEF Next

(* ... so they always fit. *)
LEMMA BudgetInvariant == Spec => []BudgetInv
BY BudgetStarts, BudgetStep, PTL DEF Spec

-----------------------------------------------------------------------------
(* What is reserved is what the calls in flight hold *)

(* Values that are zero elsewhere need not be summed elsewhere. *)
LEMMA SumOfPart ==
  ASSUME NEW S, IsFiniteSet(S), NEW f, \A x \in S : f[x] \in Int,
         NEW T \in SUBSET S, \A x \in S \ T : f[x] = 0
  PROVE  SumFunctionOnSet(f, S) = SumFunctionOnSet(f, T)
<1> DEFINE Sum(U) == SumFunctionOnSet(f, U)
           Good == {U \in SUBSET S : Sum(U) = Sum(U \intersect T)}
<1>1. ASSUME NEW U \in SUBSET S, \A x \in U : U \ {x} \in Good
      PROVE  U \in Good
  <2>1. CASE U = {}
    <3>1. U \intersect T = U
      BY <2>1
    <3>2. QED
      BY <3>1
  <2>2. CASE U # {}
    <3>1. PICK x \in U : TRUE
      BY <2>2
    <3>2. IsFiniteSet(U) /\ IsFiniteSet(U \intersect T) /\ IsFiniteSet(U \ {x})
      BY FS_Subset
    <3>3. \A y \in U : f[y] \in Int
      OBVIOUS
    <3>4. Sum(U) = f[x] + Sum(U \ {x}) /\ Sum(U \ {x}) \in Int
      BY <3>2, <3>3, SumTakesOut, SumType
    <3>5. Sum(U \ {x}) = Sum((U \ {x}) \intersect T)
      BY <1>1
    <3>6. CASE x \in T
      <4>1. x \in U \intersect T /\ (U \intersect T) \ {x} = (U \ {x}) \intersect T
            /\ \A y \in U \intersect T : f[y] \in Int
        BY <3>3, <3>6
      <4>2. Sum(U \intersect T) = f[x] + Sum((U \intersect T) \ {x})
        BY <3>2, <4>1, SumTakesOut
      <4>3. Sum(U \intersect T) = f[x] + Sum((U \ {x}) \intersect T)
        BY <4>1, <4>2, Zenon
      <4> HIDE DEF Sum
      <4>4. QED
        BY <3>4, <3>5, <4>3
    <3>7. CASE x \notin T
      <4>1. U \intersect T = (U \ {x}) \intersect T /\ f[x] = 0
        BY <3>7
      <4>2. Sum(U \intersect T) = Sum((U \ {x}) \intersect T)
        BY <4>1, Zenon
      <4> HIDE DEF Sum
      <4>3. QED
        BY <3>4, <3>5, <4>1, <4>2
    <3>8. QED
      BY <3>6, <3>7
  <2>3. QED
    BY <2>1, <2>2
<1> HIDE DEF Good
<1>2. S \in Good
  BY <1>1, SubsetInduction
<1>3. S \intersect T = T
  OBVIOUS
<1>4. QED
  BY <1>2, <1>3 DEF Good

Grants == [c \in Calls |-> Grant(c)]

(* The grants of some calls, as a sum. *)
LEMMA GrantsAreSummed ==
  ASSUME NEW S \in SUBSET Calls
  PROVE  MapThenSumSet(Grant, S) = SumFunctionOnSet(Grants, S)
<1> DEFINE Eq(h) == h = [s \in SUBSET S |-> IF s = {} THEN 0
                           ELSE Grant(CHOOSE y \in s : TRUE) + h[s \ {CHOOSE y \in s : TRUE}]]
           it == CHOOSE h : Eq(h)
<1>1. IsFiniteSet(S)
  BY CallsAssumption, FS_Subset
<1>2. MapThenSumSet(Grant, S) = it[S]
  BY Zenon DEF MapThenSumSet, MapThenFoldSet
<1>3. ASSUME NEW s \in SUBSET S, s # {}
      PROVE  Grants[CHOOSE y \in s : TRUE] = Grant(CHOOSE y \in s : TRUE)
  <2>1. (CHOOSE y \in s : TRUE) \in Calls
    BY <1>3
  <2>2. QED
    BY <2>1 DEF Grants
<1>4. ASSUME NEW h
      PROVE  Adds(S, Grants, h) <=> Eq(h)
  <2> DEFINE A(s) == IF s = {} THEN 0 ELSE Grants[CHOOSE y \in s : TRUE] + h[s \ {CHOOSE y \in s : TRUE}]
             B(s) == IF s = {} THEN 0 ELSE Grant(CHOOSE y \in s : TRUE) + h[s \ {CHOOSE y \in s : TRUE}]
  <2>1. \A s \in SUBSET S : A(s) = B(s)
    <3>1. ASSUME NEW s \in SUBSET S PROVE A(s) = B(s)
      <4>1. CASE s = {}
        BY <4>1
      <4>2. CASE s # {}
        <5>1. Grants[CHOOSE y \in s : TRUE] = Grant(CHOOSE y \in s : TRUE)
          BY <1>3, <4>2, Zenon
        <5>2. QED
          BY <5>1, Zenon
      <4>3. QED
        BY <4>1, <4>2
    <3>2. QED
      BY <3>1
  <2>2. Adds(S, Grants, h) <=> h = [s \in SUBSET S |-> A(s)]
    BY Zenon DEF Adds, Next0
  <2>3. Eq(h) <=> h = [s \in SUBSET S |-> B(s)]
    BY Zenon
  <2> HIDE DEF A, B, Eq
  <2>4. [s \in SUBSET S |-> A(s)] = [s \in SUBSET S |-> B(s)]
    BY <2>1
  <2>5. QED
    BY <2>2, <2>3, <2>4
<1>5. PICK h : Adds(S, Grants, h)
  BY <1>1, AddsExists
<1>6. Eq(it)
  <2>1. Eq(h)
    BY <1>4, <1>5
  <2> HIDE DEF Eq
  <2>2. QED
    BY <2>1, Zenon
<1> HIDE DEF it, Eq
<1>7. Adds(S, Grants, it)
  BY <1>4, <1>6
<1>8. PICK g : Adds(S, Grants, g) /\ SumFunctionOnSet(Grants, S) = g[S]
  BY <1>1, AddsIsSum
<1>9. g[S] = it[S]
  BY <1>1, <1>7, <1>8, AddsAgree
<1>10. QED
  BY <1>2, <1>8, <1>9

(* What the calls of a run hold is what those in flight were granted. *)
LEMMA HeldIsGranted ==
  ASSUME CallsType, NEW r \in Runs
  PROVE  /\ SumFunctionOnSet(HeldBy(r), Calls) = MapThenSumSet(Grant, Granting(r))
         /\ SumFunctionOnSet(SkillHeldBy(r), Calls)
              = MapThenSumSet(Grant, {c \in Granting(r) : Tool(c) \in SkillTools})
<1> DEFINE S == {c \in Granting(r) : Tool(c) \in SkillTools}
<1>1. IsFiniteSet(Calls) /\ Granting(r) \in SUBSET Calls /\ S \in SUBSET Calls
      /\ IsFiniteSet(Granting(r)) /\ IsFiniteSet(S)
  <2>1. Granting(r) \in SUBSET Calls /\ S \in SUBSET Calls
    BY DEF Granting, CallsOf
  <2> HIDE DEF S
  <2>2. QED
    BY <2>1, CallsAssumption, FS_Subset
<1>2. PICK f, g : f = HeldBy(r) /\ g = SkillHeldBy(r)
  OBVIOUS
<1>3. \A c \in Calls : f[c] \in Int /\ g[c] \in Int
  <2>1. \A c \in Calls : f[c] = Held(call[c], r) /\ g[c] = SkillHeld(call[c], r)
    BY <1>2 DEF HeldBy, SkillHeldBy
  <2>2. \A c \in Calls : CallFits(call[c])
    BY DEF CallsType
  <2>3. QED
    BY <2>1, <2>2, HeldType
<1>4. (\A c \in Calls \ Granting(r) : f[c] = 0) /\ \A c \in Granting(r) : f[c] = Grants[c]
  BY <1>2 DEF HeldBy, Held, Holding, Granting, CallsOf, Grants, Grant
<1>5. (\A c \in Calls \ S : g[c] = 0) /\ \A c \in S : g[c] = Grants[c]
  BY <1>2 DEF SkillHeldBy, SkillHeld, Held, Holding, Granting, CallsOf, Grants, Grant, Tool
<1> HIDE DEF S
<1>6. SumFunctionOnSet(f, Calls) = SumFunctionOnSet(f, Granting(r))
      /\ SumFunctionOnSet(g, Calls) = SumFunctionOnSet(g, S)
  BY <1>1, <1>3, <1>4, <1>5, SumOfPart
<1>7. SumFunctionOnSet(f, Granting(r)) = SumFunctionOnSet(Grants, Granting(r))
      /\ SumFunctionOnSet(g, S) = SumFunctionOnSet(Grants, S)
  BY <1>1, <1>4, <1>5, SumSame
<1>8. MapThenSumSet(Grant, Granting(r)) = SumFunctionOnSet(Grants, Granting(r))
      /\ MapThenSumSet(Grant, S) = SumFunctionOnSet(Grants, S)
  BY <1>1, GrantsAreSummed
<1>9. QED
  BY <1>2, <1>6, <1>7, <1>8 DEF S

(* Parallel calls share a run's budget without leak: what is used and reserved *)
(* is never more than there is, what is reserved is what the calls in flight    *)
(* hold, and the budget is closed only for a reason that stays                  *)
(* (prepareToolCall, finishToolResult, cancelToolGrant).                        *)
THEOREM BudgetStaysFair == Spec => []BudgetIsFair
<1>1. BudgetInv => BudgetIsFair
  <2>1. SUFFICES ASSUME BudgetInv PROVE BudgetIsFair
    OBVIOUS
  <2>2. BudgetIsKept
    <3>1. ASSUME NEW r \in Runs
          PROVE  /\ budget[r].used + budget[r].reserved <= MaxContext
                 /\ budget[r].skillUsed + budget[r].skillReserved <= MaxSkill
                 /\ budget[r].reserved = MapThenSumSet(Grant, Granting(r))
                 /\ budget[r].skillReserved =
                      MapThenSumSet(Grant, {c \in Granting(r) : Tool(c) \in SkillTools})
      <4>1. CallsType /\ BudgetFits(r)
        BY <2>1 DEF BudgetInv
      <4>2. QED
        BY <4>1, HeldIsGranted DEF BudgetFits, BudgetGood
    <3>2. QED
      BY <3>1, Zenon DEF BudgetIsKept
  <2>3. FinalMeansSpent
    BY <2>1 DEF BudgetInv, BudgetFits, BudgetGood, ClosedRightly, FinalMeansSpent, CallsOf, Waiting
  <2>4. QED
    BY <2>2, <2>3 DEF BudgetIsFair
<1>2. QED
  BY <1>1, BudgetInvariant, PTL

-----------------------------------------------------------------------------
(* The rows of the calls *)

RowRecord ==
  [day : Nat, tool : Tools \cup {None}, success : BOOLEAN,
   error : {"none", "degraded", "canceled", "failed"}]

Fine  == {"ok", "excerpt"}
Kept  == Fine \cup {"degraded", "failed", "canceled"}
Early == {"unused", "issued", "blocked", "granted"}
Late  == {"reserved", "executing", "blank", "record"}

(* Only what web_extract returned is degraded. *)
Extracted(k) == k.outcome \in Kept /\ (k.outcome = "degraded" => k.tool = "web_extract")

(* What became of a call that is over and whose row no fault kept from it. *)
Told(k, row) ==
  \/ row = NoRow /\ k.outcome \in {"canceled", "blocked", "refused"}
  \/ /\ Extracted(k) /\ row.tool = k.tool
     /\ row.success = (k.outcome \in Fine)
     /\ row.error = "degraded" <=> k.outcome = "degraded"

(* The row of call c, which is k; E are the calls that ran, U those unheard. *)
RowFits(c, k, row, E, U) ==
  /\ row.success => row.error # "degraded"
  /\ k.pc \in Early => row = NoRow /\ c \notin E
  /\ k.pc \in {"refused", "refunded"} => c \notin E /\ (row = NoRow \/ c \in U)
  /\ k.pc \in Late => row.tool = k.tool
  /\ k.pc = "record" => Extracted(k)
  /\ c \in E => row.tool = k.tool /\ k.tool \in Tools
  /\ k.pc = "done" /\ c \notin U => Told(k, row)

OnDay(d)         == {c \in Calls : rows[c].tool # None /\ rows[c].day = d}
OnDayOf(d, tool) == {c \in OnDay(d) : rows[c].tool = tool}

(* The rows of any day, of finished calls or not, are within its limits. *)
DayFits(d) ==
  /\ CallLimit > 0 => Cardinality(OnDay(d)) <= CallLimit
  /\ \A tool \in Tools : ToolLimit[tool] > 0 => Cardinality(OnDayOf(d, tool)) <= ToolLimit[tool]

UsageInv ==
  /\ rows \in [Calls -> RowRecord] /\ day \in Nat
  /\ executed \subseteq Calls
  /\ IsFiniteSet(models)
  /\ \A c \in Calls : RowFits(c, call[c], rows[c], executed, unheard)
  /\ \A d : DayFits(d)

(* The steps of a call that leave its row alone. *)
MayMove(k, d) ==
  /\ d.tool = k.tool
  /\ \/ k.pc = "issued" /\ d.pc \in {"granted", "blocked"}
     \/ k.pc \in {"issued", "blocked"} /\ d.pc = "done" /\ d.outcome \in {"canceled", "blocked"}
     \/ k.pc = "granted" /\ d.pc = "refused"
     \/ k.pc = "refused" /\ d.pc = "refunded"
     \/ k.pc \in {"refused", "refunded"} /\ d.pc = "done" /\ d.outcome \in {"canceled", "refused"}
     \/ k.pc \in {"reserved", "executing", "blank"} /\ d.pc = "record" /\ Extracted(d)
     \/ k.pc = "executing" /\ d.pc = "blank"
     \/ d.pc = "lost"
     \/ d = k

LEMMA RowMoves ==
  ASSUME NEW c, NEW k, NEW d, NEW row, NEW E, NEW U, RowFits(c, k, row, E, U), MayMove(k, d)
  PROVE  RowFits(c, d, row, E, U)
BY DEF RowFits, MayMove, Early, Late, Told

(* Calls move and no row is touched. *)
LEMMA RowsStand ==
  ASSUME UsageInv, rows' = rows, day' \in Nat, executed' = executed, unheard' = unheard,
         IsFiniteSet(models)', \A c \in Calls : MayMove(call[c], call'[c])
  PROVE  UsageInv'
<1>1. \A c \in Calls : RowFits(c, call'[c], rows[c], executed, unheard)
  BY RowMoves DEF UsageInv
<1>2. \A d : DayFits(d)'
  BY DEF UsageInv, DayFits, OnDay, OnDayOf
<1>3. QED
  BY <1>1, <1>2 DEF UsageInv

(* One call moves and no row is touched. *)
LEMMA CallMoves ==
  ASSUME BudgetInv, UsageInv, NEW c \in Calls, NEW d, call' = [call EXCEPT ![c] = d], MayMove(call[c], d),
         rows' = rows, day' = day, executed' = executed, unheard' = unheard, models' = models
  PROVE  UsageInv'
<1>1. \A x \in Calls : MayMove(call[x], call'[x])
  BY DEF BudgetInv, CallsType, MayMove
<1>2. day' \in Nat /\ IsFiniteSet(models)'
  BY DEF UsageInv
<1>3. QED
  BY <1>1, <1>2, RowsStand

(* The steps that only move the call. *)
LEMMA CallOnlyMoves ==
  ASSUME BudgetInv, UsageInv, NEW c \in Calls, call[c].pc # "unused",
         rows' = rows, day' = day, executed' = executed, unheard' = unheard, models' = models
  PROVE  /\ \A pc \in Steps \ {"unused"} :
              Set(c, pc) /\ MayMove(call[c], At(call[c], pc)) => UsageInv'
         /\ \A pc \in Steps \ {"unused"}, o \in Outcomes :
              SetOutcome(c, pc, o) /\ MayMove(call[c], Ended(call[c], pc, o)) => UsageInv'
<1>1. ASSUME NEW pc \in Steps \ {"unused"}, Set(c, pc), MayMove(call[c], At(call[c], pc)) PROVE UsageInv'
  <2>1. call' = [call EXCEPT ![c] = At(call[c], pc)]
    BY <1>1, NextPc
  <2>2. QED
    BY <1>1, <2>1, CallMoves
<1>2. ASSUME NEW pc \in Steps \ {"unused"}, NEW o \in Outcomes, SetOutcome(c, pc, o),
             MayMove(call[c], Ended(call[c], pc, o))
      PROVE  UsageInv'
  <2>1. call' = [call EXCEPT ![c] = Ended(call[c], pc, o)]
    BY <1>2, NextOutcome
  <2>2. QED
    BY <1>2, <2>1, CallMoves
<1>3. QED
  BY <1>1, <1>2

(* What MayMove asks of the new records. *)
LEMMA MovesOf ==
  ASSUME BudgetInv, NEW c \in Calls, call[c].pc # "unused"
  PROVE  /\ \A pc \in Steps \ {"unused"} : At(call[c], pc).tool = call[c].tool /\ At(call[c], pc).pc = pc
         /\ \A pc \in Steps \ {"unused"}, o \in Outcomes :
              /\ Ended(call[c], pc, o).tool = call[c].tool /\ Ended(call[c], pc, o).pc = pc
              /\ Ended(call[c], pc, o).outcome = o
BY NextPc, NextOutcome

LEMMA PrepareCounts ==
  ASSUME BudgetInv, UsageInv, NEW c \in Calls, Prepare(c) PROVE UsageInv'
<1>1. /\ call[c].pc = "issued" /\ call[c].pc # "unused"
      /\ rows' = rows /\ day' = day /\ executed' = executed /\ unheard' = unheard /\ models' = models
  BY DEF Prepare, usage, history
<1>2. {"done", "blocked", "granted"} \subseteq Steps \ {"unused"} /\ "canceled" \in Outcomes
  BY DEF Steps, Outcomes
<1>3. CASE SetOutcome(c, "done", "canceled")
  <2>1. MayMove(call[c], Ended(call[c], "done", "canceled"))
    BY <1>1, <1>2, MovesOf DEF MayMove
  <2>2. QED
    BY <1>1, <1>2, <1>3, <2>1, CallOnlyMoves
<1>4. CASE Set(c, "blocked")
  <2>1. MayMove(call[c], At(call[c], "blocked"))
    BY <1>1, <1>2, MovesOf DEF MayMove
  <2>2. QED
    BY <1>1, <1>2, <1>4, <2>1, CallOnlyMoves
<1>5. ASSUME NEW g, call' = [call EXCEPT ![c].pc = "granted", ![c].grant = g] PROVE UsageInv'
  <2>1. PICK d : d = [call[c] EXCEPT !.pc = "granted", !.grant = g]
    OBVIOUS
  <2>2. call' = [call EXCEPT ![c] = d]
    BY <1>5, <2>1
  <2>3. call[c] \in CallRecord
    BY DEF BudgetInv, CallsType
  <2>4. d.tool = call[c].tool /\ d.pc = "granted"
    BY <2>1, <2>3 DEF CallRecord
  <2>5. MayMove(call[c], d)
    BY <1>1, <2>4 DEF MayMove
  <2>6. QED
    BY <1>1, <2>2, <2>5, CallMoves
<1>6. \/ SetOutcome(c, "done", "canceled") \/ Set(c, "blocked")
      \/ \E g : call' = [call EXCEPT ![c].pc = "granted", ![c].grant = g]
  BY Zenon DEF Prepare
<1>7. QED
  BY <1>3, <1>4, <1>5, <1>6

LEMMA NoticeCounts ==
  ASSUME BudgetInv, UsageInv, NEW c \in Calls, Notice(c) PROVE UsageInv'
<1>1. /\ call[c].pc = "blocked" /\ call[c].pc # "unused"
      /\ rows' = rows /\ day' = day /\ executed' = executed /\ unheard' = unheard /\ models' = models
  BY DEF Notice, usage, history
<1>2. PICK o \in {"canceled", "blocked"} : SetOutcome(c, "done", o)
  BY DEF Notice
<1>3. "done" \in Steps \ {"unused"} /\ o \in Outcomes
  BY DEF Steps, Outcomes
<1>4. MayMove(call[c], Ended(call[c], "done", o))
  BY <1>1, <1>3, MovesOf DEF MayMove
<1>5. QED
  BY <1>1, <1>2, <1>3, <1>4, CallOnlyMoves

LEMMA RefundCounts ==
  ASSUME BudgetInv, UsageInv, NEW c \in Calls, Refund(c) PROVE UsageInv'
<1>1. /\ call[c].pc = "refused" /\ call[c].pc # "unused"
      /\ rows' = rows /\ day' = day /\ executed' = executed /\ unheard' = unheard /\ models' = models
  BY DEF Refund, usage, history
<1>2. SetOutcome(c, "done", "canceled") \/ Set(c, "refunded")
  BY DEF Refund
<1>3. {"done", "refunded"} \subseteq Steps \ {"unused"} /\ "canceled" \in Outcomes
  BY DEF Steps, Outcomes
<1>4. MayMove(call[c], Ended(call[c], "done", "canceled")) /\ MayMove(call[c], At(call[c], "refunded"))
  BY <1>1, <1>3, MovesOf DEF MayMove
<1>5. QED
  BY <1>1, <1>2, <1>3, <1>4, CallOnlyMoves

LEMMA FinishRefusedCounts ==
  ASSUME BudgetInv, UsageInv, NEW c \in Calls, FinishRefused(c) PROVE UsageInv'
<1>1. /\ call[c].pc = "refunded" /\ call[c].pc # "unused" /\ SetOutcome(c, "done", "refused")
      /\ rows' = rows /\ day' = day /\ executed' = executed /\ unheard' = unheard /\ models' = models
  BY DEF FinishRefused, usage, history
<1>2. "done" \in Steps \ {"unused"} /\ "refused" \in Outcomes
  BY DEF Steps, Outcomes
<1>3. MayMove(call[c], Ended(call[c], "done", "refused"))
  BY <1>1, <1>2, MovesOf DEF MayMove
<1>4. QED
  BY <1>1, <1>2, <1>3, CallOnlyMoves

LEMMA ReturnCounts ==
  ASSUME BudgetInv, UsageInv, NEW c \in Calls, Return(c) PROVE UsageInv'
<1>1. /\ call[c].pc = "executing" /\ call[c].pc # "unused"
      /\ rows' = rows /\ day' = day /\ executed' = executed /\ unheard' = unheard /\ models' = models
  BY DEF Return, usage, history
<1>2. \/ \E o \in Kept : SetOutcome(c, "record", o) /\ (o = "degraded" => call[c].tool = "web_extract")
      \/ Set(c, "blank")
  <2>1. CASE RunOf(c) \in stopped
    BY <2>1 DEF Return, Kept
  <2>2. ASSUME RunOf(c) \notin stopped, NEW o \in {"ok", "degraded", "failed"}, NEW cut \in BOOLEAN,
               o = "degraded" => Tool(c) = "web_extract",
               SetOutcome(c, "record", Bounded(o, cut))
        PROVE  \E p \in Kept : SetOutcome(c, "record", p) /\ (p = "degraded" => call[c].tool = "web_extract")
    <3>1. Bounded(o, cut) \in Kept /\ (Bounded(o, cut) = "degraded" => call[c].tool = "web_extract")
      BY <2>2 DEF Tool, Bounded, Kept, Fine
    <3>2. QED
      BY <2>2, <3>1
  <2>3. QED
    BY <2>1, <2>2, Zenon DEF Return
<1>3. {"record", "blank"} \subseteq Steps \ {"unused"} /\ Kept \subseteq Outcomes
  BY DEF Steps, Outcomes, Kept, Fine
<1>4. /\ \A o \in Kept : (o = "degraded" => call[c].tool = "web_extract") =>
                          MayMove(call[c], Ended(call[c], "record", o))
      /\ MayMove(call[c], At(call[c], "blank"))
  BY <1>1, <1>3, MovesOf DEF MayMove, Extracted
<1>5. QED
  BY <1>1, <1>2, <1>3, <1>4, CallOnlyMoves

LEMMA ReplaceBlankCounts ==
  ASSUME BudgetInv, UsageInv, NEW c \in Calls, ReplaceBlank(c) PROVE UsageInv'
<1>1. /\ call[c].pc = "blank" /\ call[c].pc # "unused" /\ SetOutcome(c, "record", "failed")
      /\ rows' = rows /\ day' = day /\ executed' = executed /\ unheard' = unheard /\ models' = models
  BY DEF ReplaceBlank, usage, history
<1>2. "record" \in Steps \ {"unused"} /\ "failed" \in Outcomes /\ "failed" \in Kept
  BY DEF Steps, Outcomes, Kept, Fine
<1>3. MayMove(call[c], Ended(call[c], "record", "failed"))
  BY <1>1, <1>2, MovesOf DEF MayMove, Extracted
<1>4. QED
  BY <1>1, <1>2, <1>3, CallOnlyMoves

(* The days when a call's row keeps its tool and day. *)
LEMMA DaysStand ==
  ASSUME UsageInv, \A x \in Calls : rows'[x].tool = rows[x].tool /\ rows'[x].day = rows[x].day
  PROVE  \A d : DayFits(d)'
<1>1. \A d : OnDay(d)' = OnDay(d)
  BY DEF OnDay
<1>2. \A d, tool : OnDayOf(d, tool)' = OnDayOf(d, tool)
  BY <1>1 DEF OnDayOf, OnDay
<1>3. QED
  BY <1>1, <1>2 DEF UsageInv, DayFits

(* A row more, where a row less than the limits was counted. *)
LEMMA RowIsAdded ==
  ASSUME UsageInv, NEW c \in Calls, NEW tool \in Tools, rows[c] = NoRow, ~Exceeds(tool),
         rows' = [rows EXCEPT ![c] = Reserved(tool)]
  PROVE  rows' \in [Calls -> RowRecord] /\ \A d : DayFits(d)'
<1>0. PICK n : n = day
  OBVIOUS
<1>1. Reserved(tool) \in RowRecord /\ Reserved(tool).tool = tool /\ Reserved(tool).day = day /\ tool # None
  BY NoneAssumption DEF Reserved, RowRecord, UsageInv
<1>2. rows' \in [Calls -> RowRecord]
  BY <1>1 DEF UsageInv
<1>3. /\ rows'[c] = Reserved(tool) /\ \A x \in Calls \ {c} : rows'[x] = rows[x]
      /\ rows[c].tool = None
  BY DEF UsageInv, NoRow
<1>4. /\ OnDay(n)' = OnDay(n) \cup {c} /\ c \notin OnDay(n)
      /\ OnDayOf(n, tool)' = OnDayOf(n, tool) \cup {c} /\ c \notin OnDayOf(n, tool)
      /\ \A u \in Tools \ {tool} : OnDayOf(n, u)' = OnDayOf(n, u)
      /\ \A d : d # n => OnDay(d)' = OnDay(d) /\ \A u : OnDayOf(d, u)' = OnDayOf(d, u)
  <2>1. \A d : \A x \in Calls \ {c} : x \in OnDay(d)' <=> x \in OnDay(d)
    BY <1>3 DEF OnDay
  <2>2. \A d : c \notin OnDay(d) /\ (c \in OnDay(d)' <=> d = n)
    BY <1>1, <1>3, <1>0 DEF OnDay
  <2>3. \A d : OnDay(d) \subseteq Calls /\ OnDay(d)' \subseteq Calls
    BY DEF OnDay
  <2>4. OnDay(n)' = OnDay(n) \cup {c} /\ \A d : d # n => OnDay(d)' = OnDay(d)
    <3>1. PICK S, T : S = OnDay(n) /\ T = OnDay(n)'
      OBVIOUS
    <3>2. /\ \A x \in Calls \ {c} : x \in T <=> x \in S
          /\ c \notin S /\ c \in T /\ S \subseteq Calls /\ T \subseteq Calls
      BY <2>1, <2>2, <2>3, <3>1
    <3>4. T = S \cup {c}
      BY <3>2
    <3>3. \A d : d # n => OnDay(d)' = OnDay(d)
      BY <2>1, <2>2, <2>3
    <3>5. QED
      BY <3>1, <3>4, <3>3
  <2>5. \A d, u : OnDayOf(d, u)' = {x \in OnDay(d)' : rows'[x].tool = u}
    BY DEF OnDayOf
  <2>6. QED
    BY <1>1, <1>3, <2>2, <2>3, <2>4, <2>5 DEF OnDayOf
<1>5. /\ IsFiniteSet(OnDay(n)) /\ IsFiniteSet(OnDayOf(n, tool))
      /\ Cardinality(OnDay(n)) \in Nat /\ Cardinality(OnDayOf(n, tool)) \in Nat
  <2>1. OnDay(n) \subseteq Calls /\ OnDayOf(n, tool) \subseteq Calls
    BY DEF OnDay, OnDayOf
  <2>2. QED
    BY <2>1, CallsAssumption, FS_Subset, FS_CardinalityType
<1>6. /\ Cardinality(OnDay(n)') = Cardinality(OnDay(n)) + 1
      /\ Cardinality(OnDayOf(n, tool)') = Cardinality(OnDayOf(n, tool)) + 1
  BY <1>4, <1>5, FS_AddElement, ZenonT(60)
<1>7. /\ CallLimit > 0 => Cardinality(OnDay(n)) < CallLimit
      /\ ToolLimit[tool] > 0 => Cardinality(OnDayOf(n, tool)) < ToolLimit[tool]
  <2>1. Today = OnDay(n) /\ {x \in Today : rows[x].tool = tool} = OnDayOf(n, tool)
    BY <1>0 DEF Today, OnDay, OnDayOf
  <2>2. UsedToday = Cardinality(OnDay(n)) /\ UsedOf(tool) = Cardinality(OnDayOf(n, tool))
    BY <2>1, Zenon DEF UsedToday, UsedOf
  <2>3. CallLimit \in Nat /\ ToolLimit[tool] \in Nat
    BY LimitsAssumption
  <2>4. QED
    BY <1>5, <2>2, <2>3 DEF Exceeds
<1>8. ASSUME NEW d PROVE DayFits(d)'
  <2>1. DayFits(d) /\ CallLimit \in Nat /\ \A u \in Tools : ToolLimit[u] \in Nat
    BY LimitsAssumption DEF UsageInv
  <2>2. CASE d # n
    <3>1. OnDay(d)' = OnDay(d) /\ \A u : OnDayOf(d, u)' = OnDayOf(d, u)
      BY <1>4, <2>2
    <3>2. QED
      BY <2>1, <3>1 DEF DayFits
  <2>3. CASE d = n
    <3>1. CallLimit > 0 => Cardinality(OnDay(d)') <= CallLimit
      BY <1>5, <1>6, <1>7, <2>1, <2>3
    <3>2. ASSUME NEW u \in Tools, ToolLimit[u] > 0
          PROVE  Cardinality(OnDayOf(d, u)') <= ToolLimit[u]
      <4>1. CASE u = tool
        BY <1>5, <1>6, <1>7, <2>1, <2>3, <3>2, <4>1
      <4>2. CASE u # tool
        <5>1. OnDayOf(d, u)' = OnDayOf(d, u)
          BY <1>4, <2>3, <4>2
        <5>2. QED
          BY <2>1, <3>2, <5>1 DEF DayFits
      <4>3. QED
        BY <4>1, <4>2
    <3>3. QED
      BY <3>1, <3>2 DEF DayFits
  <2>4. QED
    BY <2>2, <2>3
<1>9. QED
  BY <1>2, <1>8

LEMMA ReserveCounts ==
  ASSUME BudgetInv, UsageInv, NEW c \in Calls, Reserve(c) PROVE UsageInv'
<1>1. /\ call[c].pc = "granted" /\ call[c].pc # "unused" /\ call[c].tool \in Tools
      /\ day' = day /\ executed' = executed /\ models' = models
  BY DEF Reserve, usage, BudgetInv, CallsType, CallFits
<1>2. {"reserved", "refused"} \subseteq Steps \ {"unused"}
  BY DEF Steps
<1>3. CASE rows' = rows
  <2>1. Set(c, "refused") /\ unheard' = unheard
    <3>1. rows[c] = NoRow /\ Reserved(Tool(c)).tool = call[c].tool /\ NoRow.tool = None
      BY <1>1 DEF UsageInv, RowFits, Early, Reserved, Tool, NoRow
    <3>2. Reserved(Tool(c)) # rows[c]
      BY <1>1, <3>1, NoneAssumption
    <3>3. rows' # [rows EXCEPT ![c] = Reserved(Tool(c))]
      BY <1>3, <3>2 DEF UsageInv
    <3>4. QED
      BY <3>3 DEF Reserve
  <2>2. MayMove(call[c], At(call[c], "refused"))
    BY <1>1, <1>2, MovesOf DEF MayMove
  <2>3. QED
    BY <1>1, <1>2, <1>3, <2>1, <2>2, CallOnlyMoves
<1>4. ASSUME ~Exceeds(Tool(c)), rows' = [rows EXCEPT ![c] = Reserved(Tool(c))],
             NEW pc \in {"reserved", "refused"}, Set(c, pc),
             IF pc = "reserved" THEN unheard' = unheard ELSE unheard' = unheard \cup {c}
      PROVE  UsageInv'
  <2>1. PICK tool \in Tools : tool = call[c].tool
    BY <1>1
  <2>2. PICK row : row = Reserved(tool)
    OBVIOUS
  <2>3. rows' = [rows EXCEPT ![c] = row] /\ ~Exceeds(tool)
    BY <1>4, <2>1, <2>2 DEF Tool
  <2>4. rows[c] = NoRow /\ c \notin executed
    BY <1>1 DEF UsageInv, RowFits, Early
  <2>5. rows' \in [Calls -> RowRecord] /\ \A d : DayFits(d)'
    BY <2>2, <2>3, <2>4, RowIsAdded
  <2>6. PICK d : d = At(call[c], pc)
    OBVIOUS
  <2>7. call' = [call EXCEPT ![c] = d] /\ d.pc = pc /\ d.tool = tool
    BY <1>1, <1>2, <1>4, <2>1, <2>6, NextPc
  <2>8. RowFits(c, d, row, executed, unheard')
    <3>1. row.success /\ row.error = "none" /\ row.tool = tool
      BY <2>2 DEF Reserved
    <3>2. pc = "refused" => c \in unheard'
      BY <1>4
    <3>3. QED
      BY <2>4, <2>7, <3>1, <3>2 DEF RowFits, Early, Late
  <2>9. ASSUME NEW x \in Calls \ {c} PROVE RowFits(x, call[x], rows[x], executed, unheard')
    <3>1. RowFits(x, call[x], rows[x], executed, unheard) /\ (x \in unheard' <=> x \in unheard)
      BY <1>4 DEF UsageInv
    <3>2. QED
      BY <3>1 DEF RowFits
  <2>10. ASSUME NEW x \in Calls PROVE RowFits(x, call'[x], rows'[x], executed, unheard')
    <3>1. call \in [Calls -> CallRecord] /\ rows \in [Calls -> RowRecord]
      BY DEF BudgetInv, CallsType, UsageInv
    <3>2. IF x = c THEN call'[x] = d /\ rows'[x] = row ELSE call'[x] = call[x] /\ rows'[x] = rows[x]
      BY <2>3, <2>7, <3>1
    <3>3. QED
      BY <2>8, <2>9, <3>2
  <2>11. QED
    BY <1>1, <2>5, <2>10 DEF UsageInv
<1>5. QED
  BY <1>3, <1>4 DEF Reserve

LEMMA ExecuteCounts ==
  ASSUME BudgetInv, UsageInv, NEW c \in Calls, Execute(c) PROVE UsageInv'
<1>1. /\ call[c].pc = "reserved" /\ call[c].pc # "unused" /\ call[c].tool \in Tools
      /\ rows' = rows /\ day' = day /\ unheard' = unheard /\ models' = models
  BY DEF Execute, usage, BudgetInv, CallsType, CallFits
<1>2. {"record", "executing"} \subseteq Steps \ {"unused"} /\ "canceled" \in Outcomes /\ "canceled" \in Kept
  BY DEF Steps, Outcomes, Kept, Fine
<1>3. CASE SetOutcome(c, "record", "canceled") /\ executed' = executed
  <2>1. MayMove(call[c], Ended(call[c], "record", "canceled"))
    BY <1>1, <1>2, MovesOf DEF MayMove, Extracted
  <2>2. QED
    BY <1>1, <1>2, <1>3, <2>1, CallOnlyMoves
<1>4. CASE Set(c, "executing") /\ executed' = executed \cup {c}
  <2>1. PICK d : d = At(call[c], "executing")
    OBVIOUS
  <2>2. call' = [call EXCEPT ![c] = d] /\ d.pc = "executing" /\ d.tool = call[c].tool
    BY <1>1, <1>2, <1>4, <2>1, NextPc
  <2>3. RowFits(c, d, rows[c], executed', unheard)
    BY <1>1, <2>2 DEF UsageInv, RowFits, Early, Late
  <2>4. ASSUME NEW x \in Calls \ {c} PROVE RowFits(x, call[x], rows[x], executed', unheard)
    <3>1. RowFits(x, call[x], rows[x], executed, unheard) /\ (x \in executed' <=> x \in executed)
      BY <1>4 DEF UsageInv
    <3>2. QED
      BY <3>1 DEF RowFits
  <2>5. \A x \in Calls : RowFits(x, call'[x], rows'[x], executed', unheard')
    BY <1>1, <2>2, <2>3, <2>4 DEF BudgetInv, CallsType
  <2>6. \A d1 : DayFits(d1)'
    BY <1>1, DaysStand
  <2>7. QED
    BY <1>1, <1>4, <2>5, <2>6 DEF UsageInv
<1>5. QED
  BY <1>3, <1>4 DEF Execute

LEMMA RecordCounts ==
  ASSUME BudgetInv, UsageInv, NEW c \in Calls, Record(c) PROVE UsageInv'
<1>1. /\ call[c].pc = "record" /\ call[c].pc # "unused" /\ call[c].tool \in Tools
      /\ day' = day /\ executed' = executed /\ models' = models /\ Set(c, "done")
  BY DEF Record, usage, BudgetInv, CallsType, CallFits
<1>2. PICK d : d = At(call[c], "done")
  OBVIOUS
<1>3. /\ call' = [call EXCEPT ![c] = d] /\ d.pc = "done" /\ d.tool = call[c].tool
      /\ d.outcome = call[c].outcome
  <2>1. "done" \in Steps \ {"unused"}
    BY DEF Steps
  <2>2. QED
    BY <1>1, <1>2, <2>1, NextPc
<1>4. call \in [Calls -> CallRecord] /\ rows \in [Calls -> RowRecord]
  BY DEF BudgetInv, CallsType, UsageInv
<1>5. /\ RowFits(c, call[c], rows[c], executed, unheard) /\ rows[c].tool = call[c].tool
      /\ Extracted(call[c])
  BY <1>1 DEF UsageInv, RowFits, Late
<1>6. CASE /\ rows' = [rows EXCEPT ![c].success = Inspected(call[c].outcome).success,
                                   ![c].error   = Inspected(call[c].outcome).error]
           /\ unheard' = unheard
  <2> DEFINE e == Inspected(call[c].outcome).error
             fine == call[c].outcome \in Fine
             row == [rows[c] EXCEPT !.success = fine, !.error = e]
  <2>1. /\ Inspected(call[c].outcome).success = fine /\ fine \in BOOLEAN
        /\ e \in {"none", "degraded", "canceled", "failed"}
        /\ fine => e = "none"
        /\ e = "degraded" <=> call[c].outcome = "degraded"
    BY <1>5 DEF Inspected, Extracted, Kept, Fine
  <2>2. rows' = [rows EXCEPT ![c] = row]
    BY <1>6, <2>1
  <2>10. fine = (call[c].outcome \in Fine)
    OBVIOUS
  <2> HIDE DEF e, fine
  <2>3. /\ row \in RowRecord /\ row.tool = rows[c].tool /\ row.day = rows[c].day
        /\ row.success = fine /\ row.error = e
    BY <1>4, <2>1 DEF RowRecord
  <2> HIDE DEF row
  <2>4. RowFits(c, d, row, executed, unheard)
    <3>1. row.success => row.error # "degraded"
      BY <2>1, <2>3
    <3>2. Told(d, row)
      BY <1>3, <1>5, <2>1, <2>3, <2>10 DEF Told, Extracted
    <3>3. c \in executed => row.tool = d.tool /\ d.tool \in Tools
      BY <1>1, <1>3, <1>5, <2>3
    <3>4. QED
      BY <1>3, <3>1, <3>2, <3>3 DEF RowFits, Early, Late
  <2>5. \A x \in Calls : IF x = c THEN rows'[x] = row /\ call'[x] = d ELSE rows'[x] = rows[x] /\ call'[x] = call[x]
    BY <1>3, <1>4, <2>2
  <2>6. \A d1 : DayFits(d1)'
    BY <2>3, <2>5, DaysStand
  <2>7. \A x \in Calls : RowFits(x, call'[x], rows'[x], executed, unheard)
    BY <2>4, <2>5 DEF UsageInv
  <2>8. rows' \in [Calls -> RowRecord]
    BY <1>4, <2>2, <2>3
  <2>9. QED
    BY <1>1, <1>6, <2>6, <2>7, <2>8 DEF UsageInv
<1>7. CASE unheard' = unheard \cup {c} /\ rows' = rows
  <2>1. RowFits(c, d, rows[c], executed, unheard')
    BY <1>3, <1>5, <1>7 DEF RowFits, Early, Late
  <2>2. ASSUME NEW x \in Calls \ {c} PROVE RowFits(x, call[x], rows[x], executed, unheard')
    <3>1. RowFits(x, call[x], rows[x], executed, unheard) /\ (x \in unheard' <=> x \in unheard)
      BY <1>7 DEF UsageInv
    <3>2. QED
      BY <3>1 DEF RowFits
  <2>3. \A x \in Calls : RowFits(x, call'[x], rows'[x], executed', unheard')
    BY <1>1, <1>3, <1>4, <1>7, <2>1, <2>2
  <2>4. \A d1 : DayFits(d1)'
    BY <1>7, DaysStand
  <2>5. QED
    BY <1>1, <1>7, <2>3, <2>4 DEF UsageInv
<1>8. QED
  BY <1>6, <1>7 DEF Record

LEMMA OfCallCounts ==
  ASSUME BudgetInv, UsageInv, NEW c \in Calls, OfCall(c) PROVE UsageInv'
BY PrepareCounts, NoticeCounts, ReserveCounts, RefundCounts, FinishRefusedCounts, ExecuteCounts,
   ReturnCounts, ReplaceBlankCounts, RecordCounts
   DEF OfCall

(* A model turn asks for calls that have no rows yet. *)
LEMMA TurnCounts ==
  ASSUME BudgetInv, UsageInv, NEW r \in Runs, NEW wanted \in SUBSET Unused,
         NEW toolOf \in [wanted -> Tools], Turn(r, wanted, toolOf)
  PROVE  UsageInv'
<1>1. /\ rows' = rows /\ day' = day /\ executed' = executed /\ unheard' = unheard /\ models' = models
      /\ call' = [c \in Calls |-> IF c \in wanted
                                  THEN [Idle EXCEPT !.pc = "issued", !.run = r, !.tool = toolOf[c]]
                                  ELSE call[c]]
  BY DEF Turn, history
<1>2. ASSUME NEW c \in Calls PROVE RowFits(c, call'[c], rows[c], executed, unheard)
  <2>1. RowFits(c, call[c], rows[c], executed, unheard)
    BY DEF UsageInv
  <2>2. CASE c \in wanted
    <3>1. call[c].pc = "unused"
      BY <2>2 DEF Unused
    <3>2. call'[c].pc = "issued"
      BY <1>1, <2>2 DEF Idle
    <3>3. QED
      BY <2>1, <3>1, <3>2 DEF RowFits, Early, Late
  <2>3. CASE c \notin wanted
    BY <1>1, <2>1, <2>3
  <2>4. QED
    BY <2>2, <2>3
<1>3. \A d : DayFits(d)'
  BY <1>1, DaysStand
<1>4. QED
  BY <1>1, <1>2, <1>3 DEF UsageInv

(* What a crash loses has its row, of which nothing more is said. *)
LEMMA CrashCounts ==
  ASSUME BudgetInv, UsageInv, Crash PROVE UsageInv'
<1>1. /\ rows' = rows /\ day' = day /\ executed' = executed /\ unheard' = unheard /\ models' = models
      /\ call' = [c \in Calls |-> IF call[c].pc \in {"unused", "done"} THEN call[c]
                                  ELSE [call[c] EXCEPT !.pc = "lost", !.grant = 0]]
  BY DEF Crash, history
<1>2. ASSUME NEW c \in Calls PROVE MayMove(call[c], call'[c])
  <2>1. CASE call[c].pc \in {"unused", "done"}
    BY <1>1, <2>1 DEF MayMove
  <2>2. CASE call[c].pc \notin {"unused", "done"}
    <3>1. call[c] \in CallRecord
      BY DEF BudgetInv, CallsType
    <3>2. PICK d : d = [call[c] EXCEPT !.pc = "lost", !.grant = 0]
      OBVIOUS
    <3>3. call'[c] = d /\ d.pc = "lost" /\ d.tool = call[c].tool
      BY <1>1, <2>2, <3>1, <3>2 DEF CallRecord
    <3>4. QED
      BY <3>3 DEF MayMove
  <2>3. QED
    BY <2>1, <2>2
<1>3. day' \in Nat /\ IsFiniteSet(models)'
  BY <1>1 DEF UsageInv
<1>4. QED
  BY <1>1, <1>2, <1>3, RowsStand

LEMMA UsageStep ==
  ASSUME BudgetInv, UsageInv, [Next]_vars PROVE UsageInv'
<1>1. ASSUME call' = call, rows' = rows, day' \in Nat, executed' = executed, unheard' = unheard,
             IsFiniteSet(models)'
      PROVE  UsageInv'
  <2>1. \A c \in Calls : MayMove(call[c], call'[c])
    BY <1>1 DEF MayMove
  <2>2. QED
    BY <1>1, <2>1, RowsStand
<1>2. day \in Nat /\ IsFiniteSet(models)
  BY DEF UsageInv
<1>3. CASE \E r \in Runs : OfRun(r)
  <2>1. PICK r \in Runs : OfRun(r)
    BY <1>3
  <2>2. CASE StartRun(r) \/ TurnFails(r) \/ RoundEnds(r) \/ Stop(r)
    BY <1>1, <1>2, <2>2 DEF StartRun, TurnFails, RoundEnds, Stop, usage, history
  <2>3. QED
    BY <2>1, <2>2, TurnCounts DEF OfRun
<1>4. CASE \E c \in Calls : OfCall(c)
  BY <1>4, OfCallCounts
<1>5. CASE \E t \in tasks : WriteModel(t)
  <2>1. PICK t \in tasks : WriteModel(t)
    BY <1>5
  <2>2. models' = models \/ \E m : models' = models \cup {m}
    BY <2>1 DEF WriteModel
  <2>3. IsFiniteSet(models')
    BY <1>2, <2>2, FS_AddElement
  <2>4. QED
    BY <1>1, <1>2, <2>1, <2>3 DEF WriteModel, history
<1>6. CASE BeginDrain \/ Drained \/ Midnight
  BY <1>1, <1>2, <1>6 DEF BeginDrain, Drained, Midnight, usage, history
<1>7. CASE UNCHANGED vars
  BY <1>1, <1>2, <1>7 DEF vars
<1>8. QED
  BY <1>3, <1>4, <1>5, <1>6, <1>7, CrashCounts DEF Next

LEMMA UsageStarts == Init => UsageInv
<1>1. SUFFICES ASSUME Init PROVE UsageInv
  OBVIOUS
<1>2. rows = [c \in Calls |-> NoRow] /\ call = [c \in Calls |-> Idle] /\ executed = {} /\ day = 1 /\ models = {}
  BY <1>1 DEF Init
<1>3. NoRow \in RowRecord /\ NoRow.success = FALSE /\ NoRow.tool = None /\ Idle.pc = "unused"
  BY DEF NoRow, RowRecord, Idle
<1>4. \A c \in Calls : RowFits(c, call[c], rows[c], executed, unheard)
  BY <1>2, <1>3 DEF RowFits, Early, Late
<1>5. ASSUME NEW d PROVE DayFits(d)
  <2>1. OnDay(d) = {} /\ \A tool : OnDayOf(d, tool) = {}
    BY <1>2, <1>3 DEF OnDay, OnDayOf
  <2>2. Cardinality(OnDay(d)) = 0 /\ \A tool : Cardinality(OnDayOf(d, tool)) = 0
    BY <2>1, FS_EmptySet
  <2>3. QED
    BY <2>2, LimitsAssumption DEF DayFits
<1>6. QED
  BY <1>2, <1>3, <1>4, <1>5, FS_EmptySet DEF UsageInv

LEMMA UsageInvariant == Spec => []UsageInv
BY BudgetInvariant, UsageStarts, UsageStep, PTL DEF Spec

(* A finite set is as large as its parts, one for each of two questions. *)
LEMMA PartsAddUp ==
  ASSUME NEW S, IsFiniteSet(S), NEW A, NEW B, NEW C, A \cup B \cup C = S,
         A \cap B = {}, A \cap C = {}, B \cap C = {}
  PROVE  Cardinality(S) = Cardinality(A) + Cardinality(B) + Cardinality(C)
<1>1. A \subseteq S /\ B \subseteq S /\ C \subseteq S
  OBVIOUS
<1>2. IsFiniteSet(A) /\ IsFiniteSet(B) /\ IsFiniteSet(C)
  BY <1>1, FS_Subset
<1>3. /\ Cardinality(A) \in Nat /\ Cardinality(B) \in Nat /\ Cardinality(C) \in Nat
      /\ Cardinality({}) = 0
  BY <1>2, FS_CardinalityType, FS_EmptySet
<1>4. PICK D : D = A \cup B
  OBVIOUS
<1>5. D \cap C = {} /\ D \cup C = S
  BY <1>4
<1>6. IsFiniteSet(D) /\ Cardinality(D) = Cardinality(A) + Cardinality(B) - Cardinality(A \cap B)
  BY <1>2, <1>4, FS_Union
<1>7. Cardinality(S) = Cardinality(D) + Cardinality(C) - Cardinality(D \cap C)
  BY <1>2, <1>5, <1>6, FS_Union
<1>8. Cardinality(A \cap B) = 0 /\ Cardinality(D \cap C) = 0
  BY <1>3, <1>5
<1>9. QED
  BY <1>3, <1>6, <1>7, <1>8

LEMMA TotalsAddUp == UsageInv => StatisticsAddUp
<1>1. SUFFICES ASSUME UsageInv PROVE StatisticsAddUp
  OBVIOUS
<1>2. ASSUME NEW tool \in Tools
      PROVE  ByTool(tool).calls = ByTool(tool).successes + ByTool(tool).failures + ByTool(tool).degraded
  <2> DEFINE S == {c \in Counted : rows[c].tool = tool}
             A == {c \in S : rows[c].success}
             B == {c \in S : ~rows[c].success /\ ~Degraded(c)}
             C == {c \in S : Degraded(c)}
  <2>1. S \subseteq Calls
    BY DEF Counted
  <2>2. \A c \in S : rows[c].success => ~Degraded(c)
    BY <1>1, <2>1 DEF UsageInv, RowFits, Degraded
  <2>3. IsFiniteSet(S)
    BY <2>1, CallsAssumption, FS_Subset
  <2>4. A \cup B \cup C = S /\ A \cap B = {} /\ A \cap C = {} /\ B \cap C = {}
    BY <2>2
  <2>5. ByTool(tool) = [calls |-> Cardinality(S), successes |-> Cardinality(A),
                        failures |-> Cardinality(B), degraded |-> Cardinality(C)]
    BY Zenon DEF ByTool, ToolTotals
  <2> HIDE DEF S, A, B, C
  <2>6. Cardinality(S) = Cardinality(A) + Cardinality(B) + Cardinality(C)
    BY <2>3, <2>4, PartsAddUp
  <2>7. QED
    BY <2>5, <2>6
<1>3. ModelTotals.requests = ModelTotals.successes + ModelTotals.failures + ModelTotals.canceled
  <2> DEFINE A == {m \in models : m.success}
             B == {m \in models : ~m.success /\ m.error # "canceled"}
             C == {m \in models : ~m.success /\ m.error = "canceled"}
  <2>1. A \cup B \cup C = models /\ A \cap B = {} /\ A \cap C = {} /\ B \cap C = {}
    OBVIOUS
  <2>2. IsFiniteSet(models)
    BY <1>1 DEF UsageInv
  <2>3. ModelTotals = [requests |-> Cardinality(models), successes |-> Cardinality(A),
                       failures |-> Cardinality(B), canceled |-> Cardinality(C)]
    BY Zenon DEF ModelTotals
  <2> HIDE DEF A, B, C
  <2>4. Cardinality(models) = Cardinality(A) + Cardinality(B) + Cardinality(C)
    BY <2>1, <2>2, PartsAddUp
  <2>5. QED
    BY <2>3, <2>4
<1>4. QED
  BY <1>2, <1>3, Zenon DEF StatisticsAddUp

(* The tools that ran on a day have their rows among those counted. *)
LEMMA LimitsHold == UsageInv => DailyLimitsHold
<1>1. SUFFICES ASSUME UsageInv, NEW d \in 1 .. day
               PROVE LET ran == {c \in executed : rows[c].day = d}
                     IN  /\ CallLimit > 0 => Cardinality(ran) <= CallLimit
                         /\ \A tool \in Tools : ToolLimit[tool] > 0 =>
                              Cardinality({c \in ran : rows[c].tool = tool}) <= ToolLimit[tool]
  BY DEF DailyLimitsHold
<1> DEFINE ran == {c \in executed : rows[c].day = d}
           ranOf(tool) == {c \in ran : rows[c].tool = tool}
<1>2. ran \subseteq OnDay(d) /\ \A tool : ranOf(tool) \subseteq OnDayOf(d, tool)
  <2>1. \A c \in executed : c \in Calls /\ rows[c].tool \in Tools
    BY <1>1 DEF UsageInv, RowFits
  <2>2. QED
    BY <2>1, NoneAssumption DEF OnDay, OnDayOf
<1>3. IsFiniteSet(OnDay(d)) /\ \A tool : IsFiniteSet(OnDayOf(d, tool))
  <2>1. OnDay(d) \subseteq Calls /\ \A tool : OnDayOf(d, tool) \subseteq Calls
    BY DEF OnDay, OnDayOf
  <2>2. QED
    BY <2>1, CallsAssumption, FS_Subset
<1> HIDE DEF ran, ranOf
<1>4. /\ Cardinality(ran) \in Nat /\ Cardinality(OnDay(d)) \in Nat /\ Cardinality(ran) <= Cardinality(OnDay(d))
      /\ \A tool : /\ Cardinality(ranOf(tool)) \in Nat /\ Cardinality(OnDayOf(d, tool)) \in Nat
                   /\ Cardinality(ranOf(tool)) <= Cardinality(OnDayOf(d, tool))
  BY <1>2, <1>3, FS_Subset, FS_CardinalityType
<1>5. DayFits(d) /\ CallLimit \in Nat /\ \A tool \in Tools : ToolLimit[tool] \in Nat
  BY <1>1, LimitsAssumption DEF UsageInv
<1>6. CallLimit > 0 => Cardinality(ran) <= CallLimit
  BY <1>4, <1>5 DEF DayFits
<1>7. \A tool \in Tools : ToolLimit[tool] > 0 => Cardinality(ranOf(tool)) <= ToolLimit[tool]
  BY <1>4, <1>5 DEF DayFits
<1>8. QED
  BY <1>6, <1>7, Zenon DEF ran, ranOf

(* Tools never run more often on a day than the limits of that day allow,      *)
(* however the calls of parallel runs interleave; every call that is over has   *)
(* its outcome in its row, or a fault kept it; and the statistics count each     *)
(* row once (ReserveToolCall, FinishToolSync, aggregateToolTotals).              *)
THEOREM UsageStaysCounted == Spec => []UsageIsCounted
<1>1. UsageInv => OutcomesAreRecorded
  BY DEF UsageInv, RowFits, Told, Extracted, Kept, Fine, Degraded, OutcomesAreRecorded
<1>2. UsageInv => UsageIsCounted
  BY <1>1, LimitsHold, TotalsAddUp DEF UsageIsCounted
<1>3. QED
  BY <1>2, UsageInvariant, PTL
================================================================================
