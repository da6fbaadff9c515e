------------------------------ MODULE Counting ------------------------------
(***************************************************************************)
(* Facts about numbers, finite sets and sums that proofs of several        *)
(* components rest on.  A sum over the values of a function is defined by  *)
(* recursion over an arbitrary choice of the next element; here it is      *)
(* shown to exist, and not to depend on that choice.                       *)
(***************************************************************************)
EXTENDS Integers, FiniteSetTheorems, TLAPS

(* A set of numbers that is not empty has a least one. *)
LEMMA LeastExists ==
  ASSUME NEW S, S \subseteq Nat, S # {}
  PROVE  \E x \in S : \A y \in S : x <= y
<1> DEFINE R == OpToRel(<, Nat)
<1>1. IsWellFoundedOn(R, Nat)
  BY NatLessThanWellFounded, Zenon
<1>2. \A x, y \in Nat : x < y => <<x, y>> \in R
  BY Zenon DEF OpToRel
<1> HIDE DEF R
<1>3. PICK x \in S : \A y \in S : ~(<<y, x>> \in R)
  BY <1>1, WFMin
<1>4. ASSUME NEW y \in S PROVE x <= y
  <2>1. x \in Nat /\ y \in Nat /\ ~(<<y, x>> \in R)
    BY <1>3
  <2>2. ~(y < x)
    BY <1>2, <2>1
  <2>3. QED
    BY <2>1, <2>2
<1>5. QED
  BY <1>4

(* What holds of zero and of the number after each number holds of all. *)
LEMMA NumberInduction ==
  ASSUME NEW Good, 0 \in Good, \A n \in Nat : n \in Good => n + 1 \in Good
  PROVE  Nat \subseteq Good
<1>1. SUFFICES ASSUME Nat \ Good # {} PROVE FALSE
  OBVIOUS
<1>2. PICK n \in Nat \ Good : \A m \in Nat \ Good : n <= m
  BY <1>1, LeastExists
<1>3. n # 0 /\ n - 1 \in Nat
  BY <1>2
<1>4. n - 1 \in Good
  BY <1>2, <1>3
<1>5. (n - 1) + 1 \in Good
  BY <1>3, <1>4
<1>6. QED
  BY <1>2, <1>5

(* What a set has once every set with one element less has it, all subsets of  *)
(* a finite set have.                                                          *)
LEMMA SubsetInduction ==
  ASSUME NEW S, IsFiniteSet(S), NEW Good,
         \A T \in SUBSET S : (\A x \in T : T \ {x} \in Good) => T \in Good
  PROVE  SUBSET S \subseteq Good
<1> DEFINE Bad == (SUBSET S) \ Good
           Counts == {Cardinality(T) : T \in Bad}
<1>1. SUFFICES ASSUME Bad # {} PROVE FALSE
  OBVIOUS
<1>2. \A T \in SUBSET S : IsFiniteSet(T) /\ Cardinality(T) \in Nat
  BY FS_Subset, FS_CardinalityType
<1>3. Counts \subseteq Nat /\ Counts # {}
  BY <1>1, <1>2
<1>4. PICK n \in Counts : \A m \in Counts : n <= m
  <2> HIDE DEF Counts
  <2>1. QED
    BY <1>3, LeastExists
<1>5. PICK T \in Bad : n = Cardinality(T)
  BY <1>4
<1>6. ASSUME NEW x \in T PROVE T \ {x} \in Good
  <2>1. /\ T \ {x} \in SUBSET S /\ Cardinality(T \ {x}) = Cardinality(T) - 1
        /\ Cardinality(T) \in Nat
    BY <1>2, <1>5, FS_RemoveElement
  <2>2. T \ {x} \in Bad => n <= Cardinality(T \ {x})
    BY <1>4
  <2>3. QED
    BY <1>5, <2>1, <2>2
<1>7. QED
  BY <1>5, <1>6

(* A finite set of numbers that is not empty has a greatest one. *)
LEMMA LastExists ==
  ASSUME NEW S, S \subseteq Nat, S # {}, IsFiniteSet(S)
  PROVE  \E x \in S : \A y \in S : y <= x
<1> DEFINE Good == {T \in SUBSET S : T # {} => \E x \in T : \A y \in T : y <= x}
<1>1. ASSUME NEW T \in SUBSET S, \A x \in T : T \ {x} \in Good
      PROVE  T \in Good
  <2>1. SUFFICES ASSUME T # {} PROVE \E x \in T : \A y \in T : y <= x
    OBVIOUS
  <2>2. PICK x \in T : TRUE
    BY <2>1
  <2>3. CASE T \ {x} = {}
    BY <2>2, <2>3
  <2>4. CASE T \ {x} # {}
    <3>1. PICK z \in T \ {x} : \A y \in T \ {x} : y <= z
      BY <1>1, <2>2, <2>4
    <3>2. \A y \in T : y \in Nat
      OBVIOUS
    <3>3. CASE x <= z
      BY <3>1, <3>3
    <3>4. CASE ~(x <= z)
      <4>1. ASSUME NEW y \in T PROVE y <= x
        <5>1. y = x \/ y <= z
          BY <3>1
        <5>2. x \in Nat /\ y \in Nat /\ z \in Nat
          BY <2>2, <3>1, <3>2
        <5>3. QED
          BY <3>4, <5>1, <5>2
      <4>2. QED
        BY <2>2, <4>1
    <3>5. QED
      BY <3>3, <3>4
  <2>5. QED
    BY <2>3, <2>4
<1> HIDE DEF Good
<1>2. S \in Good
  BY <1>1, SubsetInduction
<1>3. QED
  BY <1>2 DEF Good

\* Each value of a function on the numbers up to n comes from the one before it.
Recurs(n, base, step, g) ==
  g = [i \in 0 .. n |-> IF i = 0 THEN base ELSE step[<<i, g[i - 1]>>]]

(* There is such a function. *)
LEMMA NumberRecursion ==
  ASSUME NEW n \in Nat, NEW base, NEW step
  PROVE  \E g : Recurs(n, base, step, g)
<1> DEFINE Good == {m \in Nat : \E g : Recurs(m, base, step, g)}
<1>1. 0 \in Good
  <2> DEFINE g == [i \in 0 .. 0 |-> base]
  <2>1. Recurs(0, base, step, g)
    BY DEF Recurs
  <2>2. QED
    BY <2>1
<1>2. ASSUME NEW m \in Nat, m \in Good PROVE m + 1 \in Good
  <2>1. PICK g : Recurs(m, base, step, g)
    BY <1>2
  <2> DEFINE h == [i \in 0 .. m + 1 |-> IF i = 0 THEN base ELSE step[<<i, g[i - 1]>>]]
  <2>2. ASSUME NEW i \in 0 .. m + 1, i # 0 PROVE h[i - 1] = g[i - 1]
    <3>1. i - 1 \in 0 .. m /\ i - 1 \in 0 .. m + 1
      BY <2>2
    <3>2. QED
      BY <2>1, <3>1 DEF Recurs
  <2> DEFINE k == [i \in 0 .. m + 1 |-> IF i = 0 THEN base ELSE step[<<i, h[i - 1]>>]]
  <2>3. \A i \in 0 .. m + 1 : h[i] = k[i]
    BY <2>2
  <2>4. h = k
    BY <2>3
  <2>5. Recurs(m + 1, base, step, h)
    BY <2>4 DEF Recurs
  <2> HIDE DEF h
  <2>6. QED
    BY <2>5
<1> HIDE DEF Good
<1>3. n \in Good
  BY <1>1, <1>2, NumberInduction
<1>4. QED
  BY <1>3 DEF Good

-----------------------------------------------------------------------------
(* Sums *)

Next0(s) == CHOOSE y \in s : TRUE
Adds(S, f, g) ==
  g = [s \in SUBSET S |-> IF s = {} THEN 0 ELSE f[Next0(s)] + g[s \ {Next0(s)}]]

(* There is a function that adds up the values over every subset. *)
LEMMA AddsExists ==
  ASSUME NEW S, IsFiniteSet(S), NEW f
  PROVE  \E g : Adds(S, f, g)
<1> DEFINE Part(n) == {s \in SUBSET S : Cardinality(s) <= n}
           Does(n, g) == g = [s \in Part(n) |-> IF s = {} THEN 0 ELSE f[Next0(s)] + g[s \ {Next0(s)}]]
           Good == {n \in Nat : \E g : Does(n, g)}
<1>1. \A s \in SUBSET S : IsFiniteSet(s) /\ Cardinality(s) \in Nat /\ (Cardinality(s) = 0 <=> s = {})
  BY FS_Subset, FS_CardinalityType, FS_EmptySet
<1>2. 0 \in Good
  <2> DEFINE g == [s \in Part(0) |-> 0]
  <2>1. \A s \in Part(0) : s = {}
    BY <1>1
  <2>2. Does(0, g)
    BY <2>1
  <2>3. QED
    BY <2>2
<1>3. ASSUME NEW n \in Nat, n \in Good PROVE n + 1 \in Good
  <2>1. PICK g : Does(n, g)
    BY <1>3
  <2> DEFINE h == [s \in Part(n + 1) |-> IF s = {} THEN 0 ELSE f[Next0(s)] + g[s \ {Next0(s)}]]
  <2>2. ASSUME NEW s \in Part(n + 1), s # {} PROVE h[s \ {Next0(s)}] = g[s \ {Next0(s)}]
    <3> DEFINE t == s \ {Next0(s)}
    <3>1. Next0(s) \in s
      BY <2>2 DEF Next0
    <3>2. Cardinality(t) = Cardinality(s) - 1 /\ t \in SUBSET S
      BY <1>1, <3>1, FS_RemoveElement
    <3>3. t \in Part(n) /\ t \in Part(n + 1)
      BY <1>1, <3>2
    <3> HIDE DEF t
    <3>4. g[t] = IF t = {} THEN 0 ELSE f[Next0(t)] + g[t \ {Next0(t)}]
      BY <2>1, <3>3
    <3>5. h[t] = IF t = {} THEN 0 ELSE f[Next0(t)] + g[t \ {Next0(t)}]
      BY <3>3
    <3>6. h[t] = g[t]
      BY <3>4, <3>5
    <3>7. QED
      BY <3>6 DEF t
  <2>3. Does(n + 1, h)
    <3>1. \A s \in Part(n + 1) :
            (IF s = {} THEN 0 ELSE f[Next0(s)] + g[s \ {Next0(s)}])
            = (IF s = {} THEN 0 ELSE f[Next0(s)] + h[s \ {Next0(s)}])
      BY <2>2
    <3> DEFINE k == [s \in Part(n + 1) |-> IF s = {} THEN 0 ELSE f[Next0(s)] + h[s \ {Next0(s)}]]
    <3>2. h = k
      BY <3>1
    <3>3. QED
      BY <3>2
  <2> HIDE DEF h, Does, Part
  <2>4. \E k : Does(n + 1, k)
    BY <2>3, Zenon
  <2>5. QED
    BY <2>4
<1>4. Cardinality(S) \in Good
  <2> HIDE DEF Good
  <2>1. Nat \subseteq Good
    BY <1>2, <1>3, NumberInduction
  <2>2. Cardinality(S) \in Nat
    BY FS_CardinalityType, Zenon
  <2>3. QED
    BY <2>1, <2>2
<1>5. PICK g : Does(Cardinality(S), g)
  BY <1>4
<1>6. Part(Cardinality(S)) = SUBSET S
  BY FS_Subset
<1>7. QED
  BY <1>5, <1>6 DEF Adds

(* It is the sum, over the whole and over every part. *)
LEMMA AddsIsSum ==
  ASSUME NEW S, IsFiniteSet(S), NEW f
  PROVE  \E g : Adds(S, f, g) /\ SumFunctionOnSet(f, S) = g[S]
<1> DEFINE g == CHOOSE h : h = [s \in SUBSET S |-> IF s = {} THEN 0
                                  ELSE f[CHOOSE y \in s : TRUE] + h[s \ {CHOOSE y \in s : TRUE}]]
<1>1. PICK h : Adds(S, f, h)
  BY AddsExists
<1>2. h = [s \in SUBSET S |-> IF s = {} THEN 0
             ELSE f[CHOOSE y \in s : TRUE] + h[s \ {CHOOSE y \in s : TRUE}]]
  BY <1>1, Zenon DEF Adds, Next0
<1>3. g = [s \in SUBSET S |-> IF s = {} THEN 0
             ELSE f[CHOOSE y \in s : TRUE] + g[s \ {CHOOSE y \in s : TRUE}]]
  BY <1>2, Zenon
<1>4. SumFunctionOnSet(f, S) = g[S]
  BY Zenon DEF SumFunctionOnSet, FoldFunctionOnSet, MapThenFoldSet
<1>5. Adds(S, f, g)
  BY <1>3, Zenon DEF Adds, Next0
<1>6. QED
  BY <1>4, <1>5, Zenon

(* Two such functions agree where both are defined. *)
LEMMA AddsAgree ==
  ASSUME NEW S, IsFiniteSet(S), NEW T \in SUBSET S, NEW f, NEW g, NEW h, Adds(S, f, g), Adds(T, f, h)
  PROVE  g[T] = h[T]
<1> DEFINE Good == {U \in SUBSET T : g[U] = h[U]}
<1>1. ASSUME NEW U \in SUBSET T, \A x \in U : U \ {x} \in Good
      PROVE  U \in Good
  <2>1. /\ g[U] = IF U = {} THEN 0 ELSE f[Next0(U)] + g[U \ {Next0(U)}]
        /\ h[U] = IF U = {} THEN 0 ELSE f[Next0(U)] + h[U \ {Next0(U)}]
    BY DEF Adds
  <2>2. U # {} => Next0(U) \in U
    BY DEF Next0
  <2>3. QED
    BY <1>1, <2>1, <2>2
<1>2. IsFiniteSet(T)
  BY FS_Subset
<1> HIDE DEF Good
<1>3. T \in Good
  BY <1>1, <1>2, SubsetInduction
<1>4. QED
  BY <1>3 DEF Good

(* The sum takes out some element and adds the rest. *)
LEMMA SumUnfolds ==
  ASSUME NEW S, IsFiniteSet(S), NEW f
  PROVE  SumFunctionOnSet(f, S) =
           IF S = {} THEN 0 ELSE f[Next0(S)] + SumFunctionOnSet(f, S \ {Next0(S)})
<1> DEFINE T == S \ {Next0(S)}
<1>1. PICK g : Adds(S, f, g) /\ SumFunctionOnSet(f, S) = g[S]
  BY AddsIsSum
<1>2. IsFiniteSet(T) /\ T \in SUBSET S
  BY FS_Subset
<1>3. PICK h : Adds(T, f, h) /\ SumFunctionOnSet(f, T) = h[T]
  BY <1>2, AddsIsSum
<1>4. g[T] = h[T]
  BY <1>1, <1>2, <1>3, AddsAgree
<1>5. g[S] = IF S = {} THEN 0 ELSE f[Next0(S)] + g[T]
  BY <1>1 DEF Adds
<1>6. QED
  BY <1>1, <1>3, <1>4, <1>5

(* A sum of integers is one, of numbers a number. *)
LEMMA SumType ==
  ASSUME NEW S, IsFiniteSet(S), NEW f, \A x \in S : f[x] \in Int
  PROVE  /\ SumFunctionOnSet(f, S) \in Int
         /\ (\A x \in S : f[x] \in Nat) => SumFunctionOnSet(f, S) \in Nat
<1> DEFINE Good == {T \in SUBSET S :
                      /\ SumFunctionOnSet(f, T) \in Int
                      /\ (\A x \in T : f[x] \in Nat) => SumFunctionOnSet(f, T) \in Nat}
<1>1. ASSUME NEW T \in SUBSET S, \A x \in T : T \ {x} \in Good
      PROVE  T \in Good
  <2> DEFINE Sum(U) == SumFunctionOnSet(f, U)
             n == Next0(T)
  <2>1. Sum(T) = IF T = {} THEN 0 ELSE f[n] + Sum(T \ {n})
    <3>1. IsFiniteSet(T)
      BY FS_Subset
    <3>2. QED
      BY <3>1, SumUnfolds, Zenon
  <2>2. T # {} => n \in T
    BY DEF Next0
  <2>3. CASE T = {}
    BY <2>1, <2>3
  <2>4. CASE T # {}
    <3>1. n \in T /\ T \ {n} \in Good /\ f[n] \in Int /\ Sum(T) = f[n] + Sum(T \ {n})
      BY <1>1, <2>1, <2>2, <2>4
    <3> HIDE DEF n, Sum
    <3>2. /\ Sum(T \ {n}) \in Int
          /\ (\A x \in T \ {n} : f[x] \in Nat) => Sum(T \ {n}) \in Nat
      BY <3>1, Zenon DEF Sum
    <3>3. /\ Sum(T) \in Int
          /\ (\A x \in T : f[x] \in Nat) => Sum(T) \in Nat
      BY <3>1, <3>2
    <3>4. QED
      BY <3>3 DEF Sum
  <2>5. QED
    BY <2>3, <2>4
<1> HIDE DEF Good
<1>2. S \in Good
  BY <1>1, SubsetInduction
<1>3. QED
  BY <1>2 DEF Good

(* It does not matter which element is taken out. *)
LEMMA SumTakesOut ==
  ASSUME NEW S, IsFiniteSet(S), NEW f, \A x \in S : f[x] \in Int, NEW z \in S
  PROVE  SumFunctionOnSet(f, S) = f[z] + SumFunctionOnSet(f, S \ {z})
<1> DEFINE Good == {T \in SUBSET S : \A x \in T : SumFunctionOnSet(f, T) = f[x] + SumFunctionOnSet(f, T \ {x})}
<1>1. ASSUME NEW T \in SUBSET S, \A x \in T : T \ {x} \in Good
      PROVE  T \in Good
  <2>1. ASSUME NEW x \in T PROVE SumFunctionOnSet(f, T) = f[x] + SumFunctionOnSet(f, T \ {x})
    <3> DEFINE n == Next0(T)
    <3>1. n \in T
      BY DEF Next0
    <3>2. SumFunctionOnSet(f, T) = f[n] + SumFunctionOnSet(f, T \ {n})
      BY FS_Subset, SumUnfolds
    <3>3. CASE x = n
      BY <3>2, <3>3
    <3>4. CASE x # n
      <4>1. SumFunctionOnSet(f, T \ {n}) = f[x] + SumFunctionOnSet(f, (T \ {n}) \ {x})
        BY <1>1, <3>1, <3>4
      <4>2. SumFunctionOnSet(f, T \ {x}) = f[n] + SumFunctionOnSet(f, (T \ {x}) \ {n})
        BY <1>1, <3>1, <3>4
      <4>3. (T \ {n}) \ {x} = (T \ {x}) \ {n}
        OBVIOUS
      <4>4. SumFunctionOnSet(f, (T \ {x}) \ {n}) \in Int
        <5>1. IsFiniteSet((T \ {x}) \ {n})
          <6>1. (T \ {x}) \ {n} \subseteq S
            OBVIOUS
          <6> HIDE DEF n
          <6>2. QED
            BY <6>1, FS_Subset
        <5>2. QED
          BY <5>1, SumType
      <4>5. f[n] \in Int /\ f[x] \in Int
        BY <3>1
      <4> DEFINE Sum(U) == SumFunctionOnSet(f, U)
                 rest == Sum((T \ {x}) \ {n})
      <4>6. /\ Sum(T) = f[n] + Sum(T \ {n})
            /\ Sum(T \ {n}) = f[x] + rest
            /\ Sum(T \ {x}) = f[n] + rest
            /\ rest \in Int /\ f[n] \in Int /\ f[x] \in Int
        BY <3>2, <4>1, <4>2, <4>3, <4>4, <4>5, Zenon
      <4> HIDE DEF n, rest, Sum
      <4>7. Sum(T) = f[x] + Sum(T \ {x})
        BY <4>6
      <4>8. QED
        BY <4>7 DEF Sum
    <3>5. QED
      BY <3>3, <3>4
  <2>2. QED
    BY <2>1
<1> HIDE DEF Good
<1>2. S \in Good
  BY <1>1, SubsetInduction
<1>3. QED
  BY <1>2 DEF Good

(* Sums of the same values are the same. *)
LEMMA SumSame ==
  ASSUME NEW S, IsFiniteSet(S), NEW f, NEW g, \A x \in S : f[x] = g[x]
  PROVE  SumFunctionOnSet(f, S) = SumFunctionOnSet(g, S)
<1> DEFINE Good == {T \in SUBSET S : SumFunctionOnSet(f, T) = SumFunctionOnSet(g, T)}
<1>1. ASSUME NEW T \in SUBSET S, \A x \in T : T \ {x} \in Good
      PROVE  T \in Good
  <2>1. /\ SumFunctionOnSet(f, T) = IF T = {} THEN 0 ELSE f[Next0(T)] + SumFunctionOnSet(f, T \ {Next0(T)})
        /\ SumFunctionOnSet(g, T) = IF T = {} THEN 0 ELSE g[Next0(T)] + SumFunctionOnSet(g, T \ {Next0(T)})
    BY FS_Subset, SumUnfolds
  <2>2. T # {} => Next0(T) \in T
    BY DEF Next0
  <2>3. QED
    BY <1>1, <2>1, <2>2
<1> HIDE DEF Good
<1>2. S \in Good
  BY <1>1, SubsetInduction
<1>3. QED
  BY <1>2 DEF Good

(* When one value changes, the sum changes by as much. *)
LEMMA SumChanges ==
  ASSUME NEW S, IsFiniteSet(S), NEW f, NEW g, NEW z \in S,
         \A x \in S : f[x] \in Int /\ g[x] \in Int,
         \A x \in S \ {z} : f[x] = g[x]
  PROVE  SumFunctionOnSet(g, S) = SumFunctionOnSet(f, S) - f[z] + g[z]
<1>1. IsFiniteSet(S \ {z})
  BY FS_Subset
<1>2. SumFunctionOnSet(f, S \ {z}) = SumFunctionOnSet(g, S \ {z}) /\ SumFunctionOnSet(f, S \ {z}) \in Int
  BY <1>1, SumSame, SumType
<1>3. /\ SumFunctionOnSet(f, S) = f[z] + SumFunctionOnSet(f, S \ {z})
      /\ SumFunctionOnSet(g, S) = g[z] + SumFunctionOnSet(g, S \ {z})
  BY SumTakesOut
<1>4. QED
  BY <1>2, <1>3

(* A sum of numbers is no less than each, and zero if all are. *)
LEMMA SumBounds ==
  ASSUME NEW S, IsFiniteSet(S), NEW f, \A x \in S : f[x] \in Nat
  PROVE  /\ SumFunctionOnSet(f, S) \in Nat
         /\ \A x \in S : f[x] <= SumFunctionOnSet(f, S)
         /\ (\A x \in S : f[x] = 0) => SumFunctionOnSet(f, S) = 0
<1>1. SumFunctionOnSet(f, S) \in Nat
  BY SumType
<1>2. ASSUME NEW x \in S PROVE f[x] <= SumFunctionOnSet(f, S)
  <2>1. SumFunctionOnSet(f, S \ {x}) \in Nat
    <3>1. IsFiniteSet(S \ {x}) /\ \A y \in S \ {x} : f[y] \in Nat /\ f[y] \in Int
      BY FS_Subset
    <3>2. QED
      BY <3>1, SumType
  <2>2. SumFunctionOnSet(f, S) = f[x] + SumFunctionOnSet(f, S \ {x})
    BY SumTakesOut
  <2>3. QED
    BY <2>1, <2>2
<1>3. ASSUME \A x \in S : f[x] = 0 PROVE SumFunctionOnSet(f, S) = 0
  <2> DEFINE Good == {T \in SUBSET S : SumFunctionOnSet(f, T) = 0}
  <2>1. ASSUME NEW T \in SUBSET S, \A x \in T : T \ {x} \in Good
        PROVE  T \in Good
    <3>1. SumFunctionOnSet(f, T) = IF T = {} THEN 0 ELSE f[Next0(T)] + SumFunctionOnSet(f, T \ {Next0(T)})
      BY FS_Subset, SumUnfolds
    <3>2. T # {} => Next0(T) \in T
      BY DEF Next0
    <3>3. QED
      BY <1>3, <2>1, <3>1, <3>2
  <2> HIDE DEF Good
  <2>2. S \in Good
    BY <2>1, SubsetInduction
  <2>3. QED
    BY <2>2 DEF Good
<1>4. QED
  BY <1>1, <1>2, <1>3

(* A sum of values that are each no more than two others is no more than the   *)
(* sums of those.                                                              *)
LEMMA SumAtMost ==
  ASSUME NEW S, IsFiniteSet(S), NEW f, NEW g, NEW h,
         \A x \in S : f[x] \in Nat /\ g[x] \in Nat /\ h[x] \in Nat /\ f[x] <= g[x] + h[x]
  PROVE  SumFunctionOnSet(f, S) <= SumFunctionOnSet(g, S) + SumFunctionOnSet(h, S)
<1> DEFINE Sum(k, T) == SumFunctionOnSet(k, T)
           Good == {T \in SUBSET S : Sum(f, T) <= Sum(g, T) + Sum(h, T)}
<1>1. ASSUME NEW T \in SUBSET S, \A x \in T : T \ {x} \in Good
      PROVE  T \in Good
  <2>1. IsFiniteSet(T)
    BY FS_Subset
  <2>2. CASE T = {}
    <3>1. Sum(f, T) = 0 /\ Sum(g, T) = 0 /\ Sum(h, T) = 0
      BY <2>1, <2>2, SumUnfolds
    <3> HIDE DEF Sum
    <3>2. QED
      BY <3>1
  <2>3. CASE T # {}
    <3>1. PICK x \in T : TRUE
      BY <2>3
    <3>2. \A y \in T : f[y] \in Int /\ g[y] \in Int /\ h[y] \in Int
      OBVIOUS
    <3>3. /\ Sum(f, T) = f[x] + Sum(f, T \ {x})
          /\ Sum(g, T) = g[x] + Sum(g, T \ {x})
          /\ Sum(h, T) = h[x] + Sum(h, T \ {x})
      BY <2>1, <3>2, SumTakesOut
    <3>4. IsFiniteSet(T \ {x})
      BY <2>1, FS_Subset
    <3>5. Sum(f, T \ {x}) \in Int /\ Sum(g, T \ {x}) \in Int /\ Sum(h, T \ {x}) \in Int
      BY <3>2, <3>4, SumType
    <3>6. T \ {x} \in Good
      BY <1>1
    <3> HIDE DEF Sum
    <3>7. Sum(f, T \ {x}) <= Sum(g, T \ {x}) + Sum(h, T \ {x})
      BY <3>6
    <3>8. f[x] \in Nat /\ g[x] \in Nat /\ h[x] \in Nat /\ f[x] <= g[x] + h[x]
      OBVIOUS
    <3>9. QED
      BY <3>3, <3>5, <3>7, <3>8
  <2>4. QED
    BY <2>2, <2>3
<1> HIDE DEF Good
<1>2. S \in Good
  BY <1>1, SubsetInduction
<1>3. QED
  BY <1>2 DEF Good

(* The numbers of elements of each kind add up to no more than there are.      *)
LEMMA SumOfCounts ==
  ASSUME NEW S, IsFiniteSet(S), NEW N, IsFiniteSet(N), NEW kind,
         NEW count, count = [n \in N |-> Cardinality({x \in S : kind[x] = n})]
  PROVE  SumFunctionOnSet(count, N) \in Nat /\ SumFunctionOnSet(count, N) <= Cardinality(S)
<1> DEFINE Of(T) == {x \in S : kind[x] \in T}
           Sum(T) == SumFunctionOnSet(count, T)
           Good == {T \in SUBSET N : Sum(T) = Cardinality(Of(T))}
<1>1. \A T : IsFiniteSet(Of(T)) /\ Cardinality(Of(T)) \in Nat /\ Cardinality(Of(T)) <= Cardinality(S)
             /\ Cardinality(S) \in Nat
  <2>1. ASSUME NEW T PROVE IsFiniteSet(Of(T)) /\ Cardinality(Of(T)) <= Cardinality(S)
    BY FS_Subset
  <2> HIDE DEF Of
  <2>2. QED
    BY <2>1, FS_CardinalityType
<1>2. \A n \in N : count[n] = Cardinality(Of({n})) /\ count[n] \in Nat /\ count[n] \in Int
  <2>1. ASSUME NEW n \in N PROVE count[n] = Cardinality(Of({n}))
    <3>1. Of({n}) = {x \in S : kind[x] = n}
      OBVIOUS
    <3>2. QED
      BY <3>1, Zenon
  <2> HIDE DEF Of
  <2>2. QED
    BY <1>1, <2>1
<1>3. ASSUME NEW T \in SUBSET N, \A n \in T : T \ {n} \in Good
      PROVE  T \in Good
  <2>1. IsFiniteSet(T)
    BY FS_Subset
  <2>2. CASE T = {}
    <3>1. Sum(T) = 0
      BY <2>1, <2>2, SumUnfolds
    <3>2. Of(T) = {}
      BY <2>2
    <3>3. Cardinality(Of(T)) = 0
      BY <3>2, FS_EmptySet
    <3> HIDE DEF Sum, Of
    <3>4. QED
      BY <3>1, <3>3
  <2>3. CASE T # {}
    <3>1. PICK n \in T : TRUE
      BY <2>3
    <3>2. \A y \in T : count[y] \in Int
      BY <1>2
    <3>3. Sum(T) = count[n] + Sum(T \ {n})
      BY <2>1, <3>2, SumTakesOut
    <3>4. Of(T) = Of({n}) \union Of(T \ {n}) /\ Of({n}) \intersect Of(T \ {n}) = {}
      OBVIOUS
    <3> HIDE DEF Of
    <3>5. Cardinality(Of(T)) = Cardinality(Of({n})) + Cardinality(Of(T \ {n})) - 0
      BY <1>1, <3>4, FS_Union, FS_EmptySet, ZenonT(60)
    <3>6. T \ {n} \in Good
      BY <1>3
    <3> HIDE DEF Sum
    <3>7. QED
      BY <1>1, <1>2, <3>3, <3>5, <3>6
  <2>4. QED
    BY <2>2, <2>3
<1> HIDE DEF Good
<1>4. N \in Good
  BY <1>3, SubsetInduction
<1>5. Sum(N) = Cardinality(Of(N))
  BY <1>4 DEF Good
<1> HIDE DEF Of
<1>6. QED
  BY <1>1, <1>5
=============================================================================
