----------------------------- MODULE NumberFacts -----------------------------
(* Facts about natural numbers that the proofs about searches for a first hit, *)
(* for the beginning of a command and for the newest snapshot use.             *)
EXTENDS Naturals, FiniteSetTheorems, WellFoundedInduction, TLAPS

(* A set of numbers that is not empty has a least one. *)
LEMMA LeastNumber ==
  ASSUME NEW S, S \subseteq Nat, S # {}
  PROVE  \E i \in S : \A j \in S : i <= j
<1> DEFINE UpTo == {0..i : i \in S}
<1>1. UpTo # {} /\ UpTo \subseteq FiniteSubsetsOf(Nat)
  <2>1. ASSUME NEW i \in S
        PROVE  0..i \in FiniteSubsetsOf(Nat)
    <3>1. i \in Int /\ 0..i \in SUBSET Nat
      OBVIOUS
    <3>2. IsFiniteSet(0..i)
      BY <3>1, FS_Interval
    <3> QED
      BY <3>1, <3>2 DEF FiniteSubsetsOf
  <2> QED
    BY <2>1
<1>2. PICK x \in UpTo : \A y \in UpTo : <<y, x>> \notin StrictSubsetOrdering(Nat)
  <2>1. IsWellFoundedOn(StrictSubsetOrdering(Nat), FiniteSubsetsOf(Nat))
    BY FS_StrictSubsetOrderingWellFounded
  <2> HIDE DEF UpTo
  <2> QED
    BY <1>1, <2>1, WFMin
<1>3. PICK i \in S : x = 0..i
  OBVIOUS
<1>4. ASSUME NEW j \in S, j < i
      PROVE  FALSE
  <2>1. 0..j \subseteq x /\ i \in x /\ i \notin 0..j
    BY <1>3, <1>4
  <2>2. 0..j \in SUBSET Nat /\ x \in SUBSET Nat
    BY <1>3
  <2>3. <<0..j, x>> \in StrictSubsetOrdering(Nat)
    BY <2>1, <2>2 DEF StrictSubsetOrdering
  <2> QED
    BY <1>2, <2>3
<1> QED
  BY <1>4

(* A bounded set of numbers that is not empty has a greatest one. *)
LEMMA GreatestNumber ==
  ASSUME NEW S, S \subseteq Nat, S # {}, NEW b \in Nat, \A i \in S : i <= b
  PROVE  \E i \in S : \A j \in S : i >= j
<1> DEFINE Bounds == {k \in Nat : \A i \in S : i <= k}
<1>1. PICK k \in Bounds : \A l \in Bounds : k <= l
  <2>1. Bounds # {} /\ Bounds \subseteq Nat
    OBVIOUS
  <2> HIDE DEF Bounds
  <2> QED
    BY <2>1, LeastNumber
<1>2. k \in S
  <2> SUFFICES ASSUME k \notin S PROVE FALSE
    OBVIOUS
  <2>1. k \in Nat /\ \A i \in S : i \in Nat /\ i <= k /\ i # k
    BY <1>1
  <2>2. PICK x \in S : TRUE
    OBVIOUS
  <2>3. k # 0
    BY <2>1, <2>2
  <2>4. k - 1 \in Nat /\ \A i \in S : i <= k - 1
    BY <2>1, <2>3
  <2>5. k - 1 \in Bounds
    BY <2>4
  <2> QED
    BY <1>1, <2>1, <2>5
<1> QED
  BY <1>1, <1>2

(* What holds of 0 and passes on from each number to the next. *)
LEMMA FromZeroOn ==
  ASSUME NEW N \in Nat, NEW S, 0 \in S, \A n \in 1 .. N : n - 1 \in S => n \in S
  PROVE  0 .. N \subseteq S
<1> DEFINE Others == (0 .. N) \ S
<1> SUFFICES ASSUME Others # {}
             PROVE  FALSE
  OBVIOUS
<1>1. PICK n \in Others : \A m \in Others : n <= m
  <2>1. Others \subseteq Nat
    OBVIOUS
  <2> HIDE DEF Others
  <2> QED
    BY <2>1, LeastNumber
<1>2. n \in 1 .. N /\ n - 1 \in 0 .. N /\ n - 1 < n
  BY <1>1
<1> QED
  BY <1>1, <1>2

(* A function can be defined value after value, each by the one before. *)
HasValues(N, V, first, step) ==
  \E f \in [0 .. N -> V] : f[0] = first /\ \A n \in 1 .. N : f[n] = step[n][f[n - 1]]

LEMMA ValueAfterValue ==
  ASSUME NEW N \in Nat, NEW V, NEW first \in V, NEW step,
         \A n \in 1 .. N : \A v \in V : step[n][v] \in V
  PROVE  HasValues(N, V, first, step)
<1> DEFINE Begins(f, m) == /\ f \in [0 .. m -> V] /\ f[0] = first
                           /\ \A n \in 1 .. m : f[n] = step[n][f[n - 1]]
           S == {m \in 0 .. N : \E f : Begins(f, m)}
<1>1. 0 \in S
  <2>1. Begins([n \in 0 .. 0 |-> first], 0)
    OBVIOUS
  <2> HIDE DEF Begins
  <2> QED
    BY <2>1
<1>2. ASSUME NEW m \in 1 .. N, m - 1 \in S
      PROVE  m \in S
  <2>1. PICK f : Begins(f, m - 1)
    BY <1>2
  <2> DEFINE g == [n \in 0 .. m |-> IF n = m THEN step[m][f[m - 1]] ELSE f[n]]
  <2>2. f[m - 1] \in V /\ step[m][f[m - 1]] \in V
    BY <2>1
  <2>3. g \in [0 .. m -> V] /\ g[0] = first
    BY <2>1, <2>2
  <2>4. ASSUME NEW n \in 1 .. m
        PROVE  g[n] = step[n][g[n - 1]]
    <3>1. n - 1 \in 0 .. m /\ n - 1 # m /\ g[n - 1] = f[n - 1]
      OBVIOUS
    <3>2. CASE n = m
      BY <3>1, <3>2
    <3>3. CASE n # m
      <4>1. n \in 1 .. m - 1
        BY <3>3
      <4> QED
        BY <2>1, <3>1, <3>3, <4>1
    <3> QED
      BY <3>2, <3>3
  <2>5. Begins(g, m)
    BY <2>3, <2>4
  <2> HIDE DEF Begins, g
  <2> QED
    BY <2>5
<1>3. N \in S
  <2> HIDE DEF S
  <2> QED
    BY <1>1, <1>2, FromZeroOn
<1> QED
  BY <1>3 DEF HasValues
===============================================================================
