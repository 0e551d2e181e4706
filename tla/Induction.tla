----------------------------- MODULE Induction ------------------------------
(***************************************************************************)
(* Induction over natural numbers, with a set in place of a predicate, and *)
(* what follows from it for functions that are defined by recursion.       *)
(***************************************************************************)
EXTENDS Integers, WellFoundedInduction, TLAPS

\* A set of natural numbers has a least element.
LEMMA LeastNatural ==
  ASSUME NEW T \in SUBSET Nat, T # {}
  PROVE  \E x \in T : \A y \in T : x <= y
<1> DEFINE Less == {pair \in Nat \X Nat : pair[1] < pair[2]}
<1>1. IsWellFoundedOn(Less, Nat)
  BY NatLessThanWellFounded DEF OpToRel
<1>2. PICK x \in T : \A y \in T : ~(<<y, x>> \in Less)
  <2> HIDE DEF Less
  <2> QED
    BY <1>1, WFMin, Zenon
<1>3. ASSUME NEW y \in T PROVE x <= y
  <2>1. <<y, x>> \in Nat \X Nat /\ <<y, x>>[1] = y /\ <<y, x>>[2] = x
    OBVIOUS
  <2> QED
    BY <1>2, <2>1
<1> QED
  BY <1>3

\* Induction from m up to n.
LEMMA RangeInduction ==
  ASSUME NEW S, NEW m \in Int, NEW n \in Int, m <= n => m \in S,
         \A i \in m..(n - 1) : i \in S => i + 1 \in S
  PROVE  m..n \subseteq S
<1> DEFINE T == {k \in Nat : m + k <= n /\ m + k \notin S}
<1> SUFFICES ASSUME T # {} PROVE FALSE
  <2> SUFFICES ASSUME NEW i \in m..n, i \notin S PROVE FALSE
    OBVIOUS
  <2>1. i - m \in Nat /\ m + (i - m) = i /\ i <= n
    OBVIOUS
  <2>2. i - m \in T
    BY <2>1
  <2> QED
    BY <2>2
<1>1. PICK k \in T : \A y \in T : k <= y
  <2> HIDE DEF T
  <2>1. T \in SUBSET Nat
    BY DEF T
  <2> QED
    BY <2>1, LeastNatural
<1>2. k # 0
  OBVIOUS
<1>3. k - 1 \in Nat /\ m + (k - 1) \in m..(n - 1) /\ (m + (k - 1)) + 1 = m + k
  BY <1>2
<1>4. m + (k - 1) \in S
  BY <1>1, <1>3
<1> QED
  BY <1>3, <1>4

\* A set of numbers up to n has a greatest element.
LEMMA GreatestNatural ==
  ASSUME NEW n \in Nat, NEW T \in SUBSET (0..n), T # {}
  PROVE  \E x \in T : \A y \in T : y <= x
<1> DEFINE R == {k \in 0..n : n - k \in T}
<1>1. R # {}
  <2>1. PICK y \in T : TRUE
    OBVIOUS
  <2>2. n - y \in 0..n /\ n - (n - y) = y
    BY <2>1
  <2> QED
    BY <2>1, <2>2
<1>2. PICK k \in R : \A y \in R : k <= y
  <2>1. R \in SUBSET Nat
    OBVIOUS
  <2> HIDE DEF R
  <2> QED
    BY <1>1, <2>1, LeastNatural
<1>3. ASSUME NEW y \in T PROVE y <= n - k
  <2>1. n - y \in R
    <3>1. n - (n - y) = y /\ n - y \in 0..n
      OBVIOUS
    <3> QED
      BY <3>1
  <2>2. k <= n - y /\ k \in Nat /\ y \in Nat
    BY <1>2, <2>1
  <2> QED
    BY <2>2
<1> QED
  BY <1>2, <1>3

\* Finitely many numbers have a bound.
LEMMA BoundExists ==
  ASSUME NEW n \in Nat, NEW f, \A i \in 1..n : f[i] \in Nat
  PROVE  \E b \in Nat : \A i \in 1..n : f[i] <= b
<1> DEFINE Fine == {k \in 0..n : \E b \in Nat : \A i \in 1..k : f[i] <= b}
<1>1. 0 \in Fine
  OBVIOUS
<1>2. ASSUME NEW k \in 0..(n - 1), k \in Fine PROVE k + 1 \in Fine
  <2>1. PICK b \in Nat : \A i \in 1..k : f[i] <= b
    BY <1>2
  <2>2. f[k + 1] \in Nat /\ k + 1 \in 0..n
    OBVIOUS
  <2>3. b + f[k + 1] \in Nat
    BY <2>1, <2>2
  <2>4. ASSUME NEW i \in 1..(k + 1) PROVE f[i] <= b + f[k + 1]
    <3>1. CASE i = k + 1
      BY <2>1, <2>2, <3>1
    <3>2. CASE i # k + 1
      <4>1. i \in 1..k /\ f[i] \in Nat
        BY <3>2
      <4> QED
        BY <2>1, <2>2, <4>1
    <3> QED
      BY <3>1, <3>2
  <2> QED
    BY <2>2, <2>3, <2>4
<1>3. 0..n \subseteq Fine
  <2> HIDE DEF Fine
  <2>1. 0 \in Int /\ n \in Int
    OBVIOUS
  <2> QED
    BY <1>1, <1>2, <2>1, RangeInduction, Zenon
<1>4. n \in Fine
  <2> HIDE DEF Fine
  <2> QED
    BY <1>3
<1> QED
  BY <1>4, Zenon

\* What a value and an index i in m+1..n are mapped to.
StepsOn(S, m, n) == [S \X ((m + 1)..n) -> S]

\* f starts with c at m, and goes on with step.
Recurs(f, S, c, m, n, step) ==
    /\ f \in [m..n -> S]
    /\ f[m] = c
    /\ \A i \in (m + 1)..n : f[i] = step[<<f[i - 1], i>>]

\* A function on m..n can be defined by its first value and a step from each
\* value to the next one.
LEMMA RecursionExists ==
  ASSUME NEW S, NEW c \in S, NEW m \in Int, NEW n \in Int, m <= n,
         NEW step \in StepsOn(S, m, n)
  PROVE  \E f : Recurs(f, S, c, m, n, step)
<1> DEFINE Defines(f, k) ==
             f[m] = c /\ \A i \in (m + 1)..k : f[i] = step[<<f[i - 1], i>>]
           Good == {k \in m..n : \E f \in [m..k -> S] : Defines(f, k)}
<1>1. m \in Good
  <2>1. [i \in m..m |-> c] \in [m..m -> S] /\ Defines([i \in m..m |-> c], m)
    OBVIOUS
  <2> HIDE DEF Defines
  <2>2. \E f \in [m..m -> S] : Defines(f, m)
    BY <2>1
  <2> QED
    BY <2>2
<1>2. ASSUME NEW k \in m..(n - 1), k \in Good PROVE k + 1 \in Good
  <2>1. PICK f \in [m..k -> S] : Defines(f, k)
    BY <1>2
  <2> DEFINE next == step[<<f[k], k + 1>>]
             g == [i \in m..(k + 1) |-> IF i = k + 1 THEN next ELSE f[i]]
  <2>2. next \in S
    <3>1. f[k] \in S /\ k + 1 \in (m + 1)..n
      OBVIOUS
    <3> QED
      BY <3>1 DEF StepsOn
  <2>3. g \in [m..(k + 1) -> S]
    BY <2>2
  <2>4. g[m] = c
    BY <2>1
  <2>5. ASSUME NEW i \in (m + 1)..(k + 1) PROVE g[i] = step[<<g[i - 1], i>>]
    <3>1. CASE i = k + 1
      <4>1. g[i] = next /\ g[i - 1] = f[k]
        BY <3>1
      <4> QED
        BY <3>1, <4>1
    <3>2. CASE i # k + 1
      <4>1. i \in (m + 1)..k /\ g[i] = f[i] /\ g[i - 1] = f[i - 1]
        BY <3>2
      <4> QED
        BY <2>1, <4>1
    <3> QED
      BY <3>1, <3>2
  <2>6. Defines(g, k + 1)
    BY <2>4, <2>5
  <2> HIDE DEF Defines, g
  <2>7. \E h \in [m..(k + 1) -> S] : Defines(h, k + 1)
    BY <2>3, <2>6
  <2> QED
    BY <2>7
<1>3. m..n \subseteq Good
  <2> HIDE DEF Good
  <2> QED
    BY <1>1, <1>2, RangeInduction
<1>4. PICK f \in [m..n -> S] : Defines(f, n)
  BY <1>3
<1>5. Recurs(f, S, c, m, n, step)
  BY <1>4 DEF Recurs
<1> QED
  BY <1>5
=============================================================================
