----------------------------- MODULE NumberLemmas -----------------------------
(* Least and greatest numbers, and induction over sets of numbers: what the   *)
(* proofs about recursive functions and about finite sets rest on.  A         *)
(* property is given as the set of the numbers that have it.                  *)
EXTENDS Integers, WellFoundedInduction, TLAPS

\* Every non-empty set of numbers has a least element.
LEMMA LeastNumber ==
  ASSUME NEW S \in SUBSET Nat, S # {}
  PROVE  \E x \in S : \A y \in S : x <= y
<1>1. IsWellFoundedOn(OpToRel(<, Nat), Nat)
  BY NatLessThanWellFounded
<1>2. PICK x \in S : \A y \in S : <<y, x>> \notin OpToRel(<, Nat)
  BY <1>1, WFMin
<1>3. ASSUME NEW y \in S PROVE x <= y
  <2>1. <<y, x>> \notin {ss \in Nat \X Nat : ss[1] < ss[2]}
    BY <1>2 DEF OpToRel
  <2>. QED BY <2>1
<1>. QED BY <1>3

\* Every non-empty set of numbers below a bound has a greatest element.
LEMMA GreatestNumber ==
  ASSUME NEW m \in Nat, NEW S \in SUBSET (0..m), S # {}
  PROVE  \E x \in S : \A y \in S : y <= x
<1>. DEFINE Mirror == {m - x : x \in S}
<1>1. Mirror \in SUBSET Nat /\ Mirror # {}
  <2>1. \A x \in S : m - x \in Nat
    OBVIOUS
  <2>2. PICK x \in S : TRUE
    OBVIOUS
  <2>3. m - x \in Mirror
    OBVIOUS
  <2>. QED BY <2>1, <2>3
<1>2. PICK d \in Mirror : \A y \in Mirror : d <= y
  BY <1>1, LeastNumber
<1>3. PICK x \in S : d = m - x
  BY <1>2
<1>4. \A y \in S : m - x <= m - y
  BY <1>2, <1>3
<1>. QED BY <1>4

\* A set with each number whose predecessors it has contains all numbers.
LEMMA EveryNumber ==
  ASSUME NEW T, \A n \in Nat : (\A k \in 0..(n - 1) : k \in T) => n \in T
  PROVE  \A n \in Nat : n \in T
<1>. SUFFICES ASSUME Nat \ T # {} PROVE FALSE
  OBVIOUS
<1>1. PICK x \in Nat \ T : \A y \in Nat \ T : x <= y
  <2>. DEFINE S == Nat \ T
  <2>1. S \in SUBSET Nat /\ S # {}
    OBVIOUS
  <2>2. \E x \in S : \A y \in S : x <= y
    <3>. HIDE DEF S
    <3>. QED BY <2>1, LeastNumber
  <2>. QED BY <2>2
<1>2. \A k \in 0..(x - 1) : k \in T
  BY <1>1
<1>. QED BY <1>1, <1>2

\* Two functions that start alike and go on alike are alike.
LEMMA StepByStep ==
  ASSUME NEW n \in Nat, NEW f, NEW g, f[0] = g[0],
         \A k \in 1..n : f[k - 1] = g[k - 1] => f[k] = g[k]
  PROVE  f[n] = g[n]
<1>. DEFINE T == {k \in Nat : k <= n => f[k] = g[k]}
<1>1. ASSUME NEW k \in Nat, \A j \in 0..(k - 1) : j \in T
      PROVE  k \in T
  <2>1. CASE k = 0
    BY <2>1
  <2>2. CASE k # 0
    <3>1. k - 1 \in 0..(k - 1)
      BY <2>2
    <3>2. k - 1 \in T
      <4>. HIDE DEF T
      <4>. QED BY <1>1, <3>1
    <3>. QED BY <2>2, <3>2
  <2>. QED BY <2>1, <2>2
<1>2. \A k \in Nat : k \in T
  <2>1. \A k \in Nat : (\A j \in 0..(k - 1) : j \in T) => k \in T
    BY <1>1
  <2>. HIDE DEF T
  <2>. QED BY <2>1, EveryNumber, Zenon
<1>3. n \in T
  BY <1>2
<1>. QED BY <1>3

\* n steps, the k-th from x to F[k][x], which do not leave T; and where they
\* lead from b.
StepsWithin(F, n, T) == \A k \in 1..n : \A x \in T : F[k][x] \in T
Leads(g, n, b, F) == g[0] = b /\ \A k \in 1..n : g[k] = F[k][g[k - 1]]

\* A recursion of n steps within a set has a function that follows it.
LEMMA Recursion ==
  ASSUME NEW n \in Nat, NEW T, NEW b \in T, NEW F, StepsWithin(F, n, T)
  PROVE  \E g \in [0..n -> T] : Leads(g, n, b, F)
<1>. DEFINE Follows(g, m) == g[0] = b /\ \A k \in 1..m : g[k] = F[k][g[k - 1]]
            D == {m \in Nat : m <= n => \E g \in [0..m -> T] : Follows(g, m)}
<1>1. ASSUME NEW m \in Nat, \A j \in 0..(m - 1) : j \in D
      PROVE  m \in D
  <2>1. CASE m = 0
    <3>. DEFINE g == [k \in 0..0 |-> b]
    <3>1. g \in [0..0 -> T] /\ Follows(g, 0)
      OBVIOUS
    <3>. QED BY <2>1, <3>1
  <2>2. CASE m # 0 /\ m <= n
    <3>1. m - 1 \in D /\ m - 1 \in Nat /\ m - 1 <= n
      <4>. HIDE DEF D
      <4>. QED BY <1>1, <2>2
    <3>2. PICK h \in [0..(m - 1) -> T] : Follows(h, m - 1)
      BY <3>1
    <3>. DEFINE g == [k \in 0..m |-> IF k = m THEN F[m][h[m - 1]] ELSE h[k]]
    <3>3. m \in 1..n /\ F[m][h[m - 1]] \in T
      BY <2>2 DEF StepsWithin
    <3>4. g \in [0..m -> T]
      BY <3>3
    <3>5. ASSUME NEW k \in 1..(m - 1)
          PROVE  g[k] = F[k][g[k - 1]]
      <4>1. h[k] = F[k][h[k - 1]] /\ g[k] = h[k] /\ g[k - 1] = h[k - 1]
        BY <2>2, <3>2
      <4>. QED BY <4>1
    <3>6. g[m] = F[m][g[m - 1]] /\ g[0] = b
      BY <2>2, <3>2
    <3>7. Follows(g, m)
      <4>. HIDE DEF g
      <4>. QED BY <3>5, <3>6
    <3>. QED BY <3>4, <3>7
  <2>. QED BY <2>1, <2>2
<1>2. \A m \in Nat : m \in D
  <2>1. \A m \in Nat : (\A j \in 0..(m - 1) : j \in D) => m \in D
    BY <1>1
  <2>. HIDE DEF D
  <2>. QED BY <2>1, EveryNumber, Zenon
<1>3. n \in D
  BY <1>2
<1>. QED BY <1>3 DEF Leads

\* What starts within a set, and never leaves it by a step, stays within it.
LEMMA StaysWithin ==
  ASSUME NEW n \in Nat, NEW T, NEW f, f[0] \in T,
         \A k \in 1..n : f[k - 1] \in T => f[k] \in T
  PROVE  f[n] \in T
<1>. DEFINE D == {k \in Nat : k <= n => f[k] \in T}
<1>1. ASSUME NEW k \in Nat, \A j \in 0..(k - 1) : j \in D
      PROVE  k \in D
  <2>1. CASE k = 0
    BY <2>1
  <2>2. CASE k # 0
    <3>1. k - 1 \in D
      <4>. HIDE DEF D
      <4>. QED BY <1>1, <2>2
    <3>. QED BY <2>2, <3>1
  <2>. QED BY <2>1, <2>2
<1>2. \A k \in Nat : k \in D
  <2>1. \A k \in Nat : (\A j \in 0..(k - 1) : j \in D) => k \in D
    BY <1>1
  <2>. HIDE DEF D
  <2>. QED BY <2>1, EveryNumber, Zenon
<1>3. n \in D
  BY <1>2
<1>. QED BY <1>3

\* What holds at the start, and is passed on by every step, holds all along.
LEMMA Climbs ==
  ASSUME NEW n \in Nat, NEW P, 0 \in P, \A k \in 1..n : k - 1 \in P => k \in P
  PROVE  \A k \in 0..n : k \in P
<1>. DEFINE D == {k \in Nat : k <= n => k \in P}
<1>1. ASSUME NEW k \in Nat, \A j \in 0..(k - 1) : j \in D
      PROVE  k \in D
  <2>1. CASE k = 0
    BY <2>1
  <2>2. CASE k # 0
    <3>1. k - 1 \in D
      <4>. HIDE DEF D
      <4>. QED BY <1>1, <2>2
    <3>. QED BY <2>2, <3>1
  <2>. QED BY <2>1, <2>2
<1>2. \A k \in Nat : k \in D
  <2>1. \A k \in Nat : (\A j \in 0..(k - 1) : j \in D) => k \in D
    BY <1>1
  <2>. HIDE DEF D
  <2>. QED BY <2>1, EveryNumber, Zenon
<1>. QED BY <1>2
===============================================================================
