--------------------------- MODULE RecursionProofs ---------------------------
(***************************************************************************)
(* Lemmas about numbers and about functions defined by recursion over      *)
(* them, for the proofs about the models that have such functions.         *)
(***************************************************************************)
EXTENDS NaturalsInduction, WellFoundedInduction, SequenceTheorems, FiniteSetTheorems, TLAPS

(***************************************************************************)
(* Induction over the numbers for sets of numbers. The library states it   *)
(* for a predicate, an operator the provers cannot put in.                 *)
(***************************************************************************)
LEMMA NatSetInduction ==
    ASSUME NEW S \in SUBSET Nat, 0 \in S, \A n \in Nat : n \in S => n + 1 \in S
    PROVE  S = Nat
  <1> SUFFICES ASSUME S # Nat PROVE FALSE
    OBVIOUS
  <1> DEFINE T == Nat \ S
             R == OpToRel(<, Nat)
  <1>1. T # {} /\ T \subseteq Nat
    OBVIOUS
  <1>2. \E x \in T : \A y \in T : ~ (<<y, x>> \in R)
    BY <1>1, WFMin, NatLessThanWellFounded, Zenon
  <1>3. \A x, y \in Nat : x < y => <<x, y>> \in R
    BY Zenon DEF OpToRel
  <1>4. PICK x \in T : \A y \in T : ~ (y < x)
    BY <1>2, <1>3, Zenon
  <1>5. x # 0 /\ x - 1 \in Nat
    OBVIOUS
  <1>6. x - 1 \in S
    BY <1>4, <1>5
  <1> QED BY <1>5, <1>6

(* A set of numbers that is not empty has a least one. *)
LEMMA LeastNumber ==
    ASSUME NEW T, T \subseteq Nat, T # {}
    PROVE  \E x \in T : \A y \in T : x <= y
  <1> DEFINE R == OpToRel(<, Nat)
  <1>1. \E x \in T : \A y \in T : ~ (<<y, x>> \in R)
    BY WFMin, NatLessThanWellFounded, Zenon
  <1>2. \A x, y \in Nat : x < y => <<x, y>> \in R
    BY Zenon DEF OpToRel
  <1>3. PICK x \in T : \A y \in T : ~ (y < x)
    BY <1>1, <1>2, Zenon
  <1>4. \A y \in T : x <= y
    BY <1>3
  <1> QED BY <1>4

-----------------------------------------------------------------------------
(***************************************************************************)
(* What the recursive functions of the models compute, by induction over   *)
(* the numbers. Such a function goes through V from v, a step at a time.   *)
(***************************************************************************)
Iterates(g, m, V, v, step) ==
    g \in [0 .. m -> V] /\ g[0] = v /\ \A n \in 1 .. m : g[n] = step[n][g[n - 1]]

LEMMA RecursionExists ==
    ASSUME NEW m \in Nat, NEW V, NEW v \in V, NEW step, step \in [1 .. m -> [V -> V]]
    PROVE  \E g : Iterates(g, m, V, v, step)
  <1> DEFINE P(g, k) == g[0] = v /\ \A n \in 1 .. k : g[n] = step[n][g[n - 1]]
             S == {k \in Nat : k <= m => \E g \in [0 .. k -> V] : P(g, k)}
  <1>1. 0 \in S
    <2> DEFINE g == [n \in 0 .. 0 |-> v]
    <2>1. g \in [0 .. 0 -> V] /\ P(g, 0)
      OBVIOUS
    <2> HIDE DEF g, P
    <2> QED BY <2>1
  <1>2. ASSUME NEW k \in Nat, k \in S PROVE k + 1 \in S
    <2> SUFFICES ASSUME k + 1 <= m PROVE \E g \in [0 .. k + 1 -> V] : P(g, k + 1)
      OBVIOUS
    <2>1. PICK g \in [0 .. k -> V] : P(g, k)
      <3> HIDE DEF P
      <3> QED BY <1>2
    <2> DEFINE h == [n \in 0 .. k + 1 |-> IF n = k + 1 THEN step[n][g[k]] ELSE g[n]]
    <2>2. g[k] \in V /\ step[k + 1] \in [V -> V]
      BY <2>1
    <2>3. h \in [0 .. k + 1 -> V]
      BY <2>1, <2>2
    <2>4. h[k + 1] = step[k + 1][g[k]] /\ \A n \in 0 .. k : h[n] = g[n]
      OBVIOUS
    <2> HIDE DEF h
    <2>5. P(h, k + 1)
      <3>1. h[0] = v
        BY <2>1, <2>4
      <3>2. ASSUME NEW n \in 1 .. k + 1 PROVE h[n] = step[n][h[n - 1]]
        <4>1. CASE n \in 1 .. k
          BY <2>1, <2>4, <4>1
        <4>2. CASE n = k + 1
          BY <2>4, <4>2
        <4> QED BY <4>1, <4>2
      <3> QED BY <3>1, <3>2
    <2> HIDE DEF P
    <2> QED BY <2>3, <2>5
  <1>3. S = Nat
    <2>1. S \in SUBSET Nat
      OBVIOUS
    <2> HIDE DEF S
    <2> QED BY <1>1, <1>2, <2>1, NatSetInduction
  <1>4. \E g \in [0 .. m -> V] : P(g, m)
    <2> HIDE DEF P
    <2>1. m \in S
      BY <1>3
    <2> QED BY <2>1
  <1> QED BY <1>4 DEF Iterates

(* A function that takes the steps from values in V stays in V. *)
IsOver(u, m) == u = [n \in 0 .. m |-> u[n]]

LEMMA RecursionTyped ==
    ASSUME NEW m \in Nat, NEW V, NEW v \in V, NEW step, step \in [1 .. m -> [V -> V]],
           NEW u, IsOver(u, m), u[0] = v,
           \A n \in 1 .. m : u[n - 1] \in V => u[n] = step[n][u[n - 1]]
    PROVE  Iterates(u, m, V, v, step)
  <1> DEFINE S == {k \in Nat : k <= m => u[k] \in V}
  <1>1. 0 \in S
    OBVIOUS
  <1>2. ASSUME NEW k \in Nat, k \in S PROVE k + 1 \in S
    <2> SUFFICES ASSUME k + 1 <= m PROVE u[k + 1] \in V
      OBVIOUS
    <2>1. k \in 0 .. m /\ k + 1 \in 1 .. m /\ k + 1 - 1 = k /\ u[k] \in V
      BY <1>2
    <2>2. u[k + 1] = step[k + 1][u[k]] /\ step[k + 1] \in [V -> V]
      BY <2>1
    <2> QED BY <2>1, <2>2
  <1>3. S = Nat
    <2>1. S \in SUBSET Nat
      OBVIOUS
    <2> HIDE DEF S
    <2> QED BY <1>1, <1>2, <2>1, NatSetInduction
  <1>4. \A k \in 0 .. m : u[k] \in V
    BY <1>3
  <1>5. \A n \in 1 .. m : n - 1 \in 0 .. m
    OBVIOUS
  <1>6. u \in [0 .. m -> V]
    BY <1>4 DEF IsOver
  <1>7. \A n \in 1 .. m : u[n] = step[n][u[n - 1]]
    BY <1>4, <1>5
  <1> QED BY <1>6, <1>7 DEF Iterates

(* Two that take the same steps for a while agree for that while. *)
LEMMA IteratesAgree ==
    ASSUME NEW m \in Nat, NEW k \in Nat, m <= k, NEW V, NEW v, NEW a, NEW b, NEW g, NEW h,
           Iterates(g, m, V, v, a), Iterates(h, k, V, v, b), \A n \in 1 .. m : a[n] = b[n]
    PROVE  g[m] = h[m]
  <1> DEFINE S == {n \in Nat : n <= m => g[n] = h[n]}
  <1>1. 0 \in S
    BY DEF Iterates
  <1>2. ASSUME NEW n \in Nat, n \in S PROVE n + 1 \in S
    <2> SUFFICES ASSUME n + 1 <= m PROVE g[n + 1] = h[n + 1]
      OBVIOUS
    <2>1. n + 1 \in 1 .. m /\ n + 1 \in 1 .. k /\ n + 1 - 1 = n /\ g[n] = h[n]
      BY <1>2
    <2>2. g[n + 1] = a[n + 1][g[n]] /\ h[n + 1] = b[n + 1][h[n]]
      BY <2>1 DEF Iterates
    <2> QED BY <2>1, <2>2
  <1>3. S = Nat
    <2>1. S \in SUBSET Nat
      OBVIOUS
    <2> HIDE DEF S
    <2> QED BY <1>1, <1>2, <2>1, NatSetInduction
  <1> QED BY <1>3

(* The last value: one step more. *)
LEMMA IteratesOnce ==
    ASSUME NEW m \in Nat, NEW V, NEW v, NEW a, NEW b, NEW g, NEW h,
           Iterates(g, m, V, v, a), Iterates(h, m + 1, V, v, b), \A n \in 1 .. m : a[n] = b[n]
    PROVE  h[m + 1] = b[m + 1][g[m]] /\ g[m] \in V
  <1>1. m <= m + 1 /\ m + 1 \in Nat /\ m + 1 \in 1 .. m + 1 /\ m + 1 - 1 = m /\ m \in 0 .. m
    OBVIOUS
  <1>2. g[m] = h[m]
    BY <1>1, IteratesAgree
  <1> QED BY <1>1, <1>2 DEF Iterates
==============================================================================
