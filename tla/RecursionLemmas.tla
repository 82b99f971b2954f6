--------------------------- MODULE RecursionLemmas ---------------------------
(***************************************************************************)
(* Induction over numbers and definition by recursion, as facts about sets *)
(* and functions.                                                          *)
(*                                                                         *)
(* The theorems of NaturalsInduction have an operator for a parameter.     *)
(* These have none: what is to be shown of every number is the set of the  *)
(* numbers of which it holds, and the step of a recursion is a function.   *)
(***************************************************************************)
EXTENDS Integers, WellFoundedInduction, TLAPS

\* A nonempty set of numbers has a least one.
LEMMA LeastNumber ==
  ASSUME NEW T \in SUBSET Nat, T # {}
  PROVE  \E n \in T : \A m \in T : n <= m
  <1> DEFINE R == OpToRel(<, Nat)
  <1>1. IsWellFoundedOn(R, Nat)
    BY NatLessThanWellFounded
  <1>2. R = {r \in Nat \X Nat : r[1] < r[2]}
    BY DEF OpToRel
  <1> HIDE DEF R
  <1>3. PICK n \in T : \A m \in T : ~(<<m, n>> \in R)
    BY <1>1, WFMin
  <1>4. ASSUME NEW m \in T PROVE n <= m
    <2>1. m \in Nat /\ n \in Nat
      OBVIOUS
    <2>2. CASE m < n
      <3>1. <<m, n>> \in R
        BY <1>2, <2>1, <2>2
      <3> QED
        BY <1>3, <3>1
    <2> QED
      BY <2>1, <2>2
  <1> QED
    BY <1>4

\* A set that has 0 and with each number the next has them all.
LEMMA Numbers ==
  ASSUME NEW S, 0 \in S, \A n \in Nat : n \in S => n + 1 \in S
  PROVE  Nat \subseteq S
  <1> DEFINE T == Nat \ S
  <1> SUFFICES ASSUME T # {} PROVE FALSE
    OBVIOUS
  <1>1. PICK n \in T : \A m \in T : n <= m
    BY LeastNumber
  <1>2. n # 0 /\ n - 1 \in Nat
    BY <1>1
  <1>3. n - 1 \notin T
    BY <1>1, <1>2
  <1> QED
    BY <1>1, <1>2, <1>3

\* A nonempty bounded set of numbers has a greatest one.
LEMMA GreatestNumber ==
  ASSUME NEW N \in Nat, NEW T \in SUBSET (0..N), T # {}
  PROVE  \E n \in T : \A m \in T : m <= n
  <1> DEFINE D == {d \in 0..N : N - d \in T}
  <1>1. PICK n \in T : TRUE
    OBVIOUS
  <1>2. \A m \in T : m \in 0..N /\ N - m \in 0..N /\ N - (N - m) = m
    <2>1. \A m \in 0..N : N - m \in 0..N /\ N - (N - m) = m
      OBVIOUS
    <2> QED
      BY <2>1
  <1>3. D \in SUBSET Nat /\ D # {}
    <2>1. N - n \in D
      BY <1>2
    <2>2. D \subseteq 0..N /\ 0..N \subseteq Nat
      OBVIOUS
    <2> HIDE DEF D
    <2> QED
      BY <2>1, <2>2
  <1>4. PICK d \in D : \A e \in D : d <= e
    BY <1>3, LeastNumber
  <1>5. ASSUME NEW m \in T PROVE m <= N - d
    <2>1. d <= N - m
      BY <1>2, <1>4
    <2> QED
      BY <1>2, <2>1
  <1> QED
    BY <1>5

\* f is the recursion from a with the steps g, N steps long.
Recursion(f, N, a, g) == f = [n \in 0..N |-> IF n = 0 THEN a ELSE g[n][f[n - 1]]]

\* A recursion whose steps are functions has a solution, and its values are where
\* the steps keep them.
LEMMA RecursionExists ==
  ASSUME NEW N \in Nat, NEW A, NEW a \in A, NEW g \in [1..N -> [A -> A]]
  PROVE  \E f \in [0..N -> A] : Recursion(f, N, a, g)
  <1> USE DEF Recursion
  <1> DEFINE S == {m \in Nat : m <= N => \E f \in [0..m -> A] : Recursion(f, m, a, g)}
  <1>1. 0 \in S
    <2> DEFINE f == [n \in 0..0 |-> a]
    <2>1. f \in [0..0 -> A] /\ Recursion(f, 0, a, g)
      OBVIOUS
    <2> QED
      BY <2>1
  <1>2. ASSUME NEW m \in Nat, m \in S PROVE m + 1 \in S
    <2> SUFFICES ASSUME m + 1 <= N PROVE \E f \in [0..(m + 1) -> A] : Recursion(f, m + 1, a, g)
      OBVIOUS
    <2>1. PICK f \in [0..m -> A] : Recursion(f, m, a, g)
      BY <1>2
    <2>2. m \in 0..m /\ m + 1 \in 1..N /\ f[m] \in A /\ g[m + 1] \in [A -> A]
      <3>1. m \in 0..m /\ m + 1 \in 1..N
        OBVIOUS
      <3> QED
        BY <3>1
    <2> DEFINE h == [n \in 0..(m + 1) |-> IF n = m + 1 THEN g[m + 1][f[m]] ELSE f[n]]
    <2>3. ASSUME NEW n \in 0..(m + 1)
          PROVE  h[n] \in A /\ h[n] = IF n = 0 THEN a ELSE g[n][h[n - 1]]
      <3>1. CASE n = m + 1
        <4>1. n # 0 /\ n - 1 \in 0..(m + 1) /\ n - 1 # m + 1 /\ n - 1 = m
          BY <3>1
        <4> QED
          BY <2>2, <3>1, <4>1
      <3>2. CASE n # m + 1 /\ n = 0
        <4>1. n \in 0..m
          BY <3>2
        <4> QED
          BY <2>1, <3>2, <4>1
      <3>3. CASE n # m + 1 /\ n # 0
        <4>1. n \in 0..m /\ n - 1 \in 0..(m + 1) /\ n - 1 # m + 1
          BY <3>3
        <4>2. f[n] = g[n][f[n - 1]]
          BY <2>1, <3>3, <4>1
        <4> QED
          BY <3>3, <4>1, <4>2
      <3> QED
        BY <3>1, <3>2, <3>3
    <2>4. h \in [0..(m + 1) -> A] /\ Recursion(h, m + 1, a, g)
      BY <2>3
    <2> HIDE DEF h
    <2> QED
      BY <2>4
  <1> HIDE DEF S
  <1>3. N \in S
    BY <1>1, <1>2, Numbers
  <1> QED
    BY <1>3 DEF S
==============================================================================
