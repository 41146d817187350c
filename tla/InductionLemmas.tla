--------------------------- MODULE InductionLemmas ---------------------------
(***************************************************************************)
(* Induction over the naturals in a form without operator parameters: a    *)
(* proof by induction names the set of numbers, or the set of              *)
(* counterexamples, and cites one of these lemmas.                         *)
(***************************************************************************)
EXTENDS Integers, WellFoundedInduction, TLAPS

(* A nonempty set of naturals has a least element.                         *)
LEMMA LeastNatural ==
    ASSUME NEW S \in SUBSET Nat, S # {}
    PROVE  \E n \in S : \A m \in S : n <= m
  <1>1. IsWellFoundedOn(OpToRel(<, Nat), Nat)
    BY NatLessThanWellFounded
  <1>2. PICK n \in S : \A m \in S : ~(<<m, n>> \in OpToRel(<, Nat))
    BY <1>1, WFMin
  <1> DEFINE R == OpToRel(<, Nat)
  <1>3. \A m \in Nat : m < n => <<m, n>> \in R
    BY Zenon DEF OpToRel
  <1> HIDE DEF R
  <1>4. \A m \in S : ~(<<m, n>> \in R)
    BY <1>2 DEF R
  <1>5. \A m \in S : ~(m < n)
    BY <1>3, <1>4
  <1>6. \A m \in S : n <= m
    BY <1>5
  <1> QED  BY <1>6

(* A nonempty bounded set of naturals has a greatest element.              *)
LEMMA GreatestNatural ==
    ASSUME NEW S \in SUBSET Nat, S # {}, NEW b \in Nat, \A m \in S : m <= b
    PROVE  \E n \in S : \A m \in S : m <= n
  <1> DEFINE D == {b - m : m \in S}
  <1>1. D \in SUBSET Nat /\ D # {}
    <2>1. \A m \in S : b - m \in Nat
      OBVIOUS
    <2> QED  BY <2>1
  <1>2. PICK d \in D : \A e \in D : d <= e
    BY <1>1, LeastNatural
  <1>3. PICK n \in S : d = b - n
    BY <1>2
  <1>4. \A m \in S : b - n <= b - m
    BY <1>2, <1>3
  <1> QED  BY <1>4

(* A set that holds 0 and the successor of each of its numbers up to N     *)
(* holds every number up to N.                                             *)
LEMMA SetInduction ==
    ASSUME NEW N \in Nat, NEW S, 0 \in S,
           \A n \in 0 .. N - 1 : n \in S => n + 1 \in S
    PROVE  \A n \in 0 .. N : n \in S
  <1> DEFINE Bad == {n \in 0 .. N : n \notin S}
  <1> SUFFICES ASSUME Bad # {} PROVE FALSE
    OBVIOUS
  <1>1. PICK n \in Bad : \A m \in Bad : n <= m
    <2>1. Bad \in SUBSET Nat
      OBVIOUS
    <2> HIDE DEF Bad
    <2> QED  BY <2>1, LeastNatural
  <1>2. n # 0 /\ n - 1 \in 0 .. N - 1 /\ n - 1 \notin Bad
    BY <1>1
  <1>3. n \in S
    BY <1>2
  <1> QED  BY <1>3

(* F starts with a and continues each value with a step.                   *)
Continues(F, N, a, step) == /\ F[0] = a
                            /\ \A k \in 1 .. N : F[k] = step[<<k, F[k - 1]>>]

Steps(N, T) == [(1 .. N) \X T -> T]

(* There is such a function.                                               *)
LEMMA RecursionExists ==
    ASSUME NEW N \in Nat, NEW T, NEW a \in T, NEW step \in Steps(N, T)
    PROVE  \E F \in [0 .. N -> T] : Continues(F, N, a, step)
  <1> USE DEF Continues, Steps
  <1> DEFINE Solves(F, n) == /\ F \in [0 .. n -> T] /\ F[0] = a
                             /\ \A k \in 1 .. n : F[k] = step[<<k, F[k - 1]>>]
             S == {n \in 0 .. N : \E F : Solves(F, n)}
  <1>1. 0 \in S
    <2>1. Solves([k \in 0 .. 0 |-> a], 0)
      OBVIOUS
    <2>2. 0 \in 0 .. N
      OBVIOUS
    <2> HIDE DEF Solves
    <2> QED  BY <2>1, <2>2
  <1>2. ASSUME NEW n \in 0 .. N - 1, n \in S PROVE n + 1 \in S
    <2>1. PICK F : Solves(F, n)
      BY <1>2
    <2> DEFINE x == step[<<n + 1, F[n]>>]
               G == [k \in 0 .. n + 1 |-> IF k <= n THEN F[k] ELSE x]
    <2>2. x \in T
      <3>1. n + 1 \in 1 .. N /\ F[n] \in T
        BY <2>1
      <3> QED  BY <3>1
    <2> HIDE DEF x
    <2>3. G \in [0 .. n + 1 -> T]
      BY <2>1, <2>2
    <2>4. G[0] = a
      BY <2>1
    <2>5. ASSUME NEW k \in 1 .. n + 1 PROVE G[k] = step[<<k, G[k - 1]>>]
      <3>1. CASE k <= n
        <4>1. G[k] = F[k] /\ G[k - 1] = F[k - 1]
          BY <3>1
        <4> QED  BY <2>1, <3>1, <4>1
      <3>2. CASE k = n + 1
        <4>1. G[k] = x /\ G[k - 1] = F[n]
          BY <3>2
        <4> QED  BY <3>2, <4>1 DEF x
      <3> QED  BY <3>1, <3>2
    <2>6. Solves(G, n + 1)
      BY <2>3, <2>4, <2>5
    <2>7. n + 1 \in 0 .. N
      OBVIOUS
    <2> HIDE DEF Solves, G
    <2> QED  BY <2>6, <2>7
  <1>3. N \in S
    <2> HIDE DEF S
    <2>1. \A n \in 0 .. N : n \in S
      BY <1>1, <1>2, SetInduction
    <2> QED  BY <2>1
  <1> QED  BY <1>3
=============================================================================
