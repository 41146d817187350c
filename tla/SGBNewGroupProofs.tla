-------------------------- MODULE SGBNewGroupProofs --------------------------
(***************************************************************************)
(* Proofs about ON_OVERLAP NEW_GROUP, for any tuples, any EPS and any      *)
(* length of the input.                                                    *)
(***************************************************************************)
EXTENDS SGBNewGroup, InductionLemmas, FiniteSetTheorems, SequenceTheorems

LEMMA MinFacts ==
    ASSUME NEW S \in SUBSET Nat, S # {}
    PROVE  Min(S) \in S /\ \A m \in S : Min(S) <= m
  <1>1. \E n \in S : \A m \in S : n <= m
    BY LeastNatural
  <1> QED  BY <1>1 DEF Min

(* Positions are appended to a member list in the order they are read.     *)
Increasing(s) == \A i, j \in DOMAIN s : i < j => s[i] < s[j]

LEMMA AppendFacts ==
    ASSUME NEW s \in Seq(Nat), NEW x \in Nat
    PROVE  /\ Append(s, x) \in Seq(Nat) /\ Append(s, x) # <<>>
           /\ ToSet(Append(s, x)) = ToSet(s) \cup {x}
           /\ (Increasing(s) /\ \A y \in ToSet(s) : y < x) => Increasing(Append(s, x))
  <1>1. PICK r : r = Append(s, x)
    OBVIOUS
  <1>2. /\ r \in Seq(Nat) /\ Len(r) = Len(s) + 1 /\ r[Len(s) + 1] = x /\ Len(s) \in Nat
        /\ DOMAIN r = 1 .. Len(s) + 1 /\ DOMAIN s = 1 .. Len(s) /\ r # <<>>
        /\ \A i \in 1 .. Len(s) : r[i] = s[i]
    BY <1>1
  <1>3. DOMAIN r = DOMAIN s \cup {Len(s) + 1} /\ Len(s) + 1 \notin DOMAIN s
    BY <1>2
  <1>4. ToSet(r) = ToSet(s) \cup {x}
    BY <1>2, <1>3 DEF ToSet
  <1>5. ASSUME Increasing(s), \A y \in ToSet(s) : y < x PROVE Increasing(r)
    <2> SUFFICES ASSUME NEW i \in DOMAIN r, NEW j \in DOMAIN r, i < j PROVE r[i] < r[j]
      BY DEF Increasing
    <2>1. i \in DOMAIN s /\ r[i] = s[i]
      BY <1>2
    <2>2. CASE j \in DOMAIN s
      BY <1>2, <1>5, <2>1, <2>2 DEF Increasing
    <2>3. CASE j = Len(s) + 1
      BY <1>2, <1>5, <2>1, <2>3 DEF ToSet
    <2> QED  BY <1>3, <2>2, <2>3
  <1> QED  BY <1>1, <1>2, <1>4, <1>5

(* What Sublist takes from a member list.                                  *)
LEMMA SublistFacts ==
    ASSUME NEW s \in Seq(Nat), Increasing(s), NEW L
    PROVE  /\ Sublist(s, L) \in Seq(Nat) /\ Increasing(Sublist(s, L))
           /\ ToSet(Sublist(s, L)) = {s[k] : k \in DOMAIN s \cap L}
  <1> DEFINE Eq(F) == F = [k \in 0 .. Len(s) |->
                             IF k = 0 THEN <<>>
                             ELSE IF k \in L THEN Append(F[k - 1], s[k]) ELSE F[k - 1]]
             step == [x \in (1 .. Len(s)) \X Seq(Nat) |->
                        IF x[1] \in L THEN Append(x[2], s[x[1]]) ELSE x[2]]
  <1>1. Len(s) \in Nat /\ DOMAIN s = 1 .. Len(s) /\ \A k \in 1 .. Len(s) : s[k] \in Nat
    OBVIOUS
  <1>2. step \in [(1 .. Len(s)) \X Seq(Nat) -> Seq(Nat)]
    <2>1. ASSUME NEW x \in (1 .. Len(s)) \X Seq(Nat)
          PROVE  (IF x[1] \in L THEN Append(x[2], s[x[1]]) ELSE x[2]) \in Seq(Nat)
      <3>1. x[1] \in 1 .. Len(s) /\ x[2] \in Seq(Nat) /\ s[x[1]] \in Nat
        BY <1>1
      <3>2. Append(x[2], s[x[1]]) \in Seq(Nat)
        BY <3>1
      <3> QED  BY <3>1, <3>2
    <2> QED  BY <2>1
  <1>3. \A k \in 1 .. Len(s), q \in Seq(Nat) :
            step[<<k, q>>] = IF k \in L THEN Append(q, s[k]) ELSE q
    OBVIOUS
  <1>4. \E F : Eq(F)
    <2>1. <<>> \in Seq(Nat)
      OBVIOUS
    <2>2. PICK F \in [0 .. Len(s) -> Seq(Nat)] :
             F[0] = <<>> /\ \A k \in 1 .. Len(s) : F[k] = step[<<k, F[k - 1]>>]
      <3> HIDE DEF step
      <3>1. PICK T : T = Seq(Nat)
        OBVIOUS
      <3>2. PICK a : a = <<>>
        OBVIOUS
      <3>3. PICK n \in Nat : n = Len(s)
        BY <1>1
      <3>4. a \in T /\ step \in [(1 .. n) \X T -> T]
        BY <1>2, <2>1, <3>1, <3>2, <3>3
      <3>5. \E G \in [0 .. n -> T] : Continues(G, n, a, step)
        BY <3>4, RecursionExists DEF Steps
      <3> QED  BY <3>1, <3>2, <3>3, <3>5 DEF Continues
    <2>3. ASSUME NEW k \in 0 .. Len(s)
          PROVE  F[k] = IF k = 0 THEN <<>>
                        ELSE IF k \in L THEN Append(F[k - 1], s[k]) ELSE F[k - 1]
      <3>1. CASE k = 0
        BY <2>2, <3>1
      <3>2. CASE k # 0
        <4>1. k \in 1 .. Len(s) /\ k - 1 \in 0 .. Len(s)
          BY <1>1, <3>2
        <4>2. F[k - 1] \in Seq(Nat)
          BY <4>1
        <4> HIDE DEF step
        <4> QED  BY <1>3, <2>2, <3>2, <4>1, <4>2
      <3> QED  BY <3>1, <3>2
    <2> QED  BY <2>3
  <1>5. PICK F : Eq(F) /\ Sublist(s, L) = F[Len(s)]
    <2>1. Sublist(s, L) = (CHOOSE F : Eq(F))[Len(s)]
      BY DEF Sublist
    <2>2. Eq(CHOOSE F : Eq(F))
      <3> HIDE DEF Eq
      <3> QED  BY <1>4
    <2> HIDE DEF Eq
    <2> QED  BY <2>1, <2>2
  <1> HIDE DEF step
  <1>6. /\ F[0] = <<>>
        /\ \A k \in 1 .. Len(s) : F[k] = IF k \in L THEN Append(F[k - 1], s[k]) ELSE F[k - 1]
    <2>1. /\ 0 \in 0 .. Len(s)
          /\ \A k \in 1 .. Len(s) : k \in 0 .. Len(s) /\ k # 0
      BY <1>1
    <2>2. \A k \in 0 .. Len(s) :
             F[k] = IF k = 0 THEN <<>>
                    ELSE IF k \in L THEN Append(F[k - 1], s[k]) ELSE F[k - 1]
      BY <1>5
    <2> QED  BY <2>1, <2>2
  <1> HIDE DEF Eq
  <1> DEFINE S == {k \in 0 .. Len(s) : /\ F[k] \in Seq(Nat) /\ Increasing(F[k])
                                       /\ ToSet(F[k]) = {s[j] : j \in (1 .. k) \cap L}}
  <1>7. 0 \in S
    <2>1. <<>> \in Seq(Nat) /\ DOMAIN <<>> = {}
      OBVIOUS
    <2>2. Increasing(<<>>) /\ ToSet(<<>>) = {}
      BY <2>1 DEF Increasing, ToSet
    <2>3. (1 .. 0) \cap L = {}
      OBVIOUS
    <2>4. {s[j] : j \in (1 .. 0) \cap L} = {}
      BY <2>3
    <2>5. 0 \in 0 .. Len(s)
      BY <1>1
    <2> QED  BY <1>6, <2>1, <2>2, <2>4, <2>5
  <1>8. ASSUME NEW n \in 0 .. Len(s) - 1, n \in S PROVE n + 1 \in S
    <2>1. /\ F[n] \in Seq(Nat) /\ Increasing(F[n])
          /\ ToSet(F[n]) = {s[j] : j \in (1 .. n) \cap L}
      BY <1>8
    <2>2. n + 1 \in 1 .. Len(s) /\ (n + 1) - 1 = n /\ s[n + 1] \in Nat
      BY <1>1
    <2>3. F[n + 1] = IF n + 1 \in L THEN Append(F[n], s[n + 1]) ELSE F[n]
      BY <1>6, <2>2
    <2>4. 1 .. n + 1 = (1 .. n) \cup {n + 1}
      BY <1>1
    <2>5. CASE n + 1 \in L
      <3>1. \A y \in ToSet(F[n]) : y < s[n + 1]
        <4>1. \A j \in 1 .. n : j \in DOMAIN s /\ n + 1 \in DOMAIN s /\ j < n + 1
          BY <1>1, <2>2
        <4>2. \A j \in 1 .. n : s[j] < s[n + 1]
          BY <4>1 DEF Increasing
        <4>3. \A y \in ToSet(F[n]) : \E j \in 1 .. n : y = s[j]
          BY <2>1
        <4> QED  BY <4>2, <4>3
      <3>2. /\ Append(F[n], s[n + 1]) \in Seq(Nat) /\ Increasing(Append(F[n], s[n + 1]))
            /\ ToSet(Append(F[n], s[n + 1])) = ToSet(F[n]) \cup {s[n + 1]}
        BY <2>1, <2>2, <3>1, AppendFacts
      <3>3. {s[j] : j \in (1 .. n + 1) \cap L} = ToSet(F[n]) \cup {s[n + 1]}
        BY <2>1, <2>4, <2>5
      <3>4. F[n + 1] = Append(F[n], s[n + 1]) /\ n + 1 \in 0 .. Len(s)
        BY <1>1, <2>2, <2>3, <2>5
      <3>5. ToSet(F[n + 1]) = {s[j] : j \in (1 .. n + 1) \cap L}
        BY <3>2, <3>3, <3>4
      <3> QED  BY <3>2, <3>4, <3>5
    <2>6. CASE n + 1 \notin L
      <3>1. (1 .. n + 1) \cap L = (1 .. n) \cap L
        BY <2>4, <2>6
      <3> QED  BY <1>1, <2>1, <2>2, <2>3, <2>6, <3>1
    <2> QED  BY <2>5, <2>6
  <1>9. Len(s) \in S
    <2> HIDE DEF S
    <2>1. \A n \in 0 .. Len(s) : n \in S
      BY <1>1, <1>7, <1>8, SetInduction
    <2> QED  BY <1>1, <2>1
  <1> QED  BY <1>1, <1>5, <1>9
-----------------------------------------------------------------------------
(* Types, the order of member lists, and what is not used yet is empty.    *)
ListOK(s) == s \in Seq(Nat) /\ Increasing(s) /\ ToSet(s) \subseteq 1 .. numbertuples

TypeOK ==
    /\ pc \in {"fill", "retrieve", "done"}
    /\ numbertuples \in Nat /\ numbertuples <= MaxTuples
    /\ indexhasharray \in Nat /\ indexhasharray <= numbertuples
    /\ flagEnabled \in [Position -> 0 .. 3]
    /\ pivot1 \in [Position -> [Cols -> Int]] /\ pivot2 \in [Position -> [Cols -> Int]]
    /\ DOMAIN rtree = Position
    /\ \A g \in Position : ListOK(tuples[g])
    /\ aggregated \in [Position -> SUBSET (1 .. numbertuples)]
    /\ input \in [Position -> [Cols -> Int]]
    /\ \A g \in Position \ Group : tuples[g] = <<>> /\ aggregated[g] = {}
    /\ pc = "fill" => aggregated = [g \in Position |-> {}]

LEMMA Consts ==
    /\ numCols = 2 /\ Cols = {1, 2}
    /\ EPS \in Nat /\ EPS > 0
    /\ MaxTuples \in Nat /\ MaxTuples > 0
    /\ \A t \in Tuple : t \in [Cols -> Int] /\ t[1] \in Int /\ t[2] \in Int
  <1>1. Cols = {1, 2} /\ numCols = 2
    BY SGBNewGroupAssumption DEF Cols
  <1>2. \A t \in Tuple : t \in [Cols -> Int]
    BY SGBNewGroupAssumption
  <1> QED  BY <1>1, <1>2, SGBNewGroupAssumption

LEMMA TypeFacts ==
    ASSUME TypeOK
    PROVE  /\ Group \subseteq Position /\ Group \subseteq Nat
           /\ \A g \in Group, i \in Cols : pivot1[g][i] \in Int /\ pivot2[g][i] \in Int
           /\ \A p \in 1 .. numbertuples : p \in Position /\ p \in Nat
           /\ \A p \in 1 .. numbertuples, i \in Cols : input[p][i] \in Int
           /\ \A g \in Position : \A p \in ToSet(tuples[g]) : p \in 1 .. numbertuples
           /\ \A g \in Position : \A k \in DOMAIN tuples[g] : tuples[g][k] \in 1 .. numbertuples
           /\ \A g \in Position : DOMAIN tuples[g] = 1 .. Len(tuples[g]) /\ Len(tuples[g]) \in Nat
           /\ \A g \in Position : tuples[g] \in Seq(Nat) /\ Increasing(tuples[g])
  <1>1. /\ Group \subseteq Position /\ Group \subseteq Nat
        /\ \A p \in 1 .. numbertuples : p \in Position /\ p \in Nat
    BY Consts DEF TypeOK, Group, Position
  <1>2. \A g \in Group, i \in Cols : pivot1[g][i] \in Int /\ pivot2[g][i] \in Int
    <2>1. \A g \in Group : pivot1[g] \in [Cols -> Int] /\ pivot2[g] \in [Cols -> Int]
      BY <1>1 DEF TypeOK
    <2> QED  BY <2>1
  <1>3. \A p \in 1 .. numbertuples, i \in Cols : input[p][i] \in Int
    BY <1>1 DEF TypeOK
  <1>4. \A g \in Position : /\ tuples[g] \in Seq(Nat) /\ Increasing(tuples[g])
                            /\ ToSet(tuples[g]) \subseteq 1 .. numbertuples
    BY DEF TypeOK, ListOK
  <1>5. \A g \in Position : DOMAIN tuples[g] = 1 .. Len(tuples[g]) /\ Len(tuples[g]) \in Nat
    BY <1>4
  <1>6. \A g \in Position : \A k \in DOMAIN tuples[g] : tuples[g][k] \in ToSet(tuples[g])
    BY DEF ToSet
  <1> QED  BY <1>1, <1>2, <1>3, <1>4, <1>5, <1>6

(* Within EPS by the metric is within EPS in every column.                 *)
LEMMA ManhattanFacts ==
    ASSUME NEW p \in [Cols -> Int], NEW q \in [Cols -> Int], Manhattan(p, q) <= EPS
    PROVE  \A i \in Cols : Width(p[i], q[i]) <= EPS
  <1>1. p[1] \in Int /\ p[2] \in Int /\ q[1] \in Int /\ q[2] \in Int
    BY Consts
  <1>2. Width(p[1], q[1]) \in Nat /\ Width(p[2], q[2]) \in Nat
    BY <1>1 DEF Width
  <1> QED  BY <1>2, Consts DEF Manhattan
-----------------------------------------------------------------------------
(* A column <<lo, hi>> of the temporary group is unset or holds v.         *)
Holds(b, v) == b = <<0, 0>> \/ (b[1] <= v /\ v <= b[2])

LEMMA UpdateHolds ==
    ASSUME NEW b \in Int \X Int, NEW x \in Int, NEW v \in Int, Holds(b, v), Width(x, v) <= EPS
    PROVE  /\ updatePivotByTuple(b, x) \in Int \X Int
           /\ updatePivotByTuple(b, x)[1] <= v /\ v <= updatePivotByTuple(b, x)[2]
           /\ x = v => /\ v - EPS <= updatePivotByTuple(b, x)[1]
                       /\ updatePivotByTuple(b, x)[2] <= v + EPS
  <1>1. b[1] \in Int /\ b[2] \in Int /\ EPS \in Nat /\ b = <<b[1], b[2]>>
    BY Consts
  <1>2. x - EPS <= v /\ v <= x + EPS
    BY <1>1 DEF Width
  <1>3. CASE Width(b[1], b[2]) <= EPS /\ b[1] # 0 /\ b[2] # 0
    <2>1. updatePivotByTuple(b, x) = b
      BY <1>3 DEF updatePivotByTuple
    <2>2. b[1] <= v /\ v <= b[2]
      BY <1>3 DEF Holds
    <2> QED  BY <1>1, <1>3, <2>1, <2>2 DEF Width
  <1>4. CASE ~(Width(b[1], b[2]) <= EPS /\ b[1] # 0 /\ b[2] # 0) /\ b = <<0, 0>>
    <2>1. updatePivotByTuple(b, x) = <<x - EPS, x + EPS>>
      BY <1>4 DEF updatePivotByTuple
    <2> QED  BY <1>1, <1>2, <2>1
  <1>5. CASE ~(Width(b[1], b[2]) <= EPS /\ b[1] # 0 /\ b[2] # 0) /\ b # <<0, 0>>
    <2>1. updatePivotByTuple(b, x) = <<Greatest(b[1], x - EPS), Least(b[2], x + EPS)>>
      BY <1>5 DEF updatePivotByTuple
    <2>2. b[1] <= v /\ v <= b[2]
      BY <1>5 DEF Holds
    <2>3. /\ Greatest(b[1], x - EPS) \in Int /\ Least(b[2], x + EPS) \in Int
          /\ Greatest(b[1], x - EPS) <= v /\ v <= Least(b[2], x + EPS)
          /\ x - EPS <= Greatest(b[1], x - EPS) /\ Least(b[2], x + EPS) <= x + EPS
      BY <1>1, <1>2, <2>2 DEF Greatest, Least
    <2> QED  BY <2>1, <2>3
  <1> QED  BY <1>3, <1>4, <1>5

LEMMA UnlinkedNear ==
    ASSUME NEW g, NEW f, NEW t
    PROVE  Unlinked(g, f, t) \subseteq Near(tuples[g], t)
  BY DEF Unlinked, WalkedFirst, WalkedNext

(* The box of a temporary group holds t and is within EPS of it, whatever  *)
(* members were cut for it and wherever their intersection was given up.   *)
LEMMA TmpFacts ==
    ASSUME TypeOK, NEW t \in Tuple, NEW f \in Position, NEW i \in Cols
    PROVE  /\ TmpColumn(f, t, i)[1] \in Int /\ TmpColumn(f, t, i)[2] \in Int
           /\ TmpColumn(f, t, i)[1] <= t[i] /\ t[i] <= TmpColumn(f, t, i)[2]
           /\ t[i] - EPS <= TmpColumn(f, t, i)[1] /\ TmpColumn(f, t, i)[2] <= t[i] + EPS
  <1>1. PICK s : s = tuples[f]
    OBVIOUS
  <1>2. PICK U : U = Unlinked(f, f, t)
    OBVIOUS
  <1>3. /\ Len(s) \in Nat /\ DOMAIN s = 1 .. Len(s)
        /\ \A k \in 1 .. Len(s) : input[s[k]] \in [Cols -> Int] /\ input[s[k]][i] \in Int
    <2>1. \A k \in DOMAIN s : s[k] \in 1 .. numbertuples
      BY <1>1, TypeFacts
    <2>2. \A p \in 1 .. numbertuples : input[p] \in [Cols -> Int]
      BY TypeFacts DEF TypeOK
    <2> QED  BY <1>1, <2>1, <2>2, TypeFacts
  <1>4. t[i] \in Int /\ EPS \in Nat
    BY Consts
  <1>5. \A k \in 1 .. Len(s) : k \in U => Width(input[s[k]][i], t[i]) <= EPS
    <2> SUFFICES ASSUME NEW k \in 1 .. Len(s), k \in U PROVE Width(input[s[k]][i], t[i]) <= EPS
      OBVIOUS
    <2>1. Manhattan(input[s[k]], t) <= EPS
      BY <1>1, <1>2, UnlinkedNear DEF Near, InsideBound_tuple
    <2> QED  BY <1>3, <2>1, ManhattanFacts, Consts
  <1> DEFINE Eq(F) == F = [k \in 0 .. Len(s) |->
                             IF k = 0 THEN <<0, 0>>
                             ELSE IF k \in U THEN updatePivotByTuple(F[k - 1], input[s[k]][i])
                             ELSE F[k - 1]]
             B == {b \in Int \X Int : Holds(b, t[i])}
             step == [x \in (1 .. Len(s)) \X B |->
                        IF x[1] \in U THEN updatePivotByTuple(x[2], input[s[x[1]]][i]) ELSE x[2]]
  <1>6. ASSUME NEW k \in 1 .. Len(s), NEW b \in B, k \in U
        PROVE  updatePivotByTuple(b, input[s[k]][i]) \in B
    BY <1>3, <1>4, <1>5, <1>6, UpdateHolds DEF Holds
  <1>7. <<0, 0>> \in B
    BY DEF Holds
  <1>8. \A b \in B : b \in Int \X Int /\ Holds(b, t[i])
    OBVIOUS
  <1> HIDE DEF B
  <1>9. step \in Steps(Len(s), B)
    <2>1. ASSUME NEW x \in (1 .. Len(s)) \X B
          PROVE  (IF x[1] \in U THEN updatePivotByTuple(x[2], input[s[x[1]]][i]) ELSE x[2]) \in B
      <3>1. x[1] \in 1 .. Len(s) /\ x[2] \in B
        OBVIOUS
      <3> QED  BY <1>6, <3>1
    <2> QED  BY <2>1 DEF Steps
  <1>10. \A k \in 1 .. Len(s), b \in B :
            step[<<k, b>>] = IF k \in U THEN updatePivotByTuple(b, input[s[k]][i]) ELSE b
    OBVIOUS
  <1> HIDE DEF step
  <1>11. PICK G \in [0 .. Len(s) -> B] : Continues(G, Len(s), <<0, 0>>, step)
    <2>1. PICK a : a = <<0, 0>>
      OBVIOUS
    <2>2. PICK n \in Nat : n = Len(s)
      BY <1>3
    <2>3. \E G \in [0 .. n -> B] : Continues(G, n, a, step)
      BY <1>7, <1>9, <2>1, <2>2, RecursionExists
    <2> QED  BY <2>1, <2>2, <2>3
  <1>12. ASSUME NEW k \in 0 .. Len(s)
         PROVE  G[k] = IF k = 0 THEN <<0, 0>>
                       ELSE IF k \in U THEN updatePivotByTuple(G[k - 1], input[s[k]][i])
                       ELSE G[k - 1]
    <2>1. CASE k = 0
      BY <1>11, <2>1 DEF Continues
    <2>2. CASE k # 0
      <3>1. k \in 1 .. Len(s) /\ k - 1 \in 0 .. Len(s)
        BY <1>3, <2>2
      <3>2. G[k - 1] \in B
        BY <3>1
      <3>3. G[k] = step[<<k, G[k - 1]>>]
        BY <1>11, <3>1 DEF Continues
      <3> QED  BY <1>10, <2>2, <3>1, <3>2, <3>3
    <2> QED  BY <2>1, <2>2
  <1>13. Eq(G)
    BY <1>12
  <1>14. PICK F : Eq(F) /\ TmpColumn(f, t, i) = updatePivotByTuple(F[Len(s)], t[i])
    <2>1. TmpColumn(f, t, i) = updatePivotByTuple((CHOOSE F : Eq(F))[Len(s)], t[i])
      BY <1>1, <1>2 DEF TmpColumn
    <2>2. Eq(CHOOSE F : Eq(F))
      <3> HIDE DEF Eq
      <3> QED  BY <1>13
    <2> HIDE DEF Eq
    <2> QED  BY <2>1, <2>2
  <1>15. /\ F[0] = <<0, 0>>
         /\ \A k \in 1 .. Len(s) :
                F[k] = IF k \in U THEN updatePivotByTuple(F[k - 1], input[s[k]][i]) ELSE F[k - 1]
    <2>1. 0 \in 0 .. Len(s) /\ \A k \in 1 .. Len(s) : k \in 0 .. Len(s) /\ k # 0
      BY <1>3
    <2>2. \A k \in 0 .. Len(s) :
             F[k] = IF k = 0 THEN <<0, 0>>
                    ELSE IF k \in U THEN updatePivotByTuple(F[k - 1], input[s[k]][i])
                    ELSE F[k - 1]
      BY <1>14
    <2> QED  BY <2>1, <2>2
  <1> HIDE DEF Eq
  <1>16. F[Len(s)] \in B
    <2> DEFINE S == {k \in 0 .. Len(s) : F[k] \in B}
    <2>1. 0 \in S
      <3>1. 0 \in 0 .. Len(s)
        BY <1>3
      <3>2. F[0] \in B
        BY <1>7, <1>15
      <3> QED  BY <3>1, <3>2
    <2>2. ASSUME NEW n \in 0 .. Len(s) - 1, n \in S PROVE n + 1 \in S
      <3>1. n + 1 \in 1 .. Len(s) /\ (n + 1) - 1 = n /\ n + 1 \in 0 .. Len(s)
        BY <1>3
      <3>2. F[n] \in B
        BY <2>2
      <3>3. F[n + 1] \in B
        BY <1>6, <1>15, <3>1, <3>2
      <3> QED  BY <3>1, <3>3
    <2>3. \A n \in 0 .. Len(s) : n \in S
      <3> HIDE DEF S
      <3> QED  BY <1>3, <2>1, <2>2, SetInduction
    <2> QED  BY <1>3, <2>3
  <1>17. Width(t[i], t[i]) <= EPS
    BY <1>4 DEF Width
  <1> QED  BY <1>4, <1>8, <1>14, <1>16, <1>17, UpdateHolds
-----------------------------------------------------------------------------
(* What phase 2 leaves of the member lists: r for the tuple t.             *)
Lists(t, r) ==
    /\ DOMAIN r = Position
    /\ \A g \in Position :
           /\ ListOK(r[g]) /\ ToSet(r[g]) \subseteq ToSet(tuples[g])
           /\ \A p \in ToSet(tuples[g]) \ ToSet(r[g]) : Manhattan(input[p], t) <= EPS
    /\ \A g \in Position \ Group : r[g] = <<>>

(* A walk over a list of two or more leaves an element: it passes over the *)
(* second one when it has unlinked the first.                              *)
LEMMA WalkLeavesOne ==
    ASSUME TypeOK, NEW g \in Position, NEW f, NEW t, Len(tuples[g]) > 1
    PROVE  \E k \in DOMAIN tuples[g] : k \notin Unlinked(g, f, t)
  <1>1. PICK N : N = Near(tuples[g], t)
    OBVIOUS
  <1>2. 1 \in DOMAIN tuples[g] /\ 2 \in DOMAIN tuples[g]
    BY TypeFacts
  <1>3. CASE 1 \notin N
    BY <1>1, <1>2, <1>3, UnlinkedNear
  <1>4. CASE 1 \in N
    <2>1. 2 \notin WalkedFirst(N)
      BY <1>4 DEF WalkedFirst
    <2>2. 2 \notin WalkedNext(N)
      <3> SUFFICES ASSUME NEW j \in 1 .. 2, j .. 2 \subseteq N, j - 1 \notin N, (2 - j) % 2 = 0
                   PROVE  FALSE
        BY DEF WalkedNext
      <3>1. j = 1 \/ j = 2
        OBVIOUS
      <3>2. j # 2
        BY <1>4
      <3>3. (2 - 1) % 2 = 1
        OBVIOUS
      <3> QED  BY <3>1, <3>2, <3>3
    <2> QED  BY <1>1, <1>2, <2>1, <2>2 DEF Unlinked
  <1> QED  BY <1>3, <1>4

LEMMA CutLists ==
    ASSUME TypeOK, InUseIffMembers, NEW t \in Tuple, NEW H \in SUBSET Group, NEW f,
           NEW T, T = Touched(H, t)
    PROVE  /\ Lists(t, TuplesAfter(T, f, t))
           /\ FlagAfter(T) \in [Position -> 0 .. 3]
           /\ \A g \in Group : FlagAfter(T)[g] = 1 <=> TuplesAfter(T, f, t)[g] # <<>>
           /\ \A g \in Position \ T : /\ TuplesAfter(T, f, t)[g] = tuples[g]
                                      /\ FlagAfter(T)[g] = flagEnabled[g]
  <1>1. PICK r : r = TuplesAfter(T, f, t)
    OBVIOUS
  <1>2. /\ Group \subseteq Position /\ T \subseteq Group
        /\ \A g \in T : flagEnabled[g] = 1 /\ Near(tuples[g], t) # {}
    BY TypeFacts DEF Touched
  <1>3. /\ DOMAIN r = Position
        /\ \A g \in Position : r[g] = IF g \in Emptied(T) THEN <<>>
                                      ELSE IF g \in Cut(T) THEN Keep(tuples[g], Unlinked(g, f, t))
                                      ELSE tuples[g]
        /\ \A g \in Position : FlagAfter(T)[g] = IF g \in Emptied(T) THEN 3 ELSE flagEnabled[g]
    BY <1>1 DEF TuplesAfter, FlagAfter
  <1>4. FlagAfter(T) \in [Position -> 0 .. 3]
    BY DEF FlagAfter, TypeOK
  <1>5. /\ Emptied(T) \subseteq T /\ Cut(T) \subseteq T
        /\ \A g \in Emptied(T) : Len(tuples[g]) = 1
        /\ \A g \in Cut(T) : Len(tuples[g]) > 1
    BY DEF Emptied, Cut
  <1>6. ASSUME NEW g \in Position, g \notin T
        PROVE  r[g] = tuples[g] /\ FlagAfter(T)[g] = flagEnabled[g]
    BY <1>3, <1>5, <1>6
  <1>7. ASSUME NEW g \in T
        PROVE  g \in Emptied(T) \/ (g \in Cut(T) /\ g \notin Emptied(T))
    <2>1. Len(tuples[g]) \in Nat /\ DOMAIN tuples[g] = 1 .. Len(tuples[g])
      BY <1>2, TypeFacts
    <2>2. DOMAIN tuples[g] # {}
      BY <1>2 DEF Near
    <2>3. Len(tuples[g]) = 1 \/ Len(tuples[g]) > 1
      <3>1. PICK m \in Nat : m = Len(tuples[g])
        BY <2>1
      <3>2. 1 .. m # {}
        BY <2>1, <2>2, <3>1
      <3>3. m # 0
        BY <3>2
      <3>4. m = 1 \/ m > 1
        BY <3>3
      <3> QED  BY <3>1, <3>4
    <2> QED  BY <2>1, <2>3 DEF Emptied, Cut
  <1>8. \A g \in Position : \A p \in ToSet(tuples[g]) : p \in 1 .. numbertuples
    BY TypeFacts
  <1>9. ASSUME NEW g \in Cut(T), g \notin Emptied(T)
        PROVE  /\ ListOK(r[g]) /\ r[g] # <<>> /\ ToSet(r[g]) \subseteq ToSet(tuples[g])
               /\ \A p \in ToSet(tuples[g]) \ ToSet(r[g]) : Manhattan(input[p], t) <= EPS
    <2>1. PICK s : s = tuples[g]
      OBVIOUS
    <2>2. PICK U : U = Unlinked(g, f, t)
      OBVIOUS
    <2>3. g \in Position /\ s \in Seq(Nat) /\ Increasing(s) /\ r[g] = Sublist(s, DOMAIN s \ U)
      BY <1>2, <1>3, <1>5, <1>9, <2>1, <2>2, TypeFacts DEF Keep
    <2>4. /\ r[g] \in Seq(Nat) /\ Increasing(r[g])
          /\ ToSet(r[g]) = {s[k] : k \in DOMAIN s \cap (DOMAIN s \ U)}
      BY <2>3, SublistFacts
    <2>5. ToSet(r[g]) = {s[k] : k \in DOMAIN s \ U}
      BY <2>4
    <2>6. ToSet(s) = {s[k] : k \in DOMAIN s}
      BY DEF ToSet
    <2>7. ToSet(r[g]) \subseteq ToSet(s)
      BY <2>5, <2>6
    <2>8. ASSUME NEW p \in ToSet(s) \ ToSet(r[g]) PROVE Manhattan(input[p], t) <= EPS
      <3>1. PICK k \in DOMAIN s : p = s[k] /\ k \in U
        BY <2>5, <2>6
      <3>2. k \in Near(s, t)
        BY <2>1, <2>2, <3>1, UnlinkedNear
      <3> QED  BY <3>1, <3>2 DEF Near, InsideBound_tuple
    <2>9. r[g] # <<>>
      <3>1. PICK k \in DOMAIN s : k \notin U
        BY <1>5, <1>9, <2>1, <2>2, <2>3, WalkLeavesOne
      <3>2. ToSet(r[g]) # {}
        BY <2>5, <3>1
      <3>3. DOMAIN <<>> = {}
        OBVIOUS
      <3> QED  BY <3>2, <3>3 DEF ToSet
    <2>10. ToSet(r[g]) \subseteq 1 .. numbertuples
      BY <1>8, <2>1, <2>3, <2>7
    <2> QED  BY <2>1, <2>4, <2>7, <2>8, <2>9, <2>10 DEF ListOK
  <1>10. ASSUME NEW g \in Emptied(T)
         PROVE  /\ ListOK(r[g]) /\ r[g] = <<>> /\ ToSet(r[g]) \subseteq ToSet(tuples[g])
                /\ \A p \in ToSet(tuples[g]) : Manhattan(input[p], t) <= EPS
    <2>1. g \in Position /\ Len(tuples[g]) = 1 /\ DOMAIN tuples[g] = 1 .. Len(tuples[g])
      BY <1>2, <1>5, TypeFacts
    <2>2. r[g] = <<>> /\ <<>> \in Seq(Nat) /\ DOMAIN <<>> = {}
      BY <1>3, <2>1
    <2>3. DOMAIN tuples[g] = {1}
      BY <2>1
    <2>4. 1 \in Near(tuples[g], t)
      <3>1. Near(tuples[g], t) # {} /\ Near(tuples[g], t) \subseteq DOMAIN tuples[g]
        BY <1>2, <1>5 DEF Near
      <3> QED  BY <2>3, <3>1
    <2>5. \A p \in ToSet(tuples[g]) : Manhattan(input[p], t) <= EPS
      BY <2>3, <2>4 DEF ToSet, Near, InsideBound_tuple
    <2>6. ToSet(<<>>) = {} /\ Increasing(<<>>)
      BY <2>2 DEF ToSet, Increasing
    <2> QED  BY <2>2, <2>5, <2>6 DEF ListOK
  <1>11. Lists(t, r)
    <2>1. ASSUME NEW g \in Position
          PROVE  /\ ListOK(r[g]) /\ ToSet(r[g]) \subseteq ToSet(tuples[g])
                 /\ \A p \in ToSet(tuples[g]) \ ToSet(r[g]) : Manhattan(input[p], t) <= EPS
      <3>1. CASE g \notin T
        BY <1>6, <3>1 DEF TypeOK
      <3>2. CASE g \in T
        BY <1>7, <1>9, <1>10, <3>2
      <3> QED  BY <3>1, <3>2
    <2>2. \A g \in Position \ Group : r[g] = <<>>
      BY <1>2, <1>6 DEF TypeOK
    <2> QED  BY <1>3, <2>1, <2>2 DEF Lists
  <1>12. ASSUME NEW g \in Group PROVE FlagAfter(T)[g] = 1 <=> r[g] # <<>>
    <2>1. CASE g \notin T
      BY <1>2, <1>6, <2>1 DEF InUseIffMembers
    <2>2. CASE g \in Emptied(T)
      BY <1>2, <1>3, <1>10, <2>2
    <2>3. CASE g \in Cut(T) /\ g \notin Emptied(T)
      BY <1>2, <1>3, <1>5, <1>9, <2>3
    <2> QED  BY <1>7, <2>1, <2>2, <2>3
  <1> QED  BY <1>1, <1>4, <1>6, <1>11, <1>12
-----------------------------------------------------------------------------
(* The boxes of the groups in A are narrowed to t.                         *)
Narrowed(A, t) ==
    /\ pivot1' \in [Position -> [Cols -> Int]] /\ pivot2' \in [Position -> [Cols -> Int]]
    /\ DOMAIN rtree' = Position
    /\ \A g \in Position :
           /\ pivot1'[g] = IF g \in A THEN JoinedLow(g, t) ELSE pivot1[g]
           /\ pivot2'[g] = IF g \in A THEN JoinedHigh(g, t) ELSE pivot2[g]
           /\ rtree'[g] = IF g \in A THEN getMBRHashEntry(pivot1'[g], pivot2'[g]) ELSE rtree[g]

(* The groups that take t: one at most, and t is in its box. If none does, *)
(* t was in a box, was near a member or has lost its key.                  *)
Taken(t, A, D) ==
    /\ A \subseteq ContainArray(t) /\ D \subseteq A
    /\ \A g, h \in D : g = h
    /\ \/ ContainArray(t) # {}
       \/ Touched(OverlapSet(t), t) # {}
       \/ numbertuples + 1 \in collided'

StayStep(t, r, A, D) ==
    /\ Read(t) /\ Lists(t, r) /\ Taken(t, A, D) /\ Narrowed(A, t)
    /\ indexhasharray' = indexhasharray /\ collided \subseteq collided'
    /\ \A g \in Position : tuples'[g] = IF g \in D THEN Append(r[g], numbertuples + 1) ELSE r[g]
    /\ flagEnabled' \in [Position -> 0 .. 3]
    /\ \A g \in Group : flagEnabled'[g] = 1 <=> tuples'[g] # <<>>

(* Bounds for a group of t alone.                                          *)
AroundTuple(t, lo, hi) ==
    /\ lo \in [Cols -> Int] /\ hi \in [Cols -> Int]
    /\ \A i \in Cols : lo[i] <= t[i] /\ t[i] <= hi[i] /\ t[i] - EPS <= lo[i] /\ hi[i] <= t[i] + EPS

FoundStep(t, r, lo, hi) ==
    /\ Read(t) /\ Lists(t, r) /\ AroundTuple(t, lo, hi)
    /\ indexhasharray' = indexhasharray + 1 /\ collided' = collided
    /\ indexhasharray + 1 \in Position
    /\ \A g \in Position :
           IF g = indexhasharray + 1
           THEN /\ tuples'[g] = <<numbertuples + 1>>
                /\ pivot1'[g] = lo /\ pivot2'[g] = hi /\ rtree'[g] = getMBRHashEntry(lo, hi)
           ELSE /\ tuples'[g] = r[g]
                /\ pivot1'[g] = pivot1[g] /\ pivot2'[g] = pivot2[g] /\ rtree'[g] = rtree[g]
    /\ pivot1' \in [Position -> [Cols -> Int]] /\ pivot2' \in [Position -> [Cols -> Int]]
    /\ DOMAIN rtree' = Position
    /\ flagEnabled' \in [Position -> 0 .. 3]
    /\ flagEnabled'[indexhasharray + 1] = 1
    /\ \A g \in Group : flagEnabled'[g] = 1 <=> tuples'[g] # <<>>

(* Members stay members; only the lists may move into the aggregates.      *)
QuietStep ==
    /\ UNCHANGED <<indexhasharray, pivot1, pivot2, rtree, numbertuples, collided, input>>
    /\ \A g \in Position : Members(g)' = Members(g)

LEMMA JoinedType ==
    ASSUME TypeOK, NEW t \in Tuple, NEW g \in Position
    PROVE  JoinedLow(g, t) \in [Cols -> Int] /\ JoinedHigh(g, t) \in [Cols -> Int]
  <1>1. pivot1[g] \in [Cols -> Int] /\ pivot2[g] \in [Cols -> Int] /\ t \in [Cols -> Int]
    BY Consts DEF TypeOK
  <1>2. ASSUME NEW i \in Cols
        PROVE  /\ NewLow(pivot1[g][i], pivot2[g][i], t[i]) \in Int
               /\ NewHigh(pivot1[g][i], pivot2[g][i], t[i]) \in Int
    BY <1>1, Consts DEF NewLow, NewHigh
  <1> QED  BY <1>2 DEF JoinedLow, JoinedHigh

LEMMA UpdateNarrows ==
    ASSUME TypeOK, NEW t \in Tuple, NEW A, UpdateBounds(A, t)
    PROVE  Narrowed(A, t)
  <1>1. /\ pivot1' = [g \in Position |-> IF g \in A THEN JoinedLow(g, t) ELSE pivot1[g]]
        /\ pivot2' = [g \in Position |-> IF g \in A THEN JoinedHigh(g, t) ELSE pivot2[g]]
        /\ rtree' = [g \in Position |-> IF g \in A
                                        THEN getMBRHashEntry(JoinedLow(g, t), JoinedHigh(g, t))
                                        ELSE rtree[g]]
    BY DEF UpdateBounds
  <1>2. \A g \in Position : pivot1[g] \in [Cols -> Int] /\ pivot2[g] \in [Cols -> Int]
    BY DEF TypeOK
  <1>3. pivot1' \in [Position -> [Cols -> Int]] /\ pivot2' \in [Position -> [Cols -> Int]]
    BY <1>1, <1>2, JoinedType
  <1> QED  BY <1>1, <1>3 DEF Narrowed

LEMMA KeptNarrows ==
    ASSUME TypeOK, NEW t, UNCHANGED <<pivot1, pivot2, rtree>>
    PROVE  Narrowed({}, t)
  BY DEF Narrowed, TypeOK

LEMMA FoundIsFoundStep ==
    ASSUME TypeOK, InUseIffMembers, NEW t \in Tuple, Read(t), NEW f, NEW lo, NEW hi,
           AroundTuple(t, lo, hi), NEW H \in SUBSET Group, NEW T, T = Touched(H, t),
           Found(t, T, f, lo, hi)
    PROVE  FoundStep(t, TuplesAfter(T, f, t), lo, hi)
  <1>1. PICK n : n = indexhasharray + 1
    OBVIOUS
  <1>2. PICK r : r = TuplesAfter(T, f, t)
    OBVIOUS
  <1>3. /\ indexhasharray' = n /\ flagEnabled' = [FlagAfter(T) EXCEPT ![n] = 1]
        /\ tuples' = [r EXCEPT ![n] = <<numbertuples + 1>>]
        /\ pivot1' = [pivot1 EXCEPT ![n] = lo] /\ pivot2' = [pivot2 EXCEPT ![n] = hi]
        /\ rtree' = [rtree EXCEPT ![n] = getMBRHashEntry(lo, hi)] /\ collided' = collided
    BY <1>1, <1>2 DEF Found
  <1>4. n \in Position /\ n \notin Group /\ Group \subseteq Position
    <2>1. /\ indexhasharray \in Nat /\ numbertuples \in Nat /\ MaxTuples \in Nat
          /\ indexhasharray <= numbertuples /\ numbertuples < MaxTuples
      BY Consts DEF TypeOK, Read
    <2>2. n \in 1 .. MaxTuples /\ n \notin 1 .. indexhasharray
      BY <1>1, <2>1
    <2> QED  BY <2>2, TypeFacts DEF Position, Group
  <1>5. /\ Lists(t, r) /\ FlagAfter(T) \in [Position -> 0 .. 3]
        /\ \A g \in Group : FlagAfter(T)[g] = 1 <=> r[g] # <<>>
    BY <1>2, CutLists
  <1>6. DOMAIN r = Position /\ DOMAIN rtree = Position
    BY <1>5 DEF Lists, TypeOK
  <1>7. \A g \in Position : tuples'[g] = IF g = n THEN <<numbertuples + 1>> ELSE r[g]
    BY <1>3, <1>6
  <1>8. /\ flagEnabled' \in [Position -> 0 .. 3] /\ flagEnabled'[n] = 1
        /\ \A g \in Group : flagEnabled'[g] = FlagAfter(T)[g]
    BY <1>3, <1>4, <1>5
  <1>9. \A g \in Group : flagEnabled'[g] = 1 <=> tuples'[g] # <<>>
    <2>1. \A g \in Group : g \in Position /\ g # n
      BY <1>4
    <2> QED  BY <1>5, <1>7, <1>8, <2>1
  <1>10. /\ pivot1 \in [Position -> [Cols -> Int]] /\ pivot2 \in [Position -> [Cols -> Int]]
         /\ lo \in [Cols -> Int] /\ hi \in [Cols -> Int]
    BY DEF TypeOK, AroundTuple
  <1>11. /\ pivot1' \in [Position -> [Cols -> Int]] /\ pivot2' \in [Position -> [Cols -> Int]]
         /\ DOMAIN rtree' = Position
    BY <1>3, <1>6, <1>10
  <1>12. \A g \in Position : /\ pivot1'[g] = IF g = n THEN lo ELSE pivot1[g]
                             /\ pivot2'[g] = IF g = n THEN hi ELSE pivot2[g]
                             /\ rtree'[g] = IF g = n THEN getMBRHashEntry(lo, hi) ELSE rtree[g]
    BY <1>3, <1>6, <1>10
  <1>13. FoundStep(t, r, lo, hi)
    BY <1>1, <1>3, <1>4, <1>5, <1>7, <1>8, <1>9, <1>11, <1>12 DEF FoundStep
  <1> QED  BY <1>2, <1>13

(* Every call of the handler is one of the two kinds of steps.             *)
LEMMA HandlerSteps ==
    ASSUME TypeOK, InUseIffMembers, NEW t \in Tuple, NEW h \in SetToSeqs(OverlapSet(t)),
           FillStep(t, h, ContainArray(t), Touched(OverlapSet(t), t))
    PROVE  \/ \E r, lo, hi : FoundStep(t, r, lo, hi)
           \/ \E r, A, D : StayStep(t, r, A, D)
  <1>1. PICK H : H = OverlapSet(t)
    OBVIOUS
  <1>2. PICK A : A = ContainArray(t)
    OBVIOUS
  <1>3. PICK T : T = Touched(H, t)
    OBVIOUS
  <1>4. PICK k : k = FirstAt(h, Cut(T))
    OBVIOUS
  <1>5. PICK f : f = FirstCut(h, k)
    OBVIOUS
  <1>6. PICK r : r = TuplesAfter(T, f, t)
    OBVIOUS
  <1>7. /\ H \in SUBSET Group /\ H \cap A = {} /\ A \subseteq Group /\ Group \subseteq Position
        /\ T \subseteq H
    BY <1>1, <1>2, <1>3, TypeFacts DEF OverlapSet, ContainArray, Touched
  <1>8. /\ Lists(t, r) /\ FlagAfter(T) \in [Position -> 0 .. 3]
        /\ \A g \in Group : FlagAfter(T)[g] = 1 <=> r[g] # <<>>
        /\ \A g \in Position \ T : r[g] = tuples[g] /\ FlagAfter(T)[g] = flagEnabled[g]
    BY <1>3, <1>6, <1>7, CutLists
  <1>9. \A g \in Position : TuplesAfter(T, f, t)[g] = r[g]
    BY <1>6
  <1>10. t \in [Cols -> Int] /\ EPS \in Nat
    BY Consts
  <1>11. ASSUME NewGroup(t, h, A, T, k) PROVE \E lo, hi : FoundStep(t, r, lo, hi)
    <2>1. Read(t) /\ Found(t, T, f, LowAround(t), HighAround(t))
      BY <1>5, <1>11 DEF NewGroup
    <2>2. AroundTuple(t, LowAround(t), HighAround(t))
      <3>1. \A i \in Cols : t[i] \in Int
        BY <1>10
      <3> QED  BY <1>10, <3>1 DEF AroundTuple, LowAround, HighAround
    <2> QED  BY <1>3, <1>6, <1>7, <2>1, <2>2, FoundIsFoundStep
  <1>12. ASSUME NewTmpGroup(t, h, A, T, k) PROVE \E lo, hi : FoundStep(t, r, lo, hi)
    <2>1. PICK lo : lo = [i \in Cols |-> TmpColumn(h[k], t, i)[1]]
      OBVIOUS
    <2>2. PICK hi : hi = [i \in Cols |-> TmpColumn(h[k], t, i)[2]]
      OBVIOUS
    <2>3. Read(t) /\ Found(t, T, f, lo, hi) /\ tmpindex(h, T, k) = 1
      BY <1>5, <1>12, <2>1, <2>2 DEF NewTmpGroup
    <2>4. h[k] \in Position
      <3>1. k # 0
        BY <2>3 DEF tmpindex
      <3>2. PICK at : at = {j \in DOMAIN h : h[j] \in Cut(T)}
        OBVIOUS
      <3>3. k = IF at = {} THEN 0 ELSE Min(at)
        BY <1>4, <3>2 DEF FirstAt
      <3>4. at \in SUBSET Nat
        <4>1. IsFiniteSet(Group)
          <5>1. indexhasharray \in Int
            BY DEF TypeOK
          <5> QED  BY <5>1, FS_Interval DEF Group
        <4>2. Cardinality(H) \in Nat
          BY <1>7, <4>1, FS_Subset, FS_CardinalityType
        <4>3. DOMAIN h = 1 .. Cardinality(H)
          BY <1>1 DEF SetToSeqs
        <4> QED  BY <3>2, <4>2, <4>3
      <3>5. at # {} /\ k = Min(at)
        BY <3>1, <3>3
      <3>6. k \in at
        BY <3>4, <3>5, MinFacts
      <3> QED  BY <1>7, <3>2, <3>6 DEF Cut
    <2>5. AroundTuple(t, lo, hi)
      <3>1. PICK g : g = h[k]
        OBVIOUS
      <3>2. ASSUME NEW i \in Cols
            PROVE  /\ lo[i] \in Int /\ hi[i] \in Int /\ lo[i] <= t[i] /\ t[i] <= hi[i]
                   /\ t[i] - EPS <= lo[i] /\ hi[i] <= t[i] + EPS
        <4>1. lo[i] = TmpColumn(g, t, i)[1] /\ hi[i] = TmpColumn(g, t, i)[2]
          BY <2>1, <2>2, <3>1
        <4> QED  BY <2>4, <3>1, <4>1, TmpFacts
      <3>3. lo \in [Cols -> Int] /\ hi \in [Cols -> Int]
        BY <2>1, <2>2, <3>2
      <3> QED  BY <3>2, <3>3 DEF AroundTuple
    <2> QED  BY <1>3, <1>6, <1>7, <2>3, <2>5, FoundIsFoundStep
  <1>13. ASSUME KeyTaken(t, h, A, T, k) PROVE StayStep(t, r, {}, {})
    <2>1. /\ Read(t) /\ flagEnabled' = FlagAfter(T) /\ tuples' = r
          /\ collided' = collided \cup {numbertuples + 1}
          /\ UNCHANGED <<indexhasharray, pivot1, pivot2, rtree>>
      BY <1>5, <1>6, <1>13 DEF KeyTaken
    <2>2. Narrowed({}, t)
      BY <2>1, KeptNarrows
    <2>3. Taken(t, {}, {})
      BY <2>1 DEF Taken
    <2> QED  BY <1>8, <2>1, <2>2, <2>3 DEF StayStep
  <1>14. ASSUME JoinGroup(t, h, A, T, k) PROVE \E D : StayStep(t, r, A, D)
    <2> DEFINE D == {g \in A : flagEnabled[g] = 1}
    <2>1. /\ Read(t) /\ flagEnabled' = FlagAfter(T) /\ UpdateBounds(A, t) /\ Cardinality(A) = 1
          /\ indexhasharray' = indexhasharray /\ collided' = collided
          /\ tuples' = [g \in Position |-> IF g \in A /\ flagEnabled[g] = 1
                                           THEN Append(r[g], numbertuples + 1) ELSE r[g]]
      BY <1>5, <1>6, <1>14 DEF JoinGroup
    <2>2. PICK x : A = {x}
      <3>1. IsFiniteSet(Group)
        <4>1. indexhasharray \in Int
          BY DEF TypeOK
        <4> QED  BY <4>1, FS_Interval DEF Group
      <3>2. IsFiniteSet(A)
        BY <1>7, <3>1, FS_Subset
      <3> QED  BY <2>1, <3>2, FS_Singleton
    <2>3. Taken(t, A, D)
      BY <1>2, <2>2 DEF Taken
    <2>4. Narrowed(A, t)
      BY <2>1, UpdateNarrows
    <2>5. \A g \in Position : tuples'[g] = IF g \in D THEN Append(r[g], numbertuples + 1) ELSE r[g]
      BY <2>1
    <2>6. \A g \in Group : flagEnabled'[g] = 1 <=> tuples'[g] # <<>>
      <3> SUFFICES ASSUME NEW g \in Group PROVE flagEnabled'[g] = 1 <=> tuples'[g] # <<>>
        OBVIOUS
      <3>1. CASE g \in D
        <4>1. g \in Position /\ g \notin T
          BY <1>7, <3>1
        <4>2. FlagAfter(T)[g] = 1
          BY <1>8, <3>1, <4>1
        <4>3. r[g] \in Seq(Nat) /\ numbertuples + 1 \in Nat
          BY <1>8, <4>1 DEF Lists, ListOK, TypeOK
        <4>4. tuples'[g] # <<>>
          BY <2>5, <3>1, <4>1, <4>3, AppendFacts
        <4> QED  BY <2>1, <4>2, <4>4
      <3>2. CASE g \notin D
        <4> HIDE DEF D
        <4> QED  BY <1>7, <1>8, <2>1, <2>5, <3>2
      <3> QED  BY <3>1, <3>2
    <2>7. StayStep(t, r, A, D)
      <3> HIDE DEF D
      <3> QED  BY <1>8, <2>1, <2>3, <2>4, <2>5, <2>6 DEF StayStep
    <2> QED  BY <2>7
  <1>15. ASSUME Withhold(t, h, A, T, k) PROVE StayStep(t, r, A, {})
    <2>1. /\ Read(t) /\ flagEnabled' = FlagAfter(T) /\ UpdateBounds(A, t)
          /\ Cardinality(A) + tmpindex(h, T, k) >= 2
          /\ indexhasharray' = indexhasharray /\ collided' = collided /\ tuples' = r
      BY <1>5, <1>6, <1>15 DEF Withhold
    <2>2. A # {} \/ T # {}
      <3> SUFFICES ASSUME A = {}, T = {} PROVE FALSE
        OBVIOUS
      <3>1. Cardinality({}) = 0
        BY FS_EmptySet
      <3>2. tmpindex(h, T, k) = 0
        <4>1. {j \in k .. Len(h) : h[j] \in T} = {}
          OBVIOUS
        <4> QED  BY <3>1, <4>1 DEF tmpindex
      <3> QED  BY <2>1, <3>1, <3>2
    <2>3. Taken(t, A, {})
      BY <1>1, <1>2, <1>3, <2>2 DEF Taken
    <2>4. Narrowed(A, t)
      BY <2>1, UpdateNarrows
    <2> QED  BY <1>8, <2>1, <2>3, <2>4 DEF StayStep
  <1>16. Handle(t, h, A, T, k)
    BY <1>1, <1>2, <1>3, <1>4 DEF FillStep
  <1> QED  BY <1>11, <1>12, <1>13, <1>14, <1>15, <1>16 DEF Handle
-----------------------------------------------------------------------------
LEMMA ReadFacts ==
    ASSUME TypeOK, NEW t \in Tuple, Read(t), NEW n, n = numbertuples + 1
    PROVE  /\ numbertuples' = n /\ n \in Nat /\ n <= MaxTuples /\ n \in Position
           /\ n \notin 1 .. numbertuples /\ 1 .. numbertuples' = (1 .. numbertuples) \cup {n}
           /\ input' \in [Position -> [Cols -> Int]] /\ input'[n] = t
           /\ \A p \in 1 .. numbertuples : input'[p] = input[p]
           /\ UNCHANGED <<pc, aggregated>> /\ pc = "fill"
           /\ \A g \in Position : aggregated[g] = {} /\ aggregated'[g] = {}
           /\ \A g \in Position : /\ Members(g) = ToSet(tuples[g])
                                  /\ Members(g)' = ToSet(tuples'[g])
           /\ \A g \in Position : n \notin ToSet(tuples[g])
           /\ t \in [Cols -> Int]
  <1>1. /\ numbertuples' = n /\ numbertuples < MaxTuples /\ pc = "fill"
        /\ UNCHANGED <<pc, aggregated>> /\ input' = [input EXCEPT ![n] = t]
    BY DEF Read, outVars
  <1>2. numbertuples \in Nat /\ MaxTuples \in Nat /\ t \in [Cols -> Int]
    BY Consts DEF TypeOK
  <1>3. /\ n \in Nat /\ n <= MaxTuples /\ n \in Position /\ n \notin 1 .. numbertuples
        /\ 1 .. numbertuples' = (1 .. numbertuples) \cup {n}
    BY <1>1, <1>2 DEF Position
  <1>4. /\ input' \in [Position -> [Cols -> Int]] /\ input'[n] = t
        /\ \A p \in 1 .. numbertuples : input'[p] = input[p]
    <2>1. input \in [Position -> [Cols -> Int]]
      BY DEF TypeOK
    <2>2. \A p \in 1 .. numbertuples : p \in Position /\ p # n
      BY <1>3, TypeFacts
    <2> QED  BY <1>1, <1>2, <1>3, <2>1, <2>2
  <1>5. \A g \in Position : aggregated[g] = {} /\ aggregated'[g] = {}
    BY <1>1 DEF TypeOK
  <1>6. \A g \in Position : Members(g) = ToSet(tuples[g]) /\ Members(g)' = ToSet(tuples'[g])
    BY <1>5 DEF Members
  <1>7. \A g \in Position : n \notin ToSet(tuples[g])
    BY <1>3, TypeFacts
  <1> QED  BY <1>1, <1>2, <1>3, <1>4, <1>5, <1>6, <1>7

LEMMA StayFacts ==
    ASSUME TypeOK, NEW t \in Tuple, NEW r, NEW A, NEW D, StayStep(t, r, A, D),
           NEW n, n = numbertuples + 1
    PROVE  /\ Group' = Group
           /\ \A g \in Position : ToSet(tuples'[g]) = IF g \in D THEN ToSet(r[g]) \cup {n}
                                                                 ELSE ToSet(r[g])
           /\ TypeOK' /\ InUseIffMembers'
  <1>1. Read(t) /\ Lists(t, r) /\ Taken(t, A, D) /\ Narrowed(A, t)
    BY DEF StayStep
  <1>2. /\ numbertuples' = n /\ n \in Nat /\ n <= MaxTuples /\ n \in Position
        /\ 1 .. numbertuples' = (1 .. numbertuples) \cup {n} /\ n \notin 1 .. numbertuples
        /\ UNCHANGED <<pc, aggregated>> /\ pc = "fill"
        /\ input' \in [Position -> [Cols -> Int]]
    BY <1>1, ReadFacts
  <1>3. Group' = Group /\ indexhasharray' = indexhasharray
    BY DEF StayStep, Group
  <1>4. D \subseteq Group
    BY <1>1 DEF Taken, ContainArray
  <1>5. /\ numbertuples \in Nat /\ indexhasharray \in Nat /\ indexhasharray <= numbertuples
        /\ aggregated \in [Position -> SUBSET (1 .. numbertuples)]
        /\ aggregated = [g \in Position |-> {}]
    BY <1>2 DEF TypeOK
  <1>6. ASSUME NEW g \in Position
        PROVE  /\ ToSet(tuples'[g]) = IF g \in D THEN ToSet(r[g]) \cup {n} ELSE ToSet(r[g])
               /\ ListOK(tuples[g])'
    <2>1. /\ r[g] \in Seq(Nat) /\ Increasing(r[g]) /\ ToSet(r[g]) \subseteq 1 .. numbertuples
      BY <1>1 DEF Lists, ListOK
    <2>2. tuples'[g] = IF g \in D THEN Append(r[g], n) ELSE r[g]
      BY DEF StayStep
    <2>3. \A y \in ToSet(r[g]) : y < n
      BY <1>5, <2>1
    <2>4. /\ Append(r[g], n) \in Seq(Nat) /\ Increasing(Append(r[g], n))
          /\ ToSet(Append(r[g], n)) = ToSet(r[g]) \cup {n}
      BY <1>2, <2>1, <2>3, AppendFacts
    <2>5. tuples'[g] \in Seq(Nat) /\ Increasing(tuples'[g]) /\ ToSet(tuples'[g]) \subseteq 1 .. numbertuples'
      BY <1>2, <2>1, <2>2, <2>4
    <2> QED  BY <2>2, <2>4, <2>5 DEF ListOK
  <1>7. \A g \in Position \ Group : tuples'[g] = <<>> /\ aggregated'[g] = {}
    BY <1>1, <1>2, <1>4, <1>5 DEF StayStep, Lists
  <1>8. aggregated' \in [Position -> SUBSET (1 .. numbertuples')]
    BY <1>2, <1>5
  <1>9. indexhasharray' <= numbertuples'
    BY <1>2, <1>3, <1>5
  <1>10. TypeOK'
    <2>1. \A g \in Position : ListOK(tuples[g])'
      BY <1>6
    <2>2. /\ pivot1' \in [Position -> [Cols -> Int]] /\ pivot2' \in [Position -> [Cols -> Int]]
          /\ DOMAIN rtree' = Position
      BY <1>1 DEF Narrowed
    <2>3. flagEnabled' \in [Position -> 0 .. 3]
      BY DEF StayStep
    <2>4. aggregated' = [g \in Position |-> {}]
      BY <1>2, <1>5
    <2> QED  BY <1>2, <1>3, <1>5, <1>7, <1>8, <1>9, <2>1, <2>2, <2>3, <2>4 DEF TypeOK
  <1>11. InUseIffMembers'
    BY <1>3 DEF StayStep, InUseIffMembers
  <1> QED  BY <1>3, <1>6, <1>10, <1>11

LEMMA FoundFacts ==
    ASSUME TypeOK, NEW t \in Tuple, NEW r, NEW lo, NEW hi, FoundStep(t, r, lo, hi),
           NEW n, n = numbertuples + 1, NEW m, m = indexhasharray + 1
    PROVE  /\ Group' = Group \cup {m} /\ m \notin Group /\ m \in Position
           /\ ToSet(tuples'[m]) = {n}
           /\ \A g \in Group : g # m /\ ToSet(tuples'[g]) = ToSet(r[g])
           /\ TypeOK' /\ InUseIffMembers'
  <1>1. Read(t) /\ Lists(t, r)
    BY DEF FoundStep
  <1>2. /\ numbertuples' = n /\ n \in Nat /\ n <= MaxTuples /\ n \in Position
        /\ 1 .. numbertuples' = (1 .. numbertuples) \cup {n} /\ n \notin 1 .. numbertuples
        /\ UNCHANGED <<pc, aggregated>> /\ pc = "fill"
        /\ input' \in [Position -> [Cols -> Int]]
    BY <1>1, ReadFacts
  <1>3. /\ numbertuples \in Nat /\ indexhasharray \in Nat /\ indexhasharray <= numbertuples
        /\ aggregated \in [Position -> SUBSET (1 .. numbertuples)]
        /\ aggregated = [g \in Position |-> {}]
    BY <1>2 DEF TypeOK
  <1>4. indexhasharray' = m /\ m \in Position
    BY DEF FoundStep
  <1>5. Group' = Group \cup {m} /\ m \notin Group
    BY <1>3, <1>4 DEF Group
  <1>6. \A g \in Position : tuples'[g] = IF g = m THEN <<n>> ELSE r[g]
    BY DEF FoundStep
  <1>7. <<n>> \in Seq(Nat) /\ Increasing(<<n>>) /\ ToSet(<<n>>) = {n} /\ <<n>> # <<>>
    <2>1. <<n>> \in Seq(Nat) /\ DOMAIN <<n>> = {1} /\ <<n>>[1] = n /\ <<n>> # <<>>
      BY <1>2
    <2>2. Increasing(<<n>>)
      BY <2>1 DEF Increasing
    <2>3. ToSet(<<n>>) = {n}
      BY <2>1 DEF ToSet
    <2> QED  BY <2>1, <2>2, <2>3
  <1>8. ASSUME NEW g \in Position PROVE ListOK(tuples[g])'
    <2>1. r[g] \in Seq(Nat) /\ Increasing(r[g]) /\ ToSet(r[g]) \subseteq 1 .. numbertuples
      BY <1>1 DEF Lists, ListOK
    <2>2. /\ tuples'[g] \in Seq(Nat) /\ Increasing(tuples'[g])
          /\ ToSet(tuples'[g]) \subseteq 1 .. numbertuples'
      BY <1>2, <1>6, <1>7, <2>1
    <2> QED  BY <2>2 DEF ListOK
  <1>9. \A g \in Position \ Group' : tuples'[g] = <<>> /\ aggregated'[g] = {}
    BY <1>1, <1>2, <1>3, <1>5, <1>6 DEF Lists
  <1>10. TypeOK'
    <2>1. /\ pivot1' \in [Position -> [Cols -> Int]] /\ pivot2' \in [Position -> [Cols -> Int]]
          /\ DOMAIN rtree' = Position /\ flagEnabled' \in [Position -> 0 .. 3]
      BY DEF FoundStep
    <2>2. indexhasharray' \in Nat /\ indexhasharray' <= numbertuples'
      BY <1>2, <1>3, <1>4
    <2>3. /\ aggregated' = [g \in Position |-> {}]
          /\ aggregated' \in [Position -> SUBSET (1 .. numbertuples')]
      BY <1>2, <1>3
    <2> QED  BY <1>2, <1>8, <1>9, <2>1, <2>2, <2>3 DEF TypeOK
  <1>11. InUseIffMembers'
    BY <1>4, <1>5, <1>6, <1>7 DEF FoundStep, InUseIffMembers
  <1> QED  BY <1>4, <1>5, <1>6, <1>7, <1>10, <1>11, TypeFacts

LEMMA QuietFacts ==
    ASSUME TypeOK, InUseIffMembers,
           \/ EndOfInputLong \/ EndOfInputShort \/ RetrieveEntry \/ RetrieveEnd \/ ReScanSame
           \/ UNCHANGED vars
    PROVE  QuietStep /\ TypeOK' /\ InUseIffMembers' /\ (pc' = "fill" => tuples' = tuples)
  <1>1. CASE EndOfInputLong
    <2>1. /\ aggregated' = [g \in Position |-> IF flagEnabled[g] = 1 THEN ToSet(tuples[g]) ELSE {}]
          /\ tuples' = [g \in Position |-> <<>>]
          /\ flagEnabled' = [g \in Position |-> IF flagEnabled[g] = 1 THEN 2 ELSE 0]
          /\ pc' = "retrieve" /\ pc = "fill"
          /\ UNCHANGED <<indexhasharray, pivot1, pivot2, rtree, numbertuples, collided, input>>
      BY <1>1 DEF EndOfInputLong
    <2>2. <<>> \in Seq(Nat) /\ DOMAIN <<>> = {}
      OBVIOUS
    <2>3. ToSet(<<>>) = {} /\ Increasing(<<>>)
      BY <2>2 DEF ToSet, Increasing
    <2>4. Group \subseteq Position /\ Group' = Group
      BY <2>1, TypeFacts DEF Group
    <2>5. ASSUME NEW g \in Position
          PROVE  Members(g)' = Members(g) /\ (g \notin Group => aggregated'[g] = {})
      <3>1. aggregated[g] = {}
        BY <2>1 DEF TypeOK
      <3>2. Members(g) = ToSet(tuples[g]) /\ Members(g)' = aggregated'[g]
        BY <2>1, <2>3, <3>1 DEF Members
      <3>3. flagEnabled[g] # 1 => tuples[g] = <<>>
        BY DEF InUseIffMembers, TypeOK
      <3>4. g \notin Group => tuples[g] = <<>>
        BY DEF TypeOK
      <3> QED  BY <2>1, <2>3, <3>2, <3>3, <3>4
    <2>6. QuietStep
      BY <2>1, <2>5 DEF QuietStep
    <2>7. InUseIffMembers'
      BY <2>1, <2>4 DEF InUseIffMembers
    <2>8. \A g \in Position : ListOK(tuples[g])'
      BY <2>1, <2>2, <2>3 DEF ListOK
    <2>9. aggregated' \in [Position -> SUBSET (1 .. numbertuples')]
      BY <2>1, TypeFacts
    <2>10. flagEnabled' \in [Position -> 0 .. 3]
      BY <2>1
    <2>11. \A g \in Position \ Group' : tuples'[g] = <<>> /\ aggregated'[g] = {}
      BY <2>1, <2>4, <2>5
    <2>12. TypeOK'
      BY <2>1, <2>8, <2>9, <2>10, <2>11 DEF TypeOK
    <2> QED  BY <2>1, <2>6, <2>7, <2>12
  <1>2. CASE EndOfInputShort \/ RetrieveEntry \/ RetrieveEnd \/ ReScanSame \/ UNCHANGED vars
    <2>1. /\ UNCHANGED <<indexhasharray, flagEnabled, pivot1, pivot2, tuples, rtree, aggregated,
                         numbertuples, collided, input>>
          /\ pc' = pc \/ pc' \in {"retrieve", "done"}
      BY <1>2 DEF EndOfInputShort, RetrieveEntry, RetrieveEnd, ReScanSame, vars, groupVars, outVars
    <2>2. QuietStep
      BY <2>1 DEF QuietStep, Members
    <2>3. Group' = Group
      BY <2>1 DEF Group
    <2>4. InUseIffMembers'
      BY <2>1, <2>3 DEF InUseIffMembers
    <2>5. \A g \in Position : ListOK(tuples[g])'
      BY <2>1 DEF TypeOK, ListOK
    <2>6. TypeOK'
      BY <2>1, <2>3, <2>5 DEF TypeOK
    <2> QED  BY <2>1, <2>2, <2>4, <2>6
  <1> QED  BY <1>1, <1>2

(* The three kinds of steps.                                               *)
LEMMA StepKinds ==
    ASSUME TypeOK, InUseIffMembers, [Next]_vars
    PROVE  \/ \E t \in Tuple : \E r, lo, hi : FoundStep(t, r, lo, hi)
           \/ \E t \in Tuple : \E r, A, D : StayStep(t, r, A, D)
           \/ QuietStep /\ TypeOK' /\ InUseIffMembers' /\ (pc' = "fill" => tuples' = tuples)
  BY HandlerSteps, QuietFacts DEF Next

LEMMA TypeInit == Init => TypeOK /\ InUseIffMembers
  <1> SUFFICES ASSUME Init PROVE TypeOK /\ InUseIffMembers
    OBVIOUS
  <1>1. /\ pc = "fill" /\ indexhasharray = 0 /\ numbertuples = 0
        /\ flagEnabled = [g \in Position |-> 0] /\ tuples = [g \in Position |-> <<>>]
        /\ aggregated = [g \in Position |-> {}] /\ input = [p \in Position |-> Zeroes]
        /\ pivot1 = [g \in Position |-> Zeroes] /\ pivot2 = [g \in Position |-> Zeroes]
        /\ DOMAIN rtree = Position
    BY DEF Init
  <1>2. Zeroes \in [Cols -> Int]
    BY DEF Zeroes
  <1>3. <<>> \in Seq(Nat) /\ DOMAIN <<>> = {}
    OBVIOUS
  <1>4. \A g \in Position : ListOK(tuples[g])
    BY <1>1, <1>3 DEF ListOK, ToSet, Increasing
  <1>5. Group = {}
    BY <1>1 DEF Group
  <1>6. MaxTuples \in Nat
    BY Consts
  <1>7. /\ flagEnabled \in [Position -> 0 .. 3]
        /\ pivot1 \in [Position -> [Cols -> Int]] /\ pivot2 \in [Position -> [Cols -> Int]]
        /\ input \in [Position -> [Cols -> Int]]
        /\ aggregated \in [Position -> SUBSET (1 .. numbertuples)]
    BY <1>1, <1>2
  <1>8. TypeOK
    BY <1>1, <1>4, <1>6, <1>7 DEF TypeOK
  <1> QED  BY <1>5, <1>8 DEF InUseIffMembers

LEMMA TypeStep ==
    TypeOK /\ InUseIffMembers /\ [Next]_vars => (TypeOK /\ InUseIffMembers)'
  BY StepKinds, StayFacts, FoundFacts

(* A group of the NEW_GROUP handler that is in use has members and only    *)
(* such a group has a list, for every input: of the list it walks,         *)
(* findIntersection_putIntoMemoList always leaves an element.              *)
THEOREM InUseTheorem == Spec => []InUseIffMembers
  BY TypeInit, TypeStep, PTL DEF Spec
-----------------------------------------------------------------------------
(* What is returned is a group that was not disabled, and of a long input  *)
(* only groups that had members are left.                                  *)
ResultInv ==
    /\ returned \subseteq Group
    /\ pc = "fill" => returned = {}
    /\ \A g \in returned : flagEnabled[g] # 0
    /\ (pc # "fill" /\ numbertuples > 2) =>
          \A g \in Group : flagEnabled[g] # 0 => aggregated[g] # {}
    /\ numbertuples <= 2 => aggregated = [g \in Position |-> {}]

LEMMA ResultStep ==
    TypeOK /\ InUseIffMembers /\ ResultInv /\ [Next]_vars => ResultInv'
  <1> SUFFICES ASSUME TypeOK, InUseIffMembers, ResultInv, [Next]_vars PROVE ResultInv'
    OBVIOUS
  <1>0. Group \subseteq Position
    BY TypeFacts
  <1>1. ASSUME NEW t \in Tuple, Read(t) PROVE ResultInv'
    <2>1. pc = "fill" /\ pc' = "fill" /\ returned' = returned /\ aggregated' = aggregated
      BY <1>1 DEF Read, outVars
    <2>2. returned' = {} /\ aggregated' = [g \in Position |-> {}]
      BY <2>1 DEF ResultInv, TypeOK
    <2> QED  BY <2>1, <2>2 DEF ResultInv
  <1>2. CASE EndOfInputLong
    <2>1. /\ aggregated' = [g \in Position |-> IF flagEnabled[g] = 1 THEN ToSet(tuples[g]) ELSE {}]
          /\ flagEnabled' = [g \in Position |-> IF flagEnabled[g] = 1 THEN 2 ELSE 0]
          /\ returned' = {} /\ Group' = Group
          /\ numbertuples' = numbertuples /\ numbertuples > 2 /\ numbertuples \in Nat
      BY <1>2 DEF EndOfInputLong, ResultInv, Group, TypeOK
    <2>2. ASSUME NEW g \in Group, flagEnabled'[g] # 0 PROVE aggregated'[g] # {}
      <3>1. flagEnabled[g] = 1 /\ aggregated'[g] = ToSet(tuples[g])
        BY <1>0, <2>1, <2>2
      <3>2. tuples[g] # <<>> /\ tuples[g] \in Seq(Nat)
        BY <1>0, <3>1, TypeFacts DEF InUseIffMembers
      <3>3. tuples[g][1] \in ToSet(tuples[g])
        BY <3>2 DEF ToSet
      <3> QED  BY <3>1, <3>3
    <2>3. ~(numbertuples' <= 2) /\ pc' # "fill"
      BY <1>2, <2>1 DEF EndOfInputLong
    <2>4. \A g \in Group' : flagEnabled'[g] # 0 => aggregated'[g] # {}
      BY <2>1, <2>2
    <2> QED  BY <2>1, <2>3, <2>4, Zenon DEF ResultInv
  <1>3. CASE EndOfInputShort
    <2>1. /\ returned' = {} /\ aggregated' = aggregated /\ Group' = Group
          /\ numbertuples' = numbertuples /\ numbertuples <= 2 /\ numbertuples \in Nat
      BY <1>3 DEF EndOfInputShort, ResultInv, groupVars, Group, TypeOK
    <2>2. aggregated' = [g \in Position |-> {}] /\ ~(numbertuples' > 2)
      BY <2>1 DEF ResultInv
    <2> QED  BY <2>1, <2>2 DEF ResultInv
  <1>4. CASE RetrieveEntry
    <2>1. PICK g \in Group : returned' = IF flagEnabled[g] = 0 THEN returned ELSE returned \cup {g}
      BY <1>4 DEF RetrieveEntry
    <2>2. /\ pc = "retrieve" /\ Group' = Group
          /\ UNCHANGED <<pc, flagEnabled, aggregated, numbertuples>>
      BY <1>4 DEF RetrieveEntry, groupVars, Group
    <2> QED  BY <2>1, <2>2 DEF ResultInv
  <1>5. CASE RetrieveEnd \/ ReScanSame
    <2>1. /\ pc # "fill" /\ pc' # "fill" /\ Group' = Group
          /\ UNCHANGED <<flagEnabled, aggregated, numbertuples>>
          /\ returned' = returned \/ returned' = {}
      BY <1>5 DEF RetrieveEnd, ReScanSame, groupVars, outVars, Group
    <2> QED  BY <2>1 DEF ResultInv
  <1>6. CASE UNCHANGED vars
    BY <1>6 DEF vars, groupVars, outVars, ResultInv, Group
  <1>7. ASSUME NEW t \in Tuple, NEW h, NEW A, NEW T, FillStep(t, h, A, T) PROVE Read(t)
    BY <1>7 DEF FillStep, Handle, NewGroup, NewTmpGroup, KeyTaken, JoinGroup, Withhold
  <1> QED  BY <1>1, <1>2, <1>3, <1>4, <1>5, <1>6, <1>7 DEF Next

(* A group that NEW_GROUP returns has aggregated members exactly if the    *)
(* input had more than two tuples, for every input: no group that cuts     *)
(* emptied is returned, and a short input is never aggregated.             *)
THEOREM AggregatedTheorem == Spec => []AggregatedIffLong
  <1>1. Init => ResultInv
    BY DEF Init, ResultInv
  <1>2. TypeOK /\ ResultInv => AggregatedIffLong
    <2> SUFFICES ASSUME TypeOK, ResultInv, NEW g \in returned
                 PROVE  aggregated[g] # {} <=> numbertuples > 2
      BY DEF AggregatedIffLong
    <2>1. g \in Group /\ g \in Position /\ pc # "fill" /\ flagEnabled[g] # 0
      BY TypeFacts DEF ResultInv
    <2>2. CASE numbertuples > 2
      BY <2>1, <2>2 DEF ResultInv
    <2>3. CASE ~(numbertuples > 2)
      <3>1. numbertuples <= 2
        BY <2>3 DEF TypeOK
      <3> QED  BY <2>1, <2>3, <3>1 DEF ResultInv
    <2> QED  BY <2>2, <2>3
  <1> QED  BY <1>1, <1>2, TypeInit, TypeStep, ResultStep, PTL DEF Spec
-----------------------------------------------------------------------------
(* The column i of the box of g holds v and is within EPS of it.           *)
Snug(g, i, v) ==
    /\ pivot1[g][i] <= v /\ v <= pivot2[g][i]
    /\ v - EPS <= pivot1[g][i] /\ pivot2[g][i] <= v + EPS

(* The R-tree has the box of every group.                                  *)
Mirror == \A g \in Group : rtree[g] = getMBRHashEntry(pivot1[g], pivot2[g])

(* The box of a group holds its members and is within EPS of each.         *)
BoxSound ==
    \A g \in Group : \A p \in Members(g) : \A i \in Cols : Snug(g, i, input[p][i])

(* The box of a group, an emptied one too, is within EPS of the tuple that *)
(* founded the group.                                                      *)
AnchoredAt(g, p) ==
    \A i \in Cols : input[p][i] - EPS <= pivot1[g][i] /\ pivot2[g][i] <= input[p][i] + EPS

Anchored == \A g \in Group : \E p \in 1 .. numbertuples : AnchoredAt(g, p)

Apart == \A g, h \in Group : g # h => Members(g) \cap Members(h) = {}

(* Narrowing a box to a tuple inside it leaves the box snug for a value it *)
(* was snug for, and makes it snug for the tuple.                          *)
LEMMA NarrowedBox ==
    ASSUME TypeOK, NEW t \in Tuple, NEW A, A \subseteq ContainArray(t), Narrowed(A, t),
           NEW g \in Group, NEW i \in Cols
    PROVE  /\ pivot1[g][i] <= pivot1'[g][i] /\ pivot2'[g][i] <= pivot2[g][i]
           /\ pivot1'[g][i] \in Int /\ pivot2'[g][i] \in Int
           /\ g \in A => Snug(g, i, t[i])'
           /\ \A v \in Int : Snug(g, i, v) => Snug(g, i, v)'
  <1>1. /\ pivot1[g][i] \in Int /\ pivot2[g][i] \in Int /\ t[i] \in Int /\ EPS \in Nat /\ EPS > 0
        /\ g \in Position
    BY TypeFacts, Consts
  <1>2. PICK lo, hi, x : lo = pivot1[g][i] /\ hi = pivot2[g][i] /\ x = t[i]
    OBVIOUS
  <1>3. lo \in Int /\ hi \in Int /\ x \in Int
    BY <1>1, <1>2
  <1>4. CASE g \in A
    <2>1. lo <= x /\ x <= hi
      BY <1>2, <1>4 DEF ContainArray, InBound
    <2>2. pivot1'[g][i] = NewLow(lo, hi, x) /\ pivot2'[g][i] = NewHigh(lo, hi, x)
      BY <1>1, <1>2, <1>4 DEF Narrowed, JoinedLow, JoinedHigh
    <2>3. PICK low, high : low = NewLow(lo, hi, x) /\ high = NewHigh(lo, hi, x)
      OBVIOUS
    <2>4. /\ low \in Int /\ high \in Int /\ lo <= low /\ high <= hi /\ low <= x /\ x <= high
          /\ x - EPS <= low /\ high <= x + EPS
          /\ low = lo \/ low = x - EPS
          /\ high = hi \/ high = x + EPS
      BY <1>1, <1>3, <2>1, <2>3 DEF NewLow, NewHigh, Width
    <2>5. ASSUME NEW v \in Int, lo <= v, v <= hi, v - EPS <= lo, hi <= v + EPS
          PROVE  low <= v /\ v <= high /\ v - EPS <= low /\ high <= v + EPS
      BY <1>1, <1>3, <2>1, <2>4, <2>5
    <2>6. \A v \in Int : Snug(g, i, v) => Snug(g, i, v)'
      BY <1>2, <2>2, <2>3, <2>5 DEF Snug
    <2>7. Snug(g, i, t[i])'
      BY <1>2, <2>2, <2>3, <2>4 DEF Snug
    <2> QED  BY <1>2, <2>2, <2>3, <2>4, <2>6, <2>7
  <1>5. CASE g \notin A
    <2>1. pivot1'[g] = pivot1[g] /\ pivot2'[g] = pivot2[g]
      BY <1>1, <1>5 DEF Narrowed
    <2> QED  BY <1>1, <1>5, <2>1 DEF Snug
  <1> QED  BY <1>4, <1>5

BoxInv == Mirror /\ BoxSound /\ Anchored /\ Apart

LEMMA StayKeepsBoxes ==
    ASSUME TypeOK, BoxInv, NEW t \in Tuple, NEW r, NEW A, NEW D, StayStep(t, r, A, D)
    PROVE  BoxInv'
  <1>1. PICK n : n = numbertuples + 1
    OBVIOUS
  <1>2. /\ Read(t) /\ Lists(t, r) /\ Taken(t, A, D) /\ Narrowed(A, t)
        /\ A \subseteq ContainArray(t) /\ D \subseteq A /\ \A g, h \in D : g = h
    BY DEF StayStep, Taken
  <1>3. Group \subseteq Position /\ Group' = Group
    BY StayFacts, <1>1, TypeFacts
  <1>4. /\ numbertuples' = n /\ 1 .. numbertuples' = (1 .. numbertuples) \cup {n}
        /\ n \notin 1 .. numbertuples /\ input'[n] = t
        /\ \A p \in 1 .. numbertuples : input'[p] = input[p]
        /\ \A g \in Position : Members(g) = ToSet(tuples[g]) /\ Members(g)' = ToSet(tuples'[g])
        /\ \A g \in Position : n \notin ToSet(tuples[g])
    BY <1>1, <1>2, ReadFacts
  <1>5. ASSUME NEW g \in Position
        PROVE  Members(g)' \subseteq IF g \in D THEN Members(g) \cup {n} ELSE Members(g)
    <2>1. ToSet(tuples'[g]) = IF g \in D THEN ToSet(r[g]) \cup {n} ELSE ToSet(r[g])
      BY <1>1, StayFacts
    <2>2. ToSet(r[g]) \subseteq ToSet(tuples[g])
      BY <1>2 DEF Lists
    <2> QED  BY <1>4, <2>1, <2>2
  <1>6. ASSUME NEW g \in Position, NEW p \in Members(g)
        PROVE  p \in 1 .. numbertuples /\ input'[p] = input[p] /\ p # n
    BY <1>4, TypeFacts
  <1>7. Mirror'
    BY <1>2, <1>3 DEF BoxInv, Mirror, Narrowed
  <1>8. BoxSound'
    <2> SUFFICES ASSUME NEW g \in Group, NEW p \in Members(g)', NEW i \in Cols
                 PROVE  Snug(g, i, input[p][i])'
      BY <1>3 DEF BoxSound
    <2>1. CASE p \in Members(g)
      <3>1. PICK v : v = input[p][i]
        OBVIOUS
      <3>2. input'[p][i] = v /\ v \in Int
        BY <1>3, <1>6, <2>1, <3>1, TypeFacts
      <3>3. Snug(g, i, v)
        BY <2>1, <3>1 DEF BoxInv, BoxSound
      <3>4. Snug(g, i, v)'
        BY <1>2, <3>2, <3>3, NarrowedBox
      <3> QED  BY <3>2, <3>4 DEF Snug
    <2>2. CASE p \notin Members(g)
      <3>1. g \in D /\ p = n
        BY <1>3, <1>5, <2>2
      <3>2. Snug(g, i, t[i])'
        BY <1>2, <3>1, NarrowedBox
      <3>3. input'[p][i] = t[i]
        BY <1>4, <3>1
      <3> QED  BY <3>2, <3>3 DEF Snug
    <2> QED  BY <2>1, <2>2
  <1>9. Anchored'
    <2> SUFFICES ASSUME NEW g \in Group PROVE \E p \in 1 .. numbertuples' : AnchoredAt(g, p)'
      BY <1>3 DEF Anchored
    <2>1. PICK p \in 1 .. numbertuples : AnchoredAt(g, p)
      BY DEF BoxInv, Anchored
    <2>2. p \in 1 .. numbertuples' /\ input'[p] = input[p]
      BY <1>4
    <2>3. ASSUME NEW i \in Cols
          PROVE  input'[p][i] - EPS <= pivot1'[g][i] /\ pivot2'[g][i] <= input'[p][i] + EPS
      <3>1. input[p][i] \in Int /\ EPS \in Nat /\ pivot1[g][i] \in Int /\ pivot2[g][i] \in Int
        BY TypeFacts, Consts
      <3>2. input[p][i] - EPS <= pivot1[g][i] /\ pivot2[g][i] <= input[p][i] + EPS
        BY <2>1 DEF AnchoredAt
      <3>3. /\ pivot1[g][i] <= pivot1'[g][i] /\ pivot2'[g][i] <= pivot2[g][i]
            /\ pivot1'[g][i] \in Int /\ pivot2'[g][i] \in Int
        BY <1>2, NarrowedBox
      <3> QED  BY <2>2, <3>1, <3>2, <3>3
    <2> QED  BY <2>2, <2>3 DEF AnchoredAt
  <1>10. Apart'
    <2> SUFFICES ASSUME NEW g \in Group, NEW h \in Group, g # h, NEW p,
                        p \in Members(g)', p \in Members(h)'
                 PROVE  FALSE
      BY <1>3 DEF Apart
    <2>1. g \notin D \/ h \notin D
      BY <1>2
    <2>2. Members(g) \cap Members(h) = {}
      BY DEF BoxInv, Apart
    <2>3. g \in Position /\ h \in Position
      BY <1>3
    <2> QED  BY <1>5, <1>6, <2>1, <2>2, <2>3
  <1> QED  BY <1>7, <1>8, <1>9, <1>10 DEF BoxInv

LEMMA FoundKeepsBoxes ==
    ASSUME TypeOK, BoxInv, NEW t \in Tuple, NEW r, NEW lo, NEW hi, FoundStep(t, r, lo, hi)
    PROVE  BoxInv'
  <1>1. PICK n : n = numbertuples + 1
    OBVIOUS
  <1>2. PICK m : m = indexhasharray + 1
    OBVIOUS
  <1>3. Read(t) /\ Lists(t, r) /\ AroundTuple(t, lo, hi)
    BY DEF FoundStep
  <1>4. /\ Group' = Group \cup {m} /\ m \notin Group /\ m \in Position /\ Group \subseteq Position
        /\ ToSet(tuples'[m]) = {n}
        /\ \A g \in Group : g # m /\ ToSet(tuples'[g]) = ToSet(r[g])
    BY <1>1, <1>2, FoundFacts, TypeFacts
  <1>5. /\ 1 .. numbertuples' = (1 .. numbertuples) \cup {n} /\ input'[n] = t
        /\ \A p \in 1 .. numbertuples : input'[p] = input[p]
        /\ \A g \in Position : Members(g) = ToSet(tuples[g]) /\ Members(g)' = ToSet(tuples'[g])
        /\ \A g \in Position : n \notin ToSet(tuples[g])
    BY <1>1, <1>3, ReadFacts
  <1>6. /\ \A g \in Group : Members(g)' \subseteq Members(g)
        /\ Members(m)' = {n}
    BY <1>3, <1>4, <1>5 DEF Lists
  <1>7. ASSUME NEW g \in Group, NEW p \in Members(g)
        PROVE  input'[p] = input[p] /\ p # n
    BY <1>4, <1>5, TypeFacts
  <1>8. /\ pivot1'[m] = lo /\ pivot2'[m] = hi /\ rtree'[m] = getMBRHashEntry(lo, hi)
        /\ \A g \in Group : pivot1'[g] = pivot1[g] /\ pivot2'[g] = pivot2[g] /\ rtree'[g] = rtree[g]
    BY <1>2, <1>4 DEF FoundStep
  <1>9. Mirror'
    BY <1>4, <1>8 DEF BoxInv, Mirror
  <1>10. BoxSound'
    <2> SUFFICES ASSUME NEW g \in Group', NEW p \in Members(g)', NEW i \in Cols
                 PROVE  Snug(g, i, input[p][i])'
      BY DEF BoxSound
    <2>1. CASE g \in Group
      <3>1. Snug(g, i, input[p][i])
        BY <1>6, <2>1 DEF BoxInv, BoxSound
      <3>2. input'[p] = input[p]
        BY <1>6, <1>7, <2>1
      <3> QED  BY <1>8, <2>1, <3>1, <3>2 DEF Snug
    <2>2. CASE g = m
      <3>1. p = n /\ input'[p] = t
        BY <1>5, <1>6, <2>2
      <3> QED  BY <1>3, <1>8, <2>2, <3>1 DEF Snug, AroundTuple
    <2> QED  BY <1>4, <2>1, <2>2
  <1>11. Anchored'
    <2> SUFFICES ASSUME NEW g \in Group' PROVE \E p \in 1 .. numbertuples' : AnchoredAt(g, p)'
      BY DEF Anchored
    <2>1. CASE g \in Group
      <3>1. PICK p \in 1 .. numbertuples : AnchoredAt(g, p)
        BY <2>1 DEF BoxInv, Anchored
      <3>2. AnchoredAt(g, p)'
        BY <1>5, <1>8, <2>1, <3>1 DEF AnchoredAt
      <3> QED  BY <1>5, <3>2
    <2>2. CASE g = m
      <3>1. AnchoredAt(g, n)'
        BY <1>3, <1>5, <1>8, <2>2 DEF AnchoredAt, AroundTuple
      <3> QED  BY <1>5, <3>1
    <2> QED  BY <1>4, <2>1, <2>2
  <1>12. Apart'
    <2> SUFFICES ASSUME NEW g \in Group', NEW h \in Group', g # h, NEW p,
                        p \in Members(g)', p \in Members(h)'
                 PROVE  FALSE
      BY DEF Apart
    <2>1. CASE g \in Group /\ h \in Group
      BY <1>6, <2>1 DEF BoxInv, Apart
    <2>2. CASE g = m \/ h = m
      BY <1>4, <1>6, <1>7, <2>2
    <2> QED  BY <1>4, <2>1, <2>2
  <1> QED  BY <1>9, <1>10, <1>11, <1>12 DEF BoxInv

LEMMA QuietKeepsBoxes ==
    ASSUME TypeOK, BoxInv, QuietStep
    PROVE  BoxInv'
  <1>1. /\ UNCHANGED <<indexhasharray, pivot1, pivot2, rtree, numbertuples, input>>
        /\ \A g \in Position : Members(g)' = Members(g)
    BY DEF QuietStep
  <1>2. Group' = Group /\ Group \subseteq Position
    BY <1>1, TypeFacts DEF Group
  <1>3. Mirror'
    BY <1>1, <1>2 DEF BoxInv, Mirror
  <1>4. BoxSound'
    BY <1>1, <1>2 DEF BoxInv, BoxSound, Snug
  <1>5. Anchored'
    BY <1>1, <1>2 DEF BoxInv, Anchored, AnchoredAt
  <1>6. Apart'
    BY <1>1, <1>2 DEF BoxInv, Apart
  <1> QED  BY <1>3, <1>4, <1>5, <1>6 DEF BoxInv
LEMMA BoxInit == Init => BoxInv
  <1> SUFFICES ASSUME Init PROVE BoxInv
    OBVIOUS
  <1>1. indexhasharray = 0
    BY DEF Init
  <1>2. Group = {}
    BY <1>1 DEF Group
  <1> QED  BY <1>2 DEF BoxInv, Mirror, BoxSound, Anchored, Apart

LEMMA BoxStep == TypeOK /\ InUseIffMembers /\ BoxInv /\ [Next]_vars => BoxInv'
  BY StepKinds, StayKeepsBoxes, FoundKeepsBoxes, QuietKeepsBoxes

(* The R-tree has the box of every group and the box holds the members,    *)
(* for every input: phase 4 of the handler puts back all that phase 1 took *)
(* out, and narrowing a box never leaves a member outside.                 *)
THEOREM MirrorTheorem == Spec => []RTreeMirrorsBoxes
  <1>1. BoxInv => RTreeMirrorsBoxes
    BY DEF BoxInv, Mirror, BoxSound, Snug, RTreeMirrorsBoxes, InBound
  <1> QED  BY <1>1, TypeInit, TypeStep, BoxInit, BoxStep, PTL DEF Spec

LEMMA BoundMembers ==
    ASSUME TypeOK, BoxInv, NEW g \in Group, NEW p \in Members(g), NEW q \in Members(g)
    PROVE  WithinEPS(p, q)
  <1> SUFFICES ASSUME NEW i \in Cols PROVE Width(input[p][i], input[q][i]) <= EPS
    BY DEF WithinEPS
  <1>1. p \in 1 .. numbertuples /\ q \in 1 .. numbertuples
    <2>1. g \in Position
      BY TypeFacts
    <2>2. aggregated[g] \subseteq 1 .. numbertuples
      BY <2>1 DEF TypeOK
    <2> QED  BY <2>1, <2>2, TypeFacts DEF Members
  <1>2. input[p][i] \in Int /\ input[q][i] \in Int /\ EPS \in Nat
    BY <1>1, TypeFacts, Consts
  <1>3. pivot1[g][i] \in Int /\ pivot2[g][i] \in Int
    BY TypeFacts
  <1>4. Snug(g, i, input[p][i]) /\ Snug(g, i, input[q][i])
    BY DEF BoxInv, BoxSound
  <1> QED  BY <1>2, <1>3, <1>4 DEF Snug, Width

LEMMA CliqueNow == TypeOK /\ BoxInv => GroupsAreCliques
  BY BoundMembers DEF GroupsAreCliques

LEMMA CliqueNext == TypeOK' /\ BoxInv' => GroupsAreCliques'
  BY CliqueNow, PTL

(* Any two members of a group are within EPS of each other in each column, *)
(* for every input: a box that judgeJoinGroup or the temporary group of    *)
(* cut members leaves is within EPS of all members at once.                *)
THEOREM CliqueTheorem == Spec => []GroupsAreCliques
  BY CliqueNow, TypeInit, TypeStep, BoxInit, BoxStep, PTL DEF Spec

(* A list in increasing order has no element twice.                        *)
LEMMA IncreasingCounts ==
    ASSUME NEW s \in Seq(Nat), Increasing(s)
    PROVE  Cardinality(ToSet(s)) = Len(s)
  <1>1. Len(s) \in Nat /\ DOMAIN s = 1 .. Len(s)
    OBVIOUS
  <1>2. \A i \in 1 .. Len(s) : s[i] \in Nat /\ s[i] \in ToSet(s)
    BY <1>1 DEF ToSet
  <1>3. ASSUME NEW i \in 1 .. Len(s), NEW j \in 1 .. Len(s), s[i] = s[j] PROVE i = j
    <2>1. i < j => s[i] < s[j]
      BY <1>1 DEF Increasing
    <2>2. j < i => s[j] < s[i]
      BY <1>1 DEF Increasing
    <2>3. i \in Nat /\ j \in Nat /\ s[i] \in Nat /\ s[j] \in Nat
      BY <1>1, <1>2
    <2> QED  BY <1>3, <2>1, <2>2, <2>3
  <1>4. s \in [1 .. Len(s) -> ToSet(s)]
    <2>1. s = [i \in 1 .. Len(s) |-> s[i]]
      BY <1>1
    <2> QED  BY <1>2, <2>1
  <1>5. \A y \in ToSet(s) : \E i \in 1 .. Len(s) : s[i] = y
    BY <1>1 DEF ToSet
  <1>6. s \in Bijection(1 .. Len(s), ToSet(s))
    BY <1>3, <1>4, <1>5, Zenon DEF Bijection, Injection, Surjection, IsInjective
  <1>7. ExistsBijection(1 .. Len(s), ToSet(s))
    BY <1>6 DEF ExistsBijection
  <1> QED  BY <1>1, <1>7, FS_CountingElements

(* A tuple is in at most one group, and once in its list, for every input: *)
(* neither a tuple in the boxes of several groups nor one whose neighbours *)
(* are cut away is counted twice.                                          *)
THEOREM CountedTheorem == Spec => []CountedOnce
  <1>1. ASSUME TypeOK, BoxInv PROVE CountedOnce
    <2> SUFFICES ASSUME NEW g \in Group
                 PROVE  /\ \A h \in Group \ {g} : Members(g) \cap Members(h) = {}
                        /\ Cardinality(ToSet(tuples[g])) = Len(tuples[g])
      BY DEF CountedOnce
    <2>1. g \in Position
      BY <1>1, TypeFacts
    <2>2. tuples[g] \in Seq(Nat) /\ Increasing(tuples[g])
      BY <1>1, <2>1, TypeFacts
    <2>3. Cardinality(ToSet(tuples[g])) = Len(tuples[g])
      BY <2>2, IncreasingCounts
    <2>4. \A h \in Group \ {g} : Members(g) \cap Members(h) = {}
      BY <1>1 DEF BoxInv, Apart
    <2> QED  BY <2>3, <2>4
  <1> QED  BY <1>1, TypeInit, TypeStep, BoxInit, BoxStep, PTL DEF Spec
-----------------------------------------------------------------------------
LEMMA StayKeepsIsolated ==
    ASSUME TypeOK, BoxInv, IsolatedTuplesGrouped, BoxInv',
           NEW t \in Tuple, NEW r, NEW A, NEW D, StayStep(t, r, A, D),
           NEW p \in 1 .. numbertuples', p \notin collided', Isolated(p)'
    PROVE  \E g \in Group' : Members(g)' = {p}
  <1>1. PICK n : n = numbertuples + 1
    OBVIOUS
  <1>2. /\ Read(t) /\ Lists(t, r) /\ Taken(t, A, D) /\ collided \subseteq collided'
    BY DEF StayStep, Taken
  <1>3. Group \subseteq Position /\ Group' = Group /\ TypeOK'
    BY StayFacts, <1>1, TypeFacts
  <1>4. /\ numbertuples' = n /\ 1 .. numbertuples' = (1 .. numbertuples) \cup {n}
        /\ n \notin 1 .. numbertuples /\ input'[n] = t
        /\ \A q \in 1 .. numbertuples : input'[q] = input[q]
        /\ \A g \in Position : Members(g) = ToSet(tuples[g]) /\ Members(g)' = ToSet(tuples'[g])
        /\ \A g \in Position : n \notin ToSet(tuples[g])
    BY <1>1, <1>2, ReadFacts
  <1>5. \A q \in (1 .. numbertuples') \ {p} : ~WithinEPS(p, q)'
    BY DEF Isolated
  <1>6. ASSUME NEW q \in 1 .. numbertuples, NEW q2 \in 1 .. numbertuples, WithinEPS(q, q2)
        PROVE  WithinEPS(q, q2)'
    BY <1>4, <1>6 DEF WithinEPS
  <1>7. CASE p # n
    <2>1. p \in 1 .. numbertuples /\ p \notin collided
      BY <1>2, <1>4, <1>7
    <2>2. Isolated(p)
      BY <1>4, <1>5, <1>6, <2>1 DEF Isolated
    <2>3. PICK g \in Group : Members(g) = {p}
      BY <2>1, <2>2 DEF IsolatedTuplesGrouped
    <2>4. g \in Position /\ ToSet(tuples[g]) = {p}
      BY <1>3, <1>4, <2>3
    <2>5. p \in ToSet(r[g])
      <3> SUFFICES ASSUME p \notin ToSet(r[g]) PROVE FALSE
        OBVIOUS
      <3>1. Manhattan(input[p], t) <= EPS
        BY <1>2, <2>4 DEF Lists
      <3>2. input[p] \in [Cols -> Int] /\ t \in [Cols -> Int]
        BY <2>1, TypeFacts, Consts DEF TypeOK
      <3>3. \A i \in Cols : Width(input[p][i], t[i]) <= EPS
        BY <3>1, <3>2, ManhattanFacts
      <3>4. WithinEPS(p, n)'
        BY <1>4, <2>1, <3>3 DEF WithinEPS
      <3> QED  BY <1>4, <1>5, <1>7, <3>4
    <2>6. ToSet(r[g]) = {p}
      BY <1>2, <2>4, <2>5 DEF Lists
    <2>7. Members(g)' = IF g \in D THEN {p} \cup {n} ELSE {p}
      <3>1. ToSet(tuples'[g]) = IF g \in D THEN ToSet(r[g]) \cup {n} ELSE ToSet(r[g])
        BY <1>1, <2>4, StayFacts
      <3> QED  BY <1>4, <2>4, <2>6, <3>1
    <2>8. g \notin D
      <3> SUFFICES ASSUME g \in D PROVE FALSE
        OBVIOUS
      <3>1. p \in Members(g)' /\ n \in Members(g)' /\ g \in Group'
        BY <1>3, <2>7
      <3>2. WithinEPS(p, n)'
        BY <1>3, <3>1, CliqueNext DEF GroupsAreCliques
      <3> QED  BY <1>4, <1>5, <1>7, <3>2
    <2> QED  BY <1>3, <2>7, <2>8
  <1>8. CASE p = n
    <2>1. ~(\E q \in 1 .. numbertuples : \A i \in Cols : Width(t[i], input[q][i]) <= EPS)
      <3> SUFFICES ASSUME NEW q \in 1 .. numbertuples, \A i \in Cols : Width(t[i], input[q][i]) <= EPS
                   PROVE  FALSE
        OBVIOUS
      <3>1. WithinEPS(p, q)'
        BY <1>4, <1>8 DEF WithinEPS
      <3> QED  BY <1>4, <1>5, <1>8, <3>1
    <2>2. CASE ContainArray(t) # {}
      <3>1. PICK g \in Group : InBound(g, t)
        BY <2>2 DEF ContainArray
      <3>2. PICK q \in 1 .. numbertuples : AnchoredAt(g, q)
        BY DEF BoxInv, Anchored
      <3>3. ASSUME NEW i \in Cols PROVE Width(t[i], input[q][i]) <= EPS
        <4>1. /\ input[q][i] \in Int /\ t[i] \in Int /\ EPS \in Nat
              /\ pivot1[g][i] \in Int /\ pivot2[g][i] \in Int
          BY TypeFacts, Consts
        <4>2. /\ pivot1[g][i] <= t[i] /\ t[i] <= pivot2[g][i]
              /\ input[q][i] - EPS <= pivot1[g][i] /\ pivot2[g][i] <= input[q][i] + EPS
          BY <3>1, <3>2 DEF InBound, AnchoredAt
        <4> QED  BY <4>1, <4>2 DEF Width
      <3> QED  BY <2>1, <3>3
    <2>3. CASE Touched(OverlapSet(t), t) # {}
      <3>1. PICK g \in OverlapSet(t) : Near(tuples[g], t) # {}
        BY <2>3 DEF Touched
      <3>2. g \in Position
        BY <1>3 DEF OverlapSet
      <3>3. PICK k \in DOMAIN tuples[g] : Manhattan(input[tuples[g][k]], t) <= EPS
        BY <3>1 DEF Near, InsideBound_tuple
      <3>4. PICK q \in 1 .. numbertuples : q = tuples[g][k]
        BY <3>2, TypeFacts
      <3>5. input[q] \in [Cols -> Int] /\ t \in [Cols -> Int]
        BY TypeFacts, Consts DEF TypeOK
      <3>6. \A i \in Cols : Width(input[q][i], t[i]) <= EPS
        BY <3>3, <3>4, <3>5, ManhattanFacts
      <3>7. \A i \in Cols : Width(t[i], input[q][i]) <= EPS
        BY <3>5, <3>6, Consts DEF Width
      <3> QED  BY <2>1, <3>7
    <2> QED  BY <1>1, <1>2, <1>8, <2>2, <2>3 DEF Taken
  <1> QED  BY <1>7, <1>8
LEMMA FoundKeepsIsolated ==
    ASSUME TypeOK, IsolatedTuplesGrouped,
           NEW t \in Tuple, NEW r, NEW lo, NEW hi, FoundStep(t, r, lo, hi),
           NEW p \in 1 .. numbertuples', p \notin collided', Isolated(p)'
    PROVE  \E g \in Group' : Members(g)' = {p}
  <1>1. PICK n : n = numbertuples + 1
    OBVIOUS
  <1>2. PICK m : m = indexhasharray + 1
    OBVIOUS
  <1>3. Read(t) /\ Lists(t, r) /\ collided' = collided
    BY DEF FoundStep
  <1>4. /\ Group' = Group \cup {m} /\ m \in Position /\ Group \subseteq Position
        /\ ToSet(tuples'[m]) = {n}
        /\ \A g \in Group : ToSet(tuples'[g]) = ToSet(r[g])
    BY <1>1, <1>2, FoundFacts, TypeFacts
  <1>5. /\ 1 .. numbertuples' = (1 .. numbertuples) \cup {n} /\ n \notin 1 .. numbertuples
        /\ input'[n] = t
        /\ \A q \in 1 .. numbertuples : input'[q] = input[q]
        /\ \A g \in Position : Members(g) = ToSet(tuples[g]) /\ Members(g)' = ToSet(tuples'[g])
    BY <1>1, <1>3, ReadFacts
  <1>6. \A q \in (1 .. numbertuples') \ {p} : ~WithinEPS(p, q)'
    BY DEF Isolated
  <1>7. CASE p # n
    <2>1. p \in 1 .. numbertuples /\ p \notin collided
      BY <1>3, <1>5, <1>7
    <2>2. ASSUME NEW q \in 1 .. numbertuples, WithinEPS(p, q) PROVE WithinEPS(p, q)'
      BY <1>5, <2>1, <2>2 DEF WithinEPS
    <2>3. Isolated(p)
      BY <1>5, <1>6, <2>2 DEF Isolated
    <2>4. PICK g \in Group : Members(g) = {p}
      BY <2>1, <2>3 DEF IsolatedTuplesGrouped
    <2>5. g \in Position /\ ToSet(tuples[g]) = {p} /\ Members(g)' = ToSet(r[g])
      BY <1>4, <1>5, <2>4
    <2>6. p \in ToSet(r[g])
      <3> SUFFICES ASSUME p \notin ToSet(r[g]) PROVE FALSE
        OBVIOUS
      <3>1. Manhattan(input[p], t) <= EPS
        BY <1>3, <2>5 DEF Lists
      <3>2. input[p] \in [Cols -> Int] /\ t \in [Cols -> Int]
        BY <2>1, TypeFacts, Consts DEF TypeOK
      <3>3. \A i \in Cols : Width(input[p][i], t[i]) <= EPS
        BY <3>1, <3>2, ManhattanFacts
      <3>4. WithinEPS(p, n)'
        BY <1>5, <2>1, <3>3 DEF WithinEPS
      <3> QED  BY <1>5, <1>6, <1>7, <3>4
    <2>7. ToSet(r[g]) = {p}
      BY <1>3, <2>5, <2>6 DEF Lists
    <2> QED  BY <1>4, <2>5, <2>7
  <1>8. CASE p = n
    BY <1>4, <1>5, <1>8
  <1> QED  BY <1>7, <1>8

LEMMA QuietKeepsIsolated ==
    ASSUME TypeOK, IsolatedTuplesGrouped, QuietStep
    PROVE  IsolatedTuplesGrouped'
  <1>1. /\ UNCHANGED <<indexhasharray, numbertuples, input, collided>>
        /\ \A g \in Position : Members(g)' = Members(g)
    BY DEF QuietStep
  <1>2. Group' = Group /\ Group \subseteq Position
    BY <1>1, TypeFacts DEF Group
  <1>3. ASSUME NEW p PROVE Isolated(p)' => Isolated(p)
    BY <1>1 DEF Isolated, WithinEPS
  <1> QED  BY <1>1, <1>2, <1>3 DEF IsolatedTuplesGrouped

LEMMA IsolatedStep ==
    TypeOK /\ InUseIffMembers /\ BoxInv /\ IsolatedTuplesGrouped /\ [Next]_vars
        => IsolatedTuplesGrouped'
  <1> SUFFICES ASSUME TypeOK, InUseIffMembers, BoxInv, IsolatedTuplesGrouped, [Next]_vars
               PROVE  IsolatedTuplesGrouped'
    OBVIOUS
  <1>1. BoxInv'
    BY BoxStep
  <1>2. ASSUME NEW t \in Tuple, NEW r, NEW lo, NEW hi, FoundStep(t, r, lo, hi)
        PROVE  IsolatedTuplesGrouped'
    BY <1>2, FoundKeepsIsolated DEF IsolatedTuplesGrouped
  <1>3. ASSUME NEW t \in Tuple, NEW r, NEW A, NEW D, StayStep(t, r, A, D)
        PROVE  IsolatedTuplesGrouped'
    BY <1>1, <1>3, StayKeepsIsolated DEF IsolatedTuplesGrouped
  <1> QED  BY <1>2, <1>3, StepKinds, QuietKeepsIsolated

(* A tuple with no other within EPS has a group of its own for good unless *)
(* its random key collided, for every input: no box, not even the one an   *)
(* emptied group leaves in the R-tree, takes a tuple away that is far from *)
(* all others.                                                             *)
THEOREM IsolatedTheorem == Spec => []IsolatedTuplesGrouped
  <1>1. Init => IsolatedTuplesGrouped
    <2> SUFFICES ASSUME Init PROVE IsolatedTuplesGrouped
      OBVIOUS
    <2>1. numbertuples = 0
      BY DEF Init
    <2>2. (1 .. numbertuples) \ collided = {}
      BY <2>1
    <2> QED  BY <2>2 DEF IsolatedTuplesGrouped
  <1> QED  BY <1>1, IsolatedStep, TypeInit, TypeStep, BoxInit, BoxStep, PTL DEF Spec
-----------------------------------------------------------------------------
(* What a step of the fill phase may do to the member lists.               *)
LEMMA CutStep ==
    ASSUME TypeOK, InUseIffMembers, [Next]_vars, pc' = "fill", NEW g \in Group
    PROVE  /\ ToSet(tuples'[g]) \subseteq ToSet(tuples[g]) \cup {numbertuples'}
           /\ \A p \in ToSet(tuples[g]) \ ToSet(tuples'[g]) :
                  Manhattan(input[p], input'[numbertuples']) <= EPS
  <1>1. PICK n : n = numbertuples + 1
    OBVIOUS
  <1>2. g \in Position
    BY TypeFacts
  <1>3. ASSUME NEW t \in Tuple, NEW r, NEW lo, NEW hi, FoundStep(t, r, lo, hi)
        PROVE  /\ ToSet(tuples'[g]) \subseteq ToSet(tuples[g]) \cup {numbertuples'}
               /\ \A p \in ToSet(tuples[g]) \ ToSet(tuples'[g]) :
                      Manhattan(input[p], input'[numbertuples']) <= EPS
    <2>1. Read(t) /\ Lists(t, r)
      BY <1>3 DEF FoundStep
    <2>2. numbertuples' = n /\ input'[n] = t
      BY <1>1, <2>1, ReadFacts
    <2>3. ToSet(tuples'[g]) = ToSet(r[g])
      BY <1>1, <1>3, FoundFacts
    <2> QED  BY <1>2, <2>1, <2>2, <2>3 DEF Lists
  <1>4. ASSUME NEW t \in Tuple, NEW r, NEW A, NEW D, StayStep(t, r, A, D)
        PROVE  /\ ToSet(tuples'[g]) \subseteq ToSet(tuples[g]) \cup {numbertuples'}
               /\ \A p \in ToSet(tuples[g]) \ ToSet(tuples'[g]) :
                      Manhattan(input[p], input'[numbertuples']) <= EPS
    <2>1. Read(t) /\ Lists(t, r)
      BY <1>4 DEF StayStep
    <2>2. numbertuples' = n /\ input'[n] = t
      BY <1>1, <2>1, ReadFacts
    <2>3. ToSet(tuples'[g]) = IF g \in D THEN ToSet(r[g]) \cup {n} ELSE ToSet(r[g])
      BY <1>1, <1>2, <1>4, StayFacts
    <2> QED  BY <1>2, <2>1, <2>2, <2>3 DEF Lists
  <1> QED  BY <1>3, <1>4, StepKinds

(* A step takes a tuple out of a list only if the tuple read is within EPS *)
(* of it by the metric, and enters no tuple but that one, for every input. *)
THEOREM CutTheorem == Spec => OnlyNearTuplesCut
  <1>1. TypeOK /\ InUseIffMembers /\ [Next]_vars
          => [pc' = "fill" =>
                 \A g \in Group :
                     /\ ToSet(tuples'[g]) \subseteq ToSet(tuples[g]) \cup {numbertuples'}
                     /\ \A p \in ToSet(tuples[g]) \ ToSet(tuples'[g]) :
                            Manhattan(input[p], input'[numbertuples']) <= EPS]_vars
    BY CutStep
  <1> QED  BY <1>1, TypeInit, TypeStep, PTL DEF Spec, OnlyNearTuplesCut
=============================================================================
