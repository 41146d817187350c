-------------------------- MODULE SGBAllLtwoProofs --------------------------
(***************************************************************************)
(* Proofs about SGB-All with METRIC LTWO, for any input, EPS and either    *)
(* overlap clause. The operators on rings are shown to keep a ring a       *)
(* sequence over any set that holds its vertices and the point added; what *)
(* the hulls consist of follows by the choice of that set.                 *)
(***************************************************************************)
EXTENDS SGBAllLtwo, SGBAllProofs, InductionLemmas, SequenceTheorems

LEMMA LeastOf ==
    ASSUME NEW S \in SUBSET Nat, S # {}
    PROVE  Min(S) \in S /\ \A m \in S : Min(S) <= m
  <1>1. \E n \in S : \A m \in S : n <= m
    BY LeastNatural
  <1> QED  BY <1>1 DEF Min

LEMMA GreatestOf ==
    ASSUME NEW n \in Nat, NEW S \in SUBSET (1 .. n), S # {}
    PROVE  Max(S) \in S
  <1>1. S \in SUBSET Nat /\ \A m \in S : m <= n
    OBVIOUS
  <1>2. \E x \in S : \A m \in S : m <= x
    BY <1>1, GreatestNatural
  <1>3. \E x \in S : \A m \in S : x >= m
    BY <1>1, <1>2
  <1> QED  BY <1>3 DEF Max

LEMMA SeqOver ==
    ASSUME NEW X, NEW h \in Seq(X), NEW S, \A k \in 1 .. Len(h) : h[k] \in S
    PROVE  h \in Seq(S)
  <1>1. PICK n \in Nat : n = Len(h)
    OBVIOUS
  <1>2. h = [k \in 1 .. n |-> h[k]]
    BY <1>1
  <1>3. h \in [1 .. n -> S]
    BY <1>1, <1>2
  <1> QED  BY <1>3, SeqDef

(* The ring that starts elsewhere has the same vertices.                   *)
LEMMA FromFacts ==
    ASSUME NEW S, NEW h \in Seq(S), NEW k \in 1 .. Len(h) + 1
    PROVE  /\ From(h, k) \in Seq(S) /\ Len(From(h, k)) = Len(h)
           /\ \A j \in 1 .. Len(h) : \E i \in 1 .. Len(h) : From(h, k)[i] = h[j]
  <1>1. /\ Len(h) \in Nat /\ k \in Int /\ k - 1 \in Int /\ 1 <= k /\ k <= Len(h) + 1
        /\ \A i \in 1 .. Len(h) : h[i] \in S
    OBVIOUS
  <1>2. PICK a : a = SubSeq(h, k, Len(h))
    OBVIOUS
  <1>3. PICK b : b = SubSeq(h, 1, k - 1)
    OBVIOUS
  <1>4. /\ a \in Seq(S) /\ Len(a) = Len(h) - k + 1
        /\ \A i \in 1 .. Len(h) - k + 1 : a[i] = h[k + i - 1]
    <2>1. \A i \in k .. Len(h) : h[i] \in S
      BY <1>1
    <2>2. /\ a \in Seq(S) /\ Len(a) = IF k <= Len(h) THEN Len(h) - k + 1 ELSE 0
          /\ \A i \in 1 .. Len(h) - k + 1 : a[i] = h[k + i - 1]
      BY <1>1, <1>2, <2>1, SubSeqProperties
    <2> QED  BY <1>1, <2>2
  <1>5. /\ b \in Seq(S) /\ Len(b) = k - 1
        /\ \A i \in 1 .. k - 1 : b[i] = h[i]
    <2>1. \A i \in 1 .. k - 1 : h[i] \in S
      BY <1>1
    <2>2. /\ b \in Seq(S) /\ Len(b) = IF 1 <= k - 1 THEN (k - 1) - 1 + 1 ELSE 0
          /\ \A i \in 1 .. (k - 1) - 1 + 1 : b[i] = h[1 + i - 1]
      BY <1>1, <1>3, <2>1, SubSeqProperties
    <2> QED  BY <1>1, <2>2
  <1>6. /\ a \o b \in Seq(S) /\ Len(a \o b) = Len(a) + Len(b)
        /\ \A i \in 1 .. Len(a) + Len(b) :
              (a \o b)[i] = IF i <= Len(a) THEN a[i] ELSE b[i - Len(a)]
    BY <1>4, <1>5, ConcatProperties
  <1>7. From(h, k) = a \o b /\ Len(a) + Len(b) = Len(h)
    <2>1. From(h, k) = a \o b
      BY <1>2, <1>3 DEF From
    <2>2. Len(a) + Len(b) = Len(h)
      BY <1>1, <1>4, <1>5
    <2> QED  BY <2>1, <2>2
  <1>8. ASSUME NEW j \in 1 .. Len(h) PROVE \E i \in 1 .. Len(h) : From(h, k)[i] = h[j]
    <2>1. CASE j < k
      <3>1. /\ j + Len(a) \in 1 .. Len(h) /\ ~(j + Len(a) <= Len(a))
            /\ j + Len(a) - Len(a) = j /\ j \in 1 .. k - 1
        BY <1>1, <1>4, <2>1
      <3>2. (a \o b)[j + Len(a)] = h[j]
        BY <1>5, <1>6, <1>7, <3>1
      <3> QED  BY <1>7, <3>1, <3>2
    <2>2. CASE ~(j < k)
      <3>1. /\ j - k + 1 \in 1 .. Len(h) /\ j - k + 1 <= Len(a)
            /\ j - k + 1 \in 1 .. Len(h) - k + 1 /\ k + (j - k + 1) - 1 = j
        BY <1>1, <1>4, <2>2
      <3>2. (a \o b)[j - k + 1] = h[j]
        BY <1>4, <1>6, <1>7, <3>1
      <3> QED  BY <1>7, <3>1, <3>2
    <2> QED  BY <2>1, <2>2
  <1> QED  BY <1>6, <1>7, <1>8

(* Linking a point between two places of a ring enters no other point.     *)
LEMMA DeleteType ==
    ASSUME NEW S, NEW h \in Seq(S), NEW b \in 1 .. Len(h), NEW e \in 1 .. Len(h), NEW p \in S
    PROVE  delete_from_to_connect(h, b, e, p) \in Seq(S)
  <1>1. /\ Len(h) \in Nat /\ b \in Nat /\ e \in Nat /\ 1 <= b /\ b <= Len(h)
        /\ 1 <= e /\ e <= Len(h) /\ h[b] \in S
    OBVIOUS
  <1>2. PICK ring : ring = From(h, b)
    OBVIOUS
  <1>3. ring \in Seq(S) /\ Len(ring) = Len(h)
    BY <1>1, <1>2, FromFacts
  <1>4. PICK gone : gone = Cardinality(Between(h, b, e))
    OBVIOUS
  <1>5. /\ gone \in Nat
        /\ 1 \notin Between(h, b, e) => b + gone <= Len(h)
    <2>1. CASE b < e
      <3>1. Between(h, b, e) = b + 1 .. e - 1 /\ b + 1 \in Int /\ e - 1 \in Int
        BY <1>1, <2>1 DEF Between
      <3>2. Cardinality(b + 1 .. e - 1) = IF b + 1 > e - 1 THEN 0 ELSE (e - 1) - (b + 1) + 1
        BY <3>1, FS_Interval
      <3>3. gone = e - b - 1
        BY <1>1, <1>4, <2>1, <3>1, <3>2
      <3> QED  BY <1>1, <2>1, <3>3
    <2>2. CASE ~(b < e)
      <3>1. Between(h, b, e) = (b + 1 .. Len(h)) \cup (1 .. e - 1)
        BY <2>2 DEF Between
      <3>2. b + 1 \in Int /\ Len(h) \in Int /\ 1 \in Int /\ e - 1 \in Int
        BY <1>1
      <3>3. /\ IsFiniteSet(b + 1 .. Len(h)) /\ IsFiniteSet(1 .. e - 1)
            /\ Cardinality(b + 1 .. Len(h)) = IF b + 1 > Len(h) THEN 0 ELSE Len(h) - (b + 1) + 1
        BY <3>2, FS_Interval
      <3>4. IsFiniteSet(Between(h, b, e))
        <4>1. PICK X, Y : X = b + 1 .. Len(h) /\ Y = 1 .. e - 1
          OBVIOUS
        <4>2. IsFiniteSet(X \cup Y)
          BY <3>3, <4>1, FS_Union
        <4> QED  BY <3>1, <4>1, <4>2
      <3>5. gone \in Nat
        BY <1>4, <3>4, FS_CardinalityType
      <3>6. ASSUME 1 \notin Between(h, b, e) PROVE b + gone <= Len(h)
        <4>1. e = 1
          BY <1>1, <3>1, <3>6
        <4>2. Between(h, b, e) = b + 1 .. Len(h)
          BY <3>1, <4>1
        <4> QED  BY <1>1, <1>4, <3>3, <4>2
      <3> QED  BY <3>5, <3>6
    <2> QED  BY <2>1, <2>2
  <1>6. PICK rest : rest = SubSeq(ring, gone + 2, Len(ring))
    OBVIOUS
  <1>7. /\ rest \in Seq(S)
        /\ Len(rest) = IF gone + 2 <= Len(h) THEN Len(h) - (gone + 2) + 1 ELSE 0
    <2>1. gone + 2 \in Int /\ Len(ring) \in Int /\ \A i \in gone + 2 .. Len(ring) : ring[i] \in S
      BY <1>1, <1>3, <1>5
    <2> QED  BY <1>3, <1>6, <2>1, SubSeqProperties
  <1>8. PICK new : new = <<h[b], p>> \o rest
    OBVIOUS
  <1>9. new \in Seq(S) /\ Len(new) = 2 + Len(rest)
    <2>1. <<h[b], p>> \in Seq(S) /\ Len(<<h[b], p>>) = 2
      BY <1>1
    <2> QED  BY <1>7, <1>8, <2>1, ConcatProperties
  <1>10. delete_from_to_connect(h, b, e, p) =
            IF b = 1 \/ 1 \in Between(h, b, e) THEN new ELSE From(new, Len(new) - b + 2)
    BY <1>2, <1>4, <1>6, <1>8 DEF delete_from_to_connect
  <1>11. ASSUME b # 1, 1 \notin Between(h, b, e)
         PROVE  From(new, Len(new) - b + 2) \in Seq(S)
    <2>1. b + gone <= Len(h)
      BY <1>5, <1>11
    <2>2. Len(new) \in Nat /\ Len(new) + 1 >= b
      BY <1>1, <1>5, <1>7, <1>9, <2>1
    <2>3. Len(new) - b + 2 \in 1 .. Len(new) + 1
      BY <1>1, <2>2
    <2> QED  BY <1>9, <2>3, FromFacts
  <1> QED  BY <1>9, <1>10, <1>11

(* unionConvex enters no point but the one it is given.                    *)
LEMMA UnionType ==
    ASSUME NEW S, NEW h \in Seq(S), NEW p \in S, NEW u \in unionConvex(h, p)
    PROVE  u \in Seq(S)
  <1>1. Len(h) \in Nat /\ DOMAIN h = 1 .. Len(h)
    OBVIOUS
  <1>2. CASE Len(h) <= 2
    <2>1. u = Append(h, p)
      BY <1>2 DEF unionConvex
    <2> QED  BY <2>1
  <1>3. CASE ~(Len(h) <= 2)
    <2>1. PICK T : T = Tangents(h, p)
      OBVIOUS
    <2>2. T \subseteq 1 .. Len(h)
      BY <1>1, <2>1 DEF Tangents
    <2>3. CASE Cardinality(T) < 2
      BY <1>3, <2>1, <2>3 DEF unionConvex
    <2>4. CASE ~(Cardinality(T) < 2)
      <3>1. T # {}
        <4>1. Cardinality({}) = 0 /\ 0 < 2
          BY FS_EmptySet
        <4>2. T = {} => Cardinality(T) < 2
          BY <4>1
        <4> QED  BY <2>4, <4>2
      <3>2. Min(T) \in 1 .. Len(h) /\ Max(T) \in 1 .. Len(h)
        <4>1. T \in SUBSET Nat
          BY <1>1, <2>2
        <4> QED  BY <1>1, <2>2, <3>1, <4>1, LeastOf, GreatestOf
      <3>3. \A i \in 1 .. Len(h) : Walk(h)[i] \in 1 .. Len(h)
        <4>1. \A i \in 1 .. Len(h) : Walk(h)[i] = NextPlace(h, i)
          BY <1>1 DEF Walk
        <4>2. \A i \in 1 .. Len(h) : NextPlace(h, i) \in 1 .. Len(h)
          <5>1. PICK n \in Nat : n = Len(h)
            BY <1>1
          <5>2. \A i \in 1 .. n : (IF i = n THEN 1 ELSE i + 1) \in 1 .. n
            BY <5>1
          <5> QED  BY <5>1, <5>2 DEF NextPlace
        <4> QED  BY <4>1, <4>2
      <3>4. PICK b, e \in 1 .. Len(h) : b = Walk(h)[Min(T)] /\ e = Walk(h)[Max(T)]
        BY <3>2, <3>3
      <3>5. \/ u = delete_from_to_connect(h, b, e, p)
            \/ u = delete_from_to_connect(h, e, b, p)
        BY <1>3, <2>1, <2>4, <3>4 DEF unionConvex
      <3> QED  BY <3>5, DeleteType
    <2> QED  BY <2>3, <2>4
  <1> QED  BY <1>2, <1>3
-----------------------------------------------------------------------------
Point == [Cols -> Int]

LEMMA ConstsL2 ==
    /\ numCols = 2 /\ Cols = {1, 2}
    /\ EPS \in Nat /\ EPS > 0 /\ EPS * EPS \in Nat
    /\ \A t \in Tuple : t \in Point
    /\ \A p \in Point : p[1] \in Int /\ p[2] \in Int
    /\ Overlaps \subseteq {1, 3}
  <1>1. numCols = 2 /\ Cols = {1, 2} /\ Overlaps \subseteq {1, 3}
    BY SGBAllLtwoAssumption DEF Cols
  <1>2. EPS \in Nat /\ EPS > 0 /\ EPS * EPS \in Nat
    BY SGBAllAssumption
  <1> QED  BY <1>1, <1>2, SGBAllAssumption DEF Point

LEMMA DistFacts ==
    ASSUME NEW p \in Point, NEW q \in Point
    PROVE  /\ SquareDist(p, q) \in Nat /\ SquareDist(p, q) = SquareDist(q, p)
           /\ SquareDist(p, p) = 0
           /\ SquareDist(p, q) = 0 => p = q
  <1>1. p[1] \in Int /\ p[2] \in Int /\ q[1] \in Int /\ q[2] \in Int /\ Cols = {1, 2}
    BY ConstsL2
  <1>2. \A x \in Int : x * x \in Nat /\ (x * x = 0 => x = 0) /\ (-x) * (-x) = x * x
    OBVIOUS
  <1>3. PICK a, b \in Int : a = p[1] - q[1] /\ b = p[2] - q[2]
    BY <1>1
  <1>4. SquareDist(p, q) = a * a + b * b
    BY <1>3 DEF SquareDist
  <1>5. q[1] - p[1] = -a /\ q[2] - p[2] = -b
    BY <1>1, <1>3
  <1>6. SquareDist(q, p) = a * a + b * b
    BY <1>2, <1>5 DEF SquareDist
  <1>7. SquareDist(p, p) = 0
    <2>1. p[1] - p[1] = 0 /\ p[2] - p[2] = 0
      BY <1>1
    <2> QED  BY <2>1 DEF SquareDist
  <1>8. PICK aa, bb \in Nat : aa = a * a /\ bb = b * b
    BY <1>2
  <1>9. ASSUME SquareDist(p, q) = 0 PROVE p = q
    <2>1. aa = 0 /\ bb = 0
      BY <1>4, <1>8, <1>9
    <2>2. a = 0 /\ b = 0
      BY <1>2, <1>8, <2>1
    <2>3. p[1] = q[1] /\ p[2] = q[2]
      BY <1>1, <1>3, <2>2
    <2> QED  BY <1>1, <2>3 DEF Point
  <1> QED  BY <1>4, <1>6, <1>7, <1>8, <1>9

(* A point that may become a vertex is within EPS of every vertex.         *)
LEMMA JudgedNear ==
    ASSUME NEW h \in Seq(Point), NEW p \in Point,
           insideConvexAndInsideBound(h, p, EPS) = 1, NEW j \in 1 .. Len(h)
    PROVE  SquareDist(h[j], p) <= EPS * EPS
  <1>1. Len(h) \in Nat /\ Len(h) # 0 /\ h[j] \in Point
    OBVIOUS
  <1>2. CASE Len(h) = 1
    <2>1. j = 1
      BY <1>2
    <2>2. SquareDist(h[1], p) <= EPS * EPS
      BY <1>2 DEF insideConvexAndInsideBound
    <2> QED  BY <2>1, <2>2
  <1>3. CASE Len(h) # 1
    <2>1. PICK r : r = From(h, 2)
      OBVIOUS
    <2>2. /\ r \in Seq(Point) /\ Len(r) = Len(h)
          /\ \E i \in 1 .. Len(h) : r[i] = h[j]
      <3>1. 2 \in 1 .. Len(h) + 1
        BY <1>1, <1>3
      <3> QED  BY <2>1, <3>1, FromFacts
    <2>3. JudgeRing(r, p, EPS) = 1
      BY <1>1, <1>3, <2>1 DEF insideConvexAndInsideBound
    <2>4. Stops(r, p, EPS) = {}
      BY <2>3 DEF JudgeRing
    <2>5. PICK i \in DOMAIN r : r[i] = h[j]
      BY <2>2
    <2>6. ~(SquareDist(p, h[j]) > EPS * EPS)
      BY <2>4, <2>5 DEF Stops
    <2>7. SquareDist(p, h[j]) \in Nat /\ SquareDist(h[j], p) = SquareDist(p, h[j])
      BY <1>1, DistFacts
    <2> QED  BY <2>6, <2>7, ConstsL2
  <1> QED  BY <1>2, <1>3

(* A point that is a vertex of a ring whose vertices are near each other   *)
(* may join: the walk meets the vertex before any that is too far.         *)
LEMMA VertexJudged ==
    ASSUME NEW h \in Seq(Point), NEW j \in 1 .. Len(h),
           \A i, k \in 1 .. Len(h) : SquareDist(h[i], h[k]) <= EPS * EPS
    PROVE  insideConvexAndInsideBound(h, h[j], EPS) \in {0, 1}
  <1>1. Len(h) \in Nat /\ Len(h) # 0 /\ \A i \in 1 .. Len(h) : h[i] \in Point
    OBVIOUS
  <1>2. PICK p \in Point : p = h[j]
    BY <1>1
  <1>3. CASE Len(h) = 1
    <2>1. SquareDist(h[1], p) <= EPS * EPS
      BY <1>2, <1>3
    <2> QED  BY <1>2, <1>3, <2>1 DEF insideConvexAndInsideBound
  <1>4. CASE Len(h) # 1
    <2>1. PICK r : r = From(h, 2)
      OBVIOUS
    <2>2. /\ r \in Seq(Point) /\ Len(r) = Len(h)
          /\ \E i \in 1 .. Len(h) : r[i] = p
      <3>1. 2 \in 1 .. Len(h) + 1
        BY <1>1, <1>4
      <3> QED  BY <1>2, <2>1, <3>1, FromFacts
    <2>3. \A i \in 1 .. Len(r) : r[i] \in Point /\ SquareDist(p, r[i]) <= EPS * EPS
      <3> DEFINE V == {h[k] : k \in 1 .. Len(h)}
      <3>1. h \in Seq(V)
        <4>1. \A k \in 1 .. Len(h) : h[k] \in V
          OBVIOUS
        <4> HIDE DEF V
        <4> QED  BY <4>1, SeqOver
      <3>2. r \in Seq(V)
        <4>1. 2 \in 1 .. Len(h) + 1
          BY <1>1, <1>4
        <4> HIDE DEF V
        <4> QED  BY <2>1, <3>1, <4>1, FromFacts
      <3>3. \A i \in 1 .. Len(r) : r[i] \in V
        <4> HIDE DEF V
        <4> QED  BY <3>2
      <3>4. \A v \in V : v \in Point /\ SquareDist(p, v) <= EPS * EPS
        BY <1>1, <1>2
      <3> QED  BY <3>3, <3>4
    <2>4. PICK Z : Z = Stops(r, p, EPS)
      OBVIOUS
    <2>5. ASSUME NEW k \in Z PROVE k \in 1 .. Len(r) /\ p = r[k]
      <3>1. /\ k \in 1 .. Len(r)
            /\ SquareDist(p, r[k]) = 0 \/ SquareDist(p, r[k]) > EPS * EPS
        BY <2>2, <2>4, <2>5 DEF Stops
      <3>2. r[k] \in Point /\ SquareDist(p, r[k]) <= EPS * EPS /\ SquareDist(p, r[k]) \in Nat
        BY <2>3, <3>1, DistFacts
      <3>3. SquareDist(p, r[k]) = 0
        BY <3>1, <3>2, ConstsL2
      <3> QED  BY <3>1, <3>2, <3>3, DistFacts
    <2>6. Z # {}
      <3>1. PICK i \in DOMAIN r : r[i] = p
        BY <2>2
      <3>2. i \in Z
        BY <2>4, <3>1, DistFacts DEF Stops
      <3> QED  BY <3>2
    <2>7. Min(Z) \in Z
      <3>1. Z \in SUBSET Nat
        BY <2>2, <2>5
      <3> QED  BY <2>6, <3>1, LeastOf
    <2>8. JudgeRing(r, p, EPS) = 0
      BY <2>4, <2>5, <2>6, <2>7 DEF JudgeRing
    <2> QED  BY <1>1, <1>2, <1>4, <2>1, <2>8 DEF insideConvexAndInsideBound
  <1> QED  BY <1>3, <1>4
-----------------------------------------------------------------------------
(* The steps of SpecL2 by what they do to the hulls.                       *)
JoinStepL2(t, g) == UpdateStep(t, {g}, {g}) /\ AddToHull(g, t)

NewStepL2(t) == NewStep(t) /\ hull' = [hull EXCEPT ![indexhasharray + 1] = <<t>>]

KeptStepL2 ==
    /\ UNCHANGED hull
    /\ \/ \E t \in Tuple : DropStep(t) \/ \E C \in SUBSET Group : UpdateStep(t, C, {})
       \/ QuietStep

StepKindL2 ==
    \/ \E t \in Tuple : NewStepL2(t) \/ \E g \in Group : JoinStepL2(t, g)
    \/ KeptStepL2

LEMMA JoinableAccepting ==
    ASSUME NEW t, NEW H \in ContainArray(t)
    PROVE  /\ Joinable(H, t) \subseteq Accepting(t, Containing(t))
           /\ Joinable(H, t) \subseteq Group
  BY DEF Joinable, Accepting, ContainArray, Containing

LEMMA FillKindsL2 ==
    ASSUME TypeOK, NEW t \in Tuple, NEW H \in ContainArray(t), FillStepL2(t, H)
    PROVE  \/ NewStepL2(t) \/ \E g \in Group : JoinStepL2(t, g)
           \/ UNCHANGED hull /\ (DropStep(t) \/ \E C \in SUBSET Group : UpdateStep(t, C, {}))
  <1>1. /\ Joinable(H, t) \subseteq Accepting(t, Containing(t))
        /\ Joinable(H, t) \subseteq Group
    BY JoinableAccepting
  <1>2. ASSUME NEW g \in Joinable(H, t), Read(t), UpdateBounds({g}, t), AddMember(g),
               AddToHull(g, t), UNCHANGED <<indexhasharray, hashkey>>
        PROVE  g \in Group /\ JoinStepL2(t, g)
    <2>1. g \in Group /\ g \in Accepting(t, Containing(t))
      BY <1>1
    <2>2. members' = [x \in Position |-> IF x \in {g} THEN members[x] \cup {numread + 1}
                                                     ELSE members[x]]
      BY <1>2, <2>1, GroupsInPosition DEF AddMember, TypeOK
    <2> QED  BY <1>2, <2>1, <2>2 DEF JoinStepL2, UpdateStep
  <1>3. CASE JoinAnyL2(t, H)
    BY <1>2, <1>3 DEF JoinAnyL2
  <1>4. CASE JoinOnlyL2(t, H)
    <2>1. PICK g \in H : /\ Joinable(H, t) = {g}
                         /\ UpdateBounds({g}, t) /\ AddMember(g) /\ AddToHull(g, t)
      BY <1>4 DEF JoinOnlyL2
    <2> QED  BY <1>2, <1>4, <2>1 DEF JoinOnlyL2
  <1>5. CASE EliminateL2(t, H)
    <2>1. PICK C \in SUBSET Joinable(H, t) : UpdateBounds(C, t)
      BY <1>5 DEF EliminateL2
    <2>2. members' = [x \in Position |-> IF x \in {} THEN members[x] \cup {numread + 1}
                                                     ELSE members[x]]
      BY <1>5 DEF EliminateL2, TypeOK
    <2>3. UpdateStep(t, C, {})
      BY <1>1, <1>5, <2>1, <2>2 DEF UpdateStep, EliminateL2
    <2>4. C \in SUBSET Group /\ UNCHANGED hull
      BY <1>1, <1>5, <2>1 DEF EliminateL2
    <2> QED  BY <2>3, <2>4
  <1>6. CASE NewGroupL2(t, H)
    BY <1>6 DEF NewGroupL2, NewStepL2, NewStep
  <1>7. CASE KeyTakenL2(t, H)
    BY <1>7 DEF KeyTakenL2, DropStep
  <1> QED  BY <1>3, <1>4, <1>5, <1>6, <1>7 DEF FillStepL2

LEMMA KindsL2 ==
    ASSUME TypeOK, [NextL2]_varsL2
    PROVE  StepKindL2 /\ StepKind
  <1>1. ASSUME NEW t \in Tuple, NEW H \in ContainArray(t), FillStepL2(t, H)
        PROVE  StepKindL2
    BY <1>1, FillKindsL2 DEF StepKindL2, KeptStepL2
  <1>2. ASSUME EndOfInput, UNCHANGED hull PROVE StepKindL2
    BY <1>2 DEF EndOfInput, StepKindL2, KeptStepL2, QuietStep
  <1>3. ASSUME UNCHANGED varsL2 PROVE StepKindL2
    BY <1>3 DEF varsL2, vars, StepKindL2, KeptStepL2, QuietStep
  <1>4. StepKindL2
    BY <1>1, <1>2, <1>3 DEF NextL2
  <1>5. StepKind
    <2>1. ASSUME NEW t \in Tuple, NEW g \in Group, JoinStepL2(t, g) PROVE GroupStep(t)
      BY <2>1 DEF JoinStepL2, GroupStep
    <2>2. ASSUME NEW t \in Tuple, NEW C \in SUBSET Group, UpdateStep(t, C, {})
          PROVE  GroupStep(t)
      BY <2>2 DEF GroupStep
    <2> QED  BY <1>4, <2>1, <2>2 DEF StepKindL2, KeptStepL2, StepKind, NewStepL2
  <1> QED  BY <1>4, <1>5

LEMMA TypeStepL2 ==
    ASSUME TypeOK, [NextL2]_varsL2
    PROVE  TypeOK'
  <1> USE DEF TypeOK
  <1>1. ASSUME NEW t \in Tuple, NEW C, NEW D, UpdateStep(t, C, D) PROVE TypeOK'
    <2>1. Read(t) /\ UpdateBounds(C, t) /\ UNCHANGED <<indexhasharray, hashkey>>
      BY <1>1 DEF UpdateStep
    <2>2. members' \in [Position -> SUBSET (1 .. numread')]
      <3>1. members' = [g \in Position |-> IF g \in D THEN members[g] \cup {numread + 1}
                                                      ELSE members[g]]
        BY <1>1 DEF UpdateStep
      <3>2. /\ numread + 1 \in 1 .. numread' /\ 1 .. numread \subseteq 1 .. numread'
        BY <2>1, ReadType
      <3>3. \A g \in Position : members[g] \subseteq 1 .. numread
        OBVIOUS
      <3> QED  BY <3>1, <3>2, <3>3
    <2>3. indexhasharray' \in 0 .. numread'
      BY <2>1, ReadType
    <2> QED  BY <2>1, <2>2, <2>3, UpdateType, ReadType
  <1>2. ASSUME NEW t \in Tuple, NewStep(t) PROVE TypeOK'
    <2>1. /\ t \in [Cols -> Int] /\ LowAround(t) \in [Cols -> Int]
          /\ HighAround(t) \in [Cols -> Int]
      BY SGBAllAssumption DEF LowAround, HighAround
    <2>2. PICK lo, hi : lo = LowAround(t) /\ hi = HighAround(t)
      OBVIOUS
    <2>3. getMBRHashEntry(lo, hi) \in Rect
      BY <2>1, <2>2, RectType DEF getMBRHashEntry
    <2>4. /\ Read(t) /\ indexhasharray' = indexhasharray + 1
          /\ hashkey' = [hashkey EXCEPT ![indexhasharray + 1] = t]
          /\ pivot1' = [pivot1 EXCEPT ![indexhasharray + 1] = lo]
          /\ pivot2' = [pivot2 EXCEPT ![indexhasharray + 1] = hi]
          /\ rtree' = [rtree EXCEPT ![indexhasharray + 1] = getMBRHashEntry(lo, hi)]
          /\ members' = [members EXCEPT ![indexhasharray + 1] = {numread + 1}]
      BY <1>2, <2>2 DEF NewStep
    <2>5. indexhasharray + 1 \in Position /\ indexhasharray' \in 0 .. numread'
      BY <2>4, ReadType, SGBAllAssumption DEF Position
    <2>6. members' \in [Position -> SUBSET (1 .. numread')]
      BY <2>4, <2>5, ReadType
    <2>7. /\ hashkey' \in [Position -> [Cols -> Int]]
          /\ pivot1' \in [Position -> [Cols -> Int]]
          /\ pivot2' \in [Position -> [Cols -> Int]]
          /\ rtree' \in [Position -> Rect]
      BY <2>1, <2>2, <2>3, <2>4, <2>5
    <2> QED  BY <2>4, <2>5, <2>6, <2>7, ReadType
  <1>3. ASSUME NEW t \in Tuple, DropStep(t) PROVE TypeOK'
    BY <1>3, ReadType DEF DropStep, groupVars
  <1>4. CASE EndOfInput
    BY <1>4 DEF EndOfInput, groupVars
  <1>5. CASE UNCHANGED varsL2
    BY <1>5 DEF varsL2, vars, groupVars
  <1>6. ASSUME NEW t \in Tuple, NEW H \in ContainArray(t), FillStepL2(t, H) PROVE TypeOK'
    BY <1>1, <1>2, <1>3, <1>6, FillKindsL2 DEF NewStepL2, JoinStepL2
  <1> QED  BY <1>4, <1>5, <1>6 DEF NextL2
-----------------------------------------------------------------------------
HullType == hull \in [Position -> Seq(Point)]

HullInv == HullType /\ HullOfMembers /\ HullIsClique

(* The hull of the group that a tuple joins.                               *)
LEMMA JoinedHull ==
    ASSUME TypeOK, HullInv, NEW t \in Tuple, NEW g \in Group, JoinStepL2(t, g)
    PROVE  /\ HullType' /\ \A x \in Group \ {g} : hull'[x] = hull[x]
           /\ \A k \in DOMAIN hull'[g] : \E p \in members'[g] : input'[p] = hull'[g][k]
           /\ \A j, k \in DOMAIN hull'[g] :
                 SquareDist(hull'[g][j], hull'[g][k]) <= EPS * EPS
  <1>1. /\ g \in Position /\ Group \subseteq Position /\ hull \in [Position -> Seq(Point)]
        /\ hull[g] \in Seq(Point) /\ t \in Point
    BY GroupsInPosition, ConstsL2 DEF HullInv, HullType
  <1>2. PICK h \in Seq(Point) : h = hull[g]
    BY <1>1
  <1>3. UpdateStep(t, {g}, {g}) /\ AddToHull(g, t)
    BY DEF JoinStepL2
  <1>4. /\ members'[g] = members[g] \cup {numread + 1} /\ input'[numread + 1] = t
        /\ \A p \in members[g] : input'[p] = input[p]
    BY <1>3, UpdateMembers
  <1> DEFINE S == {input'[p] : p \in members'[g]}
             V == {h[k] : k \in 1 .. Len(h)} \cup {t}
  <1>5. DOMAIN h = 1 .. Len(h) /\ \A k \in 1 .. Len(h) : h[k] \in S
    <2>1. DOMAIN h = 1 .. Len(h)
      OBVIOUS
    <2>2. ASSUME NEW k \in 1 .. Len(h) PROVE h[k] \in S
      <3>1. PICK p \in members[g] : input[p] = h[k]
        BY <1>2, <2>1 DEF HullInv, HullOfMembers
      <3>2. p \in members'[g] /\ input'[p] = h[k]
        BY <1>4, <3>1
      <3> QED  BY <3>2
    <2> QED  BY <2>1, <2>2
  <1>6. t \in S
    <2>1. numread + 1 \in members'[g] /\ input'[numread + 1] = t
      BY <1>4
    <2> QED  BY <2>1
  <1>7. \A j, k \in 1 .. Len(h) : SquareDist(h[j], h[k]) <= EPS * EPS
    BY <1>2, <1>5 DEF HullInv, HullIsClique
  <1>8. PICK u : /\ hull' = [hull EXCEPT ![g] = u]
                 /\ u = h \/ (Judge(g, t) = 1 /\ u \in unionConvex(h, t))
    <2>1. CASE Judge(g, t) = 1
      BY <1>2, <1>3, <2>1 DEF AddToHull
    <2>2. CASE Judge(g, t) # 1
      <3>1. hull' = hull
        BY <1>3, <2>2 DEF AddToHull
      <3>2. hull' = [hull EXCEPT ![g] = h]
        BY <1>1, <1>2, <3>1
      <3> QED  BY <3>2
    <2> QED  BY <2>1, <2>2
  <1>9. hull'[g] = u /\ \A x \in Group \ {g} : hull'[x] = hull[x]
    BY <1>1, <1>8
  <1>10. h \in Seq(S)
    <2> HIDE DEF S
    <2> QED  BY <1>5, SeqOver
  <1>11. u \in Seq(S) /\ u \in Seq(Point)
    <2> HIDE DEF S
    <2> QED  BY <1>1, <1>6, <1>8, <1>10, UnionType
  <1>12. HullType'
    BY <1>1, <1>8, <1>11 DEF HullType
  <1>13. \A k \in DOMAIN u : u[k] \in S
    <2> HIDE DEF S
    <2> QED  BY <1>11
  <1>14. \A j, k \in DOMAIN u : SquareDist(u[j], u[k]) <= EPS * EPS
    <2>1. CASE u = h
      BY <1>5, <1>7, <2>1
    <2>2. CASE Judge(g, t) = 1 /\ u \in unionConvex(h, t)
      <3>1. h \in Seq(V) /\ t \in V
        <4>1. t \in V /\ \A k \in 1 .. Len(h) : h[k] \in V
          OBVIOUS
        <4> HIDE DEF V
        <4> QED  BY <4>1, SeqOver
      <3>2. \A k \in DOMAIN u : u[k] \in V
        <4> HIDE DEF V
        <4>1. u \in Seq(V)
          BY <2>2, <3>1, UnionType
        <4> QED  BY <4>1
      <3>3. \A k \in 1 .. Len(h) : SquareDist(h[k], t) <= EPS * EPS
        BY <1>1, <1>2, <2>2, JudgedNear DEF Judge
      <3>4. \A k \in 1 .. Len(h) : SquareDist(t, h[k]) <= EPS * EPS
        <4>1. ASSUME NEW k \in 1 .. Len(h) PROVE SquareDist(t, h[k]) = SquareDist(h[k], t)
          BY <1>1, DistFacts
        <4> QED  BY <3>3, <4>1
      <3>5. SquareDist(t, t) <= EPS * EPS
        <4>1. SquareDist(t, t) = 0
          BY <1>1, DistFacts
        <4> QED  BY <4>1, ConstsL2
      <3>6. \A v, w \in V : SquareDist(v, w) <= EPS * EPS
        BY <1>7, <3>3, <3>4, <3>5
      <3> HIDE DEF V
      <3> QED  BY <3>2, <3>6
    <2> QED  BY <1>8, <2>1, <2>2
  <1> QED  BY <1>9, <1>12, <1>13, <1>14

LEMMA HullStep ==
    ASSUME TypeOK, HullInv, StepKindL2
    PROVE  HullInv'
  <1>1. ASSUME NEW t \in Tuple, NEW g \in Group, JoinStepL2(t, g) PROVE HullInv'
    <2>1. /\ HullType' /\ \A x \in Group \ {g} : hull'[x] = hull[x]
          /\ \A k \in DOMAIN hull'[g] : \E p \in members'[g] : input'[p] = hull'[g][k]
          /\ \A j, k \in DOMAIN hull'[g] :
                SquareDist(hull'[g][j], hull'[g][k]) <= EPS * EPS
      BY <1>1, JoinedHull
    <2>2. UpdateStep(t, {g}, {g})
      BY <1>1 DEF JoinStepL2
    <2>3. /\ Group' = Group
          /\ \A x \in Group \ {g} : members'[x] = members[x]
          /\ \A x \in Group : \A p \in members[x] : input'[p] = input[p]
      BY <2>2, UpdateMembers
    <2>4. HullOfMembers'
      <3> SUFFICES ASSUME NEW x \in Group, NEW k \in DOMAIN hull'[x]
                   PROVE  \E p \in members'[x] : input'[p] = hull'[x][k]
        BY <2>3 DEF HullOfMembers
      <3>1. CASE x = g
        BY <2>1, <3>1
      <3>2. CASE x # g
        <4>1. PICK p \in members[x] : input[p] = hull[x][k]
          BY <2>1, <3>2 DEF HullInv, HullOfMembers
        <4> QED  BY <2>1, <2>3, <3>2, <4>1
      <3> QED  BY <3>1, <3>2
    <2>5. HullIsClique'
      <3> SUFFICES ASSUME NEW x \in Group, NEW j \in DOMAIN hull'[x], NEW k \in DOMAIN hull'[x]
                   PROVE  SquareDist(hull'[x][j], hull'[x][k]) <= EPS * EPS
        BY <2>3 DEF HullIsClique
      <3>1. CASE x = g
        BY <2>1, <3>1
      <3>2. CASE x # g
        BY <2>1, <3>2 DEF HullInv, HullIsClique
      <3> QED  BY <3>1, <3>2
    <2> QED  BY <2>1, <2>4, <2>5 DEF HullInv
  <1>2. ASSUME NEW t \in Tuple, NewStepL2(t) PROVE HullInv'
    <2>1. PICK m : m = indexhasharray + 1
      OBVIOUS
    <2>2. /\ NewStep(t) /\ hull' = [hull EXCEPT ![m] = <<t>>]
          /\ t \in Point /\ hull \in [Position -> Seq(Point)]
      BY <1>2, <2>1, ConstsL2 DEF NewStepL2, HullInv, HullType
    <2>3. /\ Group' = Group \cup {m} /\ m \notin Group
          /\ \A x \in Group : /\ members'[x] = members[x]
                              /\ \A p \in members[x] : input'[p] = input[p]
          /\ \E p \in members'[m] : input'[p] = t
      BY <2>1, <2>2, NewGroupFacts
    <2>4. m \in Position /\ Group \subseteq Position
      BY <2>1, <2>2, ReadType, GroupsInPosition, SGBAllAssumption DEF NewStep, TypeOK, Position
    <2>5. <<t>> \in Seq(Point) /\ DOMAIN <<t>> = {1} /\ <<t>>[1] = t
      BY <2>2
    <2>6. /\ hull'[m] = <<t>> /\ \A x \in Group : hull'[x] = hull[x]
          /\ hull' \in [Position -> Seq(Point)]
      BY <2>2, <2>3, <2>4, <2>5
    <2>7. HullOfMembers'
      BY <2>3, <2>5, <2>6 DEF HullInv, HullOfMembers
    <2>8. HullIsClique'
      <3>1. SquareDist(t, t) = 0 /\ 0 <= EPS * EPS
        BY <2>2, DistFacts, ConstsL2
      <3>2. \A j, k \in DOMAIN hull'[m] : SquareDist(hull'[m][j], hull'[m][k]) <= EPS * EPS
        BY <2>5, <2>6, <3>1
      <3> QED  BY <2>3, <2>6, <3>2 DEF HullInv, HullIsClique
    <2> QED  BY <2>6, <2>7, <2>8 DEF HullInv, HullType
  <1>3. ASSUME KeptStepL2 PROVE HullInv'
    <2>1. hull' = hull
      BY <1>3 DEF KeptStepL2
    <2>2. /\ Group' = Group
          /\ \A x \in Group : /\ members'[x] = members[x]
                              /\ \A p \in members[x] : input'[p] = input[p]
      <3>1. ASSUME NEW t \in Tuple, DropStep(t)
            PROVE  /\ Group' = Group
                   /\ \A x \in Group : /\ members'[x] = members[x]
                                       /\ \A p \in members[x] : input'[p] = input[p]
        BY <3>1, ReadType, GroupsInPosition DEF DropStep, groupVars, Group
      <3>2. ASSUME NEW t \in Tuple, NEW C \in SUBSET Group, UpdateStep(t, C, {})
            PROVE  /\ Group' = Group
                   /\ \A x \in Group : /\ members'[x] = members[x]
                                       /\ \A p \in members[x] : input'[p] = input[p]
        <4>1. Group' = Group
          BY <3>2 DEF UpdateStep, Group
        <4> QED  BY <3>2, <4>1, UpdateMembers
      <3>3. ASSUME QuietStep
            PROVE  /\ Group' = Group
                   /\ \A x \in Group : /\ members'[x] = members[x]
                                       /\ \A p \in members[x] : input'[p] = input[p]
        BY <3>3 DEF QuietStep, groupVars, Group
      <3> QED  BY <1>3, <3>1, <3>2, <3>3 DEF KeptStepL2
    <2>3. HullOfMembers'
      BY <2>1, <2>2 DEF HullInv, HullOfMembers
    <2>4. HullIsClique'
      BY <2>1, <2>2 DEF HullInv, HullIsClique
    <2> QED  BY <2>1, <2>3, <2>4 DEF HullInv, HullType
  <1> QED  BY <1>1, <1>2, <1>3 DEF StepKindL2

LEMMA InitFactsL2 == InitL2 => /\ TypeOK /\ HullInv /\ BoxSound
                               /\ RTreeMirrorsBoxes /\ KeyIsMember
  <1> SUFFICES ASSUME InitL2 PROVE /\ TypeOK /\ HullInv /\ BoxSound
                                   /\ RTreeMirrorsBoxes /\ KeyIsMember
    OBVIOUS
  <1>1. Init /\ hull = [g \in Position |-> <<>>]
    BY DEF InitL2
  <1>2. TypeOK
    BY <1>1, TypeInit
  <1>3. Group = {}
    BY <1>1 DEF Init, Group
  <1>4. <<>> \in Seq(Point)
    OBVIOUS
  <1>5. HullInv
    BY <1>1, <1>3, <1>4 DEF HullInv, HullType, HullOfMembers, HullIsClique
  <1> QED  BY <1>2, <1>3, <1>5 DEF BoxSound, RTreeMirrorsBoxes, KeyIsMember

(* Every vertex of a hull is a tuple of the hull's group, for every input: *)
(* unionConvex enters nothing else, and a tuple that ELIMINATE drops       *)
(* leaves no vertex behind.                                                *)
THEOREM HullMembersTheorem == SpecL2 => []HullOfMembers
  <1>1. HullInv => HullOfMembers
    BY DEF HullInv
  <1> QED  BY <1>1, InitFactsL2, TypeStepL2, KindsL2, HullStep, PTL DEF SpecL2

(* Any two vertices of a hull are within EPS of each other in the LTWO     *)
(* metric, for every input, although the members of a group need not be.   *)
THEOREM HullCliqueTheorem == SpecL2 => []HullIsClique
  <1>1. HullInv => HullIsClique
    BY DEF HullInv
  <1> QED  BY <1>1, InitFactsL2, TypeStepL2, KindsL2, HullStep, PTL DEF SpecL2
-----------------------------------------------------------------------------
LostStep ==
    (overlap = 1 /\ numread' # numread /\ members' = members) =>
        \E g \in Group :
            /\ hashkey[g] = input'[numread']
            /\ \/ \A k \in DOMAIN hull[g] : hull[g][k] # hashkey[g]
               \/ Cardinality(Containing(hashkey[g])) > 4

(* A search of ANY that stopped short left out a hit and found four.       *)
LEMMA ShortSearch ==
    ASSUME TypeOK, NEW t, NEW H \in ContainArray(t), NEW g \in Containing(t), g \notin H
    PROVE  Cardinality(Containing(t)) > 4
  <1>1. /\ H \subseteq Containing(t) /\ Cardinality(H) > 3
        /\ H \cup {g} \subseteq Containing(t)
    BY DEF ContainArray
  <1>2. IsFiniteSet(Containing(t))
    <2>1. indexhasharray \in Int
      BY DEF TypeOK
    <2>2. IsFiniteSet(Group)
      BY <2>1, FS_Interval DEF Group
    <2>3. Containing(t) \subseteq Group
      BY DEF Containing
    <2> QED  BY <2>2, <2>3, FS_Subset
  <1>3. IsFiniteSet(H)
    BY <1>1, <1>2, FS_Subset
  <1>4. Cardinality(H \cup {g}) = Cardinality(H) + 1
    BY <1>3, FS_AddElement
  <1>5. Cardinality(H \cup {g}) <= Cardinality(Containing(t))
    BY <1>1, <1>2, FS_Subset
  <1>6. /\ Cardinality(H) \in Nat /\ Cardinality(H \cup {g}) \in Nat
        /\ Cardinality(Containing(t)) \in Nat
    <2>1. IsFiniteSet(H \cup {g})
      BY <1>1, <1>2, FS_Subset
    <2> QED  BY <1>2, <1>3, <2>1, FS_CardinalityType
  <1> QED  BY <1>1, <1>4, <1>5, <1>6

(* A group's first tuple, while it is a vertex of the hull, is let in.     *)
LEMMA KeyOnHull ==
    ASSUME TypeOK, HullInv, BoxSound, RTreeMirrorsBoxes, KeyIsMember,
           NEW g \in Group, hashkey[g] \in Tuple,
           NEW k \in DOMAIN hull[g], hull[g][k] = hashkey[g]
    PROVE  /\ g \in Containing(hashkey[g])
           /\ InBound(g, hashkey[g]) /\ Judge(g, hashkey[g]) <= 1
  <1>1. PICK t \in Tuple : t = hashkey[g]
    OBVIOUS
  <1>2. PICK p \in members[g] : input[p] = t
    BY <1>1 DEF KeyIsMember
  <1>3. InBound(g, t)
    BY <1>2 DEF BoxSound, InBound
  <1>4. g \in Containing(t)
    BY <1>3, SearchComplete, SGBAllLtwoAssumption DEF Accepting
  <1>5. PICK h \in Seq(Point) : h = hull[g]
    BY GroupsInPosition DEF HullInv, HullType
  <1>6. /\ k \in 1 .. Len(h) /\ h[k] = t
        /\ \A i, j \in 1 .. Len(h) : SquareDist(h[i], h[j]) <= EPS * EPS
    <2>1. DOMAIN h = 1 .. Len(h)
      OBVIOUS
    <2> QED  BY <1>1, <1>5, <2>1 DEF HullInv, HullIsClique
  <1>7. insideConvexAndInsideBound(h, h[k], EPS) \in {0, 1}
    BY <1>6, VertexJudged
  <1>8. Judge(g, t) \in {0, 1}
    BY <1>5, <1>6, <1>7 DEF Judge
  <1> QED  BY <1>1, <1>3, <1>4, <1>8

LEMMA LostFill ==
    ASSUME TypeOK, HullInv, BoxSound, RTreeMirrorsBoxes, KeyIsMember,
           NEW t \in Tuple, NEW H \in ContainArray(t), FillStepL2(t, H)
    PROVE  LostStep
  <1> SUFFICES ASSUME overlap = 1, members' = members
               PROVE  \E g \in Group :
                         /\ hashkey[g] = input'[numread']
                         /\ \/ \A k \in DOMAIN hull[g] : hull[g][k] # hashkey[g]
                            \/ Cardinality(Containing(hashkey[g])) > 4
    BY DEF LostStep
  <1>1. ASSUME JoinAnyL2(t, H) PROVE FALSE
    <2>1. PICK g \in Joinable(H, t) : AddMember(g)
      BY <1>1 DEF JoinAnyL2
    <2>2. g \in Position
      BY JoinableAccepting, GroupsInPosition
    <2>3. members[g] \subseteq 1 .. numread /\ numread \in Nat
      BY <2>2 DEF TypeOK
    <2>4. numread + 1 \in members'[g]
      BY <2>1, <2>2 DEF AddMember, TypeOK
    <2> QED  BY <2>3, <2>4
  <1>2. ASSUME NewGroupL2(t, H) PROVE FALSE
    <2>1. members' = [members EXCEPT ![indexhasharray + 1] = {numread + 1}] /\ Read(t)
      BY <1>2 DEF NewGroupL2
    <2>2. /\ members \in [Position -> SUBSET (1 .. numread)] /\ numread \in Nat
          /\ indexhasharray + 1 \in Position
      BY <2>1, SGBAllAssumption DEF TypeOK, Read, Position
    <2>3. numread + 1 \in members[indexhasharray + 1]
      BY <2>1, <2>2
    <2>4. members[indexhasharray + 1] \subseteq 1 .. numread
      BY <2>2
    <2> QED  BY <2>2, <2>3, <2>4
  <1>3. KeyTakenL2(t, H)
    BY <1>1, <1>2 DEF FillStepL2, JoinOnlyL2, EliminateL2
  <1>4. Read(t) /\ Joinable(H, t) = {} /\ KeyInUse(t)
    BY <1>3 DEF KeyTakenL2
  <1>5. input'[numread'] = t
    BY <1>4, ReadType
  <1>6. PICK g \in Group : hashkey[g] = t
    BY <1>4 DEF KeyInUse
  <1>7. ASSUME NEW k \in DOMAIN hull[g], hull[g][k] = hashkey[g]
        PROVE  Cardinality(Containing(t)) > 4
    <2>1. g \in Containing(t) /\ InBound(g, t) /\ Judge(g, t) <= 1
      BY <1>6, <1>7, KeyOnHull
    <2>2. g \notin H
      BY <1>4, <2>1 DEF Joinable
    <2> QED  BY <2>1, <2>2, ShortSearch
  <1> QED  BY <1>5, <1>6, <1>7

(* With ANY a tuple is lost only if a group founded by an equal tuple has  *)
(* since dropped it from its hull, or if the random search stopped before  *)
(* that group: no other path of the handler returns without the tuple.     *)
THEOREM LostTheorem == SpecL2 => LostOnlyOffHull
  <1>1. TypeOK /\ HullInv /\ BoxSound /\ RTreeMirrorsBoxes /\ KeyIsMember /\ [NextL2]_varsL2
           => [LostStep]_varsL2
    BY LostFill DEF NextL2, EndOfInput, LostStep
  <1>2. SpecL2 => [][LostStep]_varsL2
    BY <1>1, InitFactsL2, TypeStepL2, KindsL2, HullStep, BoxSoundStep, MirrorStep, KeyStep,
       PTL DEF SpecL2
  <1> QED  BY <1>2 DEF LostOnlyOffHull, LostStep
=============================================================================
