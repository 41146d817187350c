----------------------------- MODULE RTreeProofs -----------------------------
(***************************************************************************)
(* Proofs of the invariants of RTreeM, for any capacity of the nodes, any  *)
(* data and any number of insertions and deletions.                        *)
(***************************************************************************)
EXTENDS RTreeM, InductionLemmas, FiniteSetTheorems, SequenceTheorems

(* The nodes of a subtree by depth, as NodesOf computes them.              *)
AtEq(F, node, n) == F = [k \in 0 .. n |-> IF k = 0 THEN {node} ELSE Below(F[k-1])]

At(node) == CHOOSE F : AtEq(F, node, node.level)

(* The sets of nodes by depth exist, down to any depth.                    *)
LEMMA AtExists ==
    ASSUME NEW node, NEW N \in Nat
    PROVE  \E F : AtEq(F, node, N)
  <1> DEFINE S == {n \in 0 .. N : \E F : AtEq(F, node, n)}
  <1>1. 0 \in S
    <2>1. AtEq([k \in 0 .. 0 |-> {node}], node, 0)
      BY DEF AtEq
    <2> QED  BY <2>1
  <1>2. ASSUME NEW n \in 0 .. N - 1, n \in S PROVE n + 1 \in S
    <2>1. PICK F : AtEq(F, node, n)
      BY <1>2
    <2> DEFINE G == [k \in 0 .. n + 1 |-> IF k <= n THEN F[k] ELSE Below(F[n])]
    <2>2. ASSUME NEW k \in 0 .. n + 1
          PROVE  G[k] = IF k = 0 THEN {node} ELSE Below(G[k-1])
      <3>1. CASE k = 0
        BY <2>1, <3>1 DEF AtEq
      <3>2. CASE k # 0 /\ k <= n
        <4>1. k \in 0 .. n /\ k - 1 \in 0 .. n
          BY <3>2
        <4>2. G[k] = F[k] /\ G[k-1] = F[k-1]
          BY <3>2, <4>1
        <4>3. F[k] = Below(F[k-1])
          BY <2>1, <3>2, <4>1 DEF AtEq
        <4> HIDE DEF G
        <4> QED  BY <3>2, <4>2, <4>3
      <3>3. CASE k = n + 1
        <4>1. G[k] = Below(F[n]) /\ G[k-1] = F[n]
          BY <3>3
        <4> HIDE DEF G
        <4> QED  BY <3>3, <4>1
      <3> QED  BY <3>1, <3>2, <3>3
    <2>3. AtEq(G, node, n + 1)
      BY <2>2 DEF AtEq
    <2> HIDE DEF G
    <2> QED  BY <2>3
  <1> HIDE DEF S
  <1>3. \A n \in 0 .. N : n \in S
    BY <1>1, <1>2, SetInduction
  <1>4. N \in S
    BY <1>3
  <1> QED  BY <1>4 DEF S

(* NodesOf gathers the root and, level by level, the children.             *)
LEMMA AtFacts ==
    ASSUME NEW node, node.level \in Nat
    PROVE  /\ At(node)[0] = {node}
           /\ \A k \in 1 .. node.level : At(node)[k] = Below(At(node)[k-1])
           /\ NodesOf(node) = UNION {At(node)[k] : k \in 0 .. node.level}
  <1>1. AtEq(At(node), node, node.level)
    BY AtExists DEF At
  <1>2. PICK F : F = At(node)
    OBVIOUS
  <1>3. F = [k \in 0 .. node.level |-> IF k = 0 THEN {node} ELSE Below(F[k-1])]
    BY <1>1, <1>2 DEF AtEq
  <1>4. \A k \in 0 .. node.level : F[k] = IF k = 0 THEN {node} ELSE Below(F[k-1])
    BY <1>3
  <1>5. NodesOf(node) = UNION {At(node)[k] : k \in 0 .. node.level}
    BY DEF NodesOf, At, AtEq
  <1>6. F[0] = {node} /\ \A k \in 1 .. node.level : F[k] = Below(F[k-1])
    BY <1>4
  <1> QED  BY <1>2, <1>5, <1>6

(* A subtree is its root and the subtrees of its children.                 *)
LEMMA NodesOfLeaf ==
    ASSUME NEW node, node.level = 0
    PROVE  NodesOf(node) = {node}
  <1>1. NodesOf(node) = UNION {At(node)[k] : k \in 0 .. node.level}
    BY AtFacts
  <1>2. At(node)[0] = {node}
    BY AtFacts
  <1>3. 0 .. node.level = {0}
    OBVIOUS
  <1> QED  BY <1>1, <1>2, <1>3

(* The nodes of the children of an inner node are nodes of its subtree.    *)
LEMMA NodesOfInner ==
    ASSUME NEW node, node.level \in Nat \ {0},
           \A i \in Slots(node) : node.branch[i].child.level = node.level - 1
    PROVE  NodesOf(node) = {node} \cup UNION {NodesOf(node.branch[i].child) : i \in Slots(node)}
  <1> DEFINE C == {node.branch[i].child : i \in Slots(node)}
             L == node.level - 1
             S == {k \in 0 .. L : At(node)[k + 1] = UNION {At(c)[k] : c \in C}}
  <1>1. L \in Nat /\ L + 1 = node.level /\ \A c \in C : c.level = L
    OBVIOUS
  <1>2. \A c \in C : /\ At(c)[0] = {c}
                     /\ \A k \in 1 .. L : At(c)[k] = Below(At(c)[k-1])
                     /\ NodesOf(c) = UNION {At(c)[k] : k \in 0 .. L}
    <2> HIDE DEF C, L
    <2>1. TAKE c \in C
    <2> QED  BY <1>1, AtFacts
  <1>3. /\ At(node)[0] = {node}
        /\ \A k \in 1 .. L + 1 : At(node)[k] = Below(At(node)[k-1])
        /\ NodesOf(node) = UNION {At(node)[k] : k \in 0 .. L + 1}
    <2> HIDE DEF L
    <2> QED  BY <1>1, AtFacts
  <1>4. 0 \in S
    <2>1. At(node)[1] = Below({node})
      <3>1. 1 \in 1 .. L + 1 /\ 1 - 1 = 0
        BY <1>1
      <3> HIDE DEF L
      <3> QED  BY <1>3, <3>1
    <2>2. Below({node}) = C
      BY DEF Below, ChildSlots
    <2> HIDE DEF C, L
    <2>3. C = UNION {At(c)[0] : c \in C}
      BY <1>2
    <2> QED  BY <1>1, <2>1, <2>2, <2>3
  <1>5. ASSUME NEW k \in 0 .. L - 1, k \in S PROVE k + 1 \in S
    <2> HIDE DEF C, L
    <2>1. k + 1 \in 0 .. L /\ k + 1 \in 1 .. L /\ k + 2 \in 1 .. L + 1 /\ k \in Nat
      BY <1>1
    <2>2. At(node)[k + 2] = Below(At(node)[k + 1])
      <3>1. (k + 2) - 1 = k + 1
        BY <2>1
      <3> QED  BY <1>3, <2>1, <3>1
    <2>3. Below(UNION {At(c)[k] : c \in C}) = UNION {Below(At(c)[k]) : c \in C}
      BY DEF Below
    <2>4. \A c \in C : At(c)[k + 1] = Below(At(c)[k])
      <3>1. (k + 1) - 1 = k
        BY <2>1
      <3> QED  BY <1>2, <2>1, <3>1
    <2>5. At(node)[k + 1] = UNION {At(c)[k] : c \in C}
      BY <1>5
    <2>6. (k + 1) + 1 = k + 2
      BY <2>1
    <2>7. At(node)[(k + 1) + 1] = UNION {At(c)[k + 1] : c \in C}
      BY <2>2, <2>3, <2>4, <2>5, <2>6
    <2> QED  BY <2>1, <2>7
  <1> HIDE DEF C, L
  <1>6. \A k \in 0 .. L : At(node)[k + 1] = UNION {At(c)[k] : c \in C}
    <2> HIDE DEF S
    <2>1. \A k \in 0 .. L : k \in S
      BY <1>1, <1>4, <1>5, SetInduction
    <2> QED  BY <2>1 DEF S
  <1>7. NodesOf(node) = {node} \cup UNION {NodesOf(c) : c \in C}
    <2>1. ASSUME NEW m \in NodesOf(node)
          PROVE  m \in {node} \cup UNION {NodesOf(c) : c \in C}
      <3>1. PICK k \in 0 .. L + 1 : m \in At(node)[k]
        BY <1>3
      <3>2. CASE k = 0
        BY <1>3, <3>1, <3>2
      <3>3. CASE k # 0
        <4>1. k - 1 \in 0 .. L /\ (k - 1) + 1 = k
          BY <1>1, <3>3
        <4>2. At(node)[k] = UNION {At(c)[k - 1] : c \in C}
          BY <1>6, <4>1
        <4>3. PICK c \in C : m \in At(c)[k - 1]
          BY <3>1, <4>2
        <4> QED  BY <1>2, <4>1, <4>3
      <3> QED  BY <3>2, <3>3
    <2>2. ASSUME NEW c \in C, NEW m \in NodesOf(c) PROVE m \in NodesOf(node)
      <3>1. PICK k \in 0 .. L : m \in At(c)[k]
        BY <1>2, <2>2
      <3>2. m \in At(node)[k + 1]
        BY <1>6, <3>1
      <3>3. k + 1 \in 0 .. L + 1
        BY <1>1
      <3> QED  BY <1>3, <3>2, <3>3
    <2>3. node \in NodesOf(node)
      <3>1. 0 \in 0 .. L + 1
        BY <1>1
      <3> QED  BY <1>3, <3>1
    <2> QED  BY <2>1, <2>2, <2>3
  <1>8. UNION {NodesOf(c) : c \in C} = UNION {NodesOf(node.branch[i].child) : i \in Slots(node)}
    BY DEF C
  <1> QED  BY <1>7, <1>8
-----------------------------------------------------------------------------
(* A rectangle that is not inside out.                                     *)
ValidRect(r) == r \in Rect /\ \A d \in Dims : r[d] <= r[d + DIMS_NUMB]

(* What a branch of a node of level l is: to an entry, or to a node of the *)
(* level below with enough branches, whose cover it keeps.                 *)
BranchOK(l, br) ==
    /\ ValidRect(br.mbr)
    /\ l > 0 => /\ br.child.level = l - 1
                /\ Count(br.child) >= MINFILL
                /\ br.mbr = RTreeNodeCover(br.child)

NodeOK(n) ==
    /\ n.level \in Nat
    /\ Slots(n) \subseteq Slot
    /\ \A i \in Slots(n) : BranchOK(n.level, n.branch[i])
    /\ \A i, j \in Slots(n) :
          i # j => Apart(Held(n.level, n.branch[i]), Held(n.level, n.branch[j]))

(* Every node of a subtree is as it should be, and so is a branch with     *)
(* all that is below it.                                                   *)
Good(n) == n.level \in Nat /\ \A m \in NodesOf(n) : NodeOK(m)

Sound(l, br) == BranchOK(l, br) /\ (l > 0 => Good(br.child))

(* A node is a node of its own subtree.                                    *)
LEMMA SelfInNodesOf ==
    ASSUME NEW n, n.level \in Nat
    PROVE  n \in NodesOf(n)
  <1>1. n \in At(n)[0] /\ 0 \in 0 .. n.level
    BY AtFacts
  <1> QED  BY <1>1, AtFacts

(* What holds of every node of a subtree holds of its root and, in turn,   *)
(* below each of its branches.                                             *)
LEMMA GoodUnfolds ==
    ASSUME NEW n, Good(n)
    PROVE  NodeOK(n) /\ \A i \in Slots(n) : Sound(n.level, n.branch[i])
  <1>1. NodeOK(n)
    BY SelfInNodesOf DEF Good
  <1>2. ASSUME NEW i \in Slots(n), n.level > 0 PROVE Good(n.branch[i].child)
    <2>1. \A j \in Slots(n) : n.branch[j].child.level = n.level - 1
      BY <1>1, <1>2 DEF NodeOK, BranchOK
    <2>2. n.level \in Nat \ {0} /\ n.level - 1 \in Nat
      BY <1>1, <1>2 DEF NodeOK
    <2>3. NodesOf(n.branch[i].child) \subseteq NodesOf(n)
      BY <2>1, <2>2, NodesOfInner
    <2> QED  BY <2>1, <2>2, <2>3 DEF Good
  <1> QED  BY <1>1, <1>2 DEF Sound, NodeOK

(* A node over sound branches that lead to different ids is good.          *)
LEMMA GoodFolds ==
    ASSUME NEW n, n.level \in Nat, Slots(n) \subseteq Slot,
           \A i \in Slots(n) : Sound(n.level, n.branch[i]),
           \A i, j \in Slots(n) :
              i # j => Apart(Held(n.level, n.branch[i]), Held(n.level, n.branch[j]))
    PROVE  Good(n)
  <1>1. NodeOK(n)
    BY DEF NodeOK, Sound
  <1>2. CASE n.level = 0
    BY <1>1, <1>2, NodesOfLeaf DEF Good
  <1>3. CASE n.level > 0
    <2>1. \A j \in Slots(n) : n.branch[j].child.level = n.level - 1
      BY <1>1, <1>3 DEF NodeOK, BranchOK
    <2>2. NodesOf(n) = {n} \cup UNION {NodesOf(n.branch[i].child) : i \in Slots(n)}
      BY <1>3, <2>1, NodesOfInner
    <2>3. \A i \in Slots(n) : Good(n.branch[i].child)
      BY <1>3 DEF Sound
    <2> QED  BY <1>1, <2>2, <2>3 DEF Good
  <1> QED  BY <1>2, <1>3

(* A node holds what its branches hold.                                    *)
LEMMA EntriesUnfold ==
    ASSUME NEW n, Good(n)
    PROVE  EntriesOf(n) = UNION {Held(n.level, n.branch[i]) : i \in Slots(n)}
  <1>1. NodeOK(n)
    BY GoodUnfolds
  <1>2. CASE n.level = 0
    <2>1. {m \in NodesOf(n) : m.level = 0} = {n}
      BY <1>2, NodesOfLeaf
    <2>2. EntriesOf(n) = {<<n.branch[i].child, n.branch[i].mbr>> : i \in Slots(n)}
      BY <2>1 DEF EntriesOf
    <2> QED  BY <1>2, <2>2 DEF Held
  <1>3. CASE n.level > 0
    <2>1. \A j \in Slots(n) : n.branch[j].child.level = n.level - 1
      BY <1>1, <1>3 DEF NodeOK, BranchOK
    <2>2. NodesOf(n) = {n} \cup UNION {NodesOf(n.branch[i].child) : i \in Slots(n)}
      BY <1>1, <1>3, <2>1, NodesOfInner DEF NodeOK
    <2>3. {m \in NodesOf(n) : m.level = 0}
             = UNION {{m \in NodesOf(n.branch[i].child) : m.level = 0} : i \in Slots(n)}
      BY <1>3, <2>2
    <2>4. EntriesOf(n) = UNION {EntriesOf(n.branch[i].child) : i \in Slots(n)}
      BY <2>3 DEF EntriesOf
    <2> QED  BY <1>3, <2>4 DEF Held
  <1> QED  BY <1>1, <1>2, <1>3 DEF NodeOK

(* The same, for one entry.                                                *)
LEMMA EntriesMember ==
    ASSUME NEW n, Good(n), NEW e
    PROVE  e \in EntriesOf(n) <=> \E i \in Slots(n) : e \in Held(n.level, n.branch[i])
  BY EntriesUnfold
-----------------------------------------------------------------------------
(* r is the smallest rectangle that includes those of S: no side can be    *)
(* moved inwards.                                                          *)
Hull(r, S) ==
    /\ ValidRect(r)
    /\ \A s \in S : /\ r[1] <= s[1] /\ r[2] <= s[2]
                    /\ s[3] <= r[3] /\ s[4] <= r[4]
    /\ \E s \in S : s[1] = r[1]
    /\ \E s \in S : s[2] = r[2]
    /\ \E s \in S : s[3] = r[3]
    /\ \E s \in S : s[4] = r[4]

(* Rectangles are four integers; RTreeNullRect is invalid.                 *)
LEMMA RectFacts ==
    /\ Rect = [1 .. 4 -> Int] /\ DOMAIN RTreeNullRect = 1 .. 4 /\ RTreeNullRect \in Rect
    /\ \A r : ValidRect(r) <=> r \in Rect /\ r[1] <= r[3] /\ r[2] <= r[4]
    /\ \A r : ValidRect(r) => /\ r[1] \in Int /\ r[2] \in Int /\ r[3] \in Int /\ r[4] \in Int
                              /\ ~INVALID_RECT(r)
    /\ INVALID_RECT(RTreeNullRect)
  <1>1. Dims = {1, 2} /\ DIMS_NUMB = 2 /\ 2 * DIMS_NUMB = 4
    BY DEF Dims, DIMS_NUMB
  <1>2. Rect = [1 .. 4 -> Int]
    BY <1>1 DEF Rect
  <1>3. DOMAIN RTreeNullRect = 1 .. 4 /\ RTreeNullRect \in [1 .. 4 -> Int]
    BY DEF RTreeNullRect
  <1>4. \A r : ValidRect(r) <=> r \in Rect /\ r[1] <= r[3] /\ r[2] <= r[4]
    BY <1>1 DEF ValidRect
  <1>5. ASSUME NEW r, ValidRect(r)
        PROVE  /\ r[1] \in Int /\ r[2] \in Int /\ r[3] \in Int /\ r[4] \in Int
               /\ ~INVALID_RECT(r)
    <2>1. r \in [1 .. 4 -> Int] /\ r[1] <= r[3]
      BY <1>2, <1>4, <1>5
    <2>2. 1 \in 1 .. 4 /\ 2 \in 1 .. 4 /\ 3 \in 1 .. 4 /\ 4 \in 1 .. 4
      OBVIOUS
    <2>3. r[1] \in Int /\ r[2] \in Int /\ r[3] \in Int /\ r[4] \in Int
      BY <2>1, <2>2
    <2> QED  BY <2>1, <2>3, <1>1 DEF INVALID_RECT
  <1>6. INVALID_RECT(RTreeNullRect)
    BY <1>1 DEF INVALID_RECT, RTreeNullRect
  <1> QED  BY <1>2, <1>3, <1>4, <1>5, <1>6

(* A set of rectangles has only one hull.                                  *)
LEMMA HullUnique ==
    ASSUME NEW S, \A s \in S : ValidRect(s), NEW r, Hull(r, S), NEW q, Hull(q, S)
    PROVE  r = q
  <1>1. r \in [1 .. 4 -> Int] /\ q \in [1 .. 4 -> Int]
    BY RectFacts DEF Hull
  <1>2. /\ r[1] \in Int /\ r[2] \in Int /\ r[3] \in Int /\ r[4] \in Int
        /\ q[1] \in Int /\ q[2] \in Int /\ q[3] \in Int /\ q[4] \in Int
    BY RectFacts DEF Hull
  <1>3. r[1] = q[1] /\ r[2] = q[2]
    BY <1>2 DEF Hull
  <1>4. r[3] = q[3] /\ r[4] = q[4]
    BY <1>2 DEF Hull
  <1>5. \A d \in 1 .. 4 : r[d] = q[d]
    BY <1>3, <1>4
  <1> QED  BY <1>1, <1>5

(* A rectangle is its own hull.                                            *)
LEMMA HullSingle ==
    ASSUME NEW r, ValidRect(r)
    PROVE  Hull(r, {r})
  BY RectFacts DEF Hull

(* RTreeCombineRect of two hulls is the hull of the union.                 *)
LEMMA HullUnion ==
    ASSUME NEW S, NEW T, \A s \in S \cup T : ValidRect(s),
           NEW r, Hull(r, S), NEW q, Hull(q, T)
    PROVE  Hull(RTreeCombineRect(r, q), S \cup T)
  <1>1. /\ r[1] \in Int /\ r[2] \in Int /\ r[3] \in Int /\ r[4] \in Int
        /\ q[1] \in Int /\ q[2] \in Int /\ q[3] \in Int /\ q[4] \in Int
        /\ ~INVALID_RECT(r) /\ ~INVALID_RECT(q)
        /\ r[1] <= r[3] /\ r[2] <= r[4] /\ q[1] <= q[3] /\ q[2] <= q[4]
    BY RectFacts DEF Hull
  <1>2. PICK c : c = RTreeCombineRect(r, q)
    OBVIOUS
  <1>3. c = [i \in 1 .. 4 |-> IF i \in {1, 2} THEN Least(r[i], q[i]) ELSE Greatest(r[i], q[i])]
    <2>1. Dims = {1, 2} /\ 2 * DIMS_NUMB = 4
      BY DEF Dims, DIMS_NUMB
    <2> QED  BY <1>1, <1>2, <2>1 DEF RTreeCombineRect
  <1>4. /\ c[1] = Least(r[1], q[1]) /\ c[2] = Least(r[2], q[2])
        /\ c[3] = Greatest(r[3], q[3]) /\ c[4] = Greatest(r[4], q[4])
    BY <1>3
  <1>5. /\ c[1] \in Int /\ (c[1] = r[1] \/ c[1] = q[1]) /\ c[1] <= r[1] /\ c[1] <= q[1]
        /\ c[2] \in Int /\ (c[2] = r[2] \/ c[2] = q[2]) /\ c[2] <= r[2] /\ c[2] <= q[2]
    BY <1>1, <1>4 DEF Least
  <1>6. /\ c[3] \in Int /\ (c[3] = r[3] \/ c[3] = q[3]) /\ c[3] >= r[3] /\ c[3] >= q[3]
        /\ c[4] \in Int /\ (c[4] = r[4] \/ c[4] = q[4]) /\ c[4] >= r[4] /\ c[4] >= q[4]
    BY <1>1, <1>4 DEF Greatest
  <1>7. ValidRect(c)
    <2>1. \A d \in 1 .. 4 : c[d] \in Int
      BY <1>5, <1>6
    <2>2. c \in [1 .. 4 -> Int]
      BY <1>3, <2>1
    <2> QED  BY <1>1, <1>5, <1>6, <2>2, RectFacts
  <1>8. ASSUME NEW s \in S \cup T
        PROVE  c[1] <= s[1] /\ c[2] <= s[2] /\ s[3] <= c[3] /\ s[4] <= c[4]
    <2>1. s[1] \in Int /\ s[2] \in Int /\ s[3] \in Int /\ s[4] \in Int
      BY RectFacts
    <2>2. CASE s \in S
      <3>1. r[1] <= s[1] /\ r[2] <= s[2] /\ s[3] <= r[3] /\ s[4] <= r[4]
        BY <2>2 DEF Hull
      <3> QED  BY <1>1, <1>5, <1>6, <2>1, <3>1
    <2>3. CASE s \in T
      <3>1. q[1] <= s[1] /\ q[2] <= s[2] /\ s[3] <= q[3] /\ s[4] <= q[4]
        BY <2>3 DEF Hull
      <3> QED  BY <1>1, <1>5, <1>6, <2>1, <3>1
    <2> QED  BY <2>2, <2>3
  <1>9. /\ \E s \in S \cup T : s[1] = c[1]
        /\ \E s \in S \cup T : s[2] = c[2]
        /\ \E s \in S \cup T : s[3] = c[3]
        /\ \E s \in S \cup T : s[4] = c[4]
    BY <1>5, <1>6 DEF Hull
  <1>10. Hull(c, S \cup T)
    BY <1>7, <1>8, <1>9 DEF Hull
  <1> QED  BY <1>2, <1>10

(* M holds the hulls m[i] of the sets S[i], U is the union of these.       *)
Gathers(I, m, S, M, U) ==
    /\ \A i \in I : Hull(m[i], S[i]) /\ \A s \in S[i] : ValidRect(s)
    /\ \A x : x \in M <=> \E i \in I : x = m[i]
    /\ \A x : x \in U <=> \E i \in I : x \in S[i]

(* The hull of hulls is the hull of all.                                   *)
LEMMA HullOfHulls ==
    ASSUME NEW I, NEW m, NEW S, NEW M, NEW U, Gathers(I, m, S, M, U),
           NEW r, Hull(r, M)
    PROVE  Hull(r, U)
  <1> USE DEF Gathers
  <1>1. /\ ValidRect(r)
        /\ r[1] \in Int /\ r[2] \in Int /\ r[3] \in Int /\ r[4] \in Int
    BY RectFacts DEF Hull
  <1>2. ASSUME NEW i \in I, NEW s \in S[i]
        PROVE  r[1] <= s[1] /\ r[2] <= s[2] /\ s[3] <= r[3] /\ s[4] <= r[4]
    <2>1. /\ r[1] <= m[i][1] /\ r[2] <= m[i][2] /\ m[i][3] <= r[3] /\ m[i][4] <= r[4]
      BY DEF Hull
    <2>2. /\ m[i][1] <= s[1] /\ m[i][2] <= s[2] /\ s[3] <= m[i][3] /\ s[4] <= m[i][4]
          /\ ValidRect(m[i]) /\ ValidRect(s)
      BY <1>2 DEF Hull
    <2>3. /\ m[i][1] \in Int /\ m[i][2] \in Int /\ m[i][3] \in Int /\ m[i][4] \in Int
          /\ s[1] \in Int /\ s[2] \in Int /\ s[3] \in Int /\ s[4] \in Int
      BY <2>2, RectFacts
    <2> QED  BY <1>1, <2>1, <2>2, <2>3
  <1>3. \E s \in U : s[1] = r[1]
    <2>1. PICK i \in I : m[i][1] = r[1]
      BY DEF Hull
    <2>2. PICK s \in S[i] : s[1] = m[i][1]
      BY DEF Hull
    <2> QED  BY <2>1, <2>2
  <1>4. \E s \in U : s[2] = r[2]
    <2>1. PICK i \in I : m[i][2] = r[2]
      BY DEF Hull
    <2>2. PICK s \in S[i] : s[2] = m[i][2]
      BY DEF Hull
    <2> QED  BY <2>1, <2>2
  <1>5. \E s \in U : s[3] = r[3]
    <2>1. PICK i \in I : m[i][3] = r[3]
      BY DEF Hull
    <2>2. PICK s \in S[i] : s[3] = m[i][3]
      BY DEF Hull
    <2> QED  BY <2>1, <2>2
  <1>6. \E s \in U : s[4] = r[4]
    <2>1. PICK i \in I : m[i][4] = r[4]
      BY DEF Hull
    <2>2. PICK s \in S[i] : s[4] = m[i][4]
      BY DEF Hull
    <2> QED  BY <2>1, <2>2
  <1>7. \A s \in U : r[1] <= s[1] /\ r[2] <= s[2] /\ s[3] <= r[3] /\ s[4] <= r[4]
    BY <1>2
  <1> QED  BY <1>1, <1>3, <1>4, <1>5, <1>6, <1>7 DEF Hull

(* RTreeCombineRect of two rectangles is one.                              *)
LEMMA CombineType ==
    ASSUME NEW r \in Rect, NEW s \in Rect
    PROVE  RTreeCombineRect(r, s) \in Rect
  <1>1. Rect = [1 .. 4 -> Int] /\ 2 * DIMS_NUMB = 4
    BY RectFacts DEF DIMS_NUMB
  <1>2. \A i \in 1 .. 4 : Least(r[i], s[i]) \in Int /\ Greatest(r[i], s[i]) \in Int
    BY <1>1 DEF Least, Greatest
  <1>3. [i \in 1 .. 4 |-> IF i \in Dims THEN Least(r[i], s[i]) ELSE Greatest(r[i], s[i])]
           \in [1 .. 4 -> Int]
    BY <1>2
  <1> QED  BY <1>1, <1>3 DEF RTreeCombineRect

(* The loop of RTreeNodeCover computes the hull of the branches.           *)
LEMMA CoverHull ==
    ASSUME NEW branch, NEW I \in SUBSET (1 .. MAXCARD + 1),
           \A i \in I : ValidRect(branch[i].mbr)
    PROVE  /\ CoverOf(branch, I) \in Rect
           /\ I # {} => Hull(CoverOf(branch, I), {branch[i].mbr : i \in I})
  <1> DEFINE N == MAXCARD + 1
             Eq(F) == F = [k \in 0 .. N |->
                             IF k = 0 THEN RTreeNullRect
                             ELSE IF k \in I THEN RTreeCombineRect(branch[k].mbr, F[k-1])
                             ELSE F[k-1]]
             step == [x \in (1 .. N) \X Rect |->
                        IF x[1] \in I THEN RTreeCombineRect(branch[x[1]].mbr, x[2]) ELSE x[2]]
  <1>1. N \in Nat /\ I \subseteq 1 .. N
    BY RTreeAssumption
  <1>2. step \in Steps(N, Rect)
    <2>1. ASSUME NEW x \in (1 .. N) \X Rect
          PROVE  (IF x[1] \in I THEN RTreeCombineRect(branch[x[1]].mbr, x[2]) ELSE x[2]) \in Rect
      <3>1. x[2] \in Rect
        OBVIOUS
      <3>2. ASSUME x[1] \in I PROVE RTreeCombineRect(branch[x[1]].mbr, x[2]) \in Rect
        <4>1. branch[x[1]].mbr \in Rect
          BY <3>2 DEF ValidRect
        <4> QED  BY <3>1, <4>1, CombineType
      <3> QED  BY <3>1, <3>2
    <2> QED  BY <2>1 DEF Steps
  <1>3. \A k \in 1 .. N, q \in Rect :
            step[<<k, q>>] = IF k \in I THEN RTreeCombineRect(branch[k].mbr, q) ELSE q
    OBVIOUS
  <1> HIDE DEF N, step
  <1>4. \E F : Eq(F)
    <2>1. PICK a : a = RTreeNullRect
      OBVIOUS
    <2>2. a \in Rect
      BY <2>1, RectFacts
    <2>3. PICK F \in [0 .. N -> Rect] : Continues(F, N, a, step)
      BY <1>1, <1>2, <2>2, RecursionExists
    <2>4. ASSUME NEW k \in 0 .. N
          PROVE  F[k] = IF k = 0 THEN RTreeNullRect
                        ELSE IF k \in I THEN RTreeCombineRect(branch[k].mbr, F[k-1])
                        ELSE F[k-1]
      <3>1. CASE k = 0
        BY <2>1, <2>3, <3>1 DEF Continues
      <3>2. CASE k # 0
        <4>1. k \in 1 .. N /\ k - 1 \in 0 .. N
          BY <1>1, <3>2
        <4>2. F[k-1] \in Rect
          BY <4>1
        <4>3. F[k] = step[<<k, F[k-1]>>]
          BY <2>3, <4>1 DEF Continues
        <4> QED  BY <1>3, <3>2, <4>1, <4>2, <4>3
      <3> QED  BY <3>1, <3>2
    <2>5. Eq(F)
      BY <2>4
    <2> QED  BY <2>5
  <1>5. PICK F : Eq(F) /\ CoverOf(branch, I) = F[N]
    <2>1. CoverOf(branch, I) = (CHOOSE F : Eq(F))[N]
      BY DEF CoverOf, N
    <2> HIDE DEF Eq
    <2>2. Eq(CHOOSE F : Eq(F))
      BY <1>4
    <2> QED  BY <2>1, <2>2
  <1>6. /\ F[0] = RTreeNullRect
        /\ \A k \in 0 .. N - 1 : F[k + 1] = IF k + 1 \in I
                                            THEN RTreeCombineRect(branch[k+1].mbr, F[k])
                                            ELSE F[k]
    <2>1. \A k \in 0 .. N : F[k] = IF k = 0 THEN RTreeNullRect
                                   ELSE IF k \in I THEN RTreeCombineRect(branch[k].mbr, F[k-1])
                                   ELSE F[k-1]
      BY <1>5
    <2>2. F[0] = RTreeNullRect
      BY <1>1, <2>1
    <2>3. ASSUME NEW k \in 0 .. N - 1
          PROVE  F[k + 1] = IF k + 1 \in I THEN RTreeCombineRect(branch[k+1].mbr, F[k]) ELSE F[k]
      <3>1. k + 1 \in 0 .. N /\ k + 1 # 0 /\ (k + 1) - 1 = k
        BY <1>1
      <3> QED  BY <2>1, <3>1
    <2> QED  BY <2>2, <2>3
  <1> HIDE DEF Eq
  <1>20. \A j \in I : j \in Nat /\ 1 <= j /\ j <= N
    BY <1>1
  <1> DEFINE Upto(k) == {branch[i].mbr : i \in {j \in I : j <= k}}
             S == {k \in 0 .. N : IF Upto(k) = {} THEN F[k] = RTreeNullRect
                                                  ELSE Hull(F[k], Upto(k))}
  <1>7. \A k \in 0 .. N : \A s \in Upto(k) : ValidRect(s)
    OBVIOUS
  <1>8. 0 \in S
    <2>1. \A j \in I : ~(j <= 0)
      BY <1>20
    <2>2. Upto(0) = {}
      BY <2>1
    <2> HIDE DEF Upto
    <2> QED  BY <1>1, <1>6, <2>2
  <1>9. ASSUME NEW k \in 0 .. N - 1, k \in S PROVE k + 1 \in S
    <2>1. k + 1 \in 0 .. N /\ k \in 0 .. N
      BY <1>1
    <2>2. CASE k + 1 \notin I
      <3>1. \A j \in I : j <= k + 1 <=> j <= k
        BY <1>1, <2>2
      <3>2. Upto(k + 1) = Upto(k)
        BY <3>1
      <3>3. F[k + 1] = F[k]
        BY <1>6, <2>2
      <3> HIDE DEF Upto
      <3> QED  BY <1>9, <2>1, <3>2, <3>3
    <2>3. CASE k + 1 \in I
      <3> DEFINE b == branch[k + 1].mbr
      <3>1. Upto(k + 1) = {b} \cup Upto(k)
        <4>1. \A j \in I : j <= k + 1 <=> j = k + 1 \/ j <= k
          BY <1>20
        <4>2. {j \in I : j <= k + 1} = {k + 1} \cup {j \in I : j <= k}
          BY <2>3, <4>1
        <4> QED  BY <4>2
      <3>2. F[k + 1] = RTreeCombineRect(b, F[k])
        BY <1>6, <2>3
      <3>3. ValidRect(b)
        BY <2>3
      <3> HIDE DEF Upto, b
      <3>4. Hull(b, {b})
        BY <3>3, HullSingle
      <3>5. CASE Upto(k) = {}
        <4>1. F[k] = RTreeNullRect
          BY <1>9, <3>5
        <4>2. F[k + 1] = b
          BY <3>2, <3>3, <4>1, RectFacts DEF RTreeCombineRect
        <4>3. Upto(k + 1) = {b}
          BY <3>1, <3>5
        <4> QED  BY <2>1, <3>4, <4>2, <4>3
      <3>6. CASE Upto(k) # {}
        <4>1. Hull(F[k], Upto(k))
          BY <1>9, <3>6
        <4>2. \A s \in {b} \cup Upto(k) : ValidRect(s)
          BY <1>7, <2>1, <3>3
        <4>3. Hull(RTreeCombineRect(b, F[k]), {b} \cup Upto(k))
          BY <3>4, <4>1, <4>2, HullUnion
        <4> QED  BY <2>1, <3>1, <3>2, <4>3
      <3> QED  BY <3>5, <3>6
    <2> QED  BY <2>2, <2>3
  <1>10. N \in S
    <2> HIDE DEF S
    <2>1. \A k \in 0 .. N : k \in S
      BY <1>1, <1>8, <1>9, SetInduction
    <2> QED  BY <1>1, <2>1
  <1>11. Upto(N) = {branch[i].mbr : i \in I}
    <2>1. {j \in I : j <= N} = I
      BY <1>20
    <2> QED  BY <2>1
  <1>12. I # {} => Upto(N) # {}
    BY <1>11
  <1>13. CASE I = {}
    <2>1. Upto(N) = {}
      BY <1>13
    <2> HIDE DEF Upto
    <2> QED  BY <1>5, <1>10, <1>13, <2>1, RectFacts
  <1>14. CASE I # {}
    <2> HIDE DEF Upto
    <2>1. Hull(F[N], Upto(N))
      BY <1>10, <1>12, <1>14
    <2>2. F[N] \in Rect
      BY <2>1 DEF Hull, ValidRect
    <2> QED  BY <1>5, <1>11, <2>1, <2>2
  <1> QED  BY <1>13, <1>14
-----------------------------------------------------------------------------
Rects(E) == {e[2] : e \in E}

(* A node may have at least two branches when it is half full.             *)
LEMMA MinFillFacts ==
    /\ MAXCARD \in Nat /\ MINFILL \in Nat /\ MINFILL >= 2 /\ MINFILL + MINFILL <= MAXCARD
    /\ MAXCARD + 1 - MINFILL \in Nat /\ MAXCARD + 1 - MINFILL >= MINFILL
    /\ IsFiniteSet(Slot) /\ Cardinality(Slot) = MAXCARD
  <1>1. MAXCARD \in Nat /\ MAXCARD >= 4
    BY RTreeAssumption
  <1>2. MINFILL = MAXCARD \div 2
    BY DEF MINFILL
  <1>3. IsFiniteSet(Slot) /\ Cardinality(Slot) = MAXCARD
    <2>1. MAXCARD \in Int /\ 1 \in Int /\ 1 <= MAXCARD /\ MAXCARD - 1 + 1 = MAXCARD
      BY <1>1
    <2> QED  BY <1>1, <2>1, FS_Interval DEF Slot
  <1>4. MINFILL \in Nat /\ MINFILL >= 2 /\ MINFILL + MINFILL <= MAXCARD
    BY <1>1, <1>2
  <1> QED  BY <1>1, <1>3, <1>4

(* The branches of a node can be counted, up to MAXCARD.                   *)
LEMMA CountFacts ==
    ASSUME NEW n, Slots(n) \subseteq Slot
    PROVE  /\ IsFiniteSet(Slots(n)) /\ Count(n) \in Nat /\ Count(n) <= MAXCARD
           /\ Count(n) = 0 <=> Slots(n) = {}
           /\ Slots(n) \subseteq 1 .. MAXCARD + 1
  <1>1. IsFiniteSet(Slots(n)) /\ Count(n) \in Nat /\ Count(n) <= MAXCARD
    BY MinFillFacts, FS_Subset, FS_CardinalityType DEF Count
  <1>2. Count(n) = 0 <=> Slots(n) = {}
    BY <1>1, FS_EmptySet DEF Count
  <1>3. Slots(n) \subseteq 1 .. MAXCARD + 1
    BY MinFillFacts DEF Slot
  <1> QED  BY <1>1, <1>2, <1>3

(* The cover of a node is the hull of its entries if its branches keep     *)
(* theirs.                                                                 *)
LEMMA NodeHull ==
    ASSUME NEW n, Good(n), Slots(n) # {},
           \A i \in Slots(n) :
              /\ Hull(n.branch[i].mbr, Rects(Held(n.level, n.branch[i])))
              /\ \A e \in Held(n.level, n.branch[i]) : ValidRect(e[2])
    PROVE  Hull(RTreeNodeCover(n), Rects(EntriesOf(n)))
  <1>1. NodeOK(n)
    BY GoodUnfolds
  <1> DEFINE m == [i \in Slots(n) |-> n.branch[i].mbr]
             H == [i \in Slots(n) |-> Rects(Held(n.level, n.branch[i]))]
  <1>3. \A i \in Slots(n) : /\ Hull(m[i], H[i])
                            /\ \A s \in H[i] : ValidRect(s)
    BY DEF Rects
  <1>4. Hull(RTreeNodeCover(n), {m[i] : i \in Slots(n)})
    <2>1. Slots(n) \in SUBSET (1 .. MAXCARD + 1)
      BY <1>1, CountFacts DEF NodeOK
    <2>2. \A i \in Slots(n) : ValidRect(n.branch[i].mbr)
      BY <1>1 DEF NodeOK, BranchOK
    <2>3. {n.branch[i].mbr : i \in Slots(n)} = {m[i] : i \in Slots(n)}
      OBVIOUS
    <2> HIDE DEF m
    <2> QED  BY <2>1, <2>2, <2>3, CoverHull DEF RTreeNodeCover
  <1>5. Hull(RTreeNodeCover(n), UNION {H[i] : i \in Slots(n)})
    <2> HIDE DEF m, H
    <2>1. PICK M : M = {m[i] : i \in Slots(n)}
      OBVIOUS
    <2>2. PICK U : U = UNION {H[i] : i \in Slots(n)}
      OBVIOUS
    <2>3. /\ \A x : x \in M <=> \E i \in Slots(n) : x = m[i]
          /\ \A x : x \in U <=> \E i \in Slots(n) : x \in H[i]
      BY <2>1, <2>2
    <2>4. Hull(RTreeNodeCover(n), M)
      BY <1>4, <2>1
    <2>5. Gathers(Slots(n), m, H, M, U)
      BY <1>3, <2>3 DEF Gathers
    <2>6. Hull(RTreeNodeCover(n), U)
      BY <2>4, <2>5, HullOfHulls
    <2> QED  BY <2>2, <2>6
  <1>6. Rects(EntriesOf(n)) = UNION {H[i] : i \in Slots(n)}
    BY EntriesUnfold DEF Rects
  <1> HIDE DEF H
  <1> QED  BY <1>5, <1>6

(* The rectangle of a branch is the hull of the entries it leads to.       *)
LEMMA HullOfBranch ==
    ASSUME NEW l \in Nat, NEW br, Sound(l, br)
    PROVE  /\ Hull(br.mbr, Rects(Held(l, br)))
           /\ \A e \in Held(l, br) : ValidRect(e[2])
  <1> DEFINE P(k) == \A b : Sound(k, b) => /\ Hull(b.mbr, Rects(Held(k, b)))
                                           /\ \A e \in Held(k, b) : ValidRect(e[2])
             S == {k \in 0 .. l : P(k)}
  <1>1. P(0)
    <2> SUFFICES ASSUME NEW b, Sound(0, b)
                 PROVE  /\ Hull(b.mbr, Rects(Held(0, b)))
                        /\ \A e \in Held(0, b) : ValidRect(e[2])
      OBVIOUS
    <2>1. ValidRect(b.mbr)
      BY DEF Sound, BranchOK
    <2>2. Held(0, b) = {<<b.child, b.mbr>>} /\ Rects(Held(0, b)) = {b.mbr}
      BY DEF Held, Rects
    <2>3. Hull(b.mbr, {b.mbr})
      BY <2>1, HullSingle
    <2> QED  BY <2>1, <2>2, <2>3
  <1>2. ASSUME NEW k \in 0 .. l - 1, P(k) PROVE P(k + 1)
    <2> SUFFICES ASSUME NEW b, Sound(k + 1, b)
                 PROVE  /\ Hull(b.mbr, Rects(Held(k + 1, b)))
                        /\ \A e \in Held(k + 1, b) : ValidRect(e[2])
      OBVIOUS
    <2>1. PICK n : n = b.child
      OBVIOUS
    <2>2. k \in Nat /\ k + 1 > 0 /\ (k + 1) - 1 = k /\ k + 1 # 0
      OBVIOUS
    <2>3. /\ Good(n) /\ n.level = k /\ Count(n) >= MINFILL /\ b.mbr = RTreeNodeCover(n)
      BY <2>1, <2>2 DEF Sound, BranchOK
    <2>4. NodeOK(n) /\ \A i \in Slots(n) : Sound(k, n.branch[i])
      BY <2>3, GoodUnfolds
    <2>5. Slots(n) # {}
      BY <2>3, <2>4, CountFacts, MinFillFacts DEF NodeOK
    <2>6. \A i \in Slots(n) : /\ Hull(n.branch[i].mbr, Rects(Held(k, n.branch[i])))
                              /\ \A e \in Held(k, n.branch[i]) : ValidRect(e[2])
      BY <1>2, <2>4
    <2>7. Held(k + 1, b) = EntriesOf(n)
      BY <2>1, <2>2 DEF Held
    <2>8. Hull(RTreeNodeCover(n), Rects(EntriesOf(n)))
      BY <2>3, <2>5, <2>6, NodeHull
    <2>9. \A e \in EntriesOf(n) : ValidRect(e[2])
      BY <2>3, <2>6, EntriesMember
    <2> QED  BY <2>3, <2>7, <2>8, <2>9
  <1> HIDE DEF P
  <1>3. 0 \in S /\ \A k \in 0 .. l - 1 : k \in S => k + 1 \in S
    <2>1. \A k \in 0 .. l - 1 : k + 1 \in 0 .. l
      OBVIOUS
    <2> QED  BY <1>1, <1>2, <2>1
  <1>4. l \in S
    <2> HIDE DEF S
    <2>1. \A k \in 0 .. l : k \in S
      BY <1>3, SetInduction
    <2> QED  BY <2>1
  <1> QED  BY <1>4 DEF P

(* So is the cover of a node.                                              *)
LEMMA HullOfNode ==
    ASSUME NEW n, Good(n), Slots(n) # {}
    PROVE  Hull(RTreeNodeCover(n), Rects(EntriesOf(n)))
  <1>1. n.level \in Nat /\ \A i \in Slots(n) : Sound(n.level, n.branch[i])
    BY GoodUnfolds DEF Good
  <1>2. \A i \in Slots(n) : /\ Hull(n.branch[i].mbr, Rects(Held(n.level, n.branch[i])))
                            /\ \A e \in Held(n.level, n.branch[i]) : ValidRect(e[2])
    BY <1>1, HullOfBranch
  <1> QED  BY <1>2, NodeHull

(* No entry of a good node is inside out.                                  *)
LEMMA EntriesValid ==
    ASSUME NEW n, Good(n)
    PROVE  \A e \in EntriesOf(n) : ValidRect(e[2])
  <1> TAKE e \in EntriesOf(n)
  <1>1. PICK i \in Slots(n) : e \in Held(n.level, n.branch[i])
    BY EntriesMember
  <1>2. Sound(n.level, n.branch[i]) /\ n.level \in Nat
    BY GoodUnfolds DEF Good
  <1> QED  BY <1>1, <1>2, HullOfBranch
-----------------------------------------------------------------------------
(* What the other branches of a node hold.                                 *)
Rest(n, i) == UNION {Held(n.level, n.branch[s]) : s \in Slots(n) \ {i}}

(* To be apart is symmetric.                                               *)
LEMMA ApartSym ==
    ASSUME NEW E, NEW F, Apart(E, F)
    PROVE  Apart(F, E)
  BY DEF Apart

(* One branch and the other ones make up what a node holds.                *)
LEMMA RestFacts ==
    ASSUME NEW n, Good(n), NEW i \in Slots(n)
    PROVE  /\ EntriesOf(n) = Rest(n, i) \cup Held(n.level, n.branch[i])
           /\ Apart(Rest(n, i), Held(n.level, n.branch[i]))
  <1>1. EntriesOf(n) = Rest(n, i) \cup Held(n.level, n.branch[i])
    BY EntriesUnfold DEF Rest
  <1>2. \A s \in Slots(n) \ {i} : Apart(Held(n.level, n.branch[s]), Held(n.level, n.branch[i]))
    BY GoodUnfolds DEF NodeOK
  <1>3. Apart(Rest(n, i), Held(n.level, n.branch[i]))
    BY <1>2 DEF Rest, Apart
  <1> QED  BY <1>1, <1>3

(* A new or a changed branch.                                              *)
LEMMA SetBranchGood ==
    ASSUME NEW n, Good(n), NEW i \in Slot, NEW br, Sound(n.level, br),
           Apart(Rest(n, i), Held(n.level, br))
    PROVE  /\ Good(SetBranch(n, i, br))
           /\ SetBranch(n, i, br).level = n.level
           /\ Slots(SetBranch(n, i, br)) = Slots(n) \cup {i}
           /\ EntriesOf(SetBranch(n, i, br)) = Rest(n, i) \cup Held(n.level, br)
  <1>1. PICK m : m = SetBranch(n, i, br)
    OBVIOUS
  <1>2. /\ m.level = n.level /\ Slots(m) = Slots(n) \cup {i} /\ m.branch[i] = br
        /\ \A s \in Slots(n) \ {i} : m.branch[s] = n.branch[s]
    BY <1>1 DEF SetBranch, Slots
  <1>3. /\ NodeOK(n) /\ n.level \in Nat
        /\ \A s \in Slots(n) : Sound(n.level, n.branch[s])
    BY GoodUnfolds DEF NodeOK
  <1>4. Slots(m) \subseteq Slot
    BY <1>2, <1>3 DEF NodeOK
  <1>5. \A s \in Slots(m) : Sound(m.level, m.branch[s])
    BY <1>2, <1>3
  <1>6. \A s \in Slots(n) \ {i} : Apart(Held(n.level, n.branch[s]), Held(n.level, br))
    BY DEF Rest, Apart
  <1>7. ASSUME NEW s \in Slots(m), NEW t \in Slots(m), s # t
        PROVE  Apart(Held(m.level, m.branch[s]), Held(m.level, m.branch[t]))
    <2>1. CASE s = i
      <3>1. t \in Slots(n) \ {i}
        BY <1>2, <1>7, <2>1
      <3>2. Apart(Held(n.level, n.branch[t]), Held(n.level, br))
        BY <1>6, <3>1
      <3> QED  BY <1>2, <2>1, <3>1, <3>2, ApartSym
    <2>2. CASE t = i
      <3>1. s \in Slots(n) \ {i}
        BY <1>2, <1>7, <2>2
      <3> QED  BY <1>2, <1>6, <2>2, <3>1
    <2>3. CASE s # i /\ t # i
      <3>1. s \in Slots(n) \ {i} /\ t \in Slots(n) \ {i}
        BY <1>2, <2>3
      <3>2. Apart(Held(n.level, n.branch[s]), Held(n.level, n.branch[t]))
        BY <1>3, <1>7, <3>1 DEF NodeOK
      <3> QED  BY <1>2, <3>1, <3>2
    <2> QED  BY <2>1, <2>2, <2>3
  <1>8. Good(m)
    BY <1>2, <1>3, <1>4, <1>5, <1>7, GoodFolds
  <1>9. EntriesOf(m) = UNION {Held(m.level, m.branch[s]) : s \in Slots(m)}
    BY <1>8, EntriesUnfold
  <1>10. EntriesOf(m) = Rest(n, i) \cup Held(n.level, br)
    BY <1>2, <1>9 DEF Rest
  <1> QED  BY <1>1, <1>2, <1>8, <1>10

(* A branch less.                                                          *)
LEMMA DisconnectGood ==
    ASSUME NEW n, Good(n), NEW i \in Slots(n)
    PROVE  /\ Good(RTreeDisconnectBranch(n, i))
           /\ RTreeDisconnectBranch(n, i).level = n.level
           /\ Slots(RTreeDisconnectBranch(n, i)) = Slots(n) \ {i}
           /\ Count(RTreeDisconnectBranch(n, i)) = Count(n) - 1
           /\ EntriesOf(RTreeDisconnectBranch(n, i)) = Rest(n, i)
  <1>1. PICK m : m = RTreeDisconnectBranch(n, i)
    OBVIOUS
  <1>2. /\ m.level = n.level /\ Slots(m) = Slots(n) \ {i}
        /\ \A s \in Slots(m) : m.branch[s] = n.branch[s]
    BY <1>1 DEF RTreeDisconnectBranch, Slots
  <1>3. /\ NodeOK(n) /\ n.level \in Nat
        /\ \A s \in Slots(n) : Sound(n.level, n.branch[s])
    BY GoodUnfolds DEF NodeOK
  <1>4. Slots(m) \subseteq Slot /\ \A s \in Slots(m) : Sound(m.level, m.branch[s])
    BY <1>2, <1>3 DEF NodeOK
  <1>5. \A s, t \in Slots(m) :
           s # t => Apart(Held(m.level, m.branch[s]), Held(m.level, m.branch[t]))
    BY <1>2, <1>3 DEF NodeOK
  <1>6. Good(m)
    BY <1>2, <1>3, <1>4, <1>5, GoodFolds
  <1>7. EntriesOf(m) = UNION {Held(m.level, m.branch[s]) : s \in Slots(m)}
    BY <1>6, EntriesUnfold
  <1>8. EntriesOf(m) = Rest(n, i)
    BY <1>2, <1>7 DEF Rest
  <1>9. Count(m) = Count(n) - 1
    <2>1. IsFiniteSet(Slots(n))
      BY <1>3, CountFacts DEF NodeOK
    <2> QED  BY <1>2, <2>1, FS_RemoveElement DEF Count
  <1> QED  BY <1>1, <1>2, <1>6, <1>8, <1>9

(* InOrder enumerates its set.                                             *)
LEMMA InOrderFacts ==
    ASSUME NEW I \in SUBSET Nat, IsFiniteSet(I)
    PROVE  /\ Cardinality(I) \in Nat
           /\ InOrder(I) \in [1 .. Cardinality(I) -> I]
           /\ \A k, l \in 1 .. Cardinality(I) : InOrder(I)[k] = InOrder(I)[l] => k = l
           /\ \A i \in I : \E k \in 1 .. Cardinality(I) : InOrder(I)[k] = i
  <1> DEFINE Low(i) == {j \in I : j <= i}
             N == Cardinality(I)
             rank == [i \in I |-> Cardinality(Low(i))]
  <1>1. N \in Nat
    BY FS_CardinalityType
  <1>2. ASSUME NEW i \in I
        PROVE  /\ IsFiniteSet(Low(i)) /\ rank[i] \in Nat /\ rank[i] \in 1 .. N
    <2>1. Low(i) \in SUBSET I /\ i \in Low(i)
      OBVIOUS
    <2> HIDE DEF Low
    <2>2. IsFiniteSet(Low(i)) /\ Cardinality(Low(i)) <= N /\ Cardinality(Low(i)) \in Nat
      BY <2>1, FS_Subset, FS_CardinalityType
    <2>3. Cardinality(Low(i)) # 0
      BY <2>1, <2>2, FS_EmptySet
    <2> HIDE DEF N
    <2> QED  BY <1>1, <2>2, <2>3
  <1>3. ASSUME NEW i \in I, NEW j \in I, i < j PROVE rank[i] < rank[j]
    <2>1. Low(i) \in SUBSET Low(j) /\ j \in Low(j) /\ j \notin Low(i)
      <3>1. i \in Nat /\ j \in Nat /\ \A k \in I : k \in Nat
        OBVIOUS
      <3>2. /\ \A k \in I : k <= i => k <= j
            /\ j <= j /\ ~(j <= i)
        BY <1>3, <3>1
      <3> QED  BY <3>2
    <2> HIDE DEF Low
    <2>2. Cardinality(Low(i)) <= Cardinality(Low(j)) /\ Cardinality(Low(i)) # Cardinality(Low(j))
      BY <1>2, <2>1, FS_Subset
    <2> QED  BY <1>2, <2>2
  <1>4. \A i, j \in I : rank[i] = rank[j] => i = j
    <2>1. \A i, j \in I : i \in Nat /\ j \in Nat /\ rank[i] \in Nat /\ rank[j] \in Nat
      BY <1>2
    <2> HIDE DEF rank
    <2>2. SUFFICES ASSUME NEW i \in I, NEW j \in I, rank[i] = rank[j], i # j PROVE FALSE
      OBVIOUS
    <2>3. CASE i < j
      BY <1>3, <2>1, <2>2, <2>3
    <2>4. CASE j < i
      BY <1>3, <2>1, <2>2, <2>4
    <2> QED  BY <2>1, <2>2, <2>3, <2>4
  <1>5. \A k \in 1 .. N : \E i \in I : rank[i] = k
    <2>1. rank \in [I -> 1 .. N]
      BY <1>2
    <2>2. IsFiniteSet(1 .. N) /\ Cardinality(1 .. N) = N
      <3>1. 1 \in Int /\ N \in Int
        BY <1>1
      <3> HIDE DEF N
      <3>2. /\ IsFiniteSet(1 .. N)
            /\ Cardinality(1 .. N) = IF 1 > N THEN 0 ELSE N - 1 + 1
        BY <3>1, FS_Interval
      <3> QED  BY <1>1, <3>2
    <2> HIDE DEF rank
    <2>3. rank \in Injection(I, 1 .. N)
      BY <1>4, <2>1 DEF Injection, IsInjective
    <2>4. rank \in Surjection(I, 1 .. N)
      BY <2>2, <2>3, FS_Injection
    <2> QED  BY <2>4 DEF Surjection
  <1>6. \A i \in I : Cardinality({j \in I : j <= i}) = rank[i]
    OBVIOUS
  <1>7. InOrder(I) = [k \in 1 .. N |-> CHOOSE i \in I : Cardinality({j \in I : j <= i}) = k]
    BY DEF InOrder
  <1> HIDE DEF rank, N
  <1>8. \A k \in 1 .. N : InOrder(I)[k] \in I /\ rank[InOrder(I)[k]] = k
    <2> TAKE k \in 1 .. N
    <2>1. InOrder(I)[k] = CHOOSE i \in I : Cardinality({j \in I : j <= i}) = k
      BY <1>7
    <2>2. \E i \in I : Cardinality({j \in I : j <= i}) = k
      BY <1>5, <1>6
    <2>3. InOrder(I)[k] \in I /\ Cardinality({j \in I : j <= InOrder(I)[k]}) = k
      BY <2>1, <2>2
    <2> QED  BY <1>6, <2>3
  <1>9. InOrder(I) \in [1 .. N -> I]
    BY <1>7, <1>8
  <1>10. \A i \in I : \E k \in 1 .. N : InOrder(I)[k] = i
    <2> TAKE i \in I
    <2>1. rank[i] \in 1 .. N
      BY <1>2
    <2>2. InOrder(I)[rank[i]] = i
      BY <1>4, <1>8, <2>1
    <2> QED  BY <2>1, <2>2
  <1>11. \A k, l \in 1 .. N : InOrder(I)[k] = InOrder(I)[l] => k = l
    BY <1>8
  <1> QED  BY <1>1, <1>9, <1>10, <1>11 DEF N
-----------------------------------------------------------------------------
(* The choices of the split and of RTreePickBranch: a finite nonempty set  *)
(* has an element of greatest value, and a first one among equals.         *)
LEMMA GreatestExists ==
    ASSUME NEW D, IsFiniteSet(D), D # {}, NEW f, \A x \in D : f[x] \in Int
    PROVE  \E x \in D : \A y \in D : f[y] <= f[x]
  <1>1. PICK n \in Nat : ExistsBijection(1 .. n, D)
    BY FS_NatBijection
  <1>2. PICK b \in [1 .. n -> D] : \A x \in D : \E k \in 1 .. n : b[k] = x
    BY <1>1 DEF ExistsBijection, Bijection, Surjection
  <1> DEFINE S == {k \in 0 .. n : \E x \in D : \A j \in 1 .. k : f[b[j]] <= f[x]}
  <1>3. 0 \in S
    OBVIOUS
  <1>4. ASSUME NEW k \in 0 .. n - 1, k \in S PROVE k + 1 \in S
    <2>1. PICK x \in D : \A j \in 1 .. k : f[b[j]] <= f[x]
      BY <1>4
    <2>2. PICK z \in D : z = b[k + 1]
      BY <1>2
    <2>3. \A j \in 1 .. k : b[j] \in D /\ f[b[j]] \in Int
      BY <1>2
    <2>4. \A j \in 1 .. k + 1 : j \in 1 .. k \/ j = k + 1
      OBVIOUS
    <2>5. CASE f[z] <= f[x]
      <3>1. \A j \in 1 .. k + 1 : f[b[j]] <= f[x]
        BY <2>1, <2>2, <2>4, <2>5
      <3> QED  BY <3>1
    <2>6. CASE f[x] <= f[z]
      <3>1. f[x] \in Int /\ f[z] \in Int
        OBVIOUS
      <3>2. \A j \in 1 .. k : f[b[j]] <= f[z]
        BY <2>1, <2>3, <2>6, <3>1
      <3>3. f[b[k + 1]] <= f[z]
        BY <2>2, <3>1
      <3>4. \A j \in 1 .. k + 1 : f[b[j]] <= f[z]
        BY <2>4, <3>2, <3>3
      <3> QED  BY <3>4
    <2>7. f[x] \in Int /\ f[z] \in Int
      OBVIOUS
    <2> QED  BY <2>5, <2>6, <2>7
  <1>5. n \in S
    <2> HIDE DEF S
    <2>1. \A k \in 0 .. n : k \in S
      BY <1>3, <1>4, SetInduction
    <2> QED  BY <2>1
  <1> QED  BY <1>2, <1>5

(* The choice of Classify and RTreePickBranch exists: of the indexes with  *)
(* the greatest f those with the least g, and of these the first.          *)
LEMMA FirstOfBest ==
    ASSUME NEW D \in SUBSET Nat, IsFiniteSet(D), D # {},
           NEW f, \A x \in D : f[x] \in Int, NEW g, \A x \in D : g[x] \in Int
    PROVE  \E i \in D : \A j \in D \ {i} :
              \/ f[i] > f[j]
              \/ /\ f[i] = f[j]
                 /\ g[i] < g[j] \/ (g[i] = g[j] /\ i < j)
  <1>1. PICK x \in D : \A y \in D : f[y] <= f[x]
    BY GreatestExists
  <1> DEFINE E == {y \in D : f[y] = f[x]}
             h == [y \in E |-> -g[y]]
  <1>2. IsFiniteSet(E) /\ E # {} /\ \A y \in E : h[y] \in Int /\ h[y] = -g[y]
    <2>1. E \in SUBSET D /\ x \in E
      OBVIOUS
    <2>2. \A y \in E : h[y] \in Int /\ h[y] = -g[y]
      OBVIOUS
    <2> HIDE DEF E
    <2> QED  BY <2>1, <2>2, FS_Subset
  <1>3. PICK y \in E : \A z \in E : h[z] <= h[y]
    <2> HIDE DEF E, h
    <2> QED  BY <1>2, GreatestExists
  <1> DEFINE C == {z \in E : g[z] = g[y]}
  <1>4. PICK i \in C : \A m \in C : i <= m
    <2>1. C \in SUBSET Nat /\ y \in C
      OBVIOUS
    <2> HIDE DEF C
    <2> QED  BY <2>1, LeastNatural
  <1>5. i \in D /\ f[i] = f[x] /\ g[i] = g[y]
    OBVIOUS
  <1>6. ASSUME NEW j \in D \ {i}
        PROVE  \/ f[i] > f[j]
               \/ /\ f[i] = f[j]
                  /\ g[i] < g[j] \/ (g[i] = g[j] /\ i < j)
    <2>1. f[j] <= f[i] /\ f[i] \in Int /\ f[j] \in Int /\ g[i] \in Int /\ g[j] \in Int
          /\ i \in Nat /\ j \in Nat /\ i # j
      BY <1>1, <1>5
    <2>2. CASE f[j] # f[i]
      BY <2>1, <2>2
    <2>3. CASE f[j] = f[i]
      <3>1. j \in E /\ h[j] <= h[y] /\ h[j] = -g[j] /\ h[y] = -g[y]
        BY <1>2, <1>3, <1>5, <2>3
      <3> HIDE DEF h
      <3>2. g[i] <= g[j]
        BY <1>5, <2>1, <3>1
      <3>3. g[i] = g[j] => i <= j
        BY <1>4, <1>5, <3>1
      <3> QED  BY <2>1, <2>3, <3>2, <3>3
    <2> QED  BY <2>2, <2>3
  <1> QED  BY <1>5, <1>6

(* Volumes are integers.                                                   *)
LEMMA VolumeType ==
    ASSUME NEW r \in Rect
    PROVE  RTreeRectSphericalVolume(r) \in Int
  <1>1. r[1] \in Int /\ r[2] \in Int /\ r[3] \in Int /\ r[4] \in Int
    BY RectFacts
  <1> QED  BY <1>1 DEF RTreeRectSphericalVolume

(* _RTreePickSeeds picks one of the pairs.                                 *)
LEMMA MostWastefulType ==
    ASSUME NEW waste, IsFiniteSet(DOMAIN waste), DOMAIN waste # {},
           DOMAIN waste \in SUBSET (Nat \X Nat),
           \A p \in DOMAIN waste : waste[p] \in Int
    PROVE  MostWasteful(waste) \in DOMAIN waste
  <1> DEFINE D == DOMAIN waste
             Before(p, q) == p[1] < q[1] \/ (p[1] = q[1] /\ p[2] < q[2])
             Best(p) == \A q \in D \ {p} :
                           waste[p] > waste[q] \/ (waste[p] = waste[q] /\ Before(p, q))
  <1>1. PICK x \in D : \A y \in D : waste[y] <= waste[x]
    BY GreatestExists
  <1> DEFINE W == {y \in D : waste[y] = waste[x]}
             A == {p[1] : p \in W}
  <1>2. PICK a \in A : \A m \in A : a <= m
    <2>1. A \in SUBSET Nat /\ x[1] \in A
      OBVIOUS
    <2> HIDE DEF A
    <2> QED  BY <2>1, LeastNatural
  <1> DEFINE B == {p[2] : p \in {q \in W : q[1] = a}}
  <1>3. PICK b \in B : \A m \in B : b <= m
    <2>1. B \in SUBSET Nat /\ B # {}
      OBVIOUS
    <2> HIDE DEF B
    <2> QED  BY <2>1, LeastNatural
  <1>4. PICK p \in W : p[1] = a /\ p[2] = b
    OBVIOUS
  <1>5. ASSUME NEW q \in D \ {p}
        PROVE  waste[p] > waste[q] \/ (waste[p] = waste[q] /\ Before(p, q))
    <2>1. p \in Nat \X Nat /\ q \in Nat \X Nat /\ p # q
      OBVIOUS
    <2>2. p[1] \in Nat /\ p[2] \in Nat /\ q[1] \in Nat /\ q[2] \in Nat
          /\ ~(p[1] = q[1] /\ p[2] = q[2])
      BY <2>1
    <2>3. waste[q] <= waste[p] /\ waste[p] \in Int /\ waste[q] \in Int
      BY <1>1, <1>4
    <2>4. CASE waste[q] # waste[p]
      BY <2>3, <2>4
    <2>5. CASE waste[q] = waste[p]
      <3>1. q \in W
        BY <1>4, <2>5
      <3>2. p[1] <= q[1]
        BY <1>2, <1>4, <3>1
      <3>3. p[1] = q[1] => p[2] <= q[2]
        BY <1>3, <1>4, <3>1
      <3> QED  BY <2>2, <2>5, <3>2, <3>3
    <2> QED  BY <2>4, <2>5
  <1>6. \E r \in D : Best(r)
    BY <1>4, <1>5
  <1>7. MostWasteful(waste) = CHOOSE r \in D : Best(r)
    BY DEF MostWasteful
  <1> HIDE DEF Best
  <1>8. MostWasteful(waste) \in D
    BY <1>6, <1>7
  <1> QED  BY <1>8

(* Classify adds one of the branches that are left to one of the groups.   *)
LEMMA ClassifyFacts ==
    ASSUME NEW diff, DOMAIN diff \in SUBSET Nat, IsFiniteSet(DOMAIN diff), DOMAIN diff # {},
           \A i \in DOMAIN diff : diff[i] \in Int,
           NEW g0, IsFiniteSet(g0), NEW g1, IsFiniteSet(g1)
    PROVE  \E c \in DOMAIN diff : \/ Classify(diff, g0, g1) = <<g0 \cup {c}, g1>>
                                  \/ Classify(diff, g0, g1) = <<g0, g1 \cup {c}>>
  <1> DEFINE D == DOMAIN diff
             strength(i) == IF diff[i] >= 0 THEN diff[i] ELSE -diff[i]
             size(i) == Cardinality(IF diff[i] >= 0 THEN g0 ELSE g1)
             Best(i) == \A j \in D \ {i} :
                           \/ strength(i) > strength(j)
                           \/ /\ strength(i) = strength(j)
                              /\ size(i) < size(j) \/ (size(i) = size(j) /\ i < j)
             f == [i \in D |-> strength(i)]
             g == [i \in D |-> size(i)]
             c == CHOOSE i \in D : Best(i)
  <1>1. Cardinality(g0) \in Int /\ Cardinality(g1) \in Int
    BY FS_CardinalityType
  <1>2. \A i \in D : /\ f[i] = strength(i) /\ g[i] = size(i)
                     /\ f[i] \in Int /\ g[i] \in Int
    BY <1>1
  <1>3. PICK i \in D : \A j \in D \ {i} :
              \/ f[i] > f[j]
              \/ /\ f[i] = f[j]
                 /\ g[i] < g[j] \/ (g[i] = g[j] /\ i < j)
    <2> HIDE DEF f, g
    <2> QED  BY <1>2, FirstOfBest
  <1>4. Best(i)
    <2> HIDE DEF f, g, strength, size
    <2> QED  BY <1>2, <1>3
  <1>5. c \in D
    <2> HIDE DEF Best
    <2> QED  BY <1>4
  <1>6. Classify(diff, g0, g1) = IF diff[c] >= 0 THEN <<g0 \cup {c}, g1>> ELSE <<g0, g1 \cup {c}>>
    BY DEF Classify
  <1> HIDE DEF c
  <1> QED  BY <1>5, <1>6
-----------------------------------------------------------------------------
(* The split. The indexes of BranchBuf, and what it holds.                 *)
BufIndex == 1 .. MAXCARD + 1

BufOK(buf, l) ==
    /\ DOMAIN buf = BufIndex
    /\ \A i \in BufIndex : Sound(l, buf[i])
    /\ \A i, j \in BufIndex : i # j => Apart(Held(l, buf[i]), Held(l, buf[j]))

(* Two groups neither of which is more than full.                          *)
Groups(g) ==
    /\ g \in (SUBSET BufIndex) \X (SUBSET BufIndex)
    /\ g[1] \cap g[2] = {}
    /\ Cardinality(g[1]) <= MAXCARD + 1 - MINFILL
    /\ Cardinality(g[2]) <= MAXCARD + 1 - MINFILL

Settled(g) == Full(g[1]) \/ Full(g[2]) \/ Left(g) = {}

(* The branch buffer has one branch more than a node.                      *)
LEMMA BufFacts ==
    /\ BufIndex \in SUBSET Nat /\ IsFiniteSet(BufIndex) /\ Cardinality(BufIndex) = MAXCARD + 1
    /\ \A I \in SUBSET BufIndex : IsFiniteSet(I) /\ Cardinality(I) \in Nat
  <1>1. MAXCARD \in Nat
    BY MinFillFacts
  <1>2. IsFiniteSet(BufIndex) /\ Cardinality(BufIndex) = MAXCARD + 1
    <2>1. PICK b \in Int : b = MAXCARD + 1
      BY <1>1
    <2>2. PICK a \in Int : a = 1
      OBVIOUS
    <2>3. IsFiniteSet(a .. b) /\ Cardinality(a .. b) = IF a > b THEN 0 ELSE b - a + 1
      BY FS_Interval
    <2> QED  BY <1>1, <2>1, <2>2, <2>3 DEF BufIndex
  <1>3. BufIndex \in SUBSET Nat
    BY <1>1 DEF BufIndex
  <1>4. \A I \in SUBSET BufIndex : IsFiniteSet(I) /\ Cardinality(I) \in Nat
    BY <1>2, FS_Subset, FS_CardinalityType
  <1> QED  BY <1>2, <1>3, <1>4

(* The volume of a group of the branch buffer.                             *)
LEMMA VolumeOfGroup ==
    ASSUME NEW buf, \A i \in BufIndex : ValidRect(buf[i].mbr), NEW I \in SUBSET BufIndex
    PROVE  Volume(buf, I) \in Int
  <1>1. CoverOf(buf, I) \in Rect
    BY CoverHull DEF BufIndex
  <1> QED  BY <1>1, VolumeType DEF Volume

(* The seeds are two different branches of the buffer.                     *)
LEMMA PickSeedsFacts ==
    ASSUME NEW buf, DOMAIN buf = BufIndex, \A i \in BufIndex : ValidRect(buf[i].mbr)
    PROVE  PickSeeds(buf)[1] \in BufIndex /\ PickSeeds(buf)[2] \in BufIndex
              /\ PickSeeds(buf)[1] # PickSeeds(buf)[2]
  <1> DEFINE D == {q \in BufIndex \X BufIndex : q[1] < q[2]}
             waste == [p \in D |-> Volume(buf, {p[1], p[2]}) - Volume(buf, {p[1]})
                                                             - Volume(buf, {p[2]})]
  <1>1. PickSeeds(buf) = MostWasteful(waste)
    BY DEF PickSeeds
  <1>2. DOMAIN waste = D
    OBVIOUS
  <1>3. IsFiniteSet(D)
    <2>1. IsFiniteSet(BufIndex \X BufIndex)
      BY BufFacts, FS_Product
    <2>2. D \in SUBSET (BufIndex \X BufIndex)
      OBVIOUS
    <2> HIDE DEF D
    <2> QED  BY <2>1, <2>2, FS_Subset
  <1>4. <<1, 2>> \in D
    BY MinFillFacts DEF BufIndex
  <1>5. D \in SUBSET (Nat \X Nat)
    BY BufFacts
  <1>6. ASSUME NEW p \in D PROVE waste[p] \in Int
    <2>1. p[1] \in BufIndex /\ p[2] \in BufIndex
      OBVIOUS
    <2>2. {p[1], p[2]} \in SUBSET BufIndex /\ {p[1]} \in SUBSET BufIndex /\ {p[2]} \in SUBSET BufIndex
      BY <2>1
    <2>3. Volume(buf, {p[1], p[2]}) \in Int /\ Volume(buf, {p[1]}) \in Int /\ Volume(buf, {p[2]}) \in Int
      BY <2>2, VolumeOfGroup
    <2> QED  BY <2>3
  <1>7. MostWasteful(waste) \in D
    <2> HIDE DEF D, waste
    <2> QED  BY <1>2, <1>3, <1>4, <1>5, <1>6, MostWastefulType
  <1> HIDE DEF waste
  <1>8. PICK p \in D : p = PickSeeds(buf)
    BY <1>1, <1>7
  <1>9. p[1] \in BufIndex /\ p[2] \in BufIndex /\ p[1] < p[2] /\ p[1] \in Nat /\ p[2] \in Nat
    BY <1>8, BufFacts
  <1> QED  BY <1>8, <1>9

(* A round of _RTreeMethodZero puts one more branch into a group, unless   *)
(* the loop is over.                                                       *)
LEMMA GrowGroupsFacts ==
    ASSUME NEW buf, \A i \in BufIndex : ValidRect(buf[i].mbr), NEW g, Groups(g)
    PROVE  /\ Groups(GrowGroups(buf, g))
           /\ Settled(g) => GrowGroups(buf, g) = g
           /\ ~Settled(g) => Cardinality(GrowGroups(buf, g)[1]) + Cardinality(GrowGroups(buf, g)[2])
                                = Cardinality(g[1]) + Cardinality(g[2]) + 1
  <1>1. CASE Settled(g)
    BY <1>1 DEF Settled, GrowGroups
  <1>2. CASE ~Settled(g)
    <2>1. /\ g[1] \in SUBSET BufIndex /\ g[2] \in SUBSET BufIndex /\ g[1] \cap g[2] = {}
          /\ IsFiniteSet(g[1]) /\ IsFiniteSet(g[2])
          /\ Cardinality(g[1]) \in Nat /\ Cardinality(g[2]) \in Nat
      BY BufFacts DEF Groups
    <2>2. /\ Left(g) \in SUBSET BufIndex /\ Left(g) # {} /\ IsFiniteSet(Left(g))
          /\ Left(g) \cap (g[1] \cup g[2]) = {} /\ Left(g) \in SUBSET Nat
      BY <1>2, BufFacts DEF Settled, Left, BufIndex
    <2> DEFINE diff == [i \in Left(g) |-> Growth(buf, g[2], i) - Growth(buf, g[1], i)]
               h == GrowGroups(buf, g)
    <2>3. h = Classify(diff, g[1], g[2])
      BY <1>2 DEF GrowGroups, Settled
    <2>4. ASSUME NEW i \in Left(g) PROVE diff[i] \in Int
      <3>1. /\ g[1] \cup {i} \in SUBSET BufIndex /\ g[2] \cup {i} \in SUBSET BufIndex
        BY <2>1, <2>2
      <3>2. /\ Volume(buf, g[1] \cup {i}) \in Int /\ Volume(buf, g[2] \cup {i}) \in Int
            /\ Volume(buf, g[1]) \in Int /\ Volume(buf, g[2]) \in Int
        BY <2>1, <3>1, VolumeOfGroup
      <3> QED  BY <3>2 DEF Growth
    <2>5. DOMAIN diff = Left(g)
      OBVIOUS
    <2> HIDE DEF diff, h
    <2>6. PICK c \in Left(g) : h = <<g[1] \cup {c}, g[2]>> \/ h = <<g[1], g[2] \cup {c}>>
      BY <2>1, <2>2, <2>3, <2>4, <2>5, ClassifyFacts
    <2>7. c \in BufIndex /\ c \notin g[1] /\ c \notin g[2]
      BY <2>2
    <2>8. /\ Cardinality(g[1] \cup {c}) = Cardinality(g[1]) + 1
          /\ Cardinality(g[2] \cup {c}) = Cardinality(g[2]) + 1
      BY <2>1, <2>7, FS_AddElement
    <2>9. /\ Cardinality(g[1]) + 1 <= MAXCARD + 1 - MINFILL
          /\ Cardinality(g[2]) + 1 <= MAXCARD + 1 - MINFILL
      BY <1>2, <2>1, MinFillFacts DEF Settled, Full
    <2>10. CASE h = <<g[1] \cup {c}, g[2]>>
      <3>1. Groups(h)
        BY <2>1, <2>7, <2>8, <2>9, <2>10 DEF Groups
      <3>2. Cardinality(h[1]) + Cardinality(h[2]) = Cardinality(g[1]) + Cardinality(g[2]) + 1
        BY <2>1, <2>8, <2>10
      <3> QED  BY <1>2, <3>1, <3>2 DEF h
    <2>11. CASE h = <<g[1], g[2] \cup {c}>>
      <3>1. Groups(h)
        BY <2>1, <2>7, <2>8, <2>9, <2>11 DEF Groups
      <3>2. Cardinality(h[1]) + Cardinality(h[2]) = Cardinality(g[1]) + Cardinality(g[2]) + 1
        BY <2>1, <2>8, <2>11
      <3> QED  BY <1>2, <3>1, <3>2 DEF h
    <2> QED  BY <2>6, <2>10, <2>11
  <1> QED  BY <1>1, <1>2

(* The groups of a split share out the buffer, and each makes a node that  *)
(* is neither underfull nor overfull.                                      *)
LEMMA MethodZeroFacts ==
    ASSUME NEW buf, DOMAIN buf = BufIndex, \A i \in BufIndex : ValidRect(buf[i].mbr)
    PROVE  \E A \in SUBSET BufIndex, B \in SUBSET BufIndex :
              /\ MethodZero(buf) = <<A, B>> /\ A \cup B = BufIndex /\ A \cap B = {}
              /\ Cardinality(A) \in MINFILL .. MAXCARD /\ Cardinality(B) \in MINFILL .. MAXCARD
  <1> DEFINE N == MAXCARD - 1
             a == <<{PickSeeds(buf)[1]}, {PickSeeds(buf)[2]}>>
             T == {g \in (SUBSET BufIndex) \X (SUBSET BufIndex) : Groups(g)}
             Eq(F) == F = [k \in 0 .. N |-> IF k = 0 THEN a ELSE GrowGroups(buf, F[k-1])]
             step == [x \in (1 .. N) \X T |-> GrowGroups(buf, x[2])]
             most == MAXCARD + 1 - MINFILL
  <1>1. N \in Nat /\ N >= 3 /\ N + 2 = MAXCARD + 1
    BY RTreeAssumption
  <1>2. \A g : g \in T <=> Groups(g)
    BY DEF Groups
  <1>3. a \in T /\ Cardinality(a[1]) = 1 /\ Cardinality(a[2]) = 1
    <2>1. PICK s, t : s = PickSeeds(buf)[1] /\ t = PickSeeds(buf)[2]
      OBVIOUS
    <2>2. s \in BufIndex /\ t \in BufIndex /\ s # t
      BY <2>1, PickSeedsFacts
    <2>3. Cardinality({s}) = 1 /\ Cardinality({t}) = 1
      BY FS_Singleton
    <2>4. Groups(<<{s}, {t}>>)
      BY <2>2, <2>3, MinFillFacts DEF Groups
    <2>5. a = <<{s}, {t}>>
      BY <2>1
    <2> HIDE DEF a, T
    <2> QED  BY <1>2, <2>3, <2>4, <2>5
  <1> HIDE DEF T, a, N
  <1>4. step \in Steps(N, T)
    <2>1. \A x \in (1 .. N) \X T : GrowGroups(buf, x[2]) \in T
      BY <1>2, GrowGroupsFacts
    <2> QED  BY <2>1 DEF Steps
  <1>5. \A k \in 1 .. N, g \in T : step[<<k, g>>] = GrowGroups(buf, g)
    OBVIOUS
  <1> HIDE DEF step
  <1>6. PICK G \in [0 .. N -> T] : Continues(G, N, a, step)
    BY <1>1, <1>3, <1>4, RecursionExists
  <1>7. \E F : Eq(F)
    <2>1. ASSUME NEW k \in 0 .. N
          PROVE  G[k] = IF k = 0 THEN a ELSE GrowGroups(buf, G[k-1])
      <3>1. CASE k = 0
        BY <1>6, <3>1 DEF Continues
      <3>2. CASE k # 0
        <4>1. k \in 1 .. N /\ k - 1 \in 0 .. N
          BY <1>1, <3>2
        <4>2. G[k-1] \in T /\ G[k] = step[<<k, G[k-1]>>]
          BY <1>6, <4>1 DEF Continues
        <4> QED  BY <1>5, <3>2, <4>1, <4>2
      <3> QED  BY <3>1, <3>2
    <2>2. Eq(G)
      BY <2>1
    <2> QED  BY <2>2
  <1>8. PICK F : /\ Eq(F)
                 /\ MethodZero(buf) = IF Full(F[N][1]) THEN <<F[N][1], F[N][2] \cup Left(F[N])>>
                                      ELSE <<F[N][1] \cup Left(F[N]), F[N][2]>>
    <2>1. PICK F : F = CHOOSE H : Eq(H)
      OBVIOUS
    <2>2. Eq(F)
      <3> HIDE DEF Eq
      <3> QED  BY <1>7, <2>1
    <2>3. MethodZero(buf) = IF Full(F[N][1]) THEN <<F[N][1], F[N][2] \cup Left(F[N])>>
                            ELSE <<F[N][1] \cup Left(F[N]), F[N][2]>>
      BY <2>1 DEF MethodZero, FillUp, SeedGroups, N, a
    <2> QED  BY <2>2, <2>3
  <1>9. /\ F[0] = a
        /\ \A k \in 0 .. N - 1 : F[k + 1] = GrowGroups(buf, F[k])
    <2>1. \A k \in 0 .. N : F[k] = IF k = 0 THEN a ELSE GrowGroups(buf, F[k-1])
      BY <1>8
    <2>2. \A k \in 0 .. N - 1 : k + 1 \in 0 .. N /\ k + 1 # 0 /\ (k + 1) - 1 = k
      BY <1>1
    <2>3. 0 \in 0 .. N
      BY <1>1
    <2> QED  BY <2>1, <2>2, <2>3
  <1> HIDE DEF Eq
  <1> DEFINE Size(g) == Cardinality(g[1]) + Cardinality(g[2])
             S == {k \in 0 .. N : Groups(F[k]) /\ (Settled(F[k]) \/ Size(F[k]) = k + 2)}
  <1>10. 0 \in S
    BY <1>1, <1>2, <1>3, <1>9
  <1>11. ASSUME NEW k \in 0 .. N - 1, k \in S PROVE k + 1 \in S
    <2>1. k + 1 \in 0 .. N /\ F[k + 1] = GrowGroups(buf, F[k]) /\ Groups(F[k])
      BY <1>1, <1>9, <1>11
    <2>2. CASE Settled(F[k])
      BY <2>1, <2>2, GrowGroupsFacts
    <2>3. CASE ~Settled(F[k])
      <3>1. Size(F[k]) = k + 2
        BY <1>11, <2>3
      <3>2. Groups(F[k + 1]) /\ Size(F[k + 1]) = Size(F[k]) + 1
        BY <2>1, <2>3, GrowGroupsFacts
      <3>3. (k + 2) + 1 = (k + 1) + 2
        OBVIOUS
      <3> HIDE DEF Size
      <3> QED  BY <2>1, <3>1, <3>2, <3>3
    <2> QED  BY <2>2, <2>3
  <1>12. N \in S
    <2> HIDE DEF S
    <2>1. \A k \in 0 .. N : k \in S
      BY <1>1, <1>10, <1>11, SetInduction
    <2> QED  BY <1>1, <2>1
  <1>13. PICK g : g = F[N]
    OBVIOUS
  <1>14. /\ g[1] \in SUBSET BufIndex /\ g[2] \in SUBSET BufIndex /\ g[1] \cap g[2] = {}
         /\ IsFiniteSet(g[1]) /\ IsFiniteSet(g[2])
         /\ Cardinality(g[1]) \in Nat /\ Cardinality(g[2]) \in Nat
         /\ Cardinality(g[1]) <= most /\ Cardinality(g[2]) <= most
    BY <1>12, <1>13, BufFacts DEF Groups
  <1>15. Settled(g)
    <2>1. ASSUME Size(g) = MAXCARD + 1 PROVE Left(g) = {}
      <3>1. g[1] \cup g[2] \in SUBSET BufIndex
        BY <1>14
      <3>2. Cardinality(g[1] \cup g[2]) = Size(g)
        <4>1. Cardinality(g[1] \cup g[2])
                 = Cardinality(g[1]) + Cardinality(g[2]) - Cardinality(g[1] \cap g[2])
          BY <1>14, FS_Union
        <4>2. Cardinality(g[1] \cap g[2]) = 0
          BY <1>14, FS_EmptySet
        <4> QED  BY <1>14, <4>1, <4>2
      <3>3. g[1] \cup g[2] = BufIndex
        BY <2>1, <3>1, <3>2, BufFacts, FS_Subset
      <3> QED  BY <3>3 DEF Left, BufIndex
    <2>2. Settled(g) \/ Size(g) = N + 2
      BY <1>12, <1>13
    <2> QED  BY <1>1, <2>1, <2>2 DEF Settled
  <1>16. ASSUME NEW i \in {1, 2}
         PROVE  /\ Cardinality(BufIndex \ g[i]) = MAXCARD + 1 - Cardinality(g[i])
                /\ Cardinality(BufIndex \ g[i]) >= MINFILL
    <2>1. BufIndex \cap g[i] = g[i]
      BY <1>14
    <2>2. Cardinality(BufIndex \ g[i]) = MAXCARD + 1 - Cardinality(g[i])
      <3>1. Cardinality(BufIndex \ g[i]) = Cardinality(BufIndex) - Cardinality(BufIndex \cap g[i])
        BY BufFacts, FS_Difference
      <3>2. Cardinality(BufIndex \cap g[i]) = Cardinality(g[i])
        BY <2>1
      <3>3. Cardinality(BufIndex) = MAXCARD + 1
        BY BufFacts
      <3>4. MAXCARD \in Int /\ Cardinality(g[i]) \in Int
        BY <1>14, MinFillFacts
      <3> QED  BY <3>1, <3>2, <3>3, <3>4
    <2>3. Cardinality(g[i]) \in Nat /\ Cardinality(g[i]) <= most
      BY <1>14
    <2> QED  BY <2>2, <2>3, MinFillFacts
  <1>17. Left(g) = BufIndex \ (g[1] \cup g[2])
    BY DEF Left, BufIndex
  <1>18. CASE Full(g[1])
    <2>1. Cardinality(g[1]) >= MINFILL
      BY <1>14, <1>18, MinFillFacts DEF Full
    <2>2. g[2] \cup Left(g) = BufIndex \ g[1]
      BY <1>14, <1>17
    <2>3. MethodZero(buf) = <<g[1], BufIndex \ g[1]>>
      BY <1>8, <1>13, <1>18, <2>2
    <2>4. PICK A, B : A = g[1] /\ B = BufIndex \ g[1]
      OBVIOUS
    <2>5. Cardinality(A) \in MINFILL .. MAXCARD /\ Cardinality(B) \in MINFILL .. MAXCARD
      BY <1>14, <1>16, <2>1, <2>4, MinFillFacts
    <2>6. A \in SUBSET BufIndex /\ B \in SUBSET BufIndex /\ A \cup B = BufIndex /\ A \cap B = {}
      BY <1>14, <2>4
    <2> QED  BY <2>3, <2>4, <2>5, <2>6
  <1>19. CASE ~Full(g[1])
    <2>1. Cardinality(g[2]) >= MINFILL
      <3>1. CASE Full(g[2])
        BY <1>14, <3>1, MinFillFacts DEF Full
      <3>2. CASE Left(g) = {}
        <4>1. g[2] = BufIndex \ g[1]
          BY <1>14, <1>17, <3>2
        <4> QED  BY <1>16, <4>1
      <3> QED  BY <1>15, <1>19, <3>1, <3>2 DEF Settled
    <2>2. g[1] \cup Left(g) = BufIndex \ g[2]
      BY <1>14, <1>17
    <2>3. MethodZero(buf) = <<BufIndex \ g[2], g[2]>>
      BY <1>8, <1>13, <1>19, <2>2
    <2>4. PICK A, B : A = BufIndex \ g[2] /\ B = g[2]
      OBVIOUS
    <2>5. Cardinality(A) \in MINFILL .. MAXCARD /\ Cardinality(B) \in MINFILL .. MAXCARD
      BY <1>14, <1>16, <2>1, <2>4, MinFillFacts
    <2>6. A \in SUBSET BufIndex /\ B \in SUBSET BufIndex /\ A \cup B = BufIndex /\ A \cap B = {}
      BY <1>14, <2>4
    <2> QED  BY <2>3, <2>4, <2>5, <2>6
  <1> QED  BY <1>18, <1>19

(* The node made of a group of the branch buffer.                          *)
LEMMA LoadNodeGood ==
    ASSUME NEW l \in Nat, NEW buf, BufOK(buf, l), NEW I \in SUBSET BufIndex,
           Cardinality(I) <= MAXCARD
    PROVE  /\ Good(LoadNode(buf, I, l)) /\ LoadNode(buf, I, l).level = l
           /\ Count(LoadNode(buf, I, l)) = Cardinality(I)
           /\ EntriesOf(LoadNode(buf, I, l)) = UNION {Held(l, buf[i]) : i \in I}
  <1>1. PICK n : n = LoadNode(buf, I, l)
    OBVIOUS
  <1>2. PICK f : f = InOrder(I)
    OBVIOUS
  <1>3. PICK c \in Nat : c = Cardinality(I)
    BY BufFacts
  <1>4. /\ f \in [1 .. c -> I]
        /\ \A j, k \in 1 .. c : f[j] = f[k] => j = k
        /\ \A i \in I : \E k \in 1 .. c : f[k] = i
    <2>1. I \in SUBSET Nat /\ IsFiniteSet(I)
      BY BufFacts
    <2> QED  BY <1>2, <1>3, <2>1, InOrderFacts
  <1>5. n.level = l /\ Slots(n) = 1 .. c /\ \A k \in 1 .. c : n.branch[k] = buf[f[k]]
    BY <1>1, <1>2, <1>3 DEF LoadNode, Slots
  <1>6. Slots(n) \subseteq Slot
    BY <1>3, <1>5, MinFillFacts DEF Slot
  <1>7. \A k \in 1 .. c : f[k] \in BufIndex
    BY <1>4
  <1>8. \A k \in Slots(n) : Sound(n.level, n.branch[k])
    BY <1>5, <1>7 DEF BufOK
  <1>9. ASSUME NEW j \in Slots(n), NEW k \in Slots(n), j # k
        PROVE  Apart(Held(n.level, n.branch[j]), Held(n.level, n.branch[k]))
    <2>1. f[j] # f[k] /\ f[j] \in BufIndex /\ f[k] \in BufIndex
      BY <1>4, <1>5, <1>7, <1>9
    <2>2. Apart(Held(l, buf[f[j]]), Held(l, buf[f[k]]))
      BY <2>1 DEF BufOK
    <2> QED  BY <1>5, <2>2
  <1>10. Good(n)
    BY <1>5, <1>6, <1>8, <1>9, GoodFolds
  <1>11. EntriesOf(n) = UNION {Held(l, buf[i]) : i \in I}
    <2>1. EntriesOf(n) = UNION {Held(l, n.branch[k]) : k \in 1 .. c}
      BY <1>5, <1>10, EntriesUnfold
    <2>2. {Held(l, n.branch[k]) : k \in 1 .. c} = {Held(l, buf[i]) : i \in I}
      BY <1>4, <1>5
    <2> QED  BY <2>1, <2>2
  <1>12. Count(n) = Cardinality(I)
    <2>1. PICK a \in Int : a = 1
      OBVIOUS
    <2>2. Cardinality(a .. c) = IF a > c THEN 0 ELSE c - a + 1
      BY FS_Interval
    <2>3. Cardinality(1 .. c) = c
      BY <2>1, <2>2
    <2> QED  BY <1>3, <1>5, <2>3 DEF Count
  <1> QED  BY <1>1, <1>5, <1>10, <1>11, <1>12

(* What becomes of a node that takes a branch: r is the node, or the two   *)
(* nodes it was split into, with the entries E.                            *)
Taken(r, l, c, E) ==
    \/ /\ Len(r) = 1 /\ Good(r[1]) /\ r[1].level = l /\ Count(r[1]) >= c
       /\ Count(r[1]) >= 1 /\ EntriesOf(r[1]) = E
    \/ /\ Len(r) = 2 /\ Good(r[1]) /\ Good(r[2]) /\ r[1].level = l /\ r[2].level = l
       /\ Count(r[1]) >= MINFILL /\ Count(r[2]) >= MINFILL
       /\ EntriesOf(r[1]) \cup EntriesOf(r[2]) = E
       /\ Apart(EntriesOf(r[1]), EntriesOf(r[2]))

(* RTreeSplitNode shares out the branches between two nodes.               *)
LEMMA SplitGood ==
    ASSUME NEW n, Good(n), Count(n) >= MAXCARD, NEW br, Sound(n.level, br),
           Apart(EntriesOf(n), Held(n.level, br))
    PROVE  Taken(RTreeSplitNode(n, br), n.level, Count(n),
                 EntriesOf(n) \cup Held(n.level, br))
  <1>1. PICK l \in Nat : l = n.level
    BY DEF Good
  <1>2. PICK buf : buf = BranchBuf(n, br)
    OBVIOUS
  <1>3. /\ NodeOK(n)
        /\ \A i \in Slots(n) : Sound(l, n.branch[i])
        /\ \A i \in Slots(n) : Apart(Held(l, n.branch[i]), Held(l, br))
    <2>1. NodeOK(n) /\ \A i \in Slots(n) : Sound(l, n.branch[i])
      BY <1>1, GoodUnfolds
    <2>2. \A i \in Slots(n) : Held(l, n.branch[i]) \subseteq EntriesOf(n)
      BY <1>1, EntriesUnfold
    <2> QED  BY <1>1, <2>1, <2>2 DEF Apart
  <1>4. Slots(n) = Slot
    <2>1. Slots(n) \in SUBSET Slot /\ Cardinality(Slots(n)) <= MAXCARD /\ Count(n) \in Nat
      BY <1>3, CountFacts DEF NodeOK, Count
    <2>2. Cardinality(Slots(n)) = Cardinality(Slot)
      BY <2>1, MinFillFacts DEF Count
    <2> QED  BY <2>1, <2>2, MinFillFacts, FS_Subset
  <1>5. /\ DOMAIN buf = BufIndex /\ BufIndex = Slot \cup {MAXCARD + 1} /\ MAXCARD + 1 \notin Slot
        /\ \A i \in Slot : buf[i] = n.branch[i]
        /\ buf[MAXCARD + 1] = br
    <2>1. MAXCARD + 1 \notin Slot /\ BufIndex = Slot \cup {MAXCARD + 1}
      BY MinFillFacts DEF Slot, BufIndex
    <2>2. buf = [i \in BufIndex |-> IF i \in Slot THEN n.branch[i] ELSE br]
      BY <1>2 DEF BranchBuf, BufIndex
    <2> QED  BY <2>1, <2>2
  <1>6. BufOK(buf, l)
    <2>1. \A i \in BufIndex : Sound(l, buf[i])
      BY <1>1, <1>3, <1>4, <1>5
    <2>2. ASSUME NEW i \in BufIndex, NEW j \in BufIndex, i # j
          PROVE  Apart(Held(l, buf[i]), Held(l, buf[j]))
      <3>1. CASE i = MAXCARD + 1
        <4>1. j \in Slot
          BY <1>5, <2>2, <3>1
        <4>2. Apart(Held(l, n.branch[j]), Held(l, br))
          BY <1>3, <1>4, <4>1
        <4> QED  BY <1>5, <3>1, <4>1, <4>2, ApartSym
      <3>2. CASE j = MAXCARD + 1
        <4>1. i \in Slot
          BY <1>5, <2>2, <3>2
        <4>2. Apart(Held(l, n.branch[i]), Held(l, br))
          BY <1>3, <1>4, <4>1
        <4> QED  BY <1>5, <3>2, <4>1, <4>2
      <3>3. CASE i # MAXCARD + 1 /\ j # MAXCARD + 1
        <4>1. i \in Slot /\ j \in Slot
          BY <1>5, <3>3
        <4>2. Apart(Held(l, n.branch[i]), Held(l, n.branch[j]))
          BY <1>1, <1>3, <1>4, <2>2, <4>1 DEF NodeOK
        <4> QED  BY <1>5, <4>1, <4>2
      <3> QED  BY <3>1, <3>2, <3>3
    <2> QED  BY <1>5, <2>1, <2>2 DEF BufOK
  <1>7. UNION {Held(l, buf[i]) : i \in BufIndex} = EntriesOf(n) \cup Held(l, br)
    <2>1. EntriesOf(n) = UNION {Held(l, n.branch[i]) : i \in Slot}
      BY <1>1, <1>4, EntriesUnfold
    <2>2. \A e : (\E i \in BufIndex : e \in Held(l, buf[i]))
                   <=> (\E i \in Slot : e \in Held(l, n.branch[i])) \/ e \in Held(l, br)
      BY <1>5
    <2> QED  BY <2>1, <2>2
  <1>8. PICK A \in SUBSET BufIndex, B \in SUBSET BufIndex :
              /\ MethodZero(buf) = <<A, B>> /\ A \cup B = BufIndex /\ A \cap B = {}
              /\ Cardinality(A) \in MINFILL .. MAXCARD /\ Cardinality(B) \in MINFILL .. MAXCARD
    <2>1. \A i \in BufIndex : ValidRect(buf[i].mbr)
      BY <1>6 DEF BufOK, Sound, BranchOK
    <2> QED  BY <1>5, <2>1, MethodZeroFacts
  <1>9. PICK p, q : p = LoadNode(buf, A, l) /\ q = LoadNode(buf, B, l)
    OBVIOUS
  <1>10. RTreeSplitNode(n, br) = <<p, q>>
    BY <1>1, <1>2, <1>8, <1>9 DEF RTreeSplitNode, LoadNodes
  <1>11. /\ Cardinality(A) <= MAXCARD /\ Cardinality(B) <= MAXCARD
         /\ Cardinality(A) >= MINFILL /\ Cardinality(B) >= MINFILL
    BY <1>8, MinFillFacts
  <1>12. /\ Good(p) /\ p.level = l /\ Count(p) >= MINFILL
         /\ EntriesOf(p) = UNION {Held(l, buf[i]) : i \in A}
    BY <1>6, <1>9, <1>11, LoadNodeGood
  <1>13. /\ Good(q) /\ q.level = l /\ Count(q) >= MINFILL
         /\ EntriesOf(q) = UNION {Held(l, buf[i]) : i \in B}
    BY <1>6, <1>9, <1>11, LoadNodeGood
  <1>14. EntriesOf(p) \cup EntriesOf(q) = EntriesOf(n) \cup Held(l, br)
    <2>1. \A e : (\E i \in BufIndex : e \in Held(l, buf[i]))
                   <=> (\E i \in A : e \in Held(l, buf[i])) \/ (\E i \in B : e \in Held(l, buf[i]))
      BY <1>8
    <2>2. UNION {Held(l, buf[i]) : i \in BufIndex} = EntriesOf(p) \cup EntriesOf(q)
      BY <1>12, <1>13, <2>1
    <2> QED  BY <1>7, <2>2
  <1>15. Apart(EntriesOf(p), EntriesOf(q))
    <2>1. \A i \in A, j \in B : Apart(Held(l, buf[i]), Held(l, buf[j]))
      BY <1>6, <1>8 DEF BufOK
    <2> QED  BY <1>12, <1>13, <2>1 DEF Apart
  <1>16. PICK r : r = RTreeSplitNode(n, br)
    OBVIOUS
  <1>17. Len(r) = 2 /\ r[1] = p /\ r[2] = q
    BY <1>10, <1>16
  <1>18. Taken(r, l, Count(n), EntriesOf(n) \cup Held(l, br))
    BY <1>12, <1>13, <1>14, <1>15, <1>17 DEF Taken
  <1> QED  BY <1>1, <1>16, <1>18

(* RTreeAddBranch keeps what was there and the new branch.                 *)
LEMMA AddBranchGood ==
    ASSUME NEW n, Good(n), NEW br, Sound(n.level, br),
           Apart(EntriesOf(n), Held(n.level, br))
    PROVE  Taken(RTreeAddBranch(br, n), n.level, Count(n),
                 EntriesOf(n) \cup Held(n.level, br))
  <1>1. Slots(n) \subseteq Slot /\ IsFiniteSet(Slots(n)) /\ Count(n) \in Nat
    BY GoodUnfolds, CountFacts DEF NodeOK
  <1>2. CASE Count(n) < MAXCARD
    <2> DEFINE Free == Slot \ Slots(n)
    <2>1. Free # {}
      <3>1. ASSUME Free = {} PROVE FALSE
        <4>1. Slots(n) = Slot
          BY <1>1, <3>1
        <4> QED  BY <1>2, <4>1, MinFillFacts DEF Count
      <3> QED  BY <3>1
    <2>2. Free \in SUBSET Nat
      BY MinFillFacts DEF Slot
    <2>3. PICK i \in Free : i = Min(Free)
      <3> HIDE DEF Free
      <3>1. \E k \in Free : \A m \in Free : k <= m
        BY <2>1, <2>2, LeastNatural
      <3> QED  BY <3>1 DEF Min
    <2>4. i \in Slot /\ i \notin Slots(n)
      BY <2>3
    <2>5. PICK m : m = SetBranch(n, i, br)
      OBVIOUS
    <2>6. RTreeAddBranch(br, n) = <<m>>
      BY <1>2, <2>3, <2>5 DEF RTreeAddBranch
    <2>7. Rest(n, i) = EntriesOf(n)
      <3>1. Slots(n) \ {i} = Slots(n)
        BY <2>4
      <3> QED  BY <3>1, EntriesUnfold DEF Rest
    <2>8. /\ Good(m) /\ m.level = n.level /\ Slots(m) = Slots(n) \cup {i}
          /\ EntriesOf(m) = EntriesOf(n) \cup Held(n.level, br)
      BY <2>4, <2>5, <2>7, SetBranchGood
    <2>9. Count(m) = Count(n) + 1
      BY <1>1, <2>4, <2>8, FS_AddElement DEF Count
    <2>10. PICK r : r = RTreeAddBranch(br, n)
      OBVIOUS
    <2>11. Len(r) = 1 /\ r[1] = m
      BY <2>6, <2>10
    <2>12. Taken(r, n.level, Count(n), EntriesOf(n) \cup Held(n.level, br))
      BY <1>1, <2>8, <2>9, <2>11 DEF Taken
    <2> QED  BY <2>10, <2>12
  <1>3. CASE ~(Count(n) < MAXCARD)
    <2>1. Count(n) >= MAXCARD
      BY <1>1, <1>3, MinFillFacts
    <2>2. RTreeAddBranch(br, n) = RTreeSplitNode(n, br)
      BY <1>3 DEF RTreeAddBranch
    <2> QED  BY <2>1, <2>2, SplitGood
  <1> QED  BY <1>2, <1>3

(* RTreePickBranch picks one of the branches.                              *)
LEMMA PickBranchType ==
    ASSUME NEW n, Good(n), Slots(n) # {}, NEW mbr, ValidRect(mbr)
    PROVE  RTreePickBranch(mbr, n) \in Slots(n)
  <1> DEFINE D == Slots(n)
             Area(i) == RTreeRectSphericalVolume(n.branch[i].mbr)
             Increase(i) == RTreeRectSphericalVolume(RTreeCombineRect(mbr, n.branch[i].mbr)) - Area(i)
             Best(i) == \A j \in D \ {i} :
                           \/ Increase(i) < Increase(j)
                           \/ /\ Increase(i) = Increase(j)
                              /\ Area(i) < Area(j) \/ (Area(i) = Area(j) /\ i < j)
             f == [i \in D |-> -Increase(i)]
             g == [i \in D |-> Area(i)]
  <1>1. IsFiniteSet(D) /\ D \in SUBSET Nat
    <2>1. D \subseteq Slot
      BY GoodUnfolds DEF NodeOK
    <2> QED  BY <2>1, MinFillFacts, FS_Subset DEF Slot
  <1>2. ASSUME NEW i \in D PROVE Area(i) \in Int /\ Increase(i) \in Int
    <2>1. n.branch[i].mbr \in Rect /\ mbr \in Rect
      BY GoodUnfolds DEF NodeOK, BranchOK, ValidRect
    <2>2. RTreeCombineRect(mbr, n.branch[i].mbr) \in Rect
      BY <2>1, CombineType
    <2>3. Area(i) \in Int
      BY <2>1, VolumeType
    <2>4. RTreeRectSphericalVolume(RTreeCombineRect(mbr, n.branch[i].mbr)) \in Int
      BY <2>2, VolumeType
    <2> QED  BY <2>3, <2>4
  <1> HIDE DEF Area, Increase
  <1>3. \A i \in D : f[i] = -Increase(i) /\ g[i] = Area(i) /\ f[i] \in Int /\ g[i] \in Int
    BY <1>2
  <1>4. PICK i \in D : \A j \in D \ {i} :
              \/ f[i] > f[j]
              \/ /\ f[i] = f[j]
                 /\ g[i] < g[j] \/ (g[i] = g[j] /\ i < j)
    <2> HIDE DEF f, g, D
    <2>1. D # {}
      BY DEF D
    <2> QED  BY <1>1, <1>3, <2>1, FirstOfBest
  <1>5. Best(i)
    <2> HIDE DEF f, g, D
    <2>1. TAKE j \in D \ {i}
    <2>2. /\ f[i] = -Increase(i) /\ f[j] = -Increase(j) /\ g[i] = Area(i) /\ g[j] = Area(j)
          /\ Increase(i) \in Int /\ Increase(j) \in Int
      BY <1>2, <1>3
    <2> QED  BY <1>4, <2>2
  <1>6. RTreePickBranch(mbr, n) = CHOOSE k \in D : Best(k)
    BY DEF RTreePickBranch, Area, Increase
  <1> HIDE DEF Best
  <1> QED  BY <1>5, <1>6
-----------------------------------------------------------------------------
(* Recursion over the nodes of a tree: the children of a node are nodes of *)
(* the tree, one level down.                                               *)
LEMMA DescendFacts ==
    ASSUME NEW root, Good(root)
    PROVE  /\ root \in NodesOf(root)
           /\ \A n \in NodesOf(root) : Good(n) /\ n.level \in 0 .. root.level
           /\ \A n \in NodesOf(root) : \A i \in ChildSlots(n) :
                 /\ n.branch[i].child \in NodesOf(root)
                 /\ n.branch[i].child.level = n.level - 1
  <1>1. root.level \in Nat /\ root \in NodesOf(root)
    BY SelfInNodesOf DEF Good
  <1> DEFINE L == root.level
             S == {k \in 0 .. L : \A n \in At(root)[k] : Good(n) /\ n.level = L - k}
  <1>2. /\ At(root)[0] = {root}
        /\ \A k \in 1 .. L : At(root)[k] = Below(At(root)[k-1])
        /\ NodesOf(root) = UNION {At(root)[k] : k \in 0 .. L}
    BY <1>1, AtFacts
  <1>3. 0 \in S
    BY <1>1, <1>2
  <1>4. ASSUME NEW n, Good(n), NEW i \in ChildSlots(n)
        PROVE  Good(n.branch[i].child) /\ n.branch[i].child.level = n.level - 1 /\ n.level # 0
    <2>1. n.level # 0 /\ i \in Slots(n) /\ n.level > 0
      BY <1>4 DEF ChildSlots, Good
    <2>2. Sound(n.level, n.branch[i])
      BY <1>4, <2>1, GoodUnfolds
    <2> QED  BY <2>1, <2>2 DEF Sound, BranchOK
  <1>5. ASSUME NEW k \in 0 .. L - 1, k \in S PROVE k + 1 \in S
    <2>1. k + 1 \in 1 .. L /\ k + 1 \in 0 .. L /\ (k + 1) - 1 = k
      BY <1>1
    <2>2. At(root)[k + 1] = Below(At(root)[k])
      BY <1>2, <2>1
    <2>3. ASSUME NEW m \in At(root)[k + 1] PROVE Good(m) /\ m.level = L - (k + 1)
      <3>1. PICK n \in At(root)[k] : \E i \in ChildSlots(n) : m = n.branch[i].child
        BY <2>2, <2>3 DEF Below
      <3>2. PICK i \in ChildSlots(n) : m = n.branch[i].child
        BY <3>1
      <3>3. Good(n) /\ n.level = L - k
        BY <1>5, <3>1
      <3>4. Good(m) /\ m.level = n.level - 1
        BY <1>4, <3>2, <3>3
      <3> QED  BY <1>1, <3>3, <3>4
    <2> QED  BY <2>1, <2>3
  <1>6. \A k \in 0 .. L : \A n \in At(root)[k] : Good(n) /\ n.level = L - k
    <2> HIDE DEF S, L
    <2>1. L \in Nat
      BY <1>1 DEF L
    <2>2. \A k \in 0 .. L : k \in S
      BY <1>3, <1>5, <2>1, SetInduction
    <2> QED  BY <2>2 DEF S
  <1>7. \A n \in NodesOf(root) : Good(n) /\ n.level \in 0 .. root.level
    <2> TAKE n \in NodesOf(root)
    <2>1. PICK k \in 0 .. L : n \in At(root)[k]
      BY <1>2
    <2>2. Good(n) /\ n.level = L - k
      BY <1>6, <2>1
    <2> QED  BY <1>1, <2>2
  <1>8. ASSUME NEW n \in NodesOf(root), NEW i \in ChildSlots(n)
        PROVE  n.branch[i].child \in NodesOf(root) /\ n.branch[i].child.level = n.level - 1
    <2>1. PICK k \in 0 .. L : n \in At(root)[k]
      BY <1>2
    <2>2. Good(n) /\ n.level = L - k
      BY <1>6, <2>1
    <2>3. n.level # 0 /\ n.branch[i].child.level = n.level - 1
      BY <1>4, <2>2
    <2>4. k + 1 \in 1 .. L /\ k + 1 \in 0 .. L /\ (k + 1) - 1 = k
      BY <1>1, <2>2, <2>3
    <2>5. n.branch[i].child \in Below(At(root)[k])
      BY <2>1 DEF Below
    <2>6. n.branch[i].child \in At(root)[k + 1]
      BY <1>2, <2>4, <2>5
    <2> QED  BY <1>2, <2>3, <2>4, <2>6
  <1> QED  BY <1>1, <1>7, <1>8

(* The nodes of a tree below level k.                                      *)
LowNodes(root, k) == {n \in NodesOf(root) : n.level < k}

(* A child of a low node is lower by one.                                  *)
LEMMA LowNodesFacts ==
    ASSUME NEW root, Good(root)
    PROVE  /\ root.level + 1 \in Nat /\ LowNodes(root, 0) = {}
           /\ LowNodes(root, root.level + 1) = NodesOf(root)
           /\ \A k \in Nat : \A n \in LowNodes(root, k + 1) : \A i \in ChildSlots(n) :
                 /\ n.branch[i].child \in LowNodes(root, k)
                 /\ n.branch[i].child \in LowNodes(root, k + 1)
  <1>1. root.level \in Nat
    BY DEF Good
  <1>2. \A n \in NodesOf(root) : n.level \in Nat /\ ~(n.level < 0) /\ n.level < root.level + 1
    BY <1>1, DescendFacts
  <1>3. ASSUME NEW k \in Nat, NEW n \in LowNodes(root, k + 1), NEW i \in ChildSlots(n)
        PROVE  n.branch[i].child \in LowNodes(root, k) /\ n.branch[i].child \in LowNodes(root, k + 1)
    <2>1. n \in NodesOf(root) /\ n.level < k + 1
      BY DEF LowNodes
    <2>2. n.branch[i].child \in NodesOf(root) /\ n.branch[i].child.level = n.level - 1
      BY <2>1, DescendFacts
    <2>3. n.level \in Nat
      BY <1>2, <2>1
    <2>4. n.branch[i].child.level < k /\ n.branch[i].child.level < k + 1
      BY <2>1, <2>2, <2>3
    <2> QED  BY <2>2, <2>4 DEF LowNodes
  <1> QED  BY <1>1, <1>2, <1>3 DEF LowNodes

InsertEq(F, mbr, child, level, D) ==
    F = [n \in D |-> InsertStep(mbr, child, n, level,
                                [i \in ChildSlots(n) |-> F[n.branch[i].child]])]

(* _RTreeInsertRect as a recursive function exists: it is defined level by *)
(* level, from the leaves upwards.                                         *)
LEMMA InsertSolution ==
    ASSUME NEW root, Good(root), NEW mbr, NEW child, NEW level
    PROVE  \E F : /\ InsertRect(mbr, child, root, level) = F[root]
                  /\ \A n \in NodesOf(root) :
                        F[n] = InsertStep(mbr, child, n, level,
                                          [i \in ChildSlots(n) |-> F[n.branch[i].child]])
  <1> DEFINE D(k) == LowNodes(root, k)
             N == root.level + 1
             Eq(F, k) == InsertEq(F, mbr, child, level, D(k))
             S == {k \in 0 .. N : \E F : Eq(F, k)}
  <1>1. N \in Nat /\ D(0) = {} /\ D(N) = NodesOf(root)
    BY LowNodesFacts
  <1>2. 0 \in S
    <2>1. Eq([n \in {} |-> 0], 0)
      BY <1>1 DEF InsertEq
    <2> HIDE DEF Eq
    <2> QED  BY <1>1, <2>1
  <1>3. ASSUME NEW k \in 0 .. N - 1, k \in S PROVE k + 1 \in S
    <2>1. PICK F : Eq(F, k)
      BY <1>3
    <2> DEFINE G == [n \in D(k + 1) |-> InsertStep(mbr, child, n, level,
                                          [i \in ChildSlots(n) |-> F[n.branch[i].child]])]
    <2>2. k \in Nat /\ k + 1 \in 0 .. N
      BY <1>1
    <2>3. \A n \in D(k + 1) : \A i \in ChildSlots(n) :
             n.branch[i].child \in D(k) /\ n.branch[i].child \in D(k + 1)
      BY <2>2, LowNodesFacts
    <2> HIDE DEF D
    <2>4. \A c \in D(k) : F[c] = InsertStep(mbr, child, c, level,
                                            [i \in ChildSlots(c) |-> F[c.branch[i].child]])
      BY <2>1 DEF InsertEq
    <2>5. \A c \in D(k) \cap D(k + 1) : G[c] = F[c]
      BY <2>4
    <2>6. ASSUME NEW n \in D(k + 1)
          PROVE  G[n] = InsertStep(mbr, child, n, level,
                                   [i \in ChildSlots(n) |-> G[n.branch[i].child]])
      <3>1. \A i \in ChildSlots(n) : G[n.branch[i].child] = F[n.branch[i].child]
        BY <2>3, <2>5
      <3>2. G[n] = InsertStep(mbr, child, n, level, [i \in ChildSlots(n) |-> F[n.branch[i].child]])
        OBVIOUS
      <3> HIDE DEF G
      <3>3. [i \in ChildSlots(n) |-> G[n.branch[i].child]]
               = [i \in ChildSlots(n) |-> F[n.branch[i].child]]
        BY <3>1
      <3> QED  BY <3>2, <3>3
    <2>7. DOMAIN G = D(k + 1) /\ G = [n \in D(k + 1) |-> G[n]]
      OBVIOUS
    <2>8. Eq(G, k + 1)
      <3> HIDE DEF G
      <3> QED  BY <2>6, <2>7 DEF InsertEq
    <2> HIDE DEF G, Eq
    <2> QED  BY <2>2, <2>8
  <1>4. \E F : Eq(F, N)
    <2> HIDE DEF Eq, S, N
    <2>1. \A k \in 0 .. N : k \in S
      BY <1>1, <1>2, <1>3, SetInduction
    <2>2. N \in S
      BY <1>1, <2>1
    <2> QED  BY <2>2 DEF S
  <1>5. PICK F : F = CHOOSE H : InsertEq(H, mbr, child, level, NodesOf(root))
    OBVIOUS
  <1>6. InsertEq(F, mbr, child, level, NodesOf(root))
    <2>1. \E H : InsertEq(H, mbr, child, level, NodesOf(root))
      BY <1>1, <1>4
    <2> QED  BY <1>5, <2>1
  <1>7. InsertRect(mbr, child, root, level) = F[root]
    BY <1>5 DEF InsertRect, InsertEq
  <1>8. \A n \in NodesOf(root) :
           F[n] = InsertStep(mbr, child, n, level, [i \in ChildSlots(n) |-> F[n.branch[i].child]])
    BY <1>6 DEF InsertEq
  <1> QED  BY <1>7, <1>8
-----------------------------------------------------------------------------
(* A branch made by BranchTo.                                              *)
LEMMA BranchToSound ==
    ASSUME NEW n, Good(n), Count(n) >= MINFILL
    PROVE  /\ Sound(n.level + 1, BranchTo(n))
           /\ Held(n.level + 1, BranchTo(n)) = EntriesOf(n)
  <1>1. n.level \in Nat /\ n.level + 1 > 0 /\ (n.level + 1) - 1 = n.level /\ n.level + 1 # 0
    BY DEF Good
  <1>2. Slots(n) # {}
    BY GoodUnfolds, CountFacts, MinFillFacts DEF NodeOK
  <1>3. ValidRect(RTreeNodeCover(n))
    BY <1>2, HullOfNode DEF Hull
  <1>4. BranchTo(n).mbr = RTreeNodeCover(n) /\ BranchTo(n).child = n
    BY DEF BranchTo
  <1> QED  BY <1>1, <1>3, <1>4 DEF Sound, BranchOK, Held

(* A branch whose rectangle was enlarged by what its child took.           *)
LEMMA GrownBranchSound ==
    ASSUME NEW l \in Nat \ {0}, NEW br, Sound(l, br),
           NEW h \in Nat, NEW item, Sound(h, item),
           NEW m, Good(m), m.level = l - 1, Count(m) >= MINFILL,
           EntriesOf(m) = Held(l, br) \cup Held(h, item)
    PROVE  /\ Sound(l, GrownBranch(br, item.mbr, m))
           /\ Held(l, GrownBranch(br, item.mbr, m)) = EntriesOf(m)
  <1>1. Slots(m) # {}
    BY GoodUnfolds, CountFacts, MinFillFacts DEF NodeOK
  <1>2. Hull(RTreeNodeCover(m), Rects(EntriesOf(m)))
    BY <1>1, HullOfNode
  <1>3. Hull(br.mbr, Rects(Held(l, br))) /\ Hull(item.mbr, Rects(Held(h, item)))
    BY HullOfBranch
  <1>4. Rects(EntriesOf(m)) = Rects(Held(h, item)) \cup Rects(Held(l, br))
    BY DEF Rects
  <1>5. \A s \in Rects(EntriesOf(m)) : ValidRect(s)
    BY EntriesValid DEF Rects
  <1>6. PICK c : c = RTreeCombineRect(item.mbr, br.mbr)
    OBVIOUS
  <1>7. Hull(c, Rects(EntriesOf(m)))
    <2>1. PICK A, B : A = Rects(Held(h, item)) /\ B = Rects(Held(l, br))
      OBVIOUS
    <2>2. Hull(item.mbr, A) /\ Hull(br.mbr, B) /\ \A s \in A \cup B : ValidRect(s)
      BY <1>3, <1>4, <1>5, <2>1
    <2>3. Hull(RTreeCombineRect(item.mbr, br.mbr), A \cup B)
      BY <2>2, HullUnion
    <2> QED  BY <1>4, <1>6, <2>1, <2>3
  <1>8. c = RTreeNodeCover(m)
    BY <1>2, <1>5, <1>7, HullUnique
  <1>9. ValidRect(c)
    BY <1>7 DEF Hull
  <1>10. PICK g : g = GrownBranch(br, item.mbr, m)
    OBVIOUS
  <1>11. g.mbr = c /\ g.child = m
    BY <1>6, <1>10 DEF GrownBranch
  <1>12. Sound(l, g) /\ Held(l, g) = EntriesOf(m)
    BY <1>8, <1>9, <1>11 DEF Sound, BranchOK, Held
  <1> QED  BY <1>10, <1>12

(* One step of the insertion on a node above the level of the item.        *)
LEMMA InsertStepGood ==
    ASSUME NEW n, Good(n), n.level > 0, NEW i \in Slots(n),
           NEW h \in Nat, NEW item, Sound(h, item), Apart(EntriesOf(n), Held(h, item)),
           NEW r, Taken(r, n.level - 1, Count(n.branch[i].child),
                        EntriesOf(n.branch[i].child) \cup Held(h, item))
    PROVE  Taken(IF Len(r) = 1
                 THEN <<SetBranch(n, i, GrownBranch(n.branch[i], item.mbr, r[1]))>>
                 ELSE RTreeAddBranch(BranchTo(r[2]), SetBranch(n, i, BranchTo(r[1]))),
                 n.level, Count(n), EntriesOf(n) \cup Held(h, item))
  <1>1. PICK l \in Nat \ {0} : l = n.level
    BY DEF Good
  <1>2. PICK c : c = n.branch[i].child
    OBVIOUS
  <1>3. /\ NodeOK(n) /\ Sound(l, n.branch[i]) /\ Good(c) /\ Count(c) >= MINFILL
        /\ c.level = l - 1 /\ i \in Slot
    BY <1>1, <1>2, GoodUnfolds DEF Sound, BranchOK, NodeOK
  <1>4. PICK E, H, R : E = EntriesOf(c) /\ H = Held(h, item) /\ R = Rest(n, i)
    OBVIOUS
  <1>5. E = Held(l, n.branch[i])
    BY <1>1, <1>2, <1>4 DEF Held
  <1>6. EntriesOf(n) = R \cup E /\ Apart(R, E) /\ Apart(R, H) /\ Apart(E, H)
    <2>1. EntriesOf(n) = R \cup E /\ Apart(R, E)
      BY <1>1, <1>4, <1>5, RestFacts
    <2>2. Apart(R \cup E, H)
      BY <1>4, <2>1
    <2> QED  BY <2>1, <2>2 DEF Apart
  <1>7. Count(n) \in Nat /\ Count(n) >= 1 /\ IsFiniteSet(Slots(n)) /\ Count(c) \in Nat
    BY <1>3, CountFacts, GoodUnfolds DEF NodeOK
  <1>8. \A m : Slots(m) = Slots(n) \cup {i} => Count(m) = Count(n)
    BY DEF Count
  <1>9. CASE Len(r) = 1
    <2>1. PICK m : m = r[1]
      OBVIOUS
    <2>2. Good(m) /\ m.level = l - 1 /\ Count(m) >= Count(c) /\ EntriesOf(m) = E \cup H
      BY <1>1, <1>2, <1>4, <1>9, <2>1 DEF Taken
    <2>3. Count(m) >= MINFILL
      <3>1. Count(m) \in Nat
        BY <2>2, GoodUnfolds, CountFacts DEF NodeOK
      <3> QED  BY <1>3, <1>7, <2>2, <3>1, MinFillFacts
    <2>4. PICK g : g = GrownBranch(n.branch[i], item.mbr, m)
      OBVIOUS
    <2>5. Sound(l, g) /\ Held(l, g) = E \cup H
      BY <1>3, <1>4, <1>5, <2>2, <2>3, <2>4, GrownBranchSound
    <2>6. Apart(R, Held(l, g))
      BY <1>6, <2>5 DEF Apart
    <2>7. PICK x : x = SetBranch(n, i, g)
      OBVIOUS
    <2>8. /\ Good(x) /\ x.level = l /\ Slots(x) = Slots(n) \cup {i}
          /\ EntriesOf(x) = R \cup (E \cup H)
      <3>1. Sound(n.level, g) /\ Held(n.level, g) = E \cup H
        BY <1>1, <2>5
      <3>2. Apart(Rest(n, i), Held(n.level, g))
        BY <1>1, <1>4, <2>6
      <3>3. /\ Good(x) /\ x.level = n.level /\ Slots(x) = Slots(n) \cup {i}
            /\ EntriesOf(x) = Rest(n, i) \cup Held(n.level, g)
        <4>1. i \in Slot /\ Good(n)
          BY <1>3
        <4> QED  BY <2>7, <3>1, <3>2, <4>1, SetBranchGood
      <3> QED  BY <1>1, <1>4, <3>1, <3>3
    <2>9. PICK s : s = <<x>>
      OBVIOUS
    <2>10. Len(s) = 1 /\ s[1] = x
      BY <2>9
    <2>11. EntriesOf(x) = EntriesOf(n) \cup H
      BY <1>6, <2>8
    <2>12. Taken(s, l, Count(n), EntriesOf(n) \cup H)
      BY <1>7, <1>8, <2>8, <2>10, <2>11 DEF Taken
    <2> QED  BY <1>1, <1>4, <1>9, <2>1, <2>4, <2>7, <2>9, <2>12
  <1>10. CASE Len(r) # 1
    <2>1. PICK p, q : p = r[1] /\ q = r[2]
      OBVIOUS
    <2>2. /\ Good(p) /\ Good(q) /\ p.level = l - 1 /\ q.level = l - 1
          /\ Count(p) >= MINFILL /\ Count(q) >= MINFILL
          /\ EntriesOf(p) \cup EntriesOf(q) = E \cup H
          /\ Apart(EntriesOf(p), EntriesOf(q))
      BY <1>1, <1>2, <1>4, <1>10, <2>1 DEF Taken
    <2>3. p.level + 1 = l /\ q.level + 1 = l
      BY <2>2
    <2>4. /\ Sound(l, BranchTo(p)) /\ Held(l, BranchTo(p)) = EntriesOf(p)
          /\ Sound(l, BranchTo(q)) /\ Held(l, BranchTo(q)) = EntriesOf(q)
      BY <2>2, <2>3, BranchToSound
    <2>5. Apart(R, EntriesOf(p)) /\ Apart(R, EntriesOf(q))
      <3>1. Apart(R, E \cup H)
        BY <1>6 DEF Apart
      <3>2. EntriesOf(p) \subseteq E \cup H /\ EntriesOf(q) \subseteq E \cup H
        BY <2>2
      <3> QED  BY <3>1, <3>2 DEF Apart
    <2>6. PICK x : x = SetBranch(n, i, BranchTo(p))
      OBVIOUS
    <2>7. /\ Good(x) /\ x.level = l /\ Slots(x) = Slots(n) \cup {i}
          /\ EntriesOf(x) = R \cup EntriesOf(p)
      <3>1. PICK b : b = BranchTo(p)
        OBVIOUS
      <3>2. Sound(n.level, b) /\ Held(n.level, b) = EntriesOf(p) /\ x = SetBranch(n, i, b)
        BY <1>1, <2>4, <2>6, <3>1
      <3>3. Apart(Rest(n, i), Held(n.level, b))
        BY <1>4, <2>5, <3>2
      <3> QED  BY <1>1, <1>3, <1>4, <3>2, <3>3, SetBranchGood
    <2>8. Apart(EntriesOf(x), Held(x.level, BranchTo(q)))
      BY <2>2, <2>4, <2>5, <2>7 DEF Apart
    <2>9. Taken(RTreeAddBranch(BranchTo(q), x), x.level, Count(x),
                EntriesOf(x) \cup Held(x.level, BranchTo(q)))
      BY <2>4, <2>7, <2>8, AddBranchGood
    <2>10. EntriesOf(x) \cup Held(x.level, BranchTo(q)) = EntriesOf(n) \cup H
      BY <1>6, <2>2, <2>4, <2>7
    <2>11. x.level = n.level /\ Count(x) = Count(n)
      BY <1>1, <1>8, <2>7
    <2> QED  BY <1>4, <1>10, <2>1, <2>6, <2>9, <2>10, <2>11
  <1> QED  BY <1>9, <1>10

(* _RTreeInsertRect adds its item to a subtree, wherever it goes.          *)
LEMMA InsertRectGood ==
    ASSUME NEW root, Good(root), NEW h \in 0 .. root.level,
           h = root.level \/ Slots(root) # {},
           NEW item, Sound(h, item), Apart(EntriesOf(root), Held(h, item))
    PROVE  Taken(InsertRect(item.mbr, item.child, root, h), root.level, Count(root),
                 EntriesOf(root) \cup Held(h, item))
  <1>1. PICK F : /\ InsertRect(item.mbr, item.child, root, h) = F[root]
                 /\ \A n \in NodesOf(root) :
                       F[n] = InsertStep(item.mbr, item.child, n, h,
                                         [i \in ChildSlots(n) |-> F[n.branch[i].child]])
    <2>1. PICK mbr, child : mbr = item.mbr /\ child = item.child
      OBVIOUS
    <2>2. \E F : /\ InsertRect(mbr, child, root, h) = F[root]
                 /\ \A n \in NodesOf(root) :
                       F[n] = InsertStep(mbr, child, n, h,
                                         [i \in ChildSlots(n) |-> F[n.branch[i].child]])
      BY InsertSolution
    <2> QED  BY <2>1, <2>2
  <1>2. PICK H : H = Held(h, item)
    OBVIOUS
  <1>3. root.level \in Nat /\ h \in Nat
    BY DEF Good
  <1> DEFINE N == root.level - h
             P(k) == \A n \in NodesOf(root) :
                        /\ n.level = h + k /\ (k > 0 => Slots(n) # {})
                        /\ Apart(EntriesOf(n), H)
                        => Taken(F[n], n.level, Count(n), EntriesOf(n) \cup H)
             S == {k \in 0 .. N : P(k)}
  <1>4. N \in Nat
    BY <1>3
  <1>5. P(0)
    <2> SUFFICES ASSUME NEW n \in NodesOf(root), n.level = h + 0, Apart(EntriesOf(n), H)
                 PROVE  Taken(F[n], n.level, Count(n), EntriesOf(n) \cup H)
      OBVIOUS
    <2>1. n.level = h /\ Good(n)
      BY <1>3, DescendFacts
    <2>2. PICK b : b = [mbr |-> item.mbr, child |-> item.child]
      OBVIOUS
    <2>3. b.mbr = item.mbr /\ b.child = item.child
      BY <2>2
    <2>4. Sound(h, b) /\ Held(h, b) = H
      BY <1>2, <2>3 DEF Sound, BranchOK, Held
    <2>5. F[n] = RTreeAddBranch(b, n)
      BY <1>1, <2>1, <2>2 DEF InsertStep
    <2> QED  BY <2>1, <2>4, <2>5, AddBranchGood
  <1>6. ASSUME NEW k \in 0 .. N - 1, P(k) PROVE P(k + 1)
    <2> SUFFICES ASSUME NEW n \in NodesOf(root), n.level = h + (k + 1), k + 1 > 0 => Slots(n) # {},
                        Apart(EntriesOf(n), H)
                 PROVE  Taken(F[n], n.level, Count(n), EntriesOf(n) \cup H)
      OBVIOUS
    <2>1. /\ Good(n) /\ n.level # h /\ n.level # 0 /\ n.level > 0 /\ n.level - 1 = h + k
          /\ Slots(n) # {} /\ k \in Nat /\ n.level \in Nat
      BY <1>3, <1>4, DescendFacts
    <2>2. ChildSlots(n) = Slots(n)
      BY <2>1 DEF ChildSlots
    <2>3. PICK i \in Slots(n) : i = RTreePickBranch(item.mbr, n)
      <3>1. ValidRect(item.mbr)
        BY DEF Sound, BranchOK
      <3> QED  BY <2>1, <3>1, PickBranchType
    <2>4. PICK c : c = n.branch[i].child
      OBVIOUS
    <2>5. c \in NodesOf(root) /\ c.level = h + k
      BY <2>1, <2>2, <2>4, DescendFacts
    <2>6. Sound(n.level, n.branch[i]) /\ Good(c) /\ Count(c) >= MINFILL
      BY <2>1, <2>4, GoodUnfolds DEF Sound, BranchOK
    <2>7. Slots(c) # {}
      BY <2>6, GoodUnfolds, CountFacts, MinFillFacts DEF NodeOK
    <2>8. EntriesOf(c) \subseteq EntriesOf(n)
      <3>1. EntriesOf(c) = Held(n.level, n.branch[i])
        BY <2>1, <2>4 DEF Held
      <3>2. EntriesOf(n) = Rest(n, i) \cup Held(n.level, n.branch[i])
        BY <2>1, RestFacts
      <3> QED  BY <3>1, <3>2
    <2>9. Apart(EntriesOf(c), H)
      BY <2>8 DEF Apart
    <2>10. PICK r : r = F[c]
      OBVIOUS
    <2>11. Taken(r, n.level - 1, Count(c), EntriesOf(c) \cup H)
      BY <1>6, <2>1, <2>5, <2>7, <2>9, <2>10
    <2>12. F[n] = IF Len(r) = 1
                  THEN <<SetBranch(n, i, GrownBranch(n.branch[i], item.mbr, r[1]))>>
                  ELSE RTreeAddBranch(BranchTo(r[2]), SetBranch(n, i, BranchTo(r[1])))
      <3>1. PICK below : below = [j \in ChildSlots(n) |-> F[n.branch[j].child]]
        OBVIOUS
      <3>2. F[n] = InsertStep(item.mbr, item.child, n, h, below)
        BY <1>1, <3>1
      <3>3. below[i] = r
        BY <2>2, <2>3, <2>4, <2>10, <3>1
      <3> QED  BY <2>1, <2>3, <3>2, <3>3 DEF InsertStep
    <2> HIDE DEF P, S, N
    <2>13. Taken(IF Len(r) = 1
                 THEN <<SetBranch(n, i, GrownBranch(n.branch[i], item.mbr, r[1]))>>
                 ELSE RTreeAddBranch(BranchTo(r[2]), SetBranch(n, i, BranchTo(r[1]))),
                 n.level, Count(n), EntriesOf(n) \cup Held(h, item))
      <3>1. Apart(EntriesOf(n), Held(h, item))
        BY <1>2
      <3>2. Taken(r, n.level - 1, Count(n.branch[i].child),
                  EntriesOf(n.branch[i].child) \cup Held(h, item))
        BY <1>2, <2>4, <2>11
      <3> QED  BY <1>3, <2>1, <3>1, <3>2, InsertStepGood
    <2> QED  BY <1>2, <2>12, <2>13
  <1>7. P(N)
    <2> HIDE DEF P, N
    <2>1. 0 \in S /\ \A k \in 0 .. N - 1 : k \in S => k + 1 \in S
      <3>1. \A k \in 0 .. N - 1 : k + 1 \in 0 .. N
        BY <1>4
      <3> QED  BY <1>4, <1>5, <1>6, <3>1
    <2>2. N \in S
      <3> HIDE DEF S
      <3>1. \A k \in 0 .. N : k \in S
        BY <1>4, <2>1, SetInduction
      <3> QED  BY <1>4, <3>1
    <2> QED  BY <2>2
  <1>8. root \in NodesOf(root) /\ root.level = h + N /\ (N > 0 => Slots(root) # {})
    BY <1>3, DescendFacts
  <1> HIDE DEF N
  <1>9. Taken(F[root], root.level, Count(root), EntriesOf(root) \cup H)
    BY <1>2, <1>7, <1>8
  <1> QED  BY <1>1, <1>2, <1>9

(* A tree: its root may have few branches, but an inner root has some.     *)
Tree(n) == Good(n) /\ (n.level > 0 => Count(n) >= 1)

(* RTreeInsert adds its item to the tree.                                  *)
LEMMA InsertAtLevelGood ==
    ASSUME NEW root, Tree(root), NEW h \in 0 .. root.level,
           NEW item, Sound(h, item), Apart(EntriesOf(root), Held(h, item))
    PROVE  LET t == InsertAtLevel(root, item.mbr, item.child, h)
           IN  /\ Tree(t) /\ t.level \in Nat /\ t.level >= root.level
               /\ t.level > 0 => Count(t) >= 2 \/ (t.level = root.level /\ Count(t) >= Count(root))
               /\ EntriesOf(t) = EntriesOf(root) \cup Held(h, item)
  <1>1. PICK r : r = InsertRect(item.mbr, item.child, root, h)
    OBVIOUS
  <1>2. PICK E : E = EntriesOf(root) \cup Held(h, item)
    OBVIOUS
  <1>3. Good(root) /\ root.level \in Nat /\ h \in Nat /\ Count(root) \in Nat
    BY GoodUnfolds, CountFacts DEF Tree, Good, NodeOK
  <1>4. Taken(r, root.level, Count(root), E)
    <2>1. h = root.level \/ Slots(root) # {}
      BY <1>3, GoodUnfolds, CountFacts DEF Tree, NodeOK
    <2> QED  BY <1>1, <1>2, <1>3, <2>1, InsertRectGood
  <1>5. PICK t : t = InsertAtLevel(root, item.mbr, item.child, h)
    OBVIOUS
  <1>6. CASE Len(r) = 1
    <2>1. t = r[1]
      BY <1>1, <1>5, <1>6 DEF InsertAtLevel, RootOver
    <2>2. Good(t) /\ t.level = root.level /\ Count(t) >= Count(root) /\ Count(t) >= 1 /\ EntriesOf(t) = E
      BY <1>4, <1>6, <2>1 DEF Taken
    <2> QED  BY <1>2, <1>3, <1>5, <2>2 DEF Tree
  <1>7. CASE Len(r) # 1
    <2>1. PICK p, q : p = r[1] /\ q = r[2]
      OBVIOUS
    <2>2. /\ Good(p) /\ Good(q) /\ p.level = root.level /\ q.level = root.level
          /\ Count(p) >= MINFILL /\ Count(q) >= MINFILL
          /\ EntriesOf(p) \cup EntriesOf(q) = E
          /\ Apart(EntriesOf(p), EntriesOf(q))
      BY <1>4, <1>7, <2>1 DEF Taken
    <2>3. PICK b, c : b = BranchTo(p) /\ c = BranchTo(q)
      OBVIOUS
    <2>4. PICK l \in Nat : l = root.level + 1 /\ l > 0
      BY <1>3
    <2>5. Sound(l, b) /\ Held(l, b) = EntriesOf(p) /\ Sound(l, c) /\ Held(l, c) = EntriesOf(q)
      BY <2>2, <2>3, <2>4, BranchToSound
    <2>6. t.level = l /\ t.branch = <<b, c>>
      BY <1>1, <1>5, <1>7, <2>1, <2>3, <2>4 DEF InsertAtLevel, RootOver
    <2>7. Slots(t) = {1, 2} /\ t.branch[1] = b /\ t.branch[2] = c
      BY <2>6 DEF Slots
    <2>8. Slots(t) \subseteq Slot
      BY <2>7, MinFillFacts DEF Slot
    <2>9. \A i, j \in Slots(t) :
             i # j => Apart(Held(t.level, t.branch[i]), Held(t.level, t.branch[j]))
      BY <2>2, <2>5, <2>6, <2>7, ApartSym
    <2>10. Good(t)
      BY <2>4, <2>5, <2>6, <2>7, <2>8, <2>9, GoodFolds
    <2>11. EntriesOf(t) = E
      <3>1. \A e : e \in EntriesOf(t) <=> e \in Held(t.level, t.branch[1]) \/ e \in Held(t.level, t.branch[2])
        BY <2>7, <2>10, EntriesMember
      <3> QED  BY <2>2, <2>5, <2>6, <2>7, <3>1
    <2>12. Count(t) = 2
      <3>1. Cardinality({1}) = 1 /\ IsFiniteSet({1})
        BY FS_Singleton
      <3>2. Cardinality({1} \cup {2}) = 2
        BY <3>1, FS_AddElement
      <3>3. {1} \cup {2} = {1, 2}
        OBVIOUS
      <3> QED  BY <2>7, <3>2, <3>3 DEF Count
    <2> QED  BY <1>2, <1>3, <1>5, <2>4, <2>6, <2>10, <2>11, <2>12 DEF Tree
  <1> QED  BY <1>6, <1>7
-----------------------------------------------------------------------------
DeleteEq(F, mbr, tid, D) ==
    F = [n \in D |-> DeleteStep(mbr, tid, n, [i \in ChildSlots(n) |-> F[n.branch[i].child]])]

(* So does _RTreeDeleteRect.                                               *)
LEMMA DeleteSolution ==
    ASSUME NEW root, Good(root), NEW mbr, NEW tid
    PROVE  \E F : /\ DeleteRect(mbr, tid, root) = F[root]
                  /\ \A n \in NodesOf(root) :
                        F[n] = DeleteStep(mbr, tid, n, [i \in ChildSlots(n) |-> F[n.branch[i].child]])
  <1> DEFINE D(k) == LowNodes(root, k)
             N == root.level + 1
             Eq(F, k) == DeleteEq(F, mbr, tid, D(k))
             S == {k \in 0 .. N : \E F : Eq(F, k)}
  <1>1. N \in Nat /\ D(0) = {} /\ D(N) = NodesOf(root)
    BY LowNodesFacts
  <1>2. 0 \in S
    <2>1. Eq([n \in {} |-> 0], 0)
      BY <1>1 DEF DeleteEq
    <2> HIDE DEF Eq
    <2> QED  BY <1>1, <2>1
  <1>3. ASSUME NEW k \in 0 .. N - 1, k \in S PROVE k + 1 \in S
    <2>1. PICK F : Eq(F, k)
      BY <1>3
    <2> DEFINE G == [n \in D(k + 1) |->
                        DeleteStep(mbr, tid, n, [i \in ChildSlots(n) |-> F[n.branch[i].child]])]
    <2>2. k \in Nat /\ k + 1 \in 0 .. N
      BY <1>1
    <2>3. \A n \in D(k + 1) : \A i \in ChildSlots(n) :
             n.branch[i].child \in D(k) /\ n.branch[i].child \in D(k + 1)
      BY <2>2, LowNodesFacts
    <2> HIDE DEF D
    <2>4. \A c \in D(k) : F[c] = DeleteStep(mbr, tid, c, [i \in ChildSlots(c) |-> F[c.branch[i].child]])
      BY <2>1 DEF DeleteEq
    <2>5. \A c \in D(k) \cap D(k + 1) : G[c] = F[c]
      BY <2>4
    <2>6. ASSUME NEW n \in D(k + 1)
          PROVE  G[n] = DeleteStep(mbr, tid, n, [i \in ChildSlots(n) |-> G[n.branch[i].child]])
      <3>1. \A i \in ChildSlots(n) : G[n.branch[i].child] = F[n.branch[i].child]
        BY <2>3, <2>5
      <3>2. G[n] = DeleteStep(mbr, tid, n, [i \in ChildSlots(n) |-> F[n.branch[i].child]])
        OBVIOUS
      <3> HIDE DEF G
      <3>3. [i \in ChildSlots(n) |-> G[n.branch[i].child]]
               = [i \in ChildSlots(n) |-> F[n.branch[i].child]]
        BY <3>1
      <3> QED  BY <3>2, <3>3
    <2>7. DOMAIN G = D(k + 1) /\ G = [n \in D(k + 1) |-> G[n]]
      OBVIOUS
    <2>8. Eq(G, k + 1)
      <3> HIDE DEF G
      <3> QED  BY <2>6, <2>7 DEF DeleteEq
    <2> HIDE DEF G, Eq
    <2> QED  BY <2>2, <2>8
  <1>4. \E F : Eq(F, N)
    <2> HIDE DEF Eq, S, N
    <2>1. \A k \in 0 .. N : k \in S
      BY <1>1, <1>2, <1>3, SetInduction
    <2>2. N \in S
      BY <1>1, <2>1
    <2> QED  BY <2>2 DEF S
  <1>5. PICK F : F = CHOOSE H : DeleteEq(H, mbr, tid, NodesOf(root))
    OBVIOUS
  <1>6. DeleteEq(F, mbr, tid, NodesOf(root))
    <2>1. \E H : DeleteEq(H, mbr, tid, NodesOf(root))
      BY <1>1, <1>4
    <2> QED  BY <1>5, <2>1
  <1>7. DeleteRect(mbr, tid, root) = F[root]
    BY <1>5 DEF DeleteRect, DeleteEq
  <1>8. \A n \in NodesOf(root) :
           F[n] = DeleteStep(mbr, tid, n, [i \in ChildSlots(n) |-> F[n.branch[i].child]])
    BY <1>6 DEF DeleteEq
  <1> QED  BY <1>7, <1>8

(* A list of branches to be reinserted into a tree of level l.             *)
BranchAt(x) == Held(x.level, x.branch)

List(s, l) ==
    /\ \E X : s \in Seq(X)
    /\ \A k \in 1 .. Len(s) : s[k].level \in Nat /\ s[k].level < l /\ Sound(s[k].level, s[k].branch)
    /\ \A j, k \in 1 .. Len(s) : j # k => Apart(BranchAt(s[j]), BranchAt(s[k]))

ListEntries(s) == UNION {BranchAt(s[k]) : k \in 1 .. Len(s)}

(* There is nothing on the empty list.                                     *)
LEMMA EmptyList ==
    ASSUME NEW l
    PROVE  List(<<>>, l) /\ ListEntries(<<>>) = {}
  <1>1. <<>> \in Seq({}) /\ Len(<<>>) = 0
    OBVIOUS
  <1>2. 1 .. Len(<<>>) = {}
    BY <1>1
  <1> QED  BY <1>1, <1>2 DEF List, ListEntries

(* Two lists that lead to different ids.                                   *)
LEMMA ListConcat ==
    ASSUME NEW l, NEW s, List(s, l), NEW t, List(t, l), Apart(ListEntries(s), ListEntries(t))
    PROVE  List(s \o t, l) /\ ListEntries(s \o t) = ListEntries(s) \cup ListEntries(t)
  <1>1. PICK X : s \in Seq(X)
    BY DEF List
  <1>2. PICK Y : t \in Seq(Y)
    BY DEF List
  <1>3. PICK Z : Z = X \cup Y
    OBVIOUS
  <1>4. s \in Seq(Z) /\ t \in Seq(Z)
    BY <1>1, <1>2, <1>3
  <1>5. PICK a \in Nat, b \in Nat : a = Len(s) /\ b = Len(t)
    BY <1>4
  <1>6. PICK u : u = s \o t
    OBVIOUS
  <1>7. u \in Seq(Z) /\ Len(u) = a + b
    BY <1>4, <1>5, <1>6
  <1>8. \A k \in 1 .. a + b : u[k] = IF k <= a THEN s[k] ELSE t[k - a]
    BY <1>4, <1>5, <1>6
  <1>9. \A k \in 1 .. a : k \in 1 .. a + b /\ u[k] = s[k]
    BY <1>8
  <1>10. \A k \in 1 .. b : a + k \in 1 .. a + b /\ u[a + k] = t[k]
    BY <1>8
  <1>11. \A k \in 1 .. a + b : \/ k \in 1 .. a /\ u[k] = s[k]
                               \/ k - a \in 1 .. b /\ u[k] = t[k - a]
    BY <1>8
  <1>12. \A k \in 1 .. a + b :
            u[k].level \in Nat /\ u[k].level < l /\ Sound(u[k].level, u[k].branch)
    BY <1>5, <1>11 DEF List
  <1>13. \A j \in 1 .. a, k \in 1 .. b : Apart(BranchAt(s[j]), BranchAt(t[k]))
    BY <1>5 DEF Apart, ListEntries
  <1>14. ASSUME NEW j \in 1 .. a + b, NEW k \in 1 .. a + b, j # k
         PROVE  Apart(BranchAt(u[j]), BranchAt(u[k]))
    <2>1. CASE j \in 1 .. a /\ u[j] = s[j]
      <3>1. CASE k \in 1 .. a /\ u[k] = s[k]
        BY <1>5, <1>14, <2>1, <3>1 DEF List
      <3>2. CASE k - a \in 1 .. b /\ u[k] = t[k - a]
        BY <1>13, <2>1, <3>2
      <3> QED  BY <1>11, <3>1, <3>2
    <2>2. CASE j - a \in 1 .. b /\ u[j] = t[j - a]
      <3>1. CASE k \in 1 .. a /\ u[k] = s[k]
        BY <1>13, <2>2, <3>1, ApartSym
      <3>2. CASE k - a \in 1 .. b /\ u[k] = t[k - a]
        <4>1. j - a # k - a
          BY <1>14
        <4> QED  BY <1>5, <2>2, <3>2, <4>1 DEF List
      <3> QED  BY <1>11, <3>1, <3>2
    <2> QED  BY <1>11, <2>1, <2>2
  <1>15. List(u, l)
    BY <1>7, <1>12, <1>14 DEF List
  <1>16. ASSUME NEW e
         PROVE  e \in ListEntries(u) <=> e \in ListEntries(s) \/ e \in ListEntries(t)
    <2>1. e \in ListEntries(u) <=> \E k \in 1 .. a + b : e \in BranchAt(u[k])
      BY <1>7 DEF ListEntries
    <2>2. e \in ListEntries(s) <=> \E k \in 1 .. a : e \in BranchAt(s[k])
      BY <1>5 DEF ListEntries
    <2>3. e \in ListEntries(t) <=> \E k \in 1 .. b : e \in BranchAt(t[k])
      BY <1>5 DEF ListEntries
    <2>4. (\E k \in 1 .. a + b : e \in BranchAt(u[k]))
             => (\E k \in 1 .. a : e \in BranchAt(s[k])) \/ (\E k \in 1 .. b : e \in BranchAt(t[k]))
      BY <1>11
    <2>5. (\E k \in 1 .. a : e \in BranchAt(s[k])) => \E k \in 1 .. a + b : e \in BranchAt(u[k])
      BY <1>9
    <2>6. (\E k \in 1 .. b : e \in BranchAt(t[k])) => \E k \in 1 .. a + b : e \in BranchAt(u[k])
      BY <1>10
    <2> QED  BY <2>1, <2>2, <2>3, <2>4, <2>5, <2>6
  <1>17. ListEntries(u) = ListEntries(s) \cup ListEntries(t)
    BY <1>16
  <1> QED  BY <1>6, <1>15, <1>17

(* The branches of an eliminated node hold what the node held.             *)
LEMMA BranchesOfFacts ==
    ASSUME NEW n, Good(n), NEW l \in Nat, n.level < l
    PROVE  List(BranchesOf(n), l) /\ ListEntries(BranchesOf(n)) = EntriesOf(n)
  <1>1. PICK s : s = BranchesOf(n)
    OBVIOUS
  <1>2. PICK f : f = InOrder(Slots(n))
    OBVIOUS
  <1>3. PICK c \in Nat : c = Count(n)
    BY GoodUnfolds, CountFacts DEF NodeOK
  <1>4. /\ f \in [1 .. c -> Slots(n)]
        /\ \A j, k \in 1 .. c : f[j] = f[k] => j = k
        /\ \A i \in Slots(n) : \E k \in 1 .. c : f[k] = i
    <2>1. Slots(n) \in SUBSET Nat /\ IsFiniteSet(Slots(n))
      BY GoodUnfolds, CountFacts DEF NodeOK, Slot
    <2> QED  BY <1>2, <1>3, <2>1, InOrderFacts DEF Count
  <1>5. s = [k \in 1 .. c |-> [level |-> n.level, branch |-> n.branch[f[k]]]]
    BY <1>1, <1>2, <1>3 DEF BranchesOf
  <1>6. \A k \in 1 .. c : s[k].level = n.level /\ s[k].branch = n.branch[f[k]]
    BY <1>5
  <1>7. (\E X : s \in Seq(X)) /\ Len(s) = c
    <2>1. PICK X : X = {s[k] : k \in 1 .. c}
      OBVIOUS
    <2>2. s \in [1 .. c -> X]
      BY <1>5, <2>1
    <2>3. s \in Seq(X) /\ DOMAIN s = 1 .. c
      BY <2>2
    <2>4. Len(s) = c
      BY <2>3
    <2> QED  BY <2>3, <2>4
  <1>8. n.level \in Nat /\ \A i \in Slots(n) : Sound(n.level, n.branch[i])
    BY GoodUnfolds DEF Good
  <1>9. \A k \in 1 .. c : s[k].level \in Nat /\ s[k].level < l /\ Sound(s[k].level, s[k].branch)
    BY <1>4, <1>6, <1>8
  <1>10. ASSUME NEW j \in 1 .. c, NEW k \in 1 .. c, j # k
         PROVE  Apart(BranchAt(s[j]), BranchAt(s[k]))
    <2>1. f[j] \in Slots(n) /\ f[k] \in Slots(n) /\ f[j] # f[k]
      BY <1>4, <1>10
    <2>2. Apart(Held(n.level, n.branch[f[j]]), Held(n.level, n.branch[f[k]]))
      BY <2>1, GoodUnfolds DEF NodeOK
    <2> QED  BY <1>6, <2>2 DEF BranchAt
  <1>11. List(s, l)
    BY <1>7, <1>9, <1>10 DEF List
  <1>12. ASSUME NEW e PROVE e \in ListEntries(s) <=> e \in EntriesOf(n)
    <2>1. e \in ListEntries(s) <=> \E k \in 1 .. c : e \in Held(n.level, n.branch[f[k]])
      BY <1>6, <1>7 DEF ListEntries, BranchAt
    <2>2. e \in EntriesOf(n) <=> \E i \in Slots(n) : e \in Held(n.level, n.branch[i])
      BY EntriesMember
    <2> QED  BY <1>4, <2>1, <2>2
  <1> QED  BY <1>1, <1>11, <1>12
-----------------------------------------------------------------------------
(* Whatever overlaps a rectangle overlaps a hull of it.                    *)
LEMMA OverlapHull ==
    ASSUME NEW S, NEW r, Hull(r, S), NEW s \in S, ValidRect(s), NEW q, ValidRect(q),
           RTreeOverlap(q, s)
    PROVE  RTreeOverlap(q, r)
  <1>1. Dims = {1, 2} /\ DIMS_NUMB = 2
    BY DEF Dims, DIMS_NUMB
  <1>2. /\ r[1] \in Int /\ r[2] \in Int /\ r[3] \in Int /\ r[4] \in Int
        /\ s[1] \in Int /\ s[2] \in Int /\ s[3] \in Int /\ s[4] \in Int
        /\ q[1] \in Int /\ q[2] \in Int /\ q[3] \in Int /\ q[4] \in Int
    BY RectFacts DEF Hull
  <1>3. r[1] <= s[1] /\ r[2] <= s[2] /\ s[3] <= r[3] /\ s[4] <= r[4]
    BY DEF Hull
  <1>4. q[1] <= s[3] /\ s[1] <= q[3] /\ q[2] <= s[4] /\ s[2] <= q[4]
    BY <1>1 DEF RTreeOverlap
  <1>5. q[1] <= r[3] /\ r[1] <= q[3] /\ q[2] <= r[4] /\ r[2] <= q[4]
    BY <1>2, <1>3, <1>4
  <1> QED  BY <1>1, <1>5 DEF RTreeOverlap

(* A rectangle that is not inside out overlaps itself.                     *)
LEMMA OverlapSelf ==
    ASSUME NEW q, ValidRect(q)
    PROVE  RTreeOverlap(q, q)
  <1>1. Dims = {1, 2} /\ DIMS_NUMB = 2
    BY DEF Dims, DIMS_NUMB
  <1>2. q[1] <= q[3] /\ q[2] <= q[4]
    BY RectFacts
  <1> QED  BY <1>1, <1>2 DEF RTreeOverlap
-----------------------------------------------------------------------------
Without(E, tid) == {e \in E : e[1] # tid}

(* The node n without the entry of tid is m, once s is reinserted.         *)
Removed(m, s, n, tid) ==
    /\ \E e \in EntriesOf(n) : e[1] = tid
    /\ Good(m) /\ m.level = n.level /\ Count(m) \in Nat /\ Count(m) + 1 >= Count(n)
    /\ List(s, n.level)
    /\ Apart(EntriesOf(m), ListEntries(s))
    /\ EntriesOf(m) \cup ListEntries(s) = Without(EntriesOf(n), tid)

(* What _RTreeDeleteRect returns for n.                                    *)
Deleted(d, n, mbr, tid) ==
    \/ d.found = TRUE  /\ Removed(d.node, d.reInsert, n, tid)
    \/ d.found = FALSE /\ <<tid, mbr>> \notin EntriesOf(n)

(* A deletion from a leaf.                                                 *)
LEMMA RemoveFromLeaf ==
    ASSUME NEW n, Good(n), n.level = 0, NEW i \in Slots(n), NEW tid, n.branch[i].child = tid
    PROVE  Removed(RTreeDisconnectBranch(n, i), <<>>, n, tid)
  <1>1. PICK m : m = RTreeDisconnectBranch(n, i)
    OBVIOUS
  <1>2. Good(m) /\ m.level = n.level /\ Count(m) = Count(n) - 1 /\ EntriesOf(m) = Rest(n, i)
    BY <1>1, DisconnectGood
  <1>3. Count(m) \in Nat /\ Count(n) \in Nat
    BY <1>2, GoodUnfolds, CountFacts DEF NodeOK
  <1>4. PICK e : e = <<n.branch[i].child, n.branch[i].mbr>>
    OBVIOUS
  <1>5. Held(n.level, n.branch[i]) = {e} /\ e[1] = tid
    BY <1>4 DEF Held
  <1>6. EntriesOf(n) = Rest(n, i) \cup {e} /\ Apart(Rest(n, i), {e})
    <2>1. /\ EntriesOf(n) = Rest(n, i) \cup Held(n.level, n.branch[i])
          /\ Apart(Rest(n, i), Held(n.level, n.branch[i]))
      BY RestFacts
    <2> QED  BY <1>5, <2>1
  <1>7. Without(EntriesOf(n), tid) = Rest(n, i)
    BY <1>5, <1>6 DEF Without, Apart
  <1>8. List(<<>>, n.level) /\ ListEntries(<<>>) = {}
    BY EmptyList
  <1>9. Apart(EntriesOf(m), ListEntries(<<>>))
    BY <1>8 DEF Apart
  <1>10. Removed(m, <<>>, n, tid)
    BY <1>2, <1>3, <1>5, <1>6, <1>7, <1>8, <1>9 DEF Removed
  <1> QED  BY <1>1, <1>10

(* A list for a tree is one for a taller tree.                             *)
LEMMA ListMonotone ==
    ASSUME NEW s, NEW l \in Nat, List(s, l), NEW k \in Nat, l <= k
    PROVE  List(s, k)
  BY DEF List

(* A deletion below slot i, whose child becomes m: the child stays, or its *)
(* branches are put on the list of those to be reinserted.                 *)
LEMMA RemoveBelow ==
    ASSUME NEW n, Good(n), n.level > 0, NEW i \in Slots(n), NEW tid,
           NEW m, NEW s, Removed(m, s, n.branch[i].child, tid)
    PROVE  /\ Count(m) >= MINFILL => Removed(SetBranch(n, i, BranchTo(m)), s, n, tid)
           /\ Count(m) < MINFILL => Removed(RTreeDisconnectBranch(n, i), BranchesOf(m) \o s, n, tid)
  <1>1. PICK c : c = n.branch[i].child
    OBVIOUS
  <1>2. Removed(m, s, c, tid)
    BY <1>1
  <1>3. n.level \in Nat /\ c.level = n.level - 1 /\ Sound(n.level, n.branch[i]) /\ NodeOK(n)
    BY <1>1, GoodUnfolds DEF Good, Sound, BranchOK
  <1>4. PICK l \in Nat : l = c.level /\ n.level = l + 1
    BY <1>3
  <1>5. Good(m) /\ m.level = l
    BY <1>2, <1>4 DEF Removed
  <1>6. PICK R, E, M, L : /\ R = Rest(n, i) /\ E = EntriesOf(c)
                          /\ M = EntriesOf(m) /\ L = ListEntries(s)
    OBVIOUS
  <1>7. Held(n.level, n.branch[i]) = E
    BY <1>1, <1>4, <1>6 DEF Held
  <1>8. EntriesOf(n) = R \cup E /\ Apart(R, E)
    BY <1>6, <1>7, RestFacts
  <1>9. (\E e \in E : e[1] = tid) /\ M \cup L = Without(E, tid) /\ Apart(M, L)
    BY <1>2, <1>6 DEF Removed
  <1>10. \E e \in EntriesOf(n) : e[1] = tid
    BY <1>8, <1>9
  <1>11. Without(EntriesOf(n), tid) = R \cup M \cup L
    BY <1>8, <1>9 DEF Without, Apart
  <1>12. Apart(R, M) /\ Apart(R, L)
    <2>1. M \subseteq E /\ L \subseteq E
      BY <1>9 DEF Without
    <2> QED  BY <1>8, <2>1 DEF Apart
  <1>13. Count(n) \in Nat /\ IsFiniteSet(Slots(n)) /\ i \in Slot
    BY <1>3, CountFacts DEF NodeOK
  <1>14. List(s, l)
    BY <1>2, <1>4 DEF Removed
  <1>15. List(s, n.level)
    BY <1>4, <1>14, ListMonotone
  <1>16. ASSUME Count(m) >= MINFILL PROVE Removed(SetBranch(n, i, BranchTo(m)), s, n, tid)
    <2>1. PICK b : b = BranchTo(m)
      OBVIOUS
    <2>2. Sound(n.level, b) /\ Held(n.level, b) = M
      BY <1>4, <1>5, <1>6, <1>16, <2>1, BranchToSound
    <2>3. PICK x : x = SetBranch(n, i, b)
      OBVIOUS
    <2>4. Apart(Rest(n, i), Held(n.level, b))
      BY <1>6, <1>12, <2>2
    <2>5. Good(x) /\ x.level = n.level /\ Slots(x) = Slots(n) \cup {i} /\ EntriesOf(x) = R \cup M
      BY <1>6, <1>13, <2>2, <2>3, <2>4, SetBranchGood
    <2>6. Count(x) = Count(n)
      <3>1. Slots(x) = Slots(n)
        BY <2>5
      <3> QED  BY <3>1 DEF Count
    <2>7. Apart(EntriesOf(x), ListEntries(s))
      BY <1>6, <1>9, <1>12, <2>5 DEF Apart
    <2>8. EntriesOf(x) \cup ListEntries(s) = Without(EntriesOf(n), tid)
      BY <1>6, <1>11, <2>5
    <2>9. Count(x) \in Nat /\ Count(x) + 1 >= Count(n)
      BY <1>13, <2>6
    <2>10. Removed(x, s, n, tid)
      BY <1>10, <1>15, <2>5, <2>7, <2>8, <2>9 DEF Removed
    <2> QED  BY <2>1, <2>3, <2>10
  <1>17. ASSUME Count(m) < MINFILL
         PROVE  Removed(RTreeDisconnectBranch(n, i), BranchesOf(m) \o s, n, tid)
    <2>1. PICK x : x = RTreeDisconnectBranch(n, i)
      OBVIOUS
    <2>2. Good(x) /\ x.level = n.level /\ Count(x) = Count(n) - 1 /\ EntriesOf(x) = R
      BY <1>6, <2>1, DisconnectGood
    <2>3. PICK u : u = BranchesOf(m)
      OBVIOUS
    <2>4. List(u, n.level) /\ ListEntries(u) = M
      BY <1>4, <1>5, <1>6, <2>3, BranchesOfFacts
    <2>5. PICK v : v = u \o s
      OBVIOUS
    <2>6. List(v, n.level) /\ ListEntries(v) = M \cup L
      BY <1>6, <1>9, <1>15, <2>4, <2>5, ListConcat
    <2>7. Apart(EntriesOf(x), ListEntries(v))
      BY <1>12, <2>2, <2>6 DEF Apart
    <2>8. EntriesOf(x) \cup ListEntries(v) = Without(EntriesOf(n), tid)
      BY <1>11, <2>2, <2>6
    <2>9. Count(x) \in Nat /\ Count(x) + 1 >= Count(n)
      <3>1. Count(x) \in Nat
        BY <2>2, GoodUnfolds, CountFacts DEF NodeOK
      <3> QED  BY <1>13, <2>2, <3>1
    <2>10. Removed(x, v, n, tid)
      BY <1>10, <2>2, <2>6, <2>7, <2>8, <2>9 DEF Removed
    <2> QED  BY <2>1, <2>3, <2>5, <2>10
  <1> QED  BY <1>16, <1>17

(* The first slot of a set of slots is one of them.                        *)
LEMMA MinIsIn ==
    ASSUME NEW S \in SUBSET Nat, S # {}
    PROVE  Min(S) \in S
  BY LeastNatural DEF Min

(* _RTreeDeleteRect removes the entry of the id it is looking for, and     *)
(* finds it if it is there with the rectangle given.                       *)
LEMMA DeleteRectGood ==
    ASSUME NEW root, Good(root), NEW mbr, ValidRect(mbr), NEW tid
    PROVE  Deleted(DeleteRect(mbr, tid, root), root, mbr, tid)
  <1>1. PICK F : /\ DeleteRect(mbr, tid, root) = F[root]
                 /\ \A n \in NodesOf(root) :
                       F[n] = DeleteStep(mbr, tid, n, [i \in ChildSlots(n) |-> F[n.branch[i].child]])
    BY DeleteSolution
  <1>2. PICK N \in Nat : N = root.level
    BY DEF Good
  <1> DEFINE P(k) == \A n \in NodesOf(root) : n.level = k => Deleted(F[n], n, mbr, tid)
             S == {k \in 0 .. N : P(k)}
  <1>3. ASSUME NEW n \in NodesOf(root), n.level = 0
        PROVE  Deleted(F[n], n, mbr, tid)
    <2>1. Good(n) /\ Slots(n) \in SUBSET Nat
      <3>1. Good(n)
        BY DescendFacts
      <3> QED  BY <3>1, GoodUnfolds DEF NodeOK, Slot
    <2>2. PICK holding : holding = {i \in Slots(n) : n.branch[i].child = tid}
      OBVIOUS
    <2>3. CASE holding = {}
      <3>1. F[n].found = FALSE
        <4>1. F[n] = [found |-> FALSE, node |-> n, reInsert |-> <<>>]
          BY <1>1, <1>3, <2>2, <2>3 DEF DeleteStep
        <4> QED  BY <4>1
      <3>2. \A i \in Slots(n) : <<tid, mbr>> \notin Held(n.level, n.branch[i])
        BY <1>3, <2>2, <2>3 DEF Held
      <3>3. <<tid, mbr>> \notin EntriesOf(n)
        BY <2>1, <3>2, EntriesMember
      <3> QED  BY <3>1, <3>3 DEF Deleted
    <2>4. CASE holding # {}
      <3>1. PICK i \in holding : i = Min(holding)
        <4>1. holding \in SUBSET Nat
          BY <2>1, <2>2
        <4> QED  BY <2>4, <4>1, MinIsIn
      <3>2. F[n] = [found |-> TRUE, node |-> RTreeDisconnectBranch(n, i), reInsert |-> <<>>]
        BY <1>1, <1>3, <2>2, <2>4, <3>1 DEF DeleteStep
      <3>3. F[n].found = TRUE /\ F[n].node = RTreeDisconnectBranch(n, i) /\ F[n].reInsert = <<>>
        BY <3>2
      <3>4. Removed(RTreeDisconnectBranch(n, i), <<>>, n, tid)
        BY <1>3, <2>1, <2>2, <3>1, RemoveFromLeaf
      <3> QED  BY <3>3, <3>4 DEF Deleted
    <2> QED  BY <2>3, <2>4
  <1>4. P(0)
    BY <1>3
  <1>5. ASSUME NEW k \in 0 .. N - 1, P(k), NEW n \in NodesOf(root), n.level = k + 1
        PROVE  Deleted(F[n], n, mbr, tid)
    <2>1. Good(n) /\ Slots(n) \in SUBSET Nat
      <3>1. Good(n)
        BY DescendFacts
      <3> QED  BY <3>1, GoodUnfolds DEF NodeOK, Slot
    <2>2. n.level > 0 /\ n.level # 0 /\ n.level - 1 = k /\ n.level \in Nat
      BY <1>5
    <2>3. ChildSlots(n) = Slots(n)
      BY <2>2 DEF ChildSlots
    <2>4. PICK below : below = [i \in ChildSlots(n) |-> F[n.branch[i].child]]
      OBVIOUS
    <2>5. \A i \in Slots(n) : /\ below[i] = F[n.branch[i].child]
                              /\ Deleted(below[i], n.branch[i].child, mbr, tid)
      <3> TAKE i \in Slots(n)
      <3>1. below[i] = F[n.branch[i].child]
        BY <2>3, <2>4
      <3>2. n.branch[i].child \in NodesOf(root) /\ n.branch[i].child.level = k
        BY <2>2, <2>3, DescendFacts
      <3> QED  BY <1>5, <3>1, <3>2
    <2>6. F[n] = DeleteStep(mbr, tid, n, below)
      BY <1>1, <2>4
    <2>7. PICK holding : holding = {i \in Slots(n) : RTreeOverlap(mbr, n.branch[i].mbr) /\ below[i].found}
      OBVIOUS
    <2>8. CASE holding = {}
      <3>1. F[n].found = FALSE
        <4>1. F[n] = [found |-> FALSE, node |-> n, reInsert |-> <<>>]
          BY <2>2, <2>6, <2>7, <2>8 DEF DeleteStep
        <4> QED  BY <4>1
      <3>2. ASSUME NEW i \in Slots(n), <<tid, mbr>> \in Held(n.level, n.branch[i]) PROVE FALSE
        <4>1. Sound(n.level, n.branch[i])
          BY <2>1, GoodUnfolds
        <4>2. Hull(n.branch[i].mbr, Rects(Held(n.level, n.branch[i])))
          BY <2>2, <4>1, HullOfBranch
        <4>3. mbr \in Rects(Held(n.level, n.branch[i]))
          <5>1. PICK e : e = <<tid, mbr>>
            OBVIOUS
          <5>2. e \in Held(n.level, n.branch[i]) /\ e[2] = mbr
            BY <3>2, <5>1
          <5> QED  BY <5>2 DEF Rects
        <4>4. RTreeOverlap(mbr, n.branch[i].mbr)
          BY <4>2, <4>3, OverlapHull, OverlapSelf
        <4>5. <<tid, mbr>> \in EntriesOf(n.branch[i].child)
          BY <2>2, <3>2 DEF Held
        <4>6. below[i].found = TRUE
          BY <2>5, <4>5 DEF Deleted
        <4> QED  BY <2>7, <2>8, <4>4, <4>6
      <3>3. <<tid, mbr>> \notin EntriesOf(n)
        BY <2>1, <3>2, EntriesMember
      <3> QED  BY <3>1, <3>3 DEF Deleted
    <2>9. CASE holding # {}
      <3>1. PICK i \in holding : i = Min(holding)
        <4>1. holding \in SUBSET Nat
          BY <2>1, <2>7
        <4> QED  BY <2>9, <4>1, MinIsIn
      <3>2. i \in Slots(n) /\ below[i].found
        BY <2>7, <3>1
      <3>3. PICK m, s : m = below[i].node /\ s = below[i].reInsert
        OBVIOUS
      <3>4. Removed(m, s, n.branch[i].child, tid)
        BY <2>5, <3>2, <3>3 DEF Deleted
      <3>5. Count(m) \in Nat /\ MINFILL \in Nat
        BY <3>4, MinFillFacts DEF Removed
      <3>6. CASE Count(m) >= MINFILL
        <4>1. F[n] = [found |-> TRUE, node |-> SetBranch(n, i, BranchTo(m)), reInsert |-> s]
          BY <2>2, <2>6, <2>7, <2>9, <3>1, <3>3, <3>6 DEF DeleteStep
        <4>2. F[n].found = TRUE /\ F[n].node = SetBranch(n, i, BranchTo(m)) /\ F[n].reInsert = s
          BY <4>1
        <4>3. Removed(SetBranch(n, i, BranchTo(m)), s, n, tid)
          BY <2>1, <2>2, <3>2, <3>4, <3>6, RemoveBelow
        <4> QED  BY <4>2, <4>3 DEF Deleted
      <3>7. CASE Count(m) < MINFILL
        <4>1. F[n] = [found |-> TRUE, node |-> RTreeDisconnectBranch(n, i),
                      reInsert |-> BranchesOf(m) \o s]
          <5>1. ~(Count(m) >= MINFILL)
            BY <3>5, <3>7
          <5> QED  BY <2>2, <2>6, <2>7, <2>9, <3>1, <3>3, <5>1 DEF DeleteStep
        <4>2. /\ F[n].found = TRUE /\ F[n].node = RTreeDisconnectBranch(n, i)
              /\ F[n].reInsert = BranchesOf(m) \o s
          BY <4>1
        <4>3. Removed(RTreeDisconnectBranch(n, i), BranchesOf(m) \o s, n, tid)
          BY <2>1, <2>2, <3>2, <3>4, <3>7, RemoveBelow
        <4> QED  BY <4>2, <4>3 DEF Deleted
      <3> QED  BY <3>5, <3>6, <3>7
    <2> QED  BY <2>8, <2>9
  <1>6. \A k \in 0 .. N - 1 : P(k) => P(k + 1)
    BY <1>5
  <1>7. P(N)
    <2> HIDE DEF P
    <2>1. 0 \in S /\ \A k \in 0 .. N - 1 : k \in S => k + 1 \in S
      <3>1. \A k \in 0 .. N - 1 : k + 1 \in 0 .. N
        OBVIOUS
      <3> QED  BY <1>4, <1>6, <3>1
    <2>2. N \in S
      <3> HIDE DEF S
      <3>1. \A k \in 0 .. N : k \in S
        BY <2>1, SetInduction
      <3> QED  BY <3>1
    <2> QED  BY <2>2
  <1>8. root \in NodesOf(root)
    BY DescendFacts
  <1> QED  BY <1>1, <1>2, <1>7, <1>8
-----------------------------------------------------------------------------
(* The trees during the reinsertions, as ReInsert computes them.           *)
TreesEq(F, root, s, n) ==
    F = [k \in 0 .. n |-> IF k = 0 THEN root
                          ELSE InsertAtLevel(F[k-1], s[k].branch.mbr, s[k].branch.child, s[k].level)]

(* The trees during the reinsertions exist, up to any number of them.      *)
LEMMA TreesExist ==
    ASSUME NEW root, NEW s, NEW N \in Nat
    PROVE  \E F : TreesEq(F, root, s, N)
  <1> DEFINE Step(t, k) == InsertAtLevel(t, s[k].branch.mbr, s[k].branch.child, s[k].level)
             S == {n \in 0 .. N : \E F : TreesEq(F, root, s, n)}
  <1>1. \A F : \A n : TreesEq(F, root, s, n)
                         <=> F = [k \in 0 .. n |-> IF k = 0 THEN root ELSE Step(F[k-1], k)]
    BY DEF TreesEq
  <1> HIDE DEF Step
  <1>2. 0 \in S
    <2>1. PICK G : G = [k \in 0 .. 0 |-> root]
      OBVIOUS
    <2>2. G = [k \in 0 .. 0 |-> IF k = 0 THEN root ELSE Step(G[k-1], k)]
      BY <2>1
    <2>3. TreesEq(G, root, s, 0)
      BY <2>2 DEF TreesEq, Step
    <2> QED  BY <2>3
  <1>3. ASSUME NEW n \in 0 .. N - 1, n \in S PROVE n + 1 \in S
    <2>1. PICK F : F = [k \in 0 .. n |-> IF k = 0 THEN root ELSE Step(F[k-1], k)]
      BY <1>1, <1>3
    <2> DEFINE G == [k \in 0 .. n + 1 |-> IF k <= n THEN F[k] ELSE Step(F[n], k)]
    <2>2. ASSUME NEW k \in 0 .. n + 1
          PROVE  G[k] = IF k = 0 THEN root ELSE Step(G[k-1], k)
      <3>1. CASE k = 0
        BY <2>1, <3>1
      <3>2. CASE k # 0 /\ k <= n
        <4>1. k \in 0 .. n /\ k - 1 \in 0 .. n
          BY <3>2
        <4>2. G[k] = F[k] /\ G[k-1] = F[k-1]
          BY <3>2, <4>1
        <4>3. F[k] = Step(F[k-1], k)
          BY <2>1, <3>2, <4>1
        <4> HIDE DEF G
        <4> QED  BY <3>2, <4>2, <4>3
      <3>3. CASE k = n + 1
        <4>1. G[k] = Step(F[n], k) /\ G[k-1] = F[n]
          BY <3>3
        <4> HIDE DEF G
        <4> QED  BY <3>3, <4>1
      <3> QED  BY <3>1, <3>2, <3>3
    <2>3. G = [k \in 0 .. n + 1 |-> IF k = 0 THEN root ELSE Step(G[k-1], k)]
      <3>1. DOMAIN G = 0 .. n + 1 /\ G = [k \in 0 .. n + 1 |-> G[k]]
        OBVIOUS
      <3> HIDE DEF G
      <3> QED  BY <2>2, <3>1
    <2> HIDE DEF G
    <2>4. n + 1 \in 0 .. N
      OBVIOUS
    <2> QED  BY <1>1, <2>3, <2>4
  <1> HIDE DEF S
  <1>4. \A n \in 0 .. N : n \in S
    BY <1>2, <1>3, SetInduction
  <1>5. N \in S
    BY <1>4
  <1> QED  BY <1>5 DEF S

(* The reinsertions put everything on the list back.                       *)
LEMMA ReInsertGood ==
    ASSUME NEW root, Tree(root), NEW s, List(s, root.level),
           Apart(EntriesOf(root), ListEntries(s))
    PROVE  /\ Tree(ReInsert(root, s))
           /\ EntriesOf(ReInsert(root, s)) = EntriesOf(root) \cup ListEntries(s)
  <1>1. PICK N \in Nat : N = Len(s)
    BY DEF List
  <1>2. PICK F : /\ ReInsert(root, s) = F[N]
                 /\ F[0] = root
                 /\ \A k \in 1 .. N :
                       F[k] = InsertAtLevel(F[k-1], s[k].branch.mbr, s[k].branch.child, s[k].level)
    <2>1. PICK F : F = CHOOSE G : TreesEq(G, root, s, N)
      OBVIOUS
    <2>2. TreesEq(F, root, s, N)
      <3>1. \E G : TreesEq(G, root, s, N)
        BY TreesExist
      <3> QED  BY <2>1, <3>1
    <2>3. ReInsert(root, s) = F[N]
      BY <1>1, <2>1 DEF ReInsert, TreesEq
    <2>4. F[0] = root
      <3>1. 0 \in 0 .. N
        OBVIOUS
      <3> QED  BY <2>2, <3>1 DEF TreesEq
    <2>5. \A k \in 1 .. N :
             F[k] = InsertAtLevel(F[k-1], s[k].branch.mbr, s[k].branch.child, s[k].level)
      <3>1. \A k \in 1 .. N : k \in 0 .. N /\ k # 0
        OBVIOUS
      <3> QED  BY <2>2, <3>1 DEF TreesEq
    <2> QED  BY <2>3, <2>4, <2>5
  <1> DEFINE First(k) == UNION {BranchAt(s[j]) : j \in 1 .. k}
             P(k) == /\ Tree(F[k]) /\ F[k].level \in Nat /\ F[k].level >= root.level
                     /\ EntriesOf(F[k]) = EntriesOf(root) \cup First(k)
             S == {k \in 0 .. N : P(k)}
  <1>3. root.level \in Nat
    BY DEF Tree, Good
  <1>4. P(0)
    <2>1. First(0) = {}
      <3>1. 1 .. 0 = {}
        OBVIOUS
      <3> QED  BY <3>1
    <2> HIDE DEF First
    <2> QED  BY <1>2, <1>3, <2>1
  <1>5. ASSUME NEW k \in 0 .. N - 1, P(k) PROVE P(k + 1)
    <2>1. k + 1 \in 1 .. N /\ (k + 1) - 1 = k /\ k \in Nat
      OBVIOUS
    <2>2. PICK h, item, t : h = s[k + 1].level /\ item = s[k + 1].branch /\ t = F[k]
      OBVIOUS
    <2>3. h \in Nat /\ h < root.level /\ Sound(h, item)
      BY <1>1, <2>1, <2>2 DEF List
    <2>4. Held(h, item) = BranchAt(s[k + 1])
      BY <2>2 DEF BranchAt
    <2>5. Tree(t) /\ t.level \in Nat /\ t.level >= root.level
             /\ EntriesOf(t) = EntriesOf(root) \cup First(k)
      BY <1>5, <2>2
    <2>6. h \in 0 .. t.level
      BY <1>3, <2>3, <2>5
    <2>7. Apart(EntriesOf(t), Held(h, item))
      <3>1. \A j \in 1 .. k : Apart(BranchAt(s[j]), BranchAt(s[k + 1]))
        <4>1. \A j \in 1 .. k : j \in 1 .. N /\ j # k + 1
          BY <2>1
        <4> QED  BY <1>1, <2>1, <4>1 DEF List
      <3>2. Apart(First(k), BranchAt(s[k + 1]))
        BY <3>1 DEF Apart
      <3>3. BranchAt(s[k + 1]) \subseteq ListEntries(s)
        BY <1>1, <2>1 DEF ListEntries
      <3>4. Apart(EntriesOf(root), BranchAt(s[k + 1]))
        BY <3>3 DEF Apart
      <3> HIDE DEF First
      <3> QED  BY <2>4, <2>5, <3>2, <3>4 DEF Apart
    <2>8. PICK u : u = InsertAtLevel(t, item.mbr, item.child, h)
      OBVIOUS
    <2>9. Tree(u) /\ u.level \in Nat /\ u.level >= t.level
             /\ EntriesOf(u) = EntriesOf(t) \cup Held(h, item)
      <3> HIDE DEF P, S, First
      <3> QED  BY <2>3, <2>5, <2>6, <2>7, <2>8, InsertAtLevelGood
    <2>10. F[k + 1] = u
      <3>1. F[k + 1] = InsertAtLevel(F[(k + 1) - 1], s[k + 1].branch.mbr, s[k + 1].branch.child,
                                     s[k + 1].level)
        BY <1>2, <2>1
      <3> QED  BY <2>1, <2>2, <2>8, <3>1
    <2>11. First(k + 1) = First(k) \cup BranchAt(s[k + 1])
      <3>1. 1 .. k + 1 = (1 .. k) \cup {k + 1}
        BY <2>1
      <3> QED  BY <3>1
    <2> HIDE DEF First
    <2>12. EntriesOf(u) = EntriesOf(root) \cup First(k + 1)
      BY <2>4, <2>5, <2>9, <2>11
    <2> QED  BY <1>3, <2>5, <2>9, <2>10, <2>12
  <1>6. P(N)
    <2> HIDE DEF P
    <2>1. 0 \in S /\ \A k \in 0 .. N - 1 : k \in S => k + 1 \in S
      <3>1. \A k \in 0 .. N - 1 : k + 1 \in 0 .. N
        OBVIOUS
      <3> QED  BY <1>4, <1>5, <3>1
    <2>2. N \in S
      <3> HIDE DEF S
      <3>1. \A k \in 0 .. N : k \in S
        BY <2>1, SetInduction
      <3> QED  BY <3>1
    <2> QED  BY <2>2
  <1>7. First(N) = ListEntries(s)
    BY <1>1 DEF ListEntries
  <1> HIDE DEF First
  <1> QED  BY <1>2, <1>6, <1>7

(* A tree whose inner root has at least two children.                      *)
Proper(n) == Good(n) /\ (n.level > 0 => Count(n) >= 2)

(* The removal of the root leaves the entries and a proper tree.           *)
LEMMA ShrinkRootGood ==
    ASSUME NEW t, Tree(t)
    PROVE  Proper(ShrinkRoot(t)) /\ EntriesOf(ShrinkRoot(t)) = EntriesOf(t)
  <1>1. Good(t) /\ NodeOK(t) /\ Count(t) \in Nat /\ t.level \in Nat
    BY GoodUnfolds, CountFacts DEF Tree, NodeOK
  <1>2. CASE t.level > 0 /\ Count(t) = 1
    <2>1. PICK i : Slots(t) = {i}
      <3>1. IsFiniteSet(Slots(t)) /\ Cardinality(Slots(t)) = 1
        BY <1>1, <1>2, CountFacts DEF NodeOK, Count
      <3> QED  BY <3>1, FS_Singleton
    <2>2. Min(Slots(t)) = i
      <3>1. Slots(t) \in SUBSET Nat /\ Slots(t) # {}
        BY <1>1, <2>1 DEF NodeOK, Slot
      <3>2. Min(Slots(t)) \in Slots(t)
        BY <3>1, MinIsIn
      <3> QED  BY <2>1, <3>2
    <2>3. PICK c : c = t.branch[i].child
      OBVIOUS
    <2>4. ShrinkRoot(t) = c
      BY <1>2, <2>2, <2>3 DEF ShrinkRoot
    <2>5. Good(c) /\ Count(c) >= MINFILL
      BY <1>1, <1>2, <2>1, <2>3, GoodUnfolds DEF Sound, BranchOK
    <2>6. Count(c) >= 2
      <3>1. Count(c) \in Nat
        BY <2>5, GoodUnfolds, CountFacts DEF NodeOK
      <3> QED  BY <2>5, <3>1, MinFillFacts
    <2>7. EntriesOf(t) = EntriesOf(c)
      <3>1. EntriesOf(t) = Held(t.level, t.branch[i])
        BY <1>1, <2>1, EntriesUnfold
      <3> QED  BY <1>1, <1>2, <2>3, <3>1 DEF Held
    <2> QED  BY <2>4, <2>5, <2>6, <2>7 DEF Proper
  <1>3. CASE ~(t.level > 0 /\ Count(t) = 1)
    <2>1. ShrinkRoot(t) = t
      BY <1>3 DEF ShrinkRoot
    <2>2. t.level > 0 => Count(t) >= 2
      BY <1>1, <1>3 DEF Tree
    <2> QED  BY <1>1, <2>1, <2>2 DEF Proper
  <1> QED  BY <1>2, <1>3

(* RTreeDelete removes the entry of tid, if it is in the tree with the     *)
(* rectangle mbr, and nothing else.                                        *)
LEMMA DeleteFromGood ==
    ASSUME NEW root, Proper(root), NEW mbr, ValidRect(mbr), NEW tid,
           <<tid, mbr>> \in EntriesOf(root)
    PROVE  /\ Proper(DeleteFrom(root, mbr, tid))
           /\ EntriesOf(DeleteFrom(root, mbr, tid)) = Without(EntriesOf(root), tid)
  <1>1. PICK d : d = DeleteRect(mbr, tid, root)
    OBVIOUS
  <1>2. Good(root)
    BY DEF Proper
  <1>3. Deleted(d, root, mbr, tid)
    BY <1>1, <1>2, DeleteRectGood
  <1>4. PICK m, s : m = d.node /\ s = d.reInsert
    OBVIOUS
  <1>5. d.found /\ Removed(m, s, root, tid)
    BY <1>3, <1>4 DEF Deleted
  <1>6. Tree(m) /\ List(s, m.level) /\ Apart(EntriesOf(m), ListEntries(s))
    <2>1. Count(root) \in Nat
      BY <1>2, GoodUnfolds, CountFacts DEF NodeOK
    <2>2. m.level > 0 => Count(m) >= 1
      BY <1>5, <2>1 DEF Removed, Proper
    <2> QED  BY <1>5, <2>2 DEF Removed, Tree
  <1>7. PICK t : t = ReInsert(m, s)
    OBVIOUS
  <1>8. Tree(t) /\ EntriesOf(t) = EntriesOf(m) \cup ListEntries(s)
    BY <1>6, <1>7, ReInsertGood
  <1>9. EntriesOf(t) = Without(EntriesOf(root), tid)
    BY <1>5, <1>8 DEF Removed
  <1>10. DeleteFrom(root, mbr, tid) = ShrinkRoot(t)
    BY <1>1, <1>4, <1>5, <1>7 DEF DeleteFrom
  <1> QED  BY <1>8, <1>9, <1>10, ShrinkRootGood
-----------------------------------------------------------------------------
(* The inductive invariant: the tree is proper and holds the entries.      *)
RTreeInv ==
    /\ Proper(root_node)
    /\ EntriesOf(root_node) = {<<t, entries[t]>> : t \in DOMAIN entries}
    /\ \A t \in DOMAIN entries : ValidRect(entries[t])

(* The empty leaf.                                                         *)
LEMMA RTreeInit ==
    Init => RTreeInv
  <1> SUFFICES ASSUME Init PROVE RTreeInv
    OBVIOUS
  <1>1. PICK n : n = root_node
    OBVIOUS
  <1>2. n.level = 0 /\ n.branch = <<>> /\ DOMAIN entries = {}
    BY <1>1 DEF Init, RTreeNewNode
  <1>3. Slots(n) = {}
    BY <1>2 DEF Slots
  <1>4. Good(n)
    BY <1>2, <1>3, GoodFolds
  <1>5. EntriesOf(n) = {}
    BY <1>3, <1>4, EntriesMember
  <1> QED  BY <1>1, <1>2, <1>4, <1>5 DEF RTreeInv, Proper

(* An insertion keeps the invariant.                                       *)
LEMMA RTreeInsertStep ==
    ASSUME RTreeInv, NEW tid \in NextId, NEW mbr \in Boxes(tid), RTreeInsert(mbr, tid)
    PROVE  RTreeInv'
  <1>1. PICK n, t : n = root_node /\ t = InsertAtLevel(root_node, mbr, tid, 0)
    OBVIOUS
  <1>2. root_node' = t
    BY <1>1 DEF RTreeInsert
  <1>3. Proper(n) /\ Good(n) /\ n.level \in Nat /\ EntriesOf(n) = {<<u, entries[u]>> : u \in DOMAIN entries}
    BY <1>1 DEF RTreeInv, Proper, Good
  <1>4. tid \in 1 .. MaxId /\ tid \notin DOMAIN entries
    BY DEF NextId
  <1>5. ValidRect(mbr)
    BY <1>4, RTreeAssumption DEF ValidRect
  <1>6. PICK item : item.mbr = mbr /\ item.child = tid
    <2>1. PICK x : x = [mbr |-> mbr, child |-> tid]
      OBVIOUS
    <2>2. x.mbr = mbr /\ x.child = tid
      BY <2>1
    <2> QED  BY <2>2
  <1>7. Sound(0, item) /\ Held(0, item) = {<<tid, mbr>>}
    BY <1>5, <1>6 DEF Sound, BranchOK, Held
  <1>8. Apart(EntriesOf(n), Held(0, item))
    BY <1>3, <1>4, <1>7 DEF Apart
  <1>9. Tree(n) /\ Count(n) \in Nat
    <2>1. Count(n) \in Nat
      BY <1>3, GoodUnfolds, CountFacts DEF NodeOK
    <2> QED  BY <1>3, <2>1 DEF Tree, Proper
  <1>10. /\ Tree(t) /\ t.level \in Nat
         /\ t.level > 0 => Count(t) >= 2 \/ (t.level = n.level /\ Count(t) >= Count(n))
         /\ EntriesOf(t) = EntriesOf(n) \cup Held(0, item)
    <2>1. t = InsertAtLevel(n, item.mbr, item.child, 0)
      BY <1>1, <1>6
    <2>2. 0 \in 0 .. n.level
      BY <1>3
    <2> QED  BY <1>7, <1>8, <1>9, <2>1, <2>2, InsertAtLevelGood
  <1>11. Proper(t)
    <2>1. Count(t) \in Nat
      BY <1>10, GoodUnfolds, CountFacts DEF NodeOK, Tree
    <2> QED  BY <1>3, <1>9, <1>10, <2>1 DEF Proper, Tree
  <1>12. PICK f : f = entries'
    OBVIOUS
  <1>13. f = [u \in DOMAIN entries \cup {tid} |-> IF u = tid THEN mbr ELSE entries[u]]
    BY <1>12 DEF RTreeInsert
  <1>14. /\ DOMAIN f = DOMAIN entries \cup {tid} /\ f[tid] = mbr
         /\ \A u \in DOMAIN entries : f[u] = entries[u]
    BY <1>4, <1>13
  <1>15. \A u \in DOMAIN f : ValidRect(f[u])
    BY <1>5, <1>14 DEF RTreeInv
  <1>16. EntriesOf(t) = {<<u, f[u]>> : u \in DOMAIN f}
    BY <1>3, <1>7, <1>10, <1>14
  <1> QED  BY <1>2, <1>11, <1>12, <1>15, <1>16 DEF RTreeInv

(* A deletion keeps the invariant.                                         *)
LEMMA RTreeDeleteStep ==
    ASSUME RTreeInv, NEW tid \in DOMAIN entries, RTreeDelete(tid)
    PROVE  RTreeInv'
  <1>1. PICK n, mbr : n = root_node /\ mbr = entries[tid]
    OBVIOUS
  <1>2. PICK t : t = DeleteFrom(n, mbr, tid)
    OBVIOUS
  <1>3. root_node' = t
    BY <1>1, <1>2 DEF RTreeDelete
  <1>4. Proper(n) /\ ValidRect(mbr) /\ EntriesOf(n) = {<<u, entries[u]>> : u \in DOMAIN entries}
    BY <1>1 DEF RTreeInv
  <1>5. <<tid, mbr>> \in EntriesOf(n)
    BY <1>1, <1>4
  <1>6. Proper(t) /\ EntriesOf(t) = Without(EntriesOf(n), tid)
    BY <1>2, <1>4, <1>5, DeleteFromGood
  <1>7. PICK f : f = entries'
    OBVIOUS
  <1>8. f = [u \in DOMAIN entries \ {tid} |-> entries[u]]
    BY <1>7 DEF RTreeDelete
  <1>9. /\ DOMAIN f = DOMAIN entries \ {tid}
        /\ \A u \in DOMAIN f : f[u] = entries[u]
    BY <1>8
  <1>10. \A u \in DOMAIN f : ValidRect(f[u])
    BY <1>9 DEF RTreeInv
  <1>11. EntriesOf(t) = {<<u, f[u]>> : u \in DOMAIN f}
    <2>1. ASSUME NEW e \in EntriesOf(t) PROVE e \in {<<u, f[u]>> : u \in DOMAIN f}
      BY <1>4, <1>6, <1>9, <2>1 DEF Without
    <2>2. ASSUME NEW u \in DOMAIN f PROVE <<u, f[u]>> \in EntriesOf(t)
      BY <1>4, <1>6, <1>9, <2>2 DEF Without
    <2> QED  BY <2>1, <2>2
  <1> QED  BY <1>3, <1>6, <1>7, <1>10, <1>11 DEF RTreeInv

(* The tree is proper and holds the entries after any sequence of          *)
(* insertions and deletions.                                               *)
THEOREM RTreeInvariant == Spec => []RTreeInv
  <1>1. Init => RTreeInv
    BY RTreeInit
  <1>2. RTreeInv /\ [Next]_vars => RTreeInv'
    <2> SUFFICES ASSUME RTreeInv, [Next]_vars PROVE RTreeInv'
      OBVIOUS
    <2>1. CASE \E tid \in NextId : \E mbr \in Boxes(tid) : RTreeInsert(mbr, tid)
      BY <2>1, RTreeInsertStep
    <2>2. CASE \E tid \in DOMAIN entries : RTreeDelete(tid)
      BY <2>2, RTreeDeleteStep
    <2>3. CASE UNCHANGED vars
      BY <2>3 DEF vars, RTreeInv
    <2> QED  BY <2>1, <2>2, <2>3 DEF Next
  <1> QED  BY <1>1, <1>2, PTL DEF Spec

(* Splits, reinsertions and the removal of the root keep the tree          *)
(* balanced and its nodes at least half full (rtreeM.c:1191-1288).         *)
THEOREM TreeBalancedTheorem == Spec => []TreeBalanced
  <1>1. RTreeInv => TreeBalanced
    <2> SUFFICES ASSUME RTreeInv PROVE TreeBalanced
      OBVIOUS
    <2>1. Proper(root_node) /\ Good(root_node)
      BY DEF RTreeInv, Proper
    <2>2. \A n \in NodesOf(root_node) : NodeOK(n)
      BY <2>1 DEF Good
    <2> QED  BY <2>1, <2>2 DEF TreeBalanced, Proper, NodeOK, BranchOK
  <1> QED  BY <1>1, RTreeInvariant, PTL

(* The rectangle of every branch is the cover of its child, although an    *)
(* insertion enlarges the rectangles on its way without looking at the     *)
(* child again (rtreeM.c:452).                                             *)
THEOREM CoversExactTheorem == Spec => []CoversExact
  <1>1. RTreeInv => CoversExact
    <2> SUFFICES ASSUME RTreeInv PROVE CoversExact
      OBVIOUS
    <2>1. \A n \in NodesOf(root_node) : NodeOK(n)
      BY DEF RTreeInv, Proper, Good
    <2> QED  BY <2>1 DEF CoversExact, NodeOK, BranchOK
  <1> QED  BY <1>1, RTreeInvariant, PTL

(* No split and no reinsertion loses or duplicates an entry, and           *)
(* RTreeDelete finds the entry it is asked to remove (rtreeM.c:502-546).   *)
THEOREM LeavesHoldEntriesTheorem == Spec => []LeavesHoldEntries
  <1>1. RTreeInv => LeavesHoldEntries
    <2> SUFFICES ASSUME RTreeInv PROVE LeavesHoldEntries
      OBVIOUS
    <2>1. \A n \in NodesOf(root_node) : NodeOK(n)
      BY DEF RTreeInv, Proper, Good
    <2> QED  BY <2>1 DEF RTreeInv, LeavesHoldEntries, NodeOK
  <1> QED  BY <1>1, RTreeInvariant, PTL
-----------------------------------------------------------------------------
SearchEq(F, mbr, c, random, D) ==
    F = [n \in D |-> SearchStep(mbr, c, random, n, [i \in ChildSlots(n) |-> F[n.branch[i].child]])]

(* _RTreeSearchRect as a recursive function exists.                        *)
LEMMA SearchSolution ==
    ASSUME NEW root, Good(root), NEW mbr, NEW c, NEW random
    PROVE  \E F : /\ SearchRect(root, mbr, c, random) = F[root]
                  /\ \A n \in NodesOf(root) :
                        F[n] = SearchStep(mbr, c, random, n, [i \in ChildSlots(n) |-> F[n.branch[i].child]])
  <1> DEFINE D(k) == LowNodes(root, k)
             N == root.level + 1
             Eq(F, k) == SearchEq(F, mbr, c, random, D(k))
             S == {k \in 0 .. N : \E F : Eq(F, k)}
  <1>1. N \in Nat /\ D(0) = {} /\ D(N) = NodesOf(root)
    BY LowNodesFacts
  <1>2. 0 \in S
    <2>1. Eq([n \in {} |-> 0], 0)
      BY <1>1 DEF SearchEq
    <2> HIDE DEF Eq
    <2> QED  BY <1>1, <2>1
  <1>3. ASSUME NEW k \in 0 .. N - 1, k \in S PROVE k + 1 \in S
    <2>1. PICK F : Eq(F, k)
      BY <1>3
    <2> DEFINE G == [n \in D(k + 1) |->
                        SearchStep(mbr, c, random, n, [i \in ChildSlots(n) |-> F[n.branch[i].child]])]
    <2>2. k \in Nat /\ k + 1 \in 0 .. N
      BY <1>1
    <2>3. \A n \in D(k + 1) : \A i \in ChildSlots(n) :
             n.branch[i].child \in D(k) /\ n.branch[i].child \in D(k + 1)
      BY <2>2, LowNodesFacts
    <2> HIDE DEF D
    <2>4. \A m \in D(k) : F[m] = SearchStep(mbr, c, random, m, [i \in ChildSlots(m) |-> F[m.branch[i].child]])
      BY <2>1 DEF SearchEq
    <2>5. \A m \in D(k) \cap D(k + 1) : G[m] = F[m]
      BY <2>4
    <2>6. ASSUME NEW n \in D(k + 1)
          PROVE  G[n] = SearchStep(mbr, c, random, n, [i \in ChildSlots(n) |-> G[n.branch[i].child]])
      <3>1. \A i \in ChildSlots(n) : G[n.branch[i].child] = F[n.branch[i].child]
        BY <2>3, <2>5
      <3>2. G[n] = SearchStep(mbr, c, random, n, [i \in ChildSlots(n) |-> F[n.branch[i].child]])
        OBVIOUS
      <3> HIDE DEF G
      <3>3. [i \in ChildSlots(n) |-> G[n.branch[i].child]]
               = [i \in ChildSlots(n) |-> F[n.branch[i].child]]
        BY <3>1
      <3> QED  BY <3>2, <3>3
    <2>7. DOMAIN G = D(k + 1) /\ G = [n \in D(k + 1) |-> G[n]]
      OBVIOUS
    <2>8. Eq(G, k + 1)
      <3> HIDE DEF G
      <3> QED  BY <2>6, <2>7 DEF SearchEq
    <2> HIDE DEF G, Eq
    <2> QED  BY <2>2, <2>8
  <1>4. \E F : Eq(F, N)
    <2> HIDE DEF Eq, S, N
    <2>1. \A k \in 0 .. N : k \in S
      BY <1>1, <1>2, <1>3, SetInduction
    <2>2. N \in S
      BY <1>1, <2>1
    <2> QED  BY <2>2 DEF S
  <1>5. PICK F : F = CHOOSE H : SearchEq(H, mbr, c, random, NodesOf(root))
    OBVIOUS
  <1>6. SearchEq(F, mbr, c, random, NodesOf(root))
    <2>1. \E H : SearchEq(H, mbr, c, random, NodesOf(root))
      BY <1>1, <1>4
    <2> QED  BY <1>5, <2>1
  <1>7. SearchRect(root, mbr, c, random) = F[root]
    BY <1>5 DEF SearchRect, SearchEq
  <1>8. \A n \in NodesOf(root) :
           F[n] = SearchStep(mbr, c, random, n, [i \in ChildSlots(n) |-> F[n.branch[i].child]])
    BY <1>6 DEF SearchEq
  <1> QED  BY <1>7, <1>8

(* The ids that a search of n is to report.                                *)
Match(mbr, c, r) == RTreeOverlap(mbr, r) /\ RTreeContained(mbr, r) = c

Matching(n, mbr, c) == {e[1] : e \in {f \in EntriesOf(n) : Match(mbr, c, f[2])}}

(* s lists the elements of A, each once.                                   *)
Enumerates(s, A) ==
    /\ s \in Seq(A)
    /\ \A a \in A : \E k \in 1 .. Len(s) : s[k] = a
    /\ \A j, k \in 1 .. Len(s) : s[j] = s[k] => j = k

(* What a search reports if the ids A match: all of them, or, if it is     *)
(* random, some.                                                           *)
Reported(s, random, A) ==
    /\ s \in Seq(A)
    /\ A # {} => Len(s) > 0
    /\ ~random => Enumerates(s, A)

(* Nothing is reported before the first branch.                            *)
LEMMA ReportedNone ==
    ASSUME NEW random
    PROVE  Reported(<<>>, random, {})
  <1>1. <<>> \in Seq({}) /\ Len(<<>>) = 0
    OBVIOUS
  <1>2. 1 .. Len(<<>>) = {}
    BY <1>1
  <1>3. Enumerates(<<>>, {})
    BY <1>1, <1>2 DEF Enumerates
  <1> QED  BY <1>1, <1>3 DEF Reported

(* To report everything is enough for a random search.                     *)
LEMMA ReportedAll ==
    ASSUME NEW random, NEW s, NEW A, Enumerates(s, A)
    PROVE  Reported(s, random, A)
  <1>1. s \in Seq(A) /\ Len(s) \in Nat
    BY DEF Enumerates
  <1>2. ASSUME A # {} PROVE Len(s) > 0
    <2>1. PICK a \in A : TRUE
      BY <1>2
    <2>2. PICK k \in 1 .. Len(s) : s[k] = a
      BY DEF Enumerates
    <2> QED  BY <1>1, <2>2
  <1> QED  BY <1>1, <1>2 DEF Reported

(* The reports of two branches that lead to different ids.                 *)
LEMMA EnumeratesJoin ==
    ASSUME NEW A, NEW B, A \cap B = {}, NEW s, Enumerates(s, A), NEW t, Enumerates(t, B)
    PROVE  Enumerates(s \o t, A \cup B)
  <1>1. PICK C : C = A \cup B
    OBVIOUS
  <1>2. s \in Seq(A) /\ t \in Seq(B)
    BY DEF Enumerates
  <1>3. s \in Seq(C) /\ t \in Seq(C)
    BY <1>1, <1>2
  <1>4. PICK a \in Nat, b \in Nat : a = Len(s) /\ b = Len(t)
    BY <1>3
  <1>5. PICK u : u = s \o t
    OBVIOUS
  <1>6. u \in Seq(C) /\ Len(u) = a + b
    BY <1>3, <1>4, <1>5
  <1>7. \A k \in 1 .. a + b : u[k] = IF k <= a THEN s[k] ELSE t[k - a]
    BY <1>3, <1>4, <1>5
  <1>8. (\A k \in 1 .. a : s[k] \in A) /\ (\A k \in 1 .. b : t[k] \in B)
    BY <1>2, <1>4
  <1>9. \A k \in 1 .. a + b : \/ k \in 1 .. a /\ u[k] = s[k] /\ u[k] \in A
                              \/ k - a \in 1 .. b /\ u[k] = t[k - a] /\ u[k] \in B
    BY <1>7, <1>8
  <1>10. \A k \in 1 .. a : k \in 1 .. a + b /\ u[k] = s[k]
    BY <1>7
  <1>11. \A k \in 1 .. b : a + k \in 1 .. a + b /\ u[a + k] = t[k]
    BY <1>7
  <1>12. /\ \A j, k \in 1 .. a : s[j] = s[k] => j = k
         /\ \A j, k \in 1 .. b : t[j] = t[k] => j = k
    BY <1>4 DEF Enumerates
  <1>13. ASSUME NEW j \in 1 .. a + b, NEW k \in 1 .. a + b, u[j] = u[k] PROVE j = k
    <2>1. CASE j \in 1 .. a /\ u[j] = s[j] /\ u[j] \in A
      <3>1. k \in 1 .. a /\ u[k] = s[k]
        BY <1>9, <1>13, <2>1
      <3> QED  BY <1>13, <1>12, <2>1, <3>1
    <2>2. CASE j - a \in 1 .. b /\ u[j] = t[j - a] /\ u[j] \in B
      <3>1. k - a \in 1 .. b /\ u[k] = t[k - a]
        BY <1>9, <1>13, <2>2
      <3>2. j - a = k - a
        BY <1>13, <1>12, <2>2, <3>1
      <3> QED  BY <3>2
    <2> QED  BY <1>9, <2>1, <2>2
  <1>14. ASSUME NEW x \in C PROVE \E k \in 1 .. a + b : u[k] = x
    <2>1. CASE x \in A
      <3>1. PICK k \in 1 .. a : s[k] = x
        BY <1>4, <2>1 DEF Enumerates
      <3> QED  BY <1>10, <3>1
    <2>2. CASE x \in B
      <3>1. PICK k \in 1 .. b : t[k] = x
        BY <1>4, <2>2 DEF Enumerates
      <3> QED  BY <1>11, <3>1
    <2> QED  BY <1>1, <2>1, <2>2
  <1>15. Enumerates(u, C)
    BY <1>6, <1>13, <1>14 DEF Enumerates
  <1> QED  BY <1>1, <1>5, <1>15

(* The same, whether the search is random or not.                          *)
LEMMA ReportedJoin ==
    ASSUME NEW random, NEW A, NEW B, A \cap B = {},
           NEW s, Reported(s, random, A), NEW t, Reported(t, random, B)
    PROVE  Reported(s \o t, random, A \cup B)
  <1>1. PICK C : C = A \cup B
    OBVIOUS
  <1>2. s \in Seq(A) /\ t \in Seq(B)
    BY DEF Reported
  <1>3. s \in Seq(C) /\ t \in Seq(C)
    BY <1>1, <1>2
  <1>4. PICK a \in Nat, b \in Nat : a = Len(s) /\ b = Len(t)
    BY <1>3
  <1>5. PICK u : u = s \o t
    OBVIOUS
  <1>6. u \in Seq(C) /\ Len(u) = a + b
    BY <1>3, <1>4, <1>5
  <1>7. C # {} => Len(u) > 0
    BY <1>1, <1>4, <1>6 DEF Reported
  <1>8. ~random => Enumerates(u, C)
    BY <1>1, <1>5, EnumeratesJoin DEF Reported
  <1>9. Reported(u, random, C)
    BY <1>6, <1>7, <1>8 DEF Reported
  <1> QED  BY <1>1, <1>5, <1>9

(* A random search that stops early has found something.                   *)
LEMMA ReportedStop ==
    ASSUME NEW random, NEW A, NEW B, NEW k, NEW s, Reported(s, random, A),
           SearchStops(k, s, random)
    PROVE  Reported(s, random, A \cup B)
  <1>1. random /\ Len(s) > 3
    BY DEF SearchStops
  <1>2. s \in Seq(A)
    BY DEF Reported
  <1>3. PICK C : C = A \cup B
    OBVIOUS
  <1>4. s \in Seq(C) /\ Len(s) \in Nat
    BY <1>2, <1>3
  <1>5. Reported(s, random, C)
    BY <1>1, <1>4 DEF Reported
  <1> QED  BY <1>3, <1>5

(* A leaf reports the entries that match.                                  *)
LEMMA SearchLeaf ==
    ASSUME NEW n, Good(n), n.level = 0, NEW mbr, NEW c, NEW random, NEW below
    PROVE  Reported(SearchStep(mbr, c, random, n, below), random, Matching(n, mbr, c))
  <1>1. PICK I : I = {i \in Slots(n) : Match(mbr, c, n.branch[i].mbr)}
    OBVIOUS
  <1>2. NodeOK(n) /\ I \in SUBSET Nat /\ IsFiniteSet(I)
    <2>1. NodeOK(n)
      BY GoodUnfolds
    <2>2. IsFiniteSet(Slots(n)) /\ Slots(n) \in SUBSET Nat
      BY <2>1, CountFacts DEF NodeOK, Slot
    <2> QED  BY <1>1, <2>1, <2>2, FS_Subset
  <1>3. PICK hits : hits = Hits(n, mbr, c)
    OBVIOUS
  <1>4. hits = InOrder(I)
    <2>1. I = {i \in Slots(n) : /\ RTreeOverlap(mbr, n.branch[i].mbr)
                                /\ n.level = 0 => RTreeContained(mbr, n.branch[i].mbr) = c}
      BY <1>1 DEF Match
    <2> QED  BY <1>3, <2>1 DEF Hits
  <1>5. PICK N \in Nat : N = Cardinality(I)
    BY <1>2, InOrderFacts
  <1>6. /\ hits \in [1 .. N -> I]
        /\ \A j, k \in 1 .. N : hits[j] = hits[k] => j = k
        /\ \A i \in I : \E k \in 1 .. N : hits[k] = i
    BY <1>2, <1>4, <1>5, InOrderFacts
  <1>7. PICK s : s = [k \in 1 .. N |-> n.branch[hits[k]].child]
    OBVIOUS
  <1>8. SearchStep(mbr, c, random, n, below) = s
    <2>1. DOMAIN hits = 1 .. N
      BY <1>6
    <2>2. Children(n, hits) = s
      BY <1>7, <2>1 DEF Children
    <2> QED  BY <1>3, <2>2 DEF SearchStep
  <1>9. PICK M : M = Matching(n, mbr, c)
    OBVIOUS
  <1>10. \A i \in Slots(n) : Held(n.level, n.branch[i]) = {<<n.branch[i].child, n.branch[i].mbr>>}
    BY DEF Held
  <1>11. \A e : e \in EntriesOf(n) <=> \E i \in Slots(n) : e = <<n.branch[i].child, n.branch[i].mbr>>
    BY <1>10, EntriesMember
  <1>12. \A t : t \in M <=> \E i \in I : t = n.branch[i].child
    <2>1. ASSUME NEW t \in M PROVE \E i \in I : t = n.branch[i].child
      <3>1. PICK e \in EntriesOf(n) : Match(mbr, c, e[2]) /\ t = e[1]
        BY <1>9, <2>1 DEF Matching
      <3>2. PICK i \in Slots(n) : e = <<n.branch[i].child, n.branch[i].mbr>>
        BY <1>11, <3>1
      <3>3. e[1] = n.branch[i].child /\ e[2] = n.branch[i].mbr
        BY <3>2
      <3> QED  BY <1>1, <3>1, <3>3
    <2>2. ASSUME NEW i \in I PROVE n.branch[i].child \in M
      <3>1. PICK e : e = <<n.branch[i].child, n.branch[i].mbr>>
        OBVIOUS
      <3>2. e[1] = n.branch[i].child /\ e[2] = n.branch[i].mbr
        BY <3>1
      <3>3. e \in EntriesOf(n) /\ Match(mbr, c, e[2])
        BY <1>1, <1>11, <3>1, <3>2
      <3> QED  BY <1>9, <3>2, <3>3 DEF Matching
    <2> QED  BY <2>1, <2>2
  <1>13. \A i, j \in Slots(n) : i # j => n.branch[i].child # n.branch[j].child
    <2>1. \A i, j \in Slots(n) : i # j =>
             Apart(Held(n.level, n.branch[i]), Held(n.level, n.branch[j]))
      BY <1>2 DEF NodeOK
    <2>2. ASSUME NEW i \in Slots(n), NEW j \in Slots(n), i # j
          PROVE  n.branch[i].child # n.branch[j].child
      <3>1. PICK e, f : /\ e = <<n.branch[i].child, n.branch[i].mbr>>
                        /\ f = <<n.branch[j].child, n.branch[j].mbr>>
        OBVIOUS
      <3>2. e[1] = n.branch[i].child /\ f[1] = n.branch[j].child
        BY <3>1
      <3>3. Apart({e}, {f})
        BY <1>10, <2>1, <2>2, <3>1
      <3> QED  BY <3>2, <3>3 DEF Apart
    <2> QED  BY <2>2
  <1>14. \A k \in 1 .. N : s[k] = n.branch[hits[k]].child /\ hits[k] \in I /\ hits[k] \in Slots(n)
    BY <1>1, <1>6, <1>7
  <1>15. s \in [1 .. N -> M]
    BY <1>7, <1>12, <1>14
  <1>16. s \in Seq(M) /\ DOMAIN s = 1 .. N
    BY <1>15
  <1>17. Len(s) = N
    BY <1>16
  <1>18. \A a \in M : \E k \in 1 .. N : s[k] = a
    BY <1>6, <1>12, <1>14
  <1>19. \A j, k \in 1 .. N : s[j] = s[k] => j = k
    BY <1>6, <1>13, <1>14
  <1>20. Enumerates(s, M)
    BY <1>16, <1>17, <1>18, <1>19 DEF Enumerates
  <1> QED  BY <1>8, <1>9, <1>20, ReportedAll

(* An inner node reports what its children do.                             *)
LEMMA SearchInner ==
    ASSUME NEW n, Good(n), n.level > 0, NEW mbr, ValidRect(mbr), NEW c, NEW random \in BOOLEAN,
           NEW below,
           \A i \in Slots(n) : Reported(below[i], random, Matching(n.branch[i].child, mbr, c))
    PROVE  Reported(SearchStep(mbr, c, random, n, below), random, Matching(n, mbr, c))
  <1>1. PICK I : I = {i \in Slots(n) : RTreeOverlap(mbr, n.branch[i].mbr)}
    OBVIOUS
  <1>2. NodeOK(n) /\ I \in SUBSET Nat /\ IsFiniteSet(I) /\ n.level \in Nat /\ n.level # 0
    <2>1. NodeOK(n)
      BY GoodUnfolds
    <2>2. IsFiniteSet(Slots(n)) /\ Slots(n) \in SUBSET Nat
      BY <2>1, CountFacts DEF NodeOK, Slot
    <2> QED  BY <1>1, <2>1, <2>2, FS_Subset DEF NodeOK
  <1>3. PICK hits : hits = Hits(n, mbr, c)
    OBVIOUS
  <1>4. hits = InOrder(I)
    <2>1. I = {i \in Slots(n) : /\ RTreeOverlap(mbr, n.branch[i].mbr)
                                /\ n.level = 0 => RTreeContained(mbr, n.branch[i].mbr) = c}
      BY <1>1, <1>2
    <2> QED  BY <1>3, <2>1 DEF Hits
  <1>5. PICK N \in Nat : N = Cardinality(I)
    BY <1>2, InOrderFacts
  <1>6. /\ hits \in [1 .. N -> I]
        /\ \A j, k \in 1 .. N : hits[j] = hits[k] => j = k
        /\ \A i \in I : \E k \in 1 .. N : hits[k] = i
    BY <1>2, <1>4, <1>5, InOrderFacts
  <1>7. Len(hits) = N
    <2>1. hits \in Seq(I) /\ DOMAIN hits = 1 .. N
      BY <1>6
    <2> QED  BY <2>1
  <1>8. PICK M : M = Matching(n, mbr, c)
    OBVIOUS
  <1> DEFINE Sub(i) == Matching(n.branch[i].child, mbr, c)
  <1>9. \A i \in Slots(n) : Held(n.level, n.branch[i]) = EntriesOf(n.branch[i].child)
    BY <1>2 DEF Held
  <1>10. \A i \in Slots(n) : Sub(i) \subseteq M
    <2>1. ASSUME NEW i \in Slots(n), NEW e \in EntriesOf(n.branch[i].child) PROVE e \in EntriesOf(n)
      BY <1>9, <2>1, EntriesMember
    <2> QED  BY <1>8, <2>1 DEF Matching
  <1>11. \A t \in M : \E i \in I : t \in Sub(i)
    <2> SUFFICES ASSUME NEW t \in M PROVE \E i \in I : t \in Sub(i)
      OBVIOUS
    <2>1. PICK e \in EntriesOf(n) : Match(mbr, c, e[2]) /\ t = e[1]
      BY <1>8 DEF Matching
    <2>2. PICK i \in Slots(n) : e \in Held(n.level, n.branch[i])
      BY EntriesMember
    <2>3. Sound(n.level, n.branch[i])
      BY GoodUnfolds
    <2>4. Hull(n.branch[i].mbr, Rects(Held(n.level, n.branch[i]))) /\ ValidRect(e[2])
      BY <1>2, <2>2, <2>3, HullOfBranch
    <2>5. e[2] \in Rects(Held(n.level, n.branch[i])) /\ RTreeOverlap(mbr, e[2])
      BY <2>1, <2>2 DEF Rects, Match
    <2>6. RTreeOverlap(mbr, n.branch[i].mbr)
      <3>1. PICK r, x, E : r = n.branch[i].mbr /\ x = e[2] /\ E = Rects(Held(n.level, n.branch[i]))
        OBVIOUS
      <3>2. Hull(r, E) /\ ValidRect(x) /\ x \in E /\ RTreeOverlap(mbr, x)
        BY <2>4, <2>5, <3>1
      <3>3. RTreeOverlap(mbr, r)
        BY <3>2, OverlapHull
      <3> QED  BY <3>1, <3>3
    <2>7. t \in Sub(i)
      BY <1>9, <2>1, <2>2 DEF Matching
    <2> QED  BY <1>1, <2>6, <2>7
  <1>12. \A i, j \in Slots(n) : i # j => Sub(i) \cap Sub(j) = {}
    <2>1. \A i, j \in Slots(n) : i # j =>
             Apart(EntriesOf(n.branch[i].child), EntriesOf(n.branch[j].child))
      BY <1>2, <1>9 DEF NodeOK
    <2> SUFFICES ASSUME NEW i \in Slots(n), NEW j \in Slots(n), i # j, NEW t \in Sub(i), t \in Sub(j)
                 PROVE  FALSE
      OBVIOUS
    <2>2. PICK e \in EntriesOf(n.branch[i].child) : t = e[1]
      BY DEF Matching
    <2>3. PICK f \in EntriesOf(n.branch[j].child) : t = f[1]
      BY DEF Matching
    <2> QED  BY <2>1, <2>2, <2>3 DEF Apart
  <1>13. \A i \in Slots(n) : Reported(below[i], random, Sub(i))
    OBVIOUS
  <1> HIDE DEF Sub
  <1>14. \A k \in 1 .. N : hits[k] \in I /\ hits[k] \in Slots(n)
    BY <1>1, <1>6
  <1> DEFINE Step(k, x) == IF SearchStops(k - 1, x, random) THEN x ELSE x \o below[hits[k]]
             Eq(F) == F = [k \in 0 .. N |-> IF k = 0 THEN <<>> ELSE Step(k, F[k-1])]
             T == Seq(M)
             step == [y \in (1 .. N) \X T |-> Step(y[1], y[2])]
  <1>15. \A k \in 1 .. N, x \in T : Step(k, x) \in T
    <2> TAKE k \in 1 .. N, x \in T
    <2>1. below[hits[k]] \in Seq(Sub(hits[k])) /\ Sub(hits[k]) \subseteq M
      BY <1>10, <1>13, <1>14 DEF Reported
    <2>2. below[hits[k]] \in Seq(M)
      BY <2>1
    <2>3. x \o below[hits[k]] \in Seq(M)
      BY <2>2
    <2> QED  BY <2>3
  <1>16. \E F : Eq(F)
    <2> HIDE DEF Step
    <2>1. step \in Steps(N, T)
      <3> HIDE DEF T
      <3>1. \A y \in (1 .. N) \X T : Step(y[1], y[2]) \in T
        BY <1>15
      <3> QED  BY <3>1 DEF Steps
    <2>2. <<>> \in T
      OBVIOUS
    <2> HIDE DEF T
    <2>3. \A k \in 1 .. N, x \in T : step[<<k, x>>] = Step(k, x)
      OBVIOUS
    <2> HIDE DEF step
    <2>4. PICK G \in [0 .. N -> T] : Continues(G, N, <<>>, step)
      BY <2>1, <2>2, RecursionExists
    <2>5. ASSUME NEW k \in 0 .. N
          PROVE  G[k] = IF k = 0 THEN <<>> ELSE Step(k, G[k-1])
      <3>1. CASE k = 0
        BY <2>4, <3>1 DEF Continues
      <3>2. CASE k # 0
        <4>1. k \in 1 .. N /\ k - 1 \in 0 .. N
          BY <3>2
        <4>2. G[k-1] \in T /\ G[k] = step[<<k, G[k-1]>>]
          BY <2>4, <4>1 DEF Continues
        <4> QED  BY <2>3, <3>2, <4>1, <4>2
      <3> QED  BY <3>1, <3>2
    <2>6. Eq(G)
      BY <2>5
    <2> QED  BY <2>6
  <1>17. PICK F : Eq(F) /\ SearchStep(mbr, c, random, n, below) = F[N]
    <2>1. PICK F : F = CHOOSE H : Eq(H)
      OBVIOUS
    <2>2. Eq(F)
      <3> HIDE DEF Eq
      <3> QED  BY <1>16, <2>1
    <2>3. SearchStep(mbr, c, random, n, below) = F[N]
      BY <1>2, <1>3, <1>7, <2>1 DEF SearchStep
    <2> QED  BY <2>2, <2>3
  <1>18. /\ F[0] = <<>>
         /\ \A k \in 0 .. N - 1 : F[k + 1] = Step(k + 1, F[k])
    <2> HIDE DEF Step
    <2>1. \A k \in 0 .. N : F[k] = IF k = 0 THEN <<>> ELSE Step(k, F[k-1])
      BY <1>17
    <2>2. \A k \in 0 .. N - 1 : k + 1 \in 0 .. N /\ k + 1 # 0 /\ (k + 1) - 1 = k
      OBVIOUS
    <2>3. 0 \in 0 .. N
      OBVIOUS
    <2> QED  BY <2>1, <2>2, <2>3
  <1> HIDE DEF Eq, T, step
  <1> DEFINE Upto(k) == UNION {Sub(hits[j]) : j \in 1 .. k}
             S == {k \in 0 .. N : Reported(F[k], random, Upto(k))}
  <1>19. 0 \in S
    <2>1. Upto(0) = {}
      <3>1. 1 .. 0 = {}
        OBVIOUS
      <3> QED  BY <3>1
    <2> HIDE DEF Upto
    <2>2. Reported(F[0], random, Upto(0))
      BY <1>18, <2>1, ReportedNone
    <2> QED  BY <2>2
  <1>20. ASSUME NEW k \in 0 .. N - 1, k \in S PROVE k + 1 \in S
    <2>1. k + 1 \in 1 .. N /\ k + 1 \in 0 .. N /\ k \in Nat
      OBVIOUS
    <2>2. PICK s, t, A, B : s = F[k] /\ t = below[hits[k + 1]] /\ A = Upto(k) /\ B = Sub(hits[k + 1])
      OBVIOUS
    <2>3. Reported(s, random, A) /\ Reported(t, random, B)
      BY <1>13, <1>14, <1>20, <2>1, <2>2
    <2>4. Upto(k + 1) = A \cup B
      <3>1. 1 .. k + 1 = (1 .. k) \cup {k + 1}
        BY <2>1
      <3> QED  BY <2>2, <3>1
    <2>5. A \cap B = {}
      <3>1. \A j \in 1 .. k : Sub(hits[j]) \cap Sub(hits[k + 1]) = {}
        <4>1. \A j \in 1 .. k : j \in 1 .. N /\ j # k + 1
          BY <2>1
        <4>2. \A j \in 1 .. k : hits[j] # hits[k + 1]
          BY <1>6, <2>1, <4>1
        <4> QED  BY <1>12, <1>14, <2>1, <4>1, <4>2
      <3> QED  BY <2>2, <3>1
    <2> HIDE DEF Upto
    <2>6. PICK x : x = (k + 1) - 1
      OBVIOUS
    <2>7. F[k + 1] = IF SearchStops(x, s, random) THEN s ELSE s \o t
      BY <1>18, <2>2, <2>6
    <2> HIDE DEF Step
    <2>8. Reported(F[k + 1], random, A \cup B)
      <3>1. CASE SearchStops(x, s, random)
        BY <2>3, <2>7, <3>1, ReportedStop
      <3>2. CASE ~SearchStops(x, s, random)
        BY <2>3, <2>5, <2>7, <3>2, ReportedJoin
      <3> QED  BY <3>1, <3>2
    <2> QED  BY <2>1, <2>4, <2>8
  <1>21. N \in S
    <2> HIDE DEF S
    <2>1. \A k \in 0 .. N : k \in S
      BY <1>19, <1>20, SetInduction
    <2> QED  BY <2>1
  <1>22. Upto(N) = M
    <2>1. \A t : t \in Upto(N) <=> \E i \in I : t \in Sub(i)
      BY <1>6
    <2>2. I \subseteq Slots(n)
      BY <1>1
    <2> HIDE DEF Upto
    <2> QED  BY <1>10, <1>11, <2>1, <2>2
  <1> HIDE DEF Upto
  <1> QED  BY <1>8, <1>17, <1>21, <1>22

(* _RTreeSearchRect.                                                       *)
LEMMA SearchRectGood ==
    ASSUME NEW root, Good(root), NEW mbr, ValidRect(mbr), NEW c, NEW random \in BOOLEAN
    PROVE  Reported(SearchRect(root, mbr, c, random), random, Matching(root, mbr, c))
  <1>1. PICK F : /\ SearchRect(root, mbr, c, random) = F[root]
                 /\ \A n \in NodesOf(root) :
                       F[n] = SearchStep(mbr, c, random, n, [i \in ChildSlots(n) |-> F[n.branch[i].child]])
    BY SearchSolution
  <1>2. PICK N \in Nat : N = root.level
    BY DEF Good
  <1> DEFINE P(k) == \A n \in NodesOf(root) : n.level = k => Reported(F[n], random, Matching(n, mbr, c))
             S == {k \in 0 .. N : P(k)}
  <1>3. P(0)
    BY <1>1, DescendFacts, SearchLeaf
  <1>4. ASSUME NEW k \in 0 .. N - 1, P(k), NEW n \in NodesOf(root), n.level = k + 1
        PROVE  Reported(F[n], random, Matching(n, mbr, c))
    <2>1. Good(n) /\ n.level > 0 /\ n.level # 0 /\ n.level - 1 = k
      BY <1>4, DescendFacts
    <2>2. ChildSlots(n) = Slots(n)
      BY <2>1 DEF ChildSlots
    <2>3. PICK below : below = [i \in ChildSlots(n) |-> F[n.branch[i].child]]
      OBVIOUS
    <2>4. \A i \in Slots(n) : Reported(below[i], random, Matching(n.branch[i].child, mbr, c))
      <3> TAKE i \in Slots(n)
      <3>1. below[i] = F[n.branch[i].child]
        BY <2>2, <2>3
      <3>2. n.branch[i].child \in NodesOf(root) /\ n.branch[i].child.level = k
        BY <2>1, <2>2, DescendFacts
      <3> QED  BY <1>4, <3>1, <3>2
    <2>5. F[n] = SearchStep(mbr, c, random, n, below)
      BY <1>1, <2>3
    <2> QED  BY <2>1, <2>4, <2>5, SearchInner
  <1>5. \A k \in 0 .. N - 1 : P(k) => P(k + 1)
    BY <1>4
  <1>6. P(N)
    <2> HIDE DEF P
    <2>1. 0 \in S /\ \A k \in 0 .. N - 1 : k \in S => k + 1 \in S
      <3>1. \A k \in 0 .. N - 1 : k + 1 \in 0 .. N
        OBVIOUS
      <3> QED  BY <1>3, <1>5, <3>1
    <2>2. N \in S
      <3> HIDE DEF S
      <3>1. \A k \in 0 .. N : k \in S
        BY <2>1, SetInduction
      <3> QED  BY <3>1
    <2> QED  BY <2>2
  <1>7. root \in NodesOf(root)
    BY DescendFacts
  <1> QED  BY <1>1, <1>2, <1>6, <1>7

(* In a tree that holds the entries, the ids that match are those          *)
(* expected.                                                               *)
LEMMA MatchingExpected ==
    ASSUME RTreeInv, NEW q, NEW c
    PROVE  Matching(root_node, q, c) = Expected(q, c)
  <1>1. PICK n, f : n = root_node /\ f = entries
    OBVIOUS
  <1>2. EntriesOf(n) = {<<t, f[t]>> : t \in DOMAIN f}
    BY <1>1 DEF RTreeInv
  <1>3. \A t : t \in Matching(n, q, c) <=> t \in DOMAIN f /\ Match(q, c, f[t])
    <2>1. ASSUME NEW t \in Matching(n, q, c) PROVE t \in DOMAIN f /\ Match(q, c, f[t])
      <3>1. PICK e \in EntriesOf(n) : Match(q, c, e[2]) /\ t = e[1]
        BY <2>1 DEF Matching
      <3>2. PICK u \in DOMAIN f : e = <<u, f[u]>>
        BY <1>2
      <3>3. e[1] = u /\ e[2] = f[u]
        BY <3>2
      <3> QED  BY <3>1, <3>3
    <2>2. ASSUME NEW t \in DOMAIN f, Match(q, c, f[t]) PROVE t \in Matching(n, q, c)
      <3>1. PICK e : e = <<t, f[t]>>
        OBVIOUS
      <3>2. e \in EntriesOf(n) /\ e[1] = t /\ e[2] = f[t]
        BY <1>2, <3>1
      <3> QED  BY <2>2, <3>2 DEF Matching
    <2> QED  BY <2>1, <2>2
  <1>4. \A t : t \in Expected(q, c) <=> t \in DOMAIN f /\ Match(q, c, f[t])
    BY <1>1 DEF Expected, Match
  <1> QED  BY <1>1, <1>3, <1>4

(* The length of a report of everything is the number of ids.              *)
LEMMA EnumeratesFacts ==
    ASSUME NEW s, NEW A, Enumerates(s, A)
    PROVE  ToSet(s) = A /\ Len(s) = Cardinality(A)
  <1>1. s \in Seq(A)
    BY DEF Enumerates
  <1>2. PICK N \in Nat : N = Len(s) /\ DOMAIN s = 1 .. N /\ s \in [1 .. N -> A]
    BY <1>1
  <1>3. ToSet(s) = A
    BY <1>2 DEF ToSet, Enumerates
  <1>4. \A a \in A : \E k \in 1 .. N : s[k] = a
    BY <1>2 DEF Enumerates
  <1>5. IsInjective(s)
    BY <1>2 DEF Enumerates, IsInjective
  <1>6. s \in Bijection(1 .. N, A)
    BY <1>2, <1>4, <1>5, Zenon DEF Bijection, Injection, Surjection
  <1>7. ExistsBijection(1 .. N, A)
    BY <1>6 DEF ExistsBijection
  <1> QED  BY <1>2, <1>3, <1>7, FS_CountingElements

(* Queries are not inside out.                                             *)
LEMMA QueriesValid ==
    \A q \in Queries : ValidRect(q)
  BY RTreeAssumption DEF ValidRect

(* RTreeSearch reports every entry of its kind, once: covers are never too *)
(* small to lead the search to an entry (rtreeM.c:560-620).                *)
THEOREM SearchCompleteTheorem == Spec => []SearchComplete
  <1>1. RTreeInv => SearchComplete
    <2> SUFFICES ASSUME RTreeInv, NEW q \in Queries, NEW c \in BOOLEAN
                 PROVE  /\ ToSet(SearchRect(root_node, q, c, FALSE)) = Expected(q, c)
                        /\ Len(SearchRect(root_node, q, c, FALSE)) = Cardinality(Expected(q, c))
      BY DEF SearchComplete
    <2>1. Good(root_node) /\ ValidRect(q)
      BY QueriesValid DEF RTreeInv, Proper
    <2>2. PICK s, A : s = SearchRect(root_node, q, c, FALSE) /\ A = Matching(root_node, q, c)
      OBVIOUS
    <2>3. Reported(s, FALSE, A)
      BY <2>1, <2>2, SearchRectGood
    <2>4. ToSet(s) = A /\ Len(s) = Cardinality(A)
      BY <2>3, EnumeratesFacts DEF Reported
    <2> QED  BY <2>2, <2>4, MatchingExpected
  <1> QED  BY <1>1, RTreeInvariant, PTL

(* The search that stops after more than three hits reports only groups    *)
(* that match, and at least one if there is one (rtreeM.c:576-579).        *)
THEOREM RandomSearchFindsOneTheorem == Spec => []RandomSearchFindsOne
  <1>1. RTreeInv => RandomSearchFindsOne
    <2> SUFFICES ASSUME RTreeInv, NEW q \in Queries
                 PROVE  LET hits == ToSet(SearchRect(root_node, q, TRUE, TRUE))
                        IN  hits \subseteq Expected(q, TRUE) /\ (Expected(q, TRUE) # {} => hits # {})
      BY DEF RandomSearchFindsOne
    <2>1. Good(root_node) /\ ValidRect(q)
      BY QueriesValid DEF RTreeInv, Proper
    <2>2. PICK s, A : s = SearchRect(root_node, q, TRUE, TRUE) /\ A = Matching(root_node, q, TRUE)
      OBVIOUS
    <2>3. Reported(s, TRUE, A)
      BY <2>1, <2>2, SearchRectGood
    <2>4. s \in Seq(A) /\ (A # {} => Len(s) > 0)
      BY <2>3 DEF Reported
    <2>5. PICK N \in Nat : N = Len(s) /\ DOMAIN s = 1 .. N /\ s \in [1 .. N -> A]
      BY <2>4
    <2>6. ToSet(s) \subseteq A
      BY <2>5 DEF ToSet
    <2>7. A # {} => 1 \in 1 .. N
      BY <2>4, <2>5
    <2>8. A # {} => ToSet(s) # {}
      BY <2>5, <2>7 DEF ToSet
    <2>9. A = Expected(q, TRUE)
      BY <2>2, MatchingExpected
    <2> QED  BY <2>2, <2>6, <2>8, <2>9
  <1> QED  BY <1>1, RTreeInvariant, PTL
=============================================================================
