------------------------- MODULE DisjointSetProofs -------------------------
(***************************************************************************)
(* Proofs about the disjoint-set forest, for an array of any length.       *)
(*                                                                         *)
(* DSInv is inductive. Its parts: the type invariant; every element has    *)
(* the class of its parent and is outranked by its parent and by its root  *)
(* (Rooted), which is what path compression needs to re-parent it; the     *)
(* child lists stay in the class; the cursor of FindSet stays in the class *)
(* of its argument, and the root it found is that class (FindSound); the   *)
(* slots not used yet are as they were initialised (FreshSlots).           *)
(*                                                                         *)
(* That the pointers represent the classes is an argument about a          *)
(* recursive function: class satisfies the equation that defines RootOf,   *)
(* and because ranks grow along the pointers up to the rank of the root,   *)
(* nothing else does. The refinement of the abstract partition rests on it.*)
(***************************************************************************)
EXTENDS DisjointSetM, InductionLemmas, FiniteSetTheorems, TLAPS

Rooted ==
    \A x \in Inserted :
        /\ class[x] \in Roots
        /\ parent[x] = NULL => class[x] = x
        /\ parent[x] # NULL => /\ parent[x] \in Inserted
                               /\ class[parent[x]] = class[x]
                               /\ rank[x] < rank[parent[x]]
        /\ x # class[x] => rank[x] < rank[class[x]]

FindSound ==
    find # "idle" =>
        /\ tupleid1 \in Inserted /\ currtnode \in Inserted
        /\ class[currtnode] = class[tupleid1]
        /\ find # "walk" => root \in Inserted /\ root = class[tupleid1]

FreshSlots == \A x \in Node \ Inserted : parent[x] = NULL /\ class[x] = x

DSInv ==
    /\ DSTypeOK
    /\ NumSetsCountsRoots
    /\ Rooted
    /\ ListsStayInClass
    /\ FindSound
    /\ FreshSlots
-----------------------------------------------------------------------------
(* Elements are indexes of the array, and the roots among them are finite. *)
LEMMA NodeFacts ==
    ASSUME DSTypeOK
    PROVE  /\ Inserted \subseteq Node
           /\ NULL \notin Node
           /\ Roots \subseteq Inserted
           /\ num_elements \in Nat /\ num_elements <= Capacity + 1
           /\ IsFiniteSet(Roots)
  <1>0. num_elements \in Nat /\ num_elements <= Capacity + 1 /\ Capacity \in Nat
    BY CapacityAssumption DEF DSTypeOK
  <1>1. /\ Inserted \subseteq Node /\ NULL \notin Node /\ Roots \subseteq Inserted
        /\ num_elements \in Nat /\ num_elements <= Capacity + 1
    BY <1>0 DEF Inserted, Node, NULL, Roots
  <1>2. IsFiniteSet(Inserted)
    BY <1>1, FS_Interval DEF Inserted
  <1> QED  BY <1>1, <1>2, FS_Subset

(* Appending a child of the same class keeps the lists in their classes.   *)
LEMMA AppendStays ==
    ASSUME DSTypeOK, ListsStayInClass, NEW p \in Inserted, NEW c \in Inserted,
           AppendChild(p, c), UNCHANGED num_elements, class' \in [Node -> Node],
           class'[p] = class'[c],
           \A x, y \in Inserted : class[x] = class[y] => class'[x] = class'[y]
    PROVE  /\ ListsStayInClass'
           /\ childListHead' \in [Node -> Node \cup {NULL}]
           /\ childListEnd' \in [Node -> Node \cup {NULL}]
           /\ nextChild' \in [Node -> Node \cup {NULL}]
  <1>1. Inserted' = Inserted /\ Inserted \subseteq Node /\ NULL \notin Node
    BY NodeFacts DEF Inserted
  <1>2. /\ childListHead' \in [Node -> Node \cup {NULL}]
        /\ childListEnd' \in [Node -> Node \cup {NULL}]
        /\ nextChild' \in [Node -> Node \cup {NULL}]
    BY <1>1 DEF AppendChild, DSTypeOK
  <1>3. ASSUME NEW x \in Inserted, childListHead'[x] # NULL
        PROVE  childListHead'[x] \in Inserted /\ class'[childListHead'[x]] = class'[x]
    <2>1. CASE childListHead'[x] = childListHead[x]
      BY <1>1, <1>3, <2>1 DEF ListsStayInClass
    <2>2. CASE x = p /\ childListHead'[x] = c
      BY <2>2
    <2> QED  BY <1>1, <2>1, <2>2 DEF AppendChild, DSTypeOK
  <1>4. ASSUME NEW x \in Inserted, childListEnd'[x] # NULL
        PROVE  childListEnd'[x] \in Inserted /\ class'[childListEnd'[x]] = class'[x]
    <2>1. CASE childListEnd'[x] = childListEnd[x]
      BY <1>1, <1>4, <2>1 DEF ListsStayInClass
    <2>2. CASE x = p /\ childListEnd'[x] = c
      BY <2>2
    <2> QED  BY <1>1, <2>1, <2>2 DEF AppendChild, DSTypeOK
  <1>5. ASSUME NEW x \in Inserted, nextChild'[x] # NULL
        PROVE  nextChild'[x] \in Inserted /\ class'[nextChild'[x]] = class'[x]
    <2>1. CASE nextChild'[x] = nextChild[x]
      BY <1>1, <1>5, <2>1 DEF ListsStayInClass
    <2>2. CASE childListEnd[p] # NULL /\ x = childListEnd[p] /\ nextChild'[x] = c
      <3>1. class[x] = class[p]
        BY <2>2 DEF ListsStayInClass
      <3> QED  BY <2>2, <3>1
    <2> QED  BY <1>1, <2>1, <2>2 DEF AppendChild, DSTypeOK
  <1> QED  BY <1>1, <1>2, <1>3, <1>4, <1>5 DEF ListsStayInClass
-----------------------------------------------------------------------------
(* DSInv holds of the empty structure and is kept by every operation.      *)
LEMMA DSInvInit == DSInit => DSInv
  <1> SUFFICES ASSUME DSInit PROVE DSInv
    OBVIOUS
  <1>1. DSTypeOK
    BY CapacityAssumption DEF DSInit, DSTypeOK, Node
  <1>2. Inserted = {} /\ Roots = {}
    BY DEF DSInit, Inserted, Roots
  <1>3. NumSetsCountsRoots
    BY <1>2, FS_EmptySet DEF DSInit, NumSetsCountsRoots
  <1> QED  BY <1>1, <1>2, <1>3 DEF DSInit, DSInv, Rooted, ListsStayInClass, FindSound,
                                   FreshSlots

LEMMA InsertInv ==
    ASSUME DSInv, Insert
    PROVE  DSInv'
  <1> USE DEF DSInv
  <1> DEFINE n == num_elements
  <1>1. /\ find = "idle" /\ n \in Node /\ InsertElement(n)
    BY CapacityAssumption DEF Insert, InsertElement, DSTypeOK, Node
  <1>2. /\ n \in Nat /\ n <= Capacity /\ Inserted \subseteq Node /\ NULL \notin Node
        /\ n \notin Inserted /\ Inserted' = Inserted \cup {n}
    BY <1>1, NodeFacts DEF InsertElement, Inserted
  <1>3. /\ parent' = [parent EXCEPT ![n] = NULL]
        /\ rank' = [rank EXCEPT ![n] = 0]
        /\ childListHead' = [childListHead EXCEPT ![n] = NULL]
        /\ childListEnd' = [childListEnd EXCEPT ![n] = NULL]
        /\ nextChild' = [nextChild EXCEPT ![n] = NULL]
        /\ num_elements' = n + 1
        /\ num_sets' = num_sets + 1
        /\ class' = [class EXCEPT ![n] = n]
        /\ UNCHANGED findVars
    BY <1>1 DEF InsertElement
  <1> HIDE DEF n
  <1>4. DSTypeOK'
    BY <1>1, <1>2, <1>3, CapacityAssumption DEF DSTypeOK, findVars
  <1>5. Roots' = Roots \cup {n} /\ n \notin Roots
    BY <1>1, <1>2, <1>3 DEF Roots, DSTypeOK
  <1>6. NumSetsCountsRoots'
    BY <1>3, <1>5, NodeFacts, FS_AddElement DEF NumSetsCountsRoots
  <1>7. \A x \in Inserted : /\ x # n /\ parent'[x] = parent[x] /\ rank'[x] = rank[x]
                            /\ class'[x] = class[x]
                            /\ childListHead'[x] = childListHead[x]
                            /\ childListEnd'[x] = childListEnd[x]
                            /\ nextChild'[x] = nextChild[x]
    BY <1>2, <1>3 DEF DSTypeOK
  <1>8. /\ parent'[n] = NULL /\ class'[n] = n /\ childListHead'[n] = NULL
        /\ childListEnd'[n] = NULL /\ nextChild'[n] = NULL
    BY <1>1, <1>3 DEF DSTypeOK
  <1>9. Rooted'
    BY <1>2, <1>5, <1>7, <1>8, NodeFacts DEF Rooted
  <1>10. ListsStayInClass'
    BY <1>2, <1>7, <1>8 DEF ListsStayInClass
  <1>11. FindSound'
    BY <1>1, <1>3 DEF FindSound, findVars
  <1>12. FreshSlots'
    BY <1>2, <1>3 DEF FreshSlots, DSTypeOK
  <1> QED  BY <1>4, <1>6, <1>9, <1>10, <1>11, <1>12

LEMMA FindInv ==
    ASSUME DSInv, Find \/ WalkUp \/ AtRoot \/ FindDone \/ NoUnion
    PROVE  DSInv'
  <1> USE DEF DSInv
  <1>1. /\ UNCHANGED <<parent, rank, listVars, num_sets, num_elements, class>>
        /\ Inserted \subseteq Node
    BY NodeFacts DEF Find, FindSet, WalkUp, AtRoot, FindDone, NoUnion
  <1>2. /\ DSTypeOK' /\ FindSound'
    <2>1. CASE Find
      BY <1>1, <2>1 DEF Find, FindSet, FindSound, DSTypeOK, listVars, Inserted
    <2>2. CASE WalkUp
      BY <1>1, <2>2 DEF WalkUp, FindSound, DSTypeOK, listVars, Inserted, Rooted
    <2>3. CASE AtRoot
      BY <1>1, <2>3 DEF AtRoot, FindSound, DSTypeOK, listVars, Inserted, Rooted
    <2>4. CASE FindDone
      BY <1>1, <2>4 DEF FindDone, FindSound, DSTypeOK, listVars, Inserted
    <2>5. CASE NoUnion
      BY <1>1, <2>5 DEF NoUnion, FindReturn, FindSound, DSTypeOK, listVars, Inserted
    <2> QED  BY <2>1, <2>2, <2>3, <2>4, <2>5
  <1>3. Rooted' /\ ListsStayInClass' /\ NumSetsCountsRoots' /\ FreshSlots'
    BY <1>1 DEF listVars, Rooted, ListsStayInClass, NumSetsCountsRoots, FreshSlots,
                Inserted, Roots
  <1> QED  BY <1>2, <1>3

LEMMA CompressInv ==
    ASSUME DSInv, Compress
    PROVE  DSInv'
  <1> USE DEF DSInv
  <1> DEFINE c == currtnode
  <1>1. /\ find = "compress" /\ c # root /\ parent[c] # root
        /\ parent' = [parent EXCEPT ![c] = root]
        /\ AppendChild(root, c)
        /\ currtnode' = parent[c]
        /\ UNCHANGED <<rank, num_sets, num_elements, find, tupleid1, root, class>>
    BY DEF Compress
  <1>2. /\ c \in Inserted /\ root \in Inserted /\ tupleid1 \in Inserted
        /\ class[c] = root /\ class[tupleid1] = root
        /\ Inserted \subseteq Node /\ NULL \notin Node /\ Inserted' = Inserted
    BY <1>1, NodeFacts DEF FindSound, Inserted
  <1>3. /\ parent[c] # NULL /\ parent[c] \in Inserted /\ class[parent[c]] = root
        /\ rank[c] < rank[root] /\ root \in Roots /\ class[root] = root
    BY <1>1, <1>2 DEF Rooted, Roots
  <1> HIDE DEF c
  <1>4. /\ parent' \in [Node -> Node \cup {NULL}]
        /\ \A x \in Inserted : parent'[x] = IF x = c THEN root ELSE parent[x]
    BY <1>1, <1>2 DEF DSTypeOK
  <1>5. Roots' = Roots
    BY <1>2, <1>3, <1>4 DEF Roots
  <1>6. /\ ListsStayInClass'
        /\ childListHead' \in [Node -> Node \cup {NULL}]
        /\ childListEnd' \in [Node -> Node \cup {NULL}]
        /\ nextChild' \in [Node -> Node \cup {NULL}]
    BY <1>1, <1>2, <1>3, AppendStays DEF DSTypeOK
  <1>7. DSTypeOK'
    BY <1>1, <1>2, <1>3, <1>4, <1>6 DEF DSTypeOK
  <1>8. NumSetsCountsRoots'
    BY <1>1, <1>5 DEF NumSetsCountsRoots
  <1>9. Rooted'
    BY <1>1, <1>2, <1>3, <1>4, <1>5 DEF Rooted
  <1>10. FindSound'
    BY <1>1, <1>2, <1>3 DEF FindSound
  <1>11. FreshSlots'
    BY <1>1, <1>2 DEF FreshSlots, DSTypeOK
  <1> QED  BY <1>6, <1>7, <1>8, <1>9, <1>10, <1>11

(* The root of higher rank wins, and outranks the loser afterwards.        *)
LEMMA UnionRanks ==
    ASSUME DSTypeOK, NEW a \in Roots, NEW b \in Roots, a # b
    PROVE  /\ {Winner(a, b), Loser(a, b)} = {a, b}
           /\ Winner(a, b) # Loser(a, b)
           /\ RankAfterUnion(a, b) \in Nat
           /\ rank[Winner(a, b)] <= RankAfterUnion(a, b)
           /\ rank[Loser(a, b)] < RankAfterUnion(a, b)
  <1>1. rank[a] \in Nat /\ rank[b] \in Nat
    BY NodeFacts DEF DSTypeOK
  <1>2. CASE rank[a] < rank[b]
    BY <1>1, <1>2 DEF Winner, Loser, RankAfterUnion
  <1>3. CASE rank[a] = rank[b]
    BY <1>1, <1>3 DEF Winner, Loser, RankAfterUnion
  <1>4. CASE rank[b] < rank[a]
    BY <1>1, <1>4 DEF Winner, Loser, RankAfterUnion
  <1> QED  BY <1>1, <1>2, <1>3, <1>4

LEMMA UnionInv ==
    ASSUME DSInv, Union
    PROVE  DSInv'
  <1> USE DEF DSInv
  <1>1. PICK r \in Roots : unionSet(root, r)
    BY DEF Union
  <1>2. find = "return" /\ find' = "idle" /\ tupleid1' = NULL /\ currtnode' = NULL /\ root' = NULL
    BY DEF Union, FindReturn
  <1>3. root \in Roots /\ root # r
    BY <1>1, <1>2 DEF FindSound, Rooted, unionSet
  <1> DEFINE w == Winner(root, r)
             l == Loser(root, r)
             k == RankAfterUnion(root, r)
  <1>4. /\ parent' = [parent EXCEPT ![l] = w]
        /\ rank' = [rank EXCEPT ![w] = k]
        /\ AppendChild(w, l)
        /\ num_sets' = num_sets - 1
        /\ class' = [x \in Node |-> IF class[x] = l THEN w ELSE class[x]]
        /\ num_elements' = num_elements
    BY <1>1 DEF unionSet
  <1>5. /\ w \in Roots /\ l \in Roots /\ w # l
        /\ k \in Nat /\ rank[w] <= k /\ rank[l] < k
    BY <1>3, UnionRanks
  <1> HIDE DEF w, l, k
  <1>6. /\ Inserted \subseteq Node /\ NULL \notin Node /\ Inserted' = Inserted
        /\ w \in Inserted /\ l \in Inserted
        /\ class[w] = w /\ class[l] = l /\ parent[w] = NULL /\ parent[l] = NULL
    BY <1>4, <1>5, NodeFacts DEF Inserted, Roots, Rooted
  <1>7. \A x \in Inserted :
           /\ parent'[x] = IF x = l THEN w ELSE parent[x]
           /\ rank'[x] = IF x = w THEN k ELSE rank[x]
           /\ class'[x] = IF class[x] = l THEN w ELSE class[x]
           /\ rank[x] \in Nat
    BY <1>4, <1>6 DEF DSTypeOK
  <1>8. Roots' = Roots \ {l}
    BY <1>6, <1>7 DEF Roots
  <1>9. num_sets' \in Nat /\ NumSetsCountsRoots'
    <2>1. IsFiniteSet(Roots) /\ Cardinality(Roots \ {l}) = Cardinality(Roots) - 1
      BY <1>5, NodeFacts, FS_RemoveElement
    <2>2. IsFiniteSet(Roots \ {l})
      BY <2>1, FS_RemoveElement
    <2>3. Cardinality(Roots \ {l}) \in Nat
      BY <2>2, FS_CardinalityType
    <2> QED  BY <1>4, <1>8, <2>1, <2>3 DEF NumSetsCountsRoots
  <1>10. class' \in [Node -> Node]
    BY <1>4, <1>6 DEF DSTypeOK
  <1>11. /\ ListsStayInClass'
         /\ childListHead' \in [Node -> Node \cup {NULL}]
         /\ childListEnd' \in [Node -> Node \cup {NULL}]
         /\ nextChild' \in [Node -> Node \cup {NULL}]
    BY <1>4, <1>5, <1>6, <1>7, <1>10, AppendStays
  <1>12. DSTypeOK'
    BY <1>2, <1>4, <1>5, <1>6, <1>9, <1>10, <1>11 DEF DSTypeOK
  <1>13. Rooted'
    <2> SUFFICES ASSUME NEW x \in Inserted
                 PROVE  /\ class'[x] \in Roots'
                        /\ parent'[x] = NULL => class'[x] = x
                        /\ parent'[x] # NULL => /\ parent'[x] \in Inserted
                                                /\ class'[parent'[x]] = class'[x]
                                                /\ rank'[x] < rank'[parent'[x]]
                        /\ x # class'[x] => rank'[x] < rank'[class'[x]]
      BY <1>6 DEF Rooted
    <2>1. class'[x] \in Roots'
      BY <1>5, <1>7, <1>8 DEF Rooted
    <2>2. parent'[x] = NULL => class'[x] = x
      BY <1>6, <1>7 DEF Rooted
    <2>3. ASSUME parent'[x] # NULL
          PROVE  /\ parent'[x] \in Inserted
                 /\ class'[parent'[x]] = class'[x]
                 /\ rank'[x] < rank'[parent'[x]]
      <3>1. CASE x = l
        BY <1>5, <1>6, <1>7, <3>1
      <3>2. CASE x # l
        <4>1. /\ parent[x] \in Inserted /\ class[parent[x]] = class[x]
              /\ rank[x] < rank[parent[x]] /\ parent'[x] = parent[x] /\ x # w
          BY <1>6, <1>7, <2>3, <3>2 DEF Rooted
        <4> QED  BY <1>5, <1>7, <4>1
      <3> QED  BY <3>1, <3>2
    <2>4. ASSUME x # class'[x] PROVE rank'[x] < rank'[class'[x]]
      <3>1. CASE class[x] = l
        BY <1>5, <1>6, <1>7, <2>4, <3>1 DEF Rooted
      <3>2. CASE class[x] # l
        BY <1>5, <1>6, <1>7, <2>4, <3>2, NodeFacts DEF Rooted
      <3> QED  BY <3>1, <3>2
    <2> QED  BY <2>1, <2>2, <2>3, <2>4
  <1>14. FreshSlots'
    BY <1>4, <1>6 DEF FreshSlots, DSTypeOK
  <1> QED  BY <1>2, <1>9, <1>11, <1>12, <1>13, <1>14 DEF FindSound

LEMMA DSInvStep == DSInv /\ [DSNext]_dsVars => DSInv'
  <1> SUFFICES ASSUME DSInv, [DSNext]_dsVars PROVE DSInv'
    OBVIOUS
  <1>1. CASE UNCHANGED dsVars
    BY <1>1 DEF dsVars, listVars, findVars, DSInv, DSTypeOK, NumSetsCountsRoots, Rooted,
                ListsStayInClass, FindSound, FreshSlots, Inserted, Roots
  <1> QED  BY <1>1, InsertInv, FindInv, CompressInv, UnionInv DEF DSNext, FindStep, Refuse, InsertRefused

LEMMA DSInvariance == DSSpec => []DSInv
  BY DSInvInit, DSInvStep, PTL DEF DSSpec
-----------------------------------------------------------------------------
(* The fields keep their types; in particular num_sets never goes below    *)
(* zero.                                                                   *)
THEOREM DSTypeCorrect == DSSpec => []DSTypeOK
  BY DSInvariance, PTL DEF DSInv

(* Every element is outranked by its parent: the parent pointers have no   *)
(* cycle, whatever unionSet does to the ranks and FindSet to the parents.  *)
THEOREM NoCycleTheorem == DSSpec => []ParentOutranks
  <1>1. DSInv => ParentOutranks
    BY DEF DSInv, Rooted, ParentOutranks
  <1> QED  BY <1>1, DSInvariance, PTL

(* num_sets is the number of sets.                                         *)
THEOREM NumSetsTheorem == DSSpec => []NumSetsCountsRoots
  BY DSInvariance, PTL DEF DSInv

(* The links of the child lists never leave the set, although FindSet      *)
(* re-appends elements that are still linked in another list.              *)
THEOREM ListsTheorem == DSSpec => []ListsStayInClass
  BY DSInvariance, PTL DEF DSInv
-----------------------------------------------------------------------------
(* The function that follows the parent pointers exists: class is one.     *)
LEMMA RootOfEquation ==
    ASSUME DSInv
    PROVE  RootOf = [x \in Node |-> IF parent[x] = NULL THEN x ELSE RootOf[parent[x]]]
  <1> DEFINE Eq(f) == f = [x \in Node |-> IF parent[x] = NULL THEN x ELSE f[parent[x]]]
  <1>1. class = [x \in Node |-> IF parent[x] = NULL THEN x ELSE class[parent[x]]]
    BY NodeFacts DEF DSInv, DSTypeOK, Rooted, FreshSlots
  <1>2. \E f : Eq(f)
    BY <1>1
  <1>3. RootOf = CHOOSE f : Eq(f)
    BY DEF RootOf
  <1>4. Eq(RootOf)
    <2> HIDE DEF Eq
    <2> QED BY <1>2, <1>3
  <1> QED BY <1>4

(* It is the only one: an element on which another solution differs has a  *)
(* parent, of a rank closer to that of the root, on which it differs too.  *)
LEMMA RootOfIsClass ==
    DSInv => RootOf = class
  <1> SUFFICES ASSUME DSInv PROVE RootOf = class
    OBVIOUS
  <1> DEFINE Bad == {x \in Inserted : RootOf[x] # class[x]}
             d(x) == rank[class[x]] - rank[x]
             S == {d(x) : x \in Bad}
  <1>1. Inserted \subseteq Node /\ NULL \notin Node
    BY NodeFacts DEF DSInv
  <1>2. RootOf = [x \in Node |-> IF parent[x] = NULL THEN x ELSE RootOf[parent[x]]]
    BY RootOfEquation
  <1>3. \A x \in Inserted : d(x) \in Nat
    BY <1>1, NodeFacts DEF DSInv, DSTypeOK, Rooted
  <1>4. ASSUME NEW x \in Bad
        PROVE  parent[x] \in Bad /\ d(parent[x]) < d(x)
    <2>1. parent[x] # NULL
      BY <1>1, <1>2 DEF DSInv, Rooted
    <2>2. /\ parent[x] \in Inserted /\ class[parent[x]] = class[x] /\ rank[x] < rank[parent[x]]
      BY <2>1 DEF DSInv, Rooted
    <2>3. RootOf[x] = RootOf[parent[x]]
      BY <1>1, <1>2, <2>1
    <2>4. rank[x] \in Nat /\ rank[parent[x]] \in Nat /\ rank[class[x]] \in Nat
      BY <1>1, <2>2 DEF DSInv, DSTypeOK
    <2> QED  BY <2>2, <2>3, <2>4
  <1>5. Bad = {}
    <2> SUFFICES ASSUME Bad # {} PROVE FALSE
      OBVIOUS
    <2>1. S \in SUBSET Nat /\ S # {}
      BY <1>3
    <2>2. PICK n \in S : \A m \in S : n <= m
      BY <2>1, LeastNatural
    <2>3. PICK x \in Bad : n = d(x)
      BY <2>2
    <2>4. d(parent[x]) \in S /\ d(parent[x]) < n /\ parent[x] \in Inserted
      BY <1>4, <2>3
    <2>5. n <= d(parent[x])
      BY <2>2, <2>4
    <2>6. n \in Nat /\ d(parent[x]) \in Nat
      BY <1>3, <2>3, <2>4
    <2> HIDE DEF d
    <2> QED  BY <2>4, <2>5, <2>6
  <1>6. \A x \in Node : RootOf[x] = class[x]
    BY <1>2, <1>5 DEF DSInv, FreshSlots
  <1> QED  BY <1>2, <1>6 DEF DSInv, DSTypeOK

(* The parent pointers represent the partition that the unions built,      *)
(* whatever path compression has done to them.                             *)
THEOREM PointersTheorem == DSSpec => []PointersRepresentClasses
  <1>1. DSInv => PointersRepresentClasses
    BY RootOfIsClass, NodeFacts DEF DSInv, PointersRepresentClasses
  <1> QED  BY <1>1, DSInvariance, PTL
-----------------------------------------------------------------------------
ClassOf(r) == {x \in Inserted : class[x] = r}
Classes    == {ClassOf(r) : r \in Roots}

LEMMA PointerClassesAreClasses == DSInv => PointerClasses = Classes
  BY RootOfIsClass DEF PointerClasses, Classes, ClassOf

LEMMA InsertAddsClass ==
    ASSUME DSInv, Insert
    PROVE  /\ num_elements \in Node
           /\ num_elements \notin UNION Classes
           /\ Classes' = Classes \cup {{num_elements}}
  <1>0. PICK n \in Node : n = num_elements
    BY CapacityAssumption DEF DSInv, DSTypeOK, Insert, InsertElement, Node
  <1>1. /\ n \in Node /\ n \in Nat /\ n <= Capacity /\ num_elements' = n + 1
        /\ parent' = [parent EXCEPT ![n] = NULL]
        /\ class' = [class EXCEPT ![n] = n]
    BY <1>0, CapacityAssumption DEF DSInv, DSTypeOK, Insert, InsertElement, Node
  <1>2. Inserted' = Inserted \cup {n} /\ n \notin Inserted /\ Inserted \subseteq Node
    BY <1>0, <1>1, NodeFacts DEF DSInv, Inserted
  <1>3. /\ \A x \in Inserted : x # n /\ parent'[x] = parent[x] /\ class'[x] = class[x]
        /\ parent'[n] = NULL /\ class'[n] = n
    BY <1>1, <1>2 DEF DSInv, DSTypeOK
  <1>4. Roots' = Roots \cup {n}
    BY <1>2, <1>3 DEF Roots
  <1>5. \A x \in Inserted : class[x] \in Inserted
    BY DEF DSInv, Rooted, Roots
  <1>6. \A r \in Roots : ClassOf(r)' = ClassOf(r)
    BY <1>2, <1>3 DEF ClassOf, Roots
  <1>7. ClassOf(n)' = {n}
    BY <1>2, <1>3, <1>5 DEF ClassOf
  <1>8. Classes' = Classes \cup {{n}}
    <2>1. Classes' = {ClassOf(r)' : r \in Roots \cup {n}}
      BY <1>4 DEF Classes
    <2>2. Classes' = {ClassOf(r)' : r \in Roots} \cup {ClassOf(n)'}
      BY <2>1
    <2>3. {ClassOf(r)' : r \in Roots} = Classes
      BY <1>6 DEF Classes
    <2> QED  BY <1>7, <2>2, <2>3
  <1>9. n \notin UNION Classes
    BY <1>2 DEF Classes, ClassOf
  <1> QED  BY <1>0, <1>8, <1>9

LEMMA UnionFusesClasses ==
    ASSUME DSInv, Union
    PROVE  \E A, B \in Classes : /\ A # B
                                 /\ Classes' = (Classes \ {A, B}) \cup {A \cup B}
  <1>1. PICK r \in Roots : unionSet(root, r)
    BY DEF Union
  <1>2. root \in Roots /\ root # r
    BY <1>1 DEF DSInv, FindSound, Rooted, unionSet, Union, FindReturn
  <1>w. PICK w : w = Winner(root, r)
    OBVIOUS
  <1>l. PICK l : l = Loser(root, r)
    OBVIOUS
  <1>3. /\ parent' = [parent EXCEPT ![l] = w]
        /\ class' = [x \in Node |-> IF class[x] = l THEN w ELSE class[x]]
        /\ num_elements' = num_elements
    BY <1>1, <1>w, <1>l DEF unionSet
  <1>4. w \in Roots /\ l \in Roots /\ w # l
    BY <1>2, <1>w, <1>l, UnionRanks DEF DSInv
  <1>5. /\ Inserted \subseteq Node /\ NULL \notin Node /\ Inserted' = Inserted
        /\ \A s \in Roots : s \in Inserted /\ class[s] = s
    BY <1>3, NodeFacts DEF DSInv, Inserted, Roots, Rooted
  <1>6. /\ Roots' = Roots \ {l}
        /\ \A x \in Inserted : class'[x] = IF class[x] = l THEN w ELSE class[x]
    BY <1>3, <1>4, <1>5 DEF Roots, DSInv, DSTypeOK
  <1> DEFINE A == ClassOf(w)
             B == ClassOf(l)
  <1>7. ClassOf(w)' = A \cup B
    BY <1>4, <1>5, <1>6 DEF ClassOf
  <1>8. \A s \in Roots \ {w, l} : ClassOf(s)' = ClassOf(s)
    BY <1>4, <1>5, <1>6 DEF ClassOf
  <1>9. \A s, t \in Roots : s # t => ClassOf(s) # ClassOf(t)
    BY <1>5 DEF ClassOf
  <1> HIDE DEF A, B
  <1>10. Classes \ {A, B} = {ClassOf(s) : s \in Roots \ {w, l}}
    BY <1>4, <1>9 DEF Classes, A, B
  <1>11. Classes' = {ClassOf(s)' : s \in Roots \ {l}}
    BY <1>6 DEF Classes
  <1>12. Classes' = (Classes \ {A, B}) \cup {A \cup B}
    <2>1. Classes' = {ClassOf(s)' : s \in Roots \ {w, l}} \cup {ClassOf(w)'}
      BY <1>4, <1>11
    <2>2. {ClassOf(s)' : s \in Roots \ {w, l}} = {ClassOf(s) : s \in Roots \ {w, l}}
      BY <1>8
    <2> QED  BY <1>7, <1>10, <2>1, <2>2
  <1>13. A \in Classes /\ B \in Classes /\ A # B
    BY <1>4, <1>9 DEF Classes, A, B
  <1> QED  BY <1>12, <1>13

LEMMA OthersKeepClasses ==
    ASSUME DSInv, Find \/ FindStep \/ NoUnion \/ UNCHANGED dsVars
    PROVE  Classes' = Classes
  <1>1. UNCHANGED <<num_elements, class>>
    BY DEF Find, FindSet, FindStep, WalkUp, AtRoot, Compress, FindDone, NoUnion, dsVars
  <1>2. Roots' = Roots
    <2>1. CASE Compress
      <3>1. /\ parent' = [parent EXCEPT ![currtnode] = root]
            /\ currtnode \in Inserted /\ currtnode # root /\ class[currtnode] = root
            /\ root \in Inserted
        BY <2>1 DEF Compress, DSInv, FindSound
      <3>2. parent[currtnode] # NULL /\ root # NULL
        BY <3>1, NodeFacts DEF DSInv, Rooted
      <3> QED  BY <1>1, <3>1, <3>2 DEF Roots, Inserted, DSInv, DSTypeOK
    <2>2. CASE ~Compress
      <3>1. UNCHANGED parent
        BY <2>2 DEF Find, FindSet, FindStep, WalkUp, AtRoot, FindDone, NoUnion, dsVars
      <3> QED  BY <1>1, <3>1 DEF Roots, Inserted
    <2> QED  BY <2>1, <2>2
  <1> QED  BY <1>1, <1>2 DEF Classes, ClassOf, Inserted

(* Seen through its parent pointers the structure implements the abstract  *)
(* partition: InsertElement adds a singleton, unionSet fuses two classes,  *)
(* and no step of FindSet, compression included, changes the partition.    *)
THEOREM PartitionTheorem == DSSpec => ImplementsPartition
  <1>1. DSInit => UF!Init
    <2> SUFFICES ASSUME DSInit PROVE PointerClasses = {}
      BY DEF UF!Init
    <2>1. Roots = {}
      BY DEF DSInit, Roots, Inserted
    <2> QED  BY <2>1 DEF PointerClasses
  <1>2. DSInv /\ DSInv' /\ [DSNext]_dsVars => [UF!Next]_PointerClasses
    <2> SUFFICES ASSUME DSInv, DSInv', [DSNext]_dsVars
                 PROVE  [UF!Next]_PointerClasses
      OBVIOUS
    <2>1. PointerClasses = Classes
      BY PointerClassesAreClasses
    <2>2. PointerClasses' = Classes'
      <3>1. (DSInv => PointerClasses = Classes)'
        BY PointerClassesAreClasses, PTL
      <3> QED  BY <3>1
    <2>3. CASE Insert
      <3>1. UF!InsertClass(num_elements) /\ num_elements \in Node
        BY <2>1, <2>2, <2>3, InsertAddsClass DEF UF!InsertClass
      <3> QED  BY <3>1 DEF UF!Next
    <2>4. CASE Union
      <3>1. \E A, B \in PointerClasses : UF!FuseClasses(A, B)
        BY <2>1, <2>2, <2>4, UnionFusesClasses DEF UF!FuseClasses
      <3> QED  BY <3>1 DEF UF!Next
    <2>5. CASE Find \/ FindStep \/ NoUnion \/ UNCHANGED dsVars
      BY <2>1, <2>2, <2>5, OthersKeepClasses
    <2> QED  BY <2>3, <2>4, <2>5 DEF DSNext, Refuse, InsertRefused
  <1> QED  BY <1>1, <1>2, DSInvariance, PTL DEF DSSpec, ImplementsPartition, UF!Spec
=============================================================================
