---------------------------- MODULE DisjointSetM ----------------------------
(***************************************************************************)
(* The disjoint-set forest of the SGB-Any operator (disjointSetM.c): an    *)
(* array m_nodes of elements with a parent pointer, a rank, and the list   *)
(* of children (childListHead, childListEnd, nextChild) that the operator  *)
(* walks at the end to aggregate the members of each set.                  *)
(*                                                                         *)
(* The two while loops of FindSet are modelled one iteration per action,   *)
(* with the locals of the function as variables: `tupleid1' is the         *)
(* argument, `currtnode' the cursor, `root' the root once it is found, and *)
(* `find' the control point ("idle", "walk", "compress", "return").        *)
(*                                                                         *)
(* class is a history variable: class[x] is the root of the set that the   *)
(* unions performed so far put x in. Only InsertElement and unionSet       *)
(* change it, and no guard reads it.                                       *)
(***************************************************************************)
EXTENDS Integers, FiniteSets

CONSTANT Capacity       \* length of m_nodes (dsjset->capacity)

ASSUME CapacityAssumption == Capacity \in Nat \ {0}

NULL == -1

(* The elements that can be written: those of m_nodes, 0 .. Capacity - 1,  *)
(* and the one behind it, which the bound check of InsertElement admits.   *)
Node == 0 .. Capacity

VARIABLES parent, rank, childListHead, childListEnd, nextChild,
          num_sets, num_elements,
          find, tupleid1, currtnode, root,
          class

listVars == <<childListHead, childListEnd, nextChild>>
findVars == <<find, tupleid1, currtnode, root>>
dsVars   == <<parent, rank, listVars, num_sets, num_elements, findVars, class>>

Inserted == 0 .. num_elements - 1
Roots    == {x \in Inserted : parent[x] = NULL}
-----------------------------------------------------------------------------
DSInit ==
    /\ parent = [x \in Node |-> NULL]
    /\ rank = [x \in Node |-> 0]
    /\ childListHead = [x \in Node |-> NULL]
    /\ childListEnd = [x \in Node |-> NULL]
    /\ nextChild = [x \in Node |-> NULL]
    /\ num_sets = 0
    /\ num_elements = 0
    /\ find = "idle"
    /\ tupleid1 = NULL
    /\ currtnode = NULL
    /\ root = NULL
    /\ class = [x \in Node |-> x]

(* No bound check.                                                         *)
InsertElementUnchecked(index) ==
    /\ num_elements' = num_elements + 1
    /\ num_sets' = num_sets + 1
    /\ UNCHANGED <<parent, rank, listVars, findVars, class>>

(* num_sets forgotten.                                                     *)
InsertElementUncounted(index) ==
    /\ index <= Capacity
    /\ num_elements' = num_elements + 1
    /\ UNCHANGED <<parent, rank, listVars, num_sets, findVars, class>>

(* A fresh element in slot index.                                          *)
InsertElement(index) ==
    /\ index <= Capacity
    /\ parent' = [parent EXCEPT ![index] = NULL]
    /\ rank' = [rank EXCEPT ![index] = 0]
    /\ childListHead' = [childListHead EXCEPT ![index] = NULL]
    /\ childListEnd' = [childListEnd EXCEPT ![index] = NULL]
    /\ nextChild' = [nextChild EXCEPT ![index] = NULL]
    /\ num_elements' = num_elements + 1
    /\ num_sets' = num_sets + 1
    /\ class' = [class EXCEPT ![index] = index]
    /\ UNCHANGED findVars

(* InsertElement returns false.                                            *)
InsertRefused(index) == index > Capacity /\ UNCHANGED dsVars

(* The append that unionSet and FindSet both perform: c becomes the last   *)
(* child of p. c's own nextChild is left as it is.                         *)
AppendChild(p, c) ==
    /\ childListHead' = IF childListEnd[p] = NULL
                        THEN [childListHead EXCEPT ![p] = c]
                        ELSE childListHead
    /\ nextChild' = IF childListEnd[p] = NULL
                    THEN nextChild
                    ELSE [nextChild EXCEPT ![childListEnd[p]] = c]
    /\ childListEnd' = [childListEnd EXCEPT ![p] = c]
-----------------------------------------------------------------------------
(* FindSet(tupleid1): walk to the root ...                                 *)
FindSet(x) ==
    /\ find = "idle"
    /\ find' = "walk"
    /\ tupleid1' = x
    /\ currtnode' = x
    /\ UNCHANGED <<parent, rank, listVars, num_sets, num_elements, root, class>>

(* A loop that does not advance.                                           *)
WalkUpStuck ==
    /\ find = "walk"
    /\ parent[currtnode] # NULL
    /\ UNCHANGED dsVars

WalkUp ==
    /\ find = "walk"
    /\ parent[currtnode] # NULL
    /\ currtnode' = parent[currtnode]
    /\ UNCHANGED <<parent, rank, listVars, num_sets, num_elements,
                   find, tupleid1, root, class>>

(* The second walk starts from the newest element.                         *)
AtRootWrongStart ==
    /\ find = "walk"
    /\ parent[currtnode] = NULL
    /\ root' = currtnode
    /\ currtnode' = num_elements - 1
    /\ find' = "compress"
    /\ UNCHANGED <<parent, rank, listVars, num_sets, num_elements, tupleid1, class>>

AtRoot ==
    /\ find = "walk"
    /\ parent[currtnode] = NULL
    /\ root' = currtnode
    /\ currtnode' = tupleid1
    /\ find' = "compress"
    /\ UNCHANGED <<parent, rank, listVars, num_sets, num_elements, tupleid1, class>>

(* An element is detached and not attached to the root.                    *)
CompressDetach ==
    /\ find = "compress"
    /\ currtnode # root
    /\ parent[currtnode] # root
    /\ parent' = [parent EXCEPT ![currtnode] = NULL]
    /\ currtnode' = parent[currtnode]
    /\ UNCHANGED <<rank, listVars, num_sets, num_elements, find, tupleid1, root, class>>

(* ... then walk again, making every element on the way that is not yet    *)
(* one a direct child of the root.                                         *)
Compress ==
    /\ find = "compress"
    /\ currtnode # root
    /\ parent[currtnode] # root
    /\ parent' = [parent EXCEPT ![currtnode] = root]
    /\ AppendChild(root, currtnode)
    /\ currtnode' = parent[currtnode]
    /\ UNCHANGED <<rank, num_sets, num_elements, find, tupleid1, root, class>>

FindDone ==
    /\ find = "compress"
    /\ currtnode = root \/ parent[currtnode] = root
    /\ find' = "return"
    /\ UNCHANGED <<parent, rank, listVars, num_sets, num_elements,
                   tupleid1, currtnode, root, class>>

(* The caller takes the returned index, root, and the locals are dead.     *)
FindReturn ==
    /\ find = "return"
    /\ find' = "idle"
    /\ tupleid1' = NULL
    /\ currtnode' = NULL
    /\ root' = NULL

FindStep == WalkUp \/ AtRoot \/ Compress \/ FindDone
-----------------------------------------------------------------------------
(* unionSet: the root of higher rank (the first on a tie) adopts the other *)
(* and is the result.                                                      *)
Winner(set1, set2) == IF rank[set1] < rank[set2] THEN set2 ELSE set1
Loser(set1, set2)  == IF rank[set1] < rank[set2] THEN set1 ELSE set2

(* No increment on a tie.                                                  *)
RankAfterUnionTie(set1, set2) == rank[Winner(set1, set2)]

RankAfterUnion(set1, set2) ==
    IF rank[set1] = rank[set2] THEN rank[set1] + 1 ELSE rank[set1] + rank[set2]

(* On a tie the parent is not set.                                         *)
unionSetTieUnlinked(set1, set2) ==
    LET w == Winner(set1, set2)
        l == Loser(set1, set2)
    IN  /\ set1 # set2
        /\ parent' = IF rank[set1] = rank[set2] THEN parent ELSE [parent EXCEPT ![l] = w]
        /\ rank' = [rank EXCEPT ![w] = RankAfterUnion(set1, set2)]
        /\ AppendChild(w, l)
        /\ num_sets' = num_sets - 1
        /\ class' = [x \in Node |-> IF class[x] = l THEN w ELSE class[x]]
        /\ UNCHANGED num_elements

unionSet(set1, set2) ==
    LET w == Winner(set1, set2)
        l == Loser(set1, set2)
    IN  /\ set1 # set2
        /\ parent' = [parent EXCEPT ![l] = w]
        /\ rank' = [rank EXCEPT ![w] = RankAfterUnion(set1, set2)]
        /\ AppendChild(w, l)
        /\ num_sets' = num_sets - 1
        /\ class' = [x \in Node |-> IF class[x] = l THEN w ELSE class[x]]
        /\ UNCHANGED num_elements
-----------------------------------------------------------------------------
(* The structure used by any sequential caller: elements are inserted,     *)
(* numbered in the order of arrival, searched, and two sets are fused once *)
(* FindSet has returned the root of one of them and the caller holds the   *)
(* root of the other.                                                      *)
Insert == find = "idle" /\ InsertElement(num_elements)

Refuse == find = "idle" /\ InsertRefused(num_elements)

Find == \E x \in Inserted : FindSet(x)

Union == /\ FindReturn
         /\ \E r \in Roots : unionSet(root, r)

NoUnion == /\ FindReturn
           /\ UNCHANGED <<parent, rank, listVars, num_sets, num_elements, class>>

DSNext == Insert \/ Refuse \/ Find \/ FindStep \/ Union \/ NoUnion

DSSpec == DSInit /\ [][DSNext]_dsVars

(* A running backend keeps executing the call it is in: FindSet is never   *)
(* abandoned half way.                                                     *)
DSFairSpec == DSSpec /\ WF_dsVars(FindStep)
-----------------------------------------------------------------------------
(* Every index stored is NULL or an element that InsertElement admits: the *)
(* caller goes on inserting, and the bound check alone keeps it from the   *)
(* memory two and more elements behind m_nodes.                            *)
DSTypeOK ==
    /\ parent \in [Node -> Node \cup {NULL}]
    /\ rank \in [Node -> Nat]
    /\ childListHead \in [Node -> Node \cup {NULL}]
    /\ childListEnd \in [Node -> Node \cup {NULL}]
    /\ nextChild \in [Node -> Node \cup {NULL}]
    /\ num_sets \in Nat
    /\ num_elements \in 0 .. Capacity + 1
    /\ find \in {"idle", "walk", "compress", "return"}
    /\ tupleid1 \in Node \cup {NULL}
    /\ currtnode \in Node \cup {NULL}
    /\ root \in Node \cup {NULL}
    /\ class \in [Node -> Node]

(* The index the parent pointers lead to, as FindSet follows them.         *)
RootOf == LET up[x \in Node] == IF parent[x] = NULL THEN x ELSE up[parent[x]]
          IN  up

(* The partition that the parent pointers represent.                       *)
PointerClasses == {{x \in Inserted : RootOf[x] = r} : r \in Roots}

(* The parent pointers always represent the partition that the unions      *)
(* built: path compression in FindSet re-parents elements in the middle of *)
(* a walk, and never moves one to another set.                             *)
PointersRepresentClasses == \A x \in Inserted : class[x] = RootOf[x]

(* Every element is outranked by its parent. unionSet adds the ranks of    *)
(* sets of different rank, which is not union by rank, and compression     *)
(* changes parents: neither closes a cycle, so the loops of FindSet end.   *)
ParentOutranks ==
    \A x \in Inserted : parent[x] # NULL => rank[x] < rank[parent[x]]

(* num_sets counts the sets, through inserts, unions and compressions.     *)
NumSetsCountsRoots == num_sets = Cardinality(Roots)

(* The links of the child lists never leave the set: FindSet re-appends an *)
(* element with the nextChild of its old list, and the list it then runs   *)
(* into belongs to the same set. Whatever the depth-first walk of a set    *)
(* reaches is a member of it.                                              *)
ListsStayInClass ==
    \A x \in Inserted :
        \A y \in {childListHead[x], childListEnd[x], nextChild[x]} \ {NULL} :
            y \in Inserted /\ class[y] = class[x]

(* Seen through the parent pointers the structure implements the abstract  *)
(* partition: an insert adds a singleton, a union fuses two classes, and   *)
(* no step of FindSet, its compression included, changes it.               *)
UF == INSTANCE UnionFindSpec WITH Elements <- Node, classes <- PointerClasses

ImplementsPartition == UF!Spec

(* A FindSet that has started returns.                                     *)
FindTerminates == (find = "walk") ~> (find = "return")
=============================================================================
