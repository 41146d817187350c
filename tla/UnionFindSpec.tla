--------------------------- MODULE UnionFindSpec ---------------------------
(***************************************************************************)
(* What the disjoint-set structure of the SGB-Any operator promises: a     *)
(* partition of the elements inserted so far, to which an element is added *)
(* as a class of its own and in which two different classes can be fused.  *)
(* FindSet does not appear: it may rearrange the trees that represent the  *)
(* partition, never the partition.                                         *)
(***************************************************************************)

CONSTANT Elements       \* what may be inserted

VARIABLE classes        \* the partition, a set of non-empty disjoint sets

Init == classes = {}

InsertClass(x) ==
    /\ x \notin UNION classes
    /\ classes' = classes \cup {{x}}

FuseClasses(A, B) ==
    /\ A # B
    /\ classes' = (classes \ {A, B}) \cup {A \cup B}

Next ==
    \/ \E x \in Elements : InsertClass(x)
    \/ \E A, B \in classes : FuseClasses(A, B)

Spec == Init /\ [][Next]_classes
=============================================================================
