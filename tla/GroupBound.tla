----------------------------- MODULE GroupBound -----------------------------
(***************************************************************************)
(* The bounds of an SGB-All group, shared by the handlers of every overlap *)
(* clause: judgeJoinGroup narrows one column [lo, hi] of a group's box to  *)
(* what is within EPS of a tuple x that joins, and leaves a box alone that *)
(* is no wider than EPS.                                                   *)
(***************************************************************************)
EXTENDS RTreeRect

CONSTANT EPS            \* distanceall of the query

Width(lo, hi) == IF lo <= hi THEN hi - lo ELSE lo - hi

(* The bound is not moved; it is moved to the tuple.                       *)
NewLowKept(lo, hi, x) == lo

NewLowTuple(lo, hi, x) ==
    IF Width(lo, hi) > EPS /\ x - EPS > lo THEN x ELSE lo

NewLow(lo, hi, x) ==
    IF Width(lo, hi) > EPS /\ x - EPS > lo THEN x - EPS ELSE lo

NewHigh(lo, hi, x) ==
    IF Width(lo, hi) > EPS /\ x + EPS < hi THEN x + EPS ELSE hi

(* updateInputSlotbyEPS: the box of a group that has one tuple.            *)
LowAround(t)  == [i \in Cols |-> t[i] - EPS]
HighAround(t) == [i \in Cols |-> t[i] + EPS]
=============================================================================
