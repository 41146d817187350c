----------------------------- MODULE RTreeRect -----------------------------
(***************************************************************************)
(* Rectangles of the R-tree (rtreeM.c, DIMS_NUMB = 2) and the rectangles   *)
(* that the SGB operators build from tuples and groups                     *)
(* (nodeAggHelperSGBAll.c).                                                *)
(*                                                                         *)
(* A rectangle is the array bound[SIDES_NUMB], low sides first. The        *)
(* initialisers of the C code give as many values as the query groups by   *)
(* columns times two; the rest of the array is zero, so that with one      *)
(* column the second value lands on a LOW side and both high sides are 0.  *)
(***************************************************************************)
EXTENDS Integers

CONSTANT numCols        \* grouping columns of the query, 1 or 2

ASSUME NumColsAssumption == numCols \in {1, 2}

DIMS_NUMB == 2
Dims == 1 .. DIMS_NUMB
Cols == 1 .. numCols

Rect == [1 .. 2 * DIMS_NUMB -> Int]

INVALID_RECT(m) == m[1] > m[1 + DIMS_NUMB]

RTreeOverlap(m, n) ==
    \A i \in Dims : m[i] <= n[i + DIMS_NUMB] /\ n[i] <= m[i + DIMS_NUMB]

RTreeContained(r, s) ==
    \/ INVALID_RECT(r)
    \/ /\ ~INVALID_RECT(s)
       /\ \A i \in Dims : r[i] >= s[i] /\ r[i + DIMS_NUMB] <= s[i + DIMS_NUMB]

Least(a, b)    == IF a < b THEN a ELSE b
Greatest(a, b) == IF a > b THEN a ELSE b

(* An undefined rectangle.                                                 *)
RTreeNullRect == <<1, 0, -1, 0>>

(* The rectangle that includes both; an invalid one counts for nothing.    *)
RTreeCombineRect(r, s) ==
    IF INVALID_RECT(r) THEN s
    ELSE IF INVALID_RECT(s) THEN r
    ELSE [i \in 1 .. 2 * DIMS_NUMB |->
             IF i \in Dims THEN Least(r[i], s[i]) ELSE Greatest(r[i], s[i])]

(* Volume of the bounding sphere, in units of UnitSphereVolume / 4: the    *)
(* tree only compares volumes and their differences.                       *)
RTreeRectSphericalVolume(r) ==
    IF INVALID_RECT(r) THEN 0
    ELSE (r[3] - r[1]) * (r[3] - r[1]) + (r[4] - r[2]) * (r[4] - r[2])

(* {p1, p2} for the columns in use, zeroes after them.                     *)
RectOf(p1, p2) == IF numCols = 1
                  THEN <<p1[1], p2[1], 0, 0>>
                  ELSE <<p1[1], p1[2], p2[1], p2[2]>>

getMBRinputSlot(t) == RectOf(t, t)

getMBRinputSlotBigger(t, eps) ==
    RectOf([i \in Cols |-> t[i] - eps], [i \in Cols |-> t[i] + eps])

getMBRHashEntry(pivot1, pivot2) == RectOf(pivot1, pivot2)
=============================================================================
