---------------------------- MODULE ConvexHullM ----------------------------
(***************************************************************************)
(* The convex hulls of SGB-All with METRIC LTWO (convexhullM.c). A hull is *)
(* the ring of its vertices, as the sequence that starts at convexheader   *)
(* and follows next; a vertex is a pair of integers. Distances are         *)
(* compared by their squares.                                              *)
(***************************************************************************)
EXTENDS Integers, Sequences, FiniteSetsExt

crossproduct(o, a, b) ==
    (a[1] - o[1]) * (b[2] - o[2]) - (a[2] - o[2]) * (b[1] - o[1])

SquareDist(p, q) == (p[1] - q[1]) * (p[1] - q[1]) + (p[2] - q[2]) * (p[2] - q[2])

(* The ring that starts at place k of h.                                   *)
From(h, k) == SubSeq(h, k, Len(h)) \o SubSeq(h, 1, k - 1)

NextPlace(h, k) == IF k = Len(h) THEN 1 ELSE k + 1
PrevPlace(h, k) == IF k = 1 THEN Len(h) ELSE k - 1
-----------------------------------------------------------------------------
(* No two edges of the ring have p on different sides.                     *)
OneSided(r, p) ==
    LET side(k) == crossproduct(p, r[k], r[NextPlace(r, k)])
    IN  (\A k \in DOMAIN r : side(k) >= 0) \/ (\A k \in DOMAIN r : side(k) <= 0)

(* insideConvexAndInsideBound walks the ring r from the vertex after the   *)
(* header and ends at the first vertex that is p itself or too far.        *)
Stops(r, p, eps) ==
    {k \in DOMAIN r : SquareDist(p, r[k]) = 0 \/ SquareDist(p, r[k]) > eps * eps}

(* 0: inside, 1: outside and may join, 3: overlaps but may not join. The   *)
(* last comparison is strict, unlike the others.                           *)
JudgeRing(r, p, eps) ==
    IF Stops(r, p, eps) # {}
    THEN IF p = r[Min(Stops(r, p, eps))] THEN 0 ELSE 3
    ELSE IF OneSided(r, p)
    THEN IF Len(r) = 2 THEN 1 ELSE 0
    ELSE IF \A k \in DOMAIN r : SquareDist(p, r[k]) < eps * eps THEN 1 ELSE 3

(* The walk ends before it comes back to the header.                       *)
insideConvexEarly(h, p, eps) ==
    IF Len(h) <= 1 THEN 1 ELSE JudgeRing(Tail(h), p, eps)

insideConvexAndInsideBound(h, p, eps) ==
    IF Len(h) = 0 THEN 1
    ELSE IF Len(h) = 1 THEN IF SquareDist(h[1], p) <= eps * eps THEN 1 ELSE 2
    ELSE JudgeRing(From(h, 2), p, eps)
-----------------------------------------------------------------------------
isTangentPoint(o, prevous, current, nextone) ==
    LET one == crossproduct(o, prevous, current)
        two == crossproduct(o, nextone, current)
    IN  \/ one > 0 /\ two > 0
        \/ one < 0 /\ two < 0
        \/ one = 0 /\ two # 0
        \/ one # 0 /\ two = 0

Minus(p, q) == <<p[1] - q[1], p[2] - q[2]>>
Sign(x) == IF x > 0 THEN 1 ELSE IF x < 0 THEN -1 ELSE 0

(* a < r * sqrt(n), and whether they are equal, for n >= 0.                *)
BelowRoot(a, r, n) == IF r >= 0 THEN a < 0 \/ a * a < r * r * n
                                ELSE a < 0 /\ a * a > r * r * n
AtRoot(a, r, n) == a * a = r * r * n /\ (a < 0 <=> r < 0)

(* isConvexPoint compares the angles ocn + pco > pcn at current. getDegree *)
(* takes both components of its second arm from values[0], so that the     *)
(* angle is the one with the diagonal (1, 1), pointing to the side of the  *)
(* arm in the first column, or 180 if an arm is zero in it. With the arms  *)
(* of o and nextone on one side pco is pcn, on two sides 180 - pcn. The    *)
(* result is the set of outcomes: where an angle is exactly 0 or 180 (acos *)
(* may be handed a value past 1) or the two sides are equal, the rounding  *)
(* of doubles decides.                                                     *)
isConvexPoint(o, prevous, current, nextone) ==
    LET v == Minus(o, current)
        u == Minus(prevous, current)
        s == Sign(nextone[1] - current[1])
        uu == u[1] * u[1] + u[2] * u[2]
        vv == v[1] * v[1] + v[2] * v[2]
        a == s * (v[1] + v[2]) * uu
        r == -2 * u[1] * u[2]
    IN  IF s = 0
        THEN IF u # <<0, 0>> /\ v[1] # 0 /\ u[1] = u[2] THEN BOOLEAN ELSE {TRUE}
        ELSE IF v[1] = v[2] THEN BOOLEAN
        ELSE IF u = <<0, 0>> THEN {TRUE}
        ELSE IF u[1] = u[2] THEN BOOLEAN
        ELSE IF Sign(v[1]) # -s THEN {TRUE}
        ELSE IF s * (u[1] + u[2]) >= 0 THEN {TRUE}
        ELSE IF AtRoot(a, r, 2 * vv) THEN BOOLEAN
        ELSE {BelowRoot(a, r, 2 * vv)}

(* delete_from_to_connect: the vertices after place b and before place e   *)
(* give way to p; if the header is among them b is the new header.         *)
Between(h, b, e) == IF b < e THEN b + 1 .. e - 1 ELSE (b + 1 .. Len(h)) \cup (1 .. e - 1)

delete_from_to_connect(h, b, e, p) ==
    LET ring == From(h, b)
        gone == Cardinality(Between(h, b, e))
        new  == <<h[b], p>> \o SubSeq(ring, gone + 2, Len(ring))
    IN  IF b = 1 \/ 1 \in Between(h, b, e) THEN new
        ELSE From(new, Len(new) - b + 2)

(* Places of h in the order of the walk, with the header last.             *)
Walk(h) == [i \in DOMAIN h |-> NextPlace(h, i)]

Tangents(h, p) ==
    {i \in DOMAIN h : LET k == Walk(h)[i]
                      IN  isTangentPoint(p, h[PrevPlace(h, k)], h[k], h[NextPlace(h, k)])}

(* The outcomes of isConvexPoint between the first and the second tangent. *)
ShouldChange(h, p, T) ==
    LET i == Min(T)
        j == Min(T \ {i})
        out == {isConvexPoint(p, h[PrevPlace(h, Walk(h)[m])], h[Walk(h)[m]],
                              h[NextPlace(h, Walk(h)[m])]) : m \in i + 1 .. j - 1}
    IN  IF {TRUE} \in out THEN {TRUE} ELSE IF BOOLEAN \in out THEN BOOLEAN ELSE {FALSE}

(* unionConvex: the hulls that may result from adding p. Up to three       *)
(* vertices are linked as they come. After that p is linked between the    *)
(* first tangent of the walk and the last one; without two tangents the    *)
(* hull is left as it is.                                                  *)
unionConvex(h, p) ==
    IF Len(h) <= 2 THEN {Append(h, p)}
    ELSE LET T == Tangents(h, p)
         IN  IF Cardinality(T) < 2 THEN {h}
             ELSE {IF change THEN delete_from_to_connect(h, Walk(h)[Max(T)], Walk(h)[Min(T)], p)
                             ELSE delete_from_to_connect(h, Walk(h)[Min(T)], Walk(h)[Max(T)], p)
                     : change \in ShouldChange(h, p, T)}
=============================================================================
