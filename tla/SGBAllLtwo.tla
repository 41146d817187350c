----------------------------- MODULE SGBAllLtwo -----------------------------
(***************************************************************************)
(* SGB-All with METRIC LTWO, or without METRIC, on two columns:            *)
(* agg_fill_hash_table_overlap_random_l2 and ..._eliminated_l2. To the box *)
(* of SGBAll a group adds the convex hull of its tuples, and takes a tuple *)
(* of its box only if insideConvexAndInsideBound lets it.                  *)
(***************************************************************************)
EXTENDS SGBAll, ConvexHullM

ASSUME SGBAllLtwoAssumption == numCols = 2 /\ Overlaps \subseteq {1, 3}

VARIABLE hull           \* convexhull of a group

varsL2 == <<vars, hull>>

InitL2 == Init /\ hull = [g \in Position |-> <<>>]
-----------------------------------------------------------------------------
Judge(g, t) == insideConvexAndInsideBound(hull[g], t, EPS)

(* The groups of containArray, H, that let t join.                         *)
Joinable(H, t) == {g \in H : InBound(g, t) /\ Judge(g, t) <= 1}

(* A tuple judged inside leaves the hull alone.                            *)
AddToHull(g, t) ==
    IF Judge(g, t) = 1
    THEN \E h \in unionConvex(hull[g], t) : hull' = [hull EXCEPT ![g] = h]
    ELSE UNCHANGED hull

(* ON_OVERLAP ANY: the first group of containArray that lets t join.       *)
JoinAnyL2(t, H) ==
    /\ overlap = 1
    /\ Read(t)
    /\ \E g \in Joinable(H, t) : UpdateBounds({g}, t) /\ AddMember(g) /\ AddToHull(g, t)
    /\ UNCHANGED <<indexhasharray, hashkey>>

(* ON_OVERLAP ELIMINATE: the only joinable group takes t.                  *)
JoinOnlyL2(t, H) ==
    /\ overlap = 3
    /\ Read(t)
    /\ \E g \in H : /\ Joinable(H, t) = {g}
                    /\ UpdateBounds({g}, t) /\ AddMember(g) /\ AddToHull(g, t)
    /\ UNCHANGED <<indexhasharray, hashkey>>

(* With two or more, the bounds of the first three are updated before it   *)
(* is known that t is dropped.                                             *)
FirstThree(C, J) == C \subseteq J /\ Cardinality(C) = Least(3, Cardinality(J))

(* The hull takes t as soon as the first group lets it join.               *)
EliminateL2Early(t, H) ==
    /\ overlap = 3
    /\ Read(t)
    /\ Cardinality(Joinable(H, t)) >= 2
    /\ \E C \in SUBSET Joinable(H, t) : FirstThree(C, Joinable(H, t)) /\ UpdateBounds(C, t)
    /\ \E g \in Joinable(H, t) : AddToHull(g, t)
    /\ UNCHANGED <<indexhasharray, hashkey, members>>

EliminateL2(t, H) ==
    /\ overlap = 3
    /\ Read(t)
    /\ Cardinality(Joinable(H, t)) >= 2
    /\ \E C \in SUBSET Joinable(H, t) : FirstThree(C, Joinable(H, t)) /\ UpdateBounds(C, t)
    /\ UNCHANGED <<indexhasharray, hashkey, members, hull>>

(* No joinable group: a new one. Its hash key is t with ANY. ELIMINATE     *)
(* files it under random numbers, and hashkey is not looked at.            *)
NewGroupL2(t, H) ==
    LET g == indexhasharray + 1
    IN  /\ Read(t)
        /\ Joinable(H, t) = {}
        /\ overlap = 1 => ~KeyInUse(t)
        /\ indexhasharray' = g
        /\ hashkey' = [hashkey EXCEPT ![g] = t]
        /\ pivot1' = [pivot1 EXCEPT ![g] = LowAround(t)]
        /\ pivot2' = [pivot2 EXCEPT ![g] = HighAround(t)]
        /\ rtree' = [rtree EXCEPT ![g] = getMBRHashEntry(LowAround(t), HighAround(t))]
        /\ members' = [members EXCEPT ![g] = {numread + 1}]
        /\ hull' = [hull EXCEPT ![g] = <<t>>]

(* The key is in use (with ELIMINATE, the random numbers may be those of   *)
(* any group): the handler returns without the tuple.                      *)
KeyTakenL2(t, H) ==
    /\ Read(t)
    /\ Joinable(H, t) = {}
    /\ IF overlap = 1 THEN KeyInUse(t) ELSE Group # {}
    /\ UNCHANGED <<groupVars, hull>>

FillStepL2(t, H) ==
    \/ JoinAnyL2(t, H)
    \/ JoinOnlyL2(t, H)
    \/ EliminateL2(t, H)
    \/ NewGroupL2(t, H)
    \/ KeyTakenL2(t, H)

(* What follows the input is the same for all metrics; see SGBAll.         *)
NextL2 ==
    \/ \E t \in Tuple : \E H \in ContainArray(t) : FillStepL2(t, H)
    \/ EndOfInput /\ UNCHANGED hull

SpecL2 == InitL2 /\ [][NextL2]_varsL2
-----------------------------------------------------------------------------
(* Every vertex of a group's hull is a tuple that was aggregated into that *)
(* group: a tuple that ELIMINATE tries against several groups and drops    *)
(* leaves no vertex behind.                                                *)
HullOfMembers ==
    \A g \in Group : \A k \in DOMAIN hull[g] : \E p \in members[g] : input[p] = hull[g][k]

(* Any two vertices of a hull are within EPS of each other in the LTWO     *)
(* metric, whatever unionConvex links and unlinks: a vertex is entered     *)
(* only after insideConvexAndInsideBound has compared it with all others.  *)
HullIsClique ==
    \A g \in Group : \A j, k \in DOMAIN hull[g] :
        SquareDist(hull[g][j], hull[g][k]) <= EPS * EPS

(* With ANY a tuple is lost to the early return for a hash entry in use    *)
(* only if the tuple equal to it that founded the entry's group is not a   *)
(* vertex of the group's hull any more (unionConvex unlinks vertices that  *)
(* are not inside the new hull), or if the random search found four groups *)
(* or more and stopped short of that one.                                  *)
LostOnlyOffHull ==
    [][(overlap = 1 /\ numread' # numread /\ members' = members) =>
          \E g \in Group :
              /\ hashkey[g] = input'[numread']
              /\ \/ \A k \in DOMAIN hull[g] : hull[g][k] # hashkey[g]
                 \/ Cardinality(Containing(hashkey[g])) > 4]_varsL2

(* A tuple joins a hull only if its "longest distance" to the group is not *)
(* "bigger than the eps": any two members are within EPS in the LTWO       *)
(* metric.                                                                 *)
MembersWithinLTWO ==
    \A g \in Group : \A p, q \in members[g] : SquareDist(input[p], input[q]) <= EPS * EPS
=============================================================================
