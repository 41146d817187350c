---------------------------- MODULE SGBNewGroup ----------------------------
(***************************************************************************)
(* The SGB-All operator with ON_OVERLAP NEW_GROUP and METRIC LONE on two   *)
(* columns: agg_fill_hash_table_overlap_newgroup_l1 and the aggregation    *)
(* pass at the end of the input, sgb_newgroup_helper.                      *)
(*                                                                         *)
(* For every tuple the handler                                             *)
(*   1. narrows the boxes of all groups that contain it, and takes them    *)
(*      out of the R-tree;                                                 *)
(*   2. searches the groups left for boxes that overlap the tuple's own    *)
(*      box, and cuts the members within EPS of the tuple out of them;     *)
(*   3. adds the tuple to its group, founds a group with it or leaves it   *)
(*      to the overlap store;                                              *)
(*   4. enters the narrowed boxes in the R-tree again.                     *)
(* The member list of a group is the sequence of the input positions of    *)
(* its tuples. Hash keys are random numbers: whether a new one collides    *)
(* with an old one is left open.                                           *)
(***************************************************************************)
EXTENDS GroupBound, SequencesExt

CONSTANTS Tuple,        \* grouping columns an input tuple may have
          MaxTuples     \* bound: length of the input

ASSUME SGBNewGroupAssumption ==
    /\ numCols = 2
    /\ EPS \in Nat \ {0}
    /\ Tuple \subseteq [Cols -> Int]
    /\ MaxTuples \in Nat \ {0}

VARIABLES
    pc,                 \* fill: reading the input; retrieve; done
    indexhasharray,     \* number of groups created
    flagEnabled,        \* 1 in use, 2 aggregated, 3 emptied, 0 free or removed
    pivot1, pivot2,     \* bounds of a group, low and high
    tuples,             \* member list of a group
    rtree,              \* rectangle entered in the R-tree for a group
    overlapstore,       \* tuples in overlaptuplestorestate1
    aggregated,         \* tuples the aggregates of a group were advanced with
    scanned,            \* entries the hash iterator has passed
    returned,           \* groups returned
    numbertuples,       \* tuples read
    collided,           \* history: tuples dropped because their random key was in use
    input               \* history: the tuple at each position

groupVars == <<indexhasharray, flagEnabled, pivot1, pivot2, tuples, rtree, overlapstore>>
outVars == <<aggregated, scanned, returned>>
vars == <<pc, groupVars, outVars, numbertuples, collided, input>>

Position == 1 .. MaxTuples
Group    == 1 .. indexhasharray
Zeroes   == [i \in Cols |-> 0]

Init ==
    /\ pc = "fill"
    /\ indexhasharray = 0
    /\ flagEnabled = [g \in Position |-> 0]
    /\ pivot1 = [g \in Position |-> Zeroes]
    /\ pivot2 = [g \in Position |-> Zeroes]
    /\ tuples = [g \in Position |-> <<>>]
    /\ rtree = [g \in Position |-> RectOf(Zeroes, Zeroes)]
    /\ overlapstore = {}
    /\ aggregated = [g \in Position |-> {}]
    /\ scanned = {}
    /\ returned = {}
    /\ numbertuples = 0
    /\ collided = {}
    /\ input = [p \in Position |-> Zeroes]
-----------------------------------------------------------------------------
(* Phase 1: the groups whose box holds t, in the R-tree and by             *)
(* judgeJoinGroup. Emptied groups keep their box and are among them.       *)
InBound(g, t) == \A i \in Cols : pivot1[g][i] <= t[i] /\ t[i] <= pivot2[g][i]

ContainArray(t) ==
    {g \in Group : /\ RTreeOverlap(getMBRinputSlot(t), rtree[g])
                   /\ RTreeContained(getMBRinputSlot(t), rtree[g])
                   /\ InBound(g, t)}

JoinedLow(g, t)  == [i \in Cols |-> NewLow(pivot1[g][i], pivot2[g][i], t[i])]
JoinedHigh(g, t) == [i \in Cols |-> NewHigh(pivot1[g][i], pivot2[g][i], t[i])]

(* Phase 2: what is left in the R-tree and overlaps the box of t.          *)
OverlapSet(t) ==
    {g \in Group \ ContainArray(t) :
        /\ RTreeOverlap(getMBRinputSlotBigger(t, EPS), rtree[g])
        /\ ~RTreeContained(getMBRinputSlotBigger(t, EPS), rtree[g])}

Manhattan(p, q) == Width(p[1], q[1]) + Width(p[2], q[2])

(* Twice as far.                                                           *)
InsideBound_tupleTwice(p, t) == Manhattan(input[p], t) <= 2 * EPS

(* InsideBound_tuple with METRIC LONE.                                     *)
InsideBound_tuple(p, t) == Manhattan(input[p], t) <= EPS

(* Places in the member list s whose tuple is near t.                      *)
Near(s, t) == {k \in DOMAIN s : InsideBound_tuple(s[k], t)}

(* Groups of the hits H that lose members to t; a group with one member    *)
(* is emptied instead.                                                     *)
Touched(H, t)  == {g \in H : flagEnabled[g] = 1 /\ Near(tuples[g], t) # {}}
Emptied(T)     == {g \in T : Len(tuples[g]) = 1}
Cut(T)         == {g \in T : Len(tuples[g]) > 1}

(* findIntersection_putIntoMemoList unlinks the near members as it walks   *)
(* the list. When it has unlinked the head it passes over the new one.     *)
WalkedFirst(N) == IF 1 \in N THEN N \ {2} ELSE N

(* findIntersection_putIntoMemoList_noreturn passes over the element after *)
(* every one it unlinks: of a run of near members it unlinks every other.  *)
WalkedNext(N) ==
    {k \in N : \E j \in 1 .. k : j .. k \subseteq N /\ j - 1 \notin N /\ (k - j) % 2 = 0}

(* Places unlinked from the list of g; f is the first group cut.           *)
Unlinked(g, f, t) == IF g = f THEN WalkedFirst(Near(tuples[g], t))
                              ELSE WalkedNext(Near(tuples[g], t))

(* The elements of the list s at the places in L.                          *)
Sublist(s, L) ==
    LET sub[k \in 0 .. Len(s)] ==
            IF k = 0 THEN <<>> ELSE IF k \in L THEN Append(sub[k - 1], s[k]) ELSE sub[k - 1]
    IN  sub[Len(s)]

(* The near members are kept and the others unlinked.                      *)
KeepNear(s, K) == Sublist(s, K)

Keep(s, K) == Sublist(s, DOMAIN s \ K)

(* updatePivotByTuple_tmpGroup on one column <<lo, hi>>; zeroes mean that  *)
(* the bound is not set yet.                                               *)
updatePivotByTuple(b, x) ==
    IF Width(b[1], b[2]) <= EPS /\ b[1] # 0 /\ b[2] # 0 THEN b
    ELSE IF b = <<0, 0>> THEN <<x - EPS, x + EPS>>
    ELSE <<Greatest(b[1], x - EPS), Least(b[2], x + EPS)>>

(* The bounds of the temporary group: the members unlinked from f, then t. *)
TmpColumn(f, t, i) ==
    LET s == tuples[f]
        b[k \in 0 .. Len(s)] ==
            IF k = 0 THEN <<0, 0>>
            ELSE IF k \in Unlinked(f, f, t) THEN updatePivotByTuple(b[k - 1], input[s[k]][i])
            ELSE b[k - 1]
    IN  updatePivotByTuple(b[Len(s)], t[i])
-----------------------------------------------------------------------------
(* One call of the handler: t the tuple, h the hits of phase 2 in the      *)
(* order of overlapArray, A the groups that contain t, T the groups of h   *)
(* that phase 2 touches, k the place in h of the first one that is cut.    *)
FirstAt(h, C) ==
    LET at == {k \in DOMAIN h : h[k] \in C} IN IF at = {} THEN 0 ELSE Min(at)

(* Groups emptied before the first cut are not counted.                    *)
tmpindex(h, T, k) == IF k = 0 THEN 0 ELSE Cardinality({j \in k .. Len(h) : h[j] \in T})

Read(t) ==
    /\ pc = "fill"
    /\ numbertuples < MaxTuples
    /\ numbertuples' = numbertuples + 1
    /\ input' = [input EXCEPT ![numbertuples + 1] = t]
    /\ UNCHANGED <<pc, outVars>>

(* The members unlinked from the first group; t itself if two groups       *)
(* contain it, or if the first hit is cut and the second one is in use.    *)
(* What is unlinked from a later group is not stored: the slot still holds *)
(* a tuple of the first one.                                               *)
StoreOverlap(t, h, A, k) ==
    overlapstore' = overlapstore
        \cup (IF k = 0 THEN {} ELSE {tuples[h[k]][j] : j \in Unlinked(h[k], h[k], t)})
        \cup (IF Cardinality(A) >= 2 \/ (k = 1 /\ Len(h) >= 2 /\ flagEnabled[h[2]] = 1)
              THEN {numbertuples + 1} ELSE {})

(* The flag of an emptied group is left alone.                             *)
FlagAfterKept(T) == flagEnabled

FlagAfter(T) == [g \in Position |-> IF g \in Emptied(T) THEN 3 ELSE flagEnabled[g]]

TuplesAfter(T, f, t) ==
    [g \in Position |-> IF g \in Emptied(T) THEN <<>>
                        ELSE IF g \in Cut(T) THEN Keep(tuples[g], Unlinked(g, f, t))
                        ELSE tuples[g]]

FirstCut(h, k) == IF k = 0 THEN 0 ELSE h[k]

(* Phase 4 is left out.                                                    *)
UpdateBoundsStale(A, t) ==
    /\ pivot1' = [g \in Position |-> IF g \in A THEN JoinedLow(g, t) ELSE pivot1[g]]
    /\ pivot2' = [g \in Position |-> IF g \in A THEN JoinedHigh(g, t) ELSE pivot2[g]]
    /\ UNCHANGED rtree

UpdateBounds(A, t) ==
    /\ pivot1' = [g \in Position |-> IF g \in A THEN JoinedLow(g, t) ELSE pivot1[g]]
    /\ pivot2' = [g \in Position |-> IF g \in A THEN JoinedHigh(g, t) ELSE pivot2[g]]
    /\ rtree' = [g \in Position |-> IF g \in A THEN getMBRHashEntry(JoinedLow(g, t), JoinedHigh(g, t))
                                              ELSE rtree[g]]

(* A group with t alone and the bounds lo and hi.                          *)
Found(t, T, f, lo, hi) ==
    LET g == indexhasharray + 1
    IN  /\ indexhasharray' = g
        /\ flagEnabled' = [FlagAfter(T) EXCEPT ![g] = 1]
        /\ tuples' = [TuplesAfter(T, f, t) EXCEPT ![g] = <<numbertuples + 1>>]
        /\ pivot1' = [pivot1 EXCEPT ![g] = lo]
        /\ pivot2' = [pivot2 EXCEPT ![g] = hi]
        /\ rtree' = [rtree EXCEPT ![g] = getMBRHashEntry(lo, hi)]
        /\ UNCHANGED collided

(* t is neither in a group nor near a member of one.                       *)
NewGroup(t, h, A, T, k) ==
    /\ A = {} /\ tmpindex(h, T, k) = 0
    /\ Read(t)
    /\ Found(t, T, FirstCut(h, k), LowAround(t), HighAround(t))
    /\ StoreOverlap(t, h, A, k)

(* t is near members of one group and in none: a group with t alone, in    *)
(* the bounds that the members unlinked leave.                             *)
NewTmpGroup(t, h, A, T, k) ==
    /\ A = {} /\ tmpindex(h, T, k) = 1
    /\ Read(t)
    /\ Found(t, T, FirstCut(h, k), [i \in Cols |-> TmpColumn(h[k], t, i)[1]],
                                   [i \in Cols |-> TmpColumn(h[k], t, i)[2]])
    /\ StoreOverlap(t, h, A, k)

(* The random key of the new group is in use: the handler returns.         *)
KeyTaken(t, h, A, T, k) ==
    /\ A = {} /\ tmpindex(h, T, k) \in {0, 1}
    /\ Group # {}
    /\ Read(t)
    /\ flagEnabled' = FlagAfter(T)
    /\ tuples' = TuplesAfter(T, FirstCut(h, k), t)
    /\ collided' = collided \cup {numbertuples + 1}
    /\ StoreOverlap(t, h, A, k)
    /\ UNCHANGED <<indexhasharray, pivot1, pivot2, rtree>>

(* Every group that contains t takes it.                                   *)
JoinGroupEvery(t, h, A, T, k) ==
    /\ A # {} /\ tmpindex(h, T, k) = 0
    /\ Read(t)
    /\ UpdateBounds(A, t)
    /\ flagEnabled' = FlagAfter(T)
    /\ tuples' = [g \in Position |-> IF g \in A /\ flagEnabled[g] = 1
                                     THEN Append(tuples[g], numbertuples + 1) ELSE tuples[g]]
    /\ StoreOverlap(t, h, A, k)
    /\ UNCHANGED <<indexhasharray, collided>>

(* t is in one group and near no other; an emptied group does not take it. *)
JoinGroup(t, h, A, T, k) ==
    /\ Cardinality(A) = 1 /\ tmpindex(h, T, k) = 0
    /\ Read(t)
    /\ UpdateBounds(A, t)
    /\ flagEnabled' = FlagAfter(T)
    /\ LET rest == TuplesAfter(T, FirstCut(h, k), t)
       IN  tuples' = [g \in Position |-> IF g \in A /\ flagEnabled[g] = 1
                                         THEN Append(rest[g], numbertuples + 1) ELSE rest[g]]
    /\ StoreOverlap(t, h, A, k)
    /\ UNCHANGED <<indexhasharray, collided>>

(* t overlaps several groups and joins none.                               *)
Withhold(t, h, A, T, k) ==
    /\ Cardinality(A) + tmpindex(h, T, k) >= 2
    /\ Read(t)
    /\ UpdateBounds(A, t)
    /\ flagEnabled' = FlagAfter(T)
    /\ tuples' = TuplesAfter(T, FirstCut(h, k), t)
    /\ StoreOverlap(t, h, A, k)
    /\ UNCHANGED <<indexhasharray, collided>>

Handle(t, h, A, T, k) ==
    \/ NewGroup(t, h, A, T, k)
    \/ NewTmpGroup(t, h, A, T, k)
    \/ KeyTaken(t, h, A, T, k)
    \/ JoinGroup(t, h, A, T, k)
    \/ Withhold(t, h, A, T, k)

FillStep(t, h, A, T) == Handle(t, h, A, T, FirstAt(h, Cut(T)))
-----------------------------------------------------------------------------
(* Emptied groups are kept.                                                *)
EndOfInputLongAll ==
    /\ pc = "fill" /\ numbertuples > 2
    /\ aggregated' = [g \in Position |-> ToSet(tuples[g])]
    /\ tuples' = [g \in Position |-> <<>>]
    /\ flagEnabled' = [g \in Position |-> IF flagEnabled[g] # 0 THEN 2 ELSE 0]
    /\ pc' = "retrieve"
    /\ scanned' = {}
    /\ UNCHANGED <<indexhasharray, pivot1, pivot2, rtree, overlapstore,
                   returned, numbertuples, collided, input>>

(* sgb_newgroup_helper runs for more than two tuples. It advances the      *)
(* aggregates of the groups in use with their members, frees their lists   *)
(* and disables the emptied ones; then it reads the overlap store and does *)
(* nothing with it, the calls that would group its tuples being commented  *)
(* out.                                                                    *)
EndOfInputLong ==
    /\ pc = "fill" /\ numbertuples > 2
    /\ aggregated' = [g \in Position |-> IF flagEnabled[g] = 1 THEN ToSet(tuples[g]) ELSE {}]
    /\ tuples' = [g \in Position |-> <<>>]
    /\ flagEnabled' = [g \in Position |-> IF flagEnabled[g] = 1 THEN 2 ELSE 0]
    /\ pc' = "retrieve"
    /\ scanned' = {}
    /\ UNCHANGED <<indexhasharray, pivot1, pivot2, rtree, overlapstore,
                   returned, numbertuples, collided, input>>

EndOfInputShort ==
    /\ pc = "fill" /\ numbertuples <= 2
    /\ pc' = "retrieve"
    /\ scanned' = {}
    /\ UNCHANGED <<groupVars, aggregated, returned, numbertuples, collided, input>>

RetrieveEntry ==
    /\ pc = "retrieve"
    /\ \E g \in Group \ scanned :
          /\ scanned' = scanned \cup {g}
          /\ returned' = IF flagEnabled[g] = 0 THEN returned ELSE returned \cup {g}
    /\ UNCHANGED <<pc, groupVars, aggregated, numbertuples, collided, input>>

RetrieveEnd ==
    /\ pc = "retrieve"
    /\ scanned = Group
    /\ pc' = "done"
    /\ UNCHANGED <<groupVars, outVars, numbertuples, collided, input>>

(* ExecReScanAgg without new parameters walks the filled table again.      *)
ReScanSame ==
    /\ pc \in {"retrieve", "done"}
    /\ pc' = "retrieve"
    /\ scanned' = {} /\ returned' = {}
    /\ UNCHANGED <<groupVars, aggregated, numbertuples, collided, input>>

Next ==
    \/ \E t \in Tuple : \E h \in SetToSeqs(OverlapSet(t)) :
           FillStep(t, h, ContainArray(t), Touched(OverlapSet(t), t))
    \/ EndOfInputLong \/ EndOfInputShort
    \/ RetrieveEntry \/ RetrieveEnd \/ ReScanSame

Spec == Init /\ [][Next]_vars
-----------------------------------------------------------------------------
(* Tuples in the list or, once that is freed, in the aggregates of g.      *)
Members(g) == ToSet(tuples[g]) \cup aggregated[g]

WithinEPS(p, q) == \A i \in Cols : Width(input[p][i], input[q][i]) <= EPS

(* Any two members of a group are within EPS of each other in every        *)
(* column, although the box a group gets from cut members is computed by   *)
(* other code than the boxes that tuples narrow, and cut members do not    *)
(* widen a box again.                                                      *)
GroupsAreCliques ==
    \A g \in Group : \A p, q \in Members(g) : WithinEPS(p, q)

(* A group holds only tuples of its box and the R-tree has the box, in all *)
(* groups, the emptied ones included: phase 1 takes boxes out of the tree  *)
(* and phase 4 has to enter every one of them again.                       *)
RTreeMirrorsBoxes ==
    \A g \in Group : /\ rtree[g] = getMBRHashEntry(pivot1[g], pivot2[g])
                     /\ \A p \in Members(g) : InBound(g, input[p])

(* A group in use has members and only such a group has a list: cutting    *)
(* never leaves an empty list behind, and no freed list is walked.         *)
InUseIffMembers ==
    \A g \in Group : flagEnabled[g] = 1 <=> tuples[g] # <<>>

(* A tuple is counted in at most one group, and once.                      *)
CountedOnce ==
    \A g \in Group : /\ \A h \in Group \ {g} : Members(g) \cap Members(h) = {}
                     /\ Cardinality(ToSet(tuples[g])) = Len(tuples[g])

(* A tuple with no other within EPS has a group of its own for good,       *)
(* whatever arrives, unless its random key collided.                       *)
Isolated(p) == \A q \in 1 .. numbertuples \ {p} : ~WithinEPS(p, q)

IsolatedTuplesGrouped ==
    \A p \in 1 .. numbertuples \ collided :
        Isolated(p) => \E g \in Group : Members(g) = {p}

(* A group returned has members in its aggregates exactly if the input had *)
(* more than two tuples: cuts never let an emptied group into the result,  *)
(* and a shorter input is not aggregated at all.                           *)
AggregatedIffLong ==
    \A g \in returned : aggregated[g] # {} <=> numbertuples > 2

(* A tuple leaves its group only when the tuple being read is within EPS   *)
(* of it by the metric, and nothing enters a group but the tuple read.     *)
OnlyNearTuplesCut ==
    [][pc' = "fill" =>
          \A g \in Group :
              /\ ToSet(tuples'[g]) \subseteq ToSet(tuples[g]) \cup {numbertuples'}
              /\ \A p \in ToSet(tuples[g]) \ ToSet(tuples'[g]) :
                     Manhattan(input[p], input'[numbertuples']) <= EPS]_vars
=============================================================================
