------------------------------- MODULE SGBAll -------------------------------
(***************************************************************************)
(* The SGB-All operator with box bounds: GROUP BY ... DISTANCEALL WITHIN   *)
(* EPS ON_OVERLAP ... METRIC LONE (and every query on one column). All     *)
(* members of a group are within EPS of each other.                        *)
(*                                                                         *)
(* agg_fill_hash_table_SGBTOAll hands every input tuple to the handler of  *)
(* the overlap clause. A group keeps the box [pivot1, pivot2] of the       *)
(* tuples that may still join it; the boxes are entered in an R-tree,      *)
(* which is searched with the tuple. A group is created under the hash key *)
(* of its first tuple, and its id is its position in hasharray.            *)
(*                                                                         *)
(* The R-tree is the function from group ids to the rectangles entered for *)
(* them. The order in which a search reports its hits is left open.        *)
(* ON_OVERLAP NEW_GROUP is not part of this module.                        *)
(***************************************************************************)
EXTENDS GroupBound, FiniteSets, FiniteSetsExt

CONSTANTS Overlaps,     \* overlap clauses of the queries considered
          Tuple,        \* grouping columns an input tuple may have
          MAXCARD,      \* entries of an R-tree leaf
          MaxTuples     \* bound: length of the input

ASSUME SGBAllAssumption ==
    /\ EPS \in Nat \ {0}
    /\ Overlaps \subseteq {-1, 1, 3, 4}
    /\ Tuple \subseteq [Cols -> Int]
    /\ MAXCARD \in Nat \ {0}
    /\ MaxTuples \in Nat \ {0}

VARIABLES
    overlap,            \* clause of the query: 1 ANY, 3 ELIMINATE, 4 DUPLICATE, -1 none
    pc,                 \* fill: reading the input; retrieve; done
    indexhasharray,     \* number of groups created
    hashkey,            \* the tuple a group's hash entry is filed under
    pivot1, pivot2,     \* bounds of a group, low and high
    members,            \* input positions in the tuple store and aggregates
    rtree,              \* rectangle entered in the R-tree for a group
    scanned,            \* entries returned by the hash iterator
    numread,            \* history: tuples read
    input               \* history: the tuple at each position

groupVars == <<indexhasharray, hashkey, pivot1, pivot2, members, rtree>>
vars == <<overlap, pc, groupVars, scanned, numread, input>>

Position == 1 .. MaxTuples
Group    == 1 .. indexhasharray

Zeroes == [i \in Cols |-> 0]

Init ==
    /\ overlap \in Overlaps
    /\ pc = "fill"
    /\ indexhasharray = 0
    /\ hashkey = [g \in Position |-> Zeroes]
    /\ pivot1 = [g \in Position |-> Zeroes]
    /\ pivot2 = [g \in Position |-> Zeroes]
    /\ members = [g \in Position |-> {}]
    /\ rtree = [g \in Position |-> RectOf(Zeroes, Zeroes)]
    /\ scanned = {}
    /\ numread = 0
    /\ input = [p \in Position |-> Zeroes]
-----------------------------------------------------------------------------
(* The groups whose rectangle in the R-tree contains the tuple.            *)
Containing(t) ==
    LET mbr == getMBRinputSlot(t)
    IN  {g \in Group : RTreeOverlap(mbr, rtree[g]) /\ RTreeContained(mbr, rtree[g])}

(* What RTreeSearch may leave in containArray: all of them, or with the    *)
(* random search of ANY any more than three once the tree has several      *)
(* leaves.                                                                 *)
ContainArray(t) ==
    {H \in SUBSET Containing(t) :
        \/ H = Containing(t)
        \/ overlap = 1 /\ indexhasharray > MAXCARD /\ Cardinality(H) > 3}

(* judgeJoinGroup: may t join, and the bounds if it does.                  *)
InBound(g, t) == \A i \in Cols : pivot1[g][i] <= t[i] /\ t[i] <= pivot2[g][i]

JoinedLow(g, t)  == [i \in Cols |-> NewLow(pivot1[g][i], pivot2[g][i], t[i])]
JoinedHigh(g, t) == [i \in Cols |-> NewHigh(pivot1[g][i], pivot2[g][i], t[i])]

(* The groups of containArray, H, that let t join.                         *)
Accepting(t, H) == {g \in H : InBound(g, t)}

(* The R-tree is not told.                                                 *)
UpdateBoundsStale(C, t) ==
    /\ pivot1' = [g \in Position |-> IF g \in C THEN JoinedLow(g, t) ELSE pivot1[g]]
    /\ pivot2' = [g \in Position |-> IF g \in C THEN JoinedHigh(g, t) ELSE pivot2[g]]
    /\ UNCHANGED rtree

(* The groups of C take the bounds judgeJoinGroup computed; each one's     *)
(* rectangle is deleted from the R-tree and the new one inserted.          *)
UpdateBounds(C, t) ==
    /\ pivot1' = [g \in Position |-> IF g \in C THEN JoinedLow(g, t) ELSE pivot1[g]]
    /\ pivot2' = [g \in Position |-> IF g \in C THEN JoinedHigh(g, t) ELSE pivot2[g]]
    /\ rtree' = [g \in Position |->
                    IF g \in C
                    THEN getMBRHashEntry(JoinedLow(g, t), JoinedHigh(g, t))
                    ELSE rtree[g]]

(* tuplestore_puttupleslot and advance_aggregates with the current tuple.  *)
AddMember(g) == members' = [members EXCEPT ![g] = @ \cup {numread + 1}]

Read(t) ==
    /\ pc = "fill"
    /\ numread < MaxTuples
    /\ numread' = numread + 1
    /\ input' = [input EXCEPT ![numread + 1] = t]
    /\ UNCHANGED <<overlap, pc, scanned>>

(* The loop goes on after the first group.                                 *)
JoinEvery(t, H) ==
    /\ overlap = 1
    /\ Read(t)
    /\ Accepting(t, H) # {}
    /\ UpdateBounds(Accepting(t, H), t)
    /\ members' = [g \in Position |-> IF g \in Accepting(t, H)
                                     THEN members[g] \cup {numread + 1} ELSE members[g]]
    /\ UNCHANGED <<indexhasharray, hashkey>>

(* ON_OVERLAP ANY: the first accepting group of containArray takes it.     *)
JoinAny(t, H) ==
    /\ overlap = 1
    /\ Read(t)
    /\ \E g \in Accepting(t, H) : UpdateBounds({g}, t) /\ AddMember(g)
    /\ UNCHANGED <<indexhasharray, hashkey>>

(* ON_OVERLAP ELIMINATE: the loop takes up to three accepting groups and   *)
(* updates the bounds of each before it knows whether the tuple stays.     *)
Considered(C, t, H) ==
    /\ C \subseteq Accepting(t, H)
    /\ Cardinality(C) = IF Cardinality(Accepting(t, H)) <= 3
                        THEN Cardinality(Accepting(t, H)) ELSE 3

JoinOnly(t, H) ==
    /\ overlap = 3
    /\ Read(t)
    /\ \E g \in Position : Accepting(t, H) = {g} /\ UpdateBounds({g}, t) /\ AddMember(g)
    /\ UNCHANGED <<indexhasharray, hashkey>>

(* The tuple is dropped at the first group that accepts it.                *)
EliminateFirst(t, H) ==
    /\ overlap = 3
    /\ Read(t)
    /\ Cardinality(Accepting(t, H)) >= 1
    /\ \E C \in SUBSET Group : Considered(C, t, H) /\ UpdateBounds(C, t)
    /\ UNCHANGED <<indexhasharray, hashkey, members>>

Eliminate(t, H) ==
    /\ overlap = 3
    /\ Read(t)
    /\ Cardinality(Accepting(t, H)) >= 2
    /\ \E C \in SUBSET Group : Considered(C, t, H) /\ UpdateBounds(C, t)
    /\ UNCHANGED <<indexhasharray, hashkey, members>>

(* The hash entry is looked up by the first column only.                   *)
KeyInUseFirst(t) == \E g \in Group : hashkey[g][1] = t[1]

(* No group accepts t: a new one, unless the hash entry of t is in use.    *)
KeyInUse(t) == \E g \in Group : hashkey[g] = t

(* lookup_hash_entry increments indexhasharray as well.                    *)
NewGroupTwice(t, H) ==
    /\ overlap \in {1, 3}
    /\ Read(t)
    /\ Accepting(t, H) = {}
    /\ ~KeyInUse(t)
    /\ indexhasharray' = indexhasharray + 2
    /\ hashkey' = [hashkey EXCEPT ![indexhasharray + 1] = t]
    /\ members' = [members EXCEPT ![indexhasharray + 1] = {numread + 1}]
    /\ UNCHANGED <<pivot1, pivot2, rtree>>

NewGroup(t, H) ==
    LET g == indexhasharray + 1
        lo == LowAround(t)
        hi == HighAround(t)
    IN  /\ overlap \in {1, 3}
        /\ Read(t)
        /\ Accepting(t, H) = {}
        /\ ~KeyInUse(t)
        /\ indexhasharray' = g
        /\ hashkey' = [hashkey EXCEPT ![g] = t]
        /\ pivot1' = [pivot1 EXCEPT ![g] = lo]
        /\ pivot2' = [pivot2 EXCEPT ![g] = hi]
        /\ rtree' = [rtree EXCEPT ![g] = getMBRHashEntry(lo, hi)]
        /\ members' = [members EXCEPT ![g] = {numread + 1}]

(* ... and if it is in use the handler returns without the tuple.          *)
KeyTaken(t, H) ==
    /\ overlap \in {1, 3}
    /\ Read(t)
    /\ Accepting(t, H) = {}
    /\ KeyInUse(t)
    /\ UNCHANGED groupVars

(* No handler for the overlap clause: the loop reads the next tuple.       *)
NoHandler(t) ==
    /\ overlap \notin {1, 3}
    /\ Read(t)
    /\ UNCHANGED groupVars
-----------------------------------------------------------------------------
EndOfInput ==
    /\ pc = "fill"
    /\ pc' = "retrieve"
    /\ scanned' = {}
    /\ UNCHANGED <<overlap, groupVars, numread, input>>

RetrieveEntry ==
    /\ pc = "retrieve"
    /\ \E g \in Group \ scanned : scanned' = scanned \cup {g}
    /\ UNCHANGED <<overlap, pc, groupVars, numread, input>>

RetrieveEnd ==
    /\ pc = "retrieve"
    /\ scanned = Group
    /\ pc' = "done"
    /\ UNCHANGED <<overlap, groupVars, scanned, numread, input>>

(* ExecReScanAgg without new parameters walks the filled table again.      *)
ReScanSame ==
    /\ pc \in {"retrieve", "done"}
    /\ pc' = "retrieve"
    /\ scanned' = {}
    /\ UNCHANGED <<overlap, groupVars, numread, input>>

FillStep(t, H) == JoinAny(t, H) \/ JoinOnly(t, H) \/ Eliminate(t, H)
                     \/ NewGroup(t, H) \/ KeyTaken(t, H)

OutputStep == EndOfInput \/ RetrieveEntry \/ RetrieveEnd

Next ==
    \/ \E t \in Tuple : NoHandler(t) \/ \E H \in ContainArray(t) : FillStep(t, H)
    \/ OutputStep
    \/ ReScanSame

Spec == Init /\ [][Next]_vars
-----------------------------------------------------------------------------
(* Every group is a position of hasharray below the number of tuples read, *)
(* and holds only tuples that were read.                                   *)
TypeOK ==
    /\ overlap \in Overlaps
    /\ pc \in {"fill", "retrieve", "done"}
    /\ indexhasharray \in 0 .. numread
    /\ hashkey \in [Position -> [Cols -> Int]]
    /\ pivot1 \in [Position -> [Cols -> Int]]
    /\ pivot2 \in [Position -> [Cols -> Int]]
    /\ members \in [Position -> SUBSET (1 .. numread)]
    /\ rtree \in [Position -> Rect]
    /\ scanned \subseteq Position
    /\ numread \in 0 .. MaxTuples
    /\ input \in [Position -> [Cols -> Int]]

WithinEPS(p, q) == \A i \in Cols : p[i] - q[i] <= EPS /\ q[i] - p[i] <= EPS

(* Any two members of a group are within EPS of each other in every        *)
(* grouping column, although a joining tuple is compared with the box of   *)
(* the group only and the box is frozen once it is EPS wide.               *)
GroupsAreCliques ==
    \A g \in Group : \A p, q \in members[g] : WithinEPS(input[p], input[q])

(* The box of g is the set of tuples within EPS of all its members.        *)
BoxExact(g) ==
    \A t \in Tuple : InBound(g, t) <=> \A p \in members[g] : WithinEPS(input[p], t)

(* With ANY a group's box is exactly the set of tuples within EPS of all   *)
(* members: neither the shrinking in judgeJoinGroup nor its shortcut for   *)
(* narrow boxes ever keeps out a tuple that could join.                    *)
BoxIsExact == overlap = 1 => \A g \in Group : BoxExact(g)

(* The R-tree holds the current box of every group: no handler leaves a    *)
(* stale rectangle behind.                                                 *)
RTreeMirrorsBoxes ==
    \A g \in Group : rtree[g] = getMBRHashEntry(pivot1[g], pivot2[g])

AllGrouped == \A p \in 1 .. numread : \E g \in Group : p \in members[g]

(* With ANY on two columns no tuple is lost: the handler's early return    *)
(* for a hash entry in use is never taken, because the box of a group      *)
(* never shrinks past its first tuple.                                     *)
EveryTupleGrouped == (overlap = 1 /\ numCols = 2) => AllGrouped

(* With ANY a tuple is lost only where the rectangle of a group hides it:  *)
(* a group that an equal tuple founded would let it join, but on one       *)
(* column its half-filled rectangle does not contain the tuple. That the   *)
(* random search stops after more than three groups never costs a tuple.   *)
LostOnlyHidden ==
    [][(overlap = 1 /\ numread' # numread /\ members' = members) =>
          \E g \in Group : /\ hashkey[g] = input'[numread']
                           /\ InBound(g, hashkey[g])
                           /\ g \notin Containing(hashkey[g])]_vars

(* No tuple read is in two groups, in any mode.                            *)
AtMostOneGroup ==
    \A g, h \in Group : g # h => members[g] \cap members[h] = {}

(* Boxes only shrink and groups only grow: a tuple refused by a group is   *)
(* refused for good, and a tuple aggregated is never withdrawn.            *)
BoundsOnlyShrink ==
    [][\A g \in Group :
          /\ \A i \in Cols : pivot1[g][i] <= pivot1'[g][i] /\ pivot2'[g][i] <= pivot2[g][i]
          /\ members[g] \subseteq members'[g]]_vars

(* A tuple is dropped by ELIMINATE only if it is within EPS of all members *)
(* of at least two groups, however far their boxes have shrunk.            *)
DroppedTupleOverlaps ==
    [][(overlap = 3 /\ numread' # numread /\ members' = members) =>
          \E g, h \in Group :
              /\ g # h
              /\ \A p \in members[g] \cup members[h] : WithinEPS(input[p], input'[numread'])
      ]_vars
=============================================================================
