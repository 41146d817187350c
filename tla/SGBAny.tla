------------------------------- MODULE SGBAny -------------------------------
(***************************************************************************)
(* The SGB-Any operator: GROUP BY ... DISTANCEANY WITHIN EPS. Two tuples   *)
(* are in one group when a chain of input tuples, each within EPS of the   *)
(* next, connects them.                                                    *)
(*                                                                         *)
(* agg_fill_hash_table_SGBTOANY reads the input. For every tuple           *)
(* agg_fill_hash_table_SGBANY searches the R-tree for the earlier tuples   *)
(* in range, inserts the tuple in the disjoint sets and fuses its set with *)
(* the set of every hit. IterateSets then aggregates each set by a walk of *)
(* its child lists (DFS_oneSet) into a hash table that is scanned for the  *)
(* output. ExecReScanAgg starts the node again.                            *)
(*                                                                         *)
(* The R-tree is the set of its entries: an element is entered once, with  *)
(* the rectangle of its tuple, and never removed. A tree of one leaf       *)
(* answers a search completely and in slot order; a taller one descends    *)
(* into one overlapping branch only, modelled as any part of the answer.   *)
(***************************************************************************)
EXTENDS DisjointSetM, RTreeRect, Sequences, FiniteSetsExt

CONSTANTS EPS,          \* distanceany of the query
          metric,       \* 1: LONE, 2: LTWO, -1: not given (LTWO)
          Tuple,        \* grouping columns an input tuple may have
          MAXCARD,      \* entries of an R-tree leaf
          MaxReScan     \* bound: rescans with new parameters

ASSUME SGBAnyAssumption ==
    /\ EPS \in Nat \ {0}
    /\ metric \in {-1, 1, 2}
    /\ numCols = 1 => metric = 1
    /\ Tuple \subseteq [Cols -> Int]
    /\ MAXCARD \in Nat \ {0}
    /\ MaxReScan \in Nat

VARIABLES
    pc,         \* where ExecAgg is: fill, merge, find, iterate, dfs, retrieve, done;
                \* overrun: it works on an element that was not inserted
    data,       \* m_nodes[i].data, the tuple of element i
    rtree,      \* elements entered in the R-tree
    hits,       \* the part of containArray still to process
    newsetID,   \* the set of the current tuple, as the caller tracks it
    visited,    \* m_nodes[i].visited, as a set
    pivot1,     \* the first tuple of the scan, kept in pivot1Slot
    iter,       \* loop index of IterateSets
    stack,      \* DFS_oneSet: the cursor `begin' of each active call
    groups,     \* hash table: for each entry its root and what was advanced
    scanned,    \* entries the hash iterator has returned
    rescans,    \* rescans so far
    base        \* history: first element of the current scan

execVars == <<pc, data, rtree, hits, newsetID, visited, pivot1, iter, stack,
              groups, scanned, rescans, base>>
vars == <<dsVars, execVars>>

indexhasharray == Cardinality(rtree)
distanceMetric == IF metric = -1 THEN 2 ELSE metric

Zeroes == [i \in Cols |-> 0]    \* a slot without a tuple

Init ==
    /\ DSInit
    /\ pc = "fill"
    /\ data = [x \in Node |-> Zeroes]
    /\ rtree = {}
    /\ hits = {}
    /\ newsetID = NULL
    /\ visited = {}
    /\ pivot1 = NULL
    /\ iter = 0
    /\ stack = <<>>
    /\ groups = <<>>
    /\ scanned = {}
    /\ rescans = 0
    /\ base = 0
-----------------------------------------------------------------------------
(* Elements whose rectangle is contained in the search rectangle of t.     *)
Contained(t) ==
    {x \in rtree : RTreeContained(getMBRinputSlot(data[x]),
                                  getMBRinputSlotBigger(t, EPS))}

RTreeSearch_Contain(t, H) ==
    /\ H \subseteq Contained(t)
    /\ Cardinality(rtree) <= MAXCARD => H = Contained(t)

(* ExecProcNode returns a tuple: search, insert it as element tupleid.     *)
ReadTuple(t) ==
    LET tupleid == indexhasharray
    IN  /\ pc = "fill"
        /\ \E H \in SUBSET rtree : RTreeSearch_Contain(t, H) /\ hits' = H
        /\ InsertElement(tupleid)
        /\ data' = [data EXCEPT ![tupleid] = t]
        /\ visited' = visited \ {tupleid}
        /\ newsetID' = tupleid
        /\ pivot1' = IF num_elements = base THEN tupleid ELSE pivot1
        /\ pc' = "merge"
        /\ UNCHANGED <<rtree, iter, stack, groups, scanned, rescans, base>>

(* InsertElement refuses the tuple. The caller ignores that and goes on to *)
(* union an element outside m_nodes that was never written: what follows   *)
(* has no defined outcome and is not modelled.                             *)
ReadRefused ==
    /\ pc = "fill"
    /\ InsertRefused(indexhasharray)
    /\ pc' = "overrun"
    /\ UNCHANGED <<data, rtree, hits, newsetID, visited, pivot1, iter, stack,
                   groups, scanned, rescans, base>>

SquareDist(p, q) == (p[1] - q[1]) * (p[1] - q[1]) + (p[2] - q[2]) * (p[2] - q[2])

(* (int) L2distance(p, q) > EPS, with the cast's truncation.               *)
TooFarL2(p, q) == SquareDist(p, q) >= (EPS + 1) * (EPS + 1)

(* No distance check after the search.                                     *)
RejectedNever(x) == FALSE

Rejected(x) == distanceMetric = 2 /\ TooFarL2(data[x], data[indexhasharray])

NextHit(x) ==
    /\ x \in hits
    /\ Cardinality(rtree) <= MAXCARD => x = Min(hits)

SkipHit ==
    /\ pc = "merge"
    /\ \E x \in hits : /\ NextHit(x)
                       /\ Rejected(x)
                       /\ hits' = hits \ {x}
    /\ UNCHANGED <<dsVars, pc, data, rtree, newsetID, visited, pivot1, iter,
                   stack, groups, scanned, rescans, base>>

FindHit ==
    /\ pc = "merge"
    /\ \E x \in hits : /\ NextHit(x)
                       /\ ~Rejected(x)
                       /\ FindSet(x)
                       /\ hits' = hits \ {x}
    /\ pc' = "find"
    /\ UNCHANGED <<data, rtree, newsetID, visited, pivot1, iter, stack, groups,
                   scanned, rescans, base>>

FindHitStep == pc = "find" /\ FindStep /\ UNCHANGED execVars

(* The result of unionSet is not kept.                                     *)
UnionHitStale ==
    /\ pc = "find"
    /\ FindReturn
    /\ root # newsetID
    /\ unionSet(root, newsetID)
    /\ pc' = "merge"
    /\ UNCHANGED <<data, rtree, hits, newsetID, visited, pivot1, iter, stack, groups,
                   scanned, rescans, base>>

(* setID1 is the root that FindSet returned; the caller keeps the root of  *)
(* the tuple's own set in newsetID and never looks it up again.            *)
UnionHit ==
    /\ pc = "find"
    /\ FindReturn
    /\ root # newsetID
    /\ unionSet(root, newsetID)
    /\ newsetID' = Winner(root, newsetID)
    /\ pc' = "merge"
    /\ UNCHANGED <<data, rtree, hits, visited, pivot1, iter, stack, groups,
                   scanned, rescans, base>>

SameSetHit ==
    /\ pc = "find"
    /\ FindReturn
    /\ root = newsetID
    /\ pc' = "merge"
    /\ UNCHANGED <<parent, rank, listVars, num_sets, num_elements, class,
                   data, rtree, hits, newsetID, visited, pivot1, iter, stack,
                   groups, scanned, rescans, base>>

(* RTreeInsert and indexhasharray++ once every hit is processed.           *)
FinishTuple ==
    /\ pc = "merge"
    /\ hits = {}
    /\ rtree' = rtree \cup {indexhasharray}
    /\ newsetID' = NULL
    /\ pc' = "fill"
    /\ UNCHANGED <<dsVars, data, hits, visited, pivot1, iter, stack, groups,
                   scanned, rescans, base>>
-----------------------------------------------------------------------------
EndOfInput ==
    /\ pc = "fill"
    /\ pc' = "iterate"
    /\ iter' = 0
    /\ UNCHANGED <<dsVars, data, rtree, hits, newsetID, visited, pivot1, stack,
                   groups, scanned, rescans, base>>

(* i++ only for roots.                                                     *)
IterateSkipStuck ==
    /\ pc = "iterate"
    /\ iter < num_elements
    /\ parent[iter] # NULL
    /\ UNCHANGED vars

IterateSkip ==
    /\ pc = "iterate"
    /\ iter < num_elements
    /\ parent[iter] # NULL
    /\ iter' = iter + 1
    /\ UNCHANGED <<dsVars, pc, data, rtree, hits, newsetID, visited, pivot1,
                   stack, groups, scanned, rescans, base>>

(* Every element starts a group.                                           *)
IterateAll ==
    /\ pc = "iterate"
    /\ iter < num_elements
    /\ groups' = Append(groups, [root |-> iter, agg |-> {}])
    /\ stack' = <<iter>>
    /\ pc' = "dfs"
    /\ UNCHANGED <<dsVars, data, rtree, hits, newsetID, visited, pivot1, iter,
                   scanned, rescans, base>>

(* A root gets a hash entry under a key of random numbers.                 *)
IterateRoot ==
    /\ pc = "iterate"
    /\ iter < num_elements
    /\ parent[iter] = NULL
    /\ groups' = Append(groups, [root |-> iter, agg |-> {}])
    /\ stack' = <<iter>>
    /\ pc' = "dfs"
    /\ UNCHANGED <<dsVars, data, rtree, hits, newsetID, visited, pivot1, iter,
                   scanned, rescans, base>>

(* The key is already in the table: IterateSets returns. Then, as at its   *)
(* regular end, the hash iterator is reset.                                *)
IterateCollision ==
    /\ pc = "iterate"
    /\ iter < num_elements
    /\ parent[iter] = NULL
    /\ groups # <<>>
    /\ scanned' = {}
    /\ pc' = "retrieve"
    /\ UNCHANGED <<dsVars, data, rtree, hits, newsetID, visited, pivot1, iter,
                   stack, groups, rescans, base>>

(* The iterator is not reset.                                              *)
IterateEndKeeps ==
    /\ pc = "iterate"
    /\ iter = num_elements
    /\ pc' = "retrieve"
    /\ UNCHANGED <<dsVars, data, rtree, hits, newsetID, visited, pivot1, iter,
                   stack, groups, scanned, rescans, base>>

IterateEnd ==
    /\ pc = "iterate"
    /\ iter = num_elements
    /\ scanned' = {}
    /\ pc' = "retrieve"
    /\ UNCHANGED <<dsVars, data, rtree, hits, newsetID, visited, pivot1, iter,
                   stack, groups, rescans, base>>

Top == stack[Len(stack)]
Pop == SubSeq(stack, 1, Len(stack) - 1)

(* A call on an element not yet visited advances the aggregates with its   *)
(* grouping columns put into a copy of pivot1Slot, then turns to its       *)
(* first child.                                                            *)
DFSVisit ==
    /\ pc = "dfs"
    /\ Top # NULL
    /\ Top \notin visited
    /\ visited' = visited \cup {Top}
    /\ groups' = [groups EXCEPT ![Len(groups)].agg = @ \cup {<<Top, pivot1>>}]
    /\ stack' = Append(stack, childListHead[Top])
    /\ UNCHANGED <<dsVars, pc, data, rtree, hits, newsetID, pivot1, iter,
                   scanned, rescans, base>>

(* The loop over the children ends at the end of the list or at the first  *)
(* visited child; the caller goes on with the sibling.                     *)
DFSReturn ==
    /\ pc = "dfs"
    /\ Top = NULL \/ Top \in visited
    /\ Len(stack) > 2
    /\ stack' = [Pop EXCEPT ![Len(Pop)] = nextChild[@]]
    /\ UNCHANGED <<dsVars, pc, data, rtree, hits, newsetID, visited, pivot1,
                   iter, groups, scanned, rescans, base>>

DFSEnd ==
    /\ pc = "dfs"
    /\ Top = NULL \/ Top \in visited
    /\ Len(stack) <= 2
    /\ stack' = <<>>
    /\ iter' = iter + 1
    /\ pc' = "iterate"
    /\ UNCHANGED <<dsVars, data, rtree, hits, newsetID, visited, pivot1,
                   groups, scanned, rescans, base>>
-----------------------------------------------------------------------------
(* agg_retrieve_hash_table: the next entry, in the order of the hash table *)
(* (whether HAVING keeps it does not matter here).                         *)
RetrieveEntry ==
    /\ pc = "retrieve"
    /\ \E g \in DOMAIN groups \ scanned : scanned' = scanned \cup {g}
    /\ UNCHANGED <<dsVars, pc, data, rtree, hits, newsetID, visited, pivot1,
                   iter, stack, groups, rescans, base>>

RetrieveEnd ==
    /\ pc = "retrieve"
    /\ scanned = DOMAIN groups
    /\ pc' = "done"
    /\ UNCHANGED <<dsVars, data, rtree, hits, newsetID, visited, pivot1, iter,
                   stack, groups, scanned, rescans, base>>

(* ExecReScanAgg with a filled table: without new parameters the table is  *)
(* scanned again; otherwise it is emptied and the input read again. The    *)
(* R-tree, the disjoint sets and indexhasharray keep their contents, and   *)
(* the hash iterator its place in the table that is gone.                  *)
ReScanSame ==
    /\ pc \in {"retrieve", "done"}
    /\ rescans < MaxReScan
    /\ rescans' = rescans + 1
    /\ scanned' = {}
    /\ pc' = "retrieve"
    /\ UNCHANGED <<dsVars, data, rtree, hits, newsetID, visited, pivot1, iter,
                   stack, groups, base>>

ReScanChanged ==
    /\ pc \in {"retrieve", "done"}
    /\ rescans < MaxReScan
    /\ rescans' = rescans + 1
    /\ groups' = <<>>
    /\ base' = num_elements
    /\ pc' = "fill"
    /\ UNCHANGED <<dsVars, data, rtree, hits, newsetID, visited, pivot1, iter,
                   stack, scanned>>

Step ==
    \/ SkipHit \/ FindHit \/ FindHitStep \/ UnionHit \/ SameSetHit \/ FinishTuple
    \/ EndOfInput \/ IterateSkip \/ IterateRoot \/ IterateCollision \/ IterateEnd
    \/ DFSVisit \/ DFSReturn \/ DFSEnd \/ RetrieveEntry \/ RetrieveEnd

ReScan == ReScanSame \/ ReScanChanged

Next == Step \/ ReScan \/ ReadRefused \/ \E t \in Tuple : ReadTuple(t)

Spec == Init /\ [][Next]_vars

(* The backend runs the node until it has returned its last group.         *)
FairSpec == Spec /\ WF_vars(Step)
-----------------------------------------------------------------------------
(* Fields and locals keep their types. A rescan leaves the hash iterator   *)
(* in a table that is gone, but whenever an entry is fetched with it, it   *)
(* is an iterator of the current table.                                    *)
TypeOK ==
    /\ DSTypeOK
    /\ pc \in {"fill", "merge", "find", "iterate", "dfs", "retrieve", "done",
              "overrun"}
    /\ data \in [Node -> Tuple \cup {Zeroes}]
    /\ rtree \subseteq Node
    /\ hits \subseteq Node
    /\ newsetID \in Node \cup {NULL}
    /\ visited \subseteq Node
    /\ pivot1 \in Node \cup {NULL}
    /\ iter \in 0 .. Capacity + 1
    /\ stack \in Seq(Node \cup {NULL})
    /\ groups \in Seq([root : Node, agg : SUBSET (Node \X Node)])
    /\ scanned \subseteq Nat
    /\ pc \in {"retrieve", "done"} => scanned \subseteq DOMAIN groups
    /\ rescans \in 0 .. MaxReScan
    /\ base \in 0 .. Capacity + 1

Abs(n) == IF n < 0 THEN -n ELSE n

(* The neighbour relation that the search and the L2 check compute.        *)
Near(p, q) == /\ \A i \in Cols : Abs(p[i] - q[i]) <= EPS
              /\ ~(distanceMetric = 2 /\ TooFarL2(p, q))

MaxElements == Capacity + 1     \* number of elements in Node

(* Chains of neighbours among the elements of S: what x is connected to.   *)
ConnectedTo(x, S) ==
    LET grow[n \in 0 .. MaxElements] ==
            IF n = 0 THEN {x}
            ELSE LET prev == grow[n-1]
                 IN  prev \cup {y \in S : \E z \in prev : Near(data[y], data[z])}
    IN  grow[MaxElements]

Advanced(g) == {e[1] : e \in groups[g].agg}

(* Between two tuples the disjoint sets are the connected components of    *)
(* the neighbour graph of the tuples read: a union made for one tuple,     *)
(* with the stale newsetID of the loop, joins neither too much nor too     *)
(* little.                                                                 *)
SetsAreComponents ==
    pc \in {"fill", "iterate"} =>
        \A x \in Inserted : ConnectedTo(x, Inserted) = {y \in Inserted : class[y] = class[x]}

(* While the hits are processed newsetID is the root of the set of the     *)
(* tuple, although the caller looks it up only through unionSet's result.  *)
NewSetIsRoot ==
    pc \in {"merge", "find"} =>
        newsetID = class[indexhasharray] /\ parent[newsetID] = NULL

(* The depth-first walk aggregates into a group only members of the set it *)
(* was started for, through child lists that path compression left         *)
(* tangled, and no tuple into two groups.                                  *)
GroupsDisjointAndSound ==
    \A g \in DOMAIN groups :
        /\ \A e \in Advanced(g) : class[e] = groups[g].root
        /\ \A h \in DOMAIN groups : g # h => Advanced(g) \cap Advanced(h) = {}

(* Once the input ends the node returns its groups and finishes, unless    *)
(* it is started again and the tuples of both scans exceed the array.      *)
QueryFinishes == (pc = "iterate") ~> (pc \in {"done", "overrun"})

(* "update the aggregate on that group": when IterateSets completes, every *)
(* tuple read has been advanced into a group.                              *)
AllAggregated ==
    (pc = "retrieve" /\ iter = num_elements) =>
        \A x \in base .. num_elements - 1 : \E g \in DOMAIN groups : x \in Advanced(g)
=============================================================================
