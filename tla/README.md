# Similarity group-by (SGB) in PostgreSQL 8.2.4: specification and proofs

The repository adds *similarity group-by* operators to PostgreSQL 8.2.4.
`GROUP BY a, b DISTANCEANY WITHIN e` puts two tuples in one group when a chain
of input tuples, each within `e` of the next, connects them (SGB-Any);
`GROUP BY a, b DISTANCEALL WITHIN e ON_OVERLAP ...` wants all members of a group
within `e` of each other and says what happens to a tuple that fits several
groups (SGB-All). On one column there are also `AROUND (centers)`, which groups
each tuple with its nearest center, and grouping limited only by the diameter of
a group or the gap between its elements.

This directory holds TLA+ modules translated from that code,
the TLC configurations that check them, and proofs checked by TLAPS.

Paths below are relative to `src/postgresql-8.2.4/src/`.

## 1. Inventory

| Component | Code | State | Operations |
|---|---|---|---|
| Disjoint sets | `backend/executor/disjointSetM.c` | `m_nodes` (parent, rank, child lists, visited, data), `num_sets`, `num_elements` | `InsertElement`, `FindSet` (with path compression), `unionSet` |
| R-tree | `backend/executor/rtreeM.c` | nodes of up to 12 branches, global `containArray`/`overlapArray` of the last search | insert, split, delete, `RTreeSearch`, `RTreeSearch_Contain`, rectangle predicates |
| SGB-Any | `nodeAgg.c`: `agg_fill_hash_table_SGBTOANY`, `agg_fill_hash_table_SGBANY`, `IterateSets`, `DFS_oneSet` | R-tree of tuples, disjoint sets, `indexhasharray`, hash table | read a tuple and fuse sets; aggregate each set; retrieve; rescan |
| SGB-All, box bounds | `nodeAgg.c`: `agg_fill_hash_table_SGBTOAll`, the `random_l1` and `eliminated_l1` handlers; `nodeAggHelperSGBAll.c`: `judgeJoinGroup`, `getMBR*` | per group: bounds `pivot1`/`pivot2`, tuple store, aggregates; R-tree of boxes; `hasharray` | join, eliminate, new group; retrieve; rescan |
| SGB-All NEW_GROUP | `nodeAgg.c` (`newgroup_*`, `sgb_newgroup_helper`), `nodeAggHelperSGBAll.c`, `linkListM.c` | per group also the list of its members; the overlap store; `flagEnabled` 1 in use, 2 aggregated, 3 emptied | narrow boxes, cut near members out of other groups, join or found a group or withhold, enter boxes again; aggregate at the end |
| SGB-All with LTWO | `nodeAgg.c` (`*_l2`), `convexhullM.c` | a convex hull per group, as a ring of vertices | is the tuple inside or may it join; link it into the ring between two tangents |
| SGB-Around: plain, MaxR, MaxS; unsupervised | `nodeAgg.c` (`agg_fill_hash_table_around*`, `_unsupervised`), `execGrouping.c` | two pivots, last and first element of the group, flags of the current chain, sorted input | merge tuples with centers; enable, reset or cut a chain |
| Clauses in parser and planner | `gram.y`, `analyze.c`, `createplan.c`, `copyfuncs.c` | fields of the parse tree and of the `Agg` node | pass distance, overlap, metric on |
| The rest of PostgreSQL | everything else | - | unchanged third-party code |

How they interact. `ExecAgg` dispatches on the clauses of the plan node; on the
first call it drains its input through one fill function, later calls scan the
hash table. Fill functions search the R-tree, whose hits come back in the
*global* array `containArray`, and then work through the hits one at a time,
changing the R-tree (SGB-All) or the disjoint sets (SGB-Any) as they go.
`ExecReScanAgg` may restart the node at any point of the output.

A backend is one process and the operators run in it alone, so nothing here
interleaves with another actor and nothing is persisted. What is hard is *long
sequences of legal calls on linked structures that several routines update*:

- path compression re-appends an element to a child list without unlinking it
  from its old one, and the output phase later walks these lists;
- `newsetID` is a cached root, used through a loop of unions that move roots;
- the bounds of a group exist twice (hash entry, R-tree rectangle);
- a box is a summary of all members; a tuple is compared with it alone;
- `ELIMINATE` updates groups before it knows whether the tuple stays;
- a rescan clears some of the state;
- `NEW_GROUP` moves members between groups while it walks their lists, and takes
  boxes out of the R-tree that it has to enter again;
- a hull summarises a group too, and is changed by pointer surgery that depends on
  angles computed in `double`;
- the one-dimensional operators make one forward pass over two sorted streams;
  what they drop or stop at is not looked at again;
- limits and widths: the end of the array of elements, one R-tree leaf, truncation
  of a distance, one grouping column in rectangles made for two.

`PROJECT.json` lists these hazards at their lines, with the properties aimed at
each.

## 2. Modules

| Module | Models |
|---|---|
| `UnionFindSpec` | abstract specification: a partition that grows by singletons and fuses two classes |
| `DisjointSetM` | `disjointSetM.c`. One action per call, one per iteration of the two loops of `FindSet`; the locals of `FindSet` are the variables `find`, `tupleid1`, `currtnode`, `root` |
| `InductionLemmas` | least and greatest elements of sets of naturals, induction as a closed set, existence of a recursive function |
| `DisjointSetProofs` | theorems about `DisjointSetM` |
| `RTreeRect` | rectangles of `rtreeM.c` and those the operators build: the array `bound[4]` as the C initialisers leave it |
| `RTreeM`, `MCRTreeM` | the tree of `rtreeM.c`: insertion with node splits, deletion with reinsertion, `RTreeSearch` and `RTreeSearch_Contain` |
| `RTreeProofs` | theorems about `RTreeM` |
| `SGBAny`, `MCSGBAny` | the SGB-Any operator over `DisjointSetM` (extended, its actions are conjoined with the caller's) and `RTreeRect` |
| `SGBAnyProofs` | theorems about `SGBAny` (extends `DisjointSetProofs`, whose lemmas it takes over) |
| `GroupBound` | `judgeJoinGroup` on one column: how a tuple that joins narrows the bounds of a group |
| `SGBAll`, `MCSGBAll` | the SGB-All operator with box bounds (extends `GroupBound`), `ON_OVERLAP ANY` and `ELIMINATE`, and the clauses without a handler |
| `SGBAllProofs` | theorems about `SGBAll` |
| `SGBNewGroup`, `MCSGBNewGroup` | `ON_OVERLAP NEW_GROUP` with `METRIC LONE` (extends `GroupBound`): `agg_fill_hash_table_overlap_newgroup_l1` and the pass at the end of the input |
| `SGBNewGroupProofs` | theorems about `SGBNewGroup` |
| `ConvexHullM` | `convexhullM.c` as operators on rings of vertices |
| `SGBAllLtwo`, `MCSGBAllLtwo` | SGB-All with `METRIC LTWO` or no metric: `SGBAll` with a hull per group (extends `SGBAll`, whose `Read`, `UpdateBounds`, `AddMember` the handlers share, and `ConvexHullM`) |
| `SGBAllLtwoProofs` | theorems about `SGBAllLtwo` (extends `SGBAllProofs`) |
| `SGBAround`, `MCSGBAround` | `AROUND` in its four forms and the grouping without centers |
| `SGBAroundProofs` | theorems about `SGBAround` |

Definitions keep the names of the C code. Definitions directly above an
operation, named after it with a suffix (`UnionHitStale`, `NewLowKept`, ...), are
mutations: variants a plausible slip would produce. They occur in no
specification; each property is known to fail when one of them replaces the
operation.

### Correspondence of state

- `parent`, `rank`, `childListHead`, `childListEnd`, `nextChild` are the fields
  of `m_nodes[i]`, as functions of the index; `NULL` is -1. `class` is a history
  variable, the partition made by the unions; no guard reads it. `Node` has one
  element more than the array: the bound check of `InsertElement`
  (`disjointSetM.c:18`) admits `index = capacity`. The array is a block of 3,000,000
  elements of 56 bytes, the last page of which is not full, so the element behind it
  lies in memory nobody else uses and behaves like the others; the model lets it.
  The next insert is refused (`InsertRefused`). The caller ignores that and goes on
  to union an element that was never written; this has no defined outcome, and
  `SGBAny` ends there (`ReadRefused`, `pc = "overrun"`).
- In `RTreeM` a node is a value: its level and a function from the slots in use to
  a rectangle and a child. One action is one call of `RTreeInsert` or
  `RTreeDelete`. A C function that calls itself on the child of a node is a
  recursive function on the nodes of the tree (`InsertRect`, `DeleteRect`,
  `SearchRect`); its body is an operator (`InsertStep`, `DeleteStep`, `SearchStep`)
  that takes the results for the children as an argument. What a C function leaves
  in `*new_node` or in the reinsertion list is part of its result; the list is the
  sequence of branches, in the order `RTreeDelete` works it off. Volumes are compared
  exactly where the code computes in
  `double`, so a tie may be broken differently by the code; the invariants hold
  whichever branch is chosen. `entries` is a history variable.
- In `SGBAny` the R-tree is the set of its elements. `RTreeSearch_Contain`
  answers completely and in slot order while the tree is one leaf (`MAXCARD`
  entries: (512 - 8) / 40 = 12); a taller tree descends into one overlapping
  branch only, and its answer is left open. `ReadTuple`, `SkipHit`, `FindHit`,
  `UnionHit`, `SameSetHit`, `FinishTuple` are the parts of
  `agg_fill_hash_table_SGBANY` between the calls of `FindSet`. `stack` holds the
  cursor `begin` of each active call of the recursive `DFS_oneSet`.
- A hash entry in `groups` records the root it was made for and, for every
  `advance_aggregates`, which element supplied the grouping columns and which
  one the rest of the tuple (`pivot1`, the first tuple of the scan).
  `IterateRoot` files it under a key of random numbers; `IterateCollision` is
  the draw of a key already in the table, on which `IterateSets` returns.
  `scanned` is the hash iterator. A rescan with new parameters (`ReScanChanged`)
  empties the table under it and does not reset it; that happens at the end of the
  next fill (`nodeAgg.c:1855`, part of `IterateEnd` and `IterateCollision`).
- In `SGBAll` the R-tree is the function from group ids to the rectangle entered
  for it; delete with the old box and insert with the new one is a change of that
  function. `hashkey` is the tuple whose values an entry is filed under, which is
  what makes the early return `flagEnabled != 0` expressible (`KeyTaken`).
  `ContainArray` is the set of the answers a search may leave: all groups that contain
  the tuple, or, for the random search of `ANY` in a tree of several leaves, any
  more than three of them (`rtreeM.c:576`). On one column these may all refuse the
  tuple.
- The loop of `eliminated_l1` stops once it has seen three accepting groups;
  `Considered` is the set it has updated by then. The order in which a search
  reports its hits is left open.
- In `SGBNewGroup` one call of the handler is one action. Its four phases (boxes
  that contain the tuple are narrowed and taken out of the R-tree; groups whose box
  overlaps the tuple's lose their near members; the tuple is placed; the boxes go
  back) are the parts of the actions `NewGroup`, `NewTmpGroup`, `JoinGroup`,
  `Withhold`, `KeyTaken`, one per outcome of the third. The order `h` in which the
  search reports overlapping groups is left open, because the first group is cut by
  another routine than the rest. `WalkedFirst` and `WalkedNext` are the members
  these two walks reach: both pass over the element after one they unlink, the
  first walk only at the head. `tuples[g]` is the list of positions in the input.
- In `SGBAllLtwo` a hull is the sequence that starts at `convexheader`.
  `unionConvex` is a set of outcomes: where an angle is exactly 0 or 180 or two
  angle sums are equal, rounding decides. `getDegree` takes both components of its
  second arm from `values[0]`; `isConvexPoint` models what this computes.
- In `SGBAround` `pivot1` is the place of the first pivot in `centers` and the
  second pivot is the next one. `query` chooses the fill function as `ExecAgg`
  does (`Fill`). An entry of the hash table is named by the value that replaces the
  first grouping column and the second grouping column.

### Abstractions

Integers are unbounded and grouping columns are non-null integers (the code
reads every column with `DatumGetInt32`). `EPS` is at least 1: with 0 the node
has no R-tree. Distances in `ConvexHullM` are compared by their squares. In
`SGBNewGroup` the ids of emptied groups stay in the R-tree with their box, as in
the code. Whenever a tuple joins the one group in use that contains it, the handler
writes the group's entry pointer back to `hasharray[tmpHashID - 1]` with `tmpHashID`
still 0 (`nodeAgg.c:5569` and `5889`; for an emptied group it does not). The write
goes in front of the array and is not modelled; the group's own slot already holds
that pointer. In `SGBAround` the outer plan is sorted on the first column (the planner
adds the sort, `planner.c:1113`) and the centers come in any order the list
`CenterLists` has (no sort is added). Aggregates, HAVING and projection are reduced to which tuples are
aggregated into which group. `SGBAll` models the rescan that walks the filled
table again; the one that rebuilds it leaves `hasharray` with freed entries.

## 3. Runs

| Run | Instance | Checks |
|---|---|---|
| `disjoint_sets` | an array of 4, hence 5 elements and a refused sixth | types; `PointersRepresentClasses`, `ParentOutranks`, `NumSetsCountsRoots`, `ListsStayInClass`; refinement of `UnionFindSpec`; `FindTerminates` |
| `any_sets` | an array of 4, hence 5 tuples over 4 points in two columns, LTWO, one rescan | types; `SetsAreComponents`, `NewSetIsRoot`, `GroupsDisjointAndSound`, `QueryFinishes` |
| `rtree` | nodes of 4 slots, 12 entries over 2 columns, 2 deletions | `TreeBalanced`, `CoversExact`, `LeavesHoldEntries`; what the searches report: `SearchComplete`, `RandomSearchFindsOne` |
| `all_boxes` | 5 tuples over a cross of 7 points, every clause and none | types; `GroupsAreCliques`, `BoxIsExact`, `AtMostOneGroup`, `RTreeMirrorsBoxes`, `EveryTupleGrouped`, `DroppedTupleOverlaps` |
| `all_column` | one column, ANY, 6 tuples over 6 values, R-tree leaves of 4 | `LostOnlyHidden` |
| `newgroup` | 5 tuples over 6 points of the plane | `GroupsAreCliques`, `RTreeMirrorsBoxes`, `InUseIffMembers`, `CountedOnce`, `IsolatedTuplesGrouped`, `AggregatedIffLong`, `OnlyNearTuplesCut` |
| `all_ltwo` | 6 tuples over 6 points of the plane, ANY and ELIMINATE | `HullOfMembers`, `HullIsClique`, `LostOnlyOffHull` |
| `around` | 8 queries, 5 lists of centers, 4 tuples over 7 values and 2 values of the other column | types; `GroupedWithNearest`, `ChainReachesCenter`, `NearTuplesReturned`, `SegmentsAreMaximal` |
| `rtree_contain`, `any_lost_tuple`, `ltwo_clique`, `around_chain` | up to 6 tuples, or 6 entries | violated, see below |

Why the bounds are enough. Five elements allow a union of two sets of two and a
further element, hence depth two, a compression, and a second compression into a
list that already shares a tail; six are needed for an element to drop out of
every list. In `rtree` four slots are the smallest node with `MINFILL` 2, below
which no node is ever underfull and reinsertion is never tried; twelve entries
reach three levels, a split of an inner node and, with two deletions, the
elimination of an inner node whose children are reinserted at their level; up to
six boxes contain one of the queries, so the random search does stop early. In
`all_boxes` four corners and a centre make a group whose box is cut from both
sides and frozen, and a tuple that four groups accept, which reaches the cut-off
at three groups in `ELIMINATE`. In `all_column` leaves of four entries let five
groups make a second leaf: after -1, -2, -3, -4, -5 the value 0 is contained in more
than three rectangles and the search may stop. In `newgroup` the points let a tuple
be near some members of a group and not the others, near a member only by its box
and not by the metric, and between two groups so that both are cut; five tuples make
a group of three, a cut, and a tuple that meets the new group. In `all_ltwo` five
points can share a group, whose hull then grows to four vertices, one more than the
size at which `unionConvex` begins to unlink, and loses its first tuple; a sixth tuple
repeats that one, and the sixth point makes a second group that overlaps the first.
In `around` three centers let both pivots be advanced, two close centers overlap
within the radius, four tuples make a chain, a cut and a restart; diameter 1 gives
radius 0 (the code halves an int). `MAXCARD` is the real one in `SGBAny`, whose runs
stay in one leaf; what happens beyond is the subject of `rtree_contain`. One rescan
is enough to see old state; a second would only repeat it. The input is any
sequence over the given set: its end (`EndOfInput`) may come at any time.
Deadlock is not checked for `RTreeM`, where the ids and the deletions are bounded
and the last state of a bounded history has no successor, and for `SGBAny`,
`SGBAllLtwo` and `SGBAround`, where the node has nothing left to do once it has
returned all groups (and the rescans are used up) and the model of `SGBAny` ends with
an insert that was refused.

Fairness. `DSFairSpec` has weak fairness on the steps of `FindSet`, `FairSpec`
on the steps of the node (`Step`, which excludes the arrival of tuples and
rescans, the environment's choices, and includes the end of the input): a
backend goes on executing the call it is in. Nothing stronger is assumed.

What the runs show:

- The sets of SGB-Any are exactly the connected components of the neighbour
  graph, although the caller never looks its own root up again, and the
  partition survives every interleaving of compressions and unions.
- The tangled child lists never lead into another set and the walk ends.
- The R-tree stays balanced, its rectangles are exact covers and it loses no
  entry through splits, reinsertions and the removal of the root; `RTreeSearch`
  is complete, and its shortcut for `ON_OVERLAP ANY` finds a group if there is one.
- `NEW_GROUP`: cutting leaves no group in use without members and no tuple in two
  groups, no emptied group is returned, groups founded with cut members are cliques
  although other code computes their box, and a tuple that has no neighbour is never lost or withheld (unless its
  random hash key collides).
- LTWO: the vertices of a hull are members, pairwise within EPS, whichever way the
  rounding goes and although the tangent test measures the wrong angle. With ANY a
  tuple is lost only where the code gives a reason for it (`LostOnlyOffHull`): the
  equal tuple that founded a group has been unlinked from the group's hull, or the
  random search had found four groups and stopped.
- AROUND: with the centers in order every tuple is grouped with a nearest center,
  and max-radius stops only when nothing can follow. With one center the chain
  logic of max-separation returns only tuples connected with the center, and
  drops none that is itself near it.
- A box of SGB-All summarises its members exactly under `ANY`. Under
  `ELIMINATE` it may be narrower, because dropped tuples have shrunk it
  (`BoxIsExact` is stated for `ANY` only); still, only tuples that truly fit two
  groups are dropped.
- With two columns no tuple is lost under `ANY`, although the search may stop
  short. `DUPLICATE` or an absent clause reads and drops all tuples (`NoHandler`).

Disagreements between code and its comments or documents, each with a run that
exhibits it (`findings` in `PROJECT.json`):

- `rtree_contain`: in a tree of more than one leaf the search SGB-Any uses returns
  after the first overlapping branch, so beyond twelve tuples neighbours are
  missed.
- `any_lost_tuple`: six tuples on a line after which one element is in no child
  list; the aggregates miss it (`DFS_oneSet` walks the lists).
- `ltwo_clique`: when the vertices of a hull lie on one line, a tuple of that line
  beyond its end counts as inside; it does not become a vertex and later tuples are
  not compared with it, so members further apart than `EPS` share a group.
- `around_chain`: when a tuple belongs to the next center, a chain that never came
  near its center keeps its flags and is returned with the next chain.

Further disagreements met while modelling are part of the model and have no run of
their own:

- A rescan with new parameters (`ReScanChanged`) empties the hash table and keeps
  R-tree, disjoint sets and `visited`: groups of the old scan come back, empty or
  mixed with new tuples (`nodeAgg.c:3782`; `backend/executor/readme:19` wants the
  output sequence over again).
- `DFS_oneSet` advances the aggregates with the first tuple of the scan in which
  only the grouping columns are replaced (`nodeAgg.c:7321`, "YAS THIS SHOULD USE THE
  ORIGINAL TUPLE"): the second component of `groups[g].agg` is always `pivot1`.
- The tuple after the last slot of the array of elements passes the bound check of
  `InsertElement` and is written behind it (`disjointSetM.c:18`), and the caller
  ignores the refusal of the next one.
- The LTWO distance of SGB-Any is cast to `int` before it is compared
  (`nodeAgg.c:7153`), so tuples less than `EPS + 1` apart are neighbours (`TooFarL2`):
  with `EPS` 3 the tuples (0,0) and (3,1). `SetsAreComponents` takes neighbours in
  this sense.
- On one column the rectangles have their high sides zero
  (`nodeAggHelperSGBAll.c:996`, `1045`, `1089`; `RectOf`). SGB-Any groups tuples far
  apart, and in SGB-All a repeated value may miss the group it founded and is then
  dropped, because its hash entry is in use (`KeyTaken`): with `EPS` 1 the value -5
  read twice gives one group of one tuple. `LostOnlyHidden` says that under `ANY` no
  other tuple is lost.
- The planner sorts the tuples and not the centers of AROUND (`planner.c:1113`). With
  the centers 5, 2 the tuple 0 lies before the first center and stays with it,
  although 2 is nearer; `GroupedWithNearest` is stated for centers in order.
- With LTWO and `ANY` a repeated tuple may be lost. With `EPS` 5 the tuples (0,0),
  (-4,-3), (-3,-3), (0,-2), (-1,-4) form one group, and the last `unionConvex` unlinks
  (0,0), which lies outside the new hull. A second (0,0) is judged not to be inside
  and not to be joinable, its hash entry is in use, and the handler returns
  (`nodeAgg.c:4115`). `KeyTakenL2` is that return.
- `NEW_GROUP` does not group what it withheld or cut: the calls that would regroup
  the overlap store are commented out (`nodeAgg.c:7040`). For an input of two tuples
  or less it does not aggregate anything (`EndOfInputShort`, `nodeAgg.c:1767`;
  `AggregatedIffLong`).

`METRIC LONE` is tested column by column in both operators, that is, as the
maximum of the distances; `GroupsAreCliques` and `SetsAreComponents` say
"within EPS" in this sense.

## 4. Proofs

Everything below is proved for every value of the constants, from the assumptions
named in the modules (`CapacityAssumption`, `NumColsAssumption`,
`SGBAnyAssumption`, `SGBAllAssumption`, `SGBAllLtwoAssumption`,
`SGBNewGroupAssumption`, `SGBAroundAssumption`, `RTreeAssumption`). They say that capacities, bounds and
distances are what the grammar and the operators can produce: `EPS` is a positive
integer; `diam` and `sep` are naturals or -1 for an absent clause, since the grammar
takes an `Iconst` there (`gram.y:5969`). `RTreeAssumption` wants nodes of at least
four slots (the code has 12): with `MINFILL` 1 the child that replaces the root could
have a single child itself, and the code replaces the root only once in a deletion. It
also wants rectangles that are not inside out, which the boxes of two columns are not
(and those of one column may be, see section 3), so the theorems about the tree say
nothing about one column. There a rectangle that is inside out overlaps nothing, so it
is neither found nor deleted, and covers take in all others (their high sides are all
zero), so the search still finds what `Containing` says. Two theorems have hypotheses of their own:
`ComponentsTheorem` is for two columns and an array no larger than one R-tree leaf
(on one column the rectangles are half filled, beyond one leaf the search misses
neighbours; `rtree_contain` shows the latter), and `DropTheorem` is for two columns
(on one, `KeyTaken` drops repeated values).

`DisjointSetProofs`: type correctness (every index stored is that of an element
`InsertElement` admits, `0 .. Capacity`, which is one more than the array holds),
`ParentOutranks` (no cycle of parents),
`NumSetsCountsRoots`, `ListsStayInClass`, `PointersRepresentClasses` and the
refinement `ImplementsPartition`. They rest on the inductive invariant `DSInv`:
`Rooted` says that an element has the class of its parent, that a class is named by a
root of its own and that a parent outranks its children; `FindSound` says that during
`FindSet` cursor, argument and root stay in one class; `FreshSlots` says that slots
not in use are roots. Neither the list property nor acyclicity is inductive alone: a
compression keeps the lists in the class only because the cursor is in the root's
class, and it keeps the ranks ordered only because the root outranks everything in
its class. The invariant names classes by the history variable, so the steps need no
induction over paths; that the function `RootOf`, which follows the pointers, is that
history variable is shown once, by a counterexample closest in rank to its root.
The refinement then has one case per action: insert, union, and stuttering for all of
`FindSet`.

`SGBAnyProofs`: type correctness (the hash iterator is within the table only while
entries are fetched: after a rescan it is stale), `NewSetIsRoot`, `GroupsDisjointAndSound`,
`SetsAreComponents`, and `UsesDisjointSets`: every step of the operator is a step of
`DSSpec` or leaves the disjoint sets alone. `AnyInv` adds to `DSInv` that the tuples
entered are numbered without a gap, that the current tuple is in the set of
`newsetID`, and that the cursors of the walk, whatever is on the stack, are in the set
of the group being filled. `SetsAreComponents` needs both directions in inductive
form: `InTree` and `ForCurrent` say that neighbours are in one set or still among the
hits, `ClosedSets` that a set of tuples closed under neighbours is closed under
being in one set, so nothing was united without a chain of neighbours.

`SGBAllProofs`: type correctness, `GroupsAreCliques`, `RTreeMirrorsBoxes`,
`AtMostOneGroup`, `BoundsOnlyShrink`, `BoxIsExact`, `LostOnlyHidden`,
`EveryTupleGrouped`, on one or two columns and for every clause (`EveryTupleGrouped` on two columns, by its
statement), and `DroppedTupleOverlaps`. A box admits a tuple, so cliques need
`BoxSound` (whatever is in the box is within EPS of every member), which is inductive
because a box at most EPS wide cannot be entered by a tuple too far from a member
already inside. The converse, `BoxTight`, holds while every shrinking belongs to a
member, that is, under `ANY`. That no tuple is lost follows from `KeyIsMember` (the
tuple an entry is filed under is a member, hence inside the box) together with
`RTreeMirrorsBoxes`: the search would have found that group, or it stopped with others,
which on two columns accept the tuple as well (`SearchSound`). On one column a search
reports only groups whose upper bound is not above the tuple (`SearchOnColumn`); so
only a tuple equal to that bound joins, the bound stays EPS above the founder
(`BoundAboveKey`), and the founder's own rectangle never contains an equal tuple:
`LostOnlyHidden`. Every step is an
update of some boxes (`UpdateStep`), a new group, a drop or a quiet step
(`StepKind`), and each theorem has one case per kind.

`SGBAllLtwoProofs`: `HullOfMembers`, `HullIsClique`, `LostOnlyOffHull`. The steps of
the LTWO handlers are of the same kinds, so `BoxSound`, `RTreeMirrorsBoxes` and
`KeyIsMember` carry over. Of `unionConvex`, whatever tangents it picks, it is shown
that all its outcomes are rings over the old vertices and the new point, and of
`insideConvexAndInsideBound` that it answers 1 only after it has compared the point
with every vertex. With these, `HullInv` is inductive. A vertex of a ring whose
vertices are pairwise within EPS is judged 0 or 1 (`VertexJudged`); so a tuple whose
hash entry is in use is lost only in the two ways that `LostOnlyOffHull` names. An
attempt to prove that no tuple is lost failed at exactly this point and led to the
example in section 3.

`SGBNewGroupProofs`: `InUseIffMembers`, `RTreeMirrorsBoxes`, `GroupsAreCliques`,
`CountedOnce`, `IsolatedTuplesGrouped`, `AggregatedIffLong`, `OnlyNearTuplesCut`. All actions of the
handler are of two kinds, those that leave the groups as they are but for cuts and at
most one join (`StayStep`), and those that found one. A type invariant with
ordered member lists makes `InUseIffMembers` inductive: a cut that does not
empty a group leaves an element, because the walks pass over some. `BoxInv` holds
the rest: `Mirror`, `BoxSound`, `Apart` (groups are disjoint), and `Anchored`,
which bounds even the box of an emptied group by its founder; without it a stale box
in the R-tree could cost an isolated tuple its group.

`SGBAroundProofs`: type correctness, `GroupedWithNearest`, `SegmentsAreMaximal`,
`NearTuplesReturned`, `ChainReachesCenter`. `Passed` says why the pivots may
forget what they have passed: a center behind the first pivot is no nearer than it,
or out of the radius, for the last tuple and hence, the input being sorted, for all to
come. `Segments` carries what is known of the group being filled
(`CurrentGroup`). `OneCenter` ties the flags of the chain entries, `basePosition`,
`curChain` and `ignoring` to the set of tuples in the chain: all tuples near the center
are in it, and no part of it hangs loose.

`RTreeProofs`: `TreeBalanced`, `CoversExact`, `LeavesHoldEntries`, `SearchComplete`,
`RandomSearchFindsOne`, for any capacity, data and number of calls. The inductive
invariant `RTreeInv` says that the root is `Proper` (every node of the tree has
between `MINFILL` and `MAXCARD` branches, exact covers and branches that share no id;
an inner root has two) and that the leaves hold the entries; TLC checks it on the
instance of `rtree` too. None of the invariants is inductive alone: a deletion finds
its entry only if covers are large enough, covers stay exact only if no entry is
misplaced, and a reinsertion goes to the level where its branch belongs only if the
tree is balanced. Exactness is shown through `Hull`: a rectangle is the hull of a set
of entries if it includes them and no side can be moved inwards. Hulls are unique
and `RTreeCombineRect` of hulls is the hull of the union, so the rectangle a branch
got by being enlarged and the one computed from its child, both hulls of the same
entries, are equal; and what overlaps an entry overlaps every hull of it, so neither
search nor deletion is led past it. Each C function has a lemma: `MethodZeroFacts`
(the loop of `_RTreeMethodZero` ends with two groups that share out the branches
and reach `MINFILL`, the function's two final assertions), `AddBranchGood`,
`InsertRectGood`, `DeleteRectGood` (what is left of the tree and what is on the
reinsertion list are together the entries but the one deleted), `ReInsertGood`,
`ShrinkRootGood`, `SearchRectGood`. Induction goes by the level of a node, after it
is shown that the recursive function exists, level by level from the leaves
(`InsertSolution`, `DeleteSolution`, `SearchSolution`). With these theorems the models
of SGB-All may take the R-tree as a function from ids to rectangles that is searched
completely, or by the random search until it has more than three hits.

The library's induction theorems take an operator as a parameter, which the provers
cannot instantiate. Where a proof needs induction over data it takes a least
counterexample instead (`InductionLemmas`, from the well-foundedness of the
naturals); the existence of a recursive function is shown there in the same way.

Only model-checked: liveness (`FindTerminates`, `QueryFinishes`), which is out of the
prover's reach, and what the violation runs exhibit. Six elements, where lists
lose an element, are beyond `any_sets`; that the lists stay in their set at any size is
the theorem about `ListsStayInClass`. Only proved: `BoundsOnlyShrink`, which no run checks.

## 5. Not modelled, and the plan

Done: the disjoint sets, the R-tree, SGB-Any; SGB-All with box bounds, with
NEW_GROUP and with hulls; SGB-Around and the unsupervised grouping. Left, in this
order:

1. `agg_fill_hash_table_overlap_newgroup_l2`, which repeats the handler of
   `SGBNewGroup` with hulls.
2. The rescan of the other operators; for SGB-All with new parameters it leaves
   `hasharray` with freed entries, whose use has no defined outcome, and for AROUND
   the inner plan is not rescanned.
3. `agg_retrieve_direct_around`, the sorted form of AROUND.

Not modelled: the way of the clauses from the grammar to the `Agg` node, which is
straight-line assignment (the copy of a plan node drops `distanceany`, `overlap` and
`metric`, `copyfuncs.c:560`); plain and sorted aggregation, transition functions,
storage, the optimiser and the rest of PostgreSQL, which are unchanged third-party
code and by far the largest part of the repository, so that the mapped lines are a
small share of it whatever is modelled of the operators; arrays of two million slots
written without a check, and values near the ends of `int`, which have no defined
behaviour to model.
