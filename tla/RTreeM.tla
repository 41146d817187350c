------------------------------- MODULE RTreeM -------------------------------
(***************************************************************************)
(* The R-tree that the SGB operators search (rtreeM.c): insertion with the *)
(* split of full nodes, deletion with reinsertion of underfull ones, and   *)
(* the two searches.                                                       *)
(*                                                                         *)
(* A node is a value, [level, branch]: branch maps the slots in use, of    *)
(* 1 .. MAXCARD, to a rectangle and a child, which is a node of the level  *)
(* below or, in a leaf, the id of the data. Slots are scanned in ascending *)
(* order. Each call of RTreeInsert or RTreeDelete is one action. A C       *)
(* function that descends the tree is a recursive function on the nodes:   *)
(* its body is an operator of its own (InsertStep, DeleteStep,             *)
(* SearchStep), whose last argument holds, for each slot, what the         *)
(* recursive call on the child of that slot returns or leaves behind.      *)
(***************************************************************************)
EXTENDS RTreeRect, SequencesExt

CONSTANTS MAXCARD,      \* branches of a node (NODECARD, LEAFCARD)
          Boxes(_),     \* rectangles the data of an id may have
          Queries,      \* rectangles searched for
          MaxId,        \* bound: ids in use are 1 .. MaxId
          MaxDelete     \* bound: number of deletions

ASSUME RTreeAssumption ==
    /\ MAXCARD \in Nat /\ MAXCARD >= 4
    /\ MaxId \in Nat \ {0} /\ MaxDelete \in Nat
    /\ \A r \in Queries \cup UNION {Boxes(tid) : tid \in 1 .. MaxId} :
          /\ r \in Rect
          /\ \A i \in Dims : r[i] <= r[i + DIMS_NUMB]

VARIABLES root_node,    \* the tree
          deletes,      \* number of deletions so far
          entries       \* history: the rectangle each id was inserted with

vars == <<root_node, deletes, entries>>

Slot    == 1 .. MAXCARD
MINFILL == MAXCARD \div 2

RTreeNewNode(level) == [level |-> level, branch |-> <<>>]

Slots(node) == DOMAIN node.branch
Count(node) == Cardinality(Slots(node))

(* The elements of a set of indexes in ascending order, as a loop visits   *)
(* them.                                                                   *)
InOrder(I) ==
    [k \in 1 .. Cardinality(I) |-> CHOOSE i \in I : Cardinality({j \in I : j <= i}) = k]

RTreeDisconnectBranch(node, i) ==
    [level |-> node.level, branch |-> [s \in Slots(node) \ {i} |-> node.branch[s]]]

(* The node with br in slot i, which may be in use.                        *)
SetBranch(node, i, br) ==
    [level  |-> node.level,
     branch |-> [s \in Slots(node) \cup {i} |-> IF s = i THEN br ELSE node.branch[s]]]

(* The smallest rectangle that includes those of the branches I.           *)
CoverOf(branch, I) ==
    LET cover[k \in 0 .. MAXCARD + 1] ==
            IF k = 0 THEN RTreeNullRect
            ELSE IF k \in I THEN RTreeCombineRect(branch[k].mbr, cover[k-1])
            ELSE cover[k-1]
    IN  cover[MAXCARD + 1]

RTreeNodeCover(node) == CoverOf(node.branch, Slots(node))

BranchTo(node) == [mbr |-> RTreeNodeCover(node), child |-> node]

(* The nodes below the nodes N; the children of a leaf are ids.            *)
ChildSlots(node) == IF node.level = 0 THEN {} ELSE Slots(node)

Below(N) == UNION {{n.branch[i].child : i \in ChildSlots(n)} : n \in N}

(* The nodes of a subtree, level by level.                                 *)
NodesOf(node) ==
    LET at[k \in 0 .. node.level] == IF k = 0 THEN {node} ELSE Below(at[k-1])
    IN  UNION {at[k] : k \in 0 .. node.level}
-----------------------------------------------------------------------------
(* Split of a full node. BranchBuf is its branches and the extra one.      *)
BranchBuf(node, br) ==
    [i \in 1 .. MAXCARD + 1 |-> IF i \in Slot THEN node.branch[i] ELSE br]

Volume(buf, I) == RTreeRectSphericalVolume(CoverOf(buf, I))

(* The first pair, in loop order, that wastes the most.                    *)
MostWasteful(waste) ==
    LET before(p, q) == p[1] < q[1] \/ (p[1] = q[1] /\ p[2] < q[2])
    IN  CHOOSE p \in DOMAIN waste : \A q \in DOMAIN waste \ {p} :
            waste[p] > waste[q] \/ (waste[p] = waste[q] /\ before(p, q))

(* _RTreePickSeeds: the waste of a pair is what its cover has more than    *)
(* the two branches have.                                                  *)
PickSeeds(buf) ==
    MostWasteful([p \in {q \in (DOMAIN buf) \X (DOMAIN buf) : q[1] < q[2]} |->
        Volume(buf, {p[1], p[2]}) - Volume(buf, {p[1]}) - Volume(buf, {p[2]})])

(* The groups after the branch that prefers one of them most joined it;    *)
(* diff[i] >= 0 says that branch i enlarges group 0 less. Among equals the *)
(* branch that goes to the smaller group, then the first, is chosen.       *)
Classify(diff, g0, g1) ==
    LET strength(i) == IF diff[i] >= 0 THEN diff[i] ELSE -diff[i]
        size(i) == Cardinality(IF diff[i] >= 0 THEN g0 ELSE g1)
        chosen == CHOOSE i \in DOMAIN diff : \A j \in DOMAIN diff \ {i} :
                     \/ strength(i) > strength(j)
                     \/ /\ strength(i) = strength(j)
                        /\ size(i) < size(j) \/ (size(i) = size(j) /\ i < j)
    IN  IF diff[chosen] >= 0 THEN <<g0 \cup {chosen}, g1>> ELSE <<g0, g1 \cup {chosen}>>

Growth(buf, g, i) == Volume(buf, g \cup {i}) - Volume(buf, g)

(* A group may take no more branches without leaving the other one with    *)
(* less than MINFILL.                                                      *)
Full(group) == Cardinality(group) >= MAXCARD + 1 - MINFILL

Left(g) == (1 .. MAXCARD + 1) \ (g[1] \cup g[2])

(* One round of the loop of _RTreeMethodZero, if it is not over.           *)
GrowGroups(buf, g) ==
    IF Full(g[1]) \/ Full(g[2]) \/ Left(g) = {} THEN g
    ELSE Classify([i \in Left(g) |-> Growth(buf, g[2], i) - Growth(buf, g[1], i)], g[1], g[2])

(* What is left goes to the group that may take more.                      *)
FillUp(g) ==
    IF Full(g[1]) THEN <<g[1], g[2] \cup Left(g)>> ELSE <<g[1] \cup Left(g), g[2]>>

SeedGroups(seeds) == <<{seeds[1]}, {seeds[2]}>>

(* _RTreeMethodZero: the two groups grow from the seeds until one may take *)
(* no more.                                                                *)
MethodZero(buf) ==
    LET grown[k \in 0 .. MAXCARD - 1] ==
            IF k = 0 THEN SeedGroups(PickSeeds(buf)) ELSE GrowGroups(buf, grown[k-1])
    IN  FillUp(grown[MAXCARD - 1])

LoadNode(buf, I, level) ==
    [level |-> level, branch |-> [k \in 1 .. Cardinality(I) |-> buf[InOrder(I)[k]]]]

LoadNodes(buf, parts, level) ==
    <<LoadNode(buf, parts[1], level), LoadNode(buf, parts[2], level)>>

RTreeSplitNode(node, br) ==
    LET buf == BranchBuf(node, br)
    IN  LoadNodes(buf, MethodZero(buf), node.level)

(* The node, or the two nodes it was split into.                           *)
RTreeAddBranch(br, node) ==
    IF Count(node) < MAXCARD
    THEN <<SetBranch(node, Min(Slot \ Slots(node)), br)>>
    ELSE RTreeSplitNode(node, br)
-----------------------------------------------------------------------------
(* The first branch of least enlargement, then least volume.               *)
RTreePickBranch(mbr, node) ==
    LET Area(i) == RTreeRectSphericalVolume(node.branch[i].mbr)
        Increase(i) == RTreeRectSphericalVolume(RTreeCombineRect(mbr, node.branch[i].mbr)) - Area(i)
    IN  CHOOSE i \in Slots(node) : \A j \in Slots(node) \ {i} :
            \/ Increase(i) < Increase(j)
            \/ /\ Increase(i) = Increase(j)
               /\ Area(i) < Area(j) \/ (Area(i) = Area(j) /\ i < j)

(* The rectangle of a branch is not enlarged.                              *)
GrownBranchKept(br, mbr, child) == [mbr |-> br.mbr, child |-> child]

(* A branch whose child took mbr without a split.                          *)
GrownBranch(br, mbr, child) == [mbr |-> RTreeCombineRect(mbr, br.mbr), child |-> child]

InsertStep(mbr, child, node, level, below) ==
    IF node.level = level
    THEN RTreeAddBranch([mbr |-> mbr, child |-> child], node)
    ELSE LET i == RTreePickBranch(mbr, node)
             n == below[i]
         IN  IF Len(n) = 1
             THEN <<SetBranch(node, i, GrownBranch(node.branch[i], mbr, n[1]))>>
             ELSE RTreeAddBranch(BranchTo(n[2]), SetBranch(node, i, BranchTo(n[1])))

(* _RTreeInsertRect: the node, or the two nodes it was split into.         *)
InsertRect(mbr, child, root, level) ==
    LET insert[node \in NodesOf(root)] ==
            InsertStep(mbr, child, node, level,
                       [i \in ChildSlots(node) |-> insert[node.branch[i].child]])
    IN  insert[root]

(* A split of the root, of the given level, makes the tree taller.         *)
RootOver(level, n) ==
    IF Len(n) = 1
    THEN n[1]
    ELSE [level |-> level + 1, branch |-> <<BranchTo(n[1]), BranchTo(n[2])>>]

(* RTreeInsert.                                                            *)
InsertAtLevel(root, mbr, child, level) ==
    RootOver(root.level, InsertRect(mbr, child, root, level))
-----------------------------------------------------------------------------
(* Eliminated nodes are freed at once.                                     *)
BranchesOfFreed(node) == <<>>

(* The branches of an eliminated node and the level they belong to.        *)
BranchesOf(node) ==
    [k \in 1 .. Count(node) |-> [level  |-> node.level,
                                 branch |-> node.branch[InOrder(Slots(node))[k]]]]

(* Whether the entry was found, the node without it, and the branches to   *)
(* reinsert of the nodes that became underfull, the last such node first.  *)
DeleteStep(mbr, tid, node, below) ==
    LET NotFound == [found |-> FALSE, node |-> node, reInsert |-> <<>>]
        holding  == {i \in Slots(node) : IF node.level = 0
                                         THEN node.branch[i].child = tid
                                         ELSE /\ RTreeOverlap(mbr, node.branch[i].mbr)
                                              /\ below[i].found}
        i        == Min(holding)
    IN  IF holding = {} THEN NotFound
        ELSE IF node.level = 0
        THEN [found |-> TRUE, node |-> RTreeDisconnectBranch(node, i), reInsert |-> <<>>]
        ELSE IF Count(below[i].node) >= MINFILL
        THEN [found |-> TRUE, node |-> SetBranch(node, i, BranchTo(below[i].node)),
              reInsert |-> below[i].reInsert]
        ELSE [found |-> TRUE, node |-> RTreeDisconnectBranch(node, i),
              reInsert |-> BranchesOf(below[i].node) \o below[i].reInsert]

(* _RTreeDeleteRect.                                                       *)
DeleteRect(mbr, tid, root) ==
    LET delete[node \in NodesOf(root)] ==
            DeleteStep(mbr, tid, node, [i \in ChildSlots(node) |-> delete[node.branch[i].child]])
    IN  delete[root]

(* The tree with the branches of a reinsertion list put back in order,     *)
(* each at its own level.                                                  *)
ReInsert(root, list) ==
    LET tree[k \in 0 .. Len(list)] ==
            IF k = 0 THEN root
            ELSE InsertAtLevel(tree[k-1], list[k].branch.mbr, list[k].branch.child, list[k].level)
    IN  tree[Len(list)]

(* The root is never removed.                                              *)
ShrinkRootNever(root) == root

(* An inner root with a single child gives way to the child.               *)
ShrinkRoot(root) ==
    IF root.level > 0 /\ Count(root) = 1
    THEN root.branch[Min(Slots(root))].child
    ELSE root

DeleteFrom(root, mbr, tid) ==
    LET d == DeleteRect(mbr, tid, root)
    IN  IF d.found THEN ShrinkRoot(ReInsert(d.node, d.reInsert)) ELSE root
-----------------------------------------------------------------------------
(* The slots a search looks at: in a leaf, those it reports.               *)
Hits(node, mbr, iscontain) ==
    InOrder({i \in Slots(node) :
                /\ RTreeOverlap(mbr, node.branch[i].mbr)
                /\ node.level = 0 => RTreeContained(mbr, node.branch[i].mbr) = iscontain})

Children(node, hits) == [k \in DOMAIN hits |-> node.branch[hits[k]].child]

(* A search that returns after the first overlapping branch.               *)
SearchStepFirst(mbr, iscontain, overlapisrandom, node, below) ==
    LET hits == Hits(node, mbr, iscontain)
    IN  IF node.level = 0 THEN Children(node, hits)
        ELSE IF hits = <<>> THEN <<>> ELSE below[hits[1]]

(* The hits are not counted.                                               *)
SearchStopsUncounted(k, hits, overlapisrandom) == k > 0 /\ overlapisrandom

(* After k branches: a random search is content with more than three hits. *)
SearchStops(k, hits, overlapisrandom) == k > 0 /\ overlapisrandom /\ Len(hits) > 3

SearchStep(mbr, iscontain, overlapisrandom, node, below) ==
    LET hits == Hits(node, mbr, iscontain)
        found[k \in 0 .. Len(hits)] ==
            IF k = 0 THEN <<>>
            ELSE IF SearchStops(k - 1, found[k-1], overlapisrandom) THEN found[k-1]
            ELSE found[k-1] \o below[hits[k]]
    IN  IF node.level = 0 THEN Children(node, hits) ELSE found[Len(hits)]

(* _RTreeSearchRect: the ids reported, in order.                           *)
SearchRect(root, mbr, iscontain, overlapisrandom) ==
    LET search[node \in NodesOf(root)] ==
            SearchStep(mbr, iscontain, overlapisrandom, node,
                       [i \in ChildSlots(node) |-> search[node.branch[i].child]])
    IN  search[root]

(* _RTreeSearchRect_contain: an inner node returns after the first         *)
(* overlapping branch.                                                     *)
SearchRect_contain(root, mbr) ==
    LET search[node \in NodesOf(root)] ==
            LET hits == InOrder({i \in Slots(node) :
                            IF node.level = 0 THEN RTreeContained(node.branch[i].mbr, mbr)
                                              ELSE RTreeOverlap(mbr, node.branch[i].mbr)})
            IN  IF node.level = 0 THEN Children(node, hits)
                ELSE IF hits = <<>> THEN <<>>
                ELSE search[node.branch[hits[1]].child]
    IN  search[root]
-----------------------------------------------------------------------------
Init ==
    /\ root_node = RTreeNewNode(0)
    /\ deletes = 0
    /\ entries = <<>>

(* A new id, or one that was deleted to change its rectangle.              *)
RTreeInsert(mbr, tid) ==
    /\ root_node' = InsertAtLevel(root_node, mbr, tid, 0)
    /\ entries' = [t \in DOMAIN entries \cup {tid} |-> IF t = tid THEN mbr ELSE entries[t]]
    /\ UNCHANGED deletes

RTreeDelete(tid) ==
    /\ deletes < MaxDelete
    /\ root_node' = DeleteFrom(root_node, entries[tid], tid)
    /\ entries' = [i \in DOMAIN entries \ {tid} |-> entries[i]]
    /\ deletes' = deletes + 1

(* The first id not in the tree, if any.                                   *)
NextId == {tid \in 1 .. MaxId : tid \notin DOMAIN entries
                                  /\ 1 .. tid - 1 \subseteq DOMAIN entries}

Next ==
    \/ \E tid \in NextId : \E mbr \in Boxes(tid) : RTreeInsert(mbr, tid)
    \/ \E tid \in DOMAIN entries : RTreeDelete(tid)

Spec == Init /\ [][Next]_vars
-----------------------------------------------------------------------------
(* What the leaves of a subtree hold, as <<id, rectangle>>, and what the   *)
(* subtree or the entry of a branch of a node does.                        *)
EntriesOf(node) ==
    UNION {{<<n.branch[i].child, n.branch[i].mbr>> : i \in Slots(n)} :
              n \in {m \in NodesOf(node) : m.level = 0}}

Held(level, br) == IF level = 0 THEN {<<br.child, br.mbr>>} ELSE EntriesOf(br.child)

(* No id is in both.                                                       *)
Apart(E, F) == \A e \in E : \A f \in F : e[1] # f[1]

(* Nodes are between half full and full, all leaves are at level 0, and an *)
(* inner root has at least two children: splits, reinsertions at inner     *)
(* levels and the removal of the root keep the tree balanced.              *)
TreeBalanced ==
    /\ root_node.level > 0 => Count(root_node) >= 2
    /\ \A n \in NodesOf(root_node) :
          /\ Slots(n) \subseteq Slot
          /\ n.level > 0 => \A i \in Slots(n) : /\ n.branch[i].child.level = n.level - 1
                                               /\ Count(n.branch[i].child) >= MINFILL

(* The rectangle of a branch is the cover of the child, neither smaller    *)
(* (the search would miss entries, the deletion would not find its entry)  *)
(* nor larger, after any sequence of insertions and deletions.             *)
CoversExact ==
    \A n \in NodesOf(root_node) :
        n.level > 0 => \A i \in Slots(n) : n.branch[i].mbr = RTreeNodeCover(n.branch[i].child)

(* The leaves hold exactly the entries inserted and not deleted, and no    *)
(* two branches of a node lead to the same id: no split and no             *)
(* reinsertion loses or duplicates an entry, and RTreeDelete always finds  *)
(* its entry.                                                              *)
LeavesHoldEntries ==
    /\ EntriesOf(root_node) = {<<t, entries[t]>> : t \in DOMAIN entries}
    /\ \A n \in NodesOf(root_node) : \A i, j \in Slots(n) :
          i # j => Apart(Held(n.level, n.branch[i]), Held(n.level, n.branch[j]))

(* What a search for entries that do or do not contain mbr should report.  *)
Expected(mbr, iscontain) ==
    {t \in DOMAIN entries : /\ RTreeOverlap(mbr, entries[t])
                            /\ RTreeContained(mbr, entries[t]) = iscontain}

(* RTreeSearch reports every entry of its kind, once.                      *)
SearchComplete ==
    \A q \in Queries : \A c \in BOOLEAN :
        LET hits == SearchRect(root_node, q, c, FALSE)
        IN  ToSet(hits) = Expected(q, c) /\ Len(hits) = Cardinality(Expected(q, c))

(* The shortcut of the random search still finds a group if there is one,  *)
(* which ON_OVERLAP ANY relies on.                                         *)
RandomSearchFindsOne ==
    \A q \in Queries :
        LET hits == ToSet(SearchRect(root_node, q, TRUE, TRUE))
        IN  hits \subseteq Expected(q, TRUE) /\ (Expected(q, TRUE) # {} => hits # {})

(* "Search in an index tree for all data rectangles that was contained by  *)
(* the input argument mbr".                                                *)
ContainSearchComplete ==
    \A q \in Queries :
        ToSet(SearchRect_contain(root_node, q)) = {t \in DOMAIN entries : RTreeContained(entries[t], q)}
=============================================================================
