---------------------------- MODULE SGBAnyProofs ----------------------------
(***************************************************************************)
(* Proofs about the SGB-Any operator, for any input, any number of tuples  *)
(* (the operator reads Capacity + 1 of them and then goes astray) and any  *)
(* answer of the R-tree.                                                   *)
(*                                                                         *)
(* AnyInv is inductive. Besides the types and the invariant of the         *)
(* disjoint sets, which every step of the operator keeps because it uses   *)
(* them as DSNext says, its parts are: the R-tree holds the elements       *)
(* before the current one, the hits are among them, and newsetID is the    *)
(* class of the current one (Entered); the groups have increasing roots,   *)
(* the depth-first walk is in the set of the last of them (GroupsInv).     *)
(***************************************************************************)
EXTENDS SGBAny, DisjointSetProofs, SequenceTheorems

Merging == pc \in {"merge", "find"}
Filling == pc \in {"fill", "merge", "find"}
Current == num_elements - 1     \* the element of the tuple being merged

Entered ==
    /\ rtree = (0 .. Current) \ (IF Merging THEN {Current} ELSE {})
    /\ find = "idle" <=> pc # "find"
    /\ Merging => /\ num_elements > 0
                  /\ hits \subseteq rtree
                  /\ newsetID = class[Current]

GroupsInv ==
    /\ base <= num_elements
    /\ num_elements > 0 => pivot1 \in Node
    /\ Filling => groups = <<>>
    /\ \A g \in DOMAIN groups : /\ groups[g].root \in Inserted
                                /\ \A e \in Advanced(g) : class[e] = groups[g].root
    /\ \A g, h \in DOMAIN groups : g < h => groups[g].root < groups[h].root
    /\ pc = "iterate" => \A g \in DOMAIN groups : groups[g].root < iter
    /\ pc = "dfs" => /\ iter < num_elements
                     /\ groups # <<>>
                     /\ \A g \in DOMAIN groups : groups[g].root <= iter
                     /\ stack # <<>>
                     /\ \A i \in 1 .. Len(stack) - 1 : stack[i] # NULL
                     /\ \A i \in DOMAIN stack :
                           stack[i] # NULL => /\ stack[i] \in Inserted
                                              /\ class[stack[i]] = groups[Len(groups)].root

AnyInv == TypeOK /\ DSInv /\ Entered /\ GroupsInv
-----------------------------------------------------------------------------
(* indexhasharray numbers the tuple being read or merged.                  *)
LEMMA IndexFacts ==
    ASSUME TypeOK, DSInv, Entered
    PROVE  /\ num_elements \in Nat /\ num_elements <= Capacity + 1
           /\ Inserted \subseteq Node /\ NULL \notin Node
           /\ rtree \subseteq Inserted
           /\ Merging => Current \in Inserted /\ indexhasharray = Current
           /\ ~Merging => indexhasharray = num_elements /\ rtree = Inserted
  <1>1. /\ num_elements \in Nat /\ num_elements <= Capacity + 1
        /\ Inserted \subseteq Node /\ NULL \notin Node
    BY NodeFacts DEF DSInv
  <1>2. CASE Merging
    <2>1. rtree = 0 .. num_elements - 2 /\ num_elements > 0
      BY <1>1, <1>2 DEF Entered, Current
    <2>2. Cardinality(0 .. num_elements - 2) = num_elements - 1
      BY <1>1, <2>1, FS_Interval
    <2> QED  BY <1>1, <1>2, <2>1, <2>2 DEF indexhasharray, Current, Inserted
  <1>3. CASE ~Merging
    <2>1. rtree = 0 .. num_elements - 1
      BY <1>1, <1>3 DEF Entered, Current
    <2>2. Cardinality(0 .. num_elements - 1) = num_elements
      BY <1>1, FS_Interval
    <2> QED  BY <1>1, <1>3, <2>1, <2>2 DEF indexhasharray, Inserted
  <1> QED  BY <1>2, <1>3

(* The operator uses the disjoint sets as any sequential caller may: it    *)
(* inserts in the next slot, starts FindSet on an element, and fuses the   *)
(* root found with newsetID, which is a root.                              *)
LEMMA DSStep ==
    ASSUME AnyInv, [Next]_vars
    PROVE  [DSNext]_dsVars
  <1> USE DEF AnyInv
  <1>1. ASSUME NEW t \in Tuple, ReadTuple(t) PROVE DSNext
    <2>1. find = "idle" /\ InsertElement(indexhasharray)
      BY <1>1 DEF ReadTuple, Entered
    <2>2. indexhasharray = num_elements
      BY <1>1, IndexFacts DEF ReadTuple, Merging
    <2> QED  BY <2>1, <2>2 DEF DSNext, Insert
  <1>2. CASE FindHit
    <2>1. PICK x \in hits : FindSet(x)
      BY <1>2 DEF FindHit
    <2>2. x \in Inserted
      BY <1>2, <2>1, IndexFacts DEF FindHit, Entered, Merging
    <2> QED  BY <2>1, <2>2 DEF DSNext, Find
  <1>3. CASE FindHitStep
    BY <1>3 DEF FindHitStep, DSNext
  <1>4. CASE UnionHit
    <2>1. newsetID \in Roots
      BY <1>4, IndexFacts DEF UnionHit, Entered, Merging, DSInv, Rooted
    <2> QED  BY <1>4, <2>1 DEF UnionHit, DSNext, Union
  <1>5. CASE SameSetHit
    BY <1>5 DEF SameSetHit, DSNext, NoUnion
  <1>6. CASE \/ SkipHit \/ FinishTuple \/ EndOfInput \/ IterateSkip \/ IterateRoot
             \/ IterateCollision \/ IterateEnd \/ DFSVisit \/ DFSReturn \/ DFSEnd
             \/ RetrieveEntry \/ RetrieveEnd \/ ReScan \/ ReadRefused \/ UNCHANGED vars
    BY <1>6 DEF SkipHit, FinishTuple, EndOfInput, IterateSkip, IterateRoot,
                IterateCollision, IterateEnd, DFSVisit, DFSReturn, DFSEnd,
                RetrieveEntry, RetrieveEnd, ReScan, ReScanSame, ReScanChanged,
                ReadRefused, InsertRefused, vars
  <1> QED  BY <1>1, <1>2, <1>3, <1>4, <1>5, <1>6 DEF Next, Step
-----------------------------------------------------------------------------
(* The bookkeeping of the R-tree, the hits and newsetID.                   *)
LEMMA EnteredStep ==
    ASSUME AnyInv, [Next]_vars, DSInv'
    PROVE  Entered'
  <1> USE DEF AnyInv
  <1>0. /\ num_elements \in Nat /\ num_elements <= Capacity + 1
        /\ Inserted \subseteq Node /\ NULL \notin Node
        /\ rtree \subseteq Inserted
        /\ Merging => Current \in Inserted /\ indexhasharray = Current
        /\ ~Merging => indexhasharray = num_elements /\ rtree = Inserted
    BY IndexFacts
  <1>1. ASSUME NEW t \in Tuple, ReadTuple(t) PROVE Entered'
    <2>1. /\ pc = "fill" /\ pc' = "merge" /\ rtree' = rtree /\ hits' \subseteq rtree
          /\ newsetID' = num_elements /\ num_elements' = num_elements + 1
          /\ class' = [class EXCEPT ![num_elements] = num_elements]
          /\ find' = find /\ num_elements <= Capacity
      BY <1>0, <1>1 DEF ReadTuple, InsertElement, findVars, Merging
    <2>2. class'[num_elements] = num_elements
      BY <1>0, <2>1, CapacityAssumption DEF TypeOK, DSTypeOK, Node
    <2>3. rtree = 0 .. num_elements - 1
      BY <1>0, <2>1 DEF Merging, Inserted
    <2> QED  BY <1>0, <2>1, <2>2, <2>3 DEF Entered, Merging, Current
  <1>2. CASE SkipHit
    BY <1>2 DEF SkipHit, Entered, Merging, Current, dsVars, findVars
  <1>3. CASE FindHit
    BY <1>3 DEF FindHit, FindSet, Entered, Merging, Current
  <1>4. CASE FindHitStep
    BY <1>4 DEF FindHitStep, FindStep, WalkUp, AtRoot, Compress, FindDone, execVars,
                Entered, Merging, Current
  <1>5. CASE UnionHit
    <2>1. /\ pc = "find" /\ pc' = "merge" /\ find' = "idle" /\ root # newsetID
          /\ UNCHANGED <<rtree, hits, num_elements>>
          /\ newsetID' = Winner(root, newsetID)
          /\ class' = [x \in Node |-> IF class[x] = Loser(root, newsetID)
                                      THEN Winner(root, newsetID) ELSE class[x]]
      BY <1>5 DEF UnionHit, FindReturn, unionSet
    <2>2. newsetID = class[Current] /\ Current \in Node
      BY <1>0, <2>1 DEF Entered, Merging
    <2>3. class'[Current] = Winner(root, newsetID)
      BY <2>1, <2>2 DEF Winner, Loser
    <2> QED  BY <2>1, <2>3 DEF Entered, Merging, Current
  <1>6. CASE SameSetHit
    BY <1>6 DEF SameSetHit, FindReturn, Entered, Merging, Current
  <1>7. CASE FinishTuple
    <2>1. /\ pc = "merge" /\ pc' = "fill" /\ rtree' = rtree \cup {Current}
          /\ UNCHANGED <<num_elements, find>>
      BY <1>0, <1>7 DEF FinishTuple, Merging, dsVars, findVars
    <2> QED  BY <1>0, <2>1 DEF Entered, Merging, Current
  <1>8. CASE \/ EndOfInput \/ IterateSkip \/ IterateRoot \/ IterateCollision
             \/ IterateEnd \/ DFSVisit \/ DFSReturn \/ DFSEnd \/ RetrieveEntry
             \/ RetrieveEnd \/ ReScan \/ ReadRefused
    <2>1. UNCHANGED <<rtree, num_elements, find>> /\ ~Merging /\ ~Merging'
      BY <1>8 DEF EndOfInput, IterateSkip, IterateRoot, IterateCollision, IterateEnd,
                  DFSVisit, DFSReturn, DFSEnd, RetrieveEntry, RetrieveEnd, ReScan,
                  ReScanSame, ReScanChanged, ReadRefused, InsertRefused, dsVars,
                  findVars, Merging
    <2> QED  BY <2>1 DEF Entered, Merging, Current
  <1>9. CASE UNCHANGED vars
    BY <1>9 DEF vars, dsVars, findVars, execVars, Entered, Merging, Current
  <1> QED  BY <1>1, <1>2, <1>3, <1>4, <1>5, <1>6, <1>7, <1>8, <1>9 DEF Next, Step
-----------------------------------------------------------------------------
Entry == [root : Node, agg : SUBSET (Node \X Node)]

(* The walk: its cursor is NULL or in the set of the last group.           *)
LEMMA WalkFacts ==
    ASSUME AnyInv, pc = "dfs"
    PROVE  /\ Len(groups) \in DOMAIN groups /\ DOMAIN groups = 1 .. Len(groups)
           /\ Len(stack) \in DOMAIN stack /\ DOMAIN stack = 1 .. Len(stack)
           /\ groups[Len(groups)].root \in Inserted
           /\ pivot1 \in Node
           /\ Top # NULL => /\ Top \in Inserted /\ Top \in Node
                            /\ class[Top] = groups[Len(groups)].root
  <1>1. groups \in Seq(Entry) /\ stack \in Seq(Node \cup {NULL})
    BY DEF AnyInv, TypeOK, Entry
  <1>2. groups # <<>> /\ stack # <<>> /\ iter < num_elements /\ iter \in Nat
    BY DEF AnyInv, GroupsInv, TypeOK
  <1>3. /\ Len(groups) \in DOMAIN groups /\ DOMAIN groups = 1 .. Len(groups)
    BY <1>1, <1>2
  <1>4. /\ Len(stack) \in DOMAIN stack /\ DOMAIN stack = 1 .. Len(stack)
    BY <1>1, <1>2
  <1>5. pivot1 \in Node /\ groups[Len(groups)].root \in Inserted
    BY <1>2, <1>3, IndexFacts DEF AnyInv, GroupsInv
  <1>6. Top # NULL => Top \in Inserted /\ class[Top] = groups[Len(groups)].root
    BY <1>4 DEF AnyInv, GroupsInv, Top
  <1> QED  BY <1>3, <1>4, <1>5, <1>6, IndexFacts DEF AnyInv

LEMMA TypeStep ==
    ASSUME AnyInv, [Next]_vars, DSInv'
    PROVE  TypeOK'
  <1>0. /\ num_elements \in Nat /\ num_elements <= Capacity + 1
        /\ Inserted \subseteq Node /\ NULL \notin Node
        /\ rtree \subseteq Inserted
        /\ Merging => Current \in Inserted /\ indexhasharray = Current
        /\ ~Merging => indexhasharray = num_elements /\ rtree = Inserted
    BY IndexFacts DEF AnyInv
  <1>d. DSTypeOK'
    BY DEF DSInv
  <1>t. TypeOK
    BY DEF AnyInv
  <1>1. ASSUME NEW t \in Tuple, ReadTuple(t) PROVE TypeOK'
    <2>1. /\ pc = "fill" /\ pc' = "merge" /\ hits' \subseteq rtree
          /\ data' = [data EXCEPT ![num_elements] = t]
          /\ newsetID' = num_elements /\ num_elements <= Capacity
          /\ visited' = visited \ {num_elements}
          /\ pivot1' \in {num_elements, pivot1}
          /\ UNCHANGED <<rtree, iter, stack, groups, scanned, rescans, base>>
      BY <1>0, <1>1 DEF ReadTuple, InsertElement, Merging
    <2>2. num_elements \in Node
      BY <1>0, <2>1, CapacityAssumption DEF Node
    <2> QED  BY <1>0, <1>d, <1>t, <2>1, <2>2 DEF TypeOK
  <1>2. CASE \/ SkipHit \/ FindHit \/ FindHitStep \/ SameSetHit \/ ReadRefused
             \/ UNCHANGED vars
    <2>1. /\ UNCHANGED <<data, rtree, newsetID, visited, pivot1, iter, stack, groups,
                         scanned, rescans, base>>
          /\ hits' \subseteq hits
          /\ pc' \in {pc, "merge", "find", "overrun"}
      BY <1>2 DEF SkipHit, FindHit, FindHitStep, SameSetHit, ReadRefused, execVars, vars
    <2> QED  BY <1>d, <1>t, <2>1 DEF TypeOK
  <1>3. CASE UnionHit
    <2>1. /\ UNCHANGED <<data, rtree, hits, visited, pivot1, iter, stack, groups,
                         scanned, rescans, base>>
          /\ newsetID' \in {root, newsetID} /\ pc' = "merge"
      BY <1>3 DEF UnionHit, Winner
    <2> QED  BY <1>d, <1>t, <2>1 DEF TypeOK, DSTypeOK
  <1>4. CASE FinishTuple
    <2>1. /\ UNCHANGED <<data, hits, visited, pivot1, iter, stack, groups, scanned,
                         rescans, base>>
          /\ rtree' = rtree \cup {Current} /\ Current \in Node
          /\ newsetID' = NULL /\ pc' = "fill"
      BY <1>0, <1>4 DEF FinishTuple, Merging
    <2> QED  BY <1>d, <1>t, <2>1 DEF TypeOK
  <1>5. CASE \/ EndOfInput \/ IterateSkip \/ IterateCollision \/ IterateEnd \/ RetrieveEntry
             \/ RetrieveEnd
    <2>1. /\ UNCHANGED <<data, rtree, hits, newsetID, visited, pivot1, stack, groups,
                         rescans, base>>
          /\ pc' \in {pc, "iterate", "retrieve", "done"}
          /\ iter' \in {0, iter} \/ (iter < num_elements /\ iter' = iter + 1)
          /\ \/ scanned' = {}
             \/ scanned' = scanned /\ pc' \in {pc, "iterate"}
             \/ scanned' = scanned /\ pc = "retrieve"
             \/ \E g \in DOMAIN groups : scanned' = scanned \cup {g} /\ pc' = pc
      BY <1>5 DEF EndOfInput, IterateSkip, IterateCollision, IterateEnd, RetrieveEntry,
                  RetrieveEnd
    <2>2. iter' \in 0 .. Capacity + 1
      BY <1>0, <1>t, <2>1, CapacityAssumption DEF TypeOK
    <2>3. DOMAIN groups \subseteq Nat
      <3>1. groups \in Seq(Entry)
        BY <1>t DEF TypeOK, Entry
      <3> QED  BY <3>1
    <2>4. /\ scanned' \subseteq Nat
          /\ pc' \in {"retrieve", "done"} => scanned' \subseteq DOMAIN groups'
      BY <1>t, <2>1, <2>3 DEF TypeOK
    <2> QED  BY <1>d, <1>t, <2>1, <2>2, <2>4 DEF TypeOK
  <1>6. CASE IterateRoot
    <2>1. /\ UNCHANGED <<data, rtree, hits, newsetID, visited, pivot1, iter, scanned,
                         rescans, base>>
          /\ pc' = "dfs" /\ stack' = <<iter>> /\ iter < num_elements
          /\ groups' = Append(groups, [root |-> iter, agg |-> {}])
      BY <1>6 DEF IterateRoot
    <2>2. iter \in Node
      BY <1>0, <1>t, <2>1, CapacityAssumption DEF TypeOK, Node
    <2>3. groups' \in Seq(Entry) /\ DOMAIN groups \subseteq DOMAIN groups'
      BY <1>t, <2>1, <2>2 DEF TypeOK, Entry
    <2>4. stack' \in Seq(Node \cup {NULL})
      BY <2>1, <2>2
    <2> QED  BY <1>d, <1>t, <2>1, <2>3, <2>4 DEF TypeOK, Entry
  <1>7. CASE DFSVisit
    <2>1. /\ UNCHANGED <<pc, data, rtree, hits, newsetID, pivot1, iter, scanned,
                         rescans, base>>
          /\ visited' = visited \cup {Top} /\ Top # NULL /\ pc = "dfs"
          /\ groups' = [groups EXCEPT ![Len(groups)].agg = @ \cup {<<Top, pivot1>>}]
          /\ stack' = Append(stack, childListHead[Top])
      BY <1>7 DEF DFSVisit
    <2>2. Top \in Node /\ pivot1 \in Node /\ Len(groups) \in DOMAIN groups
      BY <2>1, WalkFacts
    <2>3. groups' \in Seq(Entry) /\ DOMAIN groups' = DOMAIN groups
      <3>1. groups \in Seq(Entry)
        BY <1>t DEF TypeOK, Entry
      <3>2. [groups[Len(groups)] EXCEPT !.agg = @ \cup {<<Top, pivot1>>}] \in Entry
        <4>1. groups[Len(groups)] \in Entry /\ <<Top, pivot1>> \in Node \X Node
          BY <2>2, <3>1
        <4> QED  BY <4>1 DEF Entry
      <3>3. groups' = [groups EXCEPT ![Len(groups)] =
                          [groups[Len(groups)] EXCEPT !.agg = @ \cup {<<Top, pivot1>>}]]
        BY <2>1
      <3> QED  BY <2>2, <3>1, <3>2, <3>3
    <2>4. stack' \in Seq(Node \cup {NULL})
      BY <1>t, <2>1, <2>2 DEF TypeOK, DSTypeOK
    <2> QED  BY <1>d, <1>t, <2>1, <2>2, <2>3, <2>4 DEF TypeOK, Entry
  <1>8. CASE DFSReturn
    <2>1. /\ UNCHANGED <<pc, data, rtree, hits, newsetID, visited, pivot1, iter, groups,
                         scanned, rescans, base>>
          /\ stack' = [Pop EXCEPT ![Len(Pop)] = nextChild[@]]
          /\ pc = "dfs" /\ Len(stack) > 2
      BY <1>8 DEF DFSReturn
    <2>2. stack' \in Seq(Node \cup {NULL})
      <3>1. stack \in Seq(Node \cup {NULL})
        BY <1>t DEF TypeOK
      <3>2. /\ Pop \in Seq(Node \cup {NULL}) /\ Len(Pop) = Len(stack) - 1
            /\ \A i \in 1 .. Len(stack) - 1 : Pop[i] = stack[i]
        BY <2>1, <3>1 DEF Pop
      <3>3. Pop[Len(Pop)] \in Node
        BY <2>1, <3>1, <3>2 DEF AnyInv, GroupsInv
      <3>4. nextChild[Pop[Len(Pop)]] \in Node \cup {NULL}
        BY <1>t, <3>3 DEF TypeOK, DSTypeOK
      <3> QED  BY <2>1, <3>2, <3>4
    <2> QED  BY <1>d, <1>t, <2>1, <2>2 DEF TypeOK
  <1>9. CASE DFSEnd
    <2>1. /\ UNCHANGED <<data, rtree, hits, newsetID, visited, pivot1, groups, scanned,
                         rescans, base>>
          /\ stack' = <<>> /\ iter' = iter + 1 /\ pc' = "iterate" /\ pc = "dfs"
      BY <1>9 DEF DFSEnd
    <2>2. iter' \in 0 .. Capacity + 1
      BY <1>0, <1>t, <2>1, CapacityAssumption DEF TypeOK, AnyInv, GroupsInv
    <2> QED  BY <1>d, <1>t, <2>1, <2>2 DEF TypeOK
  <1>10. CASE ReScan
    <2>1. /\ UNCHANGED <<data, rtree, hits, newsetID, visited, pivot1, iter, stack>>
          /\ rescans < MaxReScan /\ rescans' = rescans + 1
          /\ \/ scanned' = {} /\ pc' = "retrieve"
             \/ scanned' = scanned /\ pc' = "fill"
          /\ groups' \in {groups, <<>>} /\ base' \in {base, num_elements}
      BY <1>10 DEF ReScan, ReScanSame, ReScanChanged
    <2>2. base' \in 0 .. Capacity + 1 /\ rescans' \in 0 .. MaxReScan
      BY <1>0, <1>t, <2>1, SGBAnyAssumption, CapacityAssumption DEF TypeOK
    <2>3. groups' \in Seq(Entry)
      <3>1. groups \in Seq(Entry) /\ <<>> \in Seq(Entry)
        BY <1>t DEF TypeOK, Entry
      <3> QED  BY <2>1, <3>1
    <2> QED  BY <1>d, <1>t, <2>1, <2>2, <2>3 DEF TypeOK, Entry
  <1> QED  BY <1>1, <1>2, <1>3, <1>4, <1>5, <1>6, <1>7, <1>8, <1>9, <1>10 DEF Next, Step
-----------------------------------------------------------------------------
(* The groups, the loop of IterateSets and the walk.                       *)
LEMMA GroupsStep ==
    ASSUME AnyInv, [Next]_vars, DSInv', TypeOK'
    PROVE  GroupsInv'
  <1>0. /\ num_elements \in Nat /\ num_elements <= Capacity + 1
        /\ Inserted \subseteq Node /\ NULL \notin Node
        /\ ~Merging => indexhasharray = num_elements
    BY IndexFacts DEF AnyInv
  <1>t. TypeOK /\ GroupsInv /\ DSInv
    BY DEF AnyInv
  <1>b. base \in Nat /\ base <= num_elements
    BY <1>t DEF TypeOK, GroupsInv
  <1>1. ASSUME NEW t \in Tuple, ReadTuple(t) PROVE GroupsInv'
    <2>1. /\ pc = "fill" /\ pc' = "merge" /\ num_elements <= Capacity
          /\ num_elements' = num_elements + 1
          /\ pivot1' = (IF num_elements = base THEN num_elements ELSE pivot1)
          /\ groups' = groups /\ base' = base
      BY <1>0, <1>1 DEF ReadTuple, InsertElement, Merging
    <2>2. num_elements \in Node
      BY <1>0, <2>1, CapacityAssumption DEF Node
    <2>3. pivot1' \in Node
      BY <1>0, <1>b, <1>t, <2>1, <2>2 DEF GroupsInv
    <2>4. groups' = <<>> /\ DOMAIN groups' = {}
      BY <1>t, <2>1 DEF GroupsInv, Filling
    <2> QED  BY <1>0, <1>b, <2>1, <2>3, <2>4 DEF GroupsInv
  <1>2. CASE \/ SkipHit \/ FindHit \/ FindHitStep \/ UnionHit \/ SameSetHit \/ FinishTuple
    <2>1. /\ Filling /\ pc' \in {"fill", "merge", "find"}
          /\ UNCHANGED <<pivot1, groups, base, num_elements>>
      BY <1>2 DEF SkipHit, FindHit, FindSet, FindHitStep, FindStep, WalkUp, AtRoot, Compress,
                  FindDone, UnionHit, unionSet, SameSetHit, FinishTuple, execVars, dsVars,
                  Filling
    <2>2. groups' = <<>> /\ DOMAIN groups' = {}
      BY <1>t, <2>1 DEF GroupsInv
    <2> QED  BY <1>t, <2>1, <2>2 DEF GroupsInv
  <1>3. CASE EndOfInput
    <2>1. /\ pc = "fill" /\ pc' = "iterate" /\ iter' = 0
          /\ UNCHANGED <<pivot1, groups, base, num_elements>>
      BY <1>3 DEF EndOfInput, dsVars
    <2>2. groups' = <<>> /\ DOMAIN groups' = {}
      BY <1>t, <2>1 DEF GroupsInv, Filling
    <2> QED  BY <1>t, <2>1, <2>2 DEF GroupsInv, Filling
  <1>4. CASE \/ IterateSkip \/ IterateCollision \/ IterateEnd \/ RetrieveEntry \/ RetrieveEnd
             \/ ReScanSame
    <2>1. /\ UNCHANGED <<pivot1, groups, base, num_elements, class>>
          /\ ~Filling /\ pc # "dfs"
          /\ ~Filling' /\ pc' # "dfs"
          /\ pc' = "iterate" => pc = "iterate" /\ iter' = iter + 1
      BY <1>4 DEF IterateSkip, IterateCollision, IterateEnd, RetrieveEntry, RetrieveEnd,
                  ReScanSame, dsVars, Filling
    <2>2. pc' = "iterate" => \A g \in DOMAIN groups' : groups'[g].root < iter'
      <3> SUFFICES ASSUME pc' = "iterate", NEW g \in DOMAIN groups
                   PROVE  groups[g].root < iter + 1
        BY <2>1
      <3>1. groups[g].root \in Inserted /\ groups[g].root < iter /\ iter \in Nat
        BY <1>t, <2>1 DEF GroupsInv, TypeOK
      <3> QED  BY <1>0, <3>1 DEF Inserted
    <2> QED  BY <1>t, <2>1, <2>2 DEF GroupsInv, Advanced, Inserted
  <1>5. CASE ReScanChanged
    <2>1. /\ groups' = <<>> /\ base' = num_elements /\ pc' = "fill"
          /\ UNCHANGED <<pivot1, num_elements>>
      BY <1>5 DEF ReScanChanged, dsVars
    <2>2. DOMAIN groups' = {}
      BY <2>1
    <2> QED  BY <1>0, <1>t, <2>1, <2>2 DEF GroupsInv
  <1>6. CASE IterateRoot
    <2>1. /\ pc = "iterate" /\ pc' = "dfs" /\ stack' = <<iter>> /\ iter < num_elements
          /\ parent[iter] = NULL
          /\ groups' = Append(groups, [root |-> iter, agg |-> {}])
          /\ UNCHANGED <<pivot1, base, num_elements, class, iter>>
      BY <1>6 DEF IterateRoot, dsVars
    <2>2. groups \in Seq(Entry) /\ iter \in Nat /\ iter \in Inserted /\ iter \in Node
      BY <1>0, <1>t, <2>1 DEF TypeOK, Entry, Inserted
    <2>3. class[iter] = iter
      BY <1>t, <2>1, <2>2 DEF DSInv, Rooted
    <2> DEFINE n == Len(groups)
    <2>4. /\ n \in Nat /\ DOMAIN groups = 1 .. n /\ DOMAIN groups' = 1 .. n + 1
          /\ Len(groups') = n + 1 /\ groups' # <<>>
          /\ \A g \in 1 .. n : groups'[g] = groups[g]
          /\ groups'[n + 1] = [root |-> iter, agg |-> {}]
      BY <2>1, <2>2
    <2> HIDE DEF n
    <2>5. groups'[n + 1].root = iter /\ groups'[n + 1].agg = {}
      BY <2>4
    <2>6. \A g \in 1 .. n : groups[g].root \in Inserted /\ groups[g].root < iter
      BY <1>t, <2>1, <2>4 DEF GroupsInv
    <2>7. \A g \in DOMAIN groups' : /\ groups'[g].root \in Inserted'
                                    /\ \A e \in Advanced(g)' : class'[e] = groups'[g].root
      <3> SUFFICES ASSUME NEW g \in 1 .. n + 1
                   PROVE  /\ groups'[g].root \in Inserted
                          /\ \A e \in Advanced(g)' : class[e] = groups'[g].root
        BY <2>1, <2>4 DEF Inserted
      <3>1. CASE g \in 1 .. n
        BY <1>t, <2>4, <2>6, <3>1 DEF GroupsInv, Advanced
      <3>2. CASE g = n + 1
        BY <2>2, <2>5, <3>2 DEF Advanced
      <3> QED  BY <2>4, <3>1, <3>2
    <2>8. \A g, h \in DOMAIN groups' : g < h => groups'[g].root < groups'[h].root
      <3> SUFFICES ASSUME NEW g \in 1 .. n + 1, NEW h \in 1 .. n + 1, g < h
                   PROVE  groups'[g].root < groups'[h].root
        BY <2>4
      <3>1. g \in 1 .. n /\ (h \in 1 .. n \/ h = n + 1)
        BY <2>4
      <3>2. CASE h \in 1 .. n
        BY <1>t, <2>4, <3>1, <3>2 DEF GroupsInv
      <3>3. CASE h = n + 1
        BY <2>4, <2>5, <2>6, <3>1, <3>3
      <3> QED  BY <3>1, <3>2, <3>3
    <2>9. \A g \in DOMAIN groups' : groups'[g].root <= iter'
      <3> SUFFICES ASSUME NEW g \in 1 .. n + 1 PROVE groups'[g].root <= iter
        BY <2>1, <2>4
      <3>1. CASE g \in 1 .. n
        BY <1>0, <2>2, <2>4, <2>6, <3>1 DEF Inserted
      <3>2. CASE g = n + 1
        BY <2>2, <2>5, <3>2
      <3> QED  BY <2>4, <3>1, <3>2
    <2>10. /\ stack' # <<>> /\ Len(stack') = 1 /\ DOMAIN stack' = {1} /\ stack'[1] = iter
      BY <2>1
    <2>11. groups'[Len(groups')].root = iter
      BY <2>4, <2>5
    <2>12. pivot1 \in Node
      BY <1>0, <1>t, <2>1, <2>2 DEF GroupsInv
    <2> QED  BY <1>b, <2>1, <2>2, <2>3, <2>4, <2>7, <2>8, <2>9, <2>10, <2>11, <2>12
             DEF GroupsInv, Filling, Inserted
  <1>7. CASE DFSVisit
    <2>1. /\ pc = "dfs" /\ pc' = pc /\ Top # NULL
          /\ groups' = [groups EXCEPT ![Len(groups)].agg = @ \cup {<<Top, pivot1>>}]
          /\ stack' = Append(stack, childListHead[Top])
          /\ UNCHANGED <<pivot1, base, num_elements, class, iter>>
      BY <1>7 DEF DFSVisit, dsVars
    <2>2. /\ Len(groups) \in DOMAIN groups /\ DOMAIN groups = 1 .. Len(groups)
          /\ Len(stack) \in DOMAIN stack /\ DOMAIN stack = 1 .. Len(stack)
          /\ Top \in Inserted /\ Top \in Node /\ class[Top] = groups[Len(groups)].root
      BY <2>1, WalkFacts
    <2>3. groups \in Seq(Entry) /\ stack \in Seq(Node \cup {NULL}) /\ Len(stack) \in Nat
      BY <1>t DEF TypeOK, Entry
    <2>4. /\ DOMAIN groups' = DOMAIN groups /\ Len(groups') = Len(groups) /\ groups' # <<>>
          /\ \A g \in DOMAIN groups : groups'[g].root = groups[g].root
          /\ \A g \in DOMAIN groups : g # Len(groups) => groups'[g].agg = groups[g].agg
          /\ groups'[Len(groups)].agg = groups[Len(groups)].agg \cup {<<Top, pivot1>>}
      BY <2>1, <2>2, <2>3 DEF Entry
    <2>5. /\ \A g \in DOMAIN groups : g # Len(groups) => Advanced(g)' = Advanced(g)
          /\ \A e : e \in {d[1] : d \in groups'[Len(groups)].agg}
                       => e \in Advanced(Len(groups)) \/ e = Top
      BY <2>4 DEF Advanced
    <2>6. \A g \in DOMAIN groups : \A e \in Advanced(g)' : class[e] = groups[g].root
      <3> SUFFICES ASSUME NEW g \in DOMAIN groups, NEW e \in Advanced(g)'
                   PROVE  class[e] = groups[g].root
        OBVIOUS
      <3>1. CASE g # Len(groups)
        BY <1>t, <2>5, <3>1 DEF GroupsInv
      <3>2. CASE g = Len(groups)
        <4>1. e \in {d[1] : d \in groups'[Len(groups)].agg}
          BY <3>2 DEF Advanced
        <4> QED  BY <1>t, <2>2, <2>5, <3>2, <4>1 DEF GroupsInv
      <3> QED  BY <3>1, <3>2
    <2>7. /\ Len(stack') = Len(stack) + 1 /\ DOMAIN stack' = 1 .. Len(stack) + 1
          /\ \A i \in 1 .. Len(stack) : stack'[i] = stack[i]
          /\ stack'[Len(stack) + 1] = childListHead[Top] /\ stack' # <<>>
      <3>1. childListHead[Top] \in Node \cup {NULL}
        BY <1>t, <2>2 DEF TypeOK, DSTypeOK
      <3> QED  BY <2>1, <2>3, <3>1
    <2>8. \A i \in 1 .. Len(stack') - 1 : stack'[i] # NULL
      <3> SUFFICES ASSUME NEW i \in 1 .. Len(stack) PROVE stack[i] # NULL
        BY <2>3, <2>7
      <3>1. CASE i \in 1 .. Len(stack) - 1
        BY <1>t, <2>1, <3>1 DEF GroupsInv
      <3>2. CASE i = Len(stack)
        BY <2>1, <3>2 DEF Top
      <3> QED  BY <2>3, <3>1, <3>2
    <2>9. \A i \in DOMAIN stack' :
             stack'[i] # NULL => /\ stack'[i] \in Inserted
                                 /\ class[stack'[i]] = groups[Len(groups)].root
      <3> SUFFICES ASSUME NEW i \in 1 .. Len(stack) + 1, stack'[i] # NULL
                   PROVE  /\ stack'[i] \in Inserted
                          /\ class[stack'[i]] = groups[Len(groups)].root
        BY <2>7
      <3>1. CASE i \in 1 .. Len(stack)
        BY <1>t, <2>1, <2>2, <2>7, <3>1 DEF GroupsInv
      <3>2. CASE i = Len(stack) + 1
        BY <1>t, <2>2, <2>7, <3>2 DEF DSInv, ListsStayInClass
      <3> QED  BY <2>3, <3>1, <3>2
    <2>10. /\ \A g \in DOMAIN groups : groups[g].root \in Inserted /\ groups[g].root <= iter
           /\ \A g, h \in DOMAIN groups : g < h => groups[g].root < groups[h].root
           /\ iter < num_elements /\ (num_elements > 0 => pivot1 \in Node)
      BY <1>t, <2>1 DEF GroupsInv
    <2> QED  BY <1>b, <2>1, <2>2, <2>4, <2>6, <2>7, <2>8, <2>9, <2>10
             DEF GroupsInv, Filling, Inserted
  <1>8. CASE DFSReturn
    <2>1. /\ pc = "dfs" /\ pc' = pc /\ Len(stack) > 2
          /\ stack' = [Pop EXCEPT ![Len(Pop)] = nextChild[@]]
          /\ UNCHANGED <<groups, pivot1, base, num_elements, class, iter>>
      BY <1>8 DEF DFSReturn, dsVars
    <2>2. stack \in Seq(Node \cup {NULL}) /\ DOMAIN stack = 1 .. Len(stack) /\ Len(stack) \in Nat
      BY <1>t DEF TypeOK
    <2> DEFINE n == Len(stack) - 1
    <2>3. /\ n \in Nat /\ n > 1 /\ Len(Pop) = n /\ DOMAIN Pop = 1 .. n
          /\ Pop \in Seq(Node \cup {NULL})
          /\ \A i \in 1 .. n : Pop[i] = stack[i]
      BY <2>1, <2>2 DEF Pop
    <2>4. /\ \A i \in 1 .. n : stack[i] # NULL /\ stack[i] \in Inserted
                               /\ class[stack[i]] = groups[Len(groups)].root
      <3>1. \A i \in 1 .. n : i \in 1 .. Len(stack) - 1 /\ i \in DOMAIN stack
        BY <2>2
      <3> HIDE DEF n
      <3> QED  BY <1>t, <2>1, <3>1 DEF GroupsInv
    <2> HIDE DEF n
    <2>5. /\ Len(stack') = n /\ DOMAIN stack' = 1 .. n /\ stack' # <<>>
          /\ \A i \in 1 .. n - 1 : stack'[i] = stack[i]
          /\ stack'[n] = nextChild[stack[n]]
      <3>1. /\ DOMAIN stack' = 1 .. n /\ stack'[n] = nextChild[stack[n]]
            /\ \A i \in 1 .. n - 1 : stack'[i] = stack[i]
        BY <2>1, <2>3
      <3>2. stack' \in Seq(Node \cup {NULL})
        BY DEF TypeOK
      <3> QED  BY <2>3, <3>1, <3>2
    <2>6. nextChild[stack[n]] # NULL => /\ nextChild[stack[n]] \in Inserted
                                        /\ class[nextChild[stack[n]]] = groups[Len(groups)].root
      BY <1>t, <2>3, <2>4 DEF DSInv, ListsStayInClass
    <2>7. \A i \in 1 .. Len(stack') - 1 : stack'[i] # NULL
      BY <2>3, <2>4, <2>5
    <2>8. \A i \in DOMAIN stack' :
             stack'[i] # NULL => /\ stack'[i] \in Inserted
                                 /\ class[stack'[i]] = groups[Len(groups)].root
      <3> SUFFICES ASSUME NEW i \in 1 .. n, stack'[i] # NULL
                   PROVE  /\ stack'[i] \in Inserted
                          /\ class[stack'[i]] = groups[Len(groups)].root
        BY <2>5
      <3>1. CASE i \in 1 .. n - 1
        BY <2>3, <2>4, <2>5, <3>1
      <3>2. CASE i = n
        BY <2>5, <2>6, <3>2
      <3> QED  BY <2>3, <3>1, <3>2
    <2> QED  BY <1>t, <2>1, <2>5, <2>7, <2>8 DEF GroupsInv, Filling, Inserted, Advanced
  <1>9. CASE DFSEnd
    <2>1. /\ pc = "dfs" /\ pc' = "iterate" /\ iter' = iter + 1
          /\ UNCHANGED <<groups, pivot1, base, num_elements, class>>
      BY <1>9 DEF DFSEnd, dsVars
    <2>2. \A g \in DOMAIN groups : groups[g].root < iter + 1
      <3> SUFFICES ASSUME NEW g \in DOMAIN groups PROVE groups[g].root < iter + 1
        OBVIOUS
      <3>1. groups[g].root \in Inserted /\ groups[g].root <= iter /\ iter \in Nat
        BY <1>t, <2>1 DEF GroupsInv, TypeOK
      <3> QED  BY <1>0, <3>1 DEF Inserted
    <2> QED  BY <1>t, <2>1, <2>2 DEF GroupsInv, Filling, Inserted, Advanced
  <1>10. CASE ReadRefused
    <2>1. /\ pc = "fill" /\ pc' = "overrun"
          /\ UNCHANGED <<pivot1, groups, base, num_elements>>
      BY <1>10 DEF ReadRefused, InsertRefused, dsVars
    <2>2. groups' = <<>> /\ DOMAIN groups' = {}
      BY <1>t, <2>1 DEF GroupsInv, Filling
    <2> QED  BY <1>t, <2>1, <2>2 DEF GroupsInv, Filling
  <1>11. CASE UNCHANGED vars
    BY <1>t, <1>11 DEF vars, dsVars, execVars, GroupsInv, Filling, Inserted, Advanced
  <1> QED  BY <1>1, <1>2, <1>3, <1>4, <1>5, <1>6, <1>7, <1>8, <1>9, <1>10, <1>11
           DEF Next, Step, ReScan
-----------------------------------------------------------------------------
LEMMA AnyInvInit == Init => AnyInv
  <1> SUFFICES ASSUME Init PROVE AnyInv
    OBVIOUS
  <1>1. DSInv
    BY DSInvInit DEF Init
  <1>2. num_elements = 0 /\ find = "idle"
    BY DEF Init, DSInit
  <1>3. groups = <<>> /\ DOMAIN groups = {} /\ groups \in Seq(Entry)
    BY DEF Init
  <1>4. TypeOK
    BY <1>1, <1>3, CapacityAssumption, SGBAnyAssumption
       DEF Init, TypeOK, DSInv, Entry
  <1>5. Entered
    BY <1>2 DEF Init, Entered, Merging, Current
  <1>6. GroupsInv
    BY <1>2, <1>3 DEF Init, GroupsInv, Filling
  <1> QED  BY <1>1, <1>4, <1>5, <1>6 DEF AnyInv

LEMMA AnyInvStep == AnyInv /\ [Next]_vars => AnyInv'
  <1> SUFFICES ASSUME AnyInv, [Next]_vars PROVE AnyInv'
    OBVIOUS
  <1>1. DSInv'
    BY DSStep, DSInvStep DEF AnyInv
  <1> QED  BY <1>1, EnteredStep, TypeStep, GroupsStep DEF AnyInv

LEMMA AnyInvariance == Spec => []AnyInv
  BY AnyInvInit, AnyInvStep, PTL DEF Spec

(* Fields and locals keep their types: every index is of an element that   *)
(* InsertElement admits, the one behind m_nodes included, as long as none  *)
(* was refused; the cursor of the walk is NULL or an element, pivot1Slot   *)
(* is set whenever a group is aggregated, and the hash iterator, stale     *)
(* after a rescan, is of the current table whenever an entry is fetched.   *)
THEOREM AnyTypeCorrect == Spec => []TypeOK
  BY AnyInvariance, PTL DEF AnyInv

(* The operator uses the disjoint sets within their contract: in every     *)
(* step they take a step of their own specification, so everything proved  *)
(* of that specification holds inside the operator.                        *)
THEOREM UsesDisjointSets == Spec => DSSpec
  <1>1. Init => DSInit
    BY DEF Init
  <1>2. AnyInv /\ [Next]_vars => [DSNext]_dsVars
    BY DSStep
  <1> QED  BY <1>1, <1>2, AnyInvariance, PTL DEF Spec, DSSpec

(* While the hits are processed newsetID is the root of the set of the     *)
(* current tuple, although the operator never looks it up again.           *)
THEOREM NewSetTheorem == Spec => []NewSetIsRoot
  <1>1. AnyInv => NewSetIsRoot
    <2> SUFFICES ASSUME AnyInv, Merging
                 PROVE  newsetID = class[indexhasharray] /\ parent[newsetID] = NULL
      BY DEF NewSetIsRoot, Merging
    <2>1. Current \in Inserted /\ indexhasharray = Current /\ newsetID = class[Current]
      BY IndexFacts DEF AnyInv, Entered
    <2> QED  BY <2>1 DEF AnyInv, DSInv, Rooted, Roots
  <1> QED  BY <1>1, AnyInvariance, PTL

(* The walk aggregates into a group only members of the set it was started *)
(* for, and no tuple into two groups, whatever the order in which          *)
(* compression has tangled the child lists.                                *)
THEOREM GroupsTheorem == Spec => []GroupsDisjointAndSound
  <1>1. AnyInv => GroupsDisjointAndSound
    <2> SUFFICES ASSUME AnyInv, NEW g \in DOMAIN groups
                 PROVE  /\ \A e \in Advanced(g) : class[e] = groups[g].root
                        /\ \A h \in DOMAIN groups : g # h => Advanced(g) \cap Advanced(h) = {}
      BY DEF GroupsDisjointAndSound
    <2>1. groups \in Seq(Entry) /\ num_elements \in Nat
      BY IndexFacts DEF AnyInv, TypeOK, Entry
    <2>2. /\ \A h \in DOMAIN groups : /\ groups[h].root \in Int
                                      /\ \A e \in Advanced(h) : class[e] = groups[h].root
          /\ \A h, k \in DOMAIN groups : h < k => groups[h].root < groups[k].root
      BY <2>1 DEF AnyInv, GroupsInv, Inserted
    <2>3. \A h \in DOMAIN groups : g # h => groups[g].root # groups[h].root
      <3> SUFFICES ASSUME NEW h \in DOMAIN groups, g # h
                   PROVE  groups[g].root # groups[h].root
        OBVIOUS
      <3>1. g \in Nat /\ h \in Nat
        BY <2>1
      <3>2. CASE g < h
        BY <2>2, <3>2
      <3>3. CASE h < g
        BY <2>2, <3>3
      <3> QED  BY <3>1, <3>2, <3>3
    <2> QED  BY <2>2, <2>3
  <1> QED  BY <1>1, AnyInvariance, PTL
-----------------------------------------------------------------------------
(* The groups of the query are the connected components of the neighbour   *)
(* graph, when the query groups by two columns (with one the rectangles    *)
(* are malformed) and the R-tree never outgrows its first leaf (a taller   *)
(* one does not return every hit). CompInv is what that rests on: elements *)
(* of the R-tree that are neighbours are in one class; an element near the *)
(* current tuple is still to be processed or already in its class; and a   *)
(* set of elements that holds the neighbours of its members holds their    *)
(* classes (ClosedSets), which says that nothing is joined without a       *)
(* chain.                                                                  *)
OneLeaf == numCols = 2 /\ Capacity <= MAXCARD

InTree == \A x, y \in rtree : Near(data[x], data[y]) => class[x] = class[y]

InBox(x) == \A i \in Cols : Abs(data[x][i] - data[Current][i]) <= EPS

ForCurrent ==
    Merging =>
        /\ \A x \in hits : InBox(x)
        /\ \A x \in rtree : Near(data[x], data[Current]) =>
                               \/ x \in hits
                               \/ class[x] = class[Current]
                               \/ pc = "find" /\ x = tupleid1
        /\ pc = "find" => tupleid1 \in rtree /\ Near(data[tupleid1], data[Current])

Closed(P) == \A y \in P, z \in Inserted : Near(data[y], data[z]) => z \in P

ClosedSets ==
    \A P \in SUBSET Inserted :
        Closed(P) => \A y \in P, z \in Inserted : class[y] = class[z] => z \in P

CompInv == InTree /\ ForCurrent /\ ClosedSets

LEMMA NearSymmetric ==
    ASSUME OneLeaf, NEW p \in [Cols -> Int], NEW q \in [Cols -> Int], Near(p, q)
    PROVE  Near(q, p)
  <1>1. Cols = {1, 2} /\ EPS \in Nat
    BY SGBAnyAssumption DEF OneLeaf, Cols
  <1>2. p[1] \in Int /\ p[2] \in Int /\ q[1] \in Int /\ q[2] \in Int
    BY <1>1
  <1>3. \A i \in Cols : Abs(q[i] - p[i]) <= EPS
    BY <1>1, <1>2 DEF Near, Abs
  <1>4. /\ (p[1] - q[1]) * (p[1] - q[1]) = (q[1] - p[1]) * (q[1] - p[1])
        /\ (p[2] - q[2]) * (p[2] - q[2]) = (q[2] - p[2]) * (q[2] - p[2])
    BY <1>2
  <1>5. TooFarL2(q, p) <=> TooFarL2(p, q)
    BY <1>4 DEF TooFarL2, SquareDist
  <1> QED  BY <1>3, <1>5 DEF Near

(* The search rectangle of a tuple contains what is within EPS of it.      *)
LEMMA ContainedIff ==
    ASSUME OneLeaf, NEW p \in [Cols -> Int], NEW q \in [Cols -> Int]
    PROVE  RTreeContained(getMBRinputSlot(p), getMBRinputSlotBigger(q, EPS))
              <=> \A i \in Cols : Abs(p[i] - q[i]) <= EPS
  <1>1. Cols = {1, 2} /\ EPS \in Nat /\ Dims = {1, 2} /\ DIMS_NUMB = 2 /\ numCols = 2
    BY SGBAnyAssumption DEF OneLeaf, Cols, Dims, DIMS_NUMB
  <1>2. p[1] \in Int /\ p[2] \in Int /\ q[1] \in Int /\ q[2] \in Int
    BY <1>1
  <1>3. getMBRinputSlot(p) = <<p[1], p[2], p[1], p[2]>>
    BY <1>1 DEF getMBRinputSlot, RectOf
  <1>4. getMBRinputSlotBigger(q, EPS) = <<q[1] - EPS, q[2] - EPS, q[1] + EPS, q[2] + EPS>>
    BY <1>1 DEF getMBRinputSlotBigger, RectOf
  <1>5. RTreeContained(getMBRinputSlot(p), getMBRinputSlotBigger(q, EPS))
           <=> /\ p[1] >= q[1] - EPS /\ p[1] <= q[1] + EPS
               /\ p[2] >= q[2] - EPS /\ p[2] <= q[2] + EPS
    BY <1>1, <1>2, <1>3, <1>4 DEF RTreeContained, INVALID_RECT
  <1>6. (\A i \in Cols : Abs(p[i] - q[i]) <= EPS)
           <=> /\ p[1] >= q[1] - EPS /\ p[1] <= q[1] + EPS
               /\ p[2] >= q[2] - EPS /\ p[2] <= q[2] + EPS
    BY <1>1, <1>2 DEF Abs
  <1> QED  BY <1>5, <1>6

LEMMA DataFacts ==
    ASSUME TypeOK
    PROVE  \A x \in Node : data[x] \in [Cols -> Int]
  <1>1. Zeroes \in [Cols -> Int] /\ Tuple \subseteq [Cols -> Int]
    BY SGBAnyAssumption DEF Zeroes
  <1> QED  BY <1>1 DEF TypeOK

LEMMA CompReadTuple ==
    ASSUME OneLeaf, AnyInv, AnyInv', CompInv, NEW t \in Tuple, ReadTuple(t)
    PROVE  CompInv'
  <1>0. PICK n \in Node : n = num_elements
    <2>1. num_elements \in Nat /\ num_elements <= Capacity
      BY IndexFacts DEF AnyInv, ReadTuple, InsertElement, Merging
    <2> QED  BY <2>1, CapacityAssumption DEF Node
  <1>1. /\ indexhasharray = n /\ rtree = Inserted /\ Inserted \subseteq Node /\ n \notin Inserted
        /\ n \in Nat /\ n <= Capacity
    BY <1>0, IndexFacts DEF AnyInv, ReadTuple, Merging, Inserted, Node
  <1>2. /\ pc' = "merge" /\ rtree' = rtree
        /\ data' = [data EXCEPT ![n] = t]
        /\ class' = [class EXCEPT ![n] = n]
        /\ num_elements' = n + 1
        /\ RTreeSearch_Contain(t, hits')
    BY <1>0, <1>1 DEF ReadTuple, InsertElement
  <1>3. Inserted' = Inserted \cup {n} /\ Current' = n
    BY <1>0, <1>1, <1>2 DEF Inserted, Current
  <1>4. hits' = Contained(t)
    <2>1. Cardinality(rtree) <= MAXCARD
      BY <1>1, CapacityAssumption, SGBAnyAssumption DEF OneLeaf, indexhasharray
    <2> QED  BY <1>2, <2>1 DEF RTreeSearch_Contain
  <1>5. /\ \A x \in Inserted : data'[x] = data[x] /\ class'[x] = class[x] /\ x # n
        /\ data'[n] = t /\ class'[n] = n
    <2>1. class \in [Node -> Node] /\ DOMAIN data = Node
      BY DEF AnyInv, TypeOK, DSTypeOK
    <2> QED  BY <1>1, <1>2, <2>1
  <1>6. t \in [Cols -> Int] /\ \A x \in Inserted : data[x] \in [Cols -> Int]
    BY <1>1, DataFacts, SGBAnyAssumption DEF AnyInv
  <1>7. \A x \in Inserted : x \in hits' <=> \A i \in Cols : Abs(data[x][i] - t[i]) <= EPS
    BY <1>1, <1>4, <1>6, ContainedIff DEF Contained
  <1>8. InTree'
    BY <1>1, <1>2, <1>5 DEF CompInv, InTree, Near, TooFarL2
  <1>9. ForCurrent'
    <2>1. \A x \in hits' : x \in Inserted
      BY <1>1, <1>4 DEF Contained
    <2>2. \A x \in hits' : InBox(x)'
      BY <1>3, <1>5, <1>7, <2>1 DEF InBox
    <2>3. \A x \in rtree' : Near(data'[x], data'[n]) => x \in hits'
      BY <1>1, <1>2, <1>5, <1>7 DEF Near
    <2> QED  BY <1>2, <1>3, <2>2, <2>3 DEF ForCurrent, Near, TooFarL2
  <1>10. ClosedSets'
    <2> SUFFICES ASSUME NEW P \in SUBSET (Inserted'),
                        \A y \in P, z \in Inserted' : Near(data'[y], data'[z]) => z \in P,
                        NEW y \in P, NEW z \in Inserted', class'[y] = class'[z]
                 PROVE  z \in P
      BY DEF ClosedSets, Closed, Near, TooFarL2
    <2> DEFINE Q == P \cap Inserted
    <2>1. \A u \in Q, v \in Inserted : Near(data[u], data[v]) => v \in Q
      BY <1>3, <1>5
    <2>2. Closed(Q) /\ Q \in SUBSET Inserted
      BY <2>1 DEF Closed
    <2>3. \A u \in Q, v \in Inserted : class[u] = class[v] => v \in Q
      BY <2>2 DEF CompInv, ClosedSets
    <2>4. \A u \in Inserted : class[u] \in Inserted
      BY DEF AnyInv, DSInv, Rooted, Roots
    <2>5. CASE y = n \/ z = n
      <3>1. y = n /\ z = n
        BY <1>1, <1>3, <1>5, <2>4, <2>5
      <3> QED  BY <3>1
    <2>6. CASE y \in Inserted /\ z \in Inserted
      BY <1>5, <2>3, <2>6
    <2> QED  BY <1>3, <2>5, <2>6
  <1> QED  BY <1>8, <1>9, <1>10 DEF CompInv

(* The steps that process the hits.                                        *)
LEMMA CompHits ==
    ASSUME OneLeaf, AnyInv, CompInv, SkipHit \/ FindHit \/ FindHitStep
    PROVE  CompInv'
  <1>0. Merging /\ indexhasharray = Current
    BY IndexFacts DEF AnyInv, SkipHit, FindHit, FindHitStep, Merging
  <1>1. UNCHANGED <<rtree, data, class, num_elements>>
    BY DEF SkipHit, FindHit, FindSet, FindHitStep, FindStep, WalkUp, AtRoot, Compress,
           FindDone, dsVars, execVars
  <1>2. InTree' /\ ClosedSets'
    <2>1. \A x, y : Near(data[x], data[y])' <=> Near(data[x], data[y])
      BY <1>1 DEF Near, TooFarL2
    <2>2. Inserted' = Inserted
      BY <1>1 DEF Inserted
    <2>3. InTree'
      BY <1>1, <2>1 DEF CompInv, InTree
    <2>4. \A P : Closed(P)' <=> Closed(P)
      BY <2>1, <2>2 DEF Closed
    <2>5. ClosedSets'
      BY <1>1, <2>2, <2>4 DEF CompInv, ClosedSets
    <2> QED  BY <2>3, <2>5
  <1>3. Current' = Current
    BY <1>1 DEF Current
  <1>c. \A x : InBox(x)' <=> InBox(x)
    BY <1>1, <1>3 DEF InBox
  <1>n. \A x : Near(data[x], data[Current])' <=> Near(data[x], data[Current])
    BY <1>1, <1>3 DEF Near, TooFarL2
  <1>4. ForCurrent'
    <2>f. ForCurrent
      BY DEF CompInv
    <2>1. CASE SkipHit
      <3>1. PICK x \in hits : Rejected(x) /\ hits' = hits \ {x} /\ pc' = pc /\ pc = "merge"
        BY <2>1 DEF SkipHit
      <3>2. ~Near(data[x], data[Current])
        BY <1>0, <3>1 DEF Rejected, Near
      <3> QED  BY <1>0, <1>1, <1>3, <1>c, <1>n, <2>f, <3>1, <3>2 DEF ForCurrent, Merging
    <2>2. CASE FindHit
      <3>1. PICK x \in hits : /\ ~Rejected(x) /\ hits' = hits \ {x} /\ pc = "merge"
                              /\ pc' = "find" /\ tupleid1' = x
        BY <2>2 DEF FindHit, FindSet
      <3>2. Near(data[x], data[Current]) /\ x \in rtree
        BY <1>0, <2>f, <3>1 DEF Rejected, Near, ForCurrent, InBox, AnyInv, Entered
      <3> QED  BY <1>0, <1>1, <1>3, <1>c, <1>n, <2>f, <3>1, <3>2 DEF ForCurrent, Merging
    <2>3. CASE FindHitStep
      <3>1. UNCHANGED <<hits, pc, tupleid1>>
        BY <2>3 DEF FindHitStep, execVars, FindStep, WalkUp, AtRoot, Compress, FindDone
      <3> QED  BY <1>0, <1>1, <1>3, <1>c, <1>n, <2>f, <3>1 DEF ForCurrent, Merging
    <2> QED  BY <2>1, <2>2, <2>3
  <1> QED  BY <1>2, <1>4 DEF CompInv

(* The root found is the class of the hit, which is a neighbour of the     *)
(* current tuple: fusing the two classes joins nothing without a chain.    *)
LEMMA CompUnion ==
    ASSUME OneLeaf, AnyInv, CompInv, UnionHit \/ SameSetHit
    PROVE  CompInv'
  <1> DEFINE c == Current
             h == tupleid1
  <1>1. /\ pc = "find" /\ pc' = "merge" /\ find = "return"
        /\ UNCHANGED <<rtree, data, hits, num_elements>>
    BY DEF UnionHit, SameSetHit, FindReturn, unionSet
  <1>2. /\ Merging /\ c \in Inserted /\ Inserted \subseteq Node /\ rtree \subseteq Inserted
    BY <1>1, IndexFacts DEF AnyInv, Merging
  <1>3. newsetID = class[c] /\ root = class[h] /\ h \in Inserted
    BY <1>1, <1>2 DEF AnyInv, Entered, DSInv, FindSound
  <1>4. /\ h \in rtree /\ Near(data[h], data[c])
    BY <1>1, <1>2 DEF CompInv, ForCurrent
  <1>5. Current' = Current /\ Inserted' = Inserted
    BY <1>1 DEF Current, Inserted
  <1>6. /\ class'[h] = class'[c]
        /\ \A x, y \in Inserted : class[x] = class[y] => class'[x] = class'[y]
        /\ \A x, y \in Inserted : class'[x] = class'[y] =>
              \/ class[x] = class[y]
              \/ class[x] = class[h] /\ class[y] = class[c]
              \/ class[x] = class[c] /\ class[y] = class[h]
    <2>1. CASE UnionHit
      <3>1. class' = [x \in Node |-> IF class[x] = Loser(root, newsetID)
                                     THEN Winner(root, newsetID) ELSE class[x]]
        BY <2>1 DEF UnionHit, unionSet
      <3> DEFINE w == Winner(root, newsetID)
                 l == Loser(root, newsetID)
      <3>2. (w = root /\ l = newsetID) \/ (w = newsetID /\ l = root)
        BY DEF Winner, Loser
      <3>3. \A x \in Inserted : class'[x] = IF class[x] = l THEN w ELSE class[x]
        BY <1>2, <3>1
      <3> HIDE DEF w, l, c, h
      <3> QED  BY <1>2, <1>3, <3>2, <3>3
    <2>2. CASE SameSetHit
      BY <1>3, <2>2 DEF SameSetHit
    <2> QED  BY <2>1, <2>2
  <1> HIDE DEF c, h
  <1>7. InTree'
    BY <1>1, <1>2, <1>6 DEF CompInv, InTree, Near, TooFarL2
  <1>8. ForCurrent'
    <2>1. ForCurrent /\ c' = c
      BY <1>5 DEF CompInv, c
    <2>2. \A x \in hits' : InBox(x)'
      BY <1>1, <1>2, <1>5, <2>1 DEF ForCurrent, InBox
    <2>3. \A x \in rtree : Near(data[x], data[c]) => x \in hits \/ class'[x] = class'[c]
      <3> SUFFICES ASSUME NEW x \in rtree, Near(data[x], data[c]), x \notin hits
                   PROVE  class'[x] = class'[c]
        OBVIOUS
      <3>1. class[x] = class[c] \/ x = h
        BY <1>2, <2>1 DEF ForCurrent, c, h
      <3> QED  BY <1>2, <1>6, <3>1
    <2> QED  BY <1>1, <2>1, <2>2, <2>3 DEF ForCurrent, Near, TooFarL2, c
  <1>9. ClosedSets'
    <2> SUFFICES ASSUME NEW P \in SUBSET Inserted, Closed(P),
                        NEW y \in P, NEW z \in Inserted, class'[y] = class'[z]
                 PROVE  z \in P
      BY <1>1, <1>5 DEF ClosedSets, Closed, Near, TooFarL2
    <2>1. \A u \in P, v \in Inserted : class[u] = class[v] => v \in P
      BY DEF CompInv, ClosedSets
    <2>2. Near(data[c], data[h])
      <3>1. data[c] \in [Cols -> Int] /\ data[h] \in [Cols -> Int]
        BY <1>2, <1>3, DataFacts DEF AnyInv
      <3> QED  BY <1>4, <3>1, NearSymmetric
    <2>3. h \in P <=> c \in P
      BY <1>2, <1>3, <1>4, <2>2 DEF Closed
    <2> QED  BY <1>2, <1>3, <1>6, <2>1, <2>3
  <1> QED  BY <1>7, <1>8, <1>9 DEF CompInv

(* The remaining steps: the current tuple enters the tree, or nothing that *)
(* CompInv speaks of changes.                                              *)
LEMMA CompOthers ==
    ASSUME OneLeaf, AnyInv, CompInv,
           \/ FinishTuple \/ EndOfInput \/ IterateSkip \/ IterateRoot \/ IterateCollision
           \/ IterateEnd \/ DFSVisit \/ DFSReturn \/ DFSEnd \/ RetrieveEntry \/ RetrieveEnd
           \/ ReScan \/ ReadRefused \/ UNCHANGED vars
    PROVE  CompInv'
  <1>1. UNCHANGED <<data, class, num_elements, tupleid1>>
    BY DEF FinishTuple, EndOfInput, IterateSkip, IterateRoot, IterateCollision, IterateEnd,
           DFSVisit, DFSReturn, DFSEnd, RetrieveEntry, RetrieveEnd, ReScan, ReScanSame,
           ReScanChanged, ReadRefused, InsertRefused, vars, dsVars, findVars, execVars
  <1>2. ClosedSets'
    BY <1>1 DEF CompInv, ClosedSets, Closed, Inserted, Near, TooFarL2
  <1>3. CASE FinishTuple
    <2> DEFINE c == Current
    <2>1. /\ pc = "merge" /\ hits = {} /\ pc' = "fill" /\ rtree' = rtree \cup {c}
          /\ c \in Node /\ rtree \subseteq Node
      BY <1>3, IndexFacts DEF FinishTuple, AnyInv, Merging
    <2>2. \A x \in rtree : Near(data[x], data[c]) => class[x] = class[c]
      BY <2>1 DEF CompInv, ForCurrent, Merging
    <2> HIDE DEF c
    <2>3. \A x \in rtree : Near(data[c], data[x]) => class[x] = class[c]
      BY <2>1, <2>2, NearSymmetric, DataFacts DEF AnyInv
    <2>4. InTree'
      <3> SUFFICES ASSUME NEW x \in rtree \cup {c}, NEW y \in rtree \cup {c},
                          Near(data[x], data[y])
                   PROVE  class[x] = class[y]
        BY <1>1, <2>1 DEF InTree, Near, TooFarL2
      <3> QED  BY <2>2, <2>3 DEF CompInv, InTree
    <2> QED  BY <1>2, <2>1, <2>4 DEF CompInv, ForCurrent, Merging
  <1>4. CASE UNCHANGED vars
    BY <1>2, <1>4 DEF vars, dsVars, findVars, execVars, CompInv, InTree, ForCurrent, Merging,
                      Current, InBox, Near, TooFarL2
  <1>5. CASE \/ EndOfInput \/ IterateSkip \/ IterateRoot \/ IterateCollision
             \/ IterateEnd \/ DFSVisit \/ DFSReturn \/ DFSEnd \/ RetrieveEntry \/ RetrieveEnd
             \/ ReScan \/ ReadRefused
    <2>1. rtree' = rtree /\ ~Merging'
      BY <1>5 DEF EndOfInput, IterateSkip, IterateRoot, IterateCollision, IterateEnd,
           DFSVisit, DFSReturn, DFSEnd, RetrieveEntry, RetrieveEnd, ReScan, ReScanSame,
           ReScanChanged, ReadRefused, Merging
    <2> QED  BY <1>1, <1>2, <2>1 DEF CompInv, InTree, ForCurrent, Near, TooFarL2
  <1> QED  BY <1>3, <1>4, <1>5

LEMMA CompInvInit == Init => CompInv
  <1> SUFFICES ASSUME Init PROVE CompInv
    OBVIOUS
  <1>1. rtree = {} /\ Inserted = {} /\ ~Merging
    BY DEF Init, DSInit, Inserted, Merging
  <1> QED  BY <1>1 DEF CompInv, InTree, ForCurrent, ClosedSets

LEMMA CompInvStep == OneLeaf /\ AnyInv /\ AnyInv' /\ CompInv /\ [Next]_vars => CompInv'
  <1> SUFFICES ASSUME OneLeaf, AnyInv, AnyInv', CompInv, [Next]_vars PROVE CompInv'
    OBVIOUS
  <1> QED  BY CompReadTuple, CompHits, CompUnion, CompOthers DEF Next, Step

LEMMA CompInvariance == ASSUME OneLeaf PROVE Spec => []CompInv
  BY CompInvInit, CompInvStep, AnyInvariance, PTL DEF Spec
-----------------------------------------------------------------------------
(* One round of ConnectedTo.                                               *)
Widen(P, S) == P \cup {y \in S : \E z \in P : Near(data[y], data[z])}

Rounds(G, x, S) ==
    /\ DOMAIN G = 0 .. MaxElements
    /\ G[0] = {x}
    /\ \A n \in 1 .. MaxElements : G[n] = Widen(G[n - 1], S)
    /\ ConnectedTo(x, S) = G[MaxElements]

(* ConnectedTo is the last of MaxElements rounds: the function that it     *)
(* chooses exists, by induction on the number of rounds.                   *)
LEMMA ConnectedRounds ==
    ASSUME NEW x, NEW S
    PROVE  \E G : Rounds(G, x, S)
  <1> DEFINE Eq(g, N) == g = [n \in 0 .. N |-> IF n = 0 THEN {x} ELSE Widen(g[n - 1], S)]
             E == {N \in 0 .. MaxElements : \E g : Eq(g, N)}
  <1>0. MaxElements \in Nat
    BY CapacityAssumption DEF MaxElements
  <1>1. 0 \in E
    <2> DEFINE g == [n \in 0 .. 0 |-> {x}]
    <2>1. g = [n \in 0 .. 0 |-> IF n = 0 THEN {x} ELSE Widen(g[n - 1], S)]
      OBVIOUS
    <2>2. Eq(g, 0)
      BY <2>1
    <2> HIDE DEF Eq, g
    <2> QED  BY <1>0, <2>2
  <1>2. \A N \in 0 .. MaxElements - 1 : N \in E => N + 1 \in E
    <2> SUFFICES ASSUME NEW N \in 0 .. MaxElements - 1, NEW g, Eq(g, N)
                 PROVE  \E h : Eq(h, N + 1)
      <3> HIDE DEF Eq
      <3> QED  BY <1>0
    <2> DEFINE h == [n \in 0 .. N + 1 |-> IF n = N + 1 THEN Widen(g[N], S) ELSE g[n]]
    <2>1. \A n \in 0 .. N : g[n] = IF n = 0 THEN {x} ELSE Widen(g[n - 1], S)
      OBVIOUS
    <2> HIDE DEF Eq
    <2>2. \A n \in 0 .. N + 1 : h[n] = IF n = 0 THEN {x} ELSE Widen(h[n - 1], S)
      <3> SUFFICES ASSUME NEW n \in 0 .. N + 1
                   PROVE  h[n] = IF n = 0 THEN {x} ELSE Widen(h[n - 1], S)
        OBVIOUS
      <3>1. CASE n = N + 1
        <4>1. h[n] = Widen(g[N], S) /\ h[n - 1] = g[N] /\ n # 0
          BY <3>1
        <4> QED  BY <4>1
      <3>2. CASE n = 0
        BY <2>1, <3>2
      <3>3. CASE n \in 1 .. N
        <4>1. h[n] = g[n] /\ h[n - 1] = g[n - 1] /\ n # 0 /\ n \in 0 .. N
          BY <3>3
        <4> HIDE DEF h
        <4> QED  BY <2>1, <4>1
      <3> QED  BY <3>1, <3>2, <3>3
    <2>3. h = [n \in 0 .. N + 1 |-> h[n]]
      OBVIOUS
    <2> HIDE DEF h
    <2>4. h = [n \in 0 .. N + 1 |-> IF n = 0 THEN {x} ELSE Widen(h[n - 1], S)]
      BY <2>2, <2>3
    <2> QED  BY <2>4 DEF Eq
  <1>3. \E g : Eq(g, MaxElements)
    <2> HIDE DEF E
    <2>1. MaxElements \in E
      BY <1>0, <1>1, <1>2, SetInduction
    <2> QED  BY <2>1 DEF E
  <1> DEFINE G == CHOOSE g : Eq(g, MaxElements)
  <1>4. Eq(G, MaxElements)
    <2> HIDE DEF Eq
    <2> QED  BY <1>3
  <1>5. ConnectedTo(x, S) = G[MaxElements]
    BY DEF ConnectedTo, Widen
  <1> HIDE DEF G
  <1>6. /\ DOMAIN G = 0 .. MaxElements
        /\ \A n \in 0 .. MaxElements : G[n] = IF n = 0 THEN {x} ELSE Widen(G[n - 1], S)
    BY <1>4
  <1>7. /\ G[0] = {x}
        /\ \A n \in 1 .. MaxElements : G[n] = Widen(G[n - 1], S)
    BY <1>0, <1>6
  <1> QED  BY <1>5, <1>6, <1>7 DEF Rounds

(* What MaxElements rounds reach is closed: as long as a round adds an     *)
(* element the set grows, and it cannot outgrow the elements inserted.     *)
LEMMA ConnectedIsClosed ==
    ASSUME AnyInv, OneLeaf, NEW x \in Inserted
    PROVE  LET C == ConnectedTo(x, Inserted)
           IN  x \in C /\ C \subseteq Inserted /\ Closed(C)
  <1>1. PICK G : /\ DOMAIN G = 0 .. MaxElements
                 /\ G[0] = {x}
                 /\ \A n \in 1 .. MaxElements : G[n] = Widen(G[n - 1], Inserted)
                 /\ ConnectedTo(x, Inserted) = G[MaxElements]
    <2>1. PICK G : Rounds(G, x, Inserted)
      BY ConnectedRounds
    <2> QED  BY <2>1 DEF Rounds
  <1>2. /\ MaxElements \in Nat /\ num_elements \in Nat /\ num_elements <= MaxElements
        /\ Inserted \subseteq Node
    BY CapacityAssumption, IndexFacts DEF AnyInv, MaxElements
  <1>3. IsFiniteSet(Inserted) /\ Cardinality(Inserted) = num_elements
    BY <1>2, FS_Interval DEF Inserted
  <1> DEFINE Fix(P) == Widen(P, Inserted) = P
             W == {n \in 0 .. MaxElements : /\ x \in G[n] /\ G[n] \subseteq Inserted
                                            /\ Fix(G[n]) \/ Cardinality(G[n]) > n}
  <1>4. 0 \in W
    <2>1. Cardinality({x}) = 1
      BY FS_Singleton
    <2>2. Cardinality(G[0]) > 0 /\ x \in G[0] /\ G[0] \subseteq Inserted
      BY <1>1, <2>1
    <2> HIDE DEF Fix
    <2> QED  BY <1>2, <2>2
  <1>5. \A n \in 0 .. MaxElements - 1 : n \in W => n + 1 \in W
    <2> SUFFICES ASSUME NEW n \in 0 .. MaxElements - 1, n \in W PROVE n + 1 \in W
      OBVIOUS
    <2>1. G[n + 1] = Widen(G[n], Inserted)
      <3>1. n + 1 \in 1 .. MaxElements /\ (n + 1) - 1 = n
        BY <1>2
      <3> QED  BY <1>1, <3>1
    <2>2. x \in G[n + 1] /\ G[n + 1] \subseteq Inserted /\ G[n] \subseteq G[n + 1]
      BY <2>1 DEF Widen
    <2>3. Fix(G[n + 1]) \/ Cardinality(G[n + 1]) > n + 1
      <3>1. CASE Fix(G[n])
        BY <2>1, <3>1
      <3>2. CASE ~Fix(G[n])
        <4>1. Cardinality(G[n]) > n /\ G[n + 1] # G[n]
          BY <2>1, <3>2
        <4>2. IsFiniteSet(G[n + 1])
          BY <1>3, <2>2, FS_Subset
        <4>3. /\ IsFiniteSet(G[n])
              /\ Cardinality(G[n]) <= Cardinality(G[n + 1])
              /\ Cardinality(G[n]) # Cardinality(G[n + 1])
          BY <2>2, <4>1, <4>2, FS_Subset
        <4>4. Cardinality(G[n]) \in Nat /\ Cardinality(G[n + 1]) \in Nat
          BY <4>2, <4>3, FS_CardinalityType
        <4>5. Cardinality(G[n + 1]) > n + 1
          BY <4>1, <4>3, <4>4
        <4> QED  BY <4>5
      <3> QED  BY <3>1, <3>2
    <2> HIDE DEF Fix
    <2> QED  BY <1>2, <2>2, <2>3
  <1>6. MaxElements \in W
    <2> HIDE DEF W
    <2> QED  BY <1>2, <1>4, <1>5, SetInduction
  <1> DEFINE C == G[MaxElements]
  <1>7. x \in C /\ C \subseteq Inserted /\ (Fix(C) \/ Cardinality(C) > MaxElements)
    BY <1>6
  <1>8. Fix(C)
    <2>1. IsFiniteSet(C) /\ Cardinality(C) <= num_elements
      BY <1>3, <1>7, FS_Subset
    <2>2. Cardinality(C) \in Nat
      BY <2>1, FS_CardinalityType
    <2>3. ~(Cardinality(C) > MaxElements)
      BY <1>2, <2>1, <2>2
    <2> QED  BY <1>7, <2>3
  <1>9. Closed(C)
    <2> SUFFICES ASSUME NEW y \in C, NEW z \in Inserted, Near(data[y], data[z])
                 PROVE  z \in C
      BY DEF Closed
    <2>1. Near(data[z], data[y])
      BY <1>2, <1>7, NearSymmetric, DataFacts DEF AnyInv
    <2>2. z \in Widen(C, Inserted)
      BY <2>1 DEF Widen
    <2> QED  BY <1>8, <2>2
  <1> QED  BY <1>1, <1>7, <1>9

(* Every round stays in the class of x.                                    *)
LEMMA ConnectedInClass ==
    ASSUME AnyInv, NEW x \in Inserted,
           \A y, z \in Inserted : Near(data[y], data[z]) => class[y] = class[z]
    PROVE  ConnectedTo(x, Inserted) \subseteq {y \in Inserted : class[y] = class[x]}
  <1> DEFINE K == {y \in Inserted : class[y] = class[x]}
  <1>1. PICK G : /\ DOMAIN G = 0 .. MaxElements
                 /\ G[0] = {x}
                 /\ \A n \in 1 .. MaxElements : G[n] = Widen(G[n - 1], Inserted)
                 /\ ConnectedTo(x, Inserted) = G[MaxElements]
    <2>1. PICK G : Rounds(G, x, Inserted)
      BY ConnectedRounds
    <2> QED  BY <2>1 DEF Rounds
  <1>2. MaxElements \in Nat
    BY CapacityAssumption DEF MaxElements
  <1> DEFINE W == {n \in 0 .. MaxElements : G[n] \subseteq K}
  <1>3. 0 \in W
    BY <1>1, <1>2
  <1>4. \A n \in 0 .. MaxElements - 1 : n \in W => n + 1 \in W
    <2> SUFFICES ASSUME NEW n \in 0 .. MaxElements - 1, n \in W PROVE n + 1 \in W
      OBVIOUS
    <2>1. G[n + 1] = Widen(G[n], Inserted)
      <3>1. n + 1 \in 1 .. MaxElements /\ (n + 1) - 1 = n
        BY <1>2
      <3> QED  BY <1>1, <3>1
    <2>2. G[n + 1] \subseteq K
      BY <2>1 DEF Widen
    <2> QED  BY <1>2, <2>2
  <1>5. MaxElements \in W
    <2> HIDE DEF W
    <2> QED  BY <1>2, <1>3, <1>4, SetInduction
  <1> QED  BY <1>1, <1>5

(* Between two tuples the disjoint sets are the connected components of    *)
(* the neighbour graph of the tuples read, for two grouping columns and an *)
(* R-tree of one leaf: the unions made for one tuple, with a newsetID that *)
(* is only tracked, join neither too much nor too little.                  *)
THEOREM ComponentsTheorem ==
    ASSUME numCols = 2, Capacity <= MAXCARD
    PROVE  Spec => []SetsAreComponents
  <1>1. OneLeaf
    BY DEF OneLeaf
  <1>2. AnyInv /\ CompInv => SetsAreComponents
    <2> SUFFICES ASSUME AnyInv, CompInv, pc \in {"fill", "iterate"}, NEW x \in Inserted
                 PROVE  ConnectedTo(x, Inserted) = {y \in Inserted : class[y] = class[x]}
      BY DEF SetsAreComponents
    <2> DEFINE C == ConnectedTo(x, Inserted)
    <2>1. rtree = Inserted
      BY IndexFacts DEF AnyInv, Merging
    <2>2. C \subseteq {y \in Inserted : class[y] = class[x]}
      BY <2>1, ConnectedInClass DEF CompInv, InTree
    <2>3. x \in C /\ C \subseteq Inserted /\ Closed(C)
      BY <1>1, ConnectedIsClosed
    <2> HIDE DEF C
    <2>4. \A z \in Inserted : class[x] = class[z] => z \in C
      BY <2>3 DEF CompInv, ClosedSets
    <2> QED  BY <2>2, <2>4 DEF C
  <1> QED  BY <1>1, <1>2, AnyInvariance, CompInvariance, PTL
=============================================================================
