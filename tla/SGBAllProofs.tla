---------------------------- MODULE SGBAllProofs ----------------------------
(***************************************************************************)
(* Proofs about SGBAll, for any input, EPS, overlap clause and number of   *)
(* columns.                                                                *)
(***************************************************************************)
EXTENDS SGBAll, FiniteSetTheorems, TLAPS

(* Rectangles of tuples and groups have the shape the R-tree expects.      *)
LEMMA RectType ==
    ASSUME NEW p1 \in [Cols -> Int], NEW p2 \in [Cols -> Int]
    PROVE  RectOf(p1, p2) \in Rect
  <1>1. CASE numCols = 1
    BY <1>1 DEF RectOf, Rect, Cols, DIMS_NUMB
  <1>2. CASE numCols = 2
    BY <1>2 DEF RectOf, Rect, Cols, DIMS_NUMB
  <1> QED  BY <1>1, <1>2, NumColsAssumption

(* The bounds that judgeJoinGroup computes are integers.                   *)
LEMMA NewBoundsType ==
    ASSUME NEW lo \in Int, NEW hi \in Int, NEW x \in Int
    PROVE  NewLow(lo, hi, x) \in Int /\ NewHigh(lo, hi, x) \in Int
  BY SGBAllAssumption DEF NewLow, NewHigh, Width

LEMMA JoinedType ==
    ASSUME TypeOK, NEW g \in Position, NEW t \in Tuple
    PROVE  JoinedLow(g, t) \in [Cols -> Int] /\ JoinedHigh(g, t) \in [Cols -> Int]
  <1>1. ASSUME NEW i \in Cols
        PROVE  t[i] \in Int /\ pivot1[g][i] \in Int /\ pivot2[g][i] \in Int
    BY SGBAllAssumption DEF TypeOK
  <1> QED  BY <1>1, NewBoundsType DEF JoinedLow, JoinedHigh
-----------------------------------------------------------------------------
(* What TypeOK says of a step that changes bounds.                         *)
LEMMA UpdateType ==
    ASSUME TypeOK, NEW t \in Tuple, NEW C, UpdateBounds(C, t)
    PROVE  /\ pivot1' \in [Position -> [Cols -> Int]]
           /\ pivot2' \in [Position -> [Cols -> Int]]
           /\ rtree' \in [Position -> Rect]
  <1>1. ASSUME NEW g \in Position
        PROVE  getMBRHashEntry(JoinedLow(g, t), JoinedHigh(g, t)) \in Rect
    BY JoinedType, RectType DEF getMBRHashEntry
  <1> QED  BY <1>1, JoinedType DEF UpdateBounds, TypeOK

LEMMA ReadType ==
    ASSUME TypeOK, NEW t \in Tuple, Read(t)
    PROVE  /\ numread' = numread + 1
           /\ numread' \in 0 .. MaxTuples
           /\ numread + 1 \in Position
           /\ input' \in [Position -> [Cols -> Int]]
           /\ input'[numread + 1] = t
           /\ \A p \in 1 .. numread : input'[p] = input[p]
           /\ 1 .. numread \subseteq 1 .. numread'
           /\ UNCHANGED <<overlap, pc, scanned>>
  BY SGBAllAssumption DEF TypeOK, Read, Position

LEMMA AddType ==
    ASSUME TypeOK, NEW t \in Tuple, Read(t), NEW g \in Position, AddMember(g)
    PROVE  members' \in [Position -> SUBSET (1 .. numread')]
  BY ReadType DEF TypeOK, AddMember

LEMMA TypeInit == Init => TypeOK
  <1> SUFFICES ASSUME Init PROVE TypeOK
    OBVIOUS
  <1>1. Zeroes \in [Cols -> Int]
    BY DEF Zeroes
  <1>2. RectOf(Zeroes, Zeroes) \in Rect
    BY <1>1, RectType
  <1> QED  BY <1>1, <1>2, SGBAllAssumption DEF Init, TypeOK, Position

LEMMA TypeStep == TypeOK /\ [Next]_vars => TypeOK'
  <1> SUFFICES ASSUME TypeOK, [Next]_vars PROVE TypeOK'
    OBVIOUS
  <1> USE DEF TypeOK
  <1>1. ASSUME NEW t \in Tuple, NEW H \in ContainArray(t), JoinAny(t, H) PROVE TypeOK'
    <2>1. PICK g \in Accepting(t, H) : UpdateBounds({g}, t) /\ AddMember(g)
      BY <1>1 DEF JoinAny
    <2>2. g \in Position
      BY <2>1, SGBAllAssumption DEF Accepting, ContainArray, Containing, Group, Position
    <2> QED  BY <1>1, <2>1, <2>2, UpdateType, ReadType, AddType DEF JoinAny
  <1>2. ASSUME NEW t \in Tuple, NEW H, JoinOnly(t, H) PROVE TypeOK'
    <2>1. PICK g \in Position : UpdateBounds({g}, t) /\ AddMember(g)
      BY <1>2 DEF JoinOnly
    <2> QED  BY <1>2, <2>1, UpdateType, ReadType, AddType DEF JoinOnly
  <1>3. ASSUME NEW t \in Tuple, NEW H, Eliminate(t, H) PROVE TypeOK'
    <2>1. PICK C \in SUBSET Group : UpdateBounds(C, t)
      BY <1>3 DEF Eliminate
    <2> QED  BY <1>3, <2>1, UpdateType, ReadType DEF Eliminate
  <1>4. ASSUME NEW t \in Tuple, NEW H, NewGroup(t, H) PROVE TypeOK'
    <2> DEFINE lo == [i \in Cols |-> t[i] - EPS]
               hi == [i \in Cols |-> t[i] + EPS]
    <2>1. t \in [Cols -> Int] /\ lo \in [Cols -> Int] /\ hi \in [Cols -> Int]
      BY SGBAllAssumption
    <2>2. getMBRHashEntry(lo, hi) \in Rect
      BY <2>1, RectType DEF getMBRHashEntry
    <2>3. Read(t)
      BY <1>4 DEF NewGroup, LowAround, HighAround
    <2>4. /\ indexhasharray' = indexhasharray + 1
          /\ hashkey' = [hashkey EXCEPT ![indexhasharray + 1] = t]
          /\ pivot1' = [pivot1 EXCEPT ![indexhasharray + 1] = lo]
          /\ pivot2' = [pivot2 EXCEPT ![indexhasharray + 1] = hi]
          /\ rtree' = [rtree EXCEPT ![indexhasharray + 1] = getMBRHashEntry(lo, hi)]
          /\ members' = [members EXCEPT ![indexhasharray + 1] = {numread + 1}]
      BY <1>4 DEF NewGroup, LowAround, HighAround
    <2> HIDE DEF lo, hi
    <2>5. indexhasharray + 1 \in Position /\ indexhasharray' \in 0 .. numread'
      BY <2>3, <2>4, ReadType, SGBAllAssumption DEF Position
    <2>6. members' \in [Position -> SUBSET (1 .. numread')]
      BY <2>3, <2>4, <2>5, ReadType
    <2>7. /\ hashkey' \in [Position -> [Cols -> Int]]
          /\ pivot1' \in [Position -> [Cols -> Int]]
          /\ pivot2' \in [Position -> [Cols -> Int]]
          /\ rtree' \in [Position -> Rect]
      BY <2>1, <2>2, <2>4, <2>5
    <2> QED  BY <2>3, <2>5, <2>6, <2>7, ReadType
  <1>5. ASSUME NEW t \in Tuple, NEW H, KeyTaken(t, H) \/ NoHandler(t) PROVE TypeOK'
    BY <1>5, ReadType DEF KeyTaken, NoHandler, groupVars
  <1>6. ASSUME EndOfInput \/ RetrieveEnd \/ ReScanSame PROVE TypeOK'
    BY <1>6 DEF EndOfInput, RetrieveEnd, ReScanSame, groupVars
  <1>7. ASSUME RetrieveEntry PROVE TypeOK'
    <2>1. Group \subseteq Position
      BY SGBAllAssumption DEF Group, Position
    <2> QED  BY <1>7, <2>1 DEF RetrieveEntry, groupVars
  <1>8. CASE UNCHANGED vars
    BY <1>8 DEF vars, groupVars
  <1> QED  BY <1>1, <1>2, <1>3, <1>4, <1>5, <1>6, <1>7, <1>8
           DEF Next, FillStep, OutputStep

(* Type correctness of the operator's state.                               *)
THEOREM TypeCorrect == Spec => []TypeOK
  BY TypeInit, TypeStep, PTL DEF Spec
-----------------------------------------------------------------------------
(* The strengthening. A box admits every member of its group and lies      *)
(* within EPS of each of them; with ANY each side of it is EPS away from   *)
(* some member; the hash key of a group is one of its members.             *)
BoxSound ==
    \A g \in Group : \A p \in members[g] : \A i \in Cols :
        /\ pivot1[g][i] <= input[p][i] /\ input[p][i] <= pivot2[g][i]
        /\ input[p][i] - EPS <= pivot1[g][i] /\ pivot2[g][i] <= input[p][i] + EPS

BoxTight ==
    overlap = 1 =>
        \A g \in Group : \A i \in Cols :
            /\ \E p \in members[g] : pivot1[g][i] = input[p][i] - EPS
            /\ \E p \in members[g] : pivot2[g][i] = input[p][i] + EPS

KeyIsMember == \A g \in Group : \E p \in members[g] : input[p] = hashkey[g]

(* The join of a tuple, in the three forms the handlers have: the groups C *)
(* take new bounds and those of D, at most one, take the tuple.            *)
UpdateStep(t, C, D) ==
    /\ Read(t)
    /\ C \subseteq Accepting(t, Containing(t)) /\ D \subseteq C
    /\ UpdateBounds(C, t)
    /\ members' = [g \in Position |-> IF g \in D THEN members[g] \cup {numread + 1}
                                                 ELSE members[g]]
    /\ \A g, h \in D : g = h
    /\ overlap = 1 => D = C /\ D # {}
    /\ UNCHANGED <<indexhasharray, hashkey>>

GroupStep(t) == \E C, D \in SUBSET Group : UpdateStep(t, C, D)

LEMMA GroupsInPosition ==
    ASSUME TypeOK
    PROVE  /\ Group \subseteq Position
           /\ Group \subseteq Nat \ {0}
           /\ \A t : Accepting(t, Containing(t)) \subseteq Group
           /\ \A g \in Group : members[g] \subseteq 1 .. numread
           /\ numread \in Nat
           /\ 1 .. numread \subseteq Position
  BY SGBAllAssumption DEF TypeOK, Group, Position, Accepting, Containing

(* Whatever the search leaves in containArray contains the tuple.          *)
LEMMA AcceptingInAll ==
    ASSUME NEW t, NEW H \in ContainArray(t)
    PROVE  H \subseteq Containing(t) /\ Accepting(t, H) \subseteq Accepting(t, Containing(t))
  BY DEF Accepting, ContainArray

LEMMA JoinsAreGroupSteps ==
    ASSUME TypeOK, NEW t \in Tuple, NEW H \in ContainArray(t),
           JoinAny(t, H) \/ JoinOnly(t, H) \/ Eliminate(t, H)
    PROVE  GroupStep(t)
  <1>0. /\ Accepting(t, H) \subseteq Accepting(t, Containing(t))
        /\ Accepting(t, H) \subseteq Group
    BY AcceptingInAll, GroupsInPosition
  <1>1. CASE JoinAny(t, H)
    <2>1. PICK g \in Accepting(t, H) : UpdateBounds({g}, t) /\ AddMember(g)
      BY <1>1 DEF JoinAny
    <2>2. members' = [h \in Position |-> IF h \in {g} THEN members[h] \cup {numread + 1}
                                                     ELSE members[h]]
      BY <1>0, <2>1, GroupsInPosition DEF AddMember, TypeOK
    <2>3. UpdateStep(t, {g}, {g})
      BY <1>0, <1>1, <2>1, <2>2 DEF UpdateStep, JoinAny
    <2> QED  BY <1>0, <2>1, <2>3 DEF GroupStep
  <1>2. CASE JoinOnly(t, H)
    <2>1. PICK g \in Position : Accepting(t, H) = {g} /\ UpdateBounds({g}, t) /\ AddMember(g)
      BY <1>2 DEF JoinOnly
    <2>2. members' = [h \in Position |-> IF h \in {g} THEN members[h] \cup {numread + 1}
                                                     ELSE members[h]]
      BY <1>0, <2>1, GroupsInPosition DEF AddMember, TypeOK
    <2>3. UpdateStep(t, {g}, {g})
      BY <1>0, <1>2, <2>1, <2>2 DEF UpdateStep, JoinOnly
    <2> QED  BY <1>0, <2>1, <2>3 DEF GroupStep
  <1>3. CASE Eliminate(t, H)
    <2>1. PICK C \in SUBSET Group : Considered(C, t, H) /\ UpdateBounds(C, t)
      BY <1>3 DEF Eliminate
    <2>2. members' = [h \in Position |-> IF h \in {} THEN members[h] \cup {numread + 1}
                                                    ELSE members[h]]
      BY <1>3 DEF Eliminate, TypeOK
    <2>3. UpdateStep(t, C, {})
      BY <1>0, <1>3, <2>1, <2>2 DEF UpdateStep, Eliminate, Considered
    <2> QED  BY <2>3 DEF GroupStep
  <1> QED  BY <1>1, <1>2, <1>3

(* A step of the operator joins a tuple, creates a group, or leaves the    *)
(* groups alone; in the last case it may have read a tuple and dropped it. *)
(* SGBAllLtwo has the same four kinds.                                     *)
NewStep(t) ==
    LET g == indexhasharray + 1
    IN  /\ Read(t)
        /\ indexhasharray' = g
        /\ hashkey' = [hashkey EXCEPT ![g] = t]
        /\ pivot1' = [pivot1 EXCEPT ![g] = LowAround(t)]
        /\ pivot2' = [pivot2 EXCEPT ![g] = HighAround(t)]
        /\ rtree' = [rtree EXCEPT ![g] = getMBRHashEntry(LowAround(t), HighAround(t))]
        /\ members' = [members EXCEPT ![g] = {numread + 1}]

DropStep(t) == Read(t) /\ UNCHANGED groupVars

QuietStep == UNCHANGED <<overlap, groupVars, numread, input>>

StepKind == (\E t \in Tuple : GroupStep(t) \/ NewStep(t) \/ DropStep(t)) \/ QuietStep

LEMMA NewGroupIsNewStep ==
    ASSUME NEW t, NEW H, NewGroup(t, H)
    PROVE  NewStep(t)
  BY DEF NewGroup, NewStep

LEMMA StepCases ==
    ASSUME TypeOK, [Next]_vars
    PROVE  /\ StepKind
           /\ overlap = 1 =>
                 \/ \E t \in Tuple : \/ GroupStep(t) \/ NewStep(t)
                                     \/ \E H \in ContainArray(t) : KeyTaken(t, H)
                 \/ QuietStep
  <1>1. ASSUME NEW t \in Tuple, NEW H \in ContainArray(t), FillStep(t, H)
        PROVE  \/ GroupStep(t) \/ NewStep(t)
               \/ KeyTaken(t, H) /\ DropStep(t)
    BY <1>1, JoinsAreGroupSteps, NewGroupIsNewStep DEF FillStep, KeyTaken, DropStep
  <1>3. ASSUME NEW t \in Tuple, NoHandler(t) PROVE overlap # 1 /\ DropStep(t)
    BY <1>3 DEF NoHandler, DropStep
  <1>2. ASSUME OutputStep \/ ReScanSame \/ UNCHANGED vars PROVE QuietStep
    BY <1>2 DEF OutputStep, EndOfInput, RetrieveEntry, RetrieveEnd, ReScanSame,
                vars, QuietStep
  <1> QED  BY <1>1, <1>2, <1>3 DEF Next, StepKind
-----------------------------------------------------------------------------
(* One side of one box under a join.                                       *)
LEMMA UpdateSide ==
    ASSUME TypeOK, NEW t \in Tuple, NEW C, NEW D, UpdateStep(t, C, D),
           NEW g \in Group, NEW i \in Cols
    PROVE  /\ t[i] \in Int /\ pivot1[g][i] \in Int /\ pivot2[g][i] \in Int
           /\ g \notin C => pivot1'[g][i] = pivot1[g][i] /\ pivot2'[g][i] = pivot2[g][i]
           /\ g \in C => /\ pivot1[g][i] <= t[i] /\ t[i] <= pivot2[g][i]
                         /\ pivot1'[g][i] = NewLow(pivot1[g][i], pivot2[g][i], t[i])
                         /\ pivot2'[g][i] = NewHigh(pivot1[g][i], pivot2[g][i], t[i])
  <1>1. t[i] \in Int /\ pivot1[g][i] \in Int /\ pivot2[g][i] \in Int /\ g \in Position
    BY SGBAllAssumption, GroupsInPosition DEF TypeOK
  <1>2. g \in C => pivot1[g][i] <= t[i] /\ t[i] <= pivot2[g][i]
    BY DEF UpdateStep, Accepting, InBound
  <1> QED  BY <1>1, <1>2 DEF UpdateStep, UpdateBounds, JoinedLow, JoinedHigh

(* The members and inputs a join leaves behind.                            *)
LEMMA UpdateMembers ==
    ASSUME TypeOK, NEW t \in Tuple, NEW C, NEW D, UpdateStep(t, C, D), NEW g \in Group
    PROVE  /\ Group' = Group
           /\ g \notin D => members'[g] = members[g]
           /\ g \in D => g \in C /\ members'[g] = members[g] \cup {numread + 1}
           /\ \A p \in members[g] : input'[p] = input[p]
           /\ input'[numread + 1] = t
           /\ numread + 1 \notin members[g]
  <1>1. g \in Position /\ members[g] \subseteq 1 .. numread /\ numread + 1 \notin 1 .. numread
    BY GroupsInPosition
  <1> QED  BY <1>1, ReadType DEF UpdateStep, Group

(* The group that NewGroup creates, and the others, which it leaves alone. *)
LEMMA NewGroupFacts ==
    ASSUME TypeOK, NEW t \in Tuple, NewStep(t)
    PROVE  /\ Group' = Group \cup {indexhasharray + 1}
           /\ indexhasharray + 1 \notin Group
           /\ \A g \in Group : /\ members'[g] = members[g]
                               /\ pivot1'[g] = pivot1[g]
                               /\ pivot2'[g] = pivot2[g]
                               /\ rtree'[g] = rtree[g]
                               /\ hashkey'[g] = hashkey[g]
                               /\ \A p \in members[g] : input'[p] = input[p]
                               /\ numread + 1 \notin members[g]
           /\ members'[indexhasharray + 1] = {numread + 1}
           /\ input'[numread + 1] = t
           /\ hashkey'[indexhasharray + 1] = t
           /\ \A i \in Cols : /\ t[i] \in Int
                              /\ pivot1'[indexhasharray + 1][i] = t[i] - EPS
                              /\ pivot2'[indexhasharray + 1][i] = t[i] + EPS
           /\ rtree'[indexhasharray + 1] =
                 getMBRHashEntry(pivot1'[indexhasharray + 1], pivot2'[indexhasharray + 1])
           /\ UNCHANGED overlap
  <1>1. Read(t) /\ indexhasharray' = indexhasharray + 1
    BY DEF NewStep
  <1>2. indexhasharray \in Nat /\ indexhasharray + 1 \in Position
    <2>1. numread \in Nat /\ numread + 1 \in Position
      BY <1>1, ReadType DEF TypeOK
    <2>2. indexhasharray \in Nat /\ indexhasharray <= numread
      BY <2>1 DEF TypeOK
    <2> QED  BY <2>1, <2>2, SGBAllAssumption DEF Position
  <1>3. Group' = Group \cup {indexhasharray + 1} /\ indexhasharray + 1 \notin Group
    BY <1>1, <1>2 DEF Group
  <1>4. \A i \in Cols : t[i] \in Int
    BY SGBAllAssumption
  <1>5. ASSUME NEW g \in Group
        PROVE  /\ members'[g] = members[g]
               /\ pivot1'[g] = pivot1[g]
               /\ pivot2'[g] = pivot2[g]
               /\ rtree'[g] = rtree[g]
               /\ hashkey'[g] = hashkey[g]
               /\ \A p \in members[g] : input'[p] = input[p]
               /\ numread + 1 \notin members[g]
    <2>1. g # indexhasharray + 1 /\ g \in Position /\ members[g] \subseteq 1 .. numread
      BY <1>3, GroupsInPosition
    <2>2. \A p \in members[g] : input'[p] = input[p]
      BY <1>1, <2>1, ReadType
    <2>3. numread + 1 \notin members[g]
      BY <2>1, GroupsInPosition
    <2> QED  BY <2>1, <2>2, <2>3 DEF NewStep, TypeOK
  <1>6. /\ members'[indexhasharray + 1] = {numread + 1}
        /\ hashkey'[indexhasharray + 1] = t
        /\ pivot1'[indexhasharray + 1] = [i \in Cols |-> t[i] - EPS]
        /\ pivot2'[indexhasharray + 1] = [i \in Cols |-> t[i] + EPS]
        /\ rtree'[indexhasharray + 1] =
              getMBRHashEntry([i \in Cols |-> t[i] - EPS], [i \in Cols |-> t[i] + EPS])
    BY <1>2 DEF NewStep, LowAround, HighAround, TypeOK
  <1> QED  BY <1>1, <1>3, <1>4, <1>5, <1>6, ReadType
-----------------------------------------------------------------------------
LEMMA BoxSoundStep ==
    ASSUME TypeOK, BoxSound, StepKind
    PROVE  BoxSound'
  <1>1. ASSUME NEW t \in Tuple, NEW C, NEW D, UpdateStep(t, C, D)
        PROVE  BoxSound'
    <2>0. Group' = Group
      BY <1>1 DEF UpdateStep, Group
    <2> SUFFICES ASSUME NEW g \in Group, NEW p \in members'[g], NEW i \in Cols
                 PROVE  /\ pivot1'[g][i] <= input'[p][i] /\ input'[p][i] <= pivot2'[g][i]
                        /\ input'[p][i] - EPS <= pivot1'[g][i]
                        /\ pivot2'[g][i] <= input'[p][i] + EPS
      BY <2>0 DEF BoxSound
    <2> DEFINE lo == pivot1[g][i]
               hi == pivot2[g][i]
               x  == t[i]
    <2> HIDE DEF lo, hi, x
    <2>1. /\ x \in Int /\ lo \in Int /\ hi \in Int
          /\ g \notin C => pivot1'[g][i] = lo /\ pivot2'[g][i] = hi
          /\ g \in C => /\ lo <= x /\ x <= hi
                        /\ pivot1'[g][i] = NewLow(lo, hi, x)
                        /\ pivot2'[g][i] = NewHigh(lo, hi, x)
      BY <1>1, UpdateSide DEF lo, hi, x
    <2>2. CASE p \in members[g]
      <3> DEFINE y == input[p][i]
      <3>1. lo <= y /\ y <= hi /\ y - EPS <= lo /\ hi <= y + EPS
        BY <2>2 DEF BoxSound, lo, hi
      <3>2. y \in Int /\ input'[p][i] = y
        BY <1>1, <2>2, UpdateMembers, GroupsInPosition DEF TypeOK
      <3> HIDE DEF y
      <3>3. CASE g \in C
        BY <2>1, <3>1, <3>2, <3>3, SGBAllAssumption DEF NewLow, NewHigh, Width
      <3>4. CASE g \notin C
        BY <2>1, <3>1, <3>2, <3>4
      <3> QED  BY <3>3, <3>4
    <2>3. CASE p \notin members[g]
      <3>1. g \in C /\ input'[p][i] = x
        BY <1>1, <2>3, UpdateMembers DEF x
      <3> QED  BY <2>1, <3>1, SGBAllAssumption DEF NewLow, NewHigh, Width
    <2> QED  BY <2>2, <2>3
  <1>2. ASSUME NEW t \in Tuple, NewStep(t) PROVE BoxSound'
    <2> SUFFICES ASSUME NEW g \in Group', NEW p \in members'[g], NEW i \in Cols
                 PROVE  /\ pivot1'[g][i] <= input'[p][i] /\ input'[p][i] <= pivot2'[g][i]
                        /\ input'[p][i] - EPS <= pivot1'[g][i]
                        /\ pivot2'[g][i] <= input'[p][i] + EPS
      BY DEF BoxSound
    <2>1. CASE g \in Group
      BY <1>2, <2>1, NewGroupFacts DEF BoxSound
    <2>2. CASE g = indexhasharray + 1
      BY <1>2, <2>2, NewGroupFacts, SGBAllAssumption
    <2> QED  BY <1>2, <2>1, <2>2, NewGroupFacts
  <1>3. ASSUME NEW t \in Tuple, DropStep(t) PROVE BoxSound'
    BY <1>3, ReadType, GroupsInPosition DEF DropStep, groupVars, BoxSound, Group
  <1>4. ASSUME QuietStep PROVE BoxSound'
    BY <1>4 DEF QuietStep, groupVars, BoxSound, Group
  <1> QED  BY <1>1, <1>2, <1>3, <1>4 DEF StepKind, GroupStep

LEMMA CliqueStep ==
    ASSUME TypeOK, BoxSound, GroupsAreCliques, StepKind
    PROVE  GroupsAreCliques'
  <1>1. ASSUME NEW t \in Tuple, NEW C, NEW D, UpdateStep(t, C, D)
        PROVE  GroupsAreCliques'
    <2>0. Group' = Group
      BY <1>1 DEF UpdateStep, Group
    <2> SUFFICES ASSUME NEW g \in Group, NEW p \in members'[g], NEW q \in members'[g],
                        NEW i \in Cols
                 PROVE  /\ input'[p][i] - input'[q][i] <= EPS
                        /\ input'[q][i] - input'[p][i] <= EPS
      BY <2>0 DEF GroupsAreCliques, WithinEPS
    <2>1. CASE p \in members[g] /\ q \in members[g]
      BY <1>1, <2>1, UpdateMembers DEF GroupsAreCliques, WithinEPS
    <2>2. ASSUME NEW r \in members[g], g \in C
          PROVE  /\ input[r][i] \in Int /\ input'[r] = input[r]
                 /\ input[r][i] - t[i] <= EPS /\ t[i] - input[r][i] <= EPS
      <3>1. input[r][i] \in Int /\ input'[r] = input[r]
        BY <1>1, UpdateMembers, GroupsInPosition DEF TypeOK
      <3>2. input[r][i] - EPS <= pivot1[g][i] /\ pivot2[g][i] <= input[r][i] + EPS
        BY DEF BoxSound
      <3> QED  BY <1>1, <2>2, <3>1, <3>2, UpdateSide, SGBAllAssumption
    <2>3. CASE p \in members[g] /\ q \notin members[g]
      BY <1>1, <2>2, <2>3, UpdateMembers
    <2>4. CASE p \notin members[g] /\ q \in members[g]
      BY <1>1, <2>2, <2>4, UpdateMembers
    <2>5. CASE p \notin members[g] /\ q \notin members[g]
      BY <1>1, <2>5, UpdateMembers, UpdateSide, SGBAllAssumption
    <2> QED  BY <2>1, <2>3, <2>4, <2>5
  <1>2. ASSUME NEW t \in Tuple, NewStep(t) PROVE GroupsAreCliques'
    BY <1>2, NewGroupFacts, SGBAllAssumption DEF GroupsAreCliques, WithinEPS
  <1>3. ASSUME NEW t \in Tuple, DropStep(t) PROVE GroupsAreCliques'
    BY <1>3, ReadType, GroupsInPosition DEF DropStep, groupVars, GroupsAreCliques, WithinEPS, Group
  <1>4. ASSUME QuietStep PROVE GroupsAreCliques'
    BY <1>4 DEF QuietStep, groupVars, GroupsAreCliques, WithinEPS, Group
  <1> QED  BY <1>1, <1>2, <1>3, <1>4 DEF StepKind, GroupStep

(* Two members of a group are within EPS of each other in every grouping   *)
(* column: for ANY and ELIMINATE, whatever the input.                      *)
THEOREM CliqueTheorem == Spec => []GroupsAreCliques
  <1>1. Init => BoxSound /\ GroupsAreCliques
    BY DEF Init, BoxSound, GroupsAreCliques, Group
  <1> QED  BY <1>1, TypeInit, TypeStep, StepCases, BoxSoundStep, CliqueStep, PTL DEF Spec
-----------------------------------------------------------------------------
(* No step leaves a stale rectangle: a handler that changes a box enters   *)
(* the new one for it.                                                     *)
LEMMA MirrorStep ==
    ASSUME TypeOK, RTreeMirrorsBoxes, StepKind
    PROVE  RTreeMirrorsBoxes'
  <1>1. ASSUME NEW t \in Tuple, NEW C, NEW D, UpdateStep(t, C, D)
        PROVE  RTreeMirrorsBoxes'
    <2>1. Group' = Group
      BY <1>1 DEF UpdateStep, Group
    <2>2. ASSUME NEW g \in Group PROVE rtree'[g] = getMBRHashEntry(pivot1'[g], pivot2'[g])
      BY <1>1, GroupsInPosition DEF UpdateStep, UpdateBounds, RTreeMirrorsBoxes
    <2> QED  BY <2>1, <2>2 DEF RTreeMirrorsBoxes
  <1>2. ASSUME NEW t \in Tuple, NewStep(t) PROVE RTreeMirrorsBoxes'
    BY <1>2, NewGroupFacts DEF RTreeMirrorsBoxes
  <1>3. ASSUME NEW t \in Tuple, DropStep(t) PROVE RTreeMirrorsBoxes'
    BY <1>3 DEF DropStep, groupVars, RTreeMirrorsBoxes, Group
  <1>4. ASSUME QuietStep PROVE RTreeMirrorsBoxes'
    BY <1>4 DEF QuietStep, groupVars, RTreeMirrorsBoxes, Group
  <1> QED  BY <1>1, <1>2, <1>3, <1>4 DEF StepKind, GroupStep

(* The R-tree holds the current box of every group, in every mode.         *)
THEOREM MirrorTheorem == Spec => []RTreeMirrorsBoxes
  <1>1. Init => RTreeMirrorsBoxes
    BY DEF Init, RTreeMirrorsBoxes, Group
  <1> QED  BY <1>1, TypeInit, TypeStep, StepCases, MirrorStep, PTL DEF Spec
-----------------------------------------------------------------------------
(* The tuple read last is in one group at most, and the others stay where  *)
(* they are.                                                               *)
LEMMA OneGroupStep ==
    ASSUME TypeOK, AtMostOneGroup, StepKind
    PROVE  AtMostOneGroup'
  <1>1. ASSUME NEW t \in Tuple, NEW C, NEW D, UpdateStep(t, C, D)
        PROVE  AtMostOneGroup'
    <2>1. Group' = Group /\ \A g, h \in D : g = h
      BY <1>1 DEF UpdateStep, Group
    <2>2. ASSUME NEW g \in Group, NEW h \in Group, g # h
          PROVE  members'[g] \cap members'[h] = {}
      BY <1>1, <2>1, <2>2, UpdateMembers DEF AtMostOneGroup
    <2> QED  BY <2>1, <2>2 DEF AtMostOneGroup
  <1>2. ASSUME NEW t \in Tuple, NewStep(t) PROVE AtMostOneGroup'
    BY <1>2, NewGroupFacts DEF AtMostOneGroup
  <1>3. ASSUME NEW t \in Tuple, DropStep(t) PROVE AtMostOneGroup'
    BY <1>3 DEF DropStep, groupVars, AtMostOneGroup, Group
  <1>4. ASSUME QuietStep PROVE AtMostOneGroup'
    BY <1>4 DEF QuietStep, groupVars, AtMostOneGroup, Group
  <1> QED  BY <1>1, <1>2, <1>3, <1>4 DEF StepKind, GroupStep

(* No tuple is in two groups, in any mode.                                 *)
THEOREM OneGroupTheorem == Spec => []AtMostOneGroup
  <1>1. Init => AtMostOneGroup
    BY DEF Init, AtMostOneGroup, Group
  <1> QED  BY <1>1, TypeInit, TypeStep, StepCases, OneGroupStep, PTL DEF Spec
-----------------------------------------------------------------------------
(* What a step may do to the box and the members of a group.               *)
ShrinkStep ==
    \A g \in Group :
        /\ \A i \in Cols : pivot1[g][i] <= pivot1'[g][i] /\ pivot2'[g][i] <= pivot2[g][i]
        /\ members[g] \subseteq members'[g]

LEMMA StepShrinks ==
    ASSUME TypeOK, StepKind
    PROVE  ShrinkStep
  <1>1. ASSUME NEW t \in Tuple, NEW C, NEW D, UpdateStep(t, C, D) PROVE ShrinkStep
    <2>1. ASSUME NEW g \in Group, NEW i \in Cols
          PROVE  pivot1[g][i] <= pivot1'[g][i] /\ pivot2'[g][i] <= pivot2[g][i]
      <3> DEFINE lo == pivot1[g][i]
                 hi == pivot2[g][i]
                 x  == t[i]
      <3> HIDE DEF lo, hi, x
      <3>1. /\ x \in Int /\ lo \in Int /\ hi \in Int
            /\ g \notin C => pivot1'[g][i] = lo /\ pivot2'[g][i] = hi
            /\ g \in C => /\ lo <= x /\ x <= hi
                          /\ pivot1'[g][i] = NewLow(lo, hi, x)
                          /\ pivot2'[g][i] = NewHigh(lo, hi, x)
        BY <1>1, UpdateSide DEF lo, hi, x
      <3>2. lo <= pivot1'[g][i] /\ pivot2'[g][i] <= hi
        BY <3>1, SGBAllAssumption DEF NewLow, NewHigh, Width
      <3> QED  BY <3>2 DEF lo, hi
    <2>2. ASSUME NEW g \in Group PROVE members[g] \subseteq members'[g]
      BY <1>1, UpdateMembers
    <2> QED  BY <2>1, <2>2 DEF ShrinkStep
  <1>2. ASSUME NEW g \in Group, NEW i \in Cols
        PROVE  pivot1[g][i] \in Int /\ pivot2[g][i] \in Int
    BY GroupsInPosition DEF TypeOK
  <1>3. ASSUME NEW t \in Tuple, NewStep(t) PROVE ShrinkStep
    BY <1>2, <1>3, NewGroupFacts DEF ShrinkStep
  <1>4. ASSUME UNCHANGED groupVars PROVE ShrinkStep
    BY <1>2, <1>4 DEF groupVars, ShrinkStep
  <1> QED  BY <1>1, <1>3, <1>4 DEF StepKind, GroupStep, DropStep, QuietStep, groupVars

(* A box only shrinks and a group only grows: what a group refused it      *)
(* refuses for good, and no tuple is withdrawn from an aggregate.          *)
THEOREM ShrinkTheorem == Spec => BoundsOnlyShrink
  <1>1. TypeOK /\ [Next]_vars => [ShrinkStep]_vars
    BY StepCases, StepShrinks
  <1>2. Spec => [][ShrinkStep]_vars
    BY <1>1, TypeInit, TypeStep, PTL DEF Spec
  <1> QED  BY <1>2 DEF BoundsOnlyShrink, ShrinkStep
-----------------------------------------------------------------------------
(* With ANY each side of a box stays EPS away from a member: it is moved   *)
(* only to EPS from the tuple that joins.                                  *)
LEMMA BoxTightStep ==
    ASSUME TypeOK, BoxTight, StepKind
    PROVE  BoxTight'
  <1>1. ASSUME NEW t \in Tuple, NEW C, NEW D, UpdateStep(t, C, D)
        PROVE  BoxTight'
    <2>1. Group' = Group /\ overlap' = overlap /\ (overlap = 1 => C = D)
      BY <1>1, ReadType DEF UpdateStep, Group
    <2> SUFFICES ASSUME overlap = 1, NEW g \in Group, NEW i \in Cols
                 PROVE  /\ \E p \in members'[g] : pivot1'[g][i] = input'[p][i] - EPS
                        /\ \E p \in members'[g] : pivot2'[g][i] = input'[p][i] + EPS
      BY <2>1 DEF BoxTight
    <2>2. PICK p \in members[g] : pivot1[g][i] = input[p][i] - EPS
      BY DEF BoxTight
    <2>3. PICK q \in members[g] : pivot2[g][i] = input[q][i] + EPS
      BY DEF BoxTight
    <2>4. /\ p \in members'[g] /\ input'[p] = input[p]
          /\ q \in members'[g] /\ input'[q] = input[q]
          /\ input'[numread + 1] = t
          /\ g \in C => numread + 1 \in members'[g]
      BY <1>1, <2>1, UpdateMembers
    <2>5. CASE g \notin C
      BY <1>1, <2>2, <2>3, <2>4, <2>5, UpdateSide
    <2>6. CASE g \in C
      <3>1. /\ pivot1'[g][i] = pivot1[g][i] \/ pivot1'[g][i] = t[i] - EPS
            /\ pivot2'[g][i] = pivot2[g][i] \/ pivot2'[g][i] = t[i] + EPS
        BY <1>1, <2>6, UpdateSide DEF NewLow, NewHigh
      <3> QED  BY <2>2, <2>3, <2>4, <2>6, <3>1
    <2> QED  BY <2>5, <2>6
  <1>2. ASSUME NEW t \in Tuple, NewStep(t) PROVE BoxTight'
    <2> SUFFICES ASSUME overlap = 1, NEW g \in Group', NEW i \in Cols
                 PROVE  /\ \E p \in members'[g] : pivot1'[g][i] = input'[p][i] - EPS
                        /\ \E p \in members'[g] : pivot2'[g][i] = input'[p][i] + EPS
      BY <1>2, NewGroupFacts DEF BoxTight
    <2>1. CASE g \in Group
      BY <1>2, <2>1, NewGroupFacts DEF BoxTight
    <2>2. CASE g = indexhasharray + 1
      BY <1>2, <2>2, NewGroupFacts
    <2> QED  BY <1>2, <2>1, <2>2, NewGroupFacts
  <1>3. ASSUME NEW t \in Tuple, DropStep(t) PROVE BoxTight'
    <2>1. ASSUME NEW g \in Group, NEW p \in members[g] PROVE input'[p] = input[p]
      BY <1>3, ReadType, GroupsInPosition DEF DropStep
    <2>2. UNCHANGED groupVars /\ overlap' = overlap
      BY <1>3, ReadType DEF DropStep
    <2> QED  BY <2>1, <2>2 DEF groupVars, BoxTight, Group
  <1>4. ASSUME QuietStep PROVE BoxTight'
    BY <1>4 DEF QuietStep, groupVars, BoxTight, Group
  <1> QED  BY <1>1, <1>2, <1>3, <1>4 DEF StepKind, GroupStep

(* The distance test on the members is the box test on the bounds.         *)
LEMMA TightSoundExact ==
    ASSUME TypeOK, BoxSound, BoxTight
    PROVE  BoxIsExact
  <1> SUFFICES ASSUME overlap = 1, NEW g \in Group, NEW t \in Tuple
               PROVE  InBound(g, t) <=> \A p \in members[g] : WithinEPS(input[p], t)
    BY DEF BoxIsExact, BoxExact
  <1>1. \A i \in Cols : t[i] \in Int /\ pivot1[g][i] \in Int /\ pivot2[g][i] \in Int
    BY SGBAllAssumption, GroupsInPosition DEF TypeOK
  <1>2. \A p \in members[g] : \A i \in Cols : input[p][i] \in Int
    BY GroupsInPosition DEF TypeOK
  <1>3. ASSUME InBound(g, t), NEW p \in members[g] PROVE WithinEPS(input[p], t)
    <2>1. ASSUME NEW i \in Cols
          PROVE  input[p][i] - t[i] <= EPS /\ t[i] - input[p][i] <= EPS
      <3>1. /\ pivot1[g][i] <= t[i] /\ t[i] <= pivot2[g][i]
            /\ input[p][i] - EPS <= pivot1[g][i] /\ pivot2[g][i] <= input[p][i] + EPS
        BY <1>3 DEF InBound, BoxSound
      <3> QED  BY <1>1, <1>2, <3>1, SGBAllAssumption
    <2> QED  BY <2>1 DEF WithinEPS
  <1>4. ASSUME \A p \in members[g] : WithinEPS(input[p], t) PROVE InBound(g, t)
    <2>1. ASSUME NEW i \in Cols PROVE pivot1[g][i] <= t[i] /\ t[i] <= pivot2[g][i]
      <3>1. PICK p \in members[g] : pivot1[g][i] = input[p][i] - EPS
        BY DEF BoxTight
      <3>2. PICK q \in members[g] : pivot2[g][i] = input[q][i] + EPS
        BY DEF BoxTight
      <3>3. input[p][i] - t[i] <= EPS /\ t[i] - input[q][i] <= EPS
        BY <1>4 DEF WithinEPS
      <3> QED  BY <1>1, <1>2, <3>1, <3>2, <3>3, SGBAllAssumption
    <2> QED  BY <2>1 DEF InBound
  <1> QED  BY <1>3, <1>4

(* With ANY the box of a group admits exactly the tuples within EPS of all *)
(* its members.                                                            *)
THEOREM ExactBoxTheorem == Spec => []BoxIsExact
  <1>1. Init => BoxSound /\ BoxTight
    BY DEF Init, BoxSound, BoxTight, Group
  <1> QED  BY <1>1, TypeInit, TypeStep, StepCases, BoxSoundStep, BoxTightStep, TightSoundExact,
              PTL DEF Spec
-----------------------------------------------------------------------------
(* The tuple that names a group's hash entry stays a member of the group.  *)
LEMMA KeyStep ==
    ASSUME TypeOK, KeyIsMember, StepKind
    PROVE  KeyIsMember'
  <1>1. ASSUME NEW t \in Tuple, NEW C, NEW D, UpdateStep(t, C, D)
        PROVE  KeyIsMember'
    <2>1. Group' = Group /\ hashkey' = hashkey
      BY <1>1 DEF UpdateStep, Group
    <2>2. ASSUME NEW g \in Group PROVE \E p \in members'[g] : input'[p] = hashkey[g]
      <3>1. PICK p \in members[g] : input[p] = hashkey[g]
        BY DEF KeyIsMember
      <3> QED  BY <1>1, <3>1, UpdateMembers
    <2> QED  BY <2>1, <2>2 DEF KeyIsMember
  <1>2. ASSUME NEW t \in Tuple, NewStep(t) PROVE KeyIsMember'
    BY <1>2, NewGroupFacts DEF KeyIsMember
  <1>3. ASSUME NEW t \in Tuple, DropStep(t) PROVE KeyIsMember'
    <2>1. ASSUME NEW g \in Group, NEW p \in members[g] PROVE input'[p] = input[p]
      BY <1>3, ReadType, GroupsInPosition DEF DropStep
    <2> QED  BY <1>3, <2>1 DEF DropStep, groupVars, KeyIsMember, Group
  <1>4. ASSUME QuietStep PROVE KeyIsMember'
    BY <1>4 DEF QuietStep, groupVars, KeyIsMember, Group
  <1> QED  BY <1>1, <1>2, <1>3, <1>4 DEF StepKind, GroupStep

(* On two columns the search finds every group whose box admits the tuple. *)
LEMMA SearchComplete ==
    ASSUME TypeOK, RTreeMirrorsBoxes, numCols = 2,
           NEW t \in Tuple, NEW g \in Group, InBound(g, t)
    PROVE  g \in Accepting(t, Containing(t))
  <1> DEFINE m == getMBRinputSlot(t)
             r == rtree[g]
  <1>1. /\ t[1] \in Int /\ t[2] \in Int
        /\ pivot1[g][1] \in Int /\ pivot1[g][2] \in Int
        /\ pivot2[g][1] \in Int /\ pivot2[g][2] \in Int
    BY SGBAllAssumption, GroupsInPosition DEF TypeOK, Cols
  <1>2. /\ pivot1[g][1] <= t[1] /\ t[1] <= pivot2[g][1]
        /\ pivot1[g][2] <= t[2] /\ t[2] <= pivot2[g][2]
    BY DEF InBound, Cols
  <1>3. /\ m = <<t[1], t[2], t[1], t[2]>>
        /\ r = <<pivot1[g][1], pivot1[g][2], pivot2[g][1], pivot2[g][2]>>
    BY DEF RTreeMirrorsBoxes, getMBRinputSlot, getMBRHashEntry, RectOf
  <1>4. /\ m[1] = t[1] /\ m[2] = t[2] /\ m[3] = t[1] /\ m[4] = t[2]
        /\ r[1] = pivot1[g][1] /\ r[2] = pivot1[g][2]
        /\ r[3] = pivot2[g][1] /\ r[4] = pivot2[g][2]
    BY <1>3
  <1> HIDE DEF m, r
  <1>5. Dims = {1, 2}
    BY DEF Dims, DIMS_NUMB
  <1>6. RTreeOverlap(m, r)
    BY <1>1, <1>2, <1>4, <1>5 DEF RTreeOverlap, DIMS_NUMB
  <1>7. RTreeContained(m, r)
    BY <1>1, <1>2, <1>4, <1>5 DEF RTreeContained, INVALID_RECT, DIMS_NUMB
  <1> QED  BY <1>6, <1>7 DEF Accepting, Containing, m, r

(* ... and every group it finds admits the tuple.                          *)
LEMMA SearchSound ==
    ASSUME TypeOK, RTreeMirrorsBoxes, numCols = 2, NEW t \in Tuple, NEW g \in Containing(t)
    PROVE  InBound(g, t)
  <1> DEFINE m == getMBRinputSlot(t)
             r == rtree[g]
  <1>1. g \in Group /\ RTreeOverlap(m, r)
    BY DEF Containing
  <1>2. /\ t[1] \in Int /\ t[2] \in Int
        /\ pivot1[g][1] \in Int /\ pivot1[g][2] \in Int
        /\ pivot2[g][1] \in Int /\ pivot2[g][2] \in Int
    BY <1>1, SGBAllAssumption, GroupsInPosition DEF TypeOK, Cols
  <1>3. /\ m = <<t[1], t[2], t[1], t[2]>>
        /\ r = <<pivot1[g][1], pivot1[g][2], pivot2[g][1], pivot2[g][2]>>
    BY <1>1 DEF RTreeMirrorsBoxes, getMBRinputSlot, getMBRHashEntry, RectOf
  <1>4. /\ m[1] = t[1] /\ m[2] = t[2] /\ m[3] = t[1] /\ m[4] = t[2]
        /\ r[1] = pivot1[g][1] /\ r[2] = pivot1[g][2]
        /\ r[3] = pivot2[g][1] /\ r[4] = pivot2[g][2]
    BY <1>3
  <1> HIDE DEF m, r
  <1>5. /\ pivot1[g][1] <= t[1] /\ t[1] <= pivot2[g][1]
        /\ pivot1[g][2] <= t[2] /\ t[2] <= pivot2[g][2]
    BY <1>1, <1>2, <1>4 DEF RTreeOverlap, Dims, DIMS_NUMB
  <1> QED  BY <1>5 DEF InBound, Cols

(* On two columns a tuple whose hash entry is in use is always accepted by *)
(* a group, even if the random search stops: the early return of the       *)
(* handler is dead code there.                                             *)
LEMMA KeyInUseAccepted ==
    ASSUME TypeOK, BoxSound, RTreeMirrorsBoxes, KeyIsMember, numCols = 2,
           NEW t \in Tuple, NEW H \in ContainArray(t), KeyInUse(t)
    PROVE  Accepting(t, H) # {}
  <1>1. PICK g \in Group : hashkey[g] = t
    BY DEF KeyInUse
  <1>2. PICK p \in members[g] : input[p] = t
    BY <1>1 DEF KeyIsMember
  <1>3. InBound(g, t)
    BY <1>2 DEF BoxSound, InBound
  <1>4. g \in Containing(t)
    BY <1>3, SearchComplete DEF Accepting
  <1>5. H # {}
    <2>1. H = Containing(t) \/ Cardinality(H) > 3
      BY DEF ContainArray
    <2> QED  BY <1>4, <2>1, FS_EmptySet
  <1>6. PICK h \in H : TRUE
    BY <1>5
  <1> QED  BY <1>6, AcceptingInAll, SearchSound DEF Accepting

LEMMA GroupedStep ==
    ASSUME TypeOK, BoxSound, RTreeMirrorsBoxes, KeyIsMember, EveryTupleGrouped, [Next]_vars
    PROVE  EveryTupleGrouped'
  <1>1. overlap' = overlap
    BY StepCases, ReadType DEF StepKind, GroupStep, UpdateStep, NewStep, DropStep, QuietStep
  <1> SUFFICES ASSUME overlap = 1, numCols = 2, AllGrouped PROVE AllGrouped'
    BY <1>1 DEF EveryTupleGrouped
  <1>2. ASSUME NEW p \in 1 .. numread, Group \subseteq Group'
        PROVE  \E g \in Group' : p \in members'[g]
    BY <1>2, StepCases, StepShrinks DEF AllGrouped, ShrinkStep
  <1>3. ASSUME NEW t \in Tuple, Read(t)
        PROVE  1 .. numread' = (1 .. numread) \cup {numread + 1}
    <2>1. numread \in Nat
      BY DEF TypeOK
    <2>2. numread' = numread + 1
      BY <1>3, ReadType
    <2> QED  BY <2>1, <2>2
  <1>4. ASSUME NEW t \in Tuple, NEW C, NEW D, UpdateStep(t, C, D)
        PROVE  AllGrouped'
    <2>1. Group' = Group /\ Read(t) /\ D # {} /\ D \subseteq Group
      BY <1>4, GroupsInPosition DEF UpdateStep, Group
    <2>2. \E g \in Group' : numread + 1 \in members'[g]
      BY <1>4, <2>1, UpdateMembers
    <2> QED  BY <1>2, <1>3, <2>1, <2>2 DEF AllGrouped
  <1>5. ASSUME NEW t \in Tuple, NewStep(t) PROVE AllGrouped'
    <2>1. Read(t) /\ Group \subseteq Group' /\ \E g \in Group' : numread + 1 \in members'[g]
      BY <1>5, NewGroupFacts DEF NewStep
    <2> QED  BY <1>2, <1>3, <2>1 DEF AllGrouped
  <1>6. ASSUME NEW t \in Tuple, NEW H \in ContainArray(t), KeyTaken(t, H) PROVE FALSE
    BY <1>6, KeyInUseAccepted DEF KeyTaken
  <1>7. ASSUME QuietStep PROVE AllGrouped'
    BY <1>7 DEF QuietStep, groupVars, AllGrouped, Group
  <1> QED  BY <1>4, <1>5, <1>6, <1>7, StepCases DEF GroupStep

(* With ANY on two columns no tuple is lost.                               *)
THEOREM GroupedTheorem == Spec => []EveryTupleGrouped
  <1>1. Init => BoxSound /\ RTreeMirrorsBoxes /\ KeyIsMember /\ EveryTupleGrouped
    BY DEF Init, BoxSound, RTreeMirrorsBoxes, KeyIsMember, EveryTupleGrouped,
           AllGrouped, Group
  <1> QED  BY <1>1, TypeInit, TypeStep, StepCases, BoxSoundStep, MirrorStep, KeyStep, GroupedStep,
              PTL DEF Spec
-----------------------------------------------------------------------------
(* On one column the search takes the upper bound of a group for a lower   *)
(* side: what it finds is not below that bound.                            *)
LEMMA SearchOnColumn ==
    ASSUME TypeOK, RTreeMirrorsBoxes, numCols = 1, NEW t \in Tuple, NEW g \in Containing(t)
    PROVE  pivot2[g][1] <= t[1]
  <1> DEFINE m == getMBRinputSlot(t)
             r == rtree[g]
  <1>1. g \in Group /\ RTreeOverlap(m, r) /\ RTreeContained(m, r)
    BY DEF Containing
  <1>2. t[1] \in Int /\ pivot1[g][1] \in Int /\ pivot2[g][1] \in Int
    BY <1>1, SGBAllAssumption, GroupsInPosition DEF TypeOK, Cols
  <1>3. m = <<t[1], t[1], 0, 0>> /\ r = <<pivot1[g][1], pivot2[g][1], 0, 0>>
    BY <1>1 DEF RTreeMirrorsBoxes, getMBRinputSlot, getMBRHashEntry, RectOf
  <1>4. /\ m[1] = t[1] /\ m[2] = t[1] /\ m[3] = 0 /\ m[4] = 0
        /\ r[1] = pivot1[g][1] /\ r[2] = pivot2[g][1] /\ r[3] = 0 /\ r[4] = 0
    BY <1>3
  <1> HIDE DEF m, r
  <1>5. Dims = {1, 2}
    BY DEF Dims, DIMS_NUMB
  <1>6. t[1] <= 0
    BY <1>1, <1>2, <1>4, <1>5 DEF RTreeOverlap, DIMS_NUMB
  <1>7. ~INVALID_RECT(m)
    BY <1>2, <1>4, <1>6 DEF INVALID_RECT, DIMS_NUMB
  <1> QED  BY <1>1, <1>2, <1>4, <1>5, <1>7 DEF RTreeContained

(* So on one column only the bound itself can join, which leaves the bound *)
(* where it is: EPS above the tuple that founded the group.                *)
BoundAboveKey ==
    numCols = 1 => \A g \in Group : pivot2[g][1] = hashkey[g][1] + EPS

LEMMA BoundAboveKeyStep ==
    ASSUME TypeOK, RTreeMirrorsBoxes, BoundAboveKey, StepKind
    PROVE  BoundAboveKey'
  <1> SUFFICES ASSUME numCols = 1 PROVE BoundAboveKey'
    BY DEF BoundAboveKey
  <1>0. /\ EPS \in Nat \ {0} /\ 1 \in Cols /\ Group \subseteq Position
        /\ \A t \in Tuple : t[1] \in Int
        /\ \A g \in Group : pivot1[g][1] \in Int /\ pivot2[g][1] \in Int
    BY SGBAllAssumption, GroupsInPosition DEF TypeOK, Cols
  <1>1. ASSUME NEW t \in Tuple, NEW C, NEW D, UpdateStep(t, C, D)
        PROVE  BoundAboveKey'
    <2>1. Group' = Group /\ hashkey' = hashkey
      BY <1>1 DEF UpdateStep, Group
    <2>2. ASSUME NEW g \in Group PROVE pivot2'[g][1] = pivot2[g][1]
      <3>1. CASE g \notin C
        BY <1>0, <1>1, <3>1 DEF UpdateStep, UpdateBounds
      <3>2. CASE g \in C
        <4>1. g \in Containing(t) /\ t[1] <= pivot2[g][1]
          BY <1>0, <1>1, <3>2 DEF UpdateStep, Accepting, InBound
        <4>2. pivot2[g][1] <= t[1]
          BY <4>1, SearchOnColumn
        <4>3. NewHigh(pivot1[g][1], pivot2[g][1], t[1]) = pivot2[g][1]
          BY <1>0, <4>1, <4>2 DEF NewHigh
        <4> QED  BY <1>0, <1>1, <3>2, <4>3 DEF UpdateStep, UpdateBounds, JoinedHigh
      <3> QED  BY <3>1, <3>2
    <2> QED  BY <2>1, <2>2 DEF BoundAboveKey
  <1>2. ASSUME NEW t \in Tuple, NewStep(t) PROVE BoundAboveKey'
    <2>1. indexhasharray \in Nat /\ indexhasharray + 1 \in Position
      BY <1>2, SGBAllAssumption DEF NewStep, Read, TypeOK, Position
    <2>2. Group' = Group \cup {indexhasharray + 1}
      BY <1>2, <2>1 DEF NewStep, Group
    <2>3. /\ pivot2'[indexhasharray + 1] = HighAround(t) /\ hashkey'[indexhasharray + 1] = t
          /\ \A g \in Group : g # indexhasharray + 1 =>
                 pivot2'[g] = pivot2[g] /\ hashkey'[g] = hashkey[g]
      BY <1>0, <1>2, <2>1 DEF NewStep, TypeOK
    <2>4. HighAround(t)[1] = t[1] + EPS
      BY <1>0 DEF HighAround
    <2> QED  BY <2>2, <2>3, <2>4 DEF BoundAboveKey
  <1>3. ASSUME NEW t \in Tuple, DropStep(t) PROVE BoundAboveKey'
    BY <1>3 DEF DropStep, groupVars, BoundAboveKey, Group
  <1>4. ASSUME QuietStep PROVE BoundAboveKey'
    BY <1>4 DEF QuietStep, groupVars, BoundAboveKey, Group
  <1> QED  BY <1>1, <1>2, <1>3, <1>4 DEF StepKind, GroupStep

LostHidden ==
    (overlap = 1 /\ numread' # numread /\ members' = members) =>
        \E g \in Group : /\ hashkey[g] = input'[numread']
                         /\ InBound(g, hashkey[g])
                         /\ g \notin Containing(hashkey[g])

LEMMA LostHiddenStep ==
    ASSUME TypeOK, BoxSound, RTreeMirrorsBoxes, KeyIsMember, BoundAboveKey, [Next]_vars
    PROVE  LostHidden
  <1> SUFFICES ASSUME overlap = 1, numread' # numread, members' = members
               PROVE  \E g \in Group : /\ hashkey[g] = input'[numread']
                                       /\ InBound(g, hashkey[g])
                                       /\ g \notin Containing(hashkey[g])
    BY DEF LostHidden
  <1>1. ASSUME NEW t \in Tuple, NEW C, NEW D, UpdateStep(t, C, D) PROVE FALSE
    <2>1. D # {} /\ D \subseteq Group /\ Group \subseteq Position
      BY <1>1, GroupsInPosition DEF UpdateStep
    <2>2. PICK g \in D : numread + 1 \in members'[g]
      BY <1>1, <2>1 DEF UpdateStep
    <2>3. g \in Group /\ numread + 1 \notin 1 .. numread
      BY <2>1, GroupsInPosition
    <2> QED  BY <2>2, <2>3, GroupsInPosition
  <1>2. ASSUME NEW t \in Tuple, NewStep(t) PROVE FALSE
    <2>1. indexhasharray + 1 \in Position
      BY <1>2, SGBAllAssumption DEF NewStep, Read, TypeOK, Position
    <2>2. members'[indexhasharray + 1] = {numread + 1}
      BY <1>2, <2>1 DEF NewStep, TypeOK
    <2>3. members[indexhasharray + 1] \subseteq 1 .. numread /\ numread \in Nat
      BY <2>1 DEF TypeOK
    <2>4. numread + 1 \notin 1 .. numread
      BY <2>3
    <2> QED  BY <2>2, <2>3, <2>4
  <1>3. PICK t \in Tuple : \E H \in ContainArray(t) : KeyTaken(t, H)
    BY <1>1, <1>2, StepCases DEF GroupStep, QuietStep
  <1>4. PICK H \in ContainArray(t) : KeyTaken(t, H)
    BY <1>3
  <1>5. input'[numread'] = t
    <2>1. Read(t) /\ numread \in Nat /\ numread < MaxTuples
      BY <1>4 DEF KeyTaken, Read, TypeOK
    <2>2. numread + 1 \in Position
      BY <2>1, SGBAllAssumption DEF Position
    <2> QED  BY <2>1, <2>2 DEF Read, TypeOK
  <1>6. PICK g \in Group : hashkey[g] = t
    BY <1>4 DEF KeyTaken, KeyInUse
  <1>7. PICK p \in members[g] : input[p] = t
    BY <1>6 DEF KeyIsMember
  <1>8. InBound(g, t)
    BY <1>7 DEF BoxSound, InBound
  <1>9. numCols # 2
    BY <1>4, KeyInUseAccepted DEF KeyTaken
  <1>10. g \notin Containing(t)
    <2>1. numCols = 1
      BY <1>9, NumColsAssumption
    <2>2. t[1] \in Int /\ EPS \in Nat \ {0} /\ pivot2[g][1] = t[1] + EPS
      BY <1>6, <2>1, SGBAllAssumption DEF BoundAboveKey, Cols
    <2>3. ~(pivot2[g][1] <= t[1])
      BY <2>2
    <2> QED  BY <2>1, <2>3, SearchOnColumn
  <1> QED  BY <1>5, <1>6, <1>8, <1>10

(* With ANY, on one or two columns, a tuple is lost only because the       *)
(* rectangle of a group that would take it hides the group; that the       *)
(* random search gives up early never costs a tuple.                       *)
THEOREM HiddenTheorem == Spec => LostOnlyHidden
  <1>1. Init => BoxSound /\ RTreeMirrorsBoxes /\ KeyIsMember /\ BoundAboveKey
    BY DEF Init, BoxSound, RTreeMirrorsBoxes, KeyIsMember, BoundAboveKey, Group
  <1>2. TypeOK /\ BoxSound /\ RTreeMirrorsBoxes /\ KeyIsMember /\ BoundAboveKey /\ [Next]_vars
           => [LostHidden]_vars
    BY LostHiddenStep
  <1>3. Spec => [][LostHidden]_vars
    BY <1>1, <1>2, TypeInit, TypeStep, StepCases, BoxSoundStep, MirrorStep, KeyStep,
       BoundAboveKeyStep, PTL DEF Spec
  <1> QED  BY <1>3 DEF LostOnlyHidden, LostHidden
-----------------------------------------------------------------------------
(* A tuple that a group accepts is within EPS of all its members.          *)
LEMMA AcceptedIsNear ==
    ASSUME TypeOK, BoxSound, NEW t \in Tuple, NEW g \in Accepting(t, Containing(t)),
           NEW p \in members[g]
    PROVE  WithinEPS(input[p], t)
  <1>1. g \in Group /\ InBound(g, t) /\ p \in Position /\ g \in Position
    BY GroupsInPosition DEF Accepting
  <1>2. ASSUME NEW i \in Cols
        PROVE  input[p][i] - t[i] <= EPS /\ t[i] - input[p][i] <= EPS
    <2>1. /\ input[p][i] \in Int /\ t[i] \in Int /\ EPS \in Int
          /\ pivot1[g][i] \in Int /\ pivot2[g][i] \in Int
      BY <1>1, SGBAllAssumption DEF TypeOK
    <2>2. /\ input[p][i] - EPS <= pivot1[g][i] /\ pivot2[g][i] <= input[p][i] + EPS
          /\ pivot1[g][i] <= t[i] /\ t[i] <= pivot2[g][i]
      BY <1>1 DEF BoxSound, InBound
    <2> QED  BY <2>1, <2>2
  <1> QED  BY <1>2 DEF WithinEPS

LEMMA TwoElements ==
    ASSUME NEW S, IsFiniteSet(S), Cardinality(S) >= 2
    PROVE  \E a, b \in S : a # b
  <1>1. PICK a \in S : TRUE
    BY FS_EmptySet
  <1>2. S # {a}
    BY FS_Singleton
  <1> QED  BY <1>1, <1>2

DropOverlaps ==
    (overlap = 3 /\ numread' # numread /\ members' = members) =>
        \E g, h \in Group :
            /\ g # h
            /\ \A p \in members[g] \cup members[h] : WithinEPS(input[p], input'[numread'])

LEMMA StepDropOverlaps ==
    ASSUME TypeOK, BoxSound, RTreeMirrorsBoxes, KeyIsMember, numCols = 2, [Next]_vars
    PROVE  DropOverlaps
  <1> SUFFICES ASSUME overlap = 3, numread' # numread, members' = members
               PROVE  \E g, h \in Group :
                         /\ g # h
                         /\ \A p \in members[g] \cup members[h] :
                               WithinEPS(input[p], input'[numread'])
    BY DEF DropOverlaps
  <1>1. ASSUME NEW t \in Tuple, NEW H, JoinOnly(t, H) PROVE FALSE
    <2>1. PICK g \in Position : AddMember(g)
      BY <1>1 DEF JoinOnly
    <2>2. members[g] \subseteq 1 .. numread /\ numread \in Nat
      BY DEF TypeOK
    <2>3. numread + 1 \in members'[g]
      BY <2>1 DEF AddMember, TypeOK
    <2> QED  BY <2>2, <2>3
  <1>2. ASSUME NEW t \in Tuple, NEW H, NewGroup(t, H) PROVE FALSE
    <2>1. members'[indexhasharray + 1] = {numread + 1} /\ indexhasharray + 1 \in Position
      BY <1>2, NewGroupIsNewStep, NewGroupFacts, ReadType, SGBAllAssumption DEF NewGroup, TypeOK, Position
    <2>2. members \in [Position -> SUBSET (1 .. numread)] /\ numread \in Nat
      BY DEF TypeOK
    <2>3. numread + 1 \in members[indexhasharray + 1]
      BY <2>1
    <2>4. members[indexhasharray + 1] \subseteq 1 .. numread
      BY <2>1, <2>2
    <2> QED  BY <2>2, <2>3, <2>4
  <1>3. ASSUME NEW t \in Tuple, NEW H \in ContainArray(t), KeyTaken(t, H) PROVE FALSE
    BY <1>3, KeyInUseAccepted DEF KeyTaken
  <1>4. ASSUME NEW t \in Tuple, NEW H \in ContainArray(t), Eliminate(t, H)
        PROVE  \E g, h \in Group :
                  /\ g # h
                  /\ \A p \in members[g] \cup members[h] : WithinEPS(input[p], input'[numread'])
    <2>1. /\ input'[numread'] = t
      BY <1>4, ReadType DEF Eliminate
    <2>2. IsFiniteSet(Accepting(t, H)) /\ Accepting(t, H) \subseteq Group
      <3>1. indexhasharray \in Int
        BY DEF TypeOK
      <3>2. IsFiniteSet(Group)
        BY <3>1, FS_Interval DEF Group
      <3> QED  BY <3>2, AcceptingInAll, GroupsInPosition, FS_Subset
    <2>3. PICK g, h \in Accepting(t, H) : g # h
      BY <1>4, <2>2, TwoElements DEF Eliminate
    <2>4. \A p \in members[g] \cup members[h] : WithinEPS(input[p], t)
      BY <2>3, AcceptingInAll, AcceptedIsNear
    <2> QED  BY <2>1, <2>2, <2>3, <2>4
  <1>5. ~(OutputStep \/ ReScanSame \/ UNCHANGED vars)
    BY DEF OutputStep, EndOfInput, RetrieveEntry, RetrieveEnd, ReScanSame, vars
  <1>6. ASSUME NEW t \in Tuple, NEW H, JoinAny(t, H) \/ NoHandler(t) PROVE FALSE
    BY <1>6 DEF JoinAny, NoHandler
  <1> QED  BY <1>1, <1>2, <1>3, <1>4, <1>5, <1>6 DEF Next, FillStep

(* With two grouping columns ELIMINATE drops a tuple only if it is within  *)
(* EPS of all members of at least two groups: neither a box narrowed by an *)
(* earlier tuple that was itself dropped nor the early return for a hash   *)
(* entry in use loses one that has a place.                                *)
THEOREM DropTheorem == ASSUME numCols = 2 PROVE Spec => DroppedTupleOverlaps
  <1>1. Init => BoxSound /\ RTreeMirrorsBoxes /\ KeyIsMember
    BY DEF Init, BoxSound, RTreeMirrorsBoxes, KeyIsMember, Group
  <1>2. TypeOK /\ BoxSound /\ RTreeMirrorsBoxes /\ KeyIsMember /\ [Next]_vars
           => [DropOverlaps]_vars
    BY StepDropOverlaps
  <1>3. Spec => [][DropOverlaps]_vars
    BY <1>1, <1>2, TypeInit, TypeStep, StepCases, BoxSoundStep, MirrorStep, KeyStep, PTL DEF Spec
  <1> QED  BY <1>3 DEF DroppedTupleOverlaps, DropOverlaps
=============================================================================
