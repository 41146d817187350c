-------------------------- MODULE SGBAroundProofs ---------------------------
(***************************************************************************)
(* Proofs about the one-dimensional similarity group-bys, for any query,   *)
(* list of centers and input.                                              *)
(***************************************************************************)
EXTENDS SGBAround, InductionLemmas, FiniteSetTheorems, SequenceTheorems

(* The least element that Min chooses.                                     *)
LEMMA MinFacts ==
    ASSUME NEW S \in SUBSET Nat, S # {}
    PROVE  Min(S) \in S /\ \A m \in S : Min(S) <= m
  <1>1. \E n \in S : \A m \in S : n <= m
    BY LeastNatural
  <1> QED  BY <1>1 DEF Min

LEMMA MinIs ==
    ASSUME NEW S \in SUBSET Nat, NEW n \in S, \A m \in S : n <= m
    PROVE  Min(S) = n
  <1>1. Min(S) \in S /\ Min(S) <= n
    BY MinFacts
  <1>2. n <= Min(S) /\ n \in Nat /\ Min(S) \in Nat
    BY <1>1
  <1> QED  BY <1>1, <1>2

(* The input is sorted on v, and an unsupervised group has a first element *)
(* once a tuple was read.                                                  *)
Sorted == \A p, q \in 1 .. numread : p <= q => input[p][1] <= input[q][1]

Started == (Fill = "unsupervised" /\ ~firstTuple) => firstGrpElement \in Value

LEMMA ConstFacts ==
    ASSUME TypeOK
    PROVE  /\ Value \subseteq Int
           /\ centers \in Seq(Value) /\ Last \in Nat
           /\ \A k \in 1 .. Last : centers[k] \in Value /\ centers[k] \in Int
           /\ query.diam \in Int /\ query.sep \in Int /\ query.around \in BOOLEAN
           /\ numread \in Nat /\ numread = Len(input)
           /\ \A p \in 1 .. numread : /\ input[p] \in Tuple
                                      /\ input[p][1] \in Value /\ input[p][1] \in Int
                                      /\ input[p][2] \in Other
  <1>1. Value \subseteq Int /\ CenterLists \subseteq Seq(Value)
    BY SGBAroundAssumption
  <1>2. centers \in Seq(Value)
    <2>1. <<>> \in Seq(Value)
      OBVIOUS
    <2> QED  BY <1>1, <2>1 DEF TypeOK
  <1>3. \A k \in 1 .. Last : centers[k] \in Value /\ centers[k] \in Int
    <2>1. \A k \in 1 .. Len(centers) : centers[k] \in Value
      BY <1>2
    <2> QED  BY <1>1, <2>1 DEF Last
  <1>4. Last \in Nat
    BY <1>2 DEF Last
  <1>5. query \in [around : BOOLEAN, diam : Nat \cup {-1}, sep : Nat \cup {-1}]
    BY SGBAroundAssumption DEF TypeOK
  <1>6. query.diam \in Int /\ query.sep \in Int /\ query.around \in BOOLEAN
    BY <1>5
  <1>7. input \in Seq(Tuple) /\ numread = Len(input) /\ numread \in Nat
    BY DEF TypeOK
  <1>8. \A p \in 1 .. numread : input[p] \in Tuple
    BY <1>7
  <1>9. \A x \in Tuple : x[1] \in Value /\ x[2] \in Other
    BY DEF Tuple
  <1> QED  BY <1>1, <1>2, <1>3, <1>4, <1>6, <1>7, <1>8, <1>9

LEMMA FetchFacts ==
    ASSUME TypeOK, NEW t \in Tuple, Fetch(t)
    PROVE  /\ numread' = numread + 1 /\ numread' = Len(input') /\ input' \in Seq(Tuple)
           /\ numread + 1 \in 1 .. numread'
           /\ input'[numread + 1] = t
           /\ \A p \in 1 .. numread : input'[p] = input[p] /\ p \in 1 .. numread' /\ p # numread + 1
           /\ 1 .. numread' = (1 .. numread) \cup {numread + 1}
           /\ t[1] \in Value /\ t[1] \in Int /\ t[2] \in Other
           /\ UNCHANGED <<query, centers, returned>> /\ Fill' = Fill /\ Last' = Last
           /\ Fill # "unsupervised" => centers # <<>>
  <1>1. /\ numread' = numread + 1 /\ input' = Append(input, t)
        /\ UNCHANGED <<query, centers, returned>>
        /\ Fill # "unsupervised" => centers # <<>>
    BY DEF Fetch
  <1>2. input \in Seq(Tuple) /\ numread = Len(input) /\ numread \in Nat
    BY ConstFacts DEF TypeOK
  <1>3. /\ input' \in Seq(Tuple) /\ Len(input') = numread + 1
        /\ input'[numread + 1] = t
        /\ \A p \in 1 .. numread : input'[p] = input[p]
    BY <1>1, <1>2
  <1>4. t[1] \in Value /\ t[2] \in Other /\ t[1] \in Int
    BY ConstFacts DEF Tuple
  <1>5. Fill' = Fill /\ Last' = Last
    BY <1>1 DEF Fill, Last
  <1>6. 1 .. numread + 1 = (1 .. numread) \cup {numread + 1}
    BY <1>2
  <1> QED  BY <1>1, <1>2, <1>3, <1>4, <1>5, <1>6

(* The loops over the pivots end at a center, and pass every earlier one   *)
(* for a reason.                                                           *)
LEMMA PivotFacts ==
    ASSUME TypeOK, centers # <<>>, NEW v
    PROVE  /\ PivotFor(v) \in pivot1 .. Last /\ PivotFor(v) \in 1 .. Last
           /\ MatchAround(PivotFor(v), v)
           /\ \A j \in pivot1 .. PivotFor(v) - 1 : ~MatchAround(j, v)
           /\ PivotForMaxR(v) \in pivot1 .. Last /\ PivotForMaxR(v) \in 1 .. Last
           /\ VerdictMaxR(PivotForMaxR(v), v) # "advance"
           /\ \A j \in pivot1 .. PivotForMaxR(v) - 1 : VerdictMaxR(j, v) = "advance"
           /\ pivot1 \in 1 .. Last
  <1>1. Last \in Nat /\ pivot1 \in 1 .. Last
    BY ConstFacts DEF TypeOK
  <1> DEFINE S == {k \in pivot1 .. Last : MatchAround(k, v)}
             T == {k \in pivot1 .. Last : VerdictMaxR(k, v) # "advance"}
  <1>2. Last \in S
    BY <1>1 DEF MatchAround
  <1>3. Last \in T
    BY <1>1 DEF VerdictMaxR
  <1>4. S \in SUBSET Nat /\ S # {} /\ T \in SUBSET Nat /\ T # {}
    BY <1>1, <1>2, <1>3
  <1>5. PivotFor(v) = Min(S) /\ PivotForMaxR(v) = Min(T)
    BY DEF PivotFor, PivotForMaxR
  <1>6. /\ Min(S) \in S /\ \A m \in S : Min(S) <= m
        /\ Min(T) \in T /\ \A m \in T : Min(T) <= m
    <2> HIDE DEF S, T
    <2> QED  BY <1>4, MinFacts
  <1>7. ASSUME NEW j \in pivot1 .. Min(S) - 1 PROVE ~MatchAround(j, v)
    <2>1. j \in pivot1 .. Last /\ ~(Min(S) <= j)
      BY <1>1, <1>6
    <2> QED  BY <1>6, <2>1
  <1>8. ASSUME NEW j \in pivot1 .. Min(T) - 1 PROVE VerdictMaxR(j, v) = "advance"
    <2>1. j \in pivot1 .. Last /\ ~(Min(T) <= j)
      BY <1>1, <1>6
    <2> QED  BY <1>6, <2>1
  <1>9. /\ Min(S) \in pivot1 .. Last /\ Min(S) \in 1 .. Last /\ MatchAround(Min(S), v)
        /\ Min(T) \in pivot1 .. Last /\ Min(T) \in 1 .. Last
        /\ VerdictMaxR(Min(T), v) # "advance"
    BY <1>1, <1>6
  <1> QED  BY <1>1, <1>5, <1>7, <1>8, <1>9

(* An aggregate takes the current tuple.                                   *)
LEMMA AddedType ==
    ASSUME TypeOK, NEW t \in Tuple, Fetch(t), NEW v \in Value,
           NEW m \in [Entry -> SUBSET (1 .. numread)]
    PROVE  /\ EntryOf(v, t) \in Entry
           /\ Added(m, EntryOf(v, t)) \in [Entry -> SUBSET (1 .. numread')]
  <1>1. EntryOf(v, t) \in Entry
    BY FetchFacts DEF EntryOf, Entry
  <1>2. 1 .. numread \subseteq 1 .. numread' /\ numread + 1 \in 1 .. numread'
    BY FetchFacts
  <1> QED  BY <1>1, <1>2 DEF Added
-----------------------------------------------------------------------------
LEMMA TypeInit == Init => TypeOK /\ Sorted /\ Started
  <1> SUFFICES ASSUME Init PROVE TypeOK /\ Sorted /\ Started
    OBVIOUS
  <1>1. centers \in CenterLists \cup {<<>>} /\ CenterLists \subseteq Seq(Value)
    BY SGBAroundAssumption DEF Init
  <1>2. pivot1 \in 1 .. Last \/ (centers = <<>> /\ pivot1 = 1)
    <2>1. CASE centers = <<>>
      BY <2>1 DEF Init
    <2>2. CASE centers # <<>>
      <3>1. centers \in Seq(Value) /\ Len(centers) \in Nat /\ Len(centers) # 0
        BY <1>1, <2>2
      <3> QED  BY <3>1 DEF Init, Last
    <2> QED  BY <2>1, <2>2
  <1>3. input \in Seq(Tuple) /\ Len(input) = 0 /\ numread = 0
    BY DEF Init
  <1>4. members \in [Entry -> SUBSET (1 .. numread)] /\ flagEnabled \in [Entry -> 0 .. 2]
    BY DEF Init
  <1>5. query \in Queries /\ pc = "fill" /\ basePosition = 0 /\ firstGrpElement = 0
    BY DEF Init
  <1>6. firstTuple = TRUE /\ curChain = FALSE /\ ignoring = FALSE /\ returned = {}
    BY DEF Init
  <1>7. TypeOK
    BY <1>1, <1>2, <1>3, <1>4, <1>5, <1>6 DEF TypeOK
  <1>8. Sorted
    BY <1>3 DEF Sorted
  <1>9. Started
    BY <1>6 DEF Started
  <1> QED  BY <1>7, <1>8, <1>9

(* The part of the state that a step of max-separation does not decide.    *)
LEMMA ProcessType ==
    ASSUME TypeOK, NEW t \in Tuple, Fetch(t), NEW k \in 1 .. Last,
           NEW m \in [Entry -> SUBSET (1 .. numread)], NEW f \in [Entry -> 0 .. 2],
           Process(k, t, m, f)
    PROVE  /\ members' \in [Entry -> SUBSET (1 .. numread')]
           /\ flagEnabled' \in [Entry -> 0 .. 2]
           /\ basePosition' \in Value \cup {0}
  <1>1. centers[k] \in Value
    BY ConstFacts
  <1>2. /\ EntryOf(centers[k], t) \in Entry
        /\ Added(m, EntryOf(centers[k], t)) \in [Entry -> SUBSET (1 .. numread')]
    BY <1>1, AddedType
  <1>3. t[1] \in Value
    BY FetchFacts
  <1> QED  BY <1>2, <1>3 DEF Process

LEMMA ChainType ==
    ASSUME TypeOK
    PROVE  /\ enable_chain(flagEnabled) \in [Entry -> 0 .. 2]
           /\ resetFlags(flagEnabled) \in [Entry -> 0 .. 2]
           /\ resetAggs(members) \in [Entry -> SUBSET (1 .. numread)]
  BY DEF TypeOK, enable_chain, resetFlags, resetAggs

LEMMA KeptType ==
    ASSUME TypeOK, NEW t \in Tuple, Fetch(t)
    PROVE  \A m \in [Entry -> SUBSET (1 .. numread)] : m \in [Entry -> SUBSET (1 .. numread')]
  <1>1. 1 .. numread \subseteq 1 .. numread'
    BY FetchFacts
  <1> QED  BY <1>1

LEMMA MaxSType ==
    ASSUME TypeOK, NEW t \in Tuple, MaxS(t)
    PROVE  /\ Fetch(t) /\ Fill = "MaxS" /\ UNCHANGED <<pc, firstGrpElement>>
           /\ pivot1' \in 1 .. Last
           /\ basePosition' \in Value \cup {0}
           /\ {firstTuple', curChain', ignoring'} \subseteq BOOLEAN
           /\ members' \in [Entry -> SUBSET (1 .. numread')]
           /\ flagEnabled' \in [Entry -> 0 .. 2]
  <1>1. Fetch(t) /\ Fill = "MaxS" /\ UNCHANGED <<pc, firstGrpElement>>
    BY DEF MaxS, NewPivot, FirstTuple, Ignored, NoCut, CutJoined, CutRestart, CutComplete,
           CutGiveUp, LaterTuple, FetchMaxS
  <1>2. centers # <<>>
    BY <1>1, FetchFacts
  <1>3. pivot1 \in 1 .. Last /\ PivotFor(t[1]) \in 1 .. Last
    BY <1>2, PivotFacts
  <1>4. /\ members \in [Entry -> SUBSET (1 .. numread)] /\ flagEnabled \in [Entry -> 0 .. 2]
        /\ members \in [Entry -> SUBSET (1 .. numread')]
        /\ basePosition \in Value \cup {0}
        /\ firstTuple \in BOOLEAN /\ curChain \in BOOLEAN /\ ignoring \in BOOLEAN
    BY <1>1, KeptType DEF TypeOK
  <1>5. CASE NewPivot(t)
    <2> DEFINE k == PivotFor(t[1])
               f == IF curChain THEN enable_chain(flagEnabled) ELSE flagEnabled
    <2>1. /\ pivot1' = k /\ Process(k, t, members, f)
          /\ ignoring' = FALSE /\ curChain' = Connected(k, t[1]) /\ firstTuple' = firstTuple
      BY <1>5 DEF NewPivot
    <2>2. f \in [Entry -> 0 .. 2]
      BY <1>4, ChainType
    <2>3. curChain' \in BOOLEAN
      BY <2>1, Zenon DEF Connected
    <2>4. /\ members' \in [Entry -> SUBSET (1 .. numread')]
          /\ flagEnabled' \in [Entry -> 0 .. 2]
          /\ basePosition' \in Value \cup {0}
      <3> HIDE DEF k, f
      <3> QED  BY <1>1, <1>3, <1>4, <2>1, <2>2, ProcessType DEF k
    <2> QED  BY <1>1, <1>3, <1>4, <2>1, <2>3, <2>4
  <1>6. CASE FirstTuple(t) \/ NoCut(t) \/ CutJoined(t)
    <2>1. /\ Process(pivot1, t, members, flagEnabled) /\ pivot1' = pivot1
          /\ ignoring' = ignoring /\ firstTuple' \in {firstTuple, FALSE}
      BY <1>6 DEF FirstTuple, NoCut, CutJoined, LaterTuple
    <2>2. \/ curChain' = Connected(pivot1, t[1])
          \/ curChain' = (curChain \/ Connected(pivot1, t[1]))
          \/ curChain' = curChain
      BY <1>6 DEF FirstTuple, NoCut, CutJoined
    <2>3. curChain' \in BOOLEAN
      BY <1>4, <2>2, Zenon DEF Connected
    <2> QED  BY <1>1, <1>3, <1>4, <2>1, <2>3, ProcessType
  <1>7. CASE CutRestart(t)
    <2>1. /\ Process(pivot1, t, resetAggs(members), resetFlags(flagEnabled)) /\ pivot1' = pivot1
          /\ ignoring' = ignoring /\ firstTuple' = firstTuple /\ curChain' = TRUE
      BY <1>7 DEF CutRestart, LaterTuple
    <2> QED  BY <1>1, <1>3, <1>4, <2>1, ProcessType, ChainType
  <1>8. CASE Ignored(t) \/ CutComplete(t) \/ CutGiveUp(t)
    <2>1. /\ members' \in {members, resetAggs(members)} /\ pivot1' = pivot1
          /\ flagEnabled' \in {flagEnabled, enable_chain(flagEnabled), resetFlags(flagEnabled)}
          /\ basePosition' = basePosition /\ firstTuple' = firstTuple
          /\ ignoring' \in {ignoring, TRUE} /\ curChain' \in {curChain, FALSE}
      BY <1>8 DEF Ignored, CutComplete, CutGiveUp, LaterTuple, tableVars
    <2>2. members' \in [Entry -> SUBSET (1 .. numread')]
      BY <1>1, <1>4, <2>1, ChainType, KeptType
    <2> QED  BY <1>1, <1>3, <1>4, <2>1, <2>2, ChainType
  <1> QED  BY <1>5, <1>6, <1>7, <1>8 DEF MaxS

LEMMA TypeStep == TypeOK /\ Sorted /\ Started /\ [Next]_vars => (TypeOK /\ Sorted /\ Started)'
  <1> SUFFICES ASSUME TypeOK, Sorted, Started, [Next]_vars
               PROVE  TypeOK' /\ Sorted' /\ Started'
    OBVIOUS
  <1>f. ASSUME NEW t \in Tuple, Fetch(t)
        PROVE  /\ Sorted'
               /\ query' \in Queries /\ centers' \in CenterLists \cup {<<>>}
               /\ returned' \subseteq Entry /\ numread' = Len(input') /\ input' \in Seq(Tuple)
    <2>1. Sorted'
      <3>1. ASSUME NEW p \in 1 .. numread PROVE input[p][1] <= t[1]
        <4>1. numread > 0 /\ numread \in 1 .. numread /\ p <= numread /\ numread \in Nat
          BY ConstFacts
        <4>2. input[numread][1] <= t[1] /\ input[p][1] <= input[numread][1]
          BY <1>f, <4>1 DEF Fetch, Sorted
        <4>3. input[numread][1] \in Int /\ input[p][1] \in Int /\ t[1] \in Int
          BY <1>f, <4>1, ConstFacts, FetchFacts
        <4> QED  BY <4>2, <4>3
      <3> SUFFICES ASSUME NEW p \in 1 .. numread', NEW q \in 1 .. numread', p <= q
                   PROVE  input'[p][1] <= input'[q][1]
        BY DEF Sorted
      <3>2. CASE q \in 1 .. numread
        <4>1. p \in 1 .. numread
          BY <3>2, ConstFacts
        <4> QED  BY <1>f, <3>2, <4>1, FetchFacts DEF Sorted
      <3>3. CASE q = numread + 1 /\ p \in 1 .. numread
        BY <1>f, <3>1, <3>3, FetchFacts
      <3>4. CASE q = numread + 1 /\ p = numread + 1
        BY <1>f, <3>4, FetchFacts
      <3> QED  BY <1>f, <3>2, <3>3, <3>4, FetchFacts
    <2> QED  BY <1>f, <2>1, FetchFacts DEF TypeOK
  <1>1. ASSUME NEW t \in Tuple, Around(t) PROVE TypeOK' /\ Sorted' /\ Started'
    <2>1. /\ Fetch(t) /\ Fill = "around" /\ pivot1' = PivotFor(t[1])
          /\ members' = Added(members, EntryOf(centers[PivotFor(t[1])], t))
          /\ UNCHANGED <<pc, basePosition, firstGrpElement, firstTuple, curChain, ignoring,
                         flagEnabled>>
      BY <1>1 DEF Around
    <2>2. pivot1' \in 1 .. Last' /\ centers[PivotFor(t[1])] \in Value /\ Fill' = Fill
      BY <2>1, PivotFacts, FetchFacts, ConstFacts
    <2>3. members' \in [Entry -> SUBSET (1 .. numread')]
      BY <2>1, <2>2, AddedType DEF TypeOK
    <2> QED  BY <1>f, <2>1, <2>2, <2>3 DEF TypeOK, Started
  <1>2. ASSUME NEW t \in Tuple, MaxRMatch(t) \/ MaxRIgnore(t) \/ MaxRStop(t)
        PROVE  TypeOK' /\ Sorted' /\ Started'
    <2>1. /\ Fetch(t) /\ Fill = "MaxR" /\ pivot1' = PivotForMaxR(t[1])
          /\ \/ members' = Added(members, EntryOf(centers[PivotForMaxR(t[1])], t))
             \/ members' = members
          /\ UNCHANGED <<basePosition, firstGrpElement, firstTuple, curChain, ignoring,
                         flagEnabled>>
          /\ pc' \in {pc, "retrieve"}
      BY <1>2 DEF MaxRMatch, MaxRIgnore, MaxRStop, FetchMaxR
    <2>2. pivot1' \in 1 .. Last' /\ centers[PivotForMaxR(t[1])] \in Value /\ Fill' = Fill
      BY <2>1, PivotFacts, FetchFacts, ConstFacts
    <2>3. members' \in [Entry -> SUBSET (1 .. numread')]
      BY <2>1, <2>2, AddedType, KeptType DEF TypeOK
    <2> QED  BY <1>f, <2>1, <2>2, <2>3 DEF TypeOK, Started
  <1>3. ASSUME NEW t \in Tuple, MaxS(t) PROVE TypeOK' /\ Sorted' /\ Started'
    <2>1. Fetch(t) /\ Fill = "MaxS" /\ UNCHANGED <<pc, firstGrpElement>>
      BY <1>3, MaxSType
    <2>2. Fill' = Fill /\ Last' = Last
      BY <2>1, FetchFacts
    <2> QED  BY <1>3, <1>f, <2>1, <2>2, MaxSType DEF TypeOK, Started
  <1>4. ASSUME NEW t \in Tuple, Unsupervised(t) PROVE TypeOK' /\ Sorted' /\ Started'
    <2> DEFINE first == IF firstTuple \/ CutFound(t[1]) THEN t[1] ELSE firstGrpElement
    <2>1. /\ Fetch(t) /\ Fill = "unsupervised"
          /\ firstGrpElement' = first /\ basePosition' = t[1] /\ firstTuple' = FALSE
          /\ members' = Added(members, EntryOf(first, t))
          /\ UNCHANGED <<pc, pivot1, curChain, ignoring, flagEnabled>>
      BY <1>4 DEF Unsupervised
    <2>2. first \in Value /\ t[1] \in Value /\ Fill' = Fill /\ Last' = Last /\ centers' = centers
      BY <2>1, FetchFacts DEF Started
    <2> HIDE DEF first
    <2>3. members' \in [Entry -> SUBSET (1 .. numread')]
      BY <2>1, <2>2, AddedType DEF TypeOK
    <2> QED  BY <1>f, <2>1, <2>2, <2>3 DEF TypeOK, Started
  <1>5. CASE Unsupported \/ EndOfInput \/ Retrieve
    <2>1. /\ UNCHANGED <<query, centers, scanVars, members, numread, input>>
          /\ flagEnabled' \in {flagEnabled, enable_chain(flagEnabled)}
          /\ returned' \in {returned} \cup SUBSET Entry
          /\ pc' \in {"error", "retrieve", "done"}
      BY <1>5 DEF Unsupported, EndOfInput, Retrieve, tableVars
    <2> QED  BY <2>1, ChainType DEF TypeOK, Sorted, Started, Fill, Last, scanVars
  <1>6. CASE UNCHANGED vars
    BY <1>6 DEF vars, scanVars, tableVars, TypeOK, Sorted, Started, Fill, Last
  <1> QED  BY <1>1, <1>2, <1>3, <1>4, <1>5, <1>6 DEF Next, FillStep

(* The state keeps its types: the pivot stays in the list of centers,      *)
(* although it is only advanced, the flags of chains stay below 3, and     *)
(* only tuples that were read are aggregated.                              *)
THEOREM AroundTypeCorrect == Spec => []TypeOK
  BY TypeInit, TypeStep, PTL DEF Spec
-----------------------------------------------------------------------------
(* Why the pivots may forget the centers they have passed: a passed center *)
(* is no nearer than the pivot, or already out of the radius, for the last *)
(* tuple and so for all later ones.                                        *)
PassedAt(v, k) ==
    \A j \in 1 .. k - 1 : \/ centers[j] + centers[k] <= 2 * v
                          \/ Fill = "MaxR" /\ centers[j] + maxRadius <= v

Passed ==
    (InOrder /\ Fill \in {"around", "MaxR"}) =>
        \/ pivot1 = 1
        \/ numread > 0 /\ PassedAt(input[numread][1], pivot1)

Candidates(v) == {k \in Nearest(v) : Fill = "around" \/ InRadius(k, v)}

Served(p) ==
    \/ Home(p) = {} /\ Candidates(input[p][1]) = {}
    \/ \E k \in Candidates(input[p][1]) : Home(p) = {<<centers[k], input[p][2]>>}

AllServed ==
    (InOrder /\ Fill \in {"around", "MaxR"}) => \A p \in 1 .. numread : Served(p)

LEMMA RadiusFacts ==
    ASSUME TypeOK, Fill = "MaxR"
    PROVE  maxRadius \in Nat
  <1>1. query \in [around : BOOLEAN, diam : Nat \cup {-1}, sep : Nat \cup {-1}]
    BY SGBAroundAssumption DEF TypeOK
  <1>2. query.diam \in Nat
    BY <1>1 DEF Fill
  <1> QED  BY <1>2 DEF maxRadius

LEMMA PassedAdvance ==
    ASSUME TypeOK, InOrder, NEW v \in Int, centers # <<>>, PassedAt(v, pivot1)
    PROVE  /\ Fill = "around" => PassedAt(v, PivotFor(v))
           /\ Fill = "MaxR" => PassedAt(v, PivotForMaxR(v))
  <1>1. /\ Last \in Nat /\ pivot1 \in 1 .. Last
        /\ \A k \in 1 .. Last : centers[k] \in Int
    BY ConstFacts, PivotFacts
  <1>2. CASE Fill = "around"
    <2>1. PICK k : k = PivotFor(v)
      OBVIOUS
    <2>2. k \in pivot1 .. Last /\ \A j \in pivot1 .. k - 1 : ~MatchAround(j, v)
      BY <2>1, PivotFacts
    <2>3. CASE k = pivot1
      BY <1>2, <2>1, <2>3
    <2>4. CASE k # pivot1
      <3>1. k - 1 \in 1 .. Last /\ k \in 1 .. Last /\ ~MatchAround(k - 1, v) /\ (k - 1) + 1 = k
        BY <1>1, <2>2, <2>4
      <3>2. centers[k - 1] + centers[k] <= 2 * v
        BY <1>1, <3>1 DEF MatchAround
      <3>3. \A j \in 1 .. k - 1 : centers[j] <= centers[k - 1] /\ centers[j] \in Int
        BY <1>1, <3>1 DEF InOrder
      <3> QED  BY <1>1, <1>2, <2>1, <3>1, <3>2, <3>3 DEF PassedAt
    <2> QED  BY <2>3, <2>4
  <1>3. CASE Fill = "MaxR"
    <2>1. PICK k : k = PivotForMaxR(v)
      OBVIOUS
    <2>2. k \in pivot1 .. Last /\ \A j \in pivot1 .. k - 1 : VerdictMaxR(j, v) = "advance"
      BY <2>1, PivotFacts
    <2>3. CASE k = pivot1
      BY <1>3, <2>1, <2>3
    <2>4. CASE k # pivot1
      <3>1. /\ k - 1 \in 1 .. Last /\ k \in 1 .. Last /\ VerdictMaxR(k - 1, v) = "advance"
            /\ (k - 1) + 1 = k
        BY <1>1, <2>2, <2>4
      <3>2. maxRadius \in Nat
        BY <1>3, RadiusFacts
      <3>3. centers[k - 1] + centers[k] <= 2 * v \/ centers[k - 1] + maxRadius <= v
        BY <1>1, <3>1, <3>2 DEF VerdictMaxR
      <3>4. \A j \in 1 .. k - 1 : centers[j] <= centers[k - 1] /\ centers[j] \in Int
        BY <1>1, <3>1 DEF InOrder
      <3>5. ASSUME NEW j \in 1 .. k - 1
            PROVE  centers[j] + centers[k] <= 2 * v \/ centers[j] + maxRadius <= v
        <4>1. /\ centers[j] \in Int /\ centers[k - 1] \in Int /\ centers[k] \in Int
              /\ centers[j] <= centers[k - 1]
          BY <1>1, <3>1, <3>4
        <4> QED  BY <1>1, <3>2, <3>3, <4>1
      <3>6. PassedAt(v, k)
        BY <1>3, <3>5 DEF PassedAt
      <3> QED  BY <1>3, <2>1, <3>6
    <2> QED  BY <2>3, <2>4
  <1> QED  BY <1>2, <1>3

LEMMA SettledAround ==
    ASSUME TypeOK, InOrder, Fill = "around", NEW v \in Int, NEW k \in 1 .. Last,
           PassedAt(v, k), MatchAround(k, v)
    PROVE  k \in Candidates(v)
  <1>1. Last \in Nat /\ \A j \in 1 .. Last : centers[j] \in Int
    BY ConstFacts
  <1>2. ASSUME NEW j \in 1 .. Last PROVE Abs(v - centers[k]) <= Abs(v - centers[j])
    <2>1. centers[j] \in Int /\ centers[k] \in Int
      BY <1>1
    <2>2. CASE j < k
      <3>1. centers[j] + centers[k] <= 2 * v /\ centers[j] <= centers[k]
        BY <1>1, <2>2 DEF PassedAt, InOrder
      <3> QED  BY <2>1, <3>1 DEF Abs
    <2>3. CASE j = k
      BY <2>1, <2>3 DEF Abs
    <2>4. CASE j > k
      <3>1. k # Last /\ k + 1 \in 1 .. Last /\ k + 1 <= j /\ k <= k + 1
        BY <1>1, <2>4
      <3>2. centers[k] <= centers[k + 1] /\ centers[k + 1] <= centers[j] /\ centers[k + 1] \in Int
        BY <1>1, <3>1 DEF InOrder
      <3> QED  BY <2>1, <3>1, <3>2 DEF MatchAround, Abs
    <2> QED  BY <1>1, <2>2, <2>3, <2>4
  <1> QED  BY <1>2 DEF Candidates, Nearest

LEMMA SettledMaxR ==
    ASSUME TypeOK, InOrder, Fill = "MaxR", NEW v \in Int, NEW k \in 1 .. Last, PassedAt(v, k)
    PROVE  /\ VerdictMaxR(k, v) = "match" => k \in Candidates(v)
           /\ VerdictMaxR(k, v) \in {"ignore", "stop"} => Candidates(v) = {}
  <1>1. Last \in Nat /\ \A j \in 1 .. Last : centers[j] \in Int
    BY ConstFacts
  <1>2. PICK R : R = maxRadius /\ R \in Nat
    BY RadiusFacts
  <1>3. centers[k] \in Int
    BY <1>1
  <1>4. ASSUME VerdictMaxR(k, v) = "match" PROVE k \in Candidates(v)
    <2>1. /\ centers[k] - R <= v
          /\ \/ k = Last /\ v < centers[k] + R
             \/ /\ k # Last /\ centers[k + 1] - centers[k] - R < R
                /\ v < centers[k] \/ v - centers[k] < centers[k + 1] - v
             \/ /\ k # Last /\ ~(centers[k + 1] - centers[k] - R < R)
                /\ v - centers[k] < R
      <3>1. k = Last \/ k + 1 \in 1 .. Last
        BY <1>1
      <3> QED  BY <1>1, <1>2, <1>3, <1>4, <3>1 DEF VerdictMaxR
    <2>2. v < centers[k] + R
      <3>1. k = Last \/ centers[k + 1] \in Int
        BY <1>1
      <3> QED  BY <1>2, <1>3, <2>1, <3>1
    <2>3. ASSUME NEW j \in 1 .. Last PROVE Abs(v - centers[k]) <= Abs(v - centers[j])
      <3>1. centers[j] \in Int /\ centers[k] \in Int
        BY <1>1
      <3>2. CASE j < k
        <4>1. /\ centers[j] + centers[k] <= 2 * v \/ centers[j] + R <= v
              /\ centers[j] <= centers[k]
          BY <1>1, <1>2, <3>2 DEF PassedAt, InOrder
        <4> QED  BY <1>2, <2>1, <2>2, <3>1, <4>1 DEF Abs
      <3>3. CASE j = k
        BY <3>1, <3>3 DEF Abs
      <3>4. CASE j > k
        <4>1. k # Last /\ k + 1 \in 1 .. Last /\ k + 1 <= j /\ k <= k + 1
          BY <1>1, <3>4
        <4>2. /\ centers[k] <= centers[k + 1] /\ centers[k + 1] <= centers[j]
              /\ centers[k + 1] \in Int
          BY <1>1, <4>1 DEF InOrder
        <4> QED  BY <1>2, <2>1, <2>2, <3>1, <4>1, <4>2 DEF Abs
      <3> QED  BY <1>1, <3>2, <3>3, <3>4
    <2> QED  BY <1>2, <2>1, <2>2, <2>3 DEF Candidates, Nearest, InRadius
  <1>5. ASSUME VerdictMaxR(k, v) \in {"ignore", "stop"}, NEW i \in Candidates(v)
        PROVE  FALSE
    <2>1. /\ i \in 1 .. Last /\ centers[i] \in Int
          /\ centers[i] - R <= v /\ v < centers[i] + R
      BY <1>1, <1>2 DEF Candidates, Nearest, InRadius
    <2>2. v < centers[k] - R \/ (k = Last /\ v - R >= centers[k])
      <3>1. k = Last \/ centers[k + 1] \in Int
        BY <1>1
      <3> QED  BY <1>2, <1>3, <1>5, <3>1 DEF VerdictMaxR
    <2>3. CASE i >= k
      <3>1. centers[k] <= centers[i] /\ (k = Last => i = k)
        BY <1>1, <2>1, <2>3 DEF InOrder
      <3> QED  BY <1>2, <1>3, <2>1, <2>2, <3>1
    <2>4. CASE i < k
      <3>1. /\ centers[i] + centers[k] <= 2 * v \/ centers[i] + R <= v
            /\ centers[i] <= centers[k]
        BY <1>1, <1>2, <2>1, <2>4 DEF PassedAt, InOrder
      <3> QED  BY <1>2, <1>3, <2>1, <2>2, <3>1
    <2> QED  BY <1>1, <2>1, <2>3, <2>4
  <1> QED  BY <1>4, <1>5

(* An input position is in the entry it was added to and in no other.      *)
LEMMA HomeAdded ==
    ASSUME TypeOK, NEW e \in Entry, members' = Added(members, e), NEW n, n = numread + 1
    PROVE  /\ Home(n)' = {e}
           /\ \A p \in 1 .. numread : Home(p)' = Home(p)
  <1>1. /\ \A x \in Entry : members[x] \subseteq 1 .. numread
        /\ members \in [Entry -> SUBSET (1 .. numread)] /\ numread \in Nat
    BY ConstFacts DEF TypeOK
  <1>2. \A x \in Entry : members'[x] = IF x = e THEN members[x] \cup {numread + 1}
                                                ELSE members[x]
    BY <1>1 DEF Added
  <1>3. \A p \in 1 .. numread : p # numread + 1
    BY <1>1
  <1>4. numread + 1 \notin 1 .. numread
    BY <1>1
  <1> QED  BY <1>1, <1>2, <1>3, <1>4 DEF Home

LEMMA ServedStays ==
    ASSUME UNCHANGED <<query, centers>>, NEW p, input'[p] = input[p], Home(p)' = Home(p),
           Served(p)
    PROVE  Served(p)'
  BY DEF Served, Candidates, Nearest, InRadius, Fill, maxRadius, Last

LEMMA HomeKept ==
    ASSUME TypeOK, members' = members, NEW n, n = numread + 1
    PROVE  /\ Home(n)' = {}
           /\ \A p \in 1 .. numread : Home(p)' = Home(p)
  <1>1. /\ \A x \in Entry : members[x] \subseteq 1 .. numread
        /\ numread \in Nat /\ n \notin 1 .. numread
    BY ConstFacts DEF TypeOK
  <1> QED  BY <1>1 DEF Home

(* The pivot the last tuple left is good for the tuple that follows it.    *)
LEMMA PassedLater ==
    ASSUME TypeOK, Sorted, Passed, InOrder, Fill \in {"around", "MaxR"},
           NEW t \in Tuple, Fetch(t)
    PROVE  PassedAt(t[1], pivot1)
  <1>1. /\ centers # <<>> /\ t[1] \in Int /\ numread \in Nat
        /\ \A k \in 1 .. Last : centers[k] \in Int
        /\ pivot1 \in 1 .. Last /\ Last \in Nat
    BY ConstFacts, FetchFacts, PivotFacts
  <1>2. CASE pivot1 = 1
    BY <1>2 DEF PassedAt
  <1>3. CASE numread > 0 /\ PassedAt(input[numread][1], pivot1)
    <2>1. input[numread][1] <= t[1] /\ input[numread][1] \in Int
      BY <1>1, <1>3, ConstFacts DEF Fetch
    <2>2. Fill = "MaxR" => maxRadius \in Nat
      BY RadiusFacts
    <2> SUFFICES ASSUME NEW j \in 1 .. pivot1 - 1
                 PROVE  \/ centers[j] + centers[pivot1] <= 2 * t[1]
                        \/ Fill = "MaxR" /\ centers[j] + maxRadius <= t[1]
      BY DEF PassedAt
    <2>3. centers[j] \in Int /\ centers[pivot1] \in Int
      BY <1>1
    <2>4. \/ centers[j] + centers[pivot1] <= 2 * input[numread][1]
          \/ Fill = "MaxR" /\ centers[j] + maxRadius <= input[numread][1]
      BY <1>3 DEF PassedAt
    <2>5. CASE centers[j] + centers[pivot1] <= 2 * input[numread][1]
      BY <1>1, <2>1, <2>3, <2>5
    <2>6. CASE Fill = "MaxR" /\ centers[j] + maxRadius <= input[numread][1]
      BY <1>1, <2>1, <2>2, <2>3, <2>6
    <2> QED  BY <2>4, <2>5, <2>6
  <1> QED  BY <1>2, <1>3 DEF Passed

LEMMA NearestInit == Init => Passed /\ AllServed
  BY DEF Init, Passed, AllServed

LEMMA NearestStep ==
    TypeOK /\ Sorted /\ Passed /\ AllServed /\ [Next]_vars => Passed' /\ AllServed'
  <1> SUFFICES ASSUME TypeOK, Sorted, Passed, AllServed, [Next]_vars
               PROVE  Passed' /\ AllServed'
    OBVIOUS
  <1>1. CASE UNCHANGED <<query, centers, pivot1, members, numread, input>>
    <2>1. Passed'
      BY <1>1 DEF Passed, PassedAt, InOrder, Fill, maxRadius, Last
    <2>2. InOrder' = InOrder /\ Fill' = Fill
      BY <1>1 DEF InOrder, Fill, Last
    <2>3. \A p \in 1 .. numread : Served(p) => Served(p)'
      BY <1>1, ServedStays DEF Home
    <2> QED  BY <1>1, <2>1, <2>2, <2>3 DEF AllServed
  <1>2. CASE Fill \notin {"around", "MaxR"}
    <2>1. query' = query
      BY DEF Next, FillStep, Around, MaxRMatch, MaxRIgnore, MaxRStop, FetchMaxR, MaxS, NewPivot,
             FirstTuple, Ignored, NoCut, CutJoined, CutRestart, CutComplete, CutGiveUp,
             LaterTuple, FetchMaxS, Unsupervised, Fetch, Unsupported, EndOfInput, Retrieve, vars
    <2> QED  BY <1>2, <2>1 DEF Passed, AllServed, Fill
  <1>3. ASSUME NEW t \in Tuple, Fetch(t), Fill \in {"around", "MaxR"},
               InOrder, NEW n, n = numread + 1,
               PassedAt(t[1], pivot1'), Served(n)',
               \A p \in 1 .. numread : Home(p)' = Home(p)
        PROVE  Passed' /\ AllServed'
    <2>1. /\ numread' > 0 /\ numread' = n /\ input'[n] = t /\ UNCHANGED <<query, centers>>
          /\ Fill' = Fill
          /\ 1 .. numread' = (1 .. numread) \cup {n}
          /\ \A p \in 1 .. numread : input'[p] = input[p]
      BY <1>3, FetchFacts, ConstFacts
    <2>2. PassedAt(input[numread][1], pivot1)'
      BY <1>3, <2>1 DEF PassedAt, Fill, maxRadius
    <2>3. \A p \in 1 .. numread : Served(p)'
      BY <1>3, <2>1, ServedStays DEF AllServed
    <2> QED  BY <1>3, <2>1, <2>2, <2>3 DEF Passed, AllServed
  <1>4. ASSUME NEW t \in Tuple, Fetch(t), Fill \in {"around", "MaxR"}, ~InOrder
        PROVE  Passed' /\ AllServed'
    <2>1. InOrder' = InOrder
      BY <1>4, FetchFacts DEF InOrder
    <2> QED  BY <1>4, <2>1 DEF Passed, AllServed
  <1>5. ASSUME NEW t \in Tuple, Around(t) PROVE Passed' /\ AllServed'
    <2>1. PICK k : k = PivotFor(t[1])
      OBVIOUS
    <2>2. /\ Fetch(t) /\ Fill = "around" /\ pivot1' = k
          /\ members' = Added(members, EntryOf(centers[k], t))
      BY <1>5, <2>1 DEF Around
    <2>3. CASE ~InOrder
      BY <1>4, <2>2, <2>3
    <2>4. CASE InOrder
      <3>1. /\ t[1] \in Int /\ centers # <<>> /\ k \in 1 .. Last /\ MatchAround(k, t[1])
            /\ centers[k] \in Value
        BY <2>1, <2>2, FetchFacts, PivotFacts, ConstFacts
      <3>2. PassedAt(t[1], k)
        BY <2>1, <2>2, <2>4, <3>1, PassedLater, PassedAdvance
      <3>3. k \in Candidates(t[1])
        BY <2>2, <2>4, <3>1, <3>2, SettledAround
      <3>4. PICK n : n = numread + 1
        OBVIOUS
      <3>5. EntryOf(centers[k], t) \in Entry
        BY <2>2, <3>1, FetchFacts DEF EntryOf, Entry
      <3>6. Home(n)' = {EntryOf(centers[k], t)} /\ \A p \in 1 .. numread : Home(p)' = Home(p)
        BY <2>2, <3>4, <3>5, HomeAdded
      <3>7. Served(n)'
        <4>1. input'[n] = t /\ UNCHANGED <<query, centers>>
          BY <2>2, <3>4, FetchFacts
        <4>2. k \in Candidates(input[n][1])'
          BY <3>3, <4>1 DEF Candidates, Nearest, InRadius, Fill, maxRadius, Last
        <4> QED  BY <3>6, <4>1, <4>2 DEF Served, EntryOf
      <3> QED  BY <1>3, <2>2, <2>4, <3>2, <3>4, <3>6, <3>7
    <2> QED  BY <2>3, <2>4
  <1>6. ASSUME NEW t \in Tuple, MaxRMatch(t) \/ MaxRIgnore(t) \/ MaxRStop(t)
        PROVE  Passed' /\ AllServed'
    <2>1. PICK k : k = PivotForMaxR(t[1])
      OBVIOUS
    <2>2. /\ Fetch(t) /\ Fill = "MaxR" /\ pivot1' = k
          /\ \/ /\ VerdictMaxR(k, t[1]) = "match"
                /\ members' = Added(members, EntryOf(centers[k], t))
             \/ VerdictMaxR(k, t[1]) \in {"ignore", "stop"} /\ members' = members
      BY <1>6, <2>1 DEF MaxRMatch, MaxRIgnore, MaxRStop, FetchMaxR
    <2>3. CASE ~InOrder
      BY <1>4, <2>2, <2>3
    <2>4. CASE InOrder
      <3>1. t[1] \in Int /\ centers # <<>> /\ k \in 1 .. Last /\ centers[k] \in Value
        BY <2>1, <2>2, FetchFacts, PivotFacts, ConstFacts
      <3>2. PassedAt(t[1], k)
        BY <2>1, <2>2, <2>4, <3>1, PassedLater, PassedAdvance
      <3>3. PICK n : n = numread + 1
        OBVIOUS
      <3>4. input'[n] = t /\ UNCHANGED <<query, centers>>
        BY <2>2, <3>3, FetchFacts
      <3>5. Candidates(input[n][1])' = Candidates(t[1])
        BY <3>4 DEF Candidates, Nearest, InRadius, Fill, maxRadius, Last
      <3>6. Served(n)' /\ \A p \in 1 .. numread : Home(p)' = Home(p)
        <4>1. CASE VerdictMaxR(k, t[1]) = "match"
          <5>1. EntryOf(centers[k], t) \in Entry
            BY <2>2, <3>1, FetchFacts DEF EntryOf, Entry
          <5>2. members' = Added(members, EntryOf(centers[k], t))
            BY <2>2, <4>1
          <5>3. /\ Home(n)' = {EntryOf(centers[k], t)}
                /\ \A p \in 1 .. numread : Home(p)' = Home(p)
            BY <3>3, <5>1, <5>2, HomeAdded
          <5>4. k \in Candidates(t[1])
            BY <2>2, <2>4, <3>1, <3>2, <4>1, SettledMaxR
          <5> QED  BY <3>4, <3>5, <5>3, <5>4 DEF Served, EntryOf
        <4>2. CASE VerdictMaxR(k, t[1]) # "match"
          <5>1. members' = members /\ VerdictMaxR(k, t[1]) \in {"ignore", "stop"}
            BY <2>2, <4>2
          <5>2. Home(n)' = {} /\ \A p \in 1 .. numread : Home(p)' = Home(p)
            BY <3>3, <5>1, HomeKept
          <5>3. Candidates(t[1]) = {}
            BY <2>2, <2>4, <3>1, <3>2, <5>1, SettledMaxR
          <5> QED  BY <3>5, <5>2, <5>3 DEF Served
        <4> QED  BY <4>1, <4>2
      <3> QED  BY <1>3, <2>2, <2>4, <3>2, <3>3, <3>6
    <2> QED  BY <2>3, <2>4
  <1>7. CASE Unsupported \/ EndOfInput \/ Retrieve
    BY <1>1, <1>7 DEF Unsupported, EndOfInput, Retrieve, scanVars, tableVars
  <1>8. ASSUME NEW t \in Tuple, MaxS(t) \/ Unsupervised(t) PROVE Passed' /\ AllServed'
    <2>1. Fill \notin {"around", "MaxR"}
      BY <1>8, MaxSType DEF Unsupervised
    <2> QED  BY <1>2, <2>1
  <1>9. CASE UNCHANGED vars
    BY <1>1, <1>9 DEF vars, scanVars, tableVars
  <1> QED  BY <1>5, <1>6, <1>7, <1>8, <1>9 DEF Next, FillStep

(* For every query with AROUND, alone or with MAXGROUPDIAM, every list of  *)
(* centers in order and every sorted input: agg_fill_hash_table_around and *)
(* agg_fill_hash_table_around_MaxR group each tuple with a center than     *)
(* which none is nearer, and leave out only tuples without a nearest one   *)
(* in the radius.                                                          *)
THEOREM NearestTheorem == Spec => []GroupedWithNearest
  <1>1. Init => TypeOK /\ Sorted /\ Started /\ Passed /\ AllServed
    BY TypeInit, NearestInit
  <1>2. TypeOK /\ Sorted /\ Started /\ Passed /\ AllServed /\ [Next]_vars
            => (TypeOK /\ Sorted /\ Started /\ Passed /\ AllServed)'
    BY TypeStep, NearestStep
  <1>3. AllServed => GroupedWithNearest
    <2> SUFFICES ASSUME AllServed, InOrder, Fill \in {"around", "MaxR"},
                        NEW p \in 1 .. numread
                 PROVE  /\ Cardinality(Home(p)) <= 1
                        /\ Home(p) # {} <=> Candidates(input[p][1]) # {}
                        /\ Home(p) \subseteq
                             {<<centers[k], input[p][2]>> : k \in Candidates(input[p][1])}
      BY DEF GroupedWithNearest, Candidates
    <2>1. Served(p)
      BY DEF AllServed
    <2>2. Home(p) = {} \/ \E x : Home(p) = {x}
      BY <2>1 DEF Served
    <2>3. Cardinality(Home(p)) <= 1
      <3>1. ASSUME NEW x, Home(p) = {x} PROVE Cardinality(Home(p)) = 1
        BY <3>1, FS_Singleton, Zenon
      <3>2. Cardinality({}) = 0
        BY FS_EmptySet, Zenon
      <3>3. Home(p) = {} \/ Cardinality(Home(p)) = 1
        BY <2>2, <3>1, Zenon
      <3> QED  BY <3>2, <3>3
    <2> QED  BY <2>1, <2>3 DEF Served
  <1> QED  BY <1>1, <1>2, <1>3, PTL DEF Spec
-----------------------------------------------------------------------------
(* What SegmentsAreMaximal says of one tuple.                              *)
Maximal(p, v) ==
    /\ Home(p) = {<<v, input[p][2]>>}
    /\ p = Min(Segment(v)) => v = input[p][1]
    /\ p # Min(Segment(v)) => p - 1 \in Segment(v) /\ Fits(v, p)
    /\ (p > 1 /\ p - 1 \notin Segment(v)) =>
           \E u \in Value : p - 1 \in Segment(u) /\ ~Fits(u, p)

(* The last tuple is in the current group, whose first v is no earlier     *)
(* than that of any group: a cut never comes back to an old group.         *)
CurrentGroup ==
    (numread > 0) =>
        /\ basePosition = input[numread][1]
        /\ firstGrpElement \in Value /\ firstGrpElement <= basePosition
        /\ Home(numread) = {<<firstGrpElement, input[numread][2]>>}

Segments ==
    Fill = "unsupervised" =>
        /\ firstTuple <=> numread = 0
        /\ CurrentGroup
        /\ \A p \in 1 .. numread : \E v \in Value : v <= firstGrpElement /\ Maximal(p, v)

LEMMA SegmentGrows ==
    ASSUME TypeOK, NEW t \in Tuple, Fetch(t), NEW e \in Entry, members' = Added(members, e)
    PROVE  \A v : Segment(v)' = IF e[1] = v THEN Segment(v) \cup {numread + 1} ELSE Segment(v)
  <1> SUFFICES ASSUME NEW v
               PROVE  Segment(v)' = IF e[1] = v THEN Segment(v) \cup {numread + 1}
                                                ELSE Segment(v)
    OBVIOUS
  <1>1. PICK n : n = numread + 1
    OBVIOUS
  <1>2. Home(n)' = {e} /\ \A p \in 1 .. numread : Home(p)' = Home(p)
    BY <1>1, HomeAdded
  <1>3. 1 .. numread' = (1 .. numread) \cup {n} /\ n \notin 1 .. numread
    BY <1>1, FetchFacts, ConstFacts
  <1>4. Segment(v)' = {p \in 1 .. numread' : \E x \in Home(p)' : x[1] = v}
    BY DEF Segment
  <1>5. Segment(v) = {p \in 1 .. numread : \E x \in Home(p) : x[1] = v}
    BY DEF Segment
  <1> QED  BY <1>1, <1>2, <1>3, <1>4, <1>5

LEMMA MaximalStays ==
    ASSUME TypeOK, NEW t \in Tuple, Fetch(t), NEW e \in Entry, members' = Added(members, e),
           NEW p \in 1 .. numread, NEW v, Maximal(p, v)
    PROVE  Maximal(p, v)'
  <1>1. PICK n : n = numread + 1
    OBVIOUS
  <1>2. numread \in Nat /\ p \in Nat /\ p < n /\ p - 1 # n
    BY <1>1, ConstFacts
  <1>3. Home(p)' = Home(p) /\ input'[p] = input[p] /\ query' = query
    BY <1>1, HomeAdded, FetchFacts
  <1>4. p > 1 => input'[p - 1] = input[p - 1]
    <2>1. p > 1 => p - 1 \in 1 .. numread
      BY <1>2
    <2> QED  BY <2>1, FetchFacts
  <1>5. \A u : Fits(u, p)' = Fits(u, p)
    BY <1>3, <1>4 DEF Fits
  <1>6. \A u : p - 1 \in Segment(u)' <=> p - 1 \in Segment(u)
    BY <1>1, <1>2, SegmentGrows
  <1>7. p \in Segment(v) /\ Segment(v) \in SUBSET Nat /\ \A q \in Segment(v) : q < n
    <2>1. \E x \in Home(p) : x[1] = v
      BY DEF Maximal
    <2> QED  BY <1>1, <1>2, <2>1 DEF Segment
  <1>8. Min(Segment(v)') = Min(Segment(v))
    <2>1. PICK m : m = Min(Segment(v))
      OBVIOUS
    <2>2. m \in Segment(v) /\ \A q \in Segment(v) : m <= q
      BY <1>7, <2>1, MinFacts
    <2>3. /\ Segment(v)' \in SUBSET Nat /\ m \in Segment(v)'
          /\ \A q \in Segment(v)' : m <= q
      <3>1. Segment(v)' = Segment(v) \cup {n} \/ Segment(v)' = Segment(v)
        BY <1>1, SegmentGrows
      <3>2. m <= n /\ n \in Nat
        BY <1>1, <1>2, <1>7, <2>2
      <3> QED  BY <1>7, <2>2, <3>1, <3>2
    <2> QED  BY <2>1, <2>3, MinIs
  <1> QED  BY <1>3, <1>5, <1>6, <1>8 DEF Maximal

LEMMA SegmentsInit == Init => Segments
  BY DEF Init, Segments, CurrentGroup

LEMMA SegmentsNew ==
    ASSUME TypeOK, Sorted, Segments, NEW t \in Tuple, Unsupervised(t)
    PROVE  Segments'
  <1>1. PICK n : n = numread + 1
    OBVIOUS
  <1>2. PICK first : first = IF firstTuple \/ CutFound(t[1]) THEN t[1] ELSE firstGrpElement
    OBVIOUS
  <1>3. /\ Fetch(t) /\ Fill = "unsupervised"
        /\ firstGrpElement' = first /\ basePosition' = t[1] /\ firstTuple' = FALSE
        /\ members' = Added(members, EntryOf(first, t))
    BY <1>2 DEF Unsupervised
  <1>4. /\ numread' = n /\ numread \in Nat /\ n \in Nat /\ n > 0 /\ input'[n] = t
        /\ \A p \in 1 .. numread : input'[p] = input[p] /\ input[p][1] \in Int
        /\ 1 .. numread' = (1 .. numread) \cup {n}
        /\ t[1] \in Value /\ t[1] \in Int /\ t[2] \in Other /\ query' = query /\ Fill' = Fill
        /\ Value \subseteq Int
    BY <1>1, <1>3, FetchFacts, ConstFacts
  <1>5. /\ firstTuple <=> numread = 0
        /\ CurrentGroup
        /\ \A p \in 1 .. numread : \E v \in Value : v <= firstGrpElement /\ Maximal(p, v)
    BY <1>3 DEF Segments
  <1>6. numread > 0 => input[numread][1] <= t[1] /\ basePosition = input[numread][1]
                       /\ firstGrpElement \in Value /\ firstGrpElement <= basePosition
    BY <1>3, <1>5 DEF CurrentGroup, Fetch
  <1>7. /\ first \in Value /\ first <= t[1]
        /\ numread > 0 => firstGrpElement <= first
        /\ (numread > 0 /\ CutFound(t[1])) => firstGrpElement < t[1]
    <2>1. numread > 0 => numread \in 1 .. numread /\ input[numread][1] \in Int
      BY <1>4
    <2>2. query \in [around : BOOLEAN, diam : Nat \cup {-1}, sep : Nat \cup {-1}]
      BY SGBAroundAssumption DEF TypeOK
    <2>3. /\ query.diam # -1 => query.diam \in Nat
          /\ query.sep # -1 => query.sep \in Nat
      BY <2>2
    <2>7. numread > 0 => /\ firstGrpElement \in Int /\ basePosition \in Int
                         /\ firstGrpElement <= basePosition /\ basePosition <= t[1]
      BY <1>4, <1>6, <2>1
    <2>4. ASSUME numread > 0, CutFound(t[1]) PROVE firstGrpElement < t[1]
      <3>1. CASE query.diam # -1 /\ query.diam < t[1] - firstGrpElement
        BY <1>4, <2>3, <2>4, <2>7, <3>1
      <3>2. CASE query.sep # -1 /\ query.sep < t[1] - basePosition
        BY <1>4, <2>3, <2>4, <2>7, <3>2
      <3> QED  BY <2>4, <3>1, <3>2 DEF CutFound, FarFromFirst, FarFromLast
    <2>5. CASE numread = 0
      <3>1. first = t[1] /\ ~(numread > 0)
        BY <1>2, <1>5, <2>5
      <3> QED  BY <1>4, <3>1
    <2>6. CASE numread > 0
      <3>1. first = t[1] \/ first = firstGrpElement
        BY <1>2
      <3>2. firstGrpElement \in Value
        BY <1>6, <2>6
      <3> QED  BY <1>4, <2>4, <2>6, <2>7, <3>1, <3>2
    <2> QED  BY <1>4, <2>4, <2>5, <2>6
  <1>8. EntryOf(first, t) \in Entry /\ EntryOf(first, t) = <<first, t[2]>>
    BY <1>4, <1>7 DEF EntryOf, Entry
  <1>9. Home(n)' = {<<first, t[2]>>}
    BY <1>1, <1>3, <1>8, HomeAdded
  <1>10. CurrentGroup'
    <2>1. Home(numread)' = {<<first, t[2]>>}
      BY <1>4, <1>9 DEF Home
    <2> QED  BY <1>3, <1>4, <1>7, <2>1 DEF CurrentGroup
  <1>11. \A v : Segment(v)' = IF first = v THEN Segment(v) \cup {n} ELSE Segment(v)
    BY <1>1, <1>3, <1>8, SegmentGrows
  <1>11a. numread > 0 => numread \in Segment(firstGrpElement)
    <2> SUFFICES ASSUME numread > 0 PROVE numread \in Segment(firstGrpElement)
      OBVIOUS
    <2>1. Home(numread) = {<<firstGrpElement, input[numread][2]>>}
      BY <1>5 DEF CurrentGroup
    <2>2. PICK x : x = <<firstGrpElement, input[numread][2]>>
      OBVIOUS
    <2>3. x[1] = firstGrpElement /\ x \in Home(numread)
      BY <2>1, <2>2
    <2>4. numread \in 1 .. numread
      BY <1>4
    <2> QED  BY <2>3, <2>4 DEF Segment
  <1>12. Maximal(n, first)'
    <2>1. Home(n)' = {<<first, input'[n][2]>>}
      BY <1>4, <1>9
    <2>2. \A v : Segment(v) \in SUBSET (1 .. numread)
      BY DEF Segment
    <2>3. CASE firstTuple \/ CutFound(t[1])
      <3>1. first = t[1]
        BY <1>2, <2>3
      <3>2. Segment(first) = {}
        <4> SUFFICES ASSUME NEW p \in Segment(first) PROVE FALSE
          OBVIOUS
        <4>1. p \in 1 .. numread /\ numread > 0 /\ \E x \in Home(p) : x[1] = first
          BY <1>4, <2>2 DEF Segment
        <4>2. PICK v \in Value : v <= firstGrpElement /\ Maximal(p, v)
          BY <1>5, <4>1
        <4>3. first = v
          BY <4>1, <4>2 DEF Maximal
        <4>4. firstGrpElement < t[1] /\ firstGrpElement \in Int
          BY <1>4, <1>5, <1>6, <1>7, <2>3, <4>1
        <4> QED  BY <1>4, <3>1, <4>2, <4>3, <4>4
      <3>3. Segment(first)' = {n}
        BY <1>11, <3>2
      <3>4. Min(Segment(first)') = n
        BY <1>4, <3>3, MinIs
      <3>5. n > 1 => \E u \in Value : n - 1 \in Segment(u)' /\ ~Fits(u, n)'
        <4> SUFFICES ASSUME n > 1
                     PROVE  /\ firstGrpElement \in Value
                            /\ n - 1 \in Segment(firstGrpElement)
                            /\ \E u \in Value : u = firstGrpElement /\ ~Fits(u, n)'
          BY <1>11
        <4>1. numread > 0 /\ n - 1 = numread /\ numread \in 1 .. numread /\ CutFound(t[1])
          BY <1>1, <1>4, <1>5, <2>3
        <4>2. firstGrpElement \in Value /\ basePosition = input[numread][1]
          BY <1>6, <4>1
        <4>3. n - 1 \in Segment(firstGrpElement)
          BY <1>11a, <4>1
        <4>4. input'[n - 1] = input[numread]
          BY <1>4, <4>1
        <4>5. PICK u \in Value : u = firstGrpElement
          BY <4>2
        <4>6. ~Fits(u, n)'
          <5>1. \/ query.diam # -1 /\ query.diam < t[1] - u
                \/ query.sep # -1 /\ query.sep < t[1] - input[numread][1]
            BY <4>1, <4>2, <4>5 DEF CutFound, FarFromFirst, FarFromLast
          <5>2. query.diam \in Int /\ query.sep \in Int /\ u \in Int /\ input[numread][1] \in Int
            BY <1>4, <4>1, ConstFacts
          <5>3. /\ query'.diam = query.diam /\ query'.sep = query.sep
                /\ input'[n][1] = t[1] /\ input'[n - 1][1] = input[numread][1]
            BY <1>4, <4>4
          <5>4. Fits(u, n)' <=>
                  /\ query.diam # -1 => t[1] - u <= query.diam
                  /\ (query.sep # -1 /\ n > 1) => t[1] - input[numread][1] <= query.sep
            BY <5>3 DEF Fits
          <5> QED  BY <1>4, <5>1, <5>2, <5>4, n > 1
        <4> QED  BY <4>2, <4>3, <4>5, <4>6
      <3> QED  BY <1>4, <2>1, <3>1, <3>4, <3>5 DEF Maximal
    <2>4. CASE ~(firstTuple \/ CutFound(t[1]))
      <3>1. first = firstGrpElement /\ numread > 0 /\ n - 1 = numread /\ n > 1
        BY <1>1, <1>2, <1>4, <1>5, <2>4
      <3>2. numread \in Segment(first)
        BY <1>11a, <3>1
      <3>3. n - 1 \in Segment(first)'
        BY <1>11, <3>1, <3>2
      <3>4. n # Min(Segment(first)')
        <4>1. Segment(first)' \in SUBSET Nat
          BY <1>4, <1>11, <2>2
        <4>2. Min(Segment(first)') <= n - 1
          BY <3>3, <4>1, MinFacts
        <4> QED  BY <1>4, <4>2
      <3>5. Fits(first, n)'
        <4>1. numread \in 1 .. numread /\ input'[n - 1] = input[numread]
          BY <1>4, <3>1
        <4>2. /\ query.diam \in Int /\ query.sep \in Int /\ first \in Int
              /\ input[numread][1] \in Int /\ basePosition = input[numread][1]
          BY <1>4, <1>6, <1>7, <3>1, <4>1, ConstFacts
        <4>3. /\ query.diam # -1 => ~(query.diam < t[1] - first)
              /\ query.sep # -1 => ~(query.sep < t[1] - input[numread][1])
          BY <2>4, <3>1, <4>2 DEF CutFound, FarFromFirst, FarFromLast
        <4>4. /\ query'.diam = query.diam /\ query'.sep = query.sep
              /\ input'[n][1] = t[1] /\ input'[n - 1][1] = input[numread][1]
          BY <1>4, <4>1
        <4> QED  BY <1>4, <4>2, <4>3, <4>4 DEF Fits
      <3> QED  BY <2>1, <3>3, <3>4, <3>5 DEF Maximal
    <2> QED  BY <2>3, <2>4
  <1>13. \A p \in 1 .. numread : \E v \in Value : v <= first /\ Maximal(p, v)'
    <2> SUFFICES ASSUME NEW p \in 1 .. numread
                 PROVE  \E v \in Value : v <= first /\ Maximal(p, v)'
      OBVIOUS
    <2>1. PICK v \in Value : v <= firstGrpElement /\ Maximal(p, v)
      BY <1>5
    <2>2. Maximal(p, v)'
      BY <1>3, <1>8, <2>1, MaximalStays
    <2>3. v <= first
      <3>1. numread > 0
        BY <1>4
      <3>2. firstGrpElement <= first /\ {first, firstGrpElement, v} \subseteq Int
        BY <1>4, <1>6, <1>7, <3>1
      <3> QED  BY <2>1, <3>2
    <2> QED  BY <2>2, <2>3
  <1>14. \A p \in 1 .. numread' : \E v \in Value : v <= first /\ Maximal(p, v)'
    <2>1. first \in Int
      BY <1>4, <1>7
    <2>2. first <= first
      BY <2>1
    <2> QED  BY <1>4, <1>7, <1>12, <1>13, <2>2
  <1> QED  BY <1>3, <1>4, <1>10, <1>14 DEF Segments

LEMMA SegmentsStep ==
    TypeOK /\ Sorted /\ Segments /\ [Next]_vars => Segments'
  <1> SUFFICES ASSUME TypeOK, Sorted, Segments, [Next]_vars PROVE Segments'
    OBVIOUS
  <1>1. ASSUME NEW t \in Tuple, Unsupervised(t) PROVE Segments'
    BY <1>1, SegmentsNew
  <1>2. CASE Unsupported \/ EndOfInput \/ Retrieve \/ UNCHANGED vars
    <2>1. UNCHANGED <<query, members, numread, input, firstTuple, firstGrpElement, basePosition>>
      BY <1>2 DEF Unsupported, EndOfInput, Retrieve, vars, scanVars, tableVars
    <2>2. Fill' = Fill /\ \A p : Home(p)' = Home(p)
      BY <2>1 DEF Fill, Home
    <2>3. \A v : Segment(v)' = Segment(v)
      BY <2>1, <2>2 DEF Segment
    <2>4. \A u, p : Fits(u, p)' = Fits(u, p)
      BY <2>1 DEF Fits
    <2>5. \A p, v : Maximal(p, v)' = Maximal(p, v)
      BY <2>1, <2>2, <2>3, <2>4 DEF Maximal
    <2>6. CurrentGroup'  = CurrentGroup
      BY <2>1 DEF CurrentGroup, Home
    <2> QED  BY <2>1, <2>2, <2>5, <2>6 DEF Segments
  <1>3. ASSUME NEW t \in Tuple,
               Around(t) \/ MaxRMatch(t) \/ MaxRIgnore(t) \/ MaxRStop(t) \/ MaxS(t)
        PROVE  Segments'
    <2>1. Fetch(t) /\ Fill # "unsupervised"
      BY <1>3, MaxSType DEF Around, MaxRMatch, MaxRIgnore, MaxRStop, FetchMaxR
    <2> QED  BY <2>1, FetchFacts DEF Segments
  <1> QED  BY <1>1, <1>2, <1>3 DEF Next, FillStep

(* For every query without AROUND and every sorted input: the groups that  *)
(* agg_fill_hash_table_unsupervised makes are runs of the input that keep  *)
(* to MAXGROUPDIAM and MAXELEMSEP, and no cut between them was avoidable.  *)
THEOREM SegmentsTheorem == Spec => []SegmentsAreMaximal
  <1>1. Init => TypeOK /\ Sorted /\ Started /\ Segments
    BY TypeInit, SegmentsInit
  <1>2. TypeOK /\ Sorted /\ Started /\ Segments /\ [Next]_vars
            => (TypeOK /\ Sorted /\ Started /\ Segments)'
    BY TypeStep, SegmentsStep
  <1>3. Segments => SegmentsAreMaximal
    BY DEF Segments, SegmentsAreMaximal, Maximal
  <1> QED  BY <1>1, <1>2, <1>3, PTL DEF Spec
-----------------------------------------------------------------------------
(* max-separation around one center. The aggregated tuples form one chain; *)
(* it is alive when it is connected with the center or was, before the cut *)
(* that made the scan ignore the rest.                                     *)
Chain   == {p \in 1 .. numread : Home(p) # {}}
Near(p) == Connected(1, input[p][1])
Alive   == curChain \/ ignoring
Flag    == IF ignoring \/ (pc # "fill" /\ curChain) THEN 2 ELSE 1

(* Every entry of the chain is of the center and has the chain's flag.     *)
ChainEntries ==
    \A e \in Entry : IF members[e] = {} THEN flagEnabled[e] = 0
                     ELSE flagEnabled[e] = Flag /\ e[1] = centers[1]

(* basePosition is the v of a tuple in the chain, or so far back that the  *)
(* next tuple is cut off from it.                                          *)
ChainBase ==
    (numread > 0 /\ ~ignoring) =>
        IF Chain = {} THEN query.sep < input[numread][1] - basePosition
                      ELSE \E m \in Chain : input[m][1] = basePosition

(* The scan ignores only what comes after the reach of the center.         *)
PastCenter ==
    ignoring => ~curChain /\ numread > 0 /\ centers[1] + query.sep < input[numread][1]

NearKept ==
    /\ \A p \in 1 .. numread : Near(p) => p \in Chain /\ Alive
    /\ curChain => \E p \in 1 .. numread : Near(p)

(* The chain has no part that is neither at the center nor linked to the   *)
(* rest; until it is alive, it only hangs together.                        *)
Held(P) ==
    \/ \E p \in P : Near(p)
    \/ \E p \in P, q \in Chain \ P : Linked(p, q)
    \/ ~Alive /\ P = Chain

ChainHolds == \A P \in SUBSET Chain : P # {} => Held(P)

Given == pc = "done" => returned = {e \in Entry : members[e] # {} /\ flagEnabled[e] = 2}

OneCenter ==
    (Fill = "MaxS" /\ Last = 1) =>
        /\ firstTuple <=> numread = 0
        /\ ChainEntries /\ ChainBase /\ PastCenter /\ NearKept /\ ChainHolds /\ Given

LEMMA OneFacts ==
    ASSUME TypeOK, Fill = "MaxS", Last = 1
    PROVE  /\ query.sep \in Nat /\ centers[1] \in Int /\ centers[1] \in Value /\ pivot1 = 1
           /\ \A v : PivotFor(v) = pivot1
           /\ \A v \in Int : Connected(1, v) <=> /\ centers[1] - query.sep <= v
                                                 /\ v <= centers[1] + query.sep
  <1>1. query \in [around : BOOLEAN, diam : Nat \cup {-1}, sep : Nat \cup {-1}]
    BY SGBAroundAssumption DEF TypeOK
  <1>2. query.sep \in Nat
    BY <1>1 DEF Fill
  <1>3. 1 \in 1 .. Last /\ centers[1] \in Int /\ centers[1] \in Value
    BY ConstFacts
  <1>4. centers # <<>>
    <2>1. Len(centers) = 1
      BY DEF Last
    <2> QED  BY <2>1
  <1>5. pivot1 = 1 /\ \A v : PivotFor(v) = pivot1
    BY <1>4, PivotFacts
  <1>6. \A v \in Int : Connected(1, v) <=> /\ centers[1] - query.sep <= v
                                           /\ v <= centers[1] + query.sep
    BY <1>2, <1>3 DEF Connected, FarFrom
  <1> QED  BY <1>2, <1>3, <1>5, <1>6

(* What is known of the tuples read before stays.                          *)
LEMMA OneKeeps ==
    ASSUME TypeOK, NEW t \in Tuple, Fetch(t), NEW n, n = numread + 1
    PROVE  /\ \A p \in 1 .. numread : Near(p)' = Near(p)
           /\ \A p, q \in 1 .. numread : Linked(p, q)' = Linked(p, q)
           /\ Near(n)' = Connected(1, t[1])
           /\ \A p \in 1 .. numread : /\ Linked(n, p)' = (Abs(t[1] - input[p][1]) <= query.sep)
                                      /\ Linked(p, n)' = (Abs(input[p][1] - t[1]) <= query.sep)
  <1>1. /\ input'[n] = t /\ \A p \in 1 .. numread : input'[p] = input[p]
        /\ query' = query /\ centers' = centers
    BY FetchFacts
  <1> QED  BY <1>1 DEF Near, Linked, Connected, FarFrom

LEMMA ChainAdded ==
    ASSUME TypeOK, NEW t \in Tuple, Fetch(t), NEW e \in Entry, members' = Added(members, e),
           NEW n, n = numread + 1
    PROVE  Chain' = Chain \cup {n}
  <1>1. Home(n)' = {e} /\ \A p \in 1 .. numread : Home(p)' = Home(p)
    BY HomeAdded
  <1>2. 1 .. numread' = (1 .. numread) \cup {n}
    BY FetchFacts
  <1> QED  BY <1>1, <1>2 DEF Chain

LEMMA ChainKept ==
    ASSUME TypeOK, NEW t \in Tuple, Fetch(t), members' = members
    PROVE  Chain' = Chain
  <1>1. PICK n : n = numread + 1
    OBVIOUS
  <1>2. Home(n)' = {} /\ \A p \in 1 .. numread : Home(p)' = Home(p)
    BY <1>1, HomeKept
  <1>3. 1 .. numread' = (1 .. numread) \cup {n}
    BY <1>1, FetchFacts
  <1> QED  BY <1>2, <1>3 DEF Chain

(* A reset clears the whole table.                                         *)
LEMMA ResetClears ==
    ASSUME TypeOK, ChainEntries, pc = "fill", ~ignoring
    PROVE  /\ resetAggs(members) = [e \in Entry |-> {}]
           /\ resetFlags(flagEnabled) = [e \in Entry |-> 0]
  <1>1. \A e \in Entry : members[e] = {} => flagEnabled[e] = 0
    BY DEF ChainEntries
  <1>2. \A e \in Entry : members[e] # {} => flagEnabled[e] = 1
    BY DEF ChainEntries, Flag
  <1> QED  BY <1>1, <1>2 DEF resetAggs, resetFlags

(* A tuple joins the chain: it is linked to a member, or both are at the   *)
(* center, or it is the first.                                             *)
LEMMA OneAdds ==
    ASSUME TypeOK, Sorted, OneCenter, Fill = "MaxS", Last = 1, NEW t \in Tuple, Fetch(t),
           ~ignoring, Process(1, t, members, flagEnabled),
           firstTuple' = FALSE, ignoring' = ignoring, pc' = pc,
           curChain' = (curChain \/ Connected(1, t[1])),
           \/ Chain = {}
           \/ curChain /\ Connected(1, t[1])
           \/ \E m \in Chain : t[1] - input[m][1] <= query.sep
    PROVE  OneCenter'
  <1>1. PICK n : n = numread + 1
    OBVIOUS
  <1>2. PICK e : e = EntryOf(centers[1], t)
    OBVIOUS
  <1>3. /\ numread' = n /\ n \in Nat /\ numread \in Nat /\ n > 0 /\ n \notin 1 .. numread
        /\ 1 .. numread' = (1 .. numread) \cup {n} /\ input'[n] = t
        /\ Fill' = Fill /\ Last' = Last /\ UNCHANGED <<query, centers, returned>>
        /\ t[1] \in Int /\ t[2] \in Other /\ pc = "fill"
        /\ \A p \in 1 .. numread : input[p][1] \in Int
    <2>0. numread \in Nat
      BY ConstFacts
    <2>1. /\ numread' = n /\ n \in Nat /\ input'[n] = t
          /\ Fill' = Fill /\ Last' = Last /\ UNCHANGED <<query, centers, returned>>
      BY <1>1, <2>0, FetchFacts
    <2>2. n > 0 /\ n \notin 1 .. numread /\ 1 .. numread' = (1 .. numread) \cup {n}
      BY <1>1, <2>0, <2>1
    <2>3. /\ t[1] \in Int /\ t[2] \in Other /\ pc = "fill"
          /\ \A p \in 1 .. numread : input[p][1] \in Int
      BY FetchFacts, ConstFacts DEF Fetch
    <2> QED  BY <2>0, <2>1, <2>2, <2>3
  <1>4. e \in Entry /\ e[1] = centers[1]
    BY <1>2, <1>3, OneFacts DEF EntryOf, Entry
  <1>5. /\ members' = Added(members, e) /\ flagEnabled' = [flagEnabled EXCEPT ![e] = 1]
        /\ basePosition' = t[1]
    BY <1>2 DEF Process
  <1>6. Chain' = Chain \cup {n} /\ Chain \subseteq 1 .. numread
    BY <1>1, <1>4, <1>5, ChainAdded DEF Chain
  <1>7. /\ ChainEntries /\ PastCenter /\ NearKept /\ ChainHolds
    BY DEF OneCenter
  <1>8. ChainEntries'
    <2>1. /\ members \in [Entry -> SUBSET (1 .. numread)] /\ flagEnabled \in [Entry -> 0 .. 2]
      BY DEF TypeOK
    <2>2. /\ members'[e] # {} /\ flagEnabled'[e] = 1
          /\ \A x \in Entry \ {e} : members'[x] = members[x] /\ flagEnabled'[x] = flagEnabled[x]
      BY <1>4, <1>5, <2>1 DEF Added
    <2>3. Flag = 1 /\ Flag' = 1
      BY <1>3 DEF Flag
    <2>4. \A x \in Entry : IF members[x] = {} THEN flagEnabled[x] = 0
                           ELSE flagEnabled[x] = 1 /\ x[1] = centers[1]
      BY <1>7, <2>3 DEF ChainEntries
    <2>5. \A x \in Entry : IF members'[x] = {} THEN flagEnabled'[x] = 0
                           ELSE flagEnabled'[x] = 1 /\ x[1] = centers'[1]
      BY <1>3, <1>4, <2>2, <2>4
    <2> QED  BY <2>3, <2>5 DEF ChainEntries
  <1>9. ChainBase'
    BY <1>3, <1>5, <1>6 DEF ChainBase
  <1>10. NearKept'
    <2>1. /\ \A p \in 1 .. numread : Near(p)' = Near(p)
          /\ Near(n)' = Connected(1, t[1])
      BY <1>1, OneKeeps
    <2>2. \A p \in 1 .. numread : Near(p) => p \in Chain /\ curChain
      BY <1>7 DEF NearKept, Alive
    <2>3. curChain => \E p \in 1 .. numread : Near(p)
      BY <1>7 DEF NearKept
    <2>4. \A p \in 1 .. numread' : Near(p)' => p \in Chain' /\ curChain'
      BY <1>3, <1>6, <2>1, <2>2
    <2>5. curChain' => \E p \in 1 .. numread' : Near(p)'
      BY <1>3, <2>1, <2>3
    <2> QED  BY <2>4, <2>5 DEF NearKept, Alive
  <1>11. ChainHolds'
    <2> SUFFICES ASSUME NEW P \in SUBSET (Chain \cup {n}), P # {}, ~(\E p \in P : Near(p)'),
                        ~(\E p \in P, q \in (Chain \cup {n}) \ P : Linked(p, q)')
                 PROVE  ~Alive' /\ P = Chain \cup {n}
      BY <1>6 DEF ChainHolds, Held
    <2>1. /\ \A p \in 1 .. numread : Near(p)' = Near(p)
          /\ \A p, q \in 1 .. numread : Linked(p, q)' = Linked(p, q)
          /\ Near(n)' = Connected(1, t[1])
          /\ \A p \in 1 .. numread : /\ Linked(n, p)' = (Abs(t[1] - input[p][1]) <= query.sep)
                                     /\ Linked(p, n)' = (Abs(input[p][1] - t[1]) <= query.sep)
      BY <1>1, OneKeeps
    <2>2. n \notin Chain
      BY <1>3, <1>6
    <2>3. PICK P0 : P0 = P \ {n}
      OBVIOUS
    <2>4. P0 \in SUBSET Chain
      BY <2>3
    <2>5. P0 # {} => ~Alive /\ P0 = Chain
      <3> SUFFICES ASSUME P0 # {} PROVE ~Alive /\ P0 = Chain
        OBVIOUS
      <3>1. Held(P0)
        BY <1>7, <2>4 DEF ChainHolds
      <3>2. ~(\E p \in P0 : Near(p))
        BY <1>6, <2>1, <2>3, <2>4
      <3>3. ~(\E p \in P0, q \in Chain \ P0 : Linked(p, q))
        <4> SUFFICES ASSUME NEW p \in P0, NEW q \in Chain \ P0, Linked(p, q) PROVE FALSE
          OBVIOUS
        <4>1. p \in P /\ q \in (Chain \cup {n}) \ P /\ p \in 1 .. numread /\ q \in 1 .. numread
          BY <1>6, <2>2, <2>3, <2>4
        <4> QED  BY <2>1, <4>1
      <3> QED  BY <3>1, <3>2, <3>3 DEF Held
    <2>6. CASE Chain = {}
      <3>1. P = {n}
        BY <2>6
      <3>2. ~Connected(1, t[1]) /\ ~curChain
        <4>1. ~curChain
          BY <1>7, <2>6 DEF NearKept
        <4> QED  BY <2>1, <3>1, <4>1
      <3> QED  BY <2>6, <3>1, <3>2 DEF Alive
    <2>7. CASE curChain /\ Connected(1, t[1])
      <3>1. n \notin P
        BY <2>1, <2>7
      <3>2. P0 # {} /\ Alive
        BY <2>3, <2>7, <3>1 DEF Alive
      <3> QED  BY <2>5, <3>2
    <2>8. ASSUME NEW m \in Chain, t[1] - input[m][1] <= query.sep
          PROVE  ~Alive' /\ P = Chain \cup {n}
      <3>1. m \in 1 .. numread /\ input[m][1] <= t[1] /\ input[m][1] \in Int
        <4>1. m \in 1 .. numread /\ m <= n /\ m \in Nat
          BY <1>3, <1>6, <1>1
        <4>2. numread > 0 /\ numread \in 1 .. numread /\ m <= numread
          BY <1>3, <4>1
        <4>3. input[m][1] <= input[numread][1] /\ input[numread][1] <= t[1]
          BY <4>1, <4>2 DEF Sorted, Fetch
        <4> QED  BY <1>3, <4>1, <4>2, <4>3
      <3>2. query.sep \in Nat
        BY OneFacts
      <3>3. Abs(t[1] - input[m][1]) <= query.sep /\ Abs(input[m][1] - t[1]) <= query.sep
        BY <1>3, <2>8, <3>1, <3>2 DEF Abs
      <3>4. Linked(n, m)' /\ Linked(m, n)'
        BY <2>1, <3>1, <3>3
      <3>5. n \in P <=> m \in P
        BY <2>8, <3>4
      <3>6. P0 # {}
        BY <2>2, <2>3, <3>5
      <3>7. ~Alive /\ P0 = Chain
        BY <2>5, <3>6
      <3>8. n \in P /\ P = Chain \cup {n}
        BY <2>2, <2>3, <2>8, <3>5, <3>7
      <3>9. ~Connected(1, t[1])
        BY <2>1, <3>8
      <3> QED  BY <3>7, <3>8, <3>9 DEF Alive
    <2> QED  BY <2>6, <2>7, <2>8
  <1>12. PastCenter' /\ Given'
    BY <1>3 DEF PastCenter, Given
  <1>13. firstTuple' <=> numread' = 0
    BY <1>3
  <1> QED  BY <1>8, <1>9, <1>10, <1>11, <1>12, <1>13 DEF OneCenter

(* The chain is given up; the tuple starts one at the center, or not.      *)
LEMMA OneResets ==
    ASSUME TypeOK, Sorted, OneCenter, Fill = "MaxS", Last = 1, NEW t \in Tuple, Fetch(t),
           ~ignoring, ~curChain, Cut(t[1]),
           firstTuple' = FALSE, ignoring' = ignoring, pc' = pc,
           \/ /\ Process(1, t, resetAggs(members), resetFlags(flagEnabled))
              /\ Connected(1, t[1]) /\ curChain' = TRUE
           \/ /\ members' = resetAggs(members) /\ flagEnabled' = resetFlags(flagEnabled)
              /\ ~Connected(1, t[1]) /\ curChain' = curChain /\ basePosition' = basePosition
    PROVE  OneCenter'
  <1>1. PICK n : n = numread + 1
    OBVIOUS
  <1>2. PICK e : e = EntryOf(centers[1], t)
    OBVIOUS
  <1>3. /\ numread' = n /\ n \in Nat /\ numread \in Nat /\ n > 0 /\ n \notin 1 .. numread
        /\ 1 .. numread' = (1 .. numread) \cup {n} /\ input'[n] = t
        /\ Fill' = Fill /\ Last' = Last /\ UNCHANGED <<query, centers, returned>>
        /\ t[1] \in Int /\ t[2] \in Other /\ pc = "fill"
    BY <1>1, FetchFacts, ConstFacts DEF Fetch
  <1>4. e \in Entry /\ e[1] = centers[1]
    BY <1>2, <1>3, OneFacts DEF EntryOf, Entry
  <1>5. ChainEntries /\ NearKept
    BY DEF OneCenter
  <1>6. /\ \A p \in 1 .. numread : ~Near(p)'
        /\ Near(n)' = Connected(1, t[1])
    BY <1>1, <1>5, OneKeeps DEF NearKept, Alive
  <1>7. Flag' = 1
    BY <1>3 DEF Flag
  <1>8. PastCenter' /\ Given' /\ (firstTuple' <=> numread' = 0)
    BY <1>3 DEF PastCenter, Given
  <1>9. CASE Connected(1, t[1])
    <2>1. /\ members' = Added([x \in Entry |-> {}], e) /\ basePosition' = t[1] /\ curChain' = TRUE
          /\ flagEnabled' = [[x \in Entry |-> 0] EXCEPT ![e] = 1]
      BY <1>2, <1>3, <1>5, <1>9, ResetClears DEF Process
    <2>2. \A x \in Entry : /\ members'[x] = IF x = e THEN {n} ELSE {}
                           /\ flagEnabled'[x] = IF x = e THEN 1 ELSE 0
      BY <1>1, <1>4, <2>1 DEF Added
    <2>3. ChainEntries'
      BY <1>3, <1>4, <1>7, <2>2 DEF ChainEntries
    <2>4. Chain' = {n}
      <3>1. Home(n)' = {e} /\ \A p \in 1 .. numread : Home(p)' = {}
        BY <1>3, <1>4, <2>2 DEF Home
      <3> QED  BY <1>3, <3>1 DEF Chain
    <2>5. ChainBase' /\ NearKept'
      BY <1>3, <1>6, <1>9, <2>1, <2>4 DEF ChainBase, NearKept, Alive
    <2>6. ChainHolds'
      BY <1>6, <1>9, <2>4 DEF ChainHolds, Held
    <2> QED  BY <1>8, <2>3, <2>5, <2>6 DEF OneCenter
  <1>10. CASE ~Connected(1, t[1])
    <2>1. /\ members' = [x \in Entry |-> {}] /\ basePosition' = basePosition /\ ~curChain'
          /\ flagEnabled' = [x \in Entry |-> 0]
      BY <1>3, <1>5, <1>10, ResetClears
    <2>2. ChainEntries'
      BY <2>1 DEF ChainEntries
    <2>3. Chain' = {}
      BY <2>1 DEF Chain, Home
    <2>4. ChainBase'
      BY <1>3, <2>1, <2>3 DEF ChainBase, Cut
    <2>5. NearKept'
      BY <1>3, <1>6, <1>10, <2>1 DEF NearKept
    <2>6. ChainHolds'
      BY <2>3 DEF ChainHolds
    <2> QED  BY <1>8, <2>2, <2>4, <2>5, <2>6 DEF OneCenter
  <1> QED  BY <1>9, <1>10

(* The chain is complete, and the tuple and all after it are ignored.      *)
LEMMA OneIgnores ==
    ASSUME TypeOK, Sorted, OneCenter, Fill = "MaxS", Last = 1, NEW t \in Tuple, Fetch(t),
           members' = members, firstTuple' = FALSE, pc' = pc, ignoring' = TRUE, curChain' = FALSE,
           \/ ignoring /\ flagEnabled' = flagEnabled
           \/ /\ ~ignoring /\ curChain /\ ~Connected(1, t[1])
              /\ flagEnabled' = enable_chain(flagEnabled)
    PROVE  OneCenter'
  <1>1. PICK n : n = numread + 1
    OBVIOUS
  <1>2. /\ numread' = n /\ n \in Nat /\ numread \in Nat /\ n > 0
        /\ 1 .. numread' = (1 .. numread) \cup {n} /\ input'[n] = t
        /\ Fill' = Fill /\ Last' = Last /\ UNCHANGED <<query, centers, returned>>
        /\ t[1] \in Int /\ pc = "fill"
        /\ \A p \in 1 .. numread : input[p][1] \in Int
    BY <1>1, FetchFacts, ConstFacts DEF Fetch
  <1>3. Chain' = Chain /\ Chain \subseteq 1 .. numread
    BY ChainKept DEF Chain
  <1>4. ChainEntries /\ PastCenter /\ NearKept /\ ChainHolds
    BY DEF OneCenter
  <1>5. query.sep \in Nat /\ centers[1] \in Int
    BY OneFacts
  <1>6. ASSUME NEW p \in 1 .. numread PROVE input[p][1] <= t[1] /\ input[p][1] \in Int
    <2>1. numread > 0 /\ numread \in 1 .. numread /\ p <= numread
      BY <1>2
    <2>2. input[p][1] <= input[numread][1] /\ input[numread][1] <= t[1]
      BY <2>1 DEF Sorted, Fetch
    <2>3. input[p][1] \in Int /\ input[numread][1] \in Int
      BY <1>2, <2>1
    <2> QED  BY <1>2, <2>2, <2>3
  <1>7. centers[1] + query.sep < t[1]
    <2>1. CASE ignoring
      <3>1. numread \in 1 .. numread /\ centers[1] + query.sep < input[numread][1]
        BY <1>2, <1>4, <2>1 DEF PastCenter
      <3>2. input[numread][1] <= t[1] /\ input[numread][1] \in Int
        BY <1>6, <3>1
      <3> QED  BY <1>2, <1>5, <3>1, <3>2
    <2>2. CASE ~ignoring
      <3>1. PICK p \in 1 .. numread : Near(p)
        BY <1>4, <2>2 DEF NearKept
      <3>2. centers[1] - query.sep <= input[p][1]
        BY <1>6, <3>1, OneFacts DEF Near
      <3>3. ~(centers[1] - query.sep <= t[1] /\ t[1] <= centers[1] + query.sep)
        BY <1>2, <2>2, OneFacts
      <3>4. input[p][1] <= t[1] /\ input[p][1] \in Int
        BY <1>6
      <3> QED  BY <1>2, <1>5, <3>2, <3>3, <3>4
    <2> QED  BY <2>1, <2>2
  <1>8. ~Connected(1, t[1])
    BY <1>2, <1>5, <1>7, OneFacts
  <1>9. ChainEntries'
    <2>1. flagEnabled \in [Entry -> 0 .. 2]
      BY DEF TypeOK
    <2>2. Flag' = 2
      BY DEF Flag
    <2>3. CASE ignoring
      BY <1>2, <1>4, <2>2, <2>3 DEF ChainEntries, Flag
    <2>4. CASE ~ignoring
      <3>1. \A x \in Entry : flagEnabled'[x] = IF flagEnabled[x] = 1 THEN 2 ELSE flagEnabled[x]
        BY <2>4 DEF enable_chain
      <3>2. \A x \in Entry : IF members[x] = {} THEN flagEnabled[x] = 0
                             ELSE flagEnabled[x] = 1 /\ x[1] = centers[1]
        BY <1>2, <1>4, <2>4 DEF ChainEntries, Flag
      <3>3. \A x \in Entry : IF members'[x] = {} THEN flagEnabled'[x] = 0
                             ELSE flagEnabled'[x] = 2 /\ x[1] = centers'[1]
        BY <1>2, <3>1, <3>2
      <3> QED  BY <2>2, <3>3 DEF ChainEntries
    <2> QED  BY <2>3, <2>4
  <1>10. PastCenter' /\ Given' /\ ChainBase' /\ (firstTuple' <=> numread' = 0)
    BY <1>2, <1>7 DEF PastCenter, Given, ChainBase
  <1>11. /\ \A p \in 1 .. numread : Near(p)' = Near(p)
         /\ \A p, q \in 1 .. numread : Linked(p, q)' = Linked(p, q)
         /\ ~Near(n)'
    BY <1>1, <1>8, OneKeeps
  <1>12. NearKept'
    BY <1>2, <1>3, <1>4, <1>11 DEF NearKept, Alive
  <1>13. ChainHolds'
    <2>1. Alive
      BY DEF Alive
    <2> SUFFICES ASSUME NEW P \in SUBSET Chain, P # {}
                 PROVE  \/ \E p \in P : Near(p)'
                        \/ \E p \in P, q \in Chain \ P : Linked(p, q)'
      BY <1>3 DEF ChainHolds, Held
    <2>2. \/ \E p \in P : Near(p)
          \/ \E p \in P, q \in Chain \ P : Linked(p, q)
      BY <1>4, <2>1 DEF ChainHolds, Held
    <2> QED  BY <1>3, <1>11, <2>2
  <1> QED  BY <1>9, <1>10, <1>12, <1>13 DEF OneCenter

LEMMA OneInit == Init => OneCenter
  <1> SUFFICES ASSUME Init PROVE OneCenter
    OBVIOUS
  <1>1. /\ numread = 0 /\ firstTuple = TRUE /\ curChain = FALSE /\ ignoring = FALSE /\ pc = "fill"
        /\ members = [e \in Entry |-> {}] /\ flagEnabled = [e \in Entry |-> 0]
    BY DEF Init
  <1>2. Chain = {}
    BY <1>1 DEF Chain
  <1>3. ChainEntries
    BY <1>1 DEF ChainEntries
  <1>4. ChainBase /\ PastCenter /\ NearKept /\ ChainHolds /\ Given
    BY <1>1, <1>2 DEF ChainBase, PastCenter, NearKept, ChainHolds, Given
  <1> QED  BY <1>1, <1>3, <1>4 DEF OneCenter

LEMMA OneStep == TypeOK /\ Sorted /\ OneCenter /\ [Next]_vars => OneCenter'
  <1> SUFFICES ASSUME TypeOK, Sorted, OneCenter, [Next]_vars PROVE OneCenter'
    OBVIOUS
  <1>1. ASSUME NEW t \in Tuple, MaxS(t), Last = 1 PROVE OneCenter'
    <2>1. Fetch(t) /\ Fill = "MaxS" /\ pc' = pc
      BY <1>1, MaxSType
    <2>2. pivot1 = 1 /\ PivotFor(t[1]) = pivot1 /\ query.sep \in Nat
      BY <1>1, <2>1, OneFacts
    <2>3. /\ firstTuple <=> numread = 0
          /\ ChainBase /\ PastCenter /\ NearKept
      BY <1>1, <2>1 DEF OneCenter
    <2>4. /\ numread \in Nat /\ t[1] \in Int /\ basePosition \in Int
          /\ firstTuple \in BOOLEAN /\ curChain \in BOOLEAN /\ ignoring \in BOOLEAN
      BY <2>1, FetchFacts, ConstFacts DEF TypeOK
    <2>5. ignoring => ~curChain /\ numread > 0
      BY <2>3 DEF PastCenter
    <2>6. CASE NewPivot(t)
      BY <2>2, <2>6 DEF NewPivot
    <2>7. CASE FirstTuple(t)
      <3>1. numread = 0 /\ ~ignoring
        BY <2>3, <2>4, <2>5, <2>7 DEF FirstTuple
      <3>2. Chain = {} /\ ~curChain
        BY <2>3, <3>1 DEF Chain, NearKept
      <3>3. /\ Process(1, t, members, flagEnabled) /\ curChain' = Connected(1, t[1])
            /\ firstTuple' = FALSE /\ ignoring' = ignoring
        BY <2>2, <2>7 DEF FirstTuple
      <3>4. curChain' = (curChain \/ Connected(1, t[1]))
        BY <3>2, <3>3, Zenon DEF Connected
      <3> QED  BY <1>1, <2>1, <3>1, <3>2, <3>3, <3>4, OneAdds
    <2>8. CASE Ignored(t)
      <3>1. /\ ignoring /\ ~firstTuple /\ members' = members /\ flagEnabled' = flagEnabled
            /\ curChain' = curChain /\ ignoring' = ignoring /\ firstTuple' = firstTuple
        BY <2>8 DEF Ignored, LaterTuple, tableVars
      <3>2. firstTuple' = FALSE /\ ignoring' = TRUE /\ curChain' = FALSE
        BY <2>4, <2>5, <3>1
      <3> QED  BY <1>1, <2>1, <3>1, <3>2, OneIgnores
    <2>9. CASE NoCut(t)
      <3>1. /\ ~ignoring /\ ~firstTuple /\ ~Cut(t[1]) /\ Process(1, t, members, flagEnabled)
            /\ curChain' = (curChain \/ Connected(1, t[1]))
            /\ firstTuple' = firstTuple /\ ignoring' = ignoring
        BY <2>2, <2>9 DEF NoCut, LaterTuple
      <3>2. numread > 0 /\ numread \in 1 .. numread
        BY <2>3, <2>4, <3>1
      <3>3. input[numread][1] <= t[1] /\ input[numread][1] \in Int
        BY <2>1, <3>2, ConstFacts DEF Fetch
      <3>4. t[1] - basePosition <= query.sep
        BY <2>2, <2>4, <3>1 DEF Cut
      <3>5. Chain # {}
        BY <2>2, <2>3, <2>4, <3>1, <3>2, <3>3, <3>4 DEF ChainBase
      <3>6. PICK m \in Chain : input[m][1] = basePosition
        BY <2>3, <3>1, <3>2, <3>5 DEF ChainBase
      <3>7. t[1] - input[m][1] <= query.sep /\ firstTuple' = FALSE
        BY <2>4, <3>1, <3>4, <3>6
      <3> QED  BY <1>1, <2>1, <3>1, <3>7, OneAdds
    <2>10. CASE CutJoined(t)
      <3>1. /\ ~ignoring /\ ~firstTuple /\ Connected(1, t[1]) /\ curChain
            /\ Process(1, t, members, flagEnabled)
            /\ curChain' = curChain /\ firstTuple' = firstTuple /\ ignoring' = ignoring
        BY <2>2, <2>10 DEF CutJoined, LaterTuple
      <3>2. curChain' = (curChain \/ Connected(1, t[1])) /\ firstTuple' = FALSE
        BY <2>4, <3>1
      <3> QED  BY <1>1, <2>1, <3>1, <3>2, OneAdds
    <2>11. CASE CutRestart(t)
      <3>1. /\ ~ignoring /\ ~firstTuple /\ Connected(1, t[1]) /\ ~curChain /\ Cut(t[1])
            /\ Process(1, t, resetAggs(members), resetFlags(flagEnabled))
            /\ curChain' = TRUE /\ firstTuple' = firstTuple /\ ignoring' = ignoring
        BY <2>2, <2>11 DEF CutRestart, LaterTuple
      <3>2. firstTuple' = FALSE
        BY <2>4, <3>1
      <3> QED  BY <1>1, <2>1, <3>1, <3>2, OneResets
    <2>12. CASE CutComplete(t)
      <3>1. /\ ~ignoring /\ ~firstTuple /\ ~Connected(1, t[1]) /\ curChain
            /\ members' = members /\ flagEnabled' = enable_chain(flagEnabled)
            /\ curChain' = FALSE /\ firstTuple' = firstTuple /\ ignoring' = TRUE
        BY <2>2, <2>12 DEF CutComplete, LaterTuple
      <3>2. firstTuple' = FALSE
        BY <2>4, <3>1
      <3> QED  BY <1>1, <2>1, <3>1, <3>2, OneIgnores
    <2>13. CASE CutGiveUp(t)
      <3>1. /\ ~ignoring /\ ~firstTuple /\ ~Connected(1, t[1]) /\ ~curChain /\ Cut(t[1])
            /\ members' = resetAggs(members) /\ flagEnabled' = resetFlags(flagEnabled)
            /\ curChain' = curChain /\ firstTuple' = firstTuple /\ ignoring' = ignoring
            /\ basePosition' = basePosition
        BY <2>2, <2>13 DEF CutGiveUp, LaterTuple
      <3>2. firstTuple' = FALSE
        BY <2>4, <3>1
      <3> QED  BY <1>1, <2>1, <3>1, <3>2, OneResets
    <2> QED  BY <1>1, <2>6, <2>7, <2>8, <2>9, <2>10, <2>11, <2>12, <2>13 DEF MaxS
  <1>2. ASSUME NEW t \in Tuple, MaxS(t), Last # 1 PROVE OneCenter'
    <2>1. Last' # 1
      BY <1>2, MaxSType, FetchFacts
    <2> QED  BY <2>1 DEF OneCenter
  <1>3. ASSUME NEW t \in Tuple,
               Around(t) \/ MaxRMatch(t) \/ MaxRIgnore(t) \/ MaxRStop(t) \/ Unsupervised(t)
        PROVE  OneCenter'
    <2>1. Fetch(t) /\ Fill # "MaxS"
      BY <1>3 DEF Around, MaxRMatch, MaxRIgnore, MaxRStop, FetchMaxR, Unsupervised
    <2> QED  BY <2>1, FetchFacts DEF OneCenter
  <1>4. CASE Unsupported \/ EndOfInput \/ Retrieve \/ UNCHANGED vars
    <2>1. UNCHANGED <<query, centers, members, numread, input, scanVars>>
      BY <1>4 DEF Unsupported, EndOfInput, Retrieve, vars, tableVars
    <2>2. UNCHANGED <<pivot1, basePosition, firstGrpElement, firstTuple, curChain, ignoring>>
      BY <2>1 DEF scanVars
    <2>3. Fill' = Fill /\ Last' = Last
      BY <2>1 DEF Fill, Last
    <2> SUFFICES ASSUME Fill = "MaxS", Last = 1
                 PROVE  /\ firstTuple' <=> numread' = 0
                        /\ ChainEntries' /\ ChainBase' /\ PastCenter' /\ NearKept'
                        /\ ChainHolds' /\ Given'
      BY <2>3 DEF OneCenter
    <2>4. /\ firstTuple <=> numread = 0
          /\ ChainEntries /\ ChainBase /\ PastCenter /\ NearKept /\ ChainHolds /\ Given
      BY DEF OneCenter
    <2>5. Chain' = Chain /\ Alive' = Alive
      BY <2>1, <2>2 DEF Chain, Home, Alive
    <2>6. \A p, q : Near(p)' = Near(p) /\ Linked(p, q)' = Linked(p, q)
      BY <2>1 DEF Near, Linked, Connected, FarFrom
    <2>7. ChainBase' /\ PastCenter'
      BY <2>1, <2>2, <2>4, <2>5 DEF ChainBase, PastCenter
    <2>8. NearKept' /\ ChainHolds'
      BY <2>1, <2>2, <2>4, <2>5, <2>6 DEF NearKept, ChainHolds, Held
    <2>9. CASE EndOfInput
      <3>1. /\ pc = "fill" /\ pc' = "retrieve"
            /\ flagEnabled' = IF curChain THEN enable_chain(flagEnabled) ELSE flagEnabled
        BY <2>9 DEF EndOfInput
      <3>2. Flag = (IF ignoring THEN 2 ELSE 1) /\ Flag' = (IF ignoring \/ curChain THEN 2 ELSE 1)
        BY <2>2, <3>1 DEF Flag
      <3>3. ChainEntries'
        <4>1. CASE curChain
          <5>1. \A x \in Entry : flagEnabled'[x] = IF flagEnabled[x] = 1 THEN 2 ELSE flagEnabled[x]
            BY <3>1, <4>1 DEF enable_chain
          <5>2. Flag' = 2 /\ Flag \in {1, 2}
            BY <3>2, <4>1
          <5>3. \A x \in Entry : IF members'[x] = {} THEN flagEnabled'[x] = 0
                                 ELSE flagEnabled'[x] = 2 /\ x[1] = centers'[1]
            BY <2>1, <2>4, <5>1, <5>2 DEF ChainEntries
          <5> QED  BY <5>2, <5>3 DEF ChainEntries
        <4>2. CASE ~curChain
          BY <2>1, <2>4, <3>1, <3>2, <4>2 DEF ChainEntries
        <4> QED  BY <4>1, <4>2
      <3> QED  BY <2>1, <2>2, <2>4, <2>7, <2>8, <3>1, <3>3 DEF Given
    <2>10. CASE Retrieve
      <3>1. /\ pc = "retrieve" /\ pc' = "done" /\ flagEnabled' = flagEnabled
            /\ returned' = {e \in Entry : members[e] # {} /\ flagEnabled[e] = 2}
        BY <2>10 DEF Retrieve, tableVars
      <3>2. Flag' = Flag
        BY <2>2, <3>1 DEF Flag
      <3> QED  BY <2>1, <2>2, <2>4, <2>7, <2>8, <3>1, <3>2 DEF ChainEntries, Given
    <2>11. CASE Unsupported
      BY <2>11 DEF Unsupported
    <2>12. CASE UNCHANGED vars
      <3>1. pc' = pc /\ flagEnabled' = flagEnabled /\ returned' = returned
        BY <2>12 DEF vars, tableVars
      <3>2. Flag' = Flag
        BY <2>2, <3>1 DEF Flag
      <3> QED  BY <2>1, <2>2, <2>4, <2>7, <2>8, <3>1, <3>2 DEF ChainEntries, Given
    <2> QED  BY <1>4, <2>9, <2>10, <2>11, <2>12
  <1> QED  BY <1>1, <1>2, <1>3, <1>4 DEF Next, FillStep

(* The answer is the chain if it is alive.                                 *)
LEMMA OneAnswer ==
    ASSUME TypeOK, OneCenter, Fill = "MaxS", Last = 1, pc = "done"
    PROVE  /\ Answer = IF Alive THEN Chain ELSE {}
           /\ \A p \in Answer : Near(p) => AtCenter(p)
  <1>1. ChainEntries /\ Given
    BY DEF OneCenter
  <1>2. returned = {e \in Entry : members[e] # {} /\ flagEnabled[e] = 2}
    BY <1>1 DEF Given
  <1>3. Flag = IF Alive THEN 2 ELSE 1
    BY DEF Flag, Alive
  <1>4. returned = IF Alive THEN {e \in Entry : members[e] # {}} ELSE {}
    BY <1>1, <1>2, <1>3 DEF ChainEntries
  <1>5. \A e \in Entry : members[e] \subseteq 1 .. numread
    BY DEF TypeOK
  <1>6. Answer = IF Alive THEN Chain ELSE {}
    BY <1>4, <1>5 DEF Answer, Chain, Home
  <1>7. ASSUME NEW p \in Answer, Near(p) PROVE AtCenter(p)
    <2>1. PICK e \in returned : p \in members[e]
      BY DEF Answer
    <2>2. e[1] = centers[1]
      BY <1>1, <1>2, <2>1 DEF ChainEntries
    <2>3. p \in 1 .. numread
      BY <1>2, <1>5, <2>1
    <2>4. input[p][1] \in Int /\ query.sep \in Nat /\ centers[1] \in Int
      BY <2>3, ConstFacts, OneFacts
    <2>5. centers[1] - query.sep <= input[p][1] /\ input[p][1] <= centers[1] + query.sep
      BY <1>7, <2>4, OneFacts DEF Near
    <2>6. Abs(input[p][1] - e[1]) <= query.sep
      BY <2>2, <2>4, <2>5 DEF Abs
    <2> QED  BY <2>1, <2>6 DEF AtCenter
  <1> QED  BY <1>6, <1>7

(* For AROUND one center with MAXELEMSEP and every sorted input:           *)
(* agg_fill_hash_table_around_MaxS returns every tuple within MAXELEMSEP   *)
(* of the center, over all cuts, resets and what is ignored after them.    *)
THEOREM NearTuplesTheorem == Spec => []NearTuplesReturned
  <1>1. Init => TypeOK /\ Sorted /\ Started /\ OneCenter
    BY TypeInit, OneInit
  <1>2. TypeOK /\ Sorted /\ Started /\ OneCenter /\ [Next]_vars
            => (TypeOK /\ Sorted /\ Started /\ OneCenter)'
    BY TypeStep, OneStep
  <1>3. TypeOK /\ OneCenter => NearTuplesReturned
    <2> SUFFICES ASSUME TypeOK, OneCenter, Fill = "MaxS", Last = 1, pc = "done",
                        NEW p \in 1 .. numread, Connected(1, input[p][1])
                 PROVE  p \in Answer
      BY DEF NearTuplesReturned
    <2>1. Near(p) /\ NearKept
      BY DEF Near, OneCenter
    <2>2. p \in Chain /\ Alive
      BY <2>1 DEF NearKept
    <2> QED  BY <2>2, OneAnswer
  <1> QED  BY <1>1, <1>2, <1>3, PTL DEF Spec

(* And what it returns is one chain of tuples at most MAXELEMSEP apart     *)
(* that comes to within MAXELEMSEP of the center: no part of the answer is *)
(* cut off from both.                                                      *)
THEOREM ChainTheorem == Spec => []ChainReachesCenter
  <1>1. Init => TypeOK /\ Sorted /\ Started /\ OneCenter
    BY TypeInit, OneInit
  <1>2. TypeOK /\ Sorted /\ Started /\ OneCenter /\ [Next]_vars
            => (TypeOK /\ Sorted /\ Started /\ OneCenter)'
    BY TypeStep, OneStep
  <1>3. TypeOK /\ OneCenter => ChainReachesCenter
    <2> SUFFICES ASSUME TypeOK, OneCenter, Fill = "MaxS", Last = 1, pc = "done",
                        NEW P \in SUBSET Answer, P # {}
                 PROVE  \/ \E p \in P : AtCenter(p)
                        \/ \E p \in P, q \in Answer \ P : Linked(p, q)
      BY DEF ChainReachesCenter, ChainsReachCenter
    <2>1. Alive /\ Answer = Chain
      BY OneAnswer
    <2>2. Held(P)
      BY <2>1 DEF OneCenter, ChainHolds
    <2> QED  BY <2>1, <2>2, OneAnswer DEF Held
  <1> QED  BY <1>1, <1>2, <1>3, PTL DEF Spec
=============================================================================
