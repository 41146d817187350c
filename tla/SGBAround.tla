----------------------------- MODULE SGBAround ------------------------------
(***************************************************************************)
(* The one-dimensional similarity group-bys of ExecAgg:                    *)
(*                                                                         *)
(*   GROUP BY v, b AROUND (centers)                     around             *)
(*   ... AROUND (centers) MAXGROUPDIAM d                around_MaxR        *)
(*   ... AROUND (centers) MAXELEMSEP s                  around_MaxS        *)
(*   GROUP BY v, b [MAXGROUPDIAM d] [MAXELEMSEP s]      unsupervised       *)
(*                                                                         *)
(* The outer plan delivers its tuples sorted on v, the first grouping      *)
(* column, and only on it; the inner plan delivers the centers in the      *)
(* order of the user's subquery. One pass over both replaces v of a tuple  *)
(* by the value that stands for its group, a center or the first v of the  *)
(* group, and looks up the hash entry of the modified tuple.               *)
(***************************************************************************)
EXTENDS Integers, Sequences, FiniteSets, FiniteSetsExt

CONSTANTS Queries,      \* records [around, diam, sep]; -1 is an absent clause
          CenterLists,  \* sequences the inner plan may deliver
          Value, Other, \* the grouping columns v and b
          MaxTuples     \* bound: tuples of the outer plan

ASSUME SGBAroundAssumption ==
    /\ Queries \subseteq [around : BOOLEAN, diam : Nat \cup {-1}, sep : Nat \cup {-1}]
    /\ \A q \in Queries : q.around \/ q.diam # -1 \/ q.sep # -1
    /\ CenterLists \subseteq Seq(Value)
    /\ Value \subseteq Int
    /\ MaxTuples \in Nat \ {0}

VARIABLES
    query, centers,
    pc,                 \* fill, retrieve, done, error
    pivot1,             \* place of pivot 1 in centers; pivot 2 is the next one
    basePosition,       \* v of the last element processed
    firstGrpElement,    \* unsupervised: first v of the current group
    firstTuple,
    curChain,           \* curChainConnectedWithCenter
    ignoring,           \* ignoreUntilNextGroup
    members,            \* input positions in the aggregates of a hash entry
    flagEnabled,        \* 0, 1 being processed, 2 to be returned
    returned,           \* entries agg_retrieve_hash_table gave out
    numread, input      \* history: tuples read

scanVars  == <<pivot1, basePosition, firstGrpElement, firstTuple, curChain, ignoring>>
tableVars == <<members, flagEnabled>>
vars == <<query, centers, pc, scanVars, tableVars, returned, numread, input>>

Position == 1 .. MaxTuples
Tuple    == Value \X Other
Entry    == Value \X Other

Init ==
    /\ query \in Queries
    /\ IF query.around THEN centers \in CenterLists ELSE centers = <<>>
    /\ pc = "fill"
    /\ pivot1 = 1
    /\ basePosition = 0
    /\ firstGrpElement = 0
    /\ firstTuple = TRUE
    /\ curChain = FALSE
    /\ ignoring = FALSE
    /\ members = [e \in Entry |-> {}]
    /\ flagEnabled = [e \in Entry |-> 0]
    /\ returned = {}
    /\ numread = 0
    /\ input = <<>>
-----------------------------------------------------------------------------
(* The function ExecAgg calls for the query.                               *)
Fill ==
    IF ~query.around THEN "unsupervised"
    ELSE IF query.diam # -1 /\ query.sep # -1 THEN "unsupported"
    ELSE IF query.diam # -1 THEN "MaxR"
    ELSE IF query.sep # -1 THEN "MaxS"
    ELSE "around"

maxRadius == query.diam \div 2
Last      == Len(centers)

(* execTuplesMatchAroundHash: v belongs to the center at place k, or no    *)
(* later center is known.                                                  *)
MatchAround(k, v) ==
    \/ k = Last
    \/ v <= centers[k]
    \/ v - centers[k] < centers[k + 1] - v

(* execTuplesMatchAroundHash_MaxR: result, ignore and stop as one verdict. *)
VerdictMaxR(k, v) ==
    LET c == centers[k]
    IN  IF v < c - maxRadius THEN "ignore"
        ELSE IF k = Last
        THEN IF v - maxRadius < c THEN "match" ELSE "stop"
        ELSE IF (centers[k + 1] - c) - maxRadius < maxRadius
        THEN IF v < c \/ v - c < centers[k + 1] - v THEN "match" ELSE "advance"
        ELSE IF v - c < maxRadius THEN "match" ELSE "advance"

(* The loops that advance the pivots until one of them settles v.          *)
PivotOnce(v) == IF MatchAround(pivot1, v) THEN pivot1 ELSE pivot1 + 1
PivotFor(v) == Min({k \in pivot1 .. Last : MatchAround(k, v)})
PivotForMaxR(v) == Min({k \in pivot1 .. Last : VerdictMaxR(k, v) # "advance"})

Fetch(t) ==
    /\ pc = "fill"
    /\ Fill = "unsupervised" \/ centers # <<>>
    /\ numread < MaxTuples
    /\ numread > 0 => input[numread][1] <= t[1]
    /\ numread' = numread + 1
    /\ input' = Append(input, t)
    /\ UNCHANGED <<query, centers, returned>>

EntryOf(v, t) == <<v, t[2]>>
Added(m, e)   == [m EXCEPT ![e] = @ \cup {numread + 1}]
-----------------------------------------------------------------------------
Around(t) ==
    /\ Fill = "around"
    /\ Fetch(t)
    /\ pivot1' = PivotFor(t[1])
    /\ members' = Added(members, EntryOf(centers[PivotFor(t[1])], t))
    /\ UNCHANGED <<pc, basePosition, firstGrpElement, firstTuple, curChain, ignoring, flagEnabled>>

FetchMaxR(t, verdict) ==
    /\ Fill = "MaxR"
    /\ Fetch(t)
    /\ pivot1' = PivotForMaxR(t[1])
    /\ VerdictMaxR(PivotForMaxR(t[1]), t[1]) = verdict
    /\ UNCHANGED <<basePosition, firstGrpElement, firstTuple, curChain, ignoring, flagEnabled>>

MaxRMatch(t) ==
    /\ FetchMaxR(t, "match")
    /\ members' = Added(members, EntryOf(centers[PivotForMaxR(t[1])], t))
    /\ UNCHANGED pc

MaxRIgnore(t) ==
    /\ FetchMaxR(t, "ignore")
    /\ UNCHANGED <<pc, members>>

(* No later tuple can belong to a group: the input is left unread.         *)
MaxRStop(t) ==
    /\ FetchMaxR(t, "stop")
    /\ pc' = "retrieve"
    /\ UNCHANGED members
-----------------------------------------------------------------------------
(* max-separation: elements are collected in the entry of their center     *)
(* with flag 1. The chain they form is enabled for output once it is known *)
(* to be connected with the center, or reset.                              *)
enable_chainAgain(f) == [e \in Entry |-> IF f[e] >= 1 THEN f[e] + 1 ELSE f[e]]
enable_chain(f) == [e \in Entry |-> IF f[e] = 1 THEN 2 ELSE f[e]]
resetFlags(f)   == [e \in Entry |-> IF f[e] = 1 THEN 0 ELSE f[e]]
resetAggs(m)    == [e \in Entry |-> IF flagEnabled[e] = 1 THEN {} ELSE m[e]]

FarFrom(c, v)   == IF v < c THEN query.sep < c - v ELSE query.sep < v - c
Connected(k, v) == ~FarFrom(centers[k], v)
Cut(v)          == query.sep < v - basePosition

(* The element joins the entry of the center at place k.                   *)
Process(k, t, m, f) ==
    /\ members' = Added(m, EntryOf(centers[k], t))
    /\ flagEnabled' = [f EXCEPT ![EntryOf(centers[k], t)] = 1]
    /\ basePosition' = t[1]

FetchMaxS(t) ==
    /\ Fill = "MaxS"
    /\ Fetch(t)
    /\ UNCHANGED <<pc, firstGrpElement>>

(* t does not belong to the current pivots: its chain starts anew. A chain *)
(* that is not connected keeps its flags.                                  *)
NewPivot(t) ==
    LET k == PivotFor(t[1])
    IN  /\ FetchMaxS(t)
        /\ k # pivot1
        /\ pivot1' = k
        /\ Process(k, t, members, IF curChain THEN enable_chain(flagEnabled) ELSE flagEnabled)
        /\ ignoring' = FALSE
        /\ curChain' = Connected(k, t[1])
        /\ UNCHANGED firstTuple

FirstTuple(t) ==
    /\ FetchMaxS(t)
    /\ PivotFor(t[1]) = pivot1
    /\ firstTuple
    /\ Process(pivot1, t, members, flagEnabled)
    /\ curChain' = Connected(pivot1, t[1])
    /\ firstTuple' = FALSE
    /\ UNCHANGED <<pivot1, ignoring>>

LaterTuple(t) ==
    /\ FetchMaxS(t)
    /\ PivotFor(t[1]) = pivot1
    /\ ~firstTuple
    /\ UNCHANGED <<pivot1, firstTuple>>

Ignored(t) ==
    /\ LaterTuple(t)
    /\ ignoring
    /\ UNCHANGED <<tableVars, basePosition, curChain, ignoring>>

NoCut(t) ==
    /\ LaterTuple(t)
    /\ ~ignoring /\ ~Cut(t[1])
    /\ Process(pivot1, t, members, flagEnabled)
    /\ curChain' = (curChain \/ Connected(pivot1, t[1]))
    /\ UNCHANGED ignoring

(* There is a cut, but the element and the chain are joined by the center. *)
CutJoined(t) ==
    /\ LaterTuple(t)
    /\ ~ignoring /\ Cut(t[1]) /\ Connected(pivot1, t[1]) /\ curChain
    /\ Process(pivot1, t, members, flagEnabled)
    /\ UNCHANGED <<curChain, ignoring>>

(* t starts a chain at the center, but the chain so far stays.             *)
CutRestartKept(t) ==
    /\ LaterTuple(t)
    /\ ~ignoring /\ Cut(t[1]) /\ Connected(pivot1, t[1]) /\ ~curChain
    /\ Process(pivot1, t, members, flagEnabled)
    /\ curChain' = TRUE
    /\ UNCHANGED ignoring

(* The chain so far is given up, and t starts one at the center.           *)
CutRestart(t) ==
    /\ LaterTuple(t)
    /\ ~ignoring /\ Cut(t[1]) /\ Connected(pivot1, t[1]) /\ ~curChain
    /\ Process(pivot1, t, resetAggs(members), resetFlags(flagEnabled))
    /\ curChain' = TRUE
    /\ UNCHANGED ignoring

(* t is left out, and the chain before it is not enabled.                  *)
CutCompleteLost(t) ==
    /\ LaterTuple(t)
    /\ ~ignoring /\ Cut(t[1]) /\ ~Connected(pivot1, t[1]) /\ curChain
    /\ curChain' = FALSE
    /\ ignoring' = TRUE
    /\ UNCHANGED <<tableVars, basePosition>>

(* The chain is complete; t and all others up to the next center are left  *)
(* out.                                                                    *)
CutComplete(t) ==
    /\ LaterTuple(t)
    /\ ~ignoring /\ Cut(t[1]) /\ ~Connected(pivot1, t[1]) /\ curChain
    /\ flagEnabled' = enable_chain(flagEnabled)
    /\ curChain' = FALSE
    /\ ignoring' = TRUE
    /\ UNCHANGED <<members, basePosition>>

(* The chain is given up and t with it: basePosition stays where it was.   *)
CutGiveUp(t) ==
    /\ LaterTuple(t)
    /\ ~ignoring /\ Cut(t[1]) /\ ~Connected(pivot1, t[1]) /\ ~curChain
    /\ members' = resetAggs(members)
    /\ flagEnabled' = resetFlags(flagEnabled)
    /\ UNCHANGED <<basePosition, curChain, ignoring>>

MaxS(t) ==
    \/ NewPivot(t) \/ FirstTuple(t) \/ Ignored(t) \/ NoCut(t)
    \/ CutJoined(t) \/ CutRestart(t) \/ CutComplete(t) \/ CutGiveUp(t)
-----------------------------------------------------------------------------
FarFromFirst(v) == query.diam # -1 /\ query.diam < v - firstGrpElement
FarFromLast(v)  == query.sep # -1 /\ query.sep < v - basePosition

(* Both clauses must be broken for a cut.                                  *)
CutBoth(v) == FarFromFirst(v) /\ FarFromLast(v)

CutFound(v) == FarFromFirst(v) \/ FarFromLast(v)

Unsupervised(t) ==
    LET first == IF firstTuple \/ CutFound(t[1]) THEN t[1] ELSE firstGrpElement
    IN  /\ Fill = "unsupervised"
        /\ Fetch(t)
        /\ firstGrpElement' = first
        /\ basePosition' = t[1]
        /\ firstTuple' = FALSE
        /\ members' = Added(members, EntryOf(first, t))
        /\ UNCHANGED <<pc, pivot1, curChain, ignoring, flagEnabled>>
-----------------------------------------------------------------------------
(* Both clauses with AROUND: elog(ERROR).                                  *)
Unsupported ==
    /\ pc = "fill"
    /\ Fill = "unsupported"
    /\ pc' = "error"
    /\ UNCHANGED <<query, centers, scanVars, tableVars, returned, numread, input>>

(* The outer plan is exhausted, or there is no center.                     *)
EndOfInput ==
    /\ pc = "fill"
    /\ Fill # "unsupported"
    /\ pc' = "retrieve"
    /\ flagEnabled' = IF Fill = "MaxS" /\ curChain THEN enable_chain(flagEnabled) ELSE flagEnabled
    /\ UNCHANGED <<query, centers, scanVars, members, returned, numread, input>>

(* With max-separation only the enabled entries are given out.             *)
Retrieve ==
    /\ pc = "retrieve"
    /\ returned' = {e \in Entry : members[e] # {} /\ (Fill = "MaxS" => flagEnabled[e] = 2)}
    /\ pc' = "done"
    /\ UNCHANGED <<query, centers, scanVars, tableVars, numread, input>>

FillStep(t) ==
    Around(t) \/ MaxRMatch(t) \/ MaxRIgnore(t) \/ MaxRStop(t) \/ MaxS(t) \/ Unsupervised(t)

Next == (\E t \in Tuple : FillStep(t)) \/ Unsupported \/ EndOfInput \/ Retrieve

Spec == Init /\ [][Next]_vars
-----------------------------------------------------------------------------
Abs(x)     == IF x < 0 THEN -x ELSE x
InOrder    == \A j, k \in 1 .. Last : j <= k => centers[j] <= centers[k]
Nearest(v) == {k \in 1 .. Last : \A j \in 1 .. Last :
                   Abs(v - centers[k]) <= Abs(v - centers[j])}
Home(p)    == {e \in Entry : p \in members[e]}
Answer     == UNION {members[e] : e \in returned}

(* Only tuples that were read are aggregated, the pivot stays in the list  *)
(* of centers, and the flags of the chains are never advanced past 2.      *)
TypeOK ==
    /\ query \in Queries
    /\ centers \in CenterLists \cup {<<>>}
    /\ pc \in {"fill", "retrieve", "done", "error"}
    /\ pivot1 \in 1 .. Last \/ (centers = <<>> /\ pivot1 = 1)
    /\ basePosition \in Value \cup {0}
    /\ firstGrpElement \in Value \cup {0}
    /\ {firstTuple, curChain, ignoring} \subseteq BOOLEAN
    /\ members \in [Entry -> SUBSET (1 .. numread)]
    /\ flagEnabled \in [Entry -> 0 .. 2]
    /\ returned \subseteq Entry
    /\ numread = Len(input)
    /\ input \in Seq(Tuple)

(* The merge of the two sorted streams finds for every tuple a center than *)
(* which none is nearer, although pivots are only advanced and a tuple is  *)
(* compared with two of them at a time. With max-radius a tuple has an     *)
(* entry just if a nearest center is within the radius (the end of the     *)
(* interval excluded): no stop comes too early.                            *)
InRadius(k, v) == centers[k] - maxRadius <= v /\ v < centers[k] + maxRadius

GroupedWithNearest ==
    (InOrder /\ Fill \in {"around", "MaxR"}) =>
        \A p \in 1 .. numread :
            LET v == input[p][1]
                C == {k \in Nearest(v) : Fill = "around" \/ InRadius(k, v)}
            IN  /\ Cardinality(Home(p)) <= 1
                /\ Home(p) # {} <=> C # {}
                /\ Home(p) \subseteq {<<centers[k], input[p][2]>> : k \in C}

(* max-separation returns a tuple only in a chain that is "connected with  *)
(* center element": from a returned tuple one gets to within MAXELEMSEP of *)
(* its center over tuples of the answer that are at most MAXELEMSEP apart. *)
Linked(p, q) == Abs(input[p][1] - input[q][1]) <= query.sep
AtCenter(p)  == \E e \in returned : p \in members[e] /\ Abs(input[p][1] - e[1]) <= query.sep

ChainsReachCenter ==
    (Fill = "MaxS" /\ pc = "done") =>
        \A P \in SUBSET Answer :
            P # {} => \/ \E p \in P : AtCenter(p)
                      \/ \E p \in P, q \in Answer \ P : Linked(p, q)

(* With one center this holds, over all cuts and restarts of the chain.    *)
ChainReachesCenter == Last = 1 => ChainsReachCenter

(* With one center no tuple within MAXELEMSEP of it is lost by a cut or a  *)
(* reset.                                                                  *)
NearTuplesReturned ==
    (Fill = "MaxS" /\ Last = 1 /\ pc = "done") =>
        \A p \in 1 .. numread : Connected(1, input[p][1]) => p \in Answer

(* Without centers: the tuples read between two cuts span at most          *)
(* MAXGROUPDIAM and have no gap over MAXELEMSEP, whatever their other      *)
(* grouping column, and a cut is made only where the next tuple would      *)
(* break one of the two.                                                   *)
Segment(v)  == {p \in 1 .. numread : \E e \in Home(p) : e[1] = v}
Fits(v, p)  == /\ query.diam # -1 => input[p][1] - v <= query.diam
               /\ (query.sep # -1 /\ p > 1) => input[p][1] - input[p - 1][1] <= query.sep

SegmentsAreMaximal ==
    Fill = "unsupervised" =>
        \A p \in 1 .. numread :
            \E v \in Value :
                /\ Home(p) = {<<v, input[p][2]>>}
                /\ p = Min(Segment(v)) => v = input[p][1]
                /\ p # Min(Segment(v)) => p - 1 \in Segment(v) /\ Fits(v, p)
                /\ (p > 1 /\ p - 1 \notin Segment(v)) =>
                       \E u \in Value : p - 1 \in Segment(u) /\ ~Fits(u, p)
=============================================================================
