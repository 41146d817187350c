------------------------------ MODULE MCRTreeM ------------------------------
(***************************************************************************)
(* RTreeM for TLC: the data and the queries of its runs.                   *)
(***************************************************************************)
EXTENDS RTreeM

(* Tuples along a line and boxes of groups that all contain the first      *)
(* query, so that the random search has more hits than it wants; some may  *)
(* be points instead. Enough of them for three levels and for an inner     *)
(* node to be eliminated.                                                  *)
Data(tid) ==
    IF tid % 2 = 1 THEN {<<tid, 0, tid, 0>>}
    ELSE {<<1, 0, tid, 2>>}
            \cup (IF tid \in {6, 10} THEN {<<0, 3, 0, 3>>, <<tid, 0, tid, 0>>} ELSE {})

(* A point, a box that cuts across the data, and one that contains it.     *)
Searches == {<<2, 1, 2, 1>>, <<2, 0, 6, 1>>, <<0, 0, 20, 2>>}
=============================================================================
