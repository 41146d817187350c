------------------------------ MODULE MCSGBAny ------------------------------
(***************************************************************************)
(* SGBAny for TLC: the inputs of its runs.                                 *)
(***************************************************************************)
EXTENDS SGBAny

\* A chain: sets of depth two, which the next tuple fuses and compresses.
Line == {<<x, 0>> : x \in 0 .. 3}

\* For EPS = 3: two opposite corners of the box, and tuples near both.
Corner == {<<0, 0>>, <<3, 3>>, <<3, 0>>, <<2, 1>>}

\* A query without a METRIC clause.
NotGiven == -1
=============================================================================
