------------------------------ MODULE MCSGBAll ------------------------------
(***************************************************************************)
(* SGBAll for TLC: the inputs of its runs.                                 *)
(***************************************************************************)
EXTENDS SGBAll

(* Four corners that are pairwise too far, and tuples between them that    *)
(* lie in two, three or four of their boxes.                               *)
Cross == {<<-2, -2>>, <<2, -2>>, <<-2, 2>>, <<2, 2>>, <<0, 0>>, <<1, 0>>, <<0, 2>>}

\* Every clause the model has, the absent one included.
AllOverlaps == {-1, 1, 3, 4}

\* Groups founded in descending order do not see each other; a later tuple
\* meets the half-filled rectangles of all of them.
Column == {<<x>> : x \in -5 .. 0}
=============================================================================
