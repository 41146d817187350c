--------------------------- MODULE MCSGBNewGroup ---------------------------
(***************************************************************************)
(* SGBNewGroup for TLC: the inputs of its runs.                            *)
(***************************************************************************)
EXTENDS SGBNewGroup

(* A tuple near a part of the group of three others, by the metric or only *)
(* by its box, and two on its far side, so that it may cut two groups.     *)
Plane == {<<0, 0>>, <<1, 0>>, <<2, 1>>, <<3, 0>>, <<5, 0>>, <<6, 0>>}
=============================================================================
