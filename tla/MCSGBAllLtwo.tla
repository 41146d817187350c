---------------------------- MODULE MCSGBAllLtwo ----------------------------
(* Instances of SGBAllLtwo.                                                *)
EXTENDS SGBAllLtwo

(* For EPS = 5: five points of one group whose hull loses the first of     *)
(* them, and one that makes a second group which overlaps it.              *)
Bay == {<<0, 0>>, <<-4, -3>>, <<0, -2>>, <<-3, -3>>, <<-1, -4>>, <<4, 3>>}

(* For EPS = 5: points of a line.                                          *)
Diagonal == {<<-1, -1>>, <<0, 0>>, <<1, 1>>, <<3, 3>>}
=============================================================================
