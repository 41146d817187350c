---------------------------- MODULE MCSGBAround -----------------------------
(* Instances of SGBAround.                                                 *)
EXTENDS SGBAround

Clauses(a, D, S) == [around : {a}, diam : D, sep : S]

(* Every form of the clauses.                                              *)
AllQueries ==
    Clauses(TRUE, {-1, 1, 4}, {-1}) \cup Clauses(TRUE, {-1}, {1})
      \cup Clauses(TRUE, {4}, {1})
      \cup Clauses(FALSE, {-1, 3}, {1}) \cup Clauses(FALSE, {2}, {-1})

Separation == Clauses(TRUE, {-1}, {1})

(* No center, one, two close ones, three apart, and two out of order.      *)
Lists == {<<>>, <<3>>, <<2, 3>>, <<1, 3, 6>>, <<5, 2>>}

TwoCenters == {<<2, 7>>}
=============================================================================
