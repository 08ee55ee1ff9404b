------------------------- MODULE MCCommonInfoFixed -------------------------
(* Two names, each of a scalar or a list, two tables of lists and one of     *)
(* sizes, and two vectors with one name in common.                          *)
EXTENDS CommonInfoFixed

CONSTANTS no_, other_, m, n, s, x, y

MCName == {no_, other_}
MCListTable == {m, n}
MCSizeTable == {s}
MCVector == {x, y}
MCKey == 1 .. 3
MCKeys == x :> {1, 2} @@ y :> {2, 3}

Symmetric == Permutations({no_, other_}) \cup Permutations({m, n})
=============================================================================
