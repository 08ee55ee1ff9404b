---------------------------- MODULE MCCommonInfo ----------------------------
(* Small instances of CommonInfo: two names of scalars, two of lists.       *)
EXTENDS CommonInfo, FiniteSets

CONSTANTS A, B, L, M

MCValue == {A, B, L, M}
MCListValue == {L, M}

SameKind == Permutations({A, B}) \cup Permutations({L, M})
=============================================================================
