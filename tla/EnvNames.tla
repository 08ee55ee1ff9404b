------------------------------ MODULE EnvNames ------------------------------
(***************************************************************************)
(* Variable names and the bs enum strings they are cut from (Env.cpp).     *)
(* An enum string "adlog_user_info_id" is the sequence of its '_' separated *)
(* tokens; a name is such a sequence too, NoName being the empty string.    *)
(***************************************************************************)
EXTENDS Naturals, Sequences

CONSTANTS Token,       \* the tokens that occur in names
          DigitToken,  \* those whose first character is a digit
          Enum,        \* bs enum strings the method refers to
          SourceVar    \* names the method itself declares

Name == Seq(Token)
NoName == << >>

ASSUME NamesAssumption ==
  /\ DigitToken \subseteq Token
  /\ Enum \subseteq Name \ {NoName}
  /\ SourceVar \subseteq Name \ {NoName}

Suffix(e, i) == SubSeq(e, i, Len(e))

(* Where a candidate name may start: never at the last token alone, unless  *)
(* it is the only one, and never at a token that starts with a digit.       *)
Starts(e) ==
  IF Len(e) = 1 THEN {1} ELSE {i \in 1 .. Len(e) - 1 : e[i] \notin DigitToken}

FreeStarts(e, used) == {i \in Starts(e) : Suffix(e, i) \notin used}

Greatest(S) == CHOOSE i \in S : \A j \in S : j <= i

(* Mutant of FreshName: is_new_name_valid is not asked.                      *)
FreshNameUnchecked(e, used) == Suffix(e, Greatest(Starts(e)))

(* Env::find_valid_new_name for an enum that has no definition in scope:    *)
(* its shortest suffix that is not used yet, or the empty string.           *)
FreshName(e, used) ==
  IF FreeStarts(e, used) = {}
  THEN NoName
  ELSE Suffix(e, Greatest(FreeStarts(e, used)))
=============================================================================
