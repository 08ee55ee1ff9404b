------------------------------ MODULE MCDriver ------------------------------
(* Three headers: one class; a class beside a template; the filter class.   *)
EXTENDS Driver

CONSTANTS h1, h2, h3

MCHeader == {h1, h2, h3}
MCClassesIn == [h \in MCHeader |->
  IF h = h1 THEN <<"A">> ELSE IF h = h2 THEN <<"B", "T", "S">> ELSE <<"C", "D">>]
MCTemplate == {"T"}
MCSkipped == {"S"}
MCAliasesIn == [h \in MCHeader |->
  IF h = h2 THEN <<[name |-> "T1", of |-> "T", args |-> <<"type", "v">>],
                   [name |-> "S1", of |-> "S", args |-> <<"w">>]>>
  ELSE << >>]
MCEnumInCtor == {"A", "T"}
MCListInCtor == {"B"}
MCIncludes == [h \in MCHeader |->
  IF h = h2 THEN {h1} ELSE {}]
MCFilterHeader == {h3}

(* Files of a unit, in the order of their ids; at most two units in a run.  *)
MCUnit == {<<h1>>, <<h1, h2>>, <<h3>>, <<h3, h2, h1>>}
MCRunUnits == {<<u>> : u \in MCUnit} \cup {<<u, v>> : u \in MCUnit, v \in MCUnit}
=============================================================================
