------------------------------ MODULE DefTable ------------------------------
(***************************************************************************)
(* What Env promises to the code that reads it: a table of nested scopes, in *)
(* which a field that is visible has one name until its scope closes.  How   *)
(* the scope of a definition is found, when a definition gets its text and   *)
(* which names are free are left to EnvScope.                               *)
(***************************************************************************)
EXTENDS Naturals, Sequences

CONSTANTS Field,    \* what may be defined
          Names,    \* the names there are
          OwnNames, \* names the method declares itself
          Empty     \* the name given when none is free

VARIABLE scopes     \* for each scope, from outside in, its fields' names

TableInit == scopes = <<[f \in {} |-> Empty]>>

Visible(f, k) == \E j \in 1 .. k : f \in DOMAIN scopes[j]

Taken(n) ==
  \E k \in DOMAIN scopes : \E f \in DOMAIN scopes[k] : scopes[k][f] = n

Open == scopes' = Append(scopes, [f \in {} |-> Empty])

Close ==
  /\ scopes # << >>
  /\ scopes' = SubSeq(scopes, 1, Len(scopes) - 1)

Named(k, f, n) ==
  [g \in DOMAIN scopes[k] \cup {f} |-> IF g = f THEN n ELSE scopes[k][g]]

(* A field that is not visible from scope k is defined there: no live        *)
(* definition has its name, unless the method chose it or there was none.    *)
Define(k, f, n) ==
  /\ ~ Visible(f, k)
  /\ Taken(n) => n \in OwnNames \cup {Empty}
  /\ scopes' = [scopes EXCEPT ![k] = Named(k, f, n)]

(* The method declares a variable of its own with the field's value.         *)
Rename(k, f, n) ==
  /\ f \in DOMAIN scopes[k]
  /\ n \in OwnNames
  /\ scopes' = [scopes EXCEPT ![k] = Named(k, f, n)]

TableNext ==
  \/ Open
  \/ Close
  \/ \E k \in DOMAIN scopes, f \in Field, n \in Names :
       Define(k, f, n) \/ Rename(k, f, n)

TableSpec == TableInit /\ [][TableNext]_scopes
=============================================================================
