---------------------------- MODULE MCClassVisit ----------------------------
(* Classes of Extract and up to three other methods, in every order.        *)
EXTENDS ClassVisit

P(n, t) == [name |-> n, type |-> t]
M(n, ps, body) == [name |-> n, params |-> ps, body |-> body]
Call(t, args) == [k |-> "call", to |-> t, args |-> args]
Path(a) == <<"path", a>>
Mine(p) == <<"mine", p>>

MCFixedFields == <<<<Param("first", "time")>>, <<Param("second", "time"), Param("second", "id")>>>>

Helper == M("f", <<P("infos", "action"), P("adlog", "adlog")>>,
  <<[k |-> "size", p |-> "infos"], [k |-> "get", p |-> "infos", f |-> "x"],
    [k |-> "get", p |-> "infos", f |-> "x"], [k |-> "functor", f |-> "m"]>>)
Overload == M("f", <<P("n", "plain")>>, <<[k |-> "read", f |-> "s"]>>)
Caller == M("g", <<P("others", "action")>>,
  <<[k |-> "get", p |-> "others", f |-> "y"],
    Call("f", <<Mine("others"), Mine("adlog")>>), [k |-> "read", f |-> "r"]>>)
PathCaller == M("h", <<P("adlog", "adlog")>>,
  <<Call("f", <<Path("a"), Mine("adlog")>>), [k |-> "functor", f |-> "n"]>>)
Unnamed == M("u", <<P("", "plain"), P("infos", "action")>>,
  <<[k |-> "getExpr", p |-> "infos", f |-> "x"]>>)
Feature(args) == M("add_feature", <<P("p", "action"), P("q", "action")>>,
  <<[k |-> "gva", args |-> args], [k |-> "size", p |-> "p"]>>)
LateFeature == M("add_feature", <<P("p", "action"), P("q", "action")>>,
  <<[k |-> "size", p |-> "p"], [k |-> "gva", args |-> <<"p", "q">>]>>)

Pool == {Helper, Overload, Caller, PathCaller, Unnamed, Feature(<<"p", "q">>),
         Feature(<<"q", "p">>), LateFeature}

Extract(calls) == M("Extract", <<P("adlog", "adlog")>>,
  calls \o <<[k |-> "read", f |-> "r"],
            [k |-> "read", f |-> "t"], [k |-> "functor", f |-> "m"]>>)

Extracts == {Extract(<< >>),
  Extract(<<Call("f", <<Path("a"), Mine("adlog")>>), Call("g", <<Path("b")>>)>>),
  Extract(<<Call("add_feature", <<Path("a"), Path("b")>>)>>),
  Extract(<<Call("u", <<Mine("n"), Path("a")>>), Call("f", <<Path("b"), Mine("adlog")>>)>>)}

(* Methods of one name differ in their parameters, and there is at most one *)
(* Extract.                                                                *)
Overloads(s) ==
  \A i, j \in DOMAIN s : i # j => \/ s[i].name # s[j].name
                                 \/ Len(s[i].params) # Len(s[j].params)
MCPrograms ==
  {s \in UNION {[1..n -> Pool \cup Extracts] : n \in 1..4} : Overloads(s) /\ Compiles(s)}

MCName == {"", "size", "time", "id", "first", "second", "infos", "adlog", "x", "y", "m", "n",
           "s", "r", "t", "a", "b", "others", "f", "g", "h", "u", "p", "q",
           "add_feature", "Extract"}
=============================================================================
