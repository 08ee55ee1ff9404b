----------------------------- MODULE MCVarSubst -----------------------------
EXTENDS VarSubst

Age == Chain("adlog", <<Step("user_info", ""), Step("age", "")>>)
Info0(p) == <<Step("user_info", ""), Step("infos", p)>>
Element(p) == Chain("adlog", Info0(p) \o <<Step("t", "")>>)
At(p) == Chain("adlog", Info0(p))
Sub(p) == Chain("adlog", Info0("") \o <<Step("[]", p)>>)
Member(e) == Chain(e, <<Step("t", "")>>)

MCNameOrder == <<"a", "b", "e", "i", "j">>
MCDeclRhs == {Literal, Age, Element("i"), Element("0"), Member("e"), Ref("a"), Plus("a")}
MCItemRhs == {At("i"), At("a"), Sub("i"), Sub("0")}
MCAssignRhs == {Literal, Age, Ref("a"), Ref("b"), Plus("a"), Least("a"), Member("e")}
MCUseRhs == {Age, Ref("a"), Ref("b"), Element("i"), Member("e")}
=============================================================================
