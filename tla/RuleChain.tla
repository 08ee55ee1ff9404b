------------------------------ MODULE RuleChain ------------------------------
(***************************************************************************)
(* The rules at work on one method.  AdlogFieldHandler gives each node of  *)
(* the source to twelve rules, one after the other, after the nodes below  *)
(* it (ExtractMethodVisitor::recursive_visit).  All rules write to the one *)
(* clang::Rewriter; each writes through a StrictRewriter of its own, which *)
(* replaces a node at most once.  A rule makes its text from the source of *)
(* a node, from the text the rewriter holds for it, or from the definition *)
(* of the field it reads.                                                  *)
(*                                                                         *)
(* The module puts a method together in the order of the visit: an action  *)
(* adds a node on top of those it has as parts, with what all rules do to  *)
(* it.  Of a text it keeps what has to be converted (reads of adlog, enum  *)
(* names, types of vectors, numbered as they come) and is not yet, what is *)
(* or need not be, and the type of its value.                              *)
(***************************************************************************)
EXTENDS Naturals, FiniteSets, SequencesExt

CONSTANTS
  Vars,      \* names of local std::string variables
  MaxItems,  \* bound: what has to be converted
  MaxNodes,  \* bound: nodes of the method
  MaxDepth   \* bound: nodes that are not part of another one yet

ASSUME RuleChainAssumption == MaxItems \in Nat /\ MaxNodes \in Nat /\ MaxDepth \in Nat

Item == 1 .. MaxItems

VARIABLES
  work,    \* nodes that are not part of another one yet, in source order
  made,    \* number of nodes made
  next,    \* the next item
  var,     \* variables that are declared: what is known of each
  hashes,  \* names of the std::hash<std::string> that are declared
  stored,  \* lambdas of emplace_lazy_replace: item -> items in its source
  settled, \* those whose declaration a run replaced
  closed,  \* those whose Env is gone
  stale    \* what an undefined read touched

vars == <<work, made, next, var, hashes, stored, settled, closed, stale>>

-----------------------------------------------------------------------------
(* Texts *)

Text(raw, out, type, atom) == [raw |-> raw, out |-> out, type |-> type, atom |-> atom]
Nothing == Text({}, {}, "other", FALSE)

Of(t) == t.raw \union t.out

(* Two texts in one. *)
Both(s, t) == Text(s.raw \union t.raw, s.out \union t.out, "other", FALSE)

(* std::string(x.data(), x.size()), which x must be able to stand in. *)
Wrap(t) == [t EXCEPT !.type = "string", !.atom = TRUE]
Wraps(t) == t.atom /\ t.type \in {"string", "view"}

Strings == {"string", "view", "chars"}
IsString(t) == t.type \in Strings

-----------------------------------------------------------------------------
(* Nodes: what the source says, what the rewriter holds, and what the      *)
(* expression is for ExprInfo (field: get_bs_field_value).                 *)

Node(shape, src, now) ==
  [ shape |-> shape, src |-> src, now |-> now,
    from  |-> FALSE,  \* is_from_adlog
    field |-> src,
    at    |-> src,    \* the text ActionDetailRule gives to an index
    seen  |-> {},     \* rules that replaced it: StrictRewriter::visited_
    twice |-> FALSE,  \* a rule replaced another one's text by a different one
    own   |-> "none", \* what a second visit reads of it: "none", "self", "parts"
    inner |-> FALSE,  \* some part of it reads at a second visit
    low   |-> FALSE,  \* some part does so inside a replaced text
    ill   |-> FALSE,  \* the text does not compile or refers to what is gone
    torn  |-> FALSE,  \* a replaced text was read or edited by its old parts
    tests |-> {},     \* what IfInfo is told when it is a condition
    lists |-> {},     \* common info vectors declared in it
    decls |-> {},     \* variables declared in it
    forms |-> {} ]

Reads(n) == n.own # "none" \/ n.inner
Rereads(n) == n.low \/ (n.seen # {} /\ (n.own = "parts" \/ n.inner))
Items(n) == Of(n.src)

(* A node that has the nodes of ps as parts. *)
Over(shape, src, now, ps) ==
  [ Node(shape, src, now) EXCEPT
      !.inner = \E p \in ps : Reads(p), !.low = \E p \in ps : Rereads(p),
      !.ill = \E p \in ps : p.ill, !.torn = \E p \in ps : p.torn,
      !.twice = \E p \in ps : p.twice,
      !.tests = UNION { p.tests : p \in ps }, !.lists = UNION { p.lists : p \in ps },
      !.decls = UNION { p.decls : p \in ps }, !.forms = UNION { p.forms : p \in ps } ]

(* StrictRewriter::ReplaceText of a node by the rule that owns it. *)
Replace(n, rule, t) ==
  IF rule \in n.seen THEN n
  ELSE [ n EXCEPT !.now = t, !.seen = @ \union {rule},
                  !.twice = @ \/ (n.seen # {} /\ t # n.now) ]

(* A text that is read after its node was replaced. *)
Tear(n) == [ n EXCEPT !.torn = @ \/ n.seen # {} ]

Fail(n, bad) == [ n EXCEPT !.ill = @ \/ bad ]
Is(n, fs) == [ n EXCEPT !.forms = @ \union fs ]
If(b, f) == IF b THEN {f} ELSE {}

-----------------------------------------------------------------------------
(* The state *)

Depth == Len(work)
Popped(k) == work[Depth - k]
Grow(n, k) == work' = Append(SubSeq(work, 1, Depth - k), n)
Room == made < MaxNodes
Space == Room /\ Depth < MaxDepth
Counted == made' = made + 1
Take(n) == next + n - 1 <= MaxItems /\ next' = next + n
Same == UNCHANGED <<var, hashes, stored, settled, closed, stale>>

Expression == {"field", "var", "chars", "enum", "call", "choice", "concat",
               "plus", "number"}
IsStringNode(n) == n.shape \in Expression /\ IsString(n.src)
IsNumberNode(n) == n.shape \in Expression /\ ~IsString(n.src)

-----------------------------------------------------------------------------
(* Leaves *)

(* adlog.user_info().name(): GeneralRule writes the variable of its        *)
(* definition, an absl::string_view if it is a string.                     *)
FieldNode(type) ==
  LET bs == Text({}, {next}, IF type = "string" THEN "view" ELSE type, TRUE)
      n == Node("field", Text({next}, {}, type, TRUE), Text({next}, {}, type, TRUE))
  IN Replace([ n EXCEPT !.from = TRUE, !.field = bs, !.at = bs ], "General", bs)

Field(type) ==
  /\ Space /\ Take(1) /\ Counted
  /\ Grow(FieldNode(type), 0)
  /\ Same

(* The declarations the lambdas stand for are replaced, by their source    *)
(* with the type of the elements changed.                                  *)
Retype(t, now, raw) ==
  [ t EXCEPT !.raw = (t.raw \union raw) \ now, !.out = (t.out \union now) \ raw ]
RunLazy(n) ==
  LET now == (DOMAIN stored \ (settled \union closed)) \intersect n.lists
      raw == UNION { stored[i] : i \in now }
  IN IF now = {} THEN n ELSE [ n EXCEPT !.now = Retype(n.now, now, raw) ]

(* attr.int_value(): the type of the common info is known, and every       *)
(* stored lambda runs, with the Env it was made with.                      *)
CommonValue ==
  /\ Space /\ Take(1) /\ Counted
  /\ work' = Append([ k \in DOMAIN work |-> RunLazy(work[k]) ], FieldNode("other"))
  /\ settled' = settled \union (DOMAIN stored \ closed)
  /\ stale' = stale \union { <<"lambda", i>> : i \in DOMAIN stored \intersect closed }
  /\ UNCHANGED <<var, hashes, stored, closed>>

(* AdEnum::X. *)
Enumerator ==
  /\ Space /\ Take(1) /\ Counted
  /\ LET src == Text({next}, {}, "other", TRUE)
         bs == Text({}, {next}, "other", TRUE)
     IN Grow(Replace([ Node("enum", src, src) EXCEPT !.field = bs, !.at = bs ],
                     "General", bs), 0)
  /\ Same

Chars ==
  /\ Space /\ Counted
  /\ LET t == Text({}, {}, "chars", FALSE) IN Grow(Node("chars", t, t), 0)
  /\ UNCHANGED next /\ Same

(* A variable: what comes from adlog is replaced by the field the parsed   *)
(* initialiser starts with.                                                *)
VarRef(v) ==
  /\ Space /\ Counted
  /\ v \in DOMAIN var /\ ~var[v].assigned
  /\ LET src == Text({}, var[v].items, var[v].type, TRUE)
         n == [ Node("var", src, src) EXCEPT !.from = var[v].from,
                  !.forms = If(var[v].op, "ConcatRead") ]
     IN Grow(IF var[v].from
             THEN Replace([ n EXCEPT !.field = var[v].field, !.at = var[v].field ],
                          "General", var[v].field)
             ELSE n, 0)
  /\ UNCHANGED next /\ Same

(* list->size() on what GetSeqList returned: SeqListRule writes            *)
(* list.size(), then GeneralRule the source again.                         *)
PointerSize ==
  /\ Space /\ Take(1) /\ Counted
  /\ LET src == Text({}, {next}, "other", TRUE)
         dot == Text({}, {next}, "dot", TRUE)
         n == Replace([ Node("number", src, src) EXCEPT !.from = TRUE ], "SeqList", dot)
     IN Grow(Is(Fail(Replace(n, "General", n.field), n.field # dot), {"PointerSize"}), 0)
  /\ Same

-----------------------------------------------------------------------------
(* Expressions *)

(* Mutants: an operand as in the source; a view left a view. *)
OperandOfSource(n) == n.src
OperandBare(n) == IF n.from /\ n.shape \in {"field", "var"} THEN n.field ELSE n.now

(* What an operand of + becomes: StrRule's own text for a field or a       *)
(* variable that comes from adlog, else what the rewriter holds.           *)
Operand(n) == IF n.from /\ n.shape \in {"field", "var"} THEN Wrap(n.field) ELSE n.now

Adds(s, t) == "view" \notin {s.type, t.type} /\ "string" \in {s.type, t.type}

(* Mutant: the test of is_replace_visited is left out. *)
StrConcatAgain(n, s, t) ==
  [ Fail(Replace(n, "Str", [ Both(s, t) EXCEPT !.type = "string" ]), ~Adds(s, t))
    EXCEPT !.own = "parts" ]

(* StrRule leaves a node it has replaced alone: nothing is read of it again. *)
StrConcat(n, s, t) ==
  Fail(Replace(n, "Str", [ Both(s, t) EXCEPT !.type = "string" ]), ~Adds(s, t))

Concat ==
  /\ Room /\ Counted /\ Depth >= 2
  /\ LET a == Popped(1)
         b == Popped(0)
         s == Operand(a)
         t == Operand(b)
         type(u) == [ u EXCEPT !.type = "string" ]
         n == [ Over("concat", type(Both(a.src, b.src)), type(Both(a.now, b.now)), {a, b})
                EXCEPT !.from = a.from,
                       !.field = IF a.from THEN a.field ELSE type(Both(a.src, b.src)) ]
     IN /\ IsStringNode(a) /\ IsStringNode(b)
        /\ a.src.type = "string" \/ b.src.type = "string"
        /\ Grow(StrConcat(n, s, t), 2)
  /\ UNCHANGED next /\ Same

(* c ? a : b.  No rule.                                                    *)
ChoiceType(s, t) ==
  IF "view" \in {s.type, t.type} THEN "view"
  ELSE IF "string" \in {s.type, t.type} THEN "string" ELSE s.type

Choice ==
  /\ Room /\ Counted /\ Depth >= 2
  /\ LET a == Popped(1)
         b == Popped(0)
         both(s, t) == [ Both(s, t) EXCEPT !.type = ChoiceType(s, t) ]
     IN /\ IsStringNode(a) /\ IsStringNode(b)
        /\ Grow(Is(Over("choice", both(a.src, b.src), both(a.now, b.now), {a, b}),
                   {"ChoiceValue"}), 2)
  /\ UNCHANGED next /\ Same

(* a + b on numbers.  No rule; as an index each side is converted.         *)
Plus ==
  /\ Room /\ Counted /\ Depth >= 2
  /\ LET a == Popped(1)
         b == Popped(0)
     IN /\ IsNumberNode(a) /\ IsNumberNode(b)
        /\ Grow([ Over("plus", Both(a.src, b.src), Both(a.now, b.now), {a, b})
                  EXCEPT !.at = Both(a.field, b.field) ], 2)
  /\ UNCHANGED next /\ Same

(* infos[e].product(): the visit stops at a member call's arguments, so e  *)
(* is as in the source; ActionDetailRule converts it by get_bs_field_value.*)
ActionLeaf ==
  /\ Room /\ Take(1) /\ Counted /\ Depth >= 1
  /\ LET e == Popped(0)
         src == Both(e.src, Text({next}, {}, "other", TRUE))
         n == Node("number", src, src)
     IN /\ IsNumberNode(e) /\ e.lists = {}
        /\ Grow(Is(Replace([ n EXCEPT !.from = TRUE, !.field = Both(e.src, Text({}, {next}, "other", TRUE)) ],
                           "ActionDetail", Both(e.at, Text({}, {next}, "other", TRUE))),
                   e.forms \union If(e.shape \notin {"field", "enum"}, "Index")), 1)
  /\ Same

(* e.size(): likewise e is not visited; GeneralRule writes the field it    *)
(* starts with when that is adlog's.                                       *)
Length ==
  /\ Room /\ Counted /\ Depth >= 1
  /\ LET e == Popped(0)
         number(t) == [ t EXCEPT !.type = "other", !.atom = TRUE ]
         n == Node("number", number(e.src), number(e.src))
     IN /\ IsStringNode(e) /\ e.shape # "chars"
        /\ Grow(Is(IF e.from
                   THEN Replace([ n EXCEPT !.from = TRUE ], "General", number(e.field))
                   ELSE n,
                   e.forms \union If(e.shape \notin {"field", "var"}, "Receiver")), 1)
  /\ UNCHANGED next /\ Same

(* base::SplitString(e, ...), base::StringToUint, GetRegion: StrRule makes *)
(* a std::string of the argument's text.                                   *)
StrParam ==
  /\ Room /\ Counted /\ Depth >= 1
  /\ LET e == Popped(0)
         p == Replace(e, "Str", Wrap(e.now))
         number(t) == [ t EXCEPT !.type = "other", !.atom = TRUE ]
     IN /\ IsStringNode(e) /\ "Str" \notin e.seen
        /\ Grow(Is([ Fail(Over("number", number(p.src), number(p.now), {p}), ~Wraps(e.now))
                     EXCEPT !.own = "parts" ],
                   If(e.shape \notin {"field", "var", "call"}, "PartsOfText")), 1)
  /\ UNCHANGED next /\ Same

(* A function no rule knows, with a std::string parameter and result.      *)
Call ==
  /\ Room /\ Counted /\ Depth >= 1
  /\ LET e == Popped(0)
         call(t) == [ t EXCEPT !.type = "string", !.atom = TRUE ]
     IN /\ IsStringNode(e)
        /\ Grow(Is(Fail(Over("call", call(e.src), call(e.now), {e}), e.now.type = "view"),
                   {"CallOfString"}), 1)
  /\ UNCHANGED next /\ Same

(* AdActionType_Name(e) gets a name space in front of its text.            *)
EnumName ==
  /\ Room /\ Take(1) /\ Counted /\ Depth >= 1
  /\ LET e == Popped(0)
         name(t, raw, out) == Text(t.raw \union raw, t.out \union out, "string", TRUE)
         src == name(e.src, {next}, {})
         n == [ Over("call", src, name(e.now, {next}, {}), {e}) EXCEPT !.own = "self" ]
     IN /\ IsNumberNode(e)
        /\ Grow(Is(Replace(n, "General", name(e.now, {}, {next})), {"EnumText"}), 1)
  /\ Same

(* h(e): HashFnRule knows the function by its name.                        *)
Hash(h) ==
  /\ Room /\ Counted /\ Depth >= 1
  /\ h \in hashes
  /\ LET e == Popped(0)
         number(t) == [ t EXCEPT !.type = "other", !.atom = TRUE ]
         n == Over("number", number(e.src), number(e.now), {e})
     IN /\ IsStringNode(e)
        /\ Grow(IF h = "hash_fn"
                THEN Is([ Replace(n, "HashFn",
                                  number(IF e.shape = "var" THEN e.src ELSE e.now))
                          EXCEPT !.own = IF e.shape = "var" THEN "none" ELSE "parts" ],
                        If(e.shape # "var", "HashOfText"))
                ELSE Is(Fail(n, TRUE), {"HashName"}), 1)
  /\ UNCHANGED next /\ Same

-----------------------------------------------------------------------------
(* Declarations and assignments *)

(* An initialiser is visited twice, as getInit and getAnyInitializer.      *)
Again(e) == stale' = stale \union If(Rereads(e), <<"initialiser", 0>>)

(* std::string v = e.  Where the initialiser is a copy of what comes from  *)
(* adlog, the variable becomes an absl::string_view.                       *)
Declare(v) ==
  /\ Room /\ Counted /\ Depth >= 1
  /\ v \notin DOMAIN var
  /\ LET e == Popped(0)
         copy == e.shape \in {"field", "var"} /\ e.from
         n == Over("stmt", e.src, e.now, {e})
     IN /\ IsStringNode(e)
        /\ Grow([ Fail(IF copy THEN Replace(n, "General", e.now) ELSE n,
                       ~copy /\ e.now.type = "view")
                  EXCEPT !.decls = @ \union {v} ], 1)
        /\ var' = [ w \in DOMAIN var \union {v} |->
                      IF w # v THEN var[w]
                      ELSE [ from |-> e.from, field |-> e.field, items |-> Items(e),
                             type |-> IF copy THEN "view" ELSE "string",
                             op |-> e.shape = "concat" \/ "ConcatRead" \in e.forms,
                             assigned |-> FALSE ] ]
        /\ Again(e)
  /\ UNCHANGED <<next, hashes, stored, settled, closed>>

(* auto n = e, e a number. *)
DeclareNumber ==
  /\ Room /\ Counted /\ Depth >= 1
  /\ LET e == Popped(0)
     IN /\ IsNumberNode(e)
        /\ Grow(Over("stmt", e.src, e.now, {e}), 1)
        /\ Again(e)
  /\ UNCHANGED <<next, var, hashes, stored, settled, closed>>

(* std::hash<std::string> h; is removed. *)
DeclareHash(h) ==
  /\ Space /\ Counted
  /\ h \notin hashes
  /\ hashes' = hashes \union {h}
  /\ Grow(Node("stmt", Nothing, Nothing), 0)
  /\ UNCHANGED <<next, var, stored, settled, closed, stale>>

(* vector<T> v(e): the text is made from the source. *)
DeclareVector ==
  /\ Room /\ Counted /\ Depth >= 1
  /\ LET e == Popped(0)
     IN /\ IsNumberNode(e)
        /\ Grow(Is(Replace(Over("stmt", e.src, e.now, {e}), "General", e.src),
                   {"SizedVector"}), 1)
        /\ Again(e)
  /\ UNCHANGED <<next, var, hashes, stored, settled, closed>>

(* std::vector<CommonInfoAttr> v(e): a lambda is stored for it. *)
DeclareCommonVector ==
  /\ Room /\ Take(1) /\ Counted /\ Depth >= 1
  /\ LET e == Popped(0)
         type == Text({next}, {}, "other", FALSE)
     IN /\ IsNumberNode(e)
        /\ Grow(Is([ Over("stmt", Both(e.src, type), Both(e.now, type), {e})
                     EXCEPT !.lists = @ \union {next} ], {"SizedVector"}), 1)
        /\ stored' = [ i \in DOMAIN stored \union {next} |->
                         IF i = next THEN e.src.raw ELSE stored[i] ]
        /\ Again(e)
  /\ UNCHANGED <<var, hashes, settled, closed>>

(* v = e.  StrRule writes the whole assignment from get_bs_field_value,    *)
(* unless e is (or stands for) an operator call.                           *)
Assign(v) ==
  /\ Room /\ Counted /\ Depth >= 1
  /\ v \in DOMAIN var
  /\ LET e == Popped(0)
         op == e.shape = "concat" \/ (e.shape = "var" /\ "ConcatRead" \in e.forms)
         n == Over("stmt", e.src, e.now, {e})
         m == IF op THEN n ELSE Fail([ n EXCEPT !.now = Wrap(e.field) ], ~Wraps(e.field))
     IN /\ IsStringNode(e)
        /\ Grow(Is(Fail(m, var[v].type = "view" /\ ~(op /\ e.now.type = "view")),
                   If(e.shape \in {"call", "choice"}, "AssignedCall") \union
                   If(e.shape = "chars", "AssignedChars") \union
                   If(var[v].from, "Reassigned")), 1)
        /\ var' = [ var EXCEPT ![v] = [ @ EXCEPT !.assigned = TRUE ] ]
  /\ UNCHANGED <<next, hashes, stored, settled, closed, stale>>

-----------------------------------------------------------------------------
(* Statements with branches *)

Bodies == {"block", "stmt", "if", "loop", "call"}

(* A statement that is not there. *)
Missing == Node("none", Nothing, Nothing)

(* { a } or { a b }. *)
Block(k) ==
  /\ Room /\ Counted /\ Depth >= k
  /\ LET a == Popped(k - 1)
         b == IF k = 2 THEN Popped(0) ELSE Missing
     IN /\ {a.shape, b.shape} \subseteq {"stmt", "if", "loop", "call", "none"}
        /\ Grow(Over("block", Both(a.src, b.src), Both(a.now, b.now), {a, b}), k)
  /\ UNCHANGED next /\ Same

(* A test of a condition: list != nullptr, pos < adlog.item_size(),        *)
(* iter != action_detail_map.end(), or iter == end() on a single action.   *)
TestText(i) == Text({}, {i}, "other", FALSE)

Test(kind) ==
  /\ Space /\ Take(1) /\ Counted
  /\ LET raw == Text({next}, {}, "other", FALSE)
         n == [ Node("test", raw, raw) EXCEPT !.tests = {<<kind, next>>} ]
     IN Grow(CASE kind = "seqList" -> Replace(n, "SeqList", TestText(next))
               [] kind = "itemPos" -> Replace(n, "General", TestText(next))
               [] OTHER -> n, 0)
  /\ Same

Kinds(n) == { t[1] : t \in n.tests }
TestOf(n, kind) == TestText(CHOOSE i \in Item : <<kind, i>> \in n.tests)

(* a && b. *)
And ==
  /\ Room /\ Counted /\ Depth >= 2
  /\ LET a == Popped(1)
         b == Popped(0)
     IN /\ a.shape = "test" /\ b.shape \in {"test", "field"}
        /\ Kinds(a) \intersect Kinds(b) = {}
        /\ Grow(Is(Over("test", Both(a.src, b.src), Both(a.now, b.now), {a, b}),
                   {"TestBeside"} \union If(b.shape = "test", "TwoTests")), 2)
  /\ UNCHANGED next /\ Same

(* get_compound_stmt_rewritten_text: nothing without braces. *)
Compound(n) == IF n.shape = "block" THEN n.now ELSE Nothing

(* What is left of the variables and lambdas when the scope of n closes. *)
Leave(n) ==
  /\ var' = [ v \in DOMAIN var \ n.decls |-> var[v] ]
  /\ closed' = closed \union n.lists
  /\ UNCHANGED <<hashes, stored, settled, stale>>

Out(n) == [ n EXCEPT !.decls = {} ]

(* ActionDetailRule writes the whole condition or, for a single action that *)
(* must exist, the whole if.                                               *)
ActionDetailIf(n, c, t, l) ==
  IF "action" \in Kinds(c)
  THEN [ n EXCEPT !.now = Both(TestOf(c, "action"), Both(t.now, l.now)) ]
  ELSE IF "fixedAction" \in Kinds(c)
       THEN Replace(n, "ActionDetail", TestOf(c, "fixedAction"))
       ELSE n

(* SeqListRule: if (!list.is_empty()) { then }. *)
SeqListIf(n, c, t) ==
  IF "seqList" \in Kinds(c)
  THEN Replace(Tear(n), "SeqList", Both(TestOf(c, "seqList"), Compound(t)))
  ELSE n

(* Mutants: every if is taken for a test of the position; braces around    *)
(* whatever else there is.                                                 *)
GeneralIfAlways(n, c, t, l, defs) ==
  LET m == Replace(Tear(n), "General", Compound(t))
  IN IF defs /\ l.shape = "if" THEN Tear(m) ELSE m
GeneralIfAnyElse(n, c, t, l, defs) ==
  LET m == IF "itemPos" \in Kinds(c)
           THEN Replace(Tear(n), "General", Compound(t)) ELSE n
  IN IF defs /\ l.shape # "none" THEN Tear(m) ELSE m

(* GeneralRule: the then block alone; then braces around an else-if, for   *)
(* the definitions of this if; then those definitions.                     *)
GeneralIf(n, c, t, l, defs) ==
  LET m == IF "itemPos" \in Kinds(c)
           THEN Replace(Tear(n), "General", Compound(t)) ELSE n
  IN IF defs /\ l.shape = "if" THEN Tear(m) ELSE m

(* if (c) t [else l]; defs: its Env has definitions. *)
CloseIf(else, defs) ==
  LET k == IF else THEN 1 ELSE 0
      l == IF else THEN Popped(0) ELSE Missing
      t == Popped(k)
      c == Popped(k + 1)
      n == Over("if", Both(c.src, Both(t.src, l.src)),
                Both(c.now, Both(t.now, l.now)), {c, t, l})
  IN /\ Room /\ Counted /\ Depth >= k + 2
     /\ c.shape \in {"test", "field"} /\ ~IsString(c.src)
     /\ t.shape \in Bodies
     /\ else => l.shape \in Bodies
     /\ defs => Items(c) \union Items(t) # {}
     /\ LET m == GeneralIf(SeqListIf(ActionDetailIf(n, c, t, l), c, t), c, t, l, defs)
        IN Grow(Out(Is(m, If(t.shape # "block", "Braceless") \union
                          If(else /\ Kinds(c) \ {"action"} # {}, "ElseGone") \union
                          If("fixedAction" \in Kinds(c), "FixedTest") \union
                          If(l.shape = "if", "ElseIf"))), k + 2)
     /\ Leave(n)
     /\ UNCHANGED next

(* get_loop_body takes the children of a body for its statements. *)
LoopBody(n, b) == Fail(n, b.shape # "block")

(* Loops a rule writes anew: around the text of the braces, around the     *)
(* statements of the body, or around the body.                             *)
ProtoListLoop(n, b) == Replace(n, "ProtoList", Compound(b))
QueryTokenLoop(n, b) == Replace(n, "QueryToken", Compound(b))
ProtoMapLoop(n, b) == Replace(n, "General", Compound(b))
MiddleNodeLoop(n, b) == Replace(LoopBody(n, b), "MiddleNode", b.now)
IntListLoop(n, b) == Replace(n, "ActionDetail", b.now)

(* The inner and the outer of two lists; the middle of three is both.      *)
DoubleListLoop(n, b) == Replace(LoopBody(n, b), "DoubleList", b.now)
MiddleListLoop(n, b) == Tear(DoubleListLoop(n, b))

(* "Sequences are not replaced": origin_stmt_str, which is the source.     *)
SeqListLoop(n, b) == Replace(n, "General", b.src)

WriteLoop(n, b, kind) ==
  CASE kind = "protoList" -> ProtoListLoop(n, b)
    [] kind = "queryToken" -> QueryTokenLoop(n, b)
    [] kind = "protoMap" -> ProtoMapLoop(n, b)
    [] kind = "middleNode" -> MiddleNodeLoop(n, b)
    [] kind = "doubleList" -> DoubleListLoop(n, b)
    [] kind = "middleList" -> MiddleListLoop(n, b)
    [] kind = "intList" -> IntListLoop(n, b)
    [] kind = "seqList" -> SeqListLoop(n, b)
    [] OTHER -> n

Loops == {"protoList", "queryToken", "protoMap", "middleNode", "doubleList",
          "middleList", "intList", "seqList", "other"}

(* A loop around b; a body without braces is visited a second time.        *)
CloseLoop(kind) ==
  /\ Room /\ Counted /\ Depth >= 1
  /\ LET b == Popped(0)
         n == Over("loop", b.src, b.now, {b})
     IN /\ b.shape \in Bodies
        /\ Grow(Out(Is(WriteLoop(n, b, kind),
                       If(b.shape # "block", "Braceless") \union
                       If(kind = "seqList", "SeqListLoop") \union
                       If(kind = "middleList", "ThreeLists"))), 1)
        /\ var' = [ v \in DOMAIN var \ n.decls |-> var[v] ]
        /\ closed' = closed \union n.lists
        /\ stale' = stale \union If(b.shape # "block" /\ Rereads(b), <<"body", 0>>)
  /\ UNCHANGED <<next, hashes, stored, settled>>

-----------------------------------------------------------------------------
Init ==
  /\ work = <<>> /\ made = 0 /\ next = 1
  /\ var = << >> /\ hashes = {} /\ stored = << >>
  /\ settled = {} /\ closed = {} /\ stale = {}

(* The method may end anywhere. *)
Done == UNCHANGED vars

Next ==
  \/ \E type \in {"string", "other"} : Field(type)
  \/ CommonValue \/ Enumerator \/ Chars \/ PointerSize
  \/ Concat \/ Choice \/ Plus \/ ActionLeaf \/ Length \/ StrParam \/ Call \/ EnumName
  \/ \E v \in Vars : VarRef(v) \/ Declare(v) \/ Assign(v)
  \/ \E h \in {"hash_fn", "other"} : DeclareHash(h) \/ Hash(h)
  \/ DeclareNumber \/ DeclareVector \/ DeclareCommonVector
  \/ \E k \in {1, 2} : Block(k)
  \/ \E kind \in {"seqList", "itemPos", "action", "fixedAction"} : Test(kind)
  \/ And
  \/ \E else, defs \in BOOLEAN : CloseIf(else, defs)
  \/ \E kind \in Loops : CloseLoop(kind)
  \/ Done

Spec == Init /\ [][Next]_vars

-----------------------------------------------------------------------------
(* Properties *)

Has(n, fs) == n.forms \intersect fs # {}
Top == work[Depth]
Built == Depth > 0

(* Converted when the if around it is, or when the type of the common info *)
(* is known.                                                               *)
Pending(n) == { t[2] : t \in { u \in n.tests : u[1] \in {"action", "fixedAction"} } }
              \union (n.lists \ settled)

(* Whatever rules write over each other's texts, nothing of adlog is left  *)
(* in the converted text, but for the forms that put source text back:     *)
(* a string assigned from a call or a conditional (get_bs_field_value of   *)
(* an expression that is no field), receivers and indices, which the visit *)
(* does not reach, vectors made with a size and loops over sequences.      *)
NoSourceLeft ==
  Built => \/ Top.now.raw \subseteq Pending(Top)
           \/ Has(Top, {"AssignedCall", "Receiver", "Index", "SizedVector", "SeqListLoop"})

(* The tests GeneralRule drops on purpose: the position it tests is given. *)
Superseded(n) == { t[2] : t \in { u \in n.tests : u[1] = "itemPos" } }

(* The converted text reads what the source reads, all of it: only a       *)
(* variable that stands for a concatenation, a receiver that is one, a     *)
(* branch without braces, the else branch or the other tests of an if that *)
(* a rule writes anew, and an if on a single action lose some of it.       *)
ReadsTheSame ==
  Built => \/ Items(Top) = Of(Top.now) \union Superseded(Top)
           \/ Has(Top, {"ConcatRead", "Receiver", "Braceless", "ElseGone", "TestBeside",
                        "FixedTest"})

(* The text a field gets is an absl::string_view where the source has a    *)
(* std::string: the rules make a std::string of it wherever one is needed, *)
(* of a text that can be followed by .data(), except in these forms.       *)
TextsHold ==
  Built => \/ ~Top.ill
           \/ Has(Top, {"AssignedChars", "Reassigned", "ChoiceValue", "CallOfString",
                        "PartsOfText", "PointerSize", "HashName", "Braceless"})

(* StrRule.cpp:86: what was replaced must not be read by its parts again,  *)
(* or clang dies.  The visit goes twice over an initialiser and over a     *)
(* body without braces; the second time nothing inside a replaced text is  *)
(* read, but for names of enums, hashes of more than a name, and bodies    *)
(* without braces.                                                         *)
RereadsGuarded ==
  \/ \A r \in stale : r[1] = "lambda"
  \/ \E k \in DOMAIN work : Has(work[k], {"EnumText", "HashOfText", "Braceless"})

(* No rule takes the parts of an if or of a loop that an earlier one has   *)
(* replaced as a whole, but where an if is of two kinds, has an else-if,   *)
(* or three lists are nested (GeneralRule.cpp:62).                         *)
EditsOutsideReplaced ==
  Built => \/ ~Top.torn
           \/ Has(Top, {"TwoTests", "ThreeLists", "ElseIf"})

(* LazyReplace.h:24-29: a lambda runs within the life of the Env it was    *)
(* made with.                                                              *)
LazyRunsInScope == \A r \in stale : r[1] # "lambda"
=============================================================================
