------------------------------ MODULE VarSubst ------------------------------
(***************************************************************************)
(* How a method's reads are replaced: a reference to a local variable is   *)
(* replaced by what the variable was last bound to *on the way of the      *)
(* visit*, a field of adlog by the variable that is defined for it, an     *)
(* element of a list by Get(index), and declarations of what comes from    *)
(* adlog are removed.  ExprParser parses an expression through the         *)
(* bindings of Env, ExprInfo says what it is and what its text becomes,    *)
(* Deleter which declaration goes, GeneralRule replaces.                   *)
(*                                                                         *)
(* The module visits a method while it is made up: each action adds a      *)
(* statement, as it stands in the source and as it is written out.  When   *)
(* the method is complete both are executed and what they use is compared. *)
(***************************************************************************)
EXTENDS Integers, FiniteSets, SequencesExt

CONSTANTS
  Ints,          \* names of local integer variables
  Items,         \* names of local references to a list element
  LoopVars,      \* names of the variables of for statements
  NameOrder,     \* all names in the order of Env::var_decls_ (a std::map)
  DeclRhs,       \* what declarations of integers are initialised with
  ItemRhs,       \* what declarations of references are initialised with
  AssignRhs,     \* right sides of assignments
  UseRhs,        \* what the final use reads
  MaxStatements, \* bound: declarations and assignments
  MaxOpen,       \* bound: ifs and loops
  MaxSize        \* bound: all of these

Vars == Ints \union Items \union LoopVars

(* Expressions.  A chain starts at adlog or at a variable and goes on with *)
(* steps [f, p]: a field, with an index or "", or "[]" with an index.      *)
Literal == [op |-> "lit", v |-> "", steps |-> <<>>]
Ref(v) == [op |-> "ref", v |-> v, steps |-> <<>>]
Plus(v) == [op |-> "plus", v |-> v, steps |-> <<>>]      \* v + 1
Least(v) == [op |-> "call", v |-> v, steps |-> <<>>]     \* std::min(v, 1)
Chain(v, steps) == [op |-> "chain", v |-> v, steps |-> steps]
Step(f, p) == [f |-> f, p |-> p]
NoExpr == [op |-> "none", v |-> "", steps |-> <<>>]

IndexesOf(e) == { e.steps[n].p : n \in DOMAIN e.steps } \intersect Vars
Mentions(e) == IndexesOf(e) \union ({e.v} \intersect Vars)

VARIABLES
  phase,    \* "visit", "done", "crashed"
  stack,    \* the scopes that are open, innermost last
  code,     \* the statements so far: source, text, whether it is written
  carriers, \* scope -> names of definitions that took a source variable's name
  trace     \* what runs, in order

vars == <<phase, stack, code, carriers, trace>>

top == stack[Len(stack)]

-----------------------------------------------------------------------------
(* Env: bindings, definitions, loop variables *)

Binding(st, v) ==
  LET at == { n \in DOMAIN st : v \in DOMAIN st[n].bound }
  IN IF at = {} THEN NoExpr
     ELSE st[CHOOSE n \in at : \A m \in at : m <= n].bound[v]

IsLoopVar(st, v) == \E n \in DOMAIN st : st[n].loopvar = v /\ v # ""
InLoop(st) == \E n \in DOMAIN st : st[n].kind = "for"
LastLoopVar(st) ==
  LET at == { n \in DOMAIN st : st[n].kind = "for" }
  IN IF at = {} THEN "" ELSE st[CHOOSE n \in at : \A m \in at : m <= n].loopvar

DefsOn(st) == UNION { st[n].defs : n \in DOMAIN st }
HasDef(st, path) == \E d \in DefsOn(st) : d.path = path
DefOf(st, path) ==
  LET at == { n \in DOMAIN st : \E d \in st[n].defs : d.path = path }
      n == CHOOSE n \in at : \A m \in at : m <= n
  IN CHOOSE d \in st[n].defs : d.path = path

\* A definition made in a loop goes to the parent of the innermost one.
TargetScope(st) ==
  LET loops == { n \in DOMAIN st : st[n].kind = "for" }
  IN IF loops = {} THEN Len(st)
     ELSE (CHOOSE n \in loops : \A m \in loops : m <= n) - 1

-----------------------------------------------------------------------------
(* ExprParser: an expression becomes the sequence of its nodes, from the   *)
(* root to the leaf; a reference is replaced by what it is bound to.       *)

Node(f, p, kind) == [f |-> f, p |-> p, kind |-> kind]
Info(nodes, origin, ends) == [nodes |-> nodes, origin |-> origin, ends |-> ends]

\* Mutant of ContainsSelf: only "v = v".
ContainsSelfOnly(v, e) == e = Ref(v)

\* is_decl_ref_contains_self: only some kinds of expression are looked into.
ContainsSelf(v, e) ==
  \/ e = Ref(v)
  \/ e = Plus(v)
  \/ /\ e.op = "chain" /\ Last(e.steps).f = "[]"
     /\ \/ Last(e.steps).p = v
        \/ Len(e.steps) = 1 /\ e.v = v

ParseFuel == Cardinality(Vars) + 1

StepNode(step) ==
  Node(step.f, step.p, IF step.f = "[]" THEN "operator" ELSE "member")

RECURSIVE ParseFrom(_, _, _, _)
ParseFrom(st, e, assigned, fuel) ==
  LET Plain(ends) == Info(<<Node("", "", "plain")>>, "", ends)
      RefInfo(v) ==
        LET b == Binding(st, v)
        IN IF v = assigned \/ b = NoExpr \/ ContainsSelf(v, b)
           THEN Info(<<Node(v, "", "plain")>>, v, TRUE)
           ELSE [ParseFrom(st, b, assigned, fuel - 1) EXCEPT !.origin = v]
  IN IF fuel = 0 THEN Plain(FALSE)
     ELSE CASE e.op = "lit" -> Plain(TRUE)
            [] e.op = "ref" -> RefInfo(e.v)
            [] e.op \in {"plus", "call"} -> Plain(RefInfo(e.v).ends)
            [] e.op = "chain" ->
                 LET base == IF e.v \in Vars THEN RefInfo(e.v)
                             ELSE Info(<<Node("adlog", "", "root")>>, "", TRUE)
                 IN Info(base.nodes
                           \o [n \in DOMAIN e.steps |-> StepNode(e.steps[n])],
                         "",
                         base.ends /\ \A v \in IndexesOf(e) : RefInfo(v).ends)

Parse(st, e, assigned) == ParseFrom(st, e, assigned, ParseFuel)

-----------------------------------------------------------------------------
(* ExprInfo: what an expression is *)

TypeOf(node) ==
  CASE node.f \in {"t", "age"} -> "int"
    [] node.f = "infos" /\ node.p = "" -> "list"
    [] OTHER -> "message"

IsFromAdlog(x) == x.nodes[1].kind = "root"
IsDeclRef(x) == x.origin # ""
IsBasic(x) == TypeOf(Last(x.nodes)) = "int"
ContainsLoopVar(st, x) == \E n \in DOMAIN x.nodes : IsLoopVar(st, x.nodes[n].p)
IsFromList(st, x) ==
  \/ ContainsLoopVar(st, x)
  \/ \E n \in DOMAIN x.nodes :
       \/ TypeOf(x.nodes[n]) = "list"
       \/ x.nodes[n].kind = "member" /\ x.nodes[n].p # ""

\* The index nearest to the leaf; operator[] has two parameters and is passed.
IntParam(x) ==
  LET at == { n \in DOMAIN x.nodes : x.nodes[n].kind = "member" /\ x.nodes[n].p # "" }
  IN IF at = {} THEN "" ELSE x.nodes[CHOOSE n \in at : \A m \in at : m <= n].p

IsPath(node) == node.kind = "member"
Path(x) ==
  LET members == SelectSeq(x.nodes, IsPath)
  IN [n \in DOMAIN members |-> members[n].f]

(* The text of an expression: ["lit"], ["var", v], ["def", path] for the   *)
(* variable of a field, ["get", path, index], ["list", path] for a list as *)
(* such, ["raw"] for a reference to adlog that stays.                      *)
NoText == <<"none">>

\* Mutant of FieldText: an index is only looked for among call parameters.
FieldTextByParam(st, x) ==
  IF ~HasDef(st, Path(x)) THEN NoText
  ELSE LET d == DefOf(st, Path(x))
       IN IF ~IsFromList(st, x)
          THEN IF d.name = "" THEN <<"def", Path(x)>> ELSE <<"var", d.name>>
          ELSE IF IntParam(x) # "" THEN <<"get", Path(x), IntParam(x)>>
          ELSE IF InLoop(st) THEN <<"get", Path(x), "idx">>
          ELSE <<"list", Path(x)>>

\* get_bs_field_value_normal
FieldText(st, x) ==
  IF ~HasDef(st, Path(x)) THEN NoText
  ELSE LET d == DefOf(st, Path(x))
       IN IF ~IsFromList(st, x)
          THEN IF d.name = "" THEN <<"def", Path(x)>> ELSE <<"var", d.name>>
          ELSE IF ContainsLoopVar(st, x) THEN <<"get", Path(x), LastLoopVar(st)>>
          ELSE IF IntParam(x) # "" THEN <<"get", Path(x), IntParam(x)>>
          ELSE IF InLoop(st) THEN <<"get", Path(x), "idx">>
          ELSE <<"list", Path(x)>>

-----------------------------------------------------------------------------
(* ExprParserDetail and Deleter: what parsing an expression leaves in Env  *)

AddDef(st, path, name, list) ==
  [st EXCEPT ![TargetScope(st)].defs =
     @ \union {[path |-> path, name |-> name, list |-> list]}]

\* A field gets a variable of the declaration's name if it is its whole init.
RegisterScalar(st, x, e, decl) ==
  IF IsDeclRef(x) \/ HasDef(st, Path(x)) THEN st
  ELSE AddDef(st, Path(x), IF e = decl.init THEN decl.name ELSE "", FALSE)

RegisterList(st, x) ==
  IF HasDef(st, Path(x)) \/ ~(InLoop(st) \/ IntParam(x) # "") THEN st
  ELSE AddDef(st, Path(x), "", TRUE)

Register(st, x, e, decl) ==
  IF ~IsFromAdlog(x) \/ ~IsBasic(x) THEN st
  ELSE IF IsFromList(st, x) THEN RegisterList(st, x)
  ELSE RegisterScalar(st, x, e, decl)

\* Mutant of NeedDelete: copies of a variable are deleted too.
NeedDeleteCopies(x, e, decl) == IsFromAdlog(x)

NeedDelete(x, e, decl) ==
  /\ IsFromAdlog(x)
  /\ ~(IsBasic(x) /\ IsDeclRef(x) /\ e = decl.init)

Position(v) == CHOOSE n \in DOMAIN NameOrder : NameOrder[n] = v

\* Mutant of MarkDeleted: names bound in any scope.
\* add_deleted_var_by_expr_str: the first name that is bound to this text.
MarkDeleted(st, e) ==
  LET here == st[Len(st)]
      same == { v \in DOMAIN here.bound : here.bound[v] = e }
  IN IF same = {} THEN st
     ELSE LET v == CHOOSE v \in same : \A w \in same : Position(v) <= Position(w)
          IN [st EXCEPT ![Len(st)].deleted = @ \union {v}]

NoDecl == [name |-> "", init |-> NoExpr]

\* parse_expr
After(st, e, decl, assigned) ==
  LET x == Parse(st, e, assigned)
      known == Register(st, x, e, decl)
  IN IF decl # NoDecl /\ NeedDelete(x, e, decl) THEN MarkDeleted(known, e) ELSE known

-----------------------------------------------------------------------------
(* GeneralRule: the parts of an expression are processed before the whole  *)

Parts(e) ==
  CASE e.op \in {"plus", "call"} -> <<Ref(e.v), e>>
    [] e.op = "chain" ->
         LET Indexed(step) == step.p \in Vars
             indexed == SelectSeq(e.steps, Indexed)
         IN [n \in DOMAIN indexed |-> Ref(indexed[n].p)] \o <<e>>
    [] OTHER -> <<e>>

AfterAll(st, e, decl, assigned) ==
  FoldLeft(LAMBDA s, part : After(s, part, decl, assigned), st, Parts(e))

AllEnd(st, e, assigned) ==
  \A n \in DOMAIN Parts(e) : Parse(st, Parts(e)[n], assigned).ends

RefText(st, v, decl, assigned) ==
  LET x == Parse(st, Ref(v), assigned)
  IN IF \/ v \in {decl.name, assigned}
        \/ ~IsFromAdlog(x) \/ ~IsBasic(x)
        \/ FieldText(st, x) = NoText
     THEN <<"var", v>>
     ELSE FieldText(st, x)

ChainText(st, e, assigned) ==
  LET text == FieldText(st, Parse(st, e, assigned))
  IN IF text = NoText THEN <<"raw">> ELSE text

TextOf(st, e, decl, assigned) ==
  CASE e.op = "lit" -> <<"lit">>
    [] e.op = "ref" -> RefText(st, e.v, decl, assigned)
    [] e.op \in {"plus", "call"} -> <<e.op, RefText(st, e.v, decl, assigned)>>
    [] e.op = "chain" -> ChainText(st, e, assigned)

-----------------------------------------------------------------------------
(* The visit *)

Count(kinds) == Cardinality({ n \in DOMAIN code : code[n].kind \in kinds })

Opened == Cardinality(DOMAIN carriers) - 1
Simple == Count({"decl", "assign"})
MaySimple == phase = "visit" /\ Simple < MaxStatements /\ Simple + Opened < MaxSize
MayOpen == phase = "visit" /\ Opened < MaxOpen /\ Simple + Opened < MaxSize

Visible == UNION { stack[n].seen : n \in DOMAIN stack }
CanRead(e) == Mentions(e) \subseteq Visible
Declared == { code[n].v : n \in { m \in DOMAIN code : code[m].kind = "decl" } }

Event(op, n, v) == [op |-> op, n |-> n, v |-> v]
Happens(event) == IF top.live THEN Append(trace, event) ELSE trace

\* A statement of the innermost scope whose then-branch it may count for.
Counted(st) ==
  [st EXCEPT ![Len(st)].size = @ + (IF st[Len(st)].inElse THEN 0 ELSE 1)]

Line(kind, v, e, text) ==
  [kind |-> kind, v |-> v, e |-> e, text |-> text, kept |-> TRUE,
   scope |-> top.id, loop |-> LastLoopVar(stack)]

Visit(st, kind, v, e, decl, assigned, next) ==
  IF ~AllEnd(st, e, assigned)
  THEN /\ phase' = "crashed"
       /\ code' = Append(code, Line(kind, v, e, NoText))
       /\ UNCHANGED <<stack, carriers, trace>>
  ELSE LET after == AfterAll(st, e, decl, assigned)
       IN /\ stack' = Counted(after)
          /\ code' = Append(code, Line(kind, v, e, TextOf(after, e, decl, assigned)))
          /\ trace' = Happens(Event("stmt", Len(code) + 1, ""))
          /\ phase' = next
          /\ UNCHANGED carriers

Bind(st, v, e) ==
  [st EXCEPT ![Len(st)].bound = (v :> e) @@ @]

\* "T v = e;"
Declare(v, e) ==
  /\ MaySimple
  /\ v \notin Declared /\ CanRead(e)
  /\ Visit([Bind(stack, v, e) EXCEPT ![Len(stack)].seen = @ \union {v},
                                     ![Len(stack)].decls = @ \union {v}],
           "decl", v, e, [name |-> v, init |-> e], "", "visit")

\* "v = e;"
Assign(v, e) ==
  /\ MaySimple
  /\ v \in Visible /\ CanRead(e) /\ e # Ref(v)
  /\ Visit(Bind(stack, v, e), "assign", v, e, NoDecl, v, "visit")

\* "use(e);", the last statement
Use(e) ==
  /\ phase = "visit"
  /\ CanRead(e)
  /\ Visit(stack, "use", "", e, NoDecl, "", "close")

Scope(kind, v, live, taken) ==
  [kind |-> kind, id |-> Cardinality(DOMAIN carriers) + 1,
   bound |-> IF v = "" THEN << >> ELSE v :> Literal,
   loopvar |-> v, defs |-> {}, deleted |-> {}, decls |-> {},
   seen |-> {v} \ {""}, live |-> live, taken |-> taken, inElse |-> FALSE,
   size |-> 0, first |-> Len(code) + 1, start |-> Len(trace)]

Open(kind, v, taken) ==
  /\ MayOpen
  /\ LET id == Cardinality(DOMAIN carriers) + 1
         began == Happens(Event("open", id, ""))
         run == IF kind = "for" /\ top.live THEN Append(began, Event("index", 0, v))
                ELSE began
     IN /\ stack' = Append(Counted(stack),
                           [Scope(kind, v, top.live /\ taken, taken)
                              EXCEPT !.start = Len(began)])
        /\ carriers' = (id :> {}) @@ carriers
        /\ trace' = run
  /\ UNCHANGED <<phase, code>>

\* An if whose condition reads nothing.
OpenIf(taken) == Open("if", "", taken)

Else ==
  /\ phase = "visit" /\ top.kind = "if" /\ ~top.inElse
  /\ stack' = [stack EXCEPT ![Len(stack)] =
       [@ EXCEPT !.inElse = TRUE, !.seen = {},
                 !.live = stack[Len(stack) - 1].live /\ ~top.taken]]
  /\ UNCHANGED <<phase, code, carriers, trace>>

OpenFor(i) ==
  /\ \A n \in DOMAIN stack : stack[n].loopvar # i
  /\ Open("for", i, TRUE)

\* get_decl_stmt: a declaration of this scope or of one around it.
Removed(st) == st[Len(st)].deleted \intersect UNION { st[n].decls : n \in DOMAIN st }

CodeWithout(names) ==
  [n \in DOMAIN code |->
     [code[n] EXCEPT !.kept = @ /\ ~(code[n].kind = "decl" /\ code[n].v \in names)]]

\* Mutant of AllDeleted: at least as many as statements that stay.
AllDeletedSome(scope) ==
  /\ scope.kind = "if" /\ ~scope.inElse
  /\ scope.deleted # {} /\ 2 * Cardinality(scope.deleted) >= scope.size

\* is_all_if_stmt_deleted, by number
AllDeleted(scope) ==
  /\ scope.kind = "if" /\ ~scope.inElse
  /\ scope.deleted # {} /\ Cardinality(scope.deleted) = scope.size

NamesOf(scope) == { d.name : d \in scope.defs } \ {""}

\* The loop runs twice: what it did is done again with the next index.
Again(scope) ==
  IF scope.kind = "for" /\ scope.live
  THEN trace \o <<Event("index", 1, scope.loopvar)>>
         \o SubSeq(trace, scope.start + 2, Len(trace))
  ELSE trace

Close ==
  /\ phase \in {"visit", "close"}
  /\ IF AllDeleted(top)
     THEN /\ code' = [n \in DOMAIN code |->
                        [code[n] EXCEPT !.kept = @ /\ n < top.first]]
          /\ carriers' = [id \in DOMAIN carriers |->
                            IF id > top.id THEN {} ELSE carriers[id]]
     ELSE /\ code' = CodeWithout(Removed(stack))
          /\ carriers' = [carriers EXCEPT ![top.id] = NamesOf(top)]
  /\ trace' = Again(top)
  /\ stack' = Front(stack)
  /\ phase' = IF Len(stack) = 1 THEN "done" ELSE phase
  /\ Len(stack) = 1 => phase = "close"

Done == phase \in {"done", "crashed"} /\ UNCHANGED vars

Init ==
  /\ phase = "visit" /\ code = <<>> /\ trace = <<Event("open", 1, "")>>
  /\ carriers = (1 :> {})
  /\ stack = <<[kind |-> "root", id |-> 1, bound |-> << >>, loopvar |-> "",
                defs |-> {}, deleted |-> {}, decls |-> {}, seen |-> {},
                live |-> TRUE, taken |-> TRUE, inElse |-> FALSE,
                size |-> 0, first |-> 1, start |-> 1]>>

Next ==
  \/ \E v \in Ints, e \in DeclRhs : Declare(v, e)
  \/ \E v \in Items, e \in ItemRhs : Declare(v, e)
  \/ \E v \in Ints, e \in AssignRhs : Assign(v, e)
  \/ \E e \in UseRhs : Use(e)
  \/ \E taken \in BOOLEAN : OpenIf(taken)
  \/ Else
  \/ \E i \in LoopVars : OpenFor(i)
  \/ Close
  \/ Done

Spec == Init /\ [][Next]_vars

-----------------------------------------------------------------------------
(* What the two programs do.  A value is ["n", k], ["plus", value],        *)
(* ["call", value] or ["at", path, indexes] for data of adlog.             *)

Value(env, v) == IF v \in DOMAIN env THEN env[v] ELSE <<"n", 0>>

SourceValue(env, e) ==
  CASE e.op = "lit" -> <<"n", 0>>
    [] e.op = "ref" -> env[e.v]
    [] e.op \in {"plus", "call"} -> <<e.op, env[e.v]>>
    [] e.op = "chain" ->
         LET Field(step) == step.f # "[]"
             Indexed(step) == step.p # ""
             fields == SelectSeq(e.steps, Field)
             indexed == SelectSeq(e.steps, Indexed)
             base == IF e.v \in Vars THEN env[e.v] ELSE <<"at", <<>>, <<>>>>
         IN <<"at", base[2] \o [n \in DOMAIN fields |-> fields[n].f],
              base[3] \o [n \in DOMAIN indexed |-> Value(env, indexed[n].p)]>>

RECURSIVE WrittenValue(_, _)
WrittenValue(env, text) ==
  CASE text[1] = "lit" -> <<"n", 0>>
    [] text[1] = "var" -> Value(env, text[2])
    [] text[1] \in {"plus", "call"} -> <<text[1], WrittenValue(env, text[2])>>
    [] text[1] = "def" -> <<"at", text[2], <<>>>>
    [] text[1] = "get" -> <<"at", text[2], <<Value(env, text[3])>>>>
    [] OTHER -> text

FieldPath(name) ==
  LET n == CHOOSE n \in DOMAIN code : code[n].kind = "decl" /\ code[n].v = name
  IN SourceValue(<<>>, code[n].e)

RunEvent(s, event) ==
  CASE event.op = "open" ->
         [s EXCEPT !.out = [v \in carriers[event.n] |-> FieldPath(v)] @@ @]
    [] event.op = "index" ->
         [s EXCEPT !.src = (event.v :> <<"n", event.n>>) @@ @,
                   !.out = (event.v :> <<"n", event.n>>) @@ @]
    [] event.op = "stmt" ->
         LET c == code[event.n]
             source == SourceValue(s.src, c.e)
             written == WrittenValue(s.out, c.text)
         IN IF c.kind = "use"
            THEN [s EXCEPT !.used = Append(@, source),
                           !.read = IF c.kept THEN Append(@, written) ELSE @]
            ELSE [s EXCEPT !.src = (c.v :> source) @@ @,
                           !.out = IF c.kept THEN (c.v :> written) @@ @ ELSE @]

Effect ==
  FoldLeft(RunEvent, [src |-> << >>, out |-> << >>, used |-> <<>>, read |-> <<>>], trace)

-----------------------------------------------------------------------------
(* Forms of source that the replacement does not preserve *)

Statements(kind) == { n \in DOMAIN code : code[n].kind = kind }
DeclOf(v) == CHOOSE n \in Statements("decl") : code[n].v = v

\* The variables that the value of e may come from.
RECURSIVE Behind(_, _)
Behind(names, fuel) ==
  IF fuel = 0 THEN names
  ELSE Behind(names \union UNION { Mentions(code[n].e) :
                                   n \in { m \in DOMAIN code : code[m].v \in names } },
              fuel - 1)
Sources(e) == Behind(Mentions(e), Cardinality(Vars))
Relevant == UNION { Sources(code[n].e) : n \in Statements("use") }
Indexes == UNION { IndexesOf(code[n].e) : n \in DOMAIN code }

Reassigned == { code[n].v : n \in Statements("assign") }
ReassignedInside ==
  { v \in Reassigned : \E n \in Statements("assign") :
                         code[n].v = v /\ code[n].scope # code[DeclOf(v)].scope }
NamedDefs == UNION { carriers[id] : id \in DOMAIN carriers }

Forms ==
  { f \in {"inner", "field", "index", "fixed", "listIndex", "outerIndex", "copied",
                "sameText"} :
      CASE f = "inner" -> Relevant \intersect ReassignedInside # {}
        [] f = "field" -> \E v \in Reassigned : code[DeclOf(v)].e.op = "chain"
        [] f = "index" -> Indexes \intersect Reassigned # {}
        [] f = "copied" ->
             \E n \in DOMAIN code :
                code[n].kind # "use" /\ code[n].e.op = "ref" /\ code[n].e.v \in Reassigned
        [] f = "sameText" ->
             \E n \in Statements("assign"), m \in Statements("decl") :
                code[n].e.op = "chain" /\ code[n].e = code[m].e
        [] f = "fixed" ->
             \E n \in DOMAIN code : \E k \in DOMAIN code[n].e.steps :
                LET step == code[n].e.steps[k]
                IN step.f = "[]" /\ step.p \notin LoopVars
        [] f = "listIndex" ->
             \E v \in Indexes \ LoopVars :
                \E n \in DOMAIN code : code[n].v = v /\ code[n].e.op = "chain"
        [] f = "outerIndex" ->
             \E n \in DOMAIN code :
                LET loops == Sources(code[n].e) \intersect LoopVars
                IN code[n].loop # "" /\ loops \ {code[n].loop} # {} }

RECURSIVE Names(_)
Names(text) ==
  CASE text[1] = "var" -> {text[2]}
    [] text[1] = "get" -> {text[3]} \ {"0"}
    [] text[1] \in {"plus", "call"} -> Names(text[2])
    [] OTHER -> {}
RECURSIVE IsRaw(_)
IsRaw(text) == text[1] = "raw" \/ (text[1] \in {"plus", "call"} /\ IsRaw(text[2]))

DeclaredInOutput ==
  LoopVars \union NamedDefs
    \union { code[n].v : n \in { m \in Statements("decl") : code[m].kept } }

\* What of a variable's value may be lost, and what may not compile.
LosesValue == {"inner", "field", "index", "copied", "fixed", "listIndex", "outerIndex"}
LosesName == {"field", "fixed", "listIndex", "sameText"}

\* Variables that lead back to themselves, "v = v + 1" apart.
Leads(names) ==
  UNION { Mentions(code[n].e) \ (IF code[n].e.op = "plus" THEN {code[n].v} ELSE {}) :
          n \in { m \in DOMAIN code : code[m].v \in names } }
RECURSIVE LeadsTo(_, _)
LeadsTo(names, fuel) ==
  IF fuel = 0 THEN names ELSE LeadsTo(names \union Leads(names), fuel - 1)
Circular == \E v \in Vars : v \in LeadsTo(Leads({v}), Cardinality(Vars))

-----------------------------------------------------------------------------
(* What the method reads at its end has the value it has in the source,    *)
(* on every path and in every iteration, unless the source has one of the  *)
(* forms in which a binding of the visit is not the value of the run: the  *)
(* replacement of references in ExprParser and GeneralRule, the indexes of *)
(* ExprInfo, hoisted definitions and removed declarations together.        *)
ReadsKeepValue ==
  phase = "done" /\ Forms \intersect LosesValue = {} => Effect.read = Effect.used

(* Every name that is left in the text is still declared, and no reference *)
(* to adlog is left, unless the source has one of four forms: Deleter and  *)
(* add_deleted_var_by_expr_str against the replacement of the reads.       *)
WrittenCompiles ==
  phase = "done" /\ Forms \intersect LosesName = {} =>
    \A n \in DOMAIN code : code[n].kept =>
      /\ Names(code[n].text) \union ({code[n].v} \ {""}) \subseteq DeclaredInOutput
      /\ ~IsRaw(code[n].text)

(* Parsing an expression ends, unless a variable leads back to itself      *)
(* through other assignments, a call or an index.                          *)
ParseEndsUnlessCircular == phase = "crashed" => Circular

(* Parsing an expression ends.  Env.h says that a variable that contains a *)
(* reference to itself is recognised.                                      *)
ParseEnds == phase # "crashed"

(* An if that is dropped as a whole, because it has as many deleted names  *)
(* as statements, contains nothing but declarations: the numbers are of    *)
(* names bound in Env and of statements in the source.                     *)
ErasesDeclarationsOnly ==
  phase \in {"visit", "close"} /\ AllDeleted(top) =>
    \A n \in top.first .. Len(code) : code[n].kind = "decl"

=============================================================================
