----------------------------- MODULE FieldOrder -----------------------------
(***************************************************************************)
(* The second tool, LogicParser: in classes that are already rewritten it  *)
(* moves the declarations of bs fields next to the place where they are    *)
(* read first.  BSExtractMethodVisitor visits a method, ExprParserBSField  *)
(* notes every declaration `T v = GetSingular(bs, enum_v, pos)`, and      *)
(* BSFieldOrderRule decides at each read of v, from the kinds and stages   *)
(* of the scopes around it, whether the declaration moves and to which     *)
(* scope; only the first read that decides counts.                         *)
(*                                                                         *)
(* The module makes up a method while it is visited.  When it is complete  *)
(* each read is resolved in the source and in what is written.             *)
(***************************************************************************)
EXTENDS Integers, FiniteSets, SequencesExt

CONSTANTS
  Names,     \* names of variables that hold a bs field
  Fields,    \* bs fields
  NoField,   \* of code that declares nothing
  MaxDecls,  \* bound: declarations
  MaxReads,  \* bound: reads, in statements, conditions and loop heads
  MaxOpen,   \* bound: ifs and loops
  MaxItems   \* bound: all of them together

Kinds == {"plain", "has", "list"}   \* GetSingular, with &has_v, BSRepeatedField

VARIABLES
  phase,    \* "visit", "done"
  stack,    \* the Envs, root first
  code,     \* the statements of the source, in order
  gone,     \* positions of declarations and statements that are not written
  placed    \* the definitions that are written, and at the begin of which block

vars == <<phase, stack, code, gone, placed>>

top == stack[Len(stack)]

\* A block is named by the ifs and loops around it with their branches.
BlockOf(st) ==
  LET env == st[Len(st)]
  IN IF env.kind = "root" THEN <<>> ELSE Append(env.path, <<env.id, env.stage>>)
Here == BlockOf(stack)

-----------------------------------------------------------------------------
(* Env: where a read stands *)

Parent(st) == Len(st) - 1
ParentIs(st, kind) == Len(st) > 1 /\ st[Parent(st)].kind = kind
InParentElse(st) == ParentIs(st, "if") /\ st[Parent(st)].stage = "else"

InLoopInit(st) == st[Len(st)].kind = "for" /\ st[Len(st)].stage = "init"
InLoopBody(st) ==
  \E n \in DOMAIN st :
    /\ st[n].kind = "for" /\ st[n].stage = "body"
    /\ \A m \in n + 1 .. Len(st) : st[m].kind # "for"
InIfCond(st) == \E n \in DOMAIN st : st[n].kind = "if" /\ st[n].stage = "cond"
InIfBody(st) == \E n \in DOMAIN st : st[n].kind = "if" /\ st[n].stage = "then"

\* The parent of the outermost of the scopes of this kind that directly
\* enclose each other, from the innermost one on; 0 if there is none.
OuterParent(st, kind) ==
  LET at == { n \in DOMAIN st : st[n].kind = kind }
      runs == { n \in at : \A m \in n .. Max(at) : m \in at }
  IN IF at = {} THEN 0 ELSE Min(runs) - 1

DeclaredIn(st, n, v) == v \in DOMAIN st[n].decls
DetailAt(st, v) == Max({0} \union { n \in DOMAIN st : v \in DOMAIN st[n].detail })

-----------------------------------------------------------------------------
(* BSFieldOrderRule.  The operators take and give the pair of the scopes   *)
(* and of the declarations removed so far.                                 *)

State(st, removed) == [st |-> st, removed |-> removed]

Mark(s, v) ==
  LET n == DetailAt(s.st, v)
  IN IF n = 0 THEN s ELSE State([s.st EXCEPT ![n].detail[v].visited = TRUE], s.removed)

\* add_new_def_overwrite: not if a scope on the way out has one of the name.
AddNewDef(st, t, v, def) ==
  IF \E n \in 1 .. t : v \in DOMAIN st[n].defs THEN st
  ELSE [st EXCEPT ![t].defs = (v :> def) @@ @]

\* Mutant of FixDecl: the old declaration stays.
\* fix_bs_field_decl; r is the position of the read
FixDecl(s, v, t, r) ==
  LET n == DetailAt(s.st, v)
  IN IF n = 0 \/ s.st[n].detail[v].visited THEN s
     ELSE LET d == s.st[n].detail[v].decl
          IN Mark(State(AddNewDef(s.st, t, v, [decl |-> d, read |-> r]),
                        s.removed \union {d}),
                  v)

\* Mutant of FixOrMark: whether the scope has the declaration is not asked.
FixAlways(s, v, t, r) == FixDecl(s, v, t, r)

FixOrMark(s, v, t, r) ==
  IF DeclaredIn(s.st, t, v) THEN Mark(s, v) ELSE FixDecl(s, v, t, r)

HasInParams(st, v) ==
  LET n == DetailAt(st, v) IN n # 0 /\ st[n].detail[v].has

HeadOrLoop(st) == InLoopInit(st) \/ InLoopBody(st) \/ InIfCond(st)

\* Mutant of BodyTarget: a variable with has_v is treated as any other.
BodyTargetPlain(st, v) == Len(st)

\* The scope for what is read in the body of an if.
BodyTarget(st, v) == IF HasInParams(st, v) THEN Parent(st) ELSE Len(st)

\* Mutant of OnRef: the read in an else does not look further out.
OnRefInElse(s, v, r) ==
  LET st == s.st
  IN IF HeadOrLoop(st)
     THEN FixOrMark(s, v, IF ParentIs(st, "for") THEN OuterParent(st, "for")
                          ELSE Parent(st), r)
     ELSE IF InIfBody(st) THEN FixOrMark(s, v, BodyTarget(st, v), r)
     ELSE Mark(s, v)

\* process_to_json(DeclRefExpr)
OnRef(s, v, r) ==
  LET st == s.st
  IN IF HeadOrLoop(st)
     THEN FixOrMark(s, v, IF ParentIs(st, "for") THEN OuterParent(st, "for")
                          ELSE IF InParentElse(st) THEN OuterParent(st, "if")
                          ELSE Parent(st), r)
     ELSE IF InParentElse(st) THEN FixOrMark(s, v, OuterParent(st, "if"), r)
     ELSE IF InIfBody(st) THEN FixOrMark(s, v, BodyTarget(st, v), r)
     ELSE IF ParentIs(st, "if") THEN s
     ELSE Mark(s, v)

\* process_to_json(CXXMemberCallExpr), v.f(i) with or without a loop variable
OnCall(s, v, r, loopVar) ==
  LET st == s.st
      outer == OuterParent(st, "for")
  IN IF HeadOrLoop(st)
     THEN IF loopVar
          THEN IF outer = 0 \/ DeclaredIn(st, outer, v) THEN s ELSE FixDecl(s, v, outer, r)
          ELSE FixOrMark(s, v, IF ParentIs(st, "for") THEN outer ELSE Parent(st), r)
     ELSE IF ~InIfBody(st) THEN s
     ELSE IF InParentElse(st) THEN FixOrMark(s, v, OuterParent(st, "if"), r)
     ELSE IF ParentIs(st, "if") THEN s
     ELSE FixOrMark(s, v, BodyTarget(st, v), r)

(* What a statement, condition or loop head reads: "ref" is a reference,   *)
(* "call" and "loopCall" a member call on the variable; "hidden" is a      *)
(* reference the visitor does not reach (return, while, operator[]) and    *)
(* "test" a test of the variable has_v.                                    *)
Reads == { [how |-> how, v |-> v] : how \in {"ref", "call", "loopCall", "hidden", "test"},
                                    v \in Names }
NoRead == [how |-> "none", v |-> ""]

Process(s, read, r) ==
  CASE read.how = "ref" -> OnRef(s, read.v, r)
    [] read.how = "call" -> OnCall(s, read.v, r, FALSE)
    [] read.how = "loopCall" -> OnCall(s, read.v, r, TRUE)
    [] OTHER -> s

-----------------------------------------------------------------------------
(* The visit *)

Inside(block, path) == IsPrefix(block, path)

Positions(kind) == { n \in DOMAIN code : code[n].kind = kind }

\* The declaration of v in the source that a read in this block refers to.
DeclsSeen(v, path) ==
  { n \in Positions("decl") : code[n].v = v /\ Inside(code[n].block, path) }
SourceDecl(v, path) == Max({0} \union DeclsSeen(v, path))

CanRead(read, path) ==
  LET n == SourceDecl(read.v, path)
  IN /\ n # 0
     /\ read.how \in {"call", "loopCall"} => code[n].how = "list"
     /\ read.how = "test" => code[n].how = "has"
     /\ read.how = "loopCall" => \E k \in DOMAIN path : path[k][2] = "body"

Readable(path) == \E v \in Names : SourceDecl(v, path) # 0
Fits(n) == Len(code) + n <= MaxItems
Room == Fits(1) /\ Cardinality(Positions("read")) < MaxReads
Opened == Max({0} \union { code[n].id : n \in Positions("open") })

\* A then branch without braces is one statement, at most one read.
Single(env) == env.stage = "then" /\ env.block # "then"

\* Mutant of Declare: there is one table of details, and a name stays in it.
DeclareOnce(v, how, f) ==
  /\ phase = "visit" /\ Room /\ Fits(2) /\ Cardinality(Positions("decl")) < MaxDecls
  /\ ~Single(top)
  /\ DeclsSeen(v, Here) = {}
  /\ LET n == Len(code) + 1
         noted == [stack EXCEPT ![Len(stack)].decls = (v :> n) @@ @]
     IN /\ code' = Append(code, [kind |-> "decl", v |-> v, how |-> how, f |-> f,
                                 block |-> Here, id |-> 0])
        /\ stack' = [noted EXCEPT ![1].detail =
             @ @@ (v :> [decl |-> n, has |-> how = "has", visited |-> FALSE])]
  /\ UNCHANGED <<phase, gone, placed>>

Declare(v, how, f) ==
  /\ phase = "visit" /\ Room /\ Fits(2) /\ Cardinality(Positions("decl")) < MaxDecls
  /\ ~Single(top)
  /\ DeclsSeen(v, Here) = {}
  /\ LET n == Len(code) + 1
         visited == v \in DOMAIN top.detail /\ top.detail[v].visited
     IN /\ code' = Append(code, [kind |-> "decl", v |-> v, how |-> how, f |-> f,
                                 block |-> Here, id |-> 0])
        /\ stack' = [stack EXCEPT ![Len(stack)] =
             [@ EXCEPT !.decls = (v :> n) @@ @,
                       !.detail = (v :> [decl |-> n, has |-> how = "has",
                                         visited |-> visited]) @@ @]]
  /\ UNCHANGED <<phase, gone, placed>>

ReadItem(read, block) ==
  [kind |-> "read", v |-> read.v, how |-> read.how, f |-> NoField, block |-> block, id |-> 0]

\* A statement of the innermost scope that reads v.
Statement(read) ==
  /\ phase = "visit" /\ Room
  /\ CanRead(read, Here)
  /\ Single(top) => \A n \in Positions("read") : code[n].block # Here
  /\ LET s == Process(State(stack, gone), read, Len(code) + 1)
     IN stack' = s.st /\ gone' = s.removed
  /\ code' = Append(code, ReadItem(read, Here))
  /\ UNCHANGED <<phase, placed>>

NewEnv(kind, stage, block) ==
  [kind |-> kind, id |-> Opened + 1, path |-> Here, stage |-> stage, block |-> block,
   decls |-> << >>, detail |-> << >>, defs |-> << >>]

\* The condition or head is read in the new scope, then its body begins.
Open(kind, block, read, head, body) ==
  /\ phase = "visit" /\ Room /\ Fits(2) /\ Opened < MaxOpen /\ ~Single(top)
  /\ read.how # "hidden"
  /\ LET inHead == Append(stack, NewEnv(kind, head, block))
         path == BlockOf(inHead)
         items == <<[kind |-> "open", v |-> "", how |-> block, f |-> NoField,
                     block |-> Here, id |-> Opened + 1]>>
                    \o (IF read = NoRead THEN <<>> ELSE <<ReadItem(read, path)>>)
         s == Process(State(inHead, gone), read, Len(code) + 2)
     IN /\ Readable(path) \/ (Fits(3) /\ Cardinality(Positions("decl")) < MaxDecls)
        /\ read # NoRead => CanRead(read, path)
        /\ code' = code \o items
        /\ stack' = [s.st EXCEPT ![Len(s.st)].stage = body]
        /\ gone' = s.removed
  /\ UNCHANGED <<phase, placed>>

\* block: which branch has the first brace, "none" if none has
OpenIf(block, read) == Open("if", block, read, "cond", "then")

OpenFor(read) == read.how # "test" /\ Open("for", "body", read, "init", "body")

Else ==
  /\ phase = "visit" /\ top.kind = "if" /\ top.stage = "then"
  /\ top.block # "none"
  /\ stack' = [stack EXCEPT ![Len(stack)].stage = "else"]
  /\ UNCHANGED <<phase, code, gone, placed>>

DefsOf(env) == { [v |-> v, decl |-> env.defs[v].decl, read |-> env.defs[v].read] :
                 v \in DOMAIN env.defs }

PlaceAt(block, env) ==
  placed' = placed \union { [def |-> d, block |-> block] : d \in DefsOf(env) }

\* Ifs and loops that read nothing are left out.
ReadsWithin(id) ==
  \E n \in Positions("read") : \E k \in DOMAIN code[n].block : code[n].block[k][1] = id
Closable == ReadsWithin(top.id) \/ ~Readable(Here)

WithinIf(id) ==
  { n \in DOMAIN code : code[n].id = id
                        \/ \E k \in DOMAIN code[n].block : code[n].block[k][1] = id }

\* process_to_json(IfStmt): before the text behind the first brace, and
\* nothing is left of a text without one.
CloseIf ==
  /\ phase = "visit" /\ top.kind = "if" /\ Closable
  /\ top.block = "else" => top.stage = "else"
  /\ IF top.defs # << >> /\ top.block = "none"
     THEN gone' = gone \union WithinIf(top.id) /\ UNCHANGED placed
     ELSE PlaceAt(Append(top.path, <<top.id, top.block>>), top) /\ UNCHANGED gone
  /\ stack' = Front(stack)
  /\ UNCHANGED <<phase, code>>

\* process_to_json of a loop writes nothing.
CloseFor ==
  /\ phase = "visit" /\ top.kind = "for" /\ Closable
  /\ stack' = Front(stack)
  /\ UNCHANGED <<phase, code, gone, placed>>

\* insert_new_def_at_begin: behind the null test, and nothing without one.
\* nullTest: whether the body has `if (bs == nullptr) { ... }`
Finish(nullTest) ==
  /\ phase = "visit" /\ Len(stack) = 1
  /\ IF top.defs # << >> /\ ~nullTest
     THEN gone' = gone \union DOMAIN code /\ UNCHANGED placed
     ELSE PlaceAt(<<>>, top) /\ UNCHANGED gone
  /\ phase' = "done"
  /\ UNCHANGED <<stack, code>>

Done == phase = "done" /\ UNCHANGED vars

Init ==
  /\ phase = "visit"
  /\ stack = <<[kind |-> "root", id |-> 0, path |-> <<>>, stage |-> "body",
                block |-> "body", decls |-> << >>, detail |-> << >>, defs |-> << >>]>>
  /\ code = <<>> /\ gone = {} /\ placed = {}

Next ==
  \/ \E v \in Names, how \in Kinds, f \in Fields : Declare(v, how, f)
  \/ \E read \in Reads : Statement(read)
  \/ \E block \in {"then", "else", "none"}, read \in Reads \union {NoRead} :
       OpenIf(block, read)
  \/ \E read \in Reads \union {NoRead} : OpenFor(read)
  \/ Else
  \/ CloseIf
  \/ CloseFor
  \/ \E nullTest \in BOOLEAN : Finish(nullTest)
  \/ Done

Spec == Init /\ [][Next]_vars

-----------------------------------------------------------------------------
(* What the source and the output mean *)

\* The declaration that a read of the source refers to.
DeclOf(r) == Max({ n \in DeclsSeen(code[r].v, code[r].block) : n < r })

ReadsOf(d) == { r \in Positions("read") : code[r].how # "test" /\ DeclOf(r) = d }
Visited(d) == { r \in ReadsOf(d) : code[r].how # "hidden" }

\* The declarations and definitions of v in this block that a read at r sees.
WrittenIn(v, block, r) ==
  { n \in DeclsSeen(v, block) \ gone : code[n].block = block /\ n < r }
  \union { p.def.decl : p \in { q \in placed : q.block = block /\ q.def.v = v } }

\* The declarations a read refers to in the output: those of the innermost
\* block that has one.
Resolved(r) ==
  LET block(k) == SubSeq(code[r].block, 1, k)
      blocks == { k \in 0 .. Len(code[r].block) : WrittenIn(code[r].v, block(k), r) # {} }
  IN IF blocks = {} THEN {} ELSE WrittenIn(code[r].v, block(Max(blocks)), r)

-----------------------------------------------------------------------------
(* Forms of source that the rule gets wrong, each told from the source.    *)

Branch(block, k) == IF k < 1 THEN "root" ELSE block[k][2]
Heads == {"cond", "init"}
OfLoop == {"init", "body"}
OfIf == {"cond", "then", "else"}

InHead(r) == Branch(code[r].block, Len(code[r].block)) \in Heads
HeadOrBody(r) == InHead(r) \/ \E k \in DOMAIN code[r].block : Branch(code[r].block, k) = "body"
Around(r) == Branch(code[r].block, Len(code[r].block) - 1)

\* The block the ifs or loops stand in that directly enclose each other.
Outside(block, kind) ==
  LET at == { k \in DOMAIN block : Branch(block, k) \in kind }
      runs == { k \in at : \A m \in k .. Max(at) : m \in at }
  IN IF at = {} THEN 0 ELSE Min(runs) - 1

\* The block in which the statement of the read stands, heads included.
Home(r) == IF InHead(r) THEN Front(code[r].block) ELSE code[r].block

\* The visitor does not reach a read.
Hidden(d) == \E r \in ReadsOf(d) : code[r].how = "hidden"

\* The first read stands deeper than a later one.
FirstIsDeeper(d) ==
  \E q, r \in ReadsOf(d) : q < r /\ ~Inside(Home(q), code[r].block)

\* A read in a then branch without braces.
Braceless(d) ==
  \E r \in ReadsOf(d) : \E k \in DOMAIN code[r].block :
    /\ Branch(code[r].block, k) = "then"
    /\ \E n \in Positions("open") : code[n].id = code[r].block[k][1] /\ code[n].how # "then"

\* A call that is not noted as the first read: outside of ifs and loops, in
\* an else, directly in a nested if, and in a loop beside the declaration.
Unnoted(d) ==
  \E r \in ReadsOf(d) :
    \/ /\ code[r].how = "call" /\ ~HeadOrBody(r)
       /\ \/ \A k \in DOMAIN code[r].block : Branch(code[r].block, k) # "then"
          \/ Around(r) \notin {"root", "else"}
    \/ /\ code[r].how = "loopCall"
       /\ code[d].block = SubSeq(code[r].block, 1, Outside(code[r].block, OfLoop))

\* The definition goes to an if whose else branch has the read, but what it
\* gets is written in the then branch.
OtherBranch(d) ==
  \E r \in ReadsOf(d) :
    \/ code[r].how = "call" /\ HeadOrBody(r) /\ Around(r) = "else"
    \/ /\ Branch(code[r].block, Outside(code[r].block, OfLoop)) = "else"
       /\ (code[r].how = "loopCall" \/ Around(r) \in OfLoop)
    \/ /\ code[r].how = "ref" /\ code[d].how # "has" /\ ~HeadOrBody(r)
       /\ Branch(code[r].block, Len(code[r].block)) = "else" /\ Around(r) = "then"

\* The definition goes to a loop, and what that gets is not written.
LostInLoop(d) ==
  \E r \in ReadsOf(d) :
    /\ code[r].how = "ref" /\ Around(r) = "else"
    /\ Branch(code[r].block, Outside(code[r].block, OfIf)) \in OfLoop

\* A declaration within an if or loop that moves further out.
MovesOut(d) ==
  /\ code[d].block # <<>>
  /\ \E r \in Visited(d) :
       \/ Home(r) = code[d].block
       \/ code[r].how = "loopCall" /\ Outside(code[r].block, OfLoop) < Len(code[d].block)
       \/ \E k \in Len(code[d].block) .. Len(code[r].block) :
            Branch(code[r].block, k) \in {"else"} \union OfLoop

LosesRead(d) ==
  Hidden(d) \/ FirstIsDeeper(d) \/ Braceless(d) \/ Unnoted(d) \/ OtherBranch(d) \/ LostInLoop(d)

\* has_v is tested outside of the block that the statement of a read is in.
TestedOutside(d, t) ==
  \E r \in Visited(d) :
    ~Inside(IF InHead(r) \/ Home(r) = <<>> THEN Home(r) ELSE Front(Home(r)), code[t].block)

-----------------------------------------------------------------------------
(* Properties *)

Written == Positions("read") \ gone

\* What reads a field in the source finds a declaration of its name in the
\* output, wherever fix_bs_field_decl moved it, but for the forms above.
ReadsDeclared ==
  phase = "done" =>
    \A r \in Written : code[r].how # "test" /\ ~LosesRead(DeclOf(r)) => Resolved(r) # {}

\* What it finds holds the same field: add_new_def_overwrite keeps the first
\* definition of a name, which matters only if one moves out of its block.
ReadsKeepField ==
  phase = "done" =>
    \A r \in Written :
      LET d == DeclOf(r)
          twin == { e \in Positions("decl") \ {d} : code[e].v = code[d].v /\ MovesOut(e) }
      IN code[r].how # "test" /\ ~LosesRead(d) /\ twin = {}
           => \A n \in Resolved(r) : code[n].f = code[d].f

\* A test of has_v comes behind the definition that sets it, unless a read
\* stands deeper than the branch of that test: is_has_value_in_bs_field_params
\* puts the definition one scope further out, not more.
TestsSeeDefinition ==
  phase = "done" =>
    \A t \in Written :
      LET d == DeclOf(t)
      IN code[t].how = "test" /\ ~LosesRead(d) /\ ~TestedOutside(d, t)
           => \/ d \notin gone
              \/ \E p \in placed : p.def.decl = d /\ Inside(p.block, code[t].block)

\* A definition is written deeper than its declaration stood: there it sees
\* has_v, and no other declaration of the name is in the block.
DefinitionsMoveIn ==
  phase = "done" =>
    \A p \in placed :
      LET d == p.def.decl
      IN ~MovesOut(d) => code[d].block # p.block /\ Inside(code[d].block, p.block)

=============================================================================
