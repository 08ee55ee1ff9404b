------------------------- MODULE MethodRewriteProofs -------------------------
(***************************************************************************)
(* Theorems about MethodRewrite, for every set of enums, names and          *)
(* constructs: what the rewritten method refers to is in scope, and no       *)
(* block of it declares a generated name twice.                             *)
(***************************************************************************)
EXTENDS MethodRewrite, EnvScopeProofs

-----------------------------------------------------------------------------
(* Whatever the writers do, the Envs make a step of EnvScope or none.        *)
LEMMA WritesAreSteps ==
  ASSUME [RewriteNext]_vars
  PROVE  [Next]_envVars
<1>1. CASE RewriteNext
  BY <1>1 DEF RewriteNext, Next, OpenIf, OpenElseIf, StartThen, CloseIf, OpenLoop,
       StartBody, CloseLoop, StartElse, LoopIs, ReadField, ReadListSize,
       ReadCommon, DeclareRead, KeepVar, DropVar, TestAction, PlaceRoot
<1>2. CASE UNCHANGED vars
  BY <1>2 DEF vars, envVars
<1>. QED
  BY <1>1, <1>2

(* So the rewriting of a method inherits what EnvScope guarantees: unique     *)
(* names, stable definitions, no definition in a common info loop.           *)
THEOREM RewritesInEnv == RewriteSpec => Spec
<1>1. RewriteInit => Init
  BY DEF RewriteInit
<1>2. [RewriteNext]_vars => [Next]_envVars
  BY WritesAreSteps
<1>. QED
  BY <1>1, <1>2, PTL DEF RewriteSpec, Spec
-----------------------------------------------------------------------------
(* The texts of the live scopes.                                             *)
Ident == (Name \cup {None}) \X {"var", "exists"}

ScopeText == [uses  : SUBSET (Enum \X Ident),
              decls : SUBSET Ident,
              src   : SUBSET SourceVar,
              tests : SUBSET ExistsEnum,
              body  : {"empty", "dropped", "kept"}]

TextType == text \in Seq(ScopeText) /\ Len(text) = Top

(* A reference to e from scope k inwards has the definition it names, unless  *)
(* a list size is read.                                                     *)
Refers(k, u) ==
  u[1] \in SizeEnum \/ (u[1] \in stack[k].keys /\ u[2] \in DefIdents(k, u[1]))

UsesOK == \A k \in 1 .. Top : \A u \in text[k].uses : Refers(k, u)

(* The names that NoRedefinition lets a block declare twice.                 *)
Excused(i) ==
  \/ i[1] \in SourceVar
  \/ \E e \in SizeEnum : \E n \in Starts(e) : i[1] = Suffix(e, n)

(* A generated name is declared in one block only, by a definition that is    *)
(* no longer live.                                                          *)
DeclsOK ==
  /\ \A k \in 1 .. Top : \A i \in text[k].decls :
       i[1] # NoName /\ (i[1] \in used \/ Excused(i))
  /\ \A j, k \in 1 .. Top : \A i \in text[j].decls \cap text[k].decls :
       j = k \/ Excused(i)
  /\ \A j, k \in 1 .. Top : \A e \in stack[k].keys :
       \A i \in text[j].decls \cap DefIdents(k, e) : Excused(i)

(* What a step may add to the references and declarations of the scopes that  *)
(* live on.                                                                 *)
WritesText == text' \in Seq(ScopeText) /\ Len(text') = Len(stack')

WritesUses ==
  \A k \in 1 .. Len(stack') : \A u \in text'[k].uses :
    (k <= Top /\ u \in text[k].uses) \/ Refers(k, u)'

WritesDecls ==
  \A k \in 1 .. Len(stack') : \A i \in text'[k].decls :
    (k <= Top /\ i \in text[k].decls) \/ (i[1] # NoName /\ Excused(i))
-----------------------------------------------------------------------------
(* What a definition declares.                                               *)
LEMMA IdentsOf ==
  ASSUME EnvInv, NEW k \in 1 .. Top, NEW e \in stack[k].keys,
         NEW i \in DefIdents(k, e)
  PROVE  /\ i \in Ident
         /\ e \in SizeEnum => Excused(i) \/ i[1] = NoName
         /\ e \notin SizeEnum => i[1] = stack[k].defs[e].name
<1> DEFINE d == stack[k].defs[e]
<1>1. TypeOK /\ GivenTo(e, d)
  BY DEF EnvInv, IInv, NamesGiven
<1>2. d \in Def
  BY <1>1, FrameOf
<1>3. \/ d.text # None /\ i = <<d.text, "var">>
      \/ d.exists # None /\ i = <<d.exists, "exists">>
  BY DEF DefIdents
<1>. HIDE DEF d
<1>4. i \in Ident /\ i[1] \in {d.text, d.exists} \ {None}
  BY <1>2, <1>3 DEF Ident, Def
<1>5. e \in SizeEnum => Excused(i) \/ i[1] = NoName
  BY <1>1, <1>4 DEF GivenTo, Given, Excused
<1>6. e \notin SizeEnum => SettledDef(e, d)
  BY DEF EnvInv, Settled, d
<1>. QED
  BY <1>3, <1>4, <1>5, <1>6 DEF SettledDef, d

(* Two definitions declare different names, but for those excused.           *)
LEMMA IdentsApart ==
  ASSUME EnvInv, NEW j \in 1 .. Top, NEW k \in 1 .. Top,
         NEW d \in stack[j].keys, NEW e \in stack[k].keys, ~(j = k /\ d = e),
         NEW i \in DefIdents(j, d) \cap DefIdents(k, e)
  PROVE  Excused(i) \/ i[1] = NoName
<1>1. CASE d \in SizeEnum \/ e \in SizeEnum
  BY <1>1, IdentsOf
<1>2. CASE d \notin SizeEnum /\ e \notin SizeEnum
  <2>1. i[1] = stack[j].defs[d].name /\ i[1] = stack[k].defs[e].name
    BY <1>2, IdentsOf
  <2>2. /\ stack[j].defs[d].name = stack[k].defs[e].name
        /\ stack[j].defs[d].name \notin SourceVar \cup {NoName} => j = k /\ d = e
    <3>1. UniqueNames
      BY DEF EnvInv, IInv
    <3>2. stack[j].defs[d].name = stack[k].defs[e].name
      BY <2>1
    <3>. QED
      BY <3>1, <3>2 DEF UniqueNames
  <2>3. i[1] \in SourceVar \cup {NoName}
    BY <2>1, <2>2
  <2>. QED
    BY <2>3 DEF Excused
<1>. QED
  BY <1>1, <1>2

(* References that were in scope still are, and declarations stay apart from  *)
(* the definitions that live on and from new ones.                          *)
LEMMA UsesKept ==
  ASSUME EnvInv, EnvInv', Adds, UsesOK, WritesText, WritesUses
  PROVE  UsesOK'
<1>1. SUFFICES ASSUME NEW k \in 1 .. Len(stack'), NEW u \in text'[k].uses,
                      k <= Top, u \in text[k].uses
               PROVE  Refers(k, u)'
  BY DEF UsesOK, WritesUses, Top
<1>2. k \in 1 .. Top
  BY <1>1 DEF EnvInv, IInv, TypeOK, Top
<1>3. Refers(k, u)
  BY <1>1, <1>2 DEF UsesOK
<1>4. CASE u[1] \in stack[k].keys \ SizeEnum
  <2>1. u[1] \in stack'[k].keys /\ stack'[k].defs[u[1]] = stack[k].defs[u[1]]
    BY <1>1, <1>2, <1>4 DEF Adds
  <2>2. DefIdents(k, u[1])' = DefIdents(k, u[1])
    BY <2>1 DEF DefIdents
  <2>. QED
    BY <1>3, <1>4, <2>1, <2>2 DEF Refers
<1>. QED
  BY <1>3, <1>4 DEF Refers

LEMMA IdentsOfAfter ==
  ASSUME EnvInv', NEW k \in 1 .. Len(stack'), NEW e \in stack'[k].keys,
         NEW i \in DefIdents(k, e)'
  PROVE  /\ i \in Ident
         /\ e \in SizeEnum => Excused(i) \/ i[1] = NoName
         /\ e \notin SizeEnum => i[1] = stack'[k].defs[e].name
<1> DEFINE d == stack'[k].defs[e]
<1>1. GivenTo(e, d)
  BY DEF EnvInv, IInv, NamesGiven, Top, GivenTo
<1>2. d \in Def
  <2>1. stack'[k] \in Frame
    BY ElementOfSeq DEF EnvInv, IInv, TypeOK
  <2>2. stack'[k].defs \in [Enum -> Def] /\ e \in Enum
    BY <2>1 DEF Frame
  <2>. QED
    BY <2>2
<1>3. \/ d.text # None /\ i = <<d.text, "var">>
      \/ d.exists # None /\ i = <<d.exists, "exists">>
  BY DEF DefIdents
<1>6. e \notin SizeEnum => SettledDef(e, d)
  BY DEF EnvInv, Settled, SettledDef, Top
<1>. HIDE DEF d
<1>4. i \in Ident /\ i[1] \in {d.text, d.exists} \ {None}
  BY <1>2, <1>3 DEF Ident, Def
<1>5. e \in SizeEnum => Excused(i) \/ i[1] = NoName
  BY <1>1, <1>4 DEF GivenTo, Given, Excused
<1>. QED
  BY <1>3, <1>4, <1>5, <1>6 DEF SettledDef, d

(* What a definition declares after the step, it declared before, or it is    *)
(* new and so is its name, or excused.                                      *)
LEMMA IdentsAdded ==
  ASSUME EnvInv, EnvInv', Adds, NEW k \in 1 .. Len(stack'),
         NEW e \in stack'[k].keys, NEW i \in DefIdents(k, e)', i[1] # NoName
  PROVE  \/ Excused(i)
         \/ k \in 1 .. Top /\ e \in stack[k].keys /\ i \in DefIdents(k, e)
         \/ i[1] \notin used
<1>1. CASE e \in SizeEnum
  BY <1>1, IdentsOfAfter
<1>2. CASE e \notin SizeEnum
  <2>1. i[1] = stack'[k].defs[e].name
    BY <1>2, IdentsOfAfter
  <2>2. CASE k <= Top /\ e \in stack[k].keys /\ stack'[k].defs[e] = stack[k].defs[e]
    <3>1. DefIdents(k, e)' = DefIdents(k, e)
      BY <2>2 DEF DefIdents
    <3>2. k \in 1 .. Top
      BY <2>2 DEF EnvInv, IInv, TypeOK, Top
    <3>. QED
      BY <2>2, <3>1, <3>2
  <2>3. CASE stack'[k].defs[e].name \notin used \ (SourceVar \cup {NoName})
    BY <2>1, <2>3 DEF Excused
  <2>. QED
    BY <1>2, <2>2, <2>3 DEF Adds
<1>. QED
  BY <1>1, <1>2

LEMMA DeclsKept ==
  ASSUME EnvInv, EnvInv', Adds, DeclsOK, WritesText, WritesDecls
  PROVE  DeclsOK'
<1>1. Top \in Nat /\ Top' = Len(stack') /\ Top' \in Nat /\ used \subseteq used'
  BY DEF EnvInv, IInv, TypeOK, Top, Adds
<1>2. ASSUME NEW k \in 1 .. Top', NEW i \in text'[k].decls, ~Excused(i)
      PROVE  k \in 1 .. Top /\ i \in text[k].decls
  BY <1>1, <1>2 DEF WritesDecls
<1>3. ASSUME NEW k \in 1 .. Top', NEW i \in text'[k].decls
      PROVE  i[1] # NoName /\ (i[1] \in used' \/ Excused(i))
  <2>1. CASE k <= Top /\ i \in text[k].decls
    <3>1. k \in 1 .. Top
      BY <1>1, <2>1
    <3>. QED
      BY <1>1, <2>1, <3>1 DEF DeclsOK
  <2>2. CASE i[1] # NoName /\ Excused(i)
    BY <2>2
  <2>. QED
    BY <1>1, <2>1, <2>2 DEF WritesDecls
<1>4. ASSUME NEW j \in 1 .. Top', NEW k \in 1 .. Top', j # k,
             NEW i \in text'[j].decls \cap text'[k].decls
      PROVE  Excused(i)
  BY <1>2, <1>4 DEF DeclsOK
<1>5. ASSUME NEW j \in 1 .. Top', NEW k \in 1 .. Top', NEW e \in stack'[k].keys,
             NEW i \in text'[j].decls \cap DefIdents(k, e)', ~Excused(i)
      PROVE  FALSE
  <2>1. j \in 1 .. Top /\ i \in text[j].decls /\ i[1] # NoName
    BY <1>2, <1>3, <1>5
  <2>2. i[1] \in used
    BY <1>5, <2>1 DEF DeclsOK
  <2>3. k \in 1 .. Top /\ e \in stack[k].keys /\ i \in DefIdents(k, e)
    BY <1>1, <1>5, <2>1, <2>2, IdentsAdded
  <2>. QED
    BY <1>5, <2>1, <2>3 DEF DeclsOK
<1>. QED
  BY <1>3, <1>4, <1>5 DEF DeclsOK, Excused
-----------------------------------------------------------------------------
(* What the writers do to the texts.                                         *)
Writes == WritesText /\ WritesUses /\ WritesDecls

LEMMA TextOf ==
  ASSUME EnvInv, TextType
  PROVE  /\ Top \in Nat /\ Top = Len(stack) /\ Len(text) = Top
         /\ Len(stack') = Top' /\ text \in Seq(ScopeText)
         /\ Top > 0 => Top \in 1 .. Top
         /\ \A k \in 1 .. Top : text[k] \in ScopeText
<1>1. Top \in Nat /\ text \in Seq(ScopeText) /\ Len(text) = Top
  BY DEF EnvInv, IInv, TypeOK, Top, TextType
<1>2. \A k \in 1 .. Top : text[k] \in ScopeText
  BY <1>1, ElementOfSeq
<1>. QED
  BY <1>1, <1>2 DEF Top

(* A text of scope Top that is replaced.                                     *)
LEMMA EditForm ==
  ASSUME EnvInv, TextType, Top > 0, NEW s \in Seq(ScopeText), Len(s) = Top,
         NEW r \in ScopeText, NEW t, t = [s EXCEPT ![Top] = r]
  PROVE  /\ t \in Seq(ScopeText) /\ Len(t) = Top
         /\ \A i \in 1 .. Top : t[i] = IF i = Top THEN r ELSE s[i]
BY TextOf, ExceptSeq

(* The references, declarations and tests of a text.                         *)
SameText(t, i) ==
  t[i].uses = text[i].uses /\ t[i].decls = text[i].decls
  /\ t[i].tests = text[i].tests

LEMMA StatementForm ==
  ASSUME EnvInv, TextType, Top > 0
  PROVE  /\ Statement \in Seq(ScopeText) /\ Len(Statement) = Top
         /\ \A i \in 1 .. Top : SameText(Statement, i)
<1> DEFINE r == [text[Top] EXCEPT !.body = Body("kept")]
<1>1. text[Top] \in ScopeText
  BY TextOf
<1>2. r \in ScopeText /\ r.uses = text[Top].uses /\ r.decls = text[Top].decls
      /\ r.tests = text[Top].tests
  BY <1>1 DEF ScopeText, Body
<1>3. Statement = [text EXCEPT ![Top] = r]
  BY DEF Statement
<1>. HIDE DEF r
<1>4. /\ Statement \in Seq(ScopeText) /\ Len(Statement) = Top
      /\ \A i \in 1 .. Top : Statement[i] = IF i = Top THEN r ELSE text[i]
  BY <1>2, <1>3, EditForm, TextOf
<1>. QED
  BY <1>2, <1>4 DEF SameText

(* A declaration of the method in scope Top.                                 *)
LEMMA DeclareForm ==
  ASSUME EnvInv, TextType, Top > 0, NEW v \in SourceVar,
         NEW K \in SUBSET {<<v, "var">>}, NEW t,
         t = [Statement EXCEPT ![Top].decls = @ \cup K, ![Top].src = @ \cup {v}]
  PROVE  /\ t \in Seq(ScopeText) /\ Len(t) = Top
         /\ \A i \in 1 .. Top :
              /\ t[i].uses = text[i].uses
              /\ \A c \in t[i].decls :
                   c \in text[i].decls \/ (c[1] # NoName /\ Excused(c))
<1> DEFINE o == Statement[Top]
           r == [o EXCEPT !.decls = @ \cup K, !.src = @ \cup {v}]
<1>1. /\ Statement \in Seq(ScopeText) /\ Len(Statement) = Top /\ Top \in 1 .. Top
      /\ \A i \in 1 .. Top : SameText(Statement, i)
  BY StatementForm, TextOf
<1>2. o \in ScopeText
  BY <1>1, ElementOfSeq
<1>3. K \subseteq Ident /\ v \in Name \ {NoName}
  BY NamesAssumption DEF Ident
<1>4. t = [Statement EXCEPT ![Top] = r]
  OBVIOUS
<1>. HIDE DEF o
<1>5. r \in ScopeText /\ r.uses = o.uses /\ r.decls = o.decls \cup K
  BY <1>2, <1>3 DEF ScopeText
<1>. HIDE DEF r
<1>6. /\ t \in Seq(ScopeText) /\ Len(t) = Top
      /\ \A i \in 1 .. Top : t[i] = IF i = Top THEN r ELSE Statement[i]
  <2> DEFINE q == [Statement EXCEPT ![Top] = r]
  <2>1. /\ q \in Seq(ScopeText) /\ Len(q) = Len(Statement)
        /\ \A i \in 1 .. Len(Statement) : q[i] = IF i = Top THEN r ELSE Statement[i]
    BY <1>1, <1>5, ExceptSeq
  <2>. QED
    BY <1>1, <1>4, <2>1
<1>7. \A c \in K : c[1] # NoName /\ Excused(c)
  BY <1>3 DEF Excused
<1>8. ASSUME NEW i \in 1 .. Top
      PROVE  /\ t[i].uses = text[i].uses
             /\ \A c \in t[i].decls :
                  c \in text[i].decls \/ (c[1] # NoName /\ Excused(c))
  <2>1. Statement[i].uses = text[i].uses /\ Statement[i].decls = text[i].decls
    BY <1>1 DEF SameText
  <2>2. CASE i = Top
    <3>1. t[i] = r
      BY <1>6, <2>2
    <3>. QED
      BY <1>5, <1>7, <2>1, <2>2, <3>1 DEF o
  <2>3. CASE i # Top
    BY <1>6, <2>1, <2>3
  <2>. QED
    BY <2>2, <2>3
<1>. QED
  BY <1>6, <1>8

(* A parsed expression is replaced with a reference.                         *)
LEMMA ReferenceForm ==
  ASSUME SizesApart, EnvInv', Top' = Top, Top \in Nat, NEW e \in Enum,
         e \in SizeEnum \/ e \notin ExistsEnum, Sees(e),
         NEW t \in Seq(ScopeText), Len(t) = Top, text' = Reference(t, e)
  PROVE  /\ text' \in Seq(ScopeText) /\ Len(text') = Top
         /\ \A i \in 1 .. Top :
              /\ text'[i].decls = t[i].decls
              /\ \A u \in text'[i].uses : u \in t[i].uses \/ Refers(i, u)'
<1>0. PICK k \in 1 .. Top :
        /\ k = Find(e, Top)' /\ e \in stack'[k].keys
        /\ NameFrom(e, Top)' = stack'[k].defs[e].name /\ stack'[k].defs[e] \in Def
  BY DEF Sees, Top
<1>1. PICK n \in Name : n = NameFrom(e, Top)' /\ n = stack'[k].defs[e].name
  BY <1>0 DEF Def
<1> DEFINE use == <<e, <<n, "var">>>>
           r == [t[k] EXCEPT !.uses = @ \cup {use}]
<1>2. use \in Enum \X Ident
  BY DEF Ident
<1>3. Refers(k, use)'
  <2>1. CASE e \in SizeEnum
    BY <2>1 DEF Refers
  <2>2. CASE e \notin SizeEnum
    <3>1. stack'[k].defs[e].text = n /\ n # None
      BY <1>0, <1>1, <2>2, ScopeAssumption DEF EnvInv, Settled, SettledDef
    <3>2. <<n, "var">> \in DefIdents(k, e)'
      BY <3>1 DEF DefIdents
    <3>. QED
      BY <1>0, <3>2 DEF Refers
  <2>. QED
    BY <2>1, <2>2
<1>4. text' = [t EXCEPT ![k] = r]
  BY <1>0, <1>1 DEF Reference
<1>. HIDE DEF use
<1>5. t[k] \in ScopeText
  BY ElementOfSeq
<1>6. r \in ScopeText /\ r.uses = t[k].uses \cup {use} /\ r.decls = t[k].decls
  BY <1>2, <1>5 DEF ScopeText
<1>. HIDE DEF r
<1>7. /\ text' \in Seq(ScopeText) /\ Len(text') = Len(t)
      /\ \A i \in 1 .. Len(t) : text'[i] = IF i = k THEN r ELSE t[i]
  BY <1>4, <1>6, ExceptSeq
<1>8. ASSUME NEW i \in 1 .. Top, NEW u \in text'[i].uses
      PROVE  u \in t[i].uses \/ Refers(i, u)'
  <2>1. u \in t[i].uses \/ (i = k /\ u = use)
    BY <1>6, <1>7
  <2>2. ASSUME i = k, u = use PROVE Refers(i, u)'
    BY <1>3, <2>2 DEF Refers, DefIdents
  <2>. QED
    BY <2>1, <2>2
<1>. QED
  BY <1>6, <1>7, <1>8

(* A scope opens, with an empty text.                                        *)
LEMMA AppendForm ==
  ASSUME EnvInv, TextType, NEW t \in Seq(ScopeText), Len(t) = Top,
         \A i \in 1 .. Top : SameText(t, i), text' = Append(t, NewText),
         Len(stack') = Top + 1
  PROVE  Writes
<1>1. NewText \in ScopeText /\ NewText.uses = {} /\ NewText.decls = {}
  BY DEF NewText, ScopeText
<1>2. Top \in Nat
  BY TextOf
<1>3. /\ text' \in Seq(ScopeText) /\ Len(text') = Top + 1
      /\ \A i \in 1 .. Top : text'[i] = t[i]
      /\ text'[Top + 1] = NewText
  BY <1>1, AppendProperties
<1>4. \A i \in 1 .. Top + 1 : i = Top + 1 \/ (i \in 1 .. Top /\ i <= Top)
  BY <1>2
<1>. QED
  BY <1>1, <1>3, <1>4 DEF Writes, WritesText, WritesUses, WritesDecls, SameText
-----------------------------------------------------------------------------
(* The steps that close no scope.                                            *)
OnlyWrites ==
  /\ Writes /\ Top > 0
  /\ UNCHANGED <<broken, dangling>>
  /\ \A i \in clash' : i \in clash \/ Excused(i)

(* No reference is added, and only declarations of the method.               *)
LEMMA LessWrites ==
  ASSUME EnvInv, TextType, text' \in Seq(ScopeText), Len(text') = Top,
         Len(stack') = Top,
         \A i \in 1 .. Top :
           /\ text'[i].uses \subseteq text[i].uses
           /\ \A c \in text'[i].decls :
                c \in text[i].decls \/ (c[1] # NoName /\ Excused(c))
  PROVE  Writes
<1>1. Top \in Nat
  BY TextOf
<1>. QED
  BY <1>1 DEF Writes, WritesText, WritesUses, WritesDecls

LEMMA ReadWrites ==
  ASSUME SizesApart, EnvInv, EnvInv', TextType, NEW e \in Enum,
         e \in SizeEnum \/ e \notin ExistsEnum,
         RefField(e) \/ RefListSize(e) \/ RefCommon(e)
         \/ \E v \in SourceVar : DeclareField(v, e),
         NEW t \in Seq(ScopeText), Len(t) = Top, text' = Reference(t, e),
         \A i \in 1 .. Top :
           /\ t[i].uses = text[i].uses
           /\ \A c \in t[i].decls :
                c \in text[i].decls \/ (c[1] # NoName /\ Excused(c))
  PROVE  Writes
<1>1. Sees(e) /\ Len(stack') = Top
  BY ReadSees DEF EnvInv
<1>2. Top \in Nat /\ Top' = Top
  BY <1>1, TextOf
<1>3. /\ text' \in Seq(ScopeText) /\ Len(text') = Top
      /\ \A i \in 1 .. Top :
           /\ text'[i].decls = t[i].decls
           /\ \A u \in text'[i].uses : u \in t[i].uses \/ Refers(i, u)'
  BY <1>1, <1>2, ReferenceForm
<1>4. WritesUses
  BY <1>1, <1>2, <1>3 DEF WritesUses
<1>5. WritesDecls
  BY <1>1, <1>2, <1>3 DEF WritesDecls
<1>. QED
  BY <1>1, <1>3, <1>4, <1>5 DEF Writes, WritesText

LEMMA ReadOnlyWrites ==
  ASSUME SizesApart, EnvInv, EnvInv', TextType, NEW e \in Enum,
         \/ e \in FieldEnum /\ ReadField(e)
         \/ e \in SizeEnum /\ ReadListSize(e)
         \/ e \in CommonEnum /\ ReadCommon(e)
  PROVE  OnlyWrites
<1>1. e \in SizeEnum \/ e \notin ExistsEnum
  BY DEF SizesApart
<1>2. RefField(e) \/ RefListSize(e) \/ RefCommon(e)
  BY DEF ReadField, ReadListSize, ReadCommon
<1>3. Top > 0
  BY <1>2 DEF RefField, RefListSize, RefCommon, InExpression, InStatements
<1>4. text' = Reference(Statement, e) /\ Unwritten
  BY DEF ReadField, ReadListSize, ReadCommon, Read
<1>5. /\ Statement \in Seq(ScopeText) /\ Len(Statement) = Top
      /\ \A i \in 1 .. Top : Statement[i].uses = text[i].uses
                              /\ Statement[i].decls = text[i].decls
  BY <1>3, StatementForm DEF SameText
<1>6. Writes
  BY <1>1, <1>2, <1>4, <1>5, ReadWrites
<1>. QED
  BY <1>3, <1>4, <1>6 DEF OnlyWrites, Unwritten

LEMMA DeclareReadOnlyWrites ==
  ASSUME SizesApart, EnvInv, EnvInv', TextType, NEW e \in FieldEnum,
         NEW v \in SourceVar, DeclareRead(v, e)
  PROVE  OnlyWrites
<1>1. e \in Enum /\ (e \in SizeEnum \/ e \notin ExistsEnum) /\ DeclareField(v, e)
  BY ScopeAssumption DEF SizesApart, DeclareRead
<1>2. Top > 0
  BY <1>1 DEF DeclareField, InStatements
<1>3. PICK K \in SUBSET {<<v, "var">>} :
        /\ clash' = clash \cup (K \cap text[Top].decls)
        /\ text' = Reference([Statement EXCEPT ![Top].decls = @ \cup K,
                                               ![Top].src = @ \cup {v}], e)
  <2>1. PICK K : /\ K = IF NameFrom(e, Top)' = v THEN {} ELSE {<<v, "var">>}
                 /\ clash' = clash \cup (K \cap text[Top].decls)
                 /\ text' = Reference([Statement EXCEPT ![Top].decls = @ \cup K,
                                                        ![Top].src = @ \cup {v}], e)
    BY DEF DeclareRead
  <2>. QED
    BY <2>1
<1> DEFINE t == [Statement EXCEPT ![Top].decls = @ \cup K, ![Top].src = @ \cup {v}]
<1>4. /\ t \in Seq(ScopeText) /\ Len(t) = Top
      /\ \A i \in 1 .. Top :
           /\ t[i].uses = text[i].uses
           /\ \A c \in t[i].decls :
                c \in text[i].decls \/ (c[1] # NoName /\ Excused(c))
  BY <1>2, DeclareForm
<1>5. text' = Reference(t, e)
  BY <1>3
<1>. HIDE DEF t
<1>6. Writes
  BY <1>1, <1>4, <1>5, ReadWrites
<1>7. \A i \in clash' : i \in clash \/ Excused(i)
  BY <1>3 DEF Excused
<1>. QED
  BY <1>2, <1>6, <1>7 DEF OnlyWrites, DeclareRead

LEMMA KeepVarOnlyWrites ==
  ASSUME EnvInv, TextType, NEW v \in SourceVar, KeepVar(v)
  PROVE  OnlyWrites
<1>1. Top > 0 /\ stack' = stack
  BY DEF KeepVar, DeclareVar, InStatements
<1> DEFINE K == {<<v, "var">>}
           t == [Statement EXCEPT ![Top].decls = @ \cup K, ![Top].src = @ \cup {v}]
<1>2. text' = t
  BY DEF KeepVar
<1>3. K \in SUBSET {<<v, "var">>}
  OBVIOUS
<1>. HIDE DEF K
<1>4. /\ t \in Seq(ScopeText) /\ Len(t) = Top
      /\ \A i \in 1 .. Top :
           /\ t[i].uses = text[i].uses
           /\ \A c \in t[i].decls :
                c \in text[i].decls \/ (c[1] # NoName /\ Excused(c))
  BY <1>1, <1>3, DeclareForm
<1>. HIDE DEF t
<1>5. Writes
  BY <1>1, <1>2, <1>4, LessWrites, TextOf
<1>6. \A i \in clash' : i \in clash \/ Excused(i)
  <2>1. clash' = clash \cup ({<<v, "var">>} \cap text[Top].decls)
    BY DEF KeepVar
  <2>. QED
    BY <2>1 DEF Excused
<1>. QED
  BY <1>1, <1>5, <1>6 DEF OnlyWrites, KeepVar

(* A text that is edited without a reference or a declaration.               *)
LEMMA EditOnlyWrites ==
  ASSUME EnvInv, TextType, Top > 0, Len(stack') = Top, Unwritten,
         NEW r \in ScopeText, r.uses = text[Top].uses,
         r.decls \subseteq text[Top].decls, text' = [text EXCEPT ![Top] = r]
  PROVE  OnlyWrites
<1>1. /\ text' \in Seq(ScopeText) /\ Len(text') = Top
      /\ \A i \in 1 .. Top : text'[i] = IF i = Top THEN r ELSE text[i]
  BY EditForm, TextOf
<1>2. ASSUME NEW i \in 1 .. Top
      PROVE  text'[i].uses = text[i].uses /\ text'[i].decls \subseteq text[i].decls
  BY <1>1
<1>3. Writes
  BY <1>1, <1>2, LessWrites
<1>. QED
  BY <1>3 DEF OnlyWrites, Unwritten

LEMMA EditsOnlyWrite ==
  ASSUME EnvInv, TextType,
         \/ \E v \in SourceVar : DropVar(v)
         \/ \E e \in ExistsEnum : TestAction(e)
         \/ \E s \in {"ELSE", "ELSEIF"} : StartElse(s)
  PROVE  OnlyWrites
<1>0. Top > 0 /\ Unwritten /\ Len(stack') = Top
  <2>1. ASSUME NEW v \in SourceVar, DropVar(v)
        PROVE  Top > 0 /\ Unwritten /\ Len(stack') = Top
    BY <2>1, TextOf DEF DropVar, DeclareVar, InStatements
  <2>2. ASSUME NEW e \in ExistsEnum, TestAction(e)
        PROVE  Top > 0 /\ Unwritten /\ Len(stack') = Top
    BY <2>2, TestKeepsTop DEF TestAction
  <2>3. ASSUME NEW s \in {"ELSE", "ELSEIF"}, StartElse(s)
        PROVE  Top > 0 /\ Unwritten /\ Len(stack') = Top
    <3>1. Enters(s)
      BY <2>3, StageForm DEF EnvInv, IInv, StartElse, EnterElse
    <3>. QED
      BY <2>3, <3>1 DEF StartElse, EnterElse, Enters
  <2>. QED
    BY <2>1, <2>2, <2>3
<1>1. text[Top] \in ScopeText
  BY <1>0, TextOf
<1>2. ASSUME NEW v \in SourceVar, DropVar(v) PROVE OnlyWrites
  <2> DEFINE r == [text[Top] EXCEPT !.src = @ \cup {v}, !.body = Body("dropped")]
  <2>1. r \in ScopeText /\ r.uses = text[Top].uses /\ r.decls = text[Top].decls
    BY <1>1 DEF ScopeText, Body
  <2>2. text' = [text EXCEPT ![Top] = r]
    BY <1>2 DEF DropVar
  <2>. HIDE DEF r
  <2>. QED
    BY <1>0, <2>1, <2>2, EditOnlyWrites
<1>3. ASSUME NEW e \in ExistsEnum, TestAction(e) PROVE OnlyWrites
  <2> DEFINE r == [text[Top] EXCEPT !.tests = {e}]
  <2>1. r \in ScopeText /\ r.uses = text[Top].uses /\ r.decls = text[Top].decls
    BY <1>1 DEF ScopeText
  <2>2. text' = [text EXCEPT ![Top] = r]
    BY <1>3 DEF TestAction
  <2>. HIDE DEF r
  <2>. QED
    BY <1>0, <2>1, <2>2, EditOnlyWrites
<1>4. ASSUME NEW s \in {"ELSE", "ELSEIF"}, StartElse(s) PROVE OnlyWrites
  <2> DEFINE r == [text[Top] EXCEPT !.decls = {}, !.src = {}]
  <2>1. r \in ScopeText /\ r.uses = text[Top].uses /\ r.decls = {}
    BY <1>1 DEF ScopeText
  <2>2. text' = [text EXCEPT ![Top] = r]
    BY <1>4 DEF StartElse
  <2>. HIDE DEF r
  <2>. QED
    BY <1>0, <2>1, <2>2, EditOnlyWrites
<1>. QED
  BY <1>2, <1>3, <1>4

(* Opening a statement, or going on to its next part.                        *)
LEMMA StatementsOnlyWrite ==
  ASSUME EnvInv, TextType,
         \/ \E test \in ItemPosTests : OpenIf(test)
         \/ OpenElseIf \/ OpenLoop \/ StartThen \/ StartBody
         \/ \E m \in LoopMarks : LoopIs(m)
  PROVE  OnlyWrites
<1>1. TypeOK
  BY DEF EnvInv, IInv
<1>2. CASE (\E test \in ItemPosTests : OpenIf(test)) \/ OpenElseIf \/ OpenLoop
  <2>1. (\E test \in ItemPosTests : EnterIf(test)) \/ EnterElseIf \/ EnterLoop
    BY <1>2 DEF OpenIf, OpenElseIf, OpenLoop
  <2>2. Top > 0 /\ Len(stack') = Top + 1
    BY <1>1, <2>1, EnterForm DEF Opens
  <2>3. PICK t \in {Statement, text} :
          text' = Append(t, NewText) /\ UNCHANGED <<broken, clash, dangling>>
    BY <1>2 DEF OpenIf, OpenElseIf, OpenLoop, Unwritten
  <2>4. t \in Seq(ScopeText) /\ Len(t) = Top /\ \A i \in 1 .. Top : SameText(t, i)
    BY <2>2, <2>3, StatementForm, TextOf DEF SameText
  <2>5. Writes
    BY <2>2, <2>3, <2>4, AppendForm
  <2>. QED
    BY <2>2, <2>3, <2>5 DEF OnlyWrites
<1>3. CASE StartThen \/ StartBody \/ \E m \in LoopMarks : LoopIs(m)
  <2>1. Top > 0 /\ Unwritten /\ text' = text
    BY <1>3 DEF StartThen, StartBody, LoopIs, EnterThen, EnterBody, MarkLoop
  <2>2. CASE StartThen
    <3>1. Enters("THEN")
      BY <1>1, <2>2, StageForm DEF StartThen, EnterThen
    <3>. QED
      BY <2>1, <3>1, LessWrites, TextOf DEF Enters, OnlyWrites, Unwritten
  <2>3. CASE StartBody
    <3>1. Enters("BODY")
      BY <1>1, <2>3, StageForm DEF StartBody, EnterBody
    <3>. QED
      BY <2>1, <3>1, LessWrites, TextOf DEF Enters, OnlyWrites, Unwritten
  <2>4. ASSUME NEW m \in LoopMarks, LoopIs(m) PROVE OnlyWrites
    <3>1. Marks(m)
      BY <1>1, <2>4, MarkForm DEF LoopIs
    <3>. QED
      BY <2>1, <3>1, LessWrites, TextOf DEF Marks, OnlyWrites, Unwritten
  <2>. QED
    BY <1>3, <2>2, <2>3, <2>4
<1>. QED
  BY <1>2, <1>3
-----------------------------------------------------------------------------
(* The steps that close a scope.                                             *)

(* The iterator tests of an if are references to definitions in scope.       *)
LEMMA TestsForm ==
  ASSUME EnvInv, TextType, UsesOK, Top > 0
  PROVE  /\ TestsWritten \in Seq(ScopeText) /\ Len(TestsWritten) = Top
         /\ \A k \in 1 .. Top :
              /\ TestsWritten[k].decls = text[k].decls
              /\ \A u \in TestsWritten[k].uses : Refers(k, u)
<1> DEFINE found(k) == {d \in text[Top].tests : Find(d, Top) = k}
           new(k) == {<<e, <<stack[k].defs[e].exists, "exists">>>> : e \in found(k)}
           f(k) == [text[k] EXCEPT !.uses = @ \cup new(k)]
<1>0. TypeOK /\ Top \in Nat /\ Top \in 1 .. Top
  BY TextOf DEF EnvInv, IInv
<1>1. \A e \in text[Top].tests : e \in ExistsEnum /\ e \in Enum
  BY <1>0, TextOf, ScopeAssumption DEF ScopeText
<1>2. ASSUME NEW k \in 1 .. Top, NEW u \in new(k)
      PROVE  u \in Enum \X Ident /\ Refers(k, u)
  <2>1. PICK e \in text[Top].tests :
          Find(e, Top) = k /\ u = <<e, <<stack[k].defs[e].exists, "exists">>>>
    BY <1>2
  <2>2. e \in ExistsEnum /\ e \in Enum
    BY <1>1
  <2>3. e \in stack[k].keys /\ stack[k].defs[e] \in Def
    BY <1>0, <2>1, <2>2, FoundDef
  <2>4. u \in Enum \X Ident
    BY <2>1, <2>2, <2>3 DEF Def, Ident
  <2>5. ASSUME e \notin SizeEnum
        PROVE  <<stack[k].defs[e].exists, "exists">> \in DefIdents(k, e)
    <3>1. SettledDef(e, stack[k].defs[e])
      BY <2>3, <2>5 DEF EnvInv, Settled
    <3>2. stack[k].defs[e].exists # None
      BY <2>2, <2>3, <3>1, ScopeAssumption DEF SettledDef, Def
    <3>. QED
      BY <3>2 DEF DefIdents
  <2>. QED
    BY <2>1, <2>3, <2>4, <2>5 DEF Refers
<1>3. TestsWritten = [k \in 1 .. Top |-> f(k)]
  BY DEF TestsWritten
<1>4. ASSUME NEW k \in 1 .. Top
      PROVE  /\ f(k) \in ScopeText /\ f(k).decls = text[k].decls
             /\ \A u \in f(k).uses : Refers(k, u)
  <2>1. text[k] \in ScopeText
    BY TextOf
  <2>2. new(k) \subseteq Enum \X Ident
    BY <1>2
  <2>. HIDE DEF new
  <2>3. f(k) \in ScopeText /\ f(k).decls = text[k].decls
        /\ f(k).uses = text[k].uses \cup new(k)
    BY <2>1, <2>2 DEF ScopeText
  <2>. QED
    BY <1>2, <2>3 DEF UsesOK
<1>. HIDE DEF f
<1>5. TestsWritten \in Seq(ScopeText)
  BY <1>0, <1>3, <1>4, IsASeq
<1>6. Len(TestsWritten) = Top /\ \A k \in 1 .. Top : TestsWritten[k] = f(k)
  BY <1>0, <1>3
<1>. QED
  BY <1>4, <1>5, <1>6

(* What a scope leaves in the block around it.                               *)
LEMMA ClosedForm ==
  ASSUME Top \in Nat, Top > 1, NEW t \in Seq(ScopeText), Len(t) = Top,
         NEW ids \in SUBSET Ident
  PROVE  /\ Closed(t, ids) \in Seq(ScopeText) /\ Len(Closed(t, ids)) = Top - 1
         /\ \A k \in 1 .. Top - 1 :
              /\ Closed(t, ids)[k].uses = t[k].uses
              /\ Closed(t, ids)[k].decls
                   = IF k = Top - 1 THEN t[k].decls \cup ids ELSE t[k].decls
<1> DEFINE f(k) == IF k = Top - 1 THEN [t[k] EXCEPT !.decls = @ \cup ids] ELSE t[k]
<1>1. ASSUME NEW k \in 1 .. Top - 1
      PROVE  /\ f(k) \in ScopeText /\ f(k).uses = t[k].uses
             /\ f(k).decls = IF k = Top - 1 THEN t[k].decls \cup ids ELSE t[k].decls
  <2>1. t[k] \in ScopeText
    BY ElementOfSeq
  <2>. QED
    BY <2>1 DEF ScopeText
<1>2. Closed(t, ids) = [k \in 1 .. Top - 1 |-> f(k)]
  BY DEF Closed
<1>3. Top - 1 \in Nat
  OBVIOUS
<1>. HIDE DEF f
<1>4. Closed(t, ids) \in Seq(ScopeText)
  <2>1. \A k \in 1 .. Top - 1 : f(k) \in ScopeText
    BY <1>1
  <2>2. [k \in 1 .. Top - 1 |-> f(k)] \in Seq(ScopeText)
    BY <1>3, <2>1, IsASeq
  <2>. QED
    BY <1>2, <2>2
<1>5. Len(Closed(t, ids)) = Top - 1
      /\ \A k \in 1 .. Top - 1 : Closed(t, ids)[k] = f(k)
  BY <1>2, <1>3
<1>. QED
  BY <1>1, <1>4, <1>5

(* What a scope defined or declared is apart from what is outside of it.      *)
LEMMA WrittenApart ==
  ASSUME EnvInv, TextType, DeclsOK, Top > 0,
         NEW i \in Named(NewDefs(Top)) \cup text[Top].decls
  PROVE  /\ i \in Ident /\ i[1] # NoName /\ (i[1] \in used \/ Excused(i))
         /\ \A j \in 1 .. Top - 1 : i \in text[j].decls => Excused(i)
         /\ \A k \in 1 .. Top - 1 : \A e \in stack[k].keys :
              i \in DefIdents(k, e) => Excused(i)
<1>1. Top \in 1 .. Top /\ Top \in Nat
      /\ \A j \in 1 .. Top - 1 : j \in 1 .. Top /\ j # Top
  BY TextOf
<1>2. CASE i \in Named(NewDefs(Top))
  <2>1. PICK e \in stack[Top].keys : i \in DefIdents(Top, e)
    BY <1>2 DEF Named, NewDefs
  <2>2. i[1] # NoName
    BY <1>2 DEF Named
  <2>3. i \in Ident /\ (i[1] \in used \/ Excused(i))
    <3>1. stack[Top].defs[e].name \in used
      BY <1>1 DEF EnvInv, IInv, NamesReserved
    <3>. QED
      BY <1>1, <2>1, <2>2, <3>1, IdentsOf
  <2>4. \A j \in 1 .. Top - 1 : i \in text[j].decls => Excused(i)
    BY <1>1, <2>1 DEF DeclsOK
  <2>5. ASSUME NEW k \in 1 .. Top - 1, NEW c \in stack[k].keys, i \in DefIdents(k, c)
        PROVE  Excused(i)
    <3>1. k \in 1 .. Top /\ ~(k = Top /\ c = e)
      BY <1>1
    <3>2. i \in DefIdents(k, c) \cap DefIdents(Top, e)
      BY <2>1, <2>5
    <3>. QED
      BY <1>1, <2>2, <3>1, <3>2, IdentsApart
  <2>. QED
    BY <2>2, <2>3, <2>4, <2>5
<1>3. CASE i \in text[Top].decls
  <2>1. i \in Ident
    BY <1>1, <1>3, TextOf DEF ScopeText
  <2>. QED
    BY <1>1, <1>3, <2>1 DEF DeclsOK
<1>. QED
  BY <1>2, <1>3

LEMMA ClosesKeeps ==
  ASSUME EnvInv, EnvInv', TextType, UsesOK, DeclsOK, Closes, used' = used, Top > 1,
         NEW t \in Seq(ScopeText), Len(t) = Top,
         \A k \in 1 .. Top : t[k].decls = text[k].decls
                             /\ \A u \in t[k].uses : Refers(k, u),
         NEW ids \in SUBSET (Named(NewDefs(Top)) \cup text[Top].decls),
         text' = Closed(t, ids)
  PROVE  TextType' /\ UsesOK' /\ DeclsOK'
<1>1. /\ Top \in Nat /\ Top' = Top - 1 /\ Len(stack') = Top - 1
      /\ \A k \in 1 .. Top - 1 : k \in 1 .. Top
      /\ \A k \in 1 .. Top - 1 : stack'[k].keys = stack[k].keys
                                /\ stack'[k].defs = stack[k].defs
  BY TextOf DEF Closes, Same, Top
<1>2. ids \subseteq Ident
  BY WrittenApart
<1>3. /\ text' \in Seq(ScopeText) /\ Len(text') = Top - 1
      /\ \A k \in 1 .. Top - 1 :
           /\ text'[k].uses = t[k].uses
           /\ text'[k].decls
                = IF k = Top - 1 THEN t[k].decls \cup ids ELSE t[k].decls
  <2> DEFINE c == Closed(t, ids)
  <2>1. ids \in SUBSET Ident
    BY <1>2
  <2>2. /\ c \in Seq(ScopeText) /\ Len(c) = Top - 1
        /\ \A k \in 1 .. Top - 1 :
             /\ c[k].uses = t[k].uses
             /\ c[k].decls = IF k = Top - 1 THEN t[k].decls \cup ids ELSE t[k].decls
    BY <1>1, <2>1, ClosedForm
  <2>. HIDE DEF c
  <2>3. text' = c
    BY DEF c
  <2>. QED
    BY <2>2, <2>3
<1>4. TextType'
  BY <1>1, <1>3 DEF TextType
<1>5. \A k \in 1 .. Top - 1 : \A c \in stack[k].keys :
        DefIdents(k, c)' = DefIdents(k, c)
  BY <1>1 DEF DefIdents
<1>6. UsesOK'
  <2>1. SUFFICES ASSUME NEW k \in 1 .. Top - 1, NEW u \in text'[k].uses
                 PROVE  Refers(k, u)'
    BY <1>1 DEF UsesOK
  <2>2. Refers(k, u)
    BY <1>1, <1>3
  <2>. QED
    BY <1>1, <1>5, <2>2 DEF Refers
<1>7. ASSUME NEW k \in 1 .. Top - 1, NEW i \in text'[k].decls
      PROVE  i \in text[k].decls \/ (k = Top - 1 /\ i \in ids)
  BY <1>1, <1>3
<1>8. ASSUME NEW k \in 1 .. Top - 1, NEW i \in text'[k].decls
      PROVE  i[1] # NoName /\ (i[1] \in used' \/ Excused(i))
  <2>1. CASE i \in text[k].decls
    BY <1>1, <2>1 DEF DeclsOK
  <2>2. CASE i \in ids
    BY <2>2, WrittenApart
  <2>. QED
    BY <1>7, <2>1, <2>2
<1>9. ASSUME NEW j \in 1 .. Top - 1, NEW k \in 1 .. Top - 1, j # k,
             NEW i \in text'[j].decls \cap text'[k].decls
      PROVE  Excused(i)
  <2>1. i \in text[j].decls \/ (j = Top - 1 /\ i \in ids)
    BY <1>7
  <2>2. i \in text[k].decls \/ (k = Top - 1 /\ i \in ids)
    BY <1>7
  <2>3. CASE i \in text[j].decls /\ i \in text[k].decls
    BY <1>1, <1>9, <2>3 DEF DeclsOK
  <2>4. CASE i \in ids /\ (i \in text[j].decls \/ i \in text[k].decls)
    BY <2>4, WrittenApart
  <2>. QED
    BY <1>9, <2>1, <2>2, <2>3, <2>4
<1>10. ASSUME NEW j \in 1 .. Top - 1, NEW k \in 1 .. Top - 1,
              NEW c \in stack[k].keys, NEW i \in text'[j].decls, i \in DefIdents(k, c)
       PROVE  Excused(i)
  <2>1. CASE i \in text[j].decls
    BY <1>1, <1>10, <2>1 DEF DeclsOK
  <2>2. CASE i \in ids
    BY <1>10, <2>2, WrittenApart
  <2>. QED
    BY <1>7, <2>1, <2>2
<1>11. DeclsOK'
  <2>1. \A j, k \in 1 .. Top' : \A i \in text'[j].decls \cap text'[k].decls :
          j = k \/ Excused(i)
    BY <1>1, <1>9
  <2>2. \A j, k \in 1 .. Top' : \A e \in stack'[k].keys :
          \A i \in text'[j].decls \cap DefIdents(k, e)' : Excused(i)
    BY <1>1, <1>5, <1>10
  <2>. QED
    BY <1>1, <1>8, <2>1, <2>2 DEF DeclsOK, Excused
<1>. QED
  BY <1>4, <1>6, <1>11
-----------------------------------------------------------------------------
(* The references and declarations of the live scopes are in order; so what   *)
(* EveryUseDefined and NoRedefinition say stays so when a scope is written.   *)
TextInv == TextType /\ UsesOK /\ DeclsOK

(* A step that makes neither false.                                          *)
Sound ==
  /\ dangling \subseteq dangling'
  /\ dangling' # {} \/ \A u \in broken' : u \in broken \/ u[1] \in SizeEnum
  /\ \A i \in clash' : i \in clash \/ Excused(i)

(* Definitions of one scope that declare one name are excused.               *)
LEMMA DoubledExcused ==
  ASSUME EnvInv, NEW k \in 1 .. Top, NEW i \in Named(Doubled(k))
  PROVE  Excused(i)
<1>1. PICK d \in stack[k].keys, e \in stack[k].keys :
        d # e /\ i \in DefIdents(k, d) /\ i \in DefIdents(k, e)
  BY DEF Named, Doubled
<1>2. i[1] # NoName
  BY DEF Named
<1>3. i \in DefIdents(k, d) \cap DefIdents(k, e) /\ ~(k = k /\ d = e)
  BY <1>1
<1>. QED
  BY <1>2, <1>3, IdentsApart

(* A reference that no definition of its scope resolves is to a list size.    *)
LEMMA UnresolvedSizes ==
  ASSUME NEW t, NEW k, \A u \in t[k].uses : Refers(k, u)
  PROVE  \A u \in Unresolved(t, k) : u[1] \in SizeEnum
BY DEF Unresolved, Refers

LEMMA CloseIfKeeps ==
  ASSUME EnvInv, EnvInv', TextInv, CloseIf
  PROVE  TextInv' /\ Sound
<1>0. /\ TypeOK /\ Top > 1 /\ stack' = Popped /\ used' = used
      /\ Top \in Nat /\ Top \in 1 .. Top /\ Top - 1 \in 1 .. Top - 1
  BY TextOf DEF EnvInv, IInv, CloseIf, LeaveIf, TextInv
<1>1. Closes
  BY <1>0, PopForm
<1>2. /\ text \in Seq(ScopeText) /\ Len(text) = Top
      /\ \A k \in 1 .. Top : \A u \in text[k].uses : Refers(k, u)
  BY TextOf DEF TextInv, UsesOK
<1>3. ASSUME NEW i \in Named(NewDefs(Top)) \cup text[Top].decls,
             i \in text[Top - 1].decls
      PROVE  Excused(i)
  BY <1>0, <1>3, WrittenApart DEF TextInv
<1>4. CASE WriteIf
  <2> DEFINE ids == Named(NewDefs(Top))
  <2>1. PICK t : t = TestsWritten
    OBVIOUS
  <2>2. PICK split \in BOOLEAN :
          split = (IsElseIf /\ NewDefs(Top) # {} /\ NewDefs(Top - 1) = {})
    OBVIOUS
  <2>3. /\ text' = Closed(t, ids)
        /\ clash' = clash \cup (ids \cap text[Top - 1].decls)
                          \cup Named(Doubled(Top))
        /\ broken' = broken \cup IF split THEN t[Top].uses ELSE Unresolved(t, Top)
        /\ dangling' = dangling \cup IF split THEN {"split"} ELSE {}
    BY <1>4, <2>1, <2>2 DEF WriteIf
  <2>4. /\ t \in Seq(ScopeText) /\ Len(t) = Top
        /\ \A k \in 1 .. Top : t[k].decls = text[k].decls
                               /\ \A u \in t[k].uses : Refers(k, u)
    BY <1>0, <2>1, TestsForm DEF TextInv
  <2>. HIDE DEF ids
  <2>5. ids \in SUBSET (Named(NewDefs(Top)) \cup text[Top].decls)
    BY DEF ids
  <2>6. TextInv'
    BY <1>0, <1>1, <2>3, <2>4, <2>5, ClosesKeeps DEF TextInv
  <2>7. \A i \in clash' : i \in clash \/ Excused(i)
    BY <1>0, <1>3, <2>3, <2>5, DoubledExcused
  <2>8. \A u \in Unresolved(t, Top) : u[1] \in SizeEnum
    BY <1>0, <2>4, UnresolvedSizes
  <2>9. dangling' # {} \/ \A u \in broken' : u \in broken \/ u[1] \in SizeEnum
    BY <2>3, <2>8
  <2>. QED
    BY <2>3, <2>6, <2>7, <2>9 DEF Sound
<1>5. CASE SpliceIf
  <2> DEFINE ids == Named(NewDefs(Top))
             inner == text[Top].decls
             both == ids \cup inner
  <2>1. /\ text' = Closed(text, both) /\ dangling' = dangling
        /\ clash' = clash \cup (both \cap text[Top - 1].decls)
                          \cup (ids \cap inner) \cup Named(Doubled(Top))
        /\ broken' = broken \cup Unresolved(text, Top)
    BY <1>5 DEF SpliceIf
  <2>2. both \in SUBSET (Named(NewDefs(Top)) \cup text[Top].decls)
    OBVIOUS
  <2>3. TextInv'
    <3>. HIDE DEF both
    <3>. QED
      BY <1>0, <1>1, <1>2, <2>1, <2>2, ClosesKeeps DEF TextInv
  <2>4. \A i \in ids \cap inner : Excused(i)
    <3>1. SUFFICES ASSUME NEW i \in ids, i \in inner PROVE Excused(i)
      OBVIOUS
    <3>2. PICK e \in stack[Top].keys : i \in DefIdents(Top, e)
      BY DEF Named, NewDefs
    <3>. QED
      BY <1>0, <3>1, <3>2 DEF TextInv, DeclsOK
  <2>5. \A i \in clash' : i \in clash \/ Excused(i)
    BY <1>0, <1>3, <2>1, <2>4, DoubledExcused
  <2>6. \A u \in Unresolved(text, Top) : u[1] \in SizeEnum
    BY <1>0, <1>2, UnresolvedSizes
  <2>. QED
    BY <2>1, <2>3, <2>5, <2>6 DEF Sound
<1>6. CASE EraseIf
  <2>1. text' = Closed(text, {}) /\ dangling \subseteq dangling'
        /\ broken' = broken /\ clash' = clash
    BY <1>6 DEF EraseIf
  <2>2. TextInv'
    BY <1>0, <1>1, <1>2, <2>1, ClosesKeeps DEF TextInv
  <2>. QED
    BY <2>1, <2>2 DEF Sound
<1>. QED
  BY <1>4, <1>5, <1>6 DEF CloseIf

(* The loops that are replaced without their definitions have none.          *)
LEMMA ListLoopEmpty ==
  ASSUME EnvInv, Top > 0, "listMap" \in Here.marks
  PROVE  Here.keys = {}
<1>1. Top \in 1 .. Top
  BY DEF EnvInv, IInv, TypeOK, Top
<1>2. PICK p \in 1 .. Top - 1 : PreparedBody(p)
  BY <1>1 DEF EnvInv, LoopInv, ListInBody, Here
<1>3. p \in 1 .. Top /\ Top \in p .. Top
  BY <1>1, <1>2
<1>4. Here.keys = {} \/ OnlyTests(p, Top)
  BY <1>2, <1>3 DEF EnvInv, LoopInv, BodyHoldsTests, Here
<1>. QED
  BY <1>1, <1>4 DEF EnvInv, LoopInv, ListInBody, OnlyTests, Here

LEMMA CloseLoopKeeps ==
  ASSUME EnvInv, EnvInv', TextInv, CloseLoop
  PROVE  TextInv' /\ Sound
<1>0. /\ TypeOK /\ Top > 1 /\ stack' = Popped /\ used' = used
      /\ Top \in Nat /\ Top \in 1 .. Top /\ Top - 1 \in 1 .. Top - 1
  BY TextOf DEF EnvInv, IInv, CloseLoop, LeaveLoop, TextInv
<1>1. Closes
  BY <1>0, PopForm
<1>2. /\ text \in Seq(ScopeText) /\ Len(text) = Top
      /\ \A k \in 1 .. Top : \A u \in text[k].uses : Refers(k, u)
  BY TextOf DEF TextInv, UsesOK
<1>3. PICK silent \in BOOLEAN : silent <=> ("listMap" \in Here.marks)
  OBVIOUS
<1>4. PICK ids : ids = IF silent THEN {} ELSE Named(NewDefs(Top))
  OBVIOUS
<1>5. /\ text' = Closed(text, ids) /\ dangling' = dangling
      /\ clash' = clash \cup (ids \cap text[Top - 1].decls)
                        \cup IF silent THEN {} ELSE Named(Doubled(Top))
      /\ broken' = broken \cup
                     IF silent THEN text[Top].uses ELSE Unresolved(text, Top)
  BY <1>3, <1>4 DEF CloseLoop
<1>6. ids \in SUBSET (Named(NewDefs(Top)) \cup text[Top].decls)
  BY <1>4
<1>7. TextInv'
  BY <1>0, <1>1, <1>2, <1>5, <1>6, ClosesKeeps DEF TextInv
<1>8. \A i \in clash' : i \in clash \/ Excused(i)
  <2>1. \A i \in ids : i \in text[Top - 1].decls => Excused(i)
    BY <1>0, <1>6, WrittenApart DEF TextInv
  <2>2. \A i \in Named(Doubled(Top)) : Excused(i)
    BY <1>0, DoubledExcused
  <2>. QED
    BY <1>5, <2>1, <2>2
<1>9. \A u \in broken' : u \in broken \/ u[1] \in SizeEnum
  <2>1. CASE silent
    <3>1. stack[Top].keys = {}
      BY <1>0, <1>3, <2>1, ListLoopEmpty DEF Here
    <3>2. \A u \in text[Top].uses : u[1] \in SizeEnum
      BY <1>0, <1>2, <3>1 DEF Refers
    <3>. QED
      BY <1>5, <2>1, <3>2
  <2>2. CASE ~silent
    <3>1. \A u \in Unresolved(text, Top) : u[1] \in SizeEnum
      BY <1>0, <1>2, UnresolvedSizes
    <3>. QED
      BY <1>5, <2>2, <3>1
  <2>. QED
    BY <2>1, <2>2
<1>. QED
  BY <1>5, <1>7, <1>8, <1>9 DEF Sound

(* The definitions of the root are placed and the method is done.            *)
LEMMA PlaceRootKeeps ==
  ASSUME EnvInv, TextInv, PlaceRoot
  PROVE  /\ TextInv' /\ stack' = << >> /\ dangling' = dangling
         /\ \A i \in clash' : i \in clash \/ Excused(i)
         /\ \/ firstIf'.shape \in {"return", "include"}
            \/ \A u \in broken' : u \in broken \/ u[1] \in SizeEnum
<1>1. Top = 1 /\ stack' = << >> /\ text' = << >> /\ Top' = 0
  BY DEF PlaceRoot, Finish, Top
<1>2. TextInv'
  BY <1>1 DEF TextInv, TextType, UsesOK, DeclsOK
<1>3. ASSUME NEW i \in clash' PROVE i \in clash \/ Excused(i)
  <2>1. clash' = clash \cup (Named(NewDefs(1)) \cap text[1].decls)
                     \cup Named(Doubled(1))
    BY DEF PlaceRoot
  <2>2. CASE i \in Named(NewDefs(1)) \cap text[1].decls
    <3>1. PICK e \in stack[1].keys : i \in DefIdents(1, e)
      BY <2>2 DEF Named, NewDefs
    <3>. QED
      BY <1>1, <2>2, <3>1 DEF TextInv, DeclsOK
  <2>3. CASE i \in Named(Doubled(1))
    BY <1>1, <2>3, DoubledExcused
  <2>. QED
    BY <1>3, <2>1, <2>2, <2>3
<1>4. ASSUME firstIf'.shape \notin {"return", "include"}, NEW u \in broken'
      PROVE  u \in broken \/ u[1] \in SizeEnum
  <2>1. u \in broken \/ u \in Unresolved(text, 1)
    BY <1>4 DEF PlaceRoot
  <2>2. \A w \in text[1].uses : Refers(1, w)
    BY <1>1 DEF TextInv, UsesOK
  <2>. QED
    BY <2>1, <2>2, UnresolvedSizes
<1>. QED
  BY <1>1, <1>2, <1>3, <1>4 DEF PlaceRoot
-----------------------------------------------------------------------------
RewriteInv == EnvInv /\ TextInv /\ EveryUseDefined /\ NoRedefinition

LEMMA InitRewrite ==
  ASSUME RewriteInit
  PROVE  RewriteInv
<1>1. EnvInv
  BY EnvInit DEF RewriteInit
<1>2. Top = 1 /\ text = <<NewText>> /\ broken = {} /\ clash = {}
  BY DEF RewriteInit, Init, Top
<1>3. NewText \in ScopeText /\ NewText.uses = {} /\ NewText.decls = {}
  BY DEF NewText, ScopeText
<1>4. \A k \in 1 .. Top : k = 1 /\ text[k] = NewText
  BY <1>2
<1>5. TextInv
  BY <1>2, <1>3, <1>4 DEF TextInv, TextType, UsesOK, DeclsOK
<1>6. EveryUseDefined /\ NoRedefinition
  BY <1>2 DEF EveryUseDefined, NoRedefinition
<1>. QED
  BY <1>1, <1>5, <1>6 DEF RewriteInv

LEMMA RewriteStep ==
  ASSUME SizesApart, RewriteInv, [RewriteNext]_vars
  PROVE  RewriteInv'
<1>0. EnvInv /\ TextInv /\ EnvInv' /\ Adds
  BY WritesAreSteps, EnvNext DEF RewriteInv
<1>1. \A i \in clash : Excused(i)
  BY DEF RewriteInv, NoRedefinition, Excused
<1>2. ASSUME \A i \in clash' : i \in clash \/ Excused(i)
      PROVE  NoRedefinition'
  BY <1>1, <1>2 DEF NoRedefinition, Excused
<1>3. ASSUME Sound, Top > 0, TextInv' PROVE RewriteInv'
  <2>1. stack # << >>
    BY <1>3 DEF Top
  <2>2. EveryUseDefined'
    BY <1>3, <2>1 DEF RewriteInv, EveryUseDefined, Sound
  <2>. QED
    BY <1>0, <1>2, <1>3, <2>2 DEF RewriteInv, Sound
<1>4. ASSUME OnlyWrites PROVE RewriteInv'
  <2>1. UsesOK' /\ DeclsOK'
    BY <1>0, <1>4, UsesKept, DeclsKept DEF OnlyWrites, Writes, TextInv
  <2>2. TextType'
    BY <1>4 DEF OnlyWrites, Writes, WritesText, TextType, Top
  <2>3. Sound
    BY <1>4 DEF OnlyWrites, Sound
  <2>. QED
    BY <1>3, <1>4, <2>1, <2>2, <2>3 DEF OnlyWrites, TextInv
<1>5. CASE CloseIf
  BY <1>0, <1>3, <1>5, CloseIfKeeps, TextOf DEF CloseIf, LeaveIf, TextInv
<1>6. CASE CloseLoop
  BY <1>0, <1>3, <1>6, CloseLoopKeeps, TextOf DEF CloseLoop, LeaveLoop, TextInv
<1>7. CASE PlaceRoot
  <2>1. /\ TextInv' /\ stack' = << >> /\ dangling' = dangling
        /\ \A i \in clash' : i \in clash \/ Excused(i)
        /\ \/ firstIf'.shape \in {"return", "include"}
           \/ \A u \in broken' : u \in broken \/ u[1] \in SizeEnum
    BY <1>0, <1>7, PlaceRootKeeps
  <2>2. stack # << >>
    BY <1>7 DEF PlaceRoot, Finish, Top
  <2>3. EveryUseDefined'
    BY <2>1, <2>2 DEF RewriteInv, EveryUseDefined
  <2>. QED
    BY <1>0, <1>2, <2>1, <2>3 DEF RewriteInv
<1>8. CASE UNCHANGED vars
  <2>1. /\ stack' = stack /\ used' = used /\ text' = text /\ broken' = broken
        /\ clash' = clash /\ dangling' = dangling /\ firstIf' = firstIf
    BY <1>8 DEF vars
  <2>2. TextType' /\ UsesOK'
    BY ONLY <1>0, <2>1 DEF TextInv, TextType, UsesOK, Refers, DefIdents, Top
  <2>3. DeclsOK'
    BY ONLY <1>0, <2>1 DEF TextInv, DeclsOK, Excused, DefIdents, Top
  <2>4. EveryUseDefined'
    BY ONLY RewriteInv, <2>1 DEF RewriteInv, EveryUseDefined
  <2>5. NoRedefinition'
    BY <1>2, <2>1
  <2>. QED
    BY ONLY <1>0, <2>2, <2>3, <2>4, <2>5 DEF RewriteInv, TextInv
<1>9. CASE \/ \E test \in ItemPosTests : OpenIf(test)
           \/ OpenElseIf \/ OpenLoop \/ StartThen \/ StartBody
           \/ \E m \in LoopMarks : LoopIs(m)
  BY <1>0, <1>4, <1>9, StatementsOnlyWrite DEF TextInv
<1>10. CASE \/ \E v \in SourceVar : DropVar(v)
            \/ \E e \in ExistsEnum : TestAction(e)
            \/ \E s \in {"ELSE", "ELSEIF"} : StartElse(s)
  BY <1>0, <1>4, <1>10, EditsOnlyWrite DEF TextInv
<1>11. CASE \/ \E e \in FieldEnum : ReadField(e)
            \/ \E e \in SizeEnum : ReadListSize(e)
            \/ \E e \in CommonEnum : ReadCommon(e)
  BY <1>0, <1>4, <1>11, ReadOnlyWrites, ScopeAssumption DEF TextInv
<1>12. CASE \E e \in FieldEnum, v \in SourceVar : DeclareRead(v, e)
  BY <1>0, <1>4, <1>12, DeclareReadOnlyWrites DEF TextInv
<1>13. CASE \E v \in SourceVar : KeepVar(v)
  BY <1>0, <1>4, <1>13, KeepVarOnlyWrites DEF TextInv
<1>. QED
  BY <1>5, <1>6, <1>7, <1>8, <1>9, <1>10, <1>11, <1>12, <1>13 DEF RewriteNext

(* The invariant holds of every method that reads no tested list size as a    *)
(* plain field.                                                             *)
THEOREM RewriteInductive ==
  ASSUME SizesApart
  PROVE  RewriteSpec => []RewriteInv
<1>1. RewriteInit => RewriteInv
  BY InitRewrite
<1>2. RewriteInv /\ [RewriteNext]_vars => RewriteInv'
  BY RewriteStep
<1>. QED
  BY <1>1, <1>2, PTL DEF RewriteSpec

(* Whatever is read, tested and declared, at any nesting of ifs and loops: a  *)
(* reference the rewriting writes is in the scope of the definition it names, *)
(* but for list sizes and the two placements that EveryUseDefined excepts     *)
(* (GeneralRule::process, ExtractMethodVisitor::process_get_bs).             *)
THEOREM UsesAreDefined ==
  ASSUME SizesApart
  PROVE  RewriteSpec => []EveryUseDefined
<1>1. RewriteInv => EveryUseDefined
  BY DEF RewriteInv
<1>. QED
  BY <1>1, RewriteInductive, PTL

(* And no block declares a name that Env::find_valid_new_name made up twice,   *)
(* wherever the definitions of its statements end up.                        *)
THEOREM GeneratedOnce ==
  ASSUME SizesApart
  PROVE  RewriteSpec => []NoRedefinition
<1>1. RewriteInv => NoRedefinition
  BY DEF RewriteInv
<1>. QED
  BY <1>1, RewriteInductive, PTL
=============================================================================
