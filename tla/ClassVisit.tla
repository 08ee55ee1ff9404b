----------------------------- MODULE ClassVisit -----------------------------
(***************************************************************************)
(* One class: once FeatureDeclCallback has visited the fields and the      *)
(* constructor it visits the other methods and then Extract, and each      *)
(* visit leaves in FeatureInfo what a later one reads: the parameters a    *)
(* method will take, the definitions of new members, the enums the         *)
(* constructor registers.                                                  *)
(*                                                                         *)
(* A repeated action parameter of a method becomes one parameter for each  *)
(* field the method reads of it, and a call passes as many variables.      *)
(***************************************************************************)
EXTENDS Naturals, FiniteSets, SequencesExt

CONSTANTS
  Name,         \* names of methods, parameters and fields; "": none
  Programs,     \* the classes: sequences of methods, Extract among them
  FixedFields   \* the names get_value_from_Action has for its first two lists

(* A parameter may have no name.                                           *)
Parameter == [name : Name, type : {"action", "adlog", "plain"}]

(* An argument is a path from adlog, or some other text.                   *)
Argument == {"path", "mine"} \X Name
PathOf(arg) == arg[2]
IsAdlog(arg) == arg[1] = "path"

(* What a body consists of, by "k":                                        *)
(*   read     a field of adlog                                              *)
(*   functor  a value that needs a new member of the class                 *)
(*   size, get, getExpr   p.size(), p[i].f(), p[<expression>].f()          *)
(*   call     another method "to", with its arguments                      *)
(*   gva      get_value_from_Action with parameters of the method          *)
Named == Name \ {""}
Item ==
  [k : {"read", "functor"}, f : Name] \cup [k : {"size"}, p : Named]
    \cup [k : {"get", "getExpr"}, p : Named, f : Name]
    \cup [k : {"call"}, to : Named, args : Seq(Argument)]
    \cup [k : {"gva"}, args : Seq(Named)]

Method == [name : Named, params : Seq(Parameter), body : Seq(Item)]

Items(m, kind) == {m.body[i] : i \in {j \in DOMAIN m.body : m.body[j].k = kind}}

(* Names in the new text: of a new parameter (whose field it is, and of     *)
(* which field), a variable, a member, and what is left as it was.         *)
Param(p, f) == <<"param", p, f>>
FieldOf(name) == name[3]
Var(prefix, f) == <<"var", prefix, f>>
Member(f) == <<"member", f>>
Old(p) == <<"old", p>>

NewParam == {"param"} \X Name \X Name
Variable == {"var"} \X Name \X Name
NewMember == {"member"} \X Name
OldName == {"old"} \X Name

(* The class compiles: named parameters differ, a call has an argument for  *)
(* every parameter of its callee.                                          *)
Compiles(s) ==
  /\ \A m \in ToSet(s) : \A i, j \in DOMAIN m.params :
       m.params[i].name = m.params[j].name /\ m.params[i].name # "" => i = j
  /\ \A m \in ToSet(s) : \A c \in Items(m, "call") :
       \E callee \in ToSet(s) : callee.name = c.to /\ Len(callee.params) = Len(c.args)

ASSUME ClassAssumption ==
  /\ Programs \subseteq Seq(Method) /\ << >> \notin Programs
  /\ \A s \in Programs : Compiles(s)
  /\ FixedFields \in Seq(Seq(NewParam) \ {<< >>})
  /\ {"", "size", "adlog"} \subseteq Name

VARIABLES
  program,      \* the class
  pc,           \* "overview", "body", "write" or "done"
  left,         \* the positions of the methods still to visit
  methods,      \* FeatureInfo::other_methods_: name -> MethodInfo
  fieldDefs,    \* FeatureInfo::new_field_defs_
  enums,        \* ConstructorInfo::bs_field_enums_
  text,         \* the method in hand: the names its new text uses, its calls
  decls,        \* the declarations written into the class, in order
  result        \* what Extract's visit wrote: metas, members, text
vars == <<program, pc, left, methods, fieldDefs, enums, text, decls,
          result>>

NoText == [uses |-> {}, calls |-> {}]
NoResult == [metas |-> {}, members |-> {}, text |-> NoText]

-----------------------------------------------------------------------------
(* MethodInfo                                                              *)

NoParam == [origin |-> "", news |-> << >>]
NewMethodInfo == [params |-> << >>, written |-> FALSE, sig |-> << >>, text |-> NoText]

(* FeatureInfo::touch_method_info                                          *)
Touch(name) == IF name \in DOMAIN methods THEN methods[name] ELSE NewMethodInfo

(* add_new_action_param, for every index in the domain of "new": the entry  *)
(* there is made anew, the list grows as far as it must.                   *)
SetParams(mi, new) ==
  LET length == Max(DOMAIN new \cup {Len(mi.params)}) IN
  [mi EXCEPT !.params = [i \in 1 .. length |->
     IF i \in DOMAIN new THEN new[i] ELSE IF i \in DOMAIN @ THEN @[i] ELSE NoParam]]

(* add_new_action_field_param: to every entry of that origin, once.        *)
WithField(param, p, f) ==
  IF param.origin = p /\ Param(p, f) \notin ToSet(param.news)
  THEN [param EXCEPT !.news = Append(@, Param(p, f))] ELSE param

AddFieldParam(mi, p, f) ==
  [mi EXCEPT !.params = [i \in DOMAIN @ |-> WithField(@[i], p, f)]]

(* find_new_action_param                                                   *)
ParamAt(mi, i) == IF i \in DOMAIN mi.params THEN mi.params[i] ELSE NoParam

-----------------------------------------------------------------------------
(* The overview of a method                                                *)

TypeIn(m, p) ==
  IF \E i \in DOMAIN m.params : m.params[i].name = p
  THEN m.params[CHOOSE i \in DOMAIN m.params : m.params[i].name = p].type
  ELSE "none"

(* visit_params                                                            *)
VisitParams(m, mi) ==
  LET actions == {i \in DOMAIN m.params :
                    m.params[i].type = "action" /\ m.params[i].name # ""}
  IN SetParams(mi, [i \in actions |-> [origin |-> m.params[i].name, news |-> << >>]])

(* OverviewHandler on a call of get_value_from_Action inside add_feature:  *)
(* the position in that call is taken for the position in add_feature.     *)
OverviewFixed(m, mi, args) ==
  LET actions == {i \in DOMAIN args \cap DOMAIN FixedFields :
                    TypeIn(m, args[i]) = "action"}
  IN SetParams(mi, [i \in actions |-> [origin |-> args[i], news |-> FixedFields[i]]])

(* OverviewHandler on the other items.                                     *)
OverviewItem(m, mi, item) ==
  CASE item.k = "size" -> AddFieldParam(mi, item.p, "size")
    [] item.k = "get" -> AddFieldParam(mi, item.p, item.f)
    [] item.k = "gva" /\ m.name = "add_feature" -> OverviewFixed(m, mi, item.args)
    [] OTHER -> mi

OverviewInfo(m, mi) ==
  LET after[n \in 0 .. Len(m.body)] ==
        IF n = 0 THEN VisitParams(m, mi)
        ELSE OverviewItem(m, after[n - 1], m.body[n])
  IN after[Len(m.body)]

-----------------------------------------------------------------------------
(* The rewriting of a body                                                 *)

(* GeneralRule on a member call: an action argument becomes the variables  *)
(* of the callee's new parameters, if the callee is known and has any.     *)
NewArg(arg, param) ==
  IF param.origin # "" /\ param.news # << >>
  THEN [j \in DOMAIN param.news |-> Var(PathOf(arg), FieldOf(param.news[j]))]
  ELSE <<arg>>

NewArgs(item) ==
  FlattenSeq([i \in DOMAIN item.args |->
    IF item.to \in DOMAIN methods
    THEN NewArg(item.args[i], ParamAt(methods[item.to], i))
    ELSE <<item.args[i]>>])

(* add_action_param_new_def for each of them; only a path is registered.   *)
CallDefs(item) == {a \in ToSet(NewArgs(item)) : a[1] = "var"}
CallEnums(item) ==
  {a \in CallDefs(item) : \E i \in DOMAIN item.args :
     IsAdlog(item.args[i]) /\ PathOf(item.args[i]) = a[2]}

ItemUses(m, item) ==
  CASE item.k = "read" -> {Var("adlog", item.f)}
    [] item.k = "functor" -> {Member(item.f)}
    [] item.k = "size" -> {Param(item.p, "size")}
    [] item.k = "get" -> {Param(item.p, item.f)}
    [] item.k = "getExpr" -> {Old(item.p)}
    [] item.k = "call" -> {a \in ToSet(NewArgs(item)) : a[1] = "var"}
    [] item.k = "gva" ->
         IF m.name = "add_feature"
         THEN UNION {ToSet(FixedFields[i]) : i \in DOMAIN item.args \cap DOMAIN FixedFields}
         ELSE {Old(item.args[i]) : i \in DOMAIN item.args}

NewText(m) ==
  [uses |-> UNION {ItemUses(m, m.body[i]) : i \in DOMAIN m.body},
   calls |-> {[to |-> c.to, args |-> NewArgs(c)] : c \in Items(m, "call")}]

-----------------------------------------------------------------------------
(* process_params: unnamed parameters are passed over, an action parameter *)
(* whose entry has another name is left out.                               *)
ParamText(m, mi, i) ==
  LET p == m.params[i] IN
  CASE p.name = "" -> << >>
    [] p.name # "" /\ p.type = "action" ->
         IF ParamAt(mi, i).origin = p.name
         THEN ParamAt(mi, i).news
         ELSE << >>
    [] OTHER -> <<Old(p.name)>>

Signature(m, mi) == FlattenSeq([i \in DOMAIN m.params |-> ParamText(m, mi, i)])

-----------------------------------------------------------------------------

Others == {i \in DOMAIN program : program[i].name # "Extract"}
Least(positions) == CHOOSE i \in positions : \A j \in positions : i <= j

(* Mutant: the methods in the order of their declarations.                 *)
PositionAsDeclared == Least(left)

(* process_all_methods: first the other methods, then Extract.             *)
Position == Least(IF left \cap Others # {} THEN left \cap Others ELSE left)

Current == program[Position]

Init ==
  /\ program \in Programs
  /\ left = DOMAIN program /\ pc = "overview"
  /\ methods = << >> /\ fieldDefs = {} /\ enums = {}
  /\ text = NoText /\ decls = << >> /\ result = NoResult

(* The info of the method in hand is another one.                          *)
WithInfo(mi) ==
  [n \in DOMAIN methods \cup {Current.name} |->
     IF n = Current.name THEN mi ELSE methods[n]]

OverviewMethods ==
  IF Current.name = "Extract" THEN methods
  ELSE WithInfo(OverviewInfo(Current, Touch(Current.name)))

(* Mutant: the members found by the overview are not dropped.              *)
OverviewKeepingDefs ==
  /\ pc = "overview"
  /\ methods' = OverviewMethods
  /\ fieldDefs' = fieldDefs
  /\ pc' = "body"
  /\ UNCHANGED <<program, left, enums, text, decls, result>>

(* get_overview_info: what the pass defined as members is dropped, and     *)
(* with it what the methods visited before have defined.                   *)
Overview ==
  /\ pc = "overview"
  /\ methods' = OverviewMethods
  /\ fieldDefs' = {}
  /\ pc' = "body"
  /\ UNCHANGED <<program, left, enums, text, decls, result>>

(* recursive_visit with the AdlogFieldHandler.                             *)
RewriteBody ==
  /\ pc = "body"
  /\ text' = NewText(Current)
  /\ fieldDefs' = fieldDefs \cup {Member(x.f) : x \in Items(Current, "functor")}
  /\ enums' = enums \cup {Var("adlog", x.f) : x \in Items(Current, "read")}
                    \cup UNION {CallEnums(x) : x \in Items(Current, "call")}
  /\ pc' = "write"
  /\ UNCHANGED <<program, left, methods, decls, result>>

(* Mutant: the end of the list is seen one method too late.                *)
NextMethodLate == left' = left \ {Position} /\ pc' = "overview"

NextMethod ==
  /\ left' = left \ {Position}
  /\ pc' = IF left = {Position} THEN "done" ELSE "overview"

NewSignature == Signature(Current, methods[Current.name])

(* Mutant: a method of a name that is written already is left alone.       *)
WriteMethodFirst ==
  /\ pc = "write" /\ Current.name # "Extract"
  /\ methods' = IF methods[Current.name].written THEN methods
                ELSE WithInfo([methods[Current.name] EXCEPT
                                !.written = TRUE, !.sig = NewSignature, !.text = text])
  /\ decls' = IF methods[Current.name].written THEN decls
              ELSE Append(decls, [name |-> Current.name, sig |-> NewSignature])
  /\ NextMethod
  /\ UNCHANGED <<program, fieldDefs, enums, text, result>>

(* The last branch of visit: parameters, return type, body; the info of a  *)
(* name is updated, its declaration replaces the method in the class.      *)
WriteMethod ==
  /\ pc = "write" /\ Current.name # "Extract"
  /\ methods' = WithInfo([methods[Current.name] EXCEPT
                           !.written = TRUE, !.sig = NewSignature, !.text = text])
  /\ decls' = Append(decls, [name |-> Current.name, sig |-> NewSignature])
  /\ NextMethod
  /\ UNCHANGED <<program, fieldDefs, enums, text, result>>

(* process_new_field_def: a member for each definition there is now.       *)
Members == fieldDefs

(* process_constructor: the fields registered so far, the members that     *)
(* fill in their own.                                                      *)
Metas == enums \cup fieldDefs

(* The branch of Extract, which no other method has.                       *)
WriteExtract ==
  /\ pc = "write" /\ Current.name = "Extract"
  /\ result' = [metas |-> Metas, members |-> Members, text |-> text]
  /\ NextMethod
  /\ UNCHANGED <<program, methods, fieldDefs, enums, text, decls>>

Done == pc = "done" /\ UNCHANGED vars

Next ==
  \/ Overview \/ RewriteBody
  \/ WriteMethod \/ WriteExtract \/ Done

Spec == Init /\ [][Next]_vars

-----------------------------------------------------------------------------
(* Properties                                                              *)

Action == [origin : Name, news : Seq(NewParam)]
NewSig == Seq(NewParam \cup OldName)
Text == [uses : SUBSET (Variable \cup NewMember \cup NewParam \cup OldName),
         calls : SUBSET [to : Named, args : Seq(Variable \cup Argument)]]
MethodInfo == [params : Seq(Action), written : BOOLEAN, sig : NewSig, text : Text]

(* The state has the shape of FeatureInfo: a method is in hand until the   *)
(* last one is written, an entry without a name has no new parameters, and *)
(* what is written has a declaration.                                      *)
ClassTypeOK ==
  /\ program \in Programs
  /\ pc \in {"overview", "body", "write", "done"}
  /\ left \subseteq DOMAIN program /\ (left = {} <=> pc = "done")
  /\ \A n \in DOMAIN methods :
       /\ n \in Named /\ methods[n] \in MethodInfo
       /\ \A i \in DOMAIN methods[n].params :
            methods[n].params[i].origin = "" => methods[n].params[i].news = << >>
       /\ methods[n].written => \E i \in DOMAIN decls : decls[i].name = n
  /\ fieldDefs \subseteq NewMember /\ enums \subseteq Variable
  /\ text \in Text
  /\ decls \in Seq([name : Named, sig : NewSig])
  /\ result \in [metas : SUBSET (Variable \cup NewMember), members : SUBSET NewMember,
                 text : Text]

HasExtract == \E i \in DOMAIN program : program[i].name = "Extract"

(* No other method of the class has the name of this one.                  *)
OnlyOne(i) == \A j \in Others \ {i} : program[j].name # program[i].name

(* A method the signature machinery copes with: every parameter named,     *)
(* every action parameter read by its name, and get_value_from_Action      *)
(* called with the parameters at their own positions and first of all.     *)
ReadsOf(m, p) ==
  {x \in ToSet(m.body) : x.k \in {"size", "get"} /\ x.p = p}
FixedInPlace(m) ==
  \A k \in DOMAIN m.body : m.body[k].k = "gva" =>
    /\ m.name = "add_feature" /\ k = 1
    /\ \A i \in DOMAIN m.body[k].args : i \in DOMAIN FixedFields =>
         i \in DOMAIN m.params /\ m.params[i].name = m.body[k].args[i]
Passed(m, p) ==
  \E x \in Items(m, "gva") : \E i \in DOMAIN x.args \cap DOMAIN FixedFields : x.args[i] = p
WellFormed(m) ==
  /\ \A i \in DOMAIN m.params : m.params[i].name # ""
  /\ \A i \in DOMAIN m.params : m.params[i].type = "action" =>
       ReadsOf(m, m.params[i].name) # {} \/ Passed(m, m.params[i].name)
  /\ FixedInPlace(m)

(* The texts written so far, with the place of their method.               *)
TextOf(i) ==
  IF program[i].name = "Extract" THEN result.text ELSE methods[program[i].name].text
Written(i) ==
  IF program[i].name = "Extract" THEN pc = "done"
  ELSE program[i].name \in DOMAIN methods /\ methods[program[i].name].written

(* A call passes one argument for each parameter of the callee's new       *)
(* signature, field for field, when the callee is visited before the       *)
(* caller: always in Extract, in another method only if the callee is      *)
(* declared above it or is itself (FeatureDeclCallback.cpp:88,             *)
(* GeneralRule.cpp:224, ExtractMethodVisitor.cpp:565).                     *)
CallMatchesSignature ==
  \A i \in DOMAIN program : Written(i) /\ (i \notin Others \/ OnlyOne(i)) =>
    \A c \in TextOf(i).calls : \A j \in Others :
      /\ program[j].name = c.to /\ OnlyOne(j) /\ WellFormed(program[j])
      /\ program[i].name = "Extract" \/ j <= i
      => LET sig == methods[c.to].sig IN
         /\ Len(c.args) = Len(sig)
         /\ \A k \in DOMAIN sig : sig[k][1] = "param" => FieldOf(c.args[k]) = FieldOf(sig[k])

(* clear_new_field_defs at the end of every overview takes the members the *)
(* methods before have asked for: the class declares, and its constructor  *)
(* registers, exactly those Extract itself uses                            *)
(* (ExtractMethodVisitor.cpp:229, :495).                                   *)
OnlyExtractsMembers ==
  pc = "done" /\ HasExtract =>
    result.members = {u \in result.text.uses : u[1] = "member"}

(* Of methods of one name the last body is kept (FeatureInfo.cpp:183):     *)
(* each other declaration of the class has its own definition.             *)
DeclarationsDefined ==
  pc = "done" =>
    /\ Len(decls) = Cardinality(Others)
    /\ \A i \in DOMAIN decls : methods[decls[i].name].written
    /\ \A i \in Others : OnlyOne(i) =>
         \E k \in DOMAIN decls : decls[k].name = program[i].name
                              /\ decls[k].sig = methods[program[i].name].sig

=============================================================================
