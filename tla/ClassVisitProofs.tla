-------------------------- MODULE ClassVisitProofs --------------------------
(***************************************************************************)
(* Theorems about ClassVisit: for every class that compiles, calls and       *)
(* signatures fit, the class has the members Extract uses, and every        *)
(* declaration has its definition.                                          *)
(***************************************************************************)
EXTENDS ClassVisit, DataInduction

(* What the overview of a method leaves that has no info yet.               *)
Overviewed(m) == OverviewInfo(m, NewMethodInfo)

(* The overview of a method has been made.                                 *)
Seen(i) == i \notin left \/ (i = Position /\ pc \in {"body", "write"})

(* The other methods come in order, and Extract after them.                *)
OrderInv ==
  \A i \in DOMAIN program \ left, j \in Others :
    (i \notin Others \/ j <= i) => j \notin left

(* The info of a name that one method has is of that method: nothing before *)
(* its overview, then its parameters, from its writing on its signature.    *)
InfoInv ==
  /\ pc \in {"body", "write"} /\ Position \in Others => Current.name \in DOMAIN methods
  /\ \A i \in Others : OnlyOne(i) =>
       LET name == program[i].name IN
       /\ name \in DOMAIN methods <=> Seen(i)
       /\ Seen(i) => /\ methods[name].params = Overviewed(program[i]).params
                     /\ methods[name].written <=> i \notin left
       /\ i \notin left => methods[name].sig = Signature(program[i], methods[name])

(* The arguments for a call of m, once its overview has been made.          *)
ArgsFor(call, m) ==
  FlattenSeq([k \in DOMAIN call.args |->
                NewArg(call.args[k], ParamAt(Overviewed(m), k))])

(* A call in the new text of the method at p has those arguments, if its    *)
(* callee was overviewed before it.                                        *)
Answers(p, c) ==
  \E call \in Items(program[p], "call") :
    /\ c.to = call.to
    /\ \A j \in Others :
         /\ OnlyOne(j) /\ program[j].name = c.to
         /\ program[p].name = "Extract" \/ j <= p
         => c.args = ArgsFor(call, program[j])

TextInv ==
  /\ pc = "write" => \A c \in text.calls : Answers(Position, c)
  /\ \A i \in Others \ left : OnlyOne(i) =>
       \A c \in methods[program[i].name].text.calls : Answers(i, c)
  /\ \A i \in DOMAIN program \ (left \cup Others) :
       \A c \in result.text.calls :
         \E p \in DOMAIN program \ Others : Answers(p, c)

MembersOf(t) == {u \in t.uses : u[1] = "member"}

(* The definitions there are in a method after its overview are its own.    *)
MemberInv ==
  /\ pc = "body" => fieldDefs = {}
  /\ pc = "write" => fieldDefs = MembersOf(text)
  /\ \A i \in DOMAIN program \ (left \cup Others) :
       result.members = MembersOf(result.text)

DeclInv ==
  /\ Len(decls) = Cardinality(Others \ left)
  /\ \A i \in DOMAIN decls :
       decls[i].name \in DOMAIN methods /\ methods[decls[i].name].written
  /\ \A i \in Others \ left : OnlyOne(i) =>
       \E k \in DOMAIN decls : /\ decls[k].name = program[i].name
                               /\ decls[k].sig = methods[program[i].name].sig

IInv == ClassTypeOK /\ OrderInv /\ InfoInv /\ TextInv /\ MemberInv /\ DeclInv
-----------------------------------------------------------------------------
(* Programs                                                                *)

LEMMA ProgramIs ==
  ASSUME NEW s \in Programs
  PROVE  /\ s \in Seq(Method) /\ Len(s) \in Nat \ {0} /\ DOMAIN s = 1 .. Len(s)
         /\ \A i \in DOMAIN s : s[i] \in Method /\ s[i] \in ToSet(s)
         /\ Compiles(s)
<1>1. s \in Seq(Method) /\ s # << >> /\ Compiles(s) BY ClassAssumption
<1>2. Len(s) \in Nat \ {0} /\ DOMAIN s = 1 .. Len(s)
  BY <1>1, EmptySeq, LenProperties
<1>3. \A i \in DOMAIN s : s[i] \in Method BY <1>1, <1>2, ElementOfSeq
<1>4. \A i \in DOMAIN s : s[i] \in ToSet(s) BY DEF ToSet
<1>. QED BY <1>1, <1>2, <1>3, <1>4

LEMMA MethodIs ==
  ASSUME NEW m \in Method
  PROVE  /\ m.name \in Named
         /\ m.params \in Seq(Parameter) /\ Len(m.params) \in Nat
         /\ DOMAIN m.params = 1 .. Len(m.params)
         /\ \A i \in DOMAIN m.params : m.params[i] \in Parameter
         /\ m.body \in Seq(Item) /\ Len(m.body) \in Nat
         /\ DOMAIN m.body = 1 .. Len(m.body)
         /\ \A i \in DOMAIN m.body : m.body[i] \in Item
<1>1. m.name \in Named /\ m.params \in Seq(Parameter) /\ m.body \in Seq(Item)
  BY DEF Method
<1>2. /\ Len(m.params) \in Nat /\ DOMAIN m.params = 1 .. Len(m.params)
      /\ Len(m.body) \in Nat /\ DOMAIN m.body = 1 .. Len(m.body)
  BY <1>1, LenProperties
<1>. QED BY <1>1, <1>2, ElementOfSeq

(* The parameters a compiled method has.                                   *)
Distinct(m) ==
  \A i, j \in DOMAIN m.params :
    m.params[i].name = m.params[j].name /\ m.params[i].name # "" => i = j

-----------------------------------------------------------------------------
(* Method infos                                                            *)

EntryOK(a) == a \in Action /\ (a.origin = "" => a.news = << >>)

Info == {mi \in MethodInfo : \A i \in DOMAIN mi.params : EntryOK(mi.params[i])}

(* What the overview leaves alone.                                         *)
SameRest(a, b) == a.written = b.written /\ a.sig = b.sig /\ a.text = b.text

LEMMA NoNews == << >> \in Seq(NewParam)
OBVIOUS

LEMMA EntryIs ==
  ASSUME NEW o \in Name, NEW s \in Seq(NewParam), o # "" \/ s = << >>
  PROVE  EntryOK([origin |-> o, news |-> s])
<1>1. [origin |-> o, news |-> s] \in Action BY DEF Action
<1>. QED BY <1>1 DEF EntryOK

LEMMA NoParamIs == EntryOK(NoParam)
<1>1. "" \in Name BY ClassAssumption
<1>2. << >> \in Seq(NewParam) OBVIOUS
<1>. QED BY <1>1, <1>2 DEF EntryOK, NoParam, Action

LEMMA NewMethodInfoIs ==
  /\ NewMethodInfo \in Info
  /\ NewMethodInfo.params = << >> /\ ~NewMethodInfo.written
  /\ \A k : ParamAt(NewMethodInfo, k) = NoParam
<1>1. NoText \in Text BY DEF NoText, Text
<1>2. << >> \in Seq(Action) /\ << >> \in NewSig BY DEF NewSig
<1>3. NewMethodInfo \in MethodInfo BY <1>1, <1>2 DEF NewMethodInfo, MethodInfo
<1>4. NewMethodInfo.params = << >> /\ ~NewMethodInfo.written BY DEF NewMethodInfo
<1>5. DOMAIN << >> = {} OBVIOUS
<1>. QED BY <1>3, <1>4, <1>5 DEF Info, ParamAt

LEMMA InfoIs ==
  ASSUME NEW mi \in Info
  PROVE  /\ mi.params \in Seq(Action) /\ Len(mi.params) \in Nat
         /\ DOMAIN mi.params = 1 .. Len(mi.params)
         /\ \A i \in DOMAIN mi.params : EntryOK(mi.params[i])
         /\ mi = [params |-> mi.params, written |-> mi.written,
                  sig |-> mi.sig, text |-> mi.text]
         /\ mi.written \in BOOLEAN /\ mi.sig \in NewSig /\ mi.text \in Text
<1>1. mi \in MethodInfo /\ \A i \in DOMAIN mi.params : EntryOK(mi.params[i]) BY DEF Info
<1>2. mi.params \in Seq(Action) BY <1>1 DEF MethodInfo
<1>3. Len(mi.params) \in Nat /\ DOMAIN mi.params = 1 .. Len(mi.params)
  BY <1>2, LenProperties
<1>. QED BY <1>1, <1>2, <1>3 DEF MethodInfo

LEMMA ParamAtIs ==
  ASSUME NEW mi \in Info, NEW k
  PROVE  EntryOK(ParamAt(mi, k))
BY InfoIs, NoParamIs DEF ParamAt

(* Other entries in an info.                                               *)
Entries(p, n) == p = [i \in 1 .. n |-> p[i]] /\ \A i \in 1 .. n : EntryOK(p[i])
HasEntries(new, mi, p) == new = [mi EXCEPT !.params = p]

LEMMA WithParams ==
  ASSUME NEW mi \in Info, NEW n \in Nat, NEW p, Entries(p, n),
         NEW new, HasEntries(new, mi, p)
  PROVE  /\ new \in Info /\ SameRest(new, mi)
         /\ \A k : ParamAt(new, k) = IF k \in 1 .. n THEN p[k] ELSE NoParam
<1>1. p \in Seq(Action)
  <2>1. \A i \in 1 .. n : p[i] \in Action BY DEF EntryOK, Entries
  <2>. QED BY <2>1, IsASeq DEF Entries
<1>2. DOMAIN p = 1 .. n /\ \A i \in 1 .. n : EntryOK(p[i]) BY DEF Entries
<1>3. new = [params |-> p, written |-> mi.written, sig |-> mi.sig, text |-> mi.text]
  <2>1. PICK a, b, c, d : mi = [params |-> a, written |-> b, sig |-> c, text |-> d]
    BY InfoIs
  <2>2. new = [[params |-> a, written |-> b, sig |-> c, text |-> d] EXCEPT !.params = p]
    BY <2>1 DEF HasEntries
  <2>3. [[params |-> a, written |-> b, sig |-> c, text |-> d] EXCEPT !.params = p]
          = [params |-> p, written |-> b, sig |-> c, text |-> d]
    BY ONLY TRUE
  <2>. QED BY <2>1, <2>2, <2>3
<1>4. /\ new.params = p /\ new.written = mi.written /\ new.sig = mi.sig
      /\ new.text = mi.text
  BY <1>3
<1>5. new \in MethodInfo BY <1>1, <1>3, InfoIs DEF MethodInfo
<1>6. new \in Info BY <1>2, <1>4, <1>5 DEF Info
<1>7. \A k : ParamAt(new, k) = IF k \in 1 .. n THEN p[k] ELSE NoParam
  BY <1>2, <1>4 DEF ParamAt
<1>8. SameRest(new, mi) BY <1>4 DEF SameRest
<1>. QED BY <1>6, <1>7, <1>8

LEMMA SetParamsIs ==
  ASSUME NEW mi \in Info, NEW n \in Nat, NEW new, DOMAIN new \subseteq 1 .. n,
         \A i \in DOMAIN new : EntryOK(new[i])
  PROVE  /\ SetParams(mi, new) \in Info /\ SameRest(SetParams(mi, new), mi)
         /\ \A k : ParamAt(SetParams(mi, new), k) =
                     IF k \in DOMAIN new THEN new[k] ELSE ParamAt(mi, k)
<1>. DEFINE S == DOMAIN new \cup {Len(mi.params)}
            p == [i \in 1 .. Max(S) |->
                    IF i \in DOMAIN new THEN new[i]
                    ELSE IF i \in DOMAIN mi.params THEN mi.params[i] ELSE NoParam]
<1>1. /\ Len(mi.params) \in Nat /\ DOMAIN mi.params = 1 .. Len(mi.params)
      /\ \A i \in DOMAIN mi.params : EntryOK(mi.params[i])
  BY InfoIs
<1>2. Max(S) \in Nat /\ Max(S) >= Len(mi.params) /\ \A i \in DOMAIN new : i <= Max(S)
  <2>1. S \in SUBSET Nat /\ S # {} BY <1>1
  <2>2. PICK b \in Nat : \A i \in S : i <= b
    <3>1. n + Len(mi.params) \in Nat BY <1>1
    <3>2. \A i \in S : i <= n + Len(mi.params) BY <1>1
    <3>. QED BY <3>1, <3>2
  <2>3. DOMAIN new \subseteq S /\ Len(mi.params) \in S OBVIOUS
  <2>. HIDE DEF S
  <2>4. Max(S) \in S /\ \A j \in S : j <= Max(S) BY <2>1, <2>2, GreatestIs
  <2>. QED BY <1>1, <2>1, <2>3, <2>4
<1>3. SetParams(mi, new) = [mi EXCEPT !.params = p]
  BY InfoIs DEF SetParams
<1>. HIDE DEF S
<1>4. \A i \in 1 .. Max(S) : EntryOK(p[i]) BY <1>1, NoParamIs
<1>5. p = [i \in 1 .. Max(S) |-> p[i]] OBVIOUS
<1>6. \A k : (IF k \in 1 .. Max(S) THEN p[k] ELSE NoParam)
              = IF k \in DOMAIN new THEN new[k] ELSE ParamAt(mi, k)
  <2>. SUFFICES ASSUME NEW k
                PROVE  (IF k \in 1 .. Max(S) THEN p[k] ELSE NoParam)
                       = IF k \in DOMAIN new THEN new[k] ELSE ParamAt(mi, k)
    OBVIOUS
  <2>1. CASE k \in 1 .. Max(S) BY <2>1 DEF ParamAt
  <2>2. CASE k \notin 1 .. Max(S)
    <3>1. k \notin DOMAIN new /\ k \notin DOMAIN mi.params BY <1>1, <1>2, <2>2
    <3>. QED BY <2>2, <3>1 DEF ParamAt
  <2>. QED BY <2>1, <2>2
<1>7. PICK q, res, max : q = p /\ res = SetParams(mi, new) /\ max = Max(S) OBVIOUS
<1>. HIDE DEF p
<1>8. max \in Nat /\ Entries(q, max) /\ HasEntries(res, mi, q)
  BY <1>2, <1>3, <1>4, <1>5, <1>7 DEF Entries, HasEntries
<1>9. /\ res \in Info /\ SameRest(res, mi)
      /\ \A k : ParamAt(res, k) = IF k \in 1 .. max THEN q[k] ELSE NoParam
  BY <1>8, WithParams
<1>. QED BY <1>6, <1>7, <1>9

LEMMA WithFieldIs ==
  ASSUME NEW a, EntryOK(a), NEW p \in Named, NEW f \in Name
  PROVE  /\ EntryOK(WithField(a, p, f))
         /\ WithField(a, p, f).origin = a.origin
         /\ a.origin = p \/ a.news # << >> => WithField(a, p, f).news # << >>
         /\ a.origin # p => WithField(a, p, f) = a
<1>1. a \in Action /\ a.news \in Seq(NewParam) /\ Len(a.news) \in Nat
  BY LenProperties DEF EntryOK, Action
<1>2. CASE a.origin = p /\ Param(p, f) \notin ToSet(a.news)
  <2>. DEFINE news == Append(a.news, Param(p, f))
              b == WithField(a, p, f)
  <2>1. Param(p, f) \in NewParam BY DEF Param, NewParam, Named
  <2>2. news \in Seq(NewParam) /\ Len(news) = Len(a.news) + 1
    BY <1>1, <2>1, AppendProperties
  <2>3. b = [a EXCEPT !.news = news] BY <1>2 DEF WithField
  <2>. HIDE DEF news
  <2>4. b \in Action /\ b.origin = a.origin /\ b.news = news
    BY <1>1, <2>2, <2>3 DEF Action
  <2>5. b.news # << >> BY <1>1, <2>2, <2>4, EmptySeq
  <2>6. a.origin # "" BY <1>2 DEF Named
  <2>. QED BY <1>2, <2>4, <2>5, <2>6 DEF EntryOK
<1>3. CASE a.origin = p /\ Param(p, f) \in ToSet(a.news)
  <2>1. a.news # << >> BY <1>3 DEF ToSet
  <2>. QED BY <1>3, <2>1 DEF WithField
<1>4. CASE a.origin # p BY <1>4 DEF WithField
<1>. QED BY <1>2, <1>3, <1>4

LEMMA AddFieldParamIs ==
  ASSUME NEW mi \in Info, NEW p \in Named, NEW f \in Name
  PROVE  /\ AddFieldParam(mi, p, f) \in Info /\ SameRest(AddFieldParam(mi, p, f), mi)
         /\ \A k : ParamAt(AddFieldParam(mi, p, f), k) = WithField(ParamAt(mi, k), p, f)
<1>. DEFINE n == Len(mi.params)
            new == [i \in 1 .. n |-> WithField(mi.params[i], p, f)]
<1>1. n \in Nat /\ DOMAIN mi.params = 1 .. n /\ \A i \in 1 .. n : EntryOK(mi.params[i])
  BY InfoIs
<1>2. AddFieldParam(mi, p, f) = [mi EXCEPT !.params = new]
  BY <1>1, InfoIs DEF AddFieldParam
<1>3. \A i \in 1 .. n : EntryOK(new[i]) BY <1>1, WithFieldIs
<1>4. new = [i \in 1 .. n |-> new[i]] OBVIOUS
<1>5. NoParam.origin # p BY DEF NoParam, Named
<1>6. WithField(NoParam, p, f) = NoParam BY <1>5, NoParamIs, WithFieldIs
<1>7. \A k : (IF k \in 1 .. n THEN new[k] ELSE NoParam) = WithField(ParamAt(mi, k), p, f)
  BY <1>1, <1>6 DEF ParamAt
<1>8. PICK q, res, max : q = new /\ res = AddFieldParam(mi, p, f) /\ max = n OBVIOUS
<1>. HIDE DEF new, n
<1>9. max \in Nat /\ Entries(q, max) /\ HasEntries(res, mi, q)
  BY <1>1, <1>2, <1>3, <1>4, <1>8 DEF Entries, HasEntries
<1>10. /\ res \in Info /\ SameRest(res, mi)
       /\ \A k : ParamAt(res, k) = IF k \in 1 .. max THEN q[k] ELSE NoParam
  BY <1>9, WithParams
<1>. QED BY <1>7, <1>8, <1>10

-----------------------------------------------------------------------------
(* The overview                                                            *)

(* What a body can consist of, by its kind.                                 *)
LEMMA ItemIs ==
  ASSUME NEW x \in Item
  PROVE  /\ x.k \in {"read", "functor", "size", "get", "getExpr", "call", "gva"}
         /\ x.k \in {"read", "functor", "get", "getExpr"} => x.f \in Name
         /\ x.k \in {"size", "get", "getExpr"} => x.p \in Named
         /\ x.k = "call" => x.to \in Named /\ x.args \in Seq(Argument)
         /\ x.k = "gva" => x.args \in Seq(Named)
<1>1. CASE x \in [k : {"read", "functor"}, f : Name] BY <1>1
<1>2. CASE x \in [k : {"size"}, p : Named] BY <1>2
<1>3. CASE x \in [k : {"get", "getExpr"}, p : Named, f : Name] BY <1>3
<1>4. CASE x \in [k : {"call"}, to : Named, args : Seq(Argument)] BY <1>4
<1>5. CASE x \in [k : {"gva"}, args : Seq(Named)] BY <1>5
<1>. QED BY <1>1, <1>2, <1>3, <1>4, <1>5 DEF Item

LEMMA FixedIs ==
  /\ DOMAIN FixedFields = 1 .. Len(FixedFields) /\ Len(FixedFields) \in Nat
  /\ \A i \in DOMAIN FixedFields : FixedFields[i] \in Seq(NewParam) /\ FixedFields[i] # << >>
<1>1. FixedFields \in Seq(Seq(NewParam) \ {<< >>}) BY ClassAssumption
<1>2. DOMAIN FixedFields = 1 .. Len(FixedFields) /\ Len(FixedFields) \in Nat
  BY <1>1, LenProperties
<1>3. \A i \in DOMAIN FixedFields : FixedFields[i] \in Seq(NewParam) \ {<< >>}
  BY <1>1, <1>2, ElementOfSeq
<1>. QED BY <1>2, <1>3

LEMMA VisitParamsIs ==
  ASSUME NEW m \in Method, NEW mi \in Info
  PROVE  /\ VisitParams(m, mi) \in Info /\ SameRest(VisitParams(m, mi), mi)
         /\ \A k : ParamAt(VisitParams(m, mi), k) =
              IF k \in DOMAIN m.params /\ m.params[k].type = "action"
                   /\ m.params[k].name # ""
              THEN [origin |-> m.params[k].name, news |-> << >>]
              ELSE ParamAt(mi, k)
<1>. DEFINE actions == {i \in DOMAIN m.params :
                          m.params[i].type = "action" /\ m.params[i].name # ""}
            new == [i \in actions |-> [origin |-> m.params[i].name, news |-> << >>]]
<1>1. VisitParams(m, mi) = SetParams(mi, new) BY DEF VisitParams
<1>2. Len(m.params) \in Nat /\ DOMAIN new \subseteq 1 .. Len(m.params) BY MethodIs
<1>3. ASSUME NEW i \in actions
      PROVE  EntryOK(new[i]) /\ new[i] = [origin |-> m.params[i].name, news |-> << >>]
  <2>1. m.params[i].name \in Name
    <3>1. m.params[i] \in Parameter BY MethodIs
    <3>. QED BY <3>1 DEF Parameter
  <2>2. << >> \in Seq(NewParam) BY NoNews
  <2>3. EntryOK([origin |-> m.params[i].name, news |-> << >>])
    <3>1. PICK o, s : o = m.params[i].name /\ s = << >> OBVIOUS
    <3>2. o \in Name /\ s \in Seq(NewParam) BY <2>1, <2>2, <3>1
    <3>3. EntryOK([origin |-> o, news |-> s]) BY <3>1, <3>2, EntryIs
    <3>. QED BY <3>1, <3>3
  <2>4. new[i] = [origin |-> m.params[i].name, news |-> << >>] OBVIOUS
  <2>. QED BY <2>3, <2>4
<1>4. DOMAIN new = actions OBVIOUS
<1>. HIDE DEF new
<1>5. /\ SetParams(mi, new) \in Info /\ SameRest(SetParams(mi, new), mi)
      /\ \A k : ParamAt(SetParams(mi, new), k) =
                  IF k \in DOMAIN new THEN new[k] ELSE ParamAt(mi, k)
  BY <1>2, <1>3, <1>4, SetParamsIs
<1>. QED BY <1>1, <1>3, <1>4, <1>5

LEMMA OverviewFixedIs ==
  ASSUME NEW m, NEW mi \in Info, NEW args \in Seq(Named)
  PROVE  /\ OverviewFixed(m, mi, args) \in Info /\ SameRest(OverviewFixed(m, mi, args), mi)
         /\ \A k : ParamAt(OverviewFixed(m, mi, args), k) =
              IF k \in DOMAIN args \cap DOMAIN FixedFields
                   /\ TypeIn(m, args[k]) = "action"
              THEN [origin |-> args[k], news |-> FixedFields[k]]
              ELSE ParamAt(mi, k)
<1>. DEFINE actions == {i \in DOMAIN args \cap DOMAIN FixedFields :
                          TypeIn(m, args[i]) = "action"}
            new == [i \in actions |-> [origin |-> args[i], news |-> FixedFields[i]]]
<1>1. OverviewFixed(m, mi, args) = SetParams(mi, new) BY DEF OverviewFixed
<1>2. /\ Len(args) \in Nat /\ DOMAIN new \subseteq 1 .. Len(args)
      /\ \A i \in DOMAIN args : args[i] \in Named
  BY ElementOfSeq, LenProperties
<1>3. ASSUME NEW i \in actions
      PROVE  EntryOK(new[i]) /\ new[i] = [origin |-> args[i], news |-> FixedFields[i]]
  <2>1. args[i] \in Name /\ args[i] # "" BY <1>2 DEF Named
  <2>2. FixedFields[i] \in Seq(NewParam) BY FixedIs
  <2>. QED BY <2>1, <2>2 DEF EntryOK, Action
<1>4. DOMAIN new = actions OBVIOUS
<1>. HIDE DEF new
<1>5. /\ SetParams(mi, new) \in Info /\ SameRest(SetParams(mi, new), mi)
      /\ \A k : ParamAt(SetParams(mi, new), k) =
                  IF k \in DOMAIN new THEN new[k] ELSE ParamAt(mi, k)
  BY <1>2, <1>3, <1>4, SetParamsIs
<1>. QED BY <1>1, <1>3, <1>4, <1>5

LEMMA OverviewItemIs ==
  ASSUME NEW m, NEW mi \in Info, NEW x \in Item
  PROVE  OverviewItem(m, mi, x) \in Info /\ SameRest(OverviewItem(m, mi, x), mi)
<1>1. CASE x.k = "size"
  <2>1. "size" \in Name BY ClassAssumption
  <2>2. OverviewItem(m, mi, x) = AddFieldParam(mi, x.p, "size") BY <1>1 DEF OverviewItem
  <2>. QED BY <1>1, <2>1, <2>2, ItemIs, AddFieldParamIs
<1>2. CASE x.k = "get"
  <2>1. OverviewItem(m, mi, x) = AddFieldParam(mi, x.p, x.f) BY <1>2 DEF OverviewItem
  <2>. QED BY <1>2, <2>1, ItemIs, AddFieldParamIs
<1>3. CASE x.k = "gva" /\ m.name = "add_feature"
  <2>1. OverviewItem(m, mi, x) = OverviewFixed(m, mi, x.args) BY <1>3 DEF OverviewItem
  <2>. QED BY <1>3, <2>1, ItemIs, OverviewFixedIs
<1>4. CASE ~(x.k = "size" \/ x.k = "get" \/ (x.k = "gva" /\ m.name = "add_feature"))
  <2>1. OverviewItem(m, mi, x) = mi BY <1>4 DEF OverviewItem
  <2>. QED BY <2>1 DEF SameRest
<1>. QED BY <1>1, <1>2, <1>3, <1>4

(* One step of the recursion of OverviewInfo.                               *)
OverviewStep(m, mi, f, n) ==
  IF n = 0 THEN VisitParams(m, mi) ELSE OverviewItem(m, f[n - 1], m.body[n])

LEMMA OverviewExists ==
  ASSUME NEW m, NEW mi, NEW n \in Nat
  PROVE  \E f : f = [i \in 0 .. n |-> OverviewStep(m, mi, f, i)]
<1>. DEFINE P(k) == \E f : f = [i \in 0 .. k |-> OverviewStep(m, mi, f, i)]
            S == {k \in Nat : P(k)}
<1>1. P(0)
  <2>. DEFINE e == [i \in 0 .. 0 |-> VisitParams(m, mi)]
  <2>1. \A i \in 0 .. 0 : i = 0 OBVIOUS
  <2>2. e = [i \in 0 .. 0 |-> OverviewStep(m, mi, e, i)] BY <2>1 DEF OverviewStep
  <2>. QED BY <2>2
<1>2. ASSUME NEW k \in Nat, P(k) PROVE P(k + 1)
  <2>1. PICK f : f = [i \in 0 .. k |-> OverviewStep(m, mi, f, i)] BY <1>2
  <2>. DEFINE g == [i \in 0 .. k + 1 |-> OverviewStep(m, mi, f, i)]
  <2>2. ASSUME NEW i \in 0 .. k + 1, i # 0 PROVE g[i - 1] = f[i - 1]
    <3>1. i - 1 \in 0 .. k /\ i - 1 \in 0 .. k + 1 BY <2>2
    <3>2. f[i - 1] = OverviewStep(m, mi, f, i - 1) BY <2>1, <3>1
    <3>3. g[i - 1] = OverviewStep(m, mi, f, i - 1) BY <3>1
    <3>. QED BY <3>2, <3>3
  <2>3. g = [i \in 0 .. k + 1 |-> OverviewStep(m, mi, g, i)]
    BY <2>2 DEF OverviewStep
  <2>. QED BY <2>3
<1>. HIDE DEF P
<1>3. 0 \in S BY <1>1
<1>4. \A k \in S : k + 1 \in S BY <1>2
<1>5. S = Nat
  <2>1. S \in SUBSET Nat OBVIOUS
  <2>. HIDE DEF S
  <2>. QED BY ONLY <1>3, <1>4, <2>1, NatInductionSet
<1>6. P(n) BY <1>5
<1>. QED BY <1>6 DEF P

LEMMA OverviewSteps ==
  ASSUME NEW m \in Method, NEW mi
  PROVE  \E f : /\ f[0] = VisitParams(m, mi)
                /\ \A n \in 1 .. Len(m.body) :
                     f[n] = OverviewItem(m, f[n - 1], m.body[n])
                /\ OverviewInfo(m, mi) = f[Len(m.body)]
<1>. DEFINE F == CHOOSE f : f = [n \in 0 .. Len(m.body) |->
                   IF n = 0 THEN VisitParams(m, mi)
                   ELSE OverviewItem(m, f[n - 1], m.body[n])]
<1>1. Len(m.body) \in Nat BY MethodIs
<1>2. OverviewInfo(m, mi) = F[Len(m.body)] BY DEF OverviewInfo
<1>3. \E f : f = [n \in 0 .. Len(m.body) |->
                    IF n = 0 THEN VisitParams(m, mi)
                    ELSE OverviewItem(m, f[n - 1], m.body[n])]
  BY <1>1, OverviewExists DEF OverviewStep
<1>4. F = [n \in 0 .. Len(m.body) |->
             IF n = 0 THEN VisitParams(m, mi)
             ELSE OverviewItem(m, F[n - 1], m.body[n])]
  BY <1>3
<1>. HIDE DEF F
<1>5. F[0] = VisitParams(m, mi) BY <1>1, <1>4
<1>6. \A n \in 1 .. Len(m.body) : F[n] = OverviewItem(m, F[n - 1], m.body[n])
  BY <1>1, <1>4
<1>. QED BY <1>2, <1>5, <1>6

LEMMA OverviewInfoIs ==
  ASSUME NEW m \in Method, NEW mi \in Info
  PROVE  OverviewInfo(m, mi) \in Info /\ SameRest(OverviewInfo(m, mi), mi)
<1>1. PICK f : /\ f[0] = VisitParams(m, mi)
               /\ \A n \in 1 .. Len(m.body) :
                    f[n] = OverviewItem(m, f[n - 1], m.body[n])
               /\ OverviewInfo(m, mi) = f[Len(m.body)]
  BY OverviewSteps
<1>. DEFINE S == {n \in Nat : n <= Len(m.body) => f[n] \in Info /\ SameRest(f[n], mi)}
<1>2. Len(m.body) \in Nat BY MethodIs
<1>3. 0 \in S BY <1>1, VisitParamsIs
<1>4. ASSUME NEW n \in S PROVE n + 1 \in S
  <2>1. SUFFICES ASSUME n + 1 <= Len(m.body)
                 PROVE  f[n + 1] \in Info /\ SameRest(f[n + 1], mi)
    OBVIOUS
  <2>2. f[n] \in Info /\ SameRest(f[n], mi) BY <1>2, <2>1
  <2>3. n + 1 \in 1 .. Len(m.body) /\ (n + 1) - 1 = n BY <1>2, <2>1
  <2>4. f[n + 1] = OverviewItem(m, f[n], m.body[n + 1]) BY <1>1, <2>3
  <2>5. m.body[n + 1] \in Item BY <2>3, MethodIs
  <2>6. f[n + 1] \in Info /\ SameRest(f[n + 1], f[n]) BY <2>2, <2>4, <2>5, OverviewItemIs
  <2>. QED BY <2>2, <2>6 DEF SameRest
<1>5. S = Nat
  <2>1. S \in SUBSET Nat /\ \A n \in S : n + 1 \in S BY <1>4
  <2>. HIDE DEF S
  <2>. QED BY ONLY <1>3, <2>1, NatInductionSet
<1>. QED BY <1>1, <1>2, <1>5

-----------------------------------------------------------------------------
(* What the overview finds out about a well-formed method                   *)

(* Action parameters have their own entry, other parameters have none.      *)
OwnEntries(m, mi) ==
  \A k \in DOMAIN m.params :
    IF m.params[k].type = "action" THEN ParamAt(mi, k).origin = m.params[k].name
    ELSE ParamAt(mi, k) = NoParam

(* The item x reads the parameter p, or passes it to get_value_from_Action.  *)
Takes(x, p) ==
  \/ x.k \in {"size", "get"} /\ x.p = p
  \/ x.k = "gva" /\ \E i \in DOMAIN x.args \cap DOMAIN FixedFields : x.args[i] = p

(* What the first n items take has new parameters.                          *)
Taken(m, mi, n) ==
  \A k \in DOMAIN m.params :
    m.params[k].type = "action" /\ (\E b \in 1 .. n : Takes(m.body[b], m.params[k].name))
    => ParamAt(mi, k).news # << >>

LEMMA TypeInIs ==
  ASSUME NEW m, Distinct(m), NEW i \in DOMAIN m.params, m.params[i].name # ""
  PROVE  TypeIn(m, m.params[i].name) = m.params[i].type
<1>. DEFINE c == CHOOSE j \in DOMAIN m.params : m.params[j].name = m.params[i].name
<1>1. c \in DOMAIN m.params /\ m.params[c].name = m.params[i].name OBVIOUS
<1>2. c = i BY <1>1 DEF Distinct
<1>3. TypeIn(m, m.params[i].name) = m.params[c].type BY DEF TypeIn
<1>. QED BY <1>2, <1>3

LEMMA OverviewItemOwn ==
  ASSUME NEW m \in Method, Distinct(m), WellFormed(m), NEW mi \in Info,
         NEW n \in 1 .. Len(m.body), OwnEntries(m, mi), Taken(m, mi, n - 1)
  PROVE  LET new == OverviewItem(m, mi, m.body[n])
         IN OwnEntries(m, new) /\ Taken(m, new, n)
<1>. DEFINE x == m.body[n]
            new == OverviewItem(m, mi, x)
<1>1. /\ n \in DOMAIN m.body /\ x \in Item /\ Len(m.body) \in Nat
      /\ \A k \in DOMAIN m.params : m.params[k].name # ""
  BY MethodIs DEF WellFormed
<1>2. SUFFICES ASSUME NEW k \in DOMAIN m.params
               PROVE  /\ IF m.params[k].type = "action"
                         THEN ParamAt(new, k).origin = m.params[k].name
                         ELSE ParamAt(new, k) = NoParam
                      /\ m.params[k].type = "action"
                           /\ (Takes(x, m.params[k].name) \/ ParamAt(mi, k).news # << >>)
                         => ParamAt(new, k).news # << >>
  <2>1. \A b \in 1 .. n : b = n \/ b \in 1 .. n - 1 OBVIOUS
  <2>2. OwnEntries(m, new) BY DEF OwnEntries
  <2>3. Taken(m, new, n)
    <3>1. SUFFICES ASSUME NEW k \in DOMAIN m.params, m.params[k].type = "action",
                          NEW b \in 1 .. n, Takes(m.body[b], m.params[k].name)
                   PROVE  ParamAt(new, k).news # << >>
      BY DEF Taken
    <3>2. CASE b = n BY <3>1, <3>2
    <3>3. CASE b \in 1 .. n - 1
      <4>1. ParamAt(mi, k).news # << >> BY <3>1, <3>3 DEF Taken
      <4>. QED BY <3>1, <4>1
    <3>. QED BY <2>1, <3>2, <3>3
  <2>. QED BY <2>2, <2>3
<1>3. IF m.params[k].type = "action" THEN ParamAt(mi, k).origin = m.params[k].name
      ELSE ParamAt(mi, k) = NoParam
  BY DEF OwnEntries
<1>4. EntryOK(ParamAt(mi, k)) BY ParamAtIs
<1>5. ASSUME NEW f \in Name, x.k \in {"size", "get"},
             new = AddFieldParam(mi, x.p, f)
      PROVE  /\ IF m.params[k].type = "action"
                THEN ParamAt(new, k).origin = m.params[k].name
                ELSE ParamAt(new, k) = NoParam
             /\ m.params[k].type = "action"
                  /\ (Takes(x, m.params[k].name) \/ ParamAt(mi, k).news # << >>)
                => ParamAt(new, k).news # << >>
  <2>1. x.p \in Named BY <1>1, <1>5, ItemIs
  <2>2. PICK a, b : a = ParamAt(mi, k) /\ b = ParamAt(new, k) OBVIOUS
  <2>3. b = WithField(a, x.p, f) BY <1>5, <2>1, <2>2, AddFieldParamIs
  <2>4. /\ b.origin = a.origin /\ (a.origin = x.p \/ a.news # << >> => b.news # << >>)
        /\ a.origin # x.p => b = a
    BY <1>4, <2>1, <2>2, <2>3, WithFieldIs
  <2>5. Takes(x, m.params[k].name) => x.p = m.params[k].name BY <1>5 DEF Takes
  <2>6. NoParam.origin # x.p BY <2>1 DEF NoParam, Named
  <2>. QED BY <1>3, <2>2, <2>4, <2>5, <2>6
<1>6. CASE x.k = "size"
  <2>1. new = AddFieldParam(mi, x.p, "size") BY <1>6 DEF OverviewItem
  <2>2. "size" \in Name BY ClassAssumption
  <2>. HIDE DEF new, x
  <2>. QED BY <1>5, <1>6, <2>1, <2>2
<1>7. CASE x.k = "get"
  <2>1. new = AddFieldParam(mi, x.p, x.f) BY <1>7 DEF OverviewItem
  <2>2. x.f \in Name BY <1>1, <1>7, ItemIs
  <2>. HIDE DEF new, x
  <2>. QED BY <1>5, <1>7, <2>1, <2>2
<1>8. CASE x.k = "gva"
  <2>1. /\ m.name = "add_feature"
        /\ \A i \in DOMAIN x.args : i \in DOMAIN FixedFields =>
             i \in DOMAIN m.params /\ m.params[i].name = x.args[i]
    BY <1>1, <1>8 DEF WellFormed, FixedInPlace
  <2>2. new = OverviewFixed(m, mi, x.args) BY <1>8, <2>1 DEF OverviewItem
  <2>3. ParamAt(new, k) =
          IF k \in DOMAIN x.args \cap DOMAIN FixedFields /\ TypeIn(m, x.args[k]) = "action"
          THEN [origin |-> x.args[k], news |-> FixedFields[k]]
          ELSE ParamAt(mi, k)
    <3>1. PICK args : args = x.args OBVIOUS
    <3>2. args \in Seq(Named) BY <1>1, <1>8, <3>1, ItemIs
    <3>3. ParamAt(OverviewFixed(m, mi, args), k) =
            IF k \in DOMAIN args \cap DOMAIN FixedFields /\ TypeIn(m, args[k]) = "action"
            THEN [origin |-> args[k], news |-> FixedFields[k]]
            ELSE ParamAt(mi, k)
      BY <3>2, OverviewFixedIs
    <3>. HIDE DEF new, x
    <3>. QED BY <2>2, <3>1, <3>3
  <2>. HIDE DEF new, x
  <2>4. CASE k \in DOMAIN x.args \cap DOMAIN FixedFields
    <3>1. x.args[k] = m.params[k].name /\ TypeIn(m, x.args[k]) = m.params[k].type
      BY <1>1, <2>1, <2>4, TypeInIs
    <3>2. FixedFields[k] # << >> BY <2>4, FixedIs
    <3>3. CASE m.params[k].type = "action"
      <4>1. ParamAt(new, k) = [origin |-> m.params[k].name, news |-> FixedFields[k]]
        BY <2>3, <2>4, <3>1, <3>3
      <4>. QED BY <3>2, <3>3, <4>1
    <3>4. CASE m.params[k].type # "action" BY <1>3, <2>3, <3>1, <3>4
    <3>. QED BY <3>3, <3>4
  <2>5. CASE k \notin DOMAIN x.args \cap DOMAIN FixedFields
    <3>1. ParamAt(new, k) = ParamAt(mi, k) BY <2>3, <2>5
    <3>2. ~Takes(x, m.params[k].name)
      <4>1. SUFFICES ASSUME NEW i \in DOMAIN x.args \cap DOMAIN FixedFields,
                            x.args[i] = m.params[k].name
                     PROVE  FALSE
        BY <1>8 DEF Takes
      <4>2. i \in DOMAIN m.params /\ m.params[i].name = m.params[k].name
        BY <2>1, <4>1
      <4>3. i = k BY <1>1, <4>2 DEF Distinct
      <4>. QED BY <2>5, <4>3
    <3>. QED BY <1>3, <3>1, <3>2
  <2>. QED BY <2>4, <2>5
<1>9. CASE x.k \notin {"size", "get", "gva"}
  <2>1. new = mi BY <1>9 DEF OverviewItem
  <2>2. ~Takes(x, m.params[k].name) BY <1>9 DEF Takes
  <2>. HIDE DEF new, x
  <2>. QED BY <1>3, <2>1, <2>2
<1>. QED BY <1>6, <1>7, <1>8, <1>9

(* Every action parameter gets its new parameters under its own name, every *)
(* other parameter none.                                                   *)
LEMMA OverviewedIs ==
  ASSUME NEW m \in Method, Distinct(m), WellFormed(m), NEW k \in DOMAIN m.params
  PROVE  IF m.params[k].type = "action"
         THEN /\ ParamAt(Overviewed(m), k).origin = m.params[k].name
              /\ ParamAt(Overviewed(m), k).news # << >>
         ELSE ParamAt(Overviewed(m), k) = NoParam
<1>1. PICK f : /\ f[0] = VisitParams(m, NewMethodInfo)
               /\ \A n \in 1 .. Len(m.body) :
                    f[n] = OverviewItem(m, f[n - 1], m.body[n])
               /\ OverviewInfo(m, NewMethodInfo) = f[Len(m.body)]
  BY OverviewSteps
<1>2. /\ Len(m.body) \in Nat /\ DOMAIN m.body = 1 .. Len(m.body)
      /\ \A i \in DOMAIN m.body : m.body[i] \in Item
  BY MethodIs
<1>. DEFINE Good(n) == f[n] \in Info /\ OwnEntries(m, f[n]) /\ Taken(m, f[n], n)
            S == {n \in Nat : n <= Len(m.body) => Good(n)}
<1>3. 0 \in S
  <2>1. f[0] \in Info BY <1>1, NewMethodInfoIs, VisitParamsIs
  <2>2. OwnEntries(m, f[0])
    <3>1. SUFFICES ASSUME NEW j \in DOMAIN m.params
                   PROVE  IF m.params[j].type = "action"
                          THEN ParamAt(f[0], j).origin = m.params[j].name
                          ELSE ParamAt(f[0], j) = NoParam
      BY DEF OwnEntries
    <3>2. m.params[j].name # "" BY DEF WellFormed
    <3>3. ParamAt(f[0], j) =
            IF m.params[j].type = "action"
            THEN [origin |-> m.params[j].name, news |-> << >>] ELSE NoParam
      <4>1. PICK mi \in Info : mi = NewMethodInfo /\ ParamAt(mi, j) = NoParam
        BY NewMethodInfoIs
      <4>2. ParamAt(VisitParams(m, mi), j) =
              IF j \in DOMAIN m.params /\ m.params[j].type = "action"
                   /\ m.params[j].name # ""
              THEN [origin |-> m.params[j].name, news |-> << >>]
              ELSE ParamAt(mi, j)
        BY VisitParamsIs
      <4>. QED BY <1>1, <3>1, <3>2, <4>1, <4>2
    <3>. QED BY <3>3
  <2>3. Taken(m, f[0], 0) BY DEF Taken
  <2>. QED BY <2>1, <2>2, <2>3
<1>4. ASSUME NEW n \in S PROVE n + 1 \in S
  <2>1. SUFFICES ASSUME n + 1 <= Len(m.body) PROVE Good(n + 1) OBVIOUS
  <2>2. Good(n) /\ n + 1 \in 1 .. Len(m.body) /\ (n + 1) - 1 = n BY <1>2, <2>1
  <2>3. f[n + 1] = OverviewItem(m, f[n], m.body[n + 1]) BY <1>1, <2>2
  <2>4. f[n + 1] \in Info BY <1>2, <2>2, <2>3, OverviewItemIs
  <2>5. OwnEntries(m, f[n + 1]) /\ Taken(m, f[n + 1], n + 1)
    <3>1. PICK q, e : q = n + 1 /\ e = f[n] OBVIOUS
    <3>2. q \in 1 .. Len(m.body) /\ q - 1 = n BY <2>2, <3>1
    <3>3. e \in Info /\ OwnEntries(m, e) /\ Taken(m, e, q - 1) BY <2>2, <3>1, <3>2
    <3>4. /\ OwnEntries(m, OverviewItem(m, e, m.body[q]))
          /\ Taken(m, OverviewItem(m, e, m.body[q]), q)
      BY <3>2, <3>3, OverviewItemOwn
    <3>. QED BY <2>3, <3>1, <3>4
  <2>. QED BY <2>4, <2>5
<1>5. S = Nat
  <2>1. S \in SUBSET Nat /\ \A n \in S : n + 1 \in S BY <1>4
  <2>. HIDE DEF S
  <2>. QED BY ONLY <1>3, <2>1, NatInductionSet
<1>6. OwnEntries(m, Overviewed(m)) /\ Taken(m, Overviewed(m), Len(m.body))
  BY <1>1, <1>2, <1>5 DEF Overviewed
<1>7. CASE m.params[k].type = "action"
  <2>1. ReadsOf(m, m.params[k].name) # {} \/ Passed(m, m.params[k].name)
    BY <1>7 DEF WellFormed
  <2>2. \E b \in 1 .. Len(m.body) : Takes(m.body[b], m.params[k].name)
    <3>1. CASE ReadsOf(m, m.params[k].name) # {}
      <4>1. PICK x \in ToSet(m.body) : x.k \in {"size", "get"} /\ x.p = m.params[k].name
        BY <3>1 DEF ReadsOf
      <4>2. PICK b \in DOMAIN m.body : x = m.body[b] BY DEF ToSet
      <4>. QED BY <1>2, <4>1, <4>2 DEF Takes
    <3>2. CASE Passed(m, m.params[k].name)
      <4>1. PICK x \in Items(m, "gva") :
              \E i \in DOMAIN x.args \cap DOMAIN FixedFields : x.args[i] = m.params[k].name
        BY <3>2 DEF Passed
      <4>2. PICK b \in DOMAIN m.body : x = m.body[b] /\ x.k = "gva" BY DEF Items
      <4>. QED BY <1>2, <4>1, <4>2 DEF Takes
    <3>. QED BY <2>1, <3>1, <3>2
  <2>. QED BY <1>6, <1>7, <2>2 DEF OwnEntries, Taken
<1>8. CASE m.params[k].type # "action" BY <1>6, <1>8 DEF OwnEntries
<1>. QED BY <1>7, <1>8

-----------------------------------------------------------------------------
(* Arguments and signatures                                                *)

LEMMA NewArgIs ==
  ASSUME NEW arg \in Argument, NEW a, EntryOK(a)
  PROVE  /\ NewArg(arg, a) \in Seq(Variable \cup Argument)
         /\ a.origin # "" /\ a.news # << >> =>
              /\ Len(NewArg(arg, a)) = Len(a.news)
              /\ \A j \in 1 .. Len(a.news) :
                   FieldOf(NewArg(arg, a)[j]) = FieldOf(a.news[j])
         /\ ~(a.origin # "" /\ a.news # << >>) => NewArg(arg, a) = <<arg>>
<1>1. /\ a.news \in Seq(NewParam) /\ Len(a.news) \in Nat
      /\ DOMAIN a.news = 1 .. Len(a.news)
      /\ \A j \in 1 .. Len(a.news) : a.news[j] \in NewParam
  <2>1. a.news \in Seq(NewParam) BY DEF EntryOK, Action
  <2>. QED BY <2>1, ElementOfSeq, LenProperties
<1>2. CASE a.origin # "" /\ a.news # << >>
  <2>. DEFINE s == [j \in 1 .. Len(a.news) |-> Var(PathOf(arg), FieldOf(a.news[j]))]
  <2>1. NewArg(arg, a) = s BY <1>1, <1>2 DEF NewArg
  <2>2. ASSUME NEW j \in 1 .. Len(a.news)
        PROVE  /\ Var(PathOf(arg), FieldOf(a.news[j])) \in Variable \cup Argument
               /\ FieldOf(Var(PathOf(arg), FieldOf(a.news[j]))) = FieldOf(a.news[j])
    <3>1. PathOf(arg) \in Name BY DEF Argument, PathOf
    <3>2. FieldOf(a.news[j]) \in Name BY <1>1 DEF FieldOf, NewParam
    <3>. QED BY <3>1, <3>2 DEF Var, Variable, FieldOf
  <2>3. s \in Seq(Variable \cup Argument) BY <1>1, <2>2, IsASeq
  <2>4. Len(s) = Len(a.news) BY <1>1
  <2>5. \A j \in 1 .. Len(a.news) : FieldOf(s[j]) = FieldOf(a.news[j]) BY <2>2
  <2>. HIDE DEF s
  <2>. QED BY <1>2, <2>1, <2>3, <2>4, <2>5
<1>3. CASE ~(a.origin # "" /\ a.news # << >>)
  <2>1. NewArg(arg, a) = <<arg>> BY <1>3 DEF NewArg
  <2>2. <<arg>> \in Seq(Variable \cup Argument) OBVIOUS
  <2>. QED BY <1>3, <2>1, <2>2
<1>. QED BY <1>2, <1>3

LEMMA ParamTextIs ==
  ASSUME NEW m \in Method, NEW mi \in Info, NEW i \in DOMAIN m.params
  PROVE  ParamText(m, mi, i) \in Seq(NewParam \cup OldName)
<1>. DEFINE p == m.params[i]
            B == NewParam \cup OldName
<1>1. p \in Parameter BY MethodIs
<1>2. p.name \in Name BY <1>1 DEF Parameter
<1>3. << >> \in Seq(B) BY EmptySeq
<1>4. ParamAt(mi, i).news \in Seq(B)
  <2>1. PICK s : s = ParamAt(mi, i).news OBVIOUS
  <2>2. s \in Seq(NewParam) BY <2>1, ParamAtIs DEF EntryOK, Action
  <2>3. s \in Seq(B) BY <2>2
  <2>. QED BY <2>1, <2>3
<1>5. <<Old(p.name)>> \in Seq(B)
  <2>1. Old(p.name) \in B BY <1>2 DEF Old, OldName
  <2>. HIDE DEF B
  <2>. QED BY <2>1
<1>6. \/ ParamText(m, mi, i) = << >> \/ ParamText(m, mi, i) = ParamAt(mi, i).news
      \/ ParamText(m, mi, i) = <<Old(p.name)>>
  <2>1. CASE p.name = "" BY <2>1 DEF ParamText
  <2>2. CASE p.name # "" /\ p.type = "action" BY <2>2 DEF ParamText
  <2>3. CASE p.name # "" /\ p.type # "action" BY <2>3 DEF ParamText
  <2>. QED BY <2>1, <2>2, <2>3
<1>. QED BY <1>3, <1>4, <1>5, <1>6

LEMMA SignatureIs ==
  ASSUME NEW m \in Method, NEW mi \in Info
  PROVE  /\ [i \in DOMAIN m.params |-> ParamText(m, mi, i)] \in Seq(NewSig)
         /\ Signature(m, mi) \in NewSig
<1>1. Len(m.params) \in Nat /\ DOMAIN m.params = 1 .. Len(m.params) BY MethodIs
<1>2. \A i \in 1 .. Len(m.params) : ParamText(m, mi, i) \in NewSig
  BY <1>1, ParamTextIs DEF NewSig
<1>3. [i \in DOMAIN m.params |-> ParamText(m, mi, i)] \in Seq(NewSig)
  BY <1>1, <1>2, IsASeq
<1>4. FlattenSeq([i \in DOMAIN m.params |-> ParamText(m, mi, i)]) \in NewSig
  BY <1>3, FlattenSeqProperties DEF NewSig
<1>. QED BY <1>3, <1>4 DEF Signature

(* One argument and one parameter of an overviewed callee.                  *)
Fits(x, y) ==
  /\ Len(x) = Len(y)
  /\ \A j \in 1 .. Len(x) : y[j][1] = "param" => FieldOf(x[j]) = FieldOf(y[j])

LEMMA ParamFits ==
  ASSUME NEW m \in Method, Distinct(m), WellFormed(m), NEW k \in DOMAIN m.params,
         NEW arg \in Argument, NEW mi \in Info, mi.params = Overviewed(m).params
  PROVE  Fits(NewArg(arg, ParamAt(Overviewed(m), k)), ParamText(m, mi, k))
<1>1. PICK a, name, x, y :
         /\ a = ParamAt(Overviewed(m), k) /\ name = m.params[k].name
         /\ x = NewArg(arg, a) /\ y = ParamText(m, mi, k)
  OBVIOUS
<1>2. EntryOK(a)
  <2>1. Overviewed(m) \in Info BY NewMethodInfoIs, OverviewInfoIs DEF Overviewed
  <2>. QED BY <1>1, <2>1, ParamAtIs
<1>3. ParamAt(mi, k) = a BY <1>1 DEF ParamAt
<1>4. name # "" BY <1>1 DEF WellFormed
<1>5. IF m.params[k].type = "action" THEN a.origin = name /\ a.news # << >> ELSE a = NoParam
  BY <1>1, OverviewedIs
<1>6. CASE m.params[k].type = "action"
  <2>1. a.origin = name /\ a.origin # "" /\ a.news # << >> BY <1>4, <1>5, <1>6
  <2>2. y = a.news BY <1>1, <1>3, <1>4, <1>6, <2>1 DEF ParamText
  <2>3. /\ Len(x) = Len(a.news)
        /\ \A j \in 1 .. Len(a.news) : FieldOf(x[j]) = FieldOf(a.news[j])
    BY <1>1, <1>2, <2>1, NewArgIs
  <2>. QED BY <1>1, <2>2, <2>3 DEF Fits
<1>7. CASE m.params[k].type # "action"
  <2>1. ~(a.origin # "" /\ a.news # << >>)
    <3>1. a = NoParam BY <1>5, <1>7
    <3>2. NoParam.origin = "" BY DEF NoParam
    <3>. QED BY <3>1, <3>2
  <2>2. x = <<arg>> BY <1>1, <1>2, <2>1, NewArgIs
  <2>3. y = <<Old(name)>> BY <1>1, <1>4, <1>7 DEF ParamText
  <2>4. Len(x) = 1 /\ Len(y) = 1 /\ y[1] = Old(name) BY <2>2, <2>3
  <2>5. y[1][1] # "param" BY <2>4 DEF Old
  <2>6. \A j \in 1 .. Len(x) : j = 1 BY <2>4
  <2>. QED BY <1>1, <2>4, <2>5, <2>6 DEF Fits
<1>. QED BY <1>6, <1>7

(* A call of m that compiles; an info with the parameters of m.              *)
CallOf(call, m) == call.args \in Seq(Argument) /\ Len(call.args) = Len(m.params)
InfoOf(mi, m) == mi \in Info /\ mi.params = Overviewed(m).params

(* The arguments for an overviewed callee fit its signature.                *)
LEMMA CallFits ==
  ASSUME NEW m \in Method, Distinct(m), WellFormed(m),
         NEW call, CallOf(call, m), NEW mi, InfoOf(mi, m)
  PROVE  Fits(ArgsFor(call, m), Signature(m, mi))
<1>. DEFINE n == Len(m.params)
            A == Variable \cup Argument
            B == NewParam \cup OldName
            new == [k \in 1 .. n |-> NewArg(call.args[k], ParamAt(Overviewed(m), k))]
            old == [k \in 1 .. n |-> ParamText(m, mi, k)]
            R == {r \in A \X B : r[2][1] = "param" => FieldOf(r[1]) = FieldOf(r[2])}
<1>1. /\ n \in Nat /\ DOMAIN m.params = 1 .. n /\ DOMAIN call.args = 1 .. n
      /\ \A k \in 1 .. n : call.args[k] \in Argument
      /\ mi \in Info /\ mi.params = Overviewed(m).params
  BY MethodIs, ElementOfSeq, LenProperties DEF CallOf, InfoOf
<1>2. ArgsFor(call, m) = FlattenSeq(new) /\ Signature(m, mi) = FlattenSeq(old)
  BY <1>1 DEF ArgsFor, Signature
<1>3. Overviewed(m) \in Info BY NewMethodInfoIs, OverviewInfoIs DEF Overviewed
<1>4. PICK s, t : s = new /\ t = old OBVIOUS
<1>5. ASSUME NEW k \in 1 .. n
      PROVE  s[k] \in Seq(A) /\ t[k] \in Seq(B) /\ Fits(s[k], t[k])
  <2>1. PICK a, arg : a = ParamAt(Overviewed(m), k) /\ arg = call.args[k] OBVIOUS
  <2>2. EntryOK(a) /\ arg \in Argument BY <1>1, <1>3, <2>1, ParamAtIs
  <2>3. s[k] = NewArg(arg, a) /\ t[k] = ParamText(m, mi, k) BY <1>4, <2>1
  <2>4. s[k] \in Seq(A) BY <2>2, <2>3, NewArgIs
  <2>5. t[k] \in Seq(B) BY <1>1, <2>3, ParamTextIs
  <2>6. Fits(NewArg(arg, a), ParamText(m, mi, k)) BY <1>1, <2>1, <2>2, ParamFits
  <2>. QED BY <2>3, <2>4, <2>5, <2>6
<1>6. /\ s = [k \in 1 .. n |-> s[k]] /\ t = [k \in 1 .. n |-> t[k]]
      /\ Len(s) = n /\ Len(t) = n
  BY <1>1, <1>4
<1>. HIDE DEF A, B, n, new, old
<1>7. s \in Seq(Seq(A)) /\ t \in Seq(Seq(B))
  <2>1. (\A k \in 1 .. n : s[k] \in Seq(A)) /\ (\A k \in 1 .. n : t[k] \in Seq(B))
    BY <1>5
  <2>2. n \in Nat BY <1>1
  <2>3. [k \in 1 .. n |-> s[k]] \in Seq(Seq(A)) BY <2>1, <2>2, IsASeq
  <2>4. [k \in 1 .. n |-> t[k]] \in Seq(Seq(B)) BY <2>1, <2>2, IsASeq
  <2>. QED BY <1>6, <2>3, <2>4
<1>8. ASSUME NEW k \in 1 .. n
      PROVE  Len(s[k]) = Len(t[k]) /\ \A j \in 1 .. Len(s[k]) : <<s[k][j], t[k][j]>> \in R
  <2>1. PICK x, y : x = s[k] /\ y = t[k] OBVIOUS
  <2>2. x \in Seq(A) /\ y \in Seq(B) /\ Fits(x, y) BY <1>5, <2>1
  <2>3. Len(x) = Len(y) /\ \A j \in 1 .. Len(x) : x[j] \in A /\ y[j] \in B
    BY <2>2, ElementOfSeq DEF Fits
  <2>4. \A j \in 1 .. Len(x) : <<x[j], y[j]>> \in R
    <3>1. SUFFICES ASSUME NEW j \in 1 .. Len(x) PROVE <<x[j], y[j]>> \in R OBVIOUS
    <3>2. PICK u, v : u = x[j] /\ v = y[j] OBVIOUS
    <3>3. u \in A /\ v \in B /\ (v[1] = "param" => FieldOf(u) = FieldOf(v))
      BY <2>2, <2>3, <3>2 DEF Fits
    <3>4. <<u, v>> \in R BY <3>3
    <3>. QED BY <3>2, <3>4
  <2>. QED BY <2>1, <2>3, <2>4
<1>9. ASSUME NEW u, NEW v, <<u, v>> \in R
      PROVE  v[1] = "param" => FieldOf(u) = FieldOf(v)
  BY <1>9
<1>. HIDE DEF R
<1>10. /\ Len(FlattenSeq(s)) = Len(FlattenSeq(t))
       /\ \A k \in 1 .. Len(FlattenSeq(s)) : <<FlattenSeq(s)[k], FlattenSeq(t)[k]>> \in R
  BY <1>6, <1>7, <1>8, FlattenAligned
<1>. QED BY <1>2, <1>4, <1>9, <1>10 DEF Fits

-----------------------------------------------------------------------------
(* The class                                                               *)

LEMMA StateIs ==
  ASSUME ClassTypeOK
  PROVE  /\ program \in Programs /\ Len(program) \in Nat
         /\ DOMAIN program = 1 .. Len(program)
         /\ \A i \in DOMAIN program :
              program[i] \in Method /\ program[i].name \in Named /\ Distinct(program[i])
         /\ \A n \in DOMAIN methods : methods[n] \in Info /\ n \in Named
         /\ Others \subseteq DOMAIN program
<1>1. program \in Programs BY DEF ClassTypeOK
<1>2. ASSUME NEW i \in DOMAIN program
      PROVE  program[i] \in Method /\ program[i].name \in Named /\ Distinct(program[i])
  <2>1. program[i] \in Method /\ program[i] \in ToSet(program) /\ Compiles(program)
    BY <1>1, ProgramIs
  <2>2. program[i].name \in Named BY <2>1, MethodIs
  <2>. QED BY <2>1, <2>2 DEF Compiles, Distinct
<1>3. ASSUME NEW n \in DOMAIN methods PROVE methods[n] \in Info /\ n \in Named
  <2>1. PICK mi : mi = methods[n] OBVIOUS
  <2>2. /\ n \in Named /\ mi \in MethodInfo
        /\ \A i \in DOMAIN mi.params : mi.params[i].origin = "" => mi.params[i].news = << >>
    BY <2>1 DEF ClassTypeOK
  <2>3. \A i \in DOMAIN mi.params : mi.params[i] \in Action
    <3>1. mi.params \in Seq(Action) BY <2>2 DEF MethodInfo
    <3>. QED BY <3>1, ElementOfSeq, LenProperties
  <2>. QED BY <2>1, <2>2, <2>3 DEF Info, EntryOK
<1>. QED BY <1>1, <1>2, <1>3, ProgramIs DEF Others

(* The method in hand: the first of the others, then an Extract.             *)
LEMMA PositionIs ==
  ASSUME ClassTypeOK, pc # "done"
  PROVE  /\ Position \in left /\ Position \in DOMAIN program
         /\ Current \in Method /\ Current.name \in Named
         /\ Position \in Others <=> Current.name # "Extract"
         /\ Position \in Others => \A j \in left \cap Others : Position <= j
         /\ Position \notin Others => left \cap Others = {}
<1>. DEFINE S == IF left \cap Others # {} THEN left \cap Others ELSE left
<1>1. left # {} /\ left \subseteq DOMAIN program BY DEF ClassTypeOK
<1>2. DOMAIN program \subseteq Nat BY StateIs
<1>3. S \in SUBSET Nat /\ S # {} BY <1>1, <1>2
<1>4. Position = CHOOSE i \in S : \A j \in S : i <= j BY DEF Position, Least
<1>. HIDE DEF S
<1>5. Position \in S /\ \A j \in S : Position <= j BY <1>3, <1>4, LeastIs
<1>. USE DEF S
<1>6. Position \in left /\ Position \in DOMAIN program BY <1>1, <1>5
<1>7. Current \in Method /\ Current.name \in Named BY <1>6, StateIs DEF Current
<1>8. Position \in Others <=> Current.name # "Extract" BY <1>6 DEF Current, Others
<1>. QED BY <1>5, <1>6, <1>7, <1>8

(* Others stay who they are.                                               *)
LEMMA SameProgram ==
  ASSUME program' = program
  PROVE  /\ Others' = Others
         /\ \A i : OnlyOne(i)' <=> OnlyOne(i)
         /\ \A p, c : Answers(p, c)' <=> Answers(p, c)
<1>1. Others' = Others BY DEF Others
<1>2. \A i : OnlyOne(i)' <=> OnlyOne(i) BY <1>1 DEF OnlyOne
<1>3. \A p, c : Answers(p, c)' <=> Answers(p, c) BY <1>1, <1>2 DEF Answers
<1>. QED BY <1>1, <1>2, <1>3

LEMMA SamePosition ==
  ASSUME program' = program, left' = left
  PROVE  Position' = Position /\ Current' = Current
<1>1. Others' = Others BY DEF Others
<1>2. Position' = Position BY <1>1 DEF Position, Least
<1>. QED BY <1>2 DEF Current

LEMMA SignatureSame ==
  ASSUME NEW m, NEW a, NEW b, a.params = b.params
  PROVE  Signature(m, a) = Signature(m, b)
<1>1. \A i : ParamAt(a, i) = ParamAt(b, i) BY DEF ParamAt
<1>2. \A i : ParamText(m, a, i) = ParamText(m, b, i) BY <1>1 DEF ParamText
<1>. QED BY <1>2 DEF Signature

-----------------------------------------------------------------------------
(* The new text                                                            *)

Uses == Variable \cup NewMember \cup NewParam \cup OldName

LEMMA NewArgsIs ==
  ASSUME \A n \in DOMAIN methods : methods[n] \in Info,
         NEW x \in Item, x.k = "call"
  PROVE  NewArgs(x) \in Seq(Variable \cup Argument)
<1>. DEFINE A == Variable \cup Argument
            s == [i \in DOMAIN x.args |->
                    IF x.to \in DOMAIN methods
                    THEN NewArg(x.args[i], ParamAt(methods[x.to], i)) ELSE <<x.args[i]>>]
            n == Len(x.args)
<1>1. x.args \in Seq(Argument) BY ItemIs
<1>2. n \in Nat /\ DOMAIN x.args = 1 .. n /\ \A i \in 1 .. n : x.args[i] \in Argument
  BY <1>1, ElementOfSeq, LenProperties
<1>3. ASSUME NEW i \in 1 .. n PROVE s[i] \in Seq(A)
  <2>1. PICK arg : arg = x.args[i] /\ arg \in Argument BY <1>2
  <2>2. CASE x.to \in DOMAIN methods
    <3>1. PICK a : a = ParamAt(methods[x.to], i) /\ EntryOK(a) BY <2>2, ParamAtIs
    <3>2. s[i] = NewArg(arg, a) BY <1>2, <2>1, <2>2, <3>1
    <3>. QED BY <2>1, <3>1, <3>2, NewArgIs
  <2>3. CASE x.to \notin DOMAIN methods
    <3>1. s[i] = <<arg>> BY <1>2, <2>1, <2>3
    <3>2. arg \in A BY <2>1
    <3>. HIDE DEF A, s
    <3>. QED BY <3>1, <3>2
  <2>. QED BY <2>2, <2>3
<1>4. s = [i \in 1 .. n |-> s[i]] BY <1>2
<1>5. NewArgs(x) = FlattenSeq(s) BY DEF NewArgs
<1>. HIDE DEF s, n, A
<1>6. s \in Seq(Seq(A)) BY <1>2, <1>3, <1>4, IsASeq
<1>7. FlattenSeq(s) \in Seq(A) BY <1>6, FlattenSeqProperties
<1>. QED BY <1>5, <1>7 DEF A

LEMMA CallVars ==
  ASSUME \A n \in DOMAIN methods : methods[n] \in Info,
         NEW x \in Item, x.k = "call"
  PROVE  {a \in ToSet(NewArgs(x)) : a[1] = "var"} \subseteq Variable
<1>1. NewArgs(x) \in Seq(Variable \cup Argument) BY NewArgsIs
<1>2. \A a \in ToSet(NewArgs(x)) : a \in Variable \cup Argument
  BY <1>1, ElementOfSeq, LenProperties DEF ToSet
<1>3. \A a \in Argument : a[1] # "var" BY DEF Argument
<1>. QED BY <1>2, <1>3

LEMMA ItemUsesIs ==
  ASSUME \A n \in DOMAIN methods : methods[n] \in Info,
         NEW m, NEW x \in Item
  PROVE  /\ ItemUses(m, x) \subseteq Uses
         /\ \A u \in ItemUses(m, x) : u[1] = "member" => x.k = "functor"
         /\ x.k = "functor" => ItemUses(m, x) = {Member(x.f)}
<1>1. ASSUME NEW f \in Name, NEW g \in Name
      PROVE  /\ Var(f, g) \in Uses /\ Var(f, g)[1] # "member"
             /\ Param(f, g) \in Uses /\ Param(f, g)[1] # "member"
             /\ Old(f) \in Uses /\ Old(f)[1] # "member"
             /\ Member(f) \in Uses
  BY DEF Var, Param, Old, Member, Uses, Variable, NewParam, OldName, NewMember
<1>2. Named \subseteq Name /\ {"size", "adlog"} \subseteq Name
  BY ClassAssumption DEF Named
<1>3. CASE x.k = "read"
  <2>1. ItemUses(m, x) = {Var("adlog", x.f)} BY <1>3 DEF ItemUses
  <2>2. x.f \in Name BY <1>3, ItemIs
  <2>. QED BY <1>1, <1>2, <1>3, <2>1, <2>2
<1>4. CASE x.k = "functor"
  <2>1. ItemUses(m, x) = {Member(x.f)} BY <1>4 DEF ItemUses
  <2>2. x.f \in Name BY <1>4, ItemIs
  <2>. QED BY <1>1, <1>4, <2>1, <2>2
<1>5. CASE x.k = "size"
  <2>1. ItemUses(m, x) = {Param(x.p, "size")} BY <1>5 DEF ItemUses
  <2>2. x.p \in Name BY <1>2, <1>5, ItemIs
  <2>. QED BY <1>1, <1>2, <1>5, <2>1, <2>2
<1>6. CASE x.k = "get"
  <2>1. ItemUses(m, x) = {Param(x.p, x.f)} BY <1>6 DEF ItemUses
  <2>2. x.p \in Name /\ x.f \in Name BY <1>2, <1>6, ItemIs
  <2>. QED BY <1>1, <1>6, <2>1, <2>2
<1>7. CASE x.k = "getExpr"
  <2>1. ItemUses(m, x) = {Old(x.p)} BY <1>7 DEF ItemUses
  <2>2. x.p \in Name BY <1>2, <1>7, ItemIs
  <2>. QED BY <1>1, <1>7, <2>1, <2>2
<1>8. CASE x.k = "call"
  <2>1. ItemUses(m, x) = {a \in ToSet(NewArgs(x)) : a[1] = "var"} BY <1>8 DEF ItemUses
  <2>2. ItemUses(m, x) \subseteq Variable BY <1>8, <2>1, CallVars
  <2>. QED BY <1>8, <2>1, <2>2 DEF Uses
<1>9. CASE x.k = "gva" /\ m.name = "add_feature"
  <2>1. ItemUses(m, x) =
          UNION {ToSet(FixedFields[i]) : i \in DOMAIN x.args \cap DOMAIN FixedFields}
    BY <1>9 DEF ItemUses
  <2>2. ASSUME NEW u \in ItemUses(m, x) PROVE u \in NewParam
    <3>1. PICK i \in DOMAIN FixedFields : u \in ToSet(FixedFields[i]) BY <2>1
    <3>2. PICK s \in Seq(NewParam) : s = FixedFields[i] BY FixedIs
    <3>3. \A j \in DOMAIN s : s[j] \in NewParam BY ElementOfSeq, LenProperties
    <3>. QED BY <3>1, <3>2, <3>3 DEF ToSet
  <2>3. \A u \in NewParam : u[1] # "member" BY DEF NewParam
  <2>. QED BY <1>9, <2>2, <2>3 DEF Uses
<1>10. CASE x.k = "gva" /\ m.name # "add_feature"
  <2>1. ItemUses(m, x) = {Old(x.args[i]) : i \in DOMAIN x.args} BY <1>10 DEF ItemUses
  <2>2. PICK s \in Seq(Named) : s = x.args BY <1>10, ItemIs
  <2>3. \A i \in DOMAIN s : s[i] \in Named BY ElementOfSeq, LenProperties
  <2>. QED BY <1>1, <1>2, <1>10, <2>1, <2>2, <2>3
<1>. QED BY <1>3, <1>4, <1>5, <1>6, <1>7, <1>8, <1>9, <1>10, ItemIs

(* The new text of a method: its members are those of its functors.         *)
LEMMA NewTextIs ==
  ASSUME \A n \in DOMAIN methods : methods[n] \in Info, NEW m \in Method
  PROVE  /\ NewText(m) \in Text
         /\ MembersOf(NewText(m)) = {Member(x.f) : x \in Items(m, "functor")}
<1>1. \A i \in DOMAIN m.body : m.body[i] \in Item BY MethodIs
<1>2. \A kind : \A x \in Items(m, kind) : x \in Item /\ x.k = kind BY <1>1 DEF Items
<1>. DEFINE uses == UNION {ItemUses(m, m.body[i]) : i \in DOMAIN m.body}
            calls == {[to |-> c.to, args |-> NewArgs(c)] : c \in Items(m, "call")}
<1>3. NewText(m) = [uses |-> uses, calls |-> calls] BY DEF NewText
<1>4. uses \subseteq Uses BY <1>1, ItemUsesIs
<1>5. calls \subseteq [to : Named, args : Seq(Variable \cup Argument)]
  <2>1. SUFFICES ASSUME NEW c \in Items(m, "call")
                 PROVE  [to |-> c.to, args |-> NewArgs(c)]
                          \in [to : Named, args : Seq(Variable \cup Argument)]
    OBVIOUS
  <2>2. c \in Item /\ c.k = "call" BY <1>2
  <2>3. c.to \in Named BY <2>2, ItemIs
  <2>4. NewArgs(c) \in Seq(Variable \cup Argument) BY <2>2, NewArgsIs
  <2>. QED BY <2>3, <2>4
<1>6. {u \in uses : u[1] = "member"} = {Member(x.f) : x \in Items(m, "functor")}
  <2>1. ASSUME NEW u \in uses, u[1] = "member"
        PROVE  \E x \in Items(m, "functor") : u = Member(x.f)
    <3>1. PICK i \in DOMAIN m.body : u \in ItemUses(m, m.body[i]) BY <2>1
    <3>2. PICK x \in Item : x = m.body[i] BY <1>1
    <3>3. x.k = "functor" /\ u = Member(x.f) BY <2>1, <3>1, <3>2, ItemUsesIs
    <3>. QED BY <3>2, <3>3 DEF Items
  <2>2. ASSUME NEW x \in Items(m, "functor")
        PROVE  Member(x.f) \in uses /\ Member(x.f)[1] = "member"
    <3>1. PICK i \in DOMAIN m.body : x = m.body[i] BY DEF Items
    <3>2. ItemUses(m, x) = {Member(x.f)} BY <1>2, ItemUsesIs
    <3>3. Member(x.f)[1] = "member" BY DEF Member
    <3>. QED BY <3>1, <3>2, <3>3
  <2>. HIDE DEF uses
  <2>. QED BY <2>1, <2>2
<1>. HIDE DEF uses, calls
<1>7. NewText(m).uses = uses /\ NewText(m).calls = calls BY <1>3
<1>8. NewText(m) \in Text BY <1>3, <1>4, <1>5 DEF Text, Uses
<1>. QED BY <1>6, <1>7, <1>8 DEF MembersOf

(* In the body of a method whose callee at j has been overviewed, a call of *)
(* it gets the arguments for it.                                           *)
LEMMA NewArgsFor ==
  ASSUME NEW x, NEW m, x.to \in DOMAIN methods,
         methods[x.to].params = Overviewed(m).params
  PROVE  NewArgs(x) = ArgsFor(x, m)
<1>1. \A i : ParamAt(methods[x.to], i) = ParamAt(Overviewed(m), i) BY DEF ParamAt
<1>. QED BY <1>1 DEF NewArgs, ArgsFor

(* The methods declared above the one in hand, and with Extract all others, *)
(* have been overviewed.                                                   *)
LEMMA SeenBefore ==
  ASSUME ClassTypeOK, OrderInv, pc \in {"body", "write"},
         NEW j \in Others, Current.name = "Extract" \/ j <= Position
  PROVE  Seen(j)
<1>1. /\ Position \in left /\ Position \in DOMAIN program
      /\ Position \in Others <=> Current.name # "Extract"
      /\ Position \in Others => \A i \in left \cap Others : Position <= i
      /\ Position \notin Others => left \cap Others = {}
  BY PositionIs
<1>2. CASE j \in left
  <2>1. Position \in Others BY <1>1, <1>2
  <2>2. Position <= j /\ j <= Position BY <1>1, <1>2, <2>1
  <2>3. j \in Nat /\ Position \in Nat BY <1>1, StateIs
  <2>4. j = Position BY <2>2, <2>3
  <2>. QED BY <2>4 DEF Seen
<1>3. CASE j \notin left BY <1>3 DEF Seen
<1>. QED BY <1>2, <1>3

LEMMA NewTextAnswers ==
  ASSUME ClassTypeOK, OrderInv, InfoInv, pc = "body"
  PROVE  \A c \in NewText(Current).calls : Answers(Position, c)
<1>1. PICK m : m = Current OBVIOUS
<1>2. m = program[Position] BY <1>1 DEF Current
<1>3. SUFFICES ASSUME NEW c \in NewText(m).calls PROVE Answers(Position, c) BY <1>1
<1>4. PICK x \in Items(m, "call") : c = [to |-> x.to, args |-> NewArgs(x)]
  <2>1. NewText(m).calls = {[to |-> y.to, args |-> NewArgs(y)] : y \in Items(m, "call")}
    BY DEF NewText
  <2>. QED BY <1>3, <2>1
<1>5. c.to = x.to /\ c.args = NewArgs(x) BY <1>4
<1>6. ASSUME NEW j \in Others, OnlyOne(j), program[j].name = c.to,
             m.name = "Extract" \/ j <= Position
      PROVE  c.args = ArgsFor(x, program[j])
  <2>1. Seen(j) BY <1>1, <1>6, SeenBefore
  <2>2. /\ program[j].name \in DOMAIN methods
        /\ methods[program[j].name].params = Overviewed(program[j]).params
    BY <1>6, <2>1 DEF InfoInv
  <2>3. NewArgs(x) = ArgsFor(x, program[j]) BY <1>5, <1>6, <2>2, NewArgsFor
  <2>. QED BY <1>5, <2>3
<1>. QED BY <1>2, <1>4, <1>5, <1>6 DEF Answers

-----------------------------------------------------------------------------
(* The steps                                                               *)

LEMMA WithInfoIs ==
  ASSUME NEW mi
  PROVE  /\ DOMAIN WithInfo(mi) = DOMAIN methods \cup {Current.name}
         /\ WithInfo(mi)[Current.name] = mi
         /\ \A n \in DOMAIN methods : n # Current.name => WithInfo(mi)[n] = methods[n]
BY DEF WithInfo

(* A method that alone has its name has another name than the one in hand.   *)
LEMMA OtherName ==
  ASSUME Position \in Others, NEW i \in Others, OnlyOne(i), i # Position
  PROVE  program[i].name # Current.name
BY DEF OnlyOne, Current

(* What ClassTypeOK says of an info.                                       *)
InfoParts(mi) ==
  /\ mi \in MethodInfo
  /\ \A i \in DOMAIN mi.params : mi.params[i].origin = "" => mi.params[i].news = << >>

LEMMA InfoIsParts ==
  ASSUME NEW mi \in Info
  PROVE  InfoParts(mi)
BY DEF Info, EntryOK, InfoParts

(* The infos after the overview of the method in hand.                      *)
LEMMA OverviewMethodsIs ==
  ASSUME ClassTypeOK, pc # "done"
  PROVE  /\ \A n \in DOMAIN OverviewMethods :
              /\ n \in Named /\ OverviewMethods[n] \in Info
              /\ OverviewMethods[n].written =>
                   n \in DOMAIN methods /\ methods[n].written
         /\ \A n \in DOMAIN methods :
              /\ n \in DOMAIN OverviewMethods
              /\ OverviewMethods[n].written = methods[n].written
              /\ n # Current.name => OverviewMethods[n] = methods[n]
         /\ Current.name = "Extract" => OverviewMethods = methods
         /\ Current.name # "Extract" =>
              /\ DOMAIN OverviewMethods = DOMAIN methods \cup {Current.name}
              /\ Current.name \notin DOMAIN methods =>
                   /\ OverviewMethods[Current.name].params = Overviewed(Current).params
                   /\ ~OverviewMethods[Current.name].written
<1>1. \A n \in DOMAIN methods : methods[n] \in Info /\ n \in Named BY StateIs
<1>2. CASE Current.name = "Extract"
  <2>1. OverviewMethods = methods BY <1>2 DEF OverviewMethods
  <2>. QED BY <1>1, <1>2, <2>1
<1>3. CASE Current.name # "Extract"
  <2>1. PICK m, touched, mi, new :
           /\ m = Current /\ touched = Touch(m.name)
           /\ mi = OverviewInfo(m, touched) /\ new = OverviewMethods
    OBVIOUS
  <2>2. m \in Method /\ m.name \in Named BY <2>1, PositionIs
  <2>3. touched \in Info BY <1>1, <2>1, NewMethodInfoIs DEF Touch
  <2>4. mi \in Info /\ mi.written = touched.written
    BY <2>1, <2>2, <2>3, OverviewInfoIs DEF SameRest
  <2>5. new = WithInfo(mi) BY <1>3, <2>1 DEF OverviewMethods
  <2>6. /\ DOMAIN new = DOMAIN methods \cup {m.name} /\ new[m.name] = mi
        /\ \A n \in DOMAIN methods : n # m.name => new[n] = methods[n]
    BY <2>1, <2>5, WithInfoIs
  <2>7. CASE m.name \in DOMAIN methods
    <3>1. touched = methods[m.name] BY <2>1, <2>7 DEF Touch
    <3>. QED BY <1>1, <1>3, <2>1, <2>2, <2>4, <2>6, <2>7, <3>1
  <2>8. CASE m.name \notin DOMAIN methods
    <3>1. touched = NewMethodInfo BY <2>1, <2>8 DEF Touch
    <3>2. ~mi.written BY <2>4, <3>1, NewMethodInfoIs
    <3>3. mi.params = Overviewed(m).params BY <2>1, <3>1 DEF Overviewed
    <3>. QED BY <1>1, <1>3, <2>1, <2>2, <2>4, <2>6, <2>8, <3>2, <3>3
  <2>. QED BY <2>7, <2>8
<1>. QED BY <1>2, <1>3

LEMMA StepOverview ==
  ASSUME IInv, Overview
  PROVE  IInv'
<1>1. /\ ClassTypeOK /\ OrderInv /\ InfoInv /\ TextInv /\ MemberInv /\ DeclInv
      /\ pc = "overview" /\ pc' = "body" /\ fieldDefs' = {}
      /\ program' = program /\ left' = left /\ enums' = enums /\ text' = text
      /\ decls' = decls /\ result' = result /\ methods' = OverviewMethods
  BY DEF IInv, Overview
<1>2. /\ Others' = Others /\ \A i : OnlyOne(i)' <=> OnlyOne(i)
      /\ \A p, c : Answers(p, c)' <=> Answers(p, c)
  BY <1>1, SameProgram
<1>3. Position' = Position /\ Current' = Current BY <1>1, SamePosition
<1>4. /\ Position \in left /\ Position \in DOMAIN program
      /\ Current.name \in Named
      /\ Position \in Others <=> Current.name # "Extract"
  BY <1>1, PositionIs
<1>5. /\ \A n \in DOMAIN methods' :
           /\ n \in Named /\ methods'[n] \in Info
           /\ methods'[n].written => n \in DOMAIN methods /\ methods[n].written
      /\ \A n \in DOMAIN methods :
           /\ n \in DOMAIN methods'
           /\ methods'[n].written = methods[n].written
           /\ n # Current.name => methods'[n] = methods[n]
      /\ Current.name = "Extract" => methods' = methods
      /\ Current.name # "Extract" =>
           /\ DOMAIN methods' = DOMAIN methods \cup {Current.name}
           /\ Current.name \notin DOMAIN methods =>
                /\ methods'[Current.name].params = Overviewed(Current).params
                /\ ~methods'[Current.name].written
  BY <1>1, OverviewMethodsIs
<1>6. \A i : /\ Seen(i) <=> i \notin left
             /\ Seen(i)' <=> (i \notin left \/ i = Position)
  BY <1>1, <1>3 DEF Seen
<1>7. ASSUME NEW i \in Others, OnlyOne(i), i # Position
      PROVE  /\ program[i].name \in DOMAIN methods <=> program[i].name \in DOMAIN methods'
             /\ program[i].name \in DOMAIN methods =>
                  methods'[program[i].name] = methods[program[i].name]
  <2>1. CASE Position \in Others
    <3>1. program[i].name # Current.name BY <1>7, <2>1, OtherName
    <3>. QED BY <1>4, <1>5, <2>1, <3>1
  <2>2. CASE Position \notin Others BY <1>4, <1>5, <2>2
  <2>. QED BY <2>1, <2>2
<1>8. ClassTypeOK'
  <2>1. \A n \in DOMAIN methods' : InfoParts(methods'[n]) BY <1>5, InfoIsParts
  <2>2. \A n \in DOMAIN methods' :
          methods'[n].written => \E i \in DOMAIN decls : decls[i].name = n
    BY <1>1, <1>5 DEF ClassTypeOK
  <2>3. pc' \in {"overview", "body", "write", "done"} /\ (left' = {} <=> pc' = "done")
    BY <1>1, <1>4
  <2>4. \A n \in DOMAIN methods' :
          /\ n \in Named /\ methods'[n] \in MethodInfo
          /\ \A i \in DOMAIN methods'[n].params :
               methods'[n].params[i].origin = "" => methods'[n].params[i].news = << >>
    BY ONLY <1>5, <2>1 DEF InfoParts
  <2>5. fieldDefs' \subseteq NewMember BY <1>1
  <2>6. /\ program' \in Programs /\ left' \subseteq DOMAIN program' /\ enums' \subseteq Variable
        /\ text' \in Text /\ decls' \in Seq([name : Named, sig : NewSig])
        /\ result' \in [metas : SUBSET (Variable \cup NewMember),
                         members : SUBSET NewMember, text : Text]
    BY <1>1 DEF ClassTypeOK
  <2>7. \A n \in DOMAIN methods' :
          methods'[n].written => \E i \in DOMAIN decls' : decls'[i].name = n
    BY <1>1, <2>2
  <2>. QED BY ONLY <2>3, <2>4, <2>5, <2>6, <2>7 DEF ClassTypeOK
<1>9. OrderInv' BY <1>1, <1>2 DEF OrderInv
<1>10. InfoInv'
  <2>1. Position' \in Others' => Current'.name \in DOMAIN methods'
    BY <1>2, <1>3, <1>4, <1>5
  <2>2. ASSUME NEW i \in Others, OnlyOne(i)
        PROVE  LET name == program[i].name IN
               /\ name \in DOMAIN methods' <=> Seen(i)'
               /\ Seen(i)' => /\ methods'[name].params = Overviewed(program[i]).params
                              /\ methods'[name].written <=> i \notin left
               /\ i \notin left => methods'[name].sig = Signature(program[i], methods'[name])
    <3>1. PICK name : name = program[i].name OBVIOUS
    <3>2. /\ name \in DOMAIN methods <=> Seen(i)
          /\ Seen(i) => /\ methods[name].params = Overviewed(program[i]).params
                        /\ methods[name].written <=> i \notin left
          /\ i \notin left => methods[name].sig = Signature(program[i], methods[name])
      BY <1>1, <2>2, <3>1 DEF InfoInv
    <3>3. CASE i = Position
      <4>1. /\ name = Current.name /\ program[i] = Current /\ name # "Extract"
            /\ i \in left
        BY <1>4, <2>2, <3>1, <3>3 DEF Current
      <4>2. name \notin DOMAIN methods BY <1>6, <3>2, <4>1
      <4>. QED BY <1>5, <1>6, <3>1, <3>3, <4>1, <4>2
    <3>4. CASE i # Position
      <4>1. /\ name \in DOMAIN methods <=> name \in DOMAIN methods'
            /\ name \in DOMAIN methods => methods'[name] = methods[name]
        BY <1>7, <2>2, <3>1, <3>4
      <4>2. Seen(i)' <=> Seen(i) BY <1>6, <3>4
      <4>. QED BY <1>6, <3>1, <3>2, <4>1, <4>2
    <3>. QED BY <3>3, <3>4
  <2>. QED BY <1>1, <1>2, <2>1, <2>2 DEF InfoInv, Overviewed
<1>11. ASSUME NEW i \in Others \ left, OnlyOne(i)
       PROVE  methods'[program[i].name] = methods[program[i].name]
  <2>1. program[i].name \in DOMAIN methods BY <1>1, <1>6, <1>11 DEF InfoInv
  <2>2. i # Position BY <1>4, <1>11
  <2>. QED BY <1>7, <1>11, <2>1, <2>2
<1>12. TextInv'
  <2>1. \A i \in Others \ left : OnlyOne(i) =>
          \A c \in methods'[program[i].name].text.calls : Answers(i, c)
    BY <1>1, <1>11 DEF TextInv
  <2>2. \A i \in DOMAIN program \ (left \cup Others) :
          \A c \in result.text.calls : \E p \in DOMAIN program \ Others : Answers(p, c)
    BY <1>1 DEF TextInv
  <2>. QED BY <1>1, <1>2, <2>1, <2>2 DEF TextInv
<1>13. MemberInv'
  <2>1. \A i \in DOMAIN program \ (left \cup Others) :
          result.members = MembersOf(result.text)
    BY <1>1 DEF MemberInv
  <2>. QED BY <1>1, <1>2, <2>1 DEF MemberInv, MembersOf
<1>14. DeclInv'
  <2>1. \A i \in DOMAIN decls :
          decls[i].name \in DOMAIN methods' /\ methods'[decls[i].name].written
    BY <1>1, <1>5 DEF DeclInv
  <2>2. \A i \in Others \ left : OnlyOne(i) =>
          \E k \in DOMAIN decls : /\ decls[k].name = program[i].name
                                  /\ decls[k].sig = methods'[program[i].name].sig
    BY <1>1, <1>11 DEF DeclInv
  <2>3. Len(decls) = Cardinality(Others \ left) BY <1>1 DEF DeclInv
  <2>. QED BY <1>1, <1>2, <2>1, <2>2, <2>3 DEF DeclInv
<1>. QED BY <1>8, <1>9, <1>10, <1>12, <1>13, <1>14 DEF IInv

LEMMA StepRewriteBody ==
  ASSUME IInv, RewriteBody
  PROVE  IInv'
<1>1. /\ ClassTypeOK /\ OrderInv /\ InfoInv /\ TextInv /\ MemberInv /\ DeclInv
      /\ pc = "body" /\ pc' = "write" /\ text' = NewText(Current)
      /\ fieldDefs' = fieldDefs \cup {Member(x.f) : x \in Items(Current, "functor")}
      /\ enums' = enums \cup {Var("adlog", x.f) : x \in Items(Current, "read")}
                        \cup UNION {CallEnums(x) : x \in Items(Current, "call")}
      /\ program' = program /\ left' = left /\ methods' = methods
      /\ decls' = decls /\ result' = result
  BY DEF IInv, RewriteBody
<1>2. /\ Others' = Others /\ \A i : OnlyOne(i)' <=> OnlyOne(i)
      /\ \A p, c : Answers(p, c)' <=> Answers(p, c)
  BY <1>1, SameProgram
<1>3. Position' = Position /\ Current' = Current BY <1>1, SamePosition
<1>4. /\ Position \in left /\ Current \in Method BY <1>1, PositionIs
<1>5. \A n \in DOMAIN methods : methods[n] \in Info BY <1>1, StateIs
<1>6. \A i : Seen(i)' <=> Seen(i) BY <1>1, <1>3 DEF Seen
<1>7. /\ text' \in Text
      /\ MembersOf(text') = {Member(x.f) : x \in Items(Current, "functor")}
  BY <1>1, <1>4, <1>5, NewTextIs
<1>8. \A c \in text'.calls : Answers(Position, c) BY <1>1, NewTextAnswers
<1>9. \A kind : \A x \in Items(Current, kind) : x \in Item /\ x.k = kind
  <2>1. \A i \in DOMAIN Current.body : Current.body[i] \in Item BY <1>4, MethodIs
  <2>. QED BY <2>1 DEF Items
<1>10. fieldDefs' \subseteq NewMember
  <2>1. \A x \in Items(Current, "functor") : x.f \in Name BY <1>9, ItemIs
  <2>2. \A x \in Items(Current, "functor") : Member(x.f) \in NewMember
    BY <2>1 DEF Member, NewMember
  <2>. QED BY <1>1, <2>2 DEF ClassTypeOK
<1>11. enums' \subseteq Variable
  <2>1. \A x \in Items(Current, "read") : x.f \in Name BY <1>9, ItemIs
  <2>2. \A x \in Items(Current, "read") : Var("adlog", x.f) \in Variable
    BY <2>1, ClassAssumption DEF Var, Variable
  <2>3. \A x \in Items(Current, "call") : CallEnums(x) \subseteq Variable
    BY <1>5, <1>9, CallVars DEF CallEnums, CallDefs
  <2>. QED BY <1>1, <2>2, <2>3 DEF ClassTypeOK
<1>12. ClassTypeOK'
  <2>1. pc' \in {"overview", "body", "write", "done"} /\ (left' = {} <=> pc' = "done")
    BY <1>1, <1>4
  <2>. QED BY <1>1, <1>7, <1>10, <1>11, <2>1 DEF ClassTypeOK
<1>13. OrderInv' BY <1>1, <1>2 DEF OrderInv
<1>14. InfoInv' BY <1>1, <1>2, <1>3, <1>6 DEF InfoInv
<1>15. TextInv' BY <1>1, <1>2, <1>3, <1>8 DEF TextInv
<1>16. MemberInv'
  <2>1. fieldDefs' = MembersOf(text') BY <1>1, <1>7 DEF MemberInv
  <2>. QED BY <1>1, <1>2, <2>1 DEF MemberInv, MembersOf
<1>17. DeclInv' BY <1>1, <1>2 DEF DeclInv
<1>. QED BY <1>12, <1>13, <1>14, <1>15, <1>16, <1>17 DEF IInv

(* One declaration more.                                                   *)
LEMMA OneMore ==
  ASSUME NEW T, NEW s \in Seq(T), NEW e \in T
  PROVE  /\ Append(s, e) \in Seq(T) /\ Len(Append(s, e)) = Len(s) + 1
         /\ DOMAIN Append(s, e) = DOMAIN s \cup {Len(s) + 1}
         /\ Append(s, e)[Len(s) + 1] = e
         /\ \A i \in DOMAIN s : Append(s, e)[i] = s[i]
<1>1. Len(s) \in Nat /\ DOMAIN s = 1 .. Len(s) BY LenProperties
<1>2. /\ Append(s, e) \in Seq(T) /\ Len(Append(s, e)) = Len(s) + 1
      /\ Append(s, e)[Len(s) + 1] = e
      /\ \A i \in 1 .. Len(s) : Append(s, e)[i] = s[i]
  BY AppendProperties
<1>3. DOMAIN Append(s, e) = 1 .. Len(s) + 1 BY <1>2, LenProperties
<1>. QED BY <1>1, <1>2, <1>3

(* The info of the method written.                                         *)
WithText(new, mi, sig, t) ==
  new = [mi EXCEPT !.written = TRUE, !.sig = sig, !.text = t]

LEMMA WrittenIs ==
  ASSUME NEW mi \in Info, NEW sig \in NewSig, NEW t \in Text, NEW new,
         WithText(new, mi, sig, t)
  PROVE  /\ new \in Info /\ new.params = mi.params /\ new.written
         /\ new.sig = sig /\ new.text = t
<1>1. /\ mi \in MethodInfo
      /\ \A i \in DOMAIN mi.params : EntryOK(mi.params[i])
  BY DEF Info
<1>2. /\ new \in MethodInfo /\ new.params = mi.params /\ new.written
      /\ new.sig = sig /\ new.text = t
  BY <1>1 DEF MethodInfo, WithText
<1>. QED BY <1>1, <1>2 DEF Info

LEMMA OthersFinite ==
  ASSUME ClassTypeOK, NEW S \in SUBSET Others
  PROVE  IsFiniteSet(S)
<1>1. Len(program) \in Nat /\ S \subseteq 1 .. Len(program) BY StateIs
<1>2. IsFiniteSet(1 .. Len(program)) BY <1>1, FS_Interval
<1>. QED BY <1>1, <1>2, FS_Subset

LEMMA StepWriteMethod ==
  ASSUME IInv, WriteMethod
  PROVE  IInv'
<1>. DEFINE name == Current.name
<1>1. PICK mi, new : /\ mi = methods[name]
                     /\ new = [mi EXCEPT !.written = TRUE, !.sig = NewSignature,
                                         !.text = text]
  OBVIOUS
<1>2. /\ ClassTypeOK /\ OrderInv /\ InfoInv /\ TextInv /\ MemberInv /\ DeclInv
      /\ pc = "write" /\ name # "Extract" /\ methods' = WithInfo(new)
      /\ decls' = Append(decls, [name |-> name, sig |-> NewSignature])
      /\ left' = left \ {Position}
      /\ pc' = IF left = {Position} THEN "done" ELSE "overview"
      /\ program' = program /\ fieldDefs' = fieldDefs /\ enums' = enums
      /\ text' = text /\ result' = result
  BY <1>1 DEF IInv, WriteMethod, NextMethod
<1>3. /\ Others' = Others /\ \A i : OnlyOne(i)' <=> OnlyOne(i)
      /\ \A p, c : Answers(p, c)' <=> Answers(p, c)
  BY <1>2, SameProgram
<1>4. /\ Position \in left /\ Position \in DOMAIN program /\ Position \in Others
      /\ Current \in Method /\ name \in Named
      /\ \A j \in left \cap Others : Position <= j
  BY <1>2, PositionIs
<1>5. /\ \A n \in DOMAIN methods : methods[n] \in Info /\ n \in Named
      /\ DOMAIN program \subseteq Nat
  BY <1>2, StateIs
<1>6. name \in DOMAIN methods /\ mi \in Info BY <1>1, <1>2, <1>4, <1>5 DEF InfoInv
<1>7. NewSignature = Signature(Current, mi) /\ NewSignature \in NewSig
  BY <1>1, <1>4, <1>6, SignatureIs DEF NewSignature
<1>8. text \in Text BY <1>2 DEF ClassTypeOK
<1>9. /\ new \in Info /\ new.params = mi.params /\ new.written
      /\ new.sig = NewSignature /\ new.text = text
  <2>1. PICK sig, t : sig = NewSignature /\ t = text OBVIOUS
  <2>2. sig \in NewSig /\ t \in Text BY <1>7, <1>8, <2>1
  <2>3. WithText(new, mi, sig, t) BY <1>1, <2>1 DEF WithText
  <2>4. /\ new \in Info /\ new.params = mi.params /\ new.written
        /\ new.sig = sig /\ new.text = t
    BY <1>6, <2>2, <2>3, WrittenIs
  <2>. QED BY <2>1, <2>4
<1>10. /\ DOMAIN methods' = DOMAIN methods /\ methods'[name] = new
       /\ \A n \in DOMAIN methods : n # name => methods'[n] = methods[n]
  BY <1>2, <1>6, WithInfoIs
<1>11. /\ decls' \in Seq([name : Named, sig : NewSig]) /\ Len(decls') = Len(decls) + 1
       /\ DOMAIN decls' = DOMAIN decls \cup {Len(decls) + 1}
       /\ decls'[Len(decls) + 1] = [name |-> name, sig |-> NewSignature]
       /\ \A i \in DOMAIN decls : decls'[i] = decls[i]
  <2>1. PICK d : d = [name |-> name, sig |-> NewSignature] OBVIOUS
  <2>2. d \in [name : Named, sig : NewSig] BY <1>4, <1>7, <2>1
  <2>3. decls \in Seq([name : Named, sig : NewSig]) BY <1>2 DEF ClassTypeOK
  <2>4. decls' = Append(decls, d) BY <1>2, <2>1
  <2>. QED BY <2>1, <2>2, <2>3, <2>4, OneMore
<1>12. PICK last : /\ last = Len(decls) + 1 /\ last \in DOMAIN decls'
                   /\ decls'[last].name = name /\ decls'[last].sig = NewSignature
  BY <1>11
<1>13. ASSUME NEW i \in Others, OnlyOne(i), i # Position
       PROVE  program[i].name # name
  BY <1>4, <1>13, OtherName
<1>14. \A i : /\ Seen(i) <=> (i \notin left \/ i = Position)
              /\ Seen(i)' <=> (i \notin left \/ i = Position)
              /\ i \notin left' <=> (i \notin left \/ i = Position)
  <2>1. pc' \notin {"body", "write"} BY <1>2
  <2>. QED BY <1>2, <2>1 DEF Seen
<1>15. ClassTypeOK'
  <2>1. \A n \in DOMAIN methods' : n \in Named /\ methods'[n] \in Info
    BY <1>5, <1>9, <1>10
  <2>2. \A n \in DOMAIN methods' : InfoParts(methods'[n]) BY <2>1, InfoIsParts
  <2>3. ASSUME NEW n \in DOMAIN methods', methods'[n].written
        PROVE  \E i \in DOMAIN decls' : decls'[i].name = n
    <3>1. CASE n = name BY <1>12, <3>1
    <3>2. CASE n # name
      <4>1. PICK i \in DOMAIN decls : decls[i].name = n
        BY <1>2, <1>10, <2>3, <3>2 DEF ClassTypeOK
      <4>. QED BY <1>11, <4>1
    <3>. QED BY <3>1, <3>2
  <2>4. /\ pc' \in {"overview", "body", "write", "done"} /\ (left' = {} <=> pc' = "done")
        /\ left' \subseteq DOMAIN program
    <3>1. left' = {} <=> left = {Position} BY <1>2, <1>4
    <3>2. left \subseteq DOMAIN program BY <1>2 DEF ClassTypeOK
    <3>. QED BY <1>2, <3>1, <3>2
  <2>5. /\ program' \in Programs /\ fieldDefs' \subseteq NewMember
        /\ enums' \subseteq Variable /\ text' \in Text
        /\ result' \in [metas : SUBSET (Variable \cup NewMember),
                        members : SUBSET NewMember, text : Text]
    BY <1>2 DEF ClassTypeOK
  <2>6. left' \subseteq DOMAIN program' BY <1>2, <2>4
  <2>. QED BY <1>11, <2>1, <2>2, <2>3, <2>4, <2>5, <2>6 DEF ClassTypeOK, InfoParts
<1>16. OrderInv'
  <2>1. ASSUME NEW i \in DOMAIN program \ left', NEW j \in Others,
               i \notin Others \/ j <= i
        PROVE  j \notin left'
    <3>1. CASE i = Position
      <4>1. j <= Position BY <1>4, <2>1, <3>1
      <4>2. j \notin left \/ Position <= j BY <1>4, <2>1
      <4>3. j \in Nat /\ Position \in Nat BY <1>4, <1>5 DEF Others
      <4>4. j \notin left \/ j = Position BY <4>1, <4>2, <4>3
      <4>. QED BY <1>14, <4>4
    <3>2. CASE i # Position
      <4>1. i \notin left BY <1>14, <2>1, <3>2
      <4>2. j \notin left BY <1>2, <2>1, <4>1 DEF OrderInv
      <4>. QED BY <1>14, <4>2
    <3>. QED BY <3>1, <3>2
  <2>. QED BY <1>2, <1>3, <2>1 DEF OrderInv
<1>17. ASSUME NEW i \in Others, OnlyOne(i), NEW n, n = program[i].name
       PROVE  /\ n \in DOMAIN methods <=> Seen(i)
              /\ Seen(i) => /\ methods[n].params = Overviewed(program[i]).params
                            /\ methods[n].written <=> i \notin left
              /\ i \notin left => methods[n].sig = Signature(program[i], methods[n])
  BY <1>2, <1>17 DEF InfoInv
<1>18. InfoInv'
  <2>1. ASSUME NEW i \in Others, OnlyOne(i)
        PROVE  LET n == program[i].name IN
               /\ n \in DOMAIN methods' <=> Seen(i)'
               /\ Seen(i)' => /\ methods'[n].params = Overviewed(program[i]).params
                              /\ methods'[n].written <=> i \notin left'
               /\ i \notin left' => methods'[n].sig = Signature(program[i], methods'[n])
    <3>1. PICK n : n = program[i].name OBVIOUS
    <3>2. /\ n \in DOMAIN methods <=> Seen(i)
          /\ Seen(i) => /\ methods[n].params = Overviewed(program[i]).params
                        /\ methods[n].written <=> i \notin left
          /\ i \notin left => methods[n].sig = Signature(program[i], methods[n])
      BY <1>17, <2>1, <3>1
    <3>3. CASE i = Position
      <4>1. n = name /\ program[i] = Current BY <3>1, <3>3 DEF Current
      <4>2. methods'[n] = new /\ methods[n] = mi BY <1>1, <1>10, <4>1
      <4>3. Signature(program[i], new) = NewSignature
        BY <1>7, <1>9, <4>1, SignatureSame
      <4>. QED BY <1>9, <1>10, <1>14, <3>1, <3>2, <3>3, <4>2, <4>3
    <3>4. CASE i # Position
      <4>1. n # name BY <1>13, <2>1, <3>1, <3>4
      <4>2. n \in DOMAIN methods => methods'[n] = methods[n] BY <1>10, <4>1
      <4>. QED BY <1>10, <1>14, <3>1, <3>2, <3>4, <4>2
    <3>. QED BY <3>3, <3>4
  <2>2. pc' \notin {"body", "write"} BY <1>2
  <2>. QED BY <1>2, <1>3, <2>1, <2>2 DEF InfoInv, Overviewed
<1>19. ASSUME NEW i \in Others \ left, OnlyOne(i)
       PROVE  methods'[program[i].name] = methods[program[i].name]
  <2>1. program[i].name \in DOMAIN methods BY <1>14, <1>17, <1>19
  <2>2. i # Position BY <1>4, <1>19
  <2>. QED BY <1>10, <1>13, <1>19, <2>1, <2>2
<1>20. TextInv'
  <2>1. ASSUME NEW i \in Others \ left', OnlyOne(i),
               NEW c \in methods'[program[i].name].text.calls
        PROVE  Answers(i, c)
    <3>1. CASE i = Position
      <4>1. program[i].name = name BY <3>1 DEF Current
      <4>2. c \in text.calls BY <1>9, <1>10, <2>1, <4>1
      <4>. QED BY <1>2, <3>1, <4>2 DEF TextInv
    <3>2. CASE i # Position
      <4>1. i \in Others \ left BY <1>14, <2>1, <3>2
      <4>2. c \in methods[program[i].name].text.calls BY <1>19, <2>1, <4>1
      <4>. QED BY <1>2, <2>1, <4>1, <4>2 DEF TextInv
    <3>. QED BY <3>1, <3>2
  <2>2. ASSUME NEW i \in DOMAIN program \ (left' \cup Others)
        PROVE  \A c \in result.text.calls : \E p \in DOMAIN program \ Others : Answers(p, c)
    <3>1. i \notin left BY <1>4, <1>14, <2>2
    <3>. QED BY <1>2, <2>2, <3>1 DEF TextInv
  <2>3. pc' # "write" BY <1>2
  <2>. QED BY <1>2, <1>3, <2>1, <2>2, <2>3 DEF TextInv
<1>21. MemberInv'
  <2>1. ASSUME NEW i \in DOMAIN program \ (left' \cup Others)
        PROVE  result.members = MembersOf(result.text)
    <3>1. i \notin left BY <1>4, <1>14, <2>1
    <3>. QED BY <1>2, <2>1, <3>1 DEF MemberInv
  <2>2. pc' \notin {"body", "write"} BY <1>2
  <2>. QED BY <1>2, <1>3, <2>1, <2>2 DEF MemberInv, MembersOf
<1>22. DeclInv'
  <2>1. Len(decls') = Cardinality(Others \ left')
    <3>1. Others \ left' = (Others \ left) \cup {Position} BY <1>2, <1>4
    <3>2. IsFiniteSet(Others \ left) /\ Position \notin Others \ left
      BY <1>2, <1>4, OthersFinite
    <3>3. Cardinality((Others \ left) \cup {Position}) = Cardinality(Others \ left) + 1
      BY <3>2, FS_AddElement
    <3>. QED BY <1>2, <1>11, <3>1, <3>3 DEF DeclInv
  <2>2. ASSUME NEW i \in DOMAIN decls'
        PROVE  decls'[i].name \in DOMAIN methods' /\ methods'[decls'[i].name].written
    <3>1. CASE i = last BY <1>6, <1>9, <1>10, <1>12, <3>1
    <3>2. CASE i # last
      <4>1. i \in DOMAIN decls /\ decls'[i] = decls[i] BY <1>11, <1>12, <2>2, <3>2
      <4>2. decls[i].name \in DOMAIN methods /\ methods[decls[i].name].written
        BY <1>2, <4>1 DEF DeclInv
      <4>. QED BY <1>9, <1>10, <4>1, <4>2
    <3>. QED BY <3>1, <3>2
  <2>3. ASSUME NEW i \in Others \ left', OnlyOne(i)
        PROVE  \E k \in DOMAIN decls' : /\ decls'[k].name = program[i].name
                                        /\ decls'[k].sig = methods'[program[i].name].sig
    <3>1. CASE i = Position
      <4>1. program[i].name = name BY <3>1 DEF Current
      <4>. QED BY <1>9, <1>10, <1>12, <4>1
    <3>2. CASE i # Position
      <4>1. i \in Others \ left BY <1>14, <2>3, <3>2
      <4>2. PICK k \in DOMAIN decls : /\ decls[k].name = program[i].name
                                      /\ decls[k].sig = methods[program[i].name].sig
        BY <1>2, <2>3, <4>1 DEF DeclInv
      <4>. QED BY <1>11, <1>19, <2>3, <4>1, <4>2
    <3>. QED BY <3>1, <3>2
  <2>. QED BY <1>2, <1>3, <2>1, <2>2, <2>3 DEF DeclInv
<1>. QED BY <1>15, <1>16, <1>18, <1>20, <1>21, <1>22 DEF IInv

LEMMA StepWriteExtract ==
  ASSUME IInv, WriteExtract
  PROVE  IInv'
<1>1. /\ ClassTypeOK /\ OrderInv /\ InfoInv /\ TextInv /\ MemberInv /\ DeclInv
      /\ pc = "write" /\ Current.name = "Extract"
      /\ result' = [metas |-> enums \cup fieldDefs, members |-> fieldDefs, text |-> text]
      /\ left' = left \ {Position}
      /\ pc' = IF left = {Position} THEN "done" ELSE "overview"
      /\ program' = program /\ methods' = methods /\ fieldDefs' = fieldDefs
      /\ enums' = enums /\ text' = text /\ decls' = decls
  BY DEF IInv, WriteExtract, NextMethod, Metas, Members
<1>2. /\ Others' = Others /\ \A i : OnlyOne(i)' <=> OnlyOne(i)
      /\ \A p, c : Answers(p, c)' <=> Answers(p, c)
  BY <1>1, SameProgram
<1>3. /\ Position \in left /\ Position \in DOMAIN program /\ Position \notin Others
      /\ left \cap Others = {}
  BY <1>1, PositionIs
<1>4. \A i \in Others : i \notin left /\ i \notin left' /\ Seen(i) /\ Seen(i)'
  BY <1>1, <1>3 DEF Seen
<1>5. pc' \notin {"body", "write"} BY <1>1
<1>6. ClassTypeOK'
  <2>1. pc' \in {"overview", "body", "write", "done"} /\ (left' = {} <=> pc' = "done")
    <3>1. left' = {} <=> left = {Position} BY <1>1, <1>3
    <3>. QED BY <1>1, <3>1
  <2>2. result' \in [metas : SUBSET (Variable \cup NewMember),
                     members : SUBSET NewMember, text : Text]
    <3>1. fieldDefs \subseteq NewMember /\ enums \subseteq Variable /\ text \in Text
      BY <1>1 DEF ClassTypeOK
    <3>. QED BY <1>1, <3>1
  <2>. QED BY <1>1, <2>1, <2>2 DEF ClassTypeOK
<1>7. OrderInv' BY <1>1, <1>2, <1>4 DEF OrderInv
<1>8. InfoInv'
  <2>1. \A i \in Others : OnlyOne(i) =>
          LET name == program[i].name IN
          /\ name \in DOMAIN methods
          /\ methods[name].params = Overviewed(program[i]).params
          /\ methods[name].written
          /\ methods[name].sig = Signature(program[i], methods[name])
    BY <1>1, <1>4 DEF InfoInv
  <2>. QED BY <1>1, <1>2, <1>4, <1>5, <2>1 DEF InfoInv
<1>9. TextInv'
  <2>1. \A c \in text.calls : \E p \in DOMAIN program \ Others : Answers(p, c)
    BY <1>1, <1>3 DEF TextInv
  <2>2. \A i \in Others : OnlyOne(i) =>
          \A c \in methods[program[i].name].text.calls : Answers(i, c)
    BY <1>1, <1>4 DEF TextInv
  <2>3. result'.text = text /\ pc' # "write" BY <1>1
  <2>. QED BY <1>1, <1>2, <2>1, <2>2, <2>3 DEF TextInv
<1>10. MemberInv'
  <2>1. result'.members = MembersOf(result'.text)
    BY <1>1 DEF MemberInv
  <2>. QED BY <1>5, <2>1 DEF MemberInv, MembersOf
<1>11. DeclInv'
  <2>1. Others \ left' = Others \ left BY <1>4
  <2>. QED BY <1>1, <1>2, <2>1 DEF DeclInv
<1>. QED BY <1>6, <1>7, <1>8, <1>9, <1>10, <1>11 DEF IInv

LEMMA StepNothing ==
  ASSUME IInv, UNCHANGED vars
  PROVE  IInv'
<1>1. /\ ClassTypeOK /\ OrderInv /\ InfoInv /\ TextInv /\ MemberInv /\ DeclInv
      /\ program' = program /\ pc' = pc /\ left' = left /\ methods' = methods
      /\ fieldDefs' = fieldDefs /\ enums' = enums /\ text' = text
      /\ decls' = decls /\ result' = result
  BY DEF IInv, vars
<1>2. /\ Others' = Others /\ \A i : OnlyOne(i)' <=> OnlyOne(i)
      /\ \A p, c : Answers(p, c)' <=> Answers(p, c)
  BY <1>1, SameProgram
<1>3. Position' = Position /\ Current' = Current BY <1>1, SamePosition
<1>4. \A i : Seen(i)' <=> Seen(i) BY <1>1, <1>3 DEF Seen
<1>5. ClassTypeOK' BY <1>1 DEF ClassTypeOK
<1>6. OrderInv' BY <1>1, <1>2 DEF OrderInv
<1>7. InfoInv' BY <1>1, <1>2, <1>3, <1>4 DEF InfoInv
<1>8. TextInv' BY <1>1, <1>2, <1>3 DEF TextInv
<1>9. MemberInv' BY <1>1, <1>2 DEF MemberInv
<1>10. DeclInv' BY <1>1, <1>2 DEF DeclInv
<1>. QED BY <1>5, <1>6, <1>7, <1>8, <1>9, <1>10 DEF IInv

LEMMA InitIInv == Init => IInv
<1>. SUFFICES ASSUME Init PROVE IInv OBVIOUS
<1>1. /\ program \in Programs /\ left = DOMAIN program /\ pc = "overview"
      /\ methods = << >> /\ fieldDefs = {} /\ enums = {}
      /\ text = NoText /\ decls = << >> /\ result = NoResult
  BY DEF Init
<1>2. DOMAIN program # {} /\ Others \subseteq left
  <2>1. Len(program) \in Nat \ {0} /\ DOMAIN program = 1 .. Len(program)
    BY <1>1, ProgramIs
  <2>. QED BY <1>1, <2>1 DEF Others
<1>3. DOMAIN methods = {} BY <1>1
<1>4. ClassTypeOK
  <2>1. text \in Text BY <1>1 DEF NoText, Text
  <2>2. decls \in Seq([name : Named, sig : NewSig]) BY <1>1
  <2>3. result \in [metas : SUBSET (Variable \cup NewMember), members : SUBSET NewMember,
                    text : Text]
    BY <1>1, <2>1 DEF NoResult
  <2>. QED BY <1>1, <1>2, <1>3, <2>1, <2>2, <2>3 DEF ClassTypeOK
<1>5. OrderInv BY <1>1 DEF OrderInv
<1>6. \A i \in Others : ~Seen(i) /\ i \in left BY <1>1, <1>2 DEF Seen
<1>7. InfoInv BY <1>1, <1>3, <1>6 DEF InfoInv
<1>8. TextInv BY <1>1, <1>6 DEF TextInv
<1>9. MemberInv BY <1>1 DEF MemberInv
<1>10. DeclInv
  <2>1. Others \ left = {} BY <1>2
  <2>2. Len(decls) = 0 /\ DOMAIN decls = {} BY <1>1
  <2>3. Cardinality({}) = 0 BY FS_EmptySet
  <2>. QED BY <2>1, <2>2, <2>3 DEF DeclInv
<1>. QED BY <1>4, <1>5, <1>7, <1>8, <1>9, <1>10 DEF IInv

THEOREM Inductive == Spec => []IInv
<1>1. IInv /\ [Next]_vars => IInv'
  <2>. SUFFICES ASSUME IInv, [Next]_vars PROVE IInv' OBVIOUS
  <2>1. CASE Overview BY <2>1, StepOverview
  <2>2. CASE RewriteBody BY <2>2, StepRewriteBody
  <2>3. CASE WriteMethod BY <2>3, StepWriteMethod
  <2>4. CASE WriteExtract BY <2>4, StepWriteExtract
  <2>5. CASE Done BY <2>5, StepNothing DEF Done
  <2>6. CASE UNCHANGED vars BY <2>6, StepNothing
  <2>. QED BY <2>1, <2>2, <2>3, <2>4, <2>5, <2>6 DEF Next
<1>. QED BY <1>1, InitIInv, PTL DEF Spec

-----------------------------------------------------------------------------
(* The theorems                                                            *)

(* The state has the shape of FeatureInfo, and what is written is declared.  *)
THEOREM ClassTypes == Spec => []ClassTypeOK
<1>1. IInv => ClassTypeOK BY DEF IInv
<1>. QED BY <1>1, Inductive, PTL

(* In what is written, a method comes after the callees declared above it,   *)
(* Extract after all others.                                               *)
LEMMA WrittenInOrder ==
  ASSUME IInv, NEW i \in DOMAIN program, Written(i), i \notin Others \/ OnlyOne(i)
  PROVE  /\ i \notin left
         /\ \A j \in Others : program[i].name = "Extract" \/ j <= i => j \notin left
<1>1. ClassTypeOK /\ OrderInv /\ InfoInv BY DEF IInv
<1>2. i \notin Others <=> program[i].name = "Extract" BY DEF Others
<1>3. i \notin left
  <2>1. CASE i \in Others
    <3>1. program[i].name \in DOMAIN methods /\ methods[program[i].name].written
      BY <1>2, <2>1 DEF Written
    <3>. QED BY <1>1, <2>1, <3>1 DEF InfoInv
  <2>2. CASE i \notin Others
    <3>1. pc = "done" BY <1>2, <2>2 DEF Written
    <3>. QED BY <1>1, <3>1 DEF ClassTypeOK
  <2>. QED BY <2>1, <2>2
<1>. QED BY <1>1, <1>2, <1>3 DEF OrderInv

(* The calls of what is written answer their callees.                       *)
LEMMA WrittenAnswers ==
  ASSUME IInv, NEW i \in DOMAIN program, Written(i), i \notin Others \/ OnlyOne(i),
         NEW c \in TextOf(i).calls
  PROVE  \E p \in DOMAIN program :
           Answers(p, c) /\ (i \in Others => p = i) /\ (i \notin Others => p \notin Others)
<1>1. TextInv BY DEF IInv
<1>2. i \notin Others <=> program[i].name = "Extract" BY DEF Others
<1>3. i \notin left BY WrittenInOrder
<1>4. CASE i \in Others
  <2>1. c \in methods[program[i].name].text.calls BY <1>2, <1>4 DEF TextOf
  <2>. QED BY <1>1, <1>3, <1>4, <2>1 DEF TextInv
<1>5. CASE i \notin Others
  <2>1. c \in result.text.calls BY <1>2, <1>5 DEF TextOf
  <2>2. \E p \in DOMAIN program \ Others : Answers(p, c)
    BY <1>1, <1>3, <1>5, <2>1 DEF TextInv
  <2>. QED BY <1>5, <2>2
<1>. QED BY <1>4, <1>5

LEMMA CallsMatch == IInv => CallMatchesSignature
<1>. SUFFICES ASSUME IInv, NEW i \in DOMAIN program, Written(i),
                     i \notin Others \/ OnlyOne(i),
                     NEW c \in TextOf(i).calls, NEW j \in Others,
                     program[j].name = c.to, OnlyOne(j), WellFormed(program[j]),
                     program[i].name = "Extract" \/ j <= i
              PROVE  LET sig == methods[c.to].sig IN
                     /\ Len(c.args) = Len(sig)
                     /\ \A k \in DOMAIN sig :
                          sig[k][1] = "param" => FieldOf(c.args[k]) = FieldOf(sig[k])
  BY DEF CallMatchesSignature
<1>1. ClassTypeOK /\ InfoInv BY DEF IInv
<1>2. PICK m : m = program[j] OBVIOUS
<1>3. /\ m \in Method /\ Distinct(m) /\ WellFormed(m) /\ j \in DOMAIN program
      /\ program \in Programs
  BY <1>1, <1>2, StateIs
<1>4. j \notin left BY WrittenInOrder
<1>5. /\ c.to \in DOMAIN methods
      /\ methods[c.to].params = Overviewed(m).params
      /\ methods[c.to].sig = Signature(m, methods[c.to])
  <2>1. Seen(j) BY <1>4 DEF Seen
  <2>. QED BY <1>1, <1>2, <1>4, <2>1 DEF InfoInv
<1>6. PICK p \in DOMAIN program :
         Answers(p, c) /\ (i \in Others => p = i) /\ (i \notin Others => p \notin Others)
  BY WrittenAnswers
<1>7. program[p].name = "Extract" \/ j <= p
  <2>1. i \in Others <=> program[i].name # "Extract" BY DEF Others
  <2>2. p \notin Others => program[p].name = "Extract" BY DEF Others
  <2>. QED BY <1>6, <2>1, <2>2
<1>8. PICK call \in Items(program[p], "call") :
         c.to = call.to /\ c.args = ArgsFor(call, m)
  BY <1>2, <1>6, <1>7 DEF Answers
<1>9. call.args \in Seq(Argument) /\ Len(call.args) = Len(m.params)
  <2>1. PICK q : q = program[p] OBVIOUS
  <2>2. q \in Method /\ q \in ToSet(program) BY <1>3, <2>1, ProgramIs
  <2>3. call \in Item /\ call.k = "call"
    <3>1. PICK b \in DOMAIN q.body : call = q.body[b] /\ q.body[b].k = "call"
      BY <1>8, <2>1 DEF Items
    <3>. QED BY <2>2, <3>1, MethodIs
  <2>4. PICK callee \in ToSet(program) :
           callee.name = call.to /\ Len(callee.params) = Len(call.args)
    <3>1. Compiles(program) BY <1>3, ProgramIs
    <3>. QED BY <1>8, <2>1, <2>2, <3>1 DEF Compiles
  <2>5. PICK k \in DOMAIN program : callee = program[k] BY <2>4 DEF ToSet
  <2>6. program[k].name = program[j].name BY <1>8, <2>4, <2>5
  <2>7. k \in Others BY <2>5, <2>6 DEF Others
  <2>8. k = j BY <2>6, <2>7 DEF OnlyOne
  <2>. QED BY <1>2, <2>3, <2>4, <2>5, <2>8, ItemIs
<1>10. PICK mi : mi = methods[c.to] OBVIOUS
<1>11. Fits(ArgsFor(call, m), Signature(m, mi))
  <2>1. InfoOf(mi, m) BY <1>1, <1>5, <1>10, StateIs DEF InfoOf
  <2>2. CallOf(call, m) BY <1>9 DEF CallOf
  <2>. QED BY <1>3, <2>1, <2>2, CallFits
<1>12. /\ Len(c.args) = Len(mi.sig)
       /\ \A k \in 1 .. Len(mi.sig) :
            mi.sig[k][1] = "param" => FieldOf(c.args[k]) = FieldOf(mi.sig[k])
  BY <1>5, <1>8, <1>10, <1>11 DEF Fits
<1>13. DOMAIN mi.sig = 1 .. Len(mi.sig)
  <2>1. mi \in Info BY <1>1, <1>5, <1>10, StateIs
  <2>2. PICK s : s = mi.sig OBVIOUS
  <2>3. s \in Seq(NewParam \cup OldName) BY <2>1, <2>2, InfoIs DEF NewSig
  <2>. QED BY <2>2, <2>3, LenProperties
<1>. QED BY <1>10, <1>12, <1>13

(* A call written into Extract, or into a method below its callee, passes    *)
(* one argument for each parameter of the callee's new signature, field for *)
(* field.                                                                  *)
THEOREM CallsFit == Spec => []CallMatchesSignature
BY Inductive, CallsMatch, PTL

(* The class declares the members Extract uses and no others.               *)
THEOREM MembersOfExtract == Spec => []OnlyExtractsMembers
<1>1. IInv => OnlyExtractsMembers
  <2>1. SUFFICES ASSUME IInv, pc = "done", HasExtract
                 PROVE  result.members = {u \in result.text.uses : u[1] = "member"}
    BY DEF OnlyExtractsMembers
  <2>2. PICK i \in DOMAIN program : program[i].name = "Extract" BY <2>1 DEF HasExtract
  <2>3. i \notin Others BY <2>2 DEF Others
  <2>4. left = {} BY <2>1 DEF IInv, ClassTypeOK
  <2>. QED BY <2>1, <2>2, <2>3, <2>4 DEF IInv, MemberInv, MembersOf
<1>. QED BY <1>1, Inductive, PTL

(* There are as many declarations as other methods, and each has a          *)
(* definition; that of a method with a name of its own has its signature.   *)
THEOREM DeclaredAndDefined == Spec => []DeclarationsDefined
<1>1. IInv => DeclarationsDefined
  <2>1. SUFFICES ASSUME IInv, pc = "done" PROVE DeclarationsDefined
    BY DEF DeclarationsDefined
  <2>2. left = {} BY <2>1 DEF IInv, ClassTypeOK
  <2>3. Others \ left = Others BY <2>2
  <2>. QED BY <2>1, <2>3 DEF IInv, DeclInv, DeclarationsDefined
<1>. QED BY <1>1, Inductive, PTL
=============================================================================
