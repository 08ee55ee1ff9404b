-------------------------- MODULE CommonInfoProofs --------------------------
(***************************************************************************)
(* Theorems about CommonInfo: whatever a loop over a common info tests,      *)
(* reads and iterates, the text of a name reads the variable of that name,   *)
(* a body that was collected is kept, and the block of a name does what the  *)
(* loop did for it.  The first two rest on IInv, the last on Kept as well.   *)
(***************************************************************************)
EXTENDS CommonInfo, DataInduction

(* The statement of the text of the name v, and a child that holds such.      *)
OwnItem(v) == {item \in Item : item.var \in {v, None, Elem}}
ChildOf(A) == {c \in Child : c.items \in Seq(A)}
OwnChild(v) == ChildOf(OwnItem(v))
OwnDetail(d) ==
  \A part \in {"pre", "loop", "post"} : d[part] \in Seq(OwnItem(d.value))

(* The loop is the outermost statement, a list loop the innermost; an if or a *)
(* case has only a list loop in it, and a case stands in a switch.           *)
Nested(st) ==
  /\ Len(st) # 0
  /\ \A k \in 1 .. Len(st) :
       /\ st[k].kind = "loop" <=> k = 1
       /\ st[k].kind \in {"range", "for"} => k = Len(st)
       /\ st[k].kind \in {"if", "case"} =>
            k = Len(st) \/ (k + 1 = Len(st) /\ st[Len(st)].kind \in {"range", "for"})
       /\ st[k].kind = "case" => st[k - 1].kind = "switch"

(* What is collected in the frame f reads the variable of the name it is for: *)
(* the value of an if, and in any other statement that can be given to a      *)
(* detail r, that of the last detail, which does not change meanwhile.       *)
OwnFrame(f, r) ==
  /\ f.kind \in {"if", "else"} => f.block \in Seq(OwnChild(f.test))
  /\ f.kind = "if" => f.test = r
  /\ f.kind \in {"case", "range", "for"} => f.block \in Seq(OwnChild(r))

Clean(fs) == fs \cap {"mixed", "again", "caseAgain"} = {}

(* No test or switch sees a loop that != has restricted (eq: there was no !=), *)
(* and before that the loop itself has no list loop.                        *)
StackOK(st, eq, r, fs) ==
  /\ st \in Seq(Frame) /\ Nested(st)
  /\ eq => /\ st[1].path = Value /\ st[1].block \in Seq(OwnChild(None))
           /\ Len(st) > 1 => st[2].kind \notin {"range", "for"}
  /\ ~eq => \A k \in 1 .. Len(st) : st[k].kind # "switch"
  /\ Clean(fs) =>
       /\ \A k \in 1 .. Len(st) : OwnFrame(st[k], r)
       /\ ~eq => st[1].block \in Seq(OwnChild(r))

(* A detail reads its own variable; only a loop with != writes its one detail *)
(* by another text.                                                         *)
DetailsOK ==
  /\ ~compared => details = << >>
  /\ Clean(forms) =>
       /\ \A i \in 1 .. Len(details) : OwnDetail(details[i])
       /\ ~equal => Len(details) = 1

(* The detail that a case fills when it closes has no body yet.              *)
CaseOpen ==
  "caseAgain" \notin forms =>
    \A k \in 1 .. Top :
      stack[k].kind = "case" /\ details # << >> => ~details[Len(details)].filled

IInv ==
  CommonInfoTypeOK /\ StackOK(stack, equal, Resolved, forms) /\ DetailsOK /\ CaseOpen
-----------------------------------------------------------------------------
(* The operators of CommonInfo                                              *)

LEMMA SeqMono ==
  ASSUME NEW A, NEW B, A \subseteq B, NEW s \in Seq(A)
  PROVE  s \in Seq(B)
<1>1. Len(s) \in Nat /\ s = [i \in 1 .. Len(s) |-> s[i]] BY LenProperties, SeqEqual
<1>2. \A i \in 1 .. Len(s) : s[i] \in B BY ElementOfSeq
<1>. QED BY <1>1, <1>2, IsASeq

LEMMA OwnItemIs ==
  ASSUME NEW v, NEW s \in Seq(OwnItem(v))
  PROVE  s \in Seq(Item)
<1>1. OwnItem(v) \subseteq Item BY DEF OwnItem
<1>. QED BY <1>1, SeqMono

LEMMA OwnChildIs ==
  ASSUME NEW v, NEW s \in Seq(OwnChild(v))
  PROVE  s \in Seq(Child)
<1>1. OwnChild(v) \subseteq Child BY DEF OwnChild, ChildOf
<1>. QED BY <1>1, SeqMono

(* The text of children is over what theirs are over.                       *)
LEMMA FlatType ==
  ASSUME NEW A, NEW s \in Seq(ChildOf(A))
  PROVE  Flat(s) \in Seq(A)
<1>. DEFINE t == [i \in 1 .. Len(s) |-> s[i].items]
<1>1. Len(s) \in Nat BY LenProperties
<1>2. \A i \in 1 .. Len(s) : s[i].items \in Seq(A) BY ElementOfSeq DEF ChildOf
<1>3. t \in Seq(Seq(A)) BY <1>1, <1>2, IsASeq
<1>. HIDE DEF t
<1>4. FlattenSeq(t) \in Seq(A) BY <1>3, FlattenSeqProperties
<1>. QED BY <1>4 DEF Flat, t

LEMMA FlatOfType ==
  ASSUME NEW A, NEW s \in Seq(ChildOf(A)), NEW kinds
  PROVE  FlatOf(s, kinds) \in Seq(A)
<1>1. Len(s) \in Nat BY LenProperties
<1>2. ASSUME NEW c \in ChildOf(A)
      PROVE  c \in ChildOf(A) /\ [c EXCEPT !.items = << >>] \in ChildOf(A)
  <2>1. << >> \in Seq(A) /\ << >> \in Seq(Item) OBVIOUS
  <2>. QED BY <1>2, <2>1 DEF ChildOf, Child
<1>3. \A i \in 1 .. Len(s) : s[i] \in ChildOf(A) BY ElementOfSeq
<1>4. [i \in 1 .. Len(s) |-> IF s[i].kind \in kinds THEN s[i]
                             ELSE [s[i] EXCEPT !.items = << >>]] \in Seq(ChildOf(A))
  BY <1>1, <1>2, <1>3, IsASeq
<1>. QED BY <1>4, FlatType DEF FlatOf

LEMMA BodyTextType ==
  ASSUME NEW A, NEW s \in Seq(ChildOf(A))
  PROVE  /\ BodyText(s).pre \in Seq(A)
         /\ BodyText(s).loop \in Seq(A)
         /\ BodyText(s).post \in Seq(A)
<1>. DEFINE lists == {i \in 1 .. Len(s) : IsList(s[i])}
            first == IF lists = {} THEN Len(s) + 1
                     ELSE CHOOSE i \in lists : \A j \in lists : i <= j
<1>1. Len(s) \in Nat BY LenProperties
<1>2. first \in 1 .. Len(s) + 1
  <2>1. lists \subseteq Nat /\ lists \subseteq 1 .. Len(s) BY <1>1
  <2>2. CASE lists = {} BY <1>1, <2>2
  <2>3. CASE lists # {}
    <3>. HIDE DEF lists
    <3>1. first \in lists BY <2>1, <2>3, LeastIs
    <3>. HIDE DEF first
    <3>. QED BY <1>1, <2>1, <3>1
  <2>. QED BY <2>2, <2>3
<1>. HIDE DEF lists
<1>3. BodyText(s) = [pre  |-> Flat(SubSeq(s, 1, first - 1)),
                     loop |-> FlatOf(s, {"range", "for"}),
                     post |-> FlatOf(SubSeq(s, first + 1, Len(s)), {"stmt", "if"})]
  BY DEF BodyText, lists
<1>. HIDE DEF first
<1>4. /\ SubSeq(s, 1, first - 1) \in Seq(ChildOf(A))
      /\ SubSeq(s, first + 1, Len(s)) \in Seq(ChildOf(A))
  BY <1>1, <1>2, SubSeqProperties
<1>5. BodyText(s).pre \in Seq(A)
  <2>1. Flat(SubSeq(s, 1, first - 1)) \in Seq(A) BY <1>4, FlatType
  <2>. QED BY <1>3, <2>1
<1>6. BodyText(s).loop \in Seq(A)
  <2>1. FlatOf(s, {"range", "for"}) \in Seq(A) BY FlatOfType
  <2>. QED BY <1>3, <2>1
<1>7. BodyText(s).post \in Seq(A)
  <2>1. FlatOf(SubSeq(s, first + 1, Len(s)), {"stmt", "if"}) \in Seq(A)
    BY <1>4, FlatOfType
  <2>. QED BY <1>3, <2>1
<1>. QED BY <1>5, <1>6, <1>7

(* A detail whose texts are over A.                                         *)
TextsOver(d, A) == \A part \in {"pre", "loop", "post"} : d[part] \in Seq(A)

LEMMA FilledIs ==
  ASSUME NEW d \in Detail, NEW text, NEW nonempty \in BOOLEAN,
         TextsOver(text, Item)
  PROVE  /\ Filled(d, text, nonempty) \in Detail
         /\ Filled(d, text, nonempty).value = d.value
         /\ \A A : TextsOver(d, A) /\ TextsOver(text, A)
                     => TextsOver(Filled(d, text, nonempty), A)
<1>. DEFINE l == IF text.loop = << >> THEN d.loop ELSE text.loop
            p == IF text.post = << >> THEN d.post ELSE text.post
            n == nonempty \/ l # << >> \/ p # << >>
<1>1. Filled(d, text, nonempty) =
        [d EXCEPT !.pre = text.pre, !.loop = l, !.post = p, !.filled = n]
  BY DEF Filled
<1>2. \A A : TextsOver(d, A) /\ TextsOver(text, A)
               => text.pre \in Seq(A) /\ l \in Seq(A) /\ p \in Seq(A)
  BY DEF TextsOver
<1>3. n \in BOOLEAN OBVIOUS
<1>4. TextsOver(d, Item) BY DEF TextsOver, Detail
<1>5. text.pre \in Seq(Item) /\ l \in Seq(Item) /\ p \in Seq(Item) BY <1>2, <1>4
<1>. HIDE DEF l, p, n
<1>6. Filled(d, text, nonempty) =
        [value |-> d.value, method |-> d.method, isFor |-> d.isFor, filled |-> n,
         pre |-> text.pre, loop |-> l, post |-> p]
  BY <1>1 DEF Detail
<1>7. Filled(d, text, nonempty) \in Detail BY <1>3, <1>5, <1>6 DEF Detail
<1>8. /\ Filled(d, text, nonempty).pre = text.pre
      /\ Filled(d, text, nonempty).loop = l
      /\ Filled(d, text, nonempty).post = p
      /\ Filled(d, text, nonempty).value = d.value
  BY <1>6
<1>. QED BY <1>2, <1>7, <1>8 DEF TextsOver

LEMMA RenamedIs ==
  ASSUME NEW s \in Seq(Item), NEW v, NEW w \in Value
  PROVE  /\ Renamed(s, v, w) \in Seq(Item)
         /\ s \in Seq(OwnItem(v)) => Renamed(s, v, w) \in Seq(OwnItem(w))
<1>1. Len(s) \in Nat BY LenProperties
<1>2. ASSUME NEW item \in Item
      PROVE  /\ [item EXCEPT !.var = w] \in OwnItem(w)
             /\ item \in OwnItem(v) /\ item.var # v => item \in OwnItem(w)
  BY DEF Item, OwnItem
<1>3. \A i \in 1 .. Len(s) : s[i] \in Item BY ElementOfSeq
<1>4. OwnItem(w) \subseteq Item BY DEF OwnItem
<1>5. Renamed(s, v, w) \in Seq(Item)
  BY <1>1, <1>2, <1>3, <1>4, IsASeq DEF Renamed
<1>6. ASSUME s \in Seq(OwnItem(v)) PROVE Renamed(s, v, w) \in Seq(OwnItem(w))
  <2>1. \A i \in 1 .. Len(s) : s[i] \in OwnItem(v) BY <1>6, ElementOfSeq
  <2>. QED BY <1>1, <1>2, <1>3, <2>1, IsASeq DEF Renamed
<1>. QED BY <1>5, <1>6

LEMMA CopiedIs ==
  ASSUME NEW d \in Detail, NEW v \in Value
  PROVE  /\ Copied(d, v) \in Detail /\ Copied(d, v).value = v
         /\ OwnDetail(d) => OwnDetail(Copied(d, v))
<1>1. Copied(d, v) = [value |-> v, method |-> d.method, isFor |-> d.isFor,
                      filled |-> d.filled,
                      pre |-> Renamed(d.pre, d.value, v),
                      loop |-> Renamed(d.loop, d.value, v),
                      post |-> Renamed(d.post, d.value, v)]
  <2>1. d = [value |-> d.value, method |-> d.method, isFor |-> d.isFor,
             filled |-> d.filled, pre |-> d.pre, loop |-> d.loop, post |-> d.post]
    BY DEF Detail
  <2>2. PICK a : a = Renamed(d.pre, d.value, v) OBVIOUS
  <2>3. PICK b : b = Renamed(d.loop, d.value, v) OBVIOUS
  <2>4. PICK c : c = Renamed(d.post, d.value, v) OBVIOUS
  <2>5. Copied(d, v) = [d EXCEPT !.value = v, !.pre = a, !.loop = b, !.post = c]
    BY <2>1, <2>2, <2>3, <2>4 DEF Copied
  <2>. QED BY <2>1, <2>2, <2>3, <2>4, <2>5
<1>2. d.pre \in Seq(Item) /\ d.loop \in Seq(Item) /\ d.post \in Seq(Item)
  BY DEF Detail
<1>3. Copied(d, v) \in Detail
  BY <1>1, <1>2, RenamedIs DEF Detail
<1>4. ASSUME OwnDetail(d) PROVE OwnDetail(Copied(d, v))
  <2>1. /\ d.pre \in Seq(OwnItem(d.value)) /\ d.loop \in Seq(OwnItem(d.value))
        /\ d.post \in Seq(OwnItem(d.value))
    BY <1>4 DEF OwnDetail
  <2>2. /\ Renamed(d.pre, d.value, v) \in Seq(OwnItem(v))
        /\ Renamed(d.loop, d.value, v) \in Seq(OwnItem(v))
        /\ Renamed(d.post, d.value, v) \in Seq(OwnItem(v))
    BY <1>2, <2>1, RenamedIs
  <2>3. /\ Copied(d, v).pre \in Seq(OwnItem(v)) /\ Copied(d, v).loop \in Seq(OwnItem(v))
        /\ Copied(d, v).post \in Seq(OwnItem(v)) /\ Copied(d, v).value = v
    BY <1>1, <2>2
  <2>. QED BY <2>3 DEF OwnDetail
<1>. QED BY <1>1, <1>3, <1>4

(* Sharing the last body gives it to details without one, and keeps values.   *)
LEMMA ShareIs ==
  ASSUME NEW ds \in Seq(Detail), ds # << >>
  PROVE  /\ Share(ds) \in Seq(Detail) /\ Len(Share(ds)) = Len(ds)
         /\ \A i \in 1 .. Len(ds) :
              /\ Share(ds)[i].value = ds[i].value
              /\ i < Len(ds) /\ ds[i].filled => Share(ds)[i] = ds[i]
              /\ OwnDetail(ds[i]) /\ OwnDetail(ds[Len(ds)]) => OwnDetail(Share(ds)[i])
<1>1. Len(ds) \in Nat \ {0} BY EmptySeq, LenProperties
<1>2. \A i \in 1 .. Len(ds) : ds[i] \in Detail BY ElementOfSeq
<1>3. ds[Len(ds)] \in Detail /\ \A i \in 1 .. Len(ds) : ds[i].value \in Value
  BY <1>1, <1>2 DEF Detail
<1>4. CASE ~ds[Len(ds)].filled BY <1>1, <1>4 DEF Share
<1>5. CASE ds[Len(ds)].filled
  <2>1. Share(ds) = [i \in 1 .. Len(ds) |->
          IF \A j \in i .. Len(ds) - 1 : ~ds[j].filled
          THEN Copied(ds[Len(ds)], ds[i].value) ELSE ds[i]]
    BY <1>5 DEF Share
  <2>2. ASSUME NEW i \in 1 .. Len(ds)
        PROVE  /\ Share(ds)[i] \in Detail /\ Share(ds)[i].value = ds[i].value
               /\ i < Len(ds) /\ ds[i].filled => Share(ds)[i] = ds[i]
               /\ OwnDetail(ds[i]) /\ OwnDetail(ds[Len(ds)]) => OwnDetail(Share(ds)[i])
    <3>1. CASE \A j \in i .. Len(ds) - 1 : ~ds[j].filled
      <4>1. Share(ds)[i] = Copied(ds[Len(ds)], ds[i].value) BY <2>1, <3>1
      <4>2. i < Len(ds) => i \in i .. Len(ds) - 1 BY <1>1
      <4>. QED BY <1>3, <3>1, <4>1, <4>2, CopiedIs
    <3>2. CASE ~ \A j \in i .. Len(ds) - 1 : ~ds[j].filled
      <4>1. Share(ds)[i] = ds[i] BY <2>1, <3>2
      <4>. QED BY <1>2, <4>1
    <3>. QED BY <3>1, <3>2
  <2>3. Len(Share(ds)) = Len(ds) /\ Share(ds) \in Seq(Detail)
    BY <1>1, <2>1, <2>2, IsASeq
  <2>. QED BY <2>2, <2>3
<1>. QED BY <1>4, <1>5
(* No name has two details.                                                 *)
NoTwice(ds) == \A i, j \in 1 .. Len(ds) : ds[i].value = ds[j].value => i = j

LEMMA NewDetailIs ==
  ASSUME NEW v \in Value
  PROVE  /\ NewDetail(v) \in Detail /\ NewDetail(v).value = v
         /\ ~NewDetail(v).filled /\ OwnDetail(NewDetail(v))
<1>1. << >> \in Seq(Item) /\ << >> \in Seq(OwnItem(v)) OBVIOUS
<1>2. NewDetail(v) \in Detail BY <1>1 DEF NewDetail, Detail
<1>3. OwnDetail(NewDetail(v))
  <2>1. /\ NewDetail(v).pre = << >> /\ NewDetail(v).loop = << >>
        /\ NewDetail(v).post = << >> /\ NewDetail(v).value = v
    BY DEF NewDetail
  <2>. QED BY <1>1, <2>1 DEF OwnDetail
<1>. QED BY <1>2, <1>3 DEF NewDetail

(* es is ds with a new detail for each of some names.                       *)
Extends(es, ds) ==
  /\ es \in Seq(Detail) /\ NoTwice(es)
  /\ Len(es) >= Len(ds)
  /\ \A i \in 1 .. Len(ds) : es[i] = ds[i]
  /\ \A i \in Len(ds) + 1 .. Len(es) : es[i] = NewDetail(es[i].value)

LEMMA AddValueIs ==
  ASSUME NEW ds \in Seq(Detail), NoTwice(ds), NEW v \in Value
  PROVE  /\ Extends(AddValue(ds, v), ds)
         /\ v \notin Values(ds) => AddValue(ds, v) = Append(ds, NewDetail(v))
         /\ AddValue(ds, v) # << >>
         /\ Values(AddValue(ds, v)) = Values(ds) \cup {v}
<1>. DEFINE es == Append(ds, NewDetail(v))
<1>1. Len(ds) \in Nat BY LenProperties
<1>2. CASE v \in Values(ds)
  <2>1. AddValue(ds, v) = ds BY <1>2 DEF AddValue
  <2>2. ds # << >> BY <1>2, EmptySeq DEF Values
  <2>. QED BY <1>1, <1>2, <2>1, <2>2 DEF Extends
<1>3. CASE v \notin Values(ds)
  <2>1. AddValue(ds, v) = es BY <1>3 DEF AddValue
  <2>2. NewDetail(v) \in Detail /\ NewDetail(v).value = v BY NewDetailIs
  <2>3. /\ es \in Seq(Detail) /\ Len(es) = Len(ds) + 1
        /\ \A i \in 1 .. Len(ds) : es[i] = ds[i]
        /\ es[Len(es)] = NewDetail(v)
    BY <1>1, <2>2, AppendProperties
  <2>. HIDE DEF es
  <2>4. \A i \in 1 .. Len(ds) : ds[i].value # v BY <1>3 DEF Values
  <2>5. NoTwice(es)
    <3>1. SUFFICES ASSUME NEW i \in 1 .. Len(es), NEW j \in 1 .. Len(es),
                          es[i].value = es[j].value
                   PROVE  i = j
      BY DEF NoTwice
    <3>2. CASE i \in 1 .. Len(ds) /\ j \in 1 .. Len(ds)
      BY <2>3, <3>1, <3>2 DEF NoTwice
    <3>3. CASE i = Len(es) /\ j = Len(es) BY <3>3
    <3>4. ~(i = Len(es) /\ j \in 1 .. Len(ds)) BY <2>2, <2>3, <2>4, <3>1
    <3>5. ~(j = Len(es) /\ i \in 1 .. Len(ds)) BY <2>2, <2>3, <2>4, <3>1
    <3>6. \A k \in 1 .. Len(es) : k \in 1 .. Len(ds) \/ k = Len(es) BY <1>1, <2>3
    <3>. QED BY <3>2, <3>3, <3>4, <3>5, <3>6
  <2>6. \A i \in Len(ds) + 1 .. Len(es) : i = Len(es) BY <1>1, <2>3
  <2>7. Extends(es, ds) BY <1>1, <2>2, <2>3, <2>5, <2>6 DEF Extends
  <2>8. es # << >> BY <1>1, <2>3, EmptySeq
  <2>9. Values(es) = Values(ds) \cup {v}
    <3>1. \A x : x \in Values(es) <=> \E i \in 1 .. Len(es) : x = es[i].value
      BY DEF Values
    <3>2. \A x : x \in Values(ds) <=> \E i \in 1 .. Len(ds) : x = ds[i].value
      BY DEF Values
    <3>3. 1 .. Len(es) = 1 .. Len(ds) \cup {Len(es)} BY <1>1, <2>3
    <3>. QED BY <2>2, <2>3, <3>1, <3>2, <3>3
  <2>. QED BY <1>3, <2>1, <2>7, <2>8, <2>9 DEF es
<1>. QED BY <1>2, <1>3

LEMMA ExtendsTwice ==
  ASSUME NEW ds \in Seq(Detail), NEW es, NEW fs, Extends(es, ds), Extends(fs, es)
  PROVE  Extends(fs, ds)
<1>1. Len(ds) \in Nat /\ Len(es) \in Nat /\ Len(fs) \in Nat
  BY LenProperties DEF Extends
<1>2. ASSUME NEW i \in Len(ds) + 1 .. Len(fs) PROVE fs[i] = NewDetail(fs[i].value)
  <2>1. CASE i \in 1 .. Len(es)
    BY <1>1, <2>1 DEF Extends
  <2>2. CASE i \in Len(es) + 1 .. Len(fs) BY <2>2 DEF Extends
  <2>. QED BY <1>1, <2>1, <2>2
<1>. QED BY <1>1, <1>2 DEF Extends

(* The tests of a condition add a detail for each name not tested before.    *)
LEMMA TestsIs ==
  ASSUME NEW vs \in Tests
  PROVE  /\ Len(vs) \in {1, 2} /\ vs[1] \in Value /\ vs[Len(vs)] \in Value
         /\ Len(vs) = 2 => vs = <<vs[1], vs[2]>> /\ vs[2] \in Value
         /\ \A x : x \in Range(vs) <=> \E i \in 1 .. Len(vs) : x = vs[i]
<1>1. CASE vs \in {<<v>> : v \in Value}
  <2>1. PICK v \in Value : vs = <<v>> BY <1>1
  <2>2. Range(vs) = {vs[i] : i \in 1 .. Len(vs)} BY <2>1 DEF Range
  <2>. QED BY <2>1, <2>2
<1>2. CASE vs \in {<<v, w>> : v, w \in Value}
  <2>1. PICK v, w \in Value : vs = <<v, w>> BY <1>2
  <2>2. Range(vs) = {vs[i] : i \in 1 .. Len(vs)} BY <2>1 DEF Range
  <2>. QED BY <2>1, <2>2
<1>. QED BY <1>1, <1>2 DEF Tests

LEMMA AddValuesSteps ==
  ASSUME NEW vs \in Tests
  PROVE  /\ Len(vs) = 1 => AddValues(vs) = AddValue(details, vs[1])
         /\ Len(vs) = 2 => AddValues(vs) = AddValue(AddValue(details, vs[1]), vs[2])
<1>. DEFINE Step(f) == [k \in 0 .. Len(vs) |->
                          IF k = 0 THEN details ELSE AddValue(f[k - 1], vs[k])]
            after == CHOOSE f : f = Step(f)
            first == AddValue(details, vs[1])
            g == [k \in 0 .. Len(vs) |->
                    IF k = 0 THEN details
                    ELSE IF k = 1 THEN first ELSE AddValue(first, vs[2])]
<1>1. Len(vs) \in {1, 2} BY TestsIs
<1>2. g = Step(g)
  <2>1. \A k \in 0 .. Len(vs) : k \in {0, 1, 2} BY <1>1
  <2>2. \A k \in 0 .. Len(vs) :
          g[k] = IF k = 0 THEN details ELSE AddValue(g[k - 1], vs[k])
    <3>. SUFFICES ASSUME NEW k \in 0 .. Len(vs)
                  PROVE  g[k] = IF k = 0 THEN details ELSE AddValue(g[k - 1], vs[k])
      OBVIOUS
    <3>1. CASE k = 0 BY <3>1
    <3>2. CASE k = 1
      <4>1. g[0] = details /\ g[1] = first BY <1>1
      <4>. QED BY <3>2, <4>1
    <3>3. CASE k = 2
      <4>1. g[1] = first /\ g[2] = AddValue(first, vs[2]) BY <1>1, <3>3
      <4>. QED BY <3>3, <4>1
    <3>. QED BY <2>1, <3>1, <3>2, <3>3
  <2>. QED BY <2>2
<1>3. after = Step(after)
  <2>. HIDE DEF Step
  <2>. QED BY <1>2
<1>4. AddValues(vs) = after[Len(vs)] BY DEF AddValues
<1>. HIDE DEF after
<1>5. after[0] = details BY <1>1, <1>3
<1>6. after[1] = AddValue(after[0], vs[1]) BY <1>1, <1>3
<1>7. Len(vs) = 2 => after[2] = AddValue(after[1], vs[2]) BY <1>3
<1>. QED BY <1>4, <1>5, <1>6, <1>7

LEMMA AddValuesIs ==
  ASSUME details \in Seq(Detail), NoTwice(details), NEW vs \in Tests, Distinct(vs)
  PROVE  /\ Extends(AddValues(vs), details)
         /\ Len(AddValues(vs)) \in Nat \ {0}
         /\ ~Again(vs) => /\ Len(AddValues(vs)) = Len(details) + Len(vs)
                          /\ AddValues(vs)[Len(AddValues(vs))] = NewDetail(vs[Len(vs)])
<1>. DEFINE one == AddValue(details, vs[1])
            two == AddValue(one, vs[2])
<1>1. /\ Len(vs) \in {1, 2} /\ vs[1] \in Value /\ (Len(vs) = 2 => vs[2] \in Value)
      /\ \A x : x \in Range(vs) <=> \E i \in 1 .. Len(vs) : x = vs[i]
  BY TestsIs
<1>2. /\ Extends(one, details) /\ one # << >>
      /\ vs[1] \notin Values(details) => one = Append(details, NewDetail(vs[1]))
      /\ Values(one) = Values(details) \cup {vs[1]}
  BY <1>1, AddValueIs
<1>. HIDE DEF one
<1>3. ASSUME Len(vs) = 2
      PROVE  /\ Extends(two, one) /\ two # << >>
             /\ vs[2] \notin Values(one) => two = Append(one, NewDetail(vs[2]))
  <2>1. one \in Seq(Detail) /\ NoTwice(one) BY <1>2 DEF Extends
  <2>. QED BY <1>1, <1>3, <2>1, AddValueIs
<1>. HIDE DEF two
<1>4. /\ Len(vs) = 1 => AddValues(vs) = one
      /\ Len(vs) = 2 => AddValues(vs) = two
  BY AddValuesSteps DEF one, two
<1>5. ~Again(vs) => vs[1] \notin Values(details)
                    /\ (Len(vs) = 2 => vs[2] \notin Values(details))
  BY <1>1 DEF Again
<1>6. Len(vs) = 2 => vs[1] # vs[2] BY DEF Distinct
<1>7. /\ NewDetail(vs[1]) \in Detail
      /\ Len(vs) = 2 => NewDetail(vs[2]) \in Detail
  BY <1>1, NewDetailIs
<1>8. Len(details) \in Nat BY LenProperties
<1>9. one \in Seq(Detail) /\ Len(one) \in Nat \ {0}
  BY <1>2, EmptySeq, LenProperties DEF Extends
<1>10. ~Again(vs) => Len(one) = Len(details) + 1 /\ one[Len(one)] = NewDetail(vs[1])
  BY <1>2, <1>5, <1>7, <1>8, AppendProperties
<1>11. CASE Len(vs) = 1
  BY <1>2, <1>4, <1>9, <1>10, <1>11
<1>12. CASE Len(vs) = 2
  <2>1. Extends(two, details) BY <1>2, <1>3, <1>12, ExtendsTwice
  <2>2. Len(two) \in Nat \ {0} BY <1>3, <1>12, EmptySeq, LenProperties DEF Extends
  <2>3. ~Again(vs) => two = Append(one, NewDetail(vs[2]))
    BY <1>2, <1>3, <1>5, <1>6, <1>12
  <2>4. ~Again(vs) => Len(two) = Len(one) + 1 /\ two[Len(two)] = NewDetail(vs[2])
    BY <1>7, <1>9, <1>12, <2>3, AppendProperties
  <2>. QED BY <1>4, <1>8, <1>9, <1>10, <1>12, <2>1, <2>2, <2>4
<1>. QED BY <1>1, <1>11, <1>12
-----------------------------------------------------------------------------
(* The statements that are being visited                                    *)

LEMMA FrameSeq ==
  ASSUME NEW st \in Seq(Frame), Nested(st)
  PROVE  /\ Len(st) \in Nat \ {0}
         /\ \A k \in 1 .. Len(st) : st[k] \in Frame
BY ElementOfSeq, LenProperties DEF Nested

LEMMA FrameBlock ==
  ASSUME NEW f \in Frame
  PROVE  /\ f.block \in Seq(Child)
         /\ f = [kind |-> f.kind, path |-> f.path, rest |-> f.rest, test |-> f.test,
                 braced |-> f.braced, number |-> f.number, block |-> f.block]
BY DEF Frame

(* Another statement begins.                                                *)
LEMMA PushOK ==
  ASSUME NEW st, NEW eq \in BOOLEAN, NEW r, NEW fs, StackOK(st, eq, r, fs),
         NEW f \in Frame, f.kind # "loop", f.block = << >>,
         f.kind = "if" => f.test = r,
         f.kind = "case" => st[Len(st)].kind = "switch",
         f.kind \in {"range", "for"} => st[Len(st)].kind \notin {"range", "for"},
         f.kind \notin {"range", "for"} =>
           st[Len(st)].kind \in {"loop", "plain", "else", "switch"},
         eq /\ Len(st) = 1 => f.kind \notin {"range", "for"},
         f.kind = "switch" => eq
  PROVE  StackOK(Append(st, f), eq, r, fs)
<1>. DEFINE n == Len(st)
            tt == Append(st, f)
<1>1. st \in Seq(Frame) /\ Nested(st) BY DEF StackOK
<1>2. n \in Nat \ {0} /\ \A k \in 1 .. n : st[k] \in Frame BY <1>1, FrameSeq
<1>3. /\ tt \in Seq(Frame) /\ Len(tt) = n + 1
      /\ \A k \in 1 .. n : tt[k] = st[k]
      /\ tt[n + 1] = f
  BY <1>1, <1>2, AppendProperties
<1>. HIDE DEF tt
<1>4. Nested(tt)
  <2>1. ASSUME NEW k \in 1 .. n
        PROVE  /\ tt[k].kind = "loop" <=> k = 1
               /\ tt[k].kind \notin {"range", "for"}
               /\ tt[k].kind \in {"if", "case"} => k = n /\ f.kind \in {"range", "for"}
               /\ tt[k].kind = "case" => tt[k - 1].kind = "switch"
    <3>1. /\ st[k].kind = "loop" <=> k = 1
          /\ st[k].kind \in {"range", "for"} => k = n
          /\ st[k].kind \in {"if", "case"} =>
               k = n \/ (k + 1 = n /\ st[n].kind \in {"range", "for"})
          /\ st[k].kind = "case" => st[k - 1].kind = "switch"
      BY <1>1 DEF Nested
    <3>2. tt[k] = st[k] /\ (k # 1 => tt[k - 1] = st[k - 1]) BY <1>2, <1>3
    <3>3. st[k].kind = "case" => k # 1 BY <3>1
    <3>4. st[n].kind \notin {"range", "for"} OBVIOUS
    <3>. QED BY <3>1, <3>2, <3>3, <3>4
  <2>2. ASSUME NEW k \in 1 .. n + 1
        PROVE  /\ tt[k].kind = "loop" <=> k = 1
               /\ tt[k].kind \in {"range", "for"} => k = n + 1
               /\ tt[k].kind \in {"if", "case"} =>
                    k = n + 1 \/ (k + 1 = n + 1 /\ tt[n + 1].kind \in {"range", "for"})
               /\ tt[k].kind = "case" => tt[k - 1].kind = "switch"
    <3>1. CASE k \in 1 .. n BY <1>2, <1>3, <2>1, <3>1
    <3>2. CASE k = n + 1
      <4>1. tt[n] = st[n] /\ k - 1 = n BY <1>2, <1>3, <3>2
      <4>. QED BY <1>2, <1>3, <3>2, <4>1
    <3>. QED BY <1>2, <3>1, <3>2
  <2>. QED BY <1>2, <1>3, <2>2 DEF Nested
<1>5. eq => /\ tt[1].path = Value /\ tt[1].block \in Seq(OwnChild(None))
            /\ tt[2].kind \notin {"range", "for"}
  <2>1. CASE n = 1 BY <1>2, <1>3, <2>1 DEF StackOK
  <2>2. CASE n # 1
    <3>1. n > 1 /\ 1 \in 1 .. n /\ 2 \in 1 .. n
      <4>1. n \in Nat /\ n # 0 BY <1>2
      <4>. HIDE DEF n
      <4>. QED BY ONLY <2>2, <4>1
    <3>2. tt[1] = st[1] /\ tt[2] = st[2] BY <1>3, <3>1
    <3>. QED BY <3>1, <3>2 DEF StackOK
  <2>. QED BY <2>1, <2>2
<1>6. Clean(fs) /\ ~eq => tt[1].block \in Seq(OwnChild(r))
  BY <1>2, <1>3 DEF StackOK
<1>7. OwnFrame(f, r)
  <2>1. \A A : << >> \in Seq(A) OBVIOUS
  <2>. QED BY <2>1 DEF OwnFrame
<1>8. Clean(fs) => \A k \in 1 .. n + 1 : OwnFrame(tt[k], r)
  <2>1. SUFFICES ASSUME Clean(fs), NEW k \in 1 .. n + 1 PROVE OwnFrame(tt[k], r)
    OBVIOUS
  <2>2. CASE k \in 1 .. n BY <1>3, <2>1, <2>2 DEF StackOK
  <2>3. CASE k = n + 1 BY <1>3, <1>7, <2>3
  <2>. QED BY <1>2, <2>2, <2>3
<1>9. ~eq => \A k \in 1 .. n + 1 : tt[k].kind # "switch"
  <2>1. SUFFICES ASSUME ~eq, NEW k \in 1 .. n + 1 PROVE tt[k].kind # "switch"
    OBVIOUS
  <2>2. CASE k \in 1 .. n BY <1>3, <2>1, <2>2 DEF StackOK
  <2>3. CASE k = n + 1 BY <1>3, <2>1, <2>3
  <2>. QED BY <1>2, <2>2, <2>3
<1>. QED BY <1>3, <1>4, <1>5, <1>6, <1>8, <1>9 DEF StackOK, tt

(* The innermost statement ends.                                            *)
LEMMA PopOK ==
  ASSUME NEW st, NEW eq \in BOOLEAN, NEW r, NEW fs, StackOK(st, eq, r, fs),
         st[Len(st)].kind # "loop"
  PROVE  /\ StackOK(Front(st), eq, r, fs)
         /\ Len(Front(st)) = Len(st) - 1
         /\ \A k \in 1 .. Len(st) - 1 : Front(st)[k] = st[k]
<1>. DEFINE n == Len(st)
            tt == Front(st)
<1>1. st \in Seq(Frame) /\ Nested(st) BY DEF StackOK
<1>2. n \in Nat \ {0} /\ \A k \in 1 .. n : st[k] \in Frame BY <1>1, FrameSeq
<1>3. n # 1 BY <1>1, <1>2 DEF Nested
<1>4. /\ tt \in Seq(Frame) /\ Len(tt) = n - 1
      /\ \A k \in 1 .. n - 1 : tt[k] = st[k]
  <2>1. 1 \in Int /\ n - 1 \in Int /\ \A k \in 1 .. n - 1 : st[k] \in Frame BY <1>2
  <2>. DEFINE ss == SubSeq(st, 1, n - 1)
  <2>2. /\ ss \in Seq(Frame)
        /\ Len(ss) = IF 1 <= n - 1 THEN (n - 1) - 1 + 1 ELSE 0
        /\ \A i \in 1 .. (n - 1) - 1 + 1 : ss[i] = st[1 + i - 1]
    BY ONLY <2>1, SubSeqProperties
  <2>3. tt = ss BY DEF Front
  <2>. HIDE DEF tt, ss, n
  <2>. QED BY <1>2, <1>3, <2>2, <2>3
<1>. HIDE DEF tt
<1>5. Nested(tt)
  <2>1. ASSUME NEW k \in 1 .. n - 1
        PROVE  /\ tt[k].kind = "loop" <=> k = 1
               /\ tt[k].kind \in {"range", "for"} => k = n - 1
               /\ tt[k].kind \in {"if", "case"} => k = n - 1
               /\ tt[k].kind = "case" => tt[k - 1].kind = "switch"
    <3>1. /\ st[k].kind = "loop" <=> k = 1
          /\ st[k].kind \in {"range", "for"} => k = n
          /\ st[k].kind \in {"if", "case"} =>
               k = n \/ (k + 1 = n /\ st[n].kind \in {"range", "for"})
          /\ st[k].kind = "case" => st[k - 1].kind = "switch"
      BY <1>1, <1>2 DEF Nested
    <3>2. tt[k] = st[k] /\ (k # 1 => tt[k - 1] = st[k - 1]) BY <1>2, <1>4
    <3>3. st[k].kind = "case" => k # 1 BY <3>1
    <3>. QED BY <1>2, <3>1, <3>2, <3>3
  <2>. QED BY <1>2, <1>3, <1>4, <2>1 DEF Nested
<1>6. tt[1] = st[1] /\ (n - 1 > 1 => tt[2] = st[2] /\ n > 1) BY <1>2, <1>3, <1>4
<1>7. Clean(fs) => \A k \in 1 .. n - 1 : OwnFrame(tt[k], r)
  BY <1>2, <1>4 DEF StackOK
<1>8. ~eq => \A k \in 1 .. n - 1 : tt[k].kind # "switch"
  BY <1>2, <1>4 DEF StackOK
<1>9. StackOK(tt, eq, r, fs) BY <1>4, <1>5, <1>6, <1>7, <1>8 DEF StackOK
<1>. QED BY <1>4, <1>9 DEF tt
(* The innermost statement gets a child, or is changed in what only its own   *)
(* tests look at.                                                           *)
LEMMA TopOK ==
  ASSUME NEW st, NEW eq \in BOOLEAN, NEW r, NEW fs, StackOK(st, eq, r, fs),
         NEW tt \in Seq(Frame), Len(tt) = Len(st),
         \A k \in 1 .. Len(st) - 1 : tt[k] = st[k],
         \/ tt[Len(st)].kind = st[Len(st)].kind
         \/ tt[Len(st)].kind = "else" /\ st[Len(st)].kind = "if",
         eq /\ Len(st) = 1 =>
           tt[1].path = Value /\ tt[1].block \in Seq(OwnChild(None)),
         Clean(fs) => /\ OwnFrame(tt[Len(st)], r)
                      /\ Len(st) = 1 /\ ~eq => tt[1].block \in Seq(OwnChild(r))
  PROVE  StackOK(tt, eq, r, fs)
<1>. DEFINE n == Len(st)
<1>1. st \in Seq(Frame) /\ Nested(st) BY DEF StackOK
<1>2. n \in Nat \ {0} /\ \A k \in 1 .. n : st[k] \in Frame BY <1>1, FrameSeq
<1>3. \A k \in 1 .. n :
        /\ tt[k].kind = st[k].kind \/ (tt[k].kind = "else" /\ st[k].kind = "if")
        /\ k # n => tt[k] = st[k]
  BY <1>2
<1>4. Nested(tt)
  <2>1. ASSUME NEW k \in 1 .. n
        PROVE  /\ tt[k].kind = "loop" <=> k = 1
               /\ tt[k].kind \in {"range", "for"} => k = n
               /\ tt[k].kind \in {"if", "case"} =>
                    k = n \/ (k + 1 = n /\ tt[n].kind \in {"range", "for"})
               /\ tt[k].kind = "case" => tt[k - 1].kind = "switch"
    <3>1. /\ st[k].kind = "loop" <=> k = 1
          /\ st[k].kind \in {"range", "for"} => k = n
          /\ st[k].kind \in {"if", "case"} =>
               k = n \/ (k + 1 = n /\ st[n].kind \in {"range", "for"})
          /\ st[k].kind = "case" => st[k - 1].kind = "switch"
      BY <1>1, <1>2 DEF Nested
    <3>2. k # 1 => tt[k - 1] = st[k - 1] BY <1>2, <1>3
    <3>3. /\ tt[k].kind = st[k].kind \/ (tt[k].kind = "else" /\ st[k].kind = "if")
          /\ tt[n].kind = st[n].kind \/ (tt[n].kind = "else" /\ st[n].kind = "if")
      BY <1>2, <1>3
    <3>4. st[k].kind = "case" => k # 1 BY <3>1
    <3>. QED BY <3>1, <3>2, <3>3, <3>4
  <2>. QED BY <1>2, <2>1 DEF Nested
<1>5. n # 1 => tt[1] = st[1] BY <1>2
<1>6. eq => /\ tt[1].path = Value /\ tt[1].block \in Seq(OwnChild(None))
            /\ n > 1 => tt[2].kind \notin {"range", "for"}
  <2>1. n > 1 => tt[2].kind = st[2].kind \/ tt[2].kind = "else"
    BY <1>2, <1>3
  <2>. QED BY <1>5, <2>1 DEF StackOK
<1>7. Clean(fs) /\ ~eq => tt[1].block \in Seq(OwnChild(r))
  BY <1>5 DEF StackOK
<1>8. Clean(fs) => \A k \in 1 .. n : OwnFrame(tt[k], r)
  BY <1>3 DEF StackOK
<1>9. ~eq => \A k \in 1 .. n : tt[k].kind # "switch"
  BY <1>3 DEF StackOK
<1>. QED BY <1>4, <1>6, <1>7, <1>8, <1>9 DEF StackOK

LEMMA WithChildIs ==
  ASSUME NEW st \in Seq(Frame), Len(st) # 0, NEW c \in Child
  PROVE  /\ WithChild(st, c) \in Seq(Frame) /\ Len(WithChild(st, c)) = Len(st)
         /\ \A k \in 1 .. Len(st) - 1 : WithChild(st, c)[k] = st[k]
         /\ WithChild(st, c)[Len(st)] =
              IF st[Len(st)].kind = "else" THEN st[Len(st)]
              ELSE [st[Len(st)] EXCEPT !.block = Append(st[Len(st)].block, c)]
<1>. DEFINE n == Len(st)
            g == [st[n] EXCEPT !.block = Append(st[n].block, c)]
<1>1. n \in Nat \ {0} BY LenProperties
<1>2. \A k \in 1 .. n : st[k] \in Frame BY ElementOfSeq
<1>3. CASE st[n].kind = "else"
  <2>1. WithChild(st, c) = st BY <1>3 DEF WithChild
  <2>. QED BY <1>1, <1>2, <1>3, <2>1
<1>4. CASE st[n].kind # "else"
  <2>1. WithChild(st, c) = [st EXCEPT ![n] = g] BY <1>4 DEF WithChild
  <2>2. st[n] \in Frame /\ st[n].block \in Seq(Child) BY <1>1, <1>2 DEF Frame
  <2>3. Append(st[n].block, c) \in Seq(Child) BY <2>2, AppendProperties
  <2>4. g \in Frame BY <2>2, <2>3 DEF Frame
  <2>. HIDE DEF g
  <2>5. n \in 1 .. n BY <1>1
  <2>6. [st EXCEPT ![n] = g] \in Seq(Frame) BY <2>4, <2>5, ExceptSeq
  <2>7. /\ Len([st EXCEPT ![n] = g]) = n
        /\ \A k \in 1 .. n : [st EXCEPT ![n] = g][k] = IF k = n THEN g ELSE st[k]
    BY <2>5, <1>1, LenProperties
  <2>. QED BY <1>1, <1>4, <2>1, <2>6, <2>7 DEF g
<1>. QED BY <1>3, <1>4

LEMMA ChildOK ==
  ASSUME NEW st, NEW eq \in BOOLEAN, NEW r, NEW fs, StackOK(st, eq, r, fs),
         NEW c \in Child,
         Clean(fs) => c \in OwnChild(r),
         eq /\ Len(st) = 1 => c \in OwnChild(None)
  PROVE  StackOK(WithChild(st, c), eq, r, fs)
<1>. DEFINE n == Len(st)
            tt == WithChild(st, c)
            b == Append(st[n].block, c)
<1>1. st \in Seq(Frame) /\ Nested(st) BY DEF StackOK
<1>2. n \in Nat \ {0} /\ n \in 1 .. n /\ st[n] \in Frame BY <1>1, FrameSeq
<1>3. /\ tt \in Seq(Frame) /\ Len(tt) = n
      /\ \A k \in 1 .. n - 1 : tt[k] = st[k]
      /\ tt[n] = IF st[n].kind = "else" THEN st[n] ELSE [st[n] EXCEPT !.block = b]
  BY <1>1, <1>2, WithChildIs
<1>. HIDE DEF tt
<1>4. st[n].kind # "else" =>
        /\ tt[n].block = b /\ tt[n].kind = st[n].kind /\ tt[n].path = st[n].path
        /\ tt[n].test = st[n].test
  <2>1. st[n].block \in Seq(Child) BY <1>2 DEF Frame
  <2>2. PICK d : d = b OBVIOUS
  <2>. HIDE DEF b
  <2>. QED BY <1>2, <1>3, <2>2 DEF Frame
<1>5. ASSUME NEW A, st[n].block \in Seq(A), c \in A PROVE b \in Seq(A)
  BY <1>5, AppendProperties
<1>. HIDE DEF b
<1>6. n = 1 => st[n].kind = "loop" BY <1>1, <1>2 DEF Nested
<1>7. eq /\ n = 1 => tt[1].path = Value /\ tt[1].block \in Seq(OwnChild(None))
  BY <1>4, <1>5, <1>6 DEF StackOK
<1>8. Clean(fs) /\ n = 1 /\ ~eq => tt[1].block \in Seq(OwnChild(r))
  BY <1>4, <1>5, <1>6 DEF StackOK
<1>9. Clean(fs) => OwnFrame(tt[n], r)
  <2>1. SUFFICES ASSUME Clean(fs) PROVE OwnFrame(tt[n], r) OBVIOUS
  <2>2. OwnFrame(st[n], r) /\ c \in OwnChild(r) BY <1>2, <2>1 DEF StackOK
  <2>3. CASE st[n].kind = "else" BY <1>3, <2>2, <2>3
  <2>4. CASE st[n].kind # "else"
    <3>1. st[n].kind = "if" => b \in Seq(OwnChild(st[n].test))
      BY <1>5, <2>2 DEF OwnFrame
    <3>2. st[n].kind \in {"case", "range", "for"} => b \in Seq(OwnChild(r))
      BY <1>5, <2>2 DEF OwnFrame
    <3>. QED BY <1>4, <2>2, <2>4, <3>1, <3>2 DEF OwnFrame
  <2>. QED BY <2>3, <2>4
<1>10. tt[n].kind = st[n].kind BY <1>3, <1>4
<1>. HIDE DEF n
<1>11. StackOK(tt, eq, r, fs)
  BY <1>2, <1>3, <1>7, <1>8, <1>9, <1>10, TopOK DEF n
<1>. QED BY <1>11 DEF tt

(* Where a test can be, nothing that is collected depends on the last detail. *)
LEMMA OuterFrames ==
  ASSUME NEW st \in Seq(Frame), Nested(st),
         st[Len(st)].kind \in {"loop", "plain", "else", "switch"}
  PROVE  \A k \in 1 .. Len(st) : st[k].kind \notin {"if", "case", "range", "for"}
<1>1. Len(st) \in Nat \ {0} BY FrameSeq
<1>. QED BY <1>1 DEF Nested

LEMMA ResolveOK ==
  ASSUME NEW st, NEW r, NEW fs, StackOK(st, TRUE, r, fs), NEW q, NEW gs, fs \subseteq gs,
         st[Len(st)].kind \in {"loop", "plain", "else", "switch"}
  PROVE  StackOK(st, TRUE, q, gs)
<1>1. \A k \in 1 .. Len(st) : st[k].kind \notin {"if", "case", "range", "for"}
  BY OuterFrames DEF StackOK
<1>2. Clean(gs) => Clean(fs) BY DEF Clean
<1>. QED BY <1>1, <1>2 DEF StackOK, OwnFrame

LEMMA FormsOK ==
  ASSUME NEW st, NEW eq \in BOOLEAN, NEW r, NEW fs, StackOK(st, eq, r, fs),
         NEW gs, fs \subseteq gs
  PROVE  StackOK(st, eq, r, gs)
<1>1. Clean(gs) => Clean(fs) BY DEF Clean
<1>. QED BY <1>1 DEF StackOK
-----------------------------------------------------------------------------
(* The details                                                              *)

(* What BodyKept says of a step.                                            *)
BodyStep ==
  \A i \in 1 .. Len(details) :
    details[i].filled /\ "caseAgain" \notin forms =>
      \A part \in {"value", "pre", "loop", "post"} :
        details'[i][part] = details[i][part]

SameText(e, d) ==
  /\ e.value = d.value /\ e.filled = d.filled
  /\ e.pre = d.pre /\ e.loop = d.loop /\ e.post = d.post

SameTexts(es, ds) ==
  /\ es \in Seq(Detail) /\ Len(es) = Len(ds)
  /\ \A i \in 1 .. Len(ds) : SameText(es[i], ds[i])

(* Only how the last detail is read changes.                                *)
LEMMA LastIs ==
  ASSUME NEW ds \in Seq(Detail), ds # << >>, NEW e \in Detail,
         SameText(e, ds[Len(ds)])
  PROVE  SameTexts([ds EXCEPT ![Len(ds)] = e], ds)
<1>1. Len(ds) \in Nat \ {0} BY EmptySeq, LenProperties
<1>2. [ds EXCEPT ![Len(ds)] = e] \in Seq(Detail) BY <1>1, ExceptSeq
<1>3. /\ Len([ds EXCEPT ![Len(ds)] = e]) = Len(ds)
      /\ \A k \in 1 .. Len(ds) :
           [ds EXCEPT ![Len(ds)] = e][k] = IF k = Len(ds) THEN e ELSE ds[k]
  BY <1>1, LenProperties
<1>. QED BY <1>1, <1>2, <1>3 DEF SameTexts, SameText

LEMMA WithMethodIs ==
  ASSUME NEW ds \in Seq(Detail), NEW m \in {"scalar", "list"}
  PROVE  SameTexts(WithMethod(ds, m), ds)
<1>1. CASE ds = << >> \/ ds[Len(ds)].method # "none"
  BY <1>1 DEF WithMethod, SameTexts, SameText
<1>2. CASE ds # << >> /\ ds[Len(ds)].method = "none"
  <2>1. Len(ds) \in Nat \ {0} BY <1>2, EmptySeq, LenProperties
  <2>2. ds[Len(ds)] \in Detail BY <2>1, ElementOfSeq
  <2>3. PICK e : e = [ds[Len(ds)] EXCEPT !.method = m] OBVIOUS
  <2>4. e \in Detail /\ SameText(e, ds[Len(ds)]) BY <2>2, <2>3 DEF Detail, SameText
  <2>5. WithMethod(ds, m) = [ds EXCEPT ![Len(ds)] = e] BY <1>2, <2>3 DEF WithMethod
  <2>. QED BY <1>2, <2>4, <2>5, LastIs
<1>. QED BY <1>1, <1>2

LEMMA SameTextsTwice ==
  ASSUME NEW ds, NEW es, NEW fs, SameTexts(es, ds), SameTexts(fs, es)
  PROVE  SameTexts(fs, ds)
BY DEF SameTexts, SameText

LEMMA AsForIs ==
  ASSUME NEW ds \in Seq(Detail), ds # << >>, NEW b \in BOOLEAN
  PROVE  SameTexts([ds EXCEPT ![Len(ds)].isFor = b], ds)
<1>1. Len(ds) \in Nat \ {0} BY EmptySeq, LenProperties
<1>2. ds[Len(ds)] \in Detail BY <1>1, ElementOfSeq
<1>3. PICK e : e = [ds[Len(ds)] EXCEPT !.isFor = b] OBVIOUS
<1>4. e \in Detail /\ SameText(e, ds[Len(ds)]) BY <1>2, <1>3 DEF Detail, SameText
<1>5. [ds EXCEPT ![Len(ds)].isFor = b] = [ds EXCEPT ![Len(ds)] = e] BY <1>3
<1>. QED BY <1>4, <1>5, LastIs

LEMMA BlockTexts ==
  ASSUME NEW A, NEW s \in Seq(ChildOf(A))
  PROVE  TextsOver(BodyText(s), A)
BY BodyTextType DEF TextsOver

LEMMA OwnTexts ==
  ASSUME NEW d
  PROVE  OwnDetail(d) <=> TextsOver(d, OwnItem(d.value))
BY DEF OwnDetail, TextsOver

LEMMA ChildOfItem == Child = ChildOf(Item)
BY DEF Child, ChildOf

(* A detail gets the text of a block of its name.                           *)
LEMMA FilledOwn ==
  ASSUME NEW d \in Detail, NEW s \in Seq(Child), NEW b \in BOOLEAN
  PROVE  /\ Filled(d, BodyText(s), b) \in Detail
         /\ Filled(d, BodyText(s), b).value = d.value
         /\ OwnDetail(d) /\ s \in Seq(OwnChild(d.value))
              => OwnDetail(Filled(d, BodyText(s), b))
<1>1. TextsOver(BodyText(s), Item) BY ChildOfItem, BlockTexts
<1>2. /\ Filled(d, BodyText(s), b) \in Detail
      /\ Filled(d, BodyText(s), b).value = d.value
      /\ \A A : TextsOver(d, A) /\ TextsOver(BodyText(s), A)
                  => TextsOver(Filled(d, BodyText(s), b), A)
  BY <1>1, FilledIs
<1>3. ASSUME OwnDetail(d), s \in Seq(OwnChild(d.value))
      PROVE  OwnDetail(Filled(d, BodyText(s), b))
  <2>1. TextsOver(BodyText(s), OwnItem(d.value)) BY <1>3, BlockTexts DEF OwnChild
  <2>2. TextsOver(d, OwnItem(d.value)) BY <1>3, OwnTexts
  <2>. QED BY <1>2, <2>1, <2>2, OwnTexts
<1>. QED BY <1>2, <1>3

LEMMA FillTestedIs ==
  ASSUME details \in Seq(Detail), NEW v, NEW s \in Seq(Child)
  PROVE  /\ FillTested(v, s) \in Seq(Detail) /\ Len(FillTested(v, s)) = Len(details)
         /\ \A i \in 1 .. Len(details) :
              /\ FillTested(v, s)[i].value = details[i].value
              /\ details[i].filled => FillTested(v, s)[i] = details[i]
              /\ OwnDetail(details[i]) /\ s \in Seq(OwnChild(v))
                   => OwnDetail(FillTested(v, s)[i])
<1>1. Len(details) \in Nat BY LenProperties
<1>2. \A i \in 1 .. Len(details) : details[i] \in Detail BY ElementOfSeq
<1>3. ASSUME NEW i \in 1 .. Len(details)
      PROVE  /\ FillTested(v, s)[i] \in Detail
             /\ FillTested(v, s)[i].value = details[i].value
             /\ details[i].filled => FillTested(v, s)[i] = details[i]
             /\ OwnDetail(details[i]) /\ s \in Seq(OwnChild(v))
                  => OwnDetail(FillTested(v, s)[i])
  <2>1. CASE i \in Positions(details, v) /\ ~details[i].filled
    <3>1. details[i].value = v BY <2>1 DEF Positions
    <3>2. FillTested(v, s)[i] = Filled(details[i], BodyText(s), s # << >>)
      BY <2>1 DEF FillTested
    <3>3. (s # << >>) \in BOOLEAN OBVIOUS
    <3>. QED BY <1>2, <2>1, <3>1, <3>2, <3>3, FilledOwn
  <2>2. CASE ~(i \in Positions(details, v) /\ ~details[i].filled)
    <3>1. FillTested(v, s)[i] = details[i] BY <2>2 DEF FillTested
    <3>. QED BY <1>2, <3>1
  <2>. QED BY <2>1, <2>2
<1>4. FillTested(v, s) \in Seq(Detail) /\ Len(FillTested(v, s)) = Len(details)
  BY <1>1, <1>3, IsASeq DEF FillTested
<1>. QED BY <1>3, <1>4
-----------------------------------------------------------------------------
(* A step after which the details read as before.                           *)
LEMMA KeepOK ==
  ASSUME IInv, SameTexts(details', details), equal' = equal, compared' = compared,
         done' \in BOOLEAN, source' \in [Value -> Seq(Effect)], visited' \in Nat,
         forms' \subseteq Unusual, forms \subseteq forms',
         StackOK(stack', equal, Resolved, forms'),
         \A k \in 1 .. Len(stack') : stack'[k].kind = "case" =>
           \E j \in 1 .. Top : stack[j].kind = "case"
  PROVE  IInv' /\ BodyStep
<1>1. /\ details \in Seq(Detail) /\ NoTwice(details)
      /\ DetailsOK /\ CaseOpen /\ equal \in BOOLEAN /\ compared \in BOOLEAN
  BY DEF IInv, CommonInfoTypeOK, NoTwice
<1>2. /\ details' \in Seq(Detail) /\ Len(details') = Len(details)
      /\ \A i \in 1 .. Len(details) : SameText(details'[i], details[i])
  BY DEF SameTexts
<1>3. /\ Len(details) \in Nat
      /\ details = << >> <=> Len(details) = 0
      /\ details' = << >> <=> Len(details') = 0
  BY <1>1, <1>2, EmptySeq, LenProperties
<1>4. stack' \in Seq(Frame) BY DEF StackOK
<1>5. \A i, j \in 1 .. Len(details') : details'[i].value = details'[j].value => i = j
  BY <1>1, <1>2 DEF SameText, NoTwice
<1>6. CommonInfoTypeOK'
  BY <1>1, <1>2, <1>4, <1>5 DEF CommonInfoTypeOK
<1>7. Resolved' = Resolved BY <1>2, <1>3 DEF Resolved, SameText
<1>8. DetailsOK'
  <2>1. ~compared' => details' = << >> BY <1>1, <1>2, <1>3 DEF DetailsOK
  <2>2. Clean(forms') => Clean(forms) BY DEF Clean
  <2>3. ASSUME NEW i \in 1 .. Len(details), OwnDetail(details[i])
        PROVE  OwnDetail(details'[i])
    <3>1. /\ details[i].pre \in Seq(OwnItem(details[i].value))
          /\ details[i].loop \in Seq(OwnItem(details[i].value))
          /\ details[i].post \in Seq(OwnItem(details[i].value))
      BY <2>3 DEF OwnDetail
    <3>2. /\ details'[i].pre \in Seq(OwnItem(details'[i].value))
          /\ details'[i].loop \in Seq(OwnItem(details'[i].value))
          /\ details'[i].post \in Seq(OwnItem(details'[i].value))
      BY <1>2, <3>1 DEF SameText
    <3>. QED BY <3>2 DEF OwnDetail
  <2>. QED BY <1>1, <1>2, <2>1, <2>2, <2>3 DEF DetailsOK
<1>9. CaseOpen'
  <2>1. SUFFICES ASSUME "caseAgain" \notin forms', NEW k \in 1 .. Len(stack'),
                        stack'[k].kind = "case", details' # << >>
                 PROVE  ~details'[Len(details')].filled
    BY DEF CaseOpen, Top
  <2>2. ~details[Len(details)].filled BY <1>1, <1>2, <1>3, <2>1 DEF CaseOpen
  <2>. QED BY <1>2, <1>3, <2>1, <2>2 DEF SameText
<1>10. BodyStep BY <1>2 DEF BodyStep, SameText
<1>11. StackOK(stack', equal', Resolved', forms') BY <1>7
<1>. QED BY <1>6, <1>8, <1>9, <1>10, <1>11 DEF IInv
-----------------------------------------------------------------------------
(* The steps                                                                *)

LEMMA Facts ==
  ASSUME IInv
  PROVE  /\ stack \in Seq(Frame) /\ Nested(stack)
         /\ Top \in Nat \ {0} /\ Top = Len(stack)
         /\ Here \in Frame /\ Here = stack[Len(stack)] /\ Here.block \in Seq(Child)
         /\ Here.kind = "loop" <=> Top = 1
         /\ equal \in BOOLEAN /\ compared \in BOOLEAN /\ done \in BOOLEAN
         /\ details \in Seq(Detail) /\ Len(details) \in Nat /\ NoTwice(details)
         /\ source \in [Value -> Seq(Effect)] /\ forms \subseteq Unusual
         /\ visited \in Nat /\ Id \in Nat
         /\ Resolved \in Value \cup {None}
         /\ StackOK(stack, equal, Resolved, forms)
<1>1. CommonInfoTypeOK /\ StackOK(stack, equal, Resolved, forms) BY DEF IInv
<1>2. stack \in Seq(Frame) /\ Nested(stack) BY <1>1 DEF StackOK
<1>3. Len(stack) \in Nat \ {0} /\ \A k \in 1 .. Len(stack) : stack[k] \in Frame
  BY <1>2, FrameSeq
<1>4. stack[Len(stack)].kind = "loop" <=> Len(stack) = 1
  <2>1. Len(stack) \in 1 .. Len(stack) BY <1>3
  <2>. QED BY <1>2, <2>1 DEF Nested
<1>5. Here \in Frame /\ Here.block \in Seq(Child) BY <1>3 DEF Here, Top, Frame
<1>6. Resolved \in Value \cup {None}
  <2>1. details \in Seq(Detail) BY <1>1 DEF CommonInfoTypeOK
  <2>2. details # << >> => details[Len(details)] \in Detail
    BY <2>1, EmptySeq, ElementOfSeq, LenProperties
  <2>. QED BY <2>2 DEF Resolved, Detail
<1>7. Len(details) \in Nat BY <1>1, LenProperties DEF CommonInfoTypeOK
<1>. QED
  BY <1>1, <1>2, <1>3, <1>4, <1>5, <1>6, <1>7 DEF CommonInfoTypeOK, NoTwice, Top, Here, Id

LEMMA FormsTypes ==
  ASSUME NEW kind
  PROVE  FormsHere \subseteq Unusual /\ FormsOfList(kind) \subseteq Unusual
BY DEF FormsHere, FormsOfList, Unusual

LEMMA ExecutedType ==
  ASSUME IInv, NEW reads \in BOOLEAN, NEW loop \in Nat, Executed(reads, loop)
  PROVE  source' \in [Value -> Seq(Effect)]
<1>1. source \in [Value -> Seq(Effect)] /\ Id \in Nat BY Facts
<1>2. PICK e : e = [id |-> Id, reads |-> reads, loop |-> loop] OBVIOUS
<1>3. e \in Effect BY <1>1, <1>2 DEF Effect
<1>4. \A v \in Value : Append(source[v], e) \in Seq(Effect)
  BY <1>1, <1>3, AppendProperties
<1>5. source' = [v \in Value |-> IF v \in Here.path THEN Append(source[v], e) ELSE source[v]]
  BY <1>2 DEF Executed
<1>. QED BY <1>1, <1>4, <1>5

LEMMA SeqOfOne ==
  ASSUME NEW A, NEW x \in A
  PROVE  <<x>> \in Seq(A)
OBVIOUS

(* A child of one statement.                                                *)
LEMMA Child1Is ==
  ASSUME NEW v, NEW item \in OwnItem(v)
  PROVE  Child1("stmt", item) \in OwnChild(v) /\ Child1("stmt", item) \in Child
<1>1. <<item>> \in Seq(OwnItem(v)) BY SeqOfOne
<1>2. <<item>> \in Seq(Item) BY <1>1, OwnItemIs
<1>. QED BY <1>1, <1>2 DEF Child1, OwnChild, ChildOf, Child

(* A child that leaves no text.                                             *)
LEMMA EmptyChildIs ==
  ASSUME NEW kind \in {"stmt", "if"}
  PROVE  /\ [kind |-> kind, items |-> << >>] \in Child
         /\ \A v : [kind |-> kind, items |-> << >>] \in OwnChild(v)
<1>1. << >> \in Seq(Item) /\ \A v : << >> \in Seq(OwnItem(v)) OBVIOUS
<1>. QED BY <1>1 DEF OwnChild, ChildOf, Child

(* The case statements there are after a child was added or the last frame    *)
(* was dropped.                                                             *)
LEMMA WithChildCases ==
  ASSUME NEW st \in Seq(Frame), Len(st) # 0, NEW c \in Child,
         NEW k \in 1 .. Len(st)
  PROVE  WithChild(st, c)[k].kind = st[k].kind /\ Len(WithChild(st, c)) = Len(st)
<1>1. Len(st) \in Nat \ {0} BY LenProperties
<1>2. /\ Len(WithChild(st, c)) = Len(st)
      /\ \A j \in 1 .. Len(st) - 1 : WithChild(st, c)[j] = st[j]
      /\ WithChild(st, c)[Len(st)] =
           IF st[Len(st)].kind = "else" THEN st[Len(st)]
           ELSE [st[Len(st)] EXCEPT !.block = Append(st[Len(st)].block, c)]
  BY WithChildIs
<1>3. PICK b : b = Append(st[Len(st)].block, c) OBVIOUS
<1>4. st[Len(st)] \in Frame BY <1>1, ElementOfSeq
<1>5. [st[Len(st)] EXCEPT !.block = b].kind = st[Len(st)].kind BY <1>4 DEF Frame
<1>6. CASE k = Len(st) BY <1>2, <1>3, <1>5, <1>6
<1>7. CASE k \in 1 .. Len(st) - 1 BY <1>2, <1>7
<1>. QED BY <1>1, <1>6, <1>7

LEMMA StatementOK ==
  ASSUME IInv, NEW reads \in BOOLEAN, Statement(reads)
  PROVE  IInv' /\ BodyStep
<1>. DEFINE item == [id |-> Id, loop |-> 0, header |-> FALSE,
                     var |-> IF reads THEN Resolved ELSE None]
            c == Child1("stmt", item)
<1>1. item \in OwnItem(Resolved) /\ (~reads => item \in OwnItem(None))
  BY Facts DEF Item, OwnItem
<1>2. equal /\ Len(stack) = 1 => ~reads
  BY Facts DEF Statement, Tested, StackOK
<1>3. stack' = WithChild(stack, c) BY DEF Statement
<1>. HIDE DEF item
<1>4. c \in OwnChild(Resolved) /\ c \in Child /\ (~reads => c \in OwnChild(None))
  BY <1>1, Child1Is
<1>. HIDE DEF c
<1>5. StackOK(stack', equal, Resolved, forms)
  BY <1>2, <1>3, <1>4, Facts, ChildOK
<1>6. forms \subseteq forms' /\ forms' \subseteq Unusual
  BY Facts, FormsTypes DEF Statement
<1>7. StackOK(stack', equal, Resolved, forms') BY <1>5, <1>6, Facts, FormsOK
<1>8. \A k \in 1 .. Len(stack') : stack'[k].kind = "case" =>
        \E j \in 1 .. Top : stack[j].kind = "case"
  BY <1>3, <1>4, Facts, WithChildIs, WithChildCases
<1>9. SameTexts(details', details)
  <2>1. SameTexts(details, details) BY Facts DEF SameTexts, SameText
  <2>2. SameTexts(WithMethod(details, "scalar"), details) BY Facts, WithMethodIs
  <2>. QED BY <2>1, <2>2 DEF Statement
<1>10. source' \in [Value -> Seq(Effect)]
  BY ExecutedType DEF Statement
<1>11. visited' \in Nat /\ equal' = equal /\ compared' = compared /\ done' \in BOOLEAN
  BY Facts DEF Statement, Visit
<1>. QED BY <1>6, <1>7, <1>8, <1>9, <1>10, <1>11, KeepOK
(* The frame f as it is pushed.                                             *)
Pushed(f, kind, test) ==
  f \in Frame /\ f.kind = kind /\ f.block = << >> /\ f.test = test

LEMMA NewFrameIs ==
  ASSUME NEW kind \in {"plain", "if", "range", "for", "switch", "case"},
         NEW path \in SUBSET Value
  PROVE  /\ Pushed(NewFrame(kind, path), kind, None)
         /\ \A n \in Nat : Pushed([NewFrame(kind, path) EXCEPT !.number = n], kind, None)
         /\ \A rest \in SUBSET Value :
              Pushed([NewFrame(kind, path) EXCEPT !.rest = rest], kind, None)
         /\ \A rest \in SUBSET Value, v \in Value :
              Pushed([NewFrame(kind, path) EXCEPT !.rest = rest, !.test = v], kind, v)
         /\ \A b \in BOOLEAN :
              Pushed([NewFrame(kind, path) EXCEPT !.braced = b], kind, None)
<1>1. << >> \in Seq(Child) /\ {} \in SUBSET Value OBVIOUS
<1>2. Pushed(NewFrame(kind, path), kind, None)
  BY <1>1 DEF NewFrame, Frame, Pushed
<1>3. ASSUME NEW n \in Nat
      PROVE  Pushed([NewFrame(kind, path) EXCEPT !.number = n], kind, None)
  BY <1>1 DEF NewFrame, Frame, Pushed
<1>4. ASSUME NEW rest \in SUBSET Value
      PROVE  Pushed([NewFrame(kind, path) EXCEPT !.rest = rest], kind, None)
  BY <1>1 DEF NewFrame, Frame, Pushed
<1>5. ASSUME NEW rest \in SUBSET Value, NEW v \in Value
      PROVE  Pushed([NewFrame(kind, path) EXCEPT !.rest = rest, !.test = v], kind, v)
  BY <1>1 DEF NewFrame, Frame, Pushed
<1>6. ASSUME NEW b \in BOOLEAN
      PROVE  Pushed([NewFrame(kind, path) EXCEPT !.braced = b], kind, None)
  BY <1>1 DEF NewFrame, Frame, Pushed
<1>. QED BY <1>2, <1>3, <1>4, <1>5, <1>6

LEMMA PushCases ==
  ASSUME NEW st \in Seq(Frame), Len(st) # 0, NEW f \in Frame
  PROVE  /\ Len(Append(st, f)) = Len(st) + 1
         /\ \A k \in 1 .. Len(st) : Append(st, f)[k] = st[k]
         /\ Append(st, f)[Len(st) + 1] = f
         /\ \A k \in 1 .. Len(st) + 1 : k = Len(st) + 1 \/ k \in 1 .. Len(st)
<1>1. Len(st) \in Nat BY LenProperties
<1>. QED BY <1>1, AppendProperties

(* A step that begins a statement and reads details as before.              *)
LEMMA EnterOK ==
  ASSUME IInv, NEW f \in Frame, stack' = Append(stack, f), f.kind # "case",
         StackOK(stack', equal, Resolved, forms),
         SameTexts(details', details), equal' = equal, compared' = compared,
         done' \in BOOLEAN, source' = source, visited' \in Nat,
         forms' \subseteq Unusual, forms \subseteq forms'
  PROVE  IInv' /\ BodyStep
<1>1. StackOK(stack', equal, Resolved, forms') BY Facts, FormsOK
<1>2. \A k \in 1 .. Len(stack') : stack'[k].kind = "case" =>
        \E j \in 1 .. Top : stack[j].kind = "case"
  <2>1. /\ stack \in Seq(Frame) /\ Len(stack) # 0 /\ Top = Len(stack)
    BY Facts
  <2>2. ASSUME NEW k \in 1 .. Len(stack'), stack'[k].kind = "case"
        PROVE  k \in 1 .. Top /\ stack[k].kind = "case"
    BY <2>1, <2>2, PushCases
  <2>. QED BY <2>2
<1>3. source' \in [Value -> Seq(Effect)] BY Facts
<1>. QED BY <1>1, <1>2, <1>3, KeepOK

LEMMA EnterListOK ==
  ASSUME IInv, NEW kind \in {"range", "for"}, EnterList(kind)
  PROVE  IInv' /\ BodyStep
<1>1. PICK f : f = [NewFrame(kind, Here.path) EXCEPT !.number = Id] OBVIOUS
<1>2. Here.path \in SUBSET Value /\ Id \in Nat BY Facts DEF Frame
<1>3. f \in Frame /\ f.kind = kind /\ f.block = << >>
  <2>1. Pushed([NewFrame(kind, Here.path) EXCEPT !.number = Id], kind, None)
    BY <1>2, NewFrameIs
  <2>. QED BY <1>1, <2>1 DEF Pushed
<1>4. stack' = Append(stack, f) BY <1>1 DEF EnterList
<1>5. Here.kind \in {"loop", "if", "else", "case"} /\ Here.path # Value
  BY DEF EnterList, Tested
<1>6. equal /\ Len(stack) = 1 => FALSE BY <1>5, Facts DEF StackOK
<1>7. StackOK(Append(stack, f), equal, Resolved, forms)
  BY <1>3, <1>5, <1>6, Facts, PushOK
<1>8. SameTexts(details', details)
  <2>1. SameTexts(WithMethod(details, "list"), details) BY Facts, WithMethodIs
  <2>2. PICK ds : ds = WithMethod(details, "list") OBVIOUS
  <2>3. SameTexts(ds, details) /\ ds \in Seq(Detail) BY <2>1, <2>2 DEF SameTexts
  <2>4. details' = IF ds = << >> THEN ds
                   ELSE [ds EXCEPT ![Len(ds)].isFor = (kind = "for")]
    BY <2>2 DEF EnterList
  <2>5. PICK b \in BOOLEAN : b <=> kind = "for" OBVIOUS
  <2>6. (kind = "for") \in BOOLEAN OBVIOUS
  <2>7. CASE ds = << >> BY <2>3, <2>4, <2>7
  <2>8. CASE ds # << >>
    <3>1. SameTexts([ds EXCEPT ![Len(ds)].isFor = (kind = "for")], ds)
      BY <2>3, <2>6, <2>8, AsForIs
    <3>. QED BY <2>3, <2>4, <2>8, <3>1, SameTextsTwice
  <2>. QED BY <2>7, <2>8
<1>9. forms \subseteq forms' /\ forms' \subseteq Unusual
  BY Facts, FormsTypes DEF EnterList
<1>10. /\ visited' \in Nat /\ equal' = equal /\ compared' = compared
       /\ done' \in BOOLEAN /\ source' = source
  BY Facts DEF EnterList, Visit
<1>. QED BY <1>3, <1>4, <1>7, <1>8, <1>9, <1>10, EnterOK

LEMMA EnterPlainOK ==
  ASSUME IInv, NEW ofType \in BOOLEAN, EnterPlain(ofType)
  PROVE  IInv' /\ BodyStep
<1>1. PICK f : f = NewFrame("plain", Here.path) OBVIOUS
<1>2. Here.path \in SUBSET Value BY Facts DEF Frame
<1>3. f \in Frame /\ f.kind = "plain" /\ f.block = << >>
  <2>1. Pushed(NewFrame("plain", Here.path), "plain", None) BY <1>2, NewFrameIs
  <2>. QED BY <1>1, <2>1 DEF Pushed
<1>4. stack' = Append(stack, f) BY <1>1 DEF EnterPlain
<1>5. StackOK(Append(stack, f), equal, Resolved, forms)
  BY <1>3, Facts, PushOK DEF EnterPlain
<1>6. SameTexts(details', details) BY Facts DEF EnterPlain, SameTexts, SameText
<1>7. forms \subseteq forms' /\ forms' \subseteq Unusual
  BY Facts DEF EnterPlain, Unusual
<1>8. /\ visited' \in Nat /\ equal' = equal /\ compared' = compared
      /\ done' \in BOOLEAN /\ source' = source
  BY Facts DEF EnterPlain, Visit
<1>. QED BY <1>3, <1>4, <1>5, <1>6, <1>7, <1>8, EnterOK

LEMMA EnterSwitchOK ==
  ASSUME IInv, EnterSwitch
  PROVE  IInv' /\ BodyStep
<1>1. PICK f : f = [NewFrame("switch", {}) EXCEPT !.rest = Here.path] OBVIOUS
<1>2. Here.path \in SUBSET Value BY Facts DEF Frame
<1>3. f \in Frame /\ f.kind = "switch" /\ f.block = << >>
  <2>1. Pushed([NewFrame("switch", {}) EXCEPT !.rest = Here.path], "switch", None)
    BY <1>2, NewFrameIs
  <2>. QED BY <1>1, <2>1 DEF Pushed
<1>4. stack' = Append(stack, f) BY <1>1 DEF EnterSwitch
<1>5. StackOK(Append(stack, f), equal, Resolved, forms)
  BY <1>3, Facts, PushOK DEF EnterSwitch
<1>6. SameTexts(details', details) BY Facts DEF EnterSwitch, SameTexts, SameText
<1>7. forms \subseteq forms' /\ forms' \subseteq Unusual BY Facts DEF EnterSwitch
<1>8. /\ visited' \in Nat /\ equal' = equal /\ compared' = compared
      /\ done' \in BOOLEAN /\ source' = source
  BY Facts DEF EnterSwitch, Visit
<1>. QED BY <1>3, <1>4, <1>5, <1>6, <1>7, <1>8, EnterOK

LEMMA ListStatementOK ==
  ASSUME IInv, ListStatement
  PROVE  IInv' /\ BodyStep
<1>. DEFINE item == [id |-> Id, loop |-> Here.number, header |-> Here.kind = "for",
                     var |-> IF Here.kind = "for" THEN Resolved ELSE Elem]
            c == Child1("stmt", item)
<1>1. Here.number \in Nat BY Facts DEF Frame
<1>2. item \in OwnItem(Resolved) BY <1>1, Facts DEF Item, OwnItem
<1>3. stack' = WithChild(stack, c) BY DEF ListStatement
<1>. HIDE DEF item
<1>4. c \in OwnChild(Resolved) /\ c \in Child BY <1>2, Child1Is
<1>. HIDE DEF c
<1>5. Len(stack) # 1 BY Facts DEF ListStatement
<1>6. StackOK(stack', equal, Resolved, forms) BY <1>3, <1>4, <1>5, Facts, ChildOK
<1>7. forms \subseteq forms' /\ forms' \subseteq Unusual
  BY Facts, FormsTypes DEF ListStatement
<1>8. StackOK(stack', equal, Resolved, forms') BY <1>6, <1>7, Facts, FormsOK
<1>9. \A k \in 1 .. Len(stack') : stack'[k].kind = "case" =>
        \E j \in 1 .. Top : stack[j].kind = "case"
  BY <1>3, <1>4, Facts, WithChildIs, WithChildCases
<1>10. SameTexts(details', details) BY Facts DEF ListStatement, SameTexts, SameText
<1>11. source' \in [Value -> Seq(Effect)] BY <1>1, ExecutedType DEF ListStatement
<1>12. visited' \in Nat /\ equal' = equal /\ compared' = compared /\ done' \in BOOLEAN
  BY Facts DEF ListStatement, Visit
<1>. QED BY <1>7, <1>8, <1>9, <1>10, <1>11, <1>12, KeepOK

(* The statement that ends becomes a child of the one around it.             *)
LEMMA ClosedOK ==
  ASSUME IInv, Here.kind # "loop", NEW c \in Child,
         Clean(forms) => c \in OwnChild(Resolved),
         equal /\ Top = 2 => c \in OwnChild(None)
  PROVE  /\ StackOK(Closed(c), equal, Resolved, forms)
         /\ Len(Closed(c)) = Top - 1
         /\ \A k \in 1 .. Top - 1 : Closed(c)[k].kind = stack[k].kind
<1>1. /\ StackOK(Front(stack), equal, Resolved, forms)
      /\ Len(Front(stack)) = Top - 1
      /\ \A k \in 1 .. Top - 1 : Front(stack)[k] = stack[k]
  BY Facts, PopOK
<1>2. Top \in Nat \ {0, 1} /\ equal \in BOOLEAN BY Facts
<1>3. Front(stack) \in Seq(Frame) /\ Len(Front(stack)) # 0
  BY <1>1 DEF StackOK, Nested
<1>4. equal /\ Len(Front(stack)) = 1 => c \in OwnChild(None)
  <2>1. ASSUME NEW n \in Nat, n - 1 = 1 PROVE n = 2 BY <2>1
  <2>2. Len(Front(stack)) = Top - 1 /\ Top \in Nat BY <1>1, <1>2
  <2>3. Len(Front(stack)) = 1 => Top = 2 BY ONLY <2>1, <2>2
  <2>. QED BY <2>3
<1>5. StackOK(WithChild(Front(stack), c), equal, Resolved, forms)
  BY <1>1, <1>2, <1>4, ChildOK
<1>6. \A k \in 1 .. Top - 1 : WithChild(Front(stack), c)[k].kind = stack[k].kind
  BY <1>1, <1>3, WithChildCases
<1>7. Len(WithChild(Front(stack), c)) = Top - 1 BY <1>1, <1>3, WithChildIs
<1>. QED BY <1>5, <1>6, <1>7 DEF Closed

LEMMA CloseOK ==
  ASSUME IInv, Here.kind # "loop", NEW c \in Child, stack' = Closed(c),
         Clean(forms) => c \in OwnChild(Resolved),
         equal /\ Top = 2 => c \in OwnChild(None),
         UNCHANGED <<details, equal, compared, source, forms, visited, done>>
  PROVE  IInv' /\ BodyStep
<1>1. /\ StackOK(stack', equal, Resolved, forms')
      /\ Len(stack') = Top - 1
      /\ \A k \in 1 .. Top - 1 : stack'[k].kind = stack[k].kind
  BY ClosedOK
<1>2. \A k \in 1 .. Len(stack') : stack'[k].kind = "case" =>
        \E j \in 1 .. Top : stack[j].kind = "case"
  <2>1. \A k \in 1 .. Top - 1 : k \in 1 .. Top BY Facts
  <2>. QED BY <1>1, <2>1
<1>3. SameTexts(details', details) BY Facts DEF SameTexts, SameText
<1>. QED BY <1>1, <1>2, <1>3, Facts, KeepOK

LEMMA LeaveListOK ==
  ASSUME IInv, LeaveList
  PROVE  IInv' /\ BodyStep
<1>. DEFINE c == [kind |-> Here.kind, items |-> Flat(Here.block)]
<1>1. Here.kind \in {"range", "for"} /\ Here.block \in Seq(Child) BY Facts DEF LeaveList
<1>2. Flat(Here.block) \in Seq(Item) BY <1>1, ChildOfItem, FlatType
<1>3. c \in Child BY <1>1, <1>2 DEF Child
<1>4. ASSUME Clean(forms) PROVE c \in OwnChild(Resolved)
  <2>1. Len(stack) \in 1 .. Len(stack) BY Facts
  <2>2. OwnFrame(Here, Resolved) BY <1>4, <2>1, Facts DEF StackOK
  <2>3. Here.block \in Seq(ChildOf(OwnItem(Resolved)))
    BY <1>1, <2>2 DEF OwnFrame, OwnChild
  <2>4. Flat(Here.block) \in Seq(OwnItem(Resolved)) BY <2>3, FlatType
  <2>. QED BY <1>3, <2>4 DEF OwnChild, ChildOf
<1>5. ~(equal /\ Top = 2) BY <1>1, Facts DEF StackOK
<1>6. stack' = Closed(c) BY DEF LeaveList
<1>. HIDE DEF c
<1>. QED BY <1>1, <1>3, <1>4, <1>5, <1>6, CloseOK DEF LeaveList

LEMMA LeavePlainOK ==
  ASSUME IInv, LeavePlain
  PROVE  IInv' /\ BodyStep
<1>1. PICK c : c = [kind |-> "if", items |-> << >>] OBVIOUS
<1>2. c \in Child /\ \A v : c \in OwnChild(v) BY <1>1, EmptyChildIs
<1>3. stack' = Closed(c) /\ Here.kind # "loop" BY <1>1 DEF LeavePlain
<1>. QED BY <1>2, <1>3, CloseOK DEF LeavePlain

LEMMA LeaveSwitchOK ==
  ASSUME IInv, LeaveSwitch
  PROVE  IInv' /\ BodyStep
<1>1. PICK c : c = [kind |-> "stmt", items |-> << >>] OBVIOUS
<1>2. c \in Child /\ \A v : c \in OwnChild(v) BY <1>1, EmptyChildIs
<1>3. stack' = Closed(c) /\ Here.kind # "loop" BY <1>1 DEF LeaveSwitch
<1>. QED BY <1>2, <1>3, CloseOK DEF LeaveSwitch

LEMMA ReplaceLoopOK ==
  ASSUME IInv, ReplaceLoop
  PROVE  IInv' /\ BodyStep
<1>1. SameTexts(details', details) BY Facts DEF ReplaceLoop, SameTexts, SameText
<1>. QED BY <1>1, Facts, KeepOK DEF ReplaceLoop, Top
LEMMA EnterElseOK ==
  ASSUME IInv, EnterElse
  PROVE  IInv' /\ BodyStep
<1>. DEFINE n == Len(stack)
            g == [Here EXCEPT !.kind = "else", !.path = Here.rest]
<1>1. n \in Nat \ {0} /\ n \in 1 .. n /\ stack \in Seq(Frame) /\ Here = stack[n]
  BY Facts
<1>2. /\ g \in Frame /\ g.kind = "else" /\ g.block = Here.block /\ g.test = Here.test
      /\ Here.kind = "if"
  BY Facts DEF EnterElse, Frame
<1>3. stack' = [stack EXCEPT ![n] = g] BY <1>1 DEF EnterElse, Top
<1>. HIDE DEF g
<1>4. /\ stack' \in Seq(Frame) /\ Len(stack') = n /\ stack'[n] = g
      /\ \A k \in 1 .. n - 1 : stack'[k] = stack[k]
  <2>1. stack' \in Seq(Frame) BY <1>1, <1>2, <1>3, ExceptSeq
  <2>. QED BY <1>1, <1>3, <2>1, LenProperties
<1>5. n # 1 BY <1>2, Facts
<1>6. Clean(forms) => OwnFrame(g, Resolved)
  <2>1. SUFFICES ASSUME Clean(forms) PROVE OwnFrame(g, Resolved) OBVIOUS
  <2>2. OwnFrame(Here, Resolved) BY <1>1, <2>1, Facts DEF StackOK
  <2>. QED BY <1>2, <2>2 DEF OwnFrame
<1>. HIDE DEF n
<1>7. StackOK(stack', equal, Resolved, forms)
  <2>1. StackOK(stack, equal, Resolved, forms) /\ equal \in BOOLEAN BY Facts
  <2>. QED BY <1>1, <1>2, <1>4, <1>5, <1>6, <2>1, TopOK DEF n
<1>8. \A k \in 1 .. Len(stack') : stack'[k].kind = "case" =>
        \E j \in 1 .. Top : stack[j].kind = "case"
  <2>1. ASSUME NEW k \in 1 .. n, stack'[k].kind = "case" PROVE k \in 1 .. n - 1
    BY <1>1, <1>2, <1>4, <2>1
  <2>2. \A k \in 1 .. n - 1 : k \in 1 .. Top BY <1>1 DEF n, Top
  <2>. QED BY <1>4, <2>1, <2>2
<1>9. SameTexts(details', details) BY Facts DEF EnterElse, SameTexts, SameText
<1>. QED BY <1>7, <1>8, <1>9, Facts, KeepOK DEF EnterElse

(* The remaining steps change the details; a step that keeps the types and    *)
(* the parts of the invariant one by one.                                   *)
LEMMA FinishOK ==
  ASSUME IInv, details' \in Seq(Detail), NoTwice(details'),
         equal' \in BOOLEAN, compared' = compared, done' \in BOOLEAN,
         source' \in [Value -> Seq(Effect)], visited' \in Nat,
         forms' \subseteq Unusual,
         StackOK(stack', equal', Resolved', forms'), DetailsOK', CaseOpen'
  PROVE  IInv'
<1>1. stack' \in Seq(Frame) BY DEF StackOK
<1>2. compared' \in BOOLEAN BY Facts
<1>. QED BY <1>1, <1>2 DEF IInv, CommonInfoTypeOK, NoTwice

LEMMA ResolvedSame ==
  ASSUME IInv, details' \in Seq(Detail), Len(details') = Len(details),
         \A i \in 1 .. Len(details) : details'[i].value = details[i].value
  PROVE  Resolved' = Resolved /\ NoTwice(details')
<1>1. /\ Len(details) \in Nat /\ NoTwice(details)
      /\ details = << >> <=> Len(details) = 0
      /\ details' = << >> <=> Len(details') = 0
  BY Facts, EmptySeq
<1>. QED BY <1>1 DEF Resolved, NoTwice

LEMMA LeaveIfOK ==
  ASSUME IInv, LeaveIf
  PROVE  IInv' /\ BodyStep
<1>1. /\ Here.kind \in {"if", "else"} /\ Here.block \in Seq(Child)
      /\ details' = FillTested(Here.test, Here.block)
  BY Facts DEF LeaveIf
<1>2. /\ details' \in Seq(Detail) /\ Len(details') = Len(details)
      /\ \A i \in 1 .. Len(details) :
           /\ details'[i].value = details[i].value
           /\ details[i].filled => details'[i] = details[i]
           /\ OwnDetail(details[i]) /\ Here.block \in Seq(OwnChild(Here.test))
                => OwnDetail(details'[i])
  BY <1>1, Facts, FillTestedIs
<1>3. Resolved' = Resolved /\ NoTwice(details') BY <1>2, ResolvedSame
<1>4. forms \subseteq forms' /\ forms' \subseteq Unusual BY Facts DEF LeaveIf, Unusual
<1>5. PICK c : c = [kind |-> "if", items |-> << >>] OBVIOUS
<1>6. c \in Child /\ \A v : c \in OwnChild(v) BY <1>5, EmptyChildIs
<1>7. stack' = Closed(c) BY <1>5 DEF LeaveIf
<1>8. /\ StackOK(stack', equal, Resolved, forms) /\ Len(stack') = Top - 1
      /\ \A k \in 1 .. Top - 1 : stack'[k].kind = stack[k].kind
  BY <1>1, <1>6, <1>7, ClosedOK
<1>9. /\ equal' = equal /\ compared' = compared /\ source' = source
      /\ visited' = visited /\ done' = done
  BY DEF LeaveIf
<1>10. StackOK(stack', equal', Resolved', forms')
  <2>1. StackOK(stack', equal, Resolved, forms') BY <1>4, <1>8, Facts, FormsOK
  <2>. QED BY <1>3, <1>9, <2>1
<1>11. DetailsOK'
  <2>1. Len(details) = 0 => details' = << >> BY <1>2, EmptySeq
  <2>2. ~compared' => details' = << >> BY <1>9, <2>1 DEF IInv, DetailsOK
  <2>3. Clean(forms') => Clean(forms) BY <1>4 DEF Clean
  <2>4. Clean(forms) => Here.block \in Seq(OwnChild(Here.test))
    <3>1. Clean(forms) => OwnFrame(Here, Resolved) BY Facts DEF StackOK
    <3>. QED BY <1>1, <3>1 DEF OwnFrame
  <2>. QED BY <1>2, <1>9, <2>2, <2>3, <2>4 DEF IInv, DetailsOK
<1>12. CaseOpen'
  <2>1. ASSUME NEW k \in 1 .. Top - 1 PROVE stack'[k].kind # "case"
    <3>1. k \in 1 .. Top /\ k # Top /\ Top = Len(stack) /\ Here = stack[Len(stack)]
      BY Facts
    <3>2. stack[k].kind # "case" BY <1>1, <3>1, Facts DEF Nested
    <3>. QED BY <1>8, <3>2
  <2>. QED BY <1>8, <2>1 DEF CaseOpen, Top
<1>13. BodyStep BY <1>2 DEF BodyStep
<1>. QED BY <1>2, <1>3, <1>4, <1>9, <1>10, <1>11, <1>12, <1>13, Facts, FinishOK
(* What the tests of a condition do to the details.                         *)
LEMMA TestedDetails ==
  ASSUME IInv, NEW vs \in Tests, Distinct(vs), details' = AddValues(vs)
  PROVE  /\ details' \in Seq(Detail) /\ NoTwice(details') /\ details' # << >>
         /\ Len(details') \in Nat \ {0}
         /\ Clean(forms) => \A i \in 1 .. Len(details') : OwnDetail(details'[i])
         /\ ~Again(vs) => /\ Resolved' = vs[Len(vs)]
                          /\ ~details'[Len(details')].filled
                          /\ Len(details') = 1 => details = << >>
         /\ BodyStep
<1>1. details \in Seq(Detail) /\ NoTwice(details) /\ Len(details) \in Nat BY Facts
<1>2. /\ Extends(details', details) /\ Len(details') \in Nat \ {0}
      /\ ~Again(vs) => /\ Len(details') = Len(details) + Len(vs)
                       /\ details'[Len(details')] = NewDetail(vs[Len(vs)])
  BY <1>1, AddValuesIs
<1>3. /\ details' \in Seq(Detail) /\ NoTwice(details') /\ details' # << >>
      /\ Len(details') >= Len(details)
      /\ \A i \in 1 .. Len(details) : details'[i] = details[i]
      /\ \A i \in Len(details) + 1 .. Len(details') :
           details'[i] = NewDetail(details'[i].value)
  BY <1>2, EmptySeq DEF Extends
<1>4. Len(vs) \in {1, 2} /\ vs[Len(vs)] \in Value BY TestsIs
<1>5. ASSUME Clean(forms), NEW i \in 1 .. Len(details') PROVE OwnDetail(details'[i])
  <2>1. CASE i \in 1 .. Len(details) BY <1>3, <1>5, <2>1 DEF IInv, DetailsOK
  <2>2. CASE i \in Len(details) + 1 .. Len(details')
    <3>1. details'[i] \in Detail BY <1>3, <1>5, ElementOfSeq
    <3>2. details'[i].value \in Value BY <3>1 DEF Detail
    <3>. QED BY <1>3, <2>2, <3>2, NewDetailIs
  <2>. QED BY <1>1, <1>2, <2>1, <2>2
<1>6. ASSUME ~Again(vs)
      PROVE  /\ Resolved' = vs[Len(vs)] /\ ~details'[Len(details')].filled
             /\ Len(details') = 1 => details = << >>
  <2>1. /\ details'[Len(details')].value = vs[Len(vs)]
        /\ ~details'[Len(details')].filled
    BY <1>2, <1>4, <1>6, NewDetailIs
  <2>2. Resolved' = vs[Len(vs)] BY <1>3, <2>1 DEF Resolved
  <2>3. Len(details') = 1 => Len(details) = 0 BY <1>1, <1>2, <1>4, <1>6
  <2>. QED BY <1>1, <2>1, <2>2, <2>3, EmptySeq
<1>7. BodyStep BY <1>3 DEF BodyStep
<1>. QED BY <1>2, <1>3, <1>5, <1>6, <1>7

(* Before != nothing that is collected is clean or not by the last detail.    *)
LEMMA UncleanOK ==
  ASSUME NEW st, NEW eq \in BOOLEAN, NEW r, NEW q, NEW fs, StackOK(st, eq, r, fs),
         Clean(fs) => q = r
  PROVE  StackOK(st, eq, q, fs)
<1>1. CASE Clean(fs) BY <1>1
<1>2. CASE ~Clean(fs) BY <1>2 DEF StackOK
<1>. QED BY <1>1, <1>2

LEMMA TestEqualOK ==
  ASSUME IInv, NEW vs \in Tests, TestEqual(vs)
  PROVE  IInv' /\ BodyStep
<1>1. /\ compared /\ equal /\ Distinct(vs) /\ details' = AddValues(vs)
      /\ Here.kind \in {"loop", "plain", "else"}
      /\ equal' = equal /\ compared' = compared /\ source' = source /\ done' = done
      /\ visited' = visited + 1
  BY DEF TestEqual, Visit
<1>2. /\ details' \in Seq(Detail) /\ NoTwice(details') /\ details' # << >>
      /\ Clean(forms) => \A i \in 1 .. Len(details') : OwnDetail(details'[i])
      /\ ~Again(vs) => Resolved' = vs[Len(vs)]
      /\ BodyStep
  BY <1>1, TestedDetails
<1>3. /\ forms \subseteq forms' /\ forms' \subseteq Unusual
      /\ "again" \notin forms' => ~Again(vs)
  BY Facts DEF TestEqual, FormsOf, Unusual
<1>4. PICK f : f = [NewFrame("if", Range(vs)) EXCEPT !.rest = Here.path \ Range(vs),
                                                     !.test = vs[Len(vs)]]
  OBVIOUS
<1>5. f \in Frame /\ f.kind = "if" /\ f.block = << >> /\ f.test = vs[Len(vs)]
  <2>1. Here.path \in SUBSET Value BY Facts DEF Frame
  <2>2. Range(vs) \in SUBSET Value /\ Here.path \ Range(vs) \in SUBSET Value
    BY <2>1 DEF TestEqual
  <2>3. vs[Len(vs)] \in Value BY TestsIs
  <2>4. Pushed([NewFrame("if", Range(vs)) EXCEPT !.rest = Here.path \ Range(vs),
                                                 !.test = vs[Len(vs)]], "if", vs[Len(vs)])
    BY <2>2, <2>3, NewFrameIs
  <2>. QED BY <1>4, <2>4 DEF Pushed
<1>6. stack' = Append(stack, f) BY <1>4 DEF TestEqual
<1>7. StackOK(stack, TRUE, vs[Len(vs)], forms')
  <2>1. StackOK(stack, TRUE, Resolved, forms)
    BY <1>1, Facts DEF StackOK
  <2>. QED BY <1>1, <1>3, <2>1, Facts, ResolveOK
<1>8. StackOK(stack', TRUE, vs[Len(vs)], forms')
  BY <1>1, <1>5, <1>6, <1>7, Facts, PushOK
<1>9. StackOK(stack', equal', Resolved', forms')
  <2>1. Clean(forms') => Resolved' = vs[Len(vs)] BY <1>2, <1>3 DEF Clean
  <2>2. StackOK(stack', TRUE, Resolved', forms') BY <1>8, <2>1, UncleanOK
  <2>. QED BY <1>1, <2>2 DEF StackOK
<1>10. DetailsOK'
  <2>1. Clean(forms') => Clean(forms) BY <1>3 DEF Clean
  <2>. QED BY <1>1, <1>2, <2>1 DEF DetailsOK
<1>11. CaseOpen'
  <2>1. \A k \in 1 .. Len(stack) : stack[k].kind # "case"
    BY <1>1, Facts, OuterFrames
  <2>2. ASSUME NEW k \in 1 .. Len(stack') PROVE stack'[k].kind # "case"
    <3>1. stack \in Seq(Frame) /\ Len(stack) # 0 BY Facts
    <3>. QED BY <1>5, <1>6, <2>1, <2>2, <3>1, PushCases
  <2>. QED BY <2>2 DEF CaseOpen, Top
<1>12. /\ source' \in [Value -> Seq(Effect)] /\ visited' \in Nat /\ done' \in BOOLEAN
       /\ equal' \in BOOLEAN
  BY <1>1, Facts
<1>. QED BY <1>1, <1>2, <1>3, <1>9, <1>10, <1>11, <1>12, FinishOK

LEMMA OwnNone ==
  ASSUME NEW v, NEW s \in Seq(OwnChild(None))
  PROVE  s \in Seq(OwnChild(v))
<1>1. OwnItem(None) \subseteq OwnItem(v) BY DEF OwnItem
<1>2. OwnChild(None) \subseteq OwnChild(v) BY <1>1, SeqMono DEF OwnChild, ChildOf
<1>. QED BY <1>2, SeqMono

LEMMA TestNotEqualOK ==
  ASSUME IInv, NEW vs \in Tests, TestNotEqual(vs)
  PROVE  IInv' /\ BodyStep
<1>1. /\ compared /\ equal /\ Distinct(vs) /\ details' = AddValues(vs)
      /\ Here.kind = "loop" /\ equal' = FALSE
      /\ compared' = compared /\ source' = source /\ done' = done
      /\ visited' = visited + 1
  BY DEF TestNotEqual, Visit
<1>2. /\ details' \in Seq(Detail) /\ NoTwice(details') /\ details' # << >>
      /\ Len(details') \in Nat \ {0}
      /\ Clean(forms) => \A i \in 1 .. Len(details') : OwnDetail(details'[i])
      /\ BodyStep
  BY <1>1, TestedDetails
<1>3. /\ forms \subseteq forms' /\ forms' \subseteq Unusual
      /\ "mixed" \notin forms' => ~(Len(details') > 1)
  BY <1>1, Facts DEF TestNotEqual, FormsOf, Unusual
<1>4. PICK c : c = [kind |-> "if", items |-> << >>] OBVIOUS
<1>5. c \in Child /\ c \in OwnChild(None) BY <1>4, EmptyChildIs
<1>6. PICK tt : tt = WithChild(stack, c) OBVIOUS
<1>7. Top = 1 /\ Len(stack) = 1 /\ equal = TRUE BY <1>1, Facts
<1>8. /\ tt \in Seq(Frame) /\ Len(tt) = 1
      /\ tt[1] = [stack[1] EXCEPT !.block = Append(stack[1].block, c)]
  <2>1. stack \in Seq(Frame) /\ Len(stack) # 0 /\ stack[Len(stack)].kind # "else"
    BY <1>1, <1>7, Facts
  <2>2. PICK b : b = Append(stack[Len(stack)].block, c) OBVIOUS
  <2>3. /\ tt \in Seq(Frame) /\ Len(tt) = Len(stack)
        /\ tt[Len(stack)] = [stack[Len(stack)] EXCEPT !.block = b]
    BY <1>5, <1>6, <2>1, <2>2, WithChildIs
  <2>. QED BY <1>7, <2>2, <2>3
<1>9. stack[1] \in Frame /\ stack[1].kind = "loop" /\ stack[1].block \in Seq(OwnChild(None))
  BY <1>1, <1>7, Facts DEF StackOK
<1>10. tt[1].kind = "loop" /\ tt[1].block \in Seq(OwnChild(None)) /\ tt[1] \in Frame
  <2>1. PICK b : b = Append(stack[1].block, c) OBVIOUS
  <2>2. b \in Seq(OwnChild(None)) BY <1>5, <1>9, <2>1, AppendProperties
  <2>3. b \in Seq(Child) BY <2>2, OwnChildIs
  <2>. QED BY <1>8, <1>9, <2>1, <2>2, <2>3 DEF Frame
<1>11. PICK g : g = [tt[1] EXCEPT !.path = Range(vs)] OBVIOUS
<1>12. g \in Frame /\ g.kind = "loop" /\ g.block \in Seq(OwnChild(None))
  <2>1. Range(vs) \in SUBSET Value
    <3>1. Here.path \in SUBSET Value BY Facts DEF Frame
    <3>. QED BY <3>1 DEF TestNotEqual
  <2>. QED BY <1>10, <1>11, <2>1 DEF Frame
<1>13. /\ stack' \in Seq(Frame) /\ Len(stack') = 1 /\ stack'[1] = g
  <2>1. stack' = [tt EXCEPT ![1] = g]
    <3>1. stack' = [tt EXCEPT ![Top] = [tt[Top] EXCEPT !.path = Range(vs)]]
      BY <1>4, <1>6 DEF TestNotEqual
    <3>2. [tt[Top] EXCEPT !.path = Range(vs)] = g BY <1>7, <1>11
    <3>. QED BY <1>7, <3>1, <3>2
  <2>2. [tt EXCEPT ![1] = g] \in Seq(Frame)
    <3>1. tt \in Seq(Frame) /\ 1 \in DOMAIN tt /\ g \in Frame
      BY <1>8, <1>12, LenProperties
    <3>. QED BY ONLY <3>1, ExceptSeq
  <2>. QED BY <1>8, <2>1, <2>2, LenProperties
<1>14. StackOK(stack', equal', Resolved', forms')
  <2>1. Nested(stack') BY <1>12, <1>13 DEF Nested
  <2>2. \A k \in 1 .. Len(stack') : OwnFrame(stack'[k], Resolved')
    BY <1>12, <1>13 DEF OwnFrame
  <2>3. stack'[1].block \in Seq(OwnChild(Resolved')) BY <1>12, <1>13, OwnNone
  <2>4. \A k \in 1 .. Len(stack') : stack'[k].kind # "switch" BY <1>12, <1>13
  <2>. QED BY <1>1, <1>13, <2>1, <2>2, <2>3, <2>4 DEF StackOK
<1>15. DetailsOK'
  <2>1. Clean(forms') => Clean(forms) /\ ~(Len(details') > 1) BY <1>3 DEF Clean
  <2>2. ~(Len(details') > 1) => Len(details') = 1
    <3>1. ASSUME NEW n \in Nat \ {0}, ~(n > 1) PROVE n = 1 BY <3>1
    <3>. QED BY ONLY <1>2, <3>1
  <2>. QED BY <1>1, <1>2, <2>1, <2>2 DEF DetailsOK
<1>16. CaseOpen'
  <2>1. \A k \in 1 .. Len(stack') : stack'[k].kind # "case" BY <1>12, <1>13
  <2>. QED BY <2>1 DEF CaseOpen, Top
<1>17. source' \in [Value -> Seq(Effect)] /\ visited' \in Nat /\ done' \in BOOLEAN
  BY <1>1, Facts
<1>. QED BY <1>1, <1>2, <1>3, <1>14, <1>15, <1>16, <1>17, FinishOK
LEMMA EnterCaseOK ==
  ASSUME IInv, NEW vs \in Tests, NEW braced \in BOOLEAN, EnterCase(vs, braced)
  PROVE  IInv' /\ BodyStep
<1>. DEFINE n == Len(stack)
<1>1. /\ Here.kind = "switch" /\ Distinct(vs)
      /\ details' = IF compared THEN AddValues(vs) ELSE details
      /\ equal' = equal /\ compared' = compared /\ source' = source /\ done' = done
      /\ visited' = visited + 1
  BY DEF EnterCase, Visit
<1>2. n \in Nat \ {0} /\ n \in 1 .. n /\ stack \in Seq(Frame) /\ Here = stack[n] /\ n = Top
  BY Facts
<1>3. equal = TRUE BY <1>1, <1>2, Facts DEF StackOK
<1>4. ~compared => details = << >> BY DEF IInv, DetailsOK
<1>5. /\ details' \in Seq(Detail) /\ NoTwice(details')
      /\ Clean(forms) => \A i \in 1 .. Len(details') : OwnDetail(details'[i])
      /\ ~Again(vs) /\ details' # << >> => ~details'[Len(details')].filled
      /\ BodyStep
  <2>1. CASE compared BY <1>1, <2>1, TestedDetails
  <2>2. CASE ~compared
    <3>1. details' = details /\ details = << >> BY <1>1, <1>4, <2>2
    <3>2. Len(details') = 0 /\ Len(details) = 0 BY <3>1
    <3>. QED BY <3>1, <3>2, Facts DEF BodyStep
  <2>. QED BY <2>1, <2>2
<1>6. /\ forms \subseteq forms' /\ forms' \subseteq Unusual
      /\ "caseAgain" \notin forms' => ~Again(vs)
  BY Facts DEF EnterCase, Unusual
<1>7. PICK g : g = [Here EXCEPT !.rest = Here.rest \ Range(vs)] OBVIOUS
<1>8. PICK tt : tt = [stack EXCEPT ![n] = g] OBVIOUS
<1>9. PICK f : f = [NewFrame("case", Here.path \cup Range(vs)) EXCEPT !.braced = braced]
  OBVIOUS
<1>10. stack' = Append(tt, f)
  <2>1. [stack EXCEPT ![Top].rest = @ \ Range(vs)] = [stack EXCEPT ![Top] = g]
    BY <1>2, <1>7
  <2>. QED BY <1>2, <1>8, <1>9, <2>1 DEF EnterCase
<1>11. /\ g \in Frame /\ g.kind = "switch"
       /\ f \in Frame /\ f.kind = "case" /\ f.block = << >>
  <2>1. Here.rest \in SUBSET Value /\ Here.path \in SUBSET Value /\ Here \in Frame
    BY Facts DEF Frame
  <2>2. Here.rest \ Range(vs) \in SUBSET Value BY <2>1
  <2>3. g \in Frame /\ g.kind = "switch" BY <1>1, <1>7, <2>1, <2>2 DEF Frame
  <2>4. Range(vs) \subseteq Here.rest BY DEF EnterCase
  <2>5. Here.path \cup Range(vs) \in SUBSET Value BY <2>1, <2>4
  <2>6. Pushed([NewFrame("case", Here.path \cup Range(vs)) EXCEPT !.braced = braced],
               "case", None)
    BY <2>5, NewFrameIs
  <2>. QED BY <1>9, <2>3, <2>6 DEF Pushed
<1>12. /\ tt \in Seq(Frame) /\ Len(tt) = n /\ tt[n] = g
       /\ \A k \in 1 .. n - 1 : tt[k] = stack[k]
  <2>1. tt \in Seq(Frame) /\ Len(tt) = n BY <1>2, <1>8, <1>11, ExceptSeq
  <2>. QED BY <1>2, <1>8, <2>1, LenProperties
<1>13. n # 1 BY <1>1, <1>2, Facts
<1>14. StackOK(tt, TRUE, Resolved, forms)
  <2>1. StackOK(stack, TRUE, Resolved, forms) BY <1>3, Facts DEF StackOK
  <2>2. OwnFrame(g, Resolved) BY <1>11 DEF OwnFrame
  <2>. HIDE DEF n
  <2>. QED BY <1>1, <1>2, <1>11, <1>12, <1>13, <2>1, <2>2, TopOK DEF n
<1>15. StackOK(tt, TRUE, Resolved', forms')
  BY <1>6, <1>11, <1>12, <1>14, ResolveOK
<1>16. StackOK(stack', TRUE, Resolved', forms')
  BY <1>10, <1>11, <1>12, <1>13, <1>15, PushOK
<1>17. StackOK(stack', equal', Resolved', forms')
  BY <1>1, <1>3, <1>16 DEF StackOK
<1>18. DetailsOK'
  <2>1. Clean(forms') => Clean(forms) BY <1>6 DEF Clean
  <2>. QED BY <1>1, <1>3, <1>4, <1>5, <2>1 DEF DetailsOK
<1>19. CaseOpen' BY <1>5, <1>6 DEF CaseOpen
<1>20. /\ source' \in [Value -> Seq(Effect)] /\ visited' \in Nat /\ done' \in BOOLEAN
       /\ equal' \in BOOLEAN
  BY <1>1, Facts
<1>. QED BY <1>1, <1>5, <1>6, <1>17, <1>18, <1>19, <1>20, FinishOK

LEMMA CaseBlockIs ==
  ASSUME NEW A, Here.block \in Seq(A)
  PROVE  CaseBlock \in Seq(A)
<1>1. CASE Here.braced \/ Here.block = << >> BY <1>1 DEF CaseBlock
<1>2. CASE Here.block # << >>
  <2>1. Here.block[1] \in A BY <1>2, EmptySeq, ElementOfSeq, LenProperties
  <2>2. <<Here.block[1]>> \in Seq(A) BY <2>1, SeqOfOne
  <2>. QED BY <2>2 DEF CaseBlock
<1>. QED BY <1>1, <1>2

LEMMA LeaveCaseOK ==
  ASSUME IInv, NEW breaks \in BOOLEAN, LeaveCase(breaks)
  PROVE  IInv' /\ BodyStep
<1>. DEFINE n == Len(stack)
            m == Len(details)
<1>1. /\ Here.kind = "case"
      /\ equal' = equal /\ compared' = compared /\ source' = source /\ done' = done
      /\ visited' = visited
  BY DEF LeaveCase
<1>2. n \in Nat \ {0} /\ n \in 1 .. n /\ stack \in Seq(Frame) /\ Here = stack[n] /\ n = Top
  BY Facts
<1>3. n # 1 BY <1>1, <1>2, Facts
<1>4. forms \subseteq forms' /\ forms' \subseteq Unusual BY Facts DEF LeaveCase, Unusual
<1>5. /\ details' \in Seq(Detail) /\ Len(details') = m
      /\ \A i \in 1 .. m :
           /\ details'[i].value = details[i].value
           /\ i < m /\ details[i].filled => details'[i] = details[i]
           /\ Clean(forms) => OwnDetail(details'[i])
  <2>1. CASE details = << >>
    <3>1. details' = << >> BY <2>1 DEF LeaveCase
    <3>. QED BY <2>1, <3>1
  <2>2. CASE details # << >>
    <3>1. m \in Nat \ {0} /\ m \in 1 .. m /\ details \in Seq(Detail)
      BY <2>2, Facts, EmptySeq
    <3>2. details[m] \in Detail BY <3>1, ElementOfSeq
    <3>3. PICK b : b = (~Here.braced \/ Here.block # << >>) OBVIOUS
    <3>4. b \in BOOLEAN BY <3>3
    <3>5. PICK e : e = Filled(details[m], BodyText(CaseBlock), b) OBVIOUS
    <3>6. CaseBlock \in Seq(Child) BY Facts, CaseBlockIs
    <3>7. Clean(forms) => CaseBlock \in Seq(OwnChild(details[m].value))
      <4>1. Clean(forms) => OwnFrame(Here, Resolved) BY <1>2, Facts DEF StackOK
      <4>2. Resolved = details[m].value BY <2>2 DEF Resolved
      <4>3. Clean(forms) => Here.block \in Seq(OwnChild(details[m].value))
        BY <1>1, <4>1, <4>2 DEF OwnFrame
      <4>. QED BY <4>3, CaseBlockIs
    <3>8. Clean(forms) => \A i \in 1 .. m : OwnDetail(details[i])
      BY DEF IInv, DetailsOK
    <3>9. /\ e \in Detail /\ e.value = details[m].value
          /\ Clean(forms) => OwnDetail(e)
      BY <3>1, <3>2, <3>4, <3>5, <3>6, <3>7, <3>8, FilledOwn
    <3>10. PICK ds : ds = [details EXCEPT ![m] = e] OBVIOUS
    <3>11. /\ ds \in Seq(Detail) /\ Len(ds) = m
           /\ \A i \in 1 .. m : ds[i] = IF i = m THEN e ELSE details[i]
      BY <3>1, <3>9, <3>10, ExceptSeq
    <3>12. details' = Share(ds)
      <4>1. [details EXCEPT ![m] = Filled(@, BodyText(CaseBlock),
                                          ~Here.braced \/ Here.block # << >>)] = ds
        BY <3>3, <3>5, <3>10
      <4>. QED BY <2>2, <4>1 DEF LeaveCase
    <3>13. ds # << >> BY <3>1, <3>11, EmptySeq
    <3>14. /\ Share(ds) \in Seq(Detail) /\ Len(Share(ds)) = m
           /\ \A i \in 1 .. m :
                /\ Share(ds)[i].value = ds[i].value
                /\ i < m /\ ds[i].filled => Share(ds)[i] = ds[i]
                /\ OwnDetail(ds[i]) /\ OwnDetail(ds[m]) => OwnDetail(Share(ds)[i])
      BY <3>11, <3>13, ShareIs
    <3>15. ASSUME NEW i \in 1 .. m
           PROVE  /\ details'[i].value = details[i].value
                  /\ i < m /\ details[i].filled => details'[i] = details[i]
                  /\ Clean(forms) => OwnDetail(details'[i])
      <4>1. ds[i].value = details[i].value BY <3>9, <3>11
      <4>2. i < m => ds[i] = details[i] BY <3>1, <3>11
      <4>3. Clean(forms) => OwnDetail(ds[i]) /\ OwnDetail(ds[m])
        BY <3>1, <3>8, <3>9, <3>11
      <4>. QED BY <3>12, <3>14, <4>1, <4>2, <4>3
    <3>. QED BY <3>12, <3>14, <3>15
  <2>. QED BY <2>1, <2>2
<1>6. Resolved' = Resolved /\ NoTwice(details') BY <1>5, ResolvedSame
<1>7. /\ StackOK(Front(stack), equal, Resolved, forms)
      /\ Len(Front(stack)) = n - 1
      /\ \A k \in 1 .. n - 1 : Front(stack)[k] = stack[k]
  BY <1>1, <1>2, Facts, PopOK
<1>8. PICK h : h = Front(stack) OBVIOUS
<1>9. PICK p : p = IF breaks THEN {} ELSE Here.path OBVIOUS
<1>10. p \in SUBSET Value BY <1>9, Facts DEF Frame
<1>11. PICK g : g = [h[n - 1] EXCEPT !.path = p] OBVIOUS
<1>12. /\ n - 1 \in 1 .. n - 1 /\ h \in Seq(Frame) /\ Len(h) = n - 1
       /\ h[n - 1] = stack[n - 1] /\ h[n - 1] \in Frame
       /\ \A k \in 1 .. n - 1 : h[k] = stack[k]
  <2>1. n - 1 \in 1 .. n - 1 BY <1>2, <1>3
  <2>2. h \in Seq(Frame) /\ Len(h) = n - 1 /\ \A k \in 1 .. n - 1 : h[k] = stack[k]
    BY <1>7, <1>8 DEF StackOK
  <2>. QED BY <2>1, <2>2, ElementOfSeq
<1>13. stack[n - 1].kind = "switch" BY <1>1, <1>2, Facts DEF Nested
<1>14. g \in Frame /\ g.kind = "switch" BY <1>10, <1>11, <1>12, <1>13 DEF Frame
<1>15. stack' = [h EXCEPT ![n - 1] = g]
  <2>1. stack' = [h EXCEPT ![Top - 1].path = p] BY <1>8, <1>9 DEF LeaveCase
  <2>. QED BY <1>2, <1>11, <2>1
<1>16. /\ stack' \in Seq(Frame) /\ Len(stack') = n - 1 /\ stack'[n - 1] = g
       /\ \A k \in 1 .. n - 1 : stack'[k].kind = stack[k].kind
       /\ \A k \in 1 .. n - 2 : stack'[k] = h[k]
  <2>1. [h EXCEPT ![n - 1] = g] \in Seq(Frame) /\ Len([h EXCEPT ![n - 1] = g]) = n - 1
    BY <1>12, <1>14, ExceptSeq
  <2>2. \A k \in 1 .. n - 1 : stack'[k] = IF k = n - 1 THEN g ELSE h[k]
    BY <1>12, <1>14, <1>15, ExceptSeq
  <2>3. \A k \in 1 .. n - 2 : k \in 1 .. n - 1 /\ k # n - 1 BY <1>2
  <2>. QED BY <1>12, <1>13, <1>14, <1>15, <2>1, <2>2, <2>3
<1>17. n - 1 # 1
  <2>1. n - 1 = 1 => stack[n - 1].kind = "loop" BY <1>2, <1>3, Facts DEF Nested
  <2>. QED BY <1>13, <2>1
<1>18. StackOK(stack', equal, Resolved, forms)
  <2>1. StackOK(h, equal, Resolved, forms) BY <1>7, <1>8
  <2>2. OwnFrame(g, Resolved) BY <1>14 DEF OwnFrame
  <2>3. \A k \in 1 .. Len(h) - 1 : stack'[k] = h[k] BY <1>2, <1>12, <1>16
  <2>4. /\ stack'[Len(h)] = g /\ h[Len(h)].kind = "switch" /\ Len(h) # 1
        /\ Len(stack') = Len(h)
    BY <1>12, <1>13, <1>16, <1>17
  <2>5. equal \in BOOLEAN /\ stack' \in Seq(Frame) BY <1>16, Facts
  <2>. QED BY ONLY <1>14, <2>1, <2>2, <2>3, <2>4, <2>5, TopOK
<1>19. StackOK(stack', equal', Resolved', forms')
  <2>1. StackOK(stack', equal, Resolved, forms') BY <1>4, <1>18, Facts, FormsOK
  <2>. QED BY <1>1, <1>6, <2>1
<1>20. DetailsOK'
  <2>1. m = 0 => details' = << >> BY <1>5, EmptySeq
  <2>2. ~compared' => details' = << >> BY <1>1, <2>1 DEF IInv, DetailsOK
  <2>3. Clean(forms') => Clean(forms) BY <1>4 DEF Clean
  <2>. QED BY <1>1, <1>5, <2>2, <2>3 DEF IInv, DetailsOK
<1>21. CaseOpen'
  <2>1. ASSUME NEW k \in 1 .. n - 1 PROVE stack'[k].kind # "case"
    <3>1. k \in 1 .. n /\ k # n BY <1>2
    <3>2. stack[k].kind # "case" BY <1>1, <1>2, <3>1, Facts DEF Nested
    <3>. QED BY <1>16, <3>2
  <2>. QED BY <1>16, <2>1 DEF CaseOpen, Top
<1>22. BodyStep
  <2>1. SUFFICES ASSUME NEW i \in 1 .. m, details[i].filled, "caseAgain" \notin forms
                 PROVE  details'[i] = details[i]
    BY DEF BodyStep
  <2>2. m \in Nat \ {0} /\ details # << >> BY <2>1, Facts, EmptySeq
  <2>3. ~details[m].filled BY <1>1, <1>2, <2>1, <2>2 DEF IInv, CaseOpen
  <2>4. i # m BY <2>1, <2>3
  <2>5. i < m BY <2>2, <2>4
  <2>. QED BY <1>5, <2>1, <2>5
<1>. QED
  BY <1>1, <1>4, <1>5, <1>6, <1>19, <1>20, <1>21, <1>22, Facts, FinishOK
-----------------------------------------------------------------------------
(* The generated text                                                       *)

(* What a block for the name v does, if it reads no other name's variable.    *)
OwnRun(v) == [id : Nat, reads : {v, None}, loop : Nat \cup {Twice}]

LEMMA FirstLoopIs ==
  ASSUME NEW s \in Seq(Item)
  PROVE  FirstLoop(s) \in Nat
<1>. DEFINE looped == {i \in 1 .. Len(s) : s[i].loop # 0}
            first == CHOOSE i \in looped : \A j \in looped : i <= j
<1>1. Len(s) \in Nat BY LenProperties
<1>2. ASSUME NEW i \in 1 .. Len(s) PROVE s[i].loop \in Nat
  <2>1. s[i] \in Item BY ElementOfSeq
  <2>. QED BY <2>1 DEF Item
<1>3. CASE looped = {} BY <1>3 DEF FirstLoop
<1>4. CASE looped # {}
  <2>1. looped \subseteq Nat /\ looped \subseteq 1 .. Len(s) BY <1>1
  <2>2. FirstLoop(s) = s[first].loop BY <1>4 DEF FirstLoop
  <2>. HIDE DEF looped
  <2>3. first \in looped BY <1>4, <2>1, LeastIs
  <2>. HIDE DEF first
  <2>. QED BY <1>2, <2>1, <2>2, <2>3
<1>. QED BY <1>3, <1>4

LEMMA RunAllIs ==
  ASSUME NEW v, NEW s \in Seq(OwnItem(v)), NEW loop \in Nat
  PROVE  RunAll(s, v, loop) \in Seq(OwnRun(v))
<1>1. Len(s) \in Nat /\ \A i \in 1 .. Len(s) : s[i] \in OwnItem(v)
  BY ElementOfSeq, LenProperties
<1>2. ASSUME NEW item \in OwnItem(v) PROVE Run(item, v, loop) \in OwnRun(v)
  BY CommonInfoAssumption DEF OwnItem, Item, Run, OwnRun
<1>. QED BY <1>1, <1>2, IsASeq DEF RunAll

LEMMA WrittenIs ==
  ASSUME NEW d \in Detail, OwnDetail(d)
  PROVE  Written(d) \in Seq(OwnRun(d.value))
<1>. DEFINE A == OwnItem(d.value)
            B == OwnRun(d.value)
<1>1. d.pre \in Seq(A) /\ d.loop \in Seq(A) /\ d.post \in Seq(A) BY DEF OwnDetail
<1>2. d.pre \o d.post \in Seq(A) BY <1>1, ConcatProperties
<1>3. (IF d.isFor THEN 0 ELSE FirstLoop(d.loop)) \in Nat
  BY FirstLoopIs DEF Detail
<1>4. \A s \in Seq(A), l \in Nat : RunAll(s, d.value, l) \in Seq(B) BY RunAllIs
<1>. HIDE DEF A, B
<1>5. CASE d.method = "none"
  <2>1. Written(d) = RunAll(d.post, d.value, 0) BY <1>5 DEF Written
  <2>. QED BY <1>1, <1>4, <2>1 DEF B
<1>6. CASE d.method = "scalar"
  <2>1. Written(d) = RunAll(d.pre \o d.post, d.value, 0) BY <1>6 DEF Written
  <2>. QED BY <1>2, <1>4, <2>1 DEF B
<1>7. CASE d.method = "list"
  <2>1. PICK l : l = IF d.isFor THEN 0 ELSE FirstLoop(d.loop) OBVIOUS
  <2>2. Written(d) = RunAll(d.pre, d.value, 0) \o RunAll(d.loop, d.value, l)
                       \o RunAll(d.post, d.value, 0)
    BY <1>7, <2>1 DEF Written
  <2>3. /\ RunAll(d.pre, d.value, 0) \in Seq(B) /\ RunAll(d.loop, d.value, l) \in Seq(B)
        /\ RunAll(d.post, d.value, 0) \in Seq(B)
    BY <1>1, <1>3, <1>4, <2>1
  <2>4. RunAll(d.pre, d.value, 0) \o RunAll(d.loop, d.value, l) \in Seq(B)
    BY <2>3, ConcatProperties
  <2>5. Written(d) \in Seq(B) BY <2>2, <2>3, <2>4, ConcatProperties
  <2>. QED BY <2>5 DEF B
<1>8. d.method \in {"none", "scalar", "list"} BY DEF Detail
<1>. QED BY <1>5, <1>6, <1>7, <1>8

LEMMA WrappedIs ==
  ASSUME NEW d \in Detail, NEW s \in Seq(OwnChild(d.value))
  PROVE  Wrapped(d, s) \in Seq(OwnRun(d.value))
<1>. DEFINE text == FlatOf(s, NotIf)
<1>1. text \in Seq(OwnItem(d.value)) BY FlatOfType DEF OwnChild
<1>2. (IF d.isFor THEN 0 ELSE FirstLoop(text)) \in Nat
  BY <1>1, OwnItemIs, FirstLoopIs DEF Detail
<1>3. d.method \in {"none", "scalar", "list"} BY DEF Detail
<1>4. CASE d.method = "none"
  <2>1. Wrapped(d, s) = << >> BY <1>4 DEF Wrapped
  <2>. QED BY <2>1
<1>5. CASE d.method = "scalar"
  <2>1. Wrapped(d, s) = RunAll(text, d.value, 0) BY <1>5 DEF Wrapped
  <2>. HIDE DEF text
  <2>. QED BY <1>1, <2>1, RunAllIs
<1>6. CASE d.method = "list"
  <2>1. PICK l : l = IF d.isFor THEN 0 ELSE FirstLoop(text) OBVIOUS
  <2>2. Wrapped(d, s) = RunAll(text, d.value, l) BY <1>6, <2>1 DEF Wrapped
  <2>. HIDE DEF text
  <2>. QED BY <1>1, <1>2, <2>1, <2>2, RunAllIs
<1>. QED BY <1>3, <1>4, <1>5, <1>6

LEMMA BranchIs ==
  ASSUME IInv, Clean(forms), details # << >>, NEW v \in Value
  PROVE  Branch(v) \in Seq(OwnRun(v))
<1>1. /\ details \in Seq(Detail) /\ Len(details) \in Nat \ {0}
      /\ \A i \in 1 .. Len(details) : details[i] \in Detail
  BY Facts, EmptySeq, ElementOfSeq
<1>2. \A i \in 1 .. Len(details) : OwnDetail(details[i]) BY DEF IInv, DetailsOK
<1>3. << >> \in Seq(OwnRun(v)) OBVIOUS
<1>4. CASE equal
  <2>. DEFINE w == [i \in 1 .. Len(details) |->
                      IF details[i].value = v THEN Written(details[i]) ELSE << >>]
  <2>1. \A i \in 1 .. Len(details) :
          (IF details[i].value = v THEN Written(details[i]) ELSE << >>)
             \in Seq(OwnRun(v))
    BY <1>1, <1>2, <1>3, WrittenIs
  <2>2. w \in Seq(Seq(OwnRun(v))) BY <1>1, <2>1, IsASeq
  <2>3. Branch(v) = FlattenSeq(w) BY <1>4 DEF Branch
  <2>. HIDE DEF w
  <2>. QED BY <2>2, <2>3, FlattenSeqProperties
<1>5. CASE ~equal
  <2>1. CASE details[1].value = v
    <3>1. Len(details) = 1 /\ Resolved = details[1].value
      BY <1>5 DEF IInv, DetailsOK, Resolved
    <3>2. stack[1].block \in Seq(OwnChild(details[1].value))
      BY <1>5, <3>1, Facts DEF StackOK
    <3>3. Wrapped(details[1], stack[1].block) \in Seq(OwnRun(v))
      BY <1>1, <2>1, <3>2, WrappedIs
    <3>. QED BY <1>5, <2>1, <3>3 DEF Branch
  <2>2. CASE details[1].value # v BY <1>3, <1>5, <2>2 DEF Branch
  <2>. QED BY <2>1, <2>2
<1>. QED BY <1>4, <1>5
-----------------------------------------------------------------------------
LEMMA InitOK == Init => IInv
<1>. SUFFICES ASSUME Init PROVE IInv OBVIOUS
<1>1. PICK f : f = NewFrame("loop", Value) OBVIOUS
<1>2. f \in Frame /\ f.kind = "loop" /\ f.block = << >> /\ f.path = Value
  <2>1. << >> \in Seq(Child) OBVIOUS
  <2>. QED BY <1>1, <2>1 DEF NewFrame, Frame
<1>3. /\ stack \in Seq(Frame) /\ Len(stack) = 1 /\ stack[1] = f
  BY <1>1, <1>2, SeqOfOne DEF Init
<1>4. << >> \in Seq(OwnChild(None)) OBVIOUS
<1>5. Nested(stack) BY <1>2, <1>3 DEF Nested
<1>6. equal = TRUE /\ details = << >> /\ forms = {} /\ Len(details) = 0 BY DEF Init
<1>7. \A k \in 1 .. Len(stack) : OwnFrame(stack[k], Resolved)
  BY <1>2, <1>3 DEF OwnFrame
<1>8. StackOK(stack, equal, Resolved, forms)
  <2>1. stack[1].path = Value /\ stack[1].block \in Seq(OwnChild(None))
    BY <1>2, <1>3, <1>4
  <2>2. ~(Len(stack) > 1) BY <1>3
  <2>. QED BY <1>3, <1>5, <1>6, <1>7, <2>1, <2>2 DEF StackOK
<1>9. CommonInfoTypeOK
  <2>1. << >> \in Seq(Effect) /\ << >> \in Seq(Detail) OBVIOUS
  <2>2. source \in [Value -> Seq(Effect)] BY <2>1 DEF Init
  <2>3. \A i, j \in 1 .. Len(details) : details[i].value = details[j].value => i = j
    BY <1>6
  <2>4. compared \in BOOLEAN /\ done = FALSE /\ visited = 0 BY DEF Init
  <2>5. equal \in BOOLEAN BY <1>6
  <2>. QED BY <1>3, <1>6, <2>1, <2>2, <2>3, <2>4, <2>5 DEF CommonInfoTypeOK
<1>10. DetailsOK BY <1>6 DEF DetailsOK
<1>11. CaseOpen BY <1>6 DEF CaseOpen
<1>. QED BY <1>8, <1>9, <1>10, <1>11 DEF IInv

LEMMA NextOK == IInv /\ [Next]_vars => IInv' /\ BodyStep
<1>. SUFFICES ASSUME IInv, [Next]_vars PROVE IInv' /\ BodyStep OBVIOUS
<1>1. CASE UNCHANGED vars
  <2>1. SameTexts(details', details) BY <1>1, Facts DEF vars, SameTexts, SameText
  <2>. QED BY <1>1, <2>1, Facts, KeepOK DEF vars, Top
<1>2. CASE Next
  <2>1. ASSUME NEW reads \in BOOLEAN, Statement(reads) PROVE IInv' /\ BodyStep
    BY <2>1, StatementOK
  <2>2. ASSUME NEW kind \in {"range", "for"}, EnterList(kind) PROVE IInv' /\ BodyStep
    BY <2>2, EnterListOK
  <2>3. ASSUME NEW ofType \in BOOLEAN, EnterPlain(ofType) PROVE IInv' /\ BodyStep
    BY <2>3, EnterPlainOK
  <2>4. ASSUME NEW vs \in Tests, TestEqual(vs) \/ TestNotEqual(vs)
        PROVE  IInv' /\ BodyStep
    BY <2>4, TestEqualOK, TestNotEqualOK
  <2>5. ASSUME NEW vs \in Tests, NEW braced \in BOOLEAN, EnterCase(vs, braced)
        PROVE  IInv' /\ BodyStep
    BY <2>5, EnterCaseOK
  <2>6. ASSUME NEW breaks \in BOOLEAN, LeaveCase(breaks) PROVE IInv' /\ BodyStep
    BY <2>6, LeaveCaseOK
  <2>. QED
    BY <1>2, <2>1, <2>2, <2>3, <2>4, <2>5, <2>6, ListStatementOK, LeaveListOK,
       LeavePlainOK, EnterElseOK, LeaveIfOK, EnterSwitchOK, LeaveSwitchOK, ReplaceLoopOK
       DEF Next
<1>. QED BY <1>1, <1>2

-----------------------------------------------------------------------------
(* The texts of children                                                    *)

TextsOf(s) == [i \in 1 .. Len(s) |-> s[i].items]

LEMMA TextsAre ==
  ASSUME NEW A, NEW s \in Seq(ChildOf(A))
  PROVE  /\ Flat(s) = FlattenSeq(TextsOf(s)) /\ Flat(s) \in Seq(A)
         /\ TextsOf(s) \in Seq(Seq(A)) /\ Len(TextsOf(s)) = Len(s) /\ Len(s) \in Nat
         /\ \A i \in 1 .. Len(s) : /\ TextsOf(s)[i] = s[i].items
                                   /\ s[i].items \in Seq(A) /\ s[i] \in ChildOf(A)
<1>1. Len(s) \in Nat BY LenProperties
<1>2. \A i \in 1 .. Len(s) : s[i] \in ChildOf(A) BY ElementOfSeq
<1>3. \A i \in 1 .. Len(s) : s[i].items \in Seq(A) BY <1>2 DEF ChildOf
<1>4. TextsOf(s) \in Seq(Seq(A)) BY <1>1, <1>3, IsASeq DEF TextsOf
<1>5. Len(TextsOf(s)) = Len(s) BY <1>1 DEF TextsOf
<1>6. Flat(s) = FlattenSeq(TextsOf(s)) BY DEF Flat, TextsOf
<1>7. Flat(s) \in Seq(A) BY FlatType
<1>. QED BY <1>1, <1>2, <1>3, <1>4, <1>5, <1>6, <1>7 DEF TextsOf

LEMMA FlatAppend ==
  ASSUME NEW A, NEW s \in Seq(ChildOf(A)), NEW c \in ChildOf(A)
  PROVE  /\ Append(s, c) \in Seq(ChildOf(A))
         /\ Flat(Append(s, c)) = Flat(s) \o c.items
<1>1. PICK t : t = Append(s, c) OBVIOUS
<1>2. /\ t \in Seq(ChildOf(A)) /\ Len(t) = Len(s) + 1
      /\ \A i \in 1 .. Len(s) : t[i] = s[i]
      /\ t[Len(s) + 1] = c
  BY <1>1, AppendProperties
<1>3. Len(s) \in Nat BY LenProperties
<1>4. c.items \in Seq(A) BY DEF ChildOf
<1>5. PICK a, b : a = TextsOf(s) /\ b = TextsOf(t) OBVIOUS
<1>6. /\ a \in Seq(Seq(A)) /\ Len(a) = Len(s)
      /\ \A i \in 1 .. Len(s) : a[i] = s[i].items
  BY <1>5, TextsAre
<1>7. /\ b \in Seq(Seq(A)) /\ Len(b) = Len(t)
      /\ \A i \in 1 .. Len(t) : b[i] = t[i].items
  BY <1>2, <1>5, TextsAre
<1>8. PICK d : d = Append(a, c.items) OBVIOUS
<1>9. /\ d \in Seq(Seq(A)) /\ Len(d) = Len(s) + 1
      /\ \A i \in 1 .. Len(s) : d[i] = a[i]
      /\ d[Len(s) + 1] = c.items
  BY <1>4, <1>6, <1>8, AppendProperties
<1>10. ASSUME NEW i \in 1 .. Len(s) + 1 PROVE b[i] = d[i]
  <2>1. CASE i \in 1 .. Len(s) BY <1>2, <1>3, <1>6, <1>7, <1>9, <2>1
  <2>2. CASE i = Len(s) + 1 BY <1>2, <1>7, <1>9, <2>2
  <2>. QED BY <1>3, <2>1, <2>2
<1>11. b = d
  <2>1. Len(b) = Len(d) /\ \A i \in 1 .. Len(b) : b[i] = d[i]
    BY <1>2, <1>7, <1>9, <1>10
  <2>. QED BY ONLY <1>7, <1>9, <2>1, SeqEqual
<1>12. FlattenSeq(d) = FlattenSeq(a) \o c.items
  BY <1>4, <1>6, <1>8, FlattenAppend
<1>13. Flat(s) = FlattenSeq(a) /\ Flat(t) = FlattenSeq(b) BY <1>2, <1>5, TextsAre
<1>. QED BY <1>1, <1>2, <1>11, <1>12, <1>13

(* The text of a part.                                                      *)
LEMMA TextsOfPart ==
  ASSUME NEW A, NEW s \in Seq(ChildOf(A)), NEW i \in Nat \ {0}, NEW m \in 0 .. Len(s),
         i <= m + 1
  PROVE  /\ SubSeq(s, i, m) \in Seq(ChildOf(A))
         /\ Flat(SubSeq(s, i, m)) = FlattenSeq(SubSeq(TextsOf(s), i, m))
         /\ Len(SubSeq(s, i, m)) = (m + 1) - i
         /\ \A k \in 1 .. (m + 1) - i : SubSeq(s, i, m)[k] = s[i + k - 1]
<1>1. PICK t : t = TextsOf(s) OBVIOUS
<1>2. /\ t \in Seq(Seq(A)) /\ Len(t) = Len(s) /\ Len(s) \in Nat
      /\ \A k \in 1 .. Len(s) : /\ t[k] = s[k].items
                                /\ s[k].items \in Seq(A) /\ s[k] \in ChildOf(A)
  BY <1>1, TextsAre
<1>3. PICK a, b : a = SubSeq(s, i, m) /\ b = SubSeq(t, i, m) OBVIOUS
<1>4. i \in Int /\ m \in Int BY <1>2
<1>5. \A k \in i .. m : s[k] \in ChildOf(A) /\ t[k] \in Seq(A) BY <1>2
<1>6. /\ a \in Seq(ChildOf(A))
      /\ Len(a) = IF i <= m THEN m - i + 1 ELSE 0
      /\ \A k \in 1 .. m - i + 1 : a[k] = s[i + k - 1]
  BY <1>3, <1>4, <1>5, SubSeqProperties
<1>7. /\ b \in Seq(Seq(A))
      /\ Len(b) = IF i <= m THEN m - i + 1 ELSE 0
      /\ \A k \in 1 .. m - i + 1 : b[k] = t[i + k - 1]
  BY <1>3, <1>4, <1>5, SubSeqProperties
<1>8. Len(a) = (m + 1) - i /\ Len(b) = (m + 1) - i /\ m - i + 1 = (m + 1) - i
  BY <1>4, <1>6, <1>7
<1>9. PICK c : c = TextsOf(a) OBVIOUS
<1>10. /\ c \in Seq(Seq(A)) /\ Len(c) = Len(a)
       /\ \A k \in 1 .. Len(a) : c[k] = a[k].items
  BY <1>6, <1>9, TextsAre
<1>11. \A k \in 1 .. (m + 1) - i : i + k - 1 \in 1 .. Len(s) BY <1>2, <1>4
<1>12. ASSUME NEW k \in 1 .. Len(c) PROVE c[k] = b[k]
  <2>1. k \in 1 .. (m + 1) - i /\ k \in 1 .. Len(a) BY <1>8, <1>10
  <2>2. c[k] = a[k].items BY <1>10, <2>1
  <2>3. a[k] = s[i + k - 1] BY <1>6, <1>8, <2>1
  <2>4. b[k] = t[i + k - 1] BY <1>7, <1>8, <2>1
  <2>5. t[i + k - 1] = s[i + k - 1].items BY <1>2, <1>11, <2>1
  <2>. QED BY <2>2, <2>3, <2>4, <2>5
<1>13. c = b
  <2>1. Len(c) = Len(b) BY <1>8, <1>10
  <2>. QED BY ONLY <1>7, <1>10, <1>12, <2>1, SeqEqual
<1>14. Flat(a) = FlattenSeq(c) BY <1>6, <1>9, TextsAre
<1>. QED BY <1>1, <1>3, <1>6, <1>8, <1>13, <1>14

LEMMA FlatSplit ==
  ASSUME NEW A, NEW s \in Seq(ChildOf(A)), NEW p \in 1 .. Len(s)
  PROVE  Flat(s) = Flat(SubSeq(s, 1, p - 1))
                     \o (s[p].items \o Flat(SubSeq(s, p + 1, Len(s))))
<1>1. PICK t : t = TextsOf(s) OBVIOUS
<1>2. /\ t \in Seq(Seq(A)) /\ Len(t) = Len(s) /\ Len(s) \in Nat
      /\ Flat(s) = FlattenSeq(t)
      /\ t[p] = s[p].items /\ s[p].items \in Seq(A)
  BY <1>1, TextsAre
<1>3. PICK q \in Nat : p = q + 1
  <2>1. p - 1 \in Nat /\ p = (p - 1) + 1 BY <1>2
  <2>. QED BY <2>1
<1>4. /\ q \in 0 .. Len(s) /\ p \in 0 .. Len(s) /\ p - 1 = q /\ q < Len(s)
      /\ p + 1 \in Nat \ {0} /\ p + 1 <= Len(s) + 1 /\ Len(s) \in 0 .. Len(s)
  BY <1>2, <1>3
<1>5. FlattenSeq(t) = FlattenSeq(SubSeq(t, 1, p)) \o FlattenSeq(SubSeq(t, p + 1, Len(s)))
  BY <1>2, <1>4, FlattenSplit
<1>6. SubSeq(t, 1, q) \in Seq(Seq(A)) /\ SubSeq(t, 1, q + 1) = Append(SubSeq(t, 1, q), t[p])
  <2>1. 1 \in Nat \ {0} /\ 1 <= q + 1 /\ q < Len(t) BY <1>2, <1>4
  <2>2. /\ SubSeq(t, 1, q) \in Seq(Seq(A))
        /\ SubSeq(t, 1, q + 1) = Append(SubSeq(t, 1, q), t[q + 1])
    BY ONLY <1>2, <2>1, q \in Nat, SubSeqGrows
  <2>. QED BY <1>3, <2>2
<1>7. FlattenSeq(SubSeq(t, 1, p)) = FlattenSeq(SubSeq(t, 1, q)) \o s[p].items
  <2>1. PICK u : u = SubSeq(t, 1, q) OBVIOUS
  <2>2. FlattenSeq(Append(u, s[p].items)) = FlattenSeq(u) \o s[p].items
    BY <1>2, <1>6, <2>1, FlattenAppend
  <2>. QED BY <1>2, <1>3, <1>6, <2>1, <2>2
<1>8. /\ SubSeq(s, 1, q) \in Seq(ChildOf(A))
      /\ Flat(SubSeq(s, 1, q)) = FlattenSeq(SubSeq(t, 1, q))
  <2>1. 1 \in Nat \ {0} /\ 1 <= q + 1 BY <1>4
  <2>. QED BY <1>1, <1>4, <2>1, TextsOfPart
<1>9. PICK r : r = p + 1 OBVIOUS
<1>10. /\ SubSeq(s, r, Len(s)) \in Seq(ChildOf(A))
       /\ Flat(SubSeq(s, r, Len(s))) = FlattenSeq(SubSeq(t, r, Len(s)))
  <2>1. r \in Nat \ {0} /\ r <= Len(s) + 1 /\ Len(s) \in 0 .. Len(s) BY <1>4, <1>9
  <2>. QED BY <1>1, <2>1, TextsOfPart
<1>11. PICK a, b, c : /\ a = Flat(SubSeq(s, 1, q)) /\ b = s[p].items
                      /\ c = Flat(SubSeq(s, r, Len(s)))
  OBVIOUS
<1>12. a \in Seq(A) /\ b \in Seq(A) /\ c \in Seq(A)
  BY <1>2, <1>8, <1>10, <1>11, TextsAre
<1>13. (a \o b) \o c = a \o (b \o c) BY ONLY <1>12, ConcatAssociative, SMTT(60)
<1>14. Flat(s) = (a \o b) \o c
  BY <1>2, <1>5, <1>7, <1>8, <1>9, <1>10, <1>11
<1>. QED BY <1>4, <1>9, <1>11, <1>13, <1>14

(* Children without text have none together.                                *)
LEMMA FlatNothing ==
  ASSUME NEW s \in Seq(ChildOf({}))
  PROVE  Flat(s) = << >>
<1>1. Flat(s) \in Seq({}) BY TextsAre
<1>2. PICK t : t = Flat(s) OBVIOUS
<1>3. t \in Seq({}) /\ Len(t) \in Nat /\ \A i \in 1 .. Len(t) : t[i] \in {}
  BY <1>1, <1>2, ElementOfSeq, LenProperties
<1>4. Len(t) = 0 BY <1>3
<1>. QED BY <1>2, <1>3, <1>4, EmptySeq

(* The children of the kinds, the others without their text.                *)
OnlyOf(s, kinds) ==
  [i \in 1 .. Len(s) |-> IF s[i].kind \in kinds THEN s[i]
                         ELSE [s[i] EXCEPT !.items = << >>]]

LEMMA OnlyOfIs ==
  ASSUME NEW s \in Seq(Child), NEW kinds
  PROVE  /\ OnlyOf(s, kinds) \in Seq(Child) /\ Len(OnlyOf(s, kinds)) = Len(s)
         /\ FlatOf(s, kinds) = Flat(OnlyOf(s, kinds))
         /\ \A i \in 1 .. Len(s) :
              /\ s[i].kind \in kinds \/ s[i].items = << >> => OnlyOf(s, kinds)[i] = s[i]
              /\ s[i].kind \notin kinds => OnlyOf(s, kinds)[i] \in ChildOf({})
<1>1. Len(s) \in Nat /\ \A i \in 1 .. Len(s) : s[i] \in Child
  BY ElementOfSeq, LenProperties
<1>2. << >> \in Seq(Item) /\ << >> \in Seq({}) OBVIOUS
<1>3. ASSUME NEW c \in Child
      PROVE  /\ [c EXCEPT !.items = << >>] \in Child
             /\ [c EXCEPT !.items = << >>] \in ChildOf({})
             /\ c.items = << >> => [c EXCEPT !.items = << >>] = c
  <2>1. PICK e : e = [c EXCEPT !.items = << >>] OBVIOUS
  <2>2. e = [kind |-> c.kind, items |-> << >>] BY <2>1 DEF Child
  <2>3. c = [kind |-> c.kind, items |-> c.items] BY DEF Child
  <2>4. e \in Child BY <1>2, <2>2 DEF Child
  <2>5. e \in ChildOf({}) BY <1>2, <2>2, <2>4 DEF ChildOf
  <2>. QED BY <2>1, <2>2, <2>3, <2>4, <2>5
<1>4. \A i \in 1 .. Len(s) : (IF s[i].kind \in kinds THEN s[i]
                              ELSE [s[i] EXCEPT !.items = << >>]) \in Child
  BY <1>1, <1>3
<1>5. OnlyOf(s, kinds) \in Seq(Child) BY <1>1, <1>4, IsASeq DEF OnlyOf
<1>6. Len(OnlyOf(s, kinds)) = Len(s) BY <1>1 DEF OnlyOf
<1>7. FlatOf(s, kinds) = Flat(OnlyOf(s, kinds)) BY DEF FlatOf, OnlyOf
<1>8. ASSUME NEW i \in 1 .. Len(s)
      PROVE  /\ s[i].kind \in kinds \/ s[i].items = << >> => OnlyOf(s, kinds)[i] = s[i]
             /\ s[i].kind \notin kinds => OnlyOf(s, kinds)[i] \in ChildOf({})
  <2>1. OnlyOf(s, kinds)[i] = IF s[i].kind \in kinds THEN s[i]
                              ELSE [s[i] EXCEPT !.items = << >>]
    BY DEF OnlyOf
  <2>. QED BY <1>1, <1>3, <2>1
<1>. QED BY <1>5, <1>6, <1>7, <1>8

LEMMA FlatOfAll ==
  ASSUME NEW s \in Seq(Child), NEW kinds,
         \A i \in 1 .. Len(s) : s[i].kind \in kinds \/ s[i].items = << >>
  PROVE  FlatOf(s, kinds) = Flat(s)
<1>1. PICK t : t = OnlyOf(s, kinds) OBVIOUS
<1>2. /\ t \in Seq(Child) /\ Len(t) = Len(s) /\ FlatOf(s, kinds) = Flat(t)
      /\ \A i \in 1 .. Len(s) : t[i] = s[i]
  BY <1>1, OnlyOfIs
<1>3. t = s BY <1>2, SeqEqual
<1>. QED BY <1>2, <1>3

LEMMA FlatOfNone ==
  ASSUME NEW s \in Seq(Child), NEW kinds, \A i \in 1 .. Len(s) : s[i].kind \notin kinds
  PROVE  FlatOf(s, kinds) = << >>
<1>1. PICK t : t = OnlyOf(s, kinds) OBVIOUS
<1>2. /\ t \in Seq(Child) /\ Len(t) = Len(s) /\ FlatOf(s, kinds) = Flat(t)
      /\ \A i \in 1 .. Len(s) : t[i] \in ChildOf({})
  BY <1>1, OnlyOfIs
<1>3. t \in Seq(ChildOf({}))
  <2>1. Len(t) \in Nat /\ t = [i \in 1 .. Len(t) |-> t[i]] BY <1>2, LenProperties, SeqEqual
  <2>. QED BY <1>2, <2>1, IsASeq
<1>. QED BY <1>2, <1>3, FlatNothing

LEMMA FlatOfOne ==
  ASSUME NEW s \in Seq(Child), NEW kinds, NEW p \in 1 .. Len(s), s[p].kind \in kinds,
         \A i \in 1 .. Len(s) : i # p => s[i].kind \notin kinds
  PROVE  FlatOf(s, kinds) = s[p].items
<1>1. PICK t : t = OnlyOf(s, kinds) OBVIOUS
<1>2. /\ t \in Seq(Child) /\ Len(t) = Len(s) /\ FlatOf(s, kinds) = Flat(t)
      /\ t[p] = s[p]
      /\ \A i \in 1 .. Len(s) : i # p => t[i] \in ChildOf({})
  BY <1>1, OnlyOfIs
<1>3. Len(s) \in Nat /\ s[p] \in Child BY ElementOfSeq, LenProperties
<1>4. t \in Seq(ChildOf(Item)) BY <1>2, ChildOfItem
<1>5. Flat(t) = Flat(SubSeq(t, 1, p - 1)) \o (s[p].items \o Flat(SubSeq(t, p + 1, Len(t))))
  BY <1>2, <1>4, FlatSplit
<1>6. Flat(SubSeq(t, 1, p - 1)) = << >>
  <2>1. 1 \in Int /\ p - 1 \in Int BY <1>3
  <2>2. \A i \in 1 .. p - 1 : t[i] \in ChildOf({}) BY <1>2, <1>3
  <2>3. SubSeq(t, 1, p - 1) \in Seq(ChildOf({})) BY <2>1, <2>2, SubSeqProperties
  <2>. QED BY <2>3, FlatNothing
<1>7. Flat(SubSeq(t, p + 1, Len(t))) = << >>
  <2>1. p + 1 \in Int /\ Len(t) \in Int BY <1>2, <1>3
  <2>2. \A i \in p + 1 .. Len(t) : t[i] \in ChildOf({}) BY <1>2, <1>3
  <2>3. SubSeq(t, p + 1, Len(t)) \in Seq(ChildOf({})) BY <2>1, <2>2, SubSeqProperties
  <2>. QED BY <2>3, FlatNothing
<1>8. s[p].items \in Seq(Item) BY <1>3 DEF Child
<1>9. << >> \o (s[p].items \o << >>) = s[p].items BY <1>8, ConcatEmptySeq
<1>. QED BY <1>2, <1>5, <1>6, <1>7, <1>9

-----------------------------------------------------------------------------
(* What a text does for the name v                                          *)

(* A statement outside of list loops, one of the list loop number n, and one   *)
(* that is written with the loop it is in.                                  *)
PlainItem(r) ==
  {item \in Item : item.loop = 0 /\ ~item.header /\ item.var \in {r, None}}

ListItem(kind, n, r) ==
  {item \in Item : /\ item.loop = n /\ item.header = (kind = "for")
                   /\ item.var = IF kind = "for" THEN r ELSE Elem}

IndexItem(r) ==
  {item \in Item : (item.header <=> item.loop # 0) /\ item.var \in {r, None}}

(* The text has an item for each statement of s, in its order and list loop,  *)
(* which reads the attribute where the statement does.                      *)
Follows(text, s) ==
  /\ Len(text) = Len(s)
  /\ \A i \in 1 .. Len(s) : /\ text[i].id = s[i].id /\ text[i].loop = s[i].loop
                            /\ s[i].reads <=> text[i].var # None

Silent(s) == \A i \in 1 .. Len(s) : ~s[i].reads

(* What the source does, and what a text does that reads the variable of v    *)
(* where it reads.                                                          *)
SourceRun(s, v) ==
  [i \in 1 .. Len(s) |-> [s[i] EXCEPT !.reads = IF @ THEN v ELSE None]]

OwnEffect(item, v) ==
  [id |-> item.id, reads |-> IF item.var = None THEN None ELSE v, loop |-> item.loop]

OwnOf(items, v) == [i \in 1 .. Len(items) |-> OwnEffect(items[i], v)]

LEMMA FollowsOwn ==
  ASSUME NEW text, NEW s \in Seq(Effect), NEW v, Follows(text, s)
  PROVE  OwnOf(text, v) = SourceRun(s, v)
<1>1. Len(s) \in Nat /\ \A i \in 1 .. Len(s) : s[i] \in Effect
  BY ElementOfSeq, LenProperties
<1>2. ASSUME NEW i \in 1 .. Len(s)
      PROVE  OwnEffect(text[i], v) = [s[i] EXCEPT !.reads = IF @ THEN v ELSE None]
  <2>1. s[i] \in Effect BY <1>1
  <2>2. /\ text[i].id = s[i].id /\ text[i].loop = s[i].loop
        /\ s[i].reads <=> text[i].var # None
    BY DEF Follows
  <2>3. PICK x : x = IF s[i].reads THEN v ELSE None OBVIOUS
  <2>4. x = IF text[i].var = None THEN None ELSE v BY <2>2, <2>3
  <2>5. OwnEffect(text[i], v) = [id |-> s[i].id, reads |-> x, loop |-> s[i].loop]
    BY <2>2, <2>4 DEF OwnEffect
  <2>6. [s[i] EXCEPT !.reads = x] = [id |-> s[i].id, reads |-> x, loop |-> s[i].loop]
    BY <2>1 DEF Effect
  <2>. QED BY <2>3, <2>5, <2>6
<1>3. Len(text) = Len(s) BY DEF Follows
<1>. QED BY <1>2, <1>3 DEF OwnOf, SourceRun

(* The effect of two texts, one after the other.                            *)
LEMMA OwnConcat ==
  ASSUME NEW a \in Seq(Item), NEW b \in Seq(Item), NEW v
  PROVE  OwnOf(a \o b, v) = OwnOf(a, v) \o OwnOf(b, v)
<1>1. Len(a) \in Nat /\ Len(b) \in Nat BY LenProperties
<1>2. PICK c : c = a \o b OBVIOUS
<1>3. /\ c \in Seq(Item) /\ Len(c) = Len(a) + Len(b)
      /\ \A i \in 1 .. Len(a) + Len(b) : c[i] = IF i <= Len(a) THEN a[i] ELSE b[i - Len(a)]
  BY <1>2, ConcatProperties
<1>. DEFINE E == {OwnEffect(item, v) : item \in Item}
<1>4. \A s \in Seq(Item) : /\ OwnOf(s, v) \in Seq(E) /\ Len(OwnOf(s, v)) = Len(s)
                           /\ \A i \in 1 .. Len(s) : OwnOf(s, v)[i] = OwnEffect(s[i], v)
  <2>1. SUFFICES ASSUME NEW s \in Seq(Item)
                 PROVE  /\ OwnOf(s, v) \in Seq(E) /\ Len(OwnOf(s, v)) = Len(s)
                        /\ \A i \in 1 .. Len(s) : OwnOf(s, v)[i] = OwnEffect(s[i], v)
    OBVIOUS
  <2>2. Len(s) \in Nat /\ \A i \in 1 .. Len(s) : OwnEffect(s[i], v) \in E
    BY ElementOfSeq, LenProperties
  <2>. HIDE DEF E
  <2>. QED BY <2>2, IsASeq DEF OwnOf
<1>. HIDE DEF E
<1>5. PICK x, y, z : x = OwnOf(a, v) /\ y = OwnOf(b, v) /\ z = OwnOf(c, v) OBVIOUS
<1>6. /\ x \in Seq(E) /\ Len(x) = Len(a)
      /\ \A i \in 1 .. Len(a) : x[i] = OwnEffect(a[i], v)
  BY <1>4, <1>5
<1>7. /\ y \in Seq(E) /\ Len(y) = Len(b)
      /\ \A i \in 1 .. Len(b) : y[i] = OwnEffect(b[i], v)
  BY <1>4, <1>5
<1>8. /\ z \in Seq(E) /\ Len(z) = Len(a) + Len(b)
      /\ \A i \in 1 .. Len(a) + Len(b) : z[i] = OwnEffect(c[i], v)
  BY <1>3, <1>4, <1>5
<1>9. PICK w : w = x \o y OBVIOUS
<1>10. /\ w \in Seq(E) /\ Len(w) = Len(a) + Len(b)
       /\ \A i \in 1 .. Len(a) + Len(b) : w[i] = IF i <= Len(a) THEN x[i] ELSE y[i - Len(a)]
  <2>1. x \in Seq(E) /\ y \in Seq(E) BY <1>6, <1>7
  <2>2. /\ x \o y \in Seq(E) /\ Len(x \o y) = Len(x) + Len(y)
        /\ \A i \in 1 .. Len(x) + Len(y) :
             (x \o y)[i] = IF i <= Len(x) THEN x[i] ELSE y[i - Len(x)]
    BY ONLY <2>1, ConcatProperties
  <2>3. Len(x) = Len(a) /\ Len(y) = Len(b) BY <1>6, <1>7
  <2>. QED BY ONLY <1>9, <2>2, <2>3
<1>11. ASSUME NEW i \in 1 .. Len(a) + Len(b) PROVE z[i] = w[i]
  <2>1. CASE i <= Len(a)
    <3>1. i \in 1 .. Len(a) BY <1>1, <2>1
    <3>. QED BY <1>3, <1>6, <1>8, <1>10, <2>1, <3>1
  <2>2. CASE ~(i <= Len(a))
    <3>1. i - Len(a) \in 1 .. Len(b) BY <1>1, <2>2
    <3>2. c[i] = b[i - Len(a)] /\ w[i] = y[i - Len(a)] BY <1>3, <1>10, <2>2
    <3>. QED BY <1>7, <1>8, <3>1, <3>2
  <2>. QED BY <2>1, <2>2
<1>12. z = w
  <2>1. Len(z) = Len(w) /\ \A i \in 1 .. Len(z) : z[i] = w[i] BY <1>8, <1>10, <1>11
  <2>. QED BY ONLY <1>8, <1>10, <2>1, SeqEqual
<1>. QED BY <1>2, <1>5, <1>9, <1>12

(* A text that is written as it is does its own effect.                      *)
LEMMA RunIndex ==
  ASSUME NEW v \in Value, NEW s \in Seq(IndexItem(v))
  PROVE  RunAll(s, v, 0) = OwnOf(s, v)
<1>1. Len(s) \in Nat /\ \A i \in 1 .. Len(s) : s[i] \in IndexItem(v)
  BY ElementOfSeq, LenProperties
<1>2. ASSUME NEW item \in IndexItem(v) PROVE Run(item, v, 0) = OwnEffect(item, v)
  BY CommonInfoAssumption DEF IndexItem, Item, Run, OwnEffect
<1>. QED BY <1>1, <1>2 DEF RunAll, OwnOf

(* The bodies of a range loop, put into one loop, run in it.                  *)
LEMMA RunRange ==
  ASSUME NEW v \in Value, NEW n \in Nat \ {0}, NEW s \in Seq(ListItem("range", n, v))
  PROVE  RunAll(s, v, FirstLoop(s)) = OwnOf(s, v)
<1>1. Len(s) \in Nat /\ \A i \in 1 .. Len(s) : s[i] \in ListItem("range", n, v)
  BY ElementOfSeq, LenProperties
<1>2. \A i \in 1 .. Len(s) : s[i].loop = n /\ s[i].var = Elem /\ ~s[i].header
  BY <1>1 DEF ListItem
<1>. DEFINE looped == {i \in 1 .. Len(s) : s[i].loop # 0}
            first == CHOOSE i \in looped : \A j \in looped : i <= j
<1>3. CASE Len(s) = 0 BY <1>3 DEF RunAll, OwnOf
<1>4. CASE Len(s) # 0
  <2>1. looped \subseteq Nat /\ looped # {} /\ looped \subseteq 1 .. Len(s)
    <3>1. 1 \in 1 .. Len(s) BY <1>1, <1>4
    <3>. QED BY <1>2, <3>1
  <2>2. FirstLoop(s) = s[first].loop BY <2>1 DEF FirstLoop
  <2>. HIDE DEF looped
  <2>3. first \in looped BY <2>1, LeastIs
  <2>. HIDE DEF first
  <2>4. FirstLoop(s) = n BY <1>2, <2>1, <2>2, <2>3
  <2>5. \A i \in 1 .. Len(s) : Run(s[i], v, n) = OwnEffect(s[i], v)
    BY <1>2, CommonInfoAssumption DEF Run, OwnEffect
  <2>. QED BY <2>4, <2>5 DEF RunAll, OwnOf
<1>. QED BY <1>3, <1>4

-----------------------------------------------------------------------------
(* What is written for a detail                                             *)

(* The text of a detail, in the order of its parts.                         *)
AllOf(d) == d.pre \o (d.loop \o d.post)

(* The parts of a detail read only its variable; the list loop is written     *)
(* with every header or runs in one loop.                                   *)
PartsOK(d) ==
  /\ d.pre \in Seq(PlainItem(d.value)) /\ d.post \in Seq(PlainItem(d.value))
  /\ d.method # "list" => d.loop = << >>
  /\ d.isFor => d.loop \in Seq(IndexItem(d.value))
  /\ ~d.isFor => \E n \in Nat \ {0} : d.loop \in Seq(ListItem("range", n, d.value))

LEMMA ItemSets ==
  ASSUME NEW v
  PROVE  /\ PlainItem(v) \subseteq IndexItem(v) /\ IndexItem(v) \subseteq Item
         /\ PlainItem(v) \subseteq Item
         /\ \A n, kind : ListItem(kind, n, v) \subseteq Item
         /\ \A n \in Nat \ {0} : ListItem("for", n, v) \subseteq IndexItem(v)
BY DEF PlainItem, IndexItem, ListItem, Item

LEMMA PartsType ==
  ASSUME NEW d, PartsOK(d)
  PROVE  d.pre \in Seq(Item) /\ d.loop \in Seq(Item) /\ d.post \in Seq(Item)
<1>1. PlainItem(d.value) \subseteq Item /\ IndexItem(d.value) \subseteq Item
      /\ \A n : ListItem("range", n, d.value) \subseteq Item
  BY ItemSets
<1>2. d.pre \in Seq(Item) /\ d.post \in Seq(Item) BY <1>1, SeqMono DEF PartsOK
<1>3. CASE d.isFor BY <1>1, <1>2, <1>3, SeqMono DEF PartsOK
<1>4. CASE ~d.isFor
  <2>1. PICK n : d.loop \in Seq(ListItem("range", n, d.value)) BY <1>4 DEF PartsOK
  <2>. QED BY <1>1, <1>2, <2>1, SeqMono
<1>. QED BY <1>3, <1>4

LEMMA RunOwn ==
  ASSUME NEW v \in Value, NEW s \in Seq(PlainItem(v))
  PROVE  RunAll(s, v, 0) = OwnOf(s, v)
<1>1. PlainItem(v) \subseteq IndexItem(v) BY ItemSets
<1>2. s \in Seq(IndexItem(v)) BY <1>1, SeqMono
<1>. QED BY <1>2, RunIndex

(* A detail is written as its text in order.                                 *)
LEMMA WrittenOwn ==
  ASSUME NEW d \in Detail, PartsOK(d), d.method # "none"
  PROVE  Written(d) = OwnOf(AllOf(d), d.value)
<1>1. d.value \in Value /\ d.method \in {"scalar", "list"} /\ d.isFor \in BOOLEAN
  BY DEF Detail
<1>2. PICK v, a, b, c : v = d.value /\ a = d.pre /\ b = d.loop /\ c = d.post OBVIOUS
<1>3. /\ a \in Seq(PlainItem(v)) /\ c \in Seq(PlainItem(v))
      /\ a \in Seq(Item) /\ b \in Seq(Item) /\ c \in Seq(Item)
  BY <1>2, PartsType DEF PartsOK
<1>4. RunAll(a, v, 0) = OwnOf(a, v) /\ RunAll(c, v, 0) = OwnOf(c, v)
  BY <1>1, <1>2, <1>3, RunOwn
<1>5. AllOf(d) = a \o (b \o c) BY <1>2 DEF AllOf
<1>6. CASE d.method = "scalar"
  <2>1. b = << >> BY <1>2, <1>6 DEF PartsOK
  <2>2. AllOf(d) = a \o c BY <1>3, <1>5, <2>1, ConcatEmptySeq
  <2>3. Written(d) = RunAll(a \o c, v, 0) BY <1>2, <1>6 DEF Written
  <2>4. a \o c \in Seq(PlainItem(v)) BY <1>3, ConcatProperties
  <2>5. RunAll(a \o c, v, 0) = OwnOf(a \o c, v) BY <1>1, <1>2, <2>4, RunOwn
  <2>. QED BY <1>2, <2>2, <2>3, <2>5
<1>7. CASE d.method = "list"
  <2>1. PICK l : l = IF d.isFor THEN 0 ELSE FirstLoop(b) OBVIOUS
  <2>2. RunAll(b, v, l) = OwnOf(b, v)
    <3>1. CASE d.isFor
      <4>1. b \in Seq(IndexItem(v)) BY <1>2, <3>1 DEF PartsOK
      <4>. QED BY <1>1, <1>2, <2>1, <3>1, <4>1, RunIndex
    <3>2. CASE ~d.isFor
      <4>1. PICK n \in Nat \ {0} : b \in Seq(ListItem("range", n, v))
        BY <1>2, <3>2 DEF PartsOK
      <4>. QED BY <1>1, <1>2, <2>1, <3>2, <4>1, RunRange
    <3>. QED BY <3>1, <3>2
  <2>3. Written(d) = RunAll(a, v, 0) \o RunAll(b, v, l) \o RunAll(c, v, 0)
    BY <1>2, <1>7, <2>1 DEF Written
  <2>4. Written(d) = (OwnOf(a, v) \o OwnOf(b, v)) \o OwnOf(c, v) BY <1>4, <2>2, <2>3
  <2>5. OwnOf(a, v) \o OwnOf(b, v) = OwnOf(a \o b, v) BY <1>3, OwnConcat
  <2>6. a \o b \in Seq(Item) BY <1>3, ConcatProperties
  <2>7. OwnOf(a \o b, v) \o OwnOf(c, v) = OwnOf((a \o b) \o c, v)
    <3>1. a \o b \in Seq(Item) /\ c \in Seq(Item) BY <1>3, <2>6
    <3>. QED BY ONLY <3>1, OwnConcat
  <2>8. (a \o b) \o c = a \o (b \o c) BY ONLY <1>3, ConcatAssociative, SMTT(60)
  <2>. QED BY <1>2, <1>5, <2>4, <2>5, <2>7, <2>8
<1>. QED BY <1>1, <1>6, <1>7

(* A closed detail is written as the source runs for its name.              *)
Told(d, s) ==
  IF d.method = "none" THEN Silent(s) ELSE Written(d) = SourceRun(s, d.value)

LEMMA ToldIs ==
  ASSUME NEW d \in Detail, PartsOK(d), NEW s \in Seq(Effect), Follows(AllOf(d), s),
         d.method = "none" => Silent(s)
  PROVE  Told(d, s)
<1>1. OwnOf(AllOf(d), d.value) = SourceRun(s, d.value) BY FollowsOwn
<1>. QED BY <1>1, WrittenOwn DEF Told

(* The text of another name runs as the source does for that name, if the     *)
(* text it is copied from does.                                             *)
LEMMA RenamedFollows ==
  ASSUME NEW text \in Seq(Item), NEW s, NEW v \in Value, NEW w \in Value, Follows(text, s)
  PROVE  Follows(Renamed(text, v, w), s)
<1>1. Len(text) \in Nat /\ \A i \in 1 .. Len(text) : text[i] \in Item
  BY ElementOfSeq, LenProperties
<1>2. ASSUME NEW item \in Item, item.var = v
      PROVE  /\ [item EXCEPT !.var = w].id = item.id
             /\ [item EXCEPT !.var = w].loop = item.loop
             /\ [item EXCEPT !.var = w].var = w
  BY DEF Item
<1>3. v # None /\ w # None BY CommonInfoAssumption
<1>4. Len(text) = Len(s)
      /\ \A i \in 1 .. Len(s) : /\ text[i].id = s[i].id /\ text[i].loop = s[i].loop
                                /\ s[i].reads <=> text[i].var # None
  BY DEF Follows
<1>5. PICK t : t = Renamed(text, v, w) OBVIOUS
<1>6. /\ Len(t) = Len(text)
      /\ \A i \in 1 .. Len(text) :
           t[i] = IF text[i].var = v THEN [text[i] EXCEPT !.var = w] ELSE text[i]
  BY <1>1, <1>5 DEF Renamed
<1>7. ASSUME NEW i \in 1 .. Len(s)
      PROVE  /\ t[i].id = s[i].id /\ t[i].loop = s[i].loop
             /\ s[i].reads <=> t[i].var # None
  <2>1. CASE text[i].var = v
    <3>1. t[i] = [text[i] EXCEPT !.var = w] BY <1>4, <1>6, <2>1
    <3>2. t[i].id = text[i].id /\ t[i].loop = text[i].loop /\ t[i].var = w
      BY <1>1, <1>2, <1>4, <2>1, <3>1
    <3>. QED BY <1>3, <1>4, <2>1, <3>2
  <2>2. CASE text[i].var # v
    <3>1. t[i] = text[i] BY <1>4, <1>6, <2>2
    <3>. QED BY <1>4, <3>1
  <2>. QED BY <2>1, <2>2
<1>8. Follows(t, s) BY <1>4, <1>6, <1>7 DEF Follows
<1>. QED BY <1>5, <1>8

LEMMA RenamedInto ==
  ASSUME NEW s \in Seq(Item), NEW A, NEW B, NEW v, NEW w, s \in Seq(A),
         \A item \in A : (IF item.var = v THEN [item EXCEPT !.var = w] ELSE item) \in B
  PROVE  Renamed(s, v, w) \in Seq(B) /\ Len(Renamed(s, v, w)) = Len(s)
<1>1. Len(s) \in Nat /\ \A i \in 1 .. Len(s) : s[i] \in A BY ElementOfSeq, LenProperties
<1>2. \A i \in 1 .. Len(s) :
        (IF s[i].var = v THEN [s[i] EXCEPT !.var = w] ELSE s[i]) \in B
  BY <1>1
<1>. QED BY <1>1, <1>2, IsASeq DEF Renamed

LEMMA RenamedSets ==
  ASSUME NEW v \in Value, NEW w \in Value
  PROVE  /\ \A item \in Item :
              (IF item.var = v THEN [item EXCEPT !.var = w] ELSE item) \in Item
         /\ \A item \in PlainItem(v) :
              (IF item.var = v THEN [item EXCEPT !.var = w] ELSE item) \in PlainItem(w)
         /\ \A item \in IndexItem(v) :
              (IF item.var = v THEN [item EXCEPT !.var = w] ELSE item) \in IndexItem(w)
         /\ \A n \in Nat : \A item \in ListItem("range", n, v) :
              (IF item.var = v THEN [item EXCEPT !.var = w] ELSE item)
                 \in ListItem("range", n, w)
<1>1. ASSUME NEW item \in Item, NEW x, x = [item EXCEPT !.var = w]
      PROVE  /\ x \in Item /\ x.id = item.id /\ x.loop = item.loop
             /\ x.header = item.header /\ x.var = w
  BY <1>1 DEF Item
<1>2. v # Elem BY CommonInfoAssumption
<1>3. \A item \in Item : [item EXCEPT !.var = w] \in Item BY <1>1
<1>4. ASSUME NEW item \in PlainItem(v)
      PROVE  (IF item.var = v THEN [item EXCEPT !.var = w] ELSE item) \in PlainItem(w)
  <2>1. PICK x : x = [item EXCEPT !.var = w] OBVIOUS
  <2>2. item \in Item BY DEF PlainItem
  <2>3. /\ x \in Item /\ x.loop = item.loop /\ x.header = item.header /\ x.var = w
    BY <1>1, <2>1, <2>2
  <2>4. x \in PlainItem(w) BY <2>3 DEF PlainItem
  <2>5. item.var # v => item \in PlainItem(w) BY DEF PlainItem
  <2>. QED BY <2>1, <2>4, <2>5
<1>5. ASSUME NEW item \in IndexItem(v)
      PROVE  (IF item.var = v THEN [item EXCEPT !.var = w] ELSE item) \in IndexItem(w)
  <2>1. PICK x : x = [item EXCEPT !.var = w] OBVIOUS
  <2>2. item \in Item /\ (item.header <=> item.loop # 0) BY DEF IndexItem
  <2>3. /\ x \in Item /\ x.loop = item.loop /\ x.header = item.header /\ x.var = w
    BY <1>1, <2>1, <2>2
  <2>4. x \in IndexItem(w) BY <2>2, <2>3 DEF IndexItem
  <2>5. item.var # v => item \in IndexItem(w) BY DEF IndexItem
  <2>. QED BY <2>1, <2>4, <2>5
<1>6. ASSUME NEW n \in Nat, NEW item \in ListItem("range", n, v)
      PROVE  (IF item.var = v THEN [item EXCEPT !.var = w] ELSE item)
                \in ListItem("range", n, w)
  BY <1>2 DEF ListItem
<1>. QED BY <1>3, <1>4, <1>5, <1>6

LEMMA RenamedConcat ==
  ASSUME NEW a \in Seq(Item), NEW b \in Seq(Item), NEW v \in Value, NEW w \in Value
  PROVE  Renamed(a \o b, v, w) = Renamed(a, v, w) \o Renamed(b, v, w)
<1>. DEFINE R(item) == IF item.var = v THEN [item EXCEPT !.var = w] ELSE item
<1>1. Len(a) \in Nat /\ Len(b) \in Nat BY LenProperties
<1>2. PICK c : c = a \o b OBVIOUS
<1>3. /\ c \in Seq(Item) /\ Len(c) = Len(a) + Len(b)
      /\ \A i \in 1 .. Len(a) + Len(b) : c[i] = IF i <= Len(a) THEN a[i] ELSE b[i - Len(a)]
  BY <1>2, ConcatProperties
<1>4. \A s \in Seq(Item) : /\ Renamed(s, v, w) \in Seq(Item)
                           /\ Len(Renamed(s, v, w)) = Len(s)
                           /\ \A i \in 1 .. Len(s) : Renamed(s, v, w)[i] = R(s[i])
  <2>. SUFFICES ASSUME NEW s \in Seq(Item)
                 PROVE  /\ Renamed(s, v, w) \in Seq(Item) /\ Len(Renamed(s, v, w)) = Len(s)
                        /\ \A i \in 1 .. Len(s) : Renamed(s, v, w)[i] = R(s[i])
    OBVIOUS
  <2>1. Len(s) \in Nat /\ \A i \in 1 .. Len(s) : s[i] \in Item
    BY ElementOfSeq, LenProperties
  <2>2. \A item \in Item : R(item) \in Item BY RenamedSets
  <2>3. \A i \in 1 .. Len(s) : R(s[i]) \in Item BY <2>1, <2>2
  <2>4. Renamed(s, v, w) = [i \in 1 .. Len(s) |-> R(s[i])] BY DEF Renamed
  <2>. HIDE DEF R
  <2>. QED BY <2>1, <2>3, <2>4, IsASeq
<1>. HIDE DEF R
<1>5. PICK x, y, z : x = Renamed(a, v, w) /\ y = Renamed(b, v, w) /\ z = Renamed(c, v, w)
  OBVIOUS
<1>6. x \in Seq(Item) /\ Len(x) = Len(a) /\ \A i \in 1 .. Len(a) : x[i] = R(a[i])
  BY <1>4, <1>5
<1>7. y \in Seq(Item) /\ Len(y) = Len(b) /\ \A i \in 1 .. Len(b) : y[i] = R(b[i])
  BY <1>4, <1>5
<1>8. /\ z \in Seq(Item) /\ Len(z) = Len(a) + Len(b)
      /\ \A i \in 1 .. Len(a) + Len(b) : z[i] = R(c[i])
  BY <1>3, <1>4, <1>5
<1>9. PICK u : u = x \o y OBVIOUS
<1>10. /\ u \in Seq(Item) /\ Len(u) = Len(a) + Len(b)
       /\ \A i \in 1 .. Len(a) + Len(b) : u[i] = IF i <= Len(a) THEN x[i] ELSE y[i - Len(a)]
  <2>0. x \in Seq(Item) /\ y \in Seq(Item) BY <1>6, <1>7
  <2>1. /\ x \o y \in Seq(Item) /\ Len(x \o y) = Len(x) + Len(y)
        /\ \A i \in 1 .. Len(x) + Len(y) :
             (x \o y)[i] = IF i <= Len(x) THEN x[i] ELSE y[i - Len(x)]
    BY ONLY <2>0, ConcatProperties
  <2>2. Len(x) = Len(a) /\ Len(y) = Len(b) BY <1>6, <1>7
  <2>. QED BY ONLY <1>9, <2>1, <2>2
<1>11. ASSUME NEW i \in 1 .. Len(a) + Len(b) PROVE z[i] = u[i]
  <2>1. CASE i <= Len(a)
    <3>1. i \in 1 .. Len(a) BY <1>1, <2>1
    <3>. QED BY <1>3, <1>6, <1>8, <1>10, <2>1, <3>1
  <2>2. CASE ~(i <= Len(a))
    <3>1. i - Len(a) \in 1 .. Len(b) BY <1>1, <2>2
    <3>2. c[i] = b[i - Len(a)] /\ u[i] = y[i - Len(a)] BY <1>3, <1>10, <2>2
    <3>. QED BY <1>7, <1>8, <3>1, <3>2
  <2>. QED BY <2>1, <2>2
<1>12. z = u
  <2>1. Len(z) = Len(u) /\ \A i \in 1 .. Len(z) : z[i] = u[i] BY <1>8, <1>10, <1>11
  <2>. QED BY ONLY <1>8, <1>10, <2>1, SeqEqual
<1>. QED BY <1>2, <1>5, <1>9, <1>12

(* The body of d for the name w is that of d with the variable of w.           *)
LEMMA CopiedParts ==
  ASSUME NEW d \in Detail, PartsOK(d), NEW w \in Value
  PROVE  /\ Copied(d, w) \in Detail /\ PartsOK(Copied(d, w))
         /\ Copied(d, w).value = w /\ Copied(d, w).method = d.method
         /\ Copied(d, w).filled = d.filled
         /\ \A s : Follows(AllOf(d), s) => Follows(AllOf(Copied(d, w)), s)
<1>1. PICK v, a, b, c : v = d.value /\ a = d.pre /\ b = d.loop /\ c = d.post OBVIOUS
<1>2. v \in Value /\ a \in Seq(Item) /\ b \in Seq(Item) /\ c \in Seq(Item)
  BY <1>1, PartsType DEF Detail
<1>3. PICK e : e = Copied(d, w) OBVIOUS
<1>4. e \in Detail /\ e.value = w BY <1>3, CopiedIs
<1>5. /\ e.method = d.method /\ e.isFor = d.isFor /\ e.filled = d.filled
      /\ e.pre = Renamed(a, v, w) /\ e.loop = Renamed(b, v, w) /\ e.post = Renamed(c, v, w)
  <2>1. d = [value |-> d.value, method |-> d.method, isFor |-> d.isFor,
             filled |-> d.filled, pre |-> d.pre, loop |-> d.loop, post |-> d.post]
    BY DEF Detail
  <2>2. PICK x, y, z : x = Renamed(a, v, w) /\ y = Renamed(b, v, w) /\ z = Renamed(c, v, w)
    OBVIOUS
  <2>3. e = [d EXCEPT !.value = w, !.pre = x, !.loop = y, !.post = z]
    BY <1>1, <1>3, <2>1, <2>2 DEF Copied
  <2>. QED BY <2>1, <2>2, <2>3
<1>6. e.pre \in Seq(PlainItem(w)) /\ e.post \in Seq(PlainItem(w))
  <2>1. a \in Seq(PlainItem(v)) /\ c \in Seq(PlainItem(v)) BY <1>1 DEF PartsOK
  <2>2. \A item \in PlainItem(v) :
          (IF item.var = v THEN [item EXCEPT !.var = w] ELSE item) \in PlainItem(w)
    BY <1>2, RenamedSets
  <2>3. Renamed(a, v, w) \in Seq(PlainItem(w)) BY ONLY <1>2, <2>1, <2>2, RenamedInto
  <2>4. Renamed(c, v, w) \in Seq(PlainItem(w)) BY ONLY <1>2, <2>1, <2>2, RenamedInto
  <2>. QED BY <1>5, <2>3, <2>4
<1>7. e.method # "list" => e.loop = << >>
  <2>1. b = << >> => Renamed(b, v, w) = << >> BY DEF Renamed
  <2>. QED BY <1>1, <1>5, <2>1 DEF PartsOK
<1>8. e.isFor => e.loop \in Seq(IndexItem(w))
  <2>1. SUFFICES ASSUME d.isFor PROVE Renamed(b, v, w) \in Seq(IndexItem(w)) BY <1>5
  <2>2. b \in Seq(IndexItem(v)) BY <1>1, <2>1 DEF PartsOK
  <2>3. \A item \in IndexItem(v) :
          (IF item.var = v THEN [item EXCEPT !.var = w] ELSE item) \in IndexItem(w)
    BY <1>2, RenamedSets
  <2>. QED BY ONLY <1>2, <2>2, <2>3, RenamedInto
<1>9. ~e.isFor => \E n \in Nat \ {0} : e.loop \in Seq(ListItem("range", n, w))
  <2>1. SUFFICES ASSUME ~d.isFor
                 PROVE  \E n \in Nat \ {0} : Renamed(b, v, w) \in Seq(ListItem("range", n, w))
    BY <1>5
  <2>2. PICK n \in Nat \ {0} : b \in Seq(ListItem("range", n, v))
    BY <1>1, <2>1 DEF PartsOK
  <2>3. PICK A, B : A = ListItem("range", n, v) /\ B = ListItem("range", n, w) OBVIOUS
  <2>4. n \in Nat OBVIOUS
  <2>5. \A item \in A :
          (IF item.var = v THEN [item EXCEPT !.var = w] ELSE item) \in B
    BY <1>2, <2>3, <2>4, RenamedSets
  <2>6. b \in Seq(A) BY <2>2, <2>3
  <2>7. Renamed(b, v, w) \in Seq(B) BY ONLY <1>2, <2>5, <2>6, RenamedInto
  <2>. QED BY <2>3, <2>7
<1>10. PartsOK(e) BY <1>4, <1>6, <1>7, <1>8, <1>9 DEF PartsOK
<1>11. AllOf(e) = Renamed(AllOf(d), v, w) /\ AllOf(d) \in Seq(Item)
  <2>0. PICK u : u = b \o c OBVIOUS
  <2>1. u \in Seq(Item) BY <1>2, <2>0, ConcatProperties
  <2>2. a \o u \in Seq(Item) BY <1>2, <2>1, ConcatProperties
  <2>3. Renamed(a \o u, v, w) = Renamed(a, v, w) \o Renamed(u, v, w)
    <3>1. a \in Seq(Item) /\ u \in Seq(Item) /\ v \in Value /\ w \in Value BY <1>2, <2>1
    <3>. QED BY ONLY <3>1, RenamedConcat
  <2>4. Renamed(b \o c, v, w) = Renamed(b, v, w) \o Renamed(c, v, w)
    <3>1. b \in Seq(Item) /\ c \in Seq(Item) /\ v \in Value /\ w \in Value BY <1>2
    <3>. QED BY ONLY <3>1, RenamedConcat
  <2>. QED BY <1>1, <1>5, <2>0, <2>2, <2>3, <2>4 DEF AllOf
<1>12. \A s : Follows(AllOf(d), s) => Follows(AllOf(e), s)
  BY <1>2, <1>11, RenamedFollows
<1>. QED BY <1>3, <1>4, <1>5, <1>10, <1>12

(* The statements and the one list loop of a body that the detail d gets.     *)
ListKind(d) == IF d.isFor THEN "for" ELSE "range"

LoopOf(d, items) ==
  \E n \in Nat \ {0} : items \in Seq(ListItem(ListKind(d), n, d.value))

BodyOf(d, block) ==
  /\ \A i \in 1 .. Len(block) :
       \/ block[i].kind = "stmt" /\ block[i].items \in Seq(PlainItem(d.value))
       \/ d.method = "list" /\ block[i].kind = ListKind(d) /\ LoopOf(d, block[i].items)
  /\ \A i, j \in 1 .. Len(block) : IsList(block[i]) /\ IsList(block[j]) => i = j

(* A body is cut at its list loop; nothing of it is lost or moved.            *)
LEMMA BodyParts ==
  ASSUME NEW d, NEW s \in Seq(Child), BodyOf(d, s)
  PROVE  /\ AllOf(BodyText(s)) = Flat(s)
         /\ BodyText(s).pre \in Seq(PlainItem(d.value))
         /\ BodyText(s).post \in Seq(PlainItem(d.value))
         /\ BodyText(s).loop = << >> \/ (d.method = "list" /\ LoopOf(d, BodyText(s).loop))
<1>. DEFINE P == PlainItem(d.value)
            lists == {i \in 1 .. Len(s) : IsList(s[i])}
            first == IF lists = {} THEN Len(s) + 1
                     ELSE CHOOSE i \in lists : \A j \in lists : i <= j
<1>1. /\ Len(s) \in Nat /\ \A i \in 1 .. Len(s) : s[i] \in Child
      /\ s \in Seq(ChildOf(Item))
  BY ElementOfSeq, LenProperties, ChildOfItem
<1>2. BodyText(s) = [pre  |-> Flat(SubSeq(s, 1, first - 1)),
                     loop |-> FlatOf(s, {"range", "for"}),
                     post |-> FlatOf(SubSeq(s, first + 1, Len(s)), {"stmt", "if"})]
  BY DEF BodyText
<1>3. \A i \in 1 .. Len(s) : i \notin lists =>
        /\ s[i].kind = "stmt" /\ s[i] \in ChildOf(P) /\ s[i] \in Child
        /\ s[i].kind \notin {"range", "for"} /\ s[i].kind \in {"stmt", "if"}
  BY <1>1 DEF BodyOf, ListKind, IsList, ChildOf
<1>4. \A i, j \in lists : i = j BY DEF BodyOf
<1>5. \A i \in lists : /\ d.method = "list" /\ LoopOf(d, s[i].items)
                       /\ s[i].kind \in {"range", "for"}
  BY DEF BodyOf, ListKind, IsList
<1>6. CASE lists = {}
  <2>1. first = Len(s) + 1 BY <1>6
  <2>2. SubSeq(s, 1, first - 1) = s
    <3>1. first - 1 = Len(s) BY <1>1, <2>1
    <3>. QED BY <3>1, SubSeqFull
  <2>3. SubSeq(s, first + 1, Len(s)) = << >>
    <3>. HIDE DEF first
    <3>1. PICK q : q = Len(s) + 2 OBVIOUS
    <3>2. /\ q \in Int /\ Len(s) \in Int /\ first + 1 = q /\ ~(q <= Len(s))
          /\ \A i \in q .. Len(s) : s[i] \in Child
      BY <1>1, <2>1, <3>1
    <3>3. PICK t : t = SubSeq(s, q, Len(s)) OBVIOUS
    <3>4. t \in Seq(Child) /\ Len(t) = 0
      <4>1. /\ SubSeq(s, q, Len(s)) \in Seq(Child)
            /\ Len(SubSeq(s, q, Len(s))) = IF q <= Len(s) THEN Len(s) - q + 1 ELSE 0
        BY ONLY <3>2, SubSeqProperties
      <4>. QED BY ONLY <3>2, <3>3, <4>1
    <3>. QED BY <3>2, <3>3, <3>4, EmptySeq
  <2>4. FlatOf(s, {"range", "for"}) = << >> BY <1>3, <1>6, FlatOfNone
  <2>5. FlatOf(<< >>, {"stmt", "if"}) = << >>
    <3>1. PICK e : e = << >> OBVIOUS
    <3>2. e \in Seq(Child) /\ \A i \in 1 .. Len(e) : e[i].kind \notin {"stmt", "if"}
      BY <3>1
    <3>. QED BY <3>1, <3>2, FlatOfNone
  <2>6. s \in Seq(ChildOf(P))
    <3>1. \A i \in 1 .. Len(s) : s[i] \in ChildOf(P) BY <1>3, <1>6
    <3>2. s = [i \in 1 .. Len(s) |-> s[i]] BY <1>1, SeqEqual
    <3>. HIDE DEF P
    <3>. QED BY <1>1, <3>1, <3>2, IsASeq
  <2>7. Flat(s) \in Seq(P) BY <2>6, TextsAre
  <2>8. BodyText(s) = [pre |-> Flat(s), loop |-> << >>, post |-> << >>]
    BY <1>2, <2>2, <2>3, <2>4, <2>5
  <2>9. Flat(s) \o (<< >> \o << >>) = Flat(s)
    <3>1. << >> \o << >> = << >> OBVIOUS
    <3>. QED BY <2>7, <3>1, ConcatEmptySeq
  <2>10. << >> \in Seq(P) OBVIOUS
  <2>. QED BY <2>7, <2>8, <2>9, <2>10 DEF AllOf
<1>7. CASE lists # {}
  <2>1. PICK p \in lists : TRUE BY <1>7
  <2>2. lists = {p} /\ p \in 1 .. Len(s) BY <1>4, <2>1
  <2>3. first = p
    <3>1. p <= p BY <1>1, <2>2
    <3>. QED BY <2>2, <3>1
  <2>. HIDE DEF lists, first
  <2>4. \A i \in 1 .. Len(s) : i # p =>
          /\ s[i] \in ChildOf(P) /\ s[i] \in Child /\ s[i].kind \notin {"range", "for"}
          /\ s[i].kind \in {"stmt", "if"}
    BY <1>3, <2>2
  <2>5. FlatOf(s, {"range", "for"}) = s[p].items
    <3>1. s[p].kind \in {"range", "for"} BY <1>5, <2>2
    <3>2. \A i \in 1 .. Len(s) : i # p => s[i].kind \notin {"range", "for"} BY <2>4
    <3>. QED BY <2>2, <3>1, <3>2, FlatOfOne
  <2>6. PICK a, b : a = SubSeq(s, 1, p - 1) /\ b = SubSeq(s, p + 1, Len(s)) OBVIOUS
  <2>7. a \in Seq(ChildOf(P)) /\ a \in Seq(Child)
    <3>1. 1 \in Int /\ p - 1 \in Int BY <1>1, <2>2
    <3>2. \A i \in 1 .. p - 1 : s[i] \in ChildOf(P) /\ s[i] \in Child BY <1>1, <2>2, <2>4
    <3>. HIDE DEF P
    <3>. QED BY <2>6, <3>1, <3>2, SubSeqProperties
  <2>8. /\ b \in Seq(ChildOf(P)) /\ b \in Seq(Child)
        /\ \A i \in 1 .. Len(b) : b[i].kind \in {"stmt", "if"}
    <3>1. p + 1 \in Int /\ Len(s) \in Int BY <1>1, <2>2
    <3>2. \A i \in p + 1 .. Len(s) : /\ s[i] \in ChildOf(P) /\ s[i] \in Child
                                     /\ s[i].kind \in {"stmt", "if"}
      BY <1>1, <2>2, <2>4
    <3>. DEFINE K == {c \in Child : c.kind \in {"stmt", "if"}}
    <3>3. \A i \in p + 1 .. Len(s) : s[i] \in K BY <3>2
    <3>4. b \in Seq(K)
      <4>. HIDE DEF K
      <4>. QED BY <2>6, <3>1, <3>3, SubSeqProperties
    <3>5. \A i \in 1 .. Len(b) : b[i] \in K
      <4>. HIDE DEF K
      <4>. QED BY <3>4, ElementOfSeq
    <3>6. b \in Seq(ChildOf(P)) /\ b \in Seq(Child)
      <4>. HIDE DEF P
      <4>. QED BY <2>6, <3>1, <3>2, SubSeqProperties
    <3>. QED BY <3>5, <3>6
  <2>9. FlatOf(b, {"stmt", "if"}) = Flat(b) BY <2>8, FlatOfAll
  <2>10. BodyText(s) = [pre |-> Flat(a), loop |-> s[p].items, post |-> Flat(b)]
    BY <1>2, <2>3, <2>5, <2>6, <2>9
  <2>11. Flat(a) \in Seq(P) /\ Flat(b) \in Seq(P) BY <2>7, <2>8, TextsAre
  <2>12. Flat(s) = Flat(a) \o (s[p].items \o Flat(b))
    BY <1>1, <2>2, <2>6, FlatSplit
  <2>13. d.method = "list" /\ LoopOf(d, s[p].items) BY <1>5, <2>1
  <2>14. PICK x, y, z : x = Flat(a) /\ y = s[p].items /\ z = Flat(b) OBVIOUS
  <2>15. /\ BodyText(s).pre = x /\ BodyText(s).loop = y /\ BodyText(s).post = z
    BY <2>10, <2>14
  <2>16. AllOf(BodyText(s)) = Flat(s) BY <2>12, <2>14, <2>15 DEF AllOf
  <2>. QED BY <2>11, <2>13, <2>14, <2>15, <2>16
<1>. QED BY <1>6, <1>7

(* A detail without a body gets the whole text of the one it is given.        *)
NoBody(d) == d.pre = << >> /\ d.loop = << >> /\ d.post = << >>

LEMMA FilledParts ==
  ASSUME NEW d \in Detail, NoBody(d), NEW s \in Seq(Child), BodyOf(d, s),
         NEW e, e = Filled(d, BodyText(s), TRUE)
  PROVE  /\ e \in Detail /\ PartsOK(e) /\ AllOf(e) = Flat(s)
         /\ e.value = d.value /\ e.method = d.method /\ e.filled
<1>1. PICK t : t = BodyText(s) OBVIOUS
<1>2. /\ AllOf(t) = Flat(s)
      /\ t.pre \in Seq(PlainItem(d.value)) /\ t.post \in Seq(PlainItem(d.value))
      /\ t.loop = << >> \/ (d.method = "list" /\ LoopOf(d, t.loop))
  BY <1>1, BodyParts
<1>3. e \in Detail
  <2>1. TRUE \in BOOLEAN OBVIOUS
  <2>2. Filled(d, BodyText(s), TRUE) \in Detail BY <2>1, FilledOwn
  <2>. QED BY <2>2
<1>4. e = [d EXCEPT !.pre = t.pre, !.loop = t.loop, !.post = t.post, !.filled = TRUE]
  BY <1>1 DEF Filled, NoBody
<1>5. e = [value |-> d.value, method |-> d.method, isFor |-> d.isFor, filled |-> TRUE,
           pre |-> t.pre, loop |-> t.loop, post |-> t.post]
  BY <1>4 DEF Detail
<1>6. /\ e.value = d.value /\ e.method = d.method /\ e.isFor = d.isFor /\ e.filled
      /\ e.pre = t.pre /\ e.loop = t.loop /\ e.post = t.post
  <2>1. PICK x, y, z : x = t.pre /\ y = t.loop /\ z = t.post OBVIOUS
  <2>2. e = [value |-> d.value, method |-> d.method, isFor |-> d.isFor, filled |-> TRUE,
             pre |-> x, loop |-> y, post |-> z]
    BY <1>5, <2>1
  <2>3. e.filled = TRUE BY ONLY <2>2
  <2>4. e.value = d.value /\ e.method = d.method /\ e.isFor = d.isFor BY ONLY <2>2
  <2>5. e.pre = x /\ e.loop = y /\ e.post = z BY ONLY <2>2
  <2>. QED BY <2>1, <2>3, <2>4, <2>5
<1>7. AllOf(e) = Flat(s) BY <1>2, <1>6 DEF AllOf
<1>8. PartsOK(e)
  <2>1. CASE t.loop = << >>
    <3>1. \A A : << >> \in Seq(A) OBVIOUS
    <3>2. 1 \in Nat \ {0} OBVIOUS
    <3>. QED BY <1>2, <1>6, <2>1, <3>1, <3>2 DEF PartsOK
  <2>2. CASE d.method = "list" /\ LoopOf(d, t.loop)
    <3>1. PICK n \in Nat \ {0} : t.loop \in Seq(ListItem(ListKind(d), n, d.value))
      BY <2>2 DEF LoopOf
    <3>2. d.isFor => t.loop \in Seq(IndexItem(d.value))
      <4>1. ASSUME d.isFor PROVE t.loop \in Seq(ListItem("for", n, d.value))
        BY <3>1, <4>1 DEF ListKind
      <4>2. ListItem("for", n, d.value) \subseteq IndexItem(d.value) BY ItemSets
      <4>. QED BY <4>1, <4>2, SeqMono
    <3>3. ~d.isFor => t.loop \in Seq(ListItem("range", n, d.value))
      BY <3>1 DEF ListKind
    <3>. QED BY <1>2, <1>6, <2>2, <3>2, <3>3 DEF PartsOK
  <2>. QED BY <1>2, <2>1, <2>2
<1>. QED BY <1>3, <1>6, <1>7, <1>8

-----------------------------------------------------------------------------
(* What has been collected while the loop is visited                        *)

InListOf(st) == st[Len(st)].kind \in {"range", "for"}

Inner(st, k) == InListOf(st) /\ k + 1 = Len(st)

(* What has been met in the statement k, the list loop in it included.        *)
TextAt(st, k) ==
  IF Inner(st, k) THEN Flat(st[k].block) \o Flat(st[Len(st)].block)
  ELSE Flat(st[k].block)

(* The method of d is that of the names vs, once they are read; what has been *)
(* met is what the source does for them.                                    *)
Records(d, text, vs, src) ==
  /\ d.method = "scalar" => vs \cap ListValue = {}
  /\ d.method = "list" => vs \subseteq ListValue
  /\ \A v \in vs : /\ Follows(text, src[v])
                   /\ d.method = "none" => Silent(src[v])

(* The list loop f in the statement g.                                      *)
ListOf(d, f, g) ==
  /\ d.method = "list" /\ f.kind = ListKind(d) /\ f.number \in Nat \ {0}
  /\ f.path = g.path
  /\ f.block \in Seq(ChildOf(ListItem(f.kind, f.number, d.value)))

Branching == {"if", "else"}

NamesOf(f) == IF f.kind = "case" THEN f.path
              ELSE IF f.kind \in Branching THEN {f.test} ELSE {}

(* The names whose body is not complete.                                    *)
Open(st) == UNION {NamesOf(st[k]) : k \in 1 .. Len(st)}

(* The detail i is the one that the body of statement k is going to fill.     *)
Recipient(st, ds, k, i) ==
  \/ st[k].kind = "case" /\ i = Len(ds)
  \/ st[k].kind \in Branching /\ ds[i].value = st[k].test

NoListIn(block) == \A i \in 1 .. Len(block) : ~IsList(block[i])

Gathers(d, st, k, src) ==
  /\ NoBody(d) /\ BodyOf(d, st[k].block)
  /\ Records(d, TextAt(st, k), NamesOf(st[k]), src)
  /\ Inner(st, k) => ListOf(d, st[Len(st)], st[k]) /\ NoListIn(st[k].block)

(* A test in a test has another name; a switch stands in none of them.        *)
BranchOK(st) ==
  \A k, j \in 1 .. Len(st) : st[k].kind \in Branching =>
    /\ st[j].kind \notin {"switch", "case"}
    /\ st[j].kind \in Branching /\ st[j].test = st[k].test => j = k

(* The case in hand is of the details added last, and without braces it has   *)
(* one statement.                                                           *)
FrameOK(f, k, n, ds) ==
  /\ f.kind = "plain" => k = 2
  /\ f.kind = "if" => f.path = {f.test}
  /\ f.kind = "case" =>
       /\ f.path # {}
       /\ ~f.braced => Len(f.block) + (n - k) <= 1
       /\ \A i, j \in 1 .. Len(ds) :
            i <= j /\ ds[i].value \in f.path => ds[j].value \in f.path

Arranged(st, ds) ==
  /\ \A k \in 1 .. Len(st) : FrameOK(st[k], k, Len(st), ds)
  /\ BranchOK(st)
  /\ Open(st) \subseteq Values(ds)
  /\ InListOf(st) => st[Len(st) - 1].kind \in {"if", "case"}
  /\ st[1].block \in Seq(ChildOf({}))

(* Nothing has been met for a name that is not tested.                       *)
Untold(ds, src) == \A v \in Value \ Values(ds) : src[v] = << >>

ByName(st, ds, src) ==
  /\ Arranged(st, ds) /\ Untold(ds, src)
  /\ \A i \in 1 .. Len(ds) :
       /\ ds[i].filled <=> ds[i].value \notin Open(st)
       /\ ds[i].filled => Told(ds[i], src[ds[i].value])
  /\ \A i \in 1 .. Len(ds), k \in 1 .. Len(st) :
       Recipient(st, ds, k, i) => Gathers(ds[i], st, k, src)
-----------------------------------------------------------------------------
LEMMA OpenIs ==
  ASSUME NEW st, NEW v
  PROVE  v \in Open(st) <=> \E k \in 1 .. Len(st) : v \in NamesOf(st[k])
BY DEF Open

LEMMA ValuesAre ==
  ASSUME NEW ds, NEW v
  PROVE  v \in Values(ds) <=> \E i \in 1 .. Len(ds) : v = ds[i].value
BY DEF Values

LEMMA OpenValues ==
  ASSUME NEW st, NEW ds \in Seq(Detail), Arranged(st, ds)
  PROVE  Open(st) \subseteq Value /\ Open(st) \subseteq Values(ds)
<1>1. \A i \in 1 .. Len(ds) : ds[i] \in Detail BY ElementOfSeq
<1>3. \A i \in 1 .. Len(ds) : ds[i].value \in Value BY <1>1 DEF Detail
<1>2. Values(ds) \subseteq Value BY <1>3, ValuesAre
<1>. QED BY <1>2 DEF Arranged

LEMMA GathersSame ==
  ASSUME NEW d, NEW st, NEW tt, NEW src, NEW sr, NEW k, Gathers(d, st, k, src),
         tt[k].block = st[k].block, NamesOf(tt[k]) = NamesOf(st[k]),
         ~Inner(st, k), ~Inner(tt, k), \A v \in NamesOf(st[k]) : sr[v] = src[v]
  PROVE  Gathers(d, tt, k, sr)
<1>1. TextAt(st, k) = Flat(st[k].block) BY DEF TextAt
<1>2. TextAt(tt, k) = Flat(st[k].block) BY DEF TextAt
<1>3. NoBody(d) /\ BodyOf(d, st[k].block) BY DEF Gathers
<1>4. BodyOf(d, tt[k].block) BY <1>3
<1>5. Records(d, Flat(st[k].block), NamesOf(st[k]), src) BY <1>1 DEF Gathers
<1>6. Records(d, Flat(st[k].block), NamesOf(st[k]), sr) BY <1>5 DEF Records
<1>. QED BY <1>2, <1>3, <1>4, <1>6 DEF Gathers

(* The frames below the one that is worked on.                              *)
LEMMA BelowIs ==
  ASSUME NEW st \in Seq(Frame), Nested(st), NEW q \in 1 .. Len(st),
         st[q].kind \in {"if", "case"}
  PROVE  /\ q # 1 /\ q \in Nat \ {0} /\ Len(st) \in Nat
         /\ \A k \in 1 .. Len(st) : k < q =>
              st[k].kind \notin {"if", "case", "range", "for"}
         /\ \A k \in 1 .. Len(st) : k > q => st[k].kind \in {"range", "for"}
<1>1. Len(st) \in Nat \ {0} BY FrameSeq
<1>2. q # 1 BY <1>1 DEF Nested
<1>3. ASSUME NEW k \in 1 .. Len(st), k < q
      PROVE  st[k].kind \notin {"if", "case", "range", "for"}
  <2>1. k # Len(st) BY <1>1, <1>3
  <2>2. k + 1 = Len(st) => q = Len(st) BY <1>1, <1>3
  <2>. QED BY <1>1, <2>1, <2>2 DEF Nested
<1>4. ASSUME NEW k \in 1 .. Len(st), k > q PROVE st[k].kind \in {"range", "for"}
  <2>1. q # Len(st) BY <1>1, <1>4
  <2>2. q + 1 = Len(st) /\ st[Len(st)].kind \in {"range", "for"} BY <2>1 DEF Nested
  <2>3. k = Len(st) BY <1>1, <1>4, <2>2
  <2>. QED BY <2>2, <2>3
<1>. QED BY <1>1, <1>2, <1>3, <1>4

(* A step in the body of the frame q, whose detail is the last: it may change *)
(* that body, how the detail is read, and what is met for its names.          *)
SameFrame(f, g) ==
  f.kind = g.kind /\ f.path = g.path /\ f.test = g.test /\ f.braced = g.braced

LastChanged(es, ds) ==
  /\ es \in Seq(Detail) /\ Len(es) = Len(ds)
  /\ \A i \in 1 .. Len(ds) : i # Len(ds) => es[i] = ds[i]
  /\ es[Len(ds)].value = ds[Len(ds)].value /\ ~es[Len(ds)].filled

LEMMA WorkOK ==
  ASSUME NEW st \in Seq(Frame), Nested(st), NEW ds \in Seq(Detail), NoTwice(ds), NEW src,
         ByName(st, ds, src), ds # << >>,
         NEW q \in 1 .. Len(st), st[q].kind \in {"if", "case"},
         ds[Len(ds)].value \in NamesOf(st[q]),
         NEW tt, Len(tt) \in Nat, q = Len(tt) \/ Inner(tt, q),
         \A k \in 1 .. q - 1 : tt[k] = st[k], SameFrame(tt[q], st[q]),
         ~tt[q].braced /\ tt[q].kind = "case" =>
           Len(tt[q].block) + (Len(tt) - q) <= 1,
         NEW es, LastChanged(es, ds),
         NEW sr, \A v \in Value \ NamesOf(st[q]) : sr[v] = src[v],
         Gathers(es[Len(ds)], tt, q, sr)
  PROVE  ByName(tt, es, sr)
<1>. DEFINE n == Len(st)
            m == Len(ds)
            N == NamesOf(st[q])
<1>1. /\ q # 1 /\ q \in Nat \ {0} /\ n \in Nat
      /\ \A k \in 1 .. n : k < q => st[k].kind \notin {"if", "case", "range", "for"}
      /\ \A k \in 1 .. n : k > q => st[k].kind \in {"range", "for"}
  BY BelowIs
<1>2. m \in Nat \ {0} BY EmptySeq, LenProperties
<1>3. \A k \in 1 .. Len(tt) :
        \/ k \in 1 .. q - 1 /\ k \in 1 .. n /\ tt[k] = st[k] /\ ~Inner(tt, k) /\ k < q
        \/ k = q
        \/ k = q + 1 /\ k = Len(tt) /\ tt[k].kind \in {"range", "for"}
  <2>1. ASSUME NEW k \in 1 .. Len(tt)
        PROVE  k \in 1 .. q - 1 \/ k = q \/ (k = q + 1 /\ k = Len(tt))
    BY <1>1 DEF Inner
  <2>2. \A k \in 1 .. q - 1 : k \in 1 .. n /\ k < q /\ (k + 1 = Len(tt) => q = Len(tt))
    BY <1>1 DEF Inner
  <2>3. q = Len(tt) => ~InListOf(tt) BY DEF SameFrame, InListOf
  <2>4. \A k \in 1 .. q - 1 : ~Inner(tt, k) BY <2>2, <2>3 DEF Inner
  <2>5. q # Len(tt) => tt[Len(tt)].kind \in {"range", "for"} BY DEF Inner, InListOf
  <2>6. q + 1 = Len(tt) => q # Len(tt) BY <1>1
  <2>. QED BY <2>1, <2>2, <2>4, <2>5, <2>6
<1>4. q \in 1 .. Len(tt) /\ \A k \in 1 .. q - 1 : k \in 1 .. Len(tt) /\ k # q
  BY <1>1 DEF Inner
<1>5. NamesOf(tt[q]) = N BY DEF SameFrame, NamesOf
<1>6. /\ Arranged(st, ds) /\ Untold(ds, src)
      /\ \A i \in 1 .. m : /\ ds[i].filled <=> ds[i].value \notin Open(st)
                           /\ ds[i].filled => Told(ds[i], src[ds[i].value])
      /\ \A i \in 1 .. m, k \in 1 .. n :
           Recipient(st, ds, k, i) => Gathers(ds[i], st, k, src)
  BY DEF ByName
<1>7. /\ es \in Seq(Detail) /\ Len(es) = m
      /\ \A i \in 1 .. m : i # m => es[i] = ds[i]
      /\ \A i \in 1 .. m : es[i].value = ds[i].value
      /\ ~es[m].filled
  BY <1>2 DEF LastChanged
<1>8. Open(tt) = Open(st)
  <2>1. ASSUME NEW v PROVE v \in Open(tt) => v \in Open(st)
    <3>1. SUFFICES ASSUME NEW k \in 1 .. Len(tt), v \in NamesOf(tt[k])
                   PROVE  v \in Open(st)
      BY OpenIs
    <3>2. CASE k = q BY <1>5, <3>1, <3>2, OpenIs
    <3>3. CASE k \in 1 .. n /\ tt[k] = st[k] BY <3>1, <3>3, OpenIs
    <3>4. tt[k].kind \notin {"range", "for"} BY <3>1 DEF NamesOf, Branching
    <3>. QED BY <1>3, <3>2, <3>3, <3>4
  <2>2. ASSUME NEW v PROVE v \in Open(st) => v \in Open(tt)
    <3>1. SUFFICES ASSUME NEW k \in 1 .. n, v \in NamesOf(st[k]) PROVE v \in Open(tt)
      BY OpenIs
    <3>2. CASE k = q BY <1>4, <1>5, <3>1, <3>2, OpenIs
    <3>3. CASE k < q
      <4>1. k \in 1 .. q - 1 BY <1>1, <3>3
      <4>. QED BY <1>4, <3>1, <4>1, OpenIs
    <3>4. ~(k > q) BY <1>1, <3>1 DEF NamesOf, Branching
    <3>. QED BY <1>1, <3>2, <3>3, <3>4
  <2>. QED BY <2>1, <2>2
<1>9. Values(es) = Values(ds) BY <1>7 DEF Values
<1>10. Open(st) \subseteq Value /\ Open(st) \subseteq Values(ds) /\ N \subseteq Open(st)
  <2>1. N \subseteq Open(st) BY OpenIs
  <2>. QED BY <1>6, <2>1, OpenValues
<1>11. Untold(es, sr) BY <1>6, <1>9, <1>10 DEF Untold
<1>12. ASSUME NEW k \in 1 .. n, st[k].kind \in Branching, k < q
       PROVE  st[q].kind = "if" /\ N = {st[q].test} /\ st[k].test # st[q].test
  <2>1. st[q].kind # "case" BY <1>6, <1>12 DEF Arranged, BranchOK
  <2>2. st[q].kind = "if" /\ N = {st[q].test} BY <2>1 DEF NamesOf, Branching
  <2>3. q # k BY <1>1, <1>12
  <2>4. st[q].kind \in Branching BY <2>2 DEF Branching
  <2>. QED BY <1>6, <1>12, <2>2, <2>3, <2>4 DEF Arranged, BranchOK
<1>13. Arranged(tt, es)
  <2>1. ASSUME NEW k \in 1 .. Len(tt) PROVE FrameOK(tt[k], k, Len(tt), es)
    <3>1. CASE k < q /\ k \in 1 .. n /\ tt[k] = st[k]
      <4>1. st[k].kind \notin {"if", "case"} /\ FrameOK(st[k], k, n, ds)
        BY <1>1, <1>6, <3>1 DEF Arranged
      <4>. QED BY <3>1, <4>1 DEF FrameOK
    <3>2. CASE k = q
      <4>1. FrameOK(st[q], q, n, ds) BY <1>6 DEF Arranged
      <4>. QED BY <1>7, <3>2, <4>1 DEF FrameOK, SameFrame
    <3>3. CASE tt[k].kind \in {"range", "for"} BY <3>3 DEF FrameOK
    <3>. QED BY <1>3, <3>1, <3>2, <3>3
  <2>2. BranchOK(tt)
    <3>1. \A k \in 1 .. Len(tt) : tt[k].kind \notin {"range", "for"} =>
            k \in 1 .. n /\ tt[k].kind = st[k].kind /\ tt[k].test = st[k].test
      BY <1>3 DEF SameFrame
    <3>2. BranchOK(st) BY <1>6 DEF Arranged
    <3>. QED BY ONLY <3>1, <3>2 DEF BranchOK, Branching
  <2>3. InListOf(tt) => tt[Len(tt) - 1].kind \in {"if", "case"}
    <3>1. q = Len(tt) => ~InListOf(tt) BY DEF SameFrame, InListOf
    <3>2. Inner(tt, q) => Len(tt) - 1 = q BY <1>1 DEF Inner
    <3>. QED BY <3>1, <3>2 DEF SameFrame
  <2>4. tt[1] = st[1] BY <1>1
  <2>. QED BY <1>6, <1>8, <1>9, <2>1, <2>2, <2>3, <2>4 DEF Arranged
<1>14. ASSUME NEW i \in 1 .. m
       PROVE  /\ es[i].filled <=> es[i].value \notin Open(tt)
              /\ es[i].filled => Told(es[i], sr[es[i].value])
  <2>1. CASE i = m
    <3>1. ds[m].value \in Open(st) BY <1>10
    <3>. QED BY <1>7, <1>8, <2>1, <3>1
  <2>2. CASE i # m
    <3>1. es[i] = ds[i] BY <1>7, <2>2
    <3>2. ds[i].value \in Value
      <4>1. ds[i] \in Detail BY ElementOfSeq
      <4>. QED BY <4>1 DEF Detail
    <3>3. ds[i].value \notin Open(st) => sr[ds[i].value] = src[ds[i].value]
      BY <1>10, <3>2
    <3>. QED BY <1>6, <1>8, <3>1, <3>3
  <2>. QED BY <2>1, <2>2
<1>15. ASSUME NEW i \in 1 .. m, NEW k \in 1 .. Len(tt), Recipient(tt, es, k, i)
       PROVE  Gathers(es[i], tt, k, sr)
  <2>1. CASE k = q
    <3>1. i = m
      <4>1. CASE tt[q].kind = "case" BY <1>7, <1>15, <2>1, <4>1 DEF Recipient, Branching
      <4>2. CASE tt[q].kind # "case"
        <5>1. ds[i].value = st[q].test BY <1>7, <1>15, <2>1, <4>2 DEF Recipient, SameFrame
        <5>2. N = {st[q].test} BY <4>2 DEF NamesOf, SameFrame, Branching
        <5>3. ds[m].value = st[q].test /\ m \in 1 .. m BY <1>2, <5>2
        <5>. QED BY <5>1, <5>3 DEF NoTwice
      <4>. QED BY <4>1, <4>2
    <3>. QED BY <2>1, <3>1
  <2>2. CASE k < q /\ k \in 1 .. n /\ tt[k] = st[k] /\ ~Inner(tt, k)
    <3>1. st[k].kind \notin {"if", "case"} BY <1>1, <2>2
    <3>2. st[k].kind \in Branching /\ es[i].value = st[k].test
      BY <1>15, <2>2, <3>1 DEF Recipient
    <3>3. st[q].kind = "if" /\ N = {st[q].test} /\ st[k].test # st[q].test
      BY <1>12, <2>2, <3>2
    <3>4. i # m BY <1>7, <3>2, <3>3
    <3>5. es[i] = ds[i] BY <1>7, <3>4
    <3>6. Recipient(st, ds, k, i) BY <3>2, <3>5 DEF Recipient
    <3>7. Gathers(ds[i], st, k, src) BY <1>6, <2>2, <3>6
    <3>8. ~Inner(st, k)
      <4>1. k + 1 = n => n - 1 = k BY <1>1, <2>2
      <4>. QED BY <1>6, <3>1, <4>1 DEF Inner, Arranged
    <3>9. NamesOf(st[k]) = {st[k].test} BY <3>1, <3>2 DEF NamesOf
    <3>10. \A v \in NamesOf(st[k]) : sr[v] = src[v]
      <4>1. st[k].test \in Open(st) BY <2>2, <3>9, OpenIs
      <4>. QED BY <1>10, <3>3, <3>9, <4>1
    <3>. HIDE DEF m, n, N
    <3>11. tt[k].block = st[k].block /\ NamesOf(tt[k]) = NamesOf(st[k]) BY <2>2
    <3>12. Gathers(ds[i], tt, k, sr)
      BY ONLY <2>2, <3>7, <3>8, <3>10, <3>11, GathersSame
    <3>. QED BY <3>5, <3>12
  <2>3. tt[k].kind \notin {"range", "for"} BY <1>15 DEF Recipient, Branching
  <2>. QED BY <1>3, <2>1, <2>2, <2>3
<1>. QED BY <1>7, <1>11, <1>13, <1>14, <1>15 DEF ByName

-----------------------------------------------------------------------------
(* A statement more                                                         *)

LEMMA FollowsMore ==
  ASSUME NEW text \in Seq(Item), NEW s \in Seq(Effect), NEW item \in Item,
         NEW e \in Effect, Follows(text, s),
         item.id = e.id, item.loop = e.loop, e.reads <=> item.var # None
  PROVE  Follows(text \o <<item>>, Append(s, e))
<1>1. Len(text) \in Nat /\ Len(s) \in Nat /\ Len(text) = Len(s)
  BY LenProperties DEF Follows
<1>2. PICK t, r : t = text \o <<item>> /\ r = Append(s, e) OBVIOUS
<1>3. /\ Len(t) = Len(s) + 1 /\ t[Len(s) + 1] = item
      /\ \A i \in 1 .. Len(s) : t[i] = text[i]
  <2>1. PICK x : x = <<item>> OBVIOUS
  <2>2. x \in Seq(Item) /\ Len(x) = 1 /\ x[1] = item BY <2>1, SeqOfOne
  <2>3. /\ Len(text \o x) = Len(text) + Len(x)
        /\ \A i \in 1 .. Len(text) + Len(x) :
             (text \o x)[i] = IF i <= Len(text) THEN text[i] ELSE x[i - Len(text)]
    <3>1. text \in Seq(Item) /\ x \in Seq(Item) BY <2>2
    <3>. QED BY ONLY <3>1, ConcatProperties
  <2>4. (Len(s) + 1) - Len(s) = 1 /\ ~(Len(s) + 1 <= Len(s)) BY <1>1
  <2>. QED BY <1>1, <1>2, <2>1, <2>2, <2>3, <2>4
<1>4. /\ Len(r) = Len(s) + 1 /\ r[Len(s) + 1] = e
      /\ \A i \in 1 .. Len(s) : r[i] = s[i]
  BY <1>1, <1>2, AppendProperties
<1>5. \A i \in 1 .. Len(s) : /\ text[i].id = s[i].id /\ text[i].loop = s[i].loop
                             /\ s[i].reads <=> text[i].var # None
  BY DEF Follows
<1>6. \A i \in 1 .. Len(s) + 1 : i \in 1 .. Len(s) \/ i = Len(s) + 1 BY <1>1
<1>7. ASSUME NEW i \in 1 .. Len(s) + 1
      PROVE  /\ t[i].id = r[i].id /\ t[i].loop = r[i].loop
             /\ r[i].reads <=> t[i].var # None
  <2>1. CASE i \in 1 .. Len(s) BY <1>3, <1>4, <1>5, <2>1
  <2>2. CASE i = Len(s) + 1 BY <1>3, <1>4, <2>2
  <2>. QED BY <1>6, <2>1, <2>2
<1>8. Follows(t, r) BY <1>3, <1>4, <1>7 DEF Follows
<1>. QED BY <1>2, <1>8

LEMMA SilentMore ==
  ASSUME NEW s \in Seq(Effect), NEW e \in Effect, Silent(s), ~e.reads
  PROVE  Silent(Append(s, e))
<1>1. Len(s) \in Nat BY LenProperties
<1>2. PICK r : r = Append(s, e) OBVIOUS
<1>3. /\ Len(r) = Len(s) + 1 /\ r[Len(s) + 1] = e
      /\ \A i \in 1 .. Len(s) : r[i] = s[i]
  BY <1>1, <1>2, AppendProperties
<1>4. \A i \in 1 .. Len(s) + 1 : i \in 1 .. Len(s) \/ i = Len(s) + 1 BY <1>1
<1>5. Silent(r) BY <1>3, <1>4 DEF Silent
<1>. QED BY <1>2, <1>5

(* The statement item, which the source executes as e for the names vs.       *)
SameEffectOf(item, e) ==
  item.id = e.id /\ item.loop = e.loop /\ (e.reads <=> item.var # None)

LEMMA RecordsMore ==
  ASSUME NEW text \in Seq(Item), NEW vs \in SUBSET Value,
         NEW src \in [Value -> Seq(Effect)], NEW sr,
         NEW item \in Item, NEW ef \in Effect, SameEffectOf(item, ef),
         \A v \in vs : sr[v] = Append(src[v], ef),
         NEW d, Records(d, text, vs, src),
         NEW e, e.method = "scalar" => vs \cap ListValue = {},
         e.method = "list" => vs \subseteq ListValue,
         e.method = "none" => d.method = "none" /\ ~ef.reads
  PROVE  Records(e, text \o <<item>>, vs, sr)
<1>1. ASSUME NEW v \in vs
      PROVE  /\ Follows(text \o <<item>>, sr[v])
             /\ e.method = "none" => Silent(sr[v])
  <2>1. v \in Value /\ src[v] \in Seq(Effect) /\ sr[v] = Append(src[v], ef) BY <1>1
  <2>2. Follows(text, src[v]) /\ (d.method = "none" => Silent(src[v]))
    BY <1>1 DEF Records
  <2>3. Follows(text \o <<item>>, Append(src[v], ef))
    BY <2>1, <2>2, FollowsMore DEF SameEffectOf
  <2>4. e.method = "none" => Silent(Append(src[v], ef)) BY <2>1, <2>2, SilentMore
  <2>. QED BY <2>1, <2>3, <2>4
<1>. QED BY <1>1 DEF Records

LEMMA ExecutedIs ==
  ASSUME IInv, NEW reads \in BOOLEAN, NEW loop \in Nat, Executed(reads, loop)
  PROVE  \E ef \in Effect :
           /\ ef.id = Id /\ ef.loop = loop /\ (ef.reads <=> reads)
           /\ \A v \in Value : source'[v] = IF v \in Here.path THEN Append(source[v], ef)
                                            ELSE source[v]
<1>1. PICK ef : ef = [id |-> Id, reads |-> reads, loop |-> loop] OBVIOUS
<1>2. Id \in Nat BY Facts
<1>3. ef \in Effect /\ ef.id = Id /\ ef.loop = loop BY <1>1, <1>2 DEF Effect
<1>4. ef.reads = reads BY <1>1
<1>5. \A v \in Value : source'[v] = IF v \in Here.path THEN Append(source[v], ef)
                                    ELSE source[v]
  BY <1>1 DEF Executed
<1>. QED BY <1>3, <1>4, <1>5

(* How the last detail is read.                                             *)
LastRead(es, ds, method, isFor) ==
  /\ es \in Seq(Detail) /\ Len(es) = Len(ds)
  /\ \A i \in 1 .. Len(ds) : i # Len(ds) => es[i] = ds[i]
  /\ SameText(es[Len(ds)], ds[Len(ds)])
  /\ es[Len(ds)].method = method /\ es[Len(ds)].isFor = isFor

LEMMA LastReadIs ==
  ASSUME NEW ds \in Seq(Detail), ds # << >>, NEW method \in {"none", "scalar", "list"},
         NEW isFor \in BOOLEAN, NEW e,
         e = [ds[Len(ds)] EXCEPT !.method = method, !.isFor = isFor]
  PROVE  LastRead([ds EXCEPT ![Len(ds)] = e], ds, method, isFor)
<1>1. Len(ds) \in Nat \ {0} BY EmptySeq, LenProperties
<1>2. ds[Len(ds)] \in Detail BY <1>1, ElementOfSeq
<1>3. e \in Detail /\ SameText(e, ds[Len(ds)]) /\ e.method = method
  BY <1>2 DEF Detail, SameText
<1>4. e.isFor = isFor BY <1>2 DEF Detail
<1>5. [ds EXCEPT ![Len(ds)] = e] \in Seq(Detail) BY <1>1, <1>3, ExceptSeq
<1>6. PICK es : es = [ds EXCEPT ![Len(ds)] = e] OBVIOUS
<1>7. /\ es \in Seq(Detail) /\ Len(es) = Len(ds)
      /\ \A k \in 1 .. Len(ds) : es[k] = IF k = Len(ds) THEN e ELSE ds[k]
  BY <1>1, <1>5, <1>6, LenProperties
<1>8. es[Len(ds)] = e /\ \A i \in 1 .. Len(ds) : i # Len(ds) => es[i] = ds[i]
  BY <1>1, <1>7
<1>9. LastRead(es, ds, method, isFor) BY <1>3, <1>4, <1>7, <1>8 DEF LastRead
<1>. QED BY <1>6, <1>9

LEMMA WithMethodLast ==
  ASSUME NEW ds \in Seq(Detail), ds # << >>, NEW m \in {"scalar", "list"}
  PROVE  LastRead(WithMethod(ds, m), ds,
                  IF ds[Len(ds)].method = "none" THEN m ELSE ds[Len(ds)].method,
                  ds[Len(ds)].isFor)
<1>1. Len(ds) \in Nat \ {0} BY EmptySeq, LenProperties
<1>2. ds[Len(ds)] \in Detail BY <1>1, ElementOfSeq
<1>3. ds[Len(ds)].isFor \in BOOLEAN BY <1>2 DEF Detail
<1>4. CASE ds[Len(ds)].method # "none"
  <2>1. WithMethod(ds, m) = ds BY <1>4 DEF WithMethod
  <2>. QED BY <1>4, <2>1 DEF LastRead, SameText
<1>5. CASE ds[Len(ds)].method = "none"
  <2>1. PICK b : b = ds[Len(ds)].isFor OBVIOUS
  <2>2. PICK e : e = [ds[Len(ds)] EXCEPT !.method = m] OBVIOUS
  <2>3. e = [ds[Len(ds)] EXCEPT !.method = m, !.isFor = b] BY <1>2, <2>1, <2>2 DEF Detail
  <2>4. WithMethod(ds, m) = [ds EXCEPT ![Len(ds)] = e] BY <1>5, <2>2 DEF WithMethod
  <2>5. LastRead([ds EXCEPT ![Len(ds)] = e], ds, m, b)
    BY <1>3, <2>1, <2>3, LastReadIs
  <2>. QED BY <1>5, <2>1, <2>4, <2>5
<1>. QED BY <1>4, <1>5

(* A list loop: its method, unless there is another, and its kind.            *)
LEMMA ListLast ==
  ASSUME NEW ds \in Seq(Detail), ds # << >>, NEW b \in BOOLEAN, NEW cs,
         cs = WithMethod(ds, "list")
  PROVE  /\ cs # << >>
         /\ LastRead([cs EXCEPT ![Len(cs)].isFor = b], ds,
                     IF ds[Len(ds)].method = "none" THEN "list" ELSE ds[Len(ds)].method, b)
<1>1. Len(ds) \in Nat \ {0} BY EmptySeq, LenProperties
<1>2. ds[Len(ds)] \in Detail BY <1>1, ElementOfSeq
<1>3. PICK m : m = IF ds[Len(ds)].method = "none" THEN "list" ELSE ds[Len(ds)].method
  OBVIOUS
<1>4. m \in {"none", "scalar", "list"} BY <1>2, <1>3 DEF Detail
<1>5. LastRead(cs, ds, m, ds[Len(ds)].isFor) BY <1>3, WithMethodLast
<1>6. /\ cs \in Seq(Detail) /\ Len(cs) = Len(ds) /\ cs # << >>
      /\ \A i \in 1 .. Len(ds) : i # Len(ds) => cs[i] = ds[i]
      /\ SameText(cs[Len(ds)], ds[Len(ds)]) /\ cs[Len(ds)].method = m
  BY <1>1, <1>5, EmptySeq DEF LastRead
<1>7. cs[Len(cs)] \in Detail BY <1>1, <1>6, ElementOfSeq
<1>8. PICK e : e = [cs[Len(cs)] EXCEPT !.isFor = b] OBVIOUS
<1>9. e = [cs[Len(cs)] EXCEPT !.method = m, !.isFor = b] BY <1>6, <1>7, <1>8 DEF Detail
<1>10. PICK es : es = [cs EXCEPT ![Len(cs)].isFor = b] OBVIOUS
<1>11. es = [cs EXCEPT ![Len(cs)] = e] BY <1>8, <1>10
<1>12. LastRead(es, cs, m, b) BY <1>4, <1>6, <1>9, <1>11, LastReadIs
<1>13. LastRead(es, ds, m, b)
  <2>1. \A i \in 1 .. Len(ds) : i # Len(ds) => es[i] = ds[i] BY <1>6, <1>12 DEF LastRead
  <2>2. SameText(es[Len(ds)], ds[Len(ds)]) BY <1>6, <1>12 DEF LastRead, SameText
  <2>. QED BY <1>6, <1>12, <2>1, <2>2 DEF LastRead
<1>. QED BY <1>3, <1>6, <1>10, <1>13

-----------------------------------------------------------------------------
(* The body that is being met                                               *)

LEMMA BlockMore ==
  ASSUME NEW A, NEW b \in Seq(A), NEW c \in A
  PROVE  /\ Append(b, c) \in Seq(A) /\ Len(Append(b, c)) = Len(b) + 1
         /\ Append(b, c)[Len(b) + 1] = c
         /\ \A i \in 1 .. Len(b) : Append(b, c)[i] = b[i]
         /\ \A i \in 1 .. Len(b) + 1 : i \in 1 .. Len(b) \/ i = Len(b) + 1
         /\ Len(b) \in Nat
<1>1. Len(b) \in Nat BY LenProperties
<1>. QED BY <1>1, AppendProperties

(* A statement, after which d is read as e.                                 *)
LEMMA BodyMore ==
  ASSUME NEW b \in Seq(Child), NEW c \in Child, NEW d, BodyOf(d, b), NEW e,
         e.value = d.value,
         d.method = "list" => e.method = "list" /\ e.isFor = d.isFor,
         c.kind = "stmt", c.items \in Seq(PlainItem(d.value))
  PROVE  BodyOf(e, Append(b, c))
<1>1. PICK t : t = Append(b, c) OBVIOUS
<1>2. /\ Len(t) = Len(b) + 1 /\ t[Len(b) + 1] = c
      /\ \A i \in 1 .. Len(b) : t[i] = b[i]
      /\ \A i \in 1 .. Len(b) + 1 : i \in 1 .. Len(b) \/ i = Len(b) + 1
  BY <1>1, BlockMore
<1>3. ASSUME NEW i \in 1 .. Len(b)
      PROVE  \/ t[i].kind = "stmt" /\ t[i].items \in Seq(PlainItem(e.value))
             \/ /\ e.method = "list" /\ t[i].kind = ListKind(e)
                /\ LoopOf(e, t[i].items)
  BY <1>2 DEF BodyOf, ListKind, LoopOf
<1>4. ~IsList(c) BY DEF IsList
<1>5. \A i, j \in 1 .. Len(t) : IsList(t[i]) /\ IsList(t[j]) => i = j
  BY <1>2, <1>4 DEF BodyOf
<1>6. ASSUME NEW i \in 1 .. Len(t)
      PROVE  \/ t[i].kind = "stmt" /\ t[i].items \in Seq(PlainItem(e.value))
             \/ /\ e.method = "list" /\ t[i].kind = ListKind(e)
                /\ LoopOf(e, t[i].items)
  <2>1. CASE i \in 1 .. Len(b) BY <1>3, <2>1
  <2>2. CASE i = Len(b) + 1 BY <1>2, <2>2
  <2>. QED BY <1>2, <2>1, <2>2
<1>7. BodyOf(e, t) BY <1>5, <1>6 DEF BodyOf
<1>. QED BY <1>1, <1>7

(* Before its list loop a body fits any detail of the name.                  *)
LEMMA BodyNoList ==
  ASSUME NEW b, NEW d, BodyOf(d, b), NoListIn(b), NEW e, e.value = d.value
  PROVE  BodyOf(e, b)
BY DEF BodyOf, NoListIn, IsList, ListKind

LEMMA BodyList ==
  ASSUME NEW b \in Seq(Child), NEW c \in Child, NEW d, BodyOf(d, b), NoListIn(b),
         d.method = "list", c.kind = ListKind(d), LoopOf(d, c.items)
  PROVE  BodyOf(d, Append(b, c))
<1>1. PICK t : t = Append(b, c) OBVIOUS
<1>2. /\ Len(t) = Len(b) + 1 /\ t[Len(b) + 1] = c
      /\ \A i \in 1 .. Len(b) : t[i] = b[i]
      /\ \A i \in 1 .. Len(b) + 1 : i \in 1 .. Len(b) \/ i = Len(b) + 1
  BY <1>1, BlockMore
<1>3. \A i \in 1 .. Len(b) :
         \/ t[i].kind = "stmt" /\ t[i].items \in Seq(PlainItem(d.value))
         \/ d.method = "list" /\ t[i].kind = ListKind(d) /\ LoopOf(d, t[i].items)
  BY <1>2 DEF BodyOf
<1>4. \A i \in 1 .. Len(b) : ~IsList(t[i]) BY <1>2 DEF NoListIn
<1>5. \A i, j \in 1 .. Len(t) : IsList(t[i]) /\ IsList(t[j]) => i = j
  BY <1>2, <1>4
<1>6. ASSUME NEW i \in 1 .. Len(t)
      PROVE  \/ t[i].kind = "stmt" /\ t[i].items \in Seq(PlainItem(d.value))
             \/ d.method = "list" /\ t[i].kind = ListKind(d) /\ LoopOf(d, t[i].items)
  <2>1. CASE i \in 1 .. Len(b) BY <1>3, <2>1
  <2>2. CASE i = Len(b) + 1 BY <1>2, <2>2
  <2>. QED BY <1>2, <2>1, <2>2
<1>7. BodyOf(d, t) BY <1>5, <1>6 DEF BodyOf
<1>. QED BY <1>1, <1>7

(* The body of the innermost if or case goes to the last detail.              *)
LEMMA WorkFacts ==
  ASSUME NEW st \in Seq(Frame), NEW ds \in Seq(Detail), NEW src, ByName(st, ds, src),
         NEW q \in 1 .. Len(st), st[q].kind \in {"if", "case"},
         st[q].kind = "if" /\ ds # << >> => st[q].test = ds[Len(ds)].value
  PROVE  /\ ds # << >> /\ Len(ds) \in Nat \ {0} /\ ds[Len(ds)] \in Detail
         /\ NamesOf(st[q]) = st[q].path /\ st[q].path # {} /\ st[q].path \in SUBSET Value
         /\ ds[Len(ds)].value \in NamesOf(st[q]) /\ ~ds[Len(ds)].filled
         /\ Gathers(ds[Len(ds)], st, q, src)
<1>1. st[q] \in Frame BY ElementOfSeq
<1>2. Arranged(st, ds) BY DEF ByName
<1>3. FrameOK(st[q], q, Len(st), ds) BY <1>2 DEF Arranged
<1>4. NamesOf(st[q]) = st[q].path /\ st[q].path # {}
  <2>1. CASE st[q].kind = "if"
    BY <1>3, <2>1 DEF FrameOK, NamesOf, Branching
  <2>2. CASE st[q].kind = "case" BY <1>3, <2>2 DEF FrameOK, NamesOf
  <2>. QED BY <2>1, <2>2
<1>5. st[q].path \in SUBSET Value BY <1>1 DEF Frame
<1>6. NamesOf(st[q]) \subseteq Open(st) /\ Open(st) \subseteq Values(ds)
  <2>1. NamesOf(st[q]) \subseteq Open(st) BY OpenIs
  <2>. QED BY <1>2, <2>1 DEF Arranged
<1>7. PICK v \in NamesOf(st[q]) : TRUE BY <1>4
<1>8. PICK i \in 1 .. Len(ds) : v = ds[i].value BY <1>6, <1>7, ValuesAre
<1>9. Len(ds) \in Nat \ {0} /\ ds # << >> /\ Len(ds) \in 1 .. Len(ds) /\ i <= Len(ds)
  <2>1. Len(ds) \in Nat BY LenProperties
  <2>. QED BY <1>8, <2>1, EmptySeq
<1>10. ds[Len(ds)] \in Detail BY <1>9, ElementOfSeq
<1>11. ds[Len(ds)].value \in NamesOf(st[q]) /\ Recipient(st, ds, q, Len(ds))
  <2>1. CASE st[q].kind = "if"
    BY <1>9, <2>1 DEF NamesOf, Branching, Recipient
  <2>2. CASE st[q].kind = "case"
    <3>1. \A k, j \in 1 .. Len(ds) :
            k <= j /\ ds[k].value \in st[q].path => ds[j].value \in st[q].path
      BY <1>3, <2>2 DEF FrameOK
    <3>2. ds[i].value \in st[q].path BY <1>4, <1>7, <1>8
    <3>3. ds[Len(ds)].value \in st[q].path BY <1>9, <3>1, <3>2
    <3>. QED BY <1>4, <2>2, <3>3 DEF Recipient
  <2>. QED BY <2>1, <2>2
<1>12. ~ds[Len(ds)].filled
  <2>1. ds[Len(ds)].value \in Open(st) BY <1>6, <1>11
  <2>. QED BY <1>9, <2>1 DEF ByName
<1>13. Gathers(ds[Len(ds)], st, q, src) BY <1>9, <1>11 DEF ByName
<1>. QED BY <1>4, <1>5, <1>9, <1>10, <1>11, <1>12, <1>13

-----------------------------------------------------------------------------
(* The steps in a body                                                      *)

LEMMA TestIsLast ==
  ASSUME IInv, forms = {}, NEW k \in 1 .. Top, stack[k].kind = "if", details # << >>
  PROVE  stack[k].test = details[Len(details)].value
<1>1. OwnFrame(stack[k], Resolved) BY Facts DEF StackOK, Clean
<1>. QED BY <1>1 DEF OwnFrame, Resolved

LEMMA InTestHere ==
  ASSUME IInv, equal, FormsHere = {}, Here.kind \notin {"range", "for"}
  PROVE  Here.kind \in {"if", "case"} /\ ~InTail
<1>1. InTest /\ ~InTail BY DEF FormsHere, Outside
<1>2. PICK k \in 1 .. Top : stack[k].kind \in {"if", "case"} BY <1>1 DEF InTest
<1>3. k = Top \/ Here.kind \in {"range", "for"} BY <1>2, Facts DEF Nested
<1>. QED BY <1>1, <1>2, <1>3 DEF Here

(* The frame that gets a child, if it is not an else.                        *)
LEMMA ChildFrame ==
  ASSUME NEW st \in Seq(Frame), Len(st) # 0, NEW c \in Child,
         st[Len(st)].kind # "else", NEW tt, tt = WithChild(st, c)
  PROVE  /\ tt \in Seq(Frame) /\ Len(tt) = Len(st) /\ Len(st) \in Nat
         /\ \A k \in 1 .. Len(st) - 1 : tt[k] = st[k]
         /\ SameFrame(tt[Len(st)], st[Len(st)])
         /\ tt[Len(st)].number = st[Len(st)].number
         /\ tt[Len(st)].block = Append(st[Len(st)].block, c)
<1>1. Len(st) \in Nat \ {0} BY LenProperties
<1>2. st[Len(st)] \in Frame BY <1>1, ElementOfSeq
<1>3. PICK b : b = Append(st[Len(st)].block, c) OBVIOUS
<1>4. /\ tt \in Seq(Frame) /\ Len(tt) = Len(st)
      /\ \A k \in 1 .. Len(st) - 1 : tt[k] = st[k]
      /\ tt[Len(st)] = [st[Len(st)] EXCEPT !.block = b]
  BY <1>3, WithChildIs
<1>5. PICK f, g : f = st[Len(st)] /\ g = tt[Len(st)] OBVIOUS
<1>6. f \in Frame /\ g = [f EXCEPT !.block = b] BY <1>2, <1>4, <1>5
<1>7. g = [kind |-> f.kind, path |-> f.path, rest |-> f.rest, test |-> f.test,
           braced |-> f.braced, number |-> f.number, block |-> b]
  BY ONLY <1>6 DEF Frame
<1>8. g.kind = f.kind /\ g.path = f.path /\ g.test = f.test BY ONLY <1>7
<1>9. g.number = f.number /\ g.block = b BY ONLY <1>7
<1>10. g.braced = f.braced BY ONLY <1>7
<1>. QED BY <1>1, <1>3, <1>4, <1>5, <1>8, <1>9, <1>10 DEF SameFrame

LEMMA StatementNames ==
  ASSUME IInv, equal, forms' = {}, ByName(stack, details, source),
         NEW reads \in BOOLEAN, Statement(reads)
  PROVE  ByName(stack', details', source')
<1>. DEFINE m == Len(details)
            N == NamesOf(Here)
<1>1. forms = {} /\ FormsHere = {} BY DEF Statement
<1>2. Here.kind \in {"if", "case"} /\ ~InTail
  BY <1>1, InTestHere DEF Statement
<1>3. /\ stack \in Seq(Frame) /\ Nested(stack) /\ Top \in Nat \ {0} /\ Top = Len(stack)
      /\ Here = stack[Top] /\ Here.block \in Seq(Child) /\ Top \in 1 .. Top
      /\ details \in Seq(Detail) /\ NoTwice(details)
      /\ source \in [Value -> Seq(Effect)] /\ Id \in Nat
  BY Facts
<1>4. /\ details # << >> /\ m \in Nat \ {0} /\ details[m] \in Detail
      /\ N = Here.path /\ N # {} /\ N \in SUBSET Value
      /\ details[m].value \in N /\ ~details[m].filled
      /\ Gathers(details[m], stack, Top, source)
  <2>1. Here.kind = "if" /\ details # << >> => Here.test = details[m].value
    BY <1>1, <1>3, TestIsLast
  <2>. HIDE DEF m
  <2>. QED BY <1>2, <1>3, <2>1, WorkFacts DEF m
<1>5. PICK d : d = details[m] OBVIOUS
<1>6. PICK item : item = [id |-> Id, loop |-> 0, header |-> FALSE,
                          var |-> IF reads THEN Resolved ELSE None]
  OBVIOUS
<1>7. d.value \in Value /\ Resolved = d.value
  BY <1>4, <1>5 DEF Detail, Resolved
<1>8. /\ item \in PlainItem(d.value) /\ item \in Item
      /\ item.id = Id /\ item.loop = 0 /\ (reads <=> item.var # None)
  BY <1>3, <1>6, <1>7, CommonInfoAssumption DEF PlainItem, Item
<1>9. PICK c : c = Child1("stmt", item) OBVIOUS
<1>10. c.kind = "stmt" /\ c.items = <<item>> /\ c.items \in Seq(PlainItem(d.value))
       /\ c \in Child
  <2>1. <<item>> \in Seq(PlainItem(d.value)) /\ <<item>> \in Seq(Item)
    BY <1>8, SeqOfOne
  <2>. QED BY <1>9, <2>1 DEF Child1, Child
<1>11. stack' = WithChild(stack, c) BY <1>6, <1>9 DEF Statement
<1>12. PICK tt : tt = stack' OBVIOUS
<1>13. /\ tt \in Seq(Frame) /\ Len(tt) = Top
       /\ \A k \in 1 .. Top - 1 : tt[k] = stack[k]
       /\ SameFrame(tt[Top], Here) /\ tt[Top].block = Append(Here.block, c)
  BY <1>2, <1>3, <1>10, <1>11, <1>12, ChildFrame
<1>14. PICK es : es = details' OBVIOUS
<1>15. /\ es \in Seq(Detail) /\ Len(es) = m
       /\ \A i \in 1 .. m : i # m => es[i] = details[i]
       /\ SameText(es[m], d) /\ es[m].isFor = d.isFor
       /\ es[m].method = IF reads /\ d.method = "none" THEN "scalar" ELSE d.method
  <2>1. CASE reads
    <3>1. es = WithMethod(details, "scalar") BY <1>14, <2>1 DEF Statement
    <3>2. LastRead(es, details, IF d.method = "none" THEN "scalar" ELSE d.method, d.isFor)
      BY <1>3, <1>4, <1>5, <3>1, WithMethodLast
    <3>. QED BY <1>5, <2>1, <3>2 DEF LastRead
  <2>2. CASE ~reads BY <1>3, <1>5, <1>14, <2>2 DEF Statement, SameText
  <2>. QED BY <2>1, <2>2
<1>16. PICK e : e = es[m] OBVIOUS
<1>17. /\ e.value = d.value /\ ~e.filled
       /\ NoBody(d) => NoBody(e)
       /\ e.isFor = d.isFor
       /\ e.method = IF reads /\ d.method = "none" THEN "scalar" ELSE d.method
  BY <1>4, <1>5, <1>15, <1>16 DEF SameText, NoBody
<1>18. PICK ef \in Effect :
         /\ ef.id = Id /\ ef.loop = 0 /\ (ef.reads <=> reads)
         /\ \A v \in Value : source'[v] = IF v \in Here.path THEN Append(source[v], ef)
                                          ELSE source[v]
  <2>1. 0 \in Nat /\ Executed(reads, 0) BY DEF Statement
  <2>. QED BY <2>1, ExecutedIs
<1>. HIDE DEF m, N
<1>19. TextAt(stack, Top) = Flat(Here.block) /\ TextAt(tt, Top) = Flat(tt[Top].block)
  <2>1. Top + 1 # Top BY <1>3
  <2>. QED BY <1>3, <1>13, <2>1 DEF TextAt, Inner
<1>20. Flat(tt[Top].block) = Flat(Here.block) \o <<item>> /\ Flat(Here.block) \in Seq(Item)
  <2>1. Here.block \in Seq(ChildOf(Item)) /\ c \in ChildOf(Item) BY <1>3, <1>10, ChildOfItem
  <2>. QED BY <1>10, <1>13, <2>1, FlatAppend, FlatType
<1>21. /\ NoBody(d) /\ BodyOf(d, Here.block)
       /\ Records(d, Flat(Here.block), N, source)
  BY <1>3, <1>4, <1>5, <1>19 DEF Gathers, N
<1>22. Records(e, Flat(Here.block) \o <<item>>, N, source')
  <2>1. SameEffectOf(item, ef) BY <1>8, <1>18 DEF SameEffectOf
  <2>2. \A v \in N : source'[v] = Append(source[v], ef) BY <1>4, <1>18
  <2>3. reads => N \subseteq Value \ ListValue
    BY <1>4 DEF Statement, Tested
  <2>4. d.method = "scalar" => N \cap ListValue = {} BY <1>21 DEF Records
  <2>5. d.method = "list" => N \subseteq ListValue BY <1>21 DEF Records
  <2>6. e.method = "scalar" => N \cap ListValue = {} BY <1>17, <2>3, <2>4
  <2>7. e.method = "list" => N \subseteq ListValue BY <1>17, <2>5
  <2>8. e.method = "none" => d.method = "none" /\ ~ef.reads BY <1>17, <1>18
  <2>9. PICK sr : sr = source' OBVIOUS
  <2>10. \A v \in N : sr[v] = Append(source[v], ef) BY <2>2, <2>9
  <2>11. Records(e, Flat(Here.block) \o <<item>>, N, sr)
    BY <1>3, <1>4, <1>8, <1>20, <1>21, <2>1, <2>6, <2>7, <2>8, <2>10, RecordsMore
  <2>. QED BY <2>9, <2>11
<1>23. NamesOf(tt[Top]) = N BY <1>13 DEF N, SameFrame, NamesOf
<1>24. BodyOf(e, tt[Top].block)
  <2>1. d.method = "list" => e.method = "list" /\ e.isFor = d.isFor BY <1>17
  <2>2. PICK b : b = Here.block OBVIOUS
  <2>3. b \in Seq(Child) /\ BodyOf(d, b) /\ tt[Top].block = Append(b, c)
    BY <1>3, <1>13, <1>21, <2>2
  <2>4. e.value = d.value BY <1>17
  <2>5. BodyOf(e, Append(b, c)) BY ONLY <1>10, <2>1, <2>3, <2>4, BodyMore
  <2>. QED BY <2>3, <2>5
<1>25. ~Inner(tt, Top)
  <2>1. Top + 1 # Top BY <1>3
  <2>. QED BY <1>13, <2>1 DEF Inner
<1>29. PICK sr : sr = source' OBVIOUS
<1>26. Gathers(e, tt, Top, sr)
  <2>1. NoBody(e) BY <1>17, <1>21
  <2>2. Records(e, TextAt(tt, Top), NamesOf(tt[Top]), sr)
    BY <1>19, <1>20, <1>22, <1>23, <1>29
  <2>. QED BY <1>24, <1>25, <2>1, <2>2 DEF Gathers
<1>27. LastChanged(es, details)
  <2>1. es[m].value = details[m].value /\ ~es[m].filled BY <1>5, <1>16, <1>17
  <2>. QED BY <1>15, <2>1 DEF LastChanged, m
<1>28. ~tt[Top].braced /\ tt[Top].kind = "case" =>
         Len(tt[Top].block) + (Len(tt) - Top) <= 1
  <2>1. SUFFICES ASSUME ~tt[Top].braced, tt[Top].kind = "case"
                 PROVE  Len(tt[Top].block) + (Len(tt) - Top) <= 1
    OBVIOUS
  <2>2. Here.block = << >> BY <1>2, <1>13, <2>1 DEF InTail, SameFrame
  <2>3. Len(Here.block) = 0 BY <1>3, <2>2, EmptySeq
  <2>4. Len(tt[Top].block) = 1
    <3>1. Len(Append(Here.block, c)) = Len(Here.block) + 1 BY <1>3, <1>10, BlockMore
    <3>. QED BY <1>13, <2>3, <3>1
  <2>. QED BY <1>3, <1>13, <2>4
<1>30. \A v \in Value \ N : sr[v] = source[v] BY <1>4, <1>18, <1>29
<1>31. ByName(tt, es, sr)
  <2>1. Gathers(es[Len(details)], tt, Top, sr) BY <1>16, <1>26 DEF m
  <2>2. details[Len(details)].value \in NamesOf(stack[Top])
        /\ \A v \in Value \ NamesOf(stack[Top]) : sr[v] = source[v]
    BY <1>3, <1>4, <1>30 DEF m, N
  <2>3. /\ stack[Top].kind \in {"if", "case"} /\ Top \in 1 .. Len(stack)
        /\ Len(tt) \in Nat /\ Top = Len(tt) /\ SameFrame(tt[Top], stack[Top])
    BY <1>2, <1>3, <1>13
  <2>. QED BY <1>3, <1>4, <1>13, <1>27, <1>28, <2>1, <2>2, <2>3, WorkOK
<1>. QED BY <1>12, <1>14, <1>29, <1>31

LEMMA EnterListNames ==
  ASSUME IInv, equal, forms' = {}, ByName(stack, details, source),
         NEW kind \in {"range", "for"}, EnterList(kind)
  PROVE  ByName(stack', details', source')
<1>. DEFINE m == Len(details)
            N == NamesOf(Here)
<1>1. forms = {} /\ FormsHere = {} /\ FormsOfList(kind) = {} /\ source' = source
  BY DEF EnterList
<1>2. Here.kind \in {"if", "case"} /\ ~InTail
  BY <1>1, InTestHere DEF EnterList
<1>3. /\ stack \in Seq(Frame) /\ Nested(stack) /\ Top \in Nat \ {0} /\ Top = Len(stack)
      /\ Here = stack[Top] /\ Here.block \in Seq(Child) /\ Top \in 1 .. Top
      /\ details \in Seq(Detail) /\ NoTwice(details) /\ Id \in Nat \ {0}
  <2>1. Id # 0
    <3>1. visited \in Nat BY Facts
    <3>. QED BY <3>1 DEF Id
  <2>. QED BY <2>1, Facts
<1>4. /\ details # << >> /\ m \in Nat \ {0} /\ details[m] \in Detail
      /\ N = Here.path /\ N # {} /\ N \in SUBSET Value
      /\ details[m].value \in N /\ ~details[m].filled
      /\ Gathers(details[m], stack, Top, source)
  <2>1. Here.kind = "if" /\ details # << >> => Here.test = details[m].value
    BY <1>1, <1>3, TestIsLast
  <2>. HIDE DEF m
  <2>. QED BY <1>2, <1>3, <2>1, WorkFacts DEF m
<1>5. PICK d : d = details[m] OBVIOUS
<1>6. PICK f : f = [NewFrame(kind, Here.path) EXCEPT !.number = Id] OBVIOUS
<1>7. f.kind = kind /\ f.path = Here.path /\ f.number = Id /\ f.block = << >>
  BY <1>6 DEF NewFrame
<1>8. PICK tt : tt = stack' OBVIOUS
<1>9. /\ Len(tt) = Top + 1 /\ tt[Top + 1] = f
      /\ \A k \in 1 .. Top : tt[k] = stack[k]
  <2>1. tt = Append(stack, f) BY <1>6, <1>8 DEF EnterList
  <2>. QED BY <1>3, <2>1, AppendProperties
<1>10. SameFrame(tt[Top], Here) /\ tt[Top] = Here /\ Inner(tt, Top)
  BY <1>3, <1>7, <1>9 DEF SameFrame, Inner, InListOf
<1>11. PICK es : es = details' OBVIOUS
<1>12. PICK b \in BOOLEAN : b <=> kind = "for" OBVIOUS
<1>13. LastRead(es, details, IF d.method = "none" THEN "list" ELSE d.method, kind = "for")
  <2>1. PICK cs : cs = WithMethod(details, "list") OBVIOUS
  <2>2. (kind = "for") \in BOOLEAN OBVIOUS
  <2>3. /\ cs # << >>
        /\ LastRead([cs EXCEPT ![Len(cs)].isFor = (kind = "for")], details,
                    IF d.method = "none" THEN "list" ELSE d.method, kind = "for")
    BY <1>3, <1>4, <1>5, <2>1, <2>2, ListLast
  <2>4. es = [cs EXCEPT ![Len(cs)].isFor = (kind = "for")]
    BY <1>11, <2>1, <2>3 DEF EnterList
  <2>. QED BY <2>3, <2>4
<1>14. /\ es \in Seq(Detail) /\ Len(es) = m
       /\ \A i \in 1 .. m : i # m => es[i] = details[i]
       /\ SameText(es[m], d)
       /\ es[m].method = IF d.method = "none" THEN "list" ELSE d.method
       /\ es[m].isFor = (kind = "for")
  BY <1>5, <1>13 DEF LastRead
<1>15. PICK e : e = es[m] OBVIOUS
<1>. HIDE DEF m, N
<1>16. TextAt(stack, Top) = Flat(Here.block)
  <2>1. Top + 1 # Top BY <1>3
  <2>. QED BY <1>3, <2>1 DEF TextAt, Inner
<1>17. TextAt(tt, Top) = Flat(Here.block)
  <2>1. Flat(Here.block) \in Seq(Item) BY <1>3, ChildOfItem, FlatType
  <2>2. << >> \in Seq(ChildOf({})) OBVIOUS
  <2>3. Flat(<< >>) = << >> BY <2>2, FlatNothing
  <2>4. TextAt(tt, Top) = Flat(Here.block) \o << >>
    BY <1>7, <1>9, <1>10, <2>3 DEF TextAt
  <2>. QED BY <2>1, <2>4, ConcatEmptySeq
<1>18. /\ NoBody(d) /\ BodyOf(d, Here.block)
       /\ Records(d, Flat(Here.block), N, source)
  BY <1>3, <1>4, <1>5, <1>16 DEF Gathers, N
<1>19. N \subseteq ListValue BY <1>4 DEF EnterList, Tested
<1>20. e.method = "list" /\ e.value = d.value /\ ~e.filled /\ e.isFor = (kind = "for")
  <2>1. d.method # "scalar" BY <1>4, <1>18, <1>19 DEF Records
  <2>2. d.method \in {"none", "scalar", "list"} BY <1>4, <1>5 DEF Detail
  <2>. QED BY <1>4, <1>5, <1>14, <1>15, <2>1, <2>2 DEF SameText
<1>21. NoBody(e) BY <1>14, <1>15, <1>18 DEF SameText, NoBody
<1>22. NoListIn(Here.block)
  <2>1. ~(\E c \in {Here.block[i] : i \in 1 .. Len(Here.block)} : IsList(c))
    BY <1>1 DEF FormsOfList
  <2>. QED BY <2>1 DEF NoListIn
<1>23. BodyOf(e, Here.block) BY <1>18, <1>20, <1>22, BodyNoList
<1>24. Records(e, Flat(Here.block), N, source) BY <1>18, <1>19, <1>20 DEF Records
<1>25. ListOf(e, f, Here)
  <2>1. << >> \in Seq(ChildOf(ListItem(f.kind, f.number, e.value))) OBVIOUS
  <2>2. f.kind = ListKind(e) BY <1>7, <1>20 DEF ListKind
  <2>. QED BY <1>3, <1>7, <1>20, <2>1, <2>2 DEF ListOf
<1>26. Gathers(e, tt, Top, source)
  <2>1. tt[Len(tt)] = f BY <1>9
  <2>2. Records(e, TextAt(tt, Top), NamesOf(tt[Top]), source)
    BY <1>10, <1>17, <1>24 DEF N
  <2>. QED BY <1>10, <1>21, <1>22, <1>23, <1>25, <2>1, <2>2 DEF Gathers
<1>27. LastChanged(es, details)
  <2>1. es[m].value = details[m].value /\ ~es[m].filled BY <1>5, <1>15, <1>20
  <2>. QED BY <1>14, <2>1 DEF LastChanged, m
<1>28. ~tt[Top].braced /\ tt[Top].kind = "case" =>
         Len(tt[Top].block) + (Len(tt) - Top) <= 1
  <2>1. SUFFICES ASSUME ~tt[Top].braced, tt[Top].kind = "case"
                 PROVE  Len(tt[Top].block) + (Len(tt) - Top) <= 1
    OBVIOUS
  <2>2. Here.block = << >> BY <1>2, <1>10, <2>1 DEF InTail
  <2>3. Len(Here.block) = 0 BY <1>3, <2>2, EmptySeq
  <2>. QED BY <1>3, <1>9, <1>10, <2>3
<1>29. ByName(tt, es, source)
  <2>1. Gathers(es[Len(details)], tt, Top, source) BY <1>15, <1>26 DEF m
  <2>2. details[Len(details)].value \in NamesOf(stack[Top])
    BY <1>3, <1>4 DEF m, N
  <2>3. /\ stack[Top].kind \in {"if", "case"} /\ Top \in 1 .. Len(stack)
        /\ Len(tt) \in Nat /\ Inner(tt, Top) /\ SameFrame(tt[Top], stack[Top])
        /\ \A k \in 1 .. Top - 1 : tt[k] = stack[k]
    BY <1>2, <1>3, <1>9, <1>10
  <2>. QED BY <1>3, <1>4, <1>27, <1>28, <2>1, <2>2, <2>3, WorkOK
<1>. QED BY <1>1, <1>8, <1>11, <1>29

(* The list loop in hand and the body it is in.                              *)
LEMMA InnerFacts ==
  ASSUME IInv, forms = {}, ByName(stack, details, source),
         Here.kind \in {"range", "for"}
  PROVE  /\ Top - 1 \in 1 .. Top /\ Top \in Nat \ {0, 1} /\ Inner(stack, Top - 1)
         /\ stack[Top - 1].kind \in {"if", "case"}
         /\ stack[Top - 1] \in Frame /\ stack[Top - 1].block \in Seq(Child)
         /\ details # << >> /\ Len(details) \in Nat \ {0}
         /\ details[Len(details)] \in Detail /\ details[Len(details)].value \in Value
         /\ Resolved = details[Len(details)].value
         /\ stack[Top - 1].path = NamesOf(stack[Top - 1])
         /\ stack[Top - 1].path \in SUBSET Value
         /\ details[Len(details)].value \in NamesOf(stack[Top - 1])
         /\ ~details[Len(details)].filled
         /\ Gathers(details[Len(details)], stack, Top - 1, source)
<1>1. /\ stack \in Seq(Frame) /\ Nested(stack) /\ Top \in Nat \ {0} /\ Top = Len(stack)
      /\ Here = stack[Top] /\ details \in Seq(Detail)
  BY Facts
<1>2. Top # 1 BY Facts
<1>3. Top - 1 \in 1 .. Top /\ Top \in Nat \ {0, 1} BY <1>1, <1>2
<1>4. stack[Top - 1].kind \in {"if", "case"}
  BY <1>1 DEF ByName, Arranged, InListOf
<1>5. Inner(stack, Top - 1) BY <1>1, <1>3 DEF Inner, InListOf
<1>6. stack[Top - 1] \in Frame BY <1>1, <1>3, ElementOfSeq
<1>7. stack[Top - 1].kind = "if" /\ details # << >> =>
        stack[Top - 1].test = details[Len(details)].value
  BY <1>3, TestIsLast
<1>8. PICK q : q = Top - 1 OBVIOUS
<1>9. q \in 1 .. Len(stack) /\ stack[q].kind \in {"if", "case"}
      /\ (stack[q].kind = "if" /\ details # << >> =>
            stack[q].test = details[Len(details)].value)
  BY <1>1, <1>3, <1>4, <1>7, <1>8
<1>10. /\ details # << >> /\ Len(details) \in Nat \ {0} /\ details[Len(details)] \in Detail
       /\ NamesOf(stack[q]) = stack[q].path
       /\ stack[q].path \in SUBSET Value
       /\ details[Len(details)].value \in NamesOf(stack[q])
       /\ ~details[Len(details)].filled
       /\ Gathers(details[Len(details)], stack, q, source)
  BY ONLY <1>1, <1>9, WorkFacts, ByName(stack, details, source)
<1>11. details[Len(details)].value \in Value BY <1>10 DEF Detail
<1>12. Resolved = details[Len(details)].value BY <1>10 DEF Resolved
<1>13. stack[Top - 1].block \in Seq(Child) BY <1>6 DEF Frame
<1>. QED BY <1>3, <1>4, <1>5, <1>6, <1>8, <1>10, <1>11, <1>12, <1>13

(* A statement of a list loop, as its detail will run it.                    *)
LEMMA ListItemIs ==
  ASSUME IInv, Here.kind \in {"range", "for"}, Here.number \in Nat \ {0},
         Resolved \in Value, NEW item,
         item = [id |-> Id, loop |-> Here.number, header |-> Here.kind = "for",
                 var |-> IF Here.kind = "for" THEN Resolved ELSE Elem]
  PROVE  /\ item \in ListItem(Here.kind, Here.number, Resolved) /\ item \in Item
         /\ item.id = Id /\ item.loop = Here.number /\ item.var # None
<1>1. Id \in Nat BY Facts
<1>2. PICK n, w : n = Here.number /\ w = IF Here.kind = "for" THEN Resolved ELSE Elem
  OBVIOUS
<1>3. w \in Value \cup {None, Elem} /\ w # None BY <1>2, CommonInfoAssumption
<1>4. (Here.kind = "for") \in BOOLEAN OBVIOUS
<1>5. item = [id |-> Id, loop |-> n, header |-> Here.kind = "for", var |-> w]
  BY <1>2
<1>6. item \in Item
  <2>1. n \in Nat BY <1>2
  <2>. QED BY <1>1, <1>3, <1>4, <1>5, <2>1 DEF Item
<1>7. item.id = Id /\ item.loop = n /\ item.var = w BY <1>5
<1>8. item.header = (Here.kind = "for") BY <1>5
<1>9. item.var = IF Here.kind = "for" THEN Resolved ELSE Elem BY <1>2, <1>7
<1>10. item \in ListItem(Here.kind, Here.number, Resolved)
  BY <1>2, <1>6, <1>7, <1>8, <1>9 DEF ListItem
<1>. QED BY <1>2, <1>3, <1>6, <1>7, <1>10

LEMMA ListStatementNames ==
  ASSUME IInv, equal, forms' = {}, ByName(stack, details, source), ListStatement
  PROVE  ByName(stack', details', source')
<1>. DEFINE q == Top - 1
            N == NamesOf(stack[q])
            F == Flat(stack[q].block)
            H == Flat(Here.block)
<1>1. forms = {} /\ Here.kind \in {"range", "for"} /\ details' = details
  BY DEF ListStatement
<1>2. /\ stack \in Seq(Frame) /\ Nested(stack) /\ Top \in Nat \ {0} /\ Top = Len(stack)
      /\ Here = stack[Top] /\ Here.block \in Seq(Child)
      /\ details \in Seq(Detail) /\ NoTwice(details)
      /\ source \in [Value -> Seq(Effect)] /\ Id \in Nat
  BY Facts
<1>3. PICK d : d = details[Len(details)] OBVIOUS
<1>4. /\ q \in 1 .. Top /\ Top \in Nat \ {0, 1} /\ Inner(stack, q)
      /\ stack[q].kind \in {"if", "case"} /\ stack[q].block \in Seq(Child)
      /\ details # << >> /\ d \in Detail /\ d.value \in Value /\ Resolved = d.value
      /\ stack[q].path = N /\ N \in SUBSET Value
      /\ d.value \in N /\ ~d.filled /\ Gathers(d, stack, q, source)
      /\ Len(details) \in Nat \ {0}
  BY <1>1, <1>3, InnerFacts
<1>5. /\ NoBody(d) /\ BodyOf(d, stack[q].block)
      /\ Records(d, F \o H, N, source)
      /\ ListOf(d, Here, stack[q]) /\ NoListIn(stack[q].block)
  <2>1. TextAt(stack, q) = F \o H BY <1>2, <1>4 DEF TextAt
  <2>. QED BY <1>2, <1>4, <2>1 DEF Gathers
<1>6. /\ d.method = "list" /\ Here.kind = ListKind(d) /\ Here.number \in Nat \ {0}
      /\ Here.path = N
      /\ Here.block \in Seq(ChildOf(ListItem(Here.kind, Here.number, d.value)))
  BY <1>4, <1>5 DEF ListOf
<1>7. PICK item : item = [id |-> Id, loop |-> Here.number, header |-> Here.kind = "for",
                          var |-> IF Here.kind = "for" THEN Resolved ELSE Elem]
  OBVIOUS
<1>8. /\ item \in ListItem(Here.kind, Here.number, d.value) /\ item \in Item
      /\ item.id = Id /\ item.loop = Here.number /\ item.var # None
  <2>1. Resolved \in Value BY <1>4
  <2>. QED BY <1>1, <1>4, <1>6, <1>7, <2>1, ListItemIs
<1>9. PICK c : c = Child1("stmt", item) OBVIOUS
<1>10. PICK A : A = ListItem(Here.kind, Here.number, d.value) OBVIOUS
<1>11. c.items = <<item>> /\ c \in Child /\ c \in ChildOf(A)
  <2>1. <<item>> \in Seq(A) /\ <<item>> \in Seq(Item) BY <1>8, <1>10, SeqOfOne
  <2>. QED BY <1>9, <2>1 DEF Child1, Child, ChildOf
<1>12. stack' = WithChild(stack, c) BY <1>7, <1>9 DEF ListStatement
<1>13. PICK tt : tt = stack' OBVIOUS
<1>14. /\ tt \in Seq(Frame) /\ Len(tt) = Top
       /\ \A k \in 1 .. Top - 1 : tt[k] = stack[k]
       /\ SameFrame(tt[Top], Here) /\ tt[Top].number = Here.number
       /\ tt[Top].block = Append(Here.block, c)
  BY <1>1, <1>2, <1>11, <1>12, <1>13, ChildFrame
<1>15. PICK ef \in Effect :
         /\ ef.id = Id /\ ef.loop = Here.number /\ ef.reads
         /\ \A v \in Value : source'[v] = IF v \in Here.path THEN Append(source[v], ef)
                                          ELSE source[v]
  <2>1. Here.number \in Nat /\ TRUE \in BOOLEAN /\ Executed(TRUE, Here.number)
    BY <1>6 DEF ListStatement
  <2>. QED BY <2>1, ExecutedIs
<1>16. PICK sr : sr = source' OBVIOUS
<1>17. tt[q] = stack[q] /\ Inner(tt, q) /\ tt[Len(tt)] = tt[Top]
  <2>1. q \in 1 .. Top - 1 BY <1>4
  <2>. QED BY <1>1, <1>4, <1>14, <2>1 DEF Inner, InListOf, SameFrame
<1>. HIDE DEF q, N
<1>18. F \in Seq(Item) /\ H \in Seq(Item) /\ F \o H \in Seq(Item)
  <2>1. F \in Seq(Item) BY <1>4, ChildOfItem, FlatType
  <2>2. H \in Seq(Item) BY <1>2, ChildOfItem, FlatType
  <2>. QED BY <2>1, <2>2, ConcatProperties
<1>19. TextAt(tt, q) = (F \o H) \o <<item>>
  <2>1. Here.block \in Seq(ChildOf(Item)) /\ c \in ChildOf(Item)
    BY <1>2, <1>11, ChildOfItem
  <2>2. Flat(Append(Here.block, c)) = H \o c.items BY <2>1, FlatAppend
  <2>3. Flat(tt[Top].block) = H \o <<item>> BY <1>11, <1>14, <2>2
  <2>4. TextAt(tt, q) = F \o (H \o <<item>>) BY <1>17, <2>3 DEF TextAt
  <2>5. PICK a, b, x : a = F /\ b = H /\ x = <<item>> OBVIOUS
  <2>6. x \in Seq(Item) BY <1>8, <2>5, SeqOfOne
  <2>7. a \in Seq(Item) /\ b \in Seq(Item) BY <1>18, <2>5
  <2>8. (a \o b) \o x = a \o (b \o x) BY ONLY <2>6, <2>7, ConcatAssociative, SMTT(60)
  <2>. QED BY <2>4, <2>5, <2>8
<1>20. Records(d, (F \o H) \o <<item>>, N, sr)
  <2>1. SameEffectOf(item, ef) BY <1>8, <1>15 DEF SameEffectOf
  <2>2. \A v \in N : sr[v] = Append(source[v], ef) BY <1>4, <1>6, <1>15, <1>16
  <2>3. /\ d.method = "scalar" => N \cap ListValue = {}
        /\ d.method = "list" => N \subseteq ListValue
        /\ d.method = "none" => d.method = "none" /\ ~ef.reads
    BY <1>5, <1>6 DEF Records
  <2>4. PICK t : t = F \o H OBVIOUS
  <2>5. t \in Seq(Item) /\ Records(d, t, N, source) BY <1>5, <1>18, <2>4
  <2>6. Records(d, t \o <<item>>, N, sr)
    BY <1>2, <1>4, <1>8, <2>1, <2>2, <2>3, <2>5, RecordsMore
  <2>. QED BY <2>4, <2>6
<1>21. ListOf(d, tt[Top], tt[q])
  <2>2. Here.block \in Seq(ChildOf(A)) BY <1>6, <1>10
  <2>3. tt[Top].block \in Seq(ChildOf(A)) BY <1>11, <1>14, <2>2, BlockMore
  <2>4. tt[Top].kind = Here.kind /\ tt[Top].path = Here.path BY <1>14 DEF SameFrame
  <2>. QED BY <1>4, <1>6, <1>10, <1>14, <1>17, <2>3, <2>4 DEF ListOf
<1>22. Gathers(d, tt, q, sr)
  <2>1. Records(d, TextAt(tt, q), NamesOf(tt[q]), sr) BY <1>17, <1>19, <1>20 DEF N
  <2>. QED BY <1>5, <1>17, <1>21, <2>1 DEF Gathers
<1>23. LastChanged(details, details) BY <1>2, <1>3, <1>4 DEF LastChanged
<1>24. ~tt[q].braced /\ tt[q].kind = "case" => Len(tt[q].block) + (Len(tt) - q) <= 1
  <2>1. Arranged(stack, details) BY DEF ByName
  <2>2. FrameOK(stack[q], q, Len(stack), details) BY <1>2, <1>4, <2>1 DEF Arranged
  <2>. QED BY <1>2, <1>14, <1>17, <2>2 DEF FrameOK
<1>25. \A v \in Value \ N : sr[v] = source[v] BY <1>6, <1>15, <1>16
<1>26. ByName(tt, details, sr)
  <2>1. Gathers(details[Len(details)], tt, q, sr)
        /\ details[Len(details)].value \in NamesOf(stack[q])
        /\ \A v \in Value \ NamesOf(stack[q]) : sr[v] = source[v]
    BY <1>3, <1>4, <1>22, <1>25 DEF N
  <2>2. /\ stack[q].kind \in {"if", "case"} /\ q \in 1 .. Len(stack)
        /\ Len(tt) \in Nat /\ Inner(tt, q) /\ SameFrame(tt[q], stack[q])
        /\ \A k \in 1 .. q - 1 : tt[k] = stack[k]
    <3>1. \A k \in 1 .. q - 1 : k \in 1 .. Top - 1 BY <1>4 DEF q
    <3>. QED BY <1>2, <1>4, <1>14, <1>17, <3>1 DEF SameFrame
  <2>. QED BY <1>2, <1>4, <1>23, <1>24, <2>1, <2>2, WorkOK
<1>. QED BY <1>1, <1>13, <1>16, <1>26

LEMMA LeaveListNames ==
  ASSUME IInv, equal, forms' = {}, ByName(stack, details, source), LeaveList
  PROVE  ByName(stack', details', source')
<1>. DEFINE q == Top - 1
            N == NamesOf(stack[q])
            F == Flat(stack[q].block)
            H == Flat(Here.block)
<1>1. forms = {} /\ Here.kind \in {"range", "for"} /\ details' = details /\ source' = source
  BY DEF LeaveList
<1>2. /\ stack \in Seq(Frame) /\ Nested(stack) /\ Top \in Nat \ {0} /\ Top = Len(stack)
      /\ Here = stack[Top] /\ Here.block \in Seq(Child) /\ Here.kind # "loop"
      /\ details \in Seq(Detail) /\ NoTwice(details)
      /\ StackOK(stack, equal, Resolved, forms) /\ equal \in BOOLEAN
  BY <1>1, Facts
<1>3. PICK d : d = details[Len(details)] OBVIOUS
<1>4. /\ q \in 1 .. Top /\ Top \in Nat \ {0, 1} /\ Inner(stack, q)
      /\ stack[q].kind \in {"if", "case"} /\ stack[q].block \in Seq(Child)
      /\ details # << >> /\ d \in Detail
      /\ d.value \in N /\ ~d.filled /\ Gathers(d, stack, q, source)
      /\ Len(details) \in Nat \ {0}
  BY <1>1, <1>3, InnerFacts
<1>5. /\ NoBody(d) /\ BodyOf(d, stack[q].block)
      /\ Records(d, F \o H, N, source)
      /\ ListOf(d, Here, stack[q]) /\ NoListIn(stack[q].block)
  <2>1. TextAt(stack, q) = F \o H BY <1>2, <1>4 DEF TextAt
  <2>. QED BY <1>2, <1>4, <2>1 DEF Gathers
<1>6. PICK c : c = [kind |-> Here.kind, items |-> Flat(Here.block)] OBVIOUS
<1>7. /\ c \in Child /\ c.kind = Here.kind /\ c.items = H
      /\ H \in Seq(Item) /\ F \in Seq(Item)
  <2>1. H \in Seq(Item) BY <1>2, ChildOfItem, FlatType
  <2>2. F \in Seq(Item) BY <1>4, ChildOfItem, FlatType
  <2>. QED BY <1>1, <1>6, <2>1, <2>2 DEF Child
<1>8. PICK h : h = Front(stack) OBVIOUS
<1>9. /\ h \in Seq(Frame) /\ Len(h) = q /\ Len(h) # 0
      /\ \A k \in 1 .. q : h[k] = stack[k]
  <2>1. /\ StackOK(Front(stack), equal, Resolved, forms)
        /\ Len(Front(stack)) = Len(stack) - 1
        /\ \A k \in 1 .. Len(stack) - 1 : Front(stack)[k] = stack[k]
    BY <1>2, PopOK
  <2>. QED BY <1>2, <1>4, <1>8, <2>1 DEF StackOK
<1>10. PICK tt : tt = stack' OBVIOUS
<1>11. /\ tt \in Seq(Frame) /\ Len(tt) = q /\ q \in Nat
       /\ \A k \in 1 .. q - 1 : tt[k] = stack[k]
       /\ SameFrame(tt[q], stack[q]) /\ tt[q].block = Append(stack[q].block, c)
  <2>1. tt = WithChild(h, c) BY <1>6, <1>8, <1>10 DEF LeaveList, Closed
  <2>2. h[q] = stack[q] /\ h[q].kind # "else"
        /\ \A k \in 1 .. q - 1 : h[k] = stack[k] /\ q \in Nat
    BY <1>4, <1>9
  <2>. HIDE DEF q
  <2>3. /\ tt \in Seq(Frame) /\ Len(tt) = q /\ q \in Nat
        /\ \A k \in 1 .. q - 1 : tt[k] = h[k]
        /\ SameFrame(tt[q], h[q]) /\ tt[q].block = Append(h[q].block, c)
    BY <1>7, <1>9, <2>1, <2>2, ChildFrame
  <2>. QED BY <2>2, <2>3
<1>. HIDE DEF q, N
<1>12. ~Inner(tt, q)
  <2>1. q + 1 # q BY <1>11
  <2>. QED BY <1>11, <2>1 DEF Inner
<1>13. TextAt(tt, q) = F \o H
  <2>1. stack[q].block \in Seq(ChildOf(Item)) /\ c \in ChildOf(Item)
    BY <1>4, <1>7, ChildOfItem
  <2>2. Flat(Append(stack[q].block, c)) = F \o c.items BY <2>1, FlatAppend
  <2>. QED BY <1>7, <1>11, <1>12, <2>2 DEF TextAt
<1>14. BodyOf(d, tt[q].block)
  <2>1. LoopOf(d, c.items) /\ c.kind = ListKind(d) /\ d.method = "list"
    <3>1. /\ Here.number \in Nat \ {0} /\ Here.kind = ListKind(d) /\ d.method = "list"
          /\ Here.block \in Seq(ChildOf(ListItem(Here.kind, Here.number, d.value)))
      BY <1>5 DEF ListOf
    <3>2. H \in Seq(ListItem(Here.kind, Here.number, d.value)) BY <3>1, FlatType
    <3>. QED BY <1>7, <3>1, <3>2 DEF LoopOf
  <2>. QED BY <1>4, <1>5, <1>7, <1>11, <2>1, BodyList
<1>15. Gathers(d, tt, q, source)
  <2>1. NamesOf(tt[q]) = N BY <1>11 DEF N, SameFrame, NamesOf
  <2>. QED BY <1>5, <1>12, <1>13, <1>14, <2>1 DEF Gathers
<1>16. LastChanged(details, details) BY <1>2, <1>3, <1>4 DEF LastChanged
<1>17. ~tt[q].braced /\ tt[q].kind = "case" => Len(tt[q].block) + (Len(tt) - q) <= 1
  <2>1. Arranged(stack, details) BY DEF ByName
  <2>2. FrameOK(stack[q], q, Len(stack), details) BY <1>2, <1>4, <2>1 DEF Arranged
  <2>3. Len(tt[q].block) = Len(stack[q].block) + 1 /\ Len(stack[q].block) \in Nat
    BY <1>4, <1>7, <1>11, BlockMore
  <2>4. Len(stack) - q = 1 BY <1>2, <1>4 DEF q
  <2>. QED BY <1>11, <2>2, <2>3, <2>4 DEF FrameOK, SameFrame
<1>18. ByName(tt, details, source)
  <2>1. Gathers(details[Len(details)], tt, q, source)
        /\ details[Len(details)].value \in NamesOf(stack[q])
    BY <1>3, <1>4, <1>15 DEF N
  <2>2. stack[q].kind \in {"if", "case"} /\ q \in 1 .. Len(stack)
        /\ Len(tt) \in Nat /\ q = Len(tt)
    BY <1>2, <1>4, <1>11
  <2>. QED BY <1>2, <1>4, <1>11, <1>16, <1>17, <2>1, <2>2, WorkOK
<1>. QED BY <1>1, <1>10, <1>18

-----------------------------------------------------------------------------
(* The steps that begin and end a body                                      *)

(* The frame f of a test in hand, in which nothing has been met since.        *)
SameTest(f, g) ==
  /\ f.kind \in Branching /\ g.kind \in Branching
  /\ f.test = g.test /\ f.block = g.block

(* No body begins or ends: the tests are the same, and no case is in hand.    *)
LEMMA QuietOK ==
  ASSUME NEW st, NEW ds, NEW src, ByName(st, ds, src), NEW tt,
         ~InListOf(st), ~InListOf(tt),
         \A k \in 1 .. Len(st) :
           \/ st[k].kind \notin {"if", "else", "case"}
           \/ k \in 1 .. Len(tt) /\ SameTest(tt[k], st[k]),
         \A k \in 1 .. Len(tt) :
           \/ tt[k].kind \notin {"if", "else", "case"}
           \/ k \in 1 .. Len(st) /\ SameTest(tt[k], st[k]),
         \A k \in 1 .. Len(tt) : FrameOK(tt[k], k, Len(tt), ds),
         BranchOK(tt), tt[1].block \in Seq(ChildOf({}))
  PROVE  ByName(tt, ds, src)
<1>1. \A f, g : SameTest(f, g) => /\ f.kind # "case" /\ g.kind # "case"
                                  /\ NamesOf(f) = {f.test} /\ NamesOf(g) = {g.test}
                                  /\ f.test = g.test
  BY DEF SameTest, NamesOf, Branching
<1>2. \A f : f.kind \notin {"if", "else", "case"} => NamesOf(f) = {}
  BY DEF NamesOf, Branching
<1>3. Open(tt) = Open(st)
  <2>1. ASSUME NEW v PROVE v \in Open(tt) => v \in Open(st)
    <3>1. SUFFICES ASSUME NEW k \in 1 .. Len(tt), v \in NamesOf(tt[k])
                   PROVE  v \in Open(st)
      BY OpenIs
    <3>2. k \in 1 .. Len(st) /\ SameTest(tt[k], st[k]) BY <1>2, <3>1
    <3>3. v \in NamesOf(st[k]) BY <1>1, <3>1, <3>2
    <3>. QED BY <3>2, <3>3, OpenIs
  <2>2. ASSUME NEW v PROVE v \in Open(st) => v \in Open(tt)
    <3>1. SUFFICES ASSUME NEW k \in 1 .. Len(st), v \in NamesOf(st[k])
                   PROVE  v \in Open(tt)
      BY OpenIs
    <3>2. k \in 1 .. Len(tt) /\ SameTest(tt[k], st[k]) BY <1>2, <3>1
    <3>3. v \in NamesOf(tt[k]) BY <1>1, <3>1, <3>2
    <3>. QED BY <3>2, <3>3, OpenIs
  <2>. QED BY <2>1, <2>2
<1>4. Arranged(tt, ds)
  BY <1>3 DEF ByName, Arranged
<1>5. ASSUME NEW i \in 1 .. Len(ds), NEW k \in 1 .. Len(tt), Recipient(tt, ds, k, i)
      PROVE  Gathers(ds[i], tt, k, src)
  <2>1. k \in 1 .. Len(st) /\ SameTest(tt[k], st[k])
    BY <1>5 DEF Recipient, Branching
  <2>2. Recipient(st, ds, k, i)
    BY <1>1, <1>5, <2>1 DEF Recipient, SameTest
  <2>3. Gathers(ds[i], st, k, src) BY <2>1, <2>2 DEF ByName
  <2>4. ~Inner(st, k) /\ ~Inner(tt, k) BY DEF Inner
  <2>5. tt[k].block = st[k].block /\ NamesOf(tt[k]) = NamesOf(st[k])
    BY ONLY <1>1, <2>1 DEF SameTest
  <2>. QED BY <2>3, <2>4, <2>5, GathersSame
<1>. QED BY <1>3, <1>4, <1>5 DEF ByName

(* The test f, in which nothing has been met, is the innermost frame of tt:   *)
(* an if outside every switch, or a case outside every if.                  *)
Opens(tt, st, f) ==
  /\ Len(tt) = Len(st) + 1 /\ tt[Len(st) + 1] = f /\ \A k \in 1 .. Len(st) : tt[k] = st[k]
  /\ f.kind \in {"if", "case"} /\ f.block = << >>
  /\ f.kind = "if" => /\ f.path = {f.test}
                      /\ \A k \in 1 .. Len(st) : st[k].kind # "switch"
  /\ f.kind = "case" => \A k \in 1 .. Len(st) : st[k].kind \notin Branching

(* A body begins, for names that have none.                                  *)
LEMMA OpenOK ==
  ASSUME NEW st \in Seq(Frame), Nested(st), NEW ds \in Seq(Detail), NEW src,
         ByName(st, ds, src), st[Len(st)].kind \in {"loop", "plain", "else", "switch"},
         NEW f, NEW tt, Opens(tt, st, f),
         NEW es, Extends(es, ds), NamesOf(f) # {}, NamesOf(f) \in SUBSET Value,
         NamesOf(f) \cap Values(ds) = {}, Values(es) = Values(ds) \cup NamesOf(f)
  PROVE  ByName(tt, es, src)
<1>. DEFINE n == Len(st)
            m == Len(ds)
            N == NamesOf(f)
<1>. USE DEF Opens
<1>1. /\ n \in Nat \ {0} /\ m \in Nat
      /\ \A k \in 1 .. n : st[k].kind \notin {"if", "case", "range", "for"}
  BY FrameSeq, OuterFrames, LenProperties
<1>2. /\ es \in Seq(Detail) /\ NoTwice(es) /\ Len(es) \in Nat /\ Len(es) >= m
      /\ \A i \in 1 .. m : es[i] = ds[i]
      /\ \A i \in m + 1 .. Len(es) : es[i] = NewDetail(es[i].value)
  BY LenProperties DEF Extends
<1>3. \A k \in 1 .. n + 1 : k \in 1 .. n \/ k = n + 1 BY <1>1
<1>4. /\ Arranged(st, ds) /\ Untold(ds, src)
      /\ \A i \in 1 .. m : /\ ds[i].filled <=> ds[i].value \notin Open(st)
                           /\ ds[i].filled => Told(ds[i], src[ds[i].value])
      /\ \A i \in 1 .. m, k \in 1 .. n :
           Recipient(st, ds, k, i) => Gathers(ds[i], st, k, src)
      /\ Open(st) \subseteq Values(ds)
  BY DEF ByName, Arranged
<1>5. Open(tt) = Open(st) \cup N
  <2>1. ASSUME NEW v PROVE v \in Open(tt) <=> v \in Open(st) \/ v \in N
    <3>1. v \in Open(tt) <=> \E k \in 1 .. n + 1 : v \in NamesOf(tt[k]) BY OpenIs
    <3>2. v \in Open(st) <=> \E k \in 1 .. n : v \in NamesOf(st[k]) BY OpenIs
    <3>3. n + 1 \in 1 .. n + 1 /\ \A k \in 1 .. n : k \in 1 .. n + 1 BY <1>1
    <3>. HIDE DEF N
    <3>4. v \in N <=> v \in NamesOf(tt[n + 1]) BY DEF N
    <3>. QED BY <1>3, <3>1, <3>2, <3>3, <3>4
  <2>. QED BY <2>1
<1>6. \A i \in 1 .. m : ds[i].value \in Values(ds) /\ ds[i].value \notin N
  BY ValuesAre
<1>7. ASSUME NEW i \in 1 .. Len(es)
      PROVE  \/ i \in 1 .. m /\ es[i] = ds[i] /\ es[i].value \notin N
             \/ /\ i \in m + 1 .. Len(es) /\ es[i].value \in N
                /\ es[i] = NewDetail(es[i].value)
  <2>1. CASE i \in 1 .. m BY <1>2, <1>6, <2>1
  <2>2. CASE i \notin 1 .. m
    <3>1. i \in m + 1 .. Len(es) BY <1>1, <1>2, <2>2
    <3>2. es[i].value \in Values(ds) \cup N BY ValuesAre
    <3>3. es[i].value \notin Values(ds)
      <4>1. SUFFICES ASSUME NEW j \in 1 .. m, es[i].value = ds[j].value PROVE FALSE
        BY ValuesAre
      <4>2. j \in 1 .. Len(es) /\ es[j] = ds[j] BY <1>1, <1>2
      <4>3. i = j BY <1>2, <4>1, <4>2 DEF NoTwice
      <4>. QED BY <2>2, <4>3
    <3>. QED BY <1>2, <3>1, <3>2, <3>3
  <2>. QED BY <2>1, <2>2
<1>8. Len(es) \in m + 1 .. Len(es) /\ Len(es) \in 1 .. Len(es)
  <2>1. PICK v \in N : TRUE OBVIOUS
  <2>2. PICK i \in 1 .. Len(es) : v = es[i].value BY <2>1, ValuesAre
  <2>3. i \in m + 1 .. Len(es) BY <1>7, <2>1, <2>2
  <2>. QED BY <1>1, <1>2, <2>3
<1>9. Untold(es, src) BY <1>4 DEF Untold
<1>10. ASSUME NEW i \in 1 .. Len(es)
       PROVE  /\ es[i].filled <=> es[i].value \notin Open(tt)
              /\ es[i].filled => Told(es[i], src[es[i].value])
  <2>1. CASE i \in 1 .. m /\ es[i] = ds[i] /\ es[i].value \notin N
    BY <1>4, <1>5, <2>1
  <2>2. CASE es[i].value \in N /\ es[i] = NewDetail(es[i].value)
    <3>1. es[i].filled = FALSE BY <2>2 DEF NewDetail
    <3>. QED BY <1>5, <2>2, <3>1
  <2>. QED BY <1>7, <2>1, <2>2
<1>11. f.kind = "if" => N = {f.test} /\ f.test \in N BY DEF NamesOf, Branching
<1>12. f.kind = "case" => N = f.path BY DEF NamesOf
<1>. HIDE DEF N
<1>13. ASSUME NEW v \in N
       PROVE  Gathers(NewDetail(v), tt, n + 1, src)
  <2>1. NoBody(NewDetail(v)) /\ NewDetail(v).method = "none"
    BY DEF NoBody, NewDetail
  <2>2. PICK e : e = << >> OBVIOUS
  <2>3. e \in Seq(ChildOf({})) /\ Len(e) = 0 BY <2>2
  <2>4. BodyOf(NewDetail(v), e) BY <2>3 DEF BodyOf
  <2>5. ~Inner(tt, n + 1)
    <3>1. n + 1 + 1 # n + 1 BY <1>1
    <3>. QED BY <3>1 DEF Inner
  <2>6. Flat(e) = << >> BY <2>3, FlatNothing
  <2>7. TextAt(tt, n + 1) = << >> BY <2>2, <2>5, <2>6 DEF TextAt
  <2>8. \A w \in N : src[w] = << >> BY <1>4 DEF N, Untold
  <2>9. Follows(<< >>, << >>) /\ Silent(<< >>) BY DEF Follows, Silent
  <2>10. Records(NewDetail(v), << >>, N, src) BY <2>1, <2>8, <2>9 DEF Records
  <2>11. tt[n + 1].block = e BY <2>2
  <2>12. NamesOf(tt[n + 1]) = N BY DEF N
  <2>. QED BY <2>1, <2>4, <2>5, <2>7, <2>10, <2>11, <2>12 DEF Gathers
<1>14. ASSUME NEW i \in 1 .. Len(es), NEW k \in 1 .. n + 1, Recipient(tt, es, k, i)
       PROVE  Gathers(es[i], tt, k, src)
  <2>1. CASE k = n + 1
    <3>1. es[i].value \in N
      <4>1. CASE f.kind = "if" BY <1>11, <1>14, <2>1, <4>1 DEF Recipient
      <4>2. CASE f.kind = "case"
        <5>1. i = Len(es) BY <1>14, <2>1, <4>2 DEF Recipient, Branching
        <5>2. i \notin 1 .. m BY <1>1, <1>8, <5>1
        <5>. QED BY <1>7, <5>2
      <4>. QED BY <4>1, <4>2
    <3>2. es[i] = NewDetail(es[i].value) BY <1>7, <3>1
    <3>. QED BY <1>13, <2>1, <3>1, <3>2
  <2>2. CASE k \in 1 .. n
    <3>1. st[k].kind \in Branching /\ st[k].kind # "case" /\ es[i].value = st[k].test
      BY <1>1, <1>14, <2>2 DEF Recipient
    <3>2. NamesOf(st[k]) = {st[k].test} BY <3>1 DEF NamesOf
    <3>3. st[k].test \in Values(ds) BY <1>4, <2>2, <3>2, OpenIs
    <3>4. es[i].value \notin N BY <3>1, <3>3 DEF N
    <3>5. i \in 1 .. m /\ es[i] = ds[i] BY <1>7, <3>4
    <3>6. Recipient(st, ds, k, i) BY <3>1, <3>5 DEF Recipient
    <3>7. Gathers(ds[i], st, k, src) BY <1>4, <2>2, <3>5, <3>6
    <3>8. ~Inner(st, k) /\ ~Inner(tt, k)
      <4>1. st[n].kind \notin {"range", "for"} /\ tt[Len(tt)].kind \notin {"range", "for"}
        OBVIOUS
      <4>. QED BY <4>1 DEF Inner, InListOf
    <3>9. tt[k].block = st[k].block /\ NamesOf(tt[k]) = NamesOf(st[k]) BY <2>2
    <3>10. Gathers(ds[i], tt, k, src) BY <3>7, <3>8, <3>9, GathersSame
    <3>. QED BY <3>5, <3>10
  <2>. QED BY <1>3, <2>1, <2>2
<1>15. ASSUME NEW k \in 1 .. n + 1 PROVE FrameOK(tt[k], k, n + 1, es)
  <2>1. CASE k \in 1 .. n
    <3>1. FrameOK(st[k], k, n, ds) /\ st[k].kind \notin {"if", "case"}
      BY <1>1, <1>4, <2>1 DEF Arranged
    <3>. QED BY <2>1, <3>1 DEF FrameOK
  <2>2. CASE k = n + 1
    <3>1. CASE f.kind = "if" BY <2>2, <3>1 DEF FrameOK
    <3>2. CASE f.kind = "case"
      <4>1. Len(f.block) = 0 /\ (n + 1) - k = 0 BY <1>1, <2>2
      <4>2. ASSUME NEW i \in 1 .. Len(es), NEW j \in 1 .. Len(es), i <= j,
                   es[i].value \in N
            PROVE  es[j].value \in N
        <5>1. i \in m + 1 .. Len(es) BY <1>7, <4>2
        <5>2. j \notin 1 .. m BY <1>1, <1>2, <4>2, <5>1
        <5>. QED BY <1>7, <5>2
      <4>3. f.path = N /\ f.path # {} BY <1>12, <3>2 DEF N
      <4>4. Len(f.block) + ((n + 1) - k) <= 1 BY <4>1
      <4>. QED BY <2>2, <3>2, <4>2, <4>3, <4>4 DEF FrameOK
    <3>. QED BY <3>1, <3>2
  <2>. QED BY <1>3, <2>1, <2>2
<1>16. BranchOK(tt)
  <2>1. SUFFICES ASSUME NEW k \in 1 .. n + 1, NEW j \in 1 .. n + 1, tt[k].kind \in Branching
                 PROVE  /\ tt[j].kind \notin {"switch", "case"}
                        /\ tt[j].kind \in Branching /\ tt[j].test = tt[k].test => j = k
    BY DEF BranchOK
  <2>2. \A i \in 1 .. n : tt[i].kind \in Branching =>
          st[i].kind \in Branching /\ st[i].test \notin N
    <3>1. SUFFICES ASSUME NEW i \in 1 .. n, st[i].kind \in Branching
                   PROVE  st[i].test \notin N
      OBVIOUS
    <3>2. NamesOf(st[i]) = {st[i].test} BY <1>1, <3>1 DEF NamesOf
    <3>3. st[i].test \in Values(ds) BY <1>4, <3>2, OpenIs
    <3>. QED BY <3>3 DEF N
  <2>3. f.kind = "if"
    <3>1. CASE k \in 1 .. n BY <2>1, <3>1
    <3>2. CASE k = n + 1 BY <2>1, <3>2 DEF Branching
    <3>. QED BY <1>3, <3>1, <3>2
  <2>4. tt[j].kind \notin {"switch", "case"}
    <3>1. CASE j \in 1 .. n BY <1>1, <2>3, <3>1
    <3>2. CASE j = n + 1 BY <2>3, <3>2
    <3>. QED BY <1>3, <3>1, <3>2
  <2>5. ASSUME tt[j].kind \in Branching, tt[j].test = tt[k].test PROVE j = k
    <3>1. CASE j \in 1 .. n /\ k \in 1 .. n
      BY <1>4, <2>1, <2>5, <3>1 DEF Arranged, BranchOK
    <3>2. ~(j = n + 1 /\ k \in 1 .. n) BY <1>11, <2>1, <2>2, <2>3, <2>5
    <3>3. ~(k = n + 1 /\ j \in 1 .. n) BY <1>11, <2>2, <2>3, <2>5
    <3>. QED BY <1>3, <3>1, <3>2, <3>3
  <2>. QED BY <2>4, <2>5
<1>17. Arranged(tt, es)
  <2>1. Open(tt) \subseteq Values(es) BY <1>4, <1>5 DEF N
  <2>2. ~InListOf(tt) BY DEF InListOf
  <2>3. tt[1] = st[1] BY <1>1
  <2>. QED BY <1>4, <1>15, <1>16, <2>1, <2>2, <2>3 DEF Arranged
<1>. QED BY <1>9, <1>10, <1>14, <1>17 DEF ByName

(* The innermost body ends; the details of its names have it now.            *)
LEMMA CloseBodyOK ==
  ASSUME NEW st \in Seq(Frame), Nested(st), NEW ds \in Seq(Detail), NEW src,
         ByName(st, ds, src), st[Len(st)].kind \in {"if", "else", "case"},
         NEW tt, Len(tt) = Len(st) - 1,
         \A k \in 1 .. Len(st) - 1 :
           /\ tt[k].kind = st[k].kind /\ tt[k].test = st[k].test
           /\ st[k].kind \in Branching => tt[k].block = st[k].block,
         tt[1].block \in Seq(ChildOf({})),
         NEW es \in Seq(Detail), Len(es) = Len(ds),
         \A i \in 1 .. Len(ds) :
           /\ es[i].value = ds[i].value
           /\ ds[i].value \notin NamesOf(st[Len(st)]) => es[i] = ds[i]
           /\ ds[i].value \in NamesOf(st[Len(st)]) =>
                es[i].filled /\ Told(es[i], src[es[i].value])
  PROVE  ByName(tt, es, src)
<1>. DEFINE n == Len(st)
            m == Len(ds)
            N == NamesOf(st[n])
<1>1. n \in Nat \ {0} BY FrameSeq
<1>2. n # 1 /\ \A k \in 1 .. n - 1 : k \in 1 .. n /\ k # n
                 /\ st[k].kind \notin {"if", "case", "range", "for"}
  <2>1. n # 1 BY <1>1 DEF Nested
  <2>2. ASSUME NEW k \in 1 .. n - 1
        PROVE  k \in 1 .. n /\ k # n /\ st[k].kind \notin {"if", "case", "range", "for"}
    <3>1. k \in 1 .. n /\ k # n BY <1>1
    <3>. QED BY <3>1 DEF Nested
  <2>. QED BY <2>1, <2>2
<1>3. /\ Arranged(st, ds) /\ Untold(ds, src)
      /\ \A i \in 1 .. m : /\ ds[i].filled <=> ds[i].value \notin Open(st)
                           /\ ds[i].filled => Told(ds[i], src[ds[i].value])
      /\ \A i \in 1 .. m, k \in 1 .. n :
           Recipient(st, ds, k, i) => Gathers(ds[i], st, k, src)
      /\ Open(st) \subseteq Values(ds) /\ BranchOK(st)
  BY DEF ByName, Arranged
<1>4. ASSUME NEW k \in 1 .. n - 1
      PROVE  /\ NamesOf(tt[k]) = NamesOf(st[k])
             /\ NamesOf(tt[k]) \cap N = {}
             /\ NamesOf(tt[k]) # {} => st[k].kind \in Branching
  <2>1. tt[k].kind = st[k].kind /\ tt[k].test = st[k].test OBVIOUS
  <2>2. st[k].kind # "case" BY <1>2
  <2>3. NamesOf(tt[k]) = NamesOf(st[k])
        /\ NamesOf(st[k]) = IF st[k].kind \in Branching THEN {st[k].test} ELSE {}
    BY <2>1, <2>2 DEF NamesOf
  <2>4. CASE st[k].kind \notin Branching BY <2>3, <2>4
  <2>5. CASE st[k].kind \in Branching
    <3>1. k \in 1 .. n /\ n \in 1 .. n /\ k # n BY <1>1, <1>2
    <3>2. st[n].kind # "case" BY <1>3, <2>5, <3>1 DEF BranchOK
    <3>3. st[n].kind \in Branching BY <3>2 DEF Branching
    <3>4. st[n].test # st[k].test BY <1>3, <2>5, <3>1, <3>3 DEF BranchOK
    <3>5. N = {st[n].test} BY <3>2, <3>3 DEF NamesOf
    <3>. QED BY <2>3, <2>5, <3>4, <3>5
  <2>. QED BY <2>3, <2>4, <2>5
<1>5. \A k \in 1 .. n : k \in 1 .. n - 1 \/ k = n BY <1>1
<1>6. Open(tt) = Open(st) \ N
  <2>1. ASSUME NEW v PROVE v \in Open(tt) <=> v \in Open(st) /\ v \notin N
    <3>1. v \in Open(tt) <=> \E k \in 1 .. n - 1 : v \in NamesOf(tt[k]) BY OpenIs
    <3>2. v \in Open(st) <=> \E k \in 1 .. n : v \in NamesOf(st[k]) BY OpenIs
    <3>3. (\E k \in 1 .. n - 1 : v \in NamesOf(tt[k])) => v \in Open(st) /\ v \notin N
      BY <1>2, <1>4, <3>2
    <3>4. v \in Open(st) /\ v \notin N => \E k \in 1 .. n - 1 : v \in NamesOf(tt[k])
      <4>1. SUFFICES ASSUME v \in Open(st), v \notin N
                     PROVE  \E k \in 1 .. n - 1 : v \in NamesOf(tt[k])
        OBVIOUS
      <4>2. PICK k \in 1 .. n : v \in NamesOf(st[k]) BY <3>2, <4>1
      <4>3. k # n BY <4>1, <4>2
      <4>4. k \in 1 .. n - 1 BY <1>5, <4>3
      <4>. QED BY <1>4, <4>2, <4>4
    <3>. QED BY <3>1, <3>3, <3>4
  <2>. QED BY <2>1
<1>7. Values(es) = Values(ds)
  <2>1. Len(es) = m /\ \A i \in 1 .. m : es[i].value = ds[i].value OBVIOUS
  <2>. QED BY ONLY <2>1 DEF Values
<1>8. Untold(es, src) BY <1>3, <1>7 DEF Untold
<1>9. ASSUME NEW i \in 1 .. m
      PROVE  /\ es[i].filled <=> es[i].value \notin Open(tt)
             /\ es[i].filled => Told(es[i], src[es[i].value])
  <2>1. es[i].value = ds[i].value OBVIOUS
  <2>2. CASE ds[i].value \in N
    <3>1. es[i].filled /\ Told(es[i], src[es[i].value]) BY <2>2
    <3>. QED BY <1>6, <2>1, <2>2, <3>1
  <2>3. CASE ds[i].value \notin N
    <3>1. es[i] = ds[i] BY <2>3
    <3>. QED BY <1>3, <1>6, <2>1, <2>3, <3>1
  <2>. QED BY <2>2, <2>3
<1>10. ~InListOf(st) /\ ~InListOf(tt)
  <2>1. n - 1 \in 1 .. n - 1 BY <1>1, <1>2
  <2>2. tt[n - 1].kind \notin {"range", "for"} BY <1>2, <2>1
  <2>. QED BY <2>2 DEF InListOf
<1>11. ASSUME NEW i \in 1 .. m, NEW k \in 1 .. n - 1, Recipient(tt, es, k, i)
       PROVE  Gathers(es[i], tt, k, src)
  <2>1. tt[k].kind = st[k].kind /\ st[k].kind # "case" /\ k \in 1 .. n
    BY <1>2
  <2>2. st[k].kind \in Branching /\ es[i].value = st[k].test
    BY <1>11, <2>1 DEF Recipient
  <2>3. es[i].value \in NamesOf(tt[k]) BY <1>4, <2>1, <2>2 DEF NamesOf
  <2>4. ds[i].value \notin N /\ es[i].value = ds[i].value BY <1>4, <2>3
  <2>5. es[i] = ds[i] BY <2>4
  <2>6. Recipient(st, ds, k, i) BY <2>2, <2>5 DEF Recipient
  <2>7. Gathers(ds[i], st, k, src) BY <1>3, <2>1, <2>6
  <2>8. ~Inner(st, k) /\ ~Inner(tt, k) BY <1>10 DEF Inner
  <2>9. tt[k].block = st[k].block /\ NamesOf(tt[k]) = NamesOf(st[k]) BY <1>4, <2>2
  <2>10. Gathers(ds[i], tt, k, src) BY <2>7, <2>8, <2>9, GathersSame
  <2>. QED BY <2>5, <2>10
<1>12. Arranged(tt, es)
  <2>1. ASSUME NEW k \in 1 .. n - 1 PROVE FrameOK(tt[k], k, n - 1, es)
    <3>1. FrameOK(st[k], k, n, ds) BY <1>2, <1>3 DEF Arranged
    <3>2. tt[k].kind = st[k].kind /\ tt[k].kind \notin {"if", "case"} BY <1>2
    <3>. QED BY <3>1, <3>2 DEF FrameOK
  <2>2. BranchOK(tt)
    <3>1. \A k \in 1 .. n - 1 : k \in 1 .. n /\ tt[k].kind = st[k].kind
                                /\ tt[k].test = st[k].test
      BY <1>2
    <3>2. BranchOK(st) BY <1>3
    <3>3. Len(tt) = n - 1 OBVIOUS
    <3>. QED BY ONLY <3>1, <3>2, <3>3 DEF BranchOK
  <2>3. Open(tt) \subseteq Values(es) BY <1>3, <1>6, <1>7
  <2>. QED BY <1>10, <2>1, <2>2, <2>3 DEF Arranged
<1>. QED BY <1>8, <1>9, <1>11, <1>12 DEF ByName

(* A name that is tested by the innermost statement has its text.            *)
LEMMA GatheredText ==
  ASSUME NEW d, NEW st, NEW src, Len(st) \in Nat, ~InListOf(st),
         Gathers(d, st, Len(st), src)
  PROVE  /\ NoBody(d) /\ BodyOf(d, st[Len(st)].block)
         /\ Records(d, Flat(st[Len(st)].block), NamesOf(st[Len(st)]), src)
<1>1. ~Inner(st, Len(st)) BY DEF Inner
<1>. QED BY <1>1 DEF Gathers, TextAt

(* A statement that leaves no text becomes a child of the one around it.      *)
LEMMA ClosedChild ==
  ASSUME IInv, Here.kind # "loop", NEW kind \in {"stmt", "if"}, NEW tt,
         tt = Closed([kind |-> kind, items |-> << >>]),
         stack[1].block \in Seq(ChildOf({}))
  PROVE  /\ tt \in Seq(Frame) /\ Top \in Nat \ {0, 1} /\ Len(tt) = Top - 1
         /\ \A k \in 1 .. Top - 1 :
              /\ tt[k].kind = stack[k].kind /\ tt[k].test = stack[k].test
              /\ tt[k].path = stack[k].path
              /\ stack[k].kind = "else" => tt[k].block = stack[k].block
         /\ tt[1].block \in Seq(ChildOf({}))
<1>1. PICK c : c = [kind |-> kind, items |-> << >>] OBVIOUS
<1>2. c \in Child /\ c \in ChildOf({})
  <2>1. << >> \in Seq(Item) /\ << >> \in Seq({}) OBVIOUS
  <2>. QED BY <1>1, <2>1 DEF Child, ChildOf
<1>3. /\ stack \in Seq(Frame) /\ Top \in Nat \ {0, 1} /\ Top = Len(stack)
      /\ StackOK(stack, equal, Resolved, forms) /\ equal \in BOOLEAN
      /\ stack[Len(stack)].kind # "loop"
  BY Facts
<1>4. PICK h : h = Front(stack) OBVIOUS
<1>5. h \in Seq(Frame) /\ Len(h) = Top - 1 /\ \A k \in 1 .. Top - 1 : h[k] = stack[k]
  <2>1. /\ StackOK(Front(stack), equal, Resolved, forms)
        /\ Len(Front(stack)) = Len(stack) - 1
        /\ \A k \in 1 .. Len(stack) - 1 : Front(stack)[k] = stack[k]
    BY <1>3, PopOK
  <2>. QED BY <1>3, <1>4, <2>1 DEF StackOK
<1>6. tt = WithChild(h, c) BY <1>1, <1>4 DEF Closed
<1>7. Len(h) \in Nat \ {0} BY <1>3, <1>5
<1>8. CASE h[Len(h)].kind = "else"
  <2>1. tt = h BY <1>6, <1>8 DEF WithChild
  <2>2. 1 \in 1 .. Top - 1 BY <1>3
  <2>. QED BY <1>3, <1>5, <2>1, <2>2
<1>9. CASE h[Len(h)].kind # "else"
  <2>1. /\ tt \in Seq(Frame) /\ Len(tt) = Len(h)
        /\ \A k \in 1 .. Len(h) - 1 : tt[k] = h[k]
        /\ SameFrame(tt[Len(h)], h[Len(h)])
        /\ tt[Len(h)].block = Append(h[Len(h)].block, c)
    <3>1. c \in Child /\ h \in Seq(Frame) /\ Len(h) # 0 BY <1>2, <1>5, <1>7
    <3>. QED BY ONLY <1>6, <1>9, <3>1, ChildFrame
  <2>2. ASSUME NEW k \in 1 .. Len(h)
        PROVE  /\ tt[k].kind = h[k].kind /\ tt[k].test = h[k].test
               /\ tt[k].path = h[k].path
               /\ h[k].kind = "else" => tt[k].block = h[k].block
    <3>1. CASE k \in 1 .. Len(h) - 1 BY <2>1, <3>1
    <3>2. CASE k = Len(h)
      <4>1. /\ tt[Len(h)].kind = h[Len(h)].kind /\ tt[Len(h)].test = h[Len(h)].test
            /\ tt[Len(h)].path = h[Len(h)].path
        BY <2>1 DEF SameFrame
      <4>. QED BY ONLY <1>9, <3>2, <4>1
    <3>. QED BY <1>7, <3>1, <3>2
  <2>3. tt[1].block \in Seq(ChildOf({}))
    <3>1. h[1] = stack[1]
      <4>1. 1 \in 1 .. Top - 1 BY ONLY <1>3
      <4>. QED BY ONLY <1>5, <4>1
    <3>2. CASE Len(h) = 1
      <4>1. PICK b : b = stack[1].block OBVIOUS
      <4>2. Append(b, c) \in Seq(ChildOf({})) BY <1>2, <4>1, BlockMore
      <4>3. tt[1].block = Append(h[1].block, c) BY ONLY <2>1, <3>2
      <4>. QED BY ONLY <3>1, <4>1, <4>2, <4>3
    <3>3. CASE Len(h) # 1
      <4>1. PICK l \in Nat \ {0} : l = Len(h) BY ONLY <1>7
      <4>2. l # 1 BY ONLY <3>3, <4>1
      <4>3. 1 \in 1 .. l - 1 BY ONLY <4>1, <4>2
      <4>4. 1 \in 1 .. Len(h) - 1 BY ONLY <4>1, <4>3
      <4>5. tt[1] = h[1] BY ONLY <2>1, <4>4
      <4>. QED BY ONLY <3>1, <4>5, stack[1].block \in Seq(ChildOf({}))
    <3>. QED BY <3>2, <3>3
  <2>. QED BY <1>3, <1>5, <2>1, <2>2, <2>3
<1>. QED BY <1>8, <1>9

LEMMA LeaveIfNames ==
  ASSUME IInv, equal, forms' = {}, ByName(stack, details, source), LeaveIf
  PROVE  ByName(stack', details', source')
<1>. DEFINE n == Top
            m == Len(details)
            b == Here.block
<1>1. /\ forms = {} /\ Here.kind \in {"if", "else"} /\ b # << >> /\ source' = source
      /\ details' = FillTested(Here.test, b)
  BY DEF LeaveIf
<1>2. /\ stack \in Seq(Frame) /\ Nested(stack) /\ n \in Nat \ {0} /\ n = Len(stack)
      /\ Here = stack[n] /\ b \in Seq(Child) /\ n \in 1 .. n
      /\ details \in Seq(Detail) /\ NoTwice(details) /\ m \in Nat
      /\ source \in [Value -> Seq(Effect)]
  BY Facts
<1>3. PICK tt : tt = stack' OBVIOUS
<1>4. /\ tt \in Seq(Frame) /\ Len(tt) = n - 1
      /\ \A k \in 1 .. n - 1 :
           /\ tt[k].kind = stack[k].kind /\ tt[k].test = stack[k].test
           /\ stack[k].kind = "else" => tt[k].block = stack[k].block
      /\ tt[1].block \in Seq(ChildOf({}))
  <2>1. tt = Closed([kind |-> "if", items |-> << >>]) BY <1>3 DEF LeaveIf
  <2>2. stack[1].block \in Seq(ChildOf({})) BY DEF ByName, Arranged
  <2>. QED BY <1>1, <2>1, <2>2, ClosedChild
<1>5. ASSUME NEW k \in 1 .. n - 1, stack[k].kind \in Branching
      PROVE  stack[k].kind = "else"
  <2>1. k \in 1 .. n /\ k # n BY <1>2
  <2>2. stack[k].kind # "if" BY <1>1, <1>2, <2>1 DEF Nested
  <2>. QED BY <1>5, <2>2 DEF Branching
<1>6. PICK es : es = details' OBVIOUS
<1>7. /\ es \in Seq(Detail) /\ Len(es) = m
      /\ \A i \in 1 .. m : es[i].value = details[i].value
  BY <1>1, <1>2, <1>6, FillTestedIs
<1>8. NamesOf(Here) = {Here.test}
  BY <1>1 DEF NamesOf, Branching
<1>9. ASSUME NEW i \in 1 .. m
      PROVE  /\ details[i].value \notin NamesOf(Here) => es[i] = details[i]
             /\ details[i].value \in NamesOf(Here) =>
                  es[i].filled /\ Told(es[i], source[es[i].value])
  <2>1. es[i] = IF i \in Positions(details, Here.test) /\ ~details[i].filled
                THEN Filled(details[i], BodyText(b), b # << >>) ELSE details[i]
    BY <1>1, <1>6 DEF FillTested
  <2>2. i \in Positions(details, Here.test) <=> details[i].value \in NamesOf(Here)
    BY <1>8 DEF Positions
  <2>3. CASE details[i].value \notin NamesOf(Here) BY <2>1, <2>2, <2>3
  <2>4. CASE details[i].value \in NamesOf(Here)
    <3>1. PICK d : d = details[i] OBVIOUS
    <3>2. d \in Detail /\ d.value = Here.test
      <4>1. d \in Detail BY <1>2, <3>1, ElementOfSeq
      <4>. QED BY <1>8, <2>4, <3>1, <4>1
    <3>3. d.value \in Value /\ source[d.value] \in Seq(Effect) BY <1>2, <3>2 DEF Detail
    <3>4. ~d.filled /\ Gathers(d, stack, n, source)
      <4>1. d.value \in Open(stack) BY <1>2, <2>4, <3>1, OpenIs
      <4>2. Recipient(stack, details, n, i)
        BY <1>1, <1>2, <3>1, <3>2 DEF Recipient, Branching
      <4>. QED BY <1>2, <3>1, <4>1, <4>2 DEF ByName
    <3>5. ~InListOf(stack) BY <1>1, <1>2 DEF InListOf
    <3>6. NoBody(d) /\ BodyOf(d, b) /\ Records(d, Flat(b), NamesOf(Here), source)
      BY <1>2, <3>4, <3>5, GatheredText
    <3>7. PICK e : e = Filled(d, BodyText(b), TRUE) OBVIOUS
    <3>8. es[i] = e
      <4>1. (b # << >>) = TRUE BY ONLY <1>1
      <4>2. es[i] = Filled(details[i], BodyText(b), b # << >>)
        BY ONLY <2>1, <2>2, <2>4, <3>1, <3>4
      <4>3. es[i] = Filled(details[i], BodyText(b), TRUE) BY ONLY <4>1, <4>2
      <4>. QED BY ONLY <3>1, <3>7, <4>3
    <3>9. /\ e \in Detail /\ PartsOK(e) /\ AllOf(e) = Flat(b)
          /\ e.value = d.value /\ e.method = d.method /\ e.filled
      <4>1. /\ d \in Detail /\ NoBody(d) /\ b \in Seq(Child) /\ BodyOf(d, b)
            /\ e = Filled(d, BodyText(b), TRUE)
        BY <1>2, <3>2, <3>6, <3>7
      <4>. QED BY ONLY <4>1, FilledParts
    <3>10. Follows(AllOf(e), source[d.value])
           /\ (e.method = "none" => Silent(source[d.value]))
      BY <2>4, <3>1, <3>6, <3>9 DEF Records
    <3>11. Told(e, source[d.value]) BY <3>3, <3>9, <3>10, ToldIs
    <3>. QED BY <2>4, <3>8, <3>9, <3>11
  <2>. QED BY <2>3, <2>4
<1>10. ByName(tt, es, source)
  <2>1. \A k \in 1 .. Len(stack) - 1 :
          /\ tt[k].kind = stack[k].kind /\ tt[k].test = stack[k].test
          /\ stack[k].kind \in Branching => tt[k].block = stack[k].block
    BY <1>2, <1>4, <1>5
  <2>2. stack[Len(stack)].kind \in {"if", "else", "case"} BY <1>1, <1>2
  <2>3. Here = stack[Len(stack)] BY <1>2
  <2>. HIDE DEF n, b, m
  <2>4. Len(tt) = Len(stack) - 1 BY <1>2, <1>4
  <2>5. \A i \in 1 .. Len(details) :
          /\ es[i].value = details[i].value
          /\ details[i].value \notin NamesOf(stack[Len(stack)]) => es[i] = details[i]
          /\ details[i].value \in NamesOf(stack[Len(stack)]) =>
               es[i].filled /\ Told(es[i], source[es[i].value])
    BY <1>7, <1>9, <2>3 DEF m
  <2>6. Len(es) = Len(details) BY <1>7 DEF m
  <2>. QED BY <1>2, <1>4, <1>7, <2>1, <2>2, <2>4, <2>5, <2>6, CloseBodyOK
<1>. QED BY <1>1, <1>3, <1>6, <1>10

(* The names of a case are those of the last details, which have no body; the *)
(* source does for all of them what the body e does.                        *)
LastOpen(ds, N) ==
  /\ \A i, j \in 1 .. Len(ds) : i <= j /\ ds[i].value \in N => ds[j].value \in N
  /\ \A i \in 1 .. Len(ds) : ds[i].filled <=> ds[i].value \notin N

SuitsAll(e, N, src) ==
  \A v \in N : /\ Follows(AllOf(e), src[v])
               /\ e.method = "none" => Silent(src[v])

WithLast(ds, e) == [ds EXCEPT ![Len(ds)] = e]

(* The body of a case is given to the details of all its names.              *)
LEMMA SharedOK ==
  ASSUME NEW ds \in Seq(Detail), NEW m \in Nat \ {0}, m = Len(ds), NEW N,
         LastOpen(ds, N), NEW src \in [Value -> Seq(Effect)],
         NEW e \in Detail, PartsOK(e), e.filled, e.value = ds[m].value, e.value \in N,
         SuitsAll(e, N, src),
         NEW es, es = Share(WithLast(ds, e))
  PROVE  /\ es \in Seq(Detail) /\ Len(es) = m
         /\ \A i \in 1 .. m :
              /\ es[i].value = ds[i].value
              /\ ds[i].value \notin N => es[i] = ds[i]
              /\ ds[i].value \in N => es[i].filled /\ Told(es[i], src[es[i].value])
<1>1. PICK cs : cs = WithLast(ds, e) OBVIOUS
<1>2. m \in 1 .. m /\ m \in 1 .. Len(ds) OBVIOUS
<1>3. /\ cs \in Seq(Detail) /\ Len(cs) = m
      /\ \A i \in 1 .. m : cs[i] = IF i = m THEN e ELSE ds[i]
  BY <1>1, <1>2, ExceptSeq DEF WithLast
<1>4. cs # << >> BY <1>3, EmptySeq
<1>5. /\ es \in Seq(Detail) /\ Len(es) = m
      /\ \A i \in 1 .. m : es[i].value = cs[i].value
  <2>1. es = Share(cs) BY <1>1
  <2>2. cs \in Seq(Detail) BY <1>3
  <2>3. /\ Share(cs) \in Seq(Detail) /\ Len(Share(cs)) = Len(cs)
        /\ \A i \in 1 .. Len(cs) : Share(cs)[i].value = cs[i].value
    BY ONLY <1>4, <2>2, ShareIs
  <2>. QED BY ONLY <1>3, <2>1, <2>3
<1>6. \A i \in 1 .. m : cs[i].value = ds[i].value BY <1>3
<1>7. cs[m] = e BY <1>2, <1>3
<1>8. ASSUME NEW i \in 1 .. m
      PROVE  /\ (\A j \in i .. m - 1 : ~cs[j].filled) => es[i] = Copied(e, cs[i].value)
             /\ ~(\A j \in i .. m - 1 : ~cs[j].filled) => es[i] = cs[i]
  <2>1. cs[Len(cs)] = e /\ cs[Len(cs)].filled BY <1>3, <1>7
  <2>2. es = Share(cs) BY <1>1
  <2>3. Share(cs) = [k \in 1 .. Len(cs) |->
                       IF \A j \in k .. Len(cs) - 1 : ~cs[j].filled
                       THEN Copied(cs[Len(cs)], cs[k].value) ELSE cs[k]]
    BY ONLY <2>1 DEF Share
  <2>4. es = [k \in 1 .. m |->
                IF \A j \in k .. m - 1 : ~cs[j].filled
                THEN Copied(e, cs[k].value) ELSE cs[k]]
    BY ONLY <1>3, <2>1, <2>2, <2>3
  <2>. QED BY ONLY <2>4, i \in 1 .. m
<1>9. ASSUME NEW i \in 1 .. m, ds[i].value \notin N PROVE es[i] = ds[i]
  <2>1. i # m BY <1>9
  <2>2. i \in i .. m - 1 BY <2>1
  <2>3. cs[i] = ds[i] BY <1>3, <2>1
  <2>4. cs[i].filled BY <1>9, <2>3 DEF LastOpen
  <2>. QED BY <1>8, <2>2, <2>3, <2>4
<1>10. ASSUME NEW i \in 1 .. m, ds[i].value \in N
       PROVE  es[i].filled /\ Told(es[i], src[es[i].value])
  <2>1. ASSUME NEW j \in i .. m - 1 PROVE ~cs[j].filled
    <3>1. j \in 1 .. m /\ i <= j /\ j # m OBVIOUS
    <3>2. ds[j].value \in N BY <1>10, <3>1 DEF LastOpen
    <3>3. cs[j] = ds[j] BY <1>3, <3>1
    <3>. QED BY <3>1, <3>2, <3>3 DEF LastOpen
  <2>2. PICK w : w = ds[i].value OBVIOUS
  <2>3. w \in Value
    <3>1. ds[i] \in Detail BY ElementOfSeq
    <3>. QED BY <2>2, <3>1 DEF Detail
  <2>4. es[i] = Copied(e, w)
    <3>1. \A j \in i .. m - 1 : ~cs[j].filled BY <2>1
    <3>2. cs[i].value = w BY <1>6, <2>2
    <3>. QED BY <1>8, <3>1, <3>2
  <2>5. /\ Copied(e, w) \in Detail /\ PartsOK(Copied(e, w))
        /\ Copied(e, w).value = w /\ Copied(e, w).method = e.method
        /\ Copied(e, w).filled = e.filled
        /\ \A s : Follows(AllOf(e), s) => Follows(AllOf(Copied(e, w)), s)
    BY <2>3, CopiedParts
  <2>6. PICK c : c = Copied(e, w) OBVIOUS
  <2>7. src[w] \in Seq(Effect) BY <2>3
  <2>8. Follows(AllOf(c), src[w]) /\ (c.method = "none" => Silent(src[w]))
    BY <1>10, <2>2, <2>5, <2>6 DEF SuitsAll
  <2>9. Told(c, src[w]) BY <2>5, <2>6, <2>7, <2>8, ToldIs
  <2>10. c.filled = TRUE BY <2>5, <2>6
  <2>. QED BY <2>4, <2>5, <2>6, <2>9, <2>10
<1>. QED BY <1>5, <1>6, <1>9, <1>10

LEMMA CaseText ==
  ASSUME NEW b, b = Here.block, b \in Seq(Child), Here.braced \/ Len(b) <= 1
  PROVE  CaseBlock = b
<1>1. CASE Here.braced \/ b = << >> BY <1>1 DEF CaseBlock
<1>2. CASE ~Here.braced /\ b # << >>
  <2>1. Len(b) = 1
    <3>1. Len(b) \in Nat \ {0} BY <1>2, EmptySeq, LenProperties
    <3>2. Len(b) <= 1 BY <1>2
    <3>3. PICK l \in Nat \ {0} : l = Len(b) BY <3>1
    <3>. QED BY ONLY <3>2, <3>3
  <2>2. b[1] \in Child BY <2>1, ElementOfSeq
  <2>3. <<b[1]>> \in Seq(Child) /\ Len(<<b[1]>>) = 1 /\ <<b[1]>>[1] = b[1]
    BY <2>2
  <2>4. <<b[1]>> = b BY ONLY <2>1, <2>3, b \in Seq(Child), SeqEqual
  <2>. QED BY <1>2, <2>4 DEF CaseBlock
<1>. QED BY <1>1, <1>2

(* The stack of a case that ends.                                            *)
LEMMA CaseStack ==
  ASSUME IInv, NEW breaks \in BOOLEAN, LeaveCase(breaks), NEW tt, tt = stack'
  PROVE  /\ Len(tt) = Top - 1 /\ Top \in Nat \ {0, 1, 2}
         /\ stack[Top - 1].kind = "switch" /\ tt[1] = stack[1]
         /\ \A k \in 1 .. Top - 1 :
              /\ tt[k].kind = stack[k].kind /\ tt[k].test = stack[k].test
              /\ tt[k].block = stack[k].block
<1>. DEFINE n == Len(stack)
<1>1. /\ Here.kind = "case" /\ n \in Nat \ {0} /\ n \in 1 .. n /\ n = Top
      /\ stack \in Seq(Frame) /\ Here = stack[n] /\ Nested(stack)
  BY Facts DEF LeaveCase
<1>2. n # 1 /\ stack[n - 1].kind = "switch" /\ stack[1].kind = "loop"
  BY <1>1 DEF Nested
<1>3. n - 1 # 1 BY <1>2
<1>4. PICK h : h = Front(stack) OBVIOUS
<1>5. h \in Seq(Frame) /\ Len(h) = n - 1 /\ \A k \in 1 .. n - 1 : h[k] = stack[k]
  <2>1. /\ StackOK(Front(stack), equal, Resolved, forms)
        /\ Len(Front(stack)) = Len(stack) - 1
        /\ \A k \in 1 .. Len(stack) - 1 : Front(stack)[k] = stack[k]
    BY <1>1, Facts, PopOK
  <2>. QED BY <1>4, <2>1 DEF StackOK
<1>6. PICK p : p = IF breaks THEN {} ELSE Here.path OBVIOUS
<1>7. n - 1 \in 1 .. n - 1 /\ n - 1 \in 1 .. Len(h) /\ n - 1 \in Nat BY <1>1, <1>2, <1>5
<1>8. PICK g : g = [h[n - 1] EXCEPT !.path = p] OBVIOUS
<1>9. h[n - 1] \in Frame BY <1>5, <1>7, ElementOfSeq
<1>10. g.kind = h[n - 1].kind /\ g.test = h[n - 1].test /\ g.block = h[n - 1].block
  BY <1>8, <1>9 DEF Frame
<1>11. p \in SUBSET Value BY <1>6, Facts DEF Frame
<1>12. g \in Frame BY <1>8, <1>9, <1>11 DEF Frame
<1>13. tt = [h EXCEPT ![n - 1] = g]
  <2>1. stack' = [h EXCEPT ![Top - 1].path = p] BY <1>4, <1>6 DEF LeaveCase
  <2>. QED BY <1>1, <1>8, <2>1
<1>14. Len(tt) = n - 1 /\ \A k \in 1 .. n - 1 : tt[k] = IF k = n - 1 THEN g ELSE h[k]
  BY <1>5, <1>7, <1>12, <1>13, ExceptSeq
<1>15. 1 \in 1 .. n - 1 /\ 1 # n - 1 BY <1>3, <1>7
<1>16. tt[1] = stack[1] BY <1>5, <1>14, <1>15
<1>17. ASSUME NEW k \in 1 .. n - 1
       PROVE  /\ tt[k].kind = stack[k].kind /\ tt[k].test = stack[k].test
              /\ tt[k].block = stack[k].block
  <2>1. CASE k = n - 1
    <3>1. tt[k] = g /\ h[n - 1] = stack[k] BY <1>5, <1>14, <2>1
    <3>. QED BY <1>10, <3>1
  <2>2. CASE k # n - 1
    <3>1. tt[k] = stack[k] BY <1>5, <1>14, <2>2
    <3>. QED BY <3>1
  <2>. QED BY <2>1, <2>2
<1>. QED BY <1>1, <1>2, <1>3, <1>14, <1>16, <1>17

LEMMA LeaveCaseNames ==
  ASSUME IInv, equal, forms' = {}, ByName(stack, details, source),
         NEW breaks \in BOOLEAN, LeaveCase(breaks)
  PROVE  ByName(stack', details', source')
<1>1. /\ Here.kind = "case" /\ source' = source
      /\ (~Here.braced \/ Here.block # << >>) = TRUE
  BY DEF LeaveCase
<1>2. PICK n, m, b : n = Top /\ m = Len(details) /\ b = Here.block OBVIOUS
<1>3. /\ stack \in Seq(Frame) /\ Nested(stack) /\ n \in Nat \ {0} /\ n = Len(stack)
      /\ Here = stack[n] /\ b \in Seq(Child) /\ n \in 1 .. n
      /\ details \in Seq(Detail) /\ m \in Nat
      /\ source \in [Value -> Seq(Effect)]
  BY <1>2, Facts
<1>4. /\ details # << >> /\ m \in Nat \ {0} /\ details[m] \in Detail
      /\ NamesOf(stack[n]) = stack[n].path
      /\ details[m].value \in NamesOf(stack[n])
      /\ Gathers(details[m], stack, n, source)
  <2>1. n \in 1 .. Len(stack) /\ stack[n].kind = "case" BY <1>1, <1>3
  <2>2. stack[n].kind \in {"if", "case"}
        /\ (stack[n].kind = "if" /\ details # << >>
            => stack[n].test = details[Len(details)].value)
    BY <2>1
  <2>. QED BY <1>2, <1>3, <2>1, <2>2, WorkFacts
<1>5. PICK N : N = NamesOf(stack[n]) OBVIOUS
<1>6. ~InListOf(stack) BY <1>1, <1>3 DEF InListOf
<1>7. PICK d : d = details[m] OBVIOUS
<1>8. NoBody(d) /\ BodyOf(d, b) /\ Records(d, Flat(b), N, source)
  <2>1. Len(stack) \in Nat /\ Gathers(d, stack, Len(stack), source) BY <1>3, <1>4, <1>7
  <2>2. b = stack[Len(stack)].block /\ N = NamesOf(stack[Len(stack)]) BY <1>2, <1>3, <1>5
  <2>. QED BY <1>6, <2>1, <2>2, GatheredText
<1>9. FrameOK(stack[n], n, n, details) /\ BranchOK(stack)
  BY <1>3 DEF ByName, Arranged
<1>10. /\ Here.braced \/ Len(b) <= 1
       /\ \A i, j \in 1 .. m : i <= j /\ details[i].value \in N => details[j].value \in N
  <2>1. /\ ~Here.braced => Len(b) + (n - n) <= 1
        /\ \A i, j \in 1 .. m : i <= j /\ details[i].value \in N => details[j].value \in N
    BY <1>1, <1>2, <1>3, <1>4, <1>5, <1>9 DEF FrameOK
  <2>2. Len(b) \in Nat BY <1>3, LenProperties
  <2>3. n - n = 0 BY <1>3
  <2>. QED BY <2>1, <2>2, <2>3
<1>11. PICK e : e = Filled(d, BodyText(b), TRUE) OBVIOUS
<1>12. /\ e \in Detail /\ PartsOK(e) /\ AllOf(e) = Flat(b)
       /\ e.value = d.value /\ e.method = d.method /\ e.filled
  <2>1. d \in Detail /\ b \in Seq(Child) /\ NoBody(d) /\ BodyOf(d, b)
    BY <1>3, <1>4, <1>7, <1>8
  <2>. QED BY ONLY <1>11, <2>1, FilledParts
<1>13. PICK es : es = details' OBVIOUS
<1>14. es = Share(WithLast(details, e))
  <2>1. CaseBlock = b BY <1>2, <1>3, <1>10, CaseText
  <2>2. [details EXCEPT ![Len(details)] =
           Filled(@, BodyText(CaseBlock), ~Here.braced \/ Here.block # << >>)]
        = WithLast(details, e)
    BY <1>1, <1>2, <1>7, <1>11, <2>1 DEF WithLast
  <2>. QED BY <1>4, <1>13, <2>2 DEF LeaveCase
<1>15. Open(stack) = N
  <2>1. ASSUME NEW k \in 1 .. n, k # n PROVE NamesOf(stack[k]) = {}
    <3>1. stack[k].kind # "case" /\ stack[k].kind # "if" BY <1>1, <1>3, <2>1 DEF Nested
    <3>2. stack[k].kind \notin Branching BY <1>1, <1>3, <1>9 DEF BranchOK
    <3>. QED BY <3>1, <3>2 DEF NamesOf
  <2>2. ASSUME NEW v PROVE v \in Open(stack) <=> v \in N
    <3>1. v \in Open(stack) <=> \E k \in 1 .. n : v \in NamesOf(stack[k])
      BY <1>3, OpenIs
    <3>. QED BY <1>3, <1>5, <2>1, <3>1
  <2>. QED BY <2>2
<1>16. \A i \in 1 .. m : details[i].filled <=> details[i].value \notin N
  BY <1>2, <1>15 DEF ByName
<1>17. \A v \in N : /\ Follows(AllOf(e), source[v])
                    /\ e.method = "none" => Silent(source[v])
  BY <1>8, <1>12 DEF Records
<1>18. /\ es \in Seq(Detail) /\ Len(es) = m
       /\ \A i \in 1 .. m :
            /\ es[i].value = details[i].value
            /\ details[i].value \notin N => es[i] = details[i]
            /\ details[i].value \in N => es[i].filled /\ Told(es[i], source[es[i].value])
  <2>1. e.value = details[m].value /\ e.value \in N BY <1>4, <1>5, <1>7, <1>12
  <2>2. e \in Detail /\ PartsOK(e) /\ e.filled BY <1>12
  <2>3. m \in Nat \ {0} /\ m = Len(details) /\ details \in Seq(Detail)
        /\ source \in [Value -> Seq(Effect)]
    BY <1>2, <1>3, <1>4
  <2>4. LastOpen(details, N) BY <1>2, <1>10, <1>16 DEF LastOpen
  <2>5. SuitsAll(e, N, source) BY <1>17 DEF SuitsAll
  <2>. QED BY ONLY <1>14, <2>1, <2>2, <2>3, <2>4, <2>5, SharedOK
<1>19. PICK tt : tt = stack' OBVIOUS
<1>20. /\ Len(tt) = n - 1 /\ tt[1] = stack[1]
       /\ \A k \in 1 .. n - 1 :
            /\ tt[k].kind = stack[k].kind /\ tt[k].test = stack[k].test
            /\ tt[k].block = stack[k].block
  BY <1>2, <1>19, CaseStack
<1>21. ByName(tt, es, source)
  <2>1. tt[1].block \in Seq(ChildOf({})) BY <1>20 DEF ByName, Arranged
  <2>2. stack[Len(stack)].kind \in {"if", "else", "case"} BY <1>1, <1>3
  <2>3. Len(tt) = Len(stack) - 1 BY <1>3, <1>20
  <2>4. \A k \in 1 .. Len(stack) - 1 :
          /\ tt[k].kind = stack[k].kind /\ tt[k].test = stack[k].test
          /\ stack[k].kind \in Branching => tt[k].block = stack[k].block
    BY <1>3, <1>20
  <2>5. Len(es) = Len(details) BY <1>2, <1>18
  <2>6. \A i \in 1 .. Len(details) :
          /\ es[i].value = details[i].value
          /\ details[i].value \notin NamesOf(stack[Len(stack)]) => es[i] = details[i]
          /\ details[i].value \in NamesOf(stack[Len(stack)]) =>
               es[i].filled /\ Told(es[i], source[es[i].value])
    BY <1>2, <1>3, <1>5, <1>18
  <2>. QED BY <1>3, <1>18, <2>1, <2>2, <2>3, <2>4, <2>5, <2>6, CloseBodyOK
<1>. QED BY <1>1, <1>13, <1>19, <1>21

-----------------------------------------------------------------------------
(* The steps that begin and end no body                                     *)

(* A statement that tests nothing begins.                                   *)
LEMMA PushQuiet ==
  ASSUME NEW st \in Seq(Frame), Nested(st), NEW ds, NEW src, ByName(st, ds, src),
         st[Len(st)].kind \in {"loop", "plain"},
         NEW f \in Frame, f.kind \in {"plain", "switch"},
         f.kind = "plain" => Len(st) = 1,
         NEW tt, tt = Append(st, f)
  PROVE  ByName(tt, ds, src)
<1>1. PICK n \in Nat \ {0} : n = Len(st) BY FrameSeq
<1>2. /\ \A k \in 1 .. n : FrameOK(st[k], k, n, ds)
      /\ st[1].block \in Seq(ChildOf({}))
  BY <1>1 DEF ByName, Arranged
<1>3. n \in 1 .. n BY <1>1
<1>4. n = 1 \/ (n = 2 /\ st[2].kind = "plain")
  <2>1. CASE st[n].kind = "loop" BY <1>1, <1>3, <2>1 DEF Nested
  <2>2. CASE st[n].kind = "plain" BY <1>2, <1>3, <2>2 DEF FrameOK
  <2>. QED BY <1>1, <2>1, <2>2
<1>5. ASSUME NEW k \in 1 .. n PROVE st[k].kind \in {"loop", "plain"} /\ (k = 1 \/ k = 2)
  <2>1. k = 1 \/ k = n BY <1>4
  <2>2. 1 \in 1 .. n /\ st[1].kind = "loop" BY <1>1 DEF Nested
  <2>. QED BY <1>1, <1>4, <2>1, <2>2
<1>6. /\ Len(tt) = n + 1 /\ tt[n + 1] = f
      /\ \A k \in 1 .. n : tt[k] = st[k]
      /\ \A k \in 1 .. n + 1 : k = n + 1 \/ k \in 1 .. n
  <2>1. st \in Seq(Frame) /\ Len(st) # 0 /\ f \in Frame BY <1>1
  <2>2. /\ Len(Append(st, f)) = Len(st) + 1
        /\ \A k \in 1 .. Len(st) : Append(st, f)[k] = st[k]
        /\ Append(st, f)[Len(st) + 1] = f
        /\ \A k \in 1 .. Len(st) + 1 : k = Len(st) + 1 \/ k \in 1 .. Len(st)
    BY ONLY <2>1, PushCases
  <2>. QED BY <1>1, <2>2
<1>7. ASSUME NEW k \in 1 .. n + 1
      PROVE  /\ tt[k].kind \in {"loop", "plain", "switch"}
             /\ FrameOK(tt[k], k, n + 1, ds)
  <2>1. CASE k \in 1 .. n
    <3>1. tt[k] = st[k] /\ tt[k].kind \in {"loop", "plain"} BY <1>5, <1>6, <2>1
    <3>2. FrameOK(st[k], k, n, ds) BY <1>2, <2>1
    <3>. QED BY <3>1, <3>2 DEF FrameOK
  <2>2. CASE k = n + 1
    <3>1. tt[k] = f BY <1>6, <2>2
    <3>2. f.kind = "plain" => k = 2 BY <1>1, <2>2
    <3>. QED BY <3>1, <3>2 DEF FrameOK
  <2>. QED BY <1>6, <2>1, <2>2
<1>8. BranchOK(tt) BY <1>6, <1>7 DEF BranchOK, Branching
<1>9. ~InListOf(st) /\ ~InListOf(tt)
  <2>1. n + 1 \in 1 .. n + 1 BY <1>1
  <2>2. tt[n + 1].kind \notin {"range", "for"} BY <1>7, <2>1
  <2>. QED BY <1>6, <2>2 DEF InListOf
<1>10. tt[1].block \in Seq(ChildOf({}))
  <2>1. tt[1] = st[1] BY <1>1, <1>6
  <2>. QED BY <1>2, <2>1
<1>11. \A k \in 1 .. Len(st) : st[k].kind \notin {"if", "else", "case"} BY <1>1, <1>5
<1>12. \A k \in 1 .. Len(tt) : /\ tt[k].kind \notin {"if", "else", "case"}
                               /\ FrameOK(tt[k], k, Len(tt), ds)
  BY <1>6, <1>7
<1>. QED BY <1>8, <1>9, <1>10, <1>11, <1>12, QuietOK

LEMMA EnterPlainNames ==
  ASSUME IInv, ByName(stack, details, source), NEW ofType \in BOOLEAN, EnterPlain(ofType)
  PROVE  ByName(stack', details', source')
<1>1. /\ Here.kind = "loop" /\ details' = details /\ source' = source
      /\ stack' = Append(stack, NewFrame("plain", Here.path))
  BY DEF EnterPlain
<1>2. /\ stack \in Seq(Frame) /\ Nested(stack) /\ Len(stack) = 1
      /\ stack[Len(stack)].kind = "loop" /\ Here.path \in SUBSET Value
  BY <1>1, Facts DEF Frame
<1>3. PICK f : f = NewFrame("plain", Here.path) OBVIOUS
<1>4. f \in Frame /\ f.kind = "plain"
  <2>1. Pushed(f, "plain", None) BY <1>2, <1>3, NewFrameIs
  <2>. QED BY <2>1 DEF Pushed
<1>5. PICK tt : tt = stack' OBVIOUS
<1>6. tt = Append(stack, f) BY <1>1, <1>3, <1>5
<1>7. ByName(tt, details, source) BY <1>2, <1>4, <1>6, PushQuiet
<1>. QED BY <1>1, <1>5, <1>7

LEMMA EnterSwitchNames ==
  ASSUME IInv, ByName(stack, details, source), EnterSwitch
  PROVE  ByName(stack', details', source')
<1>1. /\ Here.kind \in {"loop", "plain"} /\ details' = details /\ source' = source
      /\ stack' = Append(stack, [NewFrame("switch", {}) EXCEPT !.rest = Here.path])
  BY DEF EnterSwitch
<1>2. /\ stack \in Seq(Frame) /\ Nested(stack) /\ {} \in SUBSET Value
      /\ stack[Len(stack)].kind \in {"loop", "plain"} /\ Here.path \in SUBSET Value
  BY <1>1, Facts DEF Frame
<1>3. PICK f : f = [NewFrame("switch", {}) EXCEPT !.rest = Here.path] OBVIOUS
<1>4. f \in Frame /\ f.kind = "switch"
  <2>1. Pushed(f, "switch", None) BY <1>2, <1>3, NewFrameIs
  <2>. QED BY <2>1 DEF Pushed
<1>5. PICK tt : tt = stack' OBVIOUS
<1>6. tt = Append(stack, f) BY <1>1, <1>3, <1>5
<1>7. ByName(tt, details, source) BY <1>2, <1>4, <1>6, PushQuiet
<1>. QED BY <1>1, <1>5, <1>7

(* Such a statement ends.                                                   *)
LEMMA PopQuiet ==
  ASSUME IInv, ByName(stack, details, source), Here.kind \in {"plain", "switch"},
         NEW kind \in {"stmt", "if"}, NEW tt,
         tt = Closed([kind |-> kind, items |-> << >>])
  PROVE  ByName(tt, details, source)
<1>1. PICK n : n = Top OBVIOUS
<1>2. /\ stack \in Seq(Frame) /\ Nested(stack) /\ n \in Nat \ {0} /\ n = Len(stack)
      /\ Here = stack[n]
  BY <1>1, Facts
<1>3. /\ \A k \in 1 .. n : FrameOK(stack[k], k, n, details)
      /\ BranchOK(stack) /\ stack[1].block \in Seq(ChildOf({}))
  BY <1>2 DEF ByName, Arranged
<1>4. /\ n \in Nat \ {0, 1} /\ Len(tt) = n - 1
      /\ \A k \in 1 .. n - 1 :
           /\ tt[k].kind = stack[k].kind /\ tt[k].test = stack[k].test
           /\ stack[k].kind = "else" => tt[k].block = stack[k].block
      /\ tt[1].block \in Seq(ChildOf({}))
  <2>1. Here.kind # "loop" OBVIOUS
  <2>2. IInv /\ tt = Closed([kind |-> kind, items |-> << >>])
        /\ stack[1].block \in Seq(ChildOf({}))
    BY <1>3
  <2>3. /\ tt \in Seq(Frame) /\ Top \in Nat \ {0, 1} /\ Len(tt) = Top - 1
        /\ \A k \in 1 .. Top - 1 :
             /\ tt[k].kind = stack[k].kind /\ tt[k].test = stack[k].test
             /\ tt[k].path = stack[k].path
             /\ stack[k].kind = "else" => tt[k].block = stack[k].block
        /\ tt[1].block \in Seq(ChildOf({}))
    BY ONLY <2>1, <2>2, kind \in {"stmt", "if"}, ClosedChild
  <2>. QED BY <1>1, <2>3
<1>5. ASSUME NEW k \in 1 .. n - 1
      PROVE  /\ k \in 1 .. n
             /\ stack[k].kind \notin {"if", "case", "range", "for"}
             /\ tt[k].kind = stack[k].kind /\ tt[k].test = stack[k].test
             /\ stack[k].kind = "else" => tt[k].block = stack[k].block
             /\ FrameOK(tt[k], k, n - 1, details)
  <2>1. k \in 1 .. n /\ k # n BY <1>2
  <2>2. stack[k].kind \notin {"if", "case", "range", "for"} BY <1>2, <2>1 DEF Nested
  <2>3. FrameOK(stack[k], k, n, details) BY <1>3, <2>1
  <2>4. tt[k].kind = stack[k].kind BY <1>4
  <2>5. FrameOK(tt[k], k, n - 1, details) BY <2>2, <2>3, <2>4 DEF FrameOK
  <2>. QED BY <1>4, <2>1, <2>2, <2>5
<1>6. BranchOK(tt)
  <2>1. \A k \in 1 .. n - 1 : k \in 1 .. Len(stack) /\ tt[k].kind = stack[k].kind
                              /\ tt[k].test = stack[k].test
    BY <1>2, <1>5
  <2>. QED BY ONLY <1>3, <1>4, <2>1 DEF BranchOK
<1>7. ~InListOf(stack) /\ ~InListOf(tt)
  <2>1. n - 1 \in 1 .. n - 1 BY <1>4
  <2>2. tt[n - 1].kind \notin {"range", "for"} BY <1>5, <2>1
  <2>. QED BY <1>2, <1>4, <2>2 DEF InListOf
<1>8. \A k \in 1 .. Len(stack) :
        \/ stack[k].kind \notin {"if", "else", "case"}
        \/ k \in 1 .. Len(tt) /\ SameTest(tt[k], stack[k])
  <2>1. SUFFICES ASSUME NEW k \in 1 .. n, stack[k].kind \in {"if", "else", "case"}
                 PROVE  k \in 1 .. Len(tt) /\ SameTest(tt[k], stack[k])
    BY <1>2
  <2>2. k # n BY <1>2, <2>1
  <2>3. k \in 1 .. n - 1 BY <1>2, <2>2
  <2>4. stack[k].kind = "else" BY <1>5, <2>1, <2>3
  <2>. QED BY <1>4, <1>5, <2>3, <2>4 DEF SameTest, Branching
<1>9. \A k \in 1 .. Len(tt) :
        \/ tt[k].kind \notin {"if", "else", "case"}
        \/ k \in 1 .. Len(stack) /\ SameTest(tt[k], stack[k])
  BY <1>2, <1>4, <1>5 DEF SameTest, Branching
<1>10. \A k \in 1 .. Len(tt) : FrameOK(tt[k], k, Len(tt), details) BY <1>4, <1>5
<1>. QED BY <1>4, <1>6, <1>7, <1>8, <1>9, <1>10, QuietOK

LEMMA LeaveQuietNames ==
  ASSUME IInv, ByName(stack, details, source), LeavePlain \/ LeaveSwitch
  PROVE  ByName(stack', details', source')
<1>1. PICK tt : tt = stack' OBVIOUS
<1>2. details' = details /\ source' = source BY DEF LeavePlain, LeaveSwitch
<1>3. Here.kind \in {"plain", "switch"} BY DEF LeavePlain, LeaveSwitch
<1>4. PICK kind \in {"stmt", "if"} : tt = Closed([kind |-> kind, items |-> << >>])
  BY <1>1 DEF LeavePlain, LeaveSwitch
<1>5. ByName(tt, details, source) BY <1>3, <1>4, PopQuiet
<1>. QED BY <1>1, <1>2, <1>5

LEMMA EnterElseNames ==
  ASSUME IInv, ByName(stack, details, source), EnterElse
  PROVE  ByName(stack', details', source')
<1>1. PICK n : n = Top OBVIOUS
<1>2. /\ stack \in Seq(Frame) /\ Nested(stack) /\ n \in Nat \ {0} /\ n = Len(stack)
      /\ Here = stack[n] /\ Here.kind = "if" /\ details' = details /\ source' = source
      /\ n \in 1 .. n /\ Here \in Frame
  BY <1>1, Facts DEF EnterElse
<1>3. /\ \A k \in 1 .. n : FrameOK(stack[k], k, n, details)
      /\ BranchOK(stack) /\ stack[1].block \in Seq(ChildOf({}))
  BY <1>2 DEF ByName, Arranged
<1>4. PICK tt : tt = stack' OBVIOUS
<1>5. PICK f : f = [Here EXCEPT !.kind = "else", !.path = Here.rest] OBVIOUS
<1>6. f.kind = "else" /\ f.test = Here.test /\ f.block = Here.block
  BY <1>2, <1>5 DEF Frame
<1>7. tt = [stack EXCEPT ![n] = f]
  BY <1>1, <1>4, <1>5 DEF EnterElse, Here
<1>8. Len(tt) = n /\ tt[n] = f /\ \A k \in 1 .. n : k # n => tt[k] = stack[k]
  BY <1>2, <1>7
<1>9. ASSUME NEW k \in 1 .. n
      PROVE  /\ tt[k] = stack[k] \/ tt[k].kind = "else"
             /\ tt[k].kind \in Branching <=> stack[k].kind \in Branching
             /\ tt[k].kind \in {"switch", "case"} <=> stack[k].kind \in {"switch", "case"}
             /\ tt[k].kind \notin {"range", "for"} /\ tt[k].kind # "case"
             /\ stack[k].kind # "case"
             /\ tt[k].test = stack[k].test /\ tt[k].block = stack[k].block
  <2>1. CASE k # n
    <3>1. tt[k] = stack[k] BY <1>8, <2>1
    <3>2. stack[k].kind \notin {"range", "for", "case"} BY <1>2, <2>1 DEF Nested
    <3>. QED BY <3>1, <3>2
  <2>2. CASE k = n BY <1>2, <1>6, <1>8, <2>2 DEF Branching
  <2>. QED BY <2>1, <2>2
<1>10. BranchOK(tt)
  <2>1. SUFFICES ASSUME NEW k \in 1 .. n, NEW j \in 1 .. n, tt[k].kind \in Branching
                 PROVE  /\ tt[j].kind \notin {"switch", "case"}
                        /\ tt[j].kind \in Branching /\ tt[j].test = tt[k].test => j = k
    BY <1>8 DEF BranchOK
  <2>2. stack[k].kind \in Branching BY <1>9, <2>1
  <2>3. /\ stack[j].kind \notin {"switch", "case"}
        /\ stack[j].kind \in Branching /\ stack[j].test = stack[k].test => j = k
    BY <1>2, <1>3, <2>2 DEF BranchOK
  <2>. QED BY <1>9, <2>3
<1>11. ASSUME NEW k \in 1 .. n PROVE FrameOK(tt[k], k, n, details)
  <2>1. CASE tt[k] = stack[k] BY <1>3, <2>1
  <2>2. CASE tt[k].kind = "else" BY <2>2 DEF FrameOK
  <2>. QED BY <1>9, <2>1, <2>2
<1>12. ~InListOf(stack) /\ ~InListOf(tt)
  BY <1>2, <1>6, <1>8 DEF InListOf
<1>13. tt[1].block \in Seq(ChildOf({}))
  <2>1. 1 \in 1 .. n BY <1>2
  <2>. QED BY <1>3, <1>9, <2>1
<1>14. ASSUME NEW k \in 1 .. n
       PROVE  /\ \/ stack[k].kind \notin {"if", "else", "case"}
                 \/ k \in 1 .. n /\ SameTest(tt[k], stack[k])
              /\ \/ tt[k].kind \notin {"if", "else", "case"}
                 \/ k \in 1 .. n /\ SameTest(tt[k], stack[k])
  BY <1>9 DEF SameTest, Branching
<1>15. ByName(tt, details, source)
  BY <1>2, <1>8, <1>10, <1>11, <1>12, <1>13, <1>14, QuietOK
<1>. QED BY <1>2, <1>4, <1>15

-----------------------------------------------------------------------------
(* The names that are tested get a detail each.                             *)
LEMMA AddValuesNames ==
  ASSUME details \in Seq(Detail), NoTwice(details), NEW vs \in Tests
  PROVE  Values(AddValues(vs)) = Values(details) \cup Range(vs)
<1>1. /\ Len(vs) \in {1, 2} /\ vs[1] \in Value /\ (Len(vs) = 2 => vs[2] \in Value)
      /\ \A x : x \in Range(vs) <=> \E i \in 1 .. Len(vs) : x = vs[i]
  BY TestsIs
<1>2. PICK one : one = AddValue(details, vs[1]) OBVIOUS
<1>3. Extends(one, details) /\ Values(one) = Values(details) \cup {vs[1]}
  BY <1>1, <1>2, AddValueIs
<1>4. CASE Len(vs) = 1
  <2>1. Range(vs) = {vs[1]}
    <3>1. \A i \in 1 .. Len(vs) : i = 1 BY <1>4
    <3>2. 1 \in 1 .. Len(vs) BY <1>4
    <3>. QED BY ONLY <1>1, <3>1, <3>2
  <2>2. AddValues(vs) = one BY <1>2, <1>4, AddValuesSteps
  <2>. QED BY <1>3, <2>1, <2>2
<1>5. CASE Len(vs) = 2
  <2>1. Range(vs) = {vs[1], vs[2]}
    <3>1. \A i \in 1 .. Len(vs) : i = 1 \/ i = 2 BY <1>5
    <3>2. 1 \in 1 .. Len(vs) /\ 2 \in 1 .. Len(vs) BY <1>5
    <3>. QED BY ONLY <1>1, <3>1, <3>2
  <2>2. AddValues(vs) = AddValue(one, vs[2]) BY <1>2, <1>5, AddValuesSteps
  <2>3. one \in Seq(Detail) /\ NoTwice(one) /\ vs[2] \in Value
    BY <1>1, <1>3, <1>5 DEF Extends
  <2>4. Values(AddValue(one, vs[2])) = Values(one) \cup {vs[2]} BY ONLY <2>3, AddValueIs
  <2>. QED BY ONLY <1>3, <2>1, <2>2, <2>4
<1>. QED BY <1>1, <1>4, <1>5

(* Names that have not been tested before.                                  *)
LEMMA NewNames ==
  ASSUME IInv, NEW vs \in Tests, Distinct(vs), ~Again(vs),
         NEW es, es = AddValues(vs)
  PROVE  /\ Extends(es, details) /\ Values(es) = Values(details) \cup Range(vs)
         /\ Range(vs) # {} /\ Range(vs) \in SUBSET Value
         /\ Range(vs) \cap Values(details) = {}
<1>1. details \in Seq(Detail) /\ NoTwice(details) BY Facts
<1>2. Extends(AddValues(vs), details) BY <1>1, AddValuesIs
<1>3. Values(AddValues(vs)) = Values(details) \cup Range(vs) BY <1>1, AddValuesNames
<1>4. /\ Len(vs) \in {1, 2} /\ vs[1] \in Value /\ (Len(vs) = 2 => vs[2] \in Value)
      /\ \A x : x \in Range(vs) <=> \E i \in 1 .. Len(vs) : x = vs[i]
  BY TestsIs
<1>5. vs[1] \in Range(vs)
  <2>1. 1 \in 1 .. Len(vs) BY <1>4
  <2>. QED BY <1>4, <2>1
<1>6. Range(vs) \subseteq Value
  <2>1. SUFFICES ASSUME NEW i \in 1 .. Len(vs) PROVE vs[i] \in Value BY <1>4
  <2>2. i = 1 \/ (i = 2 /\ Len(vs) = 2) BY <1>4
  <2>. QED BY <1>4, <2>2
<1>. QED BY <1>2, <1>3, <1>5, <1>6 DEF Again

LEMMA NoSwitch ==
  ASSUME NEW st \in Seq(Frame), Nested(st), NEW ds, NEW src, ByName(st, ds, src),
         st[Len(st)].kind \in {"loop", "plain", "else"}
  PROVE  \A k \in 1 .. Len(st) : st[k].kind # "switch"
<1>1. PICK n \in Nat \ {0} : n = Len(st) BY FrameSeq
<1>2. (\A k \in 1 .. n : FrameOK(st[k], k, n, ds)) /\ BranchOK(st)
  BY <1>1 DEF ByName, Arranged
<1>3. n \in 1 .. n /\ 1 \in 1 .. n BY <1>1
<1>4. CASE st[n].kind = "else" BY <1>1, <1>2, <1>3, <1>4 DEF BranchOK, Branching
<1>5. CASE st[n].kind \in {"loop", "plain"}
  <2>1. n = 1 \/ n = 2
    <3>1. CASE st[n].kind = "loop" BY <1>1, <1>3, <3>1 DEF Nested
    <3>2. CASE st[n].kind = "plain" BY <1>2, <1>3, <3>2 DEF FrameOK
    <3>. QED BY <1>5, <3>1, <3>2
  <2>2. \A k \in 1 .. n : k = 1 \/ k = n BY <2>1
  <2>3. st[1].kind = "loop" BY <1>1, <1>3 DEF Nested
  <2>. QED BY <1>1, <1>5, <2>2, <2>3
<1>. QED BY <1>1, <1>4, <1>5

LEMMA TestEqualNames ==
  ASSUME IInv, equal, forms' = {}, ByName(stack, details, source),
         NEW vs \in Tests, TestEqual(vs)
  PROVE  ByName(stack', details', source')
<1>1. /\ Here.kind \in {"loop", "plain", "else"} /\ Distinct(vs)
      /\ details' = AddValues(vs) /\ source' = source
      /\ Range(vs) \subseteq Here.path
      /\ ~Again(vs) /\ ~(Len(vs) > 1)
  BY DEF TestEqual, FormsOf
<1>2. /\ stack \in Seq(Frame) /\ Nested(stack) /\ stack[Len(stack)] = Here
      /\ Here.path \in SUBSET Value /\ details \in Seq(Detail) /\ Len(stack) \in Nat \ {0}
  BY Facts DEF Frame
<1>3. PICK es : es = details' OBVIOUS
<1>4. /\ Extends(es, details) /\ Values(es) = Values(details) \cup Range(vs)
      /\ Range(vs) # {} /\ Range(vs) \in SUBSET Value
      /\ Range(vs) \cap Values(details) = {}
  <2>1. es = AddValues(vs) BY <1>1, <1>3
  <2>. QED BY <1>1, <2>1, NewNames
<1>5. PICK v \in Value : v = vs[Len(vs)] BY TestsIs
<1>6. Range(vs) = {v}
  <2>1. /\ Len(vs) \in {1, 2}
        /\ \A x : x \in Range(vs) <=> \E i \in 1 .. Len(vs) : x = vs[i]
    BY TestsIs
  <2>2. Len(vs) = 1 BY <1>1, <2>1
  <2>3. \A i \in 1 .. Len(vs) : i = Len(vs) BY <2>2
  <2>4. Len(vs) \in 1 .. Len(vs) BY <2>2
  <2>. QED BY ONLY <1>5, <2>1, <2>3, <2>4
<1>7. PICK f : f = [NewFrame("if", Range(vs)) EXCEPT !.rest = Here.path \ Range(vs),
                                                    !.test = vs[Len(vs)]]
  OBVIOUS
<1>8. f \in Frame /\ f.kind = "if" /\ f.block = << >> /\ f.test = v /\ f.path = {v}
  <2>1. Here.path \ Range(vs) \in SUBSET Value BY <1>2
  <2>2. Pushed(f, "if", v) BY <1>4, <1>5, <1>7, <2>1, NewFrameIs
  <2>3. f.path = Range(vs) BY <1>7 DEF NewFrame
  <2>. QED BY <1>6, <2>2, <2>3 DEF Pushed
<1>9. PICK tt : tt = stack' OBVIOUS
<1>10. /\ Len(tt) = Len(stack) + 1 /\ tt[Len(stack) + 1] = f
       /\ \A k \in 1 .. Len(stack) : tt[k] = stack[k]
  <2>1. tt = Append(stack, f) BY <1>7, <1>9 DEF TestEqual
  <2>2. stack \in Seq(Frame) /\ Len(stack) # 0 /\ f \in Frame BY <1>2, <1>8
  <2>. QED BY ONLY <2>1, <2>2, PushCases
<1>11. NamesOf(f) = {v} BY <1>8 DEF NamesOf, Branching
<1>12. \A k \in 1 .. Len(stack) : stack[k].kind # "switch"
  BY <1>1, <1>2, NoSwitch
<1>13. ByName(tt, es, source)
  <2>1. /\ NamesOf(f) # {} /\ NamesOf(f) \in SUBSET Value
        /\ NamesOf(f) \cap Values(details) = {}
        /\ Values(es) = Values(details) \cup NamesOf(f)
    BY <1>4, <1>6, <1>11
  <2>2. f.kind = "if" => /\ f.path = {f.test}
                         /\ \A k \in 1 .. Len(stack) : stack[k].kind # "switch"
    BY <1>8, <1>12
  <2>3. f.kind = "case" => \A k \in 1 .. Len(stack) : stack[k].kind \notin Branching
    BY <1>8
  <2>4. f.kind \in {"if", "case"} /\ f.block = << >> BY <1>8
  <2>5. stack[Len(stack)].kind \in {"loop", "plain", "else", "switch"} BY <1>1, <1>2
  <2>6. /\ stack \in Seq(Frame) /\ Nested(stack) /\ details \in Seq(Detail)
        /\ ByName(stack, details, source) /\ Extends(es, details)
    BY <1>2, <1>4
  <2>7. Opens(tt, stack, f) BY ONLY <1>10, <2>2, <2>3, <2>4 DEF Opens
  <2>. QED BY ONLY <2>1, <2>5, <2>6, <2>7, OpenOK
<1>. QED BY <1>1, <1>3, <1>9, <1>13

(* The switch in hand with fewer names left.                                *)
LEMMA SwitchRest ==
  ASSUME IInv, ByName(stack, details, source), Here.kind = "switch",
         NEW g \in Frame, g.kind = "switch",
         NEW tt \in Seq(Frame), Len(tt) = Top, tt[Top] = g,
         \A k \in 1 .. Top : k # Top => tt[k] = stack[k]
  PROVE  /\ Nested(tt) /\ ByName(tt, details, source)
         /\ \A k \in 1 .. Top : tt[k].kind \notin Branching
<1>1. PICK n : n = Top OBVIOUS
<1>2. /\ stack \in Seq(Frame) /\ Nested(stack) /\ n \in Nat \ {0} /\ n = Len(stack)
      /\ stack[n].kind = "switch" /\ n \in 1 .. n /\ 1 \in 1 .. n
  BY <1>1, Facts
<1>3. /\ \A k \in 1 .. n : FrameOK(stack[k], k, n, details)
      /\ BranchOK(stack) /\ stack[1].block \in Seq(ChildOf({}))
  BY <1>2 DEF ByName, Arranged
<1>4. stack[1].kind = "loop" BY <1>2 DEF Nested
<1>5. tt[1] = stack[1]
  <2>1. n # 1 BY <1>2, <1>4
  <2>. QED BY <1>1, <1>2, <2>1
<1>6. ASSUME NEW k \in 1 .. n
      PROVE  /\ tt[k].kind = stack[k].kind
             /\ stack[k].kind \notin {"if", "else", "case", "range", "for"}
             /\ FrameOK(tt[k], k, n, details)
  <2>1. tt[k].kind = stack[k].kind
    <3>1. CASE k = n BY <1>1, <1>2, <3>1
    <3>2. CASE k # n
      <4>1. tt[k] = stack[k] BY <1>1, <3>2
      <4>. QED BY <4>1
    <3>. QED BY <3>1, <3>2
  <2>2. stack[k].kind \notin {"if", "case", "range", "for"}
    <3>1. stack[Len(stack)].kind \in {"loop", "plain", "else", "switch"} BY <1>2
    <3>2. \A j \in 1 .. Len(stack) : stack[j].kind \notin {"if", "case", "range", "for"}
      BY ONLY <1>2, <3>1, OuterFrames
    <3>. QED BY <1>2, <3>2
  <2>3. stack[k].kind \notin Branching BY <1>2, <1>3 DEF BranchOK
  <2>4. FrameOK(stack[k], k, n, details) BY <1>3
  <2>5. FrameOK(tt[k], k, n, details) BY <2>1, <2>2, <2>4 DEF FrameOK
  <2>. QED BY <2>1, <2>2, <2>3, <2>5 DEF Branching
<1>7. Len(tt) = n BY <1>1
<1>8. Nested(tt)
  <2>1. \A k \in 1 .. n : tt[k].kind = "loop" <=> k = 1 BY <1>2, <1>6 DEF Nested
  <2>. QED BY <1>2, <1>6, <1>7, <2>1 DEF Nested
<1>9. BranchOK(tt) BY <1>6, <1>7 DEF BranchOK, Branching
<1>10. ~InListOf(stack) /\ ~InListOf(tt) BY <1>2, <1>6, <1>7 DEF InListOf
<1>11. \A k \in 1 .. Len(stack) : stack[k].kind \notin {"if", "else", "case"}
  BY <1>2, <1>6
<1>12. \A k \in 1 .. Len(tt) : /\ tt[k].kind \notin {"if", "else", "case"}
                               /\ FrameOK(tt[k], k, Len(tt), details)
  BY <1>6, <1>7
<1>13. tt[1].block \in Seq(ChildOf({})) BY <1>3, <1>5
<1>14. ByName(tt, details, source)
  BY <1>9, <1>10, <1>11, <1>12, <1>13, QuietOK
<1>15. \A k \in 1 .. n : tt[k].kind \notin Branching BY <1>6 DEF Branching
<1>. QED BY <1>1, <1>8, <1>14, <1>15

LEMMA EnterCaseNames ==
  ASSUME IInv, compared, forms' = {}, ByName(stack, details, source),
         NEW vs \in Tests, NEW braced \in BOOLEAN, EnterCase(vs, braced)
  PROVE  ByName(stack', details', source')
<1>1. /\ Here.kind = "switch" /\ Distinct(vs) /\ ~Again(vs) /\ Here.path = {}
      /\ details' = AddValues(vs) /\ source' = source
  BY DEF EnterCase
<1>2. PICK n : n = Len(stack) OBVIOUS
<1>3. /\ stack \in Seq(Frame) /\ Nested(stack) /\ stack[n] = Here /\ n = Top
      /\ Here.rest \in SUBSET Value /\ Here \in Frame
      /\ details \in Seq(Detail) /\ n \in Nat \ {0} /\ n \in 1 .. n
  BY <1>2, Facts DEF Frame
<1>4. PICK es : es = details' OBVIOUS
<1>5. /\ Extends(es, details) /\ Values(es) = Values(details) \cup Range(vs)
      /\ Range(vs) # {} /\ Range(vs) \in SUBSET Value
      /\ Range(vs) \cap Values(details) = {}
  <2>1. es = AddValues(vs) BY <1>1, <1>4
  <2>. QED BY <1>1, <2>1, NewNames
<1>6. PICK g : g = [Here EXCEPT !.rest = Here.rest \ Range(vs)] OBVIOUS
<1>7. PICK st : st = [stack EXCEPT ![n] = g] OBVIOUS
<1>8. PICK f : f = [NewFrame("case", Here.path \cup Range(vs)) EXCEPT !.braced = braced]
  OBVIOUS
<1>9. PICK tt : tt = stack' OBVIOUS
<1>10. tt = Append(st, f)
  <2>1. [stack EXCEPT ![Top].rest = @ \ Range(vs)] = [stack EXCEPT ![Top] = g]
    BY <1>3, <1>6
  <2>. QED BY <1>3, <1>7, <1>8, <1>9, <2>1 DEF EnterCase
<1>11. g \in Frame /\ g.kind = "switch"
  <2>1. Here.rest \ Range(vs) \in SUBSET Value BY <1>3
  <2>. QED BY <1>1, <1>3, <1>6, <2>1 DEF Frame
<1>12. f \in Frame /\ f.kind = "case" /\ f.block = << >> /\ f.path = Range(vs)
  <2>1. Here.path \cup Range(vs) \in SUBSET Value /\ Here.path \cup Range(vs) = Range(vs)
    BY <1>1, <1>5
  <2>2. Pushed(f, "case", None) BY <1>8, <2>1, NewFrameIs
  <2>3. f.path = Range(vs) BY <1>8, <2>1 DEF NewFrame
  <2>. QED BY <2>2, <2>3 DEF Pushed
<1>13. /\ st \in Seq(Frame) /\ Len(st) = n /\ st[n] = g
       /\ \A k \in 1 .. n : k # n => st[k] = stack[k]
  <2>0. stack \in Seq(Frame) /\ n \in 1 .. Len(stack) /\ g \in Frame BY <1>2, <1>3, <1>11
  <2>1. st \in Seq(Frame) /\ Len(st) = Len(stack) BY ONLY <1>7, <2>0, ExceptSeq
  <2>2. \A k \in 1 .. n : st[k] = IF k = n THEN g ELSE stack[k]
    BY <1>2, <1>3, <1>7, LenProperties
  <2>. QED BY <1>2, <1>3, <2>1, <2>2
<1>14. /\ Nested(st) /\ ByName(st, details, source)
       /\ \A k \in 1 .. n : st[k].kind \notin Branching
  BY <1>1, <1>3, <1>11, <1>13, SwitchRest
<1>15. /\ Len(tt) = Len(st) + 1 /\ tt[Len(st) + 1] = f
       /\ \A k \in 1 .. Len(st) : tt[k] = st[k]
  <2>1. st \in Seq(Frame) /\ Len(st) # 0 /\ f \in Frame BY <1>3, <1>12, <1>13
  <2>. QED BY ONLY <1>10, <2>1, PushCases
<1>16. NamesOf(f) = Range(vs) BY <1>12 DEF NamesOf
<1>17. ByName(tt, es, source)
  <2>1. /\ NamesOf(f) # {} /\ NamesOf(f) \in SUBSET Value
        /\ NamesOf(f) \cap Values(details) = {}
        /\ Values(es) = Values(details) \cup NamesOf(f)
    BY <1>5, <1>16
  <2>2. f.kind = "if" => /\ f.path = {f.test}
                         /\ \A k \in 1 .. Len(st) : st[k].kind # "switch"
    BY <1>12
  <2>3. f.kind = "case" => \A k \in 1 .. Len(st) : st[k].kind \notin Branching
    BY <1>13, <1>14
  <2>4. f.kind \in {"if", "case"} /\ f.block = << >> BY <1>12
  <2>5. st[Len(st)].kind \in {"loop", "plain", "else", "switch"} BY <1>11, <1>13
  <2>6. st \in Seq(Frame) /\ Nested(st) /\ ByName(st, details, source) BY <1>13, <1>14
  <2>7. details \in Seq(Detail) /\ Extends(es, details) BY <1>3, <1>5
  <2>8. Opens(tt, st, f) BY ONLY <1>15, <2>2, <2>3, <2>4 DEF Opens
  <2>. QED BY ONLY <2>1, <2>5, <2>6, <2>7, <2>8, OpenOK
<1>. QED BY <1>1, <1>4, <1>9, <1>17

-----------------------------------------------------------------------------
(* The loop after !=                                                        *)

(* Its ifs have lost their text; the rest is written as it is, or in one      *)
(* range loop, beside which then stands nothing.                            *)
OwnIfs(b) == \A i \in 1 .. Len(b) : b[i].kind = "if" => b[i].items = << >>

BesideList(d, b) ==
  /\ OwnIfs(b)
  /\ d.isFor => b \in Seq(ChildOf(IndexItem(d.value)))
  /\ ~d.isFor => b \in Seq(ChildOf({}))

WholeLoop(d, b) ==
  /\ OwnIfs(b)
  /\ d.method # "list" => b \in Seq(ChildOf(PlainItem(d.value)))
  /\ d.method = "list" /\ d.isFor => b \in Seq(ChildOf(IndexItem(d.value)))
  /\ d.method = "list" /\ ~d.isFor =>
       /\ \E i \in 1 .. Len(b) : b[i].kind = "range"
       /\ \E n \in Nat \ {0} : b \in Seq(ChildOf(ListItem("range", n, d.value)))

LoopOK(d, st, src) ==
  /\ Len(st) \in {1, 2} /\ st[1].path = {d.value}
  /\ Len(st) = 2 => st[2].kind \in {"plain", "range", "for"}
  /\ Records(d, TextAt(st, 1), {d.value}, src)
  /\ InListOf(st) => ListOf(d, st[Len(st)], st[1]) /\ BesideList(d, st[1].block)
  /\ ~InListOf(st) => WholeLoop(d, st[1].block)

ByLoop(st, ds, src) ==
  Len(ds) = 1 /\ Untold(ds, src) /\ LoopOK(ds[1], st, src)

LEMMA ChildrenMono ==
  ASSUME NEW A, NEW B, A \subseteq B, NEW s \in Seq(ChildOf(A))
  PROVE  s \in Seq(ChildOf(B))
<1>1. ChildOf(A) \subseteq ChildOf(B)
  <2>1. SUFFICES ASSUME NEW c \in ChildOf(A) PROVE c \in ChildOf(B) OBVIOUS
  <2>2. c \in Child /\ c.items \in Seq(A) BY DEF ChildOf
  <2>3. c.items \in Seq(B) BY <2>2, SeqMono
  <2>. QED BY <2>2, <2>3 DEF ChildOf
<1>. QED BY <1>1, SeqMono

(* Another child of the loop.                                               *)
LEMMA OwnIfsMore ==
  ASSUME NEW b \in Seq(Child), OwnIfs(b), NEW c \in Child,
         c.kind = "if" => c.items = << >>
  PROVE  OwnIfs(Append(b, c))
<1>1. /\ Len(Append(b, c)) = Len(b) + 1 /\ Append(b, c)[Len(b) + 1] = c
      /\ \A i \in 1 .. Len(b) : Append(b, c)[i] = b[i]
      /\ \A i \in 1 .. Len(b) + 1 : i \in 1 .. Len(b) \/ i = Len(b) + 1
  BY BlockMore
<1>. QED BY <1>1 DEF OwnIfs

(* Text for the index or for nothing fits whatever is written as it is.       *)
LEMMA WholeIndex ==
  ASSUME NEW d, NEW b, WholeLoop(d, b), d.method \in {"none", "scalar", "list"},
         d.method = "list" => d.isFor
  PROVE  b \in Seq(ChildOf(IndexItem(d.value)))
<1>1. CASE d.method # "list"
  <2>1. b \in Seq(ChildOf(PlainItem(d.value))) BY <1>1 DEF WholeLoop
  <2>2. PlainItem(d.value) \subseteq IndexItem(d.value) BY ItemSets
  <2>. QED BY <2>1, <2>2, ChildrenMono
<1>2. CASE d.method = "list" BY <1>2 DEF WholeLoop
<1>. QED BY <1>1, <1>2

(* A child without text more.                                               *)
LEMMA WholeMore ==
  ASSUME NEW d, NEW b \in Seq(Child), WholeLoop(d, b), NEW c \in ChildOf({})
  PROVE  WholeLoop(d, Append(b, c))
<1>1. c \in Child /\ c.items = << >> /\ \A A : c \in ChildOf(A)
  <2>1. c \in Child /\ c.items \in Seq({}) BY DEF ChildOf
  <2>2. c.items = << >> BY <2>1, EmptySeq, ElementOfSeq, LenProperties
  <2>3. \A A : << >> \in Seq(A) OBVIOUS
  <2>. QED BY <2>1, <2>2, <2>3 DEF ChildOf
<1>2. OwnIfs(Append(b, c)) BY <1>1, OwnIfsMore DEF WholeLoop
<1>3. ASSUME NEW A, b \in Seq(ChildOf(A)) PROVE Append(b, c) \in Seq(ChildOf(A))
  BY <1>1, <1>3, BlockMore
<1>4. ASSUME NEW i \in 1 .. Len(b), b[i].kind = "range"
      PROVE  \E k \in 1 .. Len(Append(b, c)) : Append(b, c)[k].kind = "range"
  <2>1. Len(Append(b, c)) = Len(b) + 1 /\ Append(b, c)[i] = b[i] /\ Len(b) \in Nat
    BY <1>1, BlockMore
  <2>2. i \in 1 .. Len(Append(b, c)) BY <2>1
  <2>. QED BY <1>4, <2>1, <2>2
<1>5. d.method # "list" => Append(b, c) \in Seq(ChildOf(PlainItem(d.value)))
  BY <1>3 DEF WholeLoop
<1>6. d.method = "list" /\ d.isFor => Append(b, c) \in Seq(ChildOf(IndexItem(d.value)))
  BY <1>3 DEF WholeLoop
<1>7. ASSUME d.method = "list", ~d.isFor
      PROVE  /\ \E k \in 1 .. Len(Append(b, c)) : Append(b, c)[k].kind = "range"
             /\ \E n \in Nat \ {0} :
                  Append(b, c) \in Seq(ChildOf(ListItem("range", n, d.value)))
  <2>1. /\ \E i \in 1 .. Len(b) : b[i].kind = "range"
        /\ \E n \in Nat \ {0} : b \in Seq(ChildOf(ListItem("range", n, d.value)))
    BY <1>7 DEF WholeLoop
  <2>2. PICK n \in Nat \ {0} : b \in Seq(ChildOf(ListItem("range", n, d.value)))
    BY <2>1
  <2>3. Append(b, c) \in Seq(ChildOf(ListItem("range", n, d.value))) BY <1>3, <2>2
  <2>. QED BY <1>4, <2>1, <2>3
<1>. QED BY <1>2, <1>5, <1>6, <1>7 DEF WholeLoop

LEMMA LoopFacts ==
  ASSUME IInv, ByLoop(stack, details, source), NEW d, d = details[1], NEW b,
         b = stack[1].block
  PROVE  /\ Len(details) = 1 /\ details # << >> /\ d \in Detail /\ d.value \in Value
         /\ Resolved = d.value /\ d.method \in {"none", "scalar", "list"}
         /\ stack \in Seq(Frame) /\ Top \in {1, 2} /\ Top = Len(stack) /\ Here = stack[Top]
         /\ stack[1] \in Frame /\ stack[1].kind = "loop" /\ stack[1].path = {d.value}
         /\ b \in Seq(Child) /\ Here.block \in Seq(Child)
         /\ Here.kind = "loop" <=> Top = 1
         /\ Top = 2 => Here.kind \in {"plain", "range", "for"}
         /\ Untold(details, source)
         /\ LoopOK(d, stack, source)
<1>1. /\ Len(details) = 1 /\ Untold(details, source) /\ LoopOK(d, stack, source)
  BY DEF ByLoop
<1>2. /\ stack \in Seq(Frame) /\ Top = Len(stack) /\ Here = stack[Len(stack)]
      /\ Here.block \in Seq(Child) /\ (Here.kind = "loop" <=> Top = 1) /\ Nested(stack)
      /\ details \in Seq(Detail) /\ Top \in Nat \ {0}
  BY Facts
<1>3. details # << >> /\ d \in Detail
  <2>1. 1 \in 1 .. Len(details) /\ details \in Seq(Detail) BY <1>1, <1>2
  <2>2. details[1] \in Detail BY ONLY <2>1, ElementOfSeq
  <2>3. details # << >> BY ONLY <1>1, EmptySeq
  <2>4. d = details[1] OBVIOUS
  <2>. QED BY ONLY <2>2, <2>3, <2>4
<1>4. d.value \in Value /\ d.method \in {"none", "scalar", "list"} BY <1>3 DEF Detail
<1>5. Resolved = d.value BY <1>1, <1>3 DEF Resolved
<1>6. stack[1] \in Frame /\ stack[1].kind = "loop" /\ b \in Seq(Child)
  <2>1. 1 \in 1 .. Len(stack) BY <1>2
  <2>2. stack[1] \in Frame BY <1>2, <2>1, ElementOfSeq
  <2>3. stack[1].kind = "loop" BY <1>2, <2>1 DEF Nested
  <2>. QED BY <2>2, <2>3, FrameBlock
<1>7. /\ Len(stack) \in {1, 2} /\ stack[1].path = {d.value}
      /\ Len(stack) = 2 => stack[2].kind \in {"plain", "range", "for"}
  BY <1>1 DEF LoopOK
<1>9. Top = 2 => Here.kind \in {"plain", "range", "for"} BY <1>2, <1>7
<1>. QED BY <1>1, <1>2, <1>3, <1>4, <1>5, <1>6, <1>7, <1>9

-----------------------------------------------------------------------------
(* The steps in the loop after !=                                           *)

LEMMA LoopUntold ==
  ASSUME NEW ds, NEW es, NEW src, NEW sr, Untold(ds, src), Len(ds) = 1, Len(es) = 1,
         es[1].value = ds[1].value, \A v \in Value \ {ds[1].value} : sr[v] = src[v]
  PROVE  Untold(es, sr)
<1>1. Values(ds) = {ds[1].value} /\ Values(es) = {ds[1].value}
  BY DEF Values
<1>. QED BY <1>1 DEF Untold

(* What is not in a list loop.                                              *)
LEMMA LoopWhole ==
  ASSUME NEW tt, NEW f, f = tt[1], f.kind = "loop",
         Len(tt) = 1 \/ (Len(tt) = 2 /\ tt[2].kind = "plain"),
         NEW e, NEW vs, vs = {e.value}, f.path = vs, NEW sr, NEW b, b = f.block,
         NEW text, text = Flat(b), Records(e, text, vs, sr), WholeLoop(e, b)
  PROVE  LoopOK(e, tt, sr)
<1>1. tt[Len(tt)].kind \in {"loop", "plain"} OBVIOUS
<1>2. ~InListOf(tt) BY <1>1 DEF InListOf
<1>3. TextAt(tt, 1) = Flat(tt[1].block) BY <1>2 DEF TextAt, Inner
<1>4. Len(tt) \in {1, 2} /\ (Len(tt) = 2 => tt[2].kind \in {"plain", "range", "for"})
  OBVIOUS
<1>. QED BY <1>2, <1>3, <1>4 DEF LoopOK

LEMMA LoopText ==
  ASSUME NEW d, NEW st, NEW src, LoopOK(d, st, src), ~InListOf(st)
  PROVE  /\ Records(d, Flat(st[1].block), {d.value}, src) /\ WholeLoop(d, st[1].block)
         /\ st[1].path = {d.value}
<1>1. TextAt(st, 1) = Flat(st[1].block) BY DEF TextAt, Inner
<1>. QED BY <1>1 DEF LoopOK

(* Nothing has stood beside a range loop.                                   *)
LEMMA NoRange ==
  ASSUME ~equal, Here.kind = "loop", NEW kind, "wrapped" \notin FormsOfList(kind),
         NEW i \in 1 .. Len(Here.block)
  PROVE  /\ Here.block[i].kind # "range"
         /\ kind = "range" => Here.block[i].items = << >>
<1>1. Here.block[i] \in {Here.block[j] : j \in 1 .. Len(Here.block)} OBVIOUS
<1>. QED BY <1>1 DEF FormsOfList

LEMMA StatementLoop ==
  ASSUME IInv, ~equal, forms' = {}, ByLoop(stack, details, source),
         NEW reads \in BOOLEAN, Statement(reads)
  PROVE  ByLoop(stack', details', source')
<1>1. FormsHere = {} /\ FormsOfList("stmt") \ {"secondList"} = {} BY DEF Statement
<1>2. PICK d, b : d = details[1] /\ b = stack[1].block OBVIOUS
<1>3. /\ Len(details) = 1 /\ details # << >> /\ d \in Detail /\ d.value \in Value
      /\ Resolved = d.value /\ d.method \in {"none", "scalar", "list"}
      /\ stack \in Seq(Frame) /\ Top \in {1, 2} /\ Top = Len(stack) /\ Here = stack[Top]
      /\ stack[1].kind = "loop" /\ b \in Seq(Child)
      /\ Top = 2 => Here.kind \in {"plain", "range", "for"}
      /\ Untold(details, source) /\ LoopOK(d, stack, source)
  BY ONLY <1>2, LoopFacts, IInv, ByLoop(stack, details, source)
<1>4. Top = 1 /\ Here.kind = "loop" /\ ~InListOf(stack) /\ Here.block = b
  <2>1. Top # 2
    <3>1. ASSUME Top = 2, Here.kind = "plain" PROVE FALSE
      <4>1. \E k \in 1 .. Top : stack[k].kind = "plain" BY <1>3, <3>1
      <4>. QED BY <1>1, <4>1 DEF FormsHere
    <3>. QED BY <1>3, <3>1 DEF Statement
  <2>2. Top = 1 BY <1>3, <2>1
  <2>. QED BY <1>2, <1>3, <2>2 DEF InListOf
<1>5. /\ Records(d, Flat(b), {d.value}, source) /\ WholeLoop(d, b)
      /\ Here.path = {d.value}
  <2>1. LoopOK(d, stack, source) /\ ~InListOf(stack) BY <1>3, <1>4
  <2>2. Here = stack[1] BY <1>3, <1>4
  <2>. QED BY ONLY <1>2, <2>1, <2>2, LoopText
<1>6. PICK item : item = [id |-> Id, loop |-> 0, header |-> FALSE,
                          var |-> IF reads THEN Resolved ELSE None]
  OBVIOUS
<1>7. /\ item \in PlainItem(d.value) /\ item \in Item
      /\ item.id = Id /\ item.loop = 0 /\ (reads <=> item.var # None)
  <2>1. Id \in Nat BY Facts
  <2>. QED BY <1>3, <1>6, <2>1, CommonInfoAssumption DEF PlainItem, Item
<1>8. PICK c : c = Child1("stmt", item) OBVIOUS
<1>9. /\ c.kind = "stmt" /\ c.items = <<item>> /\ c \in Child
      /\ c \in ChildOf(PlainItem(d.value)) /\ c \in ChildOf(IndexItem(d.value))
  <2>1. <<item>> \in Seq(PlainItem(d.value)) /\ <<item>> \in Seq(Item)
    BY <1>7, SeqOfOne
  <2>2. <<item>> \in Seq(IndexItem(d.value)) BY <2>1, ItemSets, SeqMono
  <2>. QED BY <1>8, <2>1, <2>2 DEF Child1, Child, ChildOf
<1>10. PICK tt, es, sr : tt = stack' /\ es = details' /\ sr = source' OBVIOUS
<1>11. /\ Len(tt) = 1 /\ SameFrame(tt[1], Here) /\ tt[1].block = Append(b, c)
  <2>1. tt = WithChild(stack, c) BY <1>6, <1>8, <1>10 DEF Statement
  <2>2. Len(stack) # 0 /\ stack[Len(stack)].kind # "else" BY <1>3, <1>4
  <2>3. stack \in Seq(Frame) /\ Len(stack) = 1 /\ stack[1] = Here /\ Here.block = b
    BY <1>3, <1>4
  <2>4. c \in Child BY <1>9
  <2>5. /\ Len(tt) = Len(stack) /\ SameFrame(tt[Len(stack)], stack[Len(stack)])
        /\ tt[Len(stack)].block = Append(stack[Len(stack)].block, c)
    BY ONLY <2>1, <2>2, <2>3, <2>4, ChildFrame
  <2>. QED BY ONLY <2>3, <2>5
<1>12. PICK e : e = es[1] OBVIOUS
<1>13. /\ Len(es) = 1 /\ e.value = d.value /\ e.isFor = d.isFor
       /\ e.method = IF reads /\ d.method = "none" THEN "scalar" ELSE d.method
  <2>1. CASE reads
    <3>1. es = WithMethod(details, "scalar") BY <1>10, <2>1 DEF Statement
    <3>2. details \in Seq(Detail) BY Facts
    <3>3. LastRead(es, details, IF d.method = "none" THEN "scalar" ELSE d.method, d.isFor)
      BY <1>2, <1>3, <3>1, <3>2, WithMethodLast
    <3>. QED BY <1>2, <1>3, <1>12, <2>1, <3>3 DEF LastRead, SameText
  <2>2. CASE ~reads BY <1>2, <1>3, <1>10, <1>12, <2>2 DEF Statement
  <2>. QED BY <2>1, <2>2
<1>14. PICK ef \in Effect :
         /\ ef.id = Id /\ ef.loop = 0 /\ (ef.reads <=> reads)
         /\ \A v \in Value : source'[v] = IF v \in Here.path THEN Append(source[v], ef)
                                          ELSE source[v]
  <2>1. 0 \in Nat /\ Executed(reads, 0) BY DEF Statement
  <2>. QED BY <2>1, ExecutedIs
<1>15. Untold(es, sr)
  <2>1. \A v \in Value \ {d.value} : sr[v] = source[v] BY <1>5, <1>10, <1>14
  <2>2. es[1].value = details[1].value BY <1>2, <1>12, <1>13
  <2>. QED BY <1>2, <1>3, <1>13, <2>1, <2>2, LoopUntold
<1>16. Flat(Append(b, c)) = Flat(b) \o <<item>> /\ Flat(b) \in Seq(Item)
  <2>1. b \in Seq(ChildOf(Item)) /\ c \in ChildOf(Item) BY <1>3, <1>9, ChildOfItem
  <2>. QED BY <1>9, <2>1, FlatAppend, FlatType
<1>17. Records(e, Flat(b) \o <<item>>, {d.value}, sr)
  <2>1. SameEffectOf(item, ef) BY <1>7, <1>14 DEF SameEffectOf
  <2>2. \A v \in {d.value} : sr[v] = Append(source[v], ef) BY <1>3, <1>5, <1>10, <1>14
  <2>3. reads => {d.value} \subseteq Value \ ListValue
    BY <1>5 DEF Statement, Tested
  <2>4. d.method = "scalar" => {d.value} \cap ListValue = {} BY <1>5 DEF Records
  <2>5. d.method = "list" => {d.value} \subseteq ListValue BY <1>5 DEF Records
  <2>6. e.method = "scalar" => {d.value} \cap ListValue = {} BY <1>13, <2>3, <2>4
  <2>7. e.method = "list" => {d.value} \subseteq ListValue BY <1>13, <2>5
  <2>8. e.method = "none" => d.method = "none" /\ ~ef.reads BY <1>13, <1>14
  <2>9. source \in [Value -> Seq(Effect)] /\ {d.value} \in SUBSET Value BY <1>3, Facts
  <2>10. Records(d, Flat(b), {d.value}, source) BY <1>5
  <2>. QED BY ONLY <1>7, <1>14, <1>16, <2>1, <2>2, <2>6, <2>7, <2>8, <2>9, <2>10,
              RecordsMore
<1>18. WholeLoop(e, Append(b, c))
  <2>1. OwnIfs(Append(b, c)) BY <1>3, <1>5, <1>9, OwnIfsMore DEF WholeLoop
  <2>2. d.method = "list" <=> e.method = "list" BY <1>13
  <2>3. ASSUME e.method # "list" PROVE Append(b, c) \in Seq(ChildOf(PlainItem(e.value)))
    <3>1. b \in Seq(ChildOf(PlainItem(d.value))) BY <1>5, <2>2, <2>3 DEF WholeLoop
    <3>. QED BY <1>9, <1>13, <3>1, BlockMore
  <2>4. ASSUME e.method = "list", e.isFor
        PROVE  Append(b, c) \in Seq(ChildOf(IndexItem(e.value)))
    <3>1. b \in Seq(ChildOf(IndexItem(d.value))) BY <1>5, <1>13, <2>2, <2>4 DEF WholeLoop
    <3>. QED BY <1>9, <1>13, <3>1, BlockMore
  <2>5. ASSUME e.method = "list", ~e.isFor PROVE FALSE
    <3>1. PICK i \in 1 .. Len(b) : b[i].kind = "range"
      BY <1>5, <1>13, <2>2, <2>5 DEF WholeLoop
    <3>2. "wrapped" \notin FormsOfList("stmt") BY <1>1
    <3>3. i \in 1 .. Len(Here.block) /\ Here.block[i].kind = "range" BY <1>4, <3>1
    <3>. QED BY <1>4, <3>2, <3>3, NoRange
  <2>. QED BY <2>1, <2>3, <2>4, <2>5 DEF WholeLoop
<1>19. LoopOK(e, tt, sr)
  <2>1. PICK f, g, vs, text : /\ f = tt[1] /\ g = f.block /\ vs = {e.value}
                              /\ text = Flat(g)
    OBVIOUS
  <2>2. f.kind = "loop" /\ f.path = vs
    BY <1>4, <1>5, <1>11, <1>13, <2>1 DEF SameFrame
  <2>3. Records(e, text, vs, sr) /\ WholeLoop(e, g)
    BY <1>11, <1>13, <1>16, <1>17, <1>18, <2>1
  <2>4. Len(tt) = 1 BY <1>11
  <2>. QED BY ONLY <2>1, <2>2, <2>3, <2>4, LoopWhole
<1>. QED BY <1>10, <1>12, <1>13, <1>15, <1>19 DEF ByLoop

LEMMA EmptyChildren ==
  ASSUME NEW s \in Seq(Child), \A i \in 1 .. Len(s) : s[i].items = << >>
  PROVE  s \in Seq(ChildOf({}))
<1>1. Len(s) \in Nat BY LenProperties
<1>2. ASSUME NEW i \in 1 .. Len(s) PROVE s[i] \in ChildOf({})
  <2>1. s[i] \in Child BY ElementOfSeq
  <2>2. << >> \in Seq({}) OBVIOUS
  <2>. QED BY <2>1, <2>2 DEF ChildOf
<1>3. s = [i \in 1 .. Len(s) |-> s[i]] OBVIOUS
<1>4. [i \in 1 .. Len(s) |-> s[i]] \in Seq(ChildOf({})) BY <1>1, <1>2, IsASeq
<1>. QED BY <1>3, <1>4

(* What is in a list loop.                                                  *)
LEMMA LoopList ==
  ASSUME NEW tt, Len(tt) = 2, NEW f, f = tt[1], NEW g, g = tt[2],
         g.kind \in {"range", "for"}, NEW e, NEW vs, vs = {e.value}, f.path = vs,
         NEW sr, NEW b, b = f.block, NEW text, text = Flat(b) \o Flat(g.block),
         Records(e, text, vs, sr), ListOf(e, g, f), BesideList(e, b)
  PROVE  LoopOK(e, tt, sr)
<1>1. Inner(tt, 1) /\ InListOf(tt) /\ tt[Len(tt)] = g BY DEF Inner, InListOf
<1>2. TextAt(tt, 1) = text BY <1>1 DEF TextAt
<1>. QED BY <1>1, <1>2 DEF LoopOK

LEMMA LoopListText ==
  ASSUME NEW d, NEW st, NEW src, LoopOK(d, st, src), InListOf(st), Len(st) = 2,
         NEW f, f = st[1], NEW g, g = st[2]
  PROVE  /\ Records(d, Flat(f.block) \o Flat(g.block), {d.value}, src)
         /\ ListOf(d, g, f) /\ BesideList(d, f.block) /\ f.path = {d.value}
<1>1. Inner(st, 1) /\ st[Len(st)] = g BY DEF Inner
<1>2. TextAt(st, 1) = Flat(f.block) \o Flat(g.block) BY <1>1 DEF TextAt
<1>. QED BY <1>1, <1>2 DEF LoopOK

LEMMA EnterListLoop ==
  ASSUME IInv, ~equal, forms' = {}, ByLoop(stack, details, source),
         NEW kind \in {"range", "for"}, EnterList(kind)
  PROVE  ByLoop(stack', details', source')
<1>1. FormsOfList(kind) = {} /\ source' = source BY DEF EnterList
<1>2. PICK d, g, b : d = details[1] /\ g = stack[1] /\ b = g.block OBVIOUS
<1>3. /\ Len(details) = 1 /\ details # << >> /\ d \in Detail /\ d.value \in Value
      /\ d.method \in {"none", "scalar", "list"}
      /\ stack \in Seq(Frame) /\ Top \in {1, 2} /\ Top = Len(stack) /\ Here = stack[Top]
      /\ g.kind = "loop" /\ b \in Seq(Child)
      /\ Top = 2 => Here.kind \in {"plain", "range", "for"}
      /\ Untold(details, source) /\ LoopOK(d, stack, source)
  BY ONLY <1>2, LoopFacts, IInv, ByLoop(stack, details, source)
<1>4. Top = 1 /\ Here = g /\ ~InListOf(stack)
  <2>1. Top = 1 BY <1>3 DEF EnterList
  <2>. QED BY <1>2, <1>3, <2>1 DEF InListOf
<1>5. /\ Records(d, Flat(b), {d.value}, source) /\ WholeLoop(d, b) /\ g.path = {d.value}
  <2>1. LoopOK(d, stack, source) /\ ~InListOf(stack) BY <1>3, <1>4
  <2>. QED BY ONLY <1>2, <2>1, LoopText
<1>6. PICK f : f = [NewFrame(kind, Here.path) EXCEPT !.number = Id] OBVIOUS
<1>7. f.kind = kind /\ f.path = g.path /\ f.number = Id /\ f.block = << >>
  BY <1>4, <1>6 DEF NewFrame
<1>8. PICK tt, es : tt = stack' /\ es = details' OBVIOUS
<1>9. Len(tt) = 2 /\ tt[2] = f /\ tt[1] = g
  <2>1. tt = Append(stack, f) BY <1>6, <1>8 DEF EnterList
  <2>2. stack \in Seq(Frame) /\ Len(stack) = 1 /\ stack[1] = g BY <1>2, <1>3, <1>4
  <2>3. /\ Len(tt) = Top + 1 /\ tt[Top + 1] = f
        /\ \A k \in 1 .. Top : tt[k] = stack[k]
    <3>1. Top \in Nat BY <1>4
    <3>. QED BY <1>3, <2>1, <3>1, AppendProperties
  <2>4. Top = 1 /\ Top + 1 = 2 BY <1>4
  <2>. QED BY ONLY <2>2, <2>3, <2>4
<1>10. PICK e : e = es[1] OBVIOUS
<1>11. /\ Len(es) = 1 /\ e.value = d.value /\ e.isFor = (kind = "for")
       /\ e.method = IF d.method = "none" THEN "list" ELSE d.method
  <2>1. PICK cs : cs = WithMethod(details, "list") OBVIOUS
  <2>2. (kind = "for") \in BOOLEAN /\ details \in Seq(Detail) BY Facts
  <2>3. /\ cs # << >>
        /\ LastRead([cs EXCEPT ![Len(cs)].isFor = (kind = "for")], details,
                    IF d.method = "none" THEN "list" ELSE d.method, kind = "for")
    BY <1>2, <1>3, <2>1, <2>2, ListLast
  <2>4. es = [cs EXCEPT ![Len(cs)].isFor = (kind = "for")]
    BY <1>8, <2>1, <2>3 DEF EnterList
  <2>. QED BY <1>2, <1>3, <1>10, <2>3, <2>4 DEF LastRead, SameText
<1>12. {d.value} \subseteq ListValue /\ e.method = "list"
  <2>1. {d.value} \subseteq ListValue BY <1>4, <1>5 DEF EnterList, Tested
  <2>2. d.method # "scalar" BY <1>5, <2>1 DEF Records
  <2>. QED BY <1>3, <1>11, <2>1, <2>2
<1>13. Untold(es, source)
  <2>1. es[1].value = details[1].value BY <1>2, <1>10, <1>11
  <2>. QED BY <1>3, <1>11, <2>1, LoopUntold
<1>14. Records(e, Flat(b), {e.value}, source)
  BY <1>5, <1>11, <1>12 DEF Records
<1>15. \A i \in 1 .. Len(b) : /\ b[i].kind # "range"
                              /\ kind = "range" => b[i].items = << >>
  <2>1. "wrapped" \notin FormsOfList(kind) /\ Here.kind = "loop" /\ Here.block = b
    BY <1>1, <1>2, <1>3, <1>4
  <2>. QED BY <2>1, NoRange
<1>16. BesideList(e, b)
  <2>1. OwnIfs(b) BY <1>5 DEF WholeLoop
  <2>2. d.method = "list" => d.isFor BY <1>5, <1>15 DEF WholeLoop
  <2>3. b \in Seq(ChildOf(IndexItem(d.value)))
    BY ONLY <1>3, <1>5, <2>2, WholeIndex
  <2>4. kind = "range" => b \in Seq(ChildOf({})) BY <1>3, <1>15, EmptyChildren
  <2>. QED BY <1>11, <2>1, <2>3, <2>4 DEF BesideList
<1>17. ListOf(e, f, g)
  <2>1. << >> \in Seq(ChildOf(ListItem(f.kind, f.number, e.value))) OBVIOUS
  <2>2. f.kind = ListKind(e) BY <1>7, <1>11 DEF ListKind
  <2>3. f.number \in Nat \ {0}
    <3>1. visited \in Nat BY Facts
    <3>. QED BY <1>7, <3>1 DEF Id
  <2>. QED BY <1>7, <1>12, <2>1, <2>2, <2>3 DEF ListOf
<1>18. LoopOK(e, tt, source)
  <2>1. PICK vs, text : vs = {e.value} /\ text = Flat(b) \o Flat(f.block) OBVIOUS
  <2>2. text = Flat(b)
    <3>1. Flat(b) \in Seq(Item) BY <1>3, ChildOfItem, FlatType
    <3>2. << >> \in Seq(ChildOf({})) OBVIOUS
    <3>3. Flat(f.block) = << >> BY <1>7, <3>2, FlatNothing
    <3>. QED BY <2>1, <3>1, <3>3, ConcatEmptySeq
  <2>3. Records(e, text, vs, source) BY <1>14, <2>1, <2>2
  <2>4. g.path = vs /\ f.kind \in {"range", "for"} BY <1>5, <1>7, <1>11, <2>1
  <2>. QED BY ONLY <1>2, <1>9, <1>16, <1>17, <2>1, <2>3, <2>4, LoopList
<1>. QED BY <1>1, <1>8, <1>10, <1>11, <1>13, <1>18 DEF ByLoop

(* The list loop in hand is in the loop.                                    *)
LEMMA LoopListFacts ==
  ASSUME IInv, ByLoop(stack, details, source), Here.kind \in {"range", "for"},
         NEW d, d = details[1], NEW g, g = stack[1], NEW b, b = g.block
  PROVE  /\ Len(details) = 1 /\ d \in Detail /\ d.value \in Value /\ Resolved = d.value
         /\ stack \in Seq(Frame) /\ Top = 2 /\ Len(stack) = 2 /\ Here = stack[2]
         /\ g \in Frame /\ g.kind = "loop" /\ b \in Seq(Child) /\ Here.block \in Seq(Child)
         /\ Untold(details, source)
         /\ Records(d, Flat(b) \o Flat(Here.block), {d.value}, source)
         /\ ListOf(d, Here, g) /\ BesideList(d, b) /\ g.path = {d.value}
<1>1. PICK x : x = stack[1].block OBVIOUS
<1>2. /\ Len(details) = 1 /\ d \in Detail /\ d.value \in Value /\ Resolved = d.value
      /\ stack \in Seq(Frame) /\ Top \in {1, 2} /\ Top = Len(stack) /\ Here = stack[Top]
      /\ stack[1] \in Frame /\ stack[1].kind = "loop"
      /\ x \in Seq(Child) /\ Here.block \in Seq(Child)
      /\ Untold(details, source) /\ LoopOK(d, stack, source)
  BY ONLY <1>1, d = details[1], LoopFacts, IInv, ByLoop(stack, details, source)
<1>3. Top = 2 /\ Len(stack) = 2 /\ Here = stack[2] /\ InListOf(stack)
  <2>1. Top # 1 BY <1>2
  <2>. QED BY <1>2, <2>1 DEF InListOf
<1>4. /\ Records(d, Flat(g.block) \o Flat(Here.block), {d.value}, source)
      /\ ListOf(d, Here, g) /\ BesideList(d, g.block) /\ g.path = {d.value}
  <2>1. LoopOK(d, stack, source) BY <1>2
  <2>2. g = stack[1] OBVIOUS
  <2>. QED BY ONLY <1>3, <2>1, <2>2, LoopListText
<1>. QED BY <1>1, <1>2, <1>3, <1>4

LEMMA ListStatementLoop ==
  ASSUME IInv, ~equal, forms' = {}, ByLoop(stack, details, source), ListStatement
  PROVE  ByLoop(stack', details', source')
<1>. DEFINE F == Flat(stack[1].block)
            H == Flat(Here.block)
<1>1. Here.kind \in {"range", "for"} /\ details' = details BY DEF ListStatement
<1>2. PICK d, g, b : d = details[1] /\ g = stack[1] /\ b = g.block OBVIOUS
<1>3. /\ Len(details) = 1 /\ d \in Detail /\ d.value \in Value /\ Resolved = d.value
      /\ stack \in Seq(Frame) /\ Top = 2 /\ Len(stack) = 2 /\ Here = stack[2]
      /\ g \in Frame /\ g.kind = "loop" /\ b \in Seq(Child) /\ Here.block \in Seq(Child)
      /\ Untold(details, source)
      /\ Records(d, F \o H, {d.value}, source)
      /\ ListOf(d, Here, g) /\ BesideList(d, b) /\ g.path = {d.value}
  <2>1. IInv /\ ByLoop(stack, details, source) OBVIOUS
  <2>. QED BY ONLY <1>1, <1>2, <2>1, LoopListFacts
<1>4. source \in [Value -> Seq(Effect)] BY Facts
<1>6. /\ d.method = "list" /\ Here.kind = ListKind(d) /\ Here.number \in Nat \ {0}
      /\ Here.path = {d.value}
      /\ Here.block \in Seq(ChildOf(ListItem(Here.kind, Here.number, d.value)))
  BY <1>3 DEF ListOf
<1>7. PICK item : item = [id |-> Id, loop |-> Here.number, header |-> Here.kind = "for",
                          var |-> IF Here.kind = "for" THEN Resolved ELSE Elem]
  OBVIOUS
<1>8. /\ item \in ListItem(Here.kind, Here.number, d.value) /\ item \in Item
      /\ item.id = Id /\ item.loop = Here.number /\ item.var # None
  <2>1. Resolved \in Value BY <1>3
  <2>. QED BY <1>1, <1>3, <1>6, <1>7, <2>1, ListItemIs
<1>9. PICK c : c = Child1("stmt", item) OBVIOUS
<1>10. PICK A : A = ListItem(Here.kind, Here.number, d.value) OBVIOUS
<1>11. c.items = <<item>> /\ c \in Child /\ c \in ChildOf(A)
  <2>1. <<item>> \in Seq(A) /\ <<item>> \in Seq(Item) BY <1>8, <1>10, SeqOfOne
  <2>. QED BY <1>9, <2>1 DEF Child1, Child, ChildOf
<1>12. stack' = WithChild(stack, c) BY <1>7, <1>9 DEF ListStatement
<1>13. PICK tt, sr : tt = stack' /\ sr = source' OBVIOUS
<1>14. /\ Len(tt) = 2 /\ tt[1] = g
       /\ SameFrame(tt[2], Here) /\ tt[2].number = Here.number
       /\ tt[2].block = Append(Here.block, c)
  <2>1. /\ Len(tt) = Len(stack) /\ Len(stack) \in Nat
        /\ \A k \in 1 .. Len(stack) - 1 : tt[k] = stack[k]
        /\ SameFrame(tt[Len(stack)], Here) /\ tt[Len(stack)].number = Here.number
        /\ tt[Len(stack)].block = Append(Here.block, c)
    <3>1. Here = stack[Len(stack)] /\ stack[Len(stack)].kind # "else" BY <1>1, <1>3
    <3>2. stack \in Seq(Frame) /\ Len(stack) # 0 /\ c \in Child BY <1>3, <1>11
    <3>3. tt = WithChild(stack, c) BY <1>12, <1>13
    <3>. QED BY ONLY <3>1, <3>2, <3>3, ChildFrame
  <2>2. Len(stack) = 2 /\ 1 \in 1 .. 2 - 1 BY <1>3
  <2>. QED BY ONLY <1>2, <2>1, <2>2
<1>15. PICK ef \in Effect :
         /\ ef.id = Id /\ ef.loop = Here.number /\ ef.reads
         /\ \A v \in Value : source'[v] = IF v \in Here.path THEN Append(source[v], ef)
                                          ELSE source[v]
  <2>1. Here.number \in Nat /\ TRUE \in BOOLEAN /\ Executed(TRUE, Here.number)
    BY <1>6 DEF ListStatement
  <2>. QED BY <2>1, ExecutedIs
<1>18. F \in Seq(Item) /\ H \in Seq(Item) /\ F \o H \in Seq(Item)
  <2>1. F \in Seq(Item) BY <1>2, <1>3, ChildOfItem, FlatType
  <2>2. H \in Seq(Item) BY <1>3, ChildOfItem, FlatType
  <2>. QED BY <2>1, <2>2, ConcatProperties
<1>19. F \o Flat(tt[2].block) = (F \o H) \o <<item>>
  <2>1. Here.block \in Seq(ChildOf(Item)) /\ c \in ChildOf(Item)
    BY <1>3, <1>11, ChildOfItem
  <2>2. Flat(Append(Here.block, c)) = H \o c.items BY <2>1, FlatAppend
  <2>3. Flat(tt[2].block) = H \o <<item>> BY <1>11, <1>14, <2>2
  <2>5. PICK a, h, x : a = F /\ h = H /\ x = <<item>> OBVIOUS
  <2>6. x \in Seq(Item) BY <1>8, <2>5, SeqOfOne
  <2>7. a \in Seq(Item) /\ h \in Seq(Item) BY <1>18, <2>5
  <2>8. (a \o h) \o x = a \o (h \o x) BY ONLY <2>6, <2>7, ConcatAssociative, SMTT(60)
  <2>. QED BY <2>3, <2>5, <2>8
<1>20. Records(d, (F \o H) \o <<item>>, {d.value}, sr)
  <2>1. SameEffectOf(item, ef) BY <1>8, <1>15 DEF SameEffectOf
  <2>2. \A v \in {d.value} : sr[v] = Append(source[v], ef) BY <1>3, <1>6, <1>13, <1>15
  <2>3. /\ d.method = "scalar" => {d.value} \cap ListValue = {}
        /\ d.method = "list" => {d.value} \subseteq ListValue
        /\ d.method = "none" => d.method = "none" /\ ~ef.reads
    BY <1>3, <1>6 DEF Records
  <2>4. PICK t, vs : t = F \o H /\ vs = {d.value} OBVIOUS
  <2>5. /\ t \in Seq(Item) /\ Records(d, t, vs, source) /\ vs \in SUBSET Value
        /\ \A v \in vs : sr[v] = Append(source[v], ef)
        /\ d.method = "scalar" => vs \cap ListValue = {}
        /\ d.method = "list" => vs \subseteq ListValue
    BY <1>3, <1>18, <2>2, <2>3, <2>4
  <2>6. Records(d, t \o <<item>>, vs, sr)
    BY ONLY <1>4, <1>8, <1>15, <2>1, <2>3, <2>5, RecordsMore
  <2>. QED BY <2>4, <2>6
<1>21. ListOf(d, tt[2], g)
  <2>2. Here.block \in Seq(ChildOf(A)) BY <1>6, <1>10
  <2>3. tt[2].block \in Seq(ChildOf(A)) BY <1>11, <1>14, <2>2, BlockMore
  <2>4. tt[2].kind = Here.kind /\ tt[2].path = Here.path BY <1>14 DEF SameFrame
  <2>. QED BY <1>3, <1>6, <1>10, <1>14, <2>3, <2>4 DEF ListOf
<1>22. LoopOK(d, tt, sr)
  <2>1. PICK f, vs, text : f = tt[2] /\ vs = {d.value} /\ text = Flat(b) \o Flat(f.block)
    OBVIOUS
  <2>2. Records(d, text, vs, sr) BY <1>2, <1>19, <1>20, <2>1
  <2>3. f.kind \in {"range", "for"} /\ g.path = vs /\ g = tt[1] /\ Len(tt) = 2
    BY <1>1, <1>3, <1>14, <2>1 DEF SameFrame
  <2>4. ListOf(d, f, g) BY <1>21, <2>1
  <2>. QED BY ONLY <1>2, <1>3, <2>1, <2>2, <2>3, <2>4, LoopList
<1>23. Untold(details, sr)
  <2>1. \A v \in Value \ {d.value} : sr[v] = source[v] BY <1>6, <1>13, <1>15
  <2>. QED BY <1>2, <1>3, <2>1, LoopUntold
<1>. QED BY <1>1, <1>2, <1>3, <1>13, <1>22, <1>23 DEF ByLoop

LEMMA LeaveListLoop ==
  ASSUME IInv, ~equal, forms' = {}, ByLoop(stack, details, source), LeaveList
  PROVE  ByLoop(stack', details', source')
<1>1. Here.kind \in {"range", "for"} /\ details' = details /\ source' = source
  BY DEF LeaveList
<1>2. PICK d, g, b : d = details[1] /\ g = stack[1] /\ b = g.block OBVIOUS
<1>3. /\ Len(details) = 1 /\ d \in Detail /\ d.value \in Value
      /\ stack \in Seq(Frame) /\ Top = 2 /\ Len(stack) = 2 /\ Here = stack[2]
      /\ g \in Frame /\ g.kind = "loop" /\ b \in Seq(Child) /\ Here.block \in Seq(Child)
      /\ Untold(details, source)
      /\ Records(d, Flat(b) \o Flat(Here.block), {d.value}, source)
      /\ ListOf(d, Here, g) /\ BesideList(d, b) /\ g.path = {d.value}
  <2>1. IInv /\ ByLoop(stack, details, source) OBVIOUS
  <2>. QED BY ONLY <1>1, <1>2, <2>1, LoopListFacts
<1>4. PICK n : n = Here.number OBVIOUS
<1>5. /\ d.method = "list" /\ Here.kind = ListKind(d) /\ n \in Nat \ {0}
      /\ Here.block \in Seq(ChildOf(ListItem(Here.kind, n, d.value)))
  BY <1>3, <1>4 DEF ListOf
<1>6. PICK c : c = [kind |-> Here.kind, items |-> Flat(Here.block)] OBVIOUS
<1>7. /\ c \in Child /\ c.kind = Here.kind /\ c.items = Flat(Here.block)
      /\ c \in ChildOf(ListItem(Here.kind, n, d.value))
  <2>1. Flat(Here.block) \in Seq(Item) BY <1>3, ChildOfItem, FlatType
  <2>2. Flat(Here.block) \in Seq(ListItem(Here.kind, n, d.value)) BY <1>5, FlatType
  <2>3. c \in Child BY <1>1, <1>6, <2>1 DEF Child
  <2>. QED BY <1>6, <2>2, <2>3 DEF ChildOf
<1>8. PICK tt, h : tt = stack' /\ h = Front(stack) OBVIOUS
<1>9. h \in Seq(Frame) /\ Len(h) = 1 /\ h[1] = g
  <2>1. StackOK(stack, equal, Resolved, forms) /\ equal \in BOOLEAN BY Facts
  <2>2. stack[Len(stack)].kind # "loop" BY <1>1, <1>3
  <2>3. /\ StackOK(Front(stack), equal, Resolved, forms)
        /\ Len(Front(stack)) = Len(stack) - 1
        /\ \A k \in 1 .. Len(stack) - 1 : Front(stack)[k] = stack[k]
    BY <2>1, <2>2, PopOK
  <2>4. Len(stack) - 1 = 1 /\ 1 \in 1 .. 1 BY <1>3
  <2>5. h \in Seq(Frame) BY <1>8, <2>3 DEF StackOK
  <2>6. Len(h) = Len(stack) - 1 /\ \A k \in 1 .. Len(stack) - 1 : h[k] = stack[k]
    BY ONLY <1>8, <2>3
  <2>7. Len(h) = 1 /\ h[1] = stack[1] BY ONLY <2>4, <2>6
  <2>. QED BY <1>2, <2>5, <2>7
<1>10. Len(tt) = 1 /\ SameFrame(tt[1], g) /\ tt[1].block = Append(b, c)
  <2>1. tt = WithChild(h, c) BY <1>6, <1>8 DEF LeaveList, Closed
  <2>2. Len(h) # 0 /\ h[Len(h)].kind # "else" BY <1>3, <1>9
  <2>3. /\ Len(tt) = Len(h) /\ SameFrame(tt[Len(h)], h[Len(h)])
        /\ tt[Len(h)].block = Append(h[Len(h)].block, c)
    BY <1>7, <1>9, <2>1, <2>2, ChildFrame
  <2>. QED BY <1>2, <1>9, <2>3
<1>11. Flat(Append(b, c)) = Flat(b) \o Flat(Here.block)
  <2>1. b \in Seq(ChildOf(Item)) /\ c \in ChildOf(Item) BY <1>3, <1>7, ChildOfItem
  <2>. QED BY <1>7, <2>1, FlatAppend
<1>12. WholeLoop(d, Append(b, c))
  <2>1. OwnIfs(Append(b, c)) BY <1>1, <1>3, <1>7, OwnIfsMore DEF BesideList
  <2>2. ASSUME d.isFor PROVE Append(b, c) \in Seq(ChildOf(IndexItem(d.value)))
    <3>1. Here.kind = "for" BY <1>5, <2>2 DEF ListKind
    <3>2. ListItem("for", n, d.value) \subseteq IndexItem(d.value) BY <1>5, ItemSets
    <3>3. c \in ChildOf(IndexItem(d.value)) BY <1>7, <3>1, <3>2, SeqMono DEF ChildOf
    <3>4. b \in Seq(ChildOf(IndexItem(d.value))) BY <1>3, <2>2 DEF BesideList
    <3>. QED BY <3>3, <3>4, BlockMore
  <2>3. ASSUME ~d.isFor
        PROVE  /\ \E k \in 1 .. Len(Append(b, c)) : Append(b, c)[k].kind = "range"
               /\ Append(b, c) \in Seq(ChildOf(ListItem("range", n, d.value)))
    <3>1. Here.kind = "range" BY <1>5, <2>3 DEF ListKind
    <3>2. b \in Seq(ChildOf({})) BY <1>3, <2>3 DEF BesideList
    <3>3. PICK A : A = ListItem("range", n, d.value) OBVIOUS
    <3>4. {} \subseteq A OBVIOUS
    <3>5. b \in Seq(ChildOf(A)) BY <3>2, <3>4, ChildrenMono
    <3>6. c \in ChildOf(A) BY <1>7, <3>1, <3>3
    <3>7. /\ Append(b, c) \in Seq(ChildOf(A)) /\ Len(Append(b, c)) = Len(b) + 1
          /\ Append(b, c)[Len(b) + 1] = c /\ Len(b) \in Nat
      BY <3>5, <3>6, BlockMore
    <3>8. Len(b) + 1 \in 1 .. Len(Append(b, c)) BY <3>7
    <3>9. Append(b, c)[Len(b) + 1].kind = "range" BY <1>7, <3>1, <3>7
    <3>. QED BY <3>3, <3>7, <3>8, <3>9
  <2>. QED BY <1>5, <2>1, <2>2, <2>3 DEF WholeLoop
<1>13. LoopOK(d, tt, source)
  <2>1. PICK f, bb, vs, text : /\ f = tt[1] /\ bb = f.block /\ vs = {d.value}
                               /\ text = Flat(bb)
    OBVIOUS
  <2>2. f.kind = "loop" /\ f.path = vs BY <1>3, <1>10, <2>1 DEF SameFrame
  <2>3. Records(d, text, vs, source) /\ WholeLoop(d, bb)
    BY <1>3, <1>10, <1>11, <1>12, <2>1
  <2>4. Len(tt) = 1 BY <1>10
  <2>. QED BY ONLY <2>1, <2>2, <2>3, <2>4, LoopWhole
<1>. QED BY <1>1, <1>2, <1>3, <1>8, <1>13 DEF ByLoop

LEMMA EnterPlainLoop ==
  ASSUME IInv, ByLoop(stack, details, source), NEW ofType \in BOOLEAN, EnterPlain(ofType)
  PROVE  ByLoop(stack', details', source')
<1>1. Here.kind = "loop" /\ details' = details /\ source' = source BY DEF EnterPlain
<1>2. PICK d, g, b : d = details[1] /\ g = stack[1] /\ b = g.block OBVIOUS
<1>3. /\ Len(details) = 1 /\ stack \in Seq(Frame) /\ Top \in {1, 2} /\ Top = Len(stack)
      /\ Here = stack[Top] /\ g.kind = "loop"
      /\ Top = 2 => Here.kind \in {"plain", "range", "for"}
      /\ Untold(details, source) /\ LoopOK(d, stack, source)
  BY ONLY <1>2, LoopFacts, IInv, ByLoop(stack, details, source)
<1>4. Top = 1 /\ Here = g /\ ~InListOf(stack)
  <2>1. Top = 1 BY <1>1, <1>3
  <2>. QED BY <1>1, <1>2, <1>3, <2>1 DEF InListOf
<1>5. /\ Records(d, Flat(b), {d.value}, source) /\ WholeLoop(d, b) /\ g.path = {d.value}
  <2>1. LoopOK(d, stack, source) /\ ~InListOf(stack) BY <1>3, <1>4
  <2>. QED BY ONLY <1>2, <2>1, LoopText
<1>6. PICK f, tt : f = NewFrame("plain", Here.path) /\ tt = stack' OBVIOUS
<1>7. f.kind = "plain" BY <1>6 DEF NewFrame
<1>8. Len(tt) = 2 /\ tt[2] = f /\ tt[1] = g
  <2>1. tt = Append(stack, f) BY <1>6 DEF EnterPlain
  <2>2. stack \in Seq(Frame) /\ Len(stack) = 1 /\ stack[1] = g BY <1>2, <1>3, <1>4
  <2>3. /\ Len(tt) = Top + 1 /\ tt[Top + 1] = f
        /\ \A k \in 1 .. Top : tt[k] = stack[k]
    <3>1. Top \in Nat BY <1>4
    <3>. QED BY <1>3, <2>1, <3>1, AppendProperties
  <2>4. Top = 1 /\ Top + 1 = 2 BY <1>4
  <2>. QED BY ONLY <2>2, <2>3, <2>4
<1>9. LoopOK(d, tt, source)
  <2>1. PICK vs, text : vs = {d.value} /\ text = Flat(b) OBVIOUS
  <2>2. Records(d, text, vs, source) /\ WholeLoop(d, b) /\ g.path = vs BY <1>5, <2>1
  <2>3. Len(tt) = 2 /\ tt[2].kind = "plain" /\ g = tt[1] BY <1>7, <1>8
  <2>. QED BY ONLY <1>2, <1>3, <2>1, <2>2, <2>3, LoopWhole
<1>. QED BY <1>1, <1>2, <1>3, <1>6, <1>9 DEF ByLoop

LEMMA LeavePlainLoop ==
  ASSUME IInv, ByLoop(stack, details, source), LeavePlain
  PROVE  ByLoop(stack', details', source')
<1>1. Here.kind = "plain" /\ details' = details /\ source' = source BY DEF LeavePlain
<1>2. PICK d, g, b : d = details[1] /\ g = stack[1] /\ b = g.block OBVIOUS
<1>3. /\ Len(details) = 1 /\ stack \in Seq(Frame) /\ Top \in {1, 2} /\ Top = Len(stack)
      /\ Here = stack[Top] /\ g.kind = "loop" /\ b \in Seq(Child) /\ g \in Frame
      /\ Untold(details, source) /\ LoopOK(d, stack, source)
  BY ONLY <1>2, LoopFacts, IInv, ByLoop(stack, details, source)
<1>4. Len(stack) = 2 /\ ~InListOf(stack)
  <2>1. Top # 1 BY <1>1, <1>2, <1>3
  <2>. QED BY <1>1, <1>3, <2>1 DEF InListOf
<1>5. /\ Records(d, Flat(b), {d.value}, source) /\ WholeLoop(d, b) /\ g.path = {d.value}
  <2>1. LoopOK(d, stack, source) /\ ~InListOf(stack) BY <1>3, <1>4
  <2>. QED BY ONLY <1>2, <2>1, LoopText
<1>6. PICK c, tt, h : /\ c = [kind |-> "if", items |-> << >>]
                      /\ tt = stack' /\ h = Front(stack)
  OBVIOUS
<1>7. c \in Child /\ c.items = << >> /\ c \in ChildOf({})
  <2>1. << >> \in Seq(Item) /\ << >> \in Seq({}) OBVIOUS
  <2>2. c \in Child /\ c.items = << >> BY <1>6, <2>1 DEF Child
  <2>. QED BY <2>1, <2>2 DEF ChildOf
<1>9. h \in Seq(Frame) /\ Len(h) = 1 /\ h[1] = g
  <2>1. StackOK(stack, equal, Resolved, forms) /\ equal \in BOOLEAN BY Facts
  <2>2. stack[Len(stack)].kind # "loop" BY <1>1, <1>3
  <2>3. /\ StackOK(Front(stack), equal, Resolved, forms)
        /\ Len(Front(stack)) = Len(stack) - 1
        /\ \A k \in 1 .. Len(stack) - 1 : Front(stack)[k] = stack[k]
    BY <2>1, <2>2, PopOK
  <2>4. Len(stack) - 1 = 1 /\ 1 \in 1 .. 1 BY <1>4
  <2>5. h \in Seq(Frame) BY <1>6, <2>3 DEF StackOK
  <2>6. Len(h) = Len(stack) - 1 /\ \A k \in 1 .. Len(stack) - 1 : h[k] = stack[k]
    BY ONLY <1>6, <2>3
  <2>7. Len(h) = 1 /\ h[1] = stack[1] BY ONLY <2>4, <2>6
  <2>. QED BY <1>2, <2>5, <2>7
<1>10. Len(tt) = 1 /\ SameFrame(tt[1], g) /\ tt[1].block = Append(b, c)
  <2>1. tt = WithChild(h, c) BY <1>6 DEF LeavePlain, Closed
  <2>2. Len(h) # 0 /\ h[Len(h)].kind # "else" BY <1>3, <1>9
  <2>3. /\ Len(tt) = Len(h) /\ SameFrame(tt[Len(h)], h[Len(h)])
        /\ tt[Len(h)].block = Append(h[Len(h)].block, c)
    BY <1>7, <1>9, <2>1, <2>2, ChildFrame
  <2>. QED BY <1>2, <1>9, <2>3
<1>11. Flat(Append(b, c)) = Flat(b)
  <2>1. b \in Seq(ChildOf(Item)) /\ c \in ChildOf(Item) BY <1>3, <1>7, ChildOfItem
  <2>2. Flat(Append(b, c)) = Flat(b) \o << >> BY <1>7, <2>1, FlatAppend
  <2>3. Flat(b) \in Seq(Item) BY <2>1, FlatType
  <2>. QED BY <2>2, <2>3, ConcatEmptySeq
<1>12. WholeLoop(d, Append(b, c)) BY <1>3, <1>5, <1>7, WholeMore
<1>13. LoopOK(d, tt, source)
  <2>1. PICK f, bb, vs, text : /\ f = tt[1] /\ bb = f.block /\ vs = {d.value}
                               /\ text = Flat(bb)
    OBVIOUS
  <2>2. f.kind = "loop" /\ f.path = vs BY <1>3, <1>5, <1>10, <2>1 DEF SameFrame
  <2>3. Records(d, text, vs, source) /\ WholeLoop(d, bb)
    BY <1>5, <1>10, <1>11, <1>12, <2>1
  <2>4. Len(tt) = 1 BY <1>10
  <2>. QED BY ONLY <2>1, <2>2, <2>3, <2>4, LoopWhole
<1>. QED BY <1>1, <1>2, <1>3, <1>6, <1>13 DEF ByLoop

(* Of a loop with != nothing has been met before.                            *)
LEMMA NothingMet ==
  ASSUME NEW b \in Seq(ChildOf({})), NEW v
  PROVE  /\ Flat(b) = << >> /\ WholeLoop(NewDetail(v), b)
         /\ \A src : src[v] = << >> => Records(NewDetail(v), << >>, {v}, src)
<1>1. Flat(b) = << >> BY FlatNothing
<1>2. NewDetail(v).method = "none" /\ NewDetail(v).value = v BY DEF NewDetail
<1>3. OwnIfs(b)
  <2>1. SUFFICES ASSUME NEW i \in 1 .. Len(b) PROVE b[i].items = << >> BY DEF OwnIfs
  <2>2. b[i] \in ChildOf({}) BY ElementOfSeq
  <2>3. b[i].items \in Seq({}) BY <2>2 DEF ChildOf
  <2>. QED BY <2>3, EmptySeq, ElementOfSeq, LenProperties
<1>4. b \in Seq(ChildOf(PlainItem(v)))
  <2>1. {} \subseteq PlainItem(v) OBVIOUS
  <2>. QED BY <2>1, ChildrenMono
<1>5. WholeLoop(NewDetail(v), b) BY <1>2, <1>3, <1>4 DEF WholeLoop
<1>6. ASSUME NEW src, src[v] = << >> PROVE Records(NewDetail(v), << >>, {v}, src)
  <2>1. Len(<< >>) = 0 /\ \A i \in 1 .. 0 : FALSE OBVIOUS
  <2>2. Follows(<< >>, << >>) /\ Silent(<< >>) BY <2>1 DEF Follows, Silent
  <2>. QED BY <1>2, <1>6, <2>2 DEF Records
<1>. QED BY <1>1, <1>5, <1>6

LEMMA TestNotEqualLoop ==
  ASSUME IInv, forms' = {}, ByName(stack, details, source),
         NEW vs \in Tests, TestNotEqual(vs)
  PROVE  ByLoop(stack', details', source')
<1>1. /\ FormsOf(vs) = {} /\ ~(Len(AddValues(vs)) > 1) /\ Distinct(vs)
      /\ Here.kind = "loop" /\ details' = AddValues(vs) /\ source' = source
  BY DEF TestNotEqual
<1>2. ~Again(vs) BY <1>1 DEF FormsOf
<1>3. /\ details \in Seq(Detail) /\ NoTwice(details) /\ Len(details) \in Nat
      /\ stack \in Seq(Frame) /\ Top = 1 /\ Top = Len(stack) /\ Here = stack[Len(stack)]
  BY <1>1, Facts
<1>4. PICK es, tt : es = details' /\ tt = stack' OBVIOUS
<1>5. PICK v : v = vs[Len(vs)] OBVIOUS
<1>6. /\ Len(es) \in Nat \ {0} /\ Len(es) = Len(details) + Len(vs)
      /\ es[Len(es)] = NewDetail(v)
  BY <1>1, <1>2, <1>3, <1>4, <1>5, AddValuesIs
<1>7. Len(vs) \in {1, 2} /\ v \in Value /\ \A x : x \in Range(vs) <=> \E i \in 1 .. Len(vs) : x = vs[i]
  BY <1>5, TestsIs
<1>8. Len(es) = 1 /\ Len(details) = 0 /\ Len(vs) = 1
  <2>1. PICK n, k, l : n = Len(es) /\ k = Len(details) /\ l = Len(vs) OBVIOUS
  <2>2. n \in Nat \ {0} /\ ~(n > 1) /\ k \in Nat /\ l \in {1, 2} /\ n = k + l
    BY <1>1, <1>3, <1>4, <1>6, <1>7, <2>1
  <2>3. n = 1 /\ k = 0 /\ l = 1 BY ONLY <2>2
  <2>. QED BY <2>1, <2>3
<1>9. Range(vs) = {v} BY <1>5, <1>7, <1>8
<1>10. es[1] = NewDetail(v) /\ NewDetail(v).value = v BY <1>6, <1>8 DEF NewDetail
<1>11. \A w \in Value : source[w] = << >>
  <2>1. Values(details) = {} BY <1>8 DEF Values
  <2>. QED BY <2>1 DEF ByName, Untold
<1>12. Untold(es, source) BY <1>11 DEF Untold
<1>13. PICK c, h, b : /\ c = [kind |-> "if", items |-> << >>]
                      /\ h = WithChild(stack, c) /\ b = stack[1].block
  OBVIOUS
<1>14. c \in Child /\ c \in ChildOf({})
  <2>1. << >> \in Seq(Item) /\ << >> \in Seq({}) OBVIOUS
  <2>2. c \in Child /\ c.items = << >> BY <1>13, <2>1 DEF Child
  <2>. QED BY <2>1, <2>2 DEF ChildOf
<1>15. b \in Seq(ChildOf({})) BY <1>13 DEF ByName, Arranged
<1>16. /\ Len(h) = 1 /\ h \in Seq(Frame) /\ SameFrame(h[1], stack[1])
       /\ h[1].block = Append(b, c) /\ stack[1].kind = "loop"
  <2>1. stack[1].kind = "loop" BY <1>1, <1>3
  <2>2. Len(stack) # 0 /\ stack[Len(stack)].kind # "else"
    <3>1. Len(stack) = 1 BY ONLY <1>3
    <3>2. stack[Len(stack)].kind = "loop" BY ONLY <1>1, <1>3
    <3>. QED BY ONLY <3>1, <3>2
  <2>3. /\ h \in Seq(Frame) /\ Len(h) = Len(stack)
        /\ SameFrame(h[Len(stack)], stack[Len(stack)])
        /\ h[Len(stack)].block = Append(stack[Len(stack)].block, c)
    BY <1>3, <1>13, <1>14, <2>2, ChildFrame
  <2>. QED BY <1>3, <1>13, <2>1, <2>3
<1>17. Len(tt) = 1 /\ tt[1].kind = "loop" /\ tt[1].path = {v} /\ tt[1].block = Append(b, c)
  <2>1. tt = [h EXCEPT ![1].path = {v}]
    <3>1. tt = [h EXCEPT ![Top].path = Range(vs)] BY <1>4, <1>13 DEF TestNotEqual
    <3>2. Top = 1 BY <1>3
    <3>. QED BY ONLY <1>9, <3>1, <3>2
  <2>2. PICK x : x = h[1] OBVIOUS
  <2>3. x \in Frame
    <3>1. 1 \in 1 .. Len(h) /\ h \in Seq(Frame) BY <1>16
    <3>. QED BY ONLY <2>2, <3>1, ElementOfSeq
  <2>4. 1 \in DOMAIN h /\ DOMAIN h = 1 .. Len(h) BY <1>16
  <2>5. Len(tt) = 1 /\ tt[1] = [x EXCEPT !.path = {v}] BY <1>16, <2>1, <2>2, <2>4
  <2>6. /\ [x EXCEPT !.path = {v}].kind = x.kind
        /\ [x EXCEPT !.path = {v}].path = {v}
        /\ [x EXCEPT !.path = {v}].block = x.block
    BY <2>3 DEF Frame
  <2>7. x.kind = "loop" /\ x.block = Append(b, c) BY <1>16, <2>2 DEF SameFrame
  <2>. QED BY <2>5, <2>6, <2>7
<1>18. LoopOK(es[1], tt, source)
  <2>1. PICK f, bb, ws, text, e : /\ f = tt[1] /\ bb = f.block /\ e = es[1]
                                  /\ ws = {e.value} /\ text = Flat(bb)
    OBVIOUS
  <2>2. f.kind = "loop" /\ f.path = ws BY <1>10, <1>17, <2>1
  <2>3. bb \in Seq(ChildOf({})) BY <1>14, <1>15, <1>17, <2>1, BlockMore
  <2>4. /\ Flat(bb) = << >> /\ WholeLoop(NewDetail(v), bb)
        /\ Records(NewDetail(v), << >>, {v}, source)
    BY <1>7, <1>11, <2>3, NothingMet
  <2>5. Records(e, text, ws, source) /\ WholeLoop(e, bb) BY <1>10, <2>1, <2>4
  <2>6. Len(tt) = 1 BY <1>17
  <2>7. LoopOK(e, tt, source) BY ONLY <2>1, <2>2, <2>5, <2>6, LoopWhole
  <2>. QED BY <2>1, <2>7
<1>. QED BY <1>1, <1>4, <1>8, <1>12, <1>18 DEF ByLoop

-----------------------------------------------------------------------------
(* What the visit keeps                                                     *)

Kept ==
  /\ done => Top = 1
  /\ forms = {} /\ compared =>
       IF equal THEN ByName(stack, details, source) ELSE ByLoop(stack, details, source)

LEMMA KeptInit == Init => Kept
<1>. SUFFICES ASSUME Init PROVE Kept OBVIOUS
<1>1. PICK f : f = NewFrame("loop", Value) OBVIOUS
<1>2. f.kind = "loop" /\ f.path = Value /\ f.block = << >> BY <1>1 DEF NewFrame
<1>3. /\ stack = <<f>> /\ Len(stack) = 1 /\ stack[1] = f
      /\ details = << >> /\ Len(details) = 0 /\ equal /\ ~done
      /\ \A v \in Value : source[v] = << >>
  BY <1>1 DEF Init
<1>4. \A k \in 1 .. Len(stack) : stack[k] = f BY <1>3
<1>5. Arranged(stack, details)
  <2>1. \A k \in 1 .. Len(stack) : FrameOK(stack[k], k, Len(stack), details)
    BY <1>2, <1>4 DEF FrameOK
  <2>2. BranchOK(stack) BY <1>2, <1>4 DEF BranchOK, Branching
  <2>3. Open(stack) = {} BY <1>2, <1>4 DEF Open, NamesOf, Branching
  <2>4. ~InListOf(stack) BY <1>2, <1>3 DEF InListOf
  <2>5. stack[1].block \in Seq(ChildOf({}))
    <3>1. << >> \in Seq(ChildOf({})) OBVIOUS
    <3>. QED BY <1>2, <1>3, <3>1
  <2>. QED BY <2>1, <2>2, <2>3, <2>4, <2>5 DEF Arranged
<1>6. Untold(details, source) BY <1>3 DEF Untold
<1>7. \A i \in 1 .. Len(details) : FALSE BY <1>3
<1>8. ByName(stack, details, source) BY <1>5, <1>6, <1>7 DEF ByName
<1>. QED BY <1>3, <1>8 DEF Kept

(* In the loop after != there is no other test.                              *)
LEMMA LoopHere ==
  ASSUME IInv, ByLoop(stack, details, source)
  PROVE  Here.kind \in {"loop", "plain", "range", "for"}
<1>1. PICK d, b : d = details[1] /\ b = stack[1].block OBVIOUS
<1>2. /\ Top \in {1, 2} /\ (Here.kind = "loop" <=> Top = 1)
      /\ (Top = 2 => Here.kind \in {"plain", "range", "for"})
  BY ONLY <1>1, LoopFacts, IInv, ByLoop(stack, details, source)
<1>. QED BY <1>2

LEMMA KeptNames ==
  ASSUME IInv, equal, compared, forms' = {}, ByName(stack, details, source), Next
  PROVE  IF equal' THEN ByName(stack', details', source')
         ELSE ByLoop(stack', details', source')
<1>. DEFINE Goal == IF equal' THEN ByName(stack', details', source')
                    ELSE ByLoop(stack', details', source')
<1>0. ByName(stack', details', source') /\ equal' = equal => Goal OBVIOUS
<1>1. ASSUME NEW reads \in BOOLEAN, Statement(reads) PROVE Goal
  <2>1. equal' = equal BY <1>1 DEF Statement
  <2>. QED BY <1>0, <1>1, <2>1, StatementNames
<1>2. ASSUME NEW kind \in {"range", "for"}, EnterList(kind) PROVE Goal
  <2>1. equal' = equal BY <1>2 DEF EnterList
  <2>. QED BY <1>0, <1>2, <2>1, EnterListNames
<1>3. ASSUME ListStatement PROVE Goal
  <2>1. equal' = equal BY <1>3 DEF ListStatement
  <2>. QED BY <1>0, <1>3, <2>1, ListStatementNames
<1>4. ASSUME LeaveList PROVE Goal
  <2>1. equal' = equal BY <1>4 DEF LeaveList
  <2>. QED BY <1>0, <1>4, <2>1, LeaveListNames
<1>5. ASSUME NEW ofType \in BOOLEAN, EnterPlain(ofType) PROVE Goal
  <2>1. equal' = equal BY <1>5 DEF EnterPlain
  <2>. QED BY <1>0, <1>5, <2>1, EnterPlainNames
<1>6. ASSUME LeavePlain \/ LeaveSwitch PROVE Goal
  <2>1. equal' = equal BY <1>6 DEF LeavePlain, LeaveSwitch
  <2>. QED BY <1>0, <1>6, <2>1, LeaveQuietNames
<1>7. ASSUME NEW vs \in Tests, TestEqual(vs) PROVE Goal
  <2>1. equal' = equal BY <1>7 DEF TestEqual
  <2>. QED BY <1>0, <1>7, <2>1, TestEqualNames
<1>8. ASSUME NEW vs \in Tests, TestNotEqual(vs) PROVE Goal
  <2>1. ~equal' BY <1>8 DEF TestNotEqual
  <2>2. ByLoop(stack', details', source') BY <1>8, TestNotEqualLoop
  <2>. QED BY <2>1, <2>2
<1>9. ASSUME EnterElse PROVE Goal
  <2>1. equal' = equal BY <1>9 DEF EnterElse
  <2>. QED BY <1>0, <1>9, <2>1, EnterElseNames
<1>10. ASSUME LeaveIf PROVE Goal
  <2>1. equal' = equal BY <1>10 DEF LeaveIf
  <2>. QED BY <1>0, <1>10, <2>1, LeaveIfNames
<1>11. ASSUME EnterSwitch PROVE Goal
  <2>1. equal' = equal BY <1>11 DEF EnterSwitch
  <2>. QED BY <1>0, <1>11, <2>1, EnterSwitchNames
<1>12. ASSUME NEW vs \in Tests, NEW braced \in BOOLEAN, EnterCase(vs, braced) PROVE Goal
  <2>1. equal' = equal BY <1>12 DEF EnterCase
  <2>. QED BY <1>0, <1>12, <2>1, EnterCaseNames
<1>13. ASSUME NEW breaks \in BOOLEAN, LeaveCase(breaks) PROVE Goal
  <2>1. equal' = equal BY <1>13 DEF LeaveCase
  <2>. QED BY <1>0, <1>13, <2>1, LeaveCaseNames
<1>14. ASSUME ReplaceLoop PROVE Goal
  <2>1. /\ equal' = equal /\ stack' = stack /\ details' = details /\ source' = source
    BY <1>14 DEF ReplaceLoop
  <2>2. ByName(stack', details', source') BY <2>1
  <2>. QED BY <1>0, <2>1, <2>2
<1>. HIDE DEF Goal
<1>15. Goal
  BY <1>1, <1>2, <1>3, <1>4, <1>5, <1>6, <1>7, <1>8, <1>9, <1>10, <1>11, <1>12,
     <1>13, <1>14 DEF Next
<1>. QED BY <1>15 DEF Goal

LEMMA KeptLoop ==
  ASSUME IInv, ~equal, forms' = {}, ByLoop(stack, details, source), Next
  PROVE  ~equal' /\ ByLoop(stack', details', source')
<1>. DEFINE Goal == ~equal' /\ ByLoop(stack', details', source')
<1>0. Here.kind \in {"loop", "plain", "range", "for"} BY LoopHere
<1>1. ASSUME NEW reads \in BOOLEAN, Statement(reads) PROVE Goal
  <2>1. equal' = equal BY <1>1 DEF Statement
  <2>. QED BY <1>1, <2>1, StatementLoop
<1>2. ASSUME NEW kind \in {"range", "for"}, EnterList(kind) PROVE Goal
  <2>1. equal' = equal BY <1>2 DEF EnterList
  <2>. QED BY <1>2, <2>1, EnterListLoop
<1>3. ASSUME ListStatement PROVE Goal
  <2>1. equal' = equal BY <1>3 DEF ListStatement
  <2>. QED BY <1>3, <2>1, ListStatementLoop
<1>4. ASSUME LeaveList PROVE Goal
  <2>1. equal' = equal BY <1>4 DEF LeaveList
  <2>. QED BY <1>4, <2>1, LeaveListLoop
<1>5. ASSUME NEW ofType \in BOOLEAN, EnterPlain(ofType) PROVE Goal
  <2>1. equal' = equal BY <1>5 DEF EnterPlain
  <2>. QED BY <1>5, <2>1, EnterPlainLoop
<1>6. ASSUME LeavePlain PROVE Goal
  <2>1. equal' = equal BY <1>6 DEF LeavePlain
  <2>. QED BY <1>6, <2>1, LeavePlainLoop
<1>7. ASSUME ReplaceLoop PROVE Goal
  <2>1. /\ equal' = equal /\ stack' = stack /\ details' = details /\ source' = source
    BY <1>7 DEF ReplaceLoop
  <2>2. ByLoop(stack', details', source') BY <2>1
  <2>. QED BY <2>1, <2>2
<1>8. ASSUME NEW vs \in Tests, TestEqual(vs) \/ TestNotEqual(vs) PROVE Goal
  BY <1>8 DEF TestEqual, TestNotEqual
<1>9. ASSUME EnterElse \/ LeaveIf \/ EnterSwitch \/ LeaveSwitch PROVE Goal
  BY <1>0, <1>9 DEF EnterElse, LeaveIf, EnterSwitch, LeaveSwitch
<1>10. ASSUME NEW vs \in Tests, NEW braced \in BOOLEAN, EnterCase(vs, braced) PROVE Goal
  BY <1>0, <1>10 DEF EnterCase
<1>11. ASSUME NEW breaks \in BOOLEAN, LeaveCase(breaks) PROVE Goal
  BY <1>0, <1>11 DEF LeaveCase
<1>. HIDE DEF Goal
<1>12. Goal
  BY <1>1, <1>2, <1>3, <1>4, <1>5, <1>6, <1>7, <1>8, <1>9, <1>10, <1>11 DEF Next
<1>. QED BY <1>12 DEF Goal

(* A replaced loop is not visited any more; the unusual forms stay.            *)
LEMMA DoneSteps ==
  ASSUME IInv, Next
  PROVE  /\ compared' = compared /\ forms \subseteq forms'
         /\ done' => (done /\ Top # 1) \/ (~done /\ Top = 1 /\ stack' = stack)
<1>. DEFINE Goal == /\ compared' = compared /\ forms \subseteq forms'
                    /\ done' => (done /\ Top # 1) \/ (~done /\ Top = 1 /\ stack' = stack)
<1>0. Here.kind = "loop" <=> Top = 1 BY Facts
<1>1. ASSUME NEW reads \in BOOLEAN, Statement(reads) PROVE Goal
  BY <1>1 DEF Statement, Visit
<1>2. ASSUME NEW kind \in {"range", "for"}, EnterList(kind) PROVE Goal
  BY <1>2 DEF EnterList, Visit
<1>3. ASSUME NEW ofType \in BOOLEAN, EnterPlain(ofType) PROVE Goal
  BY <1>3 DEF EnterPlain, Visit
<1>4. ASSUME NEW vs \in Tests, TestEqual(vs) PROVE Goal
  BY <1>4 DEF TestEqual, Visit
<1>5. ASSUME NEW vs \in Tests, TestNotEqual(vs) PROVE Goal
  BY <1>5 DEF TestNotEqual, Visit
<1>6. ASSUME NEW vs \in Tests, NEW braced \in BOOLEAN, EnterCase(vs, braced) PROVE Goal
  BY <1>6 DEF EnterCase, Visit
<1>7. ASSUME ListStatement \/ EnterSwitch PROVE Goal
  <2>1. ListStatement => Goal BY DEF ListStatement, Visit
  <2>2. EnterSwitch => Goal BY DEF EnterSwitch, Visit
  <2>. QED BY ONLY <1>7, <2>1, <2>2
<1>8. ASSUME LeaveList \/ LeavePlain \/ EnterElse \/ LeaveIf \/ LeaveSwitch PROVE Goal
  BY <1>0, <1>8 DEF LeaveList, LeavePlain, EnterElse, LeaveIf, LeaveSwitch
<1>9. ASSUME NEW breaks \in BOOLEAN, LeaveCase(breaks) PROVE Goal
  BY <1>0, <1>9 DEF LeaveCase
<1>10. ASSUME ReplaceLoop PROVE Goal BY <1>0, <1>10 DEF ReplaceLoop
<1>. HIDE DEF Goal
<1>11. Goal
  BY <1>1, <1>2, <1>3, <1>4, <1>5, <1>6, <1>7, <1>8, <1>9, <1>10 DEF Next
<1>. QED BY <1>11 DEF Goal

LEMMA KeptNext == IInv /\ Kept /\ [Next]_vars => Kept'
<1>. SUFFICES ASSUME IInv, Kept, [Next]_vars PROVE Kept' OBVIOUS
<1>1. CASE UNCHANGED vars
  <2>1. /\ stack' = stack /\ details' = details /\ equal' = equal
        /\ compared' = compared /\ source' = source /\ forms' = forms /\ done' = done
    BY <1>1 DEF vars
  <2>. QED BY <2>1 DEF Kept, Top
<1>2. CASE Next
  <2>1. /\ compared' = compared /\ forms \subseteq forms'
        /\ done' => (done /\ Top # 1) \/ (~done /\ Top = 1 /\ stack' = stack)
    BY <1>2, DoneSteps
  <2>2. done' => Top' = 1 BY <2>1 DEF Kept, Top
  <2>3. ASSUME forms' = {}, compared'
        PROVE  IF equal' THEN ByName(stack', details', source')
               ELSE ByLoop(stack', details', source')
    <3>1. forms = {} /\ compared BY <2>1, <2>3
    <3>2. CASE equal
      <4>1. ByName(stack, details, source) BY <3>1, <3>2 DEF Kept
      <4>. QED BY <1>2, <2>3, <3>1, <3>2, <4>1, KeptNames
    <3>3. CASE ~equal
      <4>1. ByLoop(stack, details, source) BY <3>1, <3>3 DEF Kept
      <4>2. ~equal' /\ ByLoop(stack', details', source')
        BY <1>2, <2>3, <3>3, <4>1, KeptLoop
      <4>. QED BY <4>2
    <3>. QED BY <3>2, <3>3
  <2>. QED BY <2>2, <2>3 DEF Kept
<1>. QED BY <1>1, <1>2

-----------------------------------------------------------------------------
(* What the loop is replaced with                                           *)

LEMMA ReadsSpeak ==
  ASSUME NEW s, \E i \in 1 .. Len(s) : s[i].reads
  PROVE  ~Silent(s) /\ s # << >>
<1>1. ~Silent(s) BY DEF Silent
<1>2. Len(<< >>) = 0 /\ \A i \in 1 .. 0 : FALSE OBVIOUS
<1>. QED BY <1>1, <1>2

(* At the end of the visit no test is open.                                   *)
LEMMA LoopAlone ==
  ASSUME IInv, Top = 1
  PROVE  Open(stack) = {}
<1>1. Len(stack) = 1 /\ stack[1].kind = "loop"
  <2>1. Top = Len(stack) /\ Nested(stack) BY Facts
  <2>. QED BY <2>1 DEF Nested
<1>. QED BY <1>1 DEF Open, NamesOf, Branching

LEMMA NamesSameEffect ==
  ASSUME IInv, equal, Top = 1, forms = {}, ByName(stack, details, source),
         NEW v \in Value, \E i \in 1 .. Len(source[v]) : source[v][i].reads
  PROVE  Branch(v) = SourceRun(source[v], v)
<1>1. ~Silent(source[v]) /\ source[v] # << >> BY ReadsSpeak
<1>2. v \in Values(details) BY <1>1 DEF ByName, Untold
<1>3. PICK p \in 1 .. Len(details) : details[p].value = v BY <1>2, ValuesAre
<1>4. PICK d : d = details[p] OBVIOUS
<1>5. details \in Seq(Detail) /\ NoTwice(details) /\ Len(details) \in Nat /\ d \in Detail
  BY <1>3, <1>4, Facts, ElementOfSeq
<1>6. Open(stack) = {} BY LoopAlone
<1>7. d.filled /\ Told(d, source[v]) BY <1>3, <1>4, <1>6 DEF ByName
<1>8. Written(d) = SourceRun(source[v], v) BY <1>1, <1>3, <1>4, <1>7 DEF Told
<1>9. Written(d) \in Seq(OwnRun(v))
  <2>1. OwnDetail(d) BY <1>3, <1>4 DEF IInv, DetailsOK, Clean
  <2>. QED BY <1>3, <1>4, <1>5, <2>1, WrittenIs
<1>10. PICK t : t = [i \in 1 .. Len(details) |->
                       IF details[i].value = v THEN Written(details[i]) ELSE << >>]
  OBVIOUS
<1>11. Branch(v) = FlattenSeq(t) BY <1>10 DEF Branch
<1>12. t[p] = Written(d) BY <1>3, <1>4, <1>10
<1>13. ASSUME NEW i \in 1 .. Len(details), i # p PROVE t[i] = << >>
  BY <1>3, <1>5, <1>10, <1>13 DEF NoTwice
<1>14. t \in Seq(Seq(OwnRun(v))) /\ Len(t) = Len(details)
  <2>1. << >> \in Seq(OwnRun(v)) OBVIOUS
  <2>2. \A i \in 1 .. Len(details) :
          (IF details[i].value = v THEN Written(details[i]) ELSE << >>) \in Seq(OwnRun(v))
    <3>1. SUFFICES ASSUME NEW i \in 1 .. Len(details)
                   PROVE  (IF details[i].value = v THEN Written(details[i]) ELSE << >>)
                            \in Seq(OwnRun(v))
      OBVIOUS
    <3>2. CASE i = p BY <1>3, <1>4, <1>9, <3>2
    <3>3. CASE i # p
      <4>1. details[i].value # v BY <1>3, <1>5, <3>3 DEF NoTwice
      <4>. QED BY <2>1, <4>1
    <3>. QED BY <3>2, <3>3
  <2>3. t \in Seq(Seq(OwnRun(v))) BY <1>5, <1>10, <2>2, IsASeq
  <2>. QED BY <1>5, <1>10, <2>3
<1>15. FlattenSeq(t) = t[p]
  <2>1. \A i \in 1 .. Len(t) : i # p => t[i] = << >> BY <1>13, <1>14
  <2>2. p \in 1 .. Len(t) BY <1>14
  <2>. QED BY <1>14, <2>1, <2>2, FlattenOne
<1>. QED BY <1>8, <1>11, <1>12, <1>15

(* The text of the loop after !=, whose ifs have none.                        *)
LEMMA WrappedSame ==
  ASSUME NEW d \in Detail, d.method # "none", NEW b \in Seq(Child), WholeLoop(d, b),
         NEW s \in Seq(Effect), Follows(Flat(b), s)
  PROVE  Wrapped(d, b) = SourceRun(s, d.value)
<1>1. PICK v : v = d.value OBVIOUS
<1>2. v \in Value /\ d.method \in {"scalar", "list"} BY <1>1 DEF Detail
<1>3. PICK text : text = FlatOf(b, NotIf) OBVIOUS
<1>4. text = Flat(b)
  <2>1. ASSUME NEW i \in 1 .. Len(b) PROVE b[i].kind \in NotIf \/ b[i].items = << >>
    <3>1. b[i] \in Child BY ElementOfSeq
    <3>2. b[i].kind \in {"stmt", "if", "range", "for"} BY <3>1 DEF Child
    <3>3. b[i].kind = "if" => b[i].items = << >> BY DEF WholeLoop, OwnIfs
    <3>. QED BY <3>2, <3>3 DEF NotIf
  <2>. QED BY <1>3, <2>1, FlatOfAll
<1>5. OwnOf(text, v) = SourceRun(s, v) BY <1>4, FollowsOwn
<1>6. CASE d.method = "scalar"
  <2>1. b \in Seq(ChildOf(PlainItem(v))) BY <1>1, <1>6 DEF WholeLoop
  <2>2. text \in Seq(PlainItem(v)) BY <1>4, <2>1, FlatType
  <2>3. RunAll(text, v, 0) = OwnOf(text, v) BY <1>2, <2>2, RunOwn
  <2>4. Wrapped(d, b) = RunAll(text, v, 0) BY <1>1, <1>3, <1>6 DEF Wrapped
  <2>. QED BY <1>1, <1>5, <2>3, <2>4
<1>7. CASE d.method = "list" /\ d.isFor
  <2>1. b \in Seq(ChildOf(IndexItem(v))) BY <1>1, <1>7 DEF WholeLoop
  <2>2. text \in Seq(IndexItem(v)) BY <1>4, <2>1, FlatType
  <2>3. RunAll(text, v, 0) = OwnOf(text, v) BY <1>2, <2>2, RunIndex
  <2>4. Wrapped(d, b) = RunAll(text, v, 0) BY <1>1, <1>3, <1>7 DEF Wrapped
  <2>. QED BY <1>1, <1>5, <2>3, <2>4
<1>8. CASE d.method = "list" /\ ~d.isFor
  <2>1. PICK n \in Nat \ {0} : b \in Seq(ChildOf(ListItem("range", n, v)))
    BY <1>1, <1>8 DEF WholeLoop
  <2>2. text \in Seq(ListItem("range", n, v)) BY <1>4, <2>1, FlatType
  <2>3. RunAll(text, v, FirstLoop(text)) = OwnOf(text, v) BY <1>2, <2>2, RunRange
  <2>4. Wrapped(d, b) = RunAll(text, v, FirstLoop(text)) BY <1>1, <1>3, <1>8 DEF Wrapped
  <2>. QED BY <1>1, <1>5, <2>3, <2>4
<1>. QED BY <1>2, <1>6, <1>7, <1>8

LEMMA LoopSameEffect ==
  ASSUME IInv, ~equal, Top = 1, ByLoop(stack, details, source),
         NEW v \in Value, \E i \in 1 .. Len(source[v]) : source[v][i].reads
  PROVE  Branch(v) = SourceRun(source[v], v)
<1>1. ~Silent(source[v]) /\ source[v] # << >> BY ReadsSpeak
<1>2. PICK d, b : d = details[1] /\ b = stack[1].block OBVIOUS
<1>3. /\ Len(details) = 1 /\ d \in Detail /\ Top = Len(stack) /\ Here = stack[Top]
      /\ stack[1].kind = "loop" /\ b \in Seq(Child)
      /\ Untold(details, source) /\ LoopOK(d, stack, source)
  BY ONLY <1>2, LoopFacts, IInv, ByLoop(stack, details, source)
<1>4. ~InListOf(stack)
  <2>1. stack[Len(stack)].kind = "loop" BY <1>3
  <2>. QED BY <2>1 DEF InListOf
<1>5. Records(d, Flat(b), {d.value}, source) /\ WholeLoop(d, b)
  <2>1. LoopOK(d, stack, source) BY <1>3
  <2>. QED BY ONLY <1>2, <1>4, <2>1, LoopText
<1>6. v = d.value
  <2>1. Values(details) = {d.value} BY <1>2, <1>3 DEF Values
  <2>. QED BY <1>1, <1>3, <2>1 DEF Untold
<1>7. Follows(Flat(b), source[v]) /\ d.method # "none"
  BY <1>1, <1>5, <1>6 DEF Records
<1>8. source[v] \in Seq(Effect)
  <2>1. source \in [Value -> Seq(Effect)] BY Facts
  <2>. QED BY <2>1
<1>9. Wrapped(d, b) = SourceRun(source[v], v)
  BY <1>3, <1>5, <1>6, <1>7, <1>8, WrappedSame
<1>10. Branch(v) = Wrapped(d, b) BY <1>2, <1>6 DEF Branch
<1>. QED BY <1>9, <1>10

(* A name whose detail got no method is one of which nothing is read.         *)
LEMMA NamesCompile ==
  ASSUME IInv, equal, Top = 1, ByName(stack, details, source), ~Unread
  PROVE  Compiles
<1>1. SUFFICES ASSUME NEW p \in 1 .. Len(details) PROVE details[p].method # "none"
  BY DEF Compiles, HasCondition
<1>2. PICK d, v : d = details[p] /\ v = d.value OBVIOUS
<1>3. v \in Values(details) BY <1>2 DEF Values
<1>4. Open(stack) = {} BY LoopAlone
<1>5. Told(d, source[v]) BY <1>2, <1>4 DEF ByName
<1>6. ~Silent(source[v]) BY <1>3, ReadsSpeak DEF Unread
<1>. QED BY <1>2, <1>5, <1>6 DEF Told

LEMMA LoopCompiles ==
  ASSUME IInv, ~equal, Top = 1, ByLoop(stack, details, source), ~Unread
  PROVE  Compiles
<1>1. PICK d, b, v : d = details[1] /\ b = stack[1].block /\ v = d.value OBVIOUS
<1>2. /\ Len(details) = 1 /\ d \in Detail /\ Top = Len(stack) /\ Here = stack[Top]
      /\ stack[1].kind = "loop" /\ b \in Seq(Child)
      /\ Untold(details, source) /\ LoopOK(d, stack, source)
  BY ONLY <1>1, LoopFacts, IInv, ByLoop(stack, details, source)
<1>3. ~InListOf(stack)
  <2>1. stack[Len(stack)].kind = "loop" BY <1>2
  <2>. QED BY <2>1 DEF InListOf
<1>4. Records(d, Flat(b), {d.value}, source) /\ WholeLoop(d, b)
  <2>1. LoopOK(d, stack, source) BY <1>2
  <2>. QED BY ONLY <1>1, <1>3, <2>1, LoopText
<1>5. v \in Values(details) BY <1>1, <1>2 DEF Values
<1>6. ~Silent(source[v]) /\ source[v] # << >> BY <1>5, ReadsSpeak DEF Unread
<1>7. d.method # "none" BY <1>1, <1>4, <1>6 DEF Records
<1>. QED BY <1>1, <1>7 DEF Compiles, HasCondition

LEMMA KeptSameEffect == IInv /\ Kept => SameEffect
<1>. SUFFICES ASSUME IInv, Kept, done, details # << >>, forms = {}, ~Unread
              PROVE  /\ Compiles
                     /\ \A v \in Value :
                          (\E i \in 1 .. Len(source[v]) : source[v][i].reads)
                          => Branch(v) = Expected(v)
  BY DEF SameEffect, Replaced
<1>1. Top = 1 BY DEF Kept
<1>2. compared BY DEF IInv, DetailsOK
<1>3. \A v : Expected(v) = SourceRun(source[v], v) BY DEF Expected, SourceRun
<1>4. CASE equal
  <2>1. ByName(stack, details, source) BY <1>2, <1>4 DEF Kept
  <2>. QED BY <1>1, <1>3, <1>4, <2>1, NamesSameEffect, NamesCompile
<1>5. CASE ~equal
  <2>1. ByLoop(stack, details, source) BY <1>2, <1>5 DEF Kept
  <2>. QED BY <1>1, <1>3, <1>5, <2>1, LoopSameEffect, LoopCompiles
<1>. QED BY <1>4, <1>5

-----------------------------------------------------------------------------
(* The visit keeps its types and has one detail per name, for any names, any  *)
(* tests and any nesting.                                                   *)
THEOREM CommonInfoTypes == Spec => []CommonInfoTypeOK
<1>1. IInv => CommonInfoTypeOK BY DEF IInv
<1>. QED BY <1>1, InitOK, NextOK, PTL DEF Spec

(* No block of a name reads the variable of another.                         *)
THEOREM OwnVariableRead == Spec => []ReadsOwnVariable
<1>1. IInv => ReadsOwnVariable
  <2>1. SUFFICES ASSUME IInv, done, details # << >>, Clean(forms), NEW v \in Value,
                        NEW i \in 1 .. Len(Branch(v))
                 PROVE  Branch(v)[i].reads \in {v, None}
    BY DEF ReadsOwnVariable, Replaced, Clean
  <2>2. Branch(v) \in Seq(OwnRun(v)) BY <2>1, BranchIs
  <2>3. Branch(v)[i] \in OwnRun(v) BY <2>1, <2>2, ElementOfSeq
  <2>. QED BY <2>3 DEF OwnRun
<1>. QED BY <1>1, InitOK, NextOK, PTL DEF Spec

(* A body that was collected for a name is never replaced by another.        *)
THEOREM BodyIsKept == Spec => BodyKept
<1>1. IInv /\ [Next]_vars =>
        [\A i \in 1 .. Len(details) :
           details[i].filled /\ "caseAgain" \notin forms =>
             \A part \in {"value", "pre", "loop", "post"} :
               details'[i][part] = details[i][part]]_vars
  BY NextOK DEF BodyStep
<1>. QED BY <1>1, InitOK, NextOK, PTL DEF Spec, BodyKept

(* Every name whose value the source reads gets a block that does what the     *)
(* source does for it: its statements in their order, in their list loop and  *)
(* with the variable of the name; and every block has a condition.  This is   *)
(* for loops that read a value of every name they test and have no unusual    *)
(* form.                                                                    *)
THEOREM CommonInfoSameEffect == Spec => []SameEffect
<1>1. Init => IInv /\ Kept BY InitOK, KeptInit
<1>2. IInv /\ Kept /\ [Next]_vars => IInv' /\ Kept' BY NextOK, KeptNext
<1>. QED BY <1>1, <1>2, KeptSameEffect, PTL DEF Spec
=============================================================================
