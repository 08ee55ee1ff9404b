------------------------ MODULE CommonInfoFixedProofs ------------------------
(***************************************************************************)
(* Theorems about CommonInfoFixed, for every set of names, tables and        *)
(* vectors and every loop over them: one detail per name, the conditions of  *)
(* the blocks, what the tables hold, and that the block of each name does    *)
(* what the source does with it.                                             *)
(*                                                                         *)
(* The inductive invariant says how the frames nest (Framed), which details   *)
(* have no condition yet (Tested), how tables, vectors and size tables are     *)
(* connected (Filling), and what a detail and the block of its open if record  *)
(* of the source before the three texts are cut out of the block (Kept).      *)
(***************************************************************************)
EXTENDS CommonInfoFixed, DataInduction

(* The statements that the source runs for the attributes of a name.        *)
Steps == [id : Nat, loop : Nat,
          reads : {"none", "value", "size", "list", "first", "each", "other"}]

(* The first frame is the loop's, an if that tests nothing stands in the     *)
(* loop itself, an if with a test has no if in it; one that is open has its  *)
(* detail.                                                                  *)
Framed ==
  /\ visited \in Nat
  /\ Top >= 1
  /\ \A k \in 1 .. Top : /\ stack[k].kind = "loop" <=> k = 1
                         /\ stack[k].kind = "plain" => k = 2
                         /\ stack[k].kind = "if" => k = Top
                         /\ stack[k].kind \in {"if", "else"} => details # << >>
  /\ done => Top = 1
  /\ source \in [Name -> Seq(Steps)]

(* Where every test is of one new name and every if of a test reads          *)
(* something: a functor is declared of the kind of its name, and a detail     *)
(* whose condition would be empty is that of an if which is still open and    *)
(* has read nothing, of the innermost if the detail added last.               *)
AllNone(block) == \A i \in 1 .. Len(block) : block[i].access = "none"
Settled(d) == d.method # "none" /\ fields[d.name] = d.method

FunctorsFit ==
  \A n \in Name : /\ fields[n] = "scalar" => n \notin listNames
                  /\ fields[n] = "list" => n \in listNames

OwnPath == Here.kind = "if" => Here.path = {Latest.name}

IsOpen(i, k) ==
  /\ stack[k].kind \in {"if", "else"} /\ AllNone(stack[k].block)
  /\ Here.kind = "if" => (k = Top <=> i = Len(details))

SettledOrOpen ==
  \A i \in 1 .. Len(details) :
    ~Settled(details[i]) => \E k \in 1 .. Top : IsOpen(i, k)

Tested == ~Has({"unread", "or", "again"}) => FunctorsFit /\ OwnPath /\ SettledOrOpen

(* A loop that fills tables has no details unless it tests names too, a      *)
(* table is read with the vector it is connected with, and a size table       *)
(* belongs to a list table that is read with the same vector.                 *)
Filling ==
  /\ multi <=> tables # << >>
  /\ multi /\ ~Has({"both"}) => details = << >>
  /\ ~Has({"twoVectors"}) =>
       \A i, j \in 1 .. Len(reads) :
         reads[i][1] = reads[j][1] => reads[i][2] = reads[j][2]
  /\ ~Has({"sizeFirst", "otherList"}) =>
       \A s \in SizeTable : s \in ToSet(tables) =>
         /\ lists[s] \in ListTable /\ lists[s] \in ToSet(tables)
         /\ Connect(lists[s]) = Connect(s)

(* An item of the block of a name is the text of a statement of the source.  *)
TextOf(item, s, n) ==
  /\ item.id = s.id /\ item.loop = s.loop
  /\ \/ item.access = "none" /\ item.name = None /\ s.reads = "none" /\ s.loop = 0
     \/ /\ item.access \in {"value", "size", "list"}
        /\ item.name = n /\ s.reads = item.access /\ s.loop = 0
     \/ /\ item.access \in {"elem", "loopVar"}
        /\ item.name = n /\ s.reads = "each" /\ s.loop # 0

(* What the detail d of an open if has recorded of the block of the if: the  *)
(* kind of its name once something was read, one list loop at most, and the   *)
(* marks by which Written leaves the list loop out only without a range loop.  *)
Records(d, block) ==
  /\ d.pre = << >> /\ d.loop = << >> /\ d.post = << >>
  /\ d.method = IF AllNone(block) THEN "none"
                ELSE IF d.name \in listNames THEN "list" ELSE "scalar"
  /\ d.size => \E i \in 1 .. Len(block) : block[i].access \in {"size", "loopVar"}
  /\ d.hasAddress => \E i \in 1 .. Len(block) : block[i].access = "list"
  /\ \A i, j \in 1 .. Len(block) : block[i].loop # 0 /\ block[j].loop # 0 => i = j
  /\ \A i \in 1 .. Len(block) :
       /\ block[i].loop # 0 => d.name \in listNames
       /\ block[i].access = "loopVar" => d.isFor
       /\ block[i].access = "elem" =>
            ~d.isFor /\ ~d.size /\ ~d.hasAddress /\ d.loopVar = block[i].loop

Odd == {"outside", "plain", "again", "or", "else", "unread",
        "secondList", "sizeBesideRange", "addressBesideList", "first",
        "other", "both"}

(* Without the forms that SameEffectPerName excepts, an if stands in the     *)
(* loop itself and tests a name of its own; the block of a detail whose if    *)
(* is closed does what the source does with the name, and a name that is not  *)
(* tested has nothing done.                                                  *)
Flat == Top <= 2 /\ OwnPath /\ Here.kind # "plain"

Untested == \A n \in Name \ Names(details) : source[n] = << >>

Closed ==
  \A i \in 1 .. Len(details) : i < Len(details) \/ Top = 1 =>
    Written(details[i]) = Expected(details[i].name)

Texts(block, n) ==
  /\ Len(block) = Len(source[n])
  /\ \A i \in 1 .. Len(block) : TextOf(block[i], source[n][i], n)

Open == Top = 2 => Texts(Here.block, Latest.name) /\ Records(Latest, Here.block)

Kept == ~Has(Odd) => Flat /\ Untested /\ Closed /\ Open

IInv == FixedTypeOK /\ Framed /\ Tested /\ Filling /\ Kept
-----------------------------------------------------------------------------
(* Sequences, frames and details                                           *)

(* A sequence with another last element.                                    *)
LEMMA InLastPlace ==
  ASSUME NEW A, NEW s \in Seq(A), s # << >>, NEW e \in A
  PROVE  /\ [s EXCEPT ![Len(s)] = e] \in Seq(A)
         /\ Len([s EXCEPT ![Len(s)] = e]) = Len(s)
         /\ \A k \in 1 .. Len(s) :
              [s EXCEPT ![Len(s)] = e][k] = IF k = Len(s) THEN e ELSE s[k]
<1>1. Len(s) \in Nat /\ DOMAIN s = 1 .. Len(s) /\ Len(s) # 0
  BY LenProperties, EmptySeq
<1>2. Len(s) \in 1 .. Len(s) BY <1>1
<1>. QED BY <1>1, <1>2, ExceptSeq

(* A sequence with one more element.                                        *)
LEMMA AppendedIs ==
  ASSUME NEW A, NEW s \in Seq(A), NEW e \in A
  PROVE  /\ Append(s, e) \in Seq(A)
         /\ Len(Append(s, e)) = Len(s) + 1
         /\ \A k \in 1 .. Len(s) + 1 :
              Append(s, e)[k] = IF k = Len(s) + 1 THEN e ELSE s[k]
<1>1. Len(s) \in Nat BY LenProperties
<1>. QED BY <1>1, AppendProperties

(* A frame with one more item in its block.                                 *)
LEMMA WithItemIs ==
  ASSUME FixedTypeOK, Framed, NEW access \in Access, NEW number \in Nat,
         access # "none" => details # << >>
  PROVE  /\ Id \in Nat /\ Id # 0
         /\ ItemOf(access, number) \in Item
         /\ WithItem(access, number) \in Seq(Frame)
         /\ Len(WithItem(access, number)) = Top
         /\ \A k \in 1 .. Top : k # Top => WithItem(access, number)[k] = stack[k]
         /\ WithItem(access, number)[Top] =
              [kind |-> Here.kind, path |-> Here.path, rest |-> Here.rest,
               block |-> Append(Here.block, ItemOf(access, number))]
<1>1. /\ stack \in Seq(Frame) /\ details \in Seq(Detail)
      /\ Top \in Nat /\ Top >= 1 /\ visited \in Nat /\ Len(reads) \in Nat
  BY LenProperties DEF FixedTypeOK, Framed, Top
<1>2. stack # << >> BY <1>1, EmptySeq DEF Top
<1>3. Here \in Frame BY <1>1, ElementOfSeq DEF Here, Top
<1>4. Id \in Nat /\ Id # 0 BY <1>1 DEF Id
<1>5. ItemOf(access, number) \in Item
  <2>1. access # "none" => Latest.name \in Name
    <3>. SUFFICES ASSUME access # "none" PROVE Latest.name \in Name OBVIOUS
    <3>1. Len(details) \in Nat /\ Len(details) # 0 BY <1>1, LenProperties, EmptySeq
    <3>2. Latest \in Detail BY <1>1, <3>1, ElementOfSeq DEF Latest
    <3>. QED BY <3>2 DEF Detail
  <2>. QED BY <1>4, <2>1 DEF ItemOf, Item
<1>6. PICK i : i = ItemOf(access, number) OBVIOUS
<1>7. PICK b : b = Append(Here.block, i) OBVIOUS
<1>8. b \in Seq(Item) BY <1>3, <1>5, <1>6, <1>7, AppendedIs DEF Frame
<1>9. PICK f : f = [kind |-> Here.kind, path |-> Here.path, rest |-> Here.rest, block |-> b]
  OBVIOUS
<1>10. f \in Frame BY <1>3, <1>8, <1>9 DEF Frame
<1>11. [Here EXCEPT !.block = b] = f BY <1>3, <1>9 DEF Frame
<1>12. WithItem(access, number) = [stack EXCEPT ![Len(stack)] = f]
  BY <1>6, <1>7, <1>11 DEF WithItem, InHere, Top
<1>13. /\ WithItem(access, number) \in Seq(Frame)
       /\ Len(WithItem(access, number)) = Top
       /\ \A k \in 1 .. Top :
            WithItem(access, number)[k] = IF k = Top THEN f ELSE stack[k]
  BY <1>1, <1>2, <1>10, <1>12, InLastPlace DEF Top
<1>. QED BY <1>1, <1>4, <1>5, <1>6, <1>7, <1>9, <1>13

(* What is executed is executed for the names of the path.                   *)
LEMMA ExecutedIs ==
  ASSUME FixedTypeOK, Framed, NEW number \in Nat,
         NEW reading, reading \in {"none", "value", "size", "list", "first", "each", "other"},
         Executed(reading, number)
  PROVE  /\ source' \in [Name -> Seq(Steps)]
         /\ \A n \in Name \ Here.path : source'[n] = source[n]
         /\ \A n \in Name \intersect Here.path :
              source'[n] = Append(source[n], [id |-> Id, reads |-> reading, loop |-> number])
<1>1. visited \in Nat /\ Len(reads) \in Nat /\ source \in [Name -> Seq(Steps)]
  BY LenProperties DEF FixedTypeOK, Framed
<1>2. PICK e : e = [id |-> Id, reads |-> reading, loop |-> number] OBVIOUS
<1>3. e \in Steps BY <1>1, <1>2 DEF Steps, Id
<1>4. \A n \in Name : Append(source[n], e) \in Seq(Steps)
  BY <1>1, <1>3, AppendedIs
<1>5. source' = [n \in Name |-> IF n \in Here.path THEN Append(source[n], e) ELSE source[n]]
  BY <1>2 DEF Executed
<1>. QED BY <1>1, <1>2, <1>4, <1>5

(* Reads, loops and bodies leave a detail its name.                          *)
LEMMA AfterReadIs ==
  ASSUME NEW d \in Detail, NEW access
  PROVE  AfterRead(d, access) \in Detail /\ AfterRead(d, access).name = d.name
BY DEF AfterRead, Detail

(* So does a loop over the list.                                            *)
LEMMA AfterLoopIs ==
  ASSUME FixedTypeOK, Framed, NEW d \in Detail, NEW kind
  PROVE  AfterLoop(d, kind) \in Detail /\ AfterLoop(d, kind).name = d.name
<1>1. Id \in Nat BY LenProperties DEF FixedTypeOK, Framed, Id
<1>. QED BY <1>1 DEF AfterLoop, Detail

(* The items at some places of a block are a sequence of items.             *)
LEMMA WhereType ==
  ASSUME NEW s \in Seq(Item), NEW S
  PROVE  Where(s, S) \in Seq(Item)
<1>. DEFINE t == [i \in 1 .. Len(s) |-> IF i \in S THEN <<s[i]>> ELSE << >>]
<1>1. Len(s) \in Nat BY LenProperties
<1>2. \A i \in 1 .. Len(s) : <<s[i]>> \in Seq(Item) /\ << >> \in Seq(Item)
  BY ElementOfSeq
<1>3. t \in Seq(Seq(Item)) BY <1>1, <1>2, IsASeq
<1>4. FlattenSeq(t) \in Seq(Item) BY <1>3, FlattenSeqProperties
<1>. QED BY <1>4 DEF Where

(* So are the three texts of a body.                                        *)
LEMMA BodyTextType ==
  ASSUME NEW s \in Seq(Item)
  PROVE  /\ BodyText(s).pre \in Seq(Item)
         /\ BodyText(s).loop \in Seq(Item)
         /\ BodyText(s).post \in Seq(Item)
<1>. DEFINE looped == {i \in 1 .. Len(s) : s[i].loop # 0}
            first == IF looped = {} THEN Len(s) + 1
                     ELSE CHOOSE i \in looped : \A j \in looped : i <= j
<1>1. Len(s) \in Nat BY LenProperties
<1>2. first \in 1 .. Len(s) + 1
  <2>1. looped \subseteq Nat /\ looped \subseteq 1 .. Len(s) BY <1>1
  <2>2. CASE looped = {} BY <1>1, <2>2
  <2>3. CASE looped # {}
    <3>. HIDE DEF looped
    <3>1. first \in looped BY <2>1, <2>3, LeastIs
    <3>. HIDE DEF first
    <3>. QED BY <1>1, <2>1, <3>1
  <2>. QED BY <2>2, <2>3
<1>. HIDE DEF looped
<1>3. BodyText(s) = [pre  |-> SubSeq(s, 1, first - 1), loop |-> Where(s, looped),
                     post |-> Where(s, (first .. Len(s)) \ looped)]
  BY DEF BodyText, looped
<1>. HIDE DEF first
<1>4. SubSeq(s, 1, first - 1) \in Seq(Item) BY <1>1, <1>2, SubSeqProperties
<1>. QED BY <1>3, <1>4, WhereType

(* A detail that gets the texts of a body is a detail of its name.          *)
LEMMA FilledType ==
  ASSUME NEW d \in Detail, NEW s \in Seq(Item)
  PROVE  Filled(d, BodyText(s)) \in Detail /\ Filled(d, BodyText(s)).name = d.name
<1>1. PICK text : text = BodyText(s) OBVIOUS
<1>2. text.pre \in Seq(Item) /\ text.loop \in Seq(Item) /\ text.post \in Seq(Item)
  BY <1>1, BodyTextType
<1>3. PICK l : l = IF text.loop = << >> THEN d.loop ELSE text.loop OBVIOUS
<1>4. PICK p : p = IF text.post = << >> THEN d.post ELSE text.post OBVIOUS
<1>5. l \in Seq(Item) /\ p \in Seq(Item) BY <1>2, <1>3, <1>4 DEF Detail
<1>6. Filled(d, text) = [d EXCEPT !.pre = text.pre, !.loop = l, !.post = p]
  BY <1>3, <1>4 DEF Filled, Detail
<1>7. Filled(d, text) \in Detail /\ Filled(d, text).name = d.name
  BY <1>2, <1>5, <1>6 DEF Detail
<1>. QED BY <1>1, <1>7

(* A new detail has no method.                                              *)
LEMMA NewDetailIs ==
  ASSUME NEW n \in Name
  PROVE  NewDetail(n) \in Detail /\ NewDetail(n).name = n /\ NewDetail(n).method = "none"
<1>1. << >> \in Seq(Item) OBVIOUS
<1>. QED BY <1>1 DEF NewDetail, Detail

(* One detail for each name.                                                *)
Once(ds) == \A i, j \in 1 .. Len(ds) : ds[i].name = ds[j].name => i = j

(* A name is added once; it is among the names then.                        *)
LEMMA AddNameIs ==
  ASSUME NEW ds \in Seq(Detail), Once(ds), NEW n \in Name
  PROVE  /\ AddName(ds, n) \in Seq(Detail) /\ Once(AddName(ds, n))
         /\ AddName(ds, n) # << >>
         /\ n \notin Names(ds) => AddName(ds, n) = Append(ds, NewDetail(n))
         /\ Names(AddName(ds, n)) = Names(ds) \cup {n}
<1>1. Len(ds) \in Nat BY LenProperties
<1>2. CASE n \in Names(ds)
  <2>1. AddName(ds, n) = ds BY <1>2 DEF AddName
  <2>2. Len(ds) # 0 BY <1>1, <1>2 DEF Names
  <2>3. ds # << >> BY <2>2, EmptySeq
  <2>. QED BY <1>2, <2>1, <2>3
<1>3. CASE n \notin Names(ds)
  <2>1. PICK d : d = NewDetail(n) OBVIOUS
  <2>2. d \in Detail /\ d.name = n BY <2>1, NewDetailIs
  <2>3. PICK es : es = Append(ds, d) OBVIOUS
  <2>4. AddName(ds, n) = es BY <1>3, <2>1, <2>3 DEF AddName
  <2>5. /\ es \in Seq(Detail) /\ Len(es) = Len(ds) + 1
        /\ \A k \in 1 .. Len(ds) + 1 : es[k] = IF k = Len(ds) + 1 THEN d ELSE ds[k]
    BY <2>2, <2>3, AppendedIs
  <2>6. Once(es)
    <3>. SUFFICES ASSUME NEW i \in 1 .. Len(es), NEW j \in 1 .. Len(es),
                         es[i].name = es[j].name
                  PROVE  i = j
      BY DEF Once
    <3>1. \A k \in 1 .. Len(ds) : ds[k].name # n BY <1>3 DEF Names
    <3>2. i \in 1 .. Len(ds) + 1 /\ j \in 1 .. Len(ds) + 1 BY <2>5
    <3>3. CASE i \in 1 .. Len(ds) /\ j \in 1 .. Len(ds)
      <4>1. es[i] = ds[i] /\ es[j] = ds[j] BY <1>1, <2>5, <3>2, <3>3
      <4>. QED BY <3>3, <4>1 DEF Once
    <3>4. CASE i \in 1 .. Len(ds) /\ j = Len(ds) + 1
      <4>1. es[i] = ds[i] /\ es[j] = d BY <1>1, <2>5, <3>2, <3>4
      <4>. QED BY <2>2, <3>1, <3>4, <4>1
    <3>5. CASE j \in 1 .. Len(ds) /\ i = Len(ds) + 1
      <4>1. es[j] = ds[j] /\ es[i] = d BY <1>1, <2>5, <3>2, <3>5
      <4>. QED BY <2>2, <3>1, <3>5, <4>1
    <3>. QED BY <1>1, <3>2, <3>3, <3>4, <3>5
  <2>7. Names(es) = Names(ds) \cup {n}
    <3>1. \A k \in 1 .. Len(ds) : es[k] = ds[k] BY <1>1, <2>5
    <3>2. es[Len(ds) + 1] = d BY <1>1, <2>5
    <3>3. 1 .. Len(es) = (1 .. Len(ds)) \cup {Len(ds) + 1} BY <1>1, <2>5
    <3>. QED BY <2>2, <3>1, <3>2, <3>3 DEF Names
  <2>8. Len(es) # 0 BY <1>1, <2>5
  <2>9. es # << >> BY <2>5, <2>8, EmptySeq
  <2>. QED BY <1>3, <2>1, <2>3, <2>4, <2>5, <2>6, <2>7, <2>9
<1>. QED BY <1>2, <1>3

-----------------------------------------------------------------------------
(* Types                                                                   *)

(* The detail added last is one.                                            *)
LEMMA LatestIs ==
  ASSUME FixedTypeOK, details # << >>
  PROVE  /\ Len(details) \in Nat /\ Len(details) # 0
         /\ Latest \in Detail /\ Latest.name \in Name
<1>1. details \in Seq(Detail) BY DEF FixedTypeOK
<1>2. Len(details) \in Nat /\ Len(details) # 0 BY <1>1, LenProperties, EmptySeq
<1>3. Latest \in Detail BY <1>1, <1>2, ElementOfSeq DEF Latest
<1>. QED BY <1>2, <1>3 DEF Detail

(* The innermost frame is one.                                              *)
LEMMA HereIs ==
  ASSUME FixedTypeOK, Framed
  PROVE  /\ Top \in Nat /\ Top >= 1 /\ Here \in Frame /\ stack # << >>
         /\ \A k \in 1 .. Top : stack[k] \in Frame
         /\ Here.kind \in {"if", "else"} => details # << >>
<1>1. stack \in Seq(Frame) /\ Top \in Nat /\ Top >= 1
  BY LenProperties DEF FixedTypeOK, Framed, Top
<1>2. stack # << >> BY <1>1, EmptySeq DEF Top
<1>3. \A k \in 1 .. Top : stack[k] \in Frame BY <1>1, ElementOfSeq DEF Top
<1>4. Top \in 1 .. Top BY <1>1
<1>. QED BY <1>1, <1>2, <1>3, <1>4 DEF Framed, Here

(* A changed last detail.                                                   *)
LEMMA InLastIs ==
  ASSUME FixedTypeOK, details # << >>, NEW d \in Detail, d.name = Latest.name
  PROVE  /\ InLast(d) \in Seq(Detail) /\ InLast(d) # << >>
         /\ Len(InLast(d)) = Len(details)
         /\ \A i \in 1 .. Len(details) :
              InLast(d)[i] = IF i = Len(details) THEN d ELSE details[i]
         /\ \A i \in 1 .. Len(details) : InLast(d)[i].name = details[i].name
         /\ Once(InLast(d)) /\ Names(InLast(d)) = Names(details)
<1>1. details \in Seq(Detail) BY DEF FixedTypeOK
<1>2. Len(details) \in Nat /\ Len(details) # 0 BY LatestIs
<1>3. PICK e : e = InLast(d) OBVIOUS
<1>4. /\ e \in Seq(Detail) /\ Len(e) = Len(details)
      /\ \A i \in 1 .. Len(details) : e[i] = IF i = Len(details) THEN d ELSE details[i]
  BY <1>1, <1>3, InLastPlace DEF InLast
<1>5. \A i \in 1 .. Len(details) : e[i].name = details[i].name
  BY <1>4 DEF Latest
<1>6. e # << >> BY <1>2, <1>4, EmptySeq
<1>7. Once(e) BY <1>4, <1>5 DEF Once, FixedTypeOK
<1>8. Names(e) = Names(details) BY <1>4, <1>5 DEF Names
<1>. QED BY <1>3, <1>4, <1>5, <1>6, <1>7, <1>8

(* A field that is declared has the kind of a detail.                       *)
LEMMA DeclareType ==
  ASSUME FixedTypeOK, NEW d \in Detail
  PROVE  Declare(d) \in [Name -> {"none", "scalar", "list"}]
<1>1. d.name \in Name /\ d.method \in {"none", "scalar", "list"} BY DEF Detail
<1>. QED BY <1>1 DEF Declare, FieldDef, FixedTypeOK

(* A statement that is read in an if, or stands anywhere without a read.      *)
LEMMA ItemFramed ==
  ASSUME FixedTypeOK, Framed, ~done, NEW access \in Access, NEW number \in Nat,
         NEW reading, reading \in {"none", "value", "size", "list", "first", "each", "other"},
         access # "none" => details # << >>,
         stack' = WithItem(access, number), Executed(reading, number),
         visited' = visited + 1, done' = done, details # << >> => details' # << >>
  PROVE  stack' \in Seq(Frame) /\ Framed'
<1>1. /\ Top \in Nat /\ Top >= 1 BY HereIs
<1>2. /\ stack' \in Seq(Frame) /\ Len(stack') = Top
      /\ \A k \in 1 .. Top : k # Top => stack'[k] = stack[k]
      /\ stack'[Top] = [kind |-> Here.kind, path |-> Here.path, rest |-> Here.rest,
                        block |-> Append(Here.block, ItemOf(access, number))]
  BY WithItemIs
<1>3. stack'[Top].kind = stack[Top].kind BY <1>2 DEF Here
<1>4. \A k \in 1 .. Top : stack'[k].kind = stack[k].kind BY <1>2, <1>3
<1>5. Top' = Top BY <1>2 DEF Top
<1>6. source' \in [Name -> Seq(Steps)] BY ExecutedIs
<1>7. visited' \in Nat BY DEF Framed
<1>8. \A k \in 1 .. Top' :
        /\ stack'[k].kind = "loop" <=> k = 1
        /\ stack'[k].kind = "plain" => k = 2
        /\ stack'[k].kind = "if" => k = Top'
        /\ stack'[k].kind \in {"if", "else"} => details' # << >>
  BY <1>4, <1>5 DEF Framed
<1>. QED BY <1>1, <1>2, <1>5, <1>6, <1>7, <1>8 DEF Framed

(* A frame for an if.                                                       *)
LEMMA EnterFramed ==
  ASSUME FixedTypeOK, Framed, ~done, Here.kind # "if", NEW f \in Frame,
         f.kind \in {"plain", "if"}, f.kind = "plain" => Here.kind = "loop",
         f.kind = "if" => details' # << >>, details # << >> => details' # << >>,
         stack' = Append(stack, f), visited' = visited + 1, done' = done,
         source' = source
  PROVE  stack' \in Seq(Frame) /\ Framed'
<1>1. Top \in Nat /\ Top >= 1 /\ stack \in Seq(Frame) BY HereIs DEF FixedTypeOK
<1>2. /\ stack' \in Seq(Frame) /\ Len(stack') = Top + 1
      /\ \A k \in 1 .. Top + 1 : stack'[k] = IF k = Top + 1 THEN f ELSE stack[k]
  BY <1>1, AppendedIs DEF Top
<1>3. Top' = Top + 1 BY <1>2 DEF Top
<1>4. Top = 1 <=> Here.kind = "loop" BY <1>1 DEF Framed, Here
<1>5. \A k \in 1 .. Top : stack[k].kind # "if" BY <1>1 DEF Framed, Here
<1>6. ASSUME NEW k \in 1 .. Top'
      PROVE  /\ stack'[k].kind = "loop" <=> k = 1
             /\ stack'[k].kind = "plain" => k = 2
             /\ stack'[k].kind = "if" => k = Top'
             /\ stack'[k].kind \in {"if", "else"} => details' # << >>
  <2>1. CASE k = Top + 1
    <3>1. stack'[k] = f BY <1>2, <1>3, <2>1
    <3>. QED BY <1>1, <1>3, <1>4, <2>1, <3>1
  <2>2. CASE k # Top + 1
    <3>1. k \in 1 .. Top BY <1>1, <1>3, <2>2
    <3>2. stack'[k] = stack[k] BY <1>1, <1>2, <1>3, <2>2
    <3>. QED BY <1>5, <3>1, <3>2 DEF Framed
  <2>. QED BY <2>1, <2>2
<1>7. visited' \in Nat BY DEF Framed
<1>8. Top' >= 1 BY <1>1, <1>3
<1>9. source' \in [Name -> Seq(Steps)] BY DEF Framed
<1>. QED BY <1>2, <1>6, <1>7, <1>8, <1>9 DEF Framed

(* The names of a test are added to the details.                            *)
LEMMA AddNamesIs ==
  ASSUME FixedTypeOK, NEW ns \in Tests
  PROVE  /\ AddNames(details, ns) \in Seq(Detail) /\ Once(AddNames(details, ns))
         /\ AddNames(details, ns) # << >>
         /\ ToSet(ns) \subseteq Name
<1>1. details \in Seq(Detail) /\ Once(details) BY DEF FixedTypeOK, Once
<1>2. CASE \E n \in Name : ns = <<n>>
  <2>1. PICK n \in Name : ns = <<n>> BY <1>2
  <2>2. Len(ns) = 1 /\ ns[1] = n /\ ToSet(ns) = {n} BY <2>1 DEF ToSet
  <2>3. AddNames(details, ns) = AddName(details, n) BY <2>2 DEF AddNames
  <2>. QED BY <1>1, <2>2, <2>3, AddNameIs
<1>3. CASE ns \in Name \X Name
  <2>1. PICK n \in Name, m \in Name : ns = <<n, m>> BY <1>3
  <2>2. Len(ns) = 2 /\ ns[1] = n /\ ns[2] = m /\ ToSet(ns) = {n, m} BY <2>1 DEF ToSet
  <2>3. PICK ds : ds = AddName(details, n) OBVIOUS
  <2>4. ds \in Seq(Detail) /\ Once(ds) BY <1>1, <2>3, AddNameIs
  <2>5. AddNames(details, ns) = AddName(ds, m) BY <2>2, <2>3 DEF AddNames
  <2>. QED BY <2>2, <2>4, <2>5, AddNameIs
<1>. QED BY <1>2, <1>3 DEF Tests

(* FixedTypeOK of the variables that a step of the loop changes.             *)
LEMMA LoopTyped ==
  ASSUME FixedTypeOK, UNCHANGED input, UNCHANGED table,
         stack' \in Seq(Frame), details' \in Seq(Detail), Once(details'),
         fields' \in [Name -> {"none", "scalar", "list"}], done' \in BOOLEAN,
         forms' \subseteq Unusual
  PROVE  FixedTypeOK'
<1>1. /\ listNames' = listNames /\ reads' = reads /\ tables' = tables
      /\ lists' = lists /\ multi' = multi
  BY DEF input, table
<1>. QED BY <1>1 DEF FixedTypeOK, Once

(* A statement that reads nothing.                                          *)
LEMMA PlainTyped ==
  ASSUME FixedTypeOK, Framed, Plain
  PROVE  FixedTypeOK' /\ Framed'
<1>1. /\ ~done /\ visited' = visited + 1 /\ done' = done /\ details' = details
      /\ fields' = fields /\ UNCHANGED input /\ UNCHANGED table
      /\ stack' = WithItem("none", 0) /\ Executed("none", 0)
  BY DEF Plain, Visit
<1>2. stack' \in Seq(Frame) /\ Framed'
  <2>1. "none" \in Access /\ 0 \in Nat BY DEF Access
  <2>. QED BY <1>1, <2>1, ItemFramed
<1>3. forms' \subseteq Unusual BY DEF Plain, Unusual, FixedTypeOK
<1>4. FixedTypeOK' BY <1>1, <1>2, <1>3, LoopTyped DEF FixedTypeOK, Once
<1>. QED BY <1>2, <1>4

(* What a read or a list loop does with the detail added last and the fields. *)
LEMMA LatestTyped ==
  ASSUME FixedTypeOK, Framed, Here.kind = "if", NEW d \in Detail, d.name = Latest.name,
         details' = InLast(d), fields' = Declare(d)
  PROVE  /\ details # << >> /\ details' # << >>
         /\ details' \in Seq(Detail) /\ Once(details')
         /\ fields' \in [Name -> {"none", "scalar", "list"}]
<1>1. details # << >> BY HereIs
<1>. QED BY <1>1, InLastIs, DeclareType

(* A read.                                                                  *)
LEMMA ReadTyped ==
  ASSUME FixedTypeOK, Framed, NEW r \in Reads, Read(r[1], r[2])
  PROVE  FixedTypeOK' /\ Framed'
<1>1. /\ ~done /\ visited' = visited + 1 /\ done' = done /\ Here.kind = "if"
      /\ details' = InLast(AfterRead(Latest, r[2]))
      /\ fields' = Declare(AfterRead(Latest, r[2]))
      /\ UNCHANGED input /\ UNCHANGED table
      /\ stack' = WithItem(r[2], 0) /\ Executed(r[1], 0)
  BY DEF Read, Visit
<1>2. Latest \in Detail BY <1>1, HereIs, LatestIs
<1>3. PICK d : d = AfterRead(Latest, r[2]) OBVIOUS
<1>4. d \in Detail /\ d.name = Latest.name BY <1>2, <1>3, AfterReadIs
<1>5. /\ details # << >> /\ details' # << >>
      /\ details' \in Seq(Detail) /\ Once(details')
      /\ fields' \in [Name -> {"none", "scalar", "list"}]
  BY <1>1, <1>3, <1>4, LatestTyped
<1>6. /\ r[2] \in Access
      /\ r[1] \in {"none", "value", "size", "list", "first", "each", "other"}
  BY DEF Reads, Access
<1>7. stack' \in Seq(Frame) /\ Framed' BY <1>1, <1>5, <1>6, ItemFramed
<1>8. forms' \subseteq Unusual BY DEF Read, Unusual, FixedTypeOK
<1>9. done' \in BOOLEAN BY <1>1 DEF FixedTypeOK
<1>10. FixedTypeOK' BY <1>1, <1>5, <1>7, <1>8, <1>9, LoopTyped
<1>. QED BY <1>7, <1>10

(* A loop over the list.                                                    *)
LEMMA ListLoopTyped ==
  ASSUME FixedTypeOK, Framed, NEW kind, kind \in {"range", "for"},
         NEW reading, reading \in {"each", "other"}, ListLoop(kind, reading)
  PROVE  FixedTypeOK' /\ Framed'
<1>. DEFINE access == IF kind = "range" THEN "elem" ELSE "loopVar"
<1>1. /\ ~done /\ visited' = visited + 1 /\ done' = done /\ Here.kind = "if"
      /\ details' = InLast(AfterLoop(Latest, kind))
      /\ fields' = Declare(AfterLoop(Latest, kind))
      /\ UNCHANGED input /\ UNCHANGED table
      /\ stack' = WithItem(access, Id) /\ Executed(reading, Id)
  BY DEF ListLoop, Visit
<1>2. Latest \in Detail BY <1>1, HereIs, LatestIs
<1>3. PICK d : d = AfterLoop(Latest, kind) OBVIOUS
<1>4. d \in Detail /\ d.name = Latest.name BY <1>2, <1>3, AfterLoopIs
<1>5. /\ details # << >> /\ details' # << >>
      /\ details' \in Seq(Detail) /\ Once(details')
      /\ fields' \in [Name -> {"none", "scalar", "list"}]
  BY <1>1, <1>3, <1>4, LatestTyped
<1>6. /\ access \in Access /\ Id \in Nat
      /\ reading \in {"none", "value", "size", "list", "first", "each", "other"}
  BY LenProperties DEF Access, Id, Framed, FixedTypeOK
<1>. HIDE DEF access
<1>7. stack' \in Seq(Frame) /\ Framed' BY <1>1, <1>5, <1>6, ItemFramed
<1>8. forms' \subseteq Unusual BY DEF ListLoop, Unusual, FixedTypeOK
<1>9. done' \in BOOLEAN BY <1>1 DEF FixedTypeOK
<1>10. FixedTypeOK' BY <1>1, <1>5, <1>7, <1>8, <1>9, LoopTyped
<1>. QED BY <1>7, <1>10

(* An if without a test.                                                    *)
LEMMA EnterPlainTyped ==
  ASSUME FixedTypeOK, Framed, EnterPlain
  PROVE  FixedTypeOK' /\ Framed'
<1>1. /\ ~done /\ visited' = visited + 1 /\ done' = done /\ details' = details
      /\ fields' = fields /\ UNCHANGED input /\ UNCHANGED table /\ Here.kind = "loop"
      /\ stack' = Append(stack, NewFrame("plain", Here.path, {})) /\ source' = source
  BY DEF EnterPlain, Visit
<1>2. PICK f : f = NewFrame("plain", Here.path, {}) OBVIOUS
<1>3. f \in Frame /\ f.kind = "plain"
  <2>1. Here.path \subseteq Name /\ << >> \in Seq(Item) BY HereIs DEF Frame
  <2>. QED BY <1>2, <2>1 DEF NewFrame, Frame
<1>4. stack' \in Seq(Frame) /\ Framed' BY <1>1, <1>2, <1>3, EnterFramed
<1>5. forms' \subseteq Unusual BY DEF EnterPlain, Unusual, FixedTypeOK
<1>6. FixedTypeOK' BY <1>1, <1>4, <1>5, LoopTyped DEF FixedTypeOK, Once
<1>. QED BY <1>4, <1>6

(* A test of a name, or of two.                                             *)
LEMMA TestTyped ==
  ASSUME FixedTypeOK, Framed, NEW ns \in Tests, Test(ns)
  PROVE  FixedTypeOK' /\ Framed'
<1>1. /\ ~done /\ visited' = visited + 1 /\ done' = done
      /\ details' = AddNames(details, ns)
      /\ fields' = fields /\ UNCHANGED input /\ UNCHANGED table
      /\ Here.kind \in {"loop", "plain", "else"}
      /\ stack' = Append(stack, NewFrame("if", ToSet(ns), Here.path \ ToSet(ns)))
      /\ source' = source
  BY DEF Test, Visit
<1>2. /\ details' \in Seq(Detail) /\ Once(details') /\ details' # << >>
      /\ ToSet(ns) \subseteq Name
  BY <1>1, AddNamesIs
<1>3. PICK f : f = NewFrame("if", ToSet(ns), Here.path \ ToSet(ns)) OBVIOUS
<1>4. f \in Frame /\ f.kind = "if"
  <2>1. Here.path \subseteq Name /\ << >> \in Seq(Item) BY HereIs DEF Frame
  <2>. QED BY <1>2, <1>3, <2>1 DEF NewFrame, Frame
<1>5. stack' \in Seq(Frame) /\ Framed' BY <1>1, <1>2, <1>3, <1>4, EnterFramed
<1>6. forms' \subseteq Unusual BY DEF Test, Unusual, FixedTypeOK
<1>7. FixedTypeOK' BY <1>1, <1>2, <1>5, <1>6, LoopTyped DEF FixedTypeOK, Once
<1>. QED BY <1>5, <1>7

(* The frame of an if becomes that of its else.                              *)
LEMMA ElseIs ==
  ASSUME FixedTypeOK, Framed, EnterElse
  PROVE  /\ stack' \in Seq(Frame) /\ Len(stack') = Top
         /\ \A k \in 1 .. Top : k # Top => stack'[k] = stack[k]
         /\ stack'[Top] = [kind |-> "else", path |-> Here.rest, rest |-> Here.rest,
                           block |-> Here.block]
<1>1. PICK f : f = [kind |-> "else", path |-> Here.rest, rest |-> Here.rest,
                    block |-> Here.block]
  OBVIOUS
<1>2. Here \in Frame /\ Top \in Nat /\ Top >= 1 /\ stack \in Seq(Frame) /\ stack # << >>
  BY HereIs DEF FixedTypeOK
<1>3. f \in Frame BY <1>1, <1>2 DEF Frame
<1>4. [Here EXCEPT !.kind = "else", !.path = Here.rest] = f
  <2>1. PICK e : e = [Here EXCEPT !.kind = "else", !.path = Here.rest] OBVIOUS
  <2>2. /\ e \in Frame /\ e.kind = "else" /\ e.path = Here.rest
        /\ e.rest = Here.rest /\ e.block = Here.block
    BY <1>2, <2>1 DEF Frame
  <2>3. e = [kind |-> e.kind, path |-> e.path, rest |-> e.rest, block |-> e.block]
    BY <2>2 DEF Frame
  <2>. QED BY <1>1, <2>1, <2>2, <2>3
<1>5. stack' = [stack EXCEPT ![Len(stack)] = f] BY <1>4 DEF EnterElse, InHere, Top
<1>. QED BY <1>1, <1>2, <1>3, <1>5, InLastPlace DEF Top

(* The else of a test.                                                      *)
LEMMA EnterElseTyped ==
  ASSUME FixedTypeOK, Framed, EnterElse
  PROVE  FixedTypeOK' /\ Framed'
<1>1. /\ Here.kind = "if" /\ details' = details /\ source' = source
      /\ visited' = visited /\ done' = done /\ forms' = forms
      /\ fields' = fields /\ UNCHANGED input /\ UNCHANGED table
  BY DEF EnterElse
<1>2. /\ stack' \in Seq(Frame) /\ Len(stack') = Top
      /\ \A k \in 1 .. Top : k # Top => stack'[k] = stack[k]
      /\ stack'[Top] = [kind |-> "else", path |-> Here.rest, rest |-> Here.rest,
                        block |-> Here.block]
  BY ElseIs
<1>3. Top \in Nat /\ Top >= 1 /\ Top' = Top BY <1>2, HereIs DEF Top
<1>4. stack'[Top].kind = "else" /\ stack[Top].kind = "if" /\ Top # 1
  BY <1>1, <1>2, <1>3 DEF Framed, Here
<1>5. \A k \in 1 .. Top' :
        /\ stack'[k].kind = "loop" <=> k = 1
        /\ stack'[k].kind = "plain" => k = 2
        /\ stack'[k].kind = "if" => k = Top'
        /\ stack'[k].kind \in {"if", "else"} => details' # << >>
  <2>. SUFFICES ASSUME NEW k \in 1 .. Top
                PROVE  /\ stack'[k].kind = "loop" <=> k = 1
                       /\ stack'[k].kind = "plain" => k = 2
                       /\ stack'[k].kind = "if" => k = Top
                       /\ stack'[k].kind \in {"if", "else"} => details # << >>
    BY <1>1, <1>3
  <2>1. CASE k = Top BY <1>1, <1>4, <2>1 DEF Framed
  <2>2. CASE k # Top BY <1>2, <2>2 DEF Framed
  <2>. QED BY <2>1, <2>2
<1>6. Framed' BY <1>1, <1>3, <1>4, <1>5 DEF Framed
<1>7. FixedTypeOK' BY <1>1, <1>2, LoopTyped DEF FixedTypeOK, Once
<1>. QED BY <1>6, <1>7

(* The if that is left is not the loop; what stands in the loop itself fills  *)
(* the detail added last.                                                   *)
LEMMA LeaveIs ==
  ASSUME FixedTypeOK, Framed, LeaveIf
  PROVE  /\ Top \in Nat /\ Top >= 2
         /\ stack' \in Seq(Frame) /\ Len(stack') = Top - 1
         /\ \A k \in 1 .. Top - 1 : stack'[k] = stack[k]
         /\ details = << >> \/ Top # 2 => details' = details
         /\ details # << >> /\ Top = 2 =>
              details' = InLast(Filled(Latest, BodyText(IF Here.kind = "plain" THEN << >>
                                                        ELSE Here.block)))
<1>1. /\ Here.kind \in {"plain", "if", "else"}
      /\ stack' = Front(stack)
      /\ details' = IF stack[Top - 1].kind # "loop" \/ details = << >> THEN details
                    ELSE Fill(IF Here.kind = "plain" THEN << >> ELSE Here.block)
  BY DEF LeaveIf
<1>2. Top \in Nat /\ Top >= 1 /\ stack \in Seq(Frame) BY HereIs DEF FixedTypeOK
<1>3. Top # 1 BY <1>1, <1>2 DEF Framed, Here
<1>4. Top >= 2 BY <1>2, <1>3
<1>5. stack' = SubSeq(stack, 1, Top - 1) BY <1>1 DEF Front, Top
<1>6. /\ stack' \in Seq(Frame) /\ Len(stack') = Top - 1
      /\ \A k \in 1 .. Top - 1 : stack'[k] = stack[k]
  <2>1. 1 \in 1 .. Top + 1 /\ Top - 1 \in 0 .. Top BY <1>2, <1>4
  <2>2. Len(stack) = Top BY DEF Top
  <2>. QED BY <1>2, <1>4, <1>5, <2>1, <2>2, SubSeqProperties
<1>7. stack[Top - 1].kind = "loop" <=> Top = 2
  <2>1. Top - 1 \in 1 .. Top BY <1>2, <1>4
  <2>2. stack[Top - 1].kind = "loop" <=> Top - 1 = 1 BY <2>1 DEF Framed
  <2>. QED BY <1>2, <2>2
<1>. QED BY <1>1, <1>2, <1>4, <1>6, <1>7 DEF Fill

(* The end of an if; no detail gets another name.                           *)
LEMMA LeaveTyped ==
  ASSUME FixedTypeOK, Framed, LeaveIf
  PROVE  /\ FixedTypeOK' /\ Framed' /\ Len(details') = Len(details)
         /\ \A i \in 1 .. Len(details) : details'[i].name = details[i].name
<1>1. /\ source' = source /\ visited' = visited /\ done' = done
      /\ fields' = fields /\ UNCHANGED input /\ UNCHANGED table
  BY DEF LeaveIf
<1>2. /\ Top \in Nat /\ Top >= 2
      /\ stack' \in Seq(Frame) /\ Len(stack') = Top - 1
      /\ \A k \in 1 .. Top - 1 : stack'[k] = stack[k]
      /\ details = << >> \/ Top # 2 => details' = details
      /\ details # << >> /\ Top = 2 =>
           details' = InLast(Filled(Latest, BodyText(IF Here.kind = "plain" THEN << >>
                                                     ELSE Here.block)))
  BY LeaveIs
<1>3. /\ details' \in Seq(Detail) /\ Once(details')
      /\ details # << >> => details' # << >>
      /\ Len(details') = Len(details)
      /\ \A i \in 1 .. Len(details) : details'[i].name = details[i].name
  <2>1. CASE details = << >> \/ Top # 2 BY <1>2, <2>1 DEF FixedTypeOK, Once
  <2>2. CASE details # << >> /\ Top = 2
    <3>1. PICK b : b = IF Here.kind = "plain" THEN << >> ELSE Here.block OBVIOUS
    <3>2. b \in Seq(Item)
      <4>1. << >> \in Seq(Item) /\ Here.block \in Seq(Item) BY HereIs DEF Frame
      <4>. QED BY <3>1, <4>1
    <3>3. PICK d : d = Filled(Latest, BodyText(b)) OBVIOUS
    <3>4. d \in Detail /\ d.name = Latest.name BY <2>2, <3>2, <3>3, LatestIs, FilledType
    <3>5. details' = InLast(d) BY <1>2, <2>2, <3>1, <3>3
    <3>. QED BY <2>2, <3>4, <3>5, InLastIs
  <2>. QED BY <2>1, <2>2
<1>4. forms' \subseteq Unusual BY DEF LeaveIf, Unusual, FixedTypeOK
<1>5. FixedTypeOK'
  <2>1. fields' \in [Name -> {"none", "scalar", "list"}] /\ done' \in BOOLEAN
    BY <1>1 DEF FixedTypeOK
  <2>2. UNCHANGED input /\ UNCHANGED table /\ stack' \in Seq(Frame) BY <1>1, <1>2
  <2>3. details' \in Seq(Detail) /\ Once(details') BY <1>3
  <2>. QED BY ONLY FixedTypeOK, <1>4, <2>1, <2>2, <2>3, LoopTyped
<1>6. Top' = Top - 1 BY <1>2 DEF Top
<1>7. ASSUME NEW k \in 1 .. Top'
      PROVE  /\ stack'[k].kind = "loop" <=> k = 1
             /\ stack'[k].kind = "plain" => k = 2
             /\ stack'[k].kind = "if" => k = Top'
             /\ stack'[k].kind \in {"if", "else"} => details' # << >>
  <2>1. k \in 1 .. Top - 1 /\ k \in 1 .. Top /\ k # Top BY <1>2, <1>6
  <2>2. stack'[k] = stack[k] BY <1>2, <2>1
  <2>. QED BY <1>3, <2>1, <2>2 DEF Framed
<1>8. Top' >= 1 BY <1>2, <1>6
<1>9. ~done
  <2>1. Top # 1 BY <1>2
  <2>. QED BY <2>1 DEF Framed
<1>10. Framed' BY <1>1, <1>7, <1>8, <1>9 DEF Framed
<1>. QED BY <1>3, <1>5, <1>10

(* The list table that was assigned last.                                    *)
LEMMA ListOfIs ==
  ASSUME FixedTypeOK
  PROVE  \/ ListOf = None
         \/ ListOf \in ListTable /\ ListOf \in ToSet(tables)
<1>. DEFINE at == {i \in 1 .. Len(tables) : tables[i] \in ListTable}
<1>1. tables \in Seq(Table) /\ Len(tables) \in Nat BY LenProperties DEF FixedTypeOK
<1>2. DOMAIN tables = 1 .. Len(tables) BY <1>1, LenProperties
<1>3. CASE at = {} BY <1>3 DEF ListOf
<1>4. CASE at # {}
  <2>1. /\ at \in SUBSET Nat /\ \A i \in at : i <= Len(tables)
        /\ \A i \in at : i \in 1 .. Len(tables) /\ tables[i] \in ListTable
    BY <1>1
  <2>2. ListOf = tables[Max(at)] BY <1>4 DEF ListOf
  <2>. HIDE DEF at
  <2>3. Max(at) \in at BY <1>1, <1>4, <2>1, GreatestIs
  <2>. QED BY <1>2, <2>1, <2>2, <2>3 DEF ToSet
<1>. QED BY <1>3, <1>4

(* A list that is put into a table.                                         *)
LEMMA AssignTyped ==
  ASSUME FixedTypeOK, Framed, NEW t \in Table, Assign(t)
  PROVE  FixedTypeOK' /\ Framed'
<1>1. /\ ~done /\ visited' = visited + 1 /\ done' = done /\ details' = << >>
      /\ fields' = fields /\ UNCHANGED input /\ stack' = stack /\ source' = source
      /\ Here.kind = "loop" /\ multi' = TRUE
      /\ tables' = Append(tables, t) /\ lists' = Connected(t)
  BY DEF Assign, Visit
<1>2. forms' \subseteq Unusual BY DEF Assign, Unusual, FixedTypeOK
<1>3. tables' \in Seq(Table)
  <2>1. tables \in Seq(Table) BY DEF FixedTypeOK
  <2>. QED BY <1>1, <2>1, AppendedIs
<1>4. lists' \in [SizeTable -> ListTable \cup {None}]
  <2>1. ListOf \in ListTable \cup {None} BY ListOfIs
  <2>. QED BY <1>1, <2>1 DEF Connected, FixedTypeOK
<1>5. << >> \in Seq(Detail) /\ Len(<< >>) = 0 BY EmptySeq
<1>6. listNames' = listNames /\ reads' = reads BY <1>1 DEF input
<1>7. FixedTypeOK' BY <1>1, <1>2, <1>3, <1>4, <1>5, <1>6 DEF FixedTypeOK
<1>8. Top \in Nat /\ Top >= 1 /\ Top' = Top BY <1>1, HereIs DEF Top
<1>9. Top = 1 BY <1>1, <1>8 DEF Framed, Here
<1>10. stack[1].kind = "loop" BY <1>1, <1>9 DEF Here
<1>11. \A k \in 1 .. Top' : k = 1 BY <1>8, <1>9
<1>12. \A k \in 1 .. Top' :
        /\ stack'[k].kind = "loop" <=> k = 1
        /\ stack'[k].kind = "plain" => k = 2
        /\ stack'[k].kind = "if" => k = Top'
        /\ stack'[k].kind \in {"if", "else"} => details' # << >>
  BY <1>1, <1>10, <1>11
<1>. QED BY <1>1, <1>7, <1>8, <1>12 DEF Framed

(* The loop is replaced where no if is open.                                *)
LEMMA ReplaceTyped ==
  ASSUME FixedTypeOK, Framed, ReplaceLoop
  PROVE  FixedTypeOK' /\ Framed'
<1>1. /\ done' = TRUE /\ Here.kind = "loop" /\ UNCHANGED <<input, loop, table>>
      /\ source' = source /\ forms' = forms /\ visited' = visited
  BY DEF ReplaceLoop
<1>2. /\ stack' = stack /\ details' = details /\ fields' = fields
      /\ UNCHANGED input /\ UNCHANGED table
  BY <1>1 DEF loop
<1>3. FixedTypeOK'
  <2>1. /\ stack' \in Seq(Frame) /\ details' \in Seq(Detail) /\ Once(details')
        /\ fields' \in [Name -> {"none", "scalar", "list"}] /\ done' \in BOOLEAN
        /\ forms' \subseteq Unusual
    BY <1>1, <1>2 DEF FixedTypeOK, Once
  <2>2. UNCHANGED input /\ UNCHANGED table BY <1>2
  <2>. QED BY ONLY FixedTypeOK, <2>1, <2>2, LoopTyped
<1>4. Top = 1 /\ Top' = Top
  <2>1. Top \in Nat /\ Top >= 1 BY HereIs
  <2>2. Top = 1 BY <1>1, <2>1 DEF Framed, Here
  <2>. QED BY <1>2, <2>2 DEF Top
<1>5. Framed' BY <1>1, <1>2, <1>4 DEF Framed
<1>. QED BY <1>3, <1>5

(* What the variables are when nothing changes.                              *)
LEMMA SameIs ==
  ASSUME UNCHANGED vars
  PROVE  /\ listNames' = listNames /\ reads' = reads /\ stack' = stack
         /\ details' = details /\ fields' = fields /\ tables' = tables
         /\ lists' = lists /\ multi' = multi /\ source' = source
         /\ forms' = forms /\ visited' = visited /\ done' = done
BY DEF vars, input, loop, table

(* Every step keeps the types and the frames.                               *)
LEMMA TypesStep ==
  ASSUME FixedTypeOK, Framed, [Next]_vars
  PROVE  FixedTypeOK' /\ Framed'
<1>1. CASE Plain BY <1>1, PlainTyped
<1>2. ASSUME NEW r \in Reads, Read(r[1], r[2]) PROVE FixedTypeOK' /\ Framed'
  BY <1>2, ReadTyped
<1>3. ASSUME NEW kind \in {"range", "for"}, NEW reading \in {"each", "other"},
             ListLoop(kind, reading)
      PROVE  FixedTypeOK' /\ Framed'
  BY <1>3, ListLoopTyped
<1>4. CASE EnterPlain BY <1>4, EnterPlainTyped
<1>5. ASSUME NEW ns \in Tests, Test(ns) PROVE FixedTypeOK' /\ Framed' BY <1>5, TestTyped
<1>6. CASE EnterElse BY <1>6, EnterElseTyped
<1>7. CASE LeaveIf BY <1>7, LeaveTyped
<1>8. ASSUME NEW t \in Table, Assign(t) PROVE FixedTypeOK' /\ Framed' BY <1>8, AssignTyped
<1>9. CASE ReplaceLoop BY <1>9, ReplaceTyped
<1>10. CASE UNCHANGED vars BY <1>10, SameIs DEF FixedTypeOK, Framed, Top
<1>. QED BY <1>1, <1>2, <1>3, <1>4, <1>5, <1>6, <1>7, <1>8, <1>9, <1>10 DEF Next, Finished

(* And they hold at first.                                                  *)
LEMMA InitTyped ==
  ASSUME Init
  PROVE  FixedTypeOK /\ Framed
<1>1. << >> \in Seq(Item) /\ << >> \in Seq(Detail) /\ << >> \in Seq(Table)
      /\ << >> \in Seq(Steps) /\ Len(<< >>) = 0
  BY EmptySeq
<1>2. PICK f : f = NewFrame("loop", Name, {}) OBVIOUS
<1>3. f \in Frame /\ f.kind = "loop" BY <1>1, <1>2 DEF NewFrame, Frame
<1>4. stack = <<f>> BY <1>2 DEF Init
<1>5. stack \in Seq(Frame) /\ Len(stack) = 1 /\ stack[1] = f BY <1>3, <1>4
<1>6. reads \in Seq(Table \X Vector)
  <2>1. PICK n \in 0 .. 3 : reads \in [1 .. n -> Table \X Vector] BY DEF Init
  <2>2. n \in Nat /\ \A i \in 1 .. n : reads[i] \in Table \X Vector BY <2>1
  <2>3. reads = [i \in 1 .. n |-> reads[i]] BY <2>1
  <2>. QED BY <2>2, <2>3, IsASeq
<1>7. FixedTypeOK
  <2>1. forms \subseteq Unusual BY DEF Init, Unusual
  <2>2. \A i, j \in 1 .. Len(details) : details[i].name = details[j].name => i = j
    BY <1>1 DEF Init
  <2>3. listNames \subseteq Name /\ multi \in BOOLEAN /\ done \in BOOLEAN BY DEF Init
  <2>4. /\ fields \in [Name -> {"none", "scalar", "list"}]
        /\ lists \in [SizeTable -> ListTable \cup {None}]
    BY DEF Init
  <2>5. details \in Seq(Detail) /\ tables \in Seq(Table) BY <1>1 DEF Init
  <2>. QED BY <1>5, <1>6, <2>1, <2>2, <2>3, <2>4, <2>5 DEF FixedTypeOK
<1>8. Framed BY <1>1, <1>3, <1>5 DEF Init, Framed, Top
<1>. QED BY <1>7, <1>8

-----------------------------------------------------------------------------
(* Tables                                                                  *)

(* Forms that were met stay.                                                *)
LEMMA FormsGrow ==
  ASSUME [Next]_vars
  PROVE  forms \subseteq forms'
<1>1. CASE Plain BY <1>1 DEF Plain
<1>2. ASSUME NEW r \in Reads, Read(r[1], r[2]) PROVE forms \subseteq forms'
  BY <1>2 DEF Read
<1>3. ASSUME NEW kind \in {"range", "for"}, NEW reading \in {"each", "other"},
             ListLoop(kind, reading)
      PROVE  forms \subseteq forms'
  BY <1>3 DEF ListLoop
<1>4. CASE EnterPlain BY <1>4 DEF EnterPlain
<1>5. ASSUME NEW ns \in Tests, Test(ns) PROVE forms \subseteq forms' BY <1>5 DEF Test
<1>6. CASE EnterElse BY <1>6 DEF EnterElse
<1>7. CASE LeaveIf BY <1>7 DEF LeaveIf
<1>8. ASSUME NEW t \in Table, Assign(t) PROVE forms \subseteq forms' BY <1>8 DEF Assign
<1>9. CASE ReplaceLoop BY <1>9 DEF ReplaceLoop
<1>10. CASE UNCHANGED vars BY <1>10, SameIs
<1>. QED BY <1>1, <1>2, <1>3, <1>4, <1>5, <1>6, <1>7, <1>8, <1>9, <1>10 DEF Next, Finished

(* The vector of a table is one with which it is read.                      *)
LEMMA ConnectIs ==
  ASSUME FixedTypeOK, NEW i \in 1 .. Len(reads),
         \A j \in 1 .. Len(reads) : reads[i][1] = reads[j][1] => reads[i][2] = reads[j][2]
  PROVE  Connect(reads[i][1]) = reads[i][2]
<1>. DEFINE at == {j \in 1 .. Len(reads) : reads[j][1] = reads[i][1]}
<1>1. Len(reads) \in Nat BY LenProperties DEF FixedTypeOK
<1>2. /\ at \in SUBSET Nat /\ at # {} /\ \A j \in at : j <= Len(reads)
      /\ \A j \in at : j \in 1 .. Len(reads) /\ reads[j][1] = reads[i][1]
  BY <1>1
<1>3. Connect(reads[i][1]) = reads[Max(at)][2] BY <1>2 DEF Connect
<1>. HIDE DEF at
<1>4. Max(at) \in at BY <1>1, <1>2, GreatestIs
<1>. QED BY <1>2, <1>3, <1>4

(* The tables stay as they are, and details come only with "both".           *)
LEMMA FillingKept ==
  ASSUME Filling, UNCHANGED input, UNCHANGED table, forms \subseteq forms',
         multi /\ ~Has({"both"})' => details' = << >>
  PROVE  Filling'
<1>1. /\ reads' = reads /\ tables' = tables /\ lists' = lists /\ multi' = multi
  BY DEF input, table
<1>2. \A fs : ~Has(fs)' => ~Has(fs) BY DEF Has
<1>3. \A t : Connect(t)' = Connect(t) BY <1>1 DEF Connect
<1>4. (multi <=> tables # << >>)' BY <1>1 DEF Filling
<1>5. (multi /\ ~Has({"both"}) => details = << >>)' BY <1>1
<1>6. (~Has({"twoVectors"}) =>
         \A i, j \in 1 .. Len(reads) :
           reads[i][1] = reads[j][1] => reads[i][2] = reads[j][2])'
  <2>1. ~Has({"twoVectors"})' => ~Has({"twoVectors"}) BY <1>2
  <2>. QED BY <1>1, <2>1 DEF Filling
<1>7. (~Has({"sizeFirst", "otherList"}) =>
         \A s \in SizeTable : s \in ToSet(tables) =>
           /\ lists[s] \in ListTable /\ lists[s] \in ToSet(tables)
           /\ Connect(lists[s]) = Connect(s))'
  <2>1. ~Has({"sizeFirst", "otherList"})' => ~Has({"sizeFirst", "otherList"}) BY <1>2
  <2>2. ASSUME NEW s \in SizeTable, s \in ToSet(tables'), ~Has({"sizeFirst", "otherList"})'
        PROVE  /\ lists'[s] \in ListTable /\ lists'[s] \in ToSet(tables')
               /\ Connect(lists[s])' = Connect(s)'
    <3>1. /\ lists[s] \in ListTable /\ lists[s] \in ToSet(tables)
          /\ Connect(lists[s]) = Connect(s)
      BY <1>1, <2>1, <2>2 DEF Filling
    <3>2. Connect(lists[s])' = Connect(lists[s]) BY <1>1 DEF Connect
    <3>3. Connect(s)' = Connect(s) BY <1>3
    <3>. QED BY <1>1, <3>1, <3>2, <3>3
  <2>. QED BY <2>2
<1>. QED BY <1>4, <1>5, <1>6, <1>7 DEF Filling

(* A table that is assigned: a size table is connected with the list table  *)
(* before it.                                                               *)
LEMMA FillingAssign ==
  ASSUME FixedTypeOK, Framed, Filling, NEW t \in Table, Assign(t)
  PROVE  Filling'
<1>1. /\ details' = << >> /\ UNCHANGED input /\ multi' = TRUE
      /\ tables' = Append(tables, t) /\ lists' = Connected(t) /\ t \notin ToSet(tables)
  BY DEF Assign
<1>2. /\ "sizeFirst" \notin forms' => t \notin SizeTable \/ ListOf # None
      /\ "otherList" \notin forms' =>
           t \notin SizeTable \/ ListOf = None \/ Connect(ListOf) = Connect(t)
      /\ forms \subseteq forms'
  BY DEF Assign
<1>3. reads' = reads BY <1>1 DEF input
<1>4. tables \in Seq(Table) /\ Len(tables) \in Nat BY LenProperties DEF FixedTypeOK
<1>5. /\ Len(tables') = Len(tables) + 1
      /\ \A k \in 1 .. Len(tables) + 1 :
           tables'[k] = IF k = Len(tables) + 1 THEN t ELSE tables[k]
      /\ tables' \in Seq(Table)
  BY <1>1, <1>4, AppendedIs
<1>6. ToSet(tables') = ToSet(tables) \cup {t}
  <2>1. \A k \in 1 .. Len(tables) : tables'[k] = tables[k] BY <1>4, <1>5
  <2>2. tables'[Len(tables) + 1] = t BY <1>4, <1>5
  <2>3. 1 .. Len(tables') = (1 .. Len(tables)) \cup {Len(tables) + 1} BY <1>4, <1>5
  <2>4. DOMAIN tables = 1 .. Len(tables) /\ DOMAIN tables' = 1 .. Len(tables')
    BY <1>4, <1>5, LenProperties
  <2>. QED BY <2>1, <2>2, <2>3, <2>4 DEF ToSet
<1>7. (multi <=> tables # << >>)'
  <2>1. Len(tables') # 0 BY <1>4, <1>5
  <2>2. tables' # << >> BY <1>5, <2>1, EmptySeq
  <2>. QED BY <1>1, <2>2
<1>8. (multi /\ ~Has({"both"}) => details = << >>)' BY <1>1
<1>9. (~Has({"twoVectors"}) =>
         \A i, j \in 1 .. Len(reads) :
           reads[i][1] = reads[j][1] => reads[i][2] = reads[j][2])'
  <2>1. ~Has({"twoVectors"})' => ~Has({"twoVectors"}) BY <1>2 DEF Has
  <2>. QED BY <1>3, <2>1 DEF Filling
<1>10. ASSUME NEW s \in SizeTable, s \in ToSet(tables'), ~Has({"sizeFirst", "otherList"})'
       PROVE  /\ lists'[s] \in ListTable /\ lists'[s] \in ToSet(tables')
              /\ Connect(lists[s])' = Connect(s)'
  <2>1. /\ "sizeFirst" \notin forms' /\ "otherList" \notin forms'
        /\ ~Has({"sizeFirst", "otherList"})
    BY <1>2, <1>10 DEF Has
  <2>2. lists'[s] = IF s = t THEN ListOf ELSE lists[s]
    BY <1>1, <1>10 DEF Connected, FixedTypeOK
  <2>3. PICK l : l = lists'[s] OBVIOUS
  <2>4. l \in ListTable /\ l \in ToSet(tables) /\ Connect(l) = Connect(s)
    <3>1. CASE s = t
      <4>1. l = ListOf /\ ListOf # None BY <1>2, <2>1, <2>2, <2>3, <3>1
      <4>2. ListOf \in ListTable /\ ListOf \in ToSet(tables) BY <4>1, ListOfIs
      <4>3. Connect(ListOf) = Connect(t) BY <1>2, <2>1, <3>1, <4>1
      <4>. QED BY <3>1, <4>1, <4>2, <4>3
    <3>2. CASE s # t
      <4>1. s \in ToSet(tables) /\ l = lists[s] BY <1>6, <1>10, <2>2, <2>3, <3>2
      <4>. QED BY <1>10, <2>1, <4>1 DEF Filling
    <3>. QED BY <3>1, <3>2
  <2>5. Connect(lists[s])' = Connect(l) BY <1>3, <2>3 DEF Connect
  <2>6. Connect(s)' = Connect(s) BY <1>3 DEF Connect
  <2>. QED BY <1>6, <2>3, <2>4, <2>5, <2>6
<1>. QED BY <1>7, <1>8, <1>9, <1>10 DEF Filling

(* Every step keeps what is known of tables.                                *)
LEMMA FillingStep ==
  ASSUME FixedTypeOK, Framed, Filling, [Next]_vars
  PROVE  Filling'
<1>1. forms \subseteq forms' BY FormsGrow
<1>2. ~Has({"both"})' => ~Has({"both"}) BY <1>1 DEF Has
<1>3. multi /\ ~Has({"both"})' => details = << >> BY <1>2 DEF Filling
<1>4. ASSUME UNCHANGED input, UNCHANGED table, details' = details PROVE Filling'
  <2>1. multi /\ ~Has({"both"})' => details' = << >> BY <1>3, <1>4
  <2>. QED BY ONLY Filling, <1>1, <1>4, <2>1, FillingKept
<1>5. ASSUME UNCHANGED input, UNCHANGED table, Here.kind = "if" PROVE Filling'
  <2>1. details # << >> BY <1>5, HereIs
  <2>2. multi /\ ~Has({"both"})' => details' = << >> BY <1>3, <2>1
  <2>. QED BY ONLY Filling, <1>1, <1>5, <2>2, FillingKept
<1>6. CASE Plain BY <1>4, <1>6 DEF Plain
<1>7. ASSUME NEW r \in Reads, Read(r[1], r[2]) PROVE Filling' BY <1>5, <1>7 DEF Read
<1>8. ASSUME NEW kind \in {"range", "for"}, NEW reading \in {"each", "other"},
             ListLoop(kind, reading)
      PROVE  Filling'
  BY <1>5, <1>8 DEF ListLoop
<1>9. CASE EnterPlain BY <1>4, <1>9 DEF EnterPlain
<1>10. ASSUME NEW ns \in Tests, Test(ns) PROVE Filling'
  <2>1. UNCHANGED input /\ UNCHANGED table /\ (multi => "both" \in forms') BY <1>10 DEF Test
  <2>2. multi /\ ~Has({"both"})' => details' = << >> BY <2>1 DEF Has
  <2>. QED BY ONLY Filling, <1>1, <2>1, <2>2, FillingKept
<1>11. CASE EnterElse BY <1>4, <1>11 DEF EnterElse
<1>12. CASE LeaveIf
  <2>1. UNCHANGED input /\ UNCHANGED table BY <1>12 DEF LeaveIf
  <2>2. details = << >> => details' = details BY <1>12, LeaveIs
  <2>3. multi /\ ~Has({"both"})' => details' = << >> BY <1>3, <2>2
  <2>. QED BY ONLY Filling, <1>1, <2>1, <2>3, FillingKept
<1>13. ASSUME NEW t \in Table, Assign(t) PROVE Filling' BY <1>13, FillingAssign
<1>14. CASE ReplaceLoop BY <1>4, <1>14 DEF ReplaceLoop, loop
<1>15. CASE UNCHANGED vars
  <2>1. UNCHANGED input /\ UNCHANGED table /\ details' = details
    BY <1>15, SameIs DEF input, table
  <2>. QED BY <1>4, <2>1
<1>. QED BY <1>6, <1>7, <1>8, <1>9, <1>10, <1>11, <1>12, <1>13, <1>14, <1>15
         DEF Next, Finished

(* And it holds at first.                                                   *)
LEMMA InitFilling ==
  ASSUME Init, FixedTypeOK
  PROVE  Filling
<1>1. tables = << >> /\ ~multi /\ details = << >> BY DEF Init
<1>2. ToSet(tables) = {}
  <2>1. DOMAIN tables = {} BY <1>1
  <2>. QED BY <2>1 DEF ToSet
<1>3. ~Has({"twoVectors"}) =>
        \A i, j \in 1 .. Len(reads) :
          reads[i][1] = reads[j][1] => reads[i][2] = reads[j][2]
  BY DEF Init, Has
<1>. QED BY <1>1, <1>2, <1>3 DEF Filling

(* The tables of a loop that only fills tables hold what they are read with.  *)
LEMMA FillingHolds ==
  ASSUME FixedTypeOK, Filling
  PROVE  TablesHold
<1>. SUFFICES ASSUME ~Has({"both", "twoVectors", "sizeFirst", "otherList"}),
                     NEW i \in 1 .. Len(reads), reads[i][1] \in ToSet(tables),
                     NEW k \in Keys[reads[i][2]]
              PROVE  Holds(reads[i][1], k)
  BY DEF TablesHold
<1>1. PICK t : t = reads[i][1] OBVIOUS
<1>2. PICK v : v = reads[i][2] OBVIOUS
<1>3. /\ ~Has({"both"}) /\ ~Has({"twoVectors"}) /\ ~Has({"sizeFirst", "otherList"})
  BY DEF Has
<1>4. Connect(t) = v
  <2>1. \A j \in 1 .. Len(reads) : reads[i][1] = reads[j][1] => reads[i][2] = reads[j][2]
    BY <1>3 DEF Filling
  <2>. QED BY <1>1, <1>2, <2>1, ConnectIs
<1>5. v \in Vector /\ v # None
  <2>1. reads \in Seq(Table \X Vector) BY DEF FixedTypeOK
  <2>2. reads[i] \in Table \X Vector BY <2>1, ElementOfSeq
  <2>. QED BY <1>2, <2>2, CommonInfoFixedAssumption
<1>6. details = << >>
  <2>1. tables # << >> BY <1>1 DEF ToSet
  <2>. QED BY <1>3, <2>1 DEF Filling
<1>7. \A u : u \in ToSet(tables) /\ Connect(u) = v => k \in Assigned(u)
  BY <1>2, <1>5, <1>6 DEF Assigned
<1>8. CASE t \notin SizeTable BY <1>1, <1>4, <1>7, <1>8 DEF Holds
<1>9. CASE t \in SizeTable
  <2>1. /\ lists[t] \in ListTable /\ lists[t] \in ToSet(tables)
        /\ Connect(lists[t]) = Connect(t)
    BY <1>1, <1>3, <1>9 DEF Filling
  <2>2. lists[t] # None BY <2>1, CommonInfoFixedAssumption DEF Table
  <2>3. k \in Assigned(t) /\ k \in Assigned(lists[t]) BY <1>1, <1>4, <1>7, <2>1
  <2>. QED BY <1>1, <1>9, <2>2, <2>3 DEF Holds, Sized
<1>. QED BY <1>8, <1>9

-----------------------------------------------------------------------------
(* Conditions                                                              *)

(* A block reads nothing iff it read nothing before and its new item does not.  *)
LEMMA AllNoneAppend ==
  ASSUME NEW s \in Seq(Item), NEW e \in Item
  PROVE  AllNone(Append(s, e)) <=> AllNone(s) /\ e.access = "none"
<1>1. Len(s) \in Nat BY LenProperties
<1>2. /\ Len(Append(s, e)) = Len(s) + 1
      /\ \A k \in 1 .. Len(s) + 1 :
           Append(s, e)[k] = IF k = Len(s) + 1 THEN e ELSE s[k]
  BY AppendedIs
<1>3. Append(s, e)[Len(s) + 1] = e /\ Len(s) + 1 \in 1 .. Len(s) + 1 BY <1>1, <1>2
<1>4. \A k \in 1 .. Len(s) : Append(s, e)[k] = s[k] /\ k \in 1 .. Len(s) + 1
  BY <1>1, <1>2
<1>5. \A k \in 1 .. Len(s) + 1 : k \in 1 .. Len(s) \/ k = Len(s) + 1 BY <1>1
<1>. HIDE DEF AllNone
<1>6. ASSUME AllNone(Append(s, e)) PROVE AllNone(s) /\ e.access = "none"
  BY <1>2, <1>3, <1>4, <1>6 DEF AllNone
<1>7. ASSUME AllNone(s), e.access = "none" PROVE AllNone(Append(s, e))
  <2>. SUFFICES ASSUME NEW k \in 1 .. Len(s) + 1 PROVE Append(s, e)[k].access = "none"
    BY <1>2 DEF AllNone
  <2>1. CASE k \in 1 .. Len(s) BY <1>4, <1>7, <2>1 DEF AllNone
  <2>2. CASE k = Len(s) + 1 BY <1>3, <1>7, <2>2
  <2>. QED BY <1>5, <2>1, <2>2
<1>. QED BY <1>6, <1>7

(* An item in the innermost frame changes the frame's block alone.             *)
LEMMA WithItemHere ==
  ASSUME FixedTypeOK, Framed, NEW access \in Access, NEW number \in Nat,
         access # "none" => details # << >>, stack' = WithItem(access, number)
  PROVE  /\ Top' = Top /\ Here'.kind = Here.kind /\ Here'.path = Here.path
         /\ Here'.block = Append(Here.block, ItemOf(access, number))
         /\ \A k \in 1 .. Top : stack'[k].kind = stack[k].kind
         /\ \A k \in 1 .. Top : k # Top => stack'[k] = stack[k]
         /\ AllNone(Here'.block) <=> AllNone(Here.block) /\ access = "none"
<1>1. /\ ItemOf(access, number) \in Item
      /\ Len(stack') = Top
      /\ \A k \in 1 .. Top : k # Top => stack'[k] = stack[k]
      /\ stack'[Top] = [kind |-> Here.kind, path |-> Here.path, rest |-> Here.rest,
                        block |-> Append(Here.block, ItemOf(access, number))]
  BY WithItemIs
<1>2. Top' = Top BY <1>1 DEF Top
<1>3. Here' = stack'[Top] BY <1>2 DEF Here
<1>4. /\ Here'.kind = Here.kind /\ Here'.path = Here.path
      /\ Here'.block = Append(Here.block, ItemOf(access, number))
  BY <1>1, <1>3
<1>5. \A k \in 1 .. Top : stack'[k].kind = stack[k].kind
  <2>. SUFFICES ASSUME NEW k \in 1 .. Top PROVE stack'[k].kind = stack[k].kind OBVIOUS
  <2>1. CASE k = Top BY <1>1, <2>1 DEF Here
  <2>2. CASE k # Top BY <1>1, <2>2
  <2>. QED BY <2>1, <2>2
<1>6. AllNone(Here'.block) <=> AllNone(Here.block) /\ access = "none"
  <2>1. Here.block \in Seq(Item) BY HereIs DEF Frame
  <2>2. ItemOf(access, number).access = access BY DEF ItemOf
  <2>. QED BY <1>1, <1>4, <2>1, <2>2, AllNoneAppend
<1>. QED BY <1>1, <1>2, <1>4, <1>5, <1>6

(* A statement that reads nothing settles no detail.                        *)
LEMMA PlainTested ==
  ASSUME FixedTypeOK, Framed, FunctorsFit, OwnPath, SettledOrOpen, Plain
  PROVE  FunctorsFit' /\ OwnPath' /\ SettledOrOpen'
<1>1. /\ details' = details /\ fields' = fields /\ listNames' = listNames
      /\ stack' = WithItem("none", 0)
  BY DEF Plain, input
<1>2. /\ Top' = Top /\ Here'.kind = Here.kind /\ Here'.path = Here.path
      /\ \A k \in 1 .. Top : stack'[k].kind = stack[k].kind
      /\ \A k \in 1 .. Top : k # Top => stack'[k] = stack[k]
      /\ AllNone(Here'.block) <=> AllNone(Here.block)
  <2>1. "none" \in Access /\ 0 \in Nat BY DEF Access
  <2>2. PICK access \in Access : access = "none" BY <2>1
  <2>. QED BY <1>1, <2>1, <2>2, WithItemHere
<1>3. FunctorsFit' BY <1>1 DEF FunctorsFit
<1>4. OwnPath' BY <1>1, <1>2 DEF OwnPath, Latest
<1>5. ASSUME NEW i \in 1 .. Len(details), ~Settled(details[i])
      PROVE  \E k \in 1 .. Top : IsOpen(i, k)'
  <2>1. PICK k \in 1 .. Top : IsOpen(i, k) BY <1>5 DEF SettledOrOpen
  <2>2. AllNone(stack'[k].block)
    <3>1. CASE k = Top BY <1>2, <2>1, <3>1 DEF IsOpen, Here
    <3>2. CASE k # Top BY <1>2, <2>1, <3>2 DEF IsOpen
    <3>. QED BY <3>1, <3>2
  <2>3. IsOpen(i, k)' BY <1>1, <1>2, <2>1, <2>2 DEF IsOpen
  <2>. QED BY <2>3
<1>6. \A i \in 1 .. Len(details) : Settled(details[i])' <=> Settled(details[i])
  BY <1>1 DEF Settled
<1>7. SettledOrOpen' BY <1>1, <1>2, <1>5, <1>6 DEF SettledOrOpen
<1>. QED BY <1>3, <1>4, <1>7

(* A read of the kind of its name settles the detail added last, which is the   *)
(* innermost's.                                                             *)
LEMMA ReadSettles ==
  ASSUME FixedTypeOK, Framed, FunctorsFit, OwnPath, SettledOrOpen, Here.kind = "if",
         NEW d \in Detail, d.name = Latest.name,
         NEW method, d.method = method,
         method = IF Latest.name \in listNames THEN "list" ELSE "scalar",
         details' = InLast(d), fields' = Declare(d), listNames' = listNames,
         NEW access \in Access, NEW number \in Nat, stack' = WithItem(access, number)
  PROVE  FunctorsFit' /\ OwnPath' /\ SettledOrOpen'
<1>1. details # << >> BY HereIs
<1>2. /\ Top' = Top /\ Here'.kind = Here.kind /\ Here'.path = Here.path
      /\ \A k \in 1 .. Top : stack'[k].kind = stack[k].kind
      /\ \A k \in 1 .. Top : k # Top => stack'[k] = stack[k]
  BY <1>1, WithItemHere
<1>3. /\ Len(details') = Len(details)
      /\ \A i \in 1 .. Len(details) :
           details'[i] = IF i = Len(details) THEN d ELSE details[i]
  BY <1>1, InLastIs
<1>4. Len(details) \in Nat /\ Len(details) # 0 /\ Latest.name \in Name BY <1>1, LatestIs
<1>5. Latest' = d BY <1>3, <1>4 DEF Latest
<1>6. OwnPath' BY <1>2, <1>5 DEF OwnPath
<1>7. /\ fields[d.name] # "none" => fields' = fields
      /\ fields[d.name] = "none" => fields' = [fields EXCEPT ![d.name] = method]
      /\ fields \in [Name -> {"none", "scalar", "list"}]
  BY DEF Declare, FieldDef, FixedTypeOK
<1>8. FunctorsFit' /\ fields'[d.name] = method
  <2>1. CASE fields[d.name] # "none"
    <3>1. FunctorsFit' BY <1>7, <2>1 DEF FunctorsFit
    <3>2. fields[d.name] = method BY <1>4, <1>7, <2>1 DEF FunctorsFit
    <3>. QED BY <1>7, <2>1, <3>1, <3>2
  <2>2. CASE fields[d.name] = "none"
    <3>1. \A n \in Name : fields'[n] = IF n = d.name THEN method ELSE fields[n]
      BY <1>7, <2>2
    <3>2. FunctorsFit' BY <3>1 DEF FunctorsFit
    <3>. QED BY <1>4, <3>1, <3>2
  <2>. QED BY <2>1, <2>2
<1>9. \A n \in Name : n # d.name => fields'[n] = fields[n] BY <1>7
<1>10. ASSUME NEW i \in 1 .. Len(details), ~Settled(details[i])'
       PROVE  \E k \in 1 .. Top : IsOpen(i, k)'
  <2>1. i # Len(details)
    <3>. SUFFICES ASSUME i = Len(details) PROVE FALSE OBVIOUS
    <3>1. details'[i] = d BY <1>3
    <3>2. method # "none" OBVIOUS
    <3>. QED BY <1>8, <1>10, <3>1, <3>2 DEF Settled
  <2>2. details'[i] = details[i] BY <1>3, <2>1
  <2>3. details[i].name # d.name
    <3>1. Len(details) \in 1 .. Len(details) BY <1>4
    <3>. QED BY <2>1, <3>1 DEF FixedTypeOK, Latest
  <2>4. details[i].name \in Name
    <3>1. details[i] \in Detail BY ElementOfSeq DEF FixedTypeOK
    <3>. QED BY <3>1 DEF Detail
  <2>5. ~Settled(details[i]) BY <1>9, <1>10, <2>2, <2>3, <2>4 DEF Settled
  <2>6. PICK k \in 1 .. Top : IsOpen(i, k) BY <2>5 DEF SettledOrOpen
  <2>7. k # Top BY <2>1, <2>6 DEF IsOpen
  <2>8. IsOpen(i, k)' BY <1>2, <1>3, <2>1, <2>6, <2>7 DEF IsOpen
  <2>. QED BY <2>8
<1>11. SettledOrOpen' BY <1>2, <1>3, <1>10 DEF SettledOrOpen
<1>. QED BY <1>6, <1>8, <1>11

(* A read has the kind of the name that its if tests.                       *)
LEMMA ReadTested ==
  ASSUME FixedTypeOK, Framed, FunctorsFit, OwnPath, SettledOrOpen,
         NEW r \in Reads, Read(r[1], r[2])
  PROVE  FunctorsFit' /\ OwnPath' /\ SettledOrOpen'
<1>1. /\ Here.kind = "if" /\ listNames' = listNames
      /\ IF r[2] = "value" THEN Here.path \cap listNames = {} ELSE Here.path \subseteq listNames
      /\ details' = InLast(AfterRead(Latest, r[2]))
      /\ fields' = Declare(AfterRead(Latest, r[2]))
      /\ stack' = WithItem(r[2], 0)
  BY DEF Read, input
<1>2. r[2] \in Access /\ r[2] \in {"value", "size", "list", "idx"} BY DEF Reads, Access
<1>3. Latest \in Detail BY <1>1, HereIs, LatestIs
<1>4. PICK d : d = AfterRead(Latest, r[2]) OBVIOUS
<1>5. d \in Detail /\ d.name = Latest.name BY <1>3, <1>4, AfterReadIs
<1>6. PICK method : method = IF Latest.name \in listNames THEN "list" ELSE "scalar" OBVIOUS
<1>7. Latest.name \in listNames <=> r[2] # "value" BY <1>1 DEF OwnPath
<1>8. d.method = method BY <1>2, <1>3, <1>4, <1>6, <1>7 DEF AfterRead, Detail
<1>9. 0 \in Nat OBVIOUS
<1>. QED BY <1>1, <1>2, <1>4, <1>5, <1>6, <1>8, <1>9, ReadSettles

(* So has a loop over the list.                                             *)
LEMMA ListLoopTested ==
  ASSUME FixedTypeOK, Framed, FunctorsFit, OwnPath, SettledOrOpen,
         NEW kind, kind \in {"range", "for"}, NEW reading, ListLoop(kind, reading)
  PROVE  FunctorsFit' /\ OwnPath' /\ SettledOrOpen'
<1>1. /\ Here.kind = "if" /\ listNames' = listNames /\ Here.path \subseteq listNames
      /\ details' = InLast(AfterLoop(Latest, kind))
      /\ fields' = Declare(AfterLoop(Latest, kind))
      /\ stack' = WithItem(IF kind = "range" THEN "elem" ELSE "loopVar", Id)
  BY DEF ListLoop, input
<1>2. PICK access : access = IF kind = "range" THEN "elem" ELSE "loopVar" OBVIOUS
<1>3. access \in Access /\ Id \in Nat
  BY <1>2, LenProperties DEF Access, Id, Framed, FixedTypeOK
<1>4. Latest \in Detail BY <1>1, HereIs, LatestIs
<1>5. PICK d : d = AfterLoop(Latest, kind) OBVIOUS
<1>6. d \in Detail /\ d.name = Latest.name BY <1>4, <1>5, AfterLoopIs
<1>7. PICK method : method = IF Latest.name \in listNames THEN "list" ELSE "scalar" OBVIOUS
<1>8. Latest.name \in listNames BY <1>1 DEF OwnPath
<1>9. d.method = method BY <1>4, <1>5, <1>7, <1>8 DEF AfterLoop, Detail
<1>. QED BY <1>1, <1>2, <1>3, <1>5, <1>6, <1>7, <1>9, ReadSettles

(* An if without a test leaves the details as they are.                     *)
LEMMA EnterPlainTested ==
  ASSUME FixedTypeOK, Framed, FunctorsFit, OwnPath, SettledOrOpen, EnterPlain
  PROVE  FunctorsFit' /\ OwnPath' /\ SettledOrOpen'
<1>1. /\ details' = details /\ fields' = fields /\ listNames' = listNames
      /\ Here.kind = "loop"
      /\ stack' = Append(stack, NewFrame("plain", Here.path, {}))
  BY DEF EnterPlain, input
<1>2. PICK f : f = NewFrame("plain", Here.path, {}) OBVIOUS
<1>3. f.kind = "plain" BY <1>2 DEF NewFrame
<1>4. f \in Frame
  <2>1. Here.path \subseteq Name /\ << >> \in Seq(Item) BY HereIs DEF Frame
  <2>. QED BY <1>2, <2>1 DEF NewFrame, Frame
<1>5. Top \in Nat /\ Top >= 1 /\ stack \in Seq(Frame) BY HereIs DEF FixedTypeOK
<1>6. /\ Len(stack') = Top + 1
      /\ \A k \in 1 .. Top + 1 : stack'[k] = IF k = Top + 1 THEN f ELSE stack[k]
  BY <1>1, <1>2, <1>4, <1>5, AppendedIs DEF Top
<1>7. Top' = Top + 1 /\ Here'.kind = "plain" BY <1>3, <1>5, <1>6 DEF Top, Here
<1>8. FunctorsFit' /\ OwnPath' BY <1>1, <1>7 DEF FunctorsFit, OwnPath
<1>9. ASSUME NEW i \in 1 .. Len(details), ~Settled(details[i])
      PROVE  \E k \in 1 .. Top' : IsOpen(i, k)'
  <2>1. PICK k \in 1 .. Top : IsOpen(i, k) BY <1>9 DEF SettledOrOpen
  <2>2. k \in 1 .. Top' /\ stack'[k] = stack[k] BY <1>5, <1>6, <1>7
  <2>3. IsOpen(i, k)' BY <1>7, <2>1, <2>2 DEF IsOpen
  <2>. QED BY <2>2, <2>3
<1>10. \A i \in 1 .. Len(details) : Settled(details[i])' <=> Settled(details[i])
  BY <1>1 DEF Settled
<1>11. SettledOrOpen' BY <1>1, <1>9, <1>10 DEF SettledOrOpen
<1>. QED BY <1>8, <1>11

(* A test of one new name has the detail that is added last.                  *)
LEMMA NewTestIs ==
  ASSUME FixedTypeOK, Framed, NEW ns \in Tests, Test(ns), ~Has({"or", "again"})'
  PROVE  \E n \in Name \ Names(details) :
           /\ ns = <<n>> /\ n \in Here.path
           /\ details' = Append(details, NewDetail(n))
           /\ Len(details') = Len(details) + 1
           /\ \A i \in 1 .. Len(details) : details'[i] = details[i]
           /\ details'[Len(details) + 1] = NewDetail(n) /\ Latest' = NewDetail(n)
           /\ Names(details') = Names(details) \cup {n}
           /\ Top' = Top + 1
           /\ \A k \in 1 .. Top : stack'[k] = stack[k]
           /\ stack'[Top + 1] = NewFrame("if", {n}, Here.path \ {n})
           /\ Here' = NewFrame("if", {n}, Here.path \ {n})
<1>1. /\ details' = AddNames(details, ns) /\ ToSet(ns) \subseteq Here.path
      /\ stack' = Append(stack, NewFrame("if", ToSet(ns), Here.path \ ToSet(ns)))
  BY DEF Test
<1>2. Len(ns) <= 1 /\ ToSet(ns) \cap Names(details) = {}
  <2>1. /\ Len(ns) > 1 => "or" \in forms'
        /\ ToSet(ns) \cap Names(details) # {} => "again" \in forms'
    BY DEF Test
  <2>2. Len(ns) \in Nat
    <3>1. CASE \E n \in Name : ns = <<n>> BY <3>1
    <3>2. CASE ns \in Name \X Name BY <3>2
    <3>. QED BY <3>1, <3>2 DEF Tests
  <2>. QED BY <2>1, <2>2 DEF Has
<1>3. PICK n \in Name : ns = <<n>>
  <2>1. CASE ns \in Name \X Name
    <3>1. Len(ns) = 2 BY <2>1
    <3>. QED BY <1>2, <3>1
  <2>. QED BY <2>1 DEF Tests
<1>4. Len(ns) = 1 /\ ns[1] = n /\ ToSet(ns) = {n} BY <1>3 DEF ToSet
<1>5. n \notin Names(details) /\ n \in Here.path BY <1>1, <1>2, <1>4
<1>6. details \in Seq(Detail) /\ Once(details) /\ Len(details) \in Nat
  BY LenProperties DEF FixedTypeOK, Once
<1>7. details' = AddName(details, n) BY <1>1, <1>4 DEF AddNames
<1>8. PICK d : d = NewDetail(n) OBVIOUS
<1>9. d \in Detail BY <1>8, NewDetailIs
<1>10. details' = Append(details, d) /\ Names(details') = Names(details) \cup {n}
  BY <1>5, <1>6, <1>7, <1>8, AddNameIs
<1>11. /\ Len(details') = Len(details) + 1
       /\ \A k \in 1 .. Len(details) + 1 :
            details'[k] = IF k = Len(details) + 1 THEN d ELSE details[k]
  BY <1>6, <1>9, <1>10, AppendedIs
<1>12. /\ \A i \in 1 .. Len(details) : details'[i] = details[i]
       /\ details'[Len(details) + 1] = d
  BY <1>6, <1>11
<1>13. Latest' = d BY <1>11, <1>12 DEF Latest
<1>14. PICK f : f = NewFrame("if", {n}, Here.path \ {n}) OBVIOUS
<1>15. f \in Frame
  <2>1. Here.path \subseteq Name /\ << >> \in Seq(Item) BY HereIs DEF Frame
  <2>. QED BY <1>14, <2>1 DEF NewFrame, Frame
<1>16. Top \in Nat /\ Top >= 1 /\ stack \in Seq(Frame) BY HereIs DEF FixedTypeOK
<1>17. stack' = Append(stack, f) BY <1>1, <1>4, <1>14
<1>18. /\ Len(stack') = Top + 1
       /\ \A k \in 1 .. Top + 1 : stack'[k] = IF k = Top + 1 THEN f ELSE stack[k]
  BY <1>15, <1>16, <1>17, AppendedIs DEF Top
<1>19. /\ Top' = Top + 1 /\ stack'[Top + 1] = f
       /\ \A k \in 1 .. Top : stack'[k] = stack[k]
  BY <1>16, <1>18 DEF Top
<1>20. Here' = f BY <1>19 DEF Here
<1>. QED BY <1>3, <1>5, <1>8, <1>10, <1>11, <1>12, <1>13, <1>14, <1>19, <1>20

(* A test of a new name has an open detail that nothing has settled.        *)
LEMMA TestTested ==
  ASSUME FixedTypeOK, Framed, FunctorsFit, OwnPath, SettledOrOpen,
         NEW ns \in Tests, Test(ns), ~Has({"or", "again"})'
  PROVE  FunctorsFit' /\ OwnPath' /\ SettledOrOpen'
<1>1. /\ fields' = fields /\ listNames' = listNames /\ Here.kind # "if" BY DEF Test, input
<1>2. PICK n \in Name \ Names(details) :
        /\ Len(details') = Len(details) + 1
        /\ \A i \in 1 .. Len(details) : details'[i] = details[i]
        /\ details'[Len(details) + 1] = NewDetail(n) /\ Latest' = NewDetail(n)
        /\ Top' = Top + 1
        /\ \A k \in 1 .. Top : stack'[k] = stack[k]
        /\ stack'[Top + 1] = NewFrame("if", {n}, Here.path \ {n})
        /\ Here' = NewFrame("if", {n}, Here.path \ {n})
  BY NewTestIs
<1>3. Top \in Nat /\ Len(details) \in Nat BY HereIs, LenProperties DEF FixedTypeOK
<1>4. FunctorsFit' BY <1>1 DEF FunctorsFit
<1>5. NewDetail(n).name = n BY DEF NewDetail
<1>6. /\ Here'.kind = "if" /\ Here'.path = {n} /\ Here'.block = << >>
      /\ stack'[Top + 1].kind = "if" /\ stack'[Top + 1].block = << >>
  BY <1>2 DEF NewFrame
<1>7. OwnPath' BY <1>2, <1>5, <1>6 DEF OwnPath
<1>8. ASSUME NEW i \in 1 .. Len(details'), ~Settled(details[i])'
      PROVE  \E k \in 1 .. Top' : IsOpen(i, k)'
  <2>1. CASE i = Len(details) + 1
    <3>1. PICK k : k = Top + 1 OBVIOUS
    <3>2. AllNone(stack'[k].block)
      <4>1. Len(<< >>) = 0 BY EmptySeq
      <4>. QED BY <1>6, <3>1, <4>1 DEF AllNone
    <3>3. k \in 1 .. Top' /\ k = Top' /\ i = Len(details') BY <1>2, <1>3, <2>1, <3>1
    <3>4. stack'[k].kind = "if" BY <1>6, <3>1
    <3>5. IsOpen(i, k)' BY <3>2, <3>3, <3>4 DEF IsOpen
    <3>. QED BY <3>3, <3>5
  <2>2. CASE i # Len(details) + 1
    <3>1. i \in 1 .. Len(details) BY <1>2, <1>3, <2>2
    <3>2. ~Settled(details[i]) BY <1>1, <1>2, <1>8, <3>1 DEF Settled
    <3>3. PICK k \in 1 .. Top : IsOpen(i, k) BY <3>1, <3>2 DEF SettledOrOpen
    <3>4. k \in 1 .. Top' /\ k # Top' /\ stack'[k] = stack[k] BY <1>2, <1>3
    <3>5. i # Len(details') BY <1>2, <2>2
    <3>6. IsOpen(i, k)' BY <3>3, <3>4, <3>5 DEF IsOpen
    <3>. QED BY <3>4, <3>6
  <2>. QED BY <2>1, <2>2
<1>9. SettledOrOpen' BY <1>8 DEF SettledOrOpen
<1>. QED BY <1>4, <1>7, <1>9

(* The else of an if leaves the details open that the if left open.         *)
LEMMA ElseTested ==
  ASSUME FixedTypeOK, Framed, FunctorsFit, OwnPath, SettledOrOpen, EnterElse
  PROVE  FunctorsFit' /\ OwnPath' /\ SettledOrOpen'
<1>1. /\ details' = details /\ fields' = fields /\ listNames' = listNames
  BY DEF EnterElse, input
<1>2. /\ Len(stack') = Top
      /\ \A k \in 1 .. Top : k # Top => stack'[k] = stack[k]
      /\ stack'[Top] = [kind |-> "else", path |-> Here.rest, rest |-> Here.rest,
                        block |-> Here.block]
  BY ElseIs
<1>3. Top' = Top /\ Here'.kind = "else" BY <1>2 DEF Top, Here
<1>4. FunctorsFit' /\ OwnPath' BY <1>1, <1>3 DEF FunctorsFit, OwnPath
<1>5. ASSUME NEW i \in 1 .. Len(details), ~Settled(details[i])
      PROVE  \E k \in 1 .. Top : IsOpen(i, k)'
  <2>1. PICK k \in 1 .. Top : IsOpen(i, k) BY <1>5 DEF SettledOrOpen
  <2>2. stack'[k].kind \in {"if", "else"} /\ stack'[k].block = stack[k].block
    <3>1. CASE k = Top BY <1>2, <3>1 DEF Here
    <3>2. CASE k # Top BY <1>2, <2>1, <3>2 DEF IsOpen
    <3>. QED BY <3>1, <3>2
  <2>3. IsOpen(i, k)' BY <1>3, <2>1, <2>2 DEF IsOpen
  <2>. QED BY <2>3
<1>6. \A i \in 1 .. Len(details) : Settled(details[i])' <=> Settled(details[i])
  BY <1>1 DEF Settled
<1>7. SettledOrOpen' BY <1>1, <1>3, <1>5, <1>6 DEF SettledOrOpen
<1>. QED BY <1>4, <1>7

(* The texts of a body change no method.                                    *)
LEMMA FilledMethod ==
  ASSUME NEW d \in Detail, NEW text
  PROVE  Filled(d, text).method = d.method /\ Filled(d, text).name = d.name
BY DEF Filled, Detail

(* An if that has read something is settled when it is left.                *)
LEMMA LeaveTested ==
  ASSUME FixedTypeOK, Framed, FunctorsFit, OwnPath, SettledOrOpen, LeaveIf,
         "unread" \notin forms'
  PROVE  FunctorsFit' /\ OwnPath' /\ SettledOrOpen'
<1>1. /\ fields' = fields /\ listNames' = listNames
      /\ Here.kind = "plain" \/ ~AllNone(Here.block)
  BY DEF LeaveIf, input, AllNone
<1>2. /\ Top \in Nat /\ Top >= 2
      /\ Len(stack') = Top - 1
      /\ \A k \in 1 .. Top - 1 : stack'[k] = stack[k]
      /\ details = << >> \/ Top # 2 => details' = details
      /\ details # << >> /\ Top = 2 =>
           details' = InLast(Filled(Latest, BodyText(IF Here.kind = "plain" THEN << >>
                                                     ELSE Here.block)))
  BY LeaveIs
<1>3. Top' = Top - 1 /\ Here' = stack[Top - 1] BY <1>2 DEF Top, Here
<1>4. Here'.kind # "if"
  <2>1. Top - 1 \in 1 .. Top /\ Top - 1 # Top BY <1>2
  <2>. QED BY <1>3, <2>1 DEF Framed
<1>5. FunctorsFit' /\ OwnPath' BY <1>1, <1>4 DEF FunctorsFit, OwnPath
<1>6. /\ Len(details') = Len(details)
      /\ \A i \in 1 .. Len(details) : details'[i].name = details[i].name
  BY LeaveTyped
<1>7. \A i \in 1 .. Len(details) : details'[i].method = details[i].method
  <2>1. CASE details = << >> \/ Top # 2 BY <1>2, <2>1
  <2>2. CASE details # << >> /\ Top = 2
    <3>1. PICK b : b = IF Here.kind = "plain" THEN << >> ELSE Here.block OBVIOUS
    <3>2. b \in Seq(Item)
      <4>1. << >> \in Seq(Item) /\ Here.block \in Seq(Item) BY HereIs DEF Frame
      <4>. QED BY <3>1, <4>1
    <3>3. PICK d : d = Filled(Latest, BodyText(b)) OBVIOUS
    <3>4. Latest \in Detail BY <2>2, LatestIs
    <3>5. d \in Detail /\ d.name = Latest.name BY <3>2, <3>3, <3>4, FilledType
    <3>6. d.method = Latest.method BY <3>3, <3>4, FilledMethod
    <3>7. details' = InLast(d) BY <1>2, <2>2, <3>1, <3>3
    <3>8. \A i \in 1 .. Len(details) : details'[i] = IF i = Len(details) THEN d ELSE details[i]
      BY <2>2, <3>5, <3>7, InLastIs
    <3>. QED BY <3>6, <3>8 DEF Latest
  <2>. QED BY <2>1, <2>2
<1>8. ASSUME NEW i \in 1 .. Len(details), ~Settled(details[i])'
      PROVE  \E k \in 1 .. Top - 1 : IsOpen(i, k)'
  <2>1. ~Settled(details[i]) BY <1>1, <1>6, <1>7, <1>8 DEF Settled
  <2>2. PICK k \in 1 .. Top : IsOpen(i, k) BY <2>1 DEF SettledOrOpen
  <2>3. k # Top BY <1>1, <2>2 DEF IsOpen, Here
  <2>4. k \in 1 .. Top - 1 BY <1>2, <2>3
  <2>5. stack'[k] = stack[k] BY <1>2, <2>4
  <2>6. IsOpen(i, k)' BY <1>4, <2>2, <2>5 DEF IsOpen
  <2>. QED BY <2>4, <2>6
<1>9. SettledOrOpen' BY <1>3, <1>6, <1>8 DEF SettledOrOpen
<1>. QED BY <1>5, <1>9

(* Every step keeps what is known of conditions.                            *)
LEMMA TestedStep ==
  ASSUME FixedTypeOK, Framed, Tested, [Next]_vars
  PROVE  Tested'
<1>. SUFFICES ASSUME ~Has({"unread", "or", "again"})'
              PROVE  FunctorsFit' /\ OwnPath' /\ SettledOrOpen'
  BY DEF Tested
<1>1. FunctorsFit /\ OwnPath /\ SettledOrOpen BY FormsGrow DEF Tested, Has
<1>2. ~Has({"or", "again"})' /\ "unread" \notin forms' BY DEF Has
<1>3. ASSUME stack' = stack, details' = details, fields' = fields, listNames' = listNames
      PROVE  FunctorsFit' /\ OwnPath' /\ SettledOrOpen'
  BY <1>1, <1>3 DEF FunctorsFit, OwnPath, SettledOrOpen, IsOpen, Settled, Here, Top, Latest
<1>4. CASE Plain BY <1>1, <1>4, PlainTested
<1>5. ASSUME NEW r \in Reads, Read(r[1], r[2])
      PROVE  FunctorsFit' /\ OwnPath' /\ SettledOrOpen'
  BY <1>1, <1>5, ReadTested
<1>6. ASSUME NEW kind \in {"range", "for"}, NEW reading \in {"each", "other"},
             ListLoop(kind, reading)
      PROVE  FunctorsFit' /\ OwnPath' /\ SettledOrOpen'
  BY <1>1, <1>6, ListLoopTested
<1>7. CASE EnterPlain BY <1>1, <1>7, EnterPlainTested
<1>8. ASSUME NEW ns \in Tests, Test(ns)
      PROVE  FunctorsFit' /\ OwnPath' /\ SettledOrOpen'
  BY <1>1, <1>2, <1>8, TestTested
<1>9. CASE EnterElse BY <1>1, <1>9, ElseTested
<1>10. CASE LeaveIf BY <1>1, <1>2, <1>10, LeaveTested
<1>11. ASSUME NEW t \in Table, Assign(t)
       PROVE  FunctorsFit' /\ OwnPath' /\ SettledOrOpen'
  <2>1. /\ details' = << >> /\ fields' = fields /\ listNames' = listNames
        /\ stack' = stack /\ Here.kind = "loop"
    BY <1>11 DEF Assign, input
  <2>2. Here' = Here BY <2>1 DEF Here, Top
  <2>3. Len(details') = 0 BY <2>1
  <2>. QED BY <1>1, <2>1, <2>2, <2>3 DEF FunctorsFit, OwnPath, SettledOrOpen
<1>12. CASE ReplaceLoop BY <1>3, <1>12 DEF ReplaceLoop, loop, input
<1>13. CASE UNCHANGED vars BY <1>3, <1>13, SameIs
<1>. QED BY <1>4, <1>5, <1>6, <1>7, <1>8, <1>9, <1>10, <1>11, <1>12, <1>13
         DEF Next, Finished

(* And it holds at first.                                                   *)
LEMMA InitTested ==
  ASSUME Init
  PROVE  Tested
<1>1. details = << >> /\ \A n \in Name : fields[n] = "none" BY DEF Init
<1>2. Len(details) = 0 BY <1>1
<1>3. Here.kind = "loop" BY DEF Init, Here, Top, NewFrame
<1>. QED BY <1>1, <1>2, <1>3 DEF Tested, FunctorsFit, OwnPath, SettledOrOpen

(* When the loop is replaced no if is open.                                  *)
LEMMA TestedWritten ==
  ASSUME FixedTypeOK, Framed, Tested
  PROVE  ConditionsWritten
<1>. SUFFICES ASSUME done, ~Has({"unread", "or", "again"}), NEW i \in 1 .. Len(details)
              PROVE  Condition(details[i]) = "tested"
  BY DEF ConditionsWritten
<1>1. Settled(details[i])
  <2>. SUFFICES ASSUME ~Settled(details[i]) PROVE FALSE OBVIOUS
  <2>1. PICK k \in 1 .. Top : IsOpen(i, k) BY DEF Tested, SettledOrOpen
  <2>2. Top = 1 BY DEF Framed
  <2>3. k = 1 BY <2>2
  <2>4. stack[k].kind = "loop" BY <2>3 DEF Framed
  <2>. QED BY <2>1, <2>4 DEF IsOpen
<1>. QED BY <1>1 DEF Condition, Settled

-----------------------------------------------------------------------------
(* Texts that are put together                                             *)

(* Items at the places of an interval.                                       *)
Between(n, S, a, b) ==
  /\ a # 0 /\ b <= n /\ a <= b + 1
  /\ \A i \in 1 .. n : i \in S <=> a <= i /\ i <= b

Part(s, a, b, t) ==
  /\ t \in Seq(Item) /\ Len(t) = b + 1 - a
  /\ \A i \in 1 .. b + 1 - a : t[i] = s[a + i - 1]

(* The items at these places are the part of the block from a to b.         *)
LEMMA WhereInterval ==
  ASSUME NEW s \in Seq(Item), NEW a \in Nat, NEW b \in Nat,
         NEW S, Between(Len(s), S, a, b)
  PROVE  Part(s, a, b, Where(s, S))
<1>9. a # 0 /\ b <= Len(s) /\ a <= b + 1 BY DEF Between
<1>. SUFFICES /\ Where(s, S) \in Seq(Item)
              /\ Len(Where(s, S)) = b + 1 - a
              /\ \A i \in 1 .. b + 1 - a : Where(s, S)[i] = s[a + i - 1]
  BY DEF Part
<1>. DEFINE t == [i \in 1 .. Len(s) |-> IF i \in S THEN <<s[i]>> ELSE << >>]
<1>1. Len(s) \in Nat BY LenProperties
<1>2. \A i \in 1 .. Len(s) : s[i] \in Item /\ <<s[i]>> \in Seq(Item) /\ << >> \in Seq(Item)
  BY ElementOfSeq
<1>3. t \in Seq(Seq(Item)) BY <1>1, <1>2, IsASeq
<1>4. Len(t) = Len(s) /\ Where(s, S) = FlattenSeq(t) BY <1>1 DEF Where
<1>5. /\ \A i \in 1 .. Len(s) : a <= i /\ i <= b => t[i] = <<s[i]>>
      /\ \A i \in 1 .. Len(s) : ~(a <= i /\ i <= b) => t[i] = << >>
  BY DEF Between
<1>. HIDE DEF t
<1>6. CASE Len(s) = 0
  <2>1. FlattenSeq(t) = t BY <1>4, <1>6 DEF FlattenSeq
  <2>2. t = << >> BY <1>3, <1>4, <1>6, EmptySeq
  <2>3. << >> \in Seq(Item) /\ Len(<< >>) = 0 BY EmptySeq
  <2>4. b + 1 - a = 0 BY <1>1, <1>6, <1>9
  <2>. QED BY <1>4, <2>1, <2>2, <2>3, <2>4
<1>7. CASE Len(s) # 0
  <2>1. PICK f : /\ f = [i \in 1 .. Len(t) |-> FlattenStep(t, f, i)]
                 /\ FlattenSeq(t) = f[Len(t)]
    BY <1>1, <1>4, <1>7, FlattenIs
  <2>. DEFINE size(k) == IF k < a THEN 0 ELSE IF k < b THEN k + 1 - a ELSE b + 1 - a
              Good(k) == /\ f[k] \in Seq(Item) /\ Len(f[k]) = size(k)
                         /\ \A i \in 1 .. size(k) : f[k][i] = s[a + i - 1]
              T == {k \in Nat : k + 1 <= Len(s) => Good(k + 1)}
  <2>2. Good(1)
    <3>1. f[1] = t[1] BY <1>1, <1>4, <1>7, <2>1 DEF FlattenStep
    <3>2. 1 \in 1 .. Len(s) BY <1>1, <1>7
    <3>3. CASE a <= 1 /\ 1 <= b
      <4>1. a = 1 /\ f[1] = <<s[1]>> BY <1>5, <1>9, <3>1, <3>2, <3>3
      <4>2. size(1) = 1 BY <1>9, <3>3, <4>1
      <4>3. 1 .. 1 = {1} OBVIOUS
      <4>. QED BY <1>2, <3>2, <4>1, <4>2, <4>3
    <3>4. CASE ~(a <= 1 /\ 1 <= b)
      <4>1. f[1] = << >> BY <1>5, <3>1, <3>2, <3>4
      <4>2. size(1) = 0 BY <1>9, <3>4
      <4>3. << >> \in Seq(Item) /\ Len(<< >>) = 0 BY EmptySeq
      <4>4. 1 .. 0 = {} OBVIOUS
      <4>. QED BY <4>1, <4>2, <4>3, <4>4
    <3>. QED BY <3>3, <3>4
  <2>3. ASSUME NEW k \in Nat, k # 0, k + 1 <= Len(s), Good(k) PROVE Good(k + 1)
    <3>1. k + 1 \in 1 .. Len(t) /\ k + 1 # 1 /\ (k + 1) - 1 = k BY <1>1, <1>4, <2>3
    <3>2. f[k + 1] = f[k] \o t[k + 1] BY <2>1, <3>1 DEF FlattenStep
    <3>3. k + 1 \in 1 .. Len(s) BY <1>4, <3>1
    <3>4. CASE a <= k + 1 /\ k + 1 <= b
      <4>1. t[k + 1] = <<s[k + 1]>> BY <1>5, <3>3, <3>4
      <4>2. f[k + 1] = Append(f[k], s[k + 1]) BY <2>3, <3>2, <4>1
      <4>3. s[k + 1] \in Item BY <1>2, <3>3
      <4>4. size(k) = k + 1 - a /\ size(k + 1) = size(k) + 1 /\ size(k) \in Nat
        BY <1>9, <2>3, <3>4
      <4>5. /\ f[k + 1] \in Seq(Item) /\ Len(f[k + 1]) = size(k) + 1
            /\ \A i \in 1 .. size(k) + 1 :
                 f[k + 1][i] = IF i = size(k) + 1 THEN s[k + 1] ELSE f[k][i]
        <5>1. PICK g : g = f[k] OBVIOUS
        <5>2. g \in Seq(Item) /\ Len(g) = size(k) BY <2>3, <5>1
        <5>3. f[k + 1] = Append(g, s[k + 1]) BY <4>2, <5>1
        <5>. HIDE DEF size
        <5>4. /\ f[k + 1] \in Seq(Item) /\ Len(f[k + 1]) = Len(g) + 1
              /\ \A i \in 1 .. Len(g) + 1 :
                   f[k + 1][i] = IF i = Len(g) + 1 THEN s[k + 1] ELSE g[i]
          BY ONLY <4>3, <5>2, <5>3, AppendedIs
        <5>. QED BY <5>1, <5>2, <5>4
      <4>6. ASSUME NEW i \in 1 .. size(k) + 1 PROVE f[k + 1][i] = s[a + i - 1]
        <5>1. CASE i = size(k) + 1
          <6>1. a + i - 1 = k + 1 BY <4>4, <5>1
          <6>. QED BY <4>5, <5>1, <6>1
        <5>2. CASE i # size(k) + 1
          <6>1. i \in 1 .. size(k) BY <4>4, <5>2
          <6>. QED BY <2>3, <4>5, <5>2, <6>1
        <5>. QED BY <5>1, <5>2
      <4>. HIDE DEF size
      <4>. QED BY <4>4, <4>5, <4>6
    <3>5. CASE ~(a <= k + 1 /\ k + 1 <= b)
      <4>1. t[k + 1] = << >> BY <1>5, <3>3, <3>5
      <4>2. f[k + 1] = f[k] BY <2>3, <3>2, <4>1, ConcatEmptySeq
      <4>3. size(k + 1) = size(k) BY <1>9, <2>3, <3>5
      <4>. HIDE DEF size
      <4>. QED BY <2>3, <4>2, <4>3
    <3>. QED BY <3>4, <3>5
  <2>. HIDE DEF Good
  <2>4. T = Nat
    <3>1. 0 \in T BY <2>2
    <3>2. ASSUME NEW k \in T PROVE k + 1 \in T
      <4>1. k \in Nat /\ (k + 1 <= Len(s) => Good(k + 1)) OBVIOUS
      <4>2. SUFFICES ASSUME (k + 1) + 1 <= Len(s) PROVE Good((k + 1) + 1) BY <4>1
      <4>3. k + 1 \in Nat /\ k + 1 # 0 /\ k + 1 <= Len(s) BY <1>1, <4>1, <4>2
      <4>. QED BY <2>3, <4>1, <4>2, <4>3
    <3>3. T \in SUBSET Nat OBVIOUS
    <3>. HIDE DEF T
    <3>. QED BY ONLY <3>1, <3>2, <3>3, NatInductionSet
  <2>5. PICK k \in Nat : k + 1 = Len(s)
    <3>1. Len(s) - 1 \in Nat /\ (Len(s) - 1) + 1 = Len(s) BY <1>1, <1>7
    <3>. QED BY <3>1
  <2>6. k \in T
    <3>. HIDE DEF T
    <3>. QED BY <2>4
  <2>7. Good(Len(s))
    <3>1. k + 1 <= Len(s) BY <1>1, <2>5
    <3>. QED BY <2>5, <2>6, <3>1
  <2>8. size(Len(s)) = b + 1 - a BY <1>1, <1>7, <1>9
  <2>. HIDE DEF size
  <2>9. FlattenSeq(t) = f[Len(s)] BY <1>4, <2>1
  <2>. QED BY <1>4, <2>7, <2>8, <2>9 DEF Good
<1>. QED BY <1>6, <1>7

(* The three texts of a block without a list loop, and with one.              *)
LEMMA BodyNoLoop ==
  ASSUME NEW s \in Seq(Item), \A i \in 1 .. Len(s) : s[i].loop = 0
  PROVE  BodyText(s).pre = s /\ BodyText(s).loop = << >> /\ BodyText(s).post = << >>
<1>. DEFINE looped == {i \in 1 .. Len(s) : s[i].loop # 0}
            rest == ((Len(s) + 1) .. Len(s)) \ looped
<1>1. Len(s) \in Nat /\ looped = {} BY LenProperties
<1>2. BodyText(s) = [pre |-> SubSeq(s, 1, Len(s) + 1 - 1), loop |-> Where(s, looped),
                     post |-> Where(s, rest)]
  BY <1>1 DEF BodyText
<1>3. SubSeq(s, 1, Len(s) + 1 - 1) = s
  <2>1. Len(s) + 1 - 1 = Len(s) BY <1>1
  <2>. QED BY <2>1, SubSeqFull
<1>4. (\A i \in 1 .. Len(s) : i \notin looped) /\ (\A i \in 1 .. Len(s) : i \notin rest)
  BY <1>1
<1>. HIDE DEF looped, rest
<1>5. ASSUME NEW S, \A i \in 1 .. Len(s) : i \notin S PROVE Where(s, S) = << >>
  <2>1. PICK a \in Nat : a = 1 OBVIOUS
  <2>2. PICK b \in Nat : b = 0 OBVIOUS
  <2>3. Between(Len(s), S, a, b) BY <1>1, <1>5, <2>1, <2>2 DEF Between
  <2>4. b + 1 - a = 0 BY <2>1, <2>2
  <2>5. Part(s, a, b, Where(s, S)) BY ONLY s \in Seq(Item), <2>3, a \in Nat, b \in Nat, WhereInterval
  <2>. QED BY <2>4, <2>5, EmptySeq DEF Part
<1>. QED BY <1>2, <1>3, <1>4, <1>5

(* With one list loop at k: what stands before it, it, and what follows.    *)
LEMMA BodyOneLoop ==
  ASSUME NEW s \in Seq(Item), NEW k \in 1 .. Len(s), s[k].loop # 0,
         \A i \in 1 .. Len(s) : s[i].loop # 0 => i = k
  PROVE  /\ BodyText(s).pre \in Seq(Item) /\ Len(BodyText(s).pre) = k - 1
         /\ \A i \in 1 .. k - 1 : BodyText(s).pre[i] = s[i]
         /\ BodyText(s).loop \in Seq(Item) /\ Len(BodyText(s).loop) = 1
         /\ BodyText(s).loop[1] = s[k]
         /\ BodyText(s).post \in Seq(Item) /\ Len(BodyText(s).post) = Len(s) - k
         /\ \A i \in 1 .. Len(s) - k : BodyText(s).post[i] = s[k + i]
<1>. DEFINE looped == {i \in 1 .. Len(s) : s[i].loop # 0}
            rest == (k .. Len(s)) \ looped
<1>1. Len(s) \in Nat /\ looped = {k} /\ k \in Nat /\ 1 <= k /\ k <= Len(s)
  BY LenProperties
<1>2. (CHOOSE i \in looped : \A j \in looped : i <= j) = k BY <1>1
<1>3. BodyText(s) = [pre |-> SubSeq(s, 1, k - 1), loop |-> Where(s, looped),
                     post |-> Where(s, rest)]
  BY <1>1, <1>2 DEF BodyText
<1>4. PICK a \in Nat : a = k + 1 BY <1>1
<1>5. Between(Len(s), looped, k, k) /\ Between(Len(s), rest, a, Len(s))
  BY <1>1, <1>4 DEF Between
<1>6. PICK l : l = Where(s, looped) OBVIOUS
<1>7. PICK p : p = Where(s, rest) OBVIOUS
<1>. HIDE DEF looped, rest
<1>8. l \in Seq(Item) /\ Len(l) = 1 /\ l[1] = s[k]
  <2>1. k + 1 - k = 1 /\ k + 1 - 1 = k /\ 1 \in 1 .. 1 BY <1>1
  <2>2. k \in Nat BY <1>1
  <2>3. Part(s, k, k, Where(s, looped)) BY ONLY s \in Seq(Item), <1>5, <2>2, WhereInterval
  <2>4. Part(s, k, k, l) BY <1>6, <2>3
  <2>. QED BY <2>1, <2>4 DEF Part
<1>9. p \in Seq(Item) /\ Len(p) = Len(s) - k /\ \A i \in 1 .. Len(s) - k : p[i] = s[k + i]
  <2>1. a \in Nat /\ Len(s) \in Nat BY <1>1
  <2>2. Part(s, a, Len(s), Where(s, rest)) BY ONLY s \in Seq(Item), <1>5, <2>1, WhereInterval
  <2>3. Part(s, a, Len(s), p) BY <1>7, <2>2
  <2>4. Len(s) + 1 - a = Len(s) - k BY <1>1, <1>4
  <2>5. \A i \in 1 .. Len(s) - k : a + i - 1 = k + i BY <1>1, <1>4
  <2>. QED BY <2>3, <2>4, <2>5 DEF Part
<1>10. PICK q : q = SubSeq(s, 1, k - 1) OBVIOUS
<1>11. q \in Seq(Item) /\ Len(q) = k - 1 /\ \A i \in 1 .. k - 1 : q[i] = s[i]
  <2>1. k - 1 \in Int /\ 1 \in Int /\ \A i \in 1 .. k - 1 : s[i] \in Item
    BY <1>1, ElementOfSeq
  <2>2. /\ q \in Seq(Item) /\ Len(q) = IF 1 <= k - 1 THEN k - 1 - 1 + 1 ELSE 0
        /\ \A i \in 1 .. k - 1 - 1 + 1 : q[i] = s[1 + i - 1]
    BY <1>10, <2>1, SubSeqProperties
  <2>. QED BY <1>1, <2>2
<1>12. BodyText(s).pre = q /\ BodyText(s).loop = l /\ BodyText(s).post = p
  BY <1>3, <1>6, <1>7, <1>10
<1>. QED BY <1>8, <1>9, <1>11, <1>12

(* What a text executes.                                                    *)
Executions == [id : Nat, of : Name \cup {None}, loop : Nat,
               reads : Access \cup {"each", "first", "other", "undeclared"}]

(* A text executes an execution.                                            *)
LEMMA RunsType ==
  ASSUME NEW d \in Detail, NEW item \in Item, NEW inIdx \in BOOLEAN
  PROVE  Runs(d, item, inIdx) \in Executions
<1>1. d.loopVar \in Nat BY DEF Detail
<1>2. /\ item.id \in Nat /\ item.name \in Name \cup {None} /\ item.loop \in Nat
      /\ item.access \in Access
  BY DEF Item
<1>3. PICK l : l = IF inIdx THEN d.loopVar ELSE IF item.access = "elem" THEN 0 ELSE item.loop
  OBVIOUS
<1>4. l \in Nat BY <1>1, <1>2, <1>3
<1>5. Runs(d, item, inIdx).reads \in Access \cup {"each", "first", "other", "undeclared"}
  BY <1>2 DEF Runs
<1>6. PICK r : r = Runs(d, item, inIdx).reads OBVIOUS
<1>7. Runs(d, item, inIdx) = [id |-> item.id, of |-> item.name, loop |-> l, reads |-> r]
  BY <1>3, <1>6 DEF Runs
<1>. QED BY <1>2, <1>4, <1>5, <1>6, <1>7 DEF Executions

(* A sequence of texts executes one after the other.                        *)
LEMMA RunAllIs ==
  ASSUME NEW d \in Detail, NEW items \in Seq(Item), NEW inIdx \in BOOLEAN
  PROVE  /\ RunAll(d, items, inIdx) \in Seq(Executions)
         /\ Len(RunAll(d, items, inIdx)) = Len(items)
         /\ \A i \in 1 .. Len(items) :
              RunAll(d, items, inIdx)[i] = Runs(d, items[i], inIdx)
<1>1. Len(items) \in Nat BY LenProperties
<1>2. \A i \in 1 .. Len(items) : Runs(d, items[i], inIdx) \in Executions
  BY RunsType, ElementOfSeq
<1>3. RunAll(d, items, inIdx) \in Seq(Executions) BY <1>1, <1>2, IsASeq DEF RunAll
<1>. QED BY <1>1, <1>3 DEF RunAll

(* What a statement of the source executes for the name n.                   *)
Does(s, n) == [id |-> s.id, loop |-> s.loop, reads |-> s.reads,
               of |-> IF s.reads = "none" THEN None ELSE n]

(* So does the source for a name.                                           *)
LEMMA ExpectedIs ==
  ASSUME NEW n \in Name, source[n] \in Seq(Steps)
  PROVE  /\ Expected(n) \in Seq(Executions)
         /\ Len(Expected(n)) = Len(source[n])
         /\ \A i \in 1 .. Len(source[n]) : Expected(n)[i] = Does(source[n][i], n)
<1>1. Len(source[n]) \in Nat BY LenProperties
<1>2. ASSUME NEW s \in Steps PROVE Does(s, n) \in Executions
  <2>1. /\ s.id \in Nat /\ s.loop \in Nat
        /\ s.reads \in {"none", "value", "size", "list", "first", "each", "other"}
    BY DEF Steps
  <2>2. s.reads \in Access \cup {"each", "first", "other", "undeclared"}
    BY <2>1 DEF Access
  <2>3. PICK o : o = IF s.reads = "none" THEN None ELSE n OBVIOUS
  <2>4. o \in Name \cup {None} BY <2>3
  <2>5. Does(s, n) = [id |-> s.id, loop |-> s.loop, reads |-> s.reads, of |-> o]
    BY <2>3 DEF Does
  <2>. QED BY <2>1, <2>2, <2>4, <2>5 DEF Executions
<1>3. \A i \in 1 .. Len(source[n]) : Does(source[n][i], n) \in Executions
  BY <1>2, ElementOfSeq
<1>4. Expected(n) = [i \in 1 .. Len(source[n]) |-> Does(source[n][i], n)]
  BY DEF Expected, Does
<1>5. Expected(n) \in Seq(Executions) BY <1>1, <1>3, <1>4, IsASeq
<1>. QED BY <1>1, <1>4, <1>5

(* An item runs in the range loop of its detail, or beside one.               *)
InElem(d, item) == item.access = "elem" /\ d.loopVar = item.loop
Beside(item) == item.access # "elem"

(* A text executes the statement that it is the text of: beside a list loop    *)
(* and in one with an index, and in a range loop where its element is read.   *)
LEMMA TextRuns ==
  ASSUME NEW d, NEW item, NEW s, NEW n, TextOf(item, s, n)
  PROVE  /\ Beside(item) => Runs(d, item, FALSE) = Does(s, n)
         /\ InElem(d, item) => Runs(d, item, TRUE) = Does(s, n)
<1>1. /\ item.id = s.id /\ item.loop = s.loop
  BY DEF TextOf
<1>2. CASE item.access = "none" /\ item.name = None /\ s.reads = "none" /\ s.loop = 0
  BY <1>1, <1>2 DEF Runs, Does, InElem
<1>3. CASE /\ item.access \in {"value", "size", "list"}
           /\ item.name = n /\ s.reads = item.access /\ s.loop = 0
  BY <1>1, <1>3 DEF Runs, Does, InElem
<1>4. CASE /\ item.access = "elem"
           /\ item.name = n /\ s.reads = "each" /\ s.loop # 0
  BY <1>1, <1>4 DEF Runs, Does, InElem, Beside
<1>5. CASE /\ item.access = "loopVar"
           /\ item.name = n /\ s.reads = "each" /\ s.loop # 0
  BY <1>1, <1>5 DEF Runs, Does, InElem
<1>. QED BY <1>2, <1>3, <1>4, <1>5 DEF TextOf

(* The three parts of a text with one list loop, put together.               *)
LEMMA JoinedIs ==
  ASSUME NEW A, NEW p \in Seq(A), NEW l \in Seq(A), NEW q \in Seq(A), NEW k \in Nat,
         Len(p) = k - 1, Len(l) = 1
  PROVE  /\ p \o l \o q \in Seq(A)
         /\ Len(p \o l \o q) = k + Len(q)
         /\ \A i \in 1 .. k + Len(q) :
              (p \o l \o q)[i] = IF i < k THEN p[i]
                                 ELSE IF i = k THEN l[1] ELSE q[i - k]
<1>1. Len(p) \in Nat /\ Len(q) \in Nat BY LenProperties
<1>2. PICK h : h = p \o l OBVIOUS
<1>3. /\ h \in Seq(A) /\ Len(h) = Len(p) + Len(l)
      /\ \A i \in 1 .. Len(p) + Len(l) : h[i] = IF i <= Len(p) THEN p[i] ELSE l[i - Len(p)]
  BY <1>2, ConcatProperties
<1>4. /\ Len(h) = k
      /\ \A i \in 1 .. k : h[i] = IF i < k THEN p[i] ELSE l[1]
  <2>1. Len(p) + Len(l) = k BY <1>1
  <2>2. ASSUME NEW i \in 1 .. k PROVE h[i] = IF i < k THEN p[i] ELSE l[1]
    <3>1. CASE i < k
      <4>1. i <= Len(p) BY <3>1
      <4>. QED BY <1>3, <2>1, <3>1, <4>1
    <3>2. CASE ~(i < k)
      <4>1. ~(i <= Len(p)) /\ i - Len(p) = 1 BY <3>2
      <4>. QED BY <1>3, <2>1, <3>2, <4>1
    <3>. QED BY <3>1, <3>2
  <2>. QED BY <1>3, <2>1, <2>2
<1>5. /\ h \o q \in Seq(A) /\ Len(h \o q) = Len(h) + Len(q)
      /\ \A i \in 1 .. Len(h) + Len(q) :
           (h \o q)[i] = IF i <= Len(h) THEN h[i] ELSE q[i - Len(h)]
  <2>1. h \in Seq(A) /\ q \in Seq(A) BY <1>3
  <2>. QED BY ONLY <2>1, ConcatProperties
<1>6. ASSUME NEW i \in 1 .. k + Len(q)
      PROVE  (h \o q)[i] = IF i < k THEN p[i] ELSE IF i = k THEN l[1] ELSE q[i - k]
  <2>1. CASE i <= k
    <3>1. i \in 1 .. k BY <2>1
    <3>2. (h \o q)[i] = h[i] BY <1>4, <1>5, <2>1
    <3>. QED BY <1>4, <2>1, <3>1, <3>2
  <2>2. CASE ~(i <= k)
    <3>1. (h \o q)[i] = q[i - k] BY <1>4, <1>5, <2>2
    <3>. QED BY <2>2, <3>1
  <2>. QED BY <2>1, <2>2
<1>. QED BY <1>2, <1>4, <1>5, <1>6

(* The texts of a body are put into a detail that has none.                  *)
LEMMA FilledIs ==
  ASSUME NEW d \in Detail, d.loop = << >>, d.post = << >>, NEW s \in Seq(Item), NEW e,
         e = Filled(d, BodyText(s))
  PROVE  /\ e \in Detail /\ e.name = d.name /\ e.method = d.method /\ e.size = d.size
         /\ e.inInit = d.inInit /\ e.isFor = d.isFor /\ e.hasAddress = d.hasAddress
         /\ e.loopVar = d.loopVar
         /\ e.pre = BodyText(s).pre /\ e.loop = BodyText(s).loop
         /\ e.post = BodyText(s).post
<1>1. e \in Detail /\ e.name = d.name BY FilledType
<1>2. PICK text : text = BodyText(s) OBVIOUS
<1>3. PICK l : l = IF text.loop = << >> THEN d.loop ELSE text.loop OBVIOUS
<1>4. PICK p : p = IF text.post = << >> THEN d.post ELSE text.post OBVIOUS
<1>5. e = [d EXCEPT !.pre = text.pre, !.loop = l, !.post = p]
  BY <1>2, <1>3, <1>4 DEF Filled, Detail
<1>6. l = text.loop /\ p = text.post BY <1>3, <1>4
<1>7. /\ e.method = d.method /\ e.size = d.size
      /\ e.inInit = d.inInit /\ e.isFor = d.isFor /\ e.hasAddress = d.hasAddress
      /\ e.loopVar = d.loopVar
      /\ e.pre = text.pre /\ e.loop = l /\ e.post = p
  BY <1>5 DEF Detail
<1>. QED BY <1>1, <1>2, <1>6, <1>7

(* What is written for a closed if, by the list loops in its block.            *)
LEMMA ClosedNoLoop ==
  ASSUME FixedTypeOK, Framed, NEW d \in Detail, NEW b \in Seq(Item),
         Texts(b, d.name), Records(d, b), ~AllNone(b),
         \A i \in 1 .. Len(b) : b[i].loop = 0
  PROVE  Written(Filled(d, BodyText(b))) = Expected(d.name)
<1>1. d.name \in Name BY DEF Detail
<1>2. PICK n : n = d.name OBVIOUS
<1>3. source[n] \in Seq(Steps) /\ n \in Name BY <1>1, <1>2 DEF Framed
<1>4. PICK e : e = Filled(d, BodyText(b)) OBVIOUS
<1>5. /\ e \in Detail /\ e.method = d.method
      /\ e.pre = b /\ e.loop = << >> /\ e.post = << >>
  BY <1>4, FilledIs, BodyNoLoop DEF Records
<1>6. PICK w : w = RunAll(e, b, FALSE) OBVIOUS
<1>7. /\ w \in Seq(Executions) /\ Len(w) = Len(b)
      /\ \A i \in 1 .. Len(b) : w[i] = Runs(e, b[i], FALSE)
  BY <1>5, <1>6, RunAllIs
<1>8. RunAll(e, << >>, FALSE) = << >> /\ RunAll(e, << >>, TRUE) = << >>
  <2>1. Len(<< >>) = 0 BY EmptySeq
  <2>2. << >> \in Seq(Item) OBVIOUS
  <2>3. PICK x : x = RunAll(e, << >>, FALSE) OBVIOUS
  <2>4. PICK y : y = RunAll(e, << >>, TRUE) OBVIOUS
  <2>5. x \in Seq(Executions) /\ Len(x) = 0 /\ y \in Seq(Executions) /\ Len(y) = 0
    BY <1>5, <2>1, <2>2, <2>3, <2>4, RunAllIs
  <2>. QED BY <2>3, <2>4, <2>5, EmptySeq
<1>9. w \o << >> = w /\ (w \o << >>) \o << >> = w BY <1>7, ConcatEmptySeq
<1>10. d.method = "list" \/ d.method = "scalar" BY DEF Records
<1>11. Written(e) = w
  <2>1. CASE e.method = "scalar" BY <1>5, <1>6, <1>8, <1>9, <2>1 DEF Written
  <2>2. CASE e.method = "list"
    <3>1. e.isFor \in BOOLEAN BY <1>5 DEF Detail
    <3>2. CASE e.isFor BY <1>5, <1>6, <1>8, <1>9, <2>2, <3>2 DEF Written
    <3>3. CASE ~e.isFor BY <1>5, <1>6, <1>8, <1>9, <2>2, <3>3 DEF Written
    <3>. QED BY <3>1, <3>2, <3>3
  <2>. QED BY <1>5, <1>10, <2>1, <2>2
<1>12. /\ Expected(n) \in Seq(Executions) /\ Len(Expected(n)) = Len(b)
       /\ \A i \in 1 .. Len(b) : Expected(n)[i] = Does(source[n][i], n)
  BY <1>2, <1>3, ExpectedIs DEF Texts
<1>13. ASSUME NEW i \in 1 .. Len(b) PROVE w[i] = Expected(n)[i]
  <2>1. TextOf(b[i], source[n][i], n) BY <1>2 DEF Texts
  <2>2. Beside(b[i]) BY <2>1 DEF TextOf, Beside
  <2>3. Runs(e, b[i], FALSE) = Does(source[n][i], n) BY ONLY <2>1, <2>2, TextRuns
  <2>. QED BY <1>7, <1>12, <2>3
<1>14. w = Expected(n) BY <1>7, <1>12, <1>13, SeqEqual
<1>. QED BY <1>2, <1>4, <1>11, <1>14

(* With one loop: an index loop is written as it is, a range loop in the    *)
(* loop that get_bs_rewritten writes, and its marks let it be written.      *)
LEMMA ClosedOneLoop ==
  ASSUME FixedTypeOK, Framed, NEW d \in Detail, NEW b \in Seq(Item),
         Texts(b, d.name), Records(d, b),
         NEW k \in 1 .. Len(b), b[k].loop # 0
  PROVE  Written(Filled(d, BodyText(b))) = Expected(d.name)
<1>1. d.name \in Name BY DEF Detail
<1>2. PICK n : n = d.name OBVIOUS
<1>3. source[n] \in Seq(Steps) /\ n \in Name BY <1>1, <1>2 DEF Framed
<1>4. Len(b) \in Nat /\ k \in Nat /\ 1 <= k /\ k <= Len(b) BY LenProperties
<1>5. \A i \in 1 .. Len(b) : b[i].loop # 0 => i = k BY DEF Records
<1>6. PICK e : e = Filled(d, BodyText(b)) OBVIOUS
<1>7. /\ e \in Detail /\ e.method = d.method /\ e.size = d.size
      /\ e.isFor = d.isFor /\ e.hasAddress = d.hasAddress /\ e.loopVar = d.loopVar
      /\ e.pre = BodyText(b).pre /\ e.loop = BodyText(b).loop
      /\ e.post = BodyText(b).post
  BY <1>6, FilledIs DEF Records
<1>8. /\ e.pre \in Seq(Item) /\ Len(e.pre) = k - 1
      /\ \A i \in 1 .. k - 1 : e.pre[i] = b[i]
      /\ e.loop \in Seq(Item) /\ Len(e.loop) = 1 /\ e.loop[1] = b[k]
      /\ e.post \in Seq(Item) /\ Len(e.post) = Len(b) - k
      /\ \A i \in 1 .. Len(b) - k : e.post[i] = b[k + i]
  BY <1>5, <1>7, BodyOneLoop
<1>9. TextOf(b[k], source[n][k], n) BY <1>2 DEF Texts
<1>10. b[k].access \in {"elem", "loopVar"} BY <1>9 DEF TextOf
<1>11. /\ b[k].access = "loopVar" => e.isFor
       /\ b[k].access = "elem" =>
            ~e.isFor /\ ~e.size /\ ~e.hasAddress /\ e.loopVar = b[k].loop
  BY <1>7 DEF Records
<1>12. e.method = "list"
  <2>1. ~AllNone(b) BY <1>10 DEF AllNone
  <2>2. d.name \in listNames BY DEF Records
  <2>. QED BY <1>7, <2>1, <2>2 DEF Records
<1>13. PICK inIdx \in BOOLEAN : inIdx <=> b[k].access = "elem"
  <2>1. CASE b[k].access = "elem" BY <2>1
  <2>2. CASE b[k].access # "elem" BY <2>2
  <2>. QED BY <2>1, <2>2
<1>14. PICK p : p = RunAll(e, e.pre, FALSE) OBVIOUS
<1>15. PICK l : l = RunAll(e, e.loop, inIdx) OBVIOUS
<1>16. PICK q : q = RunAll(e, e.post, FALSE) OBVIOUS
<1>17. Written(e) = p \o l \o q
  <2>1. CASE inIdx
    <3>1. inIdx = TRUE BY <2>1
    <3>2. ~e.isFor /\ ~e.size /\ ~e.hasAddress BY <1>11, <1>13, <2>1
    <3>. QED BY <1>12, <1>14, <1>15, <1>16, <3>1, <3>2 DEF Written
  <2>2. CASE ~inIdx
    <3>1. inIdx = FALSE BY <1>13, <2>2
    <3>2. e.isFor BY <1>10, <1>11, <1>13, <2>2
    <3>. QED BY <1>12, <1>14, <1>15, <1>16, <3>1, <3>2 DEF Written
  <2>. QED BY <2>1, <2>2
<1>18. /\ p \in Seq(Executions) /\ Len(p) = k - 1
       /\ \A i \in 1 .. k - 1 : p[i] = Runs(e, e.pre[i], FALSE)
  BY <1>7, <1>8, <1>14, RunAllIs
<1>19. /\ l \in Seq(Executions) /\ Len(l) = 1 /\ l[1] = Runs(e, b[k], inIdx)
  <2>1. e \in Detail /\ e.loop \in Seq(Item) /\ inIdx \in BOOLEAN BY <1>7, <1>8, <1>13
  <2>2. /\ l \in Seq(Executions) /\ Len(l) = Len(e.loop)
        /\ \A i \in 1 .. Len(e.loop) : l[i] = Runs(e, e.loop[i], inIdx)
    BY ONLY <1>15, <2>1, RunAllIs
  <2>3. Len(e.loop) = 1 /\ 1 \in 1 .. 1 BY <1>8
  <2>. QED BY <1>8, <2>2, <2>3
<1>20. /\ q \in Seq(Executions) /\ Len(q) = Len(b) - k
       /\ \A i \in 1 .. Len(b) - k : q[i] = Runs(e, e.post[i], FALSE)
  BY <1>7, <1>8, <1>16, RunAllIs
<1>21. PICK w : w = p \o l \o q OBVIOUS
<1>22. /\ w \in Seq(Executions) /\ Len(w) = k + Len(q)
       /\ \A i \in 1 .. k + Len(q) :
            w[i] = IF i < k THEN p[i] ELSE IF i = k THEN l[1] ELSE q[i - k]
  <2>1. /\ p \in Seq(Executions) /\ l \in Seq(Executions) /\ q \in Seq(Executions)
        /\ k \in Nat /\ Len(p) = k - 1 /\ Len(l) = 1
    BY <1>4, <1>18, <1>19, <1>20
  <2>. QED BY ONLY <1>21, <2>1, JoinedIs
<1>23. k + Len(q) = Len(b) BY <1>4, <1>20
<1>24. /\ Expected(n) \in Seq(Executions) /\ Len(Expected(n)) = Len(b)
       /\ \A i \in 1 .. Len(b) : Expected(n)[i] = Does(source[n][i], n)
  BY <1>2, <1>3, ExpectedIs DEF Texts
<1>25. ASSUME NEW i \in 1 .. Len(b), i # k
       PROVE  Runs(e, b[i], FALSE) = Does(source[n][i], n)
  <2>1. TextOf(b[i], source[n][i], n) /\ b[i].loop = 0 BY <1>2, <1>5, <1>25 DEF Texts
  <2>2. Beside(b[i]) BY <2>1 DEF TextOf, Beside
  <2>. QED BY ONLY <2>1, <2>2, TextRuns
<1>26. Runs(e, b[k], inIdx) = Does(source[n][k], n)
  <2>1. CASE inIdx
    <3>1. inIdx = TRUE /\ InElem(e, b[k]) BY <1>11, <1>13, <2>1 DEF InElem
    <3>2. Runs(e, b[k], TRUE) = Does(source[n][k], n) BY ONLY <1>9, <3>1, TextRuns
    <3>. QED BY <3>1, <3>2
  <2>2. CASE ~inIdx
    <3>1. inIdx = FALSE /\ Beside(b[k]) BY <1>13, <2>2 DEF Beside
    <3>2. Runs(e, b[k], FALSE) = Does(source[n][k], n) BY ONLY <1>9, <3>1, TextRuns
    <3>. QED BY <3>1, <3>2
  <2>. QED BY <2>1, <2>2
<1>27. ASSUME NEW i \in 1 .. Len(b) PROVE w[i] = Expected(n)[i]
  <2>1. i \in 1 .. k + Len(q) BY <1>23
  <2>2. CASE i < k
    <3>1. i \in 1 .. k - 1 /\ i # k BY <1>4, <2>2
    <3>2. w[i] = Runs(e, b[i], FALSE) BY <1>8, <1>18, <1>22, <2>1, <2>2, <3>1
    <3>. QED BY <1>24, <1>25, <3>1, <3>2
  <2>3. CASE i = k
    <3>1. w[i] = Runs(e, b[k], inIdx) BY <1>19, <1>22, <2>1, <2>3
    <3>. QED BY <1>24, <1>26, <2>3, <3>1
  <2>4. CASE i > k
    <3>1. PICK j : j = i - k OBVIOUS
    <3>2. j \in 1 .. Len(b) - k /\ k + j = i /\ i # k BY <1>4, <2>4, <3>1
    <3>3. w[i] = q[j] BY <1>4, <1>22, <2>1, <2>4, <3>1
    <3>4. w[i] = Runs(e, b[i], FALSE) BY <1>8, <1>20, <3>2, <3>3
    <3>. QED BY <1>24, <1>25, <3>2, <3>4
  <2>. QED BY <1>4, <2>2, <2>3, <2>4
<1>28. w = Expected(n) BY <1>22, <1>23, <1>24, <1>27, SeqEqual
<1>. QED BY <1>2, <1>6, <1>17, <1>21, <1>28

(* The text that is written for a detail does what the source does with its   *)
(* name, once the if whose block it has recorded is closed.                   *)
LEMMA ClosedIs ==
  ASSUME FixedTypeOK, Framed, NEW d \in Detail, NEW b \in Seq(Item),
         Texts(b, d.name), Records(d, b), ~AllNone(b)
  PROVE  Written(Filled(d, BodyText(b))) = Expected(d.name)
<1>1. CASE \A i \in 1 .. Len(b) : b[i].loop = 0 BY <1>1, ClosedNoLoop
<1>2. CASE \E i \in 1 .. Len(b) : b[i].loop # 0 BY <1>2, ClosedOneLoop
<1>. QED BY <1>1, <1>2

-----------------------------------------------------------------------------
(* What the details record                                                 *)

Silent(item) == item.access = "none"

(* What an item adds to a block.                                            *)
LEMMA BlockAppend ==
  ASSUME NEW b \in Seq(Item), NEW e \in Item, NEW c, c = Append(b, e)
  PROVE  /\ Len(b) \in Nat /\ c \in Seq(Item) /\ Len(c) = Len(b) + 1
         /\ 1 .. Len(c) = (1 .. Len(b)) \cup {Len(c)}
         /\ \A i \in 1 .. Len(b) : c[i] = b[i]
         /\ \A i \in 1 .. Len(b) : i \in 1 .. Len(c) /\ i # Len(c)
         /\ c[Len(c)] = e
<1>1. Len(b) \in Nat BY LenProperties
<1>2. /\ c \in Seq(Item) /\ Len(c) = Len(b) + 1
      /\ \A k \in 1 .. Len(b) + 1 : c[k] = IF k = Len(b) + 1 THEN e ELSE b[k]
  BY AppendedIs
<1>3. 1 .. Len(c) = (1 .. Len(b)) \cup {Len(c)} BY <1>1, <1>2
<1>4. /\ \A i \in 1 .. Len(b) : c[i] = b[i]
      /\ \A i \in 1 .. Len(b) : i \in 1 .. Len(c) /\ i # Len(c)
      /\ c[Len(c)] = e
  BY <1>1, <1>2
<1>. QED BY <1>1, <1>2, <1>3, <1>4

(* The parts of Records.                                                    *)
Empty(d) == d.pre = << >> /\ d.loop = << >> /\ d.post = << >>
MethodFits(d, block) ==
  d.method = IF AllNone(block) THEN "none"
             ELSE IF d.name \in listNames THEN "list" ELSE "scalar"
SizeFits(d, block) ==
  d.size => \E i \in 1 .. Len(block) : block[i].access \in {"size", "loopVar"}
AddressFits(d, block) ==
  d.hasAddress => \E i \in 1 .. Len(block) : block[i].access = "list"
OneLoop(block) ==
  \A i, j \in 1 .. Len(block) : block[i].loop # 0 /\ block[j].loop # 0 => i = j
LoopFits(d, item) ==
  /\ item.loop # 0 => d.name \in listNames
  /\ item.access = "loopVar" => d.isFor
  /\ item.access = "elem" =>
       ~d.isFor /\ ~d.size /\ ~d.hasAddress /\ d.loopVar = item.loop

LoopsFit(d, block) == \A i \in 1 .. Len(block) : LoopFits(d, block[i])

(* Records is the conjunction of its parts.                                 *)
LEMMA RecordsParts ==
  ASSUME NEW d, NEW block
  PROVE  Records(d, block) <=>
           /\ Empty(d) /\ MethodFits(d, block) /\ SizeFits(d, block)
           /\ AddressFits(d, block) /\ OneLoop(block)
           /\ LoopsFit(d, block)
BY DEF LoopsFit, Records, Empty, MethodFits, SizeFits, AddressFits, OneLoop, LoopFits

(* A loop in a block is a loop's text.                                      *)
Looping(block) ==
  \A i \in 1 .. Len(block) : block[i].access \in {"elem", "loopVar"} => block[i].loop # 0

(* What an item adds to the loops of a block.                               *)
LEMMA LoopsAppend ==
  ASSUME NEW b \in Seq(Item), NEW e \in Item, NEW c, c = Append(b, e), NEW f,
         LoopsFit(f, b), LoopFits(f, e),
         OneLoop(b), e.loop = 0 \/ \A i \in 1 .. Len(b) : b[i].loop = 0
  PROVE  OneLoop(c) /\ LoopsFit(f, c)
<1>1. /\ 1 .. Len(c) = (1 .. Len(b)) \cup {Len(c)}
      /\ \A i \in 1 .. Len(b) : c[i] = b[i]
      /\ c[Len(c)] = e
  BY BlockAppend
<1>2. LoopsFit(f, c)
  <2>. SUFFICES ASSUME NEW i \in 1 .. Len(c) PROVE LoopFits(f, c[i]) BY DEF LoopsFit
  <2>1. CASE i \in 1 .. Len(b) BY <1>1, <2>1 DEF LoopsFit
  <2>2. CASE i = Len(c) BY <1>1, <2>2
  <2>. QED BY <1>1, <2>1, <2>2
<1>3. OneLoop(c)
  <2>. SUFFICES ASSUME NEW i \in 1 .. Len(c), NEW j \in 1 .. Len(c),
                       c[i].loop # 0, c[j].loop # 0
                PROVE  i = j
    BY DEF OneLoop
  <2>1. CASE i \in 1 .. Len(b) /\ j \in 1 .. Len(b) BY <1>1, <2>1 DEF OneLoop
  <2>2. CASE i \in 1 .. Len(b) /\ j = Len(c) BY <1>1, <2>2
  <2>3. CASE i = Len(c) /\ j \in 1 .. Len(b) BY <1>1, <2>3
  <2>. QED BY <1>1, <2>1, <2>2, <2>3
<1>. QED BY <1>2, <1>3

(* A statement that reads nothing.                                          *)
LEMMA RecordsPlain ==
  ASSUME NEW b \in Seq(Item), NEW e \in Item, NEW c, c = Append(b, e), NEW d \in Detail,
         Records(d, b), e.access = "none", e.loop = 0
  PROVE  Records(d, c)
<1>1. /\ Empty(d) /\ MethodFits(d, b) /\ SizeFits(d, b) /\ AddressFits(d, b) /\ OneLoop(b)
      /\ LoopsFit(d, b)
  BY RecordsParts
<1>2. /\ \A i \in 1 .. Len(b) : c[i] = b[i] /\ i \in 1 .. Len(c)
      /\ AllNone(c) <=> AllNone(b)
  <2>1. Silent(e) BY DEF Silent
  <2>2. /\ \A i \in 1 .. Len(b) : c[i] = b[i]
        /\ \A i \in 1 .. Len(b) : i \in 1 .. Len(c) /\ i # Len(c)
    BY BlockAppend
  <2>3. AllNone(c) <=> AllNone(b) /\ Silent(e) BY AllNoneAppend DEF Silent
  <2>. QED BY <2>1, <2>2, <2>3
<1>3. LoopFits(d, e) BY DEF LoopFits
<1>4. OneLoop(c) /\ LoopsFit(d, c) BY <1>1, <1>3, LoopsAppend
<1>5. MethodFits(d, c) BY <1>1, <1>2 DEF MethodFits
<1>6. SizeFits(d, c) BY <1>1, <1>2 DEF SizeFits
<1>7. AddressFits(d, c) BY <1>1, <1>2 DEF AddressFits
<1>. QED BY <1>1, <1>4, <1>5, <1>6, <1>7, RecordsParts

(* A read of a value, of a list or of its size.                              *)
LEMMA RecordsRead ==
  ASSUME NEW b \in Seq(Item), NEW e \in Item, NEW c, c = Append(b, e), NEW d \in Detail,
         Records(d, b), NEW access, access \in {"value", "size", "list"},
         e.access = access, e.loop = 0,
         access = "value" <=> d.name \notin listNames,
         access # "value" => \A i \in 1 .. Len(b) : b[i].access # "elem",
         NEW f, f = AfterRead(d, access)
  PROVE  Records(f, c)
<1>1. /\ Empty(d) /\ MethodFits(d, b) /\ SizeFits(d, b) /\ AddressFits(d, b) /\ OneLoop(b)
      /\ LoopsFit(d, b)
  BY RecordsParts
<1>2. /\ \A i \in 1 .. Len(b) : c[i] = b[i] /\ i \in 1 .. Len(c)
      /\ ~AllNone(c)
      /\ Len(c) \in 1 .. Len(c) /\ c[Len(c)] = e
  <2>1. ~Silent(e) BY DEF Silent
  <2>2. /\ 1 .. Len(c) = (1 .. Len(b)) \cup {Len(c)}
        /\ \A i \in 1 .. Len(b) : c[i] = b[i]
        /\ \A i \in 1 .. Len(b) : i \in 1 .. Len(c) /\ i # Len(c)
        /\ c[Len(c)] = e
    BY BlockAppend
  <2>3. AllNone(c) <=> AllNone(b) /\ Silent(e) BY AllNoneAppend DEF Silent
  <2>. QED BY <2>1, <2>2, <2>3
<1>3. /\ f.name = d.name /\ f.pre = d.pre /\ f.loop = d.loop /\ f.post = d.post
      /\ f.isFor = d.isFor /\ f.loopVar = d.loopVar
      /\ f.method = IF access = "value" THEN "scalar" ELSE "list"
      /\ access # "size" => f.size = d.size
      /\ access # "list" => f.hasAddress = d.hasAddress
  BY DEF AfterRead, Detail
<1>4. LoopFits(f, e) BY DEF LoopFits
<1>5. LoopsFit(f, b)
  <2>1. CASE access = "value" BY <1>1, <1>3, <2>1 DEF LoopsFit, LoopFits
  <2>2. CASE access # "value" BY <1>1, <1>3, <2>2 DEF LoopsFit, LoopFits
  <2>. QED BY <2>1, <2>2
<1>6. OneLoop(c) /\ LoopsFit(f, c) BY <1>1, <1>4, <1>5, LoopsAppend
<1>7. MethodFits(f, c) BY <1>2, <1>3 DEF MethodFits
<1>8. SizeFits(f, c)
  <2>1. CASE access = "size" BY <1>2, <2>1 DEF SizeFits
  <2>2. CASE access # "size" BY <1>1, <1>2, <1>3, <2>2 DEF SizeFits
  <2>. QED BY <2>1, <2>2
<1>9. AddressFits(f, c)
  <2>1. CASE access = "list" BY <1>2, <2>1 DEF AddressFits
  <2>2. CASE access # "list" BY ONLY <1>1, <1>2, <1>3, <2>2 DEF AddressFits
  <2>. QED BY <2>1, <2>2
<1>10. Empty(f) BY ONLY <1>1, <1>3 DEF Empty
<1>. QED BY <1>6, <1>7, <1>8, <1>9, <1>10, RecordsParts

(* A loop over the list, the first in the block.                             *)
LEMMA RecordsLoop ==
  ASSUME FixedTypeOK, Framed,
         NEW b \in Seq(Item), NEW e \in Item, NEW c, c = Append(b, e), NEW d \in Detail,
         Records(d, b), Looping(b), \A i \in 1 .. Len(b) : b[i].loop = 0,
         NEW kind, kind \in {"range", "for"}, e.loop = Id,
         e.access = IF kind = "range" THEN "elem" ELSE "loopVar",
         d.name \in listNames,
         kind = "range" => \A i \in 1 .. Len(b) : b[i].access \notin {"size", "list"},
         NEW f, f = AfterLoop(d, kind)
  PROVE  Records(f, c)
<1>1. /\ Empty(d) /\ MethodFits(d, b) /\ SizeFits(d, b) /\ AddressFits(d, b) /\ OneLoop(b)
      /\ LoopsFit(d, b)
  BY RecordsParts
<1>2. /\ \A i \in 1 .. Len(b) : c[i] = b[i] /\ i \in 1 .. Len(c)
      /\ ~AllNone(c)
      /\ Len(c) \in 1 .. Len(c) /\ c[Len(c)] = e
  <2>1. ~Silent(e) BY DEF Silent
  <2>2. /\ 1 .. Len(c) = (1 .. Len(b)) \cup {Len(c)}
        /\ \A i \in 1 .. Len(b) : c[i] = b[i]
        /\ \A i \in 1 .. Len(b) : i \in 1 .. Len(c) /\ i # Len(c)
        /\ c[Len(c)] = e
    BY BlockAppend
  <2>3. AllNone(c) <=> AllNone(b) /\ Silent(e) BY AllNoneAppend DEF Silent
  <2>. QED BY <2>1, <2>2, <2>3
<1>3. \A i \in 1 .. Len(b) : b[i].access \notin {"elem", "loopVar"} BY DEF Looping
<1>4. /\ f.name = d.name /\ f.pre = d.pre /\ f.loop = d.loop /\ f.post = d.post
      /\ f.method = "list" /\ f.hasAddress = d.hasAddress
      /\ kind = "range" => ~f.isFor /\ f.size = d.size /\ f.loopVar = Id
      /\ kind # "range" => f.isFor
  BY DEF AfterLoop, Detail
<1>5. kind = "range" => ~d.size /\ ~d.hasAddress
  BY <1>1, <1>3 DEF SizeFits, AddressFits
<1>6. LoopFits(f, e)
  <2>1. CASE kind = "range" BY <1>4, <1>5, <2>1 DEF LoopFits
  <2>2. CASE kind # "range" BY <1>4, <2>2 DEF LoopFits
  <2>. QED BY <2>1, <2>2
<1>7. LoopsFit(f, b) BY <1>1, <1>3, <1>4 DEF LoopsFit, LoopFits
<1>8. OneLoop(c) /\ LoopsFit(f, c) BY <1>1, <1>6, <1>7, LoopsAppend
<1>9. MethodFits(f, c) BY <1>2, <1>4 DEF MethodFits
<1>10. SizeFits(f, c)
  <2>1. CASE kind = "range" BY <1>4, <1>5, <2>1 DEF SizeFits
  <2>2. CASE kind # "range" BY <1>2, <2>2 DEF SizeFits
  <2>. QED BY <2>1, <2>2
<1>11. AddressFits(f, c) BY <1>1, <1>2, <1>4 DEF AddressFits
<1>12. Empty(f) BY <1>1, <1>4 DEF Empty
<1>. QED BY <1>8, <1>9, <1>10, <1>11, <1>12, RecordsParts

-----------------------------------------------------------------------------
(* What the blocks do                                                      *)

(* What the source does with a name depends on the steps for it alone.        *)
LEMMA ExpectedSame ==
  ASSUME NEW n, source'[n] = source[n]
  PROVE  Expected(n)' = Expected(n)
BY DEF Expected

(* A statement of the source and the item of the block that stands for it.    *)
Fits(access, reading, number) ==
  \/ access = "none" /\ reading = "none" /\ number = 0
  \/ access \in {"value", "size", "list"} /\ reading = access /\ number = 0
  \/ access \in {"elem", "loopVar"} /\ reading = "each" /\ number = Id

Aligned(b, s, n) ==
  Len(b) = Len(s) /\ \A i \in 1 .. Len(b) : TextOf(b[i], s[i], n)

StepOf(reading, number) == [id |-> Id, reads |-> reading, loop |-> number]

(* A statement of the source and its item, added to both, keep them aligned.*)
LEMMA TextsGrow ==
  ASSUME FixedTypeOK, Framed, NEW access \in Access, NEW number \in Nat, NEW reading,
         details # << >>, Fits(access, reading, number),
         NEW b \in Seq(Item), NEW s \in Seq(Steps), NEW n, n = Latest.name,
         Aligned(b, s, n),
         NEW c, c = Append(b, ItemOf(access, number)),
         NEW t, t = Append(s, StepOf(reading, number))
  PROVE  Aligned(c, t, n)
<1>1. Id \in Nat /\ Id # 0 /\ ItemOf(access, number) \in Item BY WithItemIs
<1>2. PICK e : e = ItemOf(access, number) OBVIOUS
<1>3. PICK x : x = StepOf(reading, number) OBVIOUS
<1>4. reading \in {"none", "value", "size", "list", "each"} BY DEF Fits
<1>5. x \in Steps BY <1>1, <1>3, <1>4 DEF StepOf, Steps
<1>6. Len(b) \in Nat BY LenProperties
<1>7. /\ Len(c) = Len(b) + 1
      /\ \A k \in 1 .. Len(b) + 1 : c[k] = IF k = Len(b) + 1 THEN e ELSE b[k]
  BY <1>1, <1>2, AppendedIs
<1>8. /\ Len(t) = Len(s) + 1
      /\ \A k \in 1 .. Len(s) + 1 : t[k] = IF k = Len(s) + 1 THEN x ELSE s[k]
  BY <1>3, <1>5, AppendedIs DEF Aligned
<1>9. TextOf(e, x, n)
  <2>1. e.id = Id /\ e.access = access /\ e.loop = number
        /\ e.name = IF access = "none" THEN None ELSE n
    BY <1>2 DEF ItemOf
  <2>2. x.id = Id /\ x.reads = reading /\ x.loop = number BY <1>3 DEF StepOf
  <2>. QED BY <1>1, <2>1, <2>2 DEF Fits, TextOf
<1>10. Len(b) = Len(s) /\ \A i \in 1 .. Len(b) : TextOf(b[i], s[i], n) BY DEF Aligned
<1>11. ASSUME NEW i \in 1 .. Len(c) PROVE TextOf(c[i], t[i], n)
  <2>1. i \in 1 .. Len(b) + 1 BY <1>7
  <2>2. CASE i = Len(b) + 1 BY <1>10, <1>7, <1>8, <1>9, <2>1, <2>2
  <2>3. CASE i # Len(b) + 1
    <3>1. i \in 1 .. Len(b) BY <1>6, <2>1, <2>3
    <3>2. c[i] = b[i] /\ t[i] = s[i] BY <1>10, <1>7, <1>8, <2>1, <2>3
    <3>. QED BY <1>10, <3>1, <3>2
  <2>. QED BY <2>2, <2>3
<1>. QED BY <1>10, <1>7, <1>8, <1>11 DEF Aligned

(* A statement in the if that stands in the loop.                            *)
LEMMA ItemKept ==
  ASSUME FixedTypeOK, Framed, Flat, Untested, Closed, Open, Here.kind = "if",
         NEW access \in Access, NEW number \in Nat,
         NEW reading, Fits(access, reading, number),
         stack' = WithItem(access, number), Executed(reading, number),
         NEW d \in Detail, d.name = Latest.name, Latest' = d,
         Len(details') = Len(details), Names(details') = Names(details),
         \A i \in 1 .. Len(details) : i < Len(details) => details'[i] = details[i],
         listNames' = listNames,
         Records(d, Append(Here.block, ItemOf(access, number)))
  PROVE  Flat' /\ Untested' /\ Closed' /\ Open'
<1>1. details # << >> BY HereIs
<1>2. Len(details) \in Nat /\ Len(details) # 0 /\ Latest.name \in Name BY <1>1, LatestIs
<1>3. Top \in Nat /\ Top >= 1 /\ Here \in Frame BY HereIs
<1>4. Top = 2
  <2>1. Top # 1 BY <1>3 DEF Framed, Here
  <2>. QED BY <1>3, <2>1 DEF Flat
<1>5. /\ Top' = Top /\ Here'.kind = Here.kind /\ Here'.path = Here.path
      /\ Here'.block = Append(Here.block, ItemOf(access, number))
  BY <1>1, WithItemHere
<1>6. Here.path = {Latest.name} BY DEF Flat, OwnPath
<1>7. Flat'
  <2>1. OwnPath' BY <1>5, <1>6 DEF OwnPath
  <2>2. Top' <= 2 /\ Here'.kind # "plain" BY <1>4, <1>5
  <2>. QED BY <2>1, <2>2 DEF Flat
<1>8. reading \in {"none", "value", "size", "list", "first", "each", "other"}
  BY DEF Fits
<1>9. /\ source' \in [Name -> Seq(Steps)]
      /\ \A n \in Name \ Here.path : source'[n] = source[n]
      /\ \A n \in Name \intersect Here.path :
           source'[n] = Append(source[n], [id |-> Id, reads |-> reading, loop |-> number])
  BY <1>8, ExecutedIs
<1>10. PICK last : last = Latest.name OBVIOUS
<1>11. \A n \in Name : n # last => source'[n] = source[n] BY <1>6, <1>9, <1>10
<1>12. source'[last] = Append(source[last], [id |-> Id, reads |-> reading, loop |-> number])
  BY <1>2, <1>6, <1>9, <1>10
<1>13. last \in Names(details)
  <2>1. Len(details) \in 1 .. Len(details) BY <1>2
  <2>. QED BY <1>10, <2>1 DEF Names, Latest
<1>14. Untested'
  <2>. SUFFICES ASSUME NEW n \in Name \ Names(details') PROVE source'[n] = << >>
    BY DEF Untested
  <2>1. n \notin Names(details) /\ n # last BY <1>13
  <2>2. source[n] = << >> BY <2>1 DEF Untested
  <2>. QED BY <1>11, <2>1, <2>2
<1>15. Closed'
  <2>. SUFFICES ASSUME NEW i \in 1 .. Len(details), i < Len(details)
                PROVE  (Written(details[i]) = Expected(details[i].name))'
    <3>1. \A i \in 1 .. Len(details') :
            i < Len(details') \/ Top' = 1 => i \in 1 .. Len(details) /\ i < Len(details)
      BY <1>4, <1>5
    <3>. QED BY <3>1 DEF Closed
  <2>1. details'[i] = details[i] OBVIOUS
  <2>2. Written(details[i]) = Expected(details[i].name) BY DEF Closed
  <2>3. PICK n : n = details[i].name OBVIOUS
  <2>4. n \in Name
    <3>1. details \in Seq(Detail) BY DEF FixedTypeOK
    <3>2. details[i] \in Detail BY <3>1, ElementOfSeq
    <3>. QED BY <2>3, <3>2 DEF Detail
  <2>5. n # last
    <3>1. Len(details) \in 1 .. Len(details) /\ i # Len(details) BY <1>2
    <3>. QED BY <1>10, <2>3, <3>1 DEF FixedTypeOK, Latest
  <2>6. source'[n] = source[n] BY <1>11, <2>4, <2>5
  <2>7. Expected(n)' = Expected(n) BY <2>6, ExpectedSame
  <2>8. details'[i].name = n BY <2>1, <2>3
  <2>9. Expected(details[i].name)' = Expected(n)' BY <2>8 DEF Expected
  <2>. QED BY <2>1, <2>2, <2>3, <2>7, <2>9
<1>16. PICK b : b = Here.block OBVIOUS
<1>17. b \in Seq(Item) BY <1>3, <1>16 DEF Frame
<1>18. PICK c : c = Append(b, ItemOf(access, number)) OBVIOUS
<1>19. Here'.block = c BY <1>5, <1>16, <1>18
<1>20. Texts(b, last) BY <1>4, <1>10, <1>16 DEF Open
<1>21. source[last] \in Seq(Steps) BY <1>2, <1>10 DEF Framed
<1>22. Len(c) = Len(source'[last]) /\ \A i \in 1 .. Len(c) : TextOf(c[i], source'[last][i], last)
  <2>1. PICK s : s = source[last] OBVIOUS
  <2>2. PICK t : t = source'[last] OBVIOUS
  <2>3. /\ s \in Seq(Steps) /\ Aligned(b, s, last)
        /\ t = Append(s, StepOf(reading, number))
    BY <1>12, <1>20, <1>21, <2>1, <2>2 DEF Texts, Aligned, StepOf
  <2>4. Aligned(c, t, last)
    BY ONLY FixedTypeOK, Framed, access \in Access, number \in Nat,
            Fits(access, reading, number), <1>1, <1>10, <1>17, <1>18, <2>3, TextsGrow
  <2>. QED BY <2>2, <2>4 DEF Aligned
<1>23. Texts(Here.block, Latest.name)' BY <1>10, <1>19, <1>22 DEF Texts
<1>24. Records(d, c) BY <1>16, <1>18
<1>25. Records(Latest, Here.block)'
  <2>1. Records(Latest, Here.block)' <=> Records(d, c) BY <1>19 DEF Records
  <2>. QED BY <1>24, <2>1
<1>26. Open' BY <1>23, <1>25 DEF Open
<1>. QED BY <1>7, <1>14, <1>15, <1>26

(* What ItemKept needs of the details when the last one is changed.           *)
LEMMA LastChanged ==
  ASSUME FixedTypeOK, details # << >>, NEW d \in Detail, d.name = Latest.name,
         details' = InLast(d)
  PROVE  /\ Latest' = d /\ Len(details') = Len(details)
         /\ Names(details') = Names(details)
         /\ \A i \in 1 .. Len(details) : i < Len(details) => details'[i] = details[i]
<1>1. /\ Len(InLast(d)) = Len(details)
      /\ \A i \in 1 .. Len(details) :
           InLast(d)[i] = IF i = Len(details) THEN d ELSE details[i]
      /\ Names(InLast(d)) = Names(details)
  BY InLastIs
<1>2. Len(details) \in Nat /\ Len(details) # 0 BY LatestIs
<1>3. Len(details) \in 1 .. Len(details) BY <1>2
<1>4. Latest' = d BY <1>1, <1>3 DEF Latest
<1>. QED BY <1>1, <1>2, <1>4

(* A statement that reads nothing is kept where it stands.                  *)
LEMMA PlainKept ==
  ASSUME FixedTypeOK, Framed, Flat, Untested, Closed, Open, Plain, ~Has(Odd)'
  PROVE  Flat' /\ Untested' /\ Closed' /\ Open'
<1>1. /\ details' = details /\ listNames' = listNames /\ stack' = WithItem("none", 0)
      /\ Executed("none", 0) /\ Here.kind \in {"loop", "plain", "if"}
      /\ Here.kind # "if" => "outside" \in forms'
  BY DEF Plain, input
<1>2. Here.kind = "if" BY <1>1 DEF Has, Odd
<1>3. Latest \in Detail BY <1>2, HereIs, LatestIs
<1>4. PICK access \in Access : access = "none" BY DEF Access
<1>5. Fits(access, access, 0) BY <1>4 DEF Fits
<1>6. PICK e : e = ItemOf(access, 0) OBVIOUS
<1>7. e \in Item /\ e.access = "none" /\ e.loop = 0
  <2>1. e \in Item BY <1>4, <1>6, WithItemIs
  <2>. QED BY <1>4, <1>6, <2>1 DEF ItemOf
<1>8. Top = 2
  <2>1. Top \in Nat /\ Top >= 1 BY HereIs
  <2>2. Top # 1 BY <1>2, <2>1 DEF Framed, Here
  <2>. QED BY <2>1, <2>2 DEF Flat
<1>9. Here.block \in Seq(Item) BY HereIs DEF Frame
<1>10. Records(Latest, Here.block) BY <1>8 DEF Open
<1>11. Records(Latest, Append(Here.block, e)) BY <1>3, <1>7, <1>9, <1>10, RecordsPlain
<1>12. Latest' = Latest BY <1>1 DEF Latest
<1>13. PICK d \in Detail : d = Latest BY <1>3
<1>14. stack' = WithItem(access, 0) /\ Executed(access, 0) BY <1>1, <1>4
<1>15. Records(d, Append(Here.block, ItemOf(access, 0))) BY <1>6, <1>11, <1>13
<1>16. 0 \in Nat /\ d.name = Latest.name /\ Latest' = d BY <1>12, <1>13
<1>. QED BY <1>1, <1>2, <1>5, <1>14, <1>15, <1>16, ItemKept

(* An if that is open and tests a name is the only one.                       *)
LEMMA IfIsSecond ==
  ASSUME FixedTypeOK, Framed, Flat, Open, Here.kind = "if"
  PROVE  /\ Top = 2 /\ details # << >> /\ Latest \in Detail /\ Latest.name \in Name
         /\ Here.block \in Seq(Item) /\ Here.path = {Latest.name}
         /\ Texts(Here.block, Latest.name) /\ Records(Latest, Here.block)
<1>1. details # << >> BY HereIs
<1>2. Top = 2
  <2>1. Top \in Nat /\ Top >= 1 BY HereIs
  <2>2. Top # 1 BY <2>1 DEF Framed, Here
  <2>. QED BY <2>1, <2>2 DEF Flat
<1>3. Here.block \in Seq(Item) BY HereIs DEF Frame
<1>4. Here.path = {Latest.name} BY DEF Flat, OwnPath
<1>. QED BY <1>1, <1>2, <1>3, <1>4, LatestIs DEF Open

(* Texts of loops are marked as such.                                       *)
LEMMA TextsLoop ==
  ASSUME NEW b, NEW n, Texts(b, n)
  PROVE  Looping(b)
BY DEF Texts, TextOf, Looping

(* A read is recorded in the detail of the name that its if tests.          *)
LEMMA ReadKept ==
  ASSUME FixedTypeOK, Framed, Flat, Untested, Closed, Open,
         NEW r \in Reads, Read(r[1], r[2]), ~Has(Odd)'
  PROVE  Flat' /\ Untested' /\ Closed' /\ Open'
<1>1. /\ Here.kind = "if" /\ listNames' = listNames
      /\ IF r[2] = "value" THEN Here.path \cap listNames = {} ELSE Here.path \subseteq listNames
      /\ details' = InLast(AfterRead(Latest, r[2]))
      /\ stack' = WithItem(r[2], 0) /\ Executed(r[1], 0)
      /\ r[2] = "idx" => "first" \in forms'
      /\ r[2] = "size" /\ BlockHas("elem") => "sizeBesideRange" \in forms'
      /\ r[2] = "list" /\ BlockHas("elem") => "addressBesideList" \in forms'
  BY DEF Read, input
<1>2. PICK access : access = r[2] OBVIOUS
<1>3. /\ access # "idx"
      /\ access \in {"size", "list"} => ~BlockHas("elem")
  BY <1>1, <1>2 DEF Has, Odd
<1>4. /\ access \in {"value", "size", "list"} /\ r[1] = access /\ access \in Access
  BY <1>2, <1>3 DEF Reads, Access
<1>5. Fits(access, access, 0) BY <1>4 DEF Fits
<1>6. /\ details # << >> /\ Latest \in Detail /\ Latest.name \in Name
      /\ Here.block \in Seq(Item) /\ Here.path = {Latest.name}
      /\ Records(Latest, Here.block)
  BY <1>1, IfIsSecond
<1>7. PICK e : e = ItemOf(access, 0) OBVIOUS
<1>8. e \in Item /\ e.access = access /\ e.loop = 0
  <2>1. 0 \in Nat OBVIOUS
  <2>2. e \in Item BY <1>4, <1>6, <1>7, <2>1, WithItemIs
  <2>. QED BY <1>7, <2>2 DEF ItemOf
<1>9. PICK d : d = AfterRead(Latest, access) OBVIOUS
<1>10. d \in Detail /\ d.name = Latest.name BY <1>6, <1>9, AfterReadIs
<1>11. access = "value" <=> Latest.name \notin listNames BY <1>1, <1>2, <1>6
<1>12. access # "value" => \A i \in 1 .. Len(Here.block) : Here.block[i].access # "elem"
  BY <1>3, <1>4 DEF BlockHas
<1>13. PICK c : c = Append(Here.block, e) OBVIOUS
<1>14. Records(d, c)
  <2>1. PICK b : b = Here.block OBVIOUS
  <2>2. /\ b \in Seq(Item) /\ c = Append(b, e) /\ Records(Latest, b)
        /\ access # "value" => \A i \in 1 .. Len(b) : b[i].access # "elem"
    BY <1>6, <1>12, <1>13, <2>1
  <2>. QED BY <1>4, <1>6, <1>8, <1>9, <1>11, <2>2, RecordsRead
<1>15. /\ Latest' = d /\ Len(details') = Len(details) /\ Names(details') = Names(details)
       /\ \A i \in 1 .. Len(details) : i < Len(details) => details'[i] = details[i]
  BY <1>1, <1>2, <1>6, <1>9, <1>10, LastChanged
<1>16. /\ stack' = WithItem(access, 0) /\ Executed(access, 0) /\ 0 \in Nat
       /\ Records(d, Append(Here.block, ItemOf(access, 0)))
  BY <1>1, <1>2, <1>4, <1>7, <1>13, <1>14
<1>. QED BY <1>1, <1>4, <1>5, <1>10, <1>15, <1>16, ItemKept

(* So is the one loop over the list.                                        *)
LEMMA ListLoopKept ==
  ASSUME FixedTypeOK, Framed, Flat, Untested, Closed, Open,
         NEW kind, kind \in {"range", "for"},
         NEW reading, reading \in {"each", "other"}, ListLoop(kind, reading), ~Has(Odd)'
  PROVE  Flat' /\ Untested' /\ Closed' /\ Open'
<1>1. /\ Here.kind = "if" /\ listNames' = listNames /\ Here.path \subseteq listNames
      /\ details' = InLast(AfterLoop(Latest, kind))
      /\ stack' = WithItem(IF kind = "range" THEN "elem" ELSE "loopVar", Id)
      /\ Executed(reading, Id)
      /\ reading = "other" => "other" \in forms'
      /\ BlockLoops => "secondList" \in forms'
      /\ kind = "range" /\ BlockHas("size") => "sizeBesideRange" \in forms'
      /\ kind = "range" /\ BlockHas("list") => "addressBesideList" \in forms'
  BY DEF ListLoop, input
<1>2. PICK access : access = IF kind = "range" THEN "elem" ELSE "loopVar" OBVIOUS
<1>3. /\ reading = "each" /\ ~BlockLoops
      /\ kind = "range" => ~BlockHas("size") /\ ~BlockHas("list")
  BY <1>1 DEF Has, Odd
<1>4. access \in Access /\ access # "none" BY <1>2 DEF Access
<1>5. PICK number : number = Id OBVIOUS
<1>6. number \in Nat BY <1>5, LenProperties DEF Id, Framed, FixedTypeOK
<1>7. Fits(access, reading, number) BY <1>2, <1>3, <1>5 DEF Fits
<1>8. /\ details # << >> /\ Latest \in Detail /\ Latest.name \in Name
      /\ Here.block \in Seq(Item) /\ Here.path = {Latest.name}
      /\ Records(Latest, Here.block) /\ Texts(Here.block, Latest.name)
  BY <1>1, IfIsSecond
<1>9. PICK e : e = ItemOf(access, number) OBVIOUS
<1>10. e \in Item /\ e.access = access /\ e.loop = Id
  <2>1. e \in Item BY <1>4, <1>6, <1>8, <1>9, WithItemIs
  <2>. QED BY <1>5, <1>9, <2>1 DEF ItemOf
<1>11. PICK d : d = AfterLoop(Latest, kind) OBVIOUS
<1>12. d \in Detail /\ d.name = Latest.name BY <1>8, <1>11, AfterLoopIs
<1>13. Latest.name \in listNames BY <1>1, <1>8
<1>14. PICK b : b = Here.block OBVIOUS
<1>15. PICK c : c = Append(b, e) OBVIOUS
<1>16. Records(d, c)
  <2>1. /\ b \in Seq(Item) /\ Records(Latest, b)
        /\ \A i \in 1 .. Len(b) : b[i].loop = 0
        /\ kind = "range" => \A i \in 1 .. Len(b) : b[i].access \notin {"size", "list"}
    BY <1>3, <1>8, <1>14 DEF BlockHas, BlockLoops
  <2>2. Looping(b) BY <1>8, <1>14, TextsLoop
  <2>. QED BY <1>2, <1>8, <1>10, <1>11, <1>13, <1>15, <2>1, <2>2, RecordsLoop
<1>17. /\ Latest' = d /\ Len(details') = Len(details) /\ Names(details') = Names(details)
       /\ \A i \in 1 .. Len(details) : i < Len(details) => details'[i] = details[i]
  BY <1>1, <1>8, <1>11, <1>12, LastChanged
<1>18. /\ stack' = WithItem(access, number) /\ Executed(reading, number)
       /\ Records(d, Append(Here.block, ItemOf(access, number)))
  BY <1>1, <1>2, <1>5, <1>9, <1>14, <1>15, <1>16
<1>. QED BY <1>1, <1>4, <1>6, <1>7, <1>12, <1>17, <1>18, ItemKept

(* A detail that has recorded nothing, and the name of a new test.           *)
LEMMA RecordsNew ==
  ASSUME NEW n \in Name
  PROVE  Records(NewDetail(n), << >>)
<1>1. PICK d : d = NewDetail(n) OBVIOUS
<1>2. /\ d.pre = << >> /\ d.loop = << >> /\ d.post = << >> /\ d.method = "none"
      /\ ~d.size /\ ~d.hasAddress
  BY <1>1 DEF NewDetail
<1>3. Len(<< >>) = 0 BY EmptySeq
<1>4. AllNone(<< >>) BY <1>3 DEF AllNone
<1>5. Records(d, << >>) BY <1>2, <1>3, <1>4 DEF Records
<1>. QED BY <1>1, <1>5

(* A test of a new name has a block and a source with nothing in them.      *)
LEMMA TestKept ==
  ASSUME FixedTypeOK, Framed, Flat, Untested, Closed, Open,
         NEW ns \in Tests, Test(ns), ~Has(Odd)'
  PROVE  Flat' /\ Untested' /\ Closed' /\ Open'
<1>1. /\ source' = source /\ listNames' = listNames /\ Here.kind \in {"loop", "plain", "else"}
      /\ Here.kind = "else" => "else" \in forms'
  BY DEF Test, input
<1>2. Here.kind = "loop" BY <1>1 DEF Has, Odd, Flat
<1>3. Top = 1
  <2>1. Top \in Nat /\ Top >= 1 BY HereIs
  <2>. QED BY <1>2, <2>1 DEF Framed, Here
<1>4. ~Has({"or", "again"})' BY DEF Has, Odd
<1>5. PICK n \in Name \ Names(details) :
        /\ Len(details') = Len(details) + 1
        /\ \A i \in 1 .. Len(details) : details'[i] = details[i]
        /\ Latest' = NewDetail(n)
        /\ Names(details') = Names(details) \cup {n}
        /\ Top' = Top + 1
        /\ Here' = NewFrame("if", {n}, Here.path \ {n})
  BY <1>4, NewTestIs
<1>6. Len(details) \in Nat BY LenProperties DEF FixedTypeOK
<1>7. /\ Here'.kind = "if" /\ Here'.path = {n} /\ Here'.block = << >> /\ Latest'.name = n
  BY <1>5 DEF NewFrame, NewDetail
<1>8. Top' = 2 BY <1>3, <1>5
<1>9. Flat'
  <2>1. OwnPath' BY <1>7 DEF OwnPath
  <2>2. Top' <= 2 /\ Here'.kind # "plain" BY <1>7, <1>8
  <2>. QED BY <2>1, <2>2 DEF Flat
<1>10. Untested' BY <1>1, <1>5 DEF Untested
<1>11. Closed'
  <2>. SUFFICES ASSUME NEW i \in 1 .. Len(details)
                PROVE  (Written(details[i]) = Expected(details[i].name))'
    <3>1. \A i \in 1 .. Len(details') :
            i < Len(details') \/ Top' = 1 => i \in 1 .. Len(details)
      BY <1>5, <1>6, <1>8
    <3>. QED BY <3>1 DEF Closed
  <2>1. details'[i] = details[i] BY <1>5
  <2>2. Written(details[i]) = Expected(details[i].name) BY <1>3 DEF Closed
  <2>3. PICK m : m = details[i].name OBVIOUS
  <2>4. Expected(m)' = Expected(m) BY <1>1, ExpectedSame
  <2>5. details'[i].name = m BY <2>1, <2>3
  <2>6. Expected(details[i].name)' = Expected(m)' BY <2>5 DEF Expected
  <2>. QED BY <2>1, <2>2, <2>3, <2>4, <2>6
<1>12. Texts(Here.block, Latest.name)'
  <2>1. source'[n] = << >> BY <1>1 DEF Untested
  <2>2. Len(<< >>) = 0 BY EmptySeq
  <2>. QED BY <1>7, <2>1, <2>2 DEF Texts
<1>13. Records(Latest, Here.block)'
  <2>1. PICK d : d = NewDetail(n) OBVIOUS
  <2>2. PICK b : b = << >> OBVIOUS
  <2>3. Records(d, b) BY <2>1, <2>2, RecordsNew
  <2>4. Latest' = d /\ Here'.block = b /\ listNames' = listNames
    BY <1>1, <1>5, <1>7, <2>1, <2>2
  <2>. QED BY <2>3, <2>4 DEF Records
<1>14. Open' BY <1>12, <1>13 DEF Open
<1>. QED BY <1>9, <1>10, <1>11, <1>14

(* An else has no statements of its own.                                    *)
LEMMA ElseKept ==
  ASSUME FixedTypeOK, Framed, Flat, Untested, Closed, Open, EnterElse
  PROVE  Flat' /\ Untested' /\ Closed' /\ Open'
<1>1. /\ details' = details /\ listNames' = listNames /\ source' = source
  BY DEF EnterElse, input
<1>2. /\ Len(stack') = Top
      /\ stack'[Top] = [kind |-> "else", path |-> Here.rest, rest |-> Here.rest,
                        block |-> Here.block]
  BY ElseIs
<1>3. Top' = Top /\ Here'.kind = "else" /\ Here'.block = Here.block
  BY <1>2 DEF Top, Here
<1>4. Latest' = Latest BY <1>1 DEF Latest
<1>5. Flat' BY <1>3 DEF Flat, OwnPath
<1>6. Untested' BY <1>1 DEF Untested
<1>7. Closed' BY <1>1, <1>3 DEF Closed, Expected
<1>8. Open' BY <1>1, <1>3, <1>4 DEF Open, Texts, Records
<1>. QED BY <1>5, <1>6, <1>7, <1>8

(* The if that is left has its block written as the source has it.          *)
LEMMA LeaveKept ==
  ASSUME FixedTypeOK, Framed, Flat, Untested, Closed, Open, LeaveIf, ~Has(Odd)'
  PROVE  Flat' /\ Untested' /\ Closed' /\ Open'
<1>1. /\ source' = source /\ Here.kind \in {"if", "else"} /\ ~AllNone(Here.block)
  <2>1. /\ source' = source /\ Here.kind \in {"plain", "if", "else"}
        /\ Here.kind # "plain" /\ AllNone(Here.block) => "unread" \in forms'
    BY DEF LeaveIf, AllNone
  <2>. QED BY <2>1 DEF Has, Odd, Flat
<1>2. /\ Top \in Nat /\ Top >= 2
      /\ Len(stack') = Top - 1
      /\ \A k \in 1 .. Top - 1 : stack'[k] = stack[k]
      /\ details # << >> /\ Top = 2 =>
           details' = InLast(Filled(Latest, BodyText(IF Here.kind = "plain" THEN << >>
                                                     ELSE Here.block)))
  BY LeaveIs
<1>3. Top = 2 BY <1>2 DEF Flat
<1>4. Top' = 1 /\ Here' = stack[1] BY <1>2, <1>3 DEF Top, Here
<1>5. details # << >> BY <1>1, HereIs
<1>6. Here'.kind = "loop"
  <2>1. 1 \in 1 .. Top BY <1>3
  <2>. QED BY <1>4, <2>1 DEF Framed
<1>7. Flat' BY <1>4, <1>6 DEF Flat, OwnPath
<1>8. PICK b : b = Here.block OBVIOUS
<1>9. b \in Seq(Item) BY <1>8, HereIs DEF Frame
<1>10. Latest \in Detail /\ Latest.name \in Name BY <1>5, LatestIs
<1>11. PICK d : d = Filled(Latest, BodyText(b)) OBVIOUS
<1>12. d \in Detail /\ d.name = Latest.name BY <1>9, <1>10, <1>11, FilledType
<1>13. details' = InLast(d) BY <1>1, <1>2, <1>3, <1>5, <1>8, <1>11
<1>14. /\ Latest' = d /\ Len(details') = Len(details) /\ Names(details') = Names(details)
       /\ \A i \in 1 .. Len(details) : i < Len(details) => details'[i] = details[i]
  BY <1>5, <1>12, <1>13, LastChanged
<1>15. Untested' BY <1>1, <1>14 DEF Untested
<1>16. Written(d) = Expected(Latest.name)
  <2>1. Texts(b, Latest.name) /\ Records(Latest, b) /\ ~AllNone(b)
    BY <1>1, <1>3, <1>8 DEF Open
  <2>. QED BY <1>9, <1>10, <1>11, <2>1, ClosedIs
<1>17. Closed'
  <2>. SUFFICES ASSUME NEW i \in 1 .. Len(details)
                PROVE  (Written(details[i]) = Expected(details[i].name))'
    BY <1>14 DEF Closed
  <2>1. Len(details) \in Nat BY <1>5, LatestIs
  <2>2. PICK f : f = details'[i] OBVIOUS
  <2>3. Written(f) = Expected(f.name)
    <3>1. CASE i < Len(details)
      <4>1. f = details[i] BY <1>14, <2>2, <3>1
      <4>. QED BY <3>1, <4>1 DEF Closed
    <3>2. CASE i = Len(details)
      <4>1. f = d BY <1>14, <2>2, <3>2 DEF Latest
      <4>. QED BY <1>12, <1>16, <4>1
    <3>. QED BY <2>1, <3>1, <3>2
  <2>4. PICK m : m = f.name OBVIOUS
  <2>5. Expected(m)' = Expected(m) BY <1>1, ExpectedSame
  <2>6. Expected(details[i].name)' = Expected(m)' BY <2>2, <2>4 DEF Expected
  <2>. QED BY <2>2, <2>3, <2>4, <2>5, <2>6
<1>18. Open' BY <1>4 DEF Open
<1>. QED BY <1>7, <1>15, <1>17, <1>18

(* A table is filled in a loop that tests no name.                          *)
LEMMA AssignKept ==
  ASSUME FixedTypeOK, Framed, Flat, Untested, Closed, Open,
         NEW t \in Table, Assign(t), ~Has(Odd)'
  PROVE  Flat' /\ Untested' /\ Closed' /\ Open'
<1>1. /\ details' = << >> /\ source' = source /\ stack' = stack /\ Here.kind = "loop"
      /\ details # << >> => "both" \in forms'
  BY DEF Assign
<1>2. details = << >> BY <1>1 DEF Has, Odd
<1>3. Top = 1 /\ Top' = Top /\ Here' = Here
  <2>1. Top \in Nat /\ Top >= 1 BY HereIs
  <2>2. Top = 1 BY <1>1, <2>1 DEF Framed, Here
  <2>. QED BY <1>1, <2>2 DEF Top, Here
<1>4. Flat' BY <1>1, <1>3 DEF Flat, OwnPath
<1>5. Untested' BY <1>1, <1>2 DEF Untested
<1>6. Closed'
  <2>1. Len(details') = 0 BY <1>1
  <2>. QED BY <2>1 DEF Closed
<1>7. Open' BY <1>3 DEF Open
<1>. QED BY <1>4, <1>5, <1>6, <1>7

(* Every step keeps what blocks do.                                         *)
LEMMA KeptStep ==
  ASSUME FixedTypeOK, Framed, Kept, [Next]_vars
  PROVE  Kept'
<1>. SUFFICES ASSUME ~Has(Odd)' PROVE Flat' /\ Untested' /\ Closed' /\ Open'
  BY DEF Kept
<1>1. Flat /\ Untested /\ Closed /\ Open BY FormsGrow DEF Kept, Has
<1>2. ASSUME stack' = stack, details' = details, source' = source, listNames' = listNames
      PROVE  Flat' /\ Untested' /\ Closed' /\ Open'
  <2>1. Top' = Top /\ Here' = Here /\ Latest' = Latest BY <1>2 DEF Top, Here, Latest
  <2>2. Flat' BY <1>1, <2>1 DEF Flat, OwnPath
  <2>3. Untested' BY <1>1, <1>2 DEF Untested
  <2>4. Closed' BY <1>1, <1>2, <2>1 DEF Closed, Expected
  <2>5. Open' BY <1>1, <1>2, <2>1 DEF Open, Texts, Records
  <2>. QED BY <2>2, <2>3, <2>4, <2>5
<1>3. CASE Plain BY <1>1, <1>3, PlainKept
<1>4. ASSUME NEW r \in Reads, Read(r[1], r[2])
      PROVE  Flat' /\ Untested' /\ Closed' /\ Open'
  BY <1>1, <1>4, ReadKept
<1>5. ASSUME NEW kind \in {"range", "for"}, NEW reading \in {"each", "other"},
             ListLoop(kind, reading)
      PROVE  Flat' /\ Untested' /\ Closed' /\ Open'
  BY <1>1, <1>5, ListLoopKept
<1>6. CASE EnterPlain BY <1>6 DEF EnterPlain, Has, Odd
<1>7. ASSUME NEW ns \in Tests, Test(ns)
      PROVE  Flat' /\ Untested' /\ Closed' /\ Open'
  BY <1>1, <1>7, TestKept
<1>8. CASE EnterElse BY <1>1, <1>8, ElseKept
<1>9. CASE LeaveIf BY <1>1, <1>9, LeaveKept
<1>10. ASSUME NEW t \in Table, Assign(t)
       PROVE  Flat' /\ Untested' /\ Closed' /\ Open'
  BY <1>1, <1>10, AssignKept
<1>11. CASE ReplaceLoop BY <1>2, <1>11 DEF ReplaceLoop, loop, input
<1>12. CASE UNCHANGED vars BY <1>2, <1>12, SameIs
<1>. QED BY <1>3, <1>4, <1>5, <1>6, <1>7, <1>8, <1>9, <1>10, <1>11, <1>12
         DEF Next, Finished

(* And it holds at first.                                                   *)
LEMMA InitKept ==
  ASSUME Init
  PROVE  Kept
<1>1. details = << >> /\ \A n \in Name : source[n] = << >> BY DEF Init
<1>2. Len(details) = 0 BY <1>1
<1>3. Top = 1 /\ Here.kind = "loop" BY DEF Init, Here, Top, NewFrame
<1>4. Flat BY <1>3 DEF Flat, OwnPath
<1>5. Untested BY <1>1 DEF Untested
<1>6. Closed BY <1>2 DEF Closed
<1>7. Open BY <1>3 DEF Open
<1>. QED BY <1>4, <1>5, <1>6, <1>7 DEF Kept

(* When the loop is replaced, a name has the block of its one detail, or none. *)
LEMMA KeptSame ==
  ASSUME FixedTypeOK, Framed, Kept
  PROVE  SameEffectPerName
<1>. SUFFICES ASSUME done, details # << >>,
                     ~Has({"outside", "plain", "again", "or", "else", "unread",
                           "secondList", "sizeBesideRange", "addressBesideList", "first",
                           "other", "both"}),
                     NEW n \in Name
              PROVE  Branch(n) = Expected(n)
  BY DEF SameEffectPerName
<1>1. Flat /\ Untested /\ Closed /\ Open BY DEF Kept, Odd
<1>2. Top = 1 BY DEF Framed
<1>3. details \in Seq(Detail) /\ Len(details) \in Nat /\ Len(details) # 0
  BY LatestIs DEF FixedTypeOK
<1>4. \A i \in 1 .. Len(details) : Written(details[i]) = Expected(details[i].name)
  BY <1>1, <1>2 DEF Closed
<1>5. \A i \in 1 .. Len(details) :
        details[i].name \in Name /\ Expected(details[i].name) \in Seq(Executions)
  <2>. SUFFICES ASSUME NEW i \in 1 .. Len(details)
                PROVE  details[i].name \in Name /\ Expected(details[i].name) \in Seq(Executions)
    OBVIOUS
  <2>1. details[i] \in Detail BY <1>3, ElementOfSeq
  <2>2. PICK m : m = details[i].name OBVIOUS
  <2>3. m \in Name BY <2>1, <2>2 DEF Detail
  <2>4. source[m] \in Seq(Steps) BY <2>3 DEF Framed
  <2>. QED BY <2>2, <2>3, <2>4, ExpectedIs
<1>. DEFINE part(i) == IF details[i].name = n THEN Written(details[i]) ELSE << >>
            parts == [i \in 1 .. Len(details) |-> part(i)]
<1>6. \A i \in 1 .. Len(details) : part(i) \in Seq(Executions)
  <2>1. << >> \in Seq(Executions) OBVIOUS
  <2>. QED BY <1>4, <1>5, <2>1
<1>7. Branch(n) = FlattenSeq(parts) BY DEF Branch
<1>8. \A i \in 1 .. Len(details) : details[i].name # n => part(i) = << >> OBVIOUS
<1>9. \A i \in 1 .. Len(details) : details[i].name = n => part(i) = Expected(n)
  BY <1>4
<1>. HIDE DEF part
<1>10. parts \in Seq(Seq(Executions)) BY <1>3, <1>6, IsASeq
<1>11. Len(parts) = Len(details) /\ \A i \in 1 .. Len(details) : parts[i] = part(i)
  BY <1>3
<1>. HIDE DEF parts
<1>12. PICK m \in 1 .. Len(details) :
         /\ \A i \in 1 .. Len(details) : i # m => details[i].name # n
         /\ part(m) = Expected(n)
  <2>1. CASE \E m \in 1 .. Len(details) : details[m].name = n
    <3>1. PICK m \in 1 .. Len(details) : details[m].name = n BY <2>1
    <3>2. \A i \in 1 .. Len(details) : i # m => details[i].name # n
      BY <3>1 DEF FixedTypeOK
    <3>. QED BY <1>9, <3>1, <3>2
  <2>2. CASE ~ \E m \in 1 .. Len(details) : details[m].name = n
    <3>1. 1 \in 1 .. Len(details) BY <1>3
    <3>2. n \notin Names(details) BY <2>2 DEF Names
    <3>3. source[n] = << >> BY <1>1, <3>2 DEF Untested
    <3>4. Expected(n) = << >>
      <4>1. source[n] \in Seq(Steps) BY DEF Framed
      <4>2. Expected(n) \in Seq(Executions) /\ Len(Expected(n)) = Len(source[n])
        BY <4>1, ExpectedIs
      <4>3. Len(source[n]) = 0 BY <3>3
      <4>. QED BY <4>2, <4>3, EmptySeq
    <3>. QED BY <1>8, <2>2, <3>1, <3>4
  <2>. QED BY <2>1, <2>2
<1>13. \A i \in 1 .. Len(parts) : i # m => parts[i] = << >> BY <1>8, <1>11, <1>12
<1>14. FlattenSeq(parts) = parts[m]
  <2>1. m \in 1 .. Len(parts) BY <1>11
  <2>. QED BY ONLY <1>10, <1>13, <2>1, FlattenOne
<1>. QED BY <1>7, <1>11, <1>12, <1>14

-----------------------------------------------------------------------------
(* Theorems                                                                *)

(* In every loop over a common info with names known at run time, what is     *)
(* recorded of each open if fits the source, the details and tables are as    *)
(* described above, and each closed if has the text of its statements.        *)
THEOREM CommonInfoFixedInvariant == Spec => []IInv
<1>1. Init => IInv
  BY InitTyped, InitTested, InitFilling, InitKept DEF IInv
<1>2. IInv /\ [Next]_vars => IInv'
  <2>. SUFFICES ASSUME IInv, [Next]_vars PROVE IInv' OBVIOUS
  <2>1. FixedTypeOK /\ Framed /\ Tested /\ Filling /\ Kept BY DEF IInv
  <2>2. FixedTypeOK' /\ Framed' BY <2>1, TypesStep
  <2>3. Tested' BY <2>1, TestedStep
  <2>4. Filling' BY <2>1, FillingStep
  <2>5. Kept' BY <2>1, KeptStep
  <2>. QED BY <2>2, <2>3, <2>4, <2>5 DEF IInv
<1>. QED BY <1>1, <1>2, PTL DEF Spec

(* The variables have their types, and a name that the loop tests has one     *)
(* detail, however often it is tested (add_int_name).                        *)
THEOREM CommonInfoFixedTypes == Spec => []FixedTypeOK
<1>1. IInv => FixedTypeOK BY DEF IInv
<1>. QED BY <1>1, CommonInfoFixedInvariant, PTL

(* The condition of every name's block is written, where every test is of one  *)
(* new name and its if reads something: a method is set by the time the if is  *)
(* closed, and the functor of the name, declared at the first read, has the    *)
(* kind of the last.                                                        *)
THEOREM CommonInfoFixedConditions == Spec => []ConditionsWritten
<1>1. IInv => ConditionsWritten BY TestedWritten DEF IInv
<1>. QED BY <1>1, CommonInfoFixedInvariant, PTL

(* A table that the loop filled holds every name with which the method reads   *)
(* it, in a loop that fills each size table after its list table and reads     *)
(* both with one vector.                                                     *)
THEOREM CommonInfoFixedTables == Spec => []TablesHold
<1>1. IInv => TablesHold BY FillingHolds DEF IInv
<1>. QED BY <1>1, CommonInfoFixedInvariant, PTL

(* The block that is written for each name does what the source does with an   *)
(* attribute of that name, statement by statement, in loops without the forms   *)
(* that the rewriting does not keep.                                         *)
THEOREM CommonInfoFixedSameEffect == Spec => []SameEffectPerName
<1>1. IInv => SameEffectPerName BY KeptSame DEF IInv
<1>. QED BY <1>1, CommonInfoFixedInvariant, PTL
=============================================================================
