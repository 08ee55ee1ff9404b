---------------------------- MODULE DriverProofs -----------------------------
(***************************************************************************)
(* Driver for every set of headers and classes and every run: what a class  *)
(* gathers it gathers once per unit, every file of the unit in hand is      *)
(* written from the text it belongs to, and a .cc goes with its .h.         *)
(***************************************************************************)
EXTENDS Driver, DataInduction

(* The entry of a class after n units: what the constructor adds is at most *)
(* one per visit, and a visit leaves one declaration, of the visit's unit.  *)
InfoOK(i, n) ==
  /\ i = [origin |-> i.origin, id |-> i.id, spec |-> i.spec, fields |-> i.fields,
          ctorEnums |-> i.ctorEnums, pushed |-> i.pushed]
  /\ i.fields \in Seq(1 .. n)
  /\ i.ctorEnums \in 0 .. Len(i.fields)
  /\ i.pushed \in 0 .. Len(i.fields)
  /\ \A a \in DOMAIN i.spec : i.spec[a].unit \in 1 .. n

PhaseOK ==
  /\ nth \in Nat /\ units \in Seq(Seq(Header)) /\ unit \in Seq(Header)
  /\ pc \in {"idle", "alias", "class", "write", "filter", "done"}
  /\ pc \in {"alias", "class", "write", "filter"} => nth # 0
  /\ nth = 0 => DOMAIN info = {}
  /\ pc = "class" => todo \in Seq(Class)
  /\ pc = "write" => todo \subseteq DOMAIN info

Gathered == \A c \in DOMAIN info : InfoOK(info[c], nth)

(* A declaration of a former AST is read for a class met before, and in the *)
(* second unit at the earliest.                                            *)
NotedTwice ==
  /\ \A c : <<c, "field">> \in dangling => c \in DOMAIN info /\ Len(info[c].fields) >= 2
  /\ nth <= 1 => dangling = {}

GatherInv == PhaseOK /\ Gathered /\ NotedTwice

(* The entries that have a file are of classes that were visited, and of    *)
(* the filter class.                                                       *)
OriginOK ==
  \A c \in DOMAIN info :
    c # ItemFilter /\ info[c].origin # NoFile =>
      c \in Class \ Skipped /\ info[c].origin = HeaderOf(c)

UnitClasses == {c \in Class : \E h \in ToSet(unit) : c \in ToSet(ClassesIn[h])}

(* The buffers that have been edited are those of the classes visited.      *)
EditedOK ==
  /\ pc = "alias" => edited = {}
  /\ pc = "class" => edited \cup (ToSet(todo) \ Skipped) = UnitClasses \ Skipped
  /\ pc \notin {"alias", "class"} => edited = UnitClasses \ Skipped

(* The entry e has the id its file h has in this unit.                      *)
PlacedIn(e, hs) == e.id \in DOMAIN unit /\ unit[e.id] \in hs

Placed ==
  /\ \A c \in edited : c \in DOMAIN info /\ PlacedIn(info[c], {HeaderOf(c)})
  /\ pc \notin {"alias", "class"} /\ ToSet(unit) \cap FilterHeader # {} =>
       ItemFilter \in DOMAIN info /\ PlacedIn(info[ItemFilter], FilterHeader)

(* No file is of a unit to come.                                           *)
FileUnits ==
  /\ \A h \in Header : <<"h", h>> \in DOMAIN files => files[<<"h", h>>].unit \in 0 .. nth
  /\ <<"filter">> \in DOMAIN files => files[<<"filter">>].unit \in 0 .. nth

(* A .cc of a header without templates is there with its .h.                *)
SourceOK ==
  \A h \in Header :
    ToSet(ClassesIn[h]) \cap Template = {} /\ <<"cc", h>> \in DOMAIN files =>
      /\ <<"h", h>> \in DOMAIN files
      /\ files[<<"h", h>>].class = files[<<"cc", h>>].class

IInv == GatherInv /\ OriginOK /\ EditedOK /\ Placed /\ FileUnits /\ SourceOK /\ OwnText

-----------------------------------------------------------------------------
(* The operators of Driver                                                 *)

(* A map after one entry is stored.                                        *)
LEMMA StoreIs ==
  ASSUME NEW m, NEW k, NEW v
  PROVE  /\ DOMAIN Store(m, k, v) = DOMAIN m \cup {k}
         /\ Store(m, k, v)[k] = v
         /\ \A x \in DOMAIN m : x # k => Store(m, k, v)[x] = m[x]
BY DEF Store

(* The elements of a sequence are its first and those of its tail.          *)
LEMMA ToSetTail ==
  ASSUME NEW A, NEW s \in Seq(A), s # << >>
  PROVE  /\ s[1] \in A /\ Tail(s) \in Seq(A)
         /\ ToSet(s) = {s[1]} \cup ToSet(Tail(s))
<1>1. /\ Len(s) \in Nat \ {0} /\ DOMAIN s = 1 .. Len(s)
      /\ Tail(s) \in Seq(A) /\ Len(Tail(s)) = Len(s) - 1
      /\ \A i \in 1 .. Len(s) - 1 : Tail(s)[i] = s[i + 1]
  BY HeadTailProperties, LenProperties, EmptySeq
<1>2. DOMAIN Tail(s) = 1 .. Len(s) - 1 BY <1>1
<1>3. s[1] \in A BY <1>1, ElementOfSeq
<1>4. s[1] \in ToSet(s) BY <1>1 DEF ToSet
<1>5. ASSUME NEW i \in DOMAIN Tail(s) PROVE Tail(s)[i] \in ToSet(s)
  <2>1. i + 1 \in DOMAIN s /\ Tail(s)[i] = s[i + 1] BY <1>1, <1>2
  <2>. QED BY <2>1 DEF ToSet
<1>6. ASSUME NEW i \in DOMAIN s, i # 1 PROVE s[i] \in ToSet(Tail(s))
  <2>1. i - 1 \in DOMAIN Tail(s) /\ Tail(s)[i - 1] = s[(i - 1) + 1] /\ (i - 1) + 1 = i
    BY <1>1, <1>2, <1>6
  <2>. QED BY <2>1 DEF ToSet
<1>. QED BY <1>1, <1>3, <1>4, <1>5, <1>6 DEF ToSet

(* A class has one header.                                                 *)
LEMMA HeaderOfIs ==
  ASSUME NEW c \in Class
  PROVE  /\ HeaderOf(c) \in Header /\ c \in ToSet(ClassesIn[HeaderOf(c)])
         /\ \A h \in Header : c \in ToSet(ClassesIn[h]) => h = HeaderOf(c)
<1>1. PICK h \in Header : c \in ToSet(ClassesIn[h]) BY DEF Class
<1>2. HeaderOf(c) \in Header /\ c \in ToSet(ClassesIn[HeaderOf(c)])
  BY <1>1 DEF HeaderOf
<1>. QED BY <1>2, DriverAssumption

(* The classes of a unit are those of its headers.                         *)
LEMMA ClassesOfIs ==
  ASSUME NEW u \in Seq(Header)
  PROVE  /\ ClassesOf(u) \in Seq(Class)
         /\ \A c : c \in ToSet(ClassesOf(u))
                     <=> \E h \in ToSet(u) : c \in ToSet(ClassesIn[h])
<1>. DEFINE s == [i \in DOMAIN u |-> ClassesIn[u[i]]]
<1>1. Len(u) \in Nat /\ DOMAIN u = 1 .. Len(u) BY LenProperties
<1>2. \A i \in 1 .. Len(u) : ClassesIn[u[i]] \in Seq(Class)
  BY <1>1, ElementOfSeq, DriverAssumption
<1>3. s \in Seq(Seq(Class)) BY <1>1, <1>2, IsASeq
<1>4. /\ FlattenSeq(s) \in Seq(Class)
      /\ \A c : c \in ToSet(FlattenSeq(s)) <=> \E i \in DOMAIN s : c \in ToSet(s[i])
  <2>. HIDE DEF s
  <2>. QED BY <1>3, FlattenSeqProperties
<1>5. ASSUME NEW c
      PROVE  (\E i \in DOMAIN s : c \in ToSet(s[i]))
               <=> \E h \in ToSet(u) : c \in ToSet(ClassesIn[h])
  <2>1. (\E h \in ToSet(u) : c \in ToSet(ClassesIn[h]))
          <=> \E i \in DOMAIN u : c \in ToSet(ClassesIn[u[i]])
    BY Zenon DEF ToSet
  <2>2. DOMAIN s = DOMAIN u /\ \A i \in DOMAIN u : s[i] = ClassesIn[u[i]] OBVIOUS
  <2>. HIDE DEF s
  <2>. QED BY <2>1, <2>2
<1>. QED BY <1>4, <1>5 DEF ClassesOf

(* The id of a header of the unit is a position of that header.            *)
LEMMA FileIdIs ==
  ASSUME NEW h \in ToSet(unit)
  PROVE  FileId(h) \in DOMAIN unit /\ unit[FileId(h)] = h
<1>1. \E i \in DOMAIN unit : unit[i] = h BY DEF ToSet
<1>. QED BY <1>1 DEF FileId

-----------------------------------------------------------------------------
(* What a class gathers                                                    *)

(* An entry that is found or made is in order.                             *)
LEMMA PtrOK ==
  ASSUME NEW c, Gathered, nth \in Nat
  PROVE  InfoOK(FeatureInfoPtr(c), nth)
<1>1. CASE c \in DOMAIN info BY <1>1 DEF Gathered, FeatureInfoPtr
<1>2. CASE c \notin DOMAIN info
  <2>1. FeatureInfoPtr(c) = NewInfo BY <1>2 DEF FeatureInfoPtr
  <2>2. NewInfo.fields \in Seq(1 .. nth) /\ Len(NewInfo.fields) = 0 BY DEF NewInfo
  <2>3. DOMAIN NewInfo.spec = {} BY DEF NewInfo
  <2>4. NewInfo.ctorEnums = 0 /\ NewInfo.pushed = 0 BY DEF NewInfo
  <2>5. InfoOK(NewInfo, nth)
    <3>1. NewInfo = [origin |-> NewInfo.origin, id |-> NewInfo.id, spec |-> NewInfo.spec,
                     fields |-> NewInfo.fields, ctorEnums |-> NewInfo.ctorEnums,
                     pushed |-> NewInfo.pushed]
      BY DEF NewInfo
    <3>. QED BY <3>1, <2>2, <2>3, <2>4 DEF InfoOK
  <2>. QED BY <2>1, <2>5
<1>. QED BY <1>1, <1>2

(* What TypeAlias and MatchFilter make of an entry.                        *)
AliasEntry(i, a, ps, n) == [i EXCEPT !.spec = Store(@, a, [params |-> ps, unit |-> n])]
FilterEntry(i, h, d) == [i EXCEPT !.origin = h, !.id = d]

(* An alias adds types of this unit and leaves the rest.                   *)
LEMMA AliasOK ==
  ASSUME NEW n \in Nat \ {0}, NEW i, InfoOK(i, n), NEW a, NEW ps,
         NEW j, j = AliasEntry(i, a, ps, n)
  PROVE  /\ InfoOK(j, n)
         /\ j.fields = i.fields /\ j.origin = i.origin /\ j.id = i.id
<1>. DEFINE sp == Store(i.spec, a, [params |-> ps, unit |-> n])
<1>0. j = [i EXCEPT !.spec = sp] BY DEF AliasEntry
<1>1. ASSUME NEW x \in DOMAIN sp PROVE sp[x].unit \in 1 .. n
  <2>1. CASE x = a
    <3>1. sp[x] = [params |-> ps, unit |-> n] BY <2>1 DEF Store
    <3>. QED BY <3>1
  <2>2. CASE x # a
    <3>1. x \in DOMAIN i.spec /\ sp[x] = i.spec[x] BY <1>1, <2>2 DEF Store
    <3>. QED BY <3>1 DEF InfoOK
  <2>. QED BY <2>1, <2>2
<1>. HIDE DEF sp
<1>2. /\ j.spec = sp /\ j.origin = i.origin /\ j.id = i.id /\ j.fields = i.fields
      /\ j.ctorEnums = i.ctorEnums /\ j.pushed = i.pushed
      /\ j = [origin |-> j.origin, id |-> j.id, spec |-> j.spec, fields |-> j.fields,
              ctorEnums |-> j.ctorEnums, pushed |-> j.pushed]
  BY <1>0 DEF InfoOK
<1>3. InfoOK(j, n) BY <1>1, <1>2 DEF InfoOK
<1>. QED BY <1>2, <1>3

(* An entry with one more declaration, and with the counts raised.          *)
LEMMA EntryUpdates ==
  ASSUME NEW o, NEW d, NEW s, NEW f, NEW e, NEW p, NEW i,
         i = [origin |-> o, id |-> d, spec |-> s, fields |-> f, ctorEnums |-> e, pushed |-> p],
         NEW g, NEW x, NEW y, NEW j, NEW k,
         j = [i EXCEPT !.fields = Append(@, g)],
         k = [i EXCEPT !.ctorEnums = @ + x, !.pushed = @ + y]
  PROVE  /\ j = [origin |-> o, id |-> d, spec |-> s, fields |-> Append(f, g),
                 ctorEnums |-> e, pushed |-> p]
         /\ k = [origin |-> o, id |-> d, spec |-> s, fields |-> f,
                 ctorEnums |-> e + x, pushed |-> p + y]
<1>1. j = [origin |-> o, id |-> d, spec |-> s, fields |-> Append(f, g),
           ctorEnums |-> e, pushed |-> p]
  OBVIOUS
<1>2. k = [origin |-> o, id |-> d, spec |-> s, fields |-> f,
           ctorEnums |-> e + x, pushed |-> p + y]
  OBVIOUS
<1>. QED BY <1>1, <1>2

(* A visit adds one declaration of this unit and what the constructor has.  *)
LEMMA VisitOK ==
  ASSUME NEW n \in Nat \ {0}, n = nth, NEW i, InfoOK(i, n), NEW c
  PROVE  LET j == VisitFields(Located(c, i))
             k == VisitCtor(c, j)
         IN  /\ InfoOK(k, n)
             /\ k.fields = Append(i.fields, n) /\ k.origin = HeaderOf(c)
             /\ k.id = FileId(HeaderOf(c)) /\ j.fields = k.fields
             /\ Len(k.fields) = Len(i.fields) + 1
<1>. PICK l : l = Located(c, i) OBVIOUS
<1>. PICK j : j = VisitFields(l) OBVIOUS
<1>. PICK k : k = VisitCtor(c, j) OBVIOUS
<1>1. l = [origin |-> HeaderOf(c), id |-> FileId(HeaderOf(c)), spec |-> i.spec,
           fields |-> i.fields, ctorEnums |-> i.ctorEnums, pushed |-> i.pushed]
  BY DEF InfoOK, Located
<1>2. j = [origin |-> HeaderOf(c), id |-> FileId(HeaderOf(c)), spec |-> i.spec,
           fields |-> Append(i.fields, n), ctorEnums |-> i.ctorEnums, pushed |-> i.pushed]
  <2>1. j = [l EXCEPT !.fields = Append(@, n)] BY DEF VisitFields
  <2>. QED BY ONLY <1>1, <2>1, EntryUpdates
<1>3. k = [origin |-> HeaderOf(c), id |-> FileId(HeaderOf(c)), spec |-> i.spec,
           fields |-> Append(i.fields, n),
           ctorEnums |-> i.ctorEnums + (IF c \in EnumInCtor THEN 1 ELSE 0),
           pushed |-> i.pushed + (IF c \in ListInCtor THEN 1 ELSE 0)]
  <2>1. k = [j EXCEPT !.ctorEnums = @ + (IF c \in EnumInCtor THEN 1 ELSE 0),
                      !.pushed = @ + (IF c \in ListInCtor THEN 1 ELSE 0)]
    BY DEF VisitCtor
  <2>. QED BY ONLY <1>2, <2>1, EntryUpdates
<1>4. /\ i.fields \in Seq(1 .. n) /\ Len(i.fields) \in Nat
      /\ Append(i.fields, n) \in Seq(1 .. n)
      /\ Len(Append(i.fields, n)) = Len(i.fields) + 1
  <2>1. i.fields \in Seq(1 .. n) /\ n \in 1 .. n BY DEF InfoOK
  <2>. QED BY <2>1, AppendProperties, LenProperties
<1>5. k.ctorEnums \in 0 .. Len(i.fields) + 1 /\ k.pushed \in 0 .. Len(i.fields) + 1
  BY <1>3, <1>4 DEF InfoOK
<1>6. \A a \in DOMAIN i.spec : i.spec[a].unit \in 1 .. n BY DEF InfoOK
<1>7. /\ k.fields = Append(i.fields, n) /\ k.origin = HeaderOf(c) /\ k.spec = i.spec
      /\ k.id = FileId(HeaderOf(c)) /\ j.fields = Append(i.fields, n)
  BY ONLY <1>2, <1>3
<1>9. k = [origin |-> k.origin, id |-> k.id, spec |-> k.spec, fields |-> k.fields,
           ctorEnums |-> k.ctorEnums, pushed |-> k.pushed]
  BY ONLY <1>3
<1>8. InfoOK(k, n) BY <1>4, <1>5, <1>6, <1>7, <1>9 DEF InfoOK
<1>. QED BY <1>4, <1>7, <1>8

(* The filter's entry gets a file and keeps the rest.                      *)
LEMMA FilterEntryOK ==
  ASSUME NEW n, NEW i, InfoOK(i, n), NEW h, NEW d,
         NEW j, j = FilterEntry(i, h, d)
  PROVE  InfoOK(j, n) /\ j.fields = i.fields /\ j.id = d
<1>1. j = [origin |-> h, id |-> d, spec |-> i.spec, fields |-> i.fields,
           ctorEnums |-> i.ctorEnums, pushed |-> i.pushed]
  BY DEF InfoOK, FilterEntry
<1>2. InfoOK(j, n) /\ j.fields = i.fields /\ j.id = d BY <1>1 DEF InfoOK
<1>. QED BY <1>2

(* What is in order after n units is so after more.                        *)
LEMMA InfoOKLater ==
  ASSUME NEW n \in Nat, NEW i, InfoOK(i, n) PROVE InfoOK(i, n + 1)
<1>1. 1 .. n \subseteq 1 .. n + 1 OBVIOUS
<1>2. i.fields \in Seq(1 .. n + 1)
  <2>1. \A k \in 1 .. Len(i.fields) : i.fields[k] \in 1 .. n + 1
    BY <1>1, ElementOfSeq DEF InfoOK
  <2>2. i.fields = [k \in 1 .. Len(i.fields) |-> i.fields[k]] /\ Len(i.fields) \in Nat
    BY LenProperties DEF InfoOK
  <2>. QED BY <2>1, <2>2, IsASeq
<1>. QED BY <1>1, <1>2 DEF InfoOK

(* A stored entry keeps Gathered and NotedTwice, if it has no fewer fields. *)
LEMMA StoreGathers ==
  ASSUME NEW c, NEW i, SetInfo(c, i), InfoOK(i, nth), Gathered,
         c \in DOMAIN info => Len(i.fields) >= Len(info[c].fields),
         nth' = nth, nth \in Nat
  PROVE  /\ Gathered' /\ DOMAIN info' = DOMAIN info \cup {c}
         /\ \A x : x \in DOMAIN info /\ Len(info[x].fields) >= 2 =>
                     x \in DOMAIN info' /\ Len(info'[x].fields) >= 2
<1>1. info' = Store(info, c, i) BY DEF SetInfo
<1>2. /\ DOMAIN info' = DOMAIN info \cup {c} /\ info'[c] = i
      /\ \A x \in DOMAIN info : x # c => info'[x] = info[x]
  BY <1>1 DEF Store
<1>3. Gathered'
  <2>1. \A x \in DOMAIN info' : InfoOK(info'[x], nth) BY <1>2 DEF Gathered
  <2>. QED BY <2>1 DEF Gathered
<1>4. ASSUME NEW x \in DOMAIN info, Len(info[x].fields) >= 2 
      PROVE x \in DOMAIN info' /\ Len(info'[x].fields) >= 2
  <2>1. CASE x # c BY <1>2, <1>4, <2>1
  <2>2. CASE x = c
    <3>1. Len(i.fields) \in Nat /\ Len(info[c].fields) \in Nat
      BY <1>4, <2>2, LenProperties DEF InfoOK, Gathered
    <3>. QED BY <1>2, <1>4, <2>2, <3>1
  <2>. QED BY <2>1, <2>2
<1>. QED BY <1>2, <1>3, <1>4

LEMMA InitGathers == Init => GatherInv
<1>. SUFFICES ASSUME Init PROVE GatherInv OBVIOUS
<1>1. units \in Seq(Seq(Header)) BY DriverAssumption DEF Init
<1>2. unit \in Seq(Header) BY DEF Init
<1>3. DOMAIN info = {} BY DEF Init
<1>. QED BY <1>1, <1>2, <1>3 DEF Init, GatherInv, PhaseOK, Gathered, NotedTwice

(* The steps that leave the entries alone.                                 *)
Keeps == UNCHANGED <<units, unit, nth, info, dangling>>

LEMMA KeepsGathers ==
  ASSUME GatherInv, Keeps, PhaseOK' PROVE GatherInv'
BY DEF GatherInv, Keeps, Gathered, NotedTwice

LEMMA StartUnitGathers == GatherInv /\ StartUnit => GatherInv'
<1>. SUFFICES ASSUME GatherInv, StartUnit PROVE GatherInv' OBVIOUS
<1>. USE DEF GatherInv
<1>1. nth \in Nat /\ nth' = nth + 1 /\ info' = info /\ dangling' = dangling
  BY DEF StartUnit, PhaseOK
<1>2. PhaseOK'
  <2>1. units[1] \in Seq(Header) /\ Tail(units) \in Seq(Seq(Header))
    BY ToSetTail DEF StartUnit, PhaseOK
  <2>. QED BY <1>1, <2>1 DEF StartUnit, PhaseOK
<1>3. Gathered'
  <2>1. \A c \in DOMAIN info : InfoOK(info[c], nth + 1)
    BY <1>1, InfoOKLater DEF Gathered
  <2>. QED BY <1>1, <2>1 DEF Gathered
<1>4. NotedTwice' BY <1>1 DEF NotedTwice
<1>. QED BY <1>2, <1>3, <1>4

LEMMA TypeAliasGathers == GatherInv /\ TypeAlias => GatherInv'
<1>. SUFFICES ASSUME GatherInv, TypeAlias PROVE GatherInv' OBVIOUS
<1>. USE DEF GatherInv
<1>. PICK a : a = todo[1] OBVIOUS
<1>. PICK old : old = FeatureInfoPtr(a.of) OBVIOUS
<1>. PICK i : i = AliasEntry(old, a.name, ParamsOf(a.args), nth) OBVIOUS
<1>1. nth \in Nat \ {0} /\ nth' = nth BY DEF TypeAlias, PhaseOK
<1>2. SetInfo(a.of, i) BY DEF TypeAlias, AliasEntry
<1>3. InfoOK(old, nth) BY <1>1, PtrOK
<1>4. InfoOK(i, nth) /\ i.fields = old.fields BY <1>1, <1>3, AliasOK
<1>5. a.of \in DOMAIN info => Len(i.fields) >= Len(info[a.of].fields)
  <2>1. Len(old.fields) \in Nat BY <1>3, LenProperties DEF InfoOK
  <2>2. a.of \in DOMAIN info => i.fields = info[a.of].fields BY <1>4 DEF FeatureInfoPtr
  <2>. QED BY <1>4, <2>1, <2>2
<1>6. /\ Gathered' /\ DOMAIN info' = DOMAIN info \cup {a.of}
      /\ \A x : x \in DOMAIN info /\ Len(info[x].fields) >= 2 =>
                  x \in DOMAIN info' /\ Len(info'[x].fields) >= 2
  BY <1>1, <1>2, <1>4, <1>5, StoreGathers
<1>7. NotedTwice' BY <1>1, <1>6 DEF NotedTwice, TypeAlias
<1>8. PhaseOK' BY <1>1 DEF PhaseOK, TypeAlias
<1>. QED BY <1>6, <1>7, <1>8

LEMMA VisitClassGathers == GatherInv /\ VisitClass => GatherInv'
<1>. SUFFICES ASSUME GatherInv, VisitClass PROVE GatherInv' OBVIOUS
<1>. USE DEF GatherInv
<1>. DEFINE c == todo[1]  old == FeatureInfoPtr(c)
            i == VisitFields(Located(c, old))  k == VisitCtor(c, i)
<1>1. nth \in Nat \ {0} /\ nth' = nth BY DEF VisitClass, PhaseOK
<1>2. SetInfo(c, k) /\ dangling' = dangling \cup StaleFields(c, i) BY DEF VisitClass
<1>3. InfoOK(old, nth) BY <1>1, PtrOK
<1>4. /\ InfoOK(k, nth) /\ i.fields = Append(old.fields, nth) /\ k.fields = i.fields
      /\ Len(k.fields) = Len(old.fields) + 1
  <2>. HIDE DEF old
  <2>. QED BY <1>1, <1>3, VisitOK
<1>5. Len(old.fields) \in Nat /\ old.fields \in Seq(1 .. nth)
  BY <1>3, LenProperties DEF InfoOK
<1>6. c \in DOMAIN info => Len(k.fields) >= Len(info[c].fields)
  <2>. HIDE DEF k
  <2>1. c \in DOMAIN info => info[c].fields = old.fields BY DEF FeatureInfoPtr
  <2>. HIDE DEF old
  <2>. QED BY <1>4, <1>5, <2>1
<1>7. /\ info'[c] = k /\ Gathered' /\ DOMAIN info' = DOMAIN info \cup {c}
      /\ \A x : x \in DOMAIN info /\ Len(info[x].fields) >= 2 =>
                  x \in DOMAIN info' /\ Len(info'[x].fields) >= 2
  <2>1. info'[c] = k
    <3>. HIDE DEF k, c
    <3>. QED BY <1>2 DEF SetInfo, Store
  <2>. HIDE DEF k
  <2>. QED BY <1>1, <1>2, <1>4, <1>6, <2>1, StoreGathers
<1>8. ASSUME NEW x \in StaleFields(c, i)
      PROVE  x = <<c, "field">> /\ Len(k.fields) >= 2 /\ nth > 1
  <2>. HIDE DEF k, i, old
  <2>1. x = <<c, "field">> /\ \E m \in DOMAIN i.fields : i.fields[m] # nth
    BY <1>8 DEF StaleFields
  <2>2. PICK m \in DOMAIN i.fields : i.fields[m] # nth BY <2>1
  <2>3. /\ Append(old.fields, nth) \in Seq(1 .. nth)
        /\ Append(old.fields, nth)[Len(old.fields) + 1] = nth
        /\ Len(Append(old.fields, nth)) = Len(old.fields) + 1
    BY <1>1, <1>5, AppendProperties
  <2>4. m \in 1 .. Len(old.fields) + 1 /\ m # Len(old.fields) + 1
    BY <1>4, <2>2, <2>3, LenProperties
  <2>5. i.fields[m] \in 1 .. nth BY <1>4, <2>2, <2>3
  <2>. QED BY <1>1, <1>4, <1>5, <2>1, <2>2, <2>4, <2>5
<1>9. NotedTwice'
  <2>1. ASSUME NEW x, <<x, "field">> \in dangling'
        PROVE  x \in DOMAIN info' /\ Len(info'[x].fields) >= 2
    <3>. HIDE DEF k, i
    <3>1. CASE <<x, "field">> \in dangling BY <1>7, <3>1 DEF NotedTwice
    <3>2. CASE <<x, "field">> \in StaleFields(c, i)
      <4>1. x = c /\ Len(k.fields) >= 2 BY <1>8, <3>2
      <4>. QED BY <1>7, <4>1
    <3>. QED BY <1>2, <2>1, <3>1, <3>2
  <2>2. nth' <= 1 => dangling' = {}
    <3>. HIDE DEF k, i
    <3>1. nth <= 1 => StaleFields(c, i) = {} BY <1>1, <1>8
    <3>. QED BY <1>1, <1>2, <3>1 DEF NotedTwice
  <2>. QED BY <2>1, <2>2 DEF NotedTwice
<1>10. PhaseOK' 
  <2>1. Tail(todo) \in Seq(Class) BY ToSetTail DEF VisitClass, PhaseOK
  <2>. QED BY <1>1, <2>1 DEF PhaseOK, VisitClass
<1>. QED BY <1>7, <1>9, <1>10

LEMMA MatchFilterGathers == GatherInv /\ MatchFilter => GatherInv'
<1>. SUFFICES ASSUME GatherInv, MatchFilter PROVE GatherInv' OBVIOUS
<1>. USE DEF GatherInv
<1>1. /\ nth \in Nat \ {0} /\ nth' = nth /\ dangling' = dangling
      /\ pc' = "write" /\ todo' = DOMAIN info' /\ UNCHANGED <<units, unit>>
  BY DEF MatchFilter, PhaseOK
<1>2. PhaseOK' BY <1>1 DEF PhaseOK
<1>3. CASE info' = info BY <1>1, <1>2, <1>3 DEF Gathered, NotedTwice
<1>4. ASSUME NEW h \in ToSet(unit) \cap FilterHeader,
             SetInfo(ItemFilter,
               [FeatureInfoPtr(ItemFilter) EXCEPT !.origin = h, !.id = FileId(h)])
      PROVE  GatherInv'
  <2>. PICK old : old = FeatureInfoPtr(ItemFilter) OBVIOUS
  <2>. PICK i : i = FilterEntry(old, h, FileId(h)) OBVIOUS
  <2>1. SetInfo(ItemFilter, i) BY <1>4 DEF FilterEntry
  <2>2. InfoOK(old, nth) BY <1>1, PtrOK
  <2>3. InfoOK(i, nth) /\ i.fields = old.fields BY <2>2, FilterEntryOK
  <2>4. Len(old.fields) \in Nat BY <2>2, LenProperties DEF InfoOK
  <2>5. ItemFilter \in DOMAIN info => Len(i.fields) >= Len(info[ItemFilter].fields)
    <3>1. ItemFilter \in DOMAIN info => old = info[ItemFilter] BY DEF FeatureInfoPtr
    <3>. QED BY <2>3, <2>4, <3>1
  <2>6. /\ Gathered'
        /\ \A x : x \in DOMAIN info /\ Len(info[x].fields) >= 2 =>
                    x \in DOMAIN info' /\ Len(info'[x].fields) >= 2
    BY <1>1, <2>1, <2>3, <2>5, StoreGathers
  <2>. QED BY <1>1, <1>2, <2>6 DEF NotedTwice
<1>. QED BY <1>3, <1>4 DEF MatchFilter

LEMMA WriteDetailGathers == GatherInv /\ WriteDetail => GatherInv'
<1>. SUFFICES ASSUME GatherInv, WriteDetail PROVE GatherInv' OBVIOUS
<1>. USE DEF GatherInv
<1>1. /\ nth \in Nat \ {0} /\ nth' = nth /\ info' = info
      /\ dangling' = dangling \cup UNION {StaleTypes(c) : c \in DOMAIN info}
  BY DEF WriteDetail, PhaseOK
<1>2. ASSUME NEW c \in DOMAIN info, NEW x \in StaleTypes(c)
      PROVE  x = <<c, "type">> /\ nth > 1
  <2>1. x = <<c, "type">> /\ \E a \in DOMAIN info[c].spec : info[c].spec[a].unit # nth
    BY <1>2 DEF StaleTypes
  <2>2. \A a \in DOMAIN info[c].spec : info[c].spec[a].unit \in 1 .. nth
    BY DEF Gathered, InfoOK
  <2>. QED BY <1>1, <2>1, <2>2
<1>3. ASSUME NEW x, <<x, "field">> \in dangling' PROVE <<x, "field">> \in dangling
  BY <1>1, <1>2, <1>3
<1>4. nth <= 1 => dangling' = dangling BY <1>1, <1>2
<1>5. NotedTwice' BY <1>1, <1>3, <1>4 DEF NotedTwice
<1>6. PhaseOK' BY DEF WriteDetail, PhaseOK
<1>7. Gathered' BY <1>1 DEF Gathered
<1>. QED BY <1>5, <1>6, <1>7

LEMMA NextGathers == GatherInv /\ [Next]_vars => GatherInv'
<1>. SUFFICES ASSUME GatherInv, [Next]_vars PROVE GatherInv' OBVIOUS
<1>1. CASE StartUnit BY <1>1, StartUnitGathers
<1>2. CASE TypeAlias BY <1>2, TypeAliasGathers
<1>3. CASE AliasesDone
  <2>1. ClassesOf(unit) \in Seq(Class) BY ClassesOfIs DEF GatherInv, PhaseOK
  <2>2. PhaseOK' BY <1>3, <2>1 DEF AliasesDone, PhaseOK, GatherInv
  <2>. QED BY <1>3, <2>2, KeepsGathers DEF AliasesDone, Keeps
<1>4. CASE VisitClass BY <1>4, VisitClassGathers
<1>5. CASE SkipClass
  <2>1. Tail(todo) \in Seq(Class) BY <1>5, ToSetTail DEF SkipClass, PhaseOK, GatherInv
  <2>2. PhaseOK' BY <1>5, <2>1 DEF SkipClass, PhaseOK, GatherInv
  <2>. QED BY <1>5, <2>2, KeepsGathers DEF SkipClass, Keeps
<1>6. CASE MatchFilter BY <1>6, MatchFilterGathers
<1>7. CASE PassOver
  <2>1. PhaseOK' BY <1>7 DEF PassOver, PhaseOK, GatherInv
  <2>. QED BY <1>7, <2>1, KeepsGathers DEF PassOver, Keeps
<1>8. CASE WriteFeature
  <2>1. PhaseOK' BY <1>8 DEF WriteFeature, PhaseOK, GatherInv
  <2>. QED BY <1>8, <2>1, KeepsGathers DEF WriteFeature, Keeps
<1>9. CASE WriteDetail BY <1>9, WriteDetailGathers
<1>10. CASE WriteFilter
  <2>1. PhaseOK' BY <1>10 DEF WriteFilter, PhaseOK, GatherInv
  <2>. QED BY <1>10, <2>1, KeepsGathers DEF WriteFilter, Keeps
<1>11. CASE UNCHANGED vars
  <2>1. PhaseOK' BY <1>11 DEF vars, PhaseOK, GatherInv
  <2>. QED BY <1>11, <2>1, KeepsGathers DEF vars, Keeps
<1>. QED BY <1>1, <1>2, <1>3, <1>4, <1>5, <1>6, <1>7, <1>8, <1>9, <1>10, <1>11
     DEF Next, Finished

(* What CtorVisitor adds to a class is added once for each visit, and no    *)
(* node of a former AST is read in the first unit or of a class met once.   *)
THEOREM GatheredOnce == Spec => []CleanWhenDisjoint
<1>1. GatherInv => CleanWhenDisjoint
  <2>. SUFFICES ASSUME GatherInv PROVE CleanWhenDisjoint OBVIOUS
  <2>1. ASSUME NEW c \in DOMAIN info, Len(info[c].fields) <= 1
        PROVE  /\ info[c].ctorEnums <= 1 /\ info[c].pushed <= 1
               /\ <<c, "field">> \notin dangling
    <3>1. /\ Len(info[c].fields) \in Nat
          /\ info[c].ctorEnums \in 0 .. Len(info[c].fields)
          /\ info[c].pushed \in 0 .. Len(info[c].fields)
      BY LenProperties DEF GatherInv, Gathered, InfoOK
    <3>. QED BY <2>1, <3>1 DEF GatherInv, NotedTwice
  <2>. QED BY <2>1 DEF GatherInv, NotedTwice, CleanWhenDisjoint
<1>. QED BY <1>1, InitGathers, NextGathers, PTL DEF Spec

-----------------------------------------------------------------------------
(* Where the entries and the edited buffers are                            *)

PlaceInv == OriginOK /\ EditedOK /\ Placed

LEMMA InitPlaces == Init => PlaceInv
<1>. SUFFICES ASSUME Init PROVE PlaceInv OBVIOUS
<1>1. /\ unit = << >> /\ edited = {} /\ DOMAIN info = {} /\ pc = "idle"
      /\ ToSet(unit) = {}
  BY DEF Init, ToSet
<1>2. UnitClasses = {} BY <1>1 DEF UnitClasses
<1>. QED BY <1>1, <1>2 DEF PlaceInv, OriginOK, EditedOK, Placed

(* The steps that leave entries and buffers alone.                         *)
LEMMA KeepsPlaces ==
  ASSUME PlaceInv, UNCHANGED <<unit, edited, info>>,
         pc \in {"alias", "class"} => pc' \in {"alias", "class"},
         EditedOK'
  PROVE  PlaceInv'
<1>1. OriginOK' BY DEF PlaceInv, OriginOK
<1>2. Placed' BY DEF PlaceInv, Placed, PlacedIn
<1>. QED BY <1>1, <1>2 DEF PlaceInv

LEMMA TypeAliasPlaces == GatherInv /\ PlaceInv /\ TypeAlias => PlaceInv'
<1>. SUFFICES ASSUME GatherInv, PlaceInv, TypeAlias PROVE PlaceInv' OBVIOUS
<1>. PICK a : a = todo[1] OBVIOUS
<1>. PICK old : old = FeatureInfoPtr(a.of) OBVIOUS
<1>. PICK i : i = AliasEntry(old, a.name, ParamsOf(a.args), nth) OBVIOUS
<1>1. /\ nth \in Nat \ {0} /\ edited = {} /\ edited' = {} /\ pc' = "alias"
      /\ unit' = unit
  BY DEF TypeAlias, GatherInv, PhaseOK, PlaceInv, EditedOK
<1>2. SetInfo(a.of, i) BY DEF TypeAlias, AliasEntry
<1>3. InfoOK(old, nth) BY <1>1, PtrOK DEF GatherInv
<1>4. i.origin = old.origin BY <1>1, <1>3, AliasOK
<1>5. /\ DOMAIN info' = DOMAIN info \cup {a.of} /\ info'[a.of] = i
      /\ \A x \in DOMAIN info : x # a.of => info'[x] = info[x]
  BY <1>2 DEF SetInfo, Store
<1>6. old.origin # NoFile => a.of \in DOMAIN info /\ old.origin = info[a.of].origin
  BY DEF FeatureInfoPtr, NewInfo
<1>7. OriginOK' BY <1>4, <1>5, <1>6 DEF PlaceInv, OriginOK
<1>8. EditedOK' /\ Placed' BY <1>1 DEF EditedOK, Placed
<1>. QED BY <1>7, <1>8 DEF PlaceInv

LEMMA VisitClassPlaces == GatherInv /\ PlaceInv /\ VisitClass => PlaceInv'
<1>. SUFFICES ASSUME GatherInv, PlaceInv, VisitClass PROVE PlaceInv' OBVIOUS
<1>. PICK c : c = todo[1] OBVIOUS
<1>. PICK old : old = FeatureInfoPtr(c) OBVIOUS
<1>. PICK k : k = VisitCtor(c, VisitFields(Located(c, old))) OBVIOUS
<1>1. /\ nth \in Nat \ {0} /\ pc = "class" /\ pc' = "class" /\ unit' = unit
      /\ edited' = edited \cup {c} /\ todo' = Tail(todo) /\ todo # << >>
      /\ c \notin Skipped /\ todo \in Seq(Class)
  BY DEF VisitClass, GatherInv, PhaseOK
<1>2. SetInfo(c, k) BY DEF VisitClass
<1>3. InfoOK(old, nth) BY <1>1, PtrOK DEF GatherInv
<1>4. k.origin = HeaderOf(c) /\ k.id = FileId(HeaderOf(c)) BY <1>1, <1>3, VisitOK
<1>5. /\ DOMAIN info' = DOMAIN info \cup {c} /\ info'[c] = k
      /\ \A x \in DOMAIN info : x # c => info'[x] = info[x]
  BY <1>2 DEF SetInfo, Store
<1>6. c \in Class /\ ToSet(todo) = {c} \cup ToSet(Tail(todo)) BY <1>1, ToSetTail
<1>7. edited \cup (ToSet(todo) \ Skipped) = UnitClasses \ Skipped
  BY <1>1 DEF PlaceInv, EditedOK
<1>8. EditedOK'
  <2>1. edited' \cup (ToSet(todo') \ Skipped) = UnitClasses \ Skipped
    BY <1>1, <1>6, <1>7
  <2>2. UnitClasses' = UnitClasses BY <1>1 DEF UnitClasses
  <2>. QED BY <1>1, <2>1, <2>2 DEF EditedOK
<1>9. OriginOK' BY <1>1, <1>4, <1>5, <1>6 DEF PlaceInv, OriginOK
<1>10. Placed'
  <2>1. c \in UnitClasses BY <1>1, <1>6, <1>7
  <2>2. PICK h \in ToSet(unit) : c \in ToSet(ClassesIn[h]) BY <2>1 DEF UnitClasses
  <2>3. h \in Header
    BY ElementOfSeq, LenProperties DEF GatherInv, PhaseOK, ToSet
  <2>4. HeaderOf(c) \in ToSet(unit) BY <1>6, <2>2, <2>3, HeaderOfIs
  <2>5. PlacedIn(k, {HeaderOf(c)}) BY <1>4, <2>4, FileIdIs DEF PlacedIn
  <2>6. ASSUME NEW x \in edited'
        PROVE  x \in DOMAIN info' /\ PlacedIn(info'[x], {HeaderOf(x)})
    <3>1. CASE x = c BY <1>5, <2>5, <3>1
    <3>2. CASE x # c
      <4>1. x \in DOMAIN info /\ PlacedIn(info[x], {HeaderOf(x)})
        BY <1>1, <2>6, <3>2 DEF PlaceInv, Placed
      <4>. QED BY <1>5, <3>2, <4>1
    <3>. QED BY <3>1, <3>2
  <2>. QED BY <1>1, <2>6 DEF Placed, PlacedIn
<1>. QED BY <1>8, <1>9, <1>10 DEF PlaceInv

LEMMA MatchFilterPlaces == GatherInv /\ PlaceInv /\ MatchFilter => PlaceInv'
<1>. SUFFICES ASSUME GatherInv, PlaceInv, MatchFilter PROVE PlaceInv' OBVIOUS
<1>1. /\ pc = "class" /\ todo = << >> /\ pc' = "write" /\ UNCHANGED <<unit, edited, nth>>
      /\ nth \in Nat
  BY DEF MatchFilter, GatherInv, PhaseOK
<1>2. edited = UnitClasses \ Skipped
  <2>1. ToSet(todo) = {} BY <1>1 DEF ToSet
  <2>. QED BY <1>1, <2>1 DEF PlaceInv, EditedOK
<1>3. EditedOK'
  <2>1. UnitClasses' = UnitClasses BY <1>1 DEF UnitClasses
  <2>. QED BY <1>1, <1>2, <2>1 DEF EditedOK
<1>4. ItemFilter \notin edited BY <1>2, DriverAssumption DEF UnitClasses
<1>5. CASE ToSet(unit) \cap FilterHeader = {}
  <2>1. info' = info BY <1>5 DEF MatchFilter
  <2>2. OriginOK' BY <2>1 DEF PlaceInv, OriginOK
  <2>3. Placed' BY <1>1, <1>5, <2>1 DEF PlaceInv, Placed, PlacedIn
  <2>. QED BY <1>3, <2>2, <2>3 DEF PlaceInv
<1>6. CASE ToSet(unit) \cap FilterHeader # {}
  <2>. PICK old : old = FeatureInfoPtr(ItemFilter) OBVIOUS
  <2>1. PICK h \in ToSet(unit) \cap FilterHeader :
          SetInfo(ItemFilter, FilterEntry(old, h, FileId(h)))
    BY <1>6 DEF MatchFilter, FilterEntry
  <2>. PICK i : i = FilterEntry(old, h, FileId(h)) OBVIOUS
  <2>2. InfoOK(old, nth) BY <1>1, PtrOK DEF GatherInv
  <2>3. i.id = FileId(h) BY <2>2, FilterEntryOK
  <2>4. /\ DOMAIN info' = DOMAIN info \cup {ItemFilter} /\ info'[ItemFilter] = i
        /\ \A x \in DOMAIN info : x # ItemFilter => info'[x] = info[x]
    BY <2>1 DEF SetInfo, Store
  <2>5. OriginOK' BY <2>4 DEF PlaceInv, OriginOK
  <2>6. PlacedIn(i, FilterHeader) BY <2>1, <2>3, FileIdIs DEF PlacedIn
  <2>7. \A x \in edited : x \in DOMAIN info' /\ PlacedIn(info'[x], {HeaderOf(x)})
    BY <1>4, <2>4 DEF PlaceInv, Placed
  <2>8. Placed' BY <1>1, <2>4, <2>6, <2>7 DEF Placed, PlacedIn
  <2>. QED BY <1>3, <2>5, <2>8 DEF PlaceInv
<1>. QED BY <1>5, <1>6

LEMMA NextPlaces == GatherInv /\ PlaceInv /\ [Next]_vars => PlaceInv'
<1>. SUFFICES ASSUME GatherInv, PlaceInv, [Next]_vars PROVE PlaceInv' OBVIOUS
<1>1. CASE StartUnit
  <2>1. edited' = {} /\ pc' = "alias" /\ info' = info BY <1>1 DEF StartUnit
  <2>2. OriginOK' BY <2>1 DEF PlaceInv, OriginOK
  <2>3. EditedOK' /\ Placed' BY <2>1 DEF EditedOK, Placed
  <2>. QED BY <2>2, <2>3 DEF PlaceInv
<1>2. CASE TypeAlias BY <1>2, TypeAliasPlaces
<1>3. CASE AliasesDone
  <2>1. /\ pc = "alias" /\ pc' = "class" /\ todo' = ClassesOf(unit)
        /\ UNCHANGED <<unit, edited, info>> /\ unit \in Seq(Header)
    BY <1>3 DEF AliasesDone, GatherInv, PhaseOK
  <2>2. edited = {} BY <2>1 DEF PlaceInv, EditedOK
  <2>3. ToSet(ClassesOf(unit)) = UnitClasses
    <3>1. /\ ClassesOf(unit) \in Seq(Class)
          /\ \A c : c \in ToSet(ClassesOf(unit))
                      <=> \E h \in ToSet(unit) : c \in ToSet(ClassesIn[h])
      BY <2>1, ClassesOfIs
    <3>2. ToSet(ClassesOf(unit)) \subseteq Class
      BY <3>1, ElementOfSeq, LenProperties DEF ToSet
    <3>. QED BY <3>1, <3>2 DEF UnitClasses
  <2>4. UnitClasses' = UnitClasses BY <2>1 DEF UnitClasses
  <2>5. EditedOK' BY <2>1, <2>2, <2>3, <2>4 DEF EditedOK
  <2>. QED BY <2>1, <2>5, KeepsPlaces
<1>4. CASE VisitClass BY <1>4, VisitClassPlaces
<1>5. CASE SkipClass
  <2>1. /\ pc = "class" /\ pc' = "class" /\ todo # << >> /\ todo[1] \in Skipped
        /\ todo' = Tail(todo) /\ UNCHANGED <<unit, edited, info>> /\ todo \in Seq(Class)
    BY <1>5 DEF SkipClass, GatherInv, PhaseOK
  <2>2. ToSet(todo) \ Skipped = ToSet(todo') \ Skipped BY <2>1, ToSetTail
  <2>3. UnitClasses' = UnitClasses BY <2>1 DEF UnitClasses
  <2>4. EditedOK' BY <2>1, <2>2, <2>3 DEF EditedOK, PlaceInv
  <2>. QED BY <2>1, <2>4, KeepsPlaces
<1>6. CASE MatchFilter BY <1>6, MatchFilterPlaces
<1>7. CASE PassOver \/ WriteFeature \/ WriteDetail \/ WriteFilter
  <2>1. /\ pc \notin {"alias", "class"} /\ pc' \notin {"alias", "class"}
        /\ UNCHANGED <<unit, edited, info>>
    BY <1>7 DEF PassOver, WriteFeature, WriteDetail, WriteFilter
  <2>2. UnitClasses' = UnitClasses BY <2>1 DEF UnitClasses
  <2>3. EditedOK' BY <2>1, <2>2 DEF EditedOK, PlaceInv
  <2>. QED BY <2>1, <2>3, KeepsPlaces
<1>8. CASE UNCHANGED vars
  <2>1. UNCHANGED <<unit, edited, info, pc, todo>> BY <1>8 DEF vars
  <2>2. UnitClasses' = UnitClasses BY <2>1 DEF UnitClasses
  <2>3. EditedOK' BY <2>1, <2>2 DEF EditedOK, PlaceInv
  <2>. QED BY <2>1, <2>3, KeepsPlaces
<1>. QED BY <1>1, <1>2, <1>3, <1>4, <1>5, <1>6, <1>7, <1>8 DEF Next, Finished

-----------------------------------------------------------------------------
(* The files                                                               *)

FileInv == FileUnits /\ SourceOK /\ OwnText

LEMMA InitFiles == Init => FileInv
<1>. SUFFICES ASSUME Init PROVE FileInv OBVIOUS
<1>1. PICK old \in {{}, Header} :
        files = [p \in {<<"h", h>> : h \in old} |->
                   [of |-> p[2], bodies |-> {}, class |-> NoFile, unit |-> 0,
                    includes |-> << >>]]
  BY DEF Init
<1>2. \A p \in DOMAIN files : p[1] = "h" /\ files[p].unit = 0 BY <1>1
<1>3. <<"filter">> \notin DOMAIN files /\ \A h : <<"cc", h>> \notin DOMAIN files
  BY <1>2
<1>4. nth = 0 BY DEF Init
<1>. QED BY <1>2, <1>3, <1>4 DEF FileInv, FileUnits, SourceOK, OwnText, WrittenNow

(* What is written of a class is written from the buffer of its header, if  *)
(* this unit has the header, and from no buffer of its header, if not.      *)
LEMMA BufferIs ==
  ASSUME GatherInv, PlaceInv, pc = "write", NEW c \in DOMAIN info,
         c # ItemFilter, info[c].origin # NoFile
  PROVE  LET h == info[c].origin
             text == EditBuffer(info[c].id)
         IN  /\ h \in Header /\ c \in ToSet(ClassesIn[h])
             /\ text.of = h <=> h \in ToSet(unit)
             /\ text.of = h => text.bodies = ToSet(ClassesIn[h]) \ Skipped
<1>. PICK h : h = info[c].origin OBVIOUS
<1>. PICK d : d = info[c].id OBVIOUS
<1>. PICK text : text = EditBuffer(d) OBVIOUS
<1>1. c \in Class \ Skipped /\ h = HeaderOf(c) BY DEF PlaceInv, OriginOK
<1>2. h \in Header /\ c \in ToSet(ClassesIn[h]) BY <1>1, HeaderOfIs
<1>3. edited = UnitClasses \ Skipped BY DEF PlaceInv, EditedOK
<1>4. /\ d \in DOMAIN unit => text = [of |-> unit[d],
                                      bodies |-> edited \cap ToSet(ClassesIn[unit[d]])]
      /\ d \notin DOMAIN unit => text = [of |-> Invalid, bodies |-> {}]
  BY DEF EditBuffer
<1>5. ASSUME text.of = h PROVE h \in ToSet(unit)
  <2>1. d \in DOMAIN unit /\ unit[d] = h BY <1>2, <1>4, <1>5, DriverAssumption
  <2>. QED BY <2>1 DEF ToSet
<1>6. ASSUME h \in ToSet(unit)
      PROVE  text.of = h /\ text.bodies = ToSet(ClassesIn[h]) \ Skipped
  <2>1. c \in edited BY <1>1, <1>2, <1>3, <1>6 DEF UnitClasses
  <2>2. d \in DOMAIN unit /\ unit[d] = h BY <1>1, <2>1 DEF PlaceInv, Placed, PlacedIn
  <2>3. text.of = h /\ text.bodies = edited \cap ToSet(ClassesIn[h]) BY <1>4, <2>2
  <2>4. ToSet(ClassesIn[h]) \subseteq Class BY <1>2 DEF Class
  <2>5. ToSet(ClassesIn[h]) \subseteq UnitClasses BY <1>6, <2>4 DEF UnitClasses
  <2>. QED BY <1>3, <2>3, <2>5
<1>. QED BY <1>2, <1>5, <1>6

(* The .h and, but for a template, the .cc: the rest stays.                 *)
LEMMA WriteFeatureFiles ==
  ASSUME WriteFeature, GatherInv
  PROVE  \E c \in DOMAIN info :
           LET h == info[c].origin IN
           /\ ~ PassedOver(c)
           /\ DOMAIN files \cup {<<"h", h>>} \subseteq DOMAIN files'
           /\ DOMAIN files' \subseteq DOMAIN files \cup {<<"h", h>>, <<"cc", h>>}
           /\ files'[<<"h", h>>] = HeaderFile(c, EditBuffer(info[c].id))
           /\ c \notin Template =>
                <<"cc", h>> \in DOMAIN files' /\ files'[<<"cc", h>>] = SourceFile(c)
           /\ \A p \in DOMAIN files : p \notin {<<"h", h>>, <<"cc", h>>} => files'[p] = files[p]
<1>1. PICK c \in todo :
        /\ ~ PassedOver(c)
        /\ LET h == info[c].origin
               header == Store(files, <<"h", h>>, HeaderFile(c, EditBuffer(info[c].id)))
           IN files' = IF c \in Template THEN header
                       ELSE Store(header, <<"cc", h>>, SourceFile(c))
  BY DEF WriteFeature
<1>. PICK h : h = info[c].origin OBVIOUS
<1>. PICK f : f = HeaderFile(c, EditBuffer(info[c].id)) OBVIOUS
<1>. PICK header : header = Store(files, <<"h", h>>, f) OBVIOUS
<1>2. files' = IF c \in Template THEN header ELSE Store(header, <<"cc", h>>, SourceFile(c))
  BY <1>1
<1>3. c \in DOMAIN info BY DEF WriteFeature, GatherInv, PhaseOK
<1>4. /\ DOMAIN header = DOMAIN files \cup {<<"h", h>>} /\ header[<<"h", h>>] = f
      /\ \A p \in DOMAIN files : p # <<"h", h>> => header[p] = files[p]
  BY DEF Store
<1>5. <<"h", h>> # <<"cc", h>> OBVIOUS
<1>6. CASE c \in Template BY <1>1, <1>2, <1>3, <1>4, <1>6
<1>7. CASE c \notin Template
  <2>1. /\ DOMAIN files' = DOMAIN header \cup {<<"cc", h>>}
        /\ files'[<<"cc", h>>] = SourceFile(c)
        /\ \A p \in DOMAIN header : p # <<"cc", h>> => files'[p] = header[p]
    BY <1>2, <1>7 DEF Store
  <2>. QED BY <1>1, <1>3, <1>4, <1>5, <1>7, <2>1
<1>. QED BY <1>6, <1>7

(* OwnText of one file.                                                    *)
OwnHeader(h, f) ==
  WrittenNow(f) =>
    /\ f.of = h <=> h \in ToSet(unit)
    /\ f.of = h => f.bodies = ToSet(ClassesIn[h]) \ Skipped

OwnFilter(f) ==
  WrittenNow(f) => (f.of \in FilterHeader <=> ToSet(unit) \cap FilterHeader # {})

LEMMA OwnTextParts ==
  OwnText <=> /\ \A h \in Header : <<"h", h>> \in DOMAIN files => OwnHeader(h, files[<<"h", h>>])
              /\ <<"filter">> \in DOMAIN files => OwnFilter(files[<<"filter">>])
BY DEF OwnText, OwnHeader, OwnFilter

LEMMA WriteFeatureOwns ==
  GatherInv /\ PlaceInv /\ FileInv /\ WriteFeature => FileInv'
<1>. SUFFICES ASSUME GatherInv, PlaceInv, FileInv, WriteFeature PROVE FileInv' OBVIOUS
<1>1. /\ pc = "write" /\ UNCHANGED <<unit, nth>> /\ nth \in Nat
  BY DEF WriteFeature, GatherInv, PhaseOK
<1>2. PICK c \in DOMAIN info :
        LET h == info[c].origin IN
        /\ ~ PassedOver(c)
        /\ DOMAIN files \cup {<<"h", h>>} \subseteq DOMAIN files'
        /\ DOMAIN files' \subseteq DOMAIN files \cup {<<"h", h>>, <<"cc", h>>}
        /\ files'[<<"h", h>>] = HeaderFile(c, EditBuffer(info[c].id))
        /\ c \notin Template =>
             <<"cc", h>> \in DOMAIN files' /\ files'[<<"cc", h>>] = SourceFile(c)
        /\ \A p \in DOMAIN files : p \notin {<<"h", h>>, <<"cc", h>>} => files'[p] = files[p]
  BY WriteFeatureFiles
<1>. PICK h : h = info[c].origin OBVIOUS
<1>. PICK text : text = EditBuffer(info[c].id) OBVIOUS
<1>. PICK f : f = HeaderFile(c, text) OBVIOUS
<1>3. c # ItemFilter /\ info[c].origin # NoFile BY <1>2 DEF PassedOver
<1>4. /\ h \in Header /\ c \in ToSet(ClassesIn[h])
      /\ text.of = h <=> h \in ToSet(unit)
      /\ text.of = h => text.bodies = ToSet(ClassesIn[h]) \ Skipped
  BY <1>1, <1>3, BufferIs
<1>5. f.of = text.of /\ f.bodies = text.bodies /\ f.unit = nth /\ f.class = c
  BY DEF HeaderFile
<1>6. <<"h", h>> \in DOMAIN files' /\ files'[<<"h", h>>] = f BY <1>2
<1>7. ASSUME NEW g \in Header, g # h
      PROVE  /\ <<"h", g>> \in DOMAIN files' <=> <<"h", g>> \in DOMAIN files
             /\ <<"cc", g>> \in DOMAIN files' <=> <<"cc", g>> \in DOMAIN files
             /\ <<"h", g>> \in DOMAIN files => files'[<<"h", g>>] = files[<<"h", g>>]
             /\ <<"cc", g>> \in DOMAIN files => files'[<<"cc", g>>] = files[<<"cc", g>>]
  <2>1. <<"h", g>> \notin {<<"h", h>>, <<"cc", h>>} /\ <<"cc", g>> \notin {<<"h", h>>, <<"cc", h>>}
    BY <1>7
  <2>. QED BY <1>2, <2>1
<1>8. /\ <<"filter">> \in DOMAIN files' <=> <<"filter">> \in DOMAIN files
      /\ <<"filter">> \in DOMAIN files => files'[<<"filter">>] = files[<<"filter">>]
  <2>1. <<"filter">> \notin {<<"h", h>>, <<"cc", h>>} OBVIOUS
  <2>. QED BY <1>2, <2>1
<1>9. FileUnits'
  <2>1. ASSUME NEW g \in Header, <<"h", g>> \in DOMAIN files'
        PROVE  files'[<<"h", g>>].unit \in 0 .. nth
    <3>1. CASE g = h
      <4>1. files'[<<"h", g>>].unit = nth BY <1>5, <1>6, <3>1
      <4>. QED BY <1>1, <4>1
    <3>2. CASE g # h BY <1>7, <2>1, <3>2 DEF FileInv, FileUnits
    <3>. QED BY <3>1, <3>2
  <2>2. <<"filter">> \in DOMAIN files' => files'[<<"filter">>].unit \in 0 .. nth
    BY <1>8 DEF FileInv, FileUnits
  <2>3. nth' = nth BY <1>1
  <2>. QED BY <2>1, <2>2, <2>3 DEF FileUnits
<1>10. SourceOK'
  <2>1. ASSUME NEW g \in Header, ToSet(ClassesIn[g]) \cap Template = {},
               <<"cc", g>> \in DOMAIN files'
        PROVE  /\ <<"h", g>> \in DOMAIN files'
               /\ files'[<<"h", g>>].class = files'[<<"cc", g>>].class
    <3>1. CASE g = h
      <4>1. c \notin Template BY <1>4, <2>1, <3>1
      <4>2. files'[<<"cc", h>>].class = c BY <1>2, <4>1 DEF SourceFile
      <4>. QED BY <1>5, <1>6, <3>1, <4>2
    <3>2. CASE g # h BY <1>7, <2>1, <3>2 DEF FileInv, SourceOK
    <3>. QED BY <3>1, <3>2
  <2>. QED BY <2>1 DEF SourceOK
<1>11. OwnText'
  <2>1. OwnHeader(h, f) BY <1>4, <1>5 DEF OwnHeader
  <2>2. ASSUME NEW g \in Header, <<"h", g>> \in DOMAIN files'
        PROVE  OwnHeader(g, files'[<<"h", g>>])
    <3>1. CASE g = h BY <1>6, <2>1, <3>1
    <3>2. CASE g # h BY <1>7, <2>2, <3>2, OwnTextParts DEF FileInv
    <3>. QED BY <3>1, <3>2
  <2>3. <<"filter">> \in DOMAIN files' => OwnFilter(files'[<<"filter">>])
    BY <1>8, OwnTextParts DEF FileInv
  <2>. QED BY <1>1, <2>2, <2>3 DEF OwnText, OwnHeader, OwnFilter, WrittenNow
<1>. QED BY <1>9, <1>10, <1>11 DEF FileInv

(* A step that writes none of these files in a unit that stays.             *)
LEMMA OtherFile ==
  ASSUME FileInv, UNCHANGED <<unit, nth>>,
         NEW K, K = {<<"filter">>} \cup {<<"h", h>> : h \in Header} \cup {<<"cc", h>> : h \in Header},
         DOMAIN files' \cap K = DOMAIN files \cap K,
         \A p \in DOMAIN files \cap K : files'[p] = files[p]
  PROVE  FileInv'
<1>1. \A p \in K : /\ p \in DOMAIN files' <=> p \in DOMAIN files
                   /\ p \in DOMAIN files => files'[p] = files[p]
  OBVIOUS
<1>2. <<"filter">> \in K /\ \A h \in Header : <<"h", h>> \in K /\ <<"cc", h>> \in K OBVIOUS
<1>3. FileUnits' BY <1>1, <1>2 DEF FileInv, FileUnits
<1>4. SourceOK' BY <1>1, <1>2 DEF FileInv, SourceOK
<1>5. OwnText' BY <1>1, <1>2 DEF FileInv, OwnText, WrittenNow
<1>. QED BY <1>3, <1>4, <1>5 DEF FileInv

LEMMA WriteFilterOwns ==
  GatherInv /\ PlaceInv /\ FileInv /\ WriteFilter => FileInv'
<1>. SUFFICES ASSUME GatherInv, PlaceInv, FileInv, WriteFilter PROVE FileInv' OBVIOUS
<1>1. /\ pc = "filter" /\ UNCHANGED <<unit, nth>> /\ nth \in Nat
  BY DEF WriteFilter, GatherInv, PhaseOK
<1>2. CASE ItemFilter \notin DOMAIN info
  <2>1. files' = files BY <1>2 DEF WriteFilter
  <2>. QED BY <1>1, <2>1, OtherFile
<1>3. CASE ItemFilter \in DOMAIN info
  <2>. PICK d : d = info[ItemFilter].id OBVIOUS
  <2>. PICK f : f = [of |-> EditBuffer(d).of, unit |-> nth] OBVIOUS
  <2>1. files' = Store(files, <<"filter">>, f) BY <1>3 DEF WriteFilter
  <2>2. /\ DOMAIN files' = DOMAIN files \cup {<<"filter">>} /\ files'[<<"filter">>] = f
        /\ \A p \in DOMAIN files : p # <<"filter">> => files'[p] = files[p]
    BY <2>1 DEF Store
  <2>3. \A h : /\ <<"h", h>> # <<"filter">> /\ <<"cc", h>> # <<"filter">> OBVIOUS
  <2>4. \A h : /\ <<"h", h>> \in DOMAIN files' <=> <<"h", h>> \in DOMAIN files
               /\ <<"cc", h>> \in DOMAIN files' <=> <<"cc", h>> \in DOMAIN files
               /\ <<"h", h>> \in DOMAIN files => files'[<<"h", h>>] = files[<<"h", h>>]
               /\ <<"cc", h>> \in DOMAIN files => files'[<<"cc", h>>] = files[<<"cc", h>>]
    BY <2>2, <2>3
  <2>5. EditBuffer(d).of = IF d \in DOMAIN unit THEN unit[d] ELSE Invalid
    BY DEF EditBuffer
  <2>6. EditBuffer(d).of \in FilterHeader <=> ToSet(unit) \cap FilterHeader # {}
    <3>1. ASSUME EditBuffer(d).of \in FilterHeader PROVE ToSet(unit) \cap FilterHeader # {}
      <4>1. d \in DOMAIN unit /\ unit[d] \in FilterHeader
        BY <2>5, <3>1, DriverAssumption
      <4>. QED BY <4>1 DEF ToSet
    <3>2. ASSUME ToSet(unit) \cap FilterHeader # {} PROVE EditBuffer(d).of \in FilterHeader
      BY <1>1, <2>5, <3>2 DEF PlaceInv, Placed, PlacedIn
    <3>. QED BY <3>1, <3>2
  <2>7. FileUnits' BY <1>1, <2>2, <2>4 DEF FileInv, FileUnits
  <2>8. SourceOK' BY <2>4 DEF FileInv, SourceOK
  <2>9. OwnText'
    <3>1. OwnFilter(f) BY <2>6 DEF OwnFilter
    <3>2. \A h \in Header : <<"h", h>> \in DOMAIN files' => OwnHeader(h, files'[<<"h", h>>])
      BY <2>4, OwnTextParts DEF FileInv
    <3>. QED BY <1>1, <2>2, <3>1, <3>2 DEF OwnText, OwnHeader, OwnFilter, WrittenNow
  <2>. QED BY <2>7, <2>8, <2>9 DEF FileInv
<1>. QED BY <1>2, <1>3

LEMMA NextFiles == GatherInv /\ PlaceInv /\ FileInv /\ [Next]_vars => FileInv'
<1>. SUFFICES ASSUME GatherInv, PlaceInv, FileInv, [Next]_vars PROVE FileInv' OBVIOUS
<1>1. CASE StartUnit
  <2>1. nth \in Nat /\ nth' = nth + 1 /\ files' = files
    BY <1>1 DEF StartUnit, GatherInv, PhaseOK
  <2>2. FileUnits' BY <2>1 DEF FileInv, FileUnits
  <2>3. SourceOK' BY <2>1 DEF FileInv, SourceOK
  <2>4. \A h \in Header : <<"h", h>> \in DOMAIN files => files[<<"h", h>>].unit # nth + 1
    BY <2>1 DEF FileInv, FileUnits
  <2>5. <<"filter">> \in DOMAIN files => files[<<"filter">>].unit # nth + 1
    BY <2>1 DEF FileInv, FileUnits
  <2>6. OwnText' BY <2>1, <2>4, <2>5 DEF OwnText, WrittenNow
  <2>. QED BY <2>2, <2>3, <2>6 DEF FileInv
<1>2. CASE TypeAlias \/ AliasesDone \/ VisitClass \/ SkipClass \/ MatchFilter \/ PassOver
           \/ UNCHANGED vars
  <2>1. UNCHANGED <<files, unit, nth>>
    BY <1>2 DEF TypeAlias, AliasesDone, VisitClass, SkipClass, MatchFilter, PassOver, vars
  <2>. QED BY <2>1, OtherFile
<1>3. CASE WriteFeature BY <1>3, WriteFeatureOwns
<1>4. CASE WriteDetail
  <2>. PICK f : f = [c \in DOMAIN info |-> GenOutput(c)] OBVIOUS
  <2>1. files' = Store(files, <<"detail">>, f) /\ UNCHANGED <<unit, nth>>
    BY <1>4 DEF WriteDetail
  <2>2. /\ DOMAIN files' = DOMAIN files \cup {<<"detail">>}
        /\ \A p \in DOMAIN files : p # <<"detail">> => files'[p] = files[p]
    BY <2>1 DEF Store
  <2>. DEFINE K == {<<"filter">>} \cup {<<"h", h>> : h \in Header} \cup {<<"cc", h>> : h \in Header}
  <2>3. <<"detail">> \notin K OBVIOUS
  <2>. HIDE DEF K
  <2>4. DOMAIN files' \cap K = DOMAIN files \cap K BY <2>2, <2>3
  <2>5. \A p \in DOMAIN files \cap K : files'[p] = files[p] BY <2>2, <2>3
  <2>. QED BY <2>1, <2>4, <2>5, OtherFile DEF K
<1>5. CASE WriteFilter BY <1>5, WriteFilterOwns
<1>. QED BY <1>1, <1>2, <1>3, <1>4, <1>5 DEF Next, Finished

-----------------------------------------------------------------------------
LEMMA DriverInit == Init => IInv
BY InitGathers, InitPlaces, InitFiles DEF IInv, PlaceInv, FileInv

LEMMA DriverNext == IInv /\ [Next]_vars => IInv'
<1>. SUFFICES ASSUME IInv, [Next]_vars PROVE IInv' OBVIOUS
<1>1. GatherInv /\ PlaceInv /\ FileInv BY DEF IInv, PlaceInv, FileInv
<1>2. GatherInv' BY <1>1, NextGathers
<1>3. PlaceInv' BY <1>1, NextPlaces
<1>4. FileInv' BY <1>1, NextFiles
<1>. QED BY <1>2, <1>3, <1>4 DEF IInv, PlaceInv, FileInv

(* handle_features writes a header the unit in hand includes from its own   *)
(* text, with the bodies of all its classes rewritten, whatever the units   *)
(* before were, and any other header never from its own.                   *)
THEOREM TextIsOwn == Spec => []OwnText
<1>1. IInv => OwnText BY DEF IInv
<1>. QED BY <1>1, DriverInit, DriverNext, PTL DEF Spec

(* The .h and .cc of a header without templates are of the same class.      *)
THEOREM SourceWithHeader == Spec => []SourceMatchesHeader
<1>1. IInv => SourceMatchesHeader BY DEF IInv, SourceOK, SourceMatchesHeader
<1>. QED BY <1>1, DriverInit, DriverNext, PTL DEF Spec
=============================================================================
