----------------------------- MODULE CommonInfo -----------------------------
(***************************************************************************)
(* One loop over a repeated common info,                                   *)
(*                                                                         *)
(*   for (attr : common_info_attr()) {                                     *)
(*     if (attr.name_value() == A) { f(attr.int_value()); }                *)
(*     else if (attr.name_value() == B) { ... } }                          *)
(*                                                                         *)
(* and the text it is replaced with: one block per attribute name,         *)
(*                                                                         *)
(*   if (key_A_exists) { f(key_A); }                                       *)
(*   if (!key_B.is_empty()) { ... }                                        *)
(*                                                                         *)
(* While the body is visited, CommonInfoNormal collects a detail for every *)
(* name that is tested (by if or by case) and CommonInfoRule moves the     *)
(* rewritten bodies into the details; GeneralRule::process_loop writes the *)
(* details and drops everything else.  The source's own effect is recorded  *)
(* beside it: "source" holds, for every name, what the loop does when it   *)
(* meets an attribute of that name.                                        *)
(***************************************************************************)
EXTENDS Naturals, Sequences, SequencesExt

CONSTANTS Value,       \* names an attribute can have
          ListValue,   \* of these, the names of lists
          None,        \* "not set", and no variable
          Elem,        \* the loop variable of a range over the list
          Twice,       \* the loop of a statement that is in two loops
          MaxVisit     \* bound: how many nodes the loop body has

ASSUME CommonInfoAssumption ==
  /\ ListValue \subseteq Value
  /\ {None, Elem} \cap Value = {} /\ None # Elem
  /\ Twice \notin Nat
  /\ MaxVisit \in Nat

VARIABLES stack,     \* the statements that are being visited, the loop first
          details,   \* common_info_details_ of CommonInfoNormal
          equal,     \* is_check_equal_
          compared,  \* the overview pass saw a comparison with name_value()
          source,    \* what the source does for each name
          forms,     \* the unusual forms of source met so far
          visited,   \* nodes met so far
          done       \* the loop has been replaced

vars == <<stack, details, equal, compared, source, forms, visited, done>>

(* A statement in a text: the variable it reads, the list loop it runs in    *)
(* (0: none), and whether the text has the header of that loop.             *)
Item == [id : Nat, var : Value \cup {None, Elem}, loop : Nat,
         header : BOOLEAN]

Child == [kind : {"stmt", "if", "range", "for"}, items : Seq(Item)]

Detail == [value  : Value,
           method : {"none", "scalar", "list"},
           isFor  : BOOLEAN,
           filled : BOOLEAN,          \* bs_body_text() is not empty
           pre : Seq(Item), loop : Seq(Item), post : Seq(Item)]

NewDetail(v) ==
  [value |-> v, method |-> "none", isFor |-> FALSE, filled |-> FALSE,
   pre |-> << >>, loop |-> << >>, post |-> << >>]

(* path: the names for which the statement to come is executed; rest: those  *)
(* of the else branch, for a switch those without a case yet.               *)
Frame == [kind  : {"loop", "plain", "if", "else", "range", "for",
                   "switch", "case"},
          path  : SUBSET Value,
          rest  : SUBSET Value,
          test  : Value \cup {None},
          braced : BOOLEAN,         \* of a case: its body is a block
          number : Nat,             \* of a list loop
          block  : Seq(Child)]

NewFrame(kind, path) ==
  [kind |-> kind, path |-> path, rest |-> {}, test |-> None,
   braced |-> TRUE, number |-> 0, block |-> << >>]

Unusual == {"plain", "outside", "or", "again", "caseAgain", "mixed", "empty",
            "caseTail", "fallThrough", "secondList", "wrapped"}

(* A statement as the source executes it, in the list loop number "loop".     *)
Effect == [id : Nat, reads : BOOLEAN, loop : Nat]

(* The visit keeps the types of CommonInfoNormal, and the loop has one detail *)
(* per name, however the names are tested (add_common_info_value).           *)
CommonInfoTypeOK ==
  /\ stack \in Seq(Frame)
  /\ details \in Seq(Detail)
  /\ \A i, j \in 1 .. Len(details) : details[i].value = details[j].value => i = j
  /\ equal \in BOOLEAN /\ compared \in BOOLEAN /\ done \in BOOLEAN
  /\ source \in [Value -> Seq(Effect)]
  /\ forms \subseteq Unusual
  /\ visited \in Nat
-----------------------------------------------------------------------------
Top == Len(stack)
Here == stack[Top]

Values(ds) == {ds[i].value : i \in 1 .. Len(ds)}
Positions(ds, v) == {i \in 1 .. Len(ds) : ds[i].value = v}

(* Mutant of AddValue: a name tested again gets a second detail.             *)
AddValueTwice(ds, v) == Append(ds, NewDetail(v))

(* CommonInfoNormal::add_common_info_value.                                 *)
AddValue(ds, v) == IF v \in Values(ds) THEN ds ELSE Append(ds, NewDetail(v))

AddValues(vs) ==
  LET after[k \in 0 .. Len(vs)] ==
        IF k = 0 THEN details ELSE AddValue(after[k - 1], vs[k])
  IN after[Len(vs)]

IsList(c) == c.kind \in {"range", "for"}
NotIf == {"stmt", "range", "for"}

(* The texts of the children, and of those of some kinds.                    *)
Flat(children) == FlattenSeq([i \in 1 .. Len(children) |-> children[i].items])

FlatOf(children, kinds) ==
  Flat([i \in 1 .. Len(children) |->
          IF children[i].kind \in kinds THEN children[i]
          ELSE [children[i] EXCEPT !.items = << >>]])

(* CommonInfoRule::get_common_info_body_text: what stands before the first   *)
(* list loop, the list loops, and what stands after the first.              *)
BodyText(block) ==
  LET lists == {i \in 1 .. Len(block) : IsList(block[i])}
      first == IF lists = {} THEN Len(block) + 1
               ELSE CHOOSE i \in lists : \A j \in lists : i <= j
  IN [pre  |-> Flat(SubSeq(block, 1, first - 1)),
      loop |-> FlatOf(block, {"range", "for"}),
      post |-> FlatOf(SubSeq(block, first + 1, Len(block)), {"stmt", "if"})]

(* CommonInfoBodyText::set_bs_rewritten_text: an empty loop or post text      *)
(* leaves the old one.                                                      *)
Filled(d, text, nonempty) ==
  LET loop == IF text.loop = << >> THEN d.loop ELSE text.loop
      post == IF text.post = << >> THEN d.post ELSE text.post
  IN [d EXCEPT !.pre = text.pre, !.loop = loop, !.post = post,
               !.filled = nonempty \/ loop # << >> \/ post # << >>]

(* A value is read in the body: the detail added last is the one that gets   *)
(* the method, the first time.                                              *)
WithMethod(ds, m) ==
  IF ds = << >> \/ ds[Len(ds)].method # "none" THEN ds
  ELSE [ds EXCEPT ![Len(ds)].method = m]

(* Env::get_common_attr_int_value: the enclosing if's detail, or the last;   *)
(* a test is the last detail until the next test.                           *)
Resolved == IF details = << >> THEN None ELSE details[Len(details)].value
-----------------------------------------------------------------------------
Visit == ~done /\ visited < MaxVisit /\ visited' = visited + 1

Id == visited + 1

(* The statements of an else are not part of the text that is kept.          *)
WithChild(st, c) ==
  IF st[Len(st)].kind = "else" THEN st
  ELSE [st EXCEPT ![Len(st)].block = Append(@, c)]

Child1(kind, item) == [kind |-> kind, items |-> <<item>>]

InTest == \E k \in 1 .. Top : stack[k].kind \in {"if", "case"}

(* Outside the tests a statement is kept only after "if (attr.name_value()   *)
(* != A) continue;".                                                        *)
Outside == ~InTest /\ equal

(* The second statement of a case without braces is a sibling of the case.   *)
InTail == Here.kind = "case" /\ ~Here.braced /\ Here.block # << >>

FormsHere ==
  (IF Outside THEN {"outside"} ELSE {}) \cup
  (IF InTail THEN {"caseTail"} ELSE {}) \cup
  (IF ~equal /\ \E k \in 1 .. Top : stack[k].kind = "plain" THEN {"plain"} ELSE {})

(* A second list loop of a body is written beside the first; after "!= A"    *)
(* whatever stands beside a range loop is put into it.                      *)
FormsOfList(kind) ==
  LET after == {Here.block[i] : i \in 1 .. Len(Here.block)}
  IN (IF equal /\ \E c \in after : IsList(c) THEN {"secondList"} ELSE {}) \cup
     (IF ~equal /\ Here.kind = "loop" /\
         \E c \in after : c.kind = "range" \/ (kind = "range" /\ c.items # << >>)
      THEN {"wrapped"} ELSE {})

(* Only after a test is it known which of its values an attribute has.       *)
Tested(values) == Here.path \subseteq values /\ Here.path # Value

Executed(reads, loop) ==
  source' = [v \in Value |->
               IF v \in Here.path
               THEN Append(source[v], [id |-> Id, reads |-> reads, loop |-> loop])
               ELSE source[v]]

(* A statement that reads nothing of the attribute, or its scalar value.     *)
Statement(reads) ==
  /\ Visit
  /\ Here.kind \in {"loop", "plain", "if", "else", "case"}
  /\ reads => Tested(Value \ ListValue)
  /\ stack' = WithChild(stack,
                 Child1("stmt", [id |-> Id, loop |-> 0, header |-> FALSE,
                                 var |-> IF reads THEN Resolved ELSE None]))
  /\ details' = IF reads THEN WithMethod(details, "scalar") ELSE details
  /\ Executed(reads, 0)
  /\ forms' = forms \cup FormsHere \cup (FormsOfList("stmt") \ {"secondList"})
  /\ UNCHANGED <<equal, compared, done>>

(* for (x : attr.int_list_value()), or with an index and the list's size.    *)
EnterList(kind) ==
  /\ Visit
  /\ Here.kind \in {"loop", "if", "else", "case"}
  /\ Tested(ListValue)
  /\ stack' = Append(stack, [NewFrame(kind, Here.path) EXCEPT !.number = Id])
  /\ details' = LET ds == WithMethod(details, "list")
                IN IF ds = << >> THEN ds
                   ELSE [ds EXCEPT ![Len(ds)].isFor = (kind = "for")]
  /\ forms' = forms \cup FormsHere \cup FormsOfList(kind)
  /\ UNCHANGED <<equal, compared, source, done>>

(* A statement of such a loop, about the element.                            *)
ListStatement ==
  /\ Visit
  /\ Here.kind \in {"range", "for"}
  /\ stack' = WithChild(stack,
                 Child1("stmt",
                        [id |-> Id, loop |-> Here.number,
                         header |-> Here.kind = "for",
                         var |-> IF Here.kind = "for" THEN Resolved ELSE Elem]))
  /\ Executed(TRUE, Here.number)
  /\ forms' = forms \cup FormsHere
  /\ UNCHANGED <<details, equal, compared, done>>

Closed(c) == WithChild(Front(stack), c)

(* GeneralRule::process_loop replaces a range loop by its bare body.         *)
LeaveList ==
  /\ Here.kind \in {"range", "for"} /\ Here.block # << >>
  /\ stack' = Closed([kind |-> Here.kind, items |-> Flat(Here.block)])
  /\ UNCHANGED <<details, equal, compared, source, forms, visited, done>>

(* An if that does not test the name: of the attribute's type, which the     *)
(* name implies, or of something else.  Its condition is lost.              *)
EnterPlain(ofType) ==
  /\ Visit
  /\ Here.kind = "loop"
  /\ stack' = Append(stack, NewFrame("plain", Here.path))
  /\ forms' = forms \cup IF ofType THEN {} ELSE {"plain"}
  /\ UNCHANGED <<details, equal, compared, source, done>>

LeavePlain ==
  /\ Here.kind = "plain"
  /\ stack' = Closed([kind |-> "if", items |-> << >>])
  /\ UNCHANGED <<details, equal, compared, source, forms, visited, done>>
-----------------------------------------------------------------------------
(* The tests a condition can consist of: one comparison, or two with ||.     *)
Tests == {<<v>> : v \in Value} \cup {<<v, w>> : v, w \in Value}

Distinct(vs) == \A i, j \in 1 .. Len(vs) : vs[i] = vs[j] => i = j

Again(vs) == Range(vs) \cap Values(details) # {}

FormsOf(vs) ==
  (IF Len(vs) > 1 THEN {"or"} ELSE {}) \cup
  (IF Again(vs) THEN {"again"} ELSE {})

(* if (attr.name_value() == A) or (... == A || ... == B), also as an else-if; *)
(* the parser adds a detail for every value and remembers the last.          *)
TestEqual(vs) ==
  /\ Visit
  /\ compared /\ equal
  /\ Here.kind \in {"loop", "plain", "else"}
  /\ Distinct(vs) /\ Range(vs) \subseteq Here.path /\ Range(vs) # Here.path
  /\ stack' = Append(stack, [NewFrame("if", Range(vs))
                               EXCEPT !.rest = Here.path \ Range(vs),
                                      !.test = vs[Len(vs)]])
  /\ details' = AddValues(vs)
  /\ forms' = forms \cup FormsOf(vs)
  /\ UNCHANGED <<equal, compared, source, done>>

EnterElse ==
  /\ Here.kind = "if"
  /\ stack' = [stack EXCEPT ![Top].kind = "else", ![Top].path = Here.rest]
  /\ UNCHANGED <<details, equal, compared, source, forms, visited, done>>

(* Mutant of FillTested: a body that was collected before is replaced.       *)
RefillTested(v, block) ==
  [i \in 1 .. Len(details) |->
     IF i \in Positions(details, v)
     THEN Filled(details[i], BodyText(block), block # << >>)
     ELSE details[i]]

(* CommonInfoRule::process(IfStmt): the then block becomes the body of the   *)
(* value's detail unless that has one.                                      *)
FillTested(v, block) ==
  [i \in 1 .. Len(details) |->
     IF i \in Positions(details, v) /\ ~details[i].filled
     THEN Filled(details[i], BodyText(block), block # << >>)
     ELSE details[i]]

LeaveIf ==
  /\ Here.kind \in {"if", "else"}
  /\ details' = FillTested(Here.test, Here.block)
  /\ stack' = Closed([kind |-> "if", items |-> << >>])
  /\ forms' = forms \cup IF Here.block = << >> THEN {"empty"} ELSE {}
  /\ UNCHANGED <<equal, compared, source, visited, done>>

(* if (attr.name_value() != A) { continue; }: the rest of the loop is for A. *)
TestNotEqual(vs) ==
  /\ Visit
  /\ compared /\ equal
  /\ Here.kind = "loop"
  /\ Distinct(vs) /\ Range(vs) \subseteq Here.path /\ Range(vs) # Here.path
  /\ details' = AddValues(vs)
  /\ equal' = FALSE
  /\ stack' = [WithChild(stack, [kind |-> "if", items |-> << >>])
                 EXCEPT ![Top].path = Range(vs)]
  /\ forms' = forms \cup FormsOf(vs)
                    \cup IF Len(AddValues(vs)) > 1 THEN {"mixed"} ELSE {}
  /\ UNCHANGED <<compared, source, done>>
-----------------------------------------------------------------------------
(* switch (attr.name_value()).                                              *)
EnterSwitch ==
  /\ Visit
  /\ equal
  /\ Here.kind \in {"loop", "plain"}
  /\ stack' = Append(stack, [NewFrame("switch", {}) EXCEPT !.rest = Here.path])
  /\ UNCHANGED <<details, equal, compared, source, forms, done>>

(* case A: or case A: case B:, into which the case before may fall through.  *)
(* Without a comparison in the class there is no CommonInfoNormal.           *)
EnterCase(vs, braced) ==
  /\ Visit
  /\ Here.kind = "switch"
  /\ Distinct(vs) /\ Range(vs) \subseteq Here.rest
  /\ stack' = Append([stack EXCEPT ![Top].rest = @ \ Range(vs)],
                     [NewFrame("case", Here.path \cup Range(vs))
                        EXCEPT !.braced = braced])
  /\ details' = IF compared THEN AddValues(vs) ELSE details
  /\ forms' = forms \cup (IF Again(vs) THEN {"caseAgain"} ELSE {})
                    \cup IF Here.path # {} THEN {"fallThrough"} ELSE {}
  /\ UNCHANGED <<equal, compared, source, done>>

(* The variables of a text, renamed.                                        *)
Renamed(items, from, to) ==
  [i \in 1 .. Len(items) |->
     IF items[i].var = from THEN [items[i] EXCEPT !.var = to] ELSE items[i]]

(* Mutant of Copied: the variables keep the name of the last label.          *)
CopiedVerbatim(d, v) == [d EXCEPT !.value = v]

(* CommonInfoLeaf::copy_except_int_value: the body of d for the name v.      *)
Copied(d, v) ==
  [d EXCEPT !.value = v,
            !.pre = Renamed(@, d.value, v),
            !.loop = Renamed(@, d.value, v),
            !.post = Renamed(@, d.value, v)]

(* The labels before the last have no body of their own: the details that    *)
(* precede the last one get its body, down to the first that has one.        *)
Share(ds) ==
  IF ~ds[Len(ds)].filled THEN ds
  ELSE [i \in 1 .. Len(ds) |->
          IF \A j \in i .. Len(ds) - 1 : ~ds[j].filled
          THEN Copied(ds[Len(ds)], ds[i].value) ELSE ds[i]]

(* CommonInfoRule::process(CaseStmt) takes the statement of the case label:   *)
(* the block, or the first statement if there are no braces.                *)
CaseBlock ==
  IF Here.braced \/ Here.block = << >> THEN Here.block ELSE <<Here.block[1]>>

(* "case A: break;" without braces has the text "break;".                    *)
LeaveCase(breaks) ==
  /\ Here.kind = "case"
  /\ ~breaks => Here.block # << >>
  /\ LET nonempty == ~Here.braced \/ Here.block # << >>
     IN details' = IF details = << >> THEN details
                   ELSE Share([details EXCEPT ![Len(details)] =
                          Filled(@, BodyText(CaseBlock), nonempty)])
  /\ stack' = [Front(stack) EXCEPT
                 ![Top - 1].path = IF breaks THEN {} ELSE Here.path]
  /\ forms' = forms \cup IF Here.braced /\ Here.block = << >> THEN {"empty"} ELSE {}
  /\ UNCHANGED <<equal, compared, source, visited, done>>

LeaveSwitch ==
  /\ Here.kind = "switch"
  /\ stack' = Closed([kind |-> "stmt", items |-> << >>])
  /\ UNCHANGED <<details, equal, compared, source, forms, visited, done>>

(* GeneralRule::process_loop.                                               *)
ReplaceLoop ==
  /\ ~done /\ Here.kind = "loop"
  /\ done' = TRUE
  /\ UNCHANGED <<stack, details, equal, compared, source, forms, visited>>
-----------------------------------------------------------------------------
(* What the generated text does with a statement: the variable it reads and  *)
(* the loop it is in.  Where the loop's header was dropped, "for (idx ...)"  *)
(* is written around the text of all the loops or around nothing.           *)
Run(item, v, loop) ==
  [id |-> item.id, reads |-> IF item.var = Elem THEN v ELSE item.var,
   loop |-> IF ~item.header THEN loop
            ELSE IF loop = 0 THEN item.loop ELSE Twice]

RunAll(items, v, loop) ==
  [i \in 1 .. Len(items) |-> Run(items[i], v, loop)]

FirstLoop(items) ==
  LET looped == {i \in 1 .. Len(items) : items[i].loop # 0}
  IN IF looped = {} THEN 0
     ELSE items[CHOOSE i \in looped : \A j \in looped : i <= j].loop

(* Mutant of Written: what follows the list loop is put into it.             *)
WrittenInLoop(d) ==
  CASE d.method = "none" -> RunAll(d.post, d.value, 0)
    [] d.method = "scalar" -> RunAll(d.pre \o d.post, d.value, 0)
    [] d.method = "list" ->
         RunAll(d.pre, d.value, 0) \o
         RunAll(d.loop \o d.post, d.value,
                IF d.isFor THEN 0 ELSE FirstLoop(d.loop))

(* CommonInfoDetail::get_exists_expr: for a detail of which no value was read *)
(* there is no condition, and the block starts with "if () {".              *)
HasCondition(d) == d.method # "none"

(* CommonInfoNormal::get_bs_rewritten: what the block of a detail holds.  Of  *)
(* one that is neither a scalar nor a list only what follows a list loop is  *)
(* written.                                                                 *)
Written(d) ==
  CASE d.method = "none" -> RunAll(d.post, d.value, 0)
    [] d.method = "scalar" -> RunAll(d.pre \o d.post, d.value, 0)
    [] d.method = "list" ->
         RunAll(d.pre, d.value, 0) \o
         RunAll(d.loop, d.value, IF d.isFor THEN 0 ELSE FirstLoop(d.loop)) \o
         RunAll(d.post, d.value, 0)

(* CommonInfoNormal::get_bs_wrap_text of the loop's body without its ifs:    *)
(* for a range loop everything becomes the body of "for (idx ...)", and of a  *)
(* detail that is neither a scalar nor a list only the empty block is left.  *)
Wrapped(d, block) ==
  LET text == FlatOf(block, NotIf)
  IN CASE d.method = "none" -> << >>
       [] d.method = "scalar" -> RunAll(text, d.value, 0)
       [] d.method = "list" ->
            RunAll(text, d.value, IF d.isFor THEN 0 ELSE FirstLoop(text))

(* Every block the loop is replaced with has a condition.                     *)
Compiles ==
  IF equal THEN \A i \in 1 .. Len(details) : HasCondition(details[i])
  ELSE HasCondition(details[1])

(* The form "unread": the loop tests a name and reads no value under it, as   *)
(* in "else if (attr.name_value() == B) { g(); }".                           *)
Unread ==
  \E v \in Values(details) : \A i \in 1 .. Len(source[v]) : ~source[v][i].reads

(* What the block the loop is replaced with does, for the name v.            *)
Branch(v) ==
  IF equal
  THEN FlattenSeq([i \in 1 .. Len(details) |->
                     IF details[i].value = v THEN Written(details[i]) ELSE << >>])
  ELSE IF details[1].value = v THEN Wrapped(details[1], stack[1].block)
  ELSE << >>

Expected(v) ==
  [i \in 1 .. Len(source[v]) |->
     [source[v][i] EXCEPT !.reads = IF @ THEN v ELSE None]]
-----------------------------------------------------------------------------
Init ==
  /\ stack = <<NewFrame("loop", Value)>>
  /\ details = << >>
  /\ equal = TRUE
  /\ compared \in BOOLEAN
  /\ source = [v \in Value |-> << >>]
  /\ forms = {}
  /\ visited = 0
  /\ done = FALSE

Next ==
  \/ \E reads \in BOOLEAN : Statement(reads)
  \/ \E kind \in {"range", "for"} : EnterList(kind)
  \/ ListStatement \/ LeaveList
  \/ \E ofType \in BOOLEAN : EnterPlain(ofType)
  \/ LeavePlain
  \/ \E vs \in Tests : TestEqual(vs) \/ TestNotEqual(vs)
  \/ EnterElse \/ LeaveIf
  \/ EnterSwitch \/ LeaveSwitch
  \/ \E vs \in Tests, braced \in BOOLEAN : EnterCase(vs, braced)
  \/ \E breaks \in BOOLEAN : LeaveCase(breaks)
  \/ ReplaceLoop

Spec == Init /\ [][Next]_vars
-----------------------------------------------------------------------------
Replaced == done /\ details # << >>

(* Every name whose value the source reads gets a block, and the block does  *)
(* what the source does for that name, in the same order, in the same list  *)
(* loop and with the variable of that name; and every block has a condition: *)
(* the value that a test guards is recorded with the detail of that test,    *)
(* however the tests and the reads are nested ("保证逻辑完全一致", README.md:16). *)
(* Excepted are loops with one of the forms listed as unusual and loops that *)
(* test a name of which they read nothing.                                  *)
SameEffect ==
  Replaced /\ forms = {} /\ ~Unread =>
    /\ Compiles
    /\ \A v \in Value :
         (\E i \in 1 .. Len(source[v]) : source[v][i].reads)
         => Branch(v) = Expected(v)

(* A body is copied to the names that share it with the variable replaced   *)
(* (CommonInfoLeaf.cpp:309): no block of a name reads the variable of        *)
(* another, whatever was tested and read before, unless a name was tested    *)
(* twice or by != among other tests.                                        *)
ReadsOwnVariable ==
  Replaced /\ forms \cap {"mixed", "again", "caseAgain"} = {} =>
    \A v \in Value : \A i \in 1 .. Len(Branch(v)) :
      Branch(v)[i].reads \in {v, None}

(* A body that was collected for a name is never replaced by another.        *)
BodyKept ==
  [][\A i \in 1 .. Len(details) :
       details[i].filled /\ "caseAgain" \notin forms =>
         \A part \in {"value", "pre", "loop", "post"} :
           details'[i][part] = details[i][part]]_vars

=============================================================================
