-------------------------- MODULE CommonInfoFixed --------------------------
(***************************************************************************)
(* A loop over a repeated common info whose attribute names are not known  *)
(* when the class is converted, in its two forms.                          *)
(*                                                                         *)
(* The names are members or template parameters:                           *)
(*                                                                         *)
(*   for (attr : common_info_attr()) {                                     *)
(*     if (attr.name_value() == no_) { f(attr.int_value()); } }            *)
(*                                                                         *)
(* CommonInfoFixedList has one detail per name, and the loop becomes one   *)
(* block per detail.  Or every list is put into a table by its name,       *)
(*                                                                         *)
(*   for (attr : common_info_attr()) {                                     *)
(*     m[attr.name_value()] = &attr.int_list_value();                      *)
(*     s[attr.name_value()] = attr.int_list_value_size(); }                *)
(*   ... m[vec_[i]] ... s[vec_[i]] ...                                     *)
(*                                                                         *)
(* and read with the names in a member vector, which the constructor fills *)
(* with constants: CommonInfoMultiIntList knows which table is read with   *)
(* which vector, and the loop becomes an assignment per name in it.        *)
(*                                                                         *)
(* "source" holds what the source does with an attribute of each name.     *)
(***************************************************************************)
EXTENDS Naturals, FiniteSets, Sequences, SequencesExt

CONSTANTS Name,        \* the members that hold names
          None,        \* no variable
          ListTable,   \* local maps from names to lists
          SizeTable,   \* local maps from names to sizes
          Vector,      \* members of type std::vector<int>
          Key,         \* the names that the vectors hold
          Keys,        \* the names that each vector holds
          MaxVisit,    \* bound: nodes of the loop and reads of the tables
          MaxForms     \* bound: unusual forms with which a loop goes on

Table == ListTable \cup SizeTable

ASSUME CommonInfoFixedAssumption ==
  /\ None \notin Name \cup Table \cup Vector
  /\ ListTable \cap SizeTable = {}
  /\ Keys \in [Vector -> SUBSET Key]
  /\ MaxVisit \in Nat /\ MaxForms \in Nat

VARIABLES listNames, \* of Name, the names of lists
          reads,     \* the reads of the tables, a table with a vector each
          stack,     \* the statements that are being visited, the loop first
          details,   \* common_info_details_ of CommonInfoFixedList
          fields,    \* new_field_defs_ of FeatureInfo: the kind of each name
          tables,    \* attr_map_names_ and attr_size_map_names_
          lists,     \* size_list_connections_: the list table of a size table
          multi,     \* the loop has a CommonInfoMultiIntList
          source, forms, visited, done

loop == <<stack, details, fields>>
table == <<tables, lists, multi>>
input == <<listNames, reads>>
vars == <<input, loop, table, source, forms, visited, done>>

(* How a text reads a name: its scalar, the list, its size, the element of   *)
(* the index of the enclosing for, x.Get(idx), or a loop variable.          *)
Access == {"none", "value", "size", "list", "loopVar", "idx", "elem"}

Item == [id : Nat, name : Name \cup {None}, access : Access, loop : Nat]

Detail == [name : Name, method : {"none", "scalar", "list"},
           size : BOOLEAN,        \* size_method_name_ is set
           inInit : BOOLEAN,      \* is_size_method_in_loop_init_
           isFor : BOOLEAN, hasAddress : BOOLEAN,
           loopVar : Nat,         \* the range loop of list_loop_var_
           pre : Seq(Item), loop : Seq(Item), post : Seq(Item)]

NewDetail(n) ==
  [name |-> n, method |-> "none", size |-> FALSE, inInit |-> FALSE,
   isFor |-> FALSE, hasAddress |-> FALSE, loopVar |-> 0,
   pre |-> << >>, loop |-> << >>, post |-> << >>]

Frame == [kind : {"loop", "plain", "if", "else"}, path : SUBSET Name,
          rest : SUBSET Name, block : Seq(Item)]

NewFrame(kind, path, rest) ==
  [kind |-> kind, path |-> path, rest |-> rest, block |-> << >>]

(* Forms of a loop that the rewriting does not keep (README, CommonInfoFixed). *)
Unusual == {"outside", "plain", "again", "or", "else", "unread",
            "secondList", "sizeBesideRange", "addressBesideList", "first",
            "other", "both", "twoVectors", "sizeFirst", "otherList"}

(* The variables have their types, and CommonInfoFixedList has one detail for *)
(* a name, however often the loop tests it (add_int_name): with two, the      *)
(* loop would become two blocks and the feature two functors of one name.     *)
FixedTypeOK ==
  /\ listNames \subseteq Name
  /\ reads \in Seq(Table \X Vector)
  /\ stack \in Seq(Frame)
  /\ details \in Seq(Detail)
  /\ \A i, j \in 1 .. Len(details) : details[i].name = details[j].name => i = j
  /\ fields \in [Name -> {"none", "scalar", "list"}]
  /\ tables \in Seq(Table)
  /\ lists \in [SizeTable -> ListTable \cup {None}]
  /\ multi \in BOOLEAN /\ done \in BOOLEAN
  /\ forms \subseteq Unusual
-----------------------------------------------------------------------------
Top == Len(stack)
Here == stack[Top]
Id == Len(reads) + visited + 1

Visit ==
  /\ ~done /\ Id <= MaxVisit /\ Cardinality(forms) <= MaxForms
  /\ visited' = visited + 1

Names(ds) == {ds[i].name : i \in 1 .. Len(ds)}

(* Mutant of AddName: a name that is tested again is added again.            *)
AddTwice(ds, n) == Append(ds, NewDetail(n))

(* CommonInfoFixedList::add_int_name.                                       *)
AddName(ds, n) == IF n \in Names(ds) THEN ds ELSE Append(ds, NewDetail(n))

AddNames(ds, ns) ==
  IF Len(ns) = 1 THEN AddName(ds, ns[1]) ELSE AddName(AddName(ds, ns[1]), ns[2])

(* last_mutable_common_info_detail is changed by a read, whichever name the  *)
(* enclosing if tests.                                                      *)
Latest == details[Len(details)]
InLast(d) == [details EXCEPT ![Len(details)] = d]

(* Mutant of AfterRead: the name of the size method makes no list.           *)
AfterReadOfElement(d, access) ==
  CASE access = "value" -> [d EXCEPT !.method = "scalar"]
    [] access = "size"  -> [d EXCEPT !.size = TRUE, !.inInit = FALSE]
    [] access = "list"  -> [d EXCEPT !.method = "list", !.hasAddress = TRUE]
    [] access = "idx"   -> [d EXCEPT !.method = "list"]
    [] OTHER -> d

(* update_env_common_info_fixed_list_leaf_method, _list_method, _size_method *)
(* and _list_method_address: the last read decides the method.              *)
AfterRead(d, access) ==
  CASE access = "value" -> [d EXCEPT !.method = "scalar"]
    [] access = "size"  -> [d EXCEPT !.method = "list", !.size = TRUE,
                                     !.inInit = FALSE]
    [] access = "list"  -> [d EXCEPT !.method = "list", !.hasAddress = TRUE]
    [] access = "idx"   -> [d EXCEPT !.method = "list"]
    [] OTHER -> d

AfterLoop(d, kind) ==
  IF kind = "range"
  THEN [d EXCEPT !.method = "list", !.isFor = FALSE, !.loopVar = Id]
  ELSE [d EXCEPT !.method = "list", !.isFor = TRUE, !.size = TRUE,
                 !.inInit = TRUE]

(* get_bs_scalar_field_def with its exists functor, or get_bs_list_field_def. *)
FieldDef(d) == d.method

(* update_env_common_info_fixed_list_scalar_def and _list_def: the variable  *)
(* of the method and the functor of the class are declared at the first read *)
(* (FeatureInfo::add_field_def does not replace a field).                   *)
Declare(d) ==
  IF fields[d.name] # "none" THEN fields
  ELSE [fields EXCEPT ![d.name] = FieldDef(d)]

(* The items of a block at the places of a set, in their order.             *)
Where(block, places) ==
  FlattenSeq([i \in 1 .. Len(block) |->
                IF i \in places THEN <<block[i]>> ELSE << >>])

(* CommonInfoRule::get_common_info_body_text.                               *)
BodyText(block) ==
  LET looped == {i \in 1 .. Len(block) : block[i].loop # 0}
      first == IF looped = {} THEN Len(block) + 1
               ELSE CHOOSE i \in looped : \A j \in looped : i <= j
  IN [pre  |-> SubSeq(block, 1, first - 1),
      loop |-> Where(block, looped),
      post |-> Where(block, (first .. Len(block)) \ looped)]

(* CommonInfoBodyText::set_bs_rewritten_text.                               *)
Filled(d, text) ==
  [d EXCEPT !.pre = text.pre,
            !.loop = IF text.loop = << >> THEN @ ELSE text.loop,
            !.post = IF text.post = << >> THEN @ ELSE text.post]
-----------------------------------------------------------------------------
Executed(reading, number) ==
  source' = [n \in Name |->
               IF n \in Here.path
               THEN Append(source[n], [id |-> Id, reads |-> reading,
                                       loop |-> number])
               ELSE source[n]]

InHere(f) == [stack EXCEPT ![Top] = f]

ItemOf(access, number) ==
  [id |-> Id, access |-> access, loop |-> number,
   name |-> IF access = "none" THEN None ELSE Latest.name]

WithItem(access, number) ==
  InHere([Here EXCEPT !.block = Append(Here.block, ItemOf(access, number))])

(* What an expression of a test's body reads, and the text that CommonInfo-  *)
(* Rule and SeqListRule write for it: CommonInfoFixed::get_bs_var_name does   *)
(* not look at the index, outside a for it is idx.                          *)
Reads == {<<"value", "value">>, <<"size", "size">>, <<"list", "list">>,
          <<"first", "idx">>}

Plain ==
  /\ Visit
  /\ Here.kind \in {"loop", "plain", "if"}
  /\ stack' = WithItem("none", 0)
  /\ Executed("none", 0)
  /\ forms' = forms \cup IF Here.kind = "if" THEN {} ELSE {"outside"}
  /\ UNCHANGED <<input, details, fields, table, done>>

BlockHas(access) == \E i \in 1 .. Len(Here.block) : Here.block[i].access = access
BlockLoops == \E i \in 1 .. Len(Here.block) : Here.block[i].loop # 0

Read(reading, access) ==
  /\ Visit
  /\ Here.kind = "if"
  /\ IF access = "value" THEN Here.path \cap listNames = {}
     ELSE Here.path \subseteq listNames
  /\ details' = InLast(AfterRead(Latest, access))
  /\ fields' = Declare(AfterRead(Latest, access))
  /\ stack' = WithItem(access, 0)
  /\ Executed(reading, 0)
  /\ forms' = forms
       \cup (IF access = "idx" THEN {"first"} ELSE {})
       \cup (IF access = "size" /\ BlockHas("elem") THEN {"sizeBesideRange"} ELSE {})
       \cup (IF access = "list" /\ BlockHas("elem")
             THEN {"addressBesideList"} ELSE {})
  /\ UNCHANGED <<input, table, done>>

(* for (x : attr.int_list_value()) { f(x); }, or with an index and the size:  *)
(* then every read of the list is the element of that index, also of        *)
(* attr.int_list_value(3 * i + 1).                                          *)
ListLoop(kind, reading) ==
  /\ Visit
  /\ Here.kind = "if" /\ Here.path \subseteq listNames
  /\ kind = "range" => reading = "each"
  /\ details' = InLast(AfterLoop(Latest, kind))
  /\ fields' = Declare(AfterLoop(Latest, kind))
  /\ stack' = WithItem(IF kind = "range" THEN "elem" ELSE "loopVar", Id)
  /\ Executed(reading, Id)
  /\ forms' = forms
       \cup (IF reading = "other" THEN {"other"} ELSE {})
       \cup (IF BlockLoops
             THEN {"secondList"} ELSE {})
       \cup (IF kind = "range" /\ BlockHas("size") THEN {"sizeBesideRange"} ELSE {})
       \cup (IF kind = "range" /\ BlockHas("list")
             THEN {"addressBesideList"} ELSE {})
  /\ UNCHANGED <<input, table, done>>

(* An if that does not test the name.                                       *)
EnterPlain ==
  /\ Visit
  /\ Here.kind = "loop"
  /\ stack' = Append(stack, NewFrame("plain", Here.path, {}))
  /\ forms' = forms \cup {"plain"}
  /\ UNCHANGED <<input, details, fields, table, source, done>>

Tests == {<<n>> : n \in Name} \cup
         {ns \in Name \X Name : ns[1] # ns[2]}

(* if (attr.name_value() == no_), or with ||; the condition's names are added *)
(* (update_env_common_info_fixed_list_touch, _enum_member_ref).             *)
Test(ns) ==
  /\ Visit
  /\ Here.kind \in {"loop", "plain", "else"}
  /\ ToSet(ns) \subseteq Here.path
  /\ stack' = Append(stack, NewFrame("if", ToSet(ns), Here.path \ ToSet(ns)))
  /\ details' = AddNames(details, ns)
  /\ forms' = forms
       \cup (IF ToSet(ns) \cap Names(details) # {} THEN {"again"} ELSE {})
       \cup (IF Len(ns) > 1 THEN {"or"} ELSE {})
       \cup (IF Here.kind = "else" THEN {"else"} ELSE {})
       \cup (IF multi THEN {"both"} ELSE {})
  /\ UNCHANGED <<input, fields, table, source, done>>

EnterElse ==
  /\ Here.kind = "if" /\ Here.rest # {}
  /\ stack' = InHere([Here EXCEPT !.kind = "else", !.path = Here.rest])
  /\ UNCHANGED <<input, details, fields, table, source, forms, visited, done>>

(* CommonInfoRule::process(IfStmt): the body of an if that stands in the loop *)
(* itself goes to the detail added last; an if without a test has none.      *)
Fill(block) == InLast(Filled(Latest, BodyText(block)))

LeaveIf ==
  /\ Here.kind \in {"plain", "if", "else"}
  /\ stack' = Front(stack)
  /\ details' = IF stack[Top - 1].kind # "loop" \/ details = << >> THEN details
                ELSE Fill(IF Here.kind = "plain" THEN << >> ELSE Here.block)
  /\ forms' = forms
       \cup (IF Here.kind # "plain" /\ \A i \in 1 .. Len(Here.block) :
                                         Here.block[i].access = "none"
             THEN {"unread"} ELSE {})
  /\ UNCHANGED <<input, fields, table, source, visited, done>>
-----------------------------------------------------------------------------
(* OverviewHandler::process(CXXOperatorCallExpr) and add_map_vec_connection:  *)
(* before the method is rewritten, the vector with which a table is read;    *)
(* of two the last.                                                         *)
Connect(t) ==
  LET at == {i \in 1 .. Len(reads) : reads[i][1] = t}
  IN IF at = {} THEN None
     ELSE reads[Max(at)][2]

(* add_attr_size_map_name: a size table belongs to the list table that was   *)
(* assigned before it.                                                      *)
ListOf ==
  LET at == {i \in 1 .. Len(tables) : tables[i] \in ListTable}
  IN IF at = {} THEN None ELSE tables[Max(at)]

(* Mutant of Connected: it belongs to the list table assigned after it.      *)
ConnectedLater(t) ==
  IF t \in SizeTable THEN lists
  ELSE [s \in SizeTable |-> IF s \in ToSet(tables) /\ lists[s] = None THEN t
                            ELSE lists[s]]

Connected(t) == IF t \in SizeTable THEN [lists EXCEPT ![t] = ListOf] ELSE lists

(* m[attr.name_value()] = ...; Env::touch_common_info_multi_int_list drops    *)
(* the details of the loop.                                                 *)
Assign(t) ==
  /\ Visit
  /\ Here.kind = "loop"
  /\ t \notin ToSet(tables)
  /\ multi' = TRUE
  /\ details' = << >>
  /\ tables' = Append(tables, t)
  /\ lists' = Connected(t)
  /\ forms' = forms
       \cup (IF details # << >> THEN {"both"} ELSE {})
       \cup (IF t \in SizeTable /\ ListOf = None THEN {"sizeFirst"} ELSE {})
       \cup (IF t \in SizeTable /\ ListOf # None /\ Connect(ListOf) # Connect(t)
             THEN {"otherList"} ELSE {})
  /\ UNCHANGED <<input, stack, fields, source, done>>

(* GeneralRule::process_loop, after CommonInfoRule::process(CXXForRangeStmt). *)
ReplaceLoop ==
  /\ ~done /\ Here.kind = "loop"
  /\ done' = TRUE
  /\ UNCHANGED <<input, loop, table, source, forms, visited>>

Finished == done /\ UNCHANGED vars
-----------------------------------------------------------------------------
(* What the text of an item reads where it is written: under "for (idx ...)", *)
(* after "auto x = key.Get(idx)" for the loop variable x, or beside them.     *)
Runs(d, item, inIdx) ==
  [id |-> item.id, of |-> item.name,
   loop |-> IF inIdx THEN d.loopVar
            ELSE IF item.access = "elem" THEN 0 ELSE item.loop,
   reads |-> CASE item.access = "idx" -> IF inIdx THEN "each" ELSE "undeclared"
               [] item.access = "elem" ->
                    IF inIdx /\ d.loopVar = item.loop THEN "each"
                    ELSE "undeclared"
               [] item.access = "loopVar" ->
                    IF inIdx THEN "undeclared" ELSE "each"
               [] OTHER -> item.access]

RunAll(d, items, inIdx) == [i \in 1 .. Len(items) |-> Runs(d, items[i], inIdx)]

(* Mutant of Written: the statements before the list loop run in it.         *)
WrittenInLoop(d) ==
  IF d.method = "list" /\ ~d.isFor
  THEN RunAll(d, d.pre \o d.loop, TRUE) \o RunAll(d, d.post, FALSE)
  ELSE RunAll(d, d.pre \o d.loop \o d.post, FALSE)

(* CommonInfoFixed::get_exists_expr: nothing without a method; the functor     *)
(* that it calls, or the variable that holds the list, must be declared.      *)
Condition(d) ==
  CASE d.method = "none" -> "empty"
    [] d.method # "none" /\ fields[d.name] = d.method -> "tested"
    [] OTHER -> "undeclared"

(* CommonInfoFixedList::get_bs_rewritten.                                   *)
Written(d) ==
  LET pre == RunAll(d, d.pre, FALSE)
      post == RunAll(d, d.post, FALSE)
  IN CASE d.method = "none" -> post
       [] d.method = "scalar" -> pre \o post
       [] d.method = "list" /\ d.isFor -> pre \o RunAll(d, d.loop, FALSE) \o post
       [] d.method = "list" /\ ~d.isFor ->
            IF d.hasAddress \/ (d.size /\ ~d.inInit) THEN pre \o post
            ELSE pre \o RunAll(d, d.loop, TRUE) \o post

Branch(n) ==
  FlattenSeq([i \in 1 .. Len(details) |->
                IF details[i].name = n THEN Written(details[i]) ELSE << >>])

Expected(n) ==
  [i \in 1 .. Len(source[n]) |->
     [id |-> source[n][i].id, loop |-> source[n][i].loop,
      reads |-> source[n][i].reads,
      of |-> IF source[n][i].reads = "none" THEN None ELSE n]]

(* The keys that the text which replaces the loop assigns in a table.        *)
Assigned(t) ==
  IF details # << >> \/ t \notin ToSet(tables) \/ Connect(t) = None THEN {}
  ELSE Keys[Connect(t)]

(* s[k] = m[k].size(), for the list table m that s belongs to.               *)
Sized(s) ==
  IF lists[s] = None THEN {} ELSE Assigned(s) \cap Assigned(lists[s])

Holds(t, k) == k \in IF t \in SizeTable THEN Sized(t) ELSE Assigned(t)
-----------------------------------------------------------------------------
Init ==
  /\ listNames \in SUBSET Name
  /\ reads \in UNION {[1 .. n -> Table \X Vector] : n \in 0 .. 3}
  /\ stack = <<NewFrame("loop", Name, {})>>
  /\ details = << >>
  /\ fields = [n \in Name |-> "none"]
  /\ tables = << >>
  /\ lists = [s \in SizeTable |-> None]
  /\ multi = FALSE
  /\ source = [n \in Name |-> << >>]
  /\ forms = IF \E i, j \in 1 .. Len(reads) :
                  reads[i][1] = reads[j][1] /\ reads[i][2] # reads[j][2]
             THEN {"twoVectors"} ELSE {}
  /\ visited = 0
  /\ done = FALSE

Next ==
  \/ Plain
  \/ \E r \in Reads : Read(r[1], r[2])
  \/ \E kind \in {"range", "for"}, reading \in {"each", "other"} :
       ListLoop(kind, reading)
  \/ EnterPlain
  \/ \E ns \in Tests : Test(ns)
  \/ EnterElse \/ LeaveIf
  \/ \E t \in Table : Assign(t)
  \/ ReplaceLoop \/ Finished

Spec == Init /\ [][Next]_vars
-----------------------------------------------------------------------------
Has(fs) == forms \cap fs # {}

(* For an attribute of each name, the block that get_bs_rewritten writes for   *)
(* the name executes the statements that the loop of the source executed for  *)
(* it, in their order, inside or outside the same loop over the list, and     *)
(* each reads the value, the list, its size or its elements under that name:  *)
(* the text before, in and after a list loop are kept apart from the first    *)
(* visit to the last write, although they are stored with the detail that     *)
(* was added last.                                                          *)
SameEffectPerName ==
  done /\ details # << >>
  /\ ~Has({"outside", "plain", "again", "or", "else", "unread",
           "secondList", "sizeBesideRange", "addressBesideList", "first",
           "other", "both"})
  => \A n \in Name : Branch(n) = Expected(n)

(* The condition of each name's block is written: get_exists_expr writes none *)
(* for a detail that no read made a scalar or a list, and the functor it       *)
(* calls was declared with the kind that the last read gave the detail,        *)
(* although the field of the first read stays (add_field_def).                *)
ConditionsWritten ==
  done /\ ~Has({"unread", "or", "again"}) =>
    \A i \in 1 .. Len(details) : Condition(details[i]) = "tested"

(* A table that the loop filled holds, where the method reads it with the      *)
(* names of a vector, every name in that vector: the text that replaces the    *)
(* loop assigns the names that OverviewHandler connected the table with, and   *)
(* sizes come from a list table that holds the name as well.                  *)
TablesHold ==
  done /\ ~Has({"both", "twoVectors", "sizeFirst", "otherList"}) =>
    \A i \in 1 .. Len(reads) : reads[i][1] \in ToSet(tables) =>
      \A k \in Keys[reads[i][2]] : Holds(reads[i][1], k)
=============================================================================
