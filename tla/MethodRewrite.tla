---------------------------- MODULE MethodRewrite ----------------------------
(***************************************************************************)
(* What the rewritten method declares and refers to.                       *)
(*                                                                         *)
(* EnvScope composed with the writers: GeneralRule::process puts the        *)
(* definitions of a scope before its if statement or loop when the scope     *)
(* closes, ExtractMethodVisitor::process_get_bs places those of the root.   *)
(* The output is abstracted to the identifiers its blocks declare and the   *)
(* references that rely on them.                                            *)
(***************************************************************************)
EXTENDS EnvScope

VARIABLES text,      \* text[k]: the output inside scope k so far
          broken,    \* references whose definition is not in scope
          clash,     \* identifiers declared twice in one block
          dangling,  \* else branches the output detached from their if
          firstIf    \* first_if_stmt and its flags in the root Env: "none",
                     \* "open" while it is visited, and what it was then

vars == <<stack, used, visited, text, broken, clash, dangling, firstIf>>

(* The output inside a new scope.  An identifier is a name and "var" or       *)
(* "exists": a definition declares its variable and, apart, its exists one.  *)
NewText ==
  [uses  |-> {},        \* references <<enum, identifier>> to its definitions
   decls |-> {},        \* identifiers declared in the block being written
   src   |-> {},        \* variables declared there by the source
   tests |-> {},        \* action detail its condition checks
   body  |-> "empty"]   \* the then block's statements: "empty", "dropped"
                        \* (only deleted ones so far) or "kept"

-----------------------------------------------------------------------------
(* The identifiers the definition of e in scope k declares when written out. *)
DefIdents(k, e) ==
  LET d == stack[k].defs[e]
  IN (IF d.text = None THEN {} ELSE {<<d.text, "var">>}) \cup
     (IF d.exists = None THEN {} ELSE {<<d.exists, "exists">>})

(* Env::get_all_new_defs.                                                   *)
NewDefs(k) == UNION {DefIdents(k, e) : e \in stack[k].keys}

Doubled(k) ==
  {i \in NewDefs(k) : \E d, e \in stack[k].keys :
     d # e /\ i \in DefIdents(k, d) /\ i \in DefIdents(k, e)}

Unresolved(t, k) ==
  {u \in t[k].uses : u[2] \notin DefIdents(k, u[1])}

(* A definition for which no name was left (Env.cpp:911) declares none.      *)
Named(ids) == {i \in ids : i[1] # NoName}

(* A statement was written in scope Top; only those of a then block are      *)
(* counted against its deleted variables.                                   *)
Body(b) ==
  IF Here.stage # "THEN" \/ text[Top].body = "kept" THEN text[Top].body ELSE b

Statement == [text EXCEPT ![Top].body = Body("kept")]

(* The reference to e the parsed expression is replaced with.               *)
Reference(t, e) ==
  LET k == Find(e, Top)'
  IN [t EXCEPT ![k].uses = @ \cup {<<e, <<NameFrom(e, Top)', "var">>>>}]

Unwritten == UNCHANGED <<broken, clash, dangling, firstIf>>

Read(e) == text' = Reference(Statement, e) /\ Unwritten

ReadField(e) == RefField(e) /\ Read(e)
ReadListSize(e) == RefListSize(e) /\ Read(e)
ReadCommon(e) == RefCommon(e) /\ Read(e)

TestAction(e) ==
  /\ CheckAction(e)
  /\ text' = [text EXCEPT ![Top].tests = {e}]
  /\ Unwritten
-----------------------------------------------------------------------------
(* A declaration that stays in the output.                                  *)
KeepVar(v) ==
  /\ DeclareVar(v)
  /\ v \notin text[Top].src
  /\ clash' = clash \cup ({<<v, "var">>} \cap text[Top].decls)
  /\ text' = [Statement EXCEPT ![Top].decls = @ \cup {<<v, "var">>},
                               ![Top].src = @ \cup {v}]
  /\ UNCHANGED <<broken, dangling, firstIf>>

(* A declaration without initialiser of a class type is deleted.            *)
DropVar(v) ==
  /\ "delete" \in Constructs
  /\ DeclareVar(v)
  /\ v \notin text[Top].src
  /\ text' = [text EXCEPT ![Top].src = @ \cup {v}, ![Top].body = Body("dropped")]
  /\ Unwritten

(* "T v = adlog.e()": when the field's definition is named v the declaration *)
(* loses its type and is an assignment, otherwise it stays.                 *)
DeclareRead(v, e) ==
  /\ DeclareField(v, e)
  /\ v \notin text[Top].src
  /\ LET kept == IF NameFrom(e, Top)' = v THEN {} ELSE {<<v, "var">>}
     IN /\ clash' = clash \cup (kept \cap text[Top].decls)
        /\ text' = Reference([Statement EXCEPT ![Top].decls = @ \cup kept,
                                               ![Top].src = @ \cup {v}],
                             e)
  /\ UNCHANGED <<broken, dangling, firstIf>>
-----------------------------------------------------------------------------
OpenIf(test) ==
  /\ EnterIf(test)
  /\ text' = Append(Statement, NewText)
  /\ firstIf' = IF Top = 1 /\ firstIf.shape = "none"
                THEN [shape |-> "open", before |-> text[1].uses] ELSE firstIf
  /\ UNCHANGED <<broken, clash, dangling>>

OpenElseIf ==
  /\ EnterElseIf /\ text' = Append(text, NewText) /\ Unwritten

StartThen == EnterThen /\ UNCHANGED text /\ Unwritten

(* A new block: nothing is declared in it yet.                              *)
StartElse(s) ==
  /\ EnterElse(s)
  /\ text' = [text EXCEPT ![Top].decls = {}, ![Top].src = {}]
  /\ Unwritten

OpenLoop == EnterLoop /\ text' = Append(Statement, NewText) /\ Unwritten
StartBody == EnterBody /\ UNCHANGED text /\ Unwritten
LoopIs(m) == MarkLoop(m) /\ UNCHANGED text /\ Unwritten

(* Scope Top closes; ids are written before its statement, in its parent.   *)
Closed(t, ids) ==
  [k \in 1 .. Top - 1 |->
     IF k = Top - 1 THEN [t[k] EXCEPT !.decls = @ \cup ids] ELSE t[k]]

(* ActionDetailRule::process replaces an iterator test when the if closes by *)
(* the exists variable that is visible then.                                *)
TestsWritten ==
  [k \in 1 .. Top |->
     [text[k] EXCEPT !.uses = @ \cup
        {<<e, <<stack[k].defs[e].exists, "exists">>>> :
           e \in {d \in text[Top].tests : Find(d, Top) = k}}]]

IsElseIf == stack[Top - 1].stage = "ELSEIF"
IsFirstIf == Top = 2 /\ firstIf.shape = "open"

(* Env::is_all_if_stmt_deleted, which counts only if there is no else.      *)
AllDeleted == Here.stage = "THEN" /\ text[Top].body = "dropped"

(* process_get_bs replaces an item position test that returns.              *)
IsReturn == IsFirstIf /\ "itemPos" \in Here.marks

(* set_first_if_stmt and the two flags that go with it; "before" is what     *)
(* stands above the place the root's definitions go to.                     *)
FirstIfAfter ==
  IF ~IsFirstIf THEN firstIf
  ELSE IF "include" \in Here.marks
       THEN [shape |-> "include", before |-> text[1].uses]
  ELSE IF IsReturn THEN [firstIf EXCEPT !.shape = "return"]
  ELSE [shape |-> "plain", before |-> {}]

(* GeneralRule::process of an if that stays: its definitions come before     *)
(* it.  As the else branch of an if that has definitions of its own it is    *)
(* put into braces together with them; of one that has none it is not.      *)
WriteIf ==
  /\ ~AllDeleted /\ ~IsReturn /\ "include" \notin Here.marks
  /\ LET ids == Named(NewDefs(Top))
         split == IsElseIf /\ NewDefs(Top) # {} /\ NewDefs(Top - 1) = {}
         t == TestsWritten
     IN /\ text' = Closed(t, ids)
        /\ clash' = clash \cup (ids \cap text[Top - 1].decls)
                          \cup Named(Doubled(Top))
        /\ broken' = broken \cup
                       IF split THEN t[Top].uses ELSE Unresolved(t, Top)
        /\ dangling' = dangling \cup IF split THEN {"split"} ELSE {}

(* The if is replaced by the text of its then block, without the braces.    *)
SpliceIf ==
  /\ ~AllDeleted /\ ~IsReturn /\ "include" \in Here.marks
  /\ LET ids == Named(NewDefs(Top))
         inner == text[Top].decls
     IN /\ text' = Closed(text, ids \cup inner)
        /\ clash' = clash \cup ((ids \cup inner) \cap text[Top - 1].decls)
                          \cup (ids \cap inner) \cup Named(Doubled(Top))
        /\ broken' = broken \cup Unresolved(text, Top)
  /\ UNCHANGED dangling

(* The if is replaced by nothing, which leaves an else without statement.   *)
EraseIf ==
  /\ AllDeleted \/ IsReturn
  /\ text' = Closed(text, {})
  /\ dangling' = dangling \cup IF IsElseIf THEN {"bare"} ELSE {}
  /\ UNCHANGED <<broken, clash>>

CloseIf ==
  /\ LeaveIf
  /\ WriteIf \/ SpliceIf \/ EraseIf
  /\ firstIf' = FirstIfAfter

(* GeneralRule::process_loop returns early for the list or map of a common   *)
(* info: nothing is written before that loop.                               *)
CloseLoop ==
  /\ LeaveLoop
  /\ LET silent == "listMap" \in Here.marks
         ids == IF silent THEN {} ELSE Named(NewDefs(Top))
     IN /\ text' = Closed(text, ids)
        /\ clash' = clash \cup (ids \cap text[Top - 1].decls)
                          \cup IF silent THEN {} ELSE Named(Doubled(Top))
        /\ broken' = broken \cup
                       IF silent THEN text[Top].uses ELSE Unresolved(text, Top)
  /\ UNCHANGED <<dangling, firstIf>>

(* process_get_bs: the root's definitions go to the top of the body, or      *)
(* after the first if when that is an item position test.                   *)
PlaceRoot ==
  /\ Finish
  /\ clash' = clash \cup (Named(NewDefs(1)) \cap text[1].decls)
                    \cup Named(Doubled(1))
  /\ broken' = broken \cup Unresolved(text, 1) \cup
                 IF firstIf.shape \in {"return", "include"}
                 THEN firstIf.before ELSE {}
  /\ text' = << >>
  /\ UNCHANGED <<dangling, firstIf>>
-----------------------------------------------------------------------------
RewriteInit ==
  /\ Init
  /\ text = <<NewText>>
  /\ broken = {} /\ clash = {} /\ dangling = {}
  /\ firstIf = [shape |-> "none", before |-> {}]

RewriteNext ==
  \/ \E test \in ItemPosTests : OpenIf(test)
  \/ OpenElseIf \/ StartThen \/ CloseIf
  \/ OpenLoop \/ StartBody \/ CloseLoop
  \/ \E s \in {"ELSE", "ELSEIF"} : StartElse(s)
  \/ \E m \in LoopMarks : LoopIs(m)
  \/ \E e \in FieldEnum : ReadField(e)
  \/ \E e \in SizeEnum : ReadListSize(e)
  \/ \E e \in CommonEnum : ReadCommon(e)
  \/ \E e \in FieldEnum, v \in SourceVar : DeclareRead(v, e)
  \/ \E v \in SourceVar : KeepVar(v) \/ DropVar(v)
  \/ \E e \in ExistsEnum : TestAction(e)
  \/ PlaceRoot

RewriteSpec == RewriteInit /\ [][RewriteNext]_vars
-----------------------------------------------------------------------------
(* A reference that the rewriting writes is in the scope of the definition it *)
(* names ("保证逻辑完全一致", README.md:16).  Only a list size, which is          *)
(* registered without a guard, and two placements take a definition out of    *)
(* the reach of its references: before an else-if, and after an item position *)
(* test at the top of the method.                                           *)
EveryUseDefined ==
  \/ \A u \in broken : u[1] \in SizeEnum
  \/ dangling # {}
  \/ stack = << >> /\ firstIf.shape \in {"return", "include"}

(* No block of the output declares a generated name twice ("防止出现重复定义",   *)
(* Env.cpp:792; NewVarDef.h:57).  A name that the method chose can be: two     *)
(* fields read into variables of one name, or a block spliced into another;   *)
(* and so can that of a list size.                                          *)
NoRedefinition ==
  \A i \in clash : \/ i[1] \in SourceVar
                  \/ \E e \in SizeEnum : \E n \in Starts(e) : i[1] = Suffix(e, n)
=============================================================================
