------------------------------ MODULE EnvScope ------------------------------
(***************************************************************************)
(* The scopes of one visited method: class Env and the order in which      *)
(* ExtractMethodVisitor::recursive_visit opens, stages and closes them.    *)
(*                                                                         *)
(* An Env is created for the method body (the root), for every if statement *)
(* and for every loop, and lives until its statement has been processed, so *)
(* the live ones form a stack.  Reading an adlog field registers a          *)
(* definition "auto <name> = BSFieldHelper::..." in one of the live scopes; *)
(* GeneralRule writes a scope's definitions out when the scope closes.      *)
(***************************************************************************)
EXTENDS EnvNames

CONSTANTS FieldEnum,   \* fields read under the guard is_new_var_not_exists
          RootEnum,    \* of these, reco_user_info fields and adlog_time
          SizeEnum,    \* proto list leaves whose size is read: no guard
          CommonEnum,  \* common info fields, seen in a common info loop
          ExistsEnum,  \* action detail list sizes an iterator test checks
          Constructs,  \* the statement forms the method is made of
          None,        \* "not set" of an absl::optional or an empty text
          MaxDepth,    \* bound: how deep statements nest
          MaxVisit     \* bound: how many nodes the visit meets

ASSUME ScopeAssumption ==
  /\ FieldEnum \cup SizeEnum \cup CommonEnum \cup ExistsEnum \subseteq Enum
  /\ RootEnum \subseteq FieldEnum
  /\ None \notin Name
  /\ MaxDepth \in Nat /\ MaxVisit \in Nat

VARIABLES stack,    \* the live Envs, the root first
          used,     \* used_var_names_ of the root
          visited   \* nodes met so far

envVars == <<stack, used, visited>>

(* One NewVarDef: the name references get, the name its text declares (None *)
(* while the text is empty) and the base name of its exists variable.       *)
Def == [name : Name, text : Name \cup {None}, exists : Name \cup {None}]
NoDef == [name |-> NoName, text |-> None, exists |-> None]

LoopMarks == {"prepare", "listMap", "intList"}
IfMarks == {"action", "include", "itemPos"}
ItemPosTests == { {}, {"include"}, {"itemPos"} }

Frame == [kind  : {"root", "if", "loop"},
          stage : {"ROOT", "COND", "THEN", "ELSE", "ELSEIF", "END",
                   "INIT", "BODY"},
          marks : SUBSET (LoopMarks \cup IfMarks),
          keys  : SUBSET Enum,
          defs  : [Enum -> Def]]

NewFrame(kind, stage) ==
  [kind |-> kind, stage |-> stage, marks |-> {}, keys |-> {},
   defs |-> [e \in Enum |-> NoDef]]

(* The Envs of a method, the names in use and the size of the method keep    *)
(* their types.                                                             *)
TypeOK ==
  /\ stack \in Seq(Frame)
  /\ used \in SUBSET Name
  /\ visited \in Nat
-----------------------------------------------------------------------------
Top == Len(stack)
Here == stack[Top]

Innermost(S) == IF S = {} THEN 0 ELSE Greatest(S)

(* The scope whose definition of e is visible from scope d, 0 if none.      *)
Find(e, d) == Innermost({k \in 1 .. d : e \in stack[k].keys})

LoopOf(d) == Innermost({k \in 1 .. d : stack[k].kind = "loop"})
PrepareOf(d) == Innermost({k \in 1 .. d : "prepare" \in stack[k].marks})

InCommonInfoBody(d) ==
  PrepareOf(d) # 0 /\ stack[PrepareOf(d)].stage = "BODY"

InIntListLoop(d) == LoopOf(d) # 0 /\ "intList" \in stack[LoopOf(d)].marks

(* Mutant of Target: a common info loop is a loop like any other.            *)
TargetOfAnyLoop(e, d) ==
  IF e \in RootEnum THEN 1
  ELSE IF LoopOf(d) # 0 THEN LoopOf(d) - 1
  ELSE IF stack[d].kind = "if" /\ stack[d].stage = "COND" THEN d - 1
  ELSE d

(* The scope a definition made from scope d belongs to.                     *)
Target(e, d) ==
  IF e \in RootEnum THEN 1
  ELSE IF InCommonInfoBody(d) THEN PrepareOf(d) - 1
  ELSE IF LoopOf(d) # 0 THEN LoopOf(d) - 1
  ELSE IF /\ stack[d].kind = "if"
          /\ "action" \in stack[d].marks \/ stack[d].stage = "COND"
       THEN d - 1
  ELSE d

HasDef(e, d) == Find(e, d) # 0 /\ stack[Find(e, d)].defs[e].text # None

(* Mutant of NameFrom: the definition already in scope is not looked up.     *)
NameFresh(e, d) == FreshName(e, used)

NameFrom(e, d) ==
  IF Find(e, d) # 0 THEN stack[Find(e, d)].defs[e].name ELSE FreshName(e, used)
-----------------------------------------------------------------------------
(* The environment of scope k with d as its definition of e.                *)
With(k, e, d) ==
  [stack EXCEPT ![k].keys = @ \cup {e}, ![k].defs[e] = d]

(* Mutant of AddDef: the name is reserved but never stored.                  *)
AddDefNameless(e, target, text) ==
  /\ stack' = With(target, e, [name |-> None, text |-> text, exists |-> None])
  /\ used' = used \cup {FreshName(e, used)}

(* Mutant of AddDef: only the target's own definitions are looked up.        *)
AddDefUnscoped(e, target, text) ==
  LET name == FreshName(e, used)
  IN IF e \in stack[target].keys
     THEN UNCHANGED <<stack, used>>
     ELSE /\ stack' = With(target, e,
                        [name |-> name, text |-> text, exists |-> None])
          /\ used' = used \cup {name}

(* add_new_def_helper without a name: a definition that is visible from the *)
(* target only gets the text it lacks; otherwise a fresh name is reserved.  *)
AddDef(e, target, text) ==
  LET k == Find(e, target)
      name == FreshName(e, used)
  IN IF k # 0
     THEN /\ stack' = IF stack[k].defs[e].text = None
                      THEN [stack EXCEPT ![k].defs[e].text = text]
                      ELSE stack
          /\ UNCHANGED used
     ELSE /\ stack' = With(target, e,
                        [name |-> name, text |-> text, exists |-> None])
          /\ used' = used \cup {name}

(* add_new_def_helper with the name of the declaration the field initialises;*)
(* a definition that is already visible is renamed, in its text too.        *)
AddNamedDef(e, target, v) ==
  LET k == Find(e, target)
      old == stack[k].defs[e]
      text == IF old.text \in {None, old.name} THEN v ELSE old.text
  IN /\ used' = used \cup {v}
     /\ stack' = IF k # 0
                 THEN [stack EXCEPT
                        ![k].defs[e] = [old EXCEPT !.name = v, !.text = text]]
                 ELSE With(target, e,
                        [name |-> v, text |-> v, exists |-> None])

(* Mutant of AddExists: a definition in scope is named again.                *)
AddExistsRenaming(s, e, target) ==
  LET k == Find(e, target)
      name == FreshName(e, used)
  IN /\ stack' = [s EXCEPT
                    ![IF k # 0 THEN k ELSE target].keys = @ \cup {e},
                    ![IF k # 0 THEN k ELSE target].defs[e].name = name,
                    ![IF k # 0 THEN k ELSE target].defs[e].exists = name]
     /\ used' = used \cup {name}

(* add_new_exists_def_helper.                                               *)
AddExists(s, e, target) ==
  LET k == Find(e, target)
      name == FreshName(e, used)
  IN IF k # 0
     THEN /\ stack' = [s EXCEPT ![k].defs[e].exists = stack[k].defs[e].name]
          /\ UNCHANGED used
     ELSE /\ stack' = [s EXCEPT
                        ![target].keys = @ \cup {e},
                        ![target].defs[e] =
                           [name |-> name, text |-> None, exists |-> name]]
          /\ used' = used \cup {name}
-----------------------------------------------------------------------------
Visit == visited < MaxVisit /\ visited' = visited + 1

InStatements == Top > 0 /\ Here.stage \in {"ROOT", "THEN", "ELSE", "BODY"}
InExpression ==
  \/ InStatements
  \/ Top > 0 /\ Here.stage \in {"COND", "INIT"}
             /\ Here.marks \cap {"include", "itemPos"} = {}

Push(frame) ==
  /\ Top < MaxDepth
  /\ stack' = Append(stack, frame)
  /\ UNCHANGED used

(* The condition of an if may be an item position test and nothing else:    *)
(* pos < adlog.item_size() with the rest of the body inside ("include"), or *)
(* pos >= adlog.item_size() to return ("itemPos").                          *)
EnterIf(test) ==
  /\ InStatements
  /\ test \subseteq Constructs
  /\ Visit
  /\ Push([NewFrame("if", "COND") EXCEPT !.marks = test])

EnterElseIf ==
  /\ Top > 0 /\ Here.stage = "ELSEIF"
  /\ Visit
  /\ Push(NewFrame("if", "COND"))

Stage(s) == [stack EXCEPT ![Top].stage = s]

EnterThen ==
  /\ Top > 0 /\ Here.stage = "COND"
  /\ stack' = Stage("THEN")
  /\ UNCHANGED <<used, visited>>

(* An item position test that includes the rest of the body has no else.    *)
EnterElse(s) ==
  /\ Top > 0 /\ Here.kind = "if" /\ Here.stage = "THEN"
  /\ "include" \notin Here.marks
  /\ s \in {"ELSE", "ELSEIF"} \cap Constructs
  /\ stack' = Stage(s)
  /\ UNCHANGED <<used, visited>>

(* The Env leaves scope; an if statement whose else is the if that closes   *)
(* here has nothing left to visit.                                          *)
Popped ==
  [k \in 1 .. Top - 1 |->
     IF k = Top - 1 /\ stack[k].stage = "ELSEIF"
     THEN [stack[k] EXCEPT !.stage = "END"] ELSE stack[k]]

LeaveIf ==
  /\ Top > 1 /\ Here.kind = "if" /\ Here.stage \in {"THEN", "ELSE", "END"}
  /\ stack' = Popped
  /\ UNCHANGED <<used, visited>>

EnterLoop ==
  /\ "loop" \in Constructs
  /\ InStatements
  /\ Visit
  /\ Push(NewFrame("loop", "INIT"))

EnterBody ==
  /\ Top > 0 /\ Here.stage = "INIT"
  /\ stack' = Stage("BODY")
  /\ UNCHANGED <<used, visited>>

LeaveLoop ==
  /\ Top > 1 /\ Here.kind = "loop" /\ Here.stage = "BODY"
  /\ stack' = Popped
  /\ UNCHANGED <<used, visited>>

(* What the range of a loop turns out to be: a repeated common info, the    *)
(* list or map of one of its elements, or an int list member of the class.  *)
(* Methods do not iterate over one common info inside another.              *)
MarkLoop(m) ==
  /\ Top > 0 /\ Here.stage = "INIT" /\ Here.marks = {}
  /\ m \in LoopMarks \cap Constructs
  /\ m = "prepare" => PrepareOf(Top) = 0
  /\ m = "listMap" => InCommonInfoBody(Top)
  /\ stack' = [stack EXCEPT ![Top].marks = {m}]
  /\ UNCHANGED <<used, visited>>

(* A field is read, by a call or a list access: parsed, it defines itself    *)
(* unless a definition with a text is visible.                              *)
RefField(e) ==
  /\ InExpression
  /\ Visit
  /\ IF HasDef(e, Top)
     THEN UNCHANGED <<stack, used>>
     ELSE AddDef(e, Target(e, Top), NameFrom(e, Top))

(* The size of a proto list leaf is read: no guard.                          *)
RefListSize(e) ==
  /\ InExpression
  /\ Visit
  /\ AddDef(e, Target(e, Top), NameFrom(e, Top))

(* A common info list is read in a common info loop: the definition is added *)
(* from the scope around the loop.                                          *)
RefCommon(e) ==
  /\ InExpression /\ InCommonInfoBody(Top)
  /\ Visit
  /\ LET parent == PrepareOf(Top) - 1
     IN IF HasDef(e, parent)
        THEN UNCHANGED <<stack, used>>
        ELSE AddDef(e, Target(e, parent), NameFrom(e, Top))

(* "T v = adlog.e();"                                                        *)
DeclareField(v, e) ==
  /\ "named" \in Constructs
  /\ InStatements
  /\ Visit
  /\ IF HasDef(e, Top)
     THEN used' = used \cup {v} /\ UNCHANGED stack
     ELSE AddNamedDef(e, Target(e, Top), v)

(* Any other declaration of v.                                              *)
DeclareVar(v) ==
  /\ InStatements
  /\ Visit
  /\ used' = used \cup {v}
  /\ UNCHANGED stack

(* "if (iter == action_detail.end())": the test of e's list size needs its   *)
(* exists variable, in the parent unless an int list member is iterated.    *)
(* The iterator is the result of a find(), so the list is known.            *)
CheckAction(e) ==
  /\ Top > 0 /\ Here.stage = "COND"
  /\ Here.marks \subseteq {"action"}
  /\ Visit
  /\ AddExists([stack EXCEPT ![Top].marks = {"action"}], e,
               IF InIntListLoop(Top) THEN Top ELSE Target(e, Top))

(* The method body has been visited and its Env is destroyed.               *)
Finish ==
  /\ Top = 1
  /\ stack' = << >>
  /\ UNCHANGED <<used, visited>>
-----------------------------------------------------------------------------
Init ==
  /\ stack = <<NewFrame("root", "ROOT")>>
  /\ used = {}
  /\ visited = 0

Next ==
  \/ \E test \in ItemPosTests : EnterIf(test)
  \/ EnterElseIf \/ EnterThen \/ LeaveIf
  \/ EnterLoop \/ EnterBody \/ LeaveLoop
  \/ \E s \in {"ELSE", "ELSEIF"} : EnterElse(s)
  \/ \E m \in LoopMarks : MarkLoop(m)
  \/ \E e \in FieldEnum : RefField(e)
  \/ \E e \in SizeEnum : RefListSize(e)
  \/ \E e \in CommonEnum : RefCommon(e)
  \/ \E e \in FieldEnum, v \in SourceVar : DeclareField(v, e)
  \/ \E v \in SourceVar : DeclareVar(v)
  \/ \E e \in ExistsEnum : CheckAction(e)
  \/ Finish

Spec == Init /\ [][Next]_envVars
-----------------------------------------------------------------------------
(* Two definitions that are live together never have the same name, unless   *)
(* the method chose it or no name was left (Env::find_valid_new_name).      *)
UniqueNames ==
  \A j, k \in 1 .. Top : \A d \in stack[j].keys, e \in stack[k].keys :
    /\ stack[j].defs[d].name = stack[k].defs[e].name
    /\ stack[j].defs[d].name \notin SourceVar \cup {NoName}
    => j = k /\ d = e

(* A common info loop is replaced as a whole, so no definition may live in   *)
(* it or in a scope nested in it ("必须定义在 common info prepare parent 中",   *)
(* Env.cpp:676).                                                            *)
CommonInfoLoopHoldsNoDef ==
  \A p \in 1 .. Top : \A k \in p .. Top :
    /\ "prepare" \in stack[p].marks /\ stack[p].stage = "BODY"
    /\ \A j \in p .. k : "intList" \notin stack[j].marks
    => stack[k].keys = {}

(* References already written keep their meaning: while a scope lives, its   *)
(* definitions stay in it and keep their names, and what they declare is     *)
(* never replaced; only a declaration of the method may give a definition    *)
(* its own name (Env::add_new_def_helper).                                  *)
DefsStable ==
  [][\A k \in 1 .. Top : \A e \in stack[k].keys :
       k <= Len(stack') =>
         /\ e \in stack'[k].keys
         /\ stack'[k].defs[e].name \in {stack[k].defs[e].name} \cup SourceVar
         /\ \A part \in {"text", "exists"} :
              stack[k].defs[e][part] # None
              => stack'[k].defs[e][part]
                   \in {stack[k].defs[e][part]} \cup SourceVar]_envVars

(* The names the live scopes give to the fields they define.                *)
Scopes ==
  [k \in 1 .. Top |-> [e \in stack[k].keys |-> stack[k].defs[e].name]]

Candidates == UNION {{Suffix(e, i) : i \in 1 .. Len(e)} : e \in Enum}

Table == INSTANCE DefTable
           WITH scopes <- Scopes, Field <- Enum,
                Names <- Candidates \cup SourceVar \cup {NoName},
                OwnNames <- SourceVar, Empty <- NoName

(* The Envs of a method implement a table of scopes: a field is only defined *)
(* where it is not visible, under a name no live definition has, and what is *)
(* visible keeps its name until its scope closes, whatever the order of       *)
(* reads, tests and declarations (find_new_def, add_new_def_helper).          *)
ImplementsTable == Table!TableSpec
=============================================================================
