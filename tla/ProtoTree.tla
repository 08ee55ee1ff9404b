------------------------------ MODULE ProtoTree ------------------------------
(***************************************************************************)
(* The tree of adlog fields that proto_parser builds by reflection over the *)
(* protobuf descriptors, and the look-up of an adlog path in it.            *)
(*                                                                         *)
(* build_adlog_tree_from_descriptor recurses over the fields of a message;  *)
(* a frame of `stack' is one live call, with the part of the tree it has    *)
(* built so far, and a subtree becomes a child of the caller's node when    *)
(* its call returns.  When the tree is built, look-ups follow               *)
(* find_proto_path_detail_helper, one step per recursive call.              *)
(*                                                                         *)
(* A node is known by the sequence of child keys that leads to it; a child  *)
(* key is a name, or the number of an enum constant.  An adlog path         *)
(* "adlog.user_info.attr.key:3" is the sequence of its '.' separated parts. *)
(***************************************************************************)
EXTENDS Naturals, FiniteSets, SequencesExt

CONSTANTS Schemas,      \* the descriptor sets to build from
          RootMessage,  \* AdJointLabeledLog
          ActionTypes,  \* messages that map an action to its detail
          UpperNames,   \* enum names that are all upper case, or known not to be
          Keys,         \* bound: the keys of paths that are asked for
          Entries,      \* the look-up functions that callers use
          None

VARIABLES schema,  \* the descriptors
          stack,   \* live calls of build_adlog_tree_from_descriptor
          tree,    \* adlog_root_, a function of the nodes; empty until built
          ask,     \* the look-up under way, or None
          at,      \* the node whose helper runs
          rest,    \* the part of the path it was given
          action,  \* the action key already taken from the path, or None
          res      \* what was found, or None

vars == <<schema, stack, tree, ask, at, rest, action, res>>

N(s) == <<"name", s>>
K(n) == <<"key", n>>        \* "key:n" in a path
Number(n) == <<"number", n>>  \* the child key to_string(n)

-----------------------------------------------------------------------------
(* Descriptors.  A message has fields and nested enums; a field has a name, *)
(* a kind and what the kind refers to (`of': a message, or enum constants). *)

FieldKinds == {"reco", "enum", "mapBasic", "mapMessage", "repeatedBasic",
               "repeatedMessage", "message", "basic", "group"}

Fields(m) == schema[m].fields
HasField(m, name) == \E i \in DOMAIN Fields(m) : Fields(m)[i].name = name

(* ProtoParser::is_descriptor_common_info                                   *)
IsCommonInfo(m) == HasField(m, "name_value") /\ HasField(m, "int_value")

(* Messages do not contain themselves: the recursion has no other bound.    *)
Nesting(f) == f.kind \in {"mapMessage", "repeatedMessage", "message"}
ASSUME AcyclicSchemas ==
  \A s \in Schemas : \E rank \in [DOMAIN s -> 1 .. 5] :
    \A m \in DOMAIN s : \A i \in DOMAIN s[m].fields :
      Nesting(s[m].fields[i]) => rank[s[m].fields[i].of] < rank[m]

-----------------------------------------------------------------------------
(* Nodes and trees.                                                         *)

Type(name, repeated) == [name |-> name, repeated |-> repeated]

(* AdlogNode::AdlogNode; members that are set later have their defaults.    *)
Node(name, type, index) ==
  [name |-> name, type |-> type, index |-> index, enum |-> FALSE,
   list |-> FALSE, map |-> FALSE, fieldTypes |-> {}]

EnumNode(name, type, index) == [Node(name, type, index) EXCEPT !.enum = TRUE]

NoChildren == [p \in {} |-> None]
Leaf(n) == << >> :> n
Grow(sub, n) == sub @@ Leaf(n)

Below(key, child) == [p \in {<<key>> \o q : q \in DOMAIN child} |-> child[Tail(p)]]

(* Mutant of AddChild: a later child takes the place of an earlier one.     *)
AddChildLast(sub, key, child) == Below(key, child) @@ sub

(* AdlogNode::add_child: unordered_map::insert leaves an earlier child.     *)
AddChild(sub, key, child) ==
  IF <<key>> \in DOMAIN sub THEN sub ELSE sub @@ Below(key, child)

(* ProtoParser::add_single_enum and add_enum: each constant under its name  *)
(* and under its number, then the field itself.                             *)
AddConstant(sub, c, type) ==
  LET node == Leaf(EnumNode(c.name, type, c.number))
  IN  AddChild(AddChild(sub, N(c.name), node), Number(c.number), node)

AddEnum(sub, constants, type, field) ==
  AddChild(FoldLeft(LAMBDA s, c : AddConstant(s, c, type), sub, constants),
           N(field), Leaf(EnumNode(field, Type("int64", FALSE), 0)))

(* ProtoParser::build_adlog_tree_common_info                                *)
CommonInfoTree(m, name, index) ==
  LET enums == SelectSeq(schema[m].enums, LAMBDA t : t.isName)
      node  == [Node(name, Type(m, FALSE), index) EXCEPT
                  !.map = (m = "LabelAttr"), !.list = (m # "LabelAttr")]
  IN  Grow(FoldLeft(LAMBDA s, t : AddEnum(s, t.constants, Type(t.name, FALSE), name),
                    NoChildren, enums), node)

(* AdlogNode::is_action_detail_map: the type string is compared as a whole. *)
IsActionMap(n) == n.type.name \in ActionTypes /\ ~n.type.repeated

(* add_all_action_detail_field_types                                        *)
ListFields(sub) ==
  {[name |-> sub[p].name, type |-> sub[p].type] :
     p \in {q \in DOMAIN sub : Len(q) = 2 /\ q[1] = N("list") /\ sub[q].name # ""}}

-----------------------------------------------------------------------------
(* Building: one action per kind of field, and the return of a call.        *)

Call(m, name, index, repeated) ==
  [message |-> m, name |-> name, index |-> index, repeated |-> repeated,
   next |-> 1, sub |-> NoChildren]

Top == stack[Len(stack)]
Building == stack # << >>
AtField == Building /\ Top.next \in DOMAIN Fields(Top.message)
Field == Fields(Top.message)[Top.next]
Index == Top.next - 1

(* The child goes into the caller's node, which turns to its next field.    *)
Attach(frame, key, child) ==
  [frame EXCEPT !.sub = AddChild(frame.sub, key, child), !.next = @ + 1]

Replace(frame) == stack' = [stack EXCEPT ![Len(stack)] = frame]

Built(kind) == AtField /\ Field.kind = kind
Idle == UNCHANGED <<schema, tree, ask, at, rest, action, res>>

AddLeaf(type) ==
  /\ Replace(Attach(Top, N(Field.name), Leaf(Node(Field.name, type, Index))))
  /\ Idle

RecoField == Built("reco") /\ AddLeaf(Type("bytes", FALSE))
BasicField == Built("basic") /\ AddLeaf(Type("basic", FALSE))
MapBasicField == Built("mapBasic") /\ AddLeaf(Type("map", FALSE))
RepeatedBasicField == Built("repeatedBasic") /\ AddLeaf(Type("basic", TRUE))

(* An enum field, also a repeated one: its constants become children of the *)
(* message's node, beside the fields.                                       *)
EnumField ==
  /\ Built("enum")
  /\ Replace([Top EXCEPT
       !.sub = AddEnum(Top.sub, Field.of, Type("enum", FALSE), Field.name),
       !.next = @ + 1])
  /\ Idle

(* A singular group is neither a message nor basic: it is left out.         *)
GroupField == Built("group") /\ Replace([Top EXCEPT !.next = @ + 1]) /\ Idle

(* The recursive call; for a common info it returns at once.                *)
Recurse(repeated) ==
  /\ IF IsCommonInfo(Field.of)
     THEN Replace(Attach(Top, N(Field.name),
                         CommonInfoTree(Field.of, Field.name, Index)))
     ELSE stack' = Append(stack, Call(Field.of, Field.name, Index, repeated))
  /\ Idle

(* Mutant of MessageField: a singular message counts as repeated.           *)
MessageFieldRepeated == Built("message") /\ Recurse(TRUE)

MapMessageField == Built("mapMessage") /\ Recurse(Top.repeated)
RepeatedMessageField == Built("repeatedMessage") /\ Recurse(TRUE)
MessageField == Built("message") /\ Recurse(Top.repeated)

(* The node of a call that has seen every field.                            *)
Finished(frame) ==
  LET node == Node(frame.name, Type(frame.message, frame.repeated), frame.index)
  IN  Grow(frame.sub,
           [node EXCEPT !.fieldTypes =
              IF IsActionMap(node) THEN ListFields(frame.sub) ELSE {}])

Return ==
  /\ Building /\ ~AtField
  /\ IF Len(stack) = 1
     THEN tree' = Finished(Top) /\ stack' = << >>
     ELSE LET caller == stack[Len(stack) - 1]
          IN  /\ stack' = Append(SubSeq(stack, 1, Len(stack) - 2),
                                 Attach(caller, N(Top.name), Finished(Top)))
              /\ UNCHANGED tree
  /\ UNCHANGED <<schema, ask, at, rest, action, res>>

BuildStep ==
  \/ RecoField \/ BasicField \/ MapBasicField \/ RepeatedBasicField
  \/ EnumField \/ GroupField
  \/ MapMessageField \/ RepeatedMessageField \/ MessageField
  \/ Return
-----------------------------------------------------------------------------
(* What a node of the finished tree says of itself.                         *)

Parent(p) == Front(p)
NodesTo(p) == [i \in 1 .. Len(p) |-> SubSeq(p, 1, i)]

IsLabelMap(p) ==
  /\ p # << >>
  /\ tree[Parent(p)].name = "label_info"
  /\ tree[p].name \in {"label_infos", "global_gmv_label_infos"}

IsLabelLeaf(p) == p # << >> /\ IsLabelMap(Parent(p))

IsCommonLeaf(p) ==
  /\ p # << >> /\ tree[p].enum /\ tree[Parent(p)].list
  /\ ~IsLabelLeaf(p) /\ ~IsLabelMap(p)

(* Mutant of AdlogPath: the key of a label_infos leaf is left out.          *)
AdlogPathNoLabelKey(p, key) ==
  FoldLeft(LAMBDA path, q :
             path \o (IF IsCommonLeaf(q) THEN <<K(tree[q].index)>>
                      ELSE IF IsActionMap(tree[q]) THEN <<N(tree[q].name), K(key)>>
                      ELSE <<N(tree[q].name)>>),
           <<N(tree[<< >>].name)>>, NodesTo(p))

(* AdlogNode::get_adlog_path(key)                                           *)
AdlogPath(p, key) ==
  FoldLeft(LAMBDA path, q :
             path \o (IF IsCommonLeaf(q) THEN <<K(tree[q].index)>>
                      ELSE IF IsActionMap(tree[q]) THEN <<N(tree[q].name), K(key)>>
                      ELSE IF IsLabelLeaf(q) THEN <<K(key)>>
                      ELSE <<N(tree[q].name)>>),
           <<N(tree[<< >>].name)>>, NodesTo(p))

(* AdlogNode::get_adlog_path(): a node that needs a key has no path, and    *)
(* those below it are written as if it were the empty string.               *)
BarePath(p) ==
  FoldLeft(LAMBDA path, q :
             IF IsCommonLeaf(q) THEN path \o <<K(tree[q].index)>>
             ELSE IF IsActionMap(tree[q]) \/ IsLabelLeaf(q) THEN <<N("")>>
             ELSE path \o <<N(tree[q].name)>>,
           <<N(tree[<< >>].name)>>, NodesTo(p))

-----------------------------------------------------------------------------
(* Looking up a path.  `entry' is find_proto_path_detail, whose result keeps *)
(* the node it made, or find_proto_node, which returns only the pointer.    *)

IsKey(part) == part[1] = "key"

(* The paths callers write for a node: the one get_adlog_path gives, a      *)
(* common info by its enum name, and a path that goes on past the node.     *)
Spelled(form, p, key) ==
  CASE form = "path" -> AdlogPath(p, key)
    [] form = "bare" -> BarePath(p)
    [] form = "named" -> AdlogPath(Parent(p), key) \o <<N(tree[p].name)>>
    [] form = "past" -> AdlogPath(p, key) \o <<N("id")>>
    [] form = "keyed" -> AdlogPath(p, key) \o <<K(key)>>

Forms == {"path", "bare", "named", "past", "keyed"}
Requests == [form : Forms, key : Keys, entry : Entries, useNameValue : BOOLEAN]

Nothing == [found |-> FALSE, node |-> << >>, made |-> None, type |-> "NONE",
            action |-> None, label |-> None]

Found(p, type) == [Nothing EXCEPT !.found = TRUE, !.node = p, !.type = type]

Ready == stack = << >> /\ ask = None
Looking == ask # None /\ res = None

Ask ==
  /\ Ready
  /\ \E p \in DOMAIN tree, r \in Requests :
       /\ r.form = "named" => p # << >>
       /\ ask' = [path |-> p, form |-> r.form, key |-> r.key, entry |-> r.entry,
                  useNameValue |-> r.useNameValue]
       /\ rest' = Spelled(r.form, p, r.key)
  /\ at' = << >>
  /\ action' = None
  /\ UNCHANGED <<schema, stack, tree, res>>

(* The helper returns r; the callers above it that took an action key from  *)
(* the path add it to what was found and name it an action detail leaf.     *)
Answer(r) ==
  /\ res' = IF r.found /\ action # None
            THEN [r EXCEPT !.action = action, !.type = "ACTION_DETAIL_LEAF"]
            ELSE r
  /\ UNCHANGED <<schema, stack, tree, ask, at, rest, action>>

IsTrain == <<N("adlog"), N("is_train")>>

(* The path names the node itself, is not one of its fields, or is the one  *)
(* field that has no node.                                                  *)
LookupHere ==
  /\ Looking
  /\ \/ rest = IsTrain /\ Answer(Nothing)
     \/ rest = <<N(tree[at].name)>> /\ Answer(Found(at, "NORMAL"))
     \/ rest[1] # N(tree[at].name) /\ Answer(Nothing)

Child == Append(at, rest[2])
Suffix == SubSeq(rest, 3, Len(rest))

AtChild ==
  /\ Looking
  /\ Len(rest) > 1 /\ rest # IsTrain
  /\ rest[1] = N(tree[at].name)

InTree == AtChild /\ ~IsKey(rest[2]) /\ Child \in DOMAIN tree

LookupMissing ==
  AtChild /\ (IsKey(rest[2]) \/ Child \notin DOMAIN tree) /\ Answer(Nothing)

(* A common info list: by key:<number>, by enum name, or the list itself.   *)
(* With use_name_value a number that no enum has gets a node of its own.    *)
LookupCommonInfo ==
  /\ InTree /\ tree[Child].list
  /\ LET byName == Child \o Suffix
         byNumber == Append(Child, Number(Suffix[1][2]))
     IN  Answer(
           IF Suffix = << >> THEN Found(Child, "COMMON_INFO")
           ELSE IF IsKey(Suffix[1])
           THEN IF byNumber \in DOMAIN tree THEN Found(byNumber, "COMMON_INFO")
                ELSE IF ask.useNameValue
                     THEN [Found(Child, "COMMON_INFO") EXCEPT !.made = Suffix[1][2]]
                     ELSE Nothing
           ELSE IF /\ Len(Suffix) = 1 /\ Suffix[1][2] \in UpperNames
                   /\ byName \in DOMAIN tree
                THEN Found(byName, "COMMON_INFO")
                ELSE Nothing)

(* Mutant of WithoutKeys: a key at the end goes as well.                    *)
WithoutAnyKey(path) == SelectSeq(path, LAMBDA part : ~IsKey(part))

(* The key of an action map is no node: every "key:<number>." goes from the *)
(* path, and the look-up continues in the map's node.                       *)
WithoutKeys(path) ==
  LET kept == {i \in DOMAIN path : IsKey(path[i]) => i = Len(path)}
  IN  [j \in 1 .. Cardinality(kept) |->
         path[CHOOSE i \in kept : Cardinality({k \in kept : k <= i}) = j]]

LookupActionDetail ==
  /\ InTree /\ ~tree[Child].list /\ IsActionMap(tree[Child])
  /\ IF Suffix # << >> /\ IsKey(Suffix[1])
     THEN /\ at' = Child
          /\ rest' = WithoutKeys(Tail(rest))
          /\ action' = IF action = None THEN Suffix[1][2] ELSE action
          /\ UNCHANGED <<schema, stack, tree, ask, res>>
     ELSE Answer(IF Suffix = << >> THEN Found(Child, "ACTION_DETAIL_LIST")
                 ELSE Nothing)

(* Every label is the enum constant 0, UNKNOW_NAME, with the key beside it. *)
LookupLabelInfo ==
  /\ InTree /\ ~tree[Child].list /\ ~IsActionMap(tree[Child]) /\ IsLabelMap(Child)
  /\ LET zero == Append(Child, Number(0))
     IN  Answer(
           IF Suffix = << >> THEN Found(Child, "LABEL_INFO_MAP")
           ELSE IF IsKey(Suffix[1]) /\ zero \in DOMAIN tree
                THEN [Found(zero, "LABEL_INFO_LEAF") EXCEPT !.label = Suffix[1][2]]
                ELSE Nothing)

Ordinary(p) == ~tree[p].list /\ ~IsActionMap(tree[p]) /\ ~IsLabelMap(p)

(* An enum field answers for whatever follows it in the path.               *)
LookupEnum ==
  InTree /\ Ordinary(Child) /\ tree[Child].enum /\ Answer(Found(Child, "ENUM"))

LookupDescend ==
  /\ InTree /\ Ordinary(Child) /\ ~tree[Child].enum
  /\ at' = Child
  /\ rest' = Tail(rest)
  /\ UNCHANGED <<schema, stack, tree, ask, action, res>>

LookupStep ==
  \/ LookupHere \/ LookupMissing \/ LookupCommonInfo \/ LookupActionDetail
  \/ LookupLabelInfo \/ LookupEnum \/ LookupDescend

Done ==
  /\ res # None
  /\ ask' = None /\ at' = << >> /\ rest' = << >> /\ action' = None /\ res' = None
  /\ UNCHANGED <<schema, stack, tree>>

Init ==
  /\ schema \in Schemas
  /\ stack = <<Call(RootMessage, "adlog", 0, FALSE)>>
  /\ tree = NoChildren
  /\ ask = None /\ at = << >> /\ rest = << >> /\ action = None /\ res = None

Next == BuildStep \/ Ask \/ LookupStep \/ Done

Spec == Init /\ [][Next]_vars

-----------------------------------------------------------------------------
(* What the tree and the look-ups promise.                                  *)

FieldKindsWithNode == FieldKinds \ {"group"}

IsMessageNode(p) ==
  /\ ~tree[p].enum /\ tree[p].type.name \in DOMAIN schema
  /\ ~IsCommonInfo(tree[p].type.name)

(* The child that stands for field i of a message describes that field.     *)
Describes(n, f, i) ==
  IF f.kind = "enum" THEN n = EnumNode(f.name, Type("int64", FALSE), 0)
  ELSE /\ n.name = f.name /\ n.index = i - 1 /\ ~n.enum
       /\ Nesting(f) => n.type.name = f.of

ConstantNames(f) == IF f.kind = "enum" THEN {f.of[c].name : c \in DOMAIN f.of} ELSE {}

(* Every field of every message has its node, and the node describes it,    *)
(* unless the constants of an enum field that stands before it (or its own)  *)
(* took the field's name among the children.                                *)
FieldsKept ==
  Ready => \A p \in DOMAIN tree : IsMessageNode(p) =>
    LET fields == Fields(tree[p].type.name)
    IN  \A i \in DOMAIN fields :
          fields[i].kind \in FieldKindsWithNode =>
            \/ /\ Append(p, N(fields[i].name)) \in DOMAIN tree
               /\ Describes(tree[Append(p, N(fields[i].name))], fields[i], i)
            \/ \E j \in 1 .. i : fields[i].name \in ConstantNames(fields[j])

(* The field of its parent's message that a node was built for.             *)
BuiltFor(p, kind) ==
  LET fields == Fields(tree[Parent(p)].type.name)
  IN  \E i \in DOMAIN fields : N(fields[i].name) = Last(p) /\ fields[i].kind = kind

(* A message is marked repeated exactly when it or a message around it is.  *)
(* So a map of actions is known as one exactly outside repeated messages:   *)
(* below one, its type string starts with "repeated" and its keys are lost. *)
RepeatedBelowRepeated ==
  Ready => \A p \in DOMAIN tree : IsMessageNode(p) =>
    tree[p].type.repeated
      <=> \E i \in 1 .. Len(p) : BuiltFor(SubSeq(p, 1, i), "repeatedMessage")

ActionMapsAbove(p) == {i \in 1 .. Len(p) : IsActionMap(tree[SubSeq(p, 1, i)])}

(* A path that get_adlog_path wrote for a node and that is found leads to   *)
(* this node again, or to one that it cannot be told from: the same name in *)
(* the same message, or the same number in the same common info.  The keys  *)
(* in the path come back with it.                                           *)
PathLeadsBack ==
  res # None /\ ask.form = "path" /\ res.found =>
    LET p == ask.path
        q == res.node
    IN  /\ res.action = (IF ActionMapsAbove(p) = {} THEN None ELSE ask.key)
        /\ IF IsLabelLeaf(p) THEN IsLabelLeaf(q) /\ Parent(q) = Parent(p)
                                  /\ res.label = ask.key
           ELSE IF res.made # None
           THEN q = Parent(p) /\ IsCommonLeaf(p) /\ res.made = tree[p].index
           ELSE /\ p = << >> <=> q = << >>
                /\ p # << >> => Parent(p) = Parent(q)
                /\ IF IsCommonLeaf(p) THEN tree[q].index = tree[p].index
                   ELSE tree[q].name = tree[p].name

(* Such a path is always found, except that of an action map itself (its    *)
(* key has nothing behind it), a map of actions inside another one, and the *)
(* field is_train.                                                          *)
PathFound ==
  res # None /\ ask.form = "path" /\ ~res.found =>
    \/ IsActionMap(tree[ask.path])
    \/ Cardinality(ActionMapsAbove(ask.path)) > 1
    \/ AdlogPath(ask.path, ask.key) = IsTrain

=============================================================================
