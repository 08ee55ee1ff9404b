# auto-cpp-rewriter: verification project

`auto-cpp-rewriter` reads C++ feature extraction classes that take their data from a protobuf
(`adlog`) and rewrites them into classes that take it from a flat key-value store (`bs`).  It is a
clang tool: one process, one thread, one class at a time.  What is hard about it is not
concurrency but *placement*: reading `adlog.user_info().id()` somewhere in a method makes the tool
invent a variable, choose its name, decide in which block it is defined, write the definition out
when that block has been visited, and replace every reference, while ifs, loops and declarations
are erased, wrapped or moved around it.  The order in which scopes open and close, in which names
are taken and in which text is replaced is the program's state, and every legal method is another
order.  There are no unit tests in the repository.

## 1. Inventory

| component | state | operations | hard part |
|---|---|---|---|
| `Env` (Env.h, Env.cpp, info/NewVarDef) | a chain of scopes; per scope the new definitions, marks, deleted variables; at the root the used names | `add_new_def`, `add_new_exists_def`, `find_new_def`, `find_valid_new_name`, `mutable_new_def_target_env` | a definition is added from one scope, stored in another and looked up from a third |
| `ExtractMethodVisitor` | the traversal, the first if of the method | `recursive_visit`, `visit_loop`, `process_get_bs`, `insert_top_new_defs_to_body` | stages of ifs and loops, initialisers that are visited twice |
| expression parser (ExprParser*, ExprInfo), Deleter | none; writes into `Env` | `parse_expr`, the `update_env_*` functions | a reference stands for what its variable was bound to on the way of the visit |
| infos (info/*) | per scope: if, loop, switch, declaration, operator, action detail, common info | the setters the parser calls | "last detail" and "first action" are shared by everything visited after |
| action detail (ActionDetailInfo, ActionDetailRule) | the first action, the prefix of the last map seen | `find` and `== end()` | the test of an iterator is written from the shared info |
| common info (CommonInfo*, CommonInfoRule) | details collected while the loop body is visited | test of the name, value method, rewrite of the loop | the loop is replaced as a whole |
| `AdlogFieldHandler`, twelve rules, `StrictRewriter`, `LazyReplace` | clang's Rewriter, a set of replaced nodes per rule, a list of closures over `Env*` | `process` of each kind of node, `replace_text`, `run_lazy_replace` | several rules replace one range, from the source or from what another rule wrote; an `Env` may be gone |
| class level (FeatureInfo, MethodInfo, ConstructorInfo and their visitors) | members, parameters and registered fields of one class | overview and rewriting of each method, then of `Extract` | a visit reads what an earlier one has left, or has cleared |
| driver (Convert, ConvertAction, Config, matcher callbacks) | `GlobalConfig`, output files | the phases of one translation unit | state of one unit in the next |
| `LogicParser` with BSFieldOrderRule | a scope chain of its own | moves the field definitions of rewritten methods | the first read that decides, later reads further out |
| proto parser | the tree of adlog fields | building by reflection, paths, look-up | keys, enum constants and repeated marks in one tree |

Calls go one way: driver → matcher callback → method visitor → handler → rules → expression parser
→ `Env` and its infos; rules then read `Env` and write to the rewriter.  The interaction that
matters is through shared state: the parser registers a definition in a scope; a rule reads its
name when the expression has been parsed; the visitor and `GeneralRule` write the scope's
definitions out when the statement is left.

What would make each component correct:

- `Env`: live definitions have different names; a field is defined once on a path of scopes; a
  definition never changes under the references already written.
- visitor and `GeneralRule`: every reference is in the scope of its definition, no block declares a
  name twice, every else keeps its branch.
- action detail: an iterator is tested with the exists variable of its own action.
- common info: no definition is lost with the loop; the block of a name does what the loop did for
  that name.
- expression parser: a read that is replaced by what its variable was bound to has the value the
  variable has when the method runs; nothing that is removed is still needed.
- rules: everything of adlog is converted, once, and nothing is lost when one rule writes over
  another; no replaced range is read or edited by its parts; no closure outlives its scope.
- class level: a call passes what the callee's new signature takes; the class declares and registers
  the members its text uses.
- driver: what is written for a class is its own text, whatever was converted before it.
- BS field order: a declaration that moves is still seen by its reads and by the tests of its has
  variable.
- proto parser: every field has its node and every path that is written for a node leads back to it.

PROJECT.json lists every component with its files, and the hazards at their lines.  Where the exact case of
a hazard is a form of source that its properties except, the hazard's note says so: the model makes what the
code makes of it, and the property holds of everything around it.

## 2. Plan and order

The modules were written in the order of how much depends on them; the first seven models are the
method being rewritten, the others what surrounds it.

1. `EnvNames`, `EnvScope`: names and scopes; `DefTable`, the abstract table they implement;
   `EnvScopeProofs`.
2. `MethodRewrite`: `EnvScope` composed with the writers; `MethodRewriteProofs`.
3. `CommonInfo` (`CommonInfoProofs`), `CommonInfoFixed` (`CommonInfoFixedProofs`): the loops over
   common infos, with names that are enum values and with names that are not known when the class is converted.
4. `VarSubst`: references, bindings and deleted declarations.
5. `RuleChain`: the rules over one another's texts, `StrictRewriter`, lazy replacements;
   `RuleChainProofs`.
6. `ClassVisit`, `Driver`: one class, then one run of the tool; `DataInduction`, `ClassVisitProofs`,
   `DriverProofs`.
7. `FieldOrder`: the second tool.  `ProtoTree`: the tree that adlog paths are looked up in.

Proved are the modules that carry the method, the loop, the rules, the class and the run: `EnvScope`,
`MethodRewrite`, `CommonInfo`, `CommonInfoFixed`, `RuleChain`, `ClassVisit` and `Driver`; section 5 has
their arguments and says what stays with TLC.
Left for modelling: maps of names (`CommonInfoMultiMap`), size methods of common infos, and several
actions in one method.

How the models meet: `MethodRewrite` EXTENDS `EnvScope`, so that the text is written at the very
steps that add definitions; `EnvScope` instantiates `DefTable`.  The others take what they need of a
neighbour as a choice that the neighbour's model makes explicit: `VarSubst` and `RuleChain` take an
expression to be one that the parser recognises, `ClassVisit` takes a method as its reads and calls,
`Driver` a class as its name, file and kind.

## 3. Modules

**EnvNames** — names and the enum strings they are cut from.  A name is a sequence of tokens;
`FreshName(e, used)` is `Env::find_valid_new_name` for an enum without a definition: the shortest
suffix, never the last token alone, never one that starts with a digit, that is not used; `NoName`
stands for the empty string it returns otherwise.

**EnvScope** — the scopes of one method.

| model | code |
|---|---|
| `stack` | the `Env` objects that are live on the C++ stack of `recursive_visit`, linked by `parent_` |
| `used` | `used_var_names_` of the root |
| a frame's `keys`, `defs` | `new_defs_`, one `NewVarDef` per enum: `name_`, the name `var_def_` declares, the base of `exists_name_` |
| a frame's `stage`, `marks` | `IfStage`, `LoopStage`; `is_check_action_detail_`, `is_check_item_pos_*`, `is_repeated_common_info_`, `is_common_info_list_map_`, `is_int_list_member_loop_` |
| `visited` | no counterpart, it bounds the method's size |
| `EnterIf` … `LeaveLoop` | the branches of `recursive_visit` and `visit_loop` |
| `RefField`, `RefListSize`, `RefCommon`, `DeclareField`, `DeclareVar`, `CheckAction` | the `update_env_*` functions that add definitions, by the guard they use and the scope they start from |
| `Scopes` | the part of `stack` a reader sees: per scope, the name of each visible definition |
| `Find`, `Target`, `AddDef`, `AddNamedDef`, `AddExists` | `find_new_def`, `mutable_new_def_target_env`, the three `add_new_*_helper` |

A visit of a method is a behaviour: at each point the model chooses what the source contains next.
What the expression parser recognises is that choice; what it then does to `Env` is modelled.

**MethodRewrite** — EXTENDS `EnvScope` and adds the output.  `text[k]` holds, for the block that
belongs to scope `k`, the identifiers it declares so far and the references that rely on scope
`k`'s definitions.  Each action of `EnvScope` is joined with what the rules write at that moment;
closing a scope is `GeneralRule::process` (three forms for an if: written, spliced in, erased),
and `PlaceRoot` is `process_get_bs`.  `broken`, `clash` and `dangling` accumulate what a compiler
of the output would reject or read otherwise: references without a definition, names declared
twice in a block, else branches that lost their statement.

**DefTable** — what `Env` promises: nested scopes, each a table from fields to names.  `Define` puts a
field that is not visible into some live scope under a name no live definition has, `Rename` gives
a definition the name of a variable the method declares, `Open` and `Close` are the scopes.
`EnvScope` instantiates it with `scopes <- Scopes`; `ImplementsTable` is its specification.

**CommonInfo** — one loop over a repeated common info and the blocks it is replaced with.

| model | code |
|---|---|
| `stack` | the statements `recursive_visit` is in, with the children each has so far |
| `details` | `common_info_details_`: name, method, `is_for_stmt_`, and the pre, loop and post text |
| `equal`, `compared` | `is_check_equal_`; whether the overview pass put a value into `common_info_values_` |
| `TestEqual`, `TestNotEqual`, `EnterCase` | `update_env_common_info_normal_int_value_in_if` / `_in_switch` |
| `Statement`, `EnterList` | reading `int_value()`, looping over `int_list_value()`: the method goes to the *last* detail |
| `LeaveIf`, `LeaveCase` | `CommonInfoRule::process` of `IfStmt` and `CaseStmt`, with `get_common_info_body_text` |
| `Written`, `Wrapped`, `Branch` | `get_bs_rewritten`, `get_bs_wrap_text`, the end of `process_loop` |
| `source`, `forms`, `visited` | no counterpart: what the source executes per name, the unusual forms met, the bound |

The source program is recorded beside the rewriting: `source[v]` is the sequence of statements that
an attribute named `v` goes through, each with the list loop it is in.  `Branch(v)` is the sequence
the generated block for `v` goes through.  `HasCondition` says whether the block has one
(`get_exists_expr`).  `SameEffect` compares the two sequences and asks every block for its condition.  `forms`,
and `Unread`, name the forms of source that the code does not preserve:

| form | source | what the code does |
|---|---|---|
| plain | an `if` about something else than the name or the type around the tests | drops the condition (GeneralRule.h:163) |
| outside | a statement beside the tests | drops it (GeneralRule.h:163) |
| or | `A \|\| B` | gives the body to the last name only (ExprParserDetail.cpp:277) |
| again, caseAgain | a name tested twice | keeps the first body; by a case, overwrites the last detail |
| mixed | `!=` tests after other tests | writes everything for the first name |
| unread | a test under which no value is read | writes `if ()` (CommonInfoDetail.cpp:28) |
| empty | a test with an empty body | lets a later case share its body with that name |
| caseTail, fallThrough | second statement of a case without braces; no `break` | takes the first statement; no fall-through (CommonInfoRule.cpp:315) |
| secondList | two list loops in one body | writes them side by side before the rest, as one loop |
| wrapped | after `!=`, a statement beside a range loop | puts it into the loop (CommonInfoNormal.cpp:258) |

Assumed of the source: the names of a message are distinct, a value is read only after its name has
been tested, tests of names are not nested in the body of a test.  Not modelled: a list loop around
the tests (the "prepare" statements it keeps), `default:`, maps, size methods.

**CommonInfoFixed** — the loop when the names are members or template parameters: `CommonInfoFixedList`
(one detail per name, `details`, with `fields` the functors declared for it) and
`CommonInfoMultiIntList` (tables from names to lists or sizes, `tables`, with `lists` the list table a
size table belongs to, and `reads` what `OverviewHandler` has seen of them).  `source`, `forms`,
`visited` are as in `CommonInfo`.

| form | source | what the code does |
|---|---|---|
| outside | a statement of the loop outside the tests | goes with the loop, or with the detail added last |
| plain | an if that tests no name | clears what was collected for the detail added last |
| again | a name tested twice | no second detail: what is read under it goes to the last one |
| or, else | `\|\|`; else-if | only the last name gets the body; the body of the first branch goes to the name added last |
| unread | a test whose body reads nothing | writes `if ()` |
| secondList | two list loops | one loop |
| sizeBesideRange, addressBesideList | a size beside a range loop, an address beside a list loop | the text of the loop, or the address, is lost |
| first, other | a constant index outside a for; any other index in one | an undeclared index; the loop variable |
| both | tests and tables in one loop | the tables are written, the tests dropped |
| twoVectors, otherList, sizeFirst | one table read with two vectors; a size of another list; a size table filled before any list table | the names of one vector; the list assigned last; no list |

Not modelled there: `!=` and reversed comparisons, constants among the names, maps (`kv`), a list loop
around the test, `break` and `continue`, `compare_list_size`, middle nodes.  The reads of one name are
all of its scalar or all of its list.

**VarSubst** — how reads are replaced.  The module makes up a method while it visits it: each action
adds a declaration, an assignment, an if, a loop or the final use, as it stands in the source
(`e` of a line of `code`) and as it is written (`text`, `kept`).  `stack` holds the `Env`s with the bindings of
`decls_`, the definitions and the loop variable.  When the method is complete `Effect` executes both
programs over `trace`, in every iteration and branch, and compares what the final use reads.
`phase = "crashed"` is the unbounded recursion of `parse_expr` through circular bindings.

| form | source | what the code does |
|---|---|---|
| inner | a variable assigned in another scope than its declaration | reads behind the scope see the first binding |
| field, index | a variable declared from a field, or an index, is reassigned | the reads keep the field, or the index |
| copied | `b = a`, then `a` is reassigned | `b` stands for `a` |
| fixed | `list()[1]`, `list()[k]` with `k` no loop variable | reads the element of the loop |
| listIndex | an index bound to a chain of adlog | its declaration is removed |
| outerIndex | an index that is not the innermost loop's | `Get(<innermost>)` |
| sameText | an assignment with the same adlog text as a declaration | the declaration found first is removed |

Not modelled there: range-based loops, conditions that read, list sizes, a top-level `operator[]`.

**RuleChain** — the twelve rules on one method.  `work` is the list of nodes that are not part of
another yet: an action takes the parts it needs from its end and puts the node with what *all* rules
do to it.  A node has the text of the source (`src`), the text the rewriter holds (`now`), and the texts
other rules take for it (`field`: `get_bs_field_value`; `at`: an index).  `seen` is
`StrictRewriter::visited_`, one mark per rule.  A text is the set of things in it that must be
converted and are not (`raw`), those that are (`out`), and the type of its value: `string`, `view`
(`absl::string_view`), `chars` and so on.  `ill` marks a text that does not compile or refers to what
is gone, `torn` a replaced text that was read or edited by its old parts.  `stored`, `closed`,
`settled` and `stale` are the lambdas of `emplace_lazy_replace` and the `Env`s they were made with.

| form | source | what the rules do |
|---|---|---|
| AssignedCall | a string is assigned a call or a conditional | the source is written back (`get_bs_field_value` of what is no field) |
| AssignedChars, Reassigned | a string is assigned `"x"`; a string that became a view is assigned | `"x".data()`; a `std::string` to a view |
| Receiver, Index | the receiver of a call, an index | not visited |
| SizedVector, SeqListLoop | a vector made with a size; a loop over a sequence list | the source is written back |
| ConcatRead | a variable that holds a concatenation is read | replaced by its first field |
| ChoiceValue, CallOfString, PartsOfText, PointerSize, HashName | string conditionals, functions given strings, `substr` of a text, `list->size()`, a hash by its name | a view where a string is needed, or the source again |
| Braceless, ElseGone, TestBeside, FixedTest | bodies without braces, the else branch, other conditions of an if that a rule writes anew | only the braces of the body are taken |
| EnumText, HashOfText | an enum in a text, a hash of more than a name | the second visit reads inside the replaced text |
| TwoTests, ElseIf, ThreeLists | an if of two kinds, an else-if, three nested lists | a second rule edits what the first replaced |

Not modelled there: a declaration with another name than its definition (`rm_decl_type`), `||` with
equal sides, `GetNormQuery`, loop headers, and what other modules hold (assignments, common infos,
`AddFeature`).

**ClassVisit** — one class.  `program` is the sequence of its methods, each with its parameters and the
items of its body; `left` the positions of the methods still to visit, and `Position` the one in hand,
by the order of `FeatureDeclCallback`; `methods` `other_methods_` of `FeatureInfo`; `fieldDefs` `new_field_defs_`; `enums` what the constructor
registers.  A visit of a method is three steps, as in `ExtractMethodVisitor::visit`: overview, body,
and the writing of its declaration; `result` is what Extract's visit writes into the class.
`ClassAssumption` says that the classes are those a compiler lets through: parameters that have a name
have different ones, and a call has an argument for every parameter of a method of that name.

**Driver** — one run of the tool.  `units` are the translation units, each a sequence of headers
(a position is a clang `FileID`); `info` is `GlobalConfig::feature_info`, which lives through the run;
`pc` goes through the matchers and the phases of `EndSourceFileAction`: aliases, classes, the filter
class, `handle_features` (one step per class, in the order of an `unordered_map`: any), the JSON, the
filter's files.  `files` are what is on disk, with whose text and whose class name they hold, and may
exist before the run (`Store` is `m[key] = value` on a `std::map`); `rewritten` and `overwrite` decide what is passed over; `dangling` collects reads
of AST nodes of a former unit.

**FieldOrder** — LogicParser's pass.  `stack` is the chain of `Env`s with `decls` (where a bs field is
declared) and `detail` (what a read has decided); `code` is the method; `gone` what is not written and
`placed` the definitions that are, each at the begin of a block.  `OnRef`, `OnRefInElse` and `OnCall` are
`BSFieldOrderRule` on a read of a variable, by the kinds and stages of the scopes around it; closing a
scope writes its definitions.

| form | source | what the code does |
|---|---|---|
| Hidden | a read in a `return`, a `while` or an `operator[]` | not visited: it does not count |
| FirstIsDeeper | the first read stands deeper than a later one | the declaration goes to the first |
| TestedOutside | `has_v` is tested outside the block of a read | the declaration goes to the read, one scope further out at most |
| OtherBranch | certain reads in an else branch, or in the condition of an else-if | written behind the if's first brace, into the then branch (BSFieldOrderRule.cpp:177) |
| Braceless | a read in a then branch without braces | there is no block to write the definition into |
| Unnoted | a member call as the first read, outside of ifs and loops or in an else | the call does not count as a read |
| LostInLoop | a read in the else of an if in a loop | the definition goes to the loop, which writes none |
| MovesOut | a declaration inside an if or a loop | moves outwards |

Not modelled there: shadowed names, shared enum variables; the declaration of `has_v` stays.

**ProtoTree** — building the tree, writing paths, looking them up.  A frame of `stack` is one live call
of `build_adlog_tree_from_descriptor`; `tree` is a function from the paths of child keys to nodes;
`ask`, `at`, `rest`, `action`, `res` are a look-up, one step per recursive call of
`find_proto_path_detail_helper`.  The descriptors (`Schemas`) are input.

**MC modules** — values for TLC.  `MCEnvScope`, `MCMethodRewrite`: enums with a common suffix
(`user_x_id`, `item_x_id`), with a digit token, of a single token, and one with a single candidate that
others share.  `MCCommonInfo`: two names of scalars and two of lists, each pair symmetric.
`MCCommonInfoFixed`: two names, two list tables and a size table, two vectors with one name in common.  `MCVarSubst`: the right sides of
declarations and assignments.  `MCClassVisit`: eight methods, four bodies of Extract, and all sequences
of up to four that compile.  `MCDriver`: three headers (one class; a class beside a template and a
skipped class; the filter class), four units, all runs of one or two.  `MCProtoTree`: three schemas, one
of the shape of the repository's own (user, actions, labels), one with clashing constants and an
action map below a repeated message, one with nested action maps.

**EnvScopeProofs** — theorems about `EnvScope`: names and the refinement, what common info loops hold,
what a definition declares.  **MethodRewriteProofs** — the composed system, EXTENDS `MethodRewrite` and
`EnvScopeProofs`.  **DataInduction** — what `FlattenSeq` computes, for every sequence of sequences, least and
greatest members of sets of numbers, induction over numbers.  **CommonInfoProofs**, **CommonInfoFixedProofs**,
**RuleChainProofs**, **ClassVisitProofs**, **DriverProofs** — theorems about the module each is named
after.  Section 5 describes all of them.

Modelling decisions:

- `RootEnum` stands for `reco_user_info` fields and `adlog_time`: their definitions are sent to the
  root from everywhere.
- Common info loops are not nested in one another; methods of the kind the tool handles do not do
  that, and `Env.cpp:676` would send the definition to the inner loop's parent.
- An item position test is the whole condition of its if; it is not an else-if, and the form that
  includes the body has no else.  The docs and examples show no other use.
- Reading the range of a range-based for adds no definition (`is_in_for_range_init`), so those
  reads are not actions; reads in the init of a for statement are.
- The exists variable of `x` is named `x_exists`; it is kept apart from the variables by a tag.
  A source variable that ends in `_exists` could collide and is not modelled.
- The reference of an action detail test is written when its if closes, the others when they are
  visited, as in `ActionDetailRule` and `GeneralRule`.
- The runs have one `ExistsEnum` because the action detail info keeps the first action of a method
  (ActionDetailInfo.cpp:11).
- An if statement with an else is never erased by the model's `EraseIf` unless it is an item
  position test that returns; `is_all_if_stmt_deleted` is guarded by `hasElseStorage`.

## 4. Runs

All runs of a module use its one configuration.  Where a property lists forms, a source with one of
these forms is explored as well: only that property's claim about it is withdrawn.  The forms come from
counterexamples: each was added when TLC showed what the code makes of it.

| run | shows | bounds |
|---|---|---|
| EnvScope | unique names, nothing defined inside a common info loop, definitions stable under references, and the table of scoped names implemented | 4 scopes: the body and three statements nested in it, enough for a loop in a common info loop in an if and for a chain of three else-ifs; 5 statements and reads: two reads in two scopes plus the statements around them |
| Rewrite | with deletions, list sizes, else-ifs and item position tests: references are in the scope of their definition and no block declares a generated name twice, but for the two placements and the sizes the properties name | as EnvScope |
| CommonInfo | the block of each name has a condition and does what the source does for it, with variables of that name; a collected body is kept | 5 nodes in the loop: two tests with a body each, or one test with a statement before, in and after a list loop |
| CommonInfoFixed | the same per name, the condition of each block is written, tables hold every name they are read with | 6 nodes, and one unusual form per loop |
| VarSubst | a read at the end of the method keeps its value, what is written compiles, parsing ends unless variables are circular, only declarations are erased with an if | 3 declarations and assignments, 2 ifs or loops, 4 together; two ints, a list element, two loop variables |
| RuleChain | everything of adlog is converted, nothing is lost, every string stays one, no replaced text is read or edited by its parts | 3 things to convert, 6 nodes, 4 of them pending: an if with a condition and two statements, or a call of three arguments |
| ClassVisit | calls match signatures, Extract's members are the class's members, every declaration has its definition | classes of up to four methods out of twelve |
| Driver | own text, one class per pair of files, no old AST read when units share no class, every class written | one or two units over three headers |
| FieldOrder | moved declarations are seen by reads and tests, with their field, and move inwards | 2 declarations, 2 reads, 3 ifs or loops, 6 together |
| ProtoTree | a node per field, repeated marks, paths that lead back and are found | three schemas, two keys |
| RuleChainLazy | *violated* `LazyRunsInScope` | as RuleChain |
| VarSubstCycle | *violated* `ParseEnds` | as VarSubst |

`EnvScope` and `Rewrite` say `CHECK_DEADLOCK FALSE`, as does `CommonInfo`: a method, and a loop, ends.
The other modules stutter when they are done, so that a visit that gets stuck before is an error.
`CommonInfoLoopHoldsNoDef` leaves out int list loops: an int list loop inside a common info loop makes
`update_env_action_detail_check_cond` define the exists variable in the if itself, on purpose.
`Symmetry` (CommonInfo, CommonInfoFixed, FieldOrder) is sound: the symmetric values are only compared, and
no liveness is checked there.

**Fairness.**  Only `Driver` states fairness, `WF_vars(Next)`: one thread runs the matchers and then
`EndSourceFileAction`, no step waits for anything outside the process, so that as long as some step is
enabled one is taken.  `EveryClassWritten` needs it: what is said there is that no class in the global
map, whatever the order, keeps the loop from the others.  The visits of the other modules are structural
recursions over finite input and no part waits for another; that parsing ends is a safety property
of `VarSubst` (the recursion without end is a state).

The violations, as methods:

- *RuleChainLazy*: `if (c) { std::vector<CommonInfoAttr> v; } … use(attr.int_value());` — the declaration's
  lambda runs at the common info read with the `Env` of a scope that is gone (LazyReplace.h:24-29).
- *VarSubstCycle*: `v = std::min(v, 1); use(v);` — the read is replaced by its own binding without end,
  the case ExprParser.cpp:195-197 names; `is_decl_ref_contains_self` does not look into arguments.

Divergences the models show and the properties name, without a run of their own:

- an enum whose every suffix is taken gets the empty name (Env.cpp:934, against the comment at :911);
- two fields read into variables of one name in two branches whose definitions go to one block are
  declared twice (Env.cpp:825); so is a name that the method declares after a field took it (:598);
- `if (a) {} else if (b) { use(adlog.x()); }` becomes `if (a) {} else auto x = …; if (b) …`
  (GeneralRule.cpp:63), and an else-if that is erased leaves a bare `else` (:43);
- root fields read in, or above, `if (pos < adlog.item_size())` lose their definition
  (ExtractMethodVisitor.cpp:308), and so does the size of one list read in two sibling scopes
  (ExprParserDetail.cpp:2135);
- the exists variable's name is derived again when a definition is renamed (Env.cpp:848); an exists test
  of a list size in a nested loop defines it in the inner scope, a later read in the root;
- a switch over the name in a class without a comparison of a name is not rewritten
  (CommonInfoPrepare.cpp:20, against src/convert/README.md:64);
- without the flag `overwrite` an existing bs file is written over, unless the *original* file has been
  rewritten already (ConvertAction.cpp:126, against Convert.cpp:46);
- a class of an earlier unit is written again with the text of whatever file has its `FileID` in the
  last unit (ConvertAction.cpp:141), unless its header is included again;
- for a member call in the condition of an else-if the definition goes into the if's first branch
  (BSFieldOrderRule.cpp:228, against BSFieldOrderRule.h:43).

## 5. Proofs

Each inductive invariant below was first checked by TLC on the configuration of its module's run, then
proved for every value of the constants.

### Scopes and names

Constants are constrained by `NamesAssumption` and `ScopeAssumption` only: enums and source names
are non-empty names, the kinds of enum are subsets of the enums, the bounds are numbers.  Nothing
is assumed of how enums overlap.

`EnvScopeProofs` proves, for all of them,

- `TypeCorrect`: `Spec => []TypeOK`;
- `NamesUnique`: `Spec => []UniqueNames`;
- `DefinitionsStable`: `Spec => DefsStable`;
- `Implements`: `Spec => ImplementsTable`, the refinement of `DefTable`.

The inductive invariant is `IInv == TypeOK /\ Shape /\ NamesReserved /\ UniqueNames /\ NamesGiven`.
`UniqueNames` alone is not inductive: a fresh name is only known to differ from the names *used*, so
`NamesReserved` says that every live definition's name is used; and a definition only goes to a
live scope because the loop and the common info loop found by `Target` have a parent, which is
`Shape` (the root is the first scope and only the first; only loops are marked "prepare" or in
stage INIT).  `NamesGiven` says what a definition declares is its own name or one of the method's: without
it, completing a definition half of which exists could put a foreign name into it, and `DefsStable` would
fail.  The steps that add a definition share the lemma `RegisterKeeps`: whatever gets a name
that is the method's, unused, or unchanged keeps the invariant; `AddDefKeeps`, `AddNamedDefKeeps`
and `AddExistsKeeps` reduce the helpers to it.  The others leave definitions alone or drop the last
scope (`KeptKeeps`).  `FreshNameIsFresh` is the property of `find_valid_new_name` itself; its
greatest-element argument uses well-foundedness of `<` on Nat.

The refinement runs along the same steps: every action that keeps the invariant is shown to map to a
step of the table or to a stutter.  `FindNone` says that a field `Find` does not find is not visible
in any live scope, so that a definition made for it is a `Define`; `NamesReserved` makes its name one
that is not `Taken`.  `RegisterMaps` turns a registration into `Define`, `Rename` or a stutter, `KeptMaps` the
opening, the marking and the closing of a scope into `Open`, a stutter and `Close`.

It also proves `CommonInfoLoopEmpty`: `Spec => []CommonInfoLoopHoldsNoDef`, with the strengthening
`LoopInv`.  The property is about scopes below a marked loop in stage BODY, and a loop gets its mark while it
is in stage INIT, when a definition may still go to it.  So `Staging` says only the innermost scope can
be in INIT or COND and a loop in INIT has no definition; `OnePrepare` that a second mark never
appears, as `Target` would then find the inner loop's parent, which lies in the outer body;
`ListInBody` that the loop over a list is inside a prepared body; and `BodyHoldsTests` is the property with
what it leaves out: below an int list loop there are the existence tests of action details, nothing else.

### The rewritten method

`MethodRewriteProofs` proves

- `RewritesInEnv`: `RewriteSpec => Spec`, by which everything above holds for the composed system;
- `UsesAreDefined`: `RewriteSpec => []EveryUseDefined`;
- `GeneratedOnce`: `RewriteSpec => []NoRedefinition`.

The two invariants speak of `broken` and `clash`, which only grow when a scope is written; the inductive
`RewriteInv` therefore says of the *live* scopes what a write is going to need.  `UsesOK`: each
reference relies on a definition of its scope whose name it has.  `DeclsOK`: a generated name that a block declares is
used, is declared in no other live block and by no live definition, so that splicing a block into
another or writing the definitions of a scope declares nothing twice.  Both need that a definition does not change after
it was referred to and is fully known when it is made, which `EnvScopeProofs` proves of `EnvScope`
(`Settled`, with `Adds` for what a step may add to the definitions).  Each action of `MethodRewrite` is put into one of
a few forms (it opens, closes, enters, marks or registers), one lemma per form.

`UsesAreDefined` and `GeneratedOnce` have the hypothesis `SizesApart`: an enum an existence test is about is
not read as a field or a common info too unless it is a list size.  The tests are on list-size enums the action detail
builds itself (ExprParserDetail.cpp:1090), and for a read that is both, `Env::add_new_def` says in a comment
that references already replaced are wrong (Env.cpp:766-790).  `Rewrite.cfg` satisfies it.  It was found by the proof:
without it `Settled` is not inductive.

### Common info loops

`CommonInfoProofs` proves, from `CommonInfoAssumption` alone (list names are names; `None`, `Elem` and
`Twice` are none),

- `CommonInfoTypes`: `Spec => []CommonInfoTypeOK`, with it one detail per name;
- `OwnVariableRead`: `Spec => []ReadsOwnVariable`;
- `BodyIsKept`: `Spec => BodyKept`;
- `CommonInfoSameEffect`: `Spec => []SameEffect`.

The inductive invariant of the first three is `IInv == CommonInfoTypeOK /\ StackOK /\ DetailsOK /\ CaseOpen`.  A value that
is read goes to the *last* detail, so what a block holds is only known while no other detail
comes after it.  `StackOK` says so along the stack: by `Nested` an if or a case has nothing but
a list loop in it, and a case stands in a switch, so no detail is added while they are open; by
`OwnFrame` the block of an if reads the variable of its test, which is then the last detail, and so do
the blocks of cases and list loops.  Without `!=` the loop is executed for every name and its own block reads no
variable; with it the loop has one detail and no switch, and its own block reads that one's variable, because
`get_bs_wrap_text` writes it.  `DetailsOK` carries this to the bodies collected, through the renaming
for names that share a body (`LeaveCase`).  All of it is claimed for the forms of source the property is
about (`Clean`).  `CaseOpen`, that the last detail has no body while a case is open, is what `BodyKept`
needs: it is that detail `LeaveCase` fills.  Each action has a lemma; `PushOK`, `PopOK`, `TopOK` and the
like say what opening, closing and filling a frame leave of `StackOK`.

`SameEffect` speaks of the end only: the block of a name is then put together from the parts of its detail,
from a body that may be shared, or from the loop's own block.  What holds on the way is `Kept`, inductive
together with `IInv` and claimed, as the property, while no form of the table in section 3 has been met.  It has
two shapes, as the code has.  As long as there was no `!=` (`ByName`), the names whose body is open have details
without a body and the others *tell* what the source does (`Told`); a name that is not tested has nothing to do
(`Untold`); and for a test or case in hand the detail it will fill `Gathers`: it has no body, the method it has
fits the names in hand, and the text met, with a list loop that is still open inside it, *follows* what
the source does for each of them (`Follows`: statement by statement the same, in the same loop, and reading
where it reads).  Closing it cuts the text into what stands before, in and behind the list loop; `FilledParts` shows
that put together again (`AllOf`) they are the text, and `CopiedParts` that the body for another name follows
the same source with its own variable.  After `!=` (`ByLoop`) there is one detail, and it is the block
of the loop itself that follows the source of its name; `WholeLoop` says how its children stand beside a list loop,
so that `get_bs_wrap_text` writes it once and in its place.  The step from the first shape to the second
is `TestNotEqual`, which the form `mixed` allows only where nothing was tested before.  A detail without a
method is in both shapes one whose name reads nothing, so that outside the form `unread` every block has its condition
(`NamesCompile`, `LoopCompiles`).  `Flat` concatenates the texts
of a block; what it does when a child is added or a block is cut are lemmas of `DataInduction`.

### Common info loops with names known at run time

`CommonInfoFixedProofs` proves, from `CommonInfoFixedAssumption` alone,

- `CommonInfoFixedTypes`: `Spec => []FixedTypeOK`;
- `CommonInfoFixedConditions`: `Spec => []ConditionsWritten`;
- `CommonInfoFixedTables`: `Spec => []TablesHold`;
- `CommonInfoFixedSameEffect`: `Spec => []SameEffectPerName`.

The inductive invariant is `IInv == FixedTypeOK /\ Framed /\ Tested /\ Filling /\ Kept`.  `Framed` is how
the frames nest.  The other three each serve one property, and each is claimed without the forms that this property
lists.  `Tested`: a condition is written from what was read under the test, so that a detail has
none while its if is open and has read nothing; the invariant ties the open if to the detail added last
(`OwnPath`, `SettledOrOpen`).  `Filling`: a table is read with the vector it was connected with, and a size table
belongs to a list table that is there before it.  `Kept` is needed because the three texts of a detail are
cut out of the block only when the if is left: while it is open, `Texts` says that the block has one item for each
statement of the source, in its order, and `Records` what the detail has noted of the block, above all that
it holds one list loop at most and that the marks by which the loop is left out are set only by what replaces it; when it is
closed (`Closed`), what is written for the detail is what the source does with its name.  `ClosedIs` is the
step between the two: it puts the parts before, in and behind the list loop together again and shows that
they are the block.

### Rules over one another

`RuleChainProofs` proves, from `RuleChainAssumption` (the bounds are numbers),

- `RuleChainNoSourceLeft`: `Spec => []NoSourceLeft`;
- `RuleChainReadsTheSame`: `Spec => []ReadsTheSame`;
- `RuleChainTextsHold`: `Spec => []TextsHold`;
- `RuleChainRereadsGuarded`: `Spec => []RereadsGuarded`;
- `RuleChainEditsOutsideReplaced`: `Spec => []EditsOutsideReplaced`.

The inductive invariant is `IInv == TypeInv /\ VarsKnown /\ NodeInv /\ RereadsGuarded`.  The properties
speak of the statement that is complete; a rule that handles a node above may take another text of a part
than the one the rewriter holds: the value of its field, its index, its source.  So `NodeInv` says of
each node on the stack, by itself, what holds in *each* of these texts.  `Converted`: what is left of adlog waits for
the test of an action to be written, or the node is marked with the form that puts source back.  `Complete`: the
text has all that the source reads, but for the positions that an if above takes over.  `Sound`: a text that does not
hold is marked, and a string node is of one of the shapes `StrRule` knows, with the type it then takes it to have;
without this the type of a concatenation could not be told from its parts.  `Guarded` and `Whole`: what would be
read or edited again is marked.  `Placed`: the node is made of things visited before, and of what lambdas stand
for only in statements.  `VarsKnown` is the same for what is remembered of a variable.  Marks only grow
when nodes are put together (`FormsGrow`), so that each action has to show this of the node it makes
from its parts; `WriteIfIs` does so for the if, whose four rules take the branches each in its own way.

### One class

`ClassVisitProofs` proves, from `ClassAssumption` alone,

- `ClassTypes`: `Spec => []ClassTypeOK`;
- `CallsFit`: `Spec => []CallMatchesSignature`;
- `MembersOfExtract`: `Spec => []OnlyExtractsMembers`;
- `DeclaredAndDefined`: `Spec => []DeclarationsDefined`.

The inductive invariant is `IInv == ClassTypeOK /\ OrderInv /\ InfoInv /\ TextInv /\ MemberInv /\ DeclInv`.
`CallsFit` compares a text with a signature written at another time from the same info, which the methods
in between have changed.  `OrderInv` says when a callee has been visited (all others before Extract, of the
others those above); `InfoInv` that from then on the info of a name that only one method has is what its
own overview made of nothing (`Overviewed`), and that its signature was written from it; `TextInv` that
every call in a text was written with the arguments for the callee's overview (`Answers`).  So
both sides come from the same overview, and `CallFits`, without any state, compares
them parameter by parameter: `OverviewedIs` goes through the overview's items by induction and shows
that an action parameter of a well-formed method has an entry with its own name and at least one new
parameter, any other parameter none, so that `NewArg` and `ParamText` give as many names for the same
fields (`ParamFits`); `FlattenAligned` carries this to the whole list.  The hypotheses of
`WellFormed` are needed there: with an action parameter that is not read, `process_params` leaves
out a parameter whose argument stays, and when `get_value_from_Action` gets its parameters in another order the
entries of two parameters are exchanged.  `MemberInv` says that after an overview there are no definitions
but the method's own; `DeclInv` counts the declarations and names the definition of each.

### One run of the tool

`DriverProofs` proves

- `GatheredOnce`: `Spec => []CleanWhenDisjoint`;
- `TextIsOwn`: `Spec => []OwnText`;
- `SourceWithHeader`: `Spec => []SourceMatchesHeader`.

`DriverAssumption` says that a class stands in one header, that the names used for "no file" are no
headers, and the types of the other constants; files on disk before the run are any.  The invariant has three parts.
`GatherInv`: what a class has gathered is at most one set per visit, of the units so far
(`InfoOK`), and a read of a former AST needs two visits (`NotedTwice`).  `PlaceInv`: the buffers edited in this unit are
those of its classes, and an entry of a class edited has the number of its own header in *this* unit
(`Placed`): that number is what `handle_features` picks the buffer with, and an entry left by a former unit
has another file's.  `FileInv`: no file is of a unit to come, and a `.cc` is there with its `.h` of the
same class (`SourceOK`), which the two writes of one class keep together.  `TextIsOwn` follows because a file written now was
written with the number `Placed` speaks of.

### Induction over data

`DataInduction` proves what `FlattenSeq` does: its value is a sequence over the same elements, and has just those
the parts have (`FlattenSeqProperties`); and two sequences whose parts agree place by place in length and in a
relation agree so when they are flattened (`FlattenAligned`); appending a part appends its elements
(`FlattenAppend`), what is flattened can be cut between any two parts (`FlattenSplit`), and parts of which all
but one are empty are flattened to that one (`FlattenOne`).
The library's induction theorems take an operator and cannot be used with these provers;
`NatInductionSet` states induction over *sets* of numbers and is proved from the library's `FS_Injection`
(an injection of a finite set into itself is onto), and recursive functions are reached through it.
`ClassVisitProofs`, `CommonInfoProofs`, `CommonInfoFixedProofs` and `DriverProofs` use it.

### Only model-checked

- `VarSubst`: what it computes by RECURSIVE operators over expressions is out of the prover's reach.
- `FieldOrder` and `ProtoTree`.
- `EveryClassWritten` of `Driver`: liveness.

`LazyRunsInScope` and `ParseEnds` are violated, as section 4 says.

## 6. Not modelled

The recognition of expressions (types, callee names, string predicates: most of `ExprInfo` and `Tool`,
the guards of `ExprParserDetail`) is each model's choice of what the source contains: these predicates
keep no state, and what they decide is enumerated instead.  The wording of the generated text is left
out, as are clang itself, `bs_field.py`, JSON output, the documentation and the example schemas.
Maps of names (`CommonInfoMultiMap`), size methods and prepared list loops of common infos, several
actions in one method, the infer filter's own methods, `MiddleNodeRule` and `DoubleListRule` beyond the
texts they leave to others are not modelled yet; PROJECT.json says so at their components.
