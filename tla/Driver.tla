------------------------------- MODULE Driver -------------------------------
(***************************************************************************)
(* The driver: ConvertAction, GlobalConfig, the matchers of one            *)
(* translation unit and the files it writes.                               *)
(*                                                                         *)
(* One run of the tool visits several translation units.  Each has a new   *)
(* rewriter and a new AST, but GlobalConfig::feature_info lives through    *)
(* the run, and EndSourceFileAction writes every class it holds.  A unit   *)
(* is the sequence of the headers it includes: the position of a header    *)
(* stands for its clang FileID, which has a meaning in that unit only.     *)
(***************************************************************************)
EXTENDS Naturals, FiniteSets, SequencesExt

CONSTANTS
  Header,        \* files with feature classes, all under feature/fast/impl
  ClassesIn,     \* [Header -> Seq(class)]: the classes derived from FastFeature
  Template,      \* the classes that are templates
  Skipped,       \* the classes tool::is_skip names
  AliasesIn,     \* [Header -> Seq([name, of, args])]: using Name = Of<args>
  EnumInCtor,    \* classes whose constructor holds an enum of a common info map
  ListInCtor,    \* classes whose constructor fills a list member by push_back
  Includes,      \* [Header -> SUBSET Header]: the paths a header's text names
  FilterHeader,  \* the headers that declare ItemFilter
  RunUnits,      \* the sequences of units a run may be given
  ItemFilter, NoFile, Invalid

(* The class a header declares, FeatureInfo's key in the global map.       *)
Class == UNION {ToSet(ClassesIn[h]) : h \in Header}
Key == Class \cup {ItemFilter}

ASSUME DriverAssumption ==
  /\ ItemFilter \notin Class /\ NoFile \notin Header /\ Invalid \notin Header
  /\ \A h, g \in Header : h # g => ToSet(ClassesIn[h]) \cap ToSet(ClassesIn[g]) = {}
  /\ \A h \in Header : ClassesIn[h] \in Seq(Class)
  /\ FilterHeader \subseteq Header
  /\ RunUnits \subseteq Seq(Seq(Header))

VARIABLES
  units,       \* the units ClangTool has not started
  unit,        \* the unit in hand
  nth,         \* its number
  pc,          \* where the action is
  todo,        \* what the phase has not visited yet
  paths,       \* handle_features' local `paths`
  edited,      \* classes whose text the unit's rewriter has changed
  info,        \* GlobalConfig::feature_info
  files,       \* the output files
  overwrite,   \* the flag
  rewritten,   \* headers whose own text already reads BSFieldEnum:: by getBS()
  dangling     \* reads of an AST that is gone
vars == <<units, unit, nth, pc, todo, paths, edited, info, files, overwrite,
          rewritten, dangling>>

-----------------------------------------------------------------------------
(* GlobalConfig                                                            *)

NewInfo == [origin |-> NoFile, id |-> 0, spec |-> << >>, fields |-> << >>,
            ctorEnums |-> 0, pushed |-> 0]

(* GlobalConfig::feature_info_ptr finds an entry or makes an empty one.    *)
FeatureInfoPtr(c) == IF c \in DOMAIN info THEN info[c] ELSE NewInfo

(* A map with one more entry, or with another value for one it has.        *)
Store(map, key, value) ==
  [k \in DOMAIN map \cup {key} |-> IF k = key THEN value ELSE map[k]]

SetInfo(c, i) == info' = Store(info, c, i)

(* FileID: a position in the list of files of this unit.                   *)
FileId(h) == CHOOSE i \in DOMAIN unit : unit[i] = h

(* Rewriter::getEditBuffer of an id: this unit's file with that id.        *)
EditBuffer(id) ==
  IF id \in DOMAIN unit
  THEN [of |-> unit[id], bodies |-> edited \cap ToSet(ClassesIn[unit[id]])]
  ELSE [of |-> Invalid, bodies |-> {}]

-----------------------------------------------------------------------------
(* The matchers, in the order of HandleTranslationUnit                     *)

AliasesOf(u) == FlattenSeq([i \in DOMAIN u |-> AliasesIn[u[i]]])
ClassesOf(u) == FlattenSeq([i \in DOMAIN u |-> ClassesIn[u[i]]])
HeaderOf(c) == CHOOSE h \in Header : c \in ToSet(ClassesIn[h])


(* touch_template_param_ptr makes room up to the index of an argument that *)
(* is an expression; an argument that is a type is counted, not kept.      *)
ParamsOf(args) ==
  LET last == Cardinality({i \in DOMAIN args :
                \E j \in DOMAIN args : j >= i /\ args[j] # "type"})
  IN [i \in 1..last |-> IF args[i] = "type" THEN "" ELSE args[i]]


StartUnit ==
  /\ pc = "idle" /\ units # << >>
  /\ units' = Tail(units) /\ unit' = units[1] /\ nth' = nth + 1
  /\ pc' = "alias" /\ todo' = AliasesOf(units[1])
  /\ edited' = {} /\ paths' = {}
  /\ UNCHANGED <<info, files, overwrite, rewritten, dangling>>

(* TypeAliasCallback::run                                                  *)
TypeAlias ==
  /\ pc = "alias" /\ todo # << >>
  /\ LET a == todo[1]
         old == FeatureInfoPtr(a.of)
     IN SetInfo(a.of, [old EXCEPT !.spec =
          Store(@, a.name, [params |-> ParamsOf(a.args), unit |-> nth])])
  /\ todo' = Tail(todo)
  /\ UNCHANGED <<units, unit, nth, pc, paths, edited, files, overwrite,
                 rewritten, dangling>>

AliasesDone ==
  /\ pc = "alias" /\ todo = << >>
  /\ pc' = "class" /\ todo' = ClassesOf(unit)
  /\ UNCHANGED <<units, unit, nth, paths, edited, info, files, overwrite,
                 rewritten, dangling>>

(* The fields: every visit adds the declarations of this AST behind those  *)
(* of the ASTs before.                                                     *)
VisitFields(i) == [i EXCEPT !.fields = Append(@, nth)]


(* Mutant: the copy constructor is not told apart and counted as well.     *)
VisitEveryCtor(c, i) ==
  [i EXCEPT !.ctorEnums = @ + (IF c \in EnumInCtor THEN 2 ELSE 0),
            !.pushed = @ + (IF c \in ListInCtor THEN 1 ELSE 0)]

(* CtorVisitor: enums and pushed values are added again on every visit.    *)
VisitCtor(c, i) ==
  [i EXCEPT !.ctorEnums = @ + (IF c \in EnumInCtor THEN 1 ELSE 0),
            !.pushed = @ + (IF c \in ListInCtor THEN 1 ELSE 0)]

(* is_member compares with every declaration, the first ones first.        *)
StaleFields(c, i) ==
  IF c \in ListInCtor /\ \E k \in DOMAIN i.fields : i.fields[k] # nth
  THEN {<<c, "field">>} ELSE {}


(* Mutants: the id of the first unit stays; the class name is taken for    *)
(* the file's.                                                             *)
LocatedOnce(c, i) ==
  IF i.origin # NoFile THEN i
  ELSE [i EXCEPT !.origin = HeaderOf(c), !.id = FileId(HeaderOf(c))]
(* FeatureDeclCallback::run: the class is named, its text rewritten in the *)
(* buffer of its file.                                                     *)
Located(c, i) == [i EXCEPT !.origin = HeaderOf(c), !.id = FileId(HeaderOf(c))]

VisitClass ==
  /\ pc = "class" /\ todo # << >>
  /\ todo[1] \notin Skipped
  /\ LET c == todo[1]
         i == VisitFields(Located(c, FeatureInfoPtr(c)))
     IN /\ SetInfo(c, VisitCtor(c, i))
        /\ edited' = edited \cup {c}
        /\ dangling' = dangling \cup StaleFields(c, i)
  /\ todo' = Tail(todo)
  /\ UNCHANGED <<units, unit, nth, pc, paths, files, overwrite, rewritten>>

SkipClass ==
  /\ pc = "class" /\ todo # << >>
  /\ todo[1] \in Skipped
  /\ todo' = Tail(todo)
  /\ UNCHANGED <<units, unit, nth, pc, paths, edited, info, files, overwrite,
                 rewritten, dangling>>

(* InferFilterCallback::run, once all classes are visited; then            *)
(* EndSourceFileAction starts on the map of the whole run.                 *)
MatchFilter ==
  /\ pc = "class" /\ todo = << >>
  /\ LET hs == ToSet(unit) \cap FilterHeader
     IN IF hs = {} THEN info' = info
        ELSE \E h \in hs : SetInfo(ItemFilter,
               [FeatureInfoPtr(ItemFilter) EXCEPT !.origin = h, !.id = FileId(h)])
  /\ pc' = "write" /\ todo' = DOMAIN info'
  /\ UNCHANGED <<units, unit, nth, paths, edited, files, overwrite, rewritten,
                 dangling>>

-----------------------------------------------------------------------------
(* handle_features                                                         *)

AlreadyRewritten(h) == h \in rewritten /\ ~overwrite

(* The classes the loop passes over.                                       *)
PassedOver(c) ==
  \/ c = ItemFilter
  \/ info[c].origin = NoFile
  \/ AlreadyRewritten(info[c].origin)

(* An include of a header visited earlier in this loop becomes the new     *)
(* path of the class in hand.                                              *)
Renamed(included, h) == [g \in included |-> IF g \in paths \cup {h} THEN h ELSE NoFile]

HeaderFile(c, text) ==
  [of |-> text.of, bodies |-> text.bodies, class |-> c, unit |-> nth,
   includes |-> IF text.of = Invalid THEN << >>
                ELSE Renamed(Includes[text.of], info[c].origin)]

SourceFile(c) == [class |-> c, unit |-> nth]


(* Mutant: `break` in place of `continue`.                                 *)
StopAtPassedOver ==
  /\ pc = "write" /\ todo # {}
  /\ \E c \in todo :
       /\ PassedOver(c)
       /\ todo' = {}
  /\ UNCHANGED <<units, unit, nth, pc, paths, edited, info, files, overwrite,
                 rewritten, dangling>>

PassOver ==
  /\ pc = "write" /\ todo # {}
  /\ \E c \in todo :
       /\ PassedOver(c)
       /\ todo' = todo \ {c}
  /\ UNCHANGED <<units, unit, nth, pc, paths, edited, info, files, overwrite,
                 rewritten, dangling>>


(* Mutant: a .cc that exists is not written again.                         *)
WriteFeatureSourceOnce ==
  /\ pc = "write" /\ todo # {}
  /\ \E c \in todo :
       /\ ~PassedOver(c)
       /\ LET h == info[c].origin
              header == Store(files, <<"h", h>>, HeaderFile(c, EditBuffer(info[c].id)))
          IN /\ files' = IF c \in Template \/ <<"cc", h>> \in DOMAIN files THEN header
                         ELSE Store(header, <<"cc", h>>, SourceFile(c))
             /\ paths' = paths \cup {h}
       /\ todo' = todo \ {c}
  /\ UNCHANGED <<units, unit, nth, pc, edited, info, overwrite, rewritten,
                 dangling>>

(* The loop runs in the order of an unordered_map; a template has no .cc.  *)
WriteFeature ==
  /\ pc = "write" /\ todo # {}
  /\ \E c \in todo :
       /\ ~PassedOver(c)
       /\ LET h == info[c].origin
              header == Store(files, <<"h", h>>, HeaderFile(c, EditBuffer(info[c].id)))
          IN /\ files' = IF c \in Template THEN header
                         ELSE Store(header, <<"cc", h>>, SourceFile(c))
             /\ paths' = paths \cup {h}
       /\ todo' = todo \ {c}
  /\ UNCHANGED <<units, unit, nth, pc, edited, info, overwrite, rewritten,
                 dangling>>

(* FeatureInfo::gen_output                                                 *)
GenOutput(c) ==
  [enums |-> info[c].ctorEnums,
   spec |-> IF c \in Template
            THEN [a \in DOMAIN info[c].spec |-> info[c].spec[a].params]
            ELSE << >>]

(* A type kept for an argument belongs to the AST it was read from.        *)
StaleTypes(c) ==
  IF c \in Template /\ \E a \in DOMAIN info[c].spec :
       info[c].spec[a].unit # nth /\ info[c].spec[a].params # << >>
  THEN {<<c, "type">>} ELSE {}

WriteDetail ==
  /\ pc = "write" /\ todo = {}
  /\ files' = Store(files, <<"detail">>, [c \in DOMAIN info |-> GenOutput(c)])
  /\ dangling' = dangling \cup UNION {StaleTypes(c) : c \in DOMAIN info}
  /\ pc' = "filter"
  /\ UNCHANGED <<units, unit, nth, todo, paths, edited, info, overwrite,
                 rewritten>>

(* handle_infer_filters: two files of fixed name.                          *)
WriteFilter ==
  /\ pc = "filter"
  /\ files' = IF ItemFilter \notin DOMAIN info THEN files
              ELSE Store(files, <<"filter">>,
                         [of |-> EditBuffer(info[ItemFilter].id).of, unit |-> nth])
  /\ pc' = IF units = << >> THEN "done" ELSE "idle"
  /\ UNCHANGED <<units, unit, nth, todo, paths, edited, info, overwrite,
                 rewritten, dangling>>

-----------------------------------------------------------------------------
Init ==
  /\ units \in RunUnits /\ unit = << >> /\ nth = 0
  /\ pc = "idle" /\ todo = << >> /\ paths = {} /\ edited = {}
  /\ info = << >>
  /\ overwrite \in BOOLEAN /\ \E h \in Header : rewritten \in SUBSET {h}
  /\ \E old \in {{}, Header} :
       files = [p \in {<<"h", h>> : h \in old} |->
                  [of |-> p[2], bodies |-> {}, class |-> NoFile, unit |-> 0,
                   includes |-> << >>]]
  /\ dangling = {}

(* main returns when the last unit has been handled.                       *)
Finished == pc = "done" /\ UNCHANGED vars

Next ==
  \/ StartUnit \/ TypeAlias \/ AliasesDone \/ VisitClass \/ SkipClass
  \/ MatchFilter \/ PassOver \/ WriteFeature \/ WriteDetail \/ WriteFilter
  \/ Finished

(* One thread, and no step waits for anything.                             *)
Spec == Init /\ [][Next]_vars /\ WF_vars(Next)
-----------------------------------------------------------------------------
(* Properties                                                              *)

WrittenNow(f) == f.unit = nth /\ nth > 0

(* handle_features writes every class of the run with the buffers of the   *)
(* last unit (ConvertAction.cpp:136-141).  A header this unit includes is  *)
(* written from its own text with all its classes rewritten; one that only *)
(* an earlier unit included is written with the text of another file.      *)
OwnText ==
  /\ \A h \in Header : <<"h", h>> \in DOMAIN files =>
       LET f == files[<<"h", h>>] IN
       WrittenNow(f) =>
         /\ f.of = h <=> h \in ToSet(unit)
         /\ f.of = h => f.bodies = ToSet(ClassesIn[h]) \ Skipped
  /\ <<"filter">> \in DOMAIN files =>
       LET f == files[<<"filter">>] IN
       WrittenNow(f) => (f.of \in FilterHeader <=> ToSet(unit) \cap FilterHeader # {})

(* The .h and the .cc of a header are the last of one and the same class,  *)
(* unless the header holds a template, which has no .cc of its own: then   *)
(* each file may rename another class (ConvertAction.cpp:144, 172-177).    *)
SourceMatchesHeader ==
  \A h \in Header :
    {<<"h", h>>, <<"cc", h>>} \subseteq DOMAIN files =>
      \/ files[<<"h", h>>].class = files[<<"cc", h>>].class
      \/ ToSet(ClassesIn[h]) \cap Template # {}

(* What a class gathers from its constructor is gathered once, and no node *)
(* of a former AST is read, as long as no class is met in two units and,   *)
(* for the types of template arguments, the run has one unit.              *)
CleanWhenDisjoint ==
  /\ \A c \in DOMAIN info : Len(info[c].fields) <= 1 =>
       info[c].ctorEnums <= 1 /\ info[c].pushed <= 1 /\ <<c, "field">> \notin dangling
  /\ nth <= 1 => dangling = {}

(* Every class a unit declares is written at the end of that unit, unless  *)
(* its own file is taken for rewritten: no other class stops the loop.     *)
EveryClassWritten ==
  \A c \in Class \ Skipped :
    (pc = "class" /\ todo # << >> /\ c = Head(todo))
      ~> (\/ AlreadyRewritten(HeaderOf(c))
          \/ /\ pc = "filter" /\ <<"h", HeaderOf(c)>> \in DOMAIN files
             /\ files[<<"h", HeaderOf(c)>>].unit = nth)

=============================================================================
