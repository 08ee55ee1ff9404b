--------------------------- MODULE EnvScopeProofs ---------------------------
(***************************************************************************)
(* Theorems about EnvScope, for every set of enums, names and constructs   *)
(* and without a bound that matters: MaxDepth and MaxVisit are any naturals.*)
(***************************************************************************)
EXTENDS EnvScope, WellFoundedInduction, SequenceTheorems, TLAPS

-----------------------------------------------------------------------------
(* A non-empty set of positions has a greatest one.                         *)
LEMMA GreatestExists ==
  ASSUME NEW n \in Nat, NEW S \in SUBSET (0 .. n), S # {}
  PROVE  Greatest(S) \in S /\ \A j \in S : j <= Greatest(S)
<1> DEFINE T == {i \in Nat : n - i \in S}
<1>1. T \subseteq Nat
  OBVIOUS
<1>2. T # {}
  <2>1. PICK i \in S : i \in 0 .. n
    OBVIOUS
  <2>2. n - i \in Nat /\ n - (n - i) = i
    BY <2>1
  <2>. QED
    BY <2>1, <2>2
<1>3. PICK t \in T : \A u \in T : ~(<<u, t>> \in OpToRel(<, Nat))
  <2>. HIDE DEF T
  <2>. QED
    BY <1>1, <1>2, NatLessThanWellFounded, WFMin
<1>4. n - t \in S /\ \A j \in S : j <= n - t
  <2>1. SUFFICES ASSUME NEW j \in S PROVE j <= n - t
    BY <1>3
  <2>2. j \in 0 .. n /\ n - j \in Nat /\ n - (n - j) = j
    OBVIOUS
  <2>3. n - j \in T
    BY <2>2
  <2>4. ~(n - j < t)
    BY <1>1, <1>3, <2>3 DEF OpToRel
  <2>. QED
    BY <1>1, <2>2, <2>4
<1>5. \E m \in S : \A j \in S : j <= m
  BY <1>4
<1>. QED
  BY <1>5 DEF Greatest

(* Innermost yields the greatest member of the set it is given, or 0.        *)
LEMMA InnermostType ==
  ASSUME NEW n \in Nat, NEW S \in SUBSET (1 .. n)
  PROVE  /\ Innermost(S) \in S \cup {0}
         /\ Innermost(S) = 0 => S = {}
         /\ \A j \in S : j <= Innermost(S)
<1>1. CASE S = {}
  BY <1>1 DEF Innermost
<1>2. CASE S # {}
  <2>1. S \in SUBSET (0 .. n)
    OBVIOUS
  <2>2. Greatest(S) \in S /\ \A j \in S : j <= Greatest(S)
    BY <1>2, <2>1, GreatestExists
  <2>. QED
    BY <1>2, <2>2 DEF Innermost
<1>. QED
  BY <1>1, <1>2

(* The names a definition of e may have: its candidates, the method's own    *)
(* and the empty one.                                                       *)
Given(e) == {Suffix(e, n) : n \in Starts(e)} \cup SourceVar \cup {NoName}

(* What is given to an enum is among the names of the table.                 *)
LEMMA GivenIsName ==
  ASSUME NEW e \in Enum
  PROVE  Given(e) \subseteq Candidates \cup SourceVar \cup {NoName}
<1>1. e \in Seq(Token) /\ Len(e) \in Nat
  BY NamesAssumption DEF Name
<1>2. Len(e) # 0
  BY <1>1, NamesAssumption DEF NoName, Name
<1>3. Starts(e) \subseteq 1 .. Len(e)
  BY <1>1, <1>2 DEF Starts
<1>. QED
  BY <1>3 DEF Given, Candidates

(* A candidate name is a name, and the one chosen is not in use.             *)
LEMMA FreshNameIsFresh ==
  ASSUME NEW e \in Enum, NEW u
  PROVE  /\ FreshName(e, u) \in Name
         /\ FreshName(e, u) \in Given(e)
         /\ FreshName(e, u) # NoName => FreshName(e, u) \notin u
<1>1. e \in Seq(Token) /\ Len(e) \in Nat
  BY NamesAssumption DEF Name
<1>2. CASE FreeStarts(e, u) = {}
  BY <1>2 DEF FreshName, NoName, Name, Given
<1>3. CASE FreeStarts(e, u) # {}
  <2> DEFINE g == Greatest(FreeStarts(e, u))
  <2>0. Len(e) # 0
    BY <1>1, NamesAssumption DEF NoName, Name
  <2>1. FreeStarts(e, u) \in SUBSET (0 .. Len(e))
    BY <1>1, <2>0 DEF FreeStarts, Starts
  <2>2. g \in FreeStarts(e, u)
    BY <1>1, <1>3, <2>1, GreatestExists
  <2>3. g \in 1 .. Len(e) /\ g \in Starts(e) /\ Suffix(e, g) \notin u
    BY <1>1, <2>0, <2>2 DEF FreeStarts, Starts
  <2>4. \A i \in g .. Len(e) : e[i] \in Token
    BY <1>1, <2>3
  <2>5. Suffix(e, g) \in Seq(Token)
    BY <1>1, <2>3, <2>4, SubSeqProperties DEF Suffix
  <2>6. Suffix(e, g) \in Given(e)
    BY <2>3 DEF Given
  <2>. QED
    BY <1>3, <2>3, <2>5, <2>6 DEF FreshName, Name
<1>. QED
  BY <1>2, <1>3
-----------------------------------------------------------------------------
(* The strengthening of UniqueNames: the live scopes are the root and, in it, *)
(* ifs and loops; a name in a definition has been reserved in the root.      *)
GivenTo(e, d) ==
  /\ d.name \in Given(e)
  /\ d.text \in Given(e) \cup {None}
  /\ d.exists \in Given(e) \cup {None}
  /\ d.exists \in {None, d.name} \/ d.name \in SourceVar

Shape ==
  \A k \in 1 .. Top :
    /\ stack[k].kind = "root" <=> k = 1
    /\ stack[k].stage = "INIT" => stack[k].kind = "loop"
    /\ "prepare" \in stack[k].marks => stack[k].kind = "loop"

NamesReserved ==
  \A k \in 1 .. Top : \A e \in stack[k].keys : stack[k].defs[e].name \in used

(* What a definition declares is named for its enum or by the method.        *)
NamesGiven ==
  \A k \in 1 .. Top : \A e \in stack[k].keys : GivenTo(e, stack[k].defs[e])

IInv == TypeOK /\ Shape /\ NamesReserved /\ UniqueNames /\ NamesGiven

(* What DefsStable says of one definition.                                   *)
Completes(d, old) ==
  /\ d.name \in {old.name} \cup SourceVar
  /\ \A part \in {"text", "exists"} :
       old[part] # None => d[part] \in {old[part]} \cup SourceVar

(* The step replaces the definition of e in scope k by d.                    *)
Registers(k, e, d) ==
  /\ stack' \in Seq(Frame) /\ Len(stack') = Len(stack)
  /\ \A i \in 1 .. Len(stack) :
       /\ stack'[i].kind = stack[i].kind
       /\ stack'[i].stage = stack[i].stage
       /\ \/ stack'[i].marks = stack[i].marks
          \/ stack[i].marks \subseteq {"action"} /\ stack'[i].marks = {"action"}
       /\ stack'[i].keys = IF i = k THEN stack[i].keys \cup {e} ELSE stack[i].keys
       /\ \A c \in Enum :
            stack'[i].defs[c] = IF i = k /\ c = e THEN d ELSE stack[i].defs[c]

(* d may become the definition of e in scope k: e is not visible there and   *)
(* the name is not in use, or the definition is renamed by the method or     *)
(* completed.                                                               *)
Lawful(k, e, d) ==
  /\ GivenTo(e, d)
  /\ \/ /\ Find(e, k) = 0
        /\ d.name \notin SourceVar \cup {NoName} => d.name \notin used
     \/ /\ e \in stack[k].keys
        /\ Completes(d, stack[k].defs[e])

(* The step changes no definition of a scope that lives on.                  *)
KeepsDefs ==
  \A i \in 1 .. Len(stack') :
    \/ stack'[i].keys = {}
    \/ /\ i <= Len(stack)
       /\ stack'[i].keys = stack[i].keys
       /\ stack'[i].defs = stack[i].defs
-----------------------------------------------------------------------------
(* Find yields the innermost scope that has a definition of e, or 0.         *)
LEMMA FindType ==
  ASSUME TypeOK, NEW e, NEW d \in 1 .. Top
  PROVE  /\ Find(e, d) \in 0 .. d
         /\ Find(e, d) # 0 => e \in stack[Find(e, d)].keys
         /\ \A j \in 1 .. d : e \in stack[j].keys => j <= Find(e, d)
<1>1. Top \in Nat
  BY DEF TypeOK, Top
<1> DEFINE S == {k \in 1 .. d : e \in stack[k].keys}
<1>2. S \in SUBSET (1 .. Top)
  BY <1>1
<1>3. Innermost(S) \in S \cup {0} /\ \A j \in S : j <= Innermost(S)
  <2>. HIDE DEF S
  <2>. QED
    BY <1>1, <1>2, InnermostType
<1>4. Find(e, d) = Innermost(S)
  BY DEF Find
<1>. QED
  BY <1>1, <1>3, <1>4

(* Where a look-up finds nothing, no scope up to there has a definition.      *)
LEMMA FindNone ==
  ASSUME Top \in Nat, NEW e, NEW d \in 1 .. Top, Find(e, d) = 0
  PROVE  \A j \in 1 .. d : e \notin stack[j].keys
<1> DEFINE S == {k \in 1 .. d : e \in stack[k].keys}
<1>1. S \in SUBSET (1 .. d) /\ d \in Nat
  OBVIOUS
<1>2. Innermost(S) = 0 => S = {}
  <2>. HIDE DEF S
  <2>. QED
    BY <1>1, InnermostType
<1>3. S = {}
  BY <1>2 DEF Find
<1>. QED
  BY <1>3

(* The innermost loop around a scope, and the innermost common info loop.     *)
LEMMA LoopOfType ==
  ASSUME TypeOK, NEW d \in 1 .. Top
  PROVE  /\ LoopOf(d) \in 0 .. d
         /\ LoopOf(d) # 0 => stack[LoopOf(d)].kind = "loop"
         /\ \A j \in 1 .. d : stack[j].kind = "loop" => j <= LoopOf(d)
<1>1. Top \in Nat
  BY DEF TypeOK, Top
<1> DEFINE S == {k \in 1 .. d : stack[k].kind = "loop"}
<1>2. S \in SUBSET (1 .. Top)
  BY <1>1
<1>3. Innermost(S) \in S \cup {0} /\ \A j \in S : j <= Innermost(S)
  <2>. HIDE DEF S
  <2>. QED
    BY <1>1, <1>2, InnermostType
<1>4. LoopOf(d) = Innermost(S)
  BY DEF LoopOf
<1>. QED
  BY <1>1, <1>3, <1>4

LEMMA PrepareOfType ==
  ASSUME TypeOK, NEW d \in 1 .. Top
  PROVE  /\ PrepareOf(d) \in 0 .. d
         /\ PrepareOf(d) # 0 => "prepare" \in stack[PrepareOf(d)].marks
         /\ \A j \in 1 .. d : "prepare" \in stack[j].marks => j <= PrepareOf(d)
<1>1. Top \in Nat
  BY DEF TypeOK, Top
<1> DEFINE S == {k \in 1 .. d : "prepare" \in stack[k].marks}
<1>2. S \in SUBSET (1 .. Top)
  BY <1>1
<1>3. Innermost(S) \in S \cup {0} /\ \A j \in S : j <= Innermost(S)
  <2>. HIDE DEF S
  <2>. QED
    BY <1>1, <1>2, InnermostType
<1>4. PrepareOf(d) = Innermost(S)
  BY DEF PrepareOf
<1>. QED
  BY <1>1, <1>3, <1>4

(* A definition always goes to a live scope, never further in.               *)
LEMMA TargetType ==
  ASSUME TypeOK, Shape, NEW e, NEW d \in 1 .. Top
  PROVE  Target(e, d) \in 1 .. d
<1>1. Top \in Nat /\ d \in Nat
  BY DEF TypeOK, Top
<1>2. \A k \in 1 .. d : stack[k].kind # "root" => k - 1 \in 1 .. d
  BY <1>1 DEF Shape
<1>3. LoopOf(d) # 0 => LoopOf(d) - 1 \in 1 .. d
  BY <1>1, <1>2, LoopOfType
<1>4. PrepareOf(d) # 0 => PrepareOf(d) - 1 \in 1 .. d
  <2>1. PrepareOf(d) # 0 =>
          PrepareOf(d) \in 1 .. d /\ stack[PrepareOf(d)].kind = "loop"
    BY <1>1, PrepareOfType DEF Shape
  <2>. QED
    BY <1>2, <2>1
<1>5. stack[d].kind = "if" => d - 1 \in 1 .. d
  BY <1>1, <1>2
<1>. QED
  BY <1>1, <1>3, <1>4, <1>5 DEF Target, InCommonInfoBody

(* The name a reference gets is a name.                                      *)
LEMMA NameFromType ==
  ASSUME IInv, NEW e \in Enum, NEW d \in 1 .. Top
  PROVE  NameFrom(e, d) \in Name \cap Given(e)
<1>1. CASE Find(e, d) # 0
  <2>1. Find(e, d) \in 1 .. Len(stack) /\ e \in stack[Find(e, d)].keys
    BY <1>1, FindType DEF IInv, TypeOK, Top
  <2>2. stack[Find(e, d)] \in Frame
    BY <2>1, ElementOfSeq DEF IInv, TypeOK
  <2>3. stack[Find(e, d)].defs[e] \in Def
    BY <2>2 DEF Frame
  <2>4. GivenTo(e, stack[Find(e, d)].defs[e])
    BY <2>1 DEF IInv, NamesGiven, Top
  <2>. QED
    BY <1>1, <2>3, <2>4 DEF NameFrom, Def, GivenTo
<1>2. CASE Find(e, d) = 0
  BY <1>2, FreshNameIsFresh DEF NameFrom
<1>. QED
  BY <1>1, <1>2
-----------------------------------------------------------------------------
(* A frame with other definitions is a frame.                                *)
LEMMA FrameUpdate ==
  ASSUME NEW r \in Frame, NEW K \in SUBSET Enum, NEW D \in [Enum -> Def]
  PROVE  /\ [r EXCEPT !.keys = K, !.defs = D] \in Frame
         /\ [r EXCEPT !.defs = D] \in Frame
BY DEF Frame

(* Every live scope is a frame.                                              *)
LEMMA FrameOf ==
  ASSUME TypeOK, NEW k \in 1 .. Top
  PROVE  /\ stack[k] \in Frame
         /\ stack[k].keys \in SUBSET Enum
         /\ stack[k].defs \in [Enum -> Def]
<1>1. stack[k] \in Frame
  BY ElementOfSeq DEF TypeOK, Top
<1>. QED
  BY <1>1 DEF Frame

(* What the abstract table sees of a step.                                   *)
TableStep == [Table!TableNext]_Scopes

(* What DefsStable says of a step.                                           *)
DefsStep ==
  \A k \in 1 .. Top : \A e \in stack[k].keys :
    k <= Len(stack') =>
      e \in stack'[k].keys /\ Completes(stack'[k].defs[e], stack[k].defs[e])

StepOK == TableStep /\ DefsStep

(* The names a live scope gives.                                             *)
LEMMA ScopesAre ==
  ASSUME Top \in Nat
  PROVE  /\ Len(Scopes) = Top /\ DOMAIN Scopes = 1 .. Top
         /\ Scopes = [k \in 1 .. Top |-> Scopes[k]]
         /\ \A k \in 1 .. Top :
              Scopes[k] = [e \in stack[k].keys |-> stack[k].defs[e].name]
<1>. DEFINE F(k) == [e \in stack[k].keys |-> stack[k].defs[e].name]
<1>1. Scopes = [k \in 1 .. Top |-> F(k)]
  BY DEF Scopes
<1>. HIDE DEF F
<1>2. Len(Scopes) = Top /\ DOMAIN Scopes = 1 .. Top
      /\ \A k \in 1 .. Top : Scopes[k] = F(k)
  BY <1>1
<1>. QED
  BY <1>1, <1>2 DEF F

(* A step that leaves the definitions of all scopes alone is no step of the  *)
(* table.                                                                    *)
LEMMA KeptMaps ==
  ASSUME Top \in Nat, Top' = Top,
         \A i \in 1 .. Top : stack'[i].keys = stack[i].keys
                             /\ stack'[i].defs = stack[i].defs
  PROVE  TableStep
<1>1. Scopes' = Scopes
  BY DEF Scopes
<1>. QED
  BY <1>1 DEF TableStep

(* A definition that is new where it is not visible, or that the method      *)
(* names, is one of the table.                                               *)
LEMMA RegisterMaps ==
  ASSUME TypeOK, NamesReserved, NEW k \in 1 .. Top, NEW e \in Enum,
         NEW d \in Def, Registers(k, e, d), Lawful(k, e, d)
  PROVE  TableStep
<1>1. Top \in Nat /\ Top' = Top /\ Top = Len(stack)
      /\ \A i \in 1 .. Top : stack[i].keys \subseteq Enum
  BY FrameOf DEF TypeOK, Registers, Top
<1>2. /\ DOMAIN Scopes = 1 .. Top
      /\ Scopes = [i \in 1 .. Top |-> Scopes[i]]
      /\ \A i \in 1 .. Top :
           Scopes[i] = [c \in stack[i].keys |-> stack[i].defs[c].name]
  BY <1>1, ScopesAre
<1>3. Scopes' = [i \in 1 .. Top |->
                   [c \in stack'[i].keys |-> stack'[i].defs[c].name]]
  BY <1>1 DEF Scopes
<1>4. \A i \in 1 .. Top : i # k =>
        [c \in stack'[i].keys |-> stack'[i].defs[c].name] = Scopes[i]
  <2>1. SUFFICES ASSUME NEW i \in 1 .. Top, i # k
                 PROVE  [c \in stack'[i].keys |-> stack'[i].defs[c].name]
                          = [c \in stack[i].keys |-> stack[i].defs[c].name]
    BY <1>2
  <2>2. stack'[i].keys = stack[i].keys
        /\ \A c \in stack[i].keys : stack'[i].defs[c] = stack[i].defs[c]
    BY <1>1, <2>1 DEF Registers
  <2>. QED
    BY <2>2
<1>5. [c \in stack'[k].keys |-> stack'[k].defs[c].name]
        = Table!Named(k, e, d.name)
  <2>1. stack'[k].keys = stack[k].keys \cup {e} /\ stack[k].keys \subseteq Enum
    BY <1>1 DEF Registers
  <2>2. \A c \in stack'[k].keys : stack'[k].defs[c].name
          = IF c = e THEN d.name ELSE stack[k].defs[c].name
    BY <1>1, <2>1 DEF Registers
  <2>3. DOMAIN Scopes[k] = stack[k].keys
        /\ \A c \in stack[k].keys : Scopes[k][c] = stack[k].defs[c].name
    BY <1>2
  <2>. QED
    BY <2>1, <2>2, <2>3 DEF Table!Named
<1>6. Scopes' = [Scopes EXCEPT ![k] = Table!Named(k, e, d.name)]
  BY <1>2, <1>3, <1>4, <1>5
<1>7. CASE e \in stack[k].keys /\ d.name = stack[k].defs[e].name
  <2>1. Table!Named(k, e, d.name) = Scopes[k]
    <3>1. DOMAIN Scopes[k] = stack[k].keys /\ DOMAIN Scopes[k] \cup {e} = DOMAIN Scopes[k]
          /\ Scopes[k][e] = d.name
      BY <1>2, <1>7
    <3>2. Scopes[k] = [c \in DOMAIN Scopes[k] |-> Scopes[k][c]]
      BY <1>2
    <3>. QED
      BY <3>1, <3>2 DEF Table!Named
  <2>2. Scopes' = Scopes
    BY <1>2, <1>6, <2>1
  <2>. QED
    BY <2>2 DEF TableStep
<1>8. CASE e \in stack[k].keys /\ d.name \in SourceVar
  <2>1. Table!Rename(k, e, d.name)
    BY <1>2, <1>6, <1>8 DEF Table!Rename
  <2>. QED
    BY <1>2, <1>8, <2>1 DEF TableStep, Table!TableNext
<1>9. CASE /\ Find(e, k) = 0
           /\ d.name \notin SourceVar \cup {NoName} => d.name \notin used
  <2>1. ~ Table!Visible(e, k)
    BY <1>1, <1>2, <1>9, FindNone DEF Table!Visible
  <2>2. Table!Taken(d.name) => d.name \in used
    BY <1>2 DEF Table!Taken, NamesReserved
  <2>3. Table!Define(k, e, d.name)
    BY <1>6, <1>9, <2>1, <2>2 DEF Table!Define
  <2>4. d.name \in Candidates \cup SourceVar \cup {NoName}
    BY GivenIsName DEF Lawful, GivenTo
  <2>. QED
    BY <1>2, <2>3, <2>4 DEF TableStep, Table!TableNext
<1>. QED
  BY <1>7, <1>8, <1>9 DEF Lawful, Completes

(* Replacing the definition of e in a live scope, marks included, is a       *)
(* registration.                                                            *)
LEMMA ReplaceRegisters ==
  ASSUME TypeOK, NEW k \in 1 .. Top, NEW e \in Enum, NEW d \in Def,
         NEW s \in Seq(Frame), Len(s) = Top,
         \A i \in 1 .. Top :
           \E m \in {stack[i].marks, {"action"}} :
             /\ s[i] = [stack[i] EXCEPT !.marks = m]
             /\ m = stack[i].marks \/ stack[i].marks \subseteq {"action"},
         NEW f \in Frame, f.kind = s[k].kind, f.stage = s[k].stage,
         f.marks = s[k].marks, f.keys = s[k].keys \cup {e},
         f.defs = [s[k].defs EXCEPT ![e] = d],
         stack' = [s EXCEPT ![k] = f]
  PROVE  Registers(k, e, d)
<1>0. k \in 1 .. Len(s) /\ Top = Len(stack)
  BY DEF Top
<1>1. \A i \in 1 .. Top : stack[i] \in Frame /\ s[i] \in Frame
  BY ElementOfSeq DEF TypeOK, Top
<1>2. s[k].defs \in [Enum -> Def]
  BY <1>1 DEF Frame
<1>3. /\ stack' \in Seq(Frame) /\ Len(stack') = Len(stack)
      /\ \A i \in 1 .. Len(stack) : stack'[i] = IF i = k THEN f ELSE s[i]
  BY <1>0, ExceptSeq
<1>4. ASSUME NEW i \in 1 .. Len(stack)
      PROVE  /\ stack'[i].kind = stack[i].kind
             /\ stack'[i].stage = stack[i].stage
             /\ \/ stack'[i].marks = stack[i].marks
                \/ /\ stack[i].marks \subseteq {"action"}
                   /\ stack'[i].marks = {"action"}
             /\ stack'[i].keys =
                  IF i = k THEN stack[i].keys \cup {e} ELSE stack[i].keys
             /\ \A c \in Enum : stack'[i].defs[c] =
                  IF i = k /\ c = e THEN d ELSE stack[i].defs[c]
  <2>1. PICK m \in {stack[i].marks, {"action"}} :
          /\ s[i] = [stack[i] EXCEPT !.marks = m]
          /\ m = stack[i].marks \/ stack[i].marks \subseteq {"action"}
    BY <1>0
  <2>2. stack[i] \in Frame
    BY <1>0, <1>1
  <2>3. s[i].kind = stack[i].kind /\ s[i].stage = stack[i].stage
        /\ s[i].marks = m /\ s[i].keys = stack[i].keys
        /\ s[i].defs = stack[i].defs
    BY <2>1, <2>2 DEF Frame
  <2>6. \/ s[i].marks = stack[i].marks
        \/ stack[i].marks \subseteq {"action"} /\ s[i].marks = {"action"}
    BY <2>1, <2>3
  <2>4. CASE i # k
    <3>1. stack'[i] = s[i]
      BY <1>3, <2>4
    <3>. QED
      BY <2>3, <2>4, <2>6, <3>1
  <2>5. CASE i = k
    <3>1. \A c \in Enum : f.defs[c] = IF c = e THEN d ELSE s[k].defs[c]
      BY <1>2
    <3>2. stack'[i] = f
      BY <1>3, <2>5
    <3>3. f.marks = s[i].marks /\ f.kind = s[i].kind /\ f.stage = s[i].stage
          /\ f.keys = s[i].keys \cup {e} /\ s[k] = s[i]
      BY <2>5
    <3>4. \A c \in Enum : stack'[i].defs[c] = IF c = e THEN d ELSE stack[i].defs[c]
      BY ONLY <2>3, <3>1, <3>2, <3>3
    <3>5. /\ stack'[i].kind = stack[i].kind /\ stack'[i].stage = stack[i].stage
          /\ stack'[i].marks = s[i].marks /\ stack'[i].keys = stack[i].keys \cup {e}
      BY ONLY <2>3, <3>2, <3>3
    <3>. QED
      BY ONLY <2>5, <2>6, <3>4, <3>5
  <2>. QED
    BY <2>4, <2>5
<1>. QED
  BY <1>3, <1>4 DEF Registers

(* The definition of e in scope k becomes d.                                 *)
LEMMA WithRegisters ==
  ASSUME TypeOK, NEW k \in 1 .. Top, NEW e \in Enum, NEW d \in Def,
         stack' = With(k, e, d)
  PROVE  Registers(k, e, d)
<1> DEFINE D == [stack[k].defs EXCEPT ![e] = d]
           K == stack[k].keys \cup {e}
           f == [stack[k] EXCEPT !.keys = K, !.defs = D]
<1>1. stack[k] \in Frame /\ K \in SUBSET Enum /\ D \in [Enum -> Def]
  BY FrameOf
<1>2. f \in Frame
  <2>. HIDE DEF K, D
  <2>. QED
    BY <1>1, FrameUpdate
<1>3. f.kind = stack[k].kind /\ f.stage = stack[k].stage
      /\ f.marks = stack[k].marks /\ f.keys = K /\ f.defs = D
  <2>. HIDE DEF K, D
  <2>. QED
    BY <1>1 DEF Frame
<1>4. stack' = [stack EXCEPT ![k] = f]
  BY DEF With
<1>5. stack \in Seq(Frame) /\ Len(stack) = Top
      /\ \A i \in 1 .. Top : stack[i] = [stack[i] EXCEPT !.marks = stack[i].marks]
  BY FrameOf DEF TypeOK, Top, Frame
<1>. HIDE DEF f
<1>. QED
  BY <1>2, <1>3, <1>4, <1>5, ReplaceRegisters

(* A definition of e that is there already becomes d.                        *)
LEMMA SetRegisters ==
  ASSUME TypeOK, NEW k \in 1 .. Top, NEW e \in Enum, NEW d \in Def,
         e \in stack[k].keys,
         stack' = [stack EXCEPT ![k].defs[e] = d]
  PROVE  Registers(k, e, d)
<1> DEFINE D == [stack[k].defs EXCEPT ![e] = d]
           f == [stack[k] EXCEPT !.defs = D]
<1>1. stack[k] \in Frame /\ D \in [Enum -> Def]
  BY FrameOf
<1>2. f \in Frame
  <2>. HIDE DEF D
  <2>. QED
    BY <1>1, FrameUpdate
<1>3. f.kind = stack[k].kind /\ f.stage = stack[k].stage
      /\ f.marks = stack[k].marks /\ f.keys = stack[k].keys \cup {e} /\ f.defs = D
  <2>. HIDE DEF D
  <2>. QED
    BY <1>1 DEF Frame
<1>4. stack' = [stack EXCEPT ![k] = f]
  OBVIOUS
<1>5. stack \in Seq(Frame) /\ Len(stack) = Top
      /\ \A i \in 1 .. Top : stack[i] = [stack[i] EXCEPT !.marks = stack[i].marks]
  BY FrameOf DEF TypeOK, Top, Frame
<1>. HIDE DEF f
<1>. QED
  BY <1>2, <1>3, <1>4, <1>5, ReplaceRegisters

(* Definitions under names that are the method's, or new, or the ones they   *)
(* had, keep the invariant and are steps of the table.                      *)
LEMMA RegisterKeeps ==
  ASSUME IInv, NEW k \in 1 .. Top, NEW e \in Enum, NEW d \in Def,
         Registers(k, e, d), Lawful(k, e, d), used \subseteq used',
         used' \in SUBSET Name, visited' \in Nat, d.name \in used'
  PROVE  IInv' /\ StepOK
<1>1. /\ Top \in Nat /\ Top = Len(stack) /\ Top' = Top
      /\ \A i \in 1 .. Top : stack[i].keys \subseteq Enum
  <2>1. \A i \in 1 .. Top : stack[i] \in Frame
    BY ElementOfSeq DEF IInv, TypeOK, Top
  <2>. QED
    BY <2>1 DEF Registers, Frame, IInv, TypeOK, Top
<1>2. TypeOK'
  BY DEF TypeOK, Registers
<1>0. ASSUME NEW i \in 1 .. Top, NEW c \in stack'[i].keys, ~(i = k /\ c = e)
      PROVE  c \in stack[i].keys /\ stack'[i].defs[c] = stack[i].defs[c]
  <2>1. stack'[i].keys = IF i = k THEN stack[i].keys \cup {e} ELSE stack[i].keys
    BY <1>1 DEF Registers
  <2>2. c \in stack[i].keys
    BY <1>0, <2>1
  <2>3. c \in Enum
    BY <1>1, <2>2
  <2>4. stack'[i].defs[c] = IF i = k /\ c = e THEN d ELSE stack[i].defs[c]
    BY <1>1, <2>3 DEF Registers
  <2>. QED
    BY <1>0, <2>2, <2>4
<1>3. Shape'
  <2>1. SUFFICES ASSUME NEW i \in 1 .. Top
                 PROVE  /\ stack'[i].kind = "root" <=> i = 1
                        /\ stack'[i].stage = "INIT" => stack'[i].kind = "loop"
                        /\ "prepare" \in stack'[i].marks => stack'[i].kind = "loop"
    BY <1>1 DEF Shape
  <2>2. /\ stack'[i].kind = stack[i].kind /\ stack'[i].stage = stack[i].stage
        /\ stack'[i].marks \in {stack[i].marks, {"action"}}
    BY <1>1 DEF Registers
  <2>3. "prepare" \in stack'[i].marks => "prepare" \in stack[i].marks
    BY <2>2
  <2>. QED
    BY <2>2, <2>3 DEF IInv, Shape
<1>4. NamesReserved'
  <2>1. SUFFICES ASSUME NEW i \in 1 .. Top, NEW c \in stack'[i].keys
                 PROVE  stack'[i].defs[c].name \in used'
    BY <1>1 DEF NamesReserved
  <2>2. CASE i = k /\ c = e
    BY <1>1, <2>2 DEF Registers
  <2>3. CASE ~(i = k /\ c = e)
    <3>1. c \in stack[i].keys /\ stack'[i].defs[c] = stack[i].defs[c]
      BY <1>0, <2>3
    <3>. QED
      BY <3>1 DEF IInv, NamesReserved
  <2>. QED
    BY <2>2, <2>3
<1>5. UniqueNames'
  <2> DEFINE Old(i, c) == ~(i = k /\ c = e)
  <2>1. ASSUME NEW i \in 1 .. Top, NEW c \in stack'[i].keys, Old(i, c)
        PROVE  /\ c \in stack[i].keys
               /\ stack'[i].defs[c].name = stack[i].defs[c].name
               /\ stack[i].defs[c].name \in used
    <3>1. c \in stack[i].keys /\ stack'[i].defs[c] = stack[i].defs[c]
      BY <1>0, <2>1
    <3>. QED
      BY <3>1 DEF IInv, NamesReserved
  <2>2. stack'[k].defs[e].name = d.name
    BY <1>1 DEF Registers
  <2>3. ASSUME NEW i \in 1 .. Top, NEW c \in stack'[i].keys, Old(i, c),
               stack'[i].defs[c].name = d.name,
               d.name \notin SourceVar \cup {NoName}
        PROVE  FALSE
    <3>1. c \in stack[i].keys /\ stack[i].defs[c].name = d.name /\ d.name \in used
      BY <2>1, <2>3
    <3>2. e \in stack[k].keys /\ stack[k].defs[e].name = d.name
      BY <2>3, <3>1 DEF Lawful, Completes
    <3>3. i = k /\ c = e
      BY <1>1, <2>3, <3>1, <3>2 DEF IInv, UniqueNames
    <3>. QED
      BY <2>3, <3>3
  <2>4. SUFFICES ASSUME NEW i \in 1 .. Top, NEW j \in 1 .. Top,
                        NEW b \in stack'[i].keys, NEW c \in stack'[j].keys,
                        stack'[i].defs[b].name = stack'[j].defs[c].name,
                        stack'[i].defs[b].name \notin SourceVar \cup {NoName}
                 PROVE  i = j /\ b = c
    BY <1>1 DEF UniqueNames
  <2>5. CASE Old(i, b) /\ Old(j, c)
    <3>1. /\ b \in stack[i].keys /\ c \in stack[j].keys
          /\ stack[i].defs[b].name = stack[j].defs[c].name
          /\ stack[i].defs[b].name \notin SourceVar \cup {NoName}
      BY <2>1, <2>4, <2>5
    <3>. QED
      BY <1>1, <3>1 DEF IInv, UniqueNames
  <2>6. CASE Old(i, b) /\ ~Old(j, c)
    BY <2>2, <2>3, <2>4, <2>6
  <2>7. CASE ~Old(i, b) /\ Old(j, c)
    BY <2>2, <2>3, <2>4, <2>7
  <2>8. CASE ~Old(i, b) /\ ~Old(j, c)
    BY <2>8
  <2>. QED
    BY <2>5, <2>6, <2>7, <2>8
<1>6. NamesGiven'
  <2>1. SUFFICES ASSUME NEW i \in 1 .. Top, NEW c \in stack'[i].keys
                 PROVE  GivenTo(c, stack'[i].defs[c])
    BY <1>1 DEF NamesGiven, GivenTo
  <2>2. CASE i = k /\ c = e
    BY <1>1, <2>2 DEF Registers, Lawful
  <2>3. CASE ~(i = k /\ c = e)
    BY <1>0, <2>3 DEF IInv, NamesGiven
  <2>. QED
    BY <2>2, <2>3
<1>7. TableStep
  BY RegisterMaps DEF IInv
<1>8. DefsStep
  <2>1. SUFFICES ASSUME NEW i \in 1 .. Top, NEW c \in stack[i].keys
                 PROVE  /\ c \in stack'[i].keys
                        /\ Completes(stack'[i].defs[c], stack[i].defs[c])
    BY <1>1 DEF DefsStep
  <2>2. c \in stack'[i].keys /\ c \in Enum
    BY <1>1 DEF Registers
  <2>3. CASE i = k /\ c = e
    <3>1. Find(e, k) # 0
      BY <1>1, <2>3, FindNone
    <3>2. stack'[k].defs[e] = d
      BY <1>1 DEF Registers
    <3>. QED
      BY <2>2, <2>3, <3>1, <3>2 DEF Lawful
  <2>4. CASE ~(i = k /\ c = e)
    BY <1>0, <2>2, <2>4 DEF Completes
  <2>. QED
    BY <2>3, <2>4
<1>. QED
  BY <1>2, <1>3, <1>4, <1>5, <1>6, <1>7, <1>8 DEF IInv, StepOK

(* A step that leaves the definitions alone keeps what is said of names.     *)
LEMMA KeepsDefsKeeps ==
  ASSUME IInv, KeepsDefs, used \subseteq used', stack' \in Seq(Frame)
  PROVE  NamesReserved' /\ UniqueNames' /\ NamesGiven'
<1>1. /\ Top \in Nat /\ Top = Len(stack)
      /\ Top' \in Nat /\ Top' = Len(stack')
  BY DEF IInv, TypeOK, Top
<1>2. ASSUME NEW i \in 1 .. Top', NEW c \in stack'[i].keys
      PROVE  /\ i \in 1 .. Top /\ c \in stack[i].keys
             /\ stack'[i].defs[c] = stack[i].defs[c]
  BY <1>1, <1>2 DEF KeepsDefs
<1>3. NamesReserved'
  BY <1>2 DEF IInv, NamesReserved
<1>4. UniqueNames'
  <2>1. SUFFICES ASSUME NEW i \in 1 .. Top', NEW j \in 1 .. Top',
                        NEW b \in stack'[i].keys, NEW c \in stack'[j].keys,
                        stack'[i].defs[b].name = stack'[j].defs[c].name,
                        stack'[i].defs[b].name \notin SourceVar \cup {NoName}
                 PROVE  i = j /\ b = c
    BY DEF UniqueNames
  <2>2. /\ i \in 1 .. Top /\ b \in stack[i].keys
        /\ stack'[i].defs[b] = stack[i].defs[b]
    BY <1>2
  <2>3. /\ j \in 1 .. Top /\ c \in stack[j].keys
        /\ stack'[j].defs[c] = stack[j].defs[c]
    BY <1>2
  <2>. QED
    BY <2>1, <2>2, <2>3 DEF IInv, UniqueNames
<1>5. NamesGiven'
  BY <1>2 DEF IInv, NamesGiven, GivenTo
<1>. QED
  BY <1>3, <1>4, <1>5

(* A step that leaves the scopes alone is no step at all for them.            *)
LEMMA SameKeeps ==
  ASSUME IInv, stack' = stack, used \subseteq used', used' \in SUBSET Name,
         visited' \in Nat
  PROVE  IInv' /\ StepOK
<1>1. TableStep /\ DefsStep
  BY KeptMaps DEF IInv, TypeOK, Top, DefsStep, Completes
<1>. QED
  BY <1>1 DEF IInv, TypeOK, Shape, NamesReserved, NamesGiven, GivenTo,
              UniqueNames, Top, StepOK
-----------------------------------------------------------------------------
(* The scope a look-up finds, and the definition it finds there.             *)
LEMMA FoundDef ==
  ASSUME TypeOK, NEW e \in Enum, NEW t \in 1 .. Top, Find(e, t) # 0
  PROVE  /\ Find(e, t) \in 1 .. Top
         /\ e \in stack[Find(e, t)].keys
         /\ stack[Find(e, t)].defs[e] \in Def
<1>1. Find(e, t) \in 1 .. Top /\ e \in stack[Find(e, t)].keys
  BY FindType DEF TypeOK, Top
<1>2. stack[Find(e, t)].defs \in [Enum -> Def]
  BY <1>1, FrameOf
<1>. QED
  BY <1>1, <1>2

(* add_new_def_helper with a name: the definition that is visible gets the    *)
(* text it lacks, otherwise one with a fresh name is made in the target.      *)
LEMMA AddDefForm ==
  ASSUME TypeOK, NEW e \in Enum, NEW t \in 1 .. Top, NEW x \in Name,
         AddDef(e, t, x)
  PROVE  /\ Find(e, t) = 0 =>
              /\ used' = used \cup {FreshName(e, used)}
              /\ Registers(t, e, [name |-> FreshName(e, used), text |-> x,
                                  exists |-> None])
         /\ Find(e, t) # 0 =>
              LET old == stack[Find(e, t)].defs[e]
              IN /\ used' = used
                 /\ old.text # None => stack' = stack
                 /\ old.text = None =>
                      Registers(Find(e, t), e, [old EXCEPT !.text = x])
<1>1. CASE Find(e, t) # 0
  <2> DEFINE k == Find(e, t)
             old == stack[k].defs[e]
             d == [old EXCEPT !.text = x]
  <2>1. k \in 1 .. Top /\ e \in stack[k].keys /\ old \in Def
    BY <1>1, FoundDef
  <2>2. d \in Def
    BY <2>1 DEF Def
  <2>3. used' = used /\ (old.text # None => stack' = stack)
    BY <1>1 DEF AddDef
  <2>4. ASSUME old.text = None PROVE Registers(k, e, d)
    <3>1. stack' = [stack EXCEPT ![k].defs[e] = d]
      BY <1>1, <2>4 DEF AddDef
    <3>. HIDE DEF d, k
    <3>. QED
      BY <2>1, <2>2, <3>1, SetRegisters
  <2>. QED
    BY <1>1, <2>3, <2>4
<1>2. CASE Find(e, t) = 0
  <2> DEFINE name == FreshName(e, used)
             d == [name |-> name, text |-> x, exists |-> None]
  <2>1. name \in Name
    BY FreshNameIsFresh
  <2>2. d \in Def
    BY <2>1 DEF Def
  <2>3. stack' = With(t, e, d) /\ used' = used \cup {name}
    BY <1>2 DEF AddDef
  <2>. HIDE DEF d, name
  <2>4. Registers(t, e, d)
    BY <2>2, <2>3, WithRegisters
  <2>. QED
    BY <1>2, <2>3, <2>4 DEF d, name
<1>. QED
  BY <1>1, <1>2

(* It keeps the invariant.                                                   *)
LEMMA AddDefKeeps ==
  ASSUME IInv, NEW e \in Enum, NEW t \in 1 .. Top,
         NEW x \in Given(e), x \in Name, AddDef(e, t, x), visited' \in Nat
  PROVE  IInv' /\ StepOK
<1>0. TypeOK /\ used \in SUBSET Name
  BY DEF IInv, TypeOK
<1>1. CASE Find(e, t) # 0
  <2> DEFINE k == Find(e, t)
             old == stack[k].defs[e]
             d == [old EXCEPT !.text = x]
  <2>1. k \in 1 .. Top /\ e \in stack[k].keys /\ old \in Def
    BY <1>0, <1>1, FoundDef
  <2>2. d \in Def /\ d.name = old.name /\ d.text = x /\ d.exists = old.exists
    BY <2>1 DEF Def
  <2>3. used' = used /\ old.name \in used
    BY <1>0, <1>1, <2>1, AddDefForm DEF IInv, NamesReserved
  <2>4. CASE old.text = None
    <3>1. Registers(k, e, d)
      BY <1>0, <1>1, <2>4, AddDefForm
    <3>2. Lawful(k, e, d)
      <4>1. GivenTo(e, old)
        BY <2>1 DEF IInv, NamesGiven
      <4>. HIDE DEF d, old
      <4>2. GivenTo(e, d) /\ Completes(d, old)
        BY <2>2, <2>4, <4>1 DEF GivenTo, Completes
      <4>. QED
        BY <2>1, <4>2 DEF Lawful, old
    <3>. HIDE DEF d, k
    <3>. QED
      BY <1>0, <2>1, <2>2, <2>3, <3>1, <3>2, RegisterKeeps
  <2>5. CASE old.text # None
    <3>1. UNCHANGED <<stack, used>>
      BY <1>0, <1>1, <2>3, <2>5, AddDefForm
    <3>. QED
      BY <1>0, <3>1, SameKeeps
  <2>. QED
    BY <2>4, <2>5
<1>2. CASE Find(e, t) = 0
  <2> DEFINE name == FreshName(e, used)
             d == [name |-> name, text |-> x, exists |-> None]
  <2>1. name \in Name /\ name \in Given(e)
        /\ (name # NoName => name \notin used)
    BY FreshNameIsFresh
  <2>2. d \in Def /\ d.name = name /\ d.text = x /\ d.exists = None
    BY <2>1 DEF Def
  <2>3. Registers(t, e, d) /\ used' = used \cup {name}
    BY <1>0, <1>2, AddDefForm
  <2>. HIDE DEF d, name
  <2>4. Lawful(t, e, d)
    BY <1>2, <2>1, <2>2 DEF Lawful, GivenTo
  <2>. QED
    BY <1>0, <2>1, <2>2, <2>3, <2>4, RegisterKeeps
<1>. QED
  BY <1>1, <1>2

(* A definition under a name the method chose.                               *)
LEMMA AddNamedDefForm ==
  ASSUME TypeOK, NEW e \in Enum, NEW t \in 1 .. Top, NEW v \in SourceVar,
         AddNamedDef(e, t, v)
  PROVE  /\ used' = used \cup {v}
         /\ Find(e, t) = 0 =>
              Registers(t, e, [name |-> v, text |-> v, exists |-> None])
         /\ Find(e, t) # 0 =>
              LET old == stack[Find(e, t)].defs[e]
              IN \E x \in {v, old.text} :
                   Registers(Find(e, t), e,
                             [old EXCEPT !.name = v, !.text = x])
<1>0. v \in Name /\ used' = used \cup {v}
  BY NamesAssumption DEF AddNamedDef
<1>1. CASE Find(e, t) # 0
  <2> DEFINE k == Find(e, t)
             old == stack[k].defs[e]
             x == IF old.text \in {None, old.name} THEN v ELSE old.text
             d == [old EXCEPT !.name = v, !.text = x]
  <2>1. k \in 1 .. Top /\ e \in stack[k].keys /\ old \in Def
    BY <1>1, FoundDef
  <2>2. d \in Def
    BY <1>0, <2>1 DEF Def
  <2>3. stack' = [stack EXCEPT ![k].defs[e] = d]
    BY <1>1 DEF AddNamedDef
  <2>. HIDE DEF d, k
  <2>4. Registers(k, e, d)
    BY <2>1, <2>2, <2>3, SetRegisters
  <2>5. x \in {v, old.text}
    OBVIOUS
  <2>. HIDE DEF x
  <2>. QED
    BY <1>0, <1>1, <2>4, <2>5 DEF d, k
<1>2. CASE Find(e, t) = 0
  <2> DEFINE d == [name |-> v, text |-> v, exists |-> None]
  <2>1. d \in Def
    BY <1>0 DEF Def
  <2>2. stack' = With(t, e, d)
    BY <1>2 DEF AddNamedDef
  <2>. HIDE DEF d
  <2>3. Registers(t, e, d)
    BY <2>1, <2>2, WithRegisters
  <2>. QED
    BY <1>0, <1>2, <2>3 DEF d
<1>. QED
  BY <1>1, <1>2

(* It keeps the invariant.                                                   *)
LEMMA AddNamedDefKeeps ==
  ASSUME IInv, NEW e \in Enum, NEW t \in 1 .. Top, NEW v \in SourceVar,
         AddNamedDef(e, t, v), visited' \in Nat
  PROVE  IInv' /\ StepOK
<1>0. TypeOK /\ used \in SUBSET Name /\ v \in Name /\ v \in Given(e)
      /\ used' = used \cup {v}
  BY NamesAssumption, AddNamedDefForm DEF IInv, TypeOK, Given
<1>1. CASE Find(e, t) # 0
  <2> DEFINE k == Find(e, t)
             old == stack[k].defs[e]
  <2>1. k \in 1 .. Top /\ e \in stack[k].keys /\ old \in Def /\ GivenTo(e, old)
    BY <1>0, <1>1, FoundDef DEF IInv, NamesGiven
  <2>2. PICK x \in {v, old.text} :
          Registers(k, e, [old EXCEPT !.name = v, !.text = x])
    BY <1>0, <1>1, AddNamedDefForm
  <2> DEFINE d == [old EXCEPT !.name = v, !.text = x]
  <2>3. d \in Def /\ d.name = v /\ d.text = x /\ d.exists = old.exists
    BY <1>0, <2>1 DEF Def
  <2>4. Registers(k, e, d)
    BY <2>2
  <2>5. Lawful(k, e, d)
    <3>. HIDE DEF d, old
    <3>1. GivenTo(e, d) /\ Completes(d, old)
      BY <1>0, <2>1, <2>3 DEF GivenTo, Completes
    <3>. QED
      BY <2>1, <3>1 DEF Lawful, old
  <2>. HIDE DEF d, k
  <2>. QED
    BY <1>0, <2>1, <2>3, <2>4, <2>5, RegisterKeeps
<1>2. CASE Find(e, t) = 0
  <2> DEFINE d == [name |-> v, text |-> v, exists |-> None]
  <2>1. d \in Def /\ d.name = v /\ d.text = v /\ d.exists = None
    BY <1>0 DEF Def
  <2>2. Registers(t, e, d)
    BY <1>0, <1>2, AddNamedDefForm
  <2>. HIDE DEF d
  <2>3. Lawful(t, e, d)
    BY <1>0, <1>2, <2>1 DEF Lawful, GivenTo
  <2>. QED
    BY <1>0, <2>1, <2>2, <2>3, RegisterKeeps
<1>. QED
  BY <1>1, <1>2

(* add_new_exists_def_helper, with the mark the test gets.                   *)
LEMMA AddExistsForm ==
  ASSUME TypeOK, NEW e \in Enum, NEW t \in 1 .. Top, Top > 0,
         Here.marks \subseteq {"action"},
         AddExists([stack EXCEPT ![Top].marks = {"action"}], e, t)
  PROVE  /\ Find(e, t) = 0 =>
              /\ used' = used \cup {FreshName(e, used)}
              /\ Registers(t, e, [name |-> FreshName(e, used), text |-> None,
                                  exists |-> FreshName(e, used)])
         /\ Find(e, t) # 0 =>
              LET old == stack[Find(e, t)].defs[e]
              IN /\ used' = used
                 /\ Registers(Find(e, t), e, [old EXCEPT !.exists = old.name])
<1> DEFINE s == [stack EXCEPT ![Top].marks = {"action"}]
<1>0. Top \in 1 .. Top
  BY DEF TypeOK, Top
<1>1. s \in Seq(Frame) /\ Len(s) = Top
      /\ \A i \in 1 .. Top :
           s[i] = IF i = Top THEN [stack[i] EXCEPT !.marks = {"action"}]
                  ELSE stack[i]
  <2> DEFINE g == [stack[Top] EXCEPT !.marks = {"action"}]
  <2>1. g \in Frame
    <3>1. stack[Top] \in Frame /\ {"action"} \in SUBSET (LoopMarks \cup IfMarks)
      BY <1>0, FrameOf DEF LoopMarks, IfMarks
    <3>. QED
      BY <3>1 DEF Frame
  <2>2. s = [stack EXCEPT ![Top] = g]
    OBVIOUS
  <2>3. stack \in Seq(Frame) /\ Len(stack) = Top /\ Top \in 1 .. Len(stack)
    BY <1>0 DEF TypeOK, Top
  <2>. HIDE DEF s
  <2>4. [stack EXCEPT ![Top] = g] \in Seq(Frame)
        /\ Len([stack EXCEPT ![Top] = g]) = Len(stack)
        /\ \A i \in 1 .. Len(stack) :
             [stack EXCEPT ![Top] = g][i] = IF i = Top THEN g ELSE stack[i]
    <3>. HIDE DEF g
    <3>. QED
      BY <2>1, <2>3, ExceptSeq
  <2>. QED
    BY <2>2, <2>3, <2>4
<1>2. \A i \in 1 .. Top : \E m \in {stack[i].marks, {"action"}} :
         /\ s[i] = [stack[i] EXCEPT !.marks = m]
         /\ m = stack[i].marks \/ stack[i].marks \subseteq {"action"}
  <2>1. \A i \in 1 .. Top : stack[i] = [stack[i] EXCEPT !.marks = stack[i].marks]
    BY <1>0, FrameOf DEF Frame
  <2>. HIDE DEF s
  <2>. QED
    BY <1>1, <2>1 DEF Here
<1>3. \A i \in 1 .. Top :
        /\ s[i] \in Frame /\ s[i].keys = stack[i].keys /\ s[i].defs = stack[i].defs
        /\ s[i].keys \in SUBSET Enum /\ s[i].defs \in [Enum -> Def]
  <2>1. \A i \in 1 .. Top : s[i] \in Frame
    <3>. HIDE DEF s
    <3>. QED
      BY <1>1, ElementOfSeq
  <2>2. \A i \in 1 .. Top : s[i].keys = stack[i].keys /\ s[i].defs = stack[i].defs
    <3>1. \A i \in 1 .. Top : stack[i] \in Frame
      BY FrameOf
    <3>. HIDE DEF s
    <3>2. SUFFICES ASSUME NEW i \in 1 .. Top
                   PROVE  s[i].keys = stack[i].keys /\ s[i].defs = stack[i].defs
      OBVIOUS
    <3>3. PICK m : s[i] = [stack[i] EXCEPT !.marks = m]
      BY <1>2
    <3>. QED
      BY <3>1, <3>3 DEF Frame
  <2>. HIDE DEF s
  <2>. QED
    BY <2>1, <2>2 DEF Frame
<1>4. CASE Find(e, t) # 0
  <2> DEFINE k == Find(e, t)
             old == stack[k].defs[e]
             d == [old EXCEPT !.exists = old.name]
             D == [s[k].defs EXCEPT ![e] = d]
             f == [s[k] EXCEPT !.defs = D]
  <2>1. k \in 1 .. Top /\ e \in stack[k].keys /\ old \in Def
    BY <1>0, <1>4, FoundDef
  <2>2. d \in Def /\ used' = used
    BY <1>4, <2>1 DEF Def, AddExists
  <2>3. stack' = [s EXCEPT ![k] = f]
    <3>1. s[k].defs[e] = old
      BY <1>3, <2>1
    <3>2. stack' = [s EXCEPT ![k].defs[e].exists = old.name]
      BY <1>4 DEF AddExists
    <3>. HIDE DEF s, k
    <3>. QED
      BY <3>1, <3>2
  <2>. HIDE DEF s, d, k
  <2>4. D \in [Enum -> Def]
    BY <1>3, <2>1, <2>2
  <2>5. f \in Frame /\ f.kind = s[k].kind /\ f.stage = s[k].stage
        /\ f.marks = s[k].marks /\ f.keys = s[k].keys \cup {e} /\ f.defs = D
    <3>1. s[k] \in Frame /\ s[k].keys = s[k].keys \cup {e}
      BY <1>3, <2>1
    <3>. HIDE DEF D
    <3>. QED
      BY <2>4, <3>1, FrameUpdate DEF Frame
  <2>. HIDE DEF f
  <2>6. Registers(k, e, d)
    BY <1>0, <1>1, <1>2, <2>1, <2>2, <2>3, <2>5, ReplaceRegisters
  <2>. QED
    BY <1>4, <2>2, <2>6 DEF d, k
<1>5. CASE Find(e, t) = 0
  <2> DEFINE name == FreshName(e, used)
             d == [name |-> name, text |-> None, exists |-> name]
             D == [s[t].defs EXCEPT ![e] = d]
             K == s[t].keys \cup {e}
             f == [s[t] EXCEPT !.keys = K, !.defs = D]
  <2>1. name \in Name
    BY FreshNameIsFresh
  <2>2. d \in Def
    BY <2>1 DEF Def
  <2>3. stack' = [s EXCEPT ![t] = f] /\ used' = used \cup {name}
    <3>1. AddExists(s, e, t)
      OBVIOUS
    <3>. HIDE DEF s
    <3>2. /\ stack' = [s EXCEPT ![t].keys = @ \cup {e}, ![t].defs[e] = d]
          /\ used' = used \cup {name}
      BY <1>5, <3>1 DEF AddExists
    <3>. HIDE DEF d, name
    <3>. QED
      BY <3>2
  <2>. HIDE DEF s, d, name
  <2>4. D \in [Enum -> Def] /\ K \in SUBSET Enum /\ s[t] \in Frame
    BY <1>3, <2>2
  <2>5. f \in Frame /\ f.kind = s[t].kind /\ f.stage = s[t].stage
        /\ f.marks = s[t].marks /\ f.keys = K /\ f.defs = D
    <3>. HIDE DEF D, K
    <3>. QED
      BY <2>4, FrameUpdate DEF Frame
  <2>. HIDE DEF f
  <2>6. Registers(t, e, d)
    BY <1>0, <1>1, <1>2, <2>2, <2>3, <2>5, ReplaceRegisters
  <2>. QED
    BY <1>5, <2>3, <2>6 DEF d, name
<1>. QED
  BY <1>4, <1>5

(* It keeps the invariant.                                                   *)
LEMMA AddExistsKeeps ==
  ASSUME IInv, NEW e \in Enum, NEW t \in 1 .. Top, Top > 0,
         Here.marks \subseteq {"action"},
         AddExists([stack EXCEPT ![Top].marks = {"action"}], e, t),
         visited' \in Nat
  PROVE  IInv' /\ StepOK
<1>0. TypeOK /\ used \in SUBSET Name
  BY DEF IInv, TypeOK
<1>4. CASE Find(e, t) # 0
  <2> DEFINE k == Find(e, t)
             old == stack[k].defs[e]
             d == [old EXCEPT !.exists = old.name]
  <2>1. k \in 1 .. Top /\ e \in stack[k].keys /\ old \in Def /\ GivenTo(e, old)
        /\ old.name \in used
    BY <1>0, <1>4, FoundDef DEF IInv, NamesGiven, NamesReserved
  <2>2. d \in Def /\ d.name = old.name /\ d.text = old.text
        /\ d.exists = old.name
    BY <2>1 DEF Def
  <2>3. Registers(k, e, d) /\ used' = used
    BY <1>0, <1>4, AddExistsForm
  <2>4. Lawful(k, e, d)
    <3>. HIDE DEF d, old
    <3>1. GivenTo(e, d) /\ Completes(d, old)
      BY <2>1, <2>2 DEF GivenTo, Completes
    <3>. QED
      BY <2>1, <3>1 DEF Lawful, old
  <2>. HIDE DEF d, k
  <2>. QED
    BY <1>0, <2>1, <2>2, <2>3, <2>4, RegisterKeeps
<1>5. CASE Find(e, t) = 0
  <2> DEFINE name == FreshName(e, used)
             d == [name |-> name, text |-> None, exists |-> name]
  <2>1. name \in Name /\ name \in Given(e)
        /\ (name # NoName => name \notin used)
    BY FreshNameIsFresh
  <2>2. d \in Def /\ d.name = name /\ d.text = None /\ d.exists = name
    BY <2>1 DEF Def
  <2>3. Registers(t, e, d) /\ used' = used \cup {name}
    BY <1>0, <1>5, AddExistsForm
  <2>. HIDE DEF d, name
  <2>4. Lawful(t, e, d)
    BY <1>5, <2>1, <2>2 DEF Lawful, GivenTo
  <2>. QED
    BY <1>0, <2>1, <2>2, <2>3, <2>4, RegisterKeeps
<1>. QED
  BY <1>4, <1>5
-----------------------------------------------------------------------------
(* The method body is the one live scope at the start.                       *)
LEMMA InitOK ==
  ASSUME Init
  PROVE  IInv
<1> DEFINE r == NewFrame("root", "ROOT")
<1>1. NoDef \in Def
  BY DEF NoDef, Def, Name, NoName
<1>2. r \in Frame
  BY <1>1 DEF NewFrame, Frame
<1>3. r.keys = {} /\ r.kind = "root" /\ r.stage = "ROOT" /\ r.marks = {}
  BY DEF NewFrame
<1>. HIDE DEF r
<1>4. stack = <<r>> /\ used = {} /\ visited = 0
  BY DEF Init, r
<1>5. stack \in Seq(Frame) /\ Top = 1 /\ stack[1] = r
  BY <1>2, <1>4 DEF Top
<1>6. TypeOK
  BY <1>4, <1>5 DEF TypeOK
<1>7. \A k \in 1 .. Top : k = 1 /\ stack[k] = r
  BY <1>5
<1>8. Shape /\ NamesReserved /\ UniqueNames /\ NamesGiven
  BY <1>3, <1>7 DEF Shape, NamesReserved, UniqueNames, NamesGiven
<1>. QED
  BY <1>6, <1>8 DEF IInv

(* How a step changes the scopes when it registers nothing.                  *)
Same(i) ==
  /\ stack'[i].kind = stack[i].kind
  /\ stack'[i].keys = stack[i].keys
  /\ stack'[i].defs = stack[i].defs

Opens(f) ==
  /\ stack' \in Seq(Frame) /\ Len(stack') = Top + 1
  /\ stack'[Top + 1] = f
  /\ \A i \in 1 .. Top : stack'[i] = stack[i]

Closes ==
  /\ stack' \in Seq(Frame) /\ Len(stack') = Top - 1
  /\ \A i \in 1 .. Top - 1 :
       /\ Same(i)
       /\ stack'[i].marks = stack[i].marks
       /\ \/ stack'[i].stage = stack[i].stage
          \/ stack[i].stage = "ELSEIF" /\ stack'[i].stage = "END"

Enters(g) ==
  /\ stack' \in Seq(Frame) /\ Len(stack') = Top
  /\ \A i \in 1 .. Top :
       /\ Same(i)
       /\ stack'[i].marks = stack[i].marks
       /\ stack'[i].stage = IF i = Top THEN g ELSE stack[i].stage

Marks(m) ==
  /\ stack' \in Seq(Frame) /\ Len(stack') = Top
  /\ \A i \in 1 .. Top :
       /\ Same(i)
       /\ stack'[i].marks = IF i = Top THEN {m} ELSE stack[i].marks
       /\ stack'[i].stage = stack[i].stage

(* A statement opens a scope.                                                *)
LEMMA PushForm ==
  ASSUME TypeOK, NEW f \in Frame, Push(f)
  PROVE  Opens(f)
<1>1. stack \in Seq(Frame) /\ Top = Len(stack) /\ stack' = Append(stack, f)
  BY DEF TypeOK, Top, Push
<1>. QED
  BY <1>1 DEF Opens

(* A statement opens a scope without definitions.                            *)
LEMMA PushKeeps ==
  ASSUME IInv, Top > 0, NEW f \in Frame, f.kind # "root", f.keys = {},
         f.stage = "INIT" => f.kind = "loop", "prepare" \notin f.marks,
         Push(f), visited' \in Nat
  PROVE  IInv' /\ StepOK
<1>1. stack \in Seq(Frame) /\ Top = Len(stack) /\ Top \in Nat
      /\ stack' = Append(stack, f) /\ used' = used
  BY DEF IInv, TypeOK, Top, Push
<1>2. stack' \in Seq(Frame) /\ Top' = Top + 1 /\ stack'[Top + 1] = f
      /\ \A i \in 1 .. Top : stack'[i] = stack[i]
  <2>1. Opens(f)
    BY PushForm DEF IInv
  <2>. QED
    BY <2>1 DEF Opens, Top
<1>3. TypeOK'
  BY <1>1, <1>2 DEF IInv, TypeOK
<1>4. Shape'
  <2>1. SUFFICES ASSUME NEW i \in 1 .. Top + 1
                 PROVE  /\ stack'[i].kind = "root" <=> i = 1
                        /\ stack'[i].stage = "INIT" => stack'[i].kind = "loop"
                        /\ "prepare" \in stack'[i].marks => stack'[i].kind = "loop"
    BY <1>2 DEF Shape
  <2>2. CASE i = Top + 1
    BY <1>1, <1>2, <2>2
  <2>3. CASE i \in 1 .. Top
    BY <1>2, <2>3 DEF IInv, Shape
  <2>. QED
    BY <1>1, <2>2, <2>3
<1>5. KeepsDefs
  BY <1>1, <1>2 DEF KeepsDefs, Top
<1>6. TableStep
  <2>1. /\ Len(Scopes) = Top /\ DOMAIN Scopes = 1 .. Top
        /\ Scopes = [k \in 1 .. Top |-> Scopes[k]]
        /\ \A k \in 1 .. Top :
             Scopes[k] = [e \in stack[k].keys |-> stack[k].defs[e].name]
    BY <1>1, ScopesAre
  <2> DEFINE none == [c \in {} |-> NoName]
  <2>2. Scopes' = [k \in 1 .. Top + 1 |->
                     IF k = Top + 1 THEN none ELSE Scopes[k]]
    <3>1. Scopes' = [k \in 1 .. Top + 1 |->
                       [e \in stack'[k].keys |-> stack'[k].defs[e].name]]
      BY <1>2 DEF Scopes
    <3>2. [e \in stack'[Top + 1].keys |-> stack'[Top + 1].defs[e].name] = none
      BY <1>2
    <3>3. \A k \in 1 .. Top : k # Top + 1 /\
            [e \in stack'[k].keys |-> stack'[k].defs[e].name] = Scopes[k]
      BY <1>1, <1>2, <2>1
    <3>4. \A k \in 1 .. Top + 1 :
            [e \in stack'[k].keys |-> stack'[k].defs[e].name]
              = IF k = Top + 1 THEN none ELSE Scopes[k]
      <4>1. \A k \in 1 .. Top + 1 : k = Top + 1 \/ k \in 1 .. Top
        BY <1>1
      <4>. HIDE DEF none
      <4>. QED
        BY <3>2, <3>3, <4>1
    <3>. HIDE DEF none
    <3>. QED
      BY <3>1, <3>4
  <2>. HIDE DEF none
  <2>3. Append(Scopes, none)
          = [k \in 1 .. Top + 1 |-> IF k = Top + 1 THEN none ELSE Scopes[k]]
    <3> DEFINE S == {Scopes[k] : k \in 1 .. Top} \cup {none}
               longer(k) == IF k = Top + 1 THEN none ELSE Scopes[k]
    <3>1. none \in S /\ (\A k \in 1 .. Top : Scopes[k] \in S)
          /\ \A k \in 1 .. Top + 1 : longer(k) \in S
      BY <1>1
    <3>2. \A k \in 1 .. Top : longer(k) = Scopes[k]
      BY <1>1
    <3>3. longer(Top + 1) = none
      OBVIOUS
    <3>. HIDE DEF S, longer
    <3>4. [k \in 1 .. Top |-> Scopes[k]] \in Seq(S)
      BY <1>1, <3>1, IsASeq
    <3>5. Scopes \in Seq(S)
      BY <2>1, <3>4
    <3>6. Top + 1 \in Nat
      BY <1>1
    <3>7. [k \in 1 .. Top + 1 |-> longer(k)] \in Seq(S)
      BY <3>1, <3>6, IsASeq
    <3>8. /\ Append(Scopes, none) \in Seq(S)
          /\ Len(Append(Scopes, none)) = Top + 1
          /\ \A i \in 1 .. Top : Append(Scopes, none)[i] = Scopes[i]
          /\ Append(Scopes, none)[Top + 1] = none
      <4>1. /\ Append(Scopes, none) \in Seq(S)
            /\ Len(Append(Scopes, none)) = Len(Scopes) + 1
            /\ \A i \in 1 .. Len(Scopes) : Append(Scopes, none)[i] = Scopes[i]
            /\ Append(Scopes, none)[Len(Scopes) + 1] = none
        BY <3>1, <3>5, AppendProperties
      <4>. QED
        BY <2>1, <4>1
    <3>9. \A i \in 1 .. Top + 1 :
            Append(Scopes, none)[i] = [k \in 1 .. Top + 1 |-> longer(k)][i]
      <4>1. \A k \in 1 .. Top + 1 : k = Top + 1 \/ k \in 1 .. Top
        BY <1>1
      <4>. QED
        BY <3>2, <3>3, <3>8, <4>1
    <3>10. Len([k \in 1 .. Top + 1 |-> longer(k)]) = Top + 1
      BY <3>6
    <3>11. Append(Scopes, none) = [k \in 1 .. Top + 1 |-> longer(k)]
      BY <3>7, <3>8, <3>9, <3>10, SeqEqual
    <3>. QED
      BY <3>11 DEF longer
  <2>4. Table!Open
    BY <2>2, <2>3 DEF Table!Open, none
  <2>. QED
    BY <2>4 DEF TableStep, Table!TableNext
<1>7. DefsStep
  BY <1>1, <1>2 DEF DefsStep, Completes, Top
<1>. QED
  BY <1>1, <1>2, <1>3, <1>4, <1>5, <1>6, <1>7, KeepsDefsKeeps DEF IInv, StepOK

(* Scopes keep their definitions, from the bottom of the stack up.           *)
LEMMA KeptKeeps ==
  ASSUME IInv, stack' \in Seq(Frame), Len(stack') \in {Top, Top - 1},
         \A i \in 1 .. Len(stack') :
           /\ stack'[i].kind = stack[i].kind
           /\ stack'[i].stage # "INIT" \/ stack'[i].stage = stack[i].stage
           /\ "prepare" \in stack'[i].marks =>
                "prepare" \in stack[i].marks \/ stack[i].kind = "loop"
           /\ stack'[i].keys = stack[i].keys
           /\ stack'[i].defs = stack[i].defs,
         used \subseteq used', used' \in SUBSET Name, visited' \in Nat
  PROVE  IInv' /\ StepOK
<1>1. Top = Len(stack) /\ Top \in Nat /\ Top' = Len(stack') /\ Top' \in Nat
  BY DEF IInv, TypeOK, Top
<1>2. TypeOK'
  BY DEF TypeOK
<1>3. Shape'
  BY <1>1 DEF IInv, Shape
<1>4. KeepsDefs
  <2>1. Len(stack') <= Len(stack) /\ \A i \in 1 .. Len(stack') : i <= Len(stack)
    BY <1>1
  <2>. QED
    BY <2>1 DEF KeepsDefs
<1>5. ASSUME Len(stack') = Top PROVE TableStep
  BY <1>1, <1>5, KeptMaps
<1>6. ASSUME Len(stack') = Top - 1 PROVE TableStep
  <2>1. /\ Len(Scopes) = Top /\ DOMAIN Scopes = 1 .. Top
        /\ \A k \in 1 .. Top :
             Scopes[k] = [e \in stack[k].keys |-> stack[k].defs[e].name]
    BY <1>1, ScopesAre
  <2>0. Top - 1 \in Nat
    BY <1>1, <1>6, LenProperties
  <2>2. Scopes' = [k \in 1 .. Top - 1 |-> Scopes[k]]
    <3>1. Scopes' = [k \in 1 .. Top - 1 |->
                       [e \in stack'[k].keys |-> stack'[k].defs[e].name]]
      BY <1>1, <1>6 DEF Scopes
    <3>2. \A k \in 1 .. Top - 1 :
            [e \in stack'[k].keys |-> stack'[k].defs[e].name] = Scopes[k]
      BY <1>1, <1>6, <2>1
    <3>. QED
      BY <3>1, <3>2
  <2>3. SubSeq(Scopes, 1, Len(Scopes) - 1) = [k \in 1 .. Top - 1 |-> Scopes[k]]
    <3> DEFINE S == {Scopes[k] : k \in 1 .. Top}
               T == SubSeq(Scopes, 1, Top - 1)
    <3>1. \A k \in 1 .. Top - 1 : Scopes[k] \in S
      BY <1>1
    <3>. HIDE DEF S
    <3>2. [k \in 1 .. Top - 1 |-> Scopes[k]] \in Seq(S)
      BY <2>0, <3>1, IsASeq
    <3>3. 1 \in Int /\ Top - 1 \in Int
      BY <1>1
    <3>4. /\ T \in Seq(S)
          /\ Len(T) = IF 1 <= Top - 1 THEN Top - 1 - 1 + 1 ELSE 0
          /\ \A i \in 1 .. Top - 1 - 1 + 1 : T[i] = Scopes[1 + i - 1]
      BY <3>1, <3>3, SubSeqProperties
    <3>5. Len(T) = Top - 1 /\ \A i \in 1 .. Top - 1 : T[i] = Scopes[i]
      BY <1>1, <2>0, <3>4
    <3>6. Len([k \in 1 .. Top - 1 |-> Scopes[k]]) = Top - 1
      BY <2>0
    <3>. HIDE DEF T
    <3>7. T = [k \in 1 .. Top - 1 |-> Scopes[k]]
      BY <3>2, <3>4, <3>5, <3>6, SeqEqual
    <3>. QED
      BY <2>1, <3>7 DEF T
  <2>4. Scopes # << >>
    BY <1>1, <2>0, <2>1
  <2>5. Table!Close
    BY <2>2, <2>3, <2>4 DEF Table!Close
  <2>. QED
    BY <2>5 DEF TableStep, Table!TableNext
<1>7. DefsStep
  BY <1>1 DEF DefsStep, Completes
<1>. QED
  BY <1>2, <1>3, <1>4, <1>5, <1>6, <1>7, KeepsDefsKeeps DEF IInv, StepOK

(* The innermost statement enters its next part.                             *)
LEMMA StageForm ==
  ASSUME TypeOK, Top > 0, NEW g \in {"THEN", "ELSE", "ELSEIF", "BODY"},
         stack' = Stage(g)
  PROVE  Enters(g)
<1> DEFINE f == [stack[Top] EXCEPT !.stage = g]
<1>1. Top \in 1 .. Top /\ Top = Len(stack) /\ stack \in Seq(Frame)
  BY DEF TypeOK, Top
<1>2. stack[Top] \in Frame
  BY <1>1, FrameOf
<1>3. f \in Frame /\ f.kind = stack[Top].kind /\ f.stage = g
      /\ f.marks = stack[Top].marks
      /\ f.keys = stack[Top].keys /\ f.defs = stack[Top].defs
  BY <1>2 DEF Frame
<1>4. stack' = [stack EXCEPT ![Top] = f]
  BY DEF Stage
<1>. HIDE DEF f
<1>5. stack' \in Seq(Frame) /\ Len(stack') = Top
      /\ \A i \in 1 .. Top : stack'[i] = IF i = Top THEN f ELSE stack[i]
  BY <1>1, <1>3, <1>4, ExceptSeq
<1>. QED
  BY <1>3, <1>5 DEF Enters, Same

(* The innermost scope closes.                                               *)
LEMMA PopForm ==
  ASSUME TypeOK, Top > 1, stack' = Popped
  PROVE  Closes
<1>1. Top \in Nat /\ Top = Len(stack) /\ Top - 1 \in Nat
  BY DEF TypeOK, Top
<1> DEFINE p(k) == IF k = Top - 1 /\ stack[k].stage = "ELSEIF"
                  THEN [stack[k] EXCEPT !.stage = "END"] ELSE stack[k]
<1>2. ASSUME NEW k \in 1 .. Top - 1
      PROVE  /\ p(k) \in Frame /\ p(k).kind = stack[k].kind
             /\ \/ p(k).stage = stack[k].stage
                \/ stack[k].stage = "ELSEIF" /\ p(k).stage = "END"
             /\ p(k).marks = stack[k].marks
             /\ p(k).keys = stack[k].keys /\ p(k).defs = stack[k].defs
  <2>1. stack[k] \in Frame
    BY <1>1, FrameOf
  <2>. QED
    BY <2>1 DEF Frame
<1>3. stack' = [k \in 1 .. Top - 1 |-> p(k)]
  BY DEF Popped
<1>. HIDE DEF p
<1>4. stack' \in Seq(Frame)
  BY <1>1, <1>2, <1>3, IsASeq
<1>5. Len(stack') = Top - 1 /\ \A k \in 1 .. Top - 1 : stack'[k] = p(k)
  BY <1>1, <1>3, <1>4
<1>. QED
  BY <1>2, <1>4, <1>5 DEF Closes, Same

(* A loop whose range has been recognised.                                   *)
LEMMA MarkForm ==
  ASSUME TypeOK, NEW m \in LoopMarks, MarkLoop(m)
  PROVE  Marks(m)
<1> DEFINE f == [stack[Top] EXCEPT !.marks = {m}]
<1>1. Top \in 1 .. Top /\ Top = Len(stack) /\ stack \in Seq(Frame)
  BY DEF TypeOK, Top, MarkLoop
<1>2. stack[Top] \in Frame
  BY <1>1, FrameOf
<1>3. f \in Frame /\ f.kind = stack[Top].kind /\ f.stage = stack[Top].stage
      /\ f.marks = {m} /\ f.keys = stack[Top].keys /\ f.defs = stack[Top].defs
  BY <1>2 DEF Frame
<1>4. stack' = [stack EXCEPT ![Top] = f]
  BY DEF MarkLoop
<1>. HIDE DEF f
<1>5. stack' \in Seq(Frame) /\ Len(stack') = Top
      /\ \A i \in 1 .. Top : stack'[i] = IF i = Top THEN f ELSE stack[i]
  BY <1>1, <1>3, <1>4, ExceptSeq
<1>. QED
  BY <1>3, <1>5 DEF Marks, Same

(* A step of one of these forms keeps the invariant.                         *)
LEMMA FormKeeps ==
  ASSUME IInv, used' = used, visited' \in Nat, Top > 0,
         \/ \E g \in {"THEN", "ELSE", "ELSEIF", "BODY"} : Enters(g)
         \/ \E m \in LoopMarks : Here.kind = "loop" /\ Marks(m)
         \/ Closes
  PROVE  IInv' /\ StepOK
<1>0. Top = Len(stack) /\ Top \in Nat /\ used \in SUBSET Name
  BY DEF IInv, TypeOK, Top
<1>1. ASSUME NEW g \in {"THEN", "ELSE", "ELSEIF", "BODY"}, Enters(g)
      PROVE  IInv' /\ StepOK
  BY <1>0, <1>1, KeptKeeps DEF Enters, Same
<1>2. ASSUME NEW m \in LoopMarks, Here.kind = "loop", Marks(m)
      PROVE  IInv' /\ StepOK
  BY <1>0, <1>2, KeptKeeps DEF Marks, Same, Here
<1>3. ASSUME Closes
      PROVE  IInv' /\ StepOK
  BY <1>0, <1>3, KeptKeeps DEF Closes, Same
<1>. QED
  BY <1>1, <1>2, <1>3

(* The statements that open a scope, and where.                              *)
LEMMA EnterForm ==
  ASSUME TypeOK,
         (\E test \in ItemPosTests : EnterIf(test)) \/ EnterElseIf \/ EnterLoop
  PROVE  \E f \in Frame :
           /\ Push(f) /\ Opens(f)
           /\ f.keys = {} /\ f.marks \in SUBSET IfMarks
           /\ \/ f.kind = "if" /\ f.stage = "COND"
              \/ f.kind = "loop" /\ f.stage = "INIT"
           /\ Top > 0 /\ Here.stage \notin {"INIT", "COND"}
<1> DEFINE E(kind, stage, marks) ==
             /\ Push([NewFrame(kind, stage) EXCEPT !.marks = marks])
             /\ Top > 0 /\ Here.stage \notin {"INIT", "COND"}
<1>1. PICK kind \in {"if", "loop"}, stage \in {"COND", "INIT"},
           marks \in SUBSET IfMarks :
        /\ \/ kind = "if" /\ stage = "COND"
           \/ kind = "loop" /\ stage = "INIT"
        /\ E(kind, stage, marks)
  <2>1. ASSUME NEW test \in ItemPosTests, EnterIf(test)
        PROVE  test \in SUBSET IfMarks /\ E("if", "COND", test)
    BY <2>1 DEF EnterIf, InStatements, ItemPosTests, IfMarks
  <2>2. ASSUME NEW kind, NEW stage
        PROVE  NewFrame(kind, stage)
                 = [NewFrame(kind, stage) EXCEPT !.marks = {}]
    BY DEF NewFrame
  <2>3. ASSUME EnterElseIf
        PROVE  E("if", "COND", {})
    BY <2>2, <2>3 DEF EnterElseIf
  <2>4. ASSUME EnterLoop
        PROVE  E("loop", "INIT", {})
    BY <2>2, <2>4 DEF EnterLoop, InStatements
  <2>5. {} \in SUBSET IfMarks
    OBVIOUS
  <2>. HIDE DEF E
  <2>. QED
    BY <2>1, <2>3, <2>4, <2>5
<1> DEFINE D == [e \in Enum |-> NoDef]
           f == [NewFrame(kind, stage) EXCEPT !.marks = marks]
<1>2. NoDef \in Def
  BY DEF NoDef, Def, Name, NoName
<1>3. D \in [Enum -> Def]
  BY <1>2
<1>4. f = [kind |-> kind, stage |-> stage, marks |-> marks, keys |-> {}, defs |-> D]
  BY DEF NewFrame
<1>. HIDE DEF D, f
<1>5. f \in Frame
  <2>1. marks \in SUBSET (LoopMarks \cup IfMarks)
    OBVIOUS
  <2>. QED
    BY <1>3, <1>4, <2>1 DEF Frame
<1>6. /\ f.keys = {} /\ f.marks = marks /\ f.kind = kind /\ f.stage = stage
  BY <1>4
<1>7. Push(f)
  BY <1>1 DEF f
<1>. QED
  BY <1>1, <1>5, <1>6, <1>7, PushForm

(* Every step keeps the invariant.                                           *)
LEMMA NextOK ==
  ASSUME IInv, [Next]_envVars
  PROVE  IInv' /\ StepOK
<1>0. /\ TypeOK /\ Shape /\ used \in SUBSET Name /\ visited \in Nat
      /\ Top \in Nat /\ Top = Len(stack) /\ stack \in Seq(Frame)
  BY DEF IInv, TypeOK, Top
<1>1. Visit => visited' \in Nat
  BY <1>0 DEF Visit
<1>2. InExpression => Top \in 1 .. Top
  BY <1>0 DEF InExpression, InStatements
<1>3. FieldEnum \subseteq Enum /\ SizeEnum \subseteq Enum
      /\ CommonEnum \subseteq Enum /\ ExistsEnum \subseteq Enum
  BY ScopeAssumption
<1>4. ASSUME UNCHANGED stack, used \subseteq used', used' \in SUBSET Name,
             visited' \in Nat
      PROVE  IInv' /\ StepOK
  BY <1>4, SameKeeps
<1>5. ASSUME (\E test \in ItemPosTests : EnterIf(test)) \/ EnterElseIf
             \/ EnterLoop
      PROVE  IInv' /\ StepOK
  <2>1. visited' \in Nat
    BY <1>1, <1>5 DEF EnterIf, EnterElseIf, EnterLoop
  <2>2. PICK f \in Frame :
          /\ Push(f)
          /\ f.keys = {} /\ f.marks \in SUBSET IfMarks
          /\ \/ f.kind = "if" /\ f.stage = "COND"
             \/ f.kind = "loop" /\ f.stage = "INIT"
          /\ Top > 0
    BY <1>0, <1>5, EnterForm
  <2>3. "prepare" \notin f.marks
    BY <2>2 DEF IfMarks
  <2>. QED
    BY <2>1, <2>2, <2>3, PushKeeps
<1>7. ASSUME EnterThen \/ EnterBody
             \/ \E g \in {"ELSE", "ELSEIF"} : EnterElse(g)
      PROVE  IInv' /\ StepOK
  <2>1. PICK g \in {"THEN", "ELSE", "ELSEIF", "BODY"} : stack' = Stage(g)
    BY <1>7 DEF EnterThen, EnterBody, EnterElse
  <2>2. Top > 0 /\ used' = used /\ visited' \in Nat
    BY <1>0, <1>7 DEF EnterThen, EnterBody, EnterElse
  <2>3. Enters(g)
    BY <1>0, <2>1, <2>2, StageForm
  <2>. QED
    BY <2>2, <2>3, FormKeeps
<1>8. ASSUME LeaveIf \/ LeaveLoop
      PROVE  IInv' /\ StepOK
  <2>1. Top > 1 /\ stack' = Popped /\ used' = used /\ visited' \in Nat
    BY <1>0, <1>8 DEF LeaveIf, LeaveLoop
  <2>. QED
    BY <1>0, <2>1, PopForm, FormKeeps
<1>9. ASSUME NEW e \in FieldEnum, RefField(e)
      PROVE  IInv' /\ StepOK
  <2>1. e \in Enum /\ Top \in 1 .. Top /\ visited' \in Nat
    BY <1>1, <1>2, <1>3, <1>9 DEF RefField
  <2>2. Target(e, Top) \in 1 .. Top /\ NameFrom(e, Top) \in Name \cap Given(e)
    BY <1>0, <2>1, TargetType, NameFromType
  <2>3. CASE HasDef(e, Top)
    BY <1>0, <1>4, <1>9, <2>1, <2>3 DEF RefField
  <2>4. CASE ~HasDef(e, Top)
    BY <1>9, <2>1, <2>2, <2>4, AddDefKeeps DEF RefField
  <2>. QED
    BY <2>3, <2>4
<1>10. ASSUME NEW e \in SizeEnum, RefListSize(e)
       PROVE  IInv' /\ StepOK
  <2>1. e \in Enum /\ Top \in 1 .. Top /\ visited' \in Nat
    BY <1>1, <1>2, <1>3, <1>10 DEF RefListSize
  <2>2. Target(e, Top) \in 1 .. Top /\ NameFrom(e, Top) \in Name \cap Given(e)
    BY <1>0, <2>1, TargetType, NameFromType
  <2>. QED
    BY <1>10, <2>1, <2>2, AddDefKeeps DEF RefListSize
<1>11. ASSUME NEW e \in CommonEnum, RefCommon(e)
       PROVE  IInv' /\ StepOK
  <2> DEFINE parent == PrepareOf(Top) - 1
  <2>1. e \in Enum /\ Top \in 1 .. Top /\ visited' \in Nat
    BY <1>1, <1>2, <1>3, <1>11 DEF RefCommon
  <2>2. parent \in 1 .. Top
    <3>1. PrepareOf(Top) \in 1 .. Top /\ stack[PrepareOf(Top)].kind = "loop"
      BY <1>0, <1>11, <2>1, PrepareOfType DEF RefCommon, InCommonInfoBody, Shape
    <3>. QED
      BY <1>0, <3>1 DEF Shape
  <2>3. Target(e, parent) \in 1 .. Top /\ NameFrom(e, Top) \in Name \cap Given(e)
    BY <1>0, <2>1, <2>2, TargetType, NameFromType
  <2>4. CASE HasDef(e, parent)
    BY <1>0, <1>4, <1>11, <2>1, <2>4 DEF RefCommon
  <2>5. CASE ~HasDef(e, parent)
    BY <1>11, <2>1, <2>3, <2>5, AddDefKeeps DEF RefCommon
  <2>. QED
    BY <2>4, <2>5
<1>12. ASSUME NEW e \in FieldEnum, NEW v \in SourceVar, DeclareField(v, e)
       PROVE  IInv' /\ StepOK
  <2>1. e \in Enum /\ Top \in 1 .. Top /\ visited' \in Nat /\ v \in Name
    BY <1>0, <1>1, <1>3, <1>12, NamesAssumption DEF DeclareField, InStatements
  <2>2. Target(e, Top) \in 1 .. Top
    BY <1>0, <2>1, TargetType
  <2>3. CASE HasDef(e, Top)
    <3>1. UNCHANGED stack /\ used' = used \cup {v}
      BY <1>12, <2>3 DEF DeclareField
    <3>. QED
      BY <1>0, <1>4, <2>1, <3>1
  <2>4. CASE ~HasDef(e, Top)
    BY <1>12, <2>1, <2>2, <2>4, AddNamedDefKeeps DEF DeclareField
  <2>. QED
    BY <2>3, <2>4
<1>13. ASSUME NEW v \in SourceVar, DeclareVar(v)
       PROVE  IInv' /\ StepOK
  <2>1. UNCHANGED stack /\ used' = used \cup {v} /\ visited' \in Nat /\ v \in Name
    BY <1>1, <1>13, NamesAssumption DEF DeclareVar
  <2>. QED
    BY <1>0, <1>4, <2>1
<1>14. ASSUME NEW e \in ExistsEnum, CheckAction(e)
       PROVE  IInv' /\ StepOK
  <2>1. e \in Enum /\ Top \in 1 .. Top /\ Top > 0 /\ visited' \in Nat
    BY <1>0, <1>1, <1>3, <1>14 DEF CheckAction
  <2> DEFINE t == IF InIntListLoop(Top) THEN Top ELSE Target(e, Top)
  <2>2. t \in 1 .. Top
    BY <1>0, <2>1, TargetType
  <2>3. AddExists([stack EXCEPT ![Top].marks = {"action"}], e, t)
    BY <1>14 DEF CheckAction
  <2>4. Here.marks \subseteq {"action"}
    BY <1>14 DEF CheckAction
  <2>. HIDE DEF t
  <2>. QED
    BY <2>1, <2>2, <2>3, <2>4, AddExistsKeeps
<1>15. ASSUME NEW m \in LoopMarks, MarkLoop(m)
       PROVE  IInv' /\ StepOK
  <2>1. used' = used /\ visited' \in Nat /\ Top > 0 /\ Here.kind = "loop"
    BY <1>0, <1>15 DEF MarkLoop, Shape, Here
  <2>. QED
    BY <1>0, <1>15, <2>1, MarkForm, FormKeeps
<1>16. CASE Finish
  <2>1. stack' = << >> /\ used' = used /\ visited' = visited
    BY <1>16 DEF Finish
  <2>2. stack' \in Seq(Frame) /\ Len(stack') = 0 /\ Top - 1 = 0
    BY <1>16, <2>1 DEF Finish
  <2>. QED
    BY <1>0, <2>1, <2>2, KeptKeeps
<1>17. CASE UNCHANGED envVars
  BY <1>0, <1>4, <1>17 DEF envVars
<1>. QED
  BY <1>5, <1>7, <1>8, <1>9, <1>10, <1>11, <1>12, <1>13, <1>14, <1>15, <1>16,
     <1>17 DEF Next
-----------------------------------------------------------------------------
(* The inductive invariant holds of every behaviour.                         *)
THEOREM Inductive == Spec => []IInv
<1>1. Init => IInv
  BY InitOK
<1>2. IInv /\ [Next]_envVars => IInv'
  BY NextOK
<1>. QED
  BY <1>1, <1>2, PTL DEF Spec

(* The variables have their types.                                           *)
THEOREM TypeCorrect == Spec => []TypeOK
<1>1. IInv => TypeOK
  BY DEF IInv
<1>. QED
  BY <1>1, Inductive, PTL

(* Whatever enums, names and nesting a method has: two definitions that are   *)
(* live together have different names, unless the method chose the name or   *)
(* no candidate was left (Env::find_valid_new_name, Env::add_new_def_helper).*)
THEOREM NamesUnique == Spec => []UniqueNames
<1>1. IInv => UniqueNames
  BY DEF IInv
<1>. QED
  BY <1>1, Inductive, PTL

(* References already written keep their meaning, whatever is read, tested or *)
(* declared afterwards: while a scope lives, its definitions stay in it, and *)
(* their names and what they declare only ever give way to a variable of the *)
(* method (Env::add_new_def_helper, Env::add_new_exists_def_helper).          *)
THEOREM DefinitionsStable == Spec => DefsStable
<1>1. IInv /\ [Next]_envVars => DefsStep
  BY NextOK DEF StepOK
<1>2. DefsStep =>
        [\A k \in 1 .. Top : \A e \in stack[k].keys :
           k <= Len(stack') =>
             /\ e \in stack'[k].keys
             /\ stack'[k].defs[e].name \in {stack[k].defs[e].name} \cup SourceVar
             /\ \A part \in {"text", "exists"} :
                  stack[k].defs[e][part] # None
                  => stack'[k].defs[e][part]
                       \in {stack[k].defs[e][part]} \cup SourceVar]_envVars
  BY DEF DefsStep, Completes
<1>. QED
  BY <1>1, <1>2, Inductive, PTL DEF Spec, DefsStable

(* Whatever the method: its Envs are a table of nested scopes, in which a     *)
(* field is only defined where it is not visible, under a name that no live   *)
(* definition has (unless the method chose it or none was left), and keeps    *)
(* that name until its scope closes or the method declares it.               *)
THEOREM Implements == Spec => ImplementsTable
<1>1. Init => Table!TableInit
  <2>1. SUFFICES ASSUME Init PROVE Scopes = <<[f \in {} |-> NoName]>>
    BY DEF Table!TableInit
  <2>2. Top = 1 /\ stack[1].keys = {}
    BY <2>1 DEF Init, NewFrame, Top
  <2>3. Scopes = [k \in 1 .. 1 |-> [e \in {} |-> NoName]]
    <3>1. Scopes = [k \in 1 .. 1 |->
                      [e \in stack[k].keys |-> stack[k].defs[e].name]]
      BY <2>2 DEF Scopes
    <3>2. \A k \in 1 .. 1 : [e \in stack[k].keys |-> stack[k].defs[e].name]
                              = [e \in {} |-> NoName]
      BY <2>2
    <3>. QED
      BY <3>1, <3>2
  <2>. QED
    BY <2>3
<1>2. IInv /\ [Next]_envVars => [Table!TableNext]_Scopes
  BY NextOK DEF StepOK, TableStep
<1>3. Spec => []IInv
  BY Inductive
<1>. QED
  BY <1>1, <1>2, <1>3, PTL DEF Spec, ImplementsTable, Table!TableSpec

-----------------------------------------------------------------------------
(* Where the definitions of a method go: none into a common info loop, for   *)
(* every set of enums and constructs and every nesting of statements.        *)

(* Only the innermost statement is in its condition or initialiser, and no   *)
(* definition has been sent to a loop that is.                               *)
Staging ==
  \A k \in 1 .. Top :
    /\ stack[k].stage = "INIT" => k = Top /\ stack[k].keys = {}
    /\ stack[k].stage = "COND" => k = Top /\ stack[k].kind = "if"

PreparedBody(p) == "prepare" \in stack[p].marks /\ stack[p].stage = "BODY"

(* An if that tests action details in an int list loop below p.              *)
OnlyTests(p, k) ==
  /\ stack[k].kind = "if"
  /\ stack[k].keys \subseteq ExistsEnum
  /\ \E j \in p .. k : "intList" \in stack[j].marks

(* There is one common info loop, and what is nested in it has no definition *)
(* but those of such tests.                                                 *)
OnePrepare ==
  \A p, q \in 1 .. Top :
    "prepare" \in stack[p].marks /\ "prepare" \in stack[q].marks => p = q

BodyHoldsTests ==
  \A p \in 1 .. Top : \A k \in p .. Top :
    PreparedBody(p) => stack[k].keys = {} \/ OnlyTests(p, k)

(* The list or map of a common info is iterated inside its loop.             *)
ListInBody ==
  \A k \in 1 .. Top : "listMap" \in stack[k].marks =>
    stack[k].kind = "loop" /\ \E p \in 1 .. k - 1 : PreparedBody(p)

LoopInv == Staging /\ OnePrepare /\ BodyHoldsTests /\ ListInBody
-----------------------------------------------------------------------------
(* The scopes that live on keep their kind and loop marks, get no definition *)
(* of their own that BodyHoldsTests does not allow, and leave INIT and COND  *)
(* only for a later stage that is no loop's.                                 *)
LEMMA KeptKeepsLoops ==
  ASSUME TypeOK, LoopInv, stack' \in Seq(Frame), Len(stack') \in {Top, Top - 1},
         \A i \in 1 .. Len(stack') :
           /\ stack'[i].kind = stack[i].kind
           /\ \A m \in LoopMarks : m \in stack'[i].marks <=> m \in stack[i].marks
           /\ \/ stack'[i].stage = stack[i].stage
              \/ /\ stack[i].stage # "BODY"
                 /\ stack'[i].stage \notin {"INIT", "COND", "BODY"}
           /\ stack[i].stage = "INIT" => stack'[i].keys = {}
           /\ stack'[i].keys = stack[i].keys
              \/ \A p \in 1 .. i : PreparedBody(p) =>
                   /\ stack[i].kind = "if"
                   /\ stack'[i].keys \subseteq stack[i].keys \cup ExistsEnum
                   /\ \E j \in p .. i : "intList" \in stack[j].marks
  PROVE  LoopInv'
<1>1. Top = Len(stack) /\ Top \in Nat /\ Top' = Len(stack') /\ Top' \in Nat
      /\ Top' <= Top
  BY DEF TypeOK, Top
<1>2. "prepare" \in LoopMarks /\ "intList" \in LoopMarks /\ "listMap" \in LoopMarks
  BY DEF LoopMarks
<1>3. Staging'
  BY <1>1 DEF LoopInv, Staging
<1>4. OnePrepare'
  BY <1>1, <1>2 DEF LoopInv, OnePrepare
<1>5. \A p \in 1 .. Top' : PreparedBody(p)' <=> PreparedBody(p)
  BY <1>1, <1>2 DEF PreparedBody
<1>6. BodyHoldsTests'
  <2>1. SUFFICES ASSUME NEW p \in 1 .. Top', NEW k \in p .. Top', PreparedBody(p)'
                 PROVE  stack'[k].keys = {} \/ OnlyTests(p, k)'
    BY DEF BodyHoldsTests
  <2>2. p \in 1 .. Top /\ k \in p .. Top /\ k \in 1 .. Top' /\ p \in 1 .. k
        /\ PreparedBody(p)
    BY <1>1, <1>5, <2>1
  <2>3. stack[k].keys = {} \/ OnlyTests(p, k)
    BY <2>2 DEF LoopInv, BodyHoldsTests
  <2>4. \A j \in p .. k : "intList" \in stack[j].marks => "intList" \in stack'[j].marks
    <3>1. \A j \in p .. k : j \in 1 .. Top'
      BY <1>1, <2>2
    <3>. QED
      BY <1>1, <1>2, <3>1
  <2>5. CASE stack'[k].keys = stack[k].keys
    <3>1. stack'[k].kind = stack[k].kind
      BY <1>1, <2>2
    <3>. QED
      BY <2>3, <2>4, <2>5, <3>1 DEF OnlyTests
  <2>6. CASE stack'[k].keys # stack[k].keys
    <3>1. /\ stack'[k].kind = "if"
          /\ stack'[k].keys \subseteq stack[k].keys \cup ExistsEnum
          /\ \E j \in p .. k : "intList" \in stack[j].marks
      BY <1>1, <2>2, <2>6
    <3>. QED
      BY <2>3, <2>4, <3>1 DEF OnlyTests
  <2>. QED
    BY <2>5, <2>6
<1>7. ListInBody'
  <2>1. SUFFICES ASSUME NEW k \in 1 .. Top', "listMap" \in stack'[k].marks
                 PROVE  /\ stack'[k].kind = "loop"
                        /\ \E p \in 1 .. k - 1 : PreparedBody(p)'
    BY DEF ListInBody
  <2>2. k \in 1 .. Top /\ "listMap" \in stack[k].marks
        /\ stack'[k].kind = stack[k].kind
    BY <1>1, <1>2, <2>1
  <2>3. PICK p \in 1 .. k - 1 : PreparedBody(p)
    BY <2>2 DEF LoopInv, ListInBody
  <2>4. p \in 1 .. Top'
    BY <1>1, <2>3
  <2>. QED
    BY <1>5, <2>2, <2>3, <2>4 DEF LoopInv, ListInBody
<1>. QED
  BY <1>3, <1>4, <1>6, <1>7 DEF LoopInv
-----------------------------------------------------------------------------
(* In the body of a common info loop every definition is sent out of it, and  *)
(* the initialiser of a loop defines nothing in that loop.                   *)
LEMMA TargetLeaves ==
  ASSUME IInv, LoopInv, NEW e, Top > 0
  PROVE  /\ Here.stage = "INIT" => Target(e, Top) # Top
         /\ \A p \in 1 .. Top : PreparedBody(p) =>
              /\ PrepareOf(Top) = p /\ InCommonInfoBody(Top)
              /\ Target(e, Top) < p
<1>1. TypeOK /\ Shape /\ Top \in Nat /\ Top \in 1 .. Top
  BY DEF IInv, TypeOK, Top
<1>2. \A p \in 1 .. Top : "prepare" \in stack[p].marks => p # 1 /\ p - 1 \in 1 .. Top
  BY <1>1 DEF Shape
<1>3. ASSUME NEW p \in 1 .. Top, PreparedBody(p)
      PROVE  /\ PrepareOf(Top) = p /\ InCommonInfoBody(Top)
             /\ Target(e, Top) < p
  <2>1. "prepare" \in stack[p].marks /\ stack[p].stage = "BODY"
    BY <1>3 DEF PreparedBody
  <2>2. p <= PrepareOf(Top) /\ PrepareOf(Top) \in 0 .. Top
        /\ (PrepareOf(Top) # 0 => "prepare" \in stack[PrepareOf(Top)].marks)
    BY <1>1, <2>1, PrepareOfType
  <2>3. PrepareOf(Top) = p
    BY <1>1, <2>1, <2>2 DEF LoopInv, OnePrepare
  <2>4. InCommonInfoBody(Top)
    BY <2>1, <2>3 DEF InCommonInfoBody
  <2>5. Target(e, Top) \in {1, p - 1}
    BY <2>3, <2>4 DEF Target
  <2>. QED
    BY <1>1, <1>2, <2>1, <2>3, <2>4, <2>5
<1>4. ASSUME Here.stage = "INIT" PROVE Target(e, Top) # Top
  <2>1. stack[Top].kind = "loop" /\ Top # 1
    BY <1>1, <1>4 DEF Shape, Here
  <2>2. LoopOf(Top) = Top
    BY <1>1, <2>1, LoopOfType
  <2>3. PrepareOf(Top) \in 0 .. Top
    BY <1>1, PrepareOfType
  <2>4. Target(e, Top) \in {1, PrepareOf(Top) - 1, Top - 1}
    BY <1>1, <2>2 DEF Target
  <2>. QED
    BY <1>1, <2>1, <2>3, <2>4
<1>. QED
  BY <1>3, <1>4

(* A definition of e is made or completed, in scope t if it is not visible    *)
(* from there.                                                              *)
Places(e, t) ==
  \/ stack' = stack
  \/ \E k \in 1 .. Top : \E d \in Def :
       Registers(k, e, d) /\ (k = t \/ e \in stack[k].keys)

(* The three helpers do that.                                               *)
LEMMA AddDefPlaces ==
  ASSUME TypeOK, NEW e \in Enum, NEW t \in 1 .. Top, NEW x \in Name,
         AddDef(e, t, x)
  PROVE  Places(e, t)
<1>1. CASE Find(e, t) = 0
  <2> DEFINE d == [name |-> FreshName(e, used), text |-> x, exists |-> None]
  <2>1. d \in Def
    BY FreshNameIsFresh DEF Def
  <2>2. Registers(t, e, d)
    BY <1>1, AddDefForm
  <2>. HIDE DEF d
  <2>. QED
    BY <2>1, <2>2 DEF Places
<1>2. CASE Find(e, t) # 0
  <2> DEFINE k == Find(e, t)
             d == [stack[k].defs[e] EXCEPT !.text = x]
  <2>1. k \in 1 .. Top /\ e \in stack[k].keys /\ d \in Def
    BY <1>2, FoundDef DEF Def
  <2>2. stack' = stack \/ Registers(k, e, d)
    BY <1>2, AddDefForm
  <2>. HIDE DEF d, k
  <2>. QED
    BY <2>1, <2>2 DEF Places
<1>. QED
  BY <1>1, <1>2

LEMMA AddNamedDefPlaces ==
  ASSUME TypeOK, NEW e \in Enum, NEW t \in 1 .. Top, NEW v \in SourceVar,
         AddNamedDef(e, t, v)
  PROVE  Places(e, t)
<1>0. v \in Name
  BY NamesAssumption
<1>1. CASE Find(e, t) = 0
  <2> DEFINE d == [name |-> v, text |-> v, exists |-> None]
  <2>1. d \in Def
    BY <1>0 DEF Def
  <2>2. Registers(t, e, d)
    BY <1>1, AddNamedDefForm
  <2>. HIDE DEF d
  <2>. QED
    BY <2>1, <2>2 DEF Places
<1>2. CASE Find(e, t) # 0
  <2> DEFINE k == Find(e, t)
             old == stack[k].defs[e]
  <2>1. k \in 1 .. Top /\ e \in stack[k].keys /\ old \in Def
    BY <1>2, FoundDef
  <2>2. PICK x \in {v, old.text} :
          Registers(k, e, [old EXCEPT !.name = v, !.text = x])
    BY <1>2, AddNamedDefForm
  <2>3. [old EXCEPT !.name = v, !.text = x] \in Def
    BY <1>0, <2>1, <2>2 DEF Def
  <2>. HIDE DEF k, old
  <2>. QED
    BY <2>1, <2>2, <2>3 DEF Places
<1>. QED
  BY <1>1, <1>2

LEMMA AddExistsPlaces ==
  ASSUME TypeOK, NEW e \in Enum, NEW t \in 1 .. Top, Top > 0,
         Here.marks \subseteq {"action"},
         AddExists([stack EXCEPT ![Top].marks = {"action"}], e, t)
  PROVE  Places(e, t)
<1>1. CASE Find(e, t) = 0
  <2> DEFINE d == [name |-> FreshName(e, used), text |-> None,
                  exists |-> FreshName(e, used)]
  <2>1. d \in Def
    BY FreshNameIsFresh DEF Def
  <2>2. Registers(t, e, d)
    BY <1>1, AddExistsForm
  <2>. HIDE DEF d
  <2>. QED
    BY <2>1, <2>2 DEF Places
<1>2. CASE Find(e, t) # 0
  <2> DEFINE k == Find(e, t)
             old == stack[k].defs[e]
             d == [old EXCEPT !.exists = old.name]
  <2>1. k \in 1 .. Top /\ e \in stack[k].keys /\ old \in Def
    BY <1>2, FoundDef
  <2>2. d \in Def
    BY <2>1 DEF Def
  <2>3. Registers(k, e, d)
    BY <1>2, AddExistsForm
  <2>. HIDE DEF d, k
  <2>. QED
    BY <2>1, <2>2, <2>3 DEF Places
<1>. QED
  BY <1>1, <1>2

(* Definitions outside the common info loop, and those of action detail      *)
(* tests, keep the invariant.                                               *)
LEMMA PlacesKeepsLoops ==
  ASSUME IInv, LoopInv, NEW e \in Enum, NEW t \in 1 .. Top, Places(e, t),
         stack[t].stage # "INIT",
         \A p \in 1 .. t : PreparedBody(p) =>
           /\ stack[t].kind = "if" /\ e \in ExistsEnum
           /\ \E j \in p .. t : "intList" \in stack[j].marks
  PROVE  LoopInv'
<1>0. TypeOK /\ Top = Len(stack) /\ Top \in Nat
  BY DEF IInv, TypeOK, Top
<1>1. ASSUME stack' = stack PROVE LoopInv'
  BY <1>1 DEF LoopInv, Staging, OnePrepare, BodyHoldsTests, ListInBody,
              PreparedBody, OnlyTests, Top
<1>2. ASSUME NEW k \in 1 .. Top, NEW d \in Def, Registers(k, e, d),
             k = t \/ e \in stack[k].keys
      PROVE  LoopInv'
  <2>1. stack' \in Seq(Frame) /\ Len(stack') = Top
    BY <1>0, <1>2 DEF Registers
  <2>2. ASSUME NEW i \in 1 .. Top
        PROVE  /\ stack'[i].kind = stack[i].kind
               /\ \A m \in LoopMarks :
                    m \in stack'[i].marks <=> m \in stack[i].marks
               /\ stack'[i].stage = stack[i].stage
               /\ stack'[i].keys = IF i = t THEN stack'[i].keys ELSE stack[i].keys
               /\ stack'[i].keys \subseteq stack[i].keys \cup {e}
    <3>1. /\ stack'[i].kind = stack[i].kind /\ stack'[i].stage = stack[i].stage
          /\ stack'[i].keys = IF i = k THEN stack[i].keys \cup {e}
                              ELSE stack[i].keys
          /\ \/ stack'[i].marks = stack[i].marks
             \/ stack[i].marks \subseteq {"action"} /\ stack'[i].marks = {"action"}
      BY <1>0, <1>2 DEF Registers
    <3>2. \A m \in LoopMarks : m \in stack'[i].marks <=> m \in stack[i].marks
      BY <3>1 DEF LoopMarks
    <3>3. i # t => stack'[i].keys = stack[i].keys
      BY <1>2, <3>1
    <3>. QED
      BY <3>1, <3>2, <3>3
  <2>3. ASSUME NEW i \in 1 .. Top, stack[i].stage = "INIT"
        PROVE  stack'[i].keys = {}
    BY <2>2, <2>3 DEF LoopInv, Staging
  <2>4. ASSUME NEW i \in 1 .. Top
        PROVE  stack'[i].keys = stack[i].keys
               \/ \A p \in 1 .. i : PreparedBody(p) =>
                    /\ stack[i].kind = "if"
                    /\ stack'[i].keys \subseteq stack[i].keys \cup ExistsEnum
                    /\ \E j \in p .. i : "intList" \in stack[j].marks
    BY <2>2
  <2>. QED
    BY <1>0, <2>1, <2>2, <2>3, <2>4, KeptKeepsLoops
<1>. QED
  BY <1>1, <1>2 DEF Places

(* A definition sent where Target says does.                                 *)
LEMMA TargetKeepsLoops ==
  ASSUME IInv, LoopInv, NEW e \in Enum, Top > 0, NEW d \in 1 .. Top,
         \/ d = Top
         \/ d < Top /\ \A p \in 1 .. d : ~PreparedBody(p),
         Places(e, Target(e, d))
  PROVE  LoopInv'
<1> DEFINE t == Target(e, d)
<1>1. TypeOK /\ Shape /\ Top \in Nat /\ Top \in 1 .. Top
  BY DEF IInv, TypeOK, Top
<1>2. t \in 1 .. d /\ t \in 1 .. Top
  BY <1>1, TargetType
<1>3. stack[t].stage # "INIT"
  <2>1. SUFFICES ASSUME stack[t].stage = "INIT" PROVE FALSE
    OBVIOUS
  <2>2. t = Top
    BY <1>2, <2>1 DEF LoopInv, Staging
  <2>3. d = Top
    BY <1>1, <1>2, <2>2
  <2>. QED
    BY <1>1, <2>1, <2>2, <2>3, TargetLeaves DEF Here
<1>4. \A p \in 1 .. t : ~PreparedBody(p)
  <2>1. CASE d = Top
    <3>1. \A p \in 1 .. Top : PreparedBody(p) => t < p
      BY <1>1, <2>1, TargetLeaves
    <3>. QED
      BY <1>1, <1>2, <3>1
  <2>2. CASE d < Top /\ \A p \in 1 .. d : ~PreparedBody(p)
    BY <1>1, <1>2, <2>2
  <2>. QED
    BY <2>1, <2>2
<1>. HIDE DEF t
<1>. QED
  BY <1>2, <1>3, <1>4, PlacesKeepsLoops DEF t
-----------------------------------------------------------------------------
(* Opening, closing, staging and marking scopes.                             *)
LEMMA OpensKeepsLoops ==
  ASSUME TypeOK, LoopInv, NEW f \in Frame, Opens(f), f.keys = {},
         f.marks \in SUBSET IfMarks,
         \/ f.kind = "if" /\ f.stage = "COND"
         \/ f.kind = "loop" /\ f.stage = "INIT",
         Top > 0, Here.stage \notin {"INIT", "COND"}
  PROVE  LoopInv'
<1>1. Top \in Nat /\ Top' = Top + 1 /\ stack'[Top + 1] = f
      /\ \A i \in 1 .. Top : stack'[i] = stack[i]
  BY DEF TypeOK, Opens, Top
<1>2. \A m \in LoopMarks : m \notin f.marks
  BY DEF LoopMarks, IfMarks
<1>3. "prepare" \in LoopMarks /\ "intList" \in LoopMarks /\ "listMap" \in LoopMarks
  BY DEF LoopMarks
<1>4. \A i \in 1 .. Top : stack[i].stage \notin {"INIT", "COND"}
  BY <1>1 DEF LoopInv, Staging, Here
<1>5. \A i \in 1 .. Top' : i \in 1 .. Top \/ i = Top + 1
  BY <1>1
<1>6. Staging'
  BY <1>1, <1>4, <1>5 DEF Staging
<1>7. OnePrepare'
  BY <1>1, <1>2, <1>3, <1>5 DEF LoopInv, OnePrepare
<1>8. \A p \in 1 .. Top' : PreparedBody(p)' <=> p \in 1 .. Top /\ PreparedBody(p)
  BY <1>1, <1>2, <1>3, <1>5 DEF PreparedBody
<1>9. BodyHoldsTests'
  <2>1. SUFFICES ASSUME NEW p \in 1 .. Top', NEW k \in p .. Top', PreparedBody(p)'
                 PROVE  stack'[k].keys = {} \/ OnlyTests(p, k)'
    BY DEF BodyHoldsTests
  <2>2. CASE k = Top + 1
    BY <1>1, <2>2
  <2>3. CASE k # Top + 1
    <3>1. p \in 1 .. Top /\ k \in p .. Top /\ PreparedBody(p) /\ k \in 1 .. Top
      BY <1>1, <1>8, <2>1, <2>3
    <3>2. stack[k].keys = {} \/ OnlyTests(p, k)
      BY <3>1 DEF LoopInv, BodyHoldsTests
    <3>3. \A j \in p .. k : stack'[j] = stack[j]
      BY <1>1, <3>1
    <3>. QED
      BY <3>1, <3>2, <3>3, <1>1 DEF OnlyTests
  <2>. QED
    BY <2>2, <2>3
<1>10. ListInBody'
  <2>1. SUFFICES ASSUME NEW k \in 1 .. Top', "listMap" \in stack'[k].marks
                 PROVE  /\ stack'[k].kind = "loop"
                        /\ \E p \in 1 .. k - 1 : PreparedBody(p)'
    BY DEF ListInBody
  <2>2. k \in 1 .. Top /\ stack'[k] = stack[k]
    BY <1>1, <1>2, <1>3, <1>5, <2>1
  <2>3. stack[k].kind = "loop" /\ \E p \in 1 .. k - 1 : PreparedBody(p)
    BY <2>1, <2>2 DEF LoopInv, ListInBody
  <2>4. \A p \in 1 .. k - 1 : p \in 1 .. Top /\ p \in 1 .. Top'
    BY <1>1, <2>2
  <2>. QED
    BY <1>8, <2>2, <2>3, <2>4
<1>. QED
  BY <1>6, <1>7, <1>9, <1>10 DEF LoopInv

LEMMA ClosesKeepsLoops ==
  ASSUME TypeOK, LoopInv, Closes
  PROVE  LoopInv'
<1>1. Top = Len(stack) /\ Top \in Nat
  BY DEF TypeOK, Top
<1>2. \A i \in 1 .. Top - 1 : i \in 1 .. Top /\ i # Top
  BY <1>1
<1>3. \A i \in 1 .. Top - 1 : stack[i].stage # "INIT"
  BY <1>2 DEF LoopInv, Staging
<1>. QED
  BY <1>1, <1>3, KeptKeepsLoops DEF Closes, Same

LEMMA EntersKeepsLoops ==
  ASSUME IInv, LoopInv, Top > 0, NEW g \in {"THEN", "ELSE", "ELSEIF", "BODY"},
         Enters(g), g = "BODY" <=> Here.stage = "INIT", Here.stage # "BODY"
  PROVE  LoopInv'
<1>1. Top = Len(stack) /\ Top \in Nat /\ TypeOK /\ Top' = Top /\ Top \in 1 .. Top
  BY DEF IInv, TypeOK, Top, Enters
<1>2. ASSUME g # "BODY" PROVE LoopInv'
  BY <1>1, <1>2, KeptKeepsLoops DEF Enters, Same, Here, LoopInv, Staging
<1>3. ASSUME g = "BODY" PROVE LoopInv'
  <2>1. stack[Top].keys = {} /\ Here.stage = "INIT"
    BY <1>1, <1>3 DEF LoopInv, Staging, Here
  <2>2. \A i \in 1 .. Top :
          /\ stack'[i].kind = stack[i].kind /\ stack'[i].keys = stack[i].keys
          /\ stack'[i].marks = stack[i].marks
          /\ stack'[i].stage = IF i = Top THEN "BODY" ELSE stack[i].stage
    BY <1>3 DEF Enters, Same
  <2>3. Staging' /\ OnePrepare'
    BY <1>1, <2>2 DEF LoopInv, Staging, OnePrepare
  <2>4. \A p \in 1 .. Top : PreparedBody(p)' => p = Top \/ PreparedBody(p)
    BY <2>2 DEF PreparedBody
  <2>5. BodyHoldsTests'
    <3>1. SUFFICES ASSUME NEW p \in 1 .. Top, NEW k \in p .. Top, PreparedBody(p)'
                   PROVE  stack'[k].keys = {} \/ OnlyTests(p, k)'
      BY <1>1 DEF BodyHoldsTests
    <3>2. CASE p = Top
      BY <1>1, <2>1, <2>2, <3>2
    <3>3. CASE PreparedBody(p)
      <4>1. stack[k].keys = {} \/ OnlyTests(p, k)
        BY <3>3 DEF LoopInv, BodyHoldsTests
      <4>2. k \in 1 .. Top /\ \A j \in p .. k : j \in 1 .. Top
        BY <1>1
      <4>. QED
        BY <2>2, <4>1, <4>2 DEF OnlyTests
    <3>. QED
      BY <2>4, <3>1, <3>2, <3>3
  <2>6. ListInBody'
    <3>1. SUFFICES ASSUME NEW k \in 1 .. Top, "listMap" \in stack[k].marks
                   PROVE  /\ stack[k].kind = "loop"
                          /\ \E p \in 1 .. k - 1 : PreparedBody(p)'
      BY <1>1, <2>2 DEF ListInBody
    <3>2. PICK p \in 1 .. k - 1 : PreparedBody(p)
      BY <3>1 DEF LoopInv, ListInBody
    <3>3. p \in 1 .. Top /\ PreparedBody(p)'
      BY <1>1, <2>2, <3>2 DEF PreparedBody
    <3>. QED
      BY <3>1, <3>2, <3>3 DEF LoopInv, ListInBody
  <2>. QED
    BY <2>3, <2>5, <2>6 DEF LoopInv
<1>. QED
  BY <1>2, <1>3

LEMMA MarksKeepsLoops ==
  ASSUME IInv, LoopInv, NEW m \in LoopMarks, MarkLoop(m), Marks(m)
  PROVE  LoopInv'
<1>1. /\ Top = Len(stack) /\ Top \in Nat /\ TypeOK /\ Shape /\ Top' = Top
      /\ Top \in 1 .. Top /\ stack[Top].stage = "INIT" /\ stack[Top].marks = {}
      /\ stack[Top].kind = "loop"
  BY DEF IInv, TypeOK, Top, Marks, MarkLoop, Here, Shape
<1>2. \A i \in 1 .. Top :
        /\ stack'[i].kind = stack[i].kind /\ stack'[i].keys = stack[i].keys
        /\ stack'[i].stage = stack[i].stage
        /\ stack'[i].marks = IF i = Top THEN {m} ELSE stack[i].marks
  BY DEF Marks, Same
<1>3. Staging'
  BY <1>1, <1>2 DEF LoopInv, Staging
<1>4. OnePrepare'
  <2>1. m = "prepare" => \A j \in 1 .. Top : "prepare" \notin stack[j].marks
    <3>1. ASSUME m = "prepare", NEW j \in 1 .. Top, "prepare" \in stack[j].marks
          PROVE  FALSE
      <4>1. j <= PrepareOf(Top)
        BY <1>1, <3>1, PrepareOfType
      <4>2. PrepareOf(Top) = 0
        BY <3>1 DEF MarkLoop
      <4>. QED
        BY <4>1, <4>2
    <3>. QED
      BY <3>1
  <2>. QED
    BY <1>1, <1>2, <2>1 DEF LoopInv, OnePrepare
<1>5. \A p \in 1 .. Top : PreparedBody(p)' <=> PreparedBody(p)
  BY <1>1, <1>2 DEF PreparedBody
<1>6. BodyHoldsTests'
  <2>1. SUFFICES ASSUME NEW p \in 1 .. Top, NEW k \in p .. Top, PreparedBody(p)
                 PROVE  stack'[k].keys = {} \/ OnlyTests(p, k)'
    BY <1>1, <1>5 DEF BodyHoldsTests
  <2>2. stack[k].keys = {} \/ OnlyTests(p, k)
    BY <2>1 DEF LoopInv, BodyHoldsTests
  <2>3. /\ k \in 1 .. Top
        /\ \A j \in p .. k : "intList" \in stack[j].marks
                              => "intList" \in stack'[j].marks
    BY <1>1, <1>2
  <2>. QED
    BY <1>2, <2>2, <2>3 DEF OnlyTests
<1>7. ListInBody'
  <2>1. SUFFICES ASSUME NEW k \in 1 .. Top, "listMap" \in stack'[k].marks
                 PROVE  /\ stack'[k].kind = "loop"
                        /\ \E p \in 1 .. k - 1 : PreparedBody(p)'
    BY <1>1 DEF ListInBody
  <2>2. CASE k = Top /\ m = "listMap"
    <3>1. PICK p \in 1 .. Top - 1 : PreparedBody(p)
      <4> DEFINE p == PrepareOf(Top)
      <4>1. p # 0 /\ stack[p].stage = "BODY" /\ p \in 0 .. Top
            /\ "prepare" \in stack[p].marks
        BY <1>1, <2>2, PrepareOfType DEF MarkLoop, InCommonInfoBody
      <4>2. p # Top
        BY <1>1, <4>1
      <4>. QED
        BY <1>1, <4>1, <4>2 DEF PreparedBody
    <3>2. p \in 1 .. Top /\ p \in 1 .. k - 1
      BY <1>1, <2>2
    <3>. QED
      BY <1>1, <1>2, <1>5, <2>2, <3>1, <3>2
  <2>3. CASE "listMap" \in stack[k].marks
    <3>1. PICK p \in 1 .. k - 1 : PreparedBody(p)
      BY <2>3 DEF LoopInv, ListInBody
    <3>2. p \in 1 .. Top
      BY <1>1
    <3>. QED
      BY <1>2, <1>5, <2>3, <3>1, <3>2 DEF LoopInv, ListInBody
  <2>. QED
    BY <1>2, <2>1, <2>2, <2>3
<1>. QED
  BY <1>3, <1>4, <1>6, <1>7 DEF LoopInv
-----------------------------------------------------------------------------
(* Every step keeps the definitions out of the loop.                         *)
LEMMA NextKeepsLoops ==
  ASSUME IInv, LoopInv, [Next]_envVars
  PROVE  LoopInv'
<1>0. /\ TypeOK /\ Shape /\ Top \in Nat /\ Top = Len(stack)
      /\ FieldEnum \subseteq Enum /\ SizeEnum \subseteq Enum
      /\ CommonEnum \subseteq Enum /\ ExistsEnum \subseteq Enum
  BY ScopeAssumption DEF IInv, TypeOK, Top
<1>1. InExpression => Top \in 1 .. Top /\ Top > 0
  BY <1>0 DEF InExpression, InStatements
<1>2. ASSUME stack' = stack PROVE LoopInv'
  BY <1>2 DEF LoopInv, Staging, OnePrepare, BodyHoldsTests, ListInBody,
              PreparedBody, OnlyTests, Top
<1>3. ASSUME (\E test \in ItemPosTests : EnterIf(test)) \/ EnterElseIf
             \/ EnterLoop
      PROVE  LoopInv'
  <2>1. PICK f \in Frame :
          /\ Opens(f)
          /\ f.keys = {} /\ f.marks \in SUBSET IfMarks
          /\ \/ f.kind = "if" /\ f.stage = "COND"
             \/ f.kind = "loop" /\ f.stage = "INIT"
          /\ Top > 0 /\ Here.stage \notin {"INIT", "COND"}
    BY <1>0, <1>3, EnterForm
  <2>. QED
    BY <1>0, <2>1, OpensKeepsLoops
<1>4. ASSUME EnterThen \/ \E g \in {"ELSE", "ELSEIF"} : EnterElse(g)
      PROVE  LoopInv'
  <2>1. PICK g \in {"THEN", "ELSE", "ELSEIF"} :
          stack' = Stage(g) /\ Top > 0 /\ Here.stage \in {"COND", "THEN"}
    BY <1>4 DEF EnterThen, EnterElse
  <2>2. Enters(g)
    BY <1>0, <2>1, StageForm
  <2>. QED
    BY <2>1, <2>2, EntersKeepsLoops
<1>5. CASE EnterBody
  <2>1. Top > 0 /\ stack' = Stage("BODY") /\ Here.stage = "INIT"
    BY <1>5 DEF EnterBody
  <2>2. Enters("BODY")
    BY <1>0, <2>1, StageForm
  <2>. QED
    BY <2>1, <2>2, EntersKeepsLoops
<1>6. CASE LeaveIf \/ LeaveLoop
  <2>1. Top > 1 /\ stack' = Popped
    BY <1>6 DEF LeaveIf, LeaveLoop
  <2>. QED
    BY <1>0, <2>1, PopForm, ClosesKeepsLoops
<1>7. ASSUME NEW m \in LoopMarks, MarkLoop(m) PROVE LoopInv'
  BY <1>0, <1>7, MarkForm, MarksKeepsLoops
<1>8. ASSUME NEW e \in FieldEnum, RefField(e) PROVE LoopInv'
  <2>1. e \in Enum /\ Top \in 1 .. Top /\ Top > 0
    BY <1>0, <1>1, <1>8 DEF RefField
  <2>2. Target(e, Top) \in 1 .. Top /\ NameFrom(e, Top) \in Name
    BY <1>0, <2>1, TargetType, NameFromType
  <2>3. stack' = stack \/ Places(e, Target(e, Top))
    BY <1>0, <1>8, <2>1, <2>2, AddDefPlaces DEF RefField
  <2>. QED
    BY <1>2, <2>1, <2>3, TargetKeepsLoops
<1>9. ASSUME NEW e \in SizeEnum, RefListSize(e) PROVE LoopInv'
  <2>1. e \in Enum /\ Top \in 1 .. Top /\ Top > 0
    BY <1>0, <1>1, <1>9 DEF RefListSize
  <2>2. Target(e, Top) \in 1 .. Top /\ NameFrom(e, Top) \in Name
    BY <1>0, <2>1, TargetType, NameFromType
  <2>3. Places(e, Target(e, Top))
    BY <1>0, <1>9, <2>1, <2>2, AddDefPlaces DEF RefListSize
  <2>. QED
    BY <2>1, <2>3, TargetKeepsLoops
<1>10. ASSUME NEW e \in CommonEnum, RefCommon(e) PROVE LoopInv'
  <2> DEFINE d == PrepareOf(Top) - 1
  <2>1. e \in Enum /\ Top \in 1 .. Top /\ Top > 0
    BY <1>0, <1>1, <1>10 DEF RefCommon
  <2>2. PrepareOf(Top) \in 1 .. Top /\ stack[PrepareOf(Top)].kind = "loop"
        /\ "prepare" \in stack[PrepareOf(Top)].marks
    BY <1>0, <1>10, <2>1, PrepareOfType DEF RefCommon, InCommonInfoBody, Shape
  <2>3. d \in 1 .. Top /\ d < Top
    BY <1>0, <2>2 DEF Shape
  <2>4. \A p \in 1 .. d : ~PreparedBody(p)
    BY <1>0, <2>2, <2>3 DEF LoopInv, OnePrepare, PreparedBody
  <2>5. Target(e, d) \in 1 .. Top /\ NameFrom(e, Top) \in Name
    BY <1>0, <2>1, <2>3, TargetType, NameFromType
  <2>6. stack' = stack \/ Places(e, Target(e, d))
    BY <1>0, <1>10, <2>1, <2>5, AddDefPlaces DEF RefCommon
  <2>. HIDE DEF d
  <2>. QED
    BY <1>2, <2>1, <2>3, <2>4, <2>6, TargetKeepsLoops
<1>11. ASSUME NEW e \in FieldEnum, NEW v \in SourceVar, DeclareField(v, e)
       PROVE  LoopInv'
  <2>1. e \in Enum /\ Top \in 1 .. Top /\ Top > 0
    BY <1>0, <1>11 DEF DeclareField, InStatements
  <2>2. Target(e, Top) \in 1 .. Top
    BY <1>0, <2>1, TargetType
  <2>3. stack' = stack \/ Places(e, Target(e, Top))
    BY <1>0, <1>11, <2>1, <2>2, AddNamedDefPlaces DEF DeclareField
  <2>. QED
    BY <1>2, <2>1, <2>3, TargetKeepsLoops
<1>12. ASSUME NEW e \in ExistsEnum, CheckAction(e) PROVE LoopInv'
  <2>1. /\ e \in Enum /\ Top \in 1 .. Top /\ Top > 0
        /\ Here.marks \subseteq {"action"} /\ Here.stage = "COND"
    BY <1>0, <1>12 DEF CheckAction
  <2>2. Target(e, Top) \in 1 .. Top
    BY <1>0, <2>1, TargetType
  <2>3. CASE ~InIntListLoop(Top)
    <3>1. Places(e, Target(e, Top))
      BY <1>0, <1>12, <2>1, <2>2, <2>3, AddExistsPlaces DEF CheckAction
    <3>. QED
      BY <2>1, <3>1, TargetKeepsLoops
  <2>4. CASE InIntListLoop(Top)
    <3>1. Places(e, Top)
      BY <1>0, <1>12, <2>1, <2>4, AddExistsPlaces DEF CheckAction
    <3>2. stack[Top].kind = "if" /\ stack[Top].stage # "INIT"
      BY <2>1 DEF LoopInv, Staging, Here
    <3>3. ASSUME NEW p \in 1 .. Top, PreparedBody(p)
          PROVE  \E j \in p .. Top : "intList" \in stack[j].marks
      <4>1. stack[p].kind = "loop"
        BY <1>0, <3>3 DEF Shape, PreparedBody
      <4>2. LoopOf(Top) \in 0 .. Top /\ p <= LoopOf(Top)
        BY <1>0, <2>1, <4>1, LoopOfType
      <4>3. LoopOf(Top) \in p .. Top /\ "intList" \in stack[LoopOf(Top)].marks
        BY <1>0, <2>4, <4>2 DEF InIntListLoop
      <4>. QED
        BY <4>3
    <3>. QED
      BY <2>1, <3>1, <3>2, <3>3, PlacesKeepsLoops
  <2>. QED
    BY <2>3, <2>4
<1>13. ASSUME NEW v \in SourceVar, DeclareVar(v) PROVE LoopInv'
  BY <1>2, <1>13 DEF DeclareVar
<1>14. CASE Finish
  <2>1. Top' = 0
    BY <1>14 DEF Finish, Top
  <2>. QED
    BY <2>1 DEF LoopInv, Staging, OnePrepare, BodyHoldsTests, ListInBody
<1>15. CASE UNCHANGED envVars
  BY <1>2, <1>15 DEF envVars
<1>. QED
  BY <1>3, <1>4, <1>5, <1>6, <1>7, <1>8, <1>9, <1>10, <1>11, <1>12, <1>13, <1>14,
     <1>15 DEF Next

(* The method body is no loop.                                               *)
LEMMA InitLoops ==
  ASSUME Init
  PROVE  LoopInv
<1>1. Top = 1 /\ stack[1].keys = {} /\ stack[1].stage = "ROOT"
      /\ stack[1].marks = {}
  BY DEF Init, NewFrame, Top
<1>2. \A k \in 1 .. Top : k = 1
  BY <1>1
<1>. QED
  BY <1>1, <1>2 DEF LoopInv, Staging, OnePrepare, BodyHoldsTests, ListInBody,
                    PreparedBody

(* The invariant of the loops holds of every behaviour.                      *)
THEOREM LoopsInductive == Spec => [](IInv /\ LoopInv)
<1>1. Init => IInv /\ LoopInv
  BY InitOK, InitLoops
<1>2. IInv /\ LoopInv /\ [Next]_envVars => (IInv /\ LoopInv)'
  BY NextOK, NextKeepsLoops
<1>. QED
  BY <1>1, <1>2, PTL DEF Spec

(* Whatever is read, sized or declared in a common info loop, at any depth,   *)
(* is defined outside of it, where the loop's replacement still sees it, but  *)
(* for the tests made in an int list loop ("必须定义在 common info prepare      *)
(* parent 中", Env.cpp:676).                                                 *)
THEOREM CommonInfoLoopEmpty == Spec => []CommonInfoLoopHoldsNoDef
<1>1. LoopInv => CommonInfoLoopHoldsNoDef
  BY DEF LoopInv, BodyHoldsTests, OnlyTests, PreparedBody, CommonInfoLoopHoldsNoDef
<1>. QED
  BY <1>1, LoopsInductive, PTL

-----------------------------------------------------------------------------
(* What a definition declares, from the read that makes it until its scope   *)
(* closes.                                                                  *)

(* The list size an iterator test checks is not read as a plain field as      *)
(* well.  Where it is, Env::add_new_def (Env.cpp:766) tells that references   *)
(* already replaced can be wrong.                                           *)
SizesApart == ExistsEnum \cap (FieldEnum \cup CommonEnum) \subseteq SizeEnum

(* A definition declares the variable it is referred to by, or the exists     *)
(* variable of that name: a field that is read is complete from the start,   *)
(* one that is tested has no text.                                          *)
SettledDef(e, d) ==
  IF e \in ExistsEnum THEN d.text = None /\ d.exists = d.name
                      ELSE d.text = d.name /\ d.exists = None

Settled ==
  \A k \in 1 .. Top : \A e \in stack[k].keys \ SizeEnum :
    SettledDef(e, stack[k].defs[e])

(* The step changes no settled definition, and gives a new one a name that    *)
(* was free or is the method's.                                             *)
Adds ==
  /\ used \subseteq used'
  /\ \A k \in 1 .. Len(stack') : \A e \in stack'[k].keys \ SizeEnum :
       \/ /\ k <= Top /\ e \in stack[k].keys
          /\ stack'[k].defs[e] = stack[k].defs[e]
       \/ stack'[k].defs[e].name \notin used \ (SourceVar \cup {NoName})
  /\ \A k \in 1 .. Top : \A e \in stack[k].keys \ SizeEnum :
       k <= Len(stack') =>
         e \in stack'[k].keys /\ stack'[k].defs[e] = stack[k].defs[e]
-----------------------------------------------------------------------------
(* One definition is replaced.                                               *)
LEMMA RegisterSettles ==
  ASSUME TypeOK, Settled, NEW k \in 1 .. Top, NEW e \in Enum, NEW d \in Def,
         Registers(k, e, d), used \subseteq used',
         \/ e \in SizeEnum
         \/ e \in stack[k].keys /\ d = stack[k].defs[e]
         \/ /\ SettledDef(e, d) /\ e \notin stack[k].keys
            /\ d.name \notin used \ (SourceVar \cup {NoName})
  PROVE  Settled' /\ Adds
<1>1. Top = Len(stack) /\ Top' = Top /\ Top \in Nat
      /\ \A i \in 1 .. Top : stack[i].keys \subseteq Enum
  BY FrameOf DEF TypeOK, Top, Registers
<1>2. ASSUME NEW i \in 1 .. Top, NEW c \in Enum
      PROVE  /\ c \in stack'[i].keys <=> c \in stack[i].keys \/ (i = k /\ c = e)
             /\ stack'[i].defs[c] = IF i = k /\ c = e THEN d ELSE stack[i].defs[c]
  <2>1. stack'[i].keys = IF i = k THEN stack[i].keys \cup {e} ELSE stack[i].keys
    BY <1>1 DEF Registers
  <2>2. stack'[i].defs[c] = IF i = k /\ c = e THEN d ELSE stack[i].defs[c]
    BY <1>1 DEF Registers
  <2>. QED
    BY <2>1, <2>2
<1>3. \A i \in 1 .. Top : stack'[i].keys \subseteq Enum
  <2>1. \A i \in 1 .. Top :
          stack'[i].keys = IF i = k THEN stack[i].keys \cup {e} ELSE stack[i].keys
    BY <1>1 DEF Registers
  <2>. QED
    BY <1>1, <2>1
<1>4. ASSUME NEW i \in 1 .. Top, NEW c \in stack'[i].keys \ SizeEnum
      PROVE  /\ SettledDef(c, stack'[i].defs[c])
             /\ \/ /\ c \in stack[i].keys
                   /\ stack'[i].defs[c] = stack[i].defs[c]
                \/ stack'[i].defs[c].name \notin used \ (SourceVar \cup {NoName})
  <2>1. c \in Enum
    BY <1>3
  <2>2. CASE i = k /\ c = e
    <3>1. stack'[i].defs[c] = d
      BY <1>2, <2>1, <2>2
    <3>. QED
      BY <2>2, <3>1 DEF Settled
  <2>3. CASE ~(i = k /\ c = e)
    <3>1. c \in stack[i].keys \ SizeEnum /\ stack'[i].defs[c] = stack[i].defs[c]
      BY <1>2, <2>1, <2>3
    <3>. QED
      BY <3>1 DEF Settled
  <2>. QED
    BY <2>2, <2>3
<1>5. ASSUME NEW i \in 1 .. Top, NEW c \in stack[i].keys \ SizeEnum
      PROVE  c \in stack'[i].keys /\ stack'[i].defs[c] = stack[i].defs[c]
  BY <1>1, <1>2
<1>6. Settled'
  BY <1>1, <1>4 DEF Settled, SettledDef
<1>7. Adds
  BY <1>1, <1>4, <1>5 DEF Adds, Registers
<1>. QED
  BY <1>6, <1>7

(* None is: the scopes that live on keep their definitions, and a scope that   *)
(* opens has none.                                                          *)
LEMMA KeptSettles ==
  ASSUME TypeOK, Settled, used \subseteq used', Len(stack') \in Nat,
         \A i \in 1 .. Len(stack') :
           \/ stack'[i].keys = {} /\ i > Top
           \/ /\ i <= Top /\ stack'[i].keys = stack[i].keys
              /\ stack'[i].defs = stack[i].defs
  PROVE  Settled' /\ Adds
<1>1. Top \in Nat /\ Top' = Len(stack')
  BY DEF TypeOK, Top
<1>2. Settled'
  BY <1>1 DEF Settled, SettledDef
<1>3. Adds
  BY <1>1 DEF Adds
<1>. QED
  BY <1>2, <1>3

(* A field that is read.                                                     *)
LEMMA AddDefSettles ==
  ASSUME TypeOK, Settled, NEW e \in Enum, NEW t \in 1 .. Top, NEW x \in Name,
         AddDef(e, t, x),
         \/ e \in SizeEnum
         \/ /\ e \notin ExistsEnum
            /\ Find(e, t) = 0 => x = FreshName(e, used)
  PROVE  Settled' /\ Adds
<1>0. Top \in Nat /\ Top = Len(stack)
  BY DEF TypeOK, Top
<1>1. CASE Find(e, t) = 0
  <2> DEFINE name == FreshName(e, used)
             d == [name |-> name, text |-> x, exists |-> None]
  <2>1. name \in Name /\ (name # NoName => name \notin used)
    BY FreshNameIsFresh
  <2>2. d \in Def /\ d.name = name /\ d.text = x /\ d.exists = None
    BY <2>1 DEF Def
  <2>3. Registers(t, e, d) /\ used \subseteq used'
    BY <1>1, AddDefForm
  <2>4. e \notin stack[t].keys
    BY <1>0, <1>1, FindNone
  <2>5. e \in SizeEnum \/ SettledDef(e, d)
    BY <1>1, <2>2 DEF SettledDef
  <2>. HIDE DEF d, name
  <2>. QED
    BY <2>1, <2>2, <2>3, <2>4, <2>5, RegisterSettles
<1>2. CASE Find(e, t) # 0
  <2> DEFINE k == Find(e, t)
             d == [stack[k].defs[e] EXCEPT !.text = x]
  <2>1. k \in 1 .. Top /\ e \in stack[k].keys /\ stack[k].defs[e] \in Def
    BY <1>2, FoundDef
  <2>2. d \in Def
    BY <2>1 DEF Def
  <2>3. used' = used /\ (stack[k].defs[e].text # None => stack' = stack)
        /\ (stack[k].defs[e].text = None => Registers(k, e, d))
    BY <1>2, AddDefForm
  <2>. HIDE DEF d, k
  <2>4. CASE stack' = stack
    BY <1>0, <2>3, <2>4, KeptSettles
  <2>5. CASE stack[k].defs[e].text = None
    <3>1. e \in SizeEnum
      <4>1. SUFFICES ASSUME e \notin SizeEnum PROVE FALSE
        OBVIOUS
      <4>2. SettledDef(e, stack[k].defs[e])
        BY <2>1, <4>1 DEF Settled
      <4>3. None = stack[k].defs[e].name
        BY <2>5, <4>1, <4>2 DEF SettledDef
      <4>. QED
        BY <2>1, <4>3, ScopeAssumption DEF Def
    <3>. QED
      BY <2>1, <2>2, <2>3, <2>5, <3>1, RegisterSettles
  <2>. QED
    BY <2>3, <2>4, <2>5
<1>. QED
  BY <1>1, <1>2

(* A field that initialises a variable of the method.                        *)
LEMMA AddNamedDefSettles ==
  ASSUME TypeOK, Settled, NEW e \in Enum, NEW t \in 1 .. Top,
         NEW v \in SourceVar, AddNamedDef(e, t, v),
         e \in SizeEnum \/ (e \notin ExistsEnum /\ Find(e, t) = 0)
  PROVE  Settled' /\ Adds
<1>0. v \in Name /\ used' = used \cup {v} /\ Top \in Nat
  <2>1. used' = used \cup {v}
    BY AddNamedDefForm
  <2>. QED
    BY <2>1, NamesAssumption DEF TypeOK, Top
<1>1. CASE Find(e, t) = 0
  <2> DEFINE d == [name |-> v, text |-> v, exists |-> None]
  <2>1. d \in Def /\ d.name = v /\ d.text = v /\ d.exists = None
    BY <1>0 DEF Def
  <2>2. Registers(t, e, d)
    BY <1>1, AddNamedDefForm
  <2>3. e \notin stack[t].keys
    BY <1>0, <1>1, FindNone
  <2>. HIDE DEF d
  <2>4. e \in SizeEnum \/ SettledDef(e, d)
    BY <2>1 DEF SettledDef
  <2>. QED
    BY <1>0, <2>1, <2>2, <2>3, <2>4, RegisterSettles
<1>2. CASE Find(e, t) # 0
  <2> DEFINE k == Find(e, t)
             old == stack[k].defs[e]
  <2>1. k \in 1 .. Top /\ old \in Def /\ e \in SizeEnum
    BY <1>2, FoundDef
  <2>2. PICK x \in {v, old.text} :
          Registers(k, e, [old EXCEPT !.name = v, !.text = x])
    BY <1>2, AddNamedDefForm
  <2>3. [old EXCEPT !.name = v, !.text = x] \in Def
    BY <1>0, <2>1, <2>2 DEF Def
  <2>. HIDE DEF k, old
  <2>. QED
    BY <1>0, <2>1, <2>2, <2>3, RegisterSettles
<1>. QED
  BY <1>1, <1>2

(* A test whether an action detail is there.                                 *)
LEMMA AddExistsSettles ==
  ASSUME TypeOK, Settled, NEW e \in ExistsEnum, e \in Enum, NEW t \in 1 .. Top,
         Top > 0, Here.marks \subseteq {"action"},
         AddExists([stack EXCEPT ![Top].marks = {"action"}], e, t)
  PROVE  Settled' /\ Adds
<1>0. Top \in Nat
  BY DEF TypeOK, Top
<1>1. CASE Find(e, t) = 0
  <2> DEFINE name == FreshName(e, used)
             d == [name |-> name, text |-> None, exists |-> name]
  <2>1. name \in Name /\ (name # NoName => name \notin used)
    BY FreshNameIsFresh
  <2>2. d \in Def /\ d.name = name /\ d.text = None /\ d.exists = name
    BY <2>1 DEF Def
  <2>3. Registers(t, e, d) /\ used \subseteq used'
    BY <1>1, AddExistsForm
  <2>4. e \notin stack[t].keys
    BY <1>0, <1>1, FindNone
  <2>5. SettledDef(e, d)
    BY <2>2 DEF SettledDef
  <2>. HIDE DEF d, name
  <2>. QED
    BY <2>1, <2>2, <2>3, <2>4, <2>5, RegisterSettles
<1>2. CASE Find(e, t) # 0
  <2> DEFINE k == Find(e, t)
             old == stack[k].defs[e]
             d == [old EXCEPT !.exists = old.name]
  <2>1. k \in 1 .. Top /\ e \in stack[k].keys /\ old \in Def
    BY <1>2, FoundDef
  <2>2. d \in Def
    BY <2>1 DEF Def
  <2>3. Registers(k, e, d) /\ used' = used
    BY <1>2, AddExistsForm
  <2>4. e \in SizeEnum \/ d = old
    <3>1. e \notin SizeEnum => old.exists = old.name
      BY <2>1 DEF Settled, SettledDef
    <3>2. old.exists = old.name => d = old
      BY <2>1 DEF Def
    <3>. QED
      BY <3>1, <3>2
  <2>. HIDE DEF d, k
  <2>. QED
    BY <2>1, <2>2, <2>3, <2>4, RegisterSettles
<1>. QED
  BY <1>1, <1>2
-----------------------------------------------------------------------------
(* What the look-ups find: a settled field that is visible has its text, and  *)
(* a common info list is visible in the loop iff it is around it.            *)
LEMMA SettledHasDef ==
  ASSUME TypeOK, Settled, NEW e \in Enum, e \notin ExistsEnum \cup SizeEnum,
         NEW d \in 1 .. Top
  PROVE  HasDef(e, d) <=> Find(e, d) # 0
<1>1. ASSUME Find(e, d) # 0 PROVE stack[Find(e, d)].defs[e].text # None
  <2> DEFINE k == Find(e, d)
  <2>1. k \in 1 .. Top /\ e \in stack[k].keys /\ stack[k].defs[e] \in Def
    BY <1>1, FoundDef
  <2>2. SettledDef(e, stack[k].defs[e])
    BY <2>1 DEF Settled
  <2>. QED
    BY <2>1, <2>2, ScopeAssumption DEF SettledDef, Def
<1>. QED
  BY <1>1 DEF HasDef

LEMMA CommonInLoop ==
  ASSUME IInv, LoopInv, NEW e \in Enum, e \notin ExistsEnum, Top > 0,
         InCommonInfoBody(Top)
  PROVE  /\ PrepareOf(Top) - 1 \in 1 .. Top
         /\ Find(e, PrepareOf(Top) - 1) = 0 => Find(e, Top) = 0
<1> DEFINE p == PrepareOf(Top)
<1>1. TypeOK /\ Shape /\ Top \in Nat /\ Top \in 1 .. Top
  BY DEF IInv, TypeOK, Top
<1>2. p \in 1 .. Top /\ "prepare" \in stack[p].marks /\ stack[p].stage = "BODY"
  BY <1>1, PrepareOfType DEF InCommonInfoBody
<1>. HIDE DEF p
<1>3. p - 1 \in 1 .. Top /\ PreparedBody(p)
  BY <1>1, <1>2 DEF Shape, PreparedBody
<1>4. ASSUME Find(e, p - 1) = 0, Find(e, Top) # 0 PROVE FALSE
  <2>1. PICK k \in 1 .. Top : e \in stack[k].keys
    BY <1>1, <1>4, FoundDef
  <2>2. ~(k \in 1 .. p - 1)
    BY <1>1, <1>3, <1>4, <2>1, FindNone
  <2>3. k \in p .. Top
    BY <1>1, <1>2, <2>2
  <2>4. stack[k].keys = {} \/ OnlyTests(p, k)
    BY <1>2, <1>3, <2>3 DEF LoopInv, BodyHoldsTests
  <2>. QED
    BY <2>1, <2>4 DEF OnlyTests
<1>. QED
  BY <1>3, <1>4 DEF p
-----------------------------------------------------------------------------
(* Every step keeps settled definitions.                                     *)
LEMMA NextSettles ==
  ASSUME SizesApart, IInv, LoopInv, Settled, [Next]_envVars
  PROVE  Settled' /\ Adds
<1>0. /\ TypeOK /\ Shape /\ Top \in Nat /\ Top = Len(stack)
      /\ FieldEnum \subseteq Enum /\ SizeEnum \subseteq Enum
      /\ CommonEnum \subseteq Enum /\ ExistsEnum \subseteq Enum
  BY ScopeAssumption DEF IInv, TypeOK, Top
<1>1. InExpression => Top \in 1 .. Top /\ Top > 0
  BY <1>0 DEF InExpression, InStatements
<1>2. ASSUME stack' = stack, used \subseteq used' PROVE Settled' /\ Adds
  BY <1>0, <1>2, KeptSettles
<1>3. ASSUME (\E test \in ItemPosTests : EnterIf(test)) \/ EnterElseIf
             \/ EnterLoop
      PROVE  Settled' /\ Adds
  <2>1. PICK f \in Frame : Push(f) /\ Opens(f) /\ f.keys = {}
    BY <1>0, <1>3, EnterForm
  <2>2. used' = used
    BY <2>1 DEF Push
  <2>3. Len(stack') = Top + 1
        /\ \A i \in 1 .. Top + 1 :
             \/ stack'[i].keys = {} /\ i > Top
             \/ i <= Top /\ stack'[i] = stack[i]
    <3>1. \A i \in 1 .. Top + 1 : i = Top + 1 \/ i \in 1 .. Top
      BY <1>0
    <3>. QED
      BY <1>0, <2>1, <3>1 DEF Opens
  <2>. QED
    BY <1>0, <2>2, <2>3, KeptSettles
<1>4. ASSUME Len(stack') \in {Top, Top - 1}, used' = used, Top > 0,
             \A i \in 1 .. Len(stack') : Same(i)
      PROVE  Settled' /\ Adds
  BY <1>0, <1>4, KeptSettles DEF Same
<1>5. ASSUME EnterThen \/ EnterBody
             \/ \E g \in {"ELSE", "ELSEIF"} : EnterElse(g)
      PROVE  Settled' /\ Adds
  <2>1. PICK g \in {"THEN", "ELSE", "ELSEIF", "BODY"} : stack' = Stage(g)
    BY <1>5 DEF EnterThen, EnterBody, EnterElse
  <2>2. Top > 0 /\ used' = used
    BY <1>5 DEF EnterThen, EnterBody, EnterElse
  <2>3. Enters(g)
    BY <1>0, <2>1, <2>2, StageForm
  <2>. QED
    BY <1>4, <2>2, <2>3 DEF Enters
<1>6. CASE LeaveIf \/ LeaveLoop
  <2>1. Top > 1 /\ stack' = Popped /\ used' = used
    BY <1>6 DEF LeaveIf, LeaveLoop
  <2>2. Closes
    BY <1>0, <2>1, PopForm
  <2>. QED
    BY <1>0, <1>4, <2>1, <2>2 DEF Closes
<1>7. ASSUME NEW m \in LoopMarks, MarkLoop(m) PROVE Settled' /\ Adds
  <2>1. Marks(m) /\ used' = used /\ Top > 0
    BY <1>0, <1>7, MarkForm DEF MarkLoop
  <2>. QED
    BY <1>4, <2>1 DEF Marks
<1>8. ASSUME NEW e \in FieldEnum, RefField(e) PROVE Settled' /\ Adds
  <2>1. e \in Enum /\ Top \in 1 .. Top
    BY <1>0, <1>1, <1>8 DEF RefField
  <2>2. Target(e, Top) \in 1 .. Top /\ NameFrom(e, Top) \in Name
    BY <1>0, <2>1, TargetType, NameFromType
  <2>3. CASE HasDef(e, Top)
    BY <1>2, <1>8, <2>3 DEF RefField
  <2>4. CASE ~HasDef(e, Top)
    <3>1. \/ e \in SizeEnum
          \/ e \notin ExistsEnum /\ NameFrom(e, Top) = FreshName(e, used)
      BY <1>0, <2>1, <2>4, SettledHasDef DEF SizesApart, NameFrom
    <3>. QED
      BY <1>0, <1>8, <2>1, <2>2, <2>4, <3>1, AddDefSettles DEF RefField
  <2>. QED
    BY <2>3, <2>4
<1>9. ASSUME NEW e \in SizeEnum, RefListSize(e) PROVE Settled' /\ Adds
  <2>1. e \in Enum /\ Top \in 1 .. Top
    BY <1>0, <1>1, <1>9 DEF RefListSize
  <2>2. Target(e, Top) \in 1 .. Top /\ NameFrom(e, Top) \in Name
    BY <1>0, <2>1, TargetType, NameFromType
  <2>. QED
    BY <1>0, <1>9, <2>1, <2>2, AddDefSettles DEF RefListSize
<1>10. ASSUME NEW e \in CommonEnum, RefCommon(e) PROVE Settled' /\ Adds
  <2> DEFINE d == PrepareOf(Top) - 1
  <2>1. e \in Enum /\ Top \in 1 .. Top /\ Top > 0
    BY <1>0, <1>1, <1>10 DEF RefCommon
  <2>2. d \in 1 .. Top
    <3>1. PrepareOf(Top) \in 1 .. Top /\ stack[PrepareOf(Top)].kind = "loop"
      BY <1>0, <1>10, <2>1, PrepareOfType DEF RefCommon, InCommonInfoBody, Shape
    <3>. QED
      BY <1>0, <3>1 DEF Shape
  <2>3. Target(e, d) \in 1 .. Top /\ NameFrom(e, Top) \in Name
    BY <1>0, <2>1, <2>2, TargetType, NameFromType
  <2>4. CASE HasDef(e, d)
    BY <1>2, <1>10, <2>4 DEF RefCommon
  <2>5. CASE ~HasDef(e, d)
    <3>1. e \in SizeEnum \/ e \notin ExistsEnum
      BY DEF SizesApart
    <3>2. e \in SizeEnum \/ NameFrom(e, Top) = FreshName(e, used)
      <4>1. e \in SizeEnum \/ Find(e, d) = 0
        BY <1>0, <2>1, <2>2, <2>5, <3>1, SettledHasDef
      <4>2. e \in SizeEnum \/ Find(e, Top) = 0
        BY <1>10, <2>1, <3>1, <4>1, CommonInLoop DEF RefCommon
      <4>. QED
        BY <4>2 DEF NameFrom
    <3>3. AddDef(e, Target(e, d), NameFrom(e, Top))
      BY <1>10, <2>5 DEF RefCommon
    <3>. HIDE DEF d
    <3>. QED
      BY <1>0, <2>1, <2>3, <3>1, <3>2, <3>3, AddDefSettles
  <2>. QED
    BY <2>4, <2>5
<1>11. ASSUME NEW e \in FieldEnum, NEW v \in SourceVar, DeclareField(v, e)
       PROVE  Settled' /\ Adds
  <2>1. e \in Enum /\ Top \in 1 .. Top
    BY <1>0, <1>11 DEF DeclareField, InStatements
  <2>2. Target(e, Top) \in 1 .. Top
    BY <1>0, <2>1, TargetType
  <2>3. CASE HasDef(e, Top)
    <3>1. stack' = stack /\ used \subseteq used'
      BY <1>11, <2>3 DEF DeclareField
    <3>. QED
      BY <1>2, <3>1
  <2>4. CASE ~HasDef(e, Top)
    <3>1. e \in SizeEnum \/ (e \notin ExistsEnum /\ Find(e, Top) = 0)
      BY <1>0, <2>1, <2>4, SettledHasDef DEF SizesApart
    <3>2. Find(e, Top) = 0 => Find(e, Target(e, Top)) = 0
      <4>1. ASSUME Find(e, Top) = 0, Find(e, Target(e, Top)) # 0 PROVE FALSE
        <5>1. PICK k \in 1 .. Top : e \in stack[k].keys
          BY <1>0, <2>1, <2>2, <4>1, FoundDef
        <5>. QED
          BY <1>0, <2>1, <4>1, <5>1, FindNone
      <4>. QED
        BY <4>1
    <3>. QED
      BY <1>0, <1>11, <2>1, <2>2, <2>4, <3>1, <3>2, AddNamedDefSettles
         DEF DeclareField
  <2>. QED
    BY <2>3, <2>4
<1>12. ASSUME NEW e \in ExistsEnum, CheckAction(e) PROVE Settled' /\ Adds
  <2> DEFINE t == IF InIntListLoop(Top) THEN Top ELSE Target(e, Top)
  <2>1. e \in Enum /\ Top \in 1 .. Top /\ Top > 0 /\ Here.marks \subseteq {"action"}
    BY <1>0, <1>12 DEF CheckAction
  <2>2. t \in 1 .. Top
    BY <1>0, <2>1, TargetType
  <2>3. AddExists([stack EXCEPT ![Top].marks = {"action"}], e, t)
    BY <1>12 DEF CheckAction
  <2>. HIDE DEF t
  <2>. QED
    BY <1>0, <2>1, <2>2, <2>3, AddExistsSettles
<1>13. ASSUME NEW v \in SourceVar, DeclareVar(v) PROVE Settled' /\ Adds
  <2>1. stack' = stack /\ used \subseteq used'
    BY <1>13 DEF DeclareVar
  <2>. QED
    BY <1>2, <2>1
<1>14. CASE Finish
  <2>1. Len(stack') = 0 /\ used' = used
    BY <1>14 DEF Finish
  <2>. QED
    BY <1>0, <2>1, KeptSettles
<1>15. CASE UNCHANGED envVars
  BY <1>2, <1>15 DEF envVars
<1>. QED
  BY <1>3, <1>5, <1>6, <1>7, <1>8, <1>9, <1>10, <1>11, <1>12, <1>13, <1>14,
     <1>15 DEF Next

(* The scopes, the loops and the definitions, together.                      *)
EnvInv == IInv /\ LoopInv /\ Settled

LEMMA EnvInit ==
  ASSUME Init
  PROVE  EnvInv
<1>1. IInv /\ LoopInv
  BY InitOK, InitLoops
<1>2. Top = 1 /\ stack[1].keys = {}
  BY DEF Init, NewFrame, Top
<1>3. \A k \in 1 .. Top : k = 1
  BY <1>2
<1>. QED
  BY <1>1, <1>2, <1>3 DEF EnvInv, Settled

LEMMA EnvNext ==
  ASSUME SizesApart, EnvInv, [Next]_envVars
  PROVE  EnvInv' /\ Adds
BY NextOK, NextKeepsLoops, NextSettles DEF EnvInv
-----------------------------------------------------------------------------
(* What a read finds afterwards.                                             *)
Sees(e) ==
  LET k == Find(e, Top)'
  IN /\ k \in 1 .. Len(stack') /\ e \in stack'[k].keys
     /\ NameFrom(e, Top)' = stack'[k].defs[e].name
     /\ stack'[k].defs[e] \in Def

LEMMA SeenAfter ==
  ASSUME TypeOK', NEW e \in Enum, \E j \in 1 .. Len(stack') : e \in stack'[j].keys
  PROVE  Sees(e)
<1>1. Len(stack') \in Nat
  BY DEF TypeOK
<1> DEFINE S == {j \in 1 .. Len(stack') : e \in stack'[j].keys}
           k == Innermost(S)
<1>2. Find(e, Top)' = k
  BY DEF Find, Top
<1>3. k \in S
  <2>1. S \in SUBSET (1 .. Len(stack')) /\ S # {}
    OBVIOUS
  <2>. HIDE DEF S
  <2>. QED
    BY <1>1, <2>1, InnermostType
<1>. HIDE DEF k
<1>4. k \in 1 .. Len(stack') /\ e \in stack'[k].keys /\ k # 0
  BY <1>3
<1>5. stack'[k] \in Frame
  BY <1>4, ElementOfSeq DEF TypeOK
<1>6. stack'[k].defs[e] \in Def
  BY <1>5 DEF Frame
<1>7. NameFrom(e, Top)' = stack'[k].defs[e].name
  BY <1>2, <1>4 DEF NameFrom
<1>. QED
  BY <1>2, <1>4, <1>6, <1>7 DEF Sees

(* Whatever is read is visible when it has been read.                        *)
LEMMA ReadSees ==
  ASSUME EnvInv, IInv', NEW e \in Enum,
         RefField(e) \/ RefListSize(e) \/ RefCommon(e)
         \/ \E v \in SourceVar : DeclareField(v, e)
  PROVE  Sees(e) /\ Len(stack') = Top
<1>0. /\ TypeOK /\ Shape /\ Top \in Nat /\ Top = Len(stack) /\ TypeOK'
      /\ Top \in 1 .. Top /\ Top > 0
  BY DEF EnvInv, IInv, TypeOK, Top, RefField, RefListSize, RefCommon,
         DeclareField, InExpression, InStatements
<1>1. ASSUME NEW d \in 1 .. Top, HasDef(e, d), stack' = stack
      PROVE  Sees(e) /\ Len(stack') = Top
  <2>1. Find(e, d) \in 1 .. Top /\ e \in stack[Find(e, d)].keys
    BY <1>0, <1>1, FoundDef DEF HasDef
  <2>. QED
    BY <1>0, <1>1, <2>1, SeenAfter
<1>2. ASSUME NEW k \in 1 .. Top, NEW d, Registers(k, e, d)
      PROVE  Sees(e) /\ Len(stack') = Top
  <2>1. Len(stack') = Top /\ e \in stack'[k].keys
    BY <1>0, <1>2 DEF Registers
  <2>. QED
    BY <1>0, <2>1, SeenAfter
<1>3. ASSUME NEW t \in 1 .. Top, NEW x \in Name, AddDef(e, t, x)
      PROVE  Sees(e) /\ Len(stack') = Top
  <2>1. CASE Find(e, t) = 0
    BY <1>0, <1>2, <1>3, <2>1, AddDefForm
  <2>2. CASE Find(e, t) # 0
    <3>1. Find(e, t) \in 1 .. Top /\ e \in stack[Find(e, t)].keys
      BY <1>0, <2>2, FoundDef
    <3>2. stack' = stack \/ \E d : Registers(Find(e, t), e, d)
      BY <1>0, <1>3, <2>2, AddDefForm
    <3>3. ASSUME stack' = stack PROVE Sees(e) /\ Len(stack') = Top
      <4>1. Len(stack') = Top /\ \E j \in 1 .. Len(stack') : e \in stack'[j].keys
        BY ONLY <1>0, <3>1, <3>3
      <4>. QED
        BY ONLY <1>0, e \in Enum, <4>1, SeenAfter
    <3>4. ASSUME NEW d, Registers(Find(e, t), e, d) PROVE Sees(e) /\ Len(stack') = Top
      BY <1>2, <3>1, <3>4
    <3>. QED
      BY <3>2, <3>3, <3>4
  <2>. QED
    BY <2>1, <2>2
<1>4. ASSUME NEW t \in 1 .. Top, NEW v \in SourceVar, AddNamedDef(e, t, v)
      PROVE  Sees(e) /\ Len(stack') = Top
  <2>1. CASE Find(e, t) = 0
    <3>1. \E d : Registers(t, e, d)
      BY <1>0, <1>4, <2>1, AddNamedDefForm
    <3>. QED
      BY ONLY <1>2, <3>1, t \in 1 .. Top
  <2>2. CASE Find(e, t) # 0
    <3>1. Find(e, t) \in 1 .. Top
      BY <1>0, <2>2, FoundDef
    <3>2. \E d : Registers(Find(e, t), e, d)
      BY <1>0, <1>4, <2>2, AddNamedDefForm
    <3>. QED
      BY <1>2, <3>1, <3>2
  <2>. QED
    BY <2>1, <2>2
<1>5. Target(e, Top) \in 1 .. Top /\ NameFrom(e, Top) \in Name
  BY <1>0, TargetType, NameFromType DEF EnvInv
<1>6. CASE RefField(e)
  BY <1>0, <1>1, <1>3, <1>5, <1>6 DEF RefField
<1>7. CASE RefListSize(e)
  BY <1>3, <1>5, <1>7 DEF RefListSize
<1>8. CASE RefCommon(e)
  <2>1. PrepareOf(Top) \in 1 .. Top /\ stack[PrepareOf(Top)].kind = "loop"
    BY <1>0, <1>8, PrepareOfType DEF RefCommon, InCommonInfoBody, Shape
  <2> DEFINE d == PrepareOf(Top) - 1
  <2>2. d \in 1 .. Top
    BY <1>0, <2>1 DEF Shape
  <2>3. Target(e, d) \in 1 .. Top
    BY <1>0, <2>2, TargetType
  <2>4. \/ HasDef(e, d) /\ stack' = stack
        \/ AddDef(e, Target(e, d), NameFrom(e, Top))
    BY <1>8 DEF RefCommon
  <2>. HIDE DEF d
  <2>. QED
    BY <1>1, <1>3, <1>5, <2>2, <2>3, <2>4
<1>9. ASSUME NEW v \in SourceVar, DeclareField(v, e)
      PROVE  Sees(e) /\ Len(stack') = Top
  BY <1>0, <1>1, <1>4, <1>5, <1>9 DEF DeclareField
<1>. QED
  BY <1>6, <1>7, <1>8, <1>9

(* A test keeps the scopes.                                                  *)
LEMMA TestKeepsTop ==
  ASSUME EnvInv, NEW e \in ExistsEnum, CheckAction(e)
  PROVE  Top > 0 /\ Len(stack') = Top
<1>0. TypeOK /\ Shape /\ Top \in Nat /\ Top = Len(stack) /\ e \in Enum
  BY ScopeAssumption DEF EnvInv, IInv, TypeOK, Top
<1> DEFINE t == IF InIntListLoop(Top) THEN Top ELSE Target(e, Top)
<1>1. Top \in 1 .. Top /\ Top > 0 /\ Here.marks \subseteq {"action"}
  BY <1>0 DEF CheckAction
<1>2. t \in 1 .. Top
  BY <1>0, <1>1, TargetType
<1>3. AddExists([stack EXCEPT ![Top].marks = {"action"}], e, t)
  BY DEF CheckAction
<1>. HIDE DEF t
<1>4. Places(e, t)
  BY <1>0, <1>1, <1>2, <1>3, AddExistsPlaces
<1>. QED
  BY <1>0, <1>1, <1>4 DEF Places, Registers
=============================================================================
