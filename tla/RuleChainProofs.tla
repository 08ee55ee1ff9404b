--------------------------- MODULE RuleChainProofs ---------------------------
(***************************************************************************)
(* Theorems about RuleChain, for every set of variables and every method:    *)
(* however its nodes are put together, what the rules write of it has        *)
(* nothing of adlog left, reads all that the source reads, holds as C++ and  *)
(* is written once, but for the forms that the properties name.              *)
(*                                                                         *)
(* A node is marked with the forms it has and they are marks of all that is  *)
(* made of it, so the invariant says of each node, by itself, that what is   *)
(* wrong with it is marked.  That is no invariant alone: a later rule takes  *)
(* another text of the node than the one the rewriter holds (its field, its  *)
(* index, its source), and the invariant says what is in each of them.       *)
(***************************************************************************)
EXTENDS RuleChain, SequenceTheorems, TLAPS

(* The finite sets that texts and nodes are made over.                     *)
Types == {"string", "view", "chars", "other", "dot"}
Shapes == {"field", "enum", "chars", "var", "number", "concat", "choice", "plus", "call",
           "stmt", "block", "test", "if", "loop", "none"}
Rules == {"General", "SeqList", "Str", "ActionDetail", "HashFn", "ProtoList",
          "QueryToken", "MiddleNode", "DoubleList"}
TestKinds == {"seqList", "itemPos", "action", "fixedAction"}

(* Every form that a node can be marked with.                              *)
Forms == {"AssignedCall", "AssignedChars", "Braceless", "CallOfString", "ChoiceValue",
          "ConcatRead", "ElseGone", "ElseIf", "EnumText", "FixedTest", "HashName",
          "HashOfText", "Index", "PartsOfText", "PointerSize", "Reassigned", "Receiver",
          "SeqListLoop", "SizedVector", "TestBeside", "ThreeLists", "TwoTests"}

(* Texts, nodes, and what is known of a variable.                          *)
Texts == [raw : SUBSET Nat, out : SUBSET Nat, type : Types, atom : BOOLEAN]
Nodes == [shape : Shapes, src : Texts, now : Texts, from : BOOLEAN, field : Texts,
          at : Texts, seen : SUBSET Rules, twice : BOOLEAN, own : {"none", "self", "parts"},
          inner : BOOLEAN, low : BOOLEAN, ill : BOOLEAN, torn : BOOLEAN,
          tests : SUBSET (TestKinds \X Item), lists : SUBSET Nat, decls : SUBSET Vars,
          forms : SUBSET Forms]
Known == [from : BOOLEAN, field : Texts, items : SUBSET Nat, type : Types,
          op : BOOLEAN, assigned : BOOLEAN]

(* The forms that the properties of RuleChain except: source text put      *)
(* back, something lost, a text that does not hold, a second read, a       *)
(* second edit.                                                            *)
Raws == {"AssignedCall", "Receiver", "Index", "SizedVector", "SeqListLoop"}
Losses == {"ConcatRead", "Receiver", "Braceless", "ElseGone", "TestBeside", "FixedTest"}
Ills == {"AssignedChars", "Reassigned", "ChoiceValue", "CallOfString",
         "PartsOfText", "PointerSize", "HashName", "Braceless"}
Rereading == {"EnumText", "HashOfText", "Braceless"}
Tearing == {"TwoTests", "ThreeLists", "ElseIf"}

(* An expression is read inside a replaced text only in a form that says   *)
(* so, and a string one that a second visit would read has such a form     *)
(* already.                                                                *)
Guarded(n) ==
  n.shape \in Expression =>
    /\ Rereads(n) => Has(n, Rereading)
    /\ IsString(n.src) /\ Reads(n) => Has(n, Rereading)

(* What was replaced as a whole is edited again only in a form that says   *)
(* so. An expression tests nothing; a condition is of one kind, or of two  *)
(* and marked.                                                             *)
Whole(n) ==
  /\ n.torn => Has(n, Tearing)
  /\ n.shape \in Expression => n.tests = {} /\ n.lists = {}
  /\ n.shape = "test" =>
       \/ "TwoTests" \in n.forms
       \/ \A s, t \in n.tests : s[1] = t[1]

(* A text that does not hold is marked. A string node is of a shape that   *)
(* StrRule knows: what it takes of it as an operand is a std::string (of a *)
(* literal, chars), and where the text is still a view, the node is a      *)
(* field or a variable that comes from adlog, which StrRule wraps.         *)
Sound(n) ==
  /\ n.ill => Has(n, Ills)
  /\ IsStringNode(n) =>
       /\ n.shape \in {"field", "var", "chars", "call", "choice", "concat"}
       /\ n.shape = "choice" => Has(n, Ills)
       /\ n.shape \in {"field", "var", "call"} => Wraps(n.now) /\ Wraps(n.field)
       /\ n.from => n.shape \in {"field", "var", "concat"} /\ Wraps(n.field)
       /\ n.shape = "field" => n.from
       /\ n.shape = "var" /\ ~n.from => n.src.type = "string"
       /\ \/ Operand(n).type = (IF n.src.type = "chars" THEN "chars" ELSE "string")
          \/ Has(n, Ills)
       /\ n.now.type = "view" => Has(n, Ills) \/ (n.from /\ n.shape \in {"field", "var"})

(* The items that the tests of actions leave to the if around them.        *)
Waits(n) == { t[2] : t \in { u \in n.tests : u[1] \in {"action", "fixedAction"} } }

(* What is not converted waits for its if or is marked, and so is every    *)
(* node that declares a common info vector. The text that a later rule     *)
(* takes instead of the node (field, at) is converted where the node is a  *)
(* field, a variable or a literal.                                         *)
Converted(n) ==
  /\ n.now.raw \subseteq Waits(n) \/ Has(n, Raws)
  /\ n.lists # {} => "SizedVector" \in n.forms
  /\ IsStringNode(n) /\ n.from => n.field.raw = {}
  /\ n.shape \in {"field", "var", "chars"} => n.field.raw = {}
  /\ n.shape \in {"field", "enum"} => n.at.raw = {}
  /\ n.shape = "var" => n.src.raw = {}

(* The text has all that the source reads but the tests of positions, or   *)
(* is marked; so have the texts of field and at. A test that stands alone  *)
(* is its item.                                                            *)
Complete(n) ==
  /\ Items(n) = Of(n.now) \union Superseded(n) \/ Has(n, Losses)
  /\ \A t \in n.tests : t[2] \in Items(n)
  /\ IsStringNode(n) =>
       \/ Of(n.field) = Items(n)
       \/ n.from /\ (n.shape = "concat" \/ "ConcatRead" \in n.forms)
  /\ IsNumberNode(n) => Of(n.field) = Items(n) /\ Of(n.at) = Items(n)
  /\ n.shape = "test" =>
       \/ "TestBeside" \in n.forms
       \/ \E u \in n.tests : n.tests = {u} /\ Items(n) = {u[2]}

(* The node is made of items that exist. An expression has none that a     *)
(* lambda stands for; those of a node are among its items, with their      *)
(* source.                                                                 *)
Placed(n) ==
  /\ Items(n) \subseteq 1 .. next - 1
  /\ n.shape \in Expression => Items(n) \intersect DOMAIN stored = {}
  /\ \A i \in n.lists : /\ i \in DOMAIN stored \intersect Items(n)
                        /\ stored[i] \subseteq Items(n)

(* The type invariant. What the lambdas stand for is made of older items   *)
(* that no lambda stands for.                                              *)
TypeInv ==
  /\ work \in Seq(Nodes) /\ next \in 1 .. MaxItems + 1
  /\ DOMAIN var \subseteq Vars /\ \A v \in DOMAIN var : var[v] \in Known
  /\ DOMAIN stored \subseteq 1 .. next - 1
  /\ \A i \in DOMAIN stored : stored[i] \subseteq (1 .. next - 1) \ DOMAIN stored

(* What a variable is known by is of older items that are no lambda, has   *)
(* the type that the text of its declaration has, and is converted if it   *)
(* comes from adlog.                                                       *)
VarsKnown ==
  \A v \in DOMAIN var :
    /\ var[v].items \subseteq (1 .. next - 1) \ DOMAIN stored
    /\ var[v].type \in {"view", "string"}
    /\ ~var[v].from => var[v].type = "string"
    /\ var[v].from => /\ Wraps(var[v].field) /\ var[v].field.raw = {}
                      /\ var[v].op \/ Of(var[v].field) = var[v].items

(* All that has to hold of a node by itself.                               *)
Good(n) == Guarded(n) /\ Whole(n) /\ Sound(n) /\ Converted(n) /\ Complete(n)

(* The nodes on the stack are good and lie among the items made so far.    *)
NodeInv == \A k \in 1 .. Len(work) : Good(work[k]) /\ Placed(work[k])

(* The inductive invariant of the visit.                                   *)
IInv == TypeInv /\ VarsKnown /\ NodeInv /\ RereadsGuarded

-----------------------------------------------------------------------------

(* A text is what it is made of.                                           *)
LEMMA TextIs ==
  ASSUME NEW raw \in SUBSET Nat, NEW out \in SUBSET Nat, NEW type \in Types,
         NEW atom \in BOOLEAN, NEW t, t = Text(raw, out, type, atom)
  PROVE  t \in Texts /\ t.raw = raw /\ t.out = out /\ t.type = type /\ (t.atom <=> atom)
BY DEF Text, Texts

(* Two texts in one: what has to be converted in either, and no type.      *)
LEMMA BothIs ==
  ASSUME NEW s \in Texts, NEW u \in Texts, NEW t, t = Both(s, u)
  PROVE  /\ t \in Texts /\ t.raw = s.raw \union u.raw /\ t.out = s.out \union u.out
         /\ t.type = "other" /\ ~t.atom
<1>. PICK raw : raw = s.raw \union u.raw
  OBVIOUS
<1>. PICK out : out = s.out \union u.out
  OBVIOUS
<1>1. raw \in SUBSET Nat /\ out \in SUBSET Nat
  BY DEF Texts
<1>2. t = Text(raw, out, "other", FALSE)
  BY DEF Both
<1>. QED
  BY ONLY <1>1, <1>2, raw = s.raw \union u.raw, out = s.out \union u.out
     DEF Text, Texts, Types

(* The nodes are the same but for the text, what became of it and the      *)
(* marks.                                                                  *)
Keeps(m, n) ==
  /\ m.shape = n.shape /\ m.src = n.src /\ (m.from <=> n.from) /\ m.field = n.field
  /\ m.at = n.at /\ m.own = n.own /\ (m.inner <=> n.inner) /\ (m.low <=> n.low)
  /\ m.tests = n.tests /\ m.lists = n.lists

(* A new node has nothing replaced, tested, declared or marked.            *)
LEMMA NodeIs ==
  ASSUME NEW shape \in Shapes, NEW src \in Texts, NEW now \in Texts,
         NEW n, n = Node(shape, src, now)
  PROVE  /\ n \in Nodes /\ n.shape = shape /\ n.src = src /\ n.now = now /\ ~n.from
         /\ n.field = src /\ n.at = src /\ n.own = "none" /\ ~n.inner
         /\ ~n.low /\ ~n.ill /\ ~n.torn /\ n.seen = {}
         /\ n.tests = {} /\ n.lists = {} /\ n.forms = {}
<1>. PICK empty : empty = {}
  OBVIOUS
<1>1. /\ empty \in SUBSET Rules /\ empty \in SUBSET Forms /\ empty \in SUBSET Vars /\ empty \in SUBSET Nat
      /\ empty \in SUBSET (TestKinds \X Item)
  OBVIOUS
<1>2. n \in Nodes
  <2>1. n = [ shape |-> shape, src |-> src, now |-> now, from |-> FALSE, field |-> src,
              at |-> src, seen |-> empty, twice |-> FALSE, own |-> "none",
              inner |-> FALSE, low |-> FALSE, ill |-> FALSE, torn |-> FALSE,
              tests |-> empty, lists |-> empty, decls |-> empty, forms |-> empty ]
    BY empty = {} DEF Node
  <2>. QED
    BY ONLY <1>1, <2>1, shape \in Shapes, src \in Texts, now \in Texts DEF Nodes
<1>3. /\ n.shape = shape /\ n.src = src /\ n.now = now /\ n.field = src /\ n.at = src
      /\ n.own = "none" /\ n.seen = {} /\ n.tests = {} /\ n.lists = {} /\ n.forms = {}
  BY DEF Node
<1>4. ~n.from /\ ~n.inner /\ ~n.low /\ ~n.ill /\ ~n.torn
  BY DEF Node
<1>. QED
  BY <1>2, <1>3, <1>4

(* A rule replaces a node once.                                            *)
LEMMA ReplaceIs ==
  ASSUME NEW n \in Nodes, NEW rule \in Rules, NEW t \in Texts,
         NEW m, m = Replace(n, rule, t)
  PROVE  /\ m \in Nodes /\ Keeps(m, n)
         /\ (m.ill <=> n.ill) /\ (m.torn <=> n.torn) /\ m.forms = n.forms
         /\ rule \notin n.seen => m.now = t /\ m.seen = n.seen \union {rule}
         /\ rule \in n.seen => m = n
BY DEF Replace, Nodes, Keeps

(* Reading the parts of a node tears it if it was replaced.                *)
LEMMA TearIs ==
  ASSUME NEW n \in Nodes, NEW m, m = Tear(n)
  PROVE  /\ m \in Nodes /\ Keeps(m, n) /\ m.now = n.now /\ m.seen = n.seen
         /\ (m.ill <=> n.ill) /\ m.forms = n.forms /\ (m.torn <=> (n.torn \/ n.seen # {}))
BY DEF Tear, Nodes, Keeps

(* A text that fails is the same text.                                     *)
LEMMA FailIs ==
  ASSUME NEW n \in Nodes, NEW bad \in BOOLEAN, NEW m, m = Fail(n, bad)
  PROVE  /\ m \in Nodes /\ Keeps(m, n) /\ m.now = n.now /\ m.seen = n.seen
         /\ (m.torn <=> n.torn) /\ m.forms = n.forms /\ (m.ill <=> (n.ill \/ bad))
BY DEF Fail, Nodes, Keeps

(* A mark is added and nothing else.                                       *)
LEMMA IsIs ==
  ASSUME NEW n \in Nodes, NEW fs \in SUBSET Forms, NEW m, m = Is(n, fs)
  PROVE  /\ m \in Nodes /\ Keeps(m, n) /\ m.now = n.now /\ m.seen = n.seen
         /\ (m.torn <=> n.torn) /\ (m.ill <=> n.ill) /\ m.forms = n.forms \union fs
BY DEF Is, Nodes, Keeps

(* A node has of its parts what they read, what is wrong with them, what   *)
(* they test and declare, and their marks.                                 *)
LEMMA OverIs ==
  ASSUME NEW shape \in Shapes, NEW src \in Texts, NEW now \in Texts,
         NEW ps \in SUBSET Nodes, NEW n, n = Over(shape, src, now, ps)
  PROVE  /\ n \in Nodes /\ n.shape = shape /\ n.src = src /\ n.now = now /\ ~n.from
         /\ n.field = src /\ n.at = src /\ n.own = "none" /\ n.seen = {}
         /\ (n.inner <=> (\E p \in ps : Reads(p))) /\ (n.low <=> (\E p \in ps : Rereads(p)))
         /\ (n.ill <=> (\E p \in ps : p.ill)) /\ (n.torn <=> (\E p \in ps : p.torn))
         /\ n.tests = UNION { p.tests : p \in ps } /\ n.lists = UNION { p.lists : p \in ps }
         /\ n.forms = UNION { p.forms : p \in ps }
<1>. PICK b : b = Node(shape, src, now)
  OBVIOUS
<1>1. b \in Nodes /\ b.shape = shape /\ b.src = src /\ b.now = now /\ ~b.from
      /\ b.field = src /\ b.at = src /\ b.own = "none" /\ b.seen = {}
  BY NodeIs
<1>. PICK tests : tests = UNION { p.tests : p \in ps }
  OBVIOUS
<1>. PICK lists : lists = UNION { p.lists : p \in ps }
  OBVIOUS
<1>. PICK decls : decls = UNION { p.decls : p \in ps }
  OBVIOUS
<1>. PICK forms : forms = UNION { p.forms : p \in ps }
  OBVIOUS
<1>. PICK inner \in BOOLEAN : inner <=> \E p \in ps : Reads(p)
  OBVIOUS
<1>. PICK low \in BOOLEAN : low <=> \E p \in ps : Rereads(p)
  OBVIOUS
<1>. PICK ill \in BOOLEAN : ill <=> \E p \in ps : p.ill
  OBVIOUS
<1>. PICK torn \in BOOLEAN : torn <=> \E p \in ps : p.torn
  OBVIOUS
<1>. PICK twice \in BOOLEAN : twice <=> \E p \in ps : p.twice
  OBVIOUS
<1>2. n = [ b EXCEPT
      !.inner = inner, !.low = low, !.ill = ill, !.torn = torn, !.twice = twice,
      !.tests = tests, !.lists = lists, !.decls = decls, !.forms = forms ]
  BY Zenon DEF Over
<1>3. /\ tests \in SUBSET (TestKinds \X Item) /\ lists \in SUBSET Nat
      /\ decls \in SUBSET Vars /\ forms \in SUBSET Forms
  BY DEF Nodes
<1>. PICK c : c = [ b EXCEPT !.inner = inner, !.low = low, !.ill = ill, !.torn = torn,
                             !.twice = twice ]
  OBVIOUS
<1>4. n = [ c EXCEPT !.tests = tests, !.lists = lists, !.decls = decls, !.forms = forms ]
  BY <1>2
<1>5. /\ c \in Nodes /\ c.shape = shape /\ c.src = src /\ c.now = now /\ ~c.from
      /\ c.field = src /\ c.at = src /\ c.own = "none" /\ c.seen = {}
      /\ (c.inner <=> inner) /\ (c.low <=> low) /\ (c.ill <=> ill) /\ (c.torn <=> torn)
  BY ONLY <1>1, inner \in BOOLEAN, low \in BOOLEAN, ill \in BOOLEAN, torn \in BOOLEAN,
     twice \in BOOLEAN, c = [ b EXCEPT !.inner = inner, !.low = low, !.ill = ill,
                              !.torn = torn, !.twice = twice ] DEF Nodes
<1>6. /\ n \in Nodes /\ n.shape = shape /\ n.src = src /\ n.now = now /\ ~n.from
      /\ n.field = src /\ n.at = src /\ n.own = "none" /\ n.seen = {}
      /\ (n.inner <=> inner) /\ (n.low <=> low) /\ (n.ill <=> ill) /\ (n.torn <=> torn)
      /\ n.tests = tests /\ n.lists = lists /\ n.forms = forms
  BY ONLY <1>3, <1>4, <1>5 DEF Nodes
<1>. QED
  BY <1>6

-----------------------------------------------------------------------------
(* What is on the stack, and what a new node on top of it has to be.        *)

(* A step numbers new items and changes no lambda that is stored.          *)
Extends ==
  /\ next' \in next .. MaxItems + 1
  /\ DOMAIN stored' \intersect (1 .. next - 1) = DOMAIN stored
  /\ \A i \in DOMAIN stored : stored'[i] = stored[i]

(* A node on the stack is good.                                            *)
LEMMA PoppedIs ==
  ASSUME TypeInv, NodeInv, NEW k \in Nat, k < Depth, NEW n, n = Popped(k)
  PROVE  n \in Nodes /\ Good(n) /\ Placed(n)
<1>1. Depth \in Nat /\ Depth - k \in 1 .. Len(work)
  BY DEF TypeInv, Depth
<1>. QED
  BY <1>1 DEF TypeInv, NodeInv, Popped

(* Intervals that grow at the end, and that start later.                   *)
LEMMA Below ==
  ASSUME NEW a \in Nat, NEW b \in Nat, a <= b
  PROVE  \A i : i \in 1 .. a - 1 => i \in 1 .. b - 1
OBVIOUS

(* A later part of an interval lies in it.                                 *)
LEMMA Above ==
  ASSUME NEW a \in Nat, NEW b \in Nat, a >= 1
  PROVE  \A i : i \in a .. b - 1 => i \in 1 .. b - 1
OBVIOUS

(* Where a node lies is not changed by what comes after it.                *)
LEMMA PlacedStays ==
  ASSUME TypeInv, Extends, NEW n \in Nodes, Placed(n)
  PROVE  Placed(n)'
<1>1. next \in Nat /\ next' \in Nat /\ next <= next'
  BY RuleChainAssumption DEF TypeInv, Extends
<1>2. \A i : i \in 1 .. next - 1 => i \in 1 .. next' - 1
  BY <1>1, Below
<1>3. Items(n) \subseteq 1 .. next - 1
  BY DEF Placed
<1>4. Items(n) \subseteq 1 .. next' - 1
  BY <1>2, <1>3
<1>5. n.shape \in Expression => Items(n) \intersect DOMAIN stored' = {}
  BY <1>3 DEF Placed, Extends
<1>6. ASSUME NEW i \in n.lists
      PROVE  i \in DOMAIN stored' \intersect Items(n) /\ stored'[i] \subseteq Items(n)
  BY DEF Placed, Extends
<1>. QED
  BY <1>4, <1>5, <1>6 DEF Placed

(* A good node in the place of the topmost k keeps the invariant of the    *)
(* stack; a new read inside a replaced text is marked in it, and no mark   *)
(* is lost.                                                                *)
LEMMA Grown ==
  ASSUME TypeInv, NodeInv, RereadsGuarded, Extends, NEW k \in 0 .. Depth,
         NEW m \in Nodes, Good(m), Placed(m)', work' = Append(SubSeq(work, 1, Depth - k), m),
         \A j \in 0 .. k - 1 : Popped(j).forms \subseteq m.forms,
         \A r \in stale' : r \in stale \/ r[1] = "lambda" \/ Has(m, Rereading)
  PROVE  work' \in Seq(Nodes) /\ NodeInv' /\ RereadsGuarded'
<1>1. Depth \in Nat /\ k \in Nat /\ Depth - k \in 0 .. Depth /\ work \in Seq(Nodes)
  BY DEF TypeInv, Depth
<1>. PICK d : d = Depth - k
  OBVIOUS
<1>. PICK rest : rest = SubSeq(work, 1, d)
  OBVIOUS
<1>2. rest \in Seq(Nodes) /\ Len(rest) = d /\ \A j \in 1 .. d : rest[j] = work[j]
  BY <1>1, SubSeqProperties DEF Depth
<1>3. /\ work' \in Seq(Nodes) /\ Len(work') = d + 1 /\ work'[d + 1] = m
      /\ \A j \in 1 .. d : work'[j] = work[j]
  BY <1>1, <1>2, AppendProperties
<1>4. NodeInv'
  <2>1. ASSUME NEW j \in 1 .. Len(work') PROVE (Good(work[j]) /\ Placed(work[j]))'
    <3>1. CASE j = d + 1
      <4>1. work'[j] = m
        BY <1>3, <3>1
      <4>2. Placed(work[j])'
        BY <4>1 DEF Placed
      <4>. QED
        BY <4>1, <4>2
    <3>2. CASE j # d + 1
      <4>1. j \in 1 .. d /\ j \in 1 .. Len(work)
        <5>1. j \in 1 .. d + 1 /\ d \in 0 .. Len(work) /\ Len(work) \in Nat
          BY <1>1, <1>3 DEF Depth
        <5>. QED
          BY <3>2, <5>1
      <4>. PICK n : n = work[j]
        OBVIOUS
      <4>2. n \in Nodes /\ Good(n) /\ Placed(n)
        BY <1>1, <4>1 DEF NodeInv
      <4>3. Placed(n)' /\ work'[j] = n
        BY <1>3, <4>1, <4>2, PlacedStays
      <4>4. Placed(work[j])'
        BY <4>3 DEF Placed
      <4>. QED
        BY <4>2, <4>3, <4>4
    <3>. QED
      BY <3>1, <3>2
  <2>. QED
    BY <2>1 DEF NodeInv
<1>5. RereadsGuarded'
  <2>0. /\ DOMAIN work = 1 .. Depth /\ DOMAIN work' = 1 .. d + 1
    BY <1>1, <1>3 DEF Depth
  <2>1. CASE Has(m, Rereading)
    <3>1. d + 1 \in DOMAIN work' /\ Has(work'[d + 1], Rereading)
      <4>1. d \in Nat /\ d + 1 \in 1 .. d + 1
        BY <1>1
      <4>. QED
        BY <1>3, <2>0, <2>1, <4>1
    <3>. QED
      BY <3>1 DEF RereadsGuarded, Rereading
  <2>2. CASE ~Has(m, Rereading)
    <3>1. CASE \A r \in stale : r[1] = "lambda"
      <4>1. \A r \in stale' : r[1] = "lambda"
        BY <2>2, <3>1
      <4>. QED
        BY <4>1 DEF RereadsGuarded
    <3>2. CASE \E i \in DOMAIN work : Has(work[i], Rereading)
      <4>1. PICK i \in 1 .. Depth : Has(work[i], Rereading)
        BY <2>0, <3>2
      <4>2. CASE i <= d
        <5>1. i \in DOMAIN work' /\ Has(work'[i], Rereading)
          BY <1>1, <1>3, <2>0, <4>1, <4>2
        <5>. QED
          BY <5>1 DEF RereadsGuarded, Rereading
      <4>3. CASE i > d
        <5>1. Depth - i \in 0 .. k - 1 /\ Depth - (Depth - i) = i
          BY <1>1, <4>1, <4>3
        <5>2. work[i].forms \subseteq m.forms
          BY <5>1 DEF Popped
        <5>. QED
          BY <2>2, <4>1, <5>2 DEF Has
      <4>. QED
        BY <1>1, <4>1, <4>2, <4>3
    <3>. QED
      BY <3>1, <3>2 DEF RereadsGuarded, Rereading
  <2>. QED
    BY <2>1, <2>2
<1>. QED
  BY <1>3, <1>4, <1>5

(* The variables that stay are known as before.                             *)
LEMMA VarsStay ==
  ASSUME TypeInv, VarsKnown, Extends,
         \A v \in DOMAIN var' : v \in DOMAIN var /\ var'[v] = var[v]
  PROVE  /\ VarsKnown' /\ DOMAIN var' \subseteq Vars
         /\ \A v \in DOMAIN var' : var'[v] \in Known
<1>1. next \in Nat /\ next' \in Nat /\ next <= next'
  BY RuleChainAssumption DEF TypeInv, Extends
<1>2. ASSUME NEW S, S \subseteq (1 .. next - 1) \ DOMAIN stored
      PROVE  S \subseteq (1 .. next' - 1) \ DOMAIN stored'
  <2>1. \A i : i \in 1 .. next - 1 => i \in 1 .. next' - 1
    BY <1>1, Below
  <2>. QED
    BY <2>1, <1>2 DEF Extends
<1>3. ASSUME NEW v \in DOMAIN var'
      PROVE  /\ var'[v].items \subseteq (1 .. next' - 1) \ DOMAIN stored'
             /\ var'[v].type \in {"view", "string"}
             /\ ~var'[v].from => var'[v].type = "string"
             /\ var'[v].from => /\ Wraps(var'[v].field) /\ var'[v].field.raw = {}
                                /\ var'[v].op \/ Of(var'[v].field) = var'[v].items
  <2>. PICK u : u = var[v]
    OBVIOUS
  <2>1. /\ u.items \subseteq (1 .. next - 1) \ DOMAIN stored
        /\ u.type \in {"view", "string"}
        /\ ~u.from => u.type = "string"
        /\ u.from => /\ Wraps(u.field) /\ u.field.raw = {}
                     /\ u.op \/ Of(u.field) = u.items
    BY DEF VarsKnown
  <2>2. u.items \subseteq (1 .. next' - 1) \ DOMAIN stored'
    BY <1>2, <2>1
  <2>. QED
    BY <2>1, <2>2
<1>. QED
  BY <1>3 DEF VarsKnown, TypeInv

-----------------------------------------------------------------------------
(* Texts and forms.                                                         *)

(* The names that the rules give are in their sets.                        *)
LEMMA NamesAre ==
  /\ {"string", "view", "chars", "other", "dot"} \subseteq Types
  /\ {"field", "enum", "chars", "var", "number", "concat", "choice", "plus", "call",
      "stmt", "block", "test", "if", "loop", "none"} \subseteq Shapes
  /\ {"General", "SeqList", "Str", "ActionDetail", "HashFn", "ProtoList", "QueryToken",
      "MiddleNode", "DoubleList"} \subseteq Rules
  /\ {"seqList", "itemPos", "action", "fixedAction"} \subseteq TestKinds
BY DEF Types, Shapes, Rules, TestKinds

(* A text of another type is the same text.                                *)
LEMMA RetypedIs ==
  ASSUME NEW t \in Texts, NEW type \in Types, NEW u, u = [ t EXCEPT !.type = type ]
  PROVE  u \in Texts /\ u.raw = t.raw /\ u.out = t.out /\ u.type = type /\ (u.atom <=> t.atom)
BY DEF Texts

(* So it is as one that can stand before .data().                          *)
LEMMA AtomIs ==
  ASSUME NEW t \in Texts, NEW type \in Types, NEW u,
         u = [ t EXCEPT !.type = type, !.atom = TRUE ]
  PROVE  u \in Texts /\ u.raw = t.raw /\ u.out = t.out /\ u.type = type /\ u.atom
BY DEF Texts

(* std::string(x.data(), x.size()) has all of x.                           *)
LEMMA WrapIs ==
  ASSUME NEW t \in Texts, NEW u, u = Wrap(t)
  PROVE  u \in Texts /\ u.raw = t.raw /\ u.out = t.out /\ u.type = "string" /\ u.atom
BY AtomIs, NamesAre DEF Wrap, Texts, Types

(* An operand of + is the text of the node, or the wrapped field.          *)
LEMMA OperandIs ==
  ASSUME NEW n \in Nodes, NEW u, u = Operand(n)
  PROVE  /\ u \in Texts
         /\ ~(n.from /\ n.shape \in {"field", "var"}) => u = n.now
         /\ n.from /\ n.shape \in {"field", "var"} =>
              u.raw = n.field.raw /\ u.out = n.field.out /\ u.type = "string" /\ u.atom
<1>1. n.now \in Texts /\ n.field \in Texts
  BY DEF Nodes
<1>. PICK w : w = Wrap(n.field)
  OBVIOUS
<1>2. w \in Texts /\ w.raw = n.field.raw /\ w.out = n.field.out /\ w.type = "string" /\ w.atom
  BY <1>1, WrapIs
<1>3. u = IF n.from /\ n.shape \in {"field", "var"} THEN w ELSE n.now
  BY DEF Operand
<1>. QED
  BY <1>1, <1>2, <1>3

(* Marks of a part are marks of the whole.                                 *)
LEMMA FormsGrow ==
  ASSUME NEW m \in Nodes, NEW n \in Nodes, n.forms \subseteq m.forms, NEW fs, Has(n, fs)
  PROVE  Has(m, fs)
BY DEF Has

(* A mark shows in every set that has it.                                  *)
LEMMA FormShows ==
  ASSUME NEW m \in Nodes, NEW f \in m.forms, NEW fs, f \in fs
  PROVE  Has(m, fs)
BY DEF Has

(* Next to the stack of nodes nothing changes but what is allowed to.        *)
LEMMA Stepped ==
  ASSUME IInv, NEW k \in 0 .. Depth, NEW m \in Nodes, Good(m), Placed(m)',
         work' = Append(SubSeq(work, 1, Depth - k), m),
         next' \in next .. MaxItems + 1, stored' = stored,
         \A j \in 0 .. k - 1 : Popped(j).forms \subseteq m.forms,
         \A r \in stale' : r \in stale \/ r[1] = "lambda" \/ Has(m, Rereading),
         \A v \in DOMAIN var' : v \in DOMAIN var /\ var'[v] = var[v]
  PROVE  IInv'
<1>1. /\ TypeInv /\ VarsKnown /\ NodeInv /\ RereadsGuarded
      /\ next \in Nat /\ next' \in Nat /\ next <= next' /\ next' \in 1 .. MaxItems + 1
  BY RuleChainAssumption DEF IInv, TypeInv
<1>2. Extends
  BY <1>1 DEF Extends, TypeInv
<1>3. work' \in Seq(Nodes) /\ NodeInv' /\ RereadsGuarded'
  BY <1>1, <1>2, Grown
<1>4. /\ VarsKnown' /\ DOMAIN var' \subseteq Vars
      /\ \A v \in DOMAIN var' : var'[v] \in Known
  BY <1>1, <1>2, VarsStay
<1>5. \A i : i \in 1 .. next - 1 => i \in 1 .. next' - 1
  BY <1>1, Below
<1>6. /\ DOMAIN stored' \subseteq 1 .. next' - 1
      /\ \A i \in DOMAIN stored' : stored'[i] \subseteq (1 .. next' - 1) \ DOMAIN stored'
  BY <1>1, <1>5 DEF TypeInv
<1>. QED
  BY <1>1, <1>3, <1>4, <1>6 DEF IInv, TypeInv

(* A node over others, with what of its own it has.                         *)
LEMMA PlacedOver ==
  ASSUME IInv, Extends, NEW ps \in SUBSET Nodes, \A p \in ps : Placed(p),
         NEW own, own \subseteq next .. next' - 1, own \intersect DOMAIN stored' = {},
         NEW m \in Nodes, \A i \in Items(m) : i \in own \/ \E p \in ps : i \in Items(p),
         \A p \in ps : Items(p) \subseteq Items(m),
         \A i \in m.lists : \E p \in ps : i \in p.lists,
         m.shape \in Expression => \A p \in ps : p.shape \in Expression
  PROVE  Placed(m)'
<1>1. \A p \in ps : Placed(p)'
  BY PlacedStays DEF IInv
<1>2. next \in Nat /\ next' \in Nat /\ next >= 1
  BY RuleChainAssumption DEF IInv, TypeInv, Extends
<1>3. \A i : i \in next .. next' - 1 => i \in 1 .. next' - 1
  BY <1>2, Above
<1>4. Items(m) \subseteq 1 .. next' - 1
  BY <1>1, <1>3 DEF Placed
<1>5. m.shape \in Expression => Items(m) \intersect DOMAIN stored' = {}
  BY <1>1 DEF Placed
<1>6. \A i \in m.lists : i \in DOMAIN stored' \intersect Items(m) /\ stored'[i] \subseteq Items(m)
  BY <1>1 DEF Placed
<1>. QED
  BY <1>4, <1>5, <1>6 DEF Placed

(* What n takes from p, its only part.                                      *)
TakesFrom(n, shape, src, now, p) ==
  /\ n \in Nodes /\ n.shape = shape /\ n.src = src /\ n.now = now /\ ~n.from
  /\ n.field = src /\ n.at = src /\ n.own = "none" /\ n.seen = {}
  /\ (n.inner <=> Reads(p)) /\ (n.low <=> Rereads(p))
  /\ (n.ill <=> p.ill) /\ (n.torn <=> p.torn)
  /\ n.tests = p.tests /\ n.lists = p.lists /\ n.forms = p.forms

(* OverIs for one part.                                                    *)
LEMMA OverAlone ==
  ASSUME NEW shape \in Shapes, NEW src \in Texts, NEW now \in Texts, NEW p \in Nodes,
         NEW n, n = Over(shape, src, now, {p})
  PROVE  TakesFrom(n, shape, src, now, p)
<1>. PICK ps : ps = {p}
  OBVIOUS
<1>1. ps \in SUBSET Nodes /\ n = Over(shape, src, now, ps)
  OBVIOUS
<1>2. /\ n \in Nodes /\ n.shape = shape /\ n.src = src /\ n.now = now /\ ~n.from
      /\ n.field = src /\ n.at = src /\ n.own = "none" /\ n.seen = {}
      /\ (n.inner <=> (\E q \in ps : Reads(q))) /\ (n.low <=> (\E q \in ps : Rereads(q)))
      /\ (n.ill <=> (\E q \in ps : q.ill)) /\ (n.torn <=> (\E q \in ps : q.torn))
      /\ n.tests = UNION { q.tests : q \in ps } /\ n.lists = UNION { q.lists : q \in ps }
      /\ n.forms = UNION { q.forms : q \in ps }
  BY <1>1, OverIs
<1>3. UNION { q.tests : q \in ps } = p.tests
  OBVIOUS
<1>4. UNION { q.lists : q \in ps } = p.lists
  OBVIOUS
<1>5. UNION { q.forms : q \in ps } = p.forms
  OBVIOUS
<1>. QED
  BY <1>2, <1>3, <1>4, <1>5 DEF TakesFrom

LEMMA OverOne ==
  ASSUME NEW shape \in Shapes, NEW src \in Texts, NEW now \in Texts, NEW p \in Nodes,
         NEW n, n = Over(shape, src, now, {p})
  PROVE  /\ n \in Nodes /\ n.shape = shape /\ n.src = src /\ n.now = now /\ ~n.from
         /\ n.field = src /\ n.at = src /\ n.own = "none" /\ n.seen = {}
         /\ (n.inner <=> Reads(p)) /\ (n.low <=> Rereads(p))
         /\ (n.ill <=> p.ill) /\ (n.torn <=> p.torn)
         /\ n.tests = p.tests /\ n.lists = p.lists /\ n.forms = p.forms
<1>1. TakesFrom(n, shape, src, now, p)
  BY OverAlone
<1>. QED
  BY ONLY <1>1 DEF TakesFrom

(* OverIs for two parts.                                                   *)
LEMMA OverTwo ==
  ASSUME NEW shape \in Shapes, NEW src \in Texts, NEW now \in Texts,
         NEW p \in Nodes, NEW q \in Nodes, NEW n, n = Over(shape, src, now, {p, q})
  PROVE  /\ n \in Nodes /\ n.shape = shape /\ n.src = src /\ n.now = now /\ ~n.from
         /\ n.field = src /\ n.at = src /\ n.own = "none" /\ n.seen = {}
         /\ (n.inner <=> (Reads(p) \/ Reads(q))) /\ (n.low <=> (Rereads(p) \/ Rereads(q)))
         /\ (n.ill <=> (p.ill \/ q.ill)) /\ (n.torn <=> (p.torn \/ q.torn))
         /\ n.tests = p.tests \union q.tests /\ n.lists = p.lists \union q.lists
         /\ n.forms = p.forms \union q.forms
<1>. PICK ps : ps = {p, q}
  OBVIOUS
<1>1. ps \in SUBSET Nodes /\ n = Over(shape, src, now, ps)
  OBVIOUS
<1>2. /\ n \in Nodes /\ n.shape = shape /\ n.src = src /\ n.now = now /\ ~n.from
      /\ n.field = src /\ n.at = src /\ n.own = "none" /\ n.seen = {}
      /\ (n.inner <=> (\E o \in ps : Reads(o))) /\ (n.low <=> (\E o \in ps : Rereads(o)))
      /\ (n.ill <=> (\E o \in ps : o.ill)) /\ (n.torn <=> (\E o \in ps : o.torn))
      /\ n.tests = UNION { o.tests : o \in ps } /\ n.lists = UNION { o.lists : o \in ps }
      /\ n.forms = UNION { o.forms : o \in ps }
  BY <1>1, OverIs
<1>3. /\ n.tests = p.tests \union q.tests /\ n.lists = p.lists \union q.lists
      /\ n.forms = p.forms \union q.forms
  BY <1>2
<1>. QED
  BY <1>2, <1>3

(* The two topmost nodes, where there are two.                              *)
LEMMA TwoPopped ==
  ASSUME IInv, Depth >= 2, NEW a, a = Popped(1), NEW b, b = Popped(0)
  PROVE  /\ a \in Nodes /\ Good(a) /\ Placed(a) /\ b \in Nodes /\ Good(b) /\ Placed(b)
         /\ Depth \in Nat /\ 2 \in 0 .. Depth
         /\ \A j \in 0 .. 2 - 1 : Popped(j) \in {a, b}
<1>1. TypeInv /\ NodeInv /\ Depth \in Nat
  BY DEF IInv, TypeInv, Depth
<1>2. 1 < Depth /\ 0 < Depth
  BY <1>1
<1>3. \A j \in 0 .. 2 - 1 : j = 0 \/ j = 1
  OBVIOUS
<1>. QED
  BY <1>1, <1>2, <1>3, PoppedIs

(* The topmost node.                                                       *)
LEMMA OnePopped ==
  ASSUME IInv, Depth >= 1, NEW e, e = Popped(0)
  PROVE  /\ e \in Nodes /\ Good(e) /\ Placed(e) /\ Depth \in Nat /\ 1 \in 0 .. Depth
         /\ \A j \in 0 .. 1 - 1 : Popped(j) = e
<1>1. TypeInv /\ NodeInv /\ Depth \in Nat
  BY DEF IInv, TypeInv, Depth
<1>2. 0 < Depth
  BY <1>1
<1>3. \A j \in 0 .. 1 - 1 : j = 0
  OBVIOUS
<1>. QED
  BY <1>1, <1>2, <1>3, PoppedIs

-----------------------------------------------------------------------------
(* Expressions: what a good one offers, and what makes one good.            *)

(* A good expression tests and declares nothing, so what is left to        *)
(* convert in it, or lost, is marked.                                      *)
LEMMA ExpressionIs ==
  ASSUME NEW n \in Nodes, Good(n), n.shape \in Expression
  PROVE  /\ n.tests = {} /\ n.lists = {}
         /\ n.torn => Has(n, Tearing)
         /\ n.ill => Has(n, Ills)
         /\ Rereads(n) => Has(n, Rereading)
         /\ n.now.raw = {} \/ Has(n, Raws)
         /\ Of(n.now) = Items(n) \/ Has(n, Losses)
<1>1. n.tests = {} /\ n.lists = {}
  BY DEF Good, Whole
<1>2. Waits(n) = {} /\ Superseded(n) = {}
  BY <1>1 DEF Waits, Superseded
<1>3. n.torn => Has(n, Tearing)
  BY DEF Good, Whole
<1>4. n.ill => Has(n, Ills)
  BY DEF Good, Sound
<1>5. Rereads(n) => Has(n, Rereading)
  BY DEF Good, Guarded
<1>6. n.now.raw = {} \/ Has(n, Raws)
  BY <1>2 DEF Good, Converted
<1>7. Of(n.now) = Items(n) \/ Has(n, Losses)
  BY <1>2 DEF Good, Complete
<1>. QED
  BY <1>1, <1>3, <1>4, <1>5, <1>6, <1>7

(* The operand that a good string node gives to StrRule: a std::string,    *)
(* converted and complete, or the node is marked.                          *)
LEMMA StringNodeIs ==
  ASSUME NEW n \in Nodes, Good(n), IsStringNode(n), NEW s, s = Operand(n)
  PROVE  /\ n.shape \in Expression /\ IsString(n.src)
         /\ Reads(n) => Has(n, Rereading)
         /\ s \in Texts
         /\ Has(n, Ills) \/ s.type = (IF n.src.type = "chars" THEN "chars" ELSE "string")
         /\ s.raw = {} \/ Has(n, Raws)
         /\ Of(s) = Items(n) \/ Has(n, Losses)
<1>1. n.shape \in Expression /\ IsString(n.src)
  BY DEF IsStringNode
<1>2. /\ n.now.raw = {} \/ Has(n, Raws)
      /\ Of(n.now) = Items(n) \/ Has(n, Losses)
  BY <1>1, ExpressionIs
<1>3. Reads(n) => Has(n, Rereading)
  BY <1>1 DEF Good, Guarded
<1>4. Has(n, Ills) \/ s.type = (IF n.src.type = "chars" THEN "chars" ELSE "string")
  BY DEF Good, Sound
<1>5. s \in Texts
  BY OperandIs
<1>6. CASE n.from /\ n.shape \in {"field", "var"}
  <2>1. s.raw = n.field.raw /\ s.out = n.field.out
    BY <1>6, OperandIs
  <2>2. n.field.raw = {}
    BY <1>6 DEF Good, Converted
  <2>3. Of(n.field) = Items(n) \/ "ConcatRead" \in n.forms
    BY <1>6 DEF Good, Complete
  <2>4. "ConcatRead" \in n.forms => Has(n, Losses)
    BY DEF Has, Losses
  <2>. QED
    BY <1>1, <1>3, <1>4, <1>5, <2>1, <2>2, <2>3, <2>4 DEF Of
<1>7. CASE ~(n.from /\ n.shape \in {"field", "var"})
  <2>1. s = n.now
    BY <1>7, OperandIs
  <2>. QED
    BY <1>1, <1>2, <1>3, <1>4, <1>5, <2>1
<1>. QED
  BY <1>6, <1>7

(* A good number gives all it reads to an index.                           *)
LEMMA NumberNodeIs ==
  ASSUME NEW n \in Nodes, Good(n), IsNumberNode(n)
  PROVE  n.shape \in Expression /\ Of(n.field) = Items(n) /\ Of(n.at) = Items(n)
BY DEF Good, Complete, IsNumberNode

(* Conditions a new expression has to meet: as any, as a string, as a number. *)
Sane(m) ==
  /\ m.shape \in Expression /\ m.tests = {} /\ m.lists = {}
  /\ m.torn => Has(m, Tearing)
  /\ m.ill => Has(m, Ills)
  /\ Rereads(m) => Has(m, Rereading)
  /\ m.now.raw = {} \/ Has(m, Raws)
  /\ Of(m.now) = Items(m) \/ Has(m, Losses)

(* A number is good if it is sane and its texts for indices are complete.  *)
LEMMA NumberIsGood ==
  ASSUME NEW m \in Nodes, Sane(m), ~IsString(m.src),
         m.shape \notin {"var", "chars"},
         Of(m.field) = Items(m), Of(m.at) = Items(m),
         m.shape = "field" => m.field.raw = {},
         m.shape \in {"field", "enum"} => m.at.raw = {}
  PROVE  Good(m)
<1>1. m.shape # "test"
  BY DEF Sane, Expression
<1>2. Guarded(m)
  BY DEF Guarded, Sane
<1>3. Whole(m)
  BY <1>1 DEF Whole, Sane
<1>4. ~IsStringNode(m)
  BY DEF IsStringNode
<1>5. Sound(m)
  BY <1>4 DEF Sound, Sane
<1>6. Converted(m)
  BY <1>4 DEF Converted, Sane
<1>7. Complete(m)
  <2>1. Superseded(m) = {}
    BY DEF Superseded, Sane
  <2>. QED
    BY <1>1, <1>4, <2>1 DEF Complete, Sane
<1>. QED
  BY <1>2, <1>3, <1>5, <1>6, <1>7 DEF Good

(* A string is good if it is sane and its operand holds.                   *)
LEMMA StringIsGood ==
  ASSUME NEW m \in Nodes, Sane(m), IsString(m.src),
         m.shape \in {"field", "var", "chars", "call", "choice", "concat"},
         m.shape = "choice" => Has(m, Ills),
         Reads(m) => Has(m, Rereading),
         m.shape \in {"field", "var", "call"} => Wraps(m.now) /\ Wraps(m.field),
         m.from => /\ m.shape \in {"field", "var", "concat"}
                   /\ Wraps(m.field) /\ m.field.raw = {},
         m.shape = "field" => m.from /\ m.at.raw = {},
         m.shape = "var" => m.src.raw = {},
         m.shape = "var" /\ ~m.from => m.src.type = "string",
         m.shape \in {"var", "chars"} => m.field.raw = {},
         \/ Operand(m).type = (IF m.src.type = "chars" THEN "chars" ELSE "string")
         \/ Has(m, Ills),
         m.now.type = "view" => Has(m, Ills) \/ (m.from /\ m.shape \in {"field", "var"}),
         \/ Of(m.field) = Items(m)
         \/ m.from /\ (m.shape = "concat" \/ "ConcatRead" \in m.forms)
  PROVE  Good(m)
<1>1. m.shape # "test"
  BY DEF Sane, Expression
<1>2. Guarded(m)
  BY DEF Guarded, Sane
<1>3. Whole(m)
  BY <1>1 DEF Whole, Sane
<1>4. IsStringNode(m) /\ ~IsNumberNode(m)
  BY DEF IsStringNode, IsNumberNode, Sane
<1>5. Sound(m)
  BY <1>4 DEF Sound, Sane
<1>6. Converted(m)
  BY <1>4 DEF Converted, Sane
<1>7. Complete(m)
  <2>1. Superseded(m) = {}
    BY DEF Superseded, Sane
  <2>. QED
    BY <1>1, <1>4, <2>1 DEF Complete, Sane
<1>. QED
  BY <1>2, <1>3, <1>5, <1>6, <1>7 DEF Good

(* What is numbered now was not there before.                              *)
LEMMA FreshIs ==
  ASSUME NEW a \in Nat, NEW b \in Nat, a >= 1
  PROVE  \A i \in a .. b - 1 : i \notin 1 .. a - 1
OBVIOUS

(* A step that adds an expression on top of those it is made of.            *)
LEMMA ExpressionStep ==
  ASSUME IInv, NEW k \in 0 .. Depth, NEW m \in Nodes, Good(m), m.lists = {},
         work' = Append(SubSeq(work, 1, Depth - k), m),
         next' \in next .. MaxItems + 1, stored' = stored, var' = var,
         \A r \in stale' : r \in stale \/ r[1] = "lambda" \/ Has(m, Rereading),
         \A j \in 0 .. k - 1 : Popped(j).shape \in Expression /\ Popped(j).forms \subseteq m.forms,
         \A i \in Items(m) : i \in next .. next' - 1 \/ \E j \in 0 .. k - 1 : i \in Items(Popped(j))
  PROVE  IInv'
<1>1. /\ TypeInv /\ NodeInv /\ Depth \in Nat /\ k \in Nat /\ k <= Depth
      /\ next \in Nat /\ next' \in Nat /\ next >= 1 /\ next <= next'
  BY RuleChainAssumption DEF IInv, TypeInv, Depth
<1>2. \A j \in 0 .. k - 1 : j \in Nat /\ j < Depth
  BY <1>1
<1>3. \A j \in 0 .. k - 1 : Popped(j) \in Nodes /\ Placed(Popped(j))
  BY <1>1, <1>2, PoppedIs
<1>4. \A i : i \in next .. next' - 1 => i \in 1 .. next' - 1
  BY <1>1, Above
<1>5. \A i : i \in 1 .. next - 1 => i \in 1 .. next' - 1
  BY <1>1, Below
<1>6. \A i \in next .. next' - 1 : i \notin 1 .. next - 1
  BY <1>1, FreshIs
<1>7. DOMAIN stored \subseteq 1 .. next - 1
  BY <1>1 DEF TypeInv
<1>8. ASSUME NEW i \in Items(m)
      PROVE  i \in 1 .. next' - 1 /\ i \notin DOMAIN stored
  <2>1. CASE i \in next .. next' - 1
    BY <1>4, <1>6, <1>7, <2>1
  <2>2. CASE \E j \in 0 .. k - 1 : i \in Items(Popped(j))
    <3>1. PICK j \in 0 .. k - 1 : i \in Items(Popped(j))
      BY <2>2
    <3>2. Popped(j).shape \in Expression /\ Placed(Popped(j))
      BY <1>3
    <3>. QED
      BY <1>5, <3>1, <3>2 DEF Placed
  <2>. QED
    BY <2>1, <2>2
<1>9. Placed(m)'
  BY <1>8 DEF Placed
<1>. QED
  BY <1>9, Stepped

(* The first replacement by a rule takes place.                            *)
LEMMA ReplaceFirst ==
  ASSUME NEW n \in Nodes, NEW rule \in Rules, NEW t \in Texts, rule \notin n.seen,
         NEW m, m = Replace(n, rule, t)
  PROVE  /\ m \in Nodes /\ Keeps(m, n) /\ (m.ill <=> n.ill) /\ (m.torn <=> n.torn)
         /\ m.forms = n.forms /\ m.now = t /\ m.seen = n.seen \union {rule}
BY ReplaceIs

(* a + b is good: both operands became std::string, and a second visit     *)
(* reads nothing of it, because StrRule leaves alone what it replaced.     *)
LEMMA ConcatIsGood ==
  ASSUME NEW a \in Nodes, NEW b \in Nodes, Good(a), Good(b), IsStringNode(a), IsStringNode(b),
         NEW m \in Nodes, NEW s, NEW u, s = Operand(a), u = Operand(b),
         m.shape = "concat", m.src.type = "string", Items(m) = Items(a) \union Items(b),
         m.now.raw = s.raw \union u.raw, m.now.out = s.out \union u.out,
         m.now.type = "string", m.from <=> a.from,
         m.field = IF a.from THEN a.field ELSE m.src,
         m.own = "none", m.seen = {"Str"},
         m.inner <=> (Reads(a) \/ Reads(b)), m.low <=> (Rereads(a) \/ Rereads(b)),
         m.ill => \/ a.ill \/ b.ill
                  \/ s.type # (IF a.src.type = "chars" THEN "chars" ELSE "string")
                  \/ u.type # (IF b.src.type = "chars" THEN "chars" ELSE "string"),
         m.torn <=> (a.torn \/ b.torn),
         m.tests = a.tests \union b.tests, m.lists = a.lists \union b.lists,
         m.forms = a.forms \union b.forms
  PROVE  Good(m) /\ m.lists = {} /\ a.shape \in Expression /\ b.shape \in Expression
<1>1. \A fs : Has(a, fs) \/ Has(b, fs) => Has(m, fs)
  BY DEF Has
<1>2. /\ a.shape \in Expression
      /\ Reads(a) => Has(a, Rereading)
      /\ Has(a, Ills) \/ s.type = (IF a.src.type = "chars" THEN "chars" ELSE "string")
      /\ s.raw = {} \/ Has(a, Raws)
      /\ Of(s) = Items(a) \/ Has(a, Losses)
  BY ONLY StringNodeIs, a \in Nodes, Good(a), IsStringNode(a), s = Operand(a)
<1>3. /\ b.shape \in Expression
      /\ Reads(b) => Has(b, Rereading)
      /\ Has(b, Ills) \/ u.type = (IF b.src.type = "chars" THEN "chars" ELSE "string")
      /\ u.raw = {} \/ Has(b, Raws)
      /\ Of(u) = Items(b) \/ Has(b, Losses)
  BY ONLY StringNodeIs, b \in Nodes, Good(b), IsStringNode(b), u = Operand(b)
<1>4. /\ a.tests = {} /\ a.lists = {}
      /\ a.torn => Has(a, Tearing)
      /\ a.ill => Has(a, Ills)
      /\ Rereads(a) => Has(a, Rereading)
  BY ONLY ExpressionIs, <1>2, a \in Nodes, Good(a)
<1>5. /\ b.tests = {} /\ b.lists = {}
      /\ b.torn => Has(b, Tearing)
      /\ b.ill => Has(b, Ills)
      /\ Rereads(b) => Has(b, Rereading)
  BY ONLY ExpressionIs, <1>3, b \in Nodes, Good(b)
<1>6. m.shape \in Expression /\ m.tests = {} /\ m.lists = {}
  BY <1>4, <1>5 DEF Expression
<1>7. m.torn => Has(m, Tearing)
  BY <1>1, <1>4, <1>5
<1>8. m.ill => Has(m, Ills)
  BY <1>1, <1>2, <1>3, <1>4, <1>5
<1>9. Reads(m) => Has(m, Rereading)
  BY <1>1, <1>2, <1>3 DEF Reads
<1>10. Rereads(m) => Has(m, Rereading)
  BY <1>1, <1>2, <1>3, <1>4, <1>5 DEF Rereads
<1>11. m.now.raw = {} \/ Has(m, Raws)
  BY <1>1, <1>2, <1>3
<1>12. Of(m.now) = Items(m) \/ Has(m, Losses)
  <2>1. Of(m.now) = Of(s) \union Of(u)
    BY DEF Of
  <2>. QED
    BY <1>1, <1>2, <1>3, <2>1
<1>13. Sane(m)
  BY <1>6, <1>7, <1>8, <1>10, <1>11, <1>12 DEF Sane
<1>14. IsString(m.src)
  BY DEF IsString, Strings
<1>15. m.from => Wraps(m.field) /\ m.field.raw = {}
  BY DEF Good, Sound, Converted
<1>16. Operand(m) = m.now
  BY DEF Operand
<1>17. ~m.from => Of(m.field) = Items(m)
  BY DEF Items
<1>. QED
  BY <1>2, <1>3, <1>6, <1>9, <1>13, <1>14, <1>15, <1>16, <1>17, StringIsGood

(* a + b keeps the invariant.                                              *)
LEMMA ConcatStep ==
  ASSUME IInv, Concat
  PROVE  IInv'
<1>p1. PICK a : a = Popped(1)
  OBVIOUS
<1>p2. PICK b : b = Popped(0)
  OBVIOUS
<1>0. /\ Depth >= 2 /\ IsStringNode(a) /\ IsStringNode(b)
      /\ a.src.type = "string" \/ b.src.type = "string"
  BY <1>p1, <1>p2 DEF Concat
<1>1. /\ a \in Nodes /\ Good(a) /\ b \in Nodes /\ Good(b)
      /\ 2 \in 0 .. Depth /\ \A j \in 0 .. 2 - 1 : Popped(j) \in {a, b}
  BY <1>0, <1>p1, <1>p2, TwoPopped
<1>2. /\ a.src \in Texts /\ a.now \in Texts /\ a.field \in Texts /\ a.from \in BOOLEAN
      /\ b.src \in Texts /\ b.now \in Texts
  BY <1>1 DEF Nodes
<1>p3. PICK s : s = Operand(a)
  OBVIOUS
<1>p4. PICK u : u = Operand(b)
  OBVIOUS
<1>3. s \in Texts /\ u \in Texts
  BY <1>1, <1>p3, <1>p4, OperandIs
<1>p5. PICK src : src = [ Both(a.src, b.src) EXCEPT !.type = "string" ]
  OBVIOUS
<1>p6. PICK now : now = [ Both(a.now, b.now) EXCEPT !.type = "string" ]
  OBVIOUS
<1>p7. PICK field : field = IF a.from THEN a.field ELSE src
  OBVIOUS
<1>p8. PICK t : t = [ Both(s, u) EXCEPT !.type = "string" ]
  OBVIOUS
<1>p9. PICK bad \in BOOLEAN : bad <=> ~Adds(s, u)
  OBVIOUS
<1>p10. PICK n : n = Over("concat", src, now, {a, b})
  OBVIOUS
<1>p11. PICK o : o = [ n EXCEPT !.from = a.from, !.field = field ]
  OBVIOUS
<1>p12. PICK q : q = Replace(o, "Str", t)
  OBVIOUS
<1>p13. PICK m : m = Fail(q, bad)
  OBVIOUS
<1>4. /\ work' = Append(SubSeq(work, 1, Depth - 2), m)
      /\ next' = next /\ var' = var /\ stored' = stored /\ stale' = stale
  BY <1>p1, <1>p2, <1>p3, <1>p4, <1>p5, <1>p6, <1>p7, <1>p8, <1>p9, <1>p10,
     <1>p11, <1>p12, <1>p13 DEF Concat, Grow, Same, StrConcat
<1>5. /\ src \in Texts /\ src.type = "string"
      /\ src.raw = a.src.raw \union b.src.raw /\ src.out = a.src.out \union b.src.out
  BY <1>2, <1>p5, BothIs, RetypedIs, NamesAre
<1>6. now \in Texts
  BY <1>2, <1>p6, BothIs, RetypedIs, NamesAre
<1>7. /\ t \in Texts /\ t.raw = s.raw \union u.raw
      /\ t.out = s.out \union u.out /\ t.type = "string"
  BY <1>3, <1>p8, BothIs, RetypedIs, NamesAre
<1>8. field \in Texts
  BY <1>2, <1>5, <1>p7
<1>9. /\ m \in Nodes /\ m.shape = "concat" /\ m.src = src /\ m.now = t /\ m.field = field
      /\ (m.from <=> a.from) /\ m.own = "none" /\ m.seen = {"Str"}
      /\ (m.inner <=> (Reads(a) \/ Reads(b))) /\ (m.low <=> (Rereads(a) \/ Rereads(b)))
      /\ (m.ill <=> (a.ill \/ b.ill \/ bad)) /\ (m.torn <=> (a.torn \/ b.torn))
      /\ m.tests = a.tests \union b.tests /\ m.lists = a.lists \union b.lists
      /\ m.forms = a.forms \union b.forms
  <2>0. "concat" \in Shapes /\ "Str" \in Rules
    BY NamesAre
  <2>1. /\ n \in Nodes /\ n.shape = "concat" /\ n.src = src /\ n.now = now
        /\ n.own = "none" /\ n.seen = {}
        /\ (n.inner <=> (Reads(a) \/ Reads(b))) /\ (n.low <=> (Rereads(a) \/ Rereads(b)))
        /\ (n.ill <=> (a.ill \/ b.ill)) /\ (n.torn <=> (a.torn \/ b.torn))
        /\ n.tests = a.tests \union b.tests /\ n.lists = a.lists \union b.lists
        /\ n.forms = a.forms \union b.forms
    BY ONLY <1>1, <1>5, <1>6, <1>p10, <2>0, OverTwo
  <2>2. /\ o \in Nodes /\ (o.from <=> a.from) /\ o.field = field /\ o.shape = n.shape
        /\ o.src = n.src /\ o.own = n.own /\ o.seen = n.seen
        /\ (o.inner <=> n.inner) /\ (o.low <=> n.low) /\ (o.ill <=> n.ill)
        /\ (o.torn <=> n.torn) /\ o.tests = n.tests /\ o.lists = n.lists /\ o.forms = n.forms
    BY ONLY <1>2, <1>8, <1>p11, <2>1 DEF Nodes
  <2>3. /\ q \in Nodes /\ Keeps(q, o) /\ (q.ill <=> o.ill) /\ (q.torn <=> o.torn)
        /\ q.forms = o.forms /\ q.now = t /\ q.seen = o.seen \union {"Str"}
    BY ONLY <1>7, <1>p12, <2>0, <2>1, <2>2, ReplaceFirst
  <2>4. /\ m \in Nodes /\ Keeps(m, q) /\ m.now = q.now /\ m.seen = q.seen
        /\ (m.torn <=> q.torn) /\ m.forms = q.forms /\ (m.ill <=> (q.ill \/ bad))
    BY <1>p13, <2>3, FailIs
  <2>. QED
    BY ONLY <2>1, <2>2, <2>3, <2>4 DEF Keeps
<1>10. Items(m) = Items(a) \union Items(b)
  BY <1>5, <1>9 DEF Items, Of
<1>11. m.ill => \/ a.ill \/ b.ill
                \/ s.type # (IF a.src.type = "chars" THEN "chars" ELSE "string")
                \/ u.type # (IF b.src.type = "chars" THEN "chars" ELSE "string")
  BY <1>0, <1>9, <1>p9 DEF Adds
<1>12. Good(m) /\ m.lists = {} /\ a.shape \in Expression /\ b.shape \in Expression
  BY <1>0, <1>1, <1>7, <1>9, <1>10, <1>11, <1>p3, <1>p4, <1>p7, <1>5, ConcatIsGood
<1>13. next' \in next .. MaxItems + 1
  BY <1>4, RuleChainAssumption DEF IInv, TypeInv
<1>14. \A j \in 0 .. 2 - 1 : Popped(j).shape \in Expression /\ Popped(j).forms \subseteq m.forms
  BY <1>1, <1>9, <1>12
<1>15. \A i \in Items(m) : i \in next .. next' - 1 \/ \E j \in 0 .. 2 - 1 : i \in Items(Popped(j))
  <2>1. 0 \in 0 .. 2 - 1 /\ 1 \in 0 .. 2 - 1
    OBVIOUS
  <2>. QED
    BY <1>10, <1>p1, <1>p2, <2>1
<1>. QED
  BY <1>1, <1>4, <1>9, <1>12, <1>13, <1>14, <1>15, ExpressionStep

(* A new item, and a node without parts.                                    *)
LEMMA ItemTaken ==
  ASSUME IInv, Take(1)
  PROVE  /\ next \in Nat /\ next \in Item /\ next' = next + 1
         /\ next' \in next .. MaxItems + 1 /\ next \in next .. next' - 1
BY RuleChainAssumption DEF IInv, TypeInv, Take, Item

(* A step that numbers nothing.                                            *)
LEMMA NextStays ==
  ASSUME IInv, UNCHANGED next
  PROVE  next' \in next .. MaxItems + 1
BY RuleChainAssumption DEF IInv, TypeInv

(* A good leaf of new items, or of older ones that are no lambda, keeps    *)
(* the invariant.                                                          *)
LEMMA LeafStep ==
  ASSUME IInv, NEW m \in Nodes, Good(m), m.lists = {},
         work' = Append(SubSeq(work, 1, Depth - 0), m),
         next' \in next .. MaxItems + 1, stored' = stored, var' = var, stale' = stale,
         \A i \in Items(m) : \/ i \in next .. next' - 1
                             \/ i \in 1 .. next - 1 /\ i \notin DOMAIN stored
  PROVE  IInv'
<1>1. /\ TypeInv /\ Depth \in Nat /\ next \in Nat /\ next' \in Nat /\ next >= 1 /\ next <= next'
  BY RuleChainAssumption DEF IInv, TypeInv, Depth
<1>2. \A i : i \in next .. next' - 1 => i \in 1 .. next' - 1
  BY <1>1, Above
<1>3. \A i : i \in 1 .. next - 1 => i \in 1 .. next' - 1
  BY <1>1, Below
<1>4. \A i \in next .. next' - 1 : i \notin 1 .. next - 1
  BY <1>1, FreshIs
<1>5. DOMAIN stored \subseteq 1 .. next - 1
  BY <1>1 DEF TypeInv
<1>6. \A i \in Items(m) : i \in 1 .. next' - 1 /\ i \notin DOMAIN stored
  BY <1>2, <1>3, <1>4, <1>5
<1>7. Placed(m)'
  BY <1>6 DEF Placed
<1>8. 0 \in 0 .. Depth /\ \A j \in 0 .. 0 - 1 : FALSE
  BY <1>1
<1>. QED
  BY <1>7, <1>8, Stepped

(* The node of a leaf, changed as rules change it.                          *)
LEMMA FieldNodeIs ==
  ASSUME next \in Nat, NEW type \in {"string", "other"}, NEW m, m = FieldNode(type)
  PROVE  m \in Nodes /\ Good(m) /\ m.lists = {} /\ Items(m) = {next}
<1>p1. PICK new : new = {next}
  OBVIOUS
<1>p2. PICK empty : empty = {}
  OBVIOUS
<1>p3. PICK bt : bt = IF type = "string" THEN "view" ELSE type
  OBVIOUS
<1>1. /\ new \in SUBSET Nat /\ empty \in SUBSET Nat /\ type \in Types /\ bt \in Types
     
  BY <1>p1, <1>p2, <1>p3, NamesAre
<1>p4. PICK bs : bs = Text(empty, new, bt, TRUE)
  OBVIOUS
<1>p5. PICK src : src = Text(new, empty, type, TRUE)
  OBVIOUS
<1>p6. PICK n : n = Node("field", src, src)
  OBVIOUS
<1>p7. PICK o : o = [ n EXCEPT !.from = TRUE, !.field = bs, !.at = bs ]
  OBVIOUS
<1>2. m = Replace(o, "General", bs)
  BY <1>p1, <1>p2, <1>p3, <1>p4, <1>p5, <1>p6, <1>p7 DEF FieldNode
<1>3. bs \in Texts /\ bs.raw = empty /\ bs.out = new /\ bs.type = bt /\ bs.atom
  BY ONLY <1>1, <1>p4 DEF Text, Texts
<1>4. src \in Texts /\ src.raw = new /\ src.out = empty /\ src.type = type /\ src.atom
  BY ONLY <1>1, <1>p5 DEF Text, Texts
<1>5. /\ n \in Nodes /\ n.shape = "field" /\ n.src = src /\ n.now = src
      /\ n.own = "none" /\ ~n.inner /\ ~n.low /\ ~n.ill /\ ~n.torn /\ n.seen = {}
      /\ n.tests = {} /\ n.lists = {} /\ n.forms = {}
  <2>1. "field" \in Shapes
    BY NamesAre
  <2>. QED
    BY ONLY <1>4, <1>p6, <2>1, NodeIs
<1>6. /\ o \in Nodes /\ o.from /\ o.field = bs /\ o.at = bs /\ o.shape = n.shape
      /\ o.src = n.src /\ o.own = n.own /\ o.seen = n.seen
      /\ (o.inner <=> n.inner) /\ (o.low <=> n.low) /\ (o.ill <=> n.ill)
      /\ (o.torn <=> n.torn) /\ o.tests = n.tests /\ o.lists = n.lists /\ o.forms = n.forms
  BY ONLY <1>3, <1>5, <1>p7 DEF Nodes
<1>7. /\ m \in Nodes /\ Keeps(m, o) /\ (m.ill <=> o.ill) /\ (m.torn <=> o.torn)
      /\ m.forms = o.forms /\ m.now = bs /\ m.seen = o.seen \union {"General"}
  <2>1. "General" \in Rules /\ "General" \notin o.seen
    BY <1>5, <1>6, NamesAre
  <2>. QED
    BY ONLY <1>2, <1>3, <1>6, <2>1, ReplaceFirst
<1>8. /\ m.shape = "field" /\ m.src = src /\ m.now = bs /\ m.from /\ m.field = bs /\ m.at = bs
      /\ m.own = "none" /\ ~m.inner /\ ~m.low /\ ~m.ill /\ ~m.torn
      /\ m.tests = {} /\ m.lists = {}
  BY ONLY <1>5, <1>6, <1>7 DEF Keeps
<1>9. Items(m) = {next}
  BY <1>4, <1>8, <1>p1, <1>p2 DEF Items, Of
<1>10. Of(bs) = {next} /\ bs.raw = {}
  BY <1>3, <1>p1, <1>p2 DEF Of
<1>11. Sane(m)
  BY <1>8, <1>9, <1>10 DEF Sane, Rereads, Expression
<1>12. CASE type = "string"
  <2>1. IsString(m.src) /\ bs.type = "view"
    BY <1>3, <1>4, <1>8, <1>12, <1>p3 DEF IsString, Strings
  <2>2. ~Reads(m)
    BY <1>8 DEF Reads
  <2>3. Wraps(bs)
    BY <1>3, <2>1 DEF Wraps
  <2>4. Operand(m).type = "string" /\ m.src.type = "string"
    BY <1>4, <1>7, <1>8, <1>12, OperandIs
  <2>. QED
    BY <1>7, <1>8, <1>9, <1>10, <1>11, <2>1, <2>2, <2>3, <2>4, StringIsGood
<1>13. CASE type = "other"
  <2>1. ~IsString(m.src)
    BY <1>4, <1>8, <1>13 DEF IsString, Strings
  <2>. QED
    BY <1>7, <1>8, <1>9, <1>10, <1>11, <2>1, NumberIsGood
<1>. QED
  BY <1>7, <1>8, <1>9, <1>12, <1>13

(* A read of adlog keeps the invariant.                                    *)
LEMMA FieldStep ==
  ASSUME IInv, NEW type \in {"string", "other"}, Field(type)
  PROVE  IInv'
<1>p1. PICK m : m = FieldNode(type)
  OBVIOUS
<1>1. /\ work' = Append(SubSeq(work, 1, Depth - 0), m) /\ Take(1)
      /\ var' = var /\ stored' = stored /\ stale' = stale
  BY <1>p1 DEF Field, Grow, Same
<1>2. /\ next \in Nat /\ next \in next .. next' - 1 /\ next' \in next .. MaxItems + 1
  BY <1>1, ItemTaken
<1>3. m \in Nodes /\ Good(m) /\ m.lists = {} /\ Items(m) = {next}
  BY <1>2, <1>p1, FieldNodeIs
<1>. QED
  BY <1>1, <1>2, <1>3, LeafStep

(* AdEnum::X keeps the invariant.                                          *)
LEMMA EnumeratorStep ==
  ASSUME IInv, Enumerator
  PROVE  IInv'
<1>p1. PICK new : new = {next}
  OBVIOUS
<1>p2. PICK empty : empty = {}
  OBVIOUS
<1>0. Take(1)
  BY DEF Enumerator
<1>1. /\ next \in Nat /\ next \in next .. next' - 1 /\ next' \in next .. MaxItems + 1
  BY <1>0, ItemTaken
<1>2. /\ new \in SUBSET Nat /\ empty \in SUBSET Nat /\ "other" \in Types
  BY <1>1, <1>p1, <1>p2, NamesAre
<1>p3. PICK bs : bs = Text(empty, new, "other", TRUE)
  OBVIOUS
<1>p4. PICK src : src = Text(new, empty, "other", TRUE)
  OBVIOUS
<1>p5. PICK n : n = Node("enum", src, src)
  OBVIOUS
<1>p6. PICK o : o = [ n EXCEPT !.field = bs, !.at = bs ]
  OBVIOUS
<1>p7. PICK m : m = Replace(o, "General", bs)
  OBVIOUS
<1>3. /\ work' = Append(SubSeq(work, 1, Depth - 0), m)
      /\ var' = var /\ stored' = stored /\ stale' = stale
  BY <1>p1, <1>p2, <1>p3, <1>p4, <1>p5, <1>p6, <1>p7 DEF Enumerator, Grow, Same
<1>4. bs \in Texts /\ bs.raw = empty /\ bs.out = new /\ bs.type = "other" /\ bs.atom
  BY ONLY <1>2, <1>p3 DEF Text, Texts
<1>5. src \in Texts /\ src.raw = new /\ src.out = empty /\ src.type = "other" /\ src.atom
  BY ONLY <1>2, <1>p4 DEF Text, Texts
<1>6. /\ n \in Nodes /\ n.shape = "enum" /\ n.src = src /\ n.now = src /\ ~n.from
      /\ n.own = "none" /\ ~n.inner /\ ~n.low /\ ~n.ill /\ ~n.torn /\ n.seen = {}
      /\ n.tests = {} /\ n.lists = {} /\ n.forms = {}
  <2>1. "enum" \in Shapes
    BY NamesAre
  <2>. QED
    BY ONLY <1>5, <1>p5, <2>1, NodeIs
<1>7. /\ o \in Nodes /\ o.field = bs /\ o.at = bs /\ o.shape = n.shape
      /\ o.src = n.src /\ o.own = n.own /\ o.seen = n.seen
      /\ (o.inner <=> n.inner) /\ (o.low <=> n.low) /\ (o.ill <=> n.ill)
      /\ (o.torn <=> n.torn) /\ o.tests = n.tests /\ o.lists = n.lists /\ o.forms = n.forms
  BY ONLY <1>4, <1>6, <1>p6 DEF Nodes
<1>8. /\ m \in Nodes /\ Keeps(m, o) /\ (m.ill <=> o.ill) /\ (m.torn <=> o.torn)
      /\ m.forms = o.forms /\ m.now = bs /\ m.seen = o.seen \union {"General"}
  <2>1. "General" \in Rules /\ "General" \notin o.seen
    BY <1>6, <1>7, NamesAre
  <2>. QED
    BY ONLY <1>4, <1>7, <1>p7, <2>1, ReplaceFirst
<1>9. /\ m.shape = "enum" /\ m.src = src /\ m.now = bs /\ m.field = bs /\ m.at = bs
      /\ m.own = "none" /\ ~m.inner /\ ~m.low /\ ~m.ill /\ ~m.torn
      /\ m.tests = {} /\ m.lists = {}
  BY ONLY <1>6, <1>7, <1>8 DEF Keeps
<1>10. Items(m) = {next}
  BY <1>5, <1>9, <1>p1, <1>p2 DEF Items, Of
<1>11. Of(bs) = {next} /\ bs.raw = {}
  BY <1>4, <1>p1, <1>p2 DEF Of
<1>12. Sane(m)
  BY <1>9, <1>10, <1>11 DEF Sane, Rereads, Expression
<1>13. ~IsString(m.src)
  BY <1>5, <1>9 DEF IsString, Strings
<1>14. Good(m)
  BY <1>8, <1>9, <1>10, <1>11, <1>12, <1>13, NumberIsGood
<1>. QED
  BY <1>1, <1>3, <1>8, <1>9, <1>10, <1>14, LeafStep

(* A string literal keeps the invariant.                                   *)
LEMMA CharsStep ==
  ASSUME IInv, Chars
  PROVE  IInv'
<1>p1. PICK empty : empty = {}
  OBVIOUS
<1>p2. PICK t : t = Text(empty, empty, "chars", FALSE)
  OBVIOUS
<1>p3. PICK m : m = Node("chars", t, t)
  OBVIOUS
<1>1. /\ work' = Append(SubSeq(work, 1, Depth - 0), m) /\ UNCHANGED next
      /\ var' = var /\ stored' = stored /\ stale' = stale
  BY <1>p1, <1>p2, <1>p3 DEF Chars, Grow, Same
<1>2. t \in Texts /\ t.raw = empty /\ t.out = empty /\ t.type = "chars"
  <2>1. empty \in SUBSET Nat /\ "chars" \in Types
    BY <1>p1, NamesAre
  <2>. QED
    BY ONLY <1>p2, <2>1 DEF Text, Texts
<1>3. /\ m \in Nodes /\ m.shape = "chars" /\ m.src = t /\ m.now = t /\ ~m.from /\ m.field = t
      /\ m.own = "none" /\ ~m.inner /\ ~m.low /\ ~m.ill /\ ~m.torn /\ m.seen = {}
      /\ m.tests = {} /\ m.lists = {}
  <2>1. "chars" \in Shapes
    BY NamesAre
  <2>. QED
    BY ONLY <1>2, <1>p3, <2>1, NodeIs
<1>4. Items(m) = {} /\ Of(t) = {} /\ t.raw = {}
  BY <1>2, <1>3, <1>p1 DEF Items, Of
<1>5. Sane(m)
  BY <1>3, <1>4 DEF Sane, Rereads, Expression
<1>6. IsString(m.src) /\ ~Reads(m)
  BY <1>2, <1>3 DEF IsString, Strings, Reads
<1>7. Operand(m).type = "chars"
  BY <1>2, <1>3 DEF Operand
<1>8. Good(m)
  BY <1>2, <1>3, <1>4, <1>5, <1>6, <1>7, StringIsGood
<1>9. next' \in next .. MaxItems + 1
  BY <1>1, NextStays
<1>. QED
  BY <1>1, <1>3, <1>4, <1>8, <1>9, LeafStep

(* A variable keeps the invariant: its text is what is known of it.        *)
LEMMA VarRefStep ==
  ASSUME IInv, NEW v \in Vars, VarRef(v)
  PROVE  IInv'
<1>p1. PICK u : u = var[v]
  OBVIOUS
<1>1. /\ u \in Known /\ u.items \subseteq (1 .. next - 1) \ DOMAIN stored
      /\ u.type \in {"view", "string"}
      /\ (~u.from => u.type = "string")
      /\ (u.from => Wraps(u.field) /\ u.field.raw = {} /\ (u.op \/ Of(u.field) = u.items))
  BY <1>p1 DEF VarRef, IInv, TypeInv, VarsKnown
<1>2. u.field \in Texts /\ u.items \in SUBSET Nat /\ u.type \in Types /\ u.from \in BOOLEAN
  BY <1>1 DEF Known
<1>p2. PICK empty : empty = {}
  OBVIOUS
<1>p3. PICK src : src = Text(empty, u.items, u.type, TRUE)
  OBVIOUS
<1>p4. PICK fs : fs = If(u.op, "ConcatRead")
  OBVIOUS
<1>p5. PICK n : n = Node("var", src, src)
  OBVIOUS
<1>p6. PICK o : o = [ n EXCEPT !.from = u.from, !.forms = fs ]
  OBVIOUS
<1>p7. PICK q : q = [ o EXCEPT !.field = u.field, !.at = u.field ]
  OBVIOUS
<1>p8. PICK r : r = Replace(q, "General", u.field)
  OBVIOUS
<1>p9. PICK m : m = IF u.from THEN r ELSE o
  OBVIOUS
<1>3. /\ work' = Append(SubSeq(work, 1, Depth - 0), m) /\ UNCHANGED next
      /\ var' = var /\ stored' = stored /\ stale' = stale
  BY <1>p1, <1>p2, <1>p3, <1>p4, <1>p5, <1>p6, <1>p7, <1>p8, <1>p9 DEF VarRef, Grow, Same
<1>4. src \in Texts /\ src.raw = empty /\ src.out = u.items /\ src.type = u.type /\ src.atom
  <2>1. empty \in SUBSET Nat
    BY <1>p2
  <2>. QED
    BY ONLY <1>2, <1>p3, <2>1 DEF Text, Texts
<1>5. fs \in SUBSET Forms /\ (u.op => "ConcatRead" \in fs)
  BY <1>p4 DEF If, Forms
<1>6. /\ n \in Nodes /\ n.shape = "var" /\ n.src = src /\ n.now = src /\ n.field = src
      /\ n.own = "none" /\ ~n.inner /\ ~n.low /\ ~n.ill /\ ~n.torn /\ n.seen = {}
      /\ n.tests = {} /\ n.lists = {}
  <2>1. "var" \in Shapes
    BY NamesAre
  <2>. QED
    BY ONLY <1>4, <1>p5, <2>1, NodeIs
<1>7. /\ o \in Nodes /\ (o.from <=> u.from) /\ o.field = n.field /\ o.shape = n.shape
      /\ o.now = n.now /\ o.src = n.src /\ o.own = n.own /\ o.seen = n.seen
      /\ (o.inner <=> n.inner) /\ (o.low <=> n.low) /\ (o.ill <=> n.ill)
      /\ (o.torn <=> n.torn) /\ o.tests = n.tests /\ o.lists = n.lists /\ o.forms = fs
  BY ONLY <1>2, <1>5, <1>6, <1>p6 DEF Nodes
<1>8. CASE u.from
  <2>1. /\ q \in Nodes /\ q.from /\ q.field = u.field /\ q.shape = o.shape
        /\ q.src = o.src /\ q.own = o.own /\ q.seen = o.seen
        /\ (q.inner <=> o.inner) /\ (q.low <=> o.low) /\ (q.ill <=> o.ill)
        /\ (q.torn <=> o.torn) /\ q.tests = o.tests /\ q.lists = o.lists /\ q.forms = o.forms
    BY ONLY <1>2, <1>7, <1>8, <1>p7 DEF Nodes
  <2>2. /\ r \in Nodes /\ Keeps(r, q) /\ (r.ill <=> q.ill) /\ (r.torn <=> q.torn)
        /\ r.forms = q.forms /\ r.now = u.field /\ r.seen = q.seen \union {"General"}
    <3>1. "General" \in Rules /\ "General" \notin q.seen
      BY <1>6, <1>7, <2>1, NamesAre
    <3>. QED
      BY ONLY <1>2, <1>p8, <2>1, <3>1, ReplaceFirst
  <2>3. m = r
    BY <1>8, <1>p9
  <2>4. /\ m \in Nodes /\ m.shape = "var" /\ m.src = src /\ m.now = u.field /\ m.from
        /\ m.field = u.field /\ m.own = "none" /\ ~m.inner /\ ~m.low /\ ~m.ill /\ ~m.torn
        /\ m.tests = {} /\ m.lists = {} /\ m.forms = fs
    BY ONLY <1>6, <1>7, <2>1, <2>2, <2>3 DEF Keeps
  <2>5. Items(m) = u.items /\ m.src.raw = {}
    BY <1>4, <2>4, <1>p2 DEF Items, Of
  <2>6. Of(m.field) = Items(m) \/ "ConcatRead" \in m.forms
    BY <1>1, <1>5, <1>8, <2>4, <2>5
  <2>7. Of(m.now) = Items(m) \/ Has(m, Losses)
    BY <2>4, <2>6 DEF Has, Losses
  <2>8. Sane(m)
    BY <1>1, <1>8, <2>4, <2>7 DEF Sane, Rereads, Expression
  <2>9. IsString(m.src) /\ ~Reads(m) /\ m.src.type # "chars"
    BY <1>1, <1>4, <2>4 DEF IsString, Strings, Reads
  <2>10. Operand(m).type = "string"
    BY <2>4, OperandIs
  <2>11. Wraps(u.field) /\ u.field.raw = {}
    BY <1>1, <1>8
  <2>12. Good(m)
    BY <2>4, <2>5, <2>6, <2>8, <2>9, <2>10, <2>11, StringIsGood
  <2>13. next' \in next .. MaxItems + 1
    BY <1>3, NextStays
  <2>. QED
    BY <1>1, <1>3, <2>4, <2>5, <2>12, <2>13, LeafStep
<1>9. CASE ~u.from
  <2>1. /\ o.shape = "var" /\ o.src = src /\ o.now = src /\ ~o.from
        /\ o.field = src /\ o.own = "none" /\ ~o.inner /\ ~o.low /\ ~o.ill /\ ~o.torn
        /\ o.tests = {} /\ o.lists = {} /\ m = o
    BY <1>6, <1>7, <1>9, <1>p9
  <2>2. /\ Items(o) = u.items /\ src.raw = {} /\ Of(src) = u.items
        /\ src.type = "string" /\ Wraps(src)
    BY <1>1, <1>4, <1>9, <2>1, <1>p2 DEF Items, Of, Wraps
  <2>3. Sane(o)
    BY <2>1, <2>2 DEF Sane, Rereads, Expression
  <2>4. IsString(o.src) /\ ~Reads(o)
    BY <2>1, <2>2 DEF IsString, Strings, Reads
  <2>5. Operand(o).type = "string"
    BY <2>1, <2>2 DEF Operand
  <2>6. Good(o)
    BY <1>7, <2>1, <2>2, <2>3, <2>4, <2>5, StringIsGood
  <2>7. next' \in next .. MaxItems + 1
    BY <1>3, NextStays
  <2>. QED
    BY <1>1, <1>3, <1>7, <2>1, <2>2, <2>6, <2>7, LeafStep
<1>. QED
  BY <1>8, <1>9

(* list->size() keeps the invariant: it is marked.                         *)
LEMMA PointerSizeStep ==
  ASSUME IInv, PointerSize
  PROVE  IInv'
<1>p1. PICK new : new = {next}
  OBVIOUS
<1>p2. PICK empty : empty = {}
  OBVIOUS
<1>0. Take(1)
  BY DEF PointerSize
<1>1. /\ next \in Nat /\ next \in next .. next' - 1 /\ next' \in next .. MaxItems + 1
  BY <1>0, ItemTaken
<1>2. /\ new \in SUBSET Nat /\ empty \in SUBSET Nat /\ "other" \in Types /\ "dot" \in Types
      /\ "SeqList" \in Rules /\ "General" \in Rules
  BY <1>1, <1>p1, <1>p2, NamesAre
<1>p3. PICK src : src = Text(empty, new, "other", TRUE)
  OBVIOUS
<1>p4. PICK dot : dot = Text(empty, new, "dot", TRUE)
  OBVIOUS
<1>p5. PICK n : n = Node("number", src, src)
  OBVIOUS
<1>p6. PICK o : o = [ n EXCEPT !.from = TRUE ]
  OBVIOUS
<1>p7. PICK q : q = Replace(o, "SeqList", dot)
  OBVIOUS
<1>p8. PICK r : r = Replace(q, "General", q.field)
  OBVIOUS
<1>p9. PICK bad \in BOOLEAN : bad <=> q.field # dot
  OBVIOUS
<1>p10. PICK s : s = Fail(r, bad)
  OBVIOUS
<1>p11. PICK fs : fs = {"PointerSize"}
  OBVIOUS
<1>p12. PICK m : m = Is(s, fs)
  OBVIOUS
<1>3. /\ work' = Append(SubSeq(work, 1, Depth - 0), m)
      /\ var' = var /\ stored' = stored /\ stale' = stale
  BY <1>p1, <1>p2, <1>p3, <1>p4, <1>p5, <1>p6, <1>p7, <1>p8, <1>p9, <1>p10, <1>p11, <1>p12
     DEF PointerSize, Grow, Same
<1>4. src \in Texts /\ src.raw = empty /\ src.out = new /\ src.type = "other"
  BY ONLY <1>2, <1>p3 DEF Text, Texts
<1>5. dot \in Texts
  BY ONLY <1>2, <1>p4 DEF Text, Texts
<1>6. /\ n \in Nodes /\ n.shape = "number" /\ n.src = src /\ n.field = src /\ n.at = src
      /\ n.own = "none" /\ ~n.inner /\ ~n.low /\ ~n.torn /\ n.seen = {}
      /\ n.tests = {} /\ n.lists = {}
  <2>1. "number" \in Shapes
    BY NamesAre
  <2>. QED
    BY ONLY <1>4, <1>p5, <2>1, NodeIs
<1>7. /\ o \in Nodes /\ o.field = n.field /\ o.at = n.at /\ o.shape = n.shape
      /\ o.src = n.src /\ o.own = n.own /\ o.seen = n.seen
      /\ (o.inner <=> n.inner) /\ (o.low <=> n.low)
      /\ (o.torn <=> n.torn) /\ o.tests = n.tests /\ o.lists = n.lists
  BY ONLY <1>6, <1>p6 DEF Nodes
<1>8. /\ q \in Nodes /\ Keeps(q, o) /\ (q.torn <=> o.torn) /\ q.seen = {"SeqList"}
  <2>1. "SeqList" \notin o.seen /\ o.seen = {}
    BY <1>6, <1>7
  <2>2. /\ q \in Nodes /\ Keeps(q, o) /\ (q.torn <=> o.torn) /\ q.seen = o.seen \union {"SeqList"}
    BY ONLY <1>2, <1>5, <1>7, <1>p7, <2>1, ReplaceFirst
  <2>. QED
    BY ONLY <2>1, <2>2
<1>9. q.field \in Texts /\ q.field = src
  BY ONLY <1>4, <1>6, <1>7, <1>8 DEF Keeps
<1>10. /\ r \in Nodes /\ Keeps(r, q) /\ (r.torn <=> q.torn) /\ r.now = src
  <2>1. "General" \notin q.seen
    BY <1>8
  <2>2. /\ r \in Nodes /\ Keeps(r, q) /\ (r.torn <=> q.torn) /\ r.now = q.field
    BY ONLY <1>2, <1>8, <1>9, <1>p8, <2>1, ReplaceFirst
  <2>. QED
    BY ONLY <1>9, <2>2
<1>11. s \in Nodes /\ Keeps(s, r) /\ s.now = r.now /\ (s.torn <=> r.torn)
  BY <1>10, <1>p10, FailIs
<1>12. m \in Nodes /\ Keeps(m, s) /\ m.now = s.now /\ (m.torn <=> s.torn) /\ m.forms = s.forms \union fs
  <2>1. fs \in SUBSET Forms
    BY <1>p11 DEF Forms
  <2>. QED
    BY ONLY <1>11, <1>p12, <2>1, IsIs
<1>13. /\ m.shape = "number" /\ m.src = src /\ m.now = src /\ m.field = src /\ m.at = src
       /\ m.own = "none" /\ ~m.inner /\ ~m.low /\ ~m.torn /\ m.tests = {} /\ m.lists = {}
  BY ONLY <1>6, <1>7, <1>8, <1>10, <1>11, <1>12 DEF Keeps
<1>14. Items(m) = {next} /\ Of(src) = {next} /\ src.raw = {}
  BY <1>4, <1>13, <1>p1, <1>p2 DEF Items, Of
<1>15. Has(m, Ills)
  BY <1>12, <1>p11 DEF Has, Ills
<1>16. Sane(m)
  BY <1>13, <1>14, <1>15 DEF Sane, Rereads, Expression
<1>17. ~IsString(m.src)
  BY <1>4, <1>13 DEF IsString, Strings
<1>18. Good(m)
  BY <1>12, <1>13, <1>14, <1>16, <1>17, NumberIsGood
<1>. QED
  BY <1>1, <1>3, <1>12, <1>13, <1>14, <1>18, LeafStep

(* An expression with one part or with two.                                 *)
LEMMA ExpressionOverOne ==
  ASSUME IInv, Depth >= 1, NEW e, e = Popped(0), e.shape \in Expression,
         NEW m \in Nodes, Good(m), m.lists = {}, e.forms \subseteq m.forms,
         work' = Append(SubSeq(work, 1, Depth - 1), m),
         next' \in next .. MaxItems + 1, stored' = stored, var' = var, stale' = stale,
         \A i \in Items(m) : i \in next .. next' - 1 \/ i \in Items(e)
  PROVE  IInv'
<1>1. 1 \in 0 .. Depth /\ \A j \in 0 .. 1 - 1 : Popped(j) = e
  BY OnePopped
<1>2. 0 \in 0 .. 1 - 1
  OBVIOUS
<1>3. \A j \in 0 .. 1 - 1 : Popped(j).shape \in Expression /\ Popped(j).forms \subseteq m.forms
  BY <1>1
<1>4. \A i \in Items(m) : i \in next .. next' - 1 \/ \E j \in 0 .. 1 - 1 : i \in Items(Popped(j))
  BY <1>1, <1>2
<1>. QED
  BY <1>1, <1>3, <1>4, ExpressionStep

(* A good expression over the two topmost ones keeps the invariant.        *)
LEMMA ExpressionOverTwo ==
  ASSUME IInv, Depth >= 2, NEW a, a = Popped(1), NEW b, b = Popped(0),
         a.shape \in Expression, b.shape \in Expression,
         NEW m \in Nodes, Good(m), m.lists = {}, m.forms = a.forms \union b.forms,
         work' = Append(SubSeq(work, 1, Depth - 2), m),
         next' \in next .. MaxItems + 1, stored' = stored, var' = var, stale' = stale,
         \A i \in Items(m) : i \in Items(a) \/ i \in Items(b)
  PROVE  IInv'
<1>1. 2 \in 0 .. Depth /\ \A j \in 0 .. 2 - 1 : Popped(j) \in {a, b}
  BY TwoPopped
<1>2. 0 \in 0 .. 2 - 1 /\ 1 \in 0 .. 2 - 1
  OBVIOUS
<1>3. \A j \in 0 .. 2 - 1 : Popped(j).shape \in Expression /\ Popped(j).forms \subseteq m.forms
  BY <1>1
<1>4. \A i \in Items(m) : i \in next .. next' - 1 \/ \E j \in 0 .. 2 - 1 : i \in Items(Popped(j))
  BY <1>2
<1>. QED
  BY <1>1, <1>3, <1>4, ExpressionStep

(* An expression over two, whose text is both texts, is sane.              *)
LEMMA TwoAreSane ==
  ASSUME NEW a \in Nodes, NEW b \in Nodes, Good(a), Good(b),
         a.shape \in Expression, b.shape \in Expression,
         NEW m \in Nodes, m.shape \in Expression, Items(m) = Items(a) \union Items(b),
         m.now.raw = a.now.raw \union b.now.raw, m.now.out = a.now.out \union b.now.out,
         m.seen = {}, m.low <=> (Rereads(a) \/ Rereads(b)),
         m.ill <=> (a.ill \/ b.ill), m.torn <=> (a.torn \/ b.torn),
         m.tests = a.tests \union b.tests, m.lists = a.lists \union b.lists,
         a.forms \subseteq m.forms, b.forms \subseteq m.forms
  PROVE  Sane(m)
<1>1. \A fs : Has(a, fs) \/ Has(b, fs) => Has(m, fs)
  BY DEF Has
<1>2. /\ a.tests = {} /\ a.lists = {}
      /\ a.torn => Has(a, Tearing)
      /\ a.ill => Has(a, Ills)
      /\ Rereads(a) => Has(a, Rereading)
      /\ a.now.raw = {} \/ Has(a, Raws)
      /\ Of(a.now) = Items(a) \/ Has(a, Losses)
  BY ONLY ExpressionIs, a.shape \in Expression, a \in Nodes, Good(a)
<1>3. /\ b.tests = {} /\ b.lists = {}
      /\ b.torn => Has(b, Tearing)
      /\ b.ill => Has(b, Ills)
      /\ Rereads(b) => Has(b, Rereading)
      /\ b.now.raw = {} \/ Has(b, Raws)
      /\ Of(b.now) = Items(b) \/ Has(b, Losses)
  BY ONLY ExpressionIs, b.shape \in Expression, b \in Nodes, Good(b)
<1>4. m.tests = {} /\ m.lists = {}
  BY <1>2, <1>3
<1>5. m.torn => Has(m, Tearing)
  BY <1>1, <1>2, <1>3
<1>6. m.ill => Has(m, Ills)
  BY <1>1, <1>2, <1>3
<1>7. Rereads(m) => Has(m, Rereading)
  BY <1>1, <1>2, <1>3 DEF Rereads
<1>8. m.now.raw = {} \/ Has(m, Raws)
  BY <1>1, <1>2, <1>3
<1>9. Of(m.now) = Items(m) \/ Has(m, Losses)
  <2>1. Of(m.now) = Of(a.now) \union Of(b.now)
    BY DEF Of
  <2>. QED
    BY <1>1, <1>2, <1>3, <2>1
<1>. QED
  BY <1>4, <1>5, <1>6, <1>7, <1>8, <1>9 DEF Sane

(* The type of a conditional is one of those of its sides.                 *)
LEMMA ChoiceTypeIs ==
  ASSUME NEW s \in Texts, NEW t \in Texts
  PROVE  /\ ChoiceType(s, t) \in Types
         /\ IsString(s) => ChoiceType(s, t) \in {"view", "string", "chars"}
BY DEF ChoiceType, Texts, Types, IsString, Strings

(* c ? a : b keeps the invariant: it is marked.                            *)
LEMMA ChoiceStep ==
  ASSUME IInv, Choice
  PROVE  IInv'
<1>p1. PICK a : a = Popped(1)
  OBVIOUS
<1>p2. PICK b : b = Popped(0)
  OBVIOUS
<1>0. Depth >= 2 /\ IsStringNode(a) /\ IsStringNode(b)
  BY <1>p1, <1>p2 DEF Choice
<1>1. a \in Nodes /\ Good(a) /\ b \in Nodes /\ Good(b)
  BY <1>0, <1>p1, <1>p2, TwoPopped
<1>2. /\ a.src \in Texts /\ a.now \in Texts /\ b.src \in Texts /\ b.now \in Texts
      /\ a.shape \in Expression /\ b.shape \in Expression /\ IsString(a.src)
  BY <1>0, <1>1 DEF Nodes, IsStringNode
<1>p3. PICK st : st = ChoiceType(a.src, b.src)
  OBVIOUS
<1>p4. PICK nt : nt = ChoiceType(a.now, b.now)
  OBVIOUS
<1>p5. PICK src : src = [ Both(a.src, b.src) EXCEPT !.type = st ]
  OBVIOUS
<1>p6. PICK now : now = [ Both(a.now, b.now) EXCEPT !.type = nt ]
  OBVIOUS
<1>p7. PICK n : n = Over("choice", src, now, {a, b})
  OBVIOUS
<1>p8. PICK fs : fs = {"ChoiceValue"}
  OBVIOUS
<1>p9. PICK m : m = Is(n, fs)
  OBVIOUS
<1>3. /\ work' = Append(SubSeq(work, 1, Depth - 2), m) /\ UNCHANGED next
      /\ var' = var /\ stored' = stored /\ stale' = stale
  BY <1>p1, <1>p2, <1>p3, <1>p4, <1>p5, <1>p6, <1>p7, <1>p8, <1>p9 DEF Choice, Grow, Same
<1>4. st \in Types /\ st \in {"view", "string", "chars"} /\ nt \in Types
  BY <1>2, <1>p3, <1>p4, ChoiceTypeIs
<1>5. /\ src \in Texts /\ src.type = st
      /\ src.raw = a.src.raw \union b.src.raw /\ src.out = a.src.out \union b.src.out
  BY <1>2, <1>4, <1>p5, BothIs, RetypedIs
<1>6. /\ now \in Texts
      /\ now.raw = a.now.raw \union b.now.raw /\ now.out = a.now.out \union b.now.out
  BY <1>2, <1>4, <1>p6, BothIs, RetypedIs
<1>7. /\ n \in Nodes /\ n.shape = "choice" /\ n.src = src /\ n.now = now /\ ~n.from
      /\ n.field = src /\ n.own = "none" /\ n.seen = {}
      /\ (n.inner <=> (Reads(a) \/ Reads(b))) /\ (n.low <=> (Rereads(a) \/ Rereads(b)))
      /\ (n.ill <=> (a.ill \/ b.ill)) /\ (n.torn <=> (a.torn \/ b.torn))
      /\ n.tests = a.tests \union b.tests /\ n.lists = a.lists \union b.lists
      /\ n.forms = a.forms \union b.forms
  <2>1. "choice" \in Shapes
    BY NamesAre
  <2>. QED
    BY ONLY <1>1, <1>5, <1>6, <1>p7, <2>1, OverTwo
<1>8. fs \in SUBSET Forms
  BY <1>p8 DEF Forms
<1>9. /\ m \in Nodes /\ Keeps(m, n) /\ m.now = n.now /\ m.seen = n.seen
      /\ (m.torn <=> n.torn) /\ (m.ill <=> n.ill) /\ m.forms = n.forms \union fs
  BY ONLY <1>7, <1>8, <1>p9, IsIs
<1>10. /\ m.shape = "choice" /\ m.src = src /\ m.now = now /\ ~m.from
       /\ m.field = src /\ m.own = "none" /\ m.seen = {}
       /\ (m.inner <=> (Reads(a) \/ Reads(b))) /\ (m.low <=> (Rereads(a) \/ Rereads(b)))
       /\ (m.ill <=> (a.ill \/ b.ill)) /\ (m.torn <=> (a.torn \/ b.torn))
       /\ m.tests = a.tests \union b.tests /\ m.lists = a.lists \union b.lists
  BY ONLY <1>7, <1>9 DEF Keeps
<1>11. a.forms \subseteq m.forms /\ b.forms \subseteq m.forms /\ "ChoiceValue" \in m.forms
  BY <1>7, <1>9, <1>p8
<1>12. Items(m) = Items(a) \union Items(b) /\ Of(m.field) = Items(m)
  BY <1>5, <1>10 DEF Items, Of
<1>13. Sane(m)
  <2>1. m.shape \in Expression
    BY <1>10 DEF Expression
  <2>. QED
    BY <1>1, <1>2, <1>6, <1>9, <1>10, <1>11, <1>12, <2>1, TwoAreSane
<1>14. Has(m, Ills)
  BY <1>11 DEF Has, Ills
<1>15. IsString(m.src)
  BY <1>4, <1>5, <1>10 DEF IsString, Strings
<1>16. Reads(m) => Has(m, Rereading)
  <2>1. (Reads(a) => Has(a, Rereading)) /\ (Reads(b) => Has(b, Rereading))
    BY <1>0, <1>1, StringNodeIs
  <2>. QED
    BY <1>10, <1>11, <2>1 DEF Reads, Has
<1>17. Good(m)
  BY <1>9, <1>10, <1>12, <1>13, <1>14, <1>15, <1>16, StringIsGood
<1>18. m.lists = {} /\ next' \in next .. MaxItems + 1
  BY <1>3, <1>13, NextStays DEF Sane
<1>19. 2 \in 0 .. Depth /\ \A j \in 0 .. 2 - 1 : Popped(j) \in {a, b}
  BY <1>0, <1>p1, <1>p2, TwoPopped
<1>20. \A j \in 0 .. 2 - 1 : Popped(j).shape \in Expression /\ Popped(j).forms \subseteq m.forms
  BY <1>2, <1>11, <1>19
<1>21. \A i \in Items(m) : i \in next .. next' - 1 \/ \E j \in 0 .. 2 - 1 : i \in Items(Popped(j))
  <2>1. 0 \in 0 .. 2 - 1 /\ 1 \in 0 .. 2 - 1
    OBVIOUS
  <2>. QED
    BY <1>12, <1>p1, <1>p2, <2>1
<1>. QED
  BY <1>3, <1>9, <1>17, <1>18, <1>19, <1>20, <1>21, ExpressionStep

(* a + b on numbers keeps the invariant.                                   *)
LEMMA PlusStep ==
  ASSUME IInv, Plus
  PROVE  IInv'
<1>p1. PICK a : a = Popped(1)
  OBVIOUS
<1>p2. PICK b : b = Popped(0)
  OBVIOUS
<1>0. Depth >= 2 /\ IsNumberNode(a) /\ IsNumberNode(b)
  BY <1>p1, <1>p2 DEF Plus
<1>1. a \in Nodes /\ Good(a) /\ b \in Nodes /\ Good(b)
  BY <1>0, <1>p1, <1>p2, TwoPopped
<1>2. /\ a.src \in Texts /\ a.now \in Texts /\ b.src \in Texts /\ b.now \in Texts
      /\ a.field \in Texts /\ b.field \in Texts
      /\ a.shape \in Expression /\ b.shape \in Expression
  BY <1>0, <1>1 DEF Nodes, IsNumberNode
<1>p3. PICK src : src = Both(a.src, b.src)
  OBVIOUS
<1>p4. PICK now : now = Both(a.now, b.now)
  OBVIOUS
<1>p5. PICK at : at = Both(a.field, b.field)
  OBVIOUS
<1>p6. PICK n : n = Over("plus", src, now, {a, b})
  OBVIOUS
<1>p7. PICK m : m = [ n EXCEPT !.at = at ]
  OBVIOUS
<1>3. /\ work' = Append(SubSeq(work, 1, Depth - 2), m) /\ UNCHANGED next
      /\ var' = var /\ stored' = stored /\ stale' = stale
  BY <1>p1, <1>p2, <1>p3, <1>p4, <1>p5, <1>p6, <1>p7 DEF Plus, Grow, Same
<1>4. /\ src \in Texts /\ src.type = "other"
      /\ src.raw = a.src.raw \union b.src.raw /\ src.out = a.src.out \union b.src.out
  BY <1>2, <1>p3, BothIs
<1>5. /\ now \in Texts
      /\ now.raw = a.now.raw \union b.now.raw /\ now.out = a.now.out \union b.now.out
  BY <1>2, <1>p4, BothIs
<1>6. /\ at \in Texts
      /\ at.raw = a.field.raw \union b.field.raw /\ at.out = a.field.out \union b.field.out
  BY <1>2, <1>p5, BothIs
<1>7. /\ n \in Nodes /\ n.shape = "plus" /\ n.src = src /\ n.now = now /\ ~n.from
      /\ n.field = src /\ n.own = "none" /\ n.seen = {}
      /\ (n.low <=> (Rereads(a) \/ Rereads(b)))
      /\ (n.ill <=> (a.ill \/ b.ill)) /\ (n.torn <=> (a.torn \/ b.torn))
      /\ n.tests = a.tests \union b.tests /\ n.lists = a.lists \union b.lists
      /\ n.forms = a.forms \union b.forms
  <2>1. "plus" \in Shapes
    BY NamesAre
  <2>. QED
    BY ONLY <1>1, <1>4, <1>5, <1>p6, <2>1, OverTwo
<1>8. /\ m \in Nodes /\ m.shape = "plus" /\ m.src = src /\ m.now = now /\ m.field = src
      /\ m.at = at /\ m.seen = {} /\ (m.low <=> (Rereads(a) \/ Rereads(b)))
      /\ (m.ill <=> (a.ill \/ b.ill)) /\ (m.torn <=> (a.torn \/ b.torn))
      /\ m.tests = a.tests \union b.tests /\ m.lists = a.lists \union b.lists
      /\ m.forms = a.forms \union b.forms
  BY ONLY <1>6, <1>7, <1>p7 DEF Nodes
<1>9. a.forms \subseteq m.forms /\ b.forms \subseteq m.forms
  BY <1>8
<1>10. Items(m) = Items(a) \union Items(b) /\ Of(m.field) = Items(m)
  BY <1>4, <1>8 DEF Items, Of
<1>11. Of(m.at) = Items(m)
  <2>1. Of(a.field) = Items(a) /\ Of(b.field) = Items(b)
    BY <1>0, <1>1, NumberNodeIs
  <2>. QED
    BY <1>6, <1>8, <1>10, <2>1 DEF Of
<1>12. Sane(m)
  <2>1. m.shape \in Expression
    BY <1>8 DEF Expression
  <2>. QED
    BY <1>1, <1>2, <1>5, <1>8, <1>9, <1>10, <2>1, TwoAreSane
<1>13. ~IsString(m.src)
  BY <1>4, <1>8 DEF IsString, Strings
<1>14. Good(m)
  BY <1>8, <1>10, <1>11, <1>12, <1>13, NumberIsGood
<1>15. m.lists = {} /\ next' \in next .. MaxItems + 1
  BY <1>3, <1>12, NextStays DEF Sane
<1>16. \A i \in Items(m) : i \in Items(a) \/ i \in Items(b)
  BY <1>10
<1>. QED
  BY <1>0, <1>2, <1>3, <1>8, <1>14, <1>15, <1>16, <1>p1, <1>p2, ExpressionOverTwo

(* An expression over one is sane if its text is that of its part or       *)
(* marked.                                                                 *)
LEMMA OneIsSane ==
  ASSUME NEW e \in Nodes, Good(e), e.shape \in Expression,
         NEW m \in Nodes, m.shape \in Expression, e.forms \subseteq m.forms,
         m.tests = e.tests, m.lists = e.lists, m.torn <=> e.torn,
         m.ill => e.ill \/ Has(m, Ills),
         Rereads(m) => Rereads(e) \/ Has(m, Rereading),
         m.now.raw \subseteq e.now.raw \/ Has(m, Raws),
         Of(m.now) = Items(m) \/ Has(m, Losses) \/ Of(e.now) # Items(e)
  PROVE  Sane(m)
<1>1. \A fs : Has(e, fs) => Has(m, fs)
  BY DEF Has
<1>2. /\ e.tests = {} /\ e.lists = {}
      /\ e.torn => Has(e, Tearing)
      /\ e.ill => Has(e, Ills)
      /\ Rereads(e) => Has(e, Rereading)
      /\ e.now.raw = {} \/ Has(e, Raws)
      /\ Of(e.now) = Items(e) \/ Has(e, Losses)
  BY ONLY ExpressionIs, e.shape \in Expression, e \in Nodes, Good(e)
<1>3. m.torn => Has(m, Tearing)
  BY <1>1, <1>2
<1>4. m.ill => Has(m, Ills)
  BY <1>1, <1>2
<1>5. Rereads(m) => Has(m, Rereading)
  BY <1>1, <1>2
<1>6. m.now.raw = {} \/ Has(m, Raws)
  BY <1>1, <1>2
<1>7. Of(m.now) = Items(m) \/ Has(m, Losses)
  BY <1>1, <1>2
<1>. QED
  BY <1>2, <1>3, <1>4, <1>5, <1>6, <1>7 DEF Sane

(* infos[e].product() keeps the invariant.                                 *)
LEMMA ActionLeafStep ==
  ASSUME IInv, ActionLeaf
  PROVE  IInv'
<1>p1. PICK e : e = Popped(0)
  OBVIOUS
<1>0. Depth >= 1 /\ IsNumberNode(e) /\ e.lists = {} /\ Take(1)
  BY <1>p1 DEF ActionLeaf
<1>1. e \in Nodes /\ Good(e)
  BY <1>0, <1>p1, OnePopped
<1>2. /\ e.src \in Texts /\ e.at \in Texts /\ e.shape \in Expression /\ e.forms \in SUBSET Forms
      /\ Of(e.at) = Items(e) /\ (e.shape \in {"field", "enum"} => e.at.raw = {})
  BY <1>0, <1>1, NumberNodeIs DEF Nodes, Good, Converted
<1>3. /\ next \in Nat /\ next \in next .. next' - 1 /\ next' \in next .. MaxItems + 1
  BY <1>0, ItemTaken
<1>p2. PICK new : new = {next}
  OBVIOUS
<1>p3. PICK empty : empty = {}
  OBVIOUS
<1>4. new \in SUBSET Nat /\ empty \in SUBSET Nat /\ "other" \in Types
  BY <1>3, <1>p2, <1>p3, NamesAre
<1>p4. PICK raw : raw = Text(new, empty, "other", TRUE)
  OBVIOUS
<1>p5. PICK bs : bs = Text(empty, new, "other", TRUE)
  OBVIOUS
<1>p6. PICK src : src = Both(e.src, raw)
  OBVIOUS
<1>p7. PICK field : field = Both(e.src, bs)
  OBVIOUS
<1>p8. PICK now : now = Both(e.at, bs)
  OBVIOUS
<1>p9. PICK n : n = Node("number", src, src)
  OBVIOUS
<1>p10. PICK o : o = [ n EXCEPT !.from = TRUE, !.field = field ]
  OBVIOUS
<1>p11. PICK q : q = Replace(o, "ActionDetail", now)
  OBVIOUS
<1>p12. PICK fs : fs = e.forms \union If(e.shape \notin {"field", "enum"}, "Index")
  OBVIOUS
<1>p13. PICK m : m = Is(q, fs)
  OBVIOUS
<1>5. /\ work' = Append(SubSeq(work, 1, Depth - 1), m)
      /\ var' = var /\ stored' = stored /\ stale' = stale
  BY <1>p1, <1>p2, <1>p3, <1>p4, <1>p5, <1>p6, <1>p7, <1>p8, <1>p9, <1>p10, <1>p11, <1>p12, <1>p13
     DEF ActionLeaf, Grow, Same
<1>6. raw \in Texts /\ raw.raw = new /\ raw.out = empty
  BY ONLY <1>4, <1>p4 DEF Text, Texts
<1>7. bs \in Texts /\ bs.raw = empty /\ bs.out = new
  BY ONLY <1>4, <1>p5 DEF Text, Texts
<1>8. src \in Texts /\ src.type = "other" /\ Of(src) = Of(e.src) \union new
  BY <1>2, <1>6, <1>p3, <1>p6, BothIs DEF Of
<1>9. field \in Texts /\ Of(field) = Of(e.src) \union new
  BY <1>2, <1>7, <1>p3, <1>p7, BothIs DEF Of
<1>10. now \in Texts /\ Of(now) = Of(e.at) \union new /\ now.raw = e.at.raw
  <2>1. now \in Texts /\ now.raw = e.at.raw \union bs.raw /\ now.out = e.at.out \union bs.out
    BY ONLY <1>2, <1>7, <1>p8, BothIs
  <2>2. now.raw = e.at.raw /\ now.out = e.at.out \union new
    BY <1>7, <1>p3, <2>1
  <2>. QED
    BY ONLY <2>1, <2>2 DEF Of
<1>11. /\ n \in Nodes /\ n.shape = "number" /\ n.src = src /\ n.at = src
       /\ n.own = "none" /\ ~n.inner /\ ~n.low /\ ~n.ill /\ ~n.torn /\ n.seen = {}
       /\ n.tests = {} /\ n.lists = {}
  <2>1. "number" \in Shapes
    BY NamesAre
  <2>. QED
    BY ONLY <1>8, <1>p9, <2>1, NodeIs
<1>12. /\ o \in Nodes /\ o.field = field /\ o.at = n.at /\ o.shape = n.shape
       /\ o.src = n.src /\ o.own = n.own /\ o.seen = n.seen
       /\ (o.inner <=> n.inner) /\ (o.low <=> n.low) /\ (o.ill <=> n.ill)
       /\ (o.torn <=> n.torn) /\ o.tests = n.tests /\ o.lists = n.lists
  BY ONLY <1>9, <1>11, <1>p10 DEF Nodes
<1>13. /\ q \in Nodes /\ Keeps(q, o) /\ (q.ill <=> o.ill) /\ (q.torn <=> o.torn) /\ q.now = now
  <2>1. "ActionDetail" \in Rules /\ "ActionDetail" \notin o.seen
    BY <1>11, <1>12, NamesAre
  <2>. QED
    BY ONLY <1>10, <1>12, <1>p11, <2>1, ReplaceFirst
<1>14. /\ fs \in SUBSET Forms /\ e.forms \subseteq fs
       /\ (e.shape \notin {"field", "enum"} => "Index" \in fs)
  BY <1>2, <1>p12 DEF Forms, If
<1>15. /\ m \in Nodes /\ Keeps(m, q) /\ m.now = q.now
       /\ (m.torn <=> q.torn) /\ (m.ill <=> q.ill) /\ m.forms = q.forms \union fs
  BY ONLY <1>13, <1>14, <1>p13, IsIs
<1>16. /\ m.shape = "number" /\ m.src = src /\ m.now = now /\ m.field = field /\ m.at = src
       /\ m.own = "none" /\ ~m.inner /\ ~m.low /\ ~m.ill /\ ~m.torn
       /\ m.tests = {} /\ m.lists = {}
  BY ONLY <1>11, <1>12, <1>13, <1>15 DEF Keeps
<1>17. e.forms \subseteq m.forms /\ (e.shape \notin {"field", "enum"} => "Index" \in m.forms)
  BY <1>14, <1>15
<1>18. Items(m) = Items(e) \union {next} /\ Of(m.field) = Items(m) /\ Of(m.at) = Items(m)
       /\ Of(m.now) = Items(m)
  BY <1>2, <1>8, <1>9, <1>10, <1>16, <1>p2 DEF Items
<1>19. m.now.raw = {} \/ Has(m, Raws)
  BY <1>2, <1>10, <1>16, <1>17 DEF Has, Raws
<1>20. Sane(m)
  BY <1>16, <1>18, <1>19 DEF Sane, Rereads, Expression
<1>21. ~IsString(m.src)
  BY <1>8, <1>16 DEF IsString, Strings
<1>22. Good(m)
  BY <1>15, <1>16, <1>18, <1>20, <1>21, NumberIsGood
<1>23. \A i \in Items(m) : i \in next .. next' - 1 \/ i \in Items(e)
  BY <1>3, <1>18
<1>. QED
  BY <1>0, <1>2, <1>3, <1>5, <1>15, <1>16, <1>17, <1>22, <1>23, <1>p1, ExpressionOverOne

(* x.length() keeps the invariant.                                         *)
LEMMA LengthStep ==
  ASSUME IInv, Length
  PROVE  IInv'
<1>p1. PICK e : e = Popped(0)
  OBVIOUS
<1>0. Depth >= 1 /\ IsStringNode(e) /\ e.shape # "chars"
  BY <1>p1 DEF Length
<1>1. e \in Nodes /\ Good(e)
  BY <1>0, <1>p1, OnePopped
<1>2. /\ e.src \in Texts /\ e.field \in Texts /\ e.shape \in Expression
      /\ e.forms \in SUBSET Forms /\ e.from \in BOOLEAN
  BY <1>0, <1>1 DEF Nodes, IsStringNode
<1>3. /\ (e.from => e.field.raw = {} /\ e.shape \in {"field", "var", "concat"})
      /\ (e.shape = "field" => e.from) /\ (e.shape = "var" => e.src.raw = {})
      /\ (Of(e.field) = Items(e) \/ e.shape = "concat" \/ "ConcatRead" \in e.forms)
  BY <1>0, <1>1 DEF Good, Sound, Converted, Complete
<1>p2. PICK src : src = [ e.src EXCEPT !.type = "other", !.atom = TRUE ]
  OBVIOUS
<1>p3. PICK bs : bs = [ e.field EXCEPT !.type = "other", !.atom = TRUE ]
  OBVIOUS
<1>p4. PICK n : n = Node("number", src, src)
  OBVIOUS
<1>p5. PICK o : o = [ n EXCEPT !.from = TRUE ]
  OBVIOUS
<1>p6. PICK q : q = IF e.from THEN Replace(o, "General", bs) ELSE n
  OBVIOUS
<1>p7. PICK fs : fs = e.forms \union If(e.shape \notin {"field", "var"}, "Receiver")
  OBVIOUS
<1>p8. PICK m : m = Is(q, fs)
  OBVIOUS
<1>4. /\ work' = Append(SubSeq(work, 1, Depth - 1), m) /\ UNCHANGED next
      /\ var' = var /\ stored' = stored /\ stale' = stale
  BY <1>p1, <1>p2, <1>p3, <1>p4, <1>p5, <1>p6, <1>p7, <1>p8 DEF Length, Grow, Same
<1>5. "other" \in Types /\ "number" \in Shapes /\ "General" \in Rules
  BY NamesAre
<1>6. src \in Texts /\ src.raw = e.src.raw /\ src.out = e.src.out /\ src.type = "other"
  BY ONLY <1>2, <1>5, <1>p2 DEF Texts
<1>7. bs \in Texts /\ bs.raw = e.field.raw /\ bs.out = e.field.out
  BY ONLY <1>2, <1>5, <1>p3 DEF Texts
<1>8. /\ n \in Nodes /\ n.shape = "number" /\ n.src = src /\ n.now = src /\ n.field = src
      /\ n.at = src /\ n.own = "none" /\ ~n.inner /\ ~n.low /\ ~n.ill /\ ~n.torn /\ n.seen = {}
      /\ n.tests = {} /\ n.lists = {}
  BY ONLY <1>5, <1>6, <1>p4, NodeIs
<1>9. /\ o \in Nodes /\ o.field = n.field /\ o.at = n.at /\ o.shape = n.shape
      /\ o.src = n.src /\ o.own = n.own /\ o.seen = n.seen
      /\ (o.inner <=> n.inner) /\ (o.low <=> n.low) /\ (o.ill <=> n.ill)
      /\ (o.torn <=> n.torn) /\ o.tests = n.tests /\ o.lists = n.lists
  BY ONLY <1>8, <1>p5 DEF Nodes
<1>10. /\ q \in Nodes /\ q.shape = "number" /\ q.src = src /\ q.field = src
       /\ q.at = src /\ q.own = "none" /\ ~q.inner /\ ~q.low /\ ~q.ill /\ ~q.torn
       /\ q.tests = {} /\ q.lists = {} /\ q.now = IF e.from THEN bs ELSE src
  <2>1. CASE e.from
    <3>1. q = Replace(o, "General", bs) /\ "General" \notin o.seen
      BY <1>8, <1>9, <1>p6, <2>1
    <3>2. q \in Nodes /\ Keeps(q, o) /\ (q.ill <=> o.ill) /\ (q.torn <=> o.torn) /\ q.now = bs
      BY ONLY <1>5, <1>7, <1>9, <3>1, ReplaceFirst
    <3>. QED
      BY ONLY <1>8, <1>9, <2>1, <3>2 DEF Keeps
  <2>2. CASE ~e.from
    BY <1>8, <1>p6, <2>2
  <2>. QED
    BY <2>1, <2>2
<1>11. /\ fs \in SUBSET Forms /\ e.forms \subseteq fs
       /\ (e.shape \notin {"field", "var"} => "Receiver" \in fs)
  BY <1>2, <1>p7 DEF Forms, If
<1>12. /\ m \in Nodes /\ Keeps(m, q) /\ m.now = q.now
       /\ (m.torn <=> q.torn) /\ (m.ill <=> q.ill) /\ m.forms = q.forms \union fs
  BY ONLY <1>10, <1>11, <1>p8, IsIs
<1>13. /\ m.shape = "number" /\ m.src = src /\ m.field = src /\ m.at = src
       /\ m.own = "none" /\ ~m.inner /\ ~m.low /\ ~m.ill /\ ~m.torn
       /\ m.tests = {} /\ m.lists = {} /\ m.now = IF e.from THEN bs ELSE src
  BY ONLY <1>10, <1>12 DEF Keeps
<1>14. e.forms \subseteq m.forms /\ (e.shape \notin {"field", "var"} => "Receiver" \in m.forms)
  BY <1>11, <1>12
<1>15. Items(m) = Items(e) /\ Of(src) = Items(m) /\ Of(bs) = Of(e.field)
  BY <1>6, <1>7, <1>13 DEF Items, Of
<1>16. m.now.raw = {} \/ Has(m, Raws)
  BY <1>3, <1>6, <1>7, <1>13, <1>14 DEF Has, Raws
<1>17. Of(m.now) = Items(m) \/ Has(m, Losses)
  <2>1. "Receiver" \in m.forms \/ "ConcatRead" \in m.forms => Has(m, Losses)
    BY DEF Has, Losses
  <2>. QED
    BY <1>3, <1>13, <1>14, <1>15, <2>1
<1>18. Sane(m)
  BY <1>13, <1>16, <1>17 DEF Sane, Rereads, Expression
<1>19. ~IsString(m.src)
  BY <1>6, <1>13 DEF IsString, Strings
<1>20. Good(m)
  BY <1>12, <1>13, <1>15, <1>18, <1>19, NumberIsGood
<1>21. \A i \in Items(m) : i \in next .. next' - 1 \/ i \in Items(e)
  BY <1>15
<1>22. next' \in next .. MaxItems + 1
  BY <1>4, NextStays
<1>. QED
  BY <1>0, <1>2, <1>4, <1>12, <1>13, <1>14, <1>20, <1>21, <1>22, <1>p1, ExpressionOverOne

(* A string as a parameter keeps the invariant.                            *)
LEMMA StrParamStep ==
  ASSUME IInv, StrParam
  PROVE  IInv'
<1>p1. PICK e : e = Popped(0)
  OBVIOUS
<1>0. Depth >= 1 /\ IsStringNode(e) /\ "Str" \notin e.seen
  BY <1>p1 DEF StrParam
<1>1. e \in Nodes /\ Good(e)
  BY <1>0, <1>p1, OnePopped
<1>2. /\ e.src \in Texts /\ e.now \in Texts /\ e.shape \in Expression /\ e.forms \in SUBSET Forms
      /\ (Reads(e) => Has(e, Rereading))
      /\ (e.shape \in {"field", "var", "call"} => Wraps(e.now))
  BY <1>0, <1>1, StringNodeIs DEF Nodes, IsStringNode, Good, Sound
<1>p2. PICK w : w = Wrap(e.now)
  OBVIOUS
<1>p3. PICK p : p = Replace(e, "Str", w)
  OBVIOUS
<1>3. w \in Texts /\ w.raw = e.now.raw /\ w.out = e.now.out
  BY <1>2, <1>p2, WrapIs
<1>4. /\ p \in Nodes /\ Keeps(p, e) /\ (p.ill <=> e.ill) /\ (p.torn <=> e.torn)
      /\ p.forms = e.forms /\ p.now = w
  <2>1. "Str" \in Rules
    BY NamesAre
  <2>. QED
    BY ONLY <1>0, <1>1, <1>3, <1>p3, <2>1, ReplaceFirst
<1>5. /\ p.src = e.src /\ p.tests = e.tests /\ p.lists = e.lists
      /\ (p.low <=> e.low) /\ (p.inner <=> e.inner) /\ p.own = e.own
  BY ONLY <1>4 DEF Keeps
<1>p4. PICK src : src = [ p.src EXCEPT !.type = "other", !.atom = TRUE ]
  OBVIOUS
<1>p5. PICK now : now = [ p.now EXCEPT !.type = "other", !.atom = TRUE ]
  OBVIOUS
<1>p6. PICK bad \in BOOLEAN : bad <=> ~Wraps(e.now)
  OBVIOUS
<1>p7. PICK n : n = Over("number", src, now, {p})
  OBVIOUS
<1>p8. PICK q : q = Fail(n, bad)
  OBVIOUS
<1>p9. PICK r : r = [ q EXCEPT !.own = "parts" ]
  OBVIOUS
<1>p10. PICK fs : fs = If(e.shape \notin {"field", "var", "call"}, "PartsOfText")
  OBVIOUS
<1>p11. PICK m : m = Is(r, fs)
  OBVIOUS
<1>6. /\ work' = Append(SubSeq(work, 1, Depth - 1), m) /\ UNCHANGED next
      /\ var' = var /\ stored' = stored /\ stale' = stale
  BY <1>p1, <1>p2, <1>p3, <1>p4, <1>p5, <1>p6, <1>p7, <1>p8, <1>p9, <1>p10, <1>p11
     DEF StrParam, Grow, Same
<1>7. "other" \in Types /\ "number" \in Shapes /\ p.src \in Texts /\ p.now \in Texts
  BY <1>2, <1>3, <1>4, <1>5, NamesAre
<1>8. src \in Texts /\ src.raw = p.src.raw /\ src.out = p.src.out /\ src.type = "other"
  BY ONLY <1>7, <1>p4 DEF Texts
<1>9. now \in Texts /\ now.raw = p.now.raw /\ now.out = p.now.out
  BY ONLY <1>7, <1>p5 DEF Texts
<1>10. /\ n \in Nodes /\ n.shape = "number" /\ n.src = src /\ n.now = now
       /\ n.field = src /\ n.at = src /\ n.seen = {} /\ (n.low <=> Rereads(p))
       /\ (n.ill <=> p.ill) /\ (n.torn <=> p.torn)
       /\ n.tests = p.tests /\ n.lists = p.lists /\ n.forms = p.forms
  <2>1. p \in Nodes /\ src \in Texts /\ now \in Texts /\ "number" \in Shapes
    BY <1>4, <1>7, <1>8, <1>9
  <2>. QED
    BY ONLY <1>p7, <2>1, OverOne
<1>11. /\ q \in Nodes /\ Keeps(q, n) /\ q.now = n.now /\ q.seen = n.seen
       /\ (q.torn <=> n.torn) /\ q.forms = n.forms /\ (q.ill <=> (n.ill \/ bad))
  BY <1>10, <1>p8, FailIs
<1>12. /\ r \in Nodes /\ r.shape = q.shape /\ r.src = q.src /\ r.now = q.now
       /\ r.field = q.field /\ r.at = q.at /\ r.seen = q.seen /\ (r.low <=> q.low)
       /\ (r.ill <=> q.ill) /\ (r.torn <=> q.torn)
       /\ r.tests = q.tests /\ r.lists = q.lists /\ r.forms = q.forms
  BY ONLY <1>11, <1>p9 DEF Nodes
<1>13. fs \in SUBSET Forms /\ (e.shape \notin {"field", "var", "call"} => "PartsOfText" \in fs)
  BY <1>p10 DEF Forms, If
<1>14. /\ m \in Nodes /\ Keeps(m, r) /\ m.now = r.now /\ m.seen = r.seen
       /\ (m.torn <=> r.torn) /\ (m.ill <=> r.ill) /\ m.forms = r.forms \union fs
  BY ONLY <1>12, <1>13, <1>p11, IsIs
<1>15. /\ m.shape = "number" /\ m.src = src /\ m.now = now /\ m.field = src /\ m.at = src
       /\ m.seen = {} /\ (m.low <=> Rereads(p)) /\ (m.ill <=> (e.ill \/ bad))
       /\ (m.torn <=> e.torn) /\ m.tests = e.tests /\ m.lists = e.lists
       /\ m.forms = e.forms \union fs
  BY ONLY <1>4, <1>5, <1>10, <1>11, <1>12, <1>14 DEF Keeps
<1>16. Items(m) = Items(e) /\ Of(src) = Items(m) /\ Of(m.now) = Of(e.now) /\ m.now.raw = e.now.raw
  BY <1>3, <1>4, <1>5, <1>8, <1>9, <1>15 DEF Items, Of
<1>17. m.ill => e.ill \/ Has(m, Ills)
  BY <1>2, <1>13, <1>15, <1>p6 DEF Has, Ills
<1>18. e.forms \subseteq m.forms
  BY <1>15
<1>19. Rereads(m) => Rereads(e) \/ Has(m, Rereading)
  <2>1. Rereads(m) => Rereads(p)
    BY <1>15 DEF Rereads
  <2>2. Rereads(p) => Rereads(e) \/ Reads(e)
    BY <1>5 DEF Rereads, Reads
  <2>3. Has(e, Rereading) => Has(m, Rereading)
    BY <1>18 DEF Has
  <2>. QED
    BY <1>2, <2>1, <2>2, <2>3
<1>20. Sane(m)
  <2>1. m.shape \in Expression
    BY <1>15 DEF Expression
  <2>. QED
    BY <1>1, <1>2, <1>14, <1>15, <1>16, <1>17, <1>18, <1>19, <2>1, OneIsSane
<1>21. ~IsString(m.src)
  BY <1>8, <1>15 DEF IsString, Strings
<1>22. Good(m)
  BY <1>14, <1>15, <1>16, <1>20, <1>21, NumberIsGood
<1>23. \A i \in Items(m) : i \in next .. next' - 1 \/ i \in Items(e)
  BY <1>16
<1>24. m.lists = {} /\ next' \in next .. MaxItems + 1
  BY <1>6, <1>20, NextStays DEF Sane
<1>. QED
  BY <1>0, <1>2, <1>6, <1>14, <1>18, <1>22, <1>23, <1>24, <1>p1, ExpressionOverOne

(* A call with a string keeps the invariant.                               *)
LEMMA CallStep ==
  ASSUME IInv, Call
  PROVE  IInv'
<1>p1. PICK e : e = Popped(0)
  OBVIOUS
<1>0. Depth >= 1 /\ IsStringNode(e)
  BY <1>p1 DEF Call
<1>1. e \in Nodes /\ Good(e)
  BY <1>0, <1>p1, OnePopped
<1>2. /\ e.src \in Texts /\ e.now \in Texts /\ e.shape \in Expression
      /\ (Reads(e) => Has(e, Rereading)) /\ "string" \in Types /\ "call" \in Shapes
  BY <1>0, <1>1, StringNodeIs, NamesAre DEF Nodes, IsStringNode
<1>p2. PICK src : src = [ e.src EXCEPT !.type = "string", !.atom = TRUE ]
  OBVIOUS
<1>p3. PICK now : now = [ e.now EXCEPT !.type = "string", !.atom = TRUE ]
  OBVIOUS
<1>p4. PICK bad \in BOOLEAN : bad <=> e.now.type = "view"
  OBVIOUS
<1>p5. PICK n : n = Over("call", src, now, {e})
  OBVIOUS
<1>p6. PICK q : q = Fail(n, bad)
  OBVIOUS
<1>p7. PICK fs : fs = {"CallOfString"}
  OBVIOUS
<1>p8. PICK m : m = Is(q, fs)
  OBVIOUS
<1>3. /\ work' = Append(SubSeq(work, 1, Depth - 1), m) /\ UNCHANGED next
      /\ var' = var /\ stored' = stored /\ stale' = stale
  BY <1>p1, <1>p2, <1>p3, <1>p4, <1>p5, <1>p6, <1>p7, <1>p8 DEF Call, Grow, Same
<1>4. src \in Texts /\ src.raw = e.src.raw /\ src.out = e.src.out /\ src.type = "string" /\ src.atom
  BY ONLY <1>2, <1>p2 DEF Texts
<1>5. now \in Texts /\ now.raw = e.now.raw /\ now.out = e.now.out /\ now.type = "string" /\ now.atom
  BY ONLY <1>2, <1>p3 DEF Texts
<1>6. /\ n \in Nodes /\ n.shape = "call" /\ n.src = src /\ n.now = now /\ ~n.from
      /\ n.field = src /\ n.own = "none" /\ n.seen = {}
      /\ (n.inner <=> Reads(e)) /\ (n.low <=> Rereads(e))
      /\ (n.ill <=> e.ill) /\ (n.torn <=> e.torn)
      /\ n.tests = e.tests /\ n.lists = e.lists /\ n.forms = e.forms
  BY ONLY <1>1, <1>2, <1>4, <1>5, <1>p5, OverOne
<1>7. /\ q \in Nodes /\ Keeps(q, n) /\ q.now = n.now /\ q.seen = n.seen
      /\ (q.torn <=> n.torn) /\ q.forms = n.forms /\ (q.ill <=> (n.ill \/ bad))
  BY <1>6, <1>p6, FailIs
<1>8. fs \in SUBSET Forms
  BY <1>p7 DEF Forms
<1>9. /\ m \in Nodes /\ Keeps(m, q) /\ m.now = q.now /\ m.seen = q.seen
      /\ (m.torn <=> q.torn) /\ (m.ill <=> q.ill) /\ m.forms = q.forms \union fs
  BY ONLY <1>7, <1>8, <1>p8, IsIs
<1>10. /\ m.shape = "call" /\ m.src = src /\ m.now = now /\ ~m.from
       /\ m.field = src /\ m.own = "none" /\ m.seen = {}
       /\ (m.inner <=> Reads(e)) /\ (m.low <=> Rereads(e)) /\ (m.torn <=> e.torn)
       /\ m.tests = e.tests /\ m.lists = e.lists /\ m.forms = e.forms \union fs
  BY ONLY <1>6, <1>7, <1>9 DEF Keeps
<1>11. Items(m) = Items(e) /\ Of(src) = Items(m) /\ Of(m.now) = Of(e.now) /\ m.now.raw = e.now.raw
  BY <1>4, <1>5, <1>10 DEF Items, Of
<1>12. e.forms \subseteq m.forms /\ Has(m, Ills)
  BY <1>10, <1>p7 DEF Has, Ills
<1>13. Rereads(m) => Rereads(e)
  BY <1>10 DEF Rereads
<1>14. Sane(m)
  <2>1. m.shape \in Expression
    BY <1>10 DEF Expression
  <2>. QED
    BY <1>1, <1>2, <1>9, <1>10, <1>11, <1>12, <1>13, <2>1, OneIsSane
<1>15. IsString(m.src)
  BY <1>4, <1>10 DEF IsString, Strings
<1>16. Reads(m) => Has(m, Rereading)
  <2>1. Has(e, Rereading) => Has(m, Rereading)
    BY <1>12 DEF Has
  <2>. QED
    BY <1>2, <1>10, <2>1 DEF Reads
<1>17. Wraps(m.now) /\ Wraps(m.field)
  BY <1>4, <1>5, <1>10 DEF Wraps
<1>18. Good(m)
  BY <1>9, <1>10, <1>11, <1>12, <1>14, <1>15, <1>16, <1>17, StringIsGood
<1>19. \A i \in Items(m) : i \in next .. next' - 1 \/ i \in Items(e)
  BY <1>11
<1>20. m.lists = {} /\ next' \in next .. MaxItems + 1
  BY <1>3, <1>14, NextStays DEF Sane
<1>. QED
  BY <1>0, <1>2, <1>3, <1>9, <1>12, <1>18, <1>19, <1>20, <1>p1, ExpressionOverOne

(* The name of an enum keeps the invariant: reading it again is marked.    *)
LEMMA EnumNameStep ==
  ASSUME IInv, EnumName
  PROVE  IInv'
<1>p1. PICK e : e = Popped(0)
  OBVIOUS
<1>0. Depth >= 1 /\ IsNumberNode(e) /\ Take(1)
  BY <1>p1 DEF EnumName
<1>1. e \in Nodes /\ Good(e)
  BY <1>0, <1>p1, OnePopped
<1>2. /\ e.src \in Texts /\ e.now \in Texts /\ e.shape \in Expression
      /\ "string" \in Types /\ "call" \in Shapes /\ "General" \in Rules
  BY <1>0, <1>1, NamesAre DEF Nodes, IsNumberNode
<1>3. /\ next \in Nat /\ next \in next .. next' - 1 /\ next' \in next .. MaxItems + 1
  BY <1>0, ItemTaken
<1>p2. PICK sr : sr = e.src.raw \union {next}
  OBVIOUS
<1>p3. PICK so : so = e.src.out \union {}
  OBVIOUS
<1>p4. PICK nr : nr = e.now.raw \union {next}
  OBVIOUS
<1>p5. PICK no : no = e.now.out \union {}
  OBVIOUS
<1>p6. PICK tr : tr = e.now.raw \union {}
  OBVIOUS
<1>p7. PICK to : to = e.now.out \union {next}
  OBVIOUS
<1>4. /\ sr \in SUBSET Nat /\ so \in SUBSET Nat /\ nr \in SUBSET Nat
      /\ no \in SUBSET Nat /\ tr \in SUBSET Nat /\ to \in SUBSET Nat
  BY <1>2, <1>3, <1>p2, <1>p3, <1>p4, <1>p5, <1>p6, <1>p7 DEF Texts
<1>p8. PICK src : src = Text(sr, so, "string", TRUE)
  OBVIOUS
<1>p9. PICK old : old = Text(nr, no, "string", TRUE)
  OBVIOUS
<1>p10. PICK now : now = Text(tr, to, "string", TRUE)
  OBVIOUS
<1>p11. PICK n : n = Over("call", src, old, {e})
  OBVIOUS
<1>p12. PICK o : o = [ n EXCEPT !.own = "self" ]
  OBVIOUS
<1>p13. PICK q : q = Replace(o, "General", now)
  OBVIOUS
<1>p14. PICK fs : fs = {"EnumText"}
  OBVIOUS
<1>p15. PICK m : m = Is(q, fs)
  OBVIOUS
<1>5. /\ work' = Append(SubSeq(work, 1, Depth - 1), m)
      /\ var' = var /\ stored' = stored /\ stale' = stale
  BY <1>p1, <1>p2, <1>p3, <1>p4, <1>p5, <1>p6, <1>p7, <1>p8, <1>p9, <1>p10, <1>p11, <1>p12,
     <1>p13, <1>p14, <1>p15 DEF EnumName, Grow, Same
<1>6. src \in Texts /\ src.raw = sr /\ src.out = so /\ src.type = "string" /\ src.atom
  BY ONLY <1>2, <1>4, <1>p8 DEF Text, Texts
<1>7. old \in Texts
  BY ONLY <1>2, <1>4, <1>p9 DEF Text, Texts
<1>8. now \in Texts /\ now.raw = tr /\ now.out = to /\ now.type = "string" /\ now.atom
  BY ONLY <1>2, <1>4, <1>p10 DEF Text, Texts
<1>9. /\ n \in Nodes /\ n.shape = "call" /\ n.src = src /\ ~n.from
      /\ n.field = src /\ n.seen = {} /\ (n.ill <=> e.ill) /\ (n.torn <=> e.torn)
      /\ n.tests = e.tests /\ n.lists = e.lists /\ n.forms = e.forms
  BY ONLY <1>1, <1>2, <1>6, <1>7, <1>p11, OverOne
<1>10. /\ o \in Nodes /\ o.shape = n.shape /\ o.src = n.src /\ (o.from <=> n.from)
       /\ o.field = n.field /\ o.seen = n.seen /\ (o.ill <=> n.ill) /\ (o.torn <=> n.torn)
       /\ o.tests = n.tests /\ o.lists = n.lists /\ o.forms = n.forms
  BY ONLY <1>9, <1>p12 DEF Nodes
<1>11. /\ q \in Nodes /\ Keeps(q, o) /\ (q.ill <=> o.ill) /\ (q.torn <=> o.torn)
       /\ q.forms = o.forms /\ q.now = now
  <2>1. "General" \notin o.seen
    BY <1>9, <1>10
  <2>. QED
    BY ONLY <1>2, <1>8, <1>10, <1>p13, <2>1, ReplaceFirst
<1>12. fs \in SUBSET Forms
  BY <1>p14 DEF Forms
<1>13. /\ m \in Nodes /\ Keeps(m, q) /\ m.now = q.now
       /\ (m.torn <=> q.torn) /\ (m.ill <=> q.ill) /\ m.forms = q.forms \union fs
  BY ONLY <1>11, <1>12, <1>p15, IsIs
<1>14. /\ m.shape = "call" /\ m.src = src /\ m.now = now /\ ~m.from /\ m.field = src
       /\ (m.ill <=> e.ill) /\ (m.torn <=> e.torn)
       /\ m.tests = e.tests /\ m.lists = e.lists /\ m.forms = e.forms \union fs
  BY ONLY <1>9, <1>10, <1>11, <1>13 DEF Keeps
<1>15. /\ Items(m) = Items(e) \union {next} /\ Of(src) = Items(m)
       /\ Of(m.now) = Of(e.now) \union {next} /\ m.now.raw = e.now.raw
  BY <1>6, <1>8, <1>14, <1>p2, <1>p3, <1>p6, <1>p7 DEF Items, Of
<1>16. e.forms \subseteq m.forms /\ Has(m, Rereading)
  BY <1>14, <1>p14 DEF Has, Rereading
<1>17. Sane(m)
  <2>1. m.shape \in Expression
    BY <1>14 DEF Expression
  <2>. QED
    BY <1>1, <1>2, <1>13, <1>14, <1>15, <1>16, <2>1, OneIsSane
<1>18. IsString(m.src)
  BY <1>6, <1>14 DEF IsString, Strings
<1>19. Wraps(m.now) /\ Wraps(m.field)
  BY <1>6, <1>8, <1>14 DEF Wraps
<1>20. Operand(m).type = "string" /\ m.src.type = "string" /\ m.now.type = "string"
  BY <1>6, <1>8, <1>14 DEF Operand
<1>21. Good(m)
  BY <1>13, <1>14, <1>15, <1>16, <1>17, <1>18, <1>19, <1>20, StringIsGood
<1>22. \A i \in Items(m) : i \in next .. next' - 1 \/ i \in Items(e)
  BY <1>3, <1>15
<1>23. m.lists = {}
  BY <1>17 DEF Sane
<1>. QED
  BY <1>0, <1>2, <1>3, <1>5, <1>13, <1>16, <1>21, <1>22, <1>23, <1>p1, ExpressionOverOne

(* The hash of a string keeps the invariant: reading it again is marked    *)
(* unless it is of a name.                                                 *)
LEMMA HashStep ==
  ASSUME IInv, NEW h, Hash(h)
  PROVE  IInv'
<1>p1. PICK e : e = Popped(0)
  OBVIOUS
<1>0. Depth >= 1 /\ IsStringNode(e)
  BY <1>p1 DEF Hash
<1>1. e \in Nodes /\ Good(e)
  BY <1>0, <1>p1, OnePopped
<1>2. /\ e.src \in Texts /\ e.now \in Texts /\ e.shape \in Expression
      /\ (Reads(e) => Has(e, Rereading)) /\ (e.shape = "var" => e.src.raw = {})
      /\ "other" \in Types /\ "number" \in Shapes /\ "HashFn" \in Rules
  BY <1>0, <1>1, StringNodeIs, NamesAre DEF Nodes, IsStringNode, Good, Converted
<1>p2. PICK src : src = [ e.src EXCEPT !.type = "other", !.atom = TRUE ]
  OBVIOUS
<1>p3. PICK now : now = [ e.now EXCEPT !.type = "other", !.atom = TRUE ]
  OBVIOUS
<1>p4. PICK n : n = Over("number", src, now, {e})
  OBVIOUS
<1>p5. PICK read : read = IF e.shape = "var" THEN src ELSE now
  OBVIOUS
<1>p6. PICK own : own = IF e.shape = "var" THEN "none" ELSE "parts"
  OBVIOUS
<1>p7. PICK q : q = Replace(n, "HashFn", read)
  OBVIOUS
<1>p8. PICK r : r = [ q EXCEPT !.own = own ]
  OBVIOUS
<1>p9. PICK fs : fs = If(e.shape # "var", "HashOfText")
  OBVIOUS
<1>p10. PICK known : known = Is(r, fs)
  OBVIOUS
<1>p11. PICK bad \in BOOLEAN : bad
  OBVIOUS
<1>p12. PICK f : f = Fail(n, bad)
  OBVIOUS
<1>p13. PICK gs : gs = {"HashName"}
  OBVIOUS
<1>p14. PICK other : other = Is(f, gs)
  OBVIOUS
<1>p15. PICK m : m = IF h = "hash_fn" THEN known ELSE other
  OBVIOUS
<1>3. /\ work' = Append(SubSeq(work, 1, Depth - 1), m) /\ UNCHANGED next
      /\ var' = var /\ stored' = stored /\ stale' = stale
  <2>1. UNCHANGED next /\ var' = var /\ stored' = stored /\ stale' = stale
    BY DEF Hash, Same
  <2>2. CASE h = "hash_fn"
    BY <1>p1, <1>p2, <1>p3, <1>p4, <1>p5, <1>p6, <1>p7, <1>p8, <1>p9, <1>p10, <1>p15, <2>1, <2>2
       DEF Hash, Grow
  <2>3. CASE h # "hash_fn"
    <3>1. bad = TRUE
      BY <1>p11
    <3>. QED
      BY <1>p1, <1>p2, <1>p3, <1>p4, <1>p12, <1>p13, <1>p14, <1>p15, <2>1, <2>3, <3>1
         DEF Hash, Grow
  <2>. QED
    BY <2>2, <2>3, <2>1
<1>4. src \in Texts /\ src.raw = e.src.raw /\ src.out = e.src.out /\ src.type = "other"
  BY ONLY <1>2, <1>p2 DEF Texts
<1>5. now \in Texts /\ now.raw = e.now.raw /\ now.out = e.now.out
  BY ONLY <1>2, <1>p3 DEF Texts
<1>6. /\ n \in Nodes /\ n.shape = "number" /\ n.src = src /\ n.now = now
      /\ n.field = src /\ n.at = src /\ n.own = "none" /\ n.seen = {}
      /\ (n.inner <=> Reads(e)) /\ (n.low <=> Rereads(e))
      /\ (n.ill <=> e.ill) /\ (n.torn <=> e.torn)
      /\ n.tests = e.tests /\ n.lists = e.lists /\ n.forms = e.forms
  <2>1. src \in Texts /\ now \in Texts /\ "number" \in Shapes
    BY <1>2, <1>4, <1>5
  <2>. QED
    BY ONLY <1>1, <1>p4, <2>1, OverOne
<1>7. CASE h = "hash_fn"
  <2>1. read \in Texts /\ "HashFn" \notin n.seen
    BY <1>4, <1>5, <1>6, <1>p5
  <2>2. /\ q \in Nodes /\ Keeps(q, n) /\ (q.ill <=> n.ill) /\ (q.torn <=> n.torn)
        /\ q.forms = n.forms /\ q.now = read
    BY ONLY <1>2, <1>6, <1>p7, <2>1, ReplaceFirst
  <2>3. own \in {"none", "parts"} /\ (e.shape = "var" => own = "none")
    BY <1>p6
  <2>4. /\ r \in Nodes /\ r.shape = q.shape /\ r.src = q.src /\ r.now = q.now
        /\ r.field = q.field /\ r.at = q.at /\ r.own = own
        /\ (r.inner <=> q.inner) /\ (r.low <=> q.low) /\ (r.ill <=> q.ill) /\ (r.torn <=> q.torn)
        /\ r.tests = q.tests /\ r.lists = q.lists /\ r.forms = q.forms
    BY ONLY <1>p8, <2>2, <2>3 DEF Nodes
  <2>5. fs \in SUBSET Forms /\ (e.shape # "var" => "HashOfText" \in fs)
    BY <1>p9 DEF Forms, If
  <2>6. /\ known \in Nodes /\ Keeps(known, r) /\ known.now = r.now
        /\ (known.torn <=> r.torn) /\ (known.ill <=> r.ill) /\ known.forms = r.forms \union fs
    BY ONLY <1>p10, <2>4, <2>5, IsIs
  <2>7. m = known
    BY <1>7, <1>p15
  <2>8. /\ m \in Nodes /\ m.shape = "number" /\ m.src = src /\ m.now = read /\ m.field = src
        /\ m.at = src /\ m.own = own /\ (m.inner <=> Reads(e)) /\ (m.low <=> Rereads(e))
        /\ (m.ill <=> e.ill) /\ (m.torn <=> e.torn)
        /\ m.tests = e.tests /\ m.lists = e.lists /\ m.forms = e.forms \union fs
    BY ONLY <1>6, <2>2, <2>4, <2>6, <2>7 DEF Keeps
  <2>9. Items(m) = Items(e) /\ Of(src) = Items(m)
    BY <1>4, <2>8 DEF Items, Of
  <2>10. e.forms \subseteq m.forms /\ (e.shape # "var" => "HashOfText" \in m.forms)
    BY <2>5, <2>8
  <2>11. m.now.raw \subseteq e.now.raw
    BY <1>2, <1>4, <1>5, <1>p5, <2>8
  <2>12. Of(m.now) = Items(m) \/ Of(e.now) # Items(e)
    BY <1>5, <1>p5, <2>8, <2>9 DEF Of
  <2>13. Rereads(m) => Rereads(e) \/ Has(m, Rereading)
    <3>1. CASE e.shape = "var"
      <4>1. Rereads(m) => Rereads(e) \/ Reads(e)
        BY <2>3, <2>8, <3>1 DEF Rereads
      <4>2. Has(e, Rereading) => Has(m, Rereading)
        BY <2>10 DEF Has
      <4>. QED
        BY <1>2, <4>1, <4>2
    <3>2. CASE e.shape # "var"
      BY <2>10, <3>2 DEF Has, Rereading
    <3>. QED
      BY <3>1, <3>2
  <2>14. Sane(m)
    <3>1. m.shape \in Expression
      BY <2>8 DEF Expression
    <3>. QED
      BY <1>1, <1>2, <2>8, <2>10, <2>11, <2>12, <2>13, <3>1, OneIsSane
  <2>15. ~IsString(m.src)
    BY <1>4, <2>8 DEF IsString, Strings
  <2>16. Good(m)
    BY <2>8, <2>9, <2>14, <2>15, NumberIsGood
  <2>17. \A i \in Items(m) : i \in next .. next' - 1 \/ i \in Items(e)
    BY <2>9
  <2>18. m.lists = {} /\ next' \in next .. MaxItems + 1
    BY <1>3, <2>14, NextStays DEF Sane
  <2>. QED
    BY <1>0, <1>2, <1>3, <2>8, <2>10, <2>16, <2>17, <2>18, <1>p1, ExpressionOverOne
<1>8. CASE h # "hash_fn"
  <2>1. /\ f \in Nodes /\ Keeps(f, n) /\ f.now = n.now /\ f.seen = n.seen
        /\ (f.torn <=> n.torn) /\ f.forms = n.forms
    BY <1>6, <1>p12, FailIs
  <2>2. gs \in SUBSET Forms
    BY <1>p13 DEF Forms
  <2>3. /\ other \in Nodes /\ Keeps(other, f) /\ other.now = f.now /\ other.seen = f.seen
        /\ (other.torn <=> f.torn) /\ other.forms = f.forms \union gs
    BY ONLY <1>p14, <2>1, <2>2, IsIs
  <2>4. m = other
    BY <1>8, <1>p15
  <2>5. /\ m \in Nodes /\ m.shape = "number" /\ m.src = src /\ m.now = now /\ m.field = src
        /\ m.at = src /\ m.seen = {} /\ (m.low <=> Rereads(e)) /\ (m.torn <=> e.torn)
        /\ m.tests = e.tests /\ m.lists = e.lists /\ m.forms = e.forms \union gs
    BY ONLY <1>6, <2>1, <2>3, <2>4 DEF Keeps
  <2>6. Items(m) = Items(e) /\ Of(src) = Items(m) /\ Of(m.now) = Of(e.now) /\ m.now.raw = e.now.raw
    BY <1>4, <1>5, <2>5 DEF Items, Of
  <2>7. e.forms \subseteq m.forms /\ Has(m, Ills)
    BY <2>5, <1>p13 DEF Has, Ills
  <2>8. Rereads(m) => Rereads(e)
    BY <2>5 DEF Rereads
  <2>9. Sane(m)
    <3>1. m.shape \in Expression
      BY <2>5 DEF Expression
    <3>. QED
      BY <1>1, <1>2, <2>5, <2>6, <2>7, <2>8, <3>1, OneIsSane
  <2>10. ~IsString(m.src)
    BY <1>4, <2>5 DEF IsString, Strings
  <2>11. Good(m)
    BY <2>5, <2>6, <2>9, <2>10, NumberIsGood
  <2>12. \A i \in Items(m) : i \in next .. next' - 1 \/ i \in Items(e)
    BY <2>6
  <2>13. m.lists = {} /\ next' \in next .. MaxItems + 1
    BY <1>3, <2>9, NextStays DEF Sane
  <2>. QED
    BY <1>0, <1>2, <1>3, <2>5, <2>7, <2>11, <2>12, <2>13, <1>p1, ExpressionOverOne
<1>. QED
  BY <1>7, <1>8

-----------------------------------------------------------------------------
(* Statements.                                                              *)

(* A node that is no expression and no test is good if its text holds, is  *)
(* converted and complete, or is marked.                                   *)
LEMMA StatementIsGood ==
  ASSUME NEW m \in Nodes, m.shape \in {"stmt", "block", "if", "loop", "none"},
         m.torn => Has(m, Tearing), m.ill => Has(m, Ills),
         m.now.raw \subseteq Waits(m) \/ Has(m, Raws),
         m.lists # {} => "SizedVector" \in m.forms,
         Items(m) = Of(m.now) \union Superseded(m) \/ Has(m, Losses),
         \A t \in m.tests : t[2] \in Items(m)
  PROVE  Good(m)
<1>1. m.shape \notin Expression /\ m.shape # "test"
  BY DEF Expression
<1>2. ~IsStringNode(m) /\ ~IsNumberNode(m)
  BY <1>1 DEF IsStringNode, IsNumberNode
<1>3. Guarded(m)
  BY <1>1 DEF Guarded
<1>4. Whole(m)
  BY <1>1 DEF Whole
<1>5. Sound(m)
  BY <1>2 DEF Sound
<1>6. Converted(m)
  <2>1. m.shape \notin {"field", "var", "chars", "enum"}
    OBVIOUS
  <2>. QED
    BY <1>2, <2>1 DEF Converted
<1>7. Complete(m)
  BY <1>1, <1>2 DEF Complete
<1>. QED
  BY <1>3, <1>4, <1>5, <1>6, <1>7 DEF Good

(* A statement of one expression.                                           *)
LEMMA OneStatementIsGood ==
  ASSUME NEW e \in Nodes, Good(e), e.shape \in Expression,
         NEW m \in Nodes, m.shape = "stmt", e.forms \subseteq m.forms,
         m.tests = e.tests, m.lists # {} => "SizedVector" \in m.forms,
         m.torn <=> e.torn, m.ill => e.ill \/ Has(m, Ills),
         m.now.raw \subseteq e.now.raw \/ Has(m, Raws),
         Of(m.now) = Items(m) \/ Has(m, Losses) \/ Of(e.now) # Items(e)
  PROVE  Good(m)
<1>1. \A fs : Has(e, fs) => Has(m, fs)
  BY DEF Has
<1>2. /\ e.tests = {} /\ e.lists = {}
      /\ e.torn => Has(e, Tearing)
      /\ e.ill => Has(e, Ills)
      /\ e.now.raw = {} \/ Has(e, Raws)
      /\ Of(e.now) = Items(e) \/ Has(e, Losses)
  BY ONLY ExpressionIs, e.shape \in Expression, e \in Nodes, Good(e)
<1>3. m.tests = {} /\ Superseded(m) = {}
  BY <1>2 DEF Superseded
<1>4. m.torn => Has(m, Tearing)
  BY <1>1, <1>2
<1>5. m.ill => Has(m, Ills)
  BY <1>1, <1>2
<1>6. m.now.raw \subseteq Waits(m) \/ Has(m, Raws)
  BY <1>1, <1>2
<1>7. Items(m) = Of(m.now) \union Superseded(m) \/ Has(m, Losses)
  BY <1>1, <1>2, <1>3
<1>. QED
  BY <1>3, <1>4, <1>5, <1>6, <1>7, StatementIsGood

(* What else a step may change: variables and stored lambdas.               *)
LEMMA SteppedAll ==
  ASSUME IInv, Extends, NEW k \in 0 .. Depth, NEW m \in Nodes, Good(m), Placed(m)',
         work' = Append(SubSeq(work, 1, Depth - k), m),
         DOMAIN stored' \subseteq 1 .. next' - 1,
         \A i \in DOMAIN stored' : stored'[i] \subseteq (1 .. next' - 1) \ DOMAIN stored',
         \A j \in 0 .. k - 1 : Popped(j).forms \subseteq m.forms,
         \A r \in stale' : r \in stale \/ r[1] = "lambda" \/ Has(m, Rereading),
         VarsKnown', DOMAIN var' \subseteq Vars, \A v \in DOMAIN var' : var'[v] \in Known
  PROVE  IInv'
<1>1. /\ TypeInv /\ VarsKnown /\ NodeInv /\ RereadsGuarded
      /\ next \in Nat /\ next >= 1 /\ next' \in next .. MaxItems + 1
  BY RuleChainAssumption DEF IInv, TypeInv, Extends
<1>2. next' \in 1 .. MaxItems + 1
  BY <1>1, RuleChainAssumption
<1>3. work' \in Seq(Nodes) /\ NodeInv' /\ RereadsGuarded'
  BY <1>1, Grown
<1>. QED
  BY <1>2, <1>3 DEF IInv, TypeInv

(* A step that numbers nothing and stores no lambda.                       *)
LEMMA Unextended ==
  ASSUME IInv, UNCHANGED <<next, stored>>
  PROVE  /\ Extends
         /\ DOMAIN stored' \subseteq 1 .. next' - 1
         /\ \A i \in DOMAIN stored' : stored'[i] \subseteq (1 .. next' - 1) \ DOMAIN stored'
<1>1. next' \in next .. MaxItems + 1
  BY NextStays
<1>2. /\ DOMAIN stored \subseteq 1 .. next - 1
      /\ \A i \in DOMAIN stored : stored[i] \subseteq (1 .. next - 1) \ DOMAIN stored
  BY DEF IInv, TypeInv
<1>3. next' - 1 = next - 1 /\ stored' = stored
  OBVIOUS
<1>4. DOMAIN stored' \intersect (1 .. next - 1) = DOMAIN stored
  BY <1>2, <1>3
<1>. QED
  BY <1>1, <1>2, <1>3, <1>4 DEF Extends

(* A statement of the topmost expression, which may be read again, and      *)
(* what becomes of the variables.                                           *)
LEMMA OneStatementStep ==
  ASSUME IInv, Depth >= 1, NEW e, e = Popped(0), e.shape \in Expression,
         NEW m \in Nodes, Good(m), m.shape = "stmt", m.lists = {}, e.forms \subseteq m.forms,
         Items(m) = Items(e), work' = Append(SubSeq(work, 1, Depth - 1), m),
         UNCHANGED <<next, stored>>, stale' = stale \/ Again(e),
         VarsKnown', DOMAIN var' \subseteq Vars, \A v \in DOMAIN var' : var'[v] \in Known
  PROVE  IInv'
<1>1. /\ e \in Nodes /\ Good(e) /\ Placed(e) /\ 1 \in 0 .. Depth
      /\ \A j \in 0 .. 1 - 1 : Popped(j) = e
  BY OnePopped
<1>2. /\ Extends /\ DOMAIN stored' \subseteq 1 .. next' - 1
      /\ \A i \in DOMAIN stored' : stored'[i] \subseteq (1 .. next' - 1) \ DOMAIN stored'
  BY Unextended
<1>3. Placed(m)'
  <2>1. Placed(e)'
    BY <1>1, <1>2, PlacedStays DEF IInv
  <2>2. m.shape \notin Expression
    BY DEF Expression
  <2>. QED
    BY <2>1, <2>2 DEF Placed
<1>4. \A j \in 0 .. 1 - 1 : Popped(j).forms \subseteq m.forms
  BY <1>1
<1>5. \A r \in stale' : r \in stale \/ r[1] = "lambda" \/ Has(m, Rereading)
  <2>1. CASE stale' = stale
    BY <2>1
  <2>2. CASE Again(e)
    <3>1. CASE Rereads(e)
      <4>1. Has(e, Rereading)
        BY <1>1, <3>1, ExpressionIs
      <4>. QED
        BY <4>1 DEF Has
    <3>2. CASE ~Rereads(e)
      BY <2>2, <3>2 DEF Again, If
    <3>. QED
      BY <3>1, <3>2
  <2>. QED
    BY <2>1, <2>2
<1>. QED
  BY <1>1, <1>2, <1>3, <1>4, <1>5, SteppedAll

(* The variables are known as before.                                      *)
LEMMA VarsUnchanged ==
  ASSUME IInv, UNCHANGED <<var, next, stored>>
  PROVE  VarsKnown' /\ DOMAIN var' \subseteq Vars /\ \A v \in DOMAIN var' : var'[v] \in Known
<1>1. Extends
  BY Unextended
<1>. QED
  BY <1>1, VarsStay DEF IInv

(* auto n = e keeps the invariant: the second visit of e reads nothing     *)
(* that is not marked.                                                     *)
LEMMA DeclareNumberStep ==
  ASSUME IInv, DeclareNumber
  PROVE  IInv'
<1>p1. PICK e : e = Popped(0)
  OBVIOUS
<1>0. Depth >= 1 /\ IsNumberNode(e)
  BY <1>p1 DEF DeclareNumber
<1>1. e \in Nodes /\ Good(e)
  BY <1>0, <1>p1, OnePopped
<1>2. /\ e.src \in Texts /\ e.now \in Texts /\ e.shape \in Expression /\ "stmt" \in Shapes
  BY <1>0, <1>1, NamesAre DEF Nodes, IsNumberNode
<1>p2. PICK m : m = Over("stmt", e.src, e.now, {e})
  OBVIOUS
<1>3. /\ work' = Append(SubSeq(work, 1, Depth - 1), m) /\ UNCHANGED <<next, stored>>
      /\ UNCHANGED var /\ Again(e)
  BY <1>p1, <1>p2 DEF DeclareNumber, Grow
<1>4. /\ m \in Nodes /\ m.shape = "stmt" /\ m.src = e.src /\ m.now = e.now
      /\ (m.ill <=> e.ill) /\ (m.torn <=> e.torn)
      /\ m.tests = e.tests /\ m.lists = e.lists /\ m.forms = e.forms
  <2>1. e \in Nodes /\ e.src \in Texts /\ e.now \in Texts /\ "stmt" \in Shapes
    BY <1>1, <1>2
  <2>. QED
    BY ONLY <1>p2, <2>1, OverOne
<1>5. Items(m) = Items(e) /\ m.lists = {}
  BY <1>1, <1>2, <1>4, ExpressionIs DEF Items
<1>6. Good(m)
  BY <1>1, <1>2, <1>4, <1>5, OneStatementIsGood
<1>7. VarsKnown' /\ DOMAIN var' \subseteq Vars /\ \A v \in DOMAIN var' : var'[v] \in Known
  BY <1>3, VarsUnchanged
<1>. QED
  BY <1>0, <1>2, <1>3, <1>4, <1>5, <1>6, <1>7, <1>p1, OneStatementStep

(* vector<T> v(e) keeps the invariant: its source text is marked.          *)
LEMMA DeclareVectorStep ==
  ASSUME IInv, DeclareVector
  PROVE  IInv'
<1>p1. PICK e : e = Popped(0)
  OBVIOUS
<1>0. Depth >= 1 /\ IsNumberNode(e)
  BY <1>p1 DEF DeclareVector
<1>1. e \in Nodes /\ Good(e)
  BY <1>0, <1>p1, OnePopped
<1>2. /\ e.src \in Texts /\ e.now \in Texts /\ e.shape \in Expression
      /\ "stmt" \in Shapes /\ "General" \in Rules
  BY <1>0, <1>1, NamesAre DEF Nodes, IsNumberNode
<1>p2. PICK n : n = Over("stmt", e.src, e.now, {e})
  OBVIOUS
<1>p3. PICK q : q = Replace(n, "General", e.src)
  OBVIOUS
<1>p4. PICK fs : fs = {"SizedVector"}
  OBVIOUS
<1>p5. PICK m : m = Is(q, fs)
  OBVIOUS
<1>3. /\ work' = Append(SubSeq(work, 1, Depth - 1), m) /\ UNCHANGED <<next, stored>>
      /\ UNCHANGED var /\ Again(e)
  BY <1>p1, <1>p2, <1>p3, <1>p4, <1>p5 DEF DeclareVector, Grow
<1>4. /\ n \in Nodes /\ n.shape = "stmt" /\ n.src = e.src /\ n.seen = {}
      /\ (n.ill <=> e.ill) /\ (n.torn <=> e.torn)
      /\ n.tests = e.tests /\ n.lists = e.lists /\ n.forms = e.forms
  <2>1. e \in Nodes /\ e.src \in Texts /\ e.now \in Texts /\ "stmt" \in Shapes
    BY <1>1, <1>2
  <2>2. TakesFrom(n, "stmt", e.src, e.now, e)
    BY ONLY <1>p2, <2>1, OverAlone
  <2>. QED
    BY ONLY <2>2 DEF TakesFrom
<1>5. /\ q \in Nodes /\ Keeps(q, n) /\ (q.ill <=> n.ill) /\ (q.torn <=> n.torn)
      /\ q.forms = n.forms /\ q.now = e.src
  <2>1. "General" \notin n.seen
    BY <1>4
  <2>. QED
    BY ONLY <1>2, <1>4, <1>p3, <2>1, ReplaceFirst
<1>6. fs \in SUBSET Forms
  BY <1>p4 DEF Forms
<1>7. /\ m \in Nodes /\ Keeps(m, q) /\ m.now = q.now
      /\ (m.torn <=> q.torn) /\ (m.ill <=> q.ill) /\ m.forms = q.forms \union fs
  BY ONLY <1>5, <1>6, <1>p5, IsIs
<1>8. /\ m.shape = "stmt" /\ m.src = e.src /\ m.now = e.src
      /\ (m.ill <=> e.ill) /\ (m.torn <=> e.torn)
      /\ m.tests = e.tests /\ m.lists = e.lists /\ m.forms = e.forms \union fs
  BY ONLY <1>4, <1>5, <1>7 DEF Keeps
<1>9. Items(m) = Items(e) /\ m.lists = {} /\ Of(m.now) = Items(m)
  BY <1>1, <1>2, <1>8, ExpressionIs DEF Items
<1>10. e.forms \subseteq m.forms /\ Has(m, Raws)
  BY <1>8, <1>p4 DEF Has, Raws
<1>11. Good(m)
  BY <1>1, <1>2, <1>7, <1>8, <1>9, <1>10, OneStatementIsGood
<1>12. VarsKnown' /\ DOMAIN var' \subseteq Vars /\ \A v \in DOMAIN var' : var'[v] \in Known
  BY <1>3, VarsUnchanged
<1>. QED
  BY <1>0, <1>2, <1>3, <1>7, <1>8, <1>9, <1>10, <1>11, <1>12, <1>p1, OneStatementStep

(* A std::hash keeps the invariant: it is removed.                         *)
LEMMA DeclareHashStep ==
  ASSUME IInv, NEW h, DeclareHash(h)
  PROVE  IInv'
<1>p1. PICK empty : empty = {}
  OBVIOUS
<1>p2. PICK t : t = Text(empty, empty, "other", FALSE)
  OBVIOUS
<1>p3. PICK m : m = Node("stmt", t, t)
  OBVIOUS
<1>1. /\ work' = Append(SubSeq(work, 1, Depth - 0), m) /\ UNCHANGED next
      /\ var' = var /\ stored' = stored /\ stale' = stale
  BY <1>p1, <1>p2, <1>p3 DEF DeclareHash, Grow, Nothing
<1>2. t \in Texts /\ t.raw = empty /\ t.out = empty
  <2>1. empty \in SUBSET Nat /\ "other" \in Types
    BY <1>p1, NamesAre
  <2>. QED
    BY ONLY <1>p2, <2>1 DEF Text, Texts
<1>3. /\ m \in Nodes /\ m.shape = "stmt" /\ m.src = t /\ m.now = t
      /\ ~m.ill /\ ~m.torn /\ m.tests = {} /\ m.lists = {}
  <2>1. "stmt" \in Shapes
    BY NamesAre
  <2>. QED
    BY ONLY <1>2, <1>p3, <2>1, NodeIs
<1>4. Items(m) = {} /\ Of(m.now) = {} /\ m.now.raw = {} /\ Superseded(m) = {}
  BY <1>2, <1>3, <1>p1 DEF Items, Of, Superseded
<1>5. Good(m)
  BY <1>3, <1>4, StatementIsGood
<1>6. next' \in next .. MaxItems + 1
  BY <1>1, NextStays
<1>. QED
  BY <1>1, <1>3, <1>4, <1>5, <1>6, LeafStep

(* A variable that is new or known anew.                                    *)
KnownWell(u) ==
  /\ u.items \subseteq (1 .. next - 1) \ DOMAIN stored
  /\ u.type \in {"view", "string"}
  /\ ~u.from => u.type = "string"
  /\ u.from => /\ Wraps(u.field) /\ u.field.raw = {}
               /\ u.op \/ Of(u.field) = u.items

(* One more variable, or another value of one, is known as well.           *)
LEMMA VarAdded ==
  ASSUME IInv, UNCHANGED <<next, stored>>, NEW v \in Vars, NEW u \in Known, KnownWell(u),
         DOMAIN var' = DOMAIN var \union {v}, var'[v] = u,
         \A w \in DOMAIN var \ {v} : var'[w] = var[w]
  PROVE  VarsKnown' /\ DOMAIN var' \subseteq Vars /\ \A w \in DOMAIN var' : var'[w] \in Known
<1>1. /\ DOMAIN var \subseteq Vars /\ \A w \in DOMAIN var : var[w] \in Known
      /\ VarsKnown
  BY DEF IInv, TypeInv
<1>2. \A w \in DOMAIN var' : var'[w] \in Known
  BY <1>1
<1>3. (1 .. next - 1)' = 1 .. next - 1 /\ stored' = stored
  OBVIOUS
<1>4. ASSUME NEW w \in DOMAIN var'
      PROVE  KnownWell(var[w])'
  <2>p1. PICK t : t = var'[w]
    OBVIOUS
  <2>1. KnownWell(t)
    BY <1>1, <2>p1 DEF VarsKnown, KnownWell
  <2>. QED
    BY <1>3, <2>1, <2>p1 DEF KnownWell
<1>5. VarsKnown'
  BY <1>4 DEF VarsKnown, KnownWell
<1>. QED
  BY <1>1, <1>2, <1>5

(* The items of an expression are no lambdas.                              *)
LEMMA ItemsKnown ==
  ASSUME NEW e \in Nodes, Placed(e), e.shape \in Expression
  PROVE  Items(e) \subseteq (1 .. next - 1) \ DOMAIN stored
BY DEF Placed

(* std::string v = e keeps the invariant: v is a view only where e was     *)
(* copied from adlog, and has what e has.                                  *)
LEMMA DeclareStep ==
  ASSUME IInv, NEW v \in Vars, Declare(v)
  PROVE  IInv'
<1>p1. PICK e : e = Popped(0)
  OBVIOUS
<1>0. Depth >= 1 /\ IsStringNode(e) /\ UNCHANGED <<next, stored>> /\ Again(e)
  BY <1>p1 DEF Declare
<1>1. e \in Nodes /\ Good(e) /\ Placed(e)
  BY <1>0, <1>p1, OnePopped
<1>2. /\ e.src \in Texts /\ e.now \in Texts /\ e.field \in Texts /\ e.from \in BOOLEAN
      /\ e.shape \in Expression /\ "stmt" \in Shapes /\ "General" \in Rules
  BY <1>0, <1>1, NamesAre DEF Nodes, IsStringNode
<1>3. /\ (e.from => Wraps(e.field) /\ e.field.raw = {})
      /\ \/ Of(e.field) = Items(e)
         \/ e.from /\ (e.shape = "concat" \/ "ConcatRead" \in e.forms)
      /\ (e.now.type = "view" => Has(e, Ills) \/ (e.from /\ e.shape \in {"field", "var"}))
  BY <1>0, <1>1 DEF Good, Sound, Converted, Complete
<1>p2. PICK copy \in BOOLEAN : copy <=> (e.shape \in {"field", "var"} /\ e.from)
  OBVIOUS
<1>p3. PICK bad \in BOOLEAN : bad <=> (~copy /\ e.now.type = "view")
  OBVIOUS
<1>p4. PICK n : n = Over("stmt", e.src, e.now, {e})
  OBVIOUS
<1>p5. PICK q : q = IF copy THEN Replace(n, "General", e.now) ELSE n
  OBVIOUS
<1>p6. PICK r : r = Fail(q, bad)
  OBVIOUS
<1>p7. PICK decls : decls = r.decls \union {v}
  OBVIOUS
<1>p8. PICK m : m = [ r EXCEPT !.decls = decls ]
  OBVIOUS
<1>4. work' = Append(SubSeq(work, 1, Depth - 1), m)
  BY <1>p1, <1>p2, <1>p3, <1>p4, <1>p5, <1>p6, <1>p7, <1>p8 DEF Declare, Grow
<1>5. /\ n \in Nodes /\ n.shape = "stmt" /\ n.src = e.src /\ n.now = e.now /\ n.seen = {}
      /\ (n.ill <=> e.ill) /\ (n.torn <=> e.torn)
      /\ n.tests = e.tests /\ n.lists = e.lists /\ n.forms = e.forms
  <2>1. e \in Nodes /\ e.src \in Texts /\ e.now \in Texts /\ "stmt" \in Shapes
    BY <1>1, <1>2
  <2>. QED
    BY ONLY <1>p4, <2>1, OverOne
<1>6. /\ q \in Nodes /\ q.shape = "stmt" /\ q.src = e.src /\ q.now = e.now
      /\ (q.ill <=> e.ill) /\ (q.torn <=> e.torn)
      /\ q.tests = e.tests /\ q.lists = e.lists /\ q.forms = e.forms
  <2>1. CASE copy
    <3>1. q = Replace(n, "General", e.now) /\ "General" \notin n.seen
      BY <1>5, <1>p5, <2>1
    <3>2. /\ q \in Nodes /\ Keeps(q, n) /\ (q.ill <=> n.ill) /\ (q.torn <=> n.torn)
          /\ q.forms = n.forms /\ q.now = e.now
      BY ONLY <1>2, <1>5, <3>1, ReplaceFirst
    <3>. QED
      BY ONLY <1>5, <3>2 DEF Keeps
  <2>2. CASE ~copy
    BY <1>5, <1>p5, <2>2
  <2>. QED
    BY <2>1, <2>2
<1>7. /\ r \in Nodes /\ Keeps(r, q) /\ r.now = q.now
      /\ (r.torn <=> q.torn) /\ r.forms = q.forms /\ (r.ill <=> (q.ill \/ bad))
  BY <1>6, <1>p6, FailIs
<1>8. decls \in SUBSET Vars
  BY <1>7, <1>p7 DEF Nodes
<1>9. /\ m \in Nodes /\ m.shape = r.shape /\ m.src = r.src /\ m.now = r.now
      /\ (m.ill <=> r.ill) /\ (m.torn <=> r.torn)
      /\ m.tests = r.tests /\ m.lists = r.lists /\ m.forms = r.forms
  BY ONLY <1>7, <1>8, <1>p8 DEF Nodes
<1>10. /\ m.shape = "stmt" /\ m.src = e.src /\ m.now = e.now
       /\ (m.ill <=> (e.ill \/ bad)) /\ (m.torn <=> e.torn)
       /\ m.tests = e.tests /\ m.lists = e.lists /\ m.forms = e.forms
  BY ONLY <1>6, <1>7, <1>9 DEF Keeps
<1>11. Items(m) = Items(e) /\ m.lists = {}
  BY <1>1, <1>2, <1>10, ExpressionIs DEF Items
<1>12. m.ill => e.ill \/ Has(m, Ills)
  BY <1>3, <1>10, <1>p2, <1>p3 DEF Has
<1>13. Good(m)
  BY <1>1, <1>2, <1>9, <1>10, <1>11, <1>12, OneStatementIsGood
<1>p9. PICK type : type = IF copy THEN "view" ELSE "string"
  OBVIOUS
<1>p10. PICK op \in BOOLEAN : op <=> (e.shape = "concat" \/ "ConcatRead" \in e.forms)
  OBVIOUS
<1>p11. PICK items : items = Items(e)
  OBVIOUS
<1>p12. PICK u : u = [ from |-> e.from, field |-> e.field, items |-> items, type |-> type,
                       op |-> op, assigned |-> FALSE ]
  OBVIOUS
<1>14. var' = [ w \in DOMAIN var \union {v} |-> IF w # v THEN var[w] ELSE u ]
  BY <1>p1, <1>p2, <1>p9, <1>p10, <1>p11, <1>p12 DEF Declare
<1>15. items \in SUBSET Nat /\ type \in {"view", "string"} /\ type \in Types
  BY <1>2, <1>p9, <1>p11, NamesAre DEF Items, Of, Texts
<1>16. /\ u \in Known /\ (u.from <=> e.from) /\ u.field = e.field /\ u.items = items
       /\ u.type = type /\ (u.op <=> op)
  BY ONLY <1>2, <1>15, <1>p12, op \in BOOLEAN DEF Known
<1>17. KnownWell(u)
  <2>1. u.items \subseteq (1 .. next - 1) \ DOMAIN stored
    BY <1>1, <1>2, <1>16, <1>p11, ItemsKnown
  <2>2. ~u.from => u.type = "string"
    BY <1>16, <1>p2, <1>p9
  <2>3. u.from => Wraps(u.field) /\ u.field.raw = {}
    BY <1>3, <1>16
  <2>4. u.op \/ Of(u.field) = u.items
    BY <1>3, <1>16, <1>p10, <1>p11
  <2>. QED
    BY <1>15, <1>16, <2>1, <2>2, <2>3, <2>4 DEF KnownWell
<1>18. /\ DOMAIN var' = DOMAIN var \union {v} /\ var'[v] = u
       /\ \A w \in DOMAIN var \ {v} : var'[w] = var[w]
  BY <1>14
<1>19. VarsKnown' /\ DOMAIN var' \subseteq Vars /\ \A w \in DOMAIN var' : var'[w] \in Known
  BY <1>0, <1>16, <1>17, <1>18, VarAdded
<1>. QED
  BY <1>0, <1>2, <1>4, <1>9, <1>10, <1>11, <1>13, <1>19, <1>p1, OneStatementStep

(* v = e keeps the invariant: what get_bs_field_value makes of e is a      *)
(* string with all of e, or is marked.                                     *)
LEMMA AssignStep ==
  ASSUME IInv, NEW v \in Vars, Assign(v)
  PROVE  IInv'
<1>p1. PICK e : e = Popped(0)
  OBVIOUS
<1>p2. PICK o : o = var[v]
  OBVIOUS
<1>0. /\ Depth >= 1 /\ IsStringNode(e) /\ UNCHANGED <<next, stored>> /\ stale' = stale
      /\ v \in DOMAIN var /\ o \in Known /\ KnownWell(o)
  BY <1>p1, <1>p2 DEF Assign, IInv, TypeInv, VarsKnown, KnownWell
<1>1. e \in Nodes /\ Good(e) /\ Placed(e)
  BY <1>0, <1>p1, OnePopped
<1>2. /\ e.src \in Texts /\ e.now \in Texts /\ e.field \in Texts /\ e.forms \in SUBSET Forms
      /\ e.shape \in Expression /\ "stmt" \in Shapes
  BY <1>0, <1>1, NamesAre DEF Nodes, IsStringNode
<1>3. /\ e.shape \in {"field", "var", "chars", "call", "choice", "concat"}
      /\ (e.shape = "choice" => Has(e, Ills))
      /\ (e.shape \in {"field", "var", "call"} => Wraps(e.field))
      /\ (e.shape \in {"field", "var", "chars"} => e.field.raw = {})
      /\ (Of(e.field) = Items(e) \/ e.shape = "concat" \/ "ConcatRead" \in e.forms)
  BY <1>0, <1>1 DEF Good, Sound, Converted, Complete
<1>p3. PICK op \in BOOLEAN : op <=> (e.shape = "concat" \/ (e.shape = "var" /\ "ConcatRead" \in e.forms))
  OBVIOUS
<1>p4. PICK n : n = Over("stmt", e.src, e.now, {e})
  OBVIOUS
<1>p5. PICK w : w = Wrap(e.field)
  OBVIOUS
<1>p6. PICK p : p = [ n EXCEPT !.now = w ]
  OBVIOUS
<1>p7. PICK bad \in BOOLEAN : bad <=> ~Wraps(e.field)
  OBVIOUS
<1>p8. PICK q : q = IF op THEN n ELSE Fail(p, bad)
  OBVIOUS
<1>p9. PICK late \in BOOLEAN : late <=> (var[v].type = "view" /\ ~(op /\ e.now.type = "view"))
  OBVIOUS
<1>p10. PICK r : r = Fail(q, late)
  OBVIOUS
<1>p11. PICK fs : fs = If(e.shape \in {"call", "choice"}, "AssignedCall") \union
                       If(e.shape = "chars", "AssignedChars") \union If(var[v].from, "Reassigned")
  OBVIOUS
<1>p12. PICK m : m = Is(r, fs)
  OBVIOUS
<1>4. work' = Append(SubSeq(work, 1, Depth - 1), m)
  BY <1>p1, <1>p3, <1>p4, <1>p5, <1>p6, <1>p7, <1>p8, <1>p9, <1>p10, <1>p11, <1>p12
     DEF Assign, Grow
<1>5. /\ n \in Nodes /\ n.shape = "stmt" /\ n.src = e.src /\ n.now = e.now
      /\ (n.ill <=> e.ill) /\ (n.torn <=> e.torn)
      /\ n.tests = e.tests /\ n.lists = e.lists /\ n.forms = e.forms
  <2>1. e \in Nodes /\ e.src \in Texts /\ e.now \in Texts /\ "stmt" \in Shapes
    BY <1>1, <1>2
  <2>. QED
    BY ONLY <1>p4, <2>1, OverOne, SMTT(60)
<1>6. w \in Texts /\ w.raw = e.field.raw /\ w.out = e.field.out
  BY <1>2, <1>p5, WrapIs
<1>7. /\ p \in Nodes /\ p.shape = n.shape /\ p.src = n.src /\ p.now = w
      /\ (p.ill <=> n.ill) /\ (p.torn <=> n.torn)
      /\ p.tests = n.tests /\ p.lists = n.lists /\ p.forms = n.forms
  BY ONLY <1>5, <1>6, <1>p6 DEF Nodes
<1>8. /\ q \in Nodes /\ q.shape = "stmt" /\ q.src = e.src /\ q.now = (IF op THEN e.now ELSE w)
      /\ (q.ill <=> (e.ill \/ (~op /\ bad))) /\ (q.torn <=> e.torn)
      /\ q.tests = e.tests /\ q.lists = e.lists /\ q.forms = e.forms
  <2>1. CASE op
    BY <1>5, <1>p8, <2>1
  <2>2. CASE ~op
    <3>1. q = Fail(p, bad)
      BY <1>p8, <2>2
    <3>2. /\ q \in Nodes /\ Keeps(q, p) /\ q.now = p.now
          /\ (q.torn <=> p.torn) /\ q.forms = p.forms /\ (q.ill <=> (p.ill \/ bad))
      BY <1>7, <3>1, FailIs
    <3>. QED
      BY ONLY <1>5, <1>7, <2>2, <3>2 DEF Keeps
  <2>. QED
    BY <2>1, <2>2
<1>9. /\ r \in Nodes /\ Keeps(r, q) /\ r.now = q.now
      /\ (r.torn <=> q.torn) /\ r.forms = q.forms /\ (r.ill <=> (q.ill \/ late))
  BY <1>8, <1>p10, FailIs
<1>10. fs \in SUBSET Forms
  BY <1>p11 DEF Forms, If
<1>11. /\ (e.shape \in {"call", "choice"} => "AssignedCall" \in fs)
       /\ (e.shape = "chars" => "AssignedChars" \in fs) /\ (o.from => "Reassigned" \in fs)
  BY <1>p2, <1>p11 DEF If
<1>12. /\ m \in Nodes /\ Keeps(m, r) /\ m.now = r.now
       /\ (m.torn <=> r.torn) /\ (m.ill <=> r.ill) /\ m.forms = r.forms \union fs
  BY ONLY <1>9, <1>10, <1>p12, IsIs
<1>13. /\ m.shape = "stmt" /\ m.src = e.src /\ m.now = (IF op THEN e.now ELSE w)
       /\ (m.ill <=> (e.ill \/ (~op /\ bad) \/ late)) /\ (m.torn <=> e.torn)
       /\ m.tests = e.tests /\ m.lists = e.lists /\ m.forms = e.forms \union fs
  BY ONLY <1>8, <1>9, <1>12 DEF Keeps
<1>14. Items(m) = Items(e) /\ m.lists = {}
  BY <1>1, <1>2, <1>13, ExpressionIs DEF Items
<1>15. \A gs : Has(e, gs) => Has(m, gs)
  BY <1>13 DEF Has
<1>16. /\ ("AssignedCall" \in fs => Has(m, Raws))
       /\ ("AssignedChars" \in fs => Has(m, Ills)) /\ ("Reassigned" \in fs => Has(m, Ills))
  BY <1>13 DEF Has, Raws, Ills
<1>17. m.ill => e.ill \/ Has(m, Ills)
  <2>1. ~op /\ bad => Has(m, Ills)
    BY <1>3, <1>11, <1>15, <1>16, <1>p3, <1>p7
  <2>2. late => Has(m, Ills)
    BY <1>0, <1>11, <1>16, <1>p2, <1>p9 DEF KnownWell
  <2>. QED
    BY <1>13, <2>1, <2>2
<1>18. m.now.raw \subseteq e.now.raw \/ Has(m, Raws)
  <2>1. CASE op
    BY <1>13, <2>1
  <2>2. CASE ~op
    BY <1>3, <1>6, <1>11, <1>13, <1>16, <1>p3, <2>2
  <2>. QED
    BY <2>1, <2>2
<1>19. Of(m.now) = Items(m) \/ Has(m, Losses) \/ Of(e.now) # Items(e)
  <2>1. CASE op
    BY <1>13, <1>14, <2>1
  <2>2. CASE ~op
    <3>1. Of(m.now) = Of(e.field)
      BY <1>6, <1>13, <2>2 DEF Of
    <3>2. "ConcatRead" \in e.forms => Has(m, Losses)
      BY <1>13 DEF Has, Losses
    <3>. QED
      BY <1>3, <1>14, <1>p3, <2>2, <3>1, <3>2
  <2>. QED
    BY <2>1, <2>2
<1>20. e.forms \subseteq m.forms
  BY <1>13
<1>21. Good(m)
  BY <1>1, <1>2, <1>12, <1>13, <1>14, <1>17, <1>18, <1>19, <1>20, OneStatementIsGood
<1>p13. PICK u : u = [ o EXCEPT !.assigned = TRUE ]
  OBVIOUS
<1>22. var' = [ var EXCEPT ![v] = u ]
  BY <1>p2, <1>p13 DEF Assign
<1>23. /\ u \in Known /\ (u.from <=> o.from) /\ u.field = o.field /\ u.items = o.items
       /\ u.type = o.type /\ (u.op <=> o.op)
  <2>1. o \in Known
    BY <1>0
  <2>. QED
    BY ONLY <2>1, <1>p13 DEF Known
<1>24. KnownWell(u)
  BY <1>0, <1>23 DEF KnownWell
<1>25. /\ DOMAIN var' = DOMAIN var \union {v} /\ var'[v] = u
       /\ \A x \in DOMAIN var \ {v} : var'[x] = var[x]
  BY <1>0, <1>22
<1>26. VarsKnown' /\ DOMAIN var' \subseteq Vars /\ \A x \in DOMAIN var' : var'[x] \in Known
  BY <1>0, <1>23, <1>24, <1>25, VarAdded
<1>. QED
  BY <1>0, <1>2, <1>4, <1>12, <1>13, <1>14, <1>20, <1>21, <1>26, <1>p1, OneStatementStep

(* A vector of common infos keeps the invariant: its lambda stands for its *)
(* type, with the source of its size.                                      *)
LEMMA DeclareCommonVectorStep ==
  ASSUME IInv, DeclareCommonVector
  PROVE  IInv'
<1>p1. PICK e : e = Popped(0)
  OBVIOUS
<1>0. Depth >= 1 /\ IsNumberNode(e) /\ Take(1) /\ UNCHANGED var /\ Again(e)
  BY <1>p1 DEF DeclareCommonVector
<1>1. /\ e \in Nodes /\ Good(e) /\ Placed(e) /\ 1 \in 0 .. Depth
      /\ \A j \in 0 .. 1 - 1 : Popped(j) = e
  BY <1>0, <1>p1, OnePopped
<1>2. /\ e.src \in Texts /\ e.now \in Texts /\ e.shape \in Expression
      /\ "stmt" \in Shapes /\ "other" \in Types
  BY <1>0, <1>1, NamesAre DEF Nodes, IsNumberNode
<1>3. /\ next \in Nat /\ next \in next .. next' - 1 /\ next' \in next .. MaxItems + 1
      /\ next' = next + 1
  BY <1>0, ItemTaken
<1>p2. PICK new : new = {next}
  OBVIOUS
<1>p3. PICK empty : empty = {}
  OBVIOUS
<1>4. new \in SUBSET Nat /\ empty \in SUBSET Nat
  BY <1>3, <1>p2, <1>p3
<1>p4. PICK type : type = Text(new, empty, "other", FALSE)
  OBVIOUS
<1>p5. PICK src : src = Both(e.src, type)
  OBVIOUS
<1>p6. PICK now : now = Both(e.now, type)
  OBVIOUS
<1>p7. PICK n : n = Over("stmt", src, now, {e})
  OBVIOUS
<1>p8. PICK lists : lists = n.lists \union new
  OBVIOUS
<1>p9. PICK q : q = [ n EXCEPT !.lists = lists ]
  OBVIOUS
<1>p10. PICK fs : fs = {"SizedVector"}
  OBVIOUS
<1>p11. PICK m : m = Is(q, fs)
  OBVIOUS
<1>5. work' = Append(SubSeq(work, 1, Depth - 1), m)
  BY <1>p1, <1>p2, <1>p3, <1>p4, <1>p5, <1>p6, <1>p7, <1>p8, <1>p9, <1>p10, <1>p11
     DEF DeclareCommonVector, Grow
<1>6. stored' = [ i \in DOMAIN stored \union {next} |->
                    IF i = next THEN e.src.raw ELSE stored[i] ]
  BY <1>p1 DEF DeclareCommonVector
<1>7. type \in Texts /\ type.raw = new /\ type.out = empty
  BY ONLY <1>2, <1>4, <1>p4 DEF Text, Texts
<1>8. src \in Texts /\ src.raw = e.src.raw \union new /\ src.out = e.src.out
  <2>1. src \in Texts /\ src.raw = e.src.raw \union type.raw /\ src.out = e.src.out \union type.out
    BY <1>2, <1>7, <1>p5, BothIs
  <2>. QED
    BY <1>7, <1>p3, <2>1
<1>9. now \in Texts
  BY <1>2, <1>7, <1>p6, BothIs
<1>10. /\ n \in Nodes /\ n.shape = "stmt" /\ n.src = src
       /\ (n.ill <=> e.ill) /\ (n.torn <=> e.torn)
       /\ n.tests = e.tests /\ n.lists = e.lists /\ n.forms = e.forms /\ n.now = now
  <2>1. e \in Nodes /\ src \in Texts /\ now \in Texts /\ "stmt" \in Shapes
    BY <1>1, <1>2, <1>8, <1>9
  <2>. QED
    BY ONLY <1>p7, <2>1, OverOne, SMTT(60)
<1>11. now.raw = e.now.raw \union new /\ now.out = e.now.out
  <2>1. now.raw = e.now.raw \union type.raw /\ now.out = e.now.out \union type.out
    BY <1>2, <1>7, <1>p6, BothIs
  <2>. QED
    BY <1>7, <1>p3, <2>1
<1>12. lists \in SUBSET Nat
  BY <1>4, <1>10, <1>p8 DEF Nodes
<1>13. /\ q \in Nodes /\ q.shape = n.shape /\ q.src = n.src /\ q.now = n.now
       /\ (q.ill <=> n.ill) /\ (q.torn <=> n.torn)
       /\ q.tests = n.tests /\ q.lists = lists /\ q.forms = n.forms
  BY ONLY <1>10, <1>12, <1>p9 DEF Nodes
<1>14. fs \in SUBSET Forms
  BY <1>p10 DEF Forms
<1>15. /\ m \in Nodes /\ Keeps(m, q) /\ m.now = q.now
       /\ (m.torn <=> q.torn) /\ (m.ill <=> q.ill) /\ m.forms = q.forms \union fs
  BY ONLY <1>13, <1>14, <1>p11, IsIs
<1>16. /\ m.shape = "stmt" /\ m.src = src /\ m.now = now
       /\ (m.ill <=> e.ill) /\ (m.torn <=> e.torn)
       /\ m.tests = e.tests /\ m.lists = lists /\ m.forms = e.forms \union fs
  BY ONLY <1>10, <1>13, <1>15 DEF Keeps
<1>17. e.lists = {}
  BY <1>1, <1>2, ExpressionIs
<1>18. /\ m.lists = {next} /\ Items(m) = Items(e) \union {next}
       /\ Of(m.now) = Of(e.now) \union {next}
  BY <1>8, <1>10, <1>11, <1>16, <1>17, <1>p2, <1>p8 DEF Items, Of
<1>19. e.forms \subseteq m.forms /\ "SizedVector" \in m.forms
  BY <1>16, <1>p10
<1>20. Has(m, Raws)
  BY <1>19 DEF Has, Raws
<1>21. Good(m)
  BY <1>1, <1>2, <1>15, <1>16, <1>18, <1>19, <1>20, OneStatementIsGood
<1>22. /\ DOMAIN stored \subseteq 1 .. next - 1 /\ next >= 1 /\ next' \in Nat /\ next <= next'
       /\ \A i \in DOMAIN stored : stored[i] \subseteq (1 .. next - 1) \ DOMAIN stored
  BY <1>3 DEF IInv, TypeInv
<1>23. /\ \A i : i \in 1 .. next - 1 => i \in 1 .. next' - 1
       /\ next \notin 1 .. next - 1 /\ next \in 1 .. next' - 1
  BY <1>3, <1>22, Below
<1>24. /\ DOMAIN stored' = DOMAIN stored \union {next} /\ stored'[next] = e.src.raw
       /\ \A i \in DOMAIN stored : stored'[i] = stored[i]
  BY <1>6, <1>22, <1>23
<1>25. Extends
  BY <1>3, <1>22, <1>23, <1>24 DEF Extends
<1>26. Items(e) \subseteq (1 .. next - 1) \ DOMAIN stored /\ e.src.raw \subseteq Items(e)
  BY <1>1, <1>2, ItemsKnown DEF Items, Of
<1>27. /\ DOMAIN stored' \subseteq 1 .. next' - 1
       /\ \A i \in DOMAIN stored' : stored'[i] \subseteq (1 .. next' - 1) \ DOMAIN stored'
  BY <1>22, <1>23, <1>24, <1>26
<1>28. Placed(m)'
  <2>1. m.shape \notin Expression
    BY <1>16 DEF Expression
  <2>2. Items(m) \subseteq 1 .. next' - 1
    BY <1>18, <1>23, <1>26
  <2>3. next \in DOMAIN stored' \intersect Items(m) /\ stored'[next] \subseteq Items(m)
    BY <1>18, <1>24, <1>26
  <2>. QED
    BY <1>18, <2>1, <2>2, <2>3 DEF Placed
<1>29. VarsKnown' /\ DOMAIN var' \subseteq Vars /\ \A v \in DOMAIN var' : var'[v] \in Known
  BY <1>0, <1>25, VarsStay DEF IInv
<1>30. \A j \in 0 .. 1 - 1 : Popped(j).forms \subseteq m.forms
  BY <1>1, <1>19
<1>31. \A r \in stale' : r \in stale \/ r[1] = "lambda" \/ Has(m, Rereading)
  <2>1. CASE Rereads(e)
    <3>1. Has(e, Rereading)
      BY <1>1, <1>2, <2>1, ExpressionIs
    <3>. QED
      BY <1>19, <3>1 DEF Has
  <2>2. CASE ~Rereads(e)
    BY <1>0, <2>2 DEF Again, If
  <2>. QED
    BY <2>1, <2>2
<1>. QED
  BY <1>1, <1>5, <1>15, <1>21, <1>25, <1>27, <1>28, <1>29, <1>30, <1>31, SteppedAll

-----------------------------------------------------------------------------
(* The declarations that the run of a lambda replaces.                      *)

(* A run of the lambdas leaves a node good: each takes back the source of  *)
(* its own declaration and nothing else.                                   *)
LEMMA RunLazyIs ==
  ASSUME TypeInv, NEW n \in Nodes, Good(n), Placed(n), NEW m, m = RunLazy(n)
  PROVE  /\ m \in Nodes /\ Good(m) /\ m.forms = n.forms /\ m.shape = n.shape
         /\ m.src = n.src /\ m.lists = n.lists
<1>p1. PICK now : now = (DOMAIN stored \ (settled \union closed)) \intersect n.lists
  OBVIOUS
<1>p2. PICK raw : raw = UNION { stored[i] : i \in now }
  OBVIOUS
<1>1. CASE now = {}
  <2>1. m = n
    BY <1>1, <1>p1 DEF RunLazy
  <2>. QED
    BY <2>1
<1>2. CASE now # {}
  <2>1. /\ now \subseteq DOMAIN stored /\ now \subseteq n.lists
        /\ \A i \in now : i \in Items(n) /\ stored[i] \subseteq Items(n)
        /\ \A i \in now : stored[i] \intersect now = {}
    BY <1>p1 DEF TypeInv, Placed
  <2>2. /\ n.lists # {} /\ now \subseteq Items(n) /\ raw \subseteq Items(n)
        /\ now \intersect raw = {}
    BY <1>2, <1>p2, <2>1
  <2>3. n.now \in Texts /\ Items(n) \subseteq Nat
    BY DEF Nodes, Items, Of, Texts
  <2>p1. PICK r : r = (n.now.raw \union raw) \ now
    OBVIOUS
  <2>p2. PICK o : o = (n.now.out \union now) \ raw
    OBVIOUS
  <2>4. r \in SUBSET Nat /\ o \in SUBSET Nat
    BY <2>2, <2>3, <2>p1, <2>p2 DEF Texts
  <2>p3. PICK t : t = Retype(n.now, now, raw)
    OBVIOUS
  <2>5. t \in Texts /\ t.raw = r /\ t.out = o
    <3>1. t = [ n.now EXCEPT !.raw = r, !.out = o ]
      BY ONLY <2>p1, <2>p2, <2>p3 DEF Retype
    <3>. QED
      BY ONLY <2>3, <2>4, <3>1 DEF Texts
  <2>6. m = [ n EXCEPT !.now = t ]
    BY <1>2, <1>p1, <1>p2, <2>p3 DEF RunLazy
  <2>7. /\ m \in Nodes /\ m.shape = n.shape /\ m.src = n.src /\ m.now = t
        /\ (m.ill <=> n.ill) /\ (m.torn <=> n.torn)
        /\ m.tests = n.tests /\ m.lists = n.lists /\ m.forms = n.forms
    BY ONLY <2>5, <2>6, n \in Nodes DEF Nodes
  <2>8. /\ n.shape \notin Expression /\ "SizedVector" \in m.forms
    BY <2>2, <2>7 DEF Good, Whole, Converted
  <2>9. Items(m) = Items(n) /\ Superseded(m) = Superseded(n)
    BY <2>7 DEF Items, Superseded
  <2>10. Of(t) = Of(n.now) \union now \union raw
    BY <2>2, <2>5, <2>p1, <2>p2 DEF Of
  <2>11. Items(m) = Of(m.now) \union Superseded(m) \/ Has(m, Losses)
    <3>1. Items(n) = Of(n.now) \union Superseded(n) \/ Has(n, Losses)
      BY DEF Good, Complete
    <3>2. Has(n, Losses) => Has(m, Losses)
      BY <2>7 DEF Has
    <3>3. Of(m.now) = Of(n.now) \union now \union raw
      BY <2>7, <2>10
    <3>. QED
      BY <2>2, <2>9, <3>1, <3>2, <3>3
  <2>12. Has(m, Raws)
    BY <2>8 DEF Has, Raws
  <2>13. Guarded(m)
    BY <2>7, <2>8 DEF Guarded
  <2>14. Whole(m)
    BY <2>7, <2>8 DEF Good, Whole, Has
  <2>15. ~IsStringNode(m) /\ ~IsNumberNode(m)
    BY <2>7, <2>8 DEF IsStringNode, IsNumberNode
  <2>16. Sound(m)
    BY <2>7, <2>15 DEF Good, Sound, Has
  <2>17. Converted(m)
    BY <2>7, <2>8, <2>12, <2>15 DEF Converted, Expression
  <2>18. Complete(m)
    <3>1. \A u \in m.tests : u[2] \in Items(m)
      BY <2>7, <2>9 DEF Good, Complete
    <3>2. m.shape = "test" =>
            \/ "TestBeside" \in m.forms
            \/ \E u \in m.tests : m.tests = {u} /\ Items(m) = {u[2]}
      BY <2>7, <2>9 DEF Good, Complete
    <3>. QED
      BY <2>11, <2>15, <3>1, <3>2 DEF Complete
  <2>. QED
    BY <2>7, <2>13, <2>14, <2>16, <2>17, <2>18 DEF Good
<1>. QED
  BY <1>1, <1>2

(* attr.int_value() keeps the invariant, with all lambdas that it runs.    *)
LEMMA CommonValueStep ==
  ASSUME IInv, CommonValue
  PROVE  IInv'
<1>p1. PICK m : m = FieldNode("other")
  OBVIOUS
<1>p2. PICK ran : ran = [ k \in DOMAIN work |-> RunLazy(work[k]) ]
  OBVIOUS
<1>1. /\ work' = Append(ran, m) /\ Take(1) /\ var' = var /\ stored' = stored
      /\ \A r \in stale' : r \in stale \/ r[1] = "lambda"
  BY <1>p1, <1>p2 DEF CommonValue
<1>2. /\ next \in Nat /\ next \in next .. next' - 1 /\ next' \in next .. MaxItems + 1
      /\ next' = next + 1
  BY <1>1, ItemTaken
<1>3. m \in Nodes /\ Good(m) /\ m.lists = {} /\ Items(m) = {next}
  BY <1>2, <1>p1, FieldNodeIs
<1>4. /\ TypeInv /\ VarsKnown /\ NodeInv /\ RereadsGuarded /\ work \in Seq(Nodes)
      /\ next >= 1 /\ next' \in Nat /\ next <= next' /\ next' \in 1 .. MaxItems + 1
  BY <1>2, RuleChainAssumption DEF IInv, TypeInv
<1>5. /\ DOMAIN stored \subseteq 1 .. next - 1
      /\ \A i \in DOMAIN stored : stored[i] \subseteq (1 .. next - 1) \ DOMAIN stored
  BY <1>4 DEF TypeInv
<1>6. Extends
  BY <1>1, <1>2, <1>5 DEF Extends
<1>p3. PICK d : d = Len(work)
  OBVIOUS
<1>7. d \in Nat /\ DOMAIN work = 1 .. d
  BY <1>4, <1>p3
<1>8. ASSUME NEW k \in 1 .. d
      PROVE  /\ ran[k] \in Nodes /\ Good(ran[k]) /\ ran[k].forms = work[k].forms
             /\ Placed(ran[k])'
  <2>p1. PICK n : n = work[k]
    OBVIOUS
  <2>p2. PICK o : o = RunLazy(n)
    OBVIOUS
  <2>1. n \in Nodes /\ Good(n) /\ Placed(n)
    BY <1>4, <1>7, <1>p3, <2>p1 DEF NodeInv
  <2>2. /\ o \in Nodes /\ Good(o) /\ o.forms = n.forms /\ o.shape = n.shape
        /\ o.src = n.src /\ o.lists = n.lists
    BY <1>4, <2>1, <2>p2, RunLazyIs
  <2>3. Placed(n)'
    BY <1>4, <1>6, <2>1, PlacedStays
  <2>4. Placed(o)'
    BY <2>2, <2>3 DEF Placed, Items
  <2>5. ran[k] = o
    BY <1>7, <1>p2, <2>p1, <2>p2
  <2>. QED
    BY <2>2, <2>4, <2>5, <2>p1 DEF Placed
<1>9. ran \in Seq(Nodes) /\ Len(ran) = d
  <2>1. ran \in [1 .. d -> Nodes]
    BY <1>7, <1>8, <1>p2
  <2>. QED
    BY <1>7, <2>1
<1>10. /\ work' \in Seq(Nodes) /\ Len(work') = d + 1 /\ work'[d + 1] = m
       /\ \A k \in 1 .. d : work'[k] = ran[k]
  BY <1>1, <1>3, <1>7, <1>9, AppendProperties
<1>11. Placed(m)'
  <2>1. next \in 1 .. next' - 1 /\ next \notin DOMAIN stored
    BY <1>2, <1>4, <1>5
  <2>. QED
    BY <1>1, <1>3, <2>1 DEF Placed
<1>12. NodeInv'
  <2>1. ASSUME NEW k \in 1 .. Len(work') PROVE (Good(work[k]) /\ Placed(work[k]))'
    <3>1. k \in 1 .. d \/ k = d + 1
      BY <1>7, <1>10
    <3>2. CASE k \in 1 .. d
      <4>1. work'[k] = ran[k]
        BY <1>10, <3>2
      <4>2. Good(work[k])'
        BY <1>8, <3>2, <4>1
      <4>3. Placed(work[k])'
        BY <1>8, <3>2, <4>1 DEF Placed
      <4>. QED
        BY <4>2, <4>3
    <3>3. CASE k = d + 1
      <4>1. work'[k] = m
        BY <1>10, <3>3
      <4>2. Placed(work[k])'
        BY <1>11, <4>1 DEF Placed
      <4>. QED
        BY <1>3, <4>1, <4>2
    <3>. QED
      BY <3>1, <3>2, <3>3
  <2>. QED
    BY <2>1 DEF NodeInv
<1>13. RereadsGuarded'
  <2>1. CASE \A r \in stale : r[1] = "lambda"
    <3>1. \A r \in stale' : r[1] = "lambda"
      BY <1>1, <2>1
    <3>. QED
      BY <3>1 DEF RereadsGuarded
  <2>2. CASE \E k \in DOMAIN work : Has(work[k], Rereading)
    <3>1. PICK k \in 1 .. d : Has(work[k], Rereading)
      BY <1>7, <2>2
    <3>2. work'[k].forms = work[k].forms /\ k \in DOMAIN work'
      BY <1>7, <1>8, <1>10, <3>1
    <3>3. Has(work'[k], Rereading)
      BY <3>1, <3>2 DEF Has
    <3>. QED
      BY <3>2, <3>3 DEF RereadsGuarded, Rereading
  <2>. QED
    BY <1>4, <2>1, <2>2 DEF RereadsGuarded, Rereading
<1>14. VarsKnown' /\ DOMAIN var' \subseteq Vars /\ \A v \in DOMAIN var' : var'[v] \in Known
  BY <1>1, <1>4, <1>6, VarsStay
<1>15. \A i : i \in 1 .. next - 1 => i \in 1 .. next' - 1
  BY <1>4, <1>2, Below
<1>16. /\ DOMAIN stored' \subseteq 1 .. next' - 1
       /\ \A i \in DOMAIN stored' : stored'[i] \subseteq (1 .. next' - 1) \ DOMAIN stored'
  BY <1>1, <1>5, <1>15
<1>. QED
  BY <1>4, <1>10, <1>12, <1>13, <1>14, <1>16 DEF IInv, TypeInv

-----------------------------------------------------------------------------
(* Blocks, conditions and loops.                                            *)

(* What is good of any node.                                               *)
LEMMA AnyIs ==
  ASSUME NEW n \in Nodes, Good(n)
  PROVE  /\ n.torn => Has(n, Tearing)
         /\ n.ill => Has(n, Ills)
         /\ n.now.raw \subseteq Waits(n) \/ Has(n, Raws)
         /\ n.lists # {} => "SizedVector" \in n.forms
         /\ Items(n) = Of(n.now) \union Superseded(n) \/ Has(n, Losses)
         /\ \A t \in n.tests : t[2] \in Items(n)
BY DEF Good, Whole, Sound, Converted, Complete

(* A statement that is not there reads nothing.                            *)
LEMMA MissingIs ==
  /\ Missing \in Nodes /\ Good(Missing) /\ Placed(Missing) /\ Missing.shape = "none"
  /\ Items(Missing) = {} /\ Missing.now.raw = {} /\ Missing.now.out = {}
  /\ Missing.tests = {} /\ Missing.lists = {}
<1>p1. PICK empty : empty = {}
  OBVIOUS
<1>p2. PICK t : t = Text(empty, empty, "other", FALSE)
  OBVIOUS
<1>p3. PICK m : m = Node("none", t, t)
  OBVIOUS
<1>1. m = Missing
  BY <1>p1, <1>p2, <1>p3 DEF Missing, Nothing
<1>2. t \in Texts /\ t.raw = empty /\ t.out = empty
  <2>1. empty \in SUBSET Nat /\ "other" \in Types
    BY <1>p1, NamesAre
  <2>. QED
    BY ONLY <1>p2, <2>1 DEF Text, Texts
<1>3. /\ m \in Nodes /\ m.shape = "none" /\ m.src = t /\ m.now = t
      /\ ~m.ill /\ ~m.torn /\ m.tests = {} /\ m.lists = {}
  <2>1. "none" \in Shapes
    BY NamesAre
  <2>. QED
    BY ONLY <1>2, <1>p3, <2>1, NodeIs
<1>4. Items(m) = {} /\ Of(m.now) = {} /\ m.now.raw = {} /\ m.now.out = {} /\ Superseded(m) = {}
  BY <1>2, <1>3, <1>p1 DEF Items, Of, Superseded
<1>5. Good(m)
  BY <1>3, <1>4, StatementIsGood
<1>6. Placed(m)
  BY <1>3, <1>4 DEF Placed
<1>. QED
  BY ONLY <1>1, <1>3, <1>4, <1>5, <1>6

(* Two statements in one are good when both are.                           *)
LEMMA TwoStatementsAreGood ==
  ASSUME NEW a \in Nodes, NEW b \in Nodes, Good(a), Good(b),
         NEW m \in Nodes, m.shape \in {"stmt", "block", "if", "loop", "none"},
         Items(m) = Items(a) \union Items(b),
         m.now.raw = a.now.raw \union b.now.raw, m.now.out = a.now.out \union b.now.out,
         m.ill <=> (a.ill \/ b.ill), m.torn <=> (a.torn \/ b.torn),
         m.tests = a.tests \union b.tests, m.lists = a.lists \union b.lists,
         m.forms = a.forms \union b.forms
  PROVE  Good(m)
<1>1. \A fs : Has(a, fs) \/ Has(b, fs) => Has(m, fs)
  BY DEF Has
<1>2. /\ a.torn => Has(a, Tearing)
      /\ a.ill => Has(a, Ills)
      /\ a.now.raw \subseteq Waits(a) \/ Has(a, Raws)
      /\ a.lists # {} => "SizedVector" \in a.forms
      /\ Items(a) = Of(a.now) \union Superseded(a) \/ Has(a, Losses)
      /\ \A t \in a.tests : t[2] \in Items(a)
  BY ONLY AnyIs, a \in Nodes, Good(a)
<1>3. /\ b.torn => Has(b, Tearing)
      /\ b.ill => Has(b, Ills)
      /\ b.now.raw \subseteq Waits(b) \/ Has(b, Raws)
      /\ b.lists # {} => "SizedVector" \in b.forms
      /\ Items(b) = Of(b.now) \union Superseded(b) \/ Has(b, Losses)
      /\ \A t \in b.tests : t[2] \in Items(b)
  BY ONLY AnyIs, b \in Nodes, Good(b)
<1>4. m.torn => Has(m, Tearing)
  BY <1>1, <1>2, <1>3
<1>5. m.ill => Has(m, Ills)
  BY <1>1, <1>2, <1>3
<1>6. m.now.raw \subseteq Waits(m) \/ Has(m, Raws)
  <2>1. Waits(a) \subseteq Waits(m) /\ Waits(b) \subseteq Waits(m)
    BY DEF Waits
  <2>. QED
    BY <1>1, <1>2, <1>3, <2>1
<1>7. m.lists # {} => "SizedVector" \in m.forms
  BY <1>2, <1>3
<1>8. Items(m) = Of(m.now) \union Superseded(m) \/ Has(m, Losses)
  <2>1. Superseded(m) = Superseded(a) \union Superseded(b)
    BY DEF Superseded
  <2>2. Of(m.now) = Of(a.now) \union Of(b.now)
    BY DEF Of
  <2>. QED
    BY <1>1, <1>2, <1>3, <2>1, <2>2
<1>9. \A t \in m.tests : t[2] \in Items(m)
  BY <1>2, <1>3
<1>. QED
  BY <1>4, <1>5, <1>6, <1>7, <1>8, <1>9, StatementIsGood

(* A node that is no expression lies where its parts lie.                   *)
LEMMA PlacedStatement ==
  ASSUME IInv, UNCHANGED <<next, stored>>, NEW ps \in SUBSET Nodes, NEW m \in Nodes,
         \A p \in ps : Placed(p) /\ Items(p) \subseteq Items(m),
         m.shape \notin Expression,
         \A i \in Items(m) : \E p \in ps : i \in Items(p),
         \A i \in m.lists : \E p \in ps : i \in p.lists
  PROVE  Placed(m)'
<1>1. Extends
  BY Unextended
<1>2. \A p \in ps : Placed(p)'
  BY <1>1, PlacedStays DEF IInv
<1>. QED
  BY <1>2 DEF Placed

(* A test of a condition keeps the invariant: it is converted or waits for *)
(* its if.                                                                 *)
LEMMA TestStep ==
  ASSUME IInv, NEW kind \in TestKinds, Test(kind)
  PROVE  IInv'
<1>0. Take(1)
  BY DEF Test
<1>1. /\ next \in Nat /\ next \in Item /\ next \in next .. next' - 1
      /\ next' \in next .. MaxItems + 1
  BY <1>0, ItemTaken
<1>p1. PICK new : new = {next}
  OBVIOUS
<1>p2. PICK empty : empty = {}
  OBVIOUS
<1>2. /\ new \in SUBSET Nat /\ empty \in SUBSET Nat /\ "other" \in Types
      /\ "SeqList" \in Rules /\ "General" \in Rules
  BY <1>1, <1>p1, <1>p2, NamesAre
<1>p3. PICK raw : raw = Text(new, empty, "other", FALSE)
  OBVIOUS
<1>p4. PICK bs : bs = Text(empty, new, "other", FALSE)
  OBVIOUS
<1>p5. PICK u : u = <<kind, next>>
  OBVIOUS
<1>p6. PICK tests : tests = {u}
  OBVIOUS
<1>p7. PICK o : o = Node("test", raw, raw)
  OBVIOUS
<1>p8. PICK n : n = [ o EXCEPT !.tests = tests ]
  OBVIOUS
<1>p9. PICK m : m = CASE kind = "seqList" -> Replace(n, "SeqList", bs)
                      [] kind = "itemPos" -> Replace(n, "General", bs)
                      [] OTHER -> n
  OBVIOUS
<1>3. /\ work' = Append(SubSeq(work, 1, Depth - 0), m)
      /\ var' = var /\ stored' = stored /\ stale' = stale
  BY <1>p1, <1>p2, <1>p3, <1>p4, <1>p5, <1>p6, <1>p7, <1>p8, <1>p9
     DEF Test, Grow, Same, TestText
<1>4. raw \in Texts /\ raw.raw = new /\ raw.out = empty
  BY ONLY <1>2, <1>p3 DEF Text, Texts
<1>5. bs \in Texts /\ bs.raw = empty /\ bs.out = new
  BY ONLY <1>2, <1>p4 DEF Text, Texts
<1>6. /\ o \in Nodes /\ o.shape = "test" /\ o.src = raw /\ o.now = raw
      /\ ~o.ill /\ ~o.torn /\ o.lists = {} /\ o.seen = {}
  <2>1. "test" \in Shapes
    BY NamesAre
  <2>. QED
    BY ONLY <1>4, <1>p7, <2>1, NodeIs
<1>7. tests \in SUBSET (TestKinds \X Item)
  BY <1>1, <1>p5, <1>p6
<1>8. /\ n \in Nodes /\ n.shape = "test" /\ n.src = raw /\ n.now = raw
      /\ ~n.ill /\ ~n.torn /\ n.lists = {} /\ n.seen = {} /\ n.tests = tests
  BY ONLY <1>6, <1>7, <1>p8 DEF Nodes
<1>9. /\ m \in Nodes /\ m.shape = "test" /\ m.src = raw
      /\ m.now = (IF kind \in {"seqList", "itemPos"} THEN bs ELSE raw)
      /\ ~m.ill /\ ~m.torn /\ m.lists = {} /\ m.tests = tests
  <2>1. ASSUME NEW rule \in {"SeqList", "General"}, NEW r, r = Replace(n, rule, bs)
        PROVE  /\ r \in Nodes /\ r.shape = "test" /\ r.src = raw /\ r.now = bs
               /\ ~r.ill /\ ~r.torn /\ r.lists = {} /\ r.tests = tests
    <3>1. rule \in Rules /\ rule \notin n.seen
      BY <1>2, <1>8
    <3>2. /\ r \in Nodes /\ Keeps(r, n) /\ (r.ill <=> n.ill) /\ (r.torn <=> n.torn) /\ r.now = bs
      BY ONLY <1>5, <1>8, <2>1, <3>1, ReplaceFirst
    <3>. QED
      BY ONLY <1>8, <3>2 DEF Keeps
  <2>2. CASE kind = "seqList"
    BY <1>p9, <2>1, <2>2
  <2>3. CASE kind = "itemPos"
    BY <1>p9, <2>1, <2>3
  <2>4. CASE kind \notin {"seqList", "itemPos"}
    BY <1>8, <1>p9, <2>4
  <2>. QED
    BY <2>2, <2>3, <2>4
<1>10. u[1] = kind /\ u[2] = next
  BY <1>p5
<1>11. Items(m) = {next} /\ Of(m.now) = {next}
  BY <1>4, <1>5, <1>9, <1>p1, <1>p2 DEF Items, Of
<1>12. m.now.raw \subseteq Waits(m)
  <2>1. CASE kind \in {"seqList", "itemPos"}
    BY <1>5, <1>9, <1>p2, <2>1
  <2>2. CASE kind \notin {"seqList", "itemPos"}
    <3>1. u[1] \in {"action", "fixedAction"} /\ u \in m.tests
      BY <1>9, <1>10, <1>p6, <2>2 DEF TestKinds
    <3>2. next \in Waits(m)
      BY <1>10, <3>1 DEF Waits
    <3>. QED
      BY <1>4, <1>9, <1>p1, <2>2, <3>2
  <2>. QED
    BY <2>1, <2>2
<1>13. Superseded(m) \subseteq {next}
  BY <1>9, <1>10, <1>p6 DEF Superseded
<1>14. m.shape \notin Expression /\ ~IsStringNode(m) /\ ~IsNumberNode(m)
  BY <1>9 DEF Expression, IsStringNode, IsNumberNode
<1>15. Guarded(m) /\ Sound(m)
  BY <1>9, <1>14 DEF Guarded, Sound
<1>16. Whole(m)
  BY <1>9, <1>14, <1>p6 DEF Whole
<1>17. Converted(m)
  BY <1>9, <1>12, <1>14 DEF Converted
<1>18. Complete(m)
  <2>1. \A t \in m.tests : t[2] \in Items(m)
    BY <1>9, <1>10, <1>11, <1>p6
  <2>2. \E t \in m.tests : m.tests = {t} /\ Items(m) = {t[2]}
    BY <1>9, <1>10, <1>11, <1>p6
  <2>3. Items(m) = Of(m.now) \union Superseded(m)
    BY <1>11, <1>13
  <2>. QED
    BY <1>14, <2>1, <2>2, <2>3 DEF Complete
<1>19. Good(m)
  BY <1>15, <1>16, <1>17, <1>18 DEF Good
<1>. QED
  BY <1>1, <1>3, <1>9, <1>11, <1>19, LeafStep

(* a && b is good: two kinds of tests in it are marked.                    *)
LEMMA AndIsGood ==
  ASSUME NEW a \in Nodes, NEW b \in Nodes, Good(a), Good(b),
         a.shape = "test", b.shape \in {"test", "field"},
         NEW m \in Nodes, m.shape = "test", Items(m) = Items(a) \union Items(b),
         m.now.raw = a.now.raw \union b.now.raw,
         m.ill <=> (a.ill \/ b.ill), m.torn <=> (a.torn \/ b.torn),
         m.tests = a.tests \union b.tests, m.lists = a.lists \union b.lists,
         a.forms \subseteq m.forms, b.forms \subseteq m.forms, "TestBeside" \in m.forms,
         b.shape = "test" => "TwoTests" \in m.forms
  PROVE  Good(m)
<1>1. \A fs : Has(a, fs) \/ Has(b, fs) => Has(m, fs)
  BY DEF Has
<1>2. /\ a.torn => Has(a, Tearing)
      /\ a.ill => Has(a, Ills)
      /\ a.now.raw \subseteq Waits(a) \/ Has(a, Raws)
      /\ a.lists # {} => "SizedVector" \in a.forms
      /\ \A t \in a.tests : t[2] \in Items(a)
  BY ONLY AnyIs, a \in Nodes, Good(a)
<1>3. /\ b.torn => Has(b, Tearing)
      /\ b.ill => Has(b, Ills)
      /\ b.now.raw \subseteq Waits(b) \/ Has(b, Raws)
      /\ b.lists # {} => "SizedVector" \in b.forms
      /\ \A t \in b.tests : t[2] \in Items(b)
  BY ONLY AnyIs, b \in Nodes, Good(b)
<1>4. m.shape \notin Expression /\ ~IsStringNode(m) /\ ~IsNumberNode(m)
  BY DEF Expression, IsStringNode, IsNumberNode
<1>5. Guarded(m)
  BY <1>4 DEF Guarded
<1>6. Sound(m)
  BY <1>1, <1>2, <1>3, <1>4 DEF Sound
<1>7. Whole(m)
  <2>1. m.torn => Has(m, Tearing)
    BY <1>1, <1>2, <1>3
  <2>2. "TwoTests" \in m.forms \/ \A s, t \in m.tests : s[1] = t[1]
    <3>1. CASE b.shape = "field"
      <4>1. b.shape \in Expression
        BY <3>1 DEF Expression
      <4>2. m.tests = a.tests
        BY <4>1 DEF Good, Whole
      <4>3. "TwoTests" \in a.forms \/ \A s, t \in a.tests : s[1] = t[1]
        BY DEF Good, Whole
      <4>. QED
        BY <4>2, <4>3
    <3>. QED
      BY <3>1
  <2>. QED
    BY <1>4, <2>1, <2>2 DEF Whole
<1>8. Converted(m)
  <2>1. Waits(a) \subseteq Waits(m) /\ Waits(b) \subseteq Waits(m)
    BY DEF Waits
  <2>2. m.now.raw \subseteq Waits(m) \/ Has(m, Raws)
    BY <1>1, <1>2, <1>3, <2>1
  <2>3. m.lists # {} => "SizedVector" \in m.forms
    BY <1>2, <1>3
  <2>. QED
    BY <1>4, <2>2, <2>3 DEF Converted
<1>9. Complete(m)
  <2>1. Has(m, Losses)
    BY DEF Has, Losses
  <2>2. \A t \in m.tests : t[2] \in Items(m)
    BY <1>2, <1>3
  <2>. QED
    BY <1>4, <2>1, <2>2 DEF Complete
<1>. QED
  BY <1>5, <1>6, <1>7, <1>8, <1>9 DEF Good

(* a && b keeps the invariant.                                             *)
LEMMA AndStep ==
  ASSUME IInv, And
  PROVE  IInv'
<1>p1. PICK a : a = Popped(1)
  OBVIOUS
<1>p2. PICK b : b = Popped(0)
  OBVIOUS
<1>0. /\ Depth >= 2 /\ a.shape = "test" /\ b.shape \in {"test", "field"}
      /\ UNCHANGED <<next, var, stored, stale>>
  BY <1>p1, <1>p2 DEF And, Same
<1>1. /\ a \in Nodes /\ Good(a) /\ Placed(a) /\ b \in Nodes /\ Good(b) /\ Placed(b)
      /\ 2 \in 0 .. Depth /\ \A j \in 0 .. 2 - 1 : Popped(j) \in {a, b}
  BY <1>0, <1>p1, <1>p2, TwoPopped
<1>2. /\ a.src \in Texts /\ a.now \in Texts /\ b.src \in Texts /\ b.now \in Texts
      /\ "test" \in Shapes
  BY <1>1, NamesAre DEF Nodes
<1>p3. PICK src : src = Both(a.src, b.src)
  OBVIOUS
<1>p4. PICK now : now = Both(a.now, b.now)
  OBVIOUS
<1>p5. PICK n : n = Over("test", src, now, {a, b})
  OBVIOUS
<1>p6. PICK fs : fs = {"TestBeside"} \union If(b.shape = "test", "TwoTests")
  OBVIOUS
<1>p7. PICK m : m = Is(n, fs)
  OBVIOUS
<1>3. work' = Append(SubSeq(work, 1, Depth - 2), m)
  BY <1>p1, <1>p2, <1>p3, <1>p4, <1>p5, <1>p6, <1>p7 DEF And, Grow
<1>4. /\ src \in Texts
      /\ src.raw = a.src.raw \union b.src.raw /\ src.out = a.src.out \union b.src.out
  BY <1>2, <1>p3, BothIs
<1>5. now \in Texts /\ now.raw = a.now.raw \union b.now.raw
  BY <1>2, <1>p4, BothIs
<1>6. /\ n \in Nodes /\ n.shape = "test" /\ n.src = src /\ n.now = now
      /\ (n.ill <=> (a.ill \/ b.ill)) /\ (n.torn <=> (a.torn \/ b.torn))
      /\ n.tests = a.tests \union b.tests /\ n.lists = a.lists \union b.lists
      /\ n.forms = a.forms \union b.forms
  <2>1. a \in Nodes /\ b \in Nodes /\ src \in Texts /\ now \in Texts /\ "test" \in Shapes
    BY <1>1, <1>2, <1>4, <1>5
  <2>. QED
    BY ONLY <1>p5, <2>1, OverTwo, SMTT(60)
<1>7. /\ fs \in SUBSET Forms /\ "TestBeside" \in fs /\ (b.shape = "test" => "TwoTests" \in fs)
  BY <1>p6 DEF Forms, If
<1>8. /\ m \in Nodes /\ Keeps(m, n) /\ m.now = n.now
      /\ (m.torn <=> n.torn) /\ (m.ill <=> n.ill) /\ m.forms = n.forms \union fs
  BY ONLY <1>6, <1>7, <1>p7, IsIs
<1>9. /\ m.shape = "test" /\ m.src = src /\ m.now = now
      /\ (m.ill <=> (a.ill \/ b.ill)) /\ (m.torn <=> (a.torn \/ b.torn))
      /\ m.tests = a.tests \union b.tests /\ m.lists = a.lists \union b.lists
      /\ m.forms = a.forms \union b.forms \union fs
  BY ONLY <1>6, <1>8 DEF Keeps
<1>10. /\ a.forms \subseteq m.forms /\ b.forms \subseteq m.forms /\ "TestBeside" \in m.forms
       /\ (b.shape = "test" => "TwoTests" \in m.forms)
  BY <1>7, <1>9
<1>11. Items(m) = Items(a) \union Items(b)
  BY <1>4, <1>9 DEF Items, Of
<1>12. Good(m)
  BY <1>0, <1>1, <1>5, <1>8, <1>9, <1>10, <1>11, AndIsGood
<1>13. Placed(m)'
  <2>p1. PICK ps : ps = {a, b}
    OBVIOUS
  <2>1. /\ ps \in SUBSET Nodes /\ \A p \in ps : Placed(p) /\ Items(p) \subseteq Items(m)
        /\ \A i \in Items(m) : \E p \in ps : i \in Items(p)
        /\ \A i \in m.lists : \E p \in ps : i \in p.lists
    BY <1>1, <1>9, <1>11, <2>p1
  <2>2. m.shape \notin Expression
    BY <1>9 DEF Expression
  <2>. QED
    BY <1>0, <1>8, <2>1, <2>2, PlacedStatement
<1>14. \A j \in 0 .. 2 - 1 : Popped(j).forms \subseteq m.forms
  BY <1>1, <1>10
<1>15. next' \in next .. MaxItems + 1
  BY <1>0, NextStays
<1>. QED
  BY <1>0, <1>1, <1>3, <1>8, <1>12, <1>13, <1>14, <1>15, Stepped

(* A block keeps the invariant.                                            *)
LEMMA BlockStep ==
  ASSUME IInv, NEW k \in {1, 2}, Block(k)
  PROVE  IInv'
<1>p1. PICK a : a = Popped(k - 1)
  OBVIOUS
<1>p2. PICK b : b = IF k = 2 THEN Popped(0) ELSE Missing
  OBVIOUS
<1>0. Depth >= k /\ UNCHANGED <<next, var, stored, stale>>
  BY DEF Block, Same
<1>1. /\ a \in Nodes /\ Good(a) /\ Placed(a) /\ b \in Nodes /\ Good(b) /\ Placed(b)
      /\ k \in 0 .. Depth /\ \A j \in 0 .. k - 1 : Popped(j) \in {a, b}
  <2>1. CASE k = 1
    <3>1. a = Popped(0) /\ b = Missing
      BY <1>p1, <1>p2, <2>1
    <3>2. /\ a \in Nodes /\ Good(a) /\ Placed(a) /\ 1 \in 0 .. Depth
          /\ \A j \in 0 .. 1 - 1 : Popped(j) = a
      BY <1>0, <2>1, <3>1, OnePopped
    <3>3. b \in Nodes /\ Good(b) /\ Placed(b)
      BY <3>1, MissingIs
    <3>. QED
      BY <2>1, <3>2, <3>3
  <2>2. CASE k = 2
    <3>1. a = Popped(1) /\ b = Popped(0)
      BY <1>p1, <1>p2, <2>2
    <3>2. /\ a \in Nodes /\ Good(a) /\ Placed(a) /\ b \in Nodes /\ Good(b) /\ Placed(b)
          /\ 2 \in 0 .. Depth /\ \A j \in 0 .. 2 - 1 : Popped(j) \in {a, b}
      BY <1>0, <2>2, <3>1, TwoPopped
    <3>. QED
      BY <2>2, <3>2
  <2>. QED
    BY <2>1, <2>2
<1>2. /\ a.src \in Texts /\ a.now \in Texts /\ b.src \in Texts /\ b.now \in Texts
      /\ "block" \in Shapes
  BY <1>1, NamesAre DEF Nodes
<1>p3. PICK src : src = Both(a.src, b.src)
  OBVIOUS
<1>p4. PICK now : now = Both(a.now, b.now)
  OBVIOUS
<1>p5. PICK m : m = Over("block", src, now, {a, b})
  OBVIOUS
<1>3. work' = Append(SubSeq(work, 1, Depth - k), m)
  BY <1>p1, <1>p2, <1>p3, <1>p4, <1>p5 DEF Block, Grow
<1>4. /\ src \in Texts
      /\ src.raw = a.src.raw \union b.src.raw /\ src.out = a.src.out \union b.src.out
  BY <1>2, <1>p3, BothIs
<1>5. /\ now \in Texts
      /\ now.raw = a.now.raw \union b.now.raw /\ now.out = a.now.out \union b.now.out
  BY <1>2, <1>p4, BothIs
<1>6. /\ m \in Nodes /\ m.shape = "block" /\ m.src = src /\ m.now = now
      /\ (m.ill <=> (a.ill \/ b.ill)) /\ (m.torn <=> (a.torn \/ b.torn))
      /\ m.tests = a.tests \union b.tests /\ m.lists = a.lists \union b.lists
      /\ m.forms = a.forms \union b.forms
  <2>1. a \in Nodes /\ b \in Nodes /\ src \in Texts /\ now \in Texts /\ "block" \in Shapes
    BY <1>1, <1>2, <1>4, <1>5
  <2>. QED
    BY ONLY <1>p5, <2>1, OverTwo, SMTT(60)
<1>7. Items(m) = Items(a) \union Items(b)
  BY <1>4, <1>6 DEF Items, Of
<1>8. Good(m)
  BY <1>1, <1>5, <1>6, <1>7, TwoStatementsAreGood
<1>9. Placed(m)'
  <2>p1. PICK ps : ps = {a, b}
    OBVIOUS
  <2>1. /\ ps \in SUBSET Nodes /\ \A p \in ps : Placed(p) /\ Items(p) \subseteq Items(m)
        /\ \A i \in Items(m) : \E p \in ps : i \in Items(p)
        /\ \A i \in m.lists : \E p \in ps : i \in p.lists
    BY <1>1, <1>6, <1>7, <2>p1
  <2>2. m.shape \notin Expression
    BY <1>6 DEF Expression
  <2>. QED
    BY <1>0, <1>6, <2>1, <2>2, PlacedStatement
<1>10. \A j \in 0 .. k - 1 : Popped(j).forms \subseteq m.forms
  BY <1>1, <1>6
<1>11. next' \in next .. MaxItems + 1
  BY <1>0, NextStays
<1>. QED
  BY <1>0, <1>1, <1>3, <1>6, <1>8, <1>9, <1>10, <1>11, Stepped

(* A loop as a rule leaves it: the text and what may be wrong with it.       *)
LEMMA WriteLoopIs ==
  ASSUME NEW n \in Nodes, n.seen = {}, NEW b \in Nodes, n.now = b.now, NEW kind \in Loops,
         NEW m, m = WriteLoop(n, b, kind)
  PROVE  /\ m \in Nodes /\ Keeps(m, n) /\ m.forms = n.forms
         /\ m.now \in {b.now, Compound(b)} \/ (kind = "seqList" /\ m.now = b.src)
         /\ m.torn => n.torn \/ kind = "middleList"
         /\ m.ill => n.ill \/ b.shape # "block"
<1>p1. PICK text : text = Compound(b)
  OBVIOUS
<1>p2. PICK bad \in BOOLEAN : bad <=> b.shape # "block"
  OBVIOUS
<1>p3. PICK f : f = Fail(n, bad)
  OBVIOUS
<1>1. /\ b.now \in Texts /\ b.src \in Texts
      /\ {"ProtoList", "QueryToken", "General", "MiddleNode", "ActionDetail", "DoubleList"}
           \subseteq Rules
  BY NamesAre DEF Nodes
<1>2. text \in Texts
  BY <1>1, <1>p1, MissingIs DEF Compound, Nothing, Text, Texts, Types
<1>3. ASSUME NEW rule \in Rules, NEW t \in Texts, NEW r, r = Replace(n, rule, t)
      PROVE  /\ r \in Nodes /\ Keeps(r, n) /\ r.forms = n.forms /\ r.now = t
             /\ (r.torn <=> n.torn) /\ (r.ill <=> n.ill)
  <2>1. rule \notin n.seen
    OBVIOUS
  <2>. QED
    BY ONLY <1>3, <2>1, n \in Nodes, rule \in Rules, t \in Texts, ReplaceFirst
<1>4. /\ f \in Nodes /\ Keeps(f, n) /\ f.now = n.now /\ f.seen = n.seen
      /\ (f.torn <=> n.torn) /\ f.forms = n.forms /\ (f.ill <=> (n.ill \/ bad))
  BY <1>p3, FailIs
<1>5. ASSUME NEW rule \in Rules, NEW r, r = Replace(f, rule, b.now)
      PROVE  /\ r \in Nodes /\ Keeps(r, n) /\ r.forms = n.forms /\ r.now = b.now
             /\ (r.torn <=> n.torn) /\ (r.ill <=> (n.ill \/ bad))
  <2>1. rule \notin f.seen
    BY <1>4
  <2>2. /\ r \in Nodes /\ Keeps(r, f) /\ r.forms = f.forms /\ r.now = b.now
        /\ (r.torn <=> f.torn) /\ (r.ill <=> f.ill)
    BY ONLY <1>1, <1>4, <1>5, <2>1, rule \in Rules, ReplaceFirst
  <2>. QED
    BY ONLY <1>4, <2>2 DEF Keeps
<1>6. f = LoopBody(n, b)
  BY <1>p2, <1>p3 DEF LoopBody
<1>7. CASE kind = "protoList"
  <2>1. m = Replace(n, "ProtoList", text)
    BY <1>7, <1>p1 DEF WriteLoop, ProtoListLoop
  <2>. QED
    BY <1>1, <1>2, <1>3, <2>1, <1>p1
<1>8. CASE kind = "queryToken"
  <2>1. m = Replace(n, "QueryToken", text)
    BY <1>8, <1>p1 DEF WriteLoop, QueryTokenLoop
  <2>. QED
    BY <1>1, <1>2, <1>3, <2>1, <1>p1
<1>9. CASE kind = "protoMap"
  <2>1. m = Replace(n, "General", text)
    BY <1>9, <1>p1 DEF WriteLoop, ProtoMapLoop
  <2>. QED
    BY <1>1, <1>2, <1>3, <2>1, <1>p1
<1>10. CASE kind = "middleNode"
  <2>1. m = Replace(f, "MiddleNode", b.now)
    BY <1>6, <1>10 DEF WriteLoop, MiddleNodeLoop
  <2>. QED
    BY <1>1, <1>5, <2>1, <1>p2
<1>11. CASE kind = "doubleList"
  <2>1. m = Replace(f, "DoubleList", b.now)
    BY <1>6, <1>11 DEF WriteLoop, DoubleListLoop
  <2>. QED
    BY <1>1, <1>5, <2>1, <1>p2
<1>12. CASE kind = "middleList"
  <2>p1. PICK r : r = Replace(f, "DoubleList", b.now)
    OBVIOUS
  <2>1. m = Tear(r)
    BY <1>6, <1>12, <2>p1 DEF WriteLoop, MiddleListLoop, DoubleListLoop
  <2>2. /\ r \in Nodes /\ Keeps(r, n) /\ r.forms = n.forms /\ r.now = b.now
        /\ (r.ill <=> (n.ill \/ bad))
    BY <1>1, <1>5, <2>p1
  <2>3. /\ m \in Nodes /\ Keeps(m, r) /\ m.now = r.now /\ (m.ill <=> r.ill) /\ m.forms = r.forms
    BY <2>1, <2>2, TearIs
  <2>4. Keeps(m, n)
    BY ONLY <2>2, <2>3 DEF Keeps
  <2>. QED
    BY <1>12, <2>2, <2>3, <2>4, <1>p2
<1>13. CASE kind = "intList"
  <2>1. m = Replace(n, "ActionDetail", b.now)
    BY <1>13 DEF WriteLoop, IntListLoop
  <2>. QED
    BY <1>1, <1>3, <2>1
<1>14. CASE kind = "seqList"
  <2>1. m = Replace(n, "General", b.src)
    BY <1>14 DEF WriteLoop, SeqListLoop
  <2>. QED
    BY <1>1, <1>3, <1>14, <2>1
<1>15. CASE kind = "other"
  <2>1. m = n
    BY <1>15 DEF WriteLoop
  <2>. QED
    BY <2>1 DEF Keeps
<1>. QED
  BY <1>7, <1>8, <1>9, <1>10, <1>11, <1>12, <1>13, <1>14, <1>15 DEF Loops

(* The text between the braces, or none.                                     *)
LEMMA CompoundIs ==
  ASSUME NEW b \in Nodes, NEW t, t = Compound(b)
  PROVE  /\ t \in Texts /\ t.raw \subseteq b.now.raw
         /\ b.shape = "block" => t = b.now
<1>1. b.now \in Texts
  BY DEF Nodes
<1>2. CASE b.shape = "block"
  BY <1>1, <1>2 DEF Compound
<1>3. CASE b.shape # "block"
  <2>p1. PICK empty : empty = {}
    OBVIOUS
  <2>1. t = Text(empty, empty, "other", FALSE)
    BY <1>3, <2>p1 DEF Compound, Nothing
  <2>2. empty \in SUBSET Nat /\ "other" \in Types
    BY <2>p1, NamesAre
  <2>3. t \in Texts /\ t.raw = empty
    BY ONLY <2>1, <2>2 DEF Text, Texts
  <2>. QED
    BY <1>3, <2>3, <2>p1
<1>. QED
  BY <1>2, <1>3

(* A node whose scope has closed.                                            *)
LEMMA OutIs ==
  ASSUME NEW n \in Nodes, NEW m, m = Out(n)
  PROVE  /\ m \in Nodes /\ Keeps(m, n) /\ m.now = n.now
         /\ (m.torn <=> n.torn) /\ (m.ill <=> n.ill) /\ m.forms = n.forms
<1>p1. PICK empty : empty = {}
  OBVIOUS
<1>1. empty \in SUBSET Vars
  BY <1>p1
<1>2. m = [ n EXCEPT !.decls = empty ]
  BY <1>p1 DEF Out
<1>3. m \in Nodes
  BY ONLY <1>1, <1>2, n \in Nodes DEF Nodes
<1>. QED
  BY ONLY <1>2, <1>3, n \in Nodes DEF Nodes, Keeps

(* A loop keeps the invariant, whichever rule writes it: bodies without    *)
(* braces, sequences and three lists are marked.                           *)
LEMMA CloseLoopStep ==
  ASSUME IInv, NEW kind \in Loops, CloseLoop(kind)
  PROVE  IInv'
<1>p1. PICK b : b = Popped(0)
  OBVIOUS
<1>p2. PICK n : n = Over("loop", b.src, b.now, {b})
  OBVIOUS
<1>p3. PICK w : w = WriteLoop(n, b, kind)
  OBVIOUS
<1>p4. PICK fs : fs = If(b.shape # "block", "Braceless") \union
                      If(kind = "seqList", "SeqListLoop") \union
                      If(kind = "middleList", "ThreeLists")
  OBVIOUS
<1>p5. PICK q : q = Is(w, fs)
  OBVIOUS
<1>p6. PICK m : m = Out(q)
  OBVIOUS
<1>0. /\ Depth >= 1 /\ UNCHANGED <<next, stored>>
      /\ var' = [ v \in DOMAIN var \ n.decls |-> var[v] ]
      /\ stale' = stale \union If(b.shape # "block" /\ Rereads(b), <<"body", 0>>)
  BY <1>p1, <1>p2 DEF CloseLoop
<1>1. /\ b \in Nodes /\ Good(b) /\ Placed(b) /\ 1 \in 0 .. Depth
      /\ \A j \in 0 .. 1 - 1 : Popped(j) = b
  BY <1>0, <1>p1, OnePopped
<1>2. work' = Append(SubSeq(work, 1, Depth - 1), m)
  BY <1>p1, <1>p2, <1>p3, <1>p4, <1>p5, <1>p6 DEF CloseLoop, Grow
<1>3. b.src \in Texts /\ b.now \in Texts /\ "loop" \in Shapes
  BY <1>1, NamesAre DEF Nodes
<1>4. /\ n \in Nodes /\ n.shape = "loop" /\ n.src = b.src /\ n.now = b.now /\ n.seen = {}
      /\ (n.ill <=> b.ill) /\ (n.torn <=> b.torn)
      /\ n.tests = b.tests /\ n.lists = b.lists /\ n.forms = b.forms
  <2>1. b \in Nodes /\ b.src \in Texts /\ b.now \in Texts /\ "loop" \in Shapes
    BY <1>1, <1>3
  <2>2. TakesFrom(n, "loop", b.src, b.now, b)
    BY ONLY <1>p2, <2>1, OverAlone
  <2>. QED
    BY ONLY <2>2 DEF TakesFrom
<1>5. /\ w \in Nodes /\ Keeps(w, n) /\ w.forms = n.forms
      /\ w.now \in {b.now, Compound(b)} \/ (kind = "seqList" /\ w.now = b.src)
      /\ w.torn => n.torn \/ kind = "middleList"
      /\ w.ill => n.ill \/ b.shape # "block"
  BY <1>1, <1>4, <1>p3, WriteLoopIs
<1>6. /\ fs \in SUBSET Forms /\ (b.shape # "block" => "Braceless" \in fs)
      /\ (kind = "seqList" => "SeqListLoop" \in fs)
      /\ (kind = "middleList" => "ThreeLists" \in fs)
  BY <1>p4 DEF Forms, If
<1>7. /\ q \in Nodes /\ Keeps(q, w) /\ q.now = w.now
      /\ (q.torn <=> w.torn) /\ (q.ill <=> w.ill) /\ q.forms = w.forms \union fs
  BY ONLY <1>5, <1>6, <1>p5, IsIs
<1>8. /\ m \in Nodes /\ Keeps(m, q) /\ m.now = q.now
      /\ (m.torn <=> q.torn) /\ (m.ill <=> q.ill) /\ m.forms = q.forms
  BY ONLY <1>7, <1>p6, OutIs
<1>9. /\ m.shape = "loop" /\ m.src = b.src /\ m.tests = b.tests /\ m.lists = b.lists
  BY ONLY <1>4, <1>5, <1>7, <1>8 DEF Keeps
<1>10. /\ m.forms = b.forms \union fs /\ m.now = w.now
       /\ (m.torn => b.torn \/ kind = "middleList")
       /\ (m.ill => b.ill \/ b.shape # "block")
  BY <1>4, <1>5, <1>7, <1>8
<1>11. /\ \A gs : Has(b, gs) => Has(m, gs)
       /\ (b.shape # "block" => Has(m, Ills) /\ Has(m, Losses) /\ Has(m, Rereading))
       /\ (kind = "seqList" => Has(m, Raws)) /\ (kind = "middleList" => Has(m, Tearing))
  BY <1>6, <1>10 DEF Has, Ills, Losses, Rereading, Raws, Tearing
<1>12. /\ b.torn => Has(b, Tearing)
       /\ b.ill => Has(b, Ills)
       /\ b.now.raw \subseteq Waits(b) \/ Has(b, Raws)
       /\ b.lists # {} => "SizedVector" \in b.forms
       /\ Items(b) = Of(b.now) \union Superseded(b) \/ Has(b, Losses)
       /\ \A t \in b.tests : t[2] \in Items(b)
  BY ONLY AnyIs, <1>1
<1>13. /\ Items(m) = Items(b) /\ Of(b.src) = Items(b)
       /\ Superseded(m) = Superseded(b) /\ Waits(m) = Waits(b)
  BY <1>9 DEF Items, Superseded, Waits
<1>14. Superseded(b) \subseteq Items(b)
  BY <1>12 DEF Superseded
<1>p7. PICK text : text = Compound(b)
  OBVIOUS
<1>15. text.raw \subseteq b.now.raw /\ (b.shape = "block" => text = b.now)
  BY <1>1, <1>p7, CompoundIs
<1>16. m.now \in {b.now, text} \/ (kind = "seqList" /\ m.now = b.src)
  BY <1>5, <1>10, <1>p7
<1>17. m.now.raw \subseteq Waits(m) \/ Has(m, Raws)
  BY <1>11, <1>12, <1>13, <1>15, <1>16
<1>18. Items(m) = Of(m.now) \union Superseded(m) \/ Has(m, Losses)
  <2>1. CASE b.shape # "block"
    BY <1>11, <2>1
  <2>2. CASE m.now = b.src
    BY <1>13, <1>14, <2>2
  <2>3. CASE b.shape = "block" /\ m.now # b.src
    BY <1>11, <1>12, <1>13, <1>15, <1>16, <2>3
  <2>. QED
    BY <2>1, <2>2, <2>3
<1>19. Good(m)
  <2>1. (m.torn => Has(m, Tearing)) /\ (m.ill => Has(m, Ills))
    BY <1>10, <1>11, <1>12
  <2>2. m.lists # {} => "SizedVector" \in m.forms
    BY <1>9, <1>10, <1>12
  <2>3. \A t \in m.tests : t[2] \in Items(m)
    BY <1>9, <1>12, <1>13
  <2>. QED
    BY ONLY <1>8, <1>9, <1>17, <1>18, <2>1, <2>2, <2>3, StatementIsGood
<1>20. Placed(m)'
  <2>p1. PICK ps : ps = {b}
    OBVIOUS
  <2>1. /\ ps \in SUBSET Nodes /\ \A p \in ps : Placed(p) /\ Items(p) \subseteq Items(m)
        /\ \A i \in Items(m) : \E p \in ps : i \in Items(p)
        /\ \A i \in m.lists : \E p \in ps : i \in p.lists
    BY <1>1, <1>9, <1>13, <2>p1
  <2>2. m.shape \notin Expression
    BY <1>9 DEF Expression
  <2>. QED
    BY <1>0, <1>8, <2>1, <2>2, PlacedStatement
<1>21. \A j \in 0 .. 1 - 1 : Popped(j).forms \subseteq m.forms
  BY <1>1, <1>10
<1>22. next' \in next .. MaxItems + 1
  BY <1>0, NextStays
<1>23. \A r \in stale' : r \in stale \/ r[1] = "lambda" \/ Has(m, Rereading)
  BY <1>0, <1>11 DEF If
<1>24. \A v \in DOMAIN var' : v \in DOMAIN var /\ var'[v] = var[v]
  BY <1>0
<1>. QED
  BY <1>0, <1>1, <1>2, <1>8, <1>19, <1>20, <1>21, <1>22, <1>23, <1>24, Stepped

(* OverIs for three parts.                                                 *)
LEMMA OverThree ==
  ASSUME NEW shape \in Shapes, NEW src \in Texts, NEW now \in Texts,
         NEW p \in Nodes, NEW q \in Nodes, NEW r \in Nodes,
         NEW n, n = Over(shape, src, now, {p, q, r})
  PROVE  /\ n \in Nodes /\ n.shape = shape /\ n.src = src /\ n.now = now /\ n.seen = {}
         /\ (n.ill <=> (p.ill \/ q.ill \/ r.ill)) /\ (n.torn <=> (p.torn \/ q.torn \/ r.torn))
         /\ n.tests = p.tests \union q.tests \union r.tests
         /\ n.lists = p.lists \union q.lists \union r.lists
         /\ n.forms = p.forms \union q.forms \union r.forms
<1>p1. PICK ps : ps = {p, q, r}
  OBVIOUS
<1>1. ps \in SUBSET Nodes /\ n = Over(shape, src, now, ps)
  BY <1>p1
<1>2. /\ n \in Nodes /\ n.shape = shape /\ n.src = src /\ n.now = now /\ n.seen = {}
      /\ (n.ill <=> (\E o \in ps : o.ill)) /\ (n.torn <=> (\E o \in ps : o.torn))
      /\ n.tests = UNION { o.tests : o \in ps } /\ n.lists = UNION { o.lists : o \in ps }
      /\ n.forms = UNION { o.forms : o \in ps }
  <2>1. shape \in Shapes /\ src \in Texts /\ now \in Texts /\ ps \in SUBSET Nodes
    BY <1>1
  <2>. QED
    BY ONLY <1>1, <2>1, OverIs, SMTT(60)
<1>3. n.tests = p.tests \union q.tests \union r.tests
  BY ONLY <1>2, <1>p1
<1>4. n.lists = p.lists \union q.lists \union r.lists
  BY ONLY <1>2, <1>p1
<1>5. n.forms = p.forms \union q.forms \union r.forms
  BY ONLY <1>2, <1>p1
<1>6. (n.ill <=> (p.ill \/ q.ill \/ r.ill)) /\ (n.torn <=> (p.torn \/ q.torn \/ r.torn))
  BY ONLY <1>2, <1>p1
<1>. QED
  BY ONLY <1>2, <1>3, <1>4, <1>5, <1>6

(* The text written for a test: of the item that test stands for.            *)
LEMMA TestOfIs ==
  ASSUME NEW c \in Nodes, NEW kind, kind \in Kinds(c), NEW t, t = TestOf(c, kind)
  PROVE  \E i \in Item : /\ <<kind, i>> \in c.tests
                         /\ t \in Texts /\ t.raw = {} /\ t.out = {i}
<1>1. \E i \in Item : <<kind, i>> \in c.tests
  <2>1. PICK u \in c.tests : u[1] = kind
    BY DEF Kinds
  <2>2. u \in TestKinds \X Item
    BY DEF Nodes
  <2>3. u[2] \in Item /\ u = <<kind, u[2]>>
    BY <2>1, <2>2
  <2>. QED
    BY <2>1, <2>3
<1>p1. PICK i : i = CHOOSE j \in Item : <<kind, j>> \in c.tests
  OBVIOUS
<1>2. i \in Item /\ <<kind, i>> \in c.tests
  BY <1>1, <1>p1
<1>p2. PICK empty : empty = {}
  OBVIOUS
<1>p3. PICK out : out = {i}
  OBVIOUS
<1>3. t = Text(empty, out, "other", FALSE)
  BY <1>p1, <1>p2, <1>p3 DEF TestOf, TestText
<1>4. empty \in SUBSET Nat /\ out \in SUBSET Nat /\ "other" \in Types
  BY <1>2, <1>p2, <1>p3, NamesAre DEF Item
<1>5. t \in Texts /\ t.raw = empty /\ t.out = out
  BY ONLY <1>3, <1>4 DEF Text, Texts
<1>. QED
  BY <1>2, <1>5, <1>p2, <1>p3

(* A rule writes an if anew from parts it takes of it.                       *)
LEMMA TakenAndWritten ==
  ASSUME NEW n \in Nodes, NEW rule \in Rules, rule \notin n.seen, NEW t \in Texts,
         NEW m, m = Replace(Tear(n), rule, t)
  PROVE  /\ m \in Nodes /\ Keeps(m, n) /\ m.forms = n.forms /\ m.now = t
         /\ (m.ill <=> n.ill) /\ m.seen = n.seen \union {rule}
         /\ (m.torn <=> (n.torn \/ n.seen # {}))
<1>p1. PICK w : w = Tear(n)
  OBVIOUS
<1>1. /\ w \in Nodes /\ Keeps(w, n) /\ w.now = n.now /\ w.seen = n.seen
      /\ (w.ill <=> n.ill) /\ w.forms = n.forms /\ (w.torn <=> (n.torn \/ n.seen # {}))
  BY ONLY n \in Nodes, <1>p1, TearIs
<1>2. rule \notin w.seen /\ m = Replace(w, rule, t)
  BY <1>1, <1>p1
<1>3. /\ m \in Nodes /\ Keeps(m, w) /\ (m.ill <=> w.ill) /\ (m.torn <=> w.torn)
      /\ m.forms = w.forms /\ m.now = t /\ m.seen = w.seen \union {rule}
  BY ONLY <1>1, <1>2, rule \in Rules, t \in Texts, ReplaceIs
<1>. QED
  BY ONLY <1>1, <1>3 DEF Keeps

(* m is the if n after ActionDetailRule: a text for the whole condition or *)
(* the whole if, and a replacement only for a single action that must      *)
(* exist.                                                                  *)
ActionWritten(m, n, c, t, l) ==
  /\ m \in Nodes /\ Keeps(m, n) /\ m.forms = n.forms
  /\ (m.ill <=> n.ill) /\ (m.torn <=> n.torn)
  /\ m.seen \subseteq {"ActionDetail"}
  /\ m.seen # {} => "fixedAction" \in Kinds(c)
  /\ m.now.raw \subseteq n.now.raw
  /\ Kinds(c) \intersect {"action", "fixedAction"} = {} => m.now = n.now
  /\ "action" \in Kinds(c) =>
       \E i \in Item : /\ <<"action", i>> \in c.tests
                       /\ Of(m.now) = {i} \union Of(t.now) \union Of(l.now)

(* What the rules for actions make of an if.                                 *)
LEMMA ActionDetailIfIs ==
  ASSUME NEW n \in Nodes, n.seen = {}, NEW c \in Nodes, NEW t \in Nodes, NEW l \in Nodes,
         n.now.raw = c.now.raw \union t.now.raw \union l.now.raw,
         NEW m, m = ActionDetailIf(n, c, t, l)
  PROVE  ActionWritten(m, n, c, t, l)
<1>0. t.now \in Texts /\ l.now \in Texts /\ "ActionDetail" \in Rules
  BY NamesAre DEF Nodes
<1>1. CASE "action" \in Kinds(c)
  <2>p1. PICK x : x = TestOf(c, "action")
    OBVIOUS
  <2>p2. PICK y : y = Both(t.now, l.now)
    OBVIOUS
  <2>p3. PICK z : z = Both(x, y)
    OBVIOUS
  <2>p4. PICK kind : kind = "action"
    OBVIOUS
  <2>0. \E i \in Item : /\ <<"action", i>> \in c.tests
                        /\ x \in Texts /\ x.raw = {} /\ x.out = {i}
    <3>1. kind \in Kinds(c) /\ x = TestOf(c, kind)
      BY <1>1, <2>p1, <2>p4
    <3>2. \E i \in Item : /\ <<kind, i>> \in c.tests
                          /\ x \in Texts /\ x.raw = {} /\ x.out = {i}
      BY ONLY c \in Nodes, <3>1, TestOfIs
    <3>. QED
      BY <2>p4, <3>2
  <2>1. PICK i \in Item : /\ <<"action", i>> \in c.tests
                          /\ x \in Texts /\ x.raw = {} /\ x.out = {i}
    BY <2>0
  <2>2. /\ y \in Texts /\ y.raw = t.now.raw \union l.now.raw
        /\ y.out = t.now.out \union l.now.out
    BY <1>0, <2>p2, BothIs
  <2>3. z \in Texts /\ z.raw = x.raw \union y.raw /\ z.out = x.out \union y.out
    BY <2>1, <2>2, <2>p3, BothIs
  <2>4. m = [ n EXCEPT !.now = z ]
    BY <1>1, <2>p1, <2>p2, <2>p3 DEF ActionDetailIf
  <2>5. m \in Nodes /\ m.now = z /\ m.seen = n.seen
    BY ONLY <2>3, <2>4, n \in Nodes DEF Nodes
  <2>6. Keeps(m, n) /\ m.forms = n.forms /\ (m.ill <=> n.ill) /\ (m.torn <=> n.torn)
    BY ONLY <2>3, <2>4, n \in Nodes DEF Nodes, Keeps
  <2>7. m.now.raw \subseteq n.now.raw
    BY <2>1, <2>2, <2>3, <2>5
  <2>8. Of(m.now) = {i} \union Of(t.now) \union Of(l.now)
    BY <2>1, <2>2, <2>3, <2>5 DEF Of
  <2>. QED
    BY <1>1, <2>1, <2>5, <2>6, <2>7, <2>8 DEF ActionWritten
<1>2. CASE "action" \notin Kinds(c) /\ "fixedAction" \in Kinds(c)
  <2>p1. PICK x : x = TestOf(c, "fixedAction")
    OBVIOUS
  <2>1. x \in Texts /\ x.raw = {}
    BY <1>2, <2>p1, TestOfIs
  <2>2. m = Replace(n, "ActionDetail", x) /\ "ActionDetail" \notin n.seen
    BY <1>2, <2>p1 DEF ActionDetailIf
  <2>3. /\ m \in Nodes /\ Keeps(m, n) /\ (m.ill <=> n.ill) /\ (m.torn <=> n.torn)
        /\ m.forms = n.forms /\ m.now = x /\ m.seen = n.seen \union {"ActionDetail"}
    <3>1. "ActionDetail" \in Rules
      BY <1>0
    <3>. QED
      BY ONLY <2>1, <2>2, <3>1, n \in Nodes, ReplaceFirst
  <2>. QED
    BY <1>2, <2>1, <2>3 DEF ActionWritten
<1>3. CASE "action" \notin Kinds(c) /\ "fixedAction" \notin Kinds(c)
  <2>1. m = n
    BY <1>3 DEF ActionDetailIf
  <2>. QED
    BY <1>3, <2>1 DEF Keeps, ActionWritten
<1>. QED
  BY <1>1, <1>2, <1>3 DEF ActionWritten

(* m is the if n after SeqListRule: the then part alone, and torn where an *)
(* action has replaced it.                                                 *)
SeqListWritten(m, n, c, t) ==
  /\ m \in Nodes /\ Keeps(m, n) /\ m.forms = n.forms /\ (m.ill <=> n.ill)
  /\ m.torn => n.torn \/ ("seqList" \in Kinds(c) /\ n.seen # {})
  /\ m.seen \subseteq {"ActionDetail", "SeqList"}
  /\ m.seen # {} => n.seen # {} \/ "seqList" \in Kinds(c)
  /\ m.now.raw \subseteq n.now.raw \union t.now.raw
  /\ "seqList" \notin Kinds(c) => m.now = n.now
  /\ "seqList" \in Kinds(c) /\ t.shape = "block" =>
       \E i \in Item : /\ <<"seqList", i>> \in c.tests
                       /\ Of(m.now) = {i} \union Of(t.now)

(* What SeqListRule makes of it.                                             *)
LEMMA SeqListIfIs ==
  ASSUME NEW n \in Nodes, n.seen \subseteq {"ActionDetail"}, NEW c \in Nodes, NEW t \in Nodes,
         NEW m, m = SeqListIf(n, c, t)
  PROVE  SeqListWritten(m, n, c, t)
<1>1. CASE "seqList" \in Kinds(c)
  <2>p1. PICK x : x = TestOf(c, "seqList")
    OBVIOUS
  <2>p2. PICK y : y = Compound(t)
    OBVIOUS
  <2>p3. PICK z : z = Both(x, y)
    OBVIOUS
  <2>p4. PICK kind : kind = "seqList"
    OBVIOUS
  <2>0. \E i \in Item : /\ <<"seqList", i>> \in c.tests
                        /\ x \in Texts /\ x.raw = {} /\ x.out = {i}
    <3>1. kind \in Kinds(c) /\ x = TestOf(c, kind)
      BY <1>1, <2>p1, <2>p4
    <3>2. \E i \in Item : /\ <<kind, i>> \in c.tests
                          /\ x \in Texts /\ x.raw = {} /\ x.out = {i}
      BY ONLY c \in Nodes, <3>1, TestOfIs
    <3>. QED
      BY <2>p4, <3>2
  <2>1. PICK i \in Item : /\ <<"seqList", i>> \in c.tests
                          /\ x \in Texts /\ x.raw = {} /\ x.out = {i}
    BY <2>0
  <2>2. /\ y \in Texts /\ y.raw \subseteq t.now.raw /\ (t.shape = "block" => y = t.now)
    BY <2>p2, CompoundIs
  <2>3. z \in Texts /\ z.raw = x.raw \union y.raw /\ z.out = x.out \union y.out
    BY <2>1, <2>2, <2>p3, BothIs
  <2>4. m = Replace(Tear(n), "SeqList", z) /\ "SeqList" \notin n.seen /\ "SeqList" \in Rules
    BY <1>1, <2>p1, <2>p2, <2>p3, NamesAre DEF SeqListIf
  <2>5. /\ m \in Nodes /\ Keeps(m, n) /\ m.forms = n.forms /\ m.now = z
        /\ (m.ill <=> n.ill) /\ m.seen = n.seen \union {"SeqList"}
        /\ (m.torn <=> (n.torn \/ n.seen # {}))
    BY ONLY n \in Nodes, <2>3, <2>4, TakenAndWritten
  <2>6. m.now.raw \subseteq t.now.raw
    BY <2>1, <2>2, <2>3, <2>5
  <2>7. t.shape = "block" => Of(m.now) = {i} \union Of(t.now)
    BY <2>1, <2>2, <2>3, <2>5 DEF Of
  <2>8. m.seen \subseteq {"ActionDetail", "SeqList"}
    BY <2>5
  <2>. QED
    BY <1>1, <2>1, <2>5, <2>6, <2>7, <2>8 DEF SeqListWritten
<1>2. CASE "seqList" \notin Kinds(c)
  <2>1. m = n
    BY <1>2 DEF SeqListIf
  <2>. QED
    BY <1>2, <2>1 DEF Keeps, SeqListWritten
<1>. QED
  BY <1>1, <1>2 DEF SeqListWritten

(* m is the if n after GeneralRule: the then part alone where a position   *)
(* is tested, and torn where another rule has replaced it or in an else-   *)
(* if.                                                                     *)
GeneralWritten(m, n, c, t, l) ==
  /\ m \in Nodes /\ Keeps(m, n) /\ m.forms = n.forms /\ (m.ill <=> n.ill)
  /\ m.torn => n.torn \/ ("itemPos" \in Kinds(c) /\ n.seen # {}) \/ l.shape = "if"
  /\ m.now.raw \subseteq n.now.raw \union t.now.raw
  /\ "itemPos" \notin Kinds(c) => m.now = n.now
  /\ "itemPos" \in Kinds(c) /\ t.shape = "block" => m.now = t.now

(* What GeneralRule makes of it.                                             *)
LEMMA GeneralIfIs ==
  ASSUME NEW n \in Nodes, n.seen \subseteq {"ActionDetail", "SeqList"},
         NEW c \in Nodes, NEW t \in Nodes, NEW l \in Nodes, NEW defs \in BOOLEAN,
         NEW m, m = GeneralIf(n, c, t, l, defs)
  PROVE  GeneralWritten(m, n, c, t, l)
<1>p1. PICK y : y = Compound(t)
  OBVIOUS
<1>p2. PICK w : w = IF "itemPos" \in Kinds(c) THEN Replace(Tear(n), "General", y) ELSE n
  OBVIOUS
<1>1. /\ y \in Texts /\ y.raw \subseteq t.now.raw /\ (t.shape = "block" => y = t.now)
  BY <1>p1, CompoundIs
<1>2. m = IF defs /\ l.shape = "if" THEN Tear(w) ELSE w
  BY <1>p1, <1>p2 DEF GeneralIf
<1>3. /\ w \in Nodes /\ Keeps(w, n) /\ w.forms = n.forms /\ (w.ill <=> n.ill)
      /\ w.torn => n.torn \/ ("itemPos" \in Kinds(c) /\ n.seen # {})
      /\ "itemPos" \notin Kinds(c) => w.now = n.now
      /\ "itemPos" \in Kinds(c) => w.now = y
  <2>1. CASE "itemPos" \in Kinds(c)
    <3>1. w = Replace(Tear(n), "General", y) /\ "General" \notin n.seen /\ "General" \in Rules
      BY <1>p2, <2>1, NamesAre
    <3>2. /\ w \in Nodes /\ Keeps(w, n) /\ w.forms = n.forms /\ w.now = y
          /\ (w.ill <=> n.ill) /\ (w.torn <=> (n.torn \/ n.seen # {}))
      BY ONLY n \in Nodes, <1>1, <3>1, TakenAndWritten
    <3>. QED
      BY <2>1, <3>2
  <2>2. CASE "itemPos" \notin Kinds(c)
    <3>1. w = n
      BY <1>p2, <2>2
    <3>. QED
      BY <2>2, <3>1 DEF Keeps
  <2>. QED
    BY <2>1, <2>2
<1>4. /\ m \in Nodes /\ Keeps(m, n) /\ m.forms = n.forms /\ (m.ill <=> n.ill)
      /\ m.torn => w.torn \/ l.shape = "if"
      /\ m.now = w.now
  <2>1. CASE defs /\ l.shape = "if"
    <3>1. /\ m \in Nodes /\ Keeps(m, w) /\ m.now = w.now /\ (m.ill <=> w.ill)
          /\ m.forms = w.forms
      BY <1>2, <1>3, <2>1, TearIs
    <3>2. Keeps(m, n)
      BY ONLY <1>3, <3>1 DEF Keeps
    <3>. QED
      BY <1>3, <2>1, <3>1, <3>2
  <2>2. CASE ~(defs /\ l.shape = "if")
    <3>1. m = w
      BY <1>2, <2>2
    <3>. QED
      BY <1>3, <3>1
  <2>. QED
    BY <2>1, <2>2
<1>. QED
  BY <1>1, <1>3, <1>4 DEF GeneralWritten

(* m is the if n after the three rules: nothing comes in that no part had, *)
(* and it is torn only by two kinds of tests or by an else-if.             *)
IfWritten(m, n, c, t, l) ==
  /\ m \in Nodes /\ Keeps(m, n) /\ m.forms = n.forms /\ (m.ill <=> n.ill)
  /\ m.torn => n.torn \/ l.shape = "if" \/ \E s, u \in c.tests : s[1] # u[1]
  /\ m.now.raw \subseteq n.now.raw
  /\ Kinds(c) = {} => m.now = n.now
  /\ Kinds(c) = {"action"} =>
       \E i \in Item : /\ <<"action", i>> \in c.tests
                       /\ Of(m.now) = {i} \union Of(t.now) \union Of(l.now)
  /\ Kinds(c) = {"seqList"} /\ t.shape = "block" =>
       \E i \in Item : /\ <<"seqList", i>> \in c.tests
                       /\ Of(m.now) = {i} \union Of(t.now)
  /\ Kinds(c) = {"itemPos"} /\ t.shape = "block" => m.now = t.now

(* An if, after all its rules: what each kind of condition leaves of it.     *)
LEMMA WriteIfIs ==
  ASSUME NEW n \in Nodes, n.seen = {},
         NEW c \in Nodes, NEW t \in Nodes, NEW l \in Nodes, NEW defs \in BOOLEAN,
         n.now.raw = c.now.raw \union t.now.raw \union l.now.raw,
         NEW m, m = GeneralIf(SeqListIf(ActionDetailIf(n, c, t, l), c, t), c, t, l, defs)
  PROVE  IfWritten(m, n, c, t, l)
<1>p1. PICK a : a = ActionDetailIf(n, c, t, l)
  OBVIOUS
<1>p2. PICK s : s = SeqListIf(a, c, t)
  OBVIOUS
<1>0. m = GeneralIf(s, c, t, l, defs)
  BY <1>p1, <1>p2
<1>1. /\ a \in Nodes /\ Keeps(a, n) /\ a.forms = n.forms
      /\ (a.ill <=> n.ill) /\ (a.torn <=> n.torn)
      /\ a.seen \subseteq {"ActionDetail"}
      /\ a.seen # {} => "fixedAction" \in Kinds(c)
      /\ a.now.raw \subseteq n.now.raw
      /\ Kinds(c) \intersect {"action", "fixedAction"} = {} => a.now = n.now
      /\ "action" \in Kinds(c) =>
           \E i \in Item : /\ <<"action", i>> \in c.tests
                           /\ Of(a.now) = {i} \union Of(t.now) \union Of(l.now)
  <2>1. ActionWritten(a, n, c, t, l)
    BY <1>p1, ActionDetailIfIs
  <2>. QED
    BY ONLY <2>1 DEF ActionWritten
<1>2. /\ s \in Nodes /\ Keeps(s, a) /\ s.forms = a.forms /\ (s.ill <=> a.ill)
      /\ s.torn => a.torn \/ ("seqList" \in Kinds(c) /\ a.seen # {})
      /\ s.seen \subseteq {"ActionDetail", "SeqList"}
      /\ s.seen # {} => a.seen # {} \/ "seqList" \in Kinds(c)
      /\ s.now.raw \subseteq a.now.raw \union t.now.raw
      /\ "seqList" \notin Kinds(c) => s.now = a.now
      /\ "seqList" \in Kinds(c) /\ t.shape = "block" =>
           \E i \in Item : /\ <<"seqList", i>> \in c.tests
                           /\ Of(s.now) = {i} \union Of(t.now)
  <2>1. SeqListWritten(s, a, c, t)
    <3>1. a \in Nodes /\ a.seen \subseteq {"ActionDetail"}
      BY <1>1
    <3>. QED
      BY ONLY c \in Nodes, t \in Nodes, <3>1, <1>p2, SeqListIfIs
  <2>. QED
    BY ONLY <2>1 DEF SeqListWritten
<1>3. /\ m \in Nodes /\ Keeps(m, s) /\ m.forms = s.forms /\ (m.ill <=> s.ill)
      /\ m.torn => s.torn \/ ("itemPos" \in Kinds(c) /\ s.seen # {}) \/ l.shape = "if"
      /\ m.now.raw \subseteq s.now.raw \union t.now.raw
      /\ "itemPos" \notin Kinds(c) => m.now = s.now
      /\ "itemPos" \in Kinds(c) /\ t.shape = "block" => m.now = t.now
  <2>1. GeneralWritten(m, s, c, t, l)
    <3>1. s \in Nodes /\ s.seen \subseteq {"ActionDetail", "SeqList"}
      BY <1>2
    <3>. QED
      BY ONLY c \in Nodes, t \in Nodes, l \in Nodes, defs \in BOOLEAN, <3>1, <1>0, GeneralIfIs
  <2>. QED
    BY ONLY <2>1 DEF GeneralWritten
<1>4. Keeps(m, n)
  BY ONLY <1>1, <1>2, <1>3 DEF Keeps
<1>5. m.forms = n.forms /\ (m.ill <=> n.ill)
  BY ONLY <1>1, <1>2, <1>3
<1>6. m.now.raw \subseteq n.now.raw
  BY <1>1, <1>2, <1>3
<1>7. ASSUME NEW x \in Kinds(c), NEW y \in Kinds(c), x # y
      PROVE  \E v, u \in c.tests : v[1] # u[1]
  BY <1>7 DEF Kinds
<1>8. m.torn => n.torn \/ l.shape = "if" \/ \E v, u \in c.tests : v[1] # u[1]
  <2>1. CASE "seqList" \in Kinds(c) /\ "fixedAction" \in Kinds(c)
    BY <1>7, <2>1
  <2>2. CASE "itemPos" \in Kinds(c) /\ "fixedAction" \in Kinds(c)
    BY <1>7, <2>2
  <2>3. CASE "itemPos" \in Kinds(c) /\ "seqList" \in Kinds(c)
    BY <1>7, <2>3
  <2>. QED
    BY <1>1, <1>2, <1>3, <2>1, <2>2, <2>3
<1>9. Kinds(c) = {} => m.now = n.now
  BY <1>1, <1>2, <1>3
<1>10. Kinds(c) = {"action"} =>
         \E i \in Item : /\ <<"action", i>> \in c.tests
                         /\ Of(m.now) = {i} \union Of(t.now) \union Of(l.now)
  <2>1. CASE Kinds(c) = {"action"}
    <3>1. "action" \in Kinds(c) /\ "seqList" \notin Kinds(c) /\ "itemPos" \notin Kinds(c)
      BY <2>1
    <3>2. m.now = a.now
      BY <1>2, <1>3, <3>1
    <3>. QED
      BY <1>1, <3>1, <3>2
  <2>. QED
    BY <2>1
<1>11. Kinds(c) = {"seqList"} /\ t.shape = "block" =>
         \E i \in Item : /\ <<"seqList", i>> \in c.tests
                         /\ Of(m.now) = {i} \union Of(t.now)
  <2>1. CASE Kinds(c) = {"seqList"} /\ t.shape = "block"
    <3>1. "seqList" \in Kinds(c) /\ "itemPos" \notin Kinds(c)
      BY <2>1
    <3>2. m.now = s.now
      BY <1>3, <3>1
    <3>. QED
      BY <1>2, <2>1, <3>1, <3>2
  <2>. QED
    BY <2>1
<1>12. Kinds(c) = {"itemPos"} /\ t.shape = "block" => m.now = t.now
  BY <1>3
<1>. QED
  BY ONLY <1>3, <1>4, <1>5, <1>6, <1>8, <1>9, <1>10, <1>11, <1>12 DEF IfWritten

(* What an if on one kind of test keeps of the text of its parts.            *)
TextKept(now, c, t, l) ==
  /\ Kinds(c) = {} => Of(now) = Of(c.now) \union Of(t.now) \union Of(l.now)
  /\ Kinds(c) = {"action"} =>
       \E i \in Item : /\ <<"action", i>> \in c.tests
                       /\ Of(now) = {i} \union Of(t.now) \union Of(l.now)
  /\ Kinds(c) = {"seqList"} /\ t.shape = "block" =>
       \E i \in Item : /\ <<"seqList", i>> \in c.tests
                       /\ Of(now) = {i} \union Of(t.now)
  /\ Kinds(c) = {"itemPos"} /\ t.shape = "block" => now = t.now

(* The text of an if is all there is, but for what the forms name.           *)
LEMMA IfIsComplete ==
  ASSUME NEW c \in Nodes, NEW t \in Nodes, NEW l \in Nodes, NEW m \in Nodes,
         Good(c), Good(t), Good(l), c.shape \in {"test", "field"}, t.shape = "block",
         ~Has(c, Losses), ~Has(t, Losses), ~Has(l, Losses),
         l = Missing \/ Kinds(c) \subseteq {"action"}, "fixedAction" \notin Kinds(c),
         Items(m) = Items(c) \union Items(t) \union Items(l),
         m.tests = c.tests \union t.tests \union l.tests,
         TextKept(m.now, c, t, l)
  PROVE  Items(m) = Of(m.now) \union Superseded(m)
<1>1. /\ Items(c) = Of(c.now) \union Superseded(c)
      /\ Items(t) = Of(t.now) \union Superseded(t)
      /\ Items(l) = Of(l.now) \union Superseded(l)
  BY DEF Good, Complete
<1>2. Superseded(m) = Superseded(c) \union Superseded(t) \union Superseded(l)
  BY DEF Superseded
<1>3. CASE c.tests = {}
  <2>1. Kinds(c) = {}
    BY <1>3 DEF Kinds
  <2>. QED
    BY <1>1, <1>2, <2>1 DEF TextKept
<1>4. CASE c.tests # {}
  <2>1. c.shape = "test"
    BY <1>4 DEF Good, Whole, Expression
  <2>2. "TestBeside" \notin c.forms
    BY DEF Has, Losses
  <2>3. PICK u \in c.tests : c.tests = {u} /\ Items(c) = {u[2]}
    BY <2>1, <2>2 DEF Good, Complete
  <2>4. u \in TestKinds \X Item
    BY <2>3 DEF Nodes
  <2>5. Kinds(c) = {u[1]} /\ u[1] \in TestKinds
    BY <2>3, <2>4 DEF Kinds
  <2>6. \A kind, i : <<kind, i>> \in c.tests => i = u[2]
    BY <2>3
  <2>7. CASE u[1] = "action"
    <3>1. Of(m.now) = Items(c) \union Of(t.now) \union Of(l.now)
      BY <2>3, <2>5, <2>6, <2>7 DEF TextKept
    <3>2. Superseded(c) = {}
      BY <2>3, <2>7 DEF Superseded
    <3>. QED
      BY <1>1, <1>2, <3>1, <3>2
  <2>8. CASE u[1] = "seqList"
    <3>1. Of(m.now) = Items(c) \union Of(t.now)
      BY <2>3, <2>5, <2>6, <2>8 DEF TextKept
    <3>2. Superseded(c) = {}
      BY <2>3, <2>8 DEF Superseded
    <3>3. l = Missing
      BY <2>5, <2>8
    <3>4. Items(l) = {}
      BY <3>3, MissingIs
    <3>. QED
      BY <1>1, <1>2, <3>1, <3>2, <3>4
  <2>9. CASE u[1] = "itemPos"
    <3>1. m.now = t.now /\ l = Missing
      BY <2>5, <2>9 DEF TextKept
    <3>2. Items(l) = {}
      BY <3>1, MissingIs
    <3>3. Superseded(c) = Items(c)
      BY <2>3, <2>9 DEF Superseded
    <3>. QED
      BY <1>1, <1>2, <3>1, <3>2, <3>3
  <2>10. CASE u[1] = "fixedAction"
    BY <2>5, <2>10
  <2>. QED
    BY <2>5, <2>7, <2>8, <2>9, <2>10 DEF TestKinds
<1>. QED
  BY <1>3, <1>4

(* The three topmost nodes, where there are three.                           *)
LEMMA ThreePopped ==
  ASSUME IInv, Depth >= 3, NEW c, c = Popped(2), NEW t, t = Popped(1), NEW l, l = Popped(0)
  PROVE  /\ c \in Nodes /\ Good(c) /\ Placed(c) /\ t \in Nodes /\ Good(t) /\ Placed(t)
         /\ l \in Nodes /\ Good(l) /\ Placed(l)
         /\ 3 \in 0 .. Depth /\ \A j \in 0 .. 3 - 1 : Popped(j) \in {c, t, l}
<1>1. TypeInv /\ NodeInv /\ Depth \in Nat
  BY DEF IInv, TypeInv, Depth
<1>2. 2 < Depth /\ 1 < Depth /\ 0 < Depth /\ 3 \in 0 .. Depth
  BY <1>1
<1>3. \A j \in 0 .. 3 - 1 : j = 0 \/ j = 1 \/ j = 2
  OBVIOUS
<1>4. c \in Nodes /\ Good(c) /\ Placed(c)
  BY <1>1, <1>2, PoppedIs
<1>5. t \in Nodes /\ Good(t) /\ Placed(t)
  BY <1>1, <1>2, PoppedIs
<1>6. l \in Nodes /\ Good(l) /\ Placed(l)
  BY <1>1, <1>2, PoppedIs
<1>. QED
  BY <1>2, <1>3, <1>4, <1>5, <1>6

(* An if is good when its parts are and its forms name what the rules drop.  *)
LEMMA IfIsGood ==
  ASSUME NEW c \in Nodes, NEW t \in Nodes, NEW l \in Nodes, NEW m \in Nodes,
         Good(c), Good(t), Good(l), c.shape \in {"test", "field"}, m.shape = "if",
         Items(m) = Items(c) \union Items(t) \union Items(l),
         m.tests = c.tests \union t.tests \union l.tests,
         m.lists = c.lists \union t.lists \union l.lists,
         c.forms \union t.forms \union l.forms \subseteq m.forms,
         m.ill => c.ill \/ t.ill \/ l.ill,
         m.torn => c.torn \/ t.torn \/ l.torn \/ l.shape = "if"
                   \/ \E s, u \in c.tests : s[1] # u[1],
         m.now.raw \subseteq c.now.raw \union t.now.raw \union l.now.raw,
         TextKept(m.now, c, t, l),
         t.shape # "block" => "Braceless" \in m.forms,
         l = Missing \/ Kinds(c) \subseteq {"action"} \/ "ElseGone" \in m.forms,
         "fixedAction" \in Kinds(c) => "FixedTest" \in m.forms,
         l.shape = "if" => "ElseIf" \in m.forms
  PROVE  Good(m)
<1>1. \A fs : Has(c, fs) \/ Has(t, fs) \/ Has(l, fs) => Has(m, fs)
  BY DEF Has
<1>2. /\ c.torn => Has(c, Tearing)
      /\ c.ill => Has(c, Ills)
      /\ c.now.raw \subseteq Waits(c) \/ Has(c, Raws)
      /\ c.lists # {} => "SizedVector" \in c.forms
      /\ \A u \in c.tests : u[2] \in Items(c)
  BY ONLY AnyIs, c \in Nodes, Good(c)
<1>3. /\ t.torn => Has(t, Tearing)
      /\ t.ill => Has(t, Ills)
      /\ t.now.raw \subseteq Waits(t) \/ Has(t, Raws)
      /\ t.lists # {} => "SizedVector" \in t.forms
      /\ \A u \in t.tests : u[2] \in Items(t)
  BY ONLY AnyIs, t \in Nodes, Good(t)
<1>4. /\ l.torn => Has(l, Tearing)
      /\ l.ill => Has(l, Ills)
      /\ l.now.raw \subseteq Waits(l) \/ Has(l, Raws)
      /\ l.lists # {} => "SizedVector" \in l.forms
      /\ \A u \in l.tests : u[2] \in Items(l)
  BY ONLY AnyIs, l \in Nodes, Good(l)
<1>5. m.torn => Has(m, Tearing)
  <2>1. CASE \E s, u \in c.tests : s[1] # u[1]
    <3>1. c.shape = "test"
      BY <2>1 DEF Good, Whole, Expression
    <3>2. "TwoTests" \in c.forms
      BY <2>1, <3>1 DEF Good, Whole
    <3>. QED
      BY <3>2 DEF Has, Tearing
  <2>2. CASE l.shape = "if"
    BY <2>2 DEF Has, Tearing
  <2>. QED
    BY <1>1, <1>2, <1>3, <1>4, <2>1, <2>2
<1>6. m.ill => Has(m, Ills)
  BY <1>1, <1>2, <1>3, <1>4
<1>7. m.now.raw \subseteq Waits(m) \/ Has(m, Raws)
  <2>1. Waits(c) \subseteq Waits(m) /\ Waits(t) \subseteq Waits(m) /\ Waits(l) \subseteq Waits(m)
    BY DEF Waits
  <2>. QED
    BY <1>1, <1>2, <1>3, <1>4, <2>1
<1>8. m.lists # {} => "SizedVector" \in m.forms
  BY <1>2, <1>3, <1>4
<1>9. Items(m) = Of(m.now) \union Superseded(m) \/ Has(m, Losses)
  <2>1. CASE \/ t.shape # "block" \/ "fixedAction" \in Kinds(c)
             \/ ~(l = Missing \/ Kinds(c) \subseteq {"action"})
    BY <2>1 DEF Has, Losses
  <2>2. CASE Has(c, Losses) \/ Has(t, Losses) \/ Has(l, Losses)
    BY <1>1, <2>2
  <2>3. CASE /\ t.shape = "block" /\ "fixedAction" \notin Kinds(c)
             /\ l = Missing \/ Kinds(c) \subseteq {"action"}
             /\ ~(Has(c, Losses) \/ Has(t, Losses) \/ Has(l, Losses))
    BY <2>3, IfIsComplete
  <2>. QED
    BY <2>1, <2>2, <2>3
<1>10. \A u \in m.tests : u[2] \in Items(m)
  BY <1>2, <1>3, <1>4
<1>11. m.shape \in {"stmt", "block", "if", "loop", "none"}
  OBVIOUS
<1>. QED
  BY ONLY m \in Nodes, <1>5, <1>6, <1>7, <1>8, <1>9, <1>10, <1>11, StatementIsGood

(* if (c) t [else l] keeps the invariant: what the three rules write of it.  *)
LEMMA CloseIfStep ==
  ASSUME IInv, NEW else \in BOOLEAN, NEW defs \in BOOLEAN, CloseIf(else, defs)
  PROVE  IInv'
<1>p1. PICK k : k = IF else THEN 1 ELSE 0
  OBVIOUS
<1>p2. PICK l : l = IF else THEN Popped(0) ELSE Missing
  OBVIOUS
<1>p3. PICK t : t = Popped(k)
  OBVIOUS
<1>p4. PICK c : c = Popped(k + 1)
  OBVIOUS
<1>p5. PICK low : low = Both(t.src, l.src)
  OBVIOUS
<1>p6. PICK src : src = Both(c.src, low)
  OBVIOUS
<1>p7. PICK under : under = Both(t.now, l.now)
  OBVIOUS
<1>p8. PICK now : now = Both(c.now, under)
  OBVIOUS
<1>p9. PICK n : n = Over("if", src, now, {c, t, l})
  OBVIOUS
<1>p10. PICK w : w = GeneralIf(SeqListIf(ActionDetailIf(n, c, t, l), c, t), c, t, l, defs)
  OBVIOUS
<1>p11. PICK fs : fs = If(t.shape # "block", "Braceless") \union
                       If(else /\ Kinds(c) \ {"action"} # {}, "ElseGone") \union
                       If("fixedAction" \in Kinds(c), "FixedTest") \union
                       If(l.shape = "if", "ElseIf")
  OBVIOUS
<1>p12. PICK q : q = Is(w, fs)
  OBVIOUS
<1>p13. PICK m : m = Out(q)
  OBVIOUS
<1>0. /\ Depth >= k + 2 /\ c.shape \in {"test", "field"}
      /\ UNCHANGED <<next, stored, stale>>
      /\ var' = [ v \in DOMAIN var \ n.decls |-> var[v] ]
  BY <1>p1, <1>p2, <1>p3, <1>p4, <1>p5, <1>p6, <1>p7, <1>p8, <1>p9 DEF CloseIf, Leave
<1>1. work' = Append(SubSeq(work, 1, Depth - (k + 2)), m)
  BY <1>p1, <1>p2, <1>p3, <1>p4, <1>p5, <1>p6, <1>p7, <1>p8, <1>p9, <1>p10, <1>p11,
     <1>p12, <1>p13 DEF CloseIf, Grow
<1>2. /\ c \in Nodes /\ Good(c) /\ Placed(c) /\ t \in Nodes /\ Good(t) /\ Placed(t)
      /\ l \in Nodes /\ Good(l) /\ Placed(l)
      /\ k + 2 \in 0 .. Depth /\ \A j \in 0 .. (k + 2) - 1 : Popped(j) \in {c, t, l}
      /\ ~else => l = Missing
  <2>1. CASE else
    <3>1. k = 1 /\ l = Popped(0) /\ t = Popped(1) /\ c = Popped(2) /\ k + 2 = 3
      BY <1>p1, <1>p2, <1>p3, <1>p4, <2>1
    <3>2. Depth >= 3
      BY <1>0, <3>1
    <3>3. /\ c \in Nodes /\ Good(c) /\ Placed(c) /\ t \in Nodes /\ Good(t) /\ Placed(t)
          /\ l \in Nodes /\ Good(l) /\ Placed(l)
          /\ 3 \in 0 .. Depth /\ \A j \in 0 .. 3 - 1 : Popped(j) \in {c, t, l}
      BY <3>1, <3>2, ThreePopped
    <3>. QED
      BY <2>1, <3>1, <3>3
  <2>2. CASE ~else
    <3>1. k = 0 /\ l = Missing /\ t = Popped(0) /\ c = Popped(1) /\ k + 2 = 2
      BY <1>p1, <1>p2, <1>p3, <1>p4, <2>2
    <3>2. Depth >= 2
      BY <1>0, <3>1
    <3>3. /\ c \in Nodes /\ Good(c) /\ Placed(c) /\ t \in Nodes /\ Good(t) /\ Placed(t)
          /\ 2 \in 0 .. Depth /\ \A j \in 0 .. 2 - 1 : Popped(j) \in {c, t}
      BY <3>1, <3>2, TwoPopped
    <3>4. l \in Nodes /\ Good(l) /\ Placed(l)
      BY <3>1, MissingIs
    <3>. QED
      BY <3>1, <3>3, <3>4
  <2>. QED
    BY <2>1, <2>2
<1>3. /\ c.src \in Texts /\ c.now \in Texts /\ t.src \in Texts /\ t.now \in Texts
      /\ l.src \in Texts /\ l.now \in Texts /\ "if" \in Shapes
  BY <1>2, NamesAre DEF Nodes
<1>4. /\ src \in Texts /\ src.raw = c.src.raw \union t.src.raw \union l.src.raw
      /\ src.out = c.src.out \union t.src.out \union l.src.out
  <2>1. /\ low \in Texts /\ low.raw = t.src.raw \union l.src.raw
        /\ low.out = t.src.out \union l.src.out
    BY ONLY <1>3, <1>p5, BothIs
  <2>2. src \in Texts /\ src.raw = c.src.raw \union low.raw /\ src.out = c.src.out \union low.out
    BY ONLY <1>3, <2>1, <1>p6, BothIs
  <2>. QED
    BY <2>1, <2>2
<1>5. /\ now \in Texts /\ now.raw = c.now.raw \union t.now.raw \union l.now.raw
      /\ now.out = c.now.out \union t.now.out \union l.now.out
  <2>1. /\ under \in Texts /\ under.raw = t.now.raw \union l.now.raw
        /\ under.out = t.now.out \union l.now.out
    BY ONLY <1>3, <1>p7, BothIs
  <2>2. /\ now \in Texts /\ now.raw = c.now.raw \union under.raw
        /\ now.out = c.now.out \union under.out
    BY ONLY <1>3, <2>1, <1>p8, BothIs
  <2>. QED
    BY <2>1, <2>2
<1>6. /\ n \in Nodes /\ n.shape = "if" /\ n.src = src /\ n.now = now /\ n.seen = {}
      /\ (n.ill <=> (c.ill \/ t.ill \/ l.ill)) /\ (n.torn <=> (c.torn \/ t.torn \/ l.torn))
      /\ n.tests = c.tests \union t.tests \union l.tests
      /\ n.lists = c.lists \union t.lists \union l.lists
      /\ n.forms = c.forms \union t.forms \union l.forms
  <2>1. c \in Nodes /\ t \in Nodes /\ l \in Nodes /\ src \in Texts /\ now \in Texts /\ "if" \in Shapes
    BY <1>2, <1>3, <1>4, <1>5
  <2>. QED
    BY ONLY <1>p9, <2>1, OverThree, SMTT(60)
<1>7. IfWritten(w, n, c, t, l)
  <2>1. /\ c \in Nodes /\ t \in Nodes /\ l \in Nodes /\ n \in Nodes /\ n.seen = {}
        /\ n.now.raw = c.now.raw \union t.now.raw \union l.now.raw
    BY <1>2, <1>5, <1>6
  <2>. QED
    BY ONLY defs \in BOOLEAN, <1>p10, <2>1, WriteIfIs
<1>8. /\ w \in Nodes /\ Keeps(w, n) /\ w.forms = n.forms /\ (w.ill <=> n.ill)
      /\ w.torn => n.torn \/ l.shape = "if" \/ \E s, u \in c.tests : s[1] # u[1]
      /\ w.now.raw \subseteq n.now.raw
      /\ Kinds(c) = {} => w.now = n.now
      /\ Kinds(c) = {"action"} =>
           \E i \in Item : /\ <<"action", i>> \in c.tests
                           /\ Of(w.now) = {i} \union Of(t.now) \union Of(l.now)
      /\ Kinds(c) = {"seqList"} /\ t.shape = "block" =>
           \E i \in Item : /\ <<"seqList", i>> \in c.tests
                           /\ Of(w.now) = {i} \union Of(t.now)
      /\ Kinds(c) = {"itemPos"} /\ t.shape = "block" => w.now = t.now
  BY ONLY <1>7 DEF IfWritten
<1>9. /\ fs \in SUBSET Forms
      /\ t.shape # "block" => "Braceless" \in fs
      /\ ~else \/ Kinds(c) \subseteq {"action"} \/ "ElseGone" \in fs
      /\ "fixedAction" \in Kinds(c) => "FixedTest" \in fs
      /\ l.shape = "if" => "ElseIf" \in fs
  BY <1>p11 DEF Forms, If
<1>10. /\ q \in Nodes /\ Keeps(q, w) /\ q.now = w.now
       /\ (q.torn <=> w.torn) /\ (q.ill <=> w.ill) /\ q.forms = w.forms \union fs
  <2>1. w \in Nodes /\ fs \in SUBSET Forms
    BY <1>8, <1>9
  <2>. QED
    BY ONLY <2>1, <1>p12, IsIs
<1>11. /\ m \in Nodes /\ Keeps(m, q) /\ m.now = q.now
       /\ (m.torn <=> q.torn) /\ (m.ill <=> q.ill) /\ m.forms = q.forms
  BY ONLY <1>10, <1>p13, OutIs
<1>12. Keeps(m, n)
  <2>1. Keeps(w, n) /\ Keeps(q, w) /\ Keeps(m, q)
    BY <1>8, <1>10, <1>11
  <2>. QED
    BY ONLY <2>1 DEF Keeps
<1>13. /\ m.shape = "if" /\ m.src = src
       /\ m.tests = c.tests \union t.tests \union l.tests
       /\ m.lists = c.lists \union t.lists \union l.lists
  BY ONLY <1>6, <1>12 DEF Keeps
<1>14. m.forms = c.forms \union t.forms \union l.forms \union fs /\ m.now = w.now
  BY ONLY <1>6, <1>8, <1>10, <1>11
<1>15. /\ m.ill => c.ill \/ t.ill \/ l.ill
       /\ m.torn => c.torn \/ t.torn \/ l.torn \/ l.shape = "if"
                    \/ \E s, u \in c.tests : s[1] # u[1]
  BY ONLY <1>6, <1>8, <1>10, <1>11
<1>16. Items(m) = Items(c) \union Items(t) \union Items(l)
  BY ONLY <1>4, <1>13 DEF Items, Of
<1>17. /\ m.now.raw \subseteq c.now.raw \union t.now.raw \union l.now.raw
       /\ Kinds(c) = {} => Of(m.now) = Of(c.now) \union Of(t.now) \union Of(l.now)
  BY ONLY <1>5, <1>6, <1>8, <1>14 DEF Of
<1>18. Good(m)
  <2>1. /\ c.forms \union t.forms \union l.forms \subseteq m.forms
        /\ t.shape # "block" => "Braceless" \in m.forms
        /\ l = Missing \/ Kinds(c) \subseteq {"action"} \/ "ElseGone" \in m.forms
        /\ "fixedAction" \in Kinds(c) => "FixedTest" \in m.forms
        /\ l.shape = "if" => "ElseIf" \in m.forms
    BY <1>2, <1>9, <1>14
  <2>2. TextKept(m.now, c, t, l)
    BY ONLY <1>8, <1>14, <1>17 DEF TextKept
  <2>3. /\ c \in Nodes /\ t \in Nodes /\ l \in Nodes /\ m \in Nodes
        /\ Good(c) /\ Good(t) /\ Good(l) /\ c.shape \in {"test", "field"}
    BY <1>0, <1>2, <1>11
  <2>. QED
    BY ONLY <1>13, <1>15, <1>16, <1>17, <2>1, <2>2, <2>3, IfIsGood, SMTT(60)
<1>19. Placed(m)'
  <2>p1. PICK ps : ps = {c, t, l}
    OBVIOUS
  <2>1. /\ ps \in SUBSET Nodes /\ \A p \in ps : Placed(p) /\ Items(p) \subseteq Items(m)
        /\ \A i \in Items(m) : \E p \in ps : i \in Items(p)
        /\ \A i \in m.lists : \E p \in ps : i \in p.lists
    BY <1>2, <1>13, <1>16, <2>p1
  <2>2. m.shape \notin Expression
    BY <1>13 DEF Expression
  <2>. QED
    BY <1>0, <1>11, <2>1, <2>2, PlacedStatement
<1>20. \A j \in 0 .. (k + 2) - 1 : Popped(j).forms \subseteq m.forms
  BY <1>2, <1>14
<1>21. next' \in next .. MaxItems + 1
  BY <1>0, NextStays
<1>22. /\ \A v \in DOMAIN var' : v \in DOMAIN var /\ var'[v] = var[v]
       /\ stored' = stored /\ \A r \in stale' : r \in stale
  BY <1>0
<1>. QED
  BY <1>1, <1>2, <1>11, <1>18, <1>19, <1>20, <1>21, <1>22, Stepped

-----------------------------------------------------------------------------
(* The method as a whole.                                                    *)

(* Before the visit there is nothing that could be wrong.                    *)
LEMMA InitHolds == Init => IInv
<1>. SUFFICES ASSUME Init PROVE IInv
  OBVIOUS
<1>1. /\ work = <<>> /\ next = 1 /\ var = << >> /\ stored = << >> /\ stale = {}
  BY DEF Init
<1>2. DOMAIN var = {} /\ DOMAIN stored = {} /\ Len(work) = 0 /\ work \in Seq(Nodes)
  BY <1>1
<1>3. 1 \in 1 .. MaxItems + 1
  BY RuleChainAssumption
<1>4. TypeInv
  BY <1>1, <1>2, <1>3 DEF TypeInv
<1>5. VarsKnown
  BY <1>2 DEF VarsKnown
<1>6. NodeInv
  BY <1>2 DEF NodeInv
<1>7. RereadsGuarded
  BY <1>1 DEF RereadsGuarded
<1>. QED
  BY <1>4, <1>5, <1>6, <1>7 DEF IInv

(* The end of the method changes nothing, nor does a stuttering step.        *)
LEMMA DoneStep ==
  ASSUME IInv, UNCHANGED vars
  PROVE  IInv'
<1>1. /\ work' = work /\ next' = next /\ var' = var /\ stored' = stored /\ stale' = stale
  BY DEF vars
<1>2. TypeInv'
  BY <1>1 DEF IInv, TypeInv
<1>3. VarsKnown'
  BY <1>1 DEF IInv, VarsKnown
<1>4. NodeInv'
  BY <1>1 DEF IInv, NodeInv, Placed
<1>5. RereadsGuarded'
  BY <1>1 DEF IInv, RereadsGuarded
<1>. QED
  BY <1>2, <1>3, <1>4, <1>5 DEF IInv

(* The invariant of the visit: each node on the stack is good and lies among *)
(* the items made so far, and what is known of the variables is true.        *)
THEOREM RuleChainInvariant == Spec => []IInv
<1>1. Init => IInv
  BY InitHolds
<1>2. IInv /\ [Next]_vars => IInv'
  <2>. SUFFICES ASSUME IInv, [Next]_vars PROVE IInv'
    OBVIOUS
  <2>1. ASSUME NEW type \in {"string", "other"}, Field(type) PROVE IInv'
    BY <2>1, FieldStep
  <2>2. CASE CommonValue
    BY <2>2, CommonValueStep
  <2>3. CASE Enumerator
    BY <2>3, EnumeratorStep
  <2>4. CASE Chars
    BY <2>4, CharsStep
  <2>5. CASE PointerSize
    BY <2>5, PointerSizeStep
  <2>6. CASE Concat
    BY <2>6, ConcatStep
  <2>7. CASE Choice
    BY <2>7, ChoiceStep
  <2>8. CASE Plus
    BY <2>8, PlusStep
  <2>9. CASE ActionLeaf
    BY <2>9, ActionLeafStep
  <2>10. CASE Length
    BY <2>10, LengthStep
  <2>11. CASE StrParam
    BY <2>11, StrParamStep
  <2>12. CASE Call
    BY <2>12, CallStep
  <2>13. CASE EnumName
    BY <2>13, EnumNameStep
  <2>14. ASSUME NEW v \in Vars, VarRef(v) PROVE IInv'
    BY <2>14, VarRefStep
  <2>15. ASSUME NEW v \in Vars, Declare(v) PROVE IInv'
    BY <2>15, DeclareStep
  <2>16. ASSUME NEW v \in Vars, Assign(v) PROVE IInv'
    BY <2>16, AssignStep
  <2>17. ASSUME NEW h, DeclareHash(h) PROVE IInv'
    BY <2>17, DeclareHashStep
  <2>18. ASSUME NEW h, Hash(h) PROVE IInv'
    BY <2>18, HashStep
  <2>19. CASE DeclareNumber
    BY <2>19, DeclareNumberStep
  <2>20. CASE DeclareVector
    BY <2>20, DeclareVectorStep
  <2>21. CASE DeclareCommonVector
    BY <2>21, DeclareCommonVectorStep
  <2>22. ASSUME NEW k \in {1, 2}, Block(k) PROVE IInv'
    BY <2>22, BlockStep
  <2>23. ASSUME NEW kind \in TestKinds, Test(kind) PROVE IInv'
    BY <2>23, TestStep
  <2>24. CASE And
    BY <2>24, AndStep
  <2>25. ASSUME NEW else \in BOOLEAN, NEW defs \in BOOLEAN, CloseIf(else, defs) PROVE IInv'
    BY <2>25, CloseIfStep
  <2>26. ASSUME NEW kind \in Loops, CloseLoop(kind) PROVE IInv'
    BY <2>26, CloseLoopStep
  <2>27. CASE UNCHANGED vars
    BY <2>27, DoneStep
  <2>. QED
    BY <2>1, <2>2, <2>3, <2>4, <2>5, <2>6, <2>7, <2>8, <2>9, <2>10, <2>11, <2>12, <2>13,
       <2>14, <2>15, <2>16, <2>17, <2>18, <2>19, <2>20, <2>21, <2>22, <2>23, <2>24, <2>25,
       <2>26, <2>27 DEF Next, Done, TestKinds
<1>. QED
  BY <1>1, <1>2, PTL DEF Spec

(* The topmost node is one of the stack.                                     *)
LEMMA TopIs ==
  ASSUME IInv, Built
  PROVE  Top \in Nodes /\ Good(Top)
<1>1. Depth \in Nat /\ Depth \in 1 .. Len(work) /\ work \in Seq(Nodes)
  BY DEF IInv, TypeInv, Depth, Built
<1>. QED
  BY <1>1 DEF IInv, NodeInv, Top

(* Nothing of adlog is left in the text of a method, in whatever order its   *)
(* nodes come, but for the forms that put source text back.                  *)
THEOREM RuleChainNoSourceLeft == Spec => []NoSourceLeft
<1>1. IInv => NoSourceLeft
  <2>. SUFFICES ASSUME IInv, Built
                PROVE  \/ Top.now.raw \subseteq Pending(Top)
                       \/ Has(Top, Raws)
    BY DEF NoSourceLeft, Raws
  <2>1. Top.now.raw \subseteq Waits(Top) \/ Has(Top, Raws)
    BY TopIs DEF Good, Converted
  <2>2. Waits(Top) \subseteq Pending(Top)
    BY DEF Waits, Pending
  <2>. QED
    BY <2>1, <2>2
<1>. QED
  BY <1>1, RuleChainInvariant, PTL

(* The text of a method reads what its source reads, but for the forms in    *)
(* which a rule drops a part.                                                *)
THEOREM RuleChainReadsTheSame == Spec => []ReadsTheSame
<1>1. IInv => ReadsTheSame
  <2>. SUFFICES ASSUME IInv, Built
                PROVE  \/ Items(Top) = Of(Top.now) \union Superseded(Top)
                       \/ Has(Top, Losses)
    BY DEF ReadsTheSame, Losses
  <2>. QED
    BY TopIs DEF Good, Complete
<1>. QED
  BY <1>1, RuleChainInvariant, PTL

(* The text of a method is of the types its uses need, but for the forms in  *)
(* which a view stands where a string is needed.                             *)
THEOREM RuleChainTextsHold == Spec => []TextsHold
<1>1. IInv => TextsHold
  <2>. SUFFICES ASSUME IInv, Built PROVE ~Top.ill \/ Has(Top, Ills)
    BY DEF TextsHold, Ills
  <2>. QED
    BY TopIs DEF Good, Sound
<1>. QED
  BY <1>1, RuleChainInvariant, PTL

(* No second visit reads inside a replaced text, but for names of enums,     *)
(* hashes of more than a name and bodies without braces.                     *)
THEOREM RuleChainRereadsGuarded == Spec => []RereadsGuarded
<1>1. IInv => RereadsGuarded
  BY DEF IInv
<1>. QED
  BY <1>1, RuleChainInvariant, PTL

(* No rule takes the parts of what an earlier one replaced as a whole, but   *)
(* for an if of two kinds, an else-if and three nested lists.                *)
THEOREM RuleChainEditsOutsideReplaced == Spec => []EditsOutsideReplaced
<1>1. IInv => EditsOutsideReplaced
  <2>. SUFFICES ASSUME IInv, Built PROVE ~Top.torn \/ Has(Top, Tearing)
    BY DEF EditsOutsideReplaced, Tearing
  <2>. QED
    BY TopIs DEF Good, Whole
<1>. QED
  BY <1>1, RuleChainInvariant, PTL
=============================================================================
