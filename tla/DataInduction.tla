---------------------------- MODULE DataInduction ----------------------------
(***************************************************************************)
(* Induction over natural numbers in the form of a fact on sets, and what   *)
(* it shows: a set of numbers has a least member, and a greatest if it has  *)
(* a bound; and of FlattenSeq, by which Driver lists the classes of a        *)
(* translation unit, CommonInfo puts texts together and ClassVisit the       *)
(* arguments of a call and the parameters of a signature.                   *)
(***************************************************************************)
EXTENDS Naturals, SequencesExt, FiniteSetTheorems, SequenceTheorems, TLAPS

(* A set of naturals that has 0 and the successor of each of its members    *)
(* has them all: were x missing, the map k |-> k - 1 on the numbers up to x *)
(* that are missing would be injective and not surjective.                  *)
LEMMA NatInductionSet ==
  ASSUME NEW S \in SUBSET Nat, 0 \in S, \A n \in S : n + 1 \in S
  PROVE  S = Nat
<1>1. SUFFICES ASSUME NEW x \in Nat, x \notin S PROVE FALSE OBVIOUS
<1>. DEFINE T == {k \in 0 .. x : k \notin S}
<1>. DEFINE down == [k \in T |-> k - 1]
<1>2. IsFiniteSet(T)
  <2>1. 0 \in Int /\ x \in Int /\ T \subseteq 0 .. x OBVIOUS
  <2>2. IsFiniteSet(0 .. x) BY <2>1, FS_Interval
  <2>. HIDE DEF T
  <2>. QED BY <2>1, <2>2, FS_Subset
<1>3. \A k \in T : k \in Nat /\ k # 0 /\ k - 1 \in T /\ k <= x
  <2>. SUFFICES ASSUME NEW k \in T PROVE k \in Nat /\ k # 0 /\ k - 1 \in T /\ k <= x
    OBVIOUS
  <2>1. k \in Nat /\ k # 0 /\ k <= x OBVIOUS
  <2>2. k - 1 \in 0 .. x /\ (k - 1) + 1 = k BY <2>1
  <2>3. k - 1 \notin S BY <2>2
  <2>. QED BY <2>1, <2>2, <2>3
<1>4. down \in Injection(T, T)
  <2>1. down \in [T -> T] BY <1>3
  <2>2. \A a, b \in T : down[a] = down[b] => a = b BY <1>3
  <2>. QED BY ONLY <2>1, <2>2 DEF Injection, IsInjective
<1>5. down \in Surjection(T, T)
  <2>. HIDE DEF T, down
  <2>. QED BY ONLY <1>2, <1>4, FS_Injection
<1>6. x \in T BY <1>1
<1>7. PICK k \in T : down[k] = x BY <1>5, <1>6 DEF Surjection
<1>. QED BY <1>3, <1>7

-----------------------------------------------------------------------------
(* FlattenSeq                                                              *)

(* One step of the recursion of FlattenSeq.                                *)
FlattenStep(s, f, i) == IF i = 1 THEN s[i] ELSE f[i - 1] \o s[i]

(* The function FlattenSeq is defined by exists for every length.          *)
LEMMA FlattenExists ==
  ASSUME NEW s, NEW n \in Nat
  PROVE  \E f : f = [i \in 1 .. n |-> FlattenStep(s, f, i)]
<1>. DEFINE P(k) == \E f : f = [i \in 1 .. k |-> FlattenStep(s, f, i)]
<1>. DEFINE S == {k \in Nat : P(k)}
<1>1. P(0)
  <2>. DEFINE e == [i \in 1 .. 0 |-> s[i]]
  <2>1. e = [i \in 1 .. 0 |-> FlattenStep(s, e, i)] OBVIOUS
  <2>. QED BY <2>1
<1>2. ASSUME NEW k \in Nat, P(k) PROVE P(k + 1)
  <2>1. PICK f : f = [i \in 1 .. k |-> FlattenStep(s, f, i)] BY <1>2
  <2>. DEFINE g == [i \in 1 .. k + 1 |-> FlattenStep(s, f, i)]
  <2>2. ASSUME NEW i \in 1 .. k + 1, i # 1 PROVE g[i - 1] = f[i - 1]
    <3>1. i - 1 \in 1 .. k /\ i - 1 \in 1 .. k + 1 BY <2>2
    <3>2. f[i - 1] = FlattenStep(s, f, i - 1) BY <2>1, <3>1
    <3>3. g[i - 1] = FlattenStep(s, f, i - 1) BY <3>1
    <3>. QED BY <3>2, <3>3
  <2>3. g = [i \in 1 .. k + 1 |-> FlattenStep(s, g, i)] BY <2>2 DEF FlattenStep
  <2>. QED BY <2>3
<1>. HIDE DEF P
<1>3. 0 \in S BY <1>1
<1>4. \A k \in S : k + 1 \in S BY <1>2
<1>5. S = Nat
  <2>1. S \in SUBSET Nat OBVIOUS
  <2>. HIDE DEF S
  <2>. QED BY ONLY <1>3, <1>4, <2>1, NatInductionSet
<1>6. P(n) BY <1>5
<1>. QED BY <1>6 DEF P

(* What FlattenSeq gives for a sequence that is not empty.                  *)
LEMMA FlattenIs ==
  ASSUME NEW s, Len(s) \in Nat, Len(s) # 0
  PROVE  \E f : /\ f = [i \in 1 .. Len(s) |-> FlattenStep(s, f, i)]
                /\ FlattenSeq(s) = f[Len(s)]
<1>. DEFINE F == CHOOSE f : f = [i \in 1 .. Len(s) |->
                                  IF i = 1 THEN s[i] ELSE f[i - 1] \o s[i]]
<1>1. FlattenSeq(s) = F[Len(s)] BY DEF FlattenSeq
<1>2. \E f : f = [i \in 1 .. Len(s) |-> IF i = 1 THEN s[i] ELSE f[i - 1] \o s[i]]
  BY FlattenExists DEF FlattenStep
<1>3. F = [i \in 1 .. Len(s) |-> IF i = 1 THEN s[i] ELSE F[i - 1] \o s[i]]
  BY <1>2
<1>4. F = [i \in 1 .. Len(s) |-> FlattenStep(s, F, i)] BY <1>3 DEF FlattenStep
<1>. HIDE DEF F
<1>. QED BY <1>1, <1>4

(* FlattenSeq of sequences over A is a sequence over A, and its elements    *)
(* are theirs.                                                             *)
LEMMA FlattenSeqProperties ==
  ASSUME NEW A, NEW s \in Seq(Seq(A))
  PROVE  /\ FlattenSeq(s) \in Seq(A)
         /\ \A e : e \in ToSet(FlattenSeq(s)) <=> \E i \in DOMAIN s : e \in ToSet(s[i])
<1>1. Len(s) \in Nat /\ DOMAIN s = 1 .. Len(s) OBVIOUS
<1>2. CASE Len(s) = 0
  <2>1. FlattenSeq(s) = s BY <1>2 DEF FlattenSeq
  <2>2. s = << >> BY <1>2
  <2>3. s \in Seq(A) BY <2>2
  <2>4. ToSet(s) = {} /\ DOMAIN s = {} BY <2>2 DEF ToSet
  <2>. QED BY <2>1, <2>3, <2>4
<1>3. CASE Len(s) # 0
  <2>1. PICK f : /\ f = [i \in 1 .. Len(s) |-> FlattenStep(s, f, i)]
                 /\ FlattenSeq(s) = f[Len(s)]
    BY <1>1, <1>3, FlattenIs
  <2>. DEFINE Good(k) == /\ f[k] \in Seq(A)
                    /\ \A e : e \in ToSet(f[k]) <=> \E i \in 1 .. k : e \in ToSet(s[i])
  <2>. DEFINE S == {k \in Nat : k + 1 <= Len(s) => Good(k + 1)}
  <2>2. Good(1)
    <3>1. f[1] = s[1] BY <1>1, <1>3, <2>1 DEF FlattenStep
    <3>2. s[1] \in Seq(A) BY <1>1, <1>3
    <3>3. 1 .. 1 = {1} OBVIOUS
    <3>. QED BY <3>1, <3>2, <3>3
  <2>3. ASSUME NEW k \in Nat, k # 0, k + 1 <= Len(s), Good(k) PROVE Good(k + 1)
    <3>1. k + 1 \in 1 .. Len(s) /\ k + 1 # 1 /\ (k + 1) - 1 = k BY <1>1, <2>3
    <3>2. f[k + 1] = f[k] \o s[k + 1] BY <2>1, <3>1 DEF FlattenStep
    <3>3. s[k + 1] \in Seq(A) BY <1>1, <3>1
    <3>4. f[k + 1] \in Seq(A) BY <2>3, <3>2, <3>3, ConcatProperties
    <3>5. ToSet(f[k + 1]) = ToSet(f[k]) \cup ToSet(s[k + 1])
      <4>. DEFINE a == f[k]  b == s[k + 1]
      <4>1. a \in Seq(A) /\ b \in Seq(A) BY <2>3, <3>3
      <4>2. f[k + 1] = a \o b BY <3>2
      <4>3. ToSet(a \o b) = ToSet(a) \cup ToSet(b)
        <5>. HIDE DEF a, b
        <5>1. /\ Len(a \o b) = Len(a) + Len(b) /\ a \o b \in Seq(A)
              /\ \A i \in 1 .. Len(a) + Len(b) :
                   (a \o b)[i] = IF i <= Len(a) THEN a[i] ELSE b[i - Len(a)]
          BY <4>1, ConcatProperties
        <5>2. /\ DOMAIN (a \o b) = 1 .. Len(a) + Len(b)
              /\ DOMAIN a = 1 .. Len(a) /\ DOMAIN b = 1 .. Len(b)
              /\ Len(a) \in Nat /\ Len(b) \in Nat
          BY <4>1, <5>1
        <5>3. ASSUME NEW i \in DOMAIN a PROVE a[i] \in ToSet(a \o b)
          <6>1. i \in DOMAIN (a \o b) /\ (a \o b)[i] = a[i] BY <5>1, <5>2, <5>3
          <6>. QED BY <6>1 DEF ToSet
        <5>4. ASSUME NEW i \in DOMAIN b PROVE b[i] \in ToSet(a \o b)
          <6>1. i + Len(a) \in DOMAIN (a \o b) /\ (a \o b)[i + Len(a)] = b[i]
            BY <5>1, <5>2, <5>4
          <6>. QED BY <6>1 DEF ToSet
        <5>5. ASSUME NEW i \in DOMAIN (a \o b)
              PROVE  (a \o b)[i] \in ToSet(a) \cup ToSet(b)
          <6>1. CASE i <= Len(a)
            <7>1. i \in DOMAIN a /\ (a \o b)[i] = a[i] BY <5>1, <5>2, <5>5, <6>1
            <7>. QED BY <7>1 DEF ToSet
          <6>2. CASE ~ (i <= Len(a))
            <7>1. i - Len(a) \in DOMAIN b /\ (a \o b)[i] = b[i - Len(a)]
              BY <5>1, <5>2, <5>5, <6>2
            <7>. QED BY <7>1 DEF ToSet
          <6>. QED BY <6>1, <6>2
        <5>. QED BY <5>3, <5>4, <5>5 DEF ToSet
      <4>. QED BY <4>2, <4>3
    <3>6. \A i : i \in 1 .. k + 1 <=> i \in 1 .. k \/ i = k + 1 BY <2>3
    <3>7. ASSUME NEW e
          PROVE  (\E i \in 1 .. k + 1 : e \in ToSet(s[i]))
                    <=> (\E i \in 1 .. k : e \in ToSet(s[i])) \/ e \in ToSet(s[k + 1])
      BY <3>6, Zenon
    <3>. QED BY <2>3, <3>4, <3>5, <3>7
  <2>. HIDE DEF Good
  <2>4. 0 \in S BY <2>2
  <2>5. ASSUME NEW k \in S PROVE k + 1 \in S
    <3>1. k \in Nat /\ (k + 1 <= Len(s) => Good(k + 1)) OBVIOUS
    <3>2. SUFFICES ASSUME (k + 1) + 1 <= Len(s) PROVE Good((k + 1) + 1) BY <3>1
    <3>3. k + 1 \in Nat /\ k + 1 # 0 /\ k + 1 <= Len(s) BY <1>1, <3>1, <3>2
    <3>. QED BY <2>3, <3>1, <3>2, <3>3
  <2>6. S = Nat
    <3>1. S \in SUBSET Nat OBVIOUS
    <3>. HIDE DEF S
    <3>. QED BY ONLY <2>4, <2>5, <3>1, NatInductionSet
  <2>7. Len(s) - 1 \in Nat /\ (Len(s) - 1) + 1 = Len(s) BY <1>1, <1>3
  <2>8. \A k \in Nat : k + 1 <= Len(s) => Good(k + 1)
    <3>1. SUFFICES ASSUME NEW k \in Nat PROVE k + 1 <= Len(s) => Good(k + 1) OBVIOUS
    <3>2. k \in S
      <4>. HIDE DEF S
      <4>. QED BY <2>6
    <3>. QED BY <3>2
  <2>9. PICK k \in Nat : k + 1 = Len(s) BY <2>7
  <2>10. Good(Len(s))
    <3>1. k + 1 <= Len(s) BY <1>1, <2>9
    <3>2. Good(k + 1) BY <2>8, <3>1
    <3>. QED BY <2>9, <3>2
  <2>. QED BY <1>1, <2>1, <2>10 DEF Good
<1>. QED BY <1>2, <1>3

(* A non-empty set of naturals has a least member.                          *)
LEMMA LeastIs ==
  ASSUME NEW S \in SUBSET Nat, S # {}
  PROVE  LET least == CHOOSE i \in S : \A j \in S : i <= j
         IN least \in S /\ \A j \in S : least <= j
<1>. DEFINE T == {n \in Nat : \A i \in S : i > n}
<1>1. \E i \in S : \A j \in S : i <= j
  <2>1. SUFFICES ASSUME \A i \in S : \E j \in S : j < i PROVE FALSE OBVIOUS
  <2>2. 0 \in T
    <3>1. \A i \in S : i > 0 BY <2>1
    <3>. QED BY <3>1
  <2>3. ASSUME NEW n \in T PROVE n + 1 \in T
    <3>1. n \in Nat /\ \A i \in S : i > n OBVIOUS
    <3>2. \A i \in S : i > n + 1
      <4>. SUFFICES ASSUME NEW i \in S PROVE i > n + 1 OBVIOUS
      <4>1. PICK j \in S : j < i BY <2>1
      <4>. QED BY <3>1, <4>1
    <3>. QED BY <3>1, <3>2
  <2>4. T = Nat
    <3>1. T \in SUBSET Nat OBVIOUS
    <3>2. \A n \in T : n + 1 \in T BY <2>3
    <3>. HIDE DEF T
    <3>. QED BY ONLY <2>2, <3>1, <3>2, NatInductionSet
  <2>5. PICK i \in S : TRUE OBVIOUS
  <2>6. i \in T BY <2>4
  <2>. QED BY <2>5, <2>6
<1>. QED BY <1>1

(* A non-empty set of naturals with a bound has a greatest member.          *)
LEMMA GreatestIs ==
  ASSUME NEW S \in SUBSET Nat, S # {}, NEW n \in Nat, \A i \in S : i <= n
  PROVE  Max(S) \in S /\ \A j \in S : j <= Max(S)
<1>. DEFINE B == {b \in Nat : \A i \in S : i <= b}
            b == CHOOSE i \in B : \A j \in B : i <= j
<1>1. B \in SUBSET Nat /\ B # {} OBVIOUS
<1>2. b \in B /\ \A j \in B : b <= j
  <2>. HIDE DEF B
  <2>. QED BY <1>1, LeastIs
<1>. HIDE DEF b
<1>3. b \in Nat /\ \A i \in S : i <= b BY <1>2
<1>4. b \in S
  <2>1. SUFFICES ASSUME b \notin S PROVE FALSE OBVIOUS
  <2>2. \A i \in S : i < b BY <1>3, <2>1
  <2>3. PICK i \in S : TRUE OBVIOUS
  <2>4. b - 1 \in Nat BY <1>3, <2>2, <2>3
  <2>5. b - 1 \in B BY <1>3, <2>2, <2>4
  <2>. QED BY <1>2, <1>3, <2>5
<1>5. \E x \in S : \A y \in S : x >= y BY <1>3, <1>4
<1>6. Max(S) \in S /\ \A y \in S : Max(S) >= y BY <1>5 DEF Max
<1>. QED BY <1>6

(* Two sequences whose parts are of the same lengths and related place by   *)
(* place are so when they are flattened.                                   *)
LEMMA FlattenAligned ==
  ASSUME NEW A, NEW B, NEW s \in Seq(Seq(A)), NEW t \in Seq(Seq(B)), NEW R,
         Len(s) = Len(t), \A i \in 1 .. Len(s) : Len(s[i]) = Len(t[i]),
         \A i \in 1 .. Len(s) : \A k \in 1 .. Len(s[i]) : <<s[i][k], t[i][k]>> \in R
  PROVE  /\ Len(FlattenSeq(s)) = Len(FlattenSeq(t))
         /\ \A k \in 1 .. Len(FlattenSeq(s)) :
              <<FlattenSeq(s)[k], FlattenSeq(t)[k]>> \in R
<1>1. Len(s) \in Nat OBVIOUS
<1>2. CASE Len(s) = 0
  <2>1. FlattenSeq(s) = s /\ FlattenSeq(t) = t BY <1>2 DEF FlattenSeq
  <2>2. \A k \in 1 .. Len(FlattenSeq(s)) : FALSE BY <1>2, <2>1
  <2>3. Len(FlattenSeq(s)) = Len(FlattenSeq(t)) BY <2>1
  <2>. QED BY <2>2, <2>3
<1>3. CASE Len(s) # 0
  <2>1. PICK f : /\ f = [i \in 1 .. Len(s) |-> FlattenStep(s, f, i)]
                 /\ FlattenSeq(s) = f[Len(s)]
    BY <1>1, <1>3, FlattenIs
  <2>2. PICK g : /\ g = [i \in 1 .. Len(s) |-> FlattenStep(t, g, i)]
                 /\ FlattenSeq(t) = g[Len(s)]
    BY <1>1, <1>3, FlattenIs
  <2>. DEFINE Good(k) == /\ f[k] \in Seq(A) /\ g[k] \in Seq(B)
                         /\ Len(f[k]) = Len(g[k])
                         /\ \A e \in 1 .. Len(f[k]) : <<f[k][e], g[k][e]>> \in R
  <2>. DEFINE S == {k \in Nat : k + 1 <= Len(s) => Good(k + 1)}
  <2>3. Good(1)
    <3>1. f[1] = s[1] /\ g[1] = t[1] /\ 1 \in 1 .. Len(s)
      BY <1>1, <1>3, <2>1, <2>2 DEF FlattenStep
    <3>2. s[1] \in Seq(A) /\ t[1] \in Seq(B) BY <1>1, <1>3
    <3>. QED BY <3>1, <3>2
  <2>4. ASSUME NEW k \in Nat, k # 0, k + 1 <= Len(s), Good(k) PROVE Good(k + 1)
    <3>1. k + 1 \in 1 .. Len(s) /\ k + 1 # 1 /\ (k + 1) - 1 = k BY <1>1, <2>4
    <3>2. /\ f[k + 1] = f[k] \o s[k + 1]
          /\ g[k + 1] = g[k] \o t[k + 1]
      BY <2>1, <2>2, <3>1 DEF FlattenStep
    <3>3. PICK a, b, c, d : a = f[k] /\ b = s[k + 1] /\ c = g[k] /\ d = t[k + 1] OBVIOUS
    <3>4. a \in Seq(A) /\ b \in Seq(A) /\ c \in Seq(B) /\ d \in Seq(B)
      BY <1>1, <2>4, <3>1, <3>3
    <3>5. Len(a) = Len(c) /\ \A e \in 1 .. Len(a) : <<a[e], c[e]>> \in R BY <2>4, <3>3
    <3>6. Len(b) = Len(d) /\ \A e \in 1 .. Len(b) : <<b[e], d[e]>> \in R BY <3>1, <3>3
    <3>7. /\ a \o b \in Seq(A) /\ c \o d \in Seq(B) /\ Len(a \o b) = Len(c \o d)
          /\ \A e \in 1 .. Len(a \o b) : <<(a \o b)[e], (c \o d)[e]>> \in R
      <4>1. /\ a \o b \in Seq(A) /\ Len(a \o b) = Len(a) + Len(b)
            /\ \A e \in 1 .. Len(a) + Len(b) :
                 (a \o b)[e] = IF e <= Len(a) THEN a[e] ELSE b[e - Len(a)]
        BY <3>4, ConcatProperties
      <4>2. /\ c \o d \in Seq(B) /\ Len(c \o d) = Len(c) + Len(d)
            /\ \A e \in 1 .. Len(c) + Len(d) :
                 (c \o d)[e] = IF e <= Len(c) THEN c[e] ELSE d[e - Len(c)]
        BY <3>4, ConcatProperties
      <4>3. Len(a) \in Nat /\ Len(b) \in Nat BY <3>4, LenProperties
      <4>4. ASSUME NEW e \in 1 .. Len(a) + Len(b)
            PROVE  <<(a \o b)[e], (c \o d)[e]>> \in R
        <5>1. CASE e <= Len(a)
          <6>1. e \in 1 .. Len(a) BY <4>3, <5>1
          <6>. QED BY <3>5, <3>6, <4>1, <4>2, <5>1, <6>1
        <5>2. CASE ~(e <= Len(a))
          <6>1. e - Len(a) \in 1 .. Len(b) BY <4>3, <5>2
          <6>2. (a \o b)[e] = b[e - Len(a)] BY <4>1, <5>2
          <6>3. (c \o d)[e] = d[e - Len(a)] BY <3>5, <3>6, <4>2, <5>2
          <6>. QED BY <3>6, <6>1, <6>2, <6>3
        <5>. QED BY <5>1, <5>2
      <4>. QED BY <3>5, <3>6, <4>1, <4>2, <4>4
    <3>. QED BY <3>2, <3>3, <3>7
  <2>. HIDE DEF Good
  <2>5. S = Nat
    <3>1. S \in SUBSET Nat OBVIOUS
    <3>2. 0 \in S BY <2>3
    <3>3. ASSUME NEW k \in S PROVE k + 1 \in S
      <4>1. k \in Nat /\ (k + 1 <= Len(s) => Good(k + 1)) OBVIOUS
      <4>2. ASSUME (k + 1) + 1 <= Len(s) PROVE Good((k + 1) + 1)
        <5>1. k + 1 <= Len(s) /\ k + 1 \in Nat /\ k + 1 # 0 BY <1>1, <4>1, <4>2
        <5>. QED BY <2>4, <4>1, <4>2, <5>1
      <4>. QED BY <4>1, <4>2
    <3>4. \A k \in S : k + 1 \in S BY <3>3
    <3>. HIDE DEF S
    <3>. QED BY ONLY <3>1, <3>2, <3>4, NatInductionSet
  <2>6. Good(Len(s))
    <3>1. Len(s) - 1 \in Nat /\ (Len(s) - 1) + 1 = Len(s) BY <1>1, <1>3
    <3>2. Len(s) - 1 \in S BY <2>5, <3>1
    <3>. QED BY <3>1, <3>2
  <2>. QED BY <2>1, <2>2, <2>6 DEF Good
<1>. QED BY <1>2, <1>3

(* One more part is put behind the others.                                  *)
LEMMA FlattenAppend ==
  ASSUME NEW A, NEW s \in Seq(Seq(A)), NEW e \in Seq(A)
  PROVE  FlattenSeq(Append(s, e)) = FlattenSeq(s) \o e
<1>. DEFINE n == Len(s)
            t == Append(s, e)
<1>1. /\ n \in Nat /\ t \in Seq(Seq(A)) /\ Len(t) = n + 1
      /\ \A i \in 1 .. n : t[i] = s[i]
      /\ t[n + 1] = e
  BY AppendProperties, LenProperties
<1>. HIDE DEF t
<1>2. PICK f : /\ f = [i \in 1 .. n + 1 |-> FlattenStep(t, f, i)]
               /\ FlattenSeq(t) = f[n + 1]
  BY <1>1, FlattenIs
<1>3. CASE n = 0
  <2>1. s = << >> BY <1>3, EmptySeq
  <2>2. FlattenSeq(s) = << >> BY <1>3, <2>1 DEF FlattenSeq
  <2>3. f[n + 1] = e BY <1>1, <1>2, <1>3 DEF FlattenStep
  <2>4. << >> \o e = e OBVIOUS
  <2>. QED BY <1>2, <2>2, <2>3, <2>4 DEF t
<1>4. CASE n # 0
  <2>1. PICK g : /\ g = [i \in 1 .. n |-> FlattenStep(s, g, i)]
                 /\ FlattenSeq(s) = g[n]
    BY <1>1, <1>4, FlattenIs
  <2>. DEFINE S == {k \in Nat : k + 1 <= n => f[k + 1] = g[k + 1]}
  <2>2. 0 \in S
    <3>1. f[1] = t[1] /\ g[1] = s[1] /\ t[1] = s[1]
      BY <1>1, <1>2, <1>4, <2>1 DEF FlattenStep
    <3>. QED BY <3>1
  <2>3. ASSUME NEW k \in S PROVE k + 1 \in S
    <3>1. k \in Nat /\ (k + 1 <= n => f[k + 1] = g[k + 1]) OBVIOUS
    <3>2. ASSUME (k + 1) + 1 <= n PROVE f[(k + 1) + 1] = g[(k + 1) + 1]
      <4>1. PICK j : j = (k + 1) + 1 OBVIOUS
      <4>2. j \in 1 .. n /\ j \in 1 .. n + 1 /\ j # 1 /\ j - 1 = k + 1 /\ k + 1 <= n
        BY <1>1, <3>1, <3>2, <4>1
      <4>3. f[j] = f[j - 1] \o t[j] BY <1>2, <4>2 DEF FlattenStep
      <4>4. g[j] = g[j - 1] \o s[j] BY <2>1, <4>2 DEF FlattenStep
      <4>5. f[j - 1] = g[j - 1] /\ t[j] = s[j] BY <1>1, <3>1, <4>2
      <4>. QED BY <4>1, <4>3, <4>4, <4>5
    <3>. QED BY <3>1, <3>2
  <2>4. S = Nat
    <3>1. S \in SUBSET Nat OBVIOUS
    <3>2. \A k \in S : k + 1 \in S BY <2>3
    <3>. HIDE DEF S
    <3>. QED BY ONLY <2>2, <3>1, <3>2, NatInductionSet
  <2>5. f[n] = g[n]
    <3>1. n - 1 \in Nat /\ (n - 1) + 1 = n BY <1>1, <1>4
    <3>2. n - 1 \in S BY <2>4, <3>1
    <3>. QED BY <1>1, <3>1, <3>2
  <2>6. f[n + 1] = f[n] \o t[n + 1]
    <3>1. n + 1 \in 1 .. n + 1 /\ n + 1 # 1 /\ (n + 1) - 1 = n BY <1>1, <1>4
    <3>. QED BY <1>2, <3>1 DEF FlattenStep
  <2>. QED BY <1>1, <1>2, <2>1, <2>5, <2>6 DEF t
<1>. QED BY <1>3, <1>4

(* A part of a sequence with its next element.                              *)
LEMMA SubSeqGrows ==
  ASSUME NEW A, NEW s \in Seq(A), NEW i \in Nat \ {0}, NEW m \in Nat,
         i <= m + 1, m < Len(s)
  PROVE  /\ SubSeq(s, i, m) \in Seq(A)
         /\ SubSeq(s, i, m + 1) = Append(SubSeq(s, i, m), s[m + 1])
<1>. DEFINE a == SubSeq(s, i, m)
            b == SubSeq(s, i, m + 1)
<1>0. Len(s) \in Nat BY LenProperties
<1>1. /\ a \in Seq(A) /\ Len(a) = (m + 1) - i
      /\ \A k \in 1 .. (m + 1) - i : a[k] = s[i + k - 1]
  <2>1. i \in Int /\ m \in Int /\ \A k \in i .. m : s[k] \in A
    BY <1>0, ElementOfSeq
  <2>2. /\ a \in Seq(A)
        /\ Len(a) = IF i <= m THEN m - i + 1 ELSE 0
        /\ \A k \in 1 .. m - i + 1 : a[k] = s[i + k - 1]
    BY ONLY <2>1, SubSeqProperties
  <2>. HIDE DEF a
  <2>. QED BY <2>2
<1>2. /\ b \in Seq(A) /\ Len(b) = (m + 1) - i + 1
      /\ \A k \in 1 .. (m + 1) - i + 1 : b[k] = s[i + k - 1]
  <2>1. i \in Int /\ m + 1 \in Int /\ \A k \in i .. m + 1 : s[k] \in A
    BY <1>0, ElementOfSeq
  <2>2. /\ b \in Seq(A)
        /\ Len(b) = IF i <= m + 1 THEN (m + 1) - i + 1 ELSE 0
        /\ \A k \in 1 .. (m + 1) - i + 1 : b[k] = s[i + k - 1]
    BY ONLY <2>1, SubSeqProperties
  <2>. HIDE DEF b
  <2>. QED BY <2>2
<1>3. s[m + 1] \in A /\ (m + 1) - i \in Nat BY <1>0, ElementOfSeq
<1>. HIDE DEF a, b
<1>4. /\ Append(a, s[m + 1]) \in Seq(A) /\ Len(Append(a, s[m + 1])) = (m + 1) - i + 1
      /\ \A k \in 1 .. (m + 1) - i : Append(a, s[m + 1])[k] = a[k]
      /\ Append(a, s[m + 1])[(m + 1) - i + 1] = s[m + 1]
  BY <1>1, <1>3, AppendProperties
<1>5. ASSUME NEW k \in 1 .. (m + 1) - i + 1 PROVE b[k] = Append(a, s[m + 1])[k]
  <2>1. CASE k \in 1 .. (m + 1) - i BY <1>1, <1>2, <1>4, <2>1
  <2>2. CASE k = (m + 1) - i + 1
    <3>1. i + k - 1 = m + 1 BY <2>2
    <3>. QED BY <1>2, <1>4, <2>2, <3>1
  <2>3. \A x \in Nat : \A y \in 1 .. x + 1 : y \in 1 .. x \/ y = x + 1 OBVIOUS
  <2>4. k \in 1 .. (m + 1) - i \/ k = (m + 1) - i + 1
    BY ONLY <1>3, <2>3, k \in 1 .. (m + 1) - i + 1
  <2>. QED BY <2>1, <2>2, <2>4
<1>6. b = Append(a, s[m + 1])
  <2>1. PICK c : c = Append(a, s[m + 1]) OBVIOUS
  <2>2. b \in Seq(A) /\ c \in Seq(A) /\ Len(b) = Len(c) BY <1>2, <1>4, <2>1
  <2>3. \A k \in 1 .. Len(b) : b[k] = c[k] BY <1>2, <1>5, <2>1
  <2>4. b = c BY ONLY <2>2, <2>3, SeqEqual
  <2>. QED BY <2>1, <2>4
<1>. QED BY <1>1, <1>6 DEF a, b

(* What is flattened can be cut between two parts.                          *)
LEMMA FlattenSplit ==
  ASSUME NEW A, NEW s \in Seq(Seq(A)), NEW k \in 0 .. Len(s)
  PROVE  FlattenSeq(s) =
           FlattenSeq(SubSeq(s, 1, k)) \o FlattenSeq(SubSeq(s, k + 1, Len(s)))
<1>. DEFINE L == FlattenSeq(SubSeq(s, 1, k))
            R(m) == FlattenSeq(SubSeq(s, k + 1, k + m))
            Good(m) == /\ SubSeq(s, 1, k + m) \in Seq(Seq(A))
                       /\ SubSeq(s, k + 1, k + m) \in Seq(Seq(A))
                       /\ FlattenSeq(SubSeq(s, 1, k + m)) = L \o R(m)
            S == {m \in Nat : k + m <= Len(s) => Good(m)}
<1>1. Len(s) \in Nat /\ k \in Nat BY LenProperties
<1>2. \A j \in 0 .. Len(s) : SubSeq(s, 1, j) \in Seq(Seq(A))
  BY <1>1, ElementOfSeq, SubSeqProperties
<1>3. L \in Seq(A)
  <2>1. SubSeq(s, 1, k) \in Seq(Seq(A)) BY <1>2
  <2>. QED BY <2>1, FlattenSeqProperties
<1>4. Good(0)
  <2>1. SubSeq(s, k + 1, k + 0) = << >> /\ k + 0 = k BY <1>1
  <2>2. R(0) = << >> BY <2>1 DEF FlattenSeq
  <2>3. << >> \in Seq(Seq(A)) OBVIOUS
  <2>4. L \o << >> = L BY <1>3, ConcatEmptySeq
  <2>. HIDE DEF L, R
  <2>5. FlattenSeq(SubSeq(s, 1, k + 0)) = L \o R(0) BY <2>1, <2>2, <2>4 DEF L
  <2>. QED BY <1>1, <1>2, <2>1, <2>3, <2>5
<1>5. ASSUME NEW m \in Nat, k + m < Len(s), Good(m) PROVE Good(m + 1)
  <2>1. PICK j : j = k + m OBVIOUS
  <2>2. j \in Nat /\ j < Len(s) /\ k + (m + 1) = j + 1 /\ k + 1 <= j + 1 /\ 1 <= j + 1
    BY <1>1, <1>5, <2>1
  <2>3. /\ SubSeq(s, 1, j + 1) = Append(SubSeq(s, 1, j), s[j + 1])
        /\ SubSeq(s, k + 1, j + 1) = Append(SubSeq(s, k + 1, j), s[j + 1])
    <3>1. s \in Seq(Seq(A)) /\ 1 \in Nat \ {0} /\ k + 1 \in Nat \ {0} /\ j \in Nat
      BY <1>1, <2>2
    <3>2. 1 <= j + 1 /\ k + 1 <= j + 1 /\ j < Len(s) BY <2>2
    <3>3. PICK i : i = k + 1 OBVIOUS
    <3>4. SubSeq(s, i, j + 1) = Append(SubSeq(s, i, j), s[j + 1])
      BY ONLY <3>1, <3>2, <3>3, SubSeqGrows
    <3>5. SubSeq(s, 1, j + 1) = Append(SubSeq(s, 1, j), s[j + 1])
      BY ONLY <3>1, <3>2, SubSeqGrows
    <3>. QED BY <3>3, <3>4, <3>5
  <2>4. s[j + 1] \in Seq(A) BY <1>1, <2>2, ElementOfSeq
  <2>5. /\ SubSeq(s, 1, j) \in Seq(Seq(A)) /\ SubSeq(s, k + 1, j) \in Seq(Seq(A))
        /\ FlattenSeq(SubSeq(s, 1, j)) = L \o R(m)
    BY <1>5, <2>1
  <2>6. R(m) = FlattenSeq(SubSeq(s, k + 1, j)) BY <2>1
  <2>7. R(m) \in Seq(A) BY <2>5, <2>6, FlattenSeqProperties
  <2>8. FlattenSeq(SubSeq(s, 1, j + 1)) = (L \o R(m)) \o s[j + 1]
    <3>1. PICK a, e : a = SubSeq(s, 1, j) /\ e = s[j + 1] OBVIOUS
    <3>2. a \in Seq(Seq(A)) /\ e \in Seq(A) BY <2>4, <2>5, <3>1
    <3>3. FlattenSeq(Append(a, e)) = FlattenSeq(a) \o e BY ONLY <3>2, FlattenAppend
    <3>. QED BY <2>3, <2>5, <3>1, <3>3
  <2>9. FlattenSeq(SubSeq(s, k + 1, j + 1)) = R(m) \o s[j + 1]
    <3>1. PICK a, e : a = SubSeq(s, k + 1, j) /\ e = s[j + 1] OBVIOUS
    <3>2. a \in Seq(Seq(A)) /\ e \in Seq(A) BY <2>4, <2>5, <3>1
    <3>3. FlattenSeq(Append(a, e)) = FlattenSeq(a) \o e BY ONLY <3>2, FlattenAppend
    <3>. QED BY <2>3, <2>6, <3>1, <3>3
  <2>10. (L \o R(m)) \o s[j + 1] = L \o (R(m) \o s[j + 1])
    <3>1. PICK a, b, c : a = L /\ b = R(m) /\ c = s[j + 1] OBVIOUS
    <3>2. a \in Seq(A) /\ b \in Seq(A) /\ c \in Seq(A) BY <1>3, <2>4, <2>7, <3>1
    <3>3. (a \o b) \o c = a \o (b \o c) BY ONLY <3>2, ConcatAssociative, SMTT(60)
    <3>. QED BY <3>1, <3>3
  <2>11. R(m + 1) = FlattenSeq(SubSeq(s, k + 1, j + 1)) BY <2>2
  <2>12. /\ SubSeq(s, 1, j + 1) \in Seq(Seq(A))
         /\ SubSeq(s, k + 1, j + 1) \in Seq(Seq(A))
    <3>1. PICK a, b : a = SubSeq(s, 1, j) /\ b = SubSeq(s, k + 1, j) OBVIOUS
    <3>2. a \in Seq(Seq(A)) /\ b \in Seq(Seq(A)) BY <2>5, <3>1
    <3>3. Append(a, s[j + 1]) \in Seq(Seq(A)) /\ Append(b, s[j + 1]) \in Seq(Seq(A))
      BY <2>4, <3>2, AppendProperties
    <3>. QED BY <2>3, <3>1, <3>3
  <2>. HIDE DEF L, R
  <2>. QED BY <2>2, <2>8, <2>9, <2>10, <2>11, <2>12
<1>6. S = Nat
  <2>. HIDE DEF Good
  <2>1. S \in SUBSET Nat OBVIOUS
  <2>2. 0 \in S BY <1>4
  <2>3. ASSUME NEW m \in S PROVE m + 1 \in S
    <3>1. m \in Nat /\ (k + m <= Len(s) => Good(m)) OBVIOUS
    <3>2. ASSUME k + (m + 1) <= Len(s) PROVE Good(m + 1)
      <4>1. k + m <= Len(s) /\ k + m < Len(s) BY <1>1, <3>1, <3>2
      <4>. QED BY <1>5, <3>1, <4>1
    <3>. QED BY <3>1, <3>2
  <2>4. \A m \in S : m + 1 \in S BY <2>3
  <2>. HIDE DEF S
  <2>. QED BY ONLY <2>1, <2>2, <2>4, NatInductionSet
<1>7. Good(Len(s) - k)
  <2>. HIDE DEF Good
  <2>1. PICK m : m = Len(s) - k OBVIOUS
  <2>2. m \in Nat /\ k + m <= Len(s) BY <1>1, <2>1
  <2>3. m \in S BY <1>6, <2>2
  <2>. QED BY <2>1, <2>2, <2>3
<1>8. k + (Len(s) - k) = Len(s) BY <1>1
<1>9. SubSeq(s, 1, Len(s)) = s BY SubSeqFull
<1>. HIDE DEF L
<1>. QED BY <1>7, <1>8, <1>9 DEF L

(* Of all the parts only one is not empty.                                  *)
LEMMA FlattenOne ==
  ASSUME NEW A, NEW s \in Seq(Seq(A)), NEW p \in 1 .. Len(s),
         \A i \in 1 .. Len(s) : i # p => s[i] = << >>
  PROVE  FlattenSeq(s) = s[p]
<1>1. Len(s) \in Nat /\ s[p] \in Seq(A) BY ElementOfSeq, LenProperties
<1>2. \A t \in Seq(Seq({})) : FlattenSeq(t) = << >>
  <2>1. SUFFICES ASSUME NEW t \in Seq(Seq({})) PROVE FlattenSeq(t) = << >> OBVIOUS
  <2>2. FlattenSeq(t) \in Seq({}) BY FlattenSeqProperties
  <2>. QED BY <2>2, EmptySeq, ElementOfSeq, LenProperties
<1>3. \A i \in 1 .. Len(s) : i # p => s[i] \in Seq({})
  <2>1. << >> \in Seq({}) OBVIOUS
  <2>. QED BY <2>1
<1>4. PICK a, b : a = SubSeq(s, 1, p - 1) /\ b = SubSeq(s, p + 1, Len(s)) OBVIOUS
<1>5. FlattenSeq(a) = << >>
  <2>1. 1 \in Int /\ p - 1 \in Int BY <1>1
  <2>2. \A i \in 1 .. p - 1 : s[i] \in Seq({}) BY <1>1, <1>3
  <2>3. a \in Seq(Seq({})) BY <1>4, <2>1, <2>2, SubSeqProperties
  <2>. QED BY <1>2, <2>3
<1>6. FlattenSeq(b) = << >>
  <2>1. p + 1 \in Int /\ Len(s) \in Int BY <1>1
  <2>2. \A i \in p + 1 .. Len(s) : s[i] \in Seq({}) BY <1>1, <1>3
  <2>3. b \in Seq(Seq({})) BY <1>4, <2>1, <2>2, SubSeqProperties
  <2>. QED BY <1>2, <2>3
<1>7. a \in Seq(Seq(A)) /\ SubSeq(s, 1, p) = Append(a, s[p])
  <2>1. PICK m \in Nat : m = p - 1 BY <1>1
  <2>2. 1 \in Nat \ {0} /\ 1 <= m + 1 /\ m < Len(s) /\ m + 1 = p BY <1>1, <2>1
  <2>3. /\ SubSeq(s, 1, m) \in Seq(Seq(A))
        /\ SubSeq(s, 1, m + 1) = Append(SubSeq(s, 1, m), s[m + 1])
    BY ONLY <2>2, s \in Seq(Seq(A)), SubSeqGrows
  <2>. QED BY <1>4, <2>1, <2>2, <2>3
<1>8. FlattenSeq(SubSeq(s, 1, p)) = s[p]
  <2>1. FlattenSeq(Append(a, s[p])) = FlattenSeq(a) \o s[p] BY <1>1, <1>7, FlattenAppend
  <2>2. << >> \o s[p] = s[p] BY <1>1, ConcatEmptySeq
  <2>. QED BY <1>5, <1>7, <2>1, <2>2
<1>9. FlattenSeq(s) = FlattenSeq(SubSeq(s, 1, p)) \o FlattenSeq(b)
  <2>1. p \in 0 .. Len(s) BY <1>1
  <2>. QED BY <1>4, <2>1, FlattenSplit
<1>10. s[p] \o << >> = s[p] BY <1>1, ConcatEmptySeq
<1>. QED BY <1>6, <1>8, <1>9, <1>10
=============================================================================
