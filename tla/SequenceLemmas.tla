--------------------------- MODULE SequenceLemmas ---------------------------
(***************************************************************************)
(* What the proofs about branches and inboxes need to know of sequences:   *)
(* their elements and positions when they grow, and what a filter written  *)
(* as a recursive function keeps.  Induction over the naturals is used in  *)
(* its first-order form: a set of naturals that is not empty has a least   *)
(* element.                                                                *)
(***************************************************************************)
EXTENDS Integers, Sequences, SequencesExt, Filters, FiniteSetTheorems, SequenceTheorems,
        WellFoundedInduction, TLAPS

(* Numbers.                                                                *)
LEMMA LeastNatural ==
  ASSUME NEW T, T \subseteq Nat, T # {}
  PROVE  \E x \in T : \A y \in T : x <= y
<1> DEFINE R == OpToRel(<, Nat)
<1>1. IsWellFoundedOn(R, Nat) BY NatLessThanWellFounded
<1>2. \A x, y \in Nat : <<y, x>> \in R <=> y < x BY DEF OpToRel
<1> HIDE DEF R
<1>3. PICK x \in T : \A y \in T : <<y, x>> \notin R BY <1>1, WFMin
<1>4. \A y \in T : x <= y
  <2> TAKE y \in T
  <2>1. x \in Nat /\ y \in Nat /\ ~(y < x) BY <1>2, <1>3
  <2> QED BY <2>1
<1> QED BY <1>4

LEMMA Induction ==
  ASSUME NEW T, 0 \in T, \A n \in Nat : n \in T => n + 1 \in T
  PROVE  Nat \subseteq T
<1> SUFFICES ASSUME Nat \ T # {} PROVE FALSE OBVIOUS
<1>1. PICK x \in Nat \ T : \A y \in Nat \ T : x <= y BY LeastNatural
<1>2. x # 0 /\ x - 1 \in Nat BY <1>1
<1>3. x - 1 \in T BY <1>1, <1>2
<1> QED BY <1>1, <1>2, <1>3

LEMMA GreatestBelow ==
  ASSUME NEW n \in Nat, NEW T, T \subseteq 0 .. n, T # {}
  PROVE  \E x \in T : \A y \in T : y <= x
<1> DEFINE U == {n - x : x \in T}
<1>0. \A x \in T : x \in Nat /\ n - x \in Nat OBVIOUS
<1>1. U \subseteq Nat /\ U # {} BY <1>0
<1>2. PICK u \in U : \A v \in U : u <= v BY <1>1, LeastNatural
<1>3. PICK x \in T : u = n - x OBVIOUS
<1>4. \A y \in T : y <= x
  <2> TAKE y \in T
  <2>1. n - y \in U OBVIOUS
  <2>2. n - x <= n - y BY <1>2, <1>3, <2>1
  <2> QED BY <2>2
<1> QED BY <1>4

(* Elements.                                                               *)
LEMMA ElementsAre ==
  ASSUME NEW E, NEW s \in Seq(E)
  PROVE  /\ ToSet(s) \subseteq E /\ (s = <<>> <=> ToSet(s) = {})
         /\ \A x : x \in ToSet(s) <=> \E i \in 1 .. Len(s) : s[i] = x
         /\ s # <<>> => Last(s) \in ToSet(s) /\ Len(s) > 0
         /\ s # <<>> => s[1] \in ToSet(s)
<1>1. DOMAIN s = 1 .. Len(s) /\ Len(s) \in Nat OBVIOUS
<1>2. \A x : x \in ToSet(s) <=> \E i \in 1 .. Len(s) : s[i] = x BY <1>1 DEF ToSet
<1>3. ToSet(s) \subseteq E BY <1>2
<1>4. s # <<>> => Len(s) > 0 BY <1>1
<1>5. s # <<>> => s[1] \in ToSet(s) /\ s[Len(s)] \in ToSet(s) BY <1>1, <1>2, <1>4
<1>6. s = <<>> => ToSet(s) = {} BY <1>2
<1> QED BY <1>2, <1>3, <1>4, <1>5, <1>6 DEF Last

LEMMA OneElement ==
  ASSUME NEW x
  PROVE  /\ <<x>> \in Seq({x}) /\ ToSet(<<x>>) = {x} /\ IsInjective(<<x>>)
         /\ Len(<<x>>) = 1 /\ Last(<<x>>) = x
         /\ <<>> \in Seq({x}) /\ ToSet(<<>>) = {} /\ IsInjective(<<>>)
BY DEF ToSet, IsInjective, Last

LEMMA NoElements ==
  ASSUME NEW E
  PROVE  <<>> \in Seq(E) /\ ToSet(<<>>) = {} /\ IsInjective(<<>>) /\ Len(<<>>) = 0
BY DEF ToSet, IsInjective

LEMMA ConcatElements ==
  ASSUME NEW E, NEW s \in Seq(E), NEW t \in Seq(E)
  PROVE  /\ s \o t \in Seq(E) /\ ToSet(s \o t) = ToSet(s) \cup ToSet(t)
         /\ Len(s \o t) = Len(s) + Len(t)
         /\ \A i \in 1 .. Len(s) : (s \o t)[i] = s[i]
         /\ \A i \in 1 .. Len(t) : (s \o t)[Len(s) + i] = t[i]
         /\ IsInjective(s) /\ IsInjective(t) /\ ToSet(s) \cap ToSet(t) = {} => IsInjective(s \o t)
<1> DEFINE u == s \o t
<1>1. /\ u \in Seq(E) /\ Len(u) = Len(s) + Len(t) /\ Len(s) \in Nat /\ Len(t) \in Nat
      /\ \A i \in 1 .. Len(s) + Len(t) : u[i] = IF i <= Len(s) THEN s[i] ELSE t[i - Len(s)]
  BY ConcatProperties
<1> HIDE DEF u
<1>2. /\ \A i \in 1 .. Len(s) : u[i] = s[i]
      /\ \A i \in 1 .. Len(t) : u[Len(s) + i] = t[i]
  <2>1. \A i \in 1 .. Len(s) : i <= Len(s) /\ i \in 1 .. Len(s) + Len(t) BY <1>1
  <2>2. ASSUME NEW i \in 1 .. Len(t) PROVE u[Len(s) + i] = t[i]
    <3>1. Len(s) + i \in 1 .. Len(s) + Len(t) /\ ~(Len(s) + i <= Len(s)) /\ Len(s) + i - Len(s) = i
      BY <1>1
    <3> QED BY <1>1, <3>1
  <2> QED BY <1>1, <2>1, <2>2
<1>3. \A i \in 1 .. Len(u) : (i \in 1 .. Len(s) /\ u[i] = s[i])
         \/ (i - Len(s) \in 1 .. Len(t) /\ u[i] = t[i - Len(s)])
  BY <1>1
<1>4. ToSet(u) \subseteq ToSet(s) \cup ToSet(t)
  <2> SUFFICES ASSUME NEW x \in ToSet(u) PROVE x \in ToSet(s) \/ x \in ToSet(t) OBVIOUS
  <2>1. PICK i \in 1 .. Len(u) : u[i] = x BY <1>1, ElementsAre
  <2>2. CASE i \in 1 .. Len(s) /\ u[i] = s[i] BY <2>1, <2>2, ElementsAre
  <2>3. CASE i - Len(s) \in 1 .. Len(t) /\ u[i] = t[i - Len(s)] BY <2>1, <2>3, ElementsAre
  <2> QED BY <1>3, <2>2, <2>3
<1>5. ToSet(s) \subseteq ToSet(u)
  <2> SUFFICES ASSUME NEW x \in ToSet(s) PROVE x \in ToSet(u) OBVIOUS
  <2>1. PICK i \in 1 .. Len(s) : s[i] = x BY ElementsAre
  <2>2. i \in 1 .. Len(u) /\ u[i] = x BY <1>1, <1>2, <2>1
  <2> QED BY <1>1, <2>2, ElementsAre
<1>6. ToSet(t) \subseteq ToSet(u)
  <2> SUFFICES ASSUME NEW x \in ToSet(t) PROVE x \in ToSet(u) OBVIOUS
  <2>1. PICK i \in 1 .. Len(t) : t[i] = x BY ElementsAre
  <2>2. Len(s) + i \in 1 .. Len(u) /\ u[Len(s) + i] = x BY <1>1, <1>2, <2>1
  <2> QED BY <1>1, <2>2, ElementsAre
<1>7. ASSUME IsInjective(s), IsInjective(t), ToSet(s) \cap ToSet(t) = {}
      PROVE  IsInjective(u)
  <2> SUFFICES ASSUME NEW i \in 1 .. Len(u), NEW j \in 1 .. Len(u), u[i] = u[j] PROVE i = j
    BY <1>1 DEF IsInjective
  <2>1. \A a, b \in 1 .. Len(s) : s[a] = s[b] => a = b BY <1>7 DEF IsInjective
  <2>2. \A a, b \in 1 .. Len(t) : t[a] = t[b] => a = b BY <1>7 DEF IsInjective
  <2>3. \A a \in 1 .. Len(s), b \in 1 .. Len(t) : s[a] # t[b] BY <1>7, ElementsAre
  <2>4. CASE i \in 1 .. Len(s) /\ u[i] = s[i]
    <3>1. ~(j - Len(s) \in 1 .. Len(t) /\ u[j] = t[j - Len(s)]) BY <2>3, <2>4
    <3>2. j \in 1 .. Len(s) /\ u[j] = s[j] BY <1>3, <3>1
    <3> QED BY <2>1, <2>4, <3>2
  <2>5. CASE i - Len(s) \in 1 .. Len(t) /\ u[i] = t[i - Len(s)]
    <3>1. ~(j \in 1 .. Len(s) /\ u[j] = s[j]) BY <2>3, <2>5
    <3>2. j - Len(s) \in 1 .. Len(t) /\ u[j] = t[j - Len(s)] BY <1>3, <3>1
    <3>3. i - Len(s) = j - Len(s) BY <2>2, <2>5, <3>2
    <3> QED BY <1>1, <3>3
  <2> QED BY <1>3, <2>4, <2>5
<1> QED BY <1>1, <1>2, <1>4, <1>5, <1>6, <1>7 DEF u

(* w is s with t behind it; with t and then u behind it.                   *)
Extends(w, s, t) == w = s \o t
ExtendsTwice(w, s, t, u) == w = (s \o t) \o u

LEMMA ConcatThree ==
  ASSUME NEW E, NEW s \in Seq(E), NEW t \in Seq(E), NEW u \in Seq(E), NEW w,
         ExtendsTwice(w, s, t, u)
  PROVE  \E new \in Seq(E) :
           /\ Extends(w, s, new) /\ ToSet(new) = ToSet(t) \cup ToSet(u)
           /\ IsInjective(t) /\ IsInjective(u) /\ ToSet(t) \cap ToSet(u) = {} => IsInjective(new)
<1>1. w = s \o (t \o u) BY ConcatAssociative DEF ExtendsTwice
<1> DEFINE new == t \o u
<1>2. /\ new \in Seq(E) /\ ToSet(new) = ToSet(t) \cup ToSet(u)
      /\ IsInjective(t) /\ IsInjective(u) /\ ToSet(t) \cap ToSet(u) = {} => IsInjective(new)
  BY ConcatElements
<1>3. Extends(w, s, new) BY <1>1 DEF Extends
<1> HIDE DEF new
<1> QED BY <1>2, <1>3

LEMMA AppendElements ==
  ASSUME NEW E, NEW s \in Seq(E), NEW x \in E
  PROVE  /\ Append(s, x) \in Seq(E) /\ ToSet(Append(s, x)) = ToSet(s) \cup {x}
         /\ Len(Append(s, x)) = Len(s) + 1 /\ Append(s, x)[Len(s) + 1] = x
         /\ \A i \in 1 .. Len(s) : Append(s, x)[i] = s[i]
         /\ IsInjective(s) /\ x \notin ToSet(s) => IsInjective(Append(s, x))
<1> DEFINE t == <<x>>
<1>1. Append(s, x) = s \o t BY AppendIsConcat
<1>2. t \in Seq(E) /\ ToSet(t) = {x} /\ IsInjective(t) /\ Len(t) = 1 /\ t[1] = x
  BY DEF ToSet, IsInjective
<1> HIDE DEF t
<1>3. 1 \in 1 .. Len(t) BY <1>2
<1> QED BY <1>1, <1>2, <1>3, ConcatElements

-----------------------------------------------------------------------------
(* A filter as a recursive function: f[i] holds what is left of the first  *)
(* i elements of s.  It exists, and induction says what it keeps.          *)
Selects(f, s, S, n) ==
  f = [i \in 0 .. n |-> IF i = 0 THEN <<>>
                        ELSE IF s[i] \in S THEN Append(f[i - 1], s[i]) ELSE f[i - 1]]

LEMMA SelectsExists ==
  ASSUME NEW s, NEW S
  PROVE  \A n \in Nat : \E f : Selects(f, s, S, n)
<1> DEFINE T == {n \in Nat : \E f : Selects(f, s, S, n)}
<1>1. 0 \in T
  <2> DEFINE f == [i \in 0 .. 0 |-> <<>>]
  <2>1. Selects(f, s, S, 0) BY DEF Selects
  <2> QED BY <2>1
<1>2. ASSUME NEW n \in Nat, n \in T PROVE n + 1 \in T
  <2>1. PICK g : Selects(g, s, S, n) BY <1>2
  <2> DEFINE f == [i \in 0 .. n + 1 |->
                     IF i <= n THEN g[i]
                     ELSE IF s[n + 1] \in S THEN Append(g[n], s[n + 1]) ELSE g[n]]
  <2>2. \A i \in 0 .. n : f[i] = g[i] OBVIOUS
  <2>3. ASSUME NEW i \in 0 .. n + 1
        PROVE  f[i] = IF i = 0 THEN <<>>
                      ELSE IF s[i] \in S THEN Append(f[i - 1], s[i]) ELSE f[i - 1]
    <3>1. CASE i \in 0 .. n
      <4>1. g[i] = IF i = 0 THEN <<>>
                   ELSE IF s[i] \in S THEN Append(g[i - 1], s[i]) ELSE g[i - 1]
        BY <2>1, <3>1 DEF Selects
      <4>2. i = 0 \/ i - 1 \in 0 .. n BY <3>1
      <4> HIDE DEF f
      <4> QED BY <2>2, <3>1, <4>1, <4>2
    <3>2. CASE i = n + 1
      <4>1. i # 0 /\ i - 1 = n /\ i - 1 \in 0 .. n /\ ~(i <= n) BY <3>2
      <4>2. f[i] = IF s[n + 1] \in S THEN Append(g[n], s[n + 1]) ELSE g[n] BY <3>2, <4>1
      <4>3. f[n] = g[n] BY <2>2
      <4> HIDE DEF f
      <4> QED BY <3>2, <4>1, <4>2, <4>3
    <3> QED BY <3>1, <3>2
  <2>4. Selects(f, s, S, n + 1)
    <3> DEFINE h == [i \in 0 .. n + 1 |-> IF i = 0 THEN <<>>
                        ELSE IF s[i] \in S THEN Append(f[i - 1], s[i]) ELSE f[i - 1]]
    <3>1. f = h BY <2>3
    <3> QED BY <3>1 DEF Selects
  <2> QED BY <2>4
<1> HIDE DEF T
<1>3. Nat \subseteq T BY <1>1, <1>2, Induction
<1> QED BY <1>3 DEF T

LEMMA SelectsFacts ==
  ASSUME NEW E, NEW s \in Seq(E), NEW S, NEW f, Selects(f, s, S, Len(s))
  PROVE  /\ f[Len(s)] \in Seq(E) /\ ToSet(f[Len(s)]) = ToSet(s) \cap S
         /\ IsInjective(s) => IsInjective(f[Len(s)])
<1> DEFINE Upto(n) == {s[i] : i \in 1 .. n}
           Fact(n) == /\ f[n] \in Seq(E) /\ ToSet(f[n]) = Upto(n) \cap S
                      /\ IsInjective(s) => IsInjective(f[n])
           T == {n \in Nat : n <= Len(s) => Fact(n)}
<1>0. Len(s) \in Nat OBVIOUS
<1>1. /\ f[0] = <<>>
      /\ \A n \in 1 .. Len(s) : f[n] = IF s[n] \in S THEN Append(f[n - 1], s[n]) ELSE f[n - 1]
  <2>1. \A i \in 0 .. Len(s) : f[i] = IF i = 0 THEN <<>>
                        ELSE IF s[i] \in S THEN Append(f[i - 1], s[i]) ELSE f[i - 1]
    BY <1>0 DEF Selects
  <2>2. 0 \in 0 .. Len(s) /\ \A n \in 1 .. Len(s) : n \in 0 .. Len(s) /\ n # 0 BY <1>0
  <2> QED BY <2>1, <2>2
<1>2. 0 \in T
  <2>1. Upto(0) = {} OBVIOUS
  <2>2. f[0] \in Seq(E) /\ ToSet(f[0]) = {} /\ IsInjective(f[0])
    BY <1>1 DEF ToSet, IsInjective
  <2> QED BY <2>1, <2>2
<1>3. ASSUME NEW n \in Nat, n \in T PROVE n + 1 \in T
  <2> SUFFICES ASSUME n + 1 <= Len(s) PROVE Fact(n + 1) OBVIOUS
  <2>1. Fact(n) /\ n + 1 \in 1 .. Len(s) /\ (n + 1) - 1 = n BY <1>0, <1>3
  <2> DEFINE x == s[n + 1]
  <2>2. x \in E BY <2>1
  <2>3. Upto(n + 1) = Upto(n) \cup {x} BY <2>1
  <2>4. CASE x \notin S
    <3>1. f[n + 1] = f[n] BY <1>1, <2>1, <2>4
    <3> QED BY <2>1, <2>3, <2>4, <3>1
  <2>5. CASE x \in S
    <3>1. f[n + 1] = Append(f[n], x) BY <1>1, <2>1, <2>5
    <3>4. IsInjective(s) => x \notin Upto(n)
      <4> SUFFICES ASSUME IsInjective(s), NEW i \in 1 .. n, s[i] = x PROVE FALSE OBVIOUS
      <4>1. i \in DOMAIN s /\ n + 1 \in DOMAIN s /\ i # n + 1 BY <2>1
      <4> QED BY <4>1 DEF IsInjective
    <3> HIDE DEF x, Upto
    <3>5. /\ f[n + 1] \in Seq(E) /\ ToSet(f[n + 1]) = ToSet(f[n]) \cup {x}
          /\ IsInjective(f[n]) /\ x \notin ToSet(f[n]) => IsInjective(f[n + 1])
      BY <2>1, <2>2, <3>1, AppendElements
    <3> QED BY <2>1, <2>3, <2>5, <3>4, <3>5
  <2> QED BY <2>4, <2>5
<1>4. Len(s) \in T
  <2> HIDE DEF T
  <2> QED BY <1>0, <1>2, <1>3, Induction
<1>5. Upto(Len(s)) = ToSet(s) BY DEF ToSet
<1> QED BY <1>0, <1>4, <1>5

LEMMA KeepSelects ==
  ASSUME NEW s, Len(s) \in Nat, NEW S
  PROVE  \E f : Selects(f, s, S, Len(s)) /\ Keep(s, S) = f[Len(s)]
<1> DEFINE f == CHOOSE g : Selects(g, s, S, Len(s))
<1>1. Selects(f, s, S, Len(s)) BY SelectsExists
<1>2. Keep(s, S) = f[Len(s)] BY DEF Keep, Selects
<1> HIDE DEF f
<1> QED BY <1>1, <1>2

LEMMA KeepFacts ==
  ASSUME NEW E, NEW s \in Seq(E), NEW S
  PROVE  /\ Keep(s, S) \in Seq(E) /\ ToSet(Keep(s, S)) = ToSet(s) \cap S
         /\ IsInjective(s) => IsInjective(Keep(s, S))
<1>1. Len(s) \in Nat OBVIOUS
<1>2. PICK f : Selects(f, s, S, Len(s)) /\ Keep(s, S) = f[Len(s)] BY <1>1, KeepSelects
<1> QED BY <1>2, SelectsFacts

(* What is kept of s and t, one behind the other, is kept of each.         *)
LEMMA SelectsStep ==
  ASSUME NEW s, NEW S, NEW N \in Nat, NEW f, Selects(f, s, S, N)
  PROVE  \A n \in 1 .. N : f[n] = IF s[n] \in S THEN Append(f[n - 1], s[n]) ELSE f[n - 1]
<1>1. \A i \in 0 .. N : f[i] = IF i = 0 THEN <<>>
                      ELSE IF s[i] \in S THEN Append(f[i - 1], s[i]) ELSE f[i - 1]
  BY DEF Selects
<1>2. 0 \in 0 .. N /\ \A n \in 1 .. N : n \in 0 .. N /\ n # 0 OBVIOUS
<1> QED BY <1>1, <1>2

LEMMA SelectsFirst ==
  ASSUME NEW s, NEW S, NEW N \in Nat, NEW f, Selects(f, s, S, N)
  PROVE  f[0] = <<>>
<1>1. 0 \in 0 .. N OBVIOUS
<1> QED BY <1>1 DEF Selects

LEMMA SelectsPrefix ==
  ASSUME NEW E, NEW s \in Seq(E), NEW S, NEW f, Selects(f, s, S, Len(s))
  PROVE  \A n \in 0 .. Len(s) : f[n] \in Seq(E)
<1> DEFINE T == {n \in Nat : n <= Len(s) => f[n] \in Seq(E)}
<1>0. Len(s) \in Nat OBVIOUS
<1>1. 0 \in T
  <2>1. f[0] = <<>> BY <1>0, SelectsFirst
  <2>2. f[0] \in Seq(E) BY <2>1
  <2> QED BY <2>2
<1>2. ASSUME NEW n \in Nat, n \in T PROVE n + 1 \in T
  <2> SUFFICES ASSUME n + 1 <= Len(s) PROVE f[n + 1] \in Seq(E) OBVIOUS
  <2>1. f[n] \in Seq(E) /\ n + 1 \in 1 .. Len(s) /\ (n + 1) - 1 = n /\ s[n + 1] \in E
    BY <1>0, <1>2
  <2>2. f[n + 1] = IF s[n + 1] \in S THEN Append(f[n], s[n + 1]) ELSE f[n]
    BY <1>0, <2>1, SelectsStep
  <2> DEFINE x == s[n + 1]
             g == f[n]
  <2> HIDE DEF x, g
  <2>3. g \in Seq(E) /\ x \in E BY <2>1 DEF x, g
  <2>4. Append(g, x) \in Seq(E) BY <2>3
  <2>5. f[n + 1] = IF x \in S THEN Append(g, x) ELSE g BY <2>2 DEF x, g
  <2> QED BY <2>3, <2>4, <2>5
<1> HIDE DEF T
<1>3. Nat \subseteq T BY <1>1, <1>2, Induction
<1> QED BY <1>0, <1>3 DEF T

(* An element more behind t is an element more behind s and t.             *)
LEMMA ExtendsMore ==
  ASSUME NEW E, NEW s \in Seq(E), NEW t \in Seq(E), NEW x \in E, NEW w, Extends(w, s, t)
  PROVE  Extends(Append(w, x), s, Append(t, x))
<1> DEFINE y == <<x>>
           u == Append(t, x)
<1>1. w \in Seq(E) /\ y \in Seq(E) /\ u \in Seq(E)
  <2> DEFINE v == s \o t
  <2>1. v \in Seq(E) BY ConcatProperties
  <2>2. w = v BY DEF Extends
  <2> HIDE DEF v
  <2> QED BY <2>1, <2>2
<1>2. Append(w, x) = w \o y BY <1>1, AppendIsConcat
<1>3. u = t \o y BY AppendIsConcat
<1>4. (s \o t) \o y = s \o (t \o y) BY <1>1, ConcatAssociative
<1> HIDE DEF y, u
<1>5. w \o y = s \o u BY <1>3, <1>4 DEF Extends
<1>6. Append(w, x) = s \o u BY <1>2, <1>5
<1> QED BY <1>6 DEF Extends, u

LEMMA KeepConcat ==
  ASSUME NEW E, NEW s \in Seq(E), NEW t \in Seq(E), NEW S
  PROVE  Keep(s \o t, S) = Keep(s, S) \o Keep(t, S)
<1> DEFINE w == s \o t
<1>1. /\ w \in Seq(E) /\ Len(w) = Len(s) + Len(t)
      /\ \A i \in 1 .. Len(s) : w[i] = s[i]
      /\ \A i \in 1 .. Len(t) : w[Len(s) + i] = t[i]
  BY ConcatElements
<1>0. Len(s) \in Nat /\ Len(t) \in Nat /\ Len(w) \in Nat BY <1>1
<1> HIDE DEF w
<1>2. PICK f : Selects(f, s, S, Len(s)) /\ Keep(s, S) = f[Len(s)] BY <1>0, KeepSelects
<1>3. PICK g : Selects(g, t, S, Len(t)) /\ Keep(t, S) = g[Len(t)] BY <1>0, KeepSelects
<1>4. PICK h : Selects(h, w, S, Len(w)) /\ Keep(w, S) = h[Len(w)] BY <1>0, <1>1, KeepSelects
<1>5. \A n \in 0 .. Len(s) : h[n] = f[n]
  <2> DEFINE T == {n \in Nat : n <= Len(s) => h[n] = f[n]}
  <2>1. 0 \in T
    <3>1. h[0] = <<>> /\ f[0] = <<>> BY <1>0, <1>2, <1>4, SelectsFirst
    <3> QED BY <3>1
  <2>2. ASSUME NEW n \in Nat, n \in T PROVE n + 1 \in T
    <3> SUFFICES ASSUME n + 1 <= Len(s) PROVE h[n + 1] = f[n + 1] OBVIOUS
    <3>1. /\ h[n] = f[n] /\ n + 1 \in 1 .. Len(s) /\ n + 1 \in 1 .. Len(w) /\ (n + 1) - 1 = n
          /\ w[n + 1] = s[n + 1]
      BY <1>0, <1>1, <2>2
    <3>2. f[n + 1] = IF s[n + 1] \in S THEN Append(f[n], s[n + 1]) ELSE f[n]
      BY <1>0, <1>2, <3>1, SelectsStep
    <3>3. h[n + 1] = IF w[n + 1] \in S THEN Append(h[n], w[n + 1]) ELSE h[n]
      BY <1>0, <1>4, <3>1, SelectsStep
    <3> QED BY <3>1, <3>2, <3>3
  <2> HIDE DEF T
  <2>3. Nat \subseteq T BY <2>1, <2>2, Induction
  <2> QED BY <1>0, <2>3 DEF T
<1> DEFINE k == f[Len(s)]
<1>6. k \in Seq(E) BY <1>0, <1>2, SelectsPrefix
<1> HIDE DEF k
<1>7. \A n \in 0 .. Len(t) : Extends(h[Len(s) + n], k, g[n])
  <2> DEFINE T == {n \in Nat : n <= Len(t) => Extends(h[Len(s) + n], k, g[n])}
  <2>1. 0 \in T
    <3>1. h[Len(s) + 0] = k BY <1>0, <1>5 DEF k
    <3>2. g[0] = <<>> BY <1>0, <1>3, SelectsFirst
    <3>3. k \o <<>> = k BY <1>6, ConcatEmptySeq
    <3>4. Extends(k, k, <<>>) BY <3>3 DEF Extends
    <3>5. Extends(h[Len(s) + 0], k, g[0]) BY <3>1, <3>2, <3>4
    <3> QED BY <3>5
  <2>2. ASSUME NEW n \in Nat, n \in T PROVE n + 1 \in T
    <3> SUFFICES ASSUME n + 1 <= Len(t) PROVE Extends(h[Len(s) + (n + 1)], k, g[n + 1]) OBVIOUS
    <3>1. /\ Extends(h[Len(s) + n], k, g[n]) /\ n + 1 \in 1 .. Len(t) /\ (n + 1) - 1 = n
          /\ Len(s) + (n + 1) \in 1 .. Len(w) /\ (Len(s) + (n + 1)) - 1 = Len(s) + n
          /\ w[Len(s) + (n + 1)] = t[n + 1]
      <4>1. n <= Len(t) /\ Extends(h[Len(s) + n], k, g[n]) BY <1>0, <2>2
      <4> HIDE DEF T
      <4>2. n + 1 \in 1 .. Len(t) /\ (n + 1) - 1 = n BY <1>0
      <4>3. /\ Len(s) + (n + 1) \in 1 .. Len(w) /\ (Len(s) + (n + 1)) - 1 = Len(s) + n
            /\ w[Len(s) + (n + 1)] = t[n + 1]
        BY <1>0, <1>1, <4>2
      <4> QED BY <4>1, <4>2, <4>3
    <3> DEFINE x == t[n + 1]
               b == g[n]
    <3>2. x \in E /\ b \in Seq(E) BY <1>0, <1>3, <3>1, SelectsPrefix
    <3>3. g[n + 1] = IF x \in S THEN Append(b, x) ELSE b
      <4> DEFINE o == n + 1
      <4>1. o \in 1 .. Len(t) /\ o - 1 = n BY <3>1
      <4> HIDE DEF o
      <4>2. g[o] = IF t[o] \in S THEN Append(g[o - 1], t[o]) ELSE g[o - 1]
        BY <1>0, <1>3, <4>1, SelectsStep
      <4> QED BY <4>1, <4>2 DEF o
    <3> DEFINE m == Len(s) + (n + 1)
    <3>4. h[m] = IF w[m] \in S THEN Append(h[m - 1], w[m]) ELSE h[m - 1]
      BY <1>0, <1>4, <3>1, SelectsStep
    <3> DEFINE d == h[Len(s) + n]
    <3>5. h[m] = IF x \in S THEN Append(d, x) ELSE d BY <3>1, <3>4
    <3>6. Extends(d, k, b) BY <3>1
    <3> HIDE DEF x, b, m, d
    <3>7. Extends(Append(d, x), k, Append(b, x)) BY <1>6, <3>2, <3>6, ExtendsMore
    <3>8. Extends(h[m], k, g[n + 1]) BY <3>3, <3>5, <3>6, <3>7
    <3> QED BY <3>8 DEF m
  <2> HIDE DEF T
  <2>3. Nat \subseteq T BY <2>1, <2>2, Induction
  <2> QED BY <1>0, <2>3 DEF T
<1>8. Extends(h[Len(w)], k, g[Len(t)]) BY <1>0, <1>1, <1>7
<1>9. Keep(w, S) = Keep(s, S) \o Keep(t, S) BY <1>2, <1>3, <1>4, <1>8 DEF k, Extends
<1> QED BY <1>9 DEF w

LEMMA KeepOne ==
  ASSUME NEW x, NEW S
  PROVE  Keep(<<>>, S) = <<>> /\ Keep(<<x>>, S) = IF x \in S THEN <<x>> ELSE <<>>
<1>1. Keep(<<>>, S) = <<>>
  <2> DEFINE s == <<>>
  <2>1. s \in Seq({x}) /\ Len(s) = 0 OBVIOUS
  <2> HIDE DEF s
  <2>0. Len(s) \in Nat BY <2>1
  <2>2. PICK f : Selects(f, s, S, Len(s)) /\ Keep(s, S) = f[Len(s)] BY <2>0, KeepSelects
  <2>3. f[0] = <<>> BY <2>0, <2>2, SelectsFirst
  <2>4. Keep(s, S) = <<>> BY <2>1, <2>2, <2>3
  <2> QED BY <2>4 DEF s
<1>2. Keep(<<x>>, S) = IF x \in S THEN <<x>> ELSE <<>>
  <2> DEFINE s == <<x>>
  <2>1. s \in Seq({x}) /\ Len(s) = 1 /\ s[1] = x OBVIOUS
  <2> HIDE DEF s
  <2>0. Len(s) \in Nat BY <2>1
  <2>2. PICK f : Selects(f, s, S, Len(s)) /\ Keep(s, S) = f[Len(s)] BY <2>0, KeepSelects
  <2>3. f[0] = <<>> BY <2>0, <2>2, SelectsFirst
  <2>8. \A n \in 1 .. Len(s) : f[n] = IF s[n] \in S THEN Append(f[n - 1], s[n]) ELSE f[n - 1]
    BY <2>0, <2>2, SelectsStep
  <2>4. f[1] = IF x \in S THEN Append(f[0], x) ELSE f[0]
    <3>1. 1 \in 1 .. Len(s) /\ 1 - 1 = 0 BY <2>1
    <3> QED BY <2>1, <2>8, <3>1
  <2>5. Append(<<>>, x) = <<x>> OBVIOUS
  <2>6. f[1] = IF x \in S THEN <<x>> ELSE <<>>
    <3>1. f[1] = IF x \in S THEN Append(<<>>, x) ELSE <<>> BY <2>3, <2>4, Zenon
    <3> QED BY <2>5, <3>1, Zenon
  <2>7. Keep(s, S) = IF x \in S THEN <<x>> ELSE <<>> BY <2>1, <2>2, <2>6
  <2> QED BY <2>7 DEF s
<1> QED BY <1>1, <1>2

(* A sequence is its front and its last element.                           *)
LEMMA FrontAndLast ==
  ASSUME NEW E, NEW s \in Seq(E), s # <<>>
  PROVE  /\ Front(s) \in Seq(E) /\ Last(s) \in E /\ s = Front(s) \o <<Last(s)>>
         /\ Len(Front(s)) = Len(s) - 1 /\ \A i \in 1 .. Len(s) - 1 : Front(s)[i] = s[i]
<1>0. Len(s) \in Nat \ {0} BY EmptySeq
<1>1. Len(s) \in 1 .. Len(s) /\ 1 \in 1 .. Len(s) /\ Len(s) - 1 \in Nat BY <1>0
<1>2. SubSeq(s, 1, Len(s)) = SubSeq(s, 1, Len(s) - 1) \o <<s[Len(s)]>>
  BY <1>1, SubSeqRecursiveSecond
<1>3. SubSeq(s, 1, Len(s)) = s BY SubSeqFull
<1>4. \A i \in 1 .. Len(s) - 1 : s[i] \in E BY <1>1
<1> DEFINE m == Len(s) - 1
<1>5. m \in Nat /\ m \in Int /\ 1 \in Int /\ \A i \in 1 .. m : s[i] \in E BY <1>0, <1>1, <1>4
<1> HIDE DEF m
<1>6. /\ SubSeq(s, 1, m) \in Seq(E)
      /\ Len(SubSeq(s, 1, m)) = IF 1 <= m THEN m - 1 + 1 ELSE 0
      /\ \A i \in 1 .. m - 1 + 1 : SubSeq(s, 1, m)[i] = s[1 + i - 1]
  BY <1>5, SubSeqProperties
<1>7. Len(SubSeq(s, 1, m)) = m BY <1>5, <1>6
<1>8. \A i \in 1 .. m : SubSeq(s, 1, m)[i] = s[i]
  <2> TAKE i \in 1 .. m
  <2>1. i \in 1 .. m - 1 + 1 /\ 1 + i - 1 = i BY <1>5
  <2> QED BY <1>6, <2>1
<1>9. Front(s) = SubSeq(s, 1, m) /\ Last(s) = s[Len(s)] BY DEF Front, Last, m
<1>10. s = Front(s) \o <<Last(s)>> BY <1>2, <1>3, <1>9 DEF m
<1>11. Last(s) \in E BY <1>1, <1>9
<1> QED BY <1>6, <1>7, <1>8, <1>9, <1>10, <1>11 DEF m

LEMMA LastOfConcat ==
  ASSUME NEW E, NEW s \in Seq(E), NEW t \in Seq(E), t # <<>>
  PROVE  s \o t # <<>> /\ Last(s \o t) = Last(t)
<1> DEFINE w == s \o t
<1>1. /\ w \in Seq(E) /\ Len(w) = Len(s) + Len(t)
      /\ \A i \in 1 .. Len(t) : w[Len(s) + i] = t[i]
  BY ConcatElements
<1>2. Len(s) \in Nat /\ Len(t) \in Nat \ {0} BY EmptySeq
<1> HIDE DEF w
<1>3. Len(w) # 0 /\ w[Len(w)] = t[Len(t)] BY <1>1, <1>2
<1>4. w # <<>> /\ Last(w) = Last(t) BY <1>1, <1>3 DEF Last
<1> QED BY <1>4 DEF w

(* A filter that all elements pass.                                        *)
LEMMA KeepAll ==
  ASSUME NEW S, NEW s \in Seq(S)
  PROVE  Keep(s, S) = s
<1> DEFINE T == {n \in Nat : \A t \in Seq(S) : Len(t) = n => Keep(t, S) = t}
<1>1. 0 \in T
  <2> SUFFICES ASSUME NEW t \in Seq(S), Len(t) = 0 PROVE Keep(t, S) = t OBVIOUS
  <2>1. t = <<>> BY EmptySeq
  <2> QED BY <2>1, KeepOne
<1>2. ASSUME NEW n \in Nat, n \in T PROVE n + 1 \in T
  <2> SUFFICES ASSUME NEW t \in Seq(S), Len(t) = n + 1 PROVE Keep(t, S) = t OBVIOUS
  <2> DEFINE f == Front(t)
             x == Last(t)
             o == <<x>>
  <2>1. t # <<>>
    <3>1. Len(t) # 0 OBVIOUS
    <3> QED BY <3>1, EmptySeq
  <2>2. f \in Seq(S) /\ x \in S /\ t = f \o o /\ Len(f) = Len(t) - 1 BY <2>1, FrontAndLast
  <2>3. Len(f) = n BY <2>2
  <2>4. Keep(f, S) = f BY <1>2, <2>2, <2>3
  <2>5. Keep(o, S) = o BY <2>2, KeepOne
  <2>6. o \in Seq(S) BY <2>2
  <2> HIDE DEF f, x, o
  <2>7. Keep(f \o o, S) = Keep(f, S) \o Keep(o, S) BY <2>2, <2>6, KeepConcat
  <2> QED BY <2>2, <2>4, <2>5, <2>7
<1>3. Len(s) \in Nat OBVIOUS
<1> HIDE DEF T
<1>4. Len(s) \in T BY <1>1, <1>2, <1>3, Induction
<1> QED BY <1>4 DEF T

(* What is left of a sequence and what comes behind it.                    *)
LEMMA RestOfConcat ==
  ASSUME NEW E, NEW s \in Seq(E), NEW t \in Seq(E), NEW i \in 1 .. Len(s) + 1
  PROVE  SubSeq(s \o t, i, Len(s \o t)) = SubSeq(s, i, Len(s)) \o t
<1> DEFINE w == s \o t
           m == Len(s)
           n == Len(w)
<1>0. m \in Nat /\ Len(t) \in Nat /\ n = m + Len(t) /\ w \in Seq(E)
  <2>1. w \in Seq(E) /\ Len(w) = Len(s) + Len(t) BY ConcatElements
  <2> QED BY <2>1
<1> HIDE DEF n
<1>1. SubSeq(w, i, m) \o SubSeq(w, m + 1, n) = SubSeq(w, i, n)
  <2>1. i \in 1 .. n + 1 /\ m \in i - 1 .. n /\ n \in m .. n /\ n = Len(w) BY <1>0 DEF n
  <2> HIDE DEF w, m
  <2> QED BY <1>0, <2>1, ConcatAdjacentSubSeq
<1>2. SubSeq(w, i, m) = SubSeq(s, i, m)
  <2>1. CASE i = m + 1
    <3>1. i \in Int /\ m \in Int /\ m < i BY <1>0, <2>1
    <3> HIDE DEF w, m
    <3> QED BY <3>1, SubSeqEmpty
  <2>2. CASE i # m + 1
    <3>1. i \in 1 .. Len(s) /\ m \in 1 .. Len(s) BY <1>0, <2>2
    <3> HIDE DEF m
    <3> QED BY <3>1, SubSeqOfConcat1
  <2> QED BY <2>1, <2>2
<1>3. SubSeq(w, m + 1, n) = t
  <2> DEFINE j == m + 1
  <2>1. CASE Len(t) = 0
    <3>1. j \in Int /\ n \in Int /\ n < j BY <1>0, <2>1
    <3>2. t = <<>> BY <2>1, EmptySeq
    <3> HIDE DEF w, j
    <3>3. SubSeq(w, j, n) = <<>> BY <3>1, SubSeqEmpty
    <3> QED BY <3>2, <3>3 DEF j
  <2>2. CASE Len(t) # 0
    <3>1. /\ j \in Len(s) + 1 .. Len(s) + Len(t) /\ n \in Len(s) + 1 .. Len(s) + Len(t)
          /\ j - Len(s) = 1 /\ n - Len(s) = Len(t)
      BY <1>0, <2>2
    <3> HIDE DEF j
    <3>2. SubSeq(w, j, n) = SubSeq(t, j - Len(s), n - Len(s)) BY <3>1, SubSeqOfConcat2
    <3>3. SubSeq(t, 1, Len(t)) = t BY SubSeqFull
    <3> HIDE DEF w
    <3> QED BY <3>1, <3>2, <3>3 DEF j
  <2> QED BY <2>1, <2>2
<1> HIDE DEF w, m
<1>4. SubSeq(w, i, n) = SubSeq(s, i, m) \o t BY <1>1, <1>2, <1>3
<1> QED BY <1>4 DEF w, m, n

LEMMA RestOfExtends ==
  ASSUME NEW E, NEW s \in Seq(E), NEW t \in Seq(E), NEW w, Extends(w, s, t),
         NEW i \in 1 .. Len(s) + 1
  PROVE  Extends(SubSeq(w, i, Len(w)), SubSeq(s, i, Len(s)), t)
<1>1. SubSeq(s \o t, i, Len(s \o t)) = SubSeq(s, i, Len(s)) \o t BY RestOfConcat
<1>2. w = s \o t BY DEF Extends
<1> QED BY <1>1, <1>2 DEF Extends

LEMMA PartOfConcat ==
  ASSUME NEW E, NEW s \in Seq(E), NEW t \in Seq(E), NEW i \in 1 .. Len(s), NEW j \in 1 .. Len(s)
  PROVE  SubSeq(s \o t, i, j) = SubSeq(s, i, j)
BY SubSeqOfConcat1

LEMMA ConcatRegroup ==
  ASSUME NEW E, NEW s \in Seq(E), NEW t \in Seq(E), NEW u \in Seq(E)
  PROVE  s \o (t \o u) = (s \o t) \o u
BY ConcatAssociative

=============================================================================
