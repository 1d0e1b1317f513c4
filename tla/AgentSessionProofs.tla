------------------------- MODULE AgentSessionProofs -------------------------
(***************************************************************************)
(* The invariants of AgentSession hold for any messages, limits and        *)
(* bounds.                                                                 *)
(*                                                                         *)
(* IInv is inductive: who is where (Types, PhaseOK, CallersOK); the two    *)
(* copies of the conversation agree and no call is cut from its result     *)
(* (Conversation), also by a compaction that has begun (KeptOK), between   *)
(* the calls of a batch (ToolsOK) and when a reply is dropped (EndsOK);    *)
(* every message is in one place, and what is queued is shown and waited   *)
(* for (EveryMessageOnce, DisplayAgrees, QueuedOK).  The lemmas come       *)
(* first, on counting, on filters and on what a branch rebuilds to; then   *)
(* one lemma per action; then the theorems.                                *)
(***************************************************************************)
EXTENDS AgentSession, SequenceLemmas

(***************************************************************************)
(* How often an element occurs in a sequence.                              *)
(***************************************************************************)
LEMMA OccursFacts ==
  ASSUME NEW E, NEW s \in Seq(E), NEW e
  PROVE  /\ Occurrences(e, s) \in Nat
         /\ Occurrences(e, s) = 0 <=> e \notin ToSet(s)
<1> DEFINE I == {i \in DOMAIN s : s[i] = e}
<1>1. DOMAIN s = 1 .. Len(s) /\ Len(s) \in Nat OBVIOUS
<1>2. I \subseteq 1 .. Len(s) BY <1>1
<1>3. IsFiniteSet(1 .. Len(s)) BY <1>1, FS_Interval
<1>4. IsFiniteSet(I) BY <1>2, <1>3, FS_Subset
<1>5. I = {} <=> e \notin ToSet(s) BY <1>1, ElementsAre
<1> HIDE DEF I
<1>6. Cardinality(I) \in Nat /\ (Cardinality(I) = 0 <=> I = {})
  BY <1>4, FS_CardinalityType, FS_EmptySet
<1> QED BY <1>5, <1>6 DEF Occurrences, I

LEMMA OccursConcat ==
  ASSUME NEW E, NEW s \in Seq(E), NEW t \in Seq(E), NEW e
  PROVE  Occurrences(e, s \o t) = Occurrences(e, s) + Occurrences(e, t)
<1> DEFINE w == s \o t
<1>1. /\ w \in Seq(E) /\ Len(w) = Len(s) + Len(t)
      /\ \A i \in 1 .. Len(s) : w[i] = s[i]
      /\ \A i \in 1 .. Len(t) : w[Len(s) + i] = t[i]
  BY ConcatElements
<1>0. Len(s) \in Nat /\ Len(t) \in Nat /\ DOMAIN s = 1 .. Len(s) /\ DOMAIN t = 1 .. Len(t)
  OBVIOUS
<1> HIDE DEF w
<1> DEFINE A == {i \in 1 .. Len(s) : s[i] = e}
           B == {i \in 1 .. Len(t) : t[i] = e}
           C == {i \in Len(s) + 1 .. Len(s) + Len(t) : w[i] = e}
           I == {i \in DOMAIN w : w[i] = e}
<1>2. I = A \cup C
  <2>1. DOMAIN w = 1 .. Len(s) + Len(t) BY <1>1
  <2>2. 1 .. Len(s) + Len(t) = (1 .. Len(s)) \cup (Len(s) + 1 .. Len(s) + Len(t)) BY <1>0
  <2> QED BY <1>1, <2>1, <2>2
<1>3. A \cap C = {} BY <1>0
<1>4. IsFiniteSet(A) /\ IsFiniteSet(B)
  <2>1. A \subseteq 1 .. Len(s) /\ B \subseteq 1 .. Len(t) OBVIOUS
  <2>2. IsFiniteSet(1 .. Len(s)) /\ IsFiniteSet(1 .. Len(t)) BY <1>0, FS_Interval
  <2> QED BY <2>1, <2>2, FS_Subset
<1>5. IsFiniteSet(C) /\ Cardinality(C) = Cardinality(B)
  <2> DEFINE f == [i \in B |-> Len(s) + i]
  <2>1. \A i \in B : Len(s) + i \in C BY <1>0, <1>1
  <2>2. \A i, j \in B : f[i] = f[j] => i = j BY <1>0
  <2>3. ASSUME NEW j \in C PROVE \E i \in B : f[i] = j
    <3>1. j - Len(s) \in 1 .. Len(t) /\ Len(s) + (j - Len(s)) = j BY <1>0
    <3>2. j - Len(s) \in B BY <1>1, <3>1
    <3> QED BY <3>1, <3>2
  <2>4. f \in Bijection(B, C)
    <3>1. f \in [B -> C] BY <2>1
    <3> HIDE DEF f, B, C
    <3>2. f \in Injection(B, C) BY <2>2, <3>1 DEF Injection, IsInjective
    <3>3. f \in Surjection(B, C) BY <2>3, <3>1 DEF Surjection
    <3> QED BY <3>2, <3>3 DEF Bijection
  <2>5. ExistsBijection(B, C) BY <2>4 DEF ExistsBijection
  <2> HIDE DEF f, B, C
  <2> QED BY <1>4, <2>5, FS_Bijection
<1> HIDE DEF A, B, C, I
<1>6. Cardinality(A) \in Nat /\ Cardinality(B) \in Nat BY <1>4, FS_CardinalityType
<1>7. Cardinality(A \cup C) = Cardinality(A) + Cardinality(C) - Cardinality(A \cap C)
  BY <1>4, <1>5, FS_Union
<1>8. Cardinality(A \cap C) = 0
  <2>1. Cardinality({}) = 0 BY FS_EmptySet
  <2> QED BY <1>3, <2>1
<1>9. Cardinality(I) = Cardinality(A) + Cardinality(B)
  <2>1. Cardinality(I) = Cardinality(A \cup C) BY <1>2
  <2> QED BY <1>5, <1>6, <1>7, <1>8, <2>1
<1>10. Occurrences(e, w) = Cardinality(I) BY DEF Occurrences, I
<1>11. Occurrences(e, s) = Cardinality(A) /\ Occurrences(e, t) = Cardinality(B)
  BY <1>0 DEF Occurrences, A, B
<1>12. Occurrences(e, w) = Occurrences(e, s) + Occurrences(e, t) BY <1>9, <1>10, <1>11
<1> QED BY <1>12 DEF w

LEMMA OccursOne ==
  ASSUME NEW x, NEW e
  PROVE  Occurrences(e, <<>>) = 0 /\ Occurrences(e, <<x>>) = IF x = e THEN 1 ELSE 0
<1>1. Occurrences(e, <<>>) = 0
  <2>1. {i \in DOMAIN <<>> : <<>>[i] = e} = {} OBVIOUS
  <2> QED BY <2>1, FS_EmptySet DEF Occurrences
<1> DEFINE s == <<x>>
<1>2. DOMAIN s = {1} /\ s[1] = x OBVIOUS
<1>3. {i \in DOMAIN s : s[i] = e} = IF x = e THEN {1} ELSE {} BY <1>2
<1> HIDE DEF s
<1>4. Occurrences(e, s) = IF x = e THEN 1 ELSE 0
  BY <1>3, FS_EmptySet, FS_Singleton DEF Occurrences
<1> QED BY <1>1, <1>4 DEF s

LEMMA OccursAppend ==
  ASSUME NEW E, NEW s \in Seq(E), NEW x \in E, NEW e
  PROVE  Occurrences(e, Append(s, x)) = Occurrences(e, s) + IF x = e THEN 1 ELSE 0
<1> DEFINE t == <<x>>
<1>1. Append(s, x) = s \o t BY AppendIsConcat
<1>2. t \in Seq(E) OBVIOUS
<1>3. Occurrences(e, t) = IF x = e THEN 1 ELSE 0 BY OccursOne
<1> HIDE DEF t
<1>4. Occurrences(e, s \o t) = Occurrences(e, s) + Occurrences(e, t) BY <1>2, OccursConcat
<1> QED BY <1>1, <1>3, <1>4

(***************************************************************************)
(* The queue modes: one message at a time.                                 *)
(***************************************************************************)
LEMMA Drain ==
  ASSUME NEW E, NEW q \in Seq(E)
  PROVE  /\ Drained(q) \in Seq(E) /\ Rest(q) \in Seq(E) /\ q = Drained(q) \o Rest(q)
         /\ Drained(q) = <<>> <=> q = <<>>
<1>1. CASE q = <<>>
  <2>1. Drained(q) = <<>> /\ Rest(q) = <<>> BY <1>1 DEF Drained, Rest
  <2>2. q = <<>> \o <<>> BY <1>1
  <2>3. <<>> \in Seq(E) OBVIOUS
  <2> QED BY <1>1, <2>1, <2>2, <2>3
<1>2. CASE q # <<>>
  <2>1. /\ Head(q) \in E /\ Tail(q) \in Seq(E) /\ Len(Tail(q)) = Len(q) - 1
    BY <1>2, HeadTailProperties
  <2>2. Len(q) \in Nat \ {0} BY <1>2, EmptySeq
  <2> DEFINE h == <<q[1]>>
             r == SubSeq(q, 2, Len(q))
  <2>3. SubSeq(q, 1, Len(q)) = h \o r
    <3>1. 1 \in 1 .. Len(q) /\ Len(q) \in 1 .. Len(q) /\ 1 + 1 = 2 BY <2>2
    <3> QED BY <3>1, SubSeqRecursiveFirst
  <2>4. Tail(q) = r BY <1>2, TailIsSubSeq
  <2>5. Head(q) = q[1] BY <1>2
  <2>6. SubSeq(q, 1, Len(q)) = q BY SubSeqFull
  <2>7. Drained(q) = h /\ Rest(q) = r BY <1>2, <2>4, <2>5 DEF Drained, Rest
  <2>8. h \in Seq(E) /\ h # <<>> BY <2>1, <2>5
  <2>9. r \in Seq(E) BY <2>1, <2>4
  <2> HIDE DEF h, r
  <2> QED BY <1>2, <2>3, <2>6, <2>7, <2>8, <2>9
<1> QED BY <1>1, <1>2

(***************************************************************************)
(* The latest summary of a branch, and the conversation rebuilt from it.   *)
(***************************************************************************)
SummaryAt(c) == SelectLastInSeq(c, IsSummary)

LEMMA SummaryAtFacts ==
  ASSUME NEW E, NEW c \in Seq(E)
  PROVE  /\ SummaryAt(c) \in 0 .. Len(c)
         /\ SummaryAt(c) # 0 => IsSummary(c[SummaryAt(c)])
         /\ \A i \in SummaryAt(c) + 1 .. Len(c) : ~IsSummary(c[i])
<1> DEFINE I == {i \in 1 .. Len(c) : IsSummary(c[i])}
<1>0. Len(c) \in Nat OBVIOUS
<1>1. SummaryAt(c) = IF I # {} THEN Max(I) ELSE 0 BY DEF SummaryAt, SelectLastInSeq
<1>2. CASE I = {}
  <2>1. \A i \in 1 .. Len(c) : ~IsSummary(c[i]) BY <1>2
  <2> QED BY <1>0, <1>1, <1>2, <2>1
<1>3. CASE I # {}
  <2>1. I \subseteq 0 .. Len(c) BY <1>0
  <2>2. PICK m \in I : \A y \in I : y <= m BY <1>0, <1>3, <2>1, GreatestBelow
  <2>3. \A y \in I : m >= y BY <2>1, <2>2
  <2>4. \E x \in I : \A y \in I : x >= y BY <2>3
  <2>5. Max(I) \in I /\ \A y \in I : Max(I) >= y BY <2>4 DEF Max
  <2> DEFINE n == Max(I)
  <2>6. n \in 1 .. Len(c) /\ IsSummary(c[n]) BY <2>5
  <2>7. \A i \in 1 .. Len(c) : IsSummary(c[i]) => n >= i BY <2>5
  <2>8. SummaryAt(c) = n BY <1>1, <1>3
  <2> HIDE DEF n, I
  <2>9. \A i \in n + 1 .. Len(c) : ~IsSummary(c[i])
    <3> SUFFICES ASSUME NEW i \in n + 1 .. Len(c), IsSummary(c[i]) PROVE FALSE OBVIOUS
    <3>1. i \in 1 .. Len(c) /\ n \in Nat /\ ~(n >= i) BY <1>0, <2>6
    <3> QED BY <2>7, <3>1
  <2>10. n \in 0 .. Len(c) BY <1>0, <2>6
  <2> QED BY <2>6, <2>8, <2>9, <2>10
<1> QED BY <1>2, <1>3

LEMMA SummaryAtIs ==
  ASSUME NEW E, NEW c \in Seq(E), NEW n \in 0 .. Len(c), n # 0 => IsSummary(c[n]),
         \A i \in n + 1 .. Len(c) : ~IsSummary(c[i])
  PROVE  SummaryAt(c) = n
<1> DEFINE m == SummaryAt(c)
<1>1. /\ m \in 0 .. Len(c) /\ (m # 0 => IsSummary(c[m]))
      /\ \A i \in m + 1 .. Len(c) : ~IsSummary(c[i])
  BY SummaryAtFacts
<1> HIDE DEF m
<1>0. Len(c) \in Nat OBVIOUS
<1>2. ~(m < n)
  <2> SUFFICES ASSUME m < n PROVE FALSE OBVIOUS
  <2>1. n \in m + 1 .. Len(c) /\ n # 0 BY <1>0, <1>1
  <2> QED BY <1>1, <2>1
<1>3. ~(n < m)
  <2> SUFFICES ASSUME n < m PROVE FALSE OBVIOUS
  <2>1. m \in n + 1 .. Len(c) /\ m # 0 BY <1>0, <1>1
  <2> QED BY <1>1, <2>1
<1>4. m = n BY <1>0, <1>1, <1>2, <1>3
<1> QED BY <1>4 DEF m

(* Positions the summaries of a branch keep from.                          *)
KeepsEarlier(l) == \A i \in DOMAIN l : IsSummary(l[i]) => l[i].of \in 1 .. i - 1

LEMMA RebuildShape ==
  ASSUME NEW E, NEW l \in Seq(E), NEW n, n = SummaryAt(l)
  PROVE  Rebuild(l) = IF n = 0 THEN l
                      ELSE (<<l[n]>> \o SubSeq(l, l[n].of, n - 1)) \o SubSeq(l, n + 1, Len(l))
BY DEF Rebuild, SummaryAt

LEMMA RebuildIn ==
  ASSUME NEW E, NEW l \in Seq(E), KeepsEarlier(l)
  PROVE  Rebuild(l) \in Seq(E)
<1> DEFINE n == SummaryAt(l)
<1>0. Len(l) \in Nat /\ DOMAIN l = 1 .. Len(l) OBVIOUS
<1>1. n \in 0 .. Len(l) /\ (n # 0 => IsSummary(l[n])) BY SummaryAtFacts
<1>2. Rebuild(l) = IF n = 0 THEN l
                   ELSE (<<l[n]>> \o SubSeq(l, l[n].of, n - 1)) \o SubSeq(l, n + 1, Len(l))
  BY RebuildShape
<1> HIDE DEF n
<1>3. CASE n # 0
  <2>1. n \in 1 .. Len(l) /\ l[n] \in E /\ l[n].of \in 1 .. n - 1
    BY <1>0, <1>1, <1>3 DEF KeepsEarlier
  <2> DEFINE k == l[n].of
             a == <<l[n]>>
             b == SubSeq(l, k, n - 1)
             c == SubSeq(l, n + 1, Len(l))
  <2>2. a \in Seq(E) BY <2>1
  <2>3. b \in Seq(E)
    <3>1. k \in Int /\ n - 1 \in Int /\ \A i \in k .. n - 1 : l[i] \in E BY <1>0, <2>1
    <3> HIDE DEF k
    <3> QED BY <3>1, SubSeqProperties
  <2>4. c \in Seq(E)
    <3>1. n + 1 \in Int /\ Len(l) \in Int /\ \A i \in n + 1 .. Len(l) : l[i] \in E BY <1>0, <2>1
    <3> QED BY <3>1, SubSeqProperties
  <2>5. Rebuild(l) = (a \o b) \o c BY <1>2, <1>3
  <2> HIDE DEF a, b, c
  <2> QED BY <2>2, <2>3, <2>4, <2>5, ConcatProperties
<1> QED BY <1>2, <1>3

(* What is written behind a branch comes behind what is rebuilt from it.   *)
LEMMA RebuildGrows ==
  ASSUME NEW E, NEW l \in Seq(E), NEW msgs \in Seq(E), KeepsEarlier(l),
         \A i \in 1 .. Len(msgs) : ~IsSummary(msgs[i])
  PROVE  Rebuild(l \o msgs) = Rebuild(l) \o msgs
<1> DEFINE w == l \o msgs
           n == SummaryAt(l)
<1>0. Len(l) \in Nat /\ Len(msgs) \in Nat /\ DOMAIN l = 1 .. Len(l) OBVIOUS
<1>1. /\ w \in Seq(E) /\ Len(w) = Len(l) + Len(msgs)
      /\ \A i \in 1 .. Len(l) : w[i] = l[i]
      /\ \A i \in 1 .. Len(msgs) : w[Len(l) + i] = msgs[i]
  BY ConcatElements
<1>2. /\ n \in 0 .. Len(l) /\ (n # 0 => IsSummary(l[n]))
      /\ \A i \in n + 1 .. Len(l) : ~IsSummary(l[i])
  BY SummaryAtFacts
<1>3. Rebuild(l) = IF n = 0 THEN l
                   ELSE (<<l[n]>> \o SubSeq(l, l[n].of, n - 1)) \o SubSeq(l, n + 1, Len(l))
  BY RebuildShape
<1>4. w = l \o msgs OBVIOUS
<1> HIDE DEF n, w
<1>5. SummaryAt(w) = n
  <2>1. n \in 0 .. Len(w) BY <1>0, <1>1, <1>2
  <2>2. n # 0 => IsSummary(w[n]) BY <1>0, <1>1, <1>2
  <2>3. ASSUME NEW i \in n + 1 .. Len(w) PROVE ~IsSummary(w[i])
    <3>1. CASE i <= Len(l) BY <1>0, <1>1, <1>2, <3>1
    <3>2. CASE ~(i <= Len(l))
      <4>1. i - Len(l) \in 1 .. Len(msgs) /\ Len(l) + (i - Len(l)) = i BY <1>0, <1>1, <1>2, <3>2
      <4>2. w[i] = msgs[i - Len(l)] BY <1>1, <4>1
      <4> QED BY <4>1, <4>2
    <3> QED BY <3>1, <3>2
  <2> QED BY <1>1, <2>1, <2>2, <2>3, SummaryAtIs
<1>6. Rebuild(w) = IF n = 0 THEN w
                   ELSE (<<w[n]>> \o SubSeq(w, w[n].of, n - 1)) \o SubSeq(w, n + 1, Len(w))
  BY <1>1, <1>5, RebuildShape
<1>7. CASE n = 0 BY <1>3, <1>4, <1>6, <1>7
<1>8. CASE n # 0
  <2>1. n \in 1 .. Len(l) /\ l[n] \in E /\ l[n].of \in 1 .. n - 1 /\ w[n] = l[n]
    BY <1>0, <1>1, <1>2, <1>8 DEF KeepsEarlier
  <2> DEFINE k == l[n].of
             a == <<l[n]>>
             b == SubSeq(l, k, n - 1)
             c == SubSeq(l, n + 1, Len(l))
  <2>2. a \in Seq(E) BY <2>1
  <2>3. b \in Seq(E)
    <3>1. k \in Int /\ n - 1 \in Int /\ \A i \in k .. n - 1 : l[i] \in E BY <1>0, <2>1
    <3> HIDE DEF k
    <3> QED BY <3>1, SubSeqProperties
  <2>4. c \in Seq(E)
    <3>1. n + 1 \in Int /\ Len(l) \in Int /\ \A i \in n + 1 .. Len(l) : l[i] \in E BY <1>0, <2>1
    <3> QED BY <3>1, SubSeqProperties
  <2>5. SubSeq(w, k, n - 1) = b
    <3> DEFINE j == n - 1
    <3>1. k \in 1 .. Len(l) /\ j \in 1 .. Len(l) BY <1>0, <2>1
    <3> HIDE DEF k, j
    <3>2. SubSeq(w, k, j) = SubSeq(l, k, j) BY <3>1, PartOfConcat DEF w
    <3> QED BY <3>2 DEF j
  <2>6. SubSeq(w, n + 1, Len(w)) = c \o msgs
    <3> DEFINE i == n + 1
    <3>1. i \in 1 .. Len(l) + 1 BY <1>0, <2>1
    <3> HIDE DEF i
    <3>2. Extends(w, l, msgs) BY <1>4 DEF Extends
    <3>3. Extends(SubSeq(w, i, Len(w)), SubSeq(l, i, Len(l)), msgs) BY <3>1, <3>2, RestOfExtends
    <3> QED BY <3>3 DEF Extends, i
  <2>7. Rebuild(w) = (a \o b) \o (c \o msgs) BY <1>6, <1>8, <2>1, <2>5, <2>6
  <2>8. Rebuild(l) = (a \o b) \o c BY <1>3, <1>8
  <2> DEFINE d == a \o b
  <2> HIDE DEF a, b, c
  <2>9. d \in Seq(E) BY <2>2, <2>3, ConcatProperties
  <2>10. Rebuild(w) = d \o (c \o msgs) /\ Rebuild(l) = d \o c BY <2>7, <2>8
  <2> HIDE DEF d
  <2>11. d \o (c \o msgs) = (d \o c) \o msgs BY <2>4, <2>9, ConcatRegroup
  <2> QED BY <1>4, <2>10, <2>11
<1> QED BY <1>7, <1>8, <1>4

LEMMA RebuildCompacted ==
  ASSUME NEW E, NEW l \in Seq(E), NEW s \in E, IsSummary(s), s.of \in 1 .. Len(l)
  PROVE  Rebuild(Append(l, s)) = <<s>> \o SubSeq(l, s.of, Len(l))
<1> DEFINE w == Append(l, s)
           n == Len(l) + 1
<1>0. Len(l) \in Nat OBVIOUS
<1>1. /\ w \in Seq(E) /\ Len(w) = n /\ w[n] = s
      /\ \A i \in 1 .. Len(l) : w[i] = l[i]
  BY AppendElements
<1>2. w = l \o <<s>> BY AppendIsConcat
<1> HIDE DEF w
<1>3. SummaryAt(w) = n
  <2>1. n \in 0 .. Len(w) /\ n # 0 /\ \A i \in n + 1 .. Len(w) : ~IsSummary(w[i]) BY <1>0, <1>1
  <2> HIDE DEF n
  <2> QED BY <1>1, <2>1, SummaryAtIs
<1>4. n # 0 /\ n - 1 = Len(l) BY <1>0
<1> HIDE DEF n
<1>5. Rebuild(w) = (<<w[n]>> \o SubSeq(w, w[n].of, n - 1)) \o SubSeq(w, n + 1, Len(w))
  BY <1>1, <1>3, <1>4, RebuildShape
<1> DEFINE k == s.of
           a == <<s>>
           b == SubSeq(l, k, Len(l))
<1>6. SubSeq(w, k, Len(l)) = b
  <2>1. k \in 1 .. Len(l) /\ Len(l) \in 1 .. Len(l) BY <1>0
  <2> DEFINE t == <<s>>
  <2>2. t \in Seq(E) OBVIOUS
  <2> HIDE DEF k, t
  <2>3. SubSeq(l \o t, k, Len(l)) = b BY <2>1, <2>2, SubSeqOfConcat1
  <2> QED BY <1>2, <2>3 DEF t
<1>7. SubSeq(w, n + 1, Len(w)) = <<>>
  <2>1. Len(w) < n + 1 /\ n + 1 \in Int /\ Len(w) \in Int BY <1>0, <1>1, <1>4
  <2> QED BY <2>1, SubSeqEmpty
<1>8. a \in Seq(E) /\ b \in Seq(E)
  <2>1. k \in Int /\ Len(l) \in Int /\ \A i \in k .. Len(l) : l[i] \in E BY <1>0
  <2> HIDE DEF k
  <2> QED BY <2>1, SubSeqProperties
<1>9. Rebuild(w) = (a \o b) \o <<>> BY <1>1, <1>4, <1>5, <1>6, <1>7
<1> DEFINE d == a \o b
<1>10. d \in Seq(E)
  <2> HIDE DEF a, b
  <2> QED BY <1>8, ConcatProperties
<1>11. Rebuild(w) = d \o <<>> BY <1>9
<1>12. Rebuild(w) = d
  <2> HIDE DEF d
  <2> QED BY <1>10, <1>11, ConcatEmptySeq
<1> QED BY <1>12 DEF w

(***************************************************************************)
(* Results follow their calls: a relation between neighbours, once the     *)
(* summaries are left out.                                                 *)
(***************************************************************************)
Answers(e, d) == IF e.call = 1 THEN d.role = "assistant" /\ d.of = e.of
                 ELSE d = Result(e.of, e.call - 1)

Chained(c) == \A i \in 1 .. Len(c) : c[i].role = "result" => i > 1 /\ Answers(c[i], c[i - 1])

LEMMA ChainConcat ==
  ASSUME NEW E, NEW c \in Seq(E), NEW msgs \in Seq(E), Chained(c),
         \A i \in 1 .. Len(msgs) : msgs[i].role # "result"
  PROVE  Chained(c \o msgs)
<1> DEFINE w == c \o msgs
<1>0. Len(c) \in Nat /\ Len(msgs) \in Nat OBVIOUS
<1>1. /\ w \in Seq(E) /\ Len(w) = Len(c) + Len(msgs)
      /\ \A i \in 1 .. Len(c) : w[i] = c[i]
      /\ \A i \in 1 .. Len(msgs) : w[Len(c) + i] = msgs[i]
  BY ConcatElements
<1> HIDE DEF w
<1>2. \A i \in 1 .. Len(c) : c[i].role = "result" => i > 1 /\ Answers(c[i], c[i - 1])
  BY DEF Chained
<1>3. ASSUME NEW i \in 1 .. Len(w), w[i].role = "result"
      PROVE  i > 1 /\ Answers(w[i], w[i - 1])
  <2>1. CASE i \in 1 .. Len(c)
    <3>1. w[i] = c[i] BY <1>1, <2>1
    <3>2. i > 1 /\ Answers(c[i], c[i - 1]) BY <1>2, <1>3, <2>1, <3>1
    <3>3. i - 1 \in 1 .. Len(c) BY <1>0, <2>1, <3>2
    <3>4. w[i - 1] = c[i - 1] BY <1>1, <3>3
    <3> QED BY <3>1, <3>2, <3>4
  <2>2. CASE i \notin 1 .. Len(c)
    <3>1. i - Len(c) \in 1 .. Len(msgs) /\ Len(c) + (i - Len(c)) = i BY <1>0, <1>1, <2>2
    <3>2. w[i] = msgs[i - Len(c)] BY <1>1, <3>1
    <3> QED BY <1>3, <3>1, <3>2
  <2> QED BY <2>1, <2>2
<1>4. Chained(w) BY <1>3 DEF Chained
<1> QED BY <1>4 DEF w

LEMMA ChainAppend ==
  ASSUME NEW E, NEW c \in Seq(E), NEW e \in E, Chained(c),
         e.role = "result" => c # <<>> /\ Answers(e, Last(c))
  PROVE  Chained(Append(c, e))
<1> DEFINE w == Append(c, e)
<1>0. Len(c) \in Nat OBVIOUS
<1>1. /\ w \in Seq(E) /\ Len(w) = Len(c) + 1 /\ w[Len(c) + 1] = e
      /\ \A i \in 1 .. Len(c) : w[i] = c[i]
  BY AppendElements
<1> HIDE DEF w
<1>2. \A i \in 1 .. Len(c) : c[i].role = "result" => i > 1 /\ Answers(c[i], c[i - 1])
  BY DEF Chained
<1>3. ASSUME NEW i \in 1 .. Len(w), w[i].role = "result"
      PROVE  i > 1 /\ Answers(w[i], w[i - 1])
  <2>1. CASE i \in 1 .. Len(c)
    <3>1. w[i] = c[i] BY <1>1, <2>1
    <3>2. i > 1 /\ Answers(c[i], c[i - 1]) BY <1>2, <1>3, <2>1, <3>1
    <3>3. i - 1 \in 1 .. Len(c) BY <1>0, <2>1, <3>2
    <3>4. w[i - 1] = c[i - 1] BY <1>1, <3>3
    <3> QED BY <3>1, <3>2, <3>4
  <2>2. CASE i \notin 1 .. Len(c)
    <3>1. i = Len(c) + 1 BY <1>0, <1>1, <2>2
    <3>2. c # <<>> /\ Answers(e, Last(c)) BY <1>1, <1>3, <3>1
    <3>3. Len(c) \in 1 .. Len(c) /\ i - 1 = Len(c) /\ i > 1 BY <1>0, <3>1, <3>2, EmptySeq
    <3>4. w[i - 1] = Last(c) BY <1>1, <3>3 DEF Last
    <3> QED BY <1>1, <3>1, <3>2, <3>3, <3>4
  <2> QED BY <2>1, <2>2
<1>4. Chained(w) BY <1>3 DEF Chained
<1> QED BY <1>4 DEF w

(* The parts of a chain, if the second does not begin with a result.       *)
LEMMA ChainSplit ==
  ASSUME NEW E, NEW s \in Seq(E), NEW t \in Seq(E), Chained(s \o t)
  PROVE  Chained(s) /\ (t # <<>> /\ t[1].role # "result" => Chained(t))
<1> DEFINE w == s \o t
<1>0. Len(s) \in Nat /\ Len(t) \in Nat OBVIOUS
<1>1. /\ w \in Seq(E) /\ Len(w) = Len(s) + Len(t)
      /\ \A i \in 1 .. Len(s) : w[i] = s[i]
      /\ \A i \in 1 .. Len(t) : w[Len(s) + i] = t[i]
  BY ConcatElements
<1> HIDE DEF w
<1>2. \A i \in 1 .. Len(w) : w[i].role = "result" => i > 1 /\ Answers(w[i], w[i - 1])
  BY DEF Chained, w
<1>3. ASSUME NEW i \in 1 .. Len(s), s[i].role = "result"
      PROVE  i > 1 /\ Answers(s[i], s[i - 1])
  <2>1. i \in 1 .. Len(w) /\ w[i] = s[i] BY <1>0, <1>1
  <2>2. i > 1 /\ Answers(s[i], w[i - 1]) BY <1>2, <1>3, <2>1
  <2>3. i - 1 \in 1 .. Len(s) BY <1>0, <2>2
  <2> QED BY <1>1, <2>2, <2>3
<1>4. ASSUME t[1].role # "result", NEW i \in 1 .. Len(t), t[i].role = "result"
      PROVE  i > 1 /\ Answers(t[i], t[i - 1])
  <2>1. i # 1 BY <1>4
  <2>2. i > 1 /\ i - 1 \in 1 .. Len(t) BY <1>0, <2>1
  <2>3. Len(s) + i \in 1 .. Len(w) /\ (Len(s) + i) - 1 = Len(s) + (i - 1) BY <1>0, <1>1
  <2>4. w[Len(s) + i] = t[i] /\ w[Len(s) + (i - 1)] = t[i - 1] BY <1>1, <2>2
  <2>5. Answers(w[Len(s) + i], w[(Len(s) + i) - 1]) BY <1>2, <1>4, <2>3, <2>4
  <2>6. w[(Len(s) + i) - 1] = t[i - 1] BY <2>3, <2>4
  <2> QED BY <2>2, <2>4, <2>5, <2>6
<1> QED BY <1>3, <1>4 DEF Chained

(* A reply and the results that its calls get at once.                     *)
LEMMA ChainResults ==
  ASSUME NEW E, NEW c \in Seq(E), Chained(c), c # <<>>, NEW n, NEW k \in Nat,
         NEW results \in Seq(E), results = [i \in 1 .. k |-> Result(n, i)],
         Last(c).role = "assistant", Last(c).of = n
  PROVE  Chained(c \o results)
<1> DEFINE w == c \o results
<1>0. Len(c) \in Nat \ {0} BY EmptySeq
<1>1. Len(results) = k /\ \A i \in 1 .. k : results[i] = Result(n, i) OBVIOUS
<1>2. /\ w \in Seq(E) /\ Len(w) = Len(c) + k
      /\ \A i \in 1 .. Len(c) : w[i] = c[i]
      /\ \A i \in 1 .. k : w[Len(c) + i] = Result(n, i)
  BY <1>1, ConcatElements
<1> HIDE DEF w
<1>3. \A i \in 1 .. Len(c) : c[i].role = "result" => i > 1 /\ Answers(c[i], c[i - 1])
  BY DEF Chained
<1>4. ASSUME NEW i \in 1 .. Len(w), w[i].role = "result"
      PROVE  i > 1 /\ Answers(w[i], w[i - 1])
  <2>1. CASE i \in 1 .. Len(c)
    <3>1. w[i] = c[i] BY <1>2, <2>1
    <3>2. i > 1 /\ Answers(c[i], c[i - 1]) BY <1>3, <1>4, <2>1, <3>1
    <3>3. i - 1 \in 1 .. Len(c) BY <1>0, <2>1, <3>2
    <3>4. w[i - 1] = c[i - 1] BY <1>2, <3>3
    <3> QED BY <3>1, <3>2, <3>4
  <2>2. CASE i \notin 1 .. Len(c)
    <3> DEFINE j == i - Len(c)
    <3>1. j \in 1 .. k /\ i = Len(c) + j BY <1>0, <1>2, <2>2
    <3> HIDE DEF j
    <3>2. w[i] = Result(n, j) BY <1>2, <3>1
    <3>3. Result(n, j).of = n /\ Result(n, j).call = j BY DEF Result
    <3>4. CASE j = 1
      <4>1. i - 1 = Len(c) /\ Len(c) \in 1 .. Len(c) /\ i > 1 BY <1>0, <3>1, <3>4
      <4>2. w[i - 1] = Last(c) BY <1>2, <4>1 DEF Last
      <4> QED BY <3>2, <3>3, <3>4, <4>1, <4>2 DEF Answers
    <3>5. CASE j # 1
      <4>1. j - 1 \in 1 .. k /\ i - 1 = Len(c) + (j - 1) /\ i > 1 BY <1>0, <3>1, <3>5
      <4>2. w[i - 1] = Result(n, j - 1) BY <1>2, <4>1
      <4> QED BY <3>2, <3>3, <3>5, <4>1, <4>2 DEF Answers
    <3> QED BY <3>4, <3>5
  <2> QED BY <2>1, <2>2
<1>5. Chained(w) BY <1>4 DEF Chained
<1> QED BY <1>5 DEF w

-----------------------------------------------------------------------------
(***************************************************************************)
(* The two copies of the conversation.                                     *)
(***************************************************************************)
Plain == Messages \cup Commands

Conversation(c, l) ==
  /\ c \in Seq(Entries) /\ l \in Seq(Entries) /\ KeepsEarlier(l)
  /\ ResultsFollow(c) /\ ResultsFollow(l)
  /\ Kept(c) = Kept(Rebuild(l))

LEMMA Kinds ==
  /\ Plain \subseteq Spoken /\ Spoken \subseteq Entries /\ FailedReplies \subseteq Entries
  /\ Messages \subseteq Plain /\ Commands \subseteq Plain /\ Told \subseteq Messages
  /\ \A e \in Plain : e.role \in {"user", "custom", "bash"}
  /\ \A e \in Spoken : ~IsSummary(e)
  /\ \A e \in Entries : e \in Spoken <=> ~IsSummary(e)
  /\ \A e \in Entries : IsReply(e) /\ e.stop \in Failed => e \in FailedReplies
  /\ \A e \in Entries : IsReply(e) => e.stop \in Stops
<1>1. \A e \in Plain : e.role \in {"user", "custom", "bash"} BY DEF Plain, Messages, Told, Commands
<1>2. \A e \in Spoken : ~IsSummary(e)
  BY <1>1 DEF Spoken, IsSummary, Messages, Told, Commands
<1>3. FailedReplies \subseteq Spoken BY DEF FailedReplies, Spoken, Failed, Stops
<1>4. \A e \in Entries : IsReply(e) =>
        e \in [role : {"assistant"}, of : Nat, stop : Stops, calls : 0 .. MaxCalls]
  BY <1>1 DEF Entries, Spoken, IsReply, Messages, Told, Commands
<1>5. \A e \in Entries : IsReply(e) /\ e.stop \in Failed => e \in FailedReplies
  BY <1>4 DEF FailedReplies
<1>6. Spoken \subseteq Entries BY DEF Entries
<1>8. \A e \in Entries : e \in Spoken <=> ~IsSummary(e)
  BY <1>2 DEF Entries, IsSummary
<1>7. Plain \subseteq Spoken /\ Messages \subseteq Plain /\ Commands \subseteq Plain /\ Told \subseteq Messages
  BY DEF Plain, Spoken, Messages
<1> QED BY <1>1, <1>2, <1>3, <1>4, <1>5, <1>6, <1>7, <1>8

LEMMA SeqOfMore ==
  ASSUME NEW S, NEW T, S \subseteq T
  PROVE  Seq(S) \subseteq Seq(T)
BY SeqMonotonic

(* What was said: the conversation without its summaries.                  *)
Said(c) == Keep(c, Spoken)

LEMMA SaidFacts ==
  ASSUME NEW c \in Seq(Entries)
  PROVE  /\ Said(c) \in Seq(Entries)
         /\ ResultsFollow(c) <=> Chained(Said(c))
<1> DEFINE w == Said(c)
<1>1. w \in Seq(Entries) BY KeepFacts DEF Said
<1>2. ResultsFollow(c) <=>
        \A i \in DOMAIN w : w[i].role = "result" =>
          i > 1 /\ IF w[i].call = 1 THEN w[i - 1].role = "assistant" /\ w[i - 1].of = w[i].of
                   ELSE w[i - 1] = Result(w[i].of, w[i].call - 1)
  BY DEF ResultsFollow, Said
<1> HIDE DEF w
<1>3. DOMAIN w = 1 .. Len(w) BY <1>1
<1>4. ResultsFollow(c) <=> Chained(w) BY <1>2, <1>3 DEF Chained, Answers
<1> QED BY <1>1, <1>4 DEF w

LEMMA SaidConcat ==
  ASSUME NEW c \in Seq(Entries), NEW msgs \in Seq(Spoken)
  PROVE  Said(c \o msgs) = Said(c) \o msgs
<1>1. msgs \in Seq(Entries) BY Kinds, SeqOfMore
<1>2. Keep(c \o msgs, Spoken) = Keep(c, Spoken) \o Keep(msgs, Spoken) BY <1>1, KeepConcat
<1>3. Keep(msgs, Spoken) = msgs BY KeepAll
<1> QED BY <1>2, <1>3 DEF Said

LEMMA SaidAppend ==
  ASSUME NEW c \in Seq(Entries), NEW e \in Entries
  PROVE  Said(Append(c, e)) = IF IsSummary(e) THEN Said(c) ELSE Append(Said(c), e)
<1> DEFINE t == <<e>>
           w == Said(c)
<1>1. Append(c, e) = c \o t BY AppendIsConcat
<1>2. t \in Seq(Entries) OBVIOUS
<1>3. Keep(t, Spoken) = IF e \in Spoken THEN t ELSE <<>> BY KeepOne
<1>4. e \in Spoken <=> ~IsSummary(e) BY Kinds
<1>5. w \in Seq(Entries) BY SaidFacts
<1>6. w \o <<>> = w
  <2> HIDE DEF w
  <2> QED BY <1>5, ConcatEmptySeq
<1>7. w \o t = Append(w, e)
  <2> HIDE DEF w
  <2> QED BY <1>5, AppendIsConcat
<1> HIDE DEF t
<1>8. Keep(c \o t, Spoken) = Keep(c, Spoken) \o Keep(t, Spoken) BY <1>2, KeepConcat
<1>9. Said(Append(c, e)) = w \o Keep(t, Spoken) BY <1>1, <1>8 DEF Said
<1> HIDE DEF w
<1>10. Said(Append(c, e)) = IF IsSummary(e) THEN w ELSE Append(w, e)
  BY <1>3, <1>4, <1>6, <1>7, <1>9
<1> QED BY <1>10 DEF w

LEMMA SaidLast ==
  ASSUME NEW c \in Seq(Entries), c # <<>>, ~IsSummary(Last(c))
  PROVE  Said(c) # <<>> /\ Last(Said(c)) = Last(c)
<1> DEFINE f == Front(c)
           x == Last(c)
           w == Said(f)
<1>1. f \in Seq(Entries) /\ x \in Entries /\ c = f \o <<x>> BY FrontAndLast
<1>2. c = Append(f, x)
  <2> HIDE DEF f, x
  <2> QED BY <1>1, AppendIsConcat
<1> HIDE DEF f
<1>3. Said(c) = Append(w, x) BY <1>1, <1>2, SaidAppend
<1>4. w \in Seq(Entries) BY <1>1, SaidFacts
<1> HIDE DEF w, x
<1>5. Append(w, x) # <<>> /\ Last(Append(w, x)) = x
  <2>1. /\ Append(w, x) \in Seq(Entries) /\ Len(Append(w, x)) = Len(w) + 1
        /\ Append(w, x)[Len(w) + 1] = x
    BY <1>1, <1>4, AppendElements
  <2>2. Len(w) \in Nat BY <1>4
  <2>3. Len(Append(w, x)) # 0 BY <2>1, <2>2
  <2> QED BY <2>1, <2>3 DEF Last
<1> QED BY <1>3, <1>5 DEF x

LEMMA FollowConcat ==
  ASSUME NEW c \in Seq(Entries), NEW msgs \in Seq(Spoken), ResultsFollow(c),
         \A i \in 1 .. Len(msgs) : msgs[i].role # "result"
  PROVE  ResultsFollow(c \o msgs)
<1> DEFINE w == Said(c)
           cc == c \o msgs
<1>1. w \in Seq(Entries) /\ Chained(w) BY SaidFacts
<1>2. msgs \in Seq(Entries) BY Kinds, SeqOfMore
<1>3. Said(cc) = w \o msgs BY SaidConcat
<1>4. cc \in Seq(Entries) BY <1>2, ConcatProperties
<1> HIDE DEF w, cc
<1>5. Chained(w \o msgs) BY <1>1, <1>2, ChainConcat
<1>6. ResultsFollow(cc) BY <1>3, <1>4, <1>5, SaidFacts
<1> QED BY <1>6 DEF cc

LEMMA FollowAppend ==
  ASSUME NEW c \in Seq(Entries), NEW e \in Entries, ResultsFollow(c),
         e.role = "result" => Said(c) # <<>> /\ Answers(e, Last(Said(c)))
  PROVE  ResultsFollow(Append(c, e))
<1> DEFINE w == Said(c)
           cc == Append(c, e)
<1>1. w \in Seq(Entries) /\ Chained(w) BY SaidFacts
<1>2. Said(cc) = IF IsSummary(e) THEN w ELSE Append(w, e) BY SaidAppend
<1>3. cc \in Seq(Entries) OBVIOUS
<1>4. e.role = "result" => w # <<>> /\ Answers(e, Last(w)) OBVIOUS
<1> HIDE DEF w, cc
<1>5. Chained(Append(w, e)) BY <1>1, <1>4, ChainAppend
<1>6. ResultsFollow(cc) BY <1>1, <1>2, <1>3, <1>5, SaidFacts
<1> QED BY <1>6 DEF cc

LEMMA FollowFront ==
  ASSUME NEW c \in Seq(Entries), c # <<>>, ResultsFollow(c)
  PROVE  ResultsFollow(Front(c))
<1> DEFINE f == Front(c)
           t == <<Last(c)>>
           v == Said(f)
           u == Said(t)
<1>1. f \in Seq(Entries) /\ Last(c) \in Entries /\ c = f \o t BY FrontAndLast
<1>2. t \in Seq(Entries) BY <1>1
<1> HIDE DEF f, t
<1>3. Keep(f \o t, Spoken) = Keep(f, Spoken) \o Keep(t, Spoken) BY <1>1, <1>2, KeepConcat
<1>4. Said(c) = v \o u BY <1>1, <1>3 DEF Said
<1>5. v \in Seq(Entries) /\ u \in Seq(Entries) BY <1>1, <1>2, SaidFacts
<1>6. Chained(Said(c)) BY SaidFacts
<1> HIDE DEF v, u
<1>7. Chained(v) BY <1>4, <1>5, <1>6, ChainSplit
<1>8. ResultsFollow(f) BY <1>1, <1>7, SaidFacts DEF v
<1> QED BY <1>8 DEF f

(* Where a compaction may cut: before an entry that is no result.          *)
KeptAt(l, k) == k \in DOMAIN l /\ l[k].role \notin {"result", "summary"}

LEMMA FollowCut ==
  ASSUME NEW l \in Seq(Entries), NEW s \in Entries, NEW k, KeptAt(l, k), IsSummary(s),
         ResultsFollow(l)
  PROVE  LET r == <<s>> \o SubSeq(l, k, Len(l)) IN
         /\ ResultsFollow(r) /\ r # <<>> /\ Last(r) = Last(l) /\ l # <<>>
         /\ Said(r) # <<>> /\ Said(l) # <<>> /\ Last(Said(r)) = Last(Said(l))
<1> DEFINE a == <<s>>
           h == SubSeq(l, 1, k - 1)
           b == SubSeq(l, k, Len(l))
           r == a \o b
           v == Said(h)
           u == Said(b)
<1>0. k \in 1 .. Len(l) /\ Len(l) \in Nat /\ l[k] \in Entries /\ ~IsSummary(l[k])
      /\ l[k].role # "result"
  BY DEF KeptAt, IsSummary
<1>1. a \in Seq(Entries) /\ Len(a) = 1 OBVIOUS
<1>2. /\ b \in Seq(Entries) /\ Len(b) = Len(l) - k + 1
      /\ \A i \in 1 .. Len(l) - k + 1 : b[i] = l[k + i - 1]
  <2>1. k \in Int /\ Len(l) \in Int /\ \A i \in k .. Len(l) : l[i] \in Entries BY <1>0
  <2>2. k <= Len(l) BY <1>0
  <2> QED BY <2>1, <2>2, SubSeqProperties
<1>3. h \in Seq(Entries)
  <2> DEFINE j == k - 1
  <2>1. 1 \in Int /\ j \in Int /\ \A i \in 1 .. j : l[i] \in Entries BY <1>0
  <2> HIDE DEF j
  <2>2. SubSeq(l, 1, j) \in Seq(Entries) BY <2>1, SubSeqProperties
  <2> QED BY <2>2 DEF j
<1>4. l = h \o b
  <2> DEFINE j == k - 1
  <2>1. 1 \in 1 .. Len(l) + 1 /\ j \in 1 - 1 .. Len(l) /\ Len(l) \in j .. Len(l) /\ j + 1 = k BY <1>0
  <2> HIDE DEF j
  <2>2. SubSeq(l, 1, j) \o SubSeq(l, j + 1, Len(l)) = SubSeq(l, 1, Len(l))
    BY <2>1, ConcatAdjacentSubSeq
  <2>3. SubSeq(l, 1, Len(l)) = l BY SubSeqFull
  <2> QED BY <2>1, <2>2, <2>3 DEF j
<1>5. b = <<l[k]>> \o SubSeq(l, k + 1, Len(l))
  <2>1. Len(l) \in k .. Len(l) BY <1>0
  <2> QED BY <1>0, <2>1, SubSeqRecursiveFirst
<1>6. u # <<>> /\ u[1] = l[k]
  <2> DEFINE o == <<l[k]>>
             c == SubSeq(l, k + 1, Len(l))
             d == Said(c)
  <2>1. o \in Seq(Entries) /\ Len(o) = 1 /\ o[1] = l[k] BY <1>0
  <2>2. c \in Seq(Entries)
    <3>1. k + 1 \in Int /\ Len(l) \in Int /\ \A i \in k + 1 .. Len(l) : l[i] \in Entries BY <1>0
    <3> QED BY <3>1, SubSeqProperties
  <2>3. Said(o) = o
    <3>1. l[k] \in Spoken BY <1>0, Kinds
    <3> QED BY <3>1, KeepOne DEF Said
  <2> HIDE DEF o, c
  <2>4. Keep(o \o c, Spoken) = Keep(o, Spoken) \o Keep(c, Spoken) BY <2>1, <2>2, KeepConcat
  <2>5. u = o \o d BY <1>5, <2>3, <2>4 DEF Said, o, c
  <2>6. d \in Seq(Entries) BY <2>2, SaidFacts
  <2> HIDE DEF u, d
  <2>7. /\ o \o d \in Seq(Entries) /\ Len(o \o d) = Len(o) + Len(d)
        /\ \A i \in 1 .. Len(o) : (o \o d)[i] = o[i]
    BY <2>1, <2>6, ConcatElements
  <2>8. Len(d) \in Nat BY <2>6
  <2>9. 1 \in 1 .. Len(o) BY <2>1
  <2>10. Len(o \o d) # 0 BY <2>1, <2>7, <2>8
  <2> QED BY <2>1, <2>5, <2>7, <2>9, <2>10
<1> HIDE DEF h, b
<1>7. Said(l) = v \o u
  <2>1. Keep(h \o b, Spoken) = Keep(h, Spoken) \o Keep(b, Spoken) BY <1>2, <1>3, KeepConcat
  <2> QED BY <1>4, <2>1 DEF Said
<1>8. Said(r) = u
  <2>1. Keep(a \o b, Spoken) = Keep(a, Spoken) \o Keep(b, Spoken)
    <3> HIDE DEF a
    <3> QED BY <1>1, <1>2, KeepConcat
  <2>2. Keep(a, Spoken) = <<>>
    <3>1. s \notin Spoken BY Kinds
    <3> QED BY <3>1, KeepOne
  <2>3. Said(r) = <<>> \o u BY <2>1, <2>2 DEF Said
  <2>4. u \in Seq(Entries) BY <1>2, SaidFacts
  <2> HIDE DEF u, r
  <2> QED BY <2>3, <2>4, ConcatEmptySeq
<1>9. v \in Seq(Entries) /\ u \in Seq(Entries) BY <1>2, <1>3, SaidFacts
<1>10. Chained(Said(l)) BY SaidFacts
<1> HIDE DEF v
<1>11. Chained(u)
  <2> HIDE DEF u
  <2>1. u[1].role # "result" BY <1>0, <1>6
  <2> QED BY <1>6, <1>7, <1>9, <1>10, <2>1, ChainSplit
<1>12. r \in Seq(Entries) /\ ResultsFollow(r)
  <2>1. r \in Seq(Entries)
    <3> HIDE DEF a
    <3> QED BY <1>1, <1>2, ConcatProperties
  <2> HIDE DEF r
  <2> QED BY <1>8, <1>11, <2>1, SaidFacts
<1>13. Said(l) # <<>> /\ Last(Said(l)) = Last(u)
  <2> HIDE DEF u
  <2> QED BY <1>6, <1>7, <1>9, LastOfConcat
<1>14. r # <<>> /\ Last(r) = Last(b)
  <2>1. b # <<>>
    <3>1. Len(b) # 0 BY <1>0, <1>2
    <3> QED BY <3>1, EmptySeq
  <2> HIDE DEF a
  <2> QED BY <1>1, <1>2, <2>1, LastOfConcat
<1>15. l # <<>> /\ Last(l) = Last(b)
  <2>1. b # <<>>
    <3>1. Len(b) # 0 BY <1>0, <1>2
    <3> QED BY <3>1, EmptySeq
  <2> QED BY <1>2, <1>3, <1>4, <2>1, LastOfConcat
<1> QED BY <1>6, <1>8, <1>12, <1>13, <1>14, <1>15 DEF a, b

LEMMA KeepsEarlierGrows ==
  ASSUME NEW E, NEW l \in Seq(E), NEW msgs \in Seq(E), KeepsEarlier(l),
         \A i \in 1 .. Len(msgs) : ~IsSummary(msgs[i])
  PROVE  KeepsEarlier(l \o msgs)
<1> DEFINE w == l \o msgs
<1>0. Len(l) \in Nat /\ Len(msgs) \in Nat /\ DOMAIN l = 1 .. Len(l) OBVIOUS
<1>1. /\ w \in Seq(E) /\ Len(w) = Len(l) + Len(msgs)
      /\ \A i \in 1 .. Len(l) : w[i] = l[i]
      /\ \A i \in 1 .. Len(msgs) : w[Len(l) + i] = msgs[i]
  BY ConcatElements
<1> HIDE DEF w
<1>2. DOMAIN w = 1 .. Len(w) BY <1>1
<1>3. ASSUME NEW i \in 1 .. Len(w), IsSummary(w[i]) PROVE w[i].of \in 1 .. i - 1
  <2>1. CASE i \in 1 .. Len(l) BY <1>0, <1>1, <1>3, <2>1 DEF KeepsEarlier
  <2>2. CASE i \notin 1 .. Len(l)
    <3>1. i - Len(l) \in 1 .. Len(msgs) /\ Len(l) + (i - Len(l)) = i BY <1>0, <1>1, <2>2
    <3>2. w[i] = msgs[i - Len(l)] BY <1>1, <3>1
    <3> QED BY <1>3, <3>1, <3>2
  <2> QED BY <2>1, <2>2
<1>4. KeepsEarlier(w) BY <1>2, <1>3 DEF KeepsEarlier
<1> QED BY <1>4 DEF w

(* What is written to both copies leaves them in agreement.                *)
LEMMA BothGrow ==
  ASSUME NEW c, NEW l, Conversation(c, l), NEW msgs \in Seq(Spoken),
         ResultsFollow(c \o msgs), ResultsFollow(l \o msgs)
  PROVE  Conversation(c \o msgs, l \o msgs)
<1> DEFINE cc == c \o msgs
           ll == l \o msgs
           r == Rebuild(l)
           S == Entries \ FailedReplies
<1>1. c \in Seq(Entries) /\ l \in Seq(Entries) /\ KeepsEarlier(l) /\ Kept(c) = Kept(r)
  BY DEF Conversation
<1>2. msgs \in Seq(Entries) BY Kinds, SeqOfMore
<1>3. \A i \in 1 .. Len(msgs) : ~IsSummary(msgs[i]) BY Kinds
<1>4. cc \in Seq(Entries) /\ ll \in Seq(Entries) BY <1>1, <1>2, ConcatProperties
<1>5. KeepsEarlier(ll) BY <1>1, <1>2, <1>3, KeepsEarlierGrows
<1>6. Rebuild(ll) = r \o msgs BY <1>1, <1>2, <1>3, RebuildGrows
<1>7. r \in Seq(Entries) BY <1>1, RebuildIn
<1> HIDE DEF cc, ll, r, S
<1>8. Keep(c, S) = Keep(r, S) BY <1>1 DEF Kept, S
<1>9. Keep(c \o msgs, S) = Keep(c, S) \o Keep(msgs, S) BY <1>1, <1>2, KeepConcat
<1>10. Keep(r \o msgs, S) = Keep(r, S) \o Keep(msgs, S) BY <1>2, <1>7, KeepConcat
<1>11. Keep(cc, S) = Keep(Rebuild(ll), S) BY <1>6, <1>8, <1>9, <1>10 DEF cc
<1>12. Kept(cc) = Kept(Rebuild(ll)) BY <1>11 DEF Kept, S
<1>13. ResultsFollow(cc) /\ ResultsFollow(ll) BY DEF cc, ll
<1>14. Conversation(cc, ll) BY <1>4, <1>5, <1>12, <1>13 DEF Conversation
<1> QED BY <1>14 DEF cc, ll

LEMMA BothHear ==
  ASSUME NEW c, NEW l, Conversation(c, l), NEW msgs \in Seq(Plain)
  PROVE  Conversation(c \o msgs, l \o msgs)
<1>1. c \in Seq(Entries) /\ l \in Seq(Entries) /\ ResultsFollow(c) /\ ResultsFollow(l)
  BY DEF Conversation
<1>2. msgs \in Seq(Spoken) /\ msgs \in Seq(Entries) BY Kinds, SeqOfMore
<1>3. \A i \in 1 .. Len(msgs) : msgs[i].role # "result" BY Kinds
<1>4. ResultsFollow(c \o msgs) /\ ResultsFollow(l \o msgs) BY <1>1, <1>2, <1>3, FollowConcat
<1> QED BY <1>2, <1>4, BothGrow

(* A reply that failed may be dropped from what the model is shown.        *)
LEMMA ReplyDropped ==
  ASSUME NEW c, NEW l, Conversation(c, l), EndsInReply(c), Last(c).stop \in Failed
  PROVE  Conversation(Front(c), l)
<1> DEFINE f == Front(c)
           x == Last(c)
           S == Entries \ FailedReplies
<1>1. c \in Seq(Entries) /\ c # <<>> /\ IsReply(x) BY DEF Conversation, EndsInReply
<1>2. f \in Seq(Entries) /\ x \in Entries /\ c = f \o <<x>> BY <1>1, FrontAndLast
<1>3. ResultsFollow(f) BY <1>1, FollowFront DEF Conversation
<1>4. x \notin S BY <1>1, <1>2, Kinds
<1> HIDE DEF f, S
<1>5. Keep(c, S) = Keep(f, S)
  <2> DEFINE t == <<x>>
             g == Keep(f, S)
  <2>1. t \in Seq(Entries) BY <1>2
  <2>2. Keep(t, S) = <<>> BY <1>4, KeepOne
  <2>3. c = f \o t BY <1>2
  <2> HIDE DEF t
  <2>4. Keep(f \o t, S) = Keep(f, S) \o Keep(t, S) BY <1>2, <2>1, KeepConcat
  <2>5. Keep(c, S) = g \o <<>> BY <2>2, <2>3, <2>4
  <2>6. g \in Seq(Entries) BY <1>2, KeepFacts
  <2> HIDE DEF g
  <2>7. Keep(c, S) = g BY <2>5, <2>6, ConcatEmptySeq
  <2> QED BY <2>7 DEF g
<1>6. Kept(f) = Kept(c) BY <1>5 DEF Kept, S
<1>7. Conversation(f, l) BY <1>2, <1>3, <1>6 DEF Conversation
<1> QED BY <1>7 DEF f

(* The replies of a branch.                                                *)
RepliesIn(l) == Cardinality({i \in DOMAIN l : IsReply(l[i])})

LEMMA RepliesAppend ==
  ASSUME NEW E, NEW l \in Seq(E), NEW e \in E
  PROVE  /\ RepliesIn(l) \in Nat
         /\ RepliesIn(Append(l, e)) = RepliesIn(l) + IF IsReply(e) THEN 1 ELSE 0
<1> DEFINE w == Append(l, e)
           n == Len(l) + 1
           A == {i \in DOMAIN l : IsReply(l[i])}
           B == {i \in DOMAIN w : IsReply(w[i])}
<1>0. Len(l) \in Nat /\ DOMAIN l = 1 .. Len(l) OBVIOUS
<1>1. w \in Seq(E) /\ Len(w) = n /\ w[n] = e /\ \A i \in 1 .. Len(l) : w[i] = l[i]
  BY AppendElements
<1> HIDE DEF w
<1>2. DOMAIN w = (1 .. Len(l)) \cup {n} /\ n \notin 1 .. Len(l) BY <1>0, <1>1
<1>3. B = IF IsReply(e) THEN A \cup {n} ELSE A BY <1>0, <1>1, <1>2
<1>4. IsFiniteSet(A)
  <2>1. IsFiniteSet(1 .. Len(l)) BY <1>0, FS_Interval
  <2>2. A \subseteq 1 .. Len(l) BY <1>0
  <2> QED BY <2>1, <2>2, FS_Subset
<1>5. n \notin A BY <1>0
<1> HIDE DEF A, B, n
<1>6. Cardinality(A) \in Nat /\ Cardinality(A \cup {n}) = Cardinality(A) + 1
  BY <1>4, <1>5, FS_CardinalityType, FS_AddElement
<1>7. Cardinality(B) = Cardinality(A) + IF IsReply(e) THEN 1 ELSE 0
  <2>1. CASE IsReply(e)
    <3>1. B = A \cup {n} BY <1>3, <2>1
    <3> QED BY <1>6, <2>1, <3>1
  <2>2. CASE ~IsReply(e)
    <3>1. B = A BY <1>3, <2>2
    <3> QED BY <1>6, <2>2, <3>1
  <2> QED BY <2>1, <2>2
<1>8. RepliesIn(w) = Cardinality(B) /\ RepliesIn(l) = Cardinality(A) BY DEF RepliesIn, A, B
<1> QED BY <1>6, <1>7, <1>8 DEF w

(* A compaction rewrites what the model is shown; what was said last, and  *)
(* what both copies end in, is as it was.                                  *)
LEMMA CompactedAgrees ==
  ASSUME NEW c, NEW l, Conversation(c, l), NEW k, KeptAt(l, k)
  PROVE  LET entries == Append(l, Compacted(k))
             r == Rebuild(entries)
         IN /\ Conversation(r, entries) /\ ~EndsInReply(entries)
            /\ EndsInReply(r) => EndsInReply(l) /\ Last(r) = Last(l)
            /\ Said(r) # <<>> /\ Said(l) # <<>> /\ Last(Said(r)) = Last(Said(l))
            /\ Said(entries) = Said(l) /\ RepliesIn(entries) = RepliesIn(l)
<1> DEFINE s == Compacted(k)
           ll == Append(l, s)
           r == Rebuild(ll)
           rr == <<s>> \o SubSeq(l, k, Len(l))
<1>1. l \in Seq(Entries) /\ KeepsEarlier(l) /\ ResultsFollow(l) /\ k \in 1 .. Len(l) /\ Len(l) \in Nat
  BY DEF Conversation, KeptAt
<1>2. s \in Entries /\ IsSummary(s) /\ s.of = k /\ s.role # "result" /\ ~IsReply(s)
  BY <1>1 DEF Compacted, Entries, IsSummary, IsReply
<1>3. ll \in Seq(Entries) /\ Len(ll) = Len(l) + 1 /\ ll[Len(l) + 1] = s
      /\ \A i \in 1 .. Len(l) : ll[i] = l[i]
  BY <1>1, <1>2, AppendElements
<1>4. ResultsFollow(ll) BY <1>1, <1>2, FollowAppend
<1>5. r = rr BY <1>1, <1>2, RebuildCompacted
<1>6. /\ ResultsFollow(rr) /\ rr # <<>> /\ Last(rr) = Last(l) /\ l # <<>>
      /\ Said(rr) # <<>> /\ Said(l) # <<>> /\ Last(Said(rr)) = Last(Said(l))
  <2> HIDE DEF s
  <2> QED BY <1>1, <1>2, FollowCut
<1>10. Said(ll) = Said(l) BY <1>1, <1>2, SaidAppend
<1>11. RepliesIn(ll) = RepliesIn(l) BY <1>1, <1>2, RepliesAppend
<1> HIDE DEF s, ll, rr
<1>7. KeepsEarlier(ll)
  <2>1. DOMAIN ll = 1 .. Len(l) + 1 /\ DOMAIN l = 1 .. Len(l) BY <1>1, <1>3
  <2>2. ASSUME NEW i \in 1 .. Len(l) + 1, IsSummary(ll[i]) PROVE ll[i].of \in 1 .. i - 1
    <3>1. CASE i \in 1 .. Len(l) BY <1>1, <1>3, <2>1, <2>2, <3>1 DEF KeepsEarlier
    <3>2. CASE i = Len(l) + 1 BY <1>1, <1>2, <1>3, <3>2
    <3> QED BY <1>1, <3>1, <3>2
  <2> QED BY <2>1, <2>2 DEF KeepsEarlier
<1>8. r \in Seq(Entries) BY <1>3, <1>7, RebuildIn
<1>12. ~EndsInReply(ll)
  <2>1. Last(ll) = s BY <1>3 DEF Last
  <2> QED BY <1>2, <2>1 DEF EndsInReply
<1> HIDE DEF r
<1>9. Conversation(r, ll) BY <1>3, <1>4, <1>5, <1>6, <1>7, <1>8 DEF Conversation, r
<1>13. EndsInReply(r) => EndsInReply(l) /\ Last(r) = Last(l) BY <1>5, <1>6 DEF EndsInReply
<1> QED BY <1>5, <1>6, <1>9, <1>10, <1>11, <1>12, <1>13 DEF r, ll, s

(* What the outcome of a compaction may be.                                *)
LEMMA OutcomesAgree ==
  ASSUME Conversation(context, log), NEW k, KeptAt(log, k),
         NEW aborted \in BOOLEAN, NEW retry \in BOOLEAN, NEW o \in Outcomes(k, aborted, retry)
  PROVE  /\ Conversation(o.context, o.log)
         /\ o.log = log \/ o.log = Append(log, Compacted(k))
<1> DEFINE entries == Append(log, Compacted(k))
           r == Rebuild(entries)
<1>1. Conversation(r, entries) BY CompactedAgrees
<1>2. \/ o.context = context /\ o.log = log
      \/ o.log = entries /\ o.context = IF retry /\ EndsInReply(r) /\ Last(r).stop \in Failed
                                          THEN Front(r) ELSE r
  BY DEF Outcomes, Unchanged
<1> HIDE DEF r, entries
<1>3. EndsInReply(r) /\ Last(r).stop \in Failed => Conversation(Front(r), entries)
  BY <1>1, ReplyDropped
<1> QED BY <1>1, <1>2, <1>3 DEF entries

(* Without a retry nothing that was said is dropped.                       *)
LEMMA OutcomesSay ==
  ASSUME Conversation(context, log), NEW k, KeptAt(log, k),
         NEW aborted \in BOOLEAN, NEW o \in Outcomes(k, aborted, FALSE)
  PROVE  \/ o.context = context /\ o.log = log
         \/ /\ Said(o.context) # <<>> /\ Said(log) # <<>> /\ Said(o.log) = Said(log)
            /\ Last(Said(o.context)) = Last(Said(log))
            /\ RepliesIn(o.log) = RepliesIn(log) /\ ~EndsInReply(o.log)
            /\ EndsInReply(o.context) => EndsInReply(log) /\ Last(o.context) = Last(log)
<1> DEFINE entries == Append(log, Compacted(k))
           r == Rebuild(entries)
<1>1. \/ o.context = context /\ o.log = log
      \/ o.log = entries /\ o.context = r
  BY DEF Outcomes, Unchanged
<1>2. /\ ~EndsInReply(entries)
      /\ EndsInReply(r) => EndsInReply(log) /\ Last(r) = Last(log)
      /\ Said(r) # <<>> /\ Said(log) # <<>> /\ Last(Said(r)) = Last(Said(log))
      /\ Said(entries) = Said(log) /\ RepliesIn(entries) = RepliesIn(log)
  BY CompactedAgrees
<1> HIDE DEF r, entries
<1> QED BY <1>1, <1>2

(* The positions of a branch stay what they are as it grows.               *)
LEMMA PositionsStay ==
  ASSUME NEW E, NEW l \in Seq(E), NEW msgs \in Seq(E), NEW k \in DOMAIN l
  PROVE  k \in DOMAIN (l \o msgs) /\ (l \o msgs)[k] = l[k]
<1> DEFINE w == l \o msgs
<1>1. w \in Seq(E) /\ Len(w) = Len(l) + Len(msgs) /\ \A i \in 1 .. Len(l) : w[i] = l[i]
  BY ConcatElements
<1>2. Len(msgs) \in Nat /\ Len(l) \in Nat /\ k \in 1 .. Len(l) OBVIOUS
<1> HIDE DEF w
<1>3. k \in DOMAIN w /\ w[k] = l[k] BY <1>1, <1>2
<1> QED BY <1>3 DEF w

-----------------------------------------------------------------------------
(***************************************************************************)
(* The inductive invariant.                                                *)
(***************************************************************************)
Types ==
  /\ queue \in Queues /\ shown \subseteq Prompts /\ deferred \in Waitlists
  /\ run \in AgentRuns /\ session \in Sessions
  /\ compaction \in Compactions /\ manual \in Manuals
  /\ caller \in [Callers -> Fates]

(* What a phase of the run goes with.                                      *)
PhaseOK ==
  /\ run.phase = "none" <=> run.by = Nobody
  /\ session.active <=> run.phase # "none"
  /\ run.pending # <<>> => run.phase \in {"ready", "preparing", "compacting"}
  /\ run.phase = "compacting" <=> compaction.for = "turn"
  /\ run.phase = "after" <=> compaction.for = "after"
  /\ compaction.for = "none" => compaction = NoCompaction

(* Who is where: one prompt at a time in its preflight, and then no run;   *)
(* who waits for the session to be idle waits for something.               *)
Waiting(p) == caller[p] \in {"preflight", "compacting", "checked"}

CallersOK ==
  /\ \A p \in Prompts : Waiting(p) => run.phase = "none"
  /\ \A p, q \in Prompts : Waiting(p) /\ Waiting(q) => p = q
  /\ compaction.for = "prompt" <=> \E p \in Prompts : caller[p] = "compacting"
  /\ \A k \in {"abort", "compact"} : caller[k] = "waiting" => session.active \/ IsCompacting
  /\ \A k \in Prompts \cup Customs : caller[k] = "running" <=> run.by = k
  /\ \A k \in Prompts \cup Customs : caller[k] \notin {"waiting", "resumed"}

(* A compaction, the one that compact() makes too, cuts where it may: the  *)
(* branch may grow meanwhile.                                              *)
KeptOK ==
  /\ compaction.for # "none" => KeptAt(log, compaction.kept)
  /\ caller["compact"] = "compacting" => KeptAt(log, manual.kept)

(* Whatever is queued or displayed is the message of a caller that waits   *)
(* for it to be delivered.                                                 *)
QueuedOK ==
  /\ \A p \in shown : caller[p] = "queued"
  /\ \A e \in ToSet(queue.steer) \cup ToSet(queue.followUp) : caller[e.of] = "queued"

(* Between a reply and the results of its calls the last thing said is the *)
(* same in both copies: the reply, or the result of the call before.       *)
ToolsOK ==
  run.phase = "tools" =>
    /\ Said(context) # <<>> /\ Said(log) # <<>> /\ Last(Said(context)) = Last(Said(log))
    /\ run.calls > 0 /\ run.left <= run.calls
    /\ IF run.left = run.calls THEN IsReply(Last(Said(log))) /\ Last(Said(log)).of = ReplyCount
       ELSE Last(Said(log)) = Result(ReplyCount, run.calls - run.left)

(* A reply at the end of a turn is the one the run has just had, and what  *)
(* is retried is an error.                                                 *)
EndsIn(c, stop) == EndsInReply(c) => Last(c).stop = stop
EndsOK ==
  /\ run.phase \in {"turnEnd", "ended"} => EndsIn(context, run.stop) /\ EndsIn(log, run.stop)
  /\ run.phase = "retrying" => run.stop = "error"

Control == Types /\ PhaseOK /\ CallersOK

IInv ==
  /\ Control
  /\ Conversation(context, log) /\ KeptOK /\ ToolsOK /\ EndsOK
  /\ QueuedOK /\ DisplayAgrees /\ EveryMessageOnce

LEMMA InitIInv == Init => IInv
<1> SUFFICES ASSUME Init PROVE IInv OBVIOUS
<1>1. /\ context = <<>> /\ log = <<>> /\ shown = {}
      /\ queue = [steer |-> <<>>, followUp |-> <<>>]
      /\ deferred = [bash |-> <<>>, custom |-> <<>>]
      /\ run = NoRun /\ compaction = NoCompaction /\ manual = NoManual
      /\ session = [active |-> FALSE, retry |-> 0, recovered |-> FALSE]
      /\ caller = [k \in Callers |-> "idle"]
  BY DEF Init
<1>2. Types
  <2>1. queue \in Queues /\ deferred \in Waitlists BY <1>1 DEF Queues, Waitlists
  <2>2. run \in AgentRuns BY <1>1, BoundsAssumption DEF NoRun, AgentRuns, Phases, Stops
  <2>3. session \in Sessions BY <1>1, BoundsAssumption DEF Sessions
  <2>4. compaction \in Compactions /\ manual \in Manuals
    BY <1>1 DEF NoCompaction, Compactions, NoManual, Manuals
  <2>5. caller \in [Callers -> Fates] BY <1>1 DEF Fates
  <2> QED BY <1>1, <2>1, <2>2, <2>3, <2>4, <2>5 DEF Types
<1>3. run.phase = "none" /\ run.by = Nobody /\ run.pending = <<>> /\ compaction.for = "none"
      /\ ~session.active
  BY <1>1 DEF NoRun, NoCompaction
<1>4. PhaseOK BY <1>1, <1>3 DEF PhaseOK
<1>5. \A k \in Callers : caller[k] = "idle" BY <1>1
<1>6. /\ Prompts \cup Customs \subseteq Callers /\ "abort" \in Callers /\ "compact" \in Callers
  BY DEF Callers
<1>7. CallersOK
  BY <1>3, <1>5, <1>6, MessagesAssumption DEF CallersOK, Waiting, IsCompacting, ManualCompaction
<1>8. Conversation(context, log)
  <2>1. context \in Seq(Entries) /\ log \in Seq(Entries) BY <1>1
  <2>2. KeepsEarlier(log) /\ ResultsFollow(context) /\ ResultsFollow(log)
    <3>1. Said(<<>>) = <<>> BY KeepOne DEF Said
    <3>2. Chained(<<>>) BY DEF Chained
    <3>3. ResultsFollow(context) /\ ResultsFollow(log) BY <1>1, <2>1, <3>1, <3>2, SaidFacts
    <3>4. KeepsEarlier(log) BY <1>1 DEF KeepsEarlier
    <3> QED BY <3>3, <3>4
  <2>3. Rebuild(log) = log
    <3>1. SummaryAt(log) = 0
      <4>1. SummaryAt(log) \in 0 .. Len(log) BY <2>1, SummaryAtFacts
      <4>2. Len(log) = 0 BY <1>1
      <4> QED BY <4>1, <4>2
    <3> QED BY <2>1, <3>1, RebuildShape
  <2>4. Kept(context) = Kept(Rebuild(log)) BY <1>1, <2>3
  <2> QED BY <2>1, <2>2, <2>4 DEF Conversation
<1>9. KeptOK /\ ToolsOK /\ EndsOK BY <1>3, <1>5, <1>6 DEF KeptOK, ToolsOK, EndsOK
<1>10. ToSet(queue.steer) = {} /\ ToSet(queue.followUp) = {}
  BY <1>1, NoElements
<1>11. QueuedOK BY <1>1, <1>10 DEF QueuedOK
<1>12. DisplayAgrees
  <2>1. Texts(queue.steer) = {} /\ Texts(queue.followUp) = {}
    BY <1>1 DEF Texts
  <2> QED BY <1>1, <2>1 DEF DisplayAgrees
<1>13. \A e : Places(e) = 0
  <2> TAKE e
  <2>1. Occurrences(e, <<>>) = 0 BY OccursOne
  <2> QED BY <1>1, <1>3, <2>1 DEF Places
<1>14. EveryMessageOnce
  BY <1>5, <1>6, <1>13 DEF EveryMessageOnce, Sent
<1> QED BY <1>2, <1>4, <1>7, <1>8, <1>9, <1>11, <1>12, <1>14 DEF IInv, Control

-----------------------------------------------------------------------------
(***************************************************************************)
(* Parts of the state.                                                     *)
(***************************************************************************)
LEMMA Fields ==
  ASSUME Types
  PROVE  /\ queue.steer \in Seq(Messages) /\ queue.followUp \in Seq(Messages)
         /\ deferred.bash \in Seq(Commands) /\ deferred.custom \in Seq(Told)
         /\ run.pending \in Seq(Messages) /\ run.phase \in Phases /\ run.stop \in Stops
         /\ run.by \in Prompts \cup Customs \cup {Nobody} /\ run.aborted \in BOOLEAN
         /\ run.left \in 0 .. MaxCalls /\ run.calls \in 0 .. MaxCalls
         /\ session.active \in BOOLEAN /\ session.retry \in 0 .. MaxRetries
         /\ session.recovered \in BOOLEAN
BY DEF Types, Queues, Waitlists, AgentRuns, Sessions

LEMMA PlainFields ==
  ASSUME Types
  PROVE  /\ queue.steer \in Seq(Plain) /\ queue.followUp \in Seq(Plain)
         /\ deferred.bash \in Seq(Plain) /\ deferred.custom \in Seq(Plain)
         /\ run.pending \in Seq(Plain) /\ Flushed \in Seq(Plain)
<1>1. /\ queue.steer \in Seq(Plain) /\ queue.followUp \in Seq(Plain)
      /\ run.pending \in Seq(Plain) /\ deferred.bash \in Seq(Plain)
  BY Fields, Kinds, SeqOfMore
<1>2. deferred.custom \in Seq(Messages) BY Fields, Kinds, SeqOfMore
<1>3. deferred.custom \in Seq(Plain) BY <1>2, Kinds, SeqOfMore
<1>4. Flushed \in Seq(Plain) BY <1>1, <1>3, ConcatProperties DEF Flushed
<1> QED BY <1>1, <1>3, <1>4

LEMMA CallerFacts ==
  /\ Prompts \cup Customs \subseteq Callers /\ "abort" \in Callers /\ "compact" \in Callers
  /\ \A k \in Prompts \cup Customs : k # "abort" /\ k # "compact" /\ k # Nobody
  /\ \A p \in Prompts : p \notin Customs
  /\ \A k \in Callers : k \in Prompts \cup Customs \/ k = "abort" \/ k = "compact"
BY MessagesAssumption DEF Callers

(* What prompts and custom messages are in the sequences of messages.      *)
LEMMA Sorts ==
  /\ \A p \in Prompts : User(p) \in Messages /\ User(p) \in Plain /\ User(p).of = p
  /\ \A c \in Customs : Custom(c) \in Messages /\ Custom(c) \in Told /\ Custom(c) \in Plain /\ Custom(c).of = c
  /\ \A b \in Bashes : Bash(b) \in Commands /\ Bash(b) \in Plain
  /\ \A m \in Messages : \/ m.of \in Prompts /\ m = User(m.of) /\ m.role = "user"
                         \/ m.of \in Customs /\ m = Custom(m.of) /\ m.role = "custom"
  /\ \A p, c : User(p) # Custom(c)
  /\ \A p, b : User(p) # Bash(b)
  /\ \A c, b : Custom(c) # Bash(b)
  /\ \A p, q : User(p) = User(q) => p = q
  /\ \A c, d : Custom(c) = Custom(d) => c = d
<1>1. \A p, c : User(p).role = "user" /\ Custom(c).role = "custom" /\ Bash(c).role = "bash"
  BY DEF User, Custom, Bash
<1>2. \A p, c : User(p).of = p /\ Custom(c).of = c BY DEF User, Custom
<1>3. \A p \in Prompts : User(p) \in [role : {"user"}, of : Prompts] BY DEF User
<1>4. \A c \in Customs : Custom(c) \in Told BY DEF Custom, Told
<1>5. \A b \in Bashes : Bash(b) \in Commands BY DEF Bash, Commands
<1>6. \A m \in [role : {"user"}, of : Prompts] : m.of \in Prompts /\ m = User(m.of) /\ m.role = "user"
  BY DEF User
<1>7. \A m \in Told : m.of \in Customs /\ m = Custom(m.of) /\ m.role = "custom"
  BY DEF Custom, Told
<1>8. \A m \in Messages : m \in [role : {"user"}, of : Prompts] \/ m \in Told BY DEF Messages
<1>9. \A p \in Prompts : User(p) \in Messages /\ User(p) \in Plain BY <1>3 DEF Messages, Plain
<1>10. \A c \in Customs : Custom(c) \in Messages /\ Custom(c) \in Plain BY <1>4 DEF Messages, Plain
<1>11. \A b \in Bashes : Bash(b) \in Plain BY <1>5 DEF Plain
<1>12. /\ \A p, c : User(p) # Custom(c)
       /\ \A p, b : User(p) # Bash(b)
       /\ \A c, b : Custom(c) # Bash(b)
  <2>1. \A p, c : User(p) # Custom(c) BY DEF User, Custom
  <2>2. \A p, b : User(p) # Bash(b) BY DEF User, Bash
  <2>3. \A c, b : Custom(c) # Bash(b) BY DEF Custom, Bash
  <2> QED BY <2>1, <2>2, <2>3
<1>13. \A p, q : User(p) = User(q) => p = q BY <1>2
<1>14. \A c, d : Custom(c) = Custom(d) => c = d BY <1>2
<1> QED BY <1>2, <1>4, <1>5, <1>6, <1>7, <1>8, <1>9, <1>10, <1>11, <1>12, <1>13, <1>14

LEMMA TextsFacts ==
  ASSUME NEW s \in Seq(Messages)
  PROVE  /\ Texts(s) \subseteq Prompts
         /\ \A p : p \in Texts(s) <=> p \in Prompts /\ User(p) \in ToSet(s)
<1>1. DOMAIN s = 1 .. Len(s) /\ \A i \in 1 .. Len(s) : s[i] \in Messages OBVIOUS
<1>2. ASSUME NEW p \in Texts(s) PROVE p \in Prompts /\ User(p) \in ToSet(s)
  <2>1. PICK i \in 1 .. Len(s) : s[i].role = "user" /\ p = s[i].of BY <1>1 DEF Texts
  <2>2. p \in Prompts /\ s[i] = User(p) BY <1>1, <2>1, Sorts
  <2> QED BY <2>2, ElementsAre
<1>3. ASSUME NEW p \in Prompts, User(p) \in ToSet(s) PROVE p \in Texts(s)
  <2>1. PICK i \in 1 .. Len(s) : s[i] = User(p) BY <1>3, ElementsAre
  <2>2. s[i].role = "user" /\ s[i].of = p BY <2>1 DEF User
  <2> QED BY <1>1, <2>2 DEF Texts
<1> QED BY <1>2, <1>3

LEMMA TextsSplit ==
  ASSUME NEW s \in Seq(Messages), NEW t \in Seq(Messages), NEW w, Extends(w, s, t)
  PROVE  /\ Texts(w) = Texts(s) \cup Texts(t) /\ ToSet(w) = ToSet(s) \cup ToSet(t)
         /\ w \in Seq(Messages)
<1> DEFINE v == s \o t
<1>1. v \in Seq(Messages) /\ ToSet(v) = ToSet(s) \cup ToSet(t) BY ConcatElements
<1>2. w = v BY DEF Extends
<1> HIDE DEF v
<1>3. w \in Seq(Messages) /\ ToSet(w) = ToSet(s) \cup ToSet(t) BY <1>1, <1>2
<1>4. \A p : p \in Texts(w) <=> p \in Texts(s) \/ p \in Texts(t) BY <1>3, TextsFacts
<1> QED BY <1>3, <1>4

LEMMA TextsSmall ==
  /\ Texts(<<>>) = {}
  /\ \A p \in Prompts : Texts(<<User(p)>>) = {p}
  /\ \A c \in Customs : Texts(<<Custom(c)>>) = {}
<1>1. Texts(<<>>) = {} BY DEF Texts
<1>2. ASSUME NEW p \in Prompts PROVE Texts(<<User(p)>>) = {p}
  <2> DEFINE s == <<User(p)>>
  <2>1. DOMAIN s = {1} /\ s[1].role = "user" /\ s[1].of = p BY DEF User
  <2> HIDE DEF s
  <2>2. Texts(s) = {p} BY <2>1 DEF Texts
  <2> QED BY <2>2 DEF s
<1>3. ASSUME NEW c \in Customs PROVE Texts(<<Custom(c)>>) = {}
  <2> DEFINE s == <<Custom(c)>>
  <2>1. DOMAIN s = {1} /\ s[1].role = "custom" BY DEF Custom
  <2> HIDE DEF s
  <2>2. Texts(s) = {} BY <2>1 DEF Texts
  <2> QED BY <2>2 DEF s
<1> QED BY <1>1, <1>2, <1>3

LEMMA PollFacts ==
  ASSUME Types, NEW q \in {"steer", "followUp"}, Poll(q)
  PROVE  /\ queue' \in Queues /\ queue[q] \in Seq(Messages)
         /\ Drained(queue[q]) \in Seq(Messages) /\ Rest(queue[q]) \in Seq(Messages)
         /\ Extends(queue[q], Drained(queue[q]), Rest(queue[q]))
         /\ Drained(queue[q]) = <<>> <=> queue[q] = <<>>
         /\ \/ q = "steer" /\ queue'.steer = Rest(queue[q]) /\ queue'.followUp = queue.followUp
            \/ q = "followUp" /\ queue'.followUp = Rest(queue[q]) /\ queue'.steer = queue.steer
<1>1. queue.steer \in Seq(Messages) /\ queue.followUp \in Seq(Messages) BY Fields
<1>2. queue \in [steer : Seq(Messages), followUp : Seq(Messages)] BY DEF Types, Queues
<1>3. queue[q] \in Seq(Messages) BY <1>1
<1> DEFINE r == Rest(queue[q])
           d == Drained(queue[q])
<1>4. r \in Seq(Messages) /\ d \in Seq(Messages) /\ queue[q] = d \o r /\ (d = <<>> <=> queue[q] = <<>>)
  BY <1>3, Drain
<1>5. queue' = [queue EXCEPT ![q] = r] BY DEF Poll
<1> HIDE DEF r, d
<1>6. CASE q = "steer" BY <1>1, <1>2, <1>3, <1>4, <1>5, <1>6 DEF Queues, Extends, r, d
<1>7. CASE q = "followUp" BY <1>1, <1>2, <1>3, <1>4, <1>5, <1>7 DEF Queues, Extends, r, d
<1> QED BY <1>6, <1>7

(***************************************************************************)
(* Where a message is, and what a step must say to keep it there.          *)
(***************************************************************************)
LEMMA PlacesFacts ==
  ASSUME Types, log \in Seq(Entries), NEW e
  PROVE  /\ Occurrences(e, log) \in Nat /\ Occurrences(e, queue.steer) \in Nat
         /\ Occurrences(e, queue.followUp) \in Nat /\ Occurrences(e, run.pending) \in Nat
         /\ Occurrences(e, deferred.bash) \in Nat /\ Occurrences(e, deferred.custom) \in Nat
         /\ Places(e) \in Nat
         /\ Places(e) = Occurrences(e, log) + Occurrences(e, queue.steer)
              + Occurrences(e, queue.followUp) + Occurrences(e, run.pending)
              + Occurrences(e, deferred.bash) + Occurrences(e, deferred.custom)
<1>1. /\ Occurrences(e, queue.steer) \in Nat /\ Occurrences(e, queue.followUp) \in Nat
      /\ Occurrences(e, run.pending) \in Nat /\ Occurrences(e, deferred.bash) \in Nat
      /\ Occurrences(e, deferred.custom) \in Nat
  BY PlainFields, OccursFacts
<1>2. Occurrences(e, log) \in Nat BY OccursFacts
<1>3. Places(e) = Occurrences(e, log) + Occurrences(e, queue.steer)
              + Occurrences(e, queue.followUp) + Occurrences(e, run.pending)
              + Occurrences(e, deferred.bash) + Occurrences(e, deferred.custom)
  BY DEF Places
<1> QED BY <1>1, <1>2, <1>3

LEMMA NowhereYet ==
  ASSUME Types, log \in Seq(Entries), NEW e
  PROVE  Places(e) = 0 <=> e \notin Everywhere
<1>1. /\ Occurrences(e, queue.steer) = 0 <=> e \notin ToSet(queue.steer)
      /\ Occurrences(e, queue.followUp) = 0 <=> e \notin ToSet(queue.followUp)
      /\ Occurrences(e, run.pending) = 0 <=> e \notin ToSet(run.pending)
      /\ Occurrences(e, deferred.bash) = 0 <=> e \notin ToSet(deferred.bash)
      /\ Occurrences(e, deferred.custom) = 0 <=> e \notin ToSet(deferred.custom)
  BY PlainFields, OccursFacts
<1>2. Occurrences(e, log) = 0 <=> e \notin ToSet(log) BY OccursFacts
<1>3. Places(e) = 0 <=> /\ Occurrences(e, log) = 0 /\ Occurrences(e, queue.steer) = 0
                        /\ Occurrences(e, queue.followUp) = 0 /\ Occurrences(e, run.pending) = 0
                        /\ Occurrences(e, deferred.bash) = 0 /\ Occurrences(e, deferred.custom) = 0
  BY PlacesFacts
<1> QED BY <1>1, <1>2, <1>3 DEF Everywhere

(* A caller's message is where it was if the caller's fate is of the same  *)
(* kind as it was.                                                         *)
Alike(a, b) == (a \in Sent <=> b \in Sent) /\ (a = "returned" <=> b = "returned")

LEMMA FrameOnce ==
  ASSUME EveryMessageOnce, \A e \in Plain : Places(e)' = Places(e),
         \A k \in Prompts \cup Customs : Alike(caller[k], caller'[k])
  PROVE  EveryMessageOnce'
<1>1. /\ \A p \in Prompts : Places(User(p))' = Places(User(p))
      /\ \A c \in Customs : Places(Custom(c))' = Places(Custom(c))
      /\ \A b \in Bashes : Places(Bash(b))' = Places(Bash(b))
  BY Sorts
<1>2. \A k \in Prompts \cup Customs : /\ (caller'[k] \in Sent <=> caller[k] \in Sent)
                                      /\ (caller'[k] = "returned" <=> caller[k] = "returned")
  BY DEF Alike
<1>3. ASSUME NEW p \in Prompts
      PROVE  /\ Places(User(p))' <= 1
             /\ caller'[p] \in Sent => Places(User(p))' = 1
             /\ caller'[p] \notin Sent \cup {"returned"} => Places(User(p))' = 0
  BY <1>1, <1>2 DEF EveryMessageOnce
<1>4. ASSUME NEW c \in Customs
      PROVE  Places(Custom(c))' <= 1 /\ (caller'[c] \in Sent => Places(Custom(c))' = 1)
  BY <1>1, <1>2 DEF EveryMessageOnce
<1>5. ASSUME NEW b \in Bashes PROVE Places(Bash(b))' <= 1
  BY <1>1 DEF EveryMessageOnce
<1> QED BY <1>3, <1>4, <1>5 DEF EveryMessageOnce

LEMMA FrameQueued ==
  ASSUME Types, QueuedOK, UNCHANGED <<queue, shown>>,
         \A k \in Prompts \cup Customs : caller[k] = "queued" => caller'[k] = "queued"
  PROVE  QueuedOK'
<1>1. \A e \in ToSet(queue.steer) \cup ToSet(queue.followUp) : e \in Messages
  BY Fields, ElementsAre
<1>2. \A e \in ToSet(queue.steer) \cup ToSet(queue.followUp) : e.of \in Prompts \cup Customs
  BY <1>1, Sorts
<1>3. shown \subseteq Prompts BY DEF Types
<1> QED BY <1>2, <1>3 DEF QueuedOK

(* A step of the callers alone.                                            *)
LEMMA FrameMessages ==
  ASSUME IInv, UNCHANGED <<context, log, queue, shown, deferred>>, run'.pending = run.pending,
         \A k \in Prompts \cup Customs : /\ caller[k] = "queued" => caller'[k] = "queued"
                                         /\ Alike(caller[k], caller'[k])
  PROVE  Conversation(context, log)' /\ QueuedOK' /\ DisplayAgrees' /\ EveryMessageOnce'
<1>1. Conversation(context, log)' BY DEF IInv
<1>2. QueuedOK' BY FrameQueued DEF IInv, Control
<1>3. DisplayAgrees' BY DEF IInv, DisplayAgrees
<1>4. \A e \in Plain : Places(e)' = Places(e) BY DEF Places
<1>5. EveryMessageOnce' BY <1>4, FrameOnce DEF IInv
<1> QED BY <1>1, <1>2, <1>3, <1>5

(* The run goes on as it was, and so does what it wrote last.              *)
LEMMA FrameRun ==
  ASSUME IInv, UNCHANGED <<context, log>>, run'.phase = run.phase, run'.stop = run.stop,
         run'.left = run.left, run'.calls = run.calls
  PROVE  ToolsOK' /\ EndsOK'
<1>1. ReplyCount' = ReplyCount BY DEF ReplyCount
<1> QED BY <1>1 DEF IInv, ToolsOK, EndsOK

LEMMA FrameKept ==
  ASSUME KeptOK, UNCHANGED log, compaction'.kept = compaction.kept,
         compaction'.for \in {"none", compaction.for}, manual'.kept = manual.kept,
         caller'["compact"] = "compacting" => caller["compact"] = "compacting"
  PROVE  KeptOK'
BY DEF KeptOK

LEMMA NotCompacting ==
  ASSUME compaction = NoCompaction
  PROVE  compaction.for = "none" /\ (IsCompacting <=> ManualCompaction)
BY DEF NoCompaction, IsCompacting

-----------------------------------------------------------------------------
(***************************************************************************)
(* Calls that leave the conversation alone.                                *)
(***************************************************************************)
LEMMA PreflightFailsStep ==
  ASSUME IInv, NEW p \in Prompts, PreflightFails(p)
  PROVE  IInv'
<1>1. /\ caller[p] = "preflight" /\ caller' = [caller EXCEPT ![p] = "failed"]
      /\ UNCHANGED <<context, log, queue, shown, deferred, run, session, compaction, manual>>
  BY DEF PreflightFails
<1>2. caller \in [Callers -> Fates] /\ p \in Callers BY CallerFacts DEF IInv, Control, Types
<1>3. \A k \in Callers : caller'[k] = IF k = p THEN "failed" ELSE caller[k] BY <1>1, <1>2
<1>4. caller'["abort"] = caller["abort"] /\ caller'["compact"] = caller["compact"]
  BY <1>3, CallerFacts
<1>5. \A k \in Prompts \cup Customs : caller'[k] = IF k = p THEN "failed" ELSE caller[k]
  BY <1>3, CallerFacts
<1>6. Types' BY <1>1, <1>2 DEF IInv, Control, Types, Fates
<1>7. PhaseOK' BY <1>1 DEF IInv, Control, PhaseOK
<1>8. CallersOK'
  BY <1>1, <1>4, <1>5 DEF IInv, Control, CallersOK, Waiting, IsCompacting, ManualCompaction
<1>9. \A k \in Prompts \cup Customs : /\ caller[k] = "queued" => caller'[k] = "queued"
                                      /\ Alike(caller[k], caller'[k])
  BY <1>1, <1>5 DEF Alike, Sent
<1>10. Conversation(context, log)' /\ QueuedOK' /\ DisplayAgrees' /\ EveryMessageOnce'
  BY <1>1, <1>9, FrameMessages
<1>11. ToolsOK' /\ EndsOK' /\ KeptOK' BY <1>1, <1>4, FrameRun, FrameKept DEF IInv
<1> QED BY <1>6, <1>7, <1>8, <1>10, <1>11 DEF IInv, Control

LEMMA SignalledFacts ==
  ASSUME Types, PhaseOK, Signalled
  PROVE  /\ run' \in AgentRuns /\ run'.phase = run.phase /\ run'.by = run.by
         /\ run'.pending = run.pending /\ run'.stop = run.stop
         /\ run'.left = run.left /\ run'.calls = run.calls
         /\ compaction' \in Compactions /\ compaction'.for = compaction.for
         /\ compaction'.kept = compaction.kept
         /\ compaction'.for = "none" => compaction' = NoCompaction
         /\ manual' \in Manuals /\ manual'.kept = manual.kept
<1>1. run' = [run EXCEPT !.aborted = run.aborted \/ InAgentRun \/ run.phase = "retrying"]
  BY DEF Signalled
<1>2. compaction' = [compaction EXCEPT !.aborted = compaction.for # "none"] BY DEF Signalled
<1>3. run \in AgentRuns /\ compaction \in Compactions BY DEF Types
<1> DEFINE a == run.aborted \/ InAgentRun \/ run.phase = "retrying"
           b == compaction.for # "none"
<1>4. a \in BOOLEAN /\ b \in BOOLEAN BY <1>3 DEF AgentRuns, InAgentRun
<1>5. run' = [run EXCEPT !.aborted = a] /\ compaction' = [compaction EXCEPT !.aborted = b] BY <1>1, <1>2
<1>6. compaction.for = "none" => compaction = NoCompaction /\ b = FALSE
  BY DEF PhaseOK
<1> HIDE DEF a, b
<1>7. /\ run' \in AgentRuns /\ run'.phase = run.phase /\ run'.by = run.by
      /\ run'.pending = run.pending /\ run'.stop = run.stop
      /\ run'.left = run.left /\ run'.calls = run.calls
  BY <1>3, <1>4, <1>5 DEF AgentRuns
<1>8. /\ compaction' \in Compactions /\ compaction'.for = compaction.for
      /\ compaction'.kept = compaction.kept
  BY <1>3, <1>4, <1>5 DEF Compactions
<1>9. compaction.for = "none" => compaction' = NoCompaction
  <2> SUFFICES ASSUME compaction.for = "none" PROVE compaction' = NoCompaction OBVIOUS
  <2>1. compaction' = [NoCompaction EXCEPT !.aborted = FALSE] BY <1>5, <1>6
  <2>2. NoCompaction \in Compactions /\ NoCompaction.aborted = FALSE
    BY DEF NoCompaction, Compactions
  <2>3. \A r \in Compactions : r.aborted = FALSE => [r EXCEPT !.aborted = FALSE] = r
    BY DEF Compactions
  <2> QED BY <2>1, <2>2, <2>3
<1>10. manual' \in Manuals /\ manual'.kept = manual.kept
  <2>1. manual \in Manuals /\ ManualCompaction \in BOOLEAN /\ manual' = [manual EXCEPT !.aborted = ManualCompaction]
    BY DEF Types, Signalled, ManualCompaction
  <2> QED BY <2>1 DEF Manuals
<1> QED BY <1>7, <1>8, <1>9, <1>10

LEMMA KeptFromFacts ==
  ASSUME Conversation(context, log), NEW k \in KeptFrom
  PROVE  KeptAt(log, k) /\ k \in Nat
<1> DEFINE at == SummaryAt(log)
           start == IF at = 0 THEN 1 ELSE log[at].of
<1>1. log \in Seq(Entries) /\ KeepsEarlier(log) BY DEF Conversation
<1>2. at \in 0 .. Len(log) /\ (at # 0 => IsSummary(log[at])) BY <1>1, SummaryAtFacts
<1>3. k \in start + 1 .. Len(log) /\ log[k].role \notin {"result", "summary"}
  BY DEF KeptFrom, SummaryAt
<1> HIDE DEF at
<1>4. Len(log) \in Nat /\ DOMAIN log = 1 .. Len(log) BY <1>1
<1>5. start \in Nat \ {0}
  <2>1. CASE at = 0 BY <2>1
  <2>2. CASE at # 0
    <3>1. at \in 1 .. Len(log) /\ IsSummary(log[at]) BY <1>2, <1>4, <2>2
    <3>2. log[at].of \in 1 .. at - 1 BY <1>1, <1>4, <3>1 DEF KeepsEarlier
    <3> QED BY <1>4, <2>2, <3>1, <3>2
  <2> QED BY <2>1, <2>2
<1> HIDE DEF start
<1>6. k \in 1 .. Len(log) /\ k \in Nat BY <1>3, <1>4, <1>5
<1> QED BY <1>3, <1>4, <1>6 DEF KeptAt

LEMMA StartsFacts ==
  ASSUME IInv, UNCHANGED <<log, manual>>,
         caller'["compact"] = "compacting" => caller["compact"] = "compacting",
         NEW for \in {"prompt", "turn", "after"}, NEW retry \in BOOLEAN,
         StartsCompaction(for, retry)
  PROVE  /\ compaction.for = "none" /\ compaction' \in Compactions /\ compaction'.for = for
         /\ KeptOK'
<1>1. compaction.for = "none" BY DEF StartsCompaction
<1>2. PICK k \in KeptFrom :
        compaction' = [for |-> for, kept |-> k, retry |-> retry, aborted |-> FALSE]
  BY DEF StartsCompaction
<1>3. KeptAt(log, k) /\ k \in Nat BY KeptFromFacts DEF IInv
<1>4. compaction' \in Compactions /\ compaction'.for = for /\ compaction'.kept = k
  BY <1>2, <1>3 DEF Compactions
<1>5. KeptOK' BY <1>3, <1>4 DEF IInv, KeptOK
<1> QED BY <1>1, <1>4, <1>5

LEMMA AbortStep ==
  ASSUME IInv, Abort
  PROVE  IInv'
<1>1. /\ caller["abort"] = "idle" /\ (session.active \/ IsCompacting)
      /\ Signalled /\ caller' = [caller EXCEPT !["abort"] = "waiting"]
      /\ UNCHANGED <<context, log, queue, shown, deferred, session>>
  BY DEF Abort
<1>2. caller \in [Callers -> Fates] /\ "abort" \in Callers BY CallerFacts DEF IInv, Control, Types
<1>3. \A k \in Callers : caller'[k] = IF k = "abort" THEN "waiting" ELSE caller[k] BY <1>1, <1>2
<1>4. caller'["abort"] = "waiting" /\ caller'["compact"] = caller["compact"]
  BY <1>3, CallerFacts
<1>5. \A k \in Prompts \cup Customs : caller'[k] = caller[k]
  BY <1>3, CallerFacts
<1>6. /\ run' \in AgentRuns /\ run'.phase = run.phase /\ run'.by = run.by
      /\ run'.pending = run.pending /\ run'.stop = run.stop
      /\ run'.left = run.left /\ run'.calls = run.calls
      /\ compaction' \in Compactions /\ compaction'.for = compaction.for
      /\ compaction'.kept = compaction.kept
      /\ compaction'.for = "none" => compaction' = NoCompaction
      /\ manual' \in Manuals /\ manual'.kept = manual.kept
  BY <1>1, SignalledFacts DEF IInv, Control
<1>7. Types' BY <1>1, <1>2, <1>6 DEF IInv, Control, Types, Fates
<1>8. PhaseOK' BY <1>1, <1>6 DEF IInv, Control, PhaseOK
<1>9. CallersOK'
  BY <1>1, <1>4, <1>5, <1>6 DEF IInv, Control, CallersOK, Waiting, IsCompacting, ManualCompaction
<1>10. \A k \in Prompts \cup Customs : /\ caller[k] = "queued" => caller'[k] = "queued"
                                       /\ Alike(caller[k], caller'[k])
  BY <1>5 DEF Alike
<1>11. Conversation(context, log)' /\ QueuedOK' /\ DisplayAgrees' /\ EveryMessageOnce'
  BY <1>1, <1>6, <1>10, FrameMessages
<1>12. ToolsOK' /\ EndsOK' BY <1>1, <1>6, FrameRun
<1>13. KeptOK' BY <1>1, <1>4, <1>6, FrameKept DEF IInv
<1> QED BY <1>7, <1>8, <1>9, <1>11, <1>12, <1>13 DEF IInv, Control

LEMMA CompactStep ==
  ASSUME IInv, Compact
  PROVE  IInv'
<1> DEFINE fate == IF session.active \/ IsCompacting THEN "waiting" ELSE "resumed"
<1>1. /\ caller["compact"] = "idle"
      /\ Signalled /\ caller' = [caller EXCEPT !["compact"] = fate]
      /\ UNCHANGED <<context, log, queue, shown, deferred, session>>
  BY DEF Compact
<1>2. caller \in [Callers -> Fates] /\ "compact" \in Callers BY CallerFacts DEF IInv, Control, Types
<1>0. /\ fate \in Fates /\ fate \in {"waiting", "resumed"}
      /\ fate = "waiting" => session.active \/ compaction.for # "none"
  BY <1>1 DEF Fates, IsCompacting, ManualCompaction
<1> HIDE DEF fate
<1>3. \A k \in Callers : caller'[k] = IF k = "compact" THEN fate ELSE caller[k] BY <1>1, <1>2
<1>4. caller'["abort"] = caller["abort"] /\ caller'["compact"] = fate
  BY <1>3, CallerFacts
<1>5. \A k \in Prompts \cup Customs : caller'[k] = caller[k]
  BY <1>3, CallerFacts
<1>6. /\ run' \in AgentRuns /\ run'.phase = run.phase /\ run'.by = run.by
      /\ run'.pending = run.pending /\ run'.stop = run.stop
      /\ run'.left = run.left /\ run'.calls = run.calls
      /\ compaction' \in Compactions /\ compaction'.for = compaction.for
      /\ compaction'.kept = compaction.kept
      /\ compaction'.for = "none" => compaction' = NoCompaction
      /\ manual' \in Manuals /\ manual'.kept = manual.kept
  BY <1>1, SignalledFacts DEF IInv, Control
<1>7. Types' BY <1>0, <1>1, <1>2, <1>6 DEF IInv, Control, Types
<1>8. PhaseOK' BY <1>1, <1>6 DEF IInv, Control, PhaseOK
<1>9. CallersOK'
  <2>1. \A k \in {"abort", "compact"} :
          caller'[k] = "waiting" => session'.active \/ IsCompacting'
    BY <1>0, <1>1, <1>4, <1>6 DEF IInv, Control, CallersOK, IsCompacting, ManualCompaction
  <2> QED BY <1>1, <1>5, <1>6, <2>1 DEF IInv, Control, CallersOK, Waiting
<1>10. \A k \in Prompts \cup Customs : /\ caller[k] = "queued" => caller'[k] = "queued"
                                       /\ Alike(caller[k], caller'[k])
  BY <1>5 DEF Alike
<1>11. Conversation(context, log)' /\ QueuedOK' /\ DisplayAgrees' /\ EveryMessageOnce'
  BY <1>1, <1>6, <1>10, FrameMessages
<1>12. ToolsOK' /\ EndsOK' BY <1>1, <1>6, FrameRun
<1>13. KeptOK' BY <1>0, <1>1, <1>4, <1>6, FrameKept DEF IInv
<1> QED BY <1>7, <1>8, <1>9, <1>11, <1>12, <1>13 DEF IInv, Control

LEMMA ManualStartsStep ==
  ASSUME IInv, ManualStarts
  PROVE  IInv'
<1>1. /\ caller["compact"] = "resumed" /\ caller' = [caller EXCEPT !["compact"] = "compacting"]
      /\ UNCHANGED <<context, log, queue, shown, deferred, run, session, compaction>>
  BY DEF ManualStarts
<1>2. PICK n \in KeptFrom : manual' = [manual EXCEPT !.kept = n] BY DEF ManualStarts
<1>3. caller \in [Callers -> Fates] /\ "compact" \in Callers BY CallerFacts DEF IInv, Control, Types
<1>4. \A k \in Callers : caller'[k] = IF k = "compact" THEN "compacting" ELSE caller[k]
  BY <1>1, <1>3
<1>5. caller'["abort"] = caller["abort"] /\ caller'["compact"] = "compacting"
  BY <1>4, CallerFacts
<1>6. \A k \in Prompts \cup Customs : caller'[k] = caller[k] BY <1>4, CallerFacts
<1>7. KeptAt(log, n) /\ n \in Nat BY KeptFromFacts DEF IInv
<1>8. manual' \in Manuals /\ manual'.kept = n
  <2>1. manual \in Manuals BY DEF IInv, Control, Types
  <2> QED BY <1>2, <1>7, <2>1 DEF Manuals
<1>9. Types' BY <1>1, <1>3, <1>8 DEF IInv, Control, Types, Fates
<1>10. PhaseOK' BY <1>1 DEF IInv, Control, PhaseOK
<1>11. CallersOK'
  BY <1>1, <1>5, <1>6 DEF IInv, Control, CallersOK, Waiting, IsCompacting, ManualCompaction
<1>12. \A k \in Prompts \cup Customs : /\ caller[k] = "queued" => caller'[k] = "queued"
                                       /\ Alike(caller[k], caller'[k])
  BY <1>6 DEF Alike
<1>13. Conversation(context, log)' /\ QueuedOK' /\ DisplayAgrees' /\ EveryMessageOnce'
  BY <1>1, <1>12, FrameMessages
<1>14. ToolsOK' /\ EndsOK' BY <1>1, FrameRun
<1>15. KeptOK' BY <1>1, <1>7, <1>8 DEF IInv, KeptOK
<1> QED BY <1>9, <1>10, <1>11, <1>13, <1>14, <1>15 DEF IInv, Control

(***************************************************************************)
(* Messages that are queued, and the queues cleared.                       *)
(***************************************************************************)
(* The message goes to the end of a queue and is nowhere else.             *)
LEMMA QueuedOnce ==
  ASSUME Types, log \in Seq(Entries), NEW m \in Messages, NEW q \in {"steer", "followUp"},
         queue' = [queue EXCEPT ![q] = Append(@, m)], UNCHANGED <<log, run, deferred>>
  PROVE  /\ queue' \in Queues
         /\ \A e : Places(e)' = Places(e) + IF e = m THEN 1 ELSE 0
         /\ \/ q = "steer" /\ queue'.steer = Append(queue.steer, m) /\ queue'.followUp = queue.followUp
            \/ q = "followUp" /\ queue'.followUp = Append(queue.followUp, m) /\ queue'.steer = queue.steer
         /\ \A e : e \in ToSet(queue'.steer) \cup ToSet(queue'.followUp)
                    <=> e \in ToSet(queue.steer) \cup ToSet(queue.followUp) \cup {m}
<1>1. queue.steer \in Seq(Messages) /\ queue.followUp \in Seq(Messages) BY Fields
<1>2. queue \in [steer : Seq(Messages), followUp : Seq(Messages)] BY DEF Types, Queues
<1> DEFINE s == Append(queue.steer, m)
           f == Append(queue.followUp, m)
<1>3. /\ s \in Seq(Messages) /\ ToSet(s) = ToSet(queue.steer) \cup {m}
      /\ f \in Seq(Messages) /\ ToSet(f) = ToSet(queue.followUp) \cup {m}
  BY <1>1, AppendElements
<1>4. \A e : /\ Occurrences(e, s) = Occurrences(e, queue.steer) + IF m = e THEN 1 ELSE 0
             /\ Occurrences(e, f) = Occurrences(e, queue.followUp) + IF m = e THEN 1 ELSE 0
  BY <1>1, OccursAppend
<1>5. \/ q = "steer" /\ queue' = [queue EXCEPT !.steer = s]
      \/ q = "followUp" /\ queue' = [queue EXCEPT !.followUp = f]
  OBVIOUS
<1>0. UNCHANGED <<log, run, deferred>> OBVIOUS
<1> HIDE DEF s, f
<1>6. \/ q = "steer" /\ queue'.steer = s /\ queue'.followUp = queue.followUp
      \/ q = "followUp" /\ queue'.followUp = f /\ queue'.steer = queue.steer
  BY <1>2, <1>5
<1>7. queue' \in Queues BY <1>2, <1>3, <1>5 DEF Queues
<1>8. ASSUME NEW e PROVE Places(e)' = Places(e) + IF e = m THEN 1 ELSE 0
  <2> DEFINE a == Occurrences(e, log)
             b == Occurrences(e, run.pending)
             c == Occurrences(e, deferred.bash)
             d == Occurrences(e, deferred.custom)
             n == IF e = m THEN 1 ELSE 0
             x == Occurrences(e, queue.steer)
             y == Occurrences(e, queue.followUp)
             xx == Occurrences(e, queue'.steer)
             yy == Occurrences(e, queue'.followUp)
  <2>1. /\ a \in Nat /\ b \in Nat /\ c \in Nat /\ d \in Nat /\ x \in Nat /\ y \in Nat
        /\ Places(e) = a + x + y + b + c + d
    BY PlacesFacts
  <2>2. Places(e)' = a + xx + yy + b + c + d BY <1>0 DEF Places
  <2>3. n \in Nat OBVIOUS
  <2>4. \/ xx = x + n /\ yy = y
        \/ yy = y + n /\ xx = x
    BY <1>4, <1>6
  <2> HIDE DEF a, b, c, d, n, x, y, xx, yy
  <2>5. Places(e)' = Places(e) + n
    <3>1. CASE xx = x + n /\ yy = y BY <2>1, <2>2, <2>3, <3>1
    <3>2. CASE yy = y + n /\ xx = x BY <2>1, <2>2, <2>3, <3>2
    <3> QED BY <2>4, <3>1, <3>2
  <2> QED BY <2>5 DEF n
<1>9. \A e : e \in ToSet(queue'.steer) \cup ToSet(queue'.followUp)
               <=> e \in ToSet(queue.steer) \cup ToSet(queue.followUp) \cup {m}
  BY <1>3, <1>6
<1> QED BY <1>6, <1>7, <1>8, <1>9 DEF s, f

Displayed(s, f, g, d) ==
  /\ \A p \in Prompts : User(p) \in ToSet(s) \cup ToSet(f) => p \in d
  /\ \A p \in d : User(p) \in ToSet(s) \cup ToSet(f) \cup ToSet(g)

LEMMA DisplayedFacts ==
  ASSUME NEW s \in Seq(Messages), NEW f \in Seq(Messages), NEW g \in Seq(Messages),
         NEW d \in SUBSET Prompts
  PROVE  Displayed(s, f, g, d) <=>
           (Texts(s) \cup Texts(f) \subseteq d /\ d \subseteq Texts(s) \cup Texts(f) \cup Texts(g))
<1>1. \A p : /\ p \in Texts(s) <=> p \in Prompts /\ User(p) \in ToSet(s)
             /\ p \in Texts(f) <=> p \in Prompts /\ User(p) \in ToSet(f)
             /\ p \in Texts(g) <=> p \in Prompts /\ User(p) \in ToSet(g)
  BY TextsFacts
<1> QED BY <1>1 DEF Displayed

LEMMA DisplayNow ==
  ASSUME Types
  PROVE  DisplayAgrees <=> Displayed(queue.steer, queue.followUp, run.pending, shown)
<1>1. /\ queue.steer \in Seq(Messages) /\ queue.followUp \in Seq(Messages)
      /\ run.pending \in Seq(Messages)
  BY Fields
<1>2. shown \in SUBSET Prompts BY DEF Types
<1> QED BY <1>1, <1>2, DisplayedFacts DEF DisplayAgrees

LEMMA DisplayNext ==
  ASSUME Types'
  PROVE  DisplayAgrees' <=> Displayed(queue'.steer, queue'.followUp, run'.pending, shown')
<1>1. /\ queue'.steer \in Seq(Messages) /\ queue'.followUp \in Seq(Messages)
      /\ run'.pending \in Seq(Messages) /\ shown' \in SUBSET Prompts
  BY DEF Types, Queues, AgentRuns
<1> QED BY <1>1, DisplayedFacts DEF DisplayAgrees

(* A message that was nowhere is now somewhere.                            *)
LEMMA OneMore ==
  ASSUME EveryMessageOnce, NEW m \in Plain, Places(m) = 0,
         \A e \in Plain : Places(e)' = IF e = m THEN 1 ELSE Places(e),
         \A p \in Prompts : IF m = User(p) THEN caller'[p] \in Sent ELSE Alike(caller[p], caller'[p]),
         \A c \in Customs : m = Custom(c) \/ Alike(caller[c], caller'[c])
  PROVE  EveryMessageOnce'
<1>1. ASSUME NEW p \in Prompts
      PROVE  /\ Places(User(p))' <= 1
             /\ caller'[p] \in Sent => Places(User(p))' = 1
             /\ caller'[p] \notin Sent \cup {"returned"} => Places(User(p))' = 0
  <2>1. User(p) \in Plain BY Sorts
  <2>2. CASE m = User(p)
    <3>1. Places(User(p))' = 1 /\ caller'[p] \in Sent BY <2>1, <2>2
    <3> QED BY <3>1
  <2>3. CASE m # User(p)
    <3>1. Places(User(p))' = Places(User(p)) /\ Alike(caller[p], caller'[p]) BY <2>1, <2>3
    <3> QED BY <3>1 DEF EveryMessageOnce, Alike
  <2> QED BY <2>2, <2>3
<1>2. ASSUME NEW c \in Customs
      PROVE  Places(Custom(c))' <= 1 /\ (caller'[c] \in Sent => Places(Custom(c))' = 1)
  <2>1. Custom(c) \in Plain BY Sorts
  <2>2. CASE m = Custom(c)
    <3>1. Places(Custom(c))' = 1 BY <2>1, <2>2
    <3> QED BY <3>1
  <2>3. CASE m # Custom(c)
    <3>1. Places(Custom(c))' = Places(Custom(c)) /\ Alike(caller[c], caller'[c]) BY <2>1, <2>3
    <3> QED BY <3>1 DEF EveryMessageOnce, Alike
  <2> QED BY <2>2, <2>3
<1>3. ASSUME NEW b \in Bashes PROVE Places(Bash(b))' <= 1
  <2>1. Bash(b) \in Plain BY Sorts
  <2>2. Places(Bash(b))' = IF Bash(b) = m THEN 1 ELSE Places(Bash(b)) BY <2>1
  <2>3. Places(Bash(b)) <= 1 BY DEF EveryMessageOnce
  <2> QED BY <2>2, <2>3
<1> QED BY <1>1, <1>2, <1>3 DEF EveryMessageOnce

LEMMA EnqueueStep ==
  ASSUME IInv, NEW p \in Prompts, NEW q \in {"steer", "followUp"}, Enqueue(p, q)
  PROVE  IInv'
<1>0. Control /\ Types /\ log \in Seq(Entries) BY DEF IInv, Control, Conversation
<1>1. /\ caller[p] = "idle" /\ caller' = [caller EXCEPT ![p] = "queued"]
      /\ shown' = shown \cup {p} /\ queue' = [queue EXCEPT ![q] = Append(@, User(p))]
      /\ UNCHANGED <<context, log, deferred, run, session, compaction, manual>>
  BY DEF Enqueue
<1>2. caller \in [Callers -> Fates] /\ p \in Callers BY <1>0, CallerFacts DEF Types
<1>3. \A k \in Callers : caller'[k] = IF k = p THEN "queued" ELSE caller[k] BY <1>1, <1>2
<1>4. caller'["abort"] = caller["abort"] /\ caller'["compact"] = caller["compact"]
  BY <1>3, CallerFacts
<1>5. \A k \in Prompts \cup Customs : caller'[k] = IF k = p THEN "queued" ELSE caller[k]
  BY <1>3, CallerFacts
<1> DEFINE m == User(p)
<1>6. m \in Messages /\ m \in Plain /\ m.of = p BY Sorts
<1>7. queue' = [queue EXCEPT ![q] = Append(@, m)] BY <1>1
<1> HIDE DEF m
<1>8. /\ queue' \in Queues
      /\ \A e : Places(e)' = Places(e) + IF e = m THEN 1 ELSE 0
      /\ \A e : e \in ToSet(queue'.steer) \cup ToSet(queue'.followUp)
                  <=> e \in ToSet(queue.steer) \cup ToSet(queue.followUp) \cup {m}
  BY <1>0, <1>1, <1>6, <1>7, QueuedOnce
<1>9. Types' BY <1>0, <1>1, <1>2, <1>8 DEF Types, Fates
<1>10. PhaseOK' BY <1>1 DEF IInv, Control, PhaseOK
<1>11. CallersOK'
  BY <1>1, <1>4, <1>5 DEF IInv, Control, CallersOK, Waiting, IsCompacting, ManualCompaction
<1>12. QueuedOK'
  <2>1. \A e \in ToSet(queue.steer) \cup ToSet(queue.followUp) : e \in Messages
    BY <1>0, Fields, ElementsAre
  <2>2. \A e \in ToSet(queue.steer) \cup ToSet(queue.followUp) : e.of \in Prompts \cup Customs
    BY <2>1, Sorts
  <2>3. \A e \in ToSet(queue.steer) \cup ToSet(queue.followUp) : caller'[e.of] = "queued"
    BY <1>5, <2>2 DEF IInv, QueuedOK
  <2>4. caller'[m.of] = "queued" BY <1>5, <1>6
  <2>5. \A k \in shown' : caller'[k] = "queued"
    <3>1. shown \subseteq Prompts BY <1>0 DEF Types
    <3> QED BY <1>1, <1>5, <3>1 DEF IInv, QueuedOK
  <2> QED BY <1>8, <2>3, <2>4, <2>5 DEF QueuedOK
<1>13. DisplayAgrees'
  <2>1. Displayed(queue.steer, queue.followUp, run.pending, shown)
    BY <1>0, DisplayNow DEF IInv
  <2>2. \A k : User(k) = m <=> k = p BY Sorts DEF User, m
  <2>3. Displayed(queue'.steer, queue'.followUp, run'.pending, shown')
    BY <1>1, <1>8, <2>1, <2>2 DEF Displayed
  <2> QED BY <1>9, <2>3, DisplayNext
<1>14. EveryMessageOnce'
  <2>1. Places(m) = 0 BY <1>1 DEF IInv, EveryMessageOnce, Sent, m
  <2>2. \A e \in Plain : Places(e)' = IF e = m THEN 1 ELSE Places(e)
    <3> TAKE e \in Plain
    <3>1. Places(e) \in Nat BY <1>0, PlacesFacts
    <3> QED BY <1>8, <2>1, <3>1
  <2>3. \A k \in Prompts : IF m = User(k) THEN caller'[k] \in Sent ELSE Alike(caller[k], caller'[k])
    BY <1>5 DEF Alike, Sent, User, m
  <2>4. \A c \in Customs : m = Custom(c) \/ Alike(caller[c], caller'[c])
    BY <1>5, CallerFacts DEF Alike
  <2> QED BY <1>6, <2>1, <2>2, <2>3, <2>4, OneMore DEF IInv
<1>15. Conversation(context, log)' BY <1>1 DEF IInv
<1>16. ToolsOK' /\ EndsOK' BY <1>1, FrameRun
<1>17. KeptOK' BY <1>1, <1>4, FrameKept DEF IInv
<1> QED BY <1>9, <1>10, <1>11, <1>12, <1>13, <1>14, <1>15, <1>16, <1>17 DEF IInv, Control

LEMMA QueueCustomStep ==
  ASSUME IInv, NEW c \in Customs, NEW q \in {"steer", "followUp"}, QueueCustom(c, q)
  PROVE  IInv'
<1>0. Control /\ Types /\ log \in Seq(Entries) BY DEF IInv, Control, Conversation
<1> DEFINE m == Custom(c)
<1>1. /\ caller[c] = "idle" /\ caller' = [caller EXCEPT ![c] = "queued"]
      /\ queue' = [queue EXCEPT ![q] = Append(@, m)] /\ m \notin Everywhere
      /\ UNCHANGED <<context, log, shown, deferred, run, session, compaction, manual>>
  BY DEF QueueCustom, NewCustom, NewAside
<1>2. caller \in [Callers -> Fates] /\ c \in Callers BY <1>0, CallerFacts DEF Types
<1>3. \A k \in Callers : caller'[k] = IF k = c THEN "queued" ELSE caller[k] BY <1>1, <1>2
<1>4. caller'["abort"] = caller["abort"] /\ caller'["compact"] = caller["compact"]
  BY <1>3, CallerFacts
<1>5. \A k \in Prompts \cup Customs : caller'[k] = IF k = c THEN "queued" ELSE caller[k]
  BY <1>3, CallerFacts
<1>18. \A p \in Prompts : caller'[p] = caller[p] BY <1>5, CallerFacts
<1>6. m \in Messages /\ m \in Plain /\ m.of = c BY Sorts
<1>7. \A p : User(p) # m BY Sorts
<1>19. \A d : Custom(d) = m <=> d = c BY Sorts
<1> HIDE DEF m
<1>8. /\ queue' \in Queues
      /\ \A e : Places(e)' = Places(e) + IF e = m THEN 1 ELSE 0
      /\ \A e : e \in ToSet(queue'.steer) \cup ToSet(queue'.followUp)
                  <=> e \in ToSet(queue.steer) \cup ToSet(queue.followUp) \cup {m}
  BY <1>0, <1>1, <1>6, QueuedOnce
<1>9. Types' BY <1>0, <1>1, <1>2, <1>8 DEF Types, Fates
<1>10. PhaseOK' BY <1>1 DEF IInv, Control, PhaseOK
<1>11. CallersOK'
  BY <1>1, <1>4, <1>5, <1>18 DEF IInv, Control, CallersOK, Waiting, IsCompacting, ManualCompaction
<1>12. QueuedOK'
  <2>1. \A e \in ToSet(queue.steer) \cup ToSet(queue.followUp) : e \in Messages
    BY <1>0, Fields, ElementsAre
  <2>2. \A e \in ToSet(queue.steer) \cup ToSet(queue.followUp) : e.of \in Prompts \cup Customs
    BY <2>1, Sorts
  <2>3. \A e \in ToSet(queue.steer) \cup ToSet(queue.followUp) : caller'[e.of] = "queued"
    BY <1>5, <2>2 DEF IInv, QueuedOK
  <2>4. caller'[m.of] = "queued" BY <1>5, <1>6
  <2>5. \A k \in shown' : caller'[k] = "queued"
    <3>1. shown \subseteq Prompts BY <1>0 DEF Types
    <3> QED BY <1>1, <1>18, <3>1 DEF IInv, QueuedOK
  <2> QED BY <1>8, <2>3, <2>4, <2>5 DEF QueuedOK
<1>13. DisplayAgrees'
  <2>1. Displayed(queue.steer, queue.followUp, run.pending, shown)
    BY <1>0, DisplayNow DEF IInv
  <2>3. Displayed(queue'.steer, queue'.followUp, run'.pending, shown')
    BY <1>1, <1>7, <1>8, <2>1 DEF Displayed
  <2> QED BY <1>9, <2>3, DisplayNext
<1>14. EveryMessageOnce'
  <2>1. Places(m) = 0 BY <1>0, <1>1, NowhereYet
  <2>2. \A e \in Plain : Places(e)' = IF e = m THEN 1 ELSE Places(e)
    <3> TAKE e \in Plain
    <3>1. Places(e) \in Nat BY <1>0, PlacesFacts
    <3> QED BY <1>8, <2>1, <3>1
  <2>3. \A k \in Prompts : IF m = User(k) THEN caller'[k] \in Sent ELSE Alike(caller[k], caller'[k])
    BY <1>7, <1>18 DEF Alike
  <2>4. \A d \in Customs : m = Custom(d) \/ Alike(caller[d], caller'[d])
    BY <1>5, <1>19 DEF Alike
  <2> QED BY <1>6, <2>1, <2>2, <2>3, <2>4, OneMore DEF IInv
<1>15. Conversation(context, log)' BY <1>1 DEF IInv
<1>16. ToolsOK' /\ EndsOK' BY <1>1, FrameRun
<1>17. KeptOK' BY <1>1, <1>4, FrameKept DEF IInv
<1> QED BY <1>9, <1>10, <1>11, <1>12, <1>13, <1>14, <1>15, <1>16, <1>17 DEF IInv, Control

LEMMA ClearQueueStep ==
  ASSUME IInv, ClearQueue
  PROVE  IInv'
<1>0. Control /\ Types /\ log \in Seq(Entries) BY DEF IInv, Control, Conversation
<1> DEFINE Given(k) == \/ k \in shown
                       \/ k \in Customs /\ Custom(k) \in ToSet(queue.steer) \cup ToSet(queue.followUp)
<1>1. /\ queue' = [steer |-> <<>>, followUp |-> <<>>] /\ shown' = {}
      /\ caller' = [k \in DOMAIN caller |-> IF Given(k) THEN "returned" ELSE caller[k]]
      /\ UNCHANGED <<context, log, deferred, run, session, compaction, manual>>
  BY DEF ClearQueue
<1>2. caller \in [Callers -> Fates] BY <1>0 DEF Types
<1>3. \A k \in Callers : Given(k) => k \in Prompts \cup Customs /\ caller[k] = "queued"
  <2> TAKE k \in Callers
  <2>1. shown \subseteq Prompts BY <1>0 DEF Types
  <2>2. k \in Customs => Custom(k).of = k BY Sorts
  <2> QED BY <2>1, <2>2 DEF IInv, QueuedOK
<1>4. \A k \in Callers : caller'[k] = IF Given(k) THEN "returned" ELSE caller[k] BY <1>1, <1>2
<1>5. caller'["abort"] = caller["abort"] /\ caller'["compact"] = caller["compact"]
  BY <1>3, <1>4, CallerFacts
<1>6. \A k \in Prompts \cup Customs : \/ caller'[k] = caller[k] /\ ~Given(k)
                                      \/ caller[k] = "queued" /\ caller'[k] = "returned" /\ Given(k)
  BY <1>3, <1>4, CallerFacts
<1>7. Types'
  <2>1. caller' \in [Callers -> Fates] BY <1>1, <1>2 DEF Fates
  <2>2. queue' \in Queues BY <1>1 DEF Queues
  <2> QED BY <1>0, <1>1, <2>1, <2>2 DEF Types
<1>8. PhaseOK' BY <1>1 DEF IInv, Control, PhaseOK
<1>9. /\ \A k \in Prompts \cup Customs : /\ caller'[k] = "running" <=> caller[k] = "running"
                                         /\ caller'[k] \notin {"waiting", "resumed"}
      /\ \A p \in Prompts : Waiting(p)' <=> Waiting(p)
      /\ \A p \in Prompts : caller'[p] = "compacting" <=> caller[p] = "compacting"
  BY <1>6 DEF Waiting, IInv, Control, CallersOK
<1>10. CallersOK'
  BY <1>1, <1>5, <1>9 DEF IInv, Control, CallersOK, IsCompacting, ManualCompaction
<1>11. ToSet(queue'.steer) = {} /\ ToSet(queue'.followUp) = {} BY <1>1, NoElements
<1>12. QueuedOK' BY <1>1, <1>11 DEF QueuedOK
<1>13. DisplayAgrees'
  <2>1. Displayed(queue'.steer, queue'.followUp, run'.pending, shown')
    BY <1>1, <1>11 DEF Displayed
  <2> QED BY <1>7, <2>1, DisplayNext
<1>14. ASSUME NEW e PROVE /\ Places(e) \in Nat /\ Places(e)' \in Nat /\ Places(e)' <= Places(e)
                          /\ e \notin ToSet(queue.steer) \cup ToSet(queue.followUp) => Places(e)' = Places(e)
  <2> DEFINE a == Occurrences(e, log)
             b == Occurrences(e, run.pending)
             c == Occurrences(e, deferred.bash)
             d == Occurrences(e, deferred.custom)
             x == Occurrences(e, queue.steer)
             y == Occurrences(e, queue.followUp)
  <2>1. /\ a \in Nat /\ b \in Nat /\ c \in Nat /\ d \in Nat /\ x \in Nat /\ y \in Nat
        /\ Places(e) = a + x + y + b + c + d
    BY <1>0, PlacesFacts
  <2>2. Places(e)' = a + Occurrences(e, <<>>) + Occurrences(e, <<>>) + b + c + d
    BY <1>1 DEF Places
  <2>3. Occurrences(e, <<>>) = 0 BY OccursOne
  <2>4. e \notin ToSet(queue.steer) => x = 0 BY <1>0, Fields, OccursFacts
  <2>5. e \notin ToSet(queue.followUp) => y = 0 BY <1>0, Fields, OccursFacts
  <2> HIDE DEF a, b, c, d, x, y
  <2>6. Places(e)' = a + b + c + d BY <2>1, <2>2, <2>3
  <2> QED BY <2>1, <2>4, <2>5, <2>6
<1>15. EveryMessageOnce'
  <2>1. Displayed(queue.steer, queue.followUp, run.pending, shown) BY <1>0, DisplayNow DEF IInv
  <2>2. ASSUME NEW p \in Prompts
        PROVE  /\ Places(User(p))' <= 1
               /\ caller'[p] \in Sent => Places(User(p))' = 1
               /\ caller'[p] \notin Sent \cup {"returned"} => Places(User(p))' = 0
    <3>1. /\ Places(User(p)) \in Nat /\ Places(User(p))' \in Nat
          /\ Places(User(p))' <= Places(User(p)) /\ Places(User(p)) <= 1
      BY <1>14 DEF IInv, EveryMessageOnce
    <3>2. CASE Given(p)
      <4>1. caller'[p] = "returned" BY <1>6, <3>2
      <4> QED BY <3>1, <4>1 DEF Sent
    <3>3. CASE ~Given(p)
      <4>1. caller'[p] = caller[p] BY <1>6, <3>3
      <4>2. User(p) \notin ToSet(queue.steer) \cup ToSet(queue.followUp) BY <2>1, <3>3 DEF Displayed
      <4>3. Places(User(p))' = Places(User(p)) BY <1>14, <4>2
      <4> QED BY <4>1, <4>3 DEF IInv, EveryMessageOnce
    <3> QED BY <3>2, <3>3
  <2>3. ASSUME NEW c \in Customs
        PROVE  Places(Custom(c))' <= 1 /\ (caller'[c] \in Sent => Places(Custom(c))' = 1)
    <3>1. /\ Places(Custom(c)) \in Nat /\ Places(Custom(c))' \in Nat
          /\ Places(Custom(c))' <= Places(Custom(c)) /\ Places(Custom(c)) <= 1
      BY <1>14 DEF IInv, EveryMessageOnce
    <3>2. CASE Given(c)
      <4>1. caller'[c] = "returned" BY <1>6, <3>2
      <4> QED BY <3>1, <4>1 DEF Sent
    <3>3. CASE ~Given(c)
      <4>1. caller'[c] = caller[c] BY <1>6, <3>3
      <4>2. Custom(c) \notin ToSet(queue.steer) \cup ToSet(queue.followUp) BY <3>3
      <4>3. Places(Custom(c))' = Places(Custom(c)) BY <1>14, <4>2
      <4> QED BY <4>1, <4>3 DEF IInv, EveryMessageOnce
    <3> QED BY <3>2, <3>3
  <2>4. ASSUME NEW b \in Bashes PROVE Places(Bash(b))' <= 1
    <3>1. Places(Bash(b)) <= 1 BY DEF IInv, EveryMessageOnce
    <3> QED BY <1>14, <3>1
  <2> QED BY <2>2, <2>3, <2>4 DEF EveryMessageOnce
<1>16. Conversation(context, log)' BY <1>1 DEF IInv
<1>17. ToolsOK' /\ EndsOK' BY <1>1, FrameRun
<1>18. KeptOK' BY <1>1, <1>5, FrameKept DEF IInv
<1> QED BY <1>7, <1>8, <1>10, <1>12, <1>13, <1>15, <1>16, <1>17, <1>18 DEF IInv, Control

-----------------------------------------------------------------------------
(***************************************************************************)
(* Writing to the conversation.                                            *)
(***************************************************************************)
LEMMA KeptGrows ==
  ASSUME KeptOK, log \in Seq(Entries), NEW msgs \in Seq(Entries), log' = log \o msgs,
         compaction'.kept = compaction.kept, compaction'.for \in {"none", compaction.for},
         manual'.kept = manual.kept,
         caller'["compact"] = "compacting" => caller["compact"] = "compacting"
  PROVE  KeptOK'
<1> DEFINE w == log \o msgs
<1>1. \A k : KeptAt(log, k) => KeptAt(w, k)
  <2> SUFFICES ASSUME NEW k \in DOMAIN log, log[k].role \notin {"result", "summary"} PROVE KeptAt(w, k)
    BY DEF KeptAt
  <2>1. k \in DOMAIN w /\ w[k] = log[k] BY PositionsStay
  <2> HIDE DEF w
  <2> QED BY <2>1 DEF KeptAt
<1>2. log' = w OBVIOUS
<1> HIDE DEF w
<1> QED BY <1>1, <1>2 DEF KeptOK

LEMMA NoTurn ==
  ASSUME run'.phase \notin {"tools", "turnEnd", "ended", "retrying"}
  PROVE  ToolsOK' /\ EndsOK'
BY DEF ToolsOK, EndsOK

LEMMA OneIsSeq ==
  ASSUME NEW E, NEW x \in E
  PROVE  <<x>> \in Seq(E)
OBVIOUS

(* The flush of what was deferred.                                         *)
LEMMA FlushPlaces ==
  ASSUME Types, log \in Seq(Entries), NEW l \in Seq(Entries), NEW e,
         Occurrences(e, l) = Occurrences(e, log), log' = l \o Flushed,
         deferred' = Nothing, UNCHANGED queue, run'.pending = run.pending
  PROVE  Places(e)' = Places(e)
<1> DEFINE a == Occurrences(e, log)
           b == Occurrences(e, run.pending)
           c == Occurrences(e, deferred.bash)
           d == Occurrences(e, deferred.custom)
           x == Occurrences(e, queue.steer)
           y == Occurrences(e, queue.followUp)
           f == Flushed
<1>1. /\ a \in Nat /\ b \in Nat /\ c \in Nat /\ d \in Nat /\ x \in Nat /\ y \in Nat
      /\ Places(e) = a + x + y + b + c + d
  BY PlacesFacts
<1>2. deferred.bash \in Seq(Plain) /\ deferred.custom \in Seq(Plain) /\ f \in Seq(Plain)
  BY PlainFields
<1>3. Occurrences(e, f) = c + d
  BY <1>2, OccursConcat DEF Flushed
<1>4. f \in Seq(Entries) BY <1>2, Kinds, SeqOfMore
<1> HIDE DEF f
<1>5. Occurrences(e, l \o f) = Occurrences(e, l) + Occurrences(e, f) BY <1>4, OccursConcat
<1>6. Occurrences(e, log') = a + c + d BY <1>1, <1>3, <1>5 DEF f
<1>7. deferred'.bash = <<>> /\ deferred'.custom = <<>> BY DEF Nothing
<1>8. Occurrences(e, <<>>) = 0 BY OccursOne
<1>9. Places(e)' = Occurrences(e, log') + x + y + b + Occurrences(e, <<>>) + Occurrences(e, <<>>)
  BY <1>7 DEF Places
<1> HIDE DEF a, b, c, d, x, y
<1>10. Places(e)' = (a + c + d) + x + y + b + 0 + 0 BY <1>6, <1>8, <1>9
<1> QED BY <1>1, <1>10

LEMMA PromptStep ==
  ASSUME IInv, NEW p \in Prompts, Prompt(p)
  PROVE  IInv'
<1>0. Control /\ Types /\ log \in Seq(Entries) BY DEF IInv, Control, Conversation
<1>1. /\ caller[p] = "idle"
      /\ UNCHANGED <<queue, shown, run, session, compaction, manual>>
  BY DEF Prompt
<1>2. PICK fate \in {"failed", "preflight"} :
        /\ caller' = [caller EXCEPT ![p] = fate]
        /\ \/ fate = "failed" /\ UNCHANGED <<context, log, deferred>>
           \/ /\ fate = "preflight" /\ ~session.active /\ ~InPreflight
              /\ Write(Flushed) /\ deferred' = Nothing
  BY DEF Prompt
<1>3. caller \in [Callers -> Fates] /\ p \in Callers BY <1>0, CallerFacts DEF Types
<1>4. \A k \in Callers : caller'[k] = IF k = p THEN fate ELSE caller[k] BY <1>2, <1>3
<1>5. caller'["abort"] = caller["abort"] /\ caller'["compact"] = caller["compact"]
  BY <1>4, CallerFacts
<1>6. \A k \in Prompts \cup Customs : caller'[k] = IF k = p THEN fate ELSE caller[k]
  BY <1>4, CallerFacts
<1>7. Types'
  <2>0. Nothing \in Waitlists BY DEF Nothing, Waitlists
  <2>1. deferred' \in Waitlists BY <1>0, <1>2, <2>0 DEF Types
  <2> QED BY <1>0, <1>1, <1>2, <1>3, <2>1 DEF Types, Fates
<1>8. PhaseOK' BY <1>1 DEF IInv, Control, PhaseOK
<1>9. fate = "preflight" => run.phase = "none" /\ \A k \in Prompts : ~Waiting(k)
  BY <1>2 DEF IInv, Control, PhaseOK, InPreflight, Waiting
<1>11. CallersOK'
  BY <1>1, <1>2, <1>5, <1>6, <1>9 DEF IInv, Control, CallersOK, Waiting, IsCompacting, ManualCompaction
<1>12. \A k \in Prompts \cup Customs : /\ caller[k] = "queued" => caller'[k] = "queued"
                                       /\ Alike(caller[k], caller'[k])
  BY <1>1, <1>6 DEF Alike, Sent
<1>13. QueuedOK' BY <1>0, <1>1, <1>12, FrameQueued DEF IInv
<1>14. DisplayAgrees' BY <1>1 DEF IInv, DisplayAgrees
<1>16. /\ Conversation(context, log)' /\ KeptOK' /\ ToolsOK' /\ EndsOK'
       /\ \A e \in Plain : Places(e)' = Places(e)
  <2>1. CASE fate = "failed" /\ UNCHANGED <<context, log, deferred>>
    <3>1. \A e \in Plain : Places(e)' = Places(e) BY <1>1, <2>1 DEF Places
    <3>2. KeptOK' BY <1>1, <1>5, <2>1, FrameKept DEF IInv
    <3>3. ToolsOK' /\ EndsOK' BY <1>1, <2>1, FrameRun
    <3> QED BY <2>1, <3>1, <3>2, <3>3 DEF IInv
  <2>2. CASE fate = "preflight" /\ Write(Flushed) /\ deferred' = Nothing
    <3>1. context' = context \o Flushed /\ log' = log \o Flushed BY <2>2 DEF Write, Both
    <3>2. Flushed \in Seq(Plain) /\ Flushed \in Seq(Entries) BY <1>0, PlainFields, Kinds, SeqOfMore
    <3>3. Conversation(context \o Flushed, log \o Flushed) BY <3>2, BothHear DEF IInv
    <3>4. Conversation(context, log)' BY <3>1, <3>3
    <3>5. KeptOK' BY <1>0, <1>1, <1>5, <3>1, <3>2, KeptGrows DEF IInv
    <3>7. ToolsOK' /\ EndsOK' BY <1>1, <1>9, <2>2, NoTurn
    <3>6. \A e \in Plain : Places(e)' = Places(e)
      <4> TAKE e \in Plain
      <4>1. run'.pending = run.pending BY <1>1
      <4> QED BY <1>0, <1>1, <2>2, <3>1, <4>1, FlushPlaces
    <3> QED BY <3>4, <3>5, <3>6, <3>7
  <2> QED BY <1>2, <2>1, <2>2
<1>17. EveryMessageOnce' BY <1>12, <1>16, FrameOnce DEF IInv
<1> QED BY <1>7, <1>8, <1>11, <1>13, <1>14, <1>16, <1>17 DEF IInv, Control

LEMMA WrittenOccurs ==
  ASSUME log \in Seq(Entries), NEW m \in Entries, log' = log \o <<m>>, NEW e
  PROVE  Occurrences(e, log') = Occurrences(e, log) + IF m = e THEN 1 ELSE 0
<1>1. Append(log, m) = log \o <<m>> BY AppendIsConcat
<1>2. Occurrences(e, Append(log, m)) = Occurrences(e, log) + IF m = e THEN 1 ELSE 0
  BY OccursAppend
<1> QED BY <1>1, <1>2

LEMMA DeferredOnce ==
  ASSUME Types, log \in Seq(Entries), NEW m, UNCHANGED <<log, queue, run>>,
         \/ m \in Commands /\ deferred' = [deferred EXCEPT !.bash = Append(@, m)]
         \/ m \in Told /\ deferred' = [deferred EXCEPT !.custom = Append(@, m)]
  PROVE  /\ deferred' \in Waitlists
         /\ \A e : Places(e)' = Places(e) + IF e = m THEN 1 ELSE 0
<1>1. deferred.bash \in Seq(Commands) /\ deferred.custom \in Seq(Told) BY Fields
<1>2. deferred \in [bash : Seq(Commands), custom : Seq(Told)] BY DEF Types, Waitlists
<1>3. PICK s, t : /\ deferred' = [bash |-> s, custom |-> t]
                  /\ \/ m \in Commands /\ s = Append(deferred.bash, m) /\ t = deferred.custom
                     \/ m \in Told /\ t = Append(deferred.custom, m) /\ s = deferred.bash
  <2>1. CASE m \in Commands /\ deferred' = [deferred EXCEPT !.bash = Append(@, m)]
    <3> DEFINE s == Append(deferred.bash, m)
    <3>1. deferred' = [deferred EXCEPT !.bash = s] BY <2>1
    <3> HIDE DEF s
    <3>2. deferred' = [bash |-> s, custom |-> deferred.custom] BY <1>2, <3>1
    <3> QED BY <2>1, <3>2 DEF s
  <2>2. CASE m \in Told /\ deferred' = [deferred EXCEPT !.custom = Append(@, m)]
    <3> DEFINE s == Append(deferred.custom, m)
    <3>1. deferred' = [deferred EXCEPT !.custom = s] BY <2>2
    <3> HIDE DEF s
    <3>2. deferred' = [bash |-> deferred.bash, custom |-> s] BY <1>2, <3>1
    <3> QED BY <2>2, <3>2 DEF s
  <2> QED BY <2>1, <2>2
<1>4. s \in Seq(Commands) /\ t \in Seq(Told)
  <2>1. m \in Commands => Append(deferred.bash, m) \in Seq(Commands) BY <1>1, AppendProperties
  <2>2. m \in Told => Append(deferred.custom, m) \in Seq(Told) BY <1>1, AppendProperties
  <2> QED BY <1>1, <1>3, <2>1, <2>2
<1>5. deferred' \in Waitlists BY <1>3, <1>4 DEF Waitlists
<1>6. deferred'.bash = s /\ deferred'.custom = t BY <1>3
<1>0. UNCHANGED <<log, queue, run>> OBVIOUS
<1>7. ASSUME NEW e PROVE Places(e)' = Places(e) + IF e = m THEN 1 ELSE 0
  <2> DEFINE a == Occurrences(e, log)
             b == Occurrences(e, run.pending)
             c == Occurrences(e, deferred.bash)
             d == Occurrences(e, deferred.custom)
             x == Occurrences(e, queue.steer)
             y == Occurrences(e, queue.followUp)
             cc == Occurrences(e, s)
             dd == Occurrences(e, t)
             n == IF e = m THEN 1 ELSE 0
  <2>1. /\ a \in Nat /\ b \in Nat /\ c \in Nat /\ d \in Nat /\ x \in Nat /\ y \in Nat
        /\ Places(e) = a + x + y + b + c + d
    BY PlacesFacts
  <2>2. Places(e)' = a + x + y + b + cc + dd BY <1>0, <1>6 DEF Places
  <2>3. \/ cc = c + n /\ dd = d
        \/ dd = d + n /\ cc = c
    <3>1. m \in Commands => Occurrences(e, Append(deferred.bash, m)) = c + n
      BY <1>1, OccursAppend
    <3>2. m \in Told => Occurrences(e, Append(deferred.custom, m)) = d + n
      BY <1>1, OccursAppend
    <3> HIDE DEF n
    <3> QED BY <1>3, <3>1, <3>2
  <2>4. n \in Nat OBVIOUS
  <2> HIDE DEF a, b, c, d, x, y, cc, dd, n
  <2>5. Places(e)' = Places(e) + n
    <3>1. CASE cc = c + n /\ dd = d BY <2>1, <2>2, <2>4, <3>1
    <3>2. CASE dd = d + n /\ cc = c BY <2>1, <2>2, <2>4, <3>2
    <3> QED BY <2>3, <3>1, <3>2
  <2> QED BY <2>5 DEF n
<1> QED BY <1>5, <1>7

LEMMA AsideStep ==
  ASSUME IInv, NEW m, m \notin Everywhere,
         UNCHANGED <<queue, shown, run, session, compaction, manual, caller>>,
         \/ /\ session.active /\ UNCHANGED <<context, log>>
            /\ \/ m \in Commands /\ deferred' = [deferred EXCEPT !.bash = Append(@, m)]
               \/ m \in Told /\ deferred' = [deferred EXCEPT !.custom = Append(@, m)]
         \/ /\ ~session.active /\ m \in Commands \cup Told
            /\ Write(<<m>>) /\ UNCHANGED deferred
  PROVE  IInv'
<1>0. Control /\ Types /\ log \in Seq(Entries) BY DEF IInv, Control, Conversation
<1>1. UNCHANGED <<queue, shown, run, session, compaction, manual, caller>> OBVIOUS
<1>2. m \in Plain /\ m \in Entries /\ \A p : m # User(p)
  <2>1. m \in Commands \cup Told OBVIOUS
  <2>2. m \in Plain /\ m \in Entries BY <2>1, Kinds
  <2>3. m.role # "user" BY <2>1 DEF Commands, Told
  <2> QED BY <2>2, <2>3 DEF User
<1>3. /\ deferred' \in Waitlists /\ Conversation(context, log)' /\ KeptOK' /\ ToolsOK' /\ EndsOK'
      /\ \A e : Places(e)' = Places(e) + IF e = m THEN 1 ELSE 0
  <2>1. CASE /\ session.active /\ UNCHANGED <<context, log>>
             /\ \/ m \in Commands /\ deferred' = [deferred EXCEPT !.bash = Append(@, m)]
                \/ m \in Told /\ deferred' = [deferred EXCEPT !.custom = Append(@, m)]
    <3>1. /\ deferred' \in Waitlists
          /\ \A e : Places(e)' = Places(e) + IF e = m THEN 1 ELSE 0
      BY <1>0, <1>1, <2>1, DeferredOnce
    <3>2. Conversation(context, log)' BY <2>1 DEF IInv
    <3>3. KeptOK' BY <1>1, <2>1, FrameKept DEF IInv
    <3>4. ToolsOK' /\ EndsOK' BY <1>1, <2>1, FrameRun
    <3> QED BY <3>1, <3>2, <3>3, <3>4
  <2>2. CASE ~session.active /\ Write(<<m>>) /\ UNCHANGED deferred
    <3> DEFINE t == <<m>>
    <3>1. context' = context \o t /\ log' = log \o t BY <2>2 DEF Write, Both
    <3>2. t \in Seq(Plain) /\ t \in Seq(Entries) BY <1>2, OneIsSeq
    <3>3. deferred' \in Waitlists BY <1>0, <2>2 DEF Types
    <3>4. ASSUME NEW e PROVE Places(e)' = Places(e) + IF e = m THEN 1 ELSE 0
      <4> DEFINE a == Occurrences(e, log)
                 b == Occurrences(e, run.pending)
                 c == Occurrences(e, deferred.bash)
                 d == Occurrences(e, deferred.custom)
                 x == Occurrences(e, queue.steer)
                 y == Occurrences(e, queue.followUp)
                 aa == Occurrences(e, log')
                 n == IF e = m THEN 1 ELSE 0
      <4>1. /\ a \in Nat /\ b \in Nat /\ c \in Nat /\ d \in Nat /\ x \in Nat /\ y \in Nat
            /\ Places(e) = a + x + y + b + c + d
        BY <1>0, PlacesFacts
      <4>2. Places(e)' = aa + x + y + b + c + d BY <1>1, <2>2 DEF Places
      <4>3. aa = a + n
        <5>1. Occurrences(e, log') = Occurrences(e, log) + IF m = e THEN 1 ELSE 0
          BY <1>0, <1>2, <3>1, WrittenOccurs
        <5> QED BY <5>1
      <4>4. n \in Nat OBVIOUS
      <4> HIDE DEF a, b, c, d, x, y, aa, n
      <4>5. Places(e)' = Places(e) + n BY <4>1, <4>2, <4>3, <4>4
      <4> QED BY <4>5 DEF n
    <3> HIDE DEF t
    <3>5. Conversation(context \o t, log \o t) BY <3>2, BothHear DEF IInv
    <3>6. Conversation(context, log)' BY <3>1, <3>5
    <3>7. KeptOK' BY <1>0, <1>1, <3>1, <3>2, KeptGrows DEF IInv
    <3>8. run'.phase = "none" BY <1>1, <2>2 DEF IInv, Control, PhaseOK
    <3>9. ToolsOK' /\ EndsOK' BY <3>8, NoTurn
    <3> QED BY <3>3, <3>4, <3>6, <3>7, <3>9
  <2> QED BY <2>1, <2>2
<1>4. Types' BY <1>0, <1>1, <1>3 DEF Types
<1>5. PhaseOK' BY <1>1 DEF IInv, Control, PhaseOK
<1>6. CallersOK' BY <1>1 DEF IInv, Control, CallersOK, Waiting, IsCompacting, ManualCompaction
<1>7. QueuedOK' BY <1>1 DEF IInv, QueuedOK
<1>8. DisplayAgrees' BY <1>1 DEF IInv, DisplayAgrees
<1>9. EveryMessageOnce'
  <2>1. Places(m) = 0 BY <1>0, NowhereYet
  <2>2. \A e \in Plain : Places(e)' = IF e = m THEN 1 ELSE Places(e)
    <3> TAKE e \in Plain
    <3>1. Places(e) \in Nat BY <1>0, PlacesFacts
    <3> QED BY <1>3, <2>1, <3>1
  <2>3. \A k \in Prompts : IF m = User(k) THEN caller'[k] \in Sent ELSE Alike(caller[k], caller'[k])
    BY <1>1, <1>2 DEF Alike
  <2>4. \A d \in Customs : m = Custom(d) \/ Alike(caller[d], caller'[d]) BY <1>1 DEF Alike
  <2> QED BY <1>2, <2>1, <2>2, <2>3, <2>4, OneMore DEF IInv
<1> QED BY <1>3, <1>4, <1>5, <1>6, <1>7, <1>8, <1>9 DEF IInv, Control

LEMMA RecordBashStep ==
  ASSUME IInv, NEW b \in Bashes, RecordBash(b)
  PROVE  IInv'
<1>1. Bash(b) \in Commands BY Sorts
<1>2. /\ Bash(b) \notin Everywhere /\ UNCHANGED <<queue, shown, run, session, compaction, manual, caller>>
      /\ \/ /\ session.active /\ UNCHANGED <<context, log>>
            /\ deferred' = [deferred EXCEPT !.bash = Append(@, Bash(b))]
         \/ ~session.active /\ Write(<<Bash(b)>>) /\ UNCHANGED deferred
  BY DEF RecordBash, NewAside
<1> QED BY <1>1, <1>2, AsideStep

LEMMA AppendCustomStep ==
  ASSUME IInv, NEW c \in Customs, AppendCustom(c)
  PROVE  IInv'
<1>1. Custom(c) \in Told BY Sorts
<1>2. /\ Custom(c) \notin Everywhere /\ UNCHANGED <<queue, shown, run, session, compaction, manual, caller>>
      /\ \/ /\ session.active /\ UNCHANGED <<context, log>>
            /\ deferred' = [deferred EXCEPT !.custom = Append(@, Custom(c))]
         \/ ~session.active /\ Write(<<Custom(c)>>) /\ UNCHANGED deferred
  BY DEF AppendCustom, NewCustom, NewAside
<1> QED BY <1>1, <1>2, AsideStep

-----------------------------------------------------------------------------
(***************************************************************************)
(* A run that is under way.                                                *)
(***************************************************************************)
LEMMA Alive ==
  ASSUME Control, run.phase # "none"
  PROVE  /\ compaction.for \in {"none", "turn", "after"} /\ session.active
         /\ run.by \in Prompts \cup Customs /\ caller[run.by] = "running"
         /\ \A p \in Prompts : ~Waiting(p)
         /\ run.phase \notin {"compacting", "after"} => compaction = NoCompaction
<1>1. run.by \in Prompts \cup Customs
  BY Fields DEF Control, PhaseOK
<1>2. caller[run.by] = "running" BY <1>1 DEF Control, CallersOK
<1>3. \A p \in Prompts : ~Waiting(p) BY DEF Control, CallersOK
<1>4. compaction.for # "prompt" BY <1>3 DEF Control, CallersOK, Waiting
<1>5. compaction.for \in {"none", "turn", "after"}
  BY <1>4 DEF Control, Types, Compactions
<1>6. session.active BY DEF Control, PhaseOK
<1>7. run.phase \notin {"compacting", "after"} => compaction = NoCompaction
  BY <1>5 DEF Control, PhaseOK
<1> QED BY <1>1, <1>2, <1>3, <1>5, <1>6, <1>7

LEMMA NoneIsNone ==
  NoCompaction \in Compactions /\ NoCompaction.for = "none"
BY DEF NoCompaction, Compactions

(* The callers stay as they are while a run goes on.                       *)
LEMMA FrameCallers ==
  ASSUME Control, run.phase # "none", run'.phase # "none", run'.by = run.by,
         UNCHANGED caller, session'.active, compaction'.for \in {"none", "turn", "after"}
  PROVE  CallersOK'
<1>1. \A p \in Prompts : ~Waiting(p) BY Alive
<1>2. UNCHANGED caller OBVIOUS
<1>3. \A p \in Prompts : ~Waiting(p)' BY <1>1, <1>2 DEF Waiting
<1>4. \A k \in Prompts \cup Customs : caller'[k] = "running" <=> run'.by = k
  BY <1>2 DEF Control, CallersOK
<1>5. \A k \in Prompts \cup Customs : caller'[k] \notin {"waiting", "resumed"}
  BY <1>2 DEF Control, CallersOK
<1>6. \A p \in Prompts : caller'[p] # "compacting" BY <1>3 DEF Waiting
<1> QED BY <1>3, <1>4, <1>5, <1>6 DEF CallersOK, Waiting

LEMMA FrameAlike ==
  ASSUME UNCHANGED caller
  PROVE  \A k \in Prompts \cup Customs : /\ caller[k] = "queued" => caller'[k] = "queued"
                                         /\ Alike(caller[k], caller'[k])
BY DEF Alike

(* A poll moves the head of a queue.                                       *)
LEMMA PollOccurs ==
  ASSUME Types, NEW q \in {"steer", "followUp"}, Poll(q), NEW e
  PROVE  /\ Occurrences(e, queue'.steer) \in Nat /\ Occurrences(e, queue'.followUp) \in Nat
         /\ Occurrences(e, Drained(queue[q])) \in Nat
         /\ Occurrences(e, queue.steer) + Occurrences(e, queue.followUp)
              = Occurrences(e, queue'.steer) + Occurrences(e, queue'.followUp)
                  + Occurrences(e, Drained(queue[q]))
<1> DEFINE s == queue[q]
           d == Drained(queue[q])
           r == Rest(queue[q])
<1>1. /\ s \in Seq(Messages) /\ d \in Seq(Messages) /\ r \in Seq(Messages) /\ Extends(s, d, r)
      /\ \/ q = "steer" /\ queue'.steer = r /\ queue'.followUp = queue.followUp
         \/ q = "followUp" /\ queue'.followUp = r /\ queue'.steer = queue.steer
  BY PollFacts
<1>2. s = IF q = "steer" THEN queue.steer ELSE queue.followUp OBVIOUS
<1>3. queue.steer \in Seq(Messages) /\ queue.followUp \in Seq(Messages) BY Fields
<1> HIDE DEF s, d, r
<1>4. Occurrences(e, s) = Occurrences(e, d) + Occurrences(e, r)
  BY <1>1, OccursConcat DEF Extends
<1>5. /\ Occurrences(e, d) \in Nat /\ Occurrences(e, r) \in Nat
      /\ Occurrences(e, queue.steer) \in Nat /\ Occurrences(e, queue.followUp) \in Nat
  BY <1>1, <1>3, OccursFacts
<1> DEFINE x == Occurrences(e, queue.steer)
           y == Occurrences(e, queue.followUp)
           xx == Occurrences(e, queue'.steer)
           yy == Occurrences(e, queue'.followUp)
           a == Occurrences(e, d)
           b == Occurrences(e, r)
<1>6. \/ x = a + b /\ xx = b /\ yy = y
      \/ y = a + b /\ yy = b /\ xx = x
  BY <1>1, <1>2, <1>4
<1>7. a \in Nat /\ b \in Nat /\ x \in Nat /\ y \in Nat BY <1>5
<1> HIDE DEF x, y, xx, yy, a, b
<1>8. xx \in Nat /\ yy \in Nat /\ x + y = xx + yy + a BY <1>6, <1>7
<1> QED BY <1>7, <1>8 DEF x, y, xx, yy, a, b, d

LEMMA PollSets ==
  ASSUME Types, NEW q \in {"steer", "followUp"}, Poll(q)
  PROVE  ToSet(queue.steer) \cup ToSet(queue.followUp)
           = ToSet(queue'.steer) \cup ToSet(queue'.followUp) \cup ToSet(Drained(queue[q]))
<1> DEFINE s == queue[q]
           d == Drained(queue[q])
           r == Rest(queue[q])
<1>1. /\ s \in Seq(Messages) /\ d \in Seq(Messages) /\ r \in Seq(Messages) /\ Extends(s, d, r)
      /\ \/ q = "steer" /\ queue'.steer = r /\ queue'.followUp = queue.followUp
         \/ q = "followUp" /\ queue'.followUp = r /\ queue'.steer = queue.steer
  BY PollFacts
<1>2. s = IF q = "steer" THEN queue.steer ELSE queue.followUp OBVIOUS
<1> HIDE DEF s, d, r
<1>3. ToSet(s) = ToSet(d) \cup ToSet(r) BY <1>1, TextsSplit
<1>4. CASE q = "steer"
  <2>1. queue'.steer = r /\ queue'.followUp = queue.followUp /\ s = queue.steer BY <1>1, <1>2, <1>4
  <2> QED BY <1>3, <2>1 DEF d
<1>5. CASE q = "followUp"
  <2>1. queue'.followUp = r /\ queue'.steer = queue.steer /\ s = queue.followUp BY <1>1, <1>2, <1>5
  <2> QED BY <1>3, <2>1 DEF d
<1> QED BY <1>4, <1>5

(* What is queued shrinks, and its callers wait as they did.               *)
LEMMA ShrinkQueued ==
  ASSUME Types, QueuedOK, shown' \subseteq shown,
         ToSet(queue'.steer) \cup ToSet(queue'.followUp)
           \subseteq ToSet(queue.steer) \cup ToSet(queue.followUp),
         \A k \in Prompts \cup Customs : caller[k] = "queued" => caller'[k] = "queued"
  PROVE  QueuedOK'
<1>1. \A e \in ToSet(queue.steer) \cup ToSet(queue.followUp) : e \in Messages
  BY Fields, ElementsAre
<1>2. \A e \in ToSet(queue.steer) \cup ToSet(queue.followUp) : e.of \in Prompts \cup Customs
  BY <1>1, Sorts
<1>3. shown \subseteq Prompts BY DEF Types
<1> QED BY <1>2, <1>3 DEF QueuedOK

LEMMA DisplayShrinks ==
  ASSUME Types, Types', DisplayAgrees, NEW msgs \in Seq(Messages), Unshown(msgs),
         \A p \in Prompts : User(p) \in ToSet(queue'.steer) \cup ToSet(queue'.followUp) =>
            /\ User(p) \in ToSet(queue.steer) \cup ToSet(queue.followUp)
            /\ User(p) \notin ToSet(msgs),
         \A p \in Prompts :
            User(p) \in ToSet(queue.steer) \cup ToSet(queue.followUp) \cup ToSet(run.pending) =>
              User(p) \in ToSet(queue'.steer) \cup ToSet(queue'.followUp) \cup ToSet(run'.pending)
                            \cup ToSet(msgs)
  PROVE  DisplayAgrees'
<1>1. Displayed(queue.steer, queue.followUp, run.pending, shown) BY DisplayNow
<1>2. \A p : p \in Texts(msgs) <=> p \in Prompts /\ User(p) \in ToSet(msgs) BY TextsFacts
<1>3. shown' = shown \ Texts(msgs) /\ shown \subseteq Prompts BY DEF Unshown, Types
<1>4. Displayed(queue'.steer, queue'.followUp, run'.pending, shown')
  BY <1>1, <1>2, <1>3 DEF Displayed
<1> QED BY <1>4, DisplayNext

LEMMA HeardIn ==
  ASSUME NEW s \in Sessions, NEW msgs
  PROVE  Heard(s, msgs) \in Sessions /\ Heard(s, msgs).active = s.active
<1>1. (s.recovered /\ Texts(msgs) = {}) \in BOOLEAN OBVIOUS
<1> QED BY <1>1 DEF Heard, Sessions

(* A message is in at most one of the queues and the pending messages.     *)
LEMMA PendingApart ==
  ASSUME IInv, NEW p \in Prompts, User(p) \in ToSet(queue.steer) \cup ToSet(queue.followUp)
  PROVE  User(p) \notin ToSet(run.pending)
<1>0. Types /\ log \in Seq(Entries) BY DEF IInv, Control, Conversation
<1> DEFINE e == User(p)
           a == Occurrences(e, log)
           b == Occurrences(e, run.pending)
           c == Occurrences(e, deferred.bash)
           d == Occurrences(e, deferred.custom)
           x == Occurrences(e, queue.steer)
           y == Occurrences(e, queue.followUp)
<1>1. /\ a \in Nat /\ b \in Nat /\ c \in Nat /\ d \in Nat /\ x \in Nat /\ y \in Nat
      /\ Places(e) = a + x + y + b + c + d
  BY <1>0, PlacesFacts
<1>2. Places(e) <= 1 BY DEF IInv, EveryMessageOnce
<1>3. x # 0 \/ y # 0 BY <1>0, Fields, OccursFacts
<1>4. b = 0 <=> e \notin ToSet(run.pending) BY <1>0, Fields, OccursFacts
<1> HIDE DEF e, a, b, c, d, x, y
<1>5. b = 0 BY <1>1, <1>2, <1>3
<1> QED BY <1>4, <1>5 DEF e

LEMMA StartTurnStep ==
  ASSUME IInv, StartTurn
  PROVE  IInv'
<1>0. Control /\ Types /\ log \in Seq(Entries) BY DEF IInv, Control, Conversation
<1> DEFINE m == run.pending
<1>1. /\ run.phase = "ready" /\ run' = [run EXCEPT !.phase = "streaming", !.pending = <<>>]
      /\ context' = context \o m /\ log' = log \o m /\ Unshown(m) /\ session' = Heard(session, m)
      /\ UNCHANGED <<queue, deferred, compaction, manual, caller>>
  BY DEF StartTurn, Write, Both
<1>2. m \in Seq(Messages) /\ m \in Seq(Plain) /\ m \in Seq(Entries)
  BY <1>0, Fields, PlainFields, Kinds, SeqOfMore
<1>3. /\ run' \in AgentRuns /\ run'.phase = "streaming" /\ run'.by = run.by /\ run'.pending = <<>>
  <2>1. run \in AgentRuns BY <1>0 DEF Types
  <2>2. <<>> \in Seq(Messages) OBVIOUS
  <2> QED BY <1>1, <2>1, <2>2 DEF AgentRuns, Phases
<1>4. session' \in Sessions /\ session'.active = session.active
  BY <1>0, <1>1, HeardIn DEF Types
<1>5. shown' = shown \ Texts(m) BY <1>1 DEF Unshown
<1>6. Types' BY <1>0, <1>1, <1>3, <1>4, <1>5 DEF Types
<1>7. compaction = NoCompaction /\ session.active BY <1>0, <1>1, Alive
<1>8. PhaseOK'
  BY <1>1, <1>3, <1>4, <1>7, NoneIsNone DEF IInv, Control, PhaseOK
<1>9. CallersOK' BY <1>0, <1>1, <1>3, <1>4, <1>7, NoneIsNone, FrameCallers
<1>10. Conversation(context, log)'
  <2>1. Conversation(context \o m, log \o m) BY <1>2, BothHear DEF IInv
  <2> QED BY <1>1, <2>1
<1>11. KeptOK' BY <1>0, <1>1, <1>2, KeptGrows DEF IInv
<1>12. ToolsOK' /\ EndsOK' BY <1>3, NoTurn
<1>13. QueuedOK' BY <1>0, <1>1, <1>5, ShrinkQueued DEF IInv
<1>14. DisplayAgrees'
  <2>1. \A p \in Prompts : User(p) \in ToSet(queue.steer) \cup ToSet(queue.followUp) => User(p) \notin ToSet(m)
    BY PendingApart
  <2> QED BY <1>0, <1>1, <1>2, <1>6, <2>1, DisplayShrinks DEF IInv
<1>15. ASSUME NEW e \in Plain PROVE Places(e)' = Places(e)
  <2> DEFINE a == Occurrences(e, log)
             b == Occurrences(e, m)
             c == Occurrences(e, deferred.bash)
             d == Occurrences(e, deferred.custom)
             x == Occurrences(e, queue.steer)
             y == Occurrences(e, queue.followUp)
  <2>1. /\ a \in Nat /\ b \in Nat /\ c \in Nat /\ d \in Nat /\ x \in Nat /\ y \in Nat
        /\ Places(e) = a + x + y + b + c + d
    BY <1>0, PlacesFacts
  <2>2. Places(e)' = Occurrences(e, log') + x + y + Occurrences(e, <<>>) + c + d
    BY <1>1, <1>3 DEF Places
  <2>3. Occurrences(e, log') = a + b BY <1>0, <1>1, <1>2, OccursConcat
  <2>4. Occurrences(e, <<>>) = 0 BY OccursOne
  <2> HIDE DEF a, b, c, d, x, y
  <2> QED BY <2>1, <2>2, <2>3, <2>4
<1>16. EveryMessageOnce' BY <1>1, <1>15, FrameAlike, FrameOnce DEF IInv
<1> QED BY <1>6, <1>8, <1>9, <1>10, <1>11, <1>12, <1>13, <1>14, <1>16 DEF IInv, Control

LEMMA ResultLast ==
  ASSUME NEW c \in Seq(Entries), ~IsReply(Last(Said(c)))
  PROVE  ~EndsInReply(c)
<1> SUFFICES ASSUME EndsInReply(c) PROVE FALSE OBVIOUS
<1>1. c # <<>> /\ IsReply(Last(c)) /\ ~IsSummary(Last(c)) BY DEF EndsInReply, IsReply, IsSummary
<1>2. Last(Said(c)) = Last(c) BY <1>1, SaidLast
<1> QED BY <1>1, <1>2

LEMMA EndToolsStep ==
  ASSUME IInv, EndTools
  PROVE  IInv'
<1>0. Control /\ Types /\ log \in Seq(Entries) BY DEF IInv, Control, Conversation
<1>1. PICK c \in {0, run.calls} :
        run' = [run EXCEPT !.phase = "turnEnd", !.left = 0, !.calls = c]
  BY DEF EndTools
<1>2. /\ run.phase = "tools" /\ run.left < run.calls
      /\ UNCHANGED <<context, log, queue, shown, deferred, session, compaction, manual, caller>>
  BY DEF EndTools
<1>3. /\ run' \in AgentRuns /\ run'.phase = "turnEnd" /\ run'.by = run.by
      /\ run'.pending = run.pending
  <2>1. run \in AgentRuns BY <1>0 DEF Types
  <2>2. 0 \in 0 .. MaxCalls BY BoundsAssumption
  <2> QED BY <1>1, <2>1, <2>2 DEF AgentRuns, Phases
<1>4. Types' BY <1>0, <1>2, <1>3 DEF Types
<1>5. compaction = NoCompaction /\ session.active BY <1>0, <1>2, Alive
<1>6. PhaseOK' BY <1>2, <1>3, <1>5, NoneIsNone DEF IInv, Control, PhaseOK
<1>7. CallersOK' BY <1>0, <1>2, <1>3, <1>5, NoneIsNone, FrameCallers
<1>8. Conversation(context, log)' /\ QueuedOK' /\ DisplayAgrees' /\ EveryMessageOnce'
  BY <1>2, <1>3, FrameAlike, FrameMessages
<1>9. KeptOK' BY <1>2, FrameKept DEF IInv
<1>10. ToolsOK' BY <1>3 DEF ToolsOK
<1>11. EndsOK'
  <2>1. /\ Said(context) # <<>> /\ Said(log) # <<>> /\ Last(Said(context)) = Last(Said(log))
        /\ Last(Said(log)) = Result(ReplyCount, run.calls - run.left)
    BY <1>0, <1>2, Fields DEF IInv, ToolsOK
  <2>2. ~IsReply(Last(Said(log))) BY <2>1 DEF IsReply, Result
  <2>3. ~EndsInReply(context) /\ ~EndsInReply(log)
    BY <2>1, <2>2, ResultLast DEF IInv, Conversation
  <2>4. EndsIn(context, run'.stop) /\ EndsIn(log, run'.stop) BY <2>3 DEF EndsIn
  <2> QED BY <1>2, <1>3, <2>4 DEF EndsOK
<1> QED BY <1>4, <1>6, <1>7, <1>8, <1>9, <1>10, <1>11 DEF IInv, Control

LEMMA CustomsFlushed ==
  ASSUME Types, deferred' = [deferred EXCEPT !.custom = <<>>]
  PROVE  deferred' \in Waitlists /\ deferred'.bash = deferred.bash /\ deferred'.custom = <<>>
<1>1. deferred \in [bash : Seq(Commands), custom : Seq(Told)] BY DEF Types, Waitlists
<1>2. <<>> \in Seq(Told) OBVIOUS
<1> QED BY <1>1, <1>2 DEF Waitlists

(* What is heard after a reply hides it, or is nothing.                    *)
LEMMA EndsAfter ==
  ASSUME NEW c \in Seq(Entries), NEW f \in Seq(Plain), NEW stop, EndsIn(c, stop)
  PROVE  EndsIn(c \o f, stop)
<1>1. CASE f = <<>>
  <2>1. c \o f = c BY <1>1, ConcatEmptySeq
  <2> QED BY <2>1
<1>2. CASE f # <<>>
  <2>1. f \in Seq(Entries) BY Kinds, SeqOfMore
  <2>2. Last(c \o f) = Last(f) BY <1>2, <2>1, LastOfConcat
  <2>3. Last(f) \in Plain BY <1>2, FrontAndLast
  <2>4. Last(f).role # "assistant" BY <2>3, Kinds
  <2>5. ~EndsInReply(c \o f) BY <2>2, <2>4 DEF EndsInReply, IsReply
  <2> QED BY <2>5 DEF EndsIn
<1> QED BY <1>1, <1>2

LEMMA EndTurnStep ==
  ASSUME IInv, EndTurn
  PROVE  IInv'
<1>0. Control /\ Types /\ log \in Seq(Entries) BY DEF IInv, Control, Conversation
<1> DEFINE f == deferred.custom
<1>1. /\ run.phase = "turnEnd" /\ context' = context \o f /\ log' = log \o f
      /\ deferred' = [deferred EXCEPT !.custom = <<>>]
      /\ UNCHANGED <<shown, session, compaction, manual, caller>>
  BY DEF EndTurn, Write, Both
<1>2. PICK q \in {"steer", "followUp"}, phase \in {"ended", "preparing"} :
        /\ Poll(q)
        /\ phase = "ended" => Drained(queue[q]) = <<>>
        /\ run' = [run EXCEPT !.pending = Drained(queue[q]), !.calls = 0, !.phase = phase]
  <2> DEFINE q == IF queue.steer = <<>> /\ run.calls = 0 THEN "followUp" ELSE "steer"
             m == Drained(queue[q])
             phase == IF m = <<>> /\ run.calls = 0 THEN "ended" ELSE "preparing"
  <2>1. Poll(q) /\ run' = [run EXCEPT !.pending = m, !.calls = 0, !.phase = phase]
    BY DEF EndTurn
  <2>2. q \in {"steer", "followUp"} /\ phase \in {"ended", "preparing"} /\ (phase = "ended" => m = <<>>)
    OBVIOUS
  <2> HIDE DEF phase
  <2> QED BY <2>1, <2>2
<1> DEFINE m == Drained(queue[q])
<1>3. m \in Seq(Messages) /\ queue' \in Queues BY <1>0, <1>2, PollFacts
<1>4. f \in Seq(Told) /\ f \in Seq(Plain) /\ f \in Seq(Entries)
  BY <1>0, Fields, PlainFields, Kinds, SeqOfMore
<1>5. deferred' \in Waitlists /\ deferred'.bash = deferred.bash /\ deferred'.custom = <<>>
  BY <1>0, <1>1, CustomsFlushed
<1>6. /\ run' \in AgentRuns /\ run'.phase = phase /\ run'.by = run.by /\ run'.pending = m
      /\ run'.stop = run.stop
  <2>1. run \in AgentRuns BY <1>0 DEF Types
  <2>2. 0 \in 0 .. MaxCalls /\ phase \in Phases BY BoundsAssumption DEF Phases
  <2> HIDE DEF m
  <2>3. run' = [run EXCEPT !.pending = m, !.calls = 0, !.phase = phase] BY <1>2 DEF m
  <2> QED BY <1>3, <2>1, <2>2, <2>3 DEF AgentRuns
<1>7. Types' BY <1>0, <1>1, <1>3, <1>5, <1>6 DEF Types
<1>8. compaction = NoCompaction /\ session.active BY <1>0, <1>1, Alive
<1>9. run.pending = <<>> BY <1>0, <1>1 DEF Control, PhaseOK
<1>10. PhaseOK'
  <2>1. phase = "ended" => m = <<>> BY <1>2
  <2> QED BY <1>1, <1>6, <1>8, <2>1, NoneIsNone DEF IInv, Control, PhaseOK
<1>11. CallersOK' BY <1>0, <1>1, <1>6, <1>8, NoneIsNone, FrameCallers
<1>12. Conversation(context, log)'
  <2>1. Conversation(context \o f, log \o f) BY <1>4, BothHear DEF IInv
  <2> QED BY <1>1, <2>1
<1>13. KeptOK' BY <1>0, <1>1, <1>4, KeptGrows DEF IInv
<1>14. ToolsOK' BY <1>6 DEF ToolsOK
<1>15. EndsOK'
  <2>1. EndsIn(context, run.stop) /\ EndsIn(log, run.stop) /\ context \in Seq(Entries)
    BY <1>1 DEF IInv, EndsOK, Conversation
  <2>2. EndsIn(context \o f, run.stop) /\ EndsIn(log \o f, run.stop)
    BY <1>0, <1>4, <2>1, EndsAfter
  <2>3. EndsIn(context', run'.stop) /\ EndsIn(log', run'.stop) BY <1>1, <1>6, <2>2
  <2>4. run'.phase # "retrying" BY <1>6
  <2> QED BY <2>3, <2>4 DEF EndsOK
<1>16. ToSet(queue.steer) \cup ToSet(queue.followUp)
         = ToSet(queue'.steer) \cup ToSet(queue'.followUp) \cup ToSet(m)
  BY <1>0, <1>2, PollSets
<1>17. QueuedOK' BY <1>0, <1>1, <1>16, ShrinkQueued DEF IInv
<1>18. DisplayAgrees'
  <2>1. ToSet(run.pending) = {} BY <1>9, NoElements
  <2>2. Displayed(queue.steer, queue.followUp, run.pending, shown) BY <1>0, DisplayNow DEF IInv
  <2>3. Displayed(queue'.steer, queue'.followUp, run'.pending, shown')
    BY <1>1, <1>6, <1>16, <2>1, <2>2 DEF Displayed
  <2> QED BY <1>7, <2>3, DisplayNext
<1>19. ASSUME NEW e \in Plain PROVE Places(e)' = Places(e)
  <2> DEFINE a == Occurrences(e, log)
             c == Occurrences(e, deferred.bash)
             d == Occurrences(e, f)
             x == Occurrences(e, queue.steer)
             y == Occurrences(e, queue.followUp)
             xx == Occurrences(e, queue'.steer)
             yy == Occurrences(e, queue'.followUp)
             n == Occurrences(e, m)
  <2>1. /\ a \in Nat /\ c \in Nat /\ d \in Nat /\ x \in Nat /\ y \in Nat
        /\ Places(e) = a + x + y + Occurrences(e, run.pending) + c + d
    BY <1>0, PlacesFacts
  <2>2. Places(e)' = Occurrences(e, log') + xx + yy + n + c + Occurrences(e, <<>>)
    BY <1>5, <1>6 DEF Places
  <2>3. Occurrences(e, log') = a + d BY <1>0, <1>1, <1>4, OccursConcat
  <2>4. Occurrences(e, <<>>) = 0 /\ Occurrences(e, run.pending) = 0 BY <1>9, OccursOne
  <2>5. xx \in Nat /\ yy \in Nat /\ n \in Nat /\ x + y = xx + yy + n BY <1>0, <1>2, PollOccurs
  <2> HIDE DEF a, c, d, x, y, xx, yy, n
  <2> QED BY <2>1, <2>2, <2>3, <2>4, <2>5
<1>20. EveryMessageOnce' BY <1>1, <1>19, FrameAlike, FrameOnce DEF IInv
<1> QED BY <1>7, <1>10, <1>11, <1>12, <1>13, <1>14, <1>15, <1>17, <1>18, <1>20 DEF IInv, Control

(* The parts of a run that a step of the loop leaves alone.                *)
LEMMA WrittenToBoth ==
  ASSUME NEW c, NEW l, c \in Seq(Entries), l \in Seq(Entries), NEW x \in Entries
  PROVE  /\ c \o <<x>> = Append(c, x) /\ l \o <<x>> = Append(l, x)
         /\ Last(c \o <<x>>) = x /\ Last(l \o <<x>>) = x
         /\ c \o <<x>> # <<>> /\ l \o <<x>> # <<>>
<1>1. ASSUME NEW s \in Seq(Entries)
      PROVE  s \o <<x>> = Append(s, x) /\ Last(s \o <<x>>) = x /\ s \o <<x>> # <<>>
  <2> DEFINE w == Append(s, x)
  <2>1. s \o <<x>> = w BY AppendIsConcat
  <2>2. w \in Seq(Entries) /\ Len(w) = Len(s) + 1 /\ w[Len(s) + 1] = x BY AppendElements
  <2>3. Len(s) \in Nat OBVIOUS
  <2> HIDE DEF w
  <2>4. Last(w) = x BY <2>2 DEF Last
  <2>5. w # <<>> BY <2>2, <2>3
  <2> QED BY <2>1, <2>4, <2>5 DEF w
<1> QED BY <1>1

LEMMA ToolStep ==
  ASSUME IInv, Tool
  PROVE  IInv'
<1>0. Control /\ Types /\ log \in Seq(Entries) /\ context \in Seq(Entries)
  BY DEF IInv, Control, Conversation
<1> DEFINE n == ReplyCount
           j == run.calls - run.left + 1
           x == Result(n, j)
<1>1. /\ run.phase = "tools" /\ run.left > 0 /\ run' = [run EXCEPT !.left = @ - 1]
      /\ context' = context \o <<x>> /\ log' = log \o <<x>>
      /\ UNCHANGED <<queue, shown, deferred, session, compaction, manual, caller>>
  BY DEF Tool, Write, Both
<1>2. /\ run.calls \in 0 .. MaxCalls /\ run.left \in 0 .. MaxCalls /\ run.left <= run.calls
      /\ Said(context) # <<>> /\ Said(log) # <<>> /\ Last(Said(context)) = Last(Said(log))
      /\ IF run.left = run.calls THEN IsReply(Last(Said(log))) /\ Last(Said(log)).of = n
         ELSE Last(Said(log)) = Result(n, run.calls - run.left)
  BY <1>0, <1>1, Fields DEF IInv, ToolsOK
<1>3. j \in 1 .. MaxCalls /\ j - 1 = run.calls - run.left /\ (j = 1 <=> run.left = run.calls)
  <2> DEFINE a == run.calls
             b == run.left
  <2>1. a \in 0 .. MaxCalls /\ b \in 0 .. MaxCalls /\ b <= a /\ b > 0 /\ MaxCalls \in Nat
    BY <1>1, <1>2, BoundsAssumption
  <2> HIDE DEF a, b
  <2>2. a - b + 1 \in 1 .. MaxCalls /\ (a - b + 1) - 1 = a - b /\ (a - b + 1 = 1 <=> b = a)
    BY <2>1
  <2> QED BY <2>2 DEF a, b
<1>4. n \in Nat
  <2>1. n = RepliesIn(log) BY DEF ReplyCount, RepliesIn
  <2>2. Compacted(1) \in Entries BY DEF Compacted, Entries
  <2> QED BY <1>0, <2>1, <2>2, RepliesAppend
<1>5. x \in Spoken /\ x \in Entries /\ x \notin Plain /\ x.role = "result" /\ ~IsReply(x) /\ x.of = n /\ x.call = j
  <2>1. x \in Spoken
    <3> HIDE DEF n, j
    <3> QED BY <1>3, <1>4 DEF Spoken, Result
  <2>2. x.role = "result" /\ x.of = n /\ x.call = j BY DEF Result
  <2> HIDE DEF x
  <2> QED BY <2>1, <2>2, Kinds DEF IsReply
<1>6. /\ run' \in AgentRuns /\ run'.phase = "tools" /\ run'.by = run.by /\ run'.pending = run.pending
      /\ run'.left = run.left - 1 /\ run'.calls = run.calls
  <2>1. run \in AgentRuns BY <1>0 DEF Types
  <2>2. run.left - 1 \in 0 .. MaxCalls BY <1>1, <1>2, BoundsAssumption
  <2> QED BY <1>1, <2>1, <2>2 DEF AgentRuns
<1>7. Types' BY <1>0, <1>1, <1>6 DEF Types
<1>8. compaction = NoCompaction /\ session.active BY <1>0, <1>1, Alive
<1>9. PhaseOK' BY <1>1, <1>6, <1>8, NoneIsNone DEF IInv, Control, PhaseOK
<1>10. CallersOK' BY <1>0, <1>1, <1>6, <1>8, NoneIsNone, FrameCallers
<1> HIDE DEF x
<1>11. /\ context' = Append(context, x) /\ log' = Append(log, x)
       /\ Last(context') = x /\ Last(log') = x /\ context' # <<>> /\ log' # <<>>
  BY <1>0, <1>1, <1>5, WrittenToBoth
<1>20. /\ Said(context') # <<>> /\ Last(Said(context')) = x
       /\ Said(log') # <<>> /\ Last(Said(log')) = x
  <2>1. context' \in Seq(Entries) /\ log' \in Seq(Entries) BY <1>0, <1>5, <1>11
  <2>2. ~IsSummary(x) BY <1>5, Kinds
  <2> QED BY <1>11, <2>1, <2>2, SaidLast
<1>12. Conversation(context, log)'
  <2>1. Answers(x, Last(Said(log)))
    <3>1. CASE j = 1 BY <1>2, <1>3, <1>5, <3>1 DEF Answers, IsReply
    <3>2. CASE j # 1
      <4>1. Last(Said(log)) = Result(n, j - 1) BY <1>2, <1>3, <3>2
      <4> HIDE DEF n, j
      <4> QED BY <1>5, <3>2, <4>1 DEF Answers
    <3> QED BY <3>1, <3>2
  <2>2. ResultsFollow(context) /\ ResultsFollow(log) BY DEF IInv, Conversation
  <2>3. ResultsFollow(Append(context, x)) /\ ResultsFollow(Append(log, x))
    BY <1>0, <1>2, <1>5, <2>1, <2>2, FollowAppend
  <2>4. <<x>> \in Seq(Spoken) BY <1>5, OneIsSeq
  <2>5. Conversation(context \o <<x>>, log \o <<x>>)
    <3>1. ResultsFollow(context \o <<x>>) /\ ResultsFollow(log \o <<x>>) BY <1>1, <1>11, <2>3
    <3>2. Conversation(context, log) BY DEF IInv
    <3> DEFINE y == <<x>>
    <3> HIDE DEF y
    <3> QED BY <2>4, <3>1, <3>2, BothGrow DEF y
  <2> QED BY <1>1, <2>5
<1>13. KeptOK'
  <2>1. <<x>> \in Seq(Entries) BY <1>5, OneIsSeq
  <2> DEFINE y == <<x>>
  <2> HIDE DEF y
  <2>2. y \in Seq(Entries) /\ log' = log \o y BY <1>1, <2>1 DEF y
  <2> QED BY <1>0, <1>1, <2>2, KeptGrows DEF IInv
<1>14. ToolsOK'
  <2>1. ReplyCount' = n
    <3>1. ReplyCount' = RepliesIn(log') /\ ReplyCount = RepliesIn(log) BY DEF ReplyCount, RepliesIn
    <3>2. RepliesIn(Append(log, x)) = RepliesIn(log) + 0 BY <1>0, <1>5, RepliesAppend
    <3> QED BY <1>4, <1>11, <3>1, <3>2
  <2>2. run'.calls - run'.left = j /\ run'.left # run'.calls /\ run'.left <= run'.calls /\ run'.calls > 0
    BY <1>1, <1>2, <1>6
  <2>3. Last(Said(log')) = Result(ReplyCount', run'.calls - run'.left)
    <3> HIDE DEF n, j
    <3> QED BY <1>20, <2>1, <2>2 DEF x
  <2>4. Last(Said(context')) = Last(Said(log')) /\ Said(context') # <<>> /\ Said(log') # <<>> BY <1>20
  <2> QED BY <2>2, <2>3, <2>4 DEF ToolsOK
<1>15. EndsOK' BY <1>6 DEF EndsOK
<1>16. QueuedOK' BY <1>0, <1>1, FrameAlike, FrameQueued DEF IInv
<1>17. DisplayAgrees' BY <1>1, <1>6 DEF IInv, DisplayAgrees
<1>18. ASSUME NEW e \in Plain PROVE Places(e)' = Places(e)
  <2>1. Occurrences(e, log') = Occurrences(e, log) + 0 BY <1>0, <1>1, <1>5, WrittenOccurs
  <2>2. Occurrences(e, log) \in Nat BY <1>0, PlacesFacts
  <2> QED BY <1>1, <1>6, <2>1, <2>2 DEF Places
<1>19. EveryMessageOnce' BY <1>1, <1>18, FrameAlike, FrameOnce DEF IInv
<1> QED BY <1>7, <1>9, <1>10, <1>12, <1>13, <1>14, <1>15, <1>16, <1>17, <1>19 DEF IInv, Control

LEMMA FollowResults ==
  ASSUME NEW c \in Seq(Entries), ResultsFollow(c), Said(c) # <<>>, NEW n, NEW k \in Nat,
         NEW results \in Seq(Spoken), results = [i \in 1 .. k |-> Result(n, i)],
         Last(Said(c)).role = "assistant", Last(Said(c)).of = n
  PROVE  ResultsFollow(c \o results)
<1> DEFINE w == Said(c)
           cc == c \o results
<1>1. w \in Seq(Entries) /\ Chained(w) BY SaidFacts
<1>2. results \in Seq(Entries) BY Kinds, SeqOfMore
<1>3. Said(cc) = w \o results BY SaidConcat
<1>4. cc \in Seq(Entries) BY <1>2, ConcatProperties
<1>5. w # <<>> /\ Last(w).role = "assistant" /\ Last(w).of = n OBVIOUS
<1> HIDE DEF w, cc
<1>6. Chained(w \o results) BY <1>1, <1>2, <1>5, ChainResults
<1>7. ResultsFollow(cc) BY <1>3, <1>4, <1>6, SaidFacts
<1> QED BY <1>7 DEF cc

(* A reply, the results that some replies get at once, and what was        *)
(* deferred to its end.                                                    *)
LEMMA ReplyWritten ==
  ASSUME NEW c \in Seq(Entries), ResultsFollow(c), NEW x \in Spoken, x.role = "assistant",
         NEW k \in Nat, NEW results \in Seq(Spoken), results = [i \in 1 .. k |-> Result(x.of, i)],
         NEW d \in Seq(Plain)
  PROVE  LET w == c \o ((<<x>> \o results) \o d) IN
         /\ ResultsFollow(w) /\ w # <<>>
         /\ IsReply(Last(w)) => Last(w) = x
<1> DEFINE a == Append(c, x)
           y == <<x>>
           b == a \o results
           w == b \o d
<1>1. x \in Entries /\ results \in Seq(Entries) /\ d \in Seq(Entries) /\ y \in Seq(Entries)
      /\ \A i \in 1 .. Len(d) : d[i].role \in {"user", "custom", "bash"}
  <2>1. results \in Seq(Entries) /\ d \in Seq(Entries) BY Kinds, SeqOfMore
  <2>2. x \in Entries BY Kinds
  <2>3. \A i \in 1 .. Len(d) : d[i] \in Plain OBVIOUS
  <2> QED BY <2>1, <2>2, <2>3, Kinds, OneIsSeq
<1>2. a \in Seq(Entries) /\ a = c \o y /\ Len(a) = Len(c) + 1 /\ a[Len(c) + 1] = x /\ a # <<>>
      /\ Len(c) \in Nat /\ Last(a) = x
  <2>1. a \in Seq(Entries) /\ Len(a) = Len(c) + 1 /\ a[Len(c) + 1] = x BY <1>1, AppendElements
  <2>2. a = c \o y BY <1>1, AppendIsConcat
  <2>3. Len(c) \in Nat OBVIOUS
  <2> HIDE DEF a
  <2>4. a # <<>> BY <2>1, <2>3
  <2>5. Last(a) = x BY <2>1 DEF Last
  <2> QED BY <2>1, <2>2, <2>3, <2>4, <2>5
<1>3. ResultsFollow(a) BY <1>1, FollowAppend
<1> HIDE DEF a, y
<1>4. ResultsFollow(b)
  <2>1. ~IsSummary(x) BY Kinds
  <2>2. Said(a) # <<>> /\ Last(Said(a)) = x BY <1>2, <2>1, SaidLast
  <2> QED BY <1>2, <1>3, <2>2, FollowResults
<1>5. /\ b \in Seq(Entries) /\ Len(b) = Len(a) + Len(results)
      /\ \A i \in 1 .. Len(a) : b[i] = a[i]
      /\ \A i \in 1 .. Len(results) : b[Len(a) + i] = results[i]
  <2>1. a \in Seq(Entries) /\ results \in Seq(Entries) BY <1>1, <1>2
  <2> QED BY <2>1, ConcatElements
<1> HIDE DEF b
<1>6. /\ w \in Seq(Entries) /\ Len(w) = Len(b) + Len(d)
      /\ \A i \in 1 .. Len(b) : w[i] = b[i]
      /\ \A i \in 1 .. Len(d) : w[Len(b) + i] = d[i]
  <2>1. b \in Seq(Entries) /\ d \in Seq(Entries) BY <1>1, <1>5
  <2> QED BY <2>1, ConcatElements
<1>7. ResultsFollow(w)
  <2>1. d \in Seq(Spoken) BY Kinds, SeqOfMore
  <2>2. \A i \in 1 .. Len(d) : d[i].role # "result" BY <1>1
  <2> QED BY <1>4, <1>5, <2>1, <2>2, FollowConcat
<1>8. w = c \o ((y \o results) \o d)
  <2>1. b = c \o (y \o results)
    <3>1. c \o (y \o results) = (c \o y) \o results BY <1>1, ConcatRegroup
    <3> QED BY <1>2, <3>1 DEF b
  <2> DEFINE z == y \o results
  <2>2. z \in Seq(Entries) BY <1>1, ConcatProperties
  <2> HIDE DEF z
  <2>3. (c \o z) \o d = c \o (z \o d)
    <3>1. d \in Seq(Entries) BY <1>1
    <3>2. c \o (z \o d) = (c \o z) \o d BY <2>2, <3>1, ConcatRegroup
    <3> QED BY <3>2
  <2> QED BY <2>1, <2>3 DEF z
<1> HIDE DEF w
<1>9. Len(w) \in Nat /\ Len(d) \in Nat /\ Len(results) = k /\ Len(w) = Len(c) + 1 + k + Len(d)
  <2>1. Len(results) = k OBVIOUS
  <2>2. Len(d) \in Nat /\ Len(w) \in Nat BY <1>6
  <2> QED BY <1>2, <1>5, <1>6, <2>1, <2>2
<1>10. Last(w) = w[Len(w)] BY DEF Last
<1>11. IsReply(Last(w)) => Last(w) = x
  <2>1. CASE Len(d) > 0
    <3>1. Len(d) \in 1 .. Len(d) BY <1>9, <2>1
    <3>2. w[Len(w)] = d[Len(d)] BY <1>6, <3>1
    <3>3. Last(w).role # "assistant" BY <1>1, <1>10, <3>1, <3>2
    <3> QED BY <3>3 DEF IsReply
  <2>2. CASE Len(d) = 0 /\ k > 0
    <3>1. Len(results) \in 1 .. Len(results) /\ Len(w) = Len(b) BY <1>5, <1>6, <1>9, <2>2
    <3>2. Len(b) = Len(a) + k BY <1>5, <1>9
    <3>3. b[Len(b)] = results[k] BY <1>5, <1>9, <3>1, <3>2
    <3>4. Len(b) \in 1 .. Len(b) BY <1>2, <1>9, <3>1
    <3>5. w[Len(w)] = results[k] BY <1>6, <3>1, <3>3, <3>4
    <3>6. results[k] = Result(x.of, k) BY <2>2
    <3>7. Last(w).role = "result" BY <1>10, <3>5, <3>6 DEF Result
    <3> QED BY <3>7 DEF IsReply
  <2>3. CASE Len(d) = 0 /\ k = 0
    <3>1. Len(w) = Len(b) /\ Len(b) = Len(a) /\ Len(a) \in 1 .. Len(a) /\ Len(a) = Len(c) + 1
      BY <1>2, <1>5, <1>6, <1>9, <2>3
    <3>2. b[Len(a)] = a[Len(a)] BY <1>5, <3>1
    <3>3. w[Len(a)] = b[Len(a)] BY <1>6, <3>1
    <3> QED BY <1>2, <1>10, <3>1, <3>2, <3>3
  <2> QED BY <1>9, <2>1, <2>2, <2>3
<1>12. w # <<>> BY <1>2, <1>9
<1> QED BY <1>7, <1>8, <1>11, <1>12 DEF y

LEMMA StreamStep ==
  ASSUME IInv, Stream
  PROVE  IInv'
<1>0. Control /\ Types /\ log \in Seq(Entries) /\ context \in Seq(Entries)
  BY DEF IInv, Control, Conversation
<1>1. PICK r \in Replies :
        LET ends    == r.stop \in {"error", "overflow", "aborted"}
            results == IF r.stop = "length" THEN [i \in 1 .. r.calls |-> Result(ReplyCount + 1, i)]
                       ELSE <<>>
        IN
        /\ Possible(r)
        /\ Write(<<Reply(ReplyCount + 1, r.stop, r.calls)>> \o results
                   \o (IF ends THEN deferred.custom ELSE <<>>))
        /\ deferred' = IF ends THEN [deferred EXCEPT !.custom = <<>>] ELSE deferred
        /\ run' = [run EXCEPT !.stop = r.stop, !.calls = r.calls,
                              !.left = IF r.stop = "tools" THEN r.calls ELSE 0,
                              !.phase = IF ends THEN "ended"
                                        ELSE IF r.stop = "tools" THEN "tools" ELSE "turnEnd"]
        /\ session' = [session EXCEPT !.retry = IF r.stop \in {"error", "overflow"} THEN @ ELSE 0,
                                      !.recovered = @ /\ r.stop \in Failed]
  BY DEF Stream
<1>2. run.phase = "streaming" /\ UNCHANGED <<queue, shown, compaction, manual, caller>>
  BY DEF Stream
<1> DEFINE n == ReplyCount + 1
           x == Reply(n, r.stop, r.calls)
           y == <<x>>
           ends == r.stop \in {"error", "overflow", "aborted"}
           k == IF r.stop = "length" THEN r.calls ELSE 0
           results == IF r.stop = "length" THEN [i \in 1 .. r.calls |-> Result(n, i)] ELSE <<>>
           d == IF ends THEN deferred.custom ELSE <<>>
           msgs == (y \o results) \o d
           phase == IF ends THEN "ended" ELSE IF r.stop = "tools" THEN "tools" ELSE "turnEnd"
<1>3. /\ context' = context \o msgs /\ log' = log \o msgs
      /\ deferred' = IF ends THEN [deferred EXCEPT !.custom = <<>>] ELSE deferred
  BY <1>1 DEF Write, Both
<1>4. r.stop \in Stops /\ r.calls \in 0 .. MaxCalls /\ (r.stop = "tools" => r.calls > 0)
  BY <1>1 DEF Replies, Possible
<1>5. n \in Nat /\ RepliesIn(log) + 1 = n
  <2>1. ReplyCount = RepliesIn(log) BY DEF ReplyCount, RepliesIn
  <2>2. Compacted(1) \in Entries BY DEF Compacted, Entries
  <2>3. RepliesIn(log) \in Nat BY <1>0, <2>2, RepliesAppend
  <2> QED BY <2>1, <2>3
<1>6. /\ x \in Spoken /\ x \in Entries /\ x \notin Plain /\ x.role = "assistant" /\ x.of = n
      /\ x.stop = r.stop /\ IsReply(x)
  <2>1. x \in Spoken
    <3> HIDE DEF n
    <3> QED BY <1>4, <1>5 DEF Spoken, Reply
  <2>2. x.role = "assistant" /\ x.of = n /\ x.stop = r.stop BY DEF Reply
  <2> HIDE DEF x
  <2> QED BY <2>1, <2>2, Kinds DEF IsReply
<1>7. k \in Nat /\ k <= MaxCalls BY <1>4, BoundsAssumption
<1>8. results = [i \in 1 .. k |-> Result(x.of, i)]
  <2> HIDE DEF n, x
  <2>1. CASE r.stop = "length" BY <1>6, <2>1
  <2>2. CASE r.stop # "length"
    <3>1. 1 .. k = {} BY <2>2
    <3> QED BY <2>2, <3>1
  <2> QED BY <2>1, <2>2
<1>9. /\ results \in Seq(Spoken) /\ results \in Seq(Entries)
      /\ \A e \in Plain : Occurrences(e, results) = 0
  <2> HIDE DEF n, x, k, results
  <2>1. \A i \in 1 .. k : Result(x.of, i) \in Spoken /\ Result(x.of, i).role = "result"
    BY <1>5, <1>6, <1>7, BoundsAssumption DEF Spoken, Result
  <2>2. results \in Seq(Spoken) BY <1>7, <1>8, <2>1
  <2>3. ToSet(results) \subseteq {Result(x.of, i) : i \in 1 .. k} BY <1>7, <1>8 DEF ToSet
  <2>4. ASSUME NEW e \in Plain PROVE e \notin ToSet(results)
    BY <2>1, <2>3, Kinds
  <2> QED BY <2>2, <2>4, OccursFacts, Kinds, SeqOfMore
<1>10. d \in Seq(Plain) /\ d \in Seq(Entries)
  <2>1. deferred.custom \in Seq(Plain) /\ <<>> \in Seq(Plain) BY <1>0, PlainFields
  <2>2. d \in Seq(Plain) BY <2>1
  <2> QED BY <2>2, Kinds, SeqOfMore
<1>11. y \in Seq(Spoken) /\ y \in Seq(Entries)
  <2> HIDE DEF x
  <2> QED BY <1>6, OneIsSeq
<1>12. /\ deferred' \in Waitlists /\ deferred'.bash = deferred.bash
       /\ deferred'.custom = IF ends THEN <<>> ELSE deferred.custom
  BY <1>0, <1>3, CustomsFlushed DEF Types
<1>13. /\ run' \in AgentRuns /\ run'.phase = phase /\ run'.by = run.by /\ run'.pending = run.pending
       /\ run'.stop = r.stop /\ run'.calls = r.calls
       /\ run'.left = IF r.stop = "tools" THEN r.calls ELSE 0
  <2>1. run \in AgentRuns BY <1>0 DEF Types
  <2>2. 0 \in 0 .. MaxCalls /\ phase \in Phases BY BoundsAssumption DEF Phases
  <2> DEFINE left == IF r.stop = "tools" THEN r.calls ELSE 0
  <2>3. left \in 0 .. MaxCalls BY <1>4, <2>2
  <2>4. run' = [run EXCEPT !.stop = r.stop, !.calls = r.calls, !.left = left, !.phase = phase]
    BY <1>1
  <2> HIDE DEF left, phase
  <2>5. /\ run' \in AgentRuns /\ run'.phase = phase /\ run'.by = run.by /\ run'.pending = run.pending
        /\ run'.stop = r.stop /\ run'.calls = r.calls /\ run'.left = left
    BY <1>4, <2>1, <2>2, <2>3, <2>4 DEF AgentRuns
  <2> QED BY <2>5 DEF left
<1>14. session' \in Sessions /\ session'.active = session.active
  <2>1. session \in Sessions BY <1>0 DEF Types
  <2>2. 0 \in 0 .. MaxRetries BY BoundsAssumption
  <2> QED BY <1>1, <2>1, <2>2 DEF Sessions
<1>15. Types' BY <1>0, <1>2, <1>12, <1>13, <1>14 DEF Types
<1>16. compaction = NoCompaction /\ session.active /\ run.pending = <<>>
  BY <1>0, <1>2, Alive DEF Control, PhaseOK
<1>17. phase \in {"ended", "tools", "turnEnd"} OBVIOUS
<1>18. PhaseOK'
  <2> HIDE DEF phase
  <2> QED BY <1>2, <1>13, <1>14, <1>16, <1>17, NoneIsNone DEF IInv, Control, PhaseOK
<1>19. CallersOK'
  <2> HIDE DEF phase
  <2> QED BY <1>0, <1>2, <1>13, <1>14, <1>16, <1>17, NoneIsNone, FrameCallers
<1> HIDE DEF n, x, k, results, d
<1>20. /\ ResultsFollow(context \o msgs) /\ ResultsFollow(log \o msgs)
       /\ IsReply(Last(context')) => Last(context') = x
       /\ IsReply(Last(log')) => Last(log') = x
  <2>1. ResultsFollow(context) /\ ResultsFollow(log) BY DEF IInv, Conversation
  <2>2. x \in Spoken /\ x.role = "assistant" /\ k \in Nat /\ results \in Seq(Spoken)
        /\ results = [i \in 1 .. k |-> Result(x.of, i)] /\ d \in Seq(Plain)
    BY <1>6, <1>7, <1>8, <1>9, <1>10
  <2>3. ASSUME NEW c \in Seq(Entries), ResultsFollow(c)
        PROVE  /\ ResultsFollow(c \o msgs) /\ c \o msgs # <<>>
               /\ IsReply(Last(c \o msgs)) => Last(c \o msgs) = x
    BY <2>2, <2>3, ReplyWritten
  <2> HIDE DEF msgs
  <2> QED BY <1>0, <1>3, <2>1, <2>3
<1>21. msgs \in Seq(Spoken) /\ msgs \in Seq(Entries)
  <2>1. d \in Seq(Spoken) BY <1>10, Kinds, SeqOfMore
  <2> DEFINE z == y \o results
  <2>2. z \in Seq(Spoken) BY <1>9, <1>11, ConcatProperties
  <2> HIDE DEF z
  <2>3. z \o d \in Seq(Spoken) BY <2>1, <2>2, ConcatProperties
  <2>4. msgs = z \o d BY DEF z
  <2> HIDE DEF msgs
  <2> QED BY <2>3, <2>4, Kinds, SeqOfMore
<1>22. Conversation(context, log)'
  <2>1. Conversation(context, log) BY DEF IInv
  <2> HIDE DEF msgs
  <2>2. Conversation(context \o msgs, log \o msgs) BY <1>20, <1>21, <2>1, BothGrow
  <2> QED BY <1>3, <2>2
<1>23. KeptOK'
  <2> HIDE DEF msgs
  <2> QED BY <1>0, <1>2, <1>3, <1>21, KeptGrows DEF IInv
<1>24. ToolsOK'
  <2> SUFFICES ASSUME r.stop = "tools" PROVE ToolsOK'
    BY <1>13 DEF ToolsOK
  <2>1. results = <<>> /\ d = <<>> BY DEF results, d
  <2>2. msgs = y
    <3> HIDE DEF y
    <3>1. y \o <<>> = y BY <1>11, ConcatEmptySeq
    <3> QED BY <2>1, <3>1
  <2>3. /\ log' = Append(log, x) /\ Last(context') = x /\ Last(log') = x
        /\ context' # <<>> /\ log' # <<>>
    BY <1>0, <1>3, <1>6, <2>2, WrittenToBoth
  <2>10. /\ Said(context') # <<>> /\ Last(Said(context')) = x
         /\ Said(log') # <<>> /\ Last(Said(log')) = x
    <3>1. context' \in Seq(Entries) /\ log' \in Seq(Entries) BY <1>22 DEF Conversation
    <3>2. ~IsSummary(x) BY <1>6, Kinds
    <3> QED BY <2>3, <3>1, <3>2, SaidLast
  <2>4. ReplyCount' = n
    <3>1. ReplyCount' = RepliesIn(log') BY DEF ReplyCount, RepliesIn
    <3>2. RepliesIn(Append(log, x)) = RepliesIn(log) + 1 BY <1>0, <1>6, RepliesAppend
    <3> QED BY <1>5, <2>3, <3>1, <3>2
  <2>5. run'.calls > 0 /\ run'.left = run'.calls BY <1>4, <1>13
  <2>6. run'.calls \in Nat BY <1>4, <1>13, BoundsAssumption
  <2>7. IsReply(Last(Said(log'))) /\ Last(Said(log')).of = ReplyCount' BY <1>6, <2>4, <2>10
  <2>8. run'.left <= run'.calls BY <2>5, <2>6
  <2>9. Last(Said(context')) = Last(Said(log')) /\ Said(context') # <<>> /\ Said(log') # <<>> BY <2>10
  <2> QED BY <2>5, <2>7, <2>8, <2>9 DEF ToolsOK
<1>25. EndsOK'
  <2>1. EndsIn(context', r.stop) /\ EndsIn(log', r.stop) BY <1>6, <1>20 DEF EndsIn, EndsInReply
  <2>2. run'.phase # "retrying" BY <1>13
  <2> QED BY <1>13, <2>1, <2>2 DEF EndsOK
<1>26. QueuedOK' BY <1>0, <1>2, FrameAlike, FrameQueued DEF IInv
<1>27. DisplayAgrees' BY <1>2, <1>13 DEF IInv, DisplayAgrees
<1>28. ASSUME NEW e \in Plain PROVE Places(e)' = Places(e)
  <2> DEFINE o == Occurrences(e, log)
             c == Occurrences(e, deferred.custom)
             q == Occurrences(e, queue.steer)
             f == Occurrences(e, queue.followUp)
             g == Occurrences(e, run.pending)
             b == Occurrences(e, deferred.bash)
  <2>1. /\ o \in Nat /\ c \in Nat /\ q \in Nat /\ f \in Nat /\ g \in Nat /\ b \in Nat
        /\ Places(e) = o + q + f + g + b + c
    BY <1>0, PlacesFacts
  <2>2. Places(e)' = Occurrences(e, log') + q + f + g + b + Occurrences(e, deferred'.custom)
    BY <1>2, <1>12, <1>13 DEF Places
  <2>3. Occurrences(e, log') = o + Occurrences(e, d)
    <3> DEFINE z == y \o results
    <3>1. z \in Seq(Entries) BY <1>9, <1>11, ConcatProperties
    <3>2. Occurrences(e, z) = Occurrences(e, y) + Occurrences(e, results)
      BY <1>9, <1>11, OccursConcat
    <3>3. Occurrences(e, y) = 0 BY <1>6, OccursOne
    <3>4. Occurrences(e, results) = 0 BY <1>9
    <3> HIDE DEF z
    <3>5. Occurrences(e, z \o d) = Occurrences(e, z) + Occurrences(e, d) BY <1>10, <3>1, OccursConcat
    <3>6. msgs = z \o d BY DEF z
    <3> HIDE DEF msgs
    <3>7. Occurrences(e, log') = Occurrences(e, log) + Occurrences(e, msgs)
      BY <1>0, <1>3, <1>21, OccursConcat
    <3>8. Occurrences(e, d) \in Nat BY <1>10, OccursFacts
    <3> QED BY <3>2, <3>3, <3>4, <3>5, <3>6, <3>7, <3>8
  <2>4. Occurrences(e, <<>>) = 0 BY OccursOne
  <2>5. Occurrences(e, d) + Occurrences(e, deferred'.custom) = c
    <3>1. CASE ends BY <1>12, <2>1, <2>4, <3>1 DEF d
    <3>2. CASE ~ends BY <1>12, <2>1, <2>4, <3>2 DEF d
    <3> QED BY <3>1, <3>2
  <2>6. Occurrences(e, d) \in Nat /\ Occurrences(e, deferred'.custom) \in Nat
    <3>1. deferred'.custom \in Seq(Told) BY <1>12 DEF Waitlists
    <3> QED BY <1>10, <3>1, OccursFacts
  <2> HIDE DEF o, c, q, f, g, b
  <2> QED BY <2>1, <2>2, <2>3, <2>5, <2>6
<1>29. EveryMessageOnce' BY <1>2, <1>28, FrameAlike, FrameOnce DEF IInv
<1> QED BY <1>15, <1>18, <1>19, <1>22, <1>23, <1>24, <1>25, <1>26, <1>27, <1>29 DEF IInv, Control

(* The second poll of a turn: a message moves from the queue to what is    *)
(* pending, if nothing was.                                                *)
LEMMA ReadyFacts ==
  ASSUME Types, QueuedOK, DisplayAgrees, EveryMessageOnce, Ready, log \in Seq(Entries),
         UNCHANGED <<shown, deferred, caller>>,
         \A e \in Plain : Occurrences(e, log') = Occurrences(e, log)
  PROVE  /\ run' \in AgentRuns /\ run'.phase = "ready" /\ run'.by = run.by
         /\ queue' \in Queues /\ QueuedOK' /\ EveryMessageOnce'
         /\ Displayed(queue'.steer, queue'.followUp, run'.pending, shown')
<1>0. run \in AgentRuns /\ "ready" \in Phases BY DEF Types, Phases
<1>1. Displayed(queue.steer, queue.followUp, run.pending, shown) BY DisplayNow
<1>2. CASE run.pending = <<>>
  <2> DEFINE m == Drained(queue["steer"])
  <2>1. Poll("steer") /\ run' = [run EXCEPT !.phase = "ready", !.pending = m]
    BY <1>2 DEF Ready
  <2>2. m \in Seq(Messages) /\ queue' \in Queues BY <2>1, PollFacts
  <2>3. ToSet(queue.steer) \cup ToSet(queue.followUp)
          = ToSet(queue'.steer) \cup ToSet(queue'.followUp) \cup ToSet(m)
    BY <2>1, PollSets
  <2>4. QueuedOK' BY <2>3, FrameAlike, ShrinkQueued
  <2>5. ASSUME NEW e \in Plain PROVE Places(e)' = Places(e)
    <3> DEFINE a == Occurrences(e, log)
               c == Occurrences(e, deferred.bash)
               d == Occurrences(e, deferred.custom)
               x == Occurrences(e, queue.steer)
               y == Occurrences(e, queue.followUp)
               xx == Occurrences(e, queue'.steer)
               yy == Occurrences(e, queue'.followUp)
               n == Occurrences(e, m)
    <3>0. run'.pending = m BY <1>0, <2>1 DEF AgentRuns
    <3>1. /\ a \in Nat /\ c \in Nat /\ d \in Nat /\ x \in Nat /\ y \in Nat
          /\ Places(e) = a + x + y + Occurrences(e, run.pending) + c + d
      BY PlacesFacts
    <3>2. Places(e)' = Occurrences(e, log') + xx + yy + n + c + d
      BY <3>0 DEF Places
    <3>3. Occurrences(e, log') = a OBVIOUS
    <3>4. Occurrences(e, run.pending) = 0 BY <1>2, OccursOne
    <3>5. xx \in Nat /\ yy \in Nat /\ n \in Nat /\ x + y = xx + yy + n BY <2>1, PollOccurs
    <3> HIDE DEF a, c, d, x, y, xx, yy, n
    <3> QED BY <3>1, <3>2, <3>3, <3>4, <3>5
  <2>6. EveryMessageOnce' BY <2>5, FrameAlike, FrameOnce
  <2> HIDE DEF m
  <2>7. run' \in AgentRuns /\ run'.phase = "ready" /\ run'.by = run.by /\ run'.pending = m
    BY <1>0, <2>1, <2>2 DEF AgentRuns, m
  <2>8. Displayed(queue'.steer, queue'.followUp, run'.pending, shown')
    <3>1. ToSet(run.pending) = {} BY <1>2, NoElements
    <3> QED BY <1>1, <2>3, <2>7, <3>1 DEF Displayed
  <2> QED BY <2>2, <2>4, <2>6, <2>7, <2>8
<1>3. CASE run.pending # <<>>
  <2>1. /\ run' = [run EXCEPT !.phase = "ready", !.pending = run.pending] /\ UNCHANGED queue
    BY <1>3 DEF Ready
  <2>2. run' \in AgentRuns /\ run'.phase = "ready" /\ run'.by = run.by /\ run'.pending = run.pending
    BY <1>0, <2>1 DEF AgentRuns
  <2>3. QueuedOK' BY <2>1, FrameAlike, FrameQueued
  <2>4. ASSUME NEW e \in Plain PROVE Places(e)' = Places(e)
    <3>1. Occurrences(e, log') = Occurrences(e, log) OBVIOUS
    <3> QED BY <2>1, <2>2, <3>1 DEF Places
  <2>5. EveryMessageOnce' BY <2>4, FrameAlike, FrameOnce
  <2>6. Displayed(queue'.steer, queue'.followUp, run'.pending, shown') BY <1>1, <2>1, <2>2
  <2>7. queue' \in Queues BY <2>1 DEF Types
  <2> QED BY <2>2, <2>3, <2>5, <2>6, <2>7
<1> QED BY <1>2, <1>3

LEMMA PrepareStep ==
  ASSUME IInv, Prepare
  PROVE  IInv'
<1>0. Control /\ Types /\ log \in Seq(Entries) BY DEF IInv, Control, Conversation
<1>1. /\ run.phase = "preparing" /\ UNCHANGED <<context, log, shown, deferred, session, manual, caller>>
      /\ \/ Ready /\ UNCHANGED compaction
         \/ /\ StartsCompaction("turn", FALSE) /\ run' = [run EXCEPT !.phase = "compacting"]
            /\ UNCHANGED queue
  BY DEF Prepare
<1>2. compaction = NoCompaction /\ session.active BY <1>0, <1>1, Alive
<1>3. Conversation(context, log)' BY <1>1 DEF IInv
<1>4. CASE Ready /\ UNCHANGED compaction
  <2>1. /\ run' \in AgentRuns /\ run'.phase = "ready" /\ run'.by = run.by
        /\ queue' \in Queues /\ QueuedOK' /\ EveryMessageOnce'
        /\ Displayed(queue'.steer, queue'.followUp, run'.pending, shown')
    BY <1>0, <1>1, <1>4, ReadyFacts DEF IInv
  <2>2. Types' BY <1>0, <1>1, <1>4, <2>1 DEF Types
  <2>3. PhaseOK' BY <1>1, <1>2, <1>4, <2>1, NoneIsNone DEF IInv, Control, PhaseOK
  <2>4. CallersOK' BY <1>0, <1>1, <1>2, <1>4, <2>1, NoneIsNone, FrameCallers
  <2>5. KeptOK' BY <1>1, <1>4, FrameKept DEF IInv
  <2>6. ToolsOK' /\ EndsOK' BY <2>1, NoTurn
  <2>7. DisplayAgrees' BY <2>1, <2>2, DisplayNext
  <2> QED BY <1>3, <2>1, <2>2, <2>3, <2>4, <2>5, <2>6, <2>7 DEF IInv, Control
<1>5. CASE /\ StartsCompaction("turn", FALSE) /\ run' = [run EXCEPT !.phase = "compacting"]
           /\ UNCHANGED queue
  <2>1. compaction' \in Compactions /\ compaction'.for = "turn" /\ KeptOK'
    BY <1>1, <1>5, StartsFacts
  <2>2. run' \in AgentRuns /\ run'.phase = "compacting" /\ run'.by = run.by /\ run'.pending = run.pending
    <3>1. run \in AgentRuns BY <1>0 DEF Types
    <3> QED BY <1>5, <3>1 DEF AgentRuns, Phases
  <2>3. Types' BY <1>0, <1>1, <1>5, <2>1, <2>2 DEF Types
  <2>4. PhaseOK' BY <1>1, <1>2, <2>1, <2>2 DEF IInv, Control, PhaseOK
  <2>5. CallersOK' BY <1>0, <1>1, <1>2, <2>1, <2>2, FrameCallers
  <2>6. QueuedOK' /\ DisplayAgrees' /\ EveryMessageOnce'
    BY <1>1, <1>5, <2>2, FrameAlike, FrameMessages
  <2>7. ToolsOK' /\ EndsOK' BY <2>2, NoTurn
  <2> QED BY <1>3, <2>1, <2>3, <2>4, <2>5, <2>6, <2>7 DEF IInv, Control
<1> QED BY <1>1, <1>4, <1>5

(* What a compaction leaves holds the messages that the branch held.       *)
LEMMA OutcomeOccurs ==
  ASSUME Conversation(context, log), NEW k, KeptAt(log, k),
         NEW aborted \in BOOLEAN, NEW retry \in BOOLEAN, NEW o \in Outcomes(k, aborted, retry),
         NEW e \in Plain
  PROVE  Occurrences(e, o.log) = Occurrences(e, log)
<1>1. o.log = log \/ o.log = Append(log, Compacted(k)) BY OutcomesAgree
<1>2. log \in Seq(Entries) /\ k \in DOMAIN log BY DEF Conversation, KeptAt
<1>3. CASE o.log = Append(log, Compacted(k))
  <2> DEFINE x == Compacted(k)
  <2>1. k \in Nat BY <1>2
  <2>2. x \in Entries BY <2>1 DEF Compacted, Entries
  <2>3. IsSummary(x) BY DEF Compacted, IsSummary
  <2>4. x # e BY <2>3, Kinds
  <2> HIDE DEF x
  <2>5. Occurrences(e, Append(log, x)) = Occurrences(e, log) + 0 BY <1>2, <2>2, <2>4, OccursAppend
  <2>6. Occurrences(e, log) \in Nat BY <1>2, OccursFacts
  <2> QED BY <1>3, <2>5, <2>6 DEF x
<1> QED BY <1>1, <1>3

LEMMA KeptStays ==
  ASSUME log \in Seq(Entries), NEW n, KeptAt(log, n), NEW l,
         l = log \/ l = Append(log, Compacted(n))
  PROVE  \A k : KeptAt(log, k) => KeptAt(l, k)
<1>1. CASE l = log BY <1>1
<1>2. CASE l = Append(log, Compacted(n))
  <2> DEFINE t == <<Compacted(n)>>
             w == log \o t
  <2>1. n \in Nat BY DEF KeptAt
  <2>2. Compacted(n) \in Entries BY <2>1 DEF Compacted, Entries
  <2>3. t \in Seq(Entries) BY <2>2, OneIsSeq
  <2>4. l = w BY <1>2, <2>2, AppendIsConcat
  <2> SUFFICES ASSUME NEW k \in DOMAIN log, log[k].role \notin {"result", "summary"}
               PROVE  KeptAt(l, k)
    BY DEF KeptAt
  <2> HIDE DEF t
  <2>5. k \in DOMAIN w /\ w[k] = log[k] BY <2>3, PositionsStay
  <2> HIDE DEF w
  <2> QED BY <2>4, <2>5 DEF KeptAt
<1> QED BY <1>1, <1>2

(* The branch grows by at most a summary, and one compaction ends.         *)
LEMMA KeptCompacted ==
  ASSUME KeptOK, log \in Seq(Entries), NEW n, KeptAt(log, n),
         log' = log \/ log' = Append(log, Compacted(n)),
         compaction'.for # "none" => compaction'.for = compaction.for /\ compaction'.kept = compaction.kept,
         caller'["compact"] = "compacting" => caller["compact"] = "compacting" /\ manual'.kept = manual.kept
  PROVE  KeptOK'
<1>1. \A k : KeptAt(log, k) => KeptAt(log', k) BY KeptStays
<1>2. compaction'.for # "none" => KeptAt(log, compaction'.kept) BY DEF KeptOK
<1>3. caller'["compact"] = "compacting" => KeptAt(log, manual'.kept) BY DEF KeptOK
<1> QED BY <1>1, <1>2, <1>3 DEF KeptOK

(* The end of an automatic compaction.                                     *)
LEMMA AutoFacts ==
  ASSUME IInv, compaction.for # "none", NEW o \in AutoOutcomes
  PROVE  /\ Conversation(o.context, o.log)
         /\ \A e \in Plain : Occurrences(e, o.log) = Occurrences(e, log)
         /\ KeptAt(log, compaction.kept) /\ \A k : KeptAt(log, k) => KeptAt(o.log, k)
         /\ o.log = log \/ o.log = Append(log, Compacted(compaction.kept))
<1> DEFINE k == compaction.kept
           a == compaction.aborted
           b == compaction.retry
<1>1. KeptAt(log, k) /\ Conversation(context, log) BY DEF IInv, KeptOK
<1>2. a \in BOOLEAN /\ b \in BOOLEAN BY DEF IInv, Control, Types, Compactions
<1>3. o \in Outcomes(k, a, b) BY DEF AutoOutcomes
<1> HIDE DEF k, a, b
<1>4. Conversation(o.context, o.log) /\ (o.log = log \/ o.log = Append(log, Compacted(k)))
  BY <1>1, <1>2, <1>3, OutcomesAgree
<1>5. \A e \in Plain : Occurrences(e, o.log) = Occurrences(e, log)
  BY <1>1, <1>2, <1>3, OutcomeOccurs
<1>6. \A j : KeptAt(log, j) => KeptAt(o.log, j) BY <1>1, <1>4, KeptStays DEF Conversation
<1> QED BY <1>1, <1>4, <1>5, <1>6 DEF k

LEMMA TurnCompactedStep ==
  ASSUME IInv, TurnCompacted
  PROVE  IInv'
<1>0. Control /\ Types /\ log \in Seq(Entries) BY DEF IInv, Control, Conversation
<1>1. PICK o \in AutoOutcomes : context' = o.context /\ log' = o.log BY DEF TurnCompacted
<1>2. /\ compaction.for = "turn" /\ compaction' = NoCompaction /\ Ready
      /\ UNCHANGED <<shown, deferred, session, manual, caller>>
  BY DEF TurnCompacted
<1>3. /\ Conversation(o.context, o.log)
      /\ \A e \in Plain : Occurrences(e, o.log) = Occurrences(e, log)
      /\ KeptAt(log, compaction.kept)
      /\ o.log = log \/ o.log = Append(log, Compacted(compaction.kept))
  BY <1>2, AutoFacts
<1>4. Conversation(context, log)' BY <1>1, <1>3
<1>5. \A e \in Plain : Occurrences(e, log') = Occurrences(e, log) BY <1>1, <1>3
<1>6. run.phase = "compacting" /\ session.active BY <1>0, <1>2 DEF Control, PhaseOK
<1>7. /\ run' \in AgentRuns /\ run'.phase = "ready" /\ run'.by = run.by
      /\ queue' \in Queues /\ QueuedOK' /\ EveryMessageOnce'
      /\ Displayed(queue'.steer, queue'.followUp, run'.pending, shown')
  BY <1>0, <1>2, <1>5, ReadyFacts DEF IInv
<1>8. Types' BY <1>0, <1>2, <1>7, NoneIsNone DEF Types
<1>9. PhaseOK' BY <1>2, <1>6, <1>7, NoneIsNone DEF IInv, Control, PhaseOK
<1>10. CallersOK' BY <1>0, <1>2, <1>6, <1>7, NoneIsNone, FrameCallers
<1>11. KeptOK' BY <1>0, <1>1, <1>2, <1>3, NoneIsNone, KeptCompacted DEF IInv
<1>12. ToolsOK' /\ EndsOK' BY <1>7, NoTurn
<1>13. DisplayAgrees' BY <1>7, <1>8, DisplayNext
<1> QED BY <1>4, <1>7, <1>8, <1>9, <1>10, <1>11, <1>12, <1>13 DEF IInv, Control

LEMMA ResumedFacts ==
  ASSUME NEW calls \in [Callers -> Fates],
         \A k \in Prompts \cup Customs : calls[k] # "waiting"
  PROVE  /\ Resumed(calls) \in [Callers -> Fates]
         /\ \A k \in Prompts \cup Customs : Resumed(calls)[k] = calls[k]
         /\ Resumed(calls)["abort"] = IF calls["abort"] = "waiting" THEN "done" ELSE calls["abort"]
         /\ Resumed(calls)["compact"] = IF calls["compact"] = "waiting" THEN "resumed" ELSE calls["compact"]
BY CallerFacts DEF Resumed, Fates

LEMMA ManualClearedFacts ==
  ASSUME Control, ManualCompaction, ManualCleared,
         UNCHANGED <<queue, shown, deferred, run, session, compaction>>
  PROVE  /\ Control' /\ caller'["compact"] = "done"
         /\ \A k \in Prompts \cup Customs : caller'[k] = caller[k]
<1> DEFINE ended == [caller EXCEPT !["compact"] = "done"]
<1>1. /\ manual' = NoManual
      /\ caller' = IF session.active \/ compaction.for # "none" THEN ended ELSE Resumed(ended)
  BY DEF ManualCleared
<1>2. /\ ended \in [Callers -> Fates] /\ ended["compact"] = "done"
      /\ ended["abort"] = caller["abort"]
      /\ \A k \in Prompts \cup Customs : ended[k] = caller[k]
  BY CallerFacts DEF Control, Types, Fates
<1> HIDE DEF ended
<1>3. \A k \in Prompts \cup Customs : ended[k] # "waiting" BY <1>2 DEF Control, CallersOK
<1>4. /\ caller' \in [Callers -> Fates] /\ caller'["compact"] = "done"
      /\ \A k \in Prompts \cup Customs : caller'[k] = caller[k]
      /\ caller'["abort"] = "waiting" => session.active \/ compaction.for # "none"
  <2>1. CASE session.active \/ compaction.for # "none" BY <1>1, <1>2, <2>1
  <2>2. CASE ~(session.active \/ compaction.for # "none")
    <3>1. caller' = Resumed(ended) BY <1>1, <2>2
    <3> QED BY <1>2, <1>3, <3>1, ResumedFacts
  <2> QED BY <2>1, <2>2
<1>5. Types'
  <2>1. NoManual \in Manuals BY DEF NoManual, Manuals
  <2> QED BY <1>1, <1>4, <2>1 DEF Control, Types
<1>6. PhaseOK' BY DEF Control, PhaseOK
<1>7. CallersOK'
  <2>1. \A k \in {"abort", "compact"} : caller'[k] = "waiting" => session'.active \/ IsCompacting'
    BY <1>4 DEF IsCompacting
  <2> QED BY <1>4, <2>1 DEF Control, CallersOK, Waiting
<1> QED BY <1>4, <1>5, <1>6, <1>7 DEF Control

LEMMA ManualFailsStep ==
  ASSUME IInv, ManualFails
  PROVE  IInv'
<1>1. /\ ManualCompaction /\ ManualCleared
      /\ UNCHANGED <<context, log, queue, shown, deferred, run, session, compaction>>
  BY DEF ManualFails, ManualCompaction
<1>2. /\ Control' /\ caller'["compact"] = "done"
      /\ \A k \in Prompts \cup Customs : caller'[k] = caller[k]
  BY <1>1, ManualClearedFacts DEF IInv
<1>3. Conversation(context, log)' /\ QueuedOK' /\ DisplayAgrees' /\ EveryMessageOnce'
  BY <1>1, <1>2, FrameMessages DEF Alike
<1>4. ToolsOK' /\ EndsOK' BY <1>1, FrameRun
<1>5. KeptOK' BY <1>1, <1>2 DEF IInv, KeptOK
<1> QED BY <1>2, <1>3, <1>4, <1>5 DEF IInv

(* The compaction of compact() may end at any point of a run.              *)
LEMMA ManualEndsStep ==
  ASSUME IInv, ManualEnds
  PROVE  IInv'
<1>0. Control /\ Types /\ log \in Seq(Entries) /\ Conversation(context, log)
  BY DEF IInv, Control, Conversation
<1> DEFINE k == manual.kept
           a == manual.aborted
<1>1. PICK o \in Outcomes(k, a, FALSE) : context' = o.context /\ log' = o.log BY DEF ManualEnds
<1>2. /\ ManualCompaction /\ ManualCleared
      /\ UNCHANGED <<queue, shown, deferred, run, session, compaction>>
  BY DEF ManualEnds, ManualCompaction
<1>3. KeptAt(log, k) /\ a \in BOOLEAN
  BY <1>0 DEF ManualEnds, IInv, KeptOK, Types, Manuals
<1>4. /\ Control' /\ caller'["compact"] = "done"
      /\ \A n \in Prompts \cup Customs : caller'[n] = caller[n]
  BY <1>0, <1>2, ManualClearedFacts
<1> HIDE DEF k, a
<1>5. Conversation(o.context, o.log) /\ (o.log = log \/ o.log = Append(log, Compacted(k)))
  BY <1>0, <1>3, OutcomesAgree
<1>6. Conversation(context, log)' BY <1>1, <1>5
<1>7. KeptOK' BY <1>0, <1>1, <1>2, <1>3, <1>4, <1>5, KeptCompacted DEF IInv
<1>8. \/ UNCHANGED <<context, log>>
      \/ /\ Said(context') # <<>> /\ Said(log) # <<>> /\ Said(log') = Said(log)
         /\ Last(Said(context')) = Last(Said(log))
         /\ RepliesIn(log') = RepliesIn(log) /\ ~EndsInReply(log')
         /\ EndsInReply(context') => EndsInReply(log) /\ Last(context') = Last(log)
  BY <1>0, <1>1, <1>3, OutcomesSay
<1>9. ToolsOK' /\ EndsOK'
  <2>1. CASE UNCHANGED <<context, log>> BY <1>2, <2>1, FrameRun
  <2>2. CASE /\ Said(context') # <<>> /\ Said(log) # <<>> /\ Said(log') = Said(log)
             /\ Last(Said(context')) = Last(Said(log))
             /\ RepliesIn(log') = RepliesIn(log) /\ ~EndsInReply(log')
             /\ EndsInReply(context') => EndsInReply(log) /\ Last(context') = Last(log)
    <3>1. ReplyCount' = ReplyCount BY <2>2 DEF ReplyCount, RepliesIn
    <3>2. ToolsOK' BY <1>2, <2>2, <3>1 DEF IInv, ToolsOK
    <3>3. EndsOK' BY <1>2, <2>2 DEF IInv, EndsOK, EndsIn
    <3> QED BY <3>2, <3>3
  <2> QED BY <1>8, <2>1, <2>2
<1>10. \A n \in Prompts \cup Customs : /\ caller[n] = "queued" => caller'[n] = "queued"
                                       /\ Alike(caller[n], caller'[n])
  BY <1>4 DEF Alike
<1>11. QueuedOK' BY <1>0, <1>2, <1>10, FrameQueued DEF IInv
<1>12. DisplayAgrees' BY <1>2 DEF IInv, DisplayAgrees
<1>13. ASSUME NEW e \in Plain PROVE Places(e)' = Places(e)
  <2>1. Occurrences(e, log') = Occurrences(e, log) BY <1>0, <1>1, <1>3, OutcomeOccurs
  <2> QED BY <1>2, <2>1 DEF Places
<1>14. EveryMessageOnce' BY <1>10, <1>13, FrameOnce DEF IInv
<1> QED BY <1>4, <1>6, <1>7, <1>9, <1>11, <1>12, <1>14 DEF IInv

LEMMA PreflightCompactedStep ==
  ASSUME IInv, NEW p \in Prompts, PreflightCompacted(p)
  PROVE  IInv'
<1>0. Control /\ Types /\ PhaseOK /\ CallersOK /\ log \in Seq(Entries)
  BY DEF IInv, Control, Conversation
<1>1. PICK o \in AutoOutcomes : context' = o.context /\ log' = o.log BY DEF PreflightCompacted
<1> DEFINE checked == [caller EXCEPT ![p] = "checked"]
<1>2. /\ caller[p] = "compacting" /\ compaction.for = "prompt" /\ compaction' = NoCompaction
      /\ caller' = IF session.active \/ ManualCompaction THEN checked ELSE Resumed(checked)
      /\ UNCHANGED <<queue, shown, deferred, run, session, manual>>
  BY DEF PreflightCompacted
<1>3. /\ run.phase = "none" /\ ~session.active
      /\ \A q \in Prompts : Waiting(q) => q = p
  BY <1>0, <1>2 DEF CallersOK, PhaseOK, Waiting
<1>4. /\ checked \in [Callers -> Fates] /\ checked[p] = "checked"
      /\ checked["compact"] = caller["compact"] /\ checked["abort"] = caller["abort"]
      /\ \A k \in Prompts \cup Customs : k # p => checked[k] = caller[k]
  BY <1>0, CallerFacts DEF Types, Fates
<1> HIDE DEF checked
<1>5. /\ caller' \in [Callers -> Fates] /\ caller'[p] = "checked"
      /\ caller'["compact"] = "compacting" => caller["compact"] = "compacting"
      /\ ManualCompaction => ManualCompaction'
      /\ \A k \in Prompts \cup Customs : k # p => caller'[k] = caller[k]
      /\ ~ManualCompaction => caller'["abort"] # "waiting" /\ caller'["compact"] # "waiting"
      /\ ManualCompaction => caller'["compact"] # "waiting"
  <2>1. \A k \in Prompts \cup Customs : checked[k] # "waiting" BY <1>0, <1>4 DEF CallersOK
  <2>2. CASE ManualCompaction
    <3>1. caller' = checked BY <1>2, <2>2
    <3> QED BY <1>4, <2>2, <3>1 DEF ManualCompaction
  <2>3. CASE ~ManualCompaction
    <3>1. caller' = Resumed(checked) BY <1>2, <1>3, <2>3
    <3>2. /\ caller' \in [Callers -> Fates]
          /\ \A k \in Prompts \cup Customs : caller'[k] = checked[k]
          /\ caller'["abort"] = IF checked["abort"] = "waiting" THEN "done" ELSE checked["abort"]
          /\ caller'["compact"] = IF checked["compact"] = "waiting" THEN "resumed" ELSE checked["compact"]
      BY <1>4, <2>1, <3>1, ResumedFacts
    <3> QED BY <1>4, <2>3, <3>2
  <2> QED BY <2>2, <2>3
<1>6. CallersOK'
  <2>1. compaction'.for = "none" BY <1>2, NoneIsNone
  <2>2. /\ \A q \in Prompts : caller'[q] # "compacting"
        /\ \A q \in Prompts : Waiting(q)' => q = p
    BY <1>3, <1>5 DEF Waiting
  <2>3. \A k \in {"abort", "compact"} : caller'[k] = "waiting" => session'.active \/ IsCompacting'
    BY <1>5 DEF IsCompacting
  <2>4. \A k \in Prompts \cup Customs : caller'[k] = "running" <=> run'.by = k
    BY <1>0, <1>2, <1>5 DEF CallersOK
  <2>5. \A k \in Prompts \cup Customs : caller'[k] \notin {"waiting", "resumed"}
    BY <1>0, <1>5 DEF CallersOK
  <2> QED BY <1>2, <1>3, <2>1, <2>2, <2>3, <2>4, <2>5 DEF CallersOK
<1>7. /\ Conversation(o.context, o.log)
      /\ \A e \in Plain : Occurrences(e, o.log) = Occurrences(e, log)
      /\ KeptAt(log, compaction.kept)
      /\ o.log = log \/ o.log = Append(log, Compacted(compaction.kept))
  BY <1>2, AutoFacts
<1>8. Types' BY <1>0, <1>2, <1>5, NoneIsNone DEF Types
<1>9. PhaseOK' BY <1>0, <1>2, <1>3, NoneIsNone DEF PhaseOK
<1>10. Conversation(context, log)' BY <1>1, <1>7
<1>11. KeptOK' BY <1>0, <1>1, <1>2, <1>5, <1>7, NoneIsNone, KeptCompacted DEF IInv
<1>12. ToolsOK' /\ EndsOK' BY <1>2, <1>3, NoTurn
<1>13. \A k \in Prompts \cup Customs : /\ caller[k] = "queued" => caller'[k] = "queued"
                                       /\ Alike(caller[k], caller'[k])
  BY <1>2, <1>5 DEF Alike, Sent
<1>14. QueuedOK' BY <1>0, <1>2, <1>13, FrameQueued DEF IInv
<1>15. DisplayAgrees' BY <1>2 DEF IInv, DisplayAgrees
<1>16. ASSUME NEW e \in Plain PROVE Places(e)' = Places(e)
  <2>1. Occurrences(e, log') = Occurrences(e, log) BY <1>1, <1>7
  <2> QED BY <1>2, <2>1 DEF Places
<1>17. EveryMessageOnce' BY <1>13, <1>16, FrameOnce DEF IInv
<1> QED BY <1>6, <1>8, <1>9, <1>10, <1>11, <1>12, <1>14, <1>15, <1>17 DEF IInv, Control

-----------------------------------------------------------------------------
(***************************************************************************)
(* The post-run handling that leaves the run there.                        *)
(***************************************************************************)
LEMMA GivenUpIn ==
  ASSUME Types
  PROVE  GivenUp \in Sessions /\ GivenUp.active = session.active
<1>1. session \in Sessions BY DEF Types
<1>2. 0 \in 0 .. MaxRetries BY BoundsAssumption
<1> QED BY <1>1, <1>2 DEF GivenUp, Sessions

LEMMA WithoutReplyAgrees ==
  ASSUME NEW c, NEW l, Conversation(c, l), EndsInReply(c) => Last(c).stop \in Failed
  PROVE  Conversation(WithoutReply(c), l) /\ WithoutReply(c) \in Seq(Entries)
<1>1. Conversation(WithoutReply(c), l) BY ReplyDropped DEF WithoutReply
<1> QED BY <1>1 DEF Conversation

LEMMA WithoutReplyNow ==
  ASSUME IInv, run.phase \in {"ended", "retrying"},
         run.stop \in Failed, run.phase = "ended" \/ run.stop # "error"
  PROVE  Conversation(WithoutReply(context), log)
<1>1. run.phase = "ended" BY DEF IInv, EndsOK
<1>2. Conversation(context, log) /\ (EndsInReply(context) => Last(context).stop \in Failed)
  BY <1>1 DEF IInv, EndsOK, EndsIn
<1> QED BY <1>2, WithoutReplyAgrees

(* A step of the post-run handling that keeps the run for later.           *)
LEMMA RunHeld ==
  ASSUME IInv, run.phase \in {"ended", "retrying"}, UNCHANGED <<log, queue, shown, deferred, manual, caller>>,
         Conversation(context', log), run' \in AgentRuns, run'.phase \in {"retrying", "after"},
         run'.phase = "retrying" => run.stop = "error",
         run'.by = run.by, run'.pending = run.pending, run'.stop = run.stop,
         session' \in Sessions, session'.active = session.active, compaction' \in Compactions,
         IF run'.phase = "after" THEN compaction'.for = "after" ELSE compaction' = NoCompaction, KeptOK'
  PROVE  IInv'
<1>0. Control /\ Types BY DEF IInv, Control
<1>1. compaction = NoCompaction /\ session.active BY <1>0, Alive
<1>2. Types' BY <1>0 DEF Types
<1>3. PhaseOK' BY <1>1, NoneIsNone DEF IInv, Control, PhaseOK
<1>4. CallersOK' BY <1>0, <1>1, NoneIsNone, FrameCallers
<1>5. Conversation(context, log)' OBVIOUS
<1>6. ToolsOK' /\ EndsOK' BY DEF ToolsOK, EndsOK
<1>7. QueuedOK' BY <1>0, FrameAlike, FrameQueued DEF IInv
<1>8. DisplayAgrees' BY DEF IInv, DisplayAgrees
<1>9. \A e \in Plain : Places(e)' = Places(e) BY DEF Places
<1>10. EveryMessageOnce' BY <1>9, FrameAlike, FrameOnce DEF IInv
<1> QED BY <1>2, <1>3, <1>4, <1>5, <1>6, <1>7, <1>8, <1>10 DEF IInv, Control

LEMMA RetryStep ==
  ASSUME IInv, Retry
  PROVE  IInv'
<1>0. Control /\ Types BY DEF IInv, Control
<1>1. /\ run.phase = "ended" /\ run.stop = "error" /\ session.retry < MaxRetries
      /\ session' = [session EXCEPT !.retry = @ + 1] /\ context' = WithoutReply(context)
      /\ run' = [run EXCEPT !.phase = "retrying", !.aborted = FALSE]
      /\ UNCHANGED <<log, queue, shown, deferred, compaction, manual, caller>>
  BY DEF Retry
<1>2. Conversation(context', log) BY <1>1, WithoutReplyNow DEF Failed
<1>3. /\ run' \in AgentRuns /\ run'.phase = "retrying" /\ run'.by = run.by
      /\ run'.pending = run.pending /\ run'.stop = run.stop
  <2>1. run \in AgentRuns BY <1>0 DEF Types
  <2> QED BY <1>1, <2>1 DEF AgentRuns, Phases
<1>4. session' \in Sessions /\ session'.active = session.active
  <2>1. session \in Sessions /\ session.retry \in 0 .. MaxRetries BY <1>0, Fields DEF Types
  <2>2. session.retry + 1 \in 0 .. MaxRetries BY <1>1, <2>1, BoundsAssumption
  <2> QED BY <1>1, <2>1, <2>2 DEF Sessions
<1>5. compaction' = NoCompaction /\ compaction' \in Compactions BY <1>0, <1>1, Alive, NoneIsNone
<1>6. KeptOK' BY <1>1, FrameKept DEF IInv
<1> QED BY <1>1, <1>2, <1>3, <1>4, <1>5, <1>6, RunHeld

LEMMA NotRetriedPhases ==
  ASSUME NotRetried
  PROVE  run.phase \in {"ended", "retrying"}
BY DEF NotRetried

LEMMA HeldForCompaction ==
  ASSUME Types, run' = [run EXCEPT !.phase = "after"]
  PROVE  /\ run' \in AgentRuns /\ run'.phase = "after" /\ run'.by = run.by
         /\ run'.pending = run.pending /\ run'.stop = run.stop
<1>1. run \in AgentRuns BY DEF Types
<1> QED BY <1>1 DEF AgentRuns, Phases

LEMMA TidyStep ==
  ASSUME IInv, Tidy
  PROVE  IInv'
<1>0. Control /\ Types BY DEF IInv, Control
<1>1. /\ NotRetried /\ StartsCompaction("after", FALSE)
      /\ run' = [run EXCEPT !.phase = "after"] /\ session' = GivenUp
      /\ UNCHANGED <<context, log, queue, shown, deferred, manual, caller>>
  BY DEF Tidy
<1>2. Conversation(context, log) /\ Conversation(context', log) BY <1>1 DEF IInv
<1>3. compaction' \in Compactions /\ compaction'.for = "after" /\ KeptOK'
  BY <1>1, <1>2, StartsFacts
<1> QED BY <1>0, <1>1, <1>2, <1>3, NotRetriedPhases, HeldForCompaction, GivenUpIn, RunHeld

LEMMA LastReplyIs ==
  ASSUME NEW E, NEW c \in Seq(E), EndsInReply(c)
  PROVE  c[SelectLastInSeq(c, IsReply)] = Last(c)
<1> DEFINE R == {i \in 1 .. Len(c) : IsReply(c[i])}
           at == SelectLastInSeq(c, IsReply)
<1>1. Len(c) \in Nat /\ c # <<>> /\ IsReply(c[Len(c)]) BY DEF EndsInReply, Last
<1>2. Len(c) \in R BY <1>1, EmptySeq
<1>3. \A i \in R : i \in Nat /\ i <= Len(c) BY <1>1
<1>4. at = Max(R) BY <1>2 DEF SelectLastInSeq
<1> HIDE DEF R, at
<1>5. at \in R /\ \A i \in R : at >= i BY <1>2, <1>3, <1>4 DEF Max
<1>6. at = Len(c) BY <1>1, <1>2, <1>3, <1>5
<1> QED BY <1>6 DEF Last, at

(* A step of a prompt's preflight.                                         *)
LEMMA PreflightGoesOn ==
  ASSUME IInv, NEW p \in Prompts, caller[p] = "preflight", Conversation(context', log),
         UNCHANGED <<log, queue, shown, deferred, run, manual>>,
         session' \in Sessions, session'.active = session.active,
         NEW fate \in {"compacting", "checked"}, caller' = [caller EXCEPT ![p] = fate],
         compaction' \in Compactions, compaction'.for = IF fate = "compacting" THEN "prompt" ELSE "none",
         compaction'.for = "none" => compaction' = NoCompaction, KeptOK'
  PROVE  IInv'
<1>0. Control /\ Types /\ PhaseOK /\ CallersOK BY DEF IInv, Control
<1>1. /\ run.phase = "none" /\ compaction.for \in {"none", "prompt"}
      /\ \A q \in Prompts : Waiting(q) => q = p
  <2>1. compaction.for \in {"none", "prompt", "turn", "after"} BY <1>0 DEF Types, Compactions
  <2> QED BY <1>0, <2>1 DEF CallersOK, PhaseOK, Waiting
<1>2. ~session.active /\ compaction.for = "none" BY <1>0, <1>1 DEF PhaseOK, CallersOK, Waiting
<1>3. /\ caller' \in [Callers -> Fates] /\ caller'[p] = fate
      /\ caller'["compact"] = caller["compact"] /\ caller'["abort"] = caller["abort"]
      /\ \A k \in Prompts \cup Customs : k # p => caller'[k] = caller[k]
  BY <1>0, CallerFacts DEF Types, Fates
<1>4. Types' BY <1>0, <1>3 DEF Types
<1>5. PhaseOK' BY <1>0, <1>1 DEF PhaseOK
<1>6. \A k \in {"abort", "compact"} : caller'[k] = "waiting" => session'.active \/ IsCompacting'
  BY <1>0, <1>2, <1>3 DEF CallersOK, IsCompacting, ManualCompaction
<1>7. CallersOK'
  <2>1. \A q \in Prompts : Waiting(q)' => q = p BY <1>1, <1>3 DEF Waiting
  <2>2. Waiting(p)' BY <1>3 DEF Waiting
  <2>3. (\E q \in Prompts : caller'[q] = "compacting") <=> fate = "compacting"
    BY <1>3, <2>1 DEF Waiting
  <2>4. compaction'.for = "prompt" <=> fate = "compacting" OBVIOUS
  <2>5. \A k \in Prompts \cup Customs : caller'[k] = "running" <=> run'.by = k
    BY <1>0, <1>3 DEF CallersOK
  <2>6. \A k \in Prompts \cup Customs : caller'[k] \notin {"waiting", "resumed"}
    BY <1>0, <1>3 DEF CallersOK
  <2> QED BY <1>1, <1>6, <2>1, <2>3, <2>4, <2>5, <2>6 DEF CallersOK
<1>8. Conversation(context, log)' OBVIOUS
<1>9. ToolsOK' /\ EndsOK' BY <1>1, NoTurn
<1>10. \A k \in Prompts \cup Customs : /\ caller[k] = "queued" => caller'[k] = "queued"
                                       /\ Alike(caller[k], caller'[k])
  BY <1>3 DEF Alike, Sent
<1>11. QueuedOK' BY <1>0, <1>10, FrameQueued DEF IInv
<1>12. DisplayAgrees' BY DEF IInv, DisplayAgrees
<1>13. \A e \in Plain : Places(e)' = Places(e) BY DEF Places
<1>14. EveryMessageOnce' BY <1>10, <1>13, FrameOnce DEF IInv
<1> QED BY <1>4, <1>5, <1>7, <1>8, <1>9, <1>11, <1>12, <1>14 DEF IInv, Control

LEMMA PreflightCompactsStep ==
  ASSUME IInv, NEW p \in Prompts, PreflightCompacts(p)
  PROVE  IInv'
<1>0. Control /\ Types /\ PhaseOK /\ CallersOK /\ Conversation(context, log)
  BY DEF IInv, Control
<1> DEFINE at == SelectLastInSeq(context, IsReply)
<1>1. caller[p] = "preflight" /\ UNCHANGED <<log, queue, shown, deferred, run, manual>>
  BY DEF PreflightCompacts
<1>4. \A fate : caller' = [caller EXCEPT ![p] = fate] => caller'["compact"] = caller["compact"]
  BY <1>0, CallerFacts DEF Types
<1>2. CASE /\ StartsCompaction("prompt", FALSE) /\ UNCHANGED <<context, session>>
           /\ caller' = [caller EXCEPT ![p] = "compacting"]
  <2>1. compaction' \in Compactions /\ compaction'.for = "prompt" /\ KeptOK'
    BY <1>1, <1>2, <1>4, StartsFacts
  <2> QED BY <1>0, <1>1, <1>2, <2>1, PreflightGoesOn DEF Types
<1>3. CASE /\ Recoverable(context[at].stop) /\ context' = WithoutReply(context)
           /\ session' = [session EXCEPT !.recovered = TRUE]
           /\ \/ StartsCompaction("prompt", TRUE) /\ caller' = [caller EXCEPT ![p] = "compacting"]
              \/ UNCHANGED compaction /\ caller' = [caller EXCEPT ![p] = "checked"]
  <2>1. Conversation(context', log)
    <3>1. context[at].stop \in Failed BY <1>3 DEF Recoverable, Failed
    <3>2. context \in Seq(Entries) BY <1>0 DEF Conversation
    <3>3. EndsInReply(context) => Last(context).stop \in Failed BY <3>1, <3>2, LastReplyIs
    <3> QED BY <1>0, <1>3, <3>3, WithoutReplyAgrees
  <2>2. session' \in Sessions /\ session'.active = session.active
    BY <1>0, <1>3 DEF Types, Sessions
  <2>3. CASE StartsCompaction("prompt", TRUE) /\ caller' = [caller EXCEPT ![p] = "compacting"]
    <3>1. compaction' \in Compactions /\ compaction'.for = "prompt" /\ KeptOK'
      BY <1>1, <1>4, <2>3, StartsFacts
    <3> QED BY <1>1, <2>1, <2>2, <2>3, <3>1, PreflightGoesOn
  <2>4. CASE UNCHANGED compaction /\ caller' = [caller EXCEPT ![p] = "checked"]
    <3>1. compaction.for = "none"
      <4>1. compaction.for \in {"none", "prompt", "turn", "after"} BY <1>0 DEF Types, Compactions
      <4> QED BY <1>0, <1>1, <4>1 DEF CallersOK, PhaseOK, Waiting
    <3>2. compaction' = NoCompaction /\ compaction' \in Compactions
      BY <1>0, <2>4, <3>1, NoneIsNone DEF PhaseOK
    <3>3. KeptOK' BY <1>1, <1>4, <2>4, FrameKept DEF IInv
    <3> QED BY <1>1, <2>1, <2>2, <2>4, <3>2, <3>3, NoneIsNone, PreflightGoesOn
  <2> QED BY <1>3, <2>3, <2>4
<1> QED BY <1>2, <1>3 DEF PreflightCompacts

-----------------------------------------------------------------------------
(* The branch goes on from one that kept what it had.                      *)
LEMMA KeptLater ==
  ASSUME KeptOK, NEW l \in Seq(Entries), \A k : KeptAt(log, k) => KeptAt(l, k),
         NEW msgs \in Seq(Entries), log' = l \o msgs, compaction'.for = "none",
         manual'.kept = manual.kept,
         caller'["compact"] = "compacting" => caller["compact"] = "compacting"
  PROVE  KeptOK'
<1> DEFINE w == l \o msgs
<1>1. \A k : KeptAt(l, k) => KeptAt(w, k)
  <2> SUFFICES ASSUME NEW k \in DOMAIN l, l[k].role \notin {"result", "summary"} PROVE KeptAt(w, k)
    BY DEF KeptAt
  <2>1. k \in DOMAIN w /\ w[k] = l[k] BY PositionsStay
  <2> HIDE DEF w
  <2> QED BY <2>1 DEF KeptAt
<1>2. log' = w OBVIOUS
<1> HIDE DEF w
<1>3. caller'["compact"] = "compacting" => KeptAt(log, manual'.kept) BY DEF KeptOK
<1> QED BY <1>1, <1>2, <1>3 DEF KeptOK

(***************************************************************************)
(* Runs that start, go on and end.                                         *)
(***************************************************************************)
LEMMA BeginFacts ==
  ASSUME NEW by \in Prompts \cup Customs, NEW c, NEW l, Conversation(c, l), NEW s \in Sessions,
         NEW msgs \in Seq(Messages), NEW q \in {"steer", "followUp"}, NEW pending \in Seq(Messages),
         Begin(by, c, l, s, msgs, q, pending)
  PROVE  /\ run' \in AgentRuns /\ run'.phase = "ready" /\ run'.by = by /\ run'.pending = pending
         /\ Conversation(context', log') /\ log' = l \o msgs
         /\ Unshown(msgs) /\ shown' = shown \ Texts(msgs)
         /\ session' \in Sessions /\ session'.active /\ Poll(q)
<1>1. /\ run' = [NoRun EXCEPT !.phase = "ready", !.by = by, !.pending = pending]
      /\ context' = c \o msgs /\ log' = l \o msgs /\ Unshown(msgs)
      /\ session' = [Heard(s, msgs) EXCEPT !.active = TRUE] /\ Poll(q)
  BY DEF Begin, Both
<1>2. NoRun \in AgentRuns
  <2>1. 0 \in 0 .. MaxCalls BY BoundsAssumption
  <2>2. <<>> \in Seq(Messages) OBVIOUS
  <2> QED BY <2>1, <2>2 DEF NoRun, AgentRuns, Phases, Stops
<1>3. run' \in AgentRuns /\ run'.phase = "ready" /\ run'.by = by /\ run'.pending = pending
  BY <1>1, <1>2 DEF AgentRuns, Phases
<1>4. session' \in Sessions /\ session'.active
  <2>1. Heard(s, msgs) \in Sessions BY HeardIn
  <2> QED BY <1>1, <2>1 DEF Sessions
<1>5. Conversation(context', log')
  <2>1. msgs \in Seq(Plain) BY Kinds, SeqOfMore
  <2>2. Conversation(c \o msgs, l \o msgs) BY <2>1, BothHear
  <2> QED BY <1>1, <2>2
<1> QED BY <1>1, <1>3, <1>4, <1>5 DEF Unshown

(* A call starts a run with a message that was nowhere yet.                *)
LEMMA RunStarts ==
  ASSUME IInv, run.phase = "none", NEW by \in Prompts \cup Customs, NEW m \in Messages,
         \/ by \in Prompts /\ m = User(by)
         \/ by \in Customs /\ m = Custom(by),
         Places(m) = 0, caller[by] \in {"idle", "preflight", "checked"},
         compaction = NoCompaction, \A q \in Prompts : Waiting(q) => q = by,
         Begin(by, context, log, session, <<m>>, "steer", Drained(queue.steer)),
         caller' = [caller EXCEPT ![by] = "running"], UNCHANGED <<deferred, compaction, manual>>
  PROVE  IInv'
<1>0. Control /\ Types /\ PhaseOK /\ CallersOK /\ Conversation(context, log) /\ log \in Seq(Entries)
  BY DEF IInv, Control, Conversation
<1> DEFINE msgs == <<m>>
           d == Drained(queue.steer)
<1>1. msgs \in Seq(Messages) /\ msgs \in Seq(Plain) /\ m \in Plain /\ m \in Entries BY Kinds, OneIsSeq
<1>2. d \in Seq(Messages) BY <1>0, Fields, Drain
<1>3. /\ run' \in AgentRuns /\ run'.phase = "ready" /\ run'.by = by /\ run'.pending = d
      /\ Conversation(context', log') /\ log' = log \o msgs
      /\ Unshown(msgs) /\ shown' = shown \ Texts(msgs)
      /\ session' \in Sessions /\ session'.active /\ Poll("steer")
  <2>1. session \in Sessions BY <1>0 DEF Types
  <2> QED BY <1>0, <1>1, <1>2, <2>1, BeginFacts
<1>4. shown' = shown
  <2>1. by \notin shown BY DEF IInv, QueuedOK
  <2>2. Texts(msgs) \subseteq {by} BY TextsSmall
  <2> QED BY <1>3, <2>1, <2>2
<1>5. queue' \in Queues BY <1>0, <1>3, PollFacts
<1>6. /\ caller' \in [Callers -> Fates] /\ caller'[by] = "running"
      /\ caller'["compact"] = caller["compact"]
      /\ \A k \in Prompts \cup Customs : k # by => caller'[k] = caller[k]
  BY <1>0, CallerFacts DEF Types, Fates
<1>7. Types' BY <1>0, <1>3, <1>4, <1>5, <1>6 DEF Types
<1>8. PhaseOK' BY <1>3, NoneIsNone, CallerFacts DEF PhaseOK
<1>9. CallersOK'
  <2>1. \A q \in Prompts : ~Waiting(q)' BY <1>6 DEF Waiting
  <2>2. \A k \in Prompts \cup Customs : caller[k] # "running"
    <3>1. run.by = Nobody BY <1>0 DEF PhaseOK
    <3> QED BY <1>0, <3>1, CallerFacts DEF CallersOK
  <2>3. \A k \in Prompts \cup Customs : caller'[k] = "running" <=> run'.by = k
    BY <1>3, <1>6, <2>2
  <2>4. \A q \in Prompts : caller'[q] # "compacting" BY <2>1 DEF Waiting
  <2> QED BY <1>0, <1>3, <1>6, <2>1, <2>3, <2>4, NoneIsNone DEF CallersOK
<1>10. KeptOK'
  <2>1. msgs \in Seq(Entries) BY <1>1, OneIsSeq
  <2> HIDE DEF msgs
  <2> QED BY <1>0, <1>3, <1>6, <2>1, KeptGrows DEF IInv
<1>11. ToolsOK' /\ EndsOK' BY <1>3, NoTurn
<1>12. ToSet(queue.steer) \cup ToSet(queue.followUp)
         = ToSet(queue'.steer) \cup ToSet(queue'.followUp) \cup ToSet(d)
  BY <1>0, <1>3, PollSets
<1>13. QueuedOK'
  <2>1. \A k \in Prompts \cup Customs : caller[k] = "queued" => caller'[k] = "queued" BY <1>6
  <2> QED BY <1>0, <1>4, <1>12, <2>1, ShrinkQueued DEF IInv
<1>14. run.pending = <<>> BY <1>0 DEF PhaseOK
<1>15. DisplayAgrees'
  <2>1. ToSet(run.pending) = {} BY <1>14, NoElements
  <2>2. Displayed(queue.steer, queue.followUp, run.pending, shown) BY <1>0, DisplayNow DEF IInv
  <2>3. Displayed(queue'.steer, queue'.followUp, run'.pending, shown')
    BY <1>3, <1>4, <1>12, <2>1, <2>2 DEF Displayed
  <2> QED BY <1>7, <2>3, DisplayNext
<1>16. ASSUME NEW e \in Plain PROVE Places(e)' = IF e = m THEN 1 ELSE Places(e)
  <2> DEFINE a == Occurrences(e, log)
             c == Occurrences(e, deferred.bash)
             f == Occurrences(e, deferred.custom)
             x == Occurrences(e, queue.steer)
             y == Occurrences(e, queue.followUp)
             xx == Occurrences(e, queue'.steer)
             yy == Occurrences(e, queue'.followUp)
             n == Occurrences(e, d)
  <2>1. /\ a \in Nat /\ c \in Nat /\ f \in Nat /\ x \in Nat /\ y \in Nat
        /\ Places(e) = a + x + y + Occurrences(e, run.pending) + c + f
    BY <1>0, PlacesFacts
  <2>2. Places(e)' = Occurrences(e, log') + xx + yy + n + c + f BY <1>3 DEF Places
  <2>3. Occurrences(e, log') = a + IF m = e THEN 1 ELSE 0 BY <1>0, <1>1, <1>3, WrittenOccurs
  <2>4. Occurrences(e, run.pending) = 0 BY <1>14, OccursOne
  <2>5. xx \in Nat /\ yy \in Nat /\ n \in Nat /\ x + y = xx + yy + n BY <1>0, <1>3, PollOccurs
  <2> HIDE DEF a, c, f, x, y, xx, yy, n
  <2>6. Places(e)' = Places(e) + IF m = e THEN 1 ELSE 0 BY <2>1, <2>2, <2>3, <2>4, <2>5
  <2>7. Places(e) \in Nat BY <1>0, PlacesFacts
  <2> QED BY <2>6, <2>7
<1>17. EveryMessageOnce'
  <2>1. EveryMessageOnce BY DEF IInv
  <2>2. ASSUME NEW p \in Prompts
        PROVE  IF m = User(p) THEN caller'[p] \in Sent ELSE Alike(caller[p], caller'[p])
    <3>1. m = User(p) => p = by BY Sorts
    <3>2. p = by => m = User(p) BY CallerFacts
    <3>3. CASE p = by BY <1>6, <3>2, <3>3 DEF Sent
    <3>4. CASE p # by
      <4>1. caller'[p] = caller[p] /\ m # User(p) BY <1>6, <3>1, <3>4
      <4> QED BY <4>1 DEF Alike
    <3> QED BY <3>3, <3>4
  <2>3. \A c \in Customs : m = Custom(c) \/ Alike(caller[c], caller'[c])
    BY <1>6, Sorts, CallerFacts DEF Sent, Alike
  <2> QED BY <1>1, <1>16, <2>1, <2>2, <2>3, OneMore
<1> QED BY <1>3, <1>7, <1>8, <1>9, <1>10, <1>11, <1>13, <1>15, <1>17 DEF IInv, Control

LEMMA StartRunStep ==
  ASSUME IInv, NEW p \in Prompts, StartRun(p)
  PROVE  IInv'
<1>0. Control /\ Types /\ PhaseOK /\ CallersOK BY DEF IInv, Control
<1>1. /\ caller[p] \in {"preflight", "checked"} /\ run.phase = "none"
      /\ UNCHANGED <<deferred, compaction, manual>>
      /\ Begin(p, context, log, session, <<User(p)>>, "steer", Drained(queue.steer))
      /\ caller' = [caller EXCEPT ![p] = "running"]
  BY DEF StartRun
<1>2. \A q \in Prompts : Waiting(q) => q = p BY <1>0, <1>1 DEF CallersOK, Waiting
<1>3. compaction = NoCompaction
  <2>1. compaction.for \in {"none", "prompt", "turn", "after"} BY <1>0 DEF Types, Compactions
  <2> QED BY <1>0, <1>1, <1>2, <2>1 DEF CallersOK, PhaseOK, Waiting
<1>5. Places(User(p)) = 0 BY <1>1 DEF IInv, EveryMessageOnce, Sent
<1> QED BY <1>1, <1>2, <1>3, <1>5, Sorts, RunStarts

LEMMA TriggerRunStep ==
  ASSUME IInv, NEW c \in Customs, TriggerRun(c)
  PROVE  IInv'
<1>0. Control /\ Types /\ PhaseOK /\ CallersOK /\ log \in Seq(Entries)
  BY DEF IInv, Control, Conversation
<1>1. /\ run.phase = "none" /\ caller[c] = "idle" /\ Custom(c) \notin Everywhere
      /\ ~InPreflight /\ UNCHANGED <<deferred, compaction, manual>>
      /\ Begin(c, context, log, session, <<Custom(c)>>, "steer", Drained(queue.steer))
      /\ caller' = [caller EXCEPT ![c] = "running"]
  BY DEF TriggerRun, NewCustom, NewAside
<1>2. \A q \in Prompts : ~Waiting(q) BY <1>1 DEF InPreflight, Waiting
<1>3. compaction = NoCompaction
  <2>1. compaction.for \in {"none", "prompt", "turn", "after"} BY <1>0 DEF Types, Compactions
  <2> QED BY <1>0, <1>1, <1>2, <2>1 DEF CallersOK, PhaseOK, Waiting
<1>4. Places(Custom(c)) = 0 BY <1>0, <1>1, NowhereYet
<1> QED BY <1>1, <1>2, <1>3, <1>4, Sorts, RunStarts

(* The post-run handling goes on with the run, with what a queue had.      *)
LEMMA RunContinues ==
  ASSUME IInv, run.phase \in {"ended", "retrying", "after"}, compaction' = NoCompaction,
         NEW c, NEW l, Conversation(c, l), \A e \in Plain : Occurrences(e, l) = Occurrences(e, log),
         \A k : KeptAt(log, k) => KeptAt(l, k), UNCHANGED manual,
         NEW s \in Sessions, NEW q \in {"steer", "followUp"}, NEW msgs, NEW pending,
         \/ msgs = Drained(queue[q]) /\ pending = <<>>
         \/ msgs = <<>> /\ pending = Drained(queue[q]),
         Begin(run.by, c, l, s, msgs, q, pending), UNCHANGED <<deferred, caller>>
  PROVE  IInv'
<1>0. Control /\ Types /\ PhaseOK /\ log \in Seq(Entries) /\ l \in Seq(Entries)
  BY DEF IInv, Control, Conversation
<1> DEFINE d == Drained(queue[q])
<1>1. run.by \in Prompts \cup Customs /\ session.active BY <1>0, Alive
<1>2. d \in Seq(Messages) /\ queue' \in Queues BY <1>0, PollFacts DEF Begin
<1>3. msgs \in Seq(Messages) /\ pending \in Seq(Messages)
  <2>1. <<>> \in Seq(Messages) OBVIOUS
  <2> QED BY <1>2, <2>1
<1>4. /\ run' \in AgentRuns /\ run'.phase = "ready" /\ run'.by = run.by /\ run'.pending = pending
      /\ Conversation(context', log') /\ log' = l \o msgs
      /\ Unshown(msgs) /\ shown' = shown \ Texts(msgs)
      /\ session' \in Sessions /\ session'.active /\ Poll(q)
  BY <1>1, <1>3, BeginFacts
<1>5. Types' BY <1>0, <1>2, <1>4, NoneIsNone DEF Types
<1>6. PhaseOK' BY <1>1, <1>4, NoneIsNone, CallerFacts DEF PhaseOK
<1>7. CallersOK' BY <1>0, <1>4, NoneIsNone, FrameCallers
<1>8. KeptOK'
  <2>1. msgs \in Seq(Entries) BY <1>3, Kinds, SeqOfMore
  <2> QED BY <1>0, <1>4, <2>1, NoneIsNone, KeptLater DEF IInv
<1>9. ToolsOK' /\ EndsOK' BY <1>4, NoTurn
<1>10. ToSet(queue.steer) \cup ToSet(queue.followUp)
         = ToSet(queue'.steer) \cup ToSet(queue'.followUp) \cup ToSet(d)
  BY <1>0, <1>4, PollSets
<1>11. QueuedOK' BY <1>0, <1>4, <1>10, FrameAlike, ShrinkQueued DEF IInv
<1>12. run.pending = <<>> BY <1>0 DEF PhaseOK
<1>13. ASSUME NEW e \in Plain
       PROVE  Places(e)' = Places(e)
                /\ Occurrences(e, queue'.steer) + Occurrences(e, queue'.followUp) + Occurrences(e, d)
                     <= Places(e)
  <2> DEFINE a == Occurrences(e, log)
             b == Occurrences(e, deferred.bash)
             f == Occurrences(e, deferred.custom)
             x == Occurrences(e, queue.steer)
             y == Occurrences(e, queue.followUp)
             xx == Occurrences(e, queue'.steer)
             yy == Occurrences(e, queue'.followUp)
             n == Occurrences(e, d)
             w == Occurrences(e, msgs)
             g == Occurrences(e, pending)
  <2>1. /\ a \in Nat /\ b \in Nat /\ f \in Nat /\ x \in Nat /\ y \in Nat
        /\ Places(e) = a + x + y + Occurrences(e, run.pending) + b + f
    BY <1>0, PlacesFacts
  <2>2. Places(e)' = Occurrences(e, log') + xx + yy + g + b + f BY <1>4 DEF Places
  <2>3. Occurrences(e, log') = a + w
    <3>1. msgs \in Seq(Entries) BY <1>3, Kinds, SeqOfMore
    <3>2. Occurrences(e, l \o msgs) = Occurrences(e, l) + Occurrences(e, msgs)
      BY <1>0, <3>1, OccursConcat
    <3> QED BY <1>4, <3>2
  <2>4. Occurrences(e, run.pending) = 0 /\ Occurrences(e, <<>>) = 0 BY <1>12, OccursOne
  <2>5. xx \in Nat /\ yy \in Nat /\ n \in Nat /\ x + y = xx + yy + n BY <1>0, <1>4, PollOccurs
  <2>6. w + g = n /\ w \in Nat /\ g \in Nat
    <3>1. CASE msgs = d /\ pending = <<>> BY <2>4, <2>5, <3>1
    <3>2. CASE msgs = <<>> /\ pending = d BY <2>4, <2>5, <3>2
    <3> QED BY <3>1, <3>2
  <2> HIDE DEF a, b, f, x, y, xx, yy, n, w, g
  <2>7. Places(e)' = Places(e) /\ xx + yy + n <= Places(e)
    BY <2>1, <2>2, <2>3, <2>4, <2>5, <2>6
  <2> QED BY <2>7 DEF xx, yy, n
<1>14. EveryMessageOnce' BY <1>13, FrameAlike, FrameOnce DEF IInv
<1>15. ToSet(msgs) \subseteq ToSet(d) /\ ToSet(d) \subseteq ToSet(msgs) \cup ToSet(pending)
  BY NoElements
<1>16. ASSUME NEW p \in Prompts, User(p) \in ToSet(queue'.steer) \cup ToSet(queue'.followUp)
       PROVE  User(p) \notin ToSet(msgs)
  <2> SUFFICES ASSUME User(p) \in ToSet(d) PROVE FALSE BY <1>15
  <2> DEFINE e == User(p)
             xx == Occurrences(e, queue'.steer)
             yy == Occurrences(e, queue'.followUp)
             n == Occurrences(e, d)
  <2>1. e \in Plain /\ Places(e) <= 1 BY Sorts DEF IInv, EveryMessageOnce
  <2>2. queue'.steer \in Seq(Messages) /\ queue'.followUp \in Seq(Messages) BY <1>2 DEF Queues
  <2>3. n \in Nat /\ n # 0 BY <1>2, OccursFacts
  <2>4. xx \in Nat /\ yy \in Nat /\ (xx # 0 \/ yy # 0) BY <1>16, <2>2, OccursFacts
  <2>5. xx + yy + n <= Places(e) BY <1>13, <2>1
  <2>6. Places(e) \in Nat BY <1>0, PlacesFacts
  <2> HIDE DEF e, xx, yy, n
  <2> QED BY <2>1, <2>3, <2>4, <2>5, <2>6
<1>17. DisplayAgrees'
  <2>1. ToSet(run.pending) = {} BY <1>12, NoElements
  <2> QED BY <1>0, <1>3, <1>4, <1>5, <1>10, <1>15, <1>16, <2>1, DisplayShrinks DEF IInv
<1> QED BY <1>4, <1>5, <1>6, <1>7, <1>8, <1>9, <1>11, <1>14, <1>17 DEF IInv, Control

(* The post-run handling ends the run and flushes what was deferred.       *)
LEMMA RunFinishes ==
  ASSUME IInv, run.phase \in {"ended", "retrying", "after"}, compaction' = NoCompaction,
         NEW c, NEW l, Conversation(c, l), \A e \in Plain : Occurrences(e, l) = Occurrences(e, log),
         \A k : KeptAt(log, k) => KeptAt(l, k), UNCHANGED manual,
         NEW s \in Sessions, NEW fate \in {"done", "threw"},
         Settle(c, l, s, [caller EXCEPT ![run.by] = fate]), run' = NoRun, UNCHANGED <<queue, shown>>
  PROVE  IInv'
<1>0. Control /\ Types /\ PhaseOK /\ CallersOK /\ log \in Seq(Entries) /\ l \in Seq(Entries)
  BY DEF IInv, Control, Conversation
<1> DEFINE calls == [caller EXCEPT ![run.by] = fate]
           m == Flushed
<1>1. /\ context' = c \o m /\ log' = l \o m /\ deferred' = Nothing
      /\ session' = [s EXCEPT !.active = FALSE]
      /\ caller' = IF ManualCompaction THEN calls ELSE Resumed(calls)
  BY DEF Settle, Both
<1>2. /\ run.by \in Prompts \cup Customs /\ caller[run.by] = "running"
      /\ \A p \in Prompts : ~Waiting(p)
  BY <1>0, Alive
<1>3. /\ calls \in [Callers -> Fates] /\ calls["compact"] = caller["compact"]
      /\ calls["abort"] = caller["abort"] /\ calls[run.by] = fate
      /\ \A k \in Prompts \cup Customs : k # run.by => calls[k] = caller[k]
  BY <1>0, <1>2, CallerFacts DEF Types, Fates
<1> HIDE DEF calls, m
<1>4. /\ caller' \in [Callers -> Fates] /\ caller'[run.by] = fate
      /\ caller'["compact"] = "compacting" => caller["compact"] = "compacting"
      /\ \A k \in {"abort", "compact"} : caller'[k] = "waiting" => ManualCompaction'
      /\ \A k \in Prompts \cup Customs : k # run.by => caller'[k] = caller[k]
  <2>1. \A k \in Prompts \cup Customs : calls[k] # "waiting"
    BY <1>0, <1>3 DEF CallersOK
  <2>2. CASE ManualCompaction
    <3>1. caller' = calls BY <1>1, <2>2
    <3> QED BY <1>3, <2>2, <3>1 DEF ManualCompaction
  <2>3. CASE ~ManualCompaction
    <3>1. caller' = Resumed(calls) BY <1>1, <2>3
    <3>2. /\ caller' \in [Callers -> Fates]
          /\ \A k \in Prompts \cup Customs : caller'[k] = calls[k]
          /\ caller'["abort"] = IF calls["abort"] = "waiting" THEN "done" ELSE calls["abort"]
          /\ caller'["compact"] = IF calls["compact"] = "waiting" THEN "resumed" ELSE calls["compact"]
      BY <1>3, <2>1, <3>1, ResumedFacts
    <3>3. \A k \in {"abort", "compact"} : caller'[k] # "waiting" BY <3>2
    <3>4. caller'["compact"] = "compacting" => caller["compact"] = "compacting" BY <1>3, <3>2
    <3> QED BY <1>2, <1>3, <3>2, <3>3, <3>4
  <2> QED BY <2>2, <2>3
<1>5. m \in Seq(Plain) BY <1>0, PlainFields DEF m
<1>6. run' \in AgentRuns /\ run'.phase = "none" /\ run'.by = Nobody /\ run'.pending = <<>>
  <2>1. 0 \in 0 .. MaxCalls BY BoundsAssumption
  <2>2. <<>> \in Seq(Messages) OBVIOUS
  <2> QED BY <2>1, <2>2 DEF NoRun, AgentRuns, Phases, Stops
<1>7. session' \in Sessions /\ session'.active = FALSE BY <1>1 DEF Sessions
<1>8. deferred' \in Waitlists
  <2>1. <<>> \in Seq(Commands) /\ <<>> \in Seq(Told) OBVIOUS
  <2> QED BY <1>1, <2>1 DEF Nothing, Waitlists
<1>9. Types' BY <1>0, <1>4, <1>6, <1>7, <1>8, NoneIsNone DEF Types
<1>10. PhaseOK' BY <1>6, <1>7, NoneIsNone DEF PhaseOK
<1>11. CallersOK'
  <2>1. \A p \in Prompts : ~Waiting(p)'
    <3>1. fate \notin {"preflight", "compacting", "checked"} OBVIOUS
    <3> QED BY <1>2, <1>4, <3>1 DEF Waiting
  <2>2. \A p \in Prompts : caller'[p] # "compacting" BY <2>1 DEF Waiting
  <2>3. \A k \in {"abort", "compact"} : caller'[k] = "waiting" => session'.active \/ IsCompacting'
    BY <1>4 DEF IsCompacting
  <2>4. \A k \in Prompts \cup Customs : caller'[k] # "running" /\ run'.by # k
    <3>1. \A k \in Prompts \cup Customs : k # run.by => caller[k] # "running" BY <1>0 DEF CallersOK
    <3> QED BY <1>4, <1>6, <3>1, CallerFacts
  <2>5. \A k \in Prompts \cup Customs : caller'[k] \notin {"waiting", "resumed"}
    <3>1. \A k \in Prompts \cup Customs : caller[k] \notin {"waiting", "resumed"} BY <1>0 DEF CallersOK
    <3> QED BY <1>4, <3>1
  <2> QED BY <1>4, <1>6, <2>1, <2>2, <2>3, <2>4, <2>5, NoneIsNone DEF CallersOK
<1>12. Conversation(context, log)'
  <2>1. Conversation(c \o m, l \o m) BY <1>5, BothHear
  <2> QED BY <1>1, <2>1
<1>13. KeptOK'
  <2>1. m \in Seq(Entries) BY <1>5, Kinds, SeqOfMore
  <2> QED BY <1>0, <1>1, <1>4, <2>1, NoneIsNone, KeptLater DEF IInv
<1>14. ToolsOK' /\ EndsOK' BY <1>6, NoTurn
<1>15. \A k \in Prompts \cup Customs : /\ caller[k] = "queued" => caller'[k] = "queued"
                                       /\ Alike(caller[k], caller'[k])
  BY <1>2, <1>4 DEF Alike, Sent
<1>16. QueuedOK' BY <1>0, <1>15, FrameQueued DEF IInv
<1>17. run.pending = <<>> BY <1>0 DEF PhaseOK
<1>18. DisplayAgrees' BY <1>6, <1>17 DEF IInv, DisplayAgrees
<1>19. ASSUME NEW e \in Plain PROVE Places(e)' = Places(e)
  <2>1. Occurrences(e, l) = Occurrences(e, log) OBVIOUS
  <2> QED BY <1>0, <1>1, <1>6, <1>17, <2>1, FlushPlaces DEF m
<1>20. EveryMessageOnce' BY <1>15, <1>19, FrameOnce DEF IInv
<1> QED BY <1>9, <1>10, <1>11, <1>12, <1>13, <1>14, <1>16, <1>18, <1>20 DEF IInv, Control

LEMMA ContinueFromStep ==
  ASSUME IInv, run.phase \in {"ended", "retrying", "after"}, compaction' = NoCompaction,
         NEW c, NEW l, Conversation(c, l), \A e \in Plain : Occurrences(e, l) = Occurrences(e, log),
         \A k : KeptAt(log, k) => KeptAt(l, k), UNCHANGED manual,
         NEW s \in Sessions, ContinueFrom(c, l, s)
  PROVE  IInv'
<1> DEFINE q == IF EndsInReply(c) /\ queue.steer = <<>> THEN "followUp" ELSE "steer"
           m == Drained(queue[q])
<1>1. q \in {"steer", "followUp"} OBVIOUS
<1>2. CASE EndsInReply(c) /\ m = <<>>
  <2>1. /\ Settle(c, l, s, [caller EXCEPT ![run.by] = "threw"])
        /\ run' = NoRun /\ UNCHANGED <<queue, shown>>
    BY <1>2 DEF ContinueFrom
  <2> QED BY <2>1, RunFinishes
<1>3. CASE EndsInReply(c) /\ m # <<>>
  <2>1. Begin(run.by, c, l, s, m, q, <<>>) /\ UNCHANGED <<deferred, caller>>
    BY <1>3 DEF ContinueFrom
  <2> HIDE DEF q
  <2> QED BY <1>1, <2>1, RunContinues
<1>4. CASE ~EndsInReply(c)
  <2>1. Begin(run.by, c, l, s, <<>>, q, m) /\ UNCHANGED <<deferred, caller>>
    BY <1>4 DEF ContinueFrom
  <2> HIDE DEF q
  <2> QED BY <1>1, <2>1, RunContinues
<1> QED BY <1>2, <1>3, <1>4

LEMMA GoOnStep ==
  ASSUME IInv, run.phase \in {"ended", "retrying", "after"}, compaction' = NoCompaction,
         NEW c, NEW l, Conversation(c, l), \A e \in Plain : Occurrences(e, l) = Occurrences(e, log),
         \A k : KeptAt(log, k) => KeptAt(l, k), UNCHANGED manual,
         NEW s \in Sessions, NEW retry, GoOn(c, l, s, retry)
  PROVE  IInv'
<1>1. CASE retry \/ Queued BY <1>1, ContinueFromStep DEF GoOn
<1>2. CASE ~(retry \/ Queued)
  <2>1. /\ Settle(c, l, s, [caller EXCEPT ![run.by] = "done"])
        /\ run' = NoRun /\ UNCHANGED <<queue, shown>>
    BY <1>2 DEF GoOn
  <2> QED BY <2>1, RunFinishes
<1> QED BY <1>1, <1>2

LEMMA RetryWakesStep ==
  ASSUME IInv, RetryWakes
  PROVE  IInv'
<1>1. /\ run.phase = "retrying" /\ UNCHANGED <<compaction, manual>> /\ ContinueFrom(context, log, session)
  BY DEF RetryWakes
<1>2. Conversation(context, log) /\ session \in Sessions /\ compaction = NoCompaction
  BY <1>1, Alive DEF IInv, Control, Types
<1> QED BY <1>1, <1>2, ContinueFromStep

LEMMA NoCompactionNeededStep ==
  ASSUME IInv, NoCompactionNeeded
  PROVE  IInv'
<1>1. NotRetried /\ UNCHANGED <<compaction, manual>> /\ GoOn(context, log, GivenUp, FALSE)
  BY DEF NoCompactionNeeded
<1>2. run.phase \in {"ended", "retrying"} BY <1>1, NotRetriedPhases
<1>3. Conversation(context, log) /\ GivenUp \in Sessions /\ compaction = NoCompaction
  BY <1>2, Alive, GivenUpIn DEF IInv, Control
<1> QED BY <1>1, <1>2, <1>3, GoOnStep

LEMMA RecoverStep ==
  ASSUME IInv, Recover
  PROVE  IInv'
<1>0. Control /\ Types BY DEF IInv, Control
<1> DEFINE s == [GivenUp EXCEPT !.recovered = TRUE]
           c == WithoutReply(context)
<1>1. /\ NotRetried /\ run.stop \in {"overflow", "length"}
      /\ \/ /\ StartsCompaction("after", TRUE) /\ context' = c /\ session' = s
            /\ run' = [run EXCEPT !.phase = "after"]
            /\ UNCHANGED <<log, queue, shown, deferred, manual, caller>>
         \/ UNCHANGED <<compaction, manual>> /\ GoOn(c, log, s, FALSE)
  BY DEF Recover, Recoverable
<1>2. run.phase \in {"ended", "retrying"} BY <1>1, NotRetriedPhases
<1>3. Conversation(c, log) BY <1>1, <1>2, WithoutReplyNow DEF Failed
<1>4. s \in Sessions /\ s.active = session.active
  <2>1. GivenUp \in Sessions /\ GivenUp.active = session.active BY <1>0, GivenUpIn
  <2> QED BY <2>1 DEF Sessions
<1> HIDE DEF s, c
<1>5. CASE /\ StartsCompaction("after", TRUE) /\ context' = c /\ session' = s
           /\ run' = [run EXCEPT !.phase = "after"]
           /\ UNCHANGED <<log, queue, shown, deferred, manual, caller>>
  <2>1. compaction' \in Compactions /\ compaction'.for = "after" /\ KeptOK'
    BY <1>5, StartsFacts
  <2> QED BY <1>0, <1>2, <1>3, <1>4, <1>5, <2>1, HeldForCompaction, RunHeld
<1>6. CASE UNCHANGED <<compaction, manual>> /\ GoOn(c, log, s, FALSE)
  <2>1. compaction' = NoCompaction BY <1>0, <1>2, <1>6, Alive
  <2> QED BY <1>2, <1>3, <1>4, <1>6, <2>1, GoOnStep
<1> QED BY <1>1, <1>5, <1>6

LEMMA RunCompactedStep ==
  ASSUME IInv, RunCompacted
  PROVE  IInv'
<1>1. PICK o \in AutoOutcomes : GoOn(o.context, o.log, session, o.ok /\ compaction.retry)
  BY DEF RunCompacted
<1>2. compaction.for = "after" /\ compaction' = NoCompaction /\ UNCHANGED manual BY DEF RunCompacted
<1>3. run.phase = "after" /\ session \in Sessions
  BY <1>2 DEF IInv, Control, Types, PhaseOK
<1>4. /\ Conversation(o.context, o.log)
      /\ \A e \in Plain : Occurrences(e, o.log) = Occurrences(e, log)
      /\ \A k : KeptAt(log, k) => KeptAt(o.log, k)
  BY <1>2, AutoFacts
<1> QED BY <1>1, <1>2, <1>3, <1>4, GoOnStep

-----------------------------------------------------------------------------
(***************************************************************************)
(* The theorems.                                                           *)
(***************************************************************************)
LEMMA UnchangedIInv ==
  ASSUME IInv, UNCHANGED vars
  PROVE  IInv'
<1>0. UNCHANGED <<context, log, queue, shown, deferred, run, session, compaction, manual, caller>>
  BY DEF vars
<1>1. Control' BY <1>0 DEF IInv, Control, Types, PhaseOK, CallersOK, Waiting, IsCompacting, ManualCompaction
<1>2. Conversation(context, log)' BY <1>0 DEF IInv
<1>3. KeptOK' BY <1>0, FrameKept DEF IInv
<1>4. ToolsOK' /\ EndsOK' BY <1>0, FrameRun
<1>5. QueuedOK' BY <1>0 DEF IInv, QueuedOK
<1>6. DisplayAgrees' BY <1>0 DEF IInv, DisplayAgrees
<1>7. \A e \in Plain : Places(e)' = Places(e) BY <1>0 DEF Places
<1>8. EveryMessageOnce' BY <1>0, <1>7, FrameAlike, FrameOnce DEF IInv
<1> QED BY <1>1, <1>2, <1>3, <1>4, <1>5, <1>6, <1>8 DEF IInv

LEMMA NextIInv ==
  ASSUME IInv, [Next]_vars
  PROVE  IInv'
<1>1. ASSUME NEW p \in Prompts, Prompt(p) PROVE IInv' BY <1>1, PromptStep
<1>2. ASSUME NEW p \in Prompts, Preflight(p) PROVE IInv'
  BY <1>2, PreflightFailsStep, PreflightCompactsStep, PreflightCompactedStep, StartRunStep DEF Preflight
<1>3. ASSUME NEW p \in Prompts, NEW q \in {"steer", "followUp"}, Enqueue(p, q) PROVE IInv'
  BY <1>3, EnqueueStep
<1>4. ASSUME NEW c \in Customs, AppendCustom(c) PROVE IInv' BY <1>4, AppendCustomStep
<1>5. ASSUME NEW c \in Customs, TriggerRun(c) PROVE IInv' BY <1>5, TriggerRunStep
<1>6. ASSUME NEW c \in Customs, NEW q \in {"steer", "followUp"}, QueueCustom(c, q) PROVE IInv'
  BY <1>6, QueueCustomStep
<1>7. ASSUME NEW b \in Bashes, RecordBash(b) PROVE IInv' BY <1>7, RecordBashStep
<1>8. CASE ClearQueue BY <1>8, ClearQueueStep
<1>9. CASE Abort BY <1>9, AbortStep
<1>10. CASE Compact BY <1>10, CompactStep
<1>11. CASE ManualStarts BY <1>11, ManualStartsStep
<1>12. CASE ManualFails \/ ManualEnds BY <1>12, ManualFailsStep, ManualEndsStep
<1>13. CASE Loop
  BY <1>13, StartTurnStep, StreamStep, ToolStep, EndToolsStep, EndTurnStep, PrepareStep,
     TurnCompactedStep DEF Loop
<1>14. CASE PostRun
  BY <1>14, RetryStep, RetryWakesStep, NoCompactionNeededStep, RecoverStep, TidyStep,
     RunCompactedStep DEF PostRun
<1>15. CASE UNCHANGED vars BY <1>15, UnchangedIInv
<1> QED BY <1>1, <1>2, <1>3, <1>4, <1>5, <1>6, <1>7, <1>8, <1>9, <1>10, <1>11, <1>12, <1>13,
           <1>14, <1>15 DEF Next

(* The inductive invariant holds: through every interleaving of the calls  *)
(* of the clients with the loop, the retries and the compactions.          *)
THEOREM SessionInvariant == Spec => []IInv
<1>1. Init => IInv BY InitIInv
<1>2. IInv /\ [Next]_vars => IInv' BY NextIInv
<1> QED BY <1>1, <1>2, PTL DEF Spec

(* The state keeps its shape, and the phase of the run, who it runs for    *)
(* and the compaction in progress go together.                             *)
THEOREM SessionTypes == Spec => []SessionTypeOK
<1>1. IInv => SessionTypeOK
  BY DEF IInv, Control, Types, PhaseOK, Conversation, KeepsEarlier, SessionTypeOK
<1> QED BY <1>1, SessionInvariant, PTL

(* No bash result and no custom message, whenever it arrives, comes        *)
(* between a tool call and its result, in memory or in the session file;   *)
(* and compaction cuts no call from its result.                            *)
THEOREM ResultsAlwaysFollow == Spec => []ResultsFollowTheirCall
<1>1. IInv => ResultsFollowTheirCall BY DEF IInv, Conversation, ResultsFollowTheirCall
<1> QED BY <1>1, SessionInvariant, PTL

(* A message that was sent is in exactly one place until it is in the      *)
(* session file, and never there twice, around every poll, flush, abort,   *)
(* retry and compaction.                                                   *)
THEOREM EveryMessageIsOnce == Spec => []EveryMessageOnce
<1>1. IInv => EveryMessageOnce BY DEF IInv
<1> QED BY <1>1, SessionInvariant, PTL

(* What the user sees waiting is what waits.                               *)
THEOREM DisplayAlwaysAgrees == Spec => []DisplayAgrees
<1>1. IInv => DisplayAgrees BY DEF IInv
<1> QED BY <1>1, SessionInvariant, PTL

(* A process that resumes from the session file rebuilds the conversation  *)
(* that this one showed the model, replies that failed apart.              *)
THEOREM ResumeAlwaysSees == Spec => []ResumeSeesTheConversation
<1>1. IInv => ResumeSeesTheConversation
  BY DEF IInv, Conversation, ResumeSeesTheConversation
<1> QED BY <1>1, SessionInvariant, PTL

(* abort() and compact() wait only while there is something to wait for,   *)
(* and a prompt that waits has the run or the compaction it waits for.     *)
THEOREM NobodyIsEverForgotten == Spec => []NobodyIsForgotten
<1>1. IInv => NobodyIsForgotten
  BY DEF IInv, Control, CallersOK, PhaseOK, NobodyIsForgotten
<1> QED BY <1>1, SessionInvariant, PTL

=============================================================================
