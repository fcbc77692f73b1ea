--------------------------- MODULE DataInduction ---------------------------
(***************************************************************************)
(* Induction and recursion over data, for the proofs about loops of the    *)
(* code that the model states as recursive functions.  The theorems of     *)
(* NaturalsInduction take the predicate or the definition as an operator;  *)
(* here both are sets and functions, so every backend can instantiate      *)
(* them, and what they rest on is only that Nat is well-founded.           *)
(***************************************************************************)
EXTENDS SequencesExt, FiniteSetTheorems, SequenceTheorems, TLAPS

-----------------------------------------------------------------------------
(* Induction *)

\* A set that holds 0 and every successor of what it holds is all of Nat.
LEMMA SetInduction ==
  ASSUME NEW S, 0 \in S, \A n \in Nat : n \in S => n + 1 \in S
  PROVE  \A n \in Nat : n \in S
<1> DEFINE missing == {n \in Nat : n \notin S}
           less == {ss \in Nat \X Nat : ss[1] < ss[2]}
<1>1. SUFFICES ASSUME missing # {} PROVE FALSE
  OBVIOUS
<1>2. IsWellFoundedOn(less, Nat)
  BY NatLessThanWellFounded DEF OpToRel
<1>3. PICK x \in missing : \A y \in missing : <<y, x>> \notin less
  <2>1. missing \subseteq Nat
    OBVIOUS
  <2> HIDE DEF missing, less
  <2> QED BY <1>1, <1>2, <2>1, WFMin
<1>4. x \in Nat /\ x \notin S
  OBVIOUS
<1>5. x - 1 \in Nat /\ x - 1 \in S
  <2>1. x # 0
    BY <1>4
  <2>2. x - 1 \in Nat
    BY <1>4, <2>1
  <2>3. <<x - 1, x>> \in less
    BY <1>4, <2>2
  <2> QED BY <1>3, <2>2, <2>3
<1> QED BY <1>4, <1>5

\* The same up to a bound.
LEMMA BoundedInduction ==
  ASSUME NEW n \in Nat, NEW S, 0 \in S,
         \A i \in 0..(n - 1) : i \in S => i + 1 \in S
  PROVE  \A i \in 0..n : i \in S
<1> DEFINE T == {i \in Nat : i <= n => i \in S}
<1>1. 0 \in T
  OBVIOUS
<1>2. \A i \in Nat : i \in T => i + 1 \in T
  OBVIOUS
<1>3. \A i \in Nat : i \in T
  <2> HIDE DEF T
  <2> QED BY <1>1, <1>2, SetInduction
<1> QED BY <1>3

\* Dividing with remainder.
LEMMA Division ==
  ASSUME NEW a \in Nat, NEW b \in Nat \ {0}
  PROVE  /\ a \div b \in Nat /\ a % b \in 0..(b - 1)
         /\ a = (a \div b) * b + (a % b)
OBVIOUS

-----------------------------------------------------------------------------
(* Recursion *)

\* What the turns of a loop do to its value, and the values it goes through:
\* the one it starts with, and behind each turn what that one made of the last.
Turns(n, V) == [1..n -> [V -> V]]
IsTrace(f, n, V, c, turn) ==
  /\ f \in [0..n -> V]
  /\ f[0] = c
  /\ \A i \in 1..n : f[i] = turn[i][f[i - 1]]

\* Every loop has such a trace.
LEMMA Traced ==
  ASSUME NEW n \in Nat, NEW V, NEW c \in V, NEW turn \in Turns(n, V)
  PROVE  \E f : IsTrace(f, n, V, c, turn)
<1> DEFINE Trace(m) == {f \in [0..m -> V] :
                          f[0] = c /\ \A i \in 1..m : f[i] = turn[i][f[i - 1]]}
           S == {m \in 0..n : Trace(m) # {}}
<1>1. 0 \in S
  <2>1. [i \in 0..0 |-> c] \in Trace(0)
    OBVIOUS
  <2> QED BY <2>1
<1>2. ASSUME NEW m \in 0..(n - 1), m \in S PROVE m + 1 \in S
  <2>1. PICK f \in [0..m -> V] :
          f[0] = c /\ \A i \in 1..m : f[i] = turn[i][f[i - 1]]
    BY <1>2
  <2> DEFINE h == [i \in 0..(m + 1) |-> IF i = m + 1 THEN turn[m + 1][f[m]] ELSE f[i]]
  <2>2. turn[m + 1] \in [V -> V] /\ f[m] \in V
    BY DEF Turns
  <2>3. h \in [0..(m + 1) -> V]
    BY <2>2
  <2>4. h[0] = c
    BY <2>1
  <2>5. ASSUME NEW i \in 1..(m + 1) PROVE h[i] = turn[i][h[i - 1]]
    <3>1. CASE i = m + 1
      BY <3>1
    <3>2. CASE i # m + 1
      BY <2>1, <3>2
    <3> QED BY <3>1, <3>2
  <2>6. h \in Trace(m + 1)
    <3> HIDE DEF h
    <3> QED BY <2>3, <2>4, <2>5
  <2> QED BY <2>6
<1>3. \A m \in 0..n : m \in S
  <2> HIDE DEF S
  <2> QED BY <1>1, <1>2, BoundedInduction
<1> QED BY <1>3 DEF IsTrace

-----------------------------------------------------------------------------
(* Flattening *)

\* f holds what is flattened of s up to each of its elements.
FlattensAs(f, s, X) ==
  /\ f \in [0..Len(s) -> Seq(X)]
  /\ f[0] = <<>>
  /\ \A i \in 1..Len(s) : f[i] = f[i - 1] \o s[i]

\* There is such an f.
LEMMA FlatteningTraced ==
  ASSUME NEW X, NEW s \in Seq(Seq(X))
  PROVE  \E f : FlattensAs(f, s, X)
<1> DEFINE n == Len(s)
           V == Seq(X)
           turn == [i \in 1..n |-> [v \in V |-> v \o s[i]]]
<1>1. n \in Nat /\ <<>> \in V
  OBVIOUS
<1>2. \A i \in 1..n, v \in V : v \o s[i] \in V
  OBVIOUS
<1>3. turn \in Turns(n, V)
  BY <1>2 DEF Turns
<1>4. PICK f : IsTrace(f, n, V, <<>>, turn)
  <2> HIDE DEF n, V, turn
  <2> QED BY <1>1, <1>3, Traced
<1>5. /\ f \in [0..n -> V]
      /\ f[0] = <<>>
      /\ \A i \in 1..n : f[i] = turn[i][f[i - 1]]
  BY <1>4 DEF IsTrace
<1>6. ASSUME NEW i \in 1..n PROVE f[i] = f[i - 1] \o s[i]
  <2>1. i - 1 \in 0..n
    BY <1>1
  <2>2. f[i - 1] \in V
    BY <1>5, <2>1
  <2>3. turn[i][f[i - 1]] = f[i - 1] \o s[i]
    BY <2>2
  <2> QED BY <1>5, <2>3
<1> QED BY <1>5, <1>6 DEF FlattensAs

\* FlattenSeq is what it holds at the end.
LEMMA FlattenedAt ==
  ASSUME NEW X, NEW s \in Seq(Seq(X)), NEW f, FlattensAs(f, s, X)
  PROVE  FlattenSeq(s) = f[Len(s)]
<1> DEFINE n == Len(s)
           Unrolled(h) == [i \in 1..n |-> IF i = 1 THEN s[i] ELSE h[i - 1] \o s[i]]
           g == CHOOSE h : h = Unrolled(h)
<1>1. n \in Nat /\ \A i \in 1..n : s[i] \in Seq(X)
  OBVIOUS
<1>2. /\ f \in [0..n -> Seq(X)] /\ f[0] = <<>>
      /\ \A i \in 1..n : f[i] = f[i - 1] \o s[i]
  BY Zenon DEF FlattensAs
<1>3. CASE n = 0
  BY <1>2, <1>3 DEF FlattenSeq
<1>4. CASE n # 0
  <2> DEFINE h == [i \in 1..n |-> f[i]]
  <2> HIDE DEF n
  <2>1. f[1] = s[1]
    <3>1. 1 \in 1..n
      BY <1>1, <1>4
    <3>2. f[1] = f[1 - 1] \o s[1] /\ s[1] \in Seq(X)
      BY <1>1, <1>2, <3>1, Zenon
    <3>3. 1 - 1 = 0
      OBVIOUS
    <3>4. f[1] = <<>> \o s[1]
      BY <1>2, <3>2, <3>3, Zenon
    <3> QED BY <3>2, <3>4
  <2>2. ASSUME NEW i \in 1..n
        PROVE  f[i] = IF i = 1 THEN s[i] ELSE h[i - 1] \o s[i]
    <3>1. i # 1 => i - 1 \in 1..n
      BY <1>1
    <3>2. i # 1 => h[i - 1] = f[i - 1]
      BY <3>1
    <3> HIDE DEF h
    <3> QED BY <1>2, <2>1, <3>2
  <2>3. h = Unrolled(h)
    BY <2>2, Zenon
  <2>4. g = Unrolled(g)
    <3> HIDE DEF h, Unrolled
    <3> QED BY <2>3
  <2>5. \A i \in 1..n : g[i] = IF i = 1 THEN s[i] ELSE g[i - 1] \o s[i]
    <3> HIDE DEF g
    <3> QED BY <2>4
  <2> DEFINE S == {i \in 0..n : i > 0 => g[i] = f[i]}
  <2>6. 0 \in S
    BY <1>1
  <2>7. ASSUME NEW i \in 0..(n - 1), i \in S PROVE i + 1 \in S
    <3> HIDE DEF g
    <3>1. i \in Nat /\ i + 1 \in 1..n /\ (i + 1) - 1 = i /\ (i > 0 => g[i] = f[i])
      BY <1>1, <2>7
    <3>2. g[i + 1] = f[i + 1]
      <4>1. CASE i = 0
        BY <2>1, <2>5, <3>1, <4>1
      <4>2. CASE i > 0
        <5>1. g[i + 1] = g[(i + 1) - 1] \o s[i + 1]
          <6>1. i + 1 # 1
            BY <3>1, <4>2
          <6> QED BY <2>5, <3>1, <6>1, Zenon
        <5>2. f[i + 1] = f[i] \o s[i + 1]
          BY <1>2, <3>1
        <5> QED BY <3>1, <4>2, <5>1, <5>2
      <4> QED BY <3>1, <4>1, <4>2
    <3> QED BY <3>1, <3>2
  <2>8. \A i \in 0..n : i \in S
    <3> HIDE DEF S
    <3> QED BY <1>1, <2>6, <2>7, BoundedInduction
  <2>9. g[n] = f[n]
    <3> HIDE DEF g
    <3>1. n \in 0..n /\ n > 0
      BY <1>1, <1>4
    <3> QED BY <2>8, <3>1
  <2>10. FlattenSeq(s) = g[n]
    BY <1>4, Zenon DEF FlattenSeq, g, n
  <2> QED BY <2>9, <2>10 DEF n
<1> QED BY <1>3, <1>4

\* FlattenSeq yields a sequence of the elements' elements.
LEMMA FlattenType ==
  ASSUME NEW X, NEW s \in Seq(Seq(X))
  PROVE  FlattenSeq(s) \in Seq(X)
<1>1. PICK f : FlattensAs(f, s, X)
  BY FlatteningTraced
<1>2. FlattenSeq(s) = f[Len(s)]
  BY <1>1, FlattenedAt
<1>3. f \in [0..Len(s) -> Seq(X)]
  BY <1>1 DEF FlattensAs
<1>4. Len(s) \in 0..Len(s)
  OBVIOUS
<1> QED BY <1>2, <1>3, <1>4

\* What is flattened piecewise is flattened.
LEMMA FlattenConcat ==
  ASSUME NEW X, NEW s \in Seq(Seq(X)), NEW t \in Seq(Seq(X))
  PROVE  FlattenSeq(s \o t) = FlattenSeq(s) \o FlattenSeq(t)
<1> DEFINE m == Len(s)
           n == Len(t)
           st == s \o t
<1>1. PICK f : FlattensAs(f, s, X)
  BY FlatteningTraced
<1>2. PICK h : FlattensAs(h, t, X)
  BY FlatteningTraced
<1> DEFINE k == [i \in 0..(m + n) |-> IF i <= m THEN f[i] ELSE f[m] \o h[i - m]]
<1>3. /\ m \in Nat /\ n \in Nat
      /\ st \in Seq(Seq(X)) /\ Len(st) = m + n
      /\ \A i \in 1..m : st[i] = s[i]
      /\ \A i \in (m + 1)..(m + n) : st[i] = t[i - m] /\ t[i - m] \in Seq(X)
  OBVIOUS
<1>4. /\ f \in [0..m -> Seq(X)] /\ f[0] = <<>>
      /\ \A i \in 1..m : f[i] = f[i - 1] \o s[i]
  BY <1>1, Zenon DEF FlattensAs
<1>5. /\ h \in [0..n -> Seq(X)] /\ h[0] = <<>>
      /\ \A i \in 1..n : h[i] = h[i - 1] \o t[i]
  BY <1>2, Zenon DEF FlattensAs
<1> HIDE DEF m, n, st
<1>6. f[m] \in Seq(X) /\ \A j \in 0..n : h[j] \in Seq(X)
  BY <1>3, <1>4, <1>5
<1>7. f[m] \o h[0] = f[m]
  BY <1>5, <1>6
<1>8. \A i \in 0..m : k[i] = f[i]
  BY <1>3
<1>9. \A j \in 0..n : k[m + j] = f[m] \o h[j]
  <2> SUFFICES ASSUME NEW j \in 0..n PROVE k[m + j] = f[m] \o h[j]
    OBVIOUS
  <2>1. m + j \in 0..(m + n) /\ (m + j) - m = j /\ (m + j <= m <=> j = 0)
    BY <1>3
  <2>2. CASE j = 0
    <3>1. m + j = m /\ m \in 0..m
      BY <1>3, <2>2
    <3>2. k[m] = f[m]
      BY <1>8, <3>1, Zenon
    <3> QED BY <1>7, <2>2, <3>1, <3>2, Zenon
  <2>3. CASE j # 0
    <3>1. k[m + j] = f[m] \o h[(m + j) - m]
      BY <2>1, <2>3, Zenon
    <3> QED BY <2>1, <3>1
  <2> QED BY <2>2, <2>3
<1>10. k \in [0..(m + n) -> Seq(X)]
  <2>1. ASSUME NEW i \in 0..(m + n)
        PROVE  (IF i <= m THEN f[i] ELSE f[m] \o h[i - m]) \in Seq(X)
    <3>1. CASE i <= m
      BY <1>3, <1>4, <3>1
    <3>2. CASE ~(i <= m)
      <4>1. i - m \in 0..n
        BY <1>3, <3>2
      <4>2. h[i - m] \in Seq(X)
        BY <1>5, <4>1
      <4> QED BY <1>6, <3>2, <4>2
    <3> QED BY <3>1, <3>2
  <2> QED BY <2>1, Zenon
<1> HIDE DEF k
<1>11. ASSUME NEW i \in 1..(m + n) PROVE k[i] = k[i - 1] \o st[i]
  <2>1. CASE i <= m
    <3>1. i \in 1..m /\ i \in 0..m /\ i - 1 \in 0..m
      BY <1>3, <2>1
    <3> QED BY <1>3, <1>4, <1>8, <3>1
  <2>2. CASE i > m
    <3> DEFINE j == i - m
    <3>1. /\ j \in 1..n /\ j \in 0..n /\ j - 1 \in 0..n
          /\ i = m + j /\ i - 1 = m + (j - 1) /\ i \in (m + 1)..(m + n)
      BY <1>3, <2>2
    <3>2. st[i] = t[j] /\ t[j] \in Seq(X)
      BY <1>3, <3>1
    <3> HIDE DEF j
    <3>3. k[i] = f[m] \o h[j] /\ k[i - 1] = f[m] \o h[j - 1]
      BY <1>9, <3>1
    <3>4. h[j] = h[j - 1] \o t[j] /\ h[j - 1] \in Seq(X)
      BY <1>5, <3>1
    <3>5. f[m] \o (h[j - 1] \o t[j]) = (f[m] \o h[j - 1]) \o t[j]
      <4>1. \A a, b, c \in Seq(X) : a \o (b \o c) = (a \o b) \o c
        OBVIOUS
      <4> QED BY <1>6, <3>2, <3>4, <4>1, Zenon
    <3> QED BY <3>2, <3>3, <3>4, <3>5, Zenon
  <2> QED BY <1>3, <2>1, <2>2
<1>12. k[0] = <<>>
  BY <1>3, <1>4, <1>8
<1>13. FlattensAs(k, st, X)
  BY <1>3, <1>10, <1>11, <1>12 DEF FlattensAs
<1>14. FlattenSeq(st) = k[m + n]
  BY <1>3, <1>13, FlattenedAt
<1>15. FlattenSeq(s) = f[m] /\ FlattenSeq(t) = h[n]
  BY <1>1, <1>2, FlattenedAt DEF m, n
<1>16. k[m + n] = f[m] \o h[n]
  <2>1. n \in 0..n
    BY <1>3
  <2> QED BY <1>9, <2>1, Zenon
<1> QED BY <1>14, <1>15, <1>16 DEF st

\* The shortest sequences.
LEMMA FlattenFew ==
  ASSUME NEW X, NEW a \in Seq(X), NEW b \in Seq(X)
  PROVE  /\ FlattenSeq(<<>>) = <<>>
         /\ FlattenSeq(<<a>>) = a
         /\ FlattenSeq(<<a, b>>) = a \o b
<1>1. FlattenSeq(<<>>) = <<>>
  BY DEF FlattenSeq
<1>2. ASSUME NEW e \in Seq(X) PROVE FlattenSeq(<<e>>) = e
  <2> DEFINE f == [i \in 0..1 |-> IF i = 0 THEN <<>> ELSE e]
  <2>1. <<e>> \in Seq(Seq(X)) /\ Len(<<e>>) = 1
    OBVIOUS
  <2>2. /\ f \in [0..1 -> Seq(X)] /\ f[0] = <<>> /\ f[1] = e
    OBVIOUS
  <2> HIDE DEF f
  <2>3. <<>> \o e = e
    OBVIOUS
  <2>4. \A i \in 1..1 : f[i] = f[i - 1] \o <<e>>[i]
    BY <2>2, <2>3
  <2>5. FlattensAs(f, <<e>>, X)
    BY <2>1, <2>2, <2>4 DEF FlattensAs
  <2> QED BY <2>1, <2>2, <2>5, FlattenedAt
<1>3. FlattenSeq(<<a>> \o <<b>>) = a \o b
  <2>1. <<a>> \in Seq(Seq(X)) /\ <<b>> \in Seq(Seq(X))
    OBVIOUS
  <2>2. FlattenSeq(<<a>> \o <<b>>) = FlattenSeq(<<a>>) \o FlattenSeq(<<b>>)
    BY <2>1, FlattenConcat
  <2>3. FlattenSeq(<<a>>) = a /\ FlattenSeq(<<b>>) = b
    BY <1>2
  <2> QED BY <2>2, <2>3
<1>4. <<a>> \o <<b>> = <<a, b>>
  <2>1. /\ <<a>> \in Seq(Seq(X)) /\ <<b>> \in Seq(Seq(X)) /\ <<a, b>> \in Seq(Seq(X))
        /\ Len(<<a>>) = 1 /\ Len(<<b>>) = 1 /\ Len(<<a, b>>) = 2
    OBVIOUS
  <2>2. /\ <<a>> \o <<b>> \in Seq(Seq(X)) /\ Len(<<a>> \o <<b>>) = 2
        /\ (<<a>> \o <<b>>)[1] = a /\ (<<a>> \o <<b>>)[2] = b
    BY <2>1, ConcatProperties
  <2>3. \A i \in 1..2 : (<<a>> \o <<b>>)[i] = <<a, b>>[i]
    BY <2>2
  <2> QED BY <2>1, <2>2, <2>3, SeqEqual
<1> QED BY <1>1, <1>2, <1>3, <1>4

\* The first element comes first.
LEMMA FlattenHead ==
  ASSUME NEW X, NEW s \in Seq(Seq(X)), s # <<>>
  PROVE  FlattenSeq(s) = Head(s) \o FlattenSeq(Tail(s))
<1>1. /\ Head(s) \in Seq(X) /\ Tail(s) \in Seq(Seq(X))
      /\ <<Head(s)>> \in Seq(Seq(X))
      /\ s = <<Head(s)>> \o Tail(s)
  OBVIOUS
<1>2. FlattenSeq(<<Head(s)>>) = Head(s)
  BY <1>1, FlattenFew
<1>3. FlattenSeq(<<Head(s)>> \o Tail(s)) = FlattenSeq(<<Head(s)>>) \o FlattenSeq(Tail(s))
  BY <1>1, FlattenConcat
<1> QED BY <1>1, <1>2, <1>3
=============================================================================
