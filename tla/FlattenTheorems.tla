-------------------------- MODULE FlattenTheorems ---------------------------
(***************************************************************************)
(* What FlattenSeq computes for every sequence of sequences, by induction  *)
(* over its length: messages, bodies and commands are flattened lists of   *)
(* their parts, and what is sent or done of them grows part by part.       *)
(***************************************************************************)
EXTENDS Integers, Sequences, SequencesExt, WellFoundedInduction, SequenceTheorems, TLAPS

\* Induction, over sets of numbers because < is well-founded.
LEMMA SetInduction ==
  ASSUME NEW S, 0 \in S, \A n \in Nat : n \in S => n + 1 \in S
  PROVE  Nat \subseteq S
<1> SUFFICES ASSUME Nat \ S # {} PROVE FALSE
  OBVIOUS
<1> DEFINE R == OpToRel(<, Nat)
<1>1. IsWellFoundedOn(R, Nat)
  BY NatLessThanWellFounded
<1>2. \A n, m \in Nat : n < m => <<n, m>> \in R
  BY DEF OpToRel
<1> HIDE DEF R
<1>3. PICK x \in Nat \ S : \A y \in Nat \ S : <<y, x>> \notin R
  BY <1>1, WFMin
<1>4. x - 1 \in Nat \ S /\ x - 1 < x
  OBVIOUS
<1>5. <<x - 1, x>> \in R
  BY <1>2, <1>4
<1> QED BY <1>3, <1>4, <1>5

LEMMA LeastNumber ==
  ASSUME NEW S, S \subseteq Nat, S # {}
  PROVE  \E n \in S : \A m \in S : n <= m
<1> DEFINE R == OpToRel(<, Nat)
<1>1. IsWellFoundedOn(R, Nat)
  BY NatLessThanWellFounded
<1>2. \A n, m \in Nat : n < m => <<n, m>> \in R
  BY DEF OpToRel
<1> HIDE DEF R
<1>3. PICK x \in S : \A y \in S : <<y, x>> \notin R
  BY <1>1, WFMin
<1>4. \A y \in S : ~(y < x)
  BY <1>2, <1>3
<1> QED BY <1>4

\* A function from the numbers up to n is a sequence of length n.
LEMMA FunctionSeq ==
  ASSUME NEW S, NEW n \in Nat, NEW f \in [1..n -> S]
  PROVE  f \in Seq(S) /\ Len(f) = n
OBVIOUS

-----------------------------------------------------------------------------
(* The recursive function of FlattenSeq.                                   *)

Flattens(g, ss, n) == g = [i \in 1..n |-> IF i = 1 THEN ss[i] ELSE g[i - 1] \o ss[i]]

LEMMA FlattensExists ==
  ASSUME NEW S, NEW ss \in Seq(Seq(S))
  PROVE  \A n \in Nat : n <= Len(ss) => \E g \in [1..n -> Seq(S)] : Flattens(g, ss, n)
<1> DEFINE N == {n \in Nat : n <= Len(ss) => \E g \in [1..n -> Seq(S)] : Flattens(g, ss, n)}
<1>1. 0 \in N
  <2> DEFINE g == [i \in 1..0 |-> <<>>]
  <2>1. g \in [1..0 -> Seq(S)] /\ Flattens(g, ss, 0)
    BY DEF Flattens
  <2> QED BY <2>1
<1>2. ASSUME NEW n \in Nat, n \in N PROVE n + 1 \in N
  <2> SUFFICES ASSUME n + 1 <= Len(ss)
               PROVE  \E g \in [1..n + 1 -> Seq(S)] : Flattens(g, ss, n + 1)
    OBVIOUS
  <2>1. PICK g \in [1..n -> Seq(S)] : Flattens(g, ss, n)
    BY <1>2
  <2> DEFINE last == IF n = 0 THEN ss[1] ELSE g[n] \o ss[n + 1]
             h == [i \in 1..n + 1 |-> IF i = n + 1 THEN last ELSE g[i]]
  <2>2. last \in Seq(S)
    <3>1. ss[n + 1] \in Seq(S)
      OBVIOUS
    <3>2. n # 0 => g[n] \in Seq(S)
      OBVIOUS
    <3> QED BY <3>1, <3>2, ConcatProperties
  <2>3. h \in [1..n + 1 -> Seq(S)]
    BY <2>2
  <2>4. \A i \in 1..n : g[i] = IF i = 1 THEN ss[i] ELSE g[i - 1] \o ss[i]
    BY <2>1 DEF Flattens
  <2>5. \A i \in 1..n : h[i] = g[i]
    <3> TAKE i \in 1..n
    <3>1. i \in 1..n + 1 /\ i # n + 1
      OBVIOUS
    <3> QED BY <3>1
  <2>6. h[n + 1] = last
    OBVIOUS
  <2>7. h = [i \in 1..n + 1 |-> h[i]]
    OBVIOUS
  <2> HIDE DEF h
  <2>8. \A i \in 1..n + 1 : h[i] = IF i = 1 THEN ss[i] ELSE h[i - 1] \o ss[i]
    <3> TAKE i \in 1..n + 1
    <3>1. CASE i = n + 1
      <4>1. n # 0 => h[n] = g[n]
        BY <2>5
      <4> QED BY <3>1, <2>6, <4>1
    <3>2. CASE i # n + 1
      <4>1. i \in 1..n /\ (i # 1 => i - 1 \in 1..n)
        BY <3>2
      <4> QED BY <2>4, <2>5, <4>1
    <3> QED BY <3>1, <3>2
  <2>9. Flattens(h, ss, n + 1)
    BY <2>7, <2>8 DEF Flattens
  <2> QED BY <2>3, <2>9
<1> HIDE DEF N
<1>3. Nat \subseteq N
  BY <1>1, <1>2, SetInduction
<1> QED BY <1>3 DEF N

\* There is only one, whichever part of the sequence it is for.
LEMMA FlattensUnique ==
  ASSUME NEW ss, NEW n \in Nat, NEW m \in Nat, n <= m,
         NEW f, NEW g, Flattens(f, ss, n), Flattens(g, ss, m)
  PROVE  \A i \in 1..n : f[i] = g[i]
<1> DEFINE N == {i \in Nat : i \in 1..n => f[i] = g[i]}
<1>0. /\ \A i \in 1..n : f[i] = IF i = 1 THEN ss[i] ELSE f[i - 1] \o ss[i]
      /\ \A i \in 1..m : g[i] = IF i = 1 THEN ss[i] ELSE g[i - 1] \o ss[i]
  BY DEF Flattens
<1>1. 0 \in N
  OBVIOUS
<1>2. ASSUME NEW i \in Nat, i \in N PROVE i + 1 \in N
  <2> SUFFICES ASSUME i + 1 \in 1..n PROVE f[i + 1] = g[i + 1]
    OBVIOUS
  <2>1. i + 1 \in 1..m /\ (i + 1) - 1 = i
    OBVIOUS
  <2>2. CASE i = 0
    BY <1>0, <2>1, <2>2
  <2>3. CASE i # 0
    <3>1. i \in 1..n
      BY <2>3
    <3>2. f[i] = g[i]
      BY <1>2, <3>1
    <3> QED BY <1>0, <2>1, <2>3, <3>2
  <2> QED BY <2>2, <2>3
<1> HIDE DEF N
<1>3. Nat \subseteq N
  BY <1>1, <1>2, SetInduction
<1> QED BY <1>3 DEF N

-----------------------------------------------------------------------------
(* What it computes.                                                       *)

LEMMA FlattenDefined ==
  ASSUME NEW S, NEW ss \in Seq(Seq(S)), Len(ss) > 0
  PROVE  \E g \in [1..Len(ss) -> Seq(S)] : Flattens(g, ss, Len(ss)) /\ FlattenSeq(ss) = g[Len(ss)]
<1> DEFINE f == CHOOSE h : h = [i \in 1..Len(ss) |-> IF i = 1 THEN ss[i] ELSE h[i - 1] \o ss[i]]
<1>1. PICK g \in [1..Len(ss) -> Seq(S)] : Flattens(g, ss, Len(ss))
  BY FlattensExists
<1>2. Flattens(f, ss, Len(ss))
  BY <1>1 DEF Flattens
<1>3. FlattenSeq(ss) = f[Len(ss)]
  BY DEF FlattenSeq
<1> HIDE DEF f
<1>4. \A i \in 1..Len(ss) : f[i] = g[i]
  BY <1>1, <1>2, FlattensUnique
<1>5. Len(ss) \in 1..Len(ss)
  OBVIOUS
<1>6. FlattenSeq(ss) = g[Len(ss)]
  BY <1>3, <1>4, <1>5
<1> QED BY <1>1, <1>6

LEMMA FlattenEmpty == FlattenSeq(<<>>) = <<>>
BY DEF FlattenSeq

LEMMA FlattenType ==
  ASSUME NEW S, NEW ss \in Seq(Seq(S))
  PROVE  FlattenSeq(ss) \in Seq(S)
<1>1. CASE Len(ss) = 0
  <2>1. ss = <<>>
    BY <1>1, EmptySeq
  <2>2. <<>> \in Seq(S)
    OBVIOUS
  <2> QED BY <2>1, <2>2, FlattenEmpty
<1>2. CASE Len(ss) > 0
  <2>1. PICK g \in [1..Len(ss) -> Seq(S)] : FlattenSeq(ss) = g[Len(ss)]
    BY <1>2, FlattenDefined
  <2>2. Len(ss) \in 1..Len(ss)
    BY <1>2
  <2> QED BY <2>1, <2>2
<1>3. Len(ss) \in Nat
  OBVIOUS
<1> QED BY <1>1, <1>2, <1>3

\* One more part is put behind the others.
LEMMA FlattenAppend ==
  ASSUME NEW S, NEW ss \in Seq(Seq(S)), NEW s \in Seq(S)
  PROVE  FlattenSeq(Append(ss, s)) = FlattenSeq(ss) \o s
<1> DEFINE n == Len(ss)
           tt == Append(ss, s)
<1>1. /\ n \in Nat /\ tt \in Seq(Seq(S)) /\ Len(tt) = n + 1
      /\ \A i \in 1..n : tt[i] = ss[i]
      /\ tt[n + 1] = s
  OBVIOUS
<1> HIDE DEF tt
<1>2. PICK g \in [1..n + 1 -> Seq(S)] : Flattens(g, tt, n + 1) /\ FlattenSeq(tt) = g[n + 1]
  BY <1>1, FlattenDefined
<1>3. \A i \in 1..n + 1 : g[i] = IF i = 1 THEN tt[i] ELSE g[i - 1] \o tt[i]
  BY <1>2 DEF Flattens
<1>4. CASE n = 0
  <2>1. ss = <<>>
    BY <1>4, EmptySeq
  <2>2. FlattenSeq(tt) = s
    BY <1>1, <1>2, <1>3, <1>4
  <2>3. <<>> \o s = s
    OBVIOUS
  <2> QED BY <2>1, <2>2, <2>3, FlattenEmpty DEF tt
<1>5. CASE n > 0
  <2>1. PICK f \in [1..n -> Seq(S)] : Flattens(f, ss, n) /\ FlattenSeq(ss) = f[n]
    BY <1>5, FlattenDefined
  <2>2. Flattens(f, tt, n)
    <3>1. \A i \in 1..n : (IF i = 1 THEN ss[i] ELSE f[i - 1] \o ss[i])
                        = (IF i = 1 THEN tt[i] ELSE f[i - 1] \o tt[i])
      BY <1>1
    <3> QED BY <2>1, <3>1 DEF Flattens
  <2>3. n \in 1..n /\ n + 1 \in 1..n + 1 /\ (n + 1) - 1 = n /\ n + 1 # 1 /\ n <= n + 1
    BY <1>1, <1>5
  <2>4. f[n] = g[n]
    BY <1>1, <1>2, <2>2, <2>3, FlattensUnique
  <2>5. g[n + 1] = g[n] \o tt[n + 1]
    BY <1>3, <2>3
  <2> QED BY <1>1, <1>2, <2>1, <2>4, <2>5 DEF tt
<1> QED BY <1>1, <1>4, <1>5

LEMMA FlattenUpto ==
  ASSUME NEW S, NEW ss \in Seq(Seq(S)), NEW i \in 0..Len(ss) - 1
  PROVE  FlattenSeq(SubSeq(ss, 1, i + 1)) = FlattenSeq(SubSeq(ss, 1, i)) \o ss[i + 1]
<1>1. SubSeq(ss, 1, i) \in Seq(Seq(S)) /\ ss[i + 1] \in Seq(S)
  OBVIOUS
<1>2. SubSeq(ss, 1, i + 1) = Append(SubSeq(ss, 1, i), ss[i + 1])
  OBVIOUS
<1> QED BY <1>1, <1>2, FlattenAppend

\* A sequence of two parts is put behind two others.
LEMMA ConcatParts ==
  ASSUME NEW S, NEW s \in Seq(S), NEW t \in Seq(S), NEW u \in Seq(S), NEW v \in Seq(S)
  PROVE  s \o (t \o (u \o v)) = s \o t \o u \o v
<1>1. u \o v \in Seq(S) /\ s \o t \in Seq(S)
  BY ConcatProperties
<1>2. s \o (t \o (u \o v)) = (s \o t) \o (u \o v)
  BY <1>1, ConcatAssociative, SMTT(30)
<1>3. (s \o t) \o (u \o v) = ((s \o t) \o u) \o v
  BY <1>1, ConcatAssociative, SMTT(30)
<1> QED BY <1>2, <1>3

-----------------------------------------------------------------------------
(* Prefixes.                                                               *)

\* The form in which prefixes are proved.
LEMMA PrefixByElement ==
  ASSUME NEW S, NEW s \in Seq(S), NEW t \in Seq(S)
  PROVE  IsPrefix(s, t) <=> Len(s) <= Len(t) /\ \A i \in 1..Len(s) : s[i] = t[i]
<1>1. ASSUME Len(s) <= Len(t)
      PROVE  SubSeq(s, 1, Len(s)) = SubSeq(t, 1, Len(s)) <=> \A i \in 1..Len(s) : s[i] = t[i]
  <2> DEFINE u == SubSeq(t, 1, Len(s))
  <2>1. SubSeq(s, 1, Len(s)) = s
    OBVIOUS
  <2>2. u \in Seq(S) /\ Len(u) = Len(s) /\ \A i \in 1..Len(s) : u[i] = t[i]
    BY <1>1
  <2> HIDE DEF u
  <2>3. s = u <=> \A i \in 1..Len(s) : s[i] = u[i]
    BY <2>2, SeqEqual
  <2> QED BY <2>1, <2>2, <2>3 DEF u
<1> QED BY <1>1 DEF IsPrefix

LEMMA PrefixReflexive ==
  ASSUME NEW S, NEW s \in Seq(S)
  PROVE  IsPrefix(s, s)
<1>1. Len(s) \in Nat /\ Len(s) <= Len(s)
  OBVIOUS
<1> QED BY <1>1, PrefixByElement

LEMMA PrefixOfConcat ==
  ASSUME NEW S, NEW s \in Seq(S), NEW t \in Seq(S)
  PROVE  IsPrefix(s, s \o t)
<1>1. s \o t \in Seq(S) /\ Len(s) <= Len(s \o t) /\ \A i \in 1..Len(s) : s[i] = (s \o t)[i]
  OBVIOUS
<1> QED BY <1>1, PrefixByElement

LEMMA PrefixTransitive ==
  ASSUME NEW S, NEW s \in Seq(S), NEW t \in Seq(S), NEW u \in Seq(S), IsPrefix(s, t), IsPrefix(t, u)
  PROVE  IsPrefix(s, u)
<1>1. /\ Len(s) <= Len(t) /\ \A i \in 1..Len(s) : s[i] = t[i]
      /\ Len(t) <= Len(u) /\ \A i \in 1..Len(t) : t[i] = u[i]
  BY PrefixByElement
<1>2. Len(s) <= Len(u) /\ \A i \in 1..Len(s) : i \in 1..Len(t)
  BY <1>1
<1> QED BY <1>1, <1>2, PrefixByElement

LEMMA PrefixConcat ==
  ASSUME NEW S, NEW s \in Seq(S), NEW t \in Seq(S), NEW u \in Seq(S), IsPrefix(t, u)
  PROVE  IsPrefix(s \o t, s \o u)
<1>1. Len(t) <= Len(u) /\ (\A i \in 1..Len(t) : t[i] = u[i]) /\ Len(s) \in Nat /\ Len(t) \in Nat
  BY PrefixByElement
<1>2. /\ s \o t \in Seq(S) /\ s \o u \in Seq(S)
      /\ Len(s \o t) = Len(s) + Len(t) /\ Len(s \o u) = Len(s) + Len(u)
  OBVIOUS
<1>3. ASSUME NEW i \in 1..Len(s \o t) PROVE (s \o t)[i] = (s \o u)[i]
  <2>1. CASE i <= Len(s)
    BY <2>1
  <2>2. CASE i > Len(s)
    <3>1. i - Len(s) \in 1..Len(t)
      BY <1>2, <2>2
    <3>2. (s \o t)[i] = t[i - Len(s)] /\ (s \o u)[i] = u[i - Len(s)]
      BY <1>1, <1>2, <2>2
    <3> QED BY <1>1, <3>1, <3>2
  <2>3. i <= Len(s) \/ i > Len(s)
    BY <1>1, <1>2
  <2> QED BY <2>1, <2>2, <2>3
<1>4. Len(s \o t) <= Len(s \o u)
  BY <1>1, <1>2
<1> QED BY <1>2, <1>3, <1>4, PrefixByElement

\* The first parts come first.
LEMMA FlattenPrefix ==
  ASSUME NEW S, NEW ss \in Seq(Seq(S)), NEW i \in 0..Len(ss)
  PROVE  IsPrefix(FlattenSeq(SubSeq(ss, 1, i)), FlattenSeq(ss))
<1> DEFINE P(j) == FlattenSeq(SubSeq(ss, 1, j))
           N == {d \in Nat : i + d <= Len(ss) => IsPrefix(P(i), P(i + d))}
<1>0. \A j \in 0..Len(ss) : P(j) \in Seq(S)
  <2> TAKE j \in 0..Len(ss)
  <2>1. SubSeq(ss, 1, j) \in Seq(Seq(S))
    OBVIOUS
  <2> QED BY <2>1, FlattenType
<1>1. 0 \in N
  <2>1. P(i) \in Seq(S) /\ i + 0 = i
    BY <1>0
  <2> HIDE DEF P
  <2>2. IsPrefix(P(i), P(i))
    BY <2>1, PrefixByElement
  <2> QED BY <2>1, <2>2
<1>2. ASSUME NEW d \in Nat, d \in N PROVE d + 1 \in N
  <2> SUFFICES ASSUME i + (d + 1) <= Len(ss) PROVE IsPrefix(P(i), P(i + (d + 1)))
    OBVIOUS
  <2>1. i + d \in 0..Len(ss) - 1 /\ i + d \in 0..Len(ss) /\ i + (d + 1) = (i + d) + 1
    OBVIOUS
  <2>2. P(i + (d + 1)) = P(i + d) \o ss[(i + d) + 1]
    BY <2>1, FlattenUpto
  <2>3. ss[(i + d) + 1] \in Seq(S)
    BY <2>1
  <2>4. IsPrefix(P(i), P(i + d))
    BY <1>2, <2>1
  <2>5. i + (d + 1) \in 0..Len(ss)
    BY <2>1
  <2>6. P(i) \in Seq(S) /\ P(i + d) \in Seq(S) /\ P(i + (d + 1)) \in Seq(S)
    BY <1>0, <2>1, <2>5
  <2> HIDE DEF P
  <2>7. IsPrefix(P(i + d), P(i + (d + 1)))
    BY <2>2, <2>3, <2>6, PrefixOfConcat
  <2> QED BY <2>4, <2>6, <2>7, PrefixTransitive
<1> HIDE DEF N
<1>3. Nat \subseteq N
  BY <1>1, <1>2, SetInduction
<1>4. Len(ss) - i \in Nat /\ i + (Len(ss) - i) = Len(ss)
  OBVIOUS
<1> HIDE DEF P
<1>5. IsPrefix(P(i), P(Len(ss)))
  <2>1. Len(ss) - i \in N
    BY <1>3, <1>4
  <2>2. i + (Len(ss) - i) <= Len(ss)
    BY <1>4
  <2>3. IsPrefix(P(i), P(i + (Len(ss) - i)))
    BY <2>1, <2>2 DEF N
  <2> QED BY <1>4, <2>3
<1>6. SubSeq(ss, 1, Len(ss)) = ss
  OBVIOUS
<1> QED BY <1>5, <1>6 DEF P
=============================================================================
