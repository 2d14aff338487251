--------------------------- MODULE SequenceFacts ---------------------------
(***************************************************************************)
(* Facts about sequences that the library of proofs does not have, above   *)
(* all about FlattenSeq, the concatenation of a sequence of sequences.     *)
(*                                                                         *)
(* FlattenSeq is a recursive function.  The library's induction rules take *)
(* a predicate, which the provers do not instantiate; SetInduction states  *)
(* the same of a set, and follows from the minimal element that every set  *)
(* of natural numbers has.                                                 *)
(***************************************************************************)
EXTENDS SequencesExt, SequenceTheorems, WellFoundedInduction, TLAPS

\* Induction over the natural numbers, for a set instead of a predicate: the provers
\* can instantiate a set.
LEMMA SetInduction ==
  ASSUME NEW T, 0 \in T, \A n \in Nat : n \in T => n + 1 \in T
  PROVE  Nat \subseteq T
  <1> DEFINE U == {n \in Nat : n \notin T}
  <1> SUFFICES ASSUME U # {} PROVE FALSE
    OBVIOUS
  <1>1. PICK x \in U : \A y \in U : ~(<<y, x>> \in OpToRel(<, Nat))
    BY WFMin, NatLessThanWellFounded, U \subseteq Nat
  <1>2. \A y \in U : ~(y < x)
    BY <1>1 DEF OpToRel
  <1> QED
    BY <1>2

\* The same up to n.
LEMMA IntervalInduction ==
  ASSUME NEW n \in Nat, NEW T, 0 \in T, \A i \in 1..n : i - 1 \in T => i \in T
  PROVE  0..n \subseteq T
  <1> DEFINE U == {i \in Nat : i <= n => i \in T}
  <1>1. 0 \in U
    OBVIOUS
  <1>2. ASSUME NEW i \in Nat, i \in U PROVE i + 1 \in U
    <2>1. CASE i + 1 <= n
      <3>1. i + 1 \in 1..n /\ (i + 1) - 1 = i /\ i \in T
        BY <1>2, <2>1
      <3> QED
        BY <3>1
    <2>2. CASE ~(i + 1 <= n)
      BY <2>2
    <2> QED
      BY <2>1, <2>2
  <1> HIDE DEF U
  <1>3. Nat \subseteq U
    BY <1>1, <1>2, SetInduction
  <1> QED
    BY <1>3 DEF U

\* g is the concatenations of the first sequences of ss.
Concats(g, ss, S) ==
    /\ g \in [0..Len(ss) -> Seq(S)]
    /\ g[0] = <<>>
    /\ \A i \in 1..Len(ss) : g[i] = g[i - 1] \o ss[i]

\* A sequence of sequences has its concatenations.
LEMMA ConcatsExist ==
  ASSUME NEW S, NEW ss \in Seq(Seq(S))
  PROVE  \E g : Concats(g, ss, S)
  <1> DEFINE n == Len(ss)
             Rec(g, k) == /\ g \in [0..k -> Seq(S)]
                          /\ g[0] = <<>>
                          /\ \A i \in 1..k : g[i] = g[i - 1] \o ss[i]
             T == {k \in Nat : \E g : Rec(g, k)}
  <1>1. n \in Nat /\ \A i \in 1..n : ss[i] \in Seq(S)
    BY LenProperties, ElementOfSeq
  <1> HIDE DEF n
  <1>2. 0 \in T
    <2> DEFINE g == [i \in 0..0 |-> <<>>]
    <2>1. Rec(g, 0)
      BY EmptySeq
    <2> QED
      BY <2>1
  <1>3. ASSUME NEW k \in 1..n, k - 1 \in T PROVE k \in T
    <2>1. PICK g : Rec(g, k - 1)
      BY <1>3
    <2> DEFINE h == [i \in 0..k |-> IF i = k THEN g[k - 1] \o ss[k] ELSE g[i]]
    <2>2. g[k - 1] \in Seq(S) /\ ss[k] \in Seq(S) /\ k \in Nat /\ k # 0 /\ k - 1 \in Nat
      BY <1>1, <2>1
    <2>3. g[k - 1] \o ss[k] \in Seq(S)
      BY <2>2, ConcatProperties
    <2>4. \A i \in 0..k : i = k \/ i \in 0..(k - 1)
      BY <2>2
    <2>5. h \in [0..k -> Seq(S)]
      BY <2>1, <2>3, <2>4
    <2>6. h[0] = <<>>
      BY <2>1, <2>2
    <2>7. ASSUME NEW i \in 1..k PROVE h[i] = h[i - 1] \o ss[i]
      <3>1. CASE i = k
        <4>1. k \in 0..k /\ k - 1 \in 0..k /\ k - 1 # k
          BY <2>2
        <4>2. h[k] = g[k - 1] \o ss[k] /\ h[k - 1] = g[k - 1]
          BY <4>1
        <4> QED
          BY <3>1, <4>2
      <3>2. CASE i # k
        <4>1. i \in 1..(k - 1) /\ i - 1 # k /\ i \in 0..k /\ i - 1 \in 0..k
          BY <2>2, <3>2
        <4> QED
          BY <2>1, <3>2, <4>1
      <3> QED
        BY <3>1, <3>2
    <2> HIDE DEF h
    <2>8. Rec(h, k)
      BY <2>5, <2>6, <2>7
    <2> QED
      BY <2>2, <2>8
  <1> HIDE DEF T
  <1>4. 0..n \subseteq T
    BY <1>1, <1>2, <1>3, IntervalInduction
  <1>5. n \in T
    BY <1>1, <1>4
  <1> QED
    BY <1>5 DEF T, n, Concats

\* FlattenSeq returns the last of them, whatever its recursive function is outside
\* its domain.
LEMMA FlattenIsLastPrefix ==
  ASSUME NEW S, NEW ss \in Seq(Seq(S)), NEW g, Concats(g, ss, S)
  PROVE  FlattenSeq(ss) = g[Len(ss)]
  <1> DEFINE n == Len(ss)
             Def(f) == [i \in 1..n |-> IF i = 1 THEN ss[i] ELSE f[i - 1] \o ss[i]]
             flatten == CHOOSE f : f = Def(f)
  <1>1. n \in Nat /\ \A i \in 1..n : ss[i] \in Seq(S)
    BY LenProperties, ElementOfSeq
  <1>2. CASE n = 0
    <2>1. ss = <<>>
      BY <1>2, EmptySeq
    <2> QED
      BY <1>2, <2>1 DEF FlattenSeq, Concats
  <1>3. CASE n # 0
    <2>1. FlattenSeq(ss) = flatten[n]
      BY <1>3 DEF FlattenSeq
    <2>2. g[1] = ss[1]
      <3>1. 1 \in 1..n /\ 1 - 1 = 0
        BY <1>1, <1>3
      <3>2. g[1] = g[1 - 1] \o ss[1] /\ g[0] = <<>>
        BY <3>1 DEF Concats
      <3>3. <<>> \o ss[1] = ss[1]
        BY <1>1, <3>1, ConcatEmptySeq
      <3> QED
        BY <3>1, <3>2, <3>3
    <2> DEFINE h == [i \in 1..n |-> g[i]]
    <2>3. h = Def(h)
      <3>1. ASSUME NEW i \in 1..n, i # 1 PROVE h[i] = h[i - 1] \o ss[i]
        <4>1. i - 1 \in 1..n
          BY <1>1, <3>1
        <4>2. g[i] = g[i - 1] \o ss[i]
          BY DEF Concats
        <4> QED
          BY <4>1, <4>2
      <3> QED
        BY <2>2, <3>1
    <2> HIDE DEF h
    <2>4. flatten = Def(flatten)
      BY <2>3
    <2> HIDE DEF flatten
    <2> DEFINE T == {i \in 0..n : i # 0 => flatten[i] = g[i]}
    <2>5. 0 \in T
      BY <1>1
    <2>6. ASSUME NEW i \in 1..n, i - 1 \in T PROVE i \in T
      <3>1. CASE i = 1
        <4>1. flatten[i] = ss[i]
          BY <2>4, <3>1, <1>1
        <4> QED
          BY <1>1, <1>3, <2>2, <3>1, <4>1
      <3>2. CASE i # 1
        <4>1. flatten[i] = flatten[i - 1] \o ss[i]
          BY <2>4, <3>2
        <4>2. flatten[i - 1] = g[i - 1]
          BY <2>6, <3>2
        <4>3. g[i] = g[i - 1] \o ss[i]
          BY DEF Concats
        <4>4. i \in 0..n /\ flatten[i] = g[i]
          BY <1>1, <4>1, <4>2, <4>3
        <4> QED
          BY <4>4
      <3> QED
        BY <3>1, <3>2
    <2> HIDE DEF T
    <2>7. 0..n \subseteq T
      BY <1>1, <2>5, <2>6, IntervalInduction
    <2>8. n \in T
      BY <1>1, <2>7
    <2> QED
      BY <1>3, <2>1, <2>8 DEF T
  <1> QED
    BY <1>2, <1>3

\* What is concatenated from sequences over S is a sequence over S.
LEMMA FlattenType ==
  ASSUME NEW S, NEW ss \in Seq(Seq(S))
  PROVE  FlattenSeq(ss) \in Seq(S)
  <1>1. PICK g : Concats(g, ss, S)
    BY ConcatsExist
  <1>2. FlattenSeq(ss) = g[Len(ss)]
    BY <1>1, FlattenIsLastPrefix
  <1>3. Len(ss) \in 0..Len(ss)
    BY LenProperties
  <1> QED
    BY <1>1, <1>2, <1>3 DEF Concats

\* Another sequence is concatenated at the end.
LEMMA FlattenAppend ==
  ASSUME NEW S, NEW ss \in Seq(Seq(S)), NEW s \in Seq(S)
  PROVE  FlattenSeq(Append(ss, s)) = FlattenSeq(ss) \o s
  <1> DEFINE n == Len(ss)
             tt == Append(ss, s)
  <1>1. PICK g : Concats(g, ss, S)
    BY ConcatsExist
  <1>2. n \in Nat /\ tt \in Seq(Seq(S)) /\ Len(tt) = n + 1
        /\ tt[n + 1] = s /\ \A i \in 1..n : tt[i] = ss[i]
    BY LenProperties, AppendProperties
  <1> DEFINE h == [i \in 0..(n + 1) |-> IF i = n + 1 THEN g[n] \o s ELSE g[i]]
  <1>3. g[n] \in Seq(S) /\ g[n] \o s \in Seq(S)
    <2>1. g[n] \in Seq(S)
      BY <1>1, <1>2 DEF Concats
    <2> QED
      BY <2>1, ConcatProperties
  <1> HIDE DEF n, tt
  <1>4. Concats(h, tt, S)
    <2>1. \A i \in 0..(n + 1) : i = n + 1 \/ i \in 0..n
      BY <1>2
    <2>2. h \in [0..(n + 1) -> Seq(S)]
      BY <1>1, <1>3, <2>1 DEF Concats, n
    <2>3. h[0] = <<>>
      BY <1>1, <1>2 DEF Concats
    <2>4. ASSUME NEW i \in 1..(n + 1) PROVE h[i] = h[i - 1] \o tt[i]
      <3>1. CASE i = n + 1
        <4>1. i - 1 = n /\ n \in 0..(n + 1) /\ n # n + 1 /\ i \in 0..(n + 1)
          BY <1>2, <3>1
        <4>2. h[i] = g[n] \o s /\ h[n] = g[n]
          BY <3>1, <4>1
        <4> QED
          BY <1>2, <3>1, <4>1, <4>2
      <3>2. CASE i # n + 1
        <4>1. i \in 1..n /\ i - 1 \in 0..n /\ i - 1 \in 0..(n + 1) /\ i - 1 # n + 1
              /\ i \in 0..(n + 1)
          BY <1>2, <3>2
        <4>2. g[i] = g[i - 1] \o ss[i]
          BY <1>1, <4>1 DEF Concats, n
        <4>3. h[i] = g[i] /\ h[i - 1] = g[i - 1]
          BY <3>2, <4>1
        <4> QED
          BY <1>2, <4>1, <4>2, <4>3
      <3> QED
        BY <3>1, <3>2
    <2> HIDE DEF h
    <2> QED
      BY <1>2, <2>2, <2>3, <2>4 DEF Concats
  <1>5. FlattenSeq(tt) = h[n + 1] /\ FlattenSeq(ss) = g[n]
    BY <1>1, <1>2, <1>4, FlattenIsLastPrefix DEF n
  <1>6. h[n + 1] = g[n] \o s
    BY <1>2
  <1> QED
    BY <1>5, <1>6 DEF tt

\* What ends up in the concatenation is what is in one of the sequences.
LEMMA FlattenElements ==
  ASSUME NEW S, NEW ss \in Seq(Seq(S)), NEW e
  PROVE  e \in ToSet(FlattenSeq(ss)) <=> \E i \in 1..Len(ss) : e \in ToSet(ss[i])
  <1> DEFINE n == Len(ss)
             In(s) == e \in ToSet(s)
  <1>1. PICK g : Concats(g, ss, S)
    BY ConcatsExist
  <1>2. n \in Nat /\ \A i \in 1..n : ss[i] \in Seq(S)
    BY LenProperties, ElementOfSeq
  <1>3. \A i \in 0..n : g[i] \in Seq(S)
    BY <1>1 DEF Concats
  <1>4. ASSUME NEW s \in Seq(S), NEW t \in Seq(S) PROVE In(s \o t) <=> In(s) \/ In(t)
    <2>1. /\ Len(s) \in Nat /\ Len(t) \in Nat /\ Len(s \o t) = Len(s) + Len(t)
          /\ \A i \in 1..(Len(s) + Len(t)) :
                (s \o t)[i] = IF i <= Len(s) THEN s[i] ELSE t[i - Len(s)]
          /\ s \o t \in Seq(S)
      BY ConcatProperties, LenProperties
    <2>2. /\ In(s) <=> \E j \in 1..Len(s) : s[j] = e
          /\ In(t) <=> \E j \in 1..Len(t) : t[j] = e
          /\ In(s \o t) <=> \E j \in 1..(Len(s) + Len(t)) : (s \o t)[j] = e
      BY <2>1, LenProperties DEF ToSet
    <2> HIDE DEF In
    <2>3. ASSUME In(s) PROVE In(s \o t)
      BY <2>1, <2>2, <2>3
    <2>4. ASSUME In(t) PROVE In(s \o t)
      <3>1. PICK j \in 1..Len(t) : t[j] = e
        BY <2>2, <2>4
      <3>2. Len(s) + j \in 1..(Len(s) + Len(t)) /\ (Len(s) + j) - Len(s) = j
            /\ ~(Len(s) + j <= Len(s))
        BY <2>1, <2>2
      <3>3. (s \o t)[Len(s) + j] = e
        BY <2>1, <2>2, <3>1, <3>2
      <3> QED
        BY <2>1, <2>2, <3>2, <3>3
    <2>5. ASSUME In(s \o t) PROVE In(s) \/ In(t)
      <3>1. PICK j \in 1..(Len(s) + Len(t)) : (s \o t)[j] = e
        BY <2>1, <2>2, <2>5
      <3>2. CASE j <= Len(s)
        BY <2>1, <2>2, <3>1, <3>2
      <3>3. CASE ~(j <= Len(s))
        <4>1. j - Len(s) \in 1..Len(t)
          BY <2>1, <2>2, <3>3
        <4> QED
          BY <2>1, <2>2, <3>1, <3>3, <4>1
      <3> QED
        BY <3>2, <3>3
    <2> QED
      BY <2>3, <2>4, <2>5
  <1> DEFINE T == {i \in 0..n : In(g[i]) <=> \E k \in 1..i : In(ss[k])}
  <1> HIDE DEF n, In
  <1>5. 0 \in T
    <2>1. g[0] = <<>>
      BY <1>1 DEF Concats
    <2>2. ~In(g[0])
      BY <2>1 DEF In, ToSet
    <2> QED
      BY <1>2, <2>2
  <1>6. ASSUME NEW i \in 1..n, i - 1 \in T PROVE i \in T
    <2>1. i - 1 \in 0..n /\ i \in 0..n /\ 1..i = 1..(i - 1) \cup {i}
      BY <1>2
    <2>2. g[i] = g[i - 1] \o ss[i]
      BY <1>1 DEF Concats, n
    <2>3. In(g[i]) <=> In(g[i - 1]) \/ In(ss[i])
      BY <1>2, <1>3, <1>4, <2>1, <2>2
    <2>4. In(g[i - 1]) <=> \E k \in 1..(i - 1) : In(ss[k])
      BY <1>6
    <2> QED
      BY <2>1, <2>3, <2>4
  <1> HIDE DEF T
  <1>7. n \in T
    <2>1. 0..n \subseteq T
      BY <1>2, <1>5, <1>6, IntervalInduction
    <2> QED
      BY <1>2, <2>1
  <1>8. In(g[n]) <=> \E k \in 1..n : In(ss[k])
    BY <1>7 DEF T
  <1>9. FlattenSeq(ss) = g[n]
    BY <1>1, FlattenIsLastPrefix DEF n
  <1> QED
    BY <1>8, <1>9 DEF In, n

\* Sequences of at most one element each: the concatenation has as many elements as
\* there are sequences that are not empty.
LEMMA FlattenShort ==
  ASSUME NEW S, NEW ss \in Seq(Seq(S)), \A i \in 1..Len(ss) : Len(ss[i]) <= 1
  PROVE  /\ Len(FlattenSeq(ss)) <= Len(ss)
         /\ (\A i \in 1..Len(ss) : ss[i] # <<>>) => Len(FlattenSeq(ss)) = Len(ss)
         /\ (\E i \in 1..Len(ss) : ss[i] = <<>>) => Len(FlattenSeq(ss)) < Len(ss)
  <1> DEFINE n == Len(ss)
             Short(s, k) ==
               /\ Len(s) \in 0..k
               /\ (\A i \in 1..k : ss[i] # <<>>) => Len(s) = k
               /\ (\E i \in 1..k : ss[i] = <<>>) => Len(s) < k
  <1>1. PICK g : Concats(g, ss, S)
    BY ConcatsExist
  <1>2. n \in Nat /\ \A i \in 1..n : ss[i] \in Seq(S)
    BY LenProperties, ElementOfSeq
  <1> DEFINE T == {k \in 0..n : Short(g[k], k)}
  <1>3. 0 \in T
    <2>1. g[0] = <<>> /\ Len(<<>>) = 0
      BY <1>1, EmptySeq DEF Concats
    <2> QED
      BY <1>2, <2>1
  <1> HIDE DEF n
  <1>4. ASSUME NEW k \in 1..n, k - 1 \in T PROVE k \in T
    <2>1. k - 1 \in 0..n /\ k \in 0..n /\ 1..k = 1..(k - 1) \cup {k} /\ k \in Nat
      BY <1>2
    <2>2. g[k] = g[k - 1] \o ss[k] /\ g[k - 1] \in Seq(S) /\ ss[k] \in Seq(S)
      BY <1>1, <1>2, <2>1 DEF Concats, n
    <2>3. Len(g[k]) = Len(g[k - 1]) + Len(ss[k]) /\ Len(ss[k]) \in Nat
      BY <2>2, ConcatProperties, LenProperties
    <2>4. Len(ss[k]) <= 1 /\ (ss[k] = <<>> <=> Len(ss[k]) = 0)
      BY <2>2, EmptySeq DEF n
    <2>5. Short(g[k - 1], k - 1)
      BY <1>4
    <2>6. CASE ss[k] = <<>>
      <3>1. Len(g[k]) \in 0..(k - 1)
        BY <2>1, <2>3, <2>4, <2>5, <2>6
      <3> QED
        BY <2>1, <2>6, <3>1
    <2>7. CASE ss[k] # <<>>
      <3>1. Len(ss[k]) = 1
        <4> DEFINE m == Len(ss[k])
        <4>1. m \in Nat /\ m <= 1 /\ m # 0
          BY <2>3, <2>4, <2>7
        <4> HIDE DEF m
        <4>2. m = 1
          BY <4>1
        <4> QED
          BY <4>2 DEF m
      <3>2. /\ Len(g[k]) \in 0..k
            /\ (\A i \in 1..(k - 1) : ss[i] # <<>>) => Len(g[k]) = k
            /\ (\E i \in 1..(k - 1) : ss[i] = <<>>) => Len(g[k]) < k
        BY <2>1, <2>3, <2>5, <3>1
      <3> QED
        BY <2>1, <2>7, <3>2
    <2> QED
      BY <2>6, <2>7
  <1> HIDE DEF T
  <1>5. n \in T
    <2>1. 0..n \subseteq T
      BY <1>2, <1>3, <1>4, IntervalInduction
    <2> QED
      BY <1>2, <2>1
  <1>6. FlattenSeq(ss) = g[n]
    BY <1>1, FlattenIsLastPrefix DEF n
  <1> QED
    BY <1>2, <1>5, <1>6 DEF T, n

\* The concatenation begins with the first element of the first sequence.
LEMMA FlattenHead ==
  ASSUME NEW S, NEW ss \in Seq(Seq(S)), ss # <<>>, ss[1] # <<>>
  PROVE  FlattenSeq(ss) # <<>> /\ FlattenSeq(ss)[1] = ss[1][1]
  <1> DEFINE n == Len(ss)
             Begins(s) == s # <<>> /\ s[1] = ss[1][1]
  <1>1. PICK g : Concats(g, ss, S)
    BY ConcatsExist
  <1>2. n \in Nat /\ n # 0 /\ \A i \in 1..n : ss[i] \in Seq(S)
    BY LenProperties, ElementOfSeq, EmptySeq
  <1>3. ASSUME NEW a \in Seq(S), NEW b \in Seq(S), a # <<>>
        PROVE  a \o b # <<>> /\ (a \o b)[1] = a[1]
    <2>1. Len(a) \in Nat /\ Len(b) \in Nat /\ Len(a) # 0
      BY <1>3, LenProperties, EmptySeq
    <2>2. 1 \in 1..(Len(a) + Len(b)) /\ 1 <= Len(a) /\ Len(a) + Len(b) # 0
      BY <2>1
    <2> QED
      BY <2>2, ConcatProperties, EmptySeq
  <1> DEFINE T == {k \in 0..n : k # 0 => Begins(g[k])}
  <1>4. 0 \in T
    BY <1>2
  <1> HIDE DEF n
  <1>5. ASSUME NEW k \in 1..n, k - 1 \in T PROVE k \in T
    <2>1. k \in 0..n /\ k - 1 \in 0..n
      BY <1>2
    <2>2. g[k] = g[k - 1] \o ss[k] /\ g[k - 1] \in Seq(S) /\ ss[k] \in Seq(S)
      BY <1>1, <1>2, <2>1 DEF Concats, n
    <2>3. CASE k = 1
      <3>1. g[k - 1] = <<>>
        BY <1>1, <2>3 DEF Concats
      <3>2. g[k] = ss[k]
        BY <2>2, <3>1, ConcatEmptySeq
      <3> QED
        BY <2>1, <2>3, <3>2
    <2>4. CASE k # 1
      <3>1. Begins(g[k - 1])
        BY <1>5, <2>1, <2>4
      <3>2. g[k] # <<>> /\ g[k][1] = g[k - 1][1]
        BY <1>3, <2>2, <3>1
      <3> QED
        BY <2>1, <3>1, <3>2
    <2> QED
      BY <2>3, <2>4
  <1> HIDE DEF T
  <1>6. n \in T
    <2>1. 0..n \subseteq T
      BY <1>2, <1>4, <1>5, IntervalInduction
    <2> QED
      BY <1>2, <2>1
  <1>7. FlattenSeq(ss) = g[n]
    BY <1>1, FlattenIsLastPrefix DEF n
  <1> QED
    BY <1>2, <1>6, <1>7 DEF T

\* The elements of a concatenation.
LEMMA ConcatElements ==
  ASSUME NEW S, NEW s \in Seq(S), NEW t \in Seq(S)
  PROVE  s \o t \in Seq(S) /\ ToSet(s \o t) = ToSet(s) \cup ToSet(t)
  <1>1. s \o t \in Seq(S) /\ Range(s \o t) = Range(s) \cup Range(t)
    BY ConcatProperties, RangeConcatenation
  <1>2. ToSet(s) = Range(s) /\ ToSet(t) = Range(t) /\ ToSet(s \o t) = Range(s \o t)
    BY DEF ToSet, Range
  <1> QED
    BY <1>1, <1>2

\* The elements after Append.
LEMMA AppendedElement ==
  ASSUME NEW S, NEW s \in Seq(S), NEW e \in S
  PROVE  ToSet(Append(s, e)) = ToSet(s) \cup {e}
  <1> DEFINE t == <<e>>
  <1>1. t \in Seq(S) /\ ToSet(t) = {e} /\ Append(s, e) = s \o t
    BY AppendIsConcat DEF ToSet
  <1> HIDE DEF t
  <1>2. ToSet(s \o t) = ToSet(s) \cup ToSet(t)
    BY <1>1, ConcatElements
  <1> QED
    BY <1>1, <1>2

\* One element appended to one other.
LEMMA AppendToOne ==
  ASSUME NEW S, NEW s \in Seq(S), NEW b \in S
  PROVE  Len(s) = 1 => Append(s, b) = <<s[1], b>>
  <1>1. /\ Append(s, b) \in Seq(S) /\ Len(Append(s, b)) = Len(s) + 1
        /\ \A i \in 1..Len(s) : Append(s, b)[i] = s[i]
        /\ Append(s, b)[Len(s) + 1] = b
    BY AppendProperties
  <1> HAVE Len(s) = 1
  <1> DEFINE t == Append(s, b)
             u == <<s[1], b>>
  <1>2. u \in Seq(S) /\ Len(u) = 2 /\ u[1] = s[1] /\ u[2] = b
    BY ElementOfSeq, LenProperties
  <1> HIDE DEF t, u
  <1>3. t \in Seq(S) /\ Len(t) = 2 /\ t[1] = s[1] /\ t[2] = b
    BY <1>1 DEF t
  <1>4. \A i \in 1..2 : i = 1 \/ i = 2
    OBVIOUS
  <1>5. t = u
    BY <1>3, <1>2, <1>4, SeqEqual
  <1> QED
    BY <1>5 DEF t, u

\* The same of tuples.
LEMMA PairIsAppended ==
  ASSUME NEW a, NEW b
  PROVE  Append(<<a>>, b) = <<a, b>>
  <1> DEFINE s == <<a>>
  <1>1. s \in Seq({a, b}) /\ Len(s) = 1 /\ s[1] = a
    OBVIOUS
  <1> HIDE DEF s
  <1>2. Append(s, b) = <<s[1], b>>
    BY <1>1, AppendToOne
  <1> QED
    BY <1>1, <1>2 DEF s
=============================================================================
