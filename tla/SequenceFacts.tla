--------------------------- MODULE SequenceFacts ---------------------------
(***************************************************************************)
(* What the proofs need of the sequence operators that are defined by      *)
(* recursion, for sequences of any length.  Induction is stated for a set, *)
(* and rests on there being a least number outside of it.                  *)
(***************************************************************************)
EXTENDS Integers, Sequences, SequencesExt, SequenceTheorems, WellFoundedInduction, TLAPS

Below == {ss \in Nat \X Nat : ss[1] < ss[2]}

\* The order of the natural numbers has no infinite descent.
LEMMA BelowWellFounded == IsWellFoundedOn(Below, Nat)
BY NatLessThanWellFounded DEF OpToRel, Below

\* A set that holds 0 and, with a number, the next one, holds every natural number.
LEMMA Induction ==
  ASSUME NEW T, 0 \in T, \A n \in Nat : n \in T => n + 1 \in T
  PROVE  Nat \subseteq T
<1> SUFFICES ASSUME Nat \ T # {} PROVE FALSE
  OBVIOUS
<1>1. PICK m \in Nat \ T : \A n \in Nat \ T : ~(<<n, m>> \in Below)
  BY BelowWellFounded, WFMin
<1>2. m - 1 \in Nat \ T /\ m - 1 < m
  BY <1>1
<1> QED
  BY <1>1, <1>2 DEF Below

\* Concatenation is associative.
LEMMA Associative ==
  ASSUME NEW S
  PROVE  \A a, b, c \in Seq(S) : (a \o b) \o c = a \o (b \o c)
BY ConcatAssociative

\* A concatenation can be taken apart.
LEMMA Halves ==
  ASSUME NEW S
  PROVE  \A x, y \in Seq(S) : /\ SubSeq(x \o y, 1, Len(x)) = x
                              /\ SubSeq(x \o y, Len(x) + 1, Len(x \o y)) = y
<1> TAKE x, y \in Seq(S)
<1> DEFINE c == x \o y
           a == SubSeq(c, 1, Len(x))
           b == SubSeq(c, Len(x) + 1, Len(c))
<1>1. /\ c \in Seq(S) /\ Len(c) = Len(x) + Len(y) /\ Len(x) \in Nat /\ Len(y) \in Nat
      /\ \A i \in 1..Len(c) : c[i] = IF i <= Len(x) THEN x[i] ELSE y[i - Len(x)]
  BY ConcatProperties
<1> HIDE DEF c
<1>2. \A i \in 1..Len(c) : c[i] \in S
  BY <1>1, ElementOfSeq
<1>3. a \in Seq(S) /\ Len(a) = Len(x) /\ \A i \in 1..Len(x) : a[i] = c[i]
  BY <1>1, <1>2, SubSeqProperties
<1>4. b \in Seq(S) /\ Len(b) = Len(y) /\ \A i \in 1..Len(y) : b[i] = c[Len(x) + i]
  BY <1>1, <1>2, SubSeqProperties
<1> HIDE DEF a, b
<1>5. a = x
  BY <1>1, <1>3, SeqEqual
<1>6. b = y
  <2>1. ASSUME NEW i \in 1..Len(y) PROVE b[i] = y[i]
    <3>1. /\ Len(x) + i \in 1..Len(c) /\ ~(Len(x) + i <= Len(x))
          /\ (Len(x) + i) - Len(x) = i
      BY <1>1
    <3>2. c[Len(x) + i] = y[(Len(x) + i) - Len(x)]
      BY <1>1, <3>1
    <3> QED
      BY <1>4, <3>1, <3>2
  <2> QED
    BY <1>4, <2>1, SeqEqual
<1> QED
  BY <1>5, <1>6 DEF a, b, c
-----------------------------------------------------------------------------
(* FlattenSeq *)

\* g[i] is what the first i sequences make, end to end.
Sums(g, seqs, n) ==
  g = [i \in 1..n |-> IF i = 1 THEN seqs[i] ELSE g[i-1] \o seqs[i]]

\* The recursive function in FlattenSeq exists.
LEMMA SumsExist ==
  ASSUME NEW seqs, NEW m \in Nat
  PROVE  \E g : Sums(g, seqs, m)
<1> DEFINE T == {n \in Nat : \E g : Sums(g, seqs, n)}
<1>1. 0 \in T
  <2>1. Sums([i \in 1..0 |-> seqs[i]], seqs, 0)
    BY DEF Sums
  <2> QED
    BY <2>1
<1>2. ASSUME NEW n \in Nat, n \in T PROVE n + 1 \in T
  <2>1. PICK g : Sums(g, seqs, n)
    BY <1>2
  <2>2. PICK h : h = [i \in 1..(n+1) |-> IF i = 1 THEN seqs[i] ELSE g[i-1] \o seqs[i]]
    OBVIOUS
  <2>3. \A i \in 1..n : g[i] = IF i = 1 THEN seqs[i] ELSE g[i-1] \o seqs[i]
    BY <2>1 DEF Sums
  <2>4. \A i \in 1..n : h[i] = g[i]
    BY <2>2, <2>3
  <2>5. \A i \in 1..(n+1) : i # 1 => h[i-1] = g[i-1]
    BY <2>4
  <2>6. h = [i \in 1..(n+1) |-> IF i = 1 THEN seqs[i] ELSE h[i-1] \o seqs[i]]
    BY <2>2, <2>5
  <2>7. \E f : Sums(f, seqs, n + 1)
    BY <2>6 DEF Sums
  <2> QED
    BY <2>7
<1> HIDE DEF T
<1>3. m \in T
  BY <1>1, <1>2, Induction
<1> QED
  BY <1>3 DEF T

\* FlattenSeq is the last of its sums, and each of them is a sequence.
LEMMA FlattenSums ==
  ASSUME NEW S, NEW seqs \in Seq(Seq(S)), seqs # << >>
  PROVE  \E g : /\ \A i \in 1..Len(seqs) :
                     /\ g[i] \in Seq(S)
                     /\ g[i] = IF i = 1 THEN seqs[i] ELSE g[i-1] \o seqs[i]
                /\ FlattenSeq(seqs) = g[Len(seqs)]
<1>1. Len(seqs) \in Nat \ {0}
  BY EmptySeq
<1>2. \E g : Sums(g, seqs, Len(seqs))
  BY <1>1, SumsExist
<1>3. PICK g : Sums(g, seqs, Len(seqs)) /\ FlattenSeq(seqs) = g[Len(seqs)]
  BY <1>1, <1>2 DEF FlattenSeq, Sums
<1>4. \A i \in 1..Len(seqs) : g[i] = IF i = 1 THEN seqs[i] ELSE g[i-1] \o seqs[i]
  BY <1>3 DEF Sums
<1> DEFINE T == {n \in Nat : n \in 1..Len(seqs) => g[n] \in Seq(S)}
<1>5. 0 \in T
  OBVIOUS
<1>6. ASSUME NEW n \in Nat, n \in T PROVE n + 1 \in T
  <2> SUFFICES ASSUME n + 1 \in 1..Len(seqs) PROVE g[n+1] \in Seq(S)
    OBVIOUS
  <2>1. seqs[n+1] \in Seq(S)
    BY ElementOfSeq
  <2>2. CASE n = 0
    BY <1>4, <2>1, <2>2
  <2>3. CASE n # 0
    <3>1. g[n] \in Seq(S)
      BY <1>6, <2>3
    <3>2. g[n+1] = g[n] \o seqs[n+1]
      <4>1. (n + 1) - 1 = n /\ n + 1 # 1
        BY <2>3
      <4> QED
        BY <1>4, <4>1
    <3> QED
      BY <2>1, <3>1, <3>2, ConcatProperties
  <2> QED
    BY <2>2, <2>3
<1> HIDE DEF T
<1>7. Nat \subseteq T
  BY <1>5, <1>6, Induction
<1>8. \A i \in 1..Len(seqs) : g[i] \in Seq(S)
  BY <1>7 DEF T
<1> QED
  BY <1>3, <1>4, <1>8

\* Its result is a sequence.
LEMMA FlattenType ==
  ASSUME NEW S, NEW seqs \in Seq(Seq(S)), seqs # << >>
  PROVE  FlattenSeq(seqs) \in Seq(S)
BY FlattenSums, EmptySeq

\* From nothing comes nothing.
LEMMA FlattenOfNothing ==
  ASSUME NEW S, NEW seqs \in Seq(Seq(S)), seqs # << >>,
         \A i \in 1..Len(seqs) : seqs[i] = << >>
  PROVE  FlattenSeq(seqs) = << >>
<1>1. Len(seqs) \in Nat \ {0}
  BY EmptySeq
<1>2. PICK g : /\ \A i \in 1..Len(seqs) :
                    /\ g[i] \in Seq(S)
                    /\ g[i] = IF i = 1 THEN seqs[i] ELSE g[i-1] \o seqs[i]
               /\ FlattenSeq(seqs) = g[Len(seqs)]
  BY FlattenSums
<1> DEFINE T == {n \in Nat : n \in 1..Len(seqs) => g[n] = << >>}
<1>3. 0 \in T
  OBVIOUS
<1>4. ASSUME NEW n \in Nat, n \in T PROVE n + 1 \in T
  <2> SUFFICES ASSUME n + 1 \in 1..Len(seqs) PROVE g[n+1] = << >>
    OBVIOUS
  <2>1. CASE n = 0
    BY <1>2, <2>1
  <2>2. CASE n # 0
    <3>1. g[n] = << >> /\ (n + 1) - 1 = n /\ n + 1 # 1
      BY <1>4, <2>2
    <3>2. g[n+1] = << >> \o << >>
      BY <1>2, <3>1
    <3> QED
      BY <3>2, EmptySeq, ConcatEmptySeq
  <2> QED
    BY <2>1, <2>2
<1> HIDE DEF T
<1>5. Nat \subseteq T
  BY <1>3, <1>4, Induction
<1> QED
  BY <1>1, <1>2, <1>5 DEF T

\* From s to t, x is added to the k-th sequence, and only empty ones come after it.
GrowsAt(s, t, k, x) ==
  /\ Len(t) = Len(s) /\ k \in 1..Len(s)
  /\ t[k] = s[k] \o x
  /\ \A i \in 1..Len(s) : i # k => t[i] = s[i]
  /\ \A i \in 1..Len(s) : i > k => s[i] = << >>

\* What is added to the last sequence that is not empty is added at the end.
LEMMA FlattenGrows ==
  ASSUME NEW S, NEW s \in Seq(Seq(S)), NEW t \in Seq(Seq(S)), NEW k, NEW x \in Seq(S),
         GrowsAt(s, t, k, x)
  PROVE  FlattenSeq(t) = FlattenSeq(s) \o x
<1>1. Len(s) \in Nat \ {0} /\ s # << >> /\ t # << >> /\ Len(t) = Len(s) /\ k \in 1..Len(s)
  BY EmptySeq DEF GrowsAt
<1>2. PICK g : /\ \A i \in 1..Len(s) :
                    /\ g[i] \in Seq(S)
                    /\ g[i] = IF i = 1 THEN s[i] ELSE g[i-1] \o s[i]
               /\ FlattenSeq(s) = g[Len(s)]
  BY <1>1, FlattenSums
<1>3. PICK h : /\ \A i \in 1..Len(t) :
                    /\ h[i] \in Seq(S)
                    /\ h[i] = IF i = 1 THEN t[i] ELSE h[i-1] \o t[i]
               /\ FlattenSeq(t) = h[Len(t)]
  BY <1>1, FlattenSums
<1>4. \A i \in 1..Len(s) : s[i] \in Seq(S) /\ t[i] \in Seq(S)
  BY <1>1, ElementOfSeq
<1>5. \A a, b, c \in Seq(S) : (a \o b) \o c = a \o (b \o c)
  BY Associative
<1> DEFINE T == {n \in Nat : n \in 1..Len(s) =>
                               h[n] = IF n < k THEN g[n] ELSE g[n] \o x}
<1>6. 0 \in T
  OBVIOUS
<1>7. ASSUME NEW n \in Nat, n \in T PROVE n + 1 \in T
  <2> SUFFICES ASSUME n + 1 \in 1..Len(s)
               PROVE  h[n+1] = IF n + 1 < k THEN g[n+1] ELSE g[n+1] \o x
    OBVIOUS
  <2>1. CASE n = 0
    <3>1. n + 1 = 1 /\ g[1] = s[1] /\ h[1] = t[1]
      BY <1>1, <1>2, <1>3, <2>1
    <3>2. CASE k = 1
      <4>1. t[1] = s[1] \o x /\ ~(n + 1 < k)
        BY <3>1, <3>2 DEF GrowsAt
      <4> QED
        BY <3>1, <4>1
    <3>3. CASE k # 1
      <4>1. t[1] = s[1] /\ n + 1 < k
        BY <1>1, <3>1, <3>3 DEF GrowsAt
      <4> QED
        BY <3>1, <4>1
    <3> QED
      BY <3>2, <3>3
  <2>2. CASE n # 0
    <3>1. (n + 1) - 1 = n /\ n + 1 # 1 /\ n \in 1..Len(s)
      BY <2>2
    <3>2. g[n+1] = g[n] \o s[n+1] /\ h[n+1] = h[n] \o t[n+1]
      BY <1>1, <1>2, <1>3, <3>1
    <3>3. h[n] = IF n < k THEN g[n] ELSE g[n] \o x
      BY <1>7, <3>1
    <3>4. CASE n + 1 < k
      <4>1. t[n+1] = s[n+1] /\ n < k
        BY <1>1, <3>4 DEF GrowsAt
      <4> QED
        BY <3>2, <3>3, <3>4, <4>1
    <3>5. CASE n + 1 = k
      <4>0. n < k /\ ~(n + 1 < k)
        BY <1>1, <3>5
      <4>1. t[n+1] = s[n+1] \o x
        BY <3>5, Zenon DEF GrowsAt
      <4>2. h[n+1] = g[n] \o (s[n+1] \o x)
        BY <3>2, <3>3, <4>0, <4>1, Zenon
      <4>3. g[n] \in Seq(S) /\ s[n+1] \in Seq(S)
        BY <1>2, <1>4, <3>1
      <4>4. g[n] \o (s[n+1] \o x) = (g[n] \o s[n+1]) \o x
        BY <1>5, <4>3
      <4> QED
        BY <3>2, <4>0, <4>2, <4>4, Zenon
    <3>6. CASE n + 1 > k
      <4>0. n + 1 # k /\ n + 1 > k
        BY <1>1, <3>6
      <4>1. s[n+1] = << >> /\ t[n+1] = << >>
        BY <4>0, Zenon DEF GrowsAt
      <4>2. g[n] \in Seq(S) /\ h[n] \in Seq(S)
        BY <1>1, <1>2, <1>3, <3>1
      <4>3. g[n+1] = g[n] /\ h[n+1] = h[n]
        BY <3>2, <4>1, <4>2, ConcatEmptySeq
      <4>4. ~(n < k) /\ ~(n + 1 < k)
        BY <1>1, <3>6
      <4>5. h[n] = g[n] \o x
        BY <3>3, <4>4
      <4> QED
        BY <4>3, <4>4, <4>5, Zenon
    <3> QED
      BY <1>1, <3>4, <3>5, <3>6
  <2> QED
    BY <2>1, <2>2
<1> HIDE DEF T
<1>8. Len(s) \in T
  BY <1>1, <1>6, <1>7, Induction
<1>9. h[Len(s)] = g[Len(s)] \o x
  <2>1. Len(s) \in 1..Len(s) /\ ~(Len(s) < k)
    BY <1>1
  <2> QED
    BY <1>8, <2>1, Zenon DEF T
<1> QED
  BY <1>1, <1>2, <1>3, <1>9

\* Sequences of one element make the sequence of these elements.
LEMMA FlattenSingles ==
  ASSUME NEW S, NEW s \in Seq(S)
  PROVE  FlattenSeq([i \in 1..Len(s) |-> <<s[i]>>]) = s
<1> DEFINE t == [i \in 1..Len(s) |-> <<s[i]>>]
<1>1. /\ Len(s) \in Nat /\ t \in Seq(Seq(S)) /\ Len(t) = Len(s)
      /\ \A i \in 1..Len(s) : t[i] = <<s[i]>> /\ s[i] \in S
  <2>1. Len(s) \in Nat /\ \A i \in 1..Len(s) : s[i] \in S
    BY LenProperties, ElementOfSeq
  <2>2. \A i \in 1..Len(s) : <<s[i]>> \in Seq(S)
    BY <2>1
  <2> QED
    BY <2>1, <2>2
<1> HIDE DEF t
<1>2. CASE s = << >>
  <2>1. t = << >>
    BY <1>1, <1>2, EmptySeq
  <2>2. FlattenSeq(t) = << >>
    BY <2>1, EmptySeq DEF FlattenSeq
  <2> QED
    BY <1>2, <2>2 DEF t
<1>3. CASE s # << >>
  <2>1. t # << >> /\ Len(s) \in 1..Len(s)
    BY <1>1, <1>3, EmptySeq
  <2>2. PICK g : /\ \A i \in 1..Len(t) :
                      /\ g[i] \in Seq(S)
                      /\ g[i] = IF i = 1 THEN t[i] ELSE g[i-1] \o t[i]
                 /\ FlattenSeq(t) = g[Len(t)]
    BY <1>1, <2>1, FlattenSums
  <2> DEFINE T == {n \in Nat : n \in 1..Len(s) =>
                                 Len(g[n]) = n /\ \A i \in 1..n : g[n][i] = s[i]}
  <2>3. 0 \in T
    OBVIOUS
  <2>4. ASSUME NEW n \in Nat, n \in T PROVE n + 1 \in T
    <3> SUFFICES ASSUME n + 1 \in 1..Len(s)
                 PROVE  Len(g[n+1]) = n + 1 /\ \A i \in 1..(n+1) : g[n+1][i] = s[i]
      OBVIOUS
    <3>1. t[n+1] = <<s[n+1]>> /\ s[n+1] \in S
      BY <1>1
    <3>2. CASE n = 0
      <4>1. g[n+1] = <<s[n+1]>>
        BY <1>1, <2>2, <3>1, <3>2
      <4> QED
        BY <3>2, <4>1
    <3>3. CASE n # 0
      <4>1. (n + 1) - 1 = n /\ n + 1 # 1 /\ n \in 1..Len(s)
        BY <3>3
      <4>2. g[n+1] = g[n] \o <<s[n+1]>> /\ g[n] \in Seq(S)
        BY <1>1, <2>2, <3>1, <4>1
      <4>3. Len(g[n]) = n /\ \A i \in 1..n : g[n][i] = s[i]
        BY <2>4, <4>1
      <4> QED
        BY <3>1, <4>2, <4>3, ConcatProperties
    <3> QED
      BY <3>2, <3>3
  <2> HIDE DEF T
  <2>5. Len(s) \in T
    BY <1>1, <2>3, <2>4, Induction
  <2>6. Len(g[Len(s)]) = Len(s) /\ \A i \in 1..Len(s) : g[Len(s)][i] = s[i]
    BY <2>1, <2>5 DEF T
  <2>7. g[Len(s)] \in Seq(S)
    BY <1>1, <2>1, <2>2
  <2>8. g[Len(s)] = s
    BY <2>6, <2>7, SeqEqual
  <2> QED
    BY <1>1, <2>2, <2>8 DEF t
<1> QED
  BY <1>2, <1>3
=============================================================================
