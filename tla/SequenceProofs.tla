--------------------------- MODULE SequenceProofs ---------------------------
(***************************************************************************)
(* Lemmas about sequences that the proofs about the channel, the executor  *)
(* and the chain rest on: prefixes and what follows them, and what         *)
(* FlattenSeq makes of a sequence of pages (or of the bodies of blocks)    *)
(* when one is added, extended or taken off.  FlattenSeq is a recursive    *)
(* function of the length, so the lemmas are inductions; each is a proof   *)
(* that there is no least counterexample.                                  *)
(***************************************************************************)
EXTENDS Integers, SequencesExt, WellFoundedInduction, SequenceTheorems, TLAPS

(* A set of natural numbers that is not empty has a least element.          *)
LEMMA LeastOf ==
    ASSUME NEW N \in SUBSET Nat, N # {}
    PROVE  \E n \in N : \A m \in N : n <= m
<1>1. PICK n \in N : \A m \in N : ~(<<m, n>> \in OpToRel(<, Nat))
  BY WFMin, NatLessThanWellFounded
<1>2. \A m \in N : ~(m < n)
  BY <1>1 DEF OpToRel
<1> QED
  BY <1>2

(* Induction up to a bound, with a set in the place of a predicate.         *)
LEMMA InductionUpTo ==
    ASSUME NEW k \in Nat, NEW N,
           0 \in N, \A n \in 0 .. k - 1 : n \in N => n + 1 \in N
    PROVE  \A n \in 0 .. k : n \in N
<1> DEFINE Bad == {n \in 0 .. k : n \notin N}
<1>1. Bad \in SUBSET Nat
  OBVIOUS
<1>2. ASSUME NEW n \in Bad PROVE \E m \in Bad : m < n
  <2>1. n # 0 /\ n - 1 \in 0 .. k - 1
    OBVIOUS
  <2>2. n - 1 \notin N
    BY <2>1
  <2>3. n - 1 \in Bad /\ n - 1 < n
    BY <2>1, <2>2
  <2> QED
    BY <2>3
<1>3. Bad = {}
  <2> HIDE DEF Bad
  <2>1. SUFFICES ASSUME Bad # {} PROVE FALSE
    OBVIOUS
  <2>2. PICK n \in Bad : \A m \in Bad : n <= m
    BY <1>1, <2>1, LeastOf
  <2>3. PICK m \in Bad : m < n
    BY <1>2
  <2>4. n \in Nat /\ m \in Nat /\ n <= m
    BY <1>1, <2>2
  <2> QED
    BY <2>3, <2>4
<1> QED
  BY <1>3

-----------------------------------------------------------------------------
(* F[i] is the concatenation of the first i elements of s.                  *)
Partials(s, F, S) ==
    /\ F \in [0 .. Len(s) -> Seq(S)]
    /\ F[0] = <<>>
    /\ \A i \in 0 .. Len(s) - 1 : F[i + 1] = F[i] \o s[i + 1]

LEMMA PartialsStep ==
    ASSUME NEW S, NEW s \in Seq(Seq(S)), NEW F, Partials(s, F, S),
           NEW i \in 0 .. Len(s) - 1
    PROVE  /\ s[i + 1] \in Seq(S)
           /\ F[i] \in Seq(S)
           /\ F[i + 1] = F[i] \o s[i + 1]
<1>1. i + 1 \in 1 .. Len(s) /\ i \in 0 .. Len(s)
  OBVIOUS
<1>2. s[i + 1] \in Seq(S)
  BY <1>1
<1>3. F[i] \in Seq(S)
  BY <1>1 DEF Partials
<1>4. F[i + 1] = F[i] \o s[i + 1]
  BY DEF Partials
<1> QED
  BY <1>2, <1>3, <1>4

(* There is such a function.                                                *)
LEMMA PartialsExist ==
    ASSUME NEW S, NEW s \in Seq(Seq(S))
    PROVE  \E F : Partials(s, F, S)
<1> DEFINE Upto(n, F) == /\ F \in [0 .. n -> Seq(S)]
                         /\ F[0] = <<>>
                         /\ \A i \in 0 .. n - 1 : F[i + 1] = F[i] \o s[i + 1]
           Good == {n \in 0 .. Len(s) : \E F : Upto(n, F)}
<1>1. Len(s) \in Nat
  OBVIOUS
<1>2. 0 \in Good
  <2>1. Upto(0, [i \in 0 .. 0 |-> <<>>])
    OBVIOUS
  <2> HIDE DEF Upto
  <2> QED
    BY <1>1, <2>1
<1>3. ASSUME NEW n \in 0 .. Len(s) - 1, n \in Good
      PROVE  n + 1 \in Good
  <2>1. PICK F : Upto(n, F)
    <3> HIDE DEF Upto
    <3> QED
      BY <1>3
  <2>2. n \in Nat /\ n + 1 \in 1 .. Len(s) /\ s[n + 1] \in Seq(S)
    BY <1>1
  <2>3. F[n] \in Seq(S) /\ F[n] \o s[n + 1] \in Seq(S)
    BY <2>1, <2>2
  <2> DEFINE x == F[n] \o s[n + 1]
             G == [i \in 0 .. n + 1 |-> IF i = n + 1 THEN x ELSE F[i]]
  <2> HIDE DEF x
  <2>4. /\ \A i \in 0 .. n : G[i] = F[i]
        /\ G[n + 1] = x
    BY <2>2
  <2>5. G \in [0 .. n + 1 -> Seq(S)]
    BY <2>1, <2>2, <2>3 DEF x
  <2> HIDE DEF G
  <2>6. G[0] = <<>>
    BY <2>1, <2>2, <2>4
  <2>7. ASSUME NEW i \in 0 .. n PROVE G[i + 1] = G[i] \o s[i + 1]
    <3>1. CASE i = n
      BY <2>2, <2>4, <3>1 DEF x
    <3>2. CASE i # n
      <4>1. i \in 0 .. n - 1 /\ i + 1 \in 0 .. n
        BY <2>2, <3>2
      <4> QED
        BY <2>1, <2>4, <4>1
    <3> QED
      BY <3>1, <3>2
  <2>8. Upto(n + 1, G)
    <3>1. (n + 1) - 1 = n
      OBVIOUS
    <3> QED
      BY <2>5, <2>6, <2>7, <3>1
  <2>9. n + 1 \in 0 .. Len(s)
    BY <2>2
  <2> HIDE DEF Upto
  <2> QED
    BY <2>8, <2>9
<1>4. Len(s) \in Good
  <2> HIDE DEF Good
  <2>1. \A n \in 0 .. Len(s) : n \in Good
    BY <1>1, <1>2, <1>3, InductionUpTo
  <2> QED
    BY <1>1, <2>1
<1>5. PICK F : Upto(Len(s), F)
  <2> HIDE DEF Upto
  <2> QED
    BY <1>4
<1> QED
  BY <1>5 DEF Partials

(* And only one, as far as two sequences agree.                             *)
LEMMA PartialsAgree ==
    ASSUME NEW S, NEW s \in Seq(Seq(S)), NEW t \in Seq(Seq(S)),
           NEW F, NEW G, Partials(s, F, S), Partials(t, G, S),
           NEW k \in Nat, k <= Len(s), k <= Len(t), \A i \in 1 .. k : s[i] = t[i]
    PROVE  F[k] = G[k]
<1> DEFINE Good == {n \in Nat : F[n] = G[n]}
<1>1. 0 \in Good
  BY DEF Partials
<1>2. ASSUME NEW n \in 0 .. k - 1, n \in Good
      PROVE  n + 1 \in Good
  <2>1. /\ n \in Nat /\ n \in 0 .. Len(s) - 1 /\ n \in 0 .. Len(t) - 1
        /\ n + 1 \in 1 .. k
    OBVIOUS
  <2>2. F[n + 1] = F[n] \o s[n + 1] /\ G[n + 1] = G[n] \o t[n + 1]
    BY <2>1 DEF Partials
  <2>3. F[n] = G[n] /\ s[n + 1] = t[n + 1]
    BY <1>2, <2>1
  <2>4. F[n + 1] = G[n + 1]
    BY <2>2, <2>3
  <2> QED
    BY <2>1, <2>4
<1>3. k \in Good
  <2> HIDE DEF Good
  <2>1. \A n \in 0 .. k : n \in Good
    BY <1>1, <1>2, InductionUpTo
  <2> QED
    BY <2>1
<1> QED
  BY <1>3

(* FlattenSeq is the last of the prefixes.                                  *)
LEMMA FlattenIsPrefix ==
    ASSUME NEW S, NEW s \in Seq(Seq(S)), NEW F, Partials(s, F, S)
    PROVE  FlattenSeq(s) = F[Len(s)]
<1>1. CASE s = <<>>
  BY <1>1 DEF FlattenSeq, Partials
<1>2. CASE s # <<>>
  <2> DEFINE Flattening(f) ==
                f = [i \in 1 .. Len(s) |-> IF i = 1 THEN s[i] ELSE f[i - 1] \o s[i]]
             g == [i \in 1 .. Len(s) |-> F[i]]
  <2>1. Len(s) \in Nat \ {0}
    BY <1>2
  <2>2. ASSUME NEW i \in 1 .. Len(s)
        PROVE  g[i] = IF i = 1 THEN s[i] ELSE g[i - 1] \o s[i]
    <3>1. PICK j \in 0 .. Len(s) - 1 : i = j + 1
      <4>1. i - 1 \in 0 .. Len(s) - 1 /\ i = (i - 1) + 1
        BY <2>1
      <4> QED
        BY <4>1
    <3>2. s[j + 1] \in Seq(S) /\ F[j + 1] = F[j] \o s[j + 1]
      BY PartialsStep
    <3>3. F[0] = <<>>
      BY DEF Partials
    <3>4. CASE i = 1
      <4>1. j = 0 /\ g[i] = F[j + 1]
        BY <2>1, <3>1, <3>4
      <4>2. <<>> \o s[j + 1] = s[j + 1]
        BY <3>2
      <4> HIDE DEF g
      <4> QED
        BY <3>1, <3>2, <3>3, <3>4, <4>1, <4>2
    <3>5. CASE i # 1
      <4>1. g[i] = F[j + 1] /\ g[i - 1] = F[j]
        BY <2>1, <3>1, <3>5
      <4> HIDE DEF g
      <4> QED
        BY <3>1, <3>2, <3>5, <4>1
    <3> QED
      BY <3>4, <3>5
  <2>3. Flattening(g)
    BY <2>2
  <2>4. PICK f : Flattening(f) /\ FlattenSeq(s) = f[Len(s)]
    BY <2>1, <2>3 DEF FlattenSeq
  <2> HIDE DEF g
  <2>5. \A i \in 1 .. Len(s) : f[i] = IF i = 1 THEN s[i] ELSE f[i - 1] \o s[i]
    BY <2>4
  <2> DEFINE Good == {n \in Nat : n = 0 \/ f[n] = F[n]}
  <2>6. ASSUME NEW n \in 0 .. Len(s) - 1, n \in Good
        PROVE  n + 1 \in Good
    <3>1. /\ n \in Nat /\ n + 1 \in 1 .. Len(s) /\ (n + 1) - 1 = n
          /\ (n + 1 = 1 <=> n = 0)
      BY <2>1
    <3>2. s[n + 1] \in Seq(S) /\ F[n + 1] = F[n] \o s[n + 1]
      BY PartialsStep
    <3>3. f[n + 1] = IF n + 1 = 1 THEN s[n + 1] ELSE f[(n + 1) - 1] \o s[n + 1]
      BY <2>5, <3>1
    <3>4. f[n + 1] = F[n + 1]
      <4>1. CASE n = 0
        <5>1. F[n] = <<>>
          BY <4>1 DEF Partials
        <5>2. <<>> \o s[n + 1] = s[n + 1]
          BY <3>2
        <5>3. f[n + 1] = s[n + 1]
          BY <3>1, <3>3, <4>1
        <5> QED
          BY <3>2, <5>1, <5>2, <5>3
      <4>2. CASE n # 0
        <5>1. f[n + 1] = f[n] \o s[n + 1]
          BY <3>1, <3>3, <4>2
        <5>2. f[n] = F[n]
          BY <2>6, <4>2
        <5> QED
          BY <3>2, <5>1, <5>2
      <4> QED
        BY <4>1, <4>2
    <3> QED
      BY <3>1, <3>4
  <2>7. Len(s) \in Good
    <3>1. 0 \in Good
      OBVIOUS
    <3> HIDE DEF Good
    <3>2. \A n \in 0 .. Len(s) : n \in Good
      BY <2>1, <2>6, <3>1, InductionUpTo
    <3> QED
      BY <2>1, <3>2
  <2> QED
    BY <2>1, <2>4, <2>7
<1> QED
  BY <1>1, <1>2

-----------------------------------------------------------------------------
LEMMA FlattenType ==
    ASSUME NEW S, NEW s \in Seq(Seq(S))
    PROVE  FlattenSeq(s) \in Seq(S)
<1>1. PICK F : Partials(s, F, S)
  BY PartialsExist
<1>2. F[Len(s)] \in Seq(S)
  BY <1>1 DEF Partials
<1> QED
  BY <1>1, <1>2, FlattenIsPrefix

LEMMA FlattenEmpty == FlattenSeq(<<>>) = <<>>
  BY DEF FlattenSeq

(* A page added at the end.                                                 *)
LEMMA FlattenAppend ==
    ASSUME NEW S, NEW s \in Seq(Seq(S)), NEW x \in Seq(S)
    PROVE  FlattenSeq(Append(s, x)) = FlattenSeq(s) \o x
<1> DEFINE t == Append(s, x)
           n == Len(s)
<1>1. t \in Seq(Seq(S)) /\ Len(t) = n + 1 /\ t[n + 1] = x /\ n \in Nat
  OBVIOUS
<1>2. \A i \in 1 .. n : s[i] = t[i]
  OBVIOUS
<1> HIDE DEF t, n
<1>3. PICK F : Partials(s, F, S)
  BY PartialsExist
<1>4. PICK G : Partials(t, G, S)
  BY <1>1, PartialsExist
<1>5. F[n] = G[n]
  <2>1. n <= Len(s) /\ n <= Len(t)
    BY <1>1 DEF n
  <2> QED
    BY <1>1, <1>2, <1>3, <1>4, <2>1, PartialsAgree
<1>6. G[n + 1] = G[n] \o x
  <2>1. n \in 0 .. Len(t) - 1
    BY <1>1
  <2>2. G[n + 1] = G[n] \o t[n + 1]
    BY <1>4, <2>1 DEF Partials
  <2> QED
    BY <1>1, <2>2
<1>7. FlattenSeq(s) = F[n] /\ FlattenSeq(t) = G[n + 1]
  BY <1>1, <1>3, <1>4, FlattenIsPrefix DEF n
<1> QED
  BY <1>5, <1>6, <1>7 DEF t

(* The first page taken off.                                                *)
LEMMA FlattenHead ==
    ASSUME NEW S, NEW s \in Seq(Seq(S)), s # <<>>
    PROVE  FlattenSeq(s) = Head(s) \o FlattenSeq(Tail(s))
<1> DEFINE t == Tail(s)
           h == Head(s)
           n == Len(t)
<1>1. /\ t \in Seq(Seq(S)) /\ Len(s) = n + 1 /\ n \in Nat
      /\ h = s[1] /\ h \in Seq(S)
      /\ \A i \in 1 .. n : t[i] = s[i + 1]
  OBVIOUS
<1> HIDE DEF t, h
<1>2. PICK G : Partials(t, G, S)
  BY <1>1, PartialsExist
<1>3. /\ G[0] = <<>>
      /\ \A i \in 0 .. n : G[i] \in Seq(S)
  BY <1>2 DEF Partials
<1> HIDE DEF n
<1> DEFINE From == [i \in 0 .. n |-> h \o G[i]]
           F    == [i \in 0 .. n + 1 |-> IF i = 0 THEN <<>> ELSE From[i - 1]]
<1>4. ASSUME NEW i \in 0 .. n
      PROVE  From[i] = h \o G[i] /\ h \o G[i] \in Seq(S)
  <2>1. G[i] \in Seq(S)
    BY <1>3
  <2>2. h \o G[i] \in Seq(S)
    BY <1>1, <2>1
  <2> QED
    BY <2>2
<1>5. From \in [0 .. n -> Seq(S)]
  BY <1>4
<1> HIDE DEF From
<1>6. /\ F[0] = <<>>
      /\ \A i \in 0 .. n : F[i + 1] = From[i]
  BY <1>1
<1>7. F \in [0 .. n + 1 -> Seq(S)]
  <2>1. ASSUME NEW i \in 0 .. n + 1, i # 0
        PROVE  From[i - 1] \in Seq(S)
    <3>1. i - 1 \in 0 .. n
      BY <1>1, <2>1
    <3> QED
      BY <1>5, <3>1
  <2>2. <<>> \in Seq(S)
    OBVIOUS
  <2> QED
    BY <2>1, <2>2
<1> HIDE DEF F
<1>8. ASSUME NEW i \in 0 .. n PROVE F[i + 1] = F[i] \o s[i + 1]
  <2>1. CASE i = 0
    <3>1. F[i + 1] = h \o <<>>
      BY <1>3, <1>4, <1>6, <2>1
    <3>2. h \o <<>> = h /\ <<>> \o h = h
      BY <1>1
    <3>3. s[i + 1] = h
      BY <1>1, <2>1
    <3> QED
      BY <1>6, <2>1, <3>1, <3>2, <3>3
  <2>2. CASE i # 0
    <3>1. PICK j \in 0 .. n - 1 : i = j + 1
      <4>1. i - 1 \in 0 .. n - 1 /\ i = (i - 1) + 1
        BY <1>1, <2>2
      <4> QED
        BY <4>1
    <3>2. j \in 0 .. n /\ j + 1 \in 0 .. n /\ j + 1 \in 1 .. n
      BY <1>1, <3>1
    <3>3. t[j + 1] = s[i + 1]
      BY <1>1, <3>1, <3>2
    <3>4. G[j + 1] = G[j] \o t[j + 1] /\ t[j + 1] \in Seq(S)
      BY <1>1, <1>2, <3>1, PartialsStep DEF n
    <3>5. h \o (G[j] \o t[j + 1]) = (h \o G[j]) \o t[j + 1]
      <4>1. \A a, b, c \in Seq(S) : a \o (b \o c) = (a \o b) \o c
        BY SMTT(20)
      <4>2. G[j] \in Seq(S)
        BY <1>3, <3>2
      <4> QED
        BY <1>1, <3>4, <4>1, <4>2
    <3>6. From[j + 1] = h \o G[j + 1] /\ From[j] = h \o G[j]
      BY <1>4, <3>2
    <3>7. F[i + 1] = From[j + 1] /\ F[i] = From[j]
      BY <1>6, <3>1, <3>2
    <3> QED
      BY <3>3, <3>4, <3>5, <3>6, <3>7
  <2> QED
    BY <2>1, <2>2
<1>9. Partials(s, F, S)
  <2>1. Len(s) = n + 1 /\ Len(s) - 1 = n
    BY <1>1 DEF n
  <2> QED
    BY <1>6, <1>7, <1>8, <2>1 DEF Partials
<1>10. FlattenSeq(s) = F[n + 1] /\ FlattenSeq(t) = G[n]
  BY <1>1, <1>2, <1>9, FlattenIsPrefix DEF n
<1>11. F[n + 1] = h \o G[n]
  <2>1. n \in 0 .. n
    BY <1>1
  <2> QED
    BY <1>4, <1>6, <2>1
<1> QED
  BY <1>10, <1>11 DEF t, h

(* A sequence that is not empty is what precedes its last element, and that *)
(* element.                                                                 *)
LEMMA FrontLast ==
    ASSUME NEW S, NEW s \in Seq(S), s # <<>>
    PROVE  /\ Front(s) \in Seq(S)
           /\ Len(Front(s)) = Len(s) - 1
           /\ Last(s) \in S
           /\ s = Append(Front(s), Last(s))
<1>1. Len(s) \in Nat \ {0} /\ Len(s) - 1 \in Nat
  OBVIOUS
<1>2. /\ Front(s) \in Seq(S)
      /\ Len(Front(s)) = Len(s) - 1
      /\ \A i \in 1 .. Len(s) - 1 : Front(s)[i] = s[i]
  <2> DEFINE n == Len(s) - 1
  <2>1. n \in Nat /\ \A i \in 1 .. n : s[i] \in S
    BY <1>1
  <2>2. Front(s) = SubSeq(s, 1, n)
    BY DEF Front
  <2> HIDE DEF n
  <2>3. /\ SubSeq(s, 1, n) \in Seq(S)
        /\ Len(SubSeq(s, 1, n)) = n
        /\ \A i \in 1 .. n : SubSeq(s, 1, n)[i] = s[i]
    BY <2>1
  <2> QED
    BY <2>2, <2>3 DEF n
<1>3. Last(s) = s[Len(s)] /\ Last(s) \in S
  BY <1>1 DEF Last
<1> DEFINE t == Append(Front(s), Last(s))
<1>4. t \in Seq(S) /\ Len(t) = Len(s)
  BY <1>1, <1>2, <1>3
<1>5. \A i \in 1 .. Len(s) : t[i] = s[i]
  BY <1>1, <1>2, <1>3
<1>6. t = s
  <2> HIDE DEF t
  <2> QED
    BY <1>4, <1>5, SeqEqual
<1> QED
  BY <1>2, <1>3, <1>6

(* The last page extended.                                                  *)
LEMMA FlattenExtend ==
    ASSUME NEW S, NEW s \in Seq(Seq(S)), s # <<>>, NEW m \in S
    PROVE  /\ [s EXCEPT ![Len(s)] = Append(@, m)] \in Seq(Seq(S))
           /\ FlattenSeq([s EXCEPT ![Len(s)] = Append(@, m)]) = Append(FlattenSeq(s), m)
<1> DEFINE t    == [s EXCEPT ![Len(s)] = Append(@, m)]
           f    == Front(s)
           last == Last(s)
           n    == Len(s)
<1>0. n \in Nat \ {0}
  OBVIOUS
<1>1. /\ f \in Seq(Seq(S)) /\ Len(f) = n - 1 /\ last \in Seq(S)
      /\ s = Append(f, last)
  <2> HIDE DEF f, last
  <2>1. \A T : \A u \in Seq(T) : u # <<>> =>
           /\ Front(u) \in Seq(T) /\ Len(Front(u)) = Len(u) - 1
           /\ Last(u) \in T /\ u = Append(Front(u), Last(u))
    BY FrontLast
  <2> QED
    BY <2>1 DEF f, last
<1>2. Append(last, m) \in Seq(S) /\ Append(last, m) = last \o <<m>> /\ <<m>> \in Seq(S)
  BY <1>1
<1> HIDE DEF f, last
<1>3. t = Append(f, Append(last, m))
  <2> DEFINE p == Append(last, m)
             u == Append(f, p)
  <2>1. s[n] = last
    BY <1>0, <1>1
  <2>2. t = [s EXCEPT ![n] = p]
    BY <2>1
  <2>3. p \in Seq(S)
    BY <1>2
  <2> HIDE DEF n, p, t
  <2>4. Len(s) = n /\ \A i \in 1 .. n - 1 : s[i] = f[i]
    BY <1>0, <1>1 DEF n
  <2>5. t \in Seq(Seq(S)) /\ Len(t) = n /\ \A i \in 1 .. n : t[i] = IF i = n THEN p ELSE s[i]
    BY <1>0, <2>2, <2>3, <2>4
  <2>6. u \in Seq(Seq(S)) /\ Len(u) = n /\ \A i \in 1 .. n : u[i] = IF i = n THEN p ELSE f[i]
    BY <1>0, <1>1, <2>3
  <2> HIDE DEF u
  <2>7. ASSUME NEW i \in 1 .. n PROVE t[i] = u[i]
    <3>1. CASE i = n
      BY <2>5, <2>6, <3>1
    <3>2. CASE i # n
      <4>1. i \in 1 .. n - 1
        BY <1>0, <3>2
      <4>2. s[i] = f[i]
        BY <2>4, <4>1
      <4>3. t[i] = s[i]
        BY <2>5, <3>2
      <4>4. u[i] = f[i]
        BY <2>6, <3>2
      <4> QED
        BY <4>2, <4>3, <4>4
    <3> QED
      BY <3>1, <3>2
  <2>8. t = u
    BY <2>5, <2>6, <2>7, SeqEqual
  <2> QED
    BY <2>8 DEF u, p
<1> HIDE DEF t
<1>4. t \in Seq(Seq(S))
  BY <1>1, <1>2, <1>3
<1>5. FlattenSeq(t) = FlattenSeq(f) \o Append(last, m)
  BY <1>1, <1>2, <1>3, FlattenAppend
<1>6. FlattenSeq(s) = FlattenSeq(f) \o last
  BY <1>1, FlattenAppend
<1>7. FlattenSeq(f) \in Seq(S) /\ FlattenSeq(s) \in Seq(S)
  BY <1>1, FlattenType
<1>8. FlattenSeq(f) \o (last \o <<m>>) = (FlattenSeq(f) \o last) \o <<m>>
  BY <1>1, <1>2, <1>7, ConcatAssociative
<1>9. Append(FlattenSeq(s), m) = FlattenSeq(s) \o <<m>>
  BY <1>7
<1> QED
  BY <1>2, <1>4, <1>5, <1>6, <1>8, <1>9 DEF t
-----------------------------------------------------------------------------
(* Prefixes and what follows them *)

LEMMA Pieces ==
    ASSUME NEW S, NEW s \in Seq(S), NEW n \in 0 .. Len(s)
    PROVE  /\ SubSeq(s, 1, n) \in Seq(S)
           /\ Len(SubSeq(s, 1, n)) = n
           /\ \A i \in 1 .. n : SubSeq(s, 1, n)[i] = s[i]
           /\ SubSeq(s, n + 1, Len(s)) \in Seq(S)
           /\ Len(SubSeq(s, n + 1, Len(s))) = Len(s) - n
           /\ \A i \in 1 .. Len(s) - n : SubSeq(s, n + 1, Len(s))[i] = s[n + i]
<1>1. Len(s) \in Nat /\ \A i \in 1 .. Len(s) : s[i] \in S
  OBVIOUS
<1>2. /\ SubSeq(s, 1, n) \in Seq(S)
      /\ Len(SubSeq(s, 1, n)) = n
      /\ \A i \in 1 .. n : SubSeq(s, 1, n)[i] = s[i]
  BY <1>1
<1> DEFINE rest == SubSeq(s, n + 1, Len(s))
<1>3. /\ rest \in Seq(S)
      /\ Len(rest) = IF n + 1 <= Len(s) THEN Len(s) - (n + 1) + 1 ELSE 0
      /\ \A i \in 1 .. Len(s) - (n + 1) + 1 : rest[i] = s[(n + 1) + i - 1]
  BY <1>1, SubSeqProperties
<1> HIDE DEF rest
<1>4. Len(rest) = Len(s) - n
  BY <1>1, <1>3
<1>5. \A i \in 1 .. Len(s) - n : rest[i] = s[n + i]
  <2> SUFFICES ASSUME NEW i \in 1 .. Len(s) - n PROVE rest[i] = s[n + i]
    OBVIOUS
  <2>1. i \in 1 .. Len(s) - (n + 1) + 1 /\ (n + 1) + i - 1 = n + i
    BY <1>1
  <2> QED
    BY <1>3, <2>1
<1> QED
  BY <1>2, <1>3, <1>4, <1>5 DEF rest

LEMMA PrefixMeans ==
    ASSUME NEW S, NEW s \in Seq(S), NEW t \in Seq(S)
    PROVE  /\ IsPrefix(s, t) <=> Len(s) <= Len(t) /\ \A i \in 1 .. Len(s) : s[i] = t[i]
           /\ IsPrefix(s, t) <=> Len(s) <= Len(t) /\ SubSeq(t, 1, Len(s)) = s
<1>1. SubSeq(s, 1, Len(s)) = s /\ Len(s) \in Nat /\ Len(t) \in Nat
  BY SubSeqFull
<1>2. ASSUME Len(s) <= Len(t)
      PROVE  SubSeq(t, 1, Len(s)) = s <=> \A i \in 1 .. Len(s) : s[i] = t[i]
  <2> DEFINE u == SubSeq(t, 1, Len(s))
  <2>1. u \in Seq(S) /\ Len(u) = Len(s) /\ \A i \in 1 .. Len(s) : u[i] = t[i]
    BY <1>1, <1>2, Pieces
  <2> HIDE DEF u
  <2>2. u = s <=> \A i \in 1 .. Len(s) : s[i] = t[i]
    BY <2>1, SeqEqual
  <2> QED
    BY <2>2 DEF u
<1> QED
  BY <1>1, <1>2 DEF IsPrefix

LEMMA PrefixOfPrefix ==
    ASSUME NEW S, NEW s \in Seq(S), NEW m \in 0 .. Len(s), NEW n \in 0 .. m
    PROVE  SubSeq(SubSeq(s, 1, m), 1, n) = SubSeq(s, 1, n)
<1> DEFINE u == SubSeq(s, 1, m)
           v == SubSeq(u, 1, n)
           w == SubSeq(s, 1, n)
<1>1. u \in Seq(S) /\ Len(u) = m /\ \A i \in 1 .. m : u[i] = s[i]
  BY Pieces
<1>2. n \in 0 .. Len(s) /\ m \in Nat /\ n \in Nat /\ n <= m
  OBVIOUS
<1>3. w \in Seq(S) /\ Len(w) = n /\ \A i \in 1 .. n : w[i] = s[i]
  BY <1>2, Pieces
<1> HIDE DEF u, w
<1>4. v \in Seq(S) /\ Len(v) = n /\ \A i \in 1 .. n : v[i] = u[i]
  BY <1>1, <1>2, Pieces
<1> HIDE DEF v
<1>5. \A i \in 1 .. n : v[i] = w[i]
  BY <1>1, <1>2, <1>3, <1>4
<1>6. v = w
  BY <1>3, <1>4, <1>5, SeqEqual
<1> QED
  BY <1>6 DEF v, w, u

(* A prefix of what follows k elements follows them in a longer prefix.     *)
LEMMA PrefixOfRest ==
    ASSUME NEW S, NEW s \in Seq(S), NEW k \in 0 .. Len(s), NEW n \in 0 .. Len(s) - k
    PROVE  /\ k + n \in 0 .. Len(s)
           /\ SubSeq(SubSeq(s, k + 1, Len(s)), 1, n)
                 = SubSeq(SubSeq(s, 1, k + n), k + 1, k + n)
<1> DEFINE r == SubSeq(s, k + 1, Len(s))
           v == SubSeq(r, 1, n)
           p == SubSeq(s, 1, k + n)
           w == SubSeq(p, k + 1, k + n)
<1>1. Len(s) \in Nat /\ k \in Nat /\ n \in Nat /\ k + n \in 0 .. Len(s)
  OBVIOUS
<1>2. r \in Seq(S) /\ Len(r) = Len(s) - k /\ \A i \in 1 .. Len(s) - k : r[i] = s[k + i]
  BY Pieces
<1>3. p \in Seq(S) /\ Len(p) = k + n /\ \A i \in 1 .. k + n : p[i] = s[i]
  BY <1>1, Pieces
<1> HIDE DEF r, p
<1>4. v \in Seq(S) /\ Len(v) = n /\ \A i \in 1 .. n : v[i] = r[i]
  BY <1>1, <1>2, Pieces
<1>5. w \in Seq(S) /\ Len(w) = n /\ \A i \in 1 .. n : w[i] = p[k + i]
  <2>1. k \in 0 .. Len(p) /\ Len(p) - k = n
    BY <1>1, <1>3
  <2> QED
    BY <1>3, <2>1, Pieces
<1> HIDE DEF v, w
<1>6. \A i \in 1 .. n : v[i] = w[i]
  <2> SUFFICES ASSUME NEW i \in 1 .. n PROVE v[i] = w[i]
    OBVIOUS
  <2>1. i \in 1 .. Len(s) - k /\ k + i \in 1 .. k + n
    BY <1>1
  <2> QED
    BY <1>2, <1>3, <1>4, <1>5, <2>1
<1>7. v = w
  BY <1>4, <1>5, <1>6, SeqEqual
<1> QED
  BY <1>1, <1>7 DEF v, w, r, p

LEMMA OneMore ==
    ASSUME NEW S, NEW s \in Seq(S), NEW k \in 0 .. Len(s), NEW n \in k .. Len(s) - 1
    PROVE  /\ s[n + 1] \in S
           /\ SubSeq(s, 1, n + 1) = Append(SubSeq(s, 1, n), s[n + 1])
           /\ SubSeq(s, k + 1, n) \in Seq(S)
           /\ SubSeq(s, k + 1, n + 1) = Append(SubSeq(s, k + 1, n), s[n + 1])
<1>1. /\ Len(s) \in Nat /\ k \in Nat /\ n \in Nat /\ k <= n /\ n + 1 <= Len(s)
      /\ n + 1 \in 1 .. Len(s) /\ s[n + 1] \in S
  OBVIOUS
<1>2. ASSUME NEW j \in 0 .. n
      PROVE  /\ SubSeq(s, j + 1, n) \in Seq(S)
             /\ SubSeq(s, j + 1, n + 1) = Append(SubSeq(s, j + 1, n), s[n + 1])
  <2> DEFINE u == SubSeq(s, j + 1, n)
             v == SubSeq(s, j + 1, n + 1)
             w == Append(u, s[n + 1])
  <2>1. \A i \in j + 1 .. n + 1 : s[i] \in S
    BY <1>1
  <2>2. /\ v \in Seq(S)
        /\ Len(v) = IF j + 1 <= n + 1 THEN (n + 1) - (j + 1) + 1 ELSE 0
        /\ \A i \in 1 .. (n + 1) - (j + 1) + 1 : v[i] = s[(j + 1) + i - 1]
    BY <1>1, <2>1, SubSeqProperties
  <2>3. /\ u \in Seq(S)
        /\ Len(u) = IF j + 1 <= n THEN n - (j + 1) + 1 ELSE 0
        /\ \A i \in 1 .. n - (j + 1) + 1 : u[i] = s[(j + 1) + i - 1]
    BY <1>1, <2>1, SubSeqProperties
  <2> HIDE DEF u, v
  <2>4. Len(v) = n - j + 1 /\ Len(u) = n - j
    BY <1>1, <2>2, <2>3
  <2>5. /\ w \in Seq(S) /\ Len(w) = n - j + 1
        /\ w[n - j + 1] = s[n + 1] /\ \A i \in 1 .. n - j : w[i] = u[i]
    BY <1>1, <2>3, <2>4, SMTT(20)
  <2> HIDE DEF w
  <2>6. \A i \in 1 .. n - j + 1 : v[i] = w[i]
    <3> SUFFICES ASSUME NEW i \in 1 .. n - j + 1 PROVE v[i] = w[i]
      OBVIOUS
    <3>1. v[i] = s[(j + 1) + i - 1]
      BY <1>1, <2>2
    <3>2. CASE i = n - j + 1
      <4>1. (j + 1) + i - 1 = n + 1
        BY <1>1, <3>2
      <4> QED
        BY <2>5, <3>1, <3>2, <4>1
    <3>3. CASE i # n - j + 1
      <4>1. i \in 1 .. n - j /\ i \in 1 .. n - (j + 1) + 1
        BY <1>1, <3>3
      <4> QED
        BY <2>3, <2>5, <3>1, <4>1
    <3> QED
      BY <3>2, <3>3
  <2>7. v = w
    BY <2>2, <2>4, <2>5, <2>6, SeqEqual
  <2> QED
    BY <2>3, <2>7 DEF u, v, w
<1>3. 0 \in 0 .. n /\ k \in 0 .. n
  BY <1>1
<1>4. SubSeq(s, 0 + 1, n + 1) = Append(SubSeq(s, 0 + 1, n), s[n + 1])
  BY <1>2, <1>3
<1> QED
  BY <1>1, <1>2, <1>3, <1>4

(* The pages of two parts.                                                  *)
LEMMA FlattenSplit ==
    ASSUME NEW S, NEW s \in Seq(Seq(S)), NEW k \in 0 .. Len(s)
    PROVE  FlattenSeq(s) = FlattenSeq(SubSeq(s, 1, k)) \o FlattenSeq(SubSeq(s, k + 1, Len(s)))
<1> DEFINE first == FlattenSeq(SubSeq(s, 1, k))
           Both(n) == FlattenSeq(SubSeq(s, 1, n)) = first \o FlattenSeq(SubSeq(s, k + 1, n))
           Good == {n \in Nat : Both(k + n)}
<1>1. Len(s) \in Nat /\ k \in Nat /\ Len(s) - k \in Nat /\ k + (Len(s) - k) = Len(s)
  OBVIOUS
<1>2. first \in Seq(S)
  BY Pieces, FlattenType
<1>3. 0 \in Good
  <2>1. SubSeq(s, k + 1, k) = <<>>
    BY <1>1, SubSeqEmpty
  <2>2. first \o <<>> = first
    <3> HIDE DEF first
    <3> QED
      BY <1>2
  <2>3. Both(k)
    BY <2>1, <2>2, FlattenEmpty
  <2>4. k + 0 = k
    BY <1>1
  <2> HIDE DEF Both
  <2> QED
    BY <2>3, <2>4
<1>4. ASSUME NEW n \in 0 .. (Len(s) - k) - 1, n \in Good
      PROVE  n + 1 \in Good
  <2> DEFINE m == k + n
             p == SubSeq(s, 1, m)
             q == SubSeq(s, k + 1, m)
             x == s[m + 1]
  <2>1. m \in k .. Len(s) - 1 /\ k + (n + 1) = m + 1 /\ n + 1 \in Nat /\ m \in 0 .. Len(s)
    BY <1>1
  <2>2. /\ x \in Seq(S) /\ q \in Seq(Seq(S))
        /\ SubSeq(s, 1, m + 1) = Append(p, x) /\ SubSeq(s, k + 1, m + 1) = Append(q, x)
    <3> HIDE DEF m
    <3> QED
      BY <2>1, OneMore
  <2>3. p \in Seq(Seq(S))
    BY <2>1, Pieces
  <2>4. FlattenSeq(p) = first \o FlattenSeq(q)
    BY <1>4
  <2> HIDE DEF m, p, q, x, first
  <2>5. /\ FlattenSeq(Append(p, x)) = FlattenSeq(p) \o x
        /\ FlattenSeq(Append(q, x)) = FlattenSeq(q) \o x
        /\ FlattenSeq(q) \in Seq(S)
    BY <2>2, <2>3, FlattenAppend, FlattenType
  <2>6. \A a, b, c \in Seq(S) : (a \o b) \o c = a \o (b \o c)
    OBVIOUS
  <2>7. (first \o FlattenSeq(q)) \o x = first \o (FlattenSeq(q) \o x)
    BY <1>2, <2>2, <2>5, <2>6
  <2>8. Both(m + 1)
    BY <2>2, <2>4, <2>5, <2>7
  <2> HIDE DEF Both
  <2> QED
    BY <2>1, <2>8
<1>5. Len(s) - k \in Good
  <2> DEFINE d == Len(s) - k
  <2>1. d \in Nat /\ \A n \in 0 .. d - 1 : n \in Good => n + 1 \in Good
    BY <1>1, <1>4
  <2> HIDE DEF Good, d
  <2>2. \A n \in 0 .. d : n \in Good
    BY <1>3, <2>1, InductionUpTo
  <2>3. d \in 0 .. d
    BY <2>1
  <2> QED
    BY <2>2, <2>3 DEF d
<1>6. Both(Len(s))
  <2> HIDE DEF Both
  <2> QED
    BY <1>1, <1>5
<1>7. SubSeq(s, 1, Len(s)) = s
  BY SubSeqFull
<1> QED
  BY <1>6, <1>7
=============================================================================
