-------------------------- MODULE MediaCacheProofs ---------------------------
(* Proofs about MediaCache: whatever the tokenizer, the requests, the media  *)
(* and the interleaving of the preparation threads, everybody gets what      *)
(* processing his own text and media alone would give.                       *)
EXTENDS MediaCache, DequeProofs, FiniteSetTheorems, WellFoundedInduction

-----------------------------------------------------------------------------
(* Flattening a sequence of sequences.                                       *)

\* f holds the partial sums of the first n members of s.
Sums(s, n, f) == \A i \in 1 .. n : f[i] = IF i = 1 THEN s[i] ELSE f[i - 1] \o s[i]

\* The partial sums that FlattenSeq is defined by exist.
LEMMA SumsExist ==
  ASSUME NEW S, NEW s \in Seq(Seq(S))
  PROVE  \E f \in [1 .. Len(s) -> Seq(S)] : Sums(s, Len(s), f)
<1> DEFINE N == {n \in Nat : n <= Len(s) => \E f \in [1 .. n -> Seq(S)] : Sums(s, n, f)}
<1>1. Len(s) \in Nat /\ \A i \in 1 .. Len(s) : s[i] \in Seq(S)
  BY LenProperties, ElementOfSeq
<1>2. 0 \in N
  <2>1. [i \in 1 .. 0 |-> <<>>] \in [1 .. 0 -> Seq(S)]
    OBVIOUS
  <2>2. Sums(s, 0, [i \in 1 .. 0 |-> <<>>])
    BY DEF Sums
  <2> QED BY <2>1, <2>2
<1>3. ASSUME NEW n \in Nat, n \in N PROVE n + 1 \in N
  <2>a. n + 1 \in Nat
    OBVIOUS
  <2> SUFFICES ASSUME n + 1 <= Len(s)
               PROVE \E f \in [1 .. n + 1 -> Seq(S)] : Sums(s, n + 1, f)
    BY <2>a, Zenon
  <2>0. n <= Len(s)
    BY <1>1
  <2>1. PICK g \in [1 .. n -> Seq(S)] : Sums(s, n, g)
    BY <1>3, <2>0, Zenon
  <2> DEFINE last == IF n = 0 THEN s[n + 1] ELSE g[n] \o s[n + 1]
             h == [i \in 1 .. n + 1 |-> IF i = n + 1 THEN last ELSE g[i]]
  <2>2. s[n + 1] \in Seq(S)
    BY <1>1
  <2>3. last \in Seq(S)
    <3>1. CASE n = 0
      BY <2>2, <3>1
    <3>2. CASE n # 0
      <4>1. g[n] \in Seq(S)
        BY <3>2
      <4> QED BY <2>2, <3>2, <4>1, ConcatProperties
    <3> QED BY <3>1, <3>2
  <2> HIDE DEF last
  <2>4. h \in [1 .. n + 1 -> Seq(S)]
    BY <2>3
  <2>5. ASSUME NEW i \in 1 .. n + 1
        PROVE  h[i] = IF i = 1 THEN s[i] ELSE h[i - 1] \o s[i]
    <3>1. CASE i = n + 1
      <4>1. h[i] = last
        BY <3>1
      <4>2. CASE n = 0
        BY <3>1, <4>1, <4>2 DEF last
      <4>3. CASE n # 0
        <5>1. i - 1 \in 1 .. n + 1 /\ i - 1 = n /\ i # 1 /\ i - 1 # n + 1
          BY <3>1, <4>3
        <5>2. h[i - 1] = g[n]
          BY <5>1
        <5> QED BY <3>1, <4>1, <4>3, <5>1, <5>2 DEF last
      <4> QED BY <4>2, <4>3
    <3>2. CASE i # n + 1
      <4>1. i \in 1 .. n /\ h[i] = g[i]
        BY <3>2
      <4>2. g[i] = IF i = 1 THEN s[i] ELSE g[i - 1] \o s[i]
        BY <2>1, <4>1 DEF Sums
      <4>3. i # 1 => h[i - 1] = g[i - 1]
        BY <4>1
      <4> QED BY <4>1, <4>2, <4>3
    <3> QED BY <3>1, <3>2
  <2>6. Sums(s, n + 1, h)
    BY <2>5 DEF Sums
  <2> QED BY <2>4, <2>6
<1> HIDE DEF N
<1>4. \A n \in Nat : n \in N
  BY <1>2, <1>3, NatSetInduction
<1>5. Len(s) \in N
  BY <1>1, <1>4
<1> QED BY <1>1, <1>5 DEF N

\* Partial sums of the same sequence are the same.
LEMMA SumsAgree ==
  ASSUME NEW w, NEW k \in Nat, NEW p, NEW q, Sums(w, k, p), Sums(w, k, q)
  PROVE  \A i \in 1 .. k : p[i] = q[i]
<1> USE DEF Sums
<1> DEFINE N == {m \in Nat : m \in 1 .. k => p[m] = q[m]}
<1>1. 0 \in N
  OBVIOUS
<1>2. ASSUME NEW m \in Nat, m \in N PROVE m + 1 \in N
  <2> SUFFICES ASSUME m + 1 \in 1 .. k PROVE p[m + 1] = q[m + 1]
    OBVIOUS
  <2>1. CASE m = 0
    <3>1. 1 \in 1 .. k /\ m + 1 = 1
      BY <2>1
    <3>2. p[1] = w[1] /\ q[1] = w[1]
      BY <3>1
    <3> QED BY <3>1, <3>2
  <2>2. CASE m # 0
    <3>1. m \in 1 .. k /\ m + 1 # 1 /\ (m + 1) - 1 = m
      BY <2>2
    <3>2. p[m] = q[m]
      BY <1>2, <3>1
    <3>3. p[m + 1] = p[m] \o w[m + 1]
      BY <3>1
    <3>4. q[m + 1] = q[m] \o w[m + 1]
      BY <3>1
    <3> QED BY <3>2, <3>3, <3>4
  <2> QED BY <2>1, <2>2
<1> HIDE DEF N
<1>3. \A m \in Nat : m \in N
  BY <1>1, <1>2, NatSetInduction
<1>4. ASSUME NEW m \in 1 .. k PROVE p[m] = q[m]
  <2>1. m \in N
    BY <1>3
  <2> QED BY <2>1 DEF N
<1> QED BY <1>4

\* What FlattenSeq is, as partial sums.
LEMMA FlattenSums ==
  ASSUME NEW S, NEW s \in Seq(Seq(S)), s # <<>>
  PROVE  \E f \in [1 .. Len(s) -> Seq(S)] :
           /\ FlattenSeq(s) = f[Len(s)]
           /\ Sums(s, Len(s), f)
<1> DEFINE F == CHOOSE f : f = [i \in 1 .. Len(s) |-> IF i = 1 THEN s[i] ELSE f[i - 1] \o s[i]]
<1>1. Len(s) # 0
  BY EmptySeq
<1>2. FlattenSeq(s) = F[Len(s)]
  BY <1>1 DEF FlattenSeq
<1>3. PICK g \in [1 .. Len(s) -> Seq(S)] : Sums(s, Len(s), g)
  BY SumsExist
<1>4. g = [i \in 1 .. Len(s) |-> IF i = 1 THEN s[i] ELSE g[i - 1] \o s[i]]
  BY <1>3 DEF Sums
<1>5. F = [i \in 1 .. Len(s) |-> IF i = 1 THEN s[i] ELSE F[i - 1] \o s[i]]
  BY <1>4
<1> HIDE DEF F
<1>6. Sums(s, Len(s), F) /\ Sums(s, Len(s), g)
  BY <1>3, <1>5 DEF Sums
<1>7. Len(s) \in Nat /\ Len(s) \in 1 .. Len(s)
  BY <1>1, LenProperties
<1>8. \A i \in 1 .. Len(s) : F[i] = g[i]
  BY <1>6, <1>7, SumsAgree
<1> QED BY <1>2, <1>3, <1>7, <1>8

\* Nothing flattens to nothing, and a last sequence is appended to the rest.
LEMMA FlattenAppend ==
  ASSUME NEW S
  PROVE  /\ FlattenSeq(<<>>) = <<>>
         /\ \A s \in Seq(Seq(S)) : FlattenSeq(s) \in Seq(S)
         /\ \A s \in Seq(Seq(S)), x \in Seq(S) :
              FlattenSeq(Append(s, x)) = FlattenSeq(s) \o x
<1>1. FlattenSeq(<<>>) = <<>>
  BY EmptySeq DEF FlattenSeq
<1>2. ASSUME NEW s \in Seq(Seq(S)) PROVE FlattenSeq(s) \in Seq(S)
  <2>1. CASE s = <<>>
    BY <1>1, <2>1, EmptySeq
  <2>2. CASE s # <<>>
    <3>1. PICK f \in [1 .. Len(s) -> Seq(S)] : FlattenSeq(s) = f[Len(s)]
      BY <2>2, FlattenSums
    <3>2. Len(s) \in 1 .. Len(s)
      BY <2>2, EmptySeq
    <3> QED BY <3>1, <3>2
  <2> QED BY <2>1, <2>2
<1>3. ASSUME NEW s \in Seq(Seq(S)), NEW x \in Seq(S)
      PROVE  FlattenSeq(Append(s, x)) = FlattenSeq(s) \o x
  <2> DEFINE t == Append(s, x)
             n == Len(s)
  <2>1. /\ t \in Seq(Seq(S)) /\ t # <<>> /\ Len(t) = n + 1 /\ t[n + 1] = x
        /\ \A i \in 1 .. n : t[i] = s[i]
    BY AppendProperties
  <2>2. n \in Nat
    BY LenProperties
  <2> HIDE DEF t, n
  <2>3. PICK f \in [1 .. n + 1 -> Seq(S)] : FlattenSeq(t) = f[n + 1] /\ Sums(t, n + 1, f)
    BY <2>1, FlattenSums
  <2>4. n + 1 \in 1 .. n + 1
    BY <2>2
  <2>5. CASE n = 0
    <3>1. s = <<>>
      BY <2>5, EmptySeq DEF n
    <3>2. f[n + 1] = t[n + 1]
      BY <2>3, <2>4, <2>5 DEF Sums
    <3>3. <<>> \o x = x
      BY ConcatEmptySeq
    <3> QED BY <1>1, <2>1, <2>3, <3>1, <3>2, <3>3 DEF t
  <2>6. CASE n # 0
    <3>1. s # <<>>
      BY <2>6, EmptySeq DEF n
    <3>2. PICK g \in [1 .. n -> Seq(S)] : FlattenSeq(s) = g[n] /\ Sums(s, n, g)
      BY <3>1, FlattenSums DEF n
    <3>3. Sums(s, n, f)
      <4> SUFFICES ASSUME NEW i \in 1 .. n
                   PROVE f[i] = IF i = 1 THEN s[i] ELSE f[i - 1] \o s[i]
        BY DEF Sums
      <4>1. i \in 1 .. n + 1 /\ t[i] = s[i]
        BY <2>1, <2>2
      <4> QED BY <2>3, <4>1 DEF Sums
    <3>4. f[n] = g[n]
      <4>1. n \in 1 .. n
        BY <2>2, <2>6
      <4>2. Sums(s, n, f) /\ Sums(s, n, g)
        BY <3>2, <3>3
      <4>3. \A i \in 1 .. n : f[i] = g[i]
        BY <2>2, <4>2, SumsAgree, SMTT(30)
      <4> QED BY <4>1, <4>3
    <3>5. n + 1 # 1 /\ (n + 1) - 1 = n
      BY <2>2, <2>6
    <3>6. f[n + 1] = f[n] \o t[n + 1]
      BY <2>3, <2>4, <3>5 DEF Sums
    <3> QED BY <2>1, <2>3, <3>2, <3>4, <3>6 DEF t
  <2> QED BY <2>5, <2>6
<1> QED BY <1>1, <1>2, <1>3

\* Appending after concatenating is concatenating after appending.
LEMMA AppendLast ==
  ASSUME NEW S, NEW s \in Seq(S), NEW v \in Seq(S), NEW x \in S
  PROVE  s \o v \in Seq(S) /\ s \o Append(v, x) = Append(s \o v, x)
<1>1. s \o v \in Seq(S) /\ <<x>> \in Seq(S)
  BY ConcatProperties
<1>2. Append(v, x) = v \o <<x>> /\ Append(s \o v, x) = (s \o v) \o <<x>>
  BY <1>1, AppendIsConcat
<1>3. (s \o v) \o <<x>> = s \o (v \o <<x>>)
  BY <1>1, ConcatAssociative
<1> QED BY <1>1, <1>2, <1>3

\* ConcatAssociative, with names that no proof below uses.
LEMMA Associative ==
  ASSUME NEW A, NEW a \in Seq(A), NEW b \in Seq(A), NEW c \in Seq(A)
  PROVE  (a \o b) \o c = a \o (b \o c)
  BY ConcatAssociative

\* Associativity of Join, a name for \o that no prover interprets.
Join(f, g) == f \o g

LEMMA JoinAssociative ==
  ASSUME NEW A, NEW f \in Seq(A), NEW g \in Seq(A), NEW x \in Seq(A)
  PROVE  Join(Join(f, g), x) = Join(f, Join(g, x))
  BY Associative DEF Join

\* Flattening distributes over concatenation.
LEMMA FlattenConcat ==
  ASSUME NEW S
  PROVE  \A s, t \in Seq(Seq(S)) : FlattenSeq(s \o t) = FlattenSeq(s) \o FlattenSeq(t)
<1>a. \A f, g, x \in Seq(S) : Join(Join(f, g), x) = Join(f, Join(g, x))
  BY JoinAssociative
<1> SUFFICES ASSUME NEW s \in Seq(Seq(S)), NEW t \in Seq(Seq(S))
             PROVE  FlattenSeq(s \o t) = FlattenSeq(s) \o FlattenSeq(t)
  OBVIOUS
<1> DEFINE N == {n \in Nat : \A u \in Seq(Seq(S)) :
                   Len(u) = n => FlattenSeq(s \o u) = FlattenSeq(s) \o FlattenSeq(u)}
<1>0. FlattenSeq(s) \in Seq(S)
  BY FlattenAppend
<1>1. 0 \in N
  <2> SUFFICES ASSUME NEW u \in Seq(Seq(S)), Len(u) = 0
               PROVE FlattenSeq(s \o u) = FlattenSeq(s) \o FlattenSeq(u)
    OBVIOUS
  <2>1. u = <<>>
    BY EmptySeq
  <2>2. s \o <<>> = s /\ FlattenSeq(s) \o <<>> = FlattenSeq(s)
    BY <1>0, ConcatEmptySeq
  <2> QED BY <2>1, <2>2, FlattenAppend
<1>2. ASSUME NEW n \in Nat, n \in N PROVE n + 1 \in N
  <2> SUFFICES ASSUME NEW u \in Seq(Seq(S)), Len(u) = n + 1
               PROVE FlattenSeq(s \o u) = FlattenSeq(s) \o FlattenSeq(u)
    OBVIOUS
  <2>1. u # <<>>
    BY EmptySeq
  <2>2. PICK v \in Seq(Seq(S)), x \in Seq(S) : u = Append(v, x)
    BY <2>1, SequenceEmptyOrAppend
  <2>3. Len(v) = n
    <3>1. Len(v) \in Nat /\ Len(u) = Len(v) + 1
      BY <2>2, AppendProperties, LenProperties
    <3> QED BY <3>1
  <2>4. FlattenSeq(s \o v) = FlattenSeq(s) \o FlattenSeq(v)
    BY <1>2, <2>3
  <2>5. s \o u = Append(s \o v, x) /\ s \o v \in Seq(Seq(S))
    BY <2>2, AppendLast, SMTT(30)
  <2>6. FlattenSeq(s \o u) = (FlattenSeq(s) \o FlattenSeq(v)) \o x
    BY <2>4, <2>5, FlattenAppend, ZenonT(40)
  <2>7. FlattenSeq(u) = FlattenSeq(v) \o x /\ FlattenSeq(v) \in Seq(S)
    BY <2>2, FlattenAppend
  <2> DEFINE a == FlattenSeq(s)
             b == FlattenSeq(v)
             left == FlattenSeq(s \o u)
             right == FlattenSeq(u)
  <2>8. a \in Seq(S) /\ b \in Seq(S) /\ x \in Seq(S)
        /\ left = Join(Join(a, b), x) /\ right = Join(b, x)
    BY <1>0, <2>6, <2>7 DEF Join
  <2> HIDE DEF a, b, left, right
  <2>9. left = Join(a, right)
    BY <1>a, <2>8, Zenon
  <2> QED BY <2>9 DEF a, left, right, Join
<1> HIDE DEF N
<1>3. \A n \in Nat : n \in N
  BY <1>1, <1>2, NatSetInduction
<1>4. Len(t) \in N
  BY <1>3, LenProperties
<1> QED BY <1>4 DEF N

\* Flattening a sequence of singletons gives the sequence of their elements.
LEMMA FlattenSingletons ==
  ASSUME NEW S, NEW t \in Seq(S)
  PROVE  /\ [i \in DOMAIN t |-> <<t[i]>>] \in Seq(Seq(S))
         /\ FlattenSeq([i \in DOMAIN t |-> <<t[i]>>]) = t
<1> DEFINE Singles(u) == [i \in DOMAIN u |-> <<u[i]>>]
           N == {n \in Nat : \A u \in Seq(S) : Len(u) = n => FlattenSeq(Singles(u)) = u}
<1>0. ASSUME NEW u \in Seq(S)
      PROVE  Singles(u) \in Seq(Seq(S)) /\ Len(Singles(u)) = Len(u) /\ DOMAIN u = 1 .. Len(u)
  <2>1. Len(u) \in Nat /\ DOMAIN u = 1 .. Len(u) /\ \A i \in 1 .. Len(u) : u[i] \in S
    BY LenProperties, ElementOfSeq
  <2>2. Singles(u) \in [1 .. Len(u) -> Seq(S)]
    BY <2>1
  <2> HIDE DEF Singles
  <2>3. Singles(u) \in Seq(Seq(S))
    BY <2>1, <2>2, SeqDef, SMTT(30)
  <2> QED BY <2>1, <2>2, <2>3, LenProperties
<1>1. 0 \in N
  <2> SUFFICES ASSUME NEW u \in Seq(S), Len(u) = 0 PROVE FlattenSeq(Singles(u)) = u
    OBVIOUS
  <2> HIDE DEF Singles
  <2>1. u = <<>> /\ Singles(u) = <<>>
    BY <1>0, EmptySeq
  <2> QED BY <2>1, FlattenAppend
<1>2. ASSUME NEW n \in Nat, n \in N PROVE n + 1 \in N
  <2> SUFFICES ASSUME NEW u \in Seq(S), Len(u) = n + 1 PROVE FlattenSeq(Singles(u)) = u
    OBVIOUS
  <2>1. u # <<>>
    BY EmptySeq
  <2>2. PICK v \in Seq(S), x \in S : u = Append(v, x)
    BY <2>1, SequenceEmptyOrAppend
  <2>3. /\ Len(v) = n /\ u[n + 1] = x
        /\ \A i \in 1 .. n : u[i] = v[i]
    <3>1. Len(v) \in Nat /\ Len(u) = Len(v) + 1
      BY <2>2, AppendProperties, LenProperties
    <3>2. Len(v) = n
      BY <3>1
    <3> QED BY <2>2, <3>2, AppendProperties
  <2>4. FlattenSeq(Singles(v)) = v
    BY <1>2, <2>3
  <2>5. <<x>> \in Seq(S)
    OBVIOUS
  <2>6. Singles(u) = Append(Singles(v), <<x>>)
    <3>1. /\ Append(Singles(v), <<x>>) \in Seq(Seq(S))
          /\ Len(Append(Singles(v), <<x>>)) = n + 1
          /\ \A i \in 1 .. n : Append(Singles(v), <<x>>)[i] = Singles(v)[i]
          /\ Append(Singles(v), <<x>>)[n + 1] = <<x>>
      <4> HIDE DEF Singles
      <4> QED BY <1>0, <2>3, <2>5, AppendProperties
    <3>2. Singles(u) \in Seq(Seq(S)) /\ Len(Singles(u)) = n + 1
      BY <1>0
    <3>3. DOMAIN u = 1 .. n + 1 /\ DOMAIN v = 1 .. n
      BY <1>0, <2>3
    <3>4. ASSUME NEW i \in 1 .. n + 1 PROVE Singles(u)[i] = Append(Singles(v), <<x>>)[i]
      <4>1. CASE i = n + 1
        BY <2>3, <3>1, <3>3, <4>1
      <4>2. CASE i # n + 1
        <5>1. i \in 1 .. n
          BY <4>2
        <5> QED BY <2>3, <3>1, <3>3, <5>1
      <4> QED BY <4>1, <4>2
    <3> HIDE DEF Singles
    <3> QED BY <3>1, <3>2, <3>4, SeqEqual
  <2>7. FlattenSeq(Singles(u)) = FlattenSeq(Singles(v)) \o <<x>>
    <3> HIDE DEF Singles
    <3> QED BY <1>0, <2>5, <2>6, FlattenAppend
  <2>8. u = v \o <<x>>
    BY <2>2, AppendIsConcat
  <2> QED BY <2>4, <2>7, <2>8
<1> HIDE DEF N
<1>3. \A n \in Nat : n \in N
  BY <1>1, <1>2, NatSetInduction
<1>4. Len(t) \in N
  BY <1>3, LenProperties
<1>5. FlattenSeq(Singles(t)) = t
  BY <1>4 DEF N
<1> QED BY <1>0, <1>5

-----------------------------------------------------------------------------
(* Slices, counts and extrema.                                               *)

\* A sequence is any of its prefixes followed by the rest.
LEMMA Slices ==
  ASSUME NEW S, NEW s \in Seq(S), NEW n \in 0 .. Len(s)
  PROVE  /\ SubSeq(s, 1, n) \in Seq(S) /\ Len(SubSeq(s, 1, n)) = n
         /\ \A i \in 1 .. n : SubSeq(s, 1, n)[i] = s[i]
         /\ SubSeq(s, n + 1, Len(s)) \in Seq(S)
         /\ Len(SubSeq(s, n + 1, Len(s))) = Len(s) - n
         /\ \A i \in 1 .. Len(s) - n : SubSeq(s, n + 1, Len(s))[i] = s[n + i]
         /\ s = SubSeq(s, 1, n) \o SubSeq(s, n + 1, Len(s))
<1>1. Len(s) \in Nat /\ n \in Nat /\ n <= Len(s) /\ \A i \in 1 .. Len(s) : s[i] \in S
  BY LenProperties, ElementOfSeq
<1>2. /\ SubSeq(s, 1, n) \in Seq(S) /\ Len(SubSeq(s, 1, n)) = n
      /\ \A i \in 1 .. n : SubSeq(s, 1, n)[i] = s[i]
  <2>1. 1 \in Int /\ n \in Int /\ \A i \in 1 .. n : s[i] \in S
    BY <1>1
  <2>2. /\ SubSeq(s, 1, n) \in Seq(S)
        /\ Len(SubSeq(s, 1, n)) = IF 1 <= n THEN n - 1 + 1 ELSE 0
        /\ \A i \in 1 .. n - 1 + 1 : SubSeq(s, 1, n)[i] = s[1 + i - 1]
    BY <2>1, SubSeqProperties
  <2>3. \A i \in 1 .. n : i \in 1 .. n - 1 + 1 /\ 1 + i - 1 = i
    BY <1>1
  <2> QED BY <1>1, <2>2, <2>3
<1>3. /\ SubSeq(s, n + 1, Len(s)) \in Seq(S)
      /\ Len(SubSeq(s, n + 1, Len(s))) = Len(s) - n
      /\ \A i \in 1 .. Len(s) - n : SubSeq(s, n + 1, Len(s))[i] = s[n + i]
  <2> DEFINE m == n + 1
             l == Len(s)
  <2>1. m \in Int /\ l \in Int /\ \A i \in m .. l : s[i] \in S
    BY <1>1
  <2>2. m = n + 1 /\ l = Len(s) /\ l \in Nat /\ n <= l
    BY <1>1
  <2> HIDE DEF m, l
  <2>3. /\ SubSeq(s, m, l) \in Seq(S)
        /\ Len(SubSeq(s, m, l)) = IF m <= l THEN l - m + 1 ELSE 0
        /\ \A i \in 1 .. l - m + 1 : SubSeq(s, m, l)[i] = s[m + i - 1]
    BY <2>1, SubSeqProperties
  <2>4. \A i \in 1 .. l - n : i \in 1 .. l - m + 1 /\ m + i - 1 = n + i
    BY <1>1, <2>2
  <2>5. (IF m <= l THEN l - m + 1 ELSE 0) = l - n
    BY <1>1, <2>2
  <2> QED BY <2>2, <2>3, <2>4, <2>5
<1>4. s = SubSeq(s, 1, n) \o SubSeq(s, n + 1, Len(s))
  <2> DEFINE a == SubSeq(s, 1, n)
             b == SubSeq(s, n + 1, Len(s))
  <2>1. /\ a \in Seq(S) /\ Len(a) = n /\ \A i \in 1 .. n : a[i] = s[i]
        /\ b \in Seq(S) /\ Len(b) = Len(s) - n /\ \A i \in 1 .. Len(s) - n : b[i] = s[n + i]
    BY <1>2, <1>3
  <2> HIDE DEF a, b
  <2>2. /\ a \o b \in Seq(S) /\ Len(a \o b) = Len(a) + Len(b)
        /\ \A i \in 1 .. Len(a) + Len(b) :
             (a \o b)[i] = IF i <= Len(a) THEN a[i] ELSE b[i - Len(a)]
    BY <2>1, ConcatProperties
  <2>3. Len(a \o b) = Len(s)
    BY <1>1, <2>1, <2>2
  <2>4. ASSUME NEW i \in 1 .. Len(s) PROVE s[i] = (a \o b)[i]
    <3>1. i \in 1 .. Len(a) + Len(b)
      BY <1>1, <2>1
    <3>2. CASE i <= n
      <4>1. i \in 1 .. n
        BY <1>1, <3>2
      <4> QED BY <2>1, <2>2, <3>1, <3>2, <4>1
    <3>3. CASE ~(i <= n)
      <4>1. i - n \in 1 .. Len(s) - n /\ n + (i - n) = i
        BY <1>1, <3>3
      <4> QED BY <2>1, <2>2, <3>1, <3>3, <4>1
    <3> QED BY <3>2, <3>3
  <2>5. s = a \o b
    BY <2>2, <2>3, <2>4, SeqEqual
  <2> QED BY <2>5 DEF a, b
<1> QED BY <1>2, <1>3, <1>4

\* The parts of a concatenation are its slices.
LEMMA ConcatSlices ==
  ASSUME NEW S, NEW a \in Seq(S), NEW b \in Seq(S)
  PROVE  /\ a \o b \in Seq(S) /\ Len(a \o b) = Len(a) + Len(b)
         /\ \A i \in 1 .. Len(a) : (a \o b)[i] = a[i]
         /\ \A i \in 1 .. Len(b) : (a \o b)[Len(a) + i] = b[i]
         /\ SubSeq(a \o b, 1, Len(a)) = a
         /\ SubSeq(a \o b, Len(a) + 1, Len(a \o b)) = b
<1>1. Len(a) \in Nat /\ Len(b) \in Nat
  BY LenProperties
<1>2. /\ a \o b \in Seq(S) /\ Len(a \o b) = Len(a) + Len(b)
      /\ \A i \in 1 .. Len(a) + Len(b) :
           (a \o b)[i] = IF i <= Len(a) THEN a[i] ELSE b[i - Len(a)]
  BY ConcatProperties
<1> DEFINE c == a \o b
           n == Len(a)
<1>3. c \in Seq(S) /\ Len(c) = n + Len(b) /\ n \in 0 .. Len(c) /\ n \in Nat /\ n = Len(a)
  BY <1>1, <1>2
<1>4. \A i \in 1 .. n : c[i] = a[i]
  BY <1>1, <1>2
<1>5. ASSUME NEW i \in 1 .. Len(b) PROVE c[n + i] = b[i]
  <2>1. n + i \in 1 .. Len(a) + Len(b) /\ ~(n + i <= Len(a)) /\ (n + i) - Len(a) = i
    BY <1>1
  <2> QED BY <1>2, <2>1
<1>6. c = a \o b
  OBVIOUS
<1> HIDE DEF c, n
<1>7. /\ SubSeq(c, 1, n) \in Seq(S) /\ Len(SubSeq(c, 1, n)) = n
      /\ \A i \in 1 .. n : SubSeq(c, 1, n)[i] = c[i]
      /\ SubSeq(c, n + 1, Len(c)) \in Seq(S)
      /\ Len(SubSeq(c, n + 1, Len(c))) = Len(c) - n
      /\ \A i \in 1 .. Len(c) - n : SubSeq(c, n + 1, Len(c))[i] = c[n + i]
  BY <1>3, Slices
<1>8. SubSeq(c, 1, n) = a
  <2>1. \A i \in 1 .. Len(a) : SubSeq(c, 1, n)[i] = a[i]
    BY <1>3, <1>4, <1>7
  <2> QED BY <1>3, <1>7, <2>1, SeqEqual
<1>9. SubSeq(c, n + 1, Len(c)) = b
  <2>1. Len(c) - n = Len(b)
    BY <1>1, <1>3
  <2>2. \A i \in 1 .. Len(b) : SubSeq(c, n + 1, Len(c))[i] = b[i]
    BY <1>5, <1>7, <2>1
  <2> QED BY <1>7, <2>1, <2>2, SeqEqual
<1> QED BY <1>3, <1>4, <1>5, <1>6, <1>8, <1>9 DEF n

\* How often a token occurs: a part with none adds nothing, any other part does.
LEMMA CountProperties ==
  ASSUME NEW T, NEW token
  PROVE  /\ \A ids \in Seq(T) : Count(ids, token) \in Nat
         /\ \A a, b \in Seq(T) :
              Count(a \o b, token) = Count(a, token) <=> \A i \in 1 .. Len(b) : b[i] # token
         /\ \A ids \in Seq(T) : \A i \in 1 .. Len(ids) :
              ids[i] = token => Count(SubSeq(ids, 1, i), token) \in 1 .. Count(ids, token)
<1> DEFINE At(ids) == {i \in DOMAIN ids : ids[i] = token}
<1>1. ASSUME NEW ids \in Seq(T)
      PROVE  /\ IsFiniteSet(At(ids)) /\ Count(ids, token) = Cardinality(At(ids))
             /\ Count(ids, token) \in Nat /\ DOMAIN ids = 1 .. Len(ids) /\ Len(ids) \in Nat
  <2>1. DOMAIN ids = 1 .. Len(ids) /\ Len(ids) \in Nat
    BY LenProperties
  <2>2. IsFiniteSet(1 .. Len(ids)) /\ At(ids) \in SUBSET (1 .. Len(ids))
    BY <2>1, FS_Interval
  <2>3. IsFiniteSet(At(ids))
    BY <2>2, FS_Subset
  <2> QED BY <2>1, <2>3, FS_CardinalityType DEF Count
<1>2. ASSUME NEW a \in Seq(T), NEW b \in Seq(T)
      PROVE  /\ Count(a, token) <= Count(a \o b, token)
             /\ Count(a \o b, token) = Count(a, token) <=> \A i \in 1 .. Len(b) : b[i] # token
  <2>1. /\ a \o b \in Seq(T) /\ Len(a \o b) = Len(a) + Len(b)
        /\ \A i \in 1 .. Len(a) : (a \o b)[i] = a[i]
        /\ \A i \in 1 .. Len(b) : (a \o b)[Len(a) + i] = b[i]
    BY ConcatSlices
  <2>2. /\ IsFiniteSet(At(a)) /\ Count(a, token) = Cardinality(At(a))
        /\ IsFiniteSet(At(a \o b)) /\ Count(a \o b, token) = Cardinality(At(a \o b))
        /\ Len(a) \in Nat /\ Len(b) \in Nat
        /\ DOMAIN a = 1 .. Len(a) /\ DOMAIN (a \o b) = 1 .. Len(a) + Len(b)
    BY <1>1, <2>1
  <2>3. At(a) \subseteq At(a \o b)
    BY <2>1, <2>2
  <2>4. ASSUME \A i \in 1 .. Len(b) : b[i] # token PROVE At(a \o b) = At(a)
    <3>1. ASSUME NEW i \in At(a \o b) PROVE i \in At(a)
      <4>1. CASE i <= Len(a)
        BY <2>1, <2>2, <4>1
      <4>2. CASE ~(i <= Len(a))
        <5>1. i - Len(a) \in 1 .. Len(b) /\ Len(a) + (i - Len(a)) = i
          BY <2>2, <4>2
        <5>2. b[i - Len(a)] = token
          BY <2>1, <5>1
        <5> QED BY <2>4, <5>1, <5>2
      <4> QED BY <4>1, <4>2
    <3> QED BY <2>3, <3>1
  <2>5. ASSUME NEW i \in 1 .. Len(b), b[i] = token PROVE At(a \o b) # At(a)
    <3>1. Len(a) + i \in 1 .. Len(a) + Len(b) /\ Len(a) + i \notin 1 .. Len(a)
      BY <2>2
    <3> QED BY <2>1, <2>2, <2>5, <3>1
  <2> HIDE DEF At
  <2>6. /\ Cardinality(At(a)) <= Cardinality(At(a \o b))
        /\ Cardinality(At(a \o b)) = Cardinality(At(a)) => At(a \o b) = At(a)
    BY <2>2, <2>3, FS_Subset
  <2> QED BY <2>2, <2>4, <2>5, <2>6
<1>3. ASSUME NEW ids \in Seq(T), NEW i \in 1 .. Len(ids), ids[i] = token
      PROVE  Count(SubSeq(ids, 1, i), token) \in 1 .. Count(ids, token)
  <2>1. i \in 0 .. Len(ids) /\ Len(ids) \in Nat /\ i \in 1 .. i
    BY LenProperties
  <2> DEFINE p == SubSeq(ids, 1, i)
             q == SubSeq(ids, i + 1, Len(ids))
  <2>2. /\ p \in Seq(T) /\ Len(p) = i /\ \A j \in 1 .. i : p[j] = ids[j]
        /\ q \in Seq(T) /\ ids = p \o q
    BY <2>1, Slices
  <2> HIDE DEF p, q
  <2>3. Count(p, token) <= Count(ids, token)
    BY <1>2, <2>2
  <2>4. IsFiniteSet(At(p)) /\ Count(p, token) = Cardinality(At(p)) /\ Count(p, token) \in Nat
        /\ DOMAIN p = 1 .. i /\ Count(ids, token) \in Nat
    BY <1>1, <2>2
  <2>5. i \in At(p)
    BY <1>3, <2>1, <2>2, <2>4
  <2> HIDE DEF At
  <2>6. Cardinality(At(p)) # 0
    BY <2>4, <2>5, FS_EmptySet
  <2>7. Count(p, token) \in 1 .. Count(ids, token)
    BY <2>3, <2>4, <2>6
  <2> QED BY <2>7 DEF p
<1> QED BY <1>1, <1>2, <1>3

\* A bounded set of naturals has a maximum.
LEMMA MaxProperties ==
  ASSUME NEW n \in Nat, NEW X \in SUBSET (0 .. n), X # {}
  PROVE  Max(X) \in X /\ \A y \in X : y <= Max(X)
<1> DEFINE N == {m \in Nat : \A Y \in SUBSET (0 .. m) :
                   Y # {} => \E x \in Y : \A y \in Y : x >= y}
<1>1. 0 \in N
  <2>1. ASSUME NEW Y \in SUBSET (0 .. 0), Y # {} PROVE \E x \in Y : \A y \in Y : x >= y
    <3>1. \A y \in 0 .. 0 : y = 0 /\ 0 >= 0
      OBVIOUS
    <3>2. PICK z \in Y : z \in 0 .. 0
      BY <2>1
    <3> QED BY <3>1, <3>2
  <2> QED BY <2>1
<1>2. ASSUME NEW m \in Nat, m \in N PROVE m + 1 \in N
  <2> SUFFICES ASSUME NEW Y \in SUBSET (0 .. m + 1), Y # {}
               PROVE \E x \in Y : \A y \in Y : x >= y
    OBVIOUS
  <2>1. CASE m + 1 \in Y
    BY <2>1
  <2>2. CASE m + 1 \notin Y
    <3>1. Y \in SUBSET (0 .. m)
      BY <2>2
    <3> QED BY <1>2, <3>1
  <2> QED BY <2>1, <2>2
<1> HIDE DEF N
<1>3. \A m \in Nat : m \in N
  BY <1>1, <1>2, NatSetInduction
<1>4. n \in N
  BY <1>3
<1>5. \E x \in X : \A y \in X : x >= y
  BY <1>4 DEF N
<1>6. Max(X) \in X /\ \A y \in X : Max(X) >= y
  BY <1>5 DEF Max
<1> QED BY <1>6

\* The minimum of two lengths, and of a set with a known least element.
LEMMA MinProperties ==
  /\ \A a, b \in Nat : Min({a, b}) \in Nat /\ Min({a, b}) <= a /\ Min({a, b}) <= b
  /\ \A X \in SUBSET Nat : \A m \in X : (\A y \in X : m <= y) => Min(X) = m
<1>1. ASSUME NEW a \in Nat, NEW b \in Nat
      PROVE  Min({a, b}) \in Nat /\ Min({a, b}) <= a /\ Min({a, b}) <= b
  <2>1. \E x \in {a, b} : \A y \in {a, b} : x <= y
    BY <1>1
  <2>2. Min({a, b}) \in {a, b} /\ \A y \in {a, b} : Min({a, b}) <= y
    BY <2>1 DEF Min
  <2> QED BY <2>2
<1>2. ASSUME NEW X \in SUBSET Nat, NEW m \in X, \A y \in X : m <= y PROVE Min(X) = m
  <2>1. Min(X) \in X /\ \A y \in X : Min(X) <= y
    BY <1>2 DEF Min
  <2>2. Min(X) <= m /\ m <= Min(X) /\ Min(X) \in Nat /\ m \in Nat
    BY <1>2, <2>1
  <2> HIDE <1>2
  <2> QED BY <2>2
<1> QED BY <1>1, <1>2

-----------------------------------------------------------------------------
(* Expansion of the placeholders.                                            *)

\* What Expand joins: one sequence per token.
Pieces(ids, token, held) ==
  [i \in DOMAIN ids |->
     IF ids[i] = token
     THEN [j \in 1 .. Size[held[Count(SubSeq(ids, 1, i), token)]] |-> token]
     ELSE <<ids[i]>>]

\* With a medium for every placeholder, the pieces are sequences of tokens.
LEMMA PiecesType ==
  ASSUME NEW T, NEW ids \in Seq(T), NEW token \in T, NEW held \in Seq(Contents),
         Count(ids, token) <= Len(held)
  PROVE  /\ Pieces(ids, token, held) \in Seq(Seq(T))
         /\ Len(Pieces(ids, token, held)) = Len(ids)
         /\ DOMAIN ids = 1 .. Len(ids)
<1>1. Len(ids) \in Nat /\ DOMAIN ids = 1 .. Len(ids) /\ \A i \in 1 .. Len(ids) : ids[i] \in T
  BY LenProperties, ElementOfSeq
<1>2. ASSUME NEW i \in 1 .. Len(ids), ids[i] = token
      PROVE  [j \in 1 .. Size[held[Count(SubSeq(ids, 1, i), token)]] |-> token] \in Seq(T)
  <2> DEFINE k == Count(SubSeq(ids, 1, i), token)
             z == Size[held[k]]
  <2>1. k \in 1 .. Count(ids, token) /\ Count(ids, token) \in Nat
    BY <1>2, CountProperties
  <2> HIDE DEF k
  <2>2. k \in 1 .. Len(held)
    BY <2>1, LenProperties
  <2>3. z \in Nat
    BY <2>2, ElementOfSeq, MediaAssumption
  <2> HIDE DEF z
  <2>4. [j \in 1 .. z |-> token] \in [1 .. z -> T]
    OBVIOUS
  <2>5. [j \in 1 .. z |-> token] \in Seq(T)
    BY <2>3, <2>4, SeqDef
  <2> QED BY <2>5 DEF z, k
<1>3. \A i \in 1 .. Len(ids) : <<ids[i]>> \in Seq(T)
  BY <1>1
<1>4. ASSUME NEW i \in 1 .. Len(ids) PROVE Pieces(ids, token, held)[i] \in Seq(T)
  <2>1. CASE ids[i] = token
    BY <1>1, <1>2, <2>1 DEF Pieces
  <2>2. CASE ids[i] # token
    BY <1>1, <1>3, <2>2 DEF Pieces
  <2> QED BY <2>1, <2>2
<1>5. Pieces(ids, token, held) \in [1 .. Len(ids) -> Seq(T)]
  <2>1. DOMAIN Pieces(ids, token, held) = 1 .. Len(ids)
    BY <1>1 DEF Pieces
  <2>2. Pieces(ids, token, held) = [i \in 1 .. Len(ids) |-> Pieces(ids, token, held)[i]]
    BY <1>1 DEF Pieces
  <2> HIDE DEF Pieces
  <2> QED BY <1>4, <2>2
<1>6. Pieces(ids, token, held) \in Seq(Seq(T))
  BY <1>1, <1>5, SeqDef, SMTT(30)
<1> QED BY <1>1, <1>5, <1>6, LenProperties

\* A tail without placeholders stays as it is, and nothing else is moved by it.
LEMMA ExpandConcat ==
  ASSUME NEW T, NEW a \in Seq(T), NEW b \in Seq(T), NEW token \in T,
         NEW held \in Seq(Contents), Count(a, token) <= Len(held),
         \A i \in 1 .. Len(b) : b[i] # token
  PROVE  /\ Expand(a, token, held) \in Seq(T)
         /\ Expand(a \o b, token, held) = Expand(a, token, held) \o b
<1>a. \A f, g \in Seq(Seq(T)) :
        /\ f \o g \in Seq(Seq(T)) /\ Len(f \o g) = Len(f) + Len(g)
        /\ \A i \in 1 .. Len(f) : (f \o g)[i] = f[i]
        /\ \A i \in 1 .. Len(g) : (f \o g)[Len(f) + i] = g[i]
  BY ConcatSlices
<1> DEFINE c == a \o b
           singles == [i \in DOMAIN b |-> <<b[i]>>]
           pa == Pieces(a, token, held)
           pc2 == Pieces(c, token, held)
<1>1. /\ c \in Seq(T) /\ Len(c) = Len(a) + Len(b)
      /\ \A i \in 1 .. Len(a) : c[i] = a[i]
      /\ \A i \in 1 .. Len(b) : c[Len(a) + i] = b[i]
  BY ConcatSlices
<1>2. Count(c, token) = Count(a, token)
  <2>1. \A x, y \in Seq(T) :
          Count(x \o y, token) = Count(x, token) <=> \A i \in 1 .. Len(y) : y[i] # token
    BY CountProperties
  <2> QED BY <2>1, Zenon
<1>3. /\ Len(a) \in Nat /\ Len(b) \in Nat
      /\ DOMAIN b = 1 .. Len(b)
  BY LenProperties
<1>4. pa \in Seq(Seq(T)) /\ Len(pa) = Len(a) /\ DOMAIN a = 1 .. Len(a)
  BY PiecesType
<1>5. pc2 \in Seq(Seq(T)) /\ Len(pc2) = Len(c) /\ DOMAIN c = 1 .. Len(c)
  <2> HIDE DEF c
  <2> QED BY <1>1, <1>2, PiecesType
<1>6. singles \in Seq(Seq(T)) /\ FlattenSeq(singles) = b
  BY FlattenSingletons
<1>7. Len(singles) = Len(b)
  <2>1. DOMAIN singles = 1 .. Len(b)
    BY <1>3
  <2> HIDE DEF singles
  <2> QED BY <1>3, <1>6, <2>1, LenProperties
<1>8. /\ pa \o singles \in Seq(Seq(T)) /\ Len(pa \o singles) = Len(c)
      /\ \A i \in 1 .. Len(a) : (pa \o singles)[i] = pa[i]
      /\ \A i \in 1 .. Len(b) : (pa \o singles)[Len(a) + i] = singles[i]
  <2> HIDE DEF pa, singles, c
  <2>1. /\ pa \o singles \in Seq(Seq(T)) /\ Len(pa \o singles) = Len(pa) + Len(singles)
        /\ \A i \in 1 .. Len(pa) : (pa \o singles)[i] = pa[i]
        /\ \A i \in 1 .. Len(singles) : (pa \o singles)[Len(pa) + i] = singles[i]
    BY <1>a, <1>4, <1>6
  <2> QED BY <1>1, <1>4, <1>7, <2>1
<1>9. ASSUME NEW i \in 1 .. Len(a) PROVE pc2[i] = pa[i]
  <2>1. i \in 1 .. Len(c) /\ c[i] = a[i]
    BY <1>1, <1>3
  <2>2. SubSeq(c, 1, i) = SubSeq(a, 1, i)
    <3>1. i \in 0 .. Len(a) /\ i \in 0 .. Len(c) /\ i \in Nat
      BY <1>1, <1>3
    <3>2. /\ SubSeq(a, 1, i) \in Seq(T) /\ Len(SubSeq(a, 1, i)) = i
          /\ \A j \in 1 .. i : SubSeq(a, 1, i)[j] = a[j]
      BY <3>1, Slices
    <3>3. /\ SubSeq(c, 1, i) \in Seq(T) /\ Len(SubSeq(c, 1, i)) = i
          /\ \A j \in 1 .. i : SubSeq(c, 1, i)[j] = c[j]
      <4> HIDE DEF c
      <4> QED BY <1>1, <3>1, Slices
    <3>4. \A j \in 1 .. i : j \in 1 .. Len(a)
      BY <1>3
    <3> HIDE DEF c
    <3>5. \A j \in 1 .. i : SubSeq(c, 1, i)[j] = SubSeq(a, 1, i)[j]
      BY <1>1, <3>2, <3>3, <3>4
    <3> QED BY <3>2, <3>3, <3>5, SeqEqual
  <2> HIDE DEF c
  <2> QED BY <1>4, <1>5, <2>1, <2>2 DEF Pieces
<1>10. ASSUME NEW i \in 1 .. Len(b) PROVE pc2[Len(a) + i] = singles[i]
  <2>1. Len(a) + i \in 1 .. Len(c) /\ c[Len(a) + i] = b[i] /\ b[i] # token
    BY <1>1, <1>3
  <2> HIDE DEF c
  <2> QED BY <1>3, <1>5, <2>1 DEF Pieces
<1>11. pc2 = pa \o singles
  <2> HIDE DEF pa, pc2, singles, c
  <2>1. ASSUME NEW i \in 1 .. Len(c) PROVE pc2[i] = (pa \o singles)[i]
    <3>1. CASE i <= Len(a)
      <4>1. i \in 1 .. Len(a)
        BY <3>1, <1>3
      <4> QED BY <1>8, <1>9, <4>1
    <3>2. CASE ~(i <= Len(a))
      <4>1. i - Len(a) \in 1 .. Len(b) /\ Len(a) + (i - Len(a)) = i
        BY <1>1, <1>3, <3>2
      <4> QED BY <1>8, <1>10, <4>1
    <3> QED BY <3>1, <3>2
  <2> QED BY <1>5, <1>8, <2>1, SeqEqual, ZenonT(40)
<1>12. Expand(a, token, held) = FlattenSeq(pa) /\ Expand(c, token, held) = FlattenSeq(pc2)
  BY DEF Expand, Pieces
<1> HIDE DEF pa, pc2, singles, c
<1>13. FlattenSeq(pc2) = FlattenSeq(pa) \o b
  BY <1>4, <1>6, <1>11, FlattenConcat
<1>14. FlattenSeq(pa) \in Seq(T)
  BY <1>4, FlattenAppend
<1> QED BY <1>12, <1>13, <1>14 DEF c

\* A tail of a sequence, cut in two.
LEMMA MiddleSlice ==
  ASSUME NEW S, NEW s \in Seq(S), NEW n \in Nat, NEW k \in Nat, n <= k, k <= Len(s)
  PROVE  /\ SubSeq(s, n + 1, k) \in Seq(S) /\ Len(SubSeq(s, n + 1, k)) = k - n
         /\ \A i \in 1 .. k - n : SubSeq(s, n + 1, k)[i] = s[n + i]
         /\ SubSeq(s, n + 1, Len(s)) = SubSeq(s, n + 1, k) \o SubSeq(s, k + 1, Len(s))
<1>a. \A f, g \in Seq(S) :
        /\ f \o g \in Seq(S) /\ Len(f \o g) = Len(f) + Len(g)
        /\ \A i \in 1 .. Len(f) : (f \o g)[i] = f[i]
        /\ \A i \in 1 .. Len(g) : (f \o g)[Len(f) + i] = g[i]
  BY ConcatSlices
<1> DEFINE l == Len(s)
           m == n + 1
           a == SubSeq(s, m, k)
           b == SubSeq(s, k + 1, l)
           c == SubSeq(s, m, l)
<1>1. l \in Nat /\ m \in Nat /\ m = n + 1 /\ k <= l /\ n <= l /\ \A i \in 1 .. l : s[i] \in S
  BY LenProperties, ElementOfSeq
<1>2. /\ b \in Seq(S) /\ Len(b) = l - k
      /\ \A i \in 1 .. l - k : b[i] = s[k + i]
  BY <1>1, Slices
<1>3. /\ c \in Seq(S) /\ Len(c) = l - n
      /\ \A i \in 1 .. l - n : c[i] = s[n + i]
  BY <1>1, Slices
<1> HIDE DEF l, m
<1>4. /\ a \in Seq(S) /\ Len(a) = k - n
      /\ \A i \in 1 .. k - n : a[i] = s[n + i]
  <2>1. \A i \in m .. k : s[i] \in S
    BY <1>1
  <2>2. /\ a \in Seq(S) /\ Len(a) = IF m <= k THEN k - m + 1 ELSE 0
        /\ \A i \in 1 .. k - m + 1 : a[i] = s[m + i - 1]
    BY <1>1, <2>1, SubSeqProperties
  <2>3. \A i \in 1 .. k - n : i \in 1 .. k - m + 1 /\ m + i - 1 = n + i
    BY <1>1
  <2>4. (IF m <= k THEN k - m + 1 ELSE 0) = k - n
    BY <1>1
  <2> HIDE DEF a
  <2> QED BY <2>2, <2>3, <2>4
<1> HIDE DEF a, b, c
<1>5. /\ a \o b \in Seq(S) /\ Len(a \o b) = Len(a) + Len(b)
      /\ \A i \in 1 .. Len(a) : (a \o b)[i] = a[i]
      /\ \A i \in 1 .. Len(b) : (a \o b)[Len(a) + i] = b[i]
  BY <1>a, <1>2, <1>4
<1>6. Len(a \o b) = Len(c)
  BY <1>1, <1>2, <1>3, <1>4, <1>5
<1>7. ASSUME NEW i \in 1 .. Len(c) PROVE c[i] = (a \o b)[i]
  <2>1. CASE i <= k - n
    <3>1. i \in 1 .. k - n /\ i \in 1 .. l - n
      BY <1>1, <1>3, <2>1
    <3> QED BY <1>3, <1>4, <1>5, <3>1
  <2>2. CASE ~(i <= k - n)
    <3> DEFINE j == i - (k - n)
    <3>1. j \in 1 .. l - k /\ (k - n) + j = i /\ k + j = n + i /\ i \in 1 .. l - n
      BY <1>1, <1>3, <2>2
    <3> HIDE DEF j
    <3>2. (a \o b)[i] = b[j]
      BY <1>2, <1>4, <1>5, <3>1
    <3> QED BY <1>2, <1>3, <3>1, <3>2
  <2> QED BY <2>1, <2>2
<1>8. c = a \o b
  BY <1>3, <1>5, <1>6, <1>7, SeqEqual
<1> QED BY <1>4, <1>8 DEF a, b, c, l, m

\* What the tokens of two texts share at the ends: parts that do not overlap.
LEMMA CommonEnds ==
  ASSUME NEW T, NEW old \in Seq(T), NEW new \in Seq(T)
  PROVE  LET prefix == CommonPrefix(old, new)
             suffix == CommonSuffix(old, new, prefix)
         IN  /\ prefix \in Nat /\ suffix \in Nat
             /\ prefix + suffix <= Len(old) /\ prefix + suffix <= Len(new)
             /\ SubSeq(old, 1, prefix) = SubSeq(new, 1, prefix)
             /\ LastTokens(old, suffix) = LastTokens(new, suffix)
<1> DEFINE m == Min({Len(old), Len(new)})
           prefix == CommonPrefix(old, new)
           suffix == CommonSuffix(old, new, prefix)
           A == {n \in 0 .. m : SubSeq(old, 1, n) = SubSeq(new, 1, n)}
           B == {n \in 0 .. (m - prefix) : LastTokens(old, n) = LastTokens(new, n)}
<1>1. Len(old) \in Nat /\ Len(new) \in Nat
  BY LenProperties
<1>2. m \in Nat /\ m <= Len(old) /\ m <= Len(new)
  BY <1>1, MinProperties
<1>3. prefix = Max(A)
  BY DEF CommonPrefix
<1>4. suffix = Max(B)
  BY DEF CommonSuffix
<1> HIDE DEF m, prefix, suffix
<1>5. prefix \in 0 .. m /\ SubSeq(old, 1, prefix) = SubSeq(new, 1, prefix)
  <2>1. SubSeq(old, 1, 0) = <<>> /\ SubSeq(new, 1, 0) = <<>>
    BY SubSeqEmpty
  <2>2. 0 \in A
    BY <1>2, <2>1
  <2>3. A \in SUBSET (0 .. m) /\ A # {}
    BY <2>2
  <2>4. Max(A) \in A
    <3> HIDE DEF A
    <3> QED BY <1>2, <2>3, MaxProperties
  <2> QED BY <1>3, <2>4
<1>6. suffix \in 0 .. m - prefix /\ LastTokens(old, suffix) = LastTokens(new, suffix)
  <2>1. LastTokens(old, 0) = <<>> /\ LastTokens(new, 0) = <<>>
    BY <1>1, SubSeqEmpty DEF LastTokens
  <2>2. m - prefix \in Nat
    BY <1>2, <1>5
  <2>3. 0 \in B
    BY <2>1, <2>2
  <2>4. B \in SUBSET (0 .. m - prefix) /\ B # {}
    BY <2>3
  <2>5. Max(B) \in B
    <3> HIDE DEF B
    <3> QED BY <2>2, <2>4, MaxProperties
  <2> QED BY <1>4, <2>5
<1>7. /\ prefix \in Nat /\ suffix \in Nat
      /\ prefix + suffix <= Len(old) /\ prefix + suffix <= Len(new)
  BY <1>1, <1>2, <1>5, <1>6
<1> QED BY <1>5, <1>6, <1>7 DEF prefix, suffix

\* The rebound tokens are those of the new text, expanded for the same media:
\* a rebinding that the code accepts is as good as a preparation.
LEMMA RebindIdsExact ==
  ASSUME NEW T, NEW old \in Seq(T), NEW new \in Seq(T), NEW token \in T,
         NEW held \in Seq(Contents), Count(old, token) <= Len(held),
         NEW prefix, prefix = CommonPrefix(old, new),
         NEW suffix, suffix = CommonSuffix(old, new, prefix),
         NEW ids, ids = Expand(old, token, held),
         Rebindable(ids, old, new, token, prefix, suffix)
  PROVE  /\ RebindIds(ids, old, new, prefix, suffix) = Expand(new, token, held)
         /\ Count(new, token) = Count(old, token)
<1>a. \A f, g, x \in Seq(T) : Join(Join(f, g), x) = Join(f, Join(g, x))
  BY JoinAssociative
<1>b. \A f, g \in Seq(T) :
        /\ f \o g \in Seq(T) /\ Len(f \o g) = Len(f) + Len(g)
        /\ SubSeq(f \o g, 1, Len(f)) = f
  BY ConcatSlices
<1>c. \A f, g \in Seq(T) :
        Count(f \o g, token) = Count(f, token) <=> \A i \in 1 .. Len(g) : g[i] # token
  BY CountProperties
<1>d. \A s \in Seq(T) : \A n, k \in Nat : n <= k /\ k <= Len(s) =>
        /\ SubSeq(s, n + 1, k) \in Seq(T)
        /\ SubSeq(s, n + 1, Len(s)) = SubSeq(s, n + 1, k) \o SubSeq(s, k + 1, Len(s))
  BY MiddleSlice, ZenonT(40)
<1> DEFINE P == SubSeq(old, 1, prefix)
           Ro == SubSeq(old, prefix + 1, Len(old))
           Rn == SubSeq(new, prefix + 1, Len(new))
           mid == SubSeq(new, prefix + 1, Len(new) - suffix)
           last == LastTokens(new, suffix)
           E == Expand(P, token, held)
<1>1. /\ prefix \in Nat /\ suffix \in Nat
      /\ prefix + suffix <= Len(old) /\ prefix + suffix <= Len(new)
      /\ SubSeq(old, 1, prefix) = SubSeq(new, 1, prefix)
      /\ LastTokens(old, suffix) = LastTokens(new, suffix)
  BY CommonEnds
<1>2. /\ Len(old) \in Nat /\ Len(new) \in Nat
      /\ prefix \in 0 .. Len(old) /\ prefix \in 0 .. Len(new)
      /\ Len(new) - suffix \in Nat /\ prefix <= Len(new) - suffix
      /\ Len(new) - suffix <= Len(new)
  BY <1>1, LenProperties
<1>3. /\ P \in Seq(T) /\ Len(P) = prefix /\ Ro \in Seq(T) /\ Len(Ro) = Len(old) - prefix
      /\ \A i \in 1 .. Len(old) - prefix : Ro[i] = old[prefix + i]
      /\ old = P \o Ro
  BY <1>2, Slices, ZenonT(40)
<1>4. Rn \in Seq(T) /\ new = P \o Rn
  BY <1>1, <1>2, Slices
<1>5. mid \in Seq(T) /\ Rn = mid \o last
  BY <1>d, <1>1, <1>2 DEF LastTokens
<1>6. last \in Seq(T)
  BY <1>2, Slices DEF LastTokens
<1>7. \A i \in 1 .. Len(Ro) : Ro[i] # token
  <2> DEFINE X == {0} \cup {i \in DOMAIN old : old[i] = token}
  <2>1. DOMAIN old = 1 .. Len(old)
    BY LenProperties
  <2>2. X \in SUBSET (0 .. Len(old)) /\ X # {}
    BY <1>2, <2>1
  <2>3. LastPlaceholder(old, token) = Max(X) /\ LastPlaceholder(old, token) <= prefix
    BY <1>1 DEF LastPlaceholder, Rebindable
  <2>4. \A y \in X : y <= Max(X)
    <3> HIDE DEF X
    <3> QED BY <1>2, <2>2, MaxProperties
  <2>5. ASSUME NEW i \in 1 .. Len(Ro), Ro[i] = token PROVE FALSE
    <3>1. prefix + i \in 1 .. Len(old) /\ old[prefix + i] = token
      <4>1. i \in 1 .. Len(old) - prefix
        BY <1>3
      <4>2. prefix + i \in 1 .. Len(old)
        <5>1. prefix \in Nat /\ Len(old) \in Nat
          BY <1>1, <1>2
        <5>2. i \in Int /\ 1 <= i /\ i <= Len(old) - prefix
          BY <4>1, <5>1
        <5> HIDE DEF X
        <5>3. prefix + i \in Int /\ 1 <= prefix + i /\ prefix + i <= Len(old)
          BY <5>1, <5>2
        <5> QED BY <5>1, <5>3
      <4> QED BY <1>3, <2>5, <4>1, <4>2
    <3>2. prefix + i \in X
      BY <2>1, <3>1
    <3>3. prefix + i <= Max(X) /\ Max(X) \in X
      <4> HIDE DEF X
      <4> QED BY <1>2, <2>2, <2>4, <3>2, MaxProperties
    <3>4. Max(X) \in Nat /\ Max(X) <= prefix
      BY <2>2, <2>3, <3>3
    <3> HIDE DEF X
    <3> QED BY <1>1, <3>3, <3>4
  <2> QED BY <2>5
<1> HIDE DEF P, Ro, Rn, mid, last
<1>8. Count(old, token) = Count(P, token)
  BY <1>c, <1>3, <1>7
<1>9. E \in Seq(T) /\ ids = E \o Ro
  BY <1>3, <1>7, <1>8, ExpandConcat, ZenonT(40)
<1> HIDE DEF E
<1>10. /\ prefix + Len(ids) - Len(old) = Len(E)
       /\ SubSeq(ids, 1, Len(E)) = E
  <2>1. Len(ids) = Len(E) + Len(Ro) /\ SubSeq(ids, 1, Len(E)) = E /\ Len(E) \in Nat
    BY <1>b, <1>3, <1>9, LenProperties
  <2> QED BY <1>2, <1>3, <2>1, SMTT(30)
<1>11. RebindIds(ids, old, new, prefix, suffix) = (E \o mid) \o last
  <2>1. LastTokens(ids, suffix) = last
    BY <1>1 DEF Rebindable, last
  <2> QED BY <1>10, <2>1 DEF RebindIds, mid
<1>12. (E \o mid) \o last = E \o Rn
  <2>1. Join(Join(E, mid), last) = Join(E, Join(mid, last))
    BY <1>a, <1>5, <1>6, <1>9, ZenonT(40)
  <2> QED BY <1>5, <2>1 DEF Join
<1>13. Count(E \o Rn, token) = Count(E, token)
  <2>1. Count(RebindIds(ids, old, new, prefix, suffix), token) = Count(ids, token)
    BY DEF Rebindable
  <2>2. Count(ids, token) = Count(E, token)
    BY <1>c, <1>3, <1>7, <1>9
  <2> QED BY <1>11, <1>12, <2>1, <2>2
<1>14. \A i \in 1 .. Len(Rn) : Rn[i] # token
  BY <1>c, <1>4, <1>9, <1>13
<1>15. Expand(new, token, held) = E \o Rn
  BY <1>3, <1>4, <1>8, <1>14, ExpandConcat, ZenonT(40) DEF E
<1>16. Count(new, token) = Count(P, token)
  BY <1>c, <1>3, <1>4, <1>14
<1> QED BY <1>8, <1>11, <1>12, <1>15, <1>16

-----------------------------------------------------------------------------
(* Where the question stands in the text.                                    *)

Between(f, g, h) == (f \o g) \o h

\* Replacing the first occurrence, when that is the one between a and b.
LEMMA ReplaceBetween ==
  ASSUME NEW S, NEW a \in Seq(S), NEW p \in Seq(S), NEW b \in Seq(S), NEW q \in Seq(S),
         p # <<>>, \A i \in 1 .. Len(a) : ~Occurs(Between(a, p, b), p, i)
  PROVE  ReplaceText(Between(a, p, b), p, q) = Between(a, q, b)
<1>a. \A f, g \in Seq(S) :
        /\ f \o g \in Seq(S) /\ Len(f \o g) = Len(f) + Len(g)
        /\ \A i \in 1 .. Len(f) : (f \o g)[i] = f[i]
        /\ \A i \in 1 .. Len(g) : (f \o g)[Len(f) + i] = g[i]
        /\ SubSeq(f \o g, 1, Len(f)) = f
        /\ SubSeq(f \o g, Len(f) + 1, Len(f \o g)) = g
  BY ConcatSlices
<1>b. \A f, g, x \in Seq(S) : Join(Join(f, g), x) = Join(f, Join(g, x))
  BY JoinAssociative
<1>c. \A s \in Seq(S) : \A m, k \in Nat : m <= k /\ k <= Len(s) =>
        /\ SubSeq(s, m + 1, k) \in Seq(S) /\ Len(SubSeq(s, m + 1, k)) = k - m
        /\ \A i \in 1 .. k - m : SubSeq(s, m + 1, k)[i] = s[m + i]
  BY MiddleSlice
<1> DEFINE n == Len(a)
           l == Len(p)
           pb == p \o b
           text == Between(a, p, b)
<1>0. text = (a \o p) \o b /\ \A i \in 1 .. Len(a) : ~Occurs(text, p, i)
  BY DEF Between
<1> HIDE DEF text
<1>1. n \in Nat /\ l \in Nat /\ Len(b) \in Nat /\ l # 0
  BY LenProperties, EmptySeq
<1>2. /\ a \o p \in Seq(S) /\ Len(a \o p) = n + l
      /\ pb \in Seq(S) /\ Len(pb) = l + Len(b)
      /\ SubSeq(pb, 1, l) = p
  BY <1>a
<1>3. /\ text \in Seq(S) /\ Len(text) = n + l + Len(b)
      /\ SubSeq(text, (n + l) + 1, Len(text)) = b
  <2> DEFINE f == a \o p
  <2>1. f \in Seq(S) /\ Len(f) = n + l /\ text = f \o b
    BY <1>0, <1>2
  <2> HIDE DEF f, n, l
  <2>2. Len(f \o b) = Len(f) + Len(b) /\ SubSeq(f \o b, Len(f) + 1, Len(f \o b)) = b
        /\ f \o b \in Seq(S)
    BY <1>a, <2>1
  <2> QED BY <2>1, <2>2
<1>4. text = a \o pb
  <2>1. Join(Join(a, p), b) = Join(a, Join(p, b))
    BY <1>b, ZenonT(40)
  <2> QED BY <1>0, <2>1 DEF Join
<1> HIDE DEF n, l, pb
<1>5. SubSeq(text, 1, n) = a /\ Len(text) \in Nat
      /\ \A i \in 1 .. Len(pb) : text[n + i] = pb[i]
  BY <1>a, <1>1, <1>2, <1>4, LenProperties DEF n
<1>6. Occurs(text, p, n + 1)
  <2>1. n + 1 + l - 1 <= Len(text) /\ n + 1 + l - 1 = n + l /\ n + l \in Int
    BY <1>1, <1>3
  <2> DEFINE k == n + l
             t == SubSeq(text, n + 1, k)
  <2>2. k \in Nat /\ n <= k /\ k <= Len(text) /\ k - n = l
    BY <1>1, <1>3
  <2>3. t \in Seq(S) /\ Len(t) = k - n /\ \A i \in 1 .. k - n : t[i] = text[n + i]
    BY <1>c, <1>1, <1>3, <2>2
  <2> HIDE DEF k, t
  <2>4. ASSUME NEW i \in 1 .. l PROVE t[i] = p[i]
    <3>1. i \in 1 .. Len(pb)
      BY <1>1, <1>2
    <3>2. pb[i] = p[i]
      BY <1>a DEF pb, l
    <3> QED BY <1>5, <2>2, <2>3, <3>1, <3>2
  <2>5. t = p
    BY <2>2, <2>3, <2>4, SeqEqual DEF l
  <2> QED BY <2>1, <2>5 DEF Occurs, t, k, l
<1>7. Min({i \in 1 .. (Len(text) + 1) : Occurs(text, p, i)}) = n + 1
  <2> DEFINE X == {i \in 1 .. (Len(text) + 1) : Occurs(text, p, i)}
  <2>1. X \in SUBSET Nat
    BY <1>5
  <2>2. n + 1 \in 1 .. (Len(text) + 1)
    BY <1>1, <1>3
  <2>3. n + 1 \in X
    BY <1>6, <2>2
  <2>4. ASSUME NEW y \in X PROVE n + 1 <= y
    <3>1. y \notin 1 .. n
      BY <1>0 DEF n
    <3> QED BY <1>1, <1>5, <3>1
  <2> HIDE DEF X
  <2>5. Min(X) = n + 1
    BY <2>1, <2>3, <2>4, MinProperties
  <2> QED BY <2>5 DEF X
<1>8. (n + 1) - 1 = n /\ (n + 1) + Len(p) = (n + l) + 1
  BY <1>1 DEF l
<1> QED BY <1>3, <1>5, <1>7, <1>8 DEF ReplaceText, Between, text

\* A part that occurs nowhere is counted zero times.
LEMMA CountNothing ==
  ASSUME NEW text, NEW part, Len(text) \in Nat, Len(part) \in Nat, part # <<>>,
         \A i \in 1 .. Len(text) : ~Occurs(text, part, i)
  PROVE  CountText(text, part) = 0
<1> DEFINE l == Len(text)
           N == l + Len(part) + 1
           IsCount(f) ==
             f = [i \in 1 .. N |-> IF i > l THEN 0
                                  ELSE IF Occurs(text, part, i) THEN 1 + f[i + Len(part)]
                                  ELSE f[i + 1]]
           cnt == CHOOSE f : IsCount(f)
           zero == [i \in 1 .. N |-> 0]
<1>1. CountText(text, part) = cnt[1]
  BY DEF CountText
<1>2. IsCount(zero)
  <2>1. ASSUME NEW i \in 1 .. N
        PROVE zero[i] = IF i > l THEN 0
                        ELSE IF Occurs(text, part, i) THEN 1 + zero[i + Len(part)]
                        ELSE zero[i + 1]
    <3>1. CASE i > l
      BY <3>1
    <3>2. CASE ~(i > l)
      <4>1. i \in 1 .. l /\ i + 1 \in 1 .. N
        BY <3>2
      <4> QED BY <3>2, <4>1
    <3> QED BY <3>1, <3>2
  <2> QED BY <2>1
<1>3. IsCount(cnt)
  BY <1>2
<1>4. l \in Nat /\ N \in Nat /\ l < N
  OBVIOUS
<1> HIDE DEF cnt, zero
<1> DEFINE Z == {k \in Nat : k <= l => cnt[l + 1 - k] = 0}
<1>5. 0 \in Z
  <2>1. l + 1 - 0 = l + 1 /\ l + 1 \in 1 .. N /\ l + 1 > l
    BY <1>4
  <2>2. cnt[l + 1] = 0
    BY <1>3, <2>1
  <2> QED BY <2>1, <2>2
<1>6. ASSUME NEW k \in Nat, k \in Z PROVE k + 1 \in Z
  <2> SUFFICES ASSUME k + 1 <= l PROVE cnt[l + 1 - (k + 1)] = 0
    OBVIOUS
  <2> DEFINE i == l - k
  <2>1. /\ i \in 1 .. l /\ i \in 1 .. N /\ ~(i > l)
        /\ l + 1 - (k + 1) = i /\ l + 1 - k = i + 1 /\ k <= l
    BY <1>4
  <2>2. cnt[i + 1] = 0
    BY <1>6, <2>1
  <2> HIDE DEF i
  <2>3. cnt[i] = cnt[i + 1]
    BY <1>3, <2>1
  <2> QED BY <2>1, <2>2, <2>3
<1> HIDE DEF Z
<1>7. \A k \in Nat : k \in Z
  BY <1>5, <1>6, NatSetInduction
<1>8. l \in Z
  BY <1>4, <1>7
<1>9. l <= l /\ l + 1 - l = 1
  BY <1>4
<1> QED BY <1>1, <1>8, <1>9 DEF Z

\* The symbols of a text; the literal ones are strings, but no prover knows.
Symbols == STRING \cup {"S", "P", "Q", "V", ">", "M", "E", "a"}

\* Texts of strings are texts of symbols, their tokens are made of symbols.
LEMMA SymbolTypes ==
  /\ \A s \in Seq(STRING) : s \in Seq(Symbols)
  /\ \A s \in Seq(Seq(STRING)) : s \in Seq(Seq(Symbols))
<1>1. STRING \subseteq Symbols
  BY DEF Symbols
<1> HIDE DEF Symbols
<1>2. \A s \in Seq(STRING) : s \in Seq(Symbols)
  BY <1>1, SeqMonotonic
<1>3. Seq(STRING) \subseteq Seq(Symbols)
  BY <1>2
<1>4. \A s \in Seq(Seq(STRING)) : s \in Seq(Seq(Symbols))
  BY <1>3, SeqMonotonic
<1> QED BY <1>2, <1>4

\* Short literal texts.
LEMMA LiteralType ==
  ASSUME NEW S, NEW a \in S, NEW b \in S, NEW c \in S, NEW d \in S
  PROVE  <<a, b>> \in Seq(S) /\ Len(<<a, b>>) = 2 /\ <<a, b, c, d>> \in Seq(S)
  OBVIOUS

\* The visual part of a template is text.
LEMMA TemplateType ==
  ASSUME NEW type, NEW n \in Nat
  PROVE  FlattenSeq([i \in 1 .. n |-> Visual(type)]) \in Seq(Symbols)
<1>1. Visual(type) \in Seq(Symbols)
  <2>1. "S" \in Symbols /\ VisualToken(type) \in Symbols /\ "V" \in Symbols /\ ">" \in Symbols
    BY DEF VisualToken, Symbols
  <2> QED BY <2>1, LiteralType DEF Visual
<1>2. [i \in 1 .. n |-> Visual(type)] \in [1 .. n -> Seq(Symbols)]
  BY <1>1
<1>3. [i \in 1 .. n |-> Visual(type)] \in Seq(Seq(Symbols))
  BY <1>2, SeqDef
<1> QED BY <1>3, FlattenAppend

\* The text of interleaved images has no markers left.
LEMMA InterleavedText ==
  ASSUME NEW prompt \in Seq(Symbols), NEW n
  PROVE  PromptText("interleaved_images", prompt, n) \in Seq(Symbols \ {"M"})
<1> DEFINE U == Symbols \ {"M"}
           pieces == [i \in DOMAIN prompt |->
                        IF prompt[i] = "M" THEN Visual("images") ELSE <<prompt[i]>>]
           text == PromptText("interleaved_images", prompt, n)
<1>1. Len(prompt) \in Nat /\ DOMAIN prompt = 1 .. Len(prompt)
      /\ \A i \in 1 .. Len(prompt) : prompt[i] \in Symbols
  BY LenProperties, ElementOfSeq
<1>2. pieces \in Seq(Seq(U))
  <2>1. Visual("images") \in Seq(U)
    <3>1. "S" \in U /\ VisualToken("images") \in U /\ "V" \in U /\ ">" \in U
      BY DEF VisualToken, Symbols
    <3> HIDE DEF U
    <3> QED BY <3>1, LiteralType DEF Visual
  <2>2. ASSUME NEW i \in 1 .. Len(prompt)
        PROVE  (IF prompt[i] = "M" THEN Visual("images") ELSE <<prompt[i]>>) \in Seq(U)
    <3>1. CASE prompt[i] = "M"
      BY <2>1, <3>1
    <3>2. CASE prompt[i] # "M"
      <4>1. prompt[i] \in U
        BY <1>1, <3>2
      <4> QED BY <3>2, <4>1
    <3> QED BY <3>1, <3>2
  <2>3. pieces \in [1 .. Len(prompt) -> Seq(U)]
    BY <1>1, <2>2
  <2> HIDE DEF pieces
  <2> QED BY <1>1, <2>3, SeqDef
<1>3. text = FlattenSeq(pieces) \o <<"E", "a">>
  BY DEF PromptText, PlaceAtMarkers
<1>4. text \in Seq(U)
  <2> HIDE DEF pieces, text
  <2>1. FlattenSeq(pieces) \in Seq(U)
    BY <1>2, FlattenAppend
  <2>2. <<"E", "a">> \in Seq(U)
    <3>1. "E" \in U /\ "a" \in U
      BY DEF Symbols
    <3> HIDE DEF U
    <3> QED BY <3>1, LiteralType
  <2> HIDE DEF U
  <2> QED BY <1>3, <2>1, <2>2, ConcatProperties
<1> QED BY <1>4

\* So it holds its own question nowhere: such an entry is never rebound.
LEMMA InterleavedNeverFound ==
  ASSUME NEW prompt \in Seq(Symbols), NEW n, Markers(prompt) # 0
  PROVE  CountText(PromptText("interleaved_images", prompt, n), prompt) = 0
<1> DEFINE U == Symbols \ {"M"}
           text == PromptText("interleaved_images", prompt, n)
<1>1. Len(prompt) \in Nat /\ DOMAIN prompt = 1 .. Len(prompt)
  BY LenProperties
<1>4. text \in Seq(U)
  BY InterleavedText
<1> HIDE DEF text
<1>5. PICK j \in 1 .. Len(prompt) : prompt[j] = "M"
  <2>1. {i \in DOMAIN prompt : prompt[i] = "M"} # {}
    BY FS_EmptySet DEF Markers
  <2> QED BY <1>1, <2>1
<1>6. prompt # <<>>
  BY <1>1, <1>5
<1>7. Len(text) \in Nat /\ \A i \in 1 .. Len(text) : text[i] \in U
  BY <1>4, LenProperties, ElementOfSeq
<1>8. ASSUME NEW i \in 1 .. Len(text), Occurs(text, prompt, i) PROVE FALSE
  <2> DEFINE m == i - 1
             k == m + Len(prompt)
             t == SubSeq(text, m + 1, k)
  <2>1. m \in Nat /\ k \in Nat /\ m <= k /\ m + 1 = i /\ k = i + Len(prompt) - 1 /\ k - m = Len(prompt)
    BY <1>1, <1>7
  <2>2. k <= Len(text) /\ t = prompt
    BY <1>8, <2>1 DEF Occurs
  <2> HIDE DEF m, k
  <2>3. \A h \in 1 .. k - m : t[h] = text[m + h]
    BY <1>4, <2>1, <2>2, MiddleSlice
  <2>4. t[j] = text[m + j] /\ m + j \in 1 .. Len(text)
    BY <1>1, <1>7, <2>1, <2>2, <2>3
  <2>5. text[m + j] # "M"
    BY <1>7, <2>4
  <2> QED BY <1>5, <2>2, <2>4, <2>5
<1>9. CountText(text, prompt) = 0
  BY <1>1, <1>6, <1>7, <1>8, CountNothing
<1> QED BY <1>9 DEF text

\* The text of every prompt is a text.
LEMMA PromptTextType ==
  ASSUME NEW type, NEW prompt \in Seq(Symbols), NEW n \in Nat
  PROVE  PromptText(type, prompt, n) \in Seq(Symbols)
<1>1. CASE type = "interleaved_images"
  <2>1. PromptText(type, prompt, n) \in Seq(Symbols \ {"M"})
    BY <1>1, InterleavedText
  <2>2. Symbols \ {"M"} \subseteq Symbols
    OBVIOUS
  <2> HIDE DEF Symbols
  <2> QED BY <2>1, <2>2, SeqMonotonic
<1>2. CASE type # "interleaved_images"
  <2> DEFINE a == FlattenSeq([i \in 1 .. n |-> Visual(type)])
             b == <<"E", "a">>
  <2>1. a \in Seq(Symbols)
    BY TemplateType
  <2>2. b \in Seq(Symbols)
    <3>1. "E" \in Symbols /\ "a" \in Symbols
      BY DEF Symbols
    <3> HIDE DEF Symbols
    <3> QED BY <3>1, LiteralType
  <2>3. PromptText(type, prompt, n) = (a \o prompt) \o b
    BY <1>2 DEF PromptText
  <2> HIDE DEF a, b, Symbols
  <2>4. a \o prompt \in Seq(Symbols)
    BY <2>1, ConcatProperties
  <2> QED BY <2>2, <2>3, <2>4, ConcatProperties
<1> QED BY <1>1, <1>2

\* A part that is counted once is found, and replacing it gives a text.
LEMMA ReplaceTextType ==
  ASSUME NEW S, NEW text \in Seq(S), NEW part \in Seq(S), NEW other \in Seq(S),
         CountText(text, part) = 1
  PROVE  ReplaceText(text, part, other) \in Seq(S)
<1> DEFINE X == {i \in 1 .. (Len(text) + 1) : Occurs(text, part, i)}
           at == Min(X)
<1>1. Len(text) \in Nat /\ Len(part) \in Nat
  BY LenProperties
<1>2. X # {}
  <2>1. CASE part = <<>>
    <3>1. Len(part) = 0
      BY <2>1
    <3>2. SubSeq(text, 1, 0) = <<>>
      <4>1. SubSeq(text, 1, 0) \in Seq(S) /\ Len(SubSeq(text, 1, 0)) = 0
        BY <1>1, Slices
      <4> QED BY <4>1, EmptySeq
    <3>3. Occurs(text, part, 1)
      BY <1>1, <2>1, <3>1, <3>2 DEF Occurs
    <3> QED BY <1>1, <3>3
  <2>2. CASE part # <<>>
    <3>1. PICK i \in 1 .. Len(text) : Occurs(text, part, i)
      BY <1>1, <2>2, CountNothing
    <3>2. i \in 1 .. (Len(text) + 1)
      BY <1>1
    <3> QED BY <3>1, <3>2
  <2> QED BY <2>1, <2>2
<1>3. X \subseteq Nat
  BY <1>1
<1>4. at \in X
  <2> HIDE DEF X
  <2>1. PICK x \in X : \A y \in X : ~(<<y, x>> \in OpToRel(<, Nat))
    BY <1>2, <1>3, WFMin, NatLessThanWellFounded
  <2>2. ASSUME NEW y \in X PROVE x <= y
    <3>1. x \in Nat /\ y \in Nat
      BY <1>3
    <3>2. ~(<<y, x>> \in OpToRel(<, Nat))
      BY <2>1
    <3>3. ~(y < x)
      BY <3>1, <3>2 DEF OpToRel
    <3> QED BY <3>1, <3>3
  <2>3. Min(X) = x
    BY <1>3, <2>2, MinProperties
  <2> QED BY <2>3
<1> DEFINE m == at - 1
           k == m + Len(part)
<1>5. m \in 0 .. Len(text) /\ k \in 0 .. Len(text) /\ at + Len(part) = k + 1
  <2>1. at \in 1 .. (Len(text) + 1) /\ at + Len(part) - 1 <= Len(text)
    BY <1>4 DEF Occurs
  <2> HIDE DEF at
  <2> QED BY <1>1, <2>1
<1>6. ReplaceText(text, part, other)
        = (SubSeq(text, 1, m) \o other) \o SubSeq(text, k + 1, Len(text))
  BY <1>5 DEF ReplaceText
<1> HIDE DEF at, X, m, k
<1>7. SubSeq(text, 1, m) \in Seq(S) /\ SubSeq(text, k + 1, Len(text)) \in Seq(S)
  BY <1>5, Slices
<1>8. SubSeq(text, 1, m) \o other \in Seq(S)
  BY <1>7, ConcatProperties
<1> QED BY <1>6, <1>7, <1>8, ConcatProperties

\* The text that the code makes of the text of another question about the same
\* media is the text the template would give.
LEMMA RebindTextExact ==
  ASSUME NEW r \in Requests, NEW s \in Requests, InPlace(s),
         RequestType(r) = RequestType(s), RequestType(s) # "interleaved_images",
         NEW n \in Nat, n = Objects(RequestType(s), Req[s].media),
         NEW text, text = PromptText(RequestType(s), Req[s].prompt, n),
         CountText(text, Req[s].prompt) = 1
  PROVE  ReplaceText(text, Req[s].prompt, Req[r].prompt)
           = PromptText(RequestType(r), Req[r].prompt, n)
<1> DEFINE a == FlattenSeq([i \in 1 .. n |-> Visual(RequestType(s))])
           b == <<"E", "a">>
           p == Req[s].prompt
           q == Req[r].prompt
<1>1. a \in Seq(Symbols) /\ b \in Seq(Symbols) /\ Len(b) = 2
  <2>1. "E" \in Symbols /\ "a" \in Symbols
    BY DEF Symbols
  <2> QED BY <2>1, TemplateType, LiteralType
<1>2. p \in Seq(Symbols) /\ q \in Seq(Symbols)
  BY MediaAssumption, SymbolTypes
<1>3. text = (a \o p) \o b /\ PromptText(RequestType(r), q, n) = (a \o q) \o b
  BY DEF PromptText
<1>4. \A i \in 1 .. Len(text) - Len(p) - 2 : ~Occurs(text, p, i)
  BY DEF InPlace
<1>5. CountText(text, p) = 1
  OBVIOUS
<1> HIDE DEF a, b, p, q
<1>6. Len(a) \in Nat /\ Len(p) \in Nat /\ Len(text) = Len(a) + Len(p) + 2 /\ Len(text) \in Nat
  <2>1. Len(a) \in Nat /\ Len(p) \in Nat
    BY <1>1, <1>2, LenProperties
  <2>2. a \o p \in Seq(Symbols) /\ Len(a \o p) = Len(a) + Len(p)
    BY <1>1, <1>2, ConcatProperties
  <2>3. Len((a \o p) \o b) = Len(a \o p) + Len(b)
    BY <1>1, <2>2, ConcatProperties
  <2> QED BY <1>1, <1>3, <2>1, <2>2, <2>3
<1>7. p # <<>>
  BY <1>5, <1>6 DEF CountText
<1>8. \A i \in 1 .. Len(a) : ~Occurs(text, p, i)
  <2>1. Len(text) - Len(p) - 2 = Len(a)
    BY <1>6
  <2> QED BY <1>4, <2>1
<1>9. ReplaceText(text, p, q) = (a \o q) \o b
  <2>1. text = Between(a, p, b)
    BY <1>3 DEF Between
  <2>2. ReplaceText(Between(a, p, b), p, q) = Between(a, q, b)
    BY <1>1, <1>2, <1>7, <1>8, <2>1, ReplaceBetween
  <2> QED BY <2>1, <2>2 DEF Between
<1> QED BY <1>3, <1>9 DEF p, q

-----------------------------------------------------------------------------
(* Rebinding as a whole.                                                     *)

\* Media that may stand for those of a request: contents, as many of them.
Fits(r, held) == held \in Seq(Contents) /\ Len(held) = Len(Req[r].media)

\* What Objects depends on is the number of media, not what they hold.
LEMMA ObjectsFit ==
  ASSUME NEW r \in Requests, NEW held, Fits(r, held)
  PROVE  /\ Objects(RequestType(r), held) = Objects(RequestType(r), Req[r].media)
         /\ Objects(RequestType(r), held) \in Nat
         /\ held # <<>> => Objects(RequestType(r), held) <= Len(held)
<1>1. Len(held) \in Nat /\ (held # <<>> => Len(held) # 0)
  BY EmptySeq, LenProperties DEF Fits
<1> QED BY <1>1 DEF Objects, Fits

\* What the tokenizer makes of a text is a sequence of tokens
\* (_tokenize_prompt_text returns a list of token ids, whatever the text).
TokenizerType == \A text \in Seq(Symbols) : Tokenize(text) \in Seq(Seq(Symbols))

\* An entry by its fields, and what the rebinding replaces in it.
Fields(p, t, k, v, i, f, h) ==
  [prompt |-> p, inputs |-> [text |-> t, token |-> k, pixels |-> v, ids |-> i],
   fingerprint |-> f, hashes |-> h]
Replaced(entry, p, t, i) ==
  [entry EXCEPT !.prompt = p, !.inputs.text = t, !.inputs.ids = i]

\* The rebinding replaces prompt, text and tokens and keeps the rest.
LEMMA ReplacedFields ==
  ASSUME NEW p, NEW t, NEW k, NEW v, NEW i, NEW f, NEW h, NEW p2, NEW t2, NEW i2
  PROVE  Replaced(Fields(p, t, k, v, i, f, h), p2, t2, i2) = Fields(p2, t2, k, v, i2, f, h)
<1> DEFINE x == [text |-> t, token |-> k, pixels |-> v, ids |-> i]
           y == [text |-> t2, token |-> k, pixels |-> v, ids |-> i]
           z == [text |-> t2, token |-> k, pixels |-> v, ids |-> i2]
           E(q, u) == [prompt |-> q, inputs |-> u, fingerprint |-> f, hashes |-> h]
<1>1. [x EXCEPT !.text = t2] = y
  OBVIOUS
<1>2. [y EXCEPT !.ids = i2] = z
  OBVIOUS
<1> HIDE DEF x, y, z
<1>3. [E(p, x) EXCEPT !.prompt = p2] = E(p2, x)
  OBVIOUS
<1>4. [E(p2, x) EXCEPT !.inputs = y] = E(p2, y)
  OBVIOUS
<1>5. [E(p2, y) EXCEPT !.inputs = z] = E(p2, z)
  OBVIOUS
<1>0. E(p2, x).inputs = x /\ E(p2, y).inputs = y
  OBVIOUS
<1> HIDE DEF E
<1>6. [E(p2, x) EXCEPT !.inputs.text = t2] = E(p2, y)
  <2>1. [E(p2, x) EXCEPT !.inputs.text = t2] = [E(p2, x) EXCEPT !.inputs = [E(p2, x).inputs EXCEPT !.text = t2]]
    OBVIOUS
  <2> QED BY <1>1, <1>4, <1>0, <2>1
<1>7. [E(p2, y) EXCEPT !.inputs.ids = i2] = E(p2, z)
  <2>1. [E(p2, y) EXCEPT !.inputs.ids = i2] = [E(p2, y) EXCEPT !.inputs = [E(p2, y).inputs EXCEPT !.ids = i2]]
    OBVIOUS
  <2> QED BY <1>2, <1>5, <1>0, <2>1
<1>8. [E(p, x) EXCEPT !.prompt = p2, !.inputs.text = t2, !.inputs.ids = i2]
      = [[[E(p, x) EXCEPT !.prompt = p2] EXCEPT !.inputs.text = t2] EXCEPT !.inputs.ids = i2]
  OBVIOUS
<1>9. [E(p, x) EXCEPT !.prompt = p2, !.inputs.text = t2, !.inputs.ids = i2] = E(p2, z)
  BY <1>3, <1>6, <1>7, <1>8
<1> QED BY <1>9 DEF E, x, z, Fields, Replaced

Token(s) == <<VisualToken(RequestType(s))>>
Text(s, held) ==
  PromptText(RequestType(s), Req[s].prompt, Objects(RequestType(s), held))

\* What is made of a text for the prompt and the media of a request.
Made(s, held, t) ==
  Fields(Req[s].prompt, t, Token(s), held, Expand(Tokenize(t), Token(s), held),
         Identity(RequestType(s), held), PerImageHashes(RequestType(s), held))

\* The texts it may be made of: as many placeholders as visual objects, and the
\* text of the request itself unless a question may overlap the template.
Right(s, held, t) ==
  /\ s \in Requests /\ Fits(s, held) /\ held # <<>>
  /\ t \in Seq(Symbols)
  /\ Count(Tokenize(t), Token(s)) = Objects(RequestType(s), held)
  /\ RequestType(s) = "interleaved_images" => Markers(Req[s].prompt) = Len(held)
  /\ QuestionsInPlace(RequestType(s), held) => t = Text(s, held)

\* The result of a request is made for it and these media.
ResultFor(r, h, e) == \E t : Right(r, h, t) /\ e = Made(r, h, t)

\* The text of a request is a text.
LEMMA TextType ==
  ASSUME NEW s \in Requests, NEW held, Fits(s, held)
  PROVE  Text(s, held) \in Seq(Symbols) /\ Token(s) \in Seq(Symbols)
<1>1. VisualToken(RequestType(s)) \in Symbols
  BY DEF VisualToken, Symbols
<1>2. Req[s].prompt \in Seq(Symbols)
  BY MediaAssumption, SymbolTypes
<1> HIDE DEF Symbols
<1>3. Objects(RequestType(s), held) \in Nat
  BY ObjectsFit
<1> QED BY <1>1, <1>2, <1>3, PromptTextType DEF Text, Token

\* Processing a request that does not fail makes it of its own text.
LEMMA ProcessMade ==
  ASSUME NEW s \in Requests, NEW held, Fits(s, held),
         ~ProcessFails(RequestType(s), Req[s].prompt, held)
  PROVE  /\ Process(RequestType(s), Req[s].prompt, held) = Made(s, held, Text(s, held))
         /\ Right(s, held, Text(s, held))
<1>1. Process(RequestType(s), Req[s].prompt, held) = Made(s, held, Text(s, held))
  BY DEF Process, Inputs, Made, Fields, Text, Token
<1>2. Text(s, held) \in Seq(Symbols)
  BY TextType
<1>3. Right(s, held, Text(s, held))
  BY <1>2 DEF Right, ProcessFails, Text, Token
<1> QED BY <1>1, <1>3

\* What is made of a right text is exact.
LEMMA MadeExact ==
  ASSUME NEW s, NEW held, NEW t, Right(s, held, t), NEW e, e = Made(s, held, t)
  PROVE  Exact(e, RequestType(s), Req[s].prompt, held)
<1> DEFINE ids == Expand(Tokenize(t), Token(s), held)
<1>1. /\ e.prompt = Req[s].prompt
      /\ e.inputs.text = t /\ e.inputs.token = Token(s)
      /\ e.inputs.pixels = held /\ e.inputs.ids = ids
      /\ e.fingerprint = Identity(RequestType(s), held)
      /\ e.hashes = PerImageHashes(RequestType(s), held)
  BY DEF Made, Fields
<1>2. Count(Tokenize(t), Token(s)) = Objects(RequestType(s), held)
  BY DEF Right
<1>3. ASSUME QuestionsInPlace(RequestType(s), held)
      PROVE  e = Process(RequestType(s), Req[s].prompt, held)
  <2>1. t = Text(s, held)
    BY <1>3 DEF Right
  <2> QED BY <2>1 DEF Process, Inputs, Made, Fields, Text, Token
<1>4. Token(s) = <<VisualToken(RequestType(s))>>
  BY DEF Token
<1> QED BY <1>1, <1>2, <1>3, <1>4 DEF Exact

\* The text of the rebinding is right for the other request, if its tokens keep
\* the number of placeholders.
LEMMA RebindTextRight ==
  ASSUME NEW r \in Requests, NEW s \in Requests, RequestType(r) = RequestType(s),
         NEW held, Fits(r, held), NEW t, Right(s, held, t),
         CountText(t, Req[s].prompt) = 1,
         NEW u, u = ReplaceText(t, Req[s].prompt, Req[r].prompt),
         QuestionsInPlace(RequestType(s), held)
  PROVE  u = Text(r, held) /\ RequestType(r) # "interleaved_images"
<1> DEFINE type == RequestType(s)
           n == Objects(type, held)
<1>1. t = PromptText(type, Req[s].prompt, n)
  BY DEF Right, Text
<1>2. Fits(s, held) /\ held # <<>>
  BY DEF Right
<1>3. type # "interleaved_images"
  <2> SUFFICES ASSUME type = "interleaved_images" PROVE FALSE
    OBVIOUS
  <2>1. Markers(Req[s].prompt) = Len(held)
    BY DEF Right
  <2>2. Markers(Req[s].prompt) # 0
    BY <1>2, <2>1, EmptySeq DEF Fits
  <2>3. Req[s].prompt \in Seq(Symbols)
    BY MediaAssumption, SymbolTypes
  <2>4. CountText(t, Req[s].prompt) = 0
    BY <1>1, <2>2, <2>3, InterleavedNeverFound
  <2> QED BY <2>4
<1>4. n \in Nat /\ n = Objects(type, Req[s].media)
  BY <1>2, ObjectsFit
<1>5. InPlace(s)
  BY <1>2 DEF QuestionsInPlace, Fits
<1>6. u = PromptText(RequestType(r), Req[r].prompt, n)
  BY <1>1, <1>3, <1>4, <1>5, RebindTextExact
<1> QED BY <1>3, <1>6 DEF Text

\* Rebinding what was made for one request for the prompt of another about the
\* same media: the tokens are those of the text made of the other, placeholders
\* and all, and this text is the other's own where questions are in place.
LEMMA RebindExact ==
  ASSUME TokenizerType, NEW r \in Requests, NEW s \in Requests,
         RequestType(r) = RequestType(s), NEW held, Fits(r, held),
         NEW t, Right(s, held, t), NEW made, made = Made(s, held, t),
         NEW e \in Rebind(made, Req[r].prompt)
  PROVE  ResultFor(r, held, e)
<1> DEFINE type == RequestType(s)
           token == Token(s)
           p1 == Req[s].prompt
           p2 == Req[r].prompt
           u == ReplaceText(t, p1, p2)
           old == Tokenize(t)
           new == Tokenize(u)
           ids == Expand(old, token, held)
           prefix == CommonPrefix(old, new)
           suffix == CommonSuffix(old, new, prefix)
           fp == Identity(type, held)
           hs == PerImageHashes(type, held)
<1>1. /\ made.prompt = p1 /\ made.inputs.text = t
      /\ made.inputs.token = token /\ made.inputs.ids = ids
      /\ made = Fields(p1, t, token, held, ids, fp, hs)
  BY DEF Made, Fields
<1>2. CountText(t, p1) = 1 /\ e \in RebindTokens(made, p2, u, old, new)
  BY <1>1 DEF Rebind
<1>3. /\ Rebindable(ids, old, new, token, prefix, suffix)
      /\ e = [made EXCEPT !.prompt = p2, !.inputs.text = u,
                          !.inputs.ids = RebindIds(ids, old, new, prefix, suffix)]
  BY <1>1, <1>2 DEF RebindTokens
<1>4. /\ t \in Seq(Symbols) /\ Fits(s, held) /\ held # <<>> /\ held \in Seq(Contents)
      /\ Count(old, token) = Objects(type, held)
  BY DEF Right, Fits
<1>5. u \in Seq(Symbols) /\ token \in Seq(Symbols)
  <2>1. p1 \in Seq(Symbols) /\ p2 \in Seq(Symbols)
    BY MediaAssumption, SymbolTypes
  <2>2. u \in Seq(Symbols)
    BY <1>2, <1>4, <2>1, ReplaceTextType
  <2>3. token \in Seq(Symbols)
    BY <1>4, TextType
  <2> QED BY <2>2, <2>3
<1>6. old \in Seq(Seq(Symbols)) /\ new \in Seq(Seq(Symbols))
  BY <1>4, <1>5 DEF TokenizerType
<1>7. Count(old, token) <= Len(held)
  BY <1>4, ObjectsFit
<1> HIDE DEF prefix, suffix, ids
<1>8. /\ RebindIds(ids, old, new, prefix, suffix) = Expand(new, token, held)
      /\ Count(new, token) = Count(old, token)
  <2> HIDE DEF old, new, token
  <2> QED BY <1>3, <1>4, <1>5, <1>6, <1>7, RebindIdsExact DEF prefix, suffix, ids
<1>9. e = Made(r, held, u)
  <2> DEFINE newids == Expand(new, token, held)
  <2>1. e = Replaced(made, p2, u, newids)
    <3> HIDE DEF type, token, p1, p2, u, old, new
    <3> QED BY <1>3, <1>8 DEF Replaced
  <2>2. Token(r) = token /\ Identity(RequestType(r), held) = fp
        /\ PerImageHashes(RequestType(r), held) = hs
    BY DEF Token
  <2> HIDE DEF token, newids, fp, hs, p1, p2, u
  <2>3. Replaced(made, p2, u, newids) = Fields(p2, u, token, held, newids, fp, hs)
    BY <1>1, ReplacedFields
  <2> QED BY <2>1, <2>2, <2>3 DEF Made, newids, p2, new
<1>10. QuestionsInPlace(RequestType(r), held) => u = Text(r, held)
  BY <1>2, RebindTextRight
<1>11. RequestType(r) = "interleaved_images" => FALSE
  <2> SUFFICES ASSUME RequestType(r) = "interleaved_images" PROVE FALSE
    OBVIOUS
  <2>1. \A x \in Requests : RequestType(x) = RequestType(s) => InPlace(x)
    BY DEF InPlace
  <2>2. QuestionsInPlace(RequestType(s), held)
    BY <2>1 DEF QuestionsInPlace
  <2> QED BY <1>2, <2>2, RebindTextRight
<1>12. Right(r, held, u)
  <2>1. Token(r) = token /\ Objects(RequestType(r), held) = Objects(type, held)
    BY DEF Token
  <2>2. Count(Tokenize(u), Token(r)) = Objects(RequestType(r), held)
    <3>1. Count(new, token) = Objects(type, held)
      BY <1>4, <1>8
    <3> QED BY <2>1, <3>1
  <2> HIDE DEF u
  <2> QED BY <1>4, <1>5, <1>10, <1>11, <2>2 DEF Right
<1> QED BY <1>9, <1>12 DEF ResultFor

-----------------------------------------------------------------------------
(* The invariant: what every slot of the cache and every thread holds is     *)
(* made of a right text, for media that fit.                                 *)

Answer(s, h, t) == [key |-> <<RequestType(s), h>>, entry |-> Made(s, h, t)]

Answers ==
  {x \in {Answer(s, h, t) : s \in Requests, h \in Seq(Contents), t \in Seq(Symbols)} :
     \E s \in Requests, h \in Seq(Contents), t \in Seq(Symbols) :
       Right(s, h, t) /\ x = Answer(s, h, t)}

OwnKey(r) == <<RequestType(r), Held(r)>>

OneSlotPerKey(list) == \A x, y \in Range(list) : x.key = y.key => x = y

\* The cache: slots with different keys, as many as fit.
SlotsInv(list) ==
  /\ list \in Seq(Answers)
  /\ IsInjective(list)
  /\ OneSlotPerKey(list)

States == {"new", "keyed", "missed", "found", "made", "done", "failed"}

\* A thread: its key is that of its media until it is done, what it found
\* belongs to that key, and what it made or returned is made for it.
ThreadInv(r) ==
  /\ pc[r] \in {"keyed", "missed", "found", "made"} => key[r] \in {NoKey, OwnKey(r)}
  /\ pc[r] = "found" =>
       key[r] = OwnKey(r) /\ [key |-> key[r], entry |-> cached[r]] \in Answers
  /\ pc[r] = "made" => ResultFor(r, Held(r), result[r])
  /\ pc[r] = "done" => ResultFor(r, ReadBy(r), result[r])

CacheInv ==
  /\ content \in [Media -> Contents]
  /\ pc \in [Requests -> States]
  /\ DOMAIN key = Requests /\ DOMAIN cached = Requests /\ DOMAIN result = Requests
  /\ SlotsInv(entries) /\ Len(entries) <= MaxEntries
  /\ \A r \in Requests : ThreadInv(r)

\* What the media of a request hold fits it.
LEMMA HeldFits ==
  ASSUME NEW r \in Requests, content \in [Media -> Contents]
  PROVE  Fits(r, Held(r))
<1> DEFINE m == Req[r].media
           h == [i \in DOMAIN m |-> content[m[i]]]
<1>1. m \in Seq(Media)
  BY MediaAssumption
<1>2. Len(m) \in Nat /\ DOMAIN m = 1 .. Len(m) /\ \A i \in 1 .. Len(m) : m[i] \in Media
  BY <1>1, LenProperties, ElementOfSeq
<1> HIDE DEF m
<1>3. h \in [1 .. Len(m) -> Contents]
  BY <1>2
<1>4. h \in Seq(Contents) /\ Len(h) = Len(m)
  BY <1>2, <1>3, SeqDef, LenProperties
<1> QED BY <1>4 DEF Fits, Held, m

\* The keys of the slots are not the key of opaque media.
LEMMA KeysDiffer ==
  /\ \A x \in Answers : x.key # NoKey
  /\ \A r \in Requests : OwnKey(r) # NoKey
<1>1. \A a, b, c : <<a, b>> # <<c>>
  <2>1. SUFFICES ASSUME NEW a, NEW b, NEW c, <<a, b>> = <<c>> PROVE FALSE
    OBVIOUS
  <2>2. DOMAIN <<a, b>> = 1 .. 2 /\ DOMAIN <<c>> = 1 .. 1
    OBVIOUS
  <2> QED BY <2>1, <2>2
<1>2. ASSUME NEW x \in Answers PROVE x.key # NoKey
  <2>1. PICK s \in Requests, h \in Seq(Contents), t \in Seq(Symbols) : x = Answer(s, h, t)
    BY DEF Answers
  <2> QED BY <1>1, <2>1 DEF Answer, NoKey
<1> QED BY <1>1, <1>2 DEF OwnKey, NoKey

\* What the slot of a key holds.
LEMMA AnswerFields ==
  ASSUME NEW x \in Answers
  PROVE  \E s \in Requests, h \in Seq(Contents), t \in Seq(Symbols) :
           /\ Right(s, h, t) /\ x = Answer(s, h, t)
           /\ x.key = <<RequestType(s), h>>
           /\ x.entry = Made(s, h, t)
           /\ x.entry.prompt = Req[s].prompt
<1>1. PICK s \in Requests, h \in Seq(Contents), t \in Seq(Symbols) :
        Right(s, h, t) /\ x = Answer(s, h, t)
  BY DEF Answers
<1>2. x.key = <<RequestType(s), h>> /\ x.entry = Made(s, h, t)
  BY <1>1 DEF Answer
<1>3. x.entry.prompt = Req[s].prompt
  BY <1>2 DEF Made, Fields
<1> QED BY <1>1, <1>2, <1>3

\* What two requests about the same media and with the same prompt are given
\* is the same.
LEMMA SamePrompt ==
  ASSUME NEW r \in Requests, NEW s \in Requests, NEW h, NEW t, Right(s, h, t),
         Fits(r, h), RequestType(r) = RequestType(s), Req[r].prompt = Req[s].prompt
  PROVE  ResultFor(r, h, Made(s, h, t))
<1>1. Token(r) = Token(s) /\ Text(r, h) = Text(s, h)
  BY DEF Token, Text
<1>2. Right(r, h, t) /\ Made(r, h, t) = Made(s, h, t)
  BY <1>1 DEF Right, Made
<1> QED BY <1>2 DEF ResultFor

\* The cache without the slot of a key.
LEMMA OthersProperties ==
  ASSUME NEW k, SlotsInv(entries)
  PROVE  /\ SlotsInv(Others(k))
         /\ \A x \in Range(Others(k)) : x.key # k
         /\ Len(Others(k)) = IF Find(k) = {} THEN Len(entries) ELSE Len(entries) - 1
<1>1. /\ Len(entries) \in Nat /\ DOMAIN entries = 1 .. Len(entries)
      /\ entries \in Seq(Answers) /\ IsInjective(entries) /\ OneSlotPerKey(entries)
  BY LenProperties DEF SlotsInv
<1>2. CASE Find(k) = {}
  BY <1>2 DEF Others, Find, Range, SlotsInv
<1>3. CASE Find(k) # {}
  <2> DEFINE i == CHOOSE j \in Find(k) : TRUE
             x == entries[i]
  <2>1. i \in Find(k)
    BY <1>3
  <2>2. x \in Range(entries) /\ x.key = k
    BY <2>1 DEF Find, Range
  <2>3. Others(k) = Without(entries, x)
    BY <1>3 DEF Others
  <2> HIDE DEF i, x
  <2>4. /\ Without(entries, x) \in Seq(Answers)
        /\ Range(Without(entries, x)) = Range(entries) \ {x}
        /\ IsInjective(Without(entries, x))
        /\ Len(Without(entries, x)) = Len(entries) - 1
    BY <1>1, <2>2, WithoutProperties
  <2>5. /\ OneSlotPerKey(Without(entries, x))
        /\ \A y \in Range(Without(entries, x)) : y.key # k
    BY <1>1, <2>2, <2>4 DEF OneSlotPerKey
  <2> QED BY <1>3, <2>3, <2>4, <2>5 DEF SlotsInv
<1> QED BY <1>2, <1>3

\* A slot appended under a key that no other slot has.
LEMMA AppendSlot ==
  ASSUME NEW list, SlotsInv(list), NEW x \in Answers,
         \A y \in Range(list) : y.key # x.key
  PROVE  SlotsInv(Append(list, x)) /\ Len(Append(list, x)) = Len(list) + 1
<1>1. list \in Seq(Answers) /\ IsInjective(list) /\ OneSlotPerKey(list) /\ x \notin Range(list)
  BY DEF SlotsInv
<1>2. /\ Append(list, x) \in Seq(Answers)
      /\ Range(Append(list, x)) = Range(list) \cup {x}
      /\ IsInjective(Append(list, x))
      /\ Len(Append(list, x)) = Len(list) + 1
  BY <1>1, AppendNewProperties
<1>3. OneSlotPerKey(Append(list, x))
  BY <1>1, <1>2 DEF OneSlotPerKey
<1> QED BY <1>2, <1>3 DEF SlotsInv

\* Dropping the oldest slots keeps the invariant of the others.
LEMMA DropOldest ==
  ASSUME NEW list, SlotsInv(list), Len(list) > MaxEntries
  PROVE  SlotsInv(LastTokens(list, MaxEntries)) /\ Len(LastTokens(list, MaxEntries)) = MaxEntries
<1> DEFINE n == Len(list) - MaxEntries
           t == LastTokens(list, MaxEntries)
<1>1. list \in Seq(Answers) /\ IsInjective(list) /\ OneSlotPerKey(list)
      /\ Len(list) \in Nat /\ DOMAIN list = 1 .. Len(list)
  BY LenProperties DEF SlotsInv
<1>2. MaxEntries \in Nat
  BY MediaAssumption
<1>3. n \in 0 .. Len(list) /\ Len(list) - n = MaxEntries /\ n \in Nat
  BY <1>1, <1>2
<1>4. t = SubSeq(list, n + 1, Len(list))
  BY DEF LastTokens
<1> HIDE DEF n, t
<1>5. /\ t \in Seq(Answers) /\ Len(t) = MaxEntries
      /\ \A i \in 1 .. MaxEntries : t[i] = list[n + i]
  BY <1>1, <1>3, <1>4, Slices
<1>6. DOMAIN t = 1 .. MaxEntries
  BY <1>5, LenProperties
<1>7. \A i \in 1 .. MaxEntries : n + i \in 1 .. Len(list)
  BY <1>1, <1>2, <1>3
<1>8. IsInjective(t)
  <2> SUFFICES ASSUME NEW i \in 1 .. MaxEntries, NEW j \in 1 .. MaxEntries, t[i] = t[j]
               PROVE i = j
    BY <1>6 DEF IsInjective
  <2>1. list[n + i] = list[n + j] /\ n + i \in 1 .. Len(list) /\ n + j \in 1 .. Len(list)
    BY <1>5, <1>7
  <2>2. n + i = n + j
    BY <1>1, <2>1 DEF IsInjective
  <2> QED BY <1>3, <2>2
<1>9. Range(t) \subseteq Range(list)
  BY <1>1, <1>5, <1>6, <1>7 DEF Range
<1>10. OneSlotPerKey(t)
  BY <1>1, <1>9 DEF OneSlotPerKey
<1> QED BY <1>5, <1>8, <1>10 DEF SlotsInv, t

\* Publishing an answer keeps the cache within its limit.
LEMMA InsertSlot ==
  ASSUME SlotsInv(entries), Len(entries) <= MaxEntries, NEW k, NEW e,
         [key |-> k, entry |-> e] \in Answers
  PROVE  SlotsInv(Insert(k, e)) /\ Len(Insert(k, e)) <= MaxEntries
<1> DEFINE x == [key |-> k, entry |-> e]
           new == Append(Others(k), x)
<1>1. SlotsInv(Others(k)) /\ \A y \in Range(Others(k)) : y.key # k
  BY OthersProperties
<1>2. SlotsInv(new)
  <2>1. x \in Answers /\ x.key = k
    OBVIOUS
  <2> HIDE DEF x
  <2> QED BY <1>1, <2>1, AppendSlot
<1>3. MaxEntries \in Nat /\ Len(new) \in Nat
  BY <1>2, MediaAssumption, LenProperties DEF SlotsInv
<1>4. Insert(k, e) = IF Len(new) > MaxEntries THEN LastTokens(new, MaxEntries) ELSE new
  BY DEF Insert
<1> HIDE DEF new
<1> QED BY <1>2, <1>3, <1>4, DropOldest

\* A hit moves its slot to the end.
LEMMA MoveSlot ==
  ASSUME SlotsInv(entries), Len(entries) <= MaxEntries, NEW k, NEW i \in Find(k)
  PROVE  /\ SlotsInv(Append(Others(k), entries[i]))
         /\ Len(Append(Others(k), entries[i])) <= MaxEntries
         /\ entries[i] \in Answers /\ entries[i].key = k
<1>1. Len(entries) \in Nat /\ DOMAIN entries = 1 .. Len(entries)
      /\ \A j \in 1 .. Len(entries) : entries[j] \in Answers
  BY LenProperties, ElementOfSeq DEF SlotsInv
<1>2. i \in DOMAIN entries /\ entries[i].key = k
  BY DEF Find
<1>3. entries[i] \in Answers
  BY <1>1, <1>2
<1>4. /\ SlotsInv(Others(k)) /\ \A y \in Range(Others(k)) : y.key # k
      /\ Len(Others(k)) = Len(entries) - 1
  BY <1>2, OthersProperties
<1>5. /\ SlotsInv(Append(Others(k), entries[i]))
      /\ Len(Append(Others(k), entries[i])) = Len(Others(k)) + 1
  BY <1>2, <1>3, <1>4, AppendSlot
<1>6. Len(Others(k)) + 1 = Len(entries)
  BY <1>1, <1>4
<1> QED BY <1>2, <1>3, <1>5, <1>6

\* A thread that a step does not touch, and whose media it leaves alone unless
\* the thread has not begun or has ended.
LEMMA OtherThread ==
  ASSUME NEW r \in Requests, ThreadInv(r), pc[r] \in States,
         Held(r)' = Held(r) \/ pc[r] \in {"new", "done", "failed"},
         pc'[r] = pc[r], key'[r] = key[r], cached'[r] = cached[r], result'[r] = result[r]
  PROVE  ThreadInv(r)'
<1>1. CASE pc[r] \in {"new", "failed"}
  BY <1>1 DEF ThreadInv
<1>2. CASE pc[r] = "done"
  <2>1. ReadBy(r)' = ReadBy(r)
    BY <1>2 DEF ReadBy
  <2> QED BY <1>2, <2>1 DEF ThreadInv
<1>3. CASE pc[r] \in {"keyed", "missed", "found", "made"}
  <2>1. Held(r)' = Held(r)
    BY <1>3
  <2>2. OwnKey(r)' = OwnKey(r)
    BY <2>1 DEF OwnKey
  <2> QED BY <1>3, <2>1, <2>2 DEF ThreadInv
<1> QED BY <1>1, <1>2, <1>3 DEF States

\* What a step of a thread has to show.
LEMMA ThreadStep ==
  ASSUME CacheInv, NEW r \in Requests, UNCHANGED content,
         SlotsInv(entries)', Len(entries') <= MaxEntries,
         NEW to \in States, pc' = [pc EXCEPT ![r] = to],
         DOMAIN key' = Requests, DOMAIN cached' = Requests, DOMAIN result' = Requests,
         \A s \in Requests \ {r} :
           key'[s] = key[s] /\ cached'[s] = cached[s] /\ result'[s] = result[s],
         ThreadInv(r)'
  PROVE  CacheInv'
<1>1. \A s \in Requests : Held(s)' = Held(s)
  BY DEF Held
<1>2. pc' \in [Requests -> States] /\ \A s \in Requests \ {r} : pc'[s] = pc[s]
  BY DEF CacheInv
<1>3. ASSUME NEW s \in Requests PROVE ThreadInv(s)'
  <2>1. CASE s = r
    BY <2>1
  <2>2. CASE s # r
    <3>1. ThreadInv(s) /\ pc[s] \in States
      BY DEF CacheInv
    <3> QED BY <1>1, <1>2, <2>2, <3>1, OtherThread
  <2> QED BY <2>1, <2>2
<1> QED BY <1>2, <1>3 DEF CacheInv

\* Every step preserves the invariant.
LEMMA CacheInvNext ==
  ASSUME TokenizerType, CacheInv, [Next]_vars
  PROVE  CacheInv'
<1> USE DEF CacheInv
<1>1. ASSUME NEW r \in Requests, Fingerprint(r) PROVE CacheInv'
  <2>1. Held(r)' = Held(r) /\ OwnKey(r)' = OwnKey(r)
    BY <1>1 DEF Fingerprint, Held, OwnKey
  <2>2. pc'[r] = "keyed" /\ key'[r] \in {NoKey, OwnKey(r)}
    BY <1>1 DEF Fingerprint, OwnKey
  <2>3. ThreadInv(r)'
    BY <2>1, <2>2 DEF ThreadInv
  <2>4. /\ DOMAIN key' = Requests
        /\ \A s \in Requests \ {r} : key'[s] = key[s]
    BY <1>1 DEF Fingerprint
  <2>5. "keyed" \in States
    BY DEF States
  <2> QED BY <1>1, <2>3, <2>4, <2>5, ThreadStep DEF Fingerprint
<1>2. ASSUME NEW r \in Requests, LookupMiss(r) PROVE CacheInv'
  <2>1. OwnKey(r)' = OwnKey(r)
    BY <1>2 DEF LookupMiss, Held, OwnKey
  <2>2. pc'[r] = "missed" /\ key'[r] \in {NoKey, OwnKey(r)}
    BY <1>2 DEF LookupMiss, ThreadInv
  <2>3. ThreadInv(r)'
    BY <2>1, <2>2 DEF ThreadInv
  <2>4. "missed" \in States
    BY DEF States
  <2> QED BY <1>2, <2>3, <2>4, ThreadStep DEF LookupMiss
<1>3. ASSUME NEW r \in Requests, LookupHit(r) PROVE CacheInv'
  <2>1. Held(r)' = Held(r) /\ OwnKey(r)' = OwnKey(r)
    BY <1>3 DEF LookupHit, Held, OwnKey
  <2>2. PICK i \in Find(key[r]) :
          /\ entries' = Append(Others(key[r]), entries[i])
          /\ cached' = [cached EXCEPT ![r] = entries[i].entry]
          /\ IF entries[i].entry.prompt = Req[r].prompt
             THEN /\ result' = [result EXCEPT ![r] = entries[i].entry]
                  /\ pc' = [pc EXCEPT ![r] = "done"]
             ELSE /\ pc' = [pc EXCEPT ![r] = "found"]
                  /\ UNCHANGED result
    BY <1>3 DEF LookupHit
  <2>3. /\ SlotsInv(entries') /\ Len(entries') <= MaxEntries
        /\ entries[i] \in Answers /\ entries[i].key = key[r]
    BY <2>2, MoveSlot
  <2>4. key' = key /\ key[r] = OwnKey(r)
    BY <1>3, <2>3, KeysDiffer DEF LookupHit, ThreadInv
  <2>5. PICK s \in Requests, h \in Seq(Contents), t \in Seq(Symbols) :
          /\ Right(s, h, t) /\ entries[i] = Answer(s, h, t)
          /\ entries[i].key = <<RequestType(s), h>>
          /\ entries[i].entry = Made(s, h, t)
          /\ entries[i].entry.prompt = Req[s].prompt
    BY <2>3, AnswerFields
  <2>6. RequestType(s) = RequestType(r) /\ h = Held(r)
    BY <2>3, <2>4, <2>5 DEF OwnKey
  <2>7. CASE entries[i].entry.prompt = Req[r].prompt
    <3>1. /\ result' = [result EXCEPT ![r] = entries[i].entry]
          /\ pc' = [pc EXCEPT ![r] = "done"]
      BY <2>2, <2>7
    <3>2. ResultFor(r, Held(r), result'[r])
      <4>1. Fits(r, h)
        BY <2>6, HeldFits
      <4>a. Right(s, h, t) /\ RequestType(r) = RequestType(s) /\ Req[r].prompt = Req[s].prompt
        BY <2>5, <2>6, <2>7
      <4>2. ResultFor(r, h, Made(s, h, t))
        BY <4>1, <4>a, SamePrompt
      <4>3. result'[r] = Made(s, h, t)
        BY <2>5, <3>1
      <4> QED BY <2>6, <4>2, <4>3
    <3>3. ReadBy(r)' = Held(r)
      BY <2>4, KeysDiffer DEF ReadBy, OwnKey
    <3>4. ThreadInv(r)'
      BY <3>1, <3>2, <3>3 DEF ThreadInv
    <3>5. "done" \in States
      BY DEF States
    <3> QED BY <1>3, <2>2, <2>3, <3>1, <3>4, <3>5, ThreadStep DEF LookupHit
  <2>8. CASE entries[i].entry.prompt # Req[r].prompt
    <3>1. pc' = [pc EXCEPT ![r] = "found"] /\ UNCHANGED result
      BY <2>2, <2>8
    <3>2. cached'[r] = entries[i].entry
      BY <2>2
    <3>3. [key |-> key[r], entry |-> cached'[r]] = entries[i]
      BY <2>3, <2>5, <3>2 DEF Answer
    <3>4. ThreadInv(r)'
      BY <2>1, <2>3, <2>4, <3>1, <3>3 DEF ThreadInv
    <3>5. "found" \in States
      BY DEF States
    <3> QED BY <1>3, <2>2, <2>3, <3>1, <3>4, <3>5, ThreadStep DEF LookupHit
  <2> QED BY <2>7, <2>8
<1>4. ASSUME NEW r \in Requests, RebindPrompt(r) PROVE CacheInv'
  <2>1. Held(r)' = Held(r) /\ OwnKey(r)' = OwnKey(r)
    BY <1>4 DEF RebindPrompt, Held, OwnKey
  <2>2. PICK e \in Rebind(cached[r], Req[r].prompt) : result' = [result EXCEPT ![r] = e]
    BY <1>4 DEF RebindPrompt
  <2>3. key[r] = OwnKey(r) /\ [key |-> key[r], entry |-> cached[r]] \in Answers
    BY <1>4 DEF RebindPrompt, ThreadInv
  <2>4. PICK s \in Requests, h \in Seq(Contents), t \in Seq(Symbols) :
          /\ Right(s, h, t)
          /\ key[r] = <<RequestType(s), h>>
          /\ cached[r] = Made(s, h, t)
    <3> DEFINE x == [key |-> key[r], entry |-> cached[r]]
    <3>1. x \in Answers /\ x.key = key[r] /\ x.entry = cached[r]
      BY <2>3
    <3> HIDE DEF x
    <3> QED BY <3>1, AnswerFields
  <2>5. RequestType(s) = RequestType(r) /\ h = Held(r)
    BY <2>3, <2>4 DEF OwnKey
  <2>6. Fits(r, Held(r))
    BY HeldFits
  <2>7. ResultFor(r, Held(r), e)
    <3>1. Fits(r, h) /\ RequestType(r) = RequestType(s)
      BY <2>5, <2>6
    <3>2. ResultFor(r, h, e)
      BY <2>2, <2>4, <3>1, RebindExact
    <3> QED BY <2>5, <3>2
  <2>8. ResultFor(r, Held(r), result'[r])
    BY <2>2, <2>7
  <2>9. pc'[r] = "made" /\ key' = key
    BY <1>4 DEF RebindPrompt
  <2>10. ThreadInv(r)'
    BY <2>1, <2>3, <2>8, <2>9 DEF ThreadInv
  <2>11. "made" \in States
    BY DEF States
  <2> QED BY <1>4, <2>2, <2>10, <2>11, ThreadStep DEF RebindPrompt
<1>5. ASSUME NEW r \in Requests, ProcessMedia(r) PROVE CacheInv'
  <2>1. Held(r)' = Held(r) /\ OwnKey(r)' = OwnKey(r)
    BY <1>5 DEF ProcessMedia, Held, OwnKey
  <2>2. pc[r] \in {"missed", "found"} /\ key' = key
    BY <1>5 DEF ProcessMedia, MustProcess
  <2>3. key[r] \in {NoKey, OwnKey(r)}
    BY <2>2 DEF ThreadInv
  <2>4. ResultFor(r, Held(r), result'[r]) /\ pc'[r] = "made"
    <3>1. Fits(r, Held(r)) /\ ~ProcessFails(RequestType(r), Req[r].prompt, Held(r))
      BY <1>5, HeldFits DEF ProcessMedia
    <3>2. /\ Process(RequestType(r), Req[r].prompt, Held(r)) = Made(r, Held(r), Text(r, Held(r)))
          /\ Right(r, Held(r), Text(r, Held(r)))
      BY <3>1, ProcessMade
    <3>3. result'[r] = Process(RequestType(r), Req[r].prompt, Held(r)) /\ pc'[r] = "made"
      BY <1>5 DEF ProcessMedia
    <3> QED BY <3>2, <3>3 DEF ResultFor
  <2>5. ThreadInv(r)'
    BY <2>1, <2>2, <2>3, <2>4 DEF ThreadInv
  <2>6. "made" \in States
    BY DEF States
  <2> QED BY <1>5, <2>5, <2>6, ThreadStep DEF ProcessMedia
<1>6. ASSUME NEW r \in Requests, ProcessRaises(r) PROVE CacheInv'
  <2>1. pc'[r] = "failed"
    BY <1>6 DEF ProcessRaises
  <2>2. ThreadInv(r)'
    BY <2>1 DEF ThreadInv
  <2>3. "failed" \in States
    BY DEF States
  <2> QED BY <1>6, <2>2, <2>3, ThreadStep DEF ProcessRaises
<1>7. ASSUME NEW r \in Requests, Publish(r) PROVE CacheInv'
  <2>1. Held(r)' = Held(r)
    BY <1>7 DEF Publish, Held
  <2>2. /\ pc[r] = "made" /\ ResultFor(r, Held(r), result[r])
        /\ key[r] \in {NoKey, OwnKey(r)}
    BY <1>7 DEF Publish, ThreadInv
  <2>t. PICK t : Right(r, Held(r), t) /\ result[r] = Made(r, Held(r), t)
    BY <2>2 DEF ResultFor
  <2>3. SlotsInv(entries') /\ Len(entries') <= MaxEntries
    <3>1. CASE key[r] = NoKey
      BY <1>7, <3>1 DEF Publish
    <3>2. CASE key[r] # NoKey
      <4>1. entries' = Insert(key[r], result[r]) /\ key[r] = OwnKey(r)
        BY <1>7, <2>2, <3>2 DEF Publish
      <4>2. [key |-> key[r], entry |-> result[r]] = Answer(r, Held(r), t)
        BY <2>t, <4>1 DEF Answer, OwnKey
      <4>3. [key |-> key[r], entry |-> result[r]] \in Answers
        BY <2>t, <4>2 DEF Answers, Right, Fits
      <4> QED BY <4>1, <4>3, InsertSlot
    <3> QED BY <3>1, <3>2
  <2>4. ReadBy(r)' = Held(r)
    <3>1. key' = key /\ result' = result /\ pc'[r] = "done"
      BY <1>7 DEF Publish
    <3>2. result[r].inputs.pixels = Held(r)
      BY <2>t DEF Made, Fields
    <3> QED BY <2>2, <3>1, <3>2, KeysDiffer DEF ReadBy, OwnKey
  <2>5. ThreadInv(r)'
    BY <1>7, <2>2, <2>4 DEF Publish, ThreadInv
  <2>6. "done" \in States
    BY DEF States
  <2> QED BY <1>7, <2>3, <2>5, <2>6, ThreadStep DEF Publish
<1>8. ASSUME Clear PROVE CacheInv'
  <2>1. SlotsInv(entries') /\ Len(entries') <= MaxEntries
    BY <1>8, NoElements, MediaAssumption DEF Clear, SlotsInv, OneSlotPerKey
  <2>2. ASSUME NEW r \in Requests PROVE ThreadInv(r)'
    <3>1. Held(r)' = Held(r)
      BY <1>8 DEF Clear, Held
    <3> QED BY <1>8, <3>1, OtherThread DEF Clear
  <2> QED BY <1>8, <2>1, <2>2 DEF Clear
<1>9. ASSUME NEW m \in Media, Mutate(m) PROVE CacheInv'
  <2>1. content' \in [Media -> Contents]
    BY <1>9 DEF Mutate
  <2>2. ASSUME NEW r \in Requests PROVE ThreadInv(r)'
    <3>1. CASE m \in ToSet(Req[r].media)
      <4>1. pc[r] \in {"new", "done", "failed"}
        BY <1>9, <3>1 DEF Mutate
      <4> QED BY <1>9, <4>1, OtherThread DEF Mutate
    <3>2. CASE m \notin ToSet(Req[r].media)
      <4>1. \A i \in DOMAIN Req[r].media : Req[r].media[i] # m
        BY <3>2 DEF ToSet
      <4>2. \A i \in DOMAIN Req[r].media : content'[Req[r].media[i]] = content[Req[r].media[i]]
        <5>1. \A i \in DOMAIN Req[r].media : Req[r].media[i] \in Media
          BY MediaAssumption, LenProperties, ElementOfSeq
        <5> QED BY <1>9, <4>1, <5>1 DEF Mutate
      <4>3. Held(r)' = Held(r)
        BY <4>2 DEF Held
      <4> QED BY <1>9, <4>3, OtherThread DEF Mutate
    <3> QED BY <3>1, <3>2
  <2> QED BY <1>9, <2>1, <2>2 DEF Mutate
<1>10. CASE UNCHANGED vars
  <2>1. ASSUME NEW r \in Requests PROVE ThreadInv(r)'
    <3>1. Held(r)' = Held(r)
      BY <1>10 DEF vars, Held
    <3> QED BY <1>10, <3>1, OtherThread DEF vars
  <2> QED BY <1>10, <2>1 DEF vars, SlotsInv
<1> QED BY <1>1, <1>2, <1>3, <1>4, <1>5, <1>6, <1>7, <1>8, <1>9, <1>10 DEF Next

\* The invariant says that every result is exact.
LEMMA CacheInvImplies ==
  ASSUME CacheInv
  PROVE  ResultsExact
<1> USE DEF CacheInv
<1>1. /\ Len(entries) \in Nat /\ DOMAIN entries = 1 .. Len(entries)
      /\ \A i \in 1 .. Len(entries) : entries[i] \in Answers
  BY LenProperties, ElementOfSeq DEF SlotsInv
<1>2. ASSUME NEW i \in DOMAIN entries, NEW j \in DOMAIN entries,
             entries[i].key = entries[j].key
      PROVE  i = j
  <2>1. entries[i] = entries[j]
    BY <1>2 DEF SlotsInv, OneSlotPerKey, Range
  <2> QED BY <2>1 DEF SlotsInv, IsInjective
<1>3. ASSUME NEW i \in DOMAIN entries
      PROVE  Exact(entries[i].entry, entries[i].key[1], entries[i].entry.prompt,
                   entries[i].key[2])
  <2>1. PICK s \in Requests, h \in Seq(Contents), t \in Seq(Symbols) :
          /\ Right(s, h, t)
          /\ entries[i].key = <<RequestType(s), h>>
          /\ entries[i].entry = Made(s, h, t)
          /\ entries[i].entry.prompt = Req[s].prompt
    BY <1>1, AnswerFields
  <2>2. entries[i].key[1] = RequestType(s) /\ entries[i].key[2] = h
    BY <2>1
  <2>3. Exact(entries[i].entry, RequestType(s), Req[s].prompt, h)
    BY <2>1, MadeExact
  <2> QED BY <2>1, <2>2, <2>3
<1>4. EntriesHoldTheirContent
  BY <1>2, <1>3 DEF EntriesHoldTheirContent
<1>5. ASSUME NEW r \in Requests, pc[r] \in {"made", "done"}
      PROVE  Exact(result[r], RequestType(r), Req[r].prompt, ReadBy(r))
  <2>0. ASSUME NEW h, ResultFor(r, h, result[r])
        PROVE  Exact(result[r], RequestType(r), Req[r].prompt, h)
    <3>1. PICK t : Right(r, h, t) /\ result[r] = Made(r, h, t)
      BY <2>0 DEF ResultFor
    <3> QED BY <3>1, MadeExact
  <2>1. CASE pc[r] = "done"
    BY <2>0, <2>1 DEF ThreadInv
  <2>2. CASE pc[r] = "made"
    <3>1. ReadBy(r) = Held(r)
      <4>1. key[r] \in {NoKey, OwnKey(r)}
        BY <2>2 DEF ThreadInv
      <4>2. CASE key[r] = NoKey
        BY <2>2, <4>2 DEF ReadBy
      <4>3. CASE key[r] # NoKey
        <5>1. key[r] = OwnKey(r) /\ OwnKey(r)[2] = Held(r)
          BY <4>1, <4>3 DEF OwnKey
        <5> QED BY <4>3, <5>1 DEF ReadBy
      <4> QED BY <4>2, <4>3
    <3> QED BY <2>0, <2>2, <3>1 DEF ThreadInv
  <2> QED BY <1>5, <2>1, <2>2
<1> QED BY <1>4, <1>5 DEF ResultsExact

\* Whatever the tokenizer, the requests, the questions and the interleaving, every
\* request gets the media, identities and tokens that preparing its text alone
\* would give: from a hit, a rebinding, a lost race or opaque media
\* (MediaPreprocessingCache.prepare, _rebind_cached_media_prompt).  Its text is
\* that of its prompt unless a question of its key overlaps the template.
THEOREM CacheResultsExact ==
  ASSUME TokenizerType
  PROVE  Spec => []ResultsExact
<1>1. Init => CacheInv
  <2> SUFFICES ASSUME Init PROVE CacheInv
    OBVIOUS
  <2>1. SlotsInv(entries) /\ Len(entries) <= MaxEntries
    BY NoElements, MediaAssumption DEF Init, SlotsInv, OneSlotPerKey
  <2>2. \A r \in Requests : ThreadInv(r)
    BY DEF Init, ThreadInv
  <2>3. pc \in [Requests -> States]
    BY DEF Init, States
  <2> QED BY <2>1, <2>2, <2>3 DEF Init, CacheInv
<1>2. CacheInv /\ [Next]_vars => CacheInv'
  BY CacheInvNext
<1>3. CacheInv => ResultsExact
  BY CacheInvImplies
<1> QED BY <1>1, <1>2, <1>3, PTL DEF Spec
=============================================================================
