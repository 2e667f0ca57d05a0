----------------------------- MODULE DequeProofs -----------------------------
(***************************************************************************)
(* Lemmas that the proof modules share: induction over the naturals, and    *)
(* what the operations of a duplicate-free deque do to its elements.        *)
(***************************************************************************)
EXTENDS Deques, Functions, SequenceTheorems, FiniteSetTheorems, WellFoundedInduction, TLAPS

-----------------------------------------------------------------------------
(* Induction over the natural numbers, for sets: the least counterexample.   *)

LEMMA NatSetInduction ==
  ASSUME NEW S, 0 \in S, \A n \in Nat : n \in S => n + 1 \in S
  PROVE  \A n \in Nat : n \in S
<1> DEFINE T == Nat \ S
<1>1. SUFFICES ASSUME T # {} PROVE FALSE
  OBVIOUS
<1>2. PICK x \in T : \A y \in T : ~(<<y, x>> \in OpToRel(<, Nat))
  <2> HIDE DEF T
  <2>1. IsWellFoundedOn(OpToRel(<, Nat), Nat)
    BY NatLessThanWellFounded
  <2>2. T \subseteq Nat
    BY DEF T
  <2> QED BY <1>1, <2>1, <2>2, WFMin
<1>3. x \in Nat /\ x # 0
  OBVIOUS
<1>4. x - 1 \in Nat /\ x - 1 < x
  BY <1>3
<1>5. x - 1 \in T
  <2>1. x - 1 \in S => x - 1 + 1 \in S
    BY <1>4
  <2> QED BY <1>3, <1>4, <2>1
<1>6. <<x - 1, x>> \in OpToRel(<, Nat)
  BY <1>3, <1>4 DEF OpToRel
<1> QED BY <1>2, <1>5, <1>6

-----------------------------------------------------------------------------
(* Deques.                                                                   *)

\* Removing an element that occurs once removes it and keeps the others.
LEMMA WithoutProperties ==
  ASSUME NEW S, NEW s \in Seq(S), IsInjective(s), NEW x \in Range(s)
  PROVE  /\ Without(s, x) \in Seq(S)
         /\ Range(Without(s, x)) = Range(s) \ {x}
         /\ IsInjective(Without(s, x))
         /\ Len(Without(s, x)) = Len(s) - 1
<1> DEFINE i == CHOOSE k \in DOMAIN s : s[k] = x
           t == [k \in 1 .. Len(s) - 1 |-> IF k < i THEN s[k] ELSE s[k + 1]]
<1>1. Len(s) \in Nat /\ DOMAIN s = 1 .. Len(s) /\ \A k \in 1 .. Len(s) : s[k] \in S
  BY LenProperties, ElementOfSeq
<1>2. i \in DOMAIN s /\ s[i] = x
  BY DEF Range
<1>3. Without(s, x) = t
  BY DEF Without
<1>4. Len(s) - 1 \in Nat
  BY <1>1, <1>2
<1> HIDE DEF i
<1>5. t \in [1 .. Len(s) - 1 -> S]
  BY <1>1, <1>2, <1>4
<1>6. t \in Seq(S) /\ Len(t) = Len(s) - 1
  BY <1>4, <1>5, SeqDef, LenProperties
<1>7. Range(t) \subseteq Range(s) \ {x}
  BY <1>1, <1>2, <1>4 DEF Range, IsInjective
<1>8. ASSUME NEW y \in Range(s) \ {x} PROVE y \in Range(t)
  <2>1. PICK k \in DOMAIN s : s[k] = y
    BY DEF Range
  <2>2. k # i
    BY <1>2, <2>1
  <2>3. CASE k < i
    BY <1>1, <1>2, <1>4, <2>1, <2>3 DEF Range
  <2>4. CASE k > i
    <3>1. k - 1 \in DOMAIN t /\ t[k - 1] = y
      BY <1>1, <1>2, <1>4, <2>1, <2>4
    <3> QED BY <3>1 DEF Range
  <2> QED BY <1>1, <1>2, <2>1, <2>2, <2>3, <2>4
<1>9. IsInjective(t)
  BY <1>1, <1>2, <1>4 DEF IsInjective
<1> QED BY <1>3, <1>6, <1>7, <1>8, <1>9

\* popleft of a duplicate-free deque: the head leaves, the others stay.
LEMMA PopLeftProperties ==
  ASSUME NEW S, NEW s \in Seq(S), IsInjective(s), s # <<>>
  PROVE  /\ Head(s) \in S /\ Head(s) \in Range(s)
         /\ Tail(s) \in Seq(S)
         /\ Range(Tail(s)) = Range(s) \ {Head(s)}
         /\ IsInjective(Tail(s))
         /\ Len(s) > 0
         /\ Len(Tail(s)) = Len(s) - 1
<1>1. Len(s) \in Nat /\ DOMAIN s = 1 .. Len(s) /\ \A k \in 1 .. Len(s) : s[k] \in S
  BY LenProperties, ElementOfSeq
<1>2. Len(s) # 0
  BY EmptySeq
<1>3. /\ Head(s) = s[1] /\ Tail(s) \in Seq(S) /\ Len(Tail(s)) = Len(s) - 1
      /\ \A k \in 1 .. Len(Tail(s)) : Tail(s)[k] = s[k + 1]
  BY <1>1, <1>2, HeadTailProperties
<1>4. DOMAIN Tail(s) = 1 .. Len(s) - 1
  BY <1>1, <1>3, LenProperties
<1>5. IsInjective(Tail(s))
  BY <1>1, <1>3, <1>4 DEF IsInjective
<1>6. Range(Tail(s)) \subseteq Range(s) \ {Head(s)}
  BY <1>1, <1>2, <1>3, <1>4 DEF Range, IsInjective
<1>7. ASSUME NEW y \in Range(s) \ {Head(s)} PROVE y \in Range(Tail(s))
  <2>1. PICK k \in 1 .. Len(s) : s[k] = y
    BY <1>1 DEF Range
  <2>2. k # 1
    BY <1>3, <2>1
  <2>3. k - 1 \in 1 .. Len(s) - 1 /\ Tail(s)[k - 1] = y
    BY <1>1, <1>3, <2>1, <2>2
  <2> QED BY <1>4, <2>3 DEF Range
<1>8. 1 \in 1 .. Len(s)
  BY <1>1, <1>2
<1>9. Head(s) \in S /\ Head(s) \in Range(s)
  BY <1>1, <1>3, <1>8 DEF Range
<1>10. Range(Tail(s)) = Range(s) \ {Head(s)}
  BY <1>6, <1>7
<1> QED BY <1>1, <1>2, <1>3, <1>5, <1>9, <1>10

\* append of a new element to a duplicate-free deque.
LEMMA AppendNewProperties ==
  ASSUME NEW S, NEW s \in Seq(S), IsInjective(s), NEW x \in S, x \notin Range(s)
  PROVE  /\ Append(s, x) \in Seq(S)
         /\ Range(Append(s, x)) = Range(s) \cup {x}
         /\ IsInjective(Append(s, x))
         /\ Len(Append(s, x)) = Len(s) + 1
<1>1. Len(s) \in Nat /\ DOMAIN s = 1 .. Len(s)
  BY LenProperties
<1>2. /\ Append(s, x) \in Seq(S) /\ Len(Append(s, x)) = Len(s) + 1
      /\ \A k \in 1 .. Len(s) : Append(s, x)[k] = s[k]
      /\ Append(s, x)[Len(s) + 1] = x
  BY AppendProperties
<1>3. DOMAIN Append(s, x) = 1 .. Len(s) + 1
  BY <1>2, LenProperties
<1>4. Range(Append(s, x)) = Range(s) \cup {x}
  BY <1>1, <1>2, <1>3 DEF Range
<1>5. IsInjective(Append(s, x))
  BY <1>1, <1>2, <1>3 DEF IsInjective, Range
<1> QED BY <1>2, <1>4, <1>5

\* The empty deque is the one of length 0 and the one without elements.
LEMMA EmptyProperties ==
  ASSUME NEW S, NEW s \in Seq(S)
  PROVE  /\ Len(s) \in Nat
         /\ s = <<>> <=> Len(s) = 0
         /\ s = <<>> <=> Range(s) = {}
<1>1. Len(s) \in Nat /\ DOMAIN s = 1 .. Len(s)
  BY LenProperties
<1>2. s = <<>> <=> Len(s) = 0
  BY EmptySeq
<1>3. ASSUME Len(s) # 0 PROVE Range(s) # {}
  <2>1. 1 \in DOMAIN s
    BY <1>1, <1>3
  <2> QED BY <2>1 DEF Range
<1>4. ASSUME Len(s) = 0 PROVE Range(s) = {}
  <2>1. DOMAIN s = {}
    BY <1>1, <1>4
  <2> QED BY <2>1 DEF Range
<1> QED BY <1>1, <1>2, <1>3, <1>4

\* The empty deque has no elements and no duplicates.
LEMMA NoElements ==
  ASSUME NEW S
  PROVE <<>> \in Seq(S) /\ Range(<<>>) = {} /\ IsInjective(<<>>) /\ Len(<<>>) = 0
  BY EmptySeq DEF Range, IsInjective

\* Those(queue, S) is the value of a recursive function that exists.
LEMMA ThoseExist ==
  ASSUME NEW queue, NEW S, Len(queue) \in Nat
  PROVE  \E f : /\ Those(queue, S) = f[Len(queue)]
                /\ f[0] = <<>>
                /\ \A k \in 1 .. Len(queue) :
                     f[k] = IF queue[k] \in S THEN Append(f[k - 1], queue[k]) ELSE f[k - 1]
<1> DEFINE n == Len(queue)
           Step(f, k) == IF k = 0 THEN <<>>
                         ELSE IF queue[k] \in S THEN Append(f[k - 1], queue[k]) ELSE f[k - 1]
           N == {m \in Nat : m <= n => \E f : f = [k \in 0 .. m |-> Step(f, k)]}
           F == CHOOSE f : f = [k \in 0 .. n |-> Step(f, k)]
<1>1. 0 \in N
  <2> DEFINE g == [k \in 0 .. 0 |-> <<>>]
  <2>1. g = [k \in 0 .. 0 |-> Step(g, k)]
    OBVIOUS
  <2> QED BY <2>1
<1>2. ASSUME NEW m \in Nat, m \in N PROVE m + 1 \in N
  <2> SUFFICES ASSUME m + 1 <= n PROVE \E f : f = [k \in 0 .. m + 1 |-> Step(f, k)]
    OBVIOUS
  <2>1. PICK g : g = [k \in 0 .. m |-> Step(g, k)]
    BY <1>2
  <2> DEFINE h == [k \in 0 .. m + 1 |-> IF k = m + 1 THEN Step(g, m + 1) ELSE g[k]]
  <2>2. ASSUME NEW k \in 0 .. m + 1 PROVE h[k] = Step(h, k)
    <3>1. k # 0 => k - 1 \in 0 .. m /\ h[k - 1] = g[k - 1]
      OBVIOUS
    <3>2. k # m + 1 => g[k] = Step(g, k)
      <4>1. k # m + 1 => k \in 0 .. m
        OBVIOUS
      <4> QED BY <2>1, <4>1
    <3>3. h[k] = Step(g, k)
      BY <3>2
    <3> QED BY <3>1, <3>3
  <2>3. h = [k \in 0 .. m + 1 |-> Step(h, k)]
    BY <2>2
  <2> QED BY <2>3
<1>3. \A m \in Nat : m \in N
  <2> HIDE DEF N
  <2> QED BY <1>1, <1>2, NatSetInduction
<1>4. \E f : f = [k \in 0 .. n |-> Step(f, k)]
  <2>1. n \in N /\ n <= n
    <3> HIDE DEF N
    <3> QED BY <1>3
  <2> QED BY <2>1
<1>5. F = [k \in 0 .. n |-> Step(F, k)]
  BY <1>4
<1>6. Those(queue, S) = F[n]
  BY DEF Those
<1> HIDE DEF F
<1>7. F[0] = <<>> /\ \A k \in 1 .. n : F[k] = Step(F, k)
  <2>1. \A k \in 0 .. n : F[k] = Step(F, k)
    BY <1>5
  <2>2. 0 \in 0 .. n /\ \A k \in 1 .. n : k \in 0 .. n
    OBVIOUS
  <2>3. F[0] = Step(F, 0)
    BY <2>1, <2>2
  <2> QED BY <2>1, <2>2, <2>3
<1> QED BY <1>6, <1>7

\* Those(queue, S) keeps exactly the members of S, without new duplicates.
LEMMA ThoseProperties ==
  ASSUME NEW R, NEW queue \in Seq(R), IsInjective(queue), NEW S
  PROVE  /\ Those(queue, S) \in Seq(R)
         /\ IsInjective(Those(queue, S))
         /\ Range(Those(queue, S)) = Range(queue) \cap S
<1> DEFINE n == Len(queue)
<1>1. n \in Nat /\ DOMAIN queue = 1 .. n /\ \A k \in 1 .. n : queue[k] \in R
  BY LenProperties, ElementOfSeq
<1>2. PICK f : /\ Those(queue, S) = f[n]
               /\ f[0] = <<>>
               /\ \A k \in 1 .. n :
                    f[k] = IF queue[k] \in S THEN Append(f[k - 1], queue[k]) ELSE f[k - 1]
  <2>1. Len(queue) \in Nat
    BY <1>1
  <2>2. \E f : /\ Those(queue, S) = f[Len(queue)]
               /\ f[0] = <<>>
               /\ \A k \in 1 .. Len(queue) :
                    f[k] = IF queue[k] \in S THEN Append(f[k - 1], queue[k]) ELSE f[k - 1]
    BY <2>1, ThoseExist
  <2> QED BY <2>2
<1> DEFINE Kept(m) == {queue[i] : i \in 1 .. m} \cap S
           Good(m) == f[m] \in Seq(R) /\ IsInjective(f[m]) /\ Range(f[m]) = Kept(m)
           N == {m \in Nat : m <= n => Good(m)}
<1>3. 0 \in N
  <2>1. Kept(0) = {}
    OBVIOUS
  <2> QED BY <1>2, <2>1, NoElements
<1>4. ASSUME NEW m \in Nat, m \in N PROVE m + 1 \in N
  <2> SUFFICES ASSUME m + 1 <= n PROVE Good(m + 1)
    OBVIOUS
  <2>1. Good(m) /\ m + 1 \in 1 .. n /\ (m + 1) - 1 = m
    BY <1>1, <1>4
  <2>2. queue[m + 1] \in R /\ queue[m + 1] \notin Kept(m)
    BY <1>1, <2>1 DEF IsInjective
  <2>3. f[m + 1] = IF queue[m + 1] \in S THEN Append(f[m], queue[m + 1]) ELSE f[m]
    BY <1>2, <2>1
  <2>4. Kept(m + 1) = IF queue[m + 1] \in S THEN Kept(m) \cup {queue[m + 1]} ELSE Kept(m)
    <3>1. {queue[i] : i \in 1 .. m + 1} = {queue[i] : i \in 1 .. m} \cup {queue[m + 1]}
      <4>1. \A i : i \in 1 .. m + 1 <=> i \in 1 .. m \/ i = m + 1
        OBVIOUS
      <4> QED BY <4>1
    <3> QED BY <3>1
  <2> HIDE DEF Kept
  <2>5. CASE queue[m + 1] \in S
    <3>1. f[m] \in Seq(R) /\ IsInjective(f[m]) /\ queue[m + 1] \notin Range(f[m])
      BY <2>1, <2>2
    <3>2. /\ Append(f[m], queue[m + 1]) \in Seq(R)
          /\ IsInjective(Append(f[m], queue[m + 1]))
          /\ Range(Append(f[m], queue[m + 1])) = Range(f[m]) \cup {queue[m + 1]}
      BY <2>2, <3>1, AppendNewProperties
    <3>3. f[m + 1] = Append(f[m], queue[m + 1])
      BY <2>3, <2>5
    <3>4. Range(f[m]) \cup {queue[m + 1]} = Kept(m + 1)
      BY <2>1, <2>4, <2>5
    <3> QED BY <3>2, <3>3, <3>4
  <2>6. CASE queue[m + 1] \notin S
    BY <2>1, <2>3, <2>4, <2>6
  <2> QED BY <2>5, <2>6
<1>5. \A m \in Nat : m \in N
  <2> HIDE DEF N
  <2> QED BY <1>3, <1>4, NatSetInduction
<1>6. Good(n)
  <2>1. n \in N /\ n <= n
    <3> HIDE DEF N
    <3> QED BY <1>1, <1>5
  <2> QED BY <2>1
<1>7. Kept(n) = Range(queue) \cap S
  BY <1>1 DEF Range
<1> QED BY <1>2, <1>6, <1>7

\* Duplicate-free queues without a common element can be joined.
LEMMA JoinProperties ==
  ASSUME NEW R, NEW p \in Seq(R), NEW q \in Seq(R), IsInjective(p), IsInjective(q),
         Range(p) \cap Range(q) = {}
  PROVE  /\ p \o q \in Seq(R) /\ IsInjective(p \o q)
         /\ Range(p \o q) = Range(p) \cup Range(q)
<1> DEFINE m == Len(p)
           n == Len(q)
           t == p \o q
<1>1. /\ m \in Nat /\ DOMAIN p = 1 .. m
      /\ n \in Nat /\ DOMAIN q = 1 .. n
  BY LenProperties
<1>2. /\ t \in Seq(R) /\ Len(t) = m + n
      /\ \A k \in 1 .. m + n : t[k] = IF k <= m THEN p[k] ELSE q[k - m]
  BY ConcatProperties
<1>3. DOMAIN t = 1 .. m + n
  BY <1>2, LenProperties
<1> HIDE DEF t
<1>4. ASSUME NEW j \in 1 .. m + n, NEW k \in 1 .. m + n, t[j] = t[k]
      PROVE  j = k
  <2>1. j <= m => t[j] = p[j] /\ p[j] \in Range(p) /\ j \in 1 .. m
    BY <1>1, <1>2 DEF Range
  <2>q. \A i \in 1 .. m + n : i > m => i - m \in 1 .. n /\ q[i - m] \in Range(q)
    BY <1>1 DEF Range
  <2>2. j > m => t[j] = q[j - m] /\ q[j - m] \in Range(q) /\ j - m \in 1 .. n
    BY <1>1, <1>2, <2>q
  <2>3. k <= m => t[k] = p[k] /\ p[k] \in Range(p) /\ k \in 1 .. m
    BY <1>1, <1>2 DEF Range
  <2>4. k > m => t[k] = q[k - m] /\ q[k - m] \in Range(q) /\ k - m \in 1 .. n
    BY <1>1, <1>2, <2>q
  <2>5. CASE j <= m /\ k <= m
    BY <1>1, <1>4, <2>1, <2>3, <2>5 DEF IsInjective
  <2>6. CASE j > m /\ k > m
    BY <1>1, <1>4, <2>2, <2>4, <2>6 DEF IsInjective
  <2>7. ~(j <= m /\ k > m) /\ ~(j > m /\ k <= m)
    BY <1>4, <2>1, <2>2, <2>3, <2>4
  <2> QED BY <1>1, <2>5, <2>6, <2>7
<1>5. Range(t) = Range(p) \cup Range(q)
  <2>1. ASSUME NEW k \in 1 .. m + n PROVE t[k] \in Range(p) \cup Range(q)
    <3>1. CASE k <= m
      <4>1. k \in 1 .. m /\ t[k] = p[k]
        BY <1>1, <1>2, <3>1
      <4> QED BY <1>1, <4>1 DEF Range
    <3>2. CASE k > m
      <4>1. k - m \in 1 .. n /\ t[k] = q[k - m]
        BY <1>1, <1>2, <3>2
      <4> QED BY <1>1, <4>1 DEF Range
    <3> QED BY <1>1, <3>1, <3>2
  <2>2. \A k \in 1 .. m : k \in 1 .. m + n /\ t[k] = p[k]
    BY <1>1, <1>2
  <2>3. \A k \in 1 .. n : k + m \in 1 .. m + n /\ t[k + m] = q[k]
    BY <1>1, <1>2
  <2>4. Range(p) \subseteq Range(t)
    BY <1>1, <1>3, <2>2 DEF Range
  <2>5. Range(q) \subseteq Range(t)
    BY <1>1, <1>3, <2>3 DEF Range
  <2>6. Range(t) \subseteq Range(p) \cup Range(q)
    BY <1>3, <2>1 DEF Range
  <2> QED BY <2>4, <2>5, <2>6
<1>6. IsInjective(t)
  BY <1>3, <1>4 DEF IsInjective
<1> QED BY <1>2, <1>5, <1>6 DEF t

\* A queue without duplicates has as many elements as places.
LEMMA InjectiveCardinality ==
  ASSUME NEW S, NEW q \in Seq(S), IsInjective(q)
  PROVE  IsFiniteSet(Range(q)) /\ Cardinality(Range(q)) = Len(q)
<1> DEFINE n == Len(q)
<1>1. n \in Nat /\ DOMAIN q = 1 .. n /\ q \in [1 .. n -> S]
  BY LenProperties
<1>2. IsFiniteSet(1 .. n) /\ Cardinality(1 .. n) = n
  <2>1. 1 \in Int /\ n \in Int /\ (IF 1 > n THEN 0 ELSE n - 1 + 1) = n
    BY <1>1
  <2> QED BY <2>1, FS_Interval
<1>3. q \in Bijection(1 .. n, Range(q))
  BY <1>1 DEF Bijection, Injection, Surjection, Range
<1>4. ExistsBijection(1 .. n, Range(q))
  BY <1>3 DEF ExistsBijection
<1> QED BY <1>2, <1>4, FS_Bijection
=============================================================================
