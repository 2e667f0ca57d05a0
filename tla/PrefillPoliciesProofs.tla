------------------------ MODULE PrefillPoliciesProofs -------------------------
(* Proofs about PrefillPolicies: without deadlines (the fcfs and the         *)
(* vision-aware policy) a heavy request at the head of the queue is passed   *)
(* at most as often as configured between two heavy batches, whatever the    *)
(* requests, the limits and the order of submissions, cancellations, pauses  *)
(* and preemptions.                                                          *)
EXTENDS PrefillPolicies, DequeProofs, FiniteSetTheorems

-----------------------------------------------------------------------------
(* Queues without duplicates.                                                *)

\* The two libraries' names of the elements of a sequence.
LEMMA ToSetRange == \A q : ToSet(q) = Range(q)
BY DEF ToSet, Range

\* Removing the place i of a duplicate-free queue removes its element, and keeps the head
\* if it is another place.
LEMMA RemoveAtProperties ==
  ASSUME NEW R, NEW q \in Seq(R), IsInjective(q), NEW i \in 1 .. Len(q)
  PROVE  /\ RemoveAt(q, i) \in Seq(R)
         /\ IsInjective(RemoveAt(q, i))
         /\ Range(RemoveAt(q, i)) = Range(q) \ {q[i]}
         /\ i # 1 => RemoveAt(q, i) # <<>> /\ Head(RemoveAt(q, i)) = Head(q)
<1> DEFINE n == Len(q)
           a == SubSeq(q, 1, i - 1)
           b == SubSeq(q, i + 1, n)
           t == [k \in 1 .. n - 1 |-> IF k < i THEN q[k] ELSE q[k + 1]]
<1>1. n \in Nat /\ DOMAIN q = 1 .. n /\ \A k \in 1 .. n : q[k] \in R
  BY LenProperties, ElementOfSeq
<1>2. /\ a \in Seq(R) /\ Len(a) = i - 1
      /\ \A k \in 1 .. i - 1 : a[k] = q[k]
  <2>1. 1 \in Int /\ i - 1 \in Int /\ \A k \in 1 .. i - 1 : q[k] \in R
    BY <1>1
  <2> QED BY <1>1, <2>1, SubSeqProperties
<1>3. /\ b \in Seq(R) /\ Len(b) = n - i
      /\ \A k \in 1 .. n - i : b[k] = q[k + i]
  <2>1. i + 1 \in Int /\ n \in Int /\ \A k \in i + 1 .. n : q[k] \in R
    BY <1>1
  <2>2. /\ b \in Seq(R) /\ Len(b) = IF i + 1 <= n THEN n - (i + 1) + 1 ELSE 0
        /\ \A k \in 1 .. n - (i + 1) + 1 : b[k] = q[(i + 1) + k - 1]
    BY <2>1, SubSeqProperties
  <2> HIDE DEF b, a, t
  <2>3. /\ n \in Nat /\ i \in Nat /\ i <= n /\ n - (i + 1) + 1 = n - i
        /\ i + 1 > n => n - i = 0
    <3>1. n \in Nat /\ i \in 1 .. n
      BY <1>1
    <3> HIDE DEF n
    <3>2. PICK m \in Nat : m = n
      BY <3>1
    <3>3. i \in 1 .. m
      BY <3>1, <3>2
    <3>4. /\ i \in Nat /\ i <= m /\ m - (i + 1) + 1 = m - i
          /\ i + 1 > m => m - i = 0
      BY <3>3
    <3> QED BY <3>2, <3>4
  <2> HIDE DEF n
  <2>4. Len(b) = n - i
    BY <2>2, <2>3
  <2>5. \A k \in 1 .. n - i : (i + 1) + k - 1 = k + i
    BY <2>3
  <2>6. \A k \in 1 .. n - i : b[k] = q[k + i]
    BY <2>2, <2>3, <2>5
  <2> QED BY <2>2, <2>4, <2>6
<1>4. RemoveAt(q, i) = a \o b
  BY DEF RemoveAt
<1> HIDE DEF a, b
<1>5. /\ a \o b \in Seq(R) /\ Len(a \o b) = n - 1
      /\ \A k \in 1 .. n - 1 : (a \o b)[k] = t[k]
  <2>1. /\ a \o b \in Seq(R) /\ Len(a \o b) = Len(a) + Len(b)
        /\ \A k \in 1 .. Len(a) + Len(b) :
             (a \o b)[k] = IF k <= Len(a) THEN a[k] ELSE b[k - Len(a)]
    BY <1>2, <1>3, ConcatProperties
  <2>2. Len(a) + Len(b) = n - 1
    BY <1>1, <1>2, <1>3
  <2>3. ASSUME NEW k \in 1 .. n - 1 PROVE (a \o b)[k] = t[k]
    <3>1. CASE k < i
      <4>1. (a \o b)[k] = a[k]
        BY <1>1, <1>2, <2>1, <2>2, <3>1
      <4>2. a[k] = q[k]
        BY <1>1, <1>2, <3>1
      <4> QED BY <3>1, <4>1, <4>2
    <3>2. CASE ~(k < i)
      <4>1. k - (i - 1) \in 1 .. n - i /\ k - (i - 1) + i = k + 1
        BY <1>1, <3>2
      <4>2. (a \o b)[k] = b[k - (i - 1)]
        BY <1>1, <1>2, <2>1, <2>2, <3>2
      <4> QED BY <1>3, <3>2, <4>1, <4>2
    <3> QED BY <3>1, <3>2
  <2> QED BY <2>1, <2>2, <2>3
<1>6. DOMAIN (a \o b) = 1 .. n - 1
  BY <1>5, LenProperties
<1>7. Range(a \o b) = Range(q) \ {q[i]}
  <2>1. ASSUME NEW k \in 1 .. n - 1 PROVE t[k] \in Range(q) \ {q[i]}
    BY <1>1 DEF Range, IsInjective
  <2>2. ASSUME NEW x \in Range(q) \ {q[i]} PROVE \E k \in 1 .. n - 1 : t[k] = x
    <3>1. PICK j \in 1 .. n : q[j] = x /\ j # i
      BY <1>1 DEF Range
    <3>2. CASE j < i
      BY <1>1, <3>1, <3>2
    <3>3. CASE j > i
      <4>1. j - 1 \in 1 .. n - 1 /\ t[j - 1] = x
        BY <1>1, <3>1, <3>3
      <4> QED BY <4>1
    <3> QED BY <1>1, <3>1, <3>2, <3>3
  <2> HIDE DEF t
  <2>3. \A k \in 1 .. n - 1 : (a \o b)[k] \in Range(q) \ {q[i]}
    BY <1>5, <2>1
  <2>4. \A x \in Range(q) \ {q[i]} : \E k \in 1 .. n - 1 : (a \o b)[k] = x
    BY <1>5, <2>2
  <2>5. Range(a \o b) = {(a \o b)[k] : k \in 1 .. n - 1}
    BY <1>6 DEF Range
  <2> QED BY <2>3, <2>4, <2>5
<1>8. IsInjective(a \o b)
  <2>1. \A j, k \in 1 .. n - 1 : t[j] = t[k] => j = k
    BY <1>1 DEF IsInjective
  <2> HIDE DEF t
  <2> QED BY <1>5, <1>6, <2>1 DEF IsInjective
<1>9. ASSUME i # 1 PROVE a \o b # <<>> /\ Head(a \o b) = Head(q)
  <2>1. 1 \in 1 .. n - 1 /\ 1 \in 1 .. n /\ t[1] = q[1]
    BY <1>1, <1>9
  <2>2. (a \o b)[1] = q[1]
    BY <1>5, <2>1
  <2> QED BY <1>1, <1>5, <2>1, <2>2
<1> QED BY <1>4, <1>5, <1>7, <1>8, <1>9

\* The last element of a duplicate-free queue leaves, the others stay.
LEMMA FrontProperties ==
  ASSUME NEW R, NEW q \in Seq(R), IsInjective(q), q # <<>>
  PROVE  /\ Front(q) \in Seq(R) /\ IsInjective(Front(q)) /\ Len(Front(q)) = Len(q) - 1
         /\ Range(Front(q)) = Range(q) \ {Last(q)}
         /\ Last(q) \in Range(q)
<1> DEFINE n == Len(q)
           t == SubSeq(q, 1, n - 1)
<1>1. n \in Nat \ {0} /\ DOMAIN q = 1 .. n /\ \A k \in 1 .. n : q[k] \in R
  BY LenProperties, ElementOfSeq, EmptySeq
<1>2. t \in Seq(R) /\ Len(t) = n - 1 /\ \A k \in 1 .. n - 1 : t[k] = q[k]
  <2>1. 1 \in Int /\ n - 1 \in Int /\ \A k \in 1 .. n - 1 : q[k] \in R
    BY <1>1
  <2> QED BY <1>1, <2>1, SubSeqProperties
<1>3. Front(q) = t /\ Last(q) = q[n]
  BY DEF Front, Last
<1> HIDE DEF t
<1>4. DOMAIN t = 1 .. n - 1
  BY <1>2, LenProperties
<1>5. IsInjective(t)
  BY <1>1, <1>2, <1>4 DEF IsInjective
<1>6. Range(t) = Range(q) \ {q[n]}
  <2>1. \A k \in 1 .. n - 1 : q[k] \in Range(q) \ {q[n]}
    BY <1>1 DEF Range, IsInjective
  <2>2. ASSUME NEW x \in Range(q) \ {q[n]} PROVE \E k \in 1 .. n - 1 : q[k] = x
    BY <1>1 DEF Range
  <2> QED BY <1>2, <1>4, <2>1, <2>2, SMTT(30) DEF Range
<1>7. q[n] \in Range(q)
  BY <1>1 DEF Range
<1> QED BY <1>2, <1>3, <1>5, <1>6, <1>7

-----------------------------------------------------------------------------
(* The scheduler between two operations of a step.                           *)

Statuses == {"new", "waiting", "prefilling", "decoding", "done"}
Rows == [st : Statuses, sub : Nat, out : Nat, pages : Int]
Faults == {"none", "NoDecodeWork", "NothingRunnable", "NoAdmissiblePrefill"}
Scheds ==
  [reqs : [Requests -> Rows], waiting : Seq(Requests), running : Seq(Requests),
   consecutive : Int, sinceHeavy : Int, bypasses : Nat, heavy : BOOLEAN, fault : Faults]

\* The queues hold each request once, and the statuses say in which of them it is.
WellFormed(s) ==
  /\ s \in Scheds
  /\ s.bypasses <= MaxBypasses
  /\ IsInjective(s.waiting) /\ IsInjective(s.running)
  /\ \A r \in Range(s.waiting) : s.reqs[r].st = "waiting"
  /\ \A r \in Range(s.running) : s.reqs[r].st \in {"prefilling", "decoding"}

\* What every part of a plan leaves alone: a request that neither waits nor decodes.
Keeps(s, t) == \A r \in Requests : s.reqs[r].st = "prefilling" => t.reqs[r].st = "prefilling"

\* The requests of the queue of s that t has admitted.
Admitted(s, t) == {r \in Range(s.waiting) : t.reqs[r].st # "waiting"}

\* From s to t every admission past the head of the queue has been counted as a bypass,
\* unless a heavy batch was recorded in between.
Counted(s, t) ==
  t.heavy \/ /\ s.bypasses <= t.bypasses
             /\ (s.waiting # <<>> /\ t.reqs[Head(s.waiting)].st = "waiting")
                => s.bypasses + Cardinality(Admitted(s, t)) <= t.bypasses

Progress(s, t) ==
  /\ WellFormed(t) /\ Keeps(s, t) /\ Counted(s, t)
  /\ \A r \in Range(s.waiting) : t.reqs[r].st \in {"waiting", "prefilling"}

\* Nobody but decoding requests changes its status.
Steady(s, t) ==
  /\ WellFormed(t)
  /\ \A r \in Requests : s.reqs[r].st # "decoding" => t.reqs[r].st = s.reqs[r].st
  /\ t.bypasses = s.bypasses /\ t.heavy = s.heavy

Plans == [s : Scheds, phase : {"prefill", "decode", "none"}, batch : Seq(Requests)]

LEMMA BlocksInt ==
  ASSUME NEW n \in Nat
  PROVE  Blocks(n) \in Int
<1>1. BlockSize \in Nat \ {0}
  BY PolicyAssumption
<1> QED BY <1>1 DEF Blocks

\* The least of two numbers.
LEMMA MinPair ==
  ASSUME NEW a \in Int, NEW b \in Int
  PROVE  /\ Min({a, b}) \in {a, b}
         /\ Min({a, b}) <= a /\ Min({a, b}) <= b
<1>1. \E x \in {a, b} : \A y \in {a, b} : x <= y
  <2>1. CASE a <= b
    BY <2>1
  <2>2. CASE ~(a <= b)
    <3>1. b <= a
      BY <2>2
    <3> QED BY <3>1
  <2> QED BY <2>1, <2>2
<1> QED BY <1>1 DEF Min

\* The least of a non-empty set of naturals.
LEMMA MinNat ==
  ASSUME NEW S \in SUBSET Nat, S # {}
  PROVE  Min(S) \in S /\ \A x \in S : Min(S) <= x
<1>1. PICK x \in S : \A y \in S : ~(<<y, x>> \in OpToRel(<, Nat))
  BY NatLessThanWellFounded, WFMin
<1>2. ASSUME NEW y \in S PROVE x <= y
  <2>1. x \in Nat /\ y \in Nat
    OBVIOUS
  <2>2. y < x => <<y, x>> \in OpToRel(<, Nat)
    BY <2>1 DEF OpToRel
  <2>3. ~(y < x)
    <3> HIDE DEF OpToRel
    <3> QED BY <1>1, <2>2, Zenon
  <2> QED BY <2>1, <2>3
<1> QED BY <1>2 DEF Min

\* Decoding after a plan changes nothing that the plan has counted.
LEMMA SteadyAfter ==
  ASSUME NEW s, NEW t, NEW u, WellFormed(s), Progress(s, t), Steady(t, u)
  PROVE  Progress(s, u)
<1>1. Range(s.waiting) \subseteq Requests
  BY LenProperties, ElementOfSeq DEF WellFormed, Scheds, Range
<1>2. \A r \in Range(s.waiting) : u.reqs[r].st = t.reqs[r].st
  BY <1>1 DEF Progress, Steady
<1>3. Admitted(s, u) = Admitted(s, t)
  BY <1>2 DEF Admitted
<1>4. s.waiting # <<>> => Head(s.waiting) \in Range(s.waiting)
  BY PopLeftProperties DEF WellFormed, Scheds
<1>5. Counted(s, u)
  BY <1>2, <1>3, <1>4 DEF Progress, Steady, Counted
<1> QED BY <1>2, <1>5 DEF Progress, Steady, Keeps

\* A step that only decodes, or does nothing at all, counts nothing.
LEMMA NoProgress ==
  ASSUME NEW s, WellFormed(s), s.heavy = FALSE
  PROVE  Progress(s, s)
<1>1. Admitted(s, s) = {}
  BY DEF WellFormed, Admitted
<1>2. Cardinality({}) = 0
  BY FS_EmptySet
<1>3. s.bypasses \in Nat
  BY DEF WellFormed, Scheds
<1>4. Counted(s, s)
  BY <1>1, <1>2, <1>3 DEF Counted
<1> QED BY <1>4 DEF Progress, Keeps, WellFormed

\* A plan made after an attempt that admitted nobody.
LEMMA QuietBefore ==
  ASSUME NEW s, NEW t, NEW u, WellFormed(s), WellFormed(t),
         t.reqs = s.reqs, t.waiting = s.waiting, s.bypasses <= t.bypasses,
         Progress(t, u)
  PROVE  Progress(s, u)
<1>1. Admitted(s, u) = Admitted(t, u)
  BY DEF Admitted
<1>2. /\ s.bypasses \in Nat /\ t.bypasses \in Nat /\ u.bypasses \in Nat
  BY DEF Progress, WellFormed, Scheds
<1>3. IsFiniteSet(Admitted(t, u))
  <2>1. Admitted(t, u) \subseteq Requests
    BY LenProperties, ElementOfSeq DEF WellFormed, Scheds, Range, Admitted
  <2> QED BY <2>1, PolicyAssumption, FS_Subset
<1>4. Cardinality(Admitted(t, u)) \in Nat
  BY <1>3, FS_CardinalityType
<1>5. Counted(s, u)
  <2> HIDE DEF Admitted
  <2> QED BY <1>1, <1>2, <1>4 DEF Progress, Counted
<1> QED BY <1>5 DEF Progress, Keeps

-----------------------------------------------------------------------------
(* Prefill plans.                                                            *)

\* CollectRunning(s) is the value of a recursive function that exists.
LEMMA CollectExist ==
  ASSUME NEW s, Len(s.running) \in Nat
  PROVE  \E f : /\ CollectRunning(s) = f[Len(s.running)].batch
                /\ f[0] = Collected(<<>>)
                /\ \A k \in 1 .. Len(s.running) : f[k] = CollectTurn(s, f[k - 1], s.running[k])
<1> DEFINE n == Len(s.running)
           Step(f, k) == IF k = 0 THEN Collected(<<>>) ELSE CollectTurn(s, f[k - 1], s.running[k])
           N == {m \in Nat : m <= n => \E f : f = [k \in 0 .. m |-> Step(f, k)]}
           F == CHOOSE f : f = [k \in 0 .. n |-> Step(f, k)]
<1>1. 0 \in N
  <2> DEFINE g == [k \in 0 .. 0 |-> Collected(<<>>)]
  <2>1. g = [k \in 0 .. 0 |-> Step(g, k)]
    OBVIOUS
  <2> QED BY <2>1
<1>2. ASSUME NEW m \in Nat, m \in N PROVE m + 1 \in N
  <2> SUFFICES ASSUME m + 1 <= n PROVE \E f : f = [k \in 0 .. m + 1 |-> Step(f, k)]
    OBVIOUS
  <2>1. PICK g : g = [k \in 0 .. m |-> Step(g, k)]
    BY <1>2
  <2> DEFINE h == [k \in 0 .. m + 1 |-> IF k = m + 1 THEN Step(g, m + 1) ELSE g[k]]
  <2>2. ASSUME NEW k \in 0 .. m + 1 PROVE h[k] = Step(h, k)
    <3>1. k # 0 => k - 1 \in 0 .. m /\ h[k - 1] = g[k - 1]
      OBVIOUS
    <3>2. k # m + 1 => g[k] = Step(g, k)
      <4>1. k # m + 1 => k \in 0 .. m
        OBVIOUS
      <4> QED BY <2>1, <4>1
    <3>3. h[k] = Step(g, k)
      BY <3>2
    <3> QED BY <3>1, <3>3
  <2>3. h = [k \in 0 .. m + 1 |-> Step(h, k)]
    BY <2>2
  <2> QED BY <2>3
<1>3. \A m \in Nat : m \in N
  <2> HIDE DEF N
  <2> QED BY <1>1, <1>2, NatSetInduction
<1>4. \E f : f = [k \in 0 .. n |-> Step(f, k)]
  <2>1. n \in N /\ n <= n
    <3> HIDE DEF N
    <3> QED BY <1>3
  <2> QED BY <2>1
<1>5. F = [k \in 0 .. n |-> Step(F, k)]
  BY <1>4
<1>6. CollectRunning(s) = F[n].batch
  BY DEF CollectRunning
<1> HIDE DEF F
<1>7. F[0] = Collected(<<>>) /\ \A k \in 1 .. n : F[k] = Step(F, k)
  <2>1. \A k \in 0 .. n : F[k] = Step(F, k)
    BY <1>5
  <2>2. 0 \in 0 .. n /\ \A k \in 1 .. n : k \in 0 .. n
    OBVIOUS
  <2>3. F[0] = Step(F, 0)
    BY <2>1, <2>2
  <2> QED BY <2>1, <2>2, <2>3
<1> QED BY <1>6, <1>7

\* A batch of requests that are being prefilled.
Prefilling(s, batch) ==
  batch \in Seq(Requests) /\ \A r \in Range(batch) : s.reqs[r].st = "prefilling"

\* One more prefilling request makes a batch of prefilling requests.
LEMMA AppendPrefilling ==
  ASSUME NEW s, NEW batch, Prefilling(s, batch), NEW r \in Requests, s.reqs[r].st = "prefilling"
  PROVE  Prefilling(s, Append(batch, r))
<1>1. Append(batch, r) \in Seq(Requests) /\ Len(Append(batch, r)) = Len(batch) + 1
  BY AppendProperties DEF Prefilling
<1>2. \A k \in 1 .. Len(batch) : Append(batch, r)[k] = batch[k]
  BY AppendProperties DEF Prefilling
<1>3. Append(batch, r)[Len(batch) + 1] = r
  BY AppendProperties DEF Prefilling
<1>4. Len(batch) \in Nat /\ DOMAIN batch = 1 .. Len(batch)
  BY LenProperties DEF Prefilling
<1>5. DOMAIN Append(batch, r) = 1 .. Len(batch) + 1
  BY <1>1, LenProperties
<1>6. ASSUME NEW k \in 1 .. Len(batch) + 1 PROVE s.reqs[Append(batch, r)[k]].st = "prefilling"
  <2>1. CASE k = Len(batch) + 1
    BY <1>3, <2>1
  <2>2. CASE k \in 1 .. Len(batch)
    <3>1. batch[k] \in Range(batch)
      BY <1>4, <2>2 DEF Range
    <3> QED BY <1>2, <2>2, <3>1 DEF Prefilling
  <2> QED BY <1>4, <2>1, <2>2
<1> QED BY <1>1, <1>5, <1>6 DEF Prefilling, Range

\* A turn of the loop over the resident prefills adds nothing or a prefilling request.
LEMMA CollectTurnAdds ==
  ASSUME NEW s, NEW acc, NEW r
  PROVE  \/ CollectTurn(s, acc, r).batch = acc.batch
         \/ /\ s.reqs[r].st = "prefilling"
            /\ CollectTurn(s, acc, r).batch = Append(acc.batch, r)
<1>1. CASE acc.stop \/ s.reqs[r].st # "prefilling"
  BY <1>1 DEF CollectTurn
<1>2. CASE ~acc.stop /\ s.reqs[r].st = "prefilling" /\ ~HasRoom(acc.batch, r)
  BY <1>2 DEF CollectTurn
<1>3. CASE ~acc.stop /\ s.reqs[r].st = "prefilling" /\ HasRoom(acc.batch, r)
  <2>1. CollectTurn(s, acc, r) = IF Accepts(acc.batch, r) THEN Collected(Append(acc.batch, r)) ELSE acc
    BY <1>3 DEF CollectTurn
  <2>2. CASE Accepts(acc.batch, r)
    BY <1>3, <2>1, <2>2 DEF Collected
  <2>3. CASE ~Accepts(acc.batch, r)
    BY <2>1, <2>3
  <2> QED BY <2>2, <2>3
<1> QED BY <1>1, <1>2, <1>3

\* The survivors of an aborted batch are being prefilled.
LEMMA CollectProperties ==
  ASSUME NEW s, WellFormed(s)
  PROVE  Prefilling(s, CollectRunning(s))
<1> DEFINE n == Len(s.running)
<1>1. n \in Nat /\ \A k \in 1 .. n : s.running[k] \in Requests
  BY LenProperties, ElementOfSeq DEF WellFormed, Scheds
<1>2. PICK f : /\ CollectRunning(s) = f[n].batch
               /\ f[0] = Collected(<<>>)
               /\ \A k \in 1 .. n : f[k] = CollectTurn(s, f[k - 1], s.running[k])
  BY <1>1, CollectExist
<1> DEFINE N == {m \in Nat : m <= n => Prefilling(s, f[m].batch)}
<1>3. 0 \in N
  <2>1. f[0].batch = <<>>
    BY <1>2 DEF Collected
  <2> QED BY <2>1, NoElements DEF Prefilling
<1>4. ASSUME NEW m \in Nat, m \in N PROVE m + 1 \in N
  <2> SUFFICES ASSUME m + 1 <= n PROVE Prefilling(s, f[m + 1].batch)
    OBVIOUS
  <2>1. Prefilling(s, f[m].batch) /\ m + 1 \in 1 .. n /\ (m + 1) - 1 = m
    BY <1>1, <1>4
  <2>2. f[m + 1] = CollectTurn(s, f[m], s.running[m + 1]) /\ s.running[m + 1] \in Requests
    BY <1>1, <1>2, <2>1
  <2>3. \/ f[m + 1].batch = f[m].batch
        \/ /\ s.reqs[s.running[m + 1]].st = "prefilling"
           /\ f[m + 1].batch = Append(f[m].batch, s.running[m + 1])
    BY <2>2, CollectTurnAdds
  <2> QED BY <2>1, <2>2, <2>3, AppendPrefilling
<1>5. \A m \in Nat : m \in N
  <2> HIDE DEF N
  <2> QED BY <1>3, <1>4, NatSetInduction
<1>6. Prefilling(s, f[n].batch)
  <2>1. n \in N /\ n <= n
    <3> HIDE DEF N
    <3> QED BY <1>1, <1>5
  <2> QED BY <2>1
<1> QED BY <1>2, <1>6

\* Without deadlines: the place chosen is one of the queue's, and one behind the head only
\* while a bypass is left.
LEMMA WaitingIndexProperties ==
  ASSUME NEW s, WellFormed(s), config \in Configs, ~Slos
  PROVE  \E i \in {0} \cup DOMAIN s.waiting :
           /\ WaitingIndex(s, {k \in DOMAIN s.waiting : Tier(s.waiting[k]) < 3}) = i
           /\ i > 1 => s.bypasses < MaxBypasses
<1> DEFINE ids == {k \in DOMAIN s.waiting : Tier(s.waiting[k]) < 3}
           light == {k \in ids : ~IsHeavy(Patches[s.waiting[k]])}
<1>1. DOMAIN s.waiting = 1 .. Len(s.waiting) /\ Len(s.waiting) \in Nat
  BY LenProperties DEF WellFormed, Scheds
<1>2. \A r : Tier(r) < 3
  BY DEF Tier
<1>3. ids = DOMAIN s.waiting
  BY <1>2
<1>4. s.bypasses \in Nat /\ MaxBypasses \in Nat
  BY PolicyAssumption DEF WellFormed, Scheds, MaxBypasses
<1> HIDE DEF ids, light
<1>5. WaitingIndex(s, ids) =
        IF ids # {} /\ Policy = "vision_aware" /\ ~HeadComesFirst(s) THEN FirstOf(light) ELSE FirstOf(ids)
  <2> HIDE DEF Slos
  <2> QED BY DEF WaitingIndex, light
<1>6. CASE ids # {} /\ Policy = "vision_aware" /\ ~HeadComesFirst(s)
  <2>1. ~(s.bypasses >= MaxBypasses)
    BY <1>6 DEF HeadComesFirst
  <2>2. FirstOf(light) \in {0} \cup DOMAIN s.waiting
    <3>1. light \subseteq DOMAIN s.waiting /\ light \in SUBSET Nat
      BY <1>1, <1>3 DEF light
    <3> QED BY <3>1, MinNat DEF FirstOf
  <2>3. WaitingIndex(s, ids) = FirstOf(light)
    BY <1>5, <1>6
  <2>4. s.bypasses < MaxBypasses
    BY <1>4, <2>1
  <2> HIDE DEF FirstOf, WaitingIndex
  <2> QED BY <2>2, <2>3, <2>4 DEF ids
<1>7. CASE ~(ids # {} /\ Policy = "vision_aware" /\ ~HeadComesFirst(s))
  <2>1. CASE ids = {}
    <3>1. WaitingIndex(s, ids) = 0
      BY <1>5, <2>1 DEF FirstOf
    <3> QED BY <3>1 DEF ids
  <2>2. CASE ids # {}
    <3>1. 1 \in ids /\ ids \in SUBSET Nat
      BY <1>1, <1>3, <2>2
    <3>2. Min(ids) \in ids /\ Min(ids) <= 1
      BY <3>1, MinNat
    <3>3. WaitingIndex(s, ids) = 1
      <4>1. Min(ids) = 1
        BY <1>1, <1>3, <3>2
      <4> QED BY <1>5, <1>7, <2>2, <4>1 DEF FirstOf
    <3> QED BY <1>3, <3>1, <3>3 DEF ids
  <2> QED BY <2>1, <2>2
<1> QED BY <1>6, <1>7

\* What counting a bypass does.
LEMMA CountBypassEffect ==
  ASSUME NEW s, WellFormed(s), config \in Configs, ~Slos, NEW i \in Nat,
         i > 1 => s.bypasses < MaxBypasses
  PROVE  /\ WellFormed(CountBypass(s, i))
         /\ CountBypass(s, i).reqs = s.reqs
         /\ CountBypass(s, i).waiting = s.waiting
         /\ CountBypass(s, i).running = s.running
         /\ CountBypass(s, i).heavy = s.heavy
         /\ CountBypass(s, i).fault = s.fault
         /\ CountBypass(s, i).bypasses = IF i > 1 THEN s.bypasses + 1 ELSE s.bypasses
<1>1. s \in Scheds /\ s.bypasses \in Nat /\ MaxBypasses \in Nat
  BY PolicyAssumption DEF WellFormed, Scheds, MaxBypasses
<1>2. CASE i > 1
  <2>1. Min({s.bypasses + 1, MaxBypasses}) = s.bypasses + 1
    <3> DEFINE m == Min({s.bypasses + 1, MaxBypasses})
    <3>a. s.bypasses + 1 \in Int /\ MaxBypasses \in Int
      BY <1>1
    <3>1. m \in {s.bypasses + 1, MaxBypasses} /\ m <= s.bypasses + 1 /\ m <= MaxBypasses
      <4> HIDE DEF MaxBypasses
      <4> QED BY <3>a, MinPair
    <3> HIDE DEF m
    <3>2. m = s.bypasses + 1
      BY <1>1, <1>2, <3>1
    <3> QED BY <3>2 DEF m
  <2>2. CountBypass(s, i) = [s EXCEPT !.bypasses = s.bypasses + 1]
    BY <1>2, <2>1 DEF CountBypass
  <2>3. s.bypasses + 1 \in Nat /\ s.bypasses + 1 <= MaxBypasses
    BY <1>1, <1>2
  <2> QED BY <1>1, <1>2, <2>2, <2>3 DEF WellFormed, Scheds
<1>3. CASE ~(i > 1)
  <2>1. CountBypass(s, i) = s
    BY <1>3 DEF CountBypass
  <2> QED BY <1>3, <2>1
<1> QED BY <1>2, <1>3

\* What admitting the request at place i does.
LEMMA AdmitEffect ==
  ASSUME NEW s, WellFormed(s), NEW i \in DOMAIN s.waiting, NEW acc, acc.s = s,
         NEW r, r = s.waiting[i]
  PROVE  LET t == AdmitOne(acc, i, r).s
         IN  /\ WellFormed(t)
             /\ r \in Range(s.waiting)
             /\ t.reqs[r].st = "prefilling"
             /\ \A x \in Requests \ {r} : t.reqs[x] = s.reqs[x]
             /\ t.waiting = RemoveAt(s.waiting, i)
             /\ t.heavy = s.heavy /\ t.fault = s.fault /\ t.bypasses = s.bypasses
<1> DEFINE t == AdmitOne(acc, i, r).s
           pages == Blocks(Length(s, r))
           row == [s.reqs[r] EXCEPT !.st = "prefilling", !.pages = pages]
<1>1. s \in Scheds /\ i \in 1 .. Len(s.waiting) /\ r \in Range(s.waiting) /\ r \in Requests
  BY LenProperties, ElementOfSeq DEF WellFormed, Scheds, Range
<1>0. s.reqs[r] \in Rows /\ s.reqs \in [Requests -> Rows]
  BY <1>1 DEF Scheds
<1>2. pages \in Int
  <2>0. s.reqs[r].out \in Nat /\ PromptLen[r] \in Nat
    BY <1>0, <1>1, PolicyAssumption DEF Rows
  <2>1. Length(s, r) \in Nat
    BY <2>0 DEF Length
  <2> QED BY <2>1, BlocksInt
<1> HIDE DEF pages
<1>3. row \in Rows /\ row.st = "prefilling"
  <2>1. "prefilling" \in Statuses
    BY DEF Statuses
  <2> QED BY <1>0, <1>2, <2>1 DEF Rows
<1>4. t = [s EXCEPT !.reqs = [s.reqs EXCEPT ![r] = row], !.waiting = RemoveAt(s.waiting, i),
                    !.running = Append(s.running, r)]
  <2>1. t = [s EXCEPT !.reqs[r].st = "prefilling", !.reqs[r].pages = pages,
                      !.waiting = RemoveAt(s.waiting, i), !.running = Append(s.running, r)]
    BY DEF AdmitOne, pages
  <2>2. [s EXCEPT !.reqs[r].st = "prefilling", !.reqs[r].pages = pages]
          = [s EXCEPT !.reqs = [s.reqs EXCEPT ![r] = row]]
    BY <1>0, <1>1, ZenonT(40) DEF Scheds, Rows, row
  <2> QED BY <1>0, <1>1, <2>1, <2>2 DEF Scheds
<1> HIDE DEF row, t
<1>5. /\ RemoveAt(s.waiting, i) \in Seq(Requests)
      /\ IsInjective(RemoveAt(s.waiting, i))
      /\ Range(RemoveAt(s.waiting, i)) = Range(s.waiting) \ {r}
  BY <1>1, RemoveAtProperties DEF WellFormed, Scheds
<1>6. r \notin Range(s.running)
  BY <1>1 DEF WellFormed
<1>7. /\ Append(s.running, r) \in Seq(Requests)
      /\ IsInjective(Append(s.running, r))
      /\ Range(Append(s.running, r)) = Range(s.running) \cup {r}
  BY <1>1, <1>6, AppendNewProperties DEF WellFormed, Scheds
<1>8. /\ t.reqs = [s.reqs EXCEPT ![r] = row]
      /\ t.waiting = RemoveAt(s.waiting, i) /\ t.running = Append(s.running, r)
      /\ t.heavy = s.heavy /\ t.fault = s.fault /\ t.bypasses = s.bypasses
      /\ t.consecutive = s.consecutive /\ t.sinceHeavy = s.sinceHeavy
  BY <1>1, <1>4 DEF Scheds
<1>9. t.reqs \in [Requests -> Rows]
  BY <1>1, <1>3, <1>8 DEF Scheds
<1>10. t \in Scheds
  BY <1>1, <1>4, <1>5, <1>7, <1>8, <1>9, ZenonT(40) DEF Scheds
<1>11. t.reqs[r].st = "prefilling" /\ \A x \in Requests \ {r} : t.reqs[x] = s.reqs[x]
  BY <1>1, <1>3, <1>8 DEF Scheds
<1>12. \A x \in Range(s.waiting) : x \in Requests
  BY LenProperties, ElementOfSeq DEF WellFormed, Scheds, Range
<1>13. \A x \in Range(s.running) : x \in Requests
  BY LenProperties, ElementOfSeq DEF WellFormed, Scheds, Range
<1>14. WellFormed(t)
  BY <1>5, <1>6, <1>7, <1>8, <1>10, <1>11, <1>12, <1>13 DEF WellFormed
<1> QED BY <1>1, <1>8, <1>11, <1>14 DEF t

\* A set grows by at most one with an element.
LEMMA OneMore ==
  ASSUME NEW S, IsFiniteSet(S), NEW x
  PROVE  IsFiniteSet(S \cup {x}) /\ Cardinality(S \cup {x}) <= Cardinality(S) + 1
<1>1. Cardinality(S) \in Nat
  BY FS_CardinalityType
<1>2. /\ IsFiniteSet(S \cup {x})
      /\ Cardinality(S \cup {x}) = Cardinality(S) \/ Cardinality(S \cup {x}) = Cardinality(S) + 1
  BY FS_AddElement
<1> QED BY <1>1, <1>2

\* What has been admitted is finitely much.
LEMMA AdmittedFinite ==
  ASSUME NEW s, WellFormed(s), NEW t
  PROVE  IsFiniteSet(Admitted(s, t)) /\ Cardinality(Admitted(s, t)) \in Nat
<1>1. Admitted(s, t) \subseteq Requests
  BY LenProperties, ElementOfSeq DEF WellFormed, Scheds, Range, Admitted
<1>2. IsFiniteSet(Admitted(s, t))
  BY <1>1, PolicyAssumption, FS_Subset
<1> QED BY <1>2, FS_CardinalityType

\* A bypass counted in vain does no harm.
LEMMA MoreBypasses ==
  ASSUME NEW s, NEW t, NEW c, WellFormed(s), Progress(s, t), WellFormed(c),
         c.reqs = t.reqs, c.heavy = t.heavy, t.bypasses <= c.bypasses
  PROVE  Progress(s, c)
<1>1. Admitted(s, c) = Admitted(s, t)
  BY DEF Admitted
<1>2. /\ s.bypasses \in Nat /\ t.bypasses \in Nat /\ c.bypasses \in Nat
      /\ Cardinality(Admitted(s, t)) \in Nat
  BY AdmittedFinite DEF Progress, WellFormed, Scheds
<1>3. Counted(s, c)
  <2> HIDE DEF Admitted
  <2> QED BY <1>1, <1>2 DEF Progress, Counted
<1> QED BY <1>3 DEF Progress, Keeps

\* The planning of a prefill batch for the scheduler s, between two turns.
AdmitOK(s, acc) ==
  /\ acc \in [s : Scheds, batch : Seq(Requests), stop : BOOLEAN]
  /\ Prefilling(acc.s, acc.batch)
  /\ acc.s.heavy = FALSE /\ acc.s.fault = s.fault
  /\ Progress(s, acc.s)
  /\ (s.waiting # <<>> /\ acc.s.reqs[Head(s.waiting)].st = "waiting")
     => acc.s.waiting # <<>> /\ Head(acc.s.waiting) = Head(s.waiting)
  /\ acc.batch = <<>> => acc.s.reqs = s.reqs /\ acc.s.waiting = s.waiting

\* A turn that only counts a bypass, or none, and ends the planning.
LEMMA StopKeeps ==
  ASSUME NEW s, WellFormed(s), NEW acc, AdmitOK(s, acc), NEW c, WellFormed(c),
         c.reqs = acc.s.reqs, c.waiting = acc.s.waiting, c.heavy = acc.s.heavy,
         c.fault = acc.s.fault, acc.s.bypasses <= c.bypasses
  PROVE  AdmitOK(s, [acc EXCEPT !.stop = TRUE, !.s = c])
<1> DEFINE a == [acc EXCEPT !.stop = TRUE, !.s = c]
<1>1. a.s = c /\ a.batch = acc.batch /\ a \in [s : Scheds, batch : Seq(Requests), stop : BOOLEAN]
  BY DEF AdmitOK, WellFormed
<1>2. Progress(s, c)
  BY MoreBypasses DEF AdmitOK
<1> HIDE DEF a
<1>3. AdmitOK(s, a)
  BY <1>1, <1>2 DEF AdmitOK, Prefilling
<1> QED BY <1>3 DEF a

\* A turn that admits a request.
LEMMA AdmitKeeps ==
  ASSUME NEW s, WellFormed(s), NEW acc, AdmitOK(s, acc), config \in Configs, ~Slos,
         NEW i \in DOMAIN acc.s.waiting, i > 1 => acc.s.bypasses < MaxBypasses
  PROVE  AdmitOK(s, AdmitOne([acc EXCEPT !.s = CountBypass(@, i)], i, acc.s.waiting[i]))
<1> DEFINE c == CountBypass(acc.s, i)
           b == [acc EXCEPT !.s = c]
           r == acc.s.waiting[i]
           t == AdmitOne(b, i, r).s
           a == AdmitOne(b, i, r)
           h == Head(s.waiting)
<1>0. WellFormed(acc.s) /\ acc.s \in Scheds
  BY DEF AdmitOK, Progress, WellFormed
<1>1. i \in 1 .. Len(acc.s.waiting) /\ i \in Nat /\ Len(acc.s.waiting) \in Nat
  BY <1>0, LenProperties DEF Scheds
<1>2. /\ WellFormed(c) /\ c.reqs = acc.s.reqs /\ c.waiting = acc.s.waiting
      /\ c.heavy = acc.s.heavy /\ c.fault = acc.s.fault
      /\ c.bypasses = IF i > 1 THEN acc.s.bypasses + 1 ELSE acc.s.bypasses
  <2> HIDE DEF c
  <2> QED BY <1>0, <1>1, CountBypassEffect DEF c
<1>3. b.s = c /\ b.batch = acc.batch
  BY DEF AdmitOK
<1> HIDE DEF c, b
<1>4. /\ WellFormed(t) /\ r \in Range(c.waiting)
      /\ t.reqs[r].st = "prefilling"
      /\ \A x \in Requests \ {r} : t.reqs[x] = c.reqs[x]
      /\ t.waiting = RemoveAt(c.waiting, i)
      /\ t.heavy = c.heavy /\ t.fault = c.fault /\ t.bypasses = c.bypasses
  <2>1. i \in DOMAIN c.waiting /\ r = c.waiting[i]
    BY <1>2
  <2> QED BY <1>2, <1>3, <2>1, AdmitEffect
<1>5. a = [s |-> t, batch |-> Append(acc.batch, r), stop |-> FALSE]
  BY <1>3 DEF AdmitOne
<1>6. r \in Requests /\ c.reqs[r].st = "waiting"
  BY <1>0, <1>1, <1>2, <1>4, ElementOfSeq DEF Scheds, WellFormed
<1> HIDE DEF t, a
<1>7. Prefilling(t, Append(acc.batch, r)) /\ Append(acc.batch, r) # <<>>
  <2>1. Prefilling(acc.s, acc.batch)
    BY DEF AdmitOK
  <2>2. \A x \in Range(acc.batch) : x \in Requests
    BY <2>1, LenProperties, ElementOfSeq DEF Prefilling, Range
  <2>3. Prefilling(t, acc.batch)
    BY <1>2, <1>4, <2>1, <2>2 DEF Prefilling
  <2>4. Append(acc.batch, r) # <<>>
    BY <1>6, <2>3, AppendProperties DEF Prefilling
  <2> QED BY <1>4, <1>6, <2>3, <2>4, AppendPrefilling
<1>8. a \in [s : Scheds, batch : Seq(Requests), stop : BOOLEAN]
  BY <1>4, <1>5, <1>7 DEF Prefilling, WellFormed
<1>9. Keeps(s, t)
  BY <1>2, <1>4, <1>6 DEF AdmitOK, Progress, Keeps
<1>10. \A x \in Range(s.waiting) : x \in Requests
  BY LenProperties, ElementOfSeq DEF WellFormed, Scheds, Range
<1>11. \A x \in Range(s.waiting) : t.reqs[x].st \in {"waiting", "prefilling"}
  BY <1>2, <1>4, <1>10 DEF AdmitOK, Progress
<1>12. ASSUME s.waiting # <<>>, t.reqs[h].st = "waiting"
       PROVE  /\ acc.s.reqs[h].st = "waiting" /\ acc.s.waiting # <<>> /\ Head(acc.s.waiting) = h
              /\ i > 1
              /\ t.waiting # <<>> /\ Head(t.waiting) = h
  <2>1. h \in Range(s.waiting) /\ h \in Requests /\ h # r
    BY <1>4, <1>10, <1>12, PopLeftProperties DEF WellFormed, Scheds
  <2>2. acc.s.reqs[h].st = "waiting"
    BY <1>2, <1>4, <1>12, <2>1
  <2>3. acc.s.waiting # <<>> /\ Head(acc.s.waiting) = h
    BY <1>12, <2>2 DEF AdmitOK
  <2>4. i # 1
    <3>1. Head(acc.s.waiting) = acc.s.waiting[1]
      BY <1>0, <2>3 DEF Scheds
    <3> QED BY <2>1, <2>3, <3>1
  <2>5. RemoveAt(acc.s.waiting, i) # <<>> /\ Head(RemoveAt(acc.s.waiting, i)) = h
    BY <1>0, <1>1, <2>3, <2>4, RemoveAtProperties, SMTT(30) DEF WellFormed, Scheds
  <2> QED BY <1>1, <1>2, <1>4, <2>2, <2>3, <2>4, <2>5
<1>13. Counted(s, t)
  <2>1. /\ s.bypasses \in Nat /\ acc.s.bypasses \in Nat
        /\ Cardinality(Admitted(s, acc.s)) \in Nat /\ Cardinality(Admitted(s, t)) \in Nat
        /\ IsFiniteSet(Admitted(s, acc.s))
    BY <1>0, AdmittedFinite DEF WellFormed, Scheds
  <2>2. s.bypasses <= acc.s.bypasses
    BY DEF AdmitOK, Progress, Counted
  <2>3. t.bypasses = IF i > 1 THEN acc.s.bypasses + 1 ELSE acc.s.bypasses
    BY <1>2, <1>4
  <2>4. ASSUME s.waiting # <<>>, t.reqs[h].st = "waiting"
        PROVE  s.bypasses + Cardinality(Admitted(s, t)) <= t.bypasses
    <3>1. acc.s.reqs[h].st = "waiting" /\ i > 1
      BY <1>12, <2>4
    <3>2. s.bypasses + Cardinality(Admitted(s, acc.s)) <= acc.s.bypasses
      BY <2>4, <3>1 DEF AdmitOK, Progress, Counted
    <3>3. Admitted(s, t) \subseteq Admitted(s, acc.s) \cup {r}
      BY <1>2, <1>4, <1>10 DEF Admitted
    <3>4. /\ IsFiniteSet(Admitted(s, acc.s) \cup {r})
          /\ Cardinality(Admitted(s, acc.s) \cup {r}) <= Cardinality(Admitted(s, acc.s)) + 1
      BY <2>1, OneMore
    <3>5. Cardinality(Admitted(s, t)) <= Cardinality(Admitted(s, acc.s) \cup {r})
      BY <3>3, <3>4, FS_Subset
    <3>6. Cardinality(Admitted(s, acc.s) \cup {r}) \in Nat
      BY <3>4, FS_CardinalityType
    <3> HIDE DEF r, h
    <3> QED BY <2>1, <2>3, <3>1, <3>2, <3>4, <3>5, <3>6
  <2> HIDE DEF r
  <2> QED BY <2>1, <2>2, <2>3, <2>4 DEF Counted
<1>14. Progress(s, t)
  BY <1>4, <1>9, <1>11, <1>13 DEF Progress
<1>15. t.heavy = FALSE /\ t.fault = s.fault
  BY <1>2, <1>4 DEF AdmitOK
<1>16. a.s = t /\ a.batch = Append(acc.batch, r)
  BY <1>5
<1>17. AdmitOK(s, a)
  BY <1>7, <1>8, <1>12, <1>14, <1>15, <1>16 DEF AdmitOK
<1>18. [acc EXCEPT !.s = CountBypass(@, i)] = b
  BY DEF b, c
<1> QED BY <1>17, <1>18 DEF a

\* PrefillPlan(s, batch, belowTier) is recorded from a recursive function that exists.
LEMMA AdmitTurnsExist ==
  ASSUME NEW s, NEW batch, NEW belowTier, Len(s.waiting) \in Nat
  PROVE  \E f : /\ PrefillPlan(s, batch, belowTier) = Recorded(f[Len(s.waiting)])
                /\ f[0] = [s |-> s, batch |-> batch, stop |-> FALSE]
                /\ \A k \in 1 .. Len(s.waiting) : f[k] = AdmitTurn(f[k - 1], belowTier)
<1> DEFINE n == Len(s.waiting)
           start == [s |-> s, batch |-> batch, stop |-> FALSE]
           Step(f, k) == IF k = 0 THEN start ELSE AdmitTurn(f[k - 1], belowTier)
           N == {m \in Nat : m <= n => \E f : f = [k \in 0 .. m |-> Step(f, k)]}
           F == CHOOSE f : f = [k \in 0 .. n |-> Step(f, k)]
<1>6. PrefillPlan(s, batch, belowTier) = Recorded(F[n])
  BY DEF PrefillPlan
<1> HIDE DEF start
<1>1. 0 \in N
  <2> DEFINE g == [k \in 0 .. 0 |-> start]
  <2>1. g = [k \in 0 .. 0 |-> Step(g, k)]
    OBVIOUS
  <2> QED BY <2>1
<1>2. ASSUME NEW m \in Nat, m \in N PROVE m + 1 \in N
  <2> SUFFICES ASSUME m + 1 <= n PROVE \E f : f = [k \in 0 .. m + 1 |-> Step(f, k)]
    OBVIOUS
  <2>1. PICK g : g = [k \in 0 .. m |-> Step(g, k)]
    BY <1>2
  <2> DEFINE h == [k \in 0 .. m + 1 |-> IF k = m + 1 THEN Step(g, m + 1) ELSE g[k]]
  <2>2. ASSUME NEW k \in 0 .. m + 1 PROVE h[k] = Step(h, k)
    <3>1. k # 0 => k - 1 \in 0 .. m /\ h[k - 1] = g[k - 1]
      OBVIOUS
    <3>2. k # m + 1 => g[k] = Step(g, k)
      <4>1. k # m + 1 => k \in 0 .. m
        OBVIOUS
      <4> QED BY <2>1, <4>1
    <3>3. h[k] = Step(g, k)
      BY <3>2
    <3> QED BY <3>1, <3>3
  <2>3. h = [k \in 0 .. m + 1 |-> Step(h, k)]
    BY <2>2
  <2> QED BY <2>3
<1>3. \A m \in Nat : m \in N
  <2> HIDE DEF N
  <2> QED BY <1>1, <1>2, NatSetInduction
<1>4. \E f : f = [k \in 0 .. n |-> Step(f, k)]
  <2>1. n \in N /\ n <= n
    <3> HIDE DEF N
    <3> QED BY <1>3
  <2> QED BY <2>1
<1>5. F = [k \in 0 .. n |-> Step(F, k)]
  BY <1>4
<1> HIDE DEF F
<1>7. F[0] = start /\ \A k \in 1 .. n : F[k] = Step(F, k)
  <2>1. \A k \in 0 .. n : F[k] = Step(F, k)
    BY <1>5
  <2>2. 0 \in 0 .. n /\ \A k \in 1 .. n : k \in 0 .. n
    OBVIOUS
  <2>3. F[0] = Step(F, 0)
    BY <2>1, <2>2
  <2> QED BY <2>1, <2>2, <2>3
<1>8. \A k \in 1 .. n : F[k] = AdmitTurn(F[k - 1], belowTier)
  BY <1>7
<1> QED BY <1>6, <1>7, <1>8 DEF start

\* One turn of _admit_waiting_prefills.
LEMMA AdmitTurnKeeps ==
  ASSUME NEW s, WellFormed(s), NEW acc, AdmitOK(s, acc), config \in Configs, ~Slos
  PROVE  AdmitOK(s, AdmitTurn(acc, 3))
<1>1. WellFormed(acc.s)
  BY DEF AdmitOK, Progress
<1>2. PICK i \in {0} \cup DOMAIN acc.s.waiting :
        /\ WaitingIndex(acc.s, {k \in DOMAIN acc.s.waiting : Tier(acc.s.waiting[k]) < 3}) = i
        /\ i > 1 => acc.s.bypasses < MaxBypasses
  BY <1>1, WaitingIndexProperties
<1>3. AdmitTurn(acc, 3) = acc \/ AdmitTurn(acc, 3) = AdmitChosen(acc, i)
  BY <1>2, Zenon DEF AdmitTurn
<1>4. AdmitOK(s, AdmitChosen(acc, i))
  <2>1. CASE i = 0
    <3>1. [acc EXCEPT !.stop = TRUE] = [acc EXCEPT !.stop = TRUE, !.s = acc.s]
      BY DEF AdmitOK
    <3>2. acc.s.bypasses <= acc.s.bypasses
      BY <1>1 DEF WellFormed, Scheds
    <3>3. AdmitOK(s, [acc EXCEPT !.stop = TRUE, !.s = acc.s])
      BY <1>1, <3>2, StopKeeps
    <3> QED BY <2>1, <3>1, <3>3 DEF AdmitChosen
  <2>2. CASE i # 0 /\ Admits(acc.s, acc.batch, acc.s.waiting[i])
    <3>1. i \in DOMAIN acc.s.waiting
      BY <2>2
    <3>2. AdmitOK(s, AdmitOne([acc EXCEPT !.s = CountBypass(@, i)], i, acc.s.waiting[i]))
      BY <1>2, <3>1, AdmitKeeps
    <3> QED BY <2>2, <3>2 DEF AdmitChosen
  <2>3. CASE i # 0 /\ ~Admits(acc.s, acc.batch, acc.s.waiting[i])
    <3> DEFINE c == CountBypass(acc.s, i)
    <3>1. i \in Nat
      BY <1>1, <2>3, LenProperties DEF WellFormed, Scheds
    <3>2. /\ WellFormed(c) /\ c.reqs = acc.s.reqs /\ c.waiting = acc.s.waiting
          /\ c.heavy = acc.s.heavy /\ c.fault = acc.s.fault
          /\ c.bypasses = IF i > 1 THEN acc.s.bypasses + 1 ELSE acc.s.bypasses
      BY <1>1, <1>2, <3>1, CountBypassEffect
    <3>3. acc.s.bypasses \in Nat
      BY <1>1 DEF WellFormed, Scheds
    <3>4. AdmitChosen(acc, i) = [acc EXCEPT !.stop = TRUE, !.s = c]
      BY <2>3 DEF AdmitChosen
    <3> HIDE DEF c
    <3>5. acc.s.bypasses <= c.bypasses
      BY <3>2, <3>3
    <3>6. AdmitOK(s, [acc EXCEPT !.stop = TRUE, !.s = c])
      BY <3>2, <3>5, StopKeeps
    <3> HIDE DEF AdmitOK, AdmitChosen
    <3> QED BY <3>4, <3>6, Zenon
  <2> QED BY <2>1, <2>2, <2>3
<1> QED BY <1>3, <1>4

\* What recording a prefill batch does.
LEMMA RecordPrefillEffect ==
  ASSUME NEW s, WellFormed(s), config \in Configs, NEW batch
  PROVE  LET t == RecordPrefill(s, batch)
         IN  /\ WellFormed(t) /\ t.reqs = s.reqs /\ t.waiting = s.waiting /\ t.fault = s.fault
             /\ t.heavy \/ (t.bypasses = s.bypasses /\ t.heavy = s.heavy)
<1> DEFINE t == RecordPrefill(s, batch)
           heavy == IsHeavy(Total(Patches, batch))
<1>1. s \in Scheds /\ s.consecutive \in Int /\ s.bypasses \in Nat /\ s.heavy \in BOOLEAN
  BY DEF WellFormed, Scheds
<1>2. s.consecutive + 1 \in Int /\ MaxConsecutive \in Int
  BY <1>1, PolicyAssumption
<1>3. Min({s.consecutive + 1, MaxConsecutive}) \in Int
  <2>1. Min({s.consecutive + 1, MaxConsecutive}) \in {s.consecutive + 1, MaxConsecutive}
    BY <1>2, MinPair
  <2> QED BY <1>2, <2>1
<1> DEFINE count == Min({s.consecutive + 1, MaxConsecutive})
<1>4. t = [s EXCEPT !.consecutive = count,
                    !.sinceHeavy = IF heavy THEN 0 ELSE s.sinceHeavy,
                    !.bypasses = IF heavy THEN 0 ELSE s.bypasses,
                    !.heavy = s.heavy \/ heavy]
  BY DEF RecordPrefill
<1> HIDE DEF heavy, count, t
<1>5. count \in Int /\ 0 <= MaxBypasses
  BY <1>3, PolicyAssumption DEF count, MaxBypasses
<1>6. CASE heavy
  <2>1. t = [s EXCEPT !.consecutive = count, !.sinceHeavy = 0, !.bypasses = 0, !.heavy = TRUE]
    BY <1>4, <1>6
  <2>2. /\ t.reqs = s.reqs /\ t.waiting = s.waiting /\ t.running = s.running
        /\ t.fault = s.fault /\ t.bypasses = 0
    BY <1>1, <2>1 DEF Scheds
  <2>3. t.heavy = TRUE
    BY <1>1, <2>1, Zenon DEF Scheds
  <2>4. t = [reqs |-> s.reqs, waiting |-> s.waiting, running |-> s.running, consecutive |-> count,
             sinceHeavy |-> 0, bypasses |-> 0, heavy |-> TRUE, fault |-> s.fault]
    BY <1>1, <2>1 DEF Scheds
  <2>5. t \in Scheds
    BY <1>1, <1>5, <2>4 DEF Scheds
  <2>6. WellFormed(t)
    BY <1>5, <2>2, <2>5 DEF WellFormed
  <2>7. t.heavy
    BY <2>3, Zenon
  <2> QED BY <2>2, <2>6, <2>7, Zenon DEF t
<1>7. CASE ~heavy
  <2>1. t = [s EXCEPT !.consecutive = count]
    BY <1>1, <1>4, <1>7 DEF Scheds
  <2>2. /\ t \in Scheds /\ t.reqs = s.reqs /\ t.waiting = s.waiting /\ t.running = s.running
        /\ t.fault = s.fault /\ t.bypasses = s.bypasses /\ t.heavy = s.heavy
    BY <1>1, <1>5, <2>1 DEF Scheds
  <2>3. WellFormed(t)
    BY <2>2 DEF WellFormed
  <2> QED BY <2>2, <2>3 DEF t
<1> QED BY <1>6, <1>7

\* A prefill plan admits waiting requests only, and counts those it takes past the head.
LEMMA PrefillPlanProperties ==
  ASSUME NEW s, WellFormed(s), s.heavy = FALSE, config \in Configs, ~Slos,
         NEW batch, Prefilling(s, batch)
  PROVE  LET p == PrefillPlan(s, batch, 3)
         IN  /\ p \in Plans /\ Progress(s, p.s) /\ Prefilling(p.s, p.batch)
             /\ p.batch = <<>> => /\ p.s.reqs = s.reqs /\ p.s.waiting = s.waiting
                                  /\ p.s.heavy = FALSE /\ s.bypasses <= p.s.bypasses
<1> DEFINE n == Len(s.waiting)
           start == [s |-> s, batch |-> batch, stop |-> FALSE]
           p == PrefillPlan(s, batch, 3)
<1>1. n \in Nat
  BY LenProperties DEF WellFormed, Scheds
<1>2. PICK f : /\ p = Recorded(f[n])
               /\ f[0] = start
               /\ \A k \in 1 .. n : f[k] = AdmitTurn(f[k - 1], 3)
  BY <1>1, AdmitTurnsExist
<1> DEFINE N == {m \in Nat : m <= n => AdmitOK(s, f[m])}
<1>3. 0 \in N
  <2>1. start \in [s : Scheds, batch : Seq(Requests), stop : BOOLEAN]
    BY DEF WellFormed, Prefilling
  <2>2. start.s = s /\ start.batch = batch
    OBVIOUS
  <2>3. Progress(s, s)
    BY NoProgress
  <2> HIDE DEF start
  <2>4. AdmitOK(s, start)
    BY <2>1, <2>2, <2>3 DEF AdmitOK
  <2> QED BY <1>2, <2>4
<1>4. ASSUME NEW m \in Nat, m \in N PROVE m + 1 \in N
  <2> SUFFICES ASSUME m + 1 <= n PROVE AdmitOK(s, f[m + 1])
    OBVIOUS
  <2>1. AdmitOK(s, f[m]) /\ m + 1 \in 1 .. n /\ (m + 1) - 1 = m
    BY <1>1, <1>4
  <2>2. f[m + 1] = AdmitTurn(f[m], 3)
    BY <1>2, <2>1
  <2>3. AdmitOK(s, AdmitTurn(f[m], 3))
    BY <2>1, AdmitTurnKeeps
  <2> QED BY <2>2, <2>3
<1>5. AdmitOK(s, f[n])
  <2> HIDE DEF N
  <2>1. \A m \in Nat : m \in N
    BY <1>3, <1>4, NatSetInduction
  <2>2. n \in N /\ n <= n
    BY <1>1, <2>1
  <2> QED BY <2>2 DEF N
<1> DEFINE acc == f[n]
           t == RecordPrefill(acc.s, acc.batch)
<1> HIDE DEF acc, t, p
<1>6. AdmitOK(s, acc) /\ p = Recorded(acc)
  BY <1>2, <1>5 DEF acc
<1>7. WellFormed(acc.s) /\ Progress(s, acc.s) /\ Prefilling(acc.s, acc.batch) /\ acc.s.heavy = FALSE
  BY <1>6 DEF AdmitOK, Progress
<1>8. /\ acc.s \in Scheds /\ acc.batch \in Seq(Requests)
      /\ acc.s.bypasses \in Nat /\ s.bypasses \in Nat
  BY <1>7 DEF WellFormed, Scheds, Prefilling
<1>9. CASE acc.batch = <<>>
  <2>1. p = [s |-> acc.s, phase |-> "none", batch |-> acc.batch]
    BY <1>6, <1>9 DEF Recorded
  <2>2. p \in Plans /\ p.s = acc.s /\ p.batch = acc.batch
    BY <1>8, <2>1 DEF Plans
  <2>3. acc.s.reqs = s.reqs /\ acc.s.waiting = s.waiting /\ s.bypasses <= acc.s.bypasses
    BY <1>6, <1>7, <1>9 DEF AdmitOK, Progress, Counted
  <2> QED BY <1>7, <2>2, <2>3 DEF p
<1>10. CASE acc.batch # <<>>
  <2>1. p = [s |-> t, phase |-> "prefill", batch |-> acc.batch]
    BY <1>6, <1>10 DEF Recorded, t
  <2>2. /\ WellFormed(t) /\ t.reqs = acc.s.reqs /\ t.waiting = acc.s.waiting
        /\ t.heavy \/ (t.bypasses = acc.s.bypasses /\ t.heavy = acc.s.heavy)
    BY <1>7, RecordPrefillEffect DEF t
  <2>3. Progress(s, t)
    <3>1. CASE t.heavy
      BY <1>7, <2>2, <3>1 DEF Progress, Keeps, Counted
    <3>2. CASE ~t.heavy
      BY <1>7, <1>8, <2>2, <3>2, MoreBypasses
    <3> QED BY <3>1, <3>2
  <2>4. p \in Plans /\ p.s = t /\ p.batch = acc.batch
    BY <1>8, <2>1, <2>2 DEF Plans, WellFormed
  <2>5. Prefilling(t, acc.batch)
    BY <1>7, <2>2 DEF Prefilling
  <2> QED BY <1>10, <2>3, <2>4, <2>5 DEF p
<1> QED BY <1>9, <1>10

-----------------------------------------------------------------------------
(* Decode plans.                                                             *)

\* Another status and another number of pages.
LEMMA RowEffect ==
  ASSUME NEW row \in Rows, NEW st \in Statuses, NEW n \in Int
  PROVE  [row EXCEPT !.st = st, !.pages = n] \in Rows /\ [row EXCEPT !.st = st, !.pages = n].st = st
BY DEF Rows

\* Taking a slot, perhaps with a page, changes no status and no queue.
LEMMA TakeSlotEffect ==
  ASSUME NEW s, WellFormed(s), NEW r \in Requests
  PROVE  LET t == TakeSlot(s, r)
         IN  /\ WellFormed(t) /\ t.waiting = s.waiting /\ t.running = s.running
             /\ t.bypasses = s.bypasses /\ t.heavy = s.heavy
             /\ \A x \in Requests : t.reqs[x].st = s.reqs[x].st
<1> DEFINE t == TakeSlot(s, r)
           row == [s.reqs[r] EXCEPT !.st = s.reqs[r].st, !.pages = s.reqs[r].pages + 1]
<1>1. s \in Scheds /\ s.reqs[r] \in Rows /\ s.reqs \in [Requests -> Rows] /\ s.waiting \in Seq(Requests)
  BY DEF WellFormed, Scheds
<1>2. row \in Rows /\ row.st = s.reqs[r].st
  <2> DEFINE st == s.reqs[r].st
             n == s.reqs[r].pages + 1
  <2>1. st \in Statuses /\ n \in Int
    BY <1>1 DEF Rows
  <2>2. row = [s.reqs[r] EXCEPT !.st = st, !.pages = n]
    OBVIOUS
  <2> HIDE DEF st, n, row
  <2>3. /\ [s.reqs[r] EXCEPT !.st = st, !.pages = n] \in Rows
        /\ [s.reqs[r] EXCEPT !.st = st, !.pages = n].st = st
    BY <1>1, <2>1, RowEffect, Zenon
  <2> QED BY <2>2, <2>3, Zenon DEF st
<1>3. \A x \in Range(s.waiting) \cup Range(s.running) : x \in Requests
  BY LenProperties, ElementOfSeq DEF WellFormed, Scheds, Range
<1>4. CASE NeedsPage(s, r)
  <2>1. t = [s EXCEPT !.reqs[r].pages = @ + 1]
    BY <1>4 DEF TakeSlot
  <2> DEFINE rows == [s.reqs EXCEPT ![r] = row]
  <2>2. t = [s EXCEPT !.reqs = rows, !.waiting = s.waiting]
    BY <1>1, <2>1 DEF Scheds, Rows
  <2> HIDE DEF row, t
  <2>a. rows \in [Requests -> Rows] /\ rows[r] = row /\ \A x \in Requests \ {r} : rows[x] = s.reqs[x]
    BY <1>1, <1>2
  <2> HIDE DEF rows
  <2>b. /\ t \in Scheds /\ t.reqs = rows /\ t.waiting = s.waiting /\ t.running = s.running
        /\ t.bypasses = s.bypasses /\ t.heavy = s.heavy /\ t.fault = s.fault
    <3> DEFINE u == [s EXCEPT !.reqs = rows, !.waiting = s.waiting]
    <3>1. /\ u \in Scheds /\ u.reqs = rows /\ u.waiting = s.waiting /\ u.running = s.running
          /\ u.bypasses = s.bypasses /\ u.heavy = s.heavy /\ u.fault = s.fault
      BY <1>1, <2>a DEF Scheds
    <3>2. t = u
      BY <2>2
    <3> HIDE DEF u
    <3> QED BY <3>1, <3>2, Zenon
  <2>3. t.reqs[r] = row /\ \A x \in Requests \ {r} : t.reqs[x] = s.reqs[x]
    BY <2>a, <2>b
  <2>4. \A x \in Requests : t.reqs[x].st = s.reqs[x].st
    BY <1>2, <2>3
  <2>5. WellFormed(t)
    BY <1>3, <2>b, <2>4 DEF WellFormed
  <2> QED BY <2>b, <2>4, <2>5 DEF t
<1>5. CASE ~NeedsPage(s, r)
  <2>1. t = s
    BY <1>5 DEF TakeSlot
  <2> QED BY <2>1
<1> QED BY <1>4, <1>5

\* A preempted request goes to the head of the queue.
LEMMA PreemptEffect ==
  ASSUME NEW s, WellFormed(s), NEW r \in Requests, s.reqs[r].st = "decoding",
         r \notin Range(s.running)
  PROVE  LET t == Preempt(s, r)
         IN  /\ WellFormed(t) /\ t.running = s.running
             /\ t.bypasses = s.bypasses /\ t.heavy = s.heavy
             /\ \A x \in Requests \ {r} : t.reqs[x].st = s.reqs[x].st
<1> DEFINE t == Preempt(s, r)
           row == [s.reqs[r] EXCEPT !.st = "waiting", !.pages = 0]
           w == <<r>> \o s.waiting
<1>1. s \in Scheds /\ s.reqs[r] \in Rows /\ s.reqs \in [Requests -> Rows] /\ s.waiting \in Seq(Requests)
  BY DEF WellFormed, Scheds
<1>2. row \in Rows /\ row.st = "waiting"
  <2>1. "waiting" \in Statuses
    BY DEF Statuses
  <2>2. 0 \in Int
    OBVIOUS
  <2> QED BY <1>1, <2>1, <2>2, RowEffect, Zenon
<1>3. \A x \in Range(s.waiting) \cup Range(s.running) : x \in Requests
  BY LenProperties, ElementOfSeq DEF WellFormed, Scheds, Range
<1>4. t = [s EXCEPT !.reqs = [s.reqs EXCEPT ![r] = row], !.waiting = w]
  <2>1. t = [s EXCEPT !.reqs[r].st = "waiting", !.reqs[r].pages = 0, !.waiting = w]
    BY DEF Preempt
  <2>2. [s EXCEPT !.reqs[r].st = "waiting", !.reqs[r].pages = 0]
          = [s EXCEPT !.reqs = [s.reqs EXCEPT ![r] = row]]
    BY <1>1 DEF Scheds, Rows
  <2> QED BY <1>1, <2>1, <2>2 DEF Scheds
<1>5. w \in Seq(Requests) /\ IsInjective(w) /\ Range(w) = {r} \cup Range(s.waiting)
  <2>1. <<r>> \in Seq(Requests) /\ IsInjective(<<r>>) /\ Range(<<r>>) = {r}
    <3>1. DOMAIN <<r>> = {1} /\ <<r>>[1] = r
      OBVIOUS
    <3>2. <<r>> \in Seq(Requests)
      OBVIOUS
    <3> HIDE DEF w
    <3> QED BY <3>1, <3>2 DEF IsInjective, Range
  <2>2. r \notin Range(s.waiting)
    BY DEF WellFormed
  <2>3. Range(<<r>>) \cap Range(s.waiting) = {}
    BY <2>1, <2>2
  <2>4. IsInjective(s.waiting)
    BY DEF WellFormed
  <2> DEFINE one == <<r>>
  <2>5. w = one \o s.waiting
    OBVIOUS
  <2> HIDE DEF w, one
  <2>6. /\ one \in Seq(Requests) /\ IsInjective(one) /\ Range(one) = {r}
        /\ Range(one) \cap Range(s.waiting) = {}
    BY <2>1, <2>3 DEF one
  <2>7. /\ one \o s.waiting \in Seq(Requests) /\ IsInjective(one \o s.waiting)
        /\ Range(one \o s.waiting) = Range(one) \cup Range(s.waiting)
    BY <1>1, <2>4, <2>6, JoinProperties
  <2> QED BY <2>5, <2>6, <2>7
<1> DEFINE rows == [s.reqs EXCEPT ![r] = row]
<1> HIDE DEF row, t, w
<1>a. rows \in [Requests -> Rows] /\ rows[r] = row /\ \A x \in Requests \ {r} : rows[x] = s.reqs[x]
  BY <1>1, <1>2
<1>b. t = [s EXCEPT !.reqs = rows, !.waiting = w]
  BY <1>4
<1> HIDE DEF rows
<1>c. /\ t \in Scheds /\ t.reqs = rows /\ t.waiting = w /\ t.running = s.running
      /\ t.bypasses = s.bypasses /\ t.heavy = s.heavy /\ t.fault = s.fault
  <2> DEFINE u == [s EXCEPT !.reqs = rows, !.waiting = w]
  <2>1. /\ u \in Scheds /\ u.reqs = rows /\ u.waiting = w /\ u.running = s.running
        /\ u.bypasses = s.bypasses /\ u.heavy = s.heavy /\ u.fault = s.fault
    BY <1>1, <1>5, <1>a DEF Scheds
  <2>2. t = u
    BY <1>b
  <2> HIDE DEF u
  <2> QED BY <2>1, <2>2, Zenon
<1>6. t.reqs[r] = row /\ \A x \in Requests \ {r} : t.reqs[x] = s.reqs[x]
  BY <1>a, <1>c
<1>7. WellFormed(t)
  BY <1>2, <1>3, <1>5, <1>6, <1>c DEF WellFormed
<1> QED BY <1>6, <1>7, <1>c DEF t

\* The planning of a decode batch, with n candidates left.
DecodeOK(s, acc, n) ==
  /\ acc \in [s : Scheds, left : Seq(Requests), batch : Seq(Requests)]
  /\ Steady(s, acc.s)
  /\ IsInjective(acc.left) /\ IsInjective(acc.batch)
  /\ Range(acc.left) \cap Range(acc.batch) = {}
  /\ (Range(acc.left) \cup Range(acc.batch)) \cap Range(acc.s.running) = {}
  /\ \A r \in Range(acc.left) \cup Range(acc.batch) : acc.s.reqs[r].st = "decoding"
  /\ Len(acc.left) = n

\* One turn takes, postpones or preempts one candidate.
LEMMA DecodeTurnKeeps ==
  ASSUME NEW s, WellFormed(s), NEW n \in Nat, NEW acc, DecodeOK(s, acc, n + 1), NEW resident \in BOOLEAN
  PROVE  DecodeOK(s, DecodeTurn(acc, resident), n)
<1> DEFINE r == Head(acc.left)
           v == Last(acc.left)
           a == DecodeTurn(acc, resident)
<1>1. /\ acc \in [s : Scheds, left : Seq(Requests), batch : Seq(Requests)]
      /\ acc.left \in Seq(Requests) /\ acc.batch \in Seq(Requests) /\ acc.s.running \in Seq(Requests)
      /\ WellFormed(acc.s) /\ acc.left # <<>>
      /\ IsInjective(acc.left) /\ IsInjective(acc.batch) /\ IsInjective(acc.s.running)
  <2>1. Len(acc.left) = n + 1
    BY DEF DecodeOK
  <2>2. acc.left # <<>>
    <3>1. Len(<<>>) = 0
      OBVIOUS
    <3> QED BY <2>1, <3>1
  <2> QED BY <2>2 DEF DecodeOK, Steady, WellFormed, Scheds
<1>2. /\ r \in Requests /\ r \in Range(acc.left) /\ Tail(acc.left) \in Seq(Requests)
      /\ Range(Tail(acc.left)) = Range(acc.left) \ {r} /\ IsInjective(Tail(acc.left))
      /\ Len(Tail(acc.left)) = n
  <2>1. Len(acc.left) = n + 1
    BY DEF DecodeOK
  <2> QED BY <1>1, <2>1, PopLeftProperties
<1>3. /\ v \in Range(acc.left) /\ Front(acc.left) \in Seq(Requests)
      /\ Range(Front(acc.left)) = Range(acc.left) \ {v} /\ IsInjective(Front(acc.left))
      /\ Len(Front(acc.left)) = n
  <2>1. Len(acc.left) = n + 1
    BY DEF DecodeOK
  <2> QED BY <1>1, <2>1, FrontProperties
<1>4. /\ Range(acc.left) \cap Range(acc.batch) = {}
      /\ (Range(acc.left) \cup Range(acc.batch)) \cap Range(acc.s.running) = {}
      /\ \A x \in Range(acc.left) \cup Range(acc.batch) : acc.s.reqs[x].st = "decoding"
      /\ Steady(s, acc.s)
  BY DEF DecodeOK
<1>5. /\ Range(acc.left) \subseteq Requests /\ Range(acc.batch) \subseteq Requests
  BY <1>1, LenProperties, ElementOfSeq DEF Range
<1> HIDE DEF r, v
<1>6. CASE CanAppend(acc.s, r)
  <2> DEFINE t == TakeSlot(acc.s, r)
             batch == Append(acc.batch, r)
  <2>1. /\ WellFormed(t) /\ t.waiting = acc.s.waiting /\ t.running = acc.s.running
        /\ t.bypasses = acc.s.bypasses /\ t.heavy = acc.s.heavy
        /\ \A x \in Requests : t.reqs[x].st = acc.s.reqs[x].st
    BY <1>1, <1>2, TakeSlotEffect
  <2>2. /\ batch \in Seq(Requests) /\ IsInjective(batch)
        /\ Range(batch) = Range(acc.batch) \cup {r}
    BY <1>1, <1>2, <1>4, AppendNewProperties
  <2>3. a = [acc EXCEPT !.s = t, !.left = Tail(acc.left), !.batch = batch]
    BY <1>6 DEF DecodeTurn, r
  <2> HIDE DEF t, batch, a
  <2>4. /\ a.s = t /\ a.left = Tail(acc.left) /\ a.batch = batch
        /\ a \in [s : Scheds, left : Seq(Requests), batch : Seq(Requests)]
    BY <1>1, <1>2, <2>1, <2>2, <2>3 DEF WellFormed
  <2>5. Steady(s, t)
    BY <1>4, <2>1 DEF Steady
  <2>6. \A x \in Range(a.left) \cup Range(a.batch) : t.reqs[x].st = "decoding"
    <3>1. \A x \in Range(a.left) \cup Range(a.batch) :
            x \in Range(acc.left) \cup Range(acc.batch) /\ x \in Requests
      BY <1>2, <1>5, <2>2, <2>4
    <3> QED BY <1>4, <2>1, <3>1
  <2>7. /\ Range(a.left) \cap Range(a.batch) = {}
        /\ (Range(a.left) \cup Range(a.batch)) \cap Range(t.running) = {}
    BY <1>2, <1>4, <2>1, <2>2, <2>4
  <2>8. DecodeOK(s, a, n)
    BY <1>2, <2>2, <2>4, <2>5, <2>6, <2>7 DEF DecodeOK
  <2> QED BY <2>8 DEF a
<1>7. CASE ~CanAppend(acc.s, r) /\ resident
  <2> DEFINE t == [acc.s EXCEPT !.running = Append(acc.s.running, r)]
  <2>1. /\ Append(acc.s.running, r) \in Seq(Requests) /\ IsInjective(Append(acc.s.running, r))
        /\ Range(Append(acc.s.running, r)) = Range(acc.s.running) \cup {r}
    BY <1>1, <1>2, <1>4, AppendNewProperties
  <2>2. /\ t \in Scheds /\ t.waiting = acc.s.waiting /\ t.running = Append(acc.s.running, r)
        /\ t.bypasses = acc.s.bypasses /\ t.heavy = acc.s.heavy /\ t.reqs = acc.s.reqs
    BY <1>1, <2>1 DEF Scheds
  <2>3. a = [acc EXCEPT !.s = t, !.left = Tail(acc.left)]
    BY <1>1, <1>7 DEF DecodeTurn, r
  <2> HIDE DEF t, a
  <2>4. WellFormed(t)
    BY <1>1, <1>2, <1>4, <2>1, <2>2 DEF WellFormed
  <2>5. /\ a.s = t /\ a.left = Tail(acc.left) /\ a.batch = acc.batch
        /\ a \in [s : Scheds, left : Seq(Requests), batch : Seq(Requests)]
    BY <1>1, <1>2, <2>2, <2>3
  <2>6. Steady(s, t)
    BY <1>4, <2>2, <2>4 DEF Steady
  <2>7. \A x \in Range(a.left) \cup Range(a.batch) : t.reqs[x].st = "decoding"
    BY <1>2, <1>4, <2>2, <2>5
  <2>8. /\ Range(a.left) \cap Range(a.batch) = {}
        /\ (Range(a.left) \cup Range(a.batch)) \cap Range(t.running) = {}
    BY <1>2, <1>4, <2>1, <2>2, <2>5
  <2>9. DecodeOK(s, a, n)
    BY <1>1, <1>2, <2>5, <2>6, <2>7, <2>8 DEF DecodeOK
  <2> QED BY <2>9 DEF a
<1>8. CASE ~CanAppend(acc.s, r) /\ ~resident
  <2> DEFINE t == Preempt(acc.s, v)
  <2>1. v \in Requests /\ acc.s.reqs[v].st = "decoding" /\ v \notin Range(acc.s.running)
    BY <1>3, <1>4, <1>5
  <2>2. /\ WellFormed(t) /\ t.running = acc.s.running
        /\ t.bypasses = acc.s.bypasses /\ t.heavy = acc.s.heavy
        /\ \A x \in Requests \ {v} : t.reqs[x].st = acc.s.reqs[x].st
    BY <1>1, <2>1, PreemptEffect
  <2>3. a = [acc EXCEPT !.left = Front(acc.left), !.s = t]
    BY <1>8 DEF DecodeTurn, r, v
  <2> HIDE DEF t, a
  <2>4. /\ a.s = t /\ a.left = Front(acc.left) /\ a.batch = acc.batch
        /\ a \in [s : Scheds, left : Seq(Requests), batch : Seq(Requests)]
    BY <1>1, <1>3, <2>2, <2>3 DEF WellFormed
  <2>5. s.reqs[v].st = "decoding"
    BY <1>4, <2>1 DEF Steady
  <2>6. Steady(s, t)
    BY <1>4, <2>2, <2>5 DEF Steady
  <2>7. \A x \in Range(a.left) \cup Range(a.batch) : t.reqs[x].st = "decoding"
    <3>1. \A x \in Range(a.left) \cup Range(a.batch) :
            x \in Range(acc.left) \cup Range(acc.batch) /\ x \in Requests \ {v}
      BY <1>3, <1>4, <1>5, <2>4
    <3> QED BY <1>4, <2>2, <3>1
  <2>8. /\ Range(a.left) \cap Range(a.batch) = {}
        /\ (Range(a.left) \cup Range(a.batch)) \cap Range(t.running) = {}
    BY <1>3, <1>4, <2>2, <2>4
  <2>9. DecodeOK(s, a, n)
    BY <1>1, <1>3, <2>4, <2>6, <2>7, <2>8 DEF DecodeOK
  <2> QED BY <2>9 DEF a
<1> QED BY <1>6, <1>7, <1>8

\* DecodePlan(s, resident) is planned from a recursive function that exists.
LEMMA DecodeTurnsExist ==
  ASSUME NEW s, NEW resident, Len(Decoders(s)) \in Nat
  PROVE  \E f : /\ DecodePlan(s, resident) = DecodePlanned(f[Len(Decoders(s))])
                /\ f[0] = [s |-> [s EXCEPT !.running = Those(@, Requests \ Decoding(s))],
                           left |-> Decoders(s), batch |-> <<>>]
                /\ \A k \in 1 .. Len(Decoders(s)) : f[k] = DecodeTurn(f[k - 1], resident)
<1> DEFINE n == Len(Decoders(s))
           start == [s |-> [s EXCEPT !.running = Those(@, Requests \ Decoding(s))],
                     left |-> Decoders(s), batch |-> <<>>]
           Step(f, k) == IF k = 0 THEN start ELSE DecodeTurn(f[k - 1], resident)
           N == {m \in Nat : m <= n => \E f : f = [k \in 0 .. m |-> Step(f, k)]}
           F == CHOOSE f : f = [k \in 0 .. n |-> Step(f, k)]
<1>6. DecodePlan(s, resident) = DecodePlanned(F[n])
  BY DEF DecodePlan
<1> HIDE DEF start
<1>1. 0 \in N
  <2> DEFINE g == [k \in 0 .. 0 |-> start]
  <2>1. g = [k \in 0 .. 0 |-> Step(g, k)]
    OBVIOUS
  <2> QED BY <2>1
<1>2. ASSUME NEW m \in Nat, m \in N PROVE m + 1 \in N
  <2> SUFFICES ASSUME m + 1 <= n PROVE \E f : f = [k \in 0 .. m + 1 |-> Step(f, k)]
    OBVIOUS
  <2>1. PICK g : g = [k \in 0 .. m |-> Step(g, k)]
    BY <1>2
  <2> DEFINE h == [k \in 0 .. m + 1 |-> IF k = m + 1 THEN Step(g, m + 1) ELSE g[k]]
  <2>2. ASSUME NEW k \in 0 .. m + 1 PROVE h[k] = Step(h, k)
    <3>1. k # 0 => k - 1 \in 0 .. m /\ h[k - 1] = g[k - 1]
      OBVIOUS
    <3>2. k # m + 1 => g[k] = Step(g, k)
      <4>1. k # m + 1 => k \in 0 .. m
        OBVIOUS
      <4> QED BY <2>1, <4>1
    <3>3. h[k] = Step(g, k)
      BY <3>2
    <3> QED BY <3>1, <3>3
  <2>3. h = [k \in 0 .. m + 1 |-> Step(h, k)]
    BY <2>2
  <2> QED BY <2>3
<1>3. \A m \in Nat : m \in N
  <2> HIDE DEF N
  <2> QED BY <1>1, <1>2, NatSetInduction
<1>4. \E f : f = [k \in 0 .. n |-> Step(f, k)]
  <2>1. n \in N /\ n <= n
    <3> HIDE DEF N
    <3> QED BY <1>3
  <2> QED BY <2>1
<1>5. F = [k \in 0 .. n |-> Step(F, k)]
  BY <1>4
<1> HIDE DEF F
<1>7. F[0] = start /\ \A k \in 1 .. n : F[k] = Step(F, k)
  <2>1. \A k \in 0 .. n : F[k] = Step(F, k)
    BY <1>5
  <2>2. 0 \in 0 .. n /\ \A k \in 1 .. n : k \in 0 .. n
    OBVIOUS
  <2>3. F[0] = Step(F, 0)
    BY <2>1, <2>2
  <2> QED BY <2>1, <2>2, <2>3
<1>8. \A k \in 1 .. n : F[k] = DecodeTurn(F[k - 1], resident)
  BY <1>7
<1> QED BY <1>6, <1>7, <1>8 DEF start

\* What recording a decode batch does.
LEMMA DecodePlannedEffect ==
  ASSUME NEW s, WellFormed(s), NEW acc, DecodeOK(s, acc, 0)
  PROVE  LET p == DecodePlanned(acc)
         IN  /\ p \in Plans /\ Steady(s, p.s) /\ p.phase # "prefill"
             /\ \A r \in Range(p.batch) : p.s.reqs[r].st = "decoding"
<1> DEFINE p == DecodePlanned(acc)
<1>1. /\ acc.s \in Scheds /\ acc.batch \in Seq(Requests) /\ acc.s.running \in Seq(Requests)
      /\ WellFormed(acc.s) /\ Steady(s, acc.s)
      /\ IsInjective(acc.batch) /\ IsInjective(acc.s.running)
      /\ Range(acc.batch) \cap Range(acc.s.running) = {}
      /\ \A r \in Range(acc.batch) : acc.s.reqs[r].st = "decoding"
  BY DEF DecodeOK, Steady, WellFormed, Scheds
<1>2. CASE acc.batch = <<>>
  <2>1. p = [s |-> acc.s, phase |-> "none", batch |-> <<>>]
    BY <1>2 DEF DecodePlanned
  <2> HIDE DEF p
  <2>2. p \in Plans /\ p.s = acc.s /\ p.batch = acc.batch /\ p.phase # "prefill"
    BY <1>1, <1>2, <2>1 DEF Plans
  <2> QED BY <1>1, <2>2 DEF p
<1>3. CASE acc.batch # <<>>
  <2> DEFINE joined == acc.batch \o acc.s.running
             since == Min({acc.s.sinceHeavy + 1, MinDecode})
             t == [acc.s EXCEPT !.running = joined, !.consecutive = 0, !.sinceHeavy = since]
  <2>1. /\ joined \in Seq(Requests) /\ IsInjective(joined)
        /\ Range(joined) = Range(acc.batch) \cup Range(acc.s.running)
    BY <1>1, JoinProperties
  <2>2. since \in Int
    <3>1. acc.s.sinceHeavy + 1 \in Int /\ MinDecode \in Int
      BY <1>1, PolicyAssumption DEF Scheds
    <3>2. since \in {acc.s.sinceHeavy + 1, MinDecode}
      BY <3>1, MinPair
    <3> QED BY <3>1, <3>2
  <2>3. p = [s |-> t, phase |-> "decode", batch |-> acc.batch]
    BY <1>3 DEF DecodePlanned
  <2> HIDE DEF joined, since
  <2>a. 0 \in Int
    OBVIOUS
  <2>b. t = [reqs |-> acc.s.reqs, waiting |-> acc.s.waiting, running |-> joined, consecutive |-> 0,
             sinceHeavy |-> since, bypasses |-> acc.s.bypasses, heavy |-> acc.s.heavy,
             fault |-> acc.s.fault]
    <3>1. PICK u : u = acc.s
      OBVIOUS
    <3>2. t = [u EXCEPT !.running = joined, !.consecutive = 0, !.sinceHeavy = since]
      BY <3>1
    <3> HIDE DEF t
    <3>3. u \in Scheds
      BY <1>1, <3>1
    <3>4. t = [reqs |-> u.reqs, waiting |-> u.waiting, running |-> joined, consecutive |-> 0,
               sinceHeavy |-> since, bypasses |-> u.bypasses, heavy |-> u.heavy, fault |-> u.fault]
      BY <3>2, <3>3 DEF Scheds
    <3> QED BY <3>1, <3>4
  <2> HIDE DEF t
  <2>c. /\ acc.s.reqs \in [Requests -> Rows] /\ acc.s.waiting \in Seq(Requests)
        /\ acc.s.bypasses \in Nat /\ acc.s.heavy \in BOOLEAN /\ acc.s.fault \in Faults
    BY <1>1 DEF Scheds
  <2>4. /\ t \in Scheds /\ t.running = joined /\ t.waiting = acc.s.waiting /\ t.reqs = acc.s.reqs
        /\ t.bypasses = acc.s.bypasses /\ t.heavy = acc.s.heavy
    <3>1. t.heavy = acc.s.heavy
      BY <2>b, Zenon
    <3> QED BY <2>1, <2>2, <2>a, <2>b, <2>c, <3>1 DEF Scheds
  <2> HIDE DEF p
  <2>5. WellFormed(t)
    BY <1>1, <2>1, <2>4 DEF WellFormed
  <2>6. Steady(s, t)
    BY <1>1, <2>4, <2>5 DEF Steady
  <2>7. p \in Plans /\ p.s = t /\ p.batch = acc.batch /\ p.phase # "prefill"
    BY <1>1, <2>3, <2>4 DEF Plans
  <2> QED BY <1>1, <2>4, <2>6, <2>7 DEF p
<1> QED BY <1>2, <1>3

\* A decode plan takes decoding requests, and disturbs no others.
LEMMA DecodePlanProperties ==
  ASSUME NEW s, WellFormed(s), NEW resident \in BOOLEAN
  PROVE  LET p == DecodePlan(s, resident)
         IN  /\ p \in Plans /\ Steady(s, p.s) /\ p.phase # "prefill"
             /\ \A r \in Range(p.batch) : p.s.reqs[r].st = "decoding"
<1> DEFINE d == Decoders(s)
           n == Len(d)
           rest == Those(s.running, Requests \ Decoding(s))
           u == [s EXCEPT !.running = rest]
           start == [s |-> u, left |-> d, batch |-> <<>>]
<1>1. /\ s \in Scheds /\ s.running \in Seq(Requests) /\ IsInjective(s.running)
      /\ Range(s.running) \subseteq Requests
  BY LenProperties, ElementOfSeq DEF WellFormed, Scheds, Range
<1>2. /\ d \in Seq(Requests) /\ IsInjective(d) /\ Range(d) = Range(s.running) \cap Decoding(s)
  BY <1>1, ThoseProperties DEF Decoders
<1>3. /\ rest \in Seq(Requests) /\ IsInjective(rest)
      /\ Range(rest) = Range(s.running) \cap (Requests \ Decoding(s))
  BY <1>1, ThoseProperties
<1>4. n \in Nat
  BY <1>2, LenProperties
<1>5. PICK f : /\ DecodePlan(s, resident) = DecodePlanned(f[n])
               /\ f[0] = start
               /\ \A k \in 1 .. n : f[k] = DecodeTurn(f[k - 1], resident)
  BY <1>4, DecodeTurnsExist
<1> HIDE DEF d, rest
<1>6. /\ u \in Scheds /\ u.running = rest /\ u.waiting = s.waiting /\ u.reqs = s.reqs
      /\ u.bypasses = s.bypasses /\ u.heavy = s.heavy
  BY <1>1, <1>3 DEF Scheds
<1> HIDE DEF u
<1>7. DecodeOK(s, start, n)
  <2>1. WellFormed(u)
    BY <1>3, <1>6 DEF WellFormed
  <2>2. Steady(s, u)
    BY <1>6, <2>1 DEF Steady
  <2>3. /\ start.s = u /\ start.left = d /\ start.batch = <<>>
        /\ start \in [s : Scheds, left : Seq(Requests), batch : Seq(Requests)]
    BY <1>2, <1>6
  <2>4. <<>> \in Seq(Requests) /\ Range(<<>>) = {} /\ IsInjective(<<>>)
    BY NoElements
  <2>5. \A r \in Range(d) : u.reqs[r].st = "decoding"
    BY <1>2, <1>6 DEF Decoding
  <2> HIDE DEF start
  <2> QED BY <1>2, <1>3, <1>6, <2>2, <2>3, <2>4, <2>5 DEF DecodeOK
<1> DEFINE N == {m \in Nat : m <= n => DecodeOK(s, f[m], n - m)}
<1>8. 0 \in N
  BY <1>4, <1>5, <1>7
<1>9. ASSUME NEW m \in Nat, m \in N PROVE m + 1 \in N
  <2> SUFFICES ASSUME m + 1 <= n PROVE DecodeOK(s, f[m + 1], n - (m + 1))
    OBVIOUS
  <2>1. m + 1 \in 1 .. n /\ (m + 1) - 1 = m /\ n - (m + 1) \in Nat /\ n - m = (n - (m + 1)) + 1
    BY <1>4
  <2>2. DecodeOK(s, f[m], (n - (m + 1)) + 1)
    BY <1>4, <1>9, <2>1
  <2>3. f[m + 1] = DecodeTurn(f[m], resident)
    BY <1>5, <2>1
  <2>4. DecodeOK(s, DecodeTurn(f[m], resident), n - (m + 1))
    <3> DEFINE k == n - (m + 1)
    <3> HIDE DEF k
    <3>1. k \in Nat /\ DecodeOK(s, f[m], k + 1)
      BY <2>1, <2>2 DEF k
    <3>2. DecodeOK(s, DecodeTurn(f[m], resident), k)
      BY <3>1, DecodeTurnKeeps
    <3> QED BY <3>2 DEF k
  <2> QED BY <2>3, <2>4
<1>10. DecodeOK(s, f[n], 0)
  <2>1. n \in N
    <3> HIDE DEF N
    <3> QED BY <1>4, <1>8, <1>9, NatSetInduction
  <2> QED BY <1>4, <2>1
<1> HIDE DEF n
<1> QED BY <1>5, <1>10, DecodePlannedEffect

-----------------------------------------------------------------------------
(* Whole plans.                                                              *)

\* A plan for the scheduler s: it counts its bypasses, and takes nobody who waits.
PlanOK(s, p) ==
  /\ p \in Plans /\ Progress(s, p.s)
  /\ p.phase = "prefill" => Prefilling(p.s, p.batch)
  /\ \A r \in Range(p.batch) : p.s.reqs[r].st \in {"prefilling", "decoding"}

LEMMA DecodePlanOK ==
  ASSUME NEW s, WellFormed(s), s.heavy = FALSE, NEW resident \in BOOLEAN
  PROVE  PlanOK(s, DecodePlan(s, resident))
<1> DEFINE p == DecodePlan(s, resident)
<1>1. /\ p \in Plans /\ Steady(s, p.s) /\ p.phase # "prefill"
      /\ \A r \in Range(p.batch) : p.s.reqs[r].st = "decoding"
  BY DecodePlanProperties
<1> HIDE DEF p
<1>2. Progress(s, s)
  BY NoProgress
<1>3. Progress(s, p.s)
  BY <1>1, <1>2, SteadyAfter
<1>4. PlanOK(s, p)
  BY <1>1, <1>3 DEF PlanOK
<1> QED BY <1>4 DEF p

LEMMA PrefillPlanOK ==
  ASSUME NEW s, WellFormed(s), s.heavy = FALSE, config \in Configs, ~Slos,
         NEW batch, Prefilling(s, batch)
  PROVE  /\ PlanOK(s, PrefillPlan(s, batch, 3))
         /\ PrefillPlan(s, batch, 3).batch = <<>> =>
              /\ PrefillPlan(s, batch, 3).s.reqs = s.reqs
              /\ PrefillPlan(s, batch, 3).s.waiting = s.waiting
              /\ PrefillPlan(s, batch, 3).s.heavy = FALSE
              /\ s.bypasses <= PrefillPlan(s, batch, 3).s.bypasses
<1> DEFINE p == PrefillPlan(s, batch, 3)
<1>1. /\ p \in Plans /\ Progress(s, p.s) /\ Prefilling(p.s, p.batch)
      /\ p.batch = <<>> => /\ p.s.reqs = s.reqs /\ p.s.waiting = s.waiting
                           /\ p.s.heavy = FALSE /\ s.bypasses <= p.s.bypasses
  BY PrefillPlanProperties
<1> HIDE DEF p
<1>2. PlanOK(s, p)
  BY <1>1 DEF PlanOK, Prefilling
<1> QED BY <1>1, <1>2 DEF p

\* A plan that cannot be made raises.
LEMMA RaiseOK ==
  ASSUME NEW s, WellFormed(s), NEW p, PlanOK(s, p), NEW e \in Faults
  PROVE  PlanOK(s, Raise(p, e))
<1> DEFINE t == [p.s EXCEPT !.fault = e]
           q == Raise(p, e)
<1>1. p \in Plans /\ p.s \in Scheds /\ WellFormed(p.s)
  BY DEF PlanOK, Progress, WellFormed
<1>2. q = [p EXCEPT !.s = t]
  BY DEF Raise
<1>3. /\ t \in Scheds /\ t.reqs = p.s.reqs /\ t.waiting = p.s.waiting /\ t.running = p.s.running
      /\ t.bypasses = p.s.bypasses /\ t.heavy = p.s.heavy
  BY <1>1 DEF Scheds
<1> HIDE DEF t, q
<1>4. WellFormed(t)
  BY <1>1, <1>3 DEF WellFormed
<1>5. p.s.bypasses <= t.bypasses
  BY <1>1, <1>3 DEF Scheds
<1>6. Progress(s, t)
  BY <1>3, <1>4, <1>5, MoreBypasses DEF PlanOK
<1>7. q \in Plans /\ q.s = t /\ q.batch = p.batch /\ q.phase = p.phase
  BY <1>1, <1>2, <1>3 DEF Plans
<1>8. PlanOK(s, q)
  BY <1>3, <1>6, <1>7 DEF PlanOK, Prefilling
<1> QED BY <1>8 DEF q

LEMMA ScheduleDecodeOK ==
  ASSUME NEW s, WellFormed(s), s.heavy = FALSE
  PROVE  PlanOK(s, ScheduleDecode(s))
<1> DEFINE none == [s |-> s, phase |-> "none", batch |-> <<>>]
           p == DecodePlan(s, FALSE)
<1>1. PlanOK(s, none)
  <2>1. Progress(s, s)
    BY NoProgress
  <2>2. none \in Plans /\ none.s = s /\ none.batch = <<>> /\ none.phase # "prefill"
    <3>1. <<>> \in Seq(Requests) /\ s \in Scheds
      BY NoElements DEF WellFormed
    <3> QED BY <3>1 DEF Plans
  <2>3. Range(<<>>) = {}
    BY NoElements
  <2> HIDE DEF none
  <2> QED BY <2>1, <2>2, <2>3 DEF PlanOK
<1>2. PlanOK(s, p)
  BY DecodePlanOK
<1>3. "NoDecodeWork" \in Faults /\ "NothingRunnable" \in Faults
  BY DEF Faults
<1>4. PlanOK(s, Raise(none, "NoDecodeWork")) /\ PlanOK(s, Raise(p, "NothingRunnable"))
  <2> HIDE DEF none, p
  <2> QED BY <1>1, <1>2, <1>3, RaiseOK
<1>5. \/ ScheduleDecode(s) = Raise(none, "NoDecodeWork")
      \/ ScheduleDecode(s) = Raise(p, "NothingRunnable")
      \/ ScheduleDecode(s) = p
  <2> HIDE DEF Raise, DecodePlan, HasDecode
  <2> QED BY Zenon DEF ScheduleDecode
<1> HIDE DEF none, p
<1> QED BY <1>2, <1>4, <1>5

LEMMA ScheduleRestOK ==
  ASSUME NEW s, WellFormed(s), s.heavy = FALSE, config \in Configs, ~Slos
  PROVE  PlanOK(s, ScheduleRest(s))
<1> DEFINE d == DecodePlan(s, TRUE)
           p == PrefillPlan(s, CollectRunning(s), 3)
           e == ScheduleDecode(s)
<1>1. PlanOK(s, d) /\ PlanOK(s, e)
  BY DecodePlanOK, ScheduleDecodeOK
<1>2. PlanOK(s, p)
  BY CollectProperties, PrefillPlanOK
<1>3. ScheduleRest(s) = d \/ ScheduleRest(s) = p \/ ScheduleRest(s) = e
  <2> HIDE DEF DecodePlan, PrefillPlan, ScheduleDecode
  <2> QED BY Zenon DEF ScheduleRest, OrElse
<1> HIDE DEF d, p, e
<1> QED BY <1>1, <1>2, <1>3

\* A plan that _schedule makes counts every bypass, also those of an attempt in vain.
LEMMA SchedulePlanOK ==
  ASSUME NEW s, WellFormed(s), s.heavy = FALSE, config \in Configs, ~Slos
  PROVE  PlanOK(s, SchedulePlan(s))
<1> DEFINE p == PrefillPlan(s, CollectRunning(s), 3)
           q == ScheduleRest(p.s)
           e == ScheduleRest(s)
<1>1. PlanOK(s, p) /\ (p.batch = <<>> => /\ p.s.reqs = s.reqs /\ p.s.waiting = s.waiting
                                         /\ p.s.heavy = FALSE /\ s.bypasses <= p.s.bypasses)
  BY CollectProperties, PrefillPlanOK
<1>2. PlanOK(s, e)
  BY ScheduleRestOK
<1>3. SchedulePlan(s) = p \/ (p.batch = <<>> /\ SchedulePlan(s) = q) \/ SchedulePlan(s) = e
  BY Zenon DEF SchedulePlan, OrElse
<1> HIDE DEF p
<1>4. ASSUME p.batch = <<>> PROVE PlanOK(s, q)
  <2>1. WellFormed(p.s)
    BY <1>1 DEF PlanOK, Progress
  <2>2. PlanOK(p.s, q)
    BY <1>1, <1>4, <2>1, ScheduleRestOK
  <2> HIDE DEF q
  <2>3. Progress(p.s, q.s)
    BY <2>2 DEF PlanOK
  <2>4. Progress(s, q.s)
    BY <1>1, <1>4, <2>1, <2>3, QuietBefore
  <2> QED BY <2>2, <2>4 DEF PlanOK
<1> HIDE DEF q, e
<1> QED BY <1>1, <1>2, <1>3, <1>4

-----------------------------------------------------------------------------
(* The commit of a plan, and the step.                                       *)

\* A commit: the members of the batch decode on or are done, the others stay.
LEMMA CommittedEffect ==
  ASSUME NEW s, WellFormed(s), NEW batch \in Seq(Requests), NEW r \in Requests
  PROVE  /\ Committed(s, batch, r) \in Rows
         /\ r \in Ended(s, batch) => Committed(s, batch, r).st = "done"
         /\ r \in Range(batch) \ Ended(s, batch) => Committed(s, batch, r).st = "decoding"
         /\ r \notin Range(batch) => Committed(s, batch, r) = s.reqs[r]
<1> DEFINE row == s.reqs[r]
           ended == [row EXCEPT !.st = "done", !.pages = 0, !.out = MaxNew]
           decoded == [row EXCEPT !.st = "decoding", !.out = @ + 1]
           E == Ended(s, batch)
<1>1. row \in Rows
  BY DEF WellFormed, Scheds
<1>2. MaxNew \in Nat /\ 0 \in Int
  BY PolicyAssumption
<1>3. E \subseteq Range(batch) /\ ToSet(batch) = Range(batch)
  BY ToSetRange DEF Ended
<1>4. Committed(s, batch, r) =
        IF r \in E THEN ended ELSE IF r \in Range(batch) \ E THEN decoded ELSE row
  BY <1>3 DEF Committed
<1> HIDE DEF row, E
<1>5. ended \in Rows /\ ended.st = "done"
  BY <1>1, <1>2 DEF Rows, Statuses
<1>6. decoded \in Rows /\ decoded.st = "decoding"
  <2>1. row.out + 1 \in Nat
    BY <1>1 DEF Rows
  <2>2. PICK n : n = row.out + 1
    OBVIOUS
  <2>3. decoded = [row EXCEPT !.st = "decoding", !.out = n]
    BY <2>2
  <2> HIDE DEF decoded
  <2> QED BY <1>1, <2>1, <2>2, <2>3 DEF Rows, Statuses
<1> HIDE DEF ended, decoded
<1>7. /\ Committed(s, batch, r) \in Rows
      /\ r \in E => Committed(s, batch, r).st = "done"
      /\ r \in Range(batch) \ E => Committed(s, batch, r).st = "decoding"
      /\ r \notin Range(batch) => Committed(s, batch, r) = row
  BY <1>1, <1>3, <1>4, <1>5, <1>6
<1> QED BY <1>7 DEF row, E

LEMMA CommitEffect ==
  ASSUME NEW s, WellFormed(s), NEW batch \in Seq(Requests),
         \A r \in Range(batch) : s.reqs[r].st \in {"prefilling", "decoding"}
  PROVE  LET t == Commit(s, batch)
         IN  /\ WellFormed(t)
             /\ t.bypasses = s.bypasses /\ t.heavy = s.heavy /\ t.fault = s.fault
             /\ \A r \in Range(batch) : t.reqs[r].st \in {"decoding", "done"}
             /\ \A r \in Requests \ Range(batch) : t.reqs[r] = s.reqs[r]
<1> DEFINE t == Commit(s, batch)
           E == Ended(s, batch)
           rows == [r \in Requests |-> Committed(s, batch, r)]
           rest == Those(s.running, Requests \ E)
<1>1. /\ s \in Scheds /\ s.running \in Seq(Requests) /\ s.waiting \in Seq(Requests)
      /\ IsInjective(s.running)
  BY DEF WellFormed, Scheds
<1>2. \A r \in Requests :
        /\ Committed(s, batch, r) \in Rows
        /\ r \in E => Committed(s, batch, r).st = "done"
        /\ r \in Range(batch) \ E => Committed(s, batch, r).st = "decoding"
        /\ r \notin Range(batch) => Committed(s, batch, r) = s.reqs[r]
  BY CommittedEffect
<1>3. /\ rest \in Seq(Requests) /\ IsInjective(rest)
      /\ Range(rest) = Range(s.running) \cap (Requests \ E)
  BY <1>1, ThoseProperties
<1>4. Range(batch) \subseteq Requests /\ Range(s.waiting) \subseteq Requests
  BY <1>1, LenProperties, ElementOfSeq DEF Range
<1>5. t = [s EXCEPT !.reqs = rows, !.running = rest]
  BY DEF Commit
<1> HIDE DEF E, t, rest
<1>6. rows \in [Requests -> Rows] /\ \A r \in Requests : rows[r] = Committed(s, batch, r)
  BY <1>2
<1> HIDE DEF rows
<1>7. t = [reqs |-> rows, waiting |-> s.waiting, running |-> rest, consecutive |-> s.consecutive,
           sinceHeavy |-> s.sinceHeavy, bypasses |-> s.bypasses, heavy |-> s.heavy,
           fault |-> s.fault]
  <2>1. PICK u : u = s
    OBVIOUS
  <2>2. t = [u EXCEPT !.reqs = rows, !.running = rest]
    BY <1>5, <2>1
  <2>3. u \in Scheds
    BY <1>1, <2>1
  <2>4. t = [reqs |-> rows, waiting |-> u.waiting, running |-> rest, consecutive |-> u.consecutive,
             sinceHeavy |-> u.sinceHeavy, bypasses |-> u.bypasses, heavy |-> u.heavy,
             fault |-> u.fault]
    BY <2>2, <2>3 DEF Scheds
  <2> QED BY <2>1, <2>4
<1>8. /\ t.reqs = rows /\ t.waiting = s.waiting /\ t.running = rest
      /\ t.bypasses = s.bypasses /\ t.fault = s.fault
  BY <1>7
<1>9. t.heavy = s.heavy
  BY <1>7, Zenon
<1>10. t \in Scheds
  <2>1. /\ s.waiting \in Seq(Requests) /\ s.consecutive \in Int /\ s.sinceHeavy \in Int
        /\ s.bypasses \in Nat /\ s.heavy \in BOOLEAN /\ s.fault \in Faults
    BY <1>1 DEF Scheds
  <2> QED BY <1>3, <1>6, <1>7, <2>1 DEF Scheds
<1>11. \A r \in Range(batch) : t.reqs[r].st \in {"decoding", "done"}
  BY <1>2, <1>4, <1>6, <1>8
<1>12. \A r \in Requests \ Range(batch) : t.reqs[r] = s.reqs[r]
  BY <1>2, <1>6, <1>8
<1>13. ASSUME NEW r \in Range(s.waiting) PROVE t.reqs[r].st = "waiting"
  BY <1>4, <1>12 DEF WellFormed
<1>14. ASSUME NEW r \in Range(rest) PROVE t.reqs[r].st \in {"prefilling", "decoding"}
  <2>1. r \in Requests /\ r \notin E /\ r \in Range(s.running)
    BY <1>3
  <2>2. CASE r \in Range(batch)
    BY <1>2, <1>6, <1>8, <2>1, <2>2
  <2>3. CASE r \notin Range(batch)
    BY <1>12, <2>1, <2>3 DEF WellFormed
  <2> QED BY <2>2, <2>3
<1>15. WellFormed(t)
  BY <1>3, <1>8, <1>10, <1>13, <1>14 DEF WellFormed
<1> QED BY <1>8, <1>9, <1>11, <1>12, <1>15 DEF t

\* The inductive invariant of the step loop without deadlines.
PoliciesInv ==
  /\ config \in Configs /\ clock \in Nat
  /\ ~Slos => /\ WellFormed(sched)
              /\ Idle => sched.heavy = FALSE
              /\ pending \in [members : Seq(Requests), left : Int]
              /\ Prefilling(sched, pending.members)
              /\ passed \in [Requests -> Nat]
              /\ \A r \in Requests : passed[r] <= sched.bypasses

\* Whoever the commit of a plan leaves admitted, the plan has admitted.
LEMMA PassedAdmitted ==
  ASSUME WellFormed(sched), NEW t, NEW u,
         \A r \in Requests : t.reqs[r].st = "waiting" => u.reqs[r].st = "waiting"
  PROVE  /\ PassedBy(u) \subseteq Admitted(sched, t)
         /\ Cardinality(PassedBy(u)) \in Nat
         /\ Cardinality(PassedBy(u)) <= Cardinality(Admitted(sched, t))
<1>1. Range(sched.waiting) \subseteq Requests
  BY LenProperties, ElementOfSeq DEF WellFormed, Scheds, Range
<1>2. PassedBy(u) \subseteq Admitted(sched, t)
  BY <1>1, ToSetRange DEF PassedBy, Admitted
<1>3. IsFiniteSet(Admitted(sched, t)) /\ Cardinality(Admitted(sched, t)) \in Nat
  BY AdmittedFinite
<1>4. IsFiniteSet(PassedBy(u)) /\ Cardinality(PassedBy(u)) <= Cardinality(Admitted(sched, t))
  BY <1>2, <1>3, FS_Subset
<1> QED BY <1>2, <1>4, FS_CardinalityType

\* What a step leaves behind: the part of the invariant that is about the scheduler, and
\* every prefill that the step did not run.
StepOK(p) ==
  /\ WellFormed(sched') /\ (sched'.fault = "none" => sched'.heavy = FALSE)
  /\ passed' \in [Requests -> Nat]
  /\ \A r \in Requests : passed'[r] <= sched'.bypasses
  /\ \A r \in Requests \ Range(p.batch) :
       p.s.reqs[r].st = "prefilling" => sched'.reqs[r].st = "prefilling"

LEMMA RunScheduler ==
  ASSUME NEW s, NEW p, PlanOK(s, p), Run(p)
  PROVE  /\ WellFormed(sched') /\ (sched'.fault = "none" => sched'.heavy = FALSE)
         /\ sched'.bypasses = p.s.bypasses
         /\ \A r \in Range(p.batch) : sched'.reqs[r].st # "waiting" \/ sched' = p.s
         /\ \A r \in Requests \ Range(p.batch) : sched'.reqs[r] = p.s.reqs[r]
<1> DEFINE c == Commit(p.s, p.batch)
           t == [c EXCEPT !.heavy = FALSE]
<1>1. WellFormed(p.s) /\ p.batch \in Seq(Requests)
  BY DEF PlanOK, Progress, Plans
<1>2. /\ WellFormed(c) /\ c.bypasses = p.s.bypasses /\ c.heavy = p.s.heavy /\ c.fault = p.s.fault
      /\ \A r \in Range(p.batch) : c.reqs[r].st \in {"decoding", "done"}
      /\ \A r \in Requests \ Range(p.batch) : c.reqs[r] = p.s.reqs[r]
  BY <1>1, CommitEffect DEF PlanOK
<1>3. sched' = IF p.s.fault # "none" THEN p.s ELSE t
  BY DEF Run
<1> HIDE DEF c
<1>4. /\ t \in Scheds /\ t.reqs = c.reqs /\ t.waiting = c.waiting /\ t.running = c.running
      /\ t.bypasses = c.bypasses /\ t.heavy = FALSE
  <2>1. c \in Scheds /\ FALSE \in BOOLEAN
    BY <1>2 DEF WellFormed
  <2>2. t \in Scheds
    BY <2>1 DEF Scheds
  <2> QED BY <2>1, <2>2 DEF Scheds
<1> HIDE DEF t
<1>5. WellFormed(t)
  BY <1>2, <1>4 DEF WellFormed
<1>6. CASE p.s.fault # "none"
  BY <1>1, <1>3, <1>6
<1>7. CASE p.s.fault = "none"
  <2>1. sched' = t
    BY <1>3, <1>7
  <2> QED BY <1>2, <1>4, <1>5, <2>1
<1> QED BY <1>6, <1>7

\* A plan, run and committed.
LEMMA RunKeeps ==
  ASSUME PoliciesInv, ~Slos, Idle, NEW p, PlanOK(sched, p), Run(p)
  PROVE  StepOK(p)
<1>1. /\ WellFormed(sched) /\ passed \in [Requests -> Nat]
      /\ \A r \in Requests : passed[r] <= sched.bypasses
  BY DEF PoliciesInv
<1>2. /\ WellFormed(sched') /\ (sched'.fault = "none" => sched'.heavy = FALSE)
      /\ sched'.bypasses = p.s.bypasses
      /\ \A r \in Range(p.batch) : sched'.reqs[r].st # "waiting" \/ sched' = p.s
      /\ \A r \in Requests \ Range(p.batch) : sched'.reqs[r] = p.s.reqs[r]
  BY RunScheduler
<1>3. \A r \in Requests : sched'.reqs[r].st = "waiting" <=> p.s.reqs[r].st = "waiting"
  BY <1>2 DEF PlanOK
<1> DEFINE n == Cardinality(PassedBy(sched'))
<1>4. n \in Nat /\ n <= Cardinality(Admitted(sched, p.s)) /\ Cardinality(Admitted(sched, p.s)) \in Nat
  <2>1. PICK u : u = sched'
    OBVIOUS
  <2>2. \A r \in Requests : p.s.reqs[r].st = "waiting" => u.reqs[r].st = "waiting"
    BY <1>3, <2>1
  <2>3. Cardinality(PassedBy(u)) \in Nat /\ Cardinality(PassedBy(u)) <= Cardinality(Admitted(sched, p.s))
    BY <1>1, <2>2, PassedAdmitted
  <2>4. PassedBy(u) = PassedBy(sched')
    BY <2>1
  <2> QED BY <1>1, <2>3, <2>4, AdmittedFinite
<1>5. passed' = [r \in Requests |->
        IF p.s.heavy THEN 0
        ELSE IF sched.waiting # <<>> /\ r = Head(sched.waiting) /\ sched'.reqs[r].st = "waiting"
        THEN passed[r] + n ELSE passed[r]]
  BY DEF Run
<1> HIDE DEF n
<1>6. passed' \in [Requests -> Nat]
  BY <1>1, <1>4, <1>5
<1>7. Counted(sched, p.s) /\ sched.bypasses \in Nat /\ p.s.bypasses \in Nat
  BY <1>1 DEF PlanOK, Progress, WellFormed, Scheds
<1>8. ASSUME NEW r \in Requests PROVE passed'[r] <= sched'.bypasses
  <2>1. passed[r] \in Nat /\ passed[r] <= sched.bypasses
    BY <1>1
  <2>2. CASE p.s.heavy
    BY <1>2, <1>5, <1>7, <2>2
  <2>3. CASE ~p.s.heavy /\ sched.waiting # <<>> /\ r = Head(sched.waiting)
             /\ sched'.reqs[r].st = "waiting"
    <3>1. sched.bypasses + Cardinality(Admitted(sched, p.s)) <= p.s.bypasses
      BY <1>3, <1>7, <2>3 DEF Counted
    <3>2. passed'[r] = passed[r] + n
      BY <1>5, <2>3
    <3> QED BY <1>2, <1>4, <1>7, <2>1, <3>1, <3>2
  <2>4. CASE ~p.s.heavy /\ ~(sched.waiting # <<>> /\ r = Head(sched.waiting)
                             /\ sched'.reqs[r].st = "waiting")
    <3>1. passed'[r] = passed[r]
      BY <1>5, <2>4
    <3>2. sched.bypasses <= p.s.bypasses
      BY <1>7, <2>4 DEF Counted
    <3> QED BY <1>2, <1>7, <2>1, <3>1, <3>2
  <2> QED BY <2>2, <2>3, <2>4
<1> QED BY <1>2, <1>6, <1>8 DEF StepOK

\* A prefill that is resumed, or one that the plan leaves behind, is intact.
LEMMA FinishKeeps ==
  ASSUME PoliciesInv, ~Slos, Idle, NEW s, Progress(sched, s), FinishPending(s)
  PROVE  /\ StepOK([s |-> s, phase |-> "prefill", batch |-> pending.members])
         /\ pending' = NoPending
<1> DEFINE p == [s |-> s, phase |-> "prefill", batch |-> pending.members]
<1>1. Prefilling(sched, pending.members)
  BY DEF PoliciesInv
<1>2. Range(pending.members) \subseteq Requests
  BY <1>1, LenProperties, ElementOfSeq DEF Prefilling, Range
<1>3. Prefilling(s, pending.members)
  BY <1>1, <1>2 DEF Progress, Keeps, Prefilling
<1>4. s \in Scheds /\ pending.members \in Seq(Requests)
  BY <1>3 DEF Progress, WellFormed, Prefilling
<1>5. p \in Plans /\ p.s = s /\ p.phase = "prefill" /\ p.batch = pending.members
  BY <1>4 DEF Plans
<1>6. Run(p) /\ pending' = NoPending
  BY DEF FinishPending
<1> HIDE DEF p
<1>7. PlanOK(sched, p)
  BY <1>3, <1>5 DEF PlanOK, Prefilling
<1> QED BY <1>6, <1>7, RunKeeps DEF p

\* The pause a step leaves behind.
PauseOK == pending' \in [members : Seq(Requests), left : Int] /\ Prefilling(sched', pending'.members)

LEMMA NoPauseOK == ASSUME pending' = NoPending PROVE PauseOK
<1>1. <<>> \in Seq(Requests) /\ Range(<<>>) = {}
  BY NoElements
<1>2. pending'.members = <<>> /\ pending' \in [members : Seq(Requests), left : Int]
  BY <1>1 DEF NoPending
<1> QED BY <1>1, <1>2 DEF PauseOK, Prefilling

\* A step that decodes leaves every prefilling batch as it is.
LEMMA DecodeLeaves ==
  ASSUME NEW p, NEW m, StepOK(p), Prefilling(p.s, m),
         \A r \in Range(p.batch) : p.s.reqs[r].st = "decoding"
  PROVE  Prefilling(sched', m)
<1>1. Range(m) \subseteq Requests
  BY LenProperties, ElementOfSeq DEF Prefilling, Range
<1>2. \A r \in Range(m) : r \notin Range(p.batch)
  BY DEF Prefilling
<1> QED BY <1>1, <1>2 DEF StepOK, Prefilling

LEMMA PausedKept ==
  ASSUME NEW s, NEW t, NEW m, Prefilling(s, m), Keeps(s, t)
  PROVE  Prefilling(t, m)
<1>1. Range(m) \subseteq Requests
  BY LenProperties, ElementOfSeq DEF Prefilling, Range
<1> QED BY <1>1 DEF Keeps, Prefilling

LEMMA StepInvariant ==
  ASSUME PoliciesInv, UNCHANGED <<config, clock>>, ~Slos => (\E p : StepOK(p)) /\ PauseOK
  PROVE  PoliciesInv'
<1>1. config' \in Configs /\ clock' \in Nat /\ Slos' = Slos /\ MaxBypasses' = MaxBypasses
  BY DEF PoliciesInv, Slos, Policy, MaxBypasses
<1>2. ASSUME ~Slos
      PROVE  /\ WellFormed(sched)' /\ (Idle' => sched'.heavy = FALSE)
             /\ pending' \in [members : Seq(Requests), left : Int]
             /\ Prefilling(sched', pending'.members)
             /\ passed' \in [Requests -> Nat]
             /\ \A r \in Requests : passed'[r] <= sched'.bypasses
  <2>1. PauseOK
    BY <1>2
  <2>4. PICK p : StepOK(p)
    BY <1>2
  <2>2. WellFormed(sched)'
    BY <1>1, <2>4 DEF StepOK, WellFormed
  <2>3. Idle' => sched'.heavy = FALSE
    <3>1. Idle' = (sched'.fault = "none")
      BY DEF Idle
    <3> QED BY <2>4, <3>1, Zenon DEF StepOK
  <2> QED BY <2>1, <2>4, <2>2, <2>3 DEF StepOK, PauseOK
<1>3. Slos \/ ~Slos
  OBVIOUS
<1> QED BY <1>1, <1>2, <1>3 DEF PoliciesInv

\* The state a step starts in.
LEMMA Startable ==
  ASSUME PoliciesInv, ~Slos, Idle
  PROVE  /\ WellFormed(sched) /\ sched.heavy = FALSE /\ config \in Configs
         /\ pending \in [members : Seq(Requests), left : Int]
         /\ Prefilling(sched, pending.members)
BY DEF PoliciesInv

LEMMA FinishStep ==
  ASSUME PoliciesInv, ~Slos, Idle, NEW s, Progress(sched, s), FinishPending(s)
  PROVE  StepOK([s |-> s, phase |-> "prefill", batch |-> pending.members]) /\ PauseOK
BY FinishKeeps, NoPauseOK

\* A resident decode: the pause survives it.
LEMMA DecodeStep ==
  ASSUME PoliciesInv, ~Slos, Idle, NEW p, p = DecodePlan(sched, TRUE), Run(p)
  PROVE  StepOK(p) /\ Prefilling(sched', pending.members)
<1>1. WellFormed(sched) /\ sched.heavy = FALSE /\ Prefilling(sched, pending.members)
  BY Startable
<1>2. PlanOK(sched, p)
  BY <1>1, DecodePlanOK
<1>3. Steady(sched, p.s) /\ \A r \in Range(p.batch) : p.s.reqs[r].st = "decoding"
  BY <1>1, DecodePlanProperties
<1>4. StepOK(p)
  BY <1>2, RunKeeps
<1>5. Keeps(sched, p.s)
  BY <1>2 DEF PlanOK, Progress
<1>6. Prefilling(p.s, pending.members)
  BY <1>1, <1>5, PausedKept
<1>7. Prefilling(sched', pending.members)
  BY <1>3, <1>4, <1>6, DecodeLeaves
<1> QED BY <1>4, <1>7

LEMMA DecodeOrFinishStep ==
  ASSUME PoliciesInv, ~Slos, Idle, DecodeOrFinish(DecodePlan(sched, TRUE))
  PROVE  (\E p : StepOK(p)) /\ PauseOK
<1>1. PICK p : p = DecodePlan(sched, TRUE)
  OBVIOUS
<1>2. WellFormed(sched) /\ sched.heavy = FALSE
      /\ pending \in [members : Seq(Requests), left : Int]
  BY Startable
<1>3. Progress(sched, p.s)
  BY <1>1, <1>2, DecodePlanOK DEF PlanOK
<1>4. DecodeOrFinish(p)
  BY <1>1
<1>5. CASE p.batch = <<>>
  <2>1. FinishPending(p.s)
    BY <1>4, <1>5 DEF DecodeOrFinish
  <2> QED BY <1>3, <2>1, FinishStep
<1>6. CASE p.batch # <<>>
  <2>1. Run(p) /\ pending' = pending
    BY <1>4, <1>6 DEF DecodeOrFinish
  <2>2. StepOK(p) /\ Prefilling(sched', pending.members)
    BY <1>1, <2>1, DecodeStep
  <2>3. PauseOK
    BY <1>2, <2>1, <2>2 DEF PauseOK
  <2> QED BY <2>2, <2>3
<1> QED BY <1>5, <1>6

LEMMA BeginPausedStep ==
  ASSUME PoliciesInv, ~Slos, Idle, NEW p, PlanOK(sched, p), p.phase = "prefill",
         NEW d, d = DecodePlan(p.s, TRUE), BeginPaused(p, d)
  PROVE  (\E q : StepOK(q)) /\ PauseOK
<1>1. /\ WellFormed(sched) /\ WellFormed(p.s) /\ Progress(sched, p.s)
      /\ Prefilling(p.s, p.batch) /\ p.batch \in Seq(Requests) /\ p \in Plans
  BY Startable DEF PlanOK, Progress, Prefilling
<1>2. /\ d \in Plans /\ Steady(p.s, d.s) /\ d.phase # "prefill"
      /\ \A r \in Range(d.batch) : d.s.reqs[r].st = "decoding"
  BY <1>1, DecodePlanProperties
<1>3. Progress(sched, d.s) /\ d.s \in Scheds
  BY <1>1, <1>2, SteadyAfter DEF Plans
<1>4. Keeps(p.s, d.s)
  BY <1>2 DEF Steady, Keeps
<1>5. Prefilling(d.s, p.batch)
  BY <1>1, <1>4, PausedKept
<1>6. CASE d.batch = <<>>
  <2> DEFINE q == [p EXCEPT !.s = d.s]
  <2>1. Run(q) /\ pending' = NoPending
    BY <1>6 DEF BeginPaused
  <2>2. q \in Plans /\ q.s = d.s /\ q.phase = p.phase /\ q.batch = p.batch
    BY <1>1, <1>3 DEF Plans
  <2> HIDE DEF q
  <2>3. PlanOK(sched, q)
    BY <1>3, <1>5, <2>2, ZenonT(40) DEF PlanOK, Prefilling
  <2>4. StepOK(q)
    BY <2>1, <2>3, RunKeeps
  <2> QED BY <2>1, <2>4, NoPauseOK
<1>7. CASE d.batch # <<>>
  <2>1. Run(d) /\ pending' = [members |-> p.batch, left |-> PrefillWork]
    BY <1>7 DEF BeginPaused
  <2>2. PlanOK(sched, d)
    BY <1>2, <1>3 DEF PlanOK
  <2>3. StepOK(d)
    BY <2>1, <2>2, RunKeeps
  <2>4. Prefilling(sched', p.batch)
    BY <1>2, <1>5, <2>3, DecodeLeaves
  <2>5. PrefillWork \in Int
    BY PolicyAssumption
  <2>6. PauseOK
    BY <1>1, <2>1, <2>4, <2>5 DEF PauseOK
  <2> QED BY <2>3, <2>6
<1> QED BY <1>6, <1>7

LEMMA ScheduleStep ==
  ASSUME PoliciesInv, ~Slos, Schedule
  PROVE  (\E q : StepOK(q)) /\ PauseOK
<1>1. Idle /\ pending = NoPending
  BY DEF Schedule
<1>2. /\ WellFormed(sched) /\ sched.heavy = FALSE /\ config \in Configs
      /\ pending \in [members : Seq(Requests), left : Int]
  BY <1>1, Startable
<1>3. PICK p \in {SchedulePlan(sched)} :
        IF Pauses(p) THEN BeginPaused(p, DecodePlan(p.s, TRUE)) ELSE Run(p) /\ UNCHANGED pending
  BY DEF Schedule
<1>4. PlanOK(sched, p)
  BY <1>2, <1>3, SchedulePlanOK
<1>5. CASE Pauses(p)
  <2>1. p.phase = "prefill"
    BY <1>5 DEF Pauses, MayPause
  <2>2. PICK d : d = DecodePlan(p.s, TRUE)
    OBVIOUS
  <2>3. BeginPaused(p, d)
    BY <1>3, <1>5, <2>2
  <2> QED BY <1>1, <1>4, <2>1, <2>2, <2>3, BeginPausedStep
<1>6. CASE ~Pauses(p)
  <2>1. Run(p) /\ pending' = NoPending
    BY <1>1, <1>3, <1>6
  <2>2. StepOK(p)
    BY <1>1, <1>4, <2>1, RunKeeps
  <2> QED BY <2>1, <2>2, NoPauseOK
<1> QED BY <1>5, <1>6

LEMMA AdvanceStep ==
  ASSUME PoliciesInv, ~Slos, Advance
  PROVE  (\E q : StepOK(q)) /\ PauseOK
<1>1. Idle
  BY DEF Advance
<1>2. /\ WellFormed(sched) /\ sched.heavy = FALSE
      /\ pending \in [members : Seq(Requests), left : Int]
  BY <1>1, Startable
<1>3. CASE FinishPending(sched)
  <2>1. Progress(sched, sched)
    BY <1>2, NoProgress
  <2>2. PICK s : s = sched
    OBVIOUS
  <2>3. Progress(sched, s) /\ FinishPending(s)
    BY <1>3, <2>1, <2>2
  <2> QED BY <1>1, <2>3, FinishStep
<1>4. CASE ~FinishPending(sched)
  <2>1. PICK p \in {DecodePlan(sched, TRUE)} :
          IF p.batch = <<>> THEN FinishPending(p.s)
          ELSE Run(p) /\ pending' = [pending EXCEPT !.left = @ - Quantum]
    BY <1>4 DEF Advance
  <2>2. Progress(sched, p.s)
    BY <1>2, <2>1, DecodePlanOK DEF PlanOK
  <2>3. CASE p.batch = <<>>
    <3>1. FinishPending(p.s)
      BY <2>1, <2>3
    <3> QED BY <1>1, <2>2, <3>1, FinishStep
  <2>4. CASE p.batch # <<>>
    <3>1. Run(p) /\ pending' = [pending EXCEPT !.left = @ - Quantum]
      BY <2>1, <2>4
    <3>2. StepOK(p) /\ Prefilling(sched', pending.members)
      BY <1>1, <2>1, <3>1, DecodeStep
    <3>3. Quantum = 1
      BY DEF Quantum
    <3>4. pending' \in [members : Seq(Requests), left : Int] /\ pending'.members = pending.members
      BY <1>2, <3>1, <3>3
    <3> QED BY <3>2, <3>4 DEF PauseOK
  <2> QED BY <2>3, <2>4
<1> QED BY <1>3, <1>4

\* A call of a client moves one request.
Moved(s, r, row, w, n) ==
  [s EXCEPT !.reqs = [s.reqs EXCEPT ![r] = row], !.waiting = w, !.running = n]

LEMMA MoveOne ==
  ASSUME NEW s \in Scheds, NEW r \in Requests, NEW row \in Rows,
         NEW w \in Seq(Requests), NEW n \in Seq(Requests)
  PROVE  LET t == Moved(s, r, row, w, n)
         IN  /\ t \in Scheds /\ t.waiting = w /\ t.running = n
             /\ t.bypasses = s.bypasses /\ t.heavy = s.heavy /\ t.fault = s.fault
             /\ t.reqs[r] = row /\ \A x \in Requests \ {r} : t.reqs[x] = s.reqs[x]
<1> DEFINE t == Moved(s, r, row, w, n)
<1>1. s.reqs \in [Requests -> Rows] /\ [s.reqs EXCEPT ![r] = row] \in [Requests -> Rows]
  BY DEF Scheds
<1>2. PICK f : f = [s.reqs EXCEPT ![r] = row]
  OBVIOUS
<1>9. t = [s EXCEPT !.reqs = f, !.waiting = w, !.running = n]
  BY <1>2 DEF Moved
<1> HIDE DEF t
<1>3. t = [reqs |-> f, waiting |-> w, running |-> n, consecutive |-> s.consecutive,
           sinceHeavy |-> s.sinceHeavy, bypasses |-> s.bypasses, heavy |-> s.heavy,
           fault |-> s.fault]
  BY <1>9 DEF Scheds
<1>4. t.heavy = s.heavy
  BY <1>3, Zenon
<1>5. /\ s.consecutive \in Int /\ s.sinceHeavy \in Int /\ s.bypasses \in Nat
      /\ s.heavy \in BOOLEAN /\ s.fault \in Faults
  BY DEF Scheds
<1>6. t \in Scheds
  BY <1>1, <1>2, <1>3, <1>5 DEF Scheds
<1>7. f[r] = row /\ \A x \in Requests \ {r} : f[x] = s.reqs[x]
  BY <1>1, <1>2
<1>8. /\ t.reqs = f /\ t.waiting = w /\ t.running = n
      /\ t.bypasses = s.bypasses /\ t.fault = s.fault
  BY <1>3
<1> QED BY <1>4, <1>6, <1>7, <1>8 DEF t

\* The part of the invariant that a call of a client keeps.
LEMMA CallInvariant ==
  ASSUME PoliciesInv, UNCHANGED <<config, clock, passed>>,
         ~Slos => /\ WellFormed(sched') /\ sched'.bypasses = sched.bypasses
                  /\ sched'.heavy = FALSE /\ PauseOK
  PROVE  PoliciesInv'
<1>1. config' \in Configs /\ clock' \in Nat /\ Slos' = Slos /\ MaxBypasses' = MaxBypasses
  BY DEF PoliciesInv, Slos, Policy, MaxBypasses
<1>2. ASSUME ~Slos PROVE WellFormed(sched)' /\ (Idle' => sched'.heavy = FALSE)
  BY <1>1, <1>2 DEF WellFormed, Idle
<1>3. ASSUME ~Slos PROVE passed' \in [Requests -> Nat] /\ \A r \in Requests : passed'[r] <= sched'.bypasses
  BY <1>3 DEF PoliciesInv
<1> QED BY <1>1, <1>2, <1>3 DEF PoliciesInv, PauseOK

\* A pause that a call of a client does not touch.
LEMMA PauseUntouched ==
  ASSUME PoliciesInv, ~Slos, NEW r, NEW t, t = sched', r \notin Range(pending.members),
         \A x \in Requests \ {r} : t.reqs[x] = sched.reqs[x], pending' = pending
  PROVE  PauseOK
<1>1. pending \in [members : Seq(Requests), left : Int] /\ Prefilling(sched, pending.members)
  BY DEF PoliciesInv
<1>2. Range(pending.members) \subseteq Requests
  BY <1>1, LenProperties, ElementOfSeq DEF Prefilling, Range
<1> QED BY <1>1, <1>2 DEF PauseOK, Prefilling

LEMMA SubmitKeeps ==
  ASSUME PoliciesInv, NEW r \in Requests, Submit(r), UNCHANGED config
  PROVE  PoliciesInv'
<1>1. /\ Idle /\ sched.reqs[r].st = "new" /\ UNCHANGED <<pending, clock, passed>>
      /\ sched' = [sched EXCEPT !.reqs[r].st = "waiting", !.reqs[r].sub = clock, !.waiting = Append(@, r)]
  BY DEF Submit
<1>2. ASSUME ~Slos
      PROVE  /\ WellFormed(sched') /\ sched'.bypasses = sched.bypasses
             /\ sched'.heavy = FALSE /\ PauseOK
  <2>1. /\ WellFormed(sched) /\ sched.heavy = FALSE /\ Prefilling(sched, pending.members)
        /\ clock \in Nat
    BY <1>1, <1>2, Startable DEF PoliciesInv
  <2>2. PICK s : s = sched
    OBVIOUS
  <2>3. PICK t : t = sched'
    OBVIOUS
  <2>4. /\ s \in Scheds /\ s.reqs \in [Requests -> Rows] /\ s.reqs[r] \in Rows
        /\ s.waiting \in Seq(Requests) /\ s.running \in Seq(Requests)
        /\ IsInjective(s.waiting) /\ IsInjective(s.running)
    BY <2>1, <2>2 DEF WellFormed, Scheds
  <2>14. PICK row : row = [s.reqs[r] EXCEPT !.st = "waiting", !.sub = clock]
    OBVIOUS
  <2>15. PICK w : w = Append(s.waiting, r)
    OBVIOUS
  <2>5. row \in Rows /\ row.st = "waiting"
    <3>1. "waiting" \in Statuses
      BY DEF Statuses
    <3> QED BY <2>1, <2>4, <2>14, <3>1 DEF Rows
  <2>6. t = [s EXCEPT !.reqs = [s.reqs EXCEPT ![r] = row], !.waiting = w, !.running = s.running]
    BY <1>1, <2>2, <2>3, <2>4, <2>14, <2>15, ZenonT(90) DEF Scheds, Rows
  <2>7. r \notin Range(s.waiting) /\ r \notin Range(s.running) /\ r \notin Range(pending.members)
    BY <1>1, <2>1, <2>2 DEF WellFormed, Prefilling
  <2>8. w \in Seq(Requests) /\ IsInjective(w) /\ Range(w) = Range(s.waiting) \cup {r}
    BY <2>4, <2>7, <2>15, AppendNewProperties
  <2>9. /\ t \in Scheds /\ t.waiting = w /\ t.running = s.running
        /\ t.bypasses = s.bypasses /\ t.heavy = s.heavy /\ t.fault = s.fault
        /\ t.reqs[r] = row /\ \A x \in Requests \ {r} : t.reqs[x] = s.reqs[x]
    <3>1. PICK n : n = s.running
      OBVIOUS
    <3>2. n \in Seq(Requests)
      BY <2>4, <3>1
    <3> DEFINE z == Moved(s, r, row, w, n)
    <3>3. /\ z \in Scheds /\ z.waiting = w /\ z.running = n
          /\ z.bypasses = s.bypasses /\ z.heavy = s.heavy /\ z.fault = s.fault
          /\ z.reqs[r] = row /\ \A x \in Requests \ {r} : z.reqs[x] = s.reqs[x]
      BY <2>4, <2>5, <2>8, <3>2, MoveOne
    <3>4. t = z
      BY <2>6, <3>1 DEF Moved
    <3> HIDE DEF z
    <3> QED BY <3>1, <3>3, <3>4
  <2>10. Range(s.waiting) \subseteq Requests /\ Range(s.running) \subseteq Requests
    BY <2>4, LenProperties, ElementOfSeq DEF Range
  <2>11. WellFormed(t)
    BY <2>1, <2>2, <2>4, <2>5, <2>7, <2>8, <2>9, <2>10 DEF WellFormed
  <2>12. PauseOK
    <3>1. \A x \in Requests \ {r} : t.reqs[x] = sched.reqs[x]
      BY <2>2, <2>9
    <3>2. pending' = pending
      BY <1>1
    <3> QED BY <1>2, <2>3, <2>7, <3>1, <3>2, PauseUntouched
  <2>13. t.heavy = FALSE
    BY <2>1, <2>2, <2>9, Zenon
  <2> QED BY <2>2, <2>3, <2>9, <2>11, <2>12, <2>13
<1> QED BY <1>1, <1>2, CallInvariant

LEMMA CancelKeeps ==
  ASSUME PoliciesInv, NEW r \in Requests, Cancel(r), UNCHANGED config
  PROVE  PoliciesInv'
<1> DEFINE others == Requests \ {r}
<1>1. /\ Idle /\ UNCHANGED <<clock, passed>>
      /\ sched' = [sched EXCEPT !.reqs[r].st = "done", !.reqs[r].pages = 0,
                                !.waiting = Those(@, others), !.running = Those(@, others)]
      /\ pending' = IF r \in ToSet(pending.members) THEN NoPending ELSE pending
  BY DEF Cancel
<1> HIDE DEF others
<1>2. ASSUME ~Slos
      PROVE  /\ WellFormed(sched') /\ sched'.bypasses = sched.bypasses
             /\ sched'.heavy = FALSE /\ PauseOK
  <2>1. /\ WellFormed(sched) /\ sched.heavy = FALSE
    BY <1>1, <1>2, Startable
  <2>2. PICK s : s = sched
    OBVIOUS
  <2>3. PICK t : t = sched'
    OBVIOUS
  <2>4. /\ s \in Scheds /\ s.reqs \in [Requests -> Rows] /\ s.reqs[r] \in Rows
        /\ s.waiting \in Seq(Requests) /\ s.running \in Seq(Requests)
        /\ IsInjective(s.waiting) /\ IsInjective(s.running)
    BY <2>1, <2>2 DEF WellFormed, Scheds
  <2>12. PICK row : row = [s.reqs[r] EXCEPT !.st = "done", !.pages = 0]
    OBVIOUS
  <2>13. PICK w : w = Those(s.waiting, others)
    OBVIOUS
  <2>14. PICK n : n = Those(s.running, others)
    OBVIOUS
  <2>5. row \in Rows
    <3>1. "done" \in Statuses /\ 0 \in Int
      BY DEF Statuses
    <3> QED BY <2>4, <2>12, <3>1, RowEffect
  <2>6. t = [s EXCEPT !.reqs = [s.reqs EXCEPT ![r] = row], !.waiting = w, !.running = n]
    <3>1. t = [s EXCEPT !.reqs[r].st = "done", !.reqs[r].pages = 0, !.waiting = w, !.running = n]
      BY <1>1, <2>2, <2>3, <2>13, <2>14
    <3> QED BY <2>4, <2>12, <3>1, ZenonT(40) DEF Scheds, Rows
  <2>7. /\ w \in Seq(Requests) /\ IsInjective(w) /\ Range(w) = Range(s.waiting) \cap others
        /\ n \in Seq(Requests) /\ IsInjective(n) /\ Range(n) = Range(s.running) \cap others
    BY <2>4, <2>13, <2>14, ThoseProperties
  <2>8. /\ t \in Scheds /\ t.waiting = w /\ t.running = n
        /\ t.bypasses = s.bypasses /\ t.heavy = s.heavy /\ t.fault = s.fault
        /\ t.reqs[r] = row /\ \A x \in Requests \ {r} : t.reqs[x] = s.reqs[x]
    <3> DEFINE z == Moved(s, r, row, w, n)
    <3>1. /\ z \in Scheds /\ z.waiting = w /\ z.running = n
          /\ z.bypasses = s.bypasses /\ z.heavy = s.heavy /\ z.fault = s.fault
          /\ z.reqs[r] = row /\ \A x \in Requests \ {r} : z.reqs[x] = s.reqs[x]
      BY <2>4, <2>5, <2>7, MoveOne
    <3>2. t = z
      BY <2>6 DEF Moved
    <3> HIDE DEF z
    <3> QED BY <3>1, <3>2
  <2>9. WellFormed(t)
    BY <2>1, <2>2, <2>7, <2>8 DEF WellFormed, others
  <2>10. PauseOK
    <3>1. CASE r \in Range(pending.members)
      <4>1. pending' = NoPending
        BY <1>1, <3>1, ToSetRange
      <4> QED BY <4>1, NoPauseOK
    <3>2. CASE r \notin Range(pending.members)
      <4>1. pending' = pending
        BY <1>1, <3>2, ToSetRange
      <4>2. \A x \in Requests \ {r} : t.reqs[x] = sched.reqs[x]
        BY <2>2, <2>8
      <4> QED BY <1>2, <2>3, <3>2, <4>1, <4>2, PauseUntouched
    <3> QED BY <3>1, <3>2
  <2>11. t.heavy = FALSE
    BY <2>1, <2>2, <2>8, Zenon
  <2> QED BY <2>2, <2>3, <2>8, <2>9, <2>10, <2>11
<1> QED BY <1>1, <1>2, CallInvariant

LEMMA InitKeeps == Init => PoliciesInv
<1> SUFFICES ASSUME Init PROVE PoliciesInv
  OBVIOUS
<1>1. /\ config \in Configs /\ clock = 0 /\ passed = [r \in Requests |-> 0] /\ pending = NoPending
      /\ sched = [reqs |-> [r \in Requests |-> [st |-> "new", sub |-> 0, out |-> 0, pages |-> 0]],
                  waiting |-> <<>>, running |-> <<>>, consecutive |-> 0,
                  sinceHeavy |-> MinDecode, bypasses |-> 0, heavy |-> FALSE, fault |-> "none"]
  BY DEF Init
<1>2. <<>> \in Seq(Requests) /\ Range(<<>>) = {} /\ IsInjective(<<>>)
  BY NoElements
<1>3. [st |-> "new", sub |-> 0, out |-> 0, pages |-> 0] \in Rows
  BY DEF Rows, Statuses
<1>4. PICK row : row = [st |-> "new", sub |-> 0, out |-> 0, pages |-> 0]
  OBVIOUS
<1>5. [r \in Requests |-> row] \in [Requests -> Rows]
  BY <1>3, <1>4
<1>6. PICK rows : rows = [r \in Requests |-> row]
  OBVIOUS
<1>7. sched = [reqs |-> rows, waiting |-> <<>>, running |-> <<>>, consecutive |-> 0,
               sinceHeavy |-> MinDecode, bypasses |-> 0, heavy |-> FALSE, fault |-> "none"]
  BY <1>1, <1>4, <1>6
<1>8. MinDecode \in Int /\ "none" \in Faults
  BY PolicyAssumption DEF Faults
<1>9. sched \in Scheds
  BY <1>2, <1>5, <1>6, <1>7, <1>8 DEF Scheds
<1>10. sched.waiting = <<>> /\ sched.running = <<>> /\ sched.bypasses = 0
  BY <1>7
<1>11. sched.heavy = FALSE
  BY <1>7, Zenon
<1>12. MaxBypasses \in Nat
  BY <1>1, PolicyAssumption DEF MaxBypasses
<1>13. WellFormed(sched)
  BY <1>2, <1>9, <1>10, <1>12 DEF WellFormed
<1>14. pending.members = <<>> /\ pending \in [members : Seq(Requests), left : Int]
  BY <1>1, <1>2 DEF NoPending
<1>15. Prefilling(sched, pending.members)
  BY <1>2, <1>14 DEF Prefilling
<1>16. passed \in [Requests -> Nat] /\ \A r \in Requests : passed[r] <= sched.bypasses
  BY <1>1, <1>10
<1> QED BY <1>1, <1>11, <1>13, <1>14, <1>15, <1>16 DEF PoliciesInv

\* Every engine step runs at most one plan, and none of them lets the clock advance.
LEMMA StepsKeepTime ==
  /\ \A p : Run(p) => UNCHANGED clock
  /\ \A s : FinishPending(s) => UNCHANGED clock
  /\ \A p : DecodeOrFinish(p) => UNCHANGED clock
  /\ EngineStep => UNCHANGED clock
<1>1. \A p : Run(p) => UNCHANGED clock
  BY DEF Run
<1>2. \A s : FinishPending(s) => UNCHANGED clock
  BY <1>1 DEF FinishPending
<1>3. \A p : DecodeOrFinish(p) => UNCHANGED clock
  BY <1>1, <1>2 DEF DecodeOrFinish
<1>4. \A p, d : BeginPaused(p, d) => UNCHANGED clock
  BY <1>1 DEF BeginPaused
<1>5. DecodeAfterInterrupt => UNCHANGED clock
  BY <1>3 DEF DecodeAfterInterrupt
<1>6. Interrupt => UNCHANGED clock
  BY <1>1 DEF Interrupt
<1>7. FinishNow => UNCHANGED clock
  BY <1>2 DEF FinishNow
<1>8. Advance => UNCHANGED clock
  BY <1>1, <1>2 DEF Advance
<1>9. Coalesce => UNCHANGED clock
  BY <1>1 DEF Coalesce
<1>10. Schedule => UNCHANGED clock
  BY <1>1, <1>4 DEF Schedule
<1> QED BY <1>1, <1>2, <1>3, <1>5, <1>6, <1>7, <1>8, <1>9, <1>10 DEF EngineStep

\* One step of the engine; interrupts and coalescing need deadlines.
LEMMA EngineStepKeeps ==
  ASSUME PoliciesInv, EngineStep, UNCHANGED config
  PROVE  PoliciesInv'
<1>1. UNCHANGED clock
  BY StepsKeepTime
<1>2. ASSUME ~Slos PROVE (\E p : StepOK(p)) /\ PauseOK
  <2>1. CASE DecodeAfterInterrupt
    <3>1. Idle /\ DecodeOrFinish(DecodePlan(sched, TRUE))
      BY <2>1 DEF DecodeAfterInterrupt
    <3> QED BY <1>2, <3>1, DecodeOrFinishStep
  <2>2. CASE Interrupt
    BY <1>2, <2>2 DEF Interrupt, Interrupting
  <2>3. CASE FinishNow
    <3>1. Idle /\ FinishPending(sched)
      BY <2>3 DEF FinishNow
    <3>2. PICK s : s = sched
      OBVIOUS
    <3>3. FinishPending(s) /\ Progress(sched, s)
      BY <1>2, <3>1, <3>2, Startable, NoProgress
    <3> QED BY <1>2, <3>1, <3>3, FinishStep
  <2>4. CASE Advance
    BY <1>2, <2>4, AdvanceStep
  <2>5. CASE Coalesce
    BY <1>2, <2>5 DEF Coalesce, Coalesces
  <2>6. CASE Schedule
    BY <1>2, <2>6, ScheduleStep
  <2> QED BY <2>1, <2>2, <2>3, <2>4, <2>5, <2>6 DEF EngineStep
<1> QED BY <1>1, <1>2, StepInvariant

\* The inductive invariant: the queues hold every request once, a paused prefill keeps its
\* members, and the counter of bypasses is never behind the admissions past the head.
THEOREM PoliciesInvariant == Spec => []PoliciesInv
<1>1. Init => PoliciesInv
  BY InitKeeps
<1>2. PoliciesInv /\ [Next]_vars => PoliciesInv'
  <2> SUFFICES ASSUME PoliciesInv, [Next]_vars PROVE PoliciesInv'
    OBVIOUS
  <2>1. CASE EngineStep /\ UNCHANGED config
    BY <2>1, EngineStepKeeps
  <2>2. ASSUME NEW r \in config.clients, Submit(r) \/ Cancel(r), UNCHANGED config
        PROVE  PoliciesInv'
    <3>1. r \in Requests
      BY <2>2, PolicyAssumption DEF PoliciesInv
    <3> QED BY <2>2, <3>1, SubmitKeeps, CancelKeeps
  <2>3. CASE Tick /\ UNCHANGED config
    <3>1. Slos /\ clock' = clock + 1 /\ config' = config
      BY <2>3 DEF Tick
    <3>2. Slos' /\ clock' \in Nat /\ config' \in Configs
      BY <3>1 DEF PoliciesInv, Slos, Policy
    <3> QED BY <3>2 DEF PoliciesInv
  <2>4. CASE UNCHANGED vars
    BY <2>4 DEF vars, PoliciesInv, Slos, Policy, WellFormed, MaxBypasses, Idle, Prefilling
  <2> QED BY <2>1, <2>2, <2>3, <2>4 DEF Next
<1> QED BY <1>1, <1>2, PTL DEF Spec

\* Between two heavy prefill batches at most max_light_prefill_bypasses_per_heavy later
\* requests are admitted past the heavy request at the head of the queue, for every set of
\* requests and every limit, under the fcfs and the vision-aware policy.
THEOREM BypassesBounded == Spec => []BypassBounded
<1>1. PoliciesInv => BypassBounded
  <2> SUFFICES ASSUME PoliciesInv, ~Slos, NEW r \in Requests PROVE passed[r] <= MaxBypasses
    BY DEF BypassBounded
  <2>1. /\ passed[r] \in Nat /\ passed[r] <= sched.bypasses /\ sched.bypasses \in Nat
        /\ sched.bypasses <= MaxBypasses /\ config \in Configs
    BY DEF PoliciesInv, WellFormed, Scheds
  <2>2. MaxBypasses \in Nat
    BY <2>1, PolicyAssumption DEF MaxBypasses
  <2> QED BY <2>1, <2>2
<1> QED BY <1>1, PoliciesInvariant, PTL
=============================================================================
