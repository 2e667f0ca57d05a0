--------------------------- MODULE SchedulerProofs ---------------------------
(***************************************************************************)
(* Proofs about the scheduler.                                              *)
(***************************************************************************)
EXTENDS Scheduler, DequeProofs, FiniteSetTheorems

-----------------------------------------------------------------------------
(* The shape of a snapshot of the engine.                                    *)

\* The two libraries' names of the elements of a sequence.
LEMMA ToSetRange == \A q : ToSet(q) = Range(q)
BY DEF ToSet, Range

Statuses == Lifecycle!LiveStates \cup Lifecycle!TerminalStates \cup {"new"}

\* A finite list, of whatever elements.
Listed(q) == q \in Seq(Range(q))

\* The fields of the Sequence of request r.  TableOK and Counts say what the tables name.
IsSequence(r, q) ==
  /\ q \in [status : Statuses, tokens : Seq(Tokens), cached : Nat, computed : Nat,
            table : {q.table}, cpuTable : Seq(CpuBlock), cpuHashes : {q.cpuHashes}]
  /\ PromptLen(r) <= Len(q.tokens)
  /\ Listed(q.table)

Shaped(s) ==
  /\ s \in [pool : {s.pool}, cpuFree : Seq(CpuBlock), seqs : {s.seqs},
            waiting : {s.waiting}, running : {s.running}, swapped : {s.swapped},
            consecutive : Nat, fault : {s.fault}]
  /\ s.seqs \in [Requests -> {s.seqs[r] : r \in Requests}]
  /\ \A r \in Requests : IsSequence(r, s.seqs[r])

\* The requests of a snapshot that are in one of the states of S.
Having(s, S) == {r \in Requests : s.seqs[r].status \in S}

\* A queue of the requests of R, each once.
Queue(q, R) == q \in Seq(Requests) /\ IsInjective(q) /\ Range(q) = R

\* Queues and states agree; decode planning holds the requests of out in its hands.
QueuesOK(s, out) ==
  /\ Queue(s.waiting, Having(s, {"waiting"}))
  /\ Queue(s.swapped, Having(s, {"swapped"}))
  /\ Queue(s.running, Having(s, {"prefilling", "decoding"}) \ out)

\* Every CPU page is free or in one table, once.
CpuOK(s) ==
  /\ IsInjective(s.cpuFree)
  /\ \A r \in Requests :
       IsInjective(s.seqs[r].cpuTable) /\ Range(s.seqs[r].cpuTable) \cap Range(s.cpuFree) = {}
  /\ \A q, r \in Requests : q # r => Range(s.seqs[q].cpuTable) \cap Range(s.seqs[r].cpuTable) = {}
  /\ \A b \in CpuBlock :
       b \in Range(s.cpuFree) \/ \E r \in Requests : b \in Range(s.seqs[r].cpuTable)

\* The pool of the scheduler is the GPU block pool, and what is proved of that holds of it.
PF == INSTANCE GpuBlockPoolProofs
        WITH Hashes <- PageHashes,
             NO_BLOCK_HASH <- <<>>,
             Contents <- PageContents,
             NoContent <- <<>>,
             Owners <- Requests,
             held <- [r \in Requests |-> ToSet(seqs[r].table)]

\* The pool p is well formed, and its counts are those of the page tables T.
Counts(p, T) == PF!Counted(p, T)

\* The page tables of a snapshot, as sets.
Tables(s) == [r \in Requests |-> Range(s.seqs[r].table)]

\* A table names pages once; swapped pages have saved hashes.
TableOK(q) ==
  /\ q.table \in Seq(Pool!Block) /\ IsInjective(q.table)
  /\ q.cpuHashes \in Seq(PageHashes \cup {<<>>}) /\ Len(q.cpuHashes) = Len(q.cpuTable)

\* The GPU pool counts the page tables.
PagesOK(s) == Counts(s.pool, Tables(s)) /\ \A r \in Requests : TableOK(s.seqs[r])

\* What its state says about a Sequence: which pages it has, and how many tokens they cover.
SequenceOK(q) ==
  /\ q.status # "swapped" => q.cpuTable = <<>>
  /\ q.status \notin {"prefilling", "decoding"} => q.table = <<>>
  /\ q.status = "prefilling" => q.cached <= q.computed /\ NumPages(q) <= Len(q.table)
  /\ q.status = "decoding" => Pages(Len(q.tokens) - 1) <= Len(q.table)
  /\ q.status = "swapped" => Pages(Len(q.tokens) - 1) <= Len(q.cpuTable)

Valid(s, out) ==
  /\ Shaped(s) /\ QueuesOK(s, out) /\ CpuOK(s) /\ PagesOK(s)
  /\ \A r \in Requests : SequenceOK(s.seqs[r])
  /\ s.fault \notin {BadTransition, LatePrefill}

\* The members of a prefill plan stand at the start of their slices.
SlicesOK(s, members, slices) ==
  /\ members \in Seq(Requests) /\ IsInjective(members)
  /\ slices \in Seq(Nat \X Nat) /\ Len(slices) = Len(members)
  /\ \A k \in 1 .. Len(members) :
       /\ s.seqs[members[k]].status = "prefilling"
       /\ s.seqs[members[k]].computed = slices[k][1]
       /\ slices[k][1] <= slices[k][2] /\ slices[k][2] <= PromptLen(members[k])

\* The requests whose page tables cover all their tokens, the newest included.
Covered(s) == {r \in Requests : NumPages(s.seqs[r]) <= Len(s.seqs[r].table)}

\* A list of decoding requests, each once, with room for their newest tokens.
AllDecoding(s, members) ==
  /\ Queue(members, Range(members))
  /\ Range(members) \subseteq Having(s, {"decoding"}) \cap Covered(s)

PlanOK(s, p) ==
  \/ p = NoPlan
  \/ p.phase = "prefill" /\ SlicesOK(s, p.seqs, p.slices)
  \/ p.phase = "decode" /\ AllDecoding(s, p.seqs)

\* A paused prefill w next to plan p.
PausedOK(s, p, w) ==
  w # NoPending =>
    /\ w \in [plan : {w.plan}, left : Nat]
    /\ w.plan.phase = "prefill" /\ SlicesOK(s, w.plan.seqs, w.plan.slices)
    /\ p # NoPlan => p.phase = "decode"

\* A prefill is paused by a decode, which starts the count of prefills anew.
TurnsOK(s, w) == w # NoPending => s.consecutive = 0

Good(s, p, w) ==
  /\ Valid(s, {}) /\ Len(s.running) <= MaxNumSeqs
  /\ PlanOK(s, p) /\ PausedOK(s, p, w) /\ TurnsOK(s, w)

\* The inductive invariant.
IInv == config \in Configs /\ Good(Engine, plan, pending)

\* No pages change.
SamePages(s, t) ==
  /\ t.pool = s.pool
  /\ \A r \in Requests :
       /\ t.seqs[r].table = s.seqs[r].table /\ t.seqs[r].cpuTable = s.seqs[r].cpuTable
       /\ t.seqs[r].cpuHashes = s.seqs[r].cpuHashes

\* t differs from s in the pages, the pools and the frontiers of r only.
Touches(s, t, r) ==
  /\ Shaped(t)
  /\ t.waiting = s.waiting /\ t.running = s.running /\ t.swapped = s.swapped
  /\ t.consecutive = s.consecutive /\ t.fault = s.fault
  /\ \A q \in Requests : q # r => t.seqs[q] = s.seqs[q]
  /\ t.seqs[r].status = s.seqs[r].status /\ t.seqs[r].tokens = s.seqs[r].tokens

\* The status of r is replaced.
Moved(s, t, r, target) ==
  /\ Shaped(t)
  /\ t.waiting = s.waiting /\ t.running = s.running /\ t.swapped = s.swapped
  /\ t.consecutive = s.consecutive /\ t.fault = s.fault
  /\ t.pool = s.pool /\ t.cpuFree = s.cpuFree
  /\ \A q \in Requests : q # r => t.seqs[q] = s.seqs[q]
  /\ t.seqs[r] = [s.seqs[r] EXCEPT !.status = target]

LEMMA ListedProperties ==
  ASSUME NEW q, Listed(q)
  PROVE  /\ Len(q) \in Nat /\ DOMAIN q = 1 .. Len(q)
         /\ \A x : Listed(Append(q, x)) /\ Len(Append(q, x)) = Len(q) + 1
<1>1. Len(q) \in Nat /\ DOMAIN q = 1 .. Len(q)
  BY LenProperties DEF Listed
<1>2. ASSUME NEW x PROVE Listed(Append(q, x)) /\ Len(Append(q, x)) = Len(q) + 1
  <2> DEFINE S == Range(q) \cup {x}
             t == Append(q, x)
  <2>1. q \in Seq(S)
    <3>1. \A k \in 1 .. Len(q) : q[k] \in S
      BY <1>1 DEF Range
    <3> QED BY <1>1, <3>1, SeqDef, LenProperties DEF Listed
  <2>2. /\ t \in Seq(S) /\ Len(t) = Len(q) + 1
        /\ \A k \in 1 .. Len(q) : t[k] = q[k]
        /\ t[Len(q) + 1] = x
    BY <2>1, AppendProperties
  <2> HIDE DEF t
  <2>3. DOMAIN t = 1 .. Len(q) + 1
    BY <2>2, LenProperties
  <2>4. t \in Seq(Range(t))
    <3>1. \A k \in 1 .. Len(t) : t[k] \in Range(t)
      BY <2>2, <2>3 DEF Range
    <3> QED BY <2>2, <2>3, <3>1, SeqDef, LenProperties
  <2> QED BY <2>2, <2>4 DEF Listed, t
<1> QED BY <1>1, <1>2

LEMMA NothingListed == Listed(<<>>) /\ Len(<<>>) = 0
  BY EmptySeq DEF Listed

\* The edges of the request state machine that the scheduler uses.
LEMMA Edges ==
  /\ \A st \in Statuses : Lifecycle!MayMove(st, st)
  /\ Lifecycle!MayMove("new", "waiting") /\ Lifecycle!MayMove("new", "rejected")
  /\ Lifecycle!MayMove("waiting", "prefilling")
  /\ Lifecycle!MayMove("prefilling", "decoding") /\ Lifecycle!MayMove("prefilling", "finished")
  /\ Lifecycle!MayMove("decoding", "finished")
  /\ Lifecycle!MayMove("decoding", "swapped") /\ Lifecycle!MayMove("decoding", "waiting")
  /\ Lifecycle!MayMove("swapped", "decoding") /\ Lifecycle!MayMove("swapped", "waiting")
  /\ \A st \in Lifecycle!LiveStates : Lifecycle!MayMove(st, "cancelled")
  BY DEF Lifecycle!MayMove, Lifecycle!AllowedTransitions, Lifecycle!LiveStates


\* A snapshot with other pools and another Sequence of r.
Rewrite(s, p, free, r, q) == [s EXCEPT !.pool = p, !.cpuFree = free, !.seqs[r] = q]

Rewritten(s, t, p, free, r, q) ==
  /\ Shaped(t)
  /\ t.pool = p /\ t.cpuFree = free
  /\ t.waiting = s.waiting /\ t.running = s.running /\ t.swapped = s.swapped
  /\ t.consecutive = s.consecutive /\ t.fault = s.fault
  /\ t.seqs[r] = q
  /\ \A x \in Requests : x # r => t.seqs[x] = s.seqs[x]

LEMMA RewriteFields ==
  ASSUME NEW s, Shaped(s), NEW p, NEW free \in Seq(CpuBlock), NEW r \in Requests,
         NEW q, IsSequence(r, q)
  PROVE  Rewritten(s, Rewrite(s, p, free, r, q), p, free, r, q)
<1> DEFINE t == Rewrite(s, p, free, r, q)
<1>1. /\ t.pool = p /\ t.cpuFree = free
      /\ t.waiting = s.waiting /\ t.running = s.running /\ t.swapped = s.swapped
      /\ t.consecutive = s.consecutive /\ t.fault = s.fault
      /\ t.seqs = [s.seqs EXCEPT ![r] = q]
  BY DEF Shaped, Rewrite
<1>2. t \in [pool : {t.pool}, cpuFree : Seq(CpuBlock), seqs : {t.seqs},
             waiting : {t.waiting}, running : {t.running}, swapped : {t.swapped},
             consecutive : Nat, fault : {t.fault}]
  BY DEF Shaped, Rewrite
<1> HIDE DEF t
<1>3. /\ DOMAIN t.seqs = Requests /\ t.seqs \in [Requests -> {t.seqs[x] : x \in Requests}]
      /\ t.seqs[r] = q /\ \A x \in Requests : x # r => t.seqs[x] = s.seqs[x]
  BY <1>1 DEF Shaped
<1>4. \A x \in Requests : IsSequence(x, t.seqs[x])
  BY <1>3 DEF Shaped
<1>5. Rewritten(s, t, p, free, r, q)
  BY <1>1, <1>2, <1>3, <1>4 DEF Shaped, Rewritten
<1> QED BY <1>5 DEF t


\* Another status leaves a Sequence a Sequence.
LEMMA StatusChange ==
  ASSUME NEW r, NEW u, IsSequence(r, u), NEW target \in Statuses
  PROVE  LET q == [u EXCEPT !.status = target]
         IN  /\ IsSequence(r, q)
             /\ q.status = target /\ q.tokens = u.tokens
             /\ q.cached = u.cached /\ q.computed = u.computed
             /\ q.table = u.table /\ q.cpuTable = u.cpuTable /\ q.cpuHashes = u.cpuHashes
  BY DEF IsSequence

LEMMA TransitionMoves ==
  ASSUME NEW s, Shaped(s), NEW r \in Requests, NEW target \in Statuses,
         Lifecycle!MayMove(s.seqs[r].status, target)
  PROVE  Moved(s, Transition(s, r, target), r, target)
<1> DEFINE q == [s.seqs[r] EXCEPT !.status = target]
           t == Rewrite(s, s.pool, s.cpuFree, r, q)
<1>1. Transition(s, r, target) = t
  BY DEF Transition, Shaped, Rewrite
<1>2. IsSequence(r, q)
  BY StatusChange DEF Shaped
<1>3. s.cpuFree \in Seq(CpuBlock)
  BY DEF Shaped
<1>4. Rewritten(s, t, s.pool, s.cpuFree, r, q)
  BY <1>2, <1>3, RewriteFields
<1>5. Moved(s, t, r, target)
  BY <1>4 DEF Moved, Rewritten
<1> QED BY <1>1, <1>5

LEMMA Emptied ==
  ASSUME NEW r, NEW u, IsSequence(r, u)
  PROVE  LET q == [u EXCEPT !.cached = 0, !.table = <<>>, !.cpuTable = <<>>, !.cpuHashes = <<>>]
         IN  /\ IsSequence(r, q)
             /\ q.status = u.status /\ q.tokens = u.tokens /\ q.cached = 0
             /\ q.computed = u.computed /\ q.table = <<>> /\ q.cpuTable = <<>>
<1> DEFINE q == [u EXCEPT !.cached = 0, !.table = <<>>, !.cpuTable = <<>>, !.cpuHashes = <<>>]
<1>1. /\ q.status = u.status /\ q.tokens = u.tokens /\ q.cached = 0
      /\ q.computed = u.computed /\ q.table = <<>> /\ q.cpuTable = <<>> /\ q.cpuHashes = <<>>
  BY DEF IsSequence
<1>2. <<>> \in Seq(CpuBlock) /\ Listed(<<>>)
  BY NothingListed
<1>3. q \in [status : Statuses, tokens : Seq(Tokens), cached : Nat, computed : Nat,
            table : {<<>>}, cpuTable : Seq(CpuBlock), cpuHashes : {<<>>}]
  BY <1>2 DEF IsSequence
<1> HIDE DEF q
<1>4. IsSequence(r, q)
  BY <1>1, <1>2, <1>3 DEF IsSequence
<1> QED BY <1>1, <1>4 DEF q

LEMMA DeallocateTouches ==
  ASSUME NEW s, Shaped(s), NEW r \in Requests
  PROVE  LET t == DeallocateSequence(s, r)
         IN  /\ Touches(s, t, r)
             /\ t.cpuFree = s.cpuFree \o s.seqs[r].cpuTable
             /\ t.seqs[r].cpuTable = <<>>
             /\ t.seqs[r].table = <<>> /\ t.seqs[r].cached = 0
             /\ t.seqs[r].computed = s.seqs[r].computed
<1> DEFINE q == [s.seqs[r] EXCEPT !.cached = 0, !.table = <<>>, !.cpuTable = <<>>,
                                  !.cpuHashes = <<>>]
           p == ReleasePages(s.pool, Reverse(s.seqs[r].table))
           f == s.cpuFree \o s.seqs[r].cpuTable
           t == Rewrite(s, p, f, r, q)
<1>1. DeallocateSequence(s, r) = t
  BY DEF DeallocateSequence, Rewrite
<1>2. /\ IsSequence(r, q)
      /\ q.cpuTable = <<>> /\ q.table = <<>> /\ q.cached = 0
      /\ q.computed = s.seqs[r].computed /\ q.status = s.seqs[r].status /\ q.tokens = s.seqs[r].tokens
  BY Emptied, Zenon DEF Shaped
<1>3. f \in Seq(CpuBlock)
  BY DEF Shaped, IsSequence
<1> HIDE DEF q, p
<1>4. Rewritten(s, t, p, f, r, q)
  BY <1>2, <1>3, RewriteFields
<1> HIDE DEF t
<1>5. /\ Touches(s, t, r) /\ t.cpuFree = f /\ t.seqs[r] = q
  BY <1>2, <1>4 DEF Touches, Rewritten
<1> QED BY <1>1, <1>2, <1>5

-----------------------------------------------------------------------------
(* What the operations of the block manager touch.                           *)

\* A turn of the allocation loop lists one more page.
LEMMA AllocatePageLists ==
  ASSUME NEW acc, Listed(acc.table), acc.cached \in Nat, NEW r, NEW q, NEW i
  PROVE  LET next == AllocatePage(acc, r, q, i)
         IN  /\ Listed(next.table) /\ Len(next.table) = Len(acc.table) + 1
             /\ next.cached \in Nat
<1>1. acc.cached + BlockSize \in Nat
  BY ManagerAssumption
<1> QED BY <1>1, ListedProperties DEF AllocatePage

\* The turns of the allocation loop.
AllocateTurns(f, s, r, n) ==
  /\ f[0] = [pool |-> s.pool, table |-> <<>>, cached |-> s.seqs[r].cached,
            hash |-> <<>>, miss |-> FALSE]
  /\ \A k \in 1 .. n : f[k] = AllocatePage(f[k - 1], r, s.seqs[r], k - 1)
  /\ AllocateDense(s, r) = [s EXCEPT !.pool = f[n].pool,
                                    !.seqs[r] = [@ EXCEPT !.table = f[n].table,
                                                          !.cached = f[n].cached]]

LEMMA AllocateTurnsExist ==
  ASSUME NEW s, NEW r, NEW n \in Nat, n = NumPages(s.seqs[r])
  PROVE  \E f : AllocateTurns(f, s, r, n)
<1> DEFINE Step(f, k) == IF k = 0 THEN [pool |-> s.pool, table |-> <<>>, cached |-> s.seqs[r].cached,
            hash |-> <<>>, miss |-> FALSE] ELSE AllocatePage(f[k - 1], r, s.seqs[r], k - 1)
           N == {m \in Nat : \E f : f = [k \in 0 .. m |-> Step(f, k)]}
           F == CHOOSE f : f = [k \in 0 .. n |-> Step(f, k)]
<1>1. 0 \in N
  <2> DEFINE g == [k \in 0 .. 0 |-> [pool |-> s.pool, table |-> <<>>, cached |-> s.seqs[r].cached,
            hash |-> <<>>, miss |-> FALSE]]
  <2>1. g = [k \in 0 .. 0 |-> Step(g, k)]
    OBVIOUS
  <2> HIDE DEF g
  <2>2. \E f : f = [k \in 0 .. 0 |-> Step(f, k)]
    BY <2>1
  <2> QED BY <2>2
<1>2. ASSUME NEW m \in Nat, m \in N PROVE m + 1 \in N
  <2>1. PICK g : g = [k \in 0 .. m |-> Step(g, k)]
    BY <1>2
  <2> DEFINE h == [k \in 0 .. m + 1 |-> IF k = m + 1 THEN Step(g, m + 1) ELSE g[k]]
  <2>2. ASSUME NEW k \in 0 .. m + 1 PROVE h[k] = Step(h, k)
    <3>1. k # 0 => k - 1 \in 0 .. m /\ h[k - 1] = g[k - 1]
      OBVIOUS
    <3>2. k # m + 1 => g[k] = Step(g, k)
      <4>1. k # m + 1 => k \in 0 .. m
        OBVIOUS
      <4> QED BY <2>1, <4>1
    <3>3. h[k] = Step(g, k)
      BY <3>2
    <3> QED BY <3>1, <3>3
  <2>3. h = [k \in 0 .. m + 1 |-> Step(h, k)]
    BY <2>2
  <2> HIDE DEF h
  <2>4. \E f : f = [k \in 0 .. m + 1 |-> Step(f, k)]
    BY <2>3
  <2> QED BY <2>4
<1>3. n \in N
  <2> HIDE DEF N
  <2> QED BY <1>1, <1>2, NatSetInduction
<1>4. F = [k \in 0 .. n |-> Step(F, k)]
  BY <1>3
<1>5. AllocateDense(s, r) = [s EXCEPT !.pool = F[n].pool,
                                    !.seqs[r] = [@ EXCEPT !.table = F[n].table,
                                                          !.cached = F[n].cached]]
  BY DEF AllocateDense
<1> HIDE DEF F
<1>6. F[0] = [pool |-> s.pool, table |-> <<>>, cached |-> s.seqs[r].cached,
            hash |-> <<>>, miss |-> FALSE] /\ \A k \in 1 .. n : F[k] = AllocatePage(F[k - 1], r, s.seqs[r], k - 1)
  <2>1. \A k \in 0 .. n : F[k] = Step(F, k)
    BY <1>4
  <2>2. 0 \in 0 .. n /\ \A k \in 1 .. n : k \in 0 .. n
    OBVIOUS
  <2>3. F[0] = Step(F, 0)
    BY <2>1, <2>2
  <2> QED BY <2>1, <2>2, <2>3
<1> QED BY <1>5, <1>6, Zenon DEF AllocateTurns

-----------------------------------------------------------------------------
(* Arithmetic of pages and frontiers.                                        *)

LEMMA MaxOfTwo ==
  ASSUME NEW a \in Int, NEW b \in Int
  PROVE  Max({a, b}) \in {a, b} /\ Max({a, b}) >= a /\ Max({a, b}) >= b
<1> DEFINE m == IF a >= b THEN a ELSE b
<1>1. m \in {a, b} /\ \A y \in {a, b} : m >= y
  OBVIOUS
<1>2. \E x \in {a, b} : \A y \in {a, b} : x >= y
  BY <1>1
<1>3. Max({a, b}) \in {a, b} /\ \A y \in {a, b} : Max({a, b}) >= y
  BY <1>2 DEF Max
<1> QED BY <1>3

LEMMA MinOfTwo ==
  ASSUME NEW a \in Int, NEW b \in Int
  PROVE  Min({a, b}) \in {a, b} /\ Min({a, b}) <= a /\ Min({a, b}) <= b
<1> DEFINE m == IF a <= b THEN a ELSE b
<1>1. m \in {a, b} /\ \A y \in {a, b} : m <= y
  OBVIOUS
<1>2. \E x \in {a, b} : \A y \in {a, b} : x <= y
  BY <1>1
<1>3. Min({a, b}) \in {a, b} /\ \A y \in {a, b} : Min({a, b}) <= y
  BY <1>2 DEF Min
<1> QED BY <1>3

\* Pages of a longer text are no fewer.
LEMMA PagesMonotone ==
  ASSUME NEW m \in Nat, NEW n \in Nat, m <= n
  PROVE  Pages(m) \in Nat /\ Pages(n) \in Nat /\ Pages(m) <= Pages(n)
<1> DEFINE a == m + BlockSize - 1
           b == n + BlockSize - 1
<1>1. BlockSize \in Nat /\ BlockSize > 0
  BY ManagerAssumption
<1>2. a \in Nat /\ b \in Nat /\ a <= b
  BY <1>1
<1> HIDE DEF a, b
<1>3. a \div BlockSize \in Nat /\ b \div BlockSize \in Nat /\ a \div BlockSize <= b \div BlockSize
  BY <1>1, <1>2, Z3
<1> QED BY <1>3 DEF Pages, a, b

\* The full pages of a text are among the pages of a longer one.
LEMMA FullPages ==
  ASSUME NEW m \in Nat, NEW n \in Nat, m <= n
  PROVE  m \div BlockSize \in Nat /\ Pages(n) \in Nat /\ m \div BlockSize <= Pages(n)
<1> DEFINE b == n + BlockSize - 1
<1>1. BlockSize \in Nat /\ BlockSize > 0
  BY ManagerAssumption
<1>2. b \in Nat /\ m <= b
  BY <1>1
<1> HIDE DEF b
<1>3. m \div BlockSize \in Nat /\ b \div BlockSize \in Nat /\ m \div BlockSize <= b \div BlockSize
  BY <1>1, <1>2, Z3
<1> QED BY <1>3 DEF Pages, b

LEMMA AllocateTouches ==
  ASSUME NEW s, Shaped(s), NEW r \in Requests
  PROVE  LET t == AllocateDense(s, r)
         IN  /\ Touches(s, t, r)
             /\ t.cpuFree = s.cpuFree /\ t.seqs[r].cpuTable = s.seqs[r].cpuTable
             /\ t.seqs[r].computed = s.seqs[r].computed
             /\ Len(t.seqs[r].table) = NumPages(s.seqs[r])
<1> DEFINE n == NumPages(s.seqs[r])
           u == s.seqs[r]
<1>1. IsSequence(r, u)
  BY DEF Shaped
<1>2. n \in Nat
  <2>1. Len(u.tokens) \in Nat
    BY <1>1 DEF IsSequence
  <2> QED BY <2>1, PagesMonotone DEF NumPages
<1>n. n = NumPages(s.seqs[r])
  OBVIOUS
<1> HIDE DEF n
<1>e. PICK f : AllocateTurns(f, s, r, n)
  BY <1>2, <1>n, AllocateTurnsExist
<1>3. /\ f[0] = [pool |-> s.pool, table |-> <<>>, cached |-> s.seqs[r].cached,
                 hash |-> <<>>, miss |-> FALSE]
      /\ \A k \in 1 .. n : f[k] = AllocatePage(f[k - 1], r, s.seqs[r], k - 1)
      /\ AllocateDense(s, r) =
           [s EXCEPT !.pool = f[n].pool,
                     !.seqs[r] = [@ EXCEPT !.table = f[n].table, !.cached = f[n].cached]]
  BY <1>e DEF AllocateTurns
<1> DEFINE Fine(m) == Listed(f[m].table) /\ Len(f[m].table) = m /\ f[m].cached \in Nat
           N == {m \in Nat : m <= n => Fine(m)}
<1>4. 0 \in N
  <2>1. f[0].table = <<>> /\ f[0].cached = u.cached
    BY <1>3
  <2>2. u.cached \in Nat
    BY <1>1 DEF IsSequence
  <2> QED BY <2>1, <2>2, NothingListed
<1>5. ASSUME NEW m \in Nat, m \in N PROVE m + 1 \in N
  <2> SUFFICES ASSUME m + 1 <= n PROVE Fine(m + 1)
    OBVIOUS
  <2>1. m + 1 \in 1 .. n /\ (m + 1) - 1 = m /\ Fine(m)
    BY <1>2, <1>5
  <2>2. f[m + 1] = AllocatePage(f[m], r, s.seqs[r], m)
    BY <1>3, <2>1
  <2>3. /\ Listed(f[m + 1].table) /\ Len(f[m + 1].table) = Len(f[m].table) + 1
        /\ f[m + 1].cached \in Nat
    BY <2>1, <2>2, AllocatePageLists
  <2> QED BY <2>1, <2>3
<1>6. \A m \in Nat : m \in N
  <2> HIDE DEF N
  <2> QED BY <1>4, <1>5, NatSetInduction
<1>7. Fine(n)
  BY <1>2, <1>6
<1> DEFINE q == [u EXCEPT !.table = f[n].table, !.cached = f[n].cached]
           t == Rewrite(s, f[n].pool, s.cpuFree, r, q)
<1>8. AllocateDense(s, r) = t
  BY <1>3 DEF Rewrite, Shaped
<1> HIDE DEF N, Fine
<1>9. /\ IsSequence(r, q) /\ q.status = u.status /\ q.tokens = u.tokens
      /\ q.cpuTable = u.cpuTable /\ q.computed = u.computed /\ q.table = f[n].table
  <2> DEFINE g == f[n]
  <2>1. Listed(g.table) /\ g.cached \in Nat
    BY <1>7 DEF Fine
  <2> HIDE DEF g
  <2> DEFINE v == [u EXCEPT !.table = g.table, !.cached = g.cached]
  <2>2. /\ v.status = u.status /\ v.tokens = u.tokens /\ v.cached = g.cached
        /\ v.cpuTable = u.cpuTable /\ v.computed = u.computed /\ v.table = g.table
        /\ v.cpuHashes = u.cpuHashes
    BY <1>1 DEF IsSequence
  <2>3. v \in [status : Statuses, tokens : Seq(Tokens), cached : Nat, computed : Nat,
               table : {g.table}, cpuTable : Seq(CpuBlock), cpuHashes : {u.cpuHashes}]
    BY <1>1, <2>1 DEF IsSequence
  <2> HIDE DEF v
  <2>4. IsSequence(r, v)
    BY <1>1, <2>1, <2>2, <2>3 DEF IsSequence
  <2> QED BY <2>2, <2>4 DEF v, g
<1>10. s.cpuFree \in Seq(CpuBlock)
  BY DEF Shaped
<1> HIDE DEF q
<1>11. Rewritten(s, t, f[n].pool, s.cpuFree, r, q)
  BY <1>9, <1>10, RewriteFields
<1> HIDE DEF t
<1>12. Touches(s, t, r) /\ t.cpuFree = s.cpuFree /\ t.seqs[r] = q
  BY <1>9, <1>11 DEF Touches, Rewritten
<1>13. Len(q.table) = n
  BY <1>7, <1>9 DEF Fine
<1> QED BY <1>8, <1>9, <1>12, <1>13 DEF n

\* A replaced frontier.
Advanced(s, r, c) == [s EXCEPT !.seqs[r].computed = c]

LEMMA FrontierChange ==
  ASSUME NEW s, Shaped(s), NEW r \in Requests, NEW c \in Nat
  PROVE  LET t == Advanced(s, r, c)
         IN  /\ Touches(s, t, r) /\ t.cpuFree = s.cpuFree /\ t.pool = s.pool
             /\ t.seqs[r].computed = c /\ t.seqs[r].cached = s.seqs[r].cached
             /\ t.seqs[r].table = s.seqs[r].table /\ t.seqs[r].cpuTable = s.seqs[r].cpuTable
             /\ SamePages(s, t)
<1> DEFINE u == s.seqs[r]
           q == [u EXCEPT !.computed = c]
           t == Rewrite(s, s.pool, s.cpuFree, r, q)
<1>1. Advanced(s, r, c) = t
  BY DEF Advanced, Shaped, Rewrite
<1>2. IsSequence(r, u) /\ s.cpuFree \in Seq(CpuBlock)
  BY DEF Shaped
<1> HIDE DEF u
<1>3. /\ IsSequence(r, q) /\ q.computed = c /\ q.cached = u.cached /\ q.table = u.table
      /\ q.cpuTable = u.cpuTable /\ q.status = u.status /\ q.tokens = u.tokens
      /\ q.cpuHashes = u.cpuHashes
  BY <1>2 DEF IsSequence
<1> HIDE DEF q
<1>4. Rewritten(s, t, s.pool, s.cpuFree, r, q)
  BY <1>2, <1>3, RewriteFields
<1> HIDE DEF t
<1>5. Touches(s, t, r) /\ t.cpuFree = s.cpuFree /\ t.pool = s.pool /\ t.seqs[r] = q
  BY <1>3, <1>4 DEF Touches, Rewritten, u
<1>6. SamePages(s, t)
  BY <1>3, <1>5 DEF SamePages, Touches, u
<1> QED BY <1>1, <1>3, <1>5, <1>6 DEF u

\* A replaced page table.
Retabled(s, p, r, table) == [s EXCEPT !.pool = p, !.seqs[r].table = table]

LEMMA TableChange ==
  ASSUME NEW s, Shaped(s), NEW r \in Requests, NEW p, NEW table, Listed(table)
  PROVE  LET t == Retabled(s, p, r, table)
         IN  /\ Touches(s, t, r) /\ t.cpuFree = s.cpuFree
             /\ t.seqs[r].cpuTable = s.seqs[r].cpuTable
<1> DEFINE u == s.seqs[r]
           q == [u EXCEPT !.table = table]
           t == Rewrite(s, p, s.cpuFree, r, q)
<1>1. Retabled(s, p, r, table) = t
  BY DEF Retabled, Shaped, Rewrite
<1>2. IsSequence(r, u) /\ s.cpuFree \in Seq(CpuBlock)
  BY DEF Shaped
<1> HIDE DEF u
<1>3. IsSequence(r, q) /\ q.cpuTable = u.cpuTable /\ q.status = u.status /\ q.tokens = u.tokens
  <2>1. /\ q.status = u.status /\ q.tokens = u.tokens /\ q.cpuTable = u.cpuTable
        /\ q.cpuHashes = u.cpuHashes /\ q.table = table
    BY <1>2 DEF IsSequence
  <2>2. q \in [status : Statuses, tokens : Seq(Tokens), cached : Nat, computed : Nat,
               table : {table}, cpuTable : Seq(CpuBlock), cpuHashes : {u.cpuHashes}]
    BY <1>2 DEF IsSequence
  <2> HIDE DEF q
  <2>3. IsSequence(r, q)
    BY <1>2, <2>1, <2>2 DEF IsSequence
  <2> QED BY <2>1, <2>3
<1> HIDE DEF q
<1>4. Rewritten(s, t, p, s.cpuFree, r, q)
  BY <1>2, <1>3, RewriteFields
<1> HIDE DEF t
<1>5. Touches(s, t, r) /\ t.cpuFree = s.cpuFree /\ t.seqs[r] = q
  BY <1>3, <1>4 DEF Touches, Rewritten, u
<1> QED BY <1>1, <1>3, <1>5 DEF u

LEMMA TouchesItself ==
  ASSUME NEW s, Shaped(s), NEW r \in Requests
  PROVE  Touches(s, s, r)
  BY DEF Touches

\* may_append and copy_on_write replace the page table.
LEMMA MayAppendTouches ==
  ASSUME NEW s, Shaped(s), NEW r \in Requests
  PROVE  LET t == MayAppend(s, r)
         IN  /\ Touches(s, t, r) /\ t.cpuFree = s.cpuFree
             /\ t.seqs[r].cpuTable = s.seqs[r].cpuTable
<1> DEFINE fresh == Pool!AllocateFree(s.pool)
           table == Append(s.seqs[r].table, fresh.block)
           t == Retabled(s, fresh.pool, r, table)
<1>1. CASE NeedsPage(s.seqs[r])
  <2>1. MayAppend(s, r) = t
    BY <1>1 DEF MayAppend, Shaped, Retabled
  <2>2. Listed(s.seqs[r].table)
    BY DEF Shaped, IsSequence
  <2>3. Listed(table)
    BY <2>2, ListedProperties
  <2> HIDE DEF fresh, table
  <2>4. Touches(s, t, r) /\ t.cpuFree = s.cpuFree /\ t.seqs[r].cpuTable = s.seqs[r].cpuTable
    BY <2>3, TableChange
  <2> QED BY <2>1, <2>4
<1>2. CASE ~NeedsPage(s.seqs[r])
  <2>1. MayAppend(s, r) = s
    BY <1>2 DEF MayAppend
  <2> QED BY <2>1, TouchesItself
<1> QED BY <1>1, <1>2

LEMMA CopyOnWriteTouches ==
  ASSUME NEW s, Shaped(s), NEW r \in Requests
  PROVE  LET t == CopyOnWrite(s, r)
         IN  /\ Touches(s, t, r) /\ t.cpuFree = s.cpuFree
             /\ t.seqs[r].cpuTable = s.seqs[r].cpuTable
<1> DEFINE pair == CopyOnWritePair(s, r)
           p == Pool!ReleaseReference(Pool!AllocateFree(s.pool).pool, pair[1])
           table == Append(Front(s.seqs[r].table), pair[2])
           t == Retabled(s, p, r, table)
<1>1. CASE pair # <<>>
  <2>1. CopyOnWrite(s, r) = t
    BY <1>1 DEF CopyOnWrite, Shaped, Retabled
  <2>2. Listed(s.seqs[r].table)
    BY DEF Shaped, IsSequence
  <2>3. Listed(Front(s.seqs[r].table))
    <3> DEFINE q == s.seqs[r].table
    <3>1. Len(q) \in Nat /\ DOMAIN q = 1 .. Len(q)
      BY <2>2, ListedProperties
    <3>2. \A i \in 1 .. Len(q) - 1 : q[i] \in Range(q)
      BY <3>1 DEF Range
    <3> HIDE DEF q
    <3>3. SubSeq(q, 1, Len(q) - 1) \in Seq(Range(q))
      <4>1. 1 \in Int /\ Len(q) - 1 \in Int
        BY <3>1
      <4> QED BY <3>2, <4>1, SubSeqProperties
    <3>4. SubSeq(q, 1, Len(q) - 1) \in Seq(Range(SubSeq(q, 1, Len(q) - 1)))
      BY <3>3, SeqOfRange
    <3> QED BY <3>4 DEF Listed, Front, q
  <2>4. Listed(table)
    BY <2>3, ListedProperties
  <2> HIDE DEF p, table
  <2>5. Touches(s, t, r) /\ t.cpuFree = s.cpuFree /\ t.seqs[r].cpuTable = s.seqs[r].cpuTable
    BY <2>4, TableChange
  <2> QED BY <2>1, <2>5
<1>2. CASE pair = <<>>
  <2>1. CopyOnWrite(s, r) = s
    BY <1>2 DEF CopyOnWrite
  <2> QED BY <2>1, TouchesItself
<1> QED BY <1>1, <1>2

\* Publication changes the hash index only.
LEMMA PublishTouches ==
  ASSUME NEW s, Shaped(s), NEW r \in Requests, NEW first, NEW last
  PROVE  LET t == PublishComputedBlocks(s, r, first, last)
         IN  Touches(s, t, r) /\ t.cpuFree = s.cpuFree /\ t.seqs = s.seqs
<1> DEFINE t == PublishComputedBlocks(s, r, first, last)
<1>1. PICK p : t = [s EXCEPT !.pool = p]
  <2>1. t = s \/ \E p : t = [s EXCEPT !.pool = p]
    BY DEF PublishComputedBlocks
  <2>2. s = [s EXCEPT !.pool = s.pool]
    BY DEF Shaped
  <2> HIDE DEF t
  <2> QED BY <2>1, <2>2
<1> HIDE DEF t
<1>2. /\ t.waiting = s.waiting /\ t.running = s.running /\ t.swapped = s.swapped
      /\ t.consecutive = s.consecutive /\ t.fault = s.fault /\ t.cpuFree = s.cpuFree
      /\ t.seqs = s.seqs
      /\ t \in [pool : {t.pool}, cpuFree : Seq(CpuBlock), seqs : {t.seqs},
                waiting : {t.waiting}, running : {t.running}, swapped : {t.swapped},
                consecutive : Nat, fault : {t.fault}]
  BY <1>1 DEF Shaped
<1>3. Touches(s, t, r) /\ t.cpuFree = s.cpuFree /\ t.seqs = s.seqs
  BY <1>2 DEF Shaped, Touches
<1> QED BY <1>3 DEF t

\* swap_out moves the table of r to the first free CPU pages.
LEMMA SwapOutTouches ==
  ASSUME NEW s, Shaped(s), NEW r \in Requests, CanSwapOut(s, r)
  PROVE  LET t == SwapOut(s, r)
             n == Len(s.seqs[r].table)
         IN  /\ Touches(s, t, r) /\ n \in 0 .. Len(s.cpuFree)
             /\ t.cpuFree = SubSeq(s.cpuFree, n + 1, Len(s.cpuFree))
             /\ t.seqs[r].cpuTable = SubSeq(s.cpuFree, 1, n)
<1> DEFINE u == s.seqs[r]
           n == Len(u.table)
           table == SubSeq(s.cpuFree, 1, n)
           free == SubSeq(s.cpuFree, n + 1, Len(s.cpuFree))
           hashes == [k \in DOMAIN u.table |-> s.pool.hash[u.table[k]]]
           p == ReleasePages(s.pool, u.table)
           q == [u EXCEPT !.cpuTable = table, !.cpuHashes = hashes, !.table = <<>>]
           t == Rewrite(s, p, free, r, q)
<1>1. SwapOut(s, r) = t
  BY DEF SwapOut, Shaped, Rewrite
<1>2. IsSequence(r, u) /\ s.cpuFree \in Seq(CpuBlock)
  BY DEF Shaped
<1>3. n \in 0 .. Len(s.cpuFree)
  <2>1. Listed(u.table)
    BY <1>2 DEF IsSequence
  <2>2. n \in Nat /\ Len(s.cpuFree) \in Nat
    BY <1>2, <2>1, ListedProperties, LenProperties
  <2> QED BY <2>2 DEF CanSwapOut
<1>4. table \in Seq(CpuBlock) /\ free \in Seq(CpuBlock)
  <2>1. Len(s.cpuFree) \in Nat /\ \A k \in 1 .. Len(s.cpuFree) : s.cpuFree[k] \in CpuBlock
    BY <1>2, LenProperties, ElementOfSeq
  <2>2. /\ n \in Int /\ n + 1 \in Int /\ 1 \in Int /\ Len(s.cpuFree) \in Int
        /\ \A k \in 1 .. n : s.cpuFree[k] \in CpuBlock
        /\ \A k \in n + 1 .. Len(s.cpuFree) : s.cpuFree[k] \in CpuBlock
    BY <1>3, <2>1
  <2> HIDE DEF n
  <2> QED BY <2>2, SubSeqProperties
<1> HIDE DEF u, n, table, free, hashes, p
<1>5. /\ IsSequence(r, q) /\ q.cpuTable = table
      /\ q.status = u.status /\ q.tokens = u.tokens
  <2>1. /\ q.status = u.status /\ q.tokens = u.tokens /\ q.cpuTable = table
        /\ q.table = <<>> /\ q.cpuHashes = hashes
    BY <1>2 DEF IsSequence
  <2>2. q \in [status : Statuses, tokens : Seq(Tokens), cached : Nat, computed : Nat,
               table : {<<>>}, cpuTable : Seq(CpuBlock), cpuHashes : {hashes}]
    BY <1>2, <1>4 DEF IsSequence
  <2> HIDE DEF q
  <2>3. IsSequence(r, q)
    BY <1>2, <2>1, <2>2, NothingListed DEF IsSequence
  <2> QED BY <2>1, <2>3
<1> HIDE DEF q
<1>6. Rewritten(s, t, p, free, r, q)
  BY <1>4, <1>5, RewriteFields
<1> HIDE DEF t
<1>7. Touches(s, t, r) /\ t.cpuFree = free /\ t.seqs[r] = q
  BY <1>5, <1>6 DEF Touches, Rewritten, u
<1> QED BY <1>1, <1>3, <1>5, <1>7 DEF u, n, table, free

\* The turns of allocate_many.
AllocateManyTurns(f, p, count) ==
  /\ f[0] = [pool |-> p, table |-> <<>>]
  /\ \A k \in 1 .. count : f[k] = AllocateNext(f[k - 1])
  /\ AllocateMany(p, count) = f[count]

LEMMA AllocateManyTurnsExist ==
  ASSUME NEW p, NEW count \in Nat
  PROVE  \E f : AllocateManyTurns(f, p, count)
<1> DEFINE Step(f, k) == IF k = 0 THEN [pool |-> p, table |-> <<>>] ELSE AllocateNext(f[k - 1])
           N == {m \in Nat : \E f : f = [k \in 0 .. m |-> Step(f, k)]}
           F == CHOOSE f : f = [k \in 0 .. count |-> Step(f, k)]
<1>1. 0 \in N
  <2> DEFINE g == [k \in 0 .. 0 |-> [pool |-> p, table |-> <<>>]]
  <2>1. g = [k \in 0 .. 0 |-> Step(g, k)]
    OBVIOUS
  <2> HIDE DEF g
  <2>2. \E f : f = [k \in 0 .. 0 |-> Step(f, k)]
    BY <2>1
  <2> QED BY <2>2
<1>2. ASSUME NEW m \in Nat, m \in N PROVE m + 1 \in N
  <2>1. PICK g : g = [k \in 0 .. m |-> Step(g, k)]
    BY <1>2
  <2> DEFINE h == [k \in 0 .. m + 1 |-> IF k = m + 1 THEN Step(g, m + 1) ELSE g[k]]
  <2>2. ASSUME NEW k \in 0 .. m + 1 PROVE h[k] = Step(h, k)
    <3>1. k # 0 => k - 1 \in 0 .. m /\ h[k - 1] = g[k - 1]
      OBVIOUS
    <3>2. k # m + 1 => g[k] = Step(g, k)
      <4>1. k # m + 1 => k \in 0 .. m
        OBVIOUS
      <4> QED BY <2>1, <4>1
    <3>3. h[k] = Step(g, k)
      BY <3>2
    <3> QED BY <3>1, <3>3
  <2>3. h = [k \in 0 .. m + 1 |-> Step(h, k)]
    BY <2>2
  <2> HIDE DEF h
  <2>4. \E f : f = [k \in 0 .. m + 1 |-> Step(f, k)]
    BY <2>3
  <2> QED BY <2>4
<1>3. count \in N
  <2> HIDE DEF N
  <2> QED BY <1>1, <1>2, NatSetInduction
<1>4. F = [k \in 0 .. count |-> Step(F, k)]
  BY <1>3
<1>5. AllocateMany(p, count) = F[count]
  BY DEF AllocateMany
<1> HIDE DEF F
<1>6. F[0] = [pool |-> p, table |-> <<>>] /\ \A k \in 1 .. count : F[k] = AllocateNext(F[k - 1])
  <2>1. \A k \in 0 .. count : F[k] = Step(F, k)
    BY <1>4
  <2>2. 0 \in 0 .. count /\ \A k \in 1 .. count : k \in 0 .. count
    OBVIOUS
  <2>3. F[0] = Step(F, 0)
    BY <2>1, <2>2
  <2> QED BY <2>1, <2>2, <2>3
<1> QED BY <1>5, <1>6 DEF AllocateManyTurns

LEMMA AllocateManyLists ==
  ASSUME NEW p, NEW count \in Nat
  PROVE  Listed(AllocateMany(p, count).table)
<1>1. PICK f : AllocateManyTurns(f, p, count)
  BY AllocateManyTurnsExist
<1>2. /\ f[0] = [pool |-> p, table |-> <<>>]
      /\ \A k \in 1 .. count : f[k] = AllocateNext(f[k - 1])
      /\ AllocateMany(p, count) = f[count]
  BY <1>1 DEF AllocateManyTurns
<1> DEFINE N == {m \in Nat : m <= count => Listed(f[m].table)}
<1>3. 0 \in N
  BY <1>2, NothingListed
<1>4. ASSUME NEW m \in Nat, m \in N PROVE m + 1 \in N
  <2> SUFFICES ASSUME m + 1 <= count PROVE Listed(f[m + 1].table)
    OBVIOUS
  <2>1. m + 1 \in 1 .. count /\ (m + 1) - 1 = m /\ Listed(f[m].table)
    BY <1>4
  <2>2. f[m + 1] = AllocateNext(f[m])
    BY <1>2, <2>1
  <2>3. Listed(AllocateNext(f[m]).table)
    BY <2>1, ListedProperties DEF AllocateNext
  <2> QED BY <2>2, <2>3
<1>5. \A m \in Nat : m \in N
  <2> HIDE DEF N
  <2> QED BY <1>3, <1>4, NatSetInduction
<1>6. Listed(f[count].table)
  BY <1>5
<1> QED BY <1>2, <1>6

\* swap_in gives the CPU pages of r back.
LEMMA SwapInTouches ==
  ASSUME NEW s, Shaped(s), NEW r \in Requests
  PROVE  LET t == SwapIn(s, r)
         IN  /\ Touches(s, t, r)
             /\ t.cpuFree = s.cpuFree \o s.seqs[r].cpuTable
             /\ t.seqs[r].cpuTable = <<>>
<1> DEFINE u == s.seqs[r]
           table == AllocateMany(s.pool, Len(u.cpuTable)).table
           free == s.cpuFree \o u.cpuTable
           q == [u EXCEPT !.table = table, !.cpuTable = <<>>, !.cpuHashes = <<>>]
<1>1. PICK p : SwapIn(s, r) = Rewrite(s, p, free, r, q)
  BY Zenon DEF SwapIn, Shaped, Rewrite
<1> DEFINE t == Rewrite(s, p, free, r, q)
<1>2. IsSequence(r, u) /\ s.cpuFree \in Seq(CpuBlock)
  BY DEF Shaped
<1>3. Listed(table) /\ free \in Seq(CpuBlock)
  <2>1. u.cpuTable \in Seq(CpuBlock)
    BY <1>2 DEF IsSequence
  <2>2. Len(u.cpuTable) \in Nat
    BY <2>1, LenProperties
  <2> QED BY <1>2, <2>1, <2>2, AllocateManyLists, ConcatProperties
<1> HIDE DEF u, table, free
<1>4. /\ IsSequence(r, q) /\ q.cpuTable = <<>>
      /\ q.status = u.status /\ q.tokens = u.tokens
  <2>1. /\ q.status = u.status /\ q.tokens = u.tokens /\ q.cpuTable = <<>>
        /\ q.table = table /\ q.cpuHashes = <<>>
    BY <1>2 DEF IsSequence
  <2>2. <<>> \in Seq(CpuBlock)
    BY EmptySeq
  <2>3. q \in [status : Statuses, tokens : Seq(Tokens), cached : Nat, computed : Nat,
               table : {table}, cpuTable : Seq(CpuBlock), cpuHashes : {<<>>}]
    BY <1>2, <2>2 DEF IsSequence
  <2> HIDE DEF q
  <2>4. IsSequence(r, q)
    BY <1>2, <1>3, <2>1, <2>3 DEF IsSequence
  <2> QED BY <2>1, <2>4
<1> HIDE DEF q
<1>5. Rewritten(s, t, p, free, r, q)
  BY <1>3, <1>4, RewriteFields
<1> HIDE DEF t
<1>6. Touches(s, t, r) /\ t.cpuFree = free /\ t.seqs[r] = q
  BY <1>4, <1>5 DEF Touches, Rewritten, u
<1> QED BY <1>1, <1>4, <1>6 DEF u, free, t

-----------------------------------------------------------------------------
(* The GPU pages: what the operations of the block manager do to the counts.  *)

\* What the pool assumes of its constants.
LEMMA PoolConstants ==
  /\ NumBlocks \in Nat \ {0} /\ <<>> \notin PageHashes /\ <<>> \notin PageContents
  /\ PF!IsFiniteSet(Requests)
<1>1. <<>> \notin PageHashes /\ <<>> \notin PageContents
  BY ManagerAssumption, EmptySeq DEF PageHashes, PageContents
<1>2. PF!IsFiniteSet(Requests)
  BY ManagerAssumption DEF PF!IsFiniteSet, IsFiniteSet
<1> QED BY <1>1, <1>2, ManagerAssumption

LEMMA SameRemove == \A p, b : Pool!RemoveHashIndex(p, b) = PF!RemoveHashIndex(p, b)
BY DEF Pool!RemoveHashIndex, PF!RemoveHashIndex, Pool!Restrict, PF!Restrict

LEMMA SameClear == \A p, b : Pool!ClearHash(p, b) = PF!ClearHash(p, b)
BY SameRemove, Zenon DEF Pool!ClearHash, PF!ClearHash

LEMMA SameAllocate == \A p, b : Pool!Allocate(p, b) = PF!Allocate(p, b)
BY SameClear, Zenon DEF Pool!Allocate, PF!Allocate

LEMMA SameDeallocate == \A p, b : Pool!Deallocate(p, b) = PF!Deallocate(p, b)
BY SameClear, Zenon DEF Pool!Deallocate, PF!Deallocate

LEMMA SameEvict == \A p : Pool!EvictOldestCached(p) = PF!EvictOldestCached(p)
BY SameDeallocate DEF Pool!EvictOldestCached, PF!EvictOldestCached

LEMMA SameLive == \A p : Pool!Live(p) = PF!Live(p)
BY DEF Pool!Live, PF!Live

LEMMA SameMin == \A S : Pool!Min(S) = PF!Min(S)
BY DEF Pool!Min, PF!Min

LEMMA SameAllocateFree == \A p : Pool!AllocateFree(p) = PF!AllocateFree(p)
BY SameAllocate, SameEvict, SameLive, SameMin DEF Pool!AllocateFree, PF!AllocateFree

LEMMA SameRelease == \A p, b : Pool!ReleaseReference(p, b) = PF!ReleaseReference(p, b)
BY SameDeallocate DEF Pool!ReleaseReference, PF!ReleaseReference

LEMMA SameWithout == \A q, b : Pool!Without(q, b) = PF!Without(q, b)
BY DEF Pool!Without, PF!Without

LEMMA SameRetain == \A p, b : Pool!RetainBlock(p, b) = PF!RetainBlock(p, b)
BY SameWithout DEF Pool!RetainBlock, PF!RetainBlock

LEMMA SameBind == \A f, x, v : Pool!Bind(f, x, v) = PF!Bind(f, x, v)
BY DEF Pool!Bind, PF!Bind

LEMMA SameRegister == \A p, b, h, c : Pool!RegisterHash(p, b, h, c) = PF!RegisterHash(p, b, h, c)
<1> SUFFICES ASSUME NEW p, NEW b, NEW h, NEW c
             PROVE  Pool!RegisterHash(p, b, h, c) = PF!RegisterHash(p, b, h, c)
  OBVIOUS
<1> DEFINE q == Pool!RemoveHashIndex(p, b)
<1>1. PF!RemoveHashIndex(p, b) = q
  BY SameRemove
<1> HIDE DEF q
<1>2. PF!Bind(q.index, h, b) = Pool!Bind(q.index, h, b)
  BY SameBind
<1> QED BY <1>1, <1>2 DEF Pool!RegisterHash, PF!RegisterHash, q

LEMMA SameLookup == \A p, h, c : Pool!Lookup(p, h, c) = PF!Lookup(p, h, c)
BY DEF Pool!Lookup, PF!Lookup, Pool!NoBlock, PF!NoBlock

LEMMA SameFreeCount == \A p : Pool!FreeCount(p) = PF!FreeCount(p)
BY DEF Pool!FreeCount, PF!FreeCount, Pool!Cardinality, PF!Cardinality

LEMMA SameEmpty == \A retain : Pool!EmptyPool(retain) = PF!EmptyPool(retain)
BY DEF Pool!EmptyPool, PF!EmptyPool, Pool!Block, PF!Block

LEMMA SamePartition == \A p : Pool!BlocksPartitioned(p) <=> PF!BlocksPartitioned(p)
BY DEF Pool!BlocksPartitioned, PF!BlocksPartitioned, Pool!Block, PF!Block, Pool!Range, PF!Range

LEMMA SameBlock == Pool!Block = PF!Block /\ Pool!NoBlock = PF!NoBlock
BY DEF Pool!Block, PF!Block, Pool!NoBlock, PF!NoBlock

LEMMA CountsTypes ==
  ASSUME NEW p, NEW T, Counts(p, T)
  PROVE  /\ T \in [Requests -> SUBSET Pool!Block]
         /\ p.hash \in [Pool!Block -> PageHashes \cup {<<>>}]
         /\ Pool!FreeCount(p) \in Nat
<1>1. PF!PoolOK(p) /\ T \in [Requests -> SUBSET PF!Block]
  BY DEF Counts, PF!Counted
<1>2. p.hash \in [PF!Block -> PageHashes \cup {<<>>}]
  BY <1>1 DEF PF!PoolOK, PF!Pools
<1>3. NumBlocks \in Nat \ {0} /\ <<>> \notin PageHashes /\ <<>> \notin PageContents
  BY PoolConstants
<1>4. PF!IsFiniteSet(Requests)
  BY PoolConstants
<1>5. PF!FreeCount(p) \in Nat
  BY <1>1, <1>3, <1>4, PF!FreeCountCounts
<1>6. Pool!Block = PF!Block /\ Pool!FreeCount(p) = PF!FreeCount(p)
  BY SameBlock, SameFreeCount
<1> QED BY <1>1, <1>2, <1>5, <1>6

LEMMA PageTaken ==
  ASSUME NEW p, NEW T, Counts(p, T), NEW r \in Requests, Pool!FreeCount(p) > 0
  PROVE  LET a == Pool!AllocateFree(p)
         IN  /\ Counts(a.pool, [T EXCEPT ![r] = @ \cup {a.block}])
             /\ a.block \in Pool!Block \ T[r]
             /\ Pool!FreeCount(a.pool) = Pool!FreeCount(p) - 1
<1>1. PF!Counted(p, T) /\ PF!FreeCount(p) > 0
  BY SameFreeCount DEF Counts
<1>2. NumBlocks \in Nat \ {0} /\ <<>> \notin PageHashes /\ <<>> \notin PageContents
  BY PoolConstants
<1>3. PF!IsFiniteSet(Requests)
  BY PoolConstants
<1> DEFINE a == PF!AllocateFree(p)
<1>4. /\ PF!Counted(a.pool, [T EXCEPT ![r] = @ \cup {a.block}])
      /\ a.block \in PF!Block \ T[r]
      /\ PF!FreeCount(a.pool) = PF!FreeCount(p) - 1
  BY <1>1, <1>2, <1>3, PF!TakesFresh
<1>5. Pool!AllocateFree(p) = a
  BY SameAllocateFree
<1>6. Pool!FreeCount(a.pool) = PF!FreeCount(a.pool) /\ Pool!FreeCount(p) = PF!FreeCount(p)
  BY SameFreeCount
<1> HIDE DEF a
<1> QED BY <1>4, <1>5, <1>6, SameBlock DEF Counts

LEMMA PageFound ==
  ASSUME NEW p, NEW T, Counts(p, T), NEW h, NEW c, Pool!Lookup(p, h, c) # Pool!NoBlock
  PROVE  LET b == Pool!Lookup(p, h, c) IN b \in Pool!Block /\ p.hash[b] = h /\ h \in PageHashes
<1>1. PF!PoolOK(p)
  BY DEF Counts, PF!Counted
<1>2. NumBlocks \in Nat \ {0} /\ <<>> \notin PageHashes /\ <<>> \notin PageContents
  BY PoolConstants
<1>3. PF!IsFiniteSet(Requests)
  BY PoolConstants
<1> DEFINE b == PF!Lookup(p, h, c)
<1>4. Pool!Lookup(p, h, c) = b /\ b # PF!NoBlock
  BY SameLookup, SameBlock
<1>5. b \in PF!Block /\ p.hash[b] = h /\ h \in PageHashes
  BY <1>1, <1>2, <1>3, <1>4, PF!LookupFinds
<1> HIDE DEF b
<1> QED BY <1>4, <1>5, SameBlock

LEMMA PageShared ==
  ASSUME NEW p, NEW T, Counts(p, T), NEW r \in Requests, NEW h, NEW c, NEW b,
         b = Pool!Lookup(p, h, c), b \notin T[r] \cup {Pool!NoBlock}
  PROVE  LET q == Pool!RetainBlock(p, b)
         IN  /\ Counts(q, [T EXCEPT ![r] = @ \cup {b}])
             /\ q.hash = p.hash /\ Pool!FreeCount(q) >= Pool!FreeCount(p) - 1
<1>1. PF!Counted(p, T)
  BY DEF Counts
<1>2. NumBlocks \in Nat \ {0} /\ <<>> \notin PageHashes /\ <<>> \notin PageContents
  BY PoolConstants
<1>3. PF!IsFiniteSet(Requests)
  BY PoolConstants
<1>4. b = PF!Lookup(p, h, c) /\ PF!Lookup(p, h, c) \notin T[r] \cup {PF!NoBlock}
  BY SameLookup, SameBlock
<1> DEFINE q == PF!RetainBlock(p, PF!Lookup(p, h, c))
<1>5. /\ PF!Counted(q, [T EXCEPT ![r] = @ \cup {PF!Lookup(p, h, c)}])
      /\ q.hash = p.hash /\ PF!FreeCount(q) >= PF!FreeCount(p) - 1
  BY <1>1, <1>2, <1>3, <1>4, PF!TakesFound
<1>6. Pool!RetainBlock(p, b) = q
  BY <1>4, SameRetain
<1>7. Pool!FreeCount(q) = PF!FreeCount(q) /\ Pool!FreeCount(p) = PF!FreeCount(p)
  BY SameFreeCount
<1> HIDE DEF q
<1> QED BY <1>4, <1>5, <1>6, <1>7 DEF Counts

LEMMA PageReleased ==
  ASSUME NEW p, NEW T, Counts(p, T), NEW r \in Requests, NEW b \in T[r]
  PROVE  Counts(Pool!ReleaseReference(p, b), [T EXCEPT ![r] = @ \ {b}])
<1>1. PF!Counted(p, T)
  BY DEF Counts
<1>2. NumBlocks \in Nat \ {0} /\ <<>> \notin PageHashes /\ <<>> \notin PageContents
  BY PoolConstants
<1>3. PF!IsFiniteSet(Requests)
  BY PoolConstants
<1>4. PF!Counted(PF!ReleaseReference(p, b), [T EXCEPT ![r] = @ \ {b}])
  BY <1>1, <1>2, <1>3, PF!Releases
<1> QED BY <1>4, SameRelease DEF Counts

LEMMA PageRegistered ==
  ASSUME NEW p, NEW T, Counts(p, T), NEW r \in Requests, NEW b \in T[r],
         NEW h \in PageHashes, NEW c \in PageContents
  PROVE  Counts(Pool!RegisterHash(p, b, h, c), T)
<1>1. PF!Counted(p, T)
  BY DEF Counts
<1>2. NumBlocks \in Nat \ {0} /\ <<>> \notin PageHashes /\ <<>> \notin PageContents
  BY PoolConstants
<1>3. PF!IsFiniteSet(Requests)
  BY PoolConstants
<1>4. PF!Counted(PF!RegisterHash(p, b, h, c), T)
  BY <1>1, <1>2, <1>3, PF!Publishes
<1> QED BY <1>4, SameRegister DEF Counts

\* The turns of the loop that gives pages back.
ReleaseTurns(f, p, table, n) ==
  /\ f[0] = p
  /\ \A k \in 1 .. n : f[k] = Pool!ReleaseReference(f[k - 1], table[k])
  /\ ReleasePages(p, table) = f[n]

LEMMA ReleaseTurnsExist ==
  ASSUME NEW p, NEW table, NEW n \in Nat, n = Len(table)
  PROVE  \E f : ReleaseTurns(f, p, table, n)
<1> DEFINE Step(f, k) == IF k = 0 THEN p ELSE Pool!ReleaseReference(f[k - 1], table[k])
           N == {m \in Nat : \E f : f = [k \in 0 .. m |-> Step(f, k)]}
           F == CHOOSE f : f = [k \in 0 .. n |-> Step(f, k)]
<1>1. 0 \in N
  <2> DEFINE g == [k \in 0 .. 0 |-> p]
  <2>1. g = [k \in 0 .. 0 |-> Step(g, k)]
    OBVIOUS
  <2> HIDE DEF g
  <2>2. \E f : f = [k \in 0 .. 0 |-> Step(f, k)]
    BY <2>1
  <2> QED BY <2>2
<1>2. ASSUME NEW m \in Nat, m \in N PROVE m + 1 \in N
  <2>1. PICK g : g = [k \in 0 .. m |-> Step(g, k)]
    BY <1>2
  <2> DEFINE h == [k \in 0 .. m + 1 |-> IF k = m + 1 THEN Step(g, m + 1) ELSE g[k]]
  <2>2. ASSUME NEW k \in 0 .. m + 1 PROVE h[k] = Step(h, k)
    <3>1. k # 0 => k - 1 \in 0 .. m /\ h[k - 1] = g[k - 1]
      OBVIOUS
    <3>2. k # m + 1 => g[k] = Step(g, k)
      <4>1. k # m + 1 => k \in 0 .. m
        OBVIOUS
      <4> QED BY <2>1, <4>1
    <3>3. h[k] = Step(g, k)
      BY <3>2
    <3> QED BY <3>1, <3>3
  <2>3. h = [k \in 0 .. m + 1 |-> Step(h, k)]
    BY <2>2
  <2> HIDE DEF h
  <2>4. \E f : f = [k \in 0 .. m + 1 |-> Step(f, k)]
    BY <2>3
  <2> QED BY <2>4
<1>3. n \in N
  <2> HIDE DEF N
  <2> QED BY <1>1, <1>2, NatSetInduction
<1>4. F = [k \in 0 .. n |-> Step(F, k)]
  BY <1>3
<1>5. ReleasePages(p, table) = F[n]
  BY DEF ReleasePages
<1> HIDE DEF F
<1>6. F[0] = p /\ \A k \in 1 .. n : F[k] = Pool!ReleaseReference(F[k - 1], table[k])
  <2>1. \A k \in 0 .. n : F[k] = Step(F, k)
    BY <1>4
  <2>2. 0 \in 0 .. n /\ \A k \in 1 .. n : k \in 0 .. n
    OBVIOUS
  <2>3. F[0] = Step(F, 0)
    BY <2>1, <2>2
  <2> QED BY <2>1, <2>2, <2>3
<1> QED BY <1>5, <1>6 DEF ReleaseTurns

\* Request r gives back some of its pages.
LEMMA PagesReleased ==
  ASSUME NEW p, NEW T, Counts(p, T), NEW r \in Requests,
         NEW table \in Seq(Pool!Block), IsInjective(table), Range(table) \subseteq T[r]
  PROVE  Counts(ReleasePages(p, table), [T EXCEPT ![r] = @ \ Range(table)])
<1> DEFINE n == Len(table)
<1>1. n \in Nat /\ DOMAIN table = 1 .. n
  BY LenProperties
<1>n. n = Len(table)
  OBVIOUS
<1> HIDE DEF n
<1>e. PICK f : ReleaseTurns(f, p, table, n)
  BY <1>1, <1>n, ReleaseTurnsExist
<1>2. /\ f[0] = p /\ \A k \in 1 .. n : f[k] = Pool!ReleaseReference(f[k - 1], table[k])
      /\ ReleasePages(p, table) = f[n]
  BY <1>e DEF ReleaseTurns
<1>t. T \in [Requests -> SUBSET Pool!Block]
  BY CountsTypes
<1> DEFINE First(m) == {table[j] : j \in 1 .. m}
           Left(m) == [T EXCEPT ![r] = @ \ First(m)]
           N == {m \in Nat : m <= n => Counts(f[m], Left(m))}
<1>3. 0 \in N
  <2>1. First(0) = {}
    OBVIOUS
  <2>2. Left(0) = T
    BY <1>t, <2>1
  <2> HIDE DEF Left
  <2> QED BY <1>2, <2>2
<1>4. ASSUME NEW m \in Nat, m \in N PROVE m + 1 \in N
  <2> SUFFICES ASSUME m + 1 <= n PROVE Counts(f[m + 1], Left(m + 1))
    OBVIOUS
  <2>1. m + 1 \in 1 .. n /\ (m + 1) - 1 = m /\ Counts(f[m], Left(m))
    BY <1>1, <1>4
  <2>2. f[m + 1] = Pool!ReleaseReference(f[m], table[m + 1])
    BY <1>2, <2>1
  <2>3. table[m + 1] \in Left(m)[r]
    <3>1. table[m + 1] \in T[r]
      BY <1>1, <2>1 DEF Range
    <3>2. \A j \in 1 .. m : table[j] # table[m + 1]
      BY <1>1, <2>1 DEF IsInjective
    <3> QED BY <1>t, <3>1, <3>2
  <2>4. [Left(m) EXCEPT ![r] = @ \ {table[m + 1]}] = Left(m + 1)
    <3>1. First(m + 1) = First(m) \cup {table[m + 1]}
      <4>1. 1 .. m + 1 = (1 .. m) \cup {m + 1}
        OBVIOUS
      <4> QED BY <4>1
    <3> HIDE DEF First
    <3> QED BY <1>t, <3>1
  <2> HIDE DEF Left
  <2>5. Counts(f[m + 1], [Left(m) EXCEPT ![r] = @ \ {table[m + 1]}])
    BY <2>1, <2>2, <2>3, PageReleased
  <2> QED BY <2>4, <2>5
<1>5. \A m \in Nat : m \in N
  <2> HIDE DEF N
  <2> QED BY <1>3, <1>4, NatSetInduction
<1>6. Counts(f[n], Left(n))
  BY <1>1, <1>5
<1>7. First(n) = Range(table)
  BY <1>1 DEF Range
<1> HIDE DEF First
<1>8. Left(n) = [T EXCEPT ![r] = @ \ Range(table)]
  BY <1>7
<1> HIDE DEF Left
<1> QED BY <1>2, <1>6, <1>8

\* Fresh pages for a request without a page table.
FreshPages(p, T, r, a, count) ==
  /\ a.table \in Seq(Pool!Block) /\ IsInjective(a.table) /\ Len(a.table) = count
  /\ Counts(a.pool, [T EXCEPT ![r] = Range(a.table)])
  /\ Pool!FreeCount(a.pool) = Pool!FreeCount(p) - count

LEMMA NextPageAllocated ==
  ASSUME NEW p, NEW T, Counts(p, T), NEW r \in Requests, NEW a, NEW m \in Nat,
         FreshPages(p, T, r, a, m), m < Pool!FreeCount(p)
  PROVE  FreshPages(p, T, r, AllocateNext(a), m + 1)
<1> DEFINE S == [T EXCEPT ![r] = Range(a.table)]
           f == Pool!AllocateFree(a.pool)
           b == f.block
           q == Append(a.table, b)
           c == AllocateNext(a)
<1>1. T \in [Requests -> SUBSET Pool!Block] /\ Pool!FreeCount(p) \in Nat
  BY CountsTypes
<1>2. /\ a.table \in Seq(Pool!Block) /\ IsInjective(a.table) /\ Len(a.table) = m
      /\ Counts(a.pool, S) /\ Pool!FreeCount(a.pool) = Pool!FreeCount(p) - m
  BY DEF FreshPages
<1>3. c.pool = f.pool /\ c.table = q
  BY DEF AllocateNext
<1>4. Pool!FreeCount(a.pool) > 0
  BY <1>1, <1>2
<1>5. S[r] = Range(a.table)
  BY <1>1
<1> HIDE DEF S, c
<1>6. /\ Counts(f.pool, [S EXCEPT ![r] = @ \cup {f.block}])
      /\ f.block \in Pool!Block \ S[r]
      /\ Pool!FreeCount(f.pool) = Pool!FreeCount(a.pool) - 1
  BY <1>2, <1>4, PageTaken
<1> HIDE DEF f
<1>7. b \in Pool!Block /\ b \notin Range(a.table)
  BY <1>5, <1>6
<1>8. /\ q \in Seq(Pool!Block) /\ Range(q) = Range(a.table) \cup {b} /\ IsInjective(q)
      /\ Len(q) = Len(a.table) + 1
  BY <1>2, <1>7, AppendNewProperties
<1>9. [S EXCEPT ![r] = @ \cup {b}] = [T EXCEPT ![r] = Range(q)]
  <2>1. Range(q) = S[r] \cup {b}
    BY <1>5, <1>8
  <2> HIDE DEF q, b
  <2> QED BY <1>1, <2>1 DEF S
<1> HIDE DEF q
<1>10. Pool!FreeCount(f.pool) = Pool!FreeCount(p) - (m + 1)
  BY <1>1, <1>2, <1>6
<1>11. Counts(f.pool, [T EXCEPT ![r] = Range(q)])
  BY <1>6, <1>9
<1>12. FreshPages(p, T, r, c, m + 1)
  BY <1>2, <1>3, <1>8, <1>10, <1>11 DEF FreshPages
<1> QED BY <1>12 DEF c

LEMMA PagesAllocated ==
  ASSUME NEW p, NEW T, Counts(p, T), NEW r \in Requests, T[r] = {},
         NEW count \in Nat, count <= Pool!FreeCount(p)
  PROVE  FreshPages(p, T, r, AllocateMany(p, count), count)
<1>1. PICK f : AllocateManyTurns(f, p, count)
  BY AllocateManyTurnsExist
<1>2. /\ f[0] = [pool |-> p, table |-> <<>>]
      /\ \A k \in 1 .. count : f[k] = AllocateNext(f[k - 1])
      /\ AllocateMany(p, count) = f[count]
  BY <1>1 DEF AllocateManyTurns
<1>t. T \in [Requests -> SUBSET Pool!Block] /\ Pool!FreeCount(p) \in Nat
  BY CountsTypes
<1> DEFINE N == {m \in Nat : m <= count => FreshPages(p, T, r, f[m], m)}
<1>3. 0 \in N
  <2>1. f[0].table = <<>> /\ f[0].pool = p
    BY <1>2
  <2>2. /\ <<>> \in Seq(Pool!Block) /\ IsInjective(<<>>) /\ Len(<<>>) = 0 /\ Range(<<>>) = {}
    BY NoElements
  <2>3. [T EXCEPT ![r] = {}] = T
    BY <1>t
  <2>4. Pool!FreeCount(p) = Pool!FreeCount(p) - 0
    BY <1>t
  <2>5. FreshPages(p, T, r, f[0], 0)
    BY <2>1, <2>2, <2>3, <2>4 DEF FreshPages
  <2> QED BY <2>5
<1>4. ASSUME NEW m \in Nat, m \in N PROVE m + 1 \in N
  <2> SUFFICES ASSUME m + 1 <= count PROVE FreshPages(p, T, r, f[m + 1], m + 1)
    OBVIOUS
  <2>1. m + 1 \in 1 .. count /\ (m + 1) - 1 = m /\ FreshPages(p, T, r, f[m], m)
    BY <1>4
  <2>2. f[m + 1] = AllocateNext(f[m])
    BY <1>2, <2>1
  <2>3. m < Pool!FreeCount(p)
    BY <1>t, <2>1
  <2> QED BY <2>1, <2>2, <2>3, NextPageAllocated
<1>5. \A m \in Nat : m \in N
  <2> HIDE DEF N
  <2> QED BY <1>3, <1>4, NatSetInduction
<1> QED BY <1>2, <1>5

\* The tokens of a page, and of a full one.
LEMMA PageOfTokens ==
  ASSUME NEW q, q.tokens \in Seq(Tokens), NEW m \in Nat
  PROVE  /\ PageTokens(q, m) \in Seq(Tokens)
         /\ (m + 1) * BlockSize <= Len(q.tokens) => PageTokens(q, m) \in PageContents
<1> DEFINE n == Len(q.tokens)
           x == (m + 1) * BlockSize
           i == m * BlockSize + 1
           j == Min({x, n})
<1>1. BlockSize \in Nat /\ BlockSize > 0
  BY ManagerAssumption
<1>2. n \in Nat /\ \A k \in 1 .. n : q.tokens[k] \in Tokens
  BY LenProperties, ElementOfSeq
<1>3. x \in Nat /\ i \in Nat /\ i >= 1 /\ x = m * BlockSize + BlockSize
  BY <1>1
<1> HIDE DEF n, x, i
<1>4. j \in {x, n} /\ j <= x /\ j <= n
  <2>1. x \in Int /\ n \in Int
    BY <1>2, <1>3
  <2> QED BY <2>1, MinOfTwo
<1> HIDE DEF j
<1>5. i \in Int /\ j \in Int /\ \A k \in i .. j : q.tokens[k] \in Tokens
  BY <1>2, <1>3, <1>4
<1>6. /\ SubSeq(q.tokens, i, j) \in Seq(Tokens)
      /\ Len(SubSeq(q.tokens, i, j)) = IF i <= j THEN j - i + 1 ELSE 0
  BY <1>5, SubSeqProperties
<1>7. PageTokens(q, m) = SubSeq(q.tokens, i, j)
  BY DEF PageTokens, i, j, x, n
<1>8. x <= n => j = x
  BY <1>2, <1>3, <1>4
<1>9. x <= n => (i <= j /\ j - i + 1 = BlockSize)
  BY <1>1, <1>3, <1>8 DEF i
<1> QED BY <1>6, <1>7, <1>9 DEF PageContents, x, n

\* The allocation loop after m pages of request r: shared pages carry the hashes of ever
\* longer prefixes, so that no page is found twice.
Allocating(p, T, r, acc, m) ==
  /\ acc.table \in Seq(Pool!Block) /\ IsInjective(acc.table) /\ Len(acc.table) = m
  /\ Counts(acc.pool, [T EXCEPT ![r] = Range(acc.table)])
  /\ Pool!FreeCount(acc.pool) >= Pool!FreeCount(p) - m
  /\ acc.miss \/ (acc.hash \in Seq(Tokens) /\ Len(acc.hash) = m * BlockSize)
  /\ acc.miss \/ \A j \in 1 .. m : Len(acc.pool.hash[acc.table[j]]) = j * BlockSize

LEMMA NextPageTaken ==
  ASSUME NEW p, NEW T, Counts(p, T), NEW r \in Requests, NEW acc, NEW m \in Nat,
         Allocating(p, T, r, acc, m), m < Pool!FreeCount(p), NEW q, q.tokens \in Seq(Tokens)
  PROVE  Allocating(p, T, r, AllocatePage(acc, r, q, m), m + 1)
<1> DEFINE S == [T EXCEPT ![r] = Range(acc.table)]
           toks == PageTokens(q, m)
           h == IF PrefixCaching /\ Len(toks) = BlockSize THEN ComputeHash(toks, acc.hash) ELSE <<>>
           alignedLast == PromptLen(r) % BlockSize = 0 /\ m = NumPages(q) - 1
           hit == IF acc.miss \/ alignedLast THEN Pool!NoBlock ELSE Pool!Lookup(acc.pool, h, toks)
           fresh == Pool!AllocateFree(acc.pool)
           c == AllocatePage(acc, r, q, m)
<1>1. T \in [Requests -> SUBSET Pool!Block] /\ Pool!FreeCount(p) \in Nat
  BY CountsTypes
<1>2. /\ acc.table \in Seq(Pool!Block) /\ IsInjective(acc.table) /\ Len(acc.table) = m
      /\ Counts(acc.pool, S) /\ Pool!FreeCount(acc.pool) >= Pool!FreeCount(p) - m
  BY DEF Allocating
<1>3. Pool!FreeCount(acc.pool) \in Nat /\ Pool!FreeCount(acc.pool) > 0
  BY <1>1, <1>2, CountsTypes
<1>4. S[r] = Range(acc.table)
  BY <1>1
<1>5. ASSUME NEW b, b \in Pool!Block, b \notin Range(acc.table)
      PROVE  LET w == Append(acc.table, b)
             IN  /\ w \in Seq(Pool!Block) /\ IsInjective(w) /\ Len(w) = m + 1
                 /\ [S EXCEPT ![r] = @ \cup {b}] = [T EXCEPT ![r] = Range(w)]
                 /\ w[m + 1] = b /\ \A j \in 1 .. m : w[j] = acc.table[j]
  <2> DEFINE w == Append(acc.table, b)
  <2>1. /\ w \in Seq(Pool!Block) /\ Range(w) = Range(acc.table) \cup {b} /\ IsInjective(w)
        /\ Len(w) = Len(acc.table) + 1
    BY <1>2, <1>5, AppendNewProperties
  <2>2. w[m + 1] = b /\ \A j \in 1 .. m : w[j] = acc.table[j]
    BY <1>2, <1>5, AppendProperties
  <2> HIDE DEF w
  <2>3. [S EXCEPT ![r] = @ \cup {b}] = [T EXCEPT ![r] = Range(w)]
    BY <1>1, <1>4, <2>1
  <2> QED BY <1>2, <2>1, <2>2, <2>3 DEF w
<1>6. CASE hit = Pool!NoBlock
  <2> DEFINE b == fresh.block
             w == Append(acc.table, b)
  <2>1. c.pool = fresh.pool /\ c.table = w /\ c.miss = TRUE
    BY <1>6 DEF AllocatePage
  <2> HIDE DEF S, c
  <2>2. /\ Counts(fresh.pool, [S EXCEPT ![r] = @ \cup {fresh.block}])
        /\ fresh.block \in Pool!Block \ S[r]
        /\ Pool!FreeCount(fresh.pool) = Pool!FreeCount(acc.pool) - 1
    BY <1>2, <1>3, PageTaken
  <2> HIDE DEF fresh
  <2>3. b \in Pool!Block /\ b \notin Range(acc.table)
    BY <1>4, <2>2
  <2>4. /\ w \in Seq(Pool!Block) /\ IsInjective(w) /\ Len(w) = m + 1
        /\ [S EXCEPT ![r] = @ \cup {b}] = [T EXCEPT ![r] = Range(w)]
    BY <1>5, <2>3
  <2>5. Pool!FreeCount(fresh.pool) >= Pool!FreeCount(p) - (m + 1)
    BY <1>1, <1>2, <1>3, <2>2
  <2> HIDE DEF w
  <2>6. Counts(c.pool, [T EXCEPT ![r] = Range(w)])
    BY <2>1, <2>2, <2>4
  <2> QED BY <2>1, <2>4, <2>5, <2>6 DEF Allocating, c
<1>7. CASE hit # Pool!NoBlock
  <2> DEFINE w == Append(acc.table, hit)
             g == Pool!RetainBlock(acc.pool, hit)
  <2>1. /\ ~acc.miss /\ hit = Pool!Lookup(acc.pool, h, toks)
        /\ c = [pool |-> g, table |-> w, cached |-> acc.cached + BlockSize, hash |-> h, miss |-> FALSE]
    BY <1>7 DEF AllocatePage
  <2>2. c.pool = g /\ c.table = w /\ c.hash = h /\ c.miss = FALSE
    BY <2>1
  <2> HIDE DEF S, c, hit
  <2>3. hit \in Pool!Block /\ acc.pool.hash[hit] = h /\ h \in PageHashes
    <3>1. Pool!Lookup(acc.pool, h, toks) # Pool!NoBlock
      BY <1>7, <2>1
    <3> HIDE DEF h, toks
    <3> QED BY <1>2, <2>1, <3>1, PageFound
  <2>4. h \in Seq(Tokens) /\ Len(h) = (m + 1) * BlockSize
    <3>1. BlockSize \in Nat /\ BlockSize > 0
      BY ManagerAssumption
    <3>2. h # <<>>
      BY <2>3, <3>1, EmptySeq DEF PageHashes
    <3>3. h = acc.hash \o toks /\ Len(toks) = BlockSize
      BY <3>2 DEF ComputeHash
    <3>4. acc.hash \in Seq(Tokens) /\ Len(acc.hash) = m * BlockSize
      BY <2>1 DEF Allocating
    <3>5. h \in Seq(Tokens)
      BY <2>3 DEF PageHashes
    <3>6. toks \in Seq(Tokens)
      BY PageOfTokens
    <3> HIDE DEF h, toks
    <3>7. Len(acc.hash \o toks) = Len(acc.hash) + Len(toks)
      BY <3>4, <3>6, ConcatProperties
    <3>8. (m + 1) * BlockSize = m * BlockSize + BlockSize
      BY <3>1
    <3> QED BY <3>3, <3>4, <3>5, <3>7, <3>8
  <2> HIDE DEF h, toks
  <2>5. hit \notin Range(acc.table)
    <3> SUFFICES ASSUME NEW j \in 1 .. m, acc.table[j] = hit PROVE FALSE
      BY <1>2, LenProperties DEF Range
    <3>1. Len(acc.pool.hash[acc.table[j]]) = j * BlockSize
      BY <2>1 DEF Allocating
    <3>2. j * BlockSize = (m + 1) * BlockSize
      BY <2>3, <2>4, <3>1
    <3> QED BY <3>2, ManagerAssumption
  <2>6. /\ Counts(g, [S EXCEPT ![r] = @ \cup {hit}])
        /\ g.hash = acc.pool.hash /\ Pool!FreeCount(g) >= Pool!FreeCount(acc.pool) - 1
    <3>1. hit \notin S[r] \cup {Pool!NoBlock}
      BY <1>4, <1>7, <2>5
    <3>2. hit = Pool!Lookup(acc.pool, h, toks) /\ Counts(acc.pool, S)
      BY <1>2, <2>1
    <3> QED BY <3>1, <3>2, PageShared
  <2>7. /\ w \in Seq(Pool!Block) /\ IsInjective(w) /\ Len(w) = m + 1
        /\ [S EXCEPT ![r] = @ \cup {hit}] = [T EXCEPT ![r] = Range(w)]
        /\ w[m + 1] = hit /\ \A j \in 1 .. m : w[j] = acc.table[j]
    BY <1>5, <2>3, <2>5
  <2> HIDE DEF w, g
  <2>8. Pool!FreeCount(g) >= Pool!FreeCount(p) - (m + 1)
    <3>1. Pool!FreeCount(g) \in Nat
      BY <2>6, CountsTypes
    <3> QED BY <1>1, <1>2, <1>3, <2>6, <3>1
  <2>9. Counts(c.pool, [T EXCEPT ![r] = Range(w)])
    BY <2>2, <2>6, <2>7
  <2>10. \A j \in 1 .. m + 1 : Len(c.pool.hash[w[j]]) = j * BlockSize
    <3>1. \A j \in 1 .. m : Len(acc.pool.hash[acc.table[j]]) = j * BlockSize
      BY <2>1 DEF Allocating
    <3>2. Len(g.hash[w[m + 1]]) = (m + 1) * BlockSize
      BY <2>3, <2>4, <2>6, <2>7
    <3>3. \A j \in 1 .. m : Len(g.hash[w[j]]) = j * BlockSize
      BY <2>6, <2>7, <3>1
    <3>4. \A j \in 1 .. m + 1 : j \in 1 .. m \/ j = m + 1
      OBVIOUS
    <3> QED BY <2>2, <3>2, <3>3, <3>4
  <2> QED BY <2>2, <2>4, <2>7, <2>8, <2>9, <2>10 DEF Allocating, c
<1> QED BY <1>6, <1>7

\* The turns of the publication of the pages that [first, last) completed.
PublishTurns(f, s, r, first, last, n) ==
  /\ f[0] = s.pool
  /\ \A k \in 1 .. n : f[k] = PublishPage(f[k - 1], s.seqs[r], first \div BlockSize + k - 1)
  /\ PublishComputedBlocks(s, r, first, last) = [s EXCEPT !.pool = f[n]]

LEMMA PublishTurnsExist ==
  ASSUME NEW s, NEW r, NEW first, NEW last, NEW n \in Nat \ {0}, PrefixCaching,
         n = (last \div BlockSize) - (first \div BlockSize)
  PROVE  \E f : PublishTurns(f, s, r, first, last, n)
<1> DEFINE Step(f, k) == IF k = 0 THEN s.pool ELSE PublishPage(f[k - 1], s.seqs[r], first \div BlockSize + k - 1)
           N == {m \in Nat : \E f : f = [k \in 0 .. m |-> Step(f, k)]}
           F == CHOOSE f : f = [k \in 0 .. n |-> Step(f, k)]
<1>1. 0 \in N
  <2> DEFINE g == [k \in 0 .. 0 |-> s.pool]
  <2>1. g = [k \in 0 .. 0 |-> Step(g, k)]
    OBVIOUS
  <2> HIDE DEF g
  <2>2. \E f : f = [k \in 0 .. 0 |-> Step(f, k)]
    BY <2>1
  <2> QED BY <2>2
<1>2. ASSUME NEW m \in Nat, m \in N PROVE m + 1 \in N
  <2>1. PICK g : g = [k \in 0 .. m |-> Step(g, k)]
    BY <1>2
  <2> DEFINE h == [k \in 0 .. m + 1 |-> IF k = m + 1 THEN Step(g, m + 1) ELSE g[k]]
  <2>2. ASSUME NEW k \in 0 .. m + 1 PROVE h[k] = Step(h, k)
    <3>1. k # 0 => k - 1 \in 0 .. m /\ h[k - 1] = g[k - 1]
      OBVIOUS
    <3>2. k # m + 1 => g[k] = Step(g, k)
      <4>1. k # m + 1 => k \in 0 .. m
        OBVIOUS
      <4> QED BY <2>1, <4>1
    <3>3. h[k] = Step(g, k)
      BY <3>2
    <3> QED BY <3>1, <3>3
  <2>3. h = [k \in 0 .. m + 1 |-> Step(h, k)]
    BY <2>2
  <2> HIDE DEF h
  <2>4. \E f : f = [k \in 0 .. m + 1 |-> Step(f, k)]
    BY <2>3
  <2> QED BY <2>4
<1>3. n \in N
  <2> HIDE DEF N
  <2> QED BY <1>1, <1>2, NatSetInduction
<1>4. F = [k \in 0 .. n |-> Step(F, k)]
  BY <1>3
<1>5. PublishComputedBlocks(s, r, first, last) = [s EXCEPT !.pool = F[n]]
  BY DEF PublishComputedBlocks
<1> HIDE DEF F
<1>6. F[0] = s.pool /\ \A k \in 1 .. n : F[k] = PublishPage(F[k - 1], s.seqs[r], first \div BlockSize + k - 1)
  <2>1. \A k \in 0 .. n : F[k] = Step(F, k)
    BY <1>4
  <2>2. 0 \in 0 .. n /\ \A k \in 1 .. n : k \in 0 .. n
    OBVIOUS
  <2>3. F[0] = Step(F, 0)
    BY <2>1, <2>2
  <2> QED BY <2>1, <2>2, <2>3
<1> QED BY <1>5, <1>6 DEF PublishTurns

\* The turns that restore the saved hashes.
RestoreTurns(f, s, r, n) ==
  /\ f[0] = AllocateMany(s.pool, n).pool
  /\ \A k \in 1 .. n : f[k] = RestorePage(f[k - 1], AllocateMany(s.pool, n).table[k], s.seqs[r].cpuHashes[k])
  /\ SwapIn(s, r) =
       [s EXCEPT !.pool = f[n], !.cpuFree = @ \o s.seqs[r].cpuTable,
                 !.seqs[r] = [@ EXCEPT !.table = AllocateMany(s.pool, n).table,
                                       !.cpuTable = <<>>, !.cpuHashes = <<>>]]

LEMMA RestoreTurnsExist ==
  ASSUME NEW s, NEW r, NEW n \in Nat, n = Len(s.seqs[r].cpuTable)
  PROVE  \E f : RestoreTurns(f, s, r, n)
<1> DEFINE Step(f, k) == IF k = 0 THEN AllocateMany(s.pool, n).pool ELSE RestorePage(f[k - 1], AllocateMany(s.pool, n).table[k], s.seqs[r].cpuHashes[k])
           N == {m \in Nat : \E f : f = [k \in 0 .. m |-> Step(f, k)]}
           F == CHOOSE f : f = [k \in 0 .. n |-> Step(f, k)]
<1>1. 0 \in N
  <2> DEFINE g == [k \in 0 .. 0 |-> AllocateMany(s.pool, n).pool]
  <2>1. g = [k \in 0 .. 0 |-> Step(g, k)]
    OBVIOUS
  <2> HIDE DEF g
  <2>2. \E f : f = [k \in 0 .. 0 |-> Step(f, k)]
    BY <2>1
  <2> QED BY <2>2
<1>2. ASSUME NEW m \in Nat, m \in N PROVE m + 1 \in N
  <2>1. PICK g : g = [k \in 0 .. m |-> Step(g, k)]
    BY <1>2
  <2> DEFINE h == [k \in 0 .. m + 1 |-> IF k = m + 1 THEN Step(g, m + 1) ELSE g[k]]
  <2>2. ASSUME NEW k \in 0 .. m + 1 PROVE h[k] = Step(h, k)
    <3>1. k # 0 => k - 1 \in 0 .. m /\ h[k - 1] = g[k - 1]
      OBVIOUS
    <3>2. k # m + 1 => g[k] = Step(g, k)
      <4>1. k # m + 1 => k \in 0 .. m
        OBVIOUS
      <4> QED BY <2>1, <4>1
    <3>3. h[k] = Step(g, k)
      BY <3>2
    <3> QED BY <3>1, <3>3
  <2>3. h = [k \in 0 .. m + 1 |-> Step(h, k)]
    BY <2>2
  <2> HIDE DEF h
  <2>4. \E f : f = [k \in 0 .. m + 1 |-> Step(f, k)]
    BY <2>3
  <2> QED BY <2>4
<1>3. n \in N
  <2> HIDE DEF N
  <2> QED BY <1>1, <1>2, NatSetInduction
<1>4. F = [k \in 0 .. n |-> Step(F, k)]
  BY <1>3, Zenon
<1>5. SwapIn(s, r) =
       [s EXCEPT !.pool = F[n], !.cpuFree = @ \o s.seqs[r].cpuTable,
                 !.seqs[r] = [@ EXCEPT !.table = AllocateMany(s.pool, n).table,
                                       !.cpuTable = <<>>, !.cpuHashes = <<>>]]
  BY DEF SwapIn
<1> HIDE DEF F
<1>6. F[0] = AllocateMany(s.pool, n).pool /\ \A k \in 1 .. n : F[k] = RestorePage(F[k - 1], AllocateMany(s.pool, n).table[k], s.seqs[r].cpuHashes[k])
  <2>1. \A k \in 0 .. n : F[k] = Step(F, k)
    BY <1>4
  <2>2. 0 \in 0 .. n /\ \A k \in 1 .. n : k \in 0 .. n
    OBVIOUS
  <2>3. F[0] = Step(F, 0)
    BY <2>1, <2>2
  <2> QED BY <2>1, <2>2, <2>3
<1> QED BY <1>5, <1>6, Zenon DEF RestoreTurns

\* allocate takes as many pages as the tokens of r fill, if so many are free.
LEMMA PromptAllocated ==
  ASSUME NEW s, NEW T, Counts(s.pool, T), NEW r \in Requests, T[r] = {},
         s.seqs[r].tokens \in Seq(Tokens), NEW n \in Nat, n <= Pool!FreeCount(s.pool),
         NEW f, AllocateTurns(f, s, r, n)
  PROVE  Allocating(s.pool, T, r, f[n], n)
<1> DEFINE p == s.pool
<1>2. /\ f[0] = [pool |-> p, table |-> <<>>, cached |-> s.seqs[r].cached,
                 hash |-> <<>>, miss |-> FALSE]
      /\ \A k \in 1 .. n : f[k] = AllocatePage(f[k - 1], r, s.seqs[r], k - 1)
  BY DEF AllocateTurns
<1>t. T \in [Requests -> SUBSET Pool!Block] /\ Pool!FreeCount(p) \in Nat
  BY CountsTypes
<1> HIDE DEF p
<1> DEFINE N == {m \in Nat : m <= n => Allocating(p, T, r, f[m], m)}
<1>3. 0 \in N
  <2>1. f[0].table = <<>> /\ f[0].pool = p /\ f[0].hash = <<>> /\ ~f[0].miss
    BY <1>2
  <2>2. /\ <<>> \in Seq(Pool!Block) /\ IsInjective(<<>>) /\ Len(<<>>) = 0 /\ Range(<<>>) = {}
        /\ <<>> \in Seq(Tokens)
    BY NoElements, EmptySeq
  <2>3. [T EXCEPT ![r] = {}] = T
    BY <1>t
  <2>4. Pool!FreeCount(p) >= Pool!FreeCount(p) - 0 /\ 0 * BlockSize = 0
    BY <1>t, ManagerAssumption
  <2>5. Counts(p, T)
    BY DEF p
  <2> DEFINE a == f[0]
  <2>6. a.table = <<>> /\ a.pool = p /\ a.hash = <<>>
    BY <2>1
  <2> HIDE DEF a
  <2>7. /\ a.table \in Seq(Pool!Block) /\ IsInjective(a.table) /\ Len(a.table) = 0
        /\ a.hash \in Seq(Tokens) /\ Len(a.hash) = 0 * BlockSize
    BY <2>2, <2>4, <2>6
  <2>8. Counts(a.pool, [T EXCEPT ![r] = Range(a.table)])
    BY <2>2, <2>3, <2>5, <2>6
  <2>9. \A j \in 1 .. 0 : Len(a.pool.hash[a.table[j]]) = j * BlockSize
    OBVIOUS
  <2>10. Pool!FreeCount(a.pool) >= Pool!FreeCount(p) - 0
    BY <2>4, <2>6
  <2>11. Allocating(p, T, r, a, 0)
    BY <2>7, <2>8, <2>9, <2>10, Zenon DEF Allocating
  <2> QED BY <2>11 DEF a
<1>4. ASSUME NEW m \in Nat, m \in N PROVE m + 1 \in N
  <2> SUFFICES ASSUME m + 1 <= n PROVE Allocating(p, T, r, f[m + 1], m + 1)
    OBVIOUS
  <2>1. m + 1 \in 1 .. n /\ (m + 1) - 1 = m /\ Allocating(p, T, r, f[m], m)
    BY <1>4
  <2>2. f[m + 1] = AllocatePage(f[m], r, s.seqs[r], m)
    BY <1>2, <2>1
  <2>3. m < Pool!FreeCount(p) /\ Counts(p, T)
    BY <1>t, <2>1 DEF p
  <2> QED BY <2>1, <2>2, <2>3, NextPageTaken
<1>5. \A m \in Nat : m \in N
  <2> HIDE DEF N
  <2> QED BY <1>3, <1>4, NatSetInduction
<1> QED BY <1>5 DEF p

\* publish_computed_blocks on pages that the table of r covers and its tokens fill.
LEMMA PagePublished ==
  ASSUME NEW p, NEW T, Counts(p, T), NEW r \in Requests, NEW q,
         q.tokens \in Seq(Tokens), q.table \in Seq(Pool!Block), Range(q.table) \subseteq T[r],
         NEW i \in Nat, i < Len(q.table), (i + 1) * BlockSize <= Len(q.tokens)
  PROVE  Counts(PublishPage(p, q, i), T)
<1> DEFINE chain == IF i = 0 THEN <<>> ELSE p.hash[q.table[i]]
           toks == PageTokens(q, i)
<1>1. Len(q.table) \in Nat /\ DOMAIN q.table = 1 .. Len(q.table)
  BY LenProperties
<1>2. q.table[i + 1] \in T[r]
  BY <1>1 DEF Range
<1>3. toks \in PageContents
  BY PageOfTokens
<1>4. chain \in Seq(Tokens)
  <2>1. <<>> \in Seq(Tokens)
    BY EmptySeq
  <2>2. i # 0 => q.table[i] \in Pool!Block
    BY <1>1, ElementOfSeq
  <2>3. p.hash \in [Pool!Block -> PageHashes \cup {<<>>}]
    BY CountsTypes
  <2> QED BY <2>1, <2>2, <2>3 DEF PageHashes
<1>5. chain \o toks \in PageHashes
  <2> HIDE DEF chain, toks
  <2>1. toks \in Seq(Tokens) /\ Len(toks) = BlockSize
    BY <1>3 DEF PageContents
  <2>2. /\ chain \o toks \in Seq(Tokens) /\ Len(chain \o toks) = Len(chain) + Len(toks)
        /\ Len(chain) \in Nat
    BY <1>4, <2>1, ConcatProperties, LenProperties
  <2> QED BY <2>1, <2>2, ManagerAssumption DEF PageHashes
<1>6. PublishPage(p, q, i) = Pool!RegisterHash(p, q.table[i + 1], chain \o toks, toks)
  BY DEF PublishPage, ComputeHash
<1> HIDE DEF chain, toks
<1> QED BY <1>2, <1>3, <1>5, <1>6, PageRegistered

\* A saved hash is published again.
LEMMA PageRestored ==
  ASSUME NEW p, NEW T, Counts(p, T), NEW r \in Requests, NEW b \in T[r],
         NEW h \in PageHashes \cup {<<>>}
  PROVE  Counts(RestorePage(p, b, h), T)
<1>1. CASE h = <<>>
  BY <1>1 DEF RestorePage
<1>2. CASE h # <<>>
  <2>1. h \in PageHashes /\ RestorePage(p, b, h) = Pool!RegisterHash(p, b, h, LastPage(h))
    BY <1>2 DEF RestorePage
  <2>2. LastPage(h) \in PageContents
    <3> DEFINE n == Len(h)  i == n - BlockSize + 1
    <3>1. h \in Seq(Tokens) /\ n >= BlockSize
      BY <2>1 DEF PageHashes
    <3>2. n \in Nat /\ \A k \in 1 .. n : h[k] \in Tokens
      BY <3>1, LenProperties, ElementOfSeq
    <3> HIDE DEF n
    <3>3. BlockSize \in Nat /\ BlockSize > 0
      BY ManagerAssumption
    <3>4. i \in Int /\ n \in Int /\ i >= 1 /\ i <= n /\ n - i + 1 = BlockSize
      BY <3>1, <3>2, <3>3
    <3> HIDE DEF i
    <3>5. \A k \in i .. n : h[k] \in Tokens
      BY <3>2, <3>4
    <3>6. /\ SubSeq(h, i, n) \in Seq(Tokens)
          /\ Len(SubSeq(h, i, n)) = IF i <= n THEN n - i + 1 ELSE 0
      BY <3>4, <3>5, SubSeqProperties
    <3> QED BY <3>4, <3>6 DEF PageContents, LastPage, n, i
  <2> QED BY <2>1, <2>2, PageRegistered
<1> QED BY <1>1, <1>2

\* Only the pages of r change.
LEMMA PagesReplaced ==
  ASSUME NEW s, PagesOK(s), NEW r \in Requests, NEW t,
         \A q \in Requests : q # r => t.seqs[q] = s.seqs[q],
         TableOK(t.seqs[r]),
         Counts(t.pool, [Tables(s) EXCEPT ![r] = Range(t.seqs[r].table)])
  PROVE  PagesOK(t)
<1>1. Tables(t) = [Tables(s) EXCEPT ![r] = Range(t.seqs[r].table)]
  BY DEF Tables
<1>2. \A q \in Requests : TableOK(t.seqs[q])
  BY DEF PagesOK
<1> QED BY <1>1, <1>2 DEF PagesOK

LEMMA PagesKept ==
  ASSUME NEW s, PagesOK(s), NEW t, SamePages(s, t)
  PROVE  PagesOK(t)
<1>1. Tables(t) = Tables(s)
  BY DEF Tables, SamePages
<1>2. \A r \in Requests : TableOK(t.seqs[r])
  BY DEF PagesOK, SamePages, TableOK
<1> QED BY <1>1, <1>2 DEF PagesOK, SamePages

LEMMA EmptyTableOK ==
  ASSUME NEW q, q.table = <<>>, q.cpuTable = <<>>, q.cpuHashes = <<>>
  PROVE  TableOK(q)
<1>1. /\ <<>> \in Seq(Pool!Block) /\ IsInjective(<<>>) /\ Len(<<>>) = 0
      /\ <<>> \in Seq(PageHashes \cup {<<>>})
  BY NoElements, EmptySeq
<1> QED BY <1>1 DEF TableOK

LEMMA ReverseProperties ==
  ASSUME NEW S, NEW q \in Seq(S), IsInjective(q)
  PROVE  Reverse(q) \in Seq(S) /\ IsInjective(Reverse(q)) /\ Range(Reverse(q)) = Range(q)
<1> DEFINE n == Len(q)
           w == Reverse(q)
<1>1. n \in Nat /\ DOMAIN q = 1 .. n /\ \A k \in 1 .. n : q[k] \in S
  BY LenProperties, ElementOfSeq
<1>2. w = [i \in 1 .. n |-> q[n - i + 1]]
  BY DEF Reverse
<1> HIDE DEF n, w
<1>3. w \in [1 .. n -> S]
  BY <1>1, <1>2
<1>4. w \in Seq(S) /\ DOMAIN w = 1 .. n
  BY <1>1, <1>3, SeqDef
<1>5. IsInjective(w)
  BY <1>1, <1>2, <1>4 DEF IsInjective
<1>6. \A k \in 1 .. n : q[k] = w[n - k + 1] /\ n - k + 1 \in 1 .. n
  BY <1>1, <1>2
<1>7. Range(w) = Range(q)
  <2>1. Range(w) \subseteq Range(q)
    BY <1>1, <1>2, <1>4 DEF Range
  <2>2. Range(q) \subseteq Range(w)
    BY <1>1, <1>4, <1>6 DEF Range
  <2> QED BY <2>1, <2>2
<1> QED BY <1>4, <1>5, <1>7 DEF w

\* deallocate.
LEMMA DeallocatePages ==
  ASSUME NEW s, Shaped(s), PagesOK(s), NEW r \in Requests
  PROVE  PagesOK(DeallocateSequence(s, r))
<1> DEFINE t == DeallocateSequence(s, r)
           u == s.seqs[r]
           w == Reverse(u.table)
           p == ReleasePages(s.pool, w)
<1>1. /\ t.pool = p /\ t.seqs[r].table = <<>> /\ t.seqs[r].cpuTable = <<>>
      /\ t.seqs[r].cpuHashes = <<>> /\ \A q \in Requests : q # r => t.seqs[q] = s.seqs[q]
  BY DEF DeallocateSequence, Shaped, IsSequence
<1> HIDE DEF t
<1>2. Counts(s.pool, Tables(s)) /\ u.table \in Seq(Pool!Block) /\ IsInjective(u.table)
  BY DEF PagesOK, TableOK
<1>3. w \in Seq(Pool!Block) /\ IsInjective(w) /\ Range(w) = Range(u.table)
  BY <1>2, ReverseProperties
<1>4. Tables(s)[r] = Range(u.table) /\ Range(<<>>) = {}
  BY NoElements DEF Tables
<1> HIDE DEF u, w
<1>5. Counts(p, [Tables(s) EXCEPT ![r] = @ \ Range(w)])
  BY <1>2, <1>3, <1>4, PagesReleased
<1>6. [Tables(s) EXCEPT ![r] = @ \ Range(w)] = [Tables(s) EXCEPT ![r] = {}]
  <2>1. Tables(s)[r] \ Range(w) = {}
    BY <1>3, <1>4
  <2> QED BY <2>1
<1> HIDE DEF p
<1>7. Counts(t.pool, [Tables(s) EXCEPT ![r] = Range(t.seqs[r].table)])
  BY <1>1, <1>4, <1>5, <1>6
<1>8. TableOK(t.seqs[r])
  BY <1>1, EmptyTableOK
<1> QED BY <1>1, <1>7, <1>8, PagesReplaced DEF t

\* swap_out saves the hashes with the pages.
LEMMA SwapOutPages ==
  ASSUME NEW s, Shaped(s), PagesOK(s), NEW r \in Requests, CanSwapOut(s, r)
  PROVE  /\ PagesOK(SwapOut(s, r)) /\ SwapOut(s, r).seqs[r].table = <<>>
         /\ Len(SwapOut(s, r).seqs[r].cpuTable) = Len(s.seqs[r].table)
<1> DEFINE t == SwapOut(s, r)
           u == s.seqs[r]
           n == Len(u.table)
           p == ReleasePages(s.pool, u.table)
           hashes == [k \in DOMAIN u.table |-> s.pool.hash[u.table[k]]]
<1>1. /\ t.pool = p /\ t.seqs[r].table = <<>>
      /\ t.seqs[r].cpuHashes = hashes /\ t.seqs[r].cpuTable = SubSeq(s.cpuFree, 1, n)
      /\ \A q \in Requests : q # r => t.seqs[q] = s.seqs[q]
  BY DEF SwapOut, Shaped, IsSequence
<1> HIDE DEF t
<1>2. Counts(s.pool, Tables(s)) /\ u.table \in Seq(Pool!Block) /\ IsInjective(u.table)
  BY DEF PagesOK, TableOK
<1>3. Tables(s)[r] = Range(u.table) /\ Range(<<>>) = {}
  BY NoElements DEF Tables
<1>4. n \in 0 .. Len(s.cpuFree) /\ Len(s.cpuFree) \in Nat /\ s.cpuFree \in Seq(CpuBlock)
  <2>1. s.cpuFree \in Seq(CpuBlock)
    BY DEF Shaped
  <2>2. n \in Nat /\ Len(s.cpuFree) \in Nat
    BY <1>2, <2>1, LenProperties
  <2> QED BY <2>1, <2>2 DEF CanSwapOut
<1>5. hashes \in Seq(PageHashes \cup {<<>>}) /\ Len(hashes) = n
  <2>1. DOMAIN u.table = 1 .. n /\ n \in Nat /\ \A k \in 1 .. n : u.table[k] \in Pool!Block
    BY <1>2, LenProperties, ElementOfSeq
  <2>2. s.pool.hash \in [Pool!Block -> PageHashes \cup {<<>>}]
    BY <1>2, CountsTypes
  <2> DEFINE X == PageHashes \cup {<<>>}
  <2> HIDE DEF X
  <2>3. hashes \in [1 .. n -> X]
    BY <2>1, <2>2 DEF X
  <2> HIDE DEF hashes, n
  <2>4. hashes \in Seq(X)
    BY <2>1, <2>3, SeqDef
  <2>5. Len(hashes) = n
    BY <2>1, <2>3, <2>4, LenProperties
  <2> QED BY <2>4, <2>5 DEF X
<1>6. Len(SubSeq(s.cpuFree, 1, n)) = n
  <2>1. \A k \in 1 .. n : s.cpuFree[k] \in CpuBlock
    BY <1>4, ElementOfSeq
  <2>2. n \in Int /\ 1 \in Int
    BY <1>4
  <2> HIDE DEF n
  <2> QED BY <1>4, <2>1, <2>2, SubSeqProperties
<1> HIDE DEF u, hashes, n
<1>7. Counts(p, [Tables(s) EXCEPT ![r] = @ \ Range(u.table)])
  BY <1>2, <1>3, PagesReleased
<1>8. [Tables(s) EXCEPT ![r] = @ \ Range(u.table)] = [Tables(s) EXCEPT ![r] = {}]
  <2>1. Tables(s)[r] \ Range(u.table) = {}
    BY <1>3
  <2> QED BY <2>1
<1> HIDE DEF p
<1>9. Counts(t.pool, [Tables(s) EXCEPT ![r] = Range(t.seqs[r].table)])
  BY <1>1, <1>3, <1>7, <1>8
<1>10. TableOK(t.seqs[r])
  BY <1>1, <1>5, <1>6, NoElements DEF TableOK
<1>11. Len(t.seqs[r].cpuTable) = Len(s.seqs[r].table)
  BY <1>1, <1>6 DEF n, u
<1> QED BY <1>1, <1>9, <1>10, <1>11, PagesReplaced DEF t

\* swap_in: as many fresh pages as the CPU table has, under the saved hashes.
LEMMA SwapInPages ==
  ASSUME NEW s, Shaped(s), PagesOK(s), NEW r \in Requests, CanSwapIn(s, r), s.seqs[r].table = <<>>
  PROVE  /\ PagesOK(SwapIn(s, r))
         /\ Len(SwapIn(s, r).seqs[r].table) = Len(s.seqs[r].cpuTable)
<1> DEFINE t == SwapIn(s, r)
           u == s.seqs[r]
           n == Len(u.cpuTable)
           a == AllocateMany(s.pool, n)
           S == [Tables(s) EXCEPT ![r] = Range(a.table)]
<1>1. IsSequence(r, u) /\ TableOK(u)
  BY DEF Shaped, PagesOK
<1>2. n \in Nat
  BY <1>1, LenProperties DEF IsSequence
<1>3. Counts(s.pool, Tables(s)) /\ Tables(s)[r] = {} /\ n <= Pool!FreeCount(s.pool)
  <2>1. Tables(s)[r] = {}
    BY NoElements DEF Tables
  <2>2. n <= Pool!FreeCount(s.pool)
    <3>1. Pool!FreeCount(s.pool) \in Nat
      BY CountsTypes DEF PagesOK
    <3> QED BY <1>2, <3>1 DEF CanSwapIn
  <2> QED BY <2>1, <2>2 DEF PagesOK
<1>n. n = Len(s.seqs[r].cpuTable)
  OBVIOUS
<1> HIDE DEF n
<1>4. PICK f : RestoreTurns(f, s, r, n)
  BY <1>2, <1>n, RestoreTurnsExist
<1>5. /\ f[0] = a.pool
      /\ \A k \in 1 .. n : f[k] = RestorePage(f[k - 1], a.table[k], u.cpuHashes[k])
      /\ t = [s EXCEPT !.pool = f[n], !.cpuFree = @ \o u.cpuTable,
                       !.seqs[r] = [@ EXCEPT !.table = a.table, !.cpuTable = <<>>, !.cpuHashes = <<>>]]
  BY <1>4 DEF RestoreTurns
<1>6. FreshPages(s.pool, Tables(s), r, a, n)
  BY <1>2, <1>3, PagesAllocated
<1> HIDE DEF a, u
<1>7. /\ a.table \in Seq(Pool!Block) /\ IsInjective(a.table) /\ Len(a.table) = n
      /\ Counts(a.pool, S)
  BY <1>6 DEF FreshPages
<1>8. /\ t.pool = f[n] /\ t.seqs[r].table = a.table /\ t.seqs[r].cpuTable = <<>>
      /\ t.seqs[r].cpuHashes = <<>> /\ \A q \in Requests : q # r => t.seqs[q] = s.seqs[q]
  BY <1>5 DEF Shaped, IsSequence
<1> HIDE DEF t
<1>9. /\ S[r] = Range(a.table) /\ DOMAIN a.table = 1 .. n
      /\ \A k \in 1 .. n : u.cpuHashes[k] \in PageHashes \cup {<<>>}
  <2>1. S[r] = Range(a.table)
    BY DEF Tables
  <2>2. DOMAIN a.table = 1 .. n
    BY <1>7, LenProperties
  <2>3. u.cpuHashes \in Seq(PageHashes \cup {<<>>}) /\ Len(u.cpuHashes) = n
    BY <1>1, <1>n DEF TableOK, u
  <2> QED BY <2>1, <2>2, <2>3, ElementOfSeq
<1> HIDE DEF S
<1> DEFINE N == {m \in Nat : m <= n => Counts(f[m], S)}
<1>10. 0 \in N
  BY <1>5, <1>7
<1>11. ASSUME NEW m \in Nat, m \in N PROVE m + 1 \in N
  <2> SUFFICES ASSUME m + 1 <= n PROVE Counts(f[m + 1], S)
    OBVIOUS
  <2>1. m + 1 \in 1 .. n /\ (m + 1) - 1 = m /\ Counts(f[m], S)
    BY <1>2, <1>11
  <2>2. f[m + 1] = RestorePage(f[m], a.table[m + 1], u.cpuHashes[m + 1])
    BY <1>5, <2>1
  <2>3. a.table[m + 1] \in S[r] /\ u.cpuHashes[m + 1] \in PageHashes \cup {<<>>}
    BY <1>9, <2>1 DEF Range
  <2> QED BY <2>1, <2>2, <2>3, PageRestored
<1>12. \A m \in Nat : m \in N
  <2> HIDE DEF N
  <2> QED BY <1>10, <1>11, NatSetInduction
<1>13. Counts(f[n], S)
  BY <1>2, <1>12
<1>14. Counts(t.pool, [Tables(s) EXCEPT ![r] = Range(t.seqs[r].table)])
  BY <1>8, <1>13 DEF S
<1>15. TableOK(t.seqs[r])
  <2>1. <<>> \in Seq(PageHashes \cup {<<>>}) /\ Len(<<>>) = 0
    BY EmptySeq
  <2> QED BY <1>7, <1>8, <2>1 DEF TableOK
<1>16. PagesOK(t)
  BY <1>8, <1>14, <1>15, PagesReplaced
<1> QED BY <1>7, <1>8, <1>16, <1>n DEF t

\* allocate gives a request without pages a table that covers its tokens.
LEMMA AllocatePages ==
  ASSUME NEW s, Shaped(s), PagesOK(s), NEW r \in Requests, CanAllocate(s, r),
         s.seqs[r].table = <<>>
  PROVE  PagesOK(AllocateDense(s, r))
<1> DEFINE t == AllocateDense(s, r)
           u == s.seqs[r]
           n == NumPages(s.seqs[r])
<1>1. IsSequence(r, u) /\ TableOK(u)
  BY DEF Shaped, PagesOK
<1>2. n \in Nat
  <2>1. Len(u.tokens) \in Nat
    BY <1>1 DEF IsSequence
  <2> QED BY <2>1, PagesMonotone DEF NumPages
<1>3. Counts(s.pool, Tables(s)) /\ Tables(s)[r] = {} /\ n <= Pool!FreeCount(s.pool)
  <2>1. Tables(s)[r] = {}
    BY NoElements DEF Tables
  <2>2. n <= Pool!FreeCount(s.pool)
    <3>1. Pool!FreeCount(s.pool) \in Nat
      BY CountsTypes DEF PagesOK
    <3> QED BY <1>2, <3>1 DEF CanAllocate
  <2> QED BY <2>1, <2>2 DEF PagesOK
<1>n. n = NumPages(s.seqs[r])
  OBVIOUS
<1> HIDE DEF n
<1>4. PICK f : AllocateTurns(f, s, r, n)
  BY <1>2, <1>n, AllocateTurnsExist
<1>5. t = [s EXCEPT !.pool = f[n].pool,
                    !.seqs[r] = [@ EXCEPT !.table = f[n].table, !.cached = f[n].cached]]
  BY <1>4 DEF AllocateTurns
<1>6. Allocating(s.pool, Tables(s), r, f[n], n)
  <2>1. s.seqs[r].tokens \in Seq(Tokens)
    BY <1>1 DEF IsSequence
  <2> QED BY <1>2, <1>3, <1>4, <2>1, PromptAllocated
<1> DEFINE a == f[n]
<1>7. /\ a.table \in Seq(Pool!Block) /\ IsInjective(a.table)
      /\ Counts(a.pool, [Tables(s) EXCEPT ![r] = Range(a.table)])
  BY <1>6 DEF Allocating
<1> HIDE DEF a
<1>8. /\ t.pool = a.pool /\ t.seqs[r].table = a.table /\ t.seqs[r].cpuTable = u.cpuTable
      /\ t.seqs[r].cpuHashes = u.cpuHashes /\ \A q \in Requests : q # r => t.seqs[q] = s.seqs[q]
  BY <1>5 DEF Shaped, IsSequence, a
<1> HIDE DEF t, u
<1>9. TableOK(t.seqs[r])
  BY <1>1, <1>7, <1>8 DEF TableOK
<1>10. Counts(t.pool, [Tables(s) EXCEPT ![r] = Range(t.seqs[r].table)])
  BY <1>7, <1>8
<1> QED BY <1>8, <1>9, <1>10, PagesReplaced DEF t

\* publish_computed_blocks within the tokens and the page table of r.
LEMMA PublishPages ==
  ASSUME NEW s, Shaped(s), PagesOK(s), NEW r \in Requests, NEW first \in Nat, NEW last \in Nat,
         first <= last, last <= Len(s.seqs[r].tokens),
         last \div BlockSize <= Len(s.seqs[r].table)
  PROVE  PagesOK(PublishComputedBlocks(s, r, first, last))
<1> DEFINE t == PublishComputedBlocks(s, r, first, last)
           u == s.seqs[r]
           a == first \div BlockSize
           b == last \div BlockSize
           n == b - a
<1>1. IsSequence(r, u) /\ TableOK(u)
  BY DEF Shaped, PagesOK
<1>2. a \in Nat /\ b \in Nat /\ b * BlockSize <= last
  <2>1. BlockSize \in Nat /\ BlockSize > 0
    BY ManagerAssumption
  <2> QED BY <2>1, Z3
<1>3. CASE ~PrefixCaching \/ n <= 0
  <2>1. t = s
    BY <1>3 DEF PublishComputedBlocks
  <2> QED BY <2>1
<1>4. CASE PrefixCaching /\ ~(n <= 0)
  <2> DEFINE T == Tables(s)
  <2>0. n = (last \div BlockSize) - (first \div BlockSize) /\ a = first \div BlockSize
        /\ b <= Len(s.seqs[r].table)
    OBVIOUS
  <2> HIDE DEF a, b
  <2>1. n \in Nat \ {0}
    BY <1>2, <1>4
  <2>b. b = a + n
    BY <1>2
  <2> HIDE DEF n
  <2>2. PICK f : PublishTurns(f, s, r, first, last, n)
    BY <1>4, <2>0, <2>1, PublishTurnsExist
  <2>3. /\ f[0] = s.pool /\ \A k \in 1 .. n : f[k] = PublishPage(f[k - 1], u, a + k - 1)
        /\ t = [s EXCEPT !.pool = f[n]]
    BY <2>0, <2>2 DEF PublishTurns
  <2>4. /\ u.tokens \in Seq(Tokens) /\ u.table \in Seq(Pool!Block) /\ T[r] = Range(u.table)
        /\ Counts(s.pool, T) /\ Len(u.table) \in Nat /\ Len(u.tokens) \in Nat
    BY <1>1, LenProperties DEF IsSequence, TableOK, PagesOK, Tables
  <2>5. b <= Len(u.table) /\ b * BlockSize <= Len(u.tokens)
    <3>1. last <= Len(u.tokens) /\ b * BlockSize \in Int
      BY <1>2, ManagerAssumption
    <3>2. b <= Len(u.table)
      BY <2>0
    <3> HIDE DEF u
    <3> QED BY <1>2, <2>4, <3>1, <3>2
  <2> HIDE DEF u, T, t
  <2> DEFINE N == {m \in Nat : m <= n => Counts(f[m], T)}
  <2>6. 0 \in N
    BY <2>3, <2>4
  <2>7. ASSUME NEW m \in Nat, m \in N PROVE m + 1 \in N
    <3> SUFFICES ASSUME m + 1 <= n PROVE Counts(f[m + 1], T)
      OBVIOUS
    <3>1. m + 1 \in 1 .. n /\ (m + 1) - 1 = m /\ Counts(f[m], T)
      BY <2>1, <2>7
    <3>2. a + (m + 1) - 1 = a + m /\ a + m \in Nat /\ a + m + 1 <= b
      BY <1>2, <2>1, <2>b
    <3>3. f[m + 1] = PublishPage(f[m], u, a + m)
      BY <2>3, <3>1, <3>2
    <3> DEFINE i == a + m
    <3>4. i \in Nat /\ i < Len(u.table) /\ (i + 1) * BlockSize <= Len(u.tokens)
      <4>1. i \in Nat /\ i + 1 <= b
        BY <3>2
      <4> HIDE DEF i
      <4>2. (i + 1) * BlockSize <= b * BlockSize
        <5>1. BlockSize \in Nat /\ BlockSize > 0
          BY ManagerAssumption
        <5> QED BY <1>2, <4>1, <5>1, Z3
      <4>3. i < Len(u.table)
        BY <1>2, <2>4, <2>5, <4>1
      <4>4. (i + 1) * BlockSize \in Int /\ b * BlockSize \in Int
        BY <1>2, <4>1, ManagerAssumption
      <4> QED BY <2>4, <2>5, <4>1, <4>2, <4>3, <4>4
    <3> HIDE DEF i
    <3>5. Range(u.table) \subseteq T[r]
      BY <2>4
    <3>6. u.tokens \in Seq(Tokens) /\ u.table \in Seq(Pool!Block)
      BY <2>4
    <3>7. Counts(PublishPage(f[m], u, i), T)
      BY <3>1, <3>4, <3>5, <3>6, PagePublished
    <3> QED BY <3>3, <3>7 DEF i
  <2>8. \A m \in Nat : m \in N
    <3> HIDE DEF N
    <3> QED BY <2>6, <2>7, NatSetInduction
  <2>9. Counts(f[n], T)
    BY <2>1, <2>8
  <2>10. t.pool = f[n] /\ t.seqs = s.seqs
    BY <2>3 DEF Shaped
  <2>11. Tables(t) = Tables(s)
    BY <2>10 DEF Tables
  <2>12. PagesOK(t)
    BY <2>9, <2>10, <2>11 DEF PagesOK, T
  <2> QED BY <2>12 DEF t
<1> QED BY <1>3, <1>4

\* One more token fills at most one more page, and only when it opens it.
LEMMA PagesOfNext ==
  ASSUME NEW n \in Nat, n > 0
  PROVE  /\ Pages(n) \in Nat /\ Pages(n - 1) \in Nat /\ Pages(n) <= Pages(n - 1) + 1
         /\ n % BlockSize # 1 => Pages(n) = Pages(n - 1)
         /\ n \div BlockSize <= Pages(n - 1)
<1>1. BlockSize \in Nat /\ BlockSize > 1
  BY ManagerAssumption
<1> DEFINE k == (n - 1) \div BlockSize
           m == (n - 1) % BlockSize
<1>2. k \in Nat /\ m \in 0 .. BlockSize - 1 /\ n - 1 = k * BlockSize + m
  <2>1. n - 1 \in Nat
    OBVIOUS
  <2> QED BY <1>1, <2>1, Z3
<1> HIDE DEF k, m
<1>3. \A j \in Nat : \A i \in 0 .. BlockSize - 1 :
         (j * BlockSize + i) \div BlockSize = j /\ (j * BlockSize + i) % BlockSize = i
  <2> TAKE j \in Nat
  <2> TAKE i \in 0 .. BlockSize - 1
  <2> DEFINE x == j * BlockSize + i  d == x \div BlockSize  e == x % BlockSize
  <2>1. x \in Nat
    BY <1>1
  <2> HIDE DEF x
  <2>2. d \in Nat /\ e \in 0 .. BlockSize - 1 /\ x = d * BlockSize + e
    BY <1>1, <2>1, Z3
  <2> HIDE DEF d, e
  <2>3. (d - j) * BlockSize = i - e
    BY <1>1, <2>2 DEF x
  <2>4. d = j
    <3>1. d < j \/ d = j \/ d > j
      BY <2>2
    <3>2. d > j => (d - j) * BlockSize >= BlockSize
      BY <1>1, <2>2
    <3>3. d < j => (d - j) * BlockSize <= 0 - BlockSize
      BY <1>1, <2>2
    <3> QED BY <1>1, <2>2, <2>3, <3>1, <3>2, <3>3
  <2>5. e = i
    BY <1>1, <2>2, <2>3, <2>4
  <2> QED BY <2>4, <2>5 DEF d, e, x
<1>4. CASE m = 0
  <2>1. n - 1 + BlockSize - 1 = k * BlockSize + (BlockSize - 1)
    BY <1>1, <1>2, <1>4
  <2>2. n + BlockSize - 1 = (k + 1) * BlockSize + 0
    BY <1>1, <1>2, <1>4
  <2>3. n = k * BlockSize + 1
    BY <1>1, <1>2, <1>4
  <2>4. Pages(n - 1) = k
    BY <1>1, <1>2, <1>3, <2>1 DEF Pages
  <2>5. Pages(n) = k + 1
    BY <1>1, <1>2, <1>3, <2>2 DEF Pages
  <2>6. n \div BlockSize = k /\ n % BlockSize = 1
    <3>1. k \in Nat /\ 1 \in 0 .. BlockSize - 1
      BY <1>1, <1>2
    <3> QED BY <1>3, <2>3, <3>1
  <2> QED BY <1>2, <2>4, <2>5, <2>6
<1>5. CASE m # 0
  <2>1. n - 1 + BlockSize - 1 = (k + 1) * BlockSize + (m - 1)
    BY <1>1, <1>2, <1>5
  <2>2. n + BlockSize - 1 = (k + 1) * BlockSize + m
    BY <1>1, <1>2, <1>5
  <2>4. Pages(n - 1) = k + 1
    <3>1. k + 1 \in Nat /\ m - 1 \in 0 .. BlockSize - 1
      BY <1>1, <1>2, <1>5
    <3> QED BY <1>3, <2>1, <3>1 DEF Pages
  <2>5. Pages(n) = k + 1
    BY <1>2, <1>3, <2>2 DEF Pages
  <2>6. n \div BlockSize <= k + 1
    <3>1. CASE m = BlockSize - 1
      <4>1. n = (k + 1) * BlockSize + 0
        BY <1>1, <1>2, <3>1
      <4>2. k + 1 \in Nat /\ 0 \in 0 .. BlockSize - 1
        BY <1>1, <1>2
      <4>3. n \div BlockSize = k + 1
        BY <1>3, <4>1, <4>2
      <4> QED BY <1>2, <4>3
    <3>2. CASE m # BlockSize - 1
      <4>1. n = k * BlockSize + (m + 1)
        BY <1>1, <1>2
      <4>2. m + 1 \in 0 .. BlockSize - 1
        BY <1>1, <1>2, <3>2
      <4>3. n \div BlockSize = k
        BY <1>2, <1>3, <4>1, <4>2
      <4> QED BY <1>2, <4>3
    <3> QED BY <3>1, <3>2
  <2> QED BY <1>2, <2>4, <2>5, <2>6
<1> QED BY <1>4, <1>5

\* Room for the next token: a page when the token opens one, a private copy of a shared tail.
LEMMA AppendPages ==
  ASSUME NEW s, Shaped(s), PagesOK(s), NEW r \in Requests, CanAppend(s, r),
         s.seqs[r].tokens # <<>>, Pages(Len(s.seqs[r].tokens) - 1) <= Len(s.seqs[r].table)
  PROVE  LET t == MayAppend(CopyOnWrite(s, r), r)
         IN  PagesOK(t) /\ NumPages(s.seqs[r]) <= Len(t.seqs[r].table)
<1> DEFINE u == s.seqs[r]
           n == Len(u.tokens)
           fresh == Pool!AllocateFree(s.pool)
           T == Tables(s)
           t == MayAppend(CopyOnWrite(s, r), r)
<1>1. IsSequence(r, u) /\ TableOK(u) /\ Counts(s.pool, T) /\ T \in [Requests -> SUBSET Pool!Block]
  BY CountsTypes DEF Shaped, PagesOK
<1>2. n \in Nat /\ n > 0
  <2>1. u.tokens \in Seq(Tokens) /\ u.tokens # <<>>
    BY <1>1 DEF IsSequence
  <2> QED BY <2>1, EmptyProperties
<1>3. /\ u.table \in Seq(Pool!Block) /\ IsInjective(u.table) /\ T[r] = Range(u.table)
      /\ Len(u.table) \in Nat
  BY <1>1, LenProperties DEF TableOK, Tables
<1>4. /\ NumPages(u) \in Nat /\ Pages(n - 1) \in Nat /\ NumPages(u) <= Pages(n - 1) + 1
      /\ n % BlockSize # 1 => NumPages(u) = Pages(n - 1)
  BY <1>2, PagesOfNext DEF NumPages
<1>f. Pool!FreeCount(s.pool) \in Nat
  BY <1>1, CountsTypes
<1>5. CASE NeedsPage(u)
  <2> DEFINE w == Append(u.table, fresh.block)
  <2>1. CopyOnWritePair(s, r) = <<>>
    BY <1>5 DEF CopyOnWritePair
  <2>2. CopyOnWrite(s, r) = s
    BY <2>1 DEF CopyOnWrite
  <2>3. t = [s EXCEPT !.pool = fresh.pool, !.seqs[r].table = w]
    BY <1>5, <2>2 DEF MayAppend, Shaped
  <2>4. Pool!FreeCount(s.pool) > 0
    BY <1>5, <1>f DEF CanAppend
  <2>5. /\ t.pool = fresh.pool /\ t.seqs[r].table = w /\ t.seqs[r].cpuTable = u.cpuTable
        /\ t.seqs[r].cpuHashes = u.cpuHashes /\ \A q \in Requests : q # r => t.seqs[q] = s.seqs[q]
    BY <2>3 DEF Shaped, IsSequence
  <2> HIDE DEF t, u, T
  <2>6. /\ Counts(fresh.pool, [T EXCEPT ![r] = @ \cup {fresh.block}])
        /\ fresh.block \in Pool!Block \ T[r]
    BY <1>1, <2>4, PageTaken
  <2> HIDE DEF fresh
  <2>7. /\ w \in Seq(Pool!Block) /\ Range(w) = Range(u.table) \cup {fresh.block}
        /\ IsInjective(w) /\ Len(w) = Len(u.table) + 1
    BY <1>3, <2>6, AppendNewProperties
  <2> HIDE DEF w
  <2>8. Counts(t.pool, [T EXCEPT ![r] = Range(t.seqs[r].table)])
    <3>1. [T EXCEPT ![r] = @ \cup {fresh.block}] = [T EXCEPT ![r] = Range(w)]
      BY <1>1, <1>3, <2>7
    <3> QED BY <2>5, <2>6, <3>1
  <2>9. TableOK(t.seqs[r])
    BY <1>1, <2>5, <2>7 DEF TableOK
  <2>10. PagesOK(t)
    BY <2>5, <2>8, <2>9, PagesReplaced DEF T
  <2>11. NumPages(u) <= Len(t.seqs[r].table)
    <3>1. Pages(n - 1) <= Len(u.table)
      BY DEF u
    <3> QED BY <1>3, <1>4, <2>5, <2>7, <3>1
  <2> QED BY <2>10, <2>11 DEF t, u
<1>6. CASE ~NeedsPage(u)
  <2>p. NumPages(u) <= Len(u.table)
    <3>1. Pages(n - 1) <= Len(u.table)
      OBVIOUS
    <3>2. NumPages(u) = Pages(n - 1)
      BY <1>4, <1>6 DEF NeedsPage
    <3> QED BY <3>1, <3>2
  <2>1. CASE ~TailShared(s, u)
    <3>1. CopyOnWritePair(s, r) = <<>>
      BY <2>1 DEF CopyOnWritePair
    <3>2. CopyOnWrite(s, r) = s
      BY <3>1 DEF CopyOnWrite
    <3>3. t = s
      BY <1>6, <3>2 DEF MayAppend
    <3> QED BY <2>p, <3>3
  <2>2. CASE TailShared(s, u)
    <3> DEFINE last == Last(u.table)
               b == fresh.block
               pair == <<last, b>>
               w == Append(Front(u.table), b)
               p == Pool!ReleaseReference(fresh.pool, last)
               c == [s EXCEPT !.pool = p, !.seqs[r].table = w]
    <3>1. CopyOnWritePair(s, r) = pair /\ pair # <<>> /\ pair[1] = last /\ pair[2] = b
      BY <1>6, <2>2 DEF CopyOnWritePair
    <3>2. CopyOnWrite(s, r) = c
      BY <3>1 DEF CopyOnWrite, Shaped
    <3>3. /\ c.pool = p /\ c.seqs[r].table = w /\ c.seqs[r].cpuTable = u.cpuTable
          /\ c.seqs[r].cpuHashes = u.cpuHashes /\ c.seqs[r].tokens = u.tokens
          /\ \A q \in Requests : q # r => c.seqs[q] = s.seqs[q]
      BY DEF Shaped, IsSequence
    <3> HIDE DEF c
    <3>4. t = c
      <4>1. ~NeedsPage(c.seqs[r])
        BY <1>6, <3>3 DEF NeedsPage
      <4> QED BY <3>2, <4>1 DEF MayAppend
    <3>5. Pool!FreeCount(s.pool) > 0 /\ u.table # <<>>
      BY <1>f, <2>2 DEF CanAppend, TailShared
    <3> HIDE DEF u, T, t
    <3>6. /\ Counts(fresh.pool, [T EXCEPT ![r] = @ \cup {fresh.block}])
          /\ fresh.block \in Pool!Block \ T[r]
      BY <1>1, <3>5, PageTaken
    <3> HIDE DEF fresh
    <3> DEFINE S == [T EXCEPT ![r] = @ \cup {b}]
               k == Len(u.table)
               front == Front(u.table)
    <3>7. k \in Nat /\ k > 0 /\ DOMAIN u.table = 1 .. k /\ last = u.table[k]
      BY <1>3, <3>5, EmptyProperties, LenProperties DEF Last
    <3>8. /\ front \in Seq(Pool!Block) /\ Len(front) = k - 1
          /\ \A i \in 1 .. k - 1 : front[i] = u.table[i]
      <4>1. \A i \in 1 .. k - 1 : u.table[i] \in Pool!Block
        BY <1>3, <3>7, ElementOfSeq
      <4>2. 1 \in Int /\ k - 1 \in Int
        BY <3>7
      <4>3. /\ SubSeq(u.table, 1, k - 1) \in Seq(Pool!Block)
            /\ Len(SubSeq(u.table, 1, k - 1)) = IF 1 <= k - 1 THEN k - 1 - 1 + 1 ELSE 0
            /\ \A i \in 1 .. (k - 1 - 1 + 1) : SubSeq(u.table, 1, k - 1)[i] = u.table[1 + i - 1]
        BY <4>1, <4>2, SubSeqProperties
      <4> QED BY <3>7, <4>3 DEF Front
    <3> HIDE DEF k, front
    <3>9. DOMAIN front = 1 .. k - 1
      BY <3>7, <3>8, LenProperties
    <3>10. IsInjective(front) /\ Range(front) = Range(u.table) \ {last}
      <4>1. IsInjective(front)
        BY <1>3, <3>7, <3>8, <3>9 DEF IsInjective
      <4>2. \A i \in 1 .. k - 1 : u.table[i] # last
        BY <1>3, <3>7 DEF IsInjective
      <4>3. \A i \in 1 .. k : i \in 1 .. k - 1 \/ i = k
        BY <3>7
      <4>4. \A i \in 1 .. k - 1 : i \in 1 .. k
        BY <3>7
      <4>5. \A x : x \in Range(front) <=> \E i \in 1 .. k - 1 : x = u.table[i]
        BY <3>8, <3>9 DEF Range
      <4>6. \A x : x \in Range(u.table) <=> \E i \in 1 .. k : x = u.table[i]
        BY <3>7 DEF Range
      <4> QED BY <3>7, <4>1, <4>2, <4>3, <4>4, <4>5, <4>6
    <3>11. b \in Pool!Block /\ b \notin Range(u.table) /\ last \in Range(u.table)
      BY <1>3, <3>6, <3>7 DEF Range
    <3>12. /\ w \in Seq(Pool!Block) /\ Range(w) = Range(front) \cup {b} /\ IsInjective(w)
           /\ Len(w) = Len(front) + 1
      <4>1. b \notin Range(front)
        BY <3>10, <3>11
      <4> QED BY <3>8, <3>10, <3>11, <4>1, AppendNewProperties DEF front
    <3> HIDE DEF w, last
    <3>13. Counts(p, [S EXCEPT ![r] = @ \ {last}])
      <4>1. last \in S[r]
        BY <1>1, <1>3, <3>11
      <4>2. Counts(fresh.pool, S)
        BY <3>6
      <4> HIDE DEF S
      <4> QED BY <4>1, <4>2, PageReleased
    <3>14. [S EXCEPT ![r] = @ \ {last}] = [T EXCEPT ![r] = Range(w)]
      <4>1. (T[r] \cup {b}) \ {last} = Range(w)
        BY <1>3, <3>10, <3>11, <3>12
      <4> QED BY <1>1, <4>1
    <3> HIDE DEF S, p
    <3>15. Counts(t.pool, [T EXCEPT ![r] = Range(t.seqs[r].table)])
      BY <3>3, <3>4, <3>13, <3>14
    <3>16. TableOK(t.seqs[r])
      BY <1>1, <3>3, <3>4, <3>12 DEF TableOK
    <3>17. PagesOK(t)
      BY <3>3, <3>4, <3>15, <3>16, PagesReplaced DEF T
    <3>18. Len(t.seqs[r].table) = Len(u.table)
      BY <3>3, <3>4, <3>7, <3>8, <3>12 DEF k
    <3> QED BY <2>p, <3>17, <3>18 DEF t, u
  <2> QED BY <2>1, <2>2
<1> QED BY <1>5, <1>6

-----------------------------------------------------------------------------
(* Queues, states and CPU pages move together.                               *)

\* A snapshot with other queues.
Requeue(s, w, u, v, c, f) ==
  [s EXCEPT !.waiting = w, !.running = u, !.swapped = v, !.consecutive = c, !.fault = f]

Requeued(s, t, w, u, v, c, f) ==
  /\ Shaped(t)
  /\ t.pool = s.pool /\ t.cpuFree = s.cpuFree /\ t.seqs = s.seqs
  /\ t.waiting = w /\ t.running = u /\ t.swapped = v /\ t.consecutive = c /\ t.fault = f

LEMMA RecountFields ==
  ASSUME NEW s, Shaped(s), NEW w, NEW u, NEW v, NEW c \in Nat, NEW f
  PROVE  Requeued(s, Requeue(s, w, u, v, c, f), w, u, v, c, f)
<1> DEFINE t == Requeue(s, w, u, v, c, f)
<1>1. /\ t.pool = s.pool /\ t.cpuFree = s.cpuFree /\ t.seqs = s.seqs
      /\ t.waiting = w /\ t.running = u /\ t.swapped = v /\ t.consecutive = c /\ t.fault = f
      /\ t \in [pool : {t.pool}, cpuFree : Seq(CpuBlock), seqs : {t.seqs},
                waiting : {t.waiting}, running : {t.running}, swapped : {t.swapped},
                consecutive : Nat, fault : {t.fault}]
  BY DEF Shaped, Requeue
<1> HIDE DEF t
<1>2. Requeued(s, t, w, u, v, c, f)
  BY <1>1 DEF Shaped, Requeued
<1> QED BY <1>2 DEF t

LEMMA RequeueFields ==
  ASSUME NEW s, Shaped(s), NEW w, NEW u, NEW v, NEW f
  PROVE  Requeued(s, Requeue(s, w, u, v, s.consecutive, f), w, u, v, s.consecutive, f)
<1>1. s.consecutive \in Nat
  BY DEF Shaped
<1> QED BY <1>1, RecountFields

\* A RuntimeError changes the fault only.
LEMMA RaiseFields ==
  ASSUME NEW s, Shaped(s), NEW e
  PROVE  Requeued(s, Raise(s, e), s.waiting, s.running, s.swapped, s.consecutive,
                  IF s.fault = "none" THEN e ELSE s.fault)
<1> DEFINE f == IF s.fault = "none" THEN e ELSE s.fault
           t == Requeue(s, s.waiting, s.running, s.swapped, s.consecutive, f)
<1>1. Raise(s, e) = t
  BY DEF Raise, Requeue, Shaped
<1> HIDE DEF f
<1>2. Requeued(s, t, s.waiting, s.running, s.swapped, s.consecutive, f)
  BY RequeueFields
<1> QED BY <1>1, <1>2 DEF f

\* A valid transition replaces the status of r.
LEMMA TransitionFields ==
  ASSUME NEW s, Shaped(s), NEW r \in Requests, NEW target \in Statuses,
         Lifecycle!MayMove(s.seqs[r].status, target)
  PROVE  LET t == Transition(s, r, target)
         IN  /\ Shaped(t)
             /\ t.waiting = s.waiting /\ t.running = s.running /\ t.swapped = s.swapped
             /\ t.consecutive = s.consecutive /\ t.fault = s.fault /\ t.cpuFree = s.cpuFree
             /\ \A q \in Requests : q # r => t.seqs[q] = s.seqs[q]
             /\ t.seqs[r].status = target /\ t.seqs[r].tokens = s.seqs[r].tokens
             /\ t.seqs[r].cached = s.seqs[r].cached /\ t.seqs[r].computed = s.seqs[r].computed
             /\ t.seqs[r].table = s.seqs[r].table /\ t.seqs[r].cpuTable = s.seqs[r].cpuTable
             /\ SamePages(s, t)
<1> DEFINE t == Transition(s, r, target)
           u == s.seqs[r]
           q == [u EXCEPT !.status = target]
<1>1. Moved(s, t, r, target)
  BY TransitionMoves
<1>2. IsSequence(r, u)
  BY DEF Shaped
<1>3. /\ q.status = target /\ q.tokens = u.tokens /\ q.cached = u.cached
      /\ q.computed = u.computed /\ q.table = u.table /\ q.cpuTable = u.cpuTable
      /\ q.cpuHashes = u.cpuHashes
  BY <1>2, StatusChange
<1> HIDE DEF t
<1>4. t.seqs[r] = q
  BY <1>1 DEF Moved
<1> HIDE DEF q
<1>5. SamePages(s, t)
  BY <1>1, <1>3, <1>4 DEF Moved, SamePages
<1> QED BY <1>1, <1>3, <1>4, <1>5 DEF Moved, t

\* What Transition leaves of s in t.
Transitioned(s, t, r, target) ==
  /\ Shaped(t)
  /\ t.waiting = s.waiting /\ t.running = s.running /\ t.swapped = s.swapped
  /\ t.consecutive = s.consecutive /\ t.fault = s.fault /\ t.cpuFree = s.cpuFree
  /\ \A q \in Requests : q # r => t.seqs[q] = s.seqs[q]
  /\ t.seqs[r].status = target /\ t.seqs[r].tokens = s.seqs[r].tokens
  /\ t.seqs[r].cached = s.seqs[r].cached /\ t.seqs[r].computed = s.seqs[r].computed
  /\ t.seqs[r].table = s.seqs[r].table /\ t.seqs[r].cpuTable = s.seqs[r].cpuTable
  /\ SamePages(s, t)

LEMMA TransitionResult ==
  ASSUME NEW s, Shaped(s), NEW r \in Requests, NEW target \in Statuses,
         Lifecycle!MayMove(s.seqs[r].status, target)
  PROVE  Transitioned(s, Transition(s, r, target), r, target)
<1> DEFINE t == Transition(s, r, target)
<1>1. /\ Shaped(t)
      /\ t.waiting = s.waiting /\ t.running = s.running /\ t.swapped = s.swapped
      /\ t.consecutive = s.consecutive /\ t.fault = s.fault /\ t.cpuFree = s.cpuFree
      /\ \A q \in Requests : q # r => t.seqs[q] = s.seqs[q]
      /\ t.seqs[r].status = target /\ t.seqs[r].tokens = s.seqs[r].tokens
      /\ t.seqs[r].cached = s.seqs[r].cached /\ t.seqs[r].computed = s.seqs[r].computed
      /\ t.seqs[r].table = s.seqs[r].table /\ t.seqs[r].cpuTable = s.seqs[r].cpuTable
      /\ SamePages(s, t)
  BY TransitionFields
<1> HIDE DEF t
<1>2. Transitioned(s, t, r, target)
  BY <1>1 DEF Transitioned
<1> QED BY <1>2 DEF t

\* Neither a transition nor a change of queues touches pages.
LEMMA TransitionedPages ==
  ASSUME NEW s, PagesOK(s), NEW t, NEW r, NEW target, Transitioned(s, t, r, target)
  PROVE  PagesOK(t)
<1>1. SamePages(s, t)
  BY DEF Transitioned
<1> QED BY <1>1, PagesKept

LEMMA RequeuedPages ==
  ASSUME NEW s, PagesOK(s), NEW t, t.seqs = s.seqs, t.pool = s.pool
  PROVE  PagesOK(t)
<1>1. SamePages(s, t)
  BY DEF SamePages
<1> QED BY <1>1, PagesKept

\* The requests in a set of states when only r moves.
OnlyMoves(s, t, r) ==
  \A S : Having(t, S) = IF t.seqs[r].status \in S THEN Having(s, S) \cup {r}
                        ELSE Having(s, S) \ {r}

LEMMA HavingMoves ==
  ASSUME NEW s, NEW t, NEW r \in Requests,
         \A q \in Requests : q # r => t.seqs[q].status = s.seqs[q].status
  PROVE  OnlyMoves(s, t, r)
  BY DEF Having, OnlyMoves

LEMMA CpuKept ==
  ASSUME NEW s, CpuOK(s), NEW t, t.cpuFree = s.cpuFree,
         \A r \in Requests : t.seqs[r].cpuTable = s.seqs[r].cpuTable
  PROVE  CpuOK(t)
  BY DEF CpuOK

\* The CPU pages of r become free.
LEMMA CpuReturned ==
  ASSUME NEW s, Shaped(s), CpuOK(s), NEW r \in Requests, NEW t,
         t.cpuFree = s.cpuFree \o s.seqs[r].cpuTable, t.seqs[r].cpuTable = <<>>,
         \A q \in Requests : q # r => t.seqs[q].cpuTable = s.seqs[q].cpuTable
  PROVE  CpuOK(t)
<1> DEFINE free == s.cpuFree
           mine == s.seqs[r].cpuTable
<1>1. /\ free \in Seq(CpuBlock) /\ IsInjective(free)
      /\ mine \in Seq(CpuBlock) /\ IsInjective(mine)
      /\ Range(free) \cap Range(mine) = {}
  BY DEF Shaped, IsSequence, CpuOK
<1> HIDE DEF free, mine
<1>2. IsInjective(free \o mine) /\ Range(free \o mine) = Range(free) \cup Range(mine)
  BY <1>1, JoinProperties
<1>3. IsInjective(t.seqs[r].cpuTable) /\ Range(t.seqs[r].cpuTable) = {}
  BY NoElements
<1>4. t.cpuFree = free \o mine
  BY DEF free, mine
<1>5. \A q \in Requests :
        /\ IsInjective(t.seqs[q].cpuTable)
        /\ Range(t.seqs[q].cpuTable) \cap Range(t.cpuFree) = {}
  <2> TAKE q \in Requests
  <2>1. CASE q = r
    BY <1>3, <2>1
  <2>2. CASE q # r
    BY <1>2, <1>4, <2>2 DEF CpuOK, free, mine
  <2> QED BY <2>1, <2>2
<1>6. \A q, x \in Requests :
        q # x => Range(t.seqs[q].cpuTable) \cap Range(t.seqs[x].cpuTable) = {}
  BY <1>3 DEF CpuOK
<1>7. \A b \in CpuBlock :
        b \in Range(t.cpuFree) \/ \E q \in Requests : b \in Range(t.seqs[q].cpuTable)
  BY <1>2, <1>4 DEF CpuOK, free, mine
<1> QED BY <1>2, <1>4, <1>5, <1>6, <1>7 DEF CpuOK

\* The two parts of a divided duplicate-free queue.
LEMMA SplitProperties ==
  ASSUME NEW S, NEW q \in Seq(S), IsInjective(q), NEW n \in 0 .. Len(q)
  PROVE  LET a == SubSeq(q, 1, n)
             b == SubSeq(q, n + 1, Len(q))
         IN  /\ IsInjective(a) /\ IsInjective(b)
             /\ Range(a) \cap Range(b) = {} /\ Range(a) \cup Range(b) = Range(q)
<1> DEFINE m == Len(q)
           a == SubSeq(q, 1, n)
           b == SubSeq(q, n + 1, m)
<1>1. m \in Nat /\ DOMAIN q = 1 .. m /\ \A k \in 1 .. m : q[k] \in S
  BY LenProperties, ElementOfSeq
<1>2. a \in Seq(S) /\ Len(a) = n /\ \A k \in 1 .. n : a[k] = q[k]
  <2>1. 1 \in Int /\ n \in Int /\ \A k \in 1 .. n : q[k] \in S
    BY <1>1
  <2>2. /\ a \in Seq(S) /\ Len(a) = IF 1 <= n THEN n - 1 + 1 ELSE 0
        /\ \A k \in 1 .. n - 1 + 1 : a[k] = q[1 + k - 1]
    BY <2>1, SubSeqProperties
  <2> HIDE DEF a
  <2> QED BY <1>1, <2>2
<1>l. PICK l \in Nat : m = n + l
  <2>1. m - n \in Nat /\ m = n + (m - n)
    BY <1>1
  <2> QED BY <2>1, Zenon
<1>3. b \in Seq(S) /\ Len(b) = l /\ \A k \in 1 .. l : b[k] = q[n + k]
  <2>1. n + 1 \in Int /\ m \in Int /\ \A k \in n + 1 .. m : q[k] \in S
    BY <1>1
  <2>2. /\ b \in Seq(S) /\ Len(b) = IF n + 1 <= m THEN m - (n + 1) + 1 ELSE 0
        /\ \A k \in 1 .. m - (n + 1) + 1 : b[k] = q[(n + 1) + k - 1]
    BY <2>1, SubSeqProperties
  <2>3. /\ m - (n + 1) + 1 = l /\ (IF n + 1 <= m THEN m - (n + 1) + 1 ELSE 0) = l
        /\ \A k \in 1 .. l : (n + 1) + k - 1 = n + k
    BY <1>l
  <2> HIDE DEF b
  <2>4. b \in Seq(S) /\ Len(b) = l
    BY <2>2, <2>3
  <2>5. ASSUME NEW k \in 1 .. l PROVE b[k] = q[n + k]
    <3>1. k \in 1 .. m - (n + 1) + 1 /\ (n + 1) + k - 1 = n + k
      BY <2>3
    <3>2. b[k] = q[(n + 1) + k - 1]
      BY <2>2, <3>1
    <3> QED BY <3>1, <3>2
  <2> QED BY <2>4, <2>5
<1> HIDE DEF a, b
<1>4. DOMAIN a = 1 .. n /\ DOMAIN b = 1 .. l
  BY <1>2, <1>3, LenProperties
<1>5. IsInjective(a)
  BY <1>1, <1>2, <1>4 DEF IsInjective
<1>6. IsInjective(b)
  <2>1. \A k \in 1 .. l : n + k \in DOMAIN q /\ b[k] = q[n + k]
    BY <1>1, <1>l, <1>3
  <2>2. ASSUME NEW j \in 1 .. l, NEW k \in 1 .. l, b[j] = b[k] PROVE j = k
    <3>1. n + j = n + k
      BY <2>1, <2>2 DEF IsInjective
    <3> QED BY <3>1
  <2> QED BY <1>4, <2>2 DEF IsInjective
<1>7. Range(a) = {q[k] : k \in 1 .. n}
  BY <1>2, <1>4 DEF Range
<1>8. Range(b) = {q[k] : k \in n + 1 .. m}
  <2>1. ASSUME NEW k \in n + 1 .. m PROVE \E j \in 1 .. l : b[j] = q[k]
    <3>1. k - n \in 1 .. l /\ n + (k - n) = k
      BY <1>1, <1>l
    <3>2. b[k - n] = q[n + (k - n)]
      BY <1>3, <3>1
    <3> QED BY <3>1, <3>2
  <2>2. \A k \in 1 .. l : n + k \in n + 1 .. m /\ b[k] = q[n + k]
    BY <1>1, <1>l, <1>3
  <2>3. {b[k] : k \in 1 .. l} = {q[k] : k \in n + 1 .. m}
    <3>1. {b[k] : k \in 1 .. l} \subseteq {q[k] : k \in n + 1 .. m}
      BY <2>2
    <3>2. {q[k] : k \in n + 1 .. m} \subseteq {b[k] : k \in 1 .. l}
      BY <2>1
    <3> QED BY <3>1, <3>2
  <2> QED BY <1>4, <2>3 DEF Range
<1>9. Range(a) \cap Range(b) = {}
  BY <1>1, <1>7, <1>8 DEF IsInjective
<1>10. Range(a) \cup Range(b) = Range(q)
  <2>1. \A k \in 1 .. m : k \in 1 .. n \/ k \in n + 1 .. m
    BY <1>1
  <2>2. 1 .. n \subseteq 1 .. m /\ n + 1 .. m \subseteq 1 .. m
    BY <1>1
  <2> QED BY <1>1, <1>7, <1>8, <2>1, <2>2 DEF Range
<1> QED BY <1>5, <1>6, <1>9, <1>10 DEF a, b

\* The first free CPU pages become those of r.
LEMMA CpuTaken ==
  ASSUME NEW s, Shaped(s), CpuOK(s), NEW r \in Requests, s.seqs[r].cpuTable = <<>>,
         NEW n \in 0 .. Len(s.cpuFree), NEW t,
         t.cpuFree = SubSeq(s.cpuFree, n + 1, Len(s.cpuFree)),
         t.seqs[r].cpuTable = SubSeq(s.cpuFree, 1, n),
         \A q \in Requests : q # r => t.seqs[q].cpuTable = s.seqs[q].cpuTable
  PROVE  CpuOK(t)
<1> DEFINE a == SubSeq(s.cpuFree, 1, n)
           b == SubSeq(s.cpuFree, n + 1, Len(s.cpuFree))
<1>1. s.cpuFree \in Seq(CpuBlock) /\ IsInjective(s.cpuFree)
  BY DEF Shaped, CpuOK
<1>2. /\ IsInjective(a) /\ IsInjective(b)
      /\ Range(a) \cap Range(b) = {} /\ Range(a) \cup Range(b) = Range(s.cpuFree)
  BY <1>1, SplitProperties
<1>3. t.cpuFree = b /\ t.seqs[r].cpuTable = a
  OBVIOUS
<1> HIDE DEF a, b
<1>4. \A q \in Requests :
        /\ IsInjective(t.seqs[q].cpuTable)
        /\ Range(t.seqs[q].cpuTable) \cap Range(t.cpuFree) = {}
  <2> TAKE q \in Requests
  <2>1. CASE q = r
    BY <1>2, <1>3, <2>1
  <2>2. CASE q # r
    BY <1>2, <1>3, <2>2 DEF CpuOK
  <2> QED BY <2>1, <2>2
<1>5. ASSUME NEW q \in Requests, NEW x \in Requests, q # x
      PROVE  Range(t.seqs[q].cpuTable) \cap Range(t.seqs[x].cpuTable) = {}
  <2>1. CASE q = r
    BY <1>2, <1>3, <1>5, <2>1 DEF CpuOK
  <2>2. CASE x = r
    BY <1>2, <1>3, <1>5, <2>2 DEF CpuOK
  <2>3. CASE q # r /\ x # r
    BY <1>5, <2>3 DEF CpuOK
  <2> QED BY <2>1, <2>2, <2>3
<1>6. \A c \in CpuBlock :
        c \in Range(t.cpuFree) \/ \E q \in Requests : c \in Range(t.seqs[q].cpuTable)
  <2> TAKE c \in CpuBlock
  <2>1. CASE c \in Range(s.cpuFree)
    BY <1>2, <1>3, <2>1
  <2>2. CASE c \notin Range(s.cpuFree)
    <3>1. PICK q \in Requests : c \in Range(s.seqs[q].cpuTable)
      BY <2>2 DEF CpuOK
    <3>2. q # r
      BY <3>1, NoElements
    <3> QED BY <3>1, <3>2
  <2> QED BY <2>1, <2>2
<1> QED BY <1>2, <1>3, <1>4, <1>5, <1>6 DEF CpuOK

-----------------------------------------------------------------------------
(* Submission and cancellation.                                              *)

\* What is left to check when only r changes.
LEMMA ValidMove ==
  ASSUME NEW s, NEW out, Valid(s, out), NEW t, NEW next, NEW r \in Requests,
         Shaped(t), CpuOK(t), PagesOK(t), QueuesOK(t, next), SequenceOK(t.seqs[r]),
         t.fault = s.fault,
         \A q \in Requests : q # r => t.seqs[q] = s.seqs[q]
  PROVE  Valid(t, next)
  BY DEF Valid

LEMMA AddValid ==
  ASSUME NEW s, Valid(s, {}), NEW r \in Requests, s.seqs[r].status = "new"
  PROVE  LET t == [Transition(s, r, "waiting") EXCEPT !.waiting = Append(@, r)]
         IN  /\ Valid(t, {}) /\ t.running = s.running /\ t.consecutive = s.consecutive
             /\ t.seqs[r].status = "waiting"
             /\ \A q \in Requests : q # r => t.seqs[q] = s.seqs[q]
<1> DEFINE x == Transition(s, r, "waiting")
           t == Requeue(x, Append(x.waiting, r), x.running, x.swapped, x.consecutive, x.fault)
<1>1. Shaped(s) /\ "waiting" \in Statuses /\ Lifecycle!MayMove(s.seqs[r].status, "waiting")
  BY Edges DEF Valid, Statuses, Lifecycle!LiveStates
<1>2. /\ Shaped(x)
      /\ x.waiting = s.waiting /\ x.running = s.running /\ x.swapped = s.swapped
      /\ x.fault = s.fault /\ x.cpuFree = s.cpuFree /\ x.consecutive = s.consecutive
      /\ \A q \in Requests : q # r => x.seqs[q] = s.seqs[q]
      /\ x.seqs[r].status = "waiting" /\ x.seqs[r].cpuTable = s.seqs[r].cpuTable
      /\ x.seqs[r].table = s.seqs[r].table /\ SamePages(s, x)
  BY <1>1, TransitionFields
<1> HIDE DEF x
<1>3. [x EXCEPT !.waiting = Append(@, r)] = t
  BY <1>2 DEF Shaped, Requeue
<1>4. Requeued(x, t, Append(x.waiting, r), x.running, x.swapped, x.consecutive, x.fault)
  BY <1>2, RequeueFields
<1> HIDE DEF t
<1>5. /\ Shaped(t) /\ t.seqs = x.seqs /\ t.pool = x.pool
      /\ t.cpuFree = s.cpuFree /\ t.fault = s.fault /\ t.consecutive = s.consecutive
      /\ t.waiting = Append(s.waiting, r) /\ t.running = s.running /\ t.swapped = s.swapped
  BY <1>2, <1>4 DEF Requeued
<1>6. CpuOK(t)
  BY <1>2, <1>5, CpuKept DEF Valid
<1>p. PagesOK(t)
  BY <1>2, <1>5, PagesKept, RequeuedPages DEF Valid
<1>7. SequenceOK(t.seqs[r])
  BY <1>2, <1>5 DEF SequenceOK, Valid
<1>8. QueuesOK(t, {})
  <2>1. /\ Having(t, {"waiting"}) = Having(s, {"waiting"}) \cup {r}
        /\ Having(t, {"swapped"}) = Having(s, {"swapped"}) \ {r}
        /\ Having(t, {"prefilling", "decoding"}) = Having(s, {"prefilling", "decoding"}) \ {r}
    <3>1. \A q \in Requests : q # r => t.seqs[q].status = s.seqs[q].status
      BY <1>2, <1>5
    <3>2. OnlyMoves(s, t, r)
      BY <3>1, HavingMoves
    <3>3. t.seqs[r].status = "waiting"
      BY <1>2, <1>5
    <3> QED BY <3>2, <3>3 DEF OnlyMoves
  <2>2. /\ r \notin Having(s, {"waiting"}) /\ r \notin Having(s, {"swapped"})
        /\ r \notin Having(s, {"prefilling", "decoding"})
    BY DEF Having
  <2>3. Queue(t.waiting, Having(s, {"waiting"}) \cup {r})
    BY <1>5, <2>2, AppendNewProperties DEF Valid, QueuesOK, Queue
  <2>4. /\ Having(t, {"swapped"}) = Having(s, {"swapped"})
        /\ Having(t, {"prefilling", "decoding"}) = Having(s, {"prefilling", "decoding"})
    BY <2>1, <2>2
  <2> QED BY <1>5, <2>1, <2>3, <2>4 DEF Valid, QueuesOK
<1>9. Valid(t, {})
  <2>1. \A q \in Requests : q # r => t.seqs[q] = s.seqs[q]
    BY <1>2, <1>5
  <2> QED BY <1>5, <1>6, <1>p, <1>7, <1>8, <2>1, ValidMove
<1> QED BY <1>2, <1>3, <1>5, <1>9 DEF x

LEMMA RejectValid ==
  ASSUME NEW s, Valid(s, {}), NEW r \in Requests, s.seqs[r].status = "new"
  PROVE  LET t == Transition(s, r, "rejected")
         IN  /\ Valid(t, {}) /\ t.running = s.running /\ t.consecutive = s.consecutive
             /\ t.seqs[r].status = "rejected"
             /\ \A q \in Requests : q # r => t.seqs[q] = s.seqs[q]
<1> DEFINE t == Transition(s, r, "rejected")
<1>1. Shaped(s) /\ "rejected" \in Statuses /\ Lifecycle!MayMove(s.seqs[r].status, "rejected")
  BY Edges DEF Valid, Statuses, Lifecycle!TerminalStates
<1>2. /\ Shaped(t)
      /\ t.waiting = s.waiting /\ t.running = s.running /\ t.swapped = s.swapped
      /\ t.fault = s.fault /\ t.cpuFree = s.cpuFree /\ t.consecutive = s.consecutive
      /\ \A q \in Requests : q # r => t.seqs[q] = s.seqs[q]
      /\ t.seqs[r].status = "rejected" /\ t.seqs[r].cpuTable = s.seqs[r].cpuTable
      /\ t.seqs[r].table = s.seqs[r].table /\ SamePages(s, t)
  BY <1>1, TransitionFields
<1> HIDE DEF t
<1>3. CpuOK(t)
  BY <1>2, CpuKept DEF Valid
<1>p. PagesOK(t)
  BY <1>2, PagesKept DEF Valid
<1>4. SequenceOK(t.seqs[r])
  BY <1>2 DEF SequenceOK, Valid
<1>5. QueuesOK(t, {})
  <2>1. \A S \in SUBSET {"waiting", "prefilling", "decoding", "swapped"} :
          Having(t, S) = Having(s, S)
    BY <1>2 DEF Having
  <2>2. /\ Having(t, {"waiting"}) = Having(s, {"waiting"})
        /\ Having(t, {"swapped"}) = Having(s, {"swapped"})
        /\ Having(t, {"prefilling", "decoding"}) = Having(s, {"prefilling", "decoding"})
    BY <2>1
  <2> QED BY <1>2, <2>2 DEF Valid, QueuesOK
<1>6. Valid(t, {})
  BY <1>2, <1>3, <1>p, <1>4, <1>5, ValidMove
<1> QED BY <1>2, <1>6 DEF t

\* How many of a queue's elements are among the members of S, and how many are not.
LEMMA ThoseLength ==
  ASSUME NEW q \in Seq(Requests), IsInjective(q), NEW S
  PROVE  /\ Len(Those(q, S)) \in Nat /\ Len(Those(q, Requests \ S)) \in Nat
         /\ Len(Those(q, S)) + Len(Those(q, Requests \ S)) = Len(q)
<1> DEFINE a == Those(q, S)
           b == Those(q, Requests \ S)
<1>1. /\ a \in Seq(Requests) /\ IsInjective(a) /\ Range(a) = Range(q) \cap S
      /\ b \in Seq(Requests) /\ IsInjective(b) /\ Range(b) = Range(q) \cap (Requests \ S)
  BY ThoseProperties
<1> HIDE DEF a, b
<1>2. Range(a) \cap Range(b) = {} /\ Range(a) \cup Range(b) = Range(q)
  BY <1>1, RangeOfSeq
<1>3. /\ IsFiniteSet(Range(q)) /\ Cardinality(Range(q)) = Len(q)
      /\ IsFiniteSet(Range(a)) /\ Cardinality(Range(a)) = Len(a)
      /\ IsFiniteSet(Range(b)) /\ Cardinality(Range(b)) = Len(b)
  BY <1>1, InjectiveCardinality
<1>4. Cardinality(Range(a) \cup Range(b)) =
        Cardinality(Range(a)) + Cardinality(Range(b)) - Cardinality(Range(a) \cap Range(b))
  BY <1>3, FS_Union
<1>5. Len(a) \in Nat /\ Len(b) \in Nat
  BY <1>1, LenProperties
<1>6. Cardinality(Range(a) \cap Range(b)) = 0
  BY <1>2, FS_EmptySet
<1>7. Len(a) + Len(b) = Len(q)
  <2>1. Cardinality(Range(a) \cup Range(b)) = Cardinality(Range(q))
    BY <1>2, Zenon
  <2> QED BY <2>1, <1>3, <1>4, <1>5, <1>6
<1> QED BY <1>5, <1>7 DEF a, b

\* Removing r from a queue.
LEMMA DropProperties ==
  ASSUME NEW q \in Seq(Requests), IsInjective(q), NEW r
  PROVE  LET rest == Those(q, Requests \ {r})
         IN  /\ Queue(rest, Range(q) \ {r})
             /\ Len(rest) \in Nat /\ Len(rest) <= Len(q)
<1> DEFINE rest == Those(q, Requests \ {r})
<1>1. rest \in Seq(Requests) /\ IsInjective(rest) /\ Range(rest) = Range(q) \cap (Requests \ {r})
  BY ThoseProperties
<1>2. Len(Those(q, {r})) \in Nat /\ Len(rest) \in Nat
      /\ Len(Those(q, {r})) + Len(rest) = Len(q)
  BY ThoseLength
<1> HIDE DEF rest
<1>3. Range(q) \subseteq Requests
  BY RangeOfSeq
<1>4. Range(q) \cap (Requests \ {r}) = Range(q) \ {r}
  BY <1>3
<1>5. Queue(rest, Range(q) \ {r})
  BY <1>1, <1>4 DEF Queue
<1>6. Len(q) \in Nat
  BY LenProperties
<1>7. Len(rest) \in Nat /\ Len(rest) <= Len(q)
  BY <1>2, <1>6
<1> QED BY <1>5, <1>7 DEF rest

\* A request that ended is in no queue.
LEMMA RetireValid ==
  ASSUME NEW s, Valid(s, {}), NEW r \in Requests, NEW t, Shaped(t), CpuOK(t), PagesOK(t),
         \A q \in Requests : q # r => t.seqs[q] = s.seqs[q],
         t.fault = s.fault, t.seqs[r].status \in Lifecycle!TerminalStates,
         t.seqs[r].cpuTable = <<>>, t.seqs[r].table = <<>>,
         Queue(t.waiting, Range(s.waiting) \ {r}), Queue(t.running, Range(s.running) \ {r}),
         Queue(t.swapped, Range(s.swapped) \ {r})
  PROVE  Valid(t, {})
<1>1. SequenceOK(t.seqs[r])
  BY DEF SequenceOK, Lifecycle!TerminalStates
<1>2. OnlyMoves(s, t, r)
  <2>1. \A q \in Requests : q # r => t.seqs[q].status = s.seqs[q].status
    OBVIOUS
  <2> QED BY <2>1, HavingMoves
<1>3. /\ Having(t, {"waiting"}) = Having(s, {"waiting"}) \ {r}
      /\ Having(t, {"swapped"}) = Having(s, {"swapped"}) \ {r}
      /\ Having(t, {"prefilling", "decoding"}) = Having(s, {"prefilling", "decoding"}) \ {r}
  BY <1>2 DEF OnlyMoves, Lifecycle!TerminalStates
<1>4. QueuesOK(t, {})
  <2>1. /\ Range(s.waiting) = Having(s, {"waiting"}) /\ Range(s.swapped) = Having(s, {"swapped"})
        /\ Range(s.running) = Having(s, {"prefilling", "decoding"})
    BY DEF Valid, QueuesOK, Queue
  <2> QED BY <1>3, <2>1 DEF QueuesOK, Queue
<1> QED BY <1>1, <1>4, ValidMove

LEMMA CancelValid ==
  ASSUME NEW s, Valid(s, {}), NEW r \in Requests, s.seqs[r].status \in Lifecycle!LiveStates
  PROVE  LET without(queue) == Those(queue, Requests \ {r})
             t == Transition([DeallocateSequence(s, r)
                                EXCEPT !.waiting = without(@), !.running = without(@),
                                       !.swapped = without(@)], r, "cancelled")
         IN  /\ Valid(t, {}) /\ Len(t.running) <= Len(s.running)
             /\ t.consecutive = s.consecutive
             /\ t.seqs[r].status = "cancelled"
             /\ \A q \in Requests : q # r => t.seqs[q] = s.seqs[q]
<1> DEFINE without(queue) == Those(queue, Requests \ {r})
           x == DeallocateSequence(s, r)
           y == Requeue(x, without(x.waiting), without(x.running), without(x.swapped),
                        x.consecutive, x.fault)
           t == Transition(y, r, "cancelled")
<1>1. Shaped(s)
  BY DEF Valid
<1>2. /\ Touches(s, x, r) /\ x.cpuFree = s.cpuFree \o s.seqs[r].cpuTable
      /\ x.seqs[r].cpuTable = <<>> /\ x.seqs[r].table = <<>>
  BY <1>1, DeallocateTouches
<1>d. PagesOK(x)
  BY <1>1, DeallocatePages DEF Valid
<1> HIDE DEF x
<1>3. [x EXCEPT !.waiting = without(@), !.running = without(@), !.swapped = without(@)] = y
  BY <1>2 DEF Touches, Shaped, Requeue
<1>4. /\ Shaped(y) /\ y.cpuFree = x.cpuFree /\ y.seqs = x.seqs /\ y.fault = x.fault
      /\ y.pool = x.pool /\ y.consecutive = x.consecutive
      /\ y.waiting = without(x.waiting) /\ y.running = without(x.running)
      /\ y.swapped = without(x.swapped)
  <2>1. Requeued(x, y, without(x.waiting), without(x.running), without(x.swapped),
                 x.consecutive, x.fault)
    BY <1>2, RequeueFields DEF Touches
  <2> HIDE DEF y
  <2> QED BY <2>1 DEF Requeued
<1> HIDE DEF y
<1>5. "cancelled" \in Statuses /\ Lifecycle!MayMove(y.seqs[r].status, "cancelled")
  <2>1. y.seqs[r].status = s.seqs[r].status
    BY <1>2, <1>4 DEF Touches
  <2> QED BY <2>1, Edges DEF Statuses, Lifecycle!TerminalStates
<1>6. /\ Shaped(t) /\ t.cpuFree = y.cpuFree /\ t.fault = y.fault
      /\ t.consecutive = y.consecutive
      /\ t.waiting = y.waiting /\ t.running = y.running /\ t.swapped = y.swapped
      /\ \A q \in Requests : q # r => t.seqs[q] = y.seqs[q]
      /\ t.seqs[r].status = "cancelled" /\ t.seqs[r].cpuTable = y.seqs[r].cpuTable
      /\ t.seqs[r].table = y.seqs[r].table /\ SamePages(y, t)
  BY <1>4, <1>5, TransitionFields
<1> HIDE DEF t
<1>p. PagesOK(t)
  BY <1>d, <1>4, <1>6, PagesKept, RequeuedPages
<1>7. /\ t.cpuFree = s.cpuFree \o s.seqs[r].cpuTable /\ t.seqs[r].cpuTable = <<>>
      /\ t.seqs[r].table = <<>>
      /\ t.fault = s.fault /\ t.consecutive = s.consecutive
      /\ \A q \in Requests : q # r => t.seqs[q] = s.seqs[q]
      /\ t.waiting = without(s.waiting) /\ t.running = without(s.running)
      /\ t.swapped = without(s.swapped)
  BY <1>2, <1>4, <1>6 DEF Touches
<1>8. CpuOK(t)
  BY <1>1, <1>7, CpuReturned DEF Valid
<1>9. /\ Queue(t.waiting, Range(s.waiting) \ {r}) /\ Queue(t.swapped, Range(s.swapped) \ {r})
      /\ Queue(t.running, Range(s.running) \ {r}) /\ Len(t.running) <= Len(s.running)
  <2>1. /\ s.waiting \in Seq(Requests) /\ IsInjective(s.waiting)
        /\ s.running \in Seq(Requests) /\ IsInjective(s.running)
        /\ s.swapped \in Seq(Requests) /\ IsInjective(s.swapped)
    BY DEF Valid, QueuesOK, Queue
  <2> QED BY <1>7, <2>1, DropProperties
<1>10. Valid(t, {})
  <2>1. t.seqs[r].status \in Lifecycle!TerminalStates
    BY <1>6 DEF Lifecycle!TerminalStates
  <2> QED BY <1>6, <1>p, <1>7, <1>8, <1>9, <2>1, RetireValid
<1> QED BY <1>3, <1>6, <1>7, <1>9, <1>10, Zenon DEF t, x

-----------------------------------------------------------------------------
(* Prefill planning.                                                         *)

LEMMA MinOfThree ==
  ASSUME NEW a \in Int, NEW b \in Int, NEW c \in Int
  PROVE  Min({a, b, c}) \in {a, b, c} /\ Min({a, b, c}) <= a /\ Min({a, b, c}) <= b /\ Min({a, b, c}) <= c
<1> DEFINE m == IF a <= b THEN (IF a <= c THEN a ELSE c) ELSE (IF b <= c THEN b ELSE c)
<1>1. m \in {a, b, c} /\ \A y \in {a, b, c} : m <= y
  OBVIOUS
<1>2. \E x \in {a, b, c} : \A y \in {a, b, c} : x <= y
  BY <1>1
<1>3. Min({a, b, c}) \in {a, b, c} /\ \A y \in {a, b, c} : Min({a, b, c}) <= y
  BY <1>2 DEF Min
<1> QED BY <1>3

\* A prefilling request continues at its frontier, and a slice ends within the prompt.
LEMMA CountWithinPrompt ==
  ASSUME NEW s, Shaped(s), NEW r \in Requests, s.seqs[r].status = "prefilling",
         s.seqs[r].cached <= s.seqs[r].computed, NEW available \in Int
  PROVE  LET count == PrefillTokenCount(s, r, available)
         IN  /\ EffectivePrefillStart(s, r) = s.seqs[r].computed
             /\ count \in Nat
             /\ count # 0 => s.seqs[r].computed + count <= PromptLen(r)
<1> DEFINE c == s.seqs[r].cached
           f == s.seqs[r].computed
           left == PromptLen(r) - f
           remaining == Max({0, left})
           count == PrefillTokenCount(s, r, available)
<1>1. c \in Nat /\ f \in Nat /\ c <= f
  BY DEF Shaped, IsSequence
<1>2. PromptLen(r) \in Nat
  <2>1. Prompt[r] \in Seq(Tokens)
    BY ManagerAssumption
  <2> QED BY <2>1, LenProperties DEF PromptLen
<1>3. EffectivePrefillStart(s, r) = f
  <2>1. EffectivePrefillStart(s, r) = Max({c, f, c})
    BY DEF EffectivePrefillStart, CachedPrefixTokens
  <2>2. {c, f, c} = {c, f}
    OBVIOUS
  <2>3. Max({c, f}) \in {c, f} /\ Max({c, f}) >= f
    <3>1. c \in Int /\ f \in Int
      BY <1>1
    <3> HIDE DEF c, f
    <3> QED BY <3>1, MaxOfTwo
  <2> HIDE DEF c, f
  <2>4. Max({c, f}) = f
    BY <1>1, <2>3
  <2>5. Max({c, f, c}) = Max({c, f})
    BY <2>2, Zenon
  <2> QED BY <2>1, <2>4, <2>5
<1>4. remaining \in {0, left} /\ remaining >= 0 /\ remaining >= left
  <2>1. 0 \in Int /\ left \in Int
    BY <1>1, <1>2
  <2> HIDE DEF left
  <2> QED BY <2>1, MaxOfTwo
<1>5. count = IF available <= 0 THEN 0
              ELSE IF Chunked THEN Min({remaining, MaxChunkSize, available})
              ELSE IF remaining <= available THEN remaining ELSE 0
  BY <1>3 DEF PrefillTokenCount
<1>6. MaxChunkSize \in Nat /\ MaxChunkSize # 0
  BY SchedulerAssumption
<1> HIDE DEF remaining, count, c, f
<1>7. remaining \in Nat
  BY <1>1, <1>2, <1>4
<1>8. /\ Min({remaining, MaxChunkSize, available}) \in {remaining, MaxChunkSize, available}
      /\ Min({remaining, MaxChunkSize, available}) <= remaining
  <2>1. remaining \in Int /\ MaxChunkSize \in Int
    BY <1>6, <1>7
  <2> QED BY <2>1, MinOfThree
<1>9. count \in Nat /\ count <= remaining
  BY <1>5, <1>6, <1>7, <1>8
<1>10. count # 0 => f + count <= PromptLen(r)
  BY <1>1, <1>2, <1>4, <1>7, <1>9
<1> QED BY <1>3, <1>9, <1>10 DEF count, f

\* A batch under construction.
BatchOK(s, batch) == batch.tokens \in Nat /\ SlicesOK(s, batch.seqs, batch.slices)

LEMMA EmptyBatchOK == \A s : BatchOK(s, EmptyBatch) /\ Range(EmptyBatch.seqs) = {}
  BY NoElements DEF BatchOK, SlicesOK, EmptyBatch

\* One more slice, of a prefilling request that has none yet.
Extends(s, batch, next, r) ==
  /\ BatchOK(s, next) /\ next.seqs # <<>>
  /\ Range(next.seqs) = Range(batch.seqs) \cup {r}

LEMMA SliceAdded ==
  ASSUME NEW s, Shaped(s), NEW batch, BatchOK(s, batch), NEW r \in Requests,
         r \notin Range(batch.seqs), s.seqs[r].status = "prefilling",
         s.seqs[r].cached <= s.seqs[r].computed, NEW available \in Int,
         PrefillTokenCount(s, r, available) # 0
  PROVE  Extends(s, batch, AddSlice(batch, s, r, PrefillTokenCount(s, r, available)), r)
<1> DEFINE count == PrefillTokenCount(s, r, available)
           f == s.seqs[r].computed
           members == Append(batch.seqs, r)
           slices == Append(batch.slices, <<f, f + count>>)
           next == AddSlice(batch, s, r, count)
<1>1. /\ EffectivePrefillStart(s, r) = f /\ count \in Nat /\ count # 0
      /\ f + count <= PromptLen(r) /\ f \in Nat
  <2>1. f \in Nat
    BY DEF Shaped, IsSequence
  <2> QED BY <2>1, CountWithinPrompt
<1>2. next.seqs = members /\ next.slices = slices /\ next.tokens = batch.tokens + count
  BY <1>1 DEF AddSlice
<1> HIDE DEF next, count
<1>3. /\ batch.seqs \in Seq(Requests) /\ IsInjective(batch.seqs)
      /\ batch.slices \in Seq(Nat \X Nat) /\ Len(batch.slices) = Len(batch.seqs)
  BY DEF BatchOK, SlicesOK
<1>4. /\ members \in Seq(Requests) /\ IsInjective(members)
      /\ Range(members) = Range(batch.seqs) \cup {r} /\ Len(members) = Len(batch.seqs) + 1
  BY <1>3, AppendNewProperties
<1>5. /\ members # <<>>
      /\ \A k \in 1 .. Len(batch.seqs) : members[k] = batch.seqs[k]
      /\ members[Len(batch.seqs) + 1] = r
  <2> DEFINE q == batch.seqs
  <2>1. q \in Seq(Requests)
    BY <1>3
  <2> HIDE DEF q
  <2>2. /\ Append(q, r) # <<>> /\ Append(q, r)[Len(q) + 1] = r
        /\ \A k \in 1 .. Len(q) : Append(q, r)[k] = q[k]
    BY <2>1, AppendProperties
  <2> QED BY <2>2 DEF q
<1>6. /\ slices \in Seq(Nat \X Nat) /\ Len(slices) = Len(batch.seqs) + 1
      /\ \A k \in 1 .. Len(batch.seqs) : slices[k] = batch.slices[k]
      /\ slices[Len(batch.seqs) + 1] = <<f, f + count>>
  <2>1. <<f, f + count>> \in Nat \X Nat
    BY <1>1
  <2> DEFINE q == batch.slices
             e == <<f, f + count>>
  <2>2. q \in Seq(Nat \X Nat) /\ e \in Nat \X Nat /\ Len(q) = Len(batch.seqs)
    BY <1>3, <2>1
  <2> HIDE DEF q, e
  <2>3. /\ Append(q, e) \in Seq(Nat \X Nat) /\ Len(Append(q, e)) = Len(q) + 1
        /\ Append(q, e)[Len(q) + 1] = e
        /\ \A k \in 1 .. Len(q) : Append(q, e)[k] = q[k]
    BY <2>2, AppendProperties
  <2> QED BY <2>2, <2>3 DEF q, e
<1>7. Len(batch.seqs) \in Nat
  BY <1>3, LenProperties
<1> HIDE DEF members, slices
<1>8. ASSUME NEW k \in 1 .. Len(members)
      PROVE  /\ s.seqs[members[k]].status = "prefilling"
             /\ s.seqs[members[k]].computed = slices[k][1]
             /\ slices[k][1] <= slices[k][2] /\ slices[k][2] <= PromptLen(members[k])
  <2>1. CASE k \in 1 .. Len(batch.seqs)
    <3>1. members[k] = batch.seqs[k] /\ slices[k] = batch.slices[k]
      BY <1>5, <1>6, <2>1
    <3> QED BY <2>1, <3>1 DEF BatchOK, SlicesOK
  <2>2. CASE k = Len(batch.seqs) + 1
    <3>1. members[k] = r /\ slices[k] = <<f, f + count>>
      BY <1>5, <1>6, <2>2
    <3> QED BY <1>1, <3>1
  <2> QED BY <1>4, <1>7, <2>1, <2>2
<1>9. BatchOK(s, next)
  <2>1. SlicesOK(s, members, slices)
    BY <1>4, <1>6, <1>8 DEF SlicesOK
  <2>2. batch.tokens + count \in Nat
    BY <1>1 DEF BatchOK
  <2> QED BY <1>2, <2>1, <2>2 DEF BatchOK
<1>10. Extends(s, batch, next, r)
  BY <1>2, <1>4, <1>5, <1>9 DEF Extends
<1> QED BY <1>10 DEF next, count

\* Slices stay right while their members do not change.
LEMMA SlicesKept ==
  ASSUME NEW s, NEW t, NEW members, NEW slices, SlicesOK(s, members, slices),
         \A r \in Requests : s.seqs[r].status = "prefilling" => t.seqs[r] = s.seqs[r]
  PROVE  SlicesOK(t, members, slices)
<1>1. \A k \in 1 .. Len(members) : t.seqs[members[k]] = s.seqs[members[k]]
  <2>1. \A k \in 1 .. Len(members) : members[k] \in Requests
    BY ElementOfSeq DEF SlicesOK
  <2> QED BY <2>1 DEF SlicesOK
<1> QED BY <1>1 DEF SlicesOK

\* The turns of _collect_running_prefills.
CollectTurns(f, s, n) ==
  /\ f[0] = [batch |-> EmptyBatch, stop |-> FALSE]
  /\ \A k \in 1 .. n : f[k] = CollectTurn(s, f[k - 1], s.running[k])
  /\ CollectRunning(s) = f[n].batch

LEMMA CollectTurnsExist ==
  ASSUME NEW s, NEW n \in Nat, n = Len(s.running)
  PROVE  \E f : CollectTurns(f, s, n)
<1> DEFINE Step(f, k) == IF k = 0 THEN [batch |-> EmptyBatch, stop |-> FALSE] ELSE CollectTurn(s, f[k - 1], s.running[k])
           N == {m \in Nat : \E f : f = [k \in 0 .. m |-> Step(f, k)]}
           F == CHOOSE f : f = [k \in 0 .. n |-> Step(f, k)]
<1>1. 0 \in N
  <2> DEFINE g == [k \in 0 .. 0 |-> [batch |-> EmptyBatch, stop |-> FALSE]]
  <2>1. g = [k \in 0 .. 0 |-> Step(g, k)]
    OBVIOUS
  <2> HIDE DEF g
  <2>2. \E f : f = [k \in 0 .. 0 |-> Step(f, k)]
    BY <2>1
  <2> QED BY <2>2
<1>2. ASSUME NEW m \in Nat, m \in N PROVE m + 1 \in N
  <2>1. PICK g : g = [k \in 0 .. m |-> Step(g, k)]
    BY <1>2
  <2> DEFINE h == [k \in 0 .. m + 1 |-> IF k = m + 1 THEN Step(g, m + 1) ELSE g[k]]
  <2>2. ASSUME NEW k \in 0 .. m + 1 PROVE h[k] = Step(h, k)
    <3>1. k # 0 => k - 1 \in 0 .. m /\ h[k - 1] = g[k - 1]
      OBVIOUS
    <3>2. k # m + 1 => g[k] = Step(g, k)
      <4>1. k # m + 1 => k \in 0 .. m
        OBVIOUS
      <4> QED BY <2>1, <4>1
    <3>3. h[k] = Step(g, k)
      BY <3>2
    <3> QED BY <3>1, <3>3
  <2>3. h = [k \in 0 .. m + 1 |-> Step(h, k)]
    BY <2>2
  <2> HIDE DEF h
  <2>4. \E f : f = [k \in 0 .. m + 1 |-> Step(f, k)]
    BY <2>3
  <2> QED BY <2>4
<1>3. n \in N
  <2> HIDE DEF N
  <2> QED BY <1>1, <1>2, NatSetInduction
<1>4. F = [k \in 0 .. n |-> Step(F, k)]
  BY <1>3
<1>5. CollectRunning(s) = F[n].batch
  BY DEF CollectRunning
<1> HIDE DEF F
<1>6. F[0] = [batch |-> EmptyBatch, stop |-> FALSE] /\ \A k \in 1 .. n : F[k] = CollectTurn(s, F[k - 1], s.running[k])
  <2>1. \A k \in 0 .. n : F[k] = Step(F, k)
    BY <1>4
  <2>2. 0 \in 0 .. n /\ \A k \in 1 .. n : k \in 0 .. n
    OBVIOUS
  <2>3. F[0] = Step(F, 0)
    BY <2>1, <2>2
  <2> QED BY <2>1, <2>2, <2>3
<1> QED BY <1>5, <1>6 DEF CollectTurns

LEMMA CollectValid ==
  ASSUME config \in Configs, NEW s, Valid(s, {})
  PROVE  BatchOK(s, CollectRunning(s))
<1> DEFINE n == Len(s.running)
<1>1. /\ n \in Nat /\ DOMAIN s.running = 1 .. n /\ IsInjective(s.running)
      /\ \A k \in 1 .. n : s.running[k] \in Requests
  BY LenProperties, ElementOfSeq DEF Valid, QueuesOK, Queue
<1>2. PICK f : CollectTurns(f, s, n)
  BY <1>1, CollectTurnsExist
<1>3. /\ f[0] = [batch |-> EmptyBatch, stop |-> FALSE]
      /\ \A k \in 1 .. n : f[k] = CollectTurn(s, f[k - 1], s.running[k])
      /\ CollectRunning(s) = f[n].batch
  BY <1>2 DEF CollectTurns
<1> DEFINE Fine(m) == /\ f[m] \in [batch : {f[m].batch}, stop : {f[m].stop}]
                      /\ BatchOK(s, f[m].batch)
                      /\ Range(f[m].batch.seqs) \subseteq {s.running[i] : i \in 1 .. m}
           N == {m \in Nat : m <= n => Fine(m)}
<1> HIDE DEF n
<1>4. 0 \in N
  <2>1. f[0].batch = EmptyBatch /\ f[0] \in [batch : {f[0].batch}, stop : {f[0].stop}]
    BY <1>3
  <2> QED BY <2>1, EmptyBatchOK
<1>5. ASSUME NEW m \in Nat, m \in N PROVE m + 1 \in N
  <2> SUFFICES ASSUME m + 1 <= n PROVE Fine(m + 1)
    OBVIOUS
  <2> DEFINE r == s.running[m + 1]
             acc == f[m]
             available == Available(acc.batch)
             count == PrefillTokenCount(s, r, available)
  <2>1. m + 1 \in 1 .. n /\ (m + 1) - 1 = m /\ Fine(m) /\ 1 .. m \subseteq 1 .. m + 1
    BY <1>1, <1>5
  <2>2. f[m + 1] = CollectTurn(s, acc, r) /\ r \in Requests
    BY <1>1, <1>3, <2>1
  <2>3. CASE acc.stop \/ s.seqs[r].status # "prefilling"
    <3>1. f[m + 1] = acc
      BY <2>2, <2>3 DEF CollectTurn
    <3> QED BY <2>1, <3>1
  <2>4. CASE ~(acc.stop \/ s.seqs[r].status # "prefilling")
    <3>1. CASE Len(acc.batch.seqs) >= MaxNumSeqs \/ count = 0
      <4>1. f[m + 1] = [acc EXCEPT !.stop = TRUE]
        BY <2>2, <2>4, <3>1 DEF CollectTurn
      <4>2. f[m + 1] \in [batch : {f[m + 1].batch}, stop : {f[m + 1].stop}]
            /\ f[m + 1].batch = acc.batch
        BY <2>1, <4>1
      <4> QED BY <2>1, <4>2
    <3>2. CASE ~(Len(acc.batch.seqs) >= MaxNumSeqs \/ count = 0)
      <4> DEFINE next == AddSlice(acc.batch, s, r, count)
      <4>1. f[m + 1] = [acc EXCEPT !.batch = next]
        BY <2>1, <2>2, <2>4, <3>2 DEF CollectTurn
      <4>2. f[m + 1] \in [batch : {f[m + 1].batch}, stop : {f[m + 1].stop}]
            /\ f[m + 1].batch = next
        BY <2>1, <4>1
      <4>3. r \notin {s.running[i] : i \in 1 .. m}
        BY <1>1, <2>1 DEF IsInjective
      <4>4. available \in Int
        <5>1. MaxBatchedTokens \in Nat
          BY SchedulerAssumption DEF MaxBatchedTokens
        <5>2. acc.batch.tokens \in Nat
          BY <2>1 DEF BatchOK
        <5> QED BY <5>1, <5>2 DEF Available
      <4>5. s.seqs[r].status = "prefilling" /\ s.seqs[r].cached <= s.seqs[r].computed /\ Shaped(s)
        BY <2>2, <2>4 DEF Valid, SequenceOK
      <4>6. r \notin Range(acc.batch.seqs) /\ BatchOK(s, acc.batch) /\ count # 0
        BY <2>1, <3>2, <4>3
      <4> HIDE DEF r, acc, available
      <4>7. BatchOK(s, next) /\ Range(next.seqs) = Range(acc.batch.seqs) \cup {r}
        <5>1. Extends(s, acc.batch, next, r)
          BY <2>2, <4>4, <4>5, <4>6, SliceAdded
        <5> HIDE DEF next
        <5> QED BY <5>1 DEF Extends
      <4> HIDE DEF next, count
      <4>8. Range(next.seqs) \subseteq {s.running[i] : i \in 1 .. m + 1}
        <5>1. r \in {s.running[i] : i \in 1 .. m + 1}
          BY <2>1 DEF r
        <5>2. {s.running[i] : i \in 1 .. m} \subseteq {s.running[i] : i \in 1 .. m + 1}
          BY <2>1
        <5>3. Range(acc.batch.seqs) \subseteq {s.running[i] : i \in 1 .. m}
          BY <2>1 DEF acc
        <5> QED BY <4>7, <5>1, <5>2, <5>3
      <4> QED BY <4>2, <4>7, <4>8
    <3> QED BY <3>1, <3>2
  <2> QED BY <2>3, <2>4
<1>6. \A m \in Nat : m \in N
  <2> HIDE DEF N
  <2> QED BY <1>4, <1>5, NatSetInduction
<1>7. Fine(n)
  <2>1. n \in N /\ n <= n
    <3> HIDE DEF N
    <3> QED BY <1>1, <1>6
  <2> QED BY <2>1
<1> QED BY <1>3, <1>7

\* A snapshot whose pages, but no states or queues, changed.
LEMMA TouchValid ==
  ASSUME NEW s, NEW out, Valid(s, out), NEW r \in Requests, NEW t, Touches(s, t, r),
         CpuOK(t), PagesOK(t), SequenceOK(t.seqs[r])
  PROVE  Valid(t, out)
<1>1. \A q \in Requests : t.seqs[q].status = s.seqs[q].status
  BY DEF Touches
<1>2. \A S : Having(t, S) = Having(s, S)
  BY <1>1 DEF Having
<1>3. QueuesOK(t, out)
  BY <1>2 DEF Valid, QueuesOK, Touches
<1> QED BY <1>3, ValidMove DEF Touches

LEMMA TouchesTwice ==
  ASSUME NEW s, NEW t, NEW u, NEW r \in Requests, Touches(s, t, r), Touches(t, u, r)
  PROVE  Touches(s, u, r)
  BY DEF Touches

LEMMA RaiseValid ==
  ASSUME NEW s, NEW out, Valid(s, out), NEW e, e \notin {BadTransition, LatePrefill}
  PROVE  LET t == Raise(s, e)
         IN  /\ Valid(t, out) /\ t.running = s.running /\ t.seqs = s.seqs
             /\ e # "none" => t.fault # "none"
<1> DEFINE t == Raise(s, e)
           f == IF s.fault = "none" THEN e ELSE s.fault
<1>1. Shaped(s)
  BY DEF Valid
<1>2. Requeued(s, t, s.waiting, s.running, s.swapped, s.consecutive, f)
  BY <1>1, RaiseFields
<1> HIDE DEF t
<1>3. /\ Shaped(t) /\ t.seqs = s.seqs /\ t.pool = s.pool /\ t.cpuFree = s.cpuFree /\ t.fault = f
      /\ t.waiting = s.waiting /\ t.running = s.running /\ t.swapped = s.swapped
  BY <1>2 DEF Requeued
<1>4. CpuOK(t)
  BY <1>3, CpuKept DEF Valid
<1>p. PagesOK(t)
  BY <1>3, RequeuedPages DEF Valid
<1>5. \A S : Having(t, S) = Having(s, S)
  BY <1>3 DEF Having
<1>6. QueuesOK(t, out)
  BY <1>3, <1>5 DEF Valid, QueuesOK
<1>7. Valid(t, out)
  BY <1>3, <1>4, <1>p, <1>6 DEF Valid
<1> QED BY <1>3, <1>7 DEF t

\* Pages for r, and its frontier behind the shared ones.
LEMMA StartedTouches ==
  ASSUME NEW s, Valid(s, {}), NEW r \in Requests, s.seqs[r].table = <<>>, CanAllocate(s, r)
  PROVE  LET b == SkipCached(AllocateDense(s, r), r)
         IN  /\ Touches(s, b, r) /\ PagesOK(b)
             /\ b.cpuFree = s.cpuFree /\ b.seqs[r].cpuTable = s.seqs[r].cpuTable
             /\ b.seqs[r].cached <= b.seqs[r].computed
             /\ NumPages(b.seqs[r]) <= Len(b.seqs[r].table)
<1> DEFINE a == AllocateDense(s, r)
           c == Max({a.seqs[r].computed, a.seqs[r].cached})
           b == SkipCached(a, r)
<1>1. Shaped(s) /\ IsSequence(r, s.seqs[r])
  BY DEF Valid, Shaped
<1>2. /\ Touches(s, a, r) /\ a.cpuFree = s.cpuFree /\ a.seqs[r].cpuTable = s.seqs[r].cpuTable
      /\ Len(a.seqs[r].table) = NumPages(s.seqs[r])
  BY <1>1, AllocateTouches
<1>p. PagesOK(a)
  BY <1>1, AllocatePages DEF Valid
<1> HIDE DEF a
<1>3. Shaped(a) /\ a.seqs[r].computed \in Nat /\ a.seqs[r].cached \in Nat
  BY <1>2 DEF Touches, Shaped, IsSequence
<1>4. c \in Nat /\ c >= a.seqs[r].cached
  <2>1. a.seqs[r].computed \in Int /\ a.seqs[r].cached \in Int
    BY <1>3
  <2> QED BY <1>3, <2>1, MaxOfTwo
<1>5. b = Advanced(a, r, c)
  BY DEF SkipCached, Advanced
<1> HIDE DEF c
<1>6. /\ Touches(a, b, r) /\ b.cpuFree = a.cpuFree
      /\ b.seqs[r].computed = c /\ b.seqs[r].cached = a.seqs[r].cached
      /\ b.seqs[r].table = a.seqs[r].table /\ b.seqs[r].cpuTable = a.seqs[r].cpuTable
      /\ SamePages(a, b)
  BY <1>3, <1>4, <1>5, FrontierChange
<1> HIDE DEF b
<1>7. NumPages(b.seqs[r]) <= Len(b.seqs[r].table)
  <2>1. b.seqs[r].tokens = s.seqs[r].tokens
    BY <1>2, <1>6 DEF Touches
  <2>2. NumPages(b.seqs[r]) = NumPages(s.seqs[r])
    BY <2>1 DEF NumPages
  <2>3. NumPages(s.seqs[r]) \in Nat
    <3>1. Len(s.seqs[r].tokens) \in Nat
      BY <1>1, LenProperties DEF IsSequence
    <3> QED BY <3>1, PagesMonotone DEF NumPages
  <2> QED BY <1>2, <1>6, <2>2, <2>3
<1>9. PagesOK(b)
  BY <1>p, <1>6, PagesKept
<1>8. Touches(s, b, r)
  BY <1>2, <1>6, TouchesTwice
<1> QED BY <1>2, <1>4, <1>6, <1>7, <1>8, <1>9 DEF b, a

\* The head of the waiting queue is admitted, or its pages are given back and planning fails.
AdmittedOK(s, t, r) ==
  /\ Valid(t, {}) /\ Len(t.running) = Len(s.running) + 1
  /\ t.seqs[r].status = "prefilling" /\ t.seqs[r].cached <= t.seqs[r].computed
  /\ t.fault = s.fault
  /\ \A q \in Requests : q # r => t.seqs[q] = s.seqs[q]

RefusedOK(s, t, r) ==
  /\ Valid(t, {}) /\ t.running = s.running
  /\ t.seqs[r].status = "waiting" /\ t.fault # "none"
  /\ \A q \in Requests : q # r => t.seqs[q] = s.seqs[q]

LEMMA HeadWaits ==
  ASSUME NEW s, Valid(s, {}), s.waiting # <<>>
  PROVE  /\ Head(s.waiting) \in Requests /\ s.seqs[Head(s.waiting)].status = "waiting"
         /\ s.seqs[Head(s.waiting)].table = <<>>
         /\ Queue(Tail(s.waiting), Range(s.waiting) \ {Head(s.waiting)})
<1>1. Queue(s.waiting, Having(s, {"waiting"}))
  BY DEF Valid, QueuesOK
<1>2. s.waiting \in Seq(Requests) /\ IsInjective(s.waiting)
  BY <1>1 DEF Queue
<1>3. /\ Head(s.waiting) \in Range(s.waiting) /\ Tail(s.waiting) \in Seq(Requests)
      /\ Range(Tail(s.waiting)) = Range(s.waiting) \ {Head(s.waiting)}
      /\ IsInjective(Tail(s.waiting))
  BY <1>2, PopLeftProperties
<1> DEFINE r == Head(s.waiting)
<1>4. r \in Requests /\ s.seqs[r].status = "waiting"
  BY <1>1, <1>3 DEF Queue, Having
<1>5. s.seqs[r].table = <<>>
  BY <1>4 DEF Valid, SequenceOK
<1> QED BY <1>1, <1>3, <1>4, <1>5 DEF Queue

LEMMA AdmittedValid ==
  ASSUME NEW s, Valid(s, {}), s.waiting # <<>>, NEW r, r = Head(s.waiting), CanAllocate(s, r)
  PROVE  AdmittedOK(s, Admitted(SkipCached(AllocateDense(s, r), r), r), r)
<1> DEFINE b == SkipCached(AllocateDense(s, r), r)
           x == Transition(b, r, "prefilling")
           t == Requeue(x, Tail(x.waiting), Append(x.running, r), x.swapped, x.consecutive, x.fault)
<1>1. /\ r \in Requests /\ s.seqs[r].status = "waiting" /\ s.seqs[r].table = <<>>
      /\ Queue(Tail(s.waiting), Range(s.waiting) \ {r})
  BY HeadWaits
<1>2. /\ Touches(s, b, r) /\ PagesOK(b)
      /\ b.cpuFree = s.cpuFree /\ b.seqs[r].cpuTable = s.seqs[r].cpuTable
      /\ b.seqs[r].cached <= b.seqs[r].computed
      /\ NumPages(b.seqs[r]) <= Len(b.seqs[r].table)
  BY <1>1, StartedTouches
<1> HIDE DEF b
<1>3. /\ Shaped(b) /\ "prefilling" \in Statuses
      /\ Lifecycle!MayMove(b.seqs[r].status, "prefilling")
  <2>1. b.seqs[r].status = "waiting" /\ Shaped(b)
    BY <1>1, <1>2 DEF Touches
  <2> QED BY <2>1, Edges DEF Statuses, Lifecycle!LiveStates
<1>4. /\ Shaped(x) /\ x.waiting = b.waiting /\ x.running = b.running /\ x.swapped = b.swapped
      /\ x.fault = b.fault /\ x.cpuFree = b.cpuFree
      /\ \A q \in Requests : q # r => x.seqs[q] = b.seqs[q]
      /\ x.seqs[r].status = "prefilling"
      /\ x.seqs[r].cached = b.seqs[r].cached /\ x.seqs[r].computed = b.seqs[r].computed
      /\ x.seqs[r].table = b.seqs[r].table /\ x.seqs[r].cpuTable = b.seqs[r].cpuTable
      /\ x.seqs[r].tokens = b.seqs[r].tokens /\ SamePages(b, x)
  <2> DEFINE target == "prefilling"
  <2>1. target \in Statuses /\ Lifecycle!MayMove(b.seqs[r].status, target)
    BY <1>3
  <2>2. x = Transition(b, r, target)
    BY DEF x
  <2> HIDE DEF target, x
  <2>3. Transitioned(b, x, r, target)
    BY <1>1, <1>3, <2>1, <2>2, TransitionResult
  <2>4. target = "prefilling"
    BY DEF target
  <2> QED BY <2>3, <2>4 DEF Transitioned
<1> HIDE DEF x
<1>5. [x EXCEPT !.waiting = Tail(@), !.running = Append(@, r)] = t
  BY <1>4 DEF Shaped, Requeue
<1>6. Requeued(x, t, Tail(x.waiting), Append(x.running, r), x.swapped, x.consecutive, x.fault)
  BY <1>4, RequeueFields
<1> HIDE DEF t
<1>7. /\ Shaped(t) /\ t.seqs = x.seqs /\ t.pool = x.pool
      /\ t.cpuFree = s.cpuFree /\ t.fault = s.fault
      /\ t.waiting = Tail(s.waiting) /\ t.running = Append(s.running, r) /\ t.swapped = s.swapped
      /\ \A q \in Requests : q # r => t.seqs[q] = s.seqs[q]
  BY <1>2, <1>4, <1>6 DEF Requeued, Touches
<1>8. CpuOK(t)
  BY <1>2, <1>4, <1>7, CpuKept DEF Valid
<1>p. PagesOK(t)
  <2>1. PagesOK(x)
    BY <1>2, <1>4, PagesKept
  <2> QED BY <1>4, <1>7, <2>1, RequeuedPages
<1>9. SequenceOK(t.seqs[r])
  <2>1. s.seqs[r].cpuTable = <<>>
    BY <1>1 DEF SequenceOK, Valid
  <2> DEFINE q == t.seqs[r]
  <2>2. /\ q.status = "prefilling" /\ q.cpuTable = <<>>
        /\ q.cached <= q.computed /\ NumPages(q) <= Len(q.table)
    <3>1. q = x.seqs[r]
      BY <1>7
    <3> HIDE DEF q
    <3>4. NumPages(q) = NumPages(b.seqs[r])
      BY <1>4, <3>1 DEF NumPages
    <3>2. q.status = "prefilling" /\ q.cpuTable = b.seqs[r].cpuTable
      BY <1>4, <3>1
    <3>3. q.cached = b.seqs[r].cached /\ q.computed = b.seqs[r].computed /\ q.table = b.seqs[r].table
      BY <1>4, <3>1
    <3> QED BY <1>2, <2>1, <3>2, <3>3, <3>4
  <2> HIDE DEF q
  <2>3. SequenceOK(q)
    BY <2>2 DEF SequenceOK
  <2> QED BY <2>3 DEF q
<1>10. OnlyMoves(s, t, r)
  <2>1. \A q \in Requests : q # r => t.seqs[q].status = s.seqs[q].status
    BY <1>7
  <2> QED BY <1>1, <2>1, HavingMoves
<1>11. /\ Having(t, {"waiting"}) = Having(s, {"waiting"}) \ {r}
       /\ Having(t, {"swapped"}) = Having(s, {"swapped"}) \ {r}
       /\ Having(t, {"prefilling", "decoding"}) = Having(s, {"prefilling", "decoding"}) \cup {r}
  <2>1. t.seqs[r].status = "prefilling"
    BY <1>4, <1>7
  <2> QED BY <1>10, <2>1 DEF OnlyMoves
<1>12. r \notin Having(s, {"swapped"}) /\ r \notin Having(s, {"prefilling", "decoding"})
  BY <1>1 DEF Having
<1>13. /\ Queue(s.waiting, Having(s, {"waiting"})) /\ Queue(s.swapped, Having(s, {"swapped"}))
       /\ Queue(s.running, Having(s, {"prefilling", "decoding"}))
  BY DEF Valid, QueuesOK, Queue
<1>14. /\ Queue(Append(s.running, r), Having(s, {"prefilling", "decoding"}) \cup {r})
       /\ Len(Append(s.running, r)) = Len(s.running) + 1
  BY <1>1, <1>12, <1>13, AppendNewProperties DEF Queue
<1>15. QueuesOK(t, {})
  <2>1. /\ Having(t, {"waiting"}) = Range(s.waiting) \ {r}
        /\ Having(t, {"swapped"}) = Having(s, {"swapped"})
        /\ Having(t, {"prefilling", "decoding"}) \ {} = Having(s, {"prefilling", "decoding"}) \cup {r}
    BY <1>11, <1>12, <1>13 DEF Queue
  <2> QED BY <1>1, <1>7, <1>13, <1>14, <2>1, Zenon DEF QueuesOK
<1>16. Valid(t, {})
  BY <1>1, <1>7, <1>8, <1>p, <1>9, <1>15, ValidMove
<1>17. AdmittedOK(s, t, r)
  BY <1>2, <1>4, <1>7, <1>14, <1>16 DEF AdmittedOK
<1> QED BY <1>5, <1>17, Zenon DEF Admitted, t, x, b

LEMMA RefusedValid ==
  ASSUME NEW s, Valid(s, {}), s.waiting # <<>>, NEW r, r = Head(s.waiting), CanAllocate(s, r)
  PROVE  RefusedOK(s, Raise(DeallocateSequence(SkipCached(AllocateDense(s, r), r), r), FullyCached), r)
<1> DEFINE b == SkipCached(AllocateDense(s, r), r)
           x == DeallocateSequence(b, r)
           t == Raise(x, FullyCached)
<1>1. r \in Requests /\ s.seqs[r].status = "waiting" /\ s.seqs[r].table = <<>>
  BY HeadWaits
<1>2. /\ Touches(s, b, r) /\ PagesOK(b)
      /\ b.cpuFree = s.cpuFree /\ b.seqs[r].cpuTable = s.seqs[r].cpuTable
  BY <1>1, StartedTouches
<1> HIDE DEF b
<1>3. /\ Touches(b, x, r) /\ x.cpuFree = b.cpuFree \o b.seqs[r].cpuTable
      /\ x.seqs[r].cpuTable = <<>> /\ x.seqs[r].table = <<>> /\ PagesOK(x)
  <2>1. Shaped(b)
    BY <1>2 DEF Touches
  <2> QED BY <1>1, <1>2, <2>1, DeallocateTouches, DeallocatePages
<1> HIDE DEF x
<1>4. /\ Touches(s, x, r) /\ x.cpuFree = s.cpuFree \o s.seqs[r].cpuTable
      /\ x.seqs[r].status = "waiting"
  <2>1. Touches(s, x, r)
    BY <1>1, <1>2, <1>3, TouchesTwice
  <2>2. x.cpuFree = s.cpuFree \o s.seqs[r].cpuTable
    BY <1>2, <1>3
  <2>3. x.seqs[r].status = s.seqs[r].status
    BY <2>1 DEF Touches
  <2> QED BY <1>1, <2>1, <2>2, <2>3
<1>5. CpuOK(x)
  <2>1. Shaped(s) /\ CpuOK(s) /\ \A q \in Requests : q # r => x.seqs[q].cpuTable = s.seqs[q].cpuTable
    BY <1>4 DEF Valid, Touches
  <2> QED BY <1>1, <1>3, <1>4, <2>1, CpuReturned
<1>6. SequenceOK(x.seqs[r])
  BY <1>3, <1>4 DEF SequenceOK
<1>7. Valid(x, {})
  BY <1>1, <1>3, <1>4, <1>5, <1>6, TouchValid
<1>8. /\ Valid(t, {}) /\ t.running = x.running /\ t.seqs = x.seqs /\ t.fault # "none"
  BY <1>7, RaiseValid DEF FullyCached, BadTransition, LatePrefill
<1> HIDE DEF t
<1>9. RefusedOK(s, t, r)
  BY <1>4, <1>8 DEF RefusedOK, Touches
<1> QED BY <1>9 DEF t, x, b

\* The batches counter is no part of Valid.
LEMMA CountValid ==
  ASSUME NEW s, NEW out, Valid(s, out), NEW c \in Nat
  PROVE  LET t == Requeue(s, s.waiting, s.running, s.swapped, c, s.fault)
         IN  /\ Valid(t, out) /\ t.running = s.running /\ t.seqs = s.seqs /\ t.fault = s.fault
             /\ t.consecutive = c
<1> DEFINE t == Requeue(s, s.waiting, s.running, s.swapped, c, s.fault)
<1>1. Shaped(s)
  BY DEF Valid
<1>2. Requeued(s, t, s.waiting, s.running, s.swapped, c, s.fault)
  BY <1>1, RecountFields
<1> HIDE DEF t
<1>3. /\ Shaped(t) /\ t.seqs = s.seqs /\ t.pool = s.pool
      /\ t.cpuFree = s.cpuFree /\ t.fault = s.fault
      /\ t.waiting = s.waiting /\ t.running = s.running /\ t.swapped = s.swapped
      /\ t.consecutive = c
  BY <1>2 DEF Requeued
<1>4. CpuOK(t)
  BY <1>3, CpuKept DEF Valid
<1>p. PagesOK(t)
  BY <1>3, RequeuedPages DEF Valid
<1>5. \A S : Having(t, S) = Having(s, S)
  BY <1>3 DEF Having
<1>6. QueuesOK(t, out)
  BY <1>3, <1>5 DEF Valid, QueuesOK
<1>7. Valid(t, out)
  BY <1>3, <1>4, <1>p, <1>6 DEF Valid
<1> QED BY <1>3, <1>7 DEF t

\* Prefill planning moves waiting requests to prefilling and touches no other.
Admits(s, t) ==
  \A r \in Requests :
    \/ t.seqs[r] = s.seqs[r]
    \/ s.seqs[r].status = "waiting" /\ t.seqs[r].status \in {"waiting", "prefilling"}

\* What holds between the turns of admission that start from s.
Admitting(s, acc) ==
  /\ acc \in [s : {acc.s}, batch : {acc.batch}]
  /\ Valid(acc.s, {}) /\ BatchOK(acc.s, acc.batch) /\ Len(acc.s.running) <= MaxNumSeqs
  /\ Admits(s, acc.s)
  /\ acc.batch.seqs = <<>> /\ acc.s.fault = "none" => acc.s = s

LEMMA NumSeqsNat ==
  ASSUME config \in Configs
  PROVE  MaxNumSeqs \in Nat /\ MaxBatchedTokens \in Nat /\ NumCpuBlocks \in Nat
  BY SchedulerAssumption, ManagerAssumption DEF MaxNumSeqs, MaxBatchedTokens, NumCpuBlocks

LEMMA AdmitTurnAdmits ==
  ASSUME config \in Configs, NEW s, NEW acc, Admitting(s, acc)
  PROVE  Admitting(s, AdmitTurn(acc))
<1>1. CASE ~Admissible(acc)
  BY <1>1 DEF AdmitTurn
<1>2. CASE Admissible(acc)
  <2> DEFINE r == Head(acc.s.waiting)
             b == SkipCached(AllocateDense(acc.s, r), r)
             c == Admitted(b, r)
             e == Raise(DeallocateSequence(b, r), FullyCached)
             available == Available(acc.batch)
             count == PrefillTokenCount(c, r, available)
             next == AddSlice(acc.batch, c, r, count)
             t == AdmitTurn(acc)
  <2>1. /\ Valid(acc.s, {}) /\ acc.s.waiting # <<>> /\ Len(acc.s.running) < MaxNumSeqs
        /\ CanAllocate(acc.s, r)
    BY <1>2 DEF Admissible, Admitting
  <2>2. r \in Requests /\ acc.s.seqs[r].status = "waiting"
    BY <2>1, HeadWaits
  <2>3. AdmittedOK(acc.s, c, r)
    BY <2>1, AdmittedValid
  <2>4. RefusedOK(acc.s, e, r)
    BY <2>1, RefusedValid
  <2>5. t = IF count = 0 THEN [acc EXCEPT !.s = e] ELSE [s |-> c, batch |-> next]
    BY <1>2 DEF AdmitTurn, AllocateWaiting, AdmitAllocated, AdmitSlice
  <2>6. available \in Int
    BY NumSeqsNat DEF Available, Admitting, BatchOK
  <2>7. Len(acc.s.running) \in Nat
    BY <2>1, LenProperties DEF Valid, QueuesOK, Queue
  <2> HIDE DEF b, c, e, available, t, r
  <2>8. CASE count = 0
    <3>1. t \in [s : {t.s}, batch : {t.batch}] /\ t.s = e /\ t.batch = acc.batch
      BY <2>5, <2>8 DEF Admitting
    <3>2. /\ Valid(e, {}) /\ e.running = acc.s.running /\ e.seqs[r].status = "waiting"
          /\ e.fault # "none" /\ \A q \in Requests : q # r => e.seqs[q] = acc.s.seqs[q]
      BY <2>4 DEF RefusedOK
    <3>3. BatchOK(e, acc.batch)
      <4>1. \A q \in Requests : acc.s.seqs[q].status = "prefilling" => e.seqs[q] = acc.s.seqs[q]
        BY <2>2, <3>2
      <4>2. SlicesOK(acc.s, acc.batch.seqs, acc.batch.slices) /\ acc.batch.tokens \in Nat
        BY DEF Admitting, BatchOK
      <4>3. SlicesOK(e, acc.batch.seqs, acc.batch.slices)
        BY <4>1, <4>2, SlicesKept
      <4> QED BY <4>2, <4>3 DEF BatchOK
    <3>4. Admits(s, e)
      BY <2>2, <3>2 DEF Admitting, Admits
    <3>5. Len(e.running) <= MaxNumSeqs
      BY <3>2 DEF Admitting
    <3>6. Admitting(s, t)
      BY <3>1, <3>2, <3>3, <3>4, <3>5 DEF Admitting
    <3> QED BY <3>6 DEF t
  <2>9. CASE count # 0
    <3>1. t \in [s : {t.s}, batch : {t.batch}] /\ t.s = c /\ t.batch = next
      BY <2>5, <2>9
    <3>2. /\ Valid(c, {}) /\ Len(c.running) = Len(acc.s.running) + 1
          /\ c.seqs[r].status = "prefilling" /\ c.seqs[r].cached <= c.seqs[r].computed
          /\ \A q \in Requests : q # r => c.seqs[q] = acc.s.seqs[q]
      BY <2>3 DEF AdmittedOK
    <3>3. BatchOK(c, acc.batch)
      <4>1. \A q \in Requests : acc.s.seqs[q].status = "prefilling" => c.seqs[q] = acc.s.seqs[q]
        BY <2>2, <3>2
      <4>2. SlicesOK(acc.s, acc.batch.seqs, acc.batch.slices) /\ acc.batch.tokens \in Nat
        BY DEF Admitting, BatchOK
      <4>3. SlicesOK(c, acc.batch.seqs, acc.batch.slices)
        BY <4>1, <4>2, SlicesKept
      <4> QED BY <4>2, <4>3 DEF BatchOK
    <3>4. r \notin Range(acc.batch.seqs)
      <4>1. \A k \in DOMAIN acc.batch.seqs : acc.s.seqs[acc.batch.seqs[k]].status = "prefilling"
        BY LenProperties DEF Admitting, BatchOK, SlicesOK
      <4> QED BY <2>2, <4>1 DEF Range
    <3>5. Shaped(c)
      BY <3>2 DEF Valid
    <3>6. Extends(c, acc.batch, next, r)
      BY <2>2, <2>6, <2>9, <3>2, <3>3, <3>4, <3>5, SliceAdded
    <3> HIDE DEF next, count
    <3>7. Admits(s, c)
      BY <2>2, <3>2 DEF Admitting, Admits
    <3>8. Len(c.running) <= MaxNumSeqs
      BY <2>1, <2>7, <3>2, NumSeqsNat
    <3>9. Admitting(s, t)
      BY <3>1, <3>2, <3>6, <3>7, <3>8 DEF Admitting, Extends
    <3> QED BY <3>9 DEF t
  <2> QED BY <2>8, <2>9
<1> QED BY <1>1, <1>2

\* The turns of _admit_waiting_prefills.
AdmitTurns(f, s, batch, n) ==
  /\ f[0] = [s |-> s, batch |-> batch]
  /\ \A k \in 1 .. n : f[k] = AdmitTurn(f[k - 1])
  /\ AdmitWaiting(s, batch) = f[n]

LEMMA AdmitTurnsExist ==
  ASSUME NEW s, NEW batch, NEW n \in Nat, n = Len(s.waiting)
  PROVE  \E f : AdmitTurns(f, s, batch, n)
<1> DEFINE Step(f, k) == IF k = 0 THEN [s |-> s, batch |-> batch] ELSE AdmitTurn(f[k - 1])
           N == {m \in Nat : \E f : f = [k \in 0 .. m |-> Step(f, k)]}
           F == CHOOSE f : f = [k \in 0 .. n |-> Step(f, k)]
<1>1. 0 \in N
  <2> DEFINE g == [k \in 0 .. 0 |-> [s |-> s, batch |-> batch]]
  <2>1. g = [k \in 0 .. 0 |-> Step(g, k)]
    OBVIOUS
  <2> HIDE DEF g
  <2>2. \E f : f = [k \in 0 .. 0 |-> Step(f, k)]
    BY <2>1
  <2> QED BY <2>2
<1>2. ASSUME NEW m \in Nat, m \in N PROVE m + 1 \in N
  <2>1. PICK g : g = [k \in 0 .. m |-> Step(g, k)]
    BY <1>2
  <2> DEFINE h == [k \in 0 .. m + 1 |-> IF k = m + 1 THEN Step(g, m + 1) ELSE g[k]]
  <2>2. ASSUME NEW k \in 0 .. m + 1 PROVE h[k] = Step(h, k)
    <3>1. k # 0 => k - 1 \in 0 .. m /\ h[k - 1] = g[k - 1]
      OBVIOUS
    <3>2. k # m + 1 => g[k] = Step(g, k)
      <4>1. k # m + 1 => k \in 0 .. m
        OBVIOUS
      <4> QED BY <2>1, <4>1
    <3>3. h[k] = Step(g, k)
      BY <3>2
    <3> QED BY <3>1, <3>3
  <2>3. h = [k \in 0 .. m + 1 |-> Step(h, k)]
    BY <2>2
  <2> HIDE DEF h
  <2>4. \E f : f = [k \in 0 .. m + 1 |-> Step(f, k)]
    BY <2>3
  <2> QED BY <2>4
<1>3. n \in N
  <2> HIDE DEF N
  <2> QED BY <1>1, <1>2, NatSetInduction
<1>4. F = [k \in 0 .. n |-> Step(F, k)]
  BY <1>3
<1>5. AdmitWaiting(s, batch) = F[n]
  BY DEF AdmitWaiting
<1> HIDE DEF F
<1>6. F[0] = [s |-> s, batch |-> batch] /\ \A k \in 1 .. n : F[k] = AdmitTurn(F[k - 1])
  <2>1. \A k \in 0 .. n : F[k] = Step(F, k)
    BY <1>4
  <2>2. 0 \in 0 .. n /\ \A k \in 1 .. n : k \in 0 .. n
    OBVIOUS
  <2>3. F[0] = Step(F, 0)
    BY <2>1, <2>2
  <2> QED BY <2>1, <2>2, <2>3
<1> QED BY <1>5, <1>6 DEF AdmitTurns

LEMMA AdmitWaitingAdmits ==
  ASSUME config \in Configs, NEW s, Valid(s, {}), Len(s.running) <= MaxNumSeqs,
         NEW batch, BatchOK(s, batch)
  PROVE  Admitting(s, AdmitWaiting(s, batch))
<1> DEFINE n == Len(s.waiting)
<1>1. n \in Nat
  BY LenProperties DEF Valid, QueuesOK, Queue
<1>2. PICK f : AdmitTurns(f, s, batch, n)
  BY <1>1, AdmitTurnsExist
<1>3. /\ f[0] = [s |-> s, batch |-> batch]
      /\ \A k \in 1 .. n : f[k] = AdmitTurn(f[k - 1])
      /\ AdmitWaiting(s, batch) = f[n]
  BY <1>2 DEF AdmitTurns
<1> DEFINE N == {m \in Nat : m <= n => Admitting(s, f[m])}
<1> HIDE DEF n
<1>4. 0 \in N
  <2>1. Admits(s, s)
    BY DEF Admits
  <2>2. f[0] \in [s : {f[0].s}, batch : {f[0].batch}] /\ f[0].s = s /\ f[0].batch = batch
    BY <1>3
  <2> QED BY <2>1, <2>2 DEF Admitting
<1>5. ASSUME NEW m \in Nat, m \in N PROVE m + 1 \in N
  <2> SUFFICES ASSUME m + 1 <= n PROVE Admitting(s, f[m + 1])
    OBVIOUS
  <2>1. m + 1 \in 1 .. n /\ (m + 1) - 1 = m /\ Admitting(s, f[m])
    BY <1>1, <1>5
  <2>2. f[m + 1] = AdmitTurn(f[m])
    BY <1>3, <2>1
  <2> QED BY <2>1, <2>2, AdmitTurnAdmits
<1>6. \A m \in Nat : m \in N
  <2> HIDE DEF N
  <2> QED BY <1>4, <1>5, NatSetInduction
<1>7. Admitting(s, f[n])
  <2>1. n \in N /\ n <= n
    <3> HIDE DEF N
    <3> QED BY <1>1, <1>6
  <2> QED BY <2>1
<1> QED BY <1>3, <1>7

\* What _prefill_plan leaves behind.
PrefillPlanned(s, p) ==
  /\ Valid(p.s, {}) /\ Len(p.s.running) <= MaxNumSeqs /\ Admits(s, p.s)
  /\ \/ p.plan = NoPlan
     \/ p.plan.phase = "prefill" /\ SlicesOK(p.s, p.plan.seqs, p.plan.slices)
  /\ p.plan = NoPlan /\ p.s.fault = "none" => p.s = s

LEMMA PrefillPlanValid ==
  ASSUME config \in Configs, NEW s, Valid(s, {}), Len(s.running) <= MaxNumSeqs
  PROVE  PrefillPlanned(s, PrefillPlan(s))
<1> DEFINE done == AdmitWaiting(s, CollectRunning(s))
           p == RecordPrefillPlan(done)
<1>1. Admitting(s, done)
  BY CollectValid, AdmitWaitingAdmits
<1> HIDE DEF done
<1>2. /\ Valid(done.s, {}) /\ Len(done.s.running) <= MaxNumSeqs /\ Admits(s, done.s)
      /\ SlicesOK(done.s, done.batch.seqs, done.batch.slices)
      /\ done.batch.seqs = <<>> /\ done.s.fault = "none" => done.s = s
  BY <1>1 DEF Admitting, BatchOK
<1>3. CASE done.batch.seqs = <<>>
  <2>1. p.s = done.s /\ p.plan = NoPlan
    BY <1>3 DEF RecordPrefillPlan, Unplanned
  <2> HIDE DEF p
  <2>2. PrefillPlanned(s, p)
    BY <1>2, <1>3, <2>1 DEF PrefillPlanned
  <2> QED BY <2>2 DEF p, done, PrefillPlan
<1>4. CASE done.batch.seqs # <<>>
  <2> DEFINE t == Requeue(done.s, done.s.waiting, done.s.running, done.s.swapped,
                          done.s.consecutive + 1, done.s.fault)
             plan1 == [phase |-> "prefill", seqs |-> done.batch.seqs, slices |-> done.batch.slices]
  <2>1. [done.s EXCEPT !.consecutive = @ + 1] = t
    BY <1>2 DEF Valid, Shaped, Requeue
  <2>2. Valid(t, {}) /\ t.running = done.s.running /\ t.seqs = done.s.seqs
    <3>1. done.s.consecutive + 1 \in Nat
      BY <1>2 DEF Valid, Shaped
    <3> QED BY <1>2, <3>1, CountValid, ZenonT(30)
  <2>3. p.s = t /\ p.plan = plan1
    BY <1>4, <2>1 DEF RecordPrefillPlan
  <2> HIDE DEF t, p
  <2>4. p.plan.phase = "prefill" /\ p.plan.seqs = done.batch.seqs
        /\ p.plan.slices = done.batch.slices
    BY <2>3
  <2>5. SlicesOK(t, done.batch.seqs, done.batch.slices)
    BY <1>2, <2>2 DEF SlicesOK
  <2>6. p.plan # NoPlan
    <3>1. NoPlan.phase = "none"
      BY DEF NoPlan
    <3> QED BY <2>4, <3>1
  <2>7. Admits(s, t)
    BY <1>2, <2>2 DEF Admits
  <2>8. PrefillPlanned(s, p)
    <3>1. Len(t.running) <= MaxNumSeqs
      BY <1>2, <2>2
    <3>2. SlicesOK(t, p.plan.seqs, p.plan.slices)
      BY <2>4, <2>5
    <3> QED BY <2>2, <2>3, <2>4, <2>6, <2>7, <3>1, <3>2 DEF PrefillPlanned
  <2> QED BY <2>8 DEF p, done, PrefillPlan
<1> QED BY <1>3, <1>4

-----------------------------------------------------------------------------
(* Decode planning.                                                          *)

\* A plan next to a paused prefill changes no state; any other one moves only decoding
\* and swapped requests.
Stays(s, t) ==
  \A r \in Requests :
    /\ t.seqs[r].status = s.seqs[r].status
    /\ s.seqs[r].status # "decoding" => t.seqs[r] = s.seqs[r]

Reschedules(s, t) ==
  \A r \in Requests :
    IF s.seqs[r].status \in {"decoding", "swapped"}
    THEN t.seqs[r].status \in {"decoding", "swapped", "waiting"}
    ELSE t.seqs[r] = s.seqs[r]

Plans(s, t, resident) == IF resident THEN Stays(s, t) ELSE Reschedules(s, t)

LEMMA PlansCompose ==
  ASSUME NEW s, NEW t, NEW u, NEW resident
  PROVE  /\ Plans(s, s, resident)
         /\ Plans(s, t, resident) /\ Plans(t, u, resident) => Plans(s, u, resident)
         /\ Stays(s, t) => Plans(s, t, resident)
<1>1. Stays(s, s) /\ (Stays(s, t) /\ Stays(t, u) => Stays(s, u)) /\ (Stays(s, t) => Reschedules(s, t))
  BY DEF Stays, Reschedules
<1>2. Reschedules(s, t) /\ Reschedules(t, u) => Reschedules(s, u)
  BY DEF Reschedules
<1>3. Reschedules(s, s)
  BY DEF Reschedules
<1> QED BY <1>1, <1>2, <1>3 DEF Plans

\* The bookkeeping of decode planning.
IsTurns(acc) ==
  acc \in [s : {acc.s}, swapIn : {acc.swapIn}, swapOut : {acc.swapOut}, cow : {acc.cow},
           scheduled : {acc.scheduled}, cands : {acc.cands}]

\* The head of the swapped queue comes back.
ResumedOK(s, t) ==
  Valid(t, {}) /\ Len(t.running) = Len(s.running) + 1 /\ Reschedules(s, t)

LEMMA SwapInValid ==
  ASSUME NEW s, Valid(s, {}), s.swapped # <<>>, NEW r, r = Head(s.swapped), CanSwapIn(s, r)
  PROVE  ResumedOK(s, [Transition(SwapIn(s, r), r, "decoding")
                         EXCEPT !.swapped = Tail(@), !.running = Append(@, r)])
<1> DEFINE b == SwapIn(s, r)
           x == Transition(b, r, "decoding")
           t == Requeue(x, x.waiting, Append(x.running, r), Tail(x.swapped), x.consecutive, x.fault)
<1>1. /\ Queue(s.waiting, Having(s, {"waiting"})) /\ Queue(s.swapped, Having(s, {"swapped"}))
      /\ Queue(s.running, Having(s, {"prefilling", "decoding"}))
  BY DEF Valid, QueuesOK, Queue
<1>2. /\ r \in Range(s.swapped) /\ Tail(s.swapped) \in Seq(Requests)
      /\ Range(Tail(s.swapped)) = Range(s.swapped) \ {r} /\ IsInjective(Tail(s.swapped))
  BY <1>1, PopLeftProperties DEF Queue
<1>3. r \in Requests /\ s.seqs[r].status = "swapped" /\ Shaped(s) /\ CpuOK(s)
  BY <1>1, <1>2 DEF Queue, Having, Valid
<1>c. s.seqs[r].table = <<>> /\ Pages(Len(s.seqs[r].tokens) - 1) <= Len(s.seqs[r].cpuTable)
  BY <1>3 DEF SequenceOK, Valid
<1>4. /\ Touches(s, b, r) /\ b.cpuFree = s.cpuFree \o s.seqs[r].cpuTable
      /\ b.seqs[r].cpuTable = <<>>
      /\ PagesOK(b) /\ Len(b.seqs[r].table) = Len(s.seqs[r].cpuTable)
  BY <1>3, <1>c, SwapInTouches, SwapInPages DEF Valid
<1> HIDE DEF b
<1>5. /\ Shaped(b) /\ "decoding" \in Statuses
      /\ Lifecycle!MayMove(b.seqs[r].status, "decoding")
  <2>1. b.seqs[r].status = "swapped" /\ Shaped(b)
    BY <1>3, <1>4 DEF Touches
  <2> QED BY <2>1, Edges DEF Statuses, Lifecycle!LiveStates
<1>6. /\ Shaped(x) /\ x.waiting = b.waiting /\ x.running = b.running /\ x.swapped = b.swapped
      /\ x.fault = b.fault /\ x.cpuFree = b.cpuFree
      /\ \A q \in Requests : q # r => x.seqs[q] = b.seqs[q]
      /\ x.seqs[r].status = "decoding" /\ x.seqs[r].cpuTable = b.seqs[r].cpuTable
      /\ x.seqs[r].table = b.seqs[r].table /\ x.seqs[r].tokens = b.seqs[r].tokens
      /\ SamePages(b, x)
  BY <1>3, <1>5, TransitionFields, SMTT(30)
<1> HIDE DEF x
<1>7. [x EXCEPT !.swapped = Tail(@), !.running = Append(@, r)] = t
  BY <1>6 DEF Shaped, Requeue
<1>8. Requeued(x, t, x.waiting, Append(x.running, r), Tail(x.swapped), x.consecutive, x.fault)
  BY <1>6, RequeueFields
<1> HIDE DEF t
<1>9. /\ Shaped(t) /\ t.seqs = x.seqs /\ t.fault = s.fault
      /\ t.cpuFree = s.cpuFree \o s.seqs[r].cpuTable
      /\ t.waiting = s.waiting /\ t.running = Append(s.running, r) /\ t.swapped = Tail(s.swapped)
      /\ \A q \in Requests : q # r => t.seqs[q] = s.seqs[q]
      /\ t.seqs[r].status = "decoding" /\ t.seqs[r].cpuTable = <<>> /\ t.pool = x.pool
  <2>1. /\ Shaped(t) /\ t.seqs = x.seqs /\ t.fault = x.fault /\ t.cpuFree = x.cpuFree
        /\ t.pool = x.pool
        /\ t.waiting = x.waiting /\ t.running = Append(x.running, r) /\ t.swapped = Tail(x.swapped)
    BY <1>8 DEF Requeued
  <2>2. /\ x.waiting = s.waiting /\ x.running = s.running /\ x.swapped = s.swapped
        /\ x.fault = s.fault /\ x.cpuFree = s.cpuFree \o s.seqs[r].cpuTable
    BY <1>4, <1>6, Zenon DEF Touches
  <2>3. \A q \in Requests : q # r => x.seqs[q] = s.seqs[q]
    BY <1>4, <1>6, Zenon DEF Touches
  <2> QED BY <1>4, <1>6, <2>1, <2>2, <2>3, Zenon
<1>10. CpuOK(t)
  BY <1>3, <1>9, CpuReturned, Zenon
<1>p. PagesOK(t)
  BY <1>4, <1>6, <1>9, PagesKept, RequeuedPages, Zenon
<1>11. SequenceOK(t.seqs[r])
  <2>1. Pages(Len(t.seqs[r].tokens) - 1) <= Len(t.seqs[r].table)
    BY <1>c, <1>4, <1>6, <1>9, Zenon DEF Touches
  <2> QED BY <1>9, <2>1 DEF SequenceOK
<1>12. OnlyMoves(s, t, r)
  <2>1. \A q \in Requests : q # r => t.seqs[q].status = s.seqs[q].status
    BY <1>9
  <2> QED BY <1>3, <2>1, HavingMoves
<1>13. /\ Having(t, {"waiting"}) = Having(s, {"waiting"}) \ {r}
       /\ Having(t, {"swapped"}) = Having(s, {"swapped"}) \ {r}
       /\ Having(t, {"prefilling", "decoding"}) = Having(s, {"prefilling", "decoding"}) \cup {r}
  BY <1>9, <1>12 DEF OnlyMoves
<1>14. r \notin Having(s, {"waiting"}) /\ r \notin Having(s, {"prefilling", "decoding"})
  BY <1>3 DEF Having
<1>15. /\ Queue(Append(s.running, r), Having(s, {"prefilling", "decoding"}) \cup {r})
       /\ Len(Append(s.running, r)) = Len(s.running) + 1
  BY <1>1, <1>3, <1>14, AppendNewProperties DEF Queue
<1>16. QueuesOK(t, {})
  <2>1. /\ Having(t, {"waiting"}) = Having(s, {"waiting"})
        /\ Having(t, {"swapped"}) = Range(s.swapped) \ {r}
        /\ Having(t, {"prefilling", "decoding"}) \ {} = Having(s, {"prefilling", "decoding"}) \cup {r}
    BY <1>1, <1>13, <1>14 DEF Queue
  <2>2. Queue(Tail(s.swapped), Range(s.swapped) \ {r})
    BY <1>2 DEF Queue
  <2> QED BY <1>1, <1>9, <1>15, <2>1, <2>2, Zenon DEF QueuesOK
<1>17. Valid(t, {})
  BY <1>3, <1>9, <1>10, <1>p, <1>11, <1>16, ValidMove
<1>18. Reschedules(s, t)
  BY <1>3, <1>9 DEF Reschedules
<1>19. ResumedOK(s, t)
  BY <1>9, <1>15, <1>17, <1>18 DEF ResumedOK
<1> QED BY <1>7, <1>19 DEF t, x, b

\* What holds between the turns of swapping in.
SwappingIn(s, acc) ==
  /\ IsTurns(acc) /\ acc.scheduled = <<>> /\ acc.cands = <<>>
  /\ Valid(acc.s, {}) /\ Len(acc.s.running) <= MaxNumSeqs
  /\ Reschedules(s, acc.s)

LEMMA SwapInHeadSwaps ==
  ASSUME config \in Configs, NEW s, NEW acc, SwappingIn(s, acc)
  PROVE  SwappingIn(s, SwapInHead(acc))
<1> DEFINE r == Head(acc.s.swapped)
           back == SwapIn(acc.s, r)
           x == [Transition(back, r, "decoding") EXCEPT !.swapped = Tail(@), !.running = Append(@, r)]
           t == SwapInHead(acc)
           goes == acc.s.swapped # <<>> /\ Len(acc.s.running) < MaxNumSeqs /\ CanSwapIn(acc.s, r)
<1>1. CASE ~goes
  BY <1>1 DEF SwapInHead
<1>2. CASE goes
  <2>1. /\ Valid(acc.s, {}) /\ acc.s.swapped # <<>> /\ Len(acc.s.running) < MaxNumSeqs
        /\ CanSwapIn(acc.s, r)
    BY <1>2 DEF SwappingIn
  <2>2. Valid(x, {}) /\ Len(x.running) = Len(acc.s.running) + 1 /\ Reschedules(acc.s, x)
    BY <2>1, SwapInValid, Zenon DEF ResumedOK
  <2>3. t = [acc EXCEPT !.s = x, !.swapIn = @ \o SwapInPairs(acc.s, back, r)]
    BY <1>2 DEF SwapInHead
  <2> HIDE DEF x, goes
  <2>4. IsTurns(t) /\ t.s = x /\ t.scheduled = acc.scheduled /\ t.cands = acc.cands
    BY <2>3 DEF SwappingIn, IsTurns
  <2>5. Len(acc.s.running) \in Nat
    BY <2>1, LenProperties DEF Valid, QueuesOK, Queue
  <2>6. Len(x.running) <= MaxNumSeqs
    BY <2>1, <2>2, <2>5, NumSeqsNat
  <2>7. Reschedules(s, x)
    <3>1. Plans(s, acc.s, FALSE) /\ Plans(acc.s, x, FALSE)
      BY <2>2 DEF Plans, SwappingIn
    <3>2. Plans(s, x, FALSE)
      BY <3>1, PlansCompose
    <3> QED BY <3>2 DEF Plans
  <2> HIDE DEF t
  <2>8. SwappingIn(s, t)
    BY <2>2, <2>4, <2>6, <2>7 DEF SwappingIn
  <2> QED BY <2>8 DEF t
<1> QED BY <1>1, <1>2

\* The turns of the swap-in loop.
SwapInTurns(f, s, n) ==
  /\ f[0] = NoTurns(s)
  /\ \A k \in 1 .. n : f[k] = SwapInHead(f[k - 1])
  /\ SwapInAll(s, FALSE) = f[n]

LEMMA SwapInTurnsExist ==
  ASSUME NEW s, NEW n \in Nat, n = Len(s.swapped)
  PROVE  \E f : SwapInTurns(f, s, n)
<1> DEFINE Step(f, k) == IF k = 0 THEN NoTurns(s) ELSE SwapInHead(f[k - 1])
           N == {m \in Nat : \E f : f = [k \in 0 .. m |-> Step(f, k)]}
           F == CHOOSE f : f = [k \in 0 .. n |-> Step(f, k)]
<1>1. 0 \in N
  <2> DEFINE g == [k \in 0 .. 0 |-> NoTurns(s)]
  <2>1. g = [k \in 0 .. 0 |-> Step(g, k)]
    OBVIOUS
  <2> HIDE DEF g
  <2>2. \E f : f = [k \in 0 .. 0 |-> Step(f, k)]
    BY <2>1
  <2> QED BY <2>2
<1>2. ASSUME NEW m \in Nat, m \in N PROVE m + 1 \in N
  <2>1. PICK g : g = [k \in 0 .. m |-> Step(g, k)]
    BY <1>2
  <2> DEFINE h == [k \in 0 .. m + 1 |-> IF k = m + 1 THEN Step(g, m + 1) ELSE g[k]]
  <2>2. ASSUME NEW k \in 0 .. m + 1 PROVE h[k] = Step(h, k)
    <3>1. k # 0 => k - 1 \in 0 .. m /\ h[k - 1] = g[k - 1]
      OBVIOUS
    <3>2. k # m + 1 => g[k] = Step(g, k)
      <4>1. k # m + 1 => k \in 0 .. m
        OBVIOUS
      <4> QED BY <2>1, <4>1
    <3>3. h[k] = Step(g, k)
      BY <3>2
    <3> QED BY <3>1, <3>3
  <2>3. h = [k \in 0 .. m + 1 |-> Step(h, k)]
    BY <2>2
  <2> HIDE DEF h
  <2>4. \E f : f = [k \in 0 .. m + 1 |-> Step(f, k)]
    BY <2>3
  <2> QED BY <2>4
<1>3. n \in N
  <2> HIDE DEF N
  <2> QED BY <1>1, <1>2, NatSetInduction
<1>4. F = [k \in 0 .. n |-> Step(F, k)]
  BY <1>3
<1>5. SwapInAll(s, FALSE) = F[n]
  BY DEF SwapInAll
<1> HIDE DEF F
<1>6. F[0] = NoTurns(s) /\ \A k \in 1 .. n : F[k] = SwapInHead(F[k - 1])
  <2>1. \A k \in 0 .. n : F[k] = Step(F, k)
    BY <1>4
  <2>2. 0 \in 0 .. n /\ \A k \in 1 .. n : k \in 0 .. n
    OBVIOUS
  <2>3. F[0] = Step(F, 0)
    BY <2>1, <2>2
  <2> QED BY <2>1, <2>2, <2>3
<1> QED BY <1>5, <1>6 DEF SwapInTurns

LEMMA SwapInAllSwaps ==
  ASSUME config \in Configs, NEW s, Valid(s, {}), Len(s.running) <= MaxNumSeqs,
         NEW resident \in BOOLEAN
  PROVE  LET acc == SwapInAll(s, resident)
         IN  SwappingIn(s, acc) /\ (resident => acc.s = s)
<1>1. SwappingIn(s, NoTurns(s)) /\ NoTurns(s).s = s
  <2>1. Reschedules(s, s)
    BY DEF Reschedules
  <2>2. /\ IsTurns(NoTurns(s)) /\ NoTurns(s).s = s
        /\ NoTurns(s).scheduled = <<>> /\ NoTurns(s).cands = <<>>
    BY DEF NoTurns, IsTurns
  <2> QED BY <2>1, <2>2 DEF SwappingIn
<1>2. CASE resident
  BY <1>1, <1>2 DEF SwapInAll
<1>3. CASE ~resident
  <2> DEFINE n == Len(s.swapped)
  <2>1. n \in Nat
    BY LenProperties DEF Valid, QueuesOK, Queue
  <2>2. PICK f : SwapInTurns(f, s, n)
    BY <2>1, SwapInTurnsExist
  <2>3. /\ f[0] = NoTurns(s) /\ \A k \in 1 .. n : f[k] = SwapInHead(f[k - 1])
        /\ SwapInAll(s, FALSE) = f[n]
    BY <2>2 DEF SwapInTurns
  <2> DEFINE N == {m \in Nat : m <= n => SwappingIn(s, f[m])}
  <2> HIDE DEF n
  <2>4. 0 \in N
    BY <1>1, <2>3
  <2>5. ASSUME NEW m \in Nat, m \in N PROVE m + 1 \in N
    <3> SUFFICES ASSUME m + 1 <= n PROVE SwappingIn(s, f[m + 1])
      OBVIOUS
    <3>1. m + 1 \in 1 .. n /\ (m + 1) - 1 = m /\ SwappingIn(s, f[m])
      BY <2>1, <2>5
    <3>2. f[m + 1] = SwapInHead(f[m])
      BY <2>3, <3>1
    <3> QED BY <3>1, <3>2, SwapInHeadSwaps
  <2>6. \A m \in Nat : m \in N
    <3> HIDE DEF N
    <3> QED BY <2>4, <2>5, NatSetInduction
  <2>7. SwappingIn(s, f[n])
    <3>1. n \in N /\ n <= n
      <4> HIDE DEF N
      <4> QED BY <2>1, <2>6
    <3> QED BY <3>1
  <2>8. SwapInAll(s, resident) = f[n]
    BY <1>3, <2>3 DEF SwapInAll
  <2> QED BY <1>3, <2>7, <2>8
<1> QED BY <1>2, <1>3

\* A candidate was swapped out, or dropped its pages to be recomputed.
PreemptedOK(s, t, out, v) ==
  /\ Valid(t, out \ {v}) /\ t.running = s.running
  /\ t.seqs[v].status \in {"swapped", "waiting"}
  /\ \A q \in Requests : q # v => t.seqs[q] = s.seqs[q]

LEMMA SwappedOutValid ==
  ASSUME NEW s, NEW out, Valid(s, out), NEW v \in Requests, v \in out,
         s.seqs[v].status = "decoding", CanSwapOut(s, v)
  PROVE  PreemptedOK(s, [Transition(SwapOut(s, v), v, "swapped") EXCEPT !.swapped = Append(@, v)],
                     out, v)
<1> DEFINE b == SwapOut(s, v)
           x == Transition(b, v, "swapped")
           t == Requeue(x, x.waiting, x.running, Append(x.swapped, v), x.consecutive, x.fault)
           n == Len(s.seqs[v].table)
<1>1. /\ Queue(s.waiting, Having(s, {"waiting"})) /\ Queue(s.swapped, Having(s, {"swapped"}))
      /\ Queue(s.running, Having(s, {"prefilling", "decoding"}) \ out)
      /\ Shaped(s) /\ CpuOK(s) /\ s.seqs[v].cpuTable = <<>>
  BY DEF Valid, QueuesOK, SequenceOK
<1>c. Pages(Len(s.seqs[v].tokens) - 1) <= Len(s.seqs[v].table)
  BY DEF Valid, SequenceOK
<1>2. /\ Touches(s, b, v) /\ n \in 0 .. Len(s.cpuFree)
      /\ b.cpuFree = SubSeq(s.cpuFree, n + 1, Len(s.cpuFree))
      /\ b.seqs[v].cpuTable = SubSeq(s.cpuFree, 1, n)
  BY <1>1, SwapOutTouches
<1>s. /\ PagesOK(b) /\ b.seqs[v].table = <<>>
      /\ Len(b.seqs[v].cpuTable) = Len(s.seqs[v].table)
  BY <1>1, SwapOutPages DEF Valid
<1> HIDE DEF b, n
<1>3. /\ Shaped(b) /\ "swapped" \in Statuses
      /\ Lifecycle!MayMove(b.seqs[v].status, "swapped")
  <2>1. b.seqs[v].status = "decoding" /\ Shaped(b)
    BY <1>2 DEF Touches
  <2> QED BY <2>1, Edges DEF Statuses, Lifecycle!LiveStates
<1>4. /\ Shaped(x) /\ x.waiting = b.waiting /\ x.running = b.running /\ x.swapped = b.swapped
      /\ x.fault = b.fault /\ x.cpuFree = b.cpuFree
      /\ \A q \in Requests : q # v => x.seqs[q] = b.seqs[q]
      /\ x.seqs[v].status = "swapped" /\ x.seqs[v].cpuTable = b.seqs[v].cpuTable
      /\ x.seqs[v].table = b.seqs[v].table /\ x.seqs[v].tokens = b.seqs[v].tokens
      /\ SamePages(b, x)
  BY <1>3, TransitionFields
<1> HIDE DEF x
<1>5. [x EXCEPT !.swapped = Append(@, v)] = t
  BY <1>4 DEF Shaped, Requeue
<1>6. Requeued(x, t, x.waiting, x.running, Append(x.swapped, v), x.consecutive, x.fault)
  BY <1>4, RequeueFields
<1> HIDE DEF t
<1>7. /\ Shaped(t) /\ t.seqs = x.seqs /\ t.fault = s.fault
      /\ t.cpuFree = SubSeq(s.cpuFree, n + 1, Len(s.cpuFree))
      /\ t.seqs[v].cpuTable = SubSeq(s.cpuFree, 1, n)
      /\ t.waiting = s.waiting /\ t.running = s.running /\ t.swapped = Append(s.swapped, v)
      /\ \A q \in Requests : q # v => t.seqs[q] = s.seqs[q]
      /\ t.seqs[v].status = "swapped" /\ t.pool = x.pool
  BY <1>2, <1>4, <1>6 DEF Requeued, Touches
<1>8. CpuOK(t)
  <2>1. \A q \in Requests : q # v => t.seqs[q].cpuTable = s.seqs[q].cpuTable
    BY <1>7
  <2> QED BY <1>1, <1>2, <1>7, <2>1, CpuTaken
<1>p. PagesOK(t)
  BY <1>s, <1>4, <1>7, PagesKept, RequeuedPages
<1>9. SequenceOK(t.seqs[v])
  <2>1. t.seqs[v].tokens = s.seqs[v].tokens
    BY <1>2, <1>4, <1>7 DEF Touches
  <2>2. t.seqs[v].table = <<>> /\ Len(t.seqs[v].cpuTable) = Len(s.seqs[v].table)
    <3>1. t.seqs[v] = x.seqs[v]
      BY <1>7
    <3> QED BY <1>s, <1>4, <3>1
  <2> QED BY <1>c, <1>7, <2>1, <2>2 DEF SequenceOK
<1>10. OnlyMoves(s, t, v)
  <2>1. \A q \in Requests : q # v => t.seqs[q].status = s.seqs[q].status
    BY <1>7
  <2> QED BY <2>1, HavingMoves
<1>11. /\ Having(t, {"waiting"}) = Having(s, {"waiting"}) \ {v}
       /\ Having(t, {"swapped"}) = Having(s, {"swapped"}) \cup {v}
       /\ Having(t, {"prefilling", "decoding"}) = Having(s, {"prefilling", "decoding"}) \ {v}
  BY <1>7, <1>10 DEF OnlyMoves
<1>12. v \notin Having(s, {"waiting"}) /\ v \notin Having(s, {"swapped"})
  BY DEF Having
<1>13. Queue(Append(s.swapped, v), Having(s, {"swapped"}) \cup {v})
  BY <1>1, <1>12, AppendNewProperties DEF Queue
<1>14. QueuesOK(t, out \ {v})
  <2>1. /\ Having(t, {"waiting"}) = Having(s, {"waiting"})
        /\ Having(t, {"prefilling", "decoding"}) \ (out \ {v}) =
             Having(s, {"prefilling", "decoding"}) \ out
    BY <1>11, <1>12
  <2> QED BY <1>1, <1>7, <1>11, <1>13, <2>1, Zenon DEF QueuesOK
<1>15. Valid(t, out \ {v})
  BY <1>7, <1>8, <1>p, <1>9, <1>14, ValidMove
<1>16. PreemptedOK(s, t, out, v)
  BY <1>7, <1>15 DEF PreemptedOK
<1> QED BY <1>5, <1>16 DEF t, x, b

LEMMA RecomputedValid ==
  ASSUME NEW s, NEW out, Valid(s, out), NEW v \in Requests, v \in out,
         s.seqs[v].status = "decoding"
  PROVE  PreemptedOK(s, [Transition(DeallocateSequence(s, v), v, "waiting")
                           EXCEPT !.seqs[v].computed = 0, !.waiting = <<v>> \o @], out, v)
<1> DEFINE b == DeallocateSequence(s, v)
           x == Transition(b, v, "waiting")
           y == Advanced(x, v, 0)
           t == Requeue(y, <<v>> \o y.waiting, y.running, y.swapped, y.consecutive, y.fault)
<1>1. /\ Queue(s.waiting, Having(s, {"waiting"})) /\ Queue(s.swapped, Having(s, {"swapped"}))
      /\ Queue(s.running, Having(s, {"prefilling", "decoding"}) \ out)
      /\ Shaped(s) /\ CpuOK(s)
  BY DEF Valid, QueuesOK
<1>2. /\ Touches(s, b, v) /\ b.cpuFree = s.cpuFree \o s.seqs[v].cpuTable
      /\ b.seqs[v].cpuTable = <<>> /\ b.seqs[v].table = <<>> /\ PagesOK(b)
  BY <1>1, DeallocateTouches, DeallocatePages DEF Valid
<1> HIDE DEF b
<1>3. /\ Shaped(b) /\ "waiting" \in Statuses
      /\ Lifecycle!MayMove(b.seqs[v].status, "waiting")
  <2>1. b.seqs[v].status = "decoding" /\ Shaped(b)
    BY <1>2 DEF Touches
  <2> QED BY <2>1, Edges DEF Statuses, Lifecycle!LiveStates
<1>4. /\ Shaped(x) /\ x.waiting = b.waiting /\ x.running = b.running /\ x.swapped = b.swapped
      /\ x.fault = b.fault /\ x.cpuFree = b.cpuFree
      /\ \A q \in Requests : q # v => x.seqs[q] = b.seqs[q]
      /\ x.seqs[v].status = "waiting" /\ x.seqs[v].cpuTable = b.seqs[v].cpuTable
      /\ x.seqs[v].table = b.seqs[v].table /\ SamePages(b, x)
  BY <1>3, TransitionFields
<1> HIDE DEF x
<1>5. [x EXCEPT !.seqs[v].computed = 0, !.waiting = <<v>> \o @] = t
  BY <1>4 DEF Shaped, Requeue, Advanced
<1>6. /\ Touches(x, y, v) /\ y.cpuFree = x.cpuFree /\ y.seqs[v].cpuTable = x.seqs[v].cpuTable
      /\ y.seqs[v].table = x.seqs[v].table /\ SamePages(x, y)
  BY <1>4, FrontierChange
<1> HIDE DEF y
<1>7. Requeued(y, t, <<v>> \o y.waiting, y.running, y.swapped, y.consecutive, y.fault)
  BY <1>6, RequeueFields DEF Touches
<1> HIDE DEF t
<1>8. /\ Shaped(t) /\ t.fault = s.fault
      /\ t.cpuFree = s.cpuFree \o s.seqs[v].cpuTable /\ t.seqs[v].cpuTable = <<>>
      /\ t.waiting = <<v>> \o s.waiting /\ t.running = s.running /\ t.swapped = s.swapped
      /\ \A q \in Requests : q # v => t.seqs[q] = s.seqs[q]
      /\ t.seqs[v].status = "waiting" /\ t.seqs[v].table = <<>>
      /\ t.seqs = y.seqs /\ t.pool = y.pool
  <2>1. /\ Shaped(t) /\ t.seqs = y.seqs /\ t.fault = y.fault /\ t.cpuFree = y.cpuFree
        /\ t.pool = y.pool
        /\ t.waiting = <<v>> \o y.waiting /\ t.running = y.running /\ t.swapped = y.swapped
    BY <1>7 DEF Requeued
  <2>2. /\ y.waiting = s.waiting /\ y.running = s.running /\ y.swapped = s.swapped
        /\ y.fault = s.fault
    BY <1>2, <1>4, <1>6 DEF Touches
  <2>3. \A q \in Requests : q # v => y.seqs[q] = s.seqs[q]
    BY <1>2, <1>4, <1>6 DEF Touches
  <2>4. /\ y.cpuFree = s.cpuFree \o s.seqs[v].cpuTable /\ y.seqs[v].cpuTable = <<>>
        /\ y.seqs[v].status = "waiting" /\ y.seqs[v].table = <<>>
    BY <1>2, <1>4, <1>6 DEF Touches
  <2> QED BY <2>1, <2>2, <2>3, <2>4
<1>9. CpuOK(t)
  <2>1. \A q \in Requests : q # v => t.seqs[q].cpuTable = s.seqs[q].cpuTable
    BY <1>8
  <2>2. t.cpuFree = s.cpuFree \o s.seqs[v].cpuTable /\ t.seqs[v].cpuTable = <<>>
    BY <1>8
  <2>3. Shaped(s) /\ CpuOK(s)
    BY <1>1
  <2> QED BY <2>1, <2>2, <2>3, CpuReturned
<1>p. PagesOK(t)
  BY <1>2, <1>4, <1>6, <1>8, PagesKept, RequeuedPages
<1>10. SequenceOK(t.seqs[v])
  BY <1>8 DEF SequenceOK
<1>11. OnlyMoves(s, t, v)
  <2>1. \A q \in Requests : q # v => t.seqs[q].status = s.seqs[q].status
    BY <1>8
  <2> QED BY <2>1, HavingMoves
<1>12. /\ Having(t, {"waiting"}) = Having(s, {"waiting"}) \cup {v}
       /\ Having(t, {"swapped"}) = Having(s, {"swapped"}) \ {v}
       /\ Having(t, {"prefilling", "decoding"}) = Having(s, {"prefilling", "decoding"}) \ {v}
  BY <1>8, <1>11 DEF OnlyMoves
<1>13. v \notin Having(s, {"waiting"}) /\ v \notin Having(s, {"swapped"})
  BY DEF Having
<1>14. Queue(<<v>> \o s.waiting, Having(s, {"waiting"}) \cup {v})
  <2> DEFINE one == <<v>>
  <2>1. one \in Seq(Requests) /\ IsInjective(one) /\ Range(one) = {v}
    BY DEF IsInjective, Range
  <2> HIDE DEF one
  <2>2. Range(one) \cap Range(s.waiting) = {}
    BY <1>1, <1>13, <2>1 DEF Queue
  <2>3. s.waiting \in Seq(Requests) /\ IsInjective(s.waiting)
    BY <1>1 DEF Queue
  <2>4. /\ one \o s.waiting \in Seq(Requests) /\ IsInjective(one \o s.waiting)
        /\ Range(one \o s.waiting) = Range(one) \cup Range(s.waiting)
    BY <2>1, <2>2, <2>3, JoinProperties
  <2>5. Queue(one \o s.waiting, Having(s, {"waiting"}) \cup {v})
    BY <1>1, <2>1, <2>4, Zenon DEF Queue
  <2> QED BY <2>5 DEF one
<1>15. QueuesOK(t, out \ {v})
  <2>1. /\ Having(t, {"swapped"}) = Having(s, {"swapped"})
        /\ Having(t, {"prefilling", "decoding"}) \ (out \ {v}) =
             Having(s, {"prefilling", "decoding"}) \ out
    BY <1>12, <1>13
  <2> QED BY <1>1, <1>8, <1>12, <1>14, <2>1, Zenon DEF QueuesOK
<1>16. Valid(t, out \ {v})
  BY <1>8, <1>9, <1>p, <1>10, <1>15, ValidMove
<1>17. PreemptedOK(s, t, out, v)
  BY <1>8, <1>16 DEF PreemptedOK
<1> QED BY <1>5, <1>17 DEF t, x, b

\* A Sequence has a token, and what its table must cover grows with them.
LEMMA TokensOf ==
  ASSUME NEW r \in Requests, NEW q, IsSequence(r, q)
  PROVE  /\ Len(q.tokens) \in Nat /\ Len(q.tokens) > 0 /\ q.tokens # <<>>
         /\ q.tokens \in Seq(Tokens)
         /\ PromptLen(r) \in Nat /\ PromptLen(r) > 0 /\ PromptLen(r) <= Len(q.tokens)
         /\ NumPages(q) \in Nat /\ Pages(Len(q.tokens) - 1) \in Nat
         /\ Pages(Len(q.tokens) - 1) <= NumPages(q)
<1>1. q.tokens \in Seq(Tokens) /\ PromptLen(r) <= Len(q.tokens)
  BY DEF IsSequence
<1>2. Prompt[r] \in Seq(Tokens) /\ Prompt[r] # <<>>
  BY ManagerAssumption
<1>3. PromptLen(r) \in Nat /\ PromptLen(r) > 0
  BY <1>2, EmptyProperties, LenProperties DEF PromptLen
<1>4. Len(q.tokens) \in Nat
  BY <1>1, LenProperties
<1>5. q.tokens # <<>>
  BY <1>1, <1>3, EmptyProperties
<1> DEFINE n == Len(q.tokens)
<1>6. n \in Nat /\ n - 1 \in Nat /\ n - 1 <= n
  BY <1>1, <1>3, <1>4
<1> HIDE DEF n
<1>7. Pages(n) \in Nat /\ Pages(n - 1) \in Nat /\ Pages(n - 1) <= Pages(n)
  BY <1>6, PagesMonotone
<1> QED BY <1>1, <1>3, <1>4, <1>5, <1>7 DEF NumPages, n

\* A candidate that gets room for its next token.
AppendedOK(s, t, out, r) ==
  /\ Valid(t, out) /\ t.running = s.running /\ Stays(s, t)
  /\ r \in Covered(t) /\ \A q \in Requests : q # r => t.seqs[q] = s.seqs[q]

LEMMA AppendedValid ==
  ASSUME NEW s, NEW out, Valid(s, out), NEW r \in Requests, s.seqs[r].status = "decoding",
         CanAppend(s, r)
  PROVE  AppendedOK(s, MayAppend(CopyOnWrite(s, r), r), out, r)
<1> DEFINE c == CopyOnWrite(s, r)
           t == MayAppend(c, r)
<1>1. Shaped(s) /\ IsSequence(r, s.seqs[r]) /\ PagesOK(s)
  BY DEF Valid, Shaped
<1>p. PagesOK(t) /\ NumPages(s.seqs[r]) <= Len(t.seqs[r].table)
  <2>1. s.seqs[r].tokens # <<>>
    BY <1>1, TokensOf
  <2>2. Pages(Len(s.seqs[r].tokens) - 1) <= Len(s.seqs[r].table)
    BY DEF Valid, SequenceOK
  <2> QED BY <1>1, <2>1, <2>2, AppendPages
<1>2. Touches(s, c, r) /\ c.cpuFree = s.cpuFree /\ c.seqs[r].cpuTable = s.seqs[r].cpuTable
  BY <1>1, CopyOnWriteTouches
<1> HIDE DEF c
<1>3. Shaped(c)
  BY <1>2 DEF Touches
<1>4. Touches(c, t, r) /\ t.cpuFree = c.cpuFree /\ t.seqs[r].cpuTable = c.seqs[r].cpuTable
  BY <1>3, MayAppendTouches
<1> HIDE DEF t
<1>5. Touches(s, t, r)
  BY <1>2, <1>4, TouchesTwice
<1>6. CpuOK(t)
  <2>1. CpuOK(s) /\ t.cpuFree = s.cpuFree
    BY <1>2, <1>4 DEF Valid
  <2>2. t.seqs[r].cpuTable = s.seqs[r].cpuTable
    BY <1>2, <1>4
  <2>3. \A q \in Requests : q # r => t.seqs[q].cpuTable = s.seqs[q].cpuTable
    BY <1>5 DEF Touches
  <2>4. \A q \in Requests : t.seqs[q].cpuTable = s.seqs[q].cpuTable
    BY <2>2, <2>3
  <2> QED BY <2>1, <2>4, CpuKept
<1>7. t.seqs[r].status = "decoding" /\ t.seqs[r].tokens = s.seqs[r].tokens
  BY <1>5 DEF Touches
<1>8. NumPages(t.seqs[r]) = NumPages(s.seqs[r])
  BY <1>7 DEF NumPages
<1>9. Pages(Len(t.seqs[r].tokens) - 1) <= Len(t.seqs[r].table)
  <2> DEFINE a == Pages(Len(s.seqs[r].tokens) - 1)
             b == NumPages(s.seqs[r])
             d == Len(t.seqs[r].table)
  <2>1. a \in Nat /\ b \in Nat /\ a <= b
    BY <1>1, TokensOf
  <2>2. d \in Nat
    <3>1. t.seqs[r].table \in Seq(Pool!Block)
      BY <1>p DEF PagesOK, TableOK
    <3> QED BY <3>1, LenProperties
  <2>3. b <= d
    BY <1>p
  <2>4. Pages(Len(t.seqs[r].tokens) - 1) = a
    BY <1>7
  <2> HIDE DEF a, b, d
  <2>5. a <= d
    BY <2>1, <2>2, <2>3
  <2> QED BY <2>4, <2>5 DEF d
<1>10. SequenceOK(t.seqs[r])
  <2>1. t.seqs[r].cpuTable = <<>>
    BY <1>2, <1>4 DEF Valid, SequenceOK
  <2> QED BY <1>7, <1>9, <2>1 DEF SequenceOK
<1>11. Valid(t, out)
  BY <1>p, <1>5, <1>6, <1>10, TouchValid
<1>12. t.running = s.running /\ Stays(s, t)
  BY <1>5 DEF Touches, Stays
<1>13. r \in Covered(t)
  BY <1>p, <1>8 DEF Covered
<1>14. AppendedOK(s, t, out, r)
  BY <1>5, <1>11, <1>12, <1>13 DEF AppendedOK, Touches
<1> QED BY <1>14 DEF t, c

\* The running queue may be replaced by one of the requests that are still resident.
LEMMA RequeuedValid ==
  ASSUME NEW s, NEW out, Valid(s, out), NEW next, NEW t, Shaped(t),
         t.seqs = s.seqs, t.pool = s.pool, t.cpuFree = s.cpuFree, t.fault = s.fault,
         t.waiting = s.waiting, t.swapped = s.swapped,
         Queue(t.running, Having(s, {"prefilling", "decoding"}) \ next)
  PROVE  Valid(t, next)
<1>1. CpuOK(t)
  BY CpuKept DEF Valid
<1>p. PagesOK(t)
  BY RequeuedPages DEF Valid
<1>2. \A S : Having(t, S) = Having(s, S)
  BY DEF Having
<1>3. QueuesOK(t, next)
  BY <1>2 DEF Valid, QueuesOK
<1> QED BY <1>1, <1>p, <1>3 DEF Valid

\* The requests that decode planning has taken off the running queue.
InHand(acc) == Range(acc.cands) \cup Range(acc.scheduled)

\* What holds between the turns of decode planning that start from s.
DecodingTurns(s, acc, resident) ==
  /\ IsTurns(acc)
  /\ Queue(acc.cands, Range(acc.cands)) /\ Queue(acc.scheduled, Range(acc.scheduled))
  /\ Range(acc.cands) \cap Range(acc.scheduled) = {}
  /\ InHand(acc) \subseteq Having(acc.s, {"decoding"}) /\ Range(acc.scheduled) \subseteq Covered(acc.s)
  /\ Valid(acc.s, InHand(acc))
  /\ Len(acc.s.running) + Len(acc.cands) + Len(acc.scheduled) <= MaxNumSeqs
  /\ Plans(s, acc.s, resident)

LEMMA CandidatesTaken ==
  ASSUME NEW s, NEW acc, IsTurns(acc), acc.scheduled = <<>>, Valid(acc.s, {}),
         Len(acc.s.running) <= MaxNumSeqs, NEW resident, Plans(s, acc.s, resident)
  PROVE  DecodingTurns(s, TakeCandidates(acc), resident)
<1> DEFINE z == acc.s
           D == Decoding(z)
           c == Those(z.running, D)
           u == Those(z.running, Requests \ D)
           x == Requeue(z, z.waiting, u, z.swapped, z.consecutive, z.fault)
           t == TakeCandidates(acc)
           R == Having(z, {"prefilling", "decoding"})
<1>1. Shaped(z) /\ z.running \in Seq(Requests) /\ IsInjective(z.running) /\ Range(z.running) = R
  BY DEF Valid, QueuesOK, Queue
<1>2. t = [acc EXCEPT !.s = x, !.cands = c]
  BY <1>1 DEF TakeCandidates, IsTurns, Shaped, Requeue
<1>3. Requeued(z, x, z.waiting, u, z.swapped, z.consecutive, z.fault)
  BY <1>1, RequeueFields
<1>4. /\ c \in Seq(Requests) /\ IsInjective(c) /\ Range(c) = Range(z.running) \cap D
      /\ u \in Seq(Requests) /\ IsInjective(u)
      /\ Range(u) = Range(z.running) \cap (Requests \ D)
  BY <1>1, ThoseProperties
<1>5. Len(c) \in Nat /\ Len(u) \in Nat /\ Len(c) + Len(u) = Len(z.running)
  BY <1>1, ThoseLength
<1>6. Range(c) = Having(z, {"decoding"}) /\ Range(u) = R \ Range(c)
  BY <1>1, <1>4 DEF Having, Decoding
<1> HIDE DEF c, u, x, t, R, D
<1>7. IsTurns(t) /\ t.s = x /\ t.cands = c /\ t.scheduled = <<>>
  BY <1>2 DEF IsTurns
<1>8. Queue(u, R \ Range(c))
  BY <1>4, <1>6 DEF Queue
<1>9. Valid(x, Range(c)) /\ x.running = u /\ x.seqs = z.seqs
  <2>1. /\ Shaped(x) /\ x.seqs = z.seqs /\ x.pool = z.pool
        /\ x.cpuFree = z.cpuFree /\ x.fault = z.fault
        /\ x.waiting = z.waiting /\ x.running = u /\ x.swapped = z.swapped
    BY <1>3 DEF Requeued
  <2>2. Valid(z, {}) /\ Queue(x.running, Having(z, {"prefilling", "decoding"}) \ Range(c))
    BY <1>8, <2>1 DEF R
  <2> HIDE DEF z
  <2>3. Valid(x, Range(c))
    BY <2>1, <2>2, RequeuedValid
  <2> QED BY <2>1, <2>3
<1>10. /\ Range(t.scheduled) = {} /\ Len(t.scheduled) = 0
       /\ Queue(t.scheduled, Range(t.scheduled))
  BY <1>7, NoElements DEF Queue
<1>11. InHand(t) = Range(c)
  BY <1>7, <1>10 DEF InHand
<1>12. Range(c) \subseteq Having(x, {"decoding"})
  BY <1>6, <1>9 DEF Having
<1>13. Plans(s, x, resident)
  <2>1. Stays(z, x)
    BY <1>9 DEF Stays
  <2> QED BY <2>1, PlansCompose
<1>14. Queue(c, Range(c))
  BY <1>4 DEF Queue
<1>15. Len(u) + Len(c) + 0 <= MaxNumSeqs
  BY <1>5
<1>16. DecodingTurns(s, t, resident)
  BY <1>7, <1>9, <1>10, <1>11, <1>12, <1>13, <1>14, <1>15 DEF DecodingTurns
<1> QED BY <1>16 DEF t

\* A turn that schedules the oldest candidate.
LEMMA ScheduleTurn ==
  ASSUME config \in Configs, NEW s, NEW acc, NEW resident, DecodingTurns(s, acc, resident), acc.cands # <<>>,
         NEW t, IsTurns(t), NEW r, r = Head(acc.cands), CanAppend(acc.s, r),
         t.s = MayAppend(CopyOnWrite(acc.s, r), r),
         t.scheduled = Append(acc.scheduled, r), t.cands = Tail(acc.cands)
  PROVE  DecodingTurns(s, t, resident)
<1> DEFINE z == acc.s
           x == t.s
<1>1. /\ acc.cands \in Seq(Requests) /\ IsInjective(acc.cands)
      /\ acc.scheduled \in Seq(Requests) /\ IsInjective(acc.scheduled)
  BY DEF DecodingTurns, Queue
<1>2. /\ r \in Requests /\ r \in Range(acc.cands) /\ t.cands \in Seq(Requests)
      /\ Range(t.cands) = Range(acc.cands) \ {r} /\ IsInjective(t.cands)
      /\ Len(t.cands) = Len(acc.cands) - 1
  BY <1>1, PopLeftProperties
<1>3. r \notin Range(acc.scheduled)
  BY <1>2 DEF DecodingTurns
<1>4. /\ t.scheduled \in Seq(Requests) /\ IsInjective(t.scheduled)
      /\ Range(t.scheduled) = Range(acc.scheduled) \cup {r}
      /\ Len(t.scheduled) = Len(acc.scheduled) + 1
  BY <1>1, <1>2, <1>3, AppendNewProperties
<1>5. InHand(t) = InHand(acc)
  BY <1>2, <1>4 DEF InHand
<1>6. Valid(z, InHand(acc)) /\ z.seqs[r].status = "decoding"
  BY <1>2 DEF DecodingTurns, InHand, Having
<1>7. /\ Valid(x, InHand(acc)) /\ x.running = z.running /\ Stays(z, x)
      /\ r \in Covered(x) /\ \A q \in Requests : q # r => x.seqs[q] = z.seqs[q]
  <2>1. CanAppend(z, r)
    OBVIOUS
  <2> HIDE DEF z
  <2>2. AppendedOK(z, MayAppend(CopyOnWrite(z, r), r), InHand(acc), r)
    BY <1>2, <1>6, <2>1, AppendedValid
  <2> QED BY <2>2 DEF AppendedOK, z
<1>c. Range(t.scheduled) \subseteq Covered(x)
  <2>1. Range(acc.scheduled) \subseteq Covered(z)
    BY DEF DecodingTurns
  <2> QED BY <1>4, <1>7, <2>1 DEF Covered
<1>8. InHand(t) \subseteq Having(x, {"decoding"})
  <2>1. InHand(acc) \subseteq Having(z, {"decoding"})
    BY DEF DecodingTurns
  <2> QED BY <1>5, <1>7, <2>1 DEF Stays, Having
<1>9. Plans(s, x, resident)
  <2>1. Plans(s, z, resident)
    BY DEF DecodingTurns
  <2> QED BY <1>7, <2>1, PlansCompose
<1>10. Len(x.running) + Len(t.cands) + Len(t.scheduled) <= MaxNumSeqs
  <2> DEFINE a == Len(acc.s.running)  b == Len(acc.cands)  c == Len(acc.scheduled)
             d == Len(t.cands)        e == Len(t.scheduled)
  <2>1. a \in Nat /\ b \in Nat /\ c \in Nat /\ MaxNumSeqs \in Nat
    BY <1>1, <1>6, LenProperties, NumSeqsNat DEF Valid, QueuesOK, Queue
  <2>2. a + b + c <= MaxNumSeqs /\ d = b - 1 /\ e = c + 1
    BY <1>2, <1>4 DEF DecodingTurns
  <2>3. Len(x.running) = a
    BY <1>7
  <2> HIDE DEF a, b, c, d, e
  <2>4. a + d + e <= MaxNumSeqs
    BY <2>1, <2>2
  <2> QED BY <2>3, <2>4 DEF d, e
<1>11. /\ Queue(t.cands, Range(t.cands)) /\ Queue(t.scheduled, Range(t.scheduled))
       /\ Range(t.cands) \cap Range(t.scheduled) = {}
  BY <1>2, <1>4 DEF Queue, DecodingTurns
<1>12. Valid(x, InHand(t))
  BY <1>5, <1>7, Zenon
<1> QED BY <1>c, <1>8, <1>9, <1>10, <1>11, <1>12 DEF DecodingTurns

\* A turn that leaves the oldest candidate on the running queue.
LEMMA DeferTurn ==
  ASSUME config \in Configs, NEW s, NEW acc, NEW resident, DecodingTurns(s, acc, resident), acc.cands # <<>>,
         NEW t, IsTurns(t), NEW r, r = Head(acc.cands),
         t.s = [acc.s EXCEPT !.running = Append(@, r)],
         t.scheduled = acc.scheduled, t.cands = Tail(acc.cands)
  PROVE  DecodingTurns(s, t, resident)
<1> DEFINE z == acc.s
           x == t.s
           u == Append(z.running, r)
           R == Having(z, {"prefilling", "decoding"})
<1>1. /\ acc.cands \in Seq(Requests) /\ IsInjective(acc.cands)
      /\ acc.scheduled \in Seq(Requests) /\ IsInjective(acc.scheduled)
  BY DEF DecodingTurns, Queue
<1>2. /\ r \in Requests /\ r \in Range(acc.cands) /\ t.cands \in Seq(Requests)
      /\ Range(t.cands) = Range(acc.cands) \ {r} /\ IsInjective(t.cands)
      /\ Len(t.cands) = Len(acc.cands) - 1
  BY <1>1, PopLeftProperties
<1>3. /\ Valid(z, InHand(acc)) /\ Shaped(z) /\ r \in InHand(acc) /\ r \in R
      /\ z.running \in Seq(Requests) /\ IsInjective(z.running)
      /\ Range(z.running) = R \ InHand(acc)
  BY <1>2 DEF DecodingTurns, Valid, QueuesOK, Queue, InHand, Having
<1>4. /\ u \in Seq(Requests) /\ IsInjective(u) /\ Range(u) = Range(z.running) \cup {r}
      /\ Len(u) = Len(z.running) + 1
  BY <1>2, <1>3, AppendNewProperties
<1>5. x = Requeue(z, z.waiting, u, z.swapped, z.consecutive, z.fault)
  BY <1>3 DEF Shaped, Requeue
<1>6. Requeued(z, x, z.waiting, u, z.swapped, z.consecutive, z.fault)
  BY <1>3, <1>5, RequeueFields
<1>7. InHand(t) = InHand(acc) \ {r}
  BY <1>2 DEF InHand, DecodingTurns
<1> HIDE DEF R, u
<1>8. Range(u) = R \ InHand(t)
  BY <1>3, <1>4, <1>7
<1> HIDE DEF z, x
<1>9. /\ Shaped(x) /\ x.seqs = z.seqs /\ x.pool = z.pool
      /\ x.cpuFree = z.cpuFree /\ x.fault = z.fault
      /\ x.waiting = z.waiting /\ x.running = u /\ x.swapped = z.swapped
  BY <1>6 DEF Requeued
<1>10. Queue(x.running, Having(z, {"prefilling", "decoding"}) \ InHand(t))
  BY <1>4, <1>8, <1>9 DEF R, Queue
<1>11. Valid(x, InHand(t))
  BY <1>3, <1>9, <1>10, RequeuedValid
<1>12. InHand(t) \subseteq Having(x, {"decoding"})
  <2>1. InHand(acc) \subseteq Having(z, {"decoding"})
    BY DEF DecodingTurns, z
  <2> QED BY <1>7, <1>9, <2>1 DEF Having
<1>c. Range(t.scheduled) \subseteq Covered(x)
  <2>1. Range(acc.scheduled) \subseteq Covered(z)
    BY DEF DecodingTurns, z
  <2> QED BY <1>9, <2>1 DEF Covered
<1>13. Plans(s, x, resident)
  <2>1. Plans(s, z, resident) /\ Stays(z, x)
    BY <1>9 DEF DecodingTurns, Stays, z
  <2> QED BY <2>1, PlansCompose
<1>14. Len(x.running) + Len(t.cands) + Len(t.scheduled) <= MaxNumSeqs
  <2> DEFINE a == Len(acc.s.running)  b == Len(acc.cands)  c == Len(acc.scheduled)
             d == Len(t.cands)        e == Len(t.scheduled)
  <2>1. a \in Nat /\ b \in Nat /\ c \in Nat /\ MaxNumSeqs \in Nat
    BY <1>1, <1>3, LenProperties, NumSeqsNat DEF z
  <2>2. a + b + c <= MaxNumSeqs /\ d = b - 1 /\ e = c
    BY <1>2 DEF DecodingTurns
  <2>3. Len(x.running) = a + 1
    BY <1>4, <1>9 DEF z
  <2> HIDE DEF a, b, c, d, e
  <2>4. (a + 1) + d + e <= MaxNumSeqs
    BY <2>1, <2>2
  <2> QED BY <2>3, <2>4 DEF d, e
<1>15. /\ Queue(t.cands, Range(t.cands)) /\ Queue(t.scheduled, Range(t.scheduled))
       /\ Range(t.cands) \cap Range(t.scheduled) = {}
  BY <1>1, <1>2 DEF Queue, DecodingTurns
<1> QED BY <1>c, <1>11, <1>12, <1>13, <1>14, <1>15 DEF DecodingTurns, x

\* A turn that takes a victim off the candidates.
LEMMA PreemptTurn ==
  ASSUME config \in Configs, NEW s, NEW acc, DecodingTurns(s, acc, FALSE),
         NEW v, v \in Range(acc.cands),
         NEW t, IsTurns(t), PreemptedOK(acc.s, t.s, InHand(acc), v),
         t.scheduled = acc.scheduled, t.cands = Those(acc.cands, Requests \ {v})
  PROVE  DecodingTurns(s, t, FALSE)
<1> DEFINE z == acc.s
           x == t.s
<1>1. /\ acc.cands \in Seq(Requests) /\ IsInjective(acc.cands)
      /\ acc.scheduled \in Seq(Requests) /\ IsInjective(acc.scheduled)
  BY DEF DecodingTurns, Queue
<1>2. /\ Queue(t.cands, Range(acc.cands) \ {v})
      /\ Len(t.cands) \in Nat /\ Len(t.cands) <= Len(acc.cands)
  BY <1>1, DropProperties
<1>3. /\ v \in Requests /\ v \in InHand(acc) /\ z.seqs[v].status = "decoding"
      /\ Range(t.cands) = Range(acc.cands) \ {v}
  BY <1>1, <1>2 DEF DecodingTurns, InHand, Having, Queue
<1>4. InHand(t) = InHand(acc) \ {v}
  BY <1>3 DEF InHand, DecodingTurns
<1> HIDE DEF z, x
<1>5. /\ Valid(x, InHand(acc) \ {v}) /\ x.running = z.running
      /\ x.seqs[v].status \in {"swapped", "waiting"}
      /\ \A q \in Requests : q # v => x.seqs[q] = z.seqs[q]
  BY DEF PreemptedOK, x, z
<1>6. Valid(x, InHand(t))
  BY <1>4, <1>5, Zenon
<1>7. InHand(t) \subseteq Having(x, {"decoding"})
  <2>1. InHand(acc) \subseteq Having(z, {"decoding"})
    BY DEF DecodingTurns, z
  <2> QED BY <1>4, <1>5, <2>1 DEF Having
<1>c. Range(t.scheduled) \subseteq Covered(x)
  <2>1. Range(acc.scheduled) \subseteq Covered(z)
    BY DEF DecodingTurns, z
  <2>2. v \notin Range(acc.scheduled)
    BY DEF DecodingTurns
  <2> QED BY <1>5, <2>1, <2>2 DEF Covered
<1>8. Plans(s, x, FALSE)
  <2>1. Reschedules(z, x)
    BY <1>3, <1>5 DEF Reschedules
  <2>2. Plans(s, z, FALSE) /\ Plans(z, x, FALSE)
    BY <2>1 DEF DecodingTurns, Plans, z
  <2> QED BY <2>2, PlansCompose
<1>9. Len(x.running) + Len(t.cands) + Len(t.scheduled) <= MaxNumSeqs
  <2> DEFINE a == Len(acc.s.running)  b == Len(acc.cands)  c == Len(acc.scheduled)
             d == Len(t.cands)        e == Len(t.scheduled)
  <2>1. a \in Nat /\ b \in Nat /\ c \in Nat /\ d \in Nat /\ MaxNumSeqs \in Nat
    <3>1. acc.s.running \in Seq(Requests)
      BY DEF DecodingTurns, Valid, QueuesOK, Queue
    <3> QED BY <1>1, <1>2, <3>1, LenProperties, NumSeqsNat
  <2>2. a + b + c <= MaxNumSeqs /\ d <= b /\ e = c
    BY <1>2 DEF DecodingTurns
  <2>3. Len(x.running) = a
    BY <1>5 DEF z
  <2> HIDE DEF a, b, c, d, e
  <2>4. a + d + e <= MaxNumSeqs
    BY <2>1, <2>2
  <2> QED BY <2>3, <2>4 DEF d, e
<1>10. /\ Queue(t.cands, Range(t.cands)) /\ Queue(t.scheduled, Range(t.scheduled))
       /\ Range(t.cands) \cap Range(t.scheduled) = {}
  BY <1>2, <1>3 DEF Queue, DecodingTurns
<1> QED BY <1>c, <1>6, <1>7, <1>8, <1>9, <1>10 DEF DecodingTurns, x

LEMMA LastInRange ==
  ASSUME NEW S, NEW q \in Seq(S), q # <<>>
  PROVE  Last(q) \in Range(q)
<1>1. Len(q) \in Nat /\ DOMAIN q = 1 .. Len(q) /\ Len(q) # 0
  BY LenProperties, EmptySeq
<1>2. Len(q) \in DOMAIN q
  BY <1>1
<1> QED BY <1>2 DEF Last, Range

LEMMA PreemptChooses ==
  ASSUME NEW acc, IsTurns(acc), NEW out, Valid(acc.s, out), NEW v \in Requests, v \in out,
         acc.s.seqs[v].status = "decoding"
  PROVE  LET p == Preempt(acc, v)
         IN  /\ IsTurns(p) /\ p.cands = acc.cands /\ p.scheduled = acc.scheduled
             /\ PreemptedOK(acc.s, p.s, out, v)
<1> DEFINE p == Preempt(acc, v)
           x == [Transition(SwapOut(acc.s, v), v, "swapped") EXCEPT !.swapped = Append(@, v)]
           y == [Transition(DeallocateSequence(acc.s, v), v, "waiting")
                   EXCEPT !.seqs[v].computed = 0, !.waiting = <<v>> \o @]
<1>1. CASE CanSwapOut(acc.s, v)
  <2>1. p = [acc EXCEPT !.s = x, !.swapOut = @ \o SwapOutPairs(acc.s, v)]
    BY <1>1 DEF Preempt
  <2>2. PreemptedOK(acc.s, x, out, v)
    BY <1>1, SwappedOutValid
  <2> HIDE DEF x
  <2>3. IsTurns(p) /\ p.cands = acc.cands /\ p.scheduled = acc.scheduled /\ p.s = x
    BY <2>1 DEF IsTurns
  <2> QED BY <2>2, <2>3
<1>2. CASE ~CanSwapOut(acc.s, v)
  <2>1. p = [acc EXCEPT !.s = y]
    BY <1>2 DEF Preempt
  <2>2. PreemptedOK(acc.s, y, out, v)
    BY RecomputedValid, Zenon
  <2> HIDE DEF y
  <2>3. IsTurns(p) /\ p.cands = acc.cands /\ p.scheduled = acc.scheduled /\ p.s = y
    BY <2>1 DEF IsTurns
  <2> QED BY <2>2, <2>3
<1> QED BY <1>1, <1>2

LEMMA DecodeTurnDecodes ==
  ASSUME config \in Configs, NEW s, NEW acc, NEW resident \in BOOLEAN,
         DecodingTurns(s, acc, resident)
  PROVE  DecodingTurns(s, DecodeTurn(acc, resident), resident)
<1> DEFINE r == Head(acc.cands)
           others == Tail(acc.cands)
           v == Victim(r, others)
           t == DecodeTurn(acc, resident)
           idle == acc.cands = <<>> \/ Len(acc.scheduled) >= MaxNumSeqs
<1>1. CASE idle
  BY <1>1 DEF DecodeTurn
<1>2. CASE ~idle /\ CanAppend(acc.s, r)
  <2> DEFINE x == MayAppend(CopyOnWrite(acc.s, r), r)
             cow == IF CopyOnWritePair(acc.s, r) = <<>> THEN acc.cow
                    ELSE Append(acc.cow, CopyOnWritePair(acc.s, r))
  <2>1. t = [acc EXCEPT !.s = x, !.cow = cow, !.scheduled = Append(acc.scheduled, r),
                        !.cands = others]
    BY <1>2 DEF DecodeTurn, DecodingTurns, IsTurns
  <2> HIDE DEF cow, x
  <2>2. IsTurns(t) /\ t.s = x /\ t.scheduled = Append(acc.scheduled, r) /\ t.cands = Tail(acc.cands)
    BY <2>1 DEF DecodingTurns, IsTurns
  <2>3. acc.cands # <<>> /\ CanAppend(acc.s, r)
    BY <1>2
  <2> HIDE DEF t
  <2> QED BY <2>2, <2>3, ScheduleTurn DEF x, t
<1>3. CASE ~idle /\ ~CanAppend(acc.s, r) /\ resident
  <2> DEFINE x == [acc.s EXCEPT !.running = Append(@, r)]
  <2>1. t = [acc EXCEPT !.s = x, !.cands = others]
    BY <1>3 DEF DecodeTurn, DecodingTurns, IsTurns
  <2> HIDE DEF x
  <2>2. IsTurns(t) /\ t.s = x /\ t.scheduled = acc.scheduled /\ t.cands = Tail(acc.cands)
    BY <2>1 DEF DecodingTurns, IsTurns
  <2>3. acc.cands # <<>>
    BY <1>3
  <2> HIDE DEF t
  <2> QED BY <2>2, <2>3, DeferTurn DEF x, t
<1>4. CASE ~idle /\ ~CanAppend(acc.s, r) /\ ~resident
  <2> DEFINE p == Preempt(acc, v)
             rest == Those(acc.cands, Requests \ {v})
  <2>1. acc.cands \in Seq(Requests) /\ IsInjective(acc.cands) /\ acc.cands # <<>>
    BY <1>4 DEF DecodingTurns, Queue
  <2>2. /\ r \in Range(acc.cands) /\ others \in Seq(Requests)
        /\ Range(others) \subseteq Range(acc.cands)
    BY <2>1, PopLeftProperties
  <2>3. v \in Range(acc.cands)
    <3>1. CASE others = <<>>
      BY <2>2, <3>1 DEF Victim
    <3>2. CASE others # <<>>
      <4>1. Last(others) \in Range(others)
        BY <2>2, <3>2, LastInRange
      <4> QED BY <2>2, <3>2, <4>1 DEF Victim
    <3> QED BY <3>1, <3>2
  <2>4. t = [p EXCEPT !.cands = Those(@, Requests \ {v})]
    BY <1>4 DEF DecodeTurn
  <2> HIDE DEF v
  <2>5. /\ v \in Requests /\ v \in InHand(acc) /\ acc.s.seqs[v].status = "decoding"
        /\ IsTurns(acc) /\ Valid(acc.s, InHand(acc))
    BY <2>3 DEF DecodingTurns, InHand, Having
  <2>6. /\ IsTurns(p) /\ p.cands = acc.cands /\ p.scheduled = acc.scheduled
        /\ PreemptedOK(acc.s, p.s, InHand(acc), v)
    BY <2>5, PreemptChooses
  <2> HIDE DEF p
  <2>7. t = [p EXCEPT !.cands = rest]
    BY <2>4, <2>6 DEF IsTurns
  <2> HIDE DEF t
  <2>8. IsTurns(t) /\ t.s = p.s /\ t.scheduled = acc.scheduled /\ t.cands = rest
    BY <2>6, <2>7 DEF IsTurns
  <2>9. PreemptedOK(acc.s, t.s, InHand(acc), v)
    BY <2>6, <2>8
  <2>10. resident = FALSE /\ DecodingTurns(s, acc, FALSE)
    BY <1>4
  <2>11. DecodingTurns(s, t, FALSE)
    BY <2>3, <2>8, <2>9, <2>10, PreemptTurn
  <2> QED BY <2>10, <2>11 DEF t
<1> QED BY <1>1, <1>2, <1>3, <1>4

\* The turns of _decode_plan over its candidates.
TurnsOfDecode(f, acc, resident, n) ==
  /\ f[0] = acc
  /\ \A k \in 1 .. n : f[k] = DecodeTurn(f[k - 1], resident)
  /\ DecodeTurns(acc, resident) = f[n]

LEMMA TurnsOfDecodeExist ==
  ASSUME NEW acc, NEW resident, NEW n \in Nat, n = Len(acc.cands)
  PROVE  \E f : TurnsOfDecode(f, acc, resident, n)
<1> DEFINE Step(f, k) == IF k = 0 THEN acc ELSE DecodeTurn(f[k - 1], resident)
           N == {m \in Nat : \E f : f = [k \in 0 .. m |-> Step(f, k)]}
           F == CHOOSE f : f = [k \in 0 .. n |-> Step(f, k)]
<1>1. 0 \in N
  <2> DEFINE g == [k \in 0 .. 0 |-> acc]
  <2>1. g = [k \in 0 .. 0 |-> Step(g, k)]
    OBVIOUS
  <2> HIDE DEF g
  <2>2. \E f : f = [k \in 0 .. 0 |-> Step(f, k)]
    BY <2>1
  <2> QED BY <2>2
<1>2. ASSUME NEW m \in Nat, m \in N PROVE m + 1 \in N
  <2>1. PICK g : g = [k \in 0 .. m |-> Step(g, k)]
    BY <1>2
  <2> DEFINE h == [k \in 0 .. m + 1 |-> IF k = m + 1 THEN Step(g, m + 1) ELSE g[k]]
  <2>2. ASSUME NEW k \in 0 .. m + 1 PROVE h[k] = Step(h, k)
    <3>1. k # 0 => k - 1 \in 0 .. m /\ h[k - 1] = g[k - 1]
      OBVIOUS
    <3>2. k # m + 1 => g[k] = Step(g, k)
      <4>1. k # m + 1 => k \in 0 .. m
        OBVIOUS
      <4> QED BY <2>1, <4>1
    <3>3. h[k] = Step(g, k)
      BY <3>2
    <3> QED BY <3>1, <3>3
  <2>3. h = [k \in 0 .. m + 1 |-> Step(h, k)]
    BY <2>2
  <2> HIDE DEF h
  <2>4. \E f : f = [k \in 0 .. m + 1 |-> Step(f, k)]
    BY <2>3
  <2> QED BY <2>4
<1>3. n \in N
  <2> HIDE DEF N
  <2> QED BY <1>1, <1>2, NatSetInduction
<1>4. F = [k \in 0 .. n |-> Step(F, k)]
  BY <1>3
<1>5. DecodeTurns(acc, resident) = F[n]
  BY DEF DecodeTurns
<1> HIDE DEF F
<1>6. F[0] = acc /\ \A k \in 1 .. n : F[k] = DecodeTurn(F[k - 1], resident)
  <2>1. \A k \in 0 .. n : F[k] = Step(F, k)
    BY <1>4
  <2>2. 0 \in 0 .. n /\ \A k \in 1 .. n : k \in 0 .. n
    OBVIOUS
  <2>3. F[0] = Step(F, 0)
    BY <2>1, <2>2
  <2> QED BY <2>1, <2>2, <2>3
<1> QED BY <1>5, <1>6 DEF TurnsOfDecode

LEMMA DecodeTurnsDecode ==
  ASSUME config \in Configs, NEW s, NEW acc, NEW resident \in BOOLEAN,
         DecodingTurns(s, acc, resident)
  PROVE  DecodingTurns(s, DecodeTurns(acc, resident), resident)
<1> DEFINE n == Len(acc.cands)
<1>1. n \in Nat
  BY LenProperties DEF DecodingTurns, Queue
<1>2. PICK f : TurnsOfDecode(f, acc, resident, n)
  BY <1>1, TurnsOfDecodeExist
<1>3. /\ f[0] = acc /\ \A k \in 1 .. n : f[k] = DecodeTurn(f[k - 1], resident)
      /\ DecodeTurns(acc, resident) = f[n]
  BY <1>2 DEF TurnsOfDecode
<1> DEFINE N == {m \in Nat : m <= n => DecodingTurns(s, f[m], resident)}
<1> HIDE DEF n
<1>4. 0 \in N
  BY <1>3
<1>5. ASSUME NEW m \in Nat, m \in N PROVE m + 1 \in N
  <2> SUFFICES ASSUME m + 1 <= n PROVE DecodingTurns(s, f[m + 1], resident)
    OBVIOUS
  <2>1. m + 1 \in 1 .. n /\ (m + 1) - 1 = m /\ DecodingTurns(s, f[m], resident)
    BY <1>1, <1>5
  <2>2. f[m + 1] = DecodeTurn(f[m], resident)
    BY <1>3, <2>1
  <2> QED BY <2>1, <2>2, DecodeTurnDecodes
<1>6. \A m \in Nat : m \in N
  <2> HIDE DEF N
  <2> QED BY <1>4, <1>5, NatSetInduction
<1>7. DecodingTurns(s, f[n], resident)
  <2>1. n \in N /\ n <= n
    <3> HIDE DEF N
    <3> QED BY <1>1, <1>6
  <2> QED BY <2>1
<1> QED BY <1>3, <1>7

\* The scheduled requests, those left running and the candidates, in this order.
RestoredOK(s, acc, x, resident) ==
  /\ Valid(x, {}) /\ Len(x.running) <= MaxNumSeqs /\ Plans(s, x, resident)
  /\ x.seqs = acc.s.seqs

LEMMA RestoredValid ==
  ASSUME NEW s, NEW acc, NEW resident, DecodingTurns(s, acc, resident)
  PROVE  RestoredOK(s, acc, RestoreRunning(acc), resident)
<1> DEFINE z == acc.s
           w == acc.scheduled \o z.running
           u == w \o acc.cands
           x == RestoreRunning(acc)
           R == Having(z, {"prefilling", "decoding"})
<1>1. /\ acc.cands \in Seq(Requests) /\ IsInjective(acc.cands)
      /\ acc.scheduled \in Seq(Requests) /\ IsInjective(acc.scheduled)
      /\ Range(acc.cands) \cap Range(acc.scheduled) = {}
  BY DEF DecodingTurns, Queue
<1>2. /\ Valid(z, InHand(acc)) /\ Shaped(z)
      /\ z.running \in Seq(Requests) /\ IsInjective(z.running)
      /\ Range(z.running) = R \ InHand(acc)
  BY DEF DecodingTurns, Valid, QueuesOK, Queue
<1>3. InHand(acc) \subseteq R
  BY DEF DecodingTurns, Having
<1> HIDE DEF R
<1>4. Range(acc.scheduled) \cap Range(z.running) = {}
  BY <1>2 DEF InHand
<1>5. /\ w \in Seq(Requests) /\ IsInjective(w)
      /\ Range(w) = Range(acc.scheduled) \cup Range(z.running)
  BY <1>1, <1>2, <1>4, JoinProperties
<1>6. Len(w) = Len(acc.scheduled) + Len(z.running)
  BY <1>1, <1>2, ConcatProperties
<1>7. x = Requeue(z, z.waiting, u, z.swapped, z.consecutive, z.fault)
  BY <1>2 DEF Shaped, Requeue, RestoreRunning
<1> HIDE DEF w
<1>8. Range(w) \cap Range(acc.cands) = {}
  BY <1>1, <1>2, <1>5 DEF InHand
<1>9. /\ u \in Seq(Requests) /\ IsInjective(u) /\ Range(u) = Range(w) \cup Range(acc.cands)
  BY <1>1, <1>5, <1>8, JoinProperties
<1>10. Len(u) = Len(w) + Len(acc.cands)
  BY <1>1, <1>5, ConcatProperties
<1> HIDE DEF u, x
<1>11. Range(u) = R
  BY <1>2, <1>3, <1>5, <1>9 DEF InHand
<1>12. Requeued(z, x, z.waiting, u, z.swapped, z.consecutive, z.fault)
  BY <1>2, <1>7, RequeueFields
<1>13. /\ Shaped(x) /\ x.seqs = z.seqs /\ x.pool = z.pool
       /\ x.cpuFree = z.cpuFree /\ x.fault = z.fault
       /\ x.waiting = z.waiting /\ x.running = u /\ x.swapped = z.swapped
  BY <1>12 DEF Requeued
<1>14. Valid(x, {})
  <2>1. Queue(x.running, Having(z, {"prefilling", "decoding"}) \ {})
    BY <1>9, <1>11, <1>13 DEF R, Queue
  <2> HIDE DEF z
  <2> QED BY <1>2, <1>13, <2>1, RequeuedValid
<1>15. Len(x.running) <= MaxNumSeqs
  <2> DEFINE a == Len(z.running)  b == Len(acc.cands)  c == Len(acc.scheduled)
  <2>1. a \in Nat /\ b \in Nat /\ c \in Nat
    BY <1>1, <1>2, LenProperties
  <2>2. a + b + c <= MaxNumSeqs
    BY DEF DecodingTurns
  <2>3. Len(x.running) = (c + a) + b
    BY <1>6, <1>10, <1>13
  <2> HIDE DEF a, b, c
  <2>4. (c + a) + b = a + b + c
    BY <2>1
  <2> QED BY <2>2, <2>3, <2>4
<1>16. Plans(s, x, resident)
  <2>1. Plans(s, z, resident) /\ Stays(z, x)
    BY <1>13 DEF DecodingTurns, Stays
  <2> QED BY <2>1, PlansCompose
<1>17. RestoredOK(s, acc, x, resident)
  BY <1>13, <1>14, <1>15, <1>16 DEF RestoredOK
<1> QED BY <1>17 DEF x

\* What _decode_plan leaves behind.
DecodePlanned(s, p, resident) ==
  /\ Valid(p.s, {}) /\ Len(p.s.running) <= MaxNumSeqs /\ Plans(s, p.s, resident)
  /\ \/ p.plan = NoPlan
     \/ /\ p.plan # NoPlan /\ p.plan.phase = "decode" /\ p.s.consecutive = 0
        /\ AllDecoding(p.s, p.plan.seqs)

LEMMA RecordedValid ==
  ASSUME NEW s, NEW done, NEW resident \in BOOLEAN, DecodingTurns(s, done, resident)
  PROVE  DecodePlanned(s, RecordDecodePlan(done, resident), resident)
<1> DEFINE x == RestoreRunning(done)
           p == RecordDecodePlan(done, resident)
<1>1. /\ Valid(x, {}) /\ Len(x.running) <= MaxNumSeqs /\ Plans(s, x, resident)
      /\ x.seqs = done.s.seqs
  BY RestoredValid DEF RestoredOK
<1>2. CASE done.scheduled # <<>>
  <2> DEFINE y == Requeue(x, x.waiting, x.running, x.swapped, 0, x.fault)
             next == [phase |-> "decode", seqs |-> done.scheduled, swapIn |-> done.swapIn,
                      swapOut |-> done.swapOut, cow |-> done.cow]
  <2> HIDE DEF x
  <2>1. [x EXCEPT !.consecutive = 0] = y
    BY <1>1 DEF Valid, Shaped, Requeue
  <2>2. p = [s |-> y, plan |-> next]
    BY <1>2, <2>1 DEF RecordDecodePlan, x
  <2>3. Valid(y, {}) /\ y.running = x.running /\ y.seqs = x.seqs /\ y.consecutive = 0
    <3>1. 0 \in Nat
      OBVIOUS
    <3> QED BY <1>1, <3>1, CountValid
  <2> HIDE DEF y
  <2>4. p.s = y /\ p.plan.phase = "decode" /\ p.plan.seqs = done.scheduled
    BY <2>2
  <2>5. p.plan # NoPlan
    <3>1. NoPlan.phase = "none"
      BY DEF NoPlan
    <3> QED BY <2>4, <3>1
  <2> HIDE DEF p, next
  <2>6. AllDecoding(y, done.scheduled)
    BY <1>1, <2>3 DEF DecodingTurns, AllDecoding, InHand, Having, Covered
  <2>7. Plans(s, y, resident)
    <3>1. Stays(x, y)
      BY <2>3 DEF Stays
    <3> QED BY <1>1, <3>1, PlansCompose
  <2>8. DecodePlanned(s, p, resident)
    BY <1>1, <2>3, <2>4, <2>5, <2>6, <2>7 DEF DecodePlanned
  <2> QED BY <2>8 DEF p
<1>3. CASE done.scheduled = <<>>
  <2> DEFINE y == IF resident THEN x ELSE Raise(x, NoRunnable)
  <2>1. p.s = y /\ p.plan = NoPlan
    BY <1>3 DEF RecordDecodePlan, Unplanned
  <2> HIDE DEF x
  <2>2. /\ Valid(Raise(x, NoRunnable), {}) /\ Raise(x, NoRunnable).running = x.running
        /\ Raise(x, NoRunnable).seqs = x.seqs
    BY <1>1, RaiseValid DEF NoRunnable, BadTransition, LatePrefill
  <2>3. Valid(y, {}) /\ y.running = x.running /\ y.seqs = x.seqs
    BY <1>1, <2>2
  <2> HIDE DEF y, p
  <2>4. Plans(s, y, resident)
    <3>1. Stays(x, y)
      BY <2>3 DEF Stays
    <3> QED BY <1>1, <3>1, PlansCompose
  <2>5. DecodePlanned(s, p, resident)
    BY <1>1, <2>1, <2>3, <2>4 DEF DecodePlanned
  <2> QED BY <2>5 DEF p
<1> QED BY <1>2, <1>3

LEMMA DecodePlanValid ==
  ASSUME config \in Configs, NEW s, Valid(s, {}), Len(s.running) <= MaxNumSeqs,
         NEW resident \in BOOLEAN
  PROVE  DecodePlanned(s, DecodePlan(s, resident), resident)
<1> DEFINE acc == SwapInAll(s, resident)
           start == TakeCandidates(acc)
           done == DecodeTurns(start, resident)
<1>1. SwappingIn(s, acc) /\ (resident => acc.s = s)
  BY SwapInAllSwaps
<1> HIDE DEF acc
<1>2. Plans(s, acc.s, resident)
  <2>1. CASE resident
    BY <1>1, <2>1, PlansCompose
  <2>2. CASE ~resident
    BY <1>1, <2>2 DEF SwappingIn, Plans
  <2> QED BY <2>1, <2>2
<1>3. DecodingTurns(s, start, resident)
  BY <1>1, <1>2, CandidatesTaken DEF SwappingIn
<1> HIDE DEF start
<1>4. DecodingTurns(s, done, resident)
  BY <1>3, DecodeTurnsDecode
<1> HIDE DEF done
<1>5. DecodePlanned(s, RecordDecodePlan(done, resident), resident)
  BY <1>4, RecordedValid
<1> QED BY <1>5 DEF DecodePlan, done, start, acc

LEMMA ScheduleDecodeValid ==
  ASSUME config \in Configs, NEW s, Valid(s, {}), Len(s.running) <= MaxNumSeqs
  PROVE  DecodePlanned(s, ScheduleDecode(s), FALSE)
<1>1. CASE DecodeWork(s)
  BY <1>1, DecodePlanValid DEF ScheduleDecode
<1>2. CASE ~DecodeWork(s)
  <2> DEFINE y == Raise(s, NoDecodeWork)
             p == ScheduleDecode(s)
  <2>1. Valid(y, {}) /\ y.running = s.running /\ y.seqs = s.seqs
    BY RaiseValid DEF NoDecodeWork, BadTransition, LatePrefill
  <2>2. p.s = y /\ p.plan = NoPlan
    BY <1>2 DEF ScheduleDecode
  <2> HIDE DEF y, p
  <2>3. Plans(s, y, FALSE)
    <3>1. Stays(s, y)
      BY <2>1 DEF Stays
    <3> QED BY <3>1, PlansCompose
  <2>4. DecodePlanned(s, p, FALSE)
    BY <2>1, <2>2, <2>3 DEF DecodePlanned
  <2> QED BY <2>4 DEF p
<1> QED BY <1>1, <1>2

\* After m of the n turns of a resident plan that found room for nobody: a decoding request
\* is still a candidate, or does not fit.
Deferred(s, acc, m, n) ==
  /\ acc.s.pool = s.pool /\ acc.s.seqs = s.seqs
  /\ Len(acc.cands) = n - m
  /\ \A r \in Decoding(s) : r \in Range(acc.cands) \/ ~CanAppend(s, r)

LEMMA DeferredTurn ==
  ASSUME config \in Configs, NEW s, NEW acc, DecodingTurns(s, acc, TRUE),
         NEW n \in Nat, NEW m \in Nat, m + 1 <= n, acc.scheduled # <<>> \/ Deferred(s, acc, m, n)
  PROVE  LET t == DecodeTurn(acc, TRUE) IN t.scheduled # <<>> \/ Deferred(s, t, m + 1, n)
<1> DEFINE r == Head(acc.cands)
           others == Tail(acc.cands)
           t == DecodeTurn(acc, TRUE)
           idle == acc.cands = <<>> \/ Len(acc.scheduled) >= MaxNumSeqs
<1>1. /\ acc.scheduled \in Seq(Requests) /\ acc.cands \in Seq(Requests) /\ IsInjective(acc.cands)
      /\ IsTurns(acc) /\ Shaped(acc.s)
  BY DEF DecodingTurns, Queue, Valid
<1>2. CASE idle
  <2>1. t = acc
    BY <1>2 DEF DecodeTurn
  <2>2. ASSUME acc.scheduled = <<>> PROVE FALSE
    <3>1. Len(acc.cands) = n - m /\ n - m # 0
      BY <2>2 DEF Deferred
    <3>2. acc.cands # <<>>
      BY <3>1, NoElements
    <3>3. Len(acc.scheduled) = 0
      BY <2>2, NoElements
    <3>4. MaxNumSeqs \in Nat \ {0}
      BY SchedulerAssumption DEF MaxNumSeqs
    <3> QED BY <1>2, <3>2, <3>3, <3>4
  <2> QED BY <2>1, <2>2
<1>3. CASE ~idle /\ CanAppend(acc.s, r)
  <2> DEFINE x == MayAppend(CopyOnWrite(acc.s, r), r)
             cow == IF CopyOnWritePair(acc.s, r) = <<>> THEN acc.cow
                    ELSE Append(acc.cow, CopyOnWritePair(acc.s, r))
  <2>1. t = [acc EXCEPT !.s = x, !.cow = cow, !.scheduled = Append(acc.scheduled, r),
                        !.cands = others]
    BY <1>1, <1>3 DEF DecodeTurn, IsTurns
  <2> HIDE DEF cow, x
  <2>2. t.scheduled = Append(acc.scheduled, r)
    BY <1>1, <2>1 DEF IsTurns
  <2>3. r \in Requests
    BY <1>1, <1>3, PopLeftProperties
  <2>4. Append(acc.scheduled, r) # <<>>
    BY <1>1, <2>3, AppendProperties
  <2> QED BY <2>2, <2>4
<1>4. CASE ~idle /\ ~CanAppend(acc.s, r)
  <2> DEFINE x == [acc.s EXCEPT !.running = Append(@, r)]
  <2>1. t = [acc EXCEPT !.s = x, !.cands = others]
    BY <1>1, <1>4 DEF DecodeTurn, IsTurns
  <2>2. x.pool = acc.s.pool /\ x.seqs = acc.s.seqs
    BY <1>1 DEF Shaped
  <2> HIDE DEF x
  <2>3. t.s = x /\ t.scheduled = acc.scheduled /\ t.cands = others
    BY <1>1, <2>1 DEF IsTurns
  <2>4. Range(others) = Range(acc.cands) \ {r} /\ Len(others) = Len(acc.cands) - 1
    BY <1>1, <1>4, PopLeftProperties
  <2> HIDE DEF t, others
  <2>5. ASSUME Deferred(s, acc, m, n) PROVE Deferred(s, t, m + 1, n)
    <3>1. acc.s.pool = s.pool /\ acc.s.seqs = s.seqs /\ Len(acc.cands) = n - m
      BY <2>5 DEF Deferred
    <3>2. ~CanAppend(s, r)
      BY <1>4, <3>1 DEF CanAppend, TailShared
    <3>3. \A q \in Decoding(s) : q \in Range(t.cands) \/ ~CanAppend(s, q)
      BY <2>3, <2>4, <2>5, <3>2 DEF Deferred
    <3>4. Len(t.cands) = n - (m + 1)
      BY <2>3, <2>4, <3>1
    <3>5. t.s.pool = s.pool /\ t.s.seqs = s.seqs
      BY <2>2, <2>3, <3>1
    <3> QED BY <3>3, <3>4, <3>5 DEF Deferred
  <2> QED BY <2>3, <2>5 DEF t
<1> QED BY <1>2, <1>3, <1>4

\* A resident plan is empty only if no decoding request has room for its next token.
LEMMA NobodyFits ==
  ASSUME config \in Configs, NEW s, Valid(s, {}), Len(s.running) <= MaxNumSeqs,
         DecodePlan(s, TRUE).plan = NoPlan
  PROVE  \A r \in Decoding(s) : ~CanAppend(s, r)
<1> DEFINE z == NoTurns(s)
           acc == TakeCandidates(z)
           n == Len(acc.cands)
           done == DecodeTurns(acc, TRUE)
<1>1. SwapInAll(s, TRUE) = z /\ IsTurns(z) /\ z.s = s /\ z.scheduled = <<>>
  BY DEF SwapInAll, NoTurns, IsTurns
<1>2. DecodingTurns(s, acc, TRUE)
  <2> HIDE DEF z
  <2>1. Plans(s, z.s, TRUE)
    BY <1>1, PlansCompose
  <2> QED BY <1>1, <2>1, CandidatesTaken
<1>3. Deferred(s, acc, 0, n)
  <2> DEFINE c == Those(s.running, Decoding(s))
             x == [s EXCEPT !.running = Those(@, Requests \ Decoding(s))]
  <2>1. /\ s.running \in Seq(Requests) /\ IsInjective(s.running) /\ Shaped(s)
        /\ Range(s.running) = Having(s, {"prefilling", "decoding"})
    BY DEF Valid, QueuesOK, Queue
  <2>2. acc = [z EXCEPT !.s = x, !.cands = c]
    BY <1>1 DEF TakeCandidates, IsTurns
  <2>3. x.pool = s.pool /\ x.seqs = s.seqs
    BY <2>1 DEF Shaped
  <2>4. Range(c) = Range(s.running) \cap Decoding(s)
    BY <2>1, ThoseProperties
  <2> HIDE DEF x, c, z
  <2>5. acc.s = x /\ acc.cands = c
    BY <1>1, <2>2 DEF IsTurns
  <2>6. Decoding(s) \subseteq Range(c)
    BY <2>1, <2>4 DEF Having, Decoding
  <2> HIDE DEF acc
  <2>7. acc.cands \in Seq(Requests)
    BY <1>2 DEF DecodingTurns, Queue
  <2>8. Len(acc.cands) = n - 0
    BY <2>7, LenProperties
  <2> QED BY <2>3, <2>5, <2>6, <2>8 DEF Deferred
<1> HIDE DEF z
<1>4. n \in Nat
  <2> HIDE DEF acc
  <2> QED BY <1>2, LenProperties DEF DecodingTurns, Queue
<1> HIDE DEF acc
<1>5. PICK f : TurnsOfDecode(f, acc, TRUE, n)
  BY <1>4, TurnsOfDecodeExist
<1>6. /\ f[0] = acc /\ \A k \in 1 .. n : f[k] = DecodeTurn(f[k - 1], TRUE)
      /\ done = f[n]
  BY <1>5 DEF TurnsOfDecode
<1> HIDE DEF n, done
<1> DEFINE Seen(m) == /\ DecodingTurns(s, f[m], TRUE)
                      /\ f[m].scheduled # <<>> \/ Deferred(s, f[m], m, n)
           N == {m \in Nat : m <= n => Seen(m)}
<1>7. 0 \in N
  BY <1>2, <1>3, <1>6
<1>8. ASSUME NEW m \in Nat, m + 1 <= n, Seen(m) PROVE Seen(m + 1)
  <2>1. m + 1 \in 1 .. n /\ (m + 1) - 1 = m
    BY <1>4, <1>8
  <2>2. f[m + 1] = DecodeTurn(f[m], TRUE)
    BY <1>6, <2>1
  <2>3. DecodingTurns(s, f[m + 1], TRUE)
    BY <1>8, <2>2, DecodeTurnDecodes
  <2>4. f[m + 1].scheduled # <<>> \/ Deferred(s, f[m + 1], m + 1, n)
    BY <1>4, <1>8, <2>2, DeferredTurn
  <2> QED BY <2>3, <2>4
<1>9. \A m \in Nat : m \in N
  <2> HIDE DEF Seen
  <2>1. ASSUME NEW m \in Nat, m \in N PROVE m + 1 \in N
    BY <1>4, <1>8, <2>1
  <2> HIDE DEF N
  <2> QED BY <1>7, <2>1, NatSetInduction
<1>10. DecodingTurns(s, done, TRUE) /\ (done.scheduled # <<>> \/ Deferred(s, done, n, n))
  <2>1. n \in N /\ n <= n
    <3> HIDE DEF N
    <3> QED BY <1>4, <1>9
  <2> QED BY <1>6, <2>1
<1> HIDE DEF N, Seen
<1>11. done.scheduled = <<>>
  <2> DEFINE p == RecordDecodePlan(done, TRUE)
  <2>1. p.plan = NoPlan
    BY <1>1 DEF DecodePlan, acc, done
  <2>2. done.scheduled # <<>> => p.plan.phase = "decode"
    BY DEF RecordDecodePlan
  <2>3. NoPlan.phase = "none"
    BY DEF NoPlan
  <2> HIDE DEF p
  <2> QED BY <2>1, <2>2, <2>3
<1>12. Range(done.cands) = {}
  <2>1. done.cands \in Seq(Requests) /\ Len(done.cands) = n - n
    BY <1>10, <1>11 DEF Deferred, DecodingTurns, Queue
  <2>2. done.cands = <<>>
    BY <1>4, <2>1, EmptySeq, LenProperties
  <2> QED BY <2>2, NoElements
<1> QED BY <1>10, <1>11, <1>12 DEF Deferred

-----------------------------------------------------------------------------
(* The steps of the engine.                                                  *)

\* What the planning of one step does to the requests.
Scheduled(s, t) ==
  \A r \in Requests :
    LET before == s.seqs[r].status
        after == t.seqs[r].status
    IN  IF before = "waiting" THEN after \in {"waiting", "prefilling"}
        ELSE IF before \in {"decoding", "swapped"} THEN after \in {"decoding", "swapped", "waiting"}
        ELSE t.seqs[r] = s.seqs[r]

LEMMA ScheduledParts ==
  ASSUME NEW s, NEW t, NEW u
  PROVE  /\ Admits(s, t) => Scheduled(s, t)
         /\ Reschedules(s, t) => Scheduled(s, t)
         /\ Stays(s, t) /\ Scheduled(t, u) => Scheduled(s, u)
         /\ Scheduled(s, t) /\ Stays(t, u) => Scheduled(s, u)
<1>1. Admits(s, t) => Scheduled(s, t)
  BY DEF Admits, Scheduled
<1>2. Reschedules(s, t) => Scheduled(s, t)
  BY DEF Reschedules, Scheduled
<1>3. Stays(s, t) /\ Scheduled(t, u) => Scheduled(s, u)
  BY DEF Stays, Scheduled
<1>4. Scheduled(s, t) /\ Stays(t, u) => Scheduled(s, u)
  BY DEF Stays, Scheduled
<1> QED BY <1>1, <1>2, <1>3, <1>4

\* What schedule() leaves behind.
PlannedOK(s, p) ==
  /\ Valid(p.s, {}) /\ Len(p.s.running) <= MaxNumSeqs
  /\ Scheduled(s, p.s) /\ PlanOK(p.s, p.plan)

LEMMA PlannedKinds ==
  ASSUME NEW s, NEW p
  PROVE  /\ PrefillPlanned(s, p) => PlannedOK(s, p)
         /\ \A resident \in BOOLEAN : DecodePlanned(s, p, resident) => PlannedOK(s, p)
         /\ \A t : Stays(t, s) /\ PlannedOK(s, p) => PlannedOK(t, p)
<1>1. PrefillPlanned(s, p) => PlannedOK(s, p)
  BY ScheduledParts DEF PrefillPlanned, PlannedOK, PlanOK
<1>2. ASSUME NEW resident \in BOOLEAN, DecodePlanned(s, p, resident) PROVE PlannedOK(s, p)
  <2>1. Scheduled(s, p.s)
    <3>1. Stays(s, p.s) => Scheduled(s, p.s)
      BY DEF Stays, Scheduled
    <3> QED BY <1>2, <3>1, ScheduledParts DEF DecodePlanned, Plans
  <2> QED BY <1>2, <2>1 DEF DecodePlanned, PlannedOK, PlanOK
<1>3. ASSUME NEW t, Stays(t, s), PlannedOK(s, p) PROVE PlannedOK(t, p)
  BY <1>3, ScheduledParts DEF PlannedOK
<1> QED BY <1>1, <1>2, <1>3

\* An attempt that settled nothing left the requests where they were; the next attempt
\* starts from there.
Attempted(s, p) == PlannedOK(s, p) /\ (~Settled(p) => Stays(s, p.s))

LEMMA DecodeUnlessPlans ==
  ASSUME config \in Configs, NEW s, NEW p, Attempted(s, p)
  PROVE  PlannedOK(s, DecodeUnless(p))
<1>1. CASE Settled(p)
  BY <1>1 DEF DecodeUnless, Attempted
<1>2. CASE ~Settled(p)
  <2>1. Valid(p.s, {}) /\ Len(p.s.running) <= MaxNumSeqs /\ Stays(s, p.s)
    BY <1>2 DEF Attempted, PlannedOK
  <2>2. PlannedOK(p.s, ScheduleDecode(p.s))
    BY <2>1, ScheduleDecodeValid, PlannedKinds
  <2> QED BY <1>2, <2>1, <2>2, PlannedKinds DEF DecodeUnless
<1> QED BY <1>1, <1>2

LEMMA PrefillAttempt ==
  ASSUME config \in Configs, NEW s, Valid(s, {}), Len(s.running) <= MaxNumSeqs
  PROVE  Attempted(s, PrefillPlan(s))
<1>1. PrefillPlanned(s, PrefillPlan(s))
  BY PrefillPlanValid
<1>2. Stays(s, s)
  BY DEF Stays
<1>3. ~Settled(PrefillPlan(s)) => PrefillPlan(s).s = s
  BY <1>1 DEF PrefillPlanned, Settled
<1> QED BY <1>1, <1>2, <1>3, PlannedKinds DEF Attempted

LEMMA SchedulePlanPlans ==
  ASSUME config \in Configs, NEW s, Valid(s, {}), Len(s.running) <= MaxNumSeqs
  PROVE  PlannedOK(s, SchedulePlan(s))
<1> DEFINE first == IF ShouldSchedulePrefill(s) THEN PrefillPlan(s) ELSE Unplanned(s)
           resident == DecodePlan(first.s, TRUE)
           retry == PrefillPlan(resident.s)
<1>1. Stays(s, s)
  BY DEF Stays
<1>2. Attempted(s, first)
  <2>1. Unplanned(s).s = s /\ Unplanned(s).plan = NoPlan
    BY DEF Unplanned
  <2>2. Scheduled(s, s)
    BY DEF Scheduled
  <2>3. Attempted(s, Unplanned(s))
    BY <1>1, <2>1, <2>2 DEF Attempted, PlannedOK, PlanOK
  <2> QED BY <2>3, PrefillAttempt
<1> HIDE DEF first
<1>3. Valid(first.s, {}) /\ Len(first.s.running) <= MaxNumSeqs
  BY <1>2 DEF Attempted, PlannedOK
<1>4. CASE Settled(first) \/ ~RunningPrefill(s)
  <2>1. SchedulePlan(s) = DecodeUnless(first)
    BY <1>4 DEF SchedulePlan, AfterPrefill, first
  <2> QED BY <1>2, <2>1, DecodeUnlessPlans
<1>5. CASE ~(Settled(first) \/ ~RunningPrefill(s))
  <2>1. SchedulePlan(s) = RetryPrefillUnless(resident)
    BY <1>5 DEF SchedulePlan, AfterPrefill, first
  <2>2. DecodePlanned(first.s, resident, TRUE)
    BY <1>3, DecodePlanValid
  <2> HIDE DEF resident
  <2>3. /\ PlannedOK(first.s, resident) /\ Stays(first.s, resident.s) /\ Stays(s, first.s)
        /\ Valid(resident.s, {}) /\ Len(resident.s.running) <= MaxNumSeqs
    BY <1>2, <1>5, <2>2, PlannedKinds DEF DecodePlanned, Plans, Attempted
  <2>4. CASE Settled(resident)
    BY <2>1, <2>3, <2>4, PlannedKinds DEF RetryPrefillUnless
  <2>5. CASE ~Settled(resident)
    <3>1. Attempted(resident.s, retry)
      BY <2>3, PrefillAttempt
    <3> HIDE DEF retry
    <3>2. PlannedOK(resident.s, DecodeUnless(retry))
      BY <3>1, DecodeUnlessPlans
    <3>3. PlannedOK(first.s, DecodeUnless(retry))
      BY <2>3, <3>2, PlannedKinds
    <3>4. PlannedOK(s, DecodeUnless(retry))
      BY <2>3, <3>3, PlannedKinds
    <3> QED BY <2>1, <2>5, <3>4 DEF RetryPrefillUnless, retry
  <2> QED BY <2>4, <2>5
<1> QED BY <1>4, <1>5

LEMMA BecomeGood ==
  ASSUME NEW t, Become(t), config \in Configs, config' = config,
         NEW p, p = plan', NEW w, w = pending', Good(t, p, w)
  PROVE  IInv'
<1>1. Engine' = t
  BY DEF Become, Engine, Good, Valid, Shaped
<1>2. MaxNumSeqs' = MaxNumSeqs /\ CpuBlock' = CpuBlock
  BY DEF MaxNumSeqs, CpuBlock, NumCpuBlocks
<1>3. Shaped(t)'
  BY <1>2 DEF Good, Valid, Shaped, IsSequence
<1>4. CpuOK(t)'
  BY <1>2 DEF Good, Valid, CpuOK
<1>5. Valid(t, {})'
  BY <1>3, <1>4 DEF Good, Valid
<1>6. Good(t, p, w)'
  BY <1>2, <1>5 DEF Good
<1> QED BY <1>1, <1>6 DEF IInv

\* Every request takes at most one edge of the request state machine.
Moves(s, t) == \A r \in Requests : Lifecycle!MayMove(s.seqs[r].status, t.seqs[r].status)

StepMoves == \A r \in Requests : Lifecycle!MayMove(seqs[r].status, seqs'[r].status)

LEMMA MovesFields ==
  ASSUME NEW t, Become(t), Moves(Engine, t)
  PROVE  StepMoves
  BY DEF Moves, StepMoves, Become, Engine

LEMMA OneMoves ==
  ASSUME NEW s, Shaped(s), NEW t, NEW r \in Requests,
         \A q \in Requests : q # r => t.seqs[q] = s.seqs[q],
         Lifecycle!MayMove(s.seqs[r].status, t.seqs[r].status)
  PROVE  Moves(s, t)
<1>1. \A q \in Requests : s.seqs[q].status \in Statuses
  BY DEF Shaped, IsSequence
<1>2. \A q \in Requests : Lifecycle!MayMove(s.seqs[q].status, s.seqs[q].status)
  BY <1>1, Edges
<1> QED BY <1>2 DEF Moves

LEMMA ScheduledMoves ==
  ASSUME NEW s, Shaped(s), NEW t, Scheduled(s, t)
  PROVE  Moves(s, t)
<1> SUFFICES ASSUME NEW r \in Requests
             PROVE  Lifecycle!MayMove(s.seqs[r].status, t.seqs[r].status)
  BY DEF Moves
<1>1. s.seqs[r].status \in Statuses
  BY DEF Shaped, IsSequence
<1>2. Lifecycle!MayMove(s.seqs[r].status, s.seqs[r].status)
  BY <1>1, Edges
<1>3. {"waiting", "decoding", "swapped"} \subseteq Statuses
  BY DEF Statuses, Lifecycle!LiveStates
<1>4. CASE s.seqs[r].status = "waiting"
  <2>1. t.seqs[r].status = "waiting" \/ t.seqs[r].status = "prefilling"
    BY <1>4 DEF Scheduled
  <2> QED BY <1>2, <1>4, <2>1, Edges
<1>5. CASE s.seqs[r].status \in {"decoding", "swapped"}
  <2>1. t.seqs[r].status \in {"decoding", "swapped", "waiting"}
    BY <1>5 DEF Scheduled
  <2> QED BY <1>2, <1>5, <2>1, Edges
<1>6. CASE s.seqs[r].status \notin {"waiting", "decoding", "swapped"}
  BY <1>2, <1>6 DEF Scheduled
<1> QED BY <1>4, <1>5, <1>6

\* The slices of requests that a step leaves alone.
LEMMA PausedKept ==
  ASSUME NEW s, NEW t, NEW p, NEW next, NEW w, PausedOK(s, p, w),
         next # NoPlan => next.phase = "decode",
         w # NoPending => \A k \in 1 .. Len(w.plan.seqs) :
                            t.seqs[w.plan.seqs[k]] = s.seqs[w.plan.seqs[k]]
  PROVE  PausedOK(t, next, w)
  BY DEF PausedOK, SlicesOK

LEMMA PausedPrefilling ==
  ASSUME NEW s, NEW t, NEW p, NEW next, NEW w, PausedOK(s, p, w),
         next # NoPlan => next.phase = "decode",
         \A r \in Requests : s.seqs[r].status = "prefilling" => t.seqs[r] = s.seqs[r]
  PROVE  PausedOK(t, next, w)
<1>1. ASSUME w # NoPending, NEW k \in 1 .. Len(w.plan.seqs)
      PROVE  t.seqs[w.plan.seqs[k]] = s.seqs[w.plan.seqs[k]]
  <2>1. w.plan.seqs \in Seq(Requests) /\ s.seqs[w.plan.seqs[k]].status = "prefilling"
    BY <1>1 DEF PausedOK, SlicesOK
  <2>2. w.plan.seqs[k] \in Requests
    BY <1>1, <2>1, ElementOfSeq
  <2> QED BY <2>1, <2>2
<1> QED BY <1>1, PausedKept

LEMMA IdleGood ==
  ASSUME IInv, Idle
  PROVE  /\ Valid(Engine, {}) /\ Shaped(Engine) /\ Len(Engine.running) <= MaxNumSeqs
         /\ plan = NoPlan /\ PausedOK(Engine, plan, pending)
         /\ TurnsOK(Engine, pending) /\ config \in Configs
         /\ \A t : PlanOK(t, NoPlan)
  BY DEF IInv, Good, Idle, Valid, PlanOK

LEMMA AddKeeps ==
  ASSUME IInv, NEW r \in Requests, Add(r), config' = config
  PROVE  IInv' /\ StepMoves
<1> DEFINE t == [Transition(Engine, r, "waiting") EXCEPT !.waiting = Append(@, r)]
<1>1. Become(t) /\ Idle /\ Engine.seqs[r].status = "new" /\ plan' = plan /\ pending' = pending
  BY DEF Add, Engine
<1>2. /\ Valid(Engine, {}) /\ Shaped(Engine) /\ Len(Engine.running) <= MaxNumSeqs
      /\ plan = NoPlan /\ PausedOK(Engine, plan, pending) /\ config \in Configs
      /\ PlanOK(t, NoPlan) /\ TurnsOK(Engine, pending)
  BY <1>1, IdleGood
<1>3. /\ Valid(t, {}) /\ t.running = Engine.running /\ t.consecutive = Engine.consecutive
      /\ t.seqs[r].status = "waiting"
      /\ \A q \in Requests : q # r => t.seqs[q] = Engine.seqs[q]
  BY <1>1, <1>2, AddValid
<1> HIDE DEF t
<1>4. PausedOK(t, NoPlan, pending)
  BY <1>1, <1>2, <1>3, PausedPrefilling
<1>5. Good(t, NoPlan, pending)
  BY <1>2, <1>3, <1>4 DEF Good, TurnsOK
<1>6. Moves(Engine, t)
  BY <1>1, <1>2, <1>3, OneMoves, Edges
<1> QED BY <1>1, <1>2, <1>5, <1>6, BecomeGood, MovesFields

LEMMA RejectKeeps ==
  ASSUME IInv, NEW r \in Requests, Reject(r), config' = config
  PROVE  IInv' /\ StepMoves
<1> DEFINE t == Transition(Engine, r, "rejected")
<1>1. Become(t) /\ Idle /\ Engine.seqs[r].status = "new" /\ plan' = plan /\ pending' = pending
  BY DEF Reject, Engine
<1>2. /\ Valid(Engine, {}) /\ Shaped(Engine) /\ Len(Engine.running) <= MaxNumSeqs
      /\ plan = NoPlan /\ PausedOK(Engine, plan, pending) /\ config \in Configs
      /\ PlanOK(t, NoPlan) /\ TurnsOK(Engine, pending)
  BY <1>1, IdleGood
<1>3. /\ Valid(t, {}) /\ t.running = Engine.running /\ t.consecutive = Engine.consecutive
      /\ t.seqs[r].status = "rejected"
      /\ \A q \in Requests : q # r => t.seqs[q] = Engine.seqs[q]
  BY <1>1, <1>2, RejectValid
<1> HIDE DEF t
<1>4. PausedOK(t, NoPlan, pending)
  BY <1>1, <1>2, <1>3, PausedPrefilling
<1>5. Good(t, NoPlan, pending)
  BY <1>2, <1>3, <1>4 DEF Good, TurnsOK
<1>6. Moves(Engine, t)
  BY <1>1, <1>2, <1>3, OneMoves, Edges
<1> QED BY <1>1, <1>2, <1>5, <1>6, BecomeGood, MovesFields

LEMMA QueuedLives ==
  ASSUME Valid(Engine, {}), NEW r \in ToSet(waiting \o running \o swapped)
  PROVE  r \in Requests /\ Engine.seqs[r].status \in Lifecycle!LiveStates
<1>1. /\ Queue(waiting, Having(Engine, {"waiting"})) /\ Queue(swapped, Having(Engine, {"swapped"}))
      /\ Queue(running, Having(Engine, {"prefilling", "decoding"}))
  BY DEF Valid, QueuesOK, Queue, Engine
<1>2. waiting \in Seq(Requests) /\ running \in Seq(Requests) /\ swapped \in Seq(Requests)
  BY <1>1 DEF Queue
<1>3. Range(waiting \o running \o swapped) = Range(waiting) \cup Range(running) \cup Range(swapped)
  <2> DEFINE u == waiting \o running
  <2>1. u \in Seq(Requests) /\ Range(u) = Range(waiting) \cup Range(running)
    BY <1>2, ConcatProperties, RangeConcatenation
  <2> HIDE DEF u
  <2>2. Range(u \o swapped) = Range(u) \cup Range(swapped)
    BY <1>2, <2>1, RangeConcatenation
  <2> QED BY <2>1, <2>2 DEF u
<1>4. r \in Range(waiting) \/ r \in Range(running) \/ r \in Range(swapped)
  BY <1>3, ToSetRange
<1> QED BY <1>1, <1>4 DEF Queue, Having, Lifecycle!LiveStates

LEMMA CancelKeeps ==
  ASSUME IInv, NEW r, Cancel(r), config' = config
  PROVE  IInv' /\ StepMoves
<1> DEFINE without(queue) == Those(queue, Requests \ {r})
           t == Transition([DeallocateSequence(Engine, r)
                              EXCEPT !.waiting = without(@), !.running = without(@),
                                     !.swapped = without(@)], r, "cancelled")
           w == DropPaused(r)
<1>1. /\ Become(t) /\ Idle /\ r \in ToSet(waiting \o running \o swapped)
      /\ plan' = plan /\ pending' = w
  BY DEF Cancel
<1>2. /\ Valid(Engine, {}) /\ Shaped(Engine) /\ Len(Engine.running) <= MaxNumSeqs
      /\ plan = NoPlan /\ PausedOK(Engine, plan, pending) /\ config \in Configs
      /\ PlanOK(t, NoPlan) /\ TurnsOK(Engine, pending)
  BY <1>1, IdleGood
<1>3. r \in Requests /\ Engine.seqs[r].status \in Lifecycle!LiveStates
  BY <1>1, <1>2, QueuedLives
<1>4. /\ Valid(t, {}) /\ Len(t.running) <= Len(Engine.running) /\ t.seqs[r].status = "cancelled"
      /\ t.consecutive = Engine.consecutive
      /\ \A q \in Requests : q # r => t.seqs[q] = Engine.seqs[q]
  BY <1>2, <1>3, CancelValid, Zenon
<1> HIDE DEF t
<1>5. PausedOK(t, NoPlan, w)
  <2>1. CASE w = NoPending
    BY <2>1 DEF PausedOK
  <2>2. CASE w # NoPending
    <3>1. w = pending /\ r \notin Range(pending.plan.seqs)
      BY <2>2, ToSetRange DEF DropPaused
    <3>2. pending.plan.seqs \in Seq(Requests)
      BY <1>2, <2>2, <3>1 DEF PausedOK, SlicesOK
    <3>3. ASSUME NEW k \in 1 .. Len(pending.plan.seqs)
          PROVE  t.seqs[pending.plan.seqs[k]] = Engine.seqs[pending.plan.seqs[k]]
      <4>1. k \in DOMAIN pending.plan.seqs /\ pending.plan.seqs[k] \in Requests
        BY <3>2, LenProperties, ElementOfSeq
      <4>2. pending.plan.seqs[k] # r
        BY <3>1, <4>1 DEF Range
      <4> QED BY <1>4, <4>1, <4>2
    <3>4. PausedOK(t, NoPlan, pending)
      BY <1>2, <3>3, PausedKept
    <3> QED BY <3>1, <3>4
  <2> QED BY <2>1, <2>2
<1>t. TurnsOK(t, w)
  <2>1. w = pending \/ w = NoPending
    BY DEF DropPaused
  <2> QED BY <1>2, <1>4, <2>1 DEF TurnsOK
<1> HIDE DEF w
<1>6. Len(t.running) <= MaxNumSeqs
  <2>1. Len(t.running) \in Nat /\ Len(Engine.running) \in Nat
    BY <1>2, <1>4, LenProperties DEF Valid, QueuesOK, Queue
  <2> QED BY <1>2, <1>4, <2>1, NumSeqsNat
<1>7. Good(t, NoPlan, w)
  BY <1>2, <1>4, <1>5, <1>6, <1>t DEF Good
<1>8. Moves(Engine, t)
  BY <1>2, <1>3, <1>4, OneMoves, Edges
<1> QED BY <1>1, <1>2, <1>7, <1>8, BecomeGood, MovesFields

\* A paused prefill waits for one decode step, or is completed.
LEMMA DecodeOrFinishKeeps ==
  ASSUME config \in Configs, config' = config,
         NEW s, Valid(s, {}), Len(s.running) <= MaxNumSeqs,
         NEW w, w # NoPending, PausedOK(s, NoPlan, w),
         NEW d, d = DecodePlan(s, TRUE), DecodeOrFinish(d, w)
  PROVE  IInv' /\ Become(d.s) /\ Stays(s, d.s)
<1>1. DecodePlanned(s, d, TRUE)
  BY DecodePlanValid
<1>2. /\ Valid(d.s, {}) /\ Len(d.s.running) <= MaxNumSeqs /\ Stays(s, d.s)
      /\ \/ d.plan = NoPlan
         \/ /\ d.plan # NoPlan /\ d.plan.phase = "decode" /\ d.s.consecutive = 0
            /\ AllDecoding(d.s, d.plan.seqs)
  BY <1>1 DEF DecodePlanned, Plans
<1>3. Become(d.s)
  BY DEF DecodeOrFinish
<1>4. \A r \in Requests : s.seqs[r].status = "prefilling" => d.s.seqs[r] = s.seqs[r]
  BY <1>2 DEF Stays
<1>5. CASE d.plan # NoPlan
  <2>1. plan' = d.plan /\ pending' = w
    BY <1>5 DEF DecodeOrFinish
  <2>2. PausedOK(d.s, d.plan, w)
    BY <1>2, <1>4, PausedPrefilling
  <2>3. Good(d.s, d.plan, w)
    BY <1>2, <1>5, <2>2 DEF Good, PlanOK, TurnsOK
  <2> QED BY <1>2, <1>3, <2>1, <2>3, BecomeGood
<1>6. CASE d.plan = NoPlan
  <2>1. plan' = w.plan /\ pending' = NoPending
    BY <1>6 DEF DecodeOrFinish
  <2>2. w.plan.phase = "prefill" /\ SlicesOK(s, w.plan.seqs, w.plan.slices)
    BY DEF PausedOK
  <2>3. SlicesOK(d.s, w.plan.seqs, w.plan.slices)
    BY <1>4, <2>2, SlicesKept
  <2>4. Good(d.s, w.plan, NoPending)
    BY <1>2, <2>2, <2>3 DEF Good, PlanOK, PausedOK, TurnsOK
  <2> QED BY <1>2, <1>3, <2>1, <2>4, BecomeGood
<1> QED BY <1>5, <1>6

LEMMA NoPlanPhase == NoPlan.phase = "none" /\ NoPending.plan = NoPlan
  BY DEF NoPlan, NoPending

LEMMA StartStepKeeps ==
  ASSUME config \in Configs, config' = config, pending = NoPending, Shaped(Engine),
         NEW p, PlannedOK(Engine, p), StartStep(p)
  PROVE  IInv' /\ StepMoves
<1>1. /\ Valid(p.s, {}) /\ Len(p.s.running) <= MaxNumSeqs /\ Scheduled(Engine, p.s)
      /\ PlanOK(p.s, p.plan)
  BY DEF PlannedOK
<1>2. CASE Cooperative /\ p.plan.phase = "prefill" /\ DecodeWork(p.s)
  <2> DEFINE w == [plan |-> p.plan, left |-> PrefillQuanta]
             d == DecodePlan(p.s, TRUE)
  <2>1. DecodeOrFinish(d, w)
    BY <1>2 DEF StartStep
  <2>2. SlicesOK(p.s, p.plan.seqs, p.plan.slices)
    BY <1>1, <1>2, NoPlanPhase DEF PlanOK
  <2>3. w \in [plan : {w.plan}, left : Nat] /\ w.plan = p.plan
    BY SchedulerAssumption
  <2> HIDE DEF w, d
  <2>4. w # NoPending
    BY <1>2, <2>3, NoPlanPhase
  <2>5. PausedOK(p.s, NoPlan, w)
    BY <1>2, <2>2, <2>3 DEF PausedOK
  <2>6. d = DecodePlan(p.s, TRUE)
    BY DEF d
  <2>7. IInv' /\ Become(d.s) /\ Stays(p.s, d.s)
    BY <1>1, <2>1, <2>4, <2>5, <2>6, DecodeOrFinishKeeps
  <2>8. Scheduled(Engine, d.s)
    BY <1>1, <2>7, ScheduledParts
  <2>9. Moves(Engine, d.s)
    BY <2>8, ScheduledMoves
  <2> QED BY <2>7, <2>9, MovesFields
<1>3. CASE ~(Cooperative /\ p.plan.phase = "prefill" /\ DecodeWork(p.s))
  <2>1. Become(p.s) /\ plan' = p.plan /\ pending' = NoPending
    BY <1>3 DEF StartStep
  <2>2. Good(p.s, p.plan, NoPending)
    BY <1>1 DEF Good, PausedOK, TurnsOK
  <2>3. Moves(Engine, p.s)
    BY <1>1, ScheduledMoves
  <2> QED BY <2>1, <2>2, <2>3, BecomeGood, MovesFields
<1> QED BY <1>2, <1>3

LEMMA ScheduleKeeps ==
  ASSUME IInv, Schedule, config' = config
  PROVE  IInv' /\ StepMoves
<1>1. Idle /\ pending = NoPending /\ StartStep(SchedulePlan(Engine))
  BY DEF Schedule
<1>2. /\ Valid(Engine, {}) /\ Shaped(Engine) /\ Len(Engine.running) <= MaxNumSeqs
      /\ config \in Configs
  BY <1>1, IdleGood
<1>3. PlannedOK(Engine, SchedulePlan(Engine))
  BY <1>2, SchedulePlanPlans
<1> QED BY <1>1, <1>2, <1>3, StartStepKeeps

LEMMA AdvancePrefillKeeps ==
  ASSUME IInv, AdvancePrefill, config' = config
  PROVE  IInv' /\ StepMoves
<1>1. Idle /\ pending # NoPending
  BY DEF AdvancePrefill
<1>2. /\ Valid(Engine, {}) /\ Shaped(Engine) /\ Len(Engine.running) <= MaxNumSeqs
      /\ plan = NoPlan /\ PausedOK(Engine, plan, pending) /\ config \in Configs
  BY <1>1, IdleGood
<1>3. /\ pending \in [plan : {pending.plan}, left : Nat] /\ pending.plan.phase = "prefill"
      /\ SlicesOK(Engine, pending.plan.seqs, pending.plan.slices)
  BY <1>1, <1>2 DEF PausedOK
<1>4. CASE DecodeWork(Engine) /\ pending.left > 1
  <2> DEFINE w == [pending EXCEPT !.left = @ - 1]
             d == DecodePlan(Engine, TRUE)
  <2>1. DecodeOrFinish(d, w)
    BY <1>4 DEF AdvancePrefill
  <2>2. w \in [plan : {w.plan}, left : Nat] /\ w.plan = pending.plan
    BY <1>3, <1>4
  <2> HIDE DEF w, d
  <2>3. w # NoPending
    BY <1>3, <2>2, NoPlanPhase
  <2>4. PausedOK(Engine, NoPlan, w)
    BY <1>3, <2>2 DEF PausedOK
  <2>5. d = DecodePlan(Engine, TRUE)
    BY DEF d
  <2>6. IInv' /\ Become(d.s) /\ Stays(Engine, d.s)
    BY <1>2, <2>1, <2>3, <2>4, <2>5, DecodeOrFinishKeeps
  <2>7. Scheduled(Engine, d.s)
    <3>1. Scheduled(Engine, Engine)
      BY DEF Scheduled
    <3> QED BY <2>6, <3>1, ScheduledParts
  <2>8. Moves(Engine, d.s)
    BY <1>2, <2>7, ScheduledMoves
  <2> QED BY <2>6, <2>8, MovesFields
<1>5. CASE ~(DecodeWork(Engine) /\ pending.left > 1)
  <2>1. Become(Engine) /\ plan' = pending.plan /\ pending' = NoPending
    BY <1>5 DEF AdvancePrefill
  <2>2. Good(Engine, pending.plan, NoPending)
    BY <1>2, <1>3 DEF Good, PlanOK, PausedOK, TurnsOK
  <2>3. Moves(Engine, Engine)
    <3>1. Scheduled(Engine, Engine)
      BY DEF Scheduled
    <3> QED BY <1>2, <3>1, ScheduledMoves
  <2> QED BY <1>2, <2>1, <2>2, <2>3, BecomeGood, MovesFields
<1> QED BY <1>4, <1>5

\* One more token of r.
Appended(s, r, token) == [s EXCEPT !.seqs[r].tokens = Append(@, token)]

LEMMA AppendedRewrites ==
  ASSUME NEW s, Shaped(s), NEW r \in Requests, NEW token
  PROVE  Appended(s, r, token) = Rewrite(s, s.pool, s.cpuFree, r,
                                         [s.seqs[r] EXCEPT !.tokens = Append(@, token)])
  BY DEF Shaped, Rewrite, Appended

LEMMA TokenAppended ==
  ASSUME NEW s, NEW out, Valid(s, out), NEW r \in Requests, NEW token \in Tokens,
         s.seqs[r].status = "decoding", r \in Covered(s)
  PROVE  LET t == Appended(s, r, token)
         IN  /\ Valid(t, out) /\ Shaped(t) /\ t.running = s.running
             /\ t.consecutive = s.consecutive
             /\ t.seqs[r].status = s.seqs[r].status
             /\ \A q \in Requests : q # r => t.seqs[q] = s.seqs[q]
<1> DEFINE u == s.seqs[r]
           tokens == Append(u.tokens, token)
           q1 == [u EXCEPT !.tokens = tokens]
           t == Rewrite(s, s.pool, s.cpuFree, r, q1)
<1>1. Shaped(s) /\ IsSequence(r, u) /\ s.cpuFree \in Seq(CpuBlock) /\ SequenceOK(u)
  BY DEF Valid, Shaped
<1>2. Appended(s, r, token) = t
  BY <1>1, AppendedRewrites
<1>3. tokens \in Seq(Tokens) /\ PromptLen(r) <= Len(tokens) /\ Len(tokens) - 1 = Len(u.tokens)
  <2>1. u.tokens \in Seq(Tokens) /\ PromptLen(r) <= Len(u.tokens) /\ PromptLen(r) \in Nat
    BY <1>1, TokensOf
  <2>2. tokens \in Seq(Tokens) /\ Len(tokens) = Len(u.tokens) + 1
    BY <2>1, AppendProperties
  <2>3. Len(u.tokens) \in Nat
    BY <2>1, LenProperties
  <2> QED BY <2>1, <2>2, <2>3
<1> HIDE DEF tokens
<1>4. /\ IsSequence(r, q1)
      /\ q1.status = u.status /\ q1.tokens = tokens /\ q1.cached = u.cached
      /\ q1.computed = u.computed /\ q1.table = u.table /\ q1.cpuTable = u.cpuTable
      /\ q1.cpuHashes = u.cpuHashes
  BY <1>1, <1>3 DEF IsSequence
<1> HIDE DEF q1
<1>5. Rewritten(s, t, s.pool, s.cpuFree, r, q1)
  BY <1>1, <1>4, RewriteFields
<1> HIDE DEF t
<1>6. /\ Shaped(t) /\ t.pool = s.pool /\ t.cpuFree = s.cpuFree /\ t.fault = s.fault
      /\ t.waiting = s.waiting /\ t.running = s.running /\ t.swapped = s.swapped
      /\ t.consecutive = s.consecutive
      /\ t.seqs[r] = q1 /\ \A q \in Requests : q # r => t.seqs[q] = s.seqs[q]
  BY <1>5 DEF Rewritten
<1>7. \A q \in Requests : t.seqs[q].cpuTable = s.seqs[q].cpuTable
                          /\ t.seqs[q].status = s.seqs[q].status
  BY <1>4, <1>6
<1>8. CpuOK(t)
  BY <1>6, <1>7, CpuKept DEF Valid
<1>9. \A S : Having(t, S) = Having(s, S)
  BY <1>7 DEF Having
<1>10. QueuesOK(t, out)
  BY <1>6, <1>9 DEF Valid, QueuesOK
<1>11. PagesOK(t)
  <2>1. SamePages(s, t)
    BY <1>4, <1>6 DEF SamePages
  <2> QED BY <2>1, PagesKept DEF Valid
<1>12. SequenceOK(t.seqs[r])
  <2>1. Pages(Len(q1.tokens) - 1) = NumPages(u)
    BY <1>3, <1>4 DEF NumPages
  <2>2. NumPages(u) <= Len(u.table)
    BY DEF Covered
  <2>3. Pages(Len(q1.tokens) - 1) <= Len(q1.table)
    BY <1>4, <2>1, <2>2
  <2> QED BY <1>1, <1>4, <1>6, <2>3 DEF SequenceOK
<1>13. Valid(t, out)
  BY <1>6, <1>8, <1>10, <1>11, <1>12, ValidMove
<1> QED BY <1>2, <1>6, <1>7, <1>13

\* The two edges a request may take with its new token commute with the token.
LEMMA RewriteTwice ==
  ASSUME NEW s, Shaped(s), NEW p, NEW f, NEW r \in Requests, NEW q, NEW p2, NEW f2, NEW q2
  PROVE  /\ Rewrite(Rewrite(s, p, f, r, q), p2, f2, r, q2) = Rewrite(s, p2, f2, r, q2)
         /\ Rewrite(s, p, f, r, q).pool = p /\ Rewrite(s, p, f, r, q).cpuFree = f
         /\ Rewrite(s, p, f, r, q).seqs[r] = q
  BY DEF Shaped, Rewrite

LEMMA TransitionRewrites ==
  ASSUME NEW s, Shaped(s), NEW r \in Requests, NEW target,
         Lifecycle!MayMove(s.seqs[r].status, target)
  PROVE  Transition(s, r, target) = Rewrite(s, s.pool, s.cpuFree, r,
                                            [s.seqs[r] EXCEPT !.status = target])
  BY DEF Transition, Shaped, Rewrite

LEMMA DecodingFirst ==
  ASSUME NEW s, Shaped(s), NEW r \in Requests, s.seqs[r].status = "prefilling",
         NEW token \in Tokens
  PROVE  LET a == Appended(s, r, token)
             d == Appended(Transition(s, r, "decoding"), r, token)
         IN  /\ Transition(a, r, "decoding") = d
             /\ Transition(a, r, "finished") = Transition(d, r, "finished")
             /\ a.seqs[r].tokens = d.seqs[r].tokens
<1> DEFINE u == s.seqs[r]
           tokens == Append(u.tokens, token)
           ua == [u EXCEPT !.tokens = tokens]
           uy == [u EXCEPT !.status = "decoding"]
           ud == [uy EXCEPT !.tokens = tokens]
           y == Rewrite(s, s.pool, s.cpuFree, r, uy)
           a == Rewrite(s, s.pool, s.cpuFree, r, ua)
           d == Rewrite(s, s.pool, s.cpuFree, r, ud)
           e == Rewrite(s, s.pool, s.cpuFree, r, [ud EXCEPT !.status = "finished"])
<1>1. IsSequence(r, u) /\ s.cpuFree \in Seq(CpuBlock) /\ "decoding" \in Statuses
  BY DEF Shaped, Statuses, Lifecycle!LiveStates
<1>2. tokens \in Seq(Tokens) /\ PromptLen(r) <= Len(tokens)
  <2>1. u.tokens \in Seq(Tokens) /\ PromptLen(r) <= Len(u.tokens) /\ PromptLen(r) \in Nat
    BY <1>1, TokensOf
  <2>2. tokens \in Seq(Tokens) /\ Len(tokens) = Len(u.tokens) + 1
    BY <2>1, AppendProperties
  <2>3. Len(u.tokens) \in Nat
    BY <2>1, LenProperties
  <2> QED BY <2>1, <2>2, <2>3
<1> HIDE DEF tokens
<1>3. IsSequence(r, ua) /\ ua.status = "prefilling" /\ ua.tokens = tokens
  BY <1>1, <1>2 DEF IsSequence
<1>4. IsSequence(r, uy) /\ uy.status = "decoding" /\ uy.tokens = u.tokens
  BY <1>1, StatusChange
<1>5. IsSequence(r, ud) /\ ud.status = "decoding" /\ ud.tokens = tokens
  BY <1>2, <1>4 DEF IsSequence
<1>6. /\ [ua EXCEPT !.status = "decoding"] = ud
      /\ [ua EXCEPT !.status = "finished"] = [ud EXCEPT !.status = "finished"]
  BY <1>1 DEF IsSequence
<1> HIDE DEF u, ua, uy, ud
<1>7. /\ Shaped(a) /\ a.pool = s.pool /\ a.cpuFree = s.cpuFree /\ a.seqs[r] = ua
      /\ Shaped(y) /\ y.pool = s.pool /\ y.cpuFree = s.cpuFree /\ y.seqs[r] = uy
      /\ Shaped(d) /\ d.pool = s.pool /\ d.cpuFree = s.cpuFree /\ d.seqs[r] = ud
  BY <1>1, <1>3, <1>4, <1>5, RewriteFields DEF Rewritten
<1>8. Appended(s, r, token) = a
  BY AppendedRewrites DEF u, ua, tokens
<1>9. Transition(s, r, "decoding") = y
  BY TransitionRewrites, Edges DEF u, uy
<1>10. \A q, v : /\ Rewrite(a, s.pool, s.cpuFree, r, v) = Rewrite(s, s.pool, s.cpuFree, r, v)
                 /\ Rewrite(y, s.pool, s.cpuFree, r, v) = Rewrite(s, s.pool, s.cpuFree, r, v)
                 /\ Rewrite(d, s.pool, s.cpuFree, r, v) = Rewrite(s, s.pool, s.cpuFree, r, v)
  BY RewriteTwice
<1> HIDE DEF a, y
<1>11. Appended(y, r, token) = d
  <2>1. Appended(y, r, token) = Rewrite(y, s.pool, s.cpuFree, r, [uy EXCEPT !.tokens = Append(@, token)])
    BY <1>7, AppendedRewrites
  <2>2. [uy EXCEPT !.tokens = Append(@, token)] = ud
    BY <1>4 DEF ud, tokens, u, IsSequence
  <2> QED BY <1>10, <2>1, <2>2
<1>12. Transition(a, r, "decoding") = d
  <2>1. Lifecycle!MayMove(a.seqs[r].status, "decoding")
    BY <1>3, <1>7, Edges
  <2>2. Transition(a, r, "decoding") = Rewrite(a, s.pool, s.cpuFree, r, [ua EXCEPT !.status = "decoding"])
    BY <1>7, <2>1, TransitionRewrites
  <2> QED BY <1>6, <1>10, <2>2
<1> HIDE DEF d
<1>13. Transition(a, r, "finished") = e /\ Transition(d, r, "finished") = e
  <2>1. /\ Lifecycle!MayMove(a.seqs[r].status, "finished")
        /\ Lifecycle!MayMove(d.seqs[r].status, "finished")
    BY <1>3, <1>5, <1>7, Edges
  <2>2. /\ Transition(a, r, "finished") = Rewrite(a, s.pool, s.cpuFree, r, [ua EXCEPT !.status = "finished"])
        /\ Transition(d, r, "finished") = Rewrite(d, s.pool, s.cpuFree, r, [ud EXCEPT !.status = "finished"])
    BY <1>7, <2>1, TransitionRewrites
  <2> QED BY <1>6, <1>10, <2>2
<1> QED BY <1>3, <1>5, <1>7, <1>8, <1>9, <1>11, <1>12, <1>13

\* A request finishes, decodes on, or prefills on.
PostOK(s, t, r) ==
  /\ Valid(t, {}) /\ Len(t.running) <= Len(s.running) /\ t.consecutive = s.consecutive
  /\ Lifecycle!MayMove(s.seqs[r].status, t.seqs[r].status)
  /\ \A q \in Requests : q # r => t.seqs[q] = s.seqs[q]

LEMMA FinishedValid ==
  ASSUME NEW s, Valid(s, {}), NEW r \in Requests, s.seqs[r].status \in {"prefilling", "decoding"}
  PROVE  LET t == [DeallocateSequence(Transition(s, r, "finished"), r)
                     EXCEPT !.running = Those(@, Requests \ {r})]
         IN  PostOK(s, t, r) /\ t.seqs[r].status = "finished"
<1> DEFINE y == Transition(s, r, "finished")
           x == DeallocateSequence(y, r)
           t == Requeue(x, x.waiting, Those(x.running, Requests \ {r}), x.swapped,
                        x.consecutive, x.fault)
<1>1. /\ Shaped(s) /\ "finished" \in Statuses
      /\ Lifecycle!MayMove(s.seqs[r].status, "finished")
  BY Edges DEF Valid, Statuses, Lifecycle!TerminalStates
<1>2. /\ Shaped(y) /\ y.cpuFree = s.cpuFree /\ y.fault = s.fault
      /\ y.consecutive = s.consecutive
      /\ y.waiting = s.waiting /\ y.running = s.running /\ y.swapped = s.swapped
      /\ \A q \in Requests : q # r => y.seqs[q] = s.seqs[q]
      /\ y.seqs[r].status = "finished" /\ y.seqs[r].cpuTable = s.seqs[r].cpuTable
      /\ SamePages(s, y)
  BY <1>1, TransitionFields
<1> HIDE DEF y
<1>3. /\ Touches(y, x, r) /\ x.cpuFree = y.cpuFree \o y.seqs[r].cpuTable
      /\ x.seqs[r].cpuTable = <<>> /\ x.seqs[r].table = <<>> /\ PagesOK(x)
  <2>1. PagesOK(y)
    BY <1>2, PagesKept DEF Valid
  <2> QED BY <1>2, <2>1, DeallocateTouches, DeallocatePages
<1> HIDE DEF x
<1>4. [x EXCEPT !.running = Those(@, Requests \ {r})] = t
  BY <1>3 DEF Touches, Shaped, Requeue
<1>5. Requeued(x, t, x.waiting, Those(x.running, Requests \ {r}), x.swapped,
               x.consecutive, x.fault)
  BY <1>3, RequeueFields DEF Touches
<1> HIDE DEF t
<1>6. /\ Shaped(t) /\ t.pool = x.pool /\ t.cpuFree = x.cpuFree /\ t.seqs = x.seqs /\ t.fault = x.fault
      /\ t.waiting = x.waiting /\ t.running = Those(x.running, Requests \ {r})
      /\ t.swapped = x.swapped /\ t.consecutive = x.consecutive
  BY <1>5 DEF Requeued
<1>7. /\ t.cpuFree = s.cpuFree \o s.seqs[r].cpuTable /\ t.seqs[r].cpuTable = <<>>
      /\ t.seqs[r].table = <<>> /\ t.fault = s.fault /\ t.seqs[r].status = "finished"
      /\ \A q \in Requests : q # r => t.seqs[q] = s.seqs[q]
      /\ t.waiting = s.waiting /\ t.running = Those(s.running, Requests \ {r})
      /\ t.swapped = s.swapped /\ t.consecutive = s.consecutive
  BY <1>2, <1>3, <1>6 DEF Touches
<1>8. CpuOK(t)
  <2>1. CpuOK(s)
    BY DEF Valid
  <2>2. \A q \in Requests : q # r => t.seqs[q].cpuTable = s.seqs[q].cpuTable
    BY <1>7
  <2>3. t.cpuFree = s.cpuFree \o s.seqs[r].cpuTable /\ t.seqs[r].cpuTable = <<>>
    BY <1>7
  <2> QED BY <1>1, <2>1, <2>2, <2>3, CpuReturned
<1>9. /\ Queue(t.waiting, Range(s.waiting) \ {r}) /\ Queue(t.swapped, Range(s.swapped) \ {r})
      /\ Queue(t.running, Range(s.running) \ {r}) /\ Len(t.running) <= Len(s.running)
  <2>1. /\ s.waiting \in Seq(Requests) /\ IsInjective(s.waiting)
        /\ s.running \in Seq(Requests) /\ IsInjective(s.running)
        /\ s.swapped \in Seq(Requests) /\ IsInjective(s.swapped)
        /\ r \notin Range(s.waiting) /\ r \notin Range(s.swapped)
    BY DEF Valid, QueuesOK, Queue, Having
  <2>2. Range(s.waiting) \ {r} = Range(s.waiting) /\ Range(s.swapped) \ {r} = Range(s.swapped)
    BY <2>1
  <2>3. Queue(t.running, Range(s.running) \ {r}) /\ Len(t.running) <= Len(s.running)
    <3> DEFINE q == s.running
    <3>1. q \in Seq(Requests) /\ IsInjective(q) /\ t.running = Those(q, Requests \ {r})
      BY <1>7, <2>1
    <3> HIDE DEF q
    <3>2. /\ Queue(Those(q, Requests \ {r}), Range(q) \ {r})
          /\ Len(Those(q, Requests \ {r})) <= Len(q)
      BY <3>1, DropProperties
    <3> QED BY <3>1, <3>2 DEF q
  <2> QED BY <1>7, <2>1, <2>2, <2>3 DEF Queue
<1>p. PagesOK(t)
  BY <1>3, <1>6, RequeuedPages
<1>10. Valid(t, {})
  <2>1. t.seqs[r].status \in Lifecycle!TerminalStates
    BY <1>7 DEF Lifecycle!TerminalStates
  <2>2. /\ t.fault = s.fault /\ t.seqs[r].cpuTable = <<>> /\ t.seqs[r].table = <<>>
        /\ \A q \in Requests : q # r => t.seqs[q] = s.seqs[q]
    BY <1>7
  <2>3. Shaped(t)
    BY <1>6
  <2> QED BY <1>8, <1>9, <1>p, <2>1, <2>2, <2>3, RetireValid
<1>11. PostOK(s, t, r)
  BY <1>1, <1>7, <1>9, <1>10 DEF PostOK
<1> QED BY <1>4, <1>7, <1>11 DEF t, x, y

LEMMA StartsDecoding ==
  ASSUME NEW s, Valid(s, {}), NEW r \in Requests, s.seqs[r].status = "prefilling"
  PROVE  /\ PostOK(s, Transition(s, r, "decoding"), r)
         /\ Transition(s, r, "decoding").seqs[r].status = "decoding"
         /\ Transition(s, r, "decoding").running = s.running
         /\ r \in Covered(Transition(s, r, "decoding"))
<1> DEFINE t == Transition(s, r, "decoding")
<1>1. /\ Shaped(s) /\ "decoding" \in Statuses
      /\ Lifecycle!MayMove(s.seqs[r].status, "decoding")
  BY Edges DEF Valid, Statuses, Lifecycle!LiveStates
<1>2. /\ Shaped(t) /\ t.cpuFree = s.cpuFree /\ t.fault = s.fault
      /\ t.consecutive = s.consecutive
      /\ t.waiting = s.waiting /\ t.running = s.running /\ t.swapped = s.swapped
      /\ \A q \in Requests : q # r => t.seqs[q] = s.seqs[q]
      /\ t.seqs[r].status = "decoding" /\ t.seqs[r].cpuTable = s.seqs[r].cpuTable
      /\ t.seqs[r].tokens = s.seqs[r].tokens /\ t.seqs[r].table = s.seqs[r].table
      /\ SamePages(s, t)
  BY <1>1, TransitionFields
<1> HIDE DEF t
<1>3. \A q \in Requests : t.seqs[q].cpuTable = s.seqs[q].cpuTable
  BY <1>2
<1>4. CpuOK(t)
  BY <1>2, <1>3, CpuKept DEF Valid
<1>5. /\ Having(t, {"waiting"}) = Having(s, {"waiting"})
      /\ Having(t, {"swapped"}) = Having(s, {"swapped"})
      /\ Having(t, {"prefilling", "decoding"}) = Having(s, {"prefilling", "decoding"})
  BY <1>2 DEF Having
<1>6. QueuesOK(t, {})
  BY <1>2, <1>5 DEF Valid, QueuesOK
<1>7. SequenceOK(t.seqs[r])
  <2> DEFINE q == s.seqs[r]
             a == Pages(Len(q.tokens) - 1)
             b == NumPages(q)
             n == Len(q.table)
  <2>1. IsSequence(r, q) /\ SequenceOK(q)
    BY DEF Valid, Shaped
  <2>2. a \in Nat /\ b \in Nat /\ a <= b
    BY <2>1, TokensOf
  <2>3. n \in Nat /\ b <= n
    BY <2>1, ListedProperties DEF SequenceOK, IsSequence
  <2> HIDE DEF a, b, n
  <2>4. a <= n
    BY <2>2, <2>3
  <2>5. Pages(Len(t.seqs[r].tokens) - 1) <= Len(t.seqs[r].table)
    BY <1>2, <2>4 DEF a, n
  <2> HIDE DEF q
  <2> QED BY <1>2, <2>1, <2>5 DEF SequenceOK, q
<1>p. PagesOK(t)
  BY <1>2, PagesKept DEF Valid
<1>c. r \in Covered(t)
  <2>1. NumPages(s.seqs[r]) <= Len(s.seqs[r].table)
    BY DEF Valid, SequenceOK
  <2> QED BY <1>2, <2>1 DEF Covered, NumPages
<1>8. Valid(t, {})
  BY <1>2, <1>4, <1>6, <1>7, <1>p, ValidMove
<1>9. Len(t.running) <= Len(s.running)
  <2>1. Len(s.running) \in Nat
    BY LenProperties DEF Valid, QueuesOK, Queue
  <2> QED BY <1>2, <2>1
<1>10. PostOK(s, t, r)
  BY <1>1, <1>2, <1>8, <1>9 DEF PostOK
<1> QED BY <1>2, <1>c, <1>10 DEF t

\* What postprocess may rely on for the k-th request of a plan.
TurnOK(s, p, k) ==
  IF p.phase = "prefill"
  THEN /\ s.seqs[p.seqs[k]].status = "prefilling" /\ p.slices[k] \in Nat \X Nat
       /\ p.slices[k][1] <= p.slices[k][2] /\ p.slices[k][2] <= PromptLen(p.seqs[k])
  ELSE s.seqs[p.seqs[k]].status = "decoding" /\ p.seqs[k] \in Covered(s)

LEMMA TurnPublishes ==
  ASSUME NEW s, Valid(s, {}), NEW p, NEW k, NEW r \in Requests, r = p.seqs[k], TurnOK(s, p, k),
         NEW n, n = Len(s.seqs[r].tokens)
  PROVE  PagesOK(IF p.phase = "prefill"
                 THEN PublishComputedBlocks(s, r, p.slices[k][1], p.slices[k][2])
                 ELSE PublishComputedBlocks(s, r, n - 1, n))
<1> DEFINE q == s.seqs[r]
           m == Len(q.table)
           w == PromptLen(r)
<1>1. Shaped(s) /\ PagesOK(s) /\ IsSequence(r, q) /\ SequenceOK(q)
  BY DEF Valid, Shaped
<1>2. n \in Nat /\ n > 0 /\ w \in Nat /\ w <= n /\ NumPages(q) = Pages(n)
  BY <1>1, TokensOf DEF NumPages
<1>3. m \in Nat
  BY <1>1, ListedProperties DEF IsSequence
<1>4. Pages(n) <= m
  <2>1. NumPages(q) <= m
    BY <1>1 DEF TurnOK, Covered, SequenceOK
  <2> QED BY <1>2, <2>1
<1> HIDE DEF m, w
<1>5. ASSUME NEW x \in Nat, x <= n PROVE x \div BlockSize <= Len(q.table)
  <2>1. x \div BlockSize \in Nat /\ Pages(n) \in Nat /\ x \div BlockSize <= Pages(n)
    BY <1>2, <1>5, FullPages
  <2> DEFINE c == x \div BlockSize
             e == Pages(n)
  <2> HIDE DEF c, e
  <2>2. c <= m
    BY <1>3, <1>4, <2>1 DEF c, e
  <2> QED BY <2>2 DEF c, m
<1>6. CASE p.phase = "prefill"
  <2> DEFINE first == p.slices[k][1]
             last == p.slices[k][2]
  <2>1. first \in Nat /\ last \in Nat /\ first <= last /\ last <= w
    BY <1>6 DEF TurnOK, w
  <2> HIDE DEF first, last
  <2>2. last <= Len(s.seqs[r].tokens) /\ last \div BlockSize <= Len(s.seqs[r].table)
    BY <1>2, <1>5, <2>1
  <2>3. PagesOK(PublishComputedBlocks(s, r, first, last))
    BY <1>1, <2>1, <2>2, PublishPages
  <2> QED BY <1>6, <2>3 DEF first, last
<1>7. CASE p.phase # "prefill"
  <2>1. n - 1 \in Nat /\ n - 1 <= n /\ n <= n
    BY <1>2
  <2>2. n <= Len(s.seqs[r].tokens) /\ n \div BlockSize <= Len(s.seqs[r].table)
    BY <1>2, <1>5, <2>1
  <2>3. PagesOK(PublishComputedBlocks(s, r, n - 1, n))
    BY <1>1, <1>2, <2>1, <2>2, PublishPages
  <2> QED BY <1>7, <2>3
<1> QED BY <1>6, <1>7

\* postprocess for one request of a plan.
LEMMA PostprocessOneValid ==
  ASSUME NEW s, Valid(s, {}), NEW p, NEW k, NEW token \in Tokens,
         NEW r \in Requests, r = p.seqs[k], TurnOK(s, p, k)
  PROVE  PostOK(s, PostprocessOne(s, p, k, token), r)
<1> DEFINE n == Len(s.seqs[r].tokens)
           b == IF p.phase = "prefill"
                THEN PublishComputedBlocks(s, r, p.slices[k][1], p.slices[k][2])
                ELSE PublishComputedBlocks(s, r, n - 1, n)
           a == Appended(b, r, token)
           d == IF p.phase = "prefill" THEN Appended(Transition(b, r, "decoding"), r, token)
                ELSE a
           t == PostprocessOne(s, p, k, token)
<1>1. /\ Shaped(s) /\ CpuOK(s) /\ SequenceOK(s.seqs[r])
      /\ s.seqs[r].status = IF p.phase = "prefill" THEN "prefilling" ELSE "decoding"
  BY DEF Valid, TurnOK
<1>2. Touches(s, b, r) /\ b.cpuFree = s.cpuFree /\ b.seqs = s.seqs
  BY <1>1, PublishTouches
<1>p. PagesOK(b)
  BY TurnPublishes
<1>3. t = IF p.phase = "prefill" /\ s.seqs[r].computed < PromptLen(r) THEN b
          ELSE IF Finished(r, a.seqs[r])
          THEN [DeallocateSequence(Transition(a, r, "finished"), r)
                  EXCEPT !.running = Those(@, Requests \ {r})]
          ELSE IF s.seqs[r].status = "prefilling" THEN Transition(a, r, "decoding")
          ELSE IF p.phase = "prefill" THEN Raise(a, LatePrefill)
          ELSE a
  BY DEF PostprocessOne, Appended
<1> HIDE DEF b, t
<1>4. CpuOK(b)
  BY <1>1, <1>2, CpuKept
<1>5. Valid(b, {}) /\ Shaped(b) /\ b.running = s.running /\ b.consecutive = s.consecutive
  <2>1. SequenceOK(b.seqs[r])
    BY <1>1, <1>2
  <2> QED BY <1>2, <1>4, <1>p, <2>1, TouchValid DEF Touches
\* With its new token the request is a decoding one, whatever it was planned as.
<1>6. /\ Valid(d, {}) /\ d.running = s.running /\ d.seqs[r].status = "decoding"
      /\ d.consecutive = s.consecutive
      /\ \A q \in Requests : q # r => d.seqs[q] = s.seqs[q]
  <2>1. CASE p.phase = "prefill"
    <3> DEFINE y == Transition(b, r, "decoding")
               c == Appended(y, r, token)
    <3>1. b.seqs[r].status = "prefilling"
      BY <1>1, <1>2, <2>1
    <3>2. /\ PostOK(b, y, r) /\ y.seqs[r].status = "decoding" /\ y.running = b.running
          /\ r \in Covered(y)
      BY <1>5, <3>1, StartsDecoding
    <3> HIDE DEF y
    <3>3. Valid(y, {}) /\ y.consecutive = b.consecutive
      BY <3>2 DEF PostOK
    <3>4. /\ Valid(c, {}) /\ c.running = y.running /\ c.seqs[r].status = "decoding"
          /\ c.consecutive = y.consecutive
          /\ \A q \in Requests : q # r => c.seqs[q] = y.seqs[q]
      BY <3>2, <3>3, TokenAppended
    <3> HIDE DEF c
    <3>5. d = c
      BY <2>1 DEF c, y
    <3>6. \A q \in Requests : q # r => c.seqs[q] = s.seqs[q]
      BY <1>2, <3>2, <3>4 DEF PostOK
    <3> QED BY <1>5, <3>2, <3>3, <3>4, <3>5, <3>6
  <2>2. CASE p.phase # "prefill"
    <3>1. b.seqs[r].status = "decoding" /\ r \in Covered(b)
      BY <1>1, <1>2, <2>2 DEF TurnOK, Covered
    <3> HIDE DEF a
    <3>2. d = a
      BY <2>2
    <3>3. /\ Valid(a, {}) /\ a.running = b.running /\ a.seqs[r].status = "decoding"
          /\ a.consecutive = b.consecutive
          /\ \A q \in Requests : q # r => a.seqs[q] = b.seqs[q]
      BY <1>5, <3>1, TokenAppended DEF a
    <3> QED BY <1>2, <1>5, <3>2, <3>3
  <2> QED BY <2>1, <2>2
<1>7. Transition(a, r, "finished") = Transition(d, r, "finished")
  <2>1. CASE p.phase = "prefill"
    <3>1. b.seqs[r].status = "prefilling"
      BY <1>1, <1>2, <2>1
    <3> QED BY <1>5, <2>1, <3>1, DecodingFirst
  <2>2. CASE p.phase # "prefill"
    BY <2>2
  <2> QED BY <2>1, <2>2
<1>8. p.phase = "prefill" => Transition(a, r, "decoding") = d
  BY <1>1, <1>2, <1>5, DecodingFirst
<1>9. p.phase # "prefill" => a = d
  OBVIOUS
<1> HIDE DEF a, d
<1>10. ASSUME NEW u, Valid(u, {}), u.running = s.running, u.consecutive = s.consecutive,
              Lifecycle!MayMove(s.seqs[r].status, u.seqs[r].status),
              \A q \in Requests : q # r => u.seqs[q] = s.seqs[q]
      PROVE  PostOK(s, u, r)
  <2>1. Len(s.running) \in Nat
    BY LenProperties DEF Valid, QueuesOK, Queue
  <2> QED BY <1>10, <2>1 DEF PostOK
<1>11. Lifecycle!MayMove(s.seqs[r].status, s.seqs[r].status)
  <2>1. s.seqs[r].status \in Statuses
    BY <1>1 DEF Shaped, IsSequence
  <2> QED BY <2>1, Edges
<1>12. CASE p.phase = "prefill" /\ s.seqs[r].computed < PromptLen(r)
  <2>1. t = b
    BY <1>3, <1>12
  <2>2. PostOK(s, b, r)
    BY <1>2, <1>5, <1>10, <1>11
  <2> QED BY <2>1, <2>2 DEF t
<1>13. CASE ~(p.phase = "prefill" /\ s.seqs[r].computed < PromptLen(r)) /\ Finished(r, a.seqs[r])
  <2> DEFINE u == [DeallocateSequence(Transition(d, r, "finished"), r)
                     EXCEPT !.running = Those(@, Requests \ {r})]
  <2>1. t = u
    BY <1>3, <1>7, <1>13
  <2>2. PostOK(d, u, r) /\ u.seqs[r].status = "finished"
    BY <1>6, FinishedValid
  <2> HIDE DEF u
  <2>3. Lifecycle!MayMove(s.seqs[r].status, u.seqs[r].status)
    BY <1>1, <2>2, Edges
  <2>4. PostOK(s, u, r)
    BY <1>6, <2>2, <2>3 DEF PostOK
  <2> QED BY <2>1, <2>4 DEF t
<1>14. CASE /\ ~(p.phase = "prefill" /\ s.seqs[r].computed < PromptLen(r))
            /\ ~Finished(r, a.seqs[r])
  <2>1. t = d
    <3>1. CASE p.phase = "prefill"
      BY <1>1, <1>3, <1>8, <1>14, <3>1
    <3>2. CASE p.phase # "prefill"
      BY <1>1, <1>3, <1>9, <1>14, <3>2
    <3> QED BY <3>1, <3>2
  <2>2. Lifecycle!MayMove(s.seqs[r].status, d.seqs[r].status)
    BY <1>1, <1>6, <1>11, Edges
  <2>3. PostOK(s, d, r)
    BY <1>6, <1>10, <2>2
  <2> QED BY <2>1, <2>3 DEF t
<1> QED BY <1>12, <1>13, <1>14

\* The frontier of every member of a prefill plan moves to the end of its slice.
CommittedOK(s, t, p) ==
  /\ Valid(t, {}) /\ t.running = s.running /\ t.consecutive = s.consecutive
  /\ \A r \in Requests : t.seqs[r].status = s.seqs[r].status
  /\ \A r \in Requests : r \notin Range(p.seqs) => t.seqs[r] = s.seqs[r]

LEMMA CommitValid ==
  ASSUME NEW s, Valid(s, {}), NEW p, p.phase = "prefill", SlicesOK(s, p.seqs, p.slices)
  PROVE  CommittedOK(s, CommitFrontiers(s, p), p)
<1> DEFINE at(r) == CHOOSE k \in DOMAIN p.seqs : p.seqs[k] = r
           next == [r \in Requests |-> IF r \in ToSet(p.seqs)
                                       THEN [s.seqs[r] EXCEPT !.computed = p.slices[at(r)][2]]
                                       ELSE s.seqs[r]]
           t == CommitFrontiers(s, p)
<1>1. Shaped(s) /\ \A r \in Requests : IsSequence(r, s.seqs[r]) /\ SequenceOK(s.seqs[r])
  BY DEF Valid, Shaped
<1>2. t = [s EXCEPT !.seqs = next]
  BY DEF CommitFrontiers
<1>3. DOMAIN p.seqs = 1 .. Len(p.seqs) /\ p.slices \in Seq(Nat \X Nat) /\ Len(p.slices) = Len(p.seqs)
  BY LenProperties DEF SlicesOK
<1>4. ASSUME NEW r \in Requests, r \in Range(p.seqs)
      PROVE  /\ p.slices[at(r)] \in Nat \X Nat
             /\ s.seqs[r].status = "prefilling" /\ s.seqs[r].computed <= p.slices[at(r)][2]
  <2>1. \E k \in DOMAIN p.seqs : p.seqs[k] = r
    BY <1>4 DEF Range
  <2>2. at(r) \in DOMAIN p.seqs /\ p.seqs[at(r)] = r
    BY <2>1
  <2> HIDE DEF at
  <2>3. at(r) \in 1 .. Len(p.seqs) /\ p.slices[at(r)] \in Nat \X Nat
    BY <1>3, <2>2, ElementOfSeq
  <2> QED BY <2>2, <2>3 DEF SlicesOK
<1>5. \A r \in Requests :
        next[r] = IF r \in Range(p.seqs) THEN [s.seqs[r] EXCEPT !.computed = p.slices[at(r)][2]]
                  ELSE s.seqs[r]
  BY ToSetRange
<1> HIDE DEF at
<1>6. next \in [Requests -> {next[r] : r \in Requests}]
  OBVIOUS
<1> HIDE DEF next
<1>7. ASSUME NEW r \in Requests
      PROVE  /\ IsSequence(r, next[r]) /\ SequenceOK(next[r])
             /\ next[r].status = s.seqs[r].status /\ next[r].cpuTable = s.seqs[r].cpuTable
             /\ next[r].table = s.seqs[r].table /\ next[r].cpuHashes = s.seqs[r].cpuHashes
             /\ next[r].tokens = s.seqs[r].tokens
  <2>1. CASE r \notin Range(p.seqs)
    <3>1. next[r] = s.seqs[r]
      BY <1>5, <2>1
    <3> QED BY <1>1, <3>1
  <2>2. CASE r \in Range(p.seqs)
    <3> DEFINE u == s.seqs[r]
               c == p.slices[at(r)][2]
    <3>1. next[r] = [u EXCEPT !.computed = c]
      BY <1>5, <2>2
    <3>2. c \in Nat /\ u.status = "prefilling" /\ u.computed <= c
      BY <1>4, <2>2
    <3>3. IsSequence(r, u) /\ SequenceOK(u)
      BY <1>1
    <3> HIDE DEF u, c
    <3>4. /\ IsSequence(r, next[r])
          /\ next[r].status = u.status /\ next[r].cached = u.cached /\ next[r].computed = c
          /\ next[r].table = u.table /\ next[r].cpuTable = u.cpuTable
          /\ next[r].cpuHashes = u.cpuHashes /\ next[r].tokens = u.tokens
      BY <3>1, <3>2, <3>3 DEF IsSequence
    <3>5. u.cached <= u.computed /\ u.cached \in Nat /\ u.computed \in Nat
      BY <3>2, <3>3 DEF SequenceOK, IsSequence
    <3>6. SequenceOK(next[r])
      <4>1. next[r].cached <= next[r].computed
        BY <3>2, <3>4, <3>5
      <4>2. NumPages(next[r]) = NumPages(u)
        BY <3>4 DEF NumPages
      <4> QED BY <3>2, <3>3, <3>4, <4>1, <4>2 DEF SequenceOK
    <3> QED BY <3>4, <3>6 DEF u
  <2> QED BY <2>1, <2>2
<1>8. /\ t.seqs = next /\ t.pool = s.pool /\ t.cpuFree = s.cpuFree /\ t.fault = s.fault
      /\ t.waiting = s.waiting /\ t.running = s.running /\ t.swapped = s.swapped
      /\ t.consecutive = s.consecutive
      /\ t \in [pool : {t.pool}, cpuFree : Seq(CpuBlock), seqs : {t.seqs},
                waiting : {t.waiting}, running : {t.running}, swapped : {t.swapped},
                consecutive : Nat, fault : {t.fault}]
  BY <1>1, <1>2 DEF Shaped
<1> HIDE DEF t
<1>9. Shaped(t)
  BY <1>6, <1>7, <1>8 DEF Shaped
<1>10. \A r \in Requests : /\ t.seqs[r].cpuTable = s.seqs[r].cpuTable
                           /\ t.seqs[r].status = s.seqs[r].status
  BY <1>7, <1>8
<1>11. CpuOK(t)
  BY <1>8, <1>10, CpuKept DEF Valid
<1>12. \A S : Having(t, S) = Having(s, S)
  BY <1>10 DEF Having
<1>13. QueuesOK(t, {})
  BY <1>8, <1>12 DEF Valid, QueuesOK
<1>p. PagesOK(t)
  <2>1. SamePages(s, t)
    BY <1>7, <1>8 DEF SamePages
  <2> QED BY <2>1, PagesKept DEF Valid
<1>14. Valid(t, {})
  BY <1>7, <1>8, <1>9, <1>11, <1>13, <1>p DEF Valid
<1>15. \A r \in Requests : r \notin Range(p.seqs) => t.seqs[r] = s.seqs[r]
  BY <1>5, <1>8
<1>16. CommittedOK(s, t, p)
  BY <1>8, <1>10, <1>14, <1>15 DEF CommittedOK
<1> QED BY <1>16 DEF t

\* What holds after the turns of postprocess for the first m members of the plan.
Posting(s, p, m, t) ==
  /\ Valid(t, {}) /\ Len(t.running) <= Len(s.running) /\ t.consecutive = s.consecutive
  /\ \A r \in Requests : r \notin Range(p.seqs) => t.seqs[r] = s.seqs[r]
  /\ \A k \in m + 1 .. Len(p.seqs) : t.seqs[p.seqs[k]] = s.seqs[p.seqs[k]]
  /\ Moves(s, t)

LEMMA PostingTurn ==
  ASSUME NEW s, Valid(s, {}), NEW p, p.seqs \in Seq(Requests), IsInjective(p.seqs),
         \A k \in 1 .. Len(p.seqs) : TurnOK(s, p, k),
         NEW m \in Nat, m + 1 <= Len(p.seqs), NEW t, Posting(s, p, m, t), NEW token \in Tokens
  PROVE  Posting(s, p, m + 1, PostprocessOne(t, p, m + 1, token))
<1> DEFINE r == p.seqs[m + 1]
           u == PostprocessOne(t, p, m + 1, token)
<1>1. /\ Len(p.seqs) \in Nat /\ DOMAIN p.seqs = 1 .. Len(p.seqs) /\ m + 1 \in 1 .. Len(p.seqs)
  BY LenProperties
<1>2. r \in Requests /\ r \in Range(p.seqs)
  BY <1>1, ElementOfSeq DEF Range
<1>3. t.seqs[r] = s.seqs[r]
  <2>1. m + 1 \in m + 1 .. Len(p.seqs)
    BY <1>1
  <2> QED BY <2>1 DEF Posting
<1>4. TurnOK(t, p, m + 1)
  <2>1. TurnOK(s, p, m + 1)
    BY <1>1
  <2> QED BY <1>2, <1>3, <2>1 DEF TurnOK, Covered
<1>5. Valid(t, {})
  BY DEF Posting
<1>6. PostOK(t, u, r)
  <2> HIDE DEF r
  <2> QED BY <1>2, <1>4, <1>5, PostprocessOneValid DEF r
<1> HIDE DEF u
<1>7. \A k \in (m + 1) + 1 .. Len(p.seqs) : u.seqs[p.seqs[k]] = s.seqs[p.seqs[k]]
  <2> SUFFICES ASSUME NEW k \in (m + 1) + 1 .. Len(p.seqs)
               PROVE  u.seqs[p.seqs[k]] = s.seqs[p.seqs[k]]
    OBVIOUS
  <2>1. k \in m + 1 .. Len(p.seqs) /\ k \in DOMAIN p.seqs /\ k # m + 1
    BY <1>1
  <2>2. p.seqs[k] \in Requests /\ p.seqs[k] # r
    BY <1>1, <2>1, ElementOfSeq DEF IsInjective
  <2> QED BY <1>6, <2>1, <2>2 DEF PostOK, Posting
<1>8. \A q \in Requests : q \notin Range(p.seqs) => u.seqs[q] = s.seqs[q]
  BY <1>2, <1>6 DEF PostOK, Posting
<1>9. Moves(s, u)
  <2> SUFFICES ASSUME NEW q \in Requests
               PROVE  Lifecycle!MayMove(s.seqs[q].status, u.seqs[q].status)
    BY DEF Moves
  <2>1. CASE q = r
    BY <1>3, <1>6, <2>1 DEF PostOK
  <2>2. CASE q # r
    BY <1>6, <2>2 DEF PostOK, Posting, Moves
  <2> QED BY <2>1, <2>2
<1>10. Len(u.running) <= Len(s.running)
  <2>1. Valid(u, {}) /\ Len(u.running) <= Len(t.running) /\ Len(t.running) <= Len(s.running)
    BY <1>6 DEF PostOK, Posting
  <2>2. u.running \in Seq(Requests) /\ t.running \in Seq(Requests) /\ s.running \in Seq(Requests)
    BY <1>5, <2>1 DEF Valid, QueuesOK, Queue
  <2>3. Len(u.running) \in Nat /\ Len(t.running) \in Nat /\ Len(s.running) \in Nat
    BY <2>2, LenProperties
  <2> QED BY <2>1, <2>3
<1>11. Posting(s, p, m + 1, u)
  BY <1>6, <1>7, <1>8, <1>9, <1>10 DEF Posting, PostOK
<1> QED BY <1>11 DEF u

\* The turns of postprocess over the members of the plan.
PostTurns(f, s, p, sampled, n) ==
  /\ f[0] = s
  /\ \A k \in 1 .. n : f[k] = PostprocessOne(f[k - 1], p, k, sampled[k])
  /\ Postprocess(s, p, sampled) = f[n]

LEMMA PostTurnsExist ==
  ASSUME NEW s, NEW p, NEW sampled, NEW n \in Nat, n = Len(p.seqs)
  PROVE  \E f : PostTurns(f, s, p, sampled, n)
<1> DEFINE Step(f, k) == IF k = 0 THEN s ELSE PostprocessOne(f[k - 1], p, k, sampled[k])
           N == {m \in Nat : \E f : f = [k \in 0 .. m |-> Step(f, k)]}
           F == CHOOSE f : f = [k \in 0 .. n |-> Step(f, k)]
<1>1. 0 \in N
  <2> DEFINE g == [k \in 0 .. 0 |-> s]
  <2>1. g = [k \in 0 .. 0 |-> Step(g, k)]
    OBVIOUS
  <2> HIDE DEF g
  <2>2. \E f : f = [k \in 0 .. 0 |-> Step(f, k)]
    BY <2>1
  <2> QED BY <2>2
<1>2. ASSUME NEW m \in Nat, m \in N PROVE m + 1 \in N
  <2>1. PICK g : g = [k \in 0 .. m |-> Step(g, k)]
    BY <1>2
  <2> DEFINE h == [k \in 0 .. m + 1 |-> IF k = m + 1 THEN Step(g, m + 1) ELSE g[k]]
  <2>2. ASSUME NEW k \in 0 .. m + 1 PROVE h[k] = Step(h, k)
    <3>1. k # 0 => k - 1 \in 0 .. m /\ h[k - 1] = g[k - 1]
      OBVIOUS
    <3>2. k # m + 1 => g[k] = Step(g, k)
      <4>1. k # m + 1 => k \in 0 .. m
        OBVIOUS
      <4> QED BY <2>1, <4>1
    <3>3. h[k] = Step(g, k)
      BY <3>2
    <3> QED BY <3>1, <3>3
  <2>3. h = [k \in 0 .. m + 1 |-> Step(h, k)]
    BY <2>2
  <2> HIDE DEF h
  <2>4. \E f : f = [k \in 0 .. m + 1 |-> Step(f, k)]
    BY <2>3
  <2> QED BY <2>4
<1>3. n \in N
  <2> HIDE DEF N
  <2> QED BY <1>1, <1>2, NatSetInduction
<1>4. F = [k \in 0 .. n |-> Step(F, k)]
  BY <1>3
<1>5. Postprocess(s, p, sampled) = F[n]
  BY DEF Postprocess
<1> HIDE DEF F
<1>6. F[0] = s /\ \A k \in 1 .. n : F[k] = PostprocessOne(F[k - 1], p, k, sampled[k])
  <2>1. \A k \in 0 .. n : F[k] = Step(F, k)
    BY <1>4
  <2>2. 0 \in 0 .. n /\ \A k \in 1 .. n : k \in 0 .. n
    OBVIOUS
  <2>3. F[0] = Step(F, 0)
    BY <2>1, <2>2
  <2> QED BY <2>1, <2>2, <2>3
<1> QED BY <1>5, <1>6 DEF PostTurns

LEMMA PostprocessValid ==
  ASSUME NEW s, Valid(s, {}), NEW p, p.seqs \in Seq(Requests), IsInjective(p.seqs),
         \A k \in 1 .. Len(p.seqs) : TurnOK(s, p, k),
         NEW sampled, \A k \in DOMAIN p.seqs : sampled[k] \in Tokens
  PROVE  Posting(s, p, Len(p.seqs), Postprocess(s, p, sampled))
<1> DEFINE n == Len(p.seqs)
<1>1. n \in Nat /\ DOMAIN p.seqs = 1 .. n
  BY LenProperties
<1>2. PICK f : PostTurns(f, s, p, sampled, n)
  BY <1>1, PostTurnsExist
<1>3. /\ f[0] = s /\ \A k \in 1 .. n : f[k] = PostprocessOne(f[k - 1], p, k, sampled[k])
      /\ Postprocess(s, p, sampled) = f[n]
  BY <1>2 DEF PostTurns
<1> DEFINE N == {m \in Nat : m <= n => Posting(s, p, m, f[m])}
<1>4. 0 \in N
  <2>1. Moves(s, s)
    <3>1. Scheduled(s, s) /\ Shaped(s)
      BY DEF Scheduled, Valid
    <3> QED BY <3>1, ScheduledMoves
  <2>2. Len(s.running) <= Len(s.running)
    BY LenProperties DEF Valid, QueuesOK, Queue
  <2> QED BY <1>3, <2>1, <2>2 DEF Posting
<1>5. ASSUME NEW m \in Nat, m \in N PROVE m + 1 \in N
  <2> SUFFICES ASSUME m + 1 <= n PROVE Posting(s, p, m + 1, f[m + 1])
    OBVIOUS
  <2>1. m + 1 \in 1 .. n /\ (m + 1) - 1 = m /\ Posting(s, p, m, f[m])
    BY <1>1, <1>5
  <2>2. f[m + 1] = PostprocessOne(f[m], p, m + 1, sampled[m + 1]) /\ sampled[m + 1] \in Tokens
    BY <1>1, <1>3, <2>1
  <2> QED BY <2>1, <2>2, PostingTurn
<1>6. \A m \in Nat : m \in N
  <2> HIDE DEF N
  <2> QED BY <1>4, <1>5, NatSetInduction
<1>7. Posting(s, p, n, f[n])
  <2>1. n \in N /\ n <= n
    <3> HIDE DEF N
    <3> QED BY <1>1, <1>6
  <2> QED BY <2>1
<1> QED BY <1>3, <1>7

LEMMA ExecutePlanKeeps ==
  ASSUME IInv, ExecutePlan, config' = config
  PROVE  IInv' /\ StepMoves
<1>1. /\ config \in Configs /\ Valid(Engine, {}) /\ Shaped(Engine)
      /\ Len(Engine.running) <= MaxNumSeqs
      /\ PlanOK(Engine, plan) /\ PausedOK(Engine, plan, pending) /\ TurnsOK(Engine, pending)
      /\ plan # NoPlan /\ plan' = NoPlan /\ pending' = pending
  BY DEF IInv, Good, Valid, ExecutePlan
<1>2. PICK sampled \in [DOMAIN plan.seqs -> Samples] :
        Become(Postprocess(CommitFrontiers(Engine, plan), plan, sampled))
  BY DEF ExecutePlan
<1> DEFINE c == CommitFrontiers(Engine, plan)
           t == Postprocess(c, plan, sampled)
<1>3. \A k \in DOMAIN plan.seqs : sampled[k] \in Tokens
  BY <1>1, <1>2, SchedulerAssumption DEF Samples
<1>4. /\ plan.seqs \in Seq(Requests) /\ IsInjective(plan.seqs)
      /\ \A r \in Range(plan.seqs) : Engine.seqs[r].status =
                                     IF plan.phase = "prefill" THEN "prefilling" ELSE "decoding"
      /\ plan.phase = "prefill" => SlicesOK(Engine, plan.seqs, plan.slices)
      /\ plan.phase = "decode" => AllDecoding(Engine, plan.seqs)
      /\ plan.phase = "prefill" \/ plan.phase = "decode"
  <2>1. CASE plan.phase = "prefill" /\ SlicesOK(Engine, plan.seqs, plan.slices)
    <3>1. DOMAIN plan.seqs = 1 .. Len(plan.seqs)
      BY <2>1, LenProperties DEF SlicesOK
    <3> QED BY <2>1, <3>1 DEF SlicesOK, Range
  <2>2. CASE plan.phase = "decode" /\ AllDecoding(Engine, plan.seqs)
    BY <2>2 DEF AllDecoding, Queue, Having
  <2> QED BY <1>1, <2>1, <2>2 DEF PlanOK
<1>5. CommittedOK(Engine, c, plan)
  <2>1. CASE plan.phase = "prefill"
    BY <1>1, <1>4, <2>1, CommitValid
  <2>2. CASE plan.phase # "prefill"
    <3>1. c = Engine
      BY <2>2 DEF CommitFrontiers
    <3> QED BY <1>1, <3>1 DEF CommittedOK
  <2> QED BY <2>1, <2>2
<1> HIDE DEF c
<1>6. /\ Valid(c, {}) /\ c.running = Engine.running /\ c.consecutive = Engine.consecutive
      /\ \A r \in Requests : c.seqs[r].status = Engine.seqs[r].status
      /\ \A r \in Requests : r \notin Range(plan.seqs) => c.seqs[r] = Engine.seqs[r]
  BY <1>5 DEF CommittedOK
<1>7. Posting(c, plan, Len(plan.seqs), t)
  <2>1. Range(plan.seqs) \subseteq Requests
    BY <1>4, RangeOfSeq
  <2>2. ASSUME NEW k \in 1 .. Len(plan.seqs) PROVE TurnOK(c, plan, k)
    <3>1. plan.seqs[k] \in Requests /\ plan.seqs[k] \in Range(plan.seqs)
      <4>1. k \in DOMAIN plan.seqs
        BY <1>4, LenProperties
      <4> QED BY <2>1, <4>1 DEF Range
    <3>2. CASE plan.phase = "prefill"
      <4>1. SlicesOK(Engine, plan.seqs, plan.slices)
        BY <1>4, <3>2
      <4>2. plan.slices[k] \in Nat \X Nat
        BY <4>1, ElementOfSeq DEF SlicesOK
      <4>3. c.seqs[plan.seqs[k]].status = "prefilling"
        BY <1>6, <3>1, <4>1 DEF SlicesOK
      <4> QED BY <3>2, <4>1, <4>2, <4>3 DEF TurnOK, SlicesOK
    <3>3. CASE plan.phase = "decode"
      <4>1. c = Engine
        BY <3>3 DEF c, CommitFrontiers
      <4>2. plan.seqs[k] \in Having(Engine, {"decoding"}) \cap Covered(Engine)
        BY <1>4, <3>1, <3>3 DEF AllDecoding
      <4>3. Engine.seqs[plan.seqs[k]].status = "decoding" /\ plan.seqs[k] \in Covered(Engine)
        BY <4>2 DEF Having
      <4> QED BY <3>3, <4>1, <4>3 DEF TurnOK
    <3> QED BY <1>4, <3>2, <3>3
  <2> QED BY <1>3, <1>4, <1>6, <2>2, PostprocessValid
<1>8. Become(t)
  BY <1>2 DEF c
<1> HIDE DEF t
<1>9. /\ Valid(t, {}) /\ Len(t.running) <= Len(c.running) /\ Moves(c, t)
      /\ t.consecutive = c.consecutive
      /\ \A r \in Requests : r \notin Range(plan.seqs) => t.seqs[r] = c.seqs[r]
  BY <1>7 DEF Posting
<1>10. Len(t.running) <= MaxNumSeqs
  <2>1. t.running \in Seq(Requests) /\ c.running \in Seq(Requests)
    BY <1>6, <1>9 DEF Valid, QueuesOK, Queue
  <2>2. Len(t.running) \in Nat /\ Len(c.running) \in Nat
    BY <2>1, LenProperties
  <2>3. Len(t.running) <= Len(c.running) /\ Len(c.running) <= MaxNumSeqs
    BY <1>1, <1>6, <1>9
  <2> QED BY <1>1, <2>2, <2>3, NumSeqsNat
<1>11. PausedOK(t, NoPlan, pending)
  <2>1. CASE pending = NoPending
    BY <2>1 DEF PausedOK
  <2>2. CASE pending # NoPending
    <3>1. plan.phase = "decode"
      BY <1>1, <2>2 DEF PausedOK
    <3>2. \A r \in Requests : Engine.seqs[r].status = "prefilling" => t.seqs[r] = Engine.seqs[r]
      <4>1. \A r \in Requests : Engine.seqs[r].status = "prefilling" => r \notin Range(plan.seqs)
        BY <1>4, <3>1
      <4> QED BY <1>6, <1>9, <4>1
    <3> QED BY <1>1, <3>2, PausedPrefilling
  <2> QED BY <2>1, <2>2
<1>12. Good(t, NoPlan, pending)
  <2>1. TurnsOK(t, pending)
    BY <1>1, <1>6, <1>9 DEF TurnsOK
  <2> QED BY <1>9, <1>10, <1>11, <2>1 DEF Good, PlanOK
<1>13. Moves(Engine, t)
  BY <1>6, <1>9 DEF Moves
<1> QED BY <1>1, <1>8, <1>12, <1>13, BecomeGood, MovesFields

LEMMA RestKeeps ==
  ASSUME IInv, UNCHANGED vars
  PROVE  IInv' /\ StepMoves
<1>1. /\ config \in Configs /\ Good(Engine, plan, pending) /\ Shaped(Engine)
      /\ plan' = plan /\ pending' = pending /\ config' = config
  BY DEF IInv, Good, Valid, vars
<1>2. Become(Engine)
  BY DEF vars, Become, Engine
<1>3. Scheduled(Engine, Engine)
  BY DEF Scheduled
<1>4. Moves(Engine, Engine)
  BY <1>1, <1>3, ScheduledMoves
<1> QED BY <1>1, <1>2, <1>4, BecomeGood, MovesFields

LEMMA InitEstablishes ==
  ASSUME Init
  PROVE  IInv
<1>1. config \in Configs /\ MaxNumSeqs \in Nat /\ NumCpuBlocks \in Nat
  BY NumSeqsNat DEF Init
<1> DEFINE free == [i \in 1 .. NumCpuBlocks |-> i - 1]
<1>2. /\ pool = Pool!EmptyPool(Retain) /\ cpuFree = free
      /\ seqs = [r \in Requests |-> NewSequence(r)]
      /\ waiting = <<>> /\ running = <<>> /\ swapped = <<>>
      /\ plan = NoPlan /\ pending = NoPending /\ fault = "none" /\ consecutive = 0
  BY DEF Init
<1>3. /\ free \in Seq(CpuBlock) /\ IsInjective(free)
      /\ \A b \in CpuBlock : b \in Range(free)
  <2>1. \A i \in 1 .. NumCpuBlocks : free[i] \in CpuBlock
    BY <1>1 DEF CpuBlock
  <2>2. free \in Seq(CpuBlock)
    <3>1. free \in [1 .. NumCpuBlocks -> CpuBlock]
      BY <2>1
    <3> HIDE DEF free
    <3> QED BY <1>1, <3>1, SeqDef
  <2>3. IsInjective(free)
    BY <1>1 DEF IsInjective
  <2>4. ASSUME NEW b \in CpuBlock PROVE b \in Range(free)
    <3>1. b + 1 \in 1 .. NumCpuBlocks /\ free[b + 1] = b
      BY <1>1 DEF CpuBlock
    <3>2. b + 1 \in DOMAIN free
      BY <3>1
    <3> QED BY <3>1, <3>2 DEF Range
  <2> QED BY <2>2, <2>3, <2>4
<1> HIDE DEF free
<1>4. ASSUME NEW r \in Requests
      PROVE  /\ IsSequence(r, seqs[r]) /\ SequenceOK(seqs[r])
             /\ seqs[r].status = "new" /\ seqs[r].cpuTable = <<>>
             /\ seqs[r].table = <<>> /\ TableOK(seqs[r])
  <2>1. Prompt[r] \in Seq(Tokens) /\ Len(Prompt[r]) \in Nat
    BY ManagerAssumption, LenProperties
  <2>2. seqs[r] = NewSequence(r)
    BY <1>2
  <2>3. <<>> \in Seq(CpuBlock) /\ Listed(<<>>)
    BY NothingListed
  <2>4. "new" \in Statuses
    BY DEF Statuses
  <2> DEFINE q == seqs[r]
  <2>5. /\ q.status = "new" /\ q.tokens = Prompt[r] /\ q.table = <<>> /\ q.cpuTable = <<>>
        /\ q.cpuHashes = <<>>
        /\ q \in [status : Statuses, tokens : Seq(Tokens), cached : Nat, computed : Nat,
                  table : {q.table}, cpuTable : Seq(CpuBlock), cpuHashes : {q.cpuHashes}]
    BY <2>1, <2>2, <2>3, <2>4 DEF NewSequence
  <2> HIDE DEF q
  <2>6. IsSequence(r, q) /\ SequenceOK(q)
    BY <2>1, <2>3, <2>5 DEF IsSequence, SequenceOK, PromptLen
  <2>7. TableOK(q)
    BY <2>5, EmptyTableOK
  <2> QED BY <2>5, <2>6, <2>7 DEF q
<1>5. seqs \in [Requests -> {seqs[r] : r \in Requests}]
  BY <1>2
<1>6. Shaped(Engine)
  BY <1>2, <1>3, <1>4, <1>5 DEF Shaped, Engine
<1>7. CpuOK(Engine)
  <2>1. IsInjective(<<>>) /\ Range(<<>>) = {}
    BY NoElements
  <2> QED BY <1>2, <1>3, <1>4, <2>1 DEF CpuOK, Engine
<1>8. QueuesOK(Engine, {})
  <2>1. Queue(<<>>, {})
    BY NoElements DEF Queue
  <2>2. /\ Having(Engine, {"waiting"}) = {} /\ Having(Engine, {"swapped"}) = {}
        /\ Having(Engine, {"prefilling", "decoding"}) \ {} = {}
    BY <1>4 DEF Having, Engine
  <2>3. Engine.waiting = <<>> /\ Engine.running = <<>> /\ Engine.swapped = <<>>
    BY <1>2 DEF Engine
  <2> QED BY <2>1, <2>2, <2>3, Zenon DEF QueuesOK
<1>p. PagesOK(Engine)
  <2> DEFINE T == Tables(Engine)
             p == PF!EmptyPool(Retain)
  <2>1. T = [r \in Requests |-> {}]
    <3>1. \A r \in Requests : Range(Engine.seqs[r].table) = {}
      BY <1>4, NoElements DEF Engine
    <3> QED BY <3>1 DEF Tables
  <2>2. Retain \in BOOLEAN
    BY <1>1, ManagerAssumption DEF Retain
  <2> HIDE DEF T
  <2>3. NumBlocks \in Nat \ {0} /\ <<>> \notin PageHashes /\ <<>> \notin PageContents
    BY PoolConstants
  <2>4. PF!IsFiniteSet(Requests)
    BY PoolConstants
  <2>5. PF!Counted(p, T)
    BY <2>1, <2>2, <2>3, <2>4, PF!EmptyCounted
  <2>6. Engine.pool = p
    BY <1>2, SameEmpty DEF Engine
  <2> HIDE DEF p
  <2>7. Counts(Engine.pool, Tables(Engine))
    BY <2>5, <2>6 DEF Counts, T
  <2>8. \A r \in Requests : TableOK(Engine.seqs[r])
    BY <1>4 DEF Engine
  <2> QED BY <2>7, <2>8 DEF PagesOK
<1>9. Valid(Engine, {})
  <2>1. Engine.fault = "none" /\ Engine.seqs = seqs
    BY <1>2 DEF Engine
  <2> QED BY <1>4, <1>6, <1>7, <1>8, <1>p, <2>1 DEF Valid, BadTransition, LatePrefill
<1>10. Len(Engine.running) <= MaxNumSeqs
  BY <1>1, <1>2, NoElements DEF Engine
<1> QED BY <1>1, <1>2, <1>9, <1>10 DEF IInv, Good, PlanOK, PausedOK, TurnsOK

LEMMA NextKeeps ==
  ASSUME IInv, [Next]_vars
  PROVE  IInv' /\ StepMoves
<1>1. CASE UNCHANGED vars
  BY <1>1, RestKeeps
<1>2. ASSUME NEW r \in config.clients, Add(r) \/ Reject(r) \/ Cancel(r), config' = config
      PROVE  IInv' /\ StepMoves
  <2>1. r \in Requests
    BY SchedulerAssumption DEF IInv
  <2> QED BY <1>2, <2>1, AddKeeps, RejectKeeps, CancelKeeps
<1>3. CASE EngineStep /\ config' = config
  BY <1>3, ScheduleKeeps, AdvancePrefillKeeps, ExecutePlanKeeps DEF EngineStep
<1>4. CASE Rest /\ config' = config
  <2>1. UNCHANGED vars
    BY <1>4 DEF Rest, vars
  <2> QED BY <2>1, RestKeeps
<1> QED BY <1>1, <1>2, <1>3, <1>4 DEF Next

-----------------------------------------------------------------------------
(* Theorems.                                                                 *)

\* In every behaviour, under every sampler, order of calls and instant of cancellation,
\* queues and statuses agree, CPU pages are owned once, plans name requests in the state
\* they were planned in, and a paused prefill stands where it was paused.
THEOREM SchedulerInvariant == Spec => []IInv
<1>1. Init => IInv
  BY InitEstablishes
<1>2. IInv /\ [Next]_vars => IInv'
  BY NextKeeps
<1> QED BY <1>1, <1>2, PTL DEF Spec

LEMMA QueuesAgree ==
  ASSUME IInv
  PROVE  QueuesMatchStatus
<1>1. /\ Queue(waiting, Having(Engine, {"waiting"})) /\ Queue(swapped, Having(Engine, {"swapped"}))
      /\ Queue(running, Having(Engine, {"prefilling", "decoding"}))
  BY DEF IInv, Good, Valid, QueuesOK, Queue, Engine
<1>2. /\ waiting \in Seq(Requests) /\ running \in Seq(Requests) /\ swapped \in Seq(Requests)
      /\ IsInjective(waiting) /\ IsInjective(running) /\ IsInjective(swapped)
      /\ Range(waiting) = Having(Engine, {"waiting"})
      /\ Range(running) = Having(Engine, {"prefilling", "decoding"})
      /\ Range(swapped) = Having(Engine, {"swapped"})
  BY <1>1 DEF Queue
<1>3. Range(waiting) \cap Range(running) = {}
  BY <1>2 DEF Having
<1>4. /\ waiting \o running \in Seq(Requests) /\ IsInjective(waiting \o running)
      /\ Range(waiting \o running) = Range(waiting) \cup Range(running)
  BY <1>2, <1>3, JoinProperties
<1>5. Range(waiting \o running) \cap Range(swapped) = {}
  BY <1>2, <1>4 DEF Having
<1>6. IsInjective((waiting \o running) \o swapped)
  BY <1>2, <1>4, <1>5, JoinProperties
<1>7. IsInjective(waiting \o running \o swapped)
  BY <1>6
<1>8. \A r \in Requests :
        /\ r \in ToSet(waiting) <=> seqs[r].status = "waiting"
        /\ r \in ToSet(running) <=> seqs[r].status \in {"prefilling", "decoding"}
        /\ r \in ToSet(swapped) <=> seqs[r].status = "swapped"
  BY <1>2, ToSetRange DEF Having, Engine
<1> QED BY <1>7, <1>8 DEF QueuesMatchStatus

\* Submission, planning, preemption in the middle of a decode plan, completion and
\* cancellation keep every request in exactly the queue its status names, once.
THEOREM SchedulerQueues == Spec => []QueuesMatchStatus
<1>1. IInv => QueuesMatchStatus
  BY QueuesAgree
<1> QED BY <1>1, SchedulerInvariant, PTL

LEMMA CpuPagesAgree ==
  ASSUME IInv
  PROVE  CpuPagesOwnedOnce
<1>1. CpuOK(Engine) /\ Shaped(Engine) /\ Engine.cpuFree = cpuFree /\ Engine.seqs = seqs
  BY DEF IInv, Good, Valid, Engine
<1>2. /\ cpuFree \in Seq(CpuBlock)
      /\ \A r \in Requests : seqs[r].cpuTable \in Seq(CpuBlock)
  BY <1>1 DEF Shaped, IsSequence
<1>3. ToSet(cpuFree) = Range(cpuFree) /\ \A r \in Requests : ToSet(seqs[r].cpuTable) = Range(seqs[r].cpuTable)
  BY ToSetRange
<1>4. Range(cpuFree) \subseteq CpuBlock
  BY <1>2, RangeOfSeq
<1>5. \A r \in Requests : Range(seqs[r].cpuTable) \subseteq CpuBlock
  BY <1>2, RangeOfSeq
<1>6. CpuBlock = Range(cpuFree) \cup UNION {Range(seqs[r].cpuTable) : r \in Requests}
  BY <1>1, <1>4, <1>5 DEF CpuOK
<1>7. UNION {ToSet(seqs[r].cpuTable) : r \in Requests} = UNION {Range(seqs[r].cpuTable) : r \in Requests}
  BY <1>3
<1>8. /\ IsInjective(cpuFree)
      /\ \A r \in Requests :
           IsInjective(seqs[r].cpuTable) /\ ToSet(seqs[r].cpuTable) \cap ToSet(cpuFree) = {}
      /\ \A q, r \in Requests : q # r => ToSet(seqs[q].cpuTable) \cap ToSet(seqs[r].cpuTable) = {}
  BY <1>1, <1>3 DEF CpuOK
<1>9. CpuBlock = ToSet(cpuFree) \cup UNION {ToSet(seqs[r].cpuTable) : r \in Requests}
  BY <1>3, <1>6, <1>7
<1> QED BY <1>8, <1>9 DEF CpuPagesOwnedOnce

\* Swap-out, swap-in, completion and cancellation of a swapped request neither lose a CPU
\* page nor give it to two requests, for every number of CPU pages.
THEOREM SchedulerCpuPages == Spec => []CpuPagesOwnedOnce
<1>1. IInv => CpuPagesOwnedOnce
  BY CpuPagesAgree
<1> QED BY <1>1, SchedulerInvariant, PTL

LEMMA PageCountsAgree ==
  ASSUME IInv
  PROVE  PageCountsExact
<1> DEFINE T == Tables(Engine)
<1>1. Counts(pool, T)
  BY DEF IInv, Good, Valid, PagesOK, Engine
<1>2. T = [r \in Requests |-> ToSet(seqs[r].table)]
  BY ToSetRange DEF Tables, Engine
<1> HIDE DEF T
<1>3. PF!BlocksPartitioned(pool) /\ PF!CountsMatch(pool, T)
  BY <1>1 DEF Counts, PF!Counted, PF!PoolOK
<1>4. Pool!Partition
  BY <1>3, SamePartition DEF Pool!Partition
<1>5. Pool!RefCountsExact
  <2>1. \A b \in PF!Block : pool.ref[b] = PF!Cardinality({o \in Requests : b \in T[o]})
    BY <1>3 DEF PF!CountsMatch, PF!Holders
  <2>2. \A S : PF!Cardinality(S) = Pool!Cardinality(S)
    BY DEF PF!Cardinality, Pool!Cardinality
  <2>3. \A b \in Pool!Block : pool.ref[b] = Pool!Cardinality({o \in Requests : b \in T[o]})
    BY <2>1, <2>2, SameBlock
  <2> QED BY <1>2, <2>3 DEF Pool!RefCountsExact
<1> QED BY <1>4, <1>5 DEF PageCountsExact

\* Allocation, sharing of cached prefixes, decode growth, copy on write, swapping out and in,
\* preemption by recompute, completion and cancellation keep ref_count equal to the number of
\* page tables that name the page, and the pages divided into free, used and cached ones.
THEOREM SchedulerPageCounts == Spec => []PageCountsExact
<1>1. IInv => PageCountsExact
  BY PageCountsAgree
<1> QED BY <1>1, SchedulerInvariant, PTL

LEMMA FinishedEmpty ==
  ASSUME IInv
  PROVE  NothingLeaks
<1> SUFFICES ASSUME IsFinished(Engine)
             PROVE  Pool!FreeCount(pool) = NumBlocks /\ Len(cpuFree) = NumCpuBlocks
  BY DEF NothingLeaks
<1>1. Valid(Engine, {}) /\ config \in Configs
  BY DEF IInv, Good
<1>2. \A r \in Requests : seqs[r].table = <<>> /\ seqs[r].cpuTable = <<>>
  <2>1. Engine.waiting = <<>> /\ Engine.running = <<>> /\ Engine.swapped = <<>> /\ Range(<<>>) = {}
    BY NoElements DEF IsFinished
  <2>2. /\ Range(Engine.running) = Having(Engine, {"prefilling", "decoding"})
        /\ Range(Engine.swapped) = Having(Engine, {"swapped"})
    BY <1>1 DEF Valid, QueuesOK, Queue
  <2>3. Having(Engine, {"prefilling", "decoding"}) = {} /\ Having(Engine, {"swapped"}) = {}
    BY <2>1, <2>2
  <2>4. \A r \in Requests : seqs[r].status \notin {"prefilling", "decoding"} /\ seqs[r].status # "swapped"
    BY <2>3 DEF Having, Engine
  <2> QED BY <1>1, <2>4 DEF Valid, SequenceOK, Engine
<1>3. Range(<<>>) = {}
  BY NoElements
<1>4. Pool!FreeCount(pool) = NumBlocks
  <2> DEFINE T == Tables(Engine)
  <2>1. PF!Counted(pool, T)
    BY <1>1 DEF Valid, PagesOK, Engine, Counts
  <2>2. \A r \in Requests : T[r] = {}
    BY <1>2, <1>3 DEF Tables, Engine
  <2> HIDE DEF T
  <2>3. NumBlocks \in Nat \ {0} /\ <<>> \notin PageHashes /\ <<>> \notin PageContents
    BY PoolConstants
  <2>4. PF!IsFiniteSet(Requests)
    BY PoolConstants
  <2>5. PF!FreeCount(pool) = NumBlocks
    BY <2>1, <2>2, <2>3, <2>4, PF!NothingHeld
  <2> QED BY <2>5, SameFreeCount
<1>5. Len(cpuFree) = NumCpuBlocks
  <2>1. cpuFree \in Seq(CpuBlock) /\ IsInjective(cpuFree)
    BY <1>1 DEF Valid, Shaped, CpuOK, Engine
  <2>2. Range(cpuFree) = CpuBlock
    <3>1. Range(cpuFree) \subseteq CpuBlock
      BY <2>1, RangeOfSeq
    <3>2. \A b \in CpuBlock : b \in Range(cpuFree)
      BY <1>1, <1>2, <1>3 DEF Valid, CpuOK, Engine
    <3> QED BY <3>1, <3>2
  <2>3. Cardinality(CpuBlock) = Len(cpuFree)
    BY <2>1, <2>2, InjectiveCardinality
  <2>4. NumCpuBlocks \in Nat
    BY <1>1, ManagerAssumption DEF NumCpuBlocks
  <2> DEFINE n == NumCpuBlocks
  <2>5. Cardinality(0 .. n - 1) = n
    <3> HIDE DEF n
    <3>1. n \in Nat
      BY <2>4 DEF n
    <3>2. Cardinality(0 .. n - 1) = IF 0 > n - 1 THEN 0 ELSE (n - 1) - 0 + 1
      BY <3>1, FS_Interval
    <3> QED BY <3>1, <3>2
  <2> QED BY <2>3, <2>5 DEF CpuBlock
<1> QED BY <1>4, <1>5

\* When every queue is empty every GPU page can be allocated and every CPU page is free:
\* no order of completion, preemption, swapping and cancellation loses a page.
THEOREM SchedulerNothingLeaks == Spec => []NothingLeaks
<1>1. IInv => NothingLeaks
  BY FinishedEmpty
<1> QED BY <1>1, SchedulerInvariant, PTL

\* Swap-ins and admissions of the same step together respect max_num_seqs.
THEOREM SchedulerBound == Spec => []RunningBounded
<1>1. IInv => RunningBounded
  BY DEF IInv, Good, RunningBounded, Engine
<1> QED BY <1>1, SchedulerInvariant, PTL

\* While a decoding request waits and the prefill turns are used up, planning answers with a
\* decode step, with nothing, or with a prefill next to which nobody could have decoded.
LEMMA PrefillOverTurns ==
  ASSUME config \in Configs, NEW s, Valid(s, {}), Len(s.running) <= MaxNumSeqs,
         s.fault = "none", s.consecutive >= MaxConsecutive, Decoding(s) # {}
  PROVE  \/ SchedulePlan(s).plan.phase # "prefill"
         \/ \A r \in Decoding(s) : ~CanAppend(s, r)
<1> DEFINE resident == DecodePlan(s, TRUE)
<1>1. s.consecutive \in Nat /\ MaxConsecutive \in Nat
  BY SchedulerAssumption DEF Valid, Shaped
<1>2. DecodeWork(s)
  <2>1. Range(s.running) = Having(s, {"prefilling", "decoding"})
    BY DEF Valid, QueuesOK, Queue
  <2>2. PICK r \in Decoding(s) : TRUE
    OBVIOUS
  <2>3. r \in Requests /\ s.seqs[r].status = "decoding"
    BY DEF Decoding
  <2>4. r \in ToSet(s.running)
    BY <2>1, <2>3, ToSetRange DEF Having
  <2> QED BY <2>3, <2>4 DEF DecodeWork
<1>3. ~ShouldSchedulePrefill(s)
  BY <1>1, <1>2 DEF ShouldSchedulePrefill
<1>4. Unplanned(s).s = s /\ Unplanned(s).plan = NoPlan /\ ~Settled(Unplanned(s))
  BY DEF Unplanned, Settled
<1>5. SchedulePlan(s) = AfterPrefill(Unplanned(s), RunningPrefill(s))
  BY <1>3 DEF SchedulePlan
<1>6. ASSUME NEW p, NEW alone \in BOOLEAN, DecodePlanned(s, p, alone) PROVE p.plan.phase # "prefill"
  BY <1>6, NoPlanPhase DEF DecodePlanned
<1>7. CASE ~RunningPrefill(s)
  <2>1. SchedulePlan(s) = ScheduleDecode(s)
    BY <1>4, <1>5, <1>7 DEF AfterPrefill, DecodeUnless
  <2> QED BY <1>6, <2>1, ScheduleDecodeValid
<1>8. CASE RunningPrefill(s)
  <2>1. SchedulePlan(s) = RetryPrefillUnless(resident)
    BY <1>4, <1>5, <1>8 DEF AfterPrefill
  <2>2. CASE Settled(resident)
    <3>1. SchedulePlan(s) = resident
      BY <2>1, <2>2 DEF RetryPrefillUnless
    <3> QED BY <1>6, <3>1, DecodePlanValid
  <2>3. CASE ~Settled(resident)
    BY <2>3, NobodyFits DEF Settled
  <2> QED BY <2>2, <2>3
<1> QED BY <1>7, <1>8

LEMMA StepKeepsTurns ==
  ASSUME IInv, [Next]_vars, plan = NoPlan, plan'.phase = "prefill", consecutive >= MaxConsecutive,
         NEW r \in Requests, seqs[r].status = "decoding"
  PROVE  ~CanAppend(Engine, r)
<1>1. plan' # plan
  BY NoPlanPhase
<1>2. Schedule \/ AdvancePrefill
  <2>1. ~UNCHANGED vars
    BY <1>1 DEF vars
  <2>2. /\ \A q : ~Add(q) /\ ~Reject(q) /\ ~Cancel(q)
        /\ ~Rest /\ ~ExecutePlan
    BY <1>1, Zenon DEF Add, Reject, Cancel, Rest, ExecutePlan
  <2> QED BY <2>1, <2>2 DEF Next, EngineStep
<1>3. Idle
  BY <1>2 DEF Schedule, AdvancePrefill
<1>4. /\ Valid(Engine, {}) /\ Len(Engine.running) <= MaxNumSeqs /\ TurnsOK(Engine, pending)
      /\ config \in Configs
  BY <1>3, IdleGood
<1>5. Engine.consecutive = consecutive /\ Engine.fault = "none" /\ r \in Decoding(Engine)
  BY <1>3 DEF Engine, Decoding, Idle
<1>6. pending = NoPending
  <2>1. MaxConsecutive \in Nat \ {0}
    BY SchedulerAssumption
  <2> QED BY <1>4, <1>5, <2>1 DEF TurnsOK
<1>7. StartStep(SchedulePlan(Engine))
  BY <1>2, <1>6 DEF Schedule, AdvancePrefill
<1>8. CASE SchedulePlan(Engine).plan.phase = "prefill"
  BY <1>4, <1>5, <1>8, PrefillOverTurns
<1>9. CASE SchedulePlan(Engine).plan.phase # "prefill"
  BY <1>7, <1>9 DEF StartStep
<1> QED BY <1>8, <1>9

\* However many requests wait and whatever is cancelled in between, prefill exceeds
\* max_consecutive_prefill_batches only when no decoding request has room for its next token.
THEOREM SchedulerDecodeTurns == Spec => DecodeTurnsKept
<1> DEFINE Step ==
      plan = NoPlan /\ plan'.phase = "prefill" /\ consecutive >= MaxConsecutive
      => \A r \in Requests : seqs[r].status = "decoding" => ~CanAppend(Engine, r)
<1>1. IInv /\ [Next]_vars => Step
  BY StepKeepsTurns
<1>2. IInv /\ [Next]_vars => [Step]_vars
  BY <1>1
<1> QED BY <1>2, SchedulerInvariant, PTL DEF Spec, DecodeTurnsKept

LEMMA PausedIntact ==
  ASSUME IInv
  PROVE  PausedPrefillIntact
<1> SUFFICES ASSUME pending # NoPending, NEW k \in DOMAIN pending.plan.seqs
             PROVE  /\ seqs[pending.plan.seqs[k]].status = "prefilling"
                    /\ seqs[pending.plan.seqs[k]].computed = pending.plan.slices[k][1]
                    /\ Pages(pending.plan.slices[k][2]) <= Len(seqs[pending.plan.seqs[k]].table)
  BY DEF PausedPrefillIntact
<1> DEFINE members == pending.plan.seqs
           slices == pending.plan.slices
           r == members[k]
           end == slices[k][2]
<1>1. SlicesOK(Engine, members, slices)
  BY DEF IInv, Good, PausedOK
<1>2. members \in Seq(Requests) /\ slices \in Seq(Nat \X Nat) /\ Len(slices) = Len(members)
  BY <1>1 DEF SlicesOK
<1>3. k \in 1 .. Len(members)
  BY <1>2, LenProperties
<1>4. r \in Requests /\ slices[k] \in Nat \X Nat
  BY <1>2, <1>3, ElementOfSeq
<1>5. /\ seqs[r].status = "prefilling" /\ seqs[r].computed = slices[k][1]
      /\ end <= PromptLen(r)
  BY <1>1, <1>3 DEF SlicesOK, Engine
<1>6. /\ IsSequence(r, seqs[r]) /\ SequenceOK(seqs[r])
  BY <1>4 DEF IInv, Good, Valid, Shaped, Engine
<1>7. NumPages(seqs[r]) <= Len(seqs[r].table) /\ Len(seqs[r].table) \in Nat
  BY <1>5, <1>6, ListedProperties DEF SequenceOK, IsSequence
<1>8. end \in Nat /\ Len(seqs[r].tokens) \in Nat /\ end <= Len(seqs[r].tokens)
  <2> DEFINE m == PromptLen(r)
             n == Len(seqs[r].tokens)
  <2>1. m \in Nat /\ n \in Nat /\ m <= n
    BY <1>4, <1>6, TokensOf
  <2>2. end \in Nat /\ end <= m
    BY <1>4, <1>5
  <2> HIDE DEF m, n, end
  <2>3. end <= n
    BY <2>1, <2>2
  <2> QED BY <2>1, <2>2, <2>3 DEF n
<1> DEFINE a == Pages(end)
           b == NumPages(seqs[r])
           c == Len(seqs[r].table)
<1>9. a \in Nat /\ b \in Nat /\ a <= b
  BY <1>8, PagesMonotone DEF NumPages
<1>10. c \in Nat /\ b <= c
  BY <1>7
<1> HIDE DEF a, b, c
<1>11. a <= c
  BY <1>9, <1>10
<1> QED BY <1>5, <1>11 DEF a, c

\* Decode turns, admissions and cancellations between two quanta of a cooperative prefill
\* leave its members prefilling at the start of their slices, on pages that cover them.
THEOREM SchedulerPausedPrefill == Spec => []PausedPrefillIntact
<1>1. IInv => PausedPrefillIntact
  BY PausedIntact
<1> QED BY <1>1, SchedulerInvariant, PTL

\* No call ever asks for a transition the table of request.py refuses, and postprocess
\* never meets a prefill result of a request that has left PREFILLING.
TransitionsAccepted == fault \notin {BadTransition, LatePrefill}

\* The RuntimeErrors of RequestLifecycle.transition and of a late prefill result are
\* unreachable, whatever is submitted, sampled and cancelled.
THEOREM SchedulerTransitions == Spec => []TransitionsAccepted
<1>1. IInv => TransitionsAccepted
  BY DEF IInv, Good, Valid, TransitionsAccepted, Engine
<1> QED BY <1>1, SchedulerInvariant, PTL

LEMMA StepsAreLifecycleSteps ==
  ASSUME IInv, [Next]_vars
  PROVE  [Lifecycle!Next]_([r \in Requests |-> seqs[r].status])
<1> DEFINE st == [r \in Requests |-> seqs[r].status]
<1>1. \A r \in Requests : Lifecycle!MayMove(st[r], st'[r])
  BY NextKeeps DEF StepMoves
<1>2. DOMAIN st' = Requests
  OBVIOUS
<1> QED BY <1>1, <1>2 DEF Lifecycle!Next

\* Refinement: every step of the engine, whole decode plans with their preemptions
\* included, moves each request along at most one edge of the table of request.py.
THEOREM SchedulerRefinesLifecycle == Spec => Lifecycle!SafeSpec
<1>1. Init => Lifecycle!Init
  BY DEF Init, Lifecycle!Init, NewSequence
<1>2. IInv /\ [Next]_vars => [Lifecycle!Next]_([r \in Requests |-> seqs[r].status])
  BY StepsAreLifecycleSteps
<1> QED BY <1>1, <1>2, SchedulerInvariant, PTL DEF Spec, Lifecycle!SafeSpec
=============================================================================
