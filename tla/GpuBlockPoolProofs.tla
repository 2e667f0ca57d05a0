-------------------------- MODULE GpuBlockPoolProofs --------------------------
(***************************************************************************)
(* Proofs that the block pool keeps its blocks partitioned, its index      *)
(* sound and its reference counts exact, for every number of blocks,       *)
(* hashes, contents and owners, with and without lazy retention.           *)
(***************************************************************************)
EXTENDS GpuBlockPool, DequeProofs, FiniteSetTheorems, SequenceTheorems, WellFoundedInduction, TLAPS

-----------------------------------------------------------------------------
(* Types.                                                                  *)

\* The hash index maps some of the hashes, each to one block.
LEMMA IndexType ==
  ASSUME NEW p \in Pools
  PROVE  DOMAIN p.index \subseteq Hashes /\ p.index \in [DOMAIN p.index -> Block]
<1>1. PICK H \in SUBSET Hashes : p.index \in [H -> Block]
  BY DEF Pools
<1> QED BY <1>1

\* A map from some of the hashes to blocks has the type of the index.
LEMMA IndexMember ==
  ASSUME NEW f, NEW H \in SUBSET Hashes, f \in [H -> Block]
  PROVE  f \in UNION {[G -> Block] : G \in SUBSET Hashes}
  OBVIOUS

-----------------------------------------------------------------------------
(* Updates of one field.  A method's multiple EXCEPT is a chain of these.  *)

SetRef(p, v) == [p EXCEPT !.ref = v]
SetHash(p, v) == [p EXCEPT !.hash = v]
SetContent(p, v) == [p EXCEPT !.content = v]
SetIndex(p, v) == [p EXCEPT !.index = v]
SetQueue(p, v) == [p EXCEPT !.queue = v]
SetFree(p, v) == [p EXCEPT !.free = v]
SetUsed(p, v) == [p EXCEPT !.used = v]
SetCached(p, v) == [p EXCEPT !.cached = v]

\* Replacing the reference counts leaves the other fields of the pool alone.
LEMMA SetRefEffect ==
  ASSUME NEW p \in Pools, NEW v \in [Block -> Nat]
  PROVE  /\ SetRef(p, v) \in Pools /\ SetRef(p, v).retain = p.retain
         /\ SetRef(p, v).ref = v
         /\ SetRef(p, v).hash = p.hash /\ SetRef(p, v).content = p.content
         /\ SetRef(p, v).index = p.index /\ SetRef(p, v).queue = p.queue
         /\ SetRef(p, v).free = p.free /\ SetRef(p, v).used = p.used
         /\ SetRef(p, v).cached = p.cached
  BY DEF Pools, SetRef

\* Replacing the block hashes leaves the other fields alone.
LEMMA SetHashEffect ==
  ASSUME NEW p \in Pools, NEW v \in [Block -> Hashes \cup {NO_BLOCK_HASH}]
  PROVE  /\ SetHash(p, v) \in Pools /\ SetHash(p, v).retain = p.retain
         /\ SetHash(p, v).hash = v
         /\ SetHash(p, v).ref = p.ref /\ SetHash(p, v).content = p.content
         /\ SetHash(p, v).index = p.index /\ SetHash(p, v).queue = p.queue
         /\ SetHash(p, v).free = p.free /\ SetHash(p, v).used = p.used
         /\ SetHash(p, v).cached = p.cached
  BY DEF Pools, SetHash

\* Replacing the block contents leaves the other fields alone.
LEMMA SetContentEffect ==
  ASSUME NEW p \in Pools, NEW v \in [Block -> Contents \cup {NoContent}]
  PROVE  /\ SetContent(p, v) \in Pools /\ SetContent(p, v).retain = p.retain
         /\ SetContent(p, v).content = v
         /\ SetContent(p, v).ref = p.ref /\ SetContent(p, v).hash = p.hash
         /\ SetContent(p, v).index = p.index /\ SetContent(p, v).queue = p.queue
         /\ SetContent(p, v).free = p.free /\ SetContent(p, v).used = p.used
         /\ SetContent(p, v).cached = p.cached
  BY DEF Pools, SetContent

\* Replacing the index leaves the other fields alone.
LEMMA SetIndexEffect ==
  ASSUME NEW p \in Pools, NEW v \in UNION {[H -> Block] : H \in SUBSET Hashes}
  PROVE  /\ SetIndex(p, v) \in Pools /\ SetIndex(p, v).retain = p.retain
         /\ SetIndex(p, v).index = v
         /\ SetIndex(p, v).ref = p.ref /\ SetIndex(p, v).hash = p.hash
         /\ SetIndex(p, v).content = p.content /\ SetIndex(p, v).queue = p.queue
         /\ SetIndex(p, v).free = p.free /\ SetIndex(p, v).used = p.used
         /\ SetIndex(p, v).cached = p.cached
  BY DEF Pools, SetIndex

\* Replacing the free queue leaves the other fields alone.
LEMMA SetQueueEffect ==
  ASSUME NEW p \in Pools, NEW v \in Seq(Block)
  PROVE  /\ SetQueue(p, v) \in Pools /\ SetQueue(p, v).retain = p.retain
         /\ SetQueue(p, v).queue = v
         /\ SetQueue(p, v).ref = p.ref /\ SetQueue(p, v).hash = p.hash
         /\ SetQueue(p, v).content = p.content /\ SetQueue(p, v).index = p.index
         /\ SetQueue(p, v).free = p.free /\ SetQueue(p, v).used = p.used
         /\ SetQueue(p, v).cached = p.cached
  BY DEF Pools, SetQueue

\* Replacing the free set leaves the other fields alone.
LEMMA SetFreeEffect ==
  ASSUME NEW p \in Pools, NEW v \in SUBSET Block
  PROVE  /\ SetFree(p, v) \in Pools /\ SetFree(p, v).retain = p.retain
         /\ SetFree(p, v).free = v
         /\ SetFree(p, v).ref = p.ref /\ SetFree(p, v).hash = p.hash
         /\ SetFree(p, v).content = p.content /\ SetFree(p, v).index = p.index
         /\ SetFree(p, v).queue = p.queue /\ SetFree(p, v).used = p.used
         /\ SetFree(p, v).cached = p.cached
  BY DEF Pools, SetFree

\* Replacing the used set leaves the other fields alone.
LEMMA SetUsedEffect ==
  ASSUME NEW p \in Pools, NEW v \in SUBSET Block
  PROVE  /\ SetUsed(p, v) \in Pools /\ SetUsed(p, v).retain = p.retain
         /\ SetUsed(p, v).used = v
         /\ SetUsed(p, v).ref = p.ref /\ SetUsed(p, v).hash = p.hash
         /\ SetUsed(p, v).content = p.content /\ SetUsed(p, v).index = p.index
         /\ SetUsed(p, v).queue = p.queue /\ SetUsed(p, v).free = p.free
         /\ SetUsed(p, v).cached = p.cached
  BY DEF Pools, SetUsed

\* Replacing the parked blocks leaves the other fields alone.
LEMMA SetCachedEffect ==
  ASSUME NEW p \in Pools, NEW v \in Seq(Block)
  PROVE  /\ SetCached(p, v) \in Pools /\ SetCached(p, v).retain = p.retain
         /\ SetCached(p, v).cached = v
         /\ SetCached(p, v).ref = p.ref /\ SetCached(p, v).hash = p.hash
         /\ SetCached(p, v).content = p.content /\ SetCached(p, v).index = p.index
         /\ SetCached(p, v).queue = p.queue /\ SetCached(p, v).free = p.free
         /\ SetCached(p, v).used = p.used
  BY DEF Pools, SetCached


-----------------------------------------------------------------------------
\* remove_hash_index changes the index only, and there only the entry of the block.
LEMMA RemoveHashIndexEffect ==
  ASSUME NEW p \in Pools, NEW b \in Block
  PROVE  LET q == RemoveHashIndex(p, b)
         IN  /\ q \in Pools /\ q.retain = p.retain
             /\ q.ref = p.ref /\ q.hash = p.hash /\ q.content = p.content
             /\ q.queue = p.queue /\ q.free = p.free /\ q.used = p.used /\ q.cached = p.cached
             /\ \A h \in DOMAIN q.index : h \in DOMAIN p.index /\ q.index[h] = p.index[h]
             /\ IndexNamesHolder(p) => \A h \in DOMAIN q.index : q.index[h] # b
<1> DEFINE q == RemoveHashIndex(p, b)
<1>1. CASE p.hash[b] \in DOMAIN p.index /\ p.index[p.hash[b]] = b
  <2> DEFINE f == Restrict(p.index, DOMAIN p.index \ {p.hash[b]})
  <2>1. f \in [DOMAIN p.index \ {p.hash[b]} -> Block]
    BY IndexType DEF Restrict
  <2>2. f \in UNION {[G -> Block] : G \in SUBSET Hashes}
    BY <2>1, IndexType, IndexMember
  <2>3. q = SetIndex(p, f)
    BY <1>1 DEF RemoveHashIndex, SetIndex
  <2> HIDE DEF f, q
  <2>4. q \in Pools /\ q.retain = p.retain /\ q.index = f
    BY <2>2, <2>3, SetIndexEffect
  <2>5. /\ q.ref = p.ref /\ q.hash = p.hash /\ q.content = p.content
        /\ q.queue = p.queue /\ q.free = p.free /\ q.used = p.used /\ q.cached = p.cached
    BY <2>2, <2>3, SetIndexEffect
  <2>6. /\ \A h \in DOMAIN q.index : h \in DOMAIN p.index /\ q.index[h] = p.index[h]
        /\ IndexNamesHolder(p) => \A h \in DOMAIN q.index : q.index[h] # b
    BY <2>1, <2>4 DEF f, Restrict, IndexNamesHolder
  <2> QED BY <2>4, <2>5, <2>6 DEF q
<1>2. CASE ~(p.hash[b] \in DOMAIN p.index /\ p.index[p.hash[b]] = b)
  BY <1>2 DEF RemoveHashIndex, IndexNamesHolder
<1> QED BY <1>1, <1>2

\* clear_hash unpublishes one block and touches nothing else.
LEMMA ClearHashEffect ==
  ASSUME NEW p \in Pools, NEW b \in Block
  PROVE  /\ ClearHash(p, b) \in Pools /\ ClearHash(p, b).retain = p.retain
         /\ ClearHash(p, b).ref = p.ref
         /\ ClearHash(p, b).queue = p.queue
         /\ ClearHash(p, b).free = p.free
         /\ ClearHash(p, b).used = p.used
         /\ ClearHash(p, b).cached = p.cached
         /\ ClearHash(p, b).hash = [p.hash EXCEPT ![b] = NO_BLOCK_HASH]
         /\ \A h \in DOMAIN ClearHash(p, b).index :
              h \in DOMAIN p.index /\ ClearHash(p, b).index[h] = p.index[h]
         /\ IndexNamesHolder(p) =>
              \A h \in DOMAIN ClearHash(p, b).index : ClearHash(p, b).index[h] # b
<1> DEFINE q == RemoveHashIndex(p, b)
<1>1. /\ q \in Pools /\ q.retain = p.retain
      /\ q.ref = p.ref /\ q.hash = p.hash /\ q.content = p.content
      /\ q.queue = p.queue /\ q.free = p.free /\ q.used = p.used /\ q.cached = p.cached
      /\ \A h \in DOMAIN q.index : h \in DOMAIN p.index /\ q.index[h] = p.index[h]
      /\ IndexNamesHolder(p) => \A h \in DOMAIN q.index : q.index[h] # b
  BY RemoveHashIndexEffect
<1> DEFINE newHash == [p.hash EXCEPT ![b] = NO_BLOCK_HASH]
           newContent == [p.content EXCEPT ![b] = NoContent]
<1>2. newHash \in [Block -> Hashes \cup {NO_BLOCK_HASH}] /\ newContent \in [Block -> Contents \cup {NoContent}]
  BY DEF Pools
<1>3. ClearHash(p, b) = SetContent(SetHash(q, newHash), newContent)
  <2>1. ClearHash(p, b) = SetContent(SetHash(q, [q.hash EXCEPT ![b] = NO_BLOCK_HASH]),
            [SetHash(q, [q.hash EXCEPT ![b] = NO_BLOCK_HASH]).content EXCEPT ![b] = NoContent])
    BY DEF ClearHash, SetContent, SetHash
  <2> HIDE DEF q
  <2>2. SetHash(q, newHash).content = p.content
    BY <1>1, <1>2, SetHashEffect
  <2> QED BY <1>1, <2>1, <2>2
<1> HIDE DEF q, newHash, newContent
<1>4. /\ SetHash(q, newHash) \in Pools /\ SetHash(q, newHash).retain = p.retain
      /\ SetHash(q, newHash).hash = newHash
      /\ SetHash(q, newHash).ref = p.ref /\ SetHash(q, newHash).index = q.index
      /\ SetHash(q, newHash).queue = p.queue /\ SetHash(q, newHash).free = p.free
      /\ SetHash(q, newHash).used = p.used /\ SetHash(q, newHash).cached = p.cached
  BY <1>1, <1>2, SetHashEffect
<1> DEFINE r == SetHash(q, newHash)
<1> HIDE DEF r
<1>5. r \in Pools /\ r.retain = p.retain /\ ClearHash(p, b) = SetContent(r, newContent)
  BY <1>3, <1>4 DEF r
<1>6. /\ ClearHash(p, b) \in Pools /\ ClearHash(p, b).retain = p.retain
      /\ ClearHash(p, b).ref = r.ref /\ ClearHash(p, b).queue = r.queue
      /\ ClearHash(p, b).free = r.free /\ ClearHash(p, b).used = r.used
      /\ ClearHash(p, b).cached = r.cached /\ ClearHash(p, b).index = r.index
      /\ ClearHash(p, b).hash = r.hash
  BY <1>2, <1>5, SetContentEffect
<1> QED BY <1>1, <1>4, <1>6 DEF r, newHash

\* clear_hash adds nothing to the index.
LEMMA ClearHashShrinksIndex ==
  ASSUME NEW p \in Pools, NEW b \in Block
  PROVE  \A h \in DOMAIN ClearHash(p, b).index :
           h \in DOMAIN p.index /\ ClearHash(p, b).index[h] = p.index[h]
  BY ClearHashEffect

\* After clear_hash the block is under no hash.
LEMMA ClearHashDropsBlock ==
  ASSUME NEW p \in Pools, NEW b \in Block, IndexNamesHolder(p)
  PROVE  \A h \in DOMAIN ClearHash(p, b).index : ClearHash(p, b).index[h] # b
  BY ClearHashEffect, ZenonT(40)

\* What activating a block does to each field of the pool.
LEMMA ActivateFields ==
  ASSUME NEW p \in Pools, NEW r \in [Block -> Nat],
         NEW f \in SUBSET Block, NEW u \in SUBSET Block
  PROVE  LET q == SetUsed(SetFree(SetRef(p, r), f), u)
         IN  /\ q \in Pools /\ q.retain = p.retain /\ q.ref = r /\ q.free = f /\ q.used = u
             /\ q.hash = p.hash /\ q.index = p.index
             /\ q.queue = p.queue /\ q.cached = p.cached
<1> DEFINE q1 == SetRef(p, r)
           q2 == SetFree(q1, f)
<1>1. /\ q1 \in Pools /\ q1.retain = p.retain /\ q1.ref = r /\ q1.hash = p.hash /\ q1.index = p.index
      /\ q1.queue = p.queue /\ q1.cached = p.cached
  BY SetRefEffect
<1> HIDE DEF q1
<1>2. /\ q2 \in Pools /\ q2.retain = p.retain /\ q2.ref = r /\ q2.free = f /\ q2.hash = p.hash
      /\ q2.index = p.index /\ q2.queue = p.queue /\ q2.cached = p.cached
  BY <1>1, SetFreeEffect
<1> HIDE DEF q2
<1>3. SetUsed(SetFree(SetRef(p, r), f), u) = SetUsed(q2, u)
  BY DEF q1, q2
<1> QED BY <1>2, <1>3, SetUsedEffect

\* What allocate does to each field of the pool.
LEMMA AllocateFields ==
  ASSUME NEW p \in Pools, NEW b \in Block
  PROVE  LET q == Allocate(p, b)
         IN  /\ q \in Pools /\ q.retain = p.retain
             /\ q.ref = [p.ref EXCEPT ![b] = 1]
             /\ q.free = p.free \ {b} /\ q.used = p.used \cup {b}
             /\ q.hash = [p.hash EXCEPT ![b] = NO_BLOCK_HASH]
             /\ q.index = ClearHash(p, b).index
             /\ q.queue = p.queue /\ q.cached = p.cached
<1> DEFINE c == ClearHash(p, b)
<1>1. /\ c \in Pools /\ c.retain = p.retain /\ c.ref = p.ref /\ c.free = p.free /\ c.used = p.used
      /\ c.queue = p.queue /\ c.cached = p.cached
      /\ c.hash = [p.hash EXCEPT ![b] = NO_BLOCK_HASH]
  BY ClearHashEffect
<1> DEFINE d == SetRef(c, [c.ref EXCEPT ![b] = 1])
           e == SetFree(d, d.free \ {b})
<1>2. Allocate(p, b) = SetUsed(e, e.used \cup {b})
  BY DEF Allocate, SetUsed, SetFree, SetRef
<1>3. c.ref = p.ref /\ [p.ref EXCEPT ![b] = 1] \in [Block -> Nat]
  BY <1>1 DEF Pools
<1> HIDE DEF c
<1>4. d \in Pools /\ d.retain = p.retain /\ d.free = p.free /\ d.used = p.used
  BY <1>1, <1>3, SetRefEffect
<1>5. p.free \ {b} \in SUBSET Block /\ p.used \cup {b} \in SUBSET Block
  BY DEF Pools
<1>6. e.used = p.used
  <2> HIDE DEF d
  <2> QED BY <1>4, <1>5, SetFreeEffect
<1>7. Allocate(p, b)
      = SetUsed(SetFree(SetRef(c, [p.ref EXCEPT ![b] = 1]), p.free \ {b}), p.used \cup {b})
  BY <1>2, <1>3, <1>4, <1>6
<1> QED BY <1>1, <1>3, <1>5, <1>7, ActivateFields DEF c

\* What deallocate does to each field of the pool.
LEMMA DeallocateFields ==
  ASSUME NEW p \in Pools, NEW b \in Block
  PROVE  LET q == Deallocate(p, b)
         IN  /\ q \in Pools /\ q.retain = p.retain
             /\ q.ref = p.ref
             /\ q.free = p.free \cup {b} /\ q.used = p.used \ {b}
             /\ q.hash = [p.hash EXCEPT ![b] = NO_BLOCK_HASH]
             /\ q.index = ClearHash(p, b).index
             /\ q.queue = Append(p.queue, b) /\ q.cached = p.cached
<1> DEFINE c == ClearHash(p, b)
<1>1. /\ c \in Pools /\ c.retain = p.retain /\ c.ref = p.ref /\ c.free = p.free /\ c.used = p.used
      /\ c.queue = p.queue /\ c.cached = p.cached
      /\ c.hash = [p.hash EXCEPT ![b] = NO_BLOCK_HASH]
  BY ClearHashEffect
<1> DEFINE d == SetUsed(c, c.used \ {b})
           e == SetFree(d, d.free \cup {b})
<1>2. Deallocate(p, b) = SetQueue(e, Append(e.queue, b))
  BY DEF Deallocate, SetUsed, SetFree, SetQueue
<1>3. /\ p.used \ {b} \in SUBSET Block /\ p.free \cup {b} \in SUBSET Block
      /\ Append(p.queue, b) \in Seq(Block)
  BY AppendProperties DEF Pools
<1> HIDE DEF c
<1>4. /\ d \in Pools /\ d.retain = p.retain /\ d.free = p.free /\ d.used = p.used \ {b} /\ d.ref = p.ref
      /\ d.hash = c.hash /\ d.index = c.index /\ d.queue = p.queue /\ d.cached = p.cached
  BY <1>1, <1>3, SetUsedEffect
<1> HIDE DEF d
<1>5. /\ e \in Pools /\ e.retain = p.retain /\ e.free = p.free \cup {b} /\ e.used = p.used \ {b} /\ e.ref = p.ref
      /\ e.hash = c.hash /\ e.index = c.index /\ e.queue = p.queue /\ e.cached = p.cached
  BY <1>3, <1>4, SetFreeEffect
<1> HIDE DEF e
<1> DEFINE g == Deallocate(p, b)
<1>6. g = SetQueue(e, Append(p.queue, b))
  BY <1>2, <1>5
<1> HIDE DEF g
<1>7. /\ g \in Pools /\ g.retain = p.retain /\ g.free = e.free /\ g.used = e.used /\ g.ref = e.ref
      /\ g.hash = e.hash /\ g.index = e.index /\ g.cached = e.cached
      /\ g.queue = Append(p.queue, b)
  BY <1>3, <1>5, <1>6, SetQueueEffect, ZenonT(40)
<1> QED BY <1>1, <1>5, <1>7 DEF c, g

-----------------------------------------------------------------------------
(* Sequences and minima.                                                   *)

\* A nonempty set of naturals has a least element, and Min names it.
LEMMA MinOfNaturals ==
  ASSUME NEW S \in SUBSET Nat, S # {}
  PROVE  Min(S) \in S /\ \A k \in S : Min(S) <= k
<1> DEFINE R == {ss \in Nat \X Nat : ss[1] < ss[2]}
<1>0. IsWellFoundedOn(R, Nat)
  BY NatLessThanWellFounded DEF OpToRel
<1>1. PICK x \in S : \A y \in S : ~(<<y, x>> \in R)
  <2> HIDE DEF R
  <2> QED BY <1>0, WFMin
<1>2. ASSUME NEW y \in S PROVE x <= y
  <2>1. <<y, x>> \in Nat \X Nat
    OBVIOUS
  <2>2. <<y, x>>[1] = y /\ <<y, x>>[2] = x
    OBVIOUS
  <2>3. ~(y < x)
    BY <1>1, <2>1, <2>2
  <2> QED BY <2>3
<1> QED BY <1>2 DEF Min

-----------------------------------------------------------------------------
(* Every method keeps PoolOK.                                              *)

\* The free queue has at most one entry that is no free block's own: the one that an
\* eviction leaves.
QueueFits(p) == Len(p.queue) <= Cardinality(p.free) + 1

\* The blocks that an operation takes from or gives to the free queue.
SameQueue(p, q) == q.queue = p.queue /\ q.free = p.free

\* A set of free blocks is finite.
LEMMA FreeFinite ==
  ASSUME NEW p, PoolOK(p)
  PROVE  /\ IsFiniteSet(p.free) /\ Cardinality(p.free) \in Nat
         /\ Len(p.queue) \in Nat /\ Cardinality(p.free) <= NumBlocks
<1>1. IsFiniteSet(Block) /\ Cardinality(Block) = NumBlocks
  <2>1. 0 \in Int /\ NumBlocks - 1 \in Int /\ ~(0 > NumBlocks - 1)
    BY PoolAssumption
  <2>2. IsFiniteSet(Block) /\ Cardinality(Block) = (NumBlocks - 1) - 0 + 1
    BY <2>1, FS_Interval DEF Block
  <2> QED BY <2>2, PoolAssumption
<1>2. p.free \subseteq Block /\ p.queue \in Seq(Block)
  BY DEF PoolOK, Pools
<1> QED BY <1>1, <1>2, FS_Subset, FS_CardinalityType, LenProperties

\* Giving a block back appends one entry and frees one block; taking one consumes both.
LEMMA QueueFitsAfter ==
  ASSUME NEW p, PoolOK(p), NEW q, PoolOK(q), QueueFits(p), NEW b,
         \/ SameQueue(p, q)
         \/ b \notin p.free /\ q.queue = Append(p.queue, b) /\ q.free = p.free \cup {b}
         \/ b \in p.free /\ Len(q.queue) <= Len(p.queue) - 1 /\ q.free = p.free \ {b}
         \/ Len(q.queue) = 1
  PROVE  QueueFits(q)
<1>1. /\ IsFiniteSet(p.free) /\ Cardinality(p.free) \in Nat /\ Len(p.queue) \in Nat
      /\ IsFiniteSet(q.free) /\ Cardinality(q.free) \in Nat /\ Len(q.queue) \in Nat
  BY FreeFinite
<1>2. Len(p.queue) <= Cardinality(p.free) + 1
  BY DEF QueueFits
<1>3. CASE SameQueue(p, q)
  BY <1>2, <1>3 DEF SameQueue, QueueFits
<1>4. CASE b \notin p.free /\ q.queue = Append(p.queue, b) /\ q.free = p.free \cup {b}
  <2>1. Len(q.queue) = Len(p.queue) + 1
    <3>1. b \in Block /\ p.queue \in Seq(Block)
      BY <1>4 DEF PoolOK, Pools
    <3> QED BY <1>4, <3>1, AppendProperties
  <2>2. Cardinality(q.free) = Cardinality(p.free) + 1
    BY <1>1, <1>4, FS_AddElement
  <2> QED BY <1>1, <1>2, <2>1, <2>2 DEF QueueFits
<1>5. CASE b \in p.free /\ Len(q.queue) <= Len(p.queue) - 1 /\ q.free = p.free \ {b}
  <2>1. Cardinality(q.free) = Cardinality(p.free) - 1
    BY <1>1, <1>5, FS_RemoveElement
  <2> QED BY <1>1, <1>2, <1>5, <2>1 DEF QueueFits
<1>6. CASE Len(q.queue) = 1
  BY <1>1, <1>6 DEF QueueFits
<1> QED BY <1>3, <1>4, <1>5, <1>6

\* clear_hash on a referenced block keeps the pool consistent.
LEMMA ClearHashKeepsPoolOK ==
  ASSUME NEW p, PoolOK(p), NEW b \in Block, p.ref[b] > 0
  PROVE  /\ PoolOK(ClearHash(p, b)) /\ ClearHash(p, b).ref = p.ref
         /\ SameQueue(p, ClearHash(p, b)) /\ ClearHash(p, b).cached = p.cached
<1> DEFINE q == ClearHash(p, b)
<1>1. /\ q \in Pools /\ q.retain = p.retain /\ q.ref = p.ref /\ q.queue = p.queue /\ q.free = p.free
      /\ q.used = p.used /\ q.cached = p.cached
      /\ q.hash = [p.hash EXCEPT ![b] = NO_BLOCK_HASH]
      /\ \A h \in DOMAIN q.index : h \in DOMAIN p.index /\ q.index[h] = p.index[h]
      /\ \A h \in DOMAIN q.index : q.index[h] # b
  BY ClearHashEffect DEF PoolOK
<1> HIDE DEF q
<1>2. p \in Pools /\ p.hash \in [Block -> Hashes \cup {NO_BLOCK_HASH}] /\ p.used \subseteq Block
  BY DEF PoolOK, Pools
<1>3. BlocksPartitioned(q) /\ QueueCoversFree(q)
  BY <1>1 DEF PoolOK, BlocksPartitioned, QueueCoversFree
<1>4. IndexNamesHolder(q)
  BY <1>1, <1>2 DEF PoolOK, IndexNamesHolder
<1>5. b \notin Range(p.cached)
  BY DEF PoolOK, BlocksPartitioned
<1>6. ParkedBlocksPublished(q)
  BY <1>1, <1>2, <1>5 DEF PoolOK, ParkedBlocksPublished
<1> QED BY <1>1, <1>3, <1>4, <1>6 DEF PoolOK, SameQueue, q

\* The branch of allocate_free that takes the head of the free queue.
LEMMA AllocateFreeFromQueue ==
  ASSUME NEW p, PoolOK(p), Live(p) # {}
  PROVE  LET r == AllocateFree(p)
         IN  /\ PoolOK(r.pool) /\ r.block \in p.free
             /\ r.pool.ref = [p.ref EXCEPT ![r.block] = 1]
             /\ Len(r.pool.queue) <= Len(p.queue) - 1 /\ r.pool.free = p.free \ {r.block}
             /\ r.pool.cached = p.cached
<1> DEFINE i == Min(Live(p))
           n == Len(p.queue)
           rest == SubSeq(p.queue, i + 1, n)
           b == p.queue[i]
           p0 == SetQueue(p, rest)
           q == Allocate(p0, b)
<1>1. p \in Pools /\ p.queue \in Seq(Block) /\ p.free \subseteq Block /\ p.used \subseteq Block
  BY DEF PoolOK, Pools
<1>2. n \in Nat /\ DOMAIN p.queue = 1 .. n /\ \A k \in 1 .. n : p.queue[k] \in Block
  BY <1>1, LenProperties, ElementOfSeq
<1>3. Live(p) \in SUBSET Nat
  BY <1>2 DEF Live
<1>4. i \in Live(p) /\ \A k \in Live(p) : i <= k
  BY <1>3, MinOfNaturals
<1>5. i \in 1 .. n /\ b \in p.free /\ b \in Block
  BY <1>1, <1>2, <1>4 DEF Live
<1> HIDE DEF i, n
<1>6. /\ rest \in Seq(Block)
      /\ Len(rest) = n - i
      /\ \A k \in 1 .. n - i : rest[k] = p.queue[i + k]
  <2>1. \A k \in i + 1 .. n : p.queue[k] \in Block
    BY <1>2, <1>5
  <2>2. /\ rest \in Seq(Block)
        /\ Len(rest) = IF i + 1 <= n THEN n - (i + 1) + 1 ELSE 0
        /\ \A k \in 1 .. n - (i + 1) + 1 : rest[k] = p.queue[i + 1 + k - 1]
    BY <1>2, <1>5, <2>1, SubSeqProperties
  <2> HIDE DEF rest
  <2>3. n - (i + 1) + 1 = n - i /\ (i + 1 > n => n - i = 0)
    BY <1>2, <1>5
  <2>4. Len(rest) = n - i
    BY <1>2, <1>5, <2>2, <2>3
  <2>5. ASSUME NEW k \in 1 .. n - i PROVE rest[k] = p.queue[i + k]
    <3>1. i + 1 + k - 1 = i + k
      BY <1>2, <1>5
    <3>2. rest[k] = p.queue[i + 1 + k - 1]
      BY <2>2, <2>3
    <3> QED BY <3>1, <3>2
  <2> QED BY <2>2, <2>4, <2>5
<1> HIDE DEF rest, b
<1>7. /\ p0 \in Pools /\ p0.retain = p.retain /\ p0.queue = rest /\ p0.ref = p.ref /\ p0.hash = p.hash
      /\ p0.index = p.index /\ p0.free = p.free /\ p0.used = p.used /\ p0.cached = p.cached
  BY <1>1, <1>6, SetQueueEffect
<1>8. AllocateFree(p) = [block |-> b, pool |-> q]
  BY DEF AllocateFree, p0, SetQueue, b, rest, i, n
<1> HIDE DEF p0
<1>9. /\ q \in Pools /\ q.retain = p.retain /\ q.ref = [p.ref EXCEPT ![b] = 1]
      /\ q.free = p.free \ {b} /\ q.used = p.used \cup {b}
      /\ q.hash = [p.hash EXCEPT ![b] = NO_BLOCK_HASH]
      /\ q.queue = rest /\ q.cached = p.cached
      /\ q.index = ClearHash(p0, b).index
  BY <1>5, <1>7, AllocateFields
<1>10. IndexNamesHolder(p0)
  BY <1>7 DEF PoolOK, IndexNamesHolder
<1>11. /\ \A h \in DOMAIN q.index : h \in DOMAIN p.index /\ q.index[h] = p.index[h]
       /\ \A h \in DOMAIN q.index : q.index[h] # b
  <2> DEFINE c == ClearHash(p0, b)
  <2>1. /\ \A h \in DOMAIN c.index : h \in DOMAIN p0.index /\ c.index[h] = p0.index[h]
        /\ \A h \in DOMAIN c.index : c.index[h] # b
    BY <1>5, <1>7, <1>10, ClearHashEffect, ZenonT(40)
  <2>2. q.index = c.index
    BY <1>9
  <2> HIDE DEF q, c
  <2> QED BY <1>7, <2>1, <2>2
<1> HIDE DEF q
<1>12. p.hash \in [Block -> Hashes \cup {NO_BLOCK_HASH}] /\ p.ref \in [Block -> Nat]
  BY <1>1 DEF Pools
<1>13. b \notin Range(p.cached) /\ b \notin p.used
  BY <1>5 DEF PoolOK, BlocksPartitioned
<1>14. BlocksPartitioned(q)
  BY <1>5, <1>9, <1>12, <1>13 DEF PoolOK, BlocksPartitioned
<1>15. IndexNamesHolder(q)
  <2> SUFFICES ASSUME NEW h \in DOMAIN q.index
               PROVE  q.index[h] \in q.used /\ q.hash[q.index[h]] = h
    BY DEF IndexNamesHolder
  <2>1. h \in DOMAIN p.index /\ q.index[h] = p.index[h] /\ q.index[h] # b
    BY <1>11
  <2>2. p.index[h] \in p.used /\ p.hash[p.index[h]] = h /\ p.used \subseteq Block
    BY <1>1, <2>1 DEF PoolOK, Pools, IndexNamesHolder
  <2> QED BY <1>9, <1>12, <2>1, <2>2
<1>16. QueueCoversFree(q)
  <2> SUFFICES ASSUME NEW x \in p.free, x # b PROVE x \in Range(rest)
    BY <1>9 DEF QueueCoversFree
  <2>1. PICK k \in 1 .. n : p.queue[k] = x
    BY <1>2 DEF PoolOK, QueueCoversFree, Range
  <2>2. k \in Live(p)
    BY <1>2, <2>1 DEF Live
  <2>3. k > i
    BY <1>4, <1>5, <2>1, <2>2 DEF b
  <2>4. k - i \in 1 .. n - i /\ i + (k - i) = k
    BY <1>2, <1>5, <2>1, <2>3
  <2>5. rest[k - i] = x
    BY <1>6, <2>1, <2>4
  <2>6. DOMAIN rest = 1 .. n - i
    BY <1>6, LenProperties
  <2> QED BY <2>4, <2>5, <2>6 DEF Range
<1>17. ParkedBlocksPublished(q)
  BY <1>9, <1>12, <1>13 DEF PoolOK, ParkedBlocksPublished
<1>18. PoolOK(q)
  BY <1>9, <1>14, <1>15, <1>16, <1>17 DEF PoolOK
<1>19. Len(q.queue) <= n - 1
  BY <1>2, <1>5, <1>6, <1>9
<1> QED BY <1>5, <1>8, <1>9, <1>18, <1>19 DEF n

\* The cached branch runs only when nothing is free, and evicts the head.
LEMMA AllocateFreeFromCache ==
  ASSUME NEW p, PoolOK(p), Live(p) = {}, p.cached # <<>>
  PROVE  LET r == AllocateFree(p)
         IN  /\ PoolOK(r.pool) /\ r.block \in Block /\ p.ref[r.block] = 0
             /\ r.pool.ref = [p.ref EXCEPT ![r.block] = 1]
             /\ Len(r.pool.queue) = 1 /\ r.pool.cached = Tail(p.cached)
<1> DEFINE b == Head(p.cached)
           rest == Tail(p.cached)
           p1 == SetQueue(p, <<>>)
           p2 == SetCached(p1, rest)
           d == Deallocate(p2, b)
           q == Allocate(d, b)
<1>1. /\ p \in Pools /\ p.queue \in Seq(Block) /\ p.free \subseteq Block
      /\ p.used \subseteq Block /\ p.cached \in Seq(Block)
      /\ p.hash \in [Block -> Hashes \cup {NO_BLOCK_HASH}] /\ p.ref \in [Block -> Nat]
  BY DEF PoolOK, Pools
<1>2. p.free = {}
  BY <1>1 DEF PoolOK, QueueCoversFree, Range, Live
<1>3. /\ Len(p.cached) \in Nat /\ Len(p.cached) >= 1
      /\ DOMAIN p.cached = 1 .. Len(p.cached) /\ b = p.cached[1]
  BY <1>1, LenProperties, EmptySeq, HeadTailProperties
<1>4. /\ rest \in Seq(Block) /\ Len(rest) = Len(p.cached) - 1
      /\ \A k \in 1 .. Len(rest) : rest[k] = p.cached[k + 1]
      /\ DOMAIN rest = 1 .. Len(rest)
  BY <1>1, HeadTailProperties, LenProperties
<1>5. b \in Block /\ b \in Range(p.cached)
  BY <1>1, <1>3, ElementOfSeq DEF Range
<1>6. b \in p.used /\ p.ref[b] = 0
  BY <1>5 DEF PoolOK, BlocksPartitioned
<1> HIDE DEF b, rest
<1>7. Range(rest) = Range(p.cached) \ {b} /\ IsInjective(rest)
  <2>1. IsInjective(p.cached)
    BY DEF PoolOK, ParkedBlocksPublished
  <2>2. ASSUME NEW x \in Range(rest) PROVE x \in Range(p.cached) \ {b}
    <3>1. PICK k \in 1 .. Len(rest) : rest[k] = x
      BY <1>4 DEF Range
    <3>2. k + 1 \in DOMAIN p.cached /\ k + 1 # 1 /\ p.cached[k + 1] = x
      BY <1>3, <1>4, <3>1
    <3> QED BY <1>3, <2>1, <3>2 DEF Range, IsInjective
  <2>3. ASSUME NEW x \in Range(p.cached), x # b PROVE x \in Range(rest)
    <3>1. PICK k \in DOMAIN p.cached : p.cached[k] = x
      BY DEF Range
    <3>2. k - 1 \in 1 .. Len(rest) /\ (k - 1) + 1 = k
      BY <1>3, <1>4, <2>3, <3>1
    <3>3. rest[k - 1] = x
      BY <1>4, <3>1, <3>2
    <3> QED BY <1>4, <3>2, <3>3 DEF Range
  <2>4. ASSUME NEW j \in DOMAIN rest, NEW k \in DOMAIN rest, rest[j] = rest[k]
        PROVE  j = k
    <3>0. j \in 1 .. Len(rest) /\ k \in 1 .. Len(rest)
      BY <1>4
    <3>a. rest[j] = p.cached[j + 1] /\ rest[k] = p.cached[k + 1]
      BY <1>4, <3>0
    <3>b. j + 1 \in 1 .. Len(p.cached) /\ k + 1 \in 1 .. Len(p.cached)
      BY <1>3, <1>4, <3>0
    <3>c. p.cached[j + 1] = p.cached[k + 1]
      BY <2>4, <3>a
    <3>2. j + 1 = k + 1
      BY <1>3, <2>1, <3>b, <3>c DEF IsInjective
    <3> QED BY <1>4, <3>0, <3>2
  <2> QED BY <2>2, <2>3, <2>4 DEF IsInjective
<1>8. /\ p1 \in Pools /\ p1.retain = p.retain /\ p1.queue = <<>> /\ p1.ref = p.ref /\ p1.hash = p.hash
      /\ p1.index = p.index /\ p1.free = p.free /\ p1.used = p.used /\ p1.cached = p.cached
  <2>1. <<>> \in Seq(Block)
    OBVIOUS
  <2> QED BY <1>1, <2>1, SetQueueEffect
<1>9. AllocateFree(p) = [block |-> b, pool |-> q]
  <2>1. AllocateFree(p) = [block |-> b, pool |-> Allocate(EvictOldestCached(p1), b)]
    BY DEF AllocateFree, SetQueue, b
  <2>2. EvictOldestCached(p1) = Deallocate([p1 EXCEPT !.cached = Tail(p1.cached)], Head(p1.cached))
    BY DEF EvictOldestCached
  <2> HIDE DEF p1
  <2>3. EvictOldestCached(p1) = d
    BY <1>8, <2>2 DEF SetCached, b, rest
  <2> QED BY <2>1, <2>3
<1> HIDE DEF p1
<1>10. /\ p2 \in Pools /\ p2.retain = p.retain /\ p2.queue = <<>> /\ p2.ref = p.ref /\ p2.hash = p.hash
       /\ p2.index = p.index /\ p2.free = p.free /\ p2.used = p.used /\ p2.cached = rest
  BY <1>4, <1>8, SetCachedEffect
<1> HIDE DEF p2
<1> DEFINE c2 == ClearHash(p2, b)
<1>11. /\ d \in Pools /\ d.retain = p.retain /\ d.ref = p.ref /\ d.free = {b} /\ d.used = p.used \ {b}
       /\ d.hash = [p.hash EXCEPT ![b] = NO_BLOCK_HASH]
       /\ d.queue = Append(<<>>, b) /\ d.cached = rest
       /\ d.index = c2.index
  BY <1>2, <1>5, <1>10, DeallocateFields
<1>12. /\ \A h \in DOMAIN c2.index : h \in DOMAIN p.index /\ c2.index[h] = p.index[h]
       /\ \A h \in DOMAIN c2.index : c2.index[h] # b
  <2>1. IndexNamesHolder(p2)
    BY <1>10 DEF PoolOK, IndexNamesHolder
  <2>2. \A h \in DOMAIN c2.index : h \in DOMAIN p2.index /\ c2.index[h] = p2.index[h]
    BY <1>5, <1>10, ClearHashShrinksIndex
  <2>3. \A h \in DOMAIN c2.index : c2.index[h] # b
    BY <1>5, <1>10, <2>1, ClearHashDropsBlock
  <2> HIDE DEF c2
  <2> QED BY <1>10, <2>2, <2>3
<1> HIDE DEF d, c2
<1> DEFINE c3 == ClearHash(d, b)
<1>13. /\ q \in Pools /\ q.retain = p.retain /\ q.ref = [p.ref EXCEPT ![b] = 1]
       /\ q.free = {} /\ q.used = p.used
       /\ q.hash = [p.hash EXCEPT ![b] = NO_BLOCK_HASH]
       /\ q.cached = rest /\ q.index = c3.index /\ q.queue = Append(<<>>, b)
  <2>1. /\ q \in Pools /\ q.retain = p.retain /\ q.ref = [d.ref EXCEPT ![b] = 1]
        /\ q.free = d.free \ {b} /\ q.used = d.used \cup {b}
        /\ q.hash = [d.hash EXCEPT ![b] = NO_BLOCK_HASH]
        /\ q.cached = d.cached /\ q.index = c3.index /\ q.queue = d.queue
    BY <1>5, <1>11, AllocateFields, ZenonT(40)
  <2> HIDE DEF q, c3
  <2>2. [[p.hash EXCEPT ![b] = NO_BLOCK_HASH] EXCEPT ![b] = NO_BLOCK_HASH]
        = [p.hash EXCEPT ![b] = NO_BLOCK_HASH]
    BY <1>1, <1>5
  <2> QED BY <1>6, <1>11, <2>1, <2>2
<1>14. \A h \in DOMAIN c3.index : h \in DOMAIN d.index /\ c3.index[h] = d.index[h]
  BY <1>5, <1>11, ClearHashShrinksIndex
<1> HIDE DEF q, c3
<1>15. /\ \A h \in DOMAIN q.index : h \in DOMAIN p.index /\ q.index[h] = p.index[h]
       /\ \A h \in DOMAIN q.index : q.index[h] # b
  BY <1>11, <1>12, <1>13, <1>14
<1>16. BlocksPartitioned(q)
  <2>1. p.used = Block
    BY <1>2 DEF PoolOK, BlocksPartitioned
  <2>2. ASSUME NEW x \in Block PROVE x \in Range(rest) <=> x \in p.used /\ q.ref[x] = 0
    BY <1>1, <1>5, <1>7, <1>13 DEF PoolOK, BlocksPartitioned
  <2> QED BY <1>13, <2>1, <2>2 DEF BlocksPartitioned
<1>17. IndexNamesHolder(q)
  <2> SUFFICES ASSUME NEW h \in DOMAIN q.index
               PROVE  q.index[h] \in q.used /\ q.hash[q.index[h]] = h
    BY DEF IndexNamesHolder
  <2>1. h \in DOMAIN p.index /\ q.index[h] = p.index[h] /\ q.index[h] # b
    BY <1>15
  <2>2. p.index[h] \in p.used /\ p.hash[p.index[h]] = h
    BY <2>1 DEF PoolOK, IndexNamesHolder
  <2> QED BY <1>1, <1>13, <2>1, <2>2
<1>18. QueueCoversFree(q)
  BY <1>13 DEF QueueCoversFree
<1>19. ParkedBlocksPublished(q)
  <2>1. p.retain
    BY DEF PoolOK, ParkedBlocksPublished
  <2>2. ASSUME NEW x \in Range(rest) PROVE q.hash[x] # NO_BLOCK_HASH
    <3>0. x \in Block
      <4>1. PICK k \in 1 .. Len(rest) : rest[k] = x
        BY <1>4 DEF Range
      <4> QED BY <1>4, <4>1, ElementOfSeq
    <3>1. x \in Range(p.cached) /\ x # b
      BY <1>7
    <3> QED BY <1>1, <1>13, <3>0, <3>1 DEF PoolOK, ParkedBlocksPublished
  <2> QED BY <1>7, <1>13, <2>1, <2>2 DEF ParkedBlocksPublished
<1>20. PoolOK(q)
  BY <1>13, <1>16, <1>17, <1>18, <1>19 DEF PoolOK
<1>21. Len(q.queue) = 1
  BY <1>5, <1>13
<1>22. q.cached = Tail(p.cached) /\ q.ref = [p.ref EXCEPT ![b] = 1]
  BY <1>13 DEF rest
<1> QED BY <1>5, <1>6, <1>9, <1>20, <1>21, <1>22

\* allocate_free hands out a block nobody references and counts one reference.
LEMMA AllocateFreeKeepsPoolOK ==
  ASSUME NEW p, PoolOK(p), CanAllocateFree(p)
  PROVE  LET r == AllocateFree(p)
         IN  /\ PoolOK(r.pool) /\ r.block \in Block /\ p.ref[r.block] = 0
             /\ r.pool.ref = [p.ref EXCEPT ![r.block] = 1]
             /\ QueueFits(p) => QueueFits(r.pool)
             /\ \/ r.pool.cached = p.cached
                \/ p.cached # <<>> /\ r.pool.cached = Tail(p.cached)
<1>1. CASE Live(p) # {}
  <2>1. \A x \in p.free : x \in Block /\ p.ref[x] = 0
    BY DEF PoolOK, Pools, BlocksPartitioned
  <2> DEFINE r == AllocateFree(p)
  <2>2. /\ PoolOK(r.pool) /\ r.block \in p.free /\ r.pool.ref = [p.ref EXCEPT ![r.block] = 1]
        /\ Len(r.pool.queue) <= Len(p.queue) - 1 /\ r.pool.free = p.free \ {r.block}
        /\ r.pool.cached = p.cached
    BY <1>1, AllocateFreeFromQueue
  <2> HIDE DEF r
  <2>3. QueueFits(p) => QueueFits(r.pool)
    BY <2>2, QueueFitsAfter
  <2>4. r.block \in Block /\ p.ref[r.block] = 0
    BY <2>1, <2>2
  <2> QED BY <2>2, <2>3, <2>4 DEF r
<1>2. CASE Live(p) = {}
  <2>1. p.cached # <<>>
    BY <1>2 DEF CanAllocateFree
  <2> DEFINE r == AllocateFree(p)
  <2>2. /\ PoolOK(r.pool) /\ r.block \in Block /\ p.ref[r.block] = 0
        /\ r.pool.ref = [p.ref EXCEPT ![r.block] = 1]
        /\ Len(r.pool.queue) = 1 /\ r.pool.cached = Tail(p.cached)
    BY <1>2, <2>1, AllocateFreeFromCache
  <2> HIDE DEF r
  <2>3. QueueFits(p) => QueueFits(r.pool)
    BY <2>2, QueueFitsAfter
  <2> QED BY <2>1, <2>2, <2>3 DEF r
<1> QED BY <1>1, <1>2

\* retain revives a parked block or counts one more reference.
LEMMA RetainKeepsPoolOK ==
  ASSUME NEW p, PoolOK(p), NEW b \in Block, CanRetain(p, b)
  PROVE  /\ PoolOK(RetainBlock(p, b))
         /\ RetainBlock(p, b).ref = [p.ref EXCEPT ![b] = @ + 1]
         /\ SameQueue(p, RetainBlock(p, b)) /\ RetainBlock(p, b).hash = p.hash
         /\ \/ RetainBlock(p, b).cached = p.cached
            \/ /\ RetainBlock(p, b).cached = Without(p.cached, b)
               /\ b \in Range(p.cached)
<1>1. /\ p \in Pools /\ p.cached \in Seq(Block) /\ p.ref \in [Block -> Nat]
      /\ p.hash \in [Block -> Hashes \cup {NO_BLOCK_HASH}]
  BY DEF PoolOK, Pools
<1> DEFINE newRef == [p.ref EXCEPT ![b] = @ + 1]
<1>2. newRef \in [Block -> Nat] /\ \A x \in Block : newRef[x] = IF x = b THEN p.ref[x] + 1 ELSE p.ref[x]
  BY <1>1
<1> DEFINE q == SetRef(p, newRef)
<1>3. /\ q \in Pools /\ q.retain = p.retain /\ q.ref = newRef /\ q.hash = p.hash /\ q.content = p.content
      /\ q.index = p.index /\ q.queue = p.queue /\ q.free = p.free /\ q.used = p.used
      /\ q.cached = p.cached
  BY <1>1, <1>2, SetRefEffect, ZenonT(40)
<1>4. b \in p.used /\ b \notin p.free
  BY DEF CanRetain, PoolOK, BlocksPartitioned
<1>5. CASE p.ref[b] # 0
  <2>1. RetainBlock(p, b) = q
    BY <1>5 DEF RetainBlock, SetRef
  <2> HIDE DEF q, newRef
  <2>2. BlocksPartitioned(q)
    <3>1. ASSUME NEW x \in Block PROVE newRef[x] = 0 <=> p.ref[x] = 0
      BY <1>1, <1>2, <1>5
    <3>2. p.free \subseteq Block
      BY DEF PoolOK, Pools
    <3> QED BY <1>3, <3>1, <3>2 DEF PoolOK, BlocksPartitioned
  <2>3. IndexNamesHolder(q) /\ QueueCoversFree(q) /\ ParkedBlocksPublished(q)
    BY <1>3 DEF PoolOK, IndexNamesHolder, QueueCoversFree, ParkedBlocksPublished
  <2> QED BY <1>3, <2>1, <2>2, <2>3 DEF PoolOK, SameQueue, newRef
<1>6. CASE p.ref[b] = 0
  <2>1. b \in Range(p.cached) /\ IsInjective(p.cached) /\ p.retain
    BY <1>6 DEF CanRetain, PoolOK, ParkedBlocksPublished
  <2> DEFINE rest == Without(p.cached, b)
             r == SetCached(q, rest)
  <2>2. rest \in Seq(Block) /\ Range(rest) = Range(p.cached) \ {b} /\ IsInjective(rest)
    BY <1>1, <2>1, WithoutProperties
  <2>3. RetainBlock(p, b) = r
    <3>1. RetainBlock(p, b) = SetCached(SetRef(p, [p.ref EXCEPT ![b] = 1]),
                                 Without(SetRef(p, [p.ref EXCEPT ![b] = 1]).cached, b))
      BY <1>6 DEF RetainBlock, SetRef, SetCached
    <3>2. [p.ref EXCEPT ![b] = 1] = newRef
      BY <1>1, <1>6
    <3> HIDE DEF newRef
    <3> QED BY <1>3, <3>1, <3>2
  <2> HIDE DEF q, newRef, rest
  <2>4. /\ r \in Pools /\ r.retain = p.retain /\ r.ref = newRef /\ r.hash = p.hash /\ r.index = p.index
        /\ r.queue = p.queue /\ r.free = p.free /\ r.used = p.used /\ r.cached = rest
    BY <1>3, <2>2, SetCachedEffect
  <2> HIDE DEF r
  <2>5. BlocksPartitioned(r)
    <3>1. ASSUME NEW x \in Block PROVE x \in Range(rest) <=> x \in p.used /\ newRef[x] = 0
      BY <1>1, <1>2, <1>6, <2>2 DEF PoolOK, BlocksPartitioned
    <3>2. ASSUME NEW x \in p.free PROVE newRef[x] = 0
      BY <1>2, <1>4 DEF PoolOK, Pools, BlocksPartitioned
    <3> QED BY <2>4, <3>1, <3>2 DEF PoolOK, BlocksPartitioned
  <2>6. IndexNamesHolder(r) /\ QueueCoversFree(r)
    BY <2>4 DEF PoolOK, IndexNamesHolder, QueueCoversFree
  <2>7. ParkedBlocksPublished(r)
    BY <2>1, <2>2, <2>4 DEF PoolOK, ParkedBlocksPublished
  <2> QED BY <2>1, <2>3, <2>4, <2>5, <2>6, <2>7 DEF PoolOK, SameQueue, newRef, rest
<1> QED BY <1>5, <1>6

\* register_hash on a referenced block.
LEMMA RegisterKeepsPoolOK ==
  ASSUME NEW p, PoolOK(p), NEW b \in Block, CanRelease(p, b),
         NEW h \in Hashes, NEW c \in Contents
  PROVE  /\ PoolOK(RegisterHash(p, b, h, c)) /\ RegisterHash(p, b, h, c).ref = p.ref
         /\ SameQueue(p, RegisterHash(p, b, h, c))
         /\ RegisterHash(p, b, h, c).cached = p.cached
<1> USE PoolAssumption
<1>1. /\ p \in Pools /\ p.ref \in [Block -> Nat] /\ p.used \subseteq Block
      /\ p.hash \in [Block -> Hashes \cup {NO_BLOCK_HASH}]
  BY DEF PoolOK, Pools
<1> DEFINE q == RemoveHashIndex(p, b)
<1>2. /\ q \in Pools /\ q.retain = p.retain
      /\ q.ref = p.ref /\ q.hash = p.hash /\ q.content = p.content
      /\ q.queue = p.queue /\ q.free = p.free /\ q.used = p.used /\ q.cached = p.cached
      /\ \A g \in DOMAIN q.index : g \in DOMAIN p.index /\ q.index[g] = p.index[g]
      /\ \A g \in DOMAIN q.index : q.index[g] # b
  BY <1>1, RemoveHashIndexEffect DEF PoolOK
<1> DEFINE newHash == [q.hash EXCEPT ![b] = h]
           newContent == [q.content EXCEPT ![b] = c]
           newIndex == Bind(q.index, h, b)
<1>3. RegisterHash(p, b, h, c)
      = SetIndex(SetContent(SetHash(q, newHash), [SetHash(q, newHash).content EXCEPT ![b] = c]),
          Bind(SetContent(SetHash(q, newHash), [SetHash(q, newHash).content EXCEPT ![b] = c]).index, h, b))
  BY DEF RegisterHash, SetIndex, SetContent, SetHash
<1> HIDE DEF q
<1>4. /\ newHash \in [Block -> Hashes \cup {NO_BLOCK_HASH}]
      /\ newContent \in [Block -> Contents \cup {NoContent}]
  BY <1>2 DEF Pools
<1>5. /\ DOMAIN newIndex = DOMAIN q.index \cup {h}
      /\ \A g \in DOMAIN newIndex : newIndex[g] = IF g = h THEN b ELSE q.index[g]
  BY DEF Bind
<1>6. newIndex \in UNION {[H -> Block] : H \in SUBSET Hashes}
  <2>1. DOMAIN q.index \subseteq Hashes /\ q.index \in [DOMAIN q.index -> Block]
    BY <1>2, IndexType
  <2>2. newIndex \in [DOMAIN q.index \cup {h} -> Block]
    BY <2>1 DEF Bind
  <2> QED BY <2>1, <2>2, IndexMember
<1> HIDE DEF newHash
<1>7. /\ SetHash(q, newHash) \in Pools /\ SetHash(q, newHash).retain = p.retain /\ SetHash(q, newHash).content = q.content
      /\ SetHash(q, newHash).ref = p.ref /\ SetHash(q, newHash).hash = newHash
      /\ SetHash(q, newHash).index = q.index /\ SetHash(q, newHash).queue = p.queue
      /\ SetHash(q, newHash).free = p.free /\ SetHash(q, newHash).used = p.used
      /\ SetHash(q, newHash).cached = p.cached
  BY <1>2, <1>4, SetHashEffect
<1> DEFINE s == SetHash(q, newHash)
           t == SetContent(s, newContent)
<1>8. RegisterHash(p, b, h, c) = SetIndex(t, Bind(t.index, h, b))
  BY <1>3, <1>7
<1> HIDE DEF s, newContent
<1>9. /\ t \in Pools /\ t.retain = p.retain /\ t.ref = p.ref /\ t.hash = newHash /\ t.index = q.index
      /\ t.queue = p.queue /\ t.free = p.free /\ t.used = p.used /\ t.cached = p.cached
  BY <1>4, <1>7, SetContentEffect DEF s
<1> HIDE DEF t, newIndex
<1> DEFINE r == RegisterHash(p, b, h, c)
<1>10. r = SetIndex(t, newIndex)
  BY <1>8, <1>9 DEF newIndex
<1> HIDE DEF r
<1>11. /\ r \in Pools /\ r.retain = p.retain /\ r.ref = p.ref /\ r.hash = newHash /\ r.index = newIndex
       /\ r.queue = p.queue /\ r.free = p.free /\ r.used = p.used /\ r.cached = p.cached
  BY <1>6, <1>9, <1>10, SetIndexEffect
<1>12. \A x \in Block : newHash[x] = IF x = b THEN h ELSE p.hash[x]
  BY <1>1, <1>2 DEF newHash
<1>13. BlocksPartitioned(r) /\ QueueCoversFree(r)
  BY <1>11 DEF PoolOK, BlocksPartitioned, QueueCoversFree
<1>14. IndexNamesHolder(r)
  <2> SUFFICES ASSUME NEW g \in DOMAIN newIndex
               PROVE  newIndex[g] \in p.used /\ newHash[newIndex[g]] = g
    BY <1>11 DEF IndexNamesHolder
  <2>1. CASE g = h
    BY <1>5, <1>12, <2>1 DEF CanRelease
  <2>2. CASE g # h
    <3>1. g \in DOMAIN p.index /\ newIndex[g] = p.index[g] /\ p.index[g] # b
      BY <1>2, <1>5, <2>2
    <3>2. p.index[g] \in p.used /\ p.hash[p.index[g]] = g
      BY <3>1 DEF PoolOK, IndexNamesHolder
    <3> QED BY <1>1, <1>12, <3>1, <3>2
  <2> QED BY <2>1, <2>2
<1>15. ParkedBlocksPublished(r)
  <2>1. ASSUME NEW x \in Range(p.cached) PROVE newHash[x] # NO_BLOCK_HASH
    <3>1. x \in Block
      BY ElementOfSeq, LenProperties DEF PoolOK, Pools, Range
    <3> QED BY <1>12, <3>1 DEF PoolOK, ParkedBlocksPublished
  <2> QED BY <1>11, <2>1 DEF PoolOK, ParkedBlocksPublished
<1> QED BY <1>11, <1>13, <1>14, <1>15 DEF PoolOK, SameQueue, r

\* release_reference: other owners remain, the block is parked, or it is freed.
LEMMA ReleaseKeepsPoolOK ==
  ASSUME NEW p, PoolOK(p), NEW b \in Block, CanRelease(p, b)
  PROVE  /\ PoolOK(ReleaseReference(p, b))
         /\ ReleaseReference(p, b).ref = [p.ref EXCEPT ![b] = @ - 1]
         /\ QueueFits(p) => QueueFits(ReleaseReference(p, b))
         /\ Range(p.cached) \subseteq Range(ReleaseReference(p, b).cached)
         /\ p.ref[b] >= 2 => /\ ReleaseReference(p, b).hash = p.hash
                            /\ ReleaseReference(p, b).used = p.used
<1> USE PoolAssumption
<1>1. /\ p \in Pools /\ p.cached \in Seq(Block) /\ p.ref \in [Block -> Nat]
      /\ p.hash \in [Block -> Hashes \cup {NO_BLOCK_HASH}]
      /\ p.free \subseteq Block /\ p.used \subseteq Block /\ p.queue \in Seq(Block)
  BY DEF PoolOK, Pools
<1>2. /\ b \in p.used /\ p.ref[b] > 0 /\ b \notin p.free /\ b \notin Range(p.cached)
  BY <1>1 DEF CanRelease, PoolOK, BlocksPartitioned
<1> DEFINE newRef == [p.ref EXCEPT ![b] = @ - 1]
           q == SetRef(p, newRef)
<1>3. newRef \in [Block -> Nat] /\ \A x \in Block : newRef[x] = IF x = b THEN p.ref[x] - 1 ELSE p.ref[x]
  BY <1>1, <1>2
<1>4. /\ q \in Pools /\ q.retain = p.retain /\ q.ref = newRef /\ q.hash = p.hash
      /\ q.index = p.index /\ q.queue = p.queue /\ q.free = p.free /\ q.used = p.used
      /\ q.cached = p.cached
  BY <1>1, <1>3, SetRefEffect
<1>5. ReleaseReference(p, b)
      = IF q.ref[b] # 0 THEN q
        ELSE IF p.retain /\ q.hash[b] # NO_BLOCK_HASH
             THEN SetCached(q, Append(q.cached, b))
             ELSE Deallocate(q, b)
  BY DEF ReleaseReference, SetRef, SetCached
<1> HIDE DEF newRef, q
<1>6. IndexNamesHolder(q)
  BY <1>4 DEF PoolOK, IndexNamesHolder
<1>7. CASE newRef[b] # 0
  <2>1. ReleaseReference(p, b) = q
    BY <1>4, <1>5, <1>7
  <2>2. BlocksPartitioned(q)
    <3>1. ASSUME NEW x \in Block PROVE newRef[x] = 0 <=> p.ref[x] = 0
      BY <1>1, <1>2, <1>3, <1>7
    <3> QED BY <1>1, <1>4, <3>1 DEF PoolOK, BlocksPartitioned
  <2>3. QueueCoversFree(q) /\ ParkedBlocksPublished(q)
    BY <1>4 DEF PoolOK, QueueCoversFree, ParkedBlocksPublished
  <2>4. PoolOK(q) /\ SameQueue(p, q)
    BY <1>4, <1>6, <2>2, <2>3 DEF PoolOK, SameQueue
  <2> QED BY <1>4, <2>1, <2>4, QueueFitsAfter DEF newRef
<1>8. CASE newRef[b] = 0 /\ p.retain /\ p.hash[b] # NO_BLOCK_HASH
  <2> DEFINE parked == Append(p.cached, b)
             r == SetCached(q, parked)
  <2>1. ReleaseReference(p, b) = r
    BY <1>4, <1>5, <1>8
  <2>2. parked \in Seq(Block) /\ Range(parked) = Range(p.cached) \cup {b} /\ IsInjective(parked)
    <3>1. IsInjective(p.cached) /\ DOMAIN p.cached = 1 .. Len(p.cached) /\ Len(p.cached) \in Nat
      BY <1>1, LenProperties DEF PoolOK, ParkedBlocksPublished
    <3>2. /\ parked \in Seq(Block) /\ Len(parked) = Len(p.cached) + 1
          /\ \A k \in 1 .. Len(p.cached) : parked[k] = p.cached[k]
          /\ parked[Len(p.cached) + 1] = b
          /\ DOMAIN parked = 1 .. Len(p.cached) + 1
      BY <1>1, AppendProperties, LenProperties
    <3> HIDE DEF parked
    <3>3. \A k \in 1 .. Len(p.cached) : p.cached[k] # b
      BY <1>2, <3>1 DEF Range
    <3>4. Range(parked) = Range(p.cached) \cup {b}
      BY <3>1, <3>2 DEF Range
    <3>5. IsInjective(parked)
      <4> SUFFICES ASSUME NEW j \in 1 .. Len(p.cached) + 1, NEW k \in 1 .. Len(p.cached) + 1,
                          parked[j] = parked[k]
                   PROVE  j = k
        BY <3>2 DEF IsInjective
      <4>1. CASE j \in 1 .. Len(p.cached) /\ k \in 1 .. Len(p.cached)
        BY <3>1, <3>2, <4>1 DEF IsInjective
      <4>2. CASE j = Len(p.cached) + 1 \/ k = Len(p.cached) + 1
        BY <3>1, <3>2, <3>3, <4>2
      <4> QED BY <3>1, <4>1, <4>2
    <3> QED BY <3>2, <3>4, <3>5
  <2> HIDE DEF parked
  <2>3. /\ r \in Pools /\ r.retain = p.retain /\ r.ref = newRef /\ r.hash = p.hash /\ r.index = p.index
        /\ r.queue = p.queue /\ r.free = p.free /\ r.used = p.used /\ r.cached = parked
    BY <1>4, <2>2, SetCachedEffect
  <2> HIDE DEF r
  <2>4. BlocksPartitioned(r)
    <3>1. ASSUME NEW x \in Block PROVE x \in Range(parked) <=> x \in p.used /\ newRef[x] = 0
      BY <1>1, <1>2, <1>3, <1>8, <2>2 DEF PoolOK, BlocksPartitioned
    <3>2. ASSUME NEW x \in p.free PROVE newRef[x] = 0
      BY <1>1, <1>2, <1>3 DEF PoolOK, BlocksPartitioned
    <3> QED BY <2>3, <3>1, <3>2 DEF PoolOK, BlocksPartitioned
  <2>5. IndexNamesHolder(r) /\ QueueCoversFree(r)
    BY <2>3 DEF PoolOK, IndexNamesHolder, QueueCoversFree
  <2>6. ParkedBlocksPublished(r)
    BY <1>8, <2>2, <2>3 DEF PoolOK, ParkedBlocksPublished
  <2>7. PoolOK(r) /\ SameQueue(p, r)
    BY <2>3, <2>4, <2>5, <2>6 DEF PoolOK, SameQueue
  <2>8. ~(p.ref[b] >= 2)
    BY <1>1, <1>2, <1>3, <1>8
  <2> QED BY <2>1, <2>2, <2>3, <2>7, <2>8, QueueFitsAfter DEF newRef
<1>9. CASE newRef[b] = 0 /\ ~(p.retain /\ p.hash[b] # NO_BLOCK_HASH)
  <2> DEFINE r == Deallocate(q, b)
             c == ClearHash(q, b)
  <2>1. ReleaseReference(p, b) = r
    BY <1>4, <1>5, <1>9
  <2>2. /\ r \in Pools /\ r.retain = p.retain /\ r.ref = newRef
        /\ r.free = p.free \cup {b} /\ r.used = p.used \ {b}
        /\ r.hash = [p.hash EXCEPT ![b] = NO_BLOCK_HASH]
        /\ r.queue = Append(p.queue, b) /\ r.cached = p.cached
        /\ r.index = c.index
    <3>1. /\ r \in Pools /\ r.retain = p.retain /\ r.ref = q.ref
          /\ r.free = q.free \cup {b} /\ r.used = q.used \ {b}
          /\ r.hash = [q.hash EXCEPT ![b] = NO_BLOCK_HASH]
          /\ r.queue = Append(q.queue, b) /\ r.cached = q.cached
          /\ r.index = c.index
      BY <1>4, DeallocateFields
    <3> HIDE DEF r, c
    <3> QED BY <1>4, <3>1
  <2>3. \A h \in DOMAIN c.index : h \in DOMAIN q.index /\ c.index[h] = q.index[h]
    BY <1>4, ClearHashShrinksIndex
  <2>4. \A h \in DOMAIN c.index : c.index[h] # b
    BY <1>4, <1>6, ClearHashDropsBlock
  <2> HIDE DEF r, c
  <2>5. BlocksPartitioned(r)
    <3>1. ASSUME NEW x \in Block
          PROVE  x \in Range(p.cached) <=> x \in p.used \ {b} /\ newRef[x] = 0
      BY <1>1, <1>2, <1>3 DEF PoolOK, BlocksPartitioned
    <3>2. ASSUME NEW x \in p.free \cup {b} PROVE newRef[x] = 0
      BY <1>1, <1>2, <1>3, <1>9 DEF PoolOK, BlocksPartitioned
    <3>3. (p.free \cup {b}) \cap (p.used \ {b}) = {} /\ (p.free \cup {b}) \cup (p.used \ {b}) = Block
      BY <1>1 DEF PoolOK, BlocksPartitioned
    <3> QED BY <2>2, <3>1, <3>2, <3>3 DEF BlocksPartitioned
  <2>6. IndexNamesHolder(r)
    <3> SUFFICES ASSUME NEW h \in DOMAIN r.index
                 PROVE  r.index[h] \in r.used /\ r.hash[r.index[h]] = h
      BY DEF IndexNamesHolder
    <3>1. h \in DOMAIN p.index /\ r.index[h] = p.index[h] /\ r.index[h] # b
      BY <1>4, <2>2, <2>3, <2>4
    <3>2. p.index[h] \in p.used /\ p.hash[p.index[h]] = h
      BY <3>1 DEF PoolOK, IndexNamesHolder
    <3> QED BY <1>1, <2>2, <3>1, <3>2
  <2>7. QueueCoversFree(r)
    <3>1. /\ Len(p.queue) \in Nat /\ DOMAIN p.queue = 1 .. Len(p.queue)
          /\ DOMAIN Append(p.queue, b) = 1 .. Len(p.queue) + 1
          /\ \A k \in 1 .. Len(p.queue) : Append(p.queue, b)[k] = p.queue[k]
          /\ Append(p.queue, b)[Len(p.queue) + 1] = b
      BY <1>1, LenProperties, AppendProperties
    <3>2. Range(p.queue) \cup {b} \subseteq Range(Append(p.queue, b))
      BY <3>1 DEF Range
    <3> QED BY <2>2, <3>2 DEF PoolOK, QueueCoversFree
  <2>8. ParkedBlocksPublished(r)
    <3>1. ASSUME NEW x \in Range(p.cached) PROVE r.hash[x] # NO_BLOCK_HASH
      <4>1. x \in Block /\ x # b
        BY <1>1, <1>2, ElementOfSeq, LenProperties DEF Range
      <4> QED BY <1>1, <2>2, <4>1 DEF PoolOK, ParkedBlocksPublished
    <3> QED BY <2>2, <3>1 DEF PoolOK, ParkedBlocksPublished
  <2>9. PoolOK(r)
    BY <2>2, <2>5, <2>6, <2>7, <2>8 DEF PoolOK
  <2>10. QueueFits(p) => QueueFits(r)
    BY <1>2, <2>2, <2>9, QueueFitsAfter
  <2>11. ~(p.ref[b] >= 2)
    BY <1>1, <1>2, <1>3, <1>9
  <2> QED BY <2>1, <2>2, <2>9, <2>10, <2>11 DEF newRef
<1> QED BY <1>7, <1>8, <1>9

-----------------------------------------------------------------------------
(* Owners.                                                                 *)

Holders(tables, b) == {o \in Owners : b \in tables[o]}

CountsMatch(p, tables) == \A b \in Block : p.ref[b] = Cardinality(Holders(tables, b))

\* The holders of a block are finitely many.
LEMMA HoldersFinite ==
  ASSUME NEW tables, NEW b
  PROVE  IsFiniteSet(Holders(tables, b)) /\ Cardinality(Holders(tables, b)) \in Nat
<1>1. Holders(tables, b) \subseteq Owners
  BY DEF Holders
<1> QED BY <1>1, OwnersAssumption, FS_Subset, FS_CardinalityType

\* An owner that takes a block becomes one more holder of it.
LEMMA TakeCounts ==
  ASSUME NEW tables \in [Owners -> SUBSET Block], NEW o \in Owners, NEW b \in Block,
         b \notin tables[o],
         NEW p, CountsMatch(p, tables), p.ref \in [Block -> Nat],
         NEW q, q.ref = [p.ref EXCEPT ![b] = @ + 1]
  PROVE  CountsMatch(q, [tables EXCEPT ![o] = @ \cup {b}])
<1> DEFINE new == [tables EXCEPT ![o] = @ \cup {b}]
<1>1. ASSUME NEW x \in Block, x # b PROVE Holders(new, x) = Holders(tables, x)
  BY <1>1 DEF Holders
<1>2. Holders(new, b) = Holders(tables, b) \cup {o} /\ o \notin Holders(tables, b)
  BY DEF Holders
<1>3. Cardinality(Holders(new, b)) = Cardinality(Holders(tables, b)) + 1
  BY <1>2, HoldersFinite, FS_AddElement
<1> QED BY <1>1, <1>3 DEF CountsMatch

\* An owner that drops a block is no longer a holder of it.
LEMMA DropCounts ==
  ASSUME NEW tables \in [Owners -> SUBSET Block], NEW o \in Owners, NEW b \in Block,
         b \in tables[o],
         NEW p, CountsMatch(p, tables), p.ref \in [Block -> Nat],
         NEW q, q.ref = [p.ref EXCEPT ![b] = @ - 1]
  PROVE  CountsMatch(q, [tables EXCEPT ![o] = @ \ {b}])
<1> DEFINE new == [tables EXCEPT ![o] = @ \ {b}]
<1>1. ASSUME NEW x \in Block, x # b PROVE Holders(new, x) = Holders(tables, x)
  BY <1>1 DEF Holders
<1>2. Holders(new, b) = Holders(tables, b) \ {o} /\ o \in Holders(tables, b)
  BY DEF Holders
<1>3. Cardinality(Holders(new, b)) = Cardinality(Holders(tables, b)) - 1
  <2> DEFINE S == Holders(tables, b)
  <2>1. IsFiniteSet(S)
    BY HoldersFinite
  <2> HIDE DEF S
  <2>2. o \in S => Cardinality(S \ {o}) = Cardinality(S) - 1
    BY <2>1, FS_RemoveElement
  <2> QED BY <1>2, <2>2 DEF S
<1> QED BY <1>1, <1>3 DEF CountsMatch

\* A block that some owner holds is referenced, hence used.
LEMMA HeldIsReferenced ==
  ASSUME NEW tables \in [Owners -> SUBSET Block], NEW o \in Owners, NEW b \in tables[o],
         NEW p, PoolOK(p), CountsMatch(p, tables)
  PROVE  CanRelease(p, b) /\ b \in Block
<1>1. b \in Block /\ o \in Holders(tables, b)
  BY DEF Holders
<1>2. Cardinality(Holders(tables, b)) # 0 /\ Cardinality(Holders(tables, b)) \in Nat
  BY <1>1, HoldersFinite, FS_EmptySet
<1>3. p.ref[b] > 0 /\ b \notin p.free
  BY <1>1, <1>2 DEF CountsMatch, PoolOK, BlocksPartitioned
<1> QED BY <1>1, <1>3 DEF CanRelease, PoolOK, BlocksPartitioned

\* A block without references is in nobody's table.
LEMMA UnreferencedIsUnheld ==
  ASSUME NEW tables \in [Owners -> SUBSET Block], NEW o \in Owners, NEW b \in Block,
         NEW p, PoolOK(p), CountsMatch(p, tables), p.ref[b] = 0
  PROVE  b \notin tables[o]
  BY HeldIsReferenced DEF CanRelease

\* Reference counts are naturals.
LEMMA RefType ==
  ASSUME NEW p, PoolOK(p)
  PROVE  p.ref \in [Block -> Nat]
  BY DEF PoolOK, Pools

-----------------------------------------------------------------------------
(* Pools and tables together, for modules that compose pool operations.    *)

Unreferenced(p) == {b \in Block : p.ref[b] = 0}

\* free_count counts the blocks without references, free or parked, in both modes.
LEMMA FreeCountCounts ==
  ASSUME NEW p, PoolOK(p)
  PROVE  /\ FreeCount(p) = Cardinality(Unreferenced(p))
         /\ IsFiniteSet(Unreferenced(p)) /\ FreeCount(p) \in Nat
<1>1. /\ IsFiniteSet(Block) /\ p.cached \in Seq(Block) /\ p.free \subseteq Block
  <2>1. 0 \in Int /\ NumBlocks - 1 \in Int
    BY PoolAssumption
  <2>2. IsFiniteSet(Block)
    BY <2>1, FS_Interval DEF Block
  <2> QED BY <2>2 DEF PoolOK, Pools
<1>2. /\ Unreferenced(p) = p.free \cup Range(p.cached)
      /\ p.free \cap Range(p.cached) = {}
  <2>1. /\ p.free \cap p.used = {} /\ p.free \cup p.used = Block
        /\ \A b \in Block : b \in Range(p.cached) <=> b \in p.used /\ p.ref[b] = 0
        /\ \A b \in p.free : p.ref[b] = 0
    BY DEF PoolOK, BlocksPartitioned
  <2>2. Range(p.cached) \subseteq Block
    BY <1>1, LenProperties, ElementOfSeq DEF Range
  <2> QED BY <2>1, <2>2 DEF Unreferenced
<1>3. IsFiniteSet(Unreferenced(p)) /\ IsFiniteSet(p.free) /\ IsFiniteSet(Range(p.cached))
  <2>1. Unreferenced(p) \subseteq Block /\ p.free \subseteq Unreferenced(p)
        /\ Range(p.cached) \subseteq Unreferenced(p)
    BY <1>2 DEF Unreferenced
  <2> QED BY <1>1, <2>1, FS_Subset
<1>4. Cardinality(Range(p.cached)) = Len(p.cached) /\ Len(p.cached) \in Nat
  <2>1. IsInjective(p.cached)
    BY DEF PoolOK, ParkedBlocksPublished
  <2> QED BY <1>1, <2>1, InjectiveCardinality, LenProperties
<1>5. Cardinality(Unreferenced(p)) = Cardinality(p.free) + Len(p.cached)
  <2>1. /\ Cardinality(p.free \cup Range(p.cached))
             = Cardinality(p.free) + Cardinality(Range(p.cached)) - Cardinality(p.free \cap Range(p.cached))
    BY <1>3, FS_Union
  <2>2. Cardinality(p.free \cap Range(p.cached)) = 0
    BY <1>2, FS_EmptySet
  <2>3. Cardinality(p.free) \in Nat
    BY <1>3, FS_CardinalityType
  <2> QED BY <1>2, <1>4, <2>1, <2>2, <2>3
<1>6. ~p.retain => Len(p.cached) = 0
  BY EmptySeq DEF PoolOK, ParkedBlocksPublished
<1> QED BY <1>3, <1>4, <1>5, <1>6, FS_CardinalityType DEF FreeCount

\* allocate_many's check of free_count is enough for every allocate_free.
LEMMA EnoughFree ==
  ASSUME NEW p, PoolOK(p), FreeCount(p) > 0
  PROVE  CanAllocateFree(p)
<1>1. PICK b : b \in Unreferenced(p)
  <2>1. Unreferenced(p) # {}
    BY FreeCountCounts, FS_EmptySet
  <2> QED BY <2>1
<1>2. b \in Block /\ p.ref[b] = 0
  BY <1>1 DEF Unreferenced
<1>3. CASE b \in p.free
  <2>1. b \in Range(p.queue)
    BY <1>3 DEF PoolOK, QueueCoversFree
  <2>2. PICK i \in DOMAIN p.queue : p.queue[i] = b
    BY <2>1 DEF Range
  <2> QED BY <1>3, <2>2 DEF CanAllocateFree, Live
<1>4. CASE b \in Range(p.cached)
  <2>1. p.cached # <<>>
    BY <1>4, NoElements
  <2> QED BY <2>1 DEF CanAllocateFree, PoolOK, ParkedBlocksPublished
<1> QED BY <1>2, <1>3, <1>4 DEF PoolOK, BlocksPartitioned

\* Replacing one count by a positive one takes at most one block away.
LEMMA FreeCountAfter ==
  ASSUME NEW p, PoolOK(p), NEW q, PoolOK(q), NEW b \in Block, NEW v \in Nat \ {0},
         q.ref = [p.ref EXCEPT ![b] = v]
  PROVE  FreeCount(q) = IF p.ref[b] = 0 THEN FreeCount(p) - 1 ELSE FreeCount(p)
<1>1. p.ref \in [Block -> Nat]
  BY RefType
<1>2. Unreferenced(q) = Unreferenced(p) \ {b}
  BY <1>1 DEF Unreferenced
<1>3. /\ FreeCount(p) = Cardinality(Unreferenced(p)) /\ IsFiniteSet(Unreferenced(p))
      /\ FreeCount(q) = Cardinality(Unreferenced(q)) /\ FreeCount(p) \in Nat
  BY FreeCountCounts
<1>4. b \in Unreferenced(p) <=> p.ref[b] = 0
  BY DEF Unreferenced
<1>5. b \in Unreferenced(p) => Cardinality(Unreferenced(p) \ {b}) = Cardinality(Unreferenced(p)) - 1
  BY <1>3, FS_RemoveElement
<1>6. b \notin Unreferenced(p) => Unreferenced(p) \ {b} = Unreferenced(p)
  OBVIOUS
<1> QED BY <1>2, <1>3, <1>4, <1>5, <1>6

\* The pool is well formed and counts these tables.
Counted(p, tables) ==
  PoolOK(p) /\ tables \in [Owners -> SUBSET Block] /\ CountsMatch(p, tables)

\* allocate_free for owner o.
LEMMA TakesFresh ==
  ASSUME NEW p, NEW tables, Counted(p, tables), NEW o \in Owners, FreeCount(p) > 0
  PROVE  LET a == AllocateFree(p)
         IN  /\ Counted(a.pool, [tables EXCEPT ![o] = @ \cup {a.block}])
             /\ a.block \in Block \ tables[o]
             /\ FreeCount(a.pool) = FreeCount(p) - 1
<1> DEFINE a == AllocateFree(p)
           next == [tables EXCEPT ![o] = @ \cup {a.block}]
<1>1. PoolOK(p) /\ tables \in [Owners -> SUBSET Block] /\ CountsMatch(p, tables)
  BY DEF Counted
<1>2. /\ PoolOK(a.pool) /\ a.block \in Block /\ p.ref[a.block] = 0
      /\ a.pool.ref = [p.ref EXCEPT ![a.block] = 1]
  BY <1>1, EnoughFree, AllocateFreeKeepsPoolOK
<1> HIDE DEF a
<1>3. p.ref \in [Block -> Nat]
  BY <1>1, RefType
<1>4. a.block \notin tables[o]
  BY <1>1, <1>2, UnreferencedIsUnheld
<1>5. a.pool.ref = [p.ref EXCEPT ![a.block] = @ + 1]
  BY <1>2, <1>3
<1>6. CountsMatch(a.pool, next)
  BY <1>1, <1>2, <1>3, <1>4, <1>5, TakeCounts
<1>7. next \in [Owners -> SUBSET Block]
  BY <1>1, <1>2
<1>8. FreeCount(a.pool) = FreeCount(p) - 1
  BY <1>1, <1>2, FreeCountAfter
<1> HIDE DEF next
<1>9. Counted(a.pool, next)
  BY <1>2, <1>6, <1>7 DEF Counted
<1> QED BY <1>2, <1>4, <1>8, <1>9 DEF a, next

\* What lookup finds carries the hash, and retain accepts it.
LEMMA LookupFinds ==
  ASSUME NEW p, PoolOK(p), NEW h, NEW c, Lookup(p, h, c) # NoBlock
  PROVE  LET b == Lookup(p, h, c)
         IN  b \in Block /\ p.hash[b] = h /\ h \in Hashes /\ CanRetain(p, b)
<1> DEFINE b == Lookup(p, h, c)
<1>1. h \in DOMAIN p.index /\ b = p.index[h]
  BY DEF Lookup
<1> HIDE DEF b
<1>2. b \in p.used /\ p.hash[b] = h
  BY <1>1 DEF PoolOK, IndexNamesHolder
<1>3. p.used \subseteq Block /\ DOMAIN p.index \subseteq Hashes
  BY IndexType DEF PoolOK, Pools
<1>4. p.ref[b] = 0 => p.retain /\ b \in Range(p.cached)
  <2>1. p.ref[b] = 0 => b \in Range(p.cached)
    BY <1>2, <1>3 DEF PoolOK, BlocksPartitioned
  <2>2. p.cached = <<>> => Range(p.cached) = {}
    BY NoElements
  <2> QED BY <2>1, <2>2 DEF PoolOK, ParkedBlocksPublished
<1>5. b \in Block /\ p.hash[b] = h /\ h \in Hashes /\ CanRetain(p, b)
  BY <1>1, <1>2, <1>3, <1>4 DEF CanRetain
<1> QED BY <1>5 DEF b

\* Owner o shares what lookup found.
LEMMA TakesFound ==
  ASSUME NEW p, NEW tables, Counted(p, tables), NEW o \in Owners, NEW h, NEW c,
         Lookup(p, h, c) \notin tables[o] \cup {NoBlock}
  PROVE  LET b == Lookup(p, h, c)
             q == RetainBlock(p, b)
         IN  /\ Counted(q, [tables EXCEPT ![o] = @ \cup {b}])
             /\ b \in Block /\ q.hash = p.hash /\ q.hash[b] = h
             /\ FreeCount(q) >= FreeCount(p) - 1
<1> DEFINE b == Lookup(p, h, c)
           q == RetainBlock(p, b)
           next == [tables EXCEPT ![o] = @ \cup {b}]
<1>1. PoolOK(p) /\ tables \in [Owners -> SUBSET Block] /\ CountsMatch(p, tables)
  BY DEF Counted
<1>2. b \in Block /\ p.hash[b] = h /\ CanRetain(p, b)
  BY <1>1, LookupFinds
<1>0. b \notin tables[o]
  OBVIOUS
<1> HIDE DEF b
<1>3. /\ PoolOK(q) /\ q.ref = [p.ref EXCEPT ![b] = @ + 1] /\ q.hash = p.hash
  BY <1>1, <1>2, RetainKeepsPoolOK
<1> HIDE DEF q
<1>4. p.ref \in [Block -> Nat]
  BY <1>1, RefType
<1>5. CountsMatch(q, next)
  BY <1>0, <1>1, <1>2, <1>3, <1>4, TakeCounts
<1>6. next \in [Owners -> SUBSET Block]
  BY <1>1, <1>2
<1>7. FreeCount(q) >= FreeCount(p) - 1
  <2> DEFINE v == p.ref[b] + 1
  <2>1. v \in Nat \ {0} /\ q.ref = [p.ref EXCEPT ![b] = v]
    BY <1>2, <1>3, <1>4
  <2> HIDE DEF v
  <2>2. FreeCount(q) = IF p.ref[b] = 0 THEN FreeCount(p) - 1 ELSE FreeCount(p)
    BY <1>1, <1>2, <1>3, <2>1, FreeCountAfter
  <2>3. FreeCount(p) \in Nat
    BY <1>1, FreeCountCounts
  <2> QED BY <2>2, <2>3
<1> HIDE DEF next
<1>8. Counted(q, next)
  BY <1>3, <1>5, <1>6 DEF Counted
<1> QED BY <1>2, <1>3, <1>7, <1>8 DEF b, q, next

\* release_reference by owner o.
LEMMA Releases ==
  ASSUME NEW p, NEW tables, Counted(p, tables), NEW o \in Owners, NEW b \in tables[o]
  PROVE  Counted(ReleaseReference(p, b), [tables EXCEPT ![o] = @ \ {b}])
<1> DEFINE q == ReleaseReference(p, b)
           next == [tables EXCEPT ![o] = @ \ {b}]
<1>1. PoolOK(p) /\ tables \in [Owners -> SUBSET Block] /\ CountsMatch(p, tables)
  BY DEF Counted
<1>2. CanRelease(p, b) /\ b \in Block
  BY <1>1, HeldIsReferenced
<1>3. PoolOK(q) /\ q.ref = [p.ref EXCEPT ![b] = @ - 1]
  BY <1>1, <1>2, ReleaseKeepsPoolOK
<1> HIDE DEF q
<1>4. CountsMatch(q, next)
  BY <1>1, <1>2, <1>3, RefType, DropCounts
<1>5. next \in [Owners -> SUBSET Block]
  BY <1>1
<1> HIDE DEF next
<1>6. Counted(q, next)
  BY <1>3, <1>4, <1>5 DEF Counted
<1> QED BY <1>6 DEF q, next

\* register_hash of a block of owner o.
LEMMA Publishes ==
  ASSUME NEW p, NEW tables, Counted(p, tables), NEW o \in Owners, NEW b \in tables[o],
         NEW h \in Hashes, NEW c \in Contents
  PROVE  Counted(RegisterHash(p, b, h, c), tables)
<1> DEFINE q == RegisterHash(p, b, h, c)
<1>1. PoolOK(p) /\ tables \in [Owners -> SUBSET Block] /\ CountsMatch(p, tables)
  BY DEF Counted
<1>2. CanRelease(p, b) /\ b \in Block
  BY <1>1, HeldIsReferenced
<1>3. PoolOK(q) /\ q.ref = p.ref
  BY <1>1, <1>2, RegisterKeepsPoolOK
<1> HIDE DEF q
<1>4. Counted(q, tables)
  BY <1>1, <1>3 DEF Counted, CountsMatch
<1> QED BY <1>4 DEF q

\* When no table names a page, every page can be allocated.
LEMMA NothingHeld ==
  ASSUME NEW p, NEW tables, Counted(p, tables), \A o \in Owners : tables[o] = {}
  PROVE  FreeCount(p) = NumBlocks
<1>1. \A b \in Block : Holders(tables, b) = {}
  BY DEF Holders
<1>2. \A b \in Block : p.ref[b] = 0
  BY <1>1, FS_EmptySet DEF Counted, CountsMatch
<1>3. Unreferenced(p) = Block
  BY <1>2 DEF Unreferenced
<1>4. Cardinality(Block) = NumBlocks
  <2>1. 0 \in Int /\ NumBlocks - 1 \in Int /\ ~(0 > NumBlocks - 1)
    BY PoolAssumption
  <2>2. Cardinality(Block) = (NumBlocks - 1) - 0 + 1
    BY <2>1, FS_Interval DEF Block
  <2> QED BY <2>2, PoolAssumption
<1> QED BY <1>3, <1>4, FreeCountCounts DEF Counted

\* A new pool is well formed and counts empty tables.
LEMMA EmptyCounted ==
  ASSUME NEW retains \in BOOLEAN, NEW p, p = EmptyPool(retains),
         NEW tables, tables = [o \in Owners |-> {}]
  PROVE  Counted(p, tables) /\ QueueFits(p)
<1> USE PoolAssumption
<1>1. /\ p.ref = [b \in Block |-> 0] /\ p.hash = [b \in Block |-> NO_BLOCK_HASH]
      /\ p.index = [h \in {} |-> 0] /\ p.queue = [i \in 1 .. NumBlocks |-> i - 1]
      /\ p.free = Block /\ p.used = {} /\ p.cached = <<>>
  BY DEF EmptyPool
<1>2. p \in Pools
  <2>1. [h \in {} |-> 0] \in [{} -> Block]
    OBVIOUS
  <2>2. [h \in {} |-> 0] \in UNION {[H -> Block] : H \in SUBSET Hashes}
    BY <2>1, IndexMember
  <2>3. [i \in 1 .. NumBlocks |-> i - 1] \in Seq(Block)
    <3>1. [i \in 1 .. NumBlocks |-> i - 1] \in [1 .. NumBlocks -> Block]
      BY DEF Block
    <3>2. NumBlocks \in Nat
      OBVIOUS
    <3> QED BY <3>1, <3>2, SeqDef
  <2> DEFINE ref == [b \in Block |-> 0]
             hash == [b \in Block |-> NO_BLOCK_HASH]
             content == [b \in Block |-> NoContent]
             index == [h \in {} |-> 0]
             queue == [i \in 1 .. NumBlocks |-> i - 1]
  <2>4. /\ ref \in [Block -> Nat] /\ hash \in [Block -> Hashes \cup {NO_BLOCK_HASH}]
        /\ content \in [Block -> Contents \cup {NoContent}]
    OBVIOUS
  <2>5. p = [ref |-> ref, hash |-> hash, content |-> content, index |-> index,
                queue |-> queue, free |-> Block, used |-> {}, cached |-> <<>>,
                retain |-> retains]
    BY DEF EmptyPool
  <2>6. index \in UNION {[H -> Block] : H \in SUBSET Hashes} /\ queue \in Seq(Block)
    BY <2>2, <2>3
  <2> HIDE DEF ref, hash, content, index, queue
  <2> QED BY <2>4, <2>5, <2>6 DEF Pools
<1>3. Range(p.cached) = {}
  BY <1>1 DEF Range
<1>4. BlocksPartitioned(p)
  BY <1>1, <1>3 DEF BlocksPartitioned
<1>5. IndexNamesHolder(p)
  BY <1>1 DEF IndexNamesHolder
<1>6. QueueCoversFree(p)
  <2> SUFFICES ASSUME NEW x \in Block PROVE x \in Range(p.queue)
    BY <1>1 DEF QueueCoversFree
  <2>1. x + 1 \in 1 .. NumBlocks /\ (x + 1) - 1 = x
    BY DEF Block
  <2> QED BY <1>1, <2>1 DEF Range
<1>7. ParkedBlocksPublished(p)
  BY <1>1, <1>3 DEF ParkedBlocksPublished, IsInjective
<1>8. ASSUME NEW b \in Block PROVE Cardinality(Holders(tables, b)) = 0
  <2>1. Holders(tables, b) = {}
    BY DEF Holders
  <2> QED BY <2>1, FS_EmptySet
<1>9. CountsMatch(p, tables)
  BY <1>1, <1>8 DEF CountsMatch
<1>10. PoolOK(p)
  BY <1>2, <1>4, <1>5, <1>6, <1>7 DEF PoolOK
<1>11. QueueFits(p)
  <2>1. Len(p.queue) = NumBlocks
    BY <1>1, LenProperties
  <2>2. 0 \in Int /\ NumBlocks - 1 \in Int /\ ~(0 > NumBlocks - 1)
    BY PoolAssumption
  <2>3. Cardinality(Block) = (NumBlocks - 1) - 0 + 1
    BY <2>2, FS_Interval DEF Block
  <2> QED BY <1>1, <2>1, <2>3 DEF QueueFits
<1>12. tables \in [Owners -> SUBSET Block]
  OBVIOUS
<1> QED BY <1>9, <1>10, <1>11, <1>12 DEF Counted

-----------------------------------------------------------------------------
(* The specification.                                                      *)

\* The inductive invariant: the pool is well formed, its queue holds at most one stale
\* entry, and its reference counts are the owners' tables.
IInv ==
  /\ PoolOK(pool)
  /\ QueueFits(pool)
  /\ held \in [Owners -> SUBSET Block]
  /\ CountsMatch(pool, held)

\* A new pool satisfies the inductive invariant.
LEMMA InitEstablishes ==
  ASSUME Init
  PROVE  IInv
<1>1. PICK retains \in BOOLEAN : pool = EmptyPool(retains)
  BY DEF Init
<1>2. held = [o \in Owners |-> {}]
  BY DEF Init
<1>3. Counted(pool, held) /\ QueueFits(pool)
  BY <1>1, <1>2, EmptyCounted
<1> QED BY <1>3 DEF IInv, Counted

\* Every method called by an owner keeps the inductive invariant.
LEMMA NextPreserves ==
  ASSUME IInv, Next
  PROVE  IInv'
<1> USE DEF IInv
<1>0. PICK o \in Owners :
        \/ AllocateFreeBlock(o)
        \/ \E h \in Hashes, c \in Contents : RetainLookup(o, h, c)
        \/ \E b \in Block :
             \/ RetainShared(o, b)
             \/ Release(o, b)
             \/ Unpublish(o, b)
             \/ \E h \in Hashes, c \in Contents : Publish(o, b, h, c)
  BY DEF Next
<1>1. ASSUME NEW b \in Block, b \notin held[o], CanRetain(pool, b),
             pool' = RetainBlock(pool, b), Take(o, b)
      PROVE  IInv'
  <2>1. /\ PoolOK(pool') /\ pool'.ref = [pool.ref EXCEPT ![b] = @ + 1]
        /\ SameQueue(pool, pool')
    BY <1>1, RetainKeepsPoolOK
  <2>3. QueueFits(pool')
    BY <2>1, QueueFitsAfter
  <2>2. CountsMatch(pool', held') /\ held' \in [Owners -> SUBSET Block]
    BY <1>1, <2>1, TakeCounts, RefType DEF Take
  <2> QED BY <2>1, <2>2, <2>3
<1>2. CASE AllocateFreeBlock(o)
  <2> DEFINE r == AllocateFree(pool)
  <2>1. /\ PoolOK(r.pool) /\ r.block \in Block /\ pool.ref[r.block] = 0
        /\ r.pool.ref = [pool.ref EXCEPT ![r.block] = 1] /\ QueueFits(r.pool)
    BY <1>2, AllocateFreeKeepsPoolOK DEF AllocateFreeBlock
  <2>2. pool' = r.pool /\ held' = [held EXCEPT ![o] = @ \cup {r.block}]
    BY <1>2 DEF AllocateFreeBlock, Take
  <2> HIDE DEF r
  <2>3. r.block \notin held[o]
    BY <2>1, UnreferencedIsUnheld
  <2>4. pool.ref \in [Block -> Nat]
    BY RefType
  <2>5. pool'.ref = [pool.ref EXCEPT ![r.block] = @ + 1]
    BY <2>1, <2>2, <2>4
  <2>6. CountsMatch(pool', held') /\ held' \in [Owners -> SUBSET Block]
    BY <2>1, <2>2, <2>3, <2>4, <2>5, TakeCounts
  <2> QED BY <2>1, <2>2, <2>6
<1>3. ASSUME NEW h \in Hashes, NEW c \in Contents, RetainLookup(o, h, c)
      PROVE  IInv'
  <2> DEFINE b == Lookup(pool, h, c)
  <2>1. b # NoBlock /\ b \notin held[o]
    BY <1>3 DEF RetainLookup
  <2>2. b \in Block
    <3>1. h \in DOMAIN pool.index /\ b = pool.index[h]
      BY <2>1 DEF Lookup
    <3>2. pool.index[h] \in pool.used /\ pool.used \subseteq Block
      BY <3>1 DEF PoolOK, Pools, IndexNamesHolder
    <3> QED BY <3>1, <3>2
  <2>3. CanRetain(pool, b) /\ pool' = RetainBlock(pool, b) /\ Take(o, b)
    BY <1>3 DEF RetainLookup
  <2> HIDE DEF b
  <2> QED BY <1>1, <2>1, <2>2, <2>3
<1>4. ASSUME NEW b \in Block, RetainShared(o, b)
      PROVE  IInv'
  BY <1>1, <1>4 DEF RetainShared
<1>5. ASSUME NEW b \in Block, Release(o, b)
      PROVE  IInv'
  <2>1. b \in held[o] /\ CanRelease(pool, b) /\ pool' = ReleaseReference(pool, b)
        /\ held' = [held EXCEPT ![o] = @ \ {b}]
    BY <1>5 DEF Release
  <2>2. PoolOK(pool') /\ pool'.ref = [pool.ref EXCEPT ![b] = @ - 1] /\ QueueFits(pool')
    BY <2>1, ReleaseKeepsPoolOK
  <2>3. CountsMatch(pool', held') /\ held' \in [Owners -> SUBSET Block]
    BY <2>1, <2>2, DropCounts, RefType
  <2> QED BY <2>2, <2>3
<1>6. ASSUME NEW b \in Block, Unpublish(o, b)
      PROVE  IInv'
  <2>1. CanRelease(pool, b)
    BY <1>6, HeldIsReferenced DEF Unpublish
  <2>2. PoolOK(pool') /\ pool'.ref = pool.ref /\ held' = held /\ SameQueue(pool, pool')
    BY <1>6, <2>1, ClearHashKeepsPoolOK DEF Unpublish, CanRelease
  <2>3. QueueFits(pool')
    BY <2>2, QueueFitsAfter
  <2> QED BY <2>2, <2>3 DEF CountsMatch
<1>7. ASSUME NEW b \in Block, NEW h \in Hashes, NEW c \in Contents, Publish(o, b, h, c)
      PROVE  IInv'
  <2>1. PoolOK(pool') /\ pool'.ref = pool.ref /\ held' = held /\ SameQueue(pool, pool')
    BY <1>7, RegisterKeepsPoolOK DEF Publish
  <2>2. QueueFits(pool')
    BY <2>1, QueueFitsAfter
  <2> QED BY <2>1, <2>2 DEF CountsMatch
<1> QED BY <1>0, <1>2, <1>3, <1>4, <1>5, <1>6, <1>7

\* The inductive invariant holds in every behaviour.
THEOREM PoolInvariant == Spec => []IInv
<1>1. Init => IInv
  BY InitEstablishes
<1>2. IInv /\ [Next]_vars => IInv'
  <2> SUFFICES ASSUME IInv, UNCHANGED vars PROVE IInv'
    BY NextPreserves
  <2> QED BY DEF vars, IInv
<1> QED BY <1>1, <1>2, PTL DEF Spec

\* For every capacity, hash set, content set, owner set and retention mode the
\* pool and the owners' tables keep their shapes.
THEOREM PoolTypes == Spec => []TypeOK
<1>1. IInv => TypeOK
  BY DEF IInv, TypeOK, PoolOK
<1> QED BY <1>1, PoolInvariant, PTL

\* No block leaks and none is in two classes: after any sequence of
\* allocate_free, retain, release_reference and eviction the free, parked and
\* referenced blocks are disjoint and cover the pool.
THEOREM PoolPartition == Spec => []Partition
<1>1. IInv => Partition
  BY DEF IInv, Partition, PoolOK
<1> QED BY <1>1, PoolInvariant, PTL

\* ref_count equals the number of tables that hold the block, so a block is
\* recycled exactly when its last owner releases it.
THEOREM PoolRefCounts == Spec => []RefCountsExact
<1>1. IInv => RefCountsExact
  BY DEF IInv, RefCountsExact, CountsMatch, Holders
<1> QED BY <1>1, PoolInvariant, PTL

\* A block found through the hash index carries the hash it was looked up by,
\* and retain accepts it: recycling removed the index entry of its old content.
THEOREM PoolIndexSound == Spec => []IndexSound
<1>1. IInv => IndexSound
  <2> SUFFICES ASSUME IInv, NEW h \in DOMAIN pool.index
               PROVE  pool.hash[pool.index[h]] = h /\ CanRetain(pool, pool.index[h])
    BY DEF IndexSound
  <2>1. /\ PoolOK(pool) /\ pool.index[h] \in pool.used /\ pool.hash[pool.index[h]] = h
        /\ pool.used \subseteq Block
    BY DEF IInv, PoolOK, Pools, IndexNamesHolder
  <2>2. ASSUME pool.ref[pool.index[h]] = 0
        PROVE  pool.index[h] \in Range(pool.cached)
    BY <2>1, <2>2 DEF PoolOK, BlocksPartitioned
  <2>3. ASSUME pool.index[h] \in Range(pool.cached)
        PROVE  pool.retain
    <3>1. pool.cached # <<>>
      BY <2>3 DEF Range
    <3> QED BY <2>1, <3>1, PoolAssumption DEF PoolOK, ParkedBlocksPublished
  <2> QED BY <2>1, <2>2, <2>3 DEF CanRetain
<1> QED BY <1>1, PoolInvariant, PTL

\* Only published blocks are parked, each once; without retention none is.
THEOREM PoolParked == Spec => []CachedBlocksPublished
<1>1. IInv => CachedBlocksPublished
  BY DEF IInv, CachedBlocksPublished, PoolOK
<1> QED BY <1>1, PoolInvariant, PTL

\* free_count is positive exactly when allocate_free can succeed: the stale
\* entries of the free queue never hide a free block nor feign one.
THEOREM PoolFreeCount == Spec => []FreeCountHonest
<1>1. IInv => FreeCountHonest
  <2> SUFFICES ASSUME IInv PROVE FreeCountHonest
    OBVIOUS
  <2> USE PoolAssumption
  <2>1. /\ PoolOK(pool) /\ pool.free \subseteq Block /\ pool.cached \in Seq(Block)
        /\ pool.queue \in Seq(Block)
    BY DEF IInv, PoolOK, Pools
  <2>2. IsFiniteSet(Block)
    <3>1. 0 \in Int /\ NumBlocks - 1 \in Int
      OBVIOUS
    <3> QED BY <3>1, FS_Interval DEF Block
  <2>3. IsFiniteSet(pool.free) /\ Cardinality(pool.free) \in Nat
    BY <2>1, <2>2, FS_Subset, FS_CardinalityType
  <2>4. Cardinality(pool.free) = 0 <=> pool.free = {}
    BY <2>3, FS_EmptySet
  <2>5. Len(pool.cached) \in Nat /\ (Len(pool.cached) = 0 <=> pool.cached = <<>>)
    BY <2>1, LenProperties, EmptySeq
  <2>6. Live(pool) # {} <=> pool.free # {}
    BY <2>1 DEF Live, PoolOK, QueueCoversFree, Range
  <2> QED BY <2>3, <2>4, <2>5, <2>6 DEF FreeCountHonest, FreeCount, CanAllocateFree
<1> QED BY <1>1, PoolInvariant, PTL

\* Stale entries do not pile up in the lazily cleaned free queue: it never holds more than
\* one entry beyond the capacity of the pool.
THEOREM PoolQueueBounded == Spec => []QueueBounded
<1>1. IInv => QueueBounded
  <2> SUFFICES ASSUME IInv PROVE QueueBounded
    OBVIOUS
  <2>1. Len(pool.queue) <= Cardinality(pool.free) + 1
    BY DEF IInv, QueueFits
  <2>2. /\ Len(pool.queue) \in Nat /\ Cardinality(pool.free) \in Nat
        /\ Cardinality(pool.free) <= NumBlocks
    BY FreeFinite DEF IInv
  <2> QED BY <2>1, <2>2, PoolAssumption DEF QueueBounded
<1> QED BY <1>1, PoolInvariant, PTL

-----------------------------------------------------------------------------
(* What a step may not do.                                                 *)

\* Only a release takes a block out of a table, and only that owner's.
LEMMA OnlyReleaseDrops ==
  ASSUME IInv, [Next]_vars, NEW b \in Block, NEW o \in Owners, b \in held[o], b \notin held'[o]
  PROVE  Release(o, b)
<1>1. held \in [Owners -> SUBSET Block]
  BY DEF IInv
<1>2. PICK r \in Owners :
        \/ AllocateFreeBlock(r)
        \/ \E h \in Hashes, c \in Contents : RetainLookup(r, h, c)
        \/ \E d \in Block :
             \/ RetainShared(r, d)
             \/ Release(r, d)
             \/ Unpublish(r, d)
             \/ \E h \in Hashes, c \in Contents : Publish(r, d, h, c)
  BY DEF Next, vars
<1>3. ~AllocateFreeBlock(r)
  BY <1>1 DEF AllocateFreeBlock, Take
<1>4. \A h \in Hashes, c \in Contents : ~RetainLookup(r, h, c)
  BY <1>1 DEF RetainLookup, Take
<1>5. \A d \in Block : ~RetainShared(r, d) /\ ~Unpublish(r, d)
  BY <1>1 DEF RetainShared, Unpublish, Take
<1>6. \A d \in Block, h \in Hashes, c \in Contents : ~Publish(r, d, h, c)
  BY DEF Publish
<1>7. PICK d \in Block : Release(r, d)
  BY <1>2, <1>3, <1>4, <1>5, <1>6
<1>8. r = o /\ d = b
  BY <1>1, <1>7 DEF Release
<1> QED BY <1>7, <1>8

\* release_reference by one of several owners leaves the block used and published.
THEOREM PoolReleaseKeepsShared == Spec => ReleaseKeepsSharedHash
<1> DEFINE Step == \A b \in Block :
             Cardinality({o \in Owners : b \in held[o]}) >= 2
               /\ (\E o \in Owners : b \in held[o] /\ b \notin held'[o])
             => pool'.hash[b] = pool.hash[b] /\ b \in pool'.used
<1>1. IInv /\ [Next]_vars => Step
  <2> SUFFICES ASSUME IInv, [Next]_vars, NEW b \in Block,
                      Cardinality({o \in Owners : b \in held[o]}) >= 2,
                      NEW o \in Owners, b \in held[o], b \notin held'[o]
               PROVE  pool'.hash[b] = pool.hash[b] /\ b \in pool'.used
    OBVIOUS
  <2>1. Release(o, b)
    BY OnlyReleaseDrops
  <2>2. CanRelease(pool, b) /\ pool' = ReleaseReference(pool, b)
    BY <2>1 DEF Release
  <2>3. pool.ref[b] >= 2
    BY DEF IInv, CountsMatch, Holders
  <2>4. pool'.hash = pool.hash /\ pool'.used = pool.used
    BY <2>2, <2>3, ReleaseKeepsPoolOK DEF IInv
  <2> QED BY <2>2, <2>4 DEF CanRelease
<1>2. IInv /\ [Next]_vars => [Step]_vars
  BY <1>1
<1> QED BY <1>2, PoolInvariant, PTL DEF Spec, ReleaseKeepsSharedHash

\* The parked blocks that a step of an owner takes out: the oldest one, which is evicted, or
\* one that is revived and keeps its hash.
LEMMA ParkedLeave ==
  ASSUME IInv, [Next]_vars
  PROVE  \/ Range(pool.cached) \subseteq Range(pool'.cached)
         \/ pool.cached # <<>> /\ pool'.cached = Tail(pool.cached)
         \/ pool'.hash = pool.hash
<1>1. CASE UNCHANGED vars
  BY <1>1 DEF vars
<1>2. ASSUME NEW o \in Owners, AllocateFreeBlock(o)
      PROVE  pool'.cached = pool.cached \/ (pool.cached # <<>> /\ pool'.cached = Tail(pool.cached))
  BY <1>2, AllocateFreeKeepsPoolOK DEF IInv, AllocateFreeBlock
<1>3. ASSUME NEW b \in Block, CanRetain(pool, b), pool' = RetainBlock(pool, b)
      PROVE  pool'.hash = pool.hash
  BY <1>3, RetainKeepsPoolOK DEF IInv
<1>4. ASSUME NEW o \in Owners, NEW h \in Hashes, NEW c \in Contents, RetainLookup(o, h, c)
      PROVE  pool'.hash = pool.hash
  <2>1. Lookup(pool, h, c) \in Block
    <3>1. h \in DOMAIN pool.index /\ Lookup(pool, h, c) = pool.index[h]
      BY <1>4 DEF RetainLookup, Lookup
    <3>2. pool.index[h] \in pool.used /\ pool.used \subseteq Block
      BY <3>1 DEF IInv, PoolOK, Pools, IndexNamesHolder
    <3> QED BY <3>1, <3>2
  <2> QED BY <1>3, <1>4, <2>1 DEF RetainLookup
<1>5. ASSUME NEW o \in Owners, NEW b \in Block, RetainShared(o, b)
      PROVE  pool'.hash = pool.hash
  BY <1>3, <1>5 DEF RetainShared
<1>6. ASSUME NEW o \in Owners, NEW b \in Block, Release(o, b)
      PROVE  Range(pool.cached) \subseteq Range(pool'.cached)
  BY <1>6, ReleaseKeepsPoolOK DEF IInv, Release
<1>7. ASSUME NEW o \in Owners, NEW b \in Block, Unpublish(o, b)
      PROVE  pool'.cached = pool.cached
  BY <1>7, ClearHashEffect DEF IInv, PoolOK, Unpublish
<1>8. ASSUME NEW o \in Owners, NEW b \in Block, NEW h \in Hashes, NEW c \in Contents,
             Publish(o, b, h, c)
      PROVE  pool'.cached = pool.cached
  BY <1>8, RegisterKeepsPoolOK DEF IInv, Publish
<1> QED BY <1>1, <1>2, <1>4, <1>5, <1>6, <1>7, <1>8 DEF Next

\* _evict_oldest_cached: a parked block never leaves by eviction before an older one.
THEOREM PoolEvictsOldest == Spec => EvictsOldestFirst
<1> DEFINE Step == \A i, j \in DOMAIN pool.cached :
       i < j /\ pool.cached[i] \in Range(pool'.cached)
             /\ pool.cached[j] \notin Range(pool'.cached)
       => pool'.hash[pool.cached[j]] = pool.hash[pool.cached[j]]
<1>1. IInv /\ [Next]_vars => Step
  <2> SUFFICES ASSUME IInv, [Next]_vars, NEW i \in DOMAIN pool.cached, NEW j \in DOMAIN pool.cached,
                      i < j, pool.cached[j] \notin Range(pool'.cached)
               PROVE  pool'.hash[pool.cached[j]] = pool.hash[pool.cached[j]]
    OBVIOUS
  <2>1. /\ pool.cached \in Seq(Block) /\ Len(pool.cached) \in Nat
        /\ DOMAIN pool.cached = 1 .. Len(pool.cached)
    BY LenProperties DEF IInv, PoolOK, Pools
  <2>2. CASE Range(pool.cached) \subseteq Range(pool'.cached)
    BY <2>2 DEF Range
  <2>3. CASE pool.cached # <<>> /\ pool'.cached = Tail(pool.cached)
    <3>1. /\ Len(Tail(pool.cached)) = Len(pool.cached) - 1
          /\ \A k \in 1 .. Len(Tail(pool.cached)) : Tail(pool.cached)[k] = pool.cached[k + 1]
          /\ DOMAIN Tail(pool.cached) = 1 .. Len(Tail(pool.cached))
      BY <2>1, <2>3, HeadTailProperties, LenProperties
    <3>2. j - 1 \in 1 .. Len(Tail(pool.cached)) /\ (j - 1) + 1 = j
      BY <2>1, <3>1
    <3>3. Tail(pool.cached)[j - 1] = pool.cached[j]
      BY <3>1, <3>2
    <3> QED BY <2>3, <3>1, <3>2, <3>3 DEF Range
  <2>4. CASE pool'.hash = pool.hash
    BY <2>4
  <2> QED BY <2>2, <2>3, <2>4, ParkedLeave
<1>2. IInv /\ [Next]_vars => [Step]_vars
  BY <1>1
<1> QED BY <1>2, PoolInvariant, PTL DEF Spec, EvictsOldestFirst
=============================================================================
