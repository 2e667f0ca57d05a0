---------------------------- MODULE GpuBlockPool ----------------------------
(***************************************************************************)
(* The reference-counted GPU block allocator of                            *)
(* prism_infer/engine/block_pool.py (class GpuBlockPool).                  *)
(*                                                                         *)
(* The pool is one record.  Every method of the class is an operator from  *)
(* pool to pool, so that the block manager, which calls several methods    *)
(* in one operation, composes them.  The state machine at the end drives   *)
(* the pool the way its callers do: an owner (a sequence's block table or  *)
(* a prefix-cache entry) takes, shares, publishes and gives back blocks.   *)
(***************************************************************************)
EXTENDS Integers, FiniteSets, Sequences, Functions, FiniteSetsExt, Deques

CONSTANTS
  NumBlocks,      (* capacity of the pool                                   *)
  Hashes,         (* block hashes other than NO_BLOCK_HASH                  *)
  NO_BLOCK_HASH,  (* the hash of a block that is not published              *)
  Contents,       (* token ids and media identities a full block can hold   *)
  NoContent,      (* the metadata of a block that is not published          *)
  Owners          (* holders of block references                            *)

ASSUME PoolAssumption ==
  /\ NumBlocks \in Nat \ {0}
  /\ NO_BLOCK_HASH \notin Hashes
  /\ NoContent \notin Contents

ASSUME OwnersAssumption == IsFiniteSet(Owners)

Block == 0 .. (NumBlocks - 1)
NoBlock == -1

VARIABLES
  pool,   (* the GpuBlockPool object                                        *)
  held    (* which blocks each owner holds one reference to                 *)

vars == <<pool, held>>

Pools ==
  [ref : [Block -> Nat],
   hash : [Block -> Hashes \cup {NO_BLOCK_HASH}],
   content : [Block -> Contents \cup {NoContent}],
   index : UNION {[H -> Block] : H \in SUBSET Hashes},   \* hash_to_block_id
   queue : Seq(Block),                                   \* free_block_ids
   free : SUBSET Block,                                  \* free_block_id_set
   used : SUBSET Block,                                  \* used_block_ids
   cached : Seq(Block),                                  \* cached_block_ids
   retain : BOOLEAN]                                     \* retain_hashes_on_free

EmptyPool(retains) ==
  [ref |-> [b \in Block |-> 0],
   hash |-> [b \in Block |-> NO_BLOCK_HASH],
   content |-> [b \in Block |-> NoContent],
   index |-> [h \in {} |-> 0],
   queue |-> [i \in 1 .. NumBlocks |-> i - 1],
   free |-> Block,
   used |-> {},
   cached |-> <<>>,
   retain |-> retains]

-----------------------------------------------------------------------------
(* Helpers on ordered dictionaries and partial functions.                  *)

Bind(f, x, v) == [y \in DOMAIN f \cup {x} |-> IF y = x THEN v ELSE f[y]]

-----------------------------------------------------------------------------
(* The methods of GpuBlockPool.  A Faulty_ definition is a plausible bug in  *)
(* the method that follows it; the specification never uses it, the mutation *)
(* runs put it in the method's place to see a property fail.                 *)

FreeCount(p) == Cardinality(p.free) + IF p.retain THEN Len(p.cached) ELSE 0

\* remove_hash_index: the entry goes only when it names this very block.
RemoveHashIndex(p, b) ==
  IF p.hash[b] \in DOMAIN p.index /\ p.index[p.hash[b]] = b
  THEN [p EXCEPT !.index = Restrict(@, DOMAIN @ \ {p.hash[b]})]
  ELSE p

Faulty_ClearHashKeepsIndex(p, b) ==
  [p EXCEPT !.hash[b] = NO_BLOCK_HASH, !.content[b] = NoContent]

ClearHash(p, b) ==
  [RemoveHashIndex(p, b) EXCEPT !.hash[b] = NO_BLOCK_HASH,
                                !.content[b] = NoContent]

\* allocate: the caller has checked that b is free.
Allocate(p, b) ==
  [ClearHash(p, b) EXCEPT !.ref[b] = 1,
                          !.free = @ \ {b},
                          !.used = @ \cup {b}]

Faulty_DeallocateForgetsQueue(p, b) ==
  [ClearHash(p, b) EXCEPT !.used = @ \ {b}, !.free = @ \cup {b}]

\* deallocate and the tail of _evict_oldest_cached: b returns to the free queue.
Deallocate(p, b) ==
  [ClearHash(p, b) EXCEPT !.used = @ \ {b},
                          !.free = @ \cup {b},
                          !.queue = Append(@, b)]

Faulty_EvictNewestCached(p) ==
  Deallocate([p EXCEPT !.cached = SubSeq(@, 1, Len(@) - 1)], p.cached[Len(p.cached)])

EvictOldestCached(p) ==
  Deallocate([p EXCEPT !.cached = Tail(@)], Head(p.cached))

\* Positions of the queue whose entry is not stale.
Live(p) == {i \in DOMAIN p.queue : p.queue[i] \in p.free}

CanAllocateFree(p) == Live(p) # {} \/ (p.retain /\ p.cached # <<>>)

Faulty_AllocateFreeWithoutStaleCheck(p) ==
  IF p.queue # <<>>
  THEN [block |-> Head(p.queue),
        pool |-> Allocate([p EXCEPT !.queue = Tail(@)], Head(p.queue))]
  ELSE [block |-> Head(p.cached),
        pool |-> Allocate(EvictOldestCached(p), Head(p.cached))]

Faulty_AllocateFreeKeepsEntry(p) ==
  IF Live(p) # {}
  THEN [block |-> p.queue[Min(Live(p))], pool |-> Allocate(p, p.queue[Min(Live(p))])]
  ELSE [block |-> Head(p.cached), pool |-> Allocate(EvictOldestCached(p), Head(p.cached))]

\* allocate_free: skip the stale queue entries; when the queue runs dry evict
\* the oldest cached block, whose new queue entry is stale from the start.
AllocateFree(p) ==
  IF Live(p) # {}
  THEN LET i == Min(Live(p))
       IN  [block |-> p.queue[i],
            pool |-> Allocate([p EXCEPT !.queue = SubSeq(@, i + 1, Len(@))],
                              p.queue[i])]
  ELSE LET b == Head(p.cached)
       IN  [block |-> b,
            pool |-> Allocate(EvictOldestCached([p EXCEPT !.queue = <<>>]), b)]

Faulty_RetainKeepsCached(p, b) == [p EXCEPT !.ref[b] = @ + 1]

\* retain: a block without references must be cached, and is revived.
RetainBlock(p, b) ==
  IF p.ref[b] = 0
  THEN [p EXCEPT !.ref[b] = 1, !.cached = Without(@, b)]
  ELSE [p EXCEPT !.ref[b] = @ + 1]

CanRetain(p, b) ==
  b \in p.used /\ (p.ref[b] = 0 => p.retain /\ b \in Range(p.cached))

Faulty_ReleaseTwice(p, b) ==
  LET q == [p EXCEPT !.ref[b] = @ - 2]
  IN  IF q.ref[b] # 0 THEN q ELSE Deallocate(q, b)

\* release_reference: the last owner parks a published block, frees another.
ReleaseReference(p, b) ==
  LET q == [p EXCEPT !.ref[b] = @ - 1]
  IN  IF q.ref[b] # 0 THEN q
      ELSE IF p.retain /\ q.hash[b] # NO_BLOCK_HASH
           THEN [q EXCEPT !.cached = Append(@, b)]
           ELSE Deallocate(q, b)

CanRelease(p, b) == b \in p.used /\ p.ref[b] > 0

\* register_hash: the last block published under a hash is the one found.
RegisterHash(p, b, h, c) ==
  LET q == RemoveHashIndex(p, b)
  IN  [q EXCEPT !.hash[b] = h,
                !.content[b] = c,
                !.index = IF h = NO_BLOCK_HASH THEN @ ELSE Bind(@, h, b)]

\* lookup: the stored tokens and media are compared, a hash may collide.
Lookup(p, h, c) ==
  IF h \in DOMAIN p.index /\ p.content[p.index[h]] = c
  THEN p.index[h]
  ELSE NoBlock

-----------------------------------------------------------------------------
(* The pool as its callers drive it.                                       *)

Init ==
  /\ pool \in {EmptyPool(retains) : retains \in BOOLEAN}
  /\ held = [o \in Owners |-> {}]

Take(o, b) == held' = [held EXCEPT ![o] = @ \cup {b}]

AllocateFreeBlock(o) ==
  /\ CanAllocateFree(pool)
  /\ pool' = AllocateFree(pool).pool
  /\ Take(o, AllocateFree(pool).block)

\* A prefix walk found the block through the hash index.
RetainLookup(o, h, c) ==
  /\ Lookup(pool, h, c) \notin held[o] \cup {NoBlock}
  /\ CanRetain(pool, Lookup(pool, h, c))
  /\ pool' = RetainBlock(pool, Lookup(pool, h, c))
  /\ Take(o, Lookup(pool, h, c))

\* A prefix-cache entry retains a page of a sequence, or the other way round.
RetainShared(o, b) ==
  /\ b \notin held[o]
  /\ \E q \in Owners : b \in held[q]
  /\ CanRetain(pool, b)
  /\ pool' = RetainBlock(pool, b)
  /\ Take(o, b)

Release(o, b) ==
  /\ b \in held[o]
  /\ CanRelease(pool, b)
  /\ pool' = ReleaseReference(pool, b)
  /\ held' = [held EXCEPT ![o] = @ \ {b}]

Publish(o, b, h, c) ==
  /\ b \in held[o]
  /\ CanRelease(pool, b)
  /\ pool' = RegisterHash(pool, b, h, c)
  /\ UNCHANGED held

\* Privatised, compacted and reused tail pages are unpublished before a write.
Unpublish(o, b) ==
  /\ b \in held[o]
  /\ pool' = ClearHash(pool, b)
  /\ UNCHANGED held

Next ==
  \E o \in Owners :
    \/ AllocateFreeBlock(o)
    \/ \E h \in Hashes, c \in Contents : RetainLookup(o, h, c)
    \/ \E b \in Block :
         \/ RetainShared(o, b)
         \/ Release(o, b)
         \/ Unpublish(o, b)
         \/ \E h \in Hashes, c \in Contents : Publish(o, b, h, c)

Spec == Init /\ [][Next]_vars

-----------------------------------------------------------------------------
(* Properties.  The parts of PoolOK speak of any pool, so that a module that  *)
(* composes pool operations can use them too.                                *)

\* Every block is either free or used, and a used block without a reference is
\* exactly a cached one.
BlocksPartitioned(p) ==
  /\ p.free \cap p.used = {}
  /\ p.free \cup p.used = Block
  /\ \A b \in Block : b \in Range(p.cached) <=> b \in p.used /\ p.ref[b] = 0
  /\ \A b \in p.free : p.ref[b] = 0

\* What the hash index names is a used block that still carries that hash.
IndexNamesHolder(p) ==
  \A h \in DOMAIN p.index : p.index[h] \in p.used /\ p.hash[p.index[h]] = h

\* Every free block has an entry in the lazily cleaned queue.
QueueCoversFree(p) == p.free \subseteq Range(p.queue)

\* Only published blocks are parked, each once, and only when the pool retains.
ParkedBlocksPublished(p) ==
  /\ IsInjective(p.cached)
  /\ \A b \in Range(p.cached) : p.hash[b] # NO_BLOCK_HASH
  /\ ~p.retain => p.cached = <<>>

PoolOK(p) ==
  /\ p \in Pools
  /\ BlocksPartitioned(p)
  /\ IndexNamesHolder(p)
  /\ QueueCoversFree(p)
  /\ ParkedBlocksPublished(p)

\* Shapes of the pool's fields and of the owners' tables.
TypeOK ==
  /\ pool \in Pools
  /\ held \in [Owners -> SUBSET Block]

\* No block leaks and none is handed out twice: free, cached and referenced
\* blocks are three disjoint classes that cover the pool.
Partition == BlocksPartitioned(pool)

\* ref_count is the number of owners whose table holds the block, whatever the
\* order of shares, releases, revivals and evictions.
RefCountsExact ==
  \A b \in Block : pool.ref[b] = Cardinality({o \in Owners : b \in held[o]})

\* What lookup can return still carries the hash it was published under, and
\* retaining it does not raise: a recycled block is never found under the hash
\* of its former content.
IndexSound ==
  \A h \in DOMAIN pool.index :
    pool.hash[pool.index[h]] = h /\ CanRetain(pool, pool.index[h])

\* free_count is positive exactly when allocate_free succeeds, so that
\* allocate_many(count) with count <= free_count never fails half way.
FreeCountHonest == FreeCount(pool) > 0 <=> CanAllocateFree(pool)

\* Lazy retention parks only published blocks, each once, and a pool that does
\* not retain parks nothing.
CachedBlocksPublished == ParkedBlocksPublished(pool)

\* Stale queue entries do not pile up: the lazily cleaned queue holds at most
\* one entry more than the pool has blocks.
QueueBounded == Len(pool.queue) <= NumBlocks + 1

\* release_reference by one of several owners leaves the block to the others:
\* it stays used and published as it was.
ReleaseKeepsSharedHash ==
  [][\A b \in Block :
       Cardinality({o \in Owners : b \in held[o]}) >= 2
         /\ (\E o \in Owners : b \in held[o] /\ b \notin held'[o])
       => pool'.hash[b] = pool.hash[b] /\ b \in pool'.used]_vars

\* Eviction is FIFO: a parked block that is younger than one still parked left
\* by revival, with its hash, not by eviction.
EvictsOldestFirst ==
  [][\A i, j \in DOMAIN pool.cached :
       i < j /\ pool.cached[i] \in Range(pool'.cached)
             /\ pool.cached[j] \notin Range(pool'.cached)
       => pool'.hash[pool.cached[j]] = pool.hash[pool.cached[j]]]_vars
=============================================================================
