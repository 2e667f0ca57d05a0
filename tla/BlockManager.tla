---------------------------- MODULE BlockManager ----------------------------
(***************************************************************************)
(* The KV-cache manager of prism_infer/engine/block_manager.py for text     *)
(* requests: prefix-cached allocation, append, publication of computed      *)
(* pages, copy-on-write and swapping, on top of the GPU pool and the CPU    *)
(* pool (class CpuBlockPool of block_pool.py).                              *)
(*                                                                         *)
(* An operation maps an engine snapshot s (a record with at least the       *)
(* fields pool, cpuFree and seqs) to the snapshot it leaves behind.         *)
(*                                                                         *)
(* A token is an element of Tokens.  compute_hash chains xxh64 over the     *)
(* whole prefix; here the hash of a page is the token prefix itself, so two *)
(* chains collide only when they are equal, and a chain that restarts from  *)
(* NO_BLOCK_HASH forgets its prefix just as compute_hash does.              *)
(***************************************************************************)
EXTENDS Integers, FiniteSets, Sequences, SequencesExt

CONSTANTS
  Requests,        (* request ids                                           *)
  Tokens,          (* token ids                                             *)
  Prompt,          (* Prompt[r]: the prompt of request r                    *)
  BlockSize,       (* kvcache_block_size                                    *)
  NumBlocks,       (* num_kvcache_blocks                                    *)
  Configs          (* the configurations an engine may be started with      *)

ASSUME ManagerAssumption ==
  /\ BlockSize \in Nat \ {0, 1}          \* SUPPORTED_KV_CACHE_PAGE_SIZES: 16 and more
  /\ NumBlocks \in Nat \ {0}
  /\ IsFiniteSet(Requests)
  /\ \A c \in Configs : c.cpuBlocks \in Nat /\ c.caching \in BOOLEAN /\ c.retain \in BOOLEAN
  /\ \A r \in Requests : Prompt[r] \in Seq(Tokens) \ {<<>>}

VARIABLES
  config,    (* the configuration of this engine, fixed at its start        *)
  pool,      (* the GpuBlockPool                                            *)
  cpuFree,   (* CpuBlockPool.free_block_ids                                 *)
  seqs       (* seqs[r]: the Sequence object of request r                   *)

NumCpuBlocks == config.cpuBlocks      \* num_cpu_blocks
PrefixCaching == config.caching       \* enable_prefix_caching
Retain == config.retain               \* block_level_mm_prefix, retain_hashes_on_free

CpuBlock == 0 .. (NumCpuBlocks - 1)

\* What a full page can be published under, and what it can hold.
PageHashes == {h \in Seq(Tokens) : Len(h) >= BlockSize}
PageContents == {c \in Seq(Tokens) : Len(c) = BlockSize}

Pool == INSTANCE GpuBlockPool
          WITH Hashes <- PageHashes,
               NO_BLOCK_HASH <- <<>>,
               Contents <- PageContents,
               NoContent <- <<>>,
               Owners <- Requests,
               held <- [r \in Requests |-> ToSet(seqs[r].table)]

\* A Sequence before submission.
NewSequence(r) ==
  [status |-> "new",
   tokens |-> Prompt[r],     \* token_ids
   cached |-> 0,             \* num_cached_tokens
   computed |-> 0,           \* num_computed_tokens
   table |-> <<>>,           \* block_table
   cpuTable |-> <<>>,        \* cpu_block_table
   cpuHashes |-> <<>>]       \* cpu_block_hashes (the tokens are its last page)

-----------------------------------------------------------------------------
(* Derived properties of a Sequence q.                                     *)

PromptLen(r) == Len(Prompt[r])
Pages(n) == (n + BlockSize - 1) \div BlockSize
NumPages(q) == Pages(Len(q.tokens))
CompletionLen(r, q) == Len(q.tokens) - PromptLen(r)

\* Sequence.block(i): the tokens of page i, counted from 0.
PageTokens(q, i) == SubSeq(q.tokens, i * BlockSize + 1, Min({(i + 1) * BlockSize, Len(q.tokens)}))

\* compute_hash
ComputeHash(tokens, prefix) == prefix \o tokens

\* The tokens that register_hash stored with a published page.
LastPage(h) == SubSeq(h, Len(h) - BlockSize + 1, Len(h))

\* _cached_prefix_length: full prompt pages, never the last one.
WalkPages(r) ==
  IF PromptLen(r) % BlockSize # 0 THEN PromptLen(r) \div BlockSize
  ELSE (PromptLen(r) \div BlockSize) - 1

CachedPrefixLength(s, r) ==
  LET hit(k) == \A i \in 0 .. k - 1 :
                  Pool!Lookup(s.pool, SubSeq(Prompt[r], 1, (i + 1) * BlockSize),
                              PageTokens(s.seqs[r], i)) # Pool!NoBlock
  IN  IF ~PrefixCaching THEN 0
      ELSE BlockSize * Max({k \in 0 .. WalkPages(r) : hit(k)})

\* cached_prefix_tokens: the candidate prefix of a waiting request; once allocated,
\* a request's candidate is what it shares.
CachedPrefixTokens(s, r) ==
  IF s.seqs[r].status = "waiting" /\ Retain THEN CachedPrefixLength(s, r) ELSE s.seqs[r].cached

\* effective_prefill_start
EffectivePrefillStart(s, r) ==
  Max({s.seqs[r].cached, s.seqs[r].computed, CachedPrefixTokens(s, r)})

-----------------------------------------------------------------------------
(* Allocation.                                                             *)

CanAllocate(s, r) == Pool!FreeCount(s.pool) >= NumPages(s.seqs[r])

Faulty_AllocatePageReusesAlignedTail(acc, r, q, i) ==
  LET toks == PageTokens(q, i)
      h == IF PrefixCaching /\ Len(toks) = BlockSize THEN ComputeHash(toks, acc.hash) ELSE <<>>
      hit == IF acc.miss THEN Pool!NoBlock ELSE Pool!Lookup(acc.pool, h, toks)
      fresh == Pool!AllocateFree(acc.pool)
  IN  IF hit = Pool!NoBlock
      THEN [pool |-> fresh.pool, table |-> Append(acc.table, fresh.block),
            cached |-> acc.cached, hash |-> h, miss |-> TRUE]
      ELSE [pool |-> Pool!RetainBlock(acc.pool, hit), table |-> Append(acc.table, hit),
            cached |-> acc.cached + BlockSize, hash |-> h, miss |-> FALSE]

\* One page of the loop in _allocate_dense: share a published page as long as
\* every earlier page was shared, else take a free one.
AllocatePage(acc, r, q, i) ==
  LET toks == PageTokens(q, i)
      h == IF PrefixCaching /\ Len(toks) = BlockSize THEN ComputeHash(toks, acc.hash) ELSE <<>>
      alignedLast == PromptLen(r) % BlockSize = 0 /\ i = NumPages(q) - 1
      hit == IF acc.miss \/ alignedLast THEN Pool!NoBlock ELSE Pool!Lookup(acc.pool, h, toks)
      fresh == Pool!AllocateFree(acc.pool)
  IN  IF hit = Pool!NoBlock
      THEN [pool |-> fresh.pool, table |-> Append(acc.table, fresh.block),
            cached |-> acc.cached, hash |-> h, miss |-> TRUE]
      ELSE [pool |-> Pool!RetainBlock(acc.pool, hit), table |-> Append(acc.table, hit),
            cached |-> acc.cached + BlockSize, hash |-> h, miss |-> FALSE]

\* allocate, _allocate_dense
AllocateDense(s, r) ==
  LET q == s.seqs[r]
      start == [pool |-> s.pool, table |-> <<>>, cached |-> q.cached, hash |-> <<>>, miss |-> FALSE]
      turn[i \in 0 .. NumPages(q)] ==
        IF i = 0 THEN start ELSE AllocatePage(turn[i - 1], r, q, i - 1)
      done == turn[NumPages(q)]
  IN  [s EXCEPT !.pool = done.pool,
                !.seqs[r] = [@ EXCEPT !.table = done.table, !.cached = done.cached]]

ReleasePages(p, table) ==
  LET turn[k \in 0 .. Len(table)] ==
        IF k = 0 THEN p ELSE Pool!ReleaseReference(turn[k - 1], table[k])
  IN  turn[Len(table)]

Faulty_DeallocateKeepsCpuPages(s, r) ==
  [s EXCEPT !.pool = ReleasePages(@, Reverse(s.seqs[r].table)),
            !.seqs[r] = [@ EXCEPT !.cached = 0, !.table = <<>>, !.cpuTable = <<>>,
                                  !.cpuHashes = <<>>]]

\* deallocate
DeallocateSequence(s, r) ==
  [s EXCEPT !.pool = ReleasePages(@, Reverse(s.seqs[r].table)),
            !.cpuFree = @ \o s.seqs[r].cpuTable,
            !.seqs[r] = [@ EXCEPT !.cached = 0, !.table = <<>>, !.cpuTable = <<>>,
                                  !.cpuHashes = <<>>]]

-----------------------------------------------------------------------------
(* Decode.                                                                 *)

NeedsPage(q) == Len(q.tokens) % BlockSize = 1

TailShared(s, q) == q.table # <<>> /\ s.pool.ref[Last(q.table)] > 1

CanAppend(s, r) ==
  LET q == s.seqs[r]
  IN  Pool!FreeCount(s.pool) >= IF NeedsPage(q) \/ TailShared(s, q) THEN 1 ELSE 0

\* may_append
MayAppend(s, r) ==
  LET fresh == Pool!AllocateFree(s.pool)
  IN  IF NeedsPage(s.seqs[r])
      THEN [s EXCEPT !.pool = fresh.pool, !.seqs[r].table = Append(@, fresh.block)]
      ELSE s

\* copy_on_write, called unless the append opens a page: <<source, copy>> or <<>>.
CopyOnWritePair(s, r) ==
  IF ~NeedsPage(s.seqs[r]) /\ TailShared(s, s.seqs[r])
  THEN <<Last(s.seqs[r].table), Pool!AllocateFree(s.pool).block>>
  ELSE <<>>

CopyOnWrite(s, r) ==
  LET pair == CopyOnWritePair(s, r)
  IN  IF pair = <<>> THEN s
      ELSE [s EXCEPT !.pool = Pool!ReleaseReference(Pool!AllocateFree(@).pool, pair[1]),
                     !.seqs[r].table = Append(Front(@), pair[2])]

Faulty_PublishPageAlone(p, q, i) ==
  Pool!RegisterHash(p, q.table[i + 1], PageTokens(q, i), PageTokens(q, i))

\* Page i joins the hash index; the chain continues the hash of the page before it.
PublishPage(p, q, i) ==
  LET chain == IF i = 0 THEN <<>> ELSE p.hash[q.table[i]]
  IN  Pool!RegisterHash(p, q.table[i + 1], ComputeHash(PageTokens(q, i), chain), PageTokens(q, i))

\* publish_computed_blocks: the pages that [tokenStart, tokenEnd) completed.
PublishComputedBlocks(s, r, tokenStart, tokenEnd) ==
  LET first == tokenStart \div BlockSize
      count == (tokenEnd \div BlockSize) - first
      turn[k \in 0 .. count] ==
        IF k = 0 THEN s.pool ELSE PublishPage(turn[k - 1], s.seqs[r], first + k - 1)
  IN  IF ~PrefixCaching \/ count <= 0 THEN s ELSE [s EXCEPT !.pool = turn[count]]

-----------------------------------------------------------------------------
(* Swapping.                                                               *)

CanSwapOut(s, r) == s.seqs[r].table # <<>> /\ Len(s.seqs[r].table) <= Len(s.cpuFree)

\* swap_out: pairs of GPU source and CPU destination.
SwapOutPairs(s, r) == [k \in DOMAIN s.seqs[r].table |-> <<s.seqs[r].table[k], s.cpuFree[k]>>]

SwapOut(s, r) ==
  LET table == s.seqs[r].table
  IN  [s EXCEPT !.pool = ReleasePages(@, table),
                !.cpuFree = SubSeq(@, Len(table) + 1, Len(@)),
                !.seqs[r] = [@ EXCEPT
                  !.cpuTable = SubSeq(s.cpuFree, 1, Len(table)),
                  !.cpuHashes = [k \in DOMAIN table |-> s.pool.hash[table[k]]],
                  !.table = <<>>]]

CanSwapIn(s, r) ==
  s.seqs[r].cpuTable # <<>> /\ Pool!FreeCount(s.pool) >= Len(s.seqs[r].cpuTable)

AllocateNext(acc) ==
  LET fresh == Pool!AllocateFree(acc.pool)
  IN  [pool |-> fresh.pool, table |-> Append(acc.table, fresh.block)]

AllocateMany(p, count) ==
  LET turn[k \in 0 .. count] ==
        IF k = 0 THEN [pool |-> p, table |-> <<>>] ELSE AllocateNext(turn[k - 1])
  IN  turn[count]

\* A page that was published when it was swapped out is published again.
RestorePage(p, b, h) == IF h = <<>> THEN p ELSE Pool!RegisterHash(p, b, h, LastPage(h))

\* swap_in: fresh pages take over the saved hashes before their data arrives.
SwapIn(s, r) ==
  LET q == s.seqs[r]
      fresh == AllocateMany(s.pool, Len(q.cpuTable))
      turn[k \in 0 .. Len(q.cpuTable)] ==
        IF k = 0 THEN fresh.pool
        ELSE RestorePage(turn[k - 1], fresh.table[k], q.cpuHashes[k])
  IN  [s EXCEPT !.pool = turn[Len(q.cpuTable)],
                !.cpuFree = @ \o q.cpuTable,
                !.seqs[r] = [@ EXCEPT !.table = fresh.table, !.cpuTable = <<>>, !.cpuHashes = <<>>]]

\* swap_in's map: CPU source and GPU destination.
SwapInPairs(before, after, r) ==
  [k \in DOMAIN before.seqs[r].cpuTable |->
     <<before.seqs[r].cpuTable[k], after.seqs[r].table[k]>>]
=============================================================================
