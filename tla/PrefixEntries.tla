---------------------------- MODULE PrefixEntries ----------------------------
(***************************************************************************)
(* The multimodal prefix-cache entries of block_manager.py, the physical    *)
(* compaction of visual KV (kv_compaction_coordinator.py, kv_layout.py) and *)
(* the order in which ModelExecutor copies, runs, compacts and stores.      *)
(*                                                                         *)
(* An entry keeps the pages of a prompt prefix that ends with its media.    *)
(* Its last page may be partly filled: a request that hits the entry writes *)
(* to a copy of that page, and the entry keeps idle copies (tail clones).   *)
(* In block-level mode (Retain) media pages are dense and also join the     *)
(* hash index; otherwise the rows of pruned positions are squeezed out once *)
(* the media have been computed.                                            *)
(*                                                                         *)
(* As in Scheduler, a KV row is the token prefix it was computed for.  A    *)
(* media token carries the identity of its image.  Which requests a plan    *)
(* takes is left open here: any that the manager has room for.              *)
(***************************************************************************)
EXTENDS BlockManager

CONSTANTS
  Media,        (* the tokens that stand for image placeholders             *)
  MaxTokens     (* completion tokens of every request                       *)

\* What the model assumes of its constants.
EntriesAssumption ==
  /\ Media \subseteq Tokens /\ MaxTokens \in Nat
  /\ \A c \in Configs : c.chunked \in BOOLEAN /\ c.clients \subseteq Requests

Chunked == config.chunked      \* enable_chunked_prefill: a slice ends at the media

VARIABLES
  cache,      (* _multimodal_prefix_cache, in its order                     *)
  resident,   (* _multimodal_prefix_cache_blocks                            *)
  kv,         (* the rows of every GPU page                                 *)
  plan,       (* the batch being planned: phase and [req, first, last]      *)
  copies,     (* its copy_prefix and copy_on_write pairs: [src, dst, rows]  *)
  fault       (* the RuntimeError that ended the engine                     *)

vars == <<config, pool, cpuFree, seqs, cache, resident, kv, plan, copies, fault>>

NoPlan == [phase |-> "none", slices |-> <<>>]
Unwritten == <<>>

Engine == [pool |-> pool, cpuFree |-> cpuFree, seqs |-> seqs, cache |-> cache,
           resident |-> resident, copies |-> copies, fault |-> fault]

Become(s) ==
  /\ pool' = s.pool /\ cpuFree' = s.cpuFree /\ seqs' = s.seqs /\ cache' = s.cache
  /\ resident' = s.resident /\ copies' = s.copies /\ fault' = s.fault

Raise(s, error) == IF s.fault = "none" THEN [s EXCEPT !.fault = error] ELSE s

-----------------------------------------------------------------------------
(* Prompts with media.                                                     *)

MediaAt(r) == {i \in 1 .. PromptLen(r) : Prompt[r][i] \in Media}
IsMultimodal(r) == MediaAt(r) # {}

\* multimodal_prefix_boundary: the strict prefix that ends with the last placeholder.
Boundary(r) ==
  IF IsMultimodal(r) /\ Max(MediaAt(r)) < PromptLen(r) THEN Max(MediaAt(r)) ELSE 0

\* _hashable_sequence
Hashable(r) == IsMultimodal(r) => Retain

\* _snap_to_image_boundary: a shared prefix never ends inside an image.
Snap(r, n) ==
  LET inside == {i \in 1 .. n : \A j \in i .. n + 1 : Prompt[r][j] = Prompt[r][n]}
  IN  IF n \in MediaAt(r) /\ inside # {} THEN Min(inside) - 1 ELSE n

\* The positions that pruning retains: text, and the first placeholder of each image.
\* External: the scores behind the decision are numeric.
Retained(tokens) ==
  SelectSeq([i \in DOMAIN tokens |-> i],
            LAMBDA i : tokens[i] \notin Media \/ i = 1 \/ tokens[i - 1] # tokens[i])

\* The layout of a Sequence: which positions its first rows hold (kept), and how long
\* a prefix they stand for (upto).  Without compaction both are empty.
Dense == [kept |-> <<>>, upto |-> 0]

\* Row number (from 0) of position i, and physical_kv_len for n logical positions.
RowOf(q, i) ==
  IF i > q.layout.upto THEN Len(q.layout.kept) + i - q.layout.upto - 1
  ELSE (CHOOSE k \in DOMAIN q.layout.kept : q.layout.kept[k] = i) - 1

PhysicalLen(q, n) == Len(q.layout.kept) + n - q.layout.upto

\* The positions among the first n that have a row.
Visible(q, n) == ToSet(q.layout.kept) \cup (q.layout.upto + 1) .. n

PageOf(q, i) == q.table[RowOf(q, i) \div BlockSize + 1]

Holds(rows, q, n) ==
  \A i \in Visible(q, n) : rows[PageOf(q, i)][RowOf(q, i) % BlockSize] = SubSeq(q.tokens, 1, i)

-----------------------------------------------------------------------------
(* Entries and their eviction.                                             *)

EntryId(r) == SubSeq(Prompt[r], 1, Boundary(r))

\* _matching_multimodal_prefix, as a place in the cache; 0 is a miss.
Matching(s, r) ==
  Max({0} \cup {i \in DOMAIN s.cache :
                  PrefixCaching /\ Boundary(r) # 0 /\ s.cache[i].id = EntryId(r)})

EntryPages(e) == e.blocks \o e.clones

\* benefit_per_block and the utility of a candidate, as fractions.
Benefit(e) == <<Len(e.id) * (1 + e.hits), Len(EntryPages(e))>>
Less(a, b) == a[1] * b[2] < b[1] * a[2]

\* The entries an operation may evict: all but the one it uses.
Evictable(s, id) == {i \in DOMAIN s.cache : s.cache[i].id # id}

\* _eviction_candidate: least benefit, oldest first.
EvictionCandidate(s, id) ==
  CHOOSE i \in Evictable(s, id) : \A j \in Evictable(s, id) \ {i} :
    \/ Less(Benefit(s.cache[i]), Benefit(s.cache[j]))
    \/ (i < j /\ ~Less(Benefit(s.cache[j]), Benefit(s.cache[i])))

\* _evict_multimodal_prefix
EvictEntry(s, i) ==
  [s EXCEPT !.pool = ReleasePages(@, EntryPages(s.cache[i])),
            !.cache = RemoveAt(@, i),
            !.resident = @ - Len(EntryPages(s.cache[i]))]

\* Clones that no sequence uses, as <<entry, clone>> places.
IdleClones(s, among) ==
  {<<i, k>> \in among \X (1 .. NumBlocks) :
     k \in DOMAIN s.cache[i].clones /\ s.pool.ref[s.cache[i].clones[k]] = 1}

FirstOf(places) ==
  CHOOSE p \in places : \A x \in places : p[1] < x[1] \/ (p[1] = x[1] /\ p[2] <= x[2])

DropClone(s, place) ==
  [s EXCEPT !.pool = Pool!ReleaseReference(@, s.cache[place[1]].clones[place[2]]),
            !.cache[place[1]].clones = RemoveAt(@, place[2]),
            !.resident = @ - 1]

\* _drop_idle_tail_clone, else one eviction.
Reclaim(s, id) ==
  IF IdleClones(s, Evictable(s, id)) # {} THEN DropClone(s, FirstOf(IdleClones(s, Evictable(s, id))))
  ELSE IF Evictable(s, id) # {} THEN EvictEntry(s, EvictionCandidate(s, id))
  ELSE s

ReclaimUntil(s, n, id) ==
  FoldLeft(LAMBDA acc, k : IF Pool!FreeCount(acc.pool) >= n THEN acc ELSE Reclaim(acc, id),
           s, [k \in 1 .. s.resident |-> k])

RaiseIfShort(s, n) == IF Pool!FreeCount(s.pool) >= n THEN s ELSE Raise(s, "insufficient")

Faulty_EnsureFreeUnprotected(s, n, id) == RaiseIfShort(ReclaimUntil(s, n, <<>>), n)

\* _ensure_free_blocks: each turn of its loop reclaims at least one resident page.
EnsureFree(s, n, id) == RaiseIfShort(ReclaimUntil(s, n, id), n)

CachePages(s, id) ==
  FoldLeft(LAMBDA acc, i : acc \o EntryPages(s.cache[i]), <<>>, SetToSeq(Evictable(s, id)))

Occurrences(pages, b) == Cardinality({k \in DOMAIN pages : pages[k] = b})

\* _reclaimable_cache_blocks: pages that only evictable entries hold.
Reclaimable(s, id) ==
  Cardinality({b \in ToSet(CachePages(s, id)) : s.pool.ref[b] = Occurrences(CachePages(s, id), b)})

-----------------------------------------------------------------------------
(* Allocation.                                                             *)

TailRows(e) == Len(e.phys) % BlockSize

HitPages(r, e) == Pages(Len(e.phys) + PromptLen(r) - Len(e.id))

IdleTail(s, i) == {k \in DOMAIN s.cache[i].clones : s.pool.ref[s.cache[i].clones[k]] = 1}

\* _required_free_blocks_for_prefix_hit
HitNeeds(s, r, i) ==
  HitPages(r, s.cache[i]) - Len(s.cache[i].blocks)
    + IF TailRows(s.cache[i]) # 0 /\ IdleTail(s, i) = {} THEN 1 ELSE 0

Needs(s, r) == IF Matching(s, r) = 0 THEN NumPages(s.seqs[r]) ELSE HitNeeds(s, r, Matching(s, r))

MatchedId(s, r) == IF Matching(s, r) = 0 THEN <<>> ELSE EntryId(r)

HasRoom(s, r) == Pool!FreeCount(s.pool) + Reclaimable(s, MatchedId(s, r)) >= Needs(s, r)

Extend(s, r, fresh) == [s EXCEPT !.pool = fresh.pool, !.seqs[r].table = @ \o fresh.table]

TakeFree(s, r, count) ==
  IF Pool!FreeCount(s.pool) >= count THEN Extend(s, r, AllocateMany(s.pool, count))
  ELSE Raise(s, "insufficient")

\* Page number i (from 0) of r becomes a copy of its first rows.
ReplacePage(s, r, i, rows, fresh) ==
  [s EXCEPT !.pool = Pool!ReleaseReference(fresh.pool, s.seqs[r].table[i + 1]),
            !.seqs[r].table[i + 1] = fresh.block,
            !.copies = @ \o IF rows = 0 THEN <<>>
                            ELSE <<[src |-> s.seqs[r].table[i + 1], dst |-> fresh.block, rows |-> rows]>>]

CopyPage(s, r, i, rows) == ReplacePage(s, r, i, rows, Pool!AllocateFree(s.pool))

\* _privatize_block
Privatize(s, r, i, rows) ==
  IF s.pool.ref[s.seqs[r].table[i + 1]] <= 1
  THEN [s EXCEPT !.pool = Pool!ClearHash(@, s.seqs[r].table[i + 1])]
  ELSE CopyPage(EnsureFree(s, 1, <<>>), r, i, rows)

\* A shared prefix that ends inside an image is cut back to before it; the pages to be
\* computed again become private.
CutBack(s, r, cached, snapped) ==
  [FoldLeft(LAMBDA acc, i : Privatize(acc, r, i - 1, Max({0, snapped - (i - 1) * BlockSize})), s,
            [k \in 1 .. (cached \div BlockSize) - (snapped \div BlockSize) |-> snapped \div BlockSize + k])
     EXCEPT !.seqs[r].cached = snapped]

SnapBack(s, r) ==
  IF Snap(r, s.seqs[r].cached) = s.seqs[r].cached THEN s
  ELSE CutBack(s, r, s.seqs[r].cached, Snap(r, s.seqs[r].cached))

\* _allocate_dense: shared pages from the hash index, then free ones.
ColdPages(s, r) == IF Hashable(r) THEN AllocateDense(s, r) ELSE TakeFree(s, r, NumPages(s.seqs[r]))

AllocateCold(s, r) == SnapBack(ColdPages(EnsureFree(s, NumPages(s.seqs[r]), <<>>), r), r)

Faulty_TakeTailShares(s, r, i) ==
  [s EXCEPT !.pool = Pool!RetainBlock(@, Last(s.cache[i].blocks)),
            !.seqs[r].table = Append(@, Last(s.cache[i].blocks))]

\* An idle clone, written by an earlier request behind the rows of the prefix.
ReuseClone(s, r, idle) ==
  [s EXCEPT !.pool = IF Retain THEN Pool!ClearHash(Pool!RetainBlock(@, idle), idle)
                     ELSE Pool!RetainBlock(@, idle),
            !.seqs[r].table = Append(@, idle)]

\* A copy, which becomes a clone while the cache is below its capacity.
CloneTail(s, r, i, fresh) ==
  LET kept == s.resident < NumBlocks
  IN  [s EXCEPT !.pool = IF kept THEN Pool!RetainBlock(fresh.pool, fresh.block) ELSE fresh.pool,
                !.seqs[r].table = Append(@, fresh.block),
                !.copies = Append(@, [src |-> Last(s.cache[i].blocks), dst |-> fresh.block,
                                      rows |-> TailRows(s.cache[i])]),
                !.cache[i].clones = IF kept THEN Append(@, fresh.block) ELSE @,
                !.resident = IF kept THEN @ + 1 ELSE @]

\* The partly filled last page of entry i.
TakeTail(s, r, i) ==
  IF IdleTail(s, i) # {} THEN ReuseClone(s, r, s.cache[i].clones[Min(IdleTail(s, i))])
  ELSE IF Pool!CanAllocateFree(s.pool) THEN CloneTail(s, r, i, Pool!AllocateFree(s.pool))
  ELSE Raise(s, "insufficient")

SharePages(s, r, pages) ==
  [s EXCEPT !.pool = FoldLeft(Pool!RetainBlock, @, pages), !.seqs[r].table = @ \o pages]

SharePrefix(s, r, i) ==
  IF TailRows(s.cache[i]) = 0 THEN SharePages(s, r, s.cache[i].blocks)
  ELSE TakeTail(SharePages(s, r, Front(s.cache[i].blocks)), r, i)

TakeSuffix(s, r, e) == TakeFree(s, r, HitPages(r, e) - Len(s.seqs[r].table))

\* The end of _allocate_multimodal_prefix_hit and _allocate_dense_entry_hit; only the
\* former installs the entry's layout.
UseEntry(s, r, i, e) ==
  [s EXCEPT !.seqs[r].cached = Len(e.id),
            !.seqs[r].computed = Len(e.id),
            !.seqs[r].hit = TRUE,
            !.seqs[r].layout = IF Retain THEN Dense ELSE [kept |-> e.phys, upto |-> Len(e.id)],
            !.cache = Append(RemoveAt(@, i), [@[i] EXCEPT !.hits = @ + 1])]

HitEntry(s, r, i) == UseEntry(TakeSuffix(SharePrefix(s, r, i), r, s.cache[i]), r, i, s.cache[i])

\* The pages of an entry that is gone cannot be retained: GpuBlockPool.retain raises.
HitIfKept(s, r) == IF Matching(s, r) = 0 THEN Raise(s, "retain") ELSE HitEntry(s, r, Matching(s, r))

AllocateHit(s, r) == HitIfKept(EnsureFree(s, HitNeeds(s, r, Matching(s, r)), EntryId(r)), r)

\* allocate, for a request that can_allocate accepted.
AllocateSequence(s, r) == 
  IF Matching(s, r) = 0 THEN AllocateCold(s, r) ELSE AllocateHit(s, r)

ReleaseSequence(s, r) ==
  [DeallocateSequence(s, r) EXCEPT !.seqs[r].layout = Dense, !.seqs[r].hit = FALSE]

-----------------------------------------------------------------------------
(* Decode.                                                                 *)

OpensPage(q) == PhysicalLen(q, Len(q.tokens)) % BlockSize = 1

\* Does the entry that r matches hold the last page of r?
CacheOwnsTail(s, r) ==
  /\ Matching(s, r) # 0
  /\ Last(s.seqs[r].table) \in ToSet(EntryPages(s.cache[Matching(s, r)]))

\* can_append
AppendNeeds(s, r) ==
  LET q == s.seqs[r]
  IN  IF OpensPage(q) THEN 1
      ELSE IF ~TailShared(s, q) \/ (CacheOwnsTail(s, r) /\ s.pool.ref[Last(q.table)] = 2) THEN 0
      ELSE 1

HasRoomToAppend(s, r) == Pool!FreeCount(s.pool) + Reclaimable(s, <<>>) >= AppendNeeds(s, r)

\* The last step of copy_on_write.
CopyTail(s, r) ==
  IF TailShared(s, s.seqs[r]) THEN CopyPage(s, r, Len(s.seqs[r].table) - 1, BlockSize) ELSE s

EnsureForShared(s, r) == IF TailShared(s, s.seqs[r]) THEN EnsureFree(s, 1, <<>>) ELSE s

\* When every other entry is gone and there is still no room, r's own entry goes, which
\* may leave the tail to r alone.
RoomForTail(s, r) ==
  IF Pool!FreeCount(s.pool) >= 1 THEN s
  ELSE IF CacheOwnsTail(s, r) THEN EnsureForShared(EvictEntry(s, Matching(s, r)), r)
  ELSE Raise(s, "insufficient")

\* copy_on_write
PrivateTail(s, r) ==
  IF TailShared(s, s.seqs[r])
  THEN CopyTail(RoomForTail(ReclaimUntil(s, 1, MatchedId(s, r)), r), r)
  ELSE s

\* may_append or copy_on_write, as the decode planner calls them.
AppendSlot(s, r) ==
  IF OpensPage(s.seqs[r]) THEN TakeFree(EnsureFree(s, 1, <<>>), r, 1) ELSE PrivateTail(s, r)

-----------------------------------------------------------------------------
(* Visual KV compaction.                                                   *)

Layout(r, q) ==
  [kept |-> SelectSeq(Retained(Prompt[r]), LAMBDA i : i <= q.computed), upto |-> q.computed]

\* _commit_visual_compaction compacts a prompt once: when its prefill is complete, or
\* at the media boundary of a cacheable prompt.
Compactable(s, r) ==
  /\ ~Retain /\ IsMultimodal(r) /\ s.seqs[r].layout = Dense
  /\ \/ s.seqs[r].computed = PromptLen(r)
     \/ PrefixCaching /\ s.seqs[r].computed = Boundary(r)

\* The checks of build_plan.
MayCompact(s, r) ==
  LET q == s.seqs[r]
  IN  /\ Len(q.tokens) = PromptLen(r)
      /\ q.cached = 0
      /\ Len(q.table) = NumPages(q)
      /\ \A b \in ToSet(q.table) : s.pool.ref[b] = 1

\* new_block_table: what the squeezed rows and the rest of the prompt need.
CompactedTable(r, q) ==
  SubSeq(q.table, 1, Pages(Len(Layout(r, q).kept) + PromptLen(r) - q.computed))

\* compact_kv_cache: gather the retained rows, then scatter them.
CompactRows(rows, r, q) ==
  LET kept == Layout(r, q).kept
      at(k) == q.table[(k - 1) \div BlockSize + 1]
      from(k) == rows[PageOf(q, kept[k])][RowOf(q, kept[k]) % BlockSize]
      moved(b, i) == {k \in DOMAIN kept : at(k) = b /\ (k - 1) % BlockSize = i}
  IN  [b \in DOMAIN rows |-> [i \in DOMAIN rows[b] |->
         IF moved(b, i) = {} THEN rows[b][i] ELSE from(CHOOSE k \in moved(b, i) : TRUE)]]

Compacted(s, r, q, new, plain) ==
  [s EXCEPT !.pool = ReleasePages(plain, SubSeq(q.table, Len(new) + 1, Len(q.table))),
            !.seqs[r].table = new, !.seqs[r].layout = Layout(r, q)]

\* KVCompactionCoordinator.commit
CommitCompaction(s, r) ==
  Compacted(s, r, s.seqs[r], CompactedTable(r, s.seqs[r]),
            FoldLeft(Pool!ClearHash, s.pool, CompactedTable(r, s.seqs[r])))

\* One compaction, of the snapshot and of the rows.
CompactOne(acc, r) ==
  IF ~Compactable(acc.s, r) \/ acc.s.fault # "none" THEN acc
  ELSE IF ~MayCompact(acc.s, r) THEN [acc EXCEPT !.s = Raise(@, "compaction")]
  ELSE [s |-> CommitCompaction(acc.s, r), rows |-> CompactRows(acc.rows, r, acc.s.seqs[r])]

-----------------------------------------------------------------------------
(* Storing an entry.                                                       *)

\* retained_positions of the prefix: those of the layout, or all in block-level mode.
StoredPositions(s, r) ==
  LET kept == s.seqs[r].layout.kept
  IN  IF s.seqs[r].layout # Dense THEN SelectSeq(kept, LAMBDA i : i <= Boundary(r))
      ELSE IF Retain THEN [i \in 1 .. Boundary(r) |-> i]
      ELSE <<>>

NewEntry(s, r) ==
  [id |-> EntryId(r), phys |-> StoredPositions(s, r),
   blocks |-> SubSeq(s.seqs[r].table, 1, Pages(Len(StoredPositions(s, r)))),
   clones |-> <<>>, hits |-> 0]

\* One turn of the admission loop: make room, or reject what is worth less than the victim.
MakeRoomFor(s, e) ==
  LET victim == EvictionCandidate(s, <<>>)
  IN  IF s.resident + Len(e.blocks) <= NumBlocks THEN s
      ELSE IF IdleClones(s, DOMAIN s.cache) # {} THEN DropClone(s, FirstOf(IdleClones(s, DOMAIN s.cache)))
      ELSE IF s.cache = <<>> \/ ~Less(Benefit(s.cache[victim]), <<Len(e.id), Len(e.blocks)>>) THEN s
      ELSE EvictEntry(s, victim)

Admit(s, e) ==
  [s EXCEPT !.pool = FoldLeft(Pool!RetainBlock, @, e.blocks),
            !.cache = Append(@, e),
            !.resident = @ + Len(e.blocks)]

MakeRoom(s, e) == FoldLeft(LAMBDA acc, k : MakeRoomFor(acc, e), s, [k \in 1 .. s.resident |-> k])

AdmitIfRoom(s, e) == IF s.resident + Len(e.blocks) <= NumBlocks THEN Admit(s, e) ELSE s

\* The test of the executor, then store_multimodal_prefix.
StoreEntry(s, r) ==
  IF \/ s.seqs[r].hit \/ s.seqs[r].computed < PromptLen(r) \/ (~Retain /\ s.seqs[r].layout = Dense)
     \/ ~PrefixCaching \/ Boundary(r) = 0 THEN s
  ELSE IF Len(s.seqs[r].tokens) # PromptLen(r) THEN Raise(s, "store")
  ELSE IF Matching(s, r) # 0
  THEN [s EXCEPT !.cache = Append(RemoveAt(@, Matching(s, r)), @[Matching(s, r)])]
  ELSE AdmitIfRoom(MakeRoom(s, NewEntry(s, r)), NewEntry(s, r))

-----------------------------------------------------------------------------
(* The executor and the planner's calls.                                   *)

Init ==
  /\ config \in Configs
  /\ pool = Pool!EmptyPool(Retain)
  /\ cpuFree = <<>>
  /\ seqs = [r \in Requests |->
       [status |-> IF r \in config.clients THEN "waiting" ELSE "done",
        tokens |-> Prompt[r], cached |-> 0, computed |-> 0, table |-> <<>>,
        cpuTable |-> <<>>, cpuHashes |-> <<>>, layout |-> Dense, hit |-> FALSE]]
  /\ cache = <<>> /\ resident = 0
  /\ kv = [b \in 0 .. NumBlocks - 1 |-> [i \in 0 .. BlockSize - 1 |-> Unwritten]]
  /\ plan = NoPlan /\ copies = <<>> /\ fault = "none"

Members == {plan.slices[k].req : k \in DOMAIN plan.slices}

Joins(r, phase) ==
  /\ fault = "none" /\ r \notin Members /\ plan.phase \in {"none", phase}

\* prefill_token_count: a slice never splits the media, and ends with them while the
\* prompt is neither compacted nor past them.
SliceEnds(r, q, first) ==
  LET media == MediaAt(r)
      whole(last) == media # {} /\ last >= Min(media) => last >= Max(media)
      stops(last) == PrefixCaching /\ q.layout = Dense /\ first < Boundary(r) => last <= Boundary(r)
  IN  IF Chunked THEN {last \in first + 1 .. PromptLen(r) : whole(last) /\ stops(last)}
      ELSE {PromptLen(r)}

Take(s, r, phase, slice) ==
  /\ Become(s)
  /\ plan' = [phase |-> phase, slices |-> Append(plan.slices, slice)]
  /\ UNCHANGED kv

\* _allocate_waiting_prefill raises when the cache leaves no token to compute.
RequireTail(s, r) == IF s.seqs[r].cached < PromptLen(r) THEN s ELSE Raise(s, "fully cached")

\* A waiting request is given pages and its first slice.
AdmitPrefill(r) ==
  /\ Joins(r, "prefill") /\ seqs[r].status = "waiting" /\ HasRoom(Engine, r)
  /\ \E s \in {RequireTail(AllocateSequence(Engine, r), r)} :
     \E first \in {Max({s.seqs[r].cached, s.seqs[r].computed})} :
     \E last \in SliceEnds(r, s.seqs[r], first) :
       Take([s EXCEPT !.seqs[r].status = "prefilling"], r, "prefill",
            [req |-> r, first |-> first, last |-> last])

\* A chunked prefill goes on.
ContinuePrefill(r) ==
  /\ Joins(r, "prefill") /\ seqs[r].status = "prefilling"
  /\ \E last \in SliceEnds(r, seqs[r], seqs[r].computed) :
       Take(Engine, r, "prefill", [req |-> r, first |-> seqs[r].computed, last |-> last])

\* A decoding request gets the slot of its last token.
TakeDecodeTurn(r) ==
  /\ Joins(r, "decode") /\ seqs[r].status = "decoding" /\ HasRoomToAppend(Engine, r)
  /\ Take(AppendSlot(Engine, r), r, "decode",
          [req |-> r, first |-> Len(seqs[r].tokens) - 1, last |-> Len(seqs[r].tokens)])

\* cancel
Leave(r) ==
  /\ plan = NoPlan /\ fault = "none" /\ seqs[r].status \in {"prefilling", "decoding"}
  /\ Become([ReleaseSequence(Engine, r) EXCEPT !.seqs[r].status = "done", !.seqs[r].computed = 0])
  /\ UNCHANGED <<kv, plan>>

\* copy_prefix and copy_on_write, the first rows of each page.
CopyRows(rows) ==
  FoldLeft(LAMBDA acc, c : [acc EXCEPT ![c.dst] = [i \in DOMAIN acc[c.dst] |->
                              IF i < c.rows THEN acc[c.src][i] ELSE acc[c.dst][i]]], rows, copies)

\* run_plan: the rows of a slice, right if the rows it attends to are.
WriteSlice(rows, slice) ==
  LET q == seqs[slice.req]
      value(i) == IF Holds(rows, q, slice.first) THEN SubSeq(q.tokens, 1, i) ELSE Unwritten
      written(b, k) == {i \in slice.first + 1 .. slice.last : PageOf(q, i) = b /\ RowOf(q, i) % BlockSize = k}
  IN  [b \in DOMAIN rows |-> [k \in DOMAIN rows[b] |->
         IF written(b, k) = {} THEN rows[b][k] ELSE value(CHOOSE i \in written(b, k) : TRUE)]]

CommitPrefill(s) ==
  FoldLeft(LAMBDA acc, x : IF plan.phase = "prefill" THEN [acc EXCEPT !.seqs[x.req].computed = x.last] ELSE acc,
           s, plan.slices)

PlanRequests == [k \in DOMAIN plan.slices |-> plan.slices[k].req]

\* _commit_visual_compaction: first every compaction, then every store.
StoreAll(acc) == [acc EXCEPT !.s = FoldLeft(StoreEntry, @, PlanRequests)]

CompactAndStore(s, rows) ==
  IF plan.phase # "prefill" THEN [s |-> s, rows |-> rows]
  ELSE StoreAll(FoldLeft(CompactOne, [s |-> s, rows |-> rows], PlanRequests))

\* publish_computed_blocks, for dense sequences whose pages may join the index.
Publish(s, x) ==
  IF s.seqs[x.req].layout # Dense \/ ~Hashable(x.req) THEN s
  ELSE PublishComputedBlocks(s, x.req, x.first, x.last)

Sample(s, r) ==
  IF s.seqs[r].computed < PromptLen(r) THEN s
  ELSE IF CompletionLen(r, s.seqs[r]) + 1 = MaxTokens
  THEN [ReleaseSequence(s, r) EXCEPT !.seqs[r].status = "done", !.seqs[r].computed = 0]
  ELSE [s EXCEPT !.seqs[r].status = "decoding", !.seqs[r].tokens = Append(@, Min(Tokens))]

Postprocess(s, x) == Sample(Publish(s, x), x.req)

\* Rows of free pages that nothing can look up are never read again.
ForgetFree(rows, p) ==
  [b \in DOMAIN rows |-> IF b \in p.used \cup ToSet(p.cached) THEN rows[b]
                         ELSE [i \in DOMAIN rows[b] |-> Unwritten]]

\* Executor.execute and Scheduler.postprocess.
Execute ==
  /\ plan # NoPlan /\ fault = "none"
  /\ \E done \in {CompactAndStore(CommitPrefill([Engine EXCEPT !.copies = <<>>]),
                                  FoldLeft(WriteSlice, CopyRows(kv), plan.slices))} :
     \E s \in {IF done.s.fault # "none" THEN done.s ELSE FoldLeft(Postprocess, done.s, plan.slices)} :
       Become(s) /\ kv' = ForgetFree(done.rows, s.pool)
  /\ plan' = NoPlan

Rest ==
  /\ fault # "none" \/ \A r \in Requests : seqs[r].status = "done"
  /\ UNCHANGED <<pool, cpuFree, seqs, cache, resident, kv, plan, copies, fault>>

Next ==
  /\ \/ \E r \in Requests : AdmitPrefill(r) \/ ContinuePrefill(r) \/ TakeDecodeTurn(r) \/ Leave(r)
     \/ Execute
     \/ Rest
  /\ UNCHANGED config

Spec == Init /\ [][Next]_vars

-----------------------------------------------------------------------------
(* Properties.                                                             *)

\* Positions whose rows a request relies on between two steps.
ComputedRows(q) == IF q.status = "decoding" THEN Len(q.tokens) - 1 ELSE q.computed

\* What an entry offers: its rows, in its pages or with the tail in a clone.
EntryHolds(e) ==
  \A k \in DOMAIN e.phys :
    LET page == (k - 1) \div BlockSize + 1
        tails == IF page = Len(e.blocks) THEN ToSet(e.clones) ELSE {}
    IN  \A b \in {e.blocks[page]} \cup tails : kv[b][(k - 1) % BlockSize] = SubSeq(e.id, 1, e.phys[k])

\* The index offers pages that hold the rows of the whole prefix they are found under.
IndexHolds ==
  \A h \in DOMAIN pool.index : \A i \in 0 .. BlockSize - 1 :
    kv[pool.index[h]][i] = SubSeq(h, 1, Len(h) - BlockSize + i + 1)

\* Between two steps every row that a running request, a cached entry, an idle tail clone
\* or the hash index offers is the right one: hits, evictions that make room for them,
\* page copies, compaction and cut-back prefixes never leave stale or foreign rows behind.
RowsIntact ==
  plan = NoPlan /\ fault = "none" =>
    /\ \A r \in Requests : seqs[r].status \in {"prefilling", "decoding"}
                           => Holds(kv, seqs[r], ComputedRows(seqs[r]))
    /\ \A i \in DOMAIN cache : EntryHolds(cache[i])
    /\ IndexHolds

\* Each page counts the tables, entries and clones that name it, the cache's page
\* counter is the sum over its entries and within its capacity, and no operation
\* raises for want of the pages its admission test promised.
CountsExact ==
  /\ fault = "none"
  /\ resident = Len(CachePages(Engine, <<>>)) /\ resident <= NumBlocks
  /\ \A b \in Pool!Block :
       pool.ref[b] = Cardinality({r \in Requests : b \in ToSet(seqs[r].table)})
                     + Occurrences(CachePages(Engine, <<>>), b)
=============================================================================
