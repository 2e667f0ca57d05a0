----------------------------- MODULE ModelRunner -----------------------------
(***************************************************************************)
(* The model runner: how a batch of sequences becomes slot mappings,        *)
(* context lengths and block tables (engine/input_preparation.py), how      *)
(* these reach the attention layers -- directly in the eager backend,       *)
(* through the persistent host buffers of a captured CUDA Graph bucket in   *)
(* the graph backend (engine/model_runner.py) -- and which rows of the      *)
(* paged KV cache every query then reads and writes.                        *)
(*                                                                          *)
(* The content of a KV row is named by the token it was computed for: row i *)
(* of sequence s, or of the prompt prefix all the sequences share.  The     *)
(* scheduler and the block manager, modelled elsewhere, appear here as the  *)
(* environment that gives, moves, shrinks and takes back page tables.       *)
(***************************************************************************)
EXTENDS PagedAttention
LOCAL INSTANCE SequencesExt
LOCAL INSTANCE FiniteSetsExt
LOCAL INSTANCE TLC

CONSTANTS
    Seqs,               \* sequence ids
    NumPages,           \* GPU pages; page numbers start at 0
    Prompts,            \* bound: the prompt lengths explored
    MaxModelLen,        \* max_model_len: no sequence grows past it
    ExactLimit,         \* CUDA_GRAPH_EXACT_BATCH_LIMIT
    BucketStride,       \* CUDA_GRAPH_BATCH_BUCKET_STRIDE
    MaxMoves,           \* bound: swaps and compactions per run
    Configs             \* the configurations explored

ASSUME RunnerAssumption ==
    /\ NumPages \in Nat \ {0}
    /\ ExactLimit \in Nat \ {0} /\ BucketStride \in Nat \ {0}
    /\ Prompts \subseteq 1 .. MaxModelLen

VARIABLES
    config,     \* backend, kernels available, compression mode
    kv,         \* page -> offset -> row held
    cpu,        \* sequence -> pages copied to the CPU cache by a swap-out
    seqs,       \* the sequences as the runner sees them
    host,       \* bucket -> the pinned host buffers of its captured graph
    cached,     \* sequence of _single_greedy_decode_batch_cache, or "none"
    misread,    \* the queries of the last execution whose reads are not their due
    moves       \* how many moves the environment has made

vars == <<config, kv, cpu, seqs, host, cached, misread, moves>>

Pages == 0 .. NumPages - 1
MaxNumSeqs == config.max_num_seqs       \* the largest batch and bucket
Row(s, i) == IF i < BlockSize THEN <<"prefix", i>> ELSE <<s, i>>
Unwritten == <<"unwritten", 0>>
Zero == <<"token 0", 0>>          \* the row an unused batch row would write

Fresh == [phase |-> "waiting", target |-> 0, len |-> 0, done |-> 0, table |-> <<>>,
          kept |-> <<>>, compact |-> FALSE, dropped |-> {}]

Live == {s \in Seqs : seqs[s].phase \in {"prefill", "decode"}}
FreePages == Pages \ UNION {Range(seqs[s].table) : s \in Live}

-----------------------------------------------------------------------------
(* CUDA Graph buckets and their host buffers.                               *)

MaxBlocks == PagesFor(MaxModelLen)

CudagraphBatchSizes ==
    (1 .. Min({MaxNumSeqs, ExactLimit}))
        \cup {b \in 1 .. MaxNumSeqs : b % BucketStride = 0}
        \cup {MaxNumSeqs}

BucketOf(batch) == Min({b \in CudagraphBatchSizes : b >= batch})

Fill(n, v) == [k \in 1 .. n |-> v]
Overwrite(new, old) == [k \in 1 .. Len(old) |-> IF k <= Len(new) THEN new[k] ELSE old[k]]

BuildCudagraphBuffers(b) ==
    [ids |-> Fill(b, Zero), slots |-> [k \in 1 .. b |-> k - 1], ctxs |-> Fill(b, 1),
     maxCtx |-> 1, tables |-> Fill(b, Fill(MaxBlocks, 0))]

-----------------------------------------------------------------------------
(* Which kernel serves a batch: Attention._forward_decode and               *)
(* Attention._forward_prefill_paged.                                        *)

Scaled == config.mode = "fp8"

DecodePath(pruned) ==
    IF pruned THEN "retained"
    ELSE IF ~config.cuda THEN "reference"
    ELSE IF Scaled THEN IF config.triton THEN "triton" ELSE "reference"
    ELSE IF config.flashinfer THEN "flashinfer"
    ELSE IF config.vllm THEN "flash"
    ELSE IF config.triton THEN "triton" ELSE "reference"

PrefillPath ==
    IF ~config.cuda THEN "reference"
    ELSE IF config.flashinfer /\ ~Scaled THEN "flashinfer"
    ELSE IF config.triton THEN "fused" ELSE "vectorized"

(* The slots one decode row reads; `meta' holds the metadata on the device. *)
DecodeRead(path, meta, b) ==
    CASE path = "reference"  -> gather_paged_kv_for_sequence(meta.tables[b], meta.ctxs[b])
      [] path = "triton"     -> paged_decode_attention(meta.tables[b], meta.ctxs[b], meta.maxCtx,
                                                       config.blockN, meta.splits)
      [] path = "flash"      -> SlotsOf(meta.tables[b], meta.ctxs[b])
      [] path = "flashinfer" -> FlashInferRow(meta.plan, b)
      [] path = "retained"   -> meta.retained[b]

(* The key slots of one sequence of a paged prefill.                        *)
PrefillKeys(path, table, keyLen, plan, b) ==
    CASE path = "reference"  -> gather_paged_kv_for_sequence(table, keyLen)
      [] path = "fused"      -> gather_paged_kv_fused(table, keyLen)
      [] path = "vectorized" -> gather_paged_kv_vectorized(table, keyLen)
      [] path = "flashinfer" -> IF HasHoles(plan) THEN NotRead ELSE FlashInferRow(plan, b)

(* Lower-right causal alignment: the j-th of q queries sees all but the     *)
(* last q - j keys.                                                         *)
Visible(keys, q, j) == SubSeq(keys, 1, Len(keys) - q + j)

-----------------------------------------------------------------------------
(* Input preparation.                                                       *)

PadTables(tables) ==
    LET width == Max({Len(tables[b]) : b \in 1 .. Len(tables)})
    IN  [b \in 1 .. Len(tables) |-> [k \in 1 .. width |->
            IF k <= Len(tables[b]) THEN tables[b][k] ELSE -1]]

(* A compacted sequence appends at its physical length, not at its logical  *)
(* position.                                                                *)
PhysicalStart(q) == IF q.compact THEN Len(q.kept) ELSE q.done

physical_kv_len(q) == IF q.compact THEN Len(q.kept) + 1 ELSE q.len

physical_last_block_num_tokens(q) ==
    physical_kv_len(q) - (PagesFor(physical_kv_len(q)) - 1) * BlockSize

DecodeSlot(q) == Last(q.table) * BlockSize + physical_last_block_num_tokens(q) - 1

prepare_decode(batch) ==
    LET q(b) == seqs[batch[b]]
        n    == Len(batch)
    IN  [ids |-> [b \in 1 .. n |-> Row(batch[b], q(b).len - 1)],
         slots |-> [b \in 1 .. n |-> DecodeSlot(q(b))],
         ctxs |-> [b \in 1 .. n |-> physical_kv_len(q(b))],
         maxCtx |-> Max({physical_kv_len(q(b)) : b \in 1 .. n}),
         tables |-> PadTables([b \in 1 .. n |-> q(b).table])]

(* The flat slots and lengths of a varlen prefill; sequence b contributes   *)
(* ends[b] - done tokens.                                                   *)
Queries(batch, ends, b) == ends[b] - seqs[batch[b]].done
KeyLen(batch, ends, b) == PhysicalStart(seqs[batch[b]]) + Queries(batch, ends, b)
NewRows(batch, ends, b) ==
    [j \in 1 .. Queries(batch, ends, b) |-> Row(batch[b], seqs[batch[b]].done + j - 1)]
NewSlots(batch, ends, b) ==
    [j \in 1 .. Queries(batch, ends, b) |->
        FlatSlot(SlotAt(seqs[batch[b]].table, PhysicalStart(seqs[batch[b]]) + j - 1))]

(* The block table is given to the layers only if some key precedes the     *)
(* batch's queries.                                                         *)
PagedPrefill(batch, ends) ==
    \E b \in 1 .. Len(batch) : KeyLen(batch, ends, b) > Queries(batch, ends, b)

-----------------------------------------------------------------------------
(* Staging into the buffers of a captured bucket, run_model_cudagraph: the  *)
(* packed tensors are copied whole when they fit exactly, else each field   *)
(* is reset and its prefix copied.                                          *)

PackedFits(m, b) ==
    LET n == Len(m.ids) IN n = b /\ (n = 1 \/ Len(m.tables[1]) = MaxBlocks)

Faulty_StageNoFill(buf, m, b) ==
    IF PackedFits(m, b)
    THEN [m EXCEPT !.tables = [k \in 1 .. b |-> Overwrite(m.tables[k], buf.tables[k])]]
    ELSE [ids    |-> Overwrite(m.ids, buf.ids),
          slots  |-> Overwrite(m.slots, buf.slots),
          ctxs   |-> Overwrite(m.ctxs, Fill(b, 0)),
          maxCtx |-> m.maxCtx,
          tables |-> [k \in 1 .. b |-> Overwrite(IF k <= Len(m.tables) THEN m.tables[k] ELSE <<>>,
                                                 Fill(MaxBlocks, -1))]]

StageInputs(buf, m, b) ==
    IF PackedFits(m, b)
    THEN [m EXCEPT !.tables = [k \in 1 .. b |-> Overwrite(m.tables[k], buf.tables[k])]]
    ELSE [ids    |-> Overwrite(m.ids, buf.ids),
          slots  |-> Overwrite(m.slots, Fill(b, -1)),
          ctxs   |-> Overwrite(m.ctxs, Fill(b, 0)),
          maxCtx |-> m.maxCtx,
          tables |-> [k \in 1 .. b |-> Overwrite(IF k <= Len(m.tables) THEN m.tables[k] ELSE <<>>,
                                                 Fill(MaxBlocks, -1))]]

(* The batch-one greedy path writes the buffers of bucket 1 in place; only  *)
(* a change of sequence clears the table entries left from before.          *)
SingleGreedyState(s) ==
    LET q == seqs[s]
        old == IF cached = s THEN host[1].tables[1] ELSE Fill(MaxBlocks, -1)
    IN  [ids |-> <<Row(s, q.len - 1)>>, slots |-> <<DecodeSlot(q)>>,
         ctxs |-> <<physical_kv_len(q)>>, maxCtx |-> physical_kv_len(q),
         tables |-> <<Overwrite(q.table, old)>>]

-----------------------------------------------------------------------------
(* Executing a batch.  Every layer stores the new rows first and attends    *)
(* after, so one store and one read per row stand for the whole forward.    *)

Query(s, read, due) == [seq |-> s, read |-> read, due |-> due]
Misread(queries) == {q \in Range(queries) : q.read # q.due}

DecodeDue(q, s) ==
    LET all == Append(q.kept, Row(s, q.len - 1))
    IN  IF config.mode = "prune" THEN SelectSeq(all, LAMBDA r : r \notin
                                         {Row(s, i) : i \in q.dropped}) ELSE all

(* One forward over the decode metadata `meta'; only the first rows belong  *)
(* to the batch, the others pad the bucket.                                 *)
Forward(batch, meta, path) ==
    LET stored == store_kvcache(kv, meta.slots, meta.ids)
    IN  /\ kv' = stored
        /\ misread' = Misread([b \in 1 .. Len(batch) |->
                          Query(batch[b], RowsAt(stored, DecodeRead(path, meta, b)),
                                DecodeDue(seqs[batch[b]], batch[b]))])

EagerMeta(batch, m, path) ==
    m @@ [splits   |-> config.splits,
          plan     |-> IF path # "flashinfer" THEN <<>>
                       ELSE stage_plan_inputs(Len(batch), Len(m.tables[1]), m.ctxs, m.tables),
          retained |-> IF path # "retained" THEN <<>>
                       ELSE [b \in 1 .. Len(batch) |->
                               build_retained_slot_mapping(seqs[batch[b]].dropped,
                                   seqs[batch[b]].len, seqs[batch[b]].table)]]

run_model_eager(batch) ==
    LET path == DecodePath(config.mode = "prune")
    IN  /\ Forward(batch, EagerMeta(batch, prepare_decode(batch), path), path)
        /\ UNCHANGED <<host, cached>>

(* The captured graph ignores the configured number of splits: its context  *)
(* was built with one.  FlashInfer is planned outside the graph, from the   *)
(* metadata of the rows that are really there.                              *)
Replay(batch, b, staged, ctxs, tables) ==
    LET path == DecodePath(FALSE)
    IN  /\ host' = [host EXCEPT ![b] = staged]
        /\ Forward(batch,
                   staged @@ [splits |-> 1,
                              plan   |-> IF path # "flashinfer" THEN <<>>
                                         ELSE stage_plan_inputs(b, MaxBlocks, ctxs, tables)],
                   path)

run_model_cudagraph(batch) ==
    \E m \in {prepare_decode(batch)} :
        \E b \in {BucketOf(Len(batch))} :
            /\ Replay(batch, b, StageInputs(host[b], m, b), m.ctxs, m.tables)
            /\ UNCHANGED cached

execute_single_greedy_decode_cudagraph(s) ==
    \E m \in {SingleGreedyState(s)} :
        /\ Replay(<<s>>, 1, m, m.ctxs, m.tables)
        /\ cached' = s

(* postprocess appends the sampled token; its KV row comes with the next    *)
(* step.                                                                    *)
Decoded(batch) ==
    [s \in Seqs |-> IF s \notin Range(batch) THEN seqs[s]
                    ELSE [seqs[s] EXCEPT !.kept = Append(@, Row(s, seqs[s].len - 1)),
                                         !.done = seqs[s].len,
                                         !.len = @ + 1]]

Batches == {t \in UNION {[1 .. n -> Live] : n \in 1 .. MaxNumSeqs} : IsInjective(t)}

CanDecode(s) ==
    /\ seqs[s].phase = "decode"
    /\ seqs[s].len <= MaxModelLen
    /\ Len(seqs[s].table) = PagesFor(physical_kv_len(seqs[s]))

Decode(batch) ==
    /\ \A b \in 1 .. Len(batch) : CanDecode(batch[b])
    /\ \/ config.backend = "eager" /\ run_model_eager(batch)
       \/ config.backend = "cuda_graph" /\ Len(batch) = 1
            /\ execute_single_greedy_decode_cudagraph(batch[1])
       \/ config.backend = "cuda_graph" /\ run_model_cudagraph(batch)
    /\ seqs' = Decoded(batch)
    /\ UNCHANGED <<config, cpu, moves>>

(* run_plan of a prefill: the rows of the slices are stored, then every     *)
(* query attends; _commit_prefill_execution advances the sequences, and     *)
(* postprocess appends a first token when a prompt is complete.             *)
PrefillReads(batch, ends, stored) ==
    LET tables == PadTables([b \in 1 .. Len(batch) |-> seqs[batch[b]].table])
        kLens  == [b \in 1 .. Len(batch) |-> KeyLen(batch, ends, b)]
        plan   == FlashInferPlan(kLens, tables)
        keys(b) == IF PagedPrefill(batch, ends)
                   THEN RowsAt(stored, PrefillKeys(PrefillPath, tables[b], kLens[b], plan, b))
                   ELSE NewRows(batch, ends, b)
    IN  FlattenSeq([b \in 1 .. Len(batch) |->
            [j \in 1 .. Queries(batch, ends, b) |->
                Query(batch[b], Visible(keys(b), Queries(batch, ends, b), j),
                      seqs[batch[b]].kept \o SubSeq(NewRows(batch, ends, b), 1, j))]])

Prefilled(q, s, end) ==
    LET new == [j \in 1 .. end - q.done |-> Row(s, q.done + j - 1)]
        fin == end = q.target
    IN  [q EXCEPT !.kept = @ \o new, !.done = end,
                  !.phase = IF fin THEN "decode" ELSE "prefill",
                  !.len = IF fin THEN @ + 1 ELSE @]

Prefill(batch, ends) ==
    /\ \A b \in 1 .. Len(batch) :
          /\ seqs[batch[b]].phase = "prefill"
          /\ ends[b] \in seqs[batch[b]].done + 1 .. seqs[batch[b]].target
          /\ config.chunked \/ ends[b] = seqs[batch[b]].target
          /\ Len(seqs[batch[b]].table) >= PagesFor(KeyLen(batch, ends, b))
    /\ \E stored \in {store_kvcache(kv,
                          FlattenSeq([b \in 1 .. Len(batch) |-> NewSlots(batch, ends, b)]),
                          FlattenSeq([b \in 1 .. Len(batch) |-> NewRows(batch, ends, b)]))} :
          /\ kv' = stored
          /\ misread' = Misread(PrefillReads(batch, ends, stored))
    /\ seqs' = [s \in Seqs |->
                  IF s \notin Range(batch) THEN seqs[s]
                  ELSE Prefilled(seqs[s], s, ends[CHOOSE b \in 1 .. Len(batch) : batch[b] = s])]
    /\ UNCHANGED <<config, cpu, host, cached, moves>>

-----------------------------------------------------------------------------
(* The environment: the scheduler's and the block manager's decisions.      *)

(* Bound: free pages are handed out from either end of the free list.       *)
Pool(n) ==
    IF Cardinality(FreePages) < n THEN {}
    ELSE {SubSeq(SetToSortSeq(FreePages, <), 1, n), SubSeq(SetToSortSeq(FreePages, >), 1, n)}

(* A live sequence that has computed the first page of the prompt prefix    *)
(* and still holds it uncompacted shares it.                                *)
Sharers == {s \in Live : Len(seqs[s].kept) >= BlockSize /\ ~seqs[s].compact}

Admit(s, n) ==
    /\ seqs[s].phase = "waiting"
    /\ Cardinality(Live) < MaxNumSeqs
    /\ \E shared \in {<<>>} \cup {<<seqs[t].table[1]>> :
                          t \in {u \in Sharers : n > BlockSize}} :
         \E t \in Pool(PagesFor(n) - Len(shared)) :
            seqs' = [seqs EXCEPT ![s] =
                [Fresh EXCEPT !.phase = "prefill", !.target = n, !.len = n,
                              !.table = shared \o t, !.done = Len(shared) * BlockSize,
                              !.kept = [i \in 1 .. Len(shared) * BlockSize |-> Row(s, i - 1)]]]
    /\ misread' = {}
    /\ UNCHANGED <<config, kv, cpu, host, cached, moves>>

(* may_append: a page before the token that needs it.                       *)
Grow(s) ==
    /\ seqs[s].phase = "decode" /\ seqs[s].len <= MaxModelLen
    /\ PagesFor(physical_kv_len(seqs[s])) > Len(seqs[s].table)
    /\ \E t \in Pool(1) : seqs' = [seqs EXCEPT ![s].table = @ \o t]
    /\ misread' = {}
    /\ UNCHANGED <<config, kv, cpu, host, cached, moves>>

(* The end of a request gives its pages back as they are.                   *)
Release(s) ==
    /\ seqs[s].phase = "decode"
    /\ seqs' = [seqs EXCEPT ![s] = [Fresh EXCEPT !.phase = "done"]]
    /\ misread' = {}
    /\ UNCHANGED <<config, kv, cpu, host, cached, moves>>

(* swap_blocks copies whole pages, payload and scales, out and in again.    *)
swap_blocks_out(s) ==
    /\ moves < MaxMoves /\ seqs[s].phase = "decode"
    /\ cpu' = [cpu EXCEPT ![s] = [k \in 1 .. Len(seqs[s].table) |-> kv[seqs[s].table[k]]]]
    /\ seqs' = [seqs EXCEPT ![s].phase = "swapped", ![s].table = <<>>]
    /\ moves' = moves + 1 /\ misread' = {}
    /\ UNCHANGED <<config, kv, host, cached>>

swap_blocks_in(s) ==
    /\ seqs[s].phase = "swapped" /\ Cardinality(Live) < MaxNumSeqs
    /\ \E t \in Pool(Len(cpu[s])) :
          /\ kv' = [p \in Pages |-> IF p \in Range(t)
                                    THEN cpu[s][CHOOSE k \in 1 .. Len(t) : t[k] = p] ELSE kv[p]]
          /\ seqs' = [seqs EXCEPT ![s].phase = "decode", ![s].table = t]
    /\ cpu' = [cpu EXCEPT ![s] = <<>>]
    /\ misread' = {}
    /\ UNCHANGED <<config, host, cached, moves>>

(* A plan's retained rows are gathered and then written to the front of the *)
(* table; the pages behind are given back.  Shared pages are refused.       *)
Private(s) == \A t \in Live \ {s} : Range(seqs[t].table) \cap Range(seqs[s].table) = {}

compact_kv_slots(s, retained) ==
    LET q == seqs[s]
    IN  store_kvcache(kv, [k \in 1 .. Len(retained) |-> FlatSlot(SlotAt(q.table, k - 1))],
                      RowsAt(kv, [k \in 1 .. Len(retained) |-> SlotAt(q.table, retained[k])]))

Compact(s, gone) ==
    /\ config.mode = "compact" /\ moves < MaxMoves
    /\ s \in Live /\ ~seqs[s].compact /\ Private(s)
    /\ Max(gone) < Min({seqs[s].done, seqs[s].target})
    /\ \E retained \in {SelectSeq([i \in 1 .. seqs[s].done |-> i - 1],
                                  LAMBDA i : i \notin gone)} :
          /\ retained # <<>>
          /\ kv' = compact_kv_slots(s, retained)
          /\ seqs' = [seqs EXCEPT ![s].compact = TRUE,
                        ![s].kept = [k \in 1 .. Len(retained) |-> Row(s, retained[k])],
                        ![s].table = SubSeq(@, 1, PagesFor(Len(retained)
                            + IF seqs[s].phase = "decode" THEN 0
                              ELSE seqs[s].target - seqs[s].done))]
    /\ moves' = moves + 1 /\ misread' = {}
    /\ UNCHANGED <<config, cpu, host, cached>>

(* visual_prune: the decision drops visual tokens from the reads only.      *)
Prune(s, gone) ==
    /\ config.mode = "prune"
    /\ seqs[s].phase = "decode" /\ seqs[s].dropped = {} /\ seqs[s].len = seqs[s].target + 1
    /\ Max(gone) < seqs[s].target
    /\ seqs' = [seqs EXCEPT ![s].dropped = gone]
    /\ misread' = {}
    /\ UNCHANGED <<config, kv, cpu, host, cached, moves>>

VisualSpan == 1 .. 2            \* the visual tokens of a prompt, where it has them

-----------------------------------------------------------------------------
Init ==
    /\ config \in Configs
    /\ kv = [p \in Pages |-> [o \in 0 .. BlockSize - 1 |-> Unwritten]]
    /\ cpu = [s \in Seqs |-> <<>>]
    /\ seqs = [s \in Seqs |-> Fresh]
    /\ host = [b \in CudagraphBatchSizes |-> BuildCudagraphBuffers(b)]
    /\ cached = "none"
    /\ misread = {}
    /\ moves = 0

Next ==
    \/ \E s \in Seqs : \E n \in Prompts : Admit(s, n)
    \/ \E batch \in Batches : \E ends \in [1 .. Len(batch) -> 1 .. MaxModelLen] :
          Prefill(batch, ends)
    \/ \E batch \in Batches : Decode(batch)
    \/ \E s \in Seqs : Grow(s)
    \/ \E s \in Seqs : Release(s)
    \/ \E s \in Seqs : swap_blocks_out(s)
    \/ \E s \in Seqs : swap_blocks_in(s)
    \/ \E s \in Seqs, gone \in SUBSET VisualSpan \ {{}} : Compact(s, gone)
    \/ \E s \in Seqs, gone \in SUBSET VisualSpan \ {{}} : Prune(s, gone)

Spec == Init /\ [][Next]_vars

-----------------------------------------------------------------------------
(* Properties.                                                              *)

(* The paged history of every sequence on the GPU is exactly its own: the   *)
(* k-th slot of its page table holds the row of its k-th kept token.  A     *)
(* padded graph row that writes, a slot computed from the logical instead   *)
(* of the physical length, or a compaction that overwrites what it has yet  *)
(* to read breaks it.                                                       *)
RowsOwned ==
    \A s \in Live : RowsAt(kv, SlotsOf(seqs[s].table, Len(seqs[s].kept))) = seqs[s].kept

(* Whatever backend and kernel serve a batch, each of its queries attends   *)
(* to the kept rows of its own sequence, itself included, in order, once    *)
(* each, and to nothing else -- with padding rows in the bucket, metadata   *)
(* left in the buffers by earlier batches, a moved or shrunk page table.    *)
ReadsExact == misread = {}
=============================================================================
