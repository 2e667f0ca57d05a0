--------------------------- MODULE PagedAttention ---------------------------
(***************************************************************************)
(* How the attention layers of layers/attention.py and the kernels of ops/  *)
(* address the paged KV cache.  A page is a number, a slot a pair           *)
(* <<page, offset>>, and what a kernel computes is abstracted to the        *)
(* sequence of slots whose K/V rows enter one query's softmax: the result   *)
(* of attention is a function of those rows.  `table' is one row of the     *)
(* padded block table (-1 pads it), `ctx' the row's context length.         *)
(* NotRead, a read of no page, stands for the exception of a path that      *)
(* refuses its input.                                                       *)
(***************************************************************************)
EXTENDS Integers, Sequences, FiniteSets
LOCAL INSTANCE SequencesExt
LOCAL INSTANCE FiniteSetsExt

CONSTANT BlockSize              \* tokens per KV page

ASSUME BlockSizePositive == BlockSize \in Nat \ {0}

NotRead == << <<-1, 0>> >>

PagesFor(tokens) == (tokens + BlockSize - 1) \div BlockSize

(* The slot of the i-th token (from 0) of a history kept in `table'.       *)
SlotAt(table, i) == <<table[i \div BlockSize + 1], i % BlockSize>>

SlotsOf(table, n) == [i \in 1 .. n |-> SlotAt(table, i - 1)]

-----------------------------------------------------------------------------
(* Gathers.                                                                 *)

LeadingPages(table) ==
    Max({n \in 0 .. Len(table) : \A i \in 1 .. n : table[i] >= 0})

(* The loop of gather_paged_kv_for_sequence stops at a hole or when enough  *)
(* rows are collected, and raises when rows are still missing.              *)
gather_paged_kv_for_sequence(table, ctx) ==
    IF ctx <= 0 \/ ctx > LeadingPages(table) * BlockSize THEN NotRead
    ELSE SlotsOf(table, ctx)

(* One index_select of whole pages, flattened and cut at the context.       *)
gather_paged_kv_vectorized(table, ctx) ==
    IF ctx <= 0 \/ PagesFor(ctx) > Len(table) THEN NotRead
    ELSE SubSeq(SlotsOf(table, PagesFor(ctx) * BlockSize), 1, ctx)

(* Every token below the context loads its own page id: no validation.      *)
gather_paged_kv_fused(table, ctx) == SlotsOf(table, ctx)

(* Logical indices kept by visual pruning, mapped through the page table.   *)
build_retained_slot_mapping(dropped, ctx, table) ==
    LET retained == SelectSeq([i \in 1 .. ctx |-> i - 1], LAMBDA i : i \notin dropped)
    IN  IF retained = <<>> \/ Len(table) < PagesFor(ctx) THEN NotRead
        ELSE [k \in 1 .. Len(retained) |-> SlotAt(table, retained[k])]

-----------------------------------------------------------------------------
(* The Triton decode kernels.  A program visits the tokens of a range in    *)
(* blocks of blockN and masks those past the context, past the table or on  *)
(* a hole; a masked lane contributes nothing to the running softmax.        *)

CapacityOf(table) == Len(table) * BlockSize

Visited(first, last, blockN) ==
    [k \in 1 .. ((last - first + blockN - 1) \div blockN) * blockN |-> first + k - 1]

Unmasked(table, tokens, limit) ==
    LET live == SelectSeq(tokens, LAMBDA i : i < limit /\ i < CapacityOf(table)
                                             /\ table[i \div BlockSize + 1] >= 0)
    IN  [k \in 1 .. Len(live) |-> SlotAt(table, live[k])]

paged_decode_kernel(table, ctx, maxCtx, blockN) ==
    Unmasked(table, Visited(0, Min({maxCtx, CapacityOf(table)}), blockN), ctx)

(* Flash-decoding: split s covers its own chunk of the capacity, and the    *)
(* reduction skips a split whose sum is empty.                              *)
Faulty_SplitOverrun(table, ctx, maxCtx, blockN, splits, s) ==
    LET chunk == (CapacityOf(table) + splits - 1) \div splits
        end   == Min({(s + 1) * chunk, maxCtx, CapacityOf(table)})
    IN  IF s * chunk >= end THEN <<>>
        ELSE Unmasked(table, Visited(s * chunk, end, blockN), ctx)

paged_decode_split(table, ctx, maxCtx, blockN, splits, s) ==
    LET chunk == (CapacityOf(table) + splits - 1) \div splits
        end   == Min({(s + 1) * chunk, maxCtx, CapacityOf(table)})
    IN  IF s * chunk >= end THEN <<>>
        ELSE Unmasked(table, Visited(s * chunk, end, blockN), Min({ctx, end}))

paged_decode_attention(table, ctx, maxCtx, blockN, splits) ==
    IF splits <= 1 THEN paged_decode_kernel(table, ctx, maxCtx, blockN)
    ELSE FlattenSeq([s \in 1 .. splits |->
                        paged_decode_split(table, ctx, maxCtx, blockN, splits, s - 1)])

-----------------------------------------------------------------------------
(* FlashInfer.  A plan is a CSR list of pages: row b owns the entries       *)
(* indptr[b] .. indptr[b+1]-1 of indices, and its last page holds           *)
(* lastPageLen[b] tokens.                                                   *)

LastPageLen(ctx) == IF ctx % BlockSize = 0 THEN BlockSize ELSE ctx % BlockSize

IndPtr(ctxs) ==
    [b \in 1 .. Len(ctxs) + 1 |->
        FoldSeq(LAMBDA c, n : PagesFor(c) + n, 0, SubSeq(ctxs, 1, b - 1))]

ValidPages(table, ctx) == SubSeq(table, 1, Min({PagesFor(ctx), Len(table)}))

FlashInferPlan(ctxs, tables) ==
    [indptr      |-> IndPtr(ctxs),
     indices     |-> FlattenSeq([b \in 1 .. Len(ctxs) |-> ValidPages(tables[b], ctxs[b])]),
     lastPageLen |-> [b \in 1 .. Len(ctxs) |-> LastPageLen(ctxs[b])]]

(* build_flashinfer_plan_inputs makes the same plan for a prefill, and      *)
(* raises when a needed entry is a hole.                                    *)
HasHoles(plan) == \E k \in 1 .. Len(plan.indices) : plan.indices[k] < 0

(* The static buffers of the decode wrapper of a captured batch: the rows   *)
(* past the batch each read one token of page 0.                            *)
stage_plan_inputs(maxBatch, maxBlocks, ctxs, tables) ==
    LET plan == FlashInferPlan(ctxs, tables)
        used == Len(plan.indices)
    IN  [indptr      |-> [b \in 1 .. maxBatch + 1 |->
                            IF b <= Len(ctxs) + 1 THEN plan.indptr[b]
                            ELSE used + b - Len(ctxs) - 1],
         indices     |-> [k \in 1 .. maxBatch * maxBlocks |->
                            IF k <= used THEN plan.indices[k] ELSE 0],
         lastPageLen |-> [b \in 1 .. maxBatch |->
                            IF b <= Len(ctxs) THEN plan.lastPageLen[b] ELSE 1]]

(* What the external kernel reads for row b of a plan.                      *)
FlashInferRow(plan, b) ==
    LET pages == SubSeq(plan.indices, plan.indptr[b] + 1, plan.indptr[b + 1])
    IN  SlotsOf(pages, (Len(pages) - 1) * BlockSize + plan.lastPageLen[b])

-----------------------------------------------------------------------------
(* store_kvcache: row k of the batch goes to its slot, a negative slot is   *)
(* skipped.  The scale of a quantized row is written with its payload, so   *)
(* one cell stands for both.                                                *)

FlatSlot(slot) == slot[1] * BlockSize + slot[2]

store_kvcache(kv, slots, values) ==
    FoldLeft(LAMBDA acc, k : IF slots[k] < 0 THEN acc
                 ELSE [acc EXCEPT ![slots[k] \div BlockSize][slots[k] % BlockSize] = values[k]],
             kv, [k \in 1 .. Len(slots) |-> k])

(* The rows behind a read.                                                  *)
RowsAt(kv, slots) ==
    [k \in 1 .. Len(slots) |-> IF slots[k][1] \in DOMAIN kv
                               THEN kv[slots[k][1]][slots[k][2]] ELSE <<"outside", 0>>]
=============================================================================
