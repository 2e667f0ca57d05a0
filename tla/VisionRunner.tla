---------------------------- MODULE VisionRunner ----------------------------
(***************************************************************************)
(* The visual half of a prefill: how encoder rows are kept for later        *)
(* prefills in two LRU caches and how pixels or kept rows are cut to the    *)
(* slice of a plan (engine/model_runner.py, engine/input_preparation.py),   *)
(* and how they are scattered over the placeholder tokens of a batch, each  *)
(* with its M-RoPE position, in one forward or in cooperative quanta        *)
(* (models/qwen3_vl.py).                                                    *)
(***************************************************************************)
EXTENDS VisionEncoder
LOCAL INSTANCE SequencesExt
LOCAL INSTANCE FiniteSetsExt

CONSTANTS
    VisionSeqs,         \* request ids
    L1MaxRows,          \* VISUAL_EMBEDDING_CACHE_MAX_BYTES, counted in rows
    HostMaxRows,        \* max_bytes of the per-image host tier, in rows
    NumLayers,          \* language layers
    MaxPreempts,        \* bound: preemptions per run
    MaxNew,             \* bound: tokens decoded per request
    Settings            \* the configurations explored

VARIABLES
    reqs,       \* the requests as the runner sees them; the prompt each will have
    l1,         \* _visual_embedding_cache: entries, oldest first, and its bytes
    tier,       \* _visual_embedding_host_cache: the same, one image per entry
    graphs,     \* captured vision graphs: key -> static inputs
    pending,    \* the paused cooperative prefill, or Idle
    wrong,      \* tokens of the last execution fed with what is not theirs, each
                \* with whether that was computed, and those misplaced
    preempts    \* how many preemptions there were

visionVars == <<setting, reqs, l1, tier, graphs, pending, wrong, preempts>>

-----------------------------------------------------------------------------
(* The two caches: LRU lists with a count of the bytes they hold, in rows.  *)

EmptyCache == [entries |-> <<>>, bytes |-> 0]
Entry(key, rows) == [key |-> key, rows |-> rows]
Holds(c, key) == \E k \in 1 .. Len(c.entries) : c.entries[k].key = key
At(c, key) == CHOOSE k \in 1 .. Len(c.entries) : c.entries[k].key = key
RowsIn(c, n) == Sum([k \in 1 .. Len(c.entries) |-> Len(c.entries[k].rows)], n)

MoveToEnd(c, key) ==
    [c EXCEPT !.entries = Append(SelectSeq(@, LAMBDA e : e.key # key), @[At(c, key)])]

(* Oldest first, until the new rows fit or nothing is left.                 *)
EvictFor(c, size, max) ==
    LET n == Min({k \in 0 .. Len(c.entries) :
                    k = Len(c.entries) \/ c.bytes - RowsIn(c, k) + size <= max})
    IN  [entries |-> SubSeq(c.entries, n + 1, Len(c.entries)), bytes |-> c.bytes - RowsIn(c, n)]

(* Storing under a key that is there replaces the entry where it stands;    *)
(* its bytes are counted again.                                             *)
Insert(c, key, rows) ==
    [entries |-> IF Holds(c, key) THEN [c.entries EXCEPT ![At(c, key)] = Entry(key, rows)]
                 ELSE Append(c.entries, Entry(key, rows)),
     bytes |-> c.bytes + Len(rows)]

Store(c, key, rows, max) ==
    IF Len(rows) > max THEN c
    ELSE Once(LAMBDA kept : Insert(kept, key, rows), EvictFor(c, Len(rows), max))

-----------------------------------------------------------------------------
(* Hydration of the requests of a plan, in batch order.  h collects the     *)
(* caches, the graphs and the rows attached so far.                         *)

Key(p) == <<p.kind, p.media>>

(* All hits are looked up first; the misses are encoded together, stored    *)
(* one by one, and put in payload order with the hits.                      *)
PerImageRows(media, tierBefore, missing, encoded) ==
    LET before(k) == MapThenSumSet(LAMBDA j : TokenCount(media[j]), {j \in missing : j < k})
    IN  [k \in 1 .. Len(media) |->
            IF k \in missing THEN SubSeq(encoded, before(k) + 1, before(k) + TokenCount(media[k]))
            ELSE tierBefore.entries[At(tierBefore, media[k])].rows]

StoreMissing(c, media, missing, parts) ==
    FoldLeft(LAMBDA acc, k : IF k \notin missing THEN acc
                             ELSE Once(LAMBDA now : Store(now, media[k], parts[k], HostMaxRows), acc),
             c, [k \in 1 .. Len(media) |-> k])

LookUpAll(c, media) ==
    FoldLeft(LAMBDA acc, m : Once(LAMBDA now : IF Holds(now, m) THEN MoveToEnd(now, m) ELSE now, acc),
             c, media)

WithParts(h, s, media, missing, out, parts) ==
    [h EXCEPT !.tier = StoreMissing(LookUpAll(h.tier, media), media, missing, parts),
              !.graphs = out.graphs,
              !.embs[s] = FlattenSeq(parts)]

hydrate_per_image(h, s) ==
    LET media   == reqs[s].prompt.media
        missing == {k \in 1 .. Len(media) : ~Holds(h.tier, media[k])}
        lost    == SelectSeq(media, LAMBDA m : ~Holds(h.tier, m))
    IN  Once(LAMBDA out : Once(LAMBDA parts : WithParts(h, s, media, missing, out, parts),
                               PerImageRows(media, h.tier, missing, out.rows)),
             IF missing = {} THEN Out(h.graphs, <<>>)
             ELSE encode_visual_payload(h.graphs, Payload(lost), Grids(lost)))

WithWhole(h, s, out) ==
    [h EXCEPT !.l1 = Store(@, Key(reqs[s].prompt), out.rows, L1MaxRows),
              !.graphs = out.graphs, !.embs[s] = out.rows]

hydrate_visual_embedding_cache(h, s) ==
    LET p == reqs[s].prompt IN
    IF Holds(h.l1, Key(p))
    THEN [h EXCEPT !.l1 = MoveToEnd(@, Key(p)),
                   !.embs[s] = h.l1.entries[At(h.l1, Key(p))].rows]
    ELSE IF p.spans # NoSpans THEN hydrate_per_image(h, s)
    ELSE Once(LAMBDA out : WithWhole(h, s, out),
              encode_visual_payload(h.graphs, Payload(p.media), Grids(p.media)))

PadsIn(p, from, to) == {i \in p.pads : from <= i /\ i < to}
SlicePads(s, end) == PadsIn(reqs[s].prompt, reqs[s].done, end)
AllPads(s) == reqs[s].prompt.pads

(* Only a slice that holds all the placeholders of its request hydrates it. *)
Hydrate(h, s, end) ==
    IF setting.cache /\ h.embs[s] = <<>> /\ SlicePads(s, end) = AllPads(s)
    THEN hydrate_visual_embedding_cache(h, s) ELSE h

prepare_prefill_visual_cache(batch, ends) ==
    FoldLeft(LAMBDA acc, b : Once(LAMBDA h : Hydrate(h, batch[b], ends[b]), acc),
             [l1 |-> l1, tier |-> tier, graphs |-> graphs,
              embs |-> [s \in VisionSeqs |-> reqs[s].emb]],
             [b \in 1 .. Len(batch) |-> b])

-----------------------------------------------------------------------------
(* ModelInputPreparer: pixels or kept rows of the slices of a batch.  One   *)
(* request without kept rows makes the whole batch encode its pixels.       *)

ForceRaw(batch, embs) == \E b \in 1 .. Len(batch) : embs[batch[b]] = <<>>

CachedRows(s, end, emb) ==
    LET p == reqs[s].prompt
        covered == image_range_coverage(p, reqs[s].done, end)
        n == [k \in 1 .. Len(p.media) |-> TokenCount(p.media[k])]
    IN  IF SlicePads(s, end) = {} THEN <<>>
        ELSE IF SlicePads(s, end) = AllPads(s) THEN emb
        ELSE SubSeq(emb, Sum(n, Min(covered) - 1) + 1, Sum(n, Max(covered)))

RawMedia(s, end, kind) ==
    IF reqs[s].prompt.kind # kind \/ SlicePads(s, end) = {} THEN <<>>
    ELSE IF SlicePads(s, end) = AllPads(s) THEN reqs[s].prompt.media
    ELSE split_image_payloads_for_range(reqs[s].prompt, reqs[s].done, end)

ModelInputs(batch, ends, embs) ==
    LET raw == ForceRaw(batch, embs)
        all(part(_)) == FlattenSeq([b \in 1 .. Len(batch) |-> part(b)])
    IN  [ids    |-> all(LAMBDA b : [i \in 1 .. ends[b] - reqs[batch[b]].done |->
                                        <<batch[b], reqs[batch[b]].done + i - 1>>]),
         images |-> all(LAMBDA b : IF raw THEN RawMedia(batch[b], ends[b], "image") ELSE <<>>),
         videos |-> all(LAMBDA b : IF raw THEN RawMedia(batch[b], ends[b], "video") ELSE <<>>),
         cached |-> all(LAMBDA b : IF raw THEN <<>> ELSE CachedRows(batch[b], ends[b], embs[batch[b]]))]

-----------------------------------------------------------------------------
(* prepare_language_inputs: masked_scatter gives the k-th placeholder of a  *)
(* kind the k-th row encoded for that kind; kept rows go to the             *)
(* placeholders of both kinds.  A count that disagrees raises.  Collected   *)
(* are the tokens fed with a row that is not theirs, and whether that row   *)
(* was ever computed.                                                       *)

Fed(id, row) == [token |-> id, computed |-> row # NotComputed]
Unfed(ids) == {[token |-> id, computed |-> TRUE] : id \in Range(ids)}

IdsOf(ids, kinds) ==
    SelectSeq(ids, LAMBDA id : id[2] \in AllPads(id[1]) /\ reqs[id[1]].prompt.kind \in kinds)

DueFor(id) == reqs[id[1]].prompt.due[Cardinality(PadsIn(reqs[id[1]].prompt, 0, id[2])) + 1]

Misfed(ids, kinds, rows) ==
    Once(LAMBDA fed : IF Len(fed) # Len(rows) THEN Unfed(ids)
                      ELSE {Fed(fed[k], rows[k]) : k \in {j \in 1 .. Len(fed) : rows[j] # DueFor(fed[j])}},
         IdsOf(ids, kinds))

Scattered(in, imageRows, videoRows) ==
    IF in.cached # <<>>
    THEN IF in.images # <<>> \/ in.videos # <<>> THEN Unfed(in.ids)
         ELSE Misfed(in.ids, {"image", "video"}, in.cached)
    ELSE Misfed(in.ids, {"image"}, imageRows) \cup Misfed(in.ids, {"video"}, videoRows)

Mispositioned(ids) == {id \in Range(ids) : id[2] \in reqs[id[1]].prompt.misplaced}

-----------------------------------------------------------------------------
(* Executing a prefill.                                                     *)

NoReq == [phase |-> "none", prompt |-> [hits |-> {}, ends |-> {}],
          done |-> 0, len |-> 0, emb |-> <<>>]

Quiet == wrong' = [embeds |-> {}, positions |-> {}]

PrefillBatches == {<<s>> : s \in VisionSeqs} \cup {t \in VisionSeqs \X VisionSeqs : t[1] # t[2]}

Paused == IF pending.on THEN Range(pending.batch) ELSE {}

Ends(s) == {i \in reqs[s].prompt.ends : i > reqs[s].done}

CanPrefill(batch, ends) ==
    \A b \in 1 .. Len(batch) :
        /\ reqs[batch[b]].phase = "prefill" /\ batch[b] \notin Paused
        /\ ends[b] \in Ends(batch[b])

(* What a worker rank unpickles of a request.  The tokens are sent only      *)
(* while it has no completion, the media only while placeholders remain.    *)
NoCompletion(q) == q.len = q.prompt.length
Remaining(q) == PadsIn(q.prompt, q.done, q.prompt.length)

WorkerCopy(q) ==
    [tokens |-> NoCompletion(q), media |-> NoCompletion(q) /\ Remaining(q) # {}]

WorkersCanPrefill(batch) ==
    setting.ranks = 1 \/ \A b \in 1 .. Len(batch) : WorkerCopy(reqs[batch[b]]).tokens

Hydrated(h) == [s \in VisionSeqs |-> [reqs[s] EXCEPT !.emb = h.embs[s]]]

(* _commit_prefill_execution, and the first token of a complete prompt.     *)
Advanced(q, end) ==
    [q EXCEPT !.done = end,
              !.phase = IF end = q.prompt.length THEN "decode" ELSE "prefill",
              !.len = IF end = q.prompt.length THEN @ + 1 ELSE @]

Committed(rs, batch, ends) ==
    [s \in VisionSeqs |-> IF s \notin Range(batch) THEN rs[s]
                    ELSE Advanced(rs[s], ends[CHOOSE b \in 1 .. Len(batch) : batch[b] = s])]

Report(bad, ids) == wrong' = [embeds |-> bad, positions |-> Mispositioned(ids)]

NoPictures(g) == Out(g, <<>>)

(* run_plan of a whole prefill.                                             *)
run_prefill_plan(batch, ends) ==
    /\ CanPrefill(batch, ends) /\ WorkersCanPrefill(batch)
    /\ \E h \in {prepare_prefill_visual_cache(batch, ends)} :
       \E in \in {ModelInputs(batch, ends, h.embs)} :
       \E i \in {IF in.images = <<>> THEN NoPictures(h.graphs)
                 ELSE encode_images(h.graphs, Payload(in.images), Grids(in.images))} :
       \E v \in {IF in.videos = <<>> THEN NoPictures(i.graphs)
                 ELSE encode_visual_payload(i.graphs, Payload(in.videos), Grids(in.videos))} :
          /\ l1' = h.l1 /\ tier' = h.tier /\ graphs' = v.graphs
          /\ reqs' = Committed(Hydrated(h), batch, ends)
          /\ Report(Scattered(in, i.rows, v.rows), in.ids)
    /\ UNCHANGED <<setting, pending, preempts>>

(* A worker that cannot read the prompt raises, and rank 0 with it: the     *)
(* engine ends every request.                                               *)
WorkerFails(batch, ends) ==
    /\ CanPrefill(batch, ends) /\ ~WorkersCanPrefill(batch)
    /\ reqs' = [s \in VisionSeqs |-> [NoReq EXCEPT !.phase = "done"]]
    /\ Quiet
    /\ UNCHANGED <<setting, l1, tier, graphs, pending, preempts>>

(* Cooperative prefill: the vision blocks of one microbatch after another,  *)
(* then the language layers, a bounded quantum at a time.                   *)
Idle == [on |-> FALSE]

Work(kind, media) ==
    IF media = <<>> THEN <<>>
    ELSE << [kind |-> kind, media |-> media, next |-> 1, rows |-> <<>>,
             plans |-> plan_visual_microbatches(Grids(media), setting.limit)] >>

InjectedDue == [k \in 1 .. Min({Len(Taps), NumLayers}) |-> k - 1]

(* _begin_pending_language_forward scatters what the payloads have become.  *)
RowsOf(work, kind) == FlattenSeq([k \in 1 .. Len(work) |->
                                    IF work[k].kind = kind THEN work[k].rows ELSE <<>>])

WithLanguage(q, in) ==
    [q EXCEPT !.bad = Scattered(in, RowsOf(q.work, "image"), RowsOf(q.work, "video")),
              !.layer = 0]

begin_prefill_plan(batch, ends) ==
    /\ setting.cooperative /\ ~pending.on
    /\ CanPrefill(batch, ends)
    /\ \E h \in {prepare_prefill_visual_cache(batch, ends)} :
       \E in \in {ModelInputs(batch, ends, h.embs)} :
       \E q \in {[on |-> TRUE, batch |-> batch, ends |-> ends, in |-> in,
                  work |-> Work("image", in.images) \o Work("video", in.videos),
                  at |-> 1, ran |-> <<>>, taps |-> <<>>,
                  layer |-> -1, injected |-> <<>>, bad |-> {}]} :
          /\ l1' = h.l1 /\ tier' = h.tier /\ graphs' = h.graphs
          /\ reqs' = Hydrated(h)
          /\ pending' = IF q.work = <<>> THEN WithLanguage(q, in) ELSE q
    /\ UNCHANGED <<setting, wrong, preempts>>

(* One quantum of vision blocks; the last one of a microbatch merges it.    *)
VisionBlocks(q, n) ==
    LET last == Min({Len(q.ran) + n, NumBlocks})
        new  == [k \in 1 .. last - Len(q.ran) |-> Len(q.ran) + k]
    IN  [q EXCEPT !.ran = @ \o new, !.taps = @ \o SelectSeq(new, LAMBDA b : b \in Range(Taps))]

MicrobatchDone(q) ==
    LET w == q.work[q.at]  b == w.plans[w.next]
        in == prepare_tensor_region_inputs(SubSeq(Payload(w.media), b.from + 1, b.to), b.grids)
    IN  [q EXCEPT !.ran = <<>>, !.taps = <<>>,
                  !.work[q.at].rows = @ \o Merge(in, q.ran, q.taps),
                  !.work[q.at].next = @ + 1,
                  !.at = IF w.next = Len(w.plans) THEN @ + 1 ELSE @]

advance_pending_vision(n) ==
    /\ pending.on /\ pending.layer = -1
    /\ \E q \in {VisionBlocks(pending, n)} :
       \E r \in {IF Len(q.ran) < NumBlocks THEN q ELSE MicrobatchDone(q)} :
          pending' = IF r.at > Len(r.work) THEN WithLanguage(r, r.in) ELSE r
    /\ UNCHANGED <<setting, reqs, l1, tier, graphs, wrong, preempts>>

(* One quantum of language layers; DeepStack features go in behind the      *)
(* first layers.                                                            *)
advance_language(n) ==
    /\ pending.on /\ pending.layer \in 0 .. NumLayers - 1
    /\ \E last \in {Min({pending.layer + n, NumLayers})} :
          pending' = [pending EXCEPT !.layer = last,
                        !.injected = @ \o SelectSeq([k \in 1 .. last - pending.layer |->
                                                        pending.layer + k - 1],
                                                    LAMBDA k : k < Len(Taps))]
    /\ UNCHANGED <<setting, reqs, l1, tier, graphs, wrong, preempts>>

finish_prefill_plan ==
    /\ pending.on /\ pending.layer = NumLayers
    /\ reqs' = Committed(reqs, pending.batch, pending.ends)
    /\ Report(IF pending.injected = InjectedDue THEN pending.bad ELSE Unfed(pending.in.ids),
              pending.in.ids)
    /\ pending' = Idle
    /\ UNCHANGED <<setting, l1, tier, graphs, preempts>>

-----------------------------------------------------------------------------
(* The environment.                                                         *)

(* A submission; start is the prefix hit of its first allocation.           *)
Submit(s, start) ==
    /\ reqs[s].phase = "none"
    /\ reqs' = [reqs EXCEPT ![s].phase = "prefill", ![s].done = start,
                            ![s].len = reqs[s].prompt.length]
    /\ Quiet
    /\ UNCHANGED <<setting, l1, tier, graphs, pending, preempts>>

(* A decode step feeds the last token at its logical position.              *)
DecodeStep(s) ==
    /\ reqs[s].phase = "decode"
    /\ reqs[s].len < reqs[s].prompt.length + MaxNew
    /\ \E i \in {reqs[s].len - 1} :
          wrong' = [embeds |-> {},
                    positions |-> IF i + reqs[s].prompt.rope_delta
                                     = DuePosition(AllPads(s), reqs[s].prompt.grids, i)[1]
                                  THEN {} ELSE {<<s, i>>}]
    /\ reqs' = [reqs EXCEPT ![s].len = @ + 1]
    /\ UNCHANGED <<setting, l1, tier, graphs, pending, preempts>>

(* Recompute preemption keeps the attached rows and loses the KV; the next  *)
(* allocation may hit a prefix again.                                       *)
Preempt(s, start) ==
    /\ reqs[s].phase = "decode" /\ preempts < MaxPreempts
    /\ start \in reqs[s].prompt.hits
    /\ reqs' = [reqs EXCEPT ![s].phase = "prefill", ![s].done = start]
    /\ preempts' = preempts + 1
    /\ Quiet
    /\ UNCHANGED <<setting, l1, tier, graphs, pending>>

(* The end of a request, or its cancellation: release_multimodal_runtime_   *)
(* tensors.  Cancelling a member drops the paused prefill of all.           *)
Finish(s) ==
    /\ reqs[s].phase \in {"prefill", "decode"}
    /\ reqs' = [reqs EXCEPT ![s] = [NoReq EXCEPT !.phase = "done"]]
    /\ pending' = IF s \in Paused THEN Idle ELSE pending
    /\ Quiet
    /\ UNCHANGED <<setting, l1, tier, graphs, preempts>>

-----------------------------------------------------------------------------
VisionInit ==
    /\ setting \in Settings
    /\ reqs \in [VisionSeqs -> {[NoReq EXCEPT !.prompt = p] : p \in Submissions}]
    /\ l1 = EmptyCache /\ tier = EmptyCache
    /\ graphs = <<>>
    /\ pending = Idle
    /\ wrong = [embeds |-> {}, positions |-> {}]
    /\ preempts = 0

EndsOf(b) == IF Len(b) = 1 THEN {<<e>> : e \in Ends(b[1])} ELSE Ends(b[1]) \X Ends(b[2])

VisionNext ==
    \/ \E s \in VisionSeqs : \E start \in reqs[s].prompt.hits : Submit(s, start)
    \/ \E b \in PrefillBatches : \E ends \in EndsOf(b) : run_prefill_plan(b, ends)
    \/ \E b \in PrefillBatches : \E ends \in EndsOf(b) : WorkerFails(b, ends)
    \/ \E b \in PrefillBatches : \E ends \in EndsOf(b) : begin_prefill_plan(b, ends)
    \/ \E n \in 1 .. NumBlocks : advance_pending_vision(n)
    \/ \E n \in 1 .. NumLayers : advance_language(n)
    \/ finish_prefill_plan
    \/ \E s \in VisionSeqs : DecodeStep(s)
    \/ \E s \in VisionSeqs : \E start \in reqs[s].prompt.hits : Preempt(s, start)
    \/ \E s \in VisionSeqs : Finish(s)

VisionSpec == VisionInit /\ [][VisionNext]_visionVars

-----------------------------------------------------------------------------
(* Properties.                                                              *)

(* No placeholder token of any prefill is fed with a row computed for       *)
(* another image, place, frame or part of the encoder -- encoded alone or   *)
(* with others, in microbatches, on another rank, by a replayed graph or in *)
(* quanta, taken from a cache or cut to a slice, whatever requests share    *)
(* the batch; and rows that nothing computed come from vision graphs only   *)
(* (prepare_language_inputs, forward_tensor_region).                        *)
EmbedsOwn == \A w \in wrong.embeds : setting.graph /\ ~w.computed

(* What forward_tensor_region returns, it has computed: "clone_after_       *)
(* capture_or_replay" (vision_encoder.py:1023), and splitting off the       *)
(* tensor region is exact (test_vision_encoder.py:26).                      *)
EmbedsComputed == \A w \in wrong.embeds : w.computed

(* Every token, of a prompt in slices and of its completion, is at the      *)
(* M-RoPE position that its place behind texts and pictures gives it.       *)
PositionsExact == wrong.positions = {}

(* A worker rank is sent the media of every request with placeholders left  *)
(* to prefill: "Keep the complete modality payload if any of its tokens     *)
(* remain, including future chunks" (sequence.py:575).                      *)
WorkersGetMedia ==
    \A s \in VisionSeqs : setting.ranks > 1 /\ reqs[s].phase = "prefill" /\ Remaining(reqs[s]) # {}
                       => WorkerCopy(reqs[s]).media
=============================================================================
