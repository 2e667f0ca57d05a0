# Prism-Infer: TLA+ specifications, model checks and proofs

Prism-Infer is an inference engine for Qwen3-VL. Requests arrive over HTTP or through the
Python API, a scheduler batches them, a paged KV cache with prefix sharing holds their
attention state, and one synchronous loop runs `schedule -> execute -> postprocess`. The
specifications here cover the parts whose correctness depends on the order of events or on
index arithmetic between components: the page pool, the block manager and its media prefix
entries, the schedulers and the engine step, the model runner with its caches, captured
graphs and page tables, the vision path, tensor-parallel control, media preparation, the
online session, and the threaded serving runtime.

## 1. The system

| Part | State | Operations | Interacts with |
|---|---|---|---|
| GPU block pool, `engine/block_pool.py` | reference counts, hash and tokens of each block, hash index, free queue with stale entries, parked blocks | allocate, retain, release, publish, clear, look up, evict | called by the block manager |
| CPU block pool, `engine/block_pool.py` | free CPU slots | take, give back | called by swap_out, swap_in, deallocate |
| Block manager, `engine/block_manager.py` | page tables of sequences, prefix-cache entries | allocate with prefix sharing, append, publish, copy on write, swap, deallocate | scheduler above, pools below |
| Request state machine, `engine/request.py` | one state per request | transition | scheduler |
| Scheduler and policies, `engine/scheduler.py`, `engine/scheduler_policy.py` | waiting, running and swapped queues, count of consecutive prefills | add, plan prefill, plan decode, preempt, postprocess, cancel | block manager, engine loop |
| Engine loop, `engine/llm_engine.py` | the paused cooperative prefill | step, cancel, submit | scheduler, executor |
| Executor and runner, `engine/executor.py`, `engine/model_runner.py` | KV rows on GPU and CPU, host buffers of captured graphs, two caches of encoder rows, the paused prefill | transfers, eager and captured runs, cooperative prefill, compaction | engine loop, attention layers, vision encoder |
| Input preparation, `engine/input_preparation.py` | none | slots, page tables, positions and media of a batch | runner |
| Attention and kernels, `layers/attention.py`, `ops/` | staged plans of a captured graph | write and read the paged cache | runner |
| Vision encoder and multimodal model, `vision/`, `models/` | captured graphs by shape | encode images and videos, scatter their rows, M-RoPE positions | runner |
| Serving runtime, `serving/runtime.py` | ingress and cancellation queues, known ids, admission slots, pending media, active requests | submit, cancel, stop; owner loop; media worker | HTTP application above, engine below |
| Tensor-parallel control, `engine/tp_control.py` | request counter, pipes | broadcast, acknowledge, time out | runner |
| Media cache, `engine/media_preprocessing.py` | LRU of processor outputs | prepare | engine, media worker |
| Online session, `engine/online.py` | arrivals, preparation thread | drive a workload | engine |
| Compaction and pruning, `engine/kv_layout.py` and neighbours | physical layout of a pruned sequence | plan, commit | executor, block manager |
| HTTP application, `serving/app.py` | none of its own | parse, encode, stream | serving runtime |

What is hard here, and what makes each part correct:

* *Block pool.* A block is free, parked or referenced, never two of these; the count is the
  number of tables that hold it; a hash never leads to a recycled block. Free-queue entries
  are removed lazily, and a parked block can be revived or evicted.
* *Block manager and scheduler.* One decode plan can swap one request in and another out,
  recycle CPU slots and GPU pages inside the plan, and append into pages just released. Each
  request must attend to the KV of its own tokens, nothing may leak, and every submitted
  request must end. A cooperative prefill is paused across several steps, and its members
  can be cancelled meanwhile.
* *Media prefix entries.* An entry owns pages that requests share, a partly filled last page
  that must be copied before it is written, and idle copies of it; eviction makes room for the
  very hit that may be using them.
* *Policies.* Bypasses, decode credit, deadlines, interrupts and a coalescing wait each delay
  some request; together they must delay none for ever.
* *Runner and kernels.* Logical positions, physical slots, padded graph buckets and buffers
  left over from the batch before: every query must read the rows of its own sequence only.
* *Vision.* The rows of an image may come from an encoder run alone or in a batch, in
  microbatches, on another rank, from a captured graph, in quanta, or from two caches, and be
  cut to a slice; each placeholder must get its own row and each token its own position.
* *Tensor parallelism.* Ranks run the same commands in lockstep while workers are slow, fail,
  hang or die, and a worker sees only what is pickled for it.
* *Media preparation and online session.* Concurrent callers rebind and replace cache entries;
  cancellations race with arrivals, preparation and steps.
* *Serving runtime.* Three kinds of threads share queues and counters, partly without the
  lock. Every accepted request must get exactly one terminal event, whatever the
  cancellation, media preparation, failure or shutdown it races with.

`PROJECT.json` lists all components and, under `hazards`, the lines where this bites.

## 2. Modules

| Module | Models | Role |
|---|---|---|
| `GpuBlockPool` | class GpuBlockPool | methods as operators from pool to pool; a state machine of owners that call them |
| `Deques` | `collections.deque`: removal and selection of elements | operators shared by the modules with queues |
| `BlockManager` | BlockManager for text requests, CpuBlockPool, parts of Sequence | operators on an engine snapshot; instantiates GpuBlockPool |
| `RequestLifecycle` | RequestState, RequestLifecycle | abstract specification: legal transitions, every submitted request ends |
| `Scheduler` | Scheduler with FCFSSchedulerPolicy, the step loop of LLMEngine, ModelExecutor.execute, the KV rows of ModelRunner | state machine; extends BlockManager and is shown to implement RequestLifecycle |
| `PrefixEntries` | media prefix entries of BlockManager, KVCompactionCoordinator, KVLayout, the copies and stores of ModelExecutor | state machine; extends BlockManager |
| `PrefillPolicies` | the three policies of scheduler_policy.py and the step loop they steer | state machine with a clock |
| `ModelRunner` | ModelInputPreparer, eager and captured execution, swaps and compaction | state machine; extends PagedAttention |
| `PagedAttention` | the addressing of attention.py and the paged kernels | operators |
| `VisionRunner` | embedding caches, whole and cooperative prefills with media, worker payloads | state machine; extends VisionEncoder |
| `VisionEncoder` | VisionEncoder, microbatches and image-parallel ranks | operators; extends MultimodalPrompt |
| `MultimodalPrompt` | image spans and slices of Sequence, M-RoPE positions | operators |
| `TPControl` | TPControlPlane, ModelRunner.call and loop, start and exit of LLMEngine | state machine of rank 0 and its workers |
| `MediaCache` | MediaPreprocessingCache and the rebinding of prompts | state machine of concurrent callers |
| `OnlineSession` | OnlineServingSession and the metrics it summarizes | state machine of the control thread, workers and clock |
| `ServingRuntime` | ServingRuntime with the network threads, the owner thread and the media worker | state machine |
| `MC...` | | instances for TLC |
| `DequeProofs` | | lemmas about queues without duplicates and induction over the naturals, used by all proofs |
| `GpuBlockPoolProofs`, `SchedulerProofs`, `PrefillPoliciesProofs`, `TPControlProofs`, `MediaCacheProofs`, `OnlineSessionProofs`, `ServingRuntimeProofs` | | TLAPS proofs about the module of that name (section 4) |

A definition named `Faulty_...` is a plausible bug in the definition after it. No
specification uses it: a mutation run puts it in the place of that definition and must see
the property fail.

### GpuBlockPool

`pool` is a record with the fields of the Python object. The owners are sequences and
prefix-cache entries, and `held` is the part of their tables that matters to the pool. Hashes
and contents are separate model values, so two contents can collide under one hash, and
`lookup` compares contents as the code does. `allocate_free` skips stale queue entries; when
the queue is empty it evicts the oldest parked block, whose new queue entry is stale at once.
The code raises on misuse, such as releasing a free block. The `Can...` operators are the
negations of those checks and guard the actions; the proofs show that callers meet them.

### BlockManager and Scheduler

The scheduler plans in one Python call, so planning is an operator on a snapshot record (page
pool, CPU slots, sequences, queues) and an action installs the result. An engine step is two
actions: `Schedule` (or `AdvancePrefill`) makes the plan, `ExecutePlan` moves the KV rows,
runs the model and commits. `Add`, `Reject` and `Cancel` happen between steps, because the
engine has a single thread. Exceptions that planning or commit can raise are values of
`fault`, after which the engine stops.

Data abstractions:

* A token is one of two values. The hash of a page is the token prefix it stands for, so
  collisions are not modelled here (GpuBlockPool models them). A hash chain that restarts
  from NO_BLOCK_HASH restarts from the empty prefix, as `compute_hash` does.
* A KV row is the token prefix it was computed for. `WriteRows` and `WriteDecodeRow` produce
  a good row only if all rows before it are good for that sequence; otherwise the row is
  `Unwritten`. This is how the model sees stale or misplaced pages.
* The contents of a page that is neither referenced nor parked are forgotten between steps,
  and so are those of a free CPU slot. Within a step they matter and are kept.
* The model run of a cooperative prefill takes `PrefillQuanta` calls of `advance_prefill`;
  layers and vision blocks are not distinguished. Its rows appear at `finish_prefill`, which
  is also when the code commits the frontier.
* The one-request fast path of `_decode_plan` and the CUDA-graph path of
  `ModelExecutor.execute` compute the same plan and rows as the general paths and are not
  separate actions.
* For text requests every page but the last is full and immutable and the last is never
  shared, so copy-on-write does not happen here; PrefixEntries has it.

The configuration (CPU slots, prefix caching, retention, chunking, cooperation, limits) is a
variable chosen at the start, so that one run explores several engines.

The loops of the planners and of `postprocess` are recursive functions over the turns of the
Python loop, with one operator per turn (`CollectTurn`, `AdmitTurn`, `DecodeTurn` and so on),
so that one turn can be reasoned about apart from the loop.

### PrefixEntries

Extends the snapshot of BlockManager with the entry list and its page counter. `Allocate`
tries an entry hit, exact or at a block boundary, then a dense hit through the hash index,
then a plain allocation; each may evict entries and tail clones to make room, and a hit may
take an idle clone of the partly filled last page or copy it. Executing a plan copies first,
runs, compacts, and stores new entries last. Which positions compaction keeps is a choice of
the model. Which requests a plan takes is open: any that fit. Preemption is left to Scheduler.

### PrefillPolicies

Selection, admission and the step loop with pages only counted. A step is one action. The
clock may advance between any two steps. `sched` is the Scheduler object with its counters of
decode credit and bypasses; `pending` is the paused prefill with the quanta it has left.
`fineGrain` is a latch: under the SLO-aware policy light batches pause, and quanta are single ones,
once enough requests have been decoding, until the engine is idle. A turn of the collecting loop keeps a candidate, skips it (`continue`) or ends the loop (`break`).
`passed` is a history variable: how many requests were admitted past a heavy head. The loops
of the planner (`admitted`, `collected`, `planned`) are recursive functions over the turns of
the Python loop, one operator per turn, so that they can be reasoned about.

### ModelRunner and PagedAttention

A KV row is named by the token it was computed for. `prepare_prefill` and `prepare_decode`
give slots, context lengths and padded page tables; the eager backend hands them to attention,
the graph backend copies them into the host buffers of a bucket, which keep what earlier
batches left. PagedAttention gives, for each kernel (Triton, split Triton, FlashInfer, gather
and SDPA, masked), the sequence of slots one query reads, as a function of table and length.
`misread` holds the queries of the last execution whose rows are not their due. Block manager
and scheduler appear as the environment: they admit, grow, swap, compact, prune and release
(the end of a request; recomputation is the subject of Scheduler).
Bucket sizes keep the shape of the code (exact sizes, then a stride) at 1 and 3 for 8 and 16.

### MultimodalPrompt, VisionEncoder and VisionRunner

A picture is a name and a grid. An encoder row is named by everything it was computed from:
the patches, their interpolated positions and rotary coordinates, the ends of the attention
segment, and the blocks it passed. A row that is due is written `<<picture, n>>`; a row that
no kernel has computed is `NotComputed`, and this is what the capture of a vision graph returns,
because `torch.cuda.graph` records kernels without running them and only later uses of the shape
replay them. Such rows go where the code takes them: into placeholders and both caches. One row
stands for the main and the DeepStack features of its token. VisionRunner keeps rows in the
whole-request LRU on the GPU and the per-image LRU on the host, both bounded in rows; a
prefill hydrates from them, cuts pixels or kept rows to its slice, encodes what is missing and
scatters the rows. `wrong` holds the tokens of the last execution that were fed a foreign row
or are at a wrong position. A cooperative prefill advances by quanta of vision blocks and of
language layers, and can be dropped by a cancellation between any two. Slices begin and end
outside images, as the policy and the prefix cache arrange. The processor that turns an image
into patches is external. A worker rank that is sent no prompt tokens fails the step
(`WorkerFails`), and the engine ends all requests.

### TPControl

Pipes are reliable and ordered; a worker may be arbitrarily slow, die, or fail any method.
`call` is broadcast, local run and await, one action per message; a timeout may happen at any
wait. A late answer has the number of its own command and is told apart by it. A step sends the
commands of the plan of `ModelExecutor.execute` in their order, or the single greedy decode of its
fast path. A worker that fails answers first and closes its channel in a later step. `exit` sends,
closes the pipes, joins, terminates and kills.

### MediaCache

Each caller fingerprints, looks up under the lock, rebinds or processes outside it and
publishes under it. Texts are sequences of symbols and the tokenizer merges neighbouring
symbols, so that a rebound prompt can differ from a processed one where the code is careful
about it. `Tokenize` is a constant: the proofs hold for every tokenizer, the instance merges
pairs of symbols from left to right. The processor may reject any media. A caller may change a medium (`Mutate`), but not
while a preparation reads it; the code relies on that and does not enforce it.

### OnlineSession

The control loop with its clock readings: each reading may see a later time. The engine is
the promise of RequestLifecycle. `metrics` are the timestamps the summary is computed from.

### ServingRuntime

A submission is one call of `submit`, with a client-chosen id that another submission may
reuse. `submit` is two actions because the owner does not hold `_state_lock` when it takes
submissions off the queue or records a failure: `SubmitCheck` takes the lock, tests health,
id and capacity and reserves; `SubmitPut` enqueues and releases the lock. Owner steps that
take the lock wait for it. `pc` is the owner's place in `_run_engine` and `_thread_main` (`recancels` is the second
`_apply_cancellations` of a pass, `cancels` the first);
`left` is what remains of the queue snapshot in `_apply_cancellations` or `_drain_ingress`.
The future of the media worker is `queued`, `running`, `ready`, `failed` or `cancelled`. The
engine is external: the set of requests it holds, which gain tokens and end in any order; with
`MayFail` each of its calls may raise, and a step may also raise after the outputs of some of its
requests have been published (`StepRaises`). Publishing an event and forgetting the id are one step.
The wake-up event is left out, since the idle wait has a timeout.

## 3. Runs

| Run | Instance | States (about) | Question |
|---|---|---|---|
| `block_pages` | owners: 3 blocks, 2 hashes, 2 contents, 2 owners, with and without retention; entries: 6 pages of 2, four requests over dense media pages in the hash index, or three with squeezed rows and chunks | 463 000 | Does the pool keep its promises to any owners, and does every request, entry, clone and index page hold its own rows, with exact counts? |
| `scheduler` | four engines: swapping with 4 + 4 pages and chunks of 2; cooperative prefill with 4 + 6; recomputation without CPU pages or prefix cache; two seats | 152 000 | Do rows, pages and queues stay right, and does every request end? |
| `scheduler_stale_rows` | 2 requests, prefix cache without retention, no CPU pages | violation | See finding 1. |
| `policies` | vision-aware with 6 pages, a cap of 1 and four requests; vision-aware with 12 pages, a cap of 2 and two small images that are heavy together; SLO-aware with 12 pages and three requests; cooperative prefill of 3 quanta | 132 000 | Is the bypass cap kept, and does every request end? |
| `runner` | KV half: 4 pages of 2, two sequences sharing a prefix page, seven backend and kernel combinations; vision half: two requests over three prompts, five settings | 370 000 | Does each query read its own rows, no placeholder a foreign embedding, each token its position? |
| `tp_media` | as `runner` | violation | See finding 3. |
| `vision_first_capture` | as `runner` | violation | See finding 4. |
| `tp_faults` | rank 0, 2 workers, 3 commands; slow, failing, hung and dying workers; ordinary steps and the fast decode | 167 000 | Does no rank run ahead of an answer, and does exit end? |
| `media_prepare` | 6 preparations over 2 media objects, in two overlapping groups of 4; cache of 2 | 93 000 | Does everybody get what processing alone would give, and tokens that fit the text where a question overlaps its template? |
| `session_mixed` | 3 requests, 1 worker, queue of 1, clock to 2 | 27 000 | Do engine, metrics and outputs agree, and does the session end? |
| `runtime` | 3 submissions, 2 of them media, 2 sharing an id, capacity 2, 2 cancels, 1 token; with and without failing engine calls | 415 000 | Exact bookkeeping on every path; clean shutdown; every accepted request is answered unless the engine fails. |
| `runtime_stranded` | the same, 1 cancel | violation | See finding 2. |

Why the bounds are enough.

* *Pool, owners.* Three blocks let one be parked, one shared and one recycled, with a stale queue entry.
* *Scheduler.* A request needs two to four pages, so two requests already exceed the four GPU
  pages; prompts 1 to 4 share a page, prompt 3 is page aligned, and what request 2 generates
  equals a page of prompt 3, so completion pages are shared too. Four CPU slots are enough to
  swap out one request into the slots another one leaves in the same plan.
* *Pool, entries.* Prefixes of one image end inside a page and at its end, so tails are cloned;
  two images compete for six pages, so entries are evicted while they are hit.
* *Policies.* In the first engine there are two heavy requests, one of them over the patch
  budget, and two light ones, with a cap of one bypass, so that a heavy head is passed once and
  must then be taken, while six pages run short. In the second two light images in one batch
  have as many patches as a heavy request and restart the count. In the third the deadline
  of 2 ticks can fall before, during and after a prefill of three quanta; a clock of 3 ticks
  passes the coalescing wait of 2.
* *Runner, KV half.* Prompts of 2 and 3 tokens with pages of 2 are page aligned and not; up to
  `MaxModelLen` 4 a sequence takes two pages, from either end of the free ones, so that batches
  see permuted tables. One move per behaviour (`MaxMoves`: swap out and in, compaction or
  pruning) comes between any two batches. Buckets of 1 and 3, or 1 and 2, are
  partly filled by two sequences; the split kernel has more splits than a short context has
  blocks, and blocks larger than a page.
* *Runner, vision half.* A wide and a tall picture of one size share a captured graph; a square
  one is twice as large, so ranks are loaded unevenly, and a video has two frames. The GPU
  cache holds 3 rows, less than an album, and the host tier 5, less than all pictures, so both evict. Eight
  patches per microbatch cut an album; five patches are needed for a graph, and two graphs may
  be captured. Two vision blocks and two layers let a cooperative prefill pause in both. One
  preemption (`MaxPreempts`) and two new tokens (`MaxNew`). Slices begin and end at every
  distinguishable place outside images; places inside a text are no different from its ends.
* *The two halves* of `runner` have no variable in common, nor have the two users of
  `block_pages`. The instance chooses at the start which of them a behaviour runs; the other
  keeps still.
* *Tensor parallelism.* Three commands let one time out, one run into its late answer, and one
  exit; two workers let one be caught up while the other is not.
* *Media.* Requests share a key, have keys of their own or, being opaque, none, so a cache of two
  is hit, replaced and evicted; the questions overlap each other, repeat and lose a merged token
  pair, and one about the video (`>>`) overlaps its template. A constraint (`OneGroup`) lets only
  the requests of one of two groups of four leave their first state in one behaviour; each
  group holds requests that share a key and an opaque one.
* *Session.* A text and two media requests, one of them cancelled, arrive within the clock; one
  worker and a queue of one make them wait and be rejected.
* *Runtime.* One submission can be active, one with the worker and one in the queue, and two
  compete for one id.

Every bound is a constant of its module or named in its MC module. Deadlock is checked in the
block page, scheduler and tensor-parallel runs, whose resting states have a step of their own. The other runs
switch it off because the modelled threads really end, or all requests do; in the runner also
because the clients of the model stop asking.

### Fairness

* `Scheduler!FairSpec`, `PrefillPolicies!FairSpec`: while there is work, engine steps go on.
  `_run_generation` and `_run_engine` loop until `is_finished`. The formula is weak fairness of
  `EngineStep`, with its ENABLED written out as `HasWork`. Nothing is assumed about
  submissions, cancellations, the clock or which token is sampled.
* `TPControl!FairSpec`: rank 0 takes its steps; each of its waits has a deadline. The workers
  promise nothing, they may hang for ever.
* `OnlineSession!Fairness`: the control thread, the preparation workers and the clock go on,
  and the engine serves every live request again and again, which is what `scheduler` shows.
* `ServingRuntime!FairSpec`: the owner thread, the media worker and a submission inside its
  critical section are not descheduled for ever, and the engine does not step for ever without
  a token for some request it holds.

### Findings

1. *Recomputed requests publish rows that were never rewritten.* `preempt` without free CPU
   slots drops the pages of a request but keeps its completion tokens. Prefill then recomputes
   the prompt only. The rows of the earlier completion tokens stay unwritten, decoding
   attends to them, and `publish_computed_blocks` indexes the page that contains them. This
   contradicts the docstring at `block_manager.py:1039`. The configurations of the passing run
   therefore recompute only without the prefix cache and state nothing about those rows.
2. *A submission can be stranded by a failure.* `_thread_main` records a failure without
   `_state_lock`. If nothing is active, `_fail_all` never waits for the lock, so a submission
   that has passed the health check enters the queue after the drain. Its handle gets no
   event, although `_collect_response` waits for one without a timeout.
3. *A recomputed media request reaches the workers without its prompt.* `__getstate__` decides
   by the number of completion tokens whether it sends a prefill or a decode payload. After
   recompute preemption a request has completion tokens and its whole prompt to prefill; the
   workers get the last token only and no pixels. They fail on the missing token list, and with
   them the step. The comment at `sequence.py:575` promises the media while any of its
   placeholders remain. With text the tokens are missing in the same way. (Rank 0 does not
   pickle and is not affected, so one GPU works.)
4. *The first use of a shape by a captured vision graph returns rows that nobody computed.* With
   CUDA graphs on, `forward_tensor_region` captures a shape when it first sees it. The warm-up runs
   compute, but their results are dropped (`vision_encoder.py:888`), the capture records the
   kernels without running them (`:897`), and `replay()` is in the `else` branch only (`:986`). The
   static outputs of the capture are cloned and returned (`:991`), scattered into the placeholders
   and kept in the embedding caches. `test_vision_encoder.py:26` wants the split into geometry and
   tensor region to be exact. `docs/ARCHITECTURE.md:273` gives a first token that changes with mixed
   shapes as the reason why the option is off by default. `EmbedsComputed` is violated;
   the passing run states the rest (`EmbedsOwn`): rows not computed come from graphs only, and
   every row that was computed is the one its placeholder is due.

Other behaviours of the code that the models have and a reader should know:

* With retention a recomputed request can find its own parked completion pages. More tokens
  are then cached than the prompt has, and planning raises the error that the comment at
  `scheduler.py:388` calls an invariant violation.
* A recomputed media request that stores its prefix again makes `store_multimodal_prefix`
  raise, since it has completion tokens (`block_manager.py:806`).
* An SLO interrupt is decided by tier and deadline; `schedule_prefill` raises when the waiting
  request then cannot be admitted for want of pages (`llm_engine.py:1168`).
* `_record_prefill_plan` asks the policy about the patches of the whole batch. Light image
  requests that together reach the threshold are recorded as a heavy batch: the bypass counter
  and the decode credit start again while the heavy request still heads the queue
  (`scheduler.py:647`, against the docstring at `scheduler_policy.py:214`, which says that the
  cap restores its priority). The cap therefore holds between two heavy batches only, which
  is what `BypassBounded` states.
* `_rebind_cached_media_prompt` requires that the old question occurs once in the processed text
  (`media_preprocessing.py:269`) and replaces the leftmost occurrence. Neither `str.count` nor
  `str.replace` sees overlaps: the question `>>` after a template that ends in `>` occurs once,
  one character early, and is replaced there; the prompt is then another text than processing
  it would give. The instance has such a question. `ResultsExact` asks for the text of the caller
  unless some question under the same key overlaps its template so, and in any case for tokens,
  media and hashes that fit the text they come with.
* A request that needs more pages than the pool has can never be scheduled, and admission does
  not check for it. All instances have enough pages for each single request.
* When a method fails on rank 0 only, the workers have completed a command rank 0 has not, and
  later steps go on.
* A cancellation that the online session reads before the arrival of its request is dropped.
  A serving cancellation carries only the id and may hit a later request under the same id.
* `capture_context` does not pass on `paged_decode_num_splits`, so a captured graph uses the
  default number of splits whatever is configured.
* `_PerImageVisualEmbeddingHostCache.store` replaces an entry of the same key without giving
  back its bytes. A prompt that holds one image twice, while it is not cached, stores it twice
  (both misses are found before either is stored), and the count stays too high from then on.
  The model counts as the code does.

## 4. Proofs

Every theorem is proved for all values of the constants that satisfy the named ASSUME of its
module; TLC evaluates that ASSUME in every run. Each proof has the same outline: an inductive
invariant, a lemma per operation that says which part of it the operation may disturb and why
it does not, one step per action, and at the end PTL. The invariants that TLC can evaluate
were checked on the instances of section 3 before they were proved.

| Module | Theorems | State the properties |
|---|---|---|
| `GpuBlockPoolProofs` | `PoolInvariant`, `PoolTypes`, `PoolPartition`, `PoolRefCounts`, `PoolIndexSound`, `PoolParked`, `PoolFreeCount`, `PoolQueueBounded`, `PoolReleaseKeepsShared`, `PoolEvictsOldest` | all that `block_pages` checks of the owners |
| `ServingRuntimeProofs` | `RuntimeInvariant`, `RuntimeTypes`, `RuntimeSlots`, `RuntimeIds`, `RuntimeTerminal`, `RuntimeEngineUse`, `RuntimeShutdown` | the six invariants of `runtime` |
| `TPControlProofs` | `TPInvariant`, `TPTypes`, `TPWorkersCaughtUp` | the invariant of `tp_faults` |
| `MediaCacheProofs` | `CacheResultsExact` | the invariant of `media_prepare` |
| `OnlineSessionProofs` | `SessionInvariant`, `SessionResults` | the invariant of `session_mixed` |
| `PrefillPoliciesProofs` | `PoliciesInvariant`, `BypassesBounded` | the invariant of `policies` |
| `SchedulerProofs` | `SchedulerInvariant`, `SchedulerQueues`, `SchedulerCpuPages`, `SchedulerPageCounts`, `SchedulerNothingLeaks`, `SchedulerBound`, `SchedulerPausedPrefill`, `SchedulerDecodeTurns`, `SchedulerTransitions`, `SchedulerRefinesLifecycle` | of the invariants of `scheduler`: `QueuesMatchStatus`, `CpuPagesOwnedOnce`, `PageCountsExact`, `NothingLeaks`, `RunningBounded`, `PausedPrefillIntact`, and two of the errors `NoFault` excludes; the action property `DecodeTurnsKept`; the safety half of `ImplementsLifecycle` |

### The pool

Assumptions: `PoolAssumption` (positive capacity, the null hash and null content are no hash
and no content) and `OwnersAssumption` (finitely many owners). Both retention modes.

No invariant is inductive alone. Exact counts need the partition, since an allocated block
must not be in any table, which follows only if a free block has count zero. The partition
needs to know that parked blocks are published and parked once, since otherwise a revival would
leave a second entry. That an indexed block can be retained needs that it is used. And
`free_count` needs that every free block still has an entry in the lazily cleaned queue.
`IInv` conjoins `PoolOK` (types, partition, index, queue cover, parked blocks), the type of
`held` and `CountsMatch`. The argument has three layers: what each update does to each field
(`Set...Effect`, `ClearHashEffect`, `AllocateFields`, `DeallocateFields`); every method keeps
`PoolOK`; counts follow the tables (`TakeCounts`, `DropCounts`). The queue bound counts the
stale entries: a release adds one entry and takes one used block away. `PoolReleaseKeepsShared`
and `PoolEvictsOldest` are action properties proved from the same invariant.

### The scheduler

Assumptions: `ManagerAssumption` and `SchedulerAssumption` (pages of more than one token, as
config.py:47 allows only; positive capacity, non-empty prompts, finitely many requests, sensible
configurations). Any requests, prompts, pools and limits, and every configuration
that satisfies them: with and without CPU slots, prefix cache, retention, chunking and cooperation.

The operations compose deeply (one decode plan restores, preempts, appends and admits), so the
invariant is stated of a snapshot and every operator of `BlockManager` and `Scheduler` has a lemma
that it keeps it. `Valid(s, out)` says of a snapshot `s` that sequences are well formed (`Shaped`),
that queues hold exactly the requests of the matching states, each once (`QueuesOK`), that each
CPU slot is free or in one table, once (`CpuOK`), and what a state implies for the pages and
frontiers of the sequence (`SequenceOK`). Decode planning takes requests out of `running` and
puts them back at its end. In between, the candidates and those already scheduled are in no
queue although they are decoding; that is the set `out`, and without it no invariant holds inside
the plan. A preemption in mid-plan takes its victim from this set too, which is where a request
could get lost or be queued twice. `IInv` adds to `Valid(Engine, {})` that the plan and the paused
prefill still describe the sequences they were made for (`PlanOK`, `PausedOK`): cancellations and whole
decode steps come between planning and commit, and the commit does not look again.

A request a plan cannot place must leave no trace: `AllocateMany` takes all pages or none, a
failed swap-in gives back what it took, and so on (the `...Touches` lemmas say what
each operator leaves alone). The loops are lifted from one turn to all with `NatSetInduction`;
that the recursive functions exist is proved first (`...Exist`).

`SchedulerDecodeTurns` compares two planners. When the prefill turns are used up the plan can be a
prefill only by way of a decode plan over resident requests that came back empty, and `NobodyFits`
follows that plan turn by turn: a decoding request leaves the candidates scheduled or without room,
and while nothing is scheduled nothing is taken from the pool either, so what did not fit
then does not fit at the end. A cooperative prefill cannot count against the limit in between,
because a paused prefill means that the last plan was a decode (`TurnsOK`).

Every status is changed by `transition`, which refuses what the table of `request.py` does not
list. That no caller asks for more (`SchedulerTransitions`), together with the lemmas that an action
takes each request along at most one edge of that table (`StepMoves`), gives
`SchedulerRefinesLifecycle`: `Spec` implements `Lifecycle!SafeSpec`, the specification of
RequestLifecycle without its liveness.

Pages are counted by the theorems of the pool: `Counts(p, T)` is the invariant of GpuBlockPool
without its history, with the tables of the requests in the place of `held`. Each
operator of `BlockManager` is a sequence of the pool's methods, and each method keeps `Counts` for
the tables it is called with (`TakeCounts`, `DropCounts`, the revival of a parked block), if it is
called as the pool expects: a page is taken for a table that does not name it, released by
one that does, published when it is used. So the invariant has to say that a table names a page once
(`TableOK`), and, between the frontier of a sequence and its table, how many tokens the pages
cover (`SequenceOK`): `publish` hashes the pages below the frontier, and a table that were too
short would be read past its end. This is not one bound for all. A decoding sequence has pages for all
tokens but perhaps the newest, which sampling has just appended; a sequence that a decode plan
schedules has them for that one too (`Covered`, a part of `PlanOK`), since `can_append` and
`append` come before it is scheduled, and whatever the plan preempts afterwards is no longer in it.
The first token after a prefill may open a page, so the state must have become `decoding` by then;
`postprocess` does this in one call, and the lemmas keep its order. A swapped-out sequence
has as many CPU slots and saved hashes as it had pages, which is what makes the two
RuntimeErrors of `swap_in` unreachable. `SchedulerPageCounts` reads off the counts and the partition
of the pool. `SchedulerNothingLeaks` is that when the queues are empty all pages are free, since a
page with no table has count zero and a page with count zero is free.

### The serving runtime

Assumptions: `RuntimeAssumption`. Engine calls may raise or not.

`SlotsExact` and `IdsExact` follow once it is known where a live submission is. `Places` says
that it is in exactly one of: inside `submit`, the ingress queue, the media table, the engine's
table. `Preparation` relates the media queue, the worker and the media table: a future may
outlive its request, but then the request has its terminal event, which is why a late answer of
the worker can be dropped. `Snapshots` is needed because the owner counts a queue and then takes
as many items as it counted, while clients append: the count is never more than the queue.
`Ending` says what `stop`, `failure` and `pc` imply for the tables; without it
`CleanShutdown` and `EngineUseSafe` cannot be carried through `raised`, `failing` and
`draining`. `KnownExact` is the instance of `IdsExact` that holds at every step, with the marks
(`MarksPending`), and `TerminalIsLast` needs that only live submissions are sent events.

### Tensor-parallel control

Assumptions: `TPAssumption` (at least one worker). Any number of workers and commands, any
batch plans, with and without failing methods, timeouts and dying workers.

The invariant follows ids. Those in a pipe grow and are larger than the one the worker is busy
with (`PipesGrow`), so a worker completes commands in order. A worker that has not failed owes
only what it was sent (`Delivered`). Hence it completes without a gap (`NoGaps`), and an
acknowledgement, in the pipe or counted, is of a completed command (`AcksTrue`): a late answer
of a command that timed out cannot be counted for the present one. `WorkersCaughtUp` is what
is left of that when the call returns.

### Media preparation

Assumptions: `MediaAssumption` (types of the requests) and the hypothesis `TokenizerType`: a text has
a token sequence. So for every tokenizer, every template, question and set of callers.

`ResultsExact` says that what a caller gets was made for his own media (pixels, fingerprint,
per-image hashes), and that its tokens are those of its text with every placeholder expanded
for its medium. The text is that of his own prompt if every question that may be asked under his
key is where the template put it (`QuestionsInPlace`, per key; the code does not check it, see the
list in section 3). Where it is not, the text may be that of the misplaced replacement, but tokens
and media still fit it.

The invariant says of every slot of the cache, of what a thread found and of what it made that
it is the preparation of some request for media that fit its key (`Answers`), with one slot per
key. The heart is the lemma that a rebinding which passes all checks of
`_rebind_cached_media_prompt` yields what processing the new question would: both texts expand
by replacing each visual token by its placeholders, and expansion only depends on the tokens
around. Sums over sequences (`Sums`, flattening, counting) are proved by hand with
`NatSetInduction`.

### The online session

Assumptions: `SessionAssumption` (a load with arrivals within the clock). Any load, number of
workers, queue limit and order of events.

`Tables` says that every key is in exactly one of pending, preparing and admitted. `Pass` keeps
the walk over finished preparations honest while cancellations come in: each is met once, and a
cancellation is deferred only while its request is being prepared. `Agreement` keeps the record
of an admitted request in step with the engine's state of it, with its times in order, so that
the summary at the end (`ResultsConsistent`) is consistent.

### The policies

Assumptions: `PolicyAssumption`. Any requests, limits and engine, under the fcfs and the
vision-aware policy, with and without cooperative prefill; with deadlines the order of the queue
is another and no cap is promised.

`BypassBounded` speaks of a history, the admissions past the head. It follows from
`passed[r] <= bypasses <= MaxBypasses`, but a plan admits several requests in one step, may
count a bypass for a candidate that it then cannot admit, may fail as a prefill and go on as a
decode that preempts, and may pause. `Counted` states of a whole plan that, unless a heavy batch
was recorded, the counter has grown by at least the number of admissions while the head still
waits; it is shown for one turn of the loop (`AdmitKeeps`) and then for the loop by induction.
For the head to keep its place the queues must have no duplicates and agree with the statuses
(`WellFormed`), and a preempted request must come before it, which makes another request the
head. A paused prefill must keep its members in the state `prefilling` through all decodes in
between (`Prefilling`), since they are committed without another look when it is resumed.
`DecodePlan` and `PrefillPlan` are loops over recursive functions; that these exist is proved
first (`AdmitTurnsExist`, `DecodeTurnsExist`, `CollectExist`, `ThoseExist`).

### What is not proved, and why

* Liveness, fairness and ENABLED are outside the prover's reach: `EveryRequestEnds`,
  `ExitEnds` and the like are checked by TLC only.
* The library's induction theorems take a predicate, which the installed provers cannot
  instantiate. Induction here runs over a set of numbers instead (`NatSetInduction` in
  `DequeProofs`), once for each definition that loops. That works for recursive functions; the
  folds of the community modules and `SelectSeq` cannot be expanded by the prover, so what is
  built on them is not proved.
* Scheduler: `RowsCorrect` speaks of what the rows of a page hold, which needs that equal
  hashes mean equal prefixes for every page of the index and of every table; the proofs follow
  pages but not their contents. `TypeOK` and `NoFault` are not invariants for every value of the
  constants: a request larger than the pool, which admission does not refuse, makes planning
  raise, and a fault of a forward that has nothing to compute leaves `computed` past the prompt. The
  instance has no such request. Of `NoFault`, the two errors that have nothing to do with the size
  of the pool are excluded by `SchedulerTransitions`. `OldestKeepsRunning` likewise: a request
  alone that outgrows the pool preempts itself.
  That BlockManager calls the pool only as an owner of GpuBlockPool does is model-checked; what
  the proofs need of it is proved.
* PrefixEntries allocates and evicts with folds over page tables; ModelRunner, PagedAttention,
  VisionRunner and VisionEncoder compute rows with them. Their invariants are model-checked.

## 5. Not modelled

* Arithmetic: matrix products, quantization, rotary values, pruning scores, sampling. Rows and
  queries are named by what they are computed from instead.
* Construction and sizing: loading weights, measuring memory, compiling and capturing graphs at
  start-up, and the validation in `config.py`; what it guarantees is in the ASSUMEs.
* `serving/app.py`, `protocol.py` and `cli.py`: request parsing and response encoding. Their
  calls of submit, cancel and stop are actions of ServingRuntime.
* Tokenization and the vendor's image processor, which are external (MediaCache and
  MultimodalPrompt state what is assumed of them).
* Counters, traces and metrics that no decision reads.
* The analysis, benchmark and script directories, which are offline tools.
* DeepStack features are taken to follow their main rows; a batch that mixes images and videos
  joins them by modality, which is pointwise.

## 6. State and plan

1. Done: the models and runs of sections 2 and 3; the theorems of section 4, which cover every
   invariant that the runs of the pool, the runtime, tensor-parallel control, the media cache, the
   session and the policies check, and of the scheduler all but those that section 4 names.
2. Next: PrefixEntries, whose entries and clones hold pages beside the tables: counts and the
   partition with the lemmas of GpuBlockPoolProofs, as in SchedulerProofs.
3. Then `RowsCorrect`: what the index promises of the rows of a page, through allocation,
   publication and eviction.
