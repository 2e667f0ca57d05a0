------------------------------ MODULE Scheduler ------------------------------
(***************************************************************************)
(* The engine loop for text requests: Scheduler (engine/scheduler.py) with  *)
(* the FCFS policy (engine/scheduler_policy.py), the block manager below    *)
(* it, the executor's order of KV transfers (engine/executor.py), the model *)
(* runner's KV writes, and the cooperative prefill of engine/llm_engine.py. *)
(*                                                                         *)
(* One engine step is two actions: planning (Schedule or AdvancePrefill)    *)
(* and execution with its commit (ExecutePlan).  Submissions and            *)
(* cancellations happen between steps, on the engine's own thread.          *)
(*                                                                         *)
(* What a KV row holds is represented by the token prefix it was computed   *)
(* for: the K and V of position i depend on tokens 0..i.  A row computed    *)
(* from a wrong context, and a row of a free page, is Unwritten.            *)
(***************************************************************************)
EXTENDS BlockManager, Deques

CONSTANTS
  MaxTokens,           (* MaxTokens[r]: SamplingParams.max_tokens           *)
  Eos,                 (* the end-of-sequence token                         *)
  MaxModelLen,         (* max_model_len                                     *)
  MaxChunkSize,        (* max_chunk_size                                    *)
  MaxConsecutive,      (* max_consecutive_prefill_batches                   *)
  PrefillQuanta        (* calls of advance_prefill that complete a prefill  *)

ASSUME SchedulerAssumption ==
  /\ \A r \in Requests : MaxTokens[r] \in Nat \ {0}
  /\ {MaxModelLen, MaxChunkSize, MaxConsecutive, PrefillQuanta} \subseteq Nat \ {0}
  /\ \A c \in Configs :
       /\ {c.queue, c.seqs, c.batched} \subseteq Nat \ {0}
       /\ {c.chunked, c.cooperative} \subseteq BOOLEAN
       /\ c.clients \subseteq Requests /\ c.samples \subseteq Tokens

VARIABLES
  waiting, running, swapped,   (* the scheduler's deques of request ids     *)
  consecutive,                 (* consecutive_prefill_batches               *)
  plan,                        (* the BatchPlan under execution             *)
  pending,                     (* the cooperative prefill in flight         *)
  kv,                          (* rows of the GPU pages                     *)
  cpuKv,                       (* rows of the CPU pages                     *)
  fault                        (* the RuntimeError that ended the engine    *)

vars == <<config, pool, cpuFree, seqs, waiting, running, swapped, consecutive,
          plan, pending, kv, cpuKv, fault>>

MaxQueueSize == config.queue           \* max_queue_size
MaxNumSeqs == config.seqs              \* max_num_seqs
MaxBatchedTokens == config.batched     \* max_num_batched_tokens
Chunked == config.chunked              \* enable_chunked_prefill
Cooperative == config.cooperative      \* enable_cooperative_prefill
Samples == config.samples              \* tokens the sampler may return

Lifecycle == INSTANCE RequestLifecycle
               WITH state <- [r \in Requests |-> seqs[r].status]

NoPlan == [phase |-> "none"]
NoPending == [plan |-> NoPlan, left |-> 0]
Unwritten == <<>>
BlankPage == [i \in 0 .. BlockSize - 1 |-> Unwritten]

Init ==
  /\ config \in Configs
  /\ pool = Pool!EmptyPool(Retain)
  /\ cpuFree = [i \in 1 .. NumCpuBlocks |-> i - 1]
  /\ seqs = [r \in Requests |-> NewSequence(r)]
  /\ waiting = <<>> /\ running = <<>> /\ swapped = <<>>
  /\ consecutive = 0
  /\ plan = NoPlan /\ pending = NoPending
  /\ kv = [b \in Pool!Block |-> BlankPage]
  /\ cpuKv = [b \in CpuBlock |-> BlankPage]
  /\ fault = "none"

-----------------------------------------------------------------------------
(* The snapshot that planning and commit work on.                          *)

Engine ==
  [pool |-> pool, cpuFree |-> cpuFree, seqs |-> seqs, waiting |-> waiting,
   running |-> running, swapped |-> swapped, consecutive |-> consecutive, fault |-> fault]

Become(s) ==
  /\ pool' = s.pool /\ cpuFree' = s.cpuFree /\ seqs' = s.seqs
  /\ waiting' = s.waiting /\ running' = s.running /\ swapped' = s.swapped
  /\ consecutive' = s.consecutive /\ fault' = s.fault

\* The RuntimeErrors of planning and commit.
FullyCached == "FullyCached"       \* admitted a fully cached prompt without a computable tail
NoRunnable == "NoRunnable"         \* decode step produced no runnable sequences
NoDecodeWork == "NoDecodeWork"     \* no decode work
BadTransition == "BadTransition"   \* invalid request state transition
LatePrefill == "LatePrefill"       \* prefill result outside PREFILLING

Raise(s, error) == [s EXCEPT !.fault = IF @ = "none" THEN error ELSE @]

\* Sequence.transition_to
Transition(s, r, target) ==
  IF Lifecycle!MayMove(s.seqs[r].status, target)
  THEN [s EXCEPT !.seqs[r].status = target]
  ELSE Raise(s, BadTransition)

IsFinished(s) == s.waiting = <<>> /\ s.running = <<>> /\ s.swapped = <<>>

DecodeWork(s) == s.swapped # <<>> \/ \E r \in ToSet(s.running) : s.seqs[r].status = "decoding"

RunningPrefill(s) == \E r \in ToSet(s.running) : s.seqs[r].status = "prefilling"

-----------------------------------------------------------------------------
(* Prefill planning.                                                       *)

\* prefill_token_count of the FCFS policy, for text.
PrefillTokenCount(s, r, available) ==
  LET remaining == Max({0, PromptLen(r) - EffectivePrefillStart(s, r)})
  IN  IF available <= 0 THEN 0
      ELSE IF Chunked THEN Min({remaining, MaxChunkSize, available})
      ELSE IF remaining <= available THEN remaining ELSE 0

EmptyBatch == [seqs |-> <<>>, slices |-> <<>>, tokens |-> 0]

Available(batch) == MaxBatchedTokens - batch.tokens

\* _PrefillBatchBuilder.add with the slice that BatchPlan derives.
AddSlice(batch, s, r, count) ==
  LET start == EffectivePrefillStart(s, r)
  IN  [seqs |-> Append(batch.seqs, r),
       slices |-> Append(batch.slices, <<start, start + count>>),
       tokens |-> batch.tokens + count]

\* _collect_running_prefills stops at the first prefill that does not fit.
CollectTurn(s, acc, r) ==
  LET count == PrefillTokenCount(s, r, Available(acc.batch))
  IN  IF acc.stop \/ s.seqs[r].status # "prefilling" THEN acc
      ELSE IF Len(acc.batch.seqs) >= MaxNumSeqs \/ count = 0 THEN [acc EXCEPT !.stop = TRUE]
      ELSE [acc EXCEPT !.batch = AddSlice(@, s, r, count)]

CollectRunning(s) ==
  LET turn[k \in 0 .. Len(s.running)] ==
        IF k = 0 THEN [batch |-> EmptyBatch, stop |-> FALSE]
        ELSE CollectTurn(s, turn[k - 1], s.running[k])
  IN  turn[Len(s.running)].batch

\* num_computed_tokens starts behind the shared prefix.
SkipCached(s, r) == [s EXCEPT !.seqs[r].computed = Max({@, s.seqs[r].cached})]

Admitted(s, r) ==
  [Transition(s, r, "prefilling") EXCEPT !.waiting = Tail(@), !.running = Append(@, r)]

\* A request without a token left to compute is an error.
AdmitSlice(acc, r, started, count) ==
  IF count = 0
  THEN [acc EXCEPT !.s = Raise(DeallocateSequence(started, r), FullyCached)]
  ELSE [s |-> Admitted(started, r), batch |-> AddSlice(acc.batch, Admitted(started, r), r, count)]

AdmitAllocated(acc, r, started) ==
  AdmitSlice(acc, r, started, PrefillTokenCount(Admitted(started, r), r, Available(acc.batch)))

\* _allocate_waiting_prefill for the head of the waiting queue.
AllocateWaiting(acc) ==
  LET r == Head(acc.s.waiting)
  IN  AdmitAllocated(acc, r, SkipCached(AllocateDense(acc.s, r), r))

Faulty_AdmitBeyondRunning(acc) ==
  acc.s.waiting # <<>> /\ acc.s.fault = "none" /\ Len(acc.batch.seqs) < MaxNumSeqs
    /\ PrefillTokenCount(acc.s, Head(acc.s.waiting), Available(acc.batch)) > 0
    /\ CanAllocate(acc.s, Head(acc.s.waiting))

\* The conditions under which _admit_waiting_prefills goes on.
Admissible(acc) ==
  /\ acc.s.fault = "none"
  /\ acc.s.waiting # <<>>
  /\ Len(acc.s.running) < MaxNumSeqs
  /\ Len(acc.batch.seqs) < MaxNumSeqs
  /\ PrefillTokenCount(acc.s, Head(acc.s.waiting), Available(acc.batch)) > 0
  /\ CanAllocate(acc.s, Head(acc.s.waiting))

AdmitTurn(acc) == IF Admissible(acc) THEN AllocateWaiting(acc) ELSE acc

AdmitWaiting(s, batch) ==
  LET turn[k \in 0 .. Len(s.waiting)] ==
        IF k = 0 THEN [s |-> s, batch |-> batch] ELSE AdmitTurn(turn[k - 1])
  IN  turn[Len(s.waiting)]

Unplanned(s) == [s |-> s, plan |-> NoPlan]

\* _record_prefill_plan
RecordPrefillPlan(done) ==
  IF done.batch.seqs = <<>> THEN Unplanned(done.s)
  ELSE [s |-> [done.s EXCEPT !.consecutive = @ + 1],
        plan |-> [phase |-> "prefill", seqs |-> done.batch.seqs, slices |-> done.batch.slices]]

\* _prefill_plan: the snapshot and the plan.
PrefillPlan(s) == RecordPrefillPlan(AdmitWaiting(s, CollectRunning(s)))

-----------------------------------------------------------------------------
(* Decode planning.                                                        *)

Faulty_PreemptLosesVictim(acc, r) ==
  IF CanSwapOut(acc.s, r)
  THEN [acc EXCEPT !.s = Transition(SwapOut(acc.s, r), r, "swapped"),
                   !.swapOut = @ \o SwapOutPairs(acc.s, r)]
  ELSE [acc EXCEPT !.s = [Transition(DeallocateSequence(acc.s, r), r, "waiting")
                            EXCEPT !.seqs[r].computed = 0]]

\* preempt: swap the victim out, or drop its pages and recompute it.
Preempt(acc, r) ==
  IF CanSwapOut(acc.s, r)
  THEN [acc EXCEPT !.s = [Transition(SwapOut(acc.s, r), r, "swapped")
                            EXCEPT !.swapped = Append(@, r)],
                   !.swapOut = @ \o SwapOutPairs(acc.s, r)]
  ELSE [acc EXCEPT !.s = [Transition(DeallocateSequence(acc.s, r), r, "waiting")
                            EXCEPT !.seqs[r].computed = 0, !.waiting = <<r>> \o @]]

\* The swap-in loop of _decode_plan, for the head of the swapped queue.
SwapInHead(acc) ==
  LET r == Head(acc.s.swapped)
      back == SwapIn(acc.s, r)
  IN  IF acc.s.swapped # <<>> /\ Len(acc.s.running) < MaxNumSeqs /\ CanSwapIn(acc.s, r)
      THEN [acc EXCEPT !.s = [Transition(back, r, "decoding")
                                EXCEPT !.swapped = Tail(@), !.running = Append(@, r)],
                       !.swapIn = @ \o SwapInPairs(acc.s, back, r)]
      ELSE acc

Faulty_VictimIsSelf(r, others) == r

\* preemption_candidate is the newest of the other candidates; a request that has
\* none left preempts itself.
Victim(r, others) == IF others = <<>> THEN r ELSE Last(others)

\* The oldest candidate appends, or a victim makes room: every turn takes one
\* request off the candidates.
DecodeTurn(acc, resident) ==
  LET r == Head(acc.cands)
      copied == CopyOnWrite(acc.s, r)
      others == Tail(acc.cands)
  IN  IF acc.cands = <<>> \/ Len(acc.scheduled) >= MaxNumSeqs THEN acc
      ELSE IF CanAppend(acc.s, r)
           THEN [acc EXCEPT !.s = MayAppend(copied, r),
                            !.cow = IF CopyOnWritePair(acc.s, r) = <<>> THEN @
                                    ELSE Append(@, CopyOnWritePair(acc.s, r)),
                            !.scheduled = Append(@, r),
                            !.cands = others]
      ELSE IF resident THEN [acc EXCEPT !.s.running = Append(@, r), !.cands = others]
      ELSE [Preempt(acc, Victim(r, others))
              EXCEPT !.cands = Those(@, Requests \ {Victim(r, others)})]

\* The parts of _decode_plan: swap in, take the decoding requests off the running
\* queue, give each its turn, put them back in front.
NoTurns(s) ==
  [s |-> s, swapIn |-> <<>>, swapOut |-> <<>>, cow |-> <<>>, scheduled |-> <<>>, cands |-> <<>>]

SwapInAll(s, resident) ==
  LET turn[k \in 0 .. Len(s.swapped)] == IF k = 0 THEN NoTurns(s) ELSE SwapInHead(turn[k - 1])
  IN  IF resident THEN NoTurns(s) ELSE turn[Len(s.swapped)]

Decoding(s) == {r \in Requests : s.seqs[r].status = "decoding"}

TakeCandidates(acc) ==
  [acc EXCEPT !.cands = Those(acc.s.running, Decoding(acc.s)),
              !.s.running = Those(@, Requests \ Decoding(acc.s))]

DecodeTurns(acc, resident) ==
  LET turn[k \in 0 .. Len(acc.cands)] ==
        IF k = 0 THEN acc ELSE DecodeTurn(turn[k - 1], resident)
  IN  turn[Len(acc.cands)]

RestoreRunning(acc) == [acc.s EXCEPT !.running = acc.scheduled \o @ \o acc.cands]

RecordDecodePlan(done, resident) ==
  IF done.scheduled # <<>>
  THEN [s |-> [RestoreRunning(done) EXCEPT !.consecutive = 0],
        plan |-> [phase |-> "decode", seqs |-> done.scheduled,
                  swapIn |-> done.swapIn, swapOut |-> done.swapOut, cow |-> done.cow]]
  ELSE Unplanned(IF resident THEN RestoreRunning(done) ELSE Raise(RestoreRunning(done), NoRunnable))

\* _decode_plan; its one-request fast path computes the same plan.  A resident plan
\* swaps nothing in.
DecodePlan(s, resident) ==
  RecordDecodePlan(DecodeTurns(TakeCandidates(SwapInAll(s, resident)), resident), resident)

\* schedule_decode
ScheduleDecode(s) ==
  IF DecodeWork(s) THEN DecodePlan(s, FALSE)
  ELSE [s |-> Raise(s, NoDecodeWork), plan |-> NoPlan]

Faulty_PrefillAlwaysFirst(s) == s.waiting # <<>> \/ RunningPrefill(s)

\* should_schedule_prefill of the FCFS policy.
ShouldSchedulePrefill(s) ==
  /\ s.waiting # <<>> \/ RunningPrefill(s)
  /\ DecodeWork(s) => s.consecutive < MaxConsecutive

\* A plan was made or planning raised: schedule() returns.
Settled(p) == p.plan # NoPlan \/ p.s.fault # "none"

\* schedule tries a prefill, if it is prefill's turn.  Next to an unfinished prefill
\* it then tries resident requests and prefill again; Decode comes last.
DecodeUnless(retry) == IF Settled(retry) THEN retry ELSE ScheduleDecode(retry.s)

RetryPrefillUnless(resident) ==
  IF Settled(resident) THEN resident ELSE DecodeUnless(PrefillPlan(resident.s))

AfterPrefill(first, runningPrefill) ==
  IF Settled(first) \/ ~runningPrefill THEN DecodeUnless(first)
  ELSE RetryPrefillUnless(DecodePlan(first.s, TRUE))

SchedulePlan(s) ==
  AfterPrefill(IF ShouldSchedulePrefill(s) THEN PrefillPlan(s) ELSE Unplanned(s), RunningPrefill(s))

-----------------------------------------------------------------------------
(* Execution.                                                              *)

\* The runner's page copies, in the order of the pairs.
CopyPages(target, source, pairs) ==
  FoldLeft(LAMBDA rows, pair : [rows EXCEPT ![pair[2]] = source[pair[1]]], target, pairs)

CopyOnWritePages(rows, pairs) ==
  FoldLeft(LAMBDA acc, pair : [acc EXCEPT ![pair[2]] = acc[pair[1]]], rows, pairs)

\* The row of position i seen through a page table.
RowAt(rows, table, i) == rows[table[i \div BlockSize + 1]][i % BlockSize]

Holds(rows, table, tokens, count) ==
  \A i \in 0 .. count - 1 :
    i \div BlockSize < Len(table) /\ RowAt(rows, table, i) = SubSeq(tokens, 1, i + 1)

\* The model writes the rows of positions first..last-1 of a sequence, computed
\* from the rows before them.
WriteRows(rows, q, first, last) ==
  LET good == Holds(rows, q.table, q.tokens, first)
      write(acc, i) ==
        [acc EXCEPT ![q.table[i \div BlockSize + 1]][i % BlockSize] =
           IF good THEN SubSeq(q.tokens, 1, i + 1) ELSE Unwritten]
  IN  FoldLeft(write, rows, [k \in 1 .. last - first |-> first + k - 1])

\* prepare_decode writes the newest token to the last page of the table.
WriteDecodeRow(rows, q) ==
  LET n == Len(q.tokens)
  IN  [rows EXCEPT ![Last(q.table)][(n - 1) % BlockSize] =
         IF Holds(rows, q.table, q.tokens, n - 1) THEN q.tokens ELSE Unwritten]

\* Executor.execute: swap-ins, swap-outs, copies, in this order.
TransferRows(p) ==
  IF p.phase = "prefill" THEN [gpu |-> kv, cpu |-> cpuKv]
  ELSE LET gpu == CopyPages(kv, cpuKv, p.swapIn)
           cpu == CopyPages(cpuKv, gpu, p.swapOut)
       IN  [gpu |-> CopyOnWritePages(gpu, p.cow), cpu |-> cpu]

\* run_plan on the transferred rows.
RunPlan(p, rows) ==
  IF p.phase = "prefill"
  THEN FoldLeft(LAMBDA acc, k : WriteRows(acc, seqs[p.seqs[k]], p.slices[k][1], p.slices[k][2]),
                rows, [k \in DOMAIN p.seqs |-> k])
  ELSE FoldLeft(LAMBDA acc, r : WriteDecodeRow(acc, seqs[r]), rows, p.seqs)

Faulty_CommitPastSlice(s, p) ==
  IF p.phase = "prefill"
  THEN [s EXCEPT !.seqs = [r \in Requests |->
          IF r \in ToSet(p.seqs)
          THEN [@[r] EXCEPT !.computed = 1 + p.slices[CHOOSE k \in DOMAIN p.seqs : p.seqs[k] = r][2]]
          ELSE @[r]]]
  ELSE s

\* _commit_prefill_execution advances the frontier of every slice.
CommitFrontiers(s, p) ==
  IF p.phase = "prefill"
  THEN [s EXCEPT !.seqs = [r \in Requests |->
          IF r \in ToSet(p.seqs)
          THEN [@[r] EXCEPT !.computed = p.slices[CHOOSE k \in DOMAIN p.seqs : p.seqs[k] = r][2]]
          ELSE @[r]]]
  ELSE s

Finished(r, q) == Last(q.tokens) = Eos \/ CompletionLen(r, q) = MaxTokens[r]

\* postprocess for the k-th request of the plan and its sampled token.
PostprocessOne(s, p, k, token) ==
  LET r == p.seqs[k]
      n == Len(s.seqs[r].tokens)
      published == IF p.phase = "prefill"
                   THEN PublishComputedBlocks(s, r, p.slices[k][1], p.slices[k][2])
                   ELSE PublishComputedBlocks(s, r, n - 1, n)
      appended == [published EXCEPT !.seqs[r].tokens = Append(@, token)]
  IN  IF p.phase = "prefill" /\ s.seqs[r].computed < PromptLen(r) THEN published
      ELSE IF Finished(r, appended.seqs[r])
      THEN [DeallocateSequence(Transition(appended, r, "finished"), r)
              EXCEPT !.running = Those(@, Requests \ {r})]
      ELSE IF s.seqs[r].status = "prefilling" THEN Transition(appended, r, "decoding")
      ELSE IF p.phase = "prefill" THEN Raise(appended, LatePrefill)
      ELSE appended

Postprocess(s, p, sampled) ==
  LET turn[k \in 0 .. Len(p.seqs)] ==
        IF k = 0 THEN s ELSE PostprocessOne(turn[k - 1], p, k, sampled[k])
  IN  turn[Len(p.seqs)]

\* Between steps nothing reads a free page again.
ForgetFree(rows, live) == [b \in DOMAIN rows |-> IF b \in live THEN rows[b] ELSE BlankPage]

-----------------------------------------------------------------------------
(* Actions.                                                                *)

Idle == plan = NoPlan /\ fault = "none"

NumActive == Len(waiting) + Len(running) + Len(swapped)

Accepted(r) == PromptLen(r) + MaxTokens[r] <= MaxModelLen /\ NumActive < MaxQueueSize

Add(r) ==
  /\ Idle
  /\ seqs[r].status = "new"
  /\ Accepted(r)
  /\ Become([Transition(Engine, r, "waiting") EXCEPT !.waiting = Append(@, r)])
  /\ UNCHANGED <<plan, pending, kv, cpuKv>>

Reject(r) ==
  /\ Idle
  /\ seqs[r].status = "new"
  /\ ~Accepted(r)
  /\ Become(Transition(Engine, r, "rejected"))
  /\ UNCHANGED <<plan, pending, kv, cpuKv>>

Faulty_KeepPaused(r) == pending

\* cancel_request drops the paused prefill that r is a member of; the survivors
\* keep their pages and retry.
DropPaused(r) ==
  IF pending # NoPending /\ r \in ToSet(pending.plan.seqs) THEN NoPending ELSE pending

\* LLMEngine.cancel_request and Scheduler.cancel.
Cancel(r) ==
  /\ Idle
  /\ r \in ToSet(waiting \o running \o swapped)
  /\ LET without(queue) == Those(queue, Requests \ {r})
         removed == [DeallocateSequence(Engine, r)
                       EXCEPT !.waiting = without(@), !.running = without(@),
                              !.swapped = without(@)]
         gone == Transition(removed, r, "cancelled")
     IN  /\ Become(gone)
         /\ kv' = ForgetFree(kv, gone.pool.used)
         /\ cpuKv' = ForgetFree(cpuKv, CpuBlock \ ToSet(gone.cpuFree))
  /\ pending' = DropPaused(r)
  /\ UNCHANGED plan

\* What a paused prefill leaves to this step: Decode, or its own completion.
DecodeOrFinish(resident, paused) ==
  /\ Become(resident.s)
  /\ IF resident.plan # NoPlan
     THEN plan' = resident.plan /\ pending' = paused
     ELSE plan' = paused.plan /\ pending' = NoPending

\* _start_cooperative_prefill_if_useful, and the step that follows a plan.
StartStep(p) ==
  IF Cooperative /\ p.plan.phase = "prefill" /\ DecodeWork(p.s)
  THEN DecodeOrFinish(DecodePlan(p.s, TRUE), [plan |-> p.plan, left |-> PrefillQuanta])
  ELSE Become(p.s) /\ plan' = p.plan /\ UNCHANGED pending

\* _next_step_result without a paused prefill.
Schedule ==
  /\ Idle
  /\ pending = NoPending
  /\ ~IsFinished(Engine)
  /\ StartStep(SchedulePlan(Engine))
  /\ UNCHANGED <<kv, cpuKv>>

\* _next_step_result with a paused prefill.
AdvancePrefill ==
  /\ Idle
  /\ pending # NoPending
  /\ IF DecodeWork(Engine) /\ pending.left > 1
     THEN DecodeOrFinish(DecodePlan(Engine, TRUE), [pending EXCEPT !.left = @ - 1])
     ELSE Become(Engine) /\ plan' = pending.plan /\ pending' = NoPending
  /\ UNCHANGED <<kv, cpuKv>>

\* Executor.execute or finish_prefill, then Scheduler.postprocess.
ExecutePlan ==
  /\ plan # NoPlan
  /\ fault = "none"
  /\ \E sampled \in [DOMAIN plan.seqs -> Samples] :
       LET rows == TransferRows(plan)
           written == RunPlan(plan, rows.gpu)
           s == Postprocess(CommitFrontiers(Engine, plan), plan, sampled)
       IN  /\ Become(s)
           /\ kv' = ForgetFree(written, s.pool.used)
           /\ cpuKv' = ForgetFree(rows.cpu, CpuBlock \ ToSet(s.cpuFree))
  /\ plan' = NoPlan
  /\ UNCHANGED pending

HasWork == fault = "none" /\ (plan # NoPlan \/ pending # NoPending \/ ~IsFinished(Engine))

\* The driver has nothing to do, or gave up after a RuntimeError.
Rest ==
  /\ ~HasWork
  /\ UNCHANGED <<pool, cpuFree, seqs, waiting, running, swapped, consecutive, plan, pending,
                 kv, cpuKv, fault>>

EngineStep == Schedule \/ AdvancePrefill \/ ExecutePlan

Next ==
  /\ \/ \E r \in config.clients : Add(r) \/ Reject(r) \/ Cancel(r)
     \/ EngineStep
     \/ Rest
  /\ UNCHANGED config

Spec == Init /\ [][Next]_vars

\* The engine thread keeps stepping while there is work: WF_vars(EngineStep), with
\* its ENABLED <<EngineStep>>_vars written out as HasWork.
FairSpec == Spec /\ ([]<>(~HasWork) \/ []<><<EngineStep>>_vars)

-----------------------------------------------------------------------------
(* Properties.                                                             *)

\* Shapes of the state: queue members and page numbers exist, statuses are
\* those of request.py, the prefill frontier stays within the prompt.
TypeOK ==
  /\ \A r \in Requests :
       /\ seqs[r].status \in Lifecycle!LiveStates \cup Lifecycle!TerminalStates \cup {"new"}
       /\ ToSet(seqs[r].tokens) \subseteq Tokens
       /\ {seqs[r].cached, seqs[r].computed} \subseteq 0 .. PromptLen(r)
       /\ ToSet(seqs[r].table) \subseteq Pool!Block
       /\ ToSet(seqs[r].cpuTable) \subseteq CpuBlock
  /\ ToSet(waiting \o running \o swapped) \subseteq Requests
  /\ consecutive \in Nat

\* No RuntimeError: planning always finds runnable work, no transition is
\* invalid, and no request is admitted without a token to compute.
NoFault == fault = "none"

\* ref_count of every page is the number of page tables that name it, through
\* sharing, preemption, swap-in, cancellation and completion.
PageCountsExact == Pool!RefCountsExact /\ Pool!Partition

\* CPU pages are owned once: a page is free or in exactly one cpu_block_table, and
\* none is lost.
CpuPagesOwnedOnce ==
  LET owned(r) == ToSet(seqs[r].cpuTable)
  IN  /\ IsInjective(cpuFree)
      /\ \A r \in Requests : IsInjective(seqs[r].cpuTable) /\ owned(r) \cap ToSet(cpuFree) = {}
      /\ \A q, r \in Requests : q # r => owned(q) \cap owned(r) = {}
      /\ CpuBlock = ToSet(cpuFree) \cup UNION {owned(r) : r \in Requests}

\* A request is in exactly the queue its status names, once.
QueuesMatchStatus ==
  /\ IsInjective(waiting \o running \o swapped)
  /\ \A r \in Requests :
       /\ r \in ToSet(waiting) <=> seqs[r].status = "waiting"
       /\ r \in ToSet(running) <=> seqs[r].status \in {"prefilling", "decoding"}
       /\ r \in ToSet(swapped) <=> seqs[r].status = "swapped"

\* max_num_seqs bounds the resident requests, swap-ins and admissions together.
RunningBounded == Len(running) <= MaxNumSeqs

\* Positions whose KV a request relies on between two steps.
ComputedRows(q) == IF q.status = "prefilling" THEN q.computed ELSE Len(q.tokens) - 1

\* Every row a request will attend to holds the KV of its own tokens, on the
\* GPU or swapped out, whatever was shared, evicted, copied or swapped before.
ContextCorrect ==
  plan = NoPlan =>
    \A r \in Requests :
      LET q == seqs[r]
      IN  /\ q.status \in {"prefilling", "decoding"} => Holds(kv, q.table, q.tokens, ComputedRows(q))
          /\ q.status = "swapped" => Holds(cpuKv, q.cpuTable, q.tokens, ComputedRows(q))

\* A page found under a hash holds exactly the KV rows of that token prefix
\* ("Index full pages only after their KV writes have completed").
PublishedPagesComputed ==
  plan = NoPlan =>
    \A h \in DOMAIN pool.index : \A i \in 0 .. BlockSize - 1 :
      kv[pool.index[h]][i] = SubSeq(h, 1, Len(h) - BlockSize + i + 1)

\* Rows a request attends to and rows the prefix cache offers are the right ones, through
\* sharing, publication, swapping and page copies, when every victim can be swapped:
\* recomputation leaves the rows of completion tokens behind.
RowsCorrect == NumCpuBlocks >= NumBlocks => ContextCorrect /\ PublishedPagesComputed

\* Pages of finished, cancelled and rejected requests are given back: when the
\* engine is idle every page is free or parked for reuse.
NothingLeaks ==
  IsFinished(Engine) => Pool!FreeCount(pool) = NumBlocks /\ Len(cpuFree) = NumCpuBlocks

\* Preemption never reaches the head of the queue: a preempted request has an
\* older one, decoding before it in the running queue, that keeps its pages.
OldestKeepsRunning ==
  [][\A j \in DOMAIN running :
       seqs[running[j]].status = "decoding" /\ seqs'[running[j]].status \in {"swapped", "waiting"}
       => \E k \in 1 .. j - 1 :
            /\ seqs[running[k]].status = "decoding"
            /\ seqs'[running[k]].status = "decoding"]_vars

\* Prefill runs beyond max_consecutive_prefill_batches only when no resident
\* request could have decoded instead.
DecodeTurnsKept ==
  [][plan = NoPlan /\ plan'.phase = "prefill" /\ consecutive >= MaxConsecutive
     => \A r \in Requests : seqs[r].status = "decoding" => ~CanAppend(Engine, r)]_vars

\* A paused prefill resumes where it was planned: its members are still
\* prefilling at the start of their slices, on pages that cover them.
PausedPrefillIntact ==
  pending # NoPending =>
    \A k \in DOMAIN pending.plan.seqs :
      LET q == seqs[pending.plan.seqs[k]]
          slice == pending.plan.slices[k]
      IN  /\ q.status = "prefilling"
          /\ q.computed = slice[1]
          /\ Pages(slice[2]) <= Len(q.table)

\* The scheduler implements the request state machine, and every submitted
\* request ends: it finishes, is cancelled, or was rejected.
ImplementsLifecycle == Lifecycle!Spec
=============================================================================
