-------------------------- MODULE PrefillPolicies ---------------------------
(***************************************************************************)
(* The scheduling policies of scheduler_policy.py and the step loop of      *)
(* LLMEngine that they steer: vision-aware bypassing, deadline order, cost  *)
(* tiers, coalescing of prefills, paused (cooperative) prefills and their   *)
(* SLO interrupts.                                                          *)
(*                                                                         *)
(* KV pages are only counted here and a prompt is one slice (Scheduler and  *)
(* PrefixEntries model their contents); time is a clock that may advance    *)
(* between two steps.  A step (plan, execute, commit) is one action.        *)
(***************************************************************************)
EXTENDS Integers, FiniteSets, Sequences, SequencesExt, FiniteSetsExt, Deques

CONSTANTS
  Requests,
  Configs,       (* the configurations an engine may be started with         *)
  Cooperative,   (* enable_cooperative_prefill                              *)
  PromptLen,     (* num_prompt_tokens of each request                       *)
  Patches,       (* vision patches of each request                          *)
  Slo,           (* ttft_slo of each request in ticks, or NoSlo              *)
  MaxNew,        (* completion tokens of every request                      *)
  MaxBatchedTokens, MaxVisionPatches, BlockSize,
  Heavy,         (* heavy_prefill_vision_patch_threshold                    *)
  MinDecode,     (* min_decode_batches_between_heavy_prefills               *)
  MaxConsecutive,
  Reserve,       (* prefill_reserve_ms_by_tier, in ticks                    *)
  CoalesceMin, CoalesceWait, SparseQuantum,
  PrefillWork,   (* layer and vision-block quanta of a prefill              *)
  MaxClock       (* bound on the clock                                      *)

NoSlo == -1
Never == 1000
ASSUME PolicyAssumption ==
  /\ IsFiniteSet(Requests)
  /\ PromptLen \in [Requests -> Nat \ {0}] /\ Patches \in [Requests -> Nat]
  /\ BlockSize \in Nat \ {0} /\ MaxNew \in Nat \ {0}
  /\ PrefillWork \in Nat /\ SparseQuantum \in Nat
  /\ MinDecode \in Nat /\ MaxConsecutive \in Nat \ {0}
  /\ MaxClock \in 0 .. Never - 1
  /\ \A c \in Configs : /\ c.policy \in {"fcfs", "vision_aware", "slo_aware"}
                        /\ c.seqs \in Nat /\ c.blocks \in Nat /\ c.bypasses \in Nat \ {0}
                        /\ c.clients \subseteq Requests

VARIABLES
  config,       (* policy, max_num_seqs, KV pages, clients that submit and   *)
                (* max_light_prefill_bypasses_per_heavy                      *)
  sched,        (* the Scheduler: reqs, waiting, running and its counters    *)
  pending,      (* _pending_prefill: members and quanta left, or NoPending   *)
  decodeAfter,  (* _decode_after_slo_prefill_interrupt                       *)
  fineGrain,    (* _cooperative_prefill_fine_grain_active                    *)
  clock,
  passed        (* history: requests admitted past r while r was the head,   *)
                (* since the last heavy prefill batch                        *)

vars == <<config, sched, pending, decodeAfter, fineGrain, clock, passed>>

Policy == config.policy
MaxNumSeqs == config.seqs
NumBlocks == config.blocks
MaxBypasses == config.bypasses

NoPending == [members |-> <<>>, left |-> 0]

Init ==
  /\ config \in Configs
  /\ sched = [reqs |-> [r \in Requests |-> [st |-> "new", sub |-> 0, out |-> 0, pages |-> 0]],
              waiting |-> <<>>, running |-> <<>>, consecutive |-> 0,
              sinceHeavy |-> MinDecode, bypasses |-> 0, heavy |-> FALSE, fault |-> "none"]
  /\ pending = NoPending /\ decodeAfter = FALSE /\ fineGrain = FALSE
  /\ clock = 0 /\ passed = [r \in Requests |-> 0]

-----------------------------------------------------------------------------
(* Policies.                                                               *)

Slos == Policy = "slo_aware"

IsHeavy(patches) == Policy # "fcfs" /\ patches >= Heavy

\* prefill_cost_tier
Tier(r) == IF Patches[r] = 0 /\ PromptLen[r] <= 256 THEN 0 ELSE IF Patches[r] < Heavy THEN 1 ELSE 2

\* ttft_deadline_ns less prefill_reserve_ns: when the prefill of r must start.
Release(s, r) == IF Slo[r] = NoSlo THEN Never ELSE s.reqs[r].sub + Slo[r] - Reserve[Tier(r)]

CanCoBatch(a, b) == (Tier(a) = 0) = (Tier(b) = 0)

\* The deadline order of SLOAwareSchedulerPolicy, by place i in the queue.
Before(s, i, j) ==
  LET a == s.waiting[i]
      b == s.waiting[j]
  IN  \/ Release(s, a) < Release(s, b)
      \/ /\ Release(s, a) = Release(s, b)
         /\ s.reqs[a].sub < s.reqs[b].sub \/ (s.reqs[a].sub = s.reqs[b].sub /\ i <= j)

HasDecode(s) == \E r \in ToSet(s.running) : s.reqs[r].st = "decoding"

Faulty_HeadComesFirst(s) == ~HasDecode(s) \/ s.sinceHeavy >= MinDecode \/ ~IsHeavy(Patches[Head(s.waiting)])

\* When the vision-aware policy insists on the head of the queue.
HeadComesFirst(s) ==
  \/ ~HasDecode(s) \/ s.sinceHeavy >= MinDecode \/ s.bypasses >= MaxBypasses
  \/ ~IsHeavy(Patches[Head(s.waiting)])

FirstOf(ids) == IF ids = {} THEN 0 ELSE Min(ids)

\* waiting_prefill_index among the places in ids; 0 is None.
WaitingIndex(s, ids) ==
  CASE ids # {} /\ Slos -> CHOOSE i \in ids : \A j \in ids : Before(s, i, j)
    [] ids # {} /\ Policy = "vision_aware" /\ ~HeadComesFirst(s) ->
         FirstOf({i \in ids : ~IsHeavy(Patches[s.waiting[i]])})
    [] OTHER -> FirstOf(ids)

-----------------------------------------------------------------------------
(* Prefill plans.                                                          *)

Blocks(n) == (n + BlockSize - 1) \div BlockSize
Free(s) == NumBlocks - FoldSet(LAMBDA r, acc : acc + s.reqs[r].pages, 0, Requests)
Length(s, r) == PromptLen[r] + s.reqs[r].out

Total(f, batch) == FoldLeft(LAMBDA acc, r : acc + f[r], 0, batch)

\* accepts and prefill_token_count of an unchunked prompt.
HasRoom(batch, r) ==
  /\ Len(batch) < MaxNumSeqs
  /\ Total(PromptLen, batch) + PromptLen[r] <= MaxBatchedTokens

Accepts(batch, r) ==
  /\ HasRoom(batch, r)
  /\ batch = <<>> \/ Total(Patches, batch) + Patches[r] <= MaxVisionPatches

Dedicated(batch) == Len(batch) = 1 /\ Total(Patches, batch) > MaxVisionPatches

Collected(batch) == [batch |-> batch, stop |-> Dedicated(batch)]

\* _collect_running_prefills: survivors of an aborted cooperative batch.  One without
\* room ends the loop, one with too many patches is passed over.
CollectTurn(s, acc, r) ==
  CASE acc.stop \/ s.reqs[r].st # "prefilling" -> acc
    [] ~acc.stop /\ s.reqs[r].st = "prefilling" /\ ~HasRoom(acc.batch, r) ->
         [batch |-> acc.batch, stop |-> TRUE]
    [] OTHER -> IF Accepts(acc.batch, r) THEN Collected(Append(acc.batch, r)) ELSE acc

CollectRunning(s) ==
  LET collected[k \in 0 .. Len(s.running)] ==
        IF k = 0 THEN Collected(<<>>) ELSE CollectTurn(s, collected[k - 1], s.running[k])
  IN  collected[Len(s.running)].batch

\* A bypass is counted when the place is chosen, admitted or not.
CountBypass(s, i) == IF i > 1 /\ ~Slos THEN [s EXCEPT !.bypasses = Min({@ + 1, MaxBypasses})] ELSE s

Admits(s, batch, r) ==
  /\ Slos /\ batch # <<>> => CanCoBatch(Head(batch), r)
  /\ Blocks(Length(s, r)) <= Free(s)
  /\ Accepts(batch, r)

\* _allocate_waiting_prefill
AdmitOne(acc, i, r) ==
  [s |-> [acc.s EXCEPT !.reqs[r].st = "prefilling", !.reqs[r].pages = Blocks(Length(acc.s, r)),
                       !.waiting = RemoveAt(@, i), !.running = Append(@, r)],
   batch |-> Append(acc.batch, r), stop |-> FALSE]

AdmitChosen(acc, i) ==
  IF i = 0 THEN [acc EXCEPT !.stop = TRUE]
  ELSE IF Admits(acc.s, acc.batch, acc.s.waiting[i])
  THEN AdmitOne([acc EXCEPT !.s = CountBypass(@, i)], i, acc.s.waiting[i])
  ELSE [acc EXCEPT !.stop = TRUE, !.s = CountBypass(@, i)]

\* One turn of _admit_waiting_prefills.
AdmitTurn(acc, belowTier) ==
  IF acc.stop \/ Len(acc.s.running) >= MaxNumSeqs \/ Dedicated(acc.batch) \/ Len(acc.batch) >= MaxNumSeqs
  THEN acc
  ELSE AdmitChosen(acc, WaitingIndex(acc.s, {i \in DOMAIN acc.s.waiting : Tier(acc.s.waiting[i]) < belowTier}))

\* _record_prefill_plan: the patches of the batch decide, not those of a request.
RecordPrefill(s, batch) ==
  [s EXCEPT !.consecutive = Min({@ + 1, MaxConsecutive}),
            !.sinceHeavy = IF IsHeavy(Total(Patches, batch)) THEN 0 ELSE @,
            !.bypasses = IF IsHeavy(Total(Patches, batch)) THEN 0 ELSE @,
            !.heavy = @ \/ IsHeavy(Total(Patches, batch))]

Recorded(acc) ==
  [s |-> IF acc.batch = <<>> THEN acc.s ELSE RecordPrefill(acc.s, acc.batch),
   phase |-> IF acc.batch = <<>> THEN "none" ELSE "prefill", batch |-> acc.batch]

\* _prefill_plan
PrefillPlan(s, batch, belowTier) ==
  LET admitted[k \in 0 .. Len(s.waiting)] ==
        IF k = 0 THEN [s |-> s, batch |-> batch, stop |-> FALSE] ELSE AdmitTurn(admitted[k - 1], belowTier)
  IN  Recorded(admitted[Len(s.waiting)])

-----------------------------------------------------------------------------
(* Decode plans.                                                           *)

NeedsPage(s, r) == Length(s, r) % BlockSize = 1
CanAppend(s, r) == NeedsPage(s, r) => Free(s) >= 1

\* Recompute preemption: back to the head of the queue, without pages.
Preempt(s, r) ==
  [s EXCEPT !.reqs[r].st = "waiting", !.reqs[r].pages = 0, !.waiting = <<r>> \o @]

TakeSlot(s, r) == IF NeedsPage(s, r) THEN [s EXCEPT !.reqs[r].pages = @ + 1] ELSE s

\* One turn over the candidates; it takes the first of them or preempts the last.
DecodeTurn(acc, resident) ==
  LET r == Head(acc.left)
  IN  IF CanAppend(acc.s, r)
      THEN [acc EXCEPT !.s = TakeSlot(@, r), !.left = Tail(@), !.batch = Append(@, r)]
      ELSE IF resident THEN [acc EXCEPT !.left = Tail(@), !.s.running = Append(@, r)]
      ELSE [acc EXCEPT !.left = Front(@), !.s = Preempt(@, Last(acc.left))]

Decoding(s) == {r \in Requests : s.reqs[r].st = "decoding"}
Decoders(s) == Those(s.running, Decoding(s))

DecodePlanned(acc) ==
  IF acc.batch = <<>> THEN [s |-> acc.s, phase |-> "none", batch |-> <<>>]
  ELSE [s |-> [acc.s EXCEPT !.running = acc.batch \o @, !.consecutive = 0,
                            !.sinceHeavy = Min({@ + 1, MinDecode})],
        phase |-> "decode", batch |-> acc.batch]

\* _decode_plan
DecodePlan(s, resident) ==
  LET planned[k \in 0 .. Len(Decoders(s))] ==
        IF k = 0 THEN [s |-> [s EXCEPT !.running = Those(@, Requests \ Decoding(s))],
                       left |-> Decoders(s), batch |-> <<>>]
        ELSE DecodeTurn(planned[k - 1], resident)
  IN  DecodePlanned(planned[Len(Decoders(s))])

Raise(p, error) == [p EXCEPT !.s.fault = error]

\* schedule_decode
ScheduleDecode(s) ==
  IF ~HasDecode(s) THEN Raise([s |-> s, phase |-> "none", batch |-> <<>>], "NoDecodeWork")
  ELSE IF DecodePlan(s, FALSE).batch = <<>> THEN Raise(DecodePlan(s, FALSE), "NothingRunnable")
  ELSE DecodePlan(s, FALSE)

\* schedule: prefill if the policy wants it, else decode; with an unfinished prefill
\* resident, decode never preempts.
RunningPrefill(s) == \E r \in ToSet(s.running) : s.reqs[r].st = "prefilling"

PrefillTurn(s) ==
  (s.waiting # <<>> \/ RunningPrefill(s)) /\ (HasDecode(s) => s.consecutive < MaxConsecutive)

OrElse(p, q) == IF p.batch # <<>> THEN p ELSE q

ScheduleRest(s) ==
  IF RunningPrefill(s)
  THEN OrElse(OrElse(DecodePlan(s, TRUE), PrefillPlan(s, CollectRunning(s), 3)), ScheduleDecode(s))
  ELSE ScheduleDecode(s)

SchedulePlan(s) ==
  IF PrefillTurn(s) THEN OrElse(PrefillPlan(s, CollectRunning(s), 3), ScheduleRest(PrefillPlan(s, CollectRunning(s), 3).s))
  ELSE ScheduleRest(s)

-----------------------------------------------------------------------------
(* The engine step.                                                        *)

\* execute and postprocess for the requests of a plan.
Ended(s, batch) == {r \in ToSet(batch) : s.reqs[r].out + 1 = MaxNew}

Committed(s, batch, r) ==
  CASE r \in Ended(s, batch) -> [s.reqs[r] EXCEPT !.st = "done", !.pages = 0, !.out = MaxNew]
    [] r \in ToSet(batch) \ Ended(s, batch) -> [s.reqs[r] EXCEPT !.st = "decoding", !.out = @ + 1]
    [] OTHER -> s.reqs[r]

Commit(s, batch) ==
  [s EXCEPT !.reqs = [r \in Requests |-> Committed(s, batch, r)],
            !.running = Those(@, Requests \ Ended(s, batch))]

Finished(s) == s.waiting = <<>> /\ s.running = <<>>

Idle == sched.fault = "none"

\* Who was admitted past the head of the queue by the step to s.
PassedBy(s) ==
  {r \in ToSet(sched.waiting) : s.reqs[r].st \in {"prefilling", "decoding", "done"}}

\* Run a plan and commit it; whether a heavy batch was recorded is history.
Run(p) ==
  /\ sched' = IF p.s.fault # "none" THEN p.s
              ELSE [Commit(p.s, p.batch) EXCEPT !.heavy = FALSE]
  /\ passed' = [r \in Requests |->
       IF p.s.heavy THEN 0
       ELSE IF sched.waiting # <<>> /\ r = Head(sched.waiting) /\ sched'.reqs[r].st = "waiting"
       THEN passed[r] + Cardinality(PassedBy(sched')) ELSE passed[r]]
  /\ UNCHANGED clock

\* _cooperative_prefill_fine_grain_enabled latches; an idle engine resets it.
Latched(s) ==
  fineGrain \/ Len(Decoders(s)) >= Max({1, (MaxNumSeqs + 3) \div 4})

FineGrainAfter(latched) == fineGrain' = (latched /\ ~Finished(sched'))

\* _finish_pending_prefill
FinishPending(s) ==
  Run([s |-> s, phase |-> "prefill", batch |-> pending.members]) /\ pending' = NoPending

\* A resident decode, or the end of the paused prefill when nothing can decode.
DecodeOrFinish(p) ==
  IF p.batch = <<>> THEN FinishPending(p.s) ELSE Run(p) /\ UNCHANGED pending

Due(r) == clock >= Release(sched, r)

\* _slo_prefill_interrupt: cheaper requests that are due.
PendingTier == Min({Tier(pending.members[k]) : k \in DOMAIN pending.members})
Interrupting == {r \in ToSet(sched.waiting) : Slos /\ Tier(r) < PendingTier /\ Due(r)}

\* schedule_prefill
SchedulePrefill(s, tier) ==
  IF PrefillPlan(s, <<>>, tier).batch = <<>> THEN Raise(PrefillPlan(s, <<>>, tier), "NoAdmissiblePrefill")
  ELSE PrefillPlan(s, <<>>, tier)

DecodesFirst == decodeAfter /\ HasDecode(sched)

DecodeAfterInterrupt ==
  /\ Idle /\ pending # NoPending /\ DecodesFirst
  /\ decodeAfter' = FALSE
  /\ DecodeOrFinish(DecodePlan(sched, TRUE))
  /\ FineGrainAfter(fineGrain)

Interrupt ==
  /\ Idle /\ pending # NoPending /\ ~DecodesFirst
  /\ Interrupting # {}
  /\ Run(SchedulePrefill(sched, PendingTier))
  /\ decodeAfter' = (sched'.fault = "none")
  /\ UNCHANGED pending
  /\ FineGrainAfter(fineGrain)

\* A paused prefill whose own deadline is due, or with nothing to decode, finishes.
FinishNow ==
  /\ Idle /\ pending # NoPending /\ ~DecodesFirst
  /\ Interrupting = {}
  /\ ~HasDecode(sched) \/ \E k \in DOMAIN pending.members : Slos /\ Due(pending.members[k])
  /\ FinishPending(sched)
  /\ decodeAfter' = FALSE
  /\ FineGrainAfter(fineGrain)

Quantum == IF Slos /\ ~Latched(sched) THEN SparseQuantum ELSE 1

Advance ==
  /\ Idle /\ pending # NoPending /\ ~DecodesFirst
  /\ Interrupting = {}
  /\ HasDecode(sched) /\ \A k \in DOMAIN pending.members : ~(Slos /\ Due(pending.members[k]))
  /\ IF pending.left <= Quantum THEN FinishPending(sched)
     ELSE \E p \in {DecodePlan(sched, TRUE)} :
            IF p.batch = <<>> THEN FinishPending(p.s)
            ELSE Run(p) /\ pending' = [pending EXCEPT !.left = @ - Quantum]
  /\ decodeAfter' = FALSE
  /\ FineGrainAfter(IF Slos THEN Latched(sched) ELSE fineGrain)

Faulty_Coalesces ==
  /\ Cooperative /\ Slos
  /\ sched.waiting # <<>> /\ Len(sched.waiting) < CoalesceMin
  /\ \A r \in ToSet(sched.waiting) : clock < sched.reqs[r].sub + CoalesceWait /\ ~Due(r)

\* _should_coalesce_prefill: decode on for a while so that prefills can share a batch.
Coalesces ==
  /\ Cooperative /\ HasDecode(sched) /\ Slos
  /\ sched.waiting # <<>> /\ Len(sched.waiting) < CoalesceMin
  /\ \A r \in ToSet(sched.waiting) : clock < sched.reqs[r].sub + CoalesceWait /\ ~Due(r)

\* _start_cooperative_prefill_if_useful up to the last condition of the SLO policy, which
\* asks for the density of decode (and latches it) when the batch is light.
MayPause(p) ==
  /\ Cooperative /\ p.phase = "prefill" /\ HasDecode(p.s)
  /\ Slos =>
       /\ ~((\E r \in ToSet(p.batch) : Slo[r] # NoSlo) /\ (\A r \in ToSet(p.batch) : Tier(r) < 2))
       /\ ~\E r \in ToSet(p.batch) : Due(r)
       /\ Len(p.batch) < CoalesceMin

AsksDensity(p) == Slos /\ MayPause(p) /\ Total(Patches, p.batch) < Heavy

Pauses(p) == MayPause(p) /\ (AsksDensity(p) => Latched(p.s))

Coalesce ==
  /\ Idle /\ pending = NoPending /\ ~Finished(sched) /\ Coalesces
  /\ Run(ScheduleDecode(sched))
  /\ UNCHANGED <<pending, decodeAfter>>
  /\ FineGrainAfter(fineGrain)

\* A prefill that begins paused gives its first turn to decode.
BeginPaused(p, d) ==
  IF d.batch = <<>> THEN Run([p EXCEPT !.s = d.s]) /\ pending' = NoPending
  ELSE Run(d) /\ pending' = [members |-> p.batch, left |-> PrefillWork]

Schedule ==
  /\ Idle /\ pending = NoPending /\ ~Finished(sched) /\ ~Coalesces
  /\ \E p \in {SchedulePlan(sched)} :
       /\ IF Pauses(p) THEN BeginPaused(p, DecodePlan(p.s, TRUE))
          ELSE Run(p) /\ UNCHANGED pending
       /\ FineGrainAfter(IF AsksDensity(p) THEN Latched(p.s) ELSE fineGrain)
  /\ UNCHANGED decodeAfter

EngineStep == DecodeAfterInterrupt \/ Interrupt \/ FinishNow \/ Advance \/ Coalesce \/ Schedule

Submit(r) ==
  /\ Idle /\ sched.reqs[r].st = "new"
  /\ sched' = [sched EXCEPT !.reqs[r].st = "waiting", !.reqs[r].sub = clock, !.waiting = Append(@, r)]
  /\ UNCHANGED <<pending, decodeAfter, fineGrain, clock, passed>>

\* cancel_request: a paused prefill that r belongs to is dropped with it.
Cancel(r) ==
  /\ Idle /\ r \in ToSet(sched.waiting \o sched.running)
  /\ sched' = [sched EXCEPT !.reqs[r].st = "done", !.reqs[r].pages = 0,
                            !.waiting = Those(@, Requests \ {r}),
                            !.running = Those(@, Requests \ {r})]
  /\ pending' = IF r \in ToSet(pending.members) THEN NoPending ELSE pending
  /\ decodeAfter' = (decodeAfter /\ r \notin ToSet(pending.members))
  /\ UNCHANGED <<fineGrain, clock, passed>>

\* Time passes between two steps; only the deadlines of the SLO policy read it.
Tick ==
  /\ Idle /\ Slos /\ clock < MaxClock
  /\ clock' = clock + 1
  /\ UNCHANGED <<sched, pending, decodeAfter, fineGrain, passed>>

Next ==
  /\ \/ EngineStep
     \/ \E r \in config.clients : Submit(r) \/ Cancel(r)
     \/ Tick
  /\ UNCHANGED config

Spec == Init /\ [][Next]_vars

HasWork == Idle /\ ~Finished(sched)

\* The engine thread keeps stepping while there is work: WF_vars(EngineStep), with its
\* ENABLED <<EngineStep>>_vars written out as HasWork.
FairSpec == Spec /\ ([]<>(~HasWork) \/ []<><<EngineStep>>_vars)

-----------------------------------------------------------------------------
(* Properties.                                                             *)

\* The bypass cap holds between two heavy prefill batches: while a heavy request heads
\* the queue, at most MaxBypasses later requests are admitted before it, through every
\* mix of decode credit, dedicated batches, cancellations and admissions that fail after
\* the bypass was counted.  (Light requests that make a heavy batch together restart the
\* count, so that between two batches it is all that the code promises.)
BypassBounded == ~Slos => \A r \in Requests : passed[r] <= MaxBypasses

\* Whatever is paused, interrupted, coalesced or preempted, every submitted request ends.
EveryRequestEnds ==
  \A r \in Requests : [](sched.reqs[r].st # "new" => <>(sched.reqs[r].st = "done"))
=============================================================================
