--------------------------- MODULE ServingRuntime ---------------------------
(***************************************************************************)
(* The bridge between network requests and the engine,                      *)
(* prism_infer/serving/runtime.py: ASGI coroutines call submit, cancel and  *)
(* stop; one owner thread drives the engine in _run_engine; one CPU worker  *)
(* prepares media.  The threads share the ingress queue, the cancellation   *)
(* queue, the stop flag, and, under _state_lock, the known request ids and  *)
(* the count of admission slots.                                            *)
(*                                                                         *)
(* A submission is one call of submit.  Its critical section is two steps,  *)
(* since the owner takes submissions off the ingress queue and records a    *)
(* failure without the lock.  An owner action that takes the lock is        *)
(* enabled only while no submission holds it.  The idle wait has a timeout, *)
(* so the wake-up event is left out.                                        *)
(***************************************************************************)
EXTENDS Integers, FiniteSets, Sequences, SequencesExt, Deques

CONSTANTS
  Submissions,       (* calls of submit                                     *)
  Id,                (* Id[s]: the request_id the client chose              *)
  Media,             (* submissions with images or video                    *)
  Capacity,          (* ingress_capacity                                    *)
  MaxCancels,        (* bound on calls of cancel                            *)
  MaxOutput,         (* bound on the tokens of a request                    *)
  Nobody             (* no submission                                       *)

ASSUME RuntimeAssumption ==
  /\ Media \subseteq Submissions
  /\ Nobody \notin Submissions
  /\ {Capacity, MaxOutput} \subseteq Nat \ {0}
  /\ MaxCancels \in Nat

VARIABLES
  call,         (* call[s]: "new", "inside", "accepted" or "refused"        *)
  lock,         (* the submission inside _state_lock, or Nobody             *)
  known,        (* _known_request_ids                                       *)
  slots,        (* _unadmitted_requests                                     *)
  ingress,      (* _ingress                                                 *)
  cancels,      (* _cancellations                                           *)
  issued,       (* calls of cancel so far                                   *)
  stop,         (* _stop_requested                                          *)
  failure,      (* whether _failure is set                                  *)
  pc, left,     (* the owner's place, and what is left of a queue snapshot  *)
  marks,        (* _cancelled_before_admission                              *)
  pending,      (* _pending_media                                           *)
  mediaWaiting, (* _media_waiting                                           *)
  preparing,    (* _preparing                                               *)
  future,       (* the future of _preparing                                 *)
  active,       (* _active_by_external                                      *)
  engine,       (* external: requests the engine's scheduler holds          *)
  events        (* events[s]: what the handle was sent                      *)

clients == <<call, lock, issued>>
shared == <<known, slots, ingress, cancels, stop>>
owner == <<failure, pc, left, marks, active, engine, events>>
media == <<pending, mediaWaiting, preparing, future>>
vars == <<clients, shared, owner, media>>

Ids == {Id[s] : s \in Submissions}

Init ==
  /\ call = [s \in Submissions |-> "new"] /\ lock = Nobody /\ issued = 0
  /\ known = {} /\ slots = 0 /\ ingress = <<>> /\ cancels = <<>>
  /\ stop = FALSE /\ failure = FALSE
  /\ pc = "starting" /\ left = 0
  /\ marks = {} /\ active = {} /\ engine = {}
  /\ events = [s \in Submissions |-> <<>>]
  /\ pending = {} /\ mediaWaiting = <<>> /\ preparing = Nobody /\ future = "none"

-----------------------------------------------------------------------------
(* Network side.                                                           *)

\* is_healthy
Healthy == pc \notin {"starting", "exited"} /\ ~failure /\ ~stop

Unique(s) == Id[s] \notin known

Faulty_RoomForOneMore == slots <= Capacity

Room == slots < Capacity

\* submit up to the insertion, holding _state_lock.
SubmitCheck(s) ==
  /\ call[s] = "new"
  /\ pc # "starting"
  /\ lock = Nobody
  /\ IF Healthy /\ Unique(s) /\ Room
     THEN /\ call' = [call EXCEPT ![s] = "inside"]
          /\ lock' = s
          /\ known' = known \cup {Id[s]}
          /\ slots' = slots + 1
     ELSE /\ call' = [call EXCEPT ![s] = "refused"]
          /\ UNCHANGED <<lock, known, slots>>
  /\ UNCHANGED <<issued, ingress, cancels, stop, owner, media>>

\* put_nowait, release of the lock, return of the handle.
SubmitPut(s) ==
  /\ lock = s
  /\ ingress' = Append(ingress, s)
  /\ call' = [call EXCEPT ![s] = "accepted"]
  /\ lock' = Nobody
  /\ UNCHANGED <<issued, known, slots, cancels, stop, owner, media>>

Cancel(id) ==
  /\ issued < MaxCancels
  /\ issued' = issued + 1
  /\ cancels' = Append(cancels, id)
  /\ UNCHANGED <<call, lock, known, slots, ingress, stop, owner, media>>

Faulty_StopWithoutLock ==
  /\ ~stop
  /\ stop' = TRUE
  /\ UNCHANGED <<clients, known, slots, ingress, cancels, owner, media>>

\* stop, whose join returns with Exit.
Stop ==
  /\ ~stop
  /\ lock = Nobody
  /\ stop' = TRUE
  /\ UNCHANGED <<clients, known, slots, ingress, cancels, owner, media>>

-----------------------------------------------------------------------------
(* Terminal events.  The operators give the primed values of what they      *)
(* touch; S is a set of submissions that end together.                      *)

Publish(S, kinds) == [s \in Submissions |-> events[s] \o IF s \in S THEN kinds ELSE <<>>]

Faulty_ForgetKeepsMarks(S) ==
  /\ known' = known \ {Id[s] : s \in S}
  /\ UNCHANGED marks

\* _forget_request_id
Forget(S) ==
  /\ known' = known \ {Id[s] : s \in S}
  /\ marks' = marks \ {Id[s] : s \in S}

ReleaseSlots(n) == slots' = slots - n

\* _discard_preparation: a waiting one gives back its slot, a running one keeps it
\* until the worker is done; its future is cancelled if the worker has not begun.
Discard(s, kind) ==
  /\ pending' = pending \ {s}
  /\ IF s \in ToSet(mediaWaiting)
     THEN mediaWaiting' = Without(mediaWaiting, s) /\ ReleaseSlots(1)
     ELSE UNCHANGED <<mediaWaiting, slots>>
  /\ future' = IF preparing = s /\ future = "queued" THEN "cancelled" ELSE future
  /\ events' = Publish({s}, <<kind>>)
  /\ Forget({s})
  /\ UNCHANGED preparing

-----------------------------------------------------------------------------
(* The owner thread.                                                       *)

Goto(place) == pc' = place

\* An exception leaves _run_engine for the handler of _thread_main.
Raise == Goto("raised") /\ UNCHANGED failure

\* _thread_main up to _run_engine.
Start ==
  /\ pc = "starting"
  /\ Goto("loop")
  /\ UNCHANGED <<clients, shared, failure, left, marks, active, engine, events, media>>

\* The factory raises; _ready is set after _failure, so no submit sees it in between.
StartFails ==
  /\ pc = "starting"
  /\ failure' = TRUE
  /\ Goto("failing")
  /\ UNCHANGED <<clients, shared, left, marks, active, engine, events, media>>

\* The head of the loop in _run_engine, with the snapshot of the first
\* _apply_cancellations.
LoopTop ==
  /\ pc = "loop"
  /\ Goto(IF stop THEN "stopping" ELSE "cancels")
  /\ left' = Len(cancels)
  /\ UNCHANGED <<clients, shared, failure, marks, active, engine, events, media>>

Named(S, id) == {s \in S : Id[s] = id}

\* One cancellation: a media request that is being prepared, an active one, or one
\* still on its way to admission; any other id is ignored, and so is an active
\* request that the engine no longer holds (cancel_request returns False).
ApplyCancellation ==
  /\ pc \in {"cancels", "recancels"}
  /\ left > 0
  /\ lock = Nobody
  /\ cancels' = Tail(cancels)
  /\ left' = left - 1
  /\ LET id == Head(cancels)
         ending == Named(active, id) \cap engine
     IN  IF Named(pending, id) # {}
         THEN /\ \E s \in Named(pending, id) : Discard(s, "done")
              /\ UNCHANGED <<active, engine>>
         ELSE IF Named(active, id) # {}
         THEN /\ active' = active \ ending
              /\ engine' = engine \ ending
              /\ events' = Publish(ending, <<"done">>)
              /\ Forget(ending)
              /\ UNCHANGED <<slots, media>>
         ELSE /\ marks' = marks \cup ({id} \cap known)
              /\ UNCHANGED <<known, slots, active, engine, events, media>>
  /\ UNCHANGED <<clients, ingress, stop, failure, pc>>

CancellationsDone ==
  /\ pc \in {"cancels", "recancels"}
  /\ left = 0
  /\ Goto(IF pc = "cancels" THEN "prepared" ELSE "step")
  /\ UNCHANGED <<clients, shared, failure, left, marks, active, engine, events, media>>

\* The outcomes of _submit_to_engine for s: admitted, rejected, or a bad request.
SubmitToEngine(s) ==
  \/ /\ active' = active \cup {s}
     /\ engine' = engine \cup {s}
     /\ events' = Publish({s}, <<"accepted">>)
     /\ UNCHANGED <<known, marks>>
  \/ /\ events' = Publish({s}, <<"accepted", "done">>)
     /\ Forget({s})
     /\ UNCHANGED <<active, engine>>
  \/ /\ events' = Publish({s}, <<"error">>)
     /\ Forget({s})
     /\ UNCHANGED <<active, engine>>

Faulty_PreparedIgnoresDiscard == FALSE

\* The prepared request was cancelled, or the runtime is stopping.
Discarded == preparing \notin pending

Faulty_FutureDoneWhenReady == preparing # Nobody /\ future = "ready"

FutureDone == preparing # Nobody /\ future \in {"ready", "failed", "cancelled"}

DrainFrom == Goto("drain") /\ left' = Len(ingress)

NotPrepared ==
  /\ pc = "prepared"
  /\ ~FutureDone
  /\ DrainFrom
  /\ UNCHANGED <<clients, shared, failure, marks, active, engine, events, media>>

\* _admit_prepared
AdmitPrepared ==
  /\ pc = "prepared"
  /\ FutureDone
  /\ lock = Nobody
  /\ preparing' = Nobody
  /\ future' = "none"
  /\ pending' = pending \ {preparing}
  /\ ReleaseSlots(1)
  /\ IF Discarded
     THEN UNCHANGED <<known, marks, active, engine, events>>
     ELSE IF stop
     THEN events' = Publish({preparing}, <<"done">>) /\ Forget({preparing}) /\ UNCHANGED <<active, engine>>
     ELSE IF future # "ready"
     THEN events' = Publish({preparing}, <<"error">>) /\ Forget({preparing}) /\ UNCHANGED <<active, engine>>
     ELSE SubmitToEngine(preparing)
  /\ DrainFrom
  /\ UNCHANGED <<clients, ingress, cancels, stop, failure, mediaWaiting>>

Drained == left = 0 \/ stop

\* The test at the head of the loop in _drain_ingress; stop may come right after it.
DrainNext ==
  /\ pc = "drain"
  /\ ~Drained
  /\ Goto("admit")
  /\ UNCHANGED <<clients, shared, failure, left, marks, active, engine, events, media>>

\* _drain_ingress takes one submission; _admit.
Admit ==
  /\ pc = "admit"
  /\ lock = Nobody
  /\ ingress' = Tail(ingress)
  /\ left' = left - 1
  /\ LET s == Head(ingress)
     IN  IF Id[s] \in marks \/ stop
         THEN /\ events' = Publish({s}, <<"done">>)
              /\ Forget({s})
              /\ ReleaseSlots(1)
              /\ UNCHANGED <<active, engine, media>>
         ELSE IF s \notin Media
         THEN SubmitToEngine(s) /\ ReleaseSlots(1) /\ UNCHANGED media
         ELSE /\ pending' = pending \cup {s}
              /\ mediaWaiting' = Append(mediaWaiting, s)
              /\ UNCHANGED <<preparing, future, known, slots, marks, active, engine, events>>
  /\ Goto("drain")
  /\ UNCHANGED <<clients, cancels, stop, failure>>

\* The end of the drain, then _start_preparation: at most one future exists.
StartPreparation ==
  /\ pc = "drain"
  /\ Drained
  /\ IF preparing = Nobody /\ mediaWaiting # <<>> /\ ~stop
     THEN /\ preparing' = Head(mediaWaiting)
          /\ mediaWaiting' = Tail(mediaWaiting)
          /\ future' = "queued"
     ELSE UNCHANGED <<preparing, mediaWaiting, future>>
  /\ Goto("recancels")
  /\ left' = Len(cancels)
  /\ UNCHANGED <<clients, shared, failure, marks, active, engine, events, pending>>

Tokens(s) == Len(SelectSeq(events[s], LAMBDA e : e = "token"))

\* What step_result may return: tokens for the requests of batch, none in a step that
\* only prefills; a request ends at the latest at its bound.
StepResult(batch, ended) == \A s \in batch : Tokens(s) + 1 = MaxOutput => s \in ended

\* _execute_step after step_result: the requests of told get their token, those of
\* finished (_finish_active) their terminal event.
Served(ended, told, finished) ==
  /\ engine' = engine \ ended
  /\ active' = active \ finished
  /\ events' = [s \in Submissions |->
                  events[s] \o (IF s \in told \cap active THEN <<"token">> ELSE <<>>)
                            \o (IF s \in finished \cap active THEN <<"done">> ELSE <<>>)]
  /\ Forget(finished \cap active)

ExecuteStep ==
  /\ pc = "step"
  /\ engine # {}
  /\ lock = Nobody
  /\ \E batch \in SUBSET engine : \E ended \in SUBSET batch :
       StepResult(batch, ended) /\ Served(ended, batch, ended)
  /\ Goto("loop")
  /\ UNCHANGED <<clients, slots, ingress, cancels, stop, failure, left, media>>

\* The idle wait.
IdleWait ==
  /\ pc = "step"
  /\ engine = {}
  /\ Goto("loop")
  /\ UNCHANGED <<clients, shared, failure, left, marks, active, engine, events, media>>

\* A call raises: step_result (nothing is served) or a decode of the tokenizer after
\* some tokens, or after all tokens and some terminal events, are published, ...
StepRaises ==
  /\ pc = "step"
  /\ engine # {}
  /\ \E batch \in SUBSET engine : \E ended, told \in SUBSET batch : \E finished \in SUBSET ended :
       /\ StepResult(batch, ended)
       /\ finished # {} => told = batch /\ lock = Nobody
       /\ Served(ended, told, finished)
  /\ Raise
  /\ UNCHANGED <<clients, slots, ingress, cancels, stop, left, media>>

\* ... add_request or _allocate_request_id for the head of the ingress queue, ...
AdmissionRaises ==
  /\ pc = "admit"
  /\ ~stop
  /\ lock = Nobody
  /\ Id[Head(ingress)] \notin marks
  /\ ingress' = Tail(ingress)
  /\ events' = Publish({Head(ingress)}, <<"error">>)
  /\ Forget({Head(ingress)})
  /\ ReleaseSlots(1)
  /\ Raise
  /\ UNCHANGED <<clients, cancels, stop, left, active, engine, media>>

\* ... _submit_sequence for a prepared request, ...
PreparedRaises ==
  /\ pc = "prepared"
  /\ future = "ready"
  /\ ~Discarded
  /\ ~stop
  /\ lock = Nobody
  /\ preparing' = Nobody
  /\ future' = "none"
  /\ pending' = pending \ {preparing}
  /\ events' = Publish({preparing}, <<"error">>)
  /\ Forget({preparing})
  /\ ReleaseSlots(1)
  /\ Raise
  /\ UNCHANGED <<clients, ingress, cancels, stop, left, active, engine, mediaWaiting>>

\* ... cancel_request for a cancellation, ...
CancelRaises ==
  /\ pc \in {"cancels", "recancels"}
  /\ left > 0
  /\ Named(pending, Head(cancels)) = {}
  /\ Named(active, Head(cancels)) # {}
  /\ cancels' = Tail(cancels)
  /\ Raise
  /\ UNCHANGED <<clients, known, slots, ingress, stop, left, marks, active, engine, events, media>>

\* ... or cancel_request in _cancel_all_active, after some of the active requests.
StopRaises ==
  /\ pc = "stopping"
  /\ lock = Nobody
  /\ \E done \in SUBSET active \ {active} :
       /\ active' = active \ done
       /\ engine' = engine \ done
       /\ events' = Publish(done, <<"done">>)
       /\ Forget(done)
  /\ Raise
  /\ UNCHANGED <<clients, slots, ingress, cancels, stop, left, media>>

-----------------------------------------------------------------------------
(* The end of the owner thread.                                            *)

\* The handler of _thread_main sets _failure, without _state_lock.
RecordFailure ==
  /\ pc = "raised"
  /\ failure' = TRUE
  /\ Goto("failing")
  /\ UNCHANGED <<clients, shared, left, marks, active, engine, events, media>>

\* _cancel_all_active up to the ingress queue.
StopAll ==
  /\ pc = "stopping"
  /\ lock = Nobody \/ active \cup pending = {}
  /\ active' = {}
  /\ engine' = engine \ active
  /\ pending' = {}
  /\ mediaWaiting' = <<>>
  /\ future' = IF preparing \in pending /\ future = "queued" THEN "cancelled" ELSE future
  /\ ReleaseSlots(Len(mediaWaiting))
  /\ events' = Publish(active \cup pending, <<"done">>)
  /\ Forget(active \cup pending)
  /\ Goto("draining")
  /\ UNCHANGED <<clients, ingress, cancels, stop, failure, left, preparing>>

\* _fail_all up to the ingress queue.
FailAll ==
  /\ pc = "failing"
  /\ lock = Nobody \/ active \cup pending = {}
  /\ active' = {}
  /\ pending' = {}
  /\ mediaWaiting' = <<>>
  /\ future' = IF preparing \in pending /\ future = "queued" THEN "cancelled" ELSE future
  /\ ReleaseSlots(Len(mediaWaiting))
  /\ events' = Publish(active \cup pending, <<"error">>)
  /\ Forget(active \cup pending)
  /\ Goto("draining")
  /\ UNCHANGED <<clients, ingress, cancels, stop, failure, left, engine, preparing>>

\* The loop that ends both: one submission off the queue, until it is empty.
DrainOne ==
  /\ pc = "draining"
  /\ ingress # <<>>
  /\ lock = Nobody
  /\ ingress' = Tail(ingress)
  /\ events' = Publish({Head(ingress)}, IF failure THEN <<"error">> ELSE <<"done">>)
  /\ Forget({Head(ingress)})
  /\ ReleaseSlots(1)
  /\ UNCHANGED <<clients, cancels, stop, failure, pc, left, active, engine, media>>

DrainEnds ==
  /\ pc = "draining"
  /\ ingress = <<>>
  /\ Goto("closing")
  /\ UNCHANGED <<clients, shared, failure, left, marks, active, engine, events, media>>

Faulty_WorkerQuiet == TRUE

\* Executor.shutdown(wait=True) returns when no future runs.
WorkerQuiet == future # "running"

Faulty_ExitKeepsSlot ==
  /\ pc = "closing"
  /\ WorkerQuiet
  /\ preparing' = Nobody
  /\ future' = "none"
  /\ Goto("exited")
  /\ UNCHANGED <<clients, shared, failure, left, marks, active, engine, events, pending,
                 mediaWaiting>>

\* The finally clause: the worker first, then engine.exit.
Exit ==
  /\ pc = "closing"
  /\ WorkerQuiet
  /\ preparing # Nobody => lock = Nobody
  /\ preparing' = Nobody
  /\ future' = IF future = "running" THEN future ELSE "none"
  /\ ReleaseSlots(IF preparing = Nobody THEN 0 ELSE 1)
  /\ Goto("exited")
  /\ UNCHANGED <<clients, known, ingress, cancels, stop, failure, left, marks, active,
                 engine, events, pending, mediaWaiting>>

-----------------------------------------------------------------------------
(* The CPU worker.                                                         *)

WorkerBegins ==
  /\ future = "queued"
  /\ future' = "running"
  /\ UNCHANGED <<clients, shared, owner, pending, mediaWaiting, preparing>>

WorkerEnds ==
  /\ future = "running"
  /\ \E outcome \in {"ready", "failed"} : future' = outcome
  /\ UNCHANGED <<clients, shared, owner, pending, mediaWaiting, preparing>>

Worker == WorkerBegins \/ WorkerEnds

OwnerStep ==
  \/ Start \/ LoopTop \/ ApplyCancellation \/ CancellationsDone
  \/ NotPrepared \/ AdmitPrepared \/ DrainNext \/ Admit \/ StartPreparation
  \/ ExecuteStep \/ IdleWait
  \/ RecordFailure \/ StopAll \/ FailAll \/ DrainOne \/ DrainEnds \/ Exit

Failing ==
  \/ StartFails \/ StepRaises \/ AdmissionRaises \/ PreparedRaises
  \/ CancelRaises \/ StopRaises

Network ==
  \/ \E s \in Submissions : SubmitCheck(s) \/ SubmitPut(s)
  \/ \E id \in Ids : Cancel(id)
  \/ Stop

Next == OwnerStep \/ Failing \/ Worker \/ Network

Spec == Init /\ [][Next]_vars

\* The threads run: the owner and the worker are never descheduled for ever, and
\* submit leaves its critical section.  An engine that is still stepped does not step
\* for ever without a token for a request it holds.
FairSpec ==
  /\ Spec
  /\ WF_vars(OwnerStep)
  /\ WF_vars(Worker)
  /\ \A s \in Submissions : WF_vars(SubmitPut(s))
  /\ []<>(engine = {} \/ pc = "exited") \/ []<><<ExecuteStep /\ events' # events>>_vars

-----------------------------------------------------------------------------
(* Properties.                                                             *)

Ended(s) == \E i \in DOMAIN events[s] : events[s][i] \in {"done", "error"}

Live == {s \in Submissions : call[s] \in {"inside", "accepted"} /\ ~Ended(s)}

\* Every variable has its type.
TypeOK ==
  /\ call \in [Submissions -> {"new", "inside", "accepted", "refused"}]
  /\ {lock, preparing} \subseteq Submissions \cup {Nobody}
  /\ known \subseteq Ids /\ marks \subseteq Ids
  /\ slots \in 0..Capacity /\ left \in Nat /\ issued \in 0..MaxCancels
  /\ ingress \in Seq(Submissions) /\ mediaWaiting \in Seq(Submissions)
  /\ cancels \in Seq(Ids)
  /\ {stop, failure} \subseteq BOOLEAN
  /\ pending \subseteq Media /\ active \subseteq Submissions /\ engine \subseteq Submissions
  /\ future \in {"none", "queued", "running", "ready", "failed", "cancelled"}
  /\ pc \in {"starting", "loop", "cancels", "prepared", "drain", "admit", "recancels",
            "step", "stopping", "raised", "failing", "draining", "closing", "exited"}
  /\ \A s \in Submissions : events[s] \in Seq({"accepted", "token", "done", "error"})

\* A slot of ingress_capacity is held by exactly the submissions in the ingress queue,
\* in the media queue, with the CPU worker (discarded or not) or inside submit: no
\* path of cancellation, failure or shutdown gives one back twice or keeps one.
SlotsExact ==
  slots = Len(ingress) + Len(mediaWaiting)
            + (IF preparing = Nobody THEN 0 ELSE 1) + (IF lock = Nobody THEN 0 ELSE 1)

\* _known_request_ids holds the ids of exactly the unanswered submissions, and no two
\* unanswered submissions share an id, so the dictionaries keyed by it never clash.
KnownExact ==
  /\ known = {Id[s] : s \in Live}
  /\ \A s, t \in Live : Id[s] = Id[t] => s = t

\* A handle gets at most one terminal event and nothing after it, whatever the
\* cancellations, the late preparation, the step and the shutdown publish.
TerminalIsLast ==
  \A s \in Submissions : \A i \in DOMAIN events[s] :
    events[s][i] \in {"done", "error"} => i = Len(events[s])

\* A mark of _cancelled_before_admission stands for a submission still on its way to
\* admission: no mark outlives its request to cancel a later one with the same id.
MarksPending ==
  marks \subseteq {Id[s] : s \in {t \in Live : lock = t \/ t \in ToSet(ingress)}}

\* What the runtime remembers of ids is exact on every path: known ids and marks.
IdsExact == KnownExact /\ MarksPending

\* The engine runs exactly the requests that wait for an answer from it, until a
\* failure or the end of the owner thread: an answered request never keeps its pages.
EngineServesLive == ~failure /\ pc # "raised" => engine = active /\ active \subseteq Live

\* The media worker reads engine state only while the engine exists: no preparation
\* runs once engine.exit has been called.
WorkerDoneBeforeExit == pc = "exited" => future # "running"

\* The engine is used for live requests only, and by nobody once it is torn down.
EngineUseSafe == EngineServesLive /\ WorkerDoneBeforeExit

\* A shutdown without failure answers every accepted request, empties the engine and
\* returns every slot.
CleanShutdown ==
  pc = "exited" /\ ~failure =>
    /\ engine = {} /\ slots = 0 /\ known = {}
    /\ \A s \in Submissions : call[s] = "accepted" => Ended(s)

\* Every accepted request is answered with a terminal event, unless the engine fails.
AllAnswered == \A s \in Submissions : call[s] = "accepted" ~> Ended(s) \/ failure

\* Once the owner thread has ended, no handle waits for an event: what
\* _collect_response relies on when it collects until a done or an error arrives.
NoneStranded ==
  pc = "exited" => \A s \in Submissions : call[s] = "accepted" => Ended(s)
=============================================================================
