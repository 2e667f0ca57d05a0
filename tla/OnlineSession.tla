---------------------------- MODULE OnlineSession ----------------------------
(* OnlineServingSession: one control thread that submits arrivals, publishes *)
(* prepared media requests, applies cancellations and steps the engine, with *)
(* a bounded pool of preparation workers, and the metrics its summary reads. *)
(*                                                                           *)
(* Time passes between any two steps, so every reading of the clock may see  *)
(* another time.  The engine is the promise of RequestLifecycle: a step      *)
(* serves some of the live requests and gives some of those a token.         *)
EXTENDS Naturals, FiniteSets, Sequences, Functions, Deques

CONSTANTS
    Keys,           \* request keys; keys are ordered numbers
    Load,           \* key -> [media, arrival, cancel, tokens]
    NoCancel,       \* the cancel offset of a request that has none
    Workers,        \* _ONLINE_PREPROCESS_WORKERS
    QueueLimit,     \* max_waiting_requests of the scheduler
    MayFail,        \* may media preparation raise?
    MaxClock        \* bound on the clock

ASSUME SessionAssumption ==
    /\ Keys \subseteq Nat /\ IsFiniteSet(Keys) /\ Keys # {}
    /\ {Workers, QueueLimit} \subseteq Nat \ {0}
    /\ MayFail \in BOOLEAN /\ MaxClock \in Nat
    /\ \A k \in Keys :
          /\ Load[k].media \in BOOLEAN
          /\ Load[k].arrival \in 0..MaxClock
          /\ Load[k].tokens \in Nat \ {0}
          /\ Load[k].cancel = NoCancel \/ Load[k].cancel \in Load[k].arrival..MaxClock

VARIABLES
    now,            \* the clock
    pc,             \* where the control thread stands in _drive_event_loop
    pending,        \* arrivals to come, in order of their time
    cancels,        \* cancellations to come, in order of their time
    known,          \* the keys of internal_ids
    preparing,      \* preprocessing, in order of insertion
    future,         \* key -> state of its preparation
    todo,           \* what is left of one pass of _admit_ready_preprocessing
    admitted,       \* admitted_keys
    deferred,       \* deferred_cancellations
    status,         \* the engine's state of each request
    batch,          \* the requests of the step underway
    outputs,        \* the keys whose tokens the session has collected
    metrics         \* the RequestMetrics record of each request

vars == <<now, pc, pending, cancels, known, preparing, future, todo, admitted,
          deferred, status, batch, outputs, metrics>>

session == <<pending, cancels, known, preparing, todo, admitted, deferred, outputs>>

NoTime == MaxClock + 1

Live == {k \in Keys : status[k] \in {"waiting", "running"}}
Terminal == {"finished", "cancelled", "rejected"}

ArrivesBefore(j, k) ==
    \/ Load[j].arrival < Load[k].arrival
    \/ Load[j].arrival = Load[k].arrival /\ j < k

CancelsBefore(j, k) ==
    \/ Load[j].cancel < Load[k].cancel
    \/ Load[j].cancel = Load[k].cancel /\ j < k

(* A deque of the members of S, sorted.                                      *)
Sorted(S, Before(_, _)) ==
    {s \in [1..Cardinality(S) -> S] :
        Range(s) = S /\ \A i, j \in DOMAIN s : i < j => Before(s[i], s[j])}

NoMetrics == [submitted |-> NoTime, first_scheduled |-> NoTime,
              first_token |-> NoTime, finished |-> NoTime,
              tokens |-> 0, reason |-> "none"]

(* _new_run_state *)
Init ==
    /\ now = 0
    /\ pc = "loop"
    /\ pending \in Sorted(Keys, ArrivesBefore)
    /\ cancels \in Sorted({k \in Keys : Load[k].cancel # NoCancel}, CancelsBefore)
    /\ known = {} /\ preparing = <<>> /\ todo = <<>>
    /\ admitted = {} /\ deferred = {} /\ batch = {} /\ outputs = {}
    /\ future = [k \in Keys |-> "none"]
    /\ status = [k \in Keys |-> "unknown"]
    /\ metrics = [k \in Keys |-> NoMetrics]

-----------------------------------------------------------------------------
(* Engine calls *)

(* _submit_sequence: the record is opened at the intended arrival time; the  *)
(* scheduler refuses a request when its queue is full, which closes it.      *)
Submit(k) ==
    IF Cardinality({j \in Keys : status[j] = "waiting"}) >= QueueLimit
    THEN /\ status' = [status EXCEPT ![k] = "rejected"]
         /\ metrics' = [metrics EXCEPT ![k] =
                [NoMetrics EXCEPT !.submitted = Load[k].arrival,
                                  !.finished = now, !.reason = "rejected"]]
    ELSE /\ status' = [status EXCEPT ![k] = "waiting"]
         /\ metrics' = [metrics EXCEPT ![k] =
                [NoMetrics EXCEPT !.submitted = Load[k].arrival]]

CancelledStatus(st, k) ==
    [st EXCEPT ![k] = IF @ \in {"waiting", "running"} THEN "cancelled" ELSE @]

(* mark_terminal, when the scheduler has cancelled something.                *)
CancelledMetrics(st, ms, k) ==
    IF st[k] \in {"waiting", "running"}
    THEN [ms EXCEPT ![k].finished = now, ![k].reason = "cancelled"]
    ELSE ms

-----------------------------------------------------------------------------
(* The control thread *)

Goto(place) == pc' = place

IsFinished == Live = {}

Enter ==
    /\ pc = "loop"
    /\ pending # <<>> \/ preparing # <<>> \/ ~IsFinished
    /\ Goto("arrivals")
    /\ UNCHANGED <<now, session, future, status, batch, metrics>>

End ==
    /\ pc = "loop"
    /\ pending = <<>> /\ preparing = <<>> /\ IsFinished
    /\ Goto("ended")
    /\ UNCHANGED <<now, session, future, status, batch, metrics>>

SubmitText ==
    /\ pc = "arrivals" /\ pending # <<>>
    /\ Load[Head(pending)].arrival <= now
    /\ ~Load[Head(pending)].media
    /\ Submit(Head(pending))
    /\ known' = known \cup {Head(pending)}
    /\ admitted' = admitted \cup {Head(pending)}
    /\ pending' = Tail(pending)
    /\ UNCHANGED <<now, pc, cancels, preparing, future, todo, deferred, batch, outputs>>

SubmitMedia ==
    /\ pc = "arrivals" /\ pending # <<>>
    /\ Load[Head(pending)].arrival <= now
    /\ Load[Head(pending)].media
    /\ known' = known \cup {Head(pending)}
    /\ preparing' = Append(preparing, Head(pending))
    /\ future' = [future EXCEPT ![Head(pending)] = "queued"]
    /\ pending' = Tail(pending)
    /\ UNCHANGED <<now, pc, cancels, todo, admitted, deferred, status, batch, outputs,
                   metrics>>

NoMoreArrivals ==
    /\ pc = "arrivals"
    /\ pending # <<>> => Load[Head(pending)].arrival > now
    /\ todo' = preparing
    /\ Goto("admit")
    /\ UNCHANGED <<now, pending, cancels, known, preparing, future, admitted, deferred,
                   status, batch, outputs, metrics>>

SkipUnfinished ==
    /\ pc = "admit" /\ todo # <<>>
    /\ future[Head(todo)] \in {"queued", "running"}
    /\ todo' = Tail(todo)
    /\ UNCHANGED <<now, pc, pending, cancels, known, preparing, future, admitted,
                   deferred, status, batch, outputs, metrics>>

(* A mutated form of AdmitPrepared: it does not look at the deferred         *)
(* cancellations.                                                            *)
Faulty_AdmitPrepared ==
    /\ pc = "admit" /\ todo # <<>>
    /\ future[Head(todo)] = "ok"
    /\ Submit(Head(todo))
    /\ admitted' = admitted \cup {Head(todo)}
    /\ preparing' = Without(preparing, Head(todo))
    /\ todo' = Tail(todo)
    /\ UNCHANGED <<now, pc, pending, cancels, known, future, deferred, batch, outputs>>

(* A prepared request is submitted, and cancelled at once if that was asked  *)
(* for while it was prepared.                                                *)
AdmitPrepared ==
    /\ pc = "admit" /\ todo # <<>>
    /\ future[Head(todo)] = "ok"
    /\ Submit(Head(todo))
    /\ admitted' = admitted \cup {Head(todo)}
    /\ preparing' = Without(preparing, Head(todo))
    /\ IF Head(todo) \in deferred
       THEN Goto("cancelling") /\ UNCHANGED todo
       ELSE todo' = Tail(todo) /\ UNCHANGED pc
    /\ UNCHANGED <<now, pending, cancels, known, future, deferred, batch, outputs>>

CancelPrepared ==
    /\ pc = "cancelling"
    /\ status' = CancelledStatus(status, Head(todo))
    /\ metrics' = CancelledMetrics(status, metrics, Head(todo))
    /\ deferred' = deferred \ {Head(todo)}
    /\ todo' = Tail(todo)
    /\ Goto("admit")
    /\ UNCHANGED <<now, pending, cancels, known, preparing, future, admitted, batch,
                   outputs>>

(* future.result() raises what the preparation raised, and run ends with it. *)
PreparationRaises ==
    /\ pc = "admit" /\ todo # <<>>
    /\ future[Head(todo)] = "failed"
    /\ Goto("raised")
    /\ UNCHANGED <<now, session, future, status, batch, metrics>>

AdmitDone ==
    /\ pc = "admit" /\ todo = <<>>
    /\ Goto("cancellations")
    /\ UNCHANGED <<now, session, future, status, batch, metrics>>

(* _apply_ready_cancellations: an unknown key is passed over.                *)
ApplyCancellation ==
    /\ pc = "cancellations" /\ cancels # <<>>
    /\ Load[Head(cancels)].cancel <= now
    /\ cancels' = Tail(cancels)
    /\ IF Head(cancels) \in admitted
       THEN /\ status' = CancelledStatus(status, Head(cancels))
            /\ metrics' = CancelledMetrics(status, metrics, Head(cancels))
            /\ UNCHANGED deferred
       ELSE /\ deferred' = deferred \cup ({Head(cancels)} \cap known)
            /\ UNCHANGED <<status, metrics>>
    /\ UNCHANGED <<now, pc, pending, known, preparing, future, todo, admitted, batch,
                   outputs>>

NoMoreCancellations ==
    /\ pc = "cancellations"
    /\ cancels # <<>> => Load[Head(cancels)].cancel > now
    /\ Goto(IF IsFinished THEN "wait" ELSE "plan")
    /\ UNCHANGED <<now, session, future, status, batch, metrics>>

(* The engine plans some of the live requests: on_batch_planned.             *)
Plan ==
    /\ pc = "plan"
    /\ \E b \in SUBSET Live :
          /\ b # {}
          /\ batch' = b
          /\ status' = [k \in Keys |-> IF k \in b THEN "running" ELSE status[k]]
          /\ metrics' = [k \in Keys |->
                IF k \in b /\ metrics[k].first_scheduled = NoTime
                THEN [metrics[k] EXCEPT !.first_scheduled = now]
                ELSE metrics[k]]
    /\ Goto("execute")
    /\ UNCHANGED <<now, session, future>>

(* on_batch_completed: one more token, its time kept if it is the first.     *)
Tokened(m) ==
    [m EXCEPT !.tokens = @ + 1, !.first_token = IF @ = NoTime THEN now ELSE @]

(* on_requests_finished *)
Closed(m, k) ==
    IF m.tokens = Load[k].tokens
    THEN [m EXCEPT !.finished = now, !.reason = "length"] ELSE m

(* It executes the batch; a member gets a token unless its prompt is only    *)
(* partly computed.  The outputs of the finished ones are collected.         *)
Execute ==
    /\ pc = "execute"
    /\ \E b \in SUBSET batch :
          /\ metrics' = [k \in Keys |->
                IF k \in b THEN Closed(Tokened(metrics[k]), k) ELSE metrics[k]]
          /\ status' = [k \in Keys |->
                IF k \in b /\ metrics[k].tokens + 1 = Load[k].tokens
                THEN "finished" ELSE status[k]]
          /\ outputs' = outputs \cup
                {k \in b : metrics[k].tokens + 1 = Load[k].tokens}
    /\ batch' = {}
    /\ Goto("loop")
    /\ UNCHANGED <<now, pending, cancels, known, preparing, future, todo, admitted,
                   deferred>>

(* A mutated form of Wait: with an arrival to come, only that is waited for. *)
Faulty_Wait ==
    /\ pc = "wait"
    /\ pending # <<>> /\ Load[Head(pending)].arrival <= now
    /\ Goto("loop")
    /\ UNCHANGED <<now, session, future, status, batch, metrics>>

(* _wait_for_next_event: for a preparation, the next arrival, or nothing.    *)
Wait ==
    /\ pc = "wait"
    /\ \/ \E i \in DOMAIN preparing : future[preparing[i]] \in {"ok", "failed"}
       \/ pending # <<>> /\ Load[Head(pending)].arrival <= now
       \/ pending = <<>> /\ preparing = <<>>
    /\ Goto("loop")
    /\ UNCHANGED <<now, session, future, status, batch, metrics>>

-----------------------------------------------------------------------------
(* Workers and time *)

(* The executor starts queued work in order, on a free worker.               *)
StartPreparation(k) ==
    /\ future[k] = "queued"
    /\ Cardinality({j \in Keys : future[j] = "running"}) < Workers
    /\ \A j \in Keys : future[j] = "queued" => ~ArrivesBefore(j, k)
    /\ future' = [future EXCEPT ![k] = "running"]
    /\ UNCHANGED <<now, pc, session, status, batch, metrics>>

FinishPreparation(k) ==
    /\ future[k] = "running"
    /\ \E outcome \in IF MayFail THEN {"ok", "failed"} ELSE {"ok"} :
          future' = [future EXCEPT ![k] = outcome]
    /\ UNCHANGED <<now, pc, session, status, batch, metrics>>

Tick ==
    /\ now < MaxClock
    /\ now' = now + 1
    /\ UNCHANGED <<pc, session, future, status, batch, metrics>>

Control ==
    \/ Enter \/ End \/ SubmitText \/ SubmitMedia \/ NoMoreArrivals
    \/ SkipUnfinished \/ AdmitPrepared \/ CancelPrepared \/ PreparationRaises
    \/ AdmitDone \/ ApplyCancellation \/ NoMoreCancellations
    \/ Plan \/ Execute \/ Wait

Worker(k) == StartPreparation(k) \/ FinishPreparation(k)

Next == Control \/ (\E k \in Keys : Worker(k)) \/ Tick

Spec == Init /\ [][Next]_vars

(* The engine serves every live request in the end and its prefills are      *)
(* finite; the control thread, the workers and the clock run.                *)
Fairness ==
    /\ WF_vars(Control)
    /\ \A k \in Keys : WF_vars(Worker(k))
    /\ \A k \in Keys :
          /\ SF_vars(Plan /\ k \in batch')
          /\ SF_vars(Execute /\ metrics'[k].tokens > metrics[k].tokens)
    /\ WF_vars(Tick)

FairSpec == Spec /\ Fairness

-----------------------------------------------------------------------------
(* Properties *)

(* A completed request has the latencies the summary needs, none of them     *)
(* negative (_completed_metric_values), whatever clock readings it met.      *)
Summarizable(m) ==
    m.reason = "length" =>
        /\ m.submitted <= m.first_scheduled
        /\ m.first_scheduled <= m.first_token
        /\ m.first_token <= m.finished
        /\ m.finished <= MaxClock

(* The results agree: when the loop ends, every request has ended, in the    *)
(* same way in the engine, the metrics and the collected outputs, and no     *)
(* cancellation taken over during preparation was forgotten; a cancellation  *)
(* is deferred only while its request is being prepared.                     *)
ResultsConsistent ==
    /\ deferred \subseteq Range(preparing)
          \cup (IF pc = "cancelling" THEN {Head(todo)} ELSE {})
    /\ pc = "ended" => \A k \in Keys :
          /\ k \in known /\ status[k] \in Terminal
          /\ metrics[k].reason =
                IF status[k] = "finished" THEN "length" ELSE status[k]
          /\ status[k] = "finished" <=> k \in outputs
          /\ Summarizable(metrics[k])

(* run returns or raises; no order of arrivals, preparations, cancellations  *)
(* and steps leaves the loop waiting for ever.                               *)
SessionEnds == <>(pc \in {"ended", "raised"})
=============================================================================
