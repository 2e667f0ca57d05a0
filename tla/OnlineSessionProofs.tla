------------------------- MODULE OnlineSessionProofs -------------------------
(* Proofs that a session forgets no request and no cancellation and that its *)
(* results agree with the engine and the metrics, for any load, any number   *)
(* of preparation workers, any queue limit and any order of arrivals,        *)
(* preparations, cancellations and steps.                                    *)
(*                                                                           *)
(* The invariant follows a request through the tables of the session:        *)
(* pending, then known and preparing (media) or admitted; and it keeps the   *)
(* record of an admitted request in step with the engine's state of it.      *)
EXTENDS OnlineSession, DequeProofs, FiniteSetTheorems

Places == {"loop", "arrivals", "admit", "cancelling", "cancellations", "plan", "execute",
           "wait", "ended", "raised"}

Statuses == {"unknown", "waiting", "running"} \cup Terminal

Records == [submitted : 0..NoTime, first_scheduled : 0..NoTime, first_token : 0..NoTime,
            finished : 0..NoTime, tokens : Nat, reason : {"none", "length", "cancelled", "rejected"}]

Shapes ==
    /\ now \in 0..MaxClock /\ pc \in Places
    /\ pending \in Seq(Keys) /\ cancels \in Seq(Keys)
    /\ preparing \in Seq(Keys) /\ todo \in Seq(Keys)
    /\ known \subseteq Keys /\ admitted \subseteq Keys /\ deferred \subseteq Keys
    /\ batch \subseteq Keys /\ outputs \subseteq Keys
    /\ status \in [Keys -> Statuses] /\ metrics \in [Keys -> Records]

(* Every key is in exactly one of the tables.                                *)
Tables ==
    /\ IsInjective(pending) /\ Range(pending) = Keys \ known
    /\ IsInjective(preparing) /\ Range(preparing) = known \ admitted
    /\ admitted \subseteq known
    /\ \A k \in Keys : status[k] = "unknown" <=> k \notin admitted

(* The pass over the preparations meets each of them once, and a             *)
(* cancellation is deferred while its request is prepared.                   *)
Pass ==
    /\ pc \in {"admit", "cancelling"} => IsInjective(todo)
    /\ pc = "admit" => Range(todo) \subseteq Range(preparing)
    /\ pc = "cancelling" => /\ todo # <<>>
                            /\ Range(Tail(todo)) \subseteq Range(preparing)
    /\ deferred \subseteq Range(preparing)
          \cup (IF pc = "cancelling" THEN {Head(todo)} ELSE {})

(* The record of a request that the engine still serves.                     *)
OpenRecord(m, k, running) ==
    /\ m.reason = "none" /\ m.tokens < Load[k].tokens /\ m.submitted <= now
    /\ m.first_scheduled # NoTime =>
          m.submitted <= m.first_scheduled /\ m.first_scheduled <= now
    /\ m.first_token # NoTime =>
          /\ m.first_scheduled # NoTime /\ m.first_scheduled <= m.first_token
          /\ m.first_token <= now
    /\ running => m.first_scheduled # NoTime

(* The record of a request that has got all its tokens.                      *)
CompleteRecord(m) ==
    /\ m.reason = "length" /\ m.submitted <= m.first_scheduled
    /\ m.first_scheduled <= m.first_token /\ m.first_token <= m.finished
    /\ m.finished <= now

(* Engine, metrics and outputs say the same of a request.                    *)
Agrees(k) ==
    /\ status[k] \in {"waiting", "running"} =>
          OpenRecord(metrics[k], k, status[k] = "running")
    /\ status[k] = "finished" => CompleteRecord(metrics[k])
    /\ status[k] \in {"cancelled", "rejected"} => metrics[k].reason = status[k]
    /\ status[k] = "finished" <=> k \in outputs

Agreement ==
    /\ \A k \in known : Load[k].arrival <= now
    /\ \A k \in Keys : Agrees(k)
    /\ pc = "execute" => \A k \in batch : status[k] = "running"

Ended == pc = "ended" => pending = <<>> /\ preparing = <<>> /\ Live = {}

IInv == Shapes /\ Tables /\ Pass /\ Agreement /\ Ended

-----------------------------------------------------------------------------
(* Engine calls *)

\* What the constants are.
LEMMA LoadTypes ==
    /\ MaxClock \in Nat /\ NoTime \in Nat /\ NoTime = MaxClock + 1 /\ Keys \subseteq Nat
    /\ \A k \in Keys : /\ Load[k].media \in BOOLEAN
                       /\ Load[k].arrival \in 0..MaxClock /\ Load[k].arrival \in 0..NoTime
                       /\ Load[k].tokens \in Nat \ {0}
  BY SessionAssumption DEF NoTime

\* _submit_sequence: the request waits with a fresh record, or is rejected.
LEMMA SubmitEffect ==
  ASSUME Shapes, NEW k \in Keys, Submit(k)
  PROVE  /\ status' \in [Keys -> Statuses] /\ metrics' \in [Keys -> Records]
         /\ \A j \in Keys : j # k => status'[j] = status[j] /\ metrics'[j] = metrics[j]
         /\ \/ /\ status'[k] = "waiting" /\ metrics'[k].reason = "none"
               /\ metrics'[k].tokens = 0 /\ metrics'[k].submitted = Load[k].arrival
               /\ metrics'[k].first_scheduled = NoTime /\ metrics'[k].first_token = NoTime
            \/ status'[k] = "rejected" /\ metrics'[k].reason = "rejected"
<1>1. /\ status \in [Keys -> Statuses] /\ metrics \in [Keys -> Records]
      /\ now \in 0..NoTime /\ NoTime \in 0..NoTime /\ Load[k].arrival \in 0..NoTime
  BY LoadTypes DEF Shapes
<1> DEFINE waits == [NoMetrics EXCEPT !.submitted = Load[k].arrival]
           refused == [NoMetrics EXCEPT !.submitted = Load[k].arrival,
                                        !.finished = now, !.reason = "rejected"]
<1>2. /\ waits \in Records /\ waits.reason = "none" /\ waits.tokens = 0
      /\ waits.submitted = Load[k].arrival /\ waits.first_scheduled = NoTime
      /\ waits.first_token = NoTime
  BY <1>1 DEF NoMetrics, Records
<1>3. refused \in Records /\ refused.reason = "rejected"
  BY <1>1 DEF NoMetrics, Records
<1> HIDE DEF waits, refused
<1>4. \/ status' = [status EXCEPT ![k] = "rejected"] /\ metrics' = [metrics EXCEPT ![k] = refused]
      \/ status' = [status EXCEPT ![k] = "waiting"] /\ metrics' = [metrics EXCEPT ![k] = waits]
  BY DEF Submit, refused, waits
<1>5. {"waiting", "rejected"} \subseteq Statuses
  BY DEF Statuses, Terminal
<1> QED BY <1>1, <1>2, <1>3, <1>4, <1>5

\* cancel_request: a request that the engine serves is cancelled, another one is left alone.
LEMMA CancelEffect ==
  ASSUME Shapes, NEW k \in Keys,
         status' = CancelledStatus(status, k), metrics' = CancelledMetrics(status, metrics, k)
  PROVE  /\ status' \in [Keys -> Statuses] /\ metrics' \in [Keys -> Records]
         /\ \A j \in Keys : j # k => status'[j] = status[j] /\ metrics'[j] = metrics[j]
         /\ \/ status'[k] = "cancelled" /\ metrics'[k].reason = "cancelled"
                  /\ status[k] \in {"waiting", "running"}
            \/ status'[k] = status[k] /\ metrics'[k] = metrics[k]
                  /\ status[k] \notin {"waiting", "running"}
<1>1. /\ status \in [Keys -> Statuses] /\ metrics \in [Keys -> Records] /\ now \in 0..NoTime
      /\ "cancelled" \in Statuses
  BY LoadTypes DEF Shapes, Statuses, Terminal
<1>2. CASE status[k] \in {"waiting", "running"}
  <2> DEFINE closed == [metrics[k] EXCEPT !.finished = now, !.reason = "cancelled"]
  <2>1. closed \in Records /\ closed.reason = "cancelled"
    BY <1>1 DEF Records
  <2>2. metrics' = [metrics EXCEPT ![k] = closed]
    BY <1>1, <1>2 DEF CancelledMetrics
  <2>3. status' = [status EXCEPT ![k] = "cancelled"]
    BY <1>1, <1>2 DEF CancelledStatus
  <2> HIDE DEF closed
  <2> QED BY <1>1, <1>2, <2>1, <2>2, <2>3
<1>3. CASE status[k] \notin {"waiting", "running"}
  <2>1. metrics' = metrics
    BY <1>3 DEF CancelledMetrics
  <2>2. status' = status
    BY <1>1, <1>3 DEF CancelledStatus
  <2> QED BY <1>1, <1>3, <2>1, <2>2
<1> QED BY <1>2, <1>3

\* A record that agrees goes on to agree while time passes.
LEMMA StillAgrees ==
  ASSUME Shapes, NEW k \in Keys, Agrees(k), now' \in Nat, now <= now',
         status'[k] = status[k], metrics'[k] = metrics[k], k \in outputs' <=> k \in outputs
  PROVE  Agrees(k)'
<1>1. /\ now \in Nat /\ metrics[k] \in Records
      /\ metrics[k].submitted \in Nat /\ metrics[k].first_scheduled \in Nat
      /\ metrics[k].first_token \in Nat /\ metrics[k].finished \in Nat
  BY LoadTypes DEF Shapes, Records
<1>2. OpenRecord(metrics[k], k, status[k] = "running")
      => OpenRecord(metrics[k], k, status[k] = "running")'
  <2>1. metrics[k].first_scheduled <= now => metrics[k].first_scheduled <= now'
    BY <1>1
  <2>2. metrics[k].first_token <= now => metrics[k].first_token <= now'
    BY <1>1
  <2>3. metrics[k].submitted <= now => metrics[k].submitted <= now'
    BY <1>1
  <2> QED BY <2>1, <2>2, <2>3 DEF OpenRecord
<1>3. CompleteRecord(metrics[k]) => CompleteRecord(metrics[k])'
  <2>1. metrics[k].finished <= now => metrics[k].finished <= now'
    BY <1>1
  <2> QED BY <2>1 DEF CompleteRecord
<1> QED BY <1>2, <1>3 DEF Agrees

-----------------------------------------------------------------------------
(* Steps that change no request *)

\* A step that only moves the control thread, a preparation or the clock.
LEMMA QuietKeeps ==
  ASSUME IInv,
         UNCHANGED <<pending, known, preparing, admitted, deferred, outputs, status, metrics, batch>>,
         now' \in 0..MaxClock, now <= now', pc' \in Places, cancels' \in Seq(Keys),
         todo' \in Seq(Keys), Pass', Ended', pc' = "execute" => pc = "execute"
  PROVE  IInv'
<1>1. Shapes /\ Tables /\ Agreement
  BY DEF IInv
<1>2. Shapes'
  BY <1>1 DEF Shapes
<1>3. Tables'
  BY <1>1 DEF Tables
<1>4. now \in Nat /\ now' \in Nat
  BY <1>1, LoadTypes DEF Shapes
<1>5. \A k \in Keys : Agrees(k)'
  BY <1>1, <1>4, StillAgrees DEF Agreement
<1>6. \A k \in known' : Load[k].arrival <= now'
  <2> SUFFICES ASSUME NEW k \in known PROVE Load[k].arrival <= now'
    BY <1>1
  <2>1. Load[k].arrival <= now /\ Load[k].arrival \in Nat
    BY <1>1, LoadTypes DEF Agreement, Shapes
  <2> QED BY <1>4, <2>1
<1>7. Agreement'
  BY <1>1, <1>5, <1>6 DEF Agreement
<1> QED BY <1>2, <1>3, <1>7 DEF IInv

\* The control thread goes on to its next place, or passes over an unfinished preparation.
LEMMA MoveKeeps ==
  ASSUME IInv,
         \/ Enter \/ End \/ NoMoreArrivals \/ SkipUnfinished \/ PreparationRaises \/ AdmitDone
         \/ NoMoreCancellations \/ Wait
  PROVE  IInv'
<1> USE DEF session
<1>1. /\ Shapes /\ Tables /\ Pass /\ Agreement
      /\ now \in 0..MaxClock /\ now <= now
  BY DEF IInv, Shapes
<1>2. UNCHANGED <<now, pending, cancels, known, preparing, admitted, deferred, outputs, status,
                  metrics, batch>>
  BY DEF Enter, End, NoMoreArrivals, SkipUnfinished, PreparationRaises, AdmitDone,
         NoMoreCancellations, Wait
<1>3. /\ pc \in {"loop", "arrivals", "admit", "cancellations", "wait"}
      /\ pc' \in Places \ {"cancelling", "execute"}
      /\ todo' \in Seq(Keys)
  <2>1. Enter \/ End => /\ pc = "loop" /\ pc' \in {"arrivals", "ended"} /\ todo' = todo
    BY DEF Enter, End, Goto
  <2>2. NoMoreArrivals => pc = "arrivals" /\ pc' = "admit" /\ todo' = preparing
    BY DEF NoMoreArrivals, Goto
  <2>3. SkipUnfinished => /\ pc = "admit" /\ pc' = "admit" /\ todo' = Tail(todo)
                          /\ todo # <<>>
    BY DEF SkipUnfinished
  <2>4. PreparationRaises \/ AdmitDone => /\ pc = "admit" /\ pc' \in {"raised", "cancellations"}
                                          /\ todo' = todo
    BY DEF PreparationRaises, AdmitDone, Goto
  <2>5. NoMoreCancellations \/ Wait => /\ pc \in {"cancellations", "wait"} /\ todo' = todo
                                       /\ pc' \in {"wait", "plan", "loop"}
    BY DEF NoMoreCancellations, Wait, Goto
  <2>6. todo \in Seq(Keys) /\ preparing \in Seq(Keys) /\ (todo # <<>> => Tail(todo) \in Seq(Keys))
    BY <1>1, HeadTailProperties DEF Shapes
  <2> QED BY <2>1, <2>2, <2>3, <2>4, <2>5, <2>6 DEF Places
<1>4. pc' = "admit" => IsInjective(todo') /\ Range(todo') \subseteq Range(preparing')
  <2>1. CASE NoMoreArrivals
    BY <1>1, <2>1 DEF NoMoreArrivals, Tables
  <2>2. CASE SkipUnfinished
    BY <1>1, <2>2, PopLeftProperties DEF SkipUnfinished, Pass, Shapes
  <2> QED BY <2>1, <2>2 DEF Enter, End, PreparationRaises, AdmitDone, NoMoreCancellations, Wait,
                            Goto
<1>5. Pass'
  BY <1>1, <1>2, <1>3, <1>4 DEF Pass
<1>6. Ended'
  BY <1>2 DEF Ended, Enter, End, NoMoreArrivals, SkipUnfinished, PreparationRaises, AdmitDone,
              NoMoreCancellations, Wait, Goto, IsFinished, Live
<1>7. cancels' \in Seq(Keys)
  BY <1>1, <1>2 DEF Shapes
<1> QED BY <1>1, <1>2, <1>3, <1>5, <1>6, <1>7, QuietKeeps

\* The workers, the clock and stuttering.
LEMMA WorkerKeeps ==
  ASSUME IInv, (\E k \in Keys : Worker(k)) \/ Tick \/ UNCHANGED vars
  PROVE  IInv'
<1> USE DEF session
<1>1. Shapes /\ Pass /\ Ended /\ now \in Nat /\ MaxClock \in Nat
  BY LoadTypes DEF IInv, Shapes
<1>2. /\ UNCHANGED <<pc, session, status, batch, metrics>>
      /\ now' = now \/ (now < MaxClock /\ now' = now + 1)
  BY DEF Worker, StartPreparation, FinishPreparation, Tick, vars
<1>3. now' \in 0..MaxClock /\ now <= now'
  BY <1>1, <1>2 DEF Shapes
<1>4. Pass' /\ Ended'
  BY <1>1, <1>2 DEF Pass, Ended, Live
<1>5. pc' \in Places /\ cancels' \in Seq(Keys) /\ todo' \in Seq(Keys)
  BY <1>1, <1>2 DEF Shapes
<1> QED BY <1>2, <1>3, <1>4, <1>5, QuietKeeps

-----------------------------------------------------------------------------
(* Arrivals *)

\* What a step does when it serves one request and leaves the others alone.
LEMMA OneRequestAgrees ==
  ASSUME IInv, NEW k \in Keys, now' = now, outputs' = outputs,
         \A j \in Keys : j # k => status'[j] = status[j] /\ metrics'[j] = metrics[j],
         Agrees(k)', \A j \in known' : j \in known \/ Load[j].arrival <= now,
         pc' # "execute"
  PROVE  Agreement'
<1>1. Shapes /\ Agreement /\ now' \in Nat /\ now <= now'
  BY LoadTypes DEF IInv, Shapes
<1>2. \A j \in Keys : j # k => Agrees(j)'
  BY <1>1, StillAgrees DEF Agreement
<1>3. \A j \in Keys : Agrees(j)'
  BY <1>2
<1>4. \A j \in known' : Load[j].arrival <= now'
  BY <1>1 DEF Agreement
<1> QED BY <1>3, <1>4 DEF Agreement

\* A submitted request agrees.
LEMMA SubmittedAgrees ==
  ASSUME IInv, NEW k \in Keys, k \notin admitted, Submit(k), Load[k].arrival <= now,
         now' = now, outputs' = outputs
  PROVE  Agrees(k)'
<1>1. Shapes /\ Load[k].tokens \in Nat \ {0}
  BY LoadTypes DEF IInv
<1>2. status[k] = "unknown" /\ Agrees(k)
  BY DEF IInv, Tables, Agreement
<1>3. k \notin outputs'
  BY <1>2 DEF Agrees
<1>4. CASE /\ status'[k] = "waiting" /\ metrics'[k].reason = "none"
           /\ metrics'[k].tokens = 0 /\ metrics'[k].submitted = Load[k].arrival
           /\ metrics'[k].first_scheduled = NoTime /\ metrics'[k].first_token = NoTime
  <2>1. 0 < Load[k].tokens
    BY <1>1
  <2>2. OpenRecord(metrics[k], k, status[k] = "running")'
    BY <1>4, <2>1 DEF OpenRecord, NoTime
  <2> QED BY <1>3, <1>4, <2>2 DEF Agrees
<1>5. CASE status'[k] = "rejected" /\ metrics'[k].reason = "rejected"
  BY <1>3, <1>5 DEF Agrees
<1> QED BY <1>1, <1>4, <1>5, SubmitEffect

\* A text request is submitted when it arrives.
LEMMA SubmitTextKeeps ==
  ASSUME IInv, SubmitText
  PROVE  IInv'
<1>0. PICK k : k = Head(pending)
  OBVIOUS
<1>1. /\ Shapes /\ Tables /\ Pass
      /\ pc = "arrivals" /\ pending # <<>> /\ Load[k].arrival <= now
      /\ Submit(k) /\ known' = known \cup {k} /\ admitted' = admitted \cup {k}
      /\ pending' = Tail(pending)
      /\ UNCHANGED <<now, pc, cancels, preparing, future, todo, deferred, batch, outputs>>
  BY <1>0 DEF IInv, SubmitText
<1>2. /\ k \in Keys /\ k \notin known /\ Tail(pending) \in Seq(Keys)
      /\ Range(Tail(pending)) = Range(pending) \ {k} /\ IsInjective(Tail(pending))
  BY <1>0, <1>1, PopLeftProperties DEF Shapes, Tables
<1>3. /\ status' \in [Keys -> Statuses] /\ metrics' \in [Keys -> Records]
      /\ \A j \in Keys : j # k => status'[j] = status[j] /\ metrics'[j] = metrics[j]
      /\ status'[k] # "unknown"
  BY <1>1, <1>2, SubmitEffect
<1>4. Shapes'
  BY <1>1, <1>2, <1>3 DEF Shapes
<1>5. Tables'
  <2>1. \A j \in Keys : status'[j] = "unknown" <=> j \notin admitted'
    BY <1>1, <1>2, <1>3 DEF Tables
  <2>2. k \notin Range(preparing)
    BY <1>1, <1>2 DEF Tables
  <2> QED BY <1>1, <1>2, <2>1, <2>2 DEF Tables
<1>6. Pass'
  BY <1>1 DEF Pass
<1>7. Agreement'
  <2>1. k \notin admitted
    BY <1>1, <1>2 DEF Tables
  <2>2. Agrees(k)'
    BY <1>1, <1>2, <2>1, SubmittedAgrees
  <2> QED BY <1>1, <1>2, <1>3, <2>2, OneRequestAgrees
<1>8. Ended'
  BY <1>1 DEF Ended
<1> QED BY <1>4, <1>5, <1>6, <1>7, <1>8 DEF IInv

\* The preparation of a media request starts when it arrives.
LEMMA SubmitMediaKeeps ==
  ASSUME IInv, SubmitMedia
  PROVE  IInv'
<1> DEFINE k == Head(pending)
<1>1. /\ Shapes /\ Tables /\ Pass /\ Agreement
      /\ pc = "arrivals" /\ pending # <<>> /\ Load[k].arrival <= now
      /\ known' = known \cup {k} /\ preparing' = Append(preparing, k)
      /\ pending' = Tail(pending)
      /\ UNCHANGED <<now, pc, cancels, todo, admitted, deferred, status, batch, outputs, metrics>>
  BY DEF IInv, SubmitMedia
<1>2. /\ k \in Keys /\ k \notin known /\ Tail(pending) \in Seq(Keys)
      /\ Range(Tail(pending)) = Range(pending) \ {k} /\ IsInjective(Tail(pending))
  BY <1>1, PopLeftProperties DEF Shapes, Tables
<1> HIDE DEF k
<1>3. /\ Append(preparing, k) \in Seq(Keys) /\ IsInjective(Append(preparing, k))
      /\ Range(Append(preparing, k)) = Range(preparing) \cup {k}
  <2>1. k \notin Range(preparing)
    BY <1>1, <1>2 DEF Tables
  <2> QED BY <1>1, <1>2, <2>1, AppendNewProperties DEF Shapes, Tables
<1>4. Shapes'
  BY <1>1, <1>2, <1>3 DEF Shapes
<1>5. Tables'
  BY <1>1, <1>2, <1>3 DEF Tables
<1>6. Pass'
  BY <1>1, <1>3 DEF Pass
<1>7. Agreement'
  <2>1. \A j \in Keys : Agrees(j)'
    BY <1>1, LoadTypes, StillAgrees DEF Agreement, Shapes
  <2> QED BY <1>1, <2>1 DEF Agreement
<1>8. Ended'
  BY <1>1 DEF Ended
<1> QED BY <1>4, <1>5, <1>6, <1>7, <1>8 DEF IInv

-----------------------------------------------------------------------------
(* Preparations and cancellations *)

\* The head of the pass leaves it; the rest of the pass stays in preparation.
LEMMA PassGoesOn ==
  ASSUME IInv, pc = "admit", todo # <<>>
  PROVE  /\ Head(todo) \in Keys /\ Head(todo) \in Range(preparing)
         /\ Tail(todo) \in Seq(Keys) /\ IsInjective(Tail(todo))
         /\ Range(Tail(todo)) \subseteq Range(preparing) \ {Head(todo)}
         /\ Without(preparing, Head(todo)) \in Seq(Keys)
         /\ IsInjective(Without(preparing, Head(todo)))
         /\ Range(Without(preparing, Head(todo))) = Range(preparing) \ {Head(todo)}
<1>1. /\ todo \in Seq(Keys) /\ IsInjective(todo) /\ Range(todo) \subseteq Range(preparing)
      /\ preparing \in Seq(Keys) /\ IsInjective(preparing)
  BY DEF IInv, Shapes, Pass, Tables
<1>2. /\ Head(todo) \in Keys /\ Head(todo) \in Range(todo)
      /\ Tail(todo) \in Seq(Keys) /\ IsInjective(Tail(todo))
      /\ Range(Tail(todo)) = Range(todo) \ {Head(todo)}
  BY <1>1, PopLeftProperties
<1> QED BY <1>1, <1>2, WithoutProperties

\* A prepared request is submitted; a deferred cancellation of it comes next.
LEMMA AdmitPreparedKeeps ==
  ASSUME IInv, AdmitPrepared
  PROVE  IInv'
<1>0. PICK k : k = Head(todo)
  OBVIOUS
<1>1. /\ Shapes /\ Tables /\ Pass /\ Agreement
      /\ pc = "admit" /\ todo # <<>>
      /\ Submit(k) /\ admitted' = admitted \cup {k} /\ preparing' = Without(preparing, k)
      /\ \/ k \in deferred /\ pc' = "cancelling" /\ todo' = todo
         \/ k \notin deferred /\ pc' = "admit" /\ todo' = Tail(todo)
      /\ UNCHANGED <<now, pending, cancels, known, future, deferred, batch, outputs>>
  BY <1>0 DEF IInv, AdmitPrepared, Goto
<1>2. /\ k \in Keys /\ k \in Range(preparing)
      /\ Tail(todo) \in Seq(Keys) /\ IsInjective(Tail(todo))
      /\ Range(Tail(todo)) \subseteq Range(preparing')
      /\ preparing' \in Seq(Keys) /\ IsInjective(preparing')
      /\ Range(preparing') = Range(preparing) \ {k}
  BY <1>0, <1>1, PassGoesOn
<1>3. /\ status' \in [Keys -> Statuses] /\ metrics' \in [Keys -> Records]
      /\ \A j \in Keys : j # k => status'[j] = status[j] /\ metrics'[j] = metrics[j]
      /\ status'[k] # "unknown"
  BY <1>1, <1>2, SubmitEffect
<1>4. k \in known /\ k \notin admitted
  BY <1>1, <1>2 DEF Tables
<1>5. Shapes'
  BY <1>1, <1>2, <1>3 DEF Shapes, Places
<1>6. Tables'
  <2>1. \A j \in Keys : status'[j] = "unknown" <=> j \notin admitted'
    BY <1>1, <1>2, <1>3 DEF Tables
  <2> QED BY <1>1, <1>2, <1>4, <2>1 DEF Tables
<1>7. Pass'
  <2>1. deferred \subseteq Range(preparing)
    BY <1>1 DEF Pass
  <2>2. CASE k \in deferred
    <3>1. IsInjective(todo') /\ todo' # <<>> /\ Tail(todo') = Tail(todo) /\ Head(todo') = k
      BY <1>0, <1>1, <2>2 DEF Pass
    <3> QED BY <1>1, <1>2, <2>1, <2>2, <3>1 DEF Pass
  <2>3. CASE k \notin deferred
    BY <1>1, <1>2, <2>1, <2>3 DEF Pass
  <2> QED BY <2>2, <2>3
<1>8. Agreement'
  <2>1. Load[k].arrival <= now
    BY <1>1, <1>4 DEF Agreement
  <2>2. Agrees(k)'
    BY <1>1, <1>2, <1>4, <2>1, SubmittedAgrees
  <2> QED BY <1>1, <1>2, <1>3, <2>2, OneRequestAgrees
<1>9. Ended'
  BY <1>1 DEF Ended
<1> QED BY <1>5, <1>6, <1>7, <1>8, <1>9 DEF IInv

\* A cancelled request agrees.
LEMMA CancelledAgrees ==
  ASSUME IInv, NEW k \in Keys, now' = now, outputs' = outputs, pc' # "execute", known' = known,
         status' = CancelledStatus(status, k), metrics' = CancelledMetrics(status, metrics, k)
  PROVE  Agreement'
<1>1. Shapes /\ Agrees(k) /\ now' \in Nat /\ now <= now'
  BY LoadTypes DEF IInv, Shapes, Agreement
<1>2. \A j \in Keys : j # k => status'[j] = status[j] /\ metrics'[j] = metrics[j]
  BY <1>1, CancelEffect
<1>3. CASE status'[k] = "cancelled" /\ metrics'[k].reason = "cancelled"
           /\ status[k] \in {"waiting", "running"}
  <2>1. k \notin outputs
    BY <1>1, <1>3 DEF Agrees
  <2>2. Agrees(k)'
    BY <1>3, <2>1 DEF Agrees
  <2> QED BY <1>2, <2>2, OneRequestAgrees
<1>4. CASE status'[k] = status[k] /\ metrics'[k] = metrics[k]
  <2>1. Agrees(k)'
    BY <1>1, <1>4, StillAgrees
  <2> QED BY <1>2, <2>1, OneRequestAgrees
<1> QED BY <1>1, <1>3, <1>4, CancelEffect

\* The deferred cancellation is applied to the request just submitted.
LEMMA CancelPreparedKeeps ==
  ASSUME IInv, CancelPrepared
  PROVE  IInv'
<1>0. PICK k : k = Head(todo)
  OBVIOUS
<1>1. /\ Shapes /\ Tables /\ Pass
      /\ pc = "cancelling" /\ pc' = "admit" /\ todo # <<>> /\ todo' = Tail(todo)
      /\ status' = CancelledStatus(status, k) /\ metrics' = CancelledMetrics(status, metrics, k)
      /\ deferred' = deferred \ {k}
      /\ UNCHANGED <<now, pending, cancels, known, preparing, future, admitted, batch, outputs>>
  BY <1>0 DEF IInv, CancelPrepared, Goto, Pass
<1>2. k \in Keys /\ Tail(todo) \in Seq(Keys) /\ IsInjective(Tail(todo))
  BY <1>0, <1>1, PopLeftProperties DEF Shapes, Pass
<1>3. /\ status' \in [Keys -> Statuses] /\ metrics' \in [Keys -> Records]
      /\ \A j \in Keys : status'[j] = "unknown" <=> status[j] = "unknown"
  BY <1>1, <1>2, CancelEffect
<1>4. Shapes'
  BY <1>1, <1>2, <1>3 DEF Shapes, Places
<1>5. Tables'
  BY <1>1, <1>3 DEF Tables
<1>6. Pass'
  BY <1>0, <1>1, <1>2 DEF Pass
<1>7. Agreement'
  BY <1>1, <1>2, CancelledAgrees
<1>8. Ended'
  BY <1>1 DEF Ended
<1> QED BY <1>4, <1>5, <1>6, <1>7, <1>8 DEF IInv

\* A cancellation that is due: applied, deferred while the request is prepared, or dropped.
LEMMA ApplyCancellationKeeps ==
  ASSUME IInv, ApplyCancellation
  PROVE  IInv'
<1>0. PICK k : k = Head(cancels)
  OBVIOUS
<1>1. /\ Shapes /\ Tables /\ Pass /\ Agreement
      /\ pc = "cancellations" /\ cancels # <<>> /\ cancels' = Tail(cancels)
      /\ \/ /\ status' = CancelledStatus(status, k)
            /\ metrics' = CancelledMetrics(status, metrics, k)
            /\ deferred' = deferred
         \/ /\ k \notin admitted /\ deferred' = deferred \cup ({k} \cap known)
            /\ UNCHANGED <<status, metrics>>
      /\ UNCHANGED <<now, pc, pending, known, preparing, future, todo, admitted, batch, outputs>>
  BY <1>0 DEF IInv, ApplyCancellation
<1>2. k \in Keys /\ Tail(cancels) \in Seq(Keys)
  BY <1>0, <1>1, HeadTailProperties DEF Shapes
<1>3. CASE /\ status' = CancelledStatus(status, k)
           /\ metrics' = CancelledMetrics(status, metrics, k)
           /\ deferred' = deferred
  <2>1. /\ status' \in [Keys -> Statuses] /\ metrics' \in [Keys -> Records]
        /\ \A j \in Keys : status'[j] = "unknown" <=> status[j] = "unknown"
    BY <1>1, <1>2, <1>3, CancelEffect
  <2>2. Shapes'
    BY <1>1, <1>2, <1>3, <2>1 DEF Shapes
  <2>3. Tables' /\ Pass'
    BY <1>1, <1>3, <2>1 DEF Tables, Pass
  <2>4. Agreement'
    BY <1>1, <1>2, <1>3, CancelledAgrees
  <2>5. Ended'
    BY <1>1 DEF Ended
  <2> QED BY <2>2, <2>3, <2>4, <2>5 DEF IInv
<1>4. CASE /\ k \notin admitted /\ deferred' = deferred \cup ({k} \cap known)
           /\ UNCHANGED <<status, metrics>>
  <2>1. Shapes'
    BY <1>1, <1>2, <1>4 DEF Shapes
  <2>2. Tables' /\ Pass'
    BY <1>1, <1>4 DEF Tables, Pass
  <2>3. \A j \in Keys : Agrees(j)'
    BY <1>1, <1>4, LoadTypes, StillAgrees DEF Agreement, Shapes
  <2>4. Agreement' /\ Ended'
    BY <1>1, <2>3 DEF Agreement, Ended
  <2> QED BY <2>1, <2>2, <2>4 DEF IInv
<1> QED BY <1>1, <1>3, <1>4

-----------------------------------------------------------------------------
(* Engine steps *)

\* The engine plans a batch of live requests.
LEMMA PlanKeeps ==
  ASSUME IInv, Plan
  PROVE  IInv'
<1> USE DEF session
<1>1. /\ Shapes /\ Tables /\ Pass /\ Agreement
      /\ pc = "plan" /\ pc' = "execute" /\ UNCHANGED <<now, session, future>>
  BY DEF IInv, Plan, Goto
<1>2. PICK b \in SUBSET Live :
        /\ batch' = b
        /\ status' = [k \in Keys |-> IF k \in b THEN "running" ELSE status[k]]
        /\ metrics' = [k \in Keys |->
              IF k \in b /\ metrics[k].first_scheduled = NoTime
              THEN [metrics[k] EXCEPT !.first_scheduled = now]
              ELSE metrics[k]]
  BY DEF Plan
<1>3. /\ NoTime \in Nat /\ now \in Nat /\ now < NoTime /\ now \in 0..NoTime /\ b \subseteq Keys
      /\ status \in [Keys -> Statuses] /\ metrics \in [Keys -> Records]
  BY <1>1, LoadTypes DEF Shapes, Live
<1>4. ASSUME NEW k \in Keys
      PROVE  /\ metrics'[k] \in Records /\ status'[k] \in Statuses
             /\ status'[k] = "unknown" <=> status[k] = "unknown"
             /\ Agrees(k)'
  <2>1. metrics[k] \in Records /\ status[k] \in Statuses /\ Agrees(k)
    BY <1>1, <1>3 DEF Agreement
  <2>2. CASE k \notin b
    <3>1. metrics'[k] = metrics[k] /\ status'[k] = status[k]
      BY <1>2, <2>2
    <3> QED BY <1>1, <1>3, <2>1, <3>1, StillAgrees
  <2>3. CASE k \in b
    <3>1. status[k] \in {"waiting", "running"} /\ status'[k] = "running"
      BY <1>2, <2>3 DEF Live
    <3>2. OpenRecord(metrics[k], k, status[k] = "running") /\ k \notin outputs
      BY <2>1, <3>1 DEF Agrees
    <3>3. CASE metrics[k].first_scheduled = NoTime
      <4>1. metrics'[k] = [metrics[k] EXCEPT !.first_scheduled = now]
        BY <1>2, <2>3, <3>3
      <4>2. /\ metrics'[k] \in Records /\ metrics'[k].first_scheduled = now
            /\ metrics'[k].reason = metrics[k].reason /\ metrics'[k].tokens = metrics[k].tokens
            /\ metrics'[k].submitted = metrics[k].submitted
            /\ metrics'[k].first_token = metrics[k].first_token
        BY <1>3, <2>1, <4>1 DEF Records
      <4>3. metrics[k].first_token = NoTime
        BY <3>2, <3>3 DEF OpenRecord
      <4>4. OpenRecord(metrics[k], k, status[k] = "running")'
        BY <1>1, <1>3, <3>2, <4>2, <4>3 DEF OpenRecord, NoTime
      <4> QED BY <1>1, <3>1, <3>2, <4>2, <4>4 DEF Agrees, Statuses
    <3>4. CASE metrics[k].first_scheduled # NoTime
      <4>1. metrics'[k] = metrics[k]
        BY <1>2, <3>4
      <4>2. OpenRecord(metrics[k], k, status[k] = "running")'
        BY <1>1, <3>2, <3>4, <4>1 DEF OpenRecord, NoTime
      <4> QED BY <1>1, <2>1, <3>1, <3>2, <4>1, <4>2 DEF Agrees, Statuses
    <3> QED BY <3>3, <3>4
  <2> QED BY <2>2, <2>3
<1>5. status' \in [Keys -> Statuses] /\ metrics' \in [Keys -> Records]
  <2>1. DOMAIN status' = Keys /\ DOMAIN metrics' = Keys
    BY <1>2
  <2>2. /\ status' = [k \in Keys |-> status'[k]]
        /\ metrics' = [k \in Keys |-> metrics'[k]]
    BY <1>2
  <2> QED BY <1>4, <2>2
<1>6. Shapes'
  BY <1>1, <1>2, <1>3, <1>5 DEF Shapes, Places
<1>7. Tables' /\ Pass' /\ Ended'
  BY <1>1, <1>4 DEF Tables, Pass, Ended
<1>8. Agreement'
  BY <1>1, <1>2, <1>3, <1>4 DEF Agreement
<1> QED BY <1>6, <1>7, <1>8 DEF IInv

\* The batch is executed: some members get a token, some of those are finished.
LEMMA ExecuteKeeps ==
  ASSUME IInv, Execute
  PROVE  IInv'
<1>1. /\ Shapes /\ Tables /\ Pass /\ Agreement
      /\ pc = "execute" /\ pc' = "loop" /\ batch' = {}
      /\ UNCHANGED <<now, pending, cancels, known, preparing, future, todo, admitted, deferred>>
  BY DEF IInv, Execute, Goto
<1>2. PICK b \in SUBSET batch :
        /\ metrics' = [k \in Keys |->
              IF k \in b THEN Closed(Tokened(metrics[k]), k) ELSE metrics[k]]
        /\ status' = [k \in Keys |->
              IF k \in b /\ metrics[k].tokens + 1 = Load[k].tokens
              THEN "finished" ELSE status[k]]
        /\ outputs' = outputs \cup
              {k \in b : metrics[k].tokens + 1 = Load[k].tokens}
  BY DEF Execute
<1>3. /\ NoTime \in Nat /\ now \in Nat /\ now < NoTime /\ now \in 0..NoTime /\ b \subseteq Keys
      /\ status \in [Keys -> Statuses] /\ metrics \in [Keys -> Records]
  BY <1>1, LoadTypes DEF Shapes
<1>4. ASSUME NEW k \in Keys
      PROVE  /\ metrics'[k] \in Records /\ status'[k] \in Statuses
             /\ status'[k] = "unknown" <=> status[k] = "unknown"
             /\ Agrees(k)'
  <2>1. metrics[k] \in Records /\ status[k] \in Statuses /\ Agrees(k)
    BY <1>1, <1>3 DEF Agreement
  <2>2. CASE k \notin b
    <3>1. metrics'[k] = metrics[k] /\ status'[k] = status[k] /\ (k \in outputs' <=> k \in outputs)
      BY <1>2, <2>2
    <3> QED BY <1>1, <1>3, <2>1, <3>1, StillAgrees
  <2>3. CASE k \in b
    <3>1. status[k] = "running" /\ k \notin outputs
      BY <1>1, <2>1, <2>3 DEF Agreement, Agrees
    <3>2. OpenRecord(metrics[k], k, TRUE)
      BY <2>1, <3>1 DEF Agrees
    <3> DEFINE m == Tokened(metrics[k])
    <3>3. /\ m \in Records /\ m.tokens = metrics[k].tokens + 1 /\ m.reason = "none"
          /\ m.submitted = metrics[k].submitted
          /\ m.first_scheduled = metrics[k].first_scheduled
          /\ m.first_token = IF metrics[k].first_token = NoTime THEN now
                             ELSE metrics[k].first_token
      <4>1. m = [metrics[k] EXCEPT !.tokens = metrics[k].tokens + 1,
                                   !.first_token = IF metrics[k].first_token = NoTime THEN now
                                                   ELSE metrics[k].first_token]
        BY DEF Tokened
      <4>2. /\ metrics[k].tokens + 1 \in Nat
            /\ (IF metrics[k].first_token = NoTime THEN now ELSE metrics[k].first_token) \in 0..NoTime
        BY <1>3, <2>1 DEF Records
      <4> HIDE DEF m
      <4> QED BY <2>1, <3>2, <4>1, <4>2 DEF Records, OpenRecord
    <3> HIDE DEF m
    <3>4. /\ m.first_token # NoTime /\ m.submitted <= now
          /\ m.first_scheduled # NoTime /\ m.first_scheduled <= m.first_token
          /\ m.first_token <= now /\ m.submitted <= m.first_scheduled
          /\ m.first_scheduled <= now
      BY <1>3, <3>2, <3>3 DEF OpenRecord
    <3>5. /\ metrics[k].tokens \in Nat /\ Load[k].tokens \in Nat
          /\ metrics[k].tokens < Load[k].tokens
      BY <2>1, <3>2, LoadTypes DEF Records, OpenRecord
    <3>6. CASE metrics[k].tokens + 1 = Load[k].tokens
      <4>1. /\ metrics'[k] = [m EXCEPT !.finished = now, !.reason = "length"]
            /\ status'[k] = "finished" /\ k \in outputs'
        BY <1>2, <2>3, <3>3, <3>6 DEF Closed, m
      <4>2. /\ metrics'[k] \in Records /\ metrics'[k].finished = now /\ metrics'[k].reason = "length"
            /\ metrics'[k].submitted = m.submitted /\ metrics'[k].first_token = m.first_token
            /\ metrics'[k].first_scheduled = m.first_scheduled
        BY <1>3, <3>3, <4>1 DEF Records
      <4>3. CompleteRecord(metrics[k])'
        BY <1>1, <1>3, <3>4, <4>2 DEF CompleteRecord
      <4> QED BY <3>1, <4>1, <4>2, <4>3 DEF Agrees, Statuses, Terminal
    <3>7. CASE metrics[k].tokens + 1 # Load[k].tokens
      <4>1. /\ metrics'[k] = m /\ status'[k] = "running" /\ k \notin outputs'
        BY <1>2, <2>3, <3>1, <3>3, <3>7 DEF Closed, m
      <4>2. m.tokens < Load[k].tokens
        BY <3>3, <3>5, <3>7
      <4>3. OpenRecord(metrics[k], k, status[k] = "running")'
        BY <1>1, <3>3, <3>4, <4>1, <4>2 DEF OpenRecord, NoTime
      <4> QED BY <3>1, <3>3, <4>1, <4>3 DEF Agrees, Statuses
    <3> QED BY <3>6, <3>7
  <2> QED BY <2>2, <2>3
<1>5. status' \in [Keys -> Statuses] /\ metrics' \in [Keys -> Records]
  <2>1. /\ status' = [k \in Keys |-> status'[k]]
        /\ metrics' = [k \in Keys |-> metrics'[k]]
    BY <1>2
  <2> QED BY <1>4, <2>1
<1>6. Shapes'
  BY <1>1, <1>2, <1>3, <1>5 DEF Shapes, Places
<1>7. Tables' /\ Pass' /\ Ended'
  BY <1>1, <1>4 DEF Tables, Pass, Ended
<1>8. Agreement'
  BY <1>1, <1>4 DEF Agreement
<1> QED BY <1>6, <1>7, <1>8 DEF IInv

-----------------------------------------------------------------------------
(* The invariant and what follows from it *)

\* _new_run_state: every request is still to arrive.
LEMMA InitEstablishes ==
  ASSUME Init
  PROVE  IInv
<1>1. IsFiniteSet(Keys) /\ Cardinality(Keys) \in Nat
  BY SessionAssumption, FS_CardinalityType
<1>2. /\ pending \in [1..Cardinality(Keys) -> Keys] /\ Range(pending) = Keys
      /\ \A i, j \in DOMAIN pending : i < j => ArrivesBefore(pending[i], pending[j])
  BY DEF Init, Sorted
<1>3. pending \in Seq(Keys)
  BY <1>1, <1>2, SeqDef
<1>4. IsInjective(pending)
  <2>1. \A k \in Keys : ~ArrivesBefore(k, k)
    BY LoadTypes DEF ArrivesBefore
  <2> SUFFICES ASSUME NEW i \in 1..Cardinality(Keys), NEW j \in 1..Cardinality(Keys),
                      pending[i] = pending[j], i # j
               PROVE  FALSE
    BY <1>2 DEF IsInjective
  <2>2. pending[i] \in Keys /\ (i < j \/ j < i)
    BY <1>1, <1>2
  <2> QED BY <1>2, <2>1, <2>2
<1>5. cancels \in Seq(Keys)
  <2> DEFINE S == {k \in Keys : Load[k].cancel # NoCancel}
  <2>1. Cardinality(S) \in Nat
    BY <1>1, FS_Subset, FS_CardinalityType
  <2>2. cancels \in [1..Cardinality(S) -> S]
    BY DEF Init, Sorted
  <2>3. cancels \in [1..Cardinality(S) -> Keys]
    BY <2>2
  <2> HIDE DEF S
  <2> QED BY <2>1, <2>3, SeqDef
<1>6. <<>> \in Seq(Keys) /\ Range(<<>>) = {} /\ IsInjective(<<>>)
  BY NoElements
<1>7. Shapes
  <2>1. NoMetrics \in Records /\ 0 \in 0..MaxClock
    BY LoadTypes DEF NoMetrics, Records
  <2> QED BY <1>3, <1>5, <1>6, <2>1 DEF Init, Shapes, Places, Statuses
<1>8. Tables
  BY <1>2, <1>4, <1>6 DEF Init, Tables
<1>9. Pass /\ Ended
  BY DEF Init, Pass, Ended
<1>10. Agreement
  BY DEF Init, Agreement, Agrees
<1> QED BY <1>7, <1>8, <1>9, <1>10 DEF IInv

\* Every step keeps the invariant.
LEMMA NextKeeps ==
  ASSUME IInv, [Next]_vars
  PROVE  IInv'
<1>1. CASE (\E k \in Keys : Worker(k)) \/ Tick \/ UNCHANGED vars
  BY <1>1, WorkerKeeps
<1>2. CASE Control
  <2>1. CASE \/ Enter \/ End \/ NoMoreArrivals \/ SkipUnfinished \/ PreparationRaises \/ AdmitDone
             \/ NoMoreCancellations \/ Wait
    BY <2>1, MoveKeeps
  <2>2. CASE SubmitText \/ SubmitMedia
    BY <2>2, SubmitTextKeeps, SubmitMediaKeeps
  <2>3. CASE AdmitPrepared \/ CancelPrepared \/ ApplyCancellation
    BY <2>3, AdmitPreparedKeeps, CancelPreparedKeeps, ApplyCancellationKeeps
  <2>4. CASE Plan \/ Execute
    BY <2>4, PlanKeeps, ExecuteKeeps
  <2> QED BY <1>2, <2>1, <2>2, <2>3, <2>4 DEF Control
<1> QED BY <1>1, <1>2 DEF Next

\* The session keeps its tables, the pass over its preparations and its records in step.
THEOREM SessionInvariant == Spec => []IInv
<1>1. Init => IInv
  BY InitEstablishes
<1>2. IInv /\ [Next]_vars => IInv'
  BY NextKeeps
<1> QED BY <1>1, <1>2, PTL DEF Spec

\* OnlineServingSession.run: when the loop ends, every request has ended, in the same way in
\* the engine, the metrics and the outputs, with latencies in order; no cancellation that came
\* during a preparation is left over.
THEOREM SessionResults == Spec => []ResultsConsistent
<1>1. IInv => ResultsConsistent
  <2> SUFFICES ASSUME IInv PROVE ResultsConsistent
    OBVIOUS
  <2>1. Shapes /\ Tables /\ Pass /\ Agreement /\ Ended
    BY DEF IInv
  <2>2. ASSUME pc = "ended", NEW k \in Keys
        PROVE  /\ k \in known /\ status[k] \in Terminal
               /\ metrics[k].reason =
                     IF status[k] = "finished" THEN "length" ELSE status[k]
               /\ status[k] = "finished" <=> k \in outputs
               /\ Summarizable(metrics[k])
    <3>1. pending = <<>> /\ preparing = <<>> /\ Live = {}
      BY <2>1, <2>2 DEF Ended
    <3>2. Range(pending) = {} /\ Range(preparing) = {}
      BY <3>1, NoElements
    <3>3. k \in known /\ status[k] # "unknown" /\ Agrees(k)
      BY <2>1, <3>2 DEF Tables, Agreement
    <3>4. status[k] \in Terminal
      BY <2>1, <3>1, <3>3 DEF Shapes, Statuses, Live
    <3>5. CASE status[k] = "finished"
      <4>1. /\ CompleteRecord(metrics[k]) /\ now \in Nat /\ MaxClock \in Nat /\ now <= MaxClock
            /\ metrics[k].finished \in Nat
        BY <2>1, <3>3, <3>5, LoadTypes DEF Agrees, Shapes, Records
      <4> QED BY <3>3, <3>4, <3>5, <4>1 DEF Agrees, CompleteRecord, Summarizable
    <3>6. CASE status[k] \in {"cancelled", "rejected"}
      BY <3>3, <3>4, <3>6 DEF Agrees, Summarizable
    <3> QED BY <3>4, <3>5, <3>6 DEF Terminal
  <2> QED BY <2>1, <2>2 DEF ResultsConsistent, Pass
<1> QED BY <1>1, SessionInvariant, PTL
=============================================================================
